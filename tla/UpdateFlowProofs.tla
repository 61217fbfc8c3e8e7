-------------------------- MODULE UpdateFlowProofs --------------------------
(***************************************************************************)
(* For every set of sizes, every number of changes and any length of the   *)
(* queues: automatic updates never stop by themselves, and when nothing is *)
(* under way the window shows what the server believes to have sent.       *)
(***************************************************************************)
EXTENDS UpdateFlow, SequenceTheorems, TLAPS

Requests == {"incremental", "full"}

\* A rectangle is only read while the count says that one is left.
Counting == conn.reader = "rectHeader" => conn.left > 0

IInv == TypeOK /\ Counting /\ NeverStarved

\* A handler that leaves the reader at the beginning of a message has
\* requested the next update, or has set the timer that will.
Fed(r) ==
    /\ r.conn \in Connection
    /\ r.requests \in Seq(Requests)
    /\ r.conn.reader = "rectHeader" => r.conn.left > 0
    /\ \/ r.conn.interval = "manual" \/ r.conn.timer
       \/ r.conn.reader # "type" \/ r.requests # <<>>

-----------------------------------------------------------------------------
(* Requests.                                                               *)

\* What is written follows what has been written.
LEMMA Written ==
    ASSUME NEW s \in Seq(Requests), NEW t \in Seq(Requests)
    PROVE  /\ s \o t \in Seq(Requests)
           /\ s # <<>> \/ t # <<>> => s \o t # <<>>
  <1>1. s \o t \in Seq(Requests) /\ Len(s \o t) = Len(s) + Len(t)
    BY ConcatProperties
  <1>2. s # <<>> \/ t # <<>> => Len(s) + Len(t) > 0
    BY EmptySeq, LenProperties
  <1>3. s # <<>> \/ t # <<>> => s \o t # <<>>
    BY <1>1, <1>2
  <1> QED
    BY <1>1, <1>3

\* A connection and the requests it has written.
LEMMA FedBy ==
    ASSUME NEW c \in Connection, NEW s \in Seq(Requests),
           c.reader = "rectHeader" => c.left > 0,
           c.interval = "manual" \/ c.timer \/ c.reader # "type" \/ s # <<>>
    PROVE  Fed(Result(c, s))
  BY DEF Fed, Result

\* The number that stands for an unknown number of rectangles.
LEMMA ManyIsNat == Many \in Nat /\ 2 <= Many
  BY DEF Many

\* Versions of the screen are versions of a frame buffer, which may be blank.
LEMMA Versions ==
    /\ Blank \in Blank .. MaxVersion
    /\ 0 .. MaxVersion \subseteq Blank .. MaxVersion
  <1>1. MaxVersion \in Nat
    BY UpdateFlowAssumption
  <1> QED
    BY <1>1 DEF Blank

\* queueUpdateRequest makes a request or sets the timer.
LEMMA QueueUpdateRequestFeeds ==
    ASSUME NEW c \in Connection, c.reader = "type"
    PROVE  Fed(QueueUpdateRequest(c))
  <1>1. CASE c.interval # "none"
    <2>1. QueueUpdateRequest(c) = Result([c EXCEPT !.timer = TRUE], <<>>)
      BY <1>1 DEF QueueUpdateRequest
    <2>2. /\ [c EXCEPT !.timer = TRUE] \in Connection
          /\ [c EXCEPT !.timer = TRUE].timer
          /\ [c EXCEPT !.timer = TRUE].reader = "type"
      BY DEF Connection
    <2>3. <<>> \in Seq(Requests)
      OBVIOUS
    <2> QED
      BY <2>1, <2>2, <2>3, FedBy
  <1>2. CASE c.interval = "none"
    <2>1. QueueUpdateRequest(c)
             = Result([c EXCEPT !.timer = FALSE], <<"incremental">>)
      BY <1>2 DEF QueueUpdateRequest, RequestFrameBufferUpdate
    <2>2. /\ [c EXCEPT !.timer = FALSE] \in Connection
          /\ [c EXCEPT !.timer = FALSE].reader = "type"
      BY DEF Connection
    <2>3. <<"incremental">> \in Seq(Requests) /\ <<"incremental">> # <<>>
      BY DEF Requests
    <2> QED
      BY <2>1, <2>2, <2>3, FedBy
  <1> QED
    BY <1>1, <1>2

\* requestFrameBufferUpdate: stops the timer and makes a request.
LEMMA RequestFeeds ==
    ASSUME NEW c \in Connection, c.reader = "rectHeader" => c.left > 0
    PROVE  Fed(RequestFrameBufferUpdate(c))
  <1>1. RequestFrameBufferUpdate(c)
           = Result([c EXCEPT !.timer = FALSE], <<"incremental">>)
    BY DEF RequestFrameBufferUpdate
  <1>2. /\ [c EXCEPT !.timer = FALSE] \in Connection
        /\ [c EXCEPT !.timer = FALSE].reader = c.reader
        /\ [c EXCEPT !.timer = FALSE].left = c.left
    BY DEF Connection
  <1>3. <<"incremental">> \in Seq(Requests) /\ <<"incremental">> # <<>>
    BY DEF Requests
  <1> QED
    BY <1>1, <1>2, <1>3, FedBy

\* updateComplete, after a change of size or not, feeds the next update.
LEMMA UpdateCompleteFeeds ==
    ASSUME NEW c \in Connection
    PROVE  Fed(UpdateComplete(c))
  <1>1. CASE c.resize # Nowhere
    <2>1. UpdateComplete(c) = Result(Resize(c), <<"full">>)
      BY <1>1 DEF UpdateComplete
    <2>2. Resize(c) \in Connection /\ Resize(c).reader = "type"
      <3>1. c.resize \in Sizes
        BY <1>1 DEF Connection
      <3>2. [size |-> c.resize, version |-> Blank]
               \in [size : Sizes, version : Blank .. MaxVersion]
        BY <3>1, Versions
      <3> QED
        BY <3>2, Versions DEF Resize, Connection
    <2>3. <<"full">> \in Seq(Requests) /\ <<"full">> # <<>>
      BY DEF Requests
    <2> QED
      BY <2>1, <2>2, <2>3, FedBy
  <1>2. Display(c) \in Connection /\ Display(c).reader = "type"
        /\ Display(c).interval = c.interval
    BY DEF Display, Connection
  <1>3. CASE c.resize = Nowhere /\ c.interval = "manual"
    <2>1. UpdateComplete(c) = Result(Display(c), <<>>)
      BY <1>3 DEF UpdateComplete
    <2>2. <<>> \in Seq(Requests)
      OBVIOUS
    <2> QED
      BY <1>2, <1>3, <2>1, <2>2, FedBy
  <1>4. CASE c.resize = Nowhere /\ c.interval # "manual"
    BY <1>2, <1>4, QueueUpdateRequestFeeds DEF UpdateComplete
  <1> QED
    BY <1>1, <1>3, <1>4

\* didRect: goes on to the next rectangle or ends the update.
LEMMA DidRectFeeds ==
    ASSUME NEW c \in Connection, c.left > 0
    PROVE  Fed(DidRect(c))
  <1> DEFINE d == [c EXCEPT !.left = @ - 1]
  <1>1. d \in Connection /\ d.left = c.left - 1
    BY ManyIsNat DEF Connection
  <1>2. CASE d.left > 0
    <2>1. DidRect(c) = Result([d EXCEPT !.reader = "rectHeader"], <<>>)
      BY <1>2 DEF DidRect
    <2>2. [d EXCEPT !.reader = "rectHeader"] \in Connection
      BY <1>1 DEF Connection
    <2>3. [d EXCEPT !.reader = "rectHeader"].left = d.left
          /\ [d EXCEPT !.reader = "rectHeader"].reader = "rectHeader"
      BY <1>1 DEF Connection
    <2>4. <<>> \in Seq(Requests)
      OBVIOUS
    <2> HIDE DEF d
    <2> QED
      BY <1>2, <2>1, <2>2, <2>3, <2>4, FedBy
  <1>3. CASE ~(d.left > 0)
    BY <1>1, <1>3, UpdateCompleteFeeds DEF DidRect
  <1> QED
    BY <1>2, <1>3

\* setRect: each kind of rectangle ends in didRect: or in updateComplete.
LEMMA SetRectFeeds ==
    ASSUME NEW c \in Connection, c.left > 0, NEW rect \in Rects
    PROVE  Fed(SetRect(c, rect))
  <1>1. CASE rect.kind = "content"
    <2>1. rect.screen \in Screen
      BY <1>1 DEF Rects
    <2>2. Draw(c, rect.screen) \in Connection /\ Draw(c, rect.screen).left = c.left
      <3>1. rect.screen.version \in Blank .. MaxVersion
        BY <2>1, Versions DEF Screen
      <3>2. [c.frameBuffer EXCEPT !.version = rect.screen.version]
               \in [size : Sizes, version : Blank .. MaxVersion]
        BY <3>1 DEF Connection
      <3> QED
        BY <3>2 DEF Draw, Connection
    <2> QED
      BY <1>1, <2>2, DidRectFeeds DEF SetRect
  <1>2. CASE rect.kind = "resize"
    <2>1. rect.size \in Sizes
      BY <1>2 DEF Rects
    <2>2. [c EXCEPT !.resize = rect.size] \in Connection
          /\ [c EXCEPT !.resize = rect.size].left = c.left
      BY <2>1 DEF Connection
    <2>3. SetRect(c, rect) = DidRect([c EXCEPT !.resize = rect.size])
      BY <1>2 DEF SetRect
    <2> QED
      BY <2>2, <2>3, DidRectFeeds
  <1>3. CASE rect.kind = "pseudo"
    BY <1>3, DidRectFeeds DEF SetRect
  <1>4. CASE rect.kind = "last"
    BY <1>4, UpdateCompleteFeeds DEF SetRect
  <1>5. rect.kind \in {"content", "resize", "pseudo", "last"}
    BY DEF Rects
  <1> QED
    BY <1>1, <1>2, <1>3, <1>4, <1>5

\* setFrameBufferUpdateSeconds: requests an update when it leaves manual
\* updates, and changes nothing but the interval otherwise.
LEMMA IntervalFeeds ==
    ASSUME NEW c \in Connection, NEW i \in Intervals
    PROVE  LET r == SetFrameBufferUpdateSeconds(c, i) IN
           /\ r.conn \in Connection /\ r.requests \in Seq(Requests)
           /\ r.conn.started = c.started /\ r.conn.reader = c.reader
           /\ r.conn.left = c.left
           /\ \/ r.conn.interval = "manual" \/ r.requests # <<>>
              \/ c.interval # "manual" /\ r.conn.timer = c.timer
  <1> DEFINE d == [c EXCEPT !.interval = i]
  <1>1. d \in Connection /\ d.started = c.started /\ d.reader = c.reader
        /\ d.left = c.left /\ d.interval = i /\ d.timer = c.timer
    BY DEF Connection
  <1>2. CASE c.interval = "manual" /\ i # "manual"
    <2>1. SetFrameBufferUpdateSeconds(c, i)
             = Result([d EXCEPT !.timer = FALSE], <<"incremental">>)
      BY <1>2 DEF SetFrameBufferUpdateSeconds, RequestFrameBufferUpdate
    <2> HIDE DEF d
    <2>2. [d EXCEPT !.timer = FALSE] \in Connection
          /\ [d EXCEPT !.timer = FALSE].started = d.started
          /\ [d EXCEPT !.timer = FALSE].reader = d.reader
          /\ [d EXCEPT !.timer = FALSE].left = d.left
      BY <1>1 DEF Connection
    <2>3. <<"incremental">> \in Seq(Requests) /\ <<"incremental">> # <<>>
      BY DEF Requests
    <2> DEFINE e == [d EXCEPT !.timer = FALSE]
    <2>4. /\ Result(e, <<"incremental">>).conn = e
          /\ Result(e, <<"incremental">>).requests = <<"incremental">>
      BY DEF Result
    <2> HIDE DEF e
    <2> QED
      BY <1>1, <2>1, <2>2, <2>3, <2>4 DEF e
  <1>3. CASE ~(c.interval = "manual" /\ i # "manual")
    <2>1. SetFrameBufferUpdateSeconds(c, i) = Result(d, <<>>)
      BY <1>3 DEF SetFrameBufferUpdateSeconds
    <2> HIDE DEF d
    <2>2. <<>> \in Seq(Requests)
      OBVIOUS
    <2> QED
      BY <1>1, <1>3, <2>1, <2>2 DEF Result
  <1> QED
    BY <1>2, <1>3

-----------------------------------------------------------------------------
(* The handlers.                                                           *)

\* Before start: has run nothing is automatic.
LEMMA InitInv == Init => IInv
  <1> SUFFICES ASSUME Init PROVE IInv
    OBVIOUS
  <1>1. conn \in Connection
    BY UpdateFlowAssumption DEF Init, Connection, Many, Blank, Intervals
  <1>2. server \in Server
    BY UpdateFlowAssumption DEF Init, Server, Screen
  <1>3. TypeOK
    BY <1>1, <1>2, UpdateFlowAssumption DEF Init, TypeOK, Intervals
  <1>4. Counting /\ NeverStarved
    BY DEF Init, Counting, NeverStarved, Automatic
  <1> QED
    BY <1>3, <1>4 DEF IInv

\* What every handler of the connection does to the queue of requests.
LEMMA BecomeTypes ==
    ASSUME TypeOK, NEW r, r.conn \in Connection, r.requests \in Seq(Requests),
           Become(r)
    PROVE  /\ conn' \in Connection /\ toServer' \in Seq(Requests)
           /\ toServer # <<>> \/ r.requests # <<>> => toServer' # <<>>
  <1>1. toServer \in Seq(Requests)
    BY DEF TypeOK, Requests
  <1> QED
    BY <1>1, Written DEF Become

\* A handler after which the next update is asked for keeps the flow.
LEMMA FedInv ==
    ASSUME IInv, NEW r, Fed(r), Become(r),
           UNCHANGED <<window, front, other, edits, toClient, server>>
    PROVE  IInv'
  <1>1. /\ conn' \in Connection /\ toServer' \in Seq(Requests)
        /\ r.requests # <<>> => toServer' # <<>>
    BY BecomeTypes DEF IInv, Fed
  <1>2. conn' = r.conn
    BY DEF Become
  <1>3. TypeOK'
    BY <1>1 DEF IInv, TypeOK, Requests
  <1>4. Counting' /\ NeverStarved'
    BY <1>1, <1>2 DEF Fed, Counting, NeverStarved, Automatic
  <1> QED
    BY <1>3, <1>4 DEF IInv

\* The messages of the server: the next reader reads the rest of an update.
LEMMA ReadsInv ==
    ASSUME IInv, ReceiveUpdate \/ ReceiveOther \/ SetHeader \/ ReadRect
    PROVE  IInv'
  <1>1. conn \in Connection /\ toClient \in Seq(Update \cup Other)
    BY DEF IInv, TypeOK
  <1>2. CASE ReceiveUpdate
    <2>1. Head(toClient) \in Update /\ Tail(toClient) \in Seq(Update \cup Other)
      BY <1>1, <1>2, HeadTailProperties DEF ReceiveUpdate, Other
    <2>2. conn' \in Connection /\ conn'.reader = "header"
      BY <1>1, <1>2, <2>1 DEF ReceiveUpdate, Connection, Update
    <2>3. TypeOK'
      BY <1>2, <2>1, <2>2 DEF ReceiveUpdate, IInv, TypeOK
    <2> QED
      BY <2>2, <2>3 DEF IInv, Counting, NeverStarved
  <1>3. CASE ReceiveOther
    <2>1. Tail(toClient) \in Seq(Update \cup Other)
      BY <1>1, <1>3, HeadTailProperties DEF ReceiveOther
    <2>2. TypeOK'
      BY <1>3, <2>1 DEF ReceiveOther, IInv, TypeOK
    <2>3. \A i \in 1 .. Len(toClient) : toClient[i].kind = "update"
             => i # 1 /\ i - 1 \in 1 .. Len(Tail(toClient))
                /\ Tail(toClient)[i - 1] = toClient[i]
      BY <1>1, <1>3, HeadTailProperties DEF ReceiveOther
    <2>4. NeverStarved'
      BY <1>3, <2>3 DEF ReceiveOther, IInv, NeverStarved, Automatic
    <2> QED
      BY <1>3, <2>2, <2>4 DEF ReceiveOther, IInv, Counting
  <1>4. CASE SetHeader
    <2> DEFINE c == [conn EXCEPT !.left = conn.count, !.count = 0]
               r == IF c.left > 0
                    THEN Result([c EXCEPT !.reader = "rectHeader"], <<>>)
                    ELSE UpdateComplete(c)
    <2>1. c \in Connection
      <3>1. conn.count \in 0 .. Many /\ 0 \in 0 .. 2 \cup {Many}
        BY <1>1, ManyIsNat DEF Connection
      <3> QED
        BY <1>1, <3>1 DEF Connection
    <2>2. ASSUME c.left > 0 PROVE Fed(r)
      <3>2. r = Result([c EXCEPT !.reader = "rectHeader"], <<>>)
        BY <2>2
      <3> HIDE DEF c
      <3>1. [c EXCEPT !.reader = "rectHeader"] \in Connection
            /\ [c EXCEPT !.reader = "rectHeader"].left = c.left
            /\ [c EXCEPT !.reader = "rectHeader"].reader = "rectHeader"
        BY <2>1 DEF Connection
      <3>3. <<>> \in Seq(Requests)
        OBVIOUS
      <3> HIDE DEF r
      <3> QED
        BY <2>2, <3>1, <3>2, <3>3, FedBy
    <2>3. ASSUME ~(c.left > 0) PROVE Fed(r)
      BY <2>1, <2>3, UpdateCompleteFeeds
    <2>4. Become(r) /\ UNCHANGED <<window, front, other, edits, toClient, server>>
      BY <1>4 DEF SetHeader
    <2> HIDE DEF r
    <2> QED
      BY <2>2, <2>3, <2>4, FedInv
  <1>5. CASE ReadRect
    <2> DEFINE c == [conn EXCEPT !.unread = Tail(@)]
    <2>1. Head(conn.unread) \in Rects /\ Tail(conn.unread) \in Seq(Rects)
      BY <1>1, <1>5, HeadTailProperties DEF ReadRect, Connection
    <2>2. c \in Connection /\ c.left = conn.left
      BY <1>1, <2>1 DEF Connection
    <2>3. conn.left > 0
      BY <1>5 DEF ReadRect, IInv, Counting
    <2>4. Become(SetRect(c, Head(conn.unread)))
          /\ UNCHANGED <<window, front, other, edits, toClient, server>>
      BY <1>5 DEF ReadRect
    <2> HIDE DEF c
    <2>5. Fed(SetRect(c, Head(conn.unread)))
      BY <2>1, <2>2, <2>3, SetRectFeeds
    <2> QED
      BY <2>4, <2>5, FedInv
  <1> QED
    BY <1>2, <1>3, <1>4, <1>5

\* start: asks for a whole screen.
LEMMA StartInv == ASSUME IInv, Start PROVE IInv'
  <1> DEFINE c == [conn EXCEPT !.started = TRUE]
             r == IF window.visible /\ ~window.key
                  THEN SetFrameBufferUpdateSeconds(c, front) ELSE Result(c, <<>>)
             s == Result(r.conn, r.requests \o <<"full">>)
  <1>1. conn \in Connection /\ front \in Intervals
    BY DEF IInv, TypeOK
  <1>2. c \in Connection /\ c.reader = conn.reader /\ c.left = conn.left
    BY <1>1 DEF Connection
  <1> HIDE DEF c
  <1>3. /\ r.conn \in Connection /\ r.requests \in Seq(Requests)
        /\ r.conn.reader = conn.reader /\ r.conn.left = conn.left
    <2>1. CASE window.visible /\ ~window.key
      BY <1>1, <1>2, <2>1, IntervalFeeds
    <2>2. CASE ~(window.visible /\ ~window.key)
      <3>1. r = Result(c, <<>>) /\ <<>> \in Seq(Requests)
        BY <2>2
      <3> HIDE DEF r
      <3> QED
        BY <1>2, <3>1 DEF Result
    <2> QED
      BY <2>1, <2>2
  <1>4. Become(s) /\ window' = [window EXCEPT !.key = TRUE]
        /\ UNCHANGED <<front, other, edits, toClient, server>>
    BY DEF Start, c
  <1> HIDE DEF r
  <1>5. /\ r.requests \o <<"full">> \in Seq(Requests)
        /\ r.requests \o <<"full">> # <<>>
    <2>1. <<"full">> \in Seq(Requests) /\ <<"full">> # <<>>
      BY DEF Requests
    <2> QED
      BY <1>3, <2>1, Written
  <1>6. s.conn = r.conn /\ s.requests = r.requests \o <<"full">>
    BY DEF Result
  <1> HIDE DEF s
  <1>7. conn' = r.conn
    BY <1>4, <1>6 DEF Become
  <1>8. conn' \in Connection /\ toServer' \in Seq(Requests) /\ toServer' # <<>>
    BY <1>3, <1>4, <1>5, <1>6, BecomeTypes DEF IInv
  <1>9. TypeOK'
    BY <1>4, <1>8 DEF IInv, TypeOK, Requests
  <1>10. Counting'
    BY <1>3, <1>7 DEF IInv, Counting
  <1>11. NeverStarved'
    BY <1>8 DEF NeverStarved
  <1> QED
    BY <1>9, <1>10, <1>11 DEF IInv

\* A change of the interval by the window or the preferences, with or without
\* further requests, keeps the flow.
LEMMA ChangeInv ==
    ASSUME IInv, conn.started, NEW i \in Intervals, NEW more \in Seq(Requests),
           Become(Result(SetFrameBufferUpdateSeconds(conn, i).conn,
                         SetFrameBufferUpdateSeconds(conn, i).requests \o more)),
           TypeOK', UNCHANGED <<toClient, server>>
    PROVE  IInv'
  <1> DEFINE r == SetFrameBufferUpdateSeconds(conn, i)
             s == Result(r.conn, r.requests \o more)
  <1>1. /\ r.conn \in Connection /\ r.requests \in Seq(Requests)
        /\ r.conn.started = conn.started /\ r.conn.reader = conn.reader
        /\ r.conn.left = conn.left
        /\ \/ r.conn.interval = "manual" \/ r.requests # <<>>
           \/ conn.interval # "manual" /\ r.conn.timer = conn.timer
    BY IntervalFeeds DEF IInv, TypeOK
  <1>2. Become(s)
    OBVIOUS
  <1> HIDE DEF r
  <1>3. s.conn = r.conn /\ s.requests = r.requests \o more
    BY DEF Result
  <1> HIDE DEF s
  <1>4. /\ s.requests \in Seq(Requests)
        /\ r.requests # <<>> => s.requests # <<>>
    BY <1>1, <1>3, Written
  <1>5. conn' = r.conn
    BY <1>2, <1>3 DEF Become
  <1>6. toServer # <<>> \/ s.requests # <<>> => toServer' # <<>>
    BY <1>1, <1>2, <1>3, <1>4, BecomeTypes DEF IInv
  <1>7. Counting'
    BY <1>1, <1>5 DEF IInv, Counting
  <1>8. NeverStarved'
    BY <1>1, <1>4, <1>5, <1>6 DEF IInv, NeverStarved, Automatic
  <1> QED
    BY <1>7, <1>8 DEF IInv

\* Nothing is written, and the connection stays as it is.
LEMMA NothingWritten ==
    ASSUME IInv, Become(Result(conn, <<>>))
    PROVE  conn' = conn /\ toServer' = toServer
  <1>1. toServer \o <<>> = toServer
    BY ConcatEmptySeq DEF IInv, TypeOK
  <1> QED
    BY <1>1 DEF Become, Result

\* A handler that only changes the interval.
LEMMA ChangeOnly ==
    ASSUME IInv, conn.started, NEW i \in Intervals,
           Become(SetFrameBufferUpdateSeconds(conn, i)),
           window' \in [visible : BOOLEAN, key : BOOLEAN],
           front' \in Intervals, other' \in Intervals,
           edits' \in 0 .. MaxPreferences, UNCHANGED <<toClient, server>>
    PROVE  IInv'
  <1> DEFINE r == SetFrameBufferUpdateSeconds(conn, i)
  <1>1. r.conn \in Connection /\ r.requests \in Seq(Requests)
    BY IntervalFeeds DEF IInv, TypeOK
  <1>2. r.requests \o <<>> = r.requests /\ <<>> \in Seq(Requests)
    BY <1>1, ConcatEmptySeq
  <1> HIDE DEF r
  <1>3. Become(Result(r.conn, r.requests \o <<>>))
    BY <1>2 DEF Become, Result, r
  <1>4. conn' \in Connection /\ toServer' \in Seq(Requests)
    BY <1>1, BecomeTypes DEF IInv, r
  <1>5. TypeOK'
    BY <1>4 DEF IInv, TypeOK, Requests
  <1> QED
    BY <1>2, <1>3, <1>5, ChangeInv DEF r

\* A handler that changes nothing but the window or the preferences.
LEMMA ChangeNothing ==
    ASSUME IInv, Become(Result(conn, <<>>)),
           window' \in [visible : BOOLEAN, key : BOOLEAN],
           front' \in Intervals, other' \in Intervals,
           edits' \in 0 .. MaxPreferences, UNCHANGED <<toClient, server>>
    PROVE  IInv'
  <1>1. conn' = conn /\ toServer' = toServer
    BY NothingWritten
  <1> QED
    BY <1>1 DEF IInv, TypeOK, Counting, NeverStarved, Automatic

\* The window and the menu.
LEMMA WindowInv ==
    ASSUME IInv, WindowAppears \/ WindowHides \/ WindowKey \/ RequestedByUser
    PROVE  IInv'
  <1>1. /\ conn \in Connection /\ window \in [visible : BOOLEAN, key : BOOLEAN]
        /\ front \in Intervals /\ other \in Intervals
        /\ edits \in 0 .. MaxPreferences
    BY DEF IInv, TypeOK
  <1>2. CASE WindowAppears
    <2> DEFINE i == IntervalOf(window)
               r == SetFrameBufferUpdateSeconds(conn, i)
    <2>1. i \in Intervals
      BY <1>1 DEF IntervalOf
    <2> HIDE DEF i
    <2>2. <<"full">> \in Seq(Requests)
      BY DEF Requests
    <2>3. r.conn \in Connection /\ r.requests \in Seq(Requests)
      BY <1>1, <2>1, IntervalFeeds
    <2>4. r.requests \o <<"full">> \in Seq(Requests)
      BY <2>2, <2>3, Written
    <2>5. Become(Result(r.conn, r.requests \o <<"full">>))
      BY <1>2 DEF WindowAppears, ForceFrameBufferUpdate, Result, i
    <2> DEFINE s == Result(r.conn, r.requests \o <<"full">>)
    <2>6. s.conn \in Connection /\ s.requests \in Seq(Requests)
      BY <2>3, <2>4 DEF Result
    <2> HIDE DEF s
    <2>7. conn' \in Connection /\ toServer' \in Seq(Requests)
      BY <2>5, <2>6, BecomeTypes DEF IInv, s
    <2>8. TypeOK'
      BY <1>1, <1>2, <2>7 DEF WindowAppears, IInv, TypeOK, Requests
    <2> QED
      BY <1>2, <2>1, <2>2, <2>5, <2>8, ChangeInv DEF WindowAppears
  <1>3. CASE WindowHides
    <2>1. "manual" \in Intervals
      BY DEF Intervals
    <2>2. window' \in [visible : BOOLEAN, key : BOOLEAN]
      BY <1>1, <1>3 DEF WindowHides
    <2> QED
      BY <1>1, <1>3, <2>1, <2>2, ChangeOnly DEF WindowHides
  <1>4. CASE WindowKey
    <2>1. window' \in [visible : BOOLEAN, key : BOOLEAN]
      BY <1>1, <1>4 DEF WindowKey
    <2>2. IntervalOf(window') \in Intervals
      BY <1>1 DEF IntervalOf
    <2>3. CASE window.visible
      BY <1>1, <1>4, <2>1, <2>2, <2>3, ChangeOnly DEF WindowKey
    <2>4. CASE ~window.visible
      BY <1>1, <1>4, <2>1, <2>4, ChangeNothing DEF WindowKey
    <2> QED
      BY <2>3, <2>4
  <1>5. CASE RequestedByUser
    <2>1. Fed(RequestFrameBufferUpdate(conn))
      BY <1>1, RequestFeeds DEF IInv, Counting
    <2> QED
      BY <1>5, <2>1, FedInv DEF RequestedByUser
  <1> QED
    BY <1>2, <1>3, <1>4, <1>5

\* The timer, and the two sliders of the preferences.
LEMMA TimersInv ==
    ASSUME IInv,
           UpdateTimer \/ \E i \in Intervals : FrontSlider(i) \/ OtherSlider(i)
    PROVE  IInv'
  <1>1. /\ conn \in Connection /\ window \in [visible : BOOLEAN, key : BOOLEAN]
        /\ front \in Intervals /\ other \in Intervals
        /\ edits \in 0 .. MaxPreferences
    BY DEF IInv, TypeOK
  <1>2. CASE UpdateTimer
    <2>1. Fed(RequestFrameBufferUpdate(conn))
      BY <1>1, RequestFeeds DEF IInv, Counting
    <2> QED
      BY <1>2, <2>1, FedInv DEF UpdateTimer
  <1>3. ASSUME NEW i \in Intervals, FrontSlider(i) PROVE IInv'
    <2>1. edits' \in 0 .. MaxPreferences
      BY <1>1, <1>3, UpdateFlowAssumption DEF FrontSlider
    <2>2. CASE window.key
      BY <1>1, <1>3, <2>1, <2>2, ChangeOnly DEF FrontSlider
    <2>3. CASE ~window.key
      BY <1>1, <1>3, <2>1, <2>3, ChangeNothing DEF FrontSlider
    <2> QED
      BY <2>2, <2>3
  <1>4. ASSUME NEW i \in Intervals, OtherSlider(i) PROVE IInv'
    <2>1. edits' \in 0 .. MaxPreferences
      BY <1>1, <1>4, UpdateFlowAssumption DEF OtherSlider
    <2>2. CASE ~window.key
      BY <1>1, <1>4, <2>1, <2>2, ChangeOnly DEF OtherSlider
    <2>3. CASE window.key
      BY <1>1, <1>4, <2>1, <2>3, ChangeNothing DEF OtherSlider
    <2> QED
      BY <2>2, <2>3
  <1> QED
    BY <1>2, <1>3, <1>4

-----------------------------------------------------------------------------
(* The server.                                                             *)

\* Appending a message to the queue of the client.
LEMMA Appended ==
    ASSUME TypeOK, NEW m \in Update \cup Other, toClient' = Append(toClient, m)
    PROVE  /\ toClient' \in Seq(Update \cup Other)
           /\ Len(toClient') = Len(toClient) + 1
           /\ \A i \in 1 .. Len(toClient) : toClient'[i] = toClient[i]
           /\ toClient'[Len(toClient) + 1] = m
  BY AppendProperties DEF TypeOK

\* The server reads a request, and its screen changes.
LEMMA ServerReadsInv == ASSUME IInv, ServerReads \/ ScreenChanges PROVE IInv'
  <1>1. CASE ServerReads
    <2>1. Head(toServer) \in Requests /\ Tail(toServer) \in Seq(Requests)
      BY <1>1, HeadTailProperties DEF ServerReads, IInv, TypeOK, Requests
    <2>2. server' \in Server /\ server'.asked # "nothing"
      BY <1>1, <2>1 DEF ServerReads, IInv, TypeOK, Server, Requests
    <2>3. TypeOK'
      BY <1>1, <2>1, <2>2 DEF ServerReads, IInv, TypeOK, Requests
    <2> QED
      BY <1>1, <2>2, <2>3 DEF ServerReads, IInv, Counting, NeverStarved
  <1>2. CASE ScreenChanges
    <2>1. PICK size \in Sizes :
             server' = [server EXCEPT !.screen =
                           [size |-> size, version |-> server.screen.version + 1]]
      BY <1>2 DEF ScreenChanges, IInv, TypeOK, Server
    <2>2. [size |-> size, version |-> server.screen.version + 1] \in Screen
      BY <1>2, UpdateFlowAssumption DEF ScreenChanges, IInv, TypeOK, Server, Screen
    <2>3. server' \in Server /\ server'.asked = server.asked
      BY <2>1, <2>2 DEF IInv, TypeOK, Server
    <2>4. TypeOK'
      BY <1>2, <2>3 DEF ScreenChanges, IInv, TypeOK
    <2> QED
      BY <1>2, <2>3, <2>4 DEF ScreenChanges, IInv, Counting, NeverStarved, Automatic
  <1> QED
    BY <1>1, <1>2

\* The server answers: an update is on its way.
LEMMA AnswersInv ==
    ASSUME IInv, NEW m \in Update, toClient' = Append(toClient, m),
           server' \in Server,
           UNCHANGED <<conn, window, front, other, edits, toServer>>
    PROVE  IInv'
  <1>1. TypeOK'
    BY Appended DEF IInv, TypeOK
  <1>2. m.kind = "update"
    BY DEF Update
  <1>3. Len(toClient) \in Nat
    BY LenProperties DEF IInv, TypeOK
  <1>4. Len(toClient) + 1 \in 1 .. Len(toClient')
        /\ toClient'[Len(toClient) + 1].kind = "update"
    BY <1>2, <1>3, Appended DEF IInv
  <1> QED
    BY <1>1, <1>4 DEF IInv, Counting, NeverStarved

\* Short lists of rectangles are updates, counted or ended by LastRect.
LEMMA Updates ==
    ASSUME NEW rects \in Seq(Rects), Len(rects) \in 0 .. 2
    PROVE  Counted(rects) \in Update /\ Ended(rects) \in Update
  <1>1. [kind |-> "last"] \in Rects
    BY DEF Rects
  <1>2. Append(rects, [kind |-> "last"]) \in Seq(Rects)
    BY <1>1, AppendProperties
  <1> QED
    BY <1>2 DEF Counted, Ended, Update

\* An answer with a screen, with its size, or with nothing.
LEMMA ServerAnswersInv ==
    ASSUME IInv, ServerAnswers \/ ServerAnswersNothing
    PROVE  IInv'
  <1>1. server \in Server
    BY DEF IInv, TypeOK
  <1>2. CASE ServerAnswers
    <2> DEFINE content == [kind |-> "content", screen |-> server.screen]
               resize == [kind |-> "resize", size |-> server.screen.size]
               pseudo == [kind |-> "pseudo"]
    <2>1. content \in Rects /\ resize \in Rects /\ pseudo \in Rects
      BY <1>1 DEF Rects, Server, Screen
    <2>2. PICK rects \in {<<resize>>, <<content, resize>>, <<content>>,
                          <<pseudo, content>>} :
             \E update \in {Counted(rects), Ended(rects)} :
                toClient' = Append(toClient, update)
      BY <1>2 DEF ServerAnswers
    <2> HIDE DEF content, resize, pseudo
    <2>3. rects \in Seq(Rects) /\ Len(rects) \in 0 .. 2
      <3>1. CASE rects = <<resize>>
        BY <2>1, <3>1
      <3>2. CASE rects = <<content>>
        BY <2>1, <3>2
      <3>3. CASE rects = <<content, resize>>
        BY <2>1, <3>3
      <3>4. CASE rects = <<pseudo, content>>
        BY <2>1, <3>4
      <3> QED
        BY <2>2, <3>1, <3>2, <3>3, <3>4
    <2>4. server' \in Server
      BY <1>1, <1>2 DEF ServerAnswers, Server
    <2> QED
      BY <1>2, <2>2, <2>3, <2>4, Updates, AnswersInv DEF ServerAnswers
  <1>3. CASE ServerAnswersNothing
    <2>1. <<>> \in Seq(Rects) /\ Len(<<>>) \in 0 .. 2
      OBVIOUS
    <2>2. server' \in Server
      BY <1>1, <1>3 DEF ServerAnswersNothing, Server
    <2> QED
      BY <1>3, <2>1, <2>2, Updates, AnswersInv DEF ServerAnswersNothing
  <1> QED
    BY <1>2, <1>3

\* Another message of the server comes after the updates.
LEMMA ServerSendsOtherInv == ASSUME IInv, ServerSendsOther PROVE IInv'
  <1>1. [kind |-> "other"] \in Other
    BY DEF Other
  <1>2. /\ toClient' \in Seq(Update \cup Other)
        /\ Len(toClient') = Len(toClient) + 1
        /\ \A i \in 1 .. Len(toClient) : toClient'[i] = toClient[i]
    BY <1>1, Appended DEF ServerSendsOther, IInv
  <1>3. Len(toClient) \in Nat
    BY LenProperties DEF IInv, TypeOK
  <1>4. TypeOK'
    BY <1>2 DEF ServerSendsOther, IInv, TypeOK
  <1>5. NeverStarved'
    BY <1>2, <1>3 DEF ServerSendsOther, IInv, NeverStarved, Automatic
  <1> QED
    BY <1>4, <1>5 DEF ServerSendsOther, IInv, Counting

-----------------------------------------------------------------------------

\* Every handler and every step of the server keeps the invariant.
THEOREM Invariance == Spec => []IInv
  <1>1. IInv /\ [Next]_vars => IInv'
    <2> SUFFICES ASSUME IInv, [Next]_vars PROVE IInv'
      OBVIOUS
    <2>1. CASE Start
      BY <2>1, StartInv
    <2>2. CASE ReceiveUpdate \/ ReceiveOther \/ SetHeader \/ ReadRect
      BY <2>2, ReadsInv
    <2>3. CASE UpdateTimer
               \/ \E i \in Intervals : FrontSlider(i) \/ OtherSlider(i)
      BY <2>3, TimersInv
    <2>4. CASE WindowAppears \/ WindowHides \/ WindowKey \/ RequestedByUser
      BY <2>4, WindowInv
    <2>5. CASE ServerReads \/ ScreenChanges
      BY <2>5, ServerReadsInv
    <2>6. CASE ServerAnswers \/ ServerAnswersNothing
      BY <2>6, ServerAnswersInv
    <2>7. CASE ServerSendsOther
      BY <2>7, ServerSendsOtherInv
    <2>8. CASE UNCHANGED vars
      BY <2>8 DEF vars, IInv, TypeOK, Counting, NeverStarved, Automatic
    <2> QED
      BY <2>1, <2>2, <2>3, <2>4, <2>5, <2>6, <2>7, <2>8 DEF Next
  <1> QED
    BY InitInv, <1>1, PTL DEF Spec

\* The fields of RFBConnection and FrameBufferUpdateReader always have their
\* types; in particular the count of rectangles never goes below zero.
THEOREM TypeCorrect == Spec => []TypeOK
  <1>1. IInv => TypeOK
    BY DEF IInv
  <1> QED
    BY Invariance, <1>1, PTL

\* Whatever the sizes, the number of changes and the length of the queues: as
\* long as updates are automatic, the next one is under way or asked for.
THEOREM NeverStarvedAlways == Spec => []NeverStarved
  <1>1. IInv => NeverStarved
    BY DEF IInv
  <1> QED
    BY Invariance, <1>1, PTL
-----------------------------------------------------------------------------
(***************************************************************************)
(* What is under way.  WindowShowsScreen speaks of the moments when        *)
(* nothing is; its invariant has to say what the window will show once     *)
(* everything under way has been read.  No replay of the queue is needed:  *)
(* the size is that of the last change of size, the contents are those of  *)
(* the last rectangle drawn, if any is left to be read.  The contents only *)
(* matter when no change of size is left to be read and no full update has *)
(* been requested: a change of size ends in such a request, and the answer *)
(* to one brings the contents anew.                                        *)
(***************************************************************************)

\* The rectangles of a message; the other messages have none.
RectsOf(m) == IF m.kind = "update" THEN m.rects ELSE <<>>

Resizes(rects) == \E k \in 1 .. Len(rects) : rects[k].kind = "resize"
Draws(rects)   == \E k \in 1 .. Len(rects) : rects[k].kind = "content"

SizeIs(rects, size) ==
    \A k \in 1 .. Len(rects) : rects[k].kind = "resize" => rects[k].size = size
VersionIs(rects, version) ==
    \A k \in 1 .. Len(rects) :
        rects[k].kind = "content" => rects[k].screen.version = version

\* No kind of rectangle comes twice, and the header's n announces them: it is
\* their number, or they end with LastRect before n have been read.
Shaped(rects, n) ==
    /\ \A j, k \in 1 .. Len(rects) : rects[j].kind = rects[k].kind => j = k
    /\ \/ n = Len(rects) /\ \A k \in 1 .. Len(rects) : rects[k].kind # "last"
       \/ n >= Len(rects) /\ rects # <<>> /\ rects[Len(rects)].kind = "last"

\* The reader c is where the header and the rectangles read so far say.
Reading(c) ==
    /\ c.reader = "type" => /\ c.unread = <<>> /\ c.resize = Nowhere
                            /\ c.shown = c.frameBuffer.version
    /\ c.reader = "header" => Shaped(c.unread, c.count)
    /\ c.reader = "rectHeader" => Shaped(c.unread, c.left)
    /\ ~c.invalid => c.shown = c.frameBuffer.version

\* The size and the contents of the frame buffer once the message c is reading
\* has been read, the latter unless it changes the size.
SizeAfter(c, size) ==
    /\ SizeIs(c.unread, size)
    /\ Resizes(c.unread) \/ IF c.resize = Nowhere THEN c.frameBuffer.size = size
                                                  ELSE c.resize = size
VersionAfter(c, version) ==
    /\ VersionIs(c.unread, version)
    /\ Draws(c.unread) \/ c.frameBuffer.version = version

ResizeIsRead(c) == c.resize # Nowhere \/ Resizes(c.unread)

ResizeIsWaiting ==
    \/ ResizeIsRead(conn)
    \/ \E i \in 1 .. Len(toClient) : Resizes(RectsOf(toClient[i]))

FullIsAsked ==
    \/ ~conn.started
    \/ server.asked = "full"
    \/ \E i \in 1 .. Len(toServer) : toServer[i] = "full"

\* The headers of the updates in the queue, and what the last change of size
\* and the last contents among them come to.
QueueShaped ==
    \A i \in 1 .. Len(toClient) :
        toClient[i].kind = "update" => Shaped(toClient[i].rects, toClient[i].count)

SizeInStep ==
    /\ \A i \in 1 .. Len(toClient) :
          \/ ~Resizes(RectsOf(toClient[i]))
          \/ \E j \in 1 .. Len(toClient) : j > i /\ Resizes(RectsOf(toClient[j]))
          \/ SizeIs(RectsOf(toClient[i]), server.sent.size)
    /\ \/ \E i \in 1 .. Len(toClient) : Resizes(RectsOf(toClient[i]))
       \/ SizeAfter(conn, server.sent.size)

VersionInStep ==
    \/ FullIsAsked
    \/ ResizeIsWaiting
    \/ /\ \A i \in 1 .. Len(toClient) :
             \/ ~Draws(RectsOf(toClient[i]))
             \/ \E j \in 1 .. Len(toClient) : j > i /\ Draws(RectsOf(toClient[j]))
             \/ VersionIs(RectsOf(toClient[i]), server.sent.version)
       /\ \/ \E i \in 1 .. Len(toClient) : Draws(RectsOf(toClient[i]))
          \/ VersionAfter(conn, server.sent.version)

InStep == Reading(conn) /\ QueueShaped /\ SizeInStep /\ VersionInStep

\* The first rectangle has been read: what is left of an update.
LEMMA RestOfRects ==
    ASSUME NEW s \in Seq(Rects), s # <<>>, NEW n \in Nat, Shaped(s, n)
    PROVE  /\ Tail(s) \in Seq(Rects)
           /\ Head(s).kind # "last" =>
                 /\ n > 0
                 /\ n - 1 > 0 => Shaped(Tail(s), n - 1)
                 /\ n - 1 = 0 => Tail(s) = <<>>
           /\ Head(s).kind = "last" => Tail(s) = <<>>
           /\ Resizes(s) <=> Head(s).kind = "resize" \/ Resizes(Tail(s))
           /\ Draws(s) <=> Head(s).kind = "content" \/ Draws(Tail(s))
           /\ \A z : SizeIs(s, z) <=> /\ SizeIs(Tail(s), z)
                                      /\ Head(s).kind = "resize" => Head(s).size = z
           /\ \A v : VersionIs(s, v) <=>
                        /\ VersionIs(Tail(s), v)
                        /\ Head(s).kind = "content" => Head(s).screen.version = v
           /\ Head(s).kind = "resize" => ~Resizes(Tail(s))
           /\ Head(s).kind = "content" => ~Draws(Tail(s))
  <1> DEFINE h == Head(s)
             t == Tail(s)
  <1>1. /\ t \in Seq(Rects) /\ Len(t) = Len(s) - 1 /\ Len(s) \in Nat \ {0}
        /\ h = s[1]
        /\ \A k \in 1 .. Len(t) : t[k] = s[k + 1]
    BY HeadTailProperties, EmptySeq
  <1> HIDE DEF h, t
  <1>2. \A k \in 1 .. Len(s) : k = 1 \/ (k - 1 \in 1 .. Len(t) /\ s[k] = t[k - 1])
    BY <1>1
  <1>3. 1 \in 1 .. Len(s) /\ \A k \in 1 .. Len(t) : k + 1 \in 1 .. Len(s)
    BY <1>1
  <1>4. \A j, k \in 1 .. Len(s) : s[j].kind = s[k].kind => j = k
    BY DEF Shaped
  <1>5. \A k \in 1 .. Len(t) : t[k].kind # h.kind
    <2>1. SUFFICES ASSUME NEW k \in 1 .. Len(t), t[k].kind = h.kind PROVE FALSE
      OBVIOUS
    <2>2. s[k + 1].kind = s[1].kind
      BY <1>1, <2>1
    <2>3. k + 1 = 1
      BY <1>3, <1>4, <2>2
    <2> QED
      BY <1>1, <2>3
  <1>6. \A j, k \in 1 .. Len(t) : t[j].kind = t[k].kind => j = k
    <2>1. SUFFICES ASSUME NEW j \in 1 .. Len(t), NEW k \in 1 .. Len(t), t[j].kind = t[k].kind
                   PROVE  j = k
      OBVIOUS
    <2>2. s[j + 1].kind = s[k + 1].kind
      BY <1>1, <2>1
    <2>3. j + 1 = k + 1
      BY <1>3, <1>4, <2>2
    <2> QED
      BY <1>1, <2>3
  <1>7. ASSUME h.kind # "last"
        PROVE  /\ n > 0 /\ (n - 1 > 0 => Shaped(t, n - 1)) /\ (n - 1 = 0 => t = <<>>)
    <2>1. CASE n = Len(s) /\ \A k \in 1 .. Len(s) : s[k].kind # "last"
      <3>1. n - 1 = Len(t) /\ n > 0
        BY <1>1, <2>1
      <3>2. \A k \in 1 .. Len(t) : t[k].kind # "last"
        BY <1>1, <1>3, <2>1
      <3>3. n - 1 = 0 => t = <<>>
        BY <1>1, <3>1, EmptySeq
      <3> QED
        BY <1>6, <3>1, <3>2, <3>3 DEF Shaped
    <2>2. CASE n >= Len(s) /\ s[Len(s)].kind = "last"
      <3>1. Len(s) # 1
        BY <1>1, <1>7, <2>2
      <3>2. Len(t) \in 1 .. Len(t) /\ t[Len(t)] = s[Len(s)] /\ n - 1 >= Len(t) /\ n - 1 > 0
        BY <1>1, <2>2, <3>1
      <3>3. t # <<>>
        BY <1>1, <3>2
      <3> QED
        BY <1>6, <2>2, <3>2, <3>3 DEF Shaped
    <2> QED
      BY <2>1, <2>2 DEF Shaped
  <1>8. ASSUME h.kind = "last" PROVE t = <<>>
    <2>1. s[Len(s)].kind = "last"
      BY <1>1, <1>3, <1>8 DEF Shaped
    <2>2. Len(s) = 1
      BY <1>1, <1>3, <1>4, <1>8, <2>1
    <2> QED
      BY <1>1, <2>2, EmptySeq
  <1>9. Resizes(s) <=> h.kind = "resize" \/ Resizes(t)
    BY <1>1, <1>2, <1>3 DEF Resizes
  <1>10. Draws(s) <=> h.kind = "content" \/ Draws(t)
    BY <1>1, <1>2, <1>3 DEF Draws
  <1>11. ASSUME NEW z
         PROVE  SizeIs(s, z) <=> SizeIs(t, z) /\ (h.kind = "resize" => h.size = z)
    BY <1>1, <1>2, <1>3 DEF SizeIs
  <1>12. ASSUME NEW v
         PROVE  VersionIs(s, v) <=> /\ VersionIs(t, v)
                                    /\ h.kind = "content" => h.screen.version = v
    BY <1>1, <1>2, <1>3 DEF VersionIs
  <1>13. /\ h.kind = "resize" => ~Resizes(t)
         /\ h.kind = "content" => ~Draws(t)
    BY <1>5 DEF Resizes, Draws
  <1> QED
    BY <1>1, <1>7, <1>8, <1>9, <1>10, <1>11, <1>12, <1>13 DEF h, t

-----------------------------------------------------------------------------
(* The handlers, on what is under way.                                     *)

\* d has come as far as c, or further.
Ahead(c, d) ==
    /\ d.started = c.started
    /\ \A size : SizeAfter(c, size) => SizeAfter(d, size)
    /\ ResizeIsRead(c) => ResizeIsRead(d)
    /\ \A version : VersionAfter(c, version) => VersionAfter(d, version)

\* A handler has kept the connection in step, or requested a full update.
Keeps(c, r) ==
    /\ Reading(r.conn)
    /\ \A size : SizeAfter(c, size) => SizeAfter(r.conn, size)
    /\ \/ \E i \in 1 .. Len(r.requests) : r.requests[i] = "full"
       \/ Ahead(c, r.conn)

LEMMA AheadKeeps ==
    ASSUME NEW c, NEW d, NEW r, Ahead(c, d), Keeps(d, r)
    PROVE  Keeps(c, r)
  BY DEF Ahead, Keeps

\* What is not about the contents of the screen.
Alike(c, d) ==
    /\ d.started = c.started /\ d.reader = c.reader /\ d.unread = c.unread
    /\ d.count = c.count /\ d.left = c.left /\ d.resize = c.resize
    /\ d.invalid = c.invalid /\ d.frameBuffer = c.frameBuffer /\ d.shown = c.shown

LEMMA AlikeKeeps ==
    ASSUME NEW c, NEW r, Reading(c), Alike(c, r.conn)
    PROVE  Keeps(c, r)
  <1>1. Reading(r.conn)
    BY DEF Alike, Reading
  <1>2. Ahead(c, r.conn)
    BY DEF Alike, Ahead, SizeAfter, VersionAfter, ResizeIsRead
  <1> QED
    BY <1>1, <1>2 DEF Ahead, Keeps

\* An empty rest.
LEMMA NothingLeft ==
    /\ ~Resizes(<<>>) /\ ~Draws(<<>>)
    /\ \A size : SizeIs(<<>>, size)
    /\ \A version : VersionIs(<<>>, version)
  <1>1. Len(<<>>) = 0
    OBVIOUS
  <1> QED
    BY <1>1 DEF Resizes, Draws, SizeIs, VersionIs

\* requestFrameBufferUpdate and queueUpdateRequest only touch the timer, and
\* setFrameBufferUpdateSeconds the interval too.
LEMMA RequestAlike ==
    ASSUME NEW c \in Connection
    PROVE  /\ Alike(c, RequestFrameBufferUpdate(c).conn)
           /\ Alike(c, QueueUpdateRequest(c).conn)
  <1>1. /\ Alike(c, [c EXCEPT !.timer = FALSE])
        /\ Alike(c, [c EXCEPT !.timer = TRUE])
    BY DEF Alike, Connection
  <1> QED
    BY <1>1 DEF RequestFrameBufferUpdate, QueueUpdateRequest, Result

LEMMA IntervalAlike ==
    ASSUME NEW c \in Connection, NEW i \in Intervals
    PROVE  Alike(c, SetFrameBufferUpdateSeconds(c, i).conn)
  <1> DEFINE d == [c EXCEPT !.interval = i]
  <1>1. d \in Connection /\ Alike(c, d)
    BY DEF Connection, Alike
  <1> HIDE DEF d
  <1>2. Alike(c, RequestFrameBufferUpdate(d).conn)
    BY <1>1, RequestAlike DEF Alike
  <1> QED
    BY <1>1, <1>2 DEF SetFrameBufferUpdateSeconds, Result, d

\* The end of an update: everything announced has been read.
LEMMA UpdateCompleteKeeps ==
    ASSUME NEW c \in Connection, c.unread = <<>>,
           ~c.invalid => c.shown = c.frameBuffer.version
    PROVE  Keeps(c, UpdateComplete(c))
  <1>1. CASE c.resize # Nowhere
    <2> DEFINE d == Resize(c)
               r == UpdateComplete(c)
    <2>1. r = Result(d, <<"full">>)
      BY <1>1 DEF UpdateComplete
    <2>2. /\ d.unread = <<>> /\ d.resize = Nowhere /\ d.reader = "type"
          /\ d.frameBuffer = [size |-> c.resize, version |-> Blank]
          /\ d.shown = Blank
      BY DEF Resize, Connection
    <2> HIDE DEF d
    <2>3. d.frameBuffer.size = c.resize /\ d.frameBuffer.version = Blank
      BY <2>2
    <2>4. Reading(d)
      BY <2>2, <2>3 DEF Reading
    <2>5. \A size : SizeAfter(c, size) => SizeAfter(d, size)
      BY <1>1, <2>2, <2>3, NothingLeft DEF SizeAfter
    <2>6. r.conn = d /\ r.requests = <<"full">>
      BY <2>1 DEF Result
    <2>7. 1 \in 1 .. Len(r.requests) /\ r.requests[1] = "full"
      BY <2>6
    <2> HIDE DEF r
    <2> QED
      BY <2>4, <2>5, <2>6, <2>7 DEF Keeps, r
  <1>2. CASE c.resize = Nowhere
    <2> DEFINE d == Display(c)
               r == UpdateComplete(c)
    <2>1. /\ d \in Connection
          /\ d.started = c.started /\ d.unread = <<>> /\ d.resize = Nowhere
          /\ d.reader = "type" /\ d.frameBuffer = c.frameBuffer
          /\ d.shown = c.frameBuffer.version /\ d.interval = c.interval
      BY <1>2 DEF Display, Connection
    <2> HIDE DEF d
    <2>2. Reading(d)
      BY <2>1 DEF Reading
    <2>3. Ahead(c, d)
      BY <1>2, <2>1 DEF Ahead, SizeAfter, VersionAfter, ResizeIsRead
    <2>4. Alike(d, r.conn)
      <3>1. CASE c.interval = "manual"
        <4>1. r = Result(d, <<>>)
          BY <1>2, <3>1 DEF UpdateComplete, d
        <4> QED
          BY <4>1 DEF Result, Alike
      <3>2. CASE c.interval # "manual"
        <4>1. r = QueueUpdateRequest(d)
          BY <1>2, <3>2 DEF UpdateComplete, d
        <4> QED
          BY <2>1, <4>1, RequestAlike
      <3> QED
        BY <3>1, <3>2
    <2> HIDE DEF r
    <2> QED
      BY <2>2, <2>3, <2>4, AlikeKeeps, AheadKeeps DEF r
  <1> QED
    BY <1>1, <1>2

\* didRect: the number of rectangles tells it whether there is another.
LEMMA DidRectKeeps ==
    ASSUME NEW c \in Connection, c.left > 0, c.reader = "rectHeader",
           c.left - 1 > 0 => Shaped(c.unread, c.left - 1),
           c.left - 1 = 0 => c.unread = <<>>,
           ~c.invalid => c.shown = c.frameBuffer.version
    PROVE  Keeps(c, DidRect(c))
  <1> DEFINE d == [c EXCEPT !.left = c.left - 1]
  <1>1. /\ d \in Connection /\ d.left = c.left - 1 /\ d.left \in Nat
        /\ d.started = c.started /\ d.reader = c.reader /\ d.unread = c.unread
        /\ d.resize = c.resize /\ d.invalid = c.invalid
        /\ d.frameBuffer = c.frameBuffer /\ d.shown = c.shown
    BY ManyIsNat DEF Connection
  <1>2. DidRect(c) = IF d.left > 0
                     THEN Result([d EXCEPT !.reader = "rectHeader"], <<>>)
                     ELSE UpdateComplete(d)
    BY DEF DidRect
  <1> HIDE DEF d
  <1>3. Ahead(c, d)
    BY <1>1 DEF Ahead, SizeAfter, VersionAfter, ResizeIsRead
  <1>4. CASE d.left > 0
    <2>1. [d EXCEPT !.reader = "rectHeader"] = d
      BY <1>1 DEF Connection
    <2>2. DidRect(c).conn = d
      BY <1>2, <1>4, <2>1 DEF Result
    <2>3. Reading(d)
      BY <1>1, <1>4 DEF Reading
    <2> QED
      BY <1>3, <2>2, <2>3 DEF Keeps, Ahead
  <1>5. CASE ~(d.left > 0)
    <2>1. d.unread = <<>>
      <3>1. d.left = 0
        <4>1. d.left \in Nat
          BY <1>1
        <4> QED
          BY <1>5, <4>1
      <3>2. c.left - 1 = 0
        BY <1>1, <3>1
      <3> QED
        BY <1>1, <3>2
    <2>2. Keeps(d, UpdateComplete(d))
      BY <1>1, <2>1, UpdateCompleteKeeps
    <2> QED
      BY <1>2, <1>3, <1>5, <2>2, AheadKeeps
  <1> QED
    BY <1>4, <1>5

\* setRect, given the first of the rectangles left.
LEMMA SetRectKeeps ==
    ASSUME NEW c \in Connection, c.left > 0, c.reader = "rectHeader",
           c.unread # <<>>, Reading(c)
    PROVE  Keeps(c, SetRect([c EXCEPT !.unread = Tail(@)], Head(c.unread)))
  <1> DEFINE s == c.unread
             h == Head(s)
             t == Tail(s)
             d == [c EXCEPT !.unread = Tail(@)]
             r == SetRect(d, h)
             n == c.left
  <1>1. /\ s \in Seq(Rects) /\ n \in Nat /\ Shaped(s, n) /\ h \in Rects
        /\ ~c.invalid => c.shown = c.frameBuffer.version
    BY ManyIsNat, HeadTailProperties DEF Connection, Reading
  <1>2. /\ t \in Seq(Rects)
        /\ h.kind # "last" => /\ n > 0
                              /\ n - 1 > 0 => Shaped(t, n - 1)
                              /\ n - 1 = 0 => t = <<>>
        /\ h.kind = "last" => t = <<>>
        /\ Resizes(s) <=> h.kind = "resize" \/ Resizes(t)
        /\ Draws(s) <=> h.kind = "content" \/ Draws(t)
        /\ \A z : SizeIs(s, z) <=> SizeIs(t, z) /\ (h.kind = "resize" => h.size = z)
        /\ \A v : VersionIs(s, v) <=>
                     VersionIs(t, v) /\ (h.kind = "content" => h.screen.version = v)
        /\ h.kind = "resize" => ~Resizes(t)
        /\ h.kind = "content" => ~Draws(t)
    BY <1>1, RestOfRects
  <1>3. /\ d \in Connection /\ d.unread = t /\ d.left = n /\ d.reader = c.reader
        /\ d.started = c.started /\ d.resize = c.resize /\ d.invalid = c.invalid
        /\ d.frameBuffer = c.frameBuffer /\ d.shown = c.shown
    BY <1>2 DEF Connection
  <1>4. h.kind \in {"content", "resize", "pseudo", "last"}
    BY <1>1 DEF Rects
  <1>5. s = c.unread /\ n = c.left
    OBVIOUS
  <1> HIDE DEF s, h, t, d, n
  <1>6. CASE h.kind = "content"
    <2> DEFINE e == Draw(d, h.screen)
    <2>1. h.screen.version \in Blank .. MaxVersion
      BY <1>1, <1>6, Versions DEF Rects, Screen
    <2>2. /\ e \in Connection /\ e.unread = t /\ e.left = n /\ e.reader = c.reader
          /\ e.started = c.started /\ e.resize = c.resize /\ e.invalid
          /\ e.frameBuffer = [c.frameBuffer EXCEPT !.version = h.screen.version]
      <3>1. [d.frameBuffer EXCEPT !.version = h.screen.version]
               \in [size : Sizes, version : Blank .. MaxVersion]
        BY <1>3, <2>1 DEF Connection
      <3> QED
        BY <1>3, <3>1 DEF Draw, Connection
    <2>3. e.frameBuffer.size = c.frameBuffer.size /\ e.frameBuffer.version = h.screen.version
      BY <2>2 DEF Connection
    <2>4. r = DidRect(e)
      BY <1>6 DEF SetRect
    <2> HIDE DEF e, r
    <2>5. Ahead(c, e)
      BY <1>2, <1>5, <1>6, <2>2, <2>3 DEF Ahead, SizeAfter, VersionAfter, ResizeIsRead
    <2>6. Keeps(e, DidRect(e))
      BY <1>2, <1>5, <1>6, <2>2, DidRectKeeps
    <2> QED
      BY <2>4, <2>5, <2>6, AheadKeeps DEF r, d, h, s
  <1>7. CASE h.kind = "resize"
    <2> DEFINE e == [d EXCEPT !.resize = h.size]
    <2>1. h.size \in Sizes /\ h.size # Nowhere
      BY <1>1, <1>7, UpdateFlowAssumption DEF Rects
    <2>2. /\ e \in Connection /\ e.unread = t /\ e.left = n /\ e.reader = c.reader
          /\ e.started = c.started /\ e.resize = h.size /\ e.invalid = c.invalid
          /\ e.frameBuffer = c.frameBuffer /\ e.shown = c.shown
      BY <1>3, <2>1 DEF Connection
    <2>3. r = DidRect(e)
      BY <1>7 DEF SetRect
    <2> HIDE DEF e, r
    <2>4. Ahead(c, e)
      BY <1>2, <1>5, <1>7, <2>1, <2>2 DEF Ahead, SizeAfter, VersionAfter, ResizeIsRead
    <2>5. Keeps(e, DidRect(e))
      BY <1>1, <1>2, <1>5, <1>7, <2>2, DidRectKeeps
    <2> QED
      BY <2>3, <2>4, <2>5, AheadKeeps DEF r, d, h, s
  <1>8. CASE h.kind \in {"pseudo", "last"}
    <2>1. Ahead(c, d)
      BY <1>2, <1>3, <1>5, <1>8 DEF Ahead, SizeAfter, VersionAfter, ResizeIsRead
    <2>2. CASE h.kind = "pseudo"
      <3>1. r = DidRect(d)
        BY <2>2 DEF SetRect
      <3>2. Keeps(d, DidRect(d))
        BY <1>1, <1>2, <1>3, <1>5, <2>2, DidRectKeeps
      <3> QED
        BY <2>1, <3>1, <3>2, AheadKeeps DEF d, h, s
    <2>3. CASE h.kind = "last"
      <3>1. r = UpdateComplete(d)
        BY <2>3 DEF SetRect
      <3>2. Keeps(d, UpdateComplete(d))
        BY <1>1, <1>2, <1>3, <2>3, UpdateCompleteKeeps
      <3> QED
        BY <2>1, <3>1, <3>2, AheadKeeps DEF d, h, s
    <2> QED
      BY <1>8, <2>2, <2>3
  <1> QED
    BY <1>4, <1>6, <1>7, <1>8

-----------------------------------------------------------------------------
(* The steps.                                                              *)

\* Before the first update nothing has been sent, and it will be in full.
LEMMA InitInStep == Init => InStep
  <1> SUFFICES ASSUME Init PROVE InStep
    OBVIOUS
  <1>1. PICK size \in Sizes :
           /\ conn = [started |-> FALSE, reader |-> "type", unread |-> <<>>,
                      count |-> 0, left |-> 0, resize |-> Nowhere,
                      invalid |-> FALSE, isReceivingUpdate |-> FALSE,
                      frameBuffer |-> [size |-> size, version |-> Blank],
                      shown |-> Blank, interval |-> "none", timer |-> FALSE]
           /\ server = [screen |-> [size |-> size, version |-> 0],
                        asked |-> "nothing",
                        sent |-> [size |-> size, version |-> 0]]
    BY DEF Init
  <1>2. Len(toClient) = 0
    BY DEF Init
  <1>3. conn.frameBuffer.size = server.sent.size /\ ~conn.started
        /\ conn.unread = <<>> /\ conn.resize = Nowhere
        /\ conn.reader = "type" /\ conn.shown = conn.frameBuffer.version
    BY <1>1
  <1>4. Reading(conn)
    BY <1>3 DEF Reading
  <1>5. SizeInStep
    BY <1>2, <1>3, NothingLeft DEF SizeInStep, SizeAfter
  <1> QED
    BY <1>2, <1>3, <1>4, <1>5 DEF InStep, QueueShaped, VersionInStep, FullIsAsked

\* The requests on their way, once more are written or one has been read.
LEMMA FullIsWritten ==
    ASSUME NEW s \in Seq(Requests), NEW t \in Seq(Requests)
    PROVE  (\E i \in 1 .. Len(s \o t) : (s \o t)[i] = "full")
              <=> \/ \E i \in 1 .. Len(s) : s[i] = "full"
                  \/ \E i \in 1 .. Len(t) : t[i] = "full"
  <1> DEFINE u == s \o t
  <1>1. /\ Len(u) = Len(s) + Len(t) /\ Len(s) \in Nat /\ Len(t) \in Nat
        /\ \A i \in 1 .. Len(s) + Len(t) :
              u[i] = IF i <= Len(s) THEN s[i] ELSE t[i - Len(s)]
    BY ConcatProperties
  <1> HIDE DEF u
  <1>2. ASSUME NEW i \in 1 .. Len(u), u[i] = "full"
        PROVE  \/ \E j \in 1 .. Len(s) : s[j] = "full"
               \/ \E j \in 1 .. Len(t) : t[j] = "full"
    <2>1. CASE i <= Len(s)
      <3>1. i \in 1 .. Len(s) /\ s[i] = "full"
        BY <1>1, <1>2, <2>1
      <3> QED
        BY <3>1
    <2>2. CASE ~(i <= Len(s))
      <3>1. i - Len(s) \in 1 .. Len(t) /\ t[i - Len(s)] = "full"
        BY <1>1, <1>2, <2>2
      <3> QED
        BY <3>1
    <2> QED
      BY <2>1, <2>2
  <1>3. ASSUME NEW i \in 1 .. Len(s), s[i] = "full"
        PROVE  \E j \in 1 .. Len(u) : u[j] = "full"
    <2>1. i \in 1 .. Len(u) /\ u[i] = s[i]
      BY <1>1
    <2> QED
      BY <1>3, <2>1
  <1>4. ASSUME NEW i \in 1 .. Len(t), t[i] = "full"
        PROVE  \E j \in 1 .. Len(u) : u[j] = "full"
    <2>1. Len(s) + i \in 1 .. Len(u) /\ u[Len(s) + i] = t[i]
      BY <1>1
    <2> QED
      BY <1>4, <2>1
  <1> QED
    BY <1>2, <1>3, <1>4 DEF u

\* A handler that reads on or makes requests.
LEMMA KeepsInStep ==
    ASSUME TypeOK, InStep, NEW r, r.requests \in Seq(Requests), Become(r),
           Keeps(conn, r), UNCHANGED <<toClient, server>>
    PROVE  InStep'
  <1>1. conn' = r.conn /\ toServer' = toServer \o r.requests
        /\ toClient' = toClient /\ server' = server
    BY DEF Become
  <1>2. toServer \in Seq(Requests)
    BY DEF TypeOK, Requests
  <1>3. Reading(conn)' /\ QueueShaped'
    BY <1>1 DEF Keeps, InStep, QueueShaped, Reading
  <1>4. SizeInStep'
    BY <1>1 DEF Keeps, InStep, SizeInStep, SizeAfter
  <1>5. VersionInStep'
    <2>1. CASE \E i \in 1 .. Len(r.requests) : r.requests[i] = "full"
      <3>1. \E i \in 1 .. Len(toServer') : toServer'[i] = "full"
        BY <1>1, <1>2, <2>1, FullIsWritten
      <3> QED
        BY <3>1 DEF VersionInStep, FullIsAsked
    <2>2. CASE Ahead(conn, r.conn)
      <3>1. FullIsAsked => FullIsAsked'
        BY <1>1, <1>2, <2>2, FullIsWritten DEF FullIsAsked, Ahead
      <3>2. ResizeIsWaiting => ResizeIsWaiting'
        BY <1>1, <2>2 DEF ResizeIsWaiting, Ahead, ResizeIsRead
      <3>3. \A v : VersionAfter(conn, v) => VersionAfter(conn', v)
        BY <1>1, <2>2 DEF Ahead
      <3> QED
        BY <1>1, <3>1, <3>2, <3>3 DEF InStep, VersionInStep, VersionAfter
    <2> QED
      BY <2>1, <2>2 DEF Keeps
  <1> QED
    BY <1>3, <1>4, <1>5 DEF InStep

\* The reading of the header and the rectangles.
LEMMA ReadsInStep ==
    ASSUME IInv, InStep, SetHeader \/ ReadRect
    PROVE  InStep'
  <1>1. conn \in Connection /\ Reading(conn) /\ TypeOK
    BY DEF IInv, TypeOK, InStep
  <1>2. CASE SetHeader
    <2> DEFINE c == [conn EXCEPT !.left = conn.count, !.count = 0]
               e == [c EXCEPT !.reader = "rectHeader"]
               r == IF c.left > 0 THEN Result(e, <<>>) ELSE UpdateComplete(c)
    <2>1. /\ c \in Connection /\ c.left = conn.count
          /\ c.unread = conn.unread /\ c.resize = conn.resize
          /\ c.started = conn.started /\ c.invalid = conn.invalid
          /\ c.frameBuffer = conn.frameBuffer /\ c.shown = conn.shown
      <3>1. conn.count \in 0 .. Many /\ 0 \in 0 .. 2 \cup {Many}
        BY <1>1, ManyIsNat DEF Connection
      <3> QED
        BY <1>1, <3>1 DEF Connection
    <2>2. Shaped(conn.unread, conn.count) /\ conn.unread \in Seq(Rects)
      BY <1>1, <1>2 DEF SetHeader, Reading, Connection
    <2>3. Become(r) /\ UNCHANGED <<toClient, server>>
      BY <1>2 DEF SetHeader
    <2>4. /\ e.started = c.started /\ e.unread = c.unread /\ e.resize = c.resize
          /\ e.invalid = c.invalid /\ e.frameBuffer = c.frameBuffer
          /\ e.shown = c.shown /\ e.left = c.left /\ e.reader = "rectHeader"
      <3> HIDE DEF c
      <3> QED
        BY <2>1 DEF Connection
    <2>5. c.left \in Nat
      <3>1. conn.count \in Nat
        BY <1>1, ManyIsNat DEF Connection
      <3> QED
        BY <2>1, <3>1
    <2> HIDE DEF c, e
    <2>6. Ahead(conn, c) /\ Ahead(conn, e)
      BY <2>1, <2>4 DEF Ahead, SizeAfter, VersionAfter, ResizeIsRead
    <2>7. Keeps(conn, r) /\ r.requests \in Seq(Requests)
      <3>1. CASE c.left > 0
        <4>1. r = Result(e, <<>>) /\ <<>> \in Seq(Requests)
          BY <3>1
        <4>2. r.conn = e /\ r.requests = <<>>
          BY <4>1 DEF Result
        <4> HIDE DEF r
        <4>3. Reading(e)
          BY <1>1, <2>1, <2>2, <2>4 DEF Reading
        <4> QED
          BY <2>6, <4>1, <4>2, <4>3 DEF Keeps, Ahead
      <3>2. CASE ~(c.left > 0)
        <4>1. conn.count = 0
          BY <2>1, <2>5, <3>2
        <4>2. Len(conn.unread) = 0
          BY <2>2, <4>1, EmptySeq, LenProperties DEF Shaped
        <4>3. c.unread = <<>>
          BY <2>1, <2>2, <4>2, EmptySeq
        <4>4. Keeps(c, UpdateComplete(c))
          BY <1>1, <2>1, <4>3, UpdateCompleteKeeps DEF Reading
        <4>5. Fed(UpdateComplete(c))
          BY <2>1, UpdateCompleteFeeds
        <4> QED
          BY <2>6, <3>2, <4>4, <4>5, AheadKeeps DEF Fed
      <3> QED
        BY <3>1, <3>2
    <2> HIDE DEF r
    <2> QED
      BY <1>1, <2>3, <2>7, KeepsInStep
  <1>3. CASE ReadRect
    <2> DEFINE r == SetRect([conn EXCEPT !.unread = Tail(@)], Head(conn.unread))
    <2>1. Become(r) /\ UNCHANGED <<toClient, server>>
          /\ conn.unread # <<>> /\ conn.reader = "rectHeader" /\ conn.left > 0
      BY <1>3 DEF ReadRect, IInv, Counting
    <2>2. Keeps(conn, r)
      BY <1>1, <2>1, SetRectKeeps
    <2>3. Head(conn.unread) \in Rects /\ Tail(conn.unread) \in Seq(Rects)
      BY <1>1, <2>1, HeadTailProperties DEF Connection
    <2>4. [conn EXCEPT !.unread = Tail(@)] \in Connection
          /\ [conn EXCEPT !.unread = Tail(@)].left = conn.left
      BY <1>1, <2>3 DEF Connection
    <2>5. Fed(r)
      BY <2>1, <2>3, <2>4, SetRectFeeds
    <2> HIDE DEF r
    <2> QED
      BY <1>1, <2>1, <2>2, <2>5, KeepsInStep DEF Fed
  <1> QED
    BY <1>2, <1>3

\* The first message of the queue is taken: the rest moves up.
LEMMA TakenFirst ==
    ASSUME TypeOK, toClient # <<>>, toClient' = Tail(toClient)
    PROVE  /\ Len(toClient') = Len(toClient) - 1 /\ Len(toClient) \in Nat \ {0}
           /\ Head(toClient) = toClient[1] /\ Head(toClient) \in Update \cup Other
           /\ \A i \in 1 .. Len(toClient') :
                 i + 1 \in 1 .. Len(toClient) /\ toClient'[i] = toClient[i + 1]
           /\ \A i \in 1 .. Len(toClient) :
                 i = 1 \/ (i - 1 \in 1 .. Len(toClient') /\ toClient[i] = toClient'[i - 1])
  <1>1. toClient \in Seq(Update \cup Other)
    BY DEF TypeOK
  <1>2. /\ Len(toClient') = Len(toClient) - 1 /\ Len(toClient) \in Nat \ {0}
        /\ Head(toClient) = toClient[1] /\ Head(toClient) \in Update \cup Other
        /\ \A i \in 1 .. Len(toClient') : toClient'[i] = toClient[i + 1]
    BY <1>1, HeadTailProperties, EmptySeq
  <1>3. \A i \in 1 .. Len(toClient') : i + 1 \in 1 .. Len(toClient)
    BY <1>2
  <1>4. ASSUME NEW i \in 1 .. Len(toClient), i # 1
        PROVE  i - 1 \in 1 .. Len(toClient') /\ toClient[i] = toClient'[i - 1]
    <2>1. i - 1 \in 1 .. Len(toClient') /\ (i - 1) + 1 = i
      BY <1>2, <1>4
    <2>2. toClient'[i - 1] = toClient[(i - 1) + 1]
      BY <1>2, <2>1
    <2> QED
      BY <2>1, <2>2
  <1> QED
    BY <1>2, <1>3, <1>4

\* The messages of which one is the last to do something, once the first has
\* been taken.
LEMMA TakenInStep ==
    ASSUME TypeOK, InStep, toClient # <<>>, toClient' = Tail(toClient), server' = server,
           toServer' = toServer, conn'.started = conn.started, Reading(conn'),
           \A size : /\ SizeIs(RectsOf(Head(toClient)), size)
                     /\ Resizes(RectsOf(Head(toClient))) \/ SizeAfter(conn, size)
                     => SizeAfter(conn', size),
           \A version : /\ VersionIs(RectsOf(Head(toClient)), version)
                        /\ Draws(RectsOf(Head(toClient))) \/ VersionAfter(conn, version)
                        => VersionAfter(conn', version),
           ResizeIsRead(conn) \/ Resizes(RectsOf(Head(toClient))) => ResizeIsRead(conn')
    PROVE  InStep'
  <1> DEFINE m == RectsOf(Head(toClient))
             N == Len(toClient)
  <1>1. /\ Len(toClient') = N - 1 /\ N \in Nat \ {0} /\ 1 \in 1 .. N
        /\ Head(toClient) = toClient[1]
        /\ \A i \in 1 .. Len(toClient') : i + 1 \in 1 .. N /\ toClient'[i] = toClient[i + 1]
        /\ \A i \in 1 .. N :
              i = 1 \/ (i - 1 \in 1 .. Len(toClient') /\ toClient[i] = toClient'[i - 1])
    BY TakenFirst
  <1> HIDE DEF N
  <1>2. QueueShaped'
    BY <1>1 DEF InStep, QueueShaped, N
  <1>a. /\ \A i \in 1 .. N : toClient[i] \in Update \cup Other
        /\ \A i \in 1 .. Len(toClient') : toClient'[i] \in Update \cup Other
    BY <1>1 DEF TypeOK, N
  <1>3. ASSUME NEW S
        PROVE  /\ (\E i \in 1 .. N : toClient[i] \in S) <=>
                     toClient[1] \in S \/ \E i \in 1 .. Len(toClient') : toClient'[i] \in S
               /\ \A i \in 1 .. Len(toClient') :
                     (\E j \in 1 .. N : j > i + 1 /\ toClient[j] \in S) =>
                        \E j \in 1 .. Len(toClient') : j > i /\ toClient'[j] \in S
    <2>1. ASSUME NEW i \in 1 .. Len(toClient'), NEW j \in 1 .. N, j > i + 1, toClient[j] \in S
          PROVE  \E k \in 1 .. Len(toClient') : k > i /\ toClient'[k] \in S
      <3>1. j # 1 /\ j - 1 > i
        BY <1>1, <2>1
      <3>2. j - 1 \in 1 .. Len(toClient') /\ toClient'[j - 1] \in S
        BY <1>1, <2>1, <3>1
      <3> QED
        BY <3>1, <3>2
    <2>2. ASSUME NEW j \in 1 .. N, toClient[j] \in S
          PROVE  toClient[1] \in S \/ \E i \in 1 .. Len(toClient') : toClient'[i] \in S
      BY <1>1, <2>2
    <2>3. ASSUME NEW i \in 1 .. Len(toClient'), toClient'[i] \in S
          PROVE  \E j \in 1 .. N : toClient[j] \in S
      BY <1>1, <2>3
    <2> QED
      BY <1>1, <2>1, <2>2, <2>3
  <1>4. SizeInStep'
    <2> DEFINE z == server.sent.size
               S == {x \in Update \cup Other : Resizes(RectsOf(x))}
    <2>1. /\ (\E i \in 1 .. N : toClient[i] \in S) <=>
                toClient[1] \in S \/ \E i \in 1 .. Len(toClient') : toClient'[i] \in S
          /\ \A i \in 1 .. Len(toClient') :
                (\E j \in 1 .. N : j > i + 1 /\ toClient[j] \in S) =>
                   \E j \in 1 .. Len(toClient') : j > i /\ toClient'[j] \in S
      BY <1>3
    <2>2. /\ \A i \in 1 .. N : \/ toClient[i] \notin S
                               \/ \E j \in 1 .. N : j > i /\ toClient[j] \in S
                               \/ SizeIs(RectsOf(toClient[i]), z)
          /\ (\E i \in 1 .. N : toClient[i] \in S) \/ SizeAfter(conn, z)
      BY <1>a DEF InStep, SizeInStep, N
    <2>3. SizeIs(m, z) /\ (toClient[1] \in S \/ SizeAfter(conn, z)) => SizeAfter(conn', z)
      BY <1>1
    <2>4. m = RectsOf(toClient[1]) /\ (toClient[1] \notin S => SizeIs(m, z))
      BY <1>a, <1>1 DEF Resizes, SizeIs
    <2> HIDE DEF S, z, m
    <2>5. ASSUME NEW i \in 1 .. Len(toClient')
          PROVE  \/ toClient'[i] \notin S
                 \/ \E j \in 1 .. Len(toClient') : j > i /\ toClient'[j] \in S
                 \/ SizeIs(RectsOf(toClient'[i]), z)
      BY <1>1, <2>1, <2>2
    <2>6. (\E i \in 1 .. Len(toClient') : toClient'[i] \in S) \/ SizeAfter(conn', z)
      <3>1. SUFFICES ASSUME ~\E i \in 1 .. Len(toClient') : toClient'[i] \in S
                     PROVE  SizeAfter(conn', z)
        OBVIOUS
      <3>2. ~\E j \in 1 .. N : j > 1 /\ toClient[j] \in S
        <4>1. SUFFICES ASSUME NEW j \in 1 .. N, j > 1, toClient[j] \in S PROVE FALSE
          OBVIOUS
        <4>2. j - 1 \in 1 .. Len(toClient') /\ toClient[j] = toClient'[j - 1]
          BY <1>1, <4>1
        <4> QED
          BY <3>1, <4>1, <4>2
      <3> QED
        BY <1>1, <2>1, <2>2, <2>3, <2>4, <3>1, <3>2
    <2>7. server'.sent.size = z
      BY DEF z
    <2> QED
      BY <1>a, <2>5, <2>6, <2>7 DEF SizeInStep, S
  <1>5. VersionInStep'
    <2>1. CASE FullIsAsked
      BY <2>1 DEF VersionInStep, FullIsAsked
    <2>2. CASE ResizeIsWaiting
      <3> DEFINE S == {x \in Update \cup Other : Resizes(RectsOf(x))}
      <3>1. (\E i \in 1 .. N : toClient[i] \in S) <=>
                toClient[1] \in S \/ \E i \in 1 .. Len(toClient') : toClient'[i] \in S
        BY <1>3
      <3>2. ResizeIsRead(conn) \/ toClient[1] \in S => ResizeIsRead(conn')
        BY <1>1
      <3>3. ResizeIsRead(conn) \/ \E i \in 1 .. N : toClient[i] \in S
        BY <1>a, <2>2 DEF ResizeIsWaiting, N
      <3> HIDE DEF S
      <3>4. ResizeIsRead(conn') \/ \E i \in 1 .. Len(toClient') : toClient'[i] \in S
        BY <3>1, <3>2, <3>3
      <3>5. ResizeIsWaiting'
        BY <1>a, <3>4 DEF ResizeIsWaiting, S
      <3> QED
        BY <3>5 DEF VersionInStep
    <2>3. CASE ~FullIsAsked /\ ~ResizeIsWaiting
      <3> DEFINE z == server.sent.version
                 S == {x \in Update \cup Other : Draws(RectsOf(x))}
      <3>1. /\ (\E i \in 1 .. N : toClient[i] \in S) <=>
                  toClient[1] \in S \/ \E i \in 1 .. Len(toClient') : toClient'[i] \in S
            /\ \A i \in 1 .. Len(toClient') :
                  (\E j \in 1 .. N : j > i + 1 /\ toClient[j] \in S) =>
                     \E j \in 1 .. Len(toClient') : j > i /\ toClient'[j] \in S
        BY <1>3
      <3>2. /\ \A i \in 1 .. N : \/ toClient[i] \notin S
                                 \/ \E j \in 1 .. N : j > i /\ toClient[j] \in S
                                 \/ VersionIs(RectsOf(toClient[i]), z)
            /\ (\E i \in 1 .. N : toClient[i] \in S) \/ VersionAfter(conn, z)
        BY <1>a, <2>3 DEF InStep, VersionInStep, N
      <3>3. VersionIs(m, z) /\ (toClient[1] \in S \/ VersionAfter(conn, z))
               => VersionAfter(conn', z)
        BY <1>1
      <3>4. m = RectsOf(toClient[1]) /\ (toClient[1] \notin S => VersionIs(m, z))
        BY <1>a, <1>1 DEF Draws, VersionIs
      <3> HIDE DEF S, z, m
      <3>5. ASSUME NEW i \in 1 .. Len(toClient')
            PROVE  \/ toClient'[i] \notin S
                   \/ \E j \in 1 .. Len(toClient') : j > i /\ toClient'[j] \in S
                   \/ VersionIs(RectsOf(toClient'[i]), z)
        BY <1>1, <3>1, <3>2
      <3>6. (\E i \in 1 .. Len(toClient') : toClient'[i] \in S) \/ VersionAfter(conn', z)
        <4>1. SUFFICES ASSUME ~\E i \in 1 .. Len(toClient') : toClient'[i] \in S
                       PROVE  VersionAfter(conn', z)
          OBVIOUS
        <4>2. ~\E j \in 1 .. N : j > 1 /\ toClient[j] \in S
          <5>1. SUFFICES ASSUME NEW j \in 1 .. N, j > 1, toClient[j] \in S PROVE FALSE
            OBVIOUS
          <5>2. j - 1 \in 1 .. Len(toClient') /\ toClient[j] = toClient'[j - 1]
            BY <1>1, <5>1
          <5> QED
            BY <4>1, <5>1, <5>2
        <4> QED
          BY <1>1, <3>1, <3>2, <3>3, <3>4, <4>1, <4>2
      <3>7. server'.sent.version = z
        BY DEF z
      <3> QED
        BY <1>a, <3>5, <3>6, <3>7 DEF VersionInStep, S
    <2> QED
      BY <2>1, <2>2, <2>3
  <1> QED
    BY <1>2, <1>4, <1>5 DEF InStep

\* Reading the next message.
LEMMA ReceivesInStep ==
    ASSUME IInv, InStep, ReceiveUpdate \/ ReceiveOther
    PROVE  InStep'
  <1>1. /\ conn \in Connection /\ Reading(conn) /\ TypeOK
        /\ conn.reader = "type" /\ toClient # <<>>
        /\ toClient' = Tail(toClient) /\ server' = server /\ toServer' = toServer
    BY DEF IInv, TypeOK, InStep, ReceiveUpdate, ReceiveOther
  <1>2. /\ conn.unread = <<>> /\ conn.resize = Nowhere
        /\ conn.shown = conn.frameBuffer.version
    BY <1>1 DEF Reading
  <1>3. /\ Head(toClient) = toClient[1] /\ 1 \in 1 .. Len(toClient)
        /\ Head(toClient) \in Update \cup Other
    BY <1>1, TakenFirst
  <1>4. CASE ReceiveUpdate
    <2> DEFINE m == Head(toClient)
    <2>1. m.kind = "update" /\ m \in Update /\ Shaped(m.rects, m.count)
      BY <1>3, <1>4 DEF ReceiveUpdate, Other, InStep, QueueShaped
    <2>2. RectsOf(m) = m.rects
      BY <2>1 DEF RectsOf
    <2>3. conn' = [conn EXCEPT !.reader = "header", !.isReceivingUpdate = TRUE,
                               !.unread = m.rects, !.count = m.count]
      BY <1>4 DEF ReceiveUpdate
    <2>4. /\ conn'.reader = "header" /\ conn'.unread = m.rects /\ conn'.count = m.count
          /\ conn'.started = conn.started /\ conn'.resize = Nowhere
          /\ conn'.invalid = conn.invalid /\ conn'.frameBuffer = conn.frameBuffer
          /\ conn'.shown = conn.shown
      BY <1>1, <1>2, <2>3 DEF Connection
    <2>5. Reading(conn')
      BY <1>2, <2>1, <2>4 DEF Reading
    <2>6. ASSUME NEW size, SizeIs(m.rects, size), Resizes(m.rects) \/ SizeAfter(conn, size)
          PROVE  SizeAfter(conn', size)
      BY <1>2, <2>4, <2>6, NothingLeft DEF SizeAfter
    <2>7. ASSUME NEW version, VersionIs(m.rects, version),
                 Draws(m.rects) \/ VersionAfter(conn, version)
          PROVE  VersionAfter(conn', version)
      BY <1>2, <2>4, <2>7, NothingLeft DEF VersionAfter
    <2>8. ResizeIsRead(conn) \/ Resizes(m.rects) => ResizeIsRead(conn')
      BY <1>2, <2>4, NothingLeft DEF ResizeIsRead
    <2> HIDE DEF m
    <2> QED
      BY <1>1, <2>2, <2>4, <2>5, <2>6, <2>7, <2>8, TakenInStep DEF m
  <1>5. CASE ReceiveOther
    <2>1. conn' = conn /\ RectsOf(Head(toClient)) = <<>>
      BY <1>5 DEF ReceiveOther, RectsOf
    <2> QED
      BY <1>1, <2>1, NothingLeft, TakenInStep
  <1> QED
    BY <1>4, <1>5

\* A message is put in the queue, and the server knows what it has sent.
LEMMA AppendedInStep ==
    ASSUME TypeOK, InStep, NEW m \in Update \cup Other,
           toClient' = Append(toClient, m), UNCHANGED <<conn, toServer>>,
           m.kind = "update" => Shaped(m.rects, m.count),
           SizeIs(RectsOf(m), server'.sent.size),
           Resizes(RectsOf(m)) \/ server'.sent.size = server.sent.size,
           VersionIs(RectsOf(m), server'.sent.version),
           \/ Resizes(RectsOf(m))
           \/ Draws(RectsOf(m))
           \/ /\ server'.sent.version = server.sent.version
              /\ server.asked = "full" => server'.asked = "full"
    PROVE  InStep'
  <1> DEFINE N == Len(toClient)
             q == toClient'
  <1>1. /\ N \in Nat /\ Len(q) = N + 1 /\ q[N + 1] = m
        /\ \A i \in 1 .. N : q[i] = toClient[i]
    BY Appended, LenProperties DEF TypeOK
  <1>2. \A i \in 1 .. Len(q) : (i \in 1 .. N /\ q[i] = toClient[i]) \/ (i = N + 1 /\ q[i] = m)
    BY <1>1
  <1>3. /\ N + 1 \in 1 .. Len(q)
        /\ \A i \in 1 .. N : i \in 1 .. Len(q) /\ i < N + 1
    BY <1>1
  <1>4. conn' = conn /\ toServer' = toServer
    OBVIOUS
  <1>5. q = toClient'
    OBVIOUS
  <1>6. /\ \A i \in 1 .. N :
              toClient[i].kind = "update" => Shaped(toClient[i].rects, toClient[i].count)
        /\ \A i \in 1 .. N : \/ ~Resizes(RectsOf(toClient[i]))
                             \/ \E j \in 1 .. N : j > i /\ Resizes(RectsOf(toClient[j]))
                             \/ SizeIs(RectsOf(toClient[i]), server.sent.size)
        /\ \/ \E i \in 1 .. N : Resizes(RectsOf(toClient[i]))
           \/ SizeAfter(conn, server.sent.size)
        /\ \/ FullIsAsked
           \/ ResizeIsWaiting
           \/ /\ \A i \in 1 .. N : \/ ~Draws(RectsOf(toClient[i]))
                                   \/ \E j \in 1 .. N : j > i /\ Draws(RectsOf(toClient[j]))
                                   \/ VersionIs(RectsOf(toClient[i]), server.sent.version)
              /\ \/ \E i \in 1 .. N : Draws(RectsOf(toClient[i]))
                 \/ VersionAfter(conn, server.sent.version)
    BY DEF InStep, QueueShaped, SizeInStep, VersionInStep
  <1>7. ResizeIsWaiting <=> \/ ResizeIsRead(conn)
                            \/ \E i \in 1 .. N : Resizes(RectsOf(toClient[i]))
    BY DEF ResizeIsWaiting
  <1> HIDE DEF N, q
  <1>8. \A i \in 1 .. Len(q) : q[i].kind = "update" => Shaped(q[i].rects, q[i].count)
    BY <1>2, <1>6
  <1>9. CASE Resizes(RectsOf(m))
    <2>1. ASSUME NEW i \in 1 .. Len(q)
          PROVE  \/ \E j \in 1 .. Len(q) : j > i /\ Resizes(RectsOf(q[j]))
                 \/ SizeIs(RectsOf(q[i]), server'.sent.size)
      <3>1. CASE i = N + 1
        BY <1>1, <3>1
      <3>2. CASE i \in 1 .. N
        BY <1>1, <1>3, <1>9, <3>2
      <3> QED
        BY <1>2, <3>1, <3>2
    <2>2. \E i \in 1 .. Len(q) : Resizes(RectsOf(q[i]))
      BY <1>1, <1>3, <1>9
    <2>3. QueueShaped' /\ SizeInStep' /\ ResizeIsWaiting'
      BY <1>5, <1>8, <2>1, <2>2 DEF QueueShaped, SizeInStep, ResizeIsWaiting
    <2> QED
      BY <1>4, <2>3 DEF InStep, VersionInStep
  <1>10. CASE ~Resizes(RectsOf(m))
    <2>1. server'.sent.size = server.sent.size
      BY <1>10
    <2>2. ASSUME NEW i \in 1 .. Len(q)
          PROVE  \/ ~Resizes(RectsOf(q[i]))
                 \/ \E j \in 1 .. Len(q) : j > i /\ Resizes(RectsOf(q[j]))
                 \/ SizeIs(RectsOf(q[i]), server'.sent.size)
      <3>1. CASE i = N + 1
        BY <1>1, <1>10, <3>1
      <3>2. CASE i \in 1 .. N
        BY <1>1, <1>3, <1>6, <2>1, <3>2
      <3> QED
        BY <1>2, <3>1, <3>2
    <2>3. \/ \E i \in 1 .. Len(q) : Resizes(RectsOf(q[i]))
          \/ SizeAfter(conn, server'.sent.size)
      BY <1>1, <1>3, <1>6, <2>1
    <2>4. QueueShaped' /\ SizeInStep'
      BY <1>4, <1>5, <1>8, <2>2, <2>3 DEF QueueShaped, SizeInStep
    <2>5. VersionInStep'
      <3>1. CASE Draws(RectsOf(m))
        <4>1. ASSUME NEW i \in 1 .. Len(q)
              PROVE  \/ \E j \in 1 .. Len(q) : j > i /\ Draws(RectsOf(q[j]))
                     \/ VersionIs(RectsOf(q[i]), server'.sent.version)
          <5>1. CASE i = N + 1
            BY <1>1, <5>1
          <5>2. CASE i \in 1 .. N
            BY <1>1, <1>3, <3>1, <5>2
          <5> QED
            BY <1>2, <5>1, <5>2
        <4>2. \E i \in 1 .. Len(q) : Draws(RectsOf(q[i]))
          BY <1>1, <1>3, <3>1
        <4> QED
          BY <1>5, <4>1, <4>2 DEF VersionInStep
      <3>2. CASE ~Draws(RectsOf(m))
        <4>1. /\ server'.sent.version = server.sent.version
              /\ server.asked = "full" => server'.asked = "full"
          BY <1>10, <3>2
        <4>2. CASE FullIsAsked
          BY <1>4, <4>1, <4>2 DEF VersionInStep, FullIsAsked
        <4>3. CASE ResizeIsWaiting
          <5>1. \/ ResizeIsRead(conn)
                \/ \E i \in 1 .. Len(q) : Resizes(RectsOf(q[i]))
            BY <1>1, <1>3, <1>7, <4>3
          <5> QED
            BY <1>4, <1>5, <5>1 DEF VersionInStep, ResizeIsWaiting
        <4>4. CASE ~FullIsAsked /\ ~ResizeIsWaiting
          <5>1. ASSUME NEW i \in 1 .. Len(q)
                PROVE  \/ ~Draws(RectsOf(q[i]))
                       \/ \E j \in 1 .. Len(q) : j > i /\ Draws(RectsOf(q[j]))
                       \/ VersionIs(RectsOf(q[i]), server'.sent.version)
            <6>1. CASE i = N + 1
              BY <1>1, <3>2, <6>1
            <6>2. CASE i \in 1 .. N
              BY <1>1, <1>3, <1>6, <4>1, <4>4, <6>2
            <6> QED
              BY <1>2, <6>1, <6>2
          <5>2. \/ \E i \in 1 .. Len(q) : Draws(RectsOf(q[i]))
                \/ VersionAfter(conn, server'.sent.version)
            BY <1>1, <1>3, <1>6, <4>1, <4>4
          <5> QED
            BY <1>4, <1>5, <5>1, <5>2 DEF VersionInStep
        <4> QED
          BY <4>2, <4>3, <4>4
      <3> QED
        BY <3>1, <3>2
    <2> QED
      BY <1>4, <2>4, <2>5 DEF InStep
  <1> QED
    BY <1>9, <1>10

\* The two ways to announce the rectangles of an update.
LEMMA AnnouncedUpdates ==
    ASSUME NEW rects \in Seq(Rects), Len(rects) \in 0 .. 2,
           \A j, k \in 1 .. Len(rects) : rects[j].kind = rects[k].kind => j = k,
           \A k \in 1 .. Len(rects) : rects[k].kind # "last",
           NEW m \in {Counted(rects), Ended(rects)}
    PROVE  /\ m \in Update /\ m.kind = "update" /\ Shaped(m.rects, m.count)
           /\ Resizes(m.rects) <=> Resizes(rects)
           /\ Draws(m.rects) <=> Draws(rects)
           /\ \A size : SizeIs(m.rects, size) <=> SizeIs(rects, size)
           /\ \A version : VersionIs(m.rects, version) <=> VersionIs(rects, version)
  <1>1. m \in Update /\ m.kind = "update"
    <2>1. m \in Update
      BY Updates
    <2> QED
      BY <2>1 DEF Update
  <1>2. CASE m = Counted(rects)
    <2>1. m.rects = rects /\ m.count = Len(rects)
      BY <1>2 DEF Counted
    <2> QED
      BY <1>1, <2>1 DEF Shaped
  <1>3. CASE m = Ended(rects)
    <2> DEFINE last == [kind |-> "last"]
               s == Append(rects, last)
    <2>1. m.rects = s /\ m.count = Many
      BY <1>3 DEF Ended
    <2>2. last \in Rects /\ last.kind = "last"
      BY DEF Rects
    <2>3. /\ s \in Seq(Rects) /\ Len(s) = Len(rects) + 1
          /\ \A k \in 1 .. Len(rects) : s[k] = rects[k]
          /\ s[Len(rects) + 1] = last
      BY <2>2, AppendProperties
    <2> HIDE DEF last, s
    <2>4. \A k \in 1 .. Len(s) :
             (k \in 1 .. Len(rects) /\ s[k] = rects[k]) \/ (k = Len(rects) + 1 /\ s[k] = last)
      BY <2>3
    <2>5. \A k \in 1 .. Len(rects) : k \in 1 .. Len(s)
      BY <2>3
    <2>6. \A j, k \in 1 .. Len(s) : s[j].kind = s[k].kind => j = k
      BY <2>2, <2>4
    <2>7. Many >= Len(s) /\ s # <<>> /\ s[Len(s)].kind = "last"
      BY <2>2, <2>3, ManyIsNat DEF Many
    <2>8. Shaped(s, Many)
      BY <2>6, <2>7 DEF Shaped
    <2>9. (Resizes(s) <=> Resizes(rects)) /\ (Draws(s) <=> Draws(rects))
      BY <2>2, <2>3, <2>4, <2>5 DEF Resizes, Draws
    <2>10. /\ \A size : SizeIs(s, size) <=> SizeIs(rects, size)
           /\ \A version : VersionIs(s, version) <=> VersionIs(rects, version)
      BY <2>2, <2>3, <2>4, <2>5 DEF SizeIs, VersionIs
    <2> QED
      BY <1>1, <2>1, <2>8, <2>9, <2>10
  <1> QED
    BY <1>2, <1>3

\* An answer with the screen, with its new size, or with nothing.
LEMMA AnswersInStep ==
    ASSUME IInv, InStep, ServerAnswers \/ ServerAnswersNothing
    PROVE  InStep'
  <1>1. server \in Server /\ TypeOK
    BY DEF IInv, TypeOK
  <1>2. CASE ServerAnswers
    <2> DEFINE content == [kind |-> "content", screen |-> server.screen]
               resize == [kind |-> "resize", size |-> server.screen.size]
               pseudo == [kind |-> "pseudo"]
    <2>1. PICK rects \in IF server.screen.size # server.sent.size
                         THEN {<<resize>>, <<content, resize>>}
                         ELSE {<<content>>, <<pseudo, content>>} :
             \E update \in {Counted(rects), Ended(rects)} :
                toClient' = Append(toClient, update)
      BY <1>2 DEF ServerAnswers
    <2>2. PICK m \in {Counted(rects), Ended(rects)} : toClient' = Append(toClient, m)
      BY <2>1
    <2>3. /\ content \in Rects /\ resize \in Rects /\ pseudo \in Rects
          /\ content.kind = "content" /\ content.screen = server.screen
          /\ resize.kind = "resize" /\ resize.size = server.screen.size
          /\ pseudo.kind = "pseudo"
      BY <1>1 DEF Rects, Server, Screen
    <2> HIDE DEF content, resize, pseudo
    <2>4. /\ rects \in Seq(Rects) /\ Len(rects) \in 0 .. 2
          /\ \A j, k \in 1 .. Len(rects) : rects[j].kind = rects[k].kind => j = k
          /\ \A k \in 1 .. Len(rects) : rects[k].kind # "last"
          /\ SizeIs(rects, server.screen.size)
          /\ VersionIs(rects, server.screen.version)
          /\ Resizes(rects) \/ (Draws(rects) /\ server.screen.size = server.sent.size)
      <3>1. CASE rects = <<resize>> /\ server.screen.size # server.sent.size
        <4>1. rects \in Seq(Rects) /\ Len(rects) = 1 /\ rects[1] = resize
          BY <2>3, <3>1
        <4> QED
          BY <2>3, <4>1 DEF SizeIs, VersionIs, Resizes, Draws
      <3>2. CASE rects = <<content>> /\ server.screen.size = server.sent.size
        <4>1. rects \in Seq(Rects) /\ Len(rects) = 1 /\ rects[1] = content
          BY <2>3, <3>2
        <4> QED
          BY <2>3, <3>2, <4>1 DEF SizeIs, VersionIs, Resizes, Draws
      <3>3. CASE rects = <<content, resize>> /\ server.screen.size # server.sent.size
        <4>1. rects \in Seq(Rects) /\ Len(rects) = 2 /\ rects[1] = content /\ rects[2] = resize
          BY <2>3, <3>3
        <4> QED
          BY <2>3, <4>1 DEF SizeIs, VersionIs, Resizes, Draws
      <3>4. CASE rects = <<pseudo, content>> /\ server.screen.size = server.sent.size
        <4>1. rects \in Seq(Rects) /\ Len(rects) = 2 /\ rects[1] = pseudo /\ rects[2] = content
          BY <2>3, <3>4
        <4> QED
          BY <2>3, <3>4, <4>1 DEF SizeIs, VersionIs, Resizes, Draws
      <3> QED
        BY <2>1, <3>1, <3>2, <3>3, <3>4
    <2>5. /\ m \in Update /\ m.kind = "update" /\ Shaped(m.rects, m.count)
          /\ Resizes(m.rects) <=> Resizes(rects)
          /\ Draws(m.rects) <=> Draws(rects)
          /\ \A size : SizeIs(m.rects, size) <=> SizeIs(rects, size)
          /\ \A version : VersionIs(m.rects, version) <=> VersionIs(rects, version)
      BY <2>2, <2>4, AnnouncedUpdates
    <2>6. RectsOf(m) = m.rects
      BY <2>5 DEF RectsOf
    <2>7. server'.sent = server.screen /\ UNCHANGED <<conn, toServer>>
      BY <1>1, <1>2 DEF ServerAnswers, Server
    <2>8. /\ SizeIs(RectsOf(m), server'.sent.size)
          /\ VersionIs(RectsOf(m), server'.sent.version)
          /\ Resizes(RectsOf(m)) \/ server'.sent.size = server.sent.size
          /\ Resizes(RectsOf(m)) \/ Draws(RectsOf(m))
      BY <2>4, <2>5, <2>6, <2>7
    <2> QED
      BY <1>1, <2>2, <2>5, <2>7, <2>8, AppendedInStep
  <1>3. CASE ServerAnswersNothing
    <2> DEFINE m == Counted(<<>>)
    <2>1. m.kind = "update" /\ m.rects = <<>> /\ m.count = 0 /\ m \in Update
      <3>1. <<>> \in Seq(Rects) /\ Len(<<>>) = 0 /\ Len(<<>>) \in 0 .. 2
        OBVIOUS
      <3>2. m \in Update
        BY <3>1, Updates
      <3> QED
        BY <3>1, <3>2 DEF Counted
    <2>2. RectsOf(m) = <<>>
      BY <2>1 DEF RectsOf
    <2>3. Shaped(m.rects, m.count)
      BY <2>1 DEF Shaped
    <2>4. /\ server'.sent = server.sent /\ server.asked # "full"
          /\ UNCHANGED <<conn, toServer>> /\ toClient' = Append(toClient, m)
      BY <1>1, <1>3 DEF ServerAnswersNothing, Server
    <2> HIDE DEF m
    <2> QED
      BY <1>1, <2>1, <2>2, <2>3, <2>4, NothingLeft, AppendedInStep
  <1> QED
    BY <1>2, <1>3

\* Another message, the reading of a request, a change of the screen.
LEMMA ServerInStep ==
    ASSUME IInv, InStep, ServerSendsOther \/ ServerReads \/ ScreenChanges
    PROVE  InStep'
  <1>1. TypeOK /\ server \in Server
    BY DEF IInv, TypeOK
  <1>2. CASE ServerSendsOther
    <2> DEFINE m == [kind |-> "other"]
    <2>1. m \in Other /\ m.kind # "update" /\ RectsOf(m) = <<>>
      BY DEF Other, RectsOf
    <2>2. toClient' = Append(toClient, m) /\ UNCHANGED <<conn, toServer, server>>
      BY <1>2 DEF ServerSendsOther
    <2> HIDE DEF m
    <2> QED
      BY <1>1, <2>1, <2>2, NothingLeft, AppendedInStep
  <1>3. CASE ServerReads
    <2>1. /\ server'.sent = server.sent
          /\ server'.asked = IF server.asked = "full" THEN "full" ELSE Head(toServer)
          /\ toServer' = Tail(toServer) /\ toServer # <<>> /\ UNCHANGED <<conn, toClient>>
      BY <1>1, <1>3 DEF ServerReads, Server
    <2>2. FullIsAsked => FullIsAsked'
      <3>1. CASE ~conn.started \/ server.asked = "full"
        BY <2>1, <3>1 DEF FullIsAsked
      <3>2. CASE \E i \in 1 .. Len(toServer) : toServer[i] = "full"
        <4>1. PICK i \in 1 .. Len(toServer) : toServer[i] = "full"
          BY <3>2
        <4>2. /\ Head(toServer) = toServer[1] /\ Len(toServer') = Len(toServer) - 1
              /\ \A k \in 1 .. Len(toServer') : toServer'[k] = toServer[k + 1]
              /\ Len(toServer) \in Nat \ {0}
          BY <1>1, <2>1, HeadTailProperties, EmptySeq DEF TypeOK
        <4>3. CASE i = 1
          BY <2>1, <4>1, <4>2, <4>3 DEF FullIsAsked
        <4>4. CASE i # 1
          <5>1. i - 1 \in 1 .. Len(toServer') /\ (i - 1) + 1 = i
            BY <4>2, <4>4
          <5>2. toServer'[i - 1] = "full"
            BY <4>1, <4>2, <5>1
          <5> QED
            BY <5>1, <5>2 DEF FullIsAsked
        <4> QED
          BY <4>3, <4>4
      <3> QED
        BY <3>1, <3>2 DEF FullIsAsked
    <2> QED
      BY <2>1, <2>2
      DEF InStep, QueueShaped, SizeInStep, VersionInStep, ResizeIsWaiting, ResizeIsRead,
          Reading, SizeAfter, VersionAfter
  <1>4. CASE ScreenChanges
    <2>1. /\ server'.sent = server.sent /\ server'.asked = server.asked
          /\ UNCHANGED <<conn, toServer, toClient>>
      BY <1>1, <1>4 DEF ScreenChanges, Server
    <2> QED
      BY <2>1
      DEF InStep, QueueShaped, SizeInStep, VersionInStep, ResizeIsWaiting, ResizeIsRead,
          FullIsAsked, Reading, SizeAfter, VersionAfter
  <1> QED
    BY <1>2, <1>3, <1>4

\* start: a full update is requested, whatever the window does.
LEMMA StartInStep ==
    ASSUME IInv, InStep, Start
    PROVE  InStep'
  <1> DEFINE c == [conn EXCEPT !.started = TRUE]
             r == IF window.visible /\ ~window.key
                  THEN SetFrameBufferUpdateSeconds(c, front) ELSE Result(c, <<>>)
             s == Result(r.conn, r.requests \o <<"full">>)
  <1>1. conn \in Connection /\ front \in Intervals /\ TypeOK /\ Reading(conn)
    BY DEF IInv, TypeOK, InStep
  <1>2. /\ c \in Connection /\ c.reader = conn.reader /\ c.unread = conn.unread
        /\ c.count = conn.count /\ c.left = conn.left /\ c.resize = conn.resize
        /\ c.invalid = conn.invalid /\ c.frameBuffer = conn.frameBuffer
        /\ c.shown = conn.shown
    BY <1>1 DEF Connection
  <1>3. Become(s) /\ UNCHANGED <<toClient, server>>
    BY DEF Start
  <1> HIDE DEF c
  <1>4. r.conn \in Connection /\ r.requests \in Seq(Requests) /\ Alike(c, r.conn)
    <2>1. CASE window.visible /\ ~window.key
      BY <1>1, <1>2, <2>1, IntervalFeeds, IntervalAlike
    <2>2. CASE ~(window.visible /\ ~window.key)
      <3>1. r = Result(c, <<>>) /\ <<>> \in Seq(Requests)
        BY <2>2
      <3> HIDE DEF r
      <3> QED
        BY <1>2, <3>1 DEF Result, Alike
    <2> QED
      BY <2>1, <2>2
  <1> HIDE DEF r
  <1>5. s.conn = r.conn /\ s.requests = r.requests \o <<"full">>
    BY DEF Result
  <1>6. <<"full">> \in Seq(Requests) /\ Len(<<"full">>) = 1 /\ <<"full">>[1] = "full"
    BY DEF Requests
  <1> HIDE DEF s
  <1>7. s.requests \in Seq(Requests) /\ \E i \in 1 .. Len(s.requests) : s.requests[i] = "full"
    <2>1. \E i \in 1 .. Len(<<"full">>) : <<"full">>[i] = "full"
      BY <1>6
    <2> QED
      BY <1>4, <1>5, <1>6, <2>1, Written, FullIsWritten
  <1>8. Reading(s.conn) /\ \A size : SizeAfter(conn, size) => SizeAfter(s.conn, size)
    BY <1>1, <1>2, <1>4, <1>5 DEF Alike, Reading, SizeAfter
  <1> QED
    BY <1>1, <1>3, <1>7, <1>8, KeepsInStep DEF Keeps

\* A change of the interval, and the requests that go with it.
LEMMA ChangeInStep ==
    ASSUME IInv, InStep, NEW i \in Intervals, NEW more \in Seq(Requests),
           Become(Result(SetFrameBufferUpdateSeconds(conn, i).conn,
                         SetFrameBufferUpdateSeconds(conn, i).requests \o more)),
           UNCHANGED <<toClient, server>>
    PROVE  InStep'
  <1> DEFINE r == SetFrameBufferUpdateSeconds(conn, i)
             s == Result(r.conn, r.requests \o more)
  <1>1. conn \in Connection /\ TypeOK /\ Reading(conn)
    BY DEF IInv, TypeOK, InStep
  <1>2. r.requests \in Seq(Requests) /\ Alike(conn, r.conn)
    BY <1>1, IntervalFeeds, IntervalAlike
  <1>3. Become(s)
    OBVIOUS
  <1> HIDE DEF r
  <1>4. s.conn = r.conn /\ s.requests = r.requests \o more
    BY DEF Result
  <1> HIDE DEF s
  <1>5. s.requests \in Seq(Requests) /\ Alike(conn, s.conn)
    BY <1>2, <1>4, Written
  <1> QED
    BY <1>1, <1>3, <1>5, AlikeKeeps, KeepsInStep

\* The same without further requests, or without any change.
LEMMA PlainInStep ==
    ASSUME IInv, InStep, UNCHANGED <<toClient, server>>,
           \/ \E i \in Intervals : Become(SetFrameBufferUpdateSeconds(conn, i))
           \/ Become(RequestFrameBufferUpdate(conn))
           \/ Become(Result(conn, <<>>))
    PROVE  InStep'
  <1>1. conn \in Connection /\ TypeOK /\ Reading(conn)
    BY DEF IInv, TypeOK, InStep
  <1>2. CASE \E i \in Intervals : Become(SetFrameBufferUpdateSeconds(conn, i))
    <2>1. PICK i \in Intervals : Become(SetFrameBufferUpdateSeconds(conn, i))
      BY <1>2
    <2> QED
      BY <1>1, <2>1, IntervalFeeds, IntervalAlike, AlikeKeeps, KeepsInStep
  <1>3. CASE Become(RequestFrameBufferUpdate(conn))
    <2>1. RequestFrameBufferUpdate(conn).requests \in Seq(Requests)
      BY <1>1, RequestFeeds DEF Fed, IInv, Counting
    <2> QED
      BY <1>1, <1>3, <2>1, RequestAlike, AlikeKeeps, KeepsInStep
  <1>4. CASE Become(Result(conn, <<>>))
    <2>1. /\ Result(conn, <<>>).requests \in Seq(Requests)
          /\ Alike(conn, Result(conn, <<>>).conn)
      BY DEF Result, Alike
    <2> QED
      BY <1>1, <1>4, <2>1, AlikeKeeps, KeepsInStep
  <1> QED
    BY <1>2, <1>3, <1>4

\* The window, the menu, the timer and the preferences.
LEMMA WindowInStep ==
    ASSUME IInv, InStep,
           \/ WindowAppears \/ WindowHides \/ WindowKey \/ RequestedByUser \/ UpdateTimer
           \/ \E i \in Intervals : FrontSlider(i) \/ OtherSlider(i)
    PROVE  InStep'
  <1>1. front \in Intervals /\ other \in Intervals /\ "manual" \in Intervals
    BY DEF IInv, TypeOK, Intervals
  <1>2. CASE WindowAppears
    <2>1. IntervalOf(window) \in Intervals
      BY <1>1 DEF IntervalOf
    <2>2. <<"full">> \in Seq(Requests)
      BY DEF Requests
    <2>3. /\ Become(Result(SetFrameBufferUpdateSeconds(conn, IntervalOf(window)).conn,
                           SetFrameBufferUpdateSeconds(conn, IntervalOf(window)).requests
                              \o <<"full">>))
          /\ UNCHANGED <<toClient, server>>
      BY <1>2 DEF WindowAppears, ForceFrameBufferUpdate, Result
    <2> QED
      BY <2>1, <2>2, <2>3, ChangeInStep
  <1>3. CASE WindowHides
    BY <1>1, <1>3, PlainInStep DEF WindowHides
  <1>4. CASE WindowKey
    <2>1. IntervalOf(window') \in Intervals
      BY <1>1 DEF IntervalOf
    <2> QED
      BY <1>4, <2>1, PlainInStep DEF WindowKey
  <1>5. CASE RequestedByUser \/ UpdateTimer
    BY <1>5, PlainInStep DEF RequestedByUser, UpdateTimer
  <1>6. CASE \E i \in Intervals : FrontSlider(i) \/ OtherSlider(i)
    BY <1>6, PlainInStep DEF FrontSlider, OtherSlider
  <1> QED
    BY <1>2, <1>3, <1>4, <1>5, <1>6

\* Every step keeps the two ends in step.
LEMMA NextInStep == IInv /\ InStep /\ [Next]_vars => InStep'
  <1> SUFFICES ASSUME IInv, InStep, [Next]_vars PROVE InStep'
    OBVIOUS
  <1>1. CASE Start
    BY <1>1, StartInStep
  <1>2. CASE ReceiveUpdate \/ ReceiveOther
    BY <1>2, ReceivesInStep
  <1>3. CASE SetHeader \/ ReadRect
    BY <1>3, ReadsInStep
  <1>4. CASE \/ WindowAppears \/ WindowHides \/ WindowKey \/ RequestedByUser \/ UpdateTimer
             \/ \E i \in Intervals : FrontSlider(i) \/ OtherSlider(i)
    BY <1>4, WindowInStep
  <1>5. CASE ServerSendsOther \/ ServerReads \/ ScreenChanges
    BY <1>5, ServerInStep
  <1>6. CASE ServerAnswers \/ ServerAnswersNothing
    BY <1>6, AnswersInStep
  <1>7. CASE UNCHANGED vars
    BY <1>7 DEF vars, InStep, QueueShaped, SizeInStep, VersionInStep, ResizeIsWaiting,
                ResizeIsRead, FullIsAsked, Reading, SizeAfter, VersionAfter
  <1> QED
    BY <1>1, <1>2, <1>3, <1>4, <1>5, <1>6, <1>7 DEF Next

\* With nothing under way, what is under way comes to what is shown.
LEMMA InStepShows == InStep => WindowShowsScreen
  <1> SUFFICES ASSUME InStep, conn.started, conn.reader = "type", toServer = <<>>,
                      server.asked # "full",
                      \A i \in 1 .. Len(toClient) : toClient[i].kind = "other"
               PROVE  /\ conn.frameBuffer.size = server.sent.size
                      /\ conn.shown = server.sent.version
    BY DEF WindowShowsScreen
  <1>1. /\ conn.unread = <<>> /\ conn.resize = Nowhere
        /\ conn.shown = conn.frameBuffer.version
    BY DEF InStep, Reading
  <1>2. \A i \in 1 .. Len(toClient) : RectsOf(toClient[i]) = <<>>
    BY DEF RectsOf
  <1>3. Len(toServer) = 0
    OBVIOUS
  <1>4. ~FullIsAsked
    BY <1>3 DEF FullIsAsked
  <1>5. ~ResizeIsWaiting
    BY <1>1, <1>2, NothingLeft DEF ResizeIsWaiting, ResizeIsRead
  <1>6. SizeAfter(conn, server.sent.size)
    BY <1>2, NothingLeft DEF InStep, SizeInStep
  <1>7. VersionAfter(conn, server.sent.version)
    BY <1>2, <1>4, <1>5, NothingLeft DEF InStep, VersionInStep
  <1> QED
    BY <1>1, <1>6, <1>7, NothingLeft DEF SizeAfter, VersionAfter

\* Whatever the sizes, the number of changes and the length of the queues: when
\* nothing is under way, the window shows what the server believes it shows.
THEOREM WindowAlwaysShows == Spec => []WindowShowsScreen
  BY Invariance, InitInStep, NextInStep, InStepShows, PTL DEF Spec

=============================================================================
