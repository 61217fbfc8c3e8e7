-------------------------- MODULE RFBWriterProofs --------------------------
(***************************************************************************)
(* Proofs about the write side of RFBConnection, for every buffer size,    *)
(* every message size and every set of positions, masks and keys.          *)
(*                                                                         *)
(* The lemmas follow the code: one per function that moves bytes, saying   *)
(* what it does to a write state that satisfies OutOK.  The steps of Next  *)
(* then only compose them.  The last part proves that the writer           *)
(* implements OutputStream.                                                *)
(***************************************************************************)
EXTENDS RFBWriter, SequenceTheorems, WellFoundedInduction, TLAPS

\* The parts of the invariant that speak of the write state alone.
OutOK(o) ==
    /\ o \in Output
    /\ Len(o.buffer) <= BUFFER_SIZE
    /\ WellFramed(o.wire)
    /\ WellFramed(o.buffer)

\* What the writer has been given and has not dropped, in order.
StreamOf(o) == o.wire \o o.buffer

-----------------------------------------------------------------------------
\* Framing, as a fact about byte sequences.

\* A slice of a message is a sequence of bytes of the length it should have.
LEMMA SliceIsBytes ==
    ASSUME NEW m \in Message, NEW a \in Nat \ {0}, NEW z \in Nat, a <= z
    PROVE  /\ Slice(m, a, z) \in Seq(Byte)
           /\ Len(Slice(m, a, z)) = z - a + 1
           /\ \A i \in 1 .. z - a + 1 : Slice(m, a, z)[i] = [msg |-> m, at |-> a + i - 1]
<1>2. \A i \in 1 .. z - a + 1 : [msg |-> m, at |-> a + i - 1] \in Byte
  BY DEF Byte
<1>3. Slice(m, a, z) \in [1 .. z - a + 1 -> Byte]
  BY <1>2 DEF Slice
<1>4. z - a + 1 \in Nat
  OBVIOUS
<1>5. Slice(m, a, z) \in Seq(Byte)
  BY <1>3, <1>4
<1>6. Len(Slice(m, a, z)) = z - a + 1
  BY <1>4, <1>3, LenProperties DEF Slice
<1>. QED
  BY <1>5, <1>6 DEF Slice

\* The bytes of one message are framed.
LEMMA BytesFramed ==
    ASSUME NEW m \in Message
    PROVE  /\ Bytes(m) \in Seq(Byte)
           /\ Len(Bytes(m)) = Size(m)
           /\ Size(m) \in Nat \ {0}
           /\ \A i \in 1 .. Size(m) : Bytes(m)[i] = [msg |-> m, at |-> i]
           /\ WellFramed(Bytes(m))
<1>1. Size(m) \in Nat \ {0}
  BY SizeAssumption DEF Size, Message
<1>2. /\ Bytes(m) \in Seq(Byte)
      /\ Len(Bytes(m)) = Size(m)
      /\ \A i \in 1 .. Size(m) : Bytes(m)[i] = [msg |-> m, at |-> i]
  <2>1. /\ Slice(m, 1, Size(m)) \in Seq(Byte)
        /\ Len(Slice(m, 1, Size(m))) = Size(m) - 1 + 1
        /\ \A i \in 1 .. Size(m) - 1 + 1 :
              Slice(m, 1, Size(m))[i] = [msg |-> m, at |-> 1 + i - 1]
    BY <1>1, SliceIsBytes, 1 \in Nat \ {0}, Size(m) \in Nat, 1 <= Size(m)
  <2>. QED BY <1>1, <2>1 DEF Bytes
<1>3. WellFramed(Bytes(m))
  BY <1>1, <1>2 DEF WellFramed
<1>. QED
  BY <1>1, <1>2, <1>3

\* A message cut in two is the message.
LEMMA SlicesJoin ==
    ASSUME NEW m \in Message, Size(m) > 1
    PROVE  /\ Slice(m, 1, 1) \in Seq(Byte) /\ Len(Slice(m, 1, 1)) = 1
           /\ Slice(m, 2, Size(m)) \in Seq(Byte)
           /\ Slice(m, 1, 1) \o Slice(m, 2, Size(m)) = Bytes(m)
<1>1. Size(m) \in Nat \ {0}
  BY SizeAssumption DEF Size, Message
<1>2. /\ Slice(m, 1, 1) \in Seq(Byte)
      /\ Len(Slice(m, 1, 1)) = 1 - 1 + 1
      /\ \A i \in 1 .. 1 - 1 + 1 : Slice(m, 1, 1)[i] = [msg |-> m, at |-> 1 + i - 1]
  BY SliceIsBytes, 1 \in Nat \ {0}, 1 \in Nat, 1 <= 1
<1>3. /\ Slice(m, 2, Size(m)) \in Seq(Byte)
      /\ Len(Slice(m, 2, Size(m))) = Size(m) - 2 + 1
      /\ \A i \in 1 .. Size(m) - 2 + 1 :
            Slice(m, 2, Size(m))[i] = [msg |-> m, at |-> 2 + i - 1]
  BY <1>1, SliceIsBytes, 2 \in Nat \ {0}, Size(m) \in Nat, 2 <= Size(m)
<1>. DEFINE h == Slice(m, 1, 1)
            t == Slice(m, 2, Size(m))
<1>4. h \in Seq(Byte) /\ Len(h) = 1 /\ h[1] = [msg |-> m, at |-> 1]
  BY <1>2
<1>5. /\ t \in Seq(Byte) /\ Len(t) = Size(m) - 1
      /\ \A i \in 1 .. Size(m) - 1 : t[i] = [msg |-> m, at |-> i + 1]
  BY <1>1, <1>3
<1>. HIDE DEF h, t
<1>6. /\ h \o t \in Seq(Byte) /\ Len(h \o t) = Size(m)
      /\ \A i \in 1 .. Size(m) : (h \o t)[i] = [msg |-> m, at |-> i]
  <2>1. /\ h \o t \in Seq(Byte) /\ Len(h \o t) = Len(h) + Len(t)
        /\ \A i \in 1 .. Len(h) + Len(t) :
              (h \o t)[i] = IF i <= Len(h) THEN h[i] ELSE t[i - Len(h)]
    BY <1>4, <1>5, ConcatProperties
  <2>2. Len(h \o t) = Size(m)
    BY <1>1, <1>4, <1>5, <2>1
  <2>3. ASSUME NEW i \in 1 .. Size(m)
        PROVE  (h \o t)[i] = [msg |-> m, at |-> i]
    <3>1. CASE i = 1 BY <1>1, <1>4, <1>5, <2>1, <3>1
    <3>2. CASE i # 1
      <4>1. (h \o t)[i] = t[i - 1] /\ i - 1 \in 1 .. Size(m) - 1
        BY <1>1, <1>4, <1>5, <2>1, <3>2
      <4>. QED BY <1>1, <1>5, <4>1
    <3>. QED BY <1>1, <3>1, <3>2
  <2>. QED BY <2>1, <2>2, <2>3
<1>7. h \o t = Bytes(m)
  <2>1. \A i \in 1 .. Len(h \o t) : (h \o t)[i] = Bytes(m)[i]
    BY <1>6, BytesFramed
  <2>. QED BY <1>6, <2>1, BytesFramed, SeqEqual
<1>. QED
  BY <1>4, <1>5, <1>7 DEF h, t

\* Concatenation of byte sequences is associative.
LEMMA BytesAssociative ==
    ASSUME NEW s \in Seq(Byte), NEW t \in Seq(Byte), NEW u \in Seq(Byte)
    PROVE  (s \o t) \o u = s \o (t \o u)
BY ConcatAssociative

\* An empty buffer is framed.
LEMMA EmptyFramed == <<>> \in Seq(Byte) /\ WellFramed(<<>>)
BY DEF WellFramed

\* Framed sequences can be put one after the other.
LEMMA ConcatFramed ==
    ASSUME NEW s \in Seq(Byte), NEW t \in Seq(Byte), WellFramed(s), WellFramed(t)
    PROVE  s \o t \in Seq(Byte) /\ WellFramed(s \o t)
<1>. DEFINE u == s \o t
<1>1. /\ u \in Seq(Byte) /\ Len(u) = Len(s) + Len(t)
      /\ \A i \in 1 .. Len(s) : u[i] = s[i]
      /\ \A i \in 1 .. Len(t) : u[Len(s) + i] = t[i]
  BY ConcatProperties
<1>2. \A m \in Message : Size(m) \in Nat \ {0}
  BY SizeAssumption DEF Size, Message
<1>. HIDE DEF u
<1>3. ASSUME NEW i \in 1 .. Len(u)
      PROVE  LET m == u[i].msg
                 start == i - u[i].at
             IN  /\ start \in 0 .. Len(u) - Size(m)
                 /\ u[i].at \in 1 .. Size(m)
                 /\ \A k \in 1 .. Size(m) : u[start + k] = [msg |-> m, at |-> k]
  <2>1. CASE i <= Len(s)
    <3>1. i \in 1 .. Len(s) /\ u[i] = s[i] /\ s[i] \in Byte
      BY <1>1, <2>1
    <3>2. s[i].msg \in Message /\ s[i].at \in Nat /\ Size(s[i].msg) \in Nat \ {0}
      BY <3>1, <1>2 DEF Byte
    <3>. DEFINE m == s[i].msg
                start == i - s[i].at
    <3>3. /\ start \in 0 .. Len(s) - Size(m)
          /\ s[i].at \in 1 .. Size(m)
          /\ \A k \in 1 .. Size(m) : s[start + k] = [msg |-> m, at |-> k]
      BY <3>1 DEF WellFramed
    <3>4. \A k \in 1 .. Size(m) : start + k \in 1 .. Len(s)
      BY <3>2, <3>3
    <3>. HIDE DEF m, start
    <3>5. \A k \in 1 .. Size(m) : u[start + k] = [msg |-> m, at |-> k]
      BY <3>3, <3>4, <1>1
    <3>6. start \in 0 .. Len(u) - Size(m)
      BY <3>2, <3>3, <1>1 DEF m
    <3>. QED BY <3>1, <3>3, <3>5, <3>6 DEF m, start
  <2>2. CASE i > Len(s)
    <3>. DEFINE j == i - Len(s)
    <3>1. /\ j \in 1 .. Len(t) /\ u[i] = t[j] /\ t[j] \in Byte
          /\ Len(s) \in Nat /\ Len(t) \in Nat /\ i \in Nat /\ i = Len(s) + j
      BY <1>1, <2>2
    <3>2. t[j].msg \in Message /\ t[j].at \in Nat /\ Size(t[j].msg) \in Nat \ {0}
      BY <3>1, <1>2 DEF Byte
    <3>3. /\ j - t[j].at \in 0 .. Len(t) - Size(t[j].msg)
          /\ t[j].at \in 1 .. Size(t[j].msg)
          /\ \A k \in 1 .. Size(t[j].msg) :
                t[j - t[j].at + k] = [msg |-> t[j].msg, at |-> k]
      BY <3>1 DEF WellFramed
    <3>. DEFINE m == t[j].msg
                start == j - t[j].at
                size == Size(m)
    <3>. HIDE DEF j
    <3>a. start \in Nat /\ size \in Nat \ {0} /\ start <= Len(t) - size
      <4>1. start \in 0 .. Len(t) - size /\ size \in Nat \ {0}
        BY <3>2, <3>3
      <4>. HIDE DEF start, size
      <4>. QED BY <4>1, <3>1
    <3>b. u[i].msg = m /\ u[i].at \in 1 .. size
      BY <3>1, <3>3
    <3>c. i - u[i].at = Len(s) + start
      <4>1. u[i].at = t[j].at
        BY <3>1
      <4>2. j \in Nat /\ t[j].at \in Nat /\ Len(s) \in Nat /\ i = Len(s) + j
        BY <3>1, <3>2
      <4>. QED BY <4>1, <4>2
    <3>d. \A k \in 1 .. size : t[start + k] = [msg |-> m, at |-> k]
      BY <3>3
    <3>4. /\ start \in Nat /\ size \in Nat \ {0} /\ start <= Len(t) - size
          /\ u[i].msg = m /\ u[i].at \in 1 .. size
          /\ i - u[i].at = Len(s) + start
          /\ \A k \in 1 .. size : t[start + k] = [msg |-> m, at |-> k]
      <4>. HIDE DEF m, start, size
      <4>. QED BY <3>a, <3>b, <3>c, <3>d
    <3>. HIDE DEF m, start, size
    <3>5. \A k \in 1 .. size : u[(Len(s) + start) + k] = [msg |-> m, at |-> k]
      <4>1. ASSUME NEW k \in 1 .. size
            PROVE  u[(Len(s) + start) + k] = [msg |-> m, at |-> k]
        <5>1. start + k \in 1 .. Len(t) /\ (Len(s) + start) + k = Len(s) + (start + k)
          BY <3>1, <3>4
        <5>. QED BY <5>1, <3>4, <1>1
      <4>. QED BY <4>1
    <3>6. Len(s) + start \in 0 .. Len(u) - size
      BY <3>1, <3>4, <1>1
    <3>. QED BY <3>4, <3>5, <3>6 DEF size
  <2>. QED BY <2>1, <2>2, <1>1
<1>. QED
  BY <1>1, <1>3 DEF WellFramed, u

\* Removing as many bytes as the last message has removes that message.
LEMMA DropFramed ==
    ASSUME NEW s \in Seq(Byte), WellFramed(s), s # <<>>,
           NEW n \in Nat, Size(s[Len(s)].msg) = n
    PROVE  /\ n <= Len(s)
           /\ SubSeq(s, 1, Len(s) - n) \in Seq(Byte)
           /\ Len(SubSeq(s, 1, Len(s) - n)) = Len(s) - n
           /\ WellFramed(SubSeq(s, 1, Len(s) - n))
<1>. DEFINE L == Len(s)
            u == SubSeq(s, 1, L - n)
            last == s[L]
<1>1. \A m \in Message : Size(m) \in Nat \ {0}
  BY SizeAssumption DEF Size, Message
<1>2. L \in Nat \ {0} /\ last \in Byte
  BY EmptySeq
<1>3. /\ L - last.at \in 0 .. L - n
      /\ last.at \in 1 .. n
      /\ \A k \in 1 .. n : s[L - last.at + k] = [msg |-> last.msg, at |-> k]
  BY <1>2 DEF WellFramed
<1>4. last.at = n /\ n <= L
  BY <1>2, <1>3
<1>5. /\ u \in Seq(Byte) /\ Len(u) = L - n
      /\ \A i \in 1 .. L - n : u[i] = s[i]
  BY <1>2, <1>4, SubSeqProperties
<1>. HIDE DEF u, L, last
<1>6. ASSUME NEW i \in 1 .. L - n
      PROVE  /\ i - s[i].at \in 0 .. (L - n) - Size(s[i].msg)
             /\ s[i].at \in 1 .. Size(s[i].msg)
             /\ \A k \in 1 .. Size(s[i].msg) :
                    u[i - s[i].at + k] = [msg |-> s[i].msg, at |-> k]
  <2>. DEFINE m == s[i].msg
              start == i - s[i].at
  <2>0. i \in 1 .. L
    BY <1>2, <1>4
  <2>1. s[i] \in Byte /\ m \in Message /\ Size(m) \in Nat \ {0} /\ s[i].at \in Nat
    <3>1. s[i] \in Byte
      BY <2>0, ElementOfSeq DEF L
    <3>. QED BY <3>1, <1>1 DEF Byte
  <2>2. /\ start \in 0 .. L - Size(m)
        /\ s[i].at \in 1 .. Size(m)
        /\ \A k \in 1 .. Size(m) : s[start + k] = [msg |-> m, at |-> k]
    BY <2>0 DEF WellFramed, L
  <2>a. start \in Nat /\ L \in Nat /\ n <= L /\ i <= L - n /\ start < i
    BY <2>1, <2>2, <1>2, <1>4
  <2>3. start + Size(m) <= L - n
    <3>1. SUFFICES ASSUME start + Size(m) > L - n PROVE FALSE
      BY <2>1, <2>a
    <3>. DEFINE k == (L - n) + 1 - start
    <3>2. k \in 1 .. Size(m)
      <4>. HIDE DEF m, start
      <4>. QED BY <3>1, <2>1, <2>a
    <3>3. s[start + k] = [msg |-> m, at |-> k]
      BY <3>2, <2>2
    <3>4. s[L - n + 1] = [msg |-> last.msg, at |-> 1]
      BY <1>2, <1>3, <1>4
    <3>5. start + k = L - n + 1
      <4>. HIDE DEF m, start
      <4>. QED BY <2>a
    <3>6. k = 1
      BY <3>3, <3>4, <3>5
    <3>. HIDE DEF m, start
    <3>. QED BY <3>6, <2>a
  <2>4. \A k \in 1 .. Size(m) : start + k \in 1 .. L - n
    <3>. HIDE DEF m, start
    <3>1. ASSUME NEW k \in 1 .. Size(m) PROVE start + k \in 1 .. L - n
      BY <2>1, <2>3, <2>a
    <3>. QED BY <3>1
  <2>5. \A k \in 1 .. Size(m) : u[start + k] = [msg |-> m, at |-> k]
    BY <2>2, <2>4, <1>5
  <2>6. start \in 0 .. (L - n) - Size(m)
    <3>1. L \in Nat /\ L - n \in Nat
      BY <1>2, <1>4
    <3>. HIDE DEF m, start
    <3>. QED BY <2>1, <2>2, <2>3, <3>1
  <2>. QED BY <2>2, <2>5, <2>6
<1>7. WellFramed(u)
  BY <1>5, <1>6 DEF WellFramed
<1>. QED
  BY <1>4, <1>5, <1>7 DEF u, L
-----------------------------------------------------------------------------
\* The functions that move bytes.

\* writeBuffer empties the buffer into the socket, if there is one.
LEMMA WriteBufferMoves ==
    ASSUME peerOpen \in BOOLEAN, NEW o \in Output
    PROVE  /\ WriteBuffer(o) \in Output
           /\ WriteBuffer(o).buffer = <<>>
           /\ WriteBuffer(o).wire = IF peerOpen THEN StreamOf(o) ELSE o.wire
           /\ (o.moveLast => o.buffer # <<>>) => WriteBuffer(o).moveLast = FALSE
<1>1. /\ o.buffer \in Seq(Byte) /\ o.wire \in Seq(Byte)
      /\ o.wire \o o.buffer \in Seq(Byte) /\ <<>> \in Seq(Byte)
  BY ConcatProperties, EmptyFramed DEF Output
<1>2. CASE o.buffer = <<>>
  <2>1. o.wire \o <<>> = o.wire
    BY <1>1, ConcatEmptySeq
  <2>2. WriteBuffer(o) = o
    BY <1>2 DEF WriteBuffer
  <2>3. o.moveLast \in BOOLEAN
    BY DEF Output
  <2>. QED BY <1>2, <2>1, <2>2, <2>3 DEF StreamOf
<1>3. CASE o.buffer # <<>> /\ peerOpen
  <2>1. WriteBuffer(o) = [o EXCEPT !.wire = o.wire \o o.buffer, !.buffer = <<>>,
                                   !.moveLast = FALSE]
    BY <1>3 DEF WriteBuffer, ReallyWriteBytes, Output
  <2>. QED BY <1>1, <1>3, <2>1 DEF StreamOf, Output
<1>4. CASE o.buffer # <<>> /\ ~peerOpen
  <2>1. WriteBuffer(o) = [o EXCEPT !.terminated = TRUE, !.buffer = <<>>,
                                   !.moveLast = FALSE]
    BY <1>4 DEF WriteBuffer, ReallyWriteBytes, Output
  <2>. QED BY <1>1, <1>4, <2>1 DEF Output
<1>. QED BY <1>2, <1>3, <1>4

\* writeBufferedBytes appends to the stream; bytes that fit stay in the buffer.
LEMMA WriteBufferedMoves ==
    ASSUME peerOpen \in BOOLEAN, NEW o \in Output, NEW bytes \in Seq(Byte),
           Len(o.buffer) <= BUFFER_SIZE
    PROVE  LET r == WriteBufferedBytes(o, bytes)
           IN  /\ r \in Output
               /\ Len(r.buffer) <= BUFFER_SIZE
               /\ peerOpen => StreamOf(r) = StreamOf(o) \o bytes
               /\ ~peerOpen => r.wire = o.wire
               /\ r.wire \in {o.wire, StreamOf(o), StreamOf(o) \o bytes}
               /\ r.buffer \in {<<>>, bytes, o.buffer \o bytes}
               /\ Len(bytes) <= BUFFER_SIZE => /\ r.buffer \in {bytes, o.buffer \o bytes}
                                               /\ r.moveLast = FALSE
               /\ (o.moveLast => o.buffer # <<>>) => r.moveLast = FALSE
<1>. DEFINE r == WriteBufferedBytes(o, bytes)
            room == IF Len(o.buffer) + Len(bytes) > BUFFER_SIZE
                    THEN WriteBuffer(o) ELSE o
<1>1. /\ o.buffer \in Seq(Byte) /\ o.wire \in Seq(Byte) /\ o.moveLast \in BOOLEAN
      /\ BUFFER_SIZE \in Nat /\ Len(bytes) \in Nat /\ Len(o.buffer) \in Nat
      /\ StreamOf(o) \in Seq(Byte)
  BY ConcatProperties, SizeAssumption DEF Output, StreamOf
<1>2. CASE Len(o.buffer) + Len(bytes) <= BUFFER_SIZE
  <2>0. /\ ~(Len(o.buffer) + Len(bytes) > BUFFER_SIZE)
        /\ ~(Len(bytes) > BUFFER_SIZE)
    BY <1>1, <1>2
  <2>1. r = [o EXCEPT !.buffer = o.buffer \o bytes, !.moveLast = FALSE]
    BY <2>0 DEF WriteBufferedBytes
  <2>2. /\ o.buffer \o bytes \in Seq(Byte)
        /\ Len(o.buffer \o bytes) = Len(o.buffer) + Len(bytes)
    BY <1>1, ConcatProperties
  <2>3. o.wire \o (o.buffer \o bytes) = (o.wire \o o.buffer) \o bytes
    <3>1. o.wire \in Seq(Byte) /\ o.buffer \in Seq(Byte) /\ bytes \in Seq(Byte)
      BY <1>1
    <3>. QED BY <3>1, BytesAssociative
  <2>4. r \in Output /\ r.buffer = o.buffer \o bytes /\ r.wire = o.wire /\ r.moveLast = FALSE
    BY <2>1, <2>2 DEF Output
  <2>. HIDE DEF r
  <2>. QED BY <1>2, <2>2, <2>3, <2>4 DEF StreamOf, r
<1>3. CASE Len(o.buffer) + Len(bytes) > BUFFER_SIZE
  <2>. DEFINE w == WriteBuffer(o)
  <2>1. /\ w \in Output /\ w.buffer = <<>>
        /\ w.wire = IF peerOpen THEN StreamOf(o) ELSE o.wire
        /\ (o.moveLast => o.buffer # <<>>) => w.moveLast = FALSE
    BY WriteBufferMoves
  <2>2. /\ w.wire \in Seq(Byte) /\ w.wire \o bytes \in Seq(Byte)
        /\ w.wire \o <<>> = w.wire /\ <<>> \o bytes = bytes
        /\ (w.wire \o bytes) \o <<>> = w.wire \o bytes
    BY <2>1, <1>1, ConcatProperties, ConcatEmptySeq
  <2>3. r = IF Len(bytes) > BUFFER_SIZE THEN ReallyWriteBytes(w, bytes)
            ELSE [w EXCEPT !.buffer = w.buffer \o bytes, !.moveLast = FALSE]
    BY <1>3 DEF WriteBufferedBytes
  <2>. HIDE DEF w, r
  <2>4. CASE Len(bytes) <= BUFFER_SIZE
    <3>1. r = [w EXCEPT !.buffer = bytes, !.moveLast = FALSE]
      BY <1>1, <2>1, <2>2, <2>3, <2>4
    <3>2. r \in Output /\ r.buffer = bytes /\ r.wire = w.wire /\ r.moveLast = FALSE
      BY <2>1, <3>1 DEF Output
    <3>. QED BY <1>1, <2>1, <2>2, <2>4, <3>2 DEF StreamOf, r
  <2>5. CASE Len(bytes) > BUFFER_SIZE
    <3>1. r = IF peerOpen THEN [w EXCEPT !.wire = w.wire \o bytes]
              ELSE [w EXCEPT !.terminated = TRUE]
      BY <2>3, <2>5 DEF ReallyWriteBytes
    <3>2. /\ r \in Output /\ r.buffer = <<>> /\ r.moveLast = w.moveLast
          /\ r.wire = IF peerOpen THEN w.wire \o bytes ELSE w.wire
      BY <2>1, <2>2, <3>1 DEF Output
    <3>3. Len(r.buffer) <= BUFFER_SIZE /\ ~(Len(bytes) <= BUFFER_SIZE)
      BY <1>1, <2>5, <3>2
    <3>. QED BY <1>1, <2>1, <2>2, <3>2, <3>3 DEF StreamOf, r
  <2>6. Len(bytes) <= BUFFER_SIZE \/ Len(bytes) > BUFFER_SIZE
    BY <1>1
  <2>. QED BY <2>4, <2>5, <2>6 DEF r
<1>4. \/ Len(o.buffer) + Len(bytes) <= BUFFER_SIZE
      \/ Len(o.buffer) + Len(bytes) > BUFFER_SIZE
  BY <1>1
<1>. HIDE DEF r
<1>. QED BY <1>2, <1>3, <1>4 DEF r

\* writeBytes leaves nothing in the buffer.
LEMMA WriteBytesMoves ==
    ASSUME peerOpen \in BOOLEAN, NEW o \in Output, NEW bytes \in Seq(Byte),
           Len(o.buffer) <= BUFFER_SIZE
    PROVE  LET r == WriteBytes(o, bytes)
           IN  /\ r \in Output
               /\ r.buffer = <<>>
               /\ peerOpen => r.wire = StreamOf(o) \o bytes
               /\ ~peerOpen => r.wire = o.wire
               /\ (o.moveLast => o.buffer # <<>>) => r.moveLast = FALSE
<1>. DEFINE r == WriteBytes(o, bytes)
            b == WriteBufferedBytes(o, bytes)
<1>1. /\ o.buffer \in Seq(Byte) /\ o.wire \in Seq(Byte) /\ o.moveLast \in BOOLEAN
      /\ o.wire \o bytes \in Seq(Byte) /\ o.wire \o <<>> = o.wire
  BY ConcatProperties, ConcatEmptySeq DEF Output
<1>2. CASE o.buffer # <<>>
  <2>1. r = WriteBuffer(b)
    BY <1>2 DEF WriteBytes
  <2>2. /\ b \in Output
        /\ peerOpen => StreamOf(b) = StreamOf(o) \o bytes
        /\ ~peerOpen => b.wire = o.wire
        /\ b.moveLast = FALSE
    BY <1>2, WriteBufferedMoves
  <2>. HIDE DEF b, r
  <2>3. /\ WriteBuffer(b) \in Output /\ WriteBuffer(b).buffer = <<>>
        /\ WriteBuffer(b).wire = IF peerOpen THEN StreamOf(b) ELSE b.wire
        /\ (b.moveLast => b.buffer # <<>>) => WriteBuffer(b).moveLast = FALSE
    BY <2>2, WriteBufferMoves
  <2>. QED BY <2>1, <2>2, <2>3 DEF r
<1>3. CASE o.buffer = <<>>
  <2>1. r = IF peerOpen THEN [o EXCEPT !.wire = o.wire \o bytes]
            ELSE [o EXCEPT !.terminated = TRUE]
    BY <1>3 DEF WriteBytes, ReallyWriteBytes
  <2>2. /\ r \in Output /\ r.buffer = <<>> /\ r.moveLast = o.moveLast
        /\ r.wire = IF peerOpen THEN o.wire \o bytes ELSE o.wire
    BY <1>1, <1>3, <2>1 DEF Output
  <2>3. StreamOf(o) = o.wire
    BY <1>1, <1>3 DEF StreamOf
  <2>. HIDE DEF r
  <2>. QED BY <1>1, <1>3, <2>2, <2>3 DEF r
<1>. QED BY <1>2, <1>3
-----------------------------------------------------------------------------
(* The same functions, on whole messages.                                  *)

\* writeBuffer keeps the write state well framed and leaves the buffer empty.
LEMMA WriteBufferOK ==
    ASSUME peerOpen \in BOOLEAN, NEW o, OutOK(o)
    PROVE  OutOK(WriteBuffer(o)) /\ WriteBuffer(o).buffer = <<>>
<1>. DEFINE r == WriteBuffer(o)
<1>1. /\ o \in Output /\ o.buffer \in Seq(Byte) /\ o.wire \in Seq(Byte)
      /\ WellFramed(o.wire) /\ WellFramed(o.buffer)
  BY DEF OutOK, Output
<1>2. /\ r \in Output /\ r.buffer = <<>>
      /\ r.wire = IF peerOpen THEN StreamOf(o) ELSE o.wire
  BY <1>1, WriteBufferMoves
<1>3. WellFramed(StreamOf(o))
  BY <1>1, ConcatFramed DEF StreamOf
<1>4. Len(<<>>) <= BUFFER_SIZE
  BY SizeAssumption
<1>. HIDE DEF r
<1>. QED BY <1>1, <1>2, <1>3, <1>4, EmptyFramed DEF OutOK, r

\* writeBufferedBytes of a whole message keeps the write state well framed,
\* and the message ends the stream.
LEMMA WriteBufferedOK ==
    ASSUME peerOpen \in BOOLEAN, NEW o, OutOK(o), NEW m \in Message
    PROVE  OutOK(WriteBufferedBytes(o, Bytes(m)))
<1>. DEFINE r == WriteBufferedBytes(o, Bytes(m))
<1>1. /\ o \in Output /\ o.buffer \in Seq(Byte) /\ o.wire \in Seq(Byte)
      /\ WellFramed(o.wire) /\ WellFramed(o.buffer) /\ Len(o.buffer) <= BUFFER_SIZE
  BY DEF OutOK, Output
<1>2. Bytes(m) \in Seq(Byte) /\ WellFramed(Bytes(m))
  BY BytesFramed
<1>3. /\ r \in Output /\ Len(r.buffer) <= BUFFER_SIZE
      /\ r.wire \in {o.wire, StreamOf(o), StreamOf(o) \o Bytes(m)}
      /\ r.buffer \in {<<>>, Bytes(m), o.buffer \o Bytes(m)}
  BY <1>1, <1>2, WriteBufferedMoves
<1>4. StreamOf(o) \in Seq(Byte) /\ WellFramed(StreamOf(o))
  BY <1>1, ConcatFramed DEF StreamOf
<1>5. WellFramed(StreamOf(o) \o Bytes(m)) /\ WellFramed(o.buffer \o Bytes(m))
  BY <1>1, <1>2, <1>4, ConcatFramed
<1>. HIDE DEF r
<1>6. WellFramed(r.wire) /\ WellFramed(r.buffer)
  BY <1>1, <1>2, <1>3, <1>4, <1>5, EmptyFramed
<1>. QED BY <1>3, <1>6 DEF OutOK, r

\* Whatever was buffered and then the bytes of whole messages have gone out.
LEMMA FlushedOK ==
    ASSUME NEW o, OutOK(o), NEW m \in Message, NEW r \in Output, r.buffer = <<>>,
           r.wire \in {o.wire, StreamOf(o) \o Bytes(m)}
    PROVE  OutOK(r)
<1>1. /\ o.buffer \in Seq(Byte) /\ o.wire \in Seq(Byte)
      /\ WellFramed(o.wire) /\ WellFramed(o.buffer)
  BY DEF OutOK, Output
<1>2. Bytes(m) \in Seq(Byte) /\ WellFramed(Bytes(m))
  BY BytesFramed
<1>3. StreamOf(o) \in Seq(Byte) /\ WellFramed(StreamOf(o))
  BY <1>1, ConcatFramed DEF StreamOf
<1>4. WellFramed(StreamOf(o) \o Bytes(m))
  BY <1>2, <1>3, ConcatFramed
<1>5. Len(<<>>) <= BUFFER_SIZE
  BY SizeAssumption
<1>. QED BY <1>1, <1>4, <1>5, EmptyFramed DEF OutOK

\* writeBytes of a whole message keeps the write state well framed and leaves
\* the buffer empty.
LEMMA WriteBytesOK ==
    ASSUME peerOpen \in BOOLEAN, NEW o, OutOK(o), NEW m \in Message
    PROVE  /\ OutOK(WriteBytes(o, Bytes(m)))
           /\ WriteBytes(o, Bytes(m)).buffer = <<>>
<1>. DEFINE r == WriteBytes(o, Bytes(m))
<1>1. o \in Output /\ Len(o.buffer) <= BUFFER_SIZE /\ Bytes(m) \in Seq(Byte)
  BY BytesFramed DEF OutOK
<1>2. /\ r \in Output /\ r.buffer = <<>>
      /\ peerOpen => r.wire = StreamOf(o) \o Bytes(m)
      /\ ~peerOpen => r.wire = o.wire
  BY <1>1, WriteBytesMoves
<1>. HIDE DEF r
<1>3. r.wire \in {o.wire, StreamOf(o) \o Bytes(m)}
  BY <1>2
<1>. QED BY <1>2, <1>3, FlushedOK DEF r

\* The encodings message: two buffered writes and a flush.
LEMMA EncodingsOK ==
    ASSUME peerOpen \in BOOLEAN, NEW o, OutOK(o), NEW m \in Message, Size(m) > 1,
           o.moveLast => o.buffer # <<>>
    PROVE  LET r == WriteBuffer(WriteBufferedBytes(
                        WriteBufferedBytes(o, Slice(m, 1, 1)), Slice(m, 2, Size(m))))
           IN  OutOK(r) /\ r.buffer = <<>> /\ r.moveLast = FALSE
<1>. DEFINE h == Slice(m, 1, 1)
            t == Slice(m, 2, Size(m))
            a == WriteBufferedBytes(o, h)
            b == WriteBufferedBytes(a, t)
            r == WriteBuffer(b)
<1>1. h \in Seq(Byte) /\ t \in Seq(Byte) /\ h \o t = Bytes(m)
  BY SlicesJoin
<1>2. o \in Output /\ Len(o.buffer) <= BUFFER_SIZE /\ StreamOf(o) \in Seq(Byte)
  BY ConcatProperties DEF OutOK, StreamOf, Output
<1>. HIDE DEF h, t
<1>3. /\ a \in Output /\ Len(a.buffer) <= BUFFER_SIZE /\ a.moveLast = FALSE
      /\ peerOpen => StreamOf(a) = StreamOf(o) \o h
      /\ ~peerOpen => a.wire = o.wire
  BY <1>1, <1>2, WriteBufferedMoves
<1>. HIDE DEF a
<1>4. /\ b \in Output /\ b.moveLast = FALSE
      /\ peerOpen => StreamOf(b) = StreamOf(a) \o t
      /\ ~peerOpen => b.wire = a.wire
  BY <1>1, <1>3, WriteBufferedMoves
<1>. HIDE DEF b
<1>5. /\ r \in Output /\ r.buffer = <<>> /\ r.moveLast = FALSE
      /\ r.wire = IF peerOpen THEN StreamOf(b) ELSE b.wire
  BY <1>4, WriteBufferMoves
<1>6. (StreamOf(o) \o h) \o t = StreamOf(o) \o Bytes(m)
  <2>1. (StreamOf(o) \o h) \o t = StreamOf(o) \o (h \o t)
    <3>. DEFINE S == StreamOf(o)
    <3>1. S \in Seq(Byte) /\ h \in Seq(Byte) /\ t \in Seq(Byte)
      BY <1>1, <1>2
    <3>. HIDE DEF S
    <3>2. (S \o h) \o t = S \o (h \o t)
      BY <3>1, BytesAssociative
    <3>. QED BY <3>2 DEF S
  <2>. QED BY <1>1, <2>1
<1>. HIDE DEF r
<1>7. r.wire \in {o.wire, StreamOf(o) \o Bytes(m)}
  BY <1>3, <1>4, <1>5, <1>6
<1>8. OutOK(r)
  BY <1>5, <1>7, FlushedOK
<1>. QED BY <1>5, <1>8 DEF r, b, a, h, t

\* The desktop size message: two unbuffered writes.
LEMMA DesktopSizeOK ==
    ASSUME peerOpen \in BOOLEAN, NEW o, OutOK(o), NEW m \in Message, Size(m) > 1,
           o.moveLast => o.buffer # <<>>
    PROVE  LET r == WriteBytes(WriteBytes(o, Slice(m, 1, 1)), Slice(m, 2, Size(m)))
           IN  OutOK(r) /\ r.buffer = <<>> /\ r.moveLast = FALSE
<1>. DEFINE h == Slice(m, 1, 1)
            t == Slice(m, 2, Size(m))
            a == WriteBytes(o, h)
            r == WriteBytes(a, t)
<1>1. h \in Seq(Byte) /\ t \in Seq(Byte) /\ h \o t = Bytes(m)
  BY SlicesJoin
<1>2. o \in Output /\ Len(o.buffer) <= BUFFER_SIZE /\ StreamOf(o) \in Seq(Byte)
  BY ConcatProperties DEF OutOK, StreamOf, Output
<1>. HIDE DEF h, t
<1>3. /\ a \in Output /\ a.buffer = <<>> /\ a.moveLast = FALSE
      /\ peerOpen => a.wire = StreamOf(o) \o h
      /\ ~peerOpen => a.wire = o.wire
  BY <1>1, <1>2, WriteBytesMoves
<1>. HIDE DEF a
<1>4. Len(a.buffer) <= BUFFER_SIZE /\ StreamOf(a) = a.wire
  BY <1>3, SizeAssumption, ConcatEmptySeq DEF StreamOf, Output
<1>5. /\ r \in Output /\ r.buffer = <<>> /\ r.moveLast = FALSE
      /\ peerOpen => r.wire = StreamOf(a) \o t
      /\ ~peerOpen => r.wire = a.wire
  BY <1>1, <1>3, <1>4, WriteBytesMoves
<1>6. (StreamOf(o) \o h) \o t = StreamOf(o) \o Bytes(m)
  <2>1. (StreamOf(o) \o h) \o t = StreamOf(o) \o (h \o t)
    <3>. DEFINE S == StreamOf(o)
    <3>1. S \in Seq(Byte) /\ h \in Seq(Byte) /\ t \in Seq(Byte)
      BY <1>1, <1>2
    <3>. HIDE DEF S
    <3>2. (S \o h) \o t = S \o (h \o t)
      BY <3>1, BytesAssociative
    <3>. QED BY <3>2 DEF S
  <2>. QED BY <1>1, <2>1
<1>. HIDE DEF r
<1>7. r.wire \in {o.wire, StreamOf(o) \o Bytes(m)}
  BY <1>3, <1>4, <1>5, <1>6
<1>8. OutOK(r)
  BY <1>5, <1>7, FlushedOK
<1>. QED BY <1>5, <1>8 DEF r, a, h, t
-----------------------------------------------------------------------------
(***************************************************************************)
(* The inductive invariant.  Framed alone is not inductive: mouseAt drops  *)
(* MsgSize["move"] bytes, and only MoveLastIsMove says that these are the  *)
(* bytes of one message; that invariant in turn needs NothingWaits, which  *)
(* bounds what mouseAt can find in the buffer.                             *)
(***************************************************************************)
IInv == TypeOK /\ Framed /\ MoveLastIsMove /\ NothingWaits

\* Every message the code builds is a Message.
LEMMA MessagesBuilt ==
    /\ \A k \in Kinds : Plain(k) \in Message
    /\ \A k \in KeyEvents : Key(k) \in Message
    /\ \A k \in {"move", "click"}, p \in Positions, b \in Masks :
          Pointer(k, p, b) \in Message
BY DEF Plain, Key, Pointer, Message, Kinds, Args

\* The inductive invariant makes the write state well framed.
LEMMA InvOut ==
    ASSUME IInv
    PROVE  /\ OutOK(out)
           /\ out.moveLast => out.buffer # <<>>
           /\ peerOpen \in BOOLEAN
BY DEF IInv, TypeOK, Framed, OutOK, MoveLastIsMove

\* A new connection satisfies the inductive invariant.
LEMMA InitInv == Init => IInv
<1>. SUFFICES ASSUME Init PROVE IInv
  OBVIOUS
<1>1. /\ out.buffer = <<>> /\ out.wire = <<>> /\ out.moveLast = FALSE
      /\ out \in Output
  BY EmptyFramed DEF Init, Output
<1>2. Len(<<>>) <= BUFFER_SIZE
  BY SizeAssumption
<1>3. TypeOK
  BY <1>1, <1>2, SizeAssumption DEF Init, TypeOK
<1>. QED
  BY <1>1, <1>3, EmptyFramed DEF Init, IInv, Framed, MoveLastIsMove, NothingWaits

\* A step that leaves the buffer empty keeps the invariant.
LEMMA EmptyBufferInv ==
    ASSUME OutOK(out'), out'.buffer = <<>>, out'.moveLast = FALSE,
           isReceivingUpdate' \in BOOLEAN, lastMouse' \in Positions \cup {NoPos},
           buttons' \in Masks, handler' \in {"idle", "input"}, peerOpen' \in BOOLEAN
    PROVE  IInv'
BY DEF OutOK, IInv, TypeOK, Framed, MoveLastIsMove, NothingWaits

\* mouseAt keeps the invariant: what it takes back from the buffer is the
\* movement at its end, and the new one is buffered in its place or sent.
LEMMA MouseAtInv ==
    ASSUME IInv, NEW p \in Positions, MouseAt(p)
    PROVE  IInv'
<1>. DEFINE m == Pointer("move", p, buttons)
            rest == DropLastMove(out)
<1>1. /\ OutOK(out) /\ out \in Output /\ out.moveLast \in BOOLEAN
      /\ out.moveLast => out.buffer # <<>>
      /\ peerOpen \in BOOLEAN /\ buttons \in Masks /\ isReceivingUpdate \in BOOLEAN
      /\ out.buffer \in Seq(Byte) /\ WellFramed(out.buffer)
  BY InvOut DEF IInv, TypeOK, OutOK, Output
<1>2. /\ m \in Message /\ Size(m) = MsgSize["move"] /\ Size(m) \in Nat \ {0}
      /\ m.kind = "move" /\ m.arg = buttons /\ m.pos = p
      /\ Size(m) <= BUFFER_SIZE
  BY <1>1, MessagesBuilt, BytesFramed, SizeAssumption DEF Pointer, Size
<1>3. OutOK(rest) /\ rest.buffer = <<>>
  <2>1. CASE out.moveLast
    <3>1. out.buffer # <<>> /\ Size(out.buffer[Len(out.buffer)].msg) = MsgSize["move"]
      BY <2>1 DEF IInv, MoveLastIsMove, Size
    <3>2. Len(out.buffer) = MsgSize["move"]
      BY <3>1 DEF IInv, NothingWaits, MouseAt
    <3>3. SubSeq(out.buffer, 1, Len(out.buffer) - MsgSize["move"]) = <<>>
      BY <3>2, <1>2, SubSeqEmpty
    <3>4. rest = [out EXCEPT !.buffer = <<>>]
      BY <2>1, <3>3 DEF DropLastMove
    <3>5. Len(<<>>) <= BUFFER_SIZE
      BY SizeAssumption
    <3>. QED BY <1>1, <3>4, <3>5, EmptyFramed DEF OutOK, Output
  <2>2. CASE ~out.moveLast
    <3>1. rest = out
      BY <2>2 DEF DropLastMove
    <3>2. out.buffer = <<>>
      BY <2>2 DEF IInv, NothingWaits, MouseAt
    <3>. QED BY <1>1, <3>1, <3>2
  <2>. QED BY <2>1, <2>2
<1>. HIDE DEF rest, m
<1>4. CASE isReceivingUpdate
  <2>. DEFINE w == WriteBufferedBytes(rest, Bytes(m))
  <2>1. OutOK(w)
    BY <1>1, <1>2, <1>3, WriteBufferedOK
  <2>2. Bytes(m) \in Seq(Byte) /\ Len(Bytes(m)) = Size(m) /\ Len(Bytes(m)) <= BUFFER_SIZE
    BY <1>2, BytesFramed
  <2>3. w.buffer = Bytes(m)
    <3>1. w.buffer \in {Bytes(m), rest.buffer \o Bytes(m)}
      BY <1>1, <1>3, <2>2, WriteBufferedMoves DEF OutOK
    <3>2. <<>> \o Bytes(m) = Bytes(m)
      BY <2>2, ConcatEmptySeq
    <3>. QED BY <1>3, <3>1, <3>2
  <2>4. out' = [w EXCEPT !.moveLast = TRUE]
    BY <1>4 DEF MouseAt, rest, m
  <2>. HIDE DEF w
  <2>5. /\ OutOK(out') /\ out'.buffer = Bytes(m) /\ out'.moveLast = TRUE
    BY <2>1, <2>3, <2>4 DEF OutOK, Output
  <2>6. /\ out'.buffer # <<>> /\ Len(out'.buffer) = MsgSize["move"]
        /\ out'.buffer[Len(out'.buffer)].msg = m
    <3>1. Bytes(m)[Size(m)] = [msg |-> m, at |-> Size(m)] /\ Size(m) \in 1 .. Size(m)
      BY <1>2, BytesFramed
    <3>2. Bytes(m) # <<>>
      BY <1>2, <2>2
    <3>. QED BY <1>2, <2>2, <2>5, <3>1, <3>2
  <2>7. /\ isReceivingUpdate' = isReceivingUpdate /\ buttons' = buttons
        /\ handler' = "idle" /\ peerOpen' = peerOpen /\ lastMouse' = p
    BY DEF MouseAt
  <2>. QED
    BY <1>1, <1>2, <1>4, <2>5, <2>6, <2>7
    DEF OutOK, IInv, TypeOK, Framed, MoveLastIsMove, NothingWaits
<1>5. CASE ~isReceivingUpdate
  <2>. DEFINE w == WriteBytes(rest, Bytes(m))
  <2>1. OutOK(w) /\ w.buffer = <<>>
    BY <1>1, <1>2, <1>3, WriteBytesOK
  <2>2. out' = [w EXCEPT !.moveLast = FALSE]
    BY <1>5 DEF MouseAt, rest, m
  <2>. HIDE DEF w
  <2>3. OutOK(out') /\ out'.buffer = <<>> /\ out'.moveLast = FALSE
    BY <2>1, <2>2 DEF OutOK, Output
  <2>4. /\ isReceivingUpdate' \in BOOLEAN /\ buttons' \in Masks
        /\ handler' \in {"idle", "input"} /\ peerOpen' \in BOOLEAN
        /\ lastMouse' \in Positions \cup {NoPos}
    BY <1>1 DEF MouseAt
  <2>. QED BY <2>3, <2>4, EmptyBufferInv
<1>. QED BY <1>4, <1>5

\* A message submitted by an input handler stays at the end of the stream.
LEMMA BufferedInv ==
    ASSUME IInv, NEW o, OutOK(o), o.moveLast => o.buffer # <<>>, NEW m \in Message,
           out' = WriteBufferedBytes(o, Bytes(m)), handler' = "input",
           isReceivingUpdate' \in BOOLEAN, lastMouse' \in Positions \cup {NoPos},
           buttons' \in Masks, peerOpen' \in BOOLEAN
    PROVE  IInv'
<1>1. peerOpen \in BOOLEAN
  BY InvOut
<1>2. OutOK(out')
  BY <1>1, WriteBufferedOK
<1>3. out'.moveLast = FALSE
  BY <1>1, BytesFramed, WriteBufferedMoves DEF OutOK
<1>. QED
  BY <1>2, <1>3 DEF OutOK, IInv, TypeOK, Framed, MoveLastIsMove, NothingWaits

\* mouseClickedAt keeps the invariant, with and without the pasteboard.
LEMMA MouseClickedAtInv ==
    ASSUME IInv, NEW p \in Positions, NEW mask \in Masks,
           NEW paste \in {"none", "cutText", "bigCutText"},
           MouseClickedAt(p, mask, paste)
    PROVE  IInv'
<1>. DEFINE m == Pointer("click", p, mask)
            before == IF paste = "none" THEN out ELSE WriteBytes(out, Bytes(Plain(paste)))
<1>1. /\ OutOK(out)
      /\ out.moveLast => out.buffer # <<>>
      /\ peerOpen \in BOOLEAN
      /\ isReceivingUpdate \in BOOLEAN
  BY InvOut DEF IInv, TypeOK
<1>2. m \in Message /\ (paste # "none" => Plain(paste) \in Message)
  BY MessagesBuilt DEF Kinds
<1>3. OutOK(before) /\ (before.moveLast => before.buffer # <<>>)
  <2>1. CASE paste = "none" BY <1>1, InvOut, <2>1
  <2>2. CASE paste # "none"
    <3>. DEFINE w == WriteBytes(out, Bytes(Plain(paste)))
    <3>1. Plain(paste) \in Message /\ Bytes(Plain(paste)) \in Seq(Byte)
      BY <1>2, <2>2, BytesFramed
    <3>2. OutOK(w)
      BY <1>1, <3>1, WriteBytesOK
    <3>3. w.moveLast = FALSE
      BY <3>1, InvOut, WriteBytesMoves DEF OutOK
    <3>. HIDE DEF w
    <3>. QED BY <2>2, <3>2, <3>3 DEF w
  <2>. QED BY <2>1, <2>2
<1>4. out' = WriteBufferedBytes(before, Bytes(m))
  BY DEF MouseClickedAt
<1>5. /\ handler' = "input" /\ isReceivingUpdate' \in BOOLEAN
      /\ lastMouse' \in Positions \cup {NoPos} /\ buttons' \in Masks
      /\ peerOpen' \in BOOLEAN
  BY <1>1 DEF MouseClickedAt
<1>. HIDE DEF m, before
<1>. QED BY <1>2, <1>3, <1>4, <1>5, BufferedInv

\* A key event, buffered by an input handler, keeps the invariant.
LEMMA SendKeyInv ==
    ASSUME IInv, NEW k \in KeyEvents, SendKey(k)
    PROVE  IInv'
<1>1. Key(k) \in Message
  BY MessagesBuilt
<1>2. /\ out' = WriteBufferedBytes(out, Bytes(Key(k))) /\ handler' = "input"
      /\ isReceivingUpdate' \in BOOLEAN /\ lastMouse' \in Positions \cup {NoPos}
      /\ buttons' \in Masks /\ peerOpen' \in BOOLEAN
  BY DEF SendKey, IInv, TypeOK
<1>. QED BY <1>1, <1>2, InvOut, BufferedInv

\* The handlers that end with an unbuffered write or a flush.
LEMMA FlushingInv ==
    ASSUME IInv,
           \/ EndInput
           \/ \E k \in {"request", "cutText", "bigCutText"} : SendNow(k)
           \/ EncodingsChanged
           \/ WriteSetDesktopSize
           \/ FrameBufferUpdateComplete
           \/ FrameBufferUpdateCompleteWithResize
    PROVE  IInv'
<1>1. /\ OutOK(out) /\ out \in Output /\ Len(out.buffer) <= BUFFER_SIZE
      /\ peerOpen \in BOOLEAN /\ (out.moveLast => out.buffer # <<>>)
  BY InvOut DEF OutOK
<1>2. /\ isReceivingUpdate' \in BOOLEAN /\ lastMouse' \in Positions \cup {NoPos}
      /\ buttons' \in Masks /\ handler' \in {"idle", "input"} /\ peerOpen' \in BOOLEAN
  BY DEF IInv, TypeOK, EndInput, SendNow, EncodingsChanged, WriteSetDesktopSize,
         FrameBufferUpdateComplete, FrameBufferUpdateCompleteWithResize
<1>. DEFINE Empty(r) == OutOK(r) /\ r.buffer = <<>> /\ r.moveLast = FALSE
<1>3. Empty(WriteBuffer(out))
  BY <1>1, WriteBufferOK, WriteBufferMoves
<1>4. \A k \in Kinds : Empty(WriteBytes(out, Bytes(Plain(k))))
  BY <1>1, MessagesBuilt, BytesFramed, WriteBytesOK, WriteBytesMoves
<1>5. "request" \in Kinds /\ "cutText" \in Kinds /\ "bigCutText" \in Kinds
  BY DEF Kinds
<1>6. \A k \in {"encodings", "desktopSize"} : Plain(k) \in Message /\ Size(Plain(k)) > 1
  BY MessagesBuilt, SizeAssumption DEF Kinds, Plain, Size
<1>7. Empty(out')
  <2>1. CASE EndInput
    BY <2>1, <1>3 DEF EndInput
  <2>2. CASE \E k \in {"request", "cutText", "bigCutText"} : SendNow(k)
    BY <2>2, <1>4, <1>5 DEF SendNow
  <2>3. CASE EncodingsChanged
    BY <2>3, <1>1, <1>6, EncodingsOK DEF EncodingsChanged
  <2>4. CASE WriteSetDesktopSize
    BY <2>4, <1>1, <1>6, DesktopSizeOK DEF WriteSetDesktopSize
  <2>5. CASE FrameBufferUpdateComplete
    <3>1. PICK requested \in BOOLEAN :
             out' = WriteBuffer(IF requested THEN WriteBytes(out, Bytes(Plain("request")))
                                ELSE out)
      BY <2>5 DEF FrameBufferUpdateComplete
    <3>2. CASE requested
      <4>. DEFINE w == WriteBytes(out, Bytes(Plain("request")))
      <4>1. Empty(w)
        BY <1>4, <1>5
      <4>2. WriteBuffer(w) = w
        BY <4>1 DEF WriteBuffer
      <4>. HIDE DEF w
      <4>3. out' = WriteBuffer(w)
        BY <3>1, <3>2 DEF w
      <4>. QED BY <4>1, <4>2, <4>3
    <3>3. CASE ~requested
      BY <3>1, <3>3, <1>3
    <3>. QED BY <3>2, <3>3
  <2>6. CASE FrameBufferUpdateCompleteWithResize
    BY <2>6, <1>4, <1>5 DEF FrameBufferUpdateCompleteWithResize
  <2>. QED BY <2>1, <2>2, <2>3, <2>4, <2>5, <2>6
<1>. QED BY <1>2, <1>7, EmptyBufferInv

\* Every step of the main thread, or of the peer, keeps the invariant.
LEMMA NextInv == IInv /\ [Next]_vars => IInv'
<1>. SUFFICES ASSUME IInv, [Next]_vars PROVE IInv'
  OBVIOUS
<1>1. CASE \E p \in Positions : MouseAt(p)
  BY <1>1, MouseAtInv
<1>2. CASE \E p \in Positions, mask \in Masks, paste \in {"none", "cutText", "bigCutText"} :
              MouseClickedAt(p, mask, paste)
  BY <1>2, MouseClickedAtInv
<1>3. CASE \E k \in KeyEvents : SendKey(k)
  BY <1>3, SendKeyInv
<1>4. CASE \/ EndInput
           \/ \E k \in {"request", "cutText", "bigCutText"} : SendNow(k)
           \/ EncodingsChanged
           \/ WriteSetDesktopSize
           \/ FrameBufferUpdateComplete
           \/ FrameBufferUpdateCompleteWithResize
  BY <1>4, FlushingInv
<1>5. CASE BeginInput
  BY <1>5 DEF BeginInput, IInv, TypeOK, Framed, MoveLastIsMove, NothingWaits
<1>6. CASE FrameBufferUpdateBeginning
  BY <1>6 DEF FrameBufferUpdateBeginning, IInv, TypeOK, Framed, MoveLastIsMove, NothingWaits
<1>7. CASE PeerCloses
  BY <1>7 DEF PeerCloses, IInv, TypeOK, Framed, MoveLastIsMove, NothingWaits
<1>8. CASE UNCHANGED vars
  BY <1>8 DEF vars, IInv, TypeOK, Framed, MoveLastIsMove, NothingWaits
<1>. QED
  BY <1>1, <1>2, <1>3, <1>4, <1>5, <1>6, <1>7, <1>8 DEF Next

\* The inductive invariant holds in every reachable state.
THEOREM Invariance == Spec => []IInv
BY InitInv, NextInv, PTL DEF Spec

\* The write buffer never exceeds BUFFER_SIZE and every variable keeps its type.
THEOREM TypeCorrect == Spec => []TypeOK
<1>1. IInv => TypeOK BY DEF IInv
<1>. QED BY <1>1, Invariance, PTL

\* The server never meets a torn or spliced message.
THEOREM FramedAlways == Spec => []Framed
<1>1. IInv => Framed BY DEF IInv
<1>. QED BY <1>1, Invariance, PTL

\* Coalescing only ever removes a mouse movement made with the same buttons.
THEOREM OnlyMovesAreDropped == Spec => []MoveLastIsMove
<1>1. IInv => MoveLastIsMove BY DEF IInv
<1>. QED BY <1>1, Invariance, PTL

\* Between handlers at most one mouse movement is waiting, during an update.
THEOREM NothingWaitsAlways == Spec => []NothingWaits
<1>1. IInv => NothingWaits BY DEF IInv
<1>. QED BY <1>1, Invariance, PTL
-----------------------------------------------------------------------------
(***************************************************************************)
(* The pointer the server has been told of.  PointerKnown is a fact about  *)
(* the stream, and only mouseAt ever removes something from the stream;    *)
(* the invariant above says that it is a movement, which the new one, put  *)
(* after what remains, makes up for.  So PointerKnown is proved on top of  *)
(* IInv, from what each function that moves bytes does to the stream as    *)
(* long as the connection has not been terminated.                         *)
(***************************************************************************)

\* The last pointer event in s, if there is one, has position p and buttons b.
LastPointer(s, p, b) ==
    LET pointers == {i \in 1 .. Len(s) : IsPointer(s[i])}
    IN  IF pointers = {}
        THEN p = NoPos /\ b = NoButtons
        ELSE \E i \in pointers :
                /\ \A j \in pointers : j <= i
                /\ s[i].msg.pos = p
                /\ s[i].msg.arg = b

\* Unless the connection has ended, r holds what o does and then bytes.
Appends(r, o, bytes) ==
    ~r.terminated => ~o.terminated /\ StreamOf(r) = StreamOf(o) \o bytes

\* Bytes of other messages do not change the last pointer event.
LEMMA OthersKeepPointer ==
    ASSUME NEW s \in Seq(Byte), NEW t \in Seq(Byte), NEW p, NEW b,
           LastPointer(s, p, b), \A i \in 1 .. Len(t) : ~IsPointer(t[i])
    PROVE  LastPointer(s \o t, p, b)
<1>. DEFINE u == s \o t
            P == {i \in 1 .. Len(s) : IsPointer(s[i])}
            Q == {i \in 1 .. Len(u) : IsPointer(u[i])}
<1>1. /\ u \in Seq(Byte) /\ Len(u) = Len(s) + Len(t)
      /\ Len(s) \in Nat /\ Len(t) \in Nat
      /\ \A i \in 1 .. Len(s) : u[i] = s[i]
      /\ \A i \in 1 .. Len(t) : u[Len(s) + i] = t[i]
  BY ConcatProperties
<1>. HIDE DEF u
<1>2. ASSUME NEW i \in 1 .. Len(u), i > Len(s)
      PROVE  ~IsPointer(u[i])
  <2>1. i - Len(s) \in 1 .. Len(t) /\ i = Len(s) + (i - Len(s))
    BY <1>1, <1>2
  <2>2. u[i] = t[i - Len(s)]
    BY <1>1, <2>1
  <2>. QED BY <2>1, <2>2
<1>3. \A i : i \in P <=> i \in Q
  <2>1. ASSUME NEW i \in P PROVE i \in Q
    BY <1>1
  <2>2. ASSUME NEW i \in Q PROVE i \in P
    <3>1. i \in 1 .. Len(u) /\ IsPointer(u[i])
      OBVIOUS
    <3>2. i \in 1 .. Len(s)
      BY <1>1, <1>2, <3>1
    <3>. QED BY <1>1, <3>1, <3>2
  <2>. QED BY <2>1, <2>2
<1>4. P = Q /\ \A i \in P : u[i] = s[i]
  BY <1>1, <1>3
<1>5. IF P = {} THEN p = NoPos /\ b = NoButtons
      ELSE \E i \in P : (\A j \in P : j <= i) /\ s[i].msg.pos = p /\ s[i].msg.arg = b
  BY DEF LastPointer
<1>. HIDE DEF P, Q
<1>6. IF Q = {} THEN p = NoPos /\ b = NoButtons
      ELSE \E i \in Q : (\A j \in Q : j <= i) /\ u[i].msg.pos = p /\ u[i].msg.arg = b
  BY <1>4, <1>5
<1>. QED BY <1>6 DEF LastPointer, u, Q

\* A pointer event put at the end is the last one.
LEMMA NewPointerIsLast ==
    ASSUME NEW s \in Seq(Byte), NEW m \in Message, m.kind \in {"move", "click"}
    PROVE  LastPointer(s \o Bytes(m), m.pos, m.arg)
<1>. DEFINE t == Bytes(m)
            u == s \o t
            Q == {i \in 1 .. Len(u) : IsPointer(u[i])}
            n == Size(m)
<1>1. /\ t \in Seq(Byte) /\ Len(t) = n /\ n \in Nat \ {0}
      /\ t[n] = [msg |-> m, at |-> n]
  BY BytesFramed
<1>. HIDE DEF t, n
<1>2. /\ Len(u) = Len(s) + n /\ Len(s) \in Nat
      /\ u[Len(s) + n] = t[n]
  <2>1. /\ Len(s \o t) = Len(s) + Len(t)
        /\ \A i \in 1 .. Len(t) : (s \o t)[Len(s) + i] = t[i]
    <3>1. s \in Seq(Byte) /\ t \in Seq(Byte)
      BY <1>1
    <3>. QED BY <3>1, ConcatProperties
  <2>2. n \in 1 .. Len(t) /\ Len(s) \in Nat
    BY <1>1
  <2>. QED BY <1>1, <2>1, <2>2
<1>. HIDE DEF u
<1>3. u[Len(s) + n].msg = m
  BY <1>1, <1>2
<1>4. Len(s) + n \in Q /\ \A j \in Q : j <= Len(s) + n
  BY <1>1, <1>2, <1>3 DEF IsPointer
<1>5. \E i \in Q : (\A j \in Q : j <= i) /\ u[i].msg.pos = m.pos /\ u[i].msg.arg = m.arg
  BY <1>3, <1>4
<1>6. Q # {}
  BY <1>4
<1>. QED BY <1>5, <1>6 DEF LastPointer, u, t

\* The messages that carry no pointer position.
LEMMA OthersAreNoPointers ==
    ASSUME NEW m \in Message, m.kind \notin {"move", "click"}
    PROVE  \A i \in 1 .. Len(Bytes(m)) : ~IsPointer(Bytes(m)[i])
<1>1. /\ Len(Bytes(m)) = Size(m)
      /\ \A i \in 1 .. Size(m) : Bytes(m)[i] = [msg |-> m, at |-> i]
  BY BytesFramed
<1>2. \A i \in 1 .. Size(m) : Bytes(m)[i].msg = m
  BY <1>1
<1>. QED BY <1>1, <1>2 DEF IsPointer

\* Putting bytes in the stream in two goes is putting them there in one.
LEMMA AppendsTwice ==
    ASSUME NEW o \in Output, NEW a, NEW r, NEW h \in Seq(Byte), NEW t \in Seq(Byte),
           Appends(a, o, h), Appends(r, a, t)
    PROVE  Appends(r, o, h \o t)
<1>. DEFINE S == StreamOf(o)
<1>1. S \in Seq(Byte)
  BY ConcatProperties DEF StreamOf, Output
<1>. HIDE DEF S
<1>2. (S \o h) \o t = S \o (h \o t)
  BY <1>1, BytesAssociative
<1>. QED BY <1>2 DEF Appends, S
-----------------------------------------------------------------------------
\* The functions that move bytes, on the stream.

\* Until the connection ends, writeBuffer changes nothing in the stream.
LEMMA WriteBufferAppends ==
    ASSUME peerOpen \in BOOLEAN, NEW o \in Output
    PROVE  Appends(WriteBuffer(o), o, <<>>)
<1>. DEFINE r == WriteBuffer(o)
<1>1. /\ o.buffer \in Seq(Byte) /\ o.wire \in Seq(Byte) /\ StreamOf(o) \in Seq(Byte)
      /\ StreamOf(o) \o <<>> = StreamOf(o)
  BY ConcatProperties, ConcatEmptySeq DEF Output, StreamOf
<1>2. CASE o.buffer = <<>>
  <2>1. r = o
    BY <1>2 DEF WriteBuffer
  <2>. QED BY <1>1, <2>1 DEF Appends
<1>3. CASE o.buffer # <<>> /\ peerOpen
  <2>1. r = [o EXCEPT !.wire = o.wire \o o.buffer, !.buffer = <<>>, !.moveLast = FALSE]
    BY <1>3 DEF WriteBuffer, ReallyWriteBytes, Output
  <2>2. r.wire = StreamOf(o) /\ r.buffer = <<>> /\ r.terminated = o.terminated
    BY <2>1 DEF StreamOf, Output
  <2>. HIDE DEF r
  <2>. QED BY <1>1, <2>2 DEF Appends, StreamOf, r
<1>4. CASE o.buffer # <<>> /\ ~peerOpen
  <2>1. r = [o EXCEPT !.terminated = TRUE, !.buffer = <<>>, !.moveLast = FALSE]
    BY <1>4 DEF WriteBuffer, ReallyWriteBytes, Output
  <2>2. r.terminated
    BY <2>1 DEF Output
  <2>. QED BY <2>2 DEF Appends
<1>. QED BY <1>2, <1>3, <1>4

\* reallyWriteBytes sends the bytes or ends the connection.
LEMMA ReallyWriteAppends ==
    ASSUME peerOpen \in BOOLEAN, NEW o \in Output, NEW bytes \in Seq(Byte),
           o.buffer = <<>>
    PROVE  /\ ReallyWriteBytes(o, bytes) \in Output
           /\ Appends(ReallyWriteBytes(o, bytes), o, bytes)
<1>. DEFINE r == ReallyWriteBytes(o, bytes)
<1>1. /\ o.wire \in Seq(Byte) /\ o.wire \o bytes \in Seq(Byte)
      /\ StreamOf(o) = o.wire /\ (o.wire \o bytes) \o <<>> = o.wire \o bytes
  BY ConcatProperties, ConcatEmptySeq DEF Output, StreamOf
<1>2. CASE peerOpen
  <2>1. r = [o EXCEPT !.wire = o.wire \o bytes]
    BY <1>2 DEF ReallyWriteBytes
  <2>2. /\ r \in Output /\ r.wire = o.wire \o bytes /\ r.buffer = <<>>
        /\ r.terminated = o.terminated
    BY <1>1, <2>1 DEF Output
  <2>. HIDE DEF r
  <2>. QED BY <1>1, <2>2 DEF Appends, StreamOf, r
<1>3. CASE ~peerOpen
  <2>1. r = [o EXCEPT !.terminated = TRUE]
    BY <1>3 DEF ReallyWriteBytes
  <2>2. r \in Output /\ r.terminated
    BY <2>1 DEF Output
  <2>. QED BY <2>2 DEF Appends
<1>. QED BY <1>2, <1>3

\* writeBufferedBytes puts the bytes at the end of the stream.
LEMMA WriteBufferedAppends ==
    ASSUME peerOpen \in BOOLEAN, NEW o \in Output, NEW bytes \in Seq(Byte)
    PROVE  Appends(WriteBufferedBytes(o, bytes), o, bytes)
<1>. DEFINE r == WriteBufferedBytes(o, bytes)
            w == WriteBuffer(o)
            room == IF Len(o.buffer) + Len(bytes) > BUFFER_SIZE THEN w ELSE o
<1>0. <<>> \o bytes = bytes /\ <<>> \in Seq(Byte)
  BY ConcatEmptySeq, EmptyFramed
<1>1. w \in Output /\ w.buffer = <<>> /\ Appends(w, o, <<>>)
  BY WriteBufferMoves, WriteBufferAppends
<1>2. /\ o.buffer \in Seq(Byte) /\ o.wire \in Seq(Byte) /\ StreamOf(o) \in Seq(Byte)
      /\ StreamOf(o) \o <<>> = StreamOf(o) /\ o.terminated \in BOOLEAN
      /\ BUFFER_SIZE \in Nat /\ Len(bytes) \in Nat /\ Len(o.buffer) \in Nat
  BY ConcatProperties, ConcatEmptySeq, SizeAssumption DEF Output, StreamOf
<1>3. room \in Output /\ Appends(room, o, <<>>)
  BY <1>1, <1>2 DEF Appends
<1>4. r = IF Len(bytes) > BUFFER_SIZE THEN ReallyWriteBytes(room, bytes)
          ELSE [room EXCEPT !.buffer = room.buffer \o bytes, !.moveLast = FALSE]
  BY DEF WriteBufferedBytes
<1>5. Appends(r, room, bytes)
  <2>1. CASE Len(bytes) > BUFFER_SIZE
    <3>1. room = w
      BY <1>2, <2>1
    <3>2. r = ReallyWriteBytes(w, bytes)
      BY <1>4, <2>1, <3>1
    <3>. HIDE DEF r, w
    <3>. QED BY <1>1, <3>1, <3>2, ReallyWriteAppends
  <2>2. CASE ~(Len(bytes) > BUFFER_SIZE)
    <3>1. r = [room EXCEPT !.buffer = room.buffer \o bytes, !.moveLast = FALSE]
      BY <1>4, <2>2
    <3>. HIDE DEF r, room
    <3>2. /\ r.buffer = room.buffer \o bytes /\ r.wire = room.wire
          /\ r.terminated = room.terminated
          /\ room.wire \in Seq(Byte) /\ room.buffer \in Seq(Byte)
      BY <1>3, <3>1 DEF Output
    <3>3. room.wire \o (room.buffer \o bytes) = (room.wire \o room.buffer) \o bytes
      <4>. DEFINE a == room.wire
                  b == room.buffer
      <4>1. a \in Seq(Byte) /\ b \in Seq(Byte)
        BY <3>2
      <4>. HIDE DEF a, b
      <4>2. a \o (b \o bytes) = (a \o b) \o bytes
        BY <4>1, BytesAssociative
      <4>. QED BY <4>2 DEF a, b
    <3>. QED BY <3>2, <3>3 DEF Appends, StreamOf
  <2>. QED BY <2>1, <2>2
<1>. HIDE DEF r, room
<1>6. Appends(r, o, <<>> \o bytes)
  BY <1>0, <1>3, <1>5, AppendsTwice
<1>. QED BY <1>0, <1>6 DEF r

\* writeBytes puts the bytes at the end of the stream.
LEMMA WriteBytesAppends ==
    ASSUME peerOpen \in BOOLEAN, NEW o \in Output, NEW bytes \in Seq(Byte),
           Len(o.buffer) <= BUFFER_SIZE
    PROVE  Appends(WriteBytes(o, bytes), o, bytes)
<1>1. CASE o.buffer = <<>>
  <2>1. WriteBytes(o, bytes) = ReallyWriteBytes(o, bytes)
    BY <1>1 DEF WriteBytes
  <2>. QED BY <1>1, <2>1, ReallyWriteAppends
<1>2. CASE o.buffer # <<>>
  <2>. DEFINE b == WriteBufferedBytes(o, bytes)
              r == WriteBytes(o, bytes)
  <2>1. r = WriteBuffer(b)
    BY <1>2 DEF WriteBytes
  <2>2. b \in Output /\ Appends(b, o, bytes)
    BY WriteBufferedMoves, WriteBufferedAppends
  <2>. HIDE DEF b, r
  <2>3. Appends(r, b, <<>>)
    BY <2>1, <2>2, WriteBufferAppends
  <2>4. bytes \o <<>> = bytes /\ <<>> \in Seq(Byte)
    BY ConcatEmptySeq, EmptyFramed
  <2>5. Appends(r, o, bytes \o <<>>)
    BY <2>2, <2>3, <2>4, AppendsTwice
  <2>. QED BY <2>4, <2>5 DEF r
<1>. QED BY <1>1, <1>2

-----------------------------------------------------------------------------
\* PointerKnown, of a write state.
Known(o, p, b) == ~o.terminated => LastPointer(StreamOf(o), p, b)

\* A message that carries no pointer position leaves the server's knowledge.
LEMMA KnownKept ==
    ASSUME NEW o \in Output, NEW m \in Message, m.kind \notin {"move", "click"},
           NEW r, Appends(r, o, Bytes(m)), NEW p, NEW b, Known(o, p, b)
    PROVE  Known(r, p, b)
<1>1. StreamOf(o) \in Seq(Byte) /\ Bytes(m) \in Seq(Byte)
  BY ConcatProperties, BytesFramed DEF StreamOf, Output
<1>2. SUFFICES ASSUME ~r.terminated PROVE LastPointer(StreamOf(r), p, b)
  BY DEF Known
<1>3. StreamOf(r) = StreamOf(o) \o Bytes(m) /\ LastPointer(StreamOf(o), p, b)
  BY <1>2 DEF Appends, Known
<1>. QED BY <1>1, <1>3, OthersAreNoPointers, OthersKeepPointer

\* Nor does a flush change it.
LEMMA KnownFlushed ==
    ASSUME NEW o \in Output, NEW r, Appends(r, o, <<>>), NEW p, NEW b, Known(o, p, b)
    PROVE  Known(r, p, b)
<1>1. StreamOf(o) \in Seq(Byte)
  BY ConcatProperties DEF StreamOf, Output
<1>2. StreamOf(o) \o <<>> = StreamOf(o)
  BY <1>1, ConcatEmptySeq
<1>. QED BY <1>2 DEF Appends, Known

\* A pointer event tells the server its position and its buttons.
LEMMA KnownNew ==
    ASSUME NEW o \in Output, NEW m \in Message, m.kind \in {"move", "click"},
           NEW r, Appends(r, o, Bytes(m))
    PROVE  Known(r, m.pos, m.arg)
<1>1. StreamOf(o) \in Seq(Byte)
  BY ConcatProperties DEF StreamOf, Output
<1>. QED BY <1>1, NewPointerIsLast DEF Appends, Known

\* The messages without a position, by the functions that submit them.
LEMMA PlainKeeps ==
    ASSUME IInv, NEW p, NEW b, Known(out, p, b)
    PROVE  \A k \in Kinds \ {"move", "click"} :
              Known(WriteBytes(out, Bytes(Plain(k))), p, b)
<1>. SUFFICES ASSUME NEW k \in Kinds \ {"move", "click"}
              PROVE  Known(WriteBytes(out, Bytes(Plain(k))), p, b)
  OBVIOUS
<1>1. out \in Output /\ Len(out.buffer) <= BUFFER_SIZE /\ peerOpen \in BOOLEAN
  BY InvOut DEF OutOK
<1>2. Plain(k) \in Message /\ Plain(k).kind \notin {"move", "click"}
  BY MessagesBuilt DEF Plain
<1>3. Appends(WriteBytes(out, Bytes(Plain(k))), out, Bytes(Plain(k)))
  BY <1>1, <1>2, BytesFramed, WriteBytesAppends
<1>. QED BY <1>1, <1>2, <1>3, KnownKept

\* mouseAt: whether or not a movement is taken back, the new one is the last.
LEMMA MouseAtKnown ==
    ASSUME IInv, NEW p \in Positions, MouseAt(p)
    PROVE  Known(out', p, buttons)
<1>. DEFINE m == Pointer("move", p, buttons)
            rest == DropLastMove(out)
<1>1. /\ out \in Output /\ OutOK(out) /\ peerOpen \in BOOLEAN /\ buttons \in Masks
      /\ Len(out.buffer) <= BUFFER_SIZE /\ BUFFER_SIZE \in Nat
  BY InvOut, SizeAssumption DEF OutOK, IInv, TypeOK
<1>2. /\ m \in Message /\ m.kind = "move" /\ m.arg = buttons /\ m.pos = p
      /\ Bytes(m) \in Seq(Byte)
  BY <1>1, MessagesBuilt, BytesFramed DEF Pointer
<1>3. rest \in Output /\ Len(rest.buffer) <= BUFFER_SIZE
  <2>1. CASE out.moveLast
    <3>. DEFINE u == SubSeq(out.buffer, 1, Len(out.buffer) - MsgSize["move"])
    <3>1. /\ out.buffer # <<>> /\ out.buffer \in Seq(Byte) /\ WellFramed(out.buffer)
          /\ Size(out.buffer[Len(out.buffer)].msg) = MsgSize["move"]
          /\ MsgSize["move"] \in Nat
      BY <1>1, <2>1, SizeAssumption DEF IInv, MoveLastIsMove, Size, OutOK, Output, Kinds
    <3>2. /\ MsgSize["move"] <= Len(out.buffer) /\ u \in Seq(Byte)
          /\ Len(u) = Len(out.buffer) - MsgSize["move"]
      BY <3>1, DropFramed
    <3>3. Len(u) <= BUFFER_SIZE
      <4>1. Len(out.buffer) \in Nat
        BY <3>1
      <4>. QED BY <1>1, <3>1, <3>2, <4>1
    <3>4. rest = [out EXCEPT !.buffer = u]
      BY <2>1 DEF DropLastMove
    <3>. HIDE DEF u
    <3>. QED BY <1>1, <3>2, <3>3, <3>4 DEF Output
  <2>2. CASE ~out.moveLast
    BY <1>1, <2>2 DEF DropLastMove
  <2>. QED BY <2>1, <2>2
<1>. DEFINE w == IF isReceivingUpdate THEN WriteBufferedBytes(rest, Bytes(m))
                 ELSE WriteBytes(rest, Bytes(m))
<1>4. w \in Output /\ Appends(w, rest, Bytes(m))
  BY <1>1, <1>2, <1>3, WriteBufferedMoves, WriteBufferedAppends,
     WriteBytesMoves, WriteBytesAppends
<1>5. out' = [w EXCEPT !.moveLast = isReceivingUpdate]
  BY DEF MouseAt, IInv, TypeOK
<1>. HIDE DEF w, rest, m
<1>6. Known(w, m.pos, m.arg)
  BY <1>2, <1>3, <1>4, KnownNew
<1>7. out'.wire = w.wire /\ out'.buffer = w.buffer /\ out'.terminated = w.terminated
  BY <1>4, <1>5 DEF Output
<1>. QED BY <1>2, <1>6, <1>7 DEF Known, StreamOf

\* mouseClickedAt: the click follows the pasteboard.
LEMMA MouseClickedAtKnown ==
    ASSUME IInv, NEW p \in Positions, NEW mask \in Masks,
           NEW paste \in {"none", "cutText", "bigCutText"},
           MouseClickedAt(p, mask, paste)
    PROVE  Known(out', p, mask)
<1>. DEFINE m == Pointer("click", p, mask)
            before == IF paste = "none" THEN out ELSE WriteBytes(out, Bytes(Plain(paste)))
<1>1. out \in Output /\ Len(out.buffer) <= BUFFER_SIZE /\ peerOpen \in BOOLEAN
  BY InvOut DEF OutOK
<1>2. /\ m \in Message /\ m.kind = "click" /\ m.arg = mask /\ m.pos = p
      /\ Bytes(m) \in Seq(Byte)
  BY MessagesBuilt, BytesFramed DEF Pointer
<1>3. before \in Output
  <2>1. CASE paste = "none" BY <1>1, <2>1
  <2>2. CASE paste # "none"
    <3>1. Bytes(Plain(paste)) \in Seq(Byte)
      BY <2>2, MessagesBuilt, BytesFramed DEF Kinds
    <3>2. WriteBytes(out, Bytes(Plain(paste))) \in Output
      BY <1>1, <3>1, WriteBytesMoves
    <3>. QED BY <2>2, <3>2
  <2>. QED BY <2>1, <2>2
<1>4. out' = WriteBufferedBytes(before, Bytes(m))
  BY DEF MouseClickedAt
<1>. HIDE DEF before, m
<1>5. Appends(out', before, Bytes(m))
  BY <1>1, <1>2, <1>3, <1>4, WriteBufferedAppends
<1>. QED BY <1>2, <1>3, <1>5, KnownNew

\* The other handlers tell the server nothing about the pointer.
LEMMA OthersKnown ==
    ASSUME IInv, NEW p, NEW b, Known(out, p, b),
           \/ \E k \in KeyEvents : SendKey(k)
           \/ EndInput
           \/ \E k \in {"request", "cutText", "bigCutText"} : SendNow(k)
           \/ EncodingsChanged
           \/ WriteSetDesktopSize
           \/ FrameBufferUpdateComplete
           \/ FrameBufferUpdateCompleteWithResize
    PROVE  Known(out', p, b)
<1>1. /\ out \in Output /\ Len(out.buffer) <= BUFFER_SIZE /\ peerOpen \in BOOLEAN
  BY InvOut DEF OutOK
<1>2. {"request", "cutText", "bigCutText", "encodings", "desktopSize"}
        \subseteq Kinds \ {"move", "click"}
  BY DEF Kinds
<1>3. \A k \in {"encodings", "desktopSize"} :
         /\ Plain(k) \in Message /\ Size(Plain(k)) > 1
         /\ Plain(k).kind \notin {"move", "click"}
  BY MessagesBuilt, SizeAssumption DEF Kinds, Plain, Size
<1>4. CASE \E k \in KeyEvents : SendKey(k)
  <2>1. PICK k \in KeyEvents : out' = WriteBufferedBytes(out, Bytes(Key(k)))
    BY <1>4 DEF SendKey
  <2>2. Key(k) \in Message /\ Key(k).kind \notin {"move", "click"}
    BY MessagesBuilt DEF Key
  <2>3. Appends(out', out, Bytes(Key(k)))
    BY <1>1, <2>1, <2>2, BytesFramed, WriteBufferedAppends
  <2>. QED BY <1>1, <2>2, <2>3, KnownKept
<1>5. CASE EndInput
  <2>1. out' = WriteBuffer(out)
    BY <1>5 DEF EndInput
  <2>. QED BY <1>1, <2>1, WriteBufferAppends, KnownFlushed
<1>6. CASE \E k \in {"request", "cutText", "bigCutText"} : SendNow(k)
  BY <1>2, <1>6, PlainKeeps DEF SendNow
<1>7. CASE EncodingsChanged
  <2>. DEFINE m == Plain("encodings")
              h == Slice(m, 1, 1)
              t == Slice(m, 2, Size(m))
              a == WriteBufferedBytes(out, h)
              c == WriteBufferedBytes(a, t)
  <2>1. h \in Seq(Byte) /\ t \in Seq(Byte) /\ h \o t = Bytes(m)
    BY <1>3, SlicesJoin
  <2>2. out' = WriteBuffer(c)
    BY <1>7 DEF EncodingsChanged
  <2>3. m \in Message /\ m.kind \notin {"move", "click"}
    BY <1>3
  <2>. HIDE DEF m, h, t
  <2>4. a \in Output /\ Len(a.buffer) <= BUFFER_SIZE /\ Appends(a, out, h)
    BY <1>1, <2>1, WriteBufferedMoves, WriteBufferedAppends
  <2>. HIDE DEF a
  <2>5. c \in Output /\ Appends(c, a, t)
    BY <1>1, <2>1, <2>4, WriteBufferedMoves, WriteBufferedAppends
  <2>. HIDE DEF c
  <2>6. Appends(c, out, Bytes(m))
    BY <1>1, <2>1, <2>4, <2>5, AppendsTwice
  <2>7. Known(c, p, b)
    BY <1>1, <2>3, <2>6, KnownKept
  <2>8. Appends(out', c, <<>>)
    BY <1>1, <2>2, <2>5, WriteBufferAppends
  <2>. QED BY <2>5, <2>7, <2>8, KnownFlushed
<1>8. CASE WriteSetDesktopSize
  <2>. DEFINE m == Plain("desktopSize")
              h == Slice(m, 1, 1)
              t == Slice(m, 2, Size(m))
              a == WriteBytes(out, h)
  <2>1. h \in Seq(Byte) /\ t \in Seq(Byte) /\ h \o t = Bytes(m)
    BY <1>3, SlicesJoin
  <2>2. out' = WriteBytes(a, t)
    BY <1>8 DEF WriteSetDesktopSize
  <2>3. m \in Message /\ m.kind \notin {"move", "click"}
    BY <1>3
  <2>. HIDE DEF m, h, t
  <2>4. a \in Output /\ a.buffer = <<>> /\ Appends(a, out, h)
    BY <1>1, <2>1, WriteBytesMoves, WriteBytesAppends
  <2>5. Len(a.buffer) <= BUFFER_SIZE
    BY <2>4, SizeAssumption
  <2>. HIDE DEF a
  <2>6. Appends(out', a, t)
    BY <1>1, <2>1, <2>2, <2>4, <2>5, WriteBytesAppends
  <2>7. Appends(out', out, Bytes(m))
    BY <1>1, <2>1, <2>4, <2>6, AppendsTwice
  <2>. QED BY <1>1, <2>3, <2>7, KnownKept
<1>9. CASE FrameBufferUpdateComplete
  <2>1. PICK requested \in BOOLEAN :
           out' = WriteBuffer(IF requested THEN WriteBytes(out, Bytes(Plain("request")))
                              ELSE out)
    BY <1>9 DEF FrameBufferUpdateComplete
  <2>. DEFINE a == IF requested THEN WriteBytes(out, Bytes(Plain("request"))) ELSE out
  <2>2. Known(a, p, b)
    BY <1>2, PlainKeeps
  <2>3. a \in Output
    BY <1>1, <1>2, MessagesBuilt, BytesFramed, WriteBytesMoves
  <2>4. out' = WriteBuffer(a)
    BY <2>1
  <2>. HIDE DEF a
  <2>. QED BY <1>1, <2>2, <2>3, <2>4, WriteBufferAppends, KnownFlushed
<1>10. CASE FrameBufferUpdateCompleteWithResize
  BY <1>2, <1>10, PlainKeeps DEF FrameBufferUpdateCompleteWithResize
<1>. QED BY <1>4, <1>5, <1>6, <1>7, <1>8, <1>9, <1>10

\* A new connection has no pointer events, and every step keeps PointerKnown.
LEMMA PointerInit == Init => PointerKnown
<1>. SUFFICES ASSUME Init PROVE PointerKnown
  OBVIOUS
<1>1. out.wire = <<>> /\ out.buffer = <<>> /\ lastMouse = NoPos /\ buttons = NoButtons
  BY DEF Init
<1>2. <<>> \o <<>> = <<>> /\ Len(<<>>) = 0
  BY EmptyFramed, ConcatEmptySeq
<1>3. Stream = <<>>
  BY <1>1, <1>2 DEF Stream
<1>4. {i \in 1 .. Len(Stream) : IsPointer(Stream[i])} = {}
  BY <1>2, <1>3
<1>. QED BY <1>1, <1>4 DEF PointerKnown

LEMMA PointerNext == IInv /\ PointerKnown /\ [Next]_vars => PointerKnown'
<1>. SUFFICES ASSUME IInv, PointerKnown, [Next]_vars PROVE PointerKnown'
  OBVIOUS
<1>1. Known(out, lastMouse, buttons)
  BY DEF PointerKnown, Known, LastPointer, StreamOf, Stream
<1>2. Known(out', lastMouse', buttons')
  <2>1. CASE \E p \in Positions : MouseAt(p)
    <3>1. PICK p \in Positions : MouseAt(p)
      BY <2>1
    <3>2. lastMouse' = p /\ buttons' = buttons
      BY <3>1 DEF MouseAt
    <3>. QED BY <3>1, <3>2, MouseAtKnown
  <2>2. CASE \E p \in Positions, mask \in Masks, paste \in {"none", "cutText", "bigCutText"} :
                MouseClickedAt(p, mask, paste)
    <3>1. PICK p \in Positions, mask \in Masks, paste \in {"none", "cutText", "bigCutText"} :
             MouseClickedAt(p, mask, paste)
      BY <2>2
    <3>2. lastMouse' = p /\ buttons' = mask
      BY <3>1 DEF MouseClickedAt
    <3>. QED BY <3>1, <3>2, MouseClickedAtKnown
  <2>3. CASE \/ \E k \in KeyEvents : SendKey(k)
             \/ EndInput
             \/ \E k \in {"request", "cutText", "bigCutText"} : SendNow(k)
             \/ EncodingsChanged
             \/ WriteSetDesktopSize
             \/ FrameBufferUpdateComplete
             \/ FrameBufferUpdateCompleteWithResize
    <3>1. lastMouse' = lastMouse /\ buttons' = buttons
      BY <2>3 DEF SendKey, EndInput, SendNow, EncodingsChanged, WriteSetDesktopSize,
                  FrameBufferUpdateComplete, FrameBufferUpdateCompleteWithResize
    <3>2. Known(out', lastMouse, buttons)
      BY <1>1, <2>3, OthersKnown
    <3>. QED BY <3>1, <3>2
  <2>4. CASE BeginInput \/ FrameBufferUpdateBeginning \/ PeerCloses \/ UNCHANGED vars
    <3>1. out' = out /\ lastMouse' = lastMouse /\ buttons' = buttons
      BY <2>4 DEF BeginInput, FrameBufferUpdateBeginning, PeerCloses, vars
    <3>. QED BY <1>1, <3>1
  <2>. QED BY <2>1, <2>2, <2>3, <2>4 DEF Next
<1>. QED
  BY <1>2 DEF PointerKnown, Known, LastPointer, StreamOf, Stream, IsPointer

\* The position and the buttons that mouseAt and mouseClickedAt compare new
\* events with are those of the last pointer event given to the server, unless
\* the connection has ended: no movement the server needs is suppressed.
THEOREM PointerAlwaysKnown == Spec => []PointerKnown
BY Invariance, PointerInit, PointerNext, PTL DEF Spec

-----------------------------------------------------------------------------
(***************************************************************************)
(* The messages of a stream.  Messages reads a sequence of bytes from its  *)
(* front; what it has found in one sequence and then in another is what it *)
(* finds in the two put together.                                          *)
(***************************************************************************)

Less == {p \in Nat \X Nat : p[1] < p[2]}

\* Induction, from the least number that is not in G.
LEMMA InductionTo ==
    ASSUME NEW n \in Nat, NEW G, 0 \in G,
           \A i \in 1 .. n : i - 1 \in G => i \in G
    PROVE  \A i \in 0 .. n : i \in G
<1>. SUFFICES ASSUME \E i \in 0 .. n : i \notin G PROVE FALSE
  OBVIOUS
<1>. DEFINE T == {i \in 0 .. n : i \notin G}
<1>1. T \subseteq Nat /\ T # {}
  OBVIOUS
<1>2. IsWellFoundedOn(Less, Nat)
  <2>1. OpToRel(<, Nat) = Less
    BY Zenon DEF OpToRel, Less
  <2>. QED BY <2>1, NatLessThanWellFounded, Zenon
<1>3. PICK x \in T : \A y \in T : <<y, x>> \notin Less
  <2>. HIDE DEF T
  <2>. QED BY <1>1, <1>2, WFMin
<1>4. x \in 1 .. n /\ x - 1 \in 0 .. n /\ <<x - 1, x>> \in Less
  BY DEF Less
<1>5. x - 1 \notin T
  BY <1>3, <1>4
<1>. QED BY <1>3, <1>4, <1>5

\* What is known of the messages, a, after byte n of s.
Reading(s, n, a) ==
    IF s[n].at = Size(s[n].msg) THEN Append(a, s[n].msg) ELSE a

\* f[n] are the messages of the first n bytes of s.
ReadUpTo(s, f) ==
    f[0] = <<>> /\ \A n \in 1 .. Len(s) : f[n] = Reading(s, n, f[n - 1])

LEMMA ReadingIsMessages ==
    ASSUME NEW s \in Seq(Byte), NEW n \in 1 .. Len(s), NEW a \in Seq(Message)
    PROVE  Reading(s, n, a) \in Seq(Message)
<1>1. s[n] \in Byte
  BY ElementOfSeq
<1>2. s[n].msg \in Message
  BY <1>1 DEF Byte
<1>. QED BY <1>2, AppendProperties DEF Reading

LEMMA ReadUpToExists ==
    ASSUME NEW s \in Seq(Byte)
    PROVE  \E f \in [0 .. Len(s) -> Seq(Message)] : ReadUpTo(s, f)
<1>. DEFINE By(k, g) ==
               g[0] = <<>> /\ \A i \in 1 .. k : g[i] = Reading(s, i, g[i - 1])
            G == {k \in 0 .. Len(s) : \E g \in [0 .. k -> Seq(Message)] : By(k, g)}
<1>0. Len(s) \in Nat
  OBVIOUS
<1>1. 0 \in G
  <2>. DEFINE h == [i \in 0 .. 0 |-> <<>>]
  <2>1. h \in [0 .. 0 -> Seq(Message)] /\ h[0] = <<>>
    OBVIOUS
  <2>. HIDE DEF h
  <2>2. By(0, h)
    BY <2>1
  <2>. HIDE DEF By
  <2>. QED BY <1>0, <2>1, <2>2
<1>2. ASSUME NEW k \in 1 .. Len(s), k - 1 \in G PROVE k \in G
  <2>1. PICK g \in [0 .. k - 1 -> Seq(Message)] : By(k - 1, g)
    BY <1>2
  <2>. DEFINE new == Reading(s, k, g[k - 1])
              h == [i \in 0 .. k |-> IF i = k THEN new ELSE g[i]]
  <2>2. new \in Seq(Message)
    <3>1. g[k - 1] \in Seq(Message)
      BY <1>0
    <3>. QED BY <3>1, ReadingIsMessages
  <2>3. h[k] = new /\ \A i \in 0 .. k - 1 : h[i] = g[i]
    OBVIOUS
  <2>4. h \in [0 .. k -> Seq(Message)]
    BY <2>2
  <2>. HIDE DEF h
  <2>5. By(k, h)
    <3>1. h[0] = <<>>
      BY <2>1, <2>3
    <3>2. ASSUME NEW i \in 1 .. k PROVE h[i] = Reading(s, i, h[i - 1])
      <4>1. h[i - 1] = g[i - 1]
        BY <2>3
      <4>2. CASE i = k
        BY <2>3, <4>1, <4>2
      <4>3. CASE i # k
        BY <2>1, <2>3, <4>1, <4>3
      <4>. QED BY <4>2, <4>3
    <3>. QED BY <3>1, <3>2
  <2>. HIDE DEF By
  <2>. QED BY <2>4, <2>5
<1>3. \A i \in 0 .. Len(s) : i \in G
  <2>. HIDE DEF G
  <2>. QED BY <1>0, <1>1, <1>2, InductionTo
<1>4. Len(s) \in G
  <2>. HIDE DEF G
  <2>1. Len(s) \in 0 .. Len(s)
    BY <1>0
  <2>. QED BY <1>3, <2>1
<1>. QED BY <1>4 DEF ReadUpTo

LEMMA ReadUpToUnique ==
    ASSUME NEW s \in Seq(Byte), NEW f, NEW g, ReadUpTo(s, f), ReadUpTo(s, g)
    PROVE  \A n \in 0 .. Len(s) : f[n] = g[n]
<1>. DEFINE G == {n \in 0 .. Len(s) : f[n] = g[n]}
<1>1. 0 \in G /\ Len(s) \in Nat
  BY DEF ReadUpTo
<1>2. ASSUME NEW n \in 1 .. Len(s), n - 1 \in G PROVE n \in G
  BY <1>2 DEF ReadUpTo
<1>. HIDE DEF G
<1>3. \A n \in 0 .. Len(s) : n \in G
  BY <1>1, <1>2, InductionTo
<1>. QED BY <1>3 DEF G

\* The recursive function in Messages is such a function.
LEMMA MessagesRead ==
    ASSUME NEW s \in Seq(Byte), NEW f, ReadUpTo(s, f)
    PROVE  Messages(s) = f[Len(s)]
<1>. DEFINE Next1(h) == [n \in 0 .. Len(s) |->
                           IF n = 0 THEN <<>>
                           ELSE IF s[n].at = Size(s[n].msg) THEN Append(h[n - 1], s[n].msg)
                           ELSE h[n - 1]]
            upTo == CHOOSE h : h = Next1(h)
<1>1. Messages(s) = upTo[Len(s)]
  BY DEF Messages
<1>2. PICK g \in [0 .. Len(s) -> Seq(Message)] : ReadUpTo(s, g)
  BY ReadUpToExists
<1>3. \A n \in 0 .. Len(s) : Next1(g)[n] = g[n]
  <2>1. ASSUME NEW n \in 0 .. Len(s) PROVE Next1(g)[n] = g[n]
    <3>1. CASE n = 0
      BY <1>2, <3>1 DEF ReadUpTo
    <3>2. CASE n # 0
      <4>1. n \in 1 .. Len(s)
        BY <3>2
      <4>. QED BY <1>2, <3>2, <4>1 DEF ReadUpTo, Reading
    <3>. QED BY <3>1, <3>2
  <2>. QED BY <2>1
<1>4. g = Next1(g)
  BY <1>3
<1>5. upTo = Next1(upTo)
  <2>. HIDE DEF Next1
  <2>. QED BY <1>4
<1>. HIDE DEF upTo
<1>6. ReadUpTo(s, upTo)
  <2>1. \A n \in 0 .. Len(s) : upTo[n] = Next1(upTo)[n]
    BY <1>5
  <2>2. 0 \in 0 .. Len(s) /\ \A n \in 1 .. Len(s) : n \in 0 .. Len(s) /\ n # 0
    OBVIOUS
  <2>. QED BY <2>1, <2>2 DEF ReadUpTo, Reading
<1>7. Len(s) \in 0 .. Len(s)
  OBVIOUS
<1>. QED BY <1>1, <1>6, <1>7, ReadUpToUnique

\* The messages of bytes are messages.
LEMMA MessagesType ==
    ASSUME NEW s \in Seq(Byte)
    PROVE  Messages(s) \in Seq(Message)
<1>1. PICK f \in [0 .. Len(s) -> Seq(Message)] : ReadUpTo(s, f)
  BY ReadUpToExists
<1>2. Len(s) \in 0 .. Len(s)
  OBVIOUS
<1>. QED BY <1>1, <1>2, MessagesRead

\* The messages of a stream and of what follows it.
LEMMA MessagesConcat ==
    ASSUME NEW s \in Seq(Byte), NEW t \in Seq(Byte)
    PROVE  Messages(s \o t) = Messages(s) \o Messages(t)
<1>. DEFINE u == s \o t
            K == Len(s)
            L == Len(t)
<1>1. /\ u \in Seq(Byte) /\ Len(u) = K + L /\ K \in Nat /\ L \in Nat
      /\ \A i \in 1 .. K : u[i] = s[i]
      /\ \A i \in 1 .. L : u[K + i] = t[i]
  BY ConcatProperties
<1>2. PICK f \in [0 .. K -> Seq(Message)] : ReadUpTo(s, f)
  BY ReadUpToExists
<1>3. PICK g \in [0 .. L -> Seq(Message)] : ReadUpTo(t, g)
  BY ReadUpToExists
<1>4. /\ \A i \in 1 .. K : f[i] = Reading(s, i, f[i - 1])
      /\ \A i \in 1 .. L : g[i] = Reading(t, i, g[i - 1])
      /\ f[0] = <<>> /\ g[0] = <<>>
  BY <1>2, <1>3 DEF ReadUpTo
<1>. HIDE DEF u
<1>5. \A i \in 1 .. K : Reading(u, i, f[i - 1]) = f[i]
  BY <1>1, <1>4 DEF Reading
<1>. DEFINE X == f[K]
<1>6. X \in Seq(Message) /\ X \o <<>> = X
  <2>1. X \in Seq(Message)
    <3>. HIDE DEF K
    <3>1. K \in 0 .. K
      BY <1>1
    <3>. QED BY <1>2, <3>1
  <2>. HIDE DEF X
  <2>. QED BY <2>1, ConcatEmptySeq
<1>. HIDE DEF X
<1>7. ASSUME NEW i \in 1 .. L
      PROVE  Reading(u, K + i, X \o g[i - 1]) = X \o g[i]
  <2>. DEFINE Y == g[i - 1]
  <2>1. Y \in Seq(Message) /\ t[i] \in Byte /\ u[K + i] = t[i]
    <3>1. Y \in Seq(Message)
      <4>. HIDE DEF L
      <4>1. i - 1 \in 0 .. L
        BY <1>1
      <4>. QED BY <1>3, <4>1
    <3>. QED BY <1>1, <3>1, ElementOfSeq
  <2>2. t[i].msg \in Message
    BY <2>1 DEF Byte
  <2>3. g[i] = Reading(t, i, Y)
    BY <1>4
  <2>. HIDE DEF Y
  <2>4. Append(X \o Y, t[i].msg) = X \o Append(Y, t[i].msg)
    <3>. DEFINE m == t[i].msg
    <3>1. m \in Message /\ <<m>> \in Seq(Message)
      BY <2>2
    <3>. HIDE DEF m
    <3>2. /\ X \o Y \in Seq(Message)
          /\ Append(X \o Y, m) = (X \o Y) \o <<m>>
          /\ Append(Y, m) = Y \o <<m>>
      BY <1>6, <2>1, <3>1, ConcatProperties, AppendIsConcat
    <3>3. (X \o Y) \o <<m>> = X \o (Y \o <<m>>)
      BY <1>6, <2>1, <3>1, ConcatAssociative
    <3>. QED BY <3>2, <3>3 DEF m
  <2>5. Reading(u, K + i, X \o Y) = X \o Reading(t, i, Y)
    BY <2>1, <2>4 DEF Reading
  <2>. QED BY <2>3, <2>5 DEF Y
<1>. DEFINE h == [n \in 0 .. K + L |-> IF n <= K THEN f[n] ELSE X \o g[n - K]]
<1>8. /\ \A n \in 0 .. K : h[n] = f[n]
      /\ \A i \in 1 .. L : h[K + i] = X \o g[i]
  BY <1>1
<1>9. \A i \in 0 .. L : h[K + i] = X \o g[i]
  <2>1. h[K + 0] = X \o g[0]
    BY <1>1, <1>4, <1>6, <1>8 DEF X
  <2>. HIDE DEF h
  <2>2. ASSUME NEW i \in 0 .. L PROVE h[K + i] = X \o g[i]
    <3>1. CASE i = 0
      BY <2>1, <3>1
    <3>2. CASE i # 0
      <4>1. i \in 1 .. L
        BY <1>1, <3>2
      <4>. QED BY <1>8, <4>1
    <3>. QED BY <3>1, <3>2
  <2>. QED BY <2>2
<1>. HIDE DEF h
<1>10. ASSUME NEW n \in 1 .. K + L PROVE h[n] = Reading(u, n, h[n - 1])
  <2>1. CASE n <= K
    <3>1. n \in 1 .. K /\ h[n] = f[n] /\ h[n - 1] = f[n - 1]
      BY <1>1, <1>8, <2>1
    <3>. QED BY <1>5, <3>1
  <2>2. CASE n > K
    <3>. DEFINE i == n - K
    <3>1. i \in 1 .. L /\ n = K + i /\ n - 1 = K + (i - 1) /\ i - 1 \in 0 .. L
      BY <1>1, <2>2
    <3>. HIDE DEF i
    <3>2. h[n] = X \o g[i]
      BY <1>8, <3>1
    <3>3. h[n - 1] = X \o g[i - 1]
      BY <1>9, <3>1
    <3>. QED BY <1>7, <3>1, <3>2, <3>3
  <2>. QED BY <1>1, <2>1, <2>2
<1>11. ReadUpTo(u, h)
  <2>1. h[0] = <<>>
    BY <1>1, <1>4, <1>8
  <2>. QED BY <1>1, <1>10, <2>1 DEF ReadUpTo
<1>12. Messages(u) = h[K + L] /\ Messages(s) = X /\ Messages(t) = g[L]
  BY <1>1, <1>2, <1>3, <1>11, MessagesRead DEF X
<1>13. h[K + L] = X \o g[L]
  BY <1>1, <1>9
<1>. QED BY <1>12, <1>13 DEF u

\* No bytes hold no message, and those of a message hold that message.
LEMMA MessagesOf ==
    /\ Messages(<<>>) = <<>>
    /\ \A m \in Message : Messages(Bytes(m)) = <<m>>
<1>1. Messages(<<>>) = <<>>
  <2>. DEFINE f == [n \in 0 .. 0 |-> <<>>]
  <2>1. <<>> \in Seq(Byte) /\ Len(<<>>) = 0 /\ f[0] = <<>>
    OBVIOUS
  <2>. HIDE DEF f
  <2>2. ReadUpTo(<<>>, f)
    BY <2>1 DEF ReadUpTo
  <2>. QED BY <2>1, <2>2, MessagesRead
<1>2. ASSUME NEW m \in Message PROVE Messages(Bytes(m)) = <<m>>
  <2>. DEFINE s == Bytes(m)
              L == Size(m)
              f == [n \in 0 .. L |-> IF n = L THEN <<m>> ELSE <<>>]
  <2>1. /\ s \in Seq(Byte) /\ Len(s) = L /\ L \in Nat \ {0}
        /\ \A i \in 1 .. L : s[i] = [msg |-> m, at |-> i]
    BY BytesFramed
  <2>. HIDE DEF s
  <2>2. \A i \in 1 .. L : s[i].msg = m /\ s[i].at = i
    BY <2>1
  <2>3. Append(<<>>, m) = <<m>>
    OBVIOUS
  <2>4. \A i \in 1 .. L : Reading(s, i, <<>>) = IF i = L THEN <<m>> ELSE <<>>
    BY <2>2, <2>3 DEF Reading
  <2>. HIDE DEF L
  <2>5. f[L] = <<m>> /\ \A n \in 0 .. L - 1 : f[n] = <<>>
    BY <2>1
  <2>. HIDE DEF f
  <2>6. ReadUpTo(s, f)
    <3>1. f[0] = <<>>
      BY <2>1, <2>5
    <3>2. ASSUME NEW n \in 1 .. L PROVE f[n] = Reading(s, n, f[n - 1])
      <4>1. f[n - 1] = <<>>
        BY <2>1, <2>5
      <4>2. f[n] = IF n = L THEN <<m>> ELSE <<>>
        BY <2>1, <2>5
      <4>. QED BY <2>4, <4>1, <4>2
    <3>. QED BY <2>1, <3>1, <3>2 DEF ReadUpTo
  <2>. QED BY <2>1, <2>5, <2>6, MessagesRead DEF s
<1>. QED BY <1>1, <1>2


\* What is read of a stream is not read differently when more follows.
LEMMA MessagesPrefix ==
    ASSUME NEW s \in Seq(Byte), NEW t \in Seq(Byte)
    PROVE  Promise!IsPrefix(Messages(s), Messages(s \o t))
<1>. DEFINE a == Messages(s)
            b == Messages(t)
<1>1. a \in Seq(Message) /\ b \in Seq(Message) /\ Messages(s \o t) = a \o b
  BY MessagesType, MessagesConcat
<1>. HIDE DEF a, b
<1>2. /\ a \o b \in Seq(Message) /\ Len(a) <= Len(a \o b)
      /\ \A i \in 1 .. Len(a) : (a \o b)[i] = a[i]
      /\ Len(a) \in Nat
  BY <1>1, ConcatProperties
<1>3. SubSeq(a, 1, Len(a)) = SubSeq(a \o b, 1, Len(a))
  BY <1>1, <1>2
<1>. QED BY <1>1, <1>2, <1>3 DEF Promise!IsPrefix, a
-----------------------------------------------------------------------------
(***************************************************************************)
(* The writer keeps the promise of OutputStream.  A write state advances   *)
(* in two ways at once: what it has accepted is what Appends says, as long *)
(* as the connection lasts, and what has reached the socket only grows, as *)
(* long as the peer is there, and does not change after that.              *)
(***************************************************************************)

\* While the peer is there, r has sent what o has and perhaps more, and
\* nothing fails; once it has gone, nothing is sent.
Sends(r, o) ==
    /\ o.terminated => r.terminated
    /\ peerOpen => /\ \E u \in Seq(Byte) : r.wire = o.wire \o u
                   /\ r.terminated = o.terminated
    /\ ~peerOpen => r.wire = o.wire

LEMMA SendsNothing ==
    ASSUME NEW o \in Output, NEW r, r.wire = o.wire, r.terminated = o.terminated
    PROVE  Sends(r, o)
<1>1. o.wire \in Seq(Byte) /\ <<>> \in Seq(Byte) /\ o.wire \o <<>> = o.wire
  BY EmptyFramed, ConcatEmptySeq DEF Output
<1>. QED BY <1>1 DEF Sends

LEMMA SendsTwice ==
    ASSUME peerOpen \in BOOLEAN, NEW o \in Output, NEW a, NEW r, Sends(a, o), Sends(r, a)
    PROVE  Sends(r, o)
<1>1. CASE peerOpen
  <2>1. PICK u \in Seq(Byte) : a.wire = o.wire \o u
    BY <1>1 DEF Sends
  <2>2. PICK v \in Seq(Byte) : r.wire = a.wire \o v
    BY <1>1 DEF Sends
  <2>3. o.wire \in Seq(Byte)
    BY DEF Output
  <2>. DEFINE x == o.wire
  <2>4. (x \o u) \o v = x \o (u \o v) /\ u \o v \in Seq(Byte)
    <3>. HIDE DEF x
    <3>. QED BY <2>3, BytesAssociative, ConcatProperties DEF x
  <2>. QED BY <1>1, <2>1, <2>2, <2>4 DEF Sends
<1>2. CASE ~peerOpen
  BY <1>2 DEF Sends
<1>. QED BY <1>1, <1>2

\* reallyWriteBytes and writeBuffer.
LEMMA ReallyWriteSends ==
    ASSUME peerOpen \in BOOLEAN, NEW o \in Output, NEW bytes \in Seq(Byte)
    PROVE  Sends(ReallyWriteBytes(o, bytes), o)
<1>. DEFINE r == ReallyWriteBytes(o, bytes)
<1>1. CASE peerOpen
  <2>1. r.wire = o.wire \o bytes /\ r.terminated = o.terminated
    BY <1>1 DEF ReallyWriteBytes, Output
  <2>. HIDE DEF r
  <2>. QED BY <1>1, <2>1 DEF Sends, r
<1>2. CASE ~peerOpen
  <2>1. r.wire = o.wire /\ r.terminated
    BY <1>2 DEF ReallyWriteBytes, Output
  <2>. HIDE DEF r
  <2>. QED BY <1>2, <2>1 DEF Sends, r
<1>. QED BY <1>1, <1>2

LEMMA WriteBufferSends ==
    ASSUME peerOpen \in BOOLEAN, NEW o \in Output
    PROVE  Sends(WriteBuffer(o), o)
<1>1. CASE o.buffer = <<>>
  BY <1>1, SendsNothing DEF WriteBuffer
<1>2. CASE o.buffer # <<>>
  <2>. DEFINE a == ReallyWriteBytes(o, o.buffer)
              r == WriteBuffer(o)
  <2>1. o.buffer \in Seq(Byte)
    BY DEF Output
  <2>2. Sends(a, o)
    BY <2>1, ReallyWriteSends
  <2>3. r.wire = a.wire /\ r.terminated = a.terminated
    <3>1. r = [a EXCEPT !.buffer = <<>>, !.moveLast = FALSE]
      BY <1>2 DEF WriteBuffer
    <3>2. a = [o EXCEPT !.wire = o.wire \o o.buffer] \/ a = [o EXCEPT !.terminated = TRUE]
      BY DEF ReallyWriteBytes
    <3>. HIDE DEF a, r
    <3>. QED BY <3>1, <3>2 DEF Output
  <2>. HIDE DEF a, r
  <2>. QED BY <2>2, <2>3 DEF Sends, r
<1>. QED BY <1>1, <1>2

\* writeBufferedBytes and writeBytes.
LEMMA WriteBufferedSends ==
    ASSUME peerOpen \in BOOLEAN, NEW o \in Output, NEW bytes \in Seq(Byte)
    PROVE  Sends(WriteBufferedBytes(o, bytes), o)
<1>. DEFINE r == WriteBufferedBytes(o, bytes)
            room == IF Len(o.buffer) + Len(bytes) > BUFFER_SIZE THEN WriteBuffer(o) ELSE o
<1>1. room \in Output /\ Sends(room, o)
  BY WriteBufferMoves, WriteBufferSends, SendsNothing
<1>2. r = IF Len(bytes) > BUFFER_SIZE THEN ReallyWriteBytes(room, bytes)
          ELSE [room EXCEPT !.buffer = room.buffer \o bytes, !.moveLast = FALSE]
  BY DEF WriteBufferedBytes
<1>. HIDE DEF r, room
<1>3. Sends(r, room)
  <2>1. CASE Len(bytes) > BUFFER_SIZE
    BY <1>1, <1>2, <2>1, ReallyWriteSends
  <2>2. CASE ~(Len(bytes) > BUFFER_SIZE)
    <3>1. r = [room EXCEPT !.buffer = room.buffer \o bytes, !.moveLast = FALSE]
      BY <1>2, <2>2
    <3>2. r.wire = room.wire /\ r.terminated = room.terminated
      BY <1>1, <3>1 DEF Output
    <3>. QED BY <1>1, <3>2, SendsNothing
  <2>. QED BY <2>1, <2>2
<1>. QED BY <1>1, <1>3, SendsTwice DEF r

LEMMA WriteBytesSends ==
    ASSUME peerOpen \in BOOLEAN, NEW o \in Output, NEW bytes \in Seq(Byte),
           Len(o.buffer) <= BUFFER_SIZE
    PROVE  Sends(WriteBytes(o, bytes), o)
<1>1. CASE o.buffer = <<>>
  BY <1>1, ReallyWriteSends DEF WriteBytes
<1>2. CASE o.buffer # <<>>
  <2>. DEFINE b == WriteBufferedBytes(o, bytes)
  <2>1. WriteBytes(o, bytes) = WriteBuffer(b)
    BY <1>2 DEF WriteBytes
  <2>2. b \in Output /\ Sends(b, o)
    BY WriteBufferedMoves, WriteBufferedSends
  <2>. HIDE DEF b
  <2>3. Sends(WriteBuffer(b), b)
    BY <2>2, WriteBufferSends
  <2>. QED BY <2>1, <2>2, <2>3, SendsTwice
<1>. QED BY <1>1, <1>2

-----------------------------------------------------------------------------
\* A connection that has been terminated is one whose peer has gone.
NoPeerLeft == out.terminated => ~peerOpen

\* What a handler does to the stream: it submits some bytes.
Submits == \E bytes \in Seq(Byte) : Appends(out', out, bytes) /\ Sends(out', out)

\* A handler that submits bytes is a step of the promise.
LEMMA SubmitsKeepsPromise ==
    ASSUME IInv, NoPeerLeft, out' \in Output, Submits
    PROVE  Promise!StreamNext
<1>1. /\ out \in Output /\ out.wire \in Seq(Byte) /\ out.terminated \in BOOLEAN
      /\ StreamOf(out) \in Seq(Byte) /\ peerOpen \in BOOLEAN
      /\ out.buffer \in Seq(Byte)
      /\ out'.terminated \in BOOLEAN /\ out'.wire \in Seq(Byte) /\ out'.buffer \in Seq(Byte)
  BY InvOut, ConcatProperties DEF OutOK, Output, StreamOf
<1>2. PICK bytes \in Seq(Byte) : Appends(out', out, bytes) /\ Sends(out', out)
  BY DEF Submits
<1>3. CASE out.terminated
  <2>1. out'.terminated /\ out'.wire = out.wire
    BY <1>2, <1>3 DEF Sends, NoPeerLeft
  <2>. QED BY <1>1, <1>3, <2>1 DEF Promise!StreamNext, Promise!Discard
<1>4. CASE ~out.terminated /\ out'.terminated
  <2>1. out'.wire = out.wire
    BY <1>2, <1>4 DEF Sends
  <2>. QED BY <1>1, <1>4, <2>1 DEF Promise!StreamNext, Promise!Break
<1>5. CASE ~out.terminated /\ ~out'.terminated
  <2>1. StreamOf(out') = StreamOf(out) \o bytes
    BY <1>2, <1>5 DEF Appends
  <2>2. Promise!IsPrefix(Messages(out.wire), Messages(out'.wire))
    <3>1. \E u \in Seq(Byte) : out'.wire = out.wire \o u
      <4>1. CASE peerOpen BY <1>2, <4>1 DEF Sends
      <4>2. CASE ~peerOpen
        BY <1>1, <1>2, <4>2, EmptyFramed, ConcatEmptySeq DEF Sends
      <4>. QED BY <4>1, <4>2
    <3>. QED BY <1>1, <3>1, MessagesPrefix
  <2>3. Promise!IsPrefix(Messages(out.wire) \o Messages(out.buffer),
                         Messages(out'.wire) \o Messages(out'.buffer))
    <3>1. /\ Messages(out.wire) \o Messages(out.buffer) = Messages(StreamOf(out))
          /\ Messages(out'.wire) \o Messages(out'.buffer) = Messages(StreamOf(out'))
      BY <1>1, MessagesConcat DEF StreamOf
    <3>2. Promise!IsPrefix(Messages(StreamOf(out)), Messages(StreamOf(out')))
      BY <1>1, <1>2, <2>1, MessagesPrefix
    <3>. QED BY <3>1, <3>2
  <2>4. out'.terminated = out.terminated
    BY <1>1, <1>5
  <2>. QED BY <1>5, <2>2, <2>3, <2>4 DEF Promise!StreamNext, Promise!Extend
<1>. QED BY <1>3, <1>4, <1>5

\* A handler that first drops the movement in the buffer, and then submits
\* another made with the same buttons, is one too.
LEMMA ReplacementKeepsPromise ==
    ASSUME IInv, NoPeerLeft, NEW old \in Message, NEW new \in Message,
           old.kind = "move", new.kind = "move", new.arg = old.arg,
           out.buffer = Bytes(old), out' \in Output,
           NEW rest \in Output, rest.buffer = <<>>, rest.wire = out.wire,
           rest.terminated = out.terminated,
           Appends(out', rest, Bytes(new)), Sends(out', rest)
    PROVE  Promise!StreamNext
<1>1. /\ out \in Output /\ out.wire \in Seq(Byte) /\ out.terminated \in BOOLEAN
      /\ peerOpen \in BOOLEAN
      /\ out'.terminated \in BOOLEAN /\ out'.wire \in Seq(Byte) /\ out'.buffer \in Seq(Byte)
      /\ StreamOf(rest) = out.wire
  BY InvOut, ConcatEmptySeq DEF OutOK, Output, StreamOf
<1>2. CASE out.terminated
  <2>1. out'.terminated /\ out'.wire = out.wire
    BY <1>2 DEF Sends, NoPeerLeft
  <2>. QED BY <1>1, <1>2, <2>1 DEF Promise!StreamNext, Promise!Discard
<1>3. CASE ~out.terminated /\ out'.terminated
  <2>1. out'.wire = out.wire
    BY <1>3 DEF Sends
  <2>. QED BY <1>1, <1>3, <2>1 DEF Promise!StreamNext, Promise!Break
<1>4. CASE ~out.terminated /\ ~out'.terminated
  <2>. DEFINE a == Messages(out.wire)
              b == Messages(out'.wire)
              c == Messages(out'.buffer)
  <2>1. Bytes(new) \in Seq(Byte) /\ Messages(Bytes(new)) = <<new>>
    BY BytesFramed, MessagesOf
  <2>2. a \in Seq(Message) /\ b \in Seq(Message) /\ c \in Seq(Message)
    BY <1>1, MessagesType
  <2>3. Messages(out.buffer) = <<old>>
    BY MessagesOf
  <2>4. b \o c = a \o <<new>>
    <3>1. StreamOf(out') = out.wire \o Bytes(new)
      BY <1>1, <1>4 DEF Appends
    <3>2. b \o c = Messages(StreamOf(out')) /\ Messages(out.wire \o Bytes(new)) = a \o <<new>>
      BY <1>1, <2>1, MessagesConcat DEF StreamOf
    <3>. QED BY <3>1, <3>2
  <2>5. Promise!IsPrefix(a, b)
    <3>1. \E u \in Seq(Byte) : out'.wire = out.wire \o u
      <4>1. CASE peerOpen BY <4>1 DEF Sends
      <4>2. CASE ~peerOpen
        BY <1>1, <4>2, EmptyFramed, ConcatEmptySeq DEF Sends
      <4>. QED BY <4>1, <4>2
    <3>. QED BY <1>1, <3>1, MessagesPrefix
  <2>. HIDE DEF a, b, c
  <2>. DEFINE s == a \o <<old>>
              t == a \o <<new>>
  <2>6. /\ Len(s) = Len(t)
        /\ Promise!IsPrefix(Promise!Front(s), t)
        /\ Promise!Last(s) = old /\ Promise!Last(t) = new
    <3>1. /\ <<old>> \in Seq(Message) /\ <<new>> \in Seq(Message)
          /\ Len(<<old>>) = 1 /\ Len(<<new>>) = 1 /\ <<old>>[1] = old /\ <<new>>[1] = new
          /\ Len(a) \in Nat
      BY <2>2
    <3>2. /\ s \in Seq(Message) /\ Len(s) = Len(a) + 1
          /\ \A i \in 1 .. Len(a) : s[i] = a[i]
          /\ s[Len(a) + 1] = old
      BY <2>2, <3>1, ConcatProperties
    <3>3. /\ t \in Seq(Message) /\ Len(t) = Len(a) + 1
          /\ \A i \in 1 .. Len(a) : t[i] = a[i]
          /\ t[Len(a) + 1] = new
      BY <2>2, <3>1, ConcatProperties
    <3>. HIDE DEF s, t
    <3>4. SubSeq(s, 1, Len(s) - 1) = a
      BY <2>2, <3>1, <3>2
    <3>5. SubSeq(a, 1, Len(a)) = SubSeq(t, 1, Len(a)) /\ Len(a) <= Len(t)
      BY <2>2, <3>1, <3>3
    <3>. QED BY <3>1, <3>2, <3>3, <3>4, <3>5
             DEF Promise!IsPrefix, Promise!Front, Promise!Last
  <2>7. Promise!Last(<<old>>) = old /\ <<old>> # <<>>
    BY DEF Promise!Last
  <2>8. /\ Len(b \o c) = Len(s)
        /\ Promise!IsPrefix(Promise!Front(s), b \o c)
        /\ Promise!IsMove(Promise!Last(b \o c))
        /\ Promise!Last(b \o c).arg = Promise!Last(s).arg
        /\ Promise!IsMove(Promise!Last(<<old>>))
    BY <2>4, <2>6, <2>7 DEF Promise!IsMove
  <2>9. out'.terminated = out.terminated
    BY <1>1, <1>4
  <2>. QED
    BY <1>4, <2>3, <2>5, <2>7, <2>8, <2>9
    DEF Promise!StreamNext, Promise!CoalesceMove, a, b, c
<1>. QED BY <1>2, <1>3, <1>4

-----------------------------------------------------------------------------
\* A write state with a buffer that is not too full, and what follows from it.
Fits(o) == o \in Output /\ Len(o.buffer) <= BUFFER_SIZE

Gives(r, o, bytes) == Fits(r) /\ Appends(r, o, bytes) /\ Sends(r, o)

LEMMA WritesGive ==
    ASSUME peerOpen \in BOOLEAN, NEW o, Fits(o), NEW bytes \in Seq(Byte)
    PROVE  /\ Gives(WriteBuffer(o), o, <<>>)
           /\ Gives(WriteBufferedBytes(o, bytes), o, bytes)
           /\ Gives(WriteBytes(o, bytes), o, bytes)
<1>1. o \in Output /\ Len(o.buffer) <= BUFFER_SIZE /\ Len(<<>>) <= BUFFER_SIZE
  BY SizeAssumption DEF Fits
<1>2. Fits(WriteBuffer(o))
  BY <1>1, WriteBufferMoves DEF Fits
<1>3. Fits(WriteBufferedBytes(o, bytes))
  BY <1>1, WriteBufferedMoves DEF Fits
<1>4. Fits(WriteBytes(o, bytes))
  BY <1>1, WriteBytesMoves DEF Fits
<1>5. Gives(WriteBuffer(o), o, <<>>)
  BY <1>1, <1>2, WriteBufferAppends, WriteBufferSends DEF Gives
<1>6. Gives(WriteBufferedBytes(o, bytes), o, bytes)
  BY <1>1, <1>3, WriteBufferedAppends, WriteBufferedSends DEF Gives
<1>7. Gives(WriteBytes(o, bytes), o, bytes)
  BY <1>1, <1>4, WriteBytesAppends, WriteBytesSends DEF Gives
<1>. QED BY <1>5, <1>6, <1>7

LEMMA GivesTwice ==
    ASSUME peerOpen \in BOOLEAN, NEW o, Fits(o), NEW a, NEW r,
           NEW h \in Seq(Byte), NEW t \in Seq(Byte), Gives(a, o, h), Gives(r, a, t)
    PROVE  Gives(r, o, h \o t) /\ h \o t \in Seq(Byte)
<1>1. o \in Output /\ h \o t \in Seq(Byte)
  BY ConcatProperties DEF Fits
<1>2. Appends(r, o, h \o t)
  BY <1>1, AppendsTwice DEF Gives
<1>3. Sends(r, o)
  BY <1>1, SendsTwice DEF Gives
<1>. QED BY <1>1, <1>2, <1>3 DEF Gives

\* Every handler but mouseAt submits bytes.
LEMMA HandlersSubmit ==
    ASSUME IInv,
           \/ \E p \in Positions, mask \in Masks, paste \in {"none", "cutText", "bigCutText"} :
                 MouseClickedAt(p, mask, paste)
           \/ \E k \in KeyEvents : SendKey(k)
           \/ EndInput
           \/ \E k \in {"request", "cutText", "bigCutText"} : SendNow(k)
           \/ EncodingsChanged
           \/ WriteSetDesktopSize
           \/ FrameBufferUpdateComplete
           \/ FrameBufferUpdateCompleteWithResize
    PROVE  out' \in Output /\ Submits
<1>1. /\ Fits(out) /\ peerOpen \in BOOLEAN /\ <<>> \in Seq(Byte)
      /\ Gives(out, out, <<>>)
  <2>1. Fits(out) /\ peerOpen \in BOOLEAN /\ <<>> \in Seq(Byte)
    BY InvOut, EmptyFramed DEF OutOK, Fits
  <2>2. StreamOf(out) \in Seq(Byte)
    BY <2>1, ConcatProperties DEF StreamOf, Output, Fits
  <2>3. Appends(out, out, <<>>)
    BY <2>2, ConcatEmptySeq DEF Appends
  <2>. QED BY <2>1, <2>3, SendsNothing DEF Gives, Fits
<1>2. \A k \in Kinds : Bytes(Plain(k)) \in Seq(Byte)
  BY MessagesBuilt, BytesFramed
<1>3. {"request", "cutText", "bigCutText", "encodings", "desktopSize"} \subseteq Kinds
  BY DEF Kinds
<1>4. \A k \in {"encodings", "desktopSize"} :
         /\ Slice(Plain(k), 1, 1) \in Seq(Byte)
         /\ Slice(Plain(k), 2, Size(Plain(k))) \in Seq(Byte)
  <2>1. \A k \in {"encodings", "desktopSize"} : Plain(k) \in Message /\ Size(Plain(k)) > 1
    BY MessagesBuilt, SizeAssumption DEF Kinds, Plain, Size
  <2>. QED BY <2>1, SlicesJoin
<1>. SUFFICES \E bytes \in Seq(Byte) : Gives(out', out, bytes)
  BY DEF Gives, Submits, Fits
<1>5. CASE \E p \in Positions, mask \in Masks, paste \in {"none", "cutText", "bigCutText"} :
              MouseClickedAt(p, mask, paste)
  <2>1. PICK p \in Positions, mask \in Masks, paste \in {"none", "cutText", "bigCutText"} :
           MouseClickedAt(p, mask, paste)
    BY <1>5
  <2>. DEFINE b == Bytes(Pointer("click", p, mask))
              before == IF paste = "none" THEN out ELSE WriteBytes(out, Bytes(Plain(paste)))
  <2>2. b \in Seq(Byte) /\ out' = WriteBufferedBytes(before, b)
    BY <2>1, MessagesBuilt, BytesFramed DEF MouseClickedAt
  <2>3. \E h \in Seq(Byte) : Gives(before, out, h)
    <3>1. CASE paste = "none" BY <1>1, <3>1
    <3>2. CASE paste # "none"
      <4>1. Bytes(Plain(paste)) \in Seq(Byte)
        BY <1>2, <1>3, <3>2
      <4>. QED BY <1>1, <3>2, <4>1, WritesGive
    <3>. QED BY <3>1, <3>2
  <2>. HIDE DEF b, before
  <2>4. PICK h \in Seq(Byte) : Gives(before, out, h)
    BY <2>3
  <2>5. Gives(out', before, b)
    BY <1>1, <2>2, <2>4, WritesGive DEF Gives
  <2>. QED BY <1>1, <2>2, <2>4, <2>5, GivesTwice
<1>6. CASE \E k \in KeyEvents : SendKey(k)
  <2>1. PICK k \in KeyEvents : out' = WriteBufferedBytes(out, Bytes(Key(k)))
    BY <1>6 DEF SendKey
  <2>2. Bytes(Key(k)) \in Seq(Byte)
    BY MessagesBuilt, BytesFramed
  <2>. QED BY <1>1, <2>1, <2>2, WritesGive
<1>7. CASE EndInput
  BY <1>1, <1>7, WritesGive DEF EndInput
<1>8. CASE \/ \E k \in {"request", "cutText", "bigCutText"} : SendNow(k)
           \/ FrameBufferUpdateCompleteWithResize
  <2>1. PICK k \in Kinds : out' = WriteBytes(out, Bytes(Plain(k)))
    BY <1>3, <1>8 DEF SendNow, FrameBufferUpdateCompleteWithResize
  <2>. QED BY <1>1, <1>2, <2>1, WritesGive
<1>9. CASE EncodingsChanged
  <2>. DEFINE h == Slice(Plain("encodings"), 1, 1)
              t == Slice(Plain("encodings"), 2, Size(Plain("encodings")))
              a == WriteBufferedBytes(out, h)
              c == WriteBufferedBytes(a, t)
  <2>1. h \in Seq(Byte) /\ t \in Seq(Byte) /\ out' = WriteBuffer(c)
    BY <1>4, <1>9 DEF EncodingsChanged
  <2>. HIDE DEF h, t
  <2>2. Gives(a, out, h)
    BY <1>1, <2>1, WritesGive
  <2>. HIDE DEF a
  <2>3. Gives(c, a, t)
    BY <1>1, <2>1, <2>2, WritesGive DEF Gives
  <2>. HIDE DEF c
  <2>4. Gives(c, out, h \o t) /\ h \o t \in Seq(Byte)
    BY <1>1, <2>1, <2>2, <2>3, GivesTwice
  <2>5. Gives(out', c, <<>>)
    BY <1>1, <2>1, <2>3, WritesGive DEF Gives
  <2>. QED BY <1>1, <2>4, <2>5, GivesTwice
<1>10. CASE WriteSetDesktopSize
  <2>. DEFINE h == Slice(Plain("desktopSize"), 1, 1)
              t == Slice(Plain("desktopSize"), 2, Size(Plain("desktopSize")))
              a == WriteBytes(out, h)
  <2>1. h \in Seq(Byte) /\ t \in Seq(Byte) /\ out' = WriteBytes(a, t)
    BY <1>4, <1>10 DEF WriteSetDesktopSize
  <2>. HIDE DEF h, t
  <2>2. Gives(a, out, h)
    BY <1>1, <2>1, WritesGive
  <2>. HIDE DEF a
  <2>3. Gives(out', a, t)
    BY <1>1, <2>1, <2>2, WritesGive DEF Gives
  <2>. QED BY <1>1, <2>1, <2>2, <2>3, GivesTwice
<1>11. CASE FrameBufferUpdateComplete
  <2>1. PICK requested \in BOOLEAN :
           out' = WriteBuffer(IF requested THEN WriteBytes(out, Bytes(Plain("request")))
                              ELSE out)
    BY <1>11 DEF FrameBufferUpdateComplete
  <2>. DEFINE a == IF requested THEN WriteBytes(out, Bytes(Plain("request"))) ELSE out
  <2>2. PICK h \in Seq(Byte) : Gives(a, out, h)
    BY <1>1, <1>2, <1>3, WritesGive
  <2>3. out' = WriteBuffer(a)
    BY <2>1
  <2>. HIDE DEF a
  <2>4. Gives(out', a, <<>>)
    BY <1>1, <2>2, <2>3, WritesGive DEF Gives
  <2>. QED BY <1>1, <2>2, <2>4, GivesTwice
<1>. QED BY <1>5, <1>6, <1>7, <1>8, <1>9, <1>10, <1>11

\* mouseAt submits a movement, or puts it in the place of the one it drops.
LEMMA MouseAtKeepsPromise ==
    ASSUME IInv, NoPeerLeft, NEW p \in Positions, MouseAt(p)
    PROVE  Promise!StreamNext /\ (NoPeerLeft)'
<1>. DEFINE m == Pointer("move", p, buttons)
            rest == DropLastMove(out)
            w == IF isReceivingUpdate THEN WriteBufferedBytes(rest, Bytes(m))
                 ELSE WriteBytes(rest, Bytes(m))
<1>1. /\ out \in Output /\ Fits(out) /\ peerOpen \in BOOLEAN /\ buttons \in Masks
      /\ out.buffer \in Seq(Byte) /\ WellFramed(out.buffer) /\ Len(<<>>) <= BUFFER_SIZE
      /\ <<>> \in Seq(Byte)
  BY InvOut, SizeAssumption, EmptyFramed DEF OutOK, IInv, TypeOK, Fits, Output
<1>2. m \in Message /\ m.kind = "move" /\ m.arg = buttons /\ Bytes(m) \in Seq(Byte)
  BY <1>1, MessagesBuilt, BytesFramed DEF Pointer
<1>3. out' = [w EXCEPT !.moveLast = isReceivingUpdate]
  BY DEF MouseAt, IInv, TypeOK
<1>4. Fits(rest) => out' \in Output /\ Gives(out', rest, Bytes(m))
  <2>. SUFFICES ASSUME Fits(rest) PROVE out' \in Output /\ Gives(out', rest, Bytes(m))
    OBVIOUS
  <2>. HIDE DEF rest, m
  <2>1. Gives(w, rest, Bytes(m))
    BY <1>1, <1>2, WritesGive
  <2>. HIDE DEF w
  <2>2. w \in Output /\ isReceivingUpdate \in BOOLEAN
    BY <2>1 DEF Gives, Fits, IInv, TypeOK
  <2>3. /\ out' \in Output /\ out'.wire = w.wire /\ out'.buffer = w.buffer
        /\ out'.terminated = w.terminated
    BY <1>3, <2>2 DEF Output
  <2>. QED BY <2>1, <2>3 DEF Gives, Fits, Appends, Sends, StreamOf
<1>5. CASE out.moveLast
  <2>. DEFINE n == Len(out.buffer)
              last == out.buffer[n]
              old == last.msg
  <2>1. out.buffer # <<>> /\ old.kind = "move" /\ old.arg = buttons
    BY <1>5 DEF IInv, MoveLastIsMove
  <2>2. n = MsgSize["move"] /\ n \in Nat \ {0}
    BY <2>1, <1>1, EmptySeq, SizeAssumption DEF IInv, NothingWaits, MouseAt, Kinds
  <2>3. last \in Byte /\ old \in Message /\ Size(old) = n
    <3>1. n \in 1 .. Len(out.buffer)
      BY <2>2
    <3>2. last \in Byte
      BY <1>1, <3>1, ElementOfSeq
    <3>. QED BY <2>1, <2>2, <3>2 DEF Byte, Size
  <2>4. out.buffer = Bytes(old)
    <3>1. /\ n - last.at \in 0 .. n - n
          /\ \A k \in 1 .. n : out.buffer[n - last.at + k] = [msg |-> old, at |-> k]
      BY <1>1, <2>2, <2>3 DEF WellFramed
    <3>2. \A k \in 1 .. n : out.buffer[k] = [msg |-> old, at |-> k]
      <4>. DEFINE d == n - last.at
      <4>1. d = 0
        BY <2>2, <3>1
      <4>2. \A k \in 1 .. n : out.buffer[d + k] = [msg |-> old, at |-> k]
        BY <3>1
      <4>. HIDE DEF d, n, old
      <4>. QED BY <2>2, <4>1, <4>2
    <3>3. /\ Bytes(old) \in Seq(Byte) /\ Len(Bytes(old)) = n
          /\ \A k \in 1 .. n : Bytes(old)[k] = [msg |-> old, at |-> k]
      BY <2>3, BytesFramed
    <3>. DEFINE x == out.buffer
                y == Bytes(old)
    <3>4. /\ x \in Seq(Byte) /\ y \in Seq(Byte) /\ Len(x) = Len(y)
          /\ \A i \in 1 .. Len(x) : x[i] = y[i]
      BY <1>1, <3>2, <3>3
    <3>. HIDE DEF x, y
    <3>. QED BY <3>4, SeqEqual DEF x, y
  <2>5. /\ rest \in Output /\ rest.buffer = <<>> /\ rest.wire = out.wire
        /\ rest.terminated = out.terminated
    <3>1. SubSeq(out.buffer, 1, n - MsgSize["move"]) = <<>>
      BY <2>2, SubSeqEmpty
    <3>2. rest = [out EXCEPT !.buffer = <<>>]
      BY <1>5, <3>1 DEF DropLastMove
    <3>. QED BY <1>1, <3>2 DEF Output
  <2>. HIDE DEF rest, m, old
  <2>6. out' \in Output /\ Appends(out', rest, Bytes(m)) /\ Sends(out', rest)
    BY <1>1, <1>4, <2>5 DEF Fits, Gives
  <2>7. Promise!StreamNext
    BY <1>2, <2>1, <2>3, <2>4, <2>5, <2>6, ReplacementKeepsPromise
  <2>8. NoPeerLeft'
    BY <1>1, <2>5, <2>6 DEF Sends, NoPeerLeft, MouseAt
  <2>. QED BY <2>7, <2>8
<1>6. CASE ~out.moveLast
  <2>1. rest = out
    BY <1>6 DEF DropLastMove
  <2>. HIDE DEF rest, m
  <2>2. out' \in Output /\ Submits /\ Sends(out', out)
    BY <1>1, <1>2, <1>4, <2>1 DEF Gives, Submits
  <2>. QED BY <1>1, <2>2, SubmitsKeepsPromise DEF Sends, NoPeerLeft, MouseAt
<1>. QED BY <1>5, <1>6

\* Every step of the writer is a step of the promise, or changes nothing in it.
LEMMA StepKeepsPromise ==
    ASSUME IInv, NoPeerLeft, [Next]_vars
    PROVE  NoPeerLeft' /\ [Promise!StreamNext]_(Promise!streamVars)
<1>1. peerOpen \in BOOLEAN
  BY InvOut
<1>2. CASE \E p \in Positions : MouseAt(p)
  BY <1>2, MouseAtKeepsPromise
<1>3. CASE \/ \E p \in Positions, mask \in Masks, paste \in {"none", "cutText", "bigCutText"} :
                 MouseClickedAt(p, mask, paste)
           \/ \E k \in KeyEvents : SendKey(k)
           \/ EndInput
           \/ \E k \in {"request", "cutText", "bigCutText"} : SendNow(k)
           \/ EncodingsChanged
           \/ WriteSetDesktopSize
           \/ FrameBufferUpdateComplete
           \/ FrameBufferUpdateCompleteWithResize
  <2>1. out' \in Output /\ Submits
    BY <1>3, HandlersSubmit
  <2>2. peerOpen' = peerOpen
    BY <1>3 DEF MouseClickedAt, SendKey, EndInput, SendNow, EncodingsChanged,
                WriteSetDesktopSize, FrameBufferUpdateComplete,
                FrameBufferUpdateCompleteWithResize
  <2>3. NoPeerLeft'
    BY <1>1, <2>1, <2>2 DEF Submits, Sends, NoPeerLeft
  <2>. QED BY <2>1, <2>3, SubmitsKeepsPromise
<1>4. CASE BeginInput \/ FrameBufferUpdateBeginning \/ PeerCloses \/ UNCHANGED vars
  <2>1. out' = out /\ (~peerOpen => ~peerOpen')
    BY <1>4 DEF BeginInput, FrameBufferUpdateBeginning, PeerCloses, vars
  <2>. QED BY <2>1 DEF NoPeerLeft, Promise!streamVars
<1>. QED BY <1>2, <1>3, <1>4 DEF Next

\* The write side of RFBConnection (its buffer, the writes that bypass it and
\* the movements it drops) implements OutputStream: whatever it does, messages
\* leave whole and in the order they were submitted, and only an unsent
\* movement is replaced, by another made with the same buttons held.
THEOREM Refinement == Spec => ImplementsOutputStream
<1>1. Init => NoPeerLeft /\ Promise!StreamInit
  BY MessagesOf DEF Init, NoPeerLeft, Promise!StreamInit
<1>2. IInv /\ NoPeerLeft /\ [Next]_vars =>
        NoPeerLeft' /\ [Promise!StreamNext]_(Promise!streamVars)
  BY StepKeepsPromise
<1>. QED
  BY Invariance, <1>1, <1>2, PTL DEF Spec, ImplementsOutputStream, Promise!StreamSpec

=============================================================================
