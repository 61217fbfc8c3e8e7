------------------------- MODULE EventFilterProofs -------------------------
(***************************************************************************)
(* Theorems about EventFilter: types, that a window that is not the key    *)
(* window leaves nothing pressed and nothing under way, that the server is *)
(* left with no modifier, no key and, but for those that are lost, no      *)
(* button that is not held here, and which taps time out.  They hold for   *)
(* every mouse, every profile, every keyboard and every string pasted.     *)
(*                                                                         *)
(* The loops of the filter are recursive functions.  What they compute is  *)
(* shown by induction in the form of InductionTo, about a set of numbers.  *)
(***************************************************************************)
EXTENDS EventFilter, TLAPS, WellFoundedInduction, SequenceTheorems,
        FiniteSetTheorems

-----------------------------------------------------------------------------
(* Induction and recursion.                                                *)

Less == {p \in Nat \X Nat : p[1] < p[2]}

LEMMA LessIsWellFounded == IsWellFoundedOn(Less, Nat)
<1>1. OpToRel(<, Nat) = Less
  BY Zenon DEF OpToRel, Less
<1> QED
  BY <1>1, NatLessThanWellFounded, Zenon

\* A set of numbers that is not empty has a least one.
LEMMA LeastOf ==
    ASSUME NEW T, T \subseteq Nat, T # {}
    PROVE  \E x \in T : \A y \in T : ~(y < x)
<1>1. PICK x \in T : \A y \in T : <<y, x>> \notin Less
  BY LessIsWellFounded, WFMin
<1>2. \A y \in T : ~(y < x)
  BY <1>1 DEF Less
<1> QED
  BY <1>2

LEMMA InductionTo ==
    ASSUME NEW n \in Nat, NEW G, 0 \in G,
           \A i \in 1 .. n : i - 1 \in G => i \in G
    PROVE  \A i \in 0 .. n : i \in G
<1> SUFFICES ASSUME \E i \in 0 .. n : i \notin G PROVE FALSE
  OBVIOUS
<1> DEFINE T == {i \in 0 .. n : i \notin G}
<1>1. T \subseteq Nat /\ T # {}
  OBVIOUS
<1>2. PICK x \in T : \A y \in T : ~(y < x)
  <2> HIDE DEF T
  <2> QED
    BY <1>1, LeastOf
<1>3. x \in 1 .. n /\ x - 1 \in 0 .. n
  BY <1>2
<1>4. x - 1 \notin T
  BY <1>2, <1>3
<1> QED
  BY <1>2, <1>3, <1>4

\* A loop that takes x through n steps, none of which leaves S.
Loops(S, n, x, step) ==
    \E g \in [0 .. n -> S] :
       g[0] = x /\ \A i \in 1 .. n : g[i] = step[i][g[i - 1]]

LEMMA Recursion ==
    ASSUME NEW S, NEW n \in Nat, NEW x \in S,
           NEW step \in [1 .. n -> [S -> S]]
    PROVE  Loops(S, n, x, step)
<1> DEFINE By(k, g) ==
              g[0] = x /\ \A i \in 1 .. k : g[i] = step[i][g[i - 1]]
           G == {k \in 0 .. n : \E g \in [0 .. k -> S] : By(k, g)}
<1>1. 0 \in G
  <2> DEFINE h == [i \in 0 .. 0 |-> x]
  <2>1. h \in [0 .. 0 -> S] /\ h[0] = x
    OBVIOUS
  <2>2. \A i \in 1 .. 0 : h[i] = step[i][h[i - 1]]
    OBVIOUS
  <2> HIDE DEF h
  <2>3. By(0, h)
    BY <2>1, <2>2
  <2>4. 0 \in 0 .. n
    OBVIOUS
  <2> HIDE DEF By
  <2> QED
    BY <2>1, <2>3, <2>4
<1>2. ASSUME NEW k \in 1 .. n, k - 1 \in G PROVE k \in G
  <2>1. PICK g \in [0 .. k - 1 -> S] : By(k - 1, g)
    BY <1>2
  <2> DEFINE h == [i \in 0 .. k |-> IF i = k THEN step[k][g[k - 1]]
                                             ELSE g[i]]
  <2>2. step[k][g[k - 1]] \in S
    OBVIOUS
  <2>3. h \in [0 .. k -> S]
    BY <2>2
  <2>4. h[0] = x
    BY <2>1
  <2>5. ASSUME NEW i \in 1 .. k PROVE h[i] = step[i][h[i - 1]]
    <3>1. h[i - 1] = g[i - 1]
      OBVIOUS
    <3>2. CASE i = k
      <4>1. h[i] = step[k][g[k - 1]]
        BY <3>2
      <4> HIDE DEF h
      <4> QED
        BY <4>1, <3>1, <3>2
    <3>3. CASE i # k
      <4>1. i \in 1 .. k - 1 /\ h[i] = g[i]
        BY <3>3
      <4>2. g[i] = step[i][g[i - 1]]
        BY <4>1, <2>1
      <4> HIDE DEF h
      <4> QED
        BY <4>1, <4>2, <3>1
    <3> QED
      BY <3>2, <3>3
  <2> HIDE DEF h
  <2> QED
    BY <2>3, <2>4, <2>5
<1>3. \A i \in 0 .. n : i \in G
  <2> HIDE DEF G
  <2> QED
    BY <1>1, <1>2, InductionTo
<1>4. n \in G
  BY <1>3
<1> QED
  BY <1>4 DEF Loops

-----------------------------------------------------------------------------
(* What is held down, and what an event makes of it.                       *)

Kinds == {"button", "key", "modifier"}

Pressed(s, what) ==
    CASE what = "button" -> s.pressedButtons
      [] what = "key" -> s.pressedKeys
      [] what = "modifier" -> s.pressedModifiers

After(P, e, what) ==
    IF e.what # what THEN P
    ELSE IF e.down THEN P \cup {e.arg} ELSE P \ {e.arg}

\* The server knows what the filter has told it.
Mirrors(s) ==
    s.server = [buttons |-> s.pressedButtons, keys |-> s.pressedKeys,
                modifiers |-> s.pressedModifiers]

\* t differs from s at most in what was sent.
SentFrom(s, t) ==
    /\ t \in Filter
    /\ t.pending = s.pending /\ t.queued = s.queued
    /\ t.emulationButton = s.emulationButton /\ t.stillDown = s.stillDown
    /\ t.multiTapTimer = s.multiTapTimer /\ t.tapTimer = s.tapTimer
    /\ t.watch = s.watch /\ t.viewOnly = s.viewOnly /\ t.profile = s.profile

LEMMA SendPointerDoes ==
    ASSUME NEW s \in Filter, NEW B \in SUBSET (1 .. 3),
           NEW t, t = SendPointer([s EXCEPT !.pressedButtons = B], B)
    PROVE  /\ SentFrom(s, t)
           /\ Mirrors(s) => Mirrors(t)
           /\ t.pressedButtons = B
           /\ t.pressedKeys = s.pressedKeys
           /\ t.pressedModifiers = s.pressedModifiers
<1> DEFINE m == [what |-> "button", buttons |-> B]
<1>1. m \in Message
  BY DEF Message
<1>2. Append(s.out, m) \in Seq(Message)
  <2> HIDE DEF m
  <2> QED
    BY <1>1, AppendProperties DEF Filter
<1> DEFINE told == [s.server EXCEPT !.buttons = B]
<1>3. t = [s EXCEPT !.pressedButtons = B, !.server = told,
                    !.out = Append(@, m)]
  BY DEF SendPointer, Filter
<1>7. told \in Server
  BY DEF Filter, Server
<1>8. t.server = told /\ t.pressedButtons = B /\ t.pressedKeys = s.pressedKeys
      /\ t.pressedModifiers = s.pressedModifiers
  BY <1>3 DEF Filter
<1>5. Mirrors(s) => Mirrors(t)
  BY <1>8 DEF Mirrors
<1> HIDE DEF m, told
<1>4. t \in Filter
  BY <1>2, <1>3, <1>7 DEF Filter
<1>6. SentFrom(s, t) /\ t.pressedButtons = B /\ t.pressedKeys = s.pressedKeys
      /\ t.pressedModifiers = s.pressedModifiers
  BY <1>3, <1>4 DEF SentFrom, Filter
<1> QED
  BY <1>5, <1>6

\* t differs from s in the keys that are pressed, which are K.
OnlyKeys(s, K, t) ==
    /\ SentFrom(s, t)
    /\ Mirrors(s) => Mirrors(t)
    /\ t.pressedButtons = s.pressedButtons /\ t.pressedKeys = K
    /\ t.pressedModifiers = s.pressedModifiers

LEMMA SendKeyDoes ==
    ASSUME NEW s \in Filter, NEW K \in SUBSET Characters, NEW c \in Characters,
           NEW d \in BOOLEAN,
           d => K = s.pressedKeys \cup {c},
           ~d => K = s.pressedKeys \ {c},
           NEW t, t = SendKey([s EXCEPT !.pressedKeys = K], c, d)
    PROVE  OnlyKeys(s, K, t)
<1> DEFINE m == [what |-> "key", arg |-> c, down |-> d,
                 shift |-> "shift" \in s.server.modifiers]
           keys == IF d THEN s.server.keys \cup {c} ELSE s.server.keys \ {c}
<1>1. m \in Message
  BY DEF Message
<1>2. Append(s.out, m) \in Seq(Message)
  <2> HIDE DEF m
  <2> QED
    BY <1>1, AppendProperties DEF Filter
<1> DEFINE told == [s.server EXCEPT !.keys = keys]
<1>3. t = [s EXCEPT !.pressedKeys = K, !.server = told, !.out = Append(@, m)]
  BY DEF SendKey, Filter
<1>4. s.server \in Server
  BY DEF Filter
<1>5. told \in Server
  BY <1>4 DEF Server
<1>6. t.server = told /\ t.pressedKeys = K
      /\ t.pressedButtons = s.pressedButtons
      /\ t.pressedModifiers = s.pressedModifiers
  BY <1>3 DEF Filter
<1>7. Mirrors(s) => Mirrors(t)
  BY <1>6 DEF Mirrors
<1> HIDE DEF m, told
<1>8. t \in Filter
  BY <1>2, <1>3, <1>5 DEF Filter
<1>9. SentFrom(s, t)
  BY <1>3, <1>8 DEF SentFrom, Filter
<1> QED
  BY <1>6, <1>7, <1>9 DEF OnlyKeys

LEMMA SendModifierDoes ==
    ASSUME NEW s \in Filter, NEW M \in SUBSET Flags, NEW c \in Modifiers,
           NEW d \in BOOLEAN,
           d => M = s.pressedModifiers \cup {c},
           ~d => M = s.pressedModifiers \ {c},
           NEW t, t = SendModifier([s EXCEPT !.pressedModifiers = M], c, d)
    PROVE  /\ SentFrom(s, t)
           /\ Mirrors(s) => Mirrors(t)
           /\ t.pressedButtons = s.pressedButtons
           /\ t.pressedKeys = s.pressedKeys
           /\ t.pressedModifiers = M
<1> DEFINE m == [what |-> "modifier", arg |-> c, down |-> d]
           mods == IF d THEN s.server.modifiers \cup {c}
                        ELSE s.server.modifiers \ {c}
<1>1. m \in Message
  BY DEF Message
<1>2. Append(s.out, m) \in Seq(Message)
  <2> HIDE DEF m
  <2> QED
    BY <1>1, AppendProperties DEF Filter
<1> DEFINE told == [s.server EXCEPT !.modifiers = mods]
<1>3. t = [s EXCEPT !.pressedModifiers = M, !.server = told,
                    !.out = Append(@, m)]
  BY DEF SendModifier, Filter
<1>4. s.server \in Server
  BY DEF Filter
<1>5. told \in Server
  BY <1>4 DEF Server, Flags
<1>6. t.server = told /\ t.pressedModifiers = M
      /\ t.pressedButtons = s.pressedButtons
      /\ t.pressedKeys = s.pressedKeys
  BY <1>3 DEF Filter
<1>7. Mirrors(s) => Mirrors(t)
  BY <1>6 DEF Mirrors
<1> HIDE DEF m, told
<1>8. t \in Filter
  BY <1>2, <1>3, <1>5 DEF Filter
<1>9. SentFrom(s, t)
  BY <1>3, <1>8 DEF SentFrom, Filter
<1> QED
  BY <1>6, <1>7, <1>9

LEMMA SendEventDoes ==
    ASSUME NEW s \in Filter, NEW e \in Event
    PROVE  LET t == SendEvent(s, e)
           IN  /\ SentFrom(s, t)
               /\ Mirrors(s) => Mirrors(t)
               /\ s.viewOnly => t = s
               /\ ~s.viewOnly => \A what \in Kinds :
                     Pressed(t, what) = After(Pressed(s, what), e, what)
<1> DEFINE t == SendEvent(s, e)
<1>0. SentFrom(s, s)
  BY DEF SentFrom
<1>1. CASE s.viewOnly
  BY <1>0, <1>1 DEF SendEvent, Filter
<1>2. CASE ~s.viewOnly /\ e.what = "button"
  <2> DEFINE B == IF e.down THEN s.pressedButtons \cup {e.arg}
                            ELSE s.pressedButtons \ {e.arg}
  <2>1. t = SendMouseEvent(s, e) /\ e.arg \in 1 .. 3
    BY <1>2 DEF SendEvent, Event
  <2>2. B \in SUBSET (1 .. 3) /\ B = After(s.pressedButtons, e, "button")
    BY <1>2, <2>1 DEF Filter, After
  <2>3. /\ SentFrom(s, t) /\ t.pressedButtons = B
        /\ t.pressedKeys = s.pressedKeys
        /\ t.pressedModifiers = s.pressedModifiers
        /\ Mirrors(s) => Mirrors(t)
    <3>1. CASE B = s.pressedButtons
      <4>1. t = s
        BY <2>1, <3>1 DEF SendMouseEvent
      <4> QED
        BY <4>1, <1>0, <3>1
    <3>2. CASE B # s.pressedButtons
      <4>1. t = SendPointer([s EXCEPT !.pressedButtons = B], B)
        BY <2>1, <3>2 DEF SendMouseEvent
      <4> HIDE DEF B, t
      <4> QED
        BY <4>1, <2>2, SendPointerDoes
    <3> QED
      BY <3>1, <3>2
  <2> HIDE DEF B, t
  <2>4. \A what \in Kinds :
            Pressed(t, what) = After(Pressed(s, what), e, what)
    BY <1>2, <2>2, <2>3 DEF Kinds, Pressed, After
  <2> QED
    BY <1>2, <2>3, <2>4 DEF t
<1>3. CASE ~s.viewOnly /\ e.what = "key"
  <2> DEFINE K == IF e.down THEN s.pressedKeys \cup {e.arg}
                            ELSE s.pressedKeys \ {e.arg}
  <2>1. t = SendKeyEvent(s, e) /\ e.arg \in Characters /\ e.down \in BOOLEAN
    BY <1>3 DEF SendEvent, Event
  <2>2. K \in SUBSET Characters /\ K = After(s.pressedKeys, e, "key")
    BY <1>3, <2>1 DEF Filter, After
  <2>3. /\ SentFrom(s, t) /\ t.pressedKeys = K
        /\ t.pressedButtons = s.pressedButtons
        /\ t.pressedModifiers = s.pressedModifiers
        /\ Mirrors(s) => Mirrors(t)
    <3>1. CASE ~e.down /\ e.arg \notin s.pressedKeys
      <4>1. t = s /\ K = s.pressedKeys
        BY <1>3, <2>1, <3>1 DEF SendKeyEvent
      <4> QED
        BY <4>1, <1>0
    <3>2. CASE e.down \/ e.arg \in s.pressedKeys
      <4>1. t = SendKey([s EXCEPT !.pressedKeys = K], e.arg, e.down)
        BY <1>3, <2>1, <3>2 DEF SendKeyEvent
      <4>2. /\ e.down => K = s.pressedKeys \cup {e.arg}
            /\ ~e.down => K = s.pressedKeys \ {e.arg}
        OBVIOUS
      <4> HIDE DEF K, t
      <4>3. \A c, d : c = e.arg /\ d = e.down =>
               t = SendKey([s EXCEPT !.pressedKeys = K], c, d)
        BY <4>1
      <4> DEFINE c == e.arg
                 d == e.down
      <4>4. c \in Characters /\ d \in BOOLEAN /\ (d => K = s.pressedKeys \cup {c})
            /\ (~d => K = s.pressedKeys \ {c})
            /\ t = SendKey([s EXCEPT !.pressedKeys = K], c, d)
        BY <2>1, <4>2, <4>3
      <4> HIDE DEF c, d
      <4> QED
        BY <4>4, <2>2, SendKeyDoes DEF OnlyKeys
    <3> QED
      BY <3>1, <3>2
  <2> HIDE DEF K, t
  <2>4. \A what \in Kinds :
            Pressed(t, what) = After(Pressed(s, what), e, what)
    BY <1>3, <2>2, <2>3 DEF Kinds, Pressed, After
  <2> QED
    BY <1>3, <2>3, <2>4 DEF t
<1>4. CASE ~s.viewOnly /\ e.what = "modifier"
  <2> DEFINE M == IF e.down THEN s.pressedModifiers \cup {e.arg}
                            ELSE s.pressedModifiers \ {e.arg}
  <2>1. t = SendModifierEvent(s, e) /\ e.arg \in Modifiers
        /\ e.down \in BOOLEAN
    BY <1>4 DEF SendEvent, Event
  <2>2. M \in SUBSET Flags /\ M = After(s.pressedModifiers, e, "modifier")
    BY <1>4, <2>1 DEF Filter, After, Flags
  <2>3. /\ SentFrom(s, t) /\ t.pressedModifiers = M
        /\ t.pressedButtons = s.pressedButtons
        /\ t.pressedKeys = s.pressedKeys
        /\ Mirrors(s) => Mirrors(t)
    <3>1. CASE ~e.down /\ e.arg \notin s.pressedModifiers
      <4>1. t = s /\ M = s.pressedModifiers
        BY <2>1, <3>1 DEF SendModifierEvent
      <4> QED
        BY <4>1, <1>0
    <3>2. CASE e.down \/ e.arg \in s.pressedModifiers
      <4>1. t = SendModifier([s EXCEPT !.pressedModifiers = M], e.arg, e.down)
        BY <2>1, <3>2 DEF SendModifierEvent
      <4>2. /\ e.down => M = s.pressedModifiers \cup {e.arg}
            /\ ~e.down => M = s.pressedModifiers \ {e.arg}
        OBVIOUS
      <4> HIDE DEF M, t
      <4>3. \A c, d : c = e.arg /\ d = e.down =>
               t = SendModifier([s EXCEPT !.pressedModifiers = M], c, d)
        BY <4>1
      <4> DEFINE c == e.arg
                 d == e.down
      <4>4. c \in Modifiers /\ d \in BOOLEAN /\ (d => M = s.pressedModifiers \cup {c})
            /\ (~d => M = s.pressedModifiers \ {c})
            /\ t = SendModifier([s EXCEPT !.pressedModifiers = M], c, d)
        BY <2>1, <4>2, <4>3
      <4> HIDE DEF c, d
      <4> QED
        BY <4>4, <2>2, SendModifierDoes
    <3> QED
      BY <3>1, <3>2
  <2> HIDE DEF M, t
  <2>4. \A what \in Kinds :
            Pressed(t, what) = After(Pressed(s, what), e, what)
    BY <1>4, <2>2, <2>3 DEF Kinds, Pressed, After
  <2> QED
    BY <1>4, <2>3, <2>4 DEF t
<1>5. e.what \in Kinds
  BY DEF Event, Kinds
<1> QED
  BY <1>1, <1>2, <1>3, <1>4, <1>5 DEF Kinds

LEMMA SendEventType ==
    ASSUME NEW s \in Filter, NEW e \in Event
    PROVE  SendEvent(s, e) \in Filter
BY SendEventDoes DEF SentFrom

LEMMA SentSteps ==
    ASSUME NEW s \in Filter, NEW n \in 0 .. Len(s.pending)
    PROVE  \E g \in [0 .. n -> Filter] :
              /\ g[0] = s
              /\ \A i \in 1 .. n : g[i] = SendEvent(g[i - 1], s.pending[i])
              /\ Sent(s, n) = g[n]
<1> DEFINE step == [i \in 1 .. n |->
                       [t \in Filter |-> SendEvent(t, s.pending[i])]]
           Good(g) == g = [i \in 0 .. n |->
                             IF i = 0 THEN s
                             ELSE SendEvent(g[i - 1], s.pending[i])]
<1>1. n \in Nat /\ \A i \in 1 .. n : s.pending[i] \in Event
  BY DEF Filter
<1>2. step \in [1 .. n -> [Filter -> Filter]]
  BY <1>1, SendEventType
<1>3. Loops(Filter, n, s, step)
  <2> HIDE DEF step
  <2>1. n \in Nat
    BY <1>1
  <2> QED
    BY <2>1, <1>2, Recursion
<1> PICK g \in [0 .. n -> Filter] :
          g[0] = s /\ \A i \in 1 .. n : g[i] = step[i][g[i - 1]]
  BY <1>3 DEF Loops
<1>4. ASSUME NEW i \in 1 .. n PROVE g[i] = SendEvent(g[i - 1], s.pending[i])
  <2>1. i - 1 \in 0 .. n
    OBVIOUS
  <2>2. g[i - 1] \in Filter /\ g[i] = step[i][g[i - 1]]
    BY <2>1
  <2> QED
    BY <2>2
<1>5. Good(g)
  BY <1>1, <1>3, <1>4
<1>6. Sent(s, n) = (CHOOSE h : Good(h))[n]
  BY Zenon DEF Sent
<1> DEFINE c == CHOOSE h : Good(h)
<1>7. Good(c)
  <2> HIDE DEF Good
  <2> QED
    BY <1>5
<1>8. c[0] = s /\ \A i \in 1 .. n : c[i] = SendEvent(c[i - 1], s.pending[i])
  <2> HIDE DEF c
  <2> QED
    BY <1>1, <1>7
<1>9. \A i \in 0 .. n : c[i] \in Filter
  <2> DEFINE G == {i \in 0 .. n : c[i] \in Filter}
  <2> HIDE DEF c
  <2>1. 0 \in G
    BY <1>1, <1>8
  <2>2. ASSUME NEW i \in 1 .. n, i - 1 \in G PROVE i \in G
    BY <2>2, <1>1, <1>8, SendEventType
  <2>3. \A i \in 0 .. n : i \in G
    <3> HIDE DEF G
    <3> QED
      BY <1>1, <2>1, <2>2, InductionTo
  <2> QED
    BY <2>3
<1>10. c \in [0 .. n -> Filter]
  <2> HIDE DEF c
  <2> QED
    BY <1>7, <1>9
<1>11. Sent(s, n) = c[n]
  BY <1>6
<1> HIDE DEF c
<1> QED
  BY <1>8, <1>10, <1>11
-----------------------------------------------------------------------------
(* What is still held when the first n events of q have been sent, if P is *)
(* held before.                                                            *)

StillHeld(P, q, n, what, x) ==
    \/ x \in P /\ \A j \in 1 .. n : ~Is(q[j], what, x, FALSE)
    \/ \E i \in 1 .. n : /\ Is(q[i], what, x, TRUE)
                         /\ \A j \in i + 1 .. n : ~Is(q[j], what, x, FALSE)

LEMMA StillHeldNone ==
    ASSUME NEW P, NEW q, NEW what, NEW x
    PROVE  StillHeld(P, q, 0, what, x) <=> x \in P
BY DEF StillHeld

LEMMA StillHeldNext ==
    ASSUME NEW P, NEW q, NEW n \in Nat \ {0}, NEW what, NEW x
    PROVE  StillHeld(P, q, n, what, x) <=>
              \/ Is(q[n], what, x, TRUE)
              \/ StillHeld(P, q, n - 1, what, x) /\ ~Is(q[n], what, x, FALSE)
<1>1. ASSUME Is(q[n], what, x, TRUE) PROVE StillHeld(P, q, n, what, x)
  <2>1. n \in 1 .. n /\ \A j \in n + 1 .. n : FALSE
    OBVIOUS
  <2> QED
    BY <1>1, <2>1 DEF StillHeld
<1>2. ASSUME StillHeld(P, q, n - 1, what, x), ~Is(q[n], what, x, FALSE)
      PROVE  StillHeld(P, q, n, what, x)
  <2>1. CASE x \in P /\ \A j \in 1 .. n - 1 : ~Is(q[j], what, x, FALSE)
    <3>1. \A j \in 1 .. n : j \in 1 .. n - 1 \/ j = n
      OBVIOUS
    <3> QED
      BY <1>2, <2>1, <3>1 DEF StillHeld
  <2>2. CASE \E i \in 1 .. n - 1 :
                /\ Is(q[i], what, x, TRUE)
                /\ \A j \in i + 1 .. n - 1 : ~Is(q[j], what, x, FALSE)
    <3>1. PICK i \in 1 .. n - 1 :
                /\ Is(q[i], what, x, TRUE)
                /\ \A j \in i + 1 .. n - 1 : ~Is(q[j], what, x, FALSE)
      BY <2>2
    <3>2. i \in 1 .. n /\ \A j \in i + 1 .. n : j \in i + 1 .. n - 1 \/ j = n
      OBVIOUS
    <3> QED
      BY <1>2, <3>1, <3>2 DEF StillHeld
  <2> QED
    BY <1>2, <2>1, <2>2 DEF StillHeld
<1>3. ASSUME StillHeld(P, q, n, what, x), ~Is(q[n], what, x, TRUE)
      PROVE  StillHeld(P, q, n - 1, what, x) /\ ~Is(q[n], what, x, FALSE)
  <2>1. CASE x \in P /\ \A j \in 1 .. n : ~Is(q[j], what, x, FALSE)
    <3>1. n \in 1 .. n /\ \A j \in 1 .. n - 1 : j \in 1 .. n
      OBVIOUS
    <3> QED
      BY <2>1, <3>1 DEF StillHeld
  <2>2. CASE \E i \in 1 .. n :
                /\ Is(q[i], what, x, TRUE)
                /\ \A j \in i + 1 .. n : ~Is(q[j], what, x, FALSE)
    <3>1. PICK i \in 1 .. n :
                /\ Is(q[i], what, x, TRUE)
                /\ \A j \in i + 1 .. n : ~Is(q[j], what, x, FALSE)
      BY <2>2
    <3>2. i # n
      BY <1>3, <3>1
    <3>3. i \in 1 .. n - 1 /\ n \in i + 1 .. n
          /\ \A j \in i + 1 .. n - 1 : j \in i + 1 .. n
      BY <3>2
    <3> QED
      BY <3>1, <3>3 DEF StillHeld
  <2> QED
    BY <1>3, <2>1, <2>2 DEF StillHeld
<1> QED
  BY <1>1, <1>2, <1>3

LEMMA StillHeldAppend ==
    ASSUME NEW P, NEW S, NEW q \in Seq(S), NEW e \in S, NEW what, NEW x
    PROVE  StillHeld(P, Append(q, e), Len(Append(q, e)), what, x) <=>
              \/ Is(e, what, x, TRUE)
              \/ StillHeld(P, q, Len(q), what, x) /\ ~Is(e, what, x, FALSE)
<1> DEFINE r == Append(q, e)
           n == Len(q)
<1>1. n \in Nat /\ Len(r) = n + 1 /\ r[n + 1] = e
      /\ \A i \in 1 .. n : r[i] = q[i]
  BY AppendProperties, LenProperties
<1> HIDE DEF r, n
<1>2. StillHeld(P, r, n, what, x) <=> StillHeld(P, q, n, what, x)
  <2>1. \A i \in 1 .. n : \A j \in i + 1 .. n : r[j] = q[j]
    BY <1>1
  <2> QED
    BY <1>1, <2>1 DEF StillHeld
<1>3. n + 1 \in Nat \ {0} /\ (n + 1) - 1 = n
  BY <1>1
<1>4. StillHeld(P, r, n + 1, what, x) <=>
         \/ Is(r[n + 1], what, x, TRUE)
         \/ StillHeld(P, r, n, what, x) /\ ~Is(r[n + 1], what, x, FALSE)
  BY <1>3, StillHeldNext
<1> QED
  BY <1>1, <1>2, <1>4 DEF r, n

\* Nobody is told anything who only looks.
ViewsOnly(s) ==
    s.viewOnly => /\ s.pressedButtons = {} /\ s.pressedKeys = {}
                  /\ s.pressedModifiers = {}

\* What was pressed in t, when the events that waited in s were sent, is what
\* was pressed and not released, or pressed last.
LEMMA SentDoes ==
    ASSUME NEW s \in Filter, Mirrors(s), ViewsOnly(s),
           NEW n \in 0 .. Len(s.pending), NEW t, t = Sent(s, n)
    PROVE  /\ SentFrom(s, t) /\ Mirrors(t) /\ ViewsOnly(t)
           /\ \A what \in Kinds : \A x \in Pressed(t, what) :
                 StillHeld(Pressed(s, what), s.pending, n, what, x)
<1>1. PICK g \in [0 .. n -> Filter] :
              /\ g[0] = s
              /\ \A i \in 1 .. n : g[i] = SendEvent(g[i - 1], s.pending[i])
              /\ Sent(s, n) = g[n]
  BY SentSteps
<1> DEFINE Good(u, i) ==
              /\ SentFrom(s, u) /\ Mirrors(u) /\ (s.viewOnly => u = s)
              /\ \A what \in Kinds : \A x \in Pressed(u, what) :
                    \/ s.viewOnly
                    \/ StillHeld(Pressed(s, what), s.pending, i, what, x)
           G == {i \in 0 .. n : Good(g[i], i)}
<1>2. n \in Nat /\ s.pending \in Seq(Event)
      /\ \A i \in 1 .. n : s.pending[i] \in Event
  BY DEF Filter
<1>3. Good(s, 0)
  BY StillHeldNone DEF SentFrom
<1>4. ASSUME NEW i \in 1 .. n, Good(g[i - 1], i - 1) PROVE Good(g[i], i)
  <2> DEFINE u == g[i - 1]
             v == g[i]
             e == s.pending[i]
  <2>1. u \in Filter /\ e \in Event /\ v = SendEvent(u, e) /\ Good(u, i - 1)
    BY <1>1, <1>2, <1>4
  <2> HIDE DEF u, v, e
  <2>2. /\ SentFrom(u, v) /\ Mirrors(v) /\ (u.viewOnly => v = u)
        /\ ~u.viewOnly => \A what \in Kinds :
                     Pressed(v, what) = After(Pressed(u, what), e, what)
    BY <2>1, SendEventDoes
  <2>3. SentFrom(s, v) /\ u.viewOnly = s.viewOnly
    BY <2>1, <2>2 DEF SentFrom
  <2>4. ASSUME NEW what \in Kinds, NEW x \in Pressed(v, what), ~s.viewOnly
        PROVE  StillHeld(Pressed(s, what), s.pending, i, what, x)
    <3>1. x \in After(Pressed(u, what), e, what)
      BY <2>2, <2>3, <2>4
    <3>2. \/ Is(e, what, x, TRUE)
          \/ x \in Pressed(u, what) /\ ~Is(e, what, x, FALSE)
      <4>1. e.down \in BOOLEAN
        BY <2>1 DEF Event
      <4> QED
        BY <3>1, <4>1 DEF After, Is
    <3>3. \/ Is(e, what, x, TRUE)
          \/ StillHeld(Pressed(s, what), s.pending, i - 1, what, x)
             /\ ~Is(e, what, x, FALSE)
      BY <2>1, <2>4, <3>2
    <3>4. i \in Nat \ {0}
      BY <1>2
    <3> QED
      BY <3>3, <3>4, StillHeldNext DEF e
  <2> QED
    BY <2>1, <2>2, <2>3, <2>4 DEF v
<1>5. \A i \in 0 .. n : i \in G
  <2>1. 0 \in G
    BY <1>1, <1>2, <1>3
  <2>2. ASSUME NEW i \in 1 .. n, i - 1 \in G PROVE i \in G
    BY <1>4, <2>2
  <2> HIDE DEF G
  <2> QED
    BY <1>2, <2>1, <2>2, InductionTo
<1>6. Good(t, n)
  <2>1. n \in G
    BY <1>2, <1>5
  <2> QED
    BY <1>1, <2>1
<1>7. ViewsOnly(t)
  BY <1>6 DEF SentFrom, ViewsOnly
<1>8. s.viewOnly => \A what \in Kinds : Pressed(t, what) = {}
  BY <1>6, <1>7 DEF SentFrom, ViewsOnly, Pressed, Kinds
<1> QED
  BY <1>6, <1>7, <1>8

\* The same of all that waits.  Nothing waits any more.
StillHeldIn(s, what, x) ==
    StillHeld(Pressed(s, what), s.pending, Len(s.pending), what, x)

\* t has the modifiers that were queued, the profile and the role of s.
Keeps(s, t) ==
    /\ t \in Filter
    /\ t.queued = s.queued /\ t.watch = s.watch
    /\ t.viewOnly = s.viewOnly /\ t.profile = s.profile

LEMMA SendAllDoes ==
    ASSUME NEW s \in Filter, Mirrors(s), ViewsOnly(s), NEW t, t = SendAll(s)
    PROVE  /\ Keeps(s, t) /\ Mirrors(t) /\ ViewsOnly(t) /\ t.pending = <<>>
           /\ t.emulationButton = s.emulationButton
           /\ t.stillDown = s.stillDown
           /\ t.multiTapTimer = s.multiTapTimer /\ t.tapTimer = s.tapTimer
           /\ \A what \in Kinds : \A x \in Pressed(t, what) :
                 StillHeldIn(s, what, x)
<1> DEFINE n == Len(s.pending)
           u == Sent(s, n)
<1>1. n \in 0 .. Len(s.pending)
  <2>1. s.pending \in Seq(Event)
    BY DEF Filter
  <2> QED
    BY <2>1, LenProperties
<1>2. /\ SentFrom(s, u) /\ Mirrors(u) /\ ViewsOnly(u)
      /\ \A what \in Kinds : \A x \in Pressed(u, what) :
            StillHeldIn(s, what, x)
  <2> HIDE DEF u
  <2>1. u = Sent(s, n)
    BY DEF u
  <2> QED
    BY <1>1, <2>1, SentDoes DEF StillHeldIn
<1>3. t = [u EXCEPT !.pending = <<>>]
  BY DEF SendAll, DiscardAll
<1> HIDE DEF u, n
<1>4. u \in Filter /\ <<>> \in Seq(Event)
  BY <1>2 DEF SentFrom
<1>5. t \in Filter
  BY <1>3, <1>4 DEF Filter
<1>6. /\ t.queued = u.queued /\ t.watch = u.watch /\ t.viewOnly = u.viewOnly
      /\ t.profile = u.profile /\ t.pending = <<>>
      /\ t.emulationButton = u.emulationButton /\ t.stillDown = u.stillDown
      /\ t.multiTapTimer = u.multiTapTimer /\ t.tapTimer = u.tapTimer
      /\ t.pressedButtons = u.pressedButtons
      /\ t.pressedKeys = u.pressedKeys
      /\ t.pressedModifiers = u.pressedModifiers /\ t.server = u.server
  BY <1>3, <1>4 DEF Filter
<1>7. Mirrors(t) /\ ViewsOnly(t)
  BY <1>2, <1>6 DEF Mirrors, ViewsOnly
<1>8. \A what \in Kinds : Pressed(t, what) = Pressed(u, what)
  BY <1>6 DEF Pressed, Kinds
<1>9. Keeps(s, t)
  BY <1>2, <1>5, <1>6 DEF Keeps, SentFrom
<1> QED
  BY <1>2, <1>6, <1>7, <1>8, <1>9 DEF SentFrom

-----------------------------------------------------------------------------
(* The handlers of the scenarios.                                          *)

\* t has pressed what s has, and told the server so.
Alike(s, t) ==
    /\ Keeps(s, t)
    /\ t.pressedButtons = s.pressedButtons /\ t.pressedKeys = s.pressedKeys
    /\ t.pressedModifiers = s.pressedModifiers /\ t.server = s.server

\* The first n events are taps of the modifier of button b.
Taps(s, b, n) == \A i \in 1 .. n : Tap(s, b, i, i % 2 = 1)

\* The taps for a click with button b are complete.
Fired(s, b) ==
    /\ s.profile[b].scenario = "multiTap"
    /\ Len(s.pending) >= 2 * s.profile[b].count
    /\ Taps(s, b, 2 * s.profile[b].count)

\* The third event follows a tap.
AfterTap(s, b) == Len(s.pending) > 2 /\ Taps(s, b, 2)

\* All that waits makes the press of an emulated button.
Presses(s, b) ==
    \/ Len(s.pending) = 1 /\ Is(s.pending[1], "button", 1, TRUE)
    \/ Len(s.pending) = 2 /\ Taps(s, b, 1)
                          /\ Is(s.pending[2], "button", 1, TRUE)
    \/ AfterTap(s, b) /\ Is(s.pending[3], "button", 1, TRUE)

\* A timer runs for the taps of button b that wait.
Ticks(s, b, t) ==
    \/ s.profile[b].scenario = "multiTap" /\ t.multiTapTimer
    \/ /\ s.profile[b].scenario = "tapClick"
       /\ Len(s.pending) = 2 /\ t.tapTimer # 0

\* The handler of button b holds back an even number of events with a timer,
\* and leaves the timer of another scenario alone.
Rests(s, b, t, delay) ==
    /\ t.emulationButton = s.emulationButton
    /\ t.multiTapTimer = s.multiTapTimer \/ s.profile[b].scenario = "multiTap"
    /\ t.tapTimer = s.tapTimer \/ t.tapTimer # 0 \/ Len(s.pending) # 2
    /\ s.profile[b].scenario = "multiTap" /\ Taps(s, b, Len(s.pending))
          => delay = Len(s.pending)
    /\ delay > 0 /\ delay % 2 = 0 => Ticks(s, b, t)

\* What a handler does, by what it leaves waiting.
Waits(s, b, t, delay) ==
    /\ t.pending = s.pending /\ ~Fired(s, b) /\ Rests(s, b, t, delay)
    /\ \/ delay = 0
       \/ delay = Len(s.pending) /\ delay > 0 /\ Taps(s, b, delay)

Discards(s, b, t, delay) ==
    /\ t.pending = <<>> /\ delay = 0 /\ t.emulationButton = s.emulationButton
    /\ \/ Fired(s, b)
       \/ AfterTap(s, b) /\ Is(s.pending[3], "key", "esc", TRUE)

Replaces(s, b, t, delay) ==
    /\ t.pending = <<ButtonEvent(b, TRUE)>> /\ delay = 0
    /\ Presses(s, b) /\ t.emulationButton = b

Handled(s, b, t, delay) ==
    /\ Alike(s, t)
    /\ \/ Waits(s, b, t, delay)
       \/ Discards(s, b, t, delay)
       \/ Replaces(s, b, t, delay)

LEMMA ProfileIs ==
    ASSUME NEW s \in Filter, NEW b \in Emulated
    PROVE  /\ s.profile[b].scenario \in Scenarios
           /\ s.profile[b].modifier \in Modifiers
           /\ s.profile[b].count \in 1 .. 5
<1>1. s.profile \in ProfileType
  BY DEF Filter
<1> QED
  BY <1>1 DEF ProfileType

\* What a tap is: presses and releases alternate.
LEMMA TapsAre ==
    ASSUME NEW s, NEW b
    PROVE  /\ Taps(s, b, 1) <=> Tap(s, b, 1, TRUE)
           /\ Taps(s, b, 2) <=> Tap(s, b, 1, TRUE) /\ Tap(s, b, 2, FALSE)
<1>1. 1 % 2 = 1 /\ 2 % 2 = 0
  OBVIOUS
<1>2. (\A i \in 1 .. 1 : i = 1) /\ (\A i \in 1 .. 2 : i = 1 \/ i = 2)
      /\ 1 \in 1 .. 1 /\ 1 \in 1 .. 2 /\ 2 \in 1 .. 2
  OBVIOUS
<1>3. Taps(s, b, 1) <=> Tap(s, b, 1, 1 % 2 = 1)
  BY <1>2 DEF Taps
<1>4. Taps(s, b, 2) <=> Tap(s, b, 1, 1 % 2 = 1) /\ Tap(s, b, 2, 2 % 2 = 1)
  BY <1>2 DEF Taps
<1>5. (1 % 2 = 1) = TRUE /\ (2 % 2 = 1) = FALSE
  BY <1>1
<1> QED
  BY <1>3, <1>4, <1>5 DEF Tap, Is

LEMMA PendingIs ==
    ASSUME NEW s \in Filter
    PROVE  /\ s.pending \in Seq(Event) /\ Len(s.pending) \in Nat
           /\ s.stillDown \in [Emulated -> BOOLEAN]
           /\ s.out \in Seq(Message) /\ s.tapTimer \in {0, 2, 3}
           /\ s.multiTapTimer \in BOOLEAN /\ s.emulationButton \in 1 .. 3
<1>1. /\ s.pending \in Seq(Event)
      /\ s.stillDown \in [Emulated -> BOOLEAN]
      /\ s.out \in Seq(Message) /\ s.tapTimer \in {0, 2, 3}
      /\ s.multiTapTimer \in BOOLEAN /\ s.emulationButton \in 1 .. 3
  BY DEF Filter
<1> QED
  BY <1>1, LenProperties

LEMMA ButtonIs ==
    ASSUME NEW b \in 1 .. 3, NEW d \in BOOLEAN
    PROVE  /\ ButtonEvent(b, d) \in Event
           /\ <<ButtonEvent(b, d)>> \in Seq(Event)
<1>1. ButtonEvent(b, d) \in Event
  BY DEF ButtonEvent, Event
<1> HIDE DEF ButtonEvent
<1> QED
  BY <1>1

\* Alike, for the changes that the handlers make.
LEMMA AlikeItself == ASSUME NEW s \in Filter PROVE Alike(s, s)
BY DEF Alike, Keeps

LEMMA AlikeTimer ==
    ASSUME NEW s \in Filter, NEW m \in BOOLEAN,
           NEW t, t = [s EXCEPT !.multiTapTimer = m]
    PROVE  /\ Alike(s, t) /\ t.pending = s.pending
           /\ t.emulationButton = s.emulationButton
           /\ t.tapTimer = s.tapTimer /\ t.multiTapTimer = m
BY DEF Alike, Keeps, Filter

LEMMA AlikeCursor ==
    ASSUME NEW s \in Filter, NEW k \in {0, 2, 3},
           NEW t, t = [s EXCEPT !.tapTimer = k]
    PROVE  /\ Alike(s, t) /\ t.pending = s.pending
           /\ t.emulationButton = s.emulationButton
           /\ t.multiTapTimer = s.multiTapTimer /\ t.tapTimer = k
BY DEF Alike, Keeps, Filter

\* The same of a filter where q waits, and k is the emulation button.
AlikeWith(s, t, q) == Alike(s, t) /\ t.pending = q
AlikeAs(s, t, q, k) == AlikeWith(s, t, q) /\ t.emulationButton = k

LEMMA AlikeDiscarded ==
    ASSUME NEW s \in Filter, NEW t, t = ResetTapClick(DiscardAll(s))
    PROVE  AlikeAs(s, t, <<>>, s.emulationButton)
<1>1. <<>> \in Seq(Event)
  OBVIOUS
<1>2. t = [s EXCEPT !.pending = <<>>, !.tapTimer = 0]
  BY DEF ResetTapClick, DiscardAll
<1> QED
  BY <1>1, <1>2 DEF AlikeAs, AlikeWith, Alike, Keeps, Filter

Cursors == {0, 2, 3}

Pressing(s, b, q, d, k) ==
    [s EXCEPT !.emulationButton = b, !.pending = q, !.stillDown = d,
              !.tapTimer = k]

LEMMA AlikePress ==
    ASSUME NEW s \in Filter, NEW b \in Emulated,
           NEW d \in [Emulated -> BOOLEAN], NEW k \in Cursors,
           NEW q, q = <<ButtonEvent(b, TRUE)>>,
           NEW t, t = Pressing(s, b, q, d, k)
    PROVE  AlikeAs(s, t, q, b)
<1>1. b \in 1 .. 3 /\ TRUE \in BOOLEAN
  BY DEF Emulated
<1>2. q \in Seq(Event)
  BY <1>1, ButtonIs
<1> QED
  BY <1>1, <1>2
  DEF AlikeAs, AlikeWith, Alike, Keeps, Filter, Pressing, Cursors

\* A handler that changes nothing.
LEMMA RestsStill ==
    ASSUME NEW s, NEW b, s.profile[b].scenario # "multiTap",
           NEW delay \in {0, 1}
    PROVE  Rests(s, b, s, delay)
BY DEF Rests

LEMMA HoldDoes ==
    ASSUME NEW s \in Filter, NEW b \in Emulated,
           s.profile[b].scenario = "hold", NEW r,
           r = HandleClickWhileHolding(s, b)
    PROVE  Handled(s, b, r.filter, r.delay)
<1> DEFINE n == Len(s.pending)
           tap == Tap(s, b, 1, TRUE)
           mouse(i) == Is(s.pending[i], "button", 1, TRUE)
<1>0. ~Fired(s, b) /\ Alike(s, s) /\ n \in Nat
      /\ s.stillDown \in [Emulated -> BOOLEAN] /\ s.tapTimer \in Cursors /\ 0 \in Cursors
      /\ ~(tap /\ mouse(1))
  BY PendingIs, AlikeItself DEF Fired, Tap, Is, Cursors
<1>5. r = CASE n = 2 /\ tap /\ mouse(2) ->
                  Result([QueueEmulatedMouseDown(s, b)
                             EXCEPT !.stillDown[b] = TRUE], 0)
            [] n = 1 /\ tap -> Result(s, 1)
            [] n = 1 /\ mouse(1) /\ s.stillDown[b] ->
                  Result(QueueEmulatedMouseDown(s, b), 0)
            [] OTHER -> Result(s, 0)
  BY Zenon DEF HandleClickWhileHolding
<1>6. \A t, k : Result(t, k).filter = t /\ Result(t, k).delay = k
  BY DEF Result
<1> HIDE DEF n, tap, mouse
<1>1. CASE n = 2 /\ tap /\ mouse(2)
  <2> DEFINE d == [s.stillDown EXCEPT ![b] = TRUE]
             t == [QueueEmulatedMouseDown(s, b) EXCEPT !.stillDown[b] = TRUE]
             q == <<ButtonEvent(b, TRUE)>>
  <2>1. r = Result(t, 0)
    BY <1>0, <1>1, <1>5
  <2>2. d \in [Emulated -> BOOLEAN]
    BY <1>0
  <2>3. t = Pressing(s, b, q, d, s.tapTimer)
    BY DEF Pressing, QueueEmulatedMouseDown, Filter
  <2>6. q = <<ButtonEvent(b, TRUE)>>
    OBVIOUS
  <2> HIDE DEF t, d, q
  <2>4. AlikeAs(s, t, q, b)
    BY <1>0, <2>2, <2>3, <2>6, AlikePress
  <2>5. Presses(s, b)
    BY <1>1, TapsAre DEF Presses, n, tap, mouse
  <2>7. r.filter = t /\ r.delay = 0
    BY <1>6, <2>1
  <2>8. Alike(s, t) /\ t.pending = q /\ t.emulationButton = b
    BY <2>4 DEF AlikeWith, AlikeAs
  <2>9. Replaces(s, b, t, 0)
    BY <2>5, <2>6, <2>8, Zenon DEF Replaces
  <2> QED
    BY <2>7, <2>8, <2>9 DEF Handled
<1>2. CASE n = 1 /\ tap
  <2>1. r = Result(s, 1)
    BY <1>0, <1>2, <1>5
  <2>2. Taps(s, b, 1)
    BY <1>2, TapsAre DEF tap
  <2> QED
    BY <1>0, <1>2, <1>6, <2>1, <2>2, RestsStill DEF Handled, Waits, n
<1>3. CASE n = 1 /\ mouse(1) /\ s.stillDown[b]
  <2> DEFINE t == QueueEmulatedMouseDown(s, b)
             q == <<ButtonEvent(b, TRUE)>>
  <2>1. r = Result(t, 0)
    BY <1>0, <1>3, <1>5
  <2>2. t = Pressing(s, b, q, s.stillDown, s.tapTimer)
    BY DEF Pressing, QueueEmulatedMouseDown, Filter
  <2>6. q = <<ButtonEvent(b, TRUE)>>
    OBVIOUS
  <2> HIDE DEF t, q
  <2>3. AlikeAs(s, t, q, b)
    BY <1>0, <2>2, <2>6, AlikePress
  <2>4. Presses(s, b)
    BY <1>3 DEF Presses, n, mouse
  <2>7. r.filter = t /\ r.delay = 0
    BY <1>6, <2>1
  <2>8. Alike(s, t) /\ t.pending = q /\ t.emulationButton = b
    BY <2>3 DEF AlikeWith, AlikeAs
  <2>9. Replaces(s, b, t, 0)
    BY <2>4, <2>6, <2>8, Zenon DEF Replaces
  <2> QED
    BY <2>7, <2>8, <2>9 DEF Handled
<1>4. CASE /\ ~(n = 2 /\ tap /\ mouse(2)) /\ ~(n = 1 /\ tap)
           /\ ~(n = 1 /\ mouse(1) /\ s.stillDown[b])
  <2>1. r = Result(s, 0)
    BY <1>4, <1>5
  <2> QED
    BY <1>0, <1>6, <2>1, RestsStill DEF Handled, Waits
<1> QED
  BY <1>1, <1>2, <1>3, <1>4

LEMMA TapAndClickDoes ==
    ASSUME NEW s \in Filter, NEW b \in Emulated,
           s.profile[b].scenario = "tapClick", NEW r,
           r = HandleTapModifierAndClick(s, b)
    PROVE  Handled(s, b, r.filter, r.delay)
<1> DEFINE n == Len(s.pending)
           tap == Tap(s, b, 1, TRUE)
           tapped == n >= 2 /\ tap /\ Tap(s, b, 2, FALSE)
                     /\ ~s.pending[2].late
           mouse == Is(s.pending[3], "button", 1, TRUE)
           esc == Is(s.pending[3], "key", "esc", TRUE)
<1>0. ~Fired(s, b) /\ Alike(s, s) /\ n \in Nat
      /\ s.stillDown \in [Emulated -> BOOLEAN] /\ s.tapTimer \in Cursors /\ 0 \in Cursors
      /\ b \in {2, 3} /\ ~(mouse /\ esc)
  BY PendingIs, AlikeItself DEF Fired, Emulated, Is, Cursors
<1>7. tapped => Taps(s, b, 2) /\ n >= 2
  BY TapsAre
<1>9. \A t, k : Result(t, k).filter = t /\ Result(t, k).delay = k
  BY DEF Result
<1>8. r = CASE n = 1 /\ tap -> Result(s, 1)
            [] tapped /\ n = 2 ->
                  Result([s EXCEPT !.tapTimer = IF @ = 0 THEN b ELSE @], 2)
            [] tapped /\ n > 2 /\ mouse ->
                  Result(ResetTapClick(QueueEmulatedMouseDown(s, b)), 0)
            [] tapped /\ n > 2 /\ esc ->
                  Result(ResetTapClick(DiscardAll(s)), 0)
            [] tapped /\ n > 2 /\ ~mouse /\ ~esc ->
                  Result(ResetTapClick(s), 0)
            [] OTHER -> Result(s, 0)
  BY Zenon DEF HandleTapModifierAndClick
<1> HIDE DEF n, tap, tapped, mouse, esc
<1>1. CASE n = 1 /\ tap
  <2>1. r = Result(s, 1)
    BY <1>1, <1>7, <1>8
  <2>2. Taps(s, b, 1)
    BY <1>1, TapsAre DEF tap
  <2> QED
    BY <1>0, <1>1, <1>9, <2>1, <2>2, RestsStill DEF Handled, Waits, n
<1>2. CASE tapped /\ n = 2
  <2> DEFINE k == IF s.tapTimer = 0 THEN b ELSE s.tapTimer
             t == [s EXCEPT !.tapTimer = k]
  <2>1. r = Result(t, 2)
    BY <1>2, <1>8
  <2>2. k \in {0, 2, 3} /\ k # 0
    BY <1>0 DEF Cursors
  <2>3. /\ Alike(s, t) /\ t.pending = s.pending
        /\ t.emulationButton = s.emulationButton
        /\ t.multiTapTimer = s.multiTapTimer /\ t.tapTimer = k
    <3> HIDE DEF k
    <3> QED
      BY <2>2, AlikeCursor
  <2> HIDE DEF t, k
  <2>4. Rests(s, b, t, 2)
    BY <1>2, <2>2, <2>3 DEF Rests, Ticks, n
  <2> QED
    BY <1>0, <1>2, <1>7, <1>9, <2>1, <2>3, <2>4 DEF Handled, Waits, n
<1>3. CASE tapped /\ n > 2 /\ mouse
  <2> DEFINE t == ResetTapClick(QueueEmulatedMouseDown(s, b))
             q == <<ButtonEvent(b, TRUE)>>
  <2>1. r = Result(t, 0)
    BY <1>0, <1>3, <1>8
  <2>2. t = Pressing(s, b, q, s.stillDown, 0)
    BY DEF Pressing, QueueEmulatedMouseDown, ResetTapClick, Filter
  <2>6. q = <<ButtonEvent(b, TRUE)>>
    OBVIOUS
  <2> HIDE DEF t, q
  <2>3. AlikeAs(s, t, q, b)
    BY <1>0, <2>2, <2>6, AlikePress
  <2>4. Presses(s, b)
    BY <1>3, <1>7 DEF Presses, AfterTap, mouse, n
  <2>7. r.filter = t /\ r.delay = 0
    BY <1>9, <2>1
  <2>8. Alike(s, t) /\ t.pending = q /\ t.emulationButton = b
    BY <2>3 DEF AlikeWith, AlikeAs
  <2>9. Replaces(s, b, t, 0)
    BY <2>4, <2>6, <2>8, Zenon DEF Replaces
  <2> QED
    BY <2>7, <2>8, <2>9 DEF Handled
<1>4. CASE tapped /\ n > 2 /\ esc
  <2> DEFINE t == ResetTapClick(DiscardAll(s))
  <2>1. r = Result(t, 0)
    BY <1>0, <1>4, <1>8
  <2>2. AlikeAs(s, t, <<>>, s.emulationButton)
    BY AlikeDiscarded
  <2> HIDE DEF t
  <2> QED
    <3>1. r.filter = t /\ r.delay = 0
      BY <1>9, <2>1
    <3>2. Alike(s, t) /\ t.pending = <<>>
          /\ t.emulationButton = s.emulationButton
      BY <2>2 DEF AlikeWith, AlikeAs
    <3>3. AfterTap(s, b) /\ Is(s.pending[3], "key", "esc", TRUE)
      BY <1>4, <1>7 DEF AfterTap, esc, n
    <3>4. Discards(s, b, t, 0)
      BY <3>2, <3>3, Zenon DEF Discards
    <3> QED
      BY <3>1, <3>2, <3>4 DEF Handled
<1>5. CASE tapped /\ n > 2 /\ ~mouse /\ ~esc
  <2> DEFINE t == [s EXCEPT !.tapTimer = 0]
  <2>1. r = Result(t, 0)
    BY <1>0, <1>5, <1>8 DEF ResetTapClick
  <2>2. /\ Alike(s, t) /\ t.pending = s.pending
        /\ t.emulationButton = s.emulationButton
        /\ t.multiTapTimer = s.multiTapTimer
    BY AlikeCursor
  <2> HIDE DEF t
  <2>3. Rests(s, b, t, 0)
    <3>1. Len(s.pending) # 2 /\ ~(0 > 0)
      <4>1. n \in Nat /\ n > 2
        BY <1>0, <1>5
      <4>2. n # 2 /\ ~(0 > 0)
        BY <4>1
      <4> QED
        BY <4>2 DEF n
    <3>2. s.profile[b].scenario # "multiTap"
      OBVIOUS
    <3> QED
      BY <2>2, <3>1, <3>2, Zenon DEF Rests
  <2> QED
    BY <1>0, <1>9, <2>1, <2>2, <2>3 DEF Handled, Waits
<1>6. CASE ~(n = 1 /\ tap) /\ ~tapped
  <2>1. r = Result(s, 0)
    BY <1>6, <1>8
  <2> QED
    BY <1>0, <1>9, <2>1, RestsStill DEF Handled, Waits
<1> QED
  BY <1>0, <1>1, <1>2, <1>3, <1>4, <1>5, <1>6, <1>7

LEMMA AlikeThenAlike ==
    ASSUME NEW s, NEW t, NEW u, Alike(s, t), Alike(t, u)
    PROVE  Alike(s, u)
BY DEF Alike, Keeps

\* A click leaves the buttons as they are.
LEMMA ClickDoes ==
    ASSUME NEW s \in Filter, Mirrors(s), NEW b \in Emulated,
           NEW t, t = Click(DiscardAll(s), b)
    PROVE  AlikeAs(s, t, <<>>, s.emulationButton)
<1> DEFINE B == s.pressedButtons \cup {b}
           m1 == [what |-> "button", buttons |-> B]
           m2 == [what |-> "button", buttons |-> s.pressedButtons]
           v == [s.server EXCEPT !.buttons = s.pressedButtons]
           o == Append(Append(s.out, m1), m2)
<1>1. s.pressedButtons \in SUBSET (1 .. 3) /\ B \in SUBSET (1 .. 3)
  BY DEF Filter, Emulated
<1>2. m1 \in Message /\ m2 \in Message
  <2> HIDE DEF B
  <2> QED
    BY <1>1 DEF Message
<1>3. o \in Seq(Message)
  <2> HIDE DEF m1, m2
  <2>1. Append(s.out, m1) \in Seq(Message)
    BY <1>2, PendingIs, AppendProperties
  <2> QED
    BY <1>2, <2>1, AppendProperties
<1>4. s.server \in Server
  BY DEF Filter
<1>5. v = s.server /\ v \in Server
  BY <1>4 DEF Mirrors, Server
<1>6. t = [s EXCEPT !.pending = <<>>, !.server = v, !.out = o]
  <2> DEFINE x == DiscardAll(s)
             y == SendPointer(x, x.pressedButtons \cup {b})
  <2>0. <<>> \in Seq(Event)
    OBVIOUS
  <2>1. x = [s EXCEPT !.pending = <<>>] /\ x \in Filter
        /\ x.pressedButtons = s.pressedButtons /\ x.out = s.out
        /\ x.server = s.server
    BY <2>0 DEF DiscardAll, Filter
  <2> HIDE DEF x
  <2>2. y = [x EXCEPT !.server = [x.server EXCEPT !.buttons = B],
                      !.out = Append(x.out, m1)]
    BY <2>1 DEF SendPointer, Filter
  <2>3. y.server = [s.server EXCEPT !.buttons = B]
        /\ y.out = Append(s.out, m1)
    BY <2>1, <2>2 DEF Filter
  <2>4. t = SendPointer(y, x.pressedButtons)
    BY DEF Click, x
  <2> HIDE DEF y
  <2>5. t = [y EXCEPT !.server = [y.server EXCEPT !.buttons = s.pressedButtons],
                      !.out = Append(y.out, m2)]
    BY <2>1, <2>2, <2>4 DEF SendPointer, Filter
  <2>6. [y.server EXCEPT !.buttons = s.pressedButtons] = v
    BY <1>4, <2>3 DEF Server
  <2> HIDE DEF v, m1, m2
  <2>7. t = [y EXCEPT !.server = v, !.out = o]
    BY <2>3, <2>5, <2>6
  <2> HIDE DEF o
  <2> QED
    BY <2>1, <2>2, <2>7 DEF Filter
<1>7. <<>> \in Seq(Event)
  OBVIOUS
<1> HIDE DEF v, o
<1> QED
  BY <1>3, <1>5, <1>6, <1>7 DEF AlikeAs, AlikeWith, Alike, Keeps, Filter

LEMMA MultiTapDoes ==
    ASSUME NEW s \in Filter, Mirrors(s), NEW b \in Emulated,
           s.profile[b].scenario = "multiTap", NEW r,
           r = HandleMultiTap(s, b)
    PROVE  Handled(s, b, r.filter, r.delay)
<1> DEFINE n == Len(s.pending)
           full == 2 * s.profile[b].count
           t == ResetMultiTap(s)
           click == Click(DiscardAll(t), b)
           timed == [t EXCEPT !.multiTapTimer = n > 0 /\ n % 2 = 0]
<1>1. n \in Nat /\ full \in Nat
  BY PendingIs, ProfileIs
<1>2. \A u, k : Result(u, k).filter = u /\ Result(u, k).delay = k
  BY DEF Result
<1>3. r = CASE n >= full /\ Taps(s, b, full) -> Result(click, 0)
            [] n < full /\ Taps(s, b, n) -> Result(timed, n)
            [] OTHER -> Result(t, 0)
  BY Zenon DEF HandleMultiTap, Taps
<1>4. Fired(s, b) <=> n >= full /\ Taps(s, b, full)
  BY DEF Fired
<1>5. /\ Alike(s, t) /\ t.pending = s.pending
      /\ t.emulationButton = s.emulationButton /\ t.tapTimer = s.tapTimer
  <2>1. t = [s EXCEPT !.multiTapTimer = FALSE] /\ FALSE \in BOOLEAN
    BY DEF ResetMultiTap
  <2> HIDE DEF t
  <2> QED
    BY <2>1, AlikeTimer
<1>6. t \in Filter /\ Mirrors(t)
  BY <1>5 DEF Alike, Keeps, Mirrors
<1>7. AlikeAs(t, click, <<>>, t.emulationButton)
  <2>1. click = Click(DiscardAll(t), b)
    OBVIOUS
  <2> HIDE DEF t, click
  <2> QED
    BY <1>6, <2>1, ClickDoes
<1>8. /\ AlikeAs(t, timed, t.pending, t.emulationButton)
      /\ timed.tapTimer = t.tapTimer
      /\ n > 0 /\ n % 2 = 0 => timed.multiTapTimer
  <2> DEFINE m == n > 0 /\ n % 2 = 0
  <2>1. m \in BOOLEAN /\ timed = [t EXCEPT !.multiTapTimer = m]
    OBVIOUS
  <2> HIDE DEF m, t, timed
  <2>2. /\ Alike(t, timed) /\ timed.pending = t.pending
        /\ timed.emulationButton = t.emulationButton
        /\ timed.tapTimer = t.tapTimer /\ timed.multiTapTimer = m
    BY <1>6, <2>1, AlikeTimer
  <2> QED
    BY <2>2 DEF AlikeWith, AlikeAs, m
<1> HIDE DEF n, full, t, click, timed
<1>9. /\ Alike(s, click) /\ click.pending = <<>>
      /\ click.emulationButton = s.emulationButton
      /\ Alike(s, timed) /\ timed.pending = s.pending
      /\ timed.emulationButton = s.emulationButton
      /\ timed.tapTimer = s.tapTimer
  BY <1>5, <1>7, <1>8, AlikeThenAlike DEF AlikeWith, AlikeAs
<1>10. CASE n >= full /\ Taps(s, b, full)
  <2>1. r = Result(click, 0)
    BY <1>1, <1>3, <1>10
  <2> QED
    <3>1. r.filter = click /\ r.delay = 0
      BY <1>2, <2>1
    <3>2. Fired(s, b)
      BY <1>4, <1>10
    <3>3. Discards(s, b, click, 0)
      BY <1>9, <3>2 DEF Discards
    <3>4. Handled(s, b, click, 0)
      BY <1>9, <3>3 DEF Handled
    <3> QED
      BY <3>1, <3>4
<1>11. CASE n < full /\ Taps(s, b, n)
  <2>1. r = Result(timed, n)
    <3>1. ~(n >= full /\ Taps(s, b, full))
      BY <1>1, <1>11
    <3> QED
      BY <1>3, <1>11, <3>1, Zenon
  <2>2. ~Fired(s, b) /\ (n = 0 \/ n > 0)
    BY <1>1, <1>4, <1>11
  <2>3. Rests(s, b, timed, n)
    BY <1>1, <1>8, <1>9 DEF Rests, Ticks, n
  <2> QED
    BY <1>2, <1>9, <1>11, <2>1, <2>2, <2>3 DEF Handled, Waits, n
<1>12. CASE ~(n >= full /\ Taps(s, b, full)) /\ ~(n < full /\ Taps(s, b, n))
  <2>1. r = Result(t, 0)
    BY <1>3, <1>12
  <2>2. ~Taps(s, b, n)
    <3> SUFFICES ASSUME Taps(s, b, n) PROVE FALSE
      OBVIOUS
    <3>1. n >= full
      BY <1>1, <1>12
    <3>2. Taps(s, b, full)
      BY <1>1, <3>1 DEF Taps
    <3> QED
      BY <1>12, <3>1, <3>2
  <2>3. Rests(s, b, t, 0)
    BY <1>5, <2>2 DEF Rests, n
  <2> QED
    BY <1>2, <1>4, <1>5, <1>12, <2>1, <2>3 DEF Handled, Waits
<1> QED
  BY <1>10, <1>11, <1>12

LEMMA HandleDoes ==
    ASSUME NEW s \in Filter, Mirrors(s), NEW b \in Emulated, NEW r,
           r = Handle(s, b)
    PROVE  Handled(s, b, r.filter, r.delay)
<1> DEFINE c == s.profile[b].scenario
<1>1. c \in {"none", "hold", "multiTap", "tapClick"}
  BY ProfileIs DEF Scenarios
<1>2. CASE c = "none"
  <2>1. r.filter = s /\ r.delay = 0
    BY <1>2 DEF Handle, Result
  <2>2. ~Fired(s, b)
    BY <1>2 DEF Fired
  <2> QED
    BY <1>2, <2>1, <2>2, AlikeItself, RestsStill DEF Handled, Waits
<1>3. CASE c = "hold"
  BY <1>3, HoldDoes DEF Handle
<1>4. CASE c = "multiTap"
  BY <1>4, MultiTapDoes DEF Handle
<1>5. CASE c = "tapClick"
  BY <1>5, TapAndClickDoes DEF Handle
<1> QED
  BY <1>1, <1>2, <1>3, <1>4, <1>5

-----------------------------------------------------------------------------
(* sendAnyValidEventsToServerNow: both handlers, and what is sent.         *)

LEMMA SameTaps ==
    ASSUME NEW s, NEW t, Alike(s, t), t.pending = s.pending, NEW b
    PROVE  /\ \A n : Taps(t, b, n) <=> Taps(s, b, n)
           /\ Fired(t, b) <=> Fired(s, b)
           /\ AfterTap(t, b) <=> AfterTap(s, b)
           /\ Presses(t, b) <=> Presses(s, b)
<1>1. t.profile = s.profile
  BY DEF Alike, Keeps
<1>2. \A n : Taps(t, b, n) <=> Taps(s, b, n)
  BY <1>1 DEF Taps, Tap
<1>3. Fired(t, b) <=> Fired(s, b)
  BY <1>1, <1>2 DEF Fired
<1>4. AfterTap(t, b) <=> AfterTap(s, b)
  BY <1>2 DEF AfterTap
<1> QED
  BY <1>2, <1>3, <1>4 DEF Presses

LEMMA SendAllNothing ==
    ASSUME NEW s \in Filter, s.pending = <<>>
    PROVE  SendAll(s) = s
<1>1. 0 \in 0 .. Len(s.pending) /\ Len(s.pending) = 0
  BY DEF Filter
<1>2. Sent(s, 0) = s
  BY <1>1, SentSteps
<1>3. [s EXCEPT !.pending = <<>>] = s
  BY DEF Filter
<1> QED
  BY <1>1, <1>2, <1>3 DEF SendAll, DiscardAll

LEMMA SendUndelayedDoes ==
    ASSUME NEW s, NEW d \in Nat, Len(s.pending) \in Nat
    PROVE  /\ d = 0 => SendUndelayed(s, d) = SendAll(s)
           /\ d > 0 /\ d >= Len(s.pending) => SendUndelayed(s, d) = s
BY DEF SendUndelayed

\* The taps of a click are complete, or it was called off.
Gone(s, b) ==
    \/ Fired(s, b)
    \/ AfterTap(s, b) /\ Is(s.pending[3], "key", "esc", TRUE)

\* A release is not the last of what waits, or a timer runs, unless it is one
\* of the taps that none runs for.
Timed(s) ==
    /\ Len(s.pending) > 0
    /\ s.pending[Len(s.pending)].what = "modifier"
    /\ ~s.pending[Len(s.pending)].down
    /\ ~Unheeded(s.profile, s.pending[Len(s.pending)].arg)
    => s.multiTapTimer \/ s.tapTimer # 0

\* What comes of the events that wait: they are sent, held back as taps,
\* taken as a click or its end, or replaced by an emulated press.
Flushed(s, t) ==
    \E u : /\ AlikeAs(s, u, s.pending, s.emulationButton)
           /\ t = SendAll(u)

Held(s, t) ==
    /\ AlikeAs(s, t, s.pending, s.emulationButton) /\ Len(s.pending) > 0
    /\ Timed(t)
    /\ \E b \in Emulated : Taps(s, b, Len(s.pending))
    /\ \A b \in Emulated : ~Fired(s, b)

Taken(s, t) ==
    /\ AlikeAs(s, t, <<>>, s.emulationButton)
    /\ \E b \in Emulated : Gone(s, b)

Emulates(s, t) ==
    \E u : \E b \in Emulated :
       /\ AlikeAs(s, u, <<ButtonEvent(b, TRUE)>>, b) /\ t = SendAll(u)
       /\ Presses(s, b)

\* Taps that both handlers leave waiting, and one of them holds back, are
\* timed: the other handler does not stop the timer.
LEMMA BothRest ==
    ASSUME NEW s, NEW t, NEW u, Alike(s, t), Alike(t, u),
           t.pending = s.pending, u.pending = s.pending,
           NEW n \in Nat, n = Len(s.pending), NEW d \in Nat, NEW e \in Nat,
           Rests(s, 2, t, d), Rests(t, 3, u, e), d > 0 \/ e > 0,
           d > 0 => d = n /\ Taps(s, 2, n), e > 0 => e = n /\ Taps(s, 3, n)
    PROVE  Timed(u)
<1>1. t.profile = s.profile /\ u.profile = s.profile
  BY DEF Alike, Keeps
<1> SUFFICES ASSUME n > 0, s.pending[n].what = "modifier",
                    ~s.pending[n].down,
                    ~Unheeded(s.profile, s.pending[n].arg)
             PROVE  u.multiTapTimer \/ u.tapTimer # 0
  BY <1>1 DEF Timed
<1>2. n \in 1 .. n
  OBVIOUS
<1>3. n % 2 = 0
  <2>1. n % 2 # 1
    <3>1. CASE Taps(s, 2, n)
      BY <1>2, <3>1 DEF Taps, Tap, Is
    <3>2. CASE Taps(s, 3, n)
      BY <1>2, <3>2 DEF Taps, Tap, Is
    <3> QED
      BY <3>1, <3>2
  <2>2. \A k \in Nat : k % 2 = 0 \/ k % 2 = 1
    OBVIOUS
  <2> QED
    BY <2>1, <2>2
<1>4. CASE e > 0
  <2>1. e % 2 = 0
    BY <1>3, <1>4
  <2>2. Ticks(t, 3, u)
    BY <1>4, <2>1 DEF Rests
  <2> QED
    BY <2>2 DEF Ticks
<1>5. CASE d > 0 /\ e = 0
  <2>0. d = n /\ Taps(s, 2, n) /\ Len(t.pending) # 0
    BY <1>5
  <2>1. d = n /\ Taps(s, 2, n) /\ Ticks(s, 2, t) /\ Len(t.pending) # 0
    <3>1. d > 0 /\ d % 2 = 0
      BY <1>3, <1>5, <2>0
    <3> QED
      BY <2>0, <3>1 DEF Rests
  <2>2. CASE s.profile[2].scenario = "multiTap" /\ t.multiTapTimer
    <3>1. s.profile[3].scenario # "multiTap"
      <4> SUFFICES ASSUME s.profile[3].scenario = "multiTap" PROVE FALSE
        OBVIOUS
      <4>0. s.pending[n].arg = s.profile[2].modifier
        BY <1>2, <2>1 DEF Taps, Tap, Is
      <4>1. s.profile[2].modifier = s.profile[3].modifier
        BY <2>2, <4>0 DEF Unheeded
      <4>2. Taps(t, 3, Len(t.pending))
        BY <1>1, <2>1, <4>1 DEF Taps, Tap
      <4>3. e = Len(t.pending)
        BY <1>1, <4>2 DEF Rests
      <4> QED
        BY <1>5, <2>1, <4>3
    <3> QED
      BY <1>1, <2>2, <3>1 DEF Rests
  <2>3. CASE Len(s.pending) = 2 /\ t.tapTimer # 0
    BY <2>3 DEF Rests
  <2> QED
    BY <2>1, <2>2, <2>3 DEF Ticks
<1> QED
  BY <1>4, <1>5

LEMMA SendAnyValidDoes ==
    ASSUME NEW s \in Filter, Mirrors(s), NEW t, t = SendAnyValid(s)
    PROVE  Flushed(s, t) \/ Held(s, t) \/ Taken(s, t) \/ Emulates(s, t)
<1> DEFINE h2 == Handle(s, 2)
           u2 == h2.filter
           d2 == h2.delay
           h3 == Handle(u2, 3)
           u3 == h3.filter
           d3 == h3.delay
           n == Len(s.pending)
<1>1. 2 \in Emulated /\ 3 \in Emulated /\ \A b \in Emulated : b = 2 \/ b = 3
  BY DEF Emulated
<1>2. Handled(s, 2, u2, d2)
  <2> HIDE DEF h2
  <2>1. h2 = Handle(s, 2)
    BY DEF h2
  <2> QED
    BY <1>1, <2>1, HandleDoes
<1>3. u2 \in Filter /\ Mirrors(u2) /\ Alike(s, u2)
  <2> HIDE DEF u2, d2
  <2> QED
    BY <1>2 DEF Handled, Alike, Keeps, Mirrors
<1>4. Handled(u2, 3, u3, d3)
  <2> HIDE DEF u2, h3
  <2>1. h3 = Handle(u2, 3)
    BY DEF h3
  <2> QED
    BY <1>1, <1>3, <2>1, HandleDoes
<1>5. n \in Nat /\ Len(u2.pending) \in Nat
  <2> HIDE DEF u2
  <2> QED
    BY <1>3, PendingIs
<1>6. d2 \in Nat /\ d3 \in Nat
  <2> HIDE DEF u2, u3, d2, d3, n
  <2>1. d2 = 0 \/ d2 = n
    BY <1>2 DEF Handled, Waits, Discards, Replaces, n
  <2>2. d3 = 0 \/ d3 = Len(u2.pending)
    BY <1>4 DEF Handled, Waits, Discards, Replaces
  <2> QED
    BY <1>5, <2>1, <2>2
<1>7. t = SendUndelayed(u3, IF d2 > d3 THEN d2 ELSE d3)
  <2>1. \A u, k : Result(u, k).filter = u /\ Result(u, k).delay = k
    BY DEF Result
  <2>2. HandleNext(Result(s, 0), 2) = Result(u2, d2)
    <3>1. HandleNext(Result(s, 0), 2) =
              Result(u2, IF 0 > d2 THEN 0 ELSE d2)
      BY <2>1, Zenon DEF HandleNext
    <3> QED
      BY <1>6, <3>1
  <2>3. HandleNext(Result(u2, d2), 3) =
           Result(u3, IF d2 > d3 THEN d2 ELSE d3)
    <3>1. Handle(Result(u2, d2).filter, 3) = h3
      BY <2>1, Zenon
    <3> QED
      BY <2>1, <3>1, Zenon DEF HandleNext
  <2> DEFINE d == IF d2 > d3 THEN d2 ELSE d3
             r == HandleNext(HandleNext(Result(s, 0), 2), 3)
  <2>4. t = SendUndelayed(r.filter, r.delay)
    BY Zenon DEF SendAnyValid
  <2> HIDE DEF d, d2, u3, h2, h3
  <2>5. r = Result(u3, d)
    BY <2>2, <2>3, Zenon DEF d
  <2> QED
    BY <2>1, <2>4, <2>5, Zenon DEF d
<1>8. u3 \in Filter /\ Alike(u2, u3) /\ Alike(s, u3) /\ Len(u3.pending) \in Nat
  <2> HIDE DEF u2, u3, d3
  <2>1. Alike(u2, u3) /\ u3 \in Filter
    BY <1>4 DEF Handled, Alike, Keeps
  <2> QED
    BY <1>3, <2>1, AlikeThenAlike, PendingIs
<1> HIDE DEF h2, u2, d2, h3, u3, d3, n
<1>9. /\ d2 = 0 /\ d3 = 0 => t = SendAll(u3)
      /\ (d2 > 0 \/ d3 > 0) /\ (d2 >= Len(u3.pending) \/ d3 >= Len(u3.pending))
            => t = u3
  BY <1>6, <1>7, <1>8, SendUndelayedDoes
<1>10. CASE Waits(s, 2, u2, d2)
  <2>1. u2.pending = s.pending /\ ~Fired(s, 2)
        /\ (d2 > 0 => d2 = n /\ Taps(s, 2, n)) /\ Rests(s, 2, u2, d2)
    BY <1>6, <1>10 DEF Waits, n
  <2>6. u2.emulationButton = s.emulationButton
    BY <2>1 DEF Rests
  <2>2. /\ \A k : Taps(u2, 3, k) <=> Taps(s, 3, k)
        /\ Fired(u2, 3) <=> Fired(s, 3)
        /\ AfterTap(u2, 3) <=> AfterTap(s, 3)
        /\ Presses(u2, 3) <=> Presses(s, 3)
    BY <1>3, <2>1, SameTaps
  <2>3. CASE Waits(u2, 3, u3, d3)
    <3>1. u3.pending = s.pending /\ ~Fired(s, 3)
          /\ (d3 > 0 => d3 = n /\ Taps(s, 3, n)) /\ Rests(u2, 3, u3, d3)
      BY <1>6, <2>1, <2>2, <2>3 DEF Waits, n
    <3>2. AlikeAs(s, u3, s.pending, s.emulationButton)
      BY <1>8, <2>6, <3>1 DEF AlikeAs, AlikeWith, Rests
    <3>3. CASE d2 = 0 /\ d3 = 0
      BY <1>9, <3>2, <3>3 DEF Flushed
    <3>4. CASE d2 > 0 \/ d3 > 0
      <4>1. t = u3
        BY <1>5, <1>6, <1>9, <2>1, <3>1, <3>4 DEF n
      <4>2. n > 0 /\ \E b \in Emulated : Taps(s, b, n)
        BY <1>1, <1>5, <1>6, <2>1, <3>1, <3>4
      <4>3. \A b \in Emulated : ~Fired(s, b)
        BY <1>1, <2>1, <3>1
      <4>4. Timed(u3)
        BY <1>3, <1>5, <1>6, <1>8, <2>1, <2>2, <3>1, <3>4, BothRest DEF n
      <4> QED
        BY <3>2, <4>1, <4>2, <4>3, <4>4 DEF Held, n
    <3> QED
      BY <1>6, <3>3, <3>4
  <2>4. CASE Discards(u2, 3, u3, d3)
    <3>1. u3.pending = <<>> /\ d3 = 0 /\ Len(u3.pending) = 0
      BY <2>4 DEF Discards
    <3>2. Gone(s, 3)
      BY <2>1, <2>2, <2>4 DEF Discards, Gone
    <3>3. t = u3
      BY <1>6, <1>8, <1>9, <3>1, SendAllNothing
    <3> QED
      BY <1>1, <1>8, <2>4, <2>6, <3>1, <3>2, <3>3
      DEF Taken, AlikeAs, AlikeWith, Discards
  <2>5. CASE Replaces(u2, 3, u3, d3)
    <3>1. u3.pending = <<ButtonEvent(3, TRUE)>> /\ d3 = 0 /\ Presses(s, 3)
          /\ u3.emulationButton = 3
      BY <2>2, <2>5 DEF Replaces
    <3>2. ~(n > 0 /\ Taps(s, 2, n))
      <4>1. ASSUME NEW i \in 1 .. n, Is(s.pending[i], "button", 1, TRUE)
            PROVE  ~Taps(s, 2, n)
        BY <4>1 DEF Taps, Tap, Is
      <4>2. \/ n = 1 /\ Is(s.pending[1], "button", 1, TRUE)
            \/ n = 2 /\ Is(s.pending[2], "button", 1, TRUE)
            \/ n > 2 /\ Is(s.pending[3], "button", 1, TRUE)
        BY <3>1 DEF Presses, AfterTap, n
      <4>3. \E i \in 1 .. n : Is(s.pending[i], "button", 1, TRUE)
        <5>1. n = 1 => 1 \in 1 .. n
          OBVIOUS
        <5>2. n = 2 => 2 \in 1 .. n
          OBVIOUS
        <5>3. n > 2 => 3 \in 1 .. n
          BY <1>5
        <5> QED
          BY <4>2, <5>1, <5>2, <5>3
      <4> QED
        BY <4>1, <4>3
    <3>3. t = SendAll(u3)
      BY <1>5, <1>6, <1>9, <2>1, <3>1, <3>2
    <3> QED
      BY <1>1, <1>8, <3>1, <3>3 DEF Emulates, AlikeAs, AlikeWith
  <2> QED
    BY <1>4, <2>3, <2>4, <2>5 DEF Handled
<1>11. CASE Discards(s, 2, u2, d2)
  <2>1. u2.pending = <<>> /\ d2 = 0 /\ Gone(s, 2) /\ Len(u2.pending) = 0
        /\ u2.emulationButton = s.emulationButton
    BY <1>11 DEF Discards, Gone
  <2>2. ~Fired(u2, 3) /\ ~AfterTap(u2, 3) /\ ~Presses(u2, 3)
    <3>1. u2.profile[3].count \in 1 .. 5
      BY <1>1, <1>3, ProfileIs
    <3> QED
      BY <2>1, <3>1 DEF Fired, AfterTap, Presses
  <2>3. u3.pending = <<>> /\ d3 = 0
        /\ u3.emulationButton = s.emulationButton
    BY <1>4, <1>6, <2>1, <2>2 DEF Handled, Waits, Discards, Replaces, Rests
  <2>4. t = u3
    BY <1>8, <1>9, <2>1, <2>3, SendAllNothing
  <2> QED
    BY <1>1, <1>8, <2>1, <2>3, <2>4 DEF Taken, AlikeAs, AlikeWith
<1>12. CASE Replaces(s, 2, u2, d2)
  <2>1. u2.pending = <<ButtonEvent(2, TRUE)>> /\ d2 = 0 /\ Presses(s, 2)
        /\ u2.emulationButton = 2
    BY <1>12 DEF Replaces
  <2>2. Len(u2.pending) = 1 /\ u2.pending[1] = ButtonEvent(2, TRUE)
    BY <2>1
  <2>3. ~Fired(u2, 3) /\ ~AfterTap(u2, 3) /\ ~Presses(u2, 3)
        /\ ~Taps(u2, 3, 1)
    <3>1. u2.profile[3].count \in 1 .. 5
      BY <1>1, <1>3, ProfileIs
    <3>2. ~Taps(u2, 3, 1)
      <4>1. u2.pending[1].what # "modifier"
        BY <2>2 DEF ButtonEvent
      <4>2. ~Tap(u2, 3, 1, TRUE)
        BY <4>1 DEF Tap, Is
      <4> QED
        BY <4>2, TapsAre
    <3>3. ~Presses(u2, 3)
      BY <2>2 DEF Presses, AfterTap, Is, ButtonEvent
    <3> QED
      BY <2>2, <3>1, <3>2, <3>3 DEF Fired, AfterTap
  <2>4. u3.pending = u2.pending /\ d3 = 0
        /\ u3.emulationButton = u2.emulationButton
    BY <1>4, <1>6, <2>2, <2>3 DEF Handled, Waits, Discards, Replaces, Rests
  <2>5. t = SendAll(u3)
    BY <1>9, <2>1, <2>4
  <2> QED
    BY <1>1, <1>8, <2>1, <2>4, <2>5 DEF Emulates, AlikeAs, AlikeWith
<1> QED
  BY <1>2, <1>10, <1>11, <1>12 DEF Handled

-----------------------------------------------------------------------------
(* What a queue between two handlers is like, and what one more event does *)
(* to it.                                                                  *)

\* Nothing waits but modifiers and releases: the taps of a scenario, or what
\* was put in the queue for good.
Quiet(s) ==
    \A i \in 1 .. Len(s.pending) :
       s.pending[i].what = "modifier" \/ ~s.pending[i].down

NotFired(s) == \A b \in Emulated : ~Fired(s, b)

\* The modifiers that wait were released before, and are tapped.
Fresh(s) ==
    \A i \in 1 .. Len(s.pending) :
       s.pending[i].what = "modifier" =>
          /\ Is(s.pending[1], "modifier", s.pending[i].arg, TRUE)
          /\ s.pending[i].arg \notin s.pressedModifiers

Sound(s) ==
    /\ s \in Filter /\ Mirrors(s) /\ ViewsOnly(s)
    /\ Quiet(s) /\ NotFired(s) /\ Fresh(s) /\ Timed(s)

\* Only what is in X is held when all that waits has been sent.
Holds(s, what, X) == \A x : StillHeldIn(s, what, x) => x \in X

LEMMA AppendIs ==
    ASSUME NEW s \in Filter, NEW e \in Event,
           NEW w, w = [s EXCEPT !.pending = Append(@, e)]
    PROVE  /\ Alike(s, w) /\ w \in Filter
           /\ w.pending = Append(s.pending, e)
           /\ Len(s.pending) \in Nat /\ Len(w.pending) = Len(s.pending) + 1
           /\ w.pending[Len(s.pending) + 1] = e
           /\ \A i \in 1 .. Len(s.pending) : w.pending[i] = s.pending[i]
<1>1. s.pending \in Seq(Event) /\ Len(s.pending) \in Nat
  BY PendingIs
<1>2. Append(s.pending, e) \in Seq(Event)
      /\ Len(Append(s.pending, e)) = Len(s.pending) + 1
      /\ Append(s.pending, e)[Len(s.pending) + 1] = e
      /\ \A i \in 1 .. Len(s.pending) : Append(s.pending, e)[i] = s.pending[i]
  BY <1>1, AppendProperties
<1> DEFINE q == Append(s.pending, e)
<1>3. w = [s EXCEPT !.pending = q]
  OBVIOUS
<1> HIDE DEF q
<1>4. w.pending = q
  BY <1>3 DEF Filter
<1>5. w \in Filter
  BY <1>2, <1>3 DEF Filter, q
<1>6. Alike(s, w)
  BY <1>3, <1>5 DEF Alike, Keeps, Filter
<1> QED
  BY <1>1, <1>2, <1>4, <1>5, <1>6 DEF q

\* Before an event that completes a click, ends it or makes the press of an
\* emulated button, nothing but modifiers waits; the event presses something,
\* or releases the modifier that was tapped.
LEMMA BeforeTheEnd ==
    ASSUME NEW s \in Filter, Quiet(s), NotFired(s), NEW e \in Event,
           NEW w, w = [s EXCEPT !.pending = Append(@, e)],
           NEW b \in Emulated, Gone(w, b) \/ Presses(w, b)
    PROVE  /\ \A i \in 1 .. Len(s.pending) : s.pending[i].what = "modifier"
           /\ \/ e.down
              \/ /\ Len(s.pending) > 0 /\ s.pending[1].what = "modifier"
                 /\ e.what = "modifier" /\ e.arg = s.pending[1].arg
<1> DEFINE n == Len(s.pending)
           m == s.profile[b].modifier
<1>1. /\ n \in Nat /\ Len(w.pending) = n + 1 /\ w.pending[n + 1] = e
      /\ \A i \in 1 .. n : w.pending[i] = s.pending[i]
      /\ w.profile = s.profile
  BY AppendIs DEF Alike, Keeps
<1>2. ASSUME NEW k \in Nat, NEW i \in 1 .. k, Taps(w, b, k), k <= n + 1
      PROVE  /\ w.pending[i].what = "modifier" /\ w.pending[i].arg = m
             /\ w.pending[i].down = (i % 2 = 1)
  BY <1>1, <1>2 DEF Taps, Tap, Is
<1> HIDE DEF n, m
<1>3. CASE Fired(w, b)
  <2> DEFINE full == 2 * s.profile[b].count
  <2>1. full \in Nat /\ full >= 2 /\ full % 2 = 0
    <3>1. s.profile[b].count \in 1 .. 5
      BY ProfileIs
    <3>2. \A c \in 1 .. 5 : 2 * c \in Nat /\ 2 * c >= 2 /\ (2 * c) % 2 = 0
      OBVIOUS
    <3> QED
      BY <3>1, <3>2
  <2>2. full <= n + 1 /\ Taps(w, b, full)
        /\ s.profile[b].scenario = "multiTap"
    BY <1>1, <1>3 DEF Fired
  <2>3. full = n + 1
    <3> SUFFICES ASSUME full # n + 1 PROVE FALSE
      OBVIOUS
    <3>1. full <= n
      BY <1>1, <2>1, <2>2
    <3>2. Taps(s, b, full)
      BY <1>1, <2>1, <2>2, <3>1 DEF Taps, Tap
    <3> QED
      BY <2>2, <3>1, <3>2 DEF NotFired, Fired, n
  <2>4. n + 1 \in 1 .. full /\ 1 \in 1 .. full /\ 1 \in 1 .. n /\ n > 0
    BY <1>1, <2>1, <2>3
  <2>5. /\ e.what = "modifier" /\ e.arg = m
        /\ s.pending[1].what = "modifier" /\ s.pending[1].arg = m
    <3> HIDE DEF full
    <3>1. \A i \in 1 .. full :
             w.pending[i].what = "modifier" /\ w.pending[i].arg = m
      BY <1>2, <2>1, <2>2, <2>3
    <3>2. w.pending[1] = s.pending[1] /\ w.pending[n + 1] = e
      BY <1>1, <2>4
    <3> QED
      BY <2>4, <3>1, <3>2
  <2>6. \A i \in 1 .. n : s.pending[i].what = "modifier"
    <3> HIDE DEF full
    <3>1. \A i \in 1 .. n : i \in 1 .. full
      BY <1>1, <2>1, <2>3
    <3> QED
      BY <1>1, <1>2, <2>1, <2>2, <3>1
  <2> QED
    BY <2>4, <2>5, <2>6 DEF n
<1>4. ASSUME AfterTap(w, b), w.pending[3].down,
             w.pending[3].what # "modifier"
      PROVE  /\ \A i \in 1 .. n : s.pending[i].what = "modifier"
             /\ e.down
  <2>1. n + 1 > 2 /\ Taps(w, b, 2)
    BY <1>1, <1>4 DEF AfterTap
  <2>2. n = 2
    <3> SUFFICES ASSUME n # 2 PROVE FALSE
      OBVIOUS
    <3>1. 3 \in 1 .. n
      BY <1>1, <2>1
    <3> QED
      BY <1>1, <1>4, <3>1 DEF Quiet, n
  <2>3. \A i \in 1 .. 2 : w.pending[i].what = "modifier"
    <3>1. 2 \in Nat /\ 2 <= n + 1
      BY <2>2
    <3> QED
      BY <1>2, <2>1, <3>1
  <2> QED
    BY <1>1, <1>4, <2>2, <2>3
<1>5. CASE AfterTap(w, b) /\ Is(w.pending[3], "key", "esc", TRUE)
  BY <1>4, <1>5 DEF Is, n
<1>6. CASE Presses(w, b)
  <2>1. CASE Len(w.pending) = 1 /\ Is(w.pending[1], "button", 1, TRUE)
    <3>1. n = 0
      BY <1>1, <2>1
    <3> QED
      BY <1>1, <2>1, <3>1 DEF Is
  <2>2. CASE /\ Len(w.pending) = 2 /\ Taps(w, b, 1)
             /\ Is(w.pending[2], "button", 1, TRUE)
    <3>1. n = 1
      BY <1>1, <2>2
    <3>2. w.pending[1].what = "modifier"
      BY <1>2, <2>2, <3>1
    <3> QED
      BY <1>1, <2>2, <3>1, <3>2 DEF Is
  <2>3. CASE AfterTap(w, b) /\ Is(w.pending[3], "button", 1, TRUE)
    BY <1>4, <2>3 DEF Is, n
  <2> QED
    BY <1>6, <2>1, <2>2, <2>3 DEF Presses
<1> QED
  BY <1>3, <1>5, <1>6 DEF Gone, n

\* What is pressed and not tapped is still held.
LEMMA PressedIsHeld ==
    ASSUME NEW s \in Filter, Fresh(s), NEW x \in s.pressedModifiers
    PROVE  StillHeldIn(s, "modifier", x)
<1>1. \A j \in 1 .. Len(s.pending) : ~Is(s.pending[j], "modifier", x, FALSE)
  BY DEF Fresh, Is
<1> QED
  BY <1>1 DEF StillHeldIn, StillHeld, Pressed

LEMMA PressedAmongModifiers ==
    ASSUME NEW s \in Filter, Fresh(s),
           \A i \in 1 .. Len(s.pending) : s.pending[i].what = "modifier",
           NEW what \in Kinds, NEW x \in Pressed(s, what)
    PROVE  StillHeldIn(s, what, x)
<1>1. CASE what = "modifier"
  BY <1>1, PressedIsHeld DEF Pressed
<1>2. CASE what # "modifier"
  BY <1>2 DEF StillHeldIn, StillHeld, Is
<1> QED
  BY <1>1, <1>2

\* Nothing waits: what is pressed is held.
LEMMA EmptyIsSound ==
    ASSUME NEW t \in Filter, Mirrors(t), ViewsOnly(t), t.pending = <<>>
    PROVE  /\ Sound(t)
           /\ \A what, x : StillHeldIn(t, what, x) <=> x \in Pressed(t, what)
<1>1. Len(t.pending) = 0
  OBVIOUS
<1>2. Quiet(t) /\ Fresh(t) /\ Timed(t)
  BY <1>1 DEF Quiet, Fresh, Timed
<1>3. NotFired(t)
  <2> SUFFICES ASSUME NEW b \in Emulated PROVE ~Fired(t, b)
    BY DEF NotFired
  <2>1. t.profile[b].count \in 1 .. 5
    BY ProfileIs
  <2> QED
    BY <1>1, <2>1 DEF Fired
<1>4. \A what, x : StillHeldIn(t, what, x) <=> x \in Pressed(t, what)
  BY <1>1, StillHeldNone DEF StillHeldIn
<1> QED
  BY <1>2, <1>3, <1>4 DEF Sound

LEMMA AlikeIs ==
    ASSUME NEW s, NEW t, Alike(s, t)
    PROVE  /\ t \in Filter /\ Keeps(s, t)
           /\ Mirrors(s) => Mirrors(t)
           /\ ViewsOnly(s) => ViewsOnly(t)
           /\ \A what \in Kinds : Pressed(t, what) = Pressed(s, what)
<1>1. \A what \in Kinds : Pressed(t, what) = Pressed(s, what)
  BY DEF Alike, Pressed, Kinds
<1>2. (Mirrors(s) => Mirrors(t)) /\ (ViewsOnly(s) => ViewsOnly(t))
  BY DEF Alike, Keeps, Mirrors, ViewsOnly
<1> QED
  BY <1>1, <1>2 DEF Alike, Keeps

LEMMA KeepsThenKeeps ==
    ASSUME NEW s, NEW t, NEW u, Keeps(s, t), Keeps(t, u)
    PROVE  Keeps(s, u)
BY DEF Keeps

\* A filter in which q waits instead, when all has been sent.
LEMMA SendAlike ==
    ASSUME NEW s \in Filter, Mirrors(s), ViewsOnly(s),
           NEW u, NEW q, NEW k, AlikeAs(s, u, q, k), NEW t, t = SendAll(u)
    PROVE  /\ Sound(t) /\ Keeps(s, t) /\ t.emulationButton = k
           /\ \A what \in Kinds : \A x :
                 StillHeldIn(t, what, x) =>
                    StillHeld(Pressed(s, what), q, Len(q), what, x)
<1>1. /\ u \in Filter /\ Keeps(s, u) /\ Mirrors(u) /\ ViewsOnly(u)
      /\ \A what \in Kinds : Pressed(u, what) = Pressed(s, what)
      /\ u.pending = q /\ u.emulationButton = k
  BY AlikeIs DEF AlikeWith, AlikeAs
<1>2. /\ t.emulationButton = u.emulationButton
      /\ Keeps(u, t) /\ Mirrors(t) /\ ViewsOnly(t) /\ t.pending = <<>>
      /\ \A what \in Kinds : \A x \in Pressed(t, what) :
            StillHeldIn(u, what, x)
  BY <1>1, SendAllDoes
<1>3. t \in Filter
  BY <1>2 DEF Keeps
<1>4. /\ Sound(t)
      /\ \A what, x : StillHeldIn(t, what, x) <=> x \in Pressed(t, what)
  BY <1>2, <1>3, EmptyIsSound
<1>5. ASSUME NEW what \in Kinds, NEW x, StillHeldIn(t, what, x)
      PROVE  StillHeld(Pressed(s, what), q, Len(q), what, x)
  <2>1. StillHeldIn(u, what, x)
    BY <1>2, <1>4, <1>5
  <2> QED
    BY <1>1, <2>1 DEF StillHeldIn
<1>6. Keeps(s, t)
  BY <1>1, <1>2, KeepsThenKeeps
<1> QED
  BY <1>1, <1>2, <1>4, <1>5, <1>6

\* What e leaves held, where the press of a mouse button does not count: it
\* may become that of an emulated one.
LeavesHeld(s, e, t) ==
    \A what \in Kinds : \A x :
       /\ StillHeldIn(t, what, x)
       /\ what = "button" /\ e.what = "button" => ~e.down
       => \/ Is(e, what, x, TRUE)
          \/ StillHeldIn(s, what, x) /\ ~Is(e, what, x, FALSE)

\* The buttons: the emulation button stays, or e is a press that has become
\* that of an emulated button.
Clicked(s, e, t) ==
    \/ /\ t.emulationButton = s.emulationButton
       /\ \A x : StillHeldIn(t, "button", x) =>
             \/ Is(e, "button", x, TRUE)
             \/ StillHeldIn(s, "button", x) /\ ~Is(e, "button", x, FALSE)
    \/ /\ e.what = "button" /\ e.down /\ t.emulationButton \in Emulated
       /\ \A x : StillHeldIn(t, "button", x) =>
             x = t.emulationButton \/ StillHeldIn(s, "button", x)

Queued(s, e, t) ==
    /\ Sound(t) /\ Keeps(s, t) /\ LeavesHeld(s, e, t) /\ Clicked(s, e, t)

LEMMA QueueDoes ==
    ASSUME NEW s, Sound(s), NEW e \in Event,
           e.what = "modifier" /\ e.down => e.arg \notin s.pressedModifiers,
           NEW t, t = Queue(s, e)
    PROVE  Queued(s, e, t)
<1> DEFINE w == [s EXCEPT !.pending = Append(@, e)]
           n == Len(s.pending)
<1>1. s \in Filter /\ Mirrors(s) /\ ViewsOnly(s) /\ Quiet(s) /\ NotFired(s)
      /\ Fresh(s)
  BY DEF Sound
<1>2. /\ Alike(s, w) /\ w \in Filter /\ w.pending = Append(s.pending, e)
      /\ n \in Nat /\ Len(w.pending) = n + 1 /\ w.pending[n + 1] = e
      /\ \A i \in 1 .. n : w.pending[i] = s.pending[i]
  BY <1>1, AppendIs
<1>3. t = SendAnyValid(w)
  BY DEF Queue
<1>4. ASSUME NEW b \in Emulated, Gone(w, b) \/ Presses(w, b)
      PROVE  /\ \A i \in 1 .. n : s.pending[i].what = "modifier"
             /\ \/ e.down
                \/ /\ n > 0 /\ s.pending[1].what = "modifier"
                   /\ e.what = "modifier" /\ e.arg = s.pending[1].arg
  BY <1>1, <1>4, BeforeTheEnd
<1> HIDE DEF w, n
<1>5. /\ Keeps(s, w) /\ Mirrors(w) /\ ViewsOnly(w)
      /\ \A what \in Kinds : Pressed(w, what) = Pressed(s, what)
      /\ w.pressedModifiers = s.pressedModifiers
  BY <1>1, <1>2, AlikeIs DEF Alike
<1>12. w.emulationButton = s.emulationButton
  BY <1>1 DEF w, Filter
<1>13. "button" \in Kinds
  BY DEF Kinds
<1>6. ASSUME NEW what \in Kinds, NEW x
      PROVE  StillHeldIn(w, what, x) <=>
                \/ Is(e, what, x, TRUE)
                \/ StillHeldIn(s, what, x) /\ ~Is(e, what, x, FALSE)
  <2>1. s.pending \in Seq(Event)
    BY <1>1, PendingIs
  <2>2. \A P : StillHeld(P, Append(s.pending, e), Len(Append(s.pending, e)),
                        what, x) <=>
                 \/ Is(e, what, x, TRUE)
                 \/ StillHeld(P, s.pending, Len(s.pending), what, x)
                    /\ ~Is(e, what, x, FALSE)
    BY <2>1, StillHeldAppend
  <2>3. w.pending = Append(s.pending, e) /\ Pressed(w, what) = Pressed(s, what)
    BY <1>2, <1>5
  <2> QED
    BY <2>2, <2>3, Zenon DEF StillHeldIn
<1>7. ASSUME NEW b \in Emulated, Gone(w, b) \/ Presses(w, b),
             NEW what \in Kinds, NEW x \in Pressed(s, what)
      PROVE  StillHeldIn(w, what, x) /\ StillHeldIn(s, what, x)
  <2>1. StillHeldIn(s, what, x)
    BY <1>1, <1>4, <1>7, PressedAmongModifiers DEF n
  <2>2. ~Is(e, what, x, FALSE)
    <3> SUFFICES ASSUME Is(e, what, x, FALSE) PROVE FALSE
      OBVIOUS
    <3>1. /\ n > 0 /\ s.pending[1].what = "modifier"
          /\ what = "modifier" /\ x = s.pending[1].arg
      BY <1>4, <1>7 DEF Is
    <3>2. 1 \in 1 .. n
      BY <1>2, <3>1
    <3>3. x \notin s.pressedModifiers
      BY <1>1, <3>1, <3>2 DEF Fresh, n
    <3> QED
      BY <1>7, <3>1, <3>3 DEF Pressed
  <2> QED
    BY <1>6, <2>1, <2>2
<1>8. CASE Flushed(w, t)
  <2>1. PICK u : /\ AlikeAs(w, u, w.pending, w.emulationButton)
                 /\ t = SendAll(u)
    BY <1>8 DEF Flushed
  <2>2. /\ Sound(t) /\ Keeps(w, t) /\ t.emulationButton = w.emulationButton
        /\ \A what \in Kinds : \A x :
              StillHeldIn(t, what, x) => StillHeldIn(w, what, x)
    BY <1>2, <1>5, <2>1, SendAlike DEF StillHeldIn
  <2>3. LeavesHeld(s, e, t)
    BY <1>6, <2>2 DEF LeavesHeld
  <2>4. Keeps(s, t)
    BY <1>5, <2>2, KeepsThenKeeps
  <2>5. Clicked(s, e, t)
    BY <1>6, <1>12, <1>13, <2>2 DEF Clicked
  <2> QED
    BY <2>2, <2>3, <2>4, <2>5 DEF Queued
<1>9. CASE Held(w, t)
  <2>1. Alike(w, t) /\ t.pending = w.pending /\ Timed(t)
        /\ t.emulationButton = w.emulationButton
    BY <1>9 DEF Held, AlikeWith, AlikeAs
  <2>2. /\ t \in Filter /\ Keeps(w, t) /\ Mirrors(t) /\ ViewsOnly(t)
        /\ \A what \in Kinds : Pressed(t, what) = Pressed(w, what)
        /\ t.pressedModifiers = s.pressedModifiers
    BY <1>5, <2>1, AlikeIs DEF Alike
  <2>3. PICK b \in Emulated : Taps(w, b, n + 1)
    BY <1>2, <1>9 DEF Held
  <2>4. \A i \in 1 .. n + 1 : /\ w.pending[i].what = "modifier"
                              /\ w.pending[i].arg = w.profile[b].modifier
                              /\ w.pending[i].down = (i % 2 = 1)
    BY <2>3 DEF Taps, Tap, Is
  <2>5. Quiet(t)
    BY <1>2, <2>1, <2>4 DEF Quiet
  <2>6. NotFired(t)
    BY <1>9, <2>1, SameTaps DEF Held, NotFired
  <2>7. Fresh(t)
    <3>1. 1 \in 1 .. n + 1
      BY <1>2
    <3>2. /\ w.pending[1].what = "modifier" /\ w.pending[1].down
          /\ w.pending[1].arg = w.profile[b].modifier
      <4>1. 1 % 2 = 1
        OBVIOUS
      <4> QED
        BY <2>4, <3>1, <4>1
    <3>3. w.pending[1].arg \notin s.pressedModifiers
      <4>1. CASE n = 0
        <5>1. w.pending[1] = e
          BY <1>2, <4>1
        <5> QED
          BY <3>2, <5>1
      <4>2. CASE n # 0
        <5>1. 1 \in 1 .. n
          BY <1>2, <4>2
        <5>2. w.pending[1] = s.pending[1]
          BY <1>2, <5>1
        <5> QED
          BY <1>1, <3>2, <5>1, <5>2 DEF Fresh, n
      <4> QED
        BY <4>1, <4>2
    <3>4. Is(w.pending[1], "modifier", w.profile[b].modifier, TRUE)
      <4>1. w.pending[1].down = TRUE
        BY <2>4, <3>1, <3>2
      <4> QED
        BY <3>2, <4>1 DEF Is
    <3>5. \A i \in 1 .. n + 1 : w.pending[i].arg = w.profile[b].modifier
      BY <2>4
    <3>6. w.profile[b].modifier \notin t.pressedModifiers
      BY <2>2, <3>2, <3>3
    <3>7. Len(t.pending) = n + 1
      BY <1>2, <2>1
    <3> QED
      BY <2>1, <3>4, <3>5, <3>6, <3>7 DEF Fresh
  <2>8. LeavesHeld(s, e, t)
    BY <1>6, <2>1, <2>2 DEF LeavesHeld, StillHeldIn
  <2>9. Keeps(s, t)
    BY <1>5, <2>2, KeepsThenKeeps
  <2>10. Clicked(s, e, t)
    BY <1>6, <1>12, <1>13, <2>1, <2>2 DEF Clicked, StillHeldIn
  <2> QED
    BY <2>1, <2>2, <2>5, <2>6, <2>7, <2>8, <2>9, <2>10 DEF Queued, Sound
<1>10. CASE Taken(w, t)
  <2>1. Alike(w, t) /\ t.pending = <<>>
        /\ t.emulationButton = w.emulationButton
    BY <1>10 DEF Taken, AlikeWith, AlikeAs
  <2>2. PICK b \in Emulated : Gone(w, b)
    BY <1>10 DEF Taken
  <2>3. /\ t \in Filter /\ Keeps(w, t) /\ Mirrors(t) /\ ViewsOnly(t)
        /\ \A what \in Kinds : Pressed(t, what) = Pressed(w, what)
    BY <1>5, <2>1, AlikeIs
  <2>4. /\ Sound(t)
        /\ \A what, x : StillHeldIn(t, what, x) <=> x \in Pressed(t, what)
    BY <2>1, <2>3, EmptyIsSound
  <2>5. LeavesHeld(s, e, t)
    BY <1>5, <1>6, <1>7, <2>2, <2>3, <2>4 DEF LeavesHeld
  <2>6. Keeps(s, t)
    BY <1>5, <2>3, KeepsThenKeeps
  <2>7. Clicked(s, e, t)
    <3>1. ASSUME NEW x, StillHeldIn(t, "button", x)
          PROVE  \/ Is(e, "button", x, TRUE)
                 \/ StillHeldIn(s, "button", x) /\ ~Is(e, "button", x, FALSE)
      <4>1. x \in Pressed(s, "button")
        BY <1>5, <1>13, <2>3, <2>4, <3>1
      <4> QED
        BY <1>6, <1>7, <1>13, <2>2, <4>1
    <3> QED
      BY <1>12, <2>1, <3>1 DEF Clicked
  <2> QED
    BY <2>4, <2>5, <2>6, <2>7 DEF Queued
<1>11. CASE Emulates(w, t)
  <2>0. PICK u : \E b \in Emulated :
           /\ AlikeAs(w, u, <<ButtonEvent(b, TRUE)>>, b) /\ t = SendAll(u)
           /\ Presses(w, b)
    BY <1>11 DEF Emulates
  <2>1. PICK b \in Emulated :
           /\ AlikeAs(w, u, <<ButtonEvent(b, TRUE)>>, b) /\ t = SendAll(u)
           /\ Presses(w, b)
    BY <2>0
  <2> DEFINE q == <<ButtonEvent(b, TRUE)>>
  <2>2. /\ Sound(t) /\ Keeps(w, t) /\ t.emulationButton = b
        /\ \A what \in Kinds : \A x :
              StillHeldIn(t, what, x) =>
                 StillHeld(Pressed(w, what), q, Len(q), what, x)
    BY <1>2, <1>5, <2>1, SendAlike
  <2>3. Len(q) = 1 /\ q[1].what = "button" /\ q[1].arg = b
    BY DEF ButtonEvent
  <2> HIDE DEF q
  <2>4. e.what = "button" /\ e.down
    <3>1. PICK i \in 1 .. n + 1 : Is(w.pending[i], "button", 1, TRUE)
      <4>1. /\ 1 \in 1 .. n + 1
            /\ n + 1 = 2 => 2 \in 1 .. n + 1
            /\ n + 1 > 2 => 3 \in 1 .. n + 1
        BY <1>2
      <4>2. \/ n + 1 = 1 /\ Is(w.pending[1], "button", 1, TRUE)
            \/ n + 1 = 2 /\ Is(w.pending[2], "button", 1, TRUE)
            \/ n + 1 > 2 /\ Is(w.pending[3], "button", 1, TRUE)
        BY <1>2, <2>1 DEF Presses, AfterTap
      <4> QED
        BY <4>1, <4>2
    <3>2. CASE i \in 1 .. n
      <4>1. s.pending[i].what = "modifier"
        BY <1>4, <2>1, <3>2
      <4> QED
        BY <1>2, <3>1, <3>2, <4>1 DEF Is
    <3>3. CASE i = n + 1
      BY <1>2, <3>1, <3>3 DEF Is
    <3> QED
      BY <1>2, <3>2, <3>3
  <2>5. ASSUME NEW what \in Kinds, what # "button", NEW x,
               StillHeldIn(t, what, x)
        PROVE  StillHeldIn(w, what, x)
    <3>1. StillHeld(Pressed(w, what), q, 1, what, x)
      BY <2>2, <2>3, <2>5
    <3>2. x \in Pressed(s, what)
      BY <1>5, <2>3, <2>5, <3>1 DEF StillHeld, Is
    <3> QED
      BY <1>7, <2>1, <3>2
  <2>6. LeavesHeld(s, e, t)
    BY <1>6, <2>4, <2>5 DEF LeavesHeld
  <2>7. Keeps(s, t)
    BY <1>5, <2>2, KeepsThenKeeps
  <2>8. Clicked(s, e, t)
    <3>1. ASSUME NEW x, StillHeldIn(t, "button", x)
          PROVE  x = b \/ StillHeldIn(s, "button", x)
      <4>1. StillHeld(Pressed(w, "button"), q, 1, "button", x)
        BY <1>13, <2>2, <2>3, <3>1
      <4>2. x \in Pressed(s, "button") \/ Is(q[1], "button", x, TRUE)
        <5>1. \A i \in 1 .. 1 : i = 1
          OBVIOUS
        <5>2. Pressed(w, "button") = Pressed(s, "button")
          BY <1>5, <1>13
        <5> QED
          BY <4>1, <5>1, <5>2, Zenon DEF StillHeld
      <4>3. CASE x \in Pressed(s, "button")
        BY <1>7, <1>13, <2>1, <4>3
      <4>4. CASE Is(q[1], "button", x, TRUE)
        BY <2>3, <4>4 DEF Is
      <4> QED
        BY <4>2, <4>3, <4>4
    <3> QED
      BY <2>2, <2>4, <3>1 DEF Clicked
  <2> QED
    BY <2>2, <2>6, <2>7, <2>8 DEF Queued
<1> QED
  BY <1>2, <1>3, <1>5, <1>8, <1>9, <1>10, <1>11, SendAnyValidDoes

-----------------------------------------------------------------------------
(* queueModifiers: one modifier after the other.                           *)

\* t waits for the same, and has told the server the same.
Same(s, t) ==
    /\ t \in Filter
    /\ t.pending = s.pending /\ t.profile = s.profile
    /\ t.viewOnly = s.viewOnly /\ t.server = s.server
    /\ t.pressedButtons = s.pressedButtons /\ t.pressedKeys = s.pressedKeys
    /\ t.pressedModifiers = s.pressedModifiers
    /\ t.multiTapTimer = s.multiTapTimer /\ t.tapTimer = s.tapTimer

\* From s to t, no button was pressed, and none of the scenarios has been
\* edited or has emulated one.
Along(s, t) ==
    /\ t.profile = s.profile /\ t.emulationButton = s.emulationButton
    /\ \A x : StillHeldIn(t, "button", x) => StillHeldIn(s, "button", x)

LEMMA AlongItself == ASSUME NEW s PROVE Along(s, s)
BY DEF Along

LEMMA AlongThen ==
    ASSUME NEW s, NEW t, NEW u, Along(s, t), Along(t, u)
    PROVE  Along(s, u)
BY DEF Along

LEMMA QueuedAlong ==
    ASSUME NEW s, NEW e, NEW t, Queued(s, e, t), e.what # "button"
    PROVE  Along(s, t)
BY DEF Queued, Keeps, Clicked, Along, Is

LEMMA SameIsAlong ==
    ASSUME NEW s, Sound(s), NEW t, Same(s, t),
           t.emulationButton = s.emulationButton
    PROVE  Along(s, t)
BY DEF Same, Along, StillHeldIn, Pressed

LEMMA SameIsSound ==
    ASSUME NEW s, Sound(s), NEW t, Same(s, t)
    PROVE  /\ Sound(t)
           /\ \A what \in Kinds : \A x :
                 StillHeldIn(t, what, x) <=> StillHeldIn(s, what, x)
<1>1. Mirrors(t) /\ ViewsOnly(t)
  BY DEF Same, Sound, Mirrors, ViewsOnly
<1>2. Quiet(t) /\ Fresh(t) /\ Timed(t)
  BY DEF Same, Sound, Quiet, Fresh, Timed
<1>3. NotFired(t)
  BY DEF Same, Sound, NotFired, Fired, Taps, Tap
<1>4. \A what \in Kinds : Pressed(t, what) = Pressed(s, what)
  BY DEF Same, Pressed, Kinds
<1>5. \A what \in Kinds : \A x :
         StillHeldIn(t, what, x) <=> StillHeldIn(s, what, x)
  BY <1>4 DEF StillHeldIn, Same
<1> QED
  BY <1>1, <1>2, <1>3, <1>5 DEF Sound, Same

\* What is held of the kinds that e does not press is held already.
LEMMA LeftAlone ==
    ASSUME NEW s, NEW e, NEW t, LeavesHeld(s, e, t),
           NEW what \in Kinds, e.what # what \/ ~e.down,
           NEW x, StillHeldIn(t, what, x)
    PROVE  StillHeldIn(s, what, x) /\ ~Is(e, what, x, FALSE)
<1>1. ~Is(e, what, x, TRUE)
  BY DEF Is
<1>2. what = "button" /\ e.what = "button" => ~e.down
  OBVIOUS
<1> QED
  BY <1>1, <1>2 DEF LeavesHeld

LEMMA QueueModifierReleasedDoes ==
    ASSUME NEW s, Sound(s), NEW m \in Modifiers, NEW late \in BOOLEAN,
           NEW t, t = QueueModifierReleased(s, m, late)
    PROVE  Queued(s, ModifierEvent(m, FALSE, late), t)
<1> DEFINE d == [b \in Emulated |->
                    s.stillDown[b] /\ ~(s.profile[b].scenario = "hold"
                                        /\ s.profile[b].modifier = m)]
           u == [s EXCEPT !.stillDown = d]
           e == ModifierEvent(m, FALSE, late)
<1>1. s \in Filter /\ d \in [Emulated -> BOOLEAN]
  BY DEF Sound
<1>2. t = Queue(u, e)
  BY DEF QueueModifierReleased
<1>3. e \in Event /\ e.what = "modifier" /\ e.down = FALSE
  BY DEF ModifierEvent, Event
<1> HIDE DEF d, e
<1>4. Same(s, u) /\ Keeps(s, u) /\ u.emulationButton = s.emulationButton
  BY <1>1 DEF Same, Keeps, Filter
<1> HIDE DEF u
<1>5. /\ Sound(u)
      /\ \A what \in Kinds : \A x :
            StillHeldIn(u, what, x) <=> StillHeldIn(s, what, x)
  BY <1>4, SameIsSound
<1>6. Queued(u, e, t)
  BY <1>2, <1>3, <1>5, QueueDoes
<1>7. Keeps(s, t) /\ Sound(t) /\ LeavesHeld(u, e, t)
  BY <1>4, <1>6, KeepsThenKeeps DEF Queued
<1>8. LeavesHeld(s, e, t)
  BY <1>5, <1>7 DEF LeavesHeld
<1>9. Clicked(s, e, t)
  <2>1. Clicked(u, e, t) /\ "button" \in Kinds
    BY <1>6 DEF Queued, Kinds
  <2> QED
    BY <1>4, <1>5, <2>1 DEF Clicked
<1> QED
  BY <1>7, <1>8, <1>9 DEF Queued, e

LEMMA MasksAre ==
    /\ Len(Masks) = 7 /\ \A i \in 1 .. 7 : Masks[i] \in Modifiers
    /\ \A i \in 1 .. 7, j \in 1 .. 7 : Masks[i] = Masks[j] => i = j
    /\ \A m \in Modifiers : \E i \in 1 .. 7 : Masks[i] = m
<1>1. Len(Masks) = 7
  BY DEF Masks
<1>2. \A i \in 1 .. 7, j \in 1 .. 7 : Masks[i] = Masks[j] => i = j
  BY DEF Masks
<1>3. DOMAIN Masks = 1 .. 7
  BY DEF Masks
<1>4. Modifiers = {Masks[i] : i \in DOMAIN Masks}
  BY DEF Modifiers, ToSet
<1> QED
  BY <1>1, <1>2, <1>3, <1>4

\* The modifiers that are queued as pressed, after the first i were compared.
Partly(old, new, i) ==
    {x \in Modifiers : IF \E j \in 1 .. i : Masks[j] = x THEN x \in new
                                                         ELSE x \in old}

LEMMA PartlyIs ==
    ASSUME NEW old, NEW new
    PROVE  /\ Partly(old, new, 0) = old \cap Modifiers
           /\ Partly(old, new, 7) = new \cap Modifiers
           /\ \A i \in 1 .. 7 :
                 /\ Masks[i] \in Partly(old, new, i - 1) => Masks[i] \in old
                 /\ (Partly(old, new, i - 1) \ {Masks[i]})
                    \cup (new \cap {Masks[i]}) \subseteq Partly(old, new, i)
<1> USE MasksAre DEF Partly
<1>1. Partly(old, new, 0) = old \cap Modifiers
  OBVIOUS
<1>2. Partly(old, new, 7) = new \cap Modifiers
  OBVIOUS
<1>3. ASSUME NEW i \in 1 .. 7
      PROVE  /\ Masks[i] \in Partly(old, new, i - 1) => Masks[i] \in old
             /\ (Partly(old, new, i - 1) \ {Masks[i]})
                \cup (new \cap {Masks[i]}) \subseteq Partly(old, new, i)
  <2>1. \A j \in 1 .. i - 1 : j \in 1 .. 7 /\ j \in 1 .. i /\ j # i
    OBVIOUS
  <2>2. Masks[i] \in Partly(old, new, i - 1) => Masks[i] \in old
    BY <2>1
  <2>3. \A j \in 1 .. i : j = i \/ j \in 1 .. i - 1
    OBVIOUS
  <2>4. ASSUME NEW x \in Partly(old, new, i - 1), x # Masks[i]
        PROVE  x \in Partly(old, new, i)
    BY <2>1, <2>3, <2>4
  <2>5. Masks[i] \in new => Masks[i] \in Partly(old, new, i)
    <3>1. i \in 1 .. i /\ Masks[i] \in Modifiers
      OBVIOUS
    <3> QED
      BY <3>1
  <2> QED
    BY <2>2, <2>4, <2>5
<1> QED
  BY <1>1, <1>2, <1>3

\* From s to t, only modifiers were queued, and those in Q are held now.
OfModifiers(s, t, Q) ==
    /\ Sound(t) /\ Keeps(s, t) /\ Holds(t, "modifier", Q) /\ Along(s, t)
    /\ \A what \in Kinds \ {"modifier"} : \A x :
          StillHeldIn(t, what, x) => StillHeldIn(s, what, x)

LEMMA CompareDoes ==
    ASSUME NEW s, NEW Q, NEW old, NEW new, NEW m \in Modifiers,
           Sound(s), Holds(s, "modifier", Q), m \in Q => m \in old,
           NEW late \in BOOLEAN, NEW t, t = Compare(s, m, old, new, late)
    PROVE  OfModifiers(s, t, (Q \ {m}) \cup (new \cap {m}))
<1>1. ASSUME NEW e, e.what = "modifier", e.arg = m, e.down \in BOOLEAN,
             m \in new <=> e.down, Queued(s, e, t)
      PROVE  OfModifiers(s, t, (Q \ {m}) \cup (new \cap {m}))
  <2>1. Sound(t) /\ Keeps(s, t) /\ LeavesHeld(s, e, t)
    BY <1>1 DEF Queued
  <2>2. ASSUME NEW x, StillHeldIn(t, "modifier", x)
        PROVE  x \in (Q \ {m}) \cup (new \cap {m})
    <3>1. \/ Is(e, "modifier", x, TRUE)
          \/ StillHeldIn(s, "modifier", x) /\ ~Is(e, "modifier", x, FALSE)
      BY <1>1, <2>1, <2>2 DEF LeavesHeld, Kinds
    <3>2. x = m => m \in new
      BY <1>1, <3>1 DEF Is
    <3>3. x # m => x \in Q
      BY <1>1, <3>1 DEF Is, Holds
    <3> QED
      BY <3>2, <3>3
  <2>3. ASSUME NEW what \in Kinds \ {"modifier"}, NEW x,
               StillHeldIn(t, what, x)
        PROVE  StillHeldIn(s, what, x)
    BY <1>1, <2>1, <2>3, LeftAlone
  <2>4. Along(s, t)
    BY <1>1, QueuedAlong
  <2> QED
    BY <2>1, <2>2, <2>3, <2>4 DEF OfModifiers, Holds
<1>2. CASE m \in new \ old
  <2> DEFINE e == ModifierEvent(m, TRUE, FALSE)
  <2>1. t = Queue(s, e)
    BY <1>2 DEF Compare
  <2>2. e \in Event /\ e.what = "modifier" /\ e.arg = m /\ e.down = TRUE
    BY DEF ModifierEvent, Event
  <2> HIDE DEF e
  <2>3. m \notin s.pressedModifiers
    <3>1. ~StillHeldIn(s, "modifier", m)
      BY <1>2 DEF Holds
    <3> QED
      BY <3>1, PressedIsHeld DEF Sound
  <2>4. Queued(s, e, t)
    BY <2>1, <2>2, <2>3, QueueDoes
  <2> QED
    BY <1>1, <1>2, <2>2, <2>4
<1>3. CASE m \in old \ new
  <2> DEFINE e == ModifierEvent(m, FALSE, late)
  <2>1. t = QueueModifierReleased(s, m, late)
    BY <1>3 DEF Compare
  <2>2. e.what = "modifier" /\ e.arg = m /\ e.down = FALSE
    BY DEF ModifierEvent
  <2>3. Queued(s, e, t)
    BY <2>1, QueueModifierReleasedDoes
  <2> HIDE DEF e
  <2> QED
    BY <1>1, <1>3, <2>2, <2>3
<1>4. CASE (m \in old) = (m \in new)
  <2>1. t = s
    BY <1>4 DEF Compare
  <2>2. Q \subseteq (Q \ {m}) \cup (new \cap {m})
    BY <1>4
  <2>3. Keeps(s, s)
    BY DEF Keeps, Sound
  <2> QED
    BY <2>1, <2>2, <2>3, AlongItself DEF OfModifiers, Holds
<1> QED
  BY <1>2, <1>3, <1>4

LEMMA OfModifiersThen ==
    ASSUME NEW s, NEW t, NEW u, NEW P, NEW Q,
           OfModifiers(s, t, P), OfModifiers(t, u, Q)
    PROVE  OfModifiers(s, u, Q)
BY KeepsThenKeeps, AlongThen DEF OfModifiers

LEMMA QueueModifiersSteps ==
    ASSUME NEW s, Sound(s), Holds(s, "modifier", s.queued \cap Modifiers),
           NEW new \in SUBSET Flags, NEW late \in BOOLEAN,
           NEW u, u = [s EXCEPT !.queued = new]
    PROVE  OfModifiers(u, QueueModifiers(s, new, late), new \cap Modifiers)
<1> DEFINE old == s.queued
           n == Len(Masks)
           One(t, i) == Compare(t, Masks[i], old, new, late)
           step == [i \in 1 .. 7 |->
                      [t \in Filter |->
                          IF One(t, i) \in Filter THEN One(t, i) ELSE t]]
           Good(g) == g = [i \in 0 .. n |->
                             IF i = 0 THEN [s EXCEPT !.queued = new]
                             ELSE One(g[i - 1], i)]
           Reached(t, i) == OfModifiers(u, t, Partly(old, new, i))
<1>1. /\ s \in Filter /\ Same(s, u)
  BY DEF Sound, Same, Filter
<1>2. /\ Sound(u)
      /\ \A what \in Kinds : \A x :
            StillHeldIn(u, what, x) <=> StillHeldIn(s, what, x)
  BY <1>1, SameIsSound
<1>3. Reached(u, 0)
  <2>1. Holds(u, "modifier", old \cap Modifiers)
    BY <1>2 DEF Holds, Kinds
  <2>2. Keeps(u, u)
    BY <1>2 DEF Keeps, Sound
  <2>3. Partly(old, new, 0) = old \cap Modifiers
    BY PartlyIs
  <2> QED
    BY <1>2, <2>1, <2>2, <2>3, AlongItself DEF OfModifiers
<1>4. ASSUME NEW i \in 1 .. 7, NEW t, Reached(t, i - 1)
      PROVE  One(t, i) \in Filter /\ Reached(One(t, i), i)
  <2> DEFINE m == Masks[i]
             Q == Partly(old, new, i - 1)
             v == One(t, i)
  <2>1. Sound(t) /\ Holds(t, "modifier", Q) /\ m \in Modifiers
        /\ (m \in Q => m \in old)
    BY <1>4, PartlyIs, MasksAre DEF OfModifiers
  <2>2. OfModifiers(t, v, (Q \ {m}) \cup (new \cap {m}))
    <3> HIDE DEF Q, m, old
    <3>1. v = Compare(t, m, old, new, late)
      BY DEF m
    <3> HIDE DEF v
    <3> QED
      BY <2>1, <3>1, CompareDoes
  <2>3. OfModifiers(u, v, (Q \ {m}) \cup (new \cap {m}))
    <3> HIDE DEF Q, m, old, v
    <3> QED
      BY <1>4, <2>2, OfModifiersThen
  <2>4. (Q \ {m}) \cup (new \cap {m}) \subseteq Partly(old, new, i)
    BY PartlyIs
  <2> HIDE DEF Q, m, old, v
  <2> QED
    BY <2>3, <2>4 DEF OfModifiers, Holds, Sound, v
<1> HIDE DEF Reached, old
<1>5. ASSUME NEW g, g[0] = u,
             \A i \in 1 .. 7 : One(g[i - 1], i) \in Filter =>
                                  g[i] = One(g[i - 1], i)
      PROVE  /\ Reached(g[7], 7)
             /\ \A i \in 1 .. 7 : g[i] = One(g[i - 1], i)
  <2> DEFINE G == {i \in 0 .. 7 : Reached(g[i], i)}
  <2> HIDE DEF One
  <2>1. 0 \in G
    BY <1>3, <1>5
  <2>2. ASSUME NEW i \in 1 .. 7, i - 1 \in G
        PROVE  i \in G /\ g[i] = One(g[i - 1], i)
    BY <1>4, <1>5, <2>2
  <2>3. \A i \in 0 .. 7 : i \in G
    <3> HIDE DEF G
    <3> QED
      BY <2>1, <2>2, InductionTo
  <2>4. \A i \in 1 .. 7 : g[i] = One(g[i - 1], i)
    <3>1. \A i \in 1 .. 7 : i - 1 \in 0 .. 7
      OBVIOUS
    <3> HIDE DEF G
    <3> QED
      BY <2>2, <2>3, <3>1
  <2>5. 7 \in 0 .. 7
    OBVIOUS
  <2> QED
    BY <2>3, <2>4, <2>5
<1>6. Loops(Filter, 7, u, step)
  <2>1. step \in [1 .. 7 -> [Filter -> Filter]]
    <3> HIDE DEF One
    <3> QED
      OBVIOUS
  <2>2. u \in Filter
    BY <1>1 DEF Same
  <2> HIDE DEF step
  <2> QED
    BY <2>1, <2>2, Recursion
<1>7. PICK g \in [0 .. 7 -> Filter] :
          g[0] = u /\ \A i \in 1 .. 7 : g[i] = step[i][g[i - 1]]
  BY <1>6 DEF Loops
<1>8. \A i \in 1 .. 7 : g[i] = One(g[i - 1], i)
  <2>1. ASSUME NEW i \in 1 .. 7, One(g[i - 1], i) \in Filter
        PROVE  g[i] = One(g[i - 1], i)
    <3>1. g[i - 1] \in Filter
      OBVIOUS
    <3> HIDE DEF One
    <3> QED
      BY <1>7, <2>1, <3>1
  <2> HIDE DEF One, step
  <2> QED
    BY <1>5, <1>7, <2>1
<1>9. n = 7
  BY MasksAre
<1>10. Good(g)
  <2> HIDE DEF One, step, n
  <2> QED
    BY <1>7, <1>8, <1>9
<1>11. QueueModifiers(s, new, late) = (CHOOSE h : Good(h))[n]
  BY Zenon DEF QueueModifiers, old
<1> DEFINE c == CHOOSE h : Good(h)
<1>12. Good(c)
  <2> HIDE DEF Good
  <2> QED
    BY <1>10
<1>13. c[0] = u /\ \A i \in 1 .. 7 : c[i] = One(c[i - 1], i)
  <2> HIDE DEF c, One, n
  <2> QED
    BY <1>9, <1>12
<1>14. Reached(c[7], 7)
  <2> HIDE DEF c, One
  <2> QED
    BY <1>5, <1>13
<1>15. QueueModifiers(s, new, late) = c[7]
  <2> HIDE DEF n, Good
  <2> QED
    BY <1>9, <1>11
<1>16. Partly(old, new, 7) = new \cap Modifiers
  BY PartlyIs
<1> HIDE DEF c
<1> QED
  BY <1>14, <1>15, <1>16 DEF Reached

LEMMA QueueModifiersDoes ==
    ASSUME NEW s, Sound(s), Holds(s, "modifier", s.queued \cap Modifiers),
           NEW new \in SUBSET Flags, NEW late \in BOOLEAN,
           NEW t, t = QueueModifiers(s, new, late)
    PROVE  /\ Sound(t) /\ t.queued = new /\ Along(s, t)
           /\ Holds(t, "modifier", new \cap Modifiers)
           /\ \A what \in Kinds \ {"modifier"} : \A x :
                 StillHeldIn(t, what, x) => StillHeldIn(s, what, x)
<1> DEFINE u == [s EXCEPT !.queued = new]
<1>1. OfModifiers(u, t, new \cap Modifiers)
  BY QueueModifiersSteps
<1>2. Same(s, u) /\ u.queued = new /\ u.emulationButton = s.emulationButton
  BY DEF Sound, Same, Filter
<1> HIDE DEF u
<1>3. \A what \in Kinds : \A x :
         StillHeldIn(u, what, x) <=> StillHeldIn(s, what, x)
  BY <1>2, SameIsSound
<1>4. t.queued = new
  BY <1>1, <1>2 DEF OfModifiers, Keeps
<1>5. Along(s, t)
  BY <1>1, <1>2, SameIsAlong, AlongThen DEF OfModifiers
<1> QED
  BY <1>1, <1>3, <1>4, <1>5 DEF OfModifiers

-----------------------------------------------------------------------------
(* Synthesized releases.                                                   *)

LEMMA SetToSeqIs ==
    ASSUME NEW S, IsFiniteSet(S), NEW r, r = SetToSeq(S)
    PROVE  r \in Seq(S) /\ \A x \in S : \E i \in 1 .. Len(r) : r[i] = x
<1> DEFINE n == Cardinality(S)
<1>1. n \in Nat /\ ExistsBijection(1 .. n, S)
  BY FS_CardinalityType
<1>2. \E g \in [1 .. n -> S] : IsInjective(g)
  BY <1>1 DEF ExistsBijection, Bijection, Injection, IsInjective
<1>3. r \in [1 .. n -> S] /\ IsInjective(r)
  BY <1>2 DEF SetToSeq
<1>4. r \in Injection(1 .. n, S)
  BY <1>3 DEF Injection, IsInjective
<1>5. Cardinality(1 .. n) = n
  BY <1>1, FS_Interval
<1>6. r \in Surjection(1 .. n, S)
  BY <1>4, <1>5, FS_Injection
<1>7. r \in Seq(S) /\ Len(r) = n
  BY <1>1, <1>3
<1> QED
  BY <1>6, <1>7 DEF Surjection

\* The releases in r wait too, and nothing of what they release is held.
WithReleases(s, r, t) ==
    /\ Sound(t) /\ t.queued = s.queued
    /\ t.profile = s.profile /\ t.emulationButton = s.emulationButton
    /\ \A what \in Kinds : \A x :
          StillHeldIn(t, what, x) =>
             /\ StillHeldIn(s, what, x)
             /\ \A i \in 1 .. Len(r) : ~Is(r[i], what, x, FALSE)

LEMMA ReleasesWait ==
    ASSUME NEW s, Sound(s), NEW r \in Seq(Event),
           \A i \in 1 .. Len(r) : r[i].what # "modifier" /\ ~r[i].down,
           NEW t, t = [s EXCEPT !.pending = @ \o r]
    PROVE  WithReleases(s, r, t)
<1> DEFINE n == Len(s.pending)
           k == Len(r)
           q == s.pending \o r
<1>1. s \in Filter /\ s.pending \in Seq(Event) /\ n \in Nat /\ k \in Nat
  BY PendingIs DEF Sound
<1>2. /\ q \in Seq(Event) /\ Len(q) = n + k
      /\ \A i \in 1 .. n + k :
            q[i] = IF i <= n THEN s.pending[i] ELSE r[i - n]
  BY <1>1, ConcatProperties
<1>3. t = [s EXCEPT !.pending = q]
  OBVIOUS
<1> HIDE DEF q, n, k
<1>4. /\ Alike(s, t) /\ t \in Filter /\ t.pending = q /\ Len(t.pending) = n + k
      /\ t.profile = s.profile /\ t.queued = s.queued
      /\ t.pressedModifiers = s.pressedModifiers
      /\ t.emulationButton = s.emulationButton
      /\ t.multiTapTimer = s.multiTapTimer /\ t.tapTimer = s.tapTimer
  BY <1>1, <1>2, <1>3 DEF Alike, Keeps, Filter
<1>5. /\ \A i \in 1 .. n : i \in 1 .. n + k /\ t.pending[i] = s.pending[i]
      /\ \A i \in 1 .. k : n + i \in 1 .. n + k /\ t.pending[n + i] = r[i]
  <2>1. \A i \in 1 .. n : i \in 1 .. n + k /\ i <= n
    BY <1>1
  <2>2. \A i \in 1 .. k :
           n + i \in 1 .. n + k /\ ~(n + i <= n) /\ (n + i) - n = i
    BY <1>1
  <2> QED
    BY <1>2, <1>4, <2>1, <2>2
<1>6. \A i \in 1 .. n + k : i \in 1 .. n \/ (~(i <= n) /\ i - n \in 1 .. k)
  <2>1. n \in Nat /\ k \in Nat
    BY <1>1
  <2>2. ASSUME NEW i \in 1 .. n + k
        PROVE  i \in 1 .. n \/ (~(i <= n) /\ i - n \in 1 .. k)
    <3>1. i \in Int /\ 1 <= i /\ i <= n + k
      BY <2>1
    <3> QED
      BY <2>1, <3>1
  <2> QED
    BY <2>2
<1>7. \A i \in 1 .. n + k :
         \/ i \in 1 .. n /\ t.pending[i] = s.pending[i]
         \/ t.pending[i].what # "modifier" /\ ~t.pending[i].down
  <2> SUFFICES ASSUME NEW i \in 1 .. n + k, i \notin 1 .. n
               PROVE  t.pending[i].what # "modifier" /\ ~t.pending[i].down
    BY <1>5
  <2>1. ~(i <= n) /\ i - n \in 1 .. k
    BY <1>6
  <2>2. t.pending[i] = r[i - n]
    BY <1>2, <1>4, <2>1
  <2> QED
    BY <2>1, <2>2 DEF k
<1>8. Quiet(t)
  BY <1>1, <1>4, <1>7 DEF Sound, Quiet, n
<1>13. Timed(t)
  <2> SUFFICES ASSUME n + k > 0, t.pending[n + k].what = "modifier",
                      ~t.pending[n + k].down,
                      ~Unheeded(t.profile, t.pending[n + k].arg)
               PROVE  t.multiTapTimer \/ t.tapTimer # 0
    BY <1>4 DEF Timed
  <2>1. n + k \in 1 .. n + k
    BY <1>1
  <2>2. n + k \in 1 .. n /\ t.pending[n + k] = s.pending[n + k]
    BY <1>7, <2>1
  <2>3. n + k = n /\ n > 0
    BY <1>1, <2>2
  <2> QED
    BY <1>4, <2>2, <2>3 DEF Sound, Timed, n
<1>9. Fresh(t)
  <2> SUFFICES ASSUME NEW i \in 1 .. n + k, t.pending[i].what = "modifier"
               PROVE  /\ Is(t.pending[1], "modifier", t.pending[i].arg, TRUE)
                      /\ t.pending[i].arg \notin t.pressedModifiers
    BY <1>4 DEF Fresh
  <2>1. i \in 1 .. n /\ t.pending[i] = s.pending[i]
    BY <1>7
  <2>2. 1 \in 1 .. n /\ t.pending[1] = s.pending[1]
    <3>1. \A j \in 1 .. n : 1 \in 1 .. n
      BY <1>1
    <3> QED
      BY <1>5, <2>1, <3>1
  <2> QED
    BY <1>4, <2>1, <2>2 DEF Sound, Fresh, n
<1>10. NotFired(t)
  <2> SUFFICES ASSUME NEW b \in Emulated, Fired(t, b) PROVE FALSE
    BY DEF NotFired
  <2> DEFINE full == 2 * s.profile[b].count
  <2>1. full \in Nat /\ full > 0
    <3>1. s.profile[b].count \in 1 .. 5
      BY <1>1, ProfileIs
    <3>2. \A c \in 1 .. 5 : 2 * c \in Nat /\ 2 * c > 0
      OBVIOUS
    <3> QED
      BY <3>1, <3>2
  <2> HIDE DEF full
  <2>2. full <= n + k /\ Taps(t, b, full)
        /\ s.profile[b].scenario = "multiTap"
    BY <1>4 DEF Fired, full
  <2>3. \A i \in 1 .. full : t.pending[i].what = "modifier"
    BY <2>2 DEF Taps, Tap, Is
  <2>4. full \in 1 .. n + k /\ full \in 1 .. full
    BY <1>1, <2>1, <2>2
  <2>5. full <= n
    <3>1. full \in 1 .. n
      BY <1>7, <2>3, <2>4
    <3> QED
      BY <1>1, <3>1
  <2>6. \A i \in 1 .. full : t.pending[i] = s.pending[i]
    <3>1. \A i \in 1 .. full : i \in 1 .. n
      BY <1>1, <2>1, <2>5
    <3> QED
      BY <1>5, <3>1
  <2>7. Taps(s, b, full)
    BY <1>4, <2>2, <2>6 DEF Taps, Tap
  <2> QED
    BY <2>2, <2>5, <2>7 DEF Sound, NotFired, Fired, full, n
<1>11. /\ Mirrors(t) /\ ViewsOnly(t)
       /\ \A what \in Kinds : Pressed(t, what) = Pressed(s, what)
  BY <1>4, AlikeIs DEF Sound
<1>12. ASSUME NEW what \in Kinds, NEW x, StillHeldIn(t, what, x)
       PROVE  /\ StillHeldIn(s, what, x)
              /\ \A i \in 1 .. Len(r) : ~Is(r[i], what, x, FALSE)
  <2> DEFINE P == Pressed(s, what)
  <2>1. \/ /\ x \in P
           /\ \A j \in 1 .. n + k : ~Is(t.pending[j], what, x, FALSE)
        \/ \E i \in 1 .. n + k :
              /\ Is(t.pending[i], what, x, TRUE)
              /\ \A j \in i + 1 .. n + k : ~Is(t.pending[j], what, x, FALSE)
    BY <1>4, <1>11, <1>12, Zenon DEF StillHeldIn, StillHeld
  <2> HIDE DEF P
  <2>2. CASE /\ x \in P
             /\ \A j \in 1 .. n + k : ~Is(t.pending[j], what, x, FALSE)
    <3>1. \A j \in 1 .. n : ~Is(s.pending[j], what, x, FALSE)
      BY <1>5, <2>2
    <3>2. \A i \in 1 .. k : ~Is(r[i], what, x, FALSE)
      BY <1>5, <2>2
    <3> QED
      BY <2>2, <3>1, <3>2 DEF StillHeldIn, StillHeld, n, k, P
  <2>3. CASE \E i \in 1 .. n + k :
              /\ Is(t.pending[i], what, x, TRUE)
              /\ \A j \in i + 1 .. n + k : ~Is(t.pending[j], what, x, FALSE)
    <3>1. PICK i \in 1 .. n + k :
              /\ Is(t.pending[i], what, x, TRUE)
              /\ \A j \in i + 1 .. n + k : ~Is(t.pending[j], what, x, FALSE)
      BY <2>3
    <3>2. i \in 1 .. n /\ Is(s.pending[i], what, x, TRUE)
      <4>1. CASE i \in 1 .. n /\ t.pending[i] = s.pending[i]
        BY <3>1, <4>1
      <4>2. CASE t.pending[i].what # "modifier" /\ ~t.pending[i].down
        BY <3>1, <4>2 DEF Is
      <4> QED
        BY <1>7, <4>1, <4>2
    <3>3. ASSUME NEW j \in i + 1 .. n PROVE ~Is(s.pending[j], what, x, FALSE)
      <4>1. j \in 1 .. n /\ j \in i + 1 .. n + k
        BY <1>1, <3>2
      <4> QED
        BY <1>5, <3>1, <4>1
    <3>4. ASSUME NEW j \in 1 .. k PROVE ~Is(r[j], what, x, FALSE)
      <4>1. n + j \in i + 1 .. n + k
        BY <1>1, <3>2
      <4> QED
        BY <1>5, <3>1, <4>1
    <3> QED
      BY <3>2, <3>3, <3>4 DEF StillHeldIn, StillHeld, n, k
  <2> QED
    BY <2>1, <2>2, <2>3
<1> QED
  BY <1>4, <1>8, <1>9, <1>10, <1>11, <1>12, <1>13 DEF Sound, WithReleases

\* Nothing is held in t that is not held in s.
LessHeld(s, t) ==
    \A what \in Kinds : \A x :
       StillHeldIn(t, what, x) => StillHeldIn(s, what, x)

LEMMA UpsDo ==
    ASSUME NEW s, Sound(s), NEW what \in Kinds \ {"modifier"},
           NEW S \in SUBSET Event, IsFiniteSet(S),
           \A e \in S : e.what = what /\ ~e.down,
           \A x \in Pressed(s, what) : \E e \in S : Is(e, what, x, FALSE),
           NEW t, t = [s EXCEPT !.pending = @ \o SetToSeq(S)]
    PROVE  /\ Sound(t) /\ t.queued = s.queued /\ LessHeld(s, t)
           /\ Holds(t, what, {}) /\ Along(s, t)
<1> DEFINE r == SetToSeq(S)
<1>1. r \in Seq(S) /\ \A e \in S : \E i \in 1 .. Len(r) : r[i] = e
  BY SetToSeqIs
<1>2. t = [s EXCEPT !.pending = @ \o r]
  OBVIOUS
<1> HIDE DEF r
<1>3. r \in Seq(Event) /\ \A i \in 1 .. Len(r) : r[i] \in S
  BY <1>1
<1>4. \A i \in 1 .. Len(r) : r[i].what # "modifier" /\ ~r[i].down
  BY <1>3
<1>5. WithReleases(s, r, t)
  BY <1>2, <1>3, <1>4, ReleasesWait
<1>6. ASSUME NEW x, StillHeldIn(t, what, x) PROVE FALSE
  <2>1. StillHeldIn(s, what, x)
        /\ \A i \in 1 .. Len(r) : ~Is(r[i], what, x, FALSE)
    BY <1>5, <1>6 DEF WithReleases
  <2>2. \A i \in 1 .. Len(s.pending) : ~Is(s.pending[i], what, x, TRUE)
    BY DEF Sound, Quiet, Is
  <2>3. x \in Pressed(s, what)
    BY <2>1, <2>2 DEF StillHeldIn, StillHeld
  <2>4. PICK e \in S : Is(e, what, x, FALSE)
    BY <2>3
  <2>5. PICK i \in 1 .. Len(r) : r[i] = e
    BY <1>1
  <2> QED
    BY <2>1, <2>4, <2>5
<1> QED
  BY <1>5, <1>6 DEF LessHeld, Holds, WithReleases, Along, Kinds

LEMMA SynthesizeKeyUpsDoes ==
    ASSUME NEW s, Sound(s), NEW t, t = SynthesizeKeyUps(s)
    PROVE  /\ Sound(t) /\ t.queued = s.queued /\ LessHeld(s, t)
           /\ Holds(t, "key", {}) /\ Along(s, t)
<1> DEFINE Up(c) == KeyEvent(c, FALSE)
           Ups == {Up(c) : c \in Characters}
           S == {Up(c) : c \in s.pressedKeys}
<1>1. s.pressedKeys \subseteq Characters
  BY DEF Sound, Filter
<1>2. \A c \in Characters :
         /\ Up(c) \in Event /\ Up(c).what = "key" /\ ~Up(c).down
         /\ Is(Up(c), "key", c, FALSE)
  BY DEF KeyEvent, Event, Is
<1>3. t = [s EXCEPT !.pending = @ \o SetToSeq(S)]
  BY DEF SynthesizeKeyUps
<1> HIDE DEF Up
<1>4. IsFiniteSet(Ups)
  <2> DEFINE S1 == {} \cup {Up("a")}
             S2 == S1 \cup {Up("A")}
             S3 == S2 \cup {Up("@")}
             S4 == S3 \cup {Up("esc")}
             S5 == S4 \cup {Up("e")}
             S6 == S5 \cup {Up("l")}
             S7 == S6 \cup {Up("m")}
  <2>1. IsFiniteSet(S1)
    BY FS_EmptySet, FS_AddElement
  <2>2. IsFiniteSet(S2)
    <3> HIDE DEF S1
    <3> QED
      BY <2>1, FS_AddElement
  <2>3. IsFiniteSet(S3)
    <3> HIDE DEF S2
    <3> QED
      BY <2>2, FS_AddElement
  <2>4. IsFiniteSet(S4)
    <3> HIDE DEF S3
    <3> QED
      BY <2>3, FS_AddElement
  <2>5. IsFiniteSet(S5)
    <3> HIDE DEF S4
    <3> QED
      BY <2>4, FS_AddElement
  <2>6. IsFiniteSet(S6)
    <3> HIDE DEF S5
    <3> QED
      BY <2>5, FS_AddElement
  <2>7. IsFiniteSet(S7)
    <3> HIDE DEF S6
    <3> QED
      BY <2>6, FS_AddElement
  <2>8. Ups = S7
    BY DEF Characters
  <2> QED
    BY <2>7, <2>8
<1>5. IsFiniteSet(S)
  <2>1. S \subseteq Ups
    BY <1>1
  <2> HIDE DEF S, Ups
  <2> QED
    BY <1>4, <2>1, FS_Subset
<1>6. ASSUME NEW e \in S
      PROVE  e \in Event /\ e.what = "key" /\ ~e.down
  <2>1. PICK c \in s.pressedKeys : e = Up(c)
    OBVIOUS
  <2> QED
    BY <1>1, <1>2, <2>1
<1>7. \A x \in Pressed(s, "key") : \E e \in S : Is(e, "key", x, FALSE)
  BY <1>1, <1>2 DEF Pressed
<1> HIDE DEF S
<1>8. S \in SUBSET Event /\ "key" \in Kinds \ {"modifier"}
  BY <1>6 DEF Kinds
<1> QED
  BY <1>3, <1>5, <1>6, <1>7, <1>8, UpsDo

LEMMA SynthesizeMouseUpsDoes ==
    ASSUME NEW s, Sound(s), NEW t, t = SynthesizeMouseUps(s)
    PROVE  /\ Sound(t) /\ t.queued = s.queued /\ LessHeld(s, t)
           /\ Holds(t, "button", {}) /\ Along(s, t)
<1> DEFINE Up(c) == ButtonEvent(c, FALSE)
           Ups == {Up(c) : c \in 1 .. 3}
           S == {Up(c) : c \in s.pressedButtons}
<1>1. s.pressedButtons \subseteq 1 .. 3
  BY DEF Sound, Filter
<1>2. \A c \in 1 .. 3 :
         /\ Up(c) \in Event /\ Up(c).what = "button" /\ ~Up(c).down
         /\ Is(Up(c), "button", c, FALSE)
  BY DEF ButtonEvent, Event, Is
<1>3. t = [s EXCEPT !.pending = @ \o SetToSeq(S)]
  BY DEF SynthesizeMouseUps
<1> HIDE DEF Up
<1>4. IsFiniteSet(Ups)
  <2> DEFINE S1 == {} \cup {Up(1)}
             S2 == S1 \cup {Up(2)}
             S3 == S2 \cup {Up(3)}
  <2>1. IsFiniteSet(S1)
    BY FS_EmptySet, FS_AddElement
  <2>2. IsFiniteSet(S2)
    <3> HIDE DEF S1
    <3> QED
      BY <2>1, FS_AddElement
  <2>3. IsFiniteSet(S3)
    <3> HIDE DEF S2
    <3> QED
      BY <2>2, FS_AddElement
  <2>4. Ups = S3
    <3>1. 1 .. 3 = {1, 2, 3}
      OBVIOUS
    <3> QED
      BY <3>1
  <2> QED
    BY <2>3, <2>4
<1>5. IsFiniteSet(S)
  <2>1. S \subseteq Ups
    BY <1>1
  <2> HIDE DEF S, Ups
  <2> QED
    BY <1>4, <2>1, FS_Subset
<1>6. ASSUME NEW e \in S
      PROVE  e \in Event /\ e.what = "button" /\ ~e.down
  <2>1. PICK c \in s.pressedButtons : e = Up(c)
    OBVIOUS
  <2> QED
    BY <1>1, <1>2, <2>1
<1>7. \A x \in Pressed(s, "button") : \E e \in S : Is(e, "button", x, FALSE)
  BY <1>1, <1>2 DEF Pressed
<1> HIDE DEF S
<1>8. S \in SUBSET Event /\ "button" \in Kinds \ {"modifier"}
  BY <1>6 DEF Kinds
<1> QED
  BY <1>3, <1>5, <1>6, <1>7, <1>8, UpsDo

-----------------------------------------------------------------------------
(* The methods that the handlers call.                                     *)

\* What waits or is pressed of the modifiers is queued as pressed.
Steady(s) == Sound(s) /\ Holds(s, "modifier", s.queued \cap Modifiers)

LEMMA LessIsSteady ==
    ASSUME NEW s, NEW t, Steady(s), Sound(t), t.queued = s.queued,
           LessHeld(s, t)
    PROVE  Steady(t)
BY DEF Steady, Holds, LessHeld, Kinds

LEMMA LessThenLess ==
    ASSUME NEW s, NEW t, NEW u, LessHeld(s, t), LessHeld(t, u)
    PROVE  LessHeld(s, u)
BY DEF LessHeld

LEMMA SendAllIsSound ==
    ASSUME NEW s, Sound(s), NEW t, t = SendAll(s)
    PROVE  /\ Sound(t) /\ Keeps(s, t) /\ LessHeld(s, t) /\ Along(s, t)
           /\ t.pending = <<>>
           /\ \A what, x : StillHeldIn(t, what, x) <=> x \in Pressed(t, what)
<1>1. /\ Keeps(s, t) /\ Mirrors(t) /\ ViewsOnly(t) /\ t.pending = <<>>
      /\ t.emulationButton = s.emulationButton
      /\ \A what \in Kinds : \A x \in Pressed(t, what) :
            StillHeldIn(s, what, x)
  BY SendAllDoes DEF Sound
<1>2. t \in Filter
  BY <1>1 DEF Keeps
<1>3. /\ Sound(t)
      /\ \A what, x : StillHeldIn(t, what, x) <=> x \in Pressed(t, what)
  BY <1>1, <1>2, EmptyIsSound
<1>4. Along(s, t)
  BY <1>1, <1>3 DEF Along, Keeps, Kinds
<1> QED
  BY <1>1, <1>3, <1>4 DEF LessHeld

Neutral(s) ==
    /\ s.server = [buttons |-> {}, keys |-> {}, modifiers |-> {}]
    /\ s.pending = <<>>
    /\ s.queued = {}
    /\ ~s.multiTapTimer /\ s.tapTimer = 0
    /\ s.emulationButton = 1
    /\ \A b \in Emulated : ~s.stillDown[b]

LEMMA ClearAllEmulationStatesDoes ==
    ASSUME NEW s, Steady(s), NEW t, t = ClearAllEmulationStates(s)
    PROVE  /\ Steady(t) /\ Neutral(t) /\ t.profile = s.profile
           /\ t.pressedButtons = {} /\ t.pressedKeys = {}
           /\ t.pressedModifiers = {}
<1> DEFINE a == SendAll(s)
           b == SynthesizeMouseUps(a)
           c == SynthesizeKeyUps(b)
           d == QueueModifiers(c, {}, FALSE)
           e == SendAll(d)
           still == [k \in Emulated |-> FALSE]
           u == [e EXCEPT !.emulationButton = 1, !.stillDown = still]
<1>1. t = [u EXCEPT !.multiTapTimer = FALSE, !.tapTimer = 0]
  BY DEF ClearAllEmulationStates, ResetTapClick, ResetMultiTap
<1>2. Sound(s)
  BY DEF Steady
<1>3. Sound(a) /\ a.queued = s.queued /\ LessHeld(s, a) /\ Along(s, a)
  BY <1>2, SendAllIsSound DEF Keeps
<1> HIDE DEF a
<1>4. Sound(b) /\ b.queued = a.queued /\ LessHeld(a, b)
      /\ Holds(b, "button", {}) /\ Along(a, b)
  BY <1>3, SynthesizeMouseUpsDoes
<1> HIDE DEF b
<1>5. Sound(c) /\ c.queued = b.queued /\ LessHeld(b, c) /\ Holds(c, "key", {})
      /\ Along(b, c)
  BY <1>4, SynthesizeKeyUpsDoes
<1> HIDE DEF c
<1>6. Steady(c)
  <2>1. Steady(a)
    BY <1>3, LessIsSteady
  <2>2. Steady(b)
    BY <1>4, <2>1, LessIsSteady
  <2> QED
    BY <1>5, <2>2, LessIsSteady
<1>7. Holds(c, "button", {})
  BY <1>4, <1>5 DEF Holds, LessHeld, Kinds
<1>8. /\ Sound(d) /\ d.queued = {} /\ Along(c, d)
      /\ Holds(d, "modifier", {} \cap Modifiers)
      /\ \A what \in Kinds \ {"modifier"} : \A x :
            StillHeldIn(d, what, x) => StillHeldIn(c, what, x)
  <2>1. {} \in SUBSET Flags /\ FALSE \in BOOLEAN
    OBVIOUS
  <2> QED
    BY <1>6, <2>1, QueueModifiersDoes DEF Steady
<1> HIDE DEF d
<1>9. \A what \in Kinds : \A x : ~StillHeldIn(d, what, x)
  BY <1>5, <1>7, <1>8 DEF Holds, Kinds
<1>10. /\ Sound(e) /\ e.queued = {} /\ LessHeld(d, e) /\ e.pending = <<>>
       /\ Along(d, e)
       /\ \A what, x : StillHeldIn(e, what, x) <=> x \in Pressed(e, what)
  BY <1>8, SendAllIsSound DEF Keeps
<1> HIDE DEF e
<1>11. \A what \in Kinds : Pressed(e, what) = {}
  BY <1>9, <1>10 DEF LessHeld
<1>12. e.pressedButtons = {} /\ e.pressedKeys = {} /\ e.pressedModifiers = {}
  BY <1>11 DEF Pressed, Kinds
<1>13. still \in [Emulated -> BOOLEAN] /\ \A k \in Emulated : still[k] = FALSE
  OBVIOUS
<1> HIDE DEF still
<1>14. e \in Filter /\ Mirrors(e)
  BY <1>10 DEF Sound
<1>15. t = [e EXCEPT !.emulationButton = 1, !.stillDown = still,
                     !.multiTapTimer = FALSE, !.tapTimer = 0]
  BY <1>1
<1>16. t \in Filter
  <2> DEFINE v == [e EXCEPT !.emulationButton = 1, !.stillDown = still]
  <2>1. 1 \in 1 .. 3 /\ 0 \in {0, 2, 3} /\ FALSE \in BOOLEAN
    OBVIOUS
  <2>2. v \in Filter
    BY <1>13, <1>14, <2>1 DEF Filter
  <2>3. t = [v EXCEPT !.multiTapTimer = FALSE, !.tapTimer = 0]
    BY <1>15
  <2> HIDE DEF v
  <2> QED
    BY <2>1, <2>2, <2>3 DEF Filter
<1>17. /\ t.pending = <<>> /\ t.queued = {} /\ t.server = e.server
       /\ t.pressedButtons = {} /\ t.pressedKeys = {}
       /\ t.pressedModifiers = {} /\ ~t.multiTapTimer /\ t.tapTimer = 0
       /\ t.emulationButton = 1 /\ t.stillDown = still
       /\ t.profile = e.profile
  BY <1>10, <1>12, <1>14, <1>15 DEF Filter
<1>18. t.server = [buttons |-> {}, keys |-> {}, modifiers |-> {}]
  BY <1>12, <1>14, <1>17 DEF Mirrors
<1>19. Neutral(t)
  BY <1>13, <1>17, <1>18 DEF Neutral
<1>20. Mirrors(t) /\ ViewsOnly(t)
  BY <1>17, <1>18 DEF Mirrors, ViewsOnly
<1>21. /\ Sound(t)
       /\ \A what, x : StillHeldIn(t, what, x) <=> x \in Pressed(t, what)
  BY <1>16, <1>17, <1>20, EmptyIsSound
<1>22. Steady(t)
  <2>1. \A x : ~StillHeldIn(t, "modifier", x)
    BY <1>17, <1>21 DEF Pressed
  <2> QED
    BY <1>21, <2>1 DEF Steady, Holds
<1>23. t.profile = s.profile
  BY <1>3, <1>4, <1>5, <1>8, <1>10, <1>17 DEF Along
<1> QED
  BY <1>17, <1>19, <1>22, <1>23

LEMMA QueueModifiersIsSteady ==
    ASSUME NEW s, Steady(s), NEW new \in SUBSET Flags, NEW late \in BOOLEAN,
           NEW t, t = QueueModifiers(s, new, late)
    PROVE  /\ Steady(t) /\ t.queued = new /\ Along(s, t)
           /\ \A x : StillHeldIn(t, "key", x) => StillHeldIn(s, "key", x)
<1>1. /\ Sound(t) /\ t.queued = new /\ Along(s, t)
      /\ Holds(t, "modifier", new \cap Modifiers)
      /\ \A what \in Kinds \ {"modifier"} : \A x :
            StillHeldIn(t, what, x) => StillHeldIn(s, what, x)
  BY QueueModifiersDoes DEF Steady
<1>2. "key" \in Kinds \ {"modifier"}
  BY DEF Kinds
<1> QED
  BY <1>1, <1>2 DEF Steady

LEMMA HandleFlagsDoes ==
    ASSUME NEW s, Steady(s), NEW flags \in SUBSET Flags, NEW late \in BOOLEAN,
           NEW t, t = HandleFlags(s, flags, late)
    PROVE  /\ Steady(t) /\ t.queued = flags /\ Holds(t, "key", {})
           /\ Along(s, t)
<1> DEFINE u == SynthesizeKeyUps(s)
<1>1. t = QueueModifiers(u, flags, late)
  BY DEF HandleFlags
<1>2. Sound(u) /\ u.queued = s.queued /\ LessHeld(s, u) /\ Holds(u, "key", {})
      /\ Along(s, u)
  BY SynthesizeKeyUpsDoes DEF Steady
<1> HIDE DEF u
<1>3. Steady(u)
  BY <1>2, LessIsSteady
<1>4. /\ Steady(t) /\ t.queued = flags /\ Along(u, t)
      /\ \A x : StillHeldIn(t, "key", x) => StillHeldIn(u, "key", x)
  BY <1>1, <1>3, QueueModifiersIsSteady
<1> QED
  BY <1>2, <1>4, AlongThen DEF Holds

LEMMA SameIsSteady ==
    ASSUME NEW s, Steady(s), NEW t, Same(s, t), t.queued = s.queued
    PROVE  /\ Steady(t)
           /\ \A x : StillHeldIn(t, "key", x) <=> StillHeldIn(s, "key", x)
<1>1. /\ Sound(t)
      /\ \A what \in Kinds : \A x :
            StillHeldIn(t, what, x) <=> StillHeldIn(s, what, x)
  BY SameIsSound DEF Steady
<1> QED
  BY <1>1 DEF Steady, Holds, Kinds

LEMMA UpdateCapsLockDoes ==
    ASSUME NEW s, Steady(s), NEW flags \in SUBSET Flags,
           NEW t, t = UpdateCapsLock(s, flags)
    PROVE  /\ Steady(t) /\ t.queued \subseteq s.queued \cup flags
           /\ Along(s, t)
           /\ \A x : StillHeldIn(t, "key", x) => StillHeldIn(s, "key", x)
<1> DEFINE u == [s EXCEPT !.watch = FALSE]
<1>1. t = u \/ t = HandleFlags(u, flags, FALSE)
  BY DEF UpdateCapsLock
<1>2. Same(s, u) /\ u.queued = s.queued
      /\ u.emulationButton = s.emulationButton
  BY DEF Steady, Sound, Same, Filter
<1> HIDE DEF u
<1>6. Along(s, u)
  BY <1>2, SameIsAlong DEF Steady
<1>3. /\ Steady(u)
      /\ \A x : StillHeldIn(u, "key", x) <=> StillHeldIn(s, "key", x)
  BY <1>2, SameIsSteady
<1>4. CASE t = u
  BY <1>2, <1>3, <1>4, <1>6
<1>5. CASE t = HandleFlags(u, flags, FALSE)
  <2>1. /\ Steady(t) /\ t.queued = flags /\ Holds(t, "key", {})
        /\ Along(u, t)
    BY <1>3, <1>5, HandleFlagsDoes
  <2> QED
    BY <1>6, <2>1, AlongThen DEF Holds
<1> QED
  BY <1>1, <1>4, <1>5

\* Another event than of a modifier.
LEMMA QueueOther ==
    ASSUME NEW s, Steady(s), NEW e \in Event, e.what # "modifier",
           NEW t, t = Queue(s, e)
    PROVE  /\ Steady(t) /\ t.queued = s.queued /\ LeavesHeld(s, e, t)
           /\ Queued(s, e, t)
<1>1. Queued(s, e, t)
  BY QueueDoes DEF Steady
<1>2. Sound(t) /\ t.queued = s.queued /\ LeavesHeld(s, e, t)
  BY <1>1 DEF Queued, Keeps
<1>3. "modifier" \in Kinds
  BY DEF Kinds
<1>4. \A x : StillHeldIn(t, "modifier", x) => StillHeldIn(s, "modifier", x)
  BY <1>2, <1>3, LeftAlone
<1> QED
  BY <1>1, <1>2, <1>4 DEF Steady, Holds

LEMMA QueueKeyDoes ==
    ASSUME NEW s, Steady(s), NEW c \in Characters, NEW d \in BOOLEAN,
           NEW t, t = Queue(s, KeyEvent(c, d))
    PROVE  /\ Steady(t) /\ t.queued = s.queued /\ Along(s, t)
           /\ \A x : StillHeldIn(t, "key", x) =>
                 \/ x = c /\ d
                 \/ StillHeldIn(s, "key", x) /\ (x # c \/ d)
<1> DEFINE e == KeyEvent(c, d)
<1>1. e \in Event /\ e.what = "key" /\ e.arg = c /\ e.down = d
  BY DEF KeyEvent, Event
<1> HIDE DEF e
<1>2. Steady(t) /\ t.queued = s.queued /\ LeavesHeld(s, e, t)
      /\ Queued(s, e, t)
  BY <1>1, QueueOther DEF e
<1>4. Along(s, t)
  BY <1>1, <1>2, QueuedAlong
<1>3. ASSUME NEW x, StillHeldIn(t, "key", x)
      PROVE  \/ x = c /\ d
             \/ StillHeldIn(s, "key", x) /\ (x # c \/ d)
  <2>1. \/ Is(e, "key", x, TRUE)
        \/ StillHeldIn(s, "key", x) /\ ~Is(e, "key", x, FALSE)
    BY <1>2, <1>3 DEF LeavesHeld, Kinds
  <2>2. CASE d
    BY <1>1, <2>1, <2>2 DEF Is
  <2>3. CASE ~d
    <3>1. d = FALSE
      BY <2>3
    <3> QED
      BY <1>1, <2>1, <3>1 DEF Is
  <2> QED
    BY <2>2, <2>3
<1> QED
  BY <1>2, <1>3, <1>4

LEMMA QueueButtonDoes ==
    ASSUME NEW s, Steady(s), NEW b \in 1 .. 3, NEW d \in BOOLEAN,
           NEW t, t = Queue(s, ButtonEvent(b, d))
    PROVE  /\ Steady(t) /\ t.queued = s.queued /\ t.profile = s.profile
           /\ Clicked(s, ButtonEvent(b, d), t)
           /\ \A x : StillHeldIn(t, "key", x) => StillHeldIn(s, "key", x)
<1> DEFINE e == ButtonEvent(b, d)
<1>1. e \in Event /\ e.what = "button"
  BY DEF ButtonEvent, Event
<1> HIDE DEF e
<1>2. Steady(t) /\ t.queued = s.queued /\ LeavesHeld(s, e, t)
      /\ Queued(s, e, t)
  BY <1>1, QueueOther DEF e
<1>3. "key" \in Kinds
  BY DEF Kinds
<1>4. t.profile = s.profile /\ Clicked(s, e, t)
  BY <1>2 DEF Queued, Keeps
<1> QED
  BY <1>1, <1>2, <1>3, <1>4, LeftAlone DEF e

\* The buttons after the release of b, or of the button that is emulated.
Released(s, b, t) ==
    /\ t.emulationButton = 1
    /\ \A x : StillHeldIn(t, "button", x) =>
          /\ StillHeldIn(s, "button", x)
          /\ x # IF s.emulationButton = 1 THEN b ELSE s.emulationButton

LEMMA ClickedUp ==
    ASSUME NEW s, NEW b, NEW t, Clicked(s, ButtonEvent(b, FALSE), t)
    PROVE  /\ t.emulationButton = s.emulationButton
           /\ \A x : StillHeldIn(t, "button", x) =>
                 StillHeldIn(s, "button", x) /\ x # b
BY DEF Clicked, ButtonEvent, Is

LEMMA QueueMouseUpDoes ==
    ASSUME NEW s, Steady(s), NEW b \in 1 .. 3, NEW t, t = QueueMouseUp(s, b)
    PROVE  /\ Steady(t) /\ t.queued = s.queued /\ t.profile = s.profile
           /\ Released(s, b, t)
           /\ \A x : StillHeldIn(t, "key", x) => StillHeldIn(s, "key", x)
<1>1. s \in Filter /\ s.emulationButton \in 1 .. 3
  BY DEF Steady, Sound, Filter
<1>2. CASE s.emulationButton # 1
  <2> DEFINE u == [s EXCEPT !.emulationButton = 1]
             k == s.emulationButton
  <2>1. t = Queue(u, ButtonEvent(k, FALSE))
    BY <1>2 DEF QueueMouseUp
  <2>2. Same(s, u) /\ u.queued = s.queued /\ u.emulationButton = 1
        /\ u.profile = s.profile
    BY <1>1 DEF Same, Filter
  <2>3. k \in 1 .. 3 /\ FALSE \in BOOLEAN
    BY <1>1
  <2> HIDE DEF u, k
  <2>6. \A x : StillHeldIn(u, "button", x) <=> StillHeldIn(s, "button", x)
    BY <2>2 DEF Same, StillHeldIn, Pressed
  <2>4. /\ Steady(u)
        /\ \A x : StillHeldIn(u, "key", x) <=> StillHeldIn(s, "key", x)
    BY <2>2, SameIsSteady
  <2>5. /\ Steady(t) /\ t.queued = u.queued /\ t.profile = u.profile
        /\ Clicked(u, ButtonEvent(k, FALSE), t)
        /\ \A x : StillHeldIn(t, "key", x) => StillHeldIn(u, "key", x)
    BY <2>1, <2>3, <2>4, QueueButtonDoes
  <2>7. Released(s, b, t)
    BY <1>2, <2>2, <2>5, <2>6, ClickedUp DEF Released, k
  <2> QED
    BY <2>2, <2>4, <2>5, <2>7
<1>3. CASE s.emulationButton = 1
  <2>1. t = Queue(s, ButtonEvent(b, FALSE)) /\ FALSE \in BOOLEAN
    BY <1>3 DEF QueueMouseUp
  <2>2. /\ Steady(t) /\ t.queued = s.queued /\ t.profile = s.profile
        /\ Clicked(s, ButtonEvent(b, FALSE), t)
        /\ \A x : StillHeldIn(t, "key", x) => StillHeldIn(s, "key", x)
    BY <2>1, QueueButtonDoes
  <2>3. Released(s, b, t)
    BY <1>3, <2>2, ClickedUp DEF Released
  <2> QED
    BY <2>2, <2>3
<1> QED
  BY <1>2, <1>3

\* The filter after the release of the button that is emulated, if one is,
\* and then the press of b.
PressedAfter(s, b, t) ==
    \E u : /\ u.emulationButton = 1
           /\ \A x : StillHeldIn(u, "button", x) =>
                 /\ StillHeldIn(s, "button", x)
                 /\ s.emulationButton # 1 => x # s.emulationButton
           /\ Clicked(u, ButtonEvent(b, TRUE), t)

LEMMA QueueMouseDownDoes ==
    ASSUME NEW s, Steady(s), NEW b \in 1 .. 3, NEW t, t = QueueMouseDown(s, b)
    PROVE  /\ Steady(t) /\ t.queued = s.queued /\ t.profile = s.profile
           /\ PressedAfter(s, b, t)
           /\ \A x : StillHeldIn(t, "key", x) => StillHeldIn(s, "key", x)
<1> DEFINE u == IF s.emulationButton # 1
                THEN QueueMouseUp(s, s.emulationButton) ELSE s
<1>1. t = Queue(u, ButtonEvent(b, TRUE)) /\ TRUE \in BOOLEAN
  BY DEF QueueMouseDown
<1>2. s.emulationButton \in 1 .. 3
  BY DEF Steady, Sound, Filter
<1>3. /\ Steady(u) /\ u.queued = s.queued /\ u.profile = s.profile
      /\ \A x : StillHeldIn(u, "key", x) => StillHeldIn(s, "key", x)
  BY <1>2, QueueMouseUpDoes
<1>5. /\ u.emulationButton = 1
      /\ \A x : StillHeldIn(u, "button", x) =>
            /\ StillHeldIn(s, "button", x)
            /\ s.emulationButton # 1 => x # s.emulationButton
  <2>1. CASE s.emulationButton = 1
    BY <2>1
  <2>2. CASE s.emulationButton # 1
    <3>1. u = QueueMouseUp(s, s.emulationButton)
      BY <2>2
    <3> HIDE DEF u
    <3>2. Released(s, s.emulationButton, u)
      BY <1>2, <3>1, QueueMouseUpDoes
    <3> QED
      BY <2>2, <3>2 DEF Released
  <2> QED
    BY <2>1, <2>2
<1> HIDE DEF u
<1>4. /\ Steady(t) /\ t.queued = u.queued /\ t.profile = u.profile
      /\ Clicked(u, ButtonEvent(b, TRUE), t)
      /\ \A x : StillHeldIn(t, "key", x) => StillHeldIn(u, "key", x)
  BY <1>1, <1>3, QueueButtonDoes
<1>6. PressedAfter(s, b, t)
  BY <1>4, <1>5 DEF PressedAfter
<1> QED
  BY <1>3, <1>4, <1>6

LEMMA TypingIs ==
    ASSUME NEW k \in Keys, NEW flags, NEW local
    PROVE  /\ Typing(k, flags, local) \in Seq(Characters)
           /\ Unmodified(k, flags) \in Seq(Characters)
           /\ Unmodified(k, flags) # <<>>
<1>1. "a" \in Characters /\ "A" \in Characters /\ "@" \in Characters
      /\ "e" \in Characters /\ "l" \in Characters /\ "m" \in Characters
      /\ "esc" \in Characters
  BY DEF Characters
<1>2. Unmodified(k, flags) \in {<<"l", "m">>, <<"A">>, <<"a">>, <<"e">>,
                                <<"esc">>}
  <2>1. k = "a" \/ k = "e" \/ k = "lam" \/ k = "esc"
    BY DEF Keys
  <2> QED
    BY <2>1 DEF Unmodified
<1>3. Modified(k, flags) \in {<<"@">>, <<>>, Unmodified(k, flags)}
  BY DEF Modified
<1>6. /\ <<"l", "m">> \in Seq(Characters) /\ <<"A">> \in Seq(Characters)
      /\ <<"a">> \in Seq(Characters) /\ <<"e">> \in Seq(Characters)
      /\ <<"esc">> \in Seq(Characters)
  BY <1>1
<1>7. <<"@">> \in Seq(Characters) /\ <<>> \in Seq(Characters)
  BY <1>1
<1>8. /\ <<"l", "m">> # <<>> /\ <<"A">> # <<>> /\ <<"a">> # <<>>
      /\ <<"e">> # <<>> /\ <<"esc">> # <<>>
  OBVIOUS
<1> DEFINE typed == Unmodified(k, flags)
<1> HIDE DEF typed
<1>9. typed \in {<<"l", "m">>, <<"A">>, <<"a">>, <<"e">>, <<"esc">>}
  BY <1>2 DEF typed
<1>10. typed \in Seq(Characters) /\ typed # <<>>
  BY <1>6, <1>8, <1>9, Zenon
<1>4. Unmodified(k, flags) \in Seq(Characters) /\ Unmodified(k, flags) # <<>>
  BY <1>10 DEF typed
<1>5. Modified(k, flags) \in Seq(Characters)
  BY <1>3, <1>4, <1>7, Zenon
<1> QED
  BY <1>4, <1>5 DEF Typing

\* Along the first i characters, pressed or released, from s to t.
Keyed(s, characters, d, t, i) ==
    /\ Steady(t) /\ t.queued = s.queued /\ Along(s, t)
    /\ \A x : StillHeldIn(t, "key", x) =>
          \/ d /\ \E j \in 1 .. i : x = characters[j]
          \/ StillHeldIn(s, "key", x) /\ (d \/ \A j \in 1 .. i : x # characters[j])

LEMMA QueueKeysSteps ==
    ASSUME NEW s, Steady(s), NEW characters \in Seq(Characters),
           NEW d \in BOOLEAN, NEW t, t = QueueKeys(s, characters, d)
    PROVE  Keyed(s, characters, d, t, Len(characters))
<1> DEFINE n == Len(characters)
           One(u, i) == Queue(u, KeyEvent(characters[i], d))
           step == [i \in 1 .. n |->
                      [u \in Filter |->
                          IF One(u, i) \in Filter THEN One(u, i) ELSE u]]
           Good(g) == g = [i \in 0 .. n |->
                             IF i = 0 THEN s ELSE One(g[i - 1], i)]
<1>1. n \in Nat /\ \A i \in 1 .. n : characters[i] \in Characters
  BY LenProperties, ElementOfSeq
<1>2. Keyed(s, characters, d, s, 0)
  BY AlongItself DEF Keyed
<1>3. ASSUME NEW i \in 1 .. n, NEW u, Keyed(s, characters, d, u, i - 1)
      PROVE  Keyed(s, characters, d, One(u, i), i) /\ One(u, i) \in Filter
  <2> DEFINE v == One(u, i)
             c == characters[i]
  <2>1. Steady(u) /\ u.queued = s.queued /\ Along(s, u)
    BY <1>3 DEF Keyed
  <2>2. c \in Characters
    BY <1>1
  <2>7. v = Queue(u, KeyEvent(c, d))
    OBVIOUS
  <2> HIDE DEF v, c, n
  <2>3. /\ Steady(v) /\ v.queued = u.queued /\ Along(u, v)
        /\ \A x : StillHeldIn(v, "key", x) =>
              \/ x = c /\ d
              \/ StillHeldIn(u, "key", x) /\ (x # c \/ d)
    BY <2>1, <2>2, <2>7, QueueKeyDoes
  <2>4. Along(s, v)
    BY <2>1, <2>3, AlongThen
  <2>8. i \in 1 .. i /\ \A j \in 1 .. i : j = i \/ j \in 1 .. i - 1
    BY <1>1
  <2>9. \A j \in 1 .. i - 1 : j \in 1 .. i
    BY <1>1
  <2>5. ASSUME NEW x, StillHeldIn(v, "key", x)
        PROVE  \/ d /\ \E j \in 1 .. i : x = characters[j]
               \/ /\ StillHeldIn(s, "key", x)
                  /\ d \/ \A j \in 1 .. i : x # characters[j]
    <3>1. CASE x = c /\ d
      BY <2>8, <3>1 DEF c
    <3>2. CASE StillHeldIn(u, "key", x) /\ (x # c \/ d)
      <4>1. \/ d /\ \E j \in 1 .. i - 1 : x = characters[j]
            \/ /\ StillHeldIn(s, "key", x)
               /\ d \/ \A j \in 1 .. i - 1 : x # characters[j]
        BY <1>3, <3>2 DEF Keyed
      <4> QED
        BY <2>8, <2>9, <3>2, <4>1, Zenon DEF c
    <3> QED
      BY <2>3, <2>5, <3>1, <3>2
  <2>6. Keyed(s, characters, d, v, i) /\ v \in Filter
    BY <2>1, <2>3, <2>4, <2>5 DEF Keyed, Steady, Sound
  <2> QED
    BY <2>6 DEF v
<1>4. t = (CHOOSE h : Good(h))[n]
  BY Zenon DEF QueueKeys
<1> HIDE DEF n
<1>5. ASSUME NEW g, g[0] = s,
             \A i \in 1 .. n : One(g[i - 1], i) \in Filter =>
                                  g[i] = One(g[i - 1], i)
      PROVE  /\ Keyed(s, characters, d, g[n], n)
             /\ \A i \in 1 .. n : g[i] = One(g[i - 1], i)
  <2> DEFINE G == {i \in 0 .. n : Keyed(s, characters, d, g[i], i)}
  <2> HIDE DEF One
  <2>1. 0 \in G
    BY <1>1, <1>2, <1>5
  <2>2. ASSUME NEW i \in 1 .. n, i - 1 \in G
        PROVE  i \in G /\ g[i] = One(g[i - 1], i)
    <3>1. i \in 0 .. n /\ Keyed(s, characters, d, g[i - 1], i - 1)
      BY <1>1, <2>2
    <3>2. /\ Keyed(s, characters, d, One(g[i - 1], i), i)
          /\ One(g[i - 1], i) \in Filter
      BY <1>3, <3>1
    <3> QED
      BY <1>5, <3>1, <3>2
  <2>3. \A i \in 0 .. n : i \in G
    <3> HIDE DEF G
    <3> QED
      BY <1>1, <2>1, <2>2, InductionTo
  <2>4. \A i \in 1 .. n : g[i] = One(g[i - 1], i)
    <3>1. \A i \in 1 .. n : i - 1 \in 0 .. n
      BY <1>1
    <3> HIDE DEF G
    <3> QED
      BY <2>2, <2>3, <3>1
  <2>5. n \in 0 .. n
    BY <1>1
  <2> QED
    BY <2>3, <2>4, <2>5
<1>6. Loops(Filter, n, s, step)
  <2>1. step \in [1 .. n -> [Filter -> Filter]]
    <3> HIDE DEF One
    <3> QED
      OBVIOUS
  <2>2. s \in Filter
    BY DEF Steady, Sound
  <2> HIDE DEF step
  <2> QED
    BY <1>1, <2>1, <2>2, Recursion
<1>7. PICK g \in [0 .. n -> Filter] :
          g[0] = s /\ \A i \in 1 .. n : g[i] = step[i][g[i - 1]]
  BY <1>6 DEF Loops
<1>8. \A i \in 1 .. n : g[i] = One(g[i - 1], i)
  <2>1. ASSUME NEW i \in 1 .. n, One(g[i - 1], i) \in Filter
        PROVE  g[i] = One(g[i - 1], i)
    <3>1. i - 1 \in 0 .. n
      BY <1>1
    <3>2. g[i - 1] \in Filter
      BY <3>1
    <3> HIDE DEF One
    <3> QED
      BY <1>7, <2>1, <3>2
  <2> HIDE DEF One, step
  <2> QED
    BY <1>5, <1>7, <2>1
<1>9. Good(g)
  <2> HIDE DEF One, step
  <2> QED
    BY <1>1, <1>7, <1>8
<1> DEFINE c == CHOOSE h : Good(h)
<1>10. Good(c)
  <2> HIDE DEF Good
  <2> QED
    BY <1>9
<1>11. c[0] = s /\ \A i \in 1 .. n : c[i] = One(c[i - 1], i)
  <2> HIDE DEF c, One
  <2> QED
    BY <1>1, <1>10
<1>12. Keyed(s, characters, d, c[n], n)
  <2> HIDE DEF c, One
  <2> QED
    BY <1>5, <1>11
<1> HIDE DEF c, Good
<1>13. t = c[n]
  BY <1>4 DEF c
<1> QED
  BY <1>12, <1>13 DEF n

LEMMA QueueKeysDoes ==
    ASSUME NEW s, Steady(s), NEW characters \in Seq(Characters),
           NEW d \in BOOLEAN, NEW t, t = QueueKeys(s, characters, d)
    PROVE  /\ Steady(t) /\ t.queued = s.queued /\ Along(s, t)
           /\ \A x : StillHeldIn(t, "key", x) =>
                 \/ d /\ x \in ToSet(characters)
                 \/ /\ StillHeldIn(s, "key", x)
                    /\ d \/ x \notin ToSet(characters)
<1>1. Keyed(s, characters, d, t, Len(characters))
  BY QueueKeysSteps
<1>2. \A x : x \in ToSet(characters)
              <=> \E j \in 1 .. Len(characters) : x = characters[j]
  BY LenProperties DEF ToSet
<1> QED
  BY <1>1, <1>2, Zenon DEF Keyed

LEMMA QueueKeyDownDoes ==
    ASSUME NEW s, Steady(s), NEW k \in Keys, NEW flags \in SUBSET Flags,
           NEW local, NEW t, t = QueueKeyDown(s, k, flags, local)
    PROVE  /\ Steady(t) /\ t.queued \subseteq s.queued \cup flags
           /\ Along(s, t)
           /\ \A x : StillHeldIn(t, "key", x) =>
                 \/ x \in ToSet(Typing(k, flags, local))
                 \/ StillHeldIn(s, "key", x)
<1> DEFINE cs == Typing(k, flags, local)
           less == flags \ {"control", "option"}
           u == QueueModifiers(s, less, FALSE)
           v == QueueKeys(u, cs, TRUE)
<1>1. cs \in Seq(Characters) /\ less \in SUBSET Flags /\ TRUE \in BOOLEAN
      /\ FALSE \in BOOLEAN
  BY TypingIs
<1>2. t = QueueKeys(s, cs, TRUE) \/ t = QueueModifiers(v, flags, FALSE)
  BY DEF QueueKeyDown
<1> HIDE DEF cs, less
<1>3. CASE t = QueueKeys(s, cs, TRUE)
  BY <1>1, <1>3, QueueKeysDoes DEF cs
<1>4. CASE t = QueueModifiers(v, flags, FALSE)
  <2>1. /\ Steady(u) /\ Along(s, u)
        /\ \A x : StillHeldIn(u, "key", x) => StillHeldIn(s, "key", x)
    BY <1>1, QueueModifiersIsSteady
  <2> HIDE DEF u
  <2>2. /\ Steady(v) /\ Along(u, v)
        /\ \A x : StillHeldIn(v, "key", x) =>
              x \in ToSet(cs) \/ StillHeldIn(u, "key", x)
    BY <1>1, <2>1, QueueKeysDoes
  <2> HIDE DEF v
  <2>3. /\ Steady(t) /\ t.queued = flags /\ Along(v, t)
        /\ \A x : StillHeldIn(t, "key", x) => StillHeldIn(v, "key", x)
    BY <1>1, <1>4, <2>2, QueueModifiersIsSteady
  <2> QED
    BY <2>1, <2>2, <2>3, AlongThen DEF cs
<1> QED
  BY <1>2, <1>3, <1>4

-----------------------------------------------------------------------------
(* pasteString: every character is pressed and released at once.           *)

Clean(t, p) ==
    /\ t.profile = p /\ t.emulationButton = 1
    /\ t \in Filter /\ Mirrors(t) /\ t.pending = <<>> /\ t.queued = {}
    /\ t.pressedButtons = {} /\ t.pressedKeys = {} /\ t.pressedModifiers = {}

LEMMA PressKey ==
    ASSUME NEW s \in Filter, Mirrors(s), NEW c \in Characters,
           NEW K \in SUBSET Characters, K = s.pressedKeys \cup {c},
           NEW t, t = SendKey([s EXCEPT !.pressedKeys = K], c, TRUE)
    PROVE  OnlyKeys(s, K, t)
<1> DEFINE d == TRUE
<1>1. /\ d \in BOOLEAN /\ t = SendKey([s EXCEPT !.pressedKeys = K], c, d)
      /\ d => K = s.pressedKeys \cup {c}
      /\ ~d => K = s.pressedKeys \ {c}
  OBVIOUS
<1> HIDE DEF d
<1> QED
  BY <1>1, SendKeyDoes

LEMMA ReleaseKey ==
    ASSUME NEW s \in Filter, Mirrors(s), NEW c \in Characters,
           NEW K \in SUBSET Characters, K = s.pressedKeys \ {c},
           NEW t, t = SendKey([s EXCEPT !.pressedKeys = K], c, FALSE)
    PROVE  OnlyKeys(s, K, t)
<1> DEFINE d == FALSE
<1>1. /\ d \in BOOLEAN /\ t = SendKey([s EXCEPT !.pressedKeys = K], c, d)
      /\ d => K = s.pressedKeys \cup {c}
      /\ ~d => K = s.pressedKeys \ {c}
  OBVIOUS
<1> HIDE DEF d
<1> QED
  BY <1>1, SendKeyDoes

LEMMA TypeDoes ==
    ASSUME NEW p, NEW s, Clean(s, p), NEW c \in Characters,
           NEW u, u = SendKeyEvent(SendKeyEvent(s, KeyEvent(c, TRUE)),
                                   KeyEvent(c, FALSE))
    PROVE  Clean(u, p)
<1> DEFINE v == SendKeyEvent(s, KeyEvent(c, TRUE))
           one == {} \cup {c}
           none == one \ {c}
<1>1. s \in Filter /\ Mirrors(s) /\ s.pressedKeys = {}
  BY DEF Clean
<1>2. one \in SUBSET Characters /\ none \in SUBSET Characters /\ none = {}
  OBVIOUS
<1>3. v = SendKey([s EXCEPT !.pressedKeys = one], c, TRUE)
  <2>1. v = SendKey([s EXCEPT !.pressedKeys = @ \cup {c}], c, TRUE)
    BY DEF SendKeyEvent, KeyEvent
  <2> QED
    BY <1>1, <2>1
<1> HIDE DEF one
<1>4. one = s.pressedKeys \cup {c} /\ TRUE \in BOOLEAN /\ FALSE \in BOOLEAN
  BY <1>1 DEF one
<1>5. OnlyKeys(s, one, v)
  <2> HIDE DEF v, none
  <2> QED
    BY <1>1, <1>2, <1>3, <1>4, PressKey
<1> HIDE DEF v
<1>6. v \in Filter
  BY <1>5 DEF OnlyKeys, SentFrom
<1>7. u = SendKey([v EXCEPT !.pressedKeys = none], c, FALSE)
  <2>1. c \in v.pressedKeys
    BY <1>5 DEF one, OnlyKeys
  <2>2. u = SendKey([v EXCEPT !.pressedKeys = @ \ {c}], c, FALSE)
    BY <2>1 DEF SendKeyEvent, KeyEvent, v
  <2> QED
    BY <1>5, <2>2 DEF OnlyKeys
<1> HIDE DEF none
<1>8. OnlyKeys(v, none, u)
  <2>1. none = v.pressedKeys \ {c} /\ Mirrors(v)
    BY <1>1, <1>5 DEF none, OnlyKeys
  <2> QED
    BY <1>2, <1>6, <1>7, <2>1, ReleaseKey
<1> QED
  BY <1>1, <1>2, <1>5, <1>8 DEF Clean, SentFrom, OnlyKeys

\* The shifts around upper case go through _sendKeyEvent, as an event whose
\* character was never pressed.
LEMMA ShiftIsNotSent ==
    ASSUME NEW s \in Filter, NEW d
    PROVE  SendKeyEvent(s, ModifierEvent("shift", d, FALSE)) = s
<1>1. NUL \notin s.pressedKeys
  BY DEF Filter, NUL, Characters
<1> QED
  BY <1>1 DEF SendKeyEvent, ModifierEvent

LEMMA TypedDoes ==
    ASSUME NEW p, NEW s, Clean(s, p), NEW string \in Seq(Characters),
           NEW t, t = Typed(s, string)
    PROVE  Clean(t, p)
<1> DEFINE n == Len(string)
           Shifted(i) == i \in 1 .. n /\ string[i] \in Upper
           Shift(u, i) == IF Shifted(i) = Shifted(i - 1) THEN u
                          ELSE SendKeyEvent(u, ModifierEvent("shift",
                                                      Shifted(i), FALSE))
           Type(u, c) == SendKeyEvent(SendKeyEvent(u, KeyEvent(c, TRUE)),
                                      KeyEvent(c, FALSE))
           One(u, i) == Type(Shift(u, i), string[i])
           step == [i \in 1 .. n |->
                      [u \in Filter |->
                          IF One(u, i) \in Filter THEN One(u, i) ELSE u]]
           Good(g) == g = [i \in 0 .. n |->
                             IF i = 0 THEN s ELSE One(g[i - 1], i)]
<1>1. n \in Nat /\ \A i \in 1 .. n : string[i] \in Characters
  BY LenProperties, ElementOfSeq
<1>2. ASSUME NEW u, Clean(u, p), NEW i PROVE Shift(u, i) = u
  <2> HIDE DEF Shifted
  <2>1. u \in Filter
    BY <1>2 DEF Clean
  <2> QED
    BY <2>1, ShiftIsNotSent
<1>3. ASSUME NEW u, Clean(u, p), NEW i \in 1 .. n
      PROVE  Clean(One(u, i), p) /\ One(u, i) \in Filter
  <2> HIDE DEF Shift, n
  <2>1. One(u, i) = Type(u, string[i])
    BY <1>2, <1>3
  <2>2. Clean(One(u, i), p)
    BY <1>1, <1>3, <2>1, TypeDoes
  <2> QED
    BY <2>2 DEF Clean
<1>4. t = Shift((CHOOSE h : Good(h))[n], n + 1)
  BY Zenon DEF Typed
<1> HIDE DEF Shift, Type, n
<1>5. ASSUME NEW g, g[0] = s,
             \A i \in 1 .. n : One(g[i - 1], i) \in Filter =>
                                  g[i] = One(g[i - 1], i)
      PROVE  Clean(g[n], p) /\ \A i \in 1 .. n : g[i] = One(g[i - 1], i)
  <2> DEFINE G == {i \in 0 .. n : Clean(g[i], p)}
  <2> HIDE DEF One
  <2>1. 0 \in G
    BY <1>1, <1>5
  <2>2. ASSUME NEW i \in 1 .. n, i - 1 \in G
        PROVE  i \in G /\ g[i] = One(g[i - 1], i)
    <3>1. i \in 0 .. n /\ Clean(g[i - 1], p)
      BY <1>1, <2>2
    <3> QED
      BY <1>3, <1>5, <3>1
  <2>3. \A i \in 0 .. n : i \in G
    <3> HIDE DEF G
    <3> QED
      BY <1>1, <2>1, <2>2, InductionTo
  <2>4. \A i \in 1 .. n : g[i] = One(g[i - 1], i)
    <3>1. \A i \in 1 .. n : i - 1 \in 0 .. n
      BY <1>1
    <3> HIDE DEF G
    <3> QED
      BY <2>2, <2>3, <3>1
  <2>5. n \in 0 .. n
    BY <1>1
  <2> QED
    BY <2>3, <2>4, <2>5
<1>6. Loops(Filter, n, s, step)
  <2>1. step \in [1 .. n -> [Filter -> Filter]]
    <3> HIDE DEF One
    <3> QED
      OBVIOUS
  <2>2. s \in Filter
    BY DEF Clean
  <2> HIDE DEF step
  <2> QED
    BY <1>1, <2>1, <2>2, Recursion
<1>7. PICK g \in [0 .. n -> Filter] :
          g[0] = s /\ \A i \in 1 .. n : g[i] = step[i][g[i - 1]]
  BY <1>6 DEF Loops
<1>8. \A i \in 1 .. n : g[i] = One(g[i - 1], i)
  <2>1. ASSUME NEW i \in 1 .. n, One(g[i - 1], i) \in Filter
        PROVE  g[i] = One(g[i - 1], i)
    <3>1. i - 1 \in 0 .. n
      BY <1>1
    <3>2. g[i - 1] \in Filter
      BY <3>1
    <3> HIDE DEF One
    <3> QED
      BY <1>7, <2>1, <3>2
  <2> HIDE DEF One, step
  <2> QED
    BY <1>5, <1>7, <2>1
<1>9. Good(g)
  <2> HIDE DEF One, step
  <2> QED
    BY <1>1, <1>7, <1>8
<1> DEFINE c == CHOOSE h : Good(h)
<1>10. Good(c)
  <2> HIDE DEF Good
  <2> QED
    BY <1>9
<1>11. c[0] = s /\ \A i \in 1 .. n : c[i] = One(c[i - 1], i)
  <2> HIDE DEF c, One
  <2> QED
    BY <1>1, <1>10
<1>12. Clean(c[n], p)
  <2> HIDE DEF c, One
  <2> QED
    BY <1>5, <1>11
<1>13. t = Shift(c[n], n + 1)
  BY <1>4
<1> HIDE DEF c
<1> QED
  BY <1>2, <1>12, <1>13

LEMMA PasteDoes ==
    ASSUME NEW s, Steady(s), NEW string \in Seq(Characters),
           NEW t, t = Paste(s, string)
    PROVE  /\ Steady(t) /\ t.queued \subseteq s.queued
           /\ Holds(t, "key", {}) /\ Holds(t, "button", {})
           /\ t.profile = s.profile /\ t.emulationButton = 1
<1> DEFINE a == ClearAllEmulationStates(s)
           b == Typed(a, string)
           new == s.pressedModifiers
           d == QueueModifiers(b, new, FALSE)
<1>1. t = SendAll(d)
  BY DEF Paste
<1>2. /\ Steady(a) /\ Neutral(a) /\ a.profile = s.profile
      /\ a.pressedButtons = {} /\ a.pressedKeys = {}
      /\ a.pressedModifiers = {}
  BY ClearAllEmulationStatesDoes
<1> HIDE DEF a
<1>3. Clean(a, s.profile)
  BY <1>2 DEF Clean, Neutral, Steady, Sound
<1>4. Clean(b, s.profile)
  BY <1>3, TypedDoes
<1> HIDE DEF b
<1>5. /\ Sound(b)
      /\ \A what, x : StillHeldIn(b, what, x) <=> x \in Pressed(b, what)
  <2>1. b \in Filter /\ Mirrors(b) /\ ViewsOnly(b) /\ b.pending = <<>>
    BY <1>4 DEF Clean, ViewsOnly
  <2> QED
    BY <2>1, EmptyIsSound
<1>6. (\A x : ~StillHeldIn(b, "modifier", x))
      /\ (\A x : ~StillHeldIn(b, "key", x))
      /\ (\A x : ~StillHeldIn(b, "button", x))
  BY <1>4, <1>5 DEF Pressed, Clean
<1>7. Steady(b)
  BY <1>5, <1>6 DEF Steady, Holds
<1>8. new \in SUBSET Flags /\ FALSE \in BOOLEAN
  BY DEF Steady, Sound, Filter
<1>9. new \subseteq s.queued
  <2> SUFFICES ASSUME NEW x \in new PROVE x \in s.queued
    OBVIOUS
  <2>1. StillHeldIn(s, "modifier", x)
    BY PressedIsHeld DEF Steady, Sound
  <2> QED
    BY <2>1 DEF Steady, Holds
<1> HIDE DEF new
<1>10. /\ Steady(d) /\ d.queued = new /\ Along(b, d)
       /\ \A x : StillHeldIn(d, "key", x) => StillHeldIn(b, "key", x)
  BY <1>7, <1>8, QueueModifiersIsSteady
<1> HIDE DEF d
<1>11. Sound(t) /\ t.queued = d.queued /\ LessHeld(d, t) /\ Along(d, t)
  BY <1>1, <1>10, SendAllIsSound DEF Steady, Keeps
<1>12. Steady(t)
  BY <1>10, <1>11, LessIsSteady
<1>13. \A x : ~StillHeldIn(t, "key", x)
  BY <1>6, <1>10, <1>11 DEF LessHeld, Kinds
<1>14. /\ t.profile = s.profile /\ t.emulationButton = 1
       /\ Holds(t, "button", {})
  BY <1>4, <1>6, <1>10, <1>11 DEF Along, Clean, Holds
<1> QED
  BY <1>9, <1>10, <1>11, <1>12, <1>13, <1>14 DEF Holds

-----------------------------------------------------------------------------
(* The invariant.                                                          *)

World == [buttons : SUBSET (1 .. 3), keys : SUBSET Keys, flags : SUBSET Flags]

\* What the keys of p type.
TypedBy(p, local) ==
    UNION {ToSet(Typing(k, p.flags, local)) : k \in p.keys}

\* The filter s of the key window, when p is held down: what is queued of the
\* modifiers is held, and what is queued of the keys is typed by a key that is
\* held.  After a key equivalent, whose release is still to come, it is none.
Follows(s, p, last, local) ==
    /\ s.queued \subseteq p.flags
    /\ Holds(s, "key", TypedBy(p, local))
    /\ last # <<>> => Holds(s, "key", {})

\* The buttons of the filter s, when p is held down and l is lost: what is
\* queued of them is held, emulated or lost.  While a button is emulated, one
\* is held.
Clicks(s, p, l) ==
    /\ Holds(s, "button", p.buttons \cup l \cup ({s.emulationButton} \ {1}))
    /\ s.emulationButton # 1 => p.buttons # {}

InUse(u, s, p, l) ==
    /\ s.profile \in u.profiles /\ p.buttons \subseteq u.buttons
    /\ l \subseteq s.server.buttons /\ Clicks(s, p, l)

\* What is lost with a step from s to t, while p is let go until q.
Accounted(s, p, l, t, q, m) ==
    m = t.server.buttons \cap
            (l \cup IF s.emulationButton = 1 THEN {} ELSE p.buttons \ q.buttons)

Good(u, s, p, foc, last, local, l) ==
    /\ InUse(u, s, p, l)
    /\ u \in Uses /\ p \in World /\ p.flags \subseteq u.flags
    /\ foc \in BOOLEAN /\ last \in Seq(Characters) /\ local \in BOOLEAN
    /\ Steady(s)
    /\ foc => Follows(s, p, last, local)
    /\ ~foc => Neutral(s)

IInv == Good(use, f, phys, focused, lastCharacters, locally, lost)

LEMMA UseIs ==
    ASSUME NEW u \in Uses
    PROVE  /\ u.buttons \subseteq 1 .. 3 /\ u.keys \subseteq Keys
           /\ u.flags \subseteq Flags /\ u.strings \subseteq Seq(Characters)
           /\ u.profiles \subseteq ProfileType /\ u.viewOnly \subseteq BOOLEAN
           /\ u.locally \subseteq BOOLEAN
<1>1. u \in Use
  BY EventFilterAssumption
<1> QED
  BY <1>1 DEF Use

LEMMA StartIs ==
    ASSUME Steady(f)
    PROVE  /\ Steady(Start) /\ Same(f, Start) /\ Along(f, Start)
           /\ Start.queued = f.queued /\ Start.watch = f.watch
           /\ Start.multiTapTimer = f.multiTapTimer
           /\ Start.tapTimer = f.tapTimer
           /\ \A x : StillHeldIn(Start, "key", x) <=> StillHeldIn(f, "key", x)
<1>1. f \in Filter /\ <<>> \in Seq(Message)
  BY DEF Steady, Sound
<1>2. Same(f, Start)
  BY <1>1 DEF Start, Same, Filter
<1>3. /\ Start.queued = f.queued /\ Start.watch = f.watch
      /\ Start.multiTapTimer = f.multiTapTimer
      /\ Start.tapTimer = f.tapTimer
      /\ Start.emulationButton = f.emulationButton
  BY <1>1 DEF Start, Filter
<1>4. Along(f, Start)
  BY <1>2, <1>3, SameIsAlong DEF Steady
<1> QED
  BY <1>2, <1>3, <1>4, SameIsSteady

\* No press of a button waits: what is queued as pressed is pressed.
LEMMA HeldIsPressed ==
    ASSUME NEW s, Sound(s), NEW x, StillHeldIn(s, "button", x)
    PROVE  x \in s.server.buttons
<1>1. Quiet(s) /\ Mirrors(s)
  BY DEF Sound
<1>2. \A i \in 1 .. Len(s.pending) : ~Is(s.pending[i], "button", x, TRUE)
  BY <1>1 DEF Quiet, Is
<1>3. x \in s.pressedButtons
  BY <1>2 DEF StillHeldIn, StillHeld, Pressed
<1> QED
  BY <1>1, <1>3 DEF Mirrors

LEMMA AccountIs ==
    ASSUME Account PROVE Accounted(f, phys, lost, f', phys', lost')
BY DEF Account, Accounted

\* What is queued of the buttons after a step was held before it, and is held
\* after it, or lost.
LEMMA InUseThen ==
    ASSUME NEW u, NEW s, NEW p, NEW l, InUse(u, s, p, l),
           NEW t, Sound(t), t.profile = s.profile,
           NEW q, q.buttons \subseteq u.buttons,
           t.emulationButton # 1 => q.buttons # {},
           NEW m, Accounted(s, p, l, t, q, m),
           \A x : StillHeldIn(t, "button", x) =>
              \/ x \in q.buttons \/ x \in l
              \/ x = t.emulationButton /\ x # 1
              \/ s.emulationButton # 1 /\ x \in p.buttons
    PROVE  InUse(u, t, q, m)
<1>1. m \subseteq t.server.buttons
  BY DEF Accounted
<1>2. ASSUME NEW x, StillHeldIn(t, "button", x)
      PROVE  x \in q.buttons \cup m \cup ({t.emulationButton} \ {1})
  <2>1. x \in t.server.buttons
    BY <1>2, HeldIsPressed
  <2>2. CASE x \in q.buttons \/ (x = t.emulationButton /\ x # 1)
    BY <2>2
  <2>3. CASE x \in l \/ (s.emulationButton # 1 /\ x \in p.buttons)
    BY <2>1, <2>3 DEF Accounted
  <2> QED
    BY <1>2, <2>2, <2>3
<1> QED
  BY <1>1, <1>2 DEF InUse, Clicks, Holds

\* A step that presses no button and emulates none.
LEMMA StaysInUse ==
    ASSUME NEW u, NEW s, NEW p, NEW l, InUse(u, s, p, l),
           NEW t, Sound(t), Along(s, t), NEW q, q.buttons = p.buttons,
           NEW m, Accounted(s, p, l, t, q, m)
    PROVE  InUse(u, t, q, m)
<1>1. t.profile = s.profile /\ t.emulationButton = s.emulationButton
  BY DEF Along
<1>2. \A x : StillHeldIn(t, "button", x) =>
         x \in p.buttons \cup l \cup ({s.emulationButton} \ {1})
  BY DEF Along, InUse, Clicks, Holds
<1>3. s.emulationButton # 1 => p.buttons # {}
  BY DEF InUse, Clicks
<1>4. q.buttons \subseteq u.buttons
  BY DEF InUse
<1> QED
  BY <1>1, <1>2, <1>3, <1>4, InUseThen

\* A step after which no button is pressed, and none is emulated.
LEMMA NoneInUse ==
    ASSUME NEW u, NEW s, NEW p, NEW l, InUse(u, s, p, l),
           NEW t, t.profile = s.profile, t.emulationButton = 1,
           Holds(t, "button", {}), NEW q, q.buttons \subseteq u.buttons,
           NEW m, Accounted(s, p, l, t, q, m)
    PROVE  InUse(u, t, q, m)
BY DEF InUse, Clicks, Holds, Accounted

\* A step that neither queues more modifiers than are held nor more keys.
LEMMA StepsOn ==
    ASSUME NEW u, NEW s, NEW p, NEW foc, NEW last, NEW local, NEW l,
           Good(u, s, p, foc, last, local, l), foc,
           NEW t, Steady(t), t.queued \subseteq s.queued \cup p.flags,
           \A x : StillHeldIn(t, "key", x) => StillHeldIn(s, "key", x),
           NEW q \in World, q.flags = p.flags, q.keys = p.keys,
           NEW m, InUse(u, t, q, m)
    PROVE  Good(u, t, q, foc, last, local, m)
<1>1. Follows(s, p, last, local)
  BY DEF Good
<1>3. TypedBy(q, local) = TypedBy(p, local)
  BY DEF TypedBy
<1>2. Follows(t, q, last, local)
  BY <1>1, <1>3 DEF Follows, Holds
<1> QED
  BY <1>2 DEF Good

LEMMA InitIsGood == ASSUME Init PROVE IInv
<1> USE DEF Init
<1>1. /\ use \in Uses /\ phys = Nothing /\ focused = FALSE
      /\ lastCharacters = <<>> /\ locally \in BOOLEAN /\ lost = {}
  BY UseIs
<1>2. PICK p \in use.profiles, v \in use.viewOnly :
          f = [pending |-> <<>>, queued |-> {}, pressedKeys |-> {},
               pressedButtons |-> {}, pressedModifiers |-> {},
               emulationButton |-> 1, stillDown |-> [b \in Emulated |-> FALSE],
               multiTapTimer |-> FALSE, tapTimer |-> 0, watch |-> FALSE,
               viewOnly |-> v, profile |-> p,
               server |-> [buttons |-> {}, keys |-> {}, modifiers |-> {}],
               out |-> <<>>]
  OBVIOUS
<1>3. p \in ProfileType /\ v \in BOOLEAN
  BY <1>1, UseIs
<1> DEFINE none == [buttons |-> {}, keys |-> {}, modifiers |-> {}]
           still == [b \in Emulated |-> FALSE]
<1>4. none \in Server /\ still \in [Emulated -> BOOLEAN]
      /\ <<>> \in Seq(Event) /\ <<>> \in Seq(Message)
  BY DEF Server
<1>5. \A b \in Emulated : ~still[b]
  OBVIOUS
<1>6. f = [pending |-> <<>>, queued |-> {}, pressedKeys |-> {},
           pressedButtons |-> {}, pressedModifiers |-> {},
           emulationButton |-> 1, stillDown |-> still,
           multiTapTimer |-> FALSE, tapTimer |-> 0, watch |-> FALSE,
           viewOnly |-> v, profile |-> p, server |-> none, out |-> <<>>]
  BY <1>2
<1>7. Mirrors(f)
  BY <1>6 DEF Mirrors
<1>8. f.server = none
  BY <1>6
<1>9. Neutral(f)
  BY <1>5, <1>6 DEF Neutral
<1> HIDE DEF none, still
<1>10. f \in Filter
  <2>1. 1 \in 1 .. 3 /\ 0 \in {0, 2, 3} /\ FALSE \in BOOLEAN
    OBVIOUS
  <2>2. p \in ProfileType /\ v \in BOOLEAN
    BY <1>3
  <2>3. {} \in SUBSET Flags /\ {} \in SUBSET Characters
        /\ {} \in SUBSET (1 .. 3)
    OBVIOUS
  <2> QED
    BY <1>4, <1>6, <2>1, <2>2, <2>3 DEF Filter
<1>11. f.pending = <<>> /\ f.pressedModifiers = {} /\ f.pressedKeys = {}
       /\ f.pressedButtons = {}
  BY <1>6
<1>12. ViewsOnly(f)
  BY <1>11 DEF ViewsOnly
<1>13. /\ Sound(f)
       /\ \A what, x : StillHeldIn(f, what, x) <=> x \in Pressed(f, what)
  BY <1>7, <1>10, <1>11, <1>12, EmptyIsSound
<1>14. \A x : ~StillHeldIn(f, "modifier", x)
  BY <1>11, <1>13 DEF Pressed
<1>15. Steady(f)
  BY <1>13, <1>14 DEF Steady, Holds
<1>16. phys \in World /\ phys.flags \subseteq use.flags
       /\ phys.buttons \subseteq use.buttons
  BY <1>1 DEF World, Nothing
<1>17. InUse(use, f, phys, lost)
  <2>1. f.profile \in use.profiles /\ f.emulationButton = 1
    BY <1>6
  <2>2. \A x : ~StillHeldIn(f, "button", x)
    BY <1>11, <1>13 DEF Pressed
  <2> QED
    BY <1>1, <1>16, <2>1, <2>2 DEF InUse, Clicks, Holds
<1>18. lastCharacters \in Seq(Characters)
  BY <1>1
<1> QED
  BY <1>1, <1>9, <1>15, <1>16, <1>17, <1>18 DEF IInv, Good

-----------------------------------------------------------------------------
(* The actions.                                                            *)

LEMMA MouseDownIsGood ==
    ASSUME IInv, NEW b \in use.buttons, MouseDown(b) PROVE IInv'
<1>1. focused /\ phys \in World /\ use \in Uses /\ Steady(f)
  BY DEF IInv, Good, MouseDown
<1>2. b \in 1 .. 3
  BY <1>1, UseIs
<1>3. f' = QueueMouseDown(Start, b)
  BY DEF MouseDown
<1>8. /\ Steady(Start) /\ Start.queued = f.queued /\ Along(f, Start)
      /\ \A x : StillHeldIn(Start, "key", x) <=> StillHeldIn(f, "key", x)
  BY <1>1, StartIs
<1>4. /\ Steady(f') /\ f'.queued = f.queued /\ f'.profile = f.profile
      /\ PressedAfter(Start, b, f')
      /\ \A x : StillHeldIn(f', "key", x) => StillHeldIn(f, "key", x)
  BY <1>2, <1>3, <1>8, QueueMouseDownDoes DEF Along
<1>5. phys' \in World /\ phys'.flags = phys.flags /\ phys'.keys = phys.keys
  BY <1>1, <1>2 DEF MouseDown, World
<1>7. InUse(use, f', phys', lost')
  <2>1. InUse(use, f, phys, lost)
    BY DEF IInv, Good
  <2>2. phys'.buttons = phys.buttons \cup {b}
    BY <1>1 DEF MouseDown, World
  <2>3. phys'.buttons \subseteq use.buttons
    BY <2>1, <2>2 DEF InUse
  <2>4. Accounted(f, phys, lost, f', phys', lost')
    BY AccountIs DEF MouseDown
  <2>5. PICK u :
           /\ u.emulationButton = 1
           /\ \A x : StillHeldIn(u, "button", x) =>
                 /\ StillHeldIn(Start, "button", x)
                 /\ Start.emulationButton # 1 => x # Start.emulationButton
           /\ Clicked(u, ButtonEvent(b, TRUE), f')
    BY <1>4 DEF PressedAfter
  <2>6. \A x : StillHeldIn(u, "button", x) => x \in phys.buttons \cup lost
    BY <1>8, <2>1, <2>5 DEF Along, InUse, Clicks, Holds
  <2>7. \A x : Is(ButtonEvent(b, TRUE), "button", x, TRUE) => x = b
    BY DEF Is, ButtonEvent
  <2>8. \A x : StillHeldIn(f', "button", x) =>
           \/ x \in phys'.buttons \/ x \in lost
           \/ x = f'.emulationButton /\ x # 1
    <3>1. \/ \A x : StillHeldIn(f', "button", x) =>
                 x = b \/ StillHeldIn(u, "button", x)
          \/ /\ f'.emulationButton \in Emulated
             /\ \A x : StillHeldIn(f', "button", x) =>
                   x = f'.emulationButton \/ StillHeldIn(u, "button", x)
      BY <2>5, <2>7 DEF Clicked
    <3>2. f'.emulationButton \in Emulated => f'.emulationButton # 1
      BY DEF Emulated
    <3>3. \A x : x = b \/ StillHeldIn(u, "button", x) =>
                    x \in phys'.buttons \/ x \in lost
      BY <2>2, <2>6
    <3> QED
      BY <3>1, <3>2, <3>3, Zenon
  <2>9. Sound(f')
    BY <1>4 DEF Steady
  <2> QED
    BY <1>4, <2>1, <2>2, <2>3, <2>4, <2>8, <2>9, InUseThen
<1>6. Good(use, f', phys', focused, lastCharacters, locally, lost')
  BY <1>1, <1>4, <1>5, <1>7, StepsOn DEF IInv
<1> QED
  BY <1>6 DEF IInv, MouseDown

LEMMA MouseUpIsGood ==
    ASSUME IInv, NEW b \in use.buttons, MouseUp(b) PROVE IInv'
<1>1. focused /\ phys \in World /\ use \in Uses /\ Steady(f)
  BY DEF IInv, Good, MouseUp
<1>2. b \in 1 .. 3
  BY <1>1, UseIs
<1>3. f' = QueueMouseUp(Start, b)
  BY DEF MouseUp
<1>4. /\ Steady(f') /\ f'.queued = f.queued /\ f'.profile = f.profile
      /\ Released(Start, b, f')
      /\ \A x : StillHeldIn(f', "key", x) => StillHeldIn(f, "key", x)
  BY <1>1, <1>2, <1>3, StartIs, QueueMouseUpDoes DEF Along
<1>5. phys' \in World /\ phys'.flags = phys.flags /\ phys'.keys = phys.keys
  BY <1>1, <1>2 DEF MouseUp, World
<1>7. InUse(use, f', phys', lost')
  <2>1. InUse(use, f, phys, lost) /\ Along(f, Start)
    BY <1>1, StartIs DEF IInv, Good
  <2>2. phys'.buttons = phys.buttons \ {b}
    BY <1>1 DEF MouseUp, World
  <2>3. phys'.buttons \subseteq use.buttons
    BY <2>1, <2>2 DEF InUse
  <2>4. Accounted(f, phys, lost, f', phys', lost')
    BY AccountIs DEF MouseUp
  <2>5. /\ f'.emulationButton = 1
        /\ \A x : StillHeldIn(f', "button", x) =>
              /\ StillHeldIn(f, "button", x)
              /\ x # IF f.emulationButton = 1 THEN b ELSE f.emulationButton
    BY <1>4, <2>1 DEF Released, Along
  <2>6. \A x : StillHeldIn(f', "button", x) =>
           \/ x \in phys'.buttons \/ x \in lost
           \/ f.emulationButton # 1 /\ x \in phys.buttons
    BY <2>1, <2>2, <2>5 DEF InUse, Clicks, Holds
  <2>7. Sound(f')
    BY <1>4 DEF Steady
  <2> QED
    BY <1>4, <2>1, <2>3, <2>4, <2>5, <2>6, <2>7, InUseThen
<1>6. Good(use, f', phys', focused, lastCharacters, locally, lost')
  BY <1>1, <1>4, <1>5, <1>7, StepsOn DEF IInv
<1> QED
  BY <1>6 DEF IInv, MouseUp

\* The pointer is told where it is, with the buttons that are pressed.
LEMMA PointerDoes ==
    ASSUME NEW s, Steady(s), ~s.viewOnly,
           NEW t, t = SendPointer(s, s.pressedButtons)
    PROVE  /\ Steady(t) /\ t.queued = s.queued /\ Along(s, t)
           /\ \A x : StillHeldIn(t, "key", x) <=> StillHeldIn(s, "key", x)
<1> DEFINE B == s.pressedButtons
<1>1. s \in Filter /\ Mirrors(s)
  BY DEF Steady, Sound
<1>2. B \in SUBSET (1 .. 3) /\ s = [s EXCEPT !.pressedButtons = B]
  BY <1>1 DEF Filter
<1>3. t = SendPointer([s EXCEPT !.pressedButtons = B], B)
  BY <1>2
<1> HIDE DEF B
<1>4. /\ SentFrom(s, t) /\ Mirrors(t)
      /\ t.pressedButtons = B
      /\ t.pressedKeys = s.pressedKeys
      /\ t.pressedModifiers = s.pressedModifiers
  BY <1>1, <1>2, <1>3, SendPointerDoes
<1>5. Same(s, t) /\ t.queued = s.queued
      /\ t.emulationButton = s.emulationButton
  BY <1>1, <1>4 DEF Same, SentFrom, Mirrors, B
<1> QED
  BY <1>5, SameIsSteady, SameIsAlong DEF Steady

LEMMA SendAllIsSteady ==
    ASSUME NEW s, Steady(s), NEW t, t = SendAll(s)
    PROVE  /\ Steady(t) /\ t.queued = s.queued /\ t.viewOnly = s.viewOnly
           /\ Along(s, t)
           /\ \A x : StillHeldIn(t, "key", x) => StillHeldIn(s, "key", x)
<1>1. Sound(t) /\ Keeps(s, t) /\ LessHeld(s, t) /\ Along(s, t)
  BY SendAllIsSound DEF Steady
<1>2. t.queued = s.queued /\ t.viewOnly = s.viewOnly
  BY <1>1 DEF Keeps
<1>3. Steady(t)
  BY <1>1, <1>2, LessIsSteady
<1> QED
  BY <1>1, <1>2, <1>3 DEF LessHeld, Kinds

LEMMA ScrollWheelIsGood == ASSUME IInv, ScrollWheel PROVE IInv'
<1>1. focused /\ phys \in World /\ Steady(f) /\ ~f.viewOnly
  BY DEF IInv, Good, ScrollWheel
<1> DEFINE s == SendAll(Start)
<1>2. f' = SendPointer(s, s.pressedButtons)
  BY DEF ScrollWheel
<1>3. ~Start.viewOnly
  BY <1>1, StartIs DEF Same
<1>4. /\ Steady(s) /\ s.queued = f.queued /\ ~s.viewOnly /\ Along(f, s)
      /\ \A x : StillHeldIn(s, "key", x) => StillHeldIn(f, "key", x)
  BY <1>1, <1>3, StartIs, SendAllIsSteady, AlongThen
<1> HIDE DEF s
<1>5. /\ Steady(f') /\ f'.queued = s.queued /\ Along(s, f')
      /\ \A x : StillHeldIn(f', "key", x) <=> StillHeldIn(s, "key", x)
  BY <1>2, <1>4, PointerDoes
<1>6. /\ f'.queued \subseteq f.queued \cup phys.flags
      /\ \A x : StillHeldIn(f', "key", x) => StillHeldIn(f, "key", x)
  BY <1>4, <1>5
<1>9. Accounted(f, phys, lost, f', phys, lost')
  BY AccountIs DEF ScrollWheel, Accounted
<1>8. InUse(use, f', phys, lost')
  BY <1>4, <1>5, <1>9, AlongThen, StaysInUse DEF IInv, Good, Steady
<1>7. Good(use, f', phys, focused, lastCharacters, locally, lost')
  BY <1>1, <1>5, <1>6, <1>8, StepsOn DEF IInv
<1> QED
  BY <1>7 DEF IInv, ScrollWheel

LEMMA MouseMovedIsGood == ASSUME IInv, MouseMoved PROVE IInv'
<1>1. focused /\ phys \in World /\ Steady(f) /\ ~f.viewOnly
  BY DEF IInv, Good, MouseMoved
<1>2. /\ Steady(Start) /\ ~Start.viewOnly
      /\ Start.pressedButtons = f.pressedButtons /\ Along(f, Start)
  BY <1>1, StartIs DEF Same
<1>3. f' = SendPointer(Start, Start.pressedButtons)
  BY <1>2 DEF MouseMoved
<1>4. /\ Steady(f') /\ f'.queued = Start.queued /\ Along(Start, f')
      /\ \A x : StillHeldIn(f', "key", x) <=> StillHeldIn(Start, "key", x)
  BY <1>2, <1>3, PointerDoes
<1>5. /\ f'.queued \subseteq f.queued \cup phys.flags
      /\ \A x : StillHeldIn(f', "key", x) => StillHeldIn(f, "key", x)
  BY <1>1, <1>4, StartIs
<1>8. Accounted(f, phys, lost, f', phys, lost')
  BY AccountIs DEF MouseMoved, Accounted
<1>7. InUse(use, f', phys, lost')
  BY <1>2, <1>4, <1>8, AlongThen, StaysInUse DEF IInv, Good, Steady
<1>6. Good(use, f', phys, focused, lastCharacters, locally, lost')
  BY <1>1, <1>4, <1>5, <1>7, StepsOn DEF IInv
<1> QED
  BY <1>6 DEF IInv, MouseMoved

\* What comes of clearing: nothing waits, nothing is pressed.
LEMMA ClearedIs ==
    ASSUME NEW s, Steady(s), NEW t, t = ClearAllEmulationStates(s)
    PROVE  /\ Steady(t) /\ Neutral(t) /\ Holds(t, "key", {})
           /\ Holds(t, "button", {}) /\ t.profile = s.profile
<1>1. /\ Steady(t) /\ Neutral(t) /\ t.profile = s.profile
      /\ t.pressedButtons = {} /\ t.pressedKeys = {}
      /\ t.pressedModifiers = {}
  BY ClearAllEmulationStatesDoes
<1>2. t \in Filter /\ Mirrors(t) /\ ViewsOnly(t) /\ t.pending = <<>>
  BY <1>1 DEF Steady, Sound, Neutral
<1>3. \A what, x : StillHeldIn(t, what, x) <=> x \in Pressed(t, what)
  BY <1>2, EmptyIsSound
<1>4. Holds(t, "key", {}) /\ Holds(t, "button", {})
  BY <1>1, <1>3 DEF Holds, Pressed
<1> QED
  BY <1>1, <1>4

\* A step after which no key is queued as pressed.
LEMMA StepsClear ==
    ASSUME NEW u, NEW s, NEW p, NEW foc, NEW last, NEW local, NEW l,
           Good(u, s, p, foc, last, local, l), foc,
           NEW t, Steady(t), Holds(t, "key", {}),
           NEW q \in World, t.queued \subseteq q.flags,
           q.flags \subseteq u.flags, NEW m, InUse(u, t, q, m),
           NEW k \in Seq(Characters)
    PROVE  Good(u, t, q, foc, k, local, m)
<1>1. Follows(t, q, k, local)
  BY DEF Follows, Holds
<1> QED
  BY <1>1 DEF Good

LEMMA KeyEquivalentIsGood ==
    ASSUME IInv, NEW k \in use.keys, KeyEquivalent(k) PROVE IInv'
<1>1. focused /\ phys \in World /\ use \in Uses /\ Steady(f)
      /\ phys.flags \subseteq use.flags
  BY DEF IInv, Good, KeyEquivalent
<1>2. k \in Keys
  BY <1>1, UseIs
<1>3. f' = ClearAllEmulationStates(Start)
  BY DEF KeyEquivalent
<1>4. /\ Steady(f') /\ Neutral(f') /\ Holds(f', "key", {})
      /\ Holds(f', "button", {}) /\ f'.profile = f.profile
  BY <1>1, <1>3, StartIs, ClearedIs DEF Along
<1>5. phys' \in World /\ phys'.flags = phys.flags
      /\ phys'.buttons = phys.buttons
  BY <1>1, <1>2 DEF KeyEquivalent, World
<1>6. f'.queued \subseteq phys'.flags
  BY <1>4 DEF Neutral
<1>7. lastCharacters' \in Seq(Characters)
  BY <1>2, TypingIs DEF KeyEquivalent
<1>9. InUse(use, f', phys', lost')
  <2>1. InUse(use, f, phys, lost) /\ f'.emulationButton = 1
    BY <1>4 DEF IInv, Good, Neutral
  <2>2. phys'.buttons \subseteq use.buttons
    BY <1>5, <2>1 DEF InUse
  <2>3. Accounted(f, phys, lost, f', phys', lost')
    BY AccountIs DEF KeyEquivalent
  <2> QED
    BY <1>4, <2>1, <2>2, <2>3, NoneInUse
<1>8. Good(use, f', phys', focused, lastCharacters', locally, lost')
  <2>1. phys'.flags \subseteq use.flags
    BY <1>1, <1>5
  <2> QED
    BY <1>1, <1>4, <1>5, <1>6, <1>7, <1>9, <2>1, StepsClear DEF IInv
<1> QED
  BY <1>8 DEF IInv, KeyEquivalent

LEMMA KeyDownIsGood ==
    ASSUME IInv, NEW k \in use.keys, KeyDown(k) PROVE IInv'
<1>1. focused /\ phys \in World /\ use \in Uses /\ Steady(f)
      /\ phys.flags \subseteq use.flags /\ focused \in BOOLEAN
      /\ Follows(f, phys, lastCharacters, locally)
  BY DEF IInv, Good, KeyDown
<1>2. k \in Keys
  BY <1>1, UseIs
<1> DEFINE flags == phys.flags
           c == ToSet(Typing(k, flags, locally))
           s == UpdateCapsLock(Start, flags)
<1>3. f' = QueueKeyDown(s, k, flags, locally)
  BY DEF KeyDown
<1>4. flags \in SUBSET Flags
  BY <1>1 DEF World
<1>5. /\ Steady(s) /\ s.queued \subseteq f.queued \cup flags /\ Along(f, s)
      /\ \A x : StillHeldIn(s, "key", x) => StillHeldIn(f, "key", x)
  <2>1. /\ Steady(Start) /\ Start.queued = f.queued /\ Along(f, Start)
        /\ \A x : StillHeldIn(Start, "key", x) <=> StillHeldIn(f, "key", x)
    BY <1>1, StartIs
  <2> HIDE DEF flags
  <2>2. /\ Steady(s) /\ s.queued \subseteq Start.queued \cup flags
        /\ Along(Start, s)
        /\ \A x : StillHeldIn(s, "key", x) => StillHeldIn(Start, "key", x)
    BY <1>4, <2>1, UpdateCapsLockDoes
  <2> HIDE DEF s
  <2> QED
    BY <2>1, <2>2, AlongThen
<1> HIDE DEF s, c, flags
<1>6. /\ Steady(f') /\ f'.queued \subseteq s.queued \cup flags
      /\ Along(s, f')
      /\ \A x : StillHeldIn(f', "key", x) => x \in c \/ StillHeldIn(s, "key", x)
  BY <1>2, <1>3, <1>4, <1>5, QueueKeyDownDoes DEF c
<1>7. /\ phys' \in World /\ phys'.flags = flags
      /\ phys'.keys = phys.keys \cup {k} /\ phys'.buttons = phys.buttons
  BY <1>1, <1>2 DEF KeyDown, World, flags
<1>8. f'.queued \subseteq phys'.flags
  BY <1>1, <1>5, <1>6, <1>7 DEF Follows, flags
<1>9. Holds(f', "key", TypedBy(phys', locally))
  <2> SUFFICES ASSUME NEW x, StillHeldIn(f', "key", x)
               PROVE  \E j \in phys'.keys :
                         x \in ToSet(Typing(j, phys'.flags, locally))
    BY DEF Holds, TypedBy
  <2>1. CASE x \in c
    BY <1>7, <2>1 DEF c
  <2>2. CASE x \notin c
    <3>1. StillHeldIn(f, "key", x)
      BY <1>5, <1>6, <2>2
    <3>2. PICK j \in phys.keys : x \in ToSet(Typing(j, flags, locally))
      BY <1>1, <3>1 DEF Follows, Holds, TypedBy, flags
    <3> QED
      BY <1>7, <3>2
  <2> QED
    BY <2>1, <2>2
<1>10. lastCharacters' = <<>>
  BY DEF KeyDown
<1>11. Follows(f', phys', <<>>, locally)
  BY <1>8, <1>9 DEF Follows
<1>14. Accounted(f, phys, lost, f', phys', lost')
  BY AccountIs DEF KeyDown
<1>13. InUse(use, f', phys', lost')
  BY <1>5, <1>6, <1>7, <1>14, AlongThen, StaysInUse DEF IInv, Good, Steady
<1>15. <<>> \in Seq(Characters)
  OBVIOUS
<1>12. Good(use, f', phys', focused, <<>>, locally, lost')
  BY <1>1, <1>6, <1>7, <1>11, <1>13, <1>15 DEF IInv, Good, flags
<1> QED
  BY <1>10, <1>12 DEF IInv, KeyDown

LEMMA KeyUpIsGood ==
    ASSUME IInv, NEW k \in use.keys, KeyUp(k) PROVE IInv'
<1>1. focused /\ phys \in World /\ use \in Uses /\ Steady(f)
      /\ phys.flags \subseteq use.flags /\ focused \in BOOLEAN
      /\ Follows(f, phys, lastCharacters, locally)
      /\ lastCharacters \in Seq(Characters)
  BY DEF IInv, Good, KeyUp
<1>2. k \in Keys
  BY <1>1, UseIs
<1> DEFINE flags == phys.flags
           cs == Typing(k, flags, locally)
           c == ToSet(cs)
           s == UpdateCapsLock(Start, flags)
           swallowed == lastCharacters = Unmodified(k, flags)
<1>3. /\ f' = IF swallowed THEN Start
            ELSE QueueKeyUp(s, k, flags, locally)
      /\ lastCharacters' = IF swallowed THEN <<>> ELSE lastCharacters
  BY DEF KeyUp
<1>4. flags \in SUBSET Flags
  BY <1>1 DEF World
<1>5. /\ Steady(Start) /\ Start.queued = f.queued /\ Along(f, Start)
      /\ \A x : StillHeldIn(Start, "key", x) <=> StillHeldIn(f, "key", x)
  BY <1>1, StartIs
<1>6. /\ phys' \in World /\ phys'.flags = flags
      /\ phys'.keys = phys.keys \ {k} /\ phys'.buttons = phys.buttons
  BY <1>1, <1>2 DEF KeyUp, World
<1>7. CASE swallowed
  <2>1. lastCharacters # <<>>
    BY <1>2, <1>7, TypingIs
  <2>2. Holds(f', "key", {})
    BY <1>1, <1>3, <1>5, <1>7, <2>1 DEF Follows, Holds
  <2>3. Steady(f') /\ f'.queued \subseteq phys'.flags
    BY <1>1, <1>3, <1>5, <1>6, <1>7 DEF Follows
  <2>4. phys'.flags \subseteq use.flags /\ lastCharacters' = <<>>
    BY <1>1, <1>3, <1>6, <1>7
  <2>5. <<>> \in Seq(Characters)
    OBVIOUS
  <2>7. InUse(use, f', phys', lost')
    <3>1. Accounted(f, phys, lost, f', phys', lost')
      BY AccountIs DEF KeyUp
    <3>2. Sound(f') /\ Along(f, f')
      BY <1>3, <1>5, <1>7 DEF Steady
    <3>3. InUse(use, f, phys, lost)
      BY DEF IInv, Good
    <3> QED
      BY <1>6, <3>1, <3>2, <3>3, StaysInUse
  <2>6. Good(use, f', phys', focused, <<>>, locally, lost')
    <3> HIDE DEF swallowed, s, cs, c, flags
    <3> QED
      BY <1>1, <1>6, <2>2, <2>3, <2>4, <2>5, <2>7, StepsClear DEF IInv
  <2> QED
    BY <2>4, <2>6 DEF IInv, KeyUp
<1>8. CASE ~swallowed
  <2>1. f' = QueueKeys(s, cs, FALSE) /\ lastCharacters' = lastCharacters
    BY <1>3, <1>8 DEF QueueKeyUp
  <2>2. cs \in Seq(Characters) /\ FALSE \in BOOLEAN
    BY <1>2, TypingIs
  <2> HIDE DEF swallowed, flags
  <2>3. /\ Steady(s) /\ s.queued \subseteq Start.queued \cup flags
        /\ Along(Start, s)
        /\ \A x : StillHeldIn(s, "key", x) => StillHeldIn(Start, "key", x)
    BY <1>4, <1>5, UpdateCapsLockDoes
  <2> HIDE DEF s, cs
  <2>4. /\ Steady(f') /\ f'.queued = s.queued /\ Along(s, f')
        /\ \A x : StillHeldIn(f', "key", x) =>
              x \notin c /\ StillHeldIn(s, "key", x)
    BY <2>1, <2>2, <2>3, QueueKeysDoes
  <2> HIDE DEF c
  <2>5. f'.queued \subseteq phys'.flags
    BY <1>1, <1>5, <1>6, <2>3, <2>4 DEF Follows, flags
  <2>6. Holds(f', "key", TypedBy(phys', locally))
    <3> SUFFICES ASSUME NEW x, StillHeldIn(f', "key", x)
                 PROVE  \E j \in phys'.keys :
                           x \in ToSet(Typing(j, phys'.flags, locally))
      BY DEF Holds, TypedBy
    <3>1. x \notin c /\ StillHeldIn(f, "key", x)
      BY <1>5, <2>3, <2>4
    <3>2. PICK j \in phys.keys : x \in ToSet(Typing(j, flags, locally))
      BY <1>1, <3>1 DEF Follows, Holds, TypedBy, flags
    <3>3. j # k
      BY <3>1, <3>2 DEF c, cs
    <3> QED
      BY <1>6, <3>2, <3>3
  <2>7. lastCharacters # <<>> => Holds(f', "key", {})
    BY <1>1, <1>5, <2>3, <2>4 DEF Follows, Holds
  <2>8. Follows(f', phys', lastCharacters, locally)
    BY <2>5, <2>6, <2>7 DEF Follows
  <2>10. InUse(use, f', phys', lost')
    <3>1. Accounted(f, phys, lost, f', phys', lost')
      BY AccountIs DEF KeyUp
    <3> QED
      BY <1>5, <1>6, <2>3, <2>4, <3>1, AlongThen, StaysInUse
      DEF IInv, Good, Steady
  <2>9. Good(use, f', phys', focused, lastCharacters, locally, lost')
    BY <1>1, <1>6, <2>4, <2>8, <2>10 DEF IInv, Good, flags
  <2> QED
    BY <2>1, <2>9 DEF IInv, KeyUp
<1> QED
  BY <1>7, <1>8

LEMMA FlagsChangedIsGood ==
    ASSUME IInv, NEW m \in use.flags, NEW late \in BOOLEAN,
           FlagsChanged(m, late)
    PROVE  IInv'
<1>1. focused /\ phys \in World /\ use \in Uses /\ Steady(f)
      /\ phys.flags \subseteq use.flags
      /\ lastCharacters \in Seq(Characters)
  BY DEF IInv, Good, FlagsChanged
<1> DEFINE flags == phys'.flags
<1>2. m \in Flags
  BY <1>1, UseIs
<1>3. phys' \in World /\ flags \in SUBSET Flags /\ flags \subseteq use.flags
      /\ phys'.buttons = phys.buttons
  BY <1>1, <1>2 DEF FlagsChanged, World
<1>4. f' = HandleFlags(Start, flags, late)
  BY DEF FlagsChanged
<1> HIDE DEF flags
<1>5. /\ Steady(f') /\ f'.queued = flags /\ Holds(f', "key", {})
      /\ Along(Start, f')
  BY <1>1, <1>3, <1>4, StartIs, HandleFlagsDoes
<1>8. InUse(use, f', phys', lost')
  <2>1. Accounted(f, phys, lost, f', phys', lost')
    BY AccountIs DEF FlagsChanged
  <2>2. InUse(use, f, phys, lost) /\ Along(f, f') /\ Sound(f')
    BY <1>1, <1>5, StartIs, AlongThen DEF IInv, Good, Steady
  <2> QED
    BY <1>3, <2>1, <2>2, StaysInUse
<1>6. f'.queued \subseteq phys'.flags /\ phys'.flags \subseteq use.flags
  BY <1>3, <1>5 DEF flags
<1>7. Good(use, f', phys', focused, lastCharacters, locally, lost')
  BY <1>1, <1>3, <1>5, <1>6, <1>8, StepsClear DEF IInv
<1> QED
  BY <1>7 DEF IInv, FlagsChanged

LEMMA PasteStringIsGood ==
    ASSUME IInv, NEW string \in use.strings, PasteString(string) PROVE IInv'
<1>1. focused /\ phys \in World /\ use \in Uses /\ Steady(f)
      /\ phys.flags \subseteq use.flags
      /\ lastCharacters \in Seq(Characters)
      /\ Follows(f, phys, lastCharacters, locally)
  BY DEF IInv, Good, PasteString
<1>2. string \in Seq(Characters)
  BY <1>1, UseIs
<1> DEFINE flags == phys.flags
           s == UpdateCapsLock(Start, flags)
<1>3. f' = Paste(s, string)
  BY DEF PasteString
<1>4. flags \in SUBSET Flags
  BY <1>1 DEF World
<1>5. Steady(Start) /\ Start.queued = f.queued /\ Along(f, Start)
  BY <1>1, StartIs
<1> HIDE DEF flags
<1>6. Steady(s) /\ s.queued \subseteq Start.queued \cup flags
      /\ Along(Start, s)
  BY <1>4, <1>5, UpdateCapsLockDoes
<1> HIDE DEF s
<1>7. /\ Steady(f') /\ f'.queued \subseteq s.queued /\ Holds(f', "key", {})
      /\ Holds(f', "button", {}) /\ f'.profile = s.profile
      /\ f'.emulationButton = 1
  BY <1>2, <1>3, <1>6, PasteDoes
<1>8. f'.queued \subseteq phys.flags
  BY <1>1, <1>5, <1>6, <1>7 DEF Follows, flags
<1>10. InUse(use, f', phys, lost')
  <2>1. InUse(use, f, phys, lost)
    BY DEF IInv, Good
  <2>2. f'.profile = f.profile /\ phys.buttons \subseteq use.buttons
    BY <1>5, <1>6, <1>7, <2>1 DEF Along, InUse
  <2>3. Accounted(f, phys, lost, f', phys, lost')
    BY AccountIs DEF PasteString, Accounted
  <2> QED
    BY <1>7, <2>1, <2>2, <2>3, NoneInUse
<1>9. Good(use, f', phys, focused, lastCharacters, locally, lost')
  BY <1>1, <1>7, <1>8, <1>10, StepsClear DEF IInv
<1> QED
  BY <1>9 DEF IInv, PasteString

\* The timers of the taps run only while the window is the key window.
LEMMA TimerIsGood ==
    ASSUME IInv, f.multiTapTimer \/ f.tapTimer # 0,
           NEW s, AlikeAs(Start, s, Start.pending, Start.emulationButton),
           NEW t, t = SendAll(s),
           NEW m, Accounted(f, phys, lost, t, phys, m)
    PROVE  Good(use, t, phys, focused, lastCharacters, locally, m)
<1>1. phys \in World /\ Steady(f) /\ focused
  BY DEF IInv, Good, Neutral
<1>2. /\ Steady(Start) /\ Start.queued = f.queued /\ Along(f, Start)
      /\ \A x : StillHeldIn(Start, "key", x) <=> StillHeldIn(f, "key", x)
  BY <1>1, StartIs
<1>3. Start \in Filter /\ Mirrors(Start) /\ ViewsOnly(Start)
  BY <1>2 DEF Steady, Sound
<1> HIDE DEF Start
<1>4. /\ Sound(t) /\ Keeps(Start, t)
      /\ t.emulationButton = Start.emulationButton
      /\ \A what \in Kinds : \A x :
            StillHeldIn(t, what, x) => StillHeldIn(Start, what, x)
  BY <1>3, SendAlike DEF StillHeldIn
<1>5. LessHeld(Start, t) /\ Along(Start, t) /\ t.queued = Start.queued
  BY <1>4 DEF LessHeld, Along, Keeps, Kinds
<1>6. Steady(t)
  BY <1>2, <1>4, <1>5, LessIsSteady
<1>7. /\ t.queued \subseteq f.queued \cup phys.flags
      /\ \A x : StillHeldIn(t, "key", x) => StillHeldIn(f, "key", x)
  BY <1>2, <1>5 DEF LessHeld, Kinds
<1>8. InUse(use, t, phys, m)
  BY <1>2, <1>4, <1>5, AlongThen, StaysInUse DEF IInv, Good
<1> QED
  BY <1>1, <1>6, <1>7, <1>8, StepsOn DEF IInv

LEMMA TimersAreGood ==
    ASSUME IInv, MultiTapTimer \/ TapAndClickTimer PROVE IInv'
<1>0. Start \in Filter
  BY StartIs DEF IInv, Good, Steady, Sound
<1>1. CASE MultiTapTimer
  <2> DEFINE s == ResetMultiTap(Start)
  <2>1. AlikeAs(Start, s, Start.pending, Start.emulationButton)
    <3> HIDE DEF Start
    <3>1. s = [Start EXCEPT !.multiTapTimer = FALSE] /\ FALSE \in BOOLEAN
      BY DEF ResetMultiTap
    <3> HIDE DEF s
    <3> QED
      BY <1>0, <3>1, AlikeTimer DEF AlikeAs, AlikeWith
  <2>2. f' = SendAll(s) /\ f.multiTapTimer
    BY <1>1 DEF MultiTapTimer
  <2> HIDE DEF s
  <2>3. Good(use, f', phys, focused, lastCharacters, locally, lost')
    <3>1. Accounted(f, phys, lost, f', phys, lost')
      BY <1>1, AccountIs DEF MultiTapTimer, Accounted
    <3> QED
      BY <2>1, <2>2, <3>1, TimerIsGood
  <2> QED
    BY <1>1, <2>3 DEF IInv, MultiTapTimer
<1>2. CASE TapAndClickTimer
  <2> DEFINE s == ResetTapClick(Start)
  <2>1. AlikeAs(Start, s, Start.pending, Start.emulationButton)
    <3> HIDE DEF Start
    <3>1. s = [Start EXCEPT !.tapTimer = 0] /\ 0 \in {0, 2, 3}
      BY DEF ResetTapClick
    <3> HIDE DEF s
    <3> QED
      BY <1>0, <3>1, AlikeCursor DEF AlikeAs, AlikeWith
  <2>2. f' = SendAll(s) /\ f.tapTimer # 0
    BY <1>2 DEF TapAndClickTimer
  <2> HIDE DEF s
  <2>3. Good(use, f', phys, focused, lastCharacters, locally, lost')
    <3>1. Accounted(f, phys, lost, f', phys, lost')
      BY <1>2, AccountIs DEF TapAndClickTimer, Accounted
    <3> QED
      BY <2>1, <2>2, <3>1, TimerIsGood
  <2> QED
    BY <1>2, <2>3 DEF IInv, TapAndClickTimer
<1> QED
  BY <1>1, <1>2

LEMMA ResignKeyIsGood == ASSUME IInv, ResignKey PROVE IInv'
<1>1. use \in Uses /\ Steady(f) /\ lastCharacters \in Seq(Characters)
  BY DEF IInv, Good
<1>2. /\ f' = ClearAllEmulationStates(Start) /\ focused' = FALSE
      /\ phys' = Nothing /\ UNCHANGED <<use, locally, lastCharacters>>
  BY DEF ResignKey
<1>3. /\ Steady(f') /\ Neutral(f') /\ f'.profile = f.profile
      /\ Holds(f', "button", {})
  BY <1>1, <1>2, StartIs, ClearedIs DEF Along
<1>4. phys' \in World /\ phys'.flags \subseteq use.flags
      /\ phys'.buttons \subseteq use.buttons
  BY <1>2 DEF World, Nothing
<1>6. InUse(use, f', phys', lost')
  <2>1. InUse(use, f, phys, lost) /\ f'.emulationButton = 1
    BY <1>3 DEF IInv, Good, Neutral
  <2>2. Accounted(f, phys, lost, f', phys', lost')
    BY AccountIs DEF ResignKey
  <2> QED
    BY <1>3, <1>4, <2>1, <2>2, NoneInUse
<1>5. Good(use', f', phys', focused', lastCharacters', locally', lost')
  <2>1. InUse(use', f', phys', lost')
    BY <1>2, <1>6
  <2>2. locally' \in BOOLEAN
    BY <1>2 DEF IInv, Good
  <2> QED
    BY <1>1, <1>2, <1>3, <1>4, <2>1, <2>2 DEF Good
<1> QED
  BY <1>5 DEF IInv

\* A filter as it is while the window is not the key window.
LEMMA NeutralIs ==
    ASSUME NEW s, Steady(s), Neutral(s)
    PROVE  /\ s.pressedButtons = {} /\ s.pressedKeys = {}
           /\ s.pressedModifiers = {} /\ Holds(s, "key", {})
           /\ Holds(s, "button", {})
<1>1. s \in Filter /\ Mirrors(s) /\ ViewsOnly(s) /\ s.pending = <<>>
      /\ s.server = [buttons |-> {}, keys |-> {}, modifiers |-> {}]
  BY DEF Steady, Sound, Neutral
<1>2. s.pressedButtons = {} /\ s.pressedKeys = {} /\ s.pressedModifiers = {}
  <2>1. [buttons |-> {}, keys |-> {}, modifiers |-> {}] =
           [buttons |-> s.pressedButtons, keys |-> s.pressedKeys,
            modifiers |-> s.pressedModifiers]
    BY <1>1 DEF Mirrors
  <2> QED
    BY <2>1
<1>3. \A what, x : StillHeldIn(s, what, x) <=> x \in Pressed(s, what)
  BY <1>1, EmptyIsSound
<1> QED
  BY <1>2, <1>3 DEF Holds, Pressed

LEMMA BecomeKeyIsGood == ASSUME IInv, BecomeKey PROVE IInv'
<1>1. use \in Uses /\ Steady(f) /\ lastCharacters \in Seq(Characters)
      /\ Neutral(f)
  BY DEF IInv, Good, BecomeKey
<1>2. PICK active \in BOOLEAN : f' = [Start EXCEPT !.watch = @ \/ active]
  BY DEF BecomeKey
<1>3. /\ Steady(Start) /\ Start.queued = f.queued /\ Along(f, Start)
      /\ \A x : StillHeldIn(Start, "key", x) <=> StillHeldIn(f, "key", x)
  BY <1>1, StartIs
<1>4. Start \in Filter
  BY <1>3 DEF Steady, Sound
<1> DEFINE w == Start.watch \/ active
<1>5. w \in BOOLEAN /\ f' = [Start EXCEPT !.watch = w]
  BY <1>2
<1> HIDE DEF w
<1>6. Same(Start, f') /\ f'.queued = Start.queued
      /\ f'.emulationButton = Start.emulationButton
  <2> HIDE DEF Start
  <2> QED
    BY <1>4, <1>5 DEF Same, Filter
<1>7. /\ Steady(f')
      /\ \A x : StillHeldIn(f', "key", x) <=> StillHeldIn(Start, "key", x)
  BY <1>3, <1>6, SameIsSteady
<1>8. Holds(f', "key", {})
  <2>1. Holds(f, "key", {})
    BY <1>1, NeutralIs
  <2> QED
    BY <1>3, <1>7, <2>1 DEF Holds
<1>9. f'.queued = {}
  BY <1>1, <1>3, <1>6 DEF Neutral
<1>10. phys' \in World /\ phys'.flags \subseteq use.flags
       /\ phys'.buttons \subseteq use.buttons
  <2>1. phys' \in [buttons : SUBSET use.buttons, keys : SUBSET use.keys,
                   flags : SUBSET use.flags]
    BY DEF BecomeKey
  <2>2. use.buttons \subseteq 1 .. 3 /\ use.keys \subseteq Keys
        /\ use.flags \subseteq Flags
    BY <1>1, UseIs
  <2> QED
    BY <2>1, <2>2 DEF World
<1>11. Follows(f', phys', lastCharacters, locally)
  BY <1>8, <1>9 DEF Follows, Holds
<1>13. InUse(use, f', phys', lost')
  <2>1. Along(f, f') /\ InUse(use, f, phys, lost) /\ f.emulationButton = 1
    BY <1>1, <1>3, <1>6, SameIsAlong, AlongThen
    DEF IInv, Good, Neutral, Steady
  <2>2. Holds(f, "button", {})
    BY <1>1, NeutralIs
  <2>3. /\ Holds(f', "button", {}) /\ f'.profile = f.profile
        /\ f'.emulationButton = 1
    BY <2>1, <2>2 DEF Along, Holds
  <2>4. Accounted(f, phys, lost, f', phys', lost')
    BY AccountIs DEF BecomeKey
  <2> QED
    BY <1>10, <2>1, <2>3, <2>4, NoneInUse
<1>12. Good(use, f', phys', TRUE, lastCharacters, locally, lost')
  <2>1. locally \in BOOLEAN
    BY DEF IInv, Good
  <2> QED
    BY <1>1, <1>7, <1>10, <1>11, <1>13, <2>1 DEF Good
<1> QED
  BY <1>12 DEF IInv, BecomeKey

LEMMA EditProfileIsGood == ASSUME IInv, EditProfile PROVE IInv'
<1>1. use \in Uses /\ Steady(f) /\ lastCharacters \in Seq(Characters)
      /\ Neutral(f) /\ phys \in World /\ phys.flags \subseteq use.flags
      /\ focused = FALSE
  BY DEF IInv, Good, EditProfile
<1>2. PICK p \in use.profiles : f' = [Start EXCEPT !.profile = p]
  BY DEF EditProfile
<1>3. p \in ProfileType
  BY <1>1, UseIs
<1>4. /\ f.pressedButtons = {} /\ f.pressedKeys = {}
      /\ f.pressedModifiers = {} /\ f \in Filter
  BY <1>1, NeutralIs DEF Steady, Sound
<1>5. f' = [f EXCEPT !.out = <<>>, !.profile = p] /\ <<>> \in Seq(Message)
  BY <1>2 DEF Start
<1>6. f' \in Filter
  BY <1>3, <1>4, <1>5 DEF Filter
<1>7. /\ f'.pending = f.pending /\ f'.queued = f.queued
      /\ f'.server = f.server /\ f'.multiTapTimer = f.multiTapTimer
      /\ f'.tapTimer = f.tapTimer /\ f'.stillDown = f.stillDown
      /\ f'.emulationButton = f.emulationButton
      /\ f'.pressedButtons = {} /\ f'.pressedKeys = {}
      /\ f'.pressedModifiers = {} /\ f'.profile = p
  BY <1>4, <1>5 DEF Filter
<1>8. Neutral(f')
  BY <1>1, <1>7 DEF Neutral
<1>9. Mirrors(f') /\ ViewsOnly(f') /\ f'.pending = <<>>
  BY <1>7, <1>8 DEF Mirrors, ViewsOnly, Neutral
<1>10. /\ Sound(f')
       /\ \A what, x : StillHeldIn(f', what, x) <=> x \in Pressed(f', what)
  BY <1>6, <1>9, EmptyIsSound
<1>11. \A x : ~StillHeldIn(f', "modifier", x)
  BY <1>7, <1>10 DEF Pressed
<1>12. Steady(f')
  BY <1>10, <1>11 DEF Steady, Holds
<1>14. InUse(use, f', phys, lost')
  <2>1. \A x : ~StillHeldIn(f', "button", x)
    BY <1>7, <1>10 DEF Pressed
  <2>2. f'.emulationButton = 1 /\ InUse(use, f, phys, lost)
    BY <1>8 DEF Neutral, IInv, Good
  <2> QED
    <3>1. lost' \subseteq f'.server.buttons
      BY DEF EditProfile, Account
    <3>2. Clicks(f', phys, lost')
      BY <1>7, <2>1, <2>2 DEF Clicks, Holds
    <3> QED
      BY <1>7, <2>2, <3>1, <3>2 DEF InUse
<1>15. locally' \in BOOLEAN
  BY <1>1, UseIs DEF EditProfile
<1>13. Good(use, f', phys, FALSE, lastCharacters, locally', lost')
  BY <1>1, <1>8, <1>12, <1>14, <1>15 DEF Good
<1> QED
  BY <1>1, <1>13 DEF IInv, EditProfile

LEMMA NextIsGood == ASSUME IInv, [Next]_vars PROVE IInv'
<1>1. CASE \E b \in use.buttons : MouseDown(b) \/ MouseUp(b)
  BY <1>1, MouseDownIsGood, MouseUpIsGood
<1>2. CASE ScrollWheel \/ MouseMoved
  BY <1>2, ScrollWheelIsGood, MouseMovedIsGood
<1>3. CASE \E k \in use.keys : KeyEquivalent(k) \/ KeyDown(k) \/ KeyUp(k)
  BY <1>3, KeyEquivalentIsGood, KeyDownIsGood, KeyUpIsGood
<1>4. CASE \E m \in use.flags, late \in BOOLEAN : FlagsChanged(m, late)
  BY <1>4, FlagsChangedIsGood
<1>5. CASE \E string \in use.strings : PasteString(string)
  BY <1>5, PasteStringIsGood
<1>6. CASE MultiTapTimer \/ TapAndClickTimer
  BY <1>6, TimersAreGood
<1>7. CASE ResignKey
  BY <1>7, ResignKeyIsGood
<1>8. CASE BecomeKey
  BY <1>8, BecomeKeyIsGood
<1>9. CASE EditProfile
  BY <1>9, EditProfileIsGood
<1>10. CASE UNCHANGED vars
  BY <1>10 DEF vars, IInv
<1> QED
  BY <1>1, <1>2, <1>3, <1>4, <1>5, <1>6, <1>7, <1>8, <1>9, <1>10 DEF Next

THEOREM AlwaysIInv == Spec => []IInv
BY InitIsGood, NextIsGood, PTL DEF Spec

-----------------------------------------------------------------------------
(* The theorems.                                                           *)

\* The variables of EventFilter.h have the types its comments give: whatever
\* is typed, clicked, tapped and pasted, the queue holds events, and what is
\* pressed and told are buttons, characters and modifiers.
THEOREM TypeCorrect == Spec => []TypeOK
<1>1. ASSUME IInv PROVE TypeOK
  <2>1. f \in Filter /\ lost \subseteq f.server.buttons
    BY <1>1 DEF IInv, Good, Steady, Sound, InUse
  <2>2. lost \in SUBSET (1 .. 3)
    BY <2>1 DEF Filter, Server
  <2> QED
    BY <1>1, <2>1, <2>2 DEF IInv, Good, TypeOK, World
<1> QED
  BY <1>1, AlwaysIInv, PTL

\* windowDidResignKey leaves the server with nothing pressed, and the filter
\* with no event, no timer and no emulation that would act later.
THEOREM NothingIsLeftBehind == Spec => []UnfocusedIsNeutral
<1>1. IInv => UnfocusedIsNeutral
  BY DEF IInv, Good, Neutral, UnfocusedIsNeutral
<1> QED
  BY <1>1, AlwaysIInv, PTL

\* No scenario, composed character, paste or change of the key window leaves
\* the server with a modifier that is not held here.
THEOREM NoModifierSticks == Spec => []NoStuckModifiers
<1>1. ASSUME IInv, Settled PROVE f.server.modifiers \subseteq phys.flags
  <2>1. Steady(f) /\ f.queued \subseteq phys.flags /\ Mirrors(f)
    BY <1>1 DEF IInv, Good, Settled, Follows, Steady, Sound
  <2>2. f.server.modifiers = f.pressedModifiers
    BY <2>1 DEF Mirrors
  <2>3. \A x \in f.pressedModifiers : StillHeldIn(f, "modifier", x)
    BY <2>1, PressedIsHeld DEF Steady, Sound
  <2> QED
    BY <2>1, <2>2, <2>3 DEF Steady, Holds
<1>2. IInv => NoStuckModifiers
  BY <1>1 DEF NoStuckModifiers
<1> QED
  BY <1>2, AlwaysIInv, PTL

\* Whatever buttons are held and emulated, in any order: when none is held and
\* nothing waits, the server has pressed only those whose release was taken for
\* that of an emulated one.
THEOREM NoButtonSticks == Spec => []NoStuckButtons
<1>1. ASSUME IInv, Settled, phys.buttons = {}
      PROVE  f.server.buttons \subseteq lost
  <2>1. /\ f \in Filter /\ Mirrors(f) /\ ViewsOnly(f) /\ f.pending = <<>>
        /\ Clicks(f, phys, lost)
    BY <1>1 DEF IInv, Good, Settled, Steady, Sound, InUse
  <2>2. Holds(f, "button", lost)
    BY <1>1, <2>1 DEF Clicks, Holds
  <2>3. \A x : StillHeldIn(f, "button", x) <=> x \in f.pressedButtons
    BY <2>1, EmptyIsSound DEF Pressed
  <2>4. f.server.buttons = f.pressedButtons
    BY <2>1 DEF Mirrors
  <2> QED
    BY <2>2, <2>3, <2>4 DEF Holds
<1>2. IInv => NoStuckButtons
  BY <1>1 DEF NoStuckButtons
<1> QED
  BY <1>2, AlwaysIInv, PTL

\* In every pair of scenarios, taps that wait are sent in the end: a timer runs
\* whenever the last of them is a release, but for the taps of button 2 beside
\* those of another modifier for button 3.
THEOREM TapsAlwaysTimeOut == Spec => []TapsTimeOut
<1>1. ASSUME IInv, f.pending # <<>>, IsRelease(Last(f.pending)),
             ~Unheeded(f.profile, Last(f.pending).arg)
      PROVE  f.multiTapTimer \/ f.tapTimer # 0
  <2>1. f \in Filter /\ Timed(f)
    BY <1>1 DEF IInv, Good, Steady, Sound
  <2>2. f.pending \in Seq(Event) /\ Len(f.pending) \in Nat
    BY <2>1, PendingIs
  <2>3. Len(f.pending) > 0
    BY <1>1, <2>2, EmptySeq
  <2> QED
    BY <1>1, <2>1, <2>3 DEF Timed, Last, IsRelease
<1>2. IInv => TapsTimeOut
  BY <1>1 DEF TapsTimeOut
<1> QED
  BY <1>2, AlwaysIInv, PTL

\* The keys the server has pressed are typed by keys that are held here, even
\* when the flags change between a press and its release.
THEOREM NoKeySticks == Spec => []NoStuckKeys
<1>1. ASSUME IInv, Settled
      PROVE  f.server.keys \subseteq
                UNION {ToSet(Typing(k, F, locally)) :
                       k \in phys.keys, F \in SUBSET use.flags}
  <2>1. /\ Steady(f) /\ Mirrors(f) /\ ViewsOnly(f) /\ f \in Filter
        /\ f.pending = <<>> /\ phys.flags \subseteq use.flags
        /\ Follows(f, phys, lastCharacters, locally)
    BY <1>1 DEF IInv, Good, Settled, Steady, Sound
  <2>2. f.server.keys = f.pressedKeys
    BY <2>1 DEF Mirrors
  <2>3. \A what, x : StillHeldIn(f, what, x) <=> x \in Pressed(f, what)
    BY <2>1, EmptyIsSound
  <2>4. \A x \in f.pressedKeys : StillHeldIn(f, "key", x)
    BY <2>3 DEF Pressed
  <2>5. f.pressedKeys \subseteq TypedBy(phys, locally)
    BY <2>1, <2>4 DEF Follows, Holds
  <2>6. phys.flags \in SUBSET use.flags
    BY <2>1
  <2>7. \A x \in TypedBy(phys, locally) : \E k \in phys.keys :
           x \in ToSet(Typing(k, phys.flags, locally))
    BY DEF TypedBy
  <2> QED
    BY <2>2, <2>5, <2>6, <2>7
<1>2. IInv => NoStuckKeys
  BY <1>1 DEF NoStuckKeys
<1> QED
  BY <1>2, AlwaysIInv, PTL

=============================================================================
