---------------------------- MODULE EventFilter ----------------------------
(***************************************************************************)
(* EventFilter: what the events of the mouse and the keyboard of the Mac   *)
(* become before they reach the server.  Events wait in a queue as long as *)
(* they may turn out to be the emulation of a mouse button (EventFilter.h  *)
(* lists the three scenarios), then they are sent in order, or replaced by *)
(* the button they emulate.                                                *)
(*                                                                         *)
(* Every handler runs to its end on the main thread, so each is an action. *)
(* The state of the filter is the record f; the methods are operators that *)
(* take such a record to the next.  phys is what is really held down, which *)
(* the filter never sees while the window is not the key window.           *)
(*                                                                         *)
(* Locations are left out.  A character is a name: the key "a" types "a",  *)
(* with shift "A", and with option the ASCII character "@", as on the      *)
(* keyboards for which the code keeps the modified character; "e" is a     *)
(* dead key with option, and "lam" types two characters at once.           *)
(***************************************************************************)
EXTENDS Integers, Sequences, SequencesExt, FiniteSets

CONSTANTS
    Uses,        \* what a user has and does: see Use
    MaxPending   \* bound of the model: no flag changes with a longer queue

Emulated == {2, 3}
Scenarios == {"none", "hold", "multiTap", "tapClick"}

\* The modifiers the server can be told of, in the order they are compared.
Masks == <<"shift", "control", "option", "command", "capsLock",
           "numericPad", "help">>
Modifiers == ToSet(Masks)
Upper == {"A"}
Characters == {"a", "A", "@", "e", "l", "m", "esc"}
NUL == "nul"

ProfileType == [Emulated -> [scenario : Scenarios, modifier : Modifiers,
                             count : 1 .. 5]]

Flags == Modifiers \cup {"function"}
Keys == {"a", "e", "lam", "esc"}

\* The buttons of the mouse (1 left, 2 middle, 3 right), keys and modifier
\* flags that are used, the strings pasted, the profiles (emulation of buttons
\* 2 and 3, and interpretModifiersLocally), and the values of viewOnly.
Use == [buttons : SUBSET (1 .. 3), keys : SUBSET Keys, flags : SUBSET Flags,
        strings : SUBSET Seq(Characters), profiles : SUBSET ProfileType,
        locally : SUBSET BOOLEAN, viewOnly : SUBSET BOOLEAN]

ASSUME EventFilterAssumption ==
    /\ Uses \subseteq Use
    /\ MaxPending \in Nat

VARIABLES
    use,             \* the use that is made of the filter
    f,               \* the filter, and what it has told the server: see Filter
    phys,            \* buttons, keys and flags held down
    focused,         \* the window of the session is the key window
    locally,         \* [_profile interpretModifiersLocally]
    lastCharacters,  \* MyApp: what the last key equivalent typed, or nothing
    lost             \* history: buttons let go while the release was taken
                     \* for that of an emulated one, and still pressed

vars == <<use, f, phys, focused, locally, lastCharacters, lost>>

Event == [what : {"button"}, arg : 1 .. 3, down : BOOLEAN, late : {FALSE}]
         \cup [what : {"key"}, arg : Characters, down : BOOLEAN, late : {FALSE}]
         \cup [what : {"modifier"}, arg : Modifiers, down : BOOLEAN,
               late : BOOLEAN]

Message == [what : {"button"}, buttons : SUBSET (1 .. 3)]
           \cup [what : {"key"}, arg : Characters, down : BOOLEAN,
                 shift : BOOLEAN]
           \cup [what : {"modifier"}, arg : Modifiers, down : BOOLEAN]

\* What the server takes to be held down.
Server == [buttons : SUBSET (1 .. 3), keys : SUBSET Characters,
           modifiers : SUBSET Flags]

Filter ==
    [pending : Seq(Event),            \* _pendingEvents
     queued : SUBSET Flags,           \* _queuedModifiers
     pressedKeys : SUBSET Characters, \* _pressedKeys
     pressedButtons : SUBSET (1 .. 3),
     pressedModifiers : SUBSET Flags,
     emulationButton : 1 .. 3,
     stillDown : [Emulated -> BOOLEAN],
     multiTapTimer : BOOLEAN,         \* it is running
     tapTimer : {0, 2, 3},            \* running: the button the cursor shows
     watch : BOOLEAN,                 \* _watchEventForCapsLock
     viewOnly : BOOLEAN,
     profile : ProfileType,
     server : Server,
     out : Seq(Message)]              \* what the last handler has sent

ButtonEvent(b, d) == [what |-> "button", arg |-> b, down |-> d, late |-> FALSE]
KeyEvent(c, d) == [what |-> "key", arg |-> c, down |-> d, late |-> FALSE]
ModifierEvent(m, d, late) ==
    [what |-> "modifier", arg |-> m, down |-> d, late |-> late]

Is(e, what, arg, d) == e.what = what /\ e.arg = arg /\ e.down = d

-----------------------------------------------------------------------------
(* What the connection is told.                                            *)

SendPointer(s, buttons) ==
    [s EXCEPT !.server.buttons = buttons,
              !.out = Append(@, [what |-> "button", buttons |-> buttons])]

SendKey(s, c, d) ==
    [s EXCEPT !.server.keys = IF d THEN @ \cup {c} ELSE @ \ {c},
              !.out = Append(@, [what |-> "key", arg |-> c, down |-> d,
                                 shift |-> "shift" \in s.server.modifiers])]

SendModifier(s, m, d) ==
    [s EXCEPT !.server.modifiers = IF d THEN @ \cup {m} ELSE @ \ {m},
              !.out = Append(@, [what |-> "modifier", arg |-> m, down |-> d])]

\* mouseClickedAt:buttons: twice, as for a wheel or a tap.
Click(s, b) == SendPointer(SendPointer(s, s.pressedButtons \cup {b}),
                           s.pressedButtons)

SendMouseEvent(s, e) ==
    LET buttons == IF e.down THEN s.pressedButtons \cup {e.arg}
                             ELSE s.pressedButtons \ {e.arg}
    IN  IF buttons = s.pressedButtons
        THEN s
        ELSE SendPointer([s EXCEPT !.pressedButtons = buttons], buttons)

\* Also called by pasteString with events of a modifier, whose character is 0.
SendKeyEvent(s, e) ==
    LET c == IF e.what = "key" THEN e.arg ELSE NUL
    IN  IF e.what = "key" /\ e.down
        THEN SendKey([s EXCEPT !.pressedKeys = @ \cup {c}], c, TRUE)
        ELSE IF c \in s.pressedKeys
             THEN SendKey([s EXCEPT !.pressedKeys = @ \ {c}], c, FALSE)
             ELSE s

SendModifierEvent(s, e) ==
    IF e.down
    THEN SendModifier([s EXCEPT !.pressedModifiers = @ \cup {e.arg}],
                      e.arg, TRUE)
    ELSE IF e.arg \in s.pressedModifiers
         THEN SendModifier([s EXCEPT !.pressedModifiers = @ \ {e.arg}],
                           e.arg, FALSE)
         ELSE s

SendEvent(s, e) ==
    CASE s.viewOnly -> s
      [] ~s.viewOnly /\ e.what = "button" -> SendMouseEvent(s, e)
      [] ~s.viewOnly /\ e.what = "key" -> SendKeyEvent(s, e)
      [] ~s.viewOnly /\ e.what = "modifier" -> SendModifierEvent(s, e)

\* The first n events that wait are sent, in their order.
Sent(s, n) ==
    LET sent[i \in 0 .. n] ==
            IF i = 0 THEN s ELSE SendEvent(sent[i - 1], s.pending[i])
    IN  sent[n]

DiscardAll(s) == [s EXCEPT !.pending = <<>>]
SendAll(s) == DiscardAll(Sent(s, Len(s.pending)))
SendFirst(s, n) ==
    [Sent(s, n) EXCEPT !.pending = SubSeq(@, n + 1, Len(@))]

-----------------------------------------------------------------------------
(* The emulation scenarios.  Each looks at the whole queue and returns the  *)
(* filter and the number of events at the end of the queue to hold back.   *)

Result(s, n) == [filter |-> s, delay |-> n]

QueueEmulatedMouseDown(s, b) ==
    [s EXCEPT !.emulationButton = b, !.pending = <<ButtonEvent(b, TRUE)>>]

\* [_resetMultiTapTimer: nil], [_resetTapModifierAndClick: nil]
ResetMultiTap(s) == [s EXCEPT !.multiTapTimer = FALSE]
ResetTapClick(s) == [s EXCEPT !.tapTimer = 0]

\* A modifier of button b is pressed or released; it was quick enough or not.
Tap(s, b, i, d) == Is(s.pending[i], "modifier", s.profile[b].modifier, d)

HandleClickWhileHolding(s, b) ==
    LET n == Len(s.pending)
        Mouse(i) == Is(s.pending[i], "button", 1, TRUE)
    IN  CASE n = 2 /\ Tap(s, b, 1, TRUE) /\ Mouse(2) ->
                Result([QueueEmulatedMouseDown(s, b)
                           EXCEPT !.stillDown[b] = TRUE], 0)
          [] n = 1 /\ Tap(s, b, 1, TRUE) -> Result(s, 1)
          [] n = 1 /\ Mouse(1) /\ s.stillDown[b] ->
                Result(QueueEmulatedMouseDown(s, b), 0)
          [] OTHER -> Result(s, 0)

HandleMultiTap_Late(s, b) ==
    LET t == ResetMultiTap(s)
        n == Len(s.pending)
        full == 2 * s.profile[b].count
        Taps(k) == \A i \in 1 .. k : Tap(s, b, i, i % 2 = 1)
    IN  CASE n >= full /\ Taps(full) -> Result(Click(DiscardAll(t), b), 0)
          [] n < full /\ Taps(n) ->
                Result([t EXCEPT !.multiTapTimer = n % 2 = 1], n)
          [] OTHER -> Result(t, 0)

HandleMultiTap(s, b) ==
    LET t == ResetMultiTap(s)
        n == Len(s.pending)
        full == 2 * s.profile[b].count
        Taps(k) == \A i \in 1 .. k : Tap(s, b, i, i % 2 = 1)
    IN  CASE n >= full /\ Taps(full) -> Result(Click(DiscardAll(t), b), 0)
          [] n < full /\ Taps(n) ->
                Result([t EXCEPT !.multiTapTimer = n > 0 /\ n % 2 = 0], n)
          [] OTHER -> Result(t, 0)

HandleTapModifierAndClick(s, b) ==
    LET n == Len(s.pending)
        tapped == n >= 2 /\ Tap(s, b, 1, TRUE) /\ Tap(s, b, 2, FALSE)
                  /\ ~s.pending[2].late
    IN  CASE n = 1 /\ Tap(s, b, 1, TRUE) -> Result(s, 1)
          [] tapped /\ n = 2 ->
                Result([s EXCEPT !.tapTimer = IF @ = 0 THEN b ELSE @], 2)
          [] tapped /\ n > 2 /\ Is(s.pending[3], "button", 1, TRUE) ->
                Result(ResetTapClick(QueueEmulatedMouseDown(s, b)), 0)
          [] tapped /\ n > 2 /\ Is(s.pending[3], "key", "esc", TRUE) ->
                Result(ResetTapClick(DiscardAll(s)), 0)
          [] tapped /\ n > 2 /\ ~Is(s.pending[3], "button", 1, TRUE)
                             /\ ~Is(s.pending[3], "key", "esc", TRUE) ->
                Result(ResetTapClick(s), 0)
          [] OTHER -> Result(s, 0)

Handle(s, b) ==
    CASE s.profile[b].scenario = "none" -> Result(s, 0)
      [] s.profile[b].scenario = "hold" -> HandleClickWhileHolding(s, b)
      [] s.profile[b].scenario = "multiTap" -> HandleMultiTap(s, b)
      [] s.profile[b].scenario = "tapClick" -> HandleTapModifierAndClick(s, b)

\* The handler of a button, after those before it: the longest delay counts.
HandleNext(r, b) ==
    LET h == Handle(r.filter, b)
    IN  Result(h.filter, IF r.delay > h.delay THEN r.delay ELSE h.delay)

SendUndelayed(s, delay) ==
    CASE delay = 0 -> SendAll(s)
      [] delay > 0 /\ delay < Len(s.pending) ->
            SendFirst(s, Len(s.pending) - delay)
      [] delay > 0 /\ delay >= Len(s.pending) -> s

SendAnyValid(s) ==
    LET Send(r) == SendUndelayed(r.filter, r.delay)
    IN  Send(HandleNext(HandleNext(Result(s, 0), 2), 3))

-----------------------------------------------------------------------------
(* Queueing.                                                               *)

Queue(s, e) == SendAnyValid([s EXCEPT !.pending = Append(@, e)])

QueueMouseUp_Wrong(s, b) ==
    Queue([s EXCEPT !.emulationButton = 1], ButtonEvent(b, FALSE))

QueueMouseUp(s, b) ==
    IF s.emulationButton # 1
    THEN Queue([s EXCEPT !.emulationButton = 1],
               ButtonEvent(s.emulationButton, FALSE))
    ELSE Queue(s, ButtonEvent(b, FALSE))

QueueMouseDown(s, b) ==
    Queue(IF s.emulationButton # 1 THEN QueueMouseUp(s, s.emulationButton)
                                   ELSE s,
          ButtonEvent(b, TRUE))

QueueModifierReleased(s, m, late) ==
    Queue([s EXCEPT !.stillDown =
              [b \in Emulated |-> @[b] /\ ~(s.profile[b].scenario = "hold"
                                            /\ s.profile[b].modifier = m)]],
          ModifierEvent(m, FALSE, late))

QueueModifiers_Wrong(s, new, late) ==
    LET Compare(t, m) ==
            IF m \in new \ s.queued
            THEN Queue(t, ModifierEvent(m, TRUE, FALSE)) ELSE t
        compared[i \in 0 .. Len(Masks)] ==
            IF i = 0 THEN [s EXCEPT !.queued = new]
            ELSE Compare(compared[i - 1], Masks[i])
    IN  compared[Len(Masks)]

\* The modifier m, which was queued as pressed or not, is in new or not.
Compare(t, m, old, new, late) ==
    CASE m \in new \ old -> Queue(t, ModifierEvent(m, TRUE, FALSE))
      [] m \in old \ new -> QueueModifierReleased(t, m, late)
      [] (m \in old) = (m \in new) -> t

QueueModifiers(s, new, late) ==
    LET compared[i \in 0 .. Len(Masks)] ==
            IF i = 0 THEN [s EXCEPT !.queued = new]
            ELSE Compare(compared[i - 1], Masks[i], s.queued, new, late)
    IN  compared[Len(Masks)]

SynthesizeMouseUps(s) ==
    [s EXCEPT !.pending = @ \o
        SetToSeq({ButtonEvent(b, FALSE) : b \in s.pressedButtons})]

\* _pressedKeys is a set: the order of the releases is arbitrary.
SynthesizeKeyUps(s) ==
    [s EXCEPT !.pending = @ \o
        SetToSeq({KeyEvent(c, FALSE) : c \in s.pressedKeys})]

ClearAllEmulationStates_Wrong(s) ==
    LET t == QueueModifiers(SynthesizeKeyUps(SynthesizeMouseUps(SendAll(s))),
                            {}, FALSE)
    IN  ResetTapClick(ResetMultiTap(
            [t EXCEPT !.emulationButton = 1,
                      !.stillDown = [b \in Emulated |-> FALSE]]))

ClearAllEmulationStates(s) ==
    LET t == SendAll(QueueModifiers(SynthesizeKeyUps(SynthesizeMouseUps(
                                        SendAll(s))), {}, FALSE))
    IN  ResetTapClick(ResetMultiTap(
            [t EXCEPT !.emulationButton = 1,
                      !.stillDown = [b \in Emulated |-> FALSE]]))

-----------------------------------------------------------------------------
(* Keys.                                                                   *)

\* charactersIgnoringModifiers, which heeds shift, in capitals with caps lock
Unmodified(k, flags) ==
    CASE k = "lam" -> <<"l", "m">>
      [] k = "a" /\ flags \cap {"shift", "capsLock"} # {} -> <<"A">>
      [] OTHER -> <<k>>

\* characters, without control, in capitals when command blocks shift
Modified(k, flags) ==
    CASE k = "a" /\ "option" \in flags -> <<"@">>
      [] k = "e" /\ "option" \in flags -> <<>>
      [] OTHER -> Unmodified(k, flags)

\* The keyboard needs option to type this ASCII character.
Composed(k, flags) ==
    k = "a" /\ "option" \in flags /\ flags \cap {"command", "control"} = {}

\* What the server is told of key k; control makes control characters, for
\* which the unmodified ones stand.
Typing(k, flags, local) ==
    IF Composed(k, flags) \/ (local /\ "control" \notin flags)
    THEN Modified(k, flags)
    ELSE Unmodified(k, flags)

QueueKeys(s, characters, d) ==
    LET queued[i \in 0 .. Len(characters)] ==
            IF i = 0 THEN s
            ELSE Queue(queued[i - 1], KeyEvent(characters[i], d))
    IN  queued[Len(characters)]

QueueKeyDown(s, k, flags, local) ==
    LET characters == Typing(k, flags, local)
    IN  IF Composed(k, flags)
        THEN QueueModifiers(
                 QueueKeys(QueueModifiers(s, flags \ {"control", "option"},
                                          FALSE), characters, TRUE),
                 flags, FALSE)
        ELSE QueueKeys(s, characters, TRUE)

QueueKeyUp(s, k, flags, local) ==
    QueueKeys(s, Typing(k, flags, local), FALSE)

HandleFlags_Wrong(s, flags, late) == QueueModifiers(s, flags, late)

HandleFlags(s, flags, late) == QueueModifiers(SynthesizeKeyUps(s), flags, late)

UpdateCapsLock(s, flags) ==
    LET t == [s EXCEPT !.watch = FALSE]
    IN  IF s.watch /\ ("capsLock" \in flags) # ("capsLock" \in s.pressedModifiers)
        THEN HandleFlags(t, flags, FALSE)
        ELSE t

\* The characters of a string, with shift around those in upper case: all of
\* these events, the shifts too, go through _sendKeyEvent.
Typed(s, string) ==
    LET n == Len(string)
        Shifted(i) == i \in 1 .. n /\ string[i] \in Upper
        Shift(t, i) == IF Shifted(i) = Shifted(i - 1) THEN t
                       ELSE SendKeyEvent(t, ModifierEvent("shift", Shifted(i),
                                                          FALSE))
        Type(t, c) == SendKeyEvent(SendKeyEvent(t, KeyEvent(c, TRUE)),
                                   KeyEvent(c, FALSE))
        typed[i \in 0 .. n] ==
            IF i = 0 THEN s ELSE Type(Shift(typed[i - 1], i), string[i])
    IN  Shift(typed[n], n + 1)

Paste(s, string) ==
    SendAll(QueueModifiers(Typed(ClearAllEmulationStates(s), string),
                           s.pressedModifiers, FALSE))

-----------------------------------------------------------------------------
(* The events, and the world they come from.                               *)

Nothing == [buttons |-> {}, keys |-> {}, flags |-> {}]

Init ==
    /\ use \in Uses
    /\ \E p \in use.profiles, v \in use.viewOnly :
          f = [pending |-> <<>>, queued |-> {}, pressedKeys |-> {},
               pressedButtons |-> {}, pressedModifiers |-> {},
               emulationButton |-> 1, stillDown |-> [b \in Emulated |-> FALSE],
               multiTapTimer |-> FALSE, tapTimer |-> 0, watch |-> FALSE,
               viewOnly |-> v, profile |-> p,
               server |-> [buttons |-> {}, keys |-> {}, modifiers |-> {}],
               out |-> <<>>]
    /\ phys = Nothing
    /\ focused = FALSE
    /\ locally \in use.locally
    /\ lastCharacters = <<>>
    /\ lost = {}

Start == [f EXCEPT !.out = <<>>]

\* Of the buttons let go in this step or lost before, those still pressed.
Account ==
    lost' = f'.server.buttons \cap
                (lost \cup IF f.emulationButton = 1 THEN {}
                           ELSE phys.buttons \ phys'.buttons)

MouseDown(b) ==
    /\ focused /\ b \notin phys.buttons
    /\ phys' = [phys EXCEPT !.buttons = @ \cup {b}]
    /\ f' = QueueMouseDown(Start, b)
    /\ UNCHANGED <<use, focused, locally, lastCharacters>>
    /\ Account

MouseUp(b) ==
    /\ focused /\ b \in phys.buttons
    /\ phys' = [phys EXCEPT !.buttons = @ \ {b}]
    /\ f' = QueueMouseUp(Start, b)
    /\ UNCHANGED <<use, focused, locally, lastCharacters>>
    /\ Account

\* The wheel is button 4 or 5: not one the filter keeps as pressed.
ScrollWheel ==
    /\ focused /\ ~f.viewOnly
    /\ f' = LET s == SendAll(Start) IN SendPointer(s, s.pressedButtons)
    /\ UNCHANGED <<use, phys, focused, locally, lastCharacters>>
    /\ Account

MouseMoved ==
    /\ focused /\ ~f.viewOnly
    /\ f' = SendPointer(Start, f.pressedButtons)
    /\ UNCHANGED <<use, phys, focused, locally, lastCharacters>>
    /\ Account

\* MyApp performs a key equivalent before the view sees the event.
KeyEquivalent(k) ==
    /\ focused
    /\ phys' = [phys EXCEPT !.keys = @ \cup {k}]
    /\ f' = ClearAllEmulationStates(Start)
    /\ lastCharacters' = Unmodified(k, phys.flags)
    /\ UNCHANGED <<use, focused, locally>>
    /\ Account

\* A key that is down may repeat.  keyDown: looks for a key equivalent once
\* more, with all the bits of modifierFlags; MyApp has looked with the
\* device-dependent ones masked, as the equivalents of the menus are, so that
\* only MyApp finds one.
KeyDown(k) ==
    /\ focused
    /\ phys' = [phys EXCEPT !.keys = @ \cup {k}]
    /\ \E s \in {UpdateCapsLock(Start, phys.flags)} :
          f' = QueueKeyDown(s, k, phys.flags, locally)
    /\ lastCharacters' = <<>>
    /\ UNCHANGED <<use, focused, locally>>
    /\ Account

KeyUp(k) ==
    /\ focused /\ k \in phys.keys
    /\ phys' = [phys EXCEPT !.keys = @ \ {k}]
    /\ LET swallowed == lastCharacters = Unmodified(k, phys.flags)
       IN  /\ f' = IF swallowed
                   THEN Start
                   ELSE QueueKeyUp(UpdateCapsLock(Start, phys.flags), k,
                                   phys.flags, locally)
           /\ lastCharacters' = IF swallowed THEN <<>> ELSE lastCharacters
    /\ UNCHANGED <<use, focused, locally>>
    /\ Account

\* late: the time between two taps, which only kTapModifierAndClick measures.
FlagsChanged(m, late) ==
    /\ focused /\ Len(f.pending) <= MaxPending
    /\ late => \E b \in Emulated : f.profile[b].scenario = "tapClick"
    /\ phys' = [phys EXCEPT !.flags = IF m \in @ THEN @ \ {m} ELSE @ \cup {m}]
    /\ f' = HandleFlags(Start, phys'.flags, late)
    /\ UNCHANGED <<use, focused, locally, lastCharacters>>
    /\ Account

PasteString(string) ==
    /\ focused
    /\ \E s \in {UpdateCapsLock(Start, phys.flags)} : f' = Paste(s, string)
    /\ UNCHANGED <<use, phys, focused, locally, lastCharacters>>
    /\ Account

MultiTapTimer ==
    /\ f.multiTapTimer
    /\ f' = SendAll(ResetMultiTap(Start))
    /\ UNCHANGED <<use, phys, focused, locally, lastCharacters>>
    /\ Account

TapAndClickTimer ==
    /\ f.tapTimer # 0
    /\ f' = SendAll(ResetTapClick(Start))
    /\ UNCHANGED <<use, phys, focused, locally, lastCharacters>>
    /\ Account

\* Session windowDidResignKey:; from here on phys is of no interest.
ResignKey ==
    /\ focused
    /\ focused' = FALSE
    /\ f' = ClearAllEmulationStates(Start)
    /\ phys' = Nothing
    /\ UNCHANGED <<use, locally, lastCharacters>>
    /\ Account

\* Session windowDidBecomeKey:, with whatever has been pressed meanwhile.
\* The application may have become active too.
BecomeKey ==
    /\ ~focused
    /\ focused' = TRUE
    /\ \E active \in BOOLEAN : f' = [Start EXCEPT !.watch = @ \/ active]
    /\ phys' \in [buttons : SUBSET use.buttons, keys : SUBSET use.keys,
                  flags : SUBSET use.flags]
    /\ UNCHANGED <<use, locally, lastCharacters>>
    /\ Account

\* The profiles are edited in a window of their own.
EditProfile ==
    /\ ~focused
    /\ \E p \in use.profiles : f' = [Start EXCEPT !.profile = p]
    /\ locally' \in use.locally
    /\ UNCHANGED <<use, phys, focused, lastCharacters>>
    /\ Account

Next ==
    \/ \E b \in use.buttons : MouseDown(b) \/ MouseUp(b)
    \/ ScrollWheel \/ MouseMoved
    \/ \E k \in use.keys : KeyEquivalent(k) \/ KeyDown(k) \/ KeyUp(k)
    \/ \E m \in use.flags, late \in BOOLEAN : FlagsChanged(m, late)
    \/ \E string \in use.strings : PasteString(string)
    \/ MultiTapTimer \/ TapAndClickTimer
    \/ ResignKey \/ BecomeKey \/ EditProfile

Spec == Init /\ [][Next]_vars

-----------------------------------------------------------------------------
(* Properties.                                                             *)

\* The state variables of EventFilter.h have the types its comments give.
TypeOK ==
    /\ use \in Uses
    /\ f \in Filter
    /\ phys \in [buttons : SUBSET (1 .. 3), keys : SUBSET Keys,
                 flags : SUBSET Flags]
    /\ focused \in BOOLEAN
    /\ locally \in BOOLEAN
    /\ lastCharacters \in Seq(Characters)
    /\ lost \in SUBSET (1 .. 3)

Settled == focused /\ f.pending = <<>>

\* When no button of the mouse is held and nothing waits, the server has none
\* pressed, an emulated press has met its release, but for a button that was
\* let go while another one was emulated: EventFilter.m:323 takes any release
\* for that of the emulated button, and its own never comes.
NoStuckButtons ==
    Settled /\ phys.buttons = {} => f.server.buttons \subseteq lost

\* EventFilter.h:83: only the release of button 1 is mapped to one of the
\* emulated button.  The release of another button is its own.
OnlyButtonOneIsMapped ==
    [][focused /\ focused' /\ ~f.viewOnly =>
          \A b \in {2, 3} \cap (phys.buttons \ phys'.buttons) :
             b \notin f'.server.buttons]_vars

\* What the server has pressed is what some key that is held types: a change
\* of the flags between the press and the release, which changes the
\* characters of the key, leaves nothing behind.
NoStuckKeys ==
    Settled => f.server.keys \subseteq
                   UNION {ToSet(Typing(k, F, locally)) :
                          k \in phys.keys, F \in SUBSET use.flags}

\* The server never holds a modifier that is not held here, although the
\* filter withholds, swallows and lifts modifiers of its own accord.
NoStuckModifiers == Settled => f.server.modifiers \subseteq phys.flags

\* windowDidResignKey resets "keyboard state on remote end": the server is
\* left with nothing pressed, and no event, timer or emulation is left to act
\* on a window that is not the key window.
UnfocusedIsNeutral ==
    ~focused =>
        /\ f.server = [buttons |-> {}, keys |-> {}, modifiers |-> {}]
        /\ f.pending = <<>>
        /\ f.queued = {}
        /\ ~f.multiTapTimer /\ f.tapTimer = 0
        /\ f.emulationButton = 1
        /\ \A b \in Emulated : ~f.stillDown[b]

IsRelease(e) == e.what = "modifier" /\ ~e.down

\* Both buttons are emulated by taps, and m is tapped for button 2 only.
Unheeded(profile, m) ==
    /\ profile[2].scenario = "multiTap" /\ profile[2].modifier = m
    /\ profile[3].scenario = "multiTap" /\ profile[3].modifier # m

\* Taps that wait for another one are sent in the end: a timer is running,
\* but for those of button 2 when button 3 is emulated by taps of another
\* modifier, whose handler stops the timer both share (EventFilter.m:819).
TapsTimeOut ==
    f.pending # <<>> /\ IsRelease(Last(f.pending))
                     /\ ~Unheeded(f.profile, Last(f.pending).arg)
        => f.multiTapTimer \/ f.tapTimer # 0

=============================================================================
