--------------------------- MODULE MCEventFilter ---------------------------
(***************************************************************************)
(* EventFilter with the profiles and keyboards that make its cases: each   *)
(* scenario alone, and all pairs of two that share a modifier or do not,   *)
(* with one button and with all three.                                     *)
(***************************************************************************)
EXTENDS EventFilter

Button(s, m, n) == [scenario |-> s, modifier |-> m, count |-> n]
Pair(two, three) == [b \in Emulated |-> IF b = 2 THEN two ELSE three]

Off == Button("none", "command", 2)
HoldControl == Button("hold", "control", 2)
HoldShift == Button("hold", "shift", 2)
HoldOption == Button("hold", "option", 2)
TapsControl == Button("multiTap", "control", 2)
TapsShift == Button("multiTap", "shift", 2)
TapControl == Button("tapClick", "control", 2)
TapShift == Button("tapClick", "shift", 2)

HoldProfiles == {Pair(Off, HoldControl), Pair(HoldShift, HoldControl)}
TapProfiles ==
    {Pair(two, three) : two \in {Off, HoldControl, TapsControl, TapControl},
                        three \in {HoldControl, HoldShift, TapsControl,
                                   TapsShift, TapControl, TapShift}}
ComposedProfiles == {Pair(Off, Off), Pair(HoldOption, HoldControl)}

NoStrings == {}
SomeStrings == {<<"a", "A", "A">>, <<"A", "a">>}

WithProfiles(profiles, keys, flags, strings) ==
    [buttons |-> {1}, keys |-> keys, flags |-> flags, strings |-> strings,
     profiles |-> profiles, locally |-> {FALSE}, viewOnly |-> {FALSE}]

Taps == WithProfiles(TapProfiles, {"a", "esc"}, {"shift", "control"}, NoStrings)
Holds == [WithProfiles(HoldProfiles, {"a"}, {"shift", "control", "function"},
                       SomeStrings) EXCEPT !.viewOnly = BOOLEAN]
Composes == WithProfiles(ComposedProfiles, {"a"},
                         {"option", "capsLock", "control"}, SomeStrings)
Locally == [WithProfiles({Pair(Off, HoldOption)}, {"a", "e", "lam"},
                         {"option", "command"}, NoStrings)
               EXCEPT !.locally = BOOLEAN]
Buttons == [WithProfiles({Pair(HoldControl, TapShift),
                          Pair(TapsControl, HoldControl)},
                         {}, {"shift", "control"}, NoStrings)
               EXCEPT !.buttons = {1, 2, 3}]

AllUses == {Taps, Holds, Composes, Locally, Buttons}
ButtonUses == {Buttons}
=============================================================================
