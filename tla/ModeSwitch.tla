----------------------------- MODULE ModeSwitch -----------------------------
(***************************************************************************)
(* What the mode machine of statemachine.c promises, without its ring      *)
(* buffer: it remembers the last three gestures since the last switch, and *)
(* a frame that finds two taps followed by a third gesture within the      *)
(* switch window toggles between normal and volume mode and forgets the    *)
(* gestures.  A client may set any mode at any time.                       *)
(***************************************************************************)
EXTENDS Integers

CONSTANTS GestureTypes,  \* the gestures a frame may carry
          Times,         \* the times of a gesture
          SWITCH_WINDOW  \* the third gesture comes earlier than this

VARIABLES mode,          \* the mode of the pad
          recent         \* recent[0] is the newest of the gestures

Modes == {"NONE", "NORMAL", "VOLUME"}
Back == 0 .. 2
Nothing == [type |-> "NONE", fireTime |-> 0]

Entry == [type: GestureTypes, fireTime: Times]

Remember(g) == [k \in Back |-> IF k = 0 THEN g ELSE recent[k - 1]]
Forgotten == [k \in Back |-> Nothing]

Toggled(m) == IF m = "NORMAL" THEN "VOLUME" ELSE "NORMAL"

Triggers(r) ==
    /\ \A k \in Back : r[k] # Nothing
    /\ r[2].type = "TAP" /\ r[1].type = "TAP"
    /\ r[0].fireTime - r[2].fireTime < SWITCH_WINDOW

Init == mode = "NORMAL" /\ recent = Forgotten

\* A frame leaves the memory as r, which may hold one more gesture; then the
\* switch is decided.
Decide(r) ==
    IF mode # "NONE" /\ Triggers(r)
    THEN mode' = Toggled(mode) /\ recent' = Forgotten
    ELSE mode' = mode /\ recent' = r

Frame == Decide(recent)
Gesture == \E g \in Entry : Decide(Remember(g))
SetMode == mode' \in Modes /\ recent' = recent

Next == Frame \/ Gesture \/ SetMode
Spec == Init /\ [][Next]_<<mode, recent>>
=============================================================================
