---------------------------- MODULE ModeMachine -----------------------------
(***************************************************************************)
(* statemachine.c, with the parts of event_handler.c around it: the        *)
(* history of gestures in a ring buffer, the switch between normal and     *)
(* volume mode by two taps and a third gesture, the gestures that become   *)
(* input events (event_send_gesture), and the double tap that the          *)
(* dispatcher confirms when nothing follows within 200 ms.                 *)
(*                                                                         *)
(* One step is one turn of event_dispatcher() or one SETMODE of the socket *)
(* thread; SocketServer models how the two threads overlap.  A movement is *)
(* left out, and of the events written to uinput only the keys they leave  *)
(* down are kept.  Time is clock(), in any unit: it advances by itself     *)
(* between the steps.                                                      *)
(***************************************************************************)
EXTENDS Integers, Sequences

CONSTANTS
    SM_MAX_GESTURES,    \* statemachine.c:23
    SWITCH_WINDOW,      \* 0.5*CLOCKS_PER_SEC, statemachine.c:186
    DOUBLE_TAP_WINDOW,  \* 0.7*CLOCKS_PER_SEC, statemachine.c:139
    GestureTypes,       \* the gestures process() reports, but for NONE
    ReplayFrames,       \* bound: frames in the file of the 'r' option; a run
                        \*   without the option reads none
    MaxClock            \* bound: the largest time

ASSUME RingAssumption == SM_MAX_GESTURES \in Nat /\ SM_MAX_GESTURES >= 3
ASSUME TimeAssumption == /\ SWITCH_WINDOW \in Nat
                         /\ DOUBLE_TAP_WINDOW \in Nat
                         /\ MaxClock \in Nat
ASSUME GestureAssumption ==
    /\ GestureTypes \subseteq {"RIGHT", "LEFT", "DOWN", "UP", "TAP", "POINTER"}
    /\ ReplayFrames \in Nat

VARIABLES
    gHistory, gHistoryIndex, bexceeded,  \* the ring, statemachine.c:32-33, 62
    gCurMode,                            \* statemachine.c:61
    wait_double_tap_timeout,             \* event_handler.c, a double tap waits
    held,                                \* keys the virtual device holds down
    unread,                              \* frames left in the replay file
    clock,                               \* clock()
    last, fromFile                       \* history: the gesture of the last
                                         \*   frame, and was it replayed

ring == <<gHistory, gHistoryIndex, bexceeded>>
vars == <<ring, gCurMode, wait_double_tap_timeout, held, unread, clock, last, fromFile>>

Modes == {"NONE", "NORMAL", "VOLUME"}
Slots == 0 .. SM_MAX_GESTURES - 1
Nothing == [type |-> "NONE", fireTime |-> 0]  \* a zeroed slot
Times == 0 .. MaxClock
Entry == [type: GestureTypes, fireTime: Times]

Keys == {"KEY_RIGHT", "KEY_LEFT", "KEY_DOWN", "KEY_UP", "KEY_VOLUMEUP",
         "KEY_VOLUMEDOWN", "BTN_MOUSE"}

TypeOK ==
    /\ gHistory \in [Slots -> Entry \cup {Nothing}]
    /\ gHistoryIndex \in 0 .. SM_MAX_GESTURES
    /\ bexceeded \in BOOLEAN
    /\ gCurMode \in Modes
    /\ wait_double_tap_timeout \in {0, 1}
    /\ held \subseteq Keys
    /\ unread \in 0 .. ReplayFrames
    /\ clock \in Times
    /\ last \in GestureTypes \cup {"NONE"}
    /\ fromFile \in BOOLEAN

Init ==
    /\ gHistory = [i \in Slots |-> Nothing]
    /\ gHistoryIndex = 0
    /\ bexceeded = FALSE
    /\ gCurMode = "NORMAL"
    /\ wait_double_tap_timeout = 0
    /\ held = {}
    /\ unread \in 0 .. ReplayFrames
    /\ clock = 0
    /\ last = "NONE"
    /\ fromFile = FALSE

-----------------------------------------------------------------------------
\* gestureHistoryPush, for a gesture that is not NONE: the slot it goes to, and
\* the index after it
WrapsNever == FALSE
Wraps == gHistoryIndex = SM_MAX_GESTURES

PushSlot == IF Wraps THEN 0 ELSE gHistoryIndex

gestureHistoryPush(type) ==
    IF type = "NONE"
    THEN <<gHistory, gHistoryIndex, bexceeded>>
    ELSE <<[gHistory EXCEPT ![PushSlot] = [type |-> type, fireTime |-> clock]],
           PushSlot + 1,
           bexceeded \/ Wraps>>

\* The slot before slot i of the ring
Prev(i) == (i - 1 + SM_MAX_GESTURES) % SM_MAX_GESTURES

\* The condition of checkAndSwitchMode on the ring: two taps, then any gesture
\* within the switch window
TwoTapsAndMore(hist, index, exceeded) ==
    LET curentindex == Prev(index)
        preindex    == Prev(curentindex)
        prepreindex == Prev(preindex)
    IN  /\ exceeded \/ index >= 3
        /\ hist[prepreindex].type = "TAP"
        /\ hist[preindex].type = "TAP"
        /\ hist[curentindex].fireTime - hist[prepreindex].fireTime < SWITCH_WINDOW

\* IsDoubleTap; with fewer than two gestures it returns no value, and what the
\* caller finds is the length of the debug message printed before, never 1.
IsDoubleTap(hist, index, exceeded) ==
    LET curentindex == Prev(index)
        preindex    == Prev(curentindex)
    IN  /\ exceeded \/ index >= 2
        /\ hist[preindex].type = "TAP"
        /\ hist[curentindex].type = "TAP"
        /\ hist[curentindex].fireTime - hist[preindex].fireTime < DOUBLE_TAP_WINDOW

Toggle(mode) == CASE mode = "NORMAL" -> "VOLUME"
                  [] mode = "VOLUME" -> "NORMAL"
                  [] OTHER -> mode

\* Mutant: bexceeded survives the switch.
SwitchKeepsExceeded(hist, index, exceeded) ==
    IF gCurMode # "NONE" /\ TwoTapsAndMore(hist, index, exceeded)
    THEN gCurMode' = Toggle(gCurMode) /\ gHistoryIndex' = 0 /\ bexceeded' = exceeded
    ELSE gCurMode' = gCurMode /\ gHistoryIndex' = index /\ bexceeded' = exceeded

\* checkAndSwitchMode, after the push; the notification it sends to the client
\* is in SocketServer.
checkAndSwitchMode(hist, index, exceeded) ==
    IF gCurMode # "NONE" /\ TwoTapsAndMore(hist, index, exceeded)
    THEN gCurMode' = Toggle(gCurMode) /\ gHistoryIndex' = 0 /\ bexceeded' = FALSE
    ELSE gCurMode' = gCurMode /\ gHistoryIndex' = index /\ bexceeded' = exceeded

-----------------------------------------------------------------------------
\* What StateMachine_process makes of a gesture in each mode
Mask(mode, type) ==
    CASE mode = "NORMAL" -> type
      [] mode = "VOLUME" /\ type = "DOWN" -> "VOLUME_DOWN"
      [] mode = "VOLUME" /\ type = "UP" -> "VOLUME_UP"
      [] OTHER -> "NONE"

Key == [RIGHT |-> "KEY_RIGHT", LEFT |-> "KEY_LEFT", DOWN |-> "KEY_DOWN",
        UP |-> "KEY_UP", VOLUME_UP |-> "KEY_VOLUMEUP",
        VOLUME_DOWN |-> "KEY_VOLUMEDOWN", DOUBLE_TAP |-> "BTN_MOUSE"]

\* event_send_gesture: a key is pressed and released.  uinput_write reports a
\* write that fails and no caller looks, so each of the two may be missing:
\* the last one that gets through decides.  A movement and a tap press none.
\* (process() reports no TAPHOLD, which would press without a release.)
event_send_gesture(mask) ==
    held' \in IF mask \in {"NONE", "TAP", "POINTER"} THEN {held}
              ELSE {held \ {Key[mask]}, held \cup {Key[mask]}, held}

\* StateMachine_process; waits is wait_double_tap_timeout as the dispatcher
\* leaves it before the call.
StateMachine_process(type, waits) ==
    LET pushed == gestureHistoryPush(type)
    IN  /\ gHistory' = pushed[1]
        /\ checkAndSwitchMode(pushed[1], pushed[2], pushed[3])
        /\ event_send_gesture(Mask(gCurMode', type))
        /\ wait_double_tap_timeout' =
              IF /\ Mask(gCurMode', type) = "TAP"
                 /\ IsDoubleTap(gHistory', gHistoryIndex', bexceeded')
              THEN 1 ELSE waits

-----------------------------------------------------------------------------
\* process() reports a class for one frame, at a lift, and NONE for the next;
\* the frames of a pointer follow each other (TouchProcess).
Follows(type) == type = "NONE" \/ last = "NONE" \/ (type = "POINTER" /\ last = "POINTER")

\* A turn of event_dispatcher that reads its frame from the replay file and
\* does not poll
ReplayFrame ==
    \E type \in GestureTypes \cup {"NONE"} :
        /\ unread > 0
        /\ Follows(type)
        /\ StateMachine_process(type, wait_double_tap_timeout)
        /\ unread' = unread - 1
        /\ last' = type
        /\ fromFile' = TRUE
        /\ UNCHANGED clock

Polling == unread = 0

\* Mutant: a frame does not cancel the click that waits.
DeviceFrameKeepsWaiting ==
    \E type \in GestureTypes \cup {"NONE"} :
        /\ Polling
        /\ Follows(type)
        /\ StateMachine_process(type, wait_double_tap_timeout)
        /\ last' = type
        /\ fromFile' = FALSE
        /\ UNCHANGED <<unread, clock>>

\* poll() reports data and event_dev_get reads a frame
DeviceFrame ==
    \E type \in GestureTypes \cup {"NONE"} :
        /\ Polling
        /\ Follows(type)
        /\ StateMachine_process(type, 0)
        /\ last' = type
        /\ fromFile' = FALSE
        /\ UNCHANGED <<unread, clock>>

\* poll() reports an error, or data that event_dev_get rejects
RejectedRead ==
    /\ Polling
    /\ wait_double_tap_timeout' = 0
    /\ UNCHANGED <<ring, gCurMode, held, unread, clock, last, fromFile>>

\* Mutant: poll() waits for ever.
PollForever == FALSE /\ UNCHANGED vars

\* poll() times out, which it does only while a double tap waits
DoubleTapTimeout ==
    /\ Polling
    /\ wait_double_tap_timeout = 1
    /\ wait_double_tap_timeout' = 0
    /\ event_send_gesture("DOUBLE_TAP")
    /\ UNCHANGED <<ring, gCurMode, unread, clock, last, fromFile>>

\* SwtichToNewMode, called by the socket thread for a SETMODE
SwtichToNewMode ==
    /\ gCurMode' \in Modes
    /\ UNCHANGED <<ring, wait_double_tap_timeout, held, unread, clock, last, fromFile>>

\* CPU time passes
Tick ==
    /\ clock < MaxClock
    /\ clock' = clock + 1
    /\ UNCHANGED <<ring, gCurMode, wait_double_tap_timeout, held, unread, last, fromFile>>

Next == ReplayFrame \/ DeviceFrame \/ RejectedRead \/ DoubleTapTimeout
        \/ SwtichToNewMode \/ Tick

\* The event thread polls with a timeout while a click waits, and the kernel
\* wakes it; frames need not come.
Fairness == WF_vars(DoubleTapTimeout) /\ WF_vars(ReplayFrame)

Spec == Init /\ [][Next]_vars /\ Fairness

-----------------------------------------------------------------------------
\* Properties that hold.

\* The slot of the k-th newest gesture
SlotBack(index, k) == IF k = 0 THEN Prev(index)
                      ELSE IF k = 1 THEN Prev(Prev(index))
                      ELSE Prev(Prev(Prev(index)))

\* The gestures a ring still stands for, the newest first
Recent(hist, index, exceeded) ==
    [k \in 0 .. 2 |-> IF exceeded \/ k < index
                      THEN hist[SlotBack(index, k)] ELSE Nothing]

recentGestures == Recent(gHistory, gHistoryIndex, bexceeded)

Abs == INSTANCE ModeSwitch WITH mode <- gCurMode, recent <- recentGestures

\* The ring buffer, its wrap-around and the reset after a switch implement the
\* memory of three gestures: no gesture of before a switch or of an earlier
\* round of the ring takes part in one (statemachine.c:66-217).
RefinesModeSwitch == Abs!Spec

\* A click waits only if the last two gestures, with none after them, are two
\* taps within the double-tap window; only a frame of the replay file, which
\* does not cancel the click, may come after them (event_handler.c:389-406).
WaitingClickIsDoubleTap ==
    wait_double_tap_timeout = 1 /\ ~fromFile
        => IsDoubleTap(gHistory, gHistoryIndex, bexceeded)

\* A click that waits is sent or cancelled (event_handler.c:389-406).
WaitingClickResolved == wait_double_tap_timeout = 1 ~> wait_double_tap_timeout = 0
=============================================================================
