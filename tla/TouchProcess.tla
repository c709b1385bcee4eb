---------------------------- MODULE TouchProcess ----------------------------
(***************************************************************************)
(* process() of process.c: the state machine that turns the frames of the  *)
(* touch sensor into gestures and pointer movement, with the part of       *)
(* recognizer.c it drives (the history of the contact, the features taken  *)
(* from it and the class they decide).                                     *)
(*                                                                         *)
(* One step is one call of process() with one frame.  A centroid is        *)
(* abstracted to its origin <<contact, n>>: the n-th frame with the finger *)
(* on, of that contact.  The features are abstracted to the contact they   *)
(* were taken from, its length and the class the decision tree gives them  *)
(* (recognizer.c:294-543 ends in a class on every path).                   *)
(***************************************************************************)
EXTENDS Integers

CONSTANTS
    TOUCH_MIN_DURATION_FRAMES,  \* unipoint.h:39
    TAP_MAX_DURATION_FRAMES,    \* unipoint.h:40
    SWIPE_MAX_DURATION_FRAMES,  \* unipoint.h:41
    LOOKAHEAD_BUFFER_SIZE,      \* unipoint.h:46
    MaxContacts,                \* bound: contacts in a behaviour
    MaxSamples                  \* bound: frames with the finger on in a contact

ASSUME FramesAssumption ==
    /\ TOUCH_MIN_DURATION_FRAMES \in Nat
    /\ TAP_MAX_DURATION_FRAMES \in Nat
    /\ SWIPE_MAX_DURATION_FRAMES \in Nat
    /\ 2 <= TOUCH_MIN_DURATION_FRAMES
    /\ TOUCH_MIN_DURATION_FRAMES <= TAP_MAX_DURATION_FRAMES
    /\ TAP_MAX_DURATION_FRAMES + 2 <= SWIPE_MAX_DURATION_FRAMES

ASSUME LookAheadAssumption ==
    /\ LOOKAHEAD_BUFFER_SIZE \in Nat
    /\ 4 <= LOOKAHEAD_BUFFER_SIZE
    /\ LOOKAHEAD_BUFFER_SIZE - 1 <= SWIPE_MAX_DURATION_FRAMES

ASSUME BoundsAssumption == MaxContacts \in Nat /\ MaxSamples \in Nat

VARIABLES
    gprocessMode,           \* process.c:29
    grunningFrameCount,     \* process.c:30
    gcentroidHistory,       \* process.c:18, the centroids of the contact
    gcentroidHistoryIndex,  \* process.c:26, how many of them
    gpointRawLast,          \* process.c:13
    lookAheadBuffer,        \* process.c:22
    ggestureFeatures,       \* process.c:25
    gest_out,               \* what process() returned for the last frame:
    cent_out,               \*   a gesture, and a movement if it wrote one
    finger,                 \* the last finger register that was 0 or 1
    contact, sample         \* history: which contact this is, or was the
                            \*   last, and its frames so far

machine == <<gprocessMode, grunningFrameCount>>
history == <<gcentroidHistory, gcentroidHistoryIndex>>
pointer == <<gpointRawLast, lookAheadBuffer>>
vars == <<machine, history, pointer, ggestureFeatures, gest_out, cent_out,
          finger, contact, sample>>

down == finger = 1

Modes == {"IDLE", "DEBOUNCE", "TAP_N_SWIPE_MONITOR", "SWIPE_MONITOR",
          "BALLISTICS_START", "BALLISTICS_RUN"}
\* The leaves of the decision tree of classifyGesture
Classes == {"RIGHT", "LEFT", "DOWN", "UP", "TAP"}
Gestures == Classes \cup {"NONE", "POINTER"}

Point == Nat \X Nat
Zero == <<0, 0>>            \* a point of memory that was only zeroed

Last == LOOKAHEAD_BUFFER_SIZE - 1
Slots == 0 .. Last
HistorySlots == 0 .. SWIPE_MAX_DURATION_FRAMES

\* A movement is the pair of points whose difference is the velocity.
Unwritten == <<>>
Movement == Point \X Point

TypeOK ==
    /\ gprocessMode \in Modes
    /\ grunningFrameCount \in 0 .. SWIPE_MAX_DURATION_FRAMES
    /\ gcentroidHistory \in [HistorySlots -> Point]
    /\ gcentroidHistoryIndex \in 0 .. SWIPE_MAX_DURATION_FRAMES
    /\ gpointRawLast \in Point
    /\ lookAheadBuffer \in [Slots -> Point]
    /\ ggestureFeatures \in [contact: Nat, frameCount: Nat, class: Classes]
    /\ gest_out \in [type: Gestures, frameCount: Nat]
    /\ cent_out \in Movement \cup {Unwritten}
    /\ finger \in {0, 1}
    /\ contact \in Nat
    /\ sample \in Nat

-----------------------------------------------------------------------------
\* initialize(), and the zeroed globals: on all-zero features the tree of
\* classifyGesture() answers TAP.
Init ==
    /\ gprocessMode = "IDLE"
    /\ grunningFrameCount = 0
    /\ gcentroidHistory = [i \in HistorySlots |-> Zero]
    /\ gcentroidHistoryIndex = 0
    /\ gpointRawLast = Zero
    /\ lookAheadBuffer = [i \in Slots |-> Zero]
    /\ ggestureFeatures = [contact |-> 0, frameCount |-> 0, class |-> "TAP"]
    /\ gest_out = [type |-> "NONE", frameCount |-> 0]
    /\ cent_out = Unwritten
    /\ finger = 0
    /\ contact = 0
    /\ sample = 0

-----------------------------------------------------------------------------
\* The frame: cent->finger is 1, 0, or a value process() does not know.
cur == IF down THEN <<contact, sample + 1>> ELSE <<contact + 1, 1>>

FingerOn ==
    /\ IF down THEN sample < MaxSamples ELSE contact < MaxContacts
    /\ finger' = 1
    /\ contact' = cur[1]
    /\ sample' = cur[2]

FingerOff == finger' = 0 /\ UNCHANGED <<contact, sample>>

\* What process() shares with its caller; cent_out is the caller's local
\* variable, a new one for each frame.
Report(type) == gest_out' = [type |-> type, frameCount |-> grunningFrameCount']
NoMovement == cent_out' = Unwritten

-----------------------------------------------------------------------------
\* The history is full: centroidHistoryPush would assert, and every caller
\* tests it first.
HistoryFullLate == gcentroidHistoryIndex > SWIPE_MAX_DURATION_FRAMES
HistoryFull == gcentroidHistoryIndex >= SWIPE_MAX_DURATION_FRAMES

centroidHistoryPush ==
    /\ gcentroidHistory' = [gcentroidHistory EXCEPT ![gcentroidHistoryIndex] = cur]
    /\ gcentroidHistoryIndex' = gcentroidHistoryIndex + 1

\* "collect path history for this contact": the lines that three modes share.
\* gest_class = TIMEDOUT_GESTURE is overwritten before it is reported.
Collect(timedOut) ==
    /\ IF HistoryFull THEN UNCHANGED history ELSE centroidHistoryPush
    /\ gpointRawLast' = IF timedOut THEN cur ELSE gpointRawLast
    /\ grunningFrameCount' = grunningFrameCount + 1
    /\ UNCHANGED <<lookAheadBuffer, ggestureFeatures>>
    /\ NoMovement
    /\ Report("NONE")

Collected == IF HistoryFull THEN "BALLISTICS_START" ELSE gprocessMode

\* centroidFilterHistory(): new features, "Do nothing on over or under flow"
centroidFilterHistory ==
    IF ~HistoryFull /\ gcentroidHistoryIndex > 0
    THEN \E c \in Classes :
            ggestureFeatures' = [contact |-> gcentroidHistory[0][1],
                                 frameCount |-> gcentroidHistoryIndex,
                                 class |-> c]
    ELSE UNCHANGED ggestureFeatures

\* The end of a contact in the two monitors: filter, then classifyGesture(),
\* which answers from the features alone.
Classify ==
    /\ centroidFilterHistory
    /\ gprocessMode' = "IDLE"
    /\ UNCHANGED <<grunningFrameCount, history, pointer>>
    /\ NoMovement
    /\ Report(ggestureFeatures'.class)

-----------------------------------------------------------------------------
\* case PROC_IDLE
IdleOff ==
    /\ gprocessMode = "IDLE"
    /\ FingerOff
    /\ UNCHANGED <<machine, history, pointer, ggestureFeatures>>
    /\ NoMovement
    /\ Report("NONE")

\* Mutant: the running frame count of the contact before is kept.
IdleOnNoReset ==
    /\ gprocessMode = "IDLE"
    /\ FingerOn
    /\ gcentroidHistory' = [gcentroidHistory EXCEPT ![0] = cur]
    /\ gcentroidHistoryIndex' = 1
    /\ UNCHANGED grunningFrameCount
    /\ gprocessMode' = "DEBOUNCE"
    /\ UNCHANGED <<pointer, ggestureFeatures>>
    /\ NoMovement
    /\ Report("NONE")

\* Mutant: the history of the contact before is not cleared.
IdleOnNoClear ==
    /\ gprocessMode = "IDLE"
    /\ FingerOn
    /\ centroidHistoryPush
    /\ grunningFrameCount' = 0
    /\ gprocessMode' = "DEBOUNCE"
    /\ UNCHANGED <<pointer, ggestureFeatures>>
    /\ NoMovement
    /\ Report("NONE")

\* centroidHistoryClear() and centroidHistoryPush() in one step
IdleOn ==
    /\ gprocessMode = "IDLE"
    /\ FingerOn
    /\ gcentroidHistory' = [gcentroidHistory EXCEPT ![0] = cur]
    /\ gcentroidHistoryIndex' = 1
    /\ grunningFrameCount' = 0
    /\ gprocessMode' = "DEBOUNCE"
    /\ UNCHANGED <<pointer, ggestureFeatures>>
    /\ NoMovement
    /\ Report("NONE")

\* case PROC_DEBOUNCE
DebounceOff ==
    /\ gprocessMode = "DEBOUNCE"
    /\ FingerOff
    /\ gprocessMode' = "IDLE"
    /\ UNCHANGED <<grunningFrameCount, history, pointer, ggestureFeatures>>
    /\ NoMovement
    /\ Report("NONE")

\* Mutant: no settle time.
DebounceOnAtOnce ==
    /\ gprocessMode = "DEBOUNCE"
    /\ FingerOn
    /\ Collect(HistoryFull)
    /\ gprocessMode' = "TAP_N_SWIPE_MONITOR"

DebounceOn ==
    /\ gprocessMode = "DEBOUNCE"
    /\ FingerOn
    /\ Collect(HistoryFull)
    /\ gprocessMode' = IF grunningFrameCount + 1 >= TOUCH_MIN_DURATION_FRAMES
                       THEN "TAP_N_SWIPE_MONITOR"
                       ELSE Collected

\* case PROC_TAP_N_SWIPE_MONITOR
TapNSwipeOff == gprocessMode = "TAP_N_SWIPE_MONITOR" /\ FingerOff /\ Classify

TapNSwipeOn ==
    /\ gprocessMode = "TAP_N_SWIPE_MONITOR"
    /\ FingerOn
    /\ Collect(HistoryFull)
    /\ gprocessMode' = IF grunningFrameCount + 1 > TAP_MAX_DURATION_FRAMES
                       THEN "SWIPE_MONITOR"
                       ELSE Collected

\* case PROC_SWIPE_MONITOR
SwipeOff == gprocessMode = "SWIPE_MONITOR" /\ FingerOff /\ Classify

SwipeTooLong == grunningFrameCount + 1 >= SWIPE_MAX_DURATION_FRAMES

\* Mutant: the frame that ends the swipe is not kept for the pointer.
SwipeOnForgetsPoint ==
    /\ gprocessMode = "SWIPE_MONITOR"
    /\ FingerOn
    /\ Collect(FALSE)
    /\ gprocessMode' = IF SwipeTooLong THEN "BALLISTICS_START" ELSE Collected

SwipeOn ==
    /\ gprocessMode = "SWIPE_MONITOR"
    /\ FingerOn
    /\ Collect(HistoryFull \/ SwipeTooLong)
    /\ gprocessMode' = IF SwipeTooLong THEN "BALLISTICS_START" ELSE Collected

\* The look-ahead buffer as PROC_BALLISTICS_START fills it: the newest of the
\* history, and after them the point kept by the last frame.
Primed ==
    [i \in Slots |->
        IF i = Last THEN gpointRawLast
        ELSE LET j == gcentroidHistoryIndex - Last + i
             IN  IF j >= 0 THEN gcentroidHistory[j] ELSE Zero]

\* Mutant: the shift drops the oldest two points.
AdvanceByTwo(buffer) ==
    LET shifted == [i \in Slots |-> IF i + 2 <= Last THEN buffer[i + 2] ELSE cur]
    IN  /\ lookAheadBuffer' = shifted
        /\ gpointRawLast' = shifted[0]
        /\ cent_out' = <<shifted[0], shifted[3]>>

\* Shift the buffer by one frame; the velocity is the mean of the first three
\* differences, (shifted[3] - shifted[0]) / 3.
Advance(buffer) ==
    LET shifted == [i \in Slots |-> IF i = Last THEN cur ELSE buffer[i + 1]]
    IN  /\ lookAheadBuffer' = shifted
        /\ gpointRawLast' = shifted[0]
        /\ cent_out' = <<shifted[0], shifted[3]>>

\* case PROC_BALLISTICS_START, which falls through to PROC_BALLISTICS_RUN
BallisticsStartOn ==
    /\ gprocessMode = "BALLISTICS_START"
    /\ FingerOn
    /\ gprocessMode' = "BALLISTICS_RUN"
    /\ Advance(Primed)
    /\ UNCHANGED <<grunningFrameCount, history, ggestureFeatures>>
    /\ Report("POINTER")

\* case PROC_BALLISTICS_RUN
BallisticsRunOn ==
    /\ gprocessMode = "BALLISTICS_RUN"
    /\ FingerOn
    /\ Advance(lookAheadBuffer)
    /\ UNCHANGED <<machine, history, ggestureFeatures>>
    /\ Report("POINTER")

\* The lift reports a pointer gesture, and no movement with it.
BallisticsOff ==
    /\ gprocessMode \in {"BALLISTICS_START", "BALLISTICS_RUN"}
    /\ FingerOff
    /\ gprocessMode' = "IDLE"
    /\ UNCHANGED <<grunningFrameCount, history, pointer, ggestureFeatures>>
    /\ NoMovement
    /\ Report("POINTER")

\* A frame whose finger register is neither 0 nor 1
OtherFinger ==
    /\ UNCHANGED <<machine, history, pointer, ggestureFeatures,
                   finger, contact, sample>>
    /\ NoMovement
    /\ Report("NONE")

Next ==
    \/ IdleOff \/ IdleOn
    \/ DebounceOff \/ DebounceOn
    \/ TapNSwipeOff \/ TapNSwipeOn
    \/ SwipeOff \/ SwipeOn
    \/ BallisticsStartOn \/ BallisticsRunOn \/ BallisticsOff
    \/ OtherFinger

Spec == Init /\ [][Next]_vars

-----------------------------------------------------------------------------
\* Properties that hold.

\* Point n of the contact at hand
Pt(n) == <<contact, n>>

\* The history holds the first frames of the last contact, each once and in
\* order, and while a gesture is still possible it holds them all: nothing
\* of an earlier contact is left in what the recognizer reads.
HistoryIsTheContact ==
    /\ \A i \in 0 .. gcentroidHistoryIndex - 1 : gcentroidHistory[i] = Pt(i + 1)
    /\ gprocessMode \in {"DEBOUNCE", "TAP_N_SWIPE_MONITOR", "SWIPE_MONITOR"}
         => down /\ gcentroidHistoryIndex = sample

\* In each mode the frame counter, the history and the length of the contact
\* agree ("DLG isn't this the same as history index", process.c:160), so that
\* the thresholds on the counter bound the contact: the pointer starts with
\* exactly SWIPE_MAX_DURATION_FRAMES centroids collected, and the next one kept.
CountersAgree ==
    /\ gprocessMode = "IDLE" <=> ~down
    /\ gprocessMode \in {"DEBOUNCE", "TAP_N_SWIPE_MONITOR", "SWIPE_MONITOR"}
         => sample = grunningFrameCount + 1
    /\ gprocessMode = "DEBOUNCE"
         => grunningFrameCount < TOUCH_MIN_DURATION_FRAMES
    /\ gprocessMode = "TAP_N_SWIPE_MONITOR"
         => grunningFrameCount \in TOUCH_MIN_DURATION_FRAMES .. TAP_MAX_DURATION_FRAMES
    /\ gprocessMode = "SWIPE_MONITOR"
         => grunningFrameCount \in TAP_MAX_DURATION_FRAMES + 1 .. SWIPE_MAX_DURATION_FRAMES - 1
    /\ gprocessMode \in {"BALLISTICS_START", "BALLISTICS_RUN"}
         => gcentroidHistoryIndex = SWIPE_MAX_DURATION_FRAMES
    /\ gprocessMode = "BALLISTICS_START"
         => sample = SWIPE_MAX_DURATION_FRAMES + 1 /\ gpointRawLast = Pt(sample)
    /\ gprocessMode = "BALLISTICS_RUN"
         => sample > SWIPE_MAX_DURATION_FRAMES + 1

\* A lift in either monitor finds at least three centroids: the assertions of
\* classifyGesture() (recognizer.c:111) and of the trigger window
\* (recognizer.c:1057) hold, and gcentroidHistory[2] and
\* gcentroidHistory[gcentroidHistoryIndex - 2] were written by this contact.
LiftFindsEnoughHistory ==
    gprocessMode \in {"TAP_N_SWIPE_MONITOR", "SWIPE_MONITOR"}
        => /\ gcentroidHistoryIndex >= 3
           /\ gcentroidHistory[2][1] = contact
           /\ gcentroidHistory[gcentroidHistoryIndex - 2][1] = contact

\* While the pointer runs, the look-ahead buffer is a delay line: the newest
\* frames of this contact without a gap or a repetition, across the joint
\* between the history, the kept point and the running frames.
LookAheadIsDelayLine ==
    gprocessMode = "BALLISTICS_RUN"
        => \A i \in Slots : lookAheadBuffer[i] = Pt(sample - Last + i)

\* A contact is either a gesture or a movement of the pointer, and its length
\* decides which: a class is reported only at the lift of a contact that was
\* longer than the settle time and no longer than a swipe may be; the pointer
\* only moves, or is released, for a longer one.
VerdictMatchesLength ==
    /\ gest_out.type \in Classes
         => /\ ~down
            /\ sample \in TOUCH_MIN_DURATION_FRAMES + 1 .. SWIPE_MAX_DURATION_FRAMES
            /\ gest_out.frameCount = sample - 1
    /\ gest_out.type = "POINTER" => sample > SWIPE_MAX_DURATION_FRAMES

\* Two movements in a row start one frame apart: the pointer neither skips a
\* part of the path nor runs one twice.
MovementIsContinuous ==
    [][cent_out # Unwritten /\ cent_out' # Unwritten
        => /\ contact' = contact
           /\ cent_out'[1] = <<contact, cent_out[1][2] + 1>>]_vars

-----------------------------------------------------------------------------
\* Statements of the source that the code does not meet.

\* recognizer.c:105, "classify the current touch history": the class that is
\* reported is the class of the contact that was lifted.
ClassifiesCurrentTouch ==
    gest_out.type \in Classes => ggestureFeatures.contact = contact
=============================================================================
