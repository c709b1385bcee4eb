----------------------------- MODULE StrokeRuns -----------------------------
(***************************************************************************)
(* The left-right features that centroidFilterHistory() of recognizer.c    *)
(* takes from a contact: the loop that integrates runs of movement in one  *)
(* direction and keeps the longest to each side, the sliding trigger       *)
(* window, and the choice between left and right at the end.               *)
(*                                                                         *)
(* Frames are counted from 0; X[i + 1] is where the finger is in frame i,  *)
(* and dX its difference to the frame before.  X is not smoothed (Xalpha   *)
(* is 0), so that dX is a whole number, abs() loses nothing, and the sum   *)
(* of the dX of some frames in a row is the difference of two positions.   *)
(***************************************************************************)
EXTENDS Integers, Sequences, FiniteSetsExt

CONSTANTS
    TRIGGER_WINDOW_SIZE,  \* recognizer.c:1050
    MaxStep,              \* bound: the largest difference of a frame
    MaxFrames             \* bound: frames of a contact

ASSUME StrokeAssumption ==
    /\ TRIGGER_WINDOW_SIZE \in Nat /\ TRIGGER_WINDOW_SIZE >= 2
    /\ MaxStep \in Nat /\ MaxFrames \in Nat

VARIABLES
    X,               \* X of frames 0, 1, ... of gcentroidScratchPad
    runDistance, runDirection, runTime,  \* the run at hand
    right, left,     \* max, idx and cnt of the longest run to each side
    slid, maxWindow, \* the last window looked at, and the largest one
    features         \* ggestureFeatures: LRVelTrig times the window size,
                     \*   LRMaxTrend, LRindexE and the frame LRMaxEX is from

run == <<runDistance, runDirection, runTime>>
sides == <<right, left>>
window == <<slid, maxWindow>>
vars == <<X, run, sides, window, features>>

Steps == -MaxStep .. MaxStep
Unset == <<>>
n == Len(X)                 \* gcentroidHistoryIndex
dX(i) == X[i + 1] - X[i]

Init ==
    /\ X = <<0>>
    /\ runDistance = 0 /\ runDirection = 0 /\ runTime = 0
    /\ right = [max |-> 0, idx |-> 0, cnt |-> 0]
    /\ left = [max |-> 0, idx |-> 0, cnt |-> 0]
    /\ slid = 1 /\ maxWindow = 0
    /\ features = Unset

-----------------------------------------------------------------------------
\* A step against the run at hand
Back(d) == (d < 0 /\ runDirection > 0) \/ (d > 0 /\ runDirection < 0)

\* The run at hand, when it ends at a frame
Ended(frame) == [max |-> runDistance, idx |-> frame, cnt |-> runTime]

NewRun(d) ==
    /\ runDistance' = d
    /\ runDirection' = IF d > 0 THEN 1 ELSE -1
    /\ runTime' = 1

\* Frame i of the loop: a step the way the run goes, or none, prolongs it.
Prolong(d) ==
    /\ runDirection # 0 /\ ~Back(d)
    /\ runDistance' = runDistance + d
    /\ runTime' = runTime + 1
    /\ UNCHANGED <<runDirection, sides>>

\* Mutant: the run that ended is kept only if it is the longer one.
TurnStrict(d) ==
    /\ Back(d)
    /\ right' = IF runDirection > 0 /\ runDistance > right.max
                THEN Ended(n - 1) ELSE right
    /\ left' = IF runDirection < 0 /\ runDistance < left.max
               THEN Ended(n - 1) ELSE left
    /\ NewRun(d)

\* A step back ends it, at the frame before this one, and starts the next.
Turn(d) ==
    /\ Back(d)
    /\ right' = IF runDirection > 0 /\ runDistance >= right.max
                THEN Ended(n - 1) ELSE right
    /\ left' = IF runDirection < 0 /\ runDistance <= left.max
               THEN Ended(n - 1) ELSE left
    /\ NewRun(d)

\* "start the first run only after we see a direction"
Begin(d) ==
    /\ runDirection = 0
    /\ IF d = 0 THEN UNCHANGED run ELSE NewRun(d)
    /\ UNCHANGED sides

Frame(d) ==
    /\ features = Unset /\ slid = 1 /\ n < MaxFrames
    /\ X' = Append(X, X[n] + d)
    /\ Prolong(d) \/ Turn(d) \/ Begin(d)
    /\ UNCHANGED <<window, features>>

-----------------------------------------------------------------------------
Magnitude(x) == IF x < 0 THEN -x ELSE x

\* The sliding window looks at frames 2 and later.
TriggerWindowSize == IF TRIGGER_WINDOW_SIZE < n THEN TRIGGER_WINDOW_SIZE - 1 ELSE n - 1
Window(i) == X[i + TriggerWindowSize] - X[i]
Windows == 2 .. n - TriggerWindowSize

\* Mutant: a window to the left is never the largest.
SlideSigned ==
    /\ features = Unset /\ n >= 3 /\ slid + 1 \in Windows
    /\ slid' = slid + 1
    /\ maxWindow' = IF Window(slid') > maxWindow THEN Window(slid') ELSE maxWindow
    /\ UNCHANGED <<X, run, sides, features>>

\* The window moves on by a frame; it asserts that there are three.
Slide ==
    /\ features = Unset /\ n >= 3 /\ slid + 1 \in Windows
    /\ slid' = slid + 1
    /\ maxWindow' = IF Magnitude(Window(slid')) > Magnitude(maxWindow)
                    THEN Window(slid') ELSE maxWindow
    /\ UNCHANGED <<X, run, sides, features>>

\* "collect end segments after loop ends"
LastRun(side, longest) == IF longest THEN Ended(n - 1) ELSE side

\* The rest of the function
Finish ==
    /\ features = Unset /\ n >= 3 /\ slid + 1 \notin Windows
    /\ right' = LastRun(right, runDistance >= right.max)
    /\ left' = LastRun(left, runDistance <= left.max)
    /\ LET longest == IF Magnitude(right'.max) > Magnitude(left'.max) THEN right' ELSE left'
       IN  features' = [trig |-> maxWindow, trend |-> longest.max,
                        idx |-> longest.idx, cnt |-> longest.cnt]
    /\ UNCHANGED <<X, run, window>>

Next == (\E d \in Steps : Frame(d)) \/ Slide \/ Finish

Spec == Init /\ [][Next]_vars

-----------------------------------------------------------------------------
(***************************************************************************)
(* What the loops are meant to compute, from the frames alone.  A run      *)
(* starts at a step that no step the same way precedes without one back in *)
(* between, and lasts until the step before the first one back.            *)
(***************************************************************************)
Frames == 1 .. n - 1
Along(i, j) == (dX(i) > 0 /\ dX(j) > 0) \/ (dX(i) < 0 /\ dX(j) < 0)
Against(i, j) == (dX(i) > 0 /\ dX(j) < 0) \/ (dX(i) < 0 /\ dX(j) > 0)
Starts == {a \in Frames :
              /\ dX(a) # 0
              /\ \A k \in 1 .. a - 1 : Along(k, a) => \E m \in k + 1 .. a - 1 : Against(m, a)}
End(a) == Max({b \in a .. n - 1 : \A k \in a .. b : ~Against(a, k)})
Distance(a) == X[End(a) + 1] - X[a]

\* None is longer; of two as long the one to the left or the later one counts.
Longest(a) ==
    \A b \in Starts \ {a} :
        \/ Magnitude(Distance(b)) < Magnitude(Distance(a))
        \/ Distance(b) = -Distance(a) /\ Distance(a) < 0
        \/ Distance(b) = Distance(a) /\ b < a

\* The windows that none exceeds, to whichever side
Fastest == {i \in Windows : \A j \in Windows : Magnitude(Window(j)) <= Magnitude(Window(i))}
FirstFastest == IF Windows = {} THEN 0 ELSE Window(Min(Fastest))

\* "design idea is to collect everything in single direction. L or R"
\* (recognizer.c:1073): what the features report is a run of the contact, none
\* is longer, of two as long the one to the left or the later one counts, and
\* the frame and the time belong to this very run.
LongestRun ==
    features # Unset =>
        IF Starts = {} THEN features.trend = 0 /\ features.idx = n - 1
        ELSE \E a \in Starts :
                /\ features.trend = Distance(a)
                /\ features.idx = End(a)
                /\ features.cnt = End(a) - a + 1
                /\ Longest(a)

\* No window of the contact from frame 2 on is faster than the one reported,
\* to whichever side, and of those as fast it is the first
\* (recognizer.c:1049-1071).
FastestWindow == features # Unset => features.trig = FirstFastest
=============================================================================
