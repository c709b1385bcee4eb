----------------------------- MODULE Recognizer -----------------------------
(***************************************************************************)
(* From the frames of a contact to its class: the smoothing of Y, the      *)
(* histogram of the directions and the closures of centroidFilterHistory(),*)
(* and the decision tree of classifyGesture() (recognizer.c).  The runs of *)
(* movement and the co-trends are those of StrokeRuns and CoTrends.        *)
(*                                                                         *)
(* The contact is enumerated as a finger that keeps its velocity for some  *)
(* frames and then takes another.  Y and all that is derived from it is in *)
(* units of 2^-16 of a step of the sensor, the grid of a float from 128 to *)
(* 255, so that the rounding of the filter is the code's.  The width of    *)
(* the finger is 0, so that its tip is where its centroid is; what a tip   *)
(* that moves by itself does is a matter of CoTrends.                      *)
(***************************************************************************)
EXTENDS Integers, Sequences, FiniteSetsExt

CONSTANTS
    SWIPE_MAX_DURATION_FRAMES,  \* unipoint.h:41
    TAP_MAX_DURATION_FRAMES,    \* unipoint.h:40
    XSpeeds, YSpeeds,   \* bound: the velocities of the finger along each axis
    XStarts, YStarts,   \* bound: where the contact begins
    Spans,              \* bound: frames for which a velocity is kept
    MaxTurns,           \* bound: changes of velocity
    Xmax, Ymax          \* the size of the sensor

ASSUME SensorAssumption ==
    /\ Xmax \in Nat /\ Ymax \in Nat
    /\ XStarts \subseteq 0 .. Xmax /\ XSpeeds \subseteq Nat
    /\ YStarts \subseteq 128 .. Ymax /\ YSpeeds \subseteq Nat
    /\ Ymax < 1024 /\ Spans \subseteq Nat
    /\ TAP_MAX_DURATION_FRAMES \in Nat

VARIABLES
    X, Y,            \* gcentroidHistory
    finger,          \* velocity, the frames it has lasted, changes so far
    dX, dY, kinds,   \* gcentroidScratchPad from frame 1 on: the steps, and
                     \*   which of the co-trends a frame counts for
    histogram,       \* gangleHistogramRaw, and what is written behind it
    features,        \* ggestureFeatures
    class            \* ggestureFeatures.Classification

contact == <<X, Y, finger>>
pad == <<dX, dY, kinds>>
vars == <<contact, pad, histogram, features, class>>

UNIT == 65536                    \* one step of the sensor
n == Len(X)                      \* gcentroidHistoryIndex
ANGLE_HISTOGRAM_BIN_COUNT == 18
Bins == 0 .. ANGLE_HISTOGRAM_BIN_COUNT - 1
Unset == <<>>
Gestures == {"TAP", "LEFT", "RIGHT", "UP", "DOWN"}

Runs == INSTANCE StrokeRuns WITH
    TRIGGER_WINDOW_SIZE <- 4, MaxStep <- Xmax, MaxFrames <- SWIPE_MAX_DURATION_FRAMES,
    runDistance <- 0, runDirection <- 0, runTime <- 0,
    right <- Unset, left <- Unset, slid <- 0, maxWindow <- 0, features <- Unset

CoTrends == INSTANCE CoTrends WITH
    slopeCoTrend <- 10 * UNIT, MaxCounted <- SWIPE_MAX_DURATION_FRAMES, pad <- Unset,
    scanned <- 0, slots <- Unset

-----------------------------------------------------------------------------
Magnitude(x) == IF x < 0 THEN -x ELSE x
Both(speeds) == speeds \cup {-s : s \in speeds}
Velocities == {<<x, 0>> : x \in Both(XSpeeds)} \cup {<<0, y>> : y \in Both(YSpeeds)}
Within(x, low, high) == Max({low, Min({x, high})})

Init ==
    /\ X \in {<<x>> : x \in XStarts} /\ Y \in {<<y>> : y \in YStarts}
    /\ finger \in [velocity: Velocities, span: {0}, turns: {0}]
    /\ dX = Unset /\ dY = Unset /\ kinds = Unset
    /\ histogram = Unset /\ features = Unset /\ class = "NONE"

On == kinds = Unset

\* The next frame of the finger, which stays on the sensor
Push ==
    /\ On /\ n < SWIPE_MAX_DURATION_FRAMES /\ finger.span < Max(Spans)
    /\ X' = Append(X, Within(X[n] + finger.velocity[1], 0, Xmax))
    /\ Y' = Append(Y, Within(Y[n] + finger.velocity[2], 128, Ymax))
    /\ finger' = [finger EXCEPT !.span = @ + 1]
    /\ UNCHANGED <<pad, histogram, features, class>>

Turn ==
    /\ On /\ finger.span \in Spans /\ finger.turns < MaxTurns
    /\ \E v \in Velocities :
          finger' = [velocity |-> v, span |-> 0, turns |-> finger.turns + 1]
    /\ UNCHANGED <<X, Y, pad, histogram, features, class>>

-----------------------------------------------------------------------------
\* Twice the grid of a float, which gets coarser at 256 and at 512, for half of
\* a sum
Grid(sum) ==
    CASE sum < 512 * UNIT -> 2
      [] sum >= 512 * UNIT /\ sum < 1024 * UNIT -> 4
      [] OTHER -> 8

\* The single pole of Y: half of the last value and half of the new one, rounded
Smooth(last, y) ==
    LET sum == last + y * UNIT
        grid == Grid(sum)
        low == sum \div grid
        rest == 2 * (sum % grid)
        up == rest > grid \/ (rest = grid /\ low % 2 = 1)
    IN  (IF up THEN low + 1 ELSE low) * (grid \div 2)

\* Mutant: the filter starts at zero.
smoothYlastZero == 0

\* The last value, before the first frame
smoothYlast == Y[1] * UNIT

Smoothed[i \in 1 .. n] ==
    Smooth(IF i = 1 THEN smoothYlast ELSE Smoothed[i - 1], Y[i])

Steps(s) == [i \in 1 .. n - 1 |-> s[i + 1] - s[i]]

\* Mutant: a movement down counts as one up, and the reverse.
TrendUpsideDown(dy) == CoTrends!Kind(-dy, -dy)

Trend(dy) == CoTrends!Kind(dy, dy)

\* The finger lifts: centroidFilterHistory() up to the trends.  It returns at
\* once when the history is full, and asserts that there are three frames.
Filter ==
    /\ On /\ finger.span \in Spans
    /\ n >= 3 /\ n < SWIPE_MAX_DURATION_FRAMES
    /\ dX' = Steps(X)
    /\ dY' = Steps(Smoothed)
    /\ kinds' = [i \in 1 .. n - 1 |-> Trend(dY'[i])]
    /\ UNCHANGED <<contact, histogram, features, class>>

-----------------------------------------------------------------------------
\* sqrt(dX * dX + dY * dY), in sixteenths
Mag(dx, dy) ==
    LET a == 16 * Magnitude(dx)
        b == Magnitude(dy) \div (UNIT \div 16)
    IN  CHOOSE m \in Max({a, b}) .. a + b :
            m * m <= a * a + b * b /\ (m + 1) * (m + 1) > a * a + b * b

\* The tangents of 20, 40, 60 and 80 degrees, in thousandths: a direction is as
\* many bins away from the horizontal as it is steeper than these.
Tangents == {364, 839, 1732, 5671}
Steep(dx, dy) ==
    Quantify(Tangents, LAMBDA t :
        1000 * (Magnitude(dy) \div (UNIT \div 16)) >= t * 16 * Magnitude(dx))

\* T / ANGLE_HISTOGRAM_BIN_SIZE.  A negative angle gets 360 added in a float,
\* whose step there is 2^-15: no more than half of that below the horizontal
\* it is 360 itself (atan2 in degrees is 57.3 times the slope).
angleIndex(dx, dy) ==
    CASE dy >= 0 /\ dx > 0 -> Steep(dx, dy)
      [] dy >= 0 /\ dx <= 0 -> 8 - Steep(dx, dy)
      [] dy < 0 /\ dx <= 0 -> 9 + Steep(dx, dy)
      [] dy < 0 /\ dx > 0 /\ Magnitude(dy) <= (10 * dx) \div 573 -> 18
      [] OTHER -> 17 - Steep(dx, dy)

\* Frames that hardly move have no weight, and their direction is 0.
Weight(i) == IF Mag(dX[i], dY[i]) > 5 * 16 THEN Mag(dX[i], dY[i]) ELSE 0
Weights == [i \in 1 .. n - 1 |-> Weight(i)]
Directions == [i \in 1 .. n - 1 |-> IF Weight(i) > 0 THEN angleIndex(dX[i], dY[i]) ELSE 0]

Histogram ==
    LET weights == Weights
        at == Directions
    IN  [b \in 0 .. ANGLE_HISTOGRAM_BIN_COUNT |->
            SumFunctionOnSet(weights, {i \in 1 .. n - 1 : at[i] = b})]

-----------------------------------------------------------------------------
\* Mutant: a quarter of the contact at each end.
endIndexQuarter == Min({4, n \div 4})

endIndex == Min({4, n \div 2})

\* endIndex times XClosure or YClosure
Closure(s) == Magnitude(SumFunction([i \in 1 .. endIndex |-> s[i] - s[n + 1 - i]]))

Dist(trend) == SumFunctionOnSet(dY, {i \in 1 .. n - 1 : kinds[i] = trend})

\* Where the trend has come half of its way, 0 if it has no slot
Location(trend) ==
    IF CoTrends!Many(trend, n - 1) >= 4 THEN CoTrends!Where(trend) ELSE 0

GestureFeatures ==
    LET longest == {a \in Runs!Starts : Runs!Longest(a)}
        end == IF longest = {} THEN n - 1 ELSE Runs!End(Max(longest))
    IN  [window |-> Runs!FirstFastest, windowSize |-> Runs!TriggerWindowSize,
         LRMaxTrend |-> IF longest = {} THEN 0 ELSE Runs!Distance(Max(longest)),
         LRMaxEX |-> X[end + 1],
         CoTrendDown |-> CoTrends!Many("DOWN", n - 1),
         CoTrendUpDist |-> Dist("UP"), CoTrendDownDist |-> Dist("DOWN"),
         downLocation |-> Location("DOWN"),
         XClosure |-> Closure(X), YClosure |-> Closure(Y), ends |-> endIndex]

\* The rest of centroidFilterHistory()
Features ==
    /\ kinds # Unset /\ features = Unset
    /\ histogram' = Histogram
    /\ features' = GestureFeatures
    /\ UNCHANGED <<contact, pad, class>>

-----------------------------------------------------------------------------
angleMagMax == Max({histogram[b] : b \in Bins})
angleMagMaxIndex == Min({b \in Bins : histogram[b] = angleMagMax})

\* Mutant: only the lower end of the circle is joined.
WrapBelow(i) == IF i < 0 THEN i + ANGLE_HISTOGRAM_BIN_COUNT ELSE Min({i, 18})

Wrap(i) ==
    CASE i < 0 -> i + ANGLE_HISTOGRAM_BIN_COUNT
      [] i > ANGLE_HISTOGRAM_BIN_COUNT - 1 -> i - ANGLE_HISTOGRAM_BIN_COUNT
      [] OTHER -> i

\* A bin and two neighbours on each side
Around(b) == SumFunction([i \in b - 2 .. b + 2 |-> histogram[Wrap(i)]])
weightedPeakAngle == 20 * angleMagMaxIndex + 10
tapPeak == Around(angleMagMaxIndex + ANGLE_HISTOGRAM_BIN_COUNT \div 2)

\* LRVelTrig, XClosure and YClosure against num / den.  Where there are no ends
\* a closure is not a number, and neither below nor above anything.
LRVelTrigAtMost(num, den) == features.window * den <= num * features.windowSize
AtMost(closure, num, den) == features.ends # 0 /\ closure * den <= num * features.ends
Above(closure, num, den) == features.ends # 0 /\ closure * den > num * features.ends

\* The decision tree; a comparison that is neither so nor so leaves the gesture
\* as it was.
FastLeft ==
    CASE weightedPeakAngle > 250 -> "DOWN"
      [] weightedPeakAngle <= 250 /\ AtMost(features.YClosure, 1723, 4) -> "LEFT"
      [] weightedPeakAngle <= 250 /\ Above(features.YClosure, 1723, 4) -> "DOWN"
      [] OTHER -> "PROCESSING_COMPLETE"

FarRight ==
    LET few == IF features.LRMaxTrend <= 117 THEN 2
               ELSE IF features.LRMaxEX <= 273 THEN 6 ELSE n
    IN  IF features.CoTrendDown <= few THEN "RIGHT" ELSE "DOWN"

MovesDown ==
    CASE ~LRVelTrigAtMost(116, 3) -> "RIGHT"
      [] LRVelTrigAtMost(116, 3) /\ 4 * features.downLocation <= 3 * n -> "DOWN"
      [] OTHER -> "UP"

MovesUp ==
    CASE Above(features.YClosure, 275, 4) -> "UP"
      [] AtMost(features.YClosure, 275, 4) -> IF tapPeak <= 0 THEN "UP" ELSE "TAP"
      [] OTHER -> "PROCESSING_COMPLETE"

HardlyMoves ==
    CASE ~LRVelTrigAtMost(98, 3) -> "RIGHT"
      [] LRVelTrigAtMost(98, 3) /\ n <= 8 ->
            IF angleMagMax <= 628 THEN "TAP" ELSE "LEFT"
      [] LRVelTrigAtMost(98, 3) /\ n > 8 /\ AtMost(features.XClosure, 93, 2) -> "TAP"
      [] LRVelTrigAtMost(98, 3) /\ n > 8 /\ Above(features.XClosure, 93, 2) ->
            IF features.downLocation = 0 THEN "UP" ELSE "DOWN"
      [] OTHER -> "PROCESSING_COMPLETE"

J48CLASS ==
    CASE LRVelTrigAtMost(-22, 1) -> FastLeft
      [] ~LRVelTrigAtMost(-22, 1) /\ features.LRMaxEX > 264 -> FarRight
      [] OTHER -> CASE features.CoTrendDownDist <= -8117244 -> MovesDown
                    [] features.CoTrendDownDist > -8117244
                       /\ features.CoTrendUpDist > 3940352 -> MovesUp
                    [] OTHER -> HardlyMoves

classifyGesture ==
    /\ features # Unset /\ class = "NONE"
    /\ class' = J48CLASS
    /\ UNCHANGED <<contact, pad, histogram, features>>

Next == Push \/ Turn \/ Filter \/ Features \/ classifyGesture

Spec == Init /\ [][Next]_vars

-----------------------------------------------------------------------------
Classified == class # "NONE"

\* Every contact gets a gesture: the comparisons of the tree leave no gap, and
\* the closures, which divide by the number of frames at an end, are numbers
\* for the shortest contact that is classified (recognizer.c:1025-1043, 389).
Decided == Classified => class \in Gestures

\* The contact has left the tap time when the finger lifts: process() counts
\* the frames after the first (process.c:128-133).
PastTapTime == n - 1 > TAP_MAX_DURATION_FRAMES

\* A finger that does not move is never a swipe up, down or to the left, and
\* within the tap time it is a tap, unless it rests to the right of 264, where
\* the tree may take it for a swipe (recognizer.c:404-537).
StillContact ==
    Classified /\ (\A i \in 1 .. n : X[i] = X[1] /\ Y[i] = Y[1])
        => /\ class \notin {"LEFT", "UP", "DOWN"}
           /\ ~PastTapTime /\ X[1] <= 264 => class = "TAP"

\* The tree does not invent a movement to the left or down: a finger that never
\* moves left is LEFT only in a contact of at most eight frames, and one that
\* never moves left or down is not DOWN (recognizer.c:404-537).
NotAgainstTheFinger ==
    LET never(s) == \A i \in 1 .. n - 1 : s[i + 1] >= s[i]
    IN  Classified /\ never(X) => /\ class = "LEFT" => n <= 8
                                  /\ never(Y) => class # "DOWN"

\* What tells a tap from a stroke up is the weight of the frames that point to
\* within two bins of the opposite of the heaviest direction, also where the
\* circle of bins closes (recognizer.c:247-254, 294-306).
TapPeakIsOpposite ==
    Classified =>
        LET at == Directions
            apart(i) == Magnitude(at[i] - angleMagMaxIndex)
        IN  tapPeak = SumFunctionOnSet(Weights, {i \in 1 .. n - 1 :
                                                   at[i] \in Bins /\ apart(i) \in 7 .. 11})

-----------------------------------------------------------------------------
\* A statement of the source that the code does not meet.

\* "number of bins plus 1 for small mags rounded" (unipoint.h:44): every frame
\* has a bin of the histogram (recognizer.c:1297-1301).
HistogramInBounds ==
    features # Unset => histogram[ANGLE_HISTOGRAM_BIN_COUNT] = 0
=============================================================================
