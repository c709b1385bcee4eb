------------------------- MODULE TouchProcessProofs -------------------------
(***************************************************************************)
(* Proofs about TouchProcess for every value of the frame constants that   *)
(* satisfies its assumptions, and for any number of contacts of any        *)
(* length.                                                                 *)
(***************************************************************************)
EXTENDS TouchProcess, TLAPS

\* What the last call wrote for the caller is still in the delay line.
MovementFromDelayLine ==
    cent_out # Unwritten
        => gprocessMode = "BALLISTICS_RUN" /\ cent_out[1] = lookAheadBuffer[0]

\* The inductive invariant.
IInv ==
    /\ TypeOK
    /\ HistoryIsTheContact
    /\ CountersAgree
    /\ LookAheadIsDelayLine
    /\ VerdictMatchesLength
    /\ MovementFromDelayLine

\* The initial state satisfies the inductive invariant.
LEMMA InitIInv == Init => IInv
<1> SUFFICES ASSUME Init PROVE IInv
    OBVIOUS
<1> USE FramesAssumption, LookAheadAssumption DEF Init
<1>1. TypeOK
    <2>1. Zero \in Point
        BY DEF Zero, Point
    <2>2. cent_out \in Movement \cup {Unwritten}
        OBVIOUS
    <2>3. /\ gcentroidHistory \in [HistorySlots -> Point]
          /\ lookAheadBuffer \in [Slots -> Point]
          /\ gpointRawLast \in Point
        BY <2>1
    <2>4. /\ ggestureFeatures \in [contact: Nat, frameCount: Nat, class: Classes]
          /\ gest_out \in [type: Gestures, frameCount: Nat]
          /\ gprocessMode \in Modes
        BY DEF Classes, Gestures, Modes
    <2>5. /\ grunningFrameCount \in 0 .. SWIPE_MAX_DURATION_FRAMES
          /\ gcentroidHistoryIndex \in 0 .. SWIPE_MAX_DURATION_FRAMES
          /\ contact \in Nat /\ sample \in Nat /\ finger \in {0, 1}
        OBVIOUS
    <2> QED
        BY <2>2, <2>3, <2>4, <2>5 DEF TypeOK
<1>2. HistoryIsTheContact /\ CountersAgree
    BY DEF HistoryIsTheContact, CountersAgree, down
<1>3. LookAheadIsDelayLine /\ VerdictMatchesLength /\ MovementFromDelayLine
    BY DEF LookAheadIsDelayLine, VerdictMatchesLength, MovementFromDelayLine,
           Classes
<1> QED
    BY <1>1, <1>2, <1>3 DEF IInv

\* A frame with the finger on, while it is down, is the next of the contact.
LEMMA FingerOnDown ==
    ASSUME TypeOK, down, FingerOn
    PROVE  /\ cur = <<contact, sample + 1>>
           /\ down' /\ contact' = contact /\ sample' = sample + 1
           /\ cur \in Point
BY DEF TypeOK, FingerOn, cur, Point, down

\* A frame with the finger on, while it is up, is the first of a new contact.
LEMMA FingerOnUp ==
    ASSUME TypeOK, ~down, FingerOn
    PROVE  /\ cur = <<contact + 1, 1>>
           /\ down' /\ contact' = contact + 1 /\ sample' = 1
           /\ cur \in Point
BY DEF TypeOK, FingerOn, cur, Point, down

\* Pushing the next frame of the contact extends the history by it, as long
\* as there is room.
LEMMA PushExtends ==
    ASSUME TypeOK, HistoryIsTheContact, ~HistoryFull, centroidHistoryPush,
           down, gcentroidHistoryIndex = sample, FingerOn
    PROVE  /\ gcentroidHistory' \in [HistorySlots -> Point]
           /\ gcentroidHistoryIndex' = sample'
           /\ gcentroidHistoryIndex' \in 1 .. SWIPE_MAX_DURATION_FRAMES
           /\ \A i \in 0 .. gcentroidHistoryIndex' - 1 :
                 gcentroidHistory'[i] = <<contact', i + 1>>
<1>1. cur = <<contact, sample + 1>> /\ contact' = contact /\ sample' = sample + 1
      /\ cur \in Point
    BY FingerOnDown
<1>2. /\ gcentroidHistoryIndex \in 0 .. SWIPE_MAX_DURATION_FRAMES - 1
      /\ gcentroidHistory \in [HistorySlots -> Point]
    BY FramesAssumption DEF TypeOK, HistoryFull
<1>3. gcentroidHistory' \in [HistorySlots -> Point]
    BY <1>1, <1>2, FramesAssumption DEF centroidHistoryPush, HistorySlots
<1>4. ASSUME NEW i \in 0 .. gcentroidHistoryIndex' - 1
      PROVE  gcentroidHistory'[i] = <<contact', i + 1>>
    <2>1. CASE i = gcentroidHistoryIndex
        BY <2>1, <1>1, <1>2, FramesAssumption DEF centroidHistoryPush, HistorySlots
    <2>2. CASE i # gcentroidHistoryIndex
        <3>1. i \in 0 .. gcentroidHistoryIndex - 1 /\ i \in HistorySlots
            BY <2>2, <1>2, FramesAssumption DEF centroidHistoryPush, HistorySlots
        <3> QED
            BY <3>1, <2>2, <1>1, <1>2 DEF centroidHistoryPush, HistoryIsTheContact, Pt
    <2> QED
        BY <2>1, <2>2
<1>5. /\ gcentroidHistoryIndex' = sample'
      /\ gcentroidHistoryIndex' \in 1 .. SWIPE_MAX_DURATION_FRAMES
    BY <1>1, <1>2, FramesAssumption DEF centroidHistoryPush
<1> QED
    BY <1>3, <1>4, <1>5

\* One frame collected in DEBOUNCE or in a monitor: the history stays the
\* beginning of the contact, and it misses the new frame only when it was
\* full, which happens only at the last frame a swipe may have.
LEMMA CollectStep ==
    ASSUME NEW t, IInv, FingerOn, Collect(t),
           gprocessMode \in {"DEBOUNCE", "TAP_N_SWIPE_MONITOR", "SWIPE_MONITOR"}
    PROVE  /\ finger' = 1 /\ contact' = contact /\ sample' = sample + 1
           /\ cur = <<contact, sample + 1>>
           /\ contact' \in Nat /\ sample' \in Nat
           /\ grunningFrameCount' = grunningFrameCount + 1
           /\ grunningFrameCount + 1 = sample
           /\ grunningFrameCount \in Nat
           /\ gcentroidHistoryIndex = sample
           /\ gcentroidHistory' \in [HistorySlots -> Point]
           /\ \A i \in 0 .. gcentroidHistoryIndex' - 1 :
                 gcentroidHistory'[i] = <<contact', i + 1>>
           /\ gcentroidHistoryIndex' \in 0 .. SWIPE_MAX_DURATION_FRAMES
           /\ IF HistoryFull
              THEN sample = SWIPE_MAX_DURATION_FRAMES /\ gcentroidHistoryIndex' = sample
              ELSE sample < SWIPE_MAX_DURATION_FRAMES /\ gcentroidHistoryIndex' = sample'
           /\ gpointRawLast' \in Point
           /\ gpointRawLast' = IF t THEN cur ELSE gpointRawLast
           /\ lookAheadBuffer' = lookAheadBuffer
           /\ ggestureFeatures' = ggestureFeatures
           /\ gest_out' = [type |-> "NONE", frameCount |-> grunningFrameCount']
           /\ cent_out' = Unwritten
<1> USE FramesAssumption
<1>1. TypeOK /\ HistoryIsTheContact /\ down /\ gcentroidHistoryIndex = sample
      /\ sample = grunningFrameCount + 1
    BY DEF IInv, HistoryIsTheContact, CountersAgree
<1>2. /\ finger' = 1 /\ contact' = contact /\ sample' = sample + 1
      /\ cur = <<contact, sample + 1>> /\ cur \in Point
    BY <1>1, FingerOnDown DEF FingerOn
<1>3. /\ grunningFrameCount' = grunningFrameCount + 1
      /\ gpointRawLast' = IF t THEN cur ELSE gpointRawLast
      /\ lookAheadBuffer' = lookAheadBuffer
      /\ ggestureFeatures' = ggestureFeatures
      /\ gest_out' = [type |-> "NONE", frameCount |-> grunningFrameCount']
      /\ cent_out' = Unwritten
    BY DEF Collect, Report, NoMovement
<1>4. contact \in Nat /\ sample \in Nat /\ grunningFrameCount \in Nat
      /\ gpointRawLast \in Point
      /\ gcentroidHistoryIndex \in 0 .. SWIPE_MAX_DURATION_FRAMES
    BY <1>1 DEF TypeOK
<1>5. gpointRawLast' \in Point
    BY <1>2, <1>3, <1>4
<1>6. CASE HistoryFull
    <2>1. gcentroidHistory' = gcentroidHistory
          /\ gcentroidHistoryIndex' = gcentroidHistoryIndex
        BY <1>6 DEF Collect, history
    <2>2. sample = SWIPE_MAX_DURATION_FRAMES
        BY <1>6, <1>1, <1>4 DEF HistoryFull
    <2>3. gcentroidHistory' \in [HistorySlots -> Point]
        BY <2>1, <1>1 DEF TypeOK
    <2>4. \A i \in 0 .. gcentroidHistoryIndex' - 1 :
             gcentroidHistory'[i] = <<contact', i + 1>>
        BY <2>1, <1>1, <1>2 DEF HistoryIsTheContact, Pt
    <2> QED
        BY <1>1, <1>2, <1>3, <1>4, <1>5, <1>6, <2>1, <2>2, <2>3, <2>4
<1>7. CASE ~HistoryFull
    <2>1. centroidHistoryPush
        BY <1>7 DEF Collect
    <2>2. /\ gcentroidHistory' \in [HistorySlots -> Point]
          /\ gcentroidHistoryIndex' = sample'
          /\ gcentroidHistoryIndex' \in 1 .. SWIPE_MAX_DURATION_FRAMES
          /\ \A i \in 0 .. gcentroidHistoryIndex' - 1 :
                 gcentroidHistory'[i] = <<contact', i + 1>>
        BY <2>1, <1>1, <1>7, PushExtends
    <2>3. sample < SWIPE_MAX_DURATION_FRAMES
        BY <1>7, <1>1, <1>4 DEF HistoryFull
    <2> QED
        BY <1>1, <1>2, <1>3, <1>4, <1>5, <1>7, <2>2, <2>3
<1> QED
    BY <1>6, <1>7

\* The type invariant after a step, from the parts a step may change.
LEMMA TypeStep ==
    ASSUME TypeOK, gprocessMode' \in Modes,
           grunningFrameCount' \in 0 .. SWIPE_MAX_DURATION_FRAMES,
           gcentroidHistory' \in [HistorySlots -> Point],
           gcentroidHistoryIndex' \in 0 .. SWIPE_MAX_DURATION_FRAMES,
           gpointRawLast' \in Point,
           lookAheadBuffer' \in [Slots -> Point],
           ggestureFeatures' \in [contact: Nat, frameCount: Nat, class: Classes],
           gest_out' \in [type: Gestures, frameCount: Nat],
           cent_out' \in Movement \cup {Unwritten},
           finger' \in {0, 1}, contact' \in Nat, sample' \in Nat
    PROVE  TypeOK'
BY DEF TypeOK

\* A frame collected in the settle time.
LEMMA DebounceOnKeeps == ASSUME IInv, DebounceOn PROVE IInv'
<1> USE FramesAssumption
<1>1. gprocessMode = "DEBOUNCE" /\ FingerOn /\ Collect(HistoryFull)
    BY DEF DebounceOn
<1>2. grunningFrameCount < TOUCH_MIN_DURATION_FRAMES
    BY <1>1 DEF IInv, CountersAgree
<1>3. ~HistoryFull /\ sample' = sample + 1 /\ finger' = 1
      /\ grunningFrameCount' = sample' - 1 /\ grunningFrameCount + 1 = sample
      /\ grunningFrameCount \in Nat /\ gcentroidHistoryIndex' = sample'
    BY <1>1, <1>2, CollectStep
<1>4. gprocessMode' = IF grunningFrameCount' >= TOUCH_MIN_DURATION_FRAMES
                      THEN "TAP_N_SWIPE_MONITOR" ELSE "DEBOUNCE"
    BY <1>1, <1>3 DEF DebounceOn, Collected
<1>5. TypeOK'
    <2>1. gest_out' \in [type: Gestures, frameCount: Nat]
        BY <1>1, <1>3, CollectStep DEF Gestures
    <2>2. cent_out' \in Movement \cup {Unwritten}
        BY <1>1, CollectStep
    <2>3. gprocessMode' \in Modes
        BY <1>4 DEF Modes
    <2>4. lookAheadBuffer' \in [Slots -> Point]
          /\ ggestureFeatures' \in [contact: Nat, frameCount: Nat, class: Classes]
        BY <1>1, CollectStep DEF IInv, TypeOK
    <2>5. grunningFrameCount' \in 0 .. SWIPE_MAX_DURATION_FRAMES
        BY <1>2, <1>3
    <2> QED
        BY <2>1, <2>2, <2>3, <2>4, <2>5, <1>1, <1>3, CollectStep, TypeStep DEF IInv
<1>6. HistoryIsTheContact'
    BY <1>1, <1>3, CollectStep DEF HistoryIsTheContact, Pt, down
<1>7. CountersAgree'
    BY <1>2, <1>3, <1>4 DEF CountersAgree, down
<1>8. LookAheadIsDelayLine' /\ MovementFromDelayLine'
    BY <1>1, <1>4, CollectStep DEF LookAheadIsDelayLine, MovementFromDelayLine
<1>9. VerdictMatchesLength'
    BY <1>1, CollectStep DEF VerdictMatchesLength, Classes
<1> QED
    BY <1>5, <1>6, <1>7, <1>8, <1>9 DEF IInv

\* A frame collected while tap and swipe are both possible.
LEMMA TapNSwipeOnKeeps == ASSUME IInv, TapNSwipeOn PROVE IInv'
<1> USE FramesAssumption
<1>1. gprocessMode = "TAP_N_SWIPE_MONITOR" /\ FingerOn /\ Collect(HistoryFull)
    BY DEF TapNSwipeOn
<1>2. grunningFrameCount \in TOUCH_MIN_DURATION_FRAMES .. TAP_MAX_DURATION_FRAMES
    BY <1>1 DEF IInv, CountersAgree
<1>3. ~HistoryFull /\ sample' = sample + 1 /\ finger' = 1
      /\ grunningFrameCount' = sample' - 1 /\ grunningFrameCount + 1 = sample
      /\ grunningFrameCount \in Nat /\ gcentroidHistoryIndex' = sample'
    BY <1>1, <1>2, CollectStep
<1>4. gprocessMode' = IF grunningFrameCount' > TAP_MAX_DURATION_FRAMES
                      THEN "SWIPE_MONITOR" ELSE "TAP_N_SWIPE_MONITOR"
    BY <1>1, <1>3 DEF TapNSwipeOn, Collected
<1>5. TypeOK'
    <2>1. gest_out' \in [type: Gestures, frameCount: Nat]
        BY <1>1, <1>3, CollectStep DEF Gestures
    <2>2. cent_out' \in Movement \cup {Unwritten}
        BY <1>1, CollectStep
    <2>3. gprocessMode' \in Modes
        BY <1>4 DEF Modes
    <2>4. lookAheadBuffer' \in [Slots -> Point]
          /\ ggestureFeatures' \in [contact: Nat, frameCount: Nat, class: Classes]
        BY <1>1, CollectStep DEF IInv, TypeOK
    <2>5. grunningFrameCount' \in 0 .. SWIPE_MAX_DURATION_FRAMES
        BY <1>2, <1>3
    <2> QED
        BY <2>1, <2>2, <2>3, <2>4, <2>5, <1>1, <1>3, CollectStep, TypeStep DEF IInv
<1>6. HistoryIsTheContact'
    BY <1>1, <1>3, CollectStep DEF HistoryIsTheContact, Pt, down
<1>7. CountersAgree'
    BY <1>2, <1>3, <1>4 DEF CountersAgree, down
<1>8. LookAheadIsDelayLine' /\ MovementFromDelayLine'
    BY <1>1, <1>4, CollectStep DEF LookAheadIsDelayLine, MovementFromDelayLine
<1>9. VerdictMatchesLength'
    BY <1>1, CollectStep DEF VerdictMatchesLength, Classes
<1> QED
    BY <1>5, <1>6, <1>7, <1>8, <1>9 DEF IInv

\* A frame collected while only a swipe is possible, or the one that starts
\* the pointer.
LEMMA SwipeOnKeeps == ASSUME IInv, SwipeOn PROVE IInv'
<1> USE FramesAssumption
<1> DEFINE t == HistoryFull \/ SwipeTooLong
<1>1. gprocessMode = "SWIPE_MONITOR" /\ FingerOn /\ Collect(t)
    BY DEF SwipeOn
<1>2. grunningFrameCount \in TAP_MAX_DURATION_FRAMES + 1 .. SWIPE_MAX_DURATION_FRAMES - 1
    BY <1>1 DEF IInv, CountersAgree
<1> HIDE DEF t
<1>3. sample' = sample + 1 /\ finger' = 1 /\ contact' = contact
      /\ grunningFrameCount' = grunningFrameCount + 1 /\ grunningFrameCount + 1 = sample
      /\ grunningFrameCount \in Nat
      /\ cur = <<contact', sample'>>
      /\ gpointRawLast' = IF t THEN cur ELSE gpointRawLast
    BY <1>1, CollectStep
<1>4. HistoryFull <=> SwipeTooLong
    BY <1>1, <1>2, <1>3, CollectStep DEF SwipeTooLong
<1>5. IF SwipeTooLong
      THEN /\ gprocessMode' = "BALLISTICS_START"
           /\ gcentroidHistoryIndex' = SWIPE_MAX_DURATION_FRAMES
           /\ sample' = SWIPE_MAX_DURATION_FRAMES + 1
           /\ gpointRawLast' = <<contact', sample'>>
      ELSE /\ gprocessMode' = "SWIPE_MONITOR"
           /\ gcentroidHistoryIndex' = sample'
           /\ sample' <= SWIPE_MAX_DURATION_FRAMES
    <2>1. CASE SwipeTooLong
        <3>1. t
            BY <2>1 DEF t
        <3> QED
            BY <2>1, <3>1, <1>1, <1>3, <1>4, CollectStep DEF SwipeOn
    <2>2. CASE ~SwipeTooLong
        BY <2>2, <1>1, <1>3, <1>4, CollectStep DEF SwipeOn, Collected
    <2> QED
        BY <2>1, <2>2
<1>6. TypeOK'
    <2>1. gest_out' \in [type: Gestures, frameCount: Nat]
        BY <1>1, <1>3, CollectStep DEF Gestures
    <2>2. cent_out' \in Movement \cup {Unwritten}
        BY <1>1, CollectStep
    <2>3. gprocessMode' \in Modes
        BY <1>5 DEF Modes
    <2>4. lookAheadBuffer' \in [Slots -> Point]
          /\ ggestureFeatures' \in [contact: Nat, frameCount: Nat, class: Classes]
        BY <1>1, CollectStep DEF IInv, TypeOK
    <2>5. grunningFrameCount' \in 0 .. SWIPE_MAX_DURATION_FRAMES
        BY <1>2, <1>3
    <2> QED
        BY <2>1, <2>2, <2>3, <2>4, <2>5, <1>1, CollectStep, TypeStep DEF IInv
<1>7. HistoryIsTheContact'
    BY <1>1, <1>3, <1>5, CollectStep DEF HistoryIsTheContact, Pt, down
<1>8. CountersAgree'
    BY <1>2, <1>3, <1>5 DEF CountersAgree, down, Pt, SwipeTooLong
<1>9. LookAheadIsDelayLine' /\ MovementFromDelayLine'
    BY <1>1, <1>5, CollectStep DEF LookAheadIsDelayLine, MovementFromDelayLine
<1>10. VerdictMatchesLength'
    BY <1>1, CollectStep DEF VerdictMatchesLength, Classes
<1> QED
    BY <1>6, <1>7, <1>8, <1>9, <1>10 DEF IInv

\* A lift in a monitor: the class is reported for the contact that ends.
LEMMA ClassifyKeeps ==
    ASSUME IInv, FingerOff, Classify,
           gprocessMode \in {"TAP_N_SWIPE_MONITOR", "SWIPE_MONITOR"}
    PROVE  IInv'
<1> USE FramesAssumption
<1>1. /\ finger' = 0 /\ contact' = contact /\ sample' = sample
      /\ gprocessMode' = "IDLE" /\ cent_out' = Unwritten
      /\ grunningFrameCount' = grunningFrameCount
      /\ gcentroidHistory' = gcentroidHistory
      /\ gcentroidHistoryIndex' = gcentroidHistoryIndex
      /\ gpointRawLast' = gpointRawLast /\ lookAheadBuffer' = lookAheadBuffer
      /\ gest_out' = [type |-> ggestureFeatures'.class,
                      frameCount |-> grunningFrameCount]
    BY DEF FingerOff, Classify, NoMovement, Report, history, pointer
<1>2. TypeOK
    BY DEF IInv
<1>3. ggestureFeatures' \in [contact: Nat, frameCount: Nat, class: Classes]
    <2>1. CASE ~HistoryFull /\ gcentroidHistoryIndex > 0
        <3>1. PICK c \in Classes :
                 ggestureFeatures' = [contact |-> gcentroidHistory[0][1],
                                      frameCount |-> gcentroidHistoryIndex,
                                      class |-> c]
            BY <2>1 DEF Classify, centroidFilterHistory
        <3>2. gcentroidHistory[0] \in Point
            BY <1>2 DEF TypeOK, HistorySlots
        <3>3. gcentroidHistory[0][1] \in Nat
            BY <3>2 DEF Point
        <3>4. gcentroidHistoryIndex \in Nat
            BY <1>2 DEF TypeOK
        <3> QED
            BY <3>1, <3>3, <3>4
    <2>2. CASE ~(~HistoryFull /\ gcentroidHistoryIndex > 0)
        BY <2>2, <1>2 DEF Classify, centroidFilterHistory, TypeOK
    <2> QED
        BY <2>1, <2>2
<1>4. gest_out'.type \in Classes /\ gest_out'.frameCount = grunningFrameCount
    BY <1>1, <1>3
<1>5. sample = grunningFrameCount + 1
      /\ sample \in TOUCH_MIN_DURATION_FRAMES + 1 .. SWIPE_MAX_DURATION_FRAMES
    BY <1>2 DEF IInv, CountersAgree, TypeOK
<1>6. TypeOK'
    <2>1. gest_out' \in [type: Gestures, frameCount: Nat]
        BY <1>1, <1>2, <1>3 DEF Gestures, TypeOK
    <2>2. cent_out' \in Movement \cup {Unwritten} /\ gprocessMode' \in Modes
        BY <1>1 DEF Modes
    <2> QED
        BY <2>1, <2>2, <1>1, <1>2, <1>3, TypeStep DEF TypeOK
<1>7. HistoryIsTheContact' /\ CountersAgree'
    BY <1>1 DEF IInv, HistoryIsTheContact, CountersAgree, Pt, down
<1>8. LookAheadIsDelayLine' /\ MovementFromDelayLine'
    BY <1>1 DEF LookAheadIsDelayLine, MovementFromDelayLine
<1>9. VerdictMatchesLength'
    <2>1. gest_out'.type # "POINTER"
        BY <1>4 DEF Classes
    <2> QED
        BY <2>1, <1>1, <1>4, <1>5, <1>2 DEF VerdictMatchesLength, down, TypeOK
<1> QED
    BY <1>6, <1>7, <1>8, <1>9 DEF IInv

\* A frame that reports nothing and goes on, or back to the idle mode.
LEMMA QuietKeeps ==
    ASSUME IInv, UNCHANGED <<grunningFrameCount, history, pointer, ggestureFeatures,
                             contact, sample>>,
           cent_out' = Unwritten,
           gest_out' = [type |-> "NONE", frameCount |-> grunningFrameCount],
           \/ gprocessMode' = gprocessMode /\ finger' = finger
           \/ gprocessMode' = "IDLE" /\ finger' = 0
    PROVE  IInv'
<1> USE FramesAssumption
<1>1. /\ grunningFrameCount' = grunningFrameCount /\ contact' = contact
      /\ sample' = sample /\ gcentroidHistory' = gcentroidHistory
      /\ gcentroidHistoryIndex' = gcentroidHistoryIndex
      /\ gpointRawLast' = gpointRawLast /\ lookAheadBuffer' = lookAheadBuffer
      /\ ggestureFeatures' = ggestureFeatures
    BY DEF history, pointer
<1>2. TypeOK'
    <2>1. TypeOK
        BY DEF IInv
    <2>2. gest_out' \in [type: Gestures, frameCount: Nat]
        BY <2>1 DEF Gestures, TypeOK
    <2>3. cent_out' \in Movement \cup {Unwritten}
        OBVIOUS
    <2>4. gprocessMode' \in Modes /\ finger' \in {0, 1}
        BY <2>1 DEF Modes, TypeOK
    <2> QED
        BY <2>1, <2>2, <2>3, <2>4, <1>1, TypeStep DEF TypeOK
<1>3. HistoryIsTheContact' /\ CountersAgree'
    BY <1>1 DEF IInv, HistoryIsTheContact, CountersAgree, Pt, down
<1>4. LookAheadIsDelayLine' /\ MovementFromDelayLine'
    BY <1>1 DEF IInv, LookAheadIsDelayLine, MovementFromDelayLine, Pt
<1>5. VerdictMatchesLength'
    BY DEF VerdictMatchesLength, Classes
<1> QED
    BY <1>2, <1>3, <1>4, <1>5 DEF IInv

\* The first frame of a contact.
LEMMA IdleOnKeeps == ASSUME IInv, IdleOn PROVE IInv'
<1> USE FramesAssumption
<1>1. TypeOK /\ ~down
    BY DEF IInv, IdleOn, CountersAgree
<1>2. /\ cur = <<contact', sample'>> /\ cur \in Point /\ sample' = 1
      /\ contact' \in Nat /\ finger' = 1
    BY <1>1, FingerOnUp DEF IdleOn, TypeOK, FingerOn
<1>3. /\ gprocessMode' = "DEBOUNCE" /\ grunningFrameCount' = 0
      /\ gcentroidHistory' = [gcentroidHistory EXCEPT ![0] = cur]
      /\ gcentroidHistoryIndex' = 1
      /\ gpointRawLast' = gpointRawLast /\ lookAheadBuffer' = lookAheadBuffer
      /\ ggestureFeatures' = ggestureFeatures /\ cent_out' = Unwritten
      /\ gest_out' = [type |-> "NONE", frameCount |-> 0]
    BY DEF IdleOn, NoMovement, Report, pointer
<1>4. 0 \in HistorySlots /\ gcentroidHistory \in [HistorySlots -> Point]
    BY <1>1 DEF TypeOK, HistorySlots
<1>5. TypeOK'
    <2>1. gest_out' \in [type: Gestures, frameCount: Nat]
        BY <1>3 DEF Gestures
    <2>2. cent_out' \in Movement \cup {Unwritten} /\ gprocessMode' \in Modes
        BY <1>3 DEF Modes
    <2>3. gcentroidHistory' \in [HistorySlots -> Point]
        BY <1>2, <1>3, <1>4
    <2>4. /\ grunningFrameCount' \in 0 .. SWIPE_MAX_DURATION_FRAMES
          /\ gcentroidHistoryIndex' \in 0 .. SWIPE_MAX_DURATION_FRAMES
        BY <1>3
    <2>5. /\ gpointRawLast' \in Point /\ lookAheadBuffer' \in [Slots -> Point]
          /\ ggestureFeatures' \in [contact: Nat, frameCount: Nat, class: Classes]
        BY <1>1, <1>3 DEF TypeOK
    <2>6. finger' \in {0, 1} /\ sample' \in Nat
        BY <1>2
    <2> QED
        BY <2>1, <2>2, <2>3, <2>4, <2>5, <2>6, <1>1, <1>2, TypeStep
<1>6. HistoryIsTheContact'
    <2>1. gcentroidHistory'[0] = <<contact', 1>>
        BY <1>2, <1>3, <1>4
    <2>2. \A i \in 0 .. gcentroidHistoryIndex' - 1 : i = 0
        BY <1>3
    <2> QED
        BY <2>1, <2>2, <1>2, <1>3 DEF HistoryIsTheContact, Pt, down
<1>7. CountersAgree'
    BY <1>2, <1>3 DEF CountersAgree, down
<1>8. LookAheadIsDelayLine' /\ MovementFromDelayLine' /\ VerdictMatchesLength'
    BY <1>3 DEF LookAheadIsDelayLine, MovementFromDelayLine,
                VerdictMatchesLength, Classes
<1> QED
    BY <1>5, <1>6, <1>7, <1>8 DEF IInv

\* A step that shifts the newest frame into a buffer that holds the frames
\* before it makes the look-ahead buffer a delay line again.
LEMMA AdvanceStep ==
    ASSUME IInv, FingerOn, NEW buffer \in [Slots -> Point], Advance(buffer),
           gprocessMode \in {"BALLISTICS_START", "BALLISTICS_RUN"},
           \A i \in Slots : buffer[i] = <<contact, sample - Last + i>>
    PROVE  /\ lookAheadBuffer' \in [Slots -> Point]
           /\ gpointRawLast' \in Point
           /\ cent_out' \in Movement
           /\ cent_out'[1] = lookAheadBuffer'[0]
           /\ lookAheadBuffer'[0] = buffer[1]
           /\ finger' = 1 /\ contact' = contact /\ sample' = sample + 1
           /\ \A i \in Slots : lookAheadBuffer'[i] = <<contact', sample' - Last + i>>
<1> USE LookAheadAssumption
<1> DEFINE shifted == [i \in Slots |-> IF i = Last THEN cur ELSE buffer[i + 1]]
<1>1. TypeOK /\ down
    BY DEF IInv, CountersAgree
<1>2. /\ cur = <<contact, sample + 1>> /\ cur \in Point
      /\ finger' = 1 /\ contact' = contact /\ sample' = sample + 1
    BY <1>1, FingerOnDown DEF FingerOn
<1>3. sample \in Nat /\ Last \in Nat /\ 3 <= Last
    BY <1>1 DEF TypeOK, Last
<1>4. \A i \in Slots : i # Last => i + 1 \in Slots /\ i \in Int
    BY <1>3 DEF Slots
<1>5. shifted \in [Slots -> Point]
    BY <1>2, <1>4
<1>6. /\ lookAheadBuffer' = shifted /\ gpointRawLast' = shifted[0]
      /\ cent_out' = <<shifted[0], shifted[3]>>
    BY DEF Advance
<1>7. 0 \in Slots /\ 3 \in Slots /\ 0 # Last
    BY <1>3 DEF Slots
<1>8. ASSUME NEW i \in Slots
      PROVE  shifted[i] = <<contact', sample' - Last + i>>
    <2>1. CASE i = Last
        BY <2>1, <1>2, <1>3
    <2>2. CASE i # Last
        <3>1. shifted[i] = buffer[i + 1] /\ i + 1 \in Slots /\ i \in Int
            BY <2>2, <1>4
        <3>2. shifted[i] = <<contact, sample - Last + (i + 1)>>
            BY <3>1
        <3> QED
            BY <3>1, <3>2, <1>2, <1>3
    <2> QED
        BY <2>1, <2>2
<1>9. shifted[0] \in Point /\ shifted[3] \in Point /\ shifted[0] = buffer[1]
    BY <1>5, <1>7
<1>10. cent_out' \in Movement /\ cent_out'[1] = shifted[0]
    BY <1>6, <1>9 DEF Movement
<1> HIDE DEF shifted
<1> QED
    BY <1>2, <1>5, <1>6, <1>8, <1>9, <1>10

\* The invariant after a frame that moves the pointer.
LEMMA PointerKeeps ==
    ASSUME IInv, FingerOn, NEW buffer \in [Slots -> Point], Advance(buffer),
           gprocessMode \in {"BALLISTICS_START", "BALLISTICS_RUN"},
           \A i \in Slots : buffer[i] = <<contact, sample - Last + i>>,
           gprocessMode' = "BALLISTICS_RUN",
           UNCHANGED <<grunningFrameCount, history, ggestureFeatures>>,
           gest_out' = [type |-> "POINTER", frameCount |-> grunningFrameCount]
    PROVE  IInv'
<1> USE FramesAssumption
<1>1. TypeOK /\ sample \in Nat /\ contact \in Nat
    BY DEF IInv, TypeOK
<1>2. /\ lookAheadBuffer' \in [Slots -> Point]
      /\ gpointRawLast' \in Point /\ cent_out' \in Movement
      /\ cent_out'[1] = lookAheadBuffer'[0]
      /\ finger' = 1 /\ contact' = contact /\ sample' = sample + 1
      /\ \A i \in Slots : lookAheadBuffer'[i] = <<contact', sample' - Last + i>>
    BY AdvanceStep
<1>3. sample > SWIPE_MAX_DURATION_FRAMES
      /\ gcentroidHistoryIndex = SWIPE_MAX_DURATION_FRAMES
    BY <1>1 DEF IInv, CountersAgree
<1>4. TypeOK'
    <2>1. gest_out' \in [type: Gestures, frameCount: Nat]
        BY <1>1 DEF Gestures, TypeOK
    <2>2. cent_out' \in Movement \cup {Unwritten} /\ gprocessMode' \in Modes
        BY <1>2 DEF Modes
    <2>3. finger' \in {0, 1} /\ contact' \in Nat /\ sample' \in Nat
        BY <1>1, <1>2
    <2> QED
        BY <2>1, <2>2, <2>3, <1>1, <1>2, TypeStep DEF TypeOK, history
<1>5. HistoryIsTheContact'
    BY <1>2 DEF IInv, HistoryIsTheContact, Pt, history
<1>6. CountersAgree'
    BY <1>1, <1>2, <1>3 DEF CountersAgree, down, history
<1>7. LookAheadIsDelayLine' /\ MovementFromDelayLine'
    BY <1>2 DEF LookAheadIsDelayLine, MovementFromDelayLine, Pt
<1>8. VerdictMatchesLength'
    BY <1>1, <1>2, <1>3 DEF VerdictMatchesLength, Classes
<1> QED
    BY <1>4, <1>5, <1>6, <1>7, <1>8 DEF IInv

\* The first frame of the pointer joins the history, the point kept by the
\* frame before and the frame at hand.
LEMMA BallisticsStartOnKeeps == ASSUME IInv, BallisticsStartOn PROVE IInv'
<1> USE FramesAssumption, LookAheadAssumption
<1>1. /\ gcentroidHistoryIndex = SWIPE_MAX_DURATION_FRAMES
      /\ sample = SWIPE_MAX_DURATION_FRAMES + 1
      /\ gpointRawLast = <<contact, sample>>
    BY DEF IInv, CountersAgree, BallisticsStartOn, Pt
<1>2. gcentroidHistory \in [HistorySlots -> Point] /\ gpointRawLast \in Point
      /\ Zero \in Point
    BY DEF IInv, TypeOK, Zero, Point
<1>3. ASSUME NEW i \in Slots
      PROVE  Primed[i] \in Point /\ Primed[i] = <<contact, sample - Last + i>>
    <2>1. CASE i = Last
        BY <2>1, <1>1, <1>2 DEF Primed, Last
    <2>2. CASE i # Last
        <3> DEFINE j == gcentroidHistoryIndex - Last + i
        <3>1. j \in 0 .. gcentroidHistoryIndex - 1 /\ j \in HistorySlots
              /\ j + 1 = sample - Last + i
            BY <2>2, <1>1 DEF Slots, Last, HistorySlots
        <3>2. Primed[i] = gcentroidHistory[j]
            BY <2>2, <3>1 DEF Primed
        <3>3. gcentroidHistory[j] = <<contact, j + 1>>
            BY <3>1 DEF IInv, HistoryIsTheContact, Pt
        <3> QED
            BY <3>1, <3>2, <3>3, <1>2
    <2> QED
        BY <2>1, <2>2
<1>4. Primed \in [Slots -> Point]
    BY <1>3 DEF Primed
<1>5. /\ Advance(Primed) /\ FingerOn /\ gprocessMode = "BALLISTICS_START"
      /\ gprocessMode' = "BALLISTICS_RUN"
      /\ UNCHANGED <<grunningFrameCount, history, ggestureFeatures>>
      /\ gest_out' = [type |-> "POINTER", frameCount |-> grunningFrameCount]
    BY DEF BallisticsStartOn, Report
<1> QED
    BY <1>3, <1>4, <1>5, PointerKeeps

\* A lift that ends a pointer.
LEMMA BallisticsOffKeeps == ASSUME IInv, BallisticsOff PROVE IInv'
<1> USE FramesAssumption
<1>1. /\ finger' = 0 /\ contact' = contact /\ sample' = sample
      /\ gprocessMode' = "IDLE" /\ cent_out' = Unwritten
      /\ grunningFrameCount' = grunningFrameCount
      /\ gcentroidHistory' = gcentroidHistory
      /\ gcentroidHistoryIndex' = gcentroidHistoryIndex
      /\ gpointRawLast' = gpointRawLast /\ lookAheadBuffer' = lookAheadBuffer
      /\ ggestureFeatures' = ggestureFeatures
      /\ gest_out' = [type |-> "POINTER", frameCount |-> grunningFrameCount]
    BY DEF BallisticsOff, FingerOff, NoMovement, Report, history, pointer
<1>2. TypeOK /\ sample \in Nat /\ sample > SWIPE_MAX_DURATION_FRAMES
    BY DEF IInv, TypeOK, CountersAgree, BallisticsOff
<1>3. TypeOK'
    <2>1. gest_out' \in [type: Gestures, frameCount: Nat]
        BY <1>1, <1>2 DEF Gestures, TypeOK
    <2>2. cent_out' \in Movement \cup {Unwritten} /\ gprocessMode' \in Modes
        BY <1>1 DEF Modes
    <2> QED
        BY <2>1, <2>2, <1>1, <1>2, TypeStep DEF TypeOK
<1>4. HistoryIsTheContact' /\ CountersAgree'
    BY <1>1 DEF IInv, HistoryIsTheContact, CountersAgree, Pt, down
<1>5. LookAheadIsDelayLine' /\ MovementFromDelayLine'
    BY <1>1 DEF LookAheadIsDelayLine, MovementFromDelayLine
<1>6. VerdictMatchesLength'
    BY <1>1, <1>2 DEF VerdictMatchesLength, Classes
<1> QED
    BY <1>3, <1>4, <1>5, <1>6 DEF IInv

\* Every frame preserves the inductive invariant.
LEMMA StepIInv == IInv /\ [Next]_vars => IInv'
<1> SUFFICES ASSUME IInv, [Next]_vars PROVE IInv'
    OBVIOUS
<1>1. CASE IdleOff
    <2>1. gprocessMode' = gprocessMode /\ finger' = finger
        BY <1>1 DEF IdleOff, machine, FingerOff, IInv, CountersAgree, down, TypeOK
    <2> QED
        BY <1>1, <2>1, QuietKeeps
        DEF IdleOff, machine, FingerOff, NoMovement, Report, history, pointer
<1>2. CASE IdleOn
    BY <1>2, IdleOnKeeps
<1>3. CASE DebounceOff
    BY <1>3, QuietKeeps
    DEF DebounceOff, FingerOff, NoMovement, Report, history, pointer
<1>4. CASE DebounceOn
    BY <1>4, DebounceOnKeeps
<1>5. CASE TapNSwipeOff
    BY <1>5, ClassifyKeeps DEF TapNSwipeOff
<1>6. CASE TapNSwipeOn
    BY <1>6, TapNSwipeOnKeeps
<1>7. CASE SwipeOff
    BY <1>7, ClassifyKeeps DEF SwipeOff
<1>8. CASE SwipeOn
    BY <1>8, SwipeOnKeeps
<1>9. CASE BallisticsStartOn
    BY <1>9, BallisticsStartOnKeeps
<1>10. CASE BallisticsRunOn
    <2>1. /\ lookAheadBuffer \in [Slots -> Point]
          /\ \A i \in Slots : lookAheadBuffer[i] = <<contact, sample - Last + i>>
        BY <1>10 DEF BallisticsRunOn, IInv, TypeOK, LookAheadIsDelayLine, Pt
    <2> QED
        BY <1>10, <2>1, PointerKeeps DEF BallisticsRunOn, machine, Report
<1>11. CASE BallisticsOff
    BY <1>11, BallisticsOffKeeps
<1>12. CASE OtherFinger
    BY <1>12, QuietKeeps DEF OtherFinger, machine, NoMovement, Report
<1>13. CASE UNCHANGED vars
    <2>1. /\ gprocessMode' = gprocessMode /\ grunningFrameCount' = grunningFrameCount
          /\ gcentroidHistory' = gcentroidHistory
          /\ gcentroidHistoryIndex' = gcentroidHistoryIndex
          /\ gpointRawLast' = gpointRawLast /\ lookAheadBuffer' = lookAheadBuffer
          /\ ggestureFeatures' = ggestureFeatures /\ gest_out' = gest_out
          /\ cent_out' = cent_out /\ finger' = finger
          /\ contact' = contact /\ sample' = sample
        BY <1>13 DEF vars, machine, history, pointer
    <2>2. TypeOK'
        BY <2>1 DEF IInv, TypeOK
    <2> QED
        BY <2>1, <2>2 DEF IInv, HistoryIsTheContact, CountersAgree, Pt, down,
            LookAheadIsDelayLine, VerdictMatchesLength, MovementFromDelayLine
<1> QED
    BY <1>1, <1>2, <1>3, <1>4, <1>5, <1>6, <1>7, <1>8, <1>9, <1>10, <1>11,
       <1>12, <1>13 DEF Next

-----------------------------------------------------------------------------
\* The inductive invariant holds throughout.
THEOREM Invariance == Spec => []IInv
BY InitIInv, StepIInv, PTL DEF Spec

\* Every variable of process() keeps its type: no frame counter, history index
\* or buffer slot leaves its range (process.c:33-276).
THEOREM TypeCorrect == Spec => []TypeOK
<1>1. IInv => TypeOK
    BY DEF IInv
<1> QED
    BY <1>1, Invariance, PTL

\* The recognizer reads the frames of the contact that is being classified,
\* all of them and in order, and the thresholds on the frame counter bound the
\* contact (process.c:50-169).
THEOREM HistoryCorrect == Spec => [](HistoryIsTheContact /\ CountersAgree)
<1>1. IInv => HistoryIsTheContact /\ CountersAgree
    BY DEF IInv
<1> QED
    BY <1>1, Invariance, PTL

\* The assertions of the recognizer about the length of the history cannot
\* fail (recognizer.c:111, recognizer.c:1057).
THEOREM AssertionsHold == Spec => []LiftFindsEnoughHistory
<1>1. IInv => LiftFindsEnoughHistory
    <2> SUFFICES ASSUME IInv,
                        gprocessMode \in {"TAP_N_SWIPE_MONITOR", "SWIPE_MONITOR"}
                 PROVE  /\ gcentroidHistoryIndex >= 3
                        /\ gcentroidHistory[2][1] = contact
                        /\ gcentroidHistory[gcentroidHistoryIndex - 2][1] = contact
        BY DEF LiftFindsEnoughHistory
    <2>1. gcentroidHistoryIndex \in Int /\ gcentroidHistoryIndex >= 3
        BY FramesAssumption DEF IInv, TypeOK, CountersAgree, HistoryIsTheContact
    <2>2. /\ 2 \in 0 .. gcentroidHistoryIndex - 1
          /\ gcentroidHistoryIndex - 2 \in 0 .. gcentroidHistoryIndex - 1
        BY <2>1
    <2>3. \A i \in 0 .. gcentroidHistoryIndex - 1 : gcentroidHistory[i] = <<contact, i + 1>>
        BY DEF IInv, HistoryIsTheContact, Pt
    <2>4. \A i \in 0 .. gcentroidHistoryIndex - 1 : gcentroidHistory[i][1] = contact
        BY <2>3
    <2> QED
        BY <2>1, <2>2, <2>4
<1> QED
    BY <1>1, Invariance, PTL

\* The pointer is driven by a gapless delay line of the contact's own frames,
\* also across the hand-over from the swipe monitor (process.c:171-218).
THEOREM DelayLineCorrect == Spec => []LookAheadIsDelayLine
<1>1. IInv => LookAheadIsDelayLine
    BY DEF IInv
<1> QED
    BY <1>1, Invariance, PTL

\* Each contact is a gesture or a pointer movement, never both, and its length
\* decides which (process.c:101-274).
THEOREM VerdictCorrect == Spec => []VerdictMatchesLength
<1>1. IInv => VerdictMatchesLength
    BY DEF IInv
<1> QED
    BY <1>1, Invariance, PTL

\* Consecutive movements of the pointer follow the path of the finger frame by
\* frame (process.c:201-261).
THEOREM MovementCorrect == Spec => MovementIsContinuous
<1> DEFINE A == cent_out # Unwritten /\ cent_out' # Unwritten
                  => /\ contact' = contact
                     /\ cent_out'[1] = <<contact, cent_out[1][2] + 1>>
<1>1. IInv /\ [Next]_vars => [A]_vars
    <2> SUFFICES ASSUME IInv, Next, cent_out # Unwritten, cent_out' # Unwritten
                 PROVE  /\ contact' = contact
                        /\ cent_out'[1] = <<contact, cent_out[1][2] + 1>>
        OBVIOUS
    <2> USE LookAheadAssumption
    <2>1. gprocessMode = "BALLISTICS_RUN" /\ cent_out[1] = lookAheadBuffer[0]
        BY DEF IInv, MovementFromDelayLine
    <2>2. BallisticsRunOn
        BY <2>1 DEF Next, IdleOff, IdleOn, DebounceOff, DebounceOn,
            TapNSwipeOff, TapNSwipeOn, SwipeOff, SwipeOn, BallisticsStartOn,
            BallisticsOff, OtherFinger, NoMovement
    <2>3. /\ lookAheadBuffer \in [Slots -> Point]
          /\ \A i \in Slots : lookAheadBuffer[i] = <<contact, sample - Last + i>>
        BY <2>1 DEF IInv, TypeOK, LookAheadIsDelayLine, Pt
    <2>4. contact' = contact /\ cent_out'[1] = lookAheadBuffer[1]
        BY <2>1, <2>2, <2>3, AdvanceStep DEF BallisticsRunOn
    <2>5. 0 \in Slots /\ 1 \in Slots /\ Last \in Int /\ sample \in Int
        BY DEF Slots, Last, IInv, TypeOK
    <2>6. cent_out[1][2] = sample - Last /\ cent_out'[1] = <<contact, sample - Last + 1>>
        BY <2>1, <2>3, <2>4, <2>5
    <2> QED
        BY <2>4, <2>6
<1> QED
    BY <1>1, Invariance, PTL DEF Spec, MovementIsContinuous
=============================================================================
