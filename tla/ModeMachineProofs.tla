------------------------- MODULE ModeMachineProofs --------------------------
(***************************************************************************)
(* For a ring buffer of any size from three on, any switch and double-tap  *)
(* window and any number of gestures, the mode machine keeps its types and *)
(* implements ModeSwitch.                                                  *)
(***************************************************************************)
EXTENDS ModeMachine, TLAPS

\* Stepping back in the ring, without the remainder.
LEMMA PrevIs ==
    \A i \in 0 .. SM_MAX_GESTURES :
        /\ Prev(i) = IF i = 0 THEN SM_MAX_GESTURES - 1 ELSE i - 1
        /\ Prev(i) \in Slots
<1> USE RingAssumption DEF Prev, Slots
<1> TAKE i \in 0 .. SM_MAX_GESTURES
<1>1. CASE i = 0
    BY <1>1
<1>2. CASE i # 0
    BY <1>2
<1> QED
    BY <1>1, <1>2

\* The slots that hold a gesture since the last switch hold one indeed, and
\* the ring is empty only if it has not wrapped.
UsedSlots ==
    /\ bexceeded => gHistoryIndex >= 1
    /\ \A i \in Slots : bexceeded \/ i < gHistoryIndex => gHistory[i] \in Entry

\* The inductive invariant.
IInv == TypeOK /\ UsedSlots

\* The zeroed slot is no gesture.
LEMMA NothingIsNoEntry == Nothing \notin Entry
<1>1. "NONE" \notin GestureTypes
    BY GestureAssumption
<1> QED
    BY <1>1 DEF Nothing, Entry

\* The initial state satisfies the inductive invariant.
LEMMA InitIInv == Init => IInv
<1> SUFFICES ASSUME Init PROVE IInv
    OBVIOUS
<1> USE RingAssumption, TimeAssumption, GestureAssumption DEF Init
<1>1. gHistory \in [Slots -> Entry \cup {Nothing}]
    OBVIOUS
<1>2. /\ gHistoryIndex \in 0 .. SM_MAX_GESTURES
      /\ unread \in 0 .. ReplayFrames
      /\ clock \in Times
      /\ wait_double_tap_timeout \in {0, 1}
    BY DEF Times
<1>3. gCurMode \in Modes /\ last \in GestureTypes \cup {"NONE"}
    BY DEF Modes
<1>4. bexceeded \in BOOLEAN /\ fromFile \in BOOLEAN /\ held \subseteq Keys
    OBVIOUS
<1>5. UsedSlots
    BY DEF UsedSlots, Slots
<1> QED
    BY <1>1, <1>2, <1>3, <1>4, <1>5 DEF IInv, TypeOK

\* Whatever write fails, the device holds keys it has.
LEMMA HeldKeys ==
    ASSUME held \subseteq Keys, NEW mask \in DOMAIN Key \cup {"NONE", "TAP", "POINTER"},
           event_send_gesture(mask)
    PROVE  held' \subseteq Keys
<1>1. CASE mask \in {"NONE", "TAP", "POINTER"}
    BY <1>1 DEF event_send_gesture
<1>2. CASE mask \in DOMAIN Key
    <2>1. Key[mask] \in Keys
        BY <1>2 DEF Key, Keys
    <2> QED
        BY <2>1 DEF event_send_gesture
<1> QED
    BY <1>1, <1>2

\* The mask of a gesture is one event_send_gesture knows.
LEMMA MaskIs ==
    ASSUME NEW mode \in Modes, NEW type \in GestureTypes \cup {"NONE"}
    PROVE  Mask(mode, type) \in DOMAIN Key \cup {"NONE", "TAP", "POINTER"}
BY GestureAssumption DEF Mask, Key, Modes

\* What the ring is after a push: one more gesture in the slot the index says.
LEMMA PushKeepsRing ==
    ASSUME IInv, NEW type \in GestureTypes \cup {"NONE"}
    PROVE  LET r == gestureHistoryPush(type)
           IN  /\ r[1] \in [Slots -> Entry \cup {Nothing}]
               /\ r[2] \in 0 .. SM_MAX_GESTURES
               /\ r[3] \in BOOLEAN
               /\ r[3] => r[2] >= 1
               /\ \A i \in Slots : r[3] \/ i < r[2] => r[1][i] \in Entry
<1> USE RingAssumption
<1> DEFINE g == [type |-> type, fireTime |-> clock]
           h == [gHistory EXCEPT ![PushSlot] = g]
           r == gestureHistoryPush(type)
<1>1. /\ gHistory \in [Slots -> Entry \cup {Nothing}]
      /\ gHistoryIndex \in 0 .. SM_MAX_GESTURES
      /\ clock \in Times
    BY DEF IInv, TypeOK
<1>2. bexceeded \in BOOLEAN
    BY DEF IInv, TypeOK
<1>3. CASE type = "NONE"
    <2>1. r[1] = gHistory /\ r[2] = gHistoryIndex /\ r[3] = bexceeded
        BY <1>3 DEF gestureHistoryPush
    <2> QED
        BY <2>1, <1>1, <1>2 DEF IInv, UsedSlots
<1>4. CASE type # "NONE"
    <2>1. r[1] = h /\ r[2] = PushSlot + 1 /\ r[3] = (bexceeded \/ Wraps)
        BY <1>4 DEF gestureHistoryPush
    <2>2. g \in Entry
        BY <1>1, <1>4 DEF Entry
    <2>3. PushSlot \in Slots /\ PushSlot + 1 \in 1 .. SM_MAX_GESTURES
        BY <1>1 DEF PushSlot, Wraps, Slots
    <2>4. h \in [Slots -> Entry \cup {Nothing}]
        BY <1>1, <2>2, <2>3
    <2>5. ASSUME NEW i \in Slots, bexceeded \/ Wraps \/ i < PushSlot + 1
          PROVE  h[i] \in Entry
        <3>1. CASE i = PushSlot
            BY <3>1, <1>1, <2>2
        <3>2. CASE i # PushSlot
            <4>1. h[i] = gHistory[i]
                BY <3>2, <1>1
            <4>2. bexceeded \/ i < gHistoryIndex
                BY <2>5, <3>2, <1>1, <2>3 DEF PushSlot, Wraps, Slots
            <4> QED
                BY <4>1, <4>2 DEF IInv, UsedSlots
        <3> QED
            BY <3>1, <3>2
    <2> HIDE DEF h, g, r
    <2>6. r[3] \in BOOLEAN
        BY <2>1
    <2>7. /\ r[1] \in [Slots -> Entry \cup {Nothing}]
          /\ r[2] \in 0 .. SM_MAX_GESTURES /\ r[2] >= 1
        BY <2>1, <2>3, <2>4
    <2>8. \A i \in Slots : r[3] \/ i < r[2] => r[1][i] \in Entry
        BY <2>1, <2>5
    <2> QED
        BY <2>6, <2>7, <2>8 DEF r
<1> QED
    BY <1>3, <1>4

-----------------------------------------------------------------------------
\* A push makes the gesture the newest of the three remembered, also when the
\* ring wraps around.
LEMMA PushRemembers ==
    ASSUME IInv, NEW type \in GestureTypes
    PROVE  LET r == gestureHistoryPush(type)
           IN  Recent(r[1], r[2], r[3])
                 = Abs!Remember([type |-> type, fireTime |-> clock])
<1> USE RingAssumption
<1> DEFINE g == [type |-> type, fireTime |-> clock]
           h == [gHistory EXCEPT ![PushSlot] = g]
           x == bexceeded \/ Wraps
           n == PushSlot + 1
<1>1. /\ gHistory \in [Slots -> Entry \cup {Nothing}]
      /\ gHistoryIndex \in 0 .. SM_MAX_GESTURES
    BY DEF IInv, TypeOK
<1>2. bexceeded => gHistoryIndex >= 1
    BY DEF IInv, UsedSlots
<1>3. type # "NONE"
    BY GestureAssumption
<1>4. gestureHistoryPush(type) = <<h, n, x>>
    BY <1>3 DEF gestureHistoryPush
<1>5. PushSlot \in Slots /\ n \in 1 .. SM_MAX_GESTURES /\ n - 1 = PushSlot
    BY <1>1 DEF PushSlot, Wraps, Slots
<1>6. Prev(n) = PushSlot
    BY <1>5, PrevIs
<1>7. \A i \in Slots : i # PushSlot => h[i] = gHistory[i]
    BY <1>1
<1>8. h[PushSlot] = g
    BY <1>1, <1>5
<1>9. gHistoryIndex >= 1 => Prev(PushSlot) = Prev(gHistoryIndex)
                            /\ Prev(PushSlot) # PushSlot
    BY <1>1, <1>5, PrevIs DEF PushSlot, Wraps, Slots
<1>10. /\ Prev(PushSlot) \in Slots /\ Prev(Prev(PushSlot)) \in Slots
       /\ Prev(Prev(PushSlot)) # PushSlot
    BY <1>5, PrevIs DEF Slots
<1>11. /\ (x \/ 1 < n) <=> (bexceeded \/ 0 < gHistoryIndex)
       /\ (x \/ 2 < n) <=> (bexceeded \/ 1 < gHistoryIndex)
    BY <1>1, <1>2 DEF PushSlot, Wraps
<1> HIDE DEF g, h, x, n
<1>12. Recent(h, n, x)[0] = g
    BY <1>5, <1>6, <1>8 DEF Recent, SlotBack
<1>13. Recent(h, n, x)[1] = recentGestures[0]
    <2>1. CASE bexceeded \/ 0 < gHistoryIndex
        <3>1. Recent(h, n, x)[1] = h[Prev(PushSlot)]
            BY <2>1, <1>6, <1>11 DEF Recent, SlotBack
        <3>2. recentGestures[0] = gHistory[Prev(gHistoryIndex)]
            BY <2>1 DEF recentGestures, Recent, SlotBack
        <3>3. gHistoryIndex >= 1
            BY <2>1, <1>1, <1>2
        <3> QED
            BY <3>1, <3>2, <3>3, <1>7, <1>9, <1>10
    <2>2. CASE ~(bexceeded \/ 0 < gHistoryIndex)
        BY <2>2, <1>11 DEF recentGestures, Recent
    <2> QED
        BY <2>1, <2>2
<1>14. Recent(h, n, x)[2] = recentGestures[1]
    <2>1. CASE bexceeded \/ 1 < gHistoryIndex
        <3>1. Recent(h, n, x)[2] = h[Prev(Prev(PushSlot))]
            BY <2>1, <1>6, <1>11 DEF Recent, SlotBack
        <3>2. recentGestures[1] = gHistory[Prev(Prev(gHistoryIndex))]
            BY <2>1 DEF recentGestures, Recent, SlotBack
        <3>3. gHistoryIndex >= 1
            BY <2>1, <1>1, <1>2
        <3> QED
            BY <3>1, <3>2, <3>3, <1>7, <1>9, <1>10
    <2>2. CASE ~(bexceeded \/ 1 < gHistoryIndex)
        BY <2>2, <1>11 DEF recentGestures, Recent
    <2> QED
        BY <2>1, <2>2
<1>15. Recent(h, n, x) = Abs!Remember(g)
    <2>1. Recent(h, n, x) = [k \in 0 .. 2 |-> Recent(h, n, x)[k]]
        BY DEF Recent
    <2>2. \A k \in 0 .. 2 : Recent(h, n, x)[k] = IF k = 0 THEN g ELSE recentGestures[k - 1]
        BY <1>12, <1>13, <1>14
    <2> QED
        BY <2>1, <2>2 DEF Abs!Remember, Abs!Back
<1> QED
    BY <1>4, <1>15 DEF g

\* The test of checkAndSwitchMode on the ring is the test of ModeSwitch on the
\* three gestures it stands for.
LEMMA SwitchTest ==
    ASSUME NEW hist \in [Slots -> Entry \cup {Nothing}],
           NEW index \in 0 .. SM_MAX_GESTURES, NEW exceeded \in BOOLEAN,
           \A i \in Slots : exceeded \/ i < index => hist[i] \in Entry
    PROVE  TwoTapsAndMore(hist, index, exceeded) <=> Abs!Triggers(Recent(hist, index, exceeded))
<1> USE RingAssumption
<1> DEFINE r == Recent(hist, index, exceeded)
<1>1. /\ Prev(index) \in Slots /\ Prev(Prev(index)) \in Slots
      /\ Prev(Prev(Prev(index))) \in Slots
    BY PrevIs DEF Slots
<1>2. CASE exceeded \/ index >= 3
    <2>1. /\ r[0] = hist[Prev(index)] /\ r[1] = hist[Prev(Prev(index))]
          /\ r[2] = hist[Prev(Prev(Prev(index)))]
        BY <1>2 DEF Recent, SlotBack
    <2>2. CASE exceeded
        <3>1. \A k \in 0 .. 2 : r[k] \in Entry
            <4>1. \A i \in Slots : hist[i] \in Entry
                BY <2>2
            <4>2. r[0] \in Entry /\ r[1] \in Entry /\ r[2] \in Entry
                BY <4>1, <2>1, <1>1
            <4> QED
                BY <4>2
        <3>2. \A k \in 0 .. 2 : r[k] # Nothing
            BY <3>1, NothingIsNoEntry
        <3> QED
            BY <2>1, <3>2, <1>2 DEF TwoTapsAndMore, Abs!Triggers, Abs!Back, Abs!Nothing, Nothing
    <2>3. CASE index >= 3
        <3>1. /\ Prev(index) < index /\ Prev(Prev(index)) < index
              /\ Prev(Prev(Prev(index))) < index
            BY <2>3, PrevIs DEF Slots
        <3>2. \A k \in 0 .. 2 : r[k] \in Entry
            BY <2>1, <3>1, <1>1
        <3>3. \A k \in 0 .. 2 : r[k] # Nothing
            BY <3>2, NothingIsNoEntry
        <3> QED
            BY <2>1, <3>3, <1>2 DEF TwoTapsAndMore, Abs!Triggers, Abs!Back, Abs!Nothing, Nothing
    <2> QED
        BY <1>2, <2>2, <2>3
<1>3. CASE ~(exceeded \/ index >= 3)
    <2>1. r[2] = Nothing
        BY <1>3 DEF Recent
    <2>2. ~Abs!Triggers(r)
        BY <2>1 DEF Abs!Triggers, Abs!Back, Abs!Nothing, Nothing
    <2> QED
        BY <1>3, <2>2 DEF TwoTapsAndMore
<1> QED
    BY <1>2, <1>3

-----------------------------------------------------------------------------
\* A frame keeps the inductive invariant and is a frame or a gesture of
\* ModeSwitch.
LEMMA FrameStep ==
    ASSUME IInv, NEW type \in GestureTypes \cup {"NONE"}, NEW waits \in {0, 1},
           StateMachine_process(type, waits),
           clock' = clock, unread' \in 0 .. ReplayFrames, last' = type, fromFile' \in BOOLEAN
    PROVE  IInv' /\ (Abs!Frame \/ Abs!Gesture)
<1> USE RingAssumption
<1> DEFINE r == gestureHistoryPush(type)
           h == r[1]
           n == r[2]
           x == r[3]
           switch == gCurMode # "NONE" /\ TwoTapsAndMore(h, n, x)
<1>1. /\ h \in [Slots -> Entry \cup {Nothing}]
      /\ n \in 0 .. SM_MAX_GESTURES
      /\ x \in BOOLEAN
      /\ x => n >= 1
      /\ \A i \in Slots : x \/ i < n => h[i] \in Entry
    BY PushKeepsRing
<1>2. /\ gHistory' = h /\ checkAndSwitchMode(h, n, x)
      /\ wait_double_tap_timeout' \in {0, 1}
    BY DEF StateMachine_process
<1>3. gCurMode \in Modes
    BY DEF IInv, TypeOK
<1>4. type = "NONE" => Recent(h, n, x) = recentGestures
    BY DEF gestureHistoryPush, recentGestures
<1>5. type # "NONE" => Recent(h, n, x) = Abs!Remember([type |-> type, fireTime |-> clock])
    BY PushRemembers
<1>6. TwoTapsAndMore(h, n, x) <=> Abs!Triggers(Recent(h, n, x))
    BY <1>1, SwitchTest
<1> HIDE DEF r, h, n, x
<1>7. /\ gCurMode' = IF switch THEN Toggle(gCurMode) ELSE gCurMode
      /\ gHistoryIndex' = IF switch THEN 0 ELSE n
      /\ bexceeded' = IF switch THEN FALSE ELSE x
    BY <1>2 DEF checkAndSwitchMode
<1>8. recentGestures' = Recent(gHistory', gHistoryIndex', bexceeded')
    BY DEF recentGestures
<1>9. /\ gCurMode' \in Modes
      /\ switch => gCurMode' = Abs!Toggled(gCurMode)
    BY <1>3, <1>7 DEF Modes, Toggle, Abs!Toggled
<1>10. IInv'
    <2>1. gHistoryIndex' \in 0 .. SM_MAX_GESTURES
        BY <1>1, <1>7
    <2>2. bexceeded' \in BOOLEAN
        BY <1>1, <1>7
    <2>3. clock' \in Times /\ last' \in GestureTypes \cup {"NONE"}
        BY DEF IInv, TypeOK
    <2>7. held' \subseteq Keys
        <3>1. event_send_gesture(Mask(gCurMode', type)) /\ held \subseteq Keys
            BY DEF StateMachine_process, IInv, TypeOK
        <3> QED
            BY <3>1, <1>9, MaskIs, HeldKeys
    <2>4. TypeOK'
        BY <2>1, <2>2, <2>3, <2>7, <1>1, <1>2, <1>9 DEF TypeOK
    <2>5. CASE switch
        <3>1. gHistoryIndex' = 0 /\ ~bexceeded'
            BY <2>5, <1>7
        <3>2. UsedSlots'
            BY <3>1 DEF UsedSlots, Slots
        <3> QED
            BY <3>2, <2>4 DEF IInv
    <2>6. CASE ~switch
        <3>1. gHistory' = h /\ gHistoryIndex' = n /\ bexceeded' = x
            BY <2>6, <1>2, <1>7
        <3>2. UsedSlots'
            BY <3>1, <1>1 DEF UsedSlots
        <3> QED
            BY <3>2, <2>4 DEF IInv
    <2> QED
        BY <2>5, <2>6
<1>11. Abs!Decide(Recent(h, n, x))
    <2>1. CASE switch
        <3>1. gHistoryIndex' = 0 /\ ~bexceeded'
            BY <2>1, <1>7
        <3>2. recentGestures' = [k \in 0 .. 2 |-> Nothing]
            BY <3>1, <1>8 DEF Recent
        <3> QED
            BY <2>1, <3>2, <1>6, <1>9
            DEF Abs!Decide, Abs!Forgotten, Abs!Back, Abs!Nothing, Nothing
    <2>2. CASE ~switch
        <3>1. gHistory' = h /\ gHistoryIndex' = n /\ bexceeded' = x
              /\ gCurMode' = gCurMode
            BY <2>2, <1>2, <1>7
        <3>2. recentGestures' = Recent(h, n, x)
            BY <3>1, <1>8
        <3> QED
            BY <2>2, <3>1, <3>2, <1>6 DEF Abs!Decide
    <2> QED
        BY <2>1, <2>2
<1>12. CASE type = "NONE"
    BY <1>12, <1>4, <1>10, <1>11 DEF Abs!Frame
<1>13. CASE type # "NONE"
    <2>1. [type |-> type, fireTime |-> clock] \in Abs!Entry
        BY <1>13 DEF Abs!Entry, IInv, TypeOK
    <2> QED
        BY <2>1, <1>13, <1>5, <1>10, <1>11 DEF Abs!Gesture
<1> QED
    BY <1>12, <1>13

\* Every step keeps the inductive invariant and is a step of ModeSwitch, or
\* leaves the mode and the remembered gestures alone.
LEMMA Step == IInv /\ [Next]_vars => IInv' /\ [Abs!Next]_<<gCurMode, recentGestures>>
<1> SUFFICES ASSUME IInv, [Next]_vars
             PROVE  IInv' /\ [Abs!Next]_<<gCurMode, recentGestures>>
    OBVIOUS
<1> USE RingAssumption, TimeAssumption, GestureAssumption
<1>1. CASE ReplayFrame
    <2>1. PICK type \in GestureTypes \cup {"NONE"} :
              /\ unread > 0
              /\ StateMachine_process(type, wait_double_tap_timeout)
              /\ unread' = unread - 1 /\ last' = type /\ clock' = clock /\ fromFile' \in BOOLEAN
        BY <1>1 DEF ReplayFrame
    <2>2. wait_double_tap_timeout \in {0, 1} /\ unread' \in 0 .. ReplayFrames
        BY <2>1 DEF IInv, TypeOK
    <2> QED
        BY <2>1, <2>2, FrameStep DEF Abs!Next
<1>2. CASE DeviceFrame
    <2>1. PICK type \in GestureTypes \cup {"NONE"} :
              /\ StateMachine_process(type, 0)
              /\ unread' = unread /\ last' = type /\ clock' = clock /\ fromFile' \in BOOLEAN
        BY <1>2 DEF DeviceFrame
    <2>2. unread' \in 0 .. ReplayFrames
        BY <2>1 DEF IInv, TypeOK
    <2> QED
        BY <2>1, <2>2, FrameStep DEF Abs!Next
<1>3. ASSUME UNCHANGED ring, UNCHANGED unread, UNCHANGED last, UNCHANGED fromFile,
             gCurMode' \in Modes, wait_double_tap_timeout' \in {0, 1}, clock' \in Times,
             held' \subseteq Keys
      PROVE  IInv' /\ recentGestures' = recentGestures
    <2>1. gHistory' = gHistory /\ gHistoryIndex' = gHistoryIndex /\ bexceeded' = bexceeded
          /\ unread' = unread /\ last' = last /\ fromFile' = fromFile
        BY <1>3 DEF ring
    <2>2. TypeOK'
        BY <1>3, <2>1 DEF IInv, TypeOK
    <2> QED
        BY <2>1, <2>2 DEF IInv, UsedSlots, recentGestures
<1>4. TypeOK
    BY DEF IInv
<1>5. CASE RejectedRead \/ DoubleTapTimeout
    <2>1. /\ UNCHANGED <<ring, gCurMode, unread, clock, last, fromFile>>
          /\ wait_double_tap_timeout' = 0
        BY <1>5 DEF RejectedRead, DoubleTapTimeout
    <2>2. held' \subseteq Keys
        <3>1. CASE RejectedRead
            BY <3>1, <1>4 DEF RejectedRead, TypeOK
        <3>2. CASE DoubleTapTimeout
            <4>1. event_send_gesture("DOUBLE_TAP") /\ held \subseteq Keys
                BY <3>2, <1>4 DEF DoubleTapTimeout, TypeOK
            <4>2. "DOUBLE_TAP" \in DOMAIN Key
                BY DEF Key
            <4> QED
                BY <4>1, <4>2, HeldKeys
        <3> QED
            BY <1>5, <3>1, <3>2
    <2> QED
        BY <2>1, <2>2, <1>3, <1>4 DEF TypeOK
<1>6. CASE SwtichToNewMode
    <2>1. /\ gCurMode' \in Modes
          /\ UNCHANGED <<ring, wait_double_tap_timeout, held, unread, clock, last, fromFile>>
        BY <1>6 DEF SwtichToNewMode
    <2>2. IInv' /\ recentGestures' = recentGestures
        BY <2>1, <1>3, <1>4 DEF TypeOK
    <2> QED
        BY <2>1, <2>2 DEF Abs!Next, Abs!SetMode, Abs!Modes, Modes
<1>7. CASE Tick
    <2>1. /\ clock' = clock + 1 /\ clock < MaxClock
          /\ UNCHANGED <<ring, gCurMode, wait_double_tap_timeout, held, unread, last, fromFile>>
        BY <1>7 DEF Tick
    <2>2. clock' \in Times
        BY <2>1, <1>4 DEF TypeOK, Times
    <2> QED
        BY <2>1, <2>2, <1>3, <1>4 DEF TypeOK
<1>8. CASE UNCHANGED vars
    <2>1. UNCHANGED <<ring, gCurMode, wait_double_tap_timeout, held, unread, last, fromFile, clock>>
        BY <1>8 DEF vars
    <2> QED
        BY <2>1, <1>3, <1>4 DEF TypeOK
<1> QED
    BY <1>1, <1>2, <1>5, <1>6, <1>7, <1>8 DEF Next

\* The initial state of the ring stands for no gesture.
LEMMA InitAbs == Init => Abs!Init
<1> SUFFICES ASSUME Init PROVE Abs!Init
    OBVIOUS
<1>1. gHistoryIndex = 0 /\ ~bexceeded /\ gCurMode = "NORMAL"
    BY DEF Init
<1>2. recentGestures = [k \in 0 .. 2 |-> Nothing]
    BY <1>1 DEF recentGestures, Recent
<1> QED
    BY <1>1, <1>2 DEF Abs!Init, Abs!Forgotten, Abs!Back, Abs!Nothing, Nothing

-----------------------------------------------------------------------------
\* The ring index, the mode and every slot keep their types: no push leaves
\* the buffer (statemachine.c:66-86).
THEOREM TypeCorrect == Spec => []TypeOK
<1>1. IInv => TypeOK
    BY DEF IInv
<1> QED
    BY <1>1, InitIInv, Step, PTL DEF Spec

\* The ring buffer implements the memory of three gestures, for every size of
\* the ring from three on (statemachine.c:66-217).
THEOREM Refinement == Spec => RefinesModeSwitch
BY InitIInv, InitAbs, Step, PTL DEF Spec, RefinesModeSwitch, Abs!Spec

-----------------------------------------------------------------------------
\* What a frame leaves in the ring, the mode and the waiting click; the
\* invariant is inductive because every other step leaves the ring alone and
\* starts no wait.
LEMMA WaitingStep ==
    WaitingClickIsDoubleTap /\ [Next]_vars => WaitingClickIsDoubleTap'
<1> SUFFICES ASSUME WaitingClickIsDoubleTap, [Next]_vars
             PROVE  WaitingClickIsDoubleTap'
    OBVIOUS
<1>1. CASE ReplayFrame
    BY <1>1 DEF ReplayFrame, WaitingClickIsDoubleTap
<1>2. CASE DeviceFrame
    <2>1. PICK type \in GestureTypes \cup {"NONE"} : StateMachine_process(type, 0)
        BY <1>2 DEF DeviceFrame
    <2>2. wait_double_tap_timeout' = 1
            => IsDoubleTap(gHistory', gHistoryIndex', bexceeded')
        BY <2>1 DEF StateMachine_process
    <2> QED
        BY <2>2 DEF WaitingClickIsDoubleTap
<1>3. CASE RejectedRead \/ DoubleTapTimeout
    BY <1>3 DEF RejectedRead, DoubleTapTimeout, WaitingClickIsDoubleTap
<1>4. CASE SwtichToNewMode \/ Tick \/ UNCHANGED vars
    <2>1. UNCHANGED <<gHistory, gHistoryIndex, bexceeded, wait_double_tap_timeout, fromFile>>
        BY <1>4 DEF SwtichToNewMode, Tick, vars, ring
    <2> QED
        BY <2>1 DEF WaitingClickIsDoubleTap
<1> QED
    BY <1>1, <1>2, <1>3, <1>4 DEF Next

\* A click that waits stands for two taps within the window with no gesture
\* after them, for every ring, window and number of gestures
\* (event_handler.c:389-406, statemachine.c:110-149).
THEOREM WaitingClickCorrect == Spec => []WaitingClickIsDoubleTap
<1>1. Init => WaitingClickIsDoubleTap
    BY DEF Init, WaitingClickIsDoubleTap
<1> QED
    BY <1>1, WaitingStep, PTL DEF Spec

=============================================================================
