------------------------------ MODULE CoTrends ------------------------------
(***************************************************************************)
(* The up-down features that centroidFilterHistory() of recognizer.c takes *)
(* from a contact.  A first loop counts the frames in which the centroid   *)
(* and the tip of the finger move up, down, hardly at all, or in opposite  *)
(* directions, and leaves the counts so far at each frame.  A second finds *)
(* where each trend has come to half of its frames and numbers the trends  *)
(* in that order.                                                          *)
(***************************************************************************)
EXTENDS Integers, Sequences, FiniteSetsExt

CONSTANTS
    slopeCoTrend,  \* recognizer.c:668
    MaxCounted     \* bound: frames of a contact

ASSUME TrendAssumption == slopeCoTrend \in Nat /\ MaxCounted \in Nat

\* How far the centroid and the tip of the finger move in a frame: both ways,
\* not at all, and on both sides of the slope
dYs == -1 .. 1
dYtips == {d * m : d \in {-1, 1}, m \in {0, slopeCoTrend, slopeCoTrend + 1}}

VARIABLES
    kinds,     \* history: the kind of frames 1, 2, ...
    pad,       \* the counts in gcentroidScratchPad, from frame 0 on
    scanned,   \* the frames that the second loop has passed
    slots      \* code: upSlotCode, noneSlotCode and downSlotCode; next: nextSlot

trendVars == <<kinds, pad, scanned, slots>>

Trends == {"UP", "NONE", "DOWN"}
Kinds == Trends \cup {"OPPOS"}
counted == Len(pad)         \* gcentroidHistoryIndex
Counts(i) == pad[i + 1]     \* gcentroidScratchPad[i]
Last == Counts(counted - 1)

TrendInit ==
    /\ kinds = <<>>
    /\ pad = <<[k \in Kinds |-> 0]>>
    /\ scanned = 0
    /\ slots = [code |-> [t \in Trends |-> 0], next |-> 1]

-----------------------------------------------------------------------------
\* dY * dYTip > 0
SameWay(dY, dYTip) == (dY > 0 /\ dYTip > 0) \/ (dY < 0 /\ dYTip < 0)

Kind(dY, dYTip) ==
    IF SameWay(dY, dYTip)
    THEN IF dYTip > slopeCoTrend THEN "UP"
         ELSE IF dYTip < -slopeCoTrend THEN "DOWN" ELSE "NONE"
    ELSE "OPPOS"

\* Mutant: the counts of the other trends are not carried on.
CountForgets(k) == [[j \in Kinds |-> 0] EXCEPT ![k] = Last[k] + 1]

\* The counts of the frame before, and one more of this kind
Count(k) == [Last EXCEPT ![k] = @ + 1]

TrendFrame(dY, dYTip) ==
    /\ scanned = 0 /\ counted < MaxCounted
    /\ kinds' = Append(kinds, Kind(dY, dYTip))
    /\ pad' = Append(pad, Count(Kind(dY, dYTip)))
    /\ UNCHANGED <<scanned, slots>>

-----------------------------------------------------------------------------
Mark(t) == Last[t] \div 2

\* Mutant: a trend with an empty half is numbered, too.
MarkedAlways(t, i) == Counts(i)[t] >= Mark(t)

Marked(t, i) == Counts(i)[t] >= Mark(t) /\ Mark(t) > 1

\* The test of one trend: the first frame at its mark gives it the next slot
Number(s, t, i) ==
    IF Marked(t, i) /\ s.code[t] = 0
    THEN [code |-> [s.code EXCEPT ![t] = s.next], next |-> s.next + 1]
    ELSE s

\* The second loop at frame i, with the trends in the order of the code
Pass(s, i) == Number(Number(Number(s, "UP", i), "NONE", i), "DOWN", i)

\* The finger has lifted, and the second loop goes on by a frame.
Scan ==
    /\ counted >= 3 /\ scanned < counted - 1
    /\ scanned' = scanned + 1
    /\ slots' = Pass(slots, scanned + 1)
    /\ UNCHANGED <<kinds, pad>>

TrendNext == (\E dY \in dYs, dYTip \in dYtips : TrendFrame(dY, dYTip)) \/ Scan

TrendSpec == TrendInit /\ [][TrendNext]_trendVars

-----------------------------------------------------------------------------
\* What the loops are meant to compute, from the kinds of the frames alone
Many(k, i) == Cardinality({j \in 1 .. i : kinds[j] = k})
Half(t) == Many(t, Len(kinds)) \div 2
Where(t) == Min({i \in 1 .. Len(kinds) : Many(t, i) >= Half(t)})
Order == [UP |-> 1, NONE |-> 2, DOWN |-> 3]
Long == {t \in Trends : Many(t, Len(kinds)) >= 4}
Before(t, u) == Where(t) < Where(u) \/ (Where(t) = Where(u) /\ Order[t] < Order[u])

\* Every frame counts for exactly one kind, and the counts left at a frame are
\* those of the contact up to it (recognizer.c:678-709).
CountsPartition ==
    \A i \in 0 .. counted - 1 :
        /\ \A k \in Kinds : Counts(i)[k] = Many(k, i)
        /\ Counts(i)["UP"] + Counts(i)["NONE"] + Counts(i)["DOWN"] + Counts(i)["OPPOS"] = i

\* The trends of at least four frames, and no others, are numbered from 1
\* without a gap, in the order in which they have come half of their way, and
\* each at the frame where it has (recognizer.c:712-732).
SlotsInOrder ==
    \A t \in Trends :
        slots.code[t] = IF t \in Long /\ Where(t) <= scanned
                        THEN 1 + Cardinality({u \in Long : Before(u, t)})
                        ELSE 0
=============================================================================
