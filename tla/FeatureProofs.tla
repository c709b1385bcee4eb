---------------------------- MODULE FeatureProofs ----------------------------
(***************************************************************************)
(* Proofs about the loops of centroidFilterHistory() that find the         *)
(* features of a contact.  StrokeRuns: for contacts of every length, steps *)
(* of every size and every size of the window, the longest run and the     *)
(* first of the fastest windows are found.  CoTrends: for every slope and  *)
(* every length of a contact the counts are those of the frames, and the   *)
(* trends are numbered in the order in which they come half of their way.  *)
(***************************************************************************)
EXTENDS StrokeRuns, CoTrends, FiniteSetTheorems, TLAPS

-----------------------------------------------------------------------------
(* StrokeRuns: what its variables are *)

Side == [max: Int, idx: Nat, cnt: Nat]
None == [max |-> 0, idx |-> 0, cnt |-> 0]

VariablesOK ==
    /\ X \in Seq(Int) /\ n >= 1
    /\ runDistance \in Int /\ runDirection \in {-1, 0, 1} /\ runTime \in Nat
    /\ right \in Side /\ left \in Side
    /\ slid \in Nat /\ maxWindow \in Int

-----------------------------------------------------------------------------
(* The invariant of the loop over the runs *)

\* Where the run at hand has started
First == n - runTime

\* Steps a to e go one way or stand still.
Straight(a, e) == \A k \in a .. e : ~Against(a, k)

\* A run from a that a step back has ended after e
Closed(a, e) == e \in a .. n - 2 /\ Straight(a, e) /\ Against(a, e + 1)

RunAtHand ==
    IF runDirection = 0
    THEN (\A k \in Frames : dX(k) = 0) /\ runDistance = 0 /\ runTime = 0
    ELSE /\ runTime \in 1 .. n - 1
         /\ First \in Starts /\ Straight(First, n - 1)
         /\ runDistance = X[n] - X[First]
         /\ IF runDirection > 0 THEN dX(First) > 0 /\ runDistance > 0
                                ELSE dX(First) < 0 /\ runDistance < 0

\* The start of the run that a side keeps
From(side) == side.idx - side.cnt + 1

\* A run from b over d is no longer than the one kept of its side, and no later
\* if it is as long.
Bounded(b, d) ==
    \/ dX(b) > 0 /\ d > 0 /\ d <= right.max /\ (d = right.max => b <= From(right))
    \/ dX(b) < 0 /\ d < 0 /\ d >= left.max /\ (d = left.max => b <= From(left))

PastRuns ==
    \A b \in Starts : b < First => \E e \in b .. n - 2 : Closed(b, e) /\ Bounded(b, X[e + 1] - X[b])

\* A side keeps nothing, or a run that has ended.
Kept(side, b) ==
    /\ b \in Starts /\ b < First /\ Closed(b, side.idx)
    /\ side.max = X[side.idx + 1] - X[b] /\ side.cnt = side.idx - b + 1
KeptRight == right = None \/ \E b \in Starts : Kept(right, b) /\ dX(b) > 0 /\ right.max > 0
KeptLeft == left = None \/ \E b \in Starts : Kept(left, b) /\ dX(b) < 0 /\ left.max < 0

RunInv == RunAtHand /\ PastRuns /\ KeptRight /\ KeptLeft

-----------------------------------------------------------------------------
(* The invariant of the loop over the windows *)

Leads(i) == \A j \in 2 .. i - 1 : Magnitude(Window(j)) < Magnitude(Window(i))

SlideOK ==
    /\ slid >= 1 /\ (slid > 1 => slid \in Windows)
    /\ \A j \in 2 .. slid : Magnitude(Window(j)) <= Magnitude(maxWindow)
    /\ maxWindow = 0 \/ \E i \in 2 .. slid : maxWindow = Window(i) /\ Leads(i)

IInv ==
    /\ VariablesOK
    /\ features = Unset => RunInv
    /\ SlideOK
    /\ LongestRun
    /\ FastestWindow

-----------------------------------------------------------------------------
(* What a further frame leaves as it is *)

LEMMA FrameKeeps ==
    ASSUME VariablesOK, NEW d \in Int, X' = Append(X, X[n] + d),
           NEW N \in Nat, N = n
    PROVE  /\ N >= 1 /\ n' = N + 1 /\ X' \in Seq(Int)
           /\ \A i \in 1 .. N : X'[i] = X[i] /\ X[i] \in Int
           /\ X'[N + 1] = X[N] + d
           /\ \A i \in 1 .. N - 1 : dX(i)' = dX(i) /\ dX(i) \in Int
           /\ dX(N)' = d
<1>1. X \in Seq(Int) /\ Len(X) = N /\ N >= 1
  BY DEF VariablesOK, n
<1>2. X[N] + d \in Int
  BY <1>1
<1> DEFINE x == X[N] + d
<1>3. X' = Append(X, x)
  BY <1>1 DEF n
<1> HIDE DEF x
<1>4. /\ X' \in Seq(Int) /\ Len(X') = N + 1
      /\ \A i \in 1 .. N : X'[i] = X[i] /\ X[i] \in Int
      /\ X'[N + 1] = x
  BY <1>1, <1>2, <1>3 DEF x
<1>5. \A i \in 1 .. N - 1 : dX(i)' = dX(i) /\ dX(i) \in Int
  BY <1>1, <1>4 DEF dX
<1>6. dX(N)' = d
  BY <1>1, <1>4 DEF dX, x
<1> QED
  BY <1>1, <1>4, <1>5, <1>6 DEF n, x

LEMMA PastKeeps ==
    ASSUME VariablesOK, NEW d \in Int, X' = Append(X, X[n] + d),
           NEW N \in Nat, N = n
    PROVE  /\ \A a, k \in 1 .. N - 1 : Against(a, k)' <=> Against(a, k)
           /\ \A a \in 1 .. N - 1 : a \in Starts' <=> a \in Starts
           /\ \A a \in 1 .. N - 1, e \in 1 .. N - 1 : Straight(a, e) => Straight(a, e)'
           /\ \A a \in 1 .. N - 1 : \A e : Closed(a, e) => Closed(a, e)'
<1>1. /\ N >= 1 /\ n' = N + 1
      /\ \A i \in 1 .. N - 1 : dX(i)' = dX(i) /\ dX(i) \in Int
  BY FrameKeeps
<1>2. ASSUME NEW a \in 1 .. N - 1, NEW k \in 1 .. N - 1
      PROVE  (Against(a, k)' <=> Against(a, k)) /\ (Along(a, k)' <=> Along(a, k))
  BY <1>1 DEF Against, Along
<1>3. ASSUME NEW a \in 1 .. N - 1
      PROVE  a \in Starts' <=> a \in Starts
  <2>1. a \in Frames /\ a \in Frames'
    BY <1>1 DEF Frames
  <2>2. (dX(a) # 0)' <=> dX(a) # 0
    BY <1>1
  <2>3. \A k \in 1 .. a - 1 : Along(k, a)' <=> Along(k, a)
    BY <1>2
  <2>4. \A k \in 1 .. a - 1 : \A m \in k + 1 .. a - 1 : Against(m, a)' <=> Against(m, a)
    BY <1>2
  <2> QED
    BY <2>1, <2>2, <2>3, <2>4 DEF Starts
<1>4. ASSUME NEW a \in 1 .. N - 1, NEW e \in 1 .. N - 1, Straight(a, e)
      PROVE  Straight(a, e)'
  BY <1>2, <1>4 DEF Straight
<1>5. ASSUME NEW a \in 1 .. N - 1, NEW e, Closed(a, e)
      PROVE  Closed(a, e)'
  <2>1. e \in a .. N - 2 /\ Straight(a, e) /\ Against(a, e + 1)
    BY <1>5 DEF Closed
  <2>2. Straight(a, e)' /\ Against(a, e + 1)'
    BY <1>2, <1>4, <2>1
  <2> QED
    BY <1>1, <2>1, <2>2 DEF Closed
<1> QED
  BY <1>2, <1>3, <1>4, <1>5

\* The runs that have ended stay what they are, when the run at hand does not
\* start before it did and what the sides keep does not get shorter.
LEMMA KeptKeeps ==
    ASSUME VariablesOK, NEW d \in Int, X' = Append(X, X[n] + d),
           NEW N \in Nat, N = n, First \in Nat, First <= N, First' \in Nat, First <= First'
    PROVE  /\ KeptRight /\ right' = right => KeptRight'
           /\ KeptLeft /\ left' = left => KeptLeft'
<1>1. /\ N >= 1 /\ n' = N + 1
      /\ \A i \in 1 .. N : X'[i] = X[i] /\ X[i] \in Int
      /\ \A i \in 1 .. N - 1 : dX(i)' = dX(i) /\ dX(i) \in Int
  BY FrameKeeps
<1>2. \A b \in Starts : b \in 1 .. N - 1
  BY DEF Starts, Frames
<1>3. \A b \in Starts : b \in Starts' /\ dX(b)' = dX(b)
  BY <1>1, <1>2, PastKeeps
<1>4. ASSUME NEW b \in Starts, Kept(right, b), right' = right PROVE Kept(right, b)'
  <2>1. right.idx \in b .. N - 2 /\ Closed(b, right.idx)
    BY <1>4 DEF Kept, Closed
  <2>2. Closed(b, right.idx)'
    BY <1>2, <1>4, <2>1, PastKeeps
  <2>3. b \in Starts' /\ b < First'
    BY <1>2, <1>3, <1>4 DEF Kept
  <2>4. X'[right.idx + 1] = X[right.idx + 1] /\ X'[b] = X[b]
    <3>1. right.idx + 1 \in 1 .. N /\ b \in 1 .. N
      BY <1>2, <2>1
    <3> QED
      BY <1>1, <3>1
  <2>5. right.max = X[right.idx + 1] - X[b] /\ right.cnt = right.idx - b + 1
    BY <1>4 DEF Kept
  <2> QED
    BY <1>4, <2>2, <2>3, <2>4, <2>5 DEF Kept
<1>5. ASSUME NEW b \in Starts, Kept(left, b), left' = left PROVE Kept(left, b)'
  <2>1. left.idx \in b .. N - 2 /\ Closed(b, left.idx)
    BY <1>5 DEF Kept, Closed
  <2>2. Closed(b, left.idx)'
    BY <1>2, <1>5, <2>1, PastKeeps
  <2>3. b \in Starts' /\ b < First'
    BY <1>2, <1>3, <1>5 DEF Kept
  <2>4. X'[left.idx + 1] = X[left.idx + 1] /\ X'[b] = X[b]
    <3>1. left.idx + 1 \in 1 .. N /\ b \in 1 .. N
      BY <1>2, <2>1
    <3> QED
      BY <1>1, <3>1
  <2>5. left.max = X[left.idx + 1] - X[b] /\ left.cnt = left.idx - b + 1
    BY <1>5 DEF Kept
  <2> QED
    BY <1>5, <2>2, <2>3, <2>4, <2>5 DEF Kept
<1>6. KeptRight /\ right' = right => KeptRight'
  BY <1>3, <1>4 DEF KeptRight
<1>7. KeptLeft /\ left' = left => KeptLeft'
  BY <1>3, <1>5 DEF KeptLeft
<1> QED
  BY <1>6, <1>7

\* A run at hand starts at a frame, and what it covers is known.
LEMMA AtHand ==
    ASSUME VariablesOK, RunAtHand, runDirection # 0, NEW N \in Nat, N = n
    PROVE  /\ First \in 1 .. N - 1 /\ runTime = N - First /\ First \in Starts
           /\ Straight(First, N - 1) /\ runDistance = X[N] - X[First]
           /\ runDirection > 0 => dX(First) > 0 /\ runDistance > 0
           /\ runDirection < 0 => dX(First) < 0 /\ runDistance < 0
<1>1. runTime \in 1 .. N - 1 /\ First \in Starts /\ Straight(First, N - 1)
      /\ runDistance = X[N] - X[First]
  BY DEF RunAtHand
<1>2. First = N - runTime /\ First \in 1 .. N - 1 /\ runTime = N - First
  BY <1>1 DEF First
<1>3. /\ runDirection > 0 => dX(First) > 0 /\ runDistance > 0
      /\ runDirection < 0 => dX(First) < 0 /\ runDistance < 0
  BY DEF RunAtHand, VariablesOK
<1> QED
  BY <1>1, <1>2, <1>3

LEMMA ProlongInv ==
    ASSUME VariablesOK, RunInv, NEW d \in Int, X' = Append(X, X[n] + d), Prolong(d)
    PROVE  RunInv'
<1>1. PICK N \in Nat : N = n
  BY DEF VariablesOK, n
<1>2. /\ N >= 1 /\ n' = N + 1
      /\ \A i \in 1 .. N : X'[i] = X[i] /\ X[i] \in Int
      /\ X'[N + 1] = X[N] + d
      /\ \A i \in 1 .. N - 1 : dX(i)' = dX(i) /\ dX(i) \in Int
      /\ dX(N)' = d
  BY <1>1, FrameKeeps
<1>3. /\ runDirection # 0 /\ ~Back(d) /\ runDirection' = runDirection
      /\ runDistance' = runDistance + d /\ runTime' = runTime + 1
      /\ right' = right /\ left' = left
  BY DEF Prolong, sides
<1>4. PICK f \in 1 .. N - 1 : f = First
  BY <1>1, <1>3, AtHand DEF RunInv
<1>5. /\ runTime = N - f /\ f \in Starts /\ Straight(f, N - 1)
      /\ runDistance = X[N] - X[f]
      /\ runDirection > 0 => dX(f) > 0 /\ runDistance > 0
      /\ runDirection < 0 => dX(f) < 0 /\ runDistance < 0
  BY <1>1, <1>3, <1>4, AtHand DEF RunInv
<1>6. First' = f /\ runTime' \in 1 .. N
  BY <1>2, <1>3, <1>5 DEF First
<1>7. f \in Starts' /\ Straight(f, N - 1)'
  BY <1>1, <1>5, PastKeeps
<1>8. dX(f)' = dX(f) /\ dX(f) \in Int
  BY <1>2
<1>9. (runDirection > 0 /\ d >= 0) \/ (runDirection < 0 /\ d <= 0)
  BY <1>3 DEF Back, VariablesOK
<1>10. Straight(f, N)'
  <2>1. ~Against(f, N)'
    <3>1. dX(N)' = d
      BY <1>2
    <3>2. runDirection > 0 => dX(f)' > 0
      BY <1>5, <1>8
    <3>3. runDirection < 0 => dX(f)' < 0
      BY <1>5, <1>8
    <3> QED
      BY <1>8, <1>9, <3>1, <3>2, <3>3 DEF Against
  <2>2. ASSUME NEW k \in f .. N PROVE ~Against(f, k)'
    <3>1. k \in f .. N - 1 \/ k = N
      OBVIOUS
    <3> QED
      BY <1>7, <2>1, <3>1 DEF Straight
  <2> QED
    BY <2>2 DEF Straight
<1>11. runDistance' = X'[N + 1] - X'[f]
  <2>1. f \in 1 .. N /\ N \in 1 .. N
    BY <1>2
  <2>2. X'[f] = X[f] /\ X[f] \in Int /\ X[N] \in Int
    BY <1>2, <2>1
  <2>3. (X[N] - X[f]) + d = (X[N] + d) - X[f]
    BY <2>2
  <2> QED
    BY <1>2, <1>3, <1>5, <2>2, <2>3
<1>12. RunAtHand'
  <2>1. runDirection' # 0 /\ runTime' \in 1 .. n' - 1 /\ runDistance' = X'[n'] - X'[f]
    <3>1. n' = N + 1 /\ n' - 1 = N
      BY <1>2
    <3> QED
      BY <1>3, <1>6, <1>11, <3>1
  <2>2. Straight(f, n - 1)'
    BY <1>2, <1>10 DEF Straight
  <2>3. IF runDirection' > 0 THEN dX(f)' > 0 /\ runDistance' > 0
                             ELSE dX(f)' < 0 /\ runDistance' < 0
    BY <1>3, <1>5, <1>8, <1>9 DEF VariablesOK
  <2> QED
    BY <1>6, <1>7, <2>1, <2>2, <2>3 DEF RunAtHand, Straight
<1>13. PastRuns'
  <2> SUFFICES ASSUME NEW b \in Starts', b < First'
               PROVE  \E e \in b .. n' - 2 : Closed(b, e)' /\ Bounded(b, X[e + 1] - X[b])'
    BY DEF PastRuns
  <2>1. b \in 1 .. N - 1 /\ b < f
    BY <1>2, <1>6 DEF Starts, Frames
  <2>2. b \in Starts
    BY <1>1, <2>1, PastKeeps
  <2>3. PICK e \in b .. N - 2 : Closed(b, e) /\ Bounded(b, X[e + 1] - X[b])
    BY <1>1, <1>4, <2>1, <2>2 DEF RunInv, PastRuns
  <2>4. Closed(b, e)'
    BY <1>1, <2>1, <2>3, PastKeeps
  <2>5. X'[e + 1] = X[e + 1] /\ X'[b] = X[b] /\ dX(b)' = dX(b)
    <3>1. e + 1 \in 1 .. N /\ b \in 1 .. N
      BY <2>1, <2>3
    <3> QED
      BY <1>2, <2>1, <3>1
  <2>6. Bounded(b, X[e + 1] - X[b])'
    BY <1>3, <2>3, <2>5 DEF Bounded, From
  <2>7. e \in b .. n' - 2
    BY <1>2, <2>3
  <2> QED
    BY <2>4, <2>6, <2>7
<1>14. KeptRight' /\ KeptLeft'
  BY <1>1, <1>3, <1>4, <1>6, KeptKeeps DEF RunInv
<1> QED
  BY <1>12, <1>13, <1>14 DEF RunInv

\* A run starts at the new frame if no earlier frame goes the same way, or the
\* run at hand goes the other.
LEMMA NewStart ==
    ASSUME VariablesOK, NEW d \in Int, d # 0, X' = Append(X, X[n] + d), NEW N \in Nat, N = n,
           \A k \in 1 .. N - 1 : Along(k, N)' => \E m \in k + 1 .. N - 1 : Against(m, N)',
           NewRun(d)
    PROVE  RunAtHand' /\ First' = N
<1>1. /\ N >= 1 /\ n' = N + 1
      /\ \A i \in 1 .. N : X'[i] = X[i] /\ X[i] \in Int
      /\ X'[N + 1] = X[N] + d
      /\ dX(N)' = d
  BY FrameKeeps
<1>2. /\ runDistance' = d /\ runTime' = 1
      /\ runDirection' = IF d > 0 THEN 1 ELSE -1
  BY DEF NewRun
<1>3. First' = N
  BY <1>1, <1>2 DEF First
<1>4. N \in Starts'
  <2>1. N \in Frames'
    BY <1>1 DEF Frames
  <2>2. (dX(N) # 0)'
    BY <1>1
  <2> QED
    BY <2>1, <2>2 DEF Starts
<1>5. ~Against(N, N)'
  BY <1>1 DEF Against
<1>6. Straight(N, n - 1)'
  <2>1. \A k \in N .. n' - 1 : k = N
    BY <1>1
  <2> QED
    BY <1>5, <2>1 DEF Straight
<1>7. runDistance' = X'[n'] - X'[N]
  <2>1. N \in 1 .. N
    BY <1>1
  <2>2. X'[N] = X[N] /\ X[N] \in Int /\ X'[n'] = X[N] + d
    BY <1>1, <2>1
  <2>3. (X[N] + d) - X[N] = d
    BY <2>2
  <2> QED
    BY <1>2, <2>2, <2>3
<1>8. runDirection' # 0 /\ runTime' \in 1 .. n' - 1
  BY <1>1, <1>2
<1>9. IF runDirection' > 0 THEN dX(N)' > 0 /\ runDistance' > 0
                           ELSE dX(N)' < 0 /\ runDistance' < 0
  BY <1>1, <1>2
<1> QED
  BY <1>3, <1>4, <1>6, <1>7, <1>8, <1>9 DEF RunAtHand, Straight

\* No run starts within a straight part of the contact.
LEMMA NoneWithin ==
    ASSUME VariablesOK, NEW N \in Nat, N = n, NEW f \in 1 .. N - 1, f \in Starts,
           Straight(f, N - 1), NEW b \in Starts
    PROVE  b <= f
<1>1. b \in 1 .. N - 1 /\ dX(b) # 0 /\ dX(f) # 0
  BY DEF Starts, Frames
<1>2. \A i \in 1 .. N - 1 : dX(i) \in Int
  <2>1. \A i \in 1 .. N : X[i] \in Int
    BY DEF VariablesOK, n
  <2> QED
    BY <2>1 DEF dX
<1>3. ASSUME b > f PROVE FALSE
  <2>1. ~Against(f, b)
    BY <1>1, <1>3 DEF Straight
  <2>2. dX(b) \in Int /\ dX(f) \in Int
    BY <1>1, <1>2
  <2>3. Along(f, b)
    BY <1>1, <2>1, <2>2 DEF Along, Against
  <2>4. f \in 1 .. b - 1
    BY <1>1, <1>3
  <2>5. PICK m \in f + 1 .. b - 1 : Against(m, b)
    BY <2>3, <2>4 DEF Starts
  <2>6. m \in 1 .. N - 1 /\ m \in f .. N - 1
    BY <1>1
  <2>7. dX(m) \in Int
    BY <1>2, <2>6
  <2>8. Against(f, m)
    BY <2>2, <2>3, <2>5, <2>7 DEF Along, Against
  <2> QED
    BY <2>6, <2>8 DEF Straight
<1> QED
  BY <1>1, <1>3

LEMMA TurnInv ==
    ASSUME VariablesOK, RunInv, NEW d \in Int, X' = Append(X, X[n] + d), Turn(d)
    PROVE  RunInv'
<1>1. PICK N \in Nat : N = n
  BY DEF VariablesOK, n
<1>2. /\ N >= 1 /\ n' = N + 1
      /\ \A i \in 1 .. N : X'[i] = X[i] /\ X[i] \in Int
      /\ X'[N + 1] = X[N] + d
      /\ \A i \in 1 .. N - 1 : dX(i)' = dX(i) /\ dX(i) \in Int
      /\ dX(N)' = d
  BY <1>1, FrameKeeps
<1>3. Back(d) /\ NewRun(d) /\ runDirection # 0 /\ d # 0
  BY DEF Turn, Back
<1>4. PICK f \in 1 .. N - 1 : f = First
  BY <1>1, <1>3, AtHand DEF RunInv
<1>5. /\ runTime = N - f /\ f \in Starts /\ Straight(f, N - 1)
      /\ runDistance = X[N] - X[f]
      /\ runDirection > 0 => dX(f) > 0 /\ runDistance > 0
      /\ runDirection < 0 => dX(f) < 0 /\ runDistance < 0
  BY <1>1, <1>3, <1>4, AtHand DEF RunInv
<1>6. (runDirection > 0 /\ d < 0) \/ (runDirection < 0 /\ d > 0)
  BY <1>3 DEF Back, VariablesOK
<1>7. dX(f)' = dX(f) /\ dX(f) \in Int /\ f \in Starts' /\ Straight(f, N - 1)'
  <2>1. f \in Starts' /\ Straight(f, N - 1)'
    BY <1>1, <1>5, PastKeeps
  <2> QED
    BY <1>2, <2>1
<1>8. Against(f, N)'
  BY <1>2, <1>5, <1>6, <1>7 DEF Against
<1>9. ASSUME NEW k \in 1 .. N - 1, Along(k, N)'
      PROVE  \E m \in k + 1 .. N - 1 : Against(m, N)'
  <2>1. dX(k)' = dX(k) /\ dX(k) \in Int
    BY <1>2
  <2>2. Against(f, k)
    BY <1>2, <1>5, <1>6, <1>9, <2>1 DEF Along, Against
  <2>3. ~(k \in f .. N - 1)
    BY <1>5, <2>2 DEF Straight
  <2>4. f \in k + 1 .. N - 1
    BY <2>3
  <2> QED
    BY <1>8, <2>4
<1>10. RunAtHand' /\ First' = N
  BY <1>1, <1>3, <1>9, NewStart
<1>11. N - 1 \in 1 .. N - 1 /\ Closed(f, N - 1)'
  <2>1. N - 1 \in f .. n' - 2 /\ (N - 1) + 1 = N
    BY <1>2
  <2> QED
    BY <1>7, <1>8, <2>1 DEF Closed
<1>12. X'[N] - X'[f] = runDistance /\ runDistance \in Int
  <2>1. f \in 1 .. N /\ N \in 1 .. N
    BY <1>2
  <2>2. X'[f] = X[f] /\ X'[N] = X[N]
    BY <1>2, <2>1
  <2> QED
    BY <1>5, <2>2 DEF VariablesOK
<1>0. PICK ended : ended = [max |-> runDistance, idx |-> N - 1, cnt |-> runTime]
  OBVIOUS
<1>13. /\ right' = IF runDirection > 0 /\ runDistance >= right.max THEN ended ELSE right
       /\ left' = IF runDirection < 0 /\ runDistance <= left.max THEN ended ELSE left
  BY <1>0, <1>1 DEF Turn, Ended
<1>14. ended.max = runDistance /\ ended.idx = N - 1 /\ ended.cnt = N - f /\ From(ended) = f
  BY <1>0, <1>5 DEF From
<1>15. /\ right.max \in Int /\ right.idx \in Nat /\ right.cnt \in Nat
       /\ left.max \in Int /\ left.idx \in Nat /\ left.cnt \in Nat
  BY DEF VariablesOK, Side
<1>16. From(right) \in Int /\ From(left) \in Int
  BY <1>15 DEF From
<1>17. Kept(ended, f)'
  <2>1. Closed(f, N - 1)' /\ f \in Starts' /\ f < First'
    BY <1>7, <1>10, <1>11
  <2>2. (N - 1) + 1 = N /\ N - f = (N - 1) - f + 1
    BY <1>2
  <2>3. runDistance = X'[(N - 1) + 1] - X'[f]
    BY <1>12, <2>2
  <2> QED
    BY <1>14, <2>1, <2>2, <2>3 DEF Kept
<1>18. PastRuns'
  <2> SUFFICES ASSUME NEW b \in Starts', b < First'
               PROVE  \E e \in b .. n' - 2 : Closed(b, e)' /\ Bounded(b, X[e + 1] - X[b])'
    BY DEF PastRuns
  <2>1. b \in 1 .. N - 1
    BY <1>2, <1>10 DEF Starts, Frames
  <2>2. b \in Starts /\ dX(b)' = dX(b) /\ dX(b) \in Int
    <3>1. b \in Starts
      BY <1>1, <2>1, PastKeeps
    <3> QED
      BY <1>2, <2>1, <3>1
  <2>3. b <= f
    BY <1>1, <1>5, <2>2, NoneWithin
  <2>4. CASE b = f
    <3>1. N - 1 \in b .. n' - 2 /\ X'[(N - 1) + 1] - X'[b] = runDistance
      <4>1. N - 1 \in b .. n' - 2 /\ (N - 1) + 1 = N
        BY <1>2, <1>4, <2>4
      <4> QED
        BY <1>12, <2>4, <4>1
    <3>2. \/ dX(b)' > 0 /\ runDistance > 0 /\ runDistance <= right'.max
             /\ (runDistance = right'.max => b <= From(right'))
          \/ dX(b)' < 0 /\ runDistance < 0 /\ runDistance >= left'.max
             /\ (runDistance = left'.max => b <= From(left'))
      BY <1>5, <1>6, <1>12, <1>13, <1>14, <1>15, <2>2, <2>4, SMTT(40)
    <3> QED
      BY <1>11, <2>4, <3>1, <3>2 DEF Bounded, From
  <2>5. CASE b < f
    <3>1. PICK e \in b .. N - 2 : Closed(b, e) /\ Bounded(b, X[e + 1] - X[b])
      BY <1>1, <1>4, <2>2, <2>5 DEF RunInv, PastRuns
    <3>2. Closed(b, e)' /\ e \in b .. n' - 2
      <4>1. Closed(b, e)'
        BY <1>1, <2>1, <3>1, PastKeeps
      <4>2. e \in b .. n' - 2
        BY <1>2, <2>1, <3>1
      <4> QED
        BY <4>1, <4>2
    <3>3. X'[e + 1] = X[e + 1] /\ X'[b] = X[b] /\ X[e + 1] \in Int /\ X[b] \in Int
      <4>1. e + 1 \in 1 .. N /\ b \in 1 .. N
        BY <2>1, <3>1
      <4> QED
        BY <1>2, <4>1
    <3>4. PICK y \in Int : y = X[e + 1] - X[b]
      BY <3>3
    <3>5. \/ dX(b) > 0 /\ y > 0 /\ y <= right.max /\ (y = right.max => b <= From(right))
          \/ dX(b) < 0 /\ y < 0 /\ y >= left.max /\ (y = left.max => b <= From(left))
      BY <3>1, <3>4 DEF Bounded
    <3>6. \/ dX(b)' > 0 /\ y > 0 /\ y <= right'.max /\ (y = right'.max => b <= From(right'))
          \/ dX(b)' < 0 /\ y < 0 /\ y >= left'.max /\ (y = left'.max => b <= From(left'))
      <4>1. CASE right' = right /\ left' = left
        BY <2>2, <3>5, <4>1
      <4>2. CASE right' = ended /\ left' = left /\ runDistance >= right.max
        BY <1>12, <1>14, <1>15, <2>1, <2>2, <2>5, <3>5, <4>2, SMTT(40)
      <4>3. CASE right' = right /\ left' = ended /\ runDistance <= left.max
        BY <1>12, <1>14, <1>15, <2>1, <2>2, <2>5, <3>5, <4>3, SMTT(40)
      <4> QED
        BY <1>6, <1>13, <4>1, <4>2, <4>3 DEF VariablesOK
    <3>7. y = X'[e + 1] - X'[b]
      BY <3>3, <3>4
    <3> QED
      BY <3>2, <3>6, <3>7 DEF Bounded, From
  <2>6. b = f \/ b < f
    BY <1>4, <2>1, <2>3
  <2> QED
    BY <2>4, <2>5, <2>6
<1>19. KeptRight' /\ KeptLeft'
  <2>1. First' \in Nat /\ First <= First' /\ First \in Nat /\ First <= N
    BY <1>4, <1>10
  <2>2. KeptRight /\ KeptLeft
    BY DEF RunInv
  <2>3. right' = right => KeptRight'
    BY <1>1, <2>1, <2>2, KeptKeeps
  <2>4. left' = left => KeptLeft'
    BY <1>1, <2>1, <2>2, KeptKeeps
  <2>5. right' # right => KeptRight'
    <3> SUFFICES ASSUME right' # right PROVE KeptRight'
      OBVIOUS
    <3>1. right' = ended /\ runDirection > 0
      BY <1>13
    <3>2. Kept(right, f)'
      BY <1>17, <3>1 DEF Kept
    <3>3. dX(f)' > 0 /\ right'.max > 0
      BY <1>5, <1>7, <1>14, <3>1
    <3> QED
      BY <1>7, <3>2, <3>3 DEF KeptRight
  <2>6. left' # left => KeptLeft'
    <3> SUFFICES ASSUME left' # left PROVE KeptLeft'
      OBVIOUS
    <3>1. left' = ended /\ runDirection < 0
      BY <1>13
    <3>2. Kept(left, f)'
      BY <1>17, <3>1 DEF Kept
    <3>3. dX(f)' < 0 /\ left'.max < 0
      BY <1>5, <1>7, <1>14, <3>1
    <3> QED
      BY <1>7, <3>2, <3>3 DEF KeptLeft
  <2> QED
    BY <2>3, <2>4, <2>5, <2>6
<1> QED
  BY <1>10, <1>18, <1>19 DEF RunInv

LEMMA BeginInv ==
    ASSUME VariablesOK, RunInv, NEW d \in Int, X' = Append(X, X[n] + d), Begin(d)
    PROVE  RunInv'
<1>1. PICK N \in Nat : N = n
  BY DEF VariablesOK, n
<1>2. /\ N >= 1 /\ n' = N + 1
      /\ \A i \in 1 .. N - 1 : dX(i)' = dX(i) /\ dX(i) \in Int
      /\ dX(N)' = d
  BY <1>1, FrameKeeps
<1>3. runDirection = 0 /\ right' = right /\ left' = left
  BY DEF Begin, sides
<1>4. (\A k \in 1 .. N - 1 : dX(k) = 0) /\ runDistance = 0 /\ runTime = 0
  BY <1>1, <1>3 DEF RunInv, RunAtHand, Frames
<1>5. Starts = {}
  BY <1>1, <1>4 DEF Starts, Frames
<1>6. right = None /\ left = None
  BY <1>5 DEF RunInv, KeptRight, KeptLeft
<1>7. KeptRight' /\ KeptLeft'
  BY <1>3, <1>6 DEF KeptRight, KeptLeft, None
<1>8. \A k \in 1 .. N - 1 : dX(k)' = 0
  BY <1>2, <1>4
<1>9. \A b \in Starts' : b = N /\ d # 0
  <2> SUFFICES ASSUME NEW b \in Starts' PROVE b = N /\ d # 0
    OBVIOUS
  <2>1. b \in 1 .. N /\ (dX(b) # 0)'
    BY <1>2 DEF Starts, Frames
  <2>2. b \in 1 .. N - 1 \/ b = N
    BY <1>2, <2>1
  <2> QED
    BY <1>2, <1>8, <2>1, <2>2
<1>10. CASE d = 0
  <2>1. runDistance' = 0 /\ runTime' = 0 /\ runDirection' = 0
    BY <1>3, <1>4, <1>10 DEF Begin, run
  <2>2. ASSUME NEW k \in 1 .. N PROVE dX(k)' = 0
    <3>1. k \in 1 .. N - 1 \/ k = N
      OBVIOUS
    <3> QED
      BY <1>2, <1>8, <1>10, <3>1
  <2>3. RunAtHand'
    BY <1>2, <2>1, <2>2 DEF RunAtHand, Frames
  <2>4. PastRuns'
    BY <1>9, <1>10 DEF PastRuns
  <2> QED
    BY <1>7, <2>3, <2>4 DEF RunInv
<1>11. CASE d # 0
  <2>1. NewRun(d)
    BY <1>11 DEF Begin
  <2>2. \A k \in 1 .. N - 1 : ~Along(k, N)'
    BY <1>8 DEF Along
  <2>3. RunAtHand' /\ First' = N
    BY <1>1, <1>11, <2>1, <2>2, NewStart
  <2>4. PastRuns'
    BY <1>9, <2>3 DEF PastRuns
  <2> QED
    BY <1>7, <2>3, <2>4 DEF RunInv
<1> QED
  BY <1>10, <1>11

-----------------------------------------------------------------------------
(* The loop over the windows *)

LEMMA WindowSize ==
    ASSUME VariablesOK
    PROVE  /\ n \in Nat /\ TriggerWindowSize \in Nat
           /\ n >= 2 => TriggerWindowSize \in 1 .. n - 1
           /\ n >= 2 => \A i \in Windows : Window(i) \in Int
<1>1. n \in Nat /\ n >= 1 /\ TRIGGER_WINDOW_SIZE \in Nat /\ TRIGGER_WINDOW_SIZE >= 2
  BY StrokeAssumption DEF VariablesOK, n
<1>2. TriggerWindowSize \in Nat /\ (n >= 2 => TriggerWindowSize \in 1 .. n - 1)
  BY <1>1 DEF TriggerWindowSize
<1>3. \A i \in 1 .. n : X[i] \in Int
  BY DEF VariablesOK, n
<1>4. ASSUME n >= 2, NEW i \in Windows PROVE Window(i) \in Int
  <2>1. i \in 1 .. n /\ i + TriggerWindowSize \in 1 .. n
    BY <1>1, <1>2, <1>4 DEF Windows
  <2> QED
    BY <1>3, <2>1 DEF Window
<1> QED
  BY <1>1, <1>2, <1>4

LEMMA SlideInv ==
    ASSUME IInv, Slide
    PROVE  IInv'
<1>1. /\ features = Unset /\ features' = Unset /\ n >= 3 /\ slid + 1 \in Windows
      /\ slid' = slid + 1 /\ X' = X /\ right' = right /\ left' = left
      /\ runDistance' = runDistance /\ runDirection' = runDirection /\ runTime' = runTime
      /\ maxWindow' = IF Magnitude(Window(slid')) > Magnitude(maxWindow)
                      THEN Window(slid') ELSE maxWindow
  BY DEF Slide, run, sides
<1>2. VariablesOK /\ RunInv /\ SlideOK
  BY <1>1 DEF IInv
<1>3. PICK w \in Nat : w = slid + 1
  BY <1>2 DEF VariablesOK
<1>4. PICK v \in Int : v = Window(w)
  BY <1>1, <1>2, <1>3, WindowSize
<1>5. n' = n /\ TriggerWindowSize' = TriggerWindowSize
  BY <1>1 DEF n, TriggerWindowSize
<1>6. Windows' = Windows /\ (\A i : Window(i)' = Window(i)) /\ (\A i : Leads(i)' <=> Leads(i))
  BY <1>1, <1>5 DEF Windows, Window, Leads
<1>7. maxWindow \in Int /\ slid \in Nat
  BY <1>2 DEF VariablesOK
<1>8. maxWindow' = IF Magnitude(v) > Magnitude(maxWindow) THEN v ELSE maxWindow
  BY <1>1, <1>3, <1>4, <1>6
<1>9. VariablesOK'
  BY <1>1, <1>2, <1>3, <1>4, <1>8 DEF VariablesOK, n
<1>10. RunInv'
  <2>1. (RunAtHand' <=> RunAtHand) /\ (PastRuns' <=> PastRuns)
    BY <1>1 DEF RunAtHand, PastRuns, First, Starts, Frames, Straight, Closed, Bounded, From,
       Along, Against, dX, n
  <2>2. (KeptRight' <=> KeptRight) /\ (KeptLeft' <=> KeptLeft)
    BY <1>1 DEF KeptRight, KeptLeft, Kept, First, Starts, Frames, Straight, Closed,
       Along, Against, dX, n, None
  <2> QED
    BY <1>2, <2>1, <2>2 DEF RunInv
<1>11. SlideOK'
  <2>1. w >= 1 /\ w \in Windows'
    BY <1>1, <1>3, <1>6, <1>7
  <2>2. Magnitude(v) \in Int /\ Magnitude(maxWindow) \in Int /\ Magnitude(maxWindow') \in Int
        /\ Magnitude(v) <= Magnitude(maxWindow') /\ Magnitude(maxWindow) <= Magnitude(maxWindow')
    BY <1>4, <1>7, <1>8 DEF Magnitude
  <2>3. \A j \in 2 .. slid : Magnitude(Window(j)) \in Int /\ Magnitude(Window(j)) <= Magnitude(maxWindow)
    <3>1. \A j \in 2 .. slid : j \in Windows
      <4>1. n \in Nat /\ TriggerWindowSize \in Nat
        BY <1>2, WindowSize
      <4> QED
        BY <1>1, <1>7, <4>1 DEF Windows
    <3>2. \A j \in 2 .. slid : Window(j) \in Int
      BY <1>1, <1>2, <3>1, WindowSize
    <3> QED
      BY <1>2, <3>2 DEF SlideOK, Magnitude
  <2>4. ASSUME NEW j \in 2 .. w PROVE Magnitude(Window(j)) <= Magnitude(maxWindow')
    <3>1. j \in 2 .. slid \/ j = w
      BY <1>3, <1>7
    <3>2. CASE j = w
      BY <1>4, <2>2, <3>2
    <3>3. CASE j \in 2 .. slid
      BY <2>2, <2>3, <3>3
    <3> QED
      BY <3>1, <3>2, <3>3
  <2>5. maxWindow' = 0 \/ \E i \in 2 .. w : maxWindow' = Window(i) /\ Leads(i)
    <3>1. CASE Magnitude(v) > Magnitude(maxWindow)
      <4>1. \A j \in 2 .. w - 1 : Magnitude(Window(j)) < Magnitude(Window(w))
        BY <1>3, <1>4, <1>7, <2>2, <2>3, <3>1
      <4>2. w \in 2 .. w
        BY <1>1, <1>3 DEF Windows
      <4> QED
        BY <1>4, <1>8, <3>1, <4>1, <4>2 DEF Leads
    <3>2. CASE ~(Magnitude(v) > Magnitude(maxWindow))
      <4>1. maxWindow' = maxWindow
        BY <1>8, <3>2
      <4>2. maxWindow = 0 \/ \E i \in 2 .. slid : maxWindow = Window(i) /\ Leads(i)
        BY <1>2 DEF SlideOK
      <4>3. \A i \in 2 .. slid : i \in 2 .. w
        BY <1>3, <1>7
      <4> QED
        BY <4>1, <4>2, <4>3
    <3> QED
      BY <3>1, <3>2
  <2> QED
    BY <1>1, <1>3, <1>6, <2>1, <2>4, <2>5 DEF SlideOK
<1>12. LongestRun' /\ FastestWindow'
  BY <1>1 DEF LongestRun, FastestWindow, Unset
<1> QED
  BY <1>9, <1>10, <1>11, <1>12 DEF IInv

-----------------------------------------------------------------------------
(* The features *)

\* A straight part that cannot be prolonged ends its run.
LEMMA EndIs ==
    ASSUME VariablesOK, NEW a \in 1 .. n - 1, NEW e \in a .. n - 1, Straight(a, e),
           e = n - 1 \/ Against(a, e + 1)
    PROVE  End(a) = e /\ Distance(a) = X[e + 1] - X[a]
<1> DEFINE S == {b \in a .. n - 1 : \A k \in a .. b : ~Against(a, k)}
<1>1. n \in Nat
  BY DEF VariablesOK, n
<1>2. e \in S
  BY DEF Straight
<1>3. \A b \in S : e >= b
  <2> SUFFICES ASSUME NEW b \in S, b > e PROVE FALSE
    BY <1>1
  <2>1. e + 1 \in a .. b /\ e # n - 1
    BY <1>1
  <2> QED
    BY <2>1
<1>4. S \subseteq Int
  BY <1>1
<1>5. End(a) = Max(S)
  BY DEF End
<1> HIDE DEF S
<1>6. Max(S) = e
  <2>1. Max(S) \in S /\ \A y \in S : Max(S) >= y
    BY <1>2, <1>3 DEF Max
  <2>2. Max(S) \in Int /\ e \in Int /\ Max(S) >= e /\ e >= Max(S)
    BY <1>2, <1>3, <1>4, <2>1
  <2> QED
    BY <2>2
<1> QED
  BY <1>5, <1>6 DEF Distance

\* Where every run is no longer than the one its side keeps, the longer of the
\* two is the longest.
LEMMA LongestKept ==
    ASSUME VariablesOK, NEW r \in Int, NEW l \in Int, r >= 0, l <= 0, NEW p, NEW q,
           \A b \in Starts :
              \/ Distance(b) \in Int /\ Distance(b) > 0 /\ Distance(b) <= r
                 /\ (Distance(b) = r => b <= p)
              \/ Distance(b) \in Int /\ Distance(b) < 0 /\ Distance(b) >= l
                 /\ (Distance(b) = l => b <= q)
    PROVE  /\ r > -l /\ p \in Starts /\ Distance(p) = r => Longest(p)
           /\ r <= -l /\ q \in Starts /\ Distance(q) = l => Longest(q)
<1>1. \A b \in Starts : b \in Int
  BY DEF Starts, Frames
<1>2. ASSUME r > -l, p \in Starts, Distance(p) = r PROVE Longest(p)
  <2> SUFFICES ASSUME NEW b \in Starts \ {p}
               PROVE  \/ Magnitude(Distance(b)) < Magnitude(Distance(p))
                      \/ Distance(b) = -Distance(p) /\ Distance(p) < 0
                      \/ Distance(b) = Distance(p) /\ b < p
    BY DEF Longest
  <2>1. b \in Int /\ p \in Int /\ b # p
    BY <1>1, <1>2
  <2>2. PICK y \in Int : y = Distance(b)
    OBVIOUS
  <2>3. \/ y > 0 /\ y <= r /\ (y = r => b <= p)
        \/ y < 0 /\ y >= l
    BY <2>2
  <2>4. Magnitude(y) < Magnitude(r) \/ (y = r /\ b < p)
    BY <1>2, <2>1, <2>3 DEF Magnitude
  <2> QED
    BY <1>2, <2>2, <2>4
<1>3. ASSUME r <= -l, q \in Starts, Distance(q) = l PROVE Longest(q)
  <2> SUFFICES ASSUME NEW b \in Starts \ {q}
               PROVE  \/ Magnitude(Distance(b)) < Magnitude(Distance(q))
                      \/ Distance(b) = -Distance(q) /\ Distance(q) < 0
                      \/ Distance(b) = Distance(q) /\ b < q
    BY DEF Longest
  <2>1. b \in Int /\ q \in Int /\ b # q
    BY <1>1, <1>3
  <2>2. PICK y \in Int : y = Distance(b)
    OBVIOUS
  <2>3. \/ y > 0 /\ y <= r
        \/ y < 0 /\ y >= l /\ (y = l => b <= q)
    BY <2>2
  <2>4. Magnitude(y) < Magnitude(l) \/ (y = -l /\ l < 0) \/ (y = l /\ b < q)
    BY <1>3, <2>1, <2>3 DEF Magnitude
  <2> QED
    BY <1>3, <2>2, <2>4
<1> QED
  BY <1>2, <1>3

\* The first of the fastest windows is the one the loop has found.
LEMMA FastestFound ==
    ASSUME VariablesOK, SlideOK, n >= 3, slid + 1 \notin Windows
    PROVE  maxWindow = FirstFastest
<1>1. /\ n \in Nat /\ TriggerWindowSize \in 1 .. n - 1
      /\ \A i \in Windows : Window(i) \in Int
  BY WindowSize
<1>2. slid \in Nat /\ slid >= 1 /\ maxWindow \in Int
  BY DEF VariablesOK, SlideOK
<1>3. Windows = 2 .. slid
  <2>1. slid = n - TriggerWindowSize
    <3>1. CASE slid = 1
      BY <1>1, <3>1 DEF Windows
    <3>2. CASE slid > 1
      BY <1>1, <1>2, <3>2 DEF SlideOK, Windows
    <3> QED
      BY <1>2, <3>1, <3>2
  <2> QED
    BY <2>1 DEF Windows
<1>4. \A j \in Windows : Magnitude(Window(j)) \in Int
  BY <1>1 DEF Magnitude
<1>5. CASE Windows = {}
  BY <1>3, <1>5 DEF SlideOK, FirstFastest
<1>6. ASSUME Windows # {}, maxWindow = 0 PROVE maxWindow = FirstFastest
  <2>1. \A j \in Windows : Window(j) = 0
    <3> SUFFICES ASSUME NEW j \in Windows PROVE Window(j) = 0
      OBVIOUS
    <3>1. Magnitude(Window(j)) <= Magnitude(maxWindow)
      BY <1>3 DEF SlideOK
    <3> QED
      BY <1>1, <1>6, <3>1 DEF Magnitude
  <2>2. Fastest = Windows
    BY <2>1 DEF Fastest, Magnitude
  <2>3. 2 \in Windows /\ \A j \in Windows : j \in Int /\ 2 <= j
    BY <1>1, <1>6 DEF Windows
  <2>4. Min(Windows) = 2
    BY <2>3 DEF Min
  <2> QED
    BY <1>6, <2>1, <2>2, <2>3, <2>4 DEF FirstFastest
<1>7. ASSUME Windows # {}, maxWindow # 0 PROVE maxWindow = FirstFastest
  <2>1. PICK i \in Windows : maxWindow = Window(i) /\ Leads(i)
    BY <1>3, <1>7 DEF SlideOK
  <2>2. \A j \in Windows : Magnitude(Window(j)) <= Magnitude(Window(i))
    BY <1>3, <2>1 DEF SlideOK
  <2>3. i \in Fastest
    BY <2>2 DEF Fastest
  <2>4. \A j \in Windows : j \in Int /\ j >= 2
    BY <1>1 DEF Windows
  <2>5. ASSUME NEW j \in Fastest PROVE i <= j
    <3>1. j \in Windows /\ Magnitude(Window(i)) <= Magnitude(Window(j))
      BY <2>1, <2>5 DEF Fastest
    <3>2. ~(Magnitude(Window(j)) < Magnitude(Window(i)))
      BY <1>4, <2>1, <3>1
    <3>3. ~(j \in 2 .. i - 1)
      BY <2>1, <3>2 DEF Leads
    <3> QED
      BY <2>1, <2>4, <3>1, <3>3
  <2>6. \A j \in Fastest : j \in Int
    BY <2>4 DEF Fastest
  <2>7. Min(Fastest) = i
    BY <2>3, <2>5, <2>6 DEF Min
  <2> QED
    BY <1>7, <2>1, <2>7 DEF FirstFastest
<1> QED
  BY <1>5, <1>6, <1>7

LEMMA FinishInv ==
    ASSUME IInv, Finish
    PROVE  IInv'
<1>1. /\ features = Unset /\ n >= 3 /\ slid + 1 \notin Windows
      /\ X' = X /\ slid' = slid /\ maxWindow' = maxWindow
      /\ runDistance' = runDistance /\ runDirection' = runDirection /\ runTime' = runTime
  BY DEF Finish, run, window
<1>2. VariablesOK /\ RunInv /\ SlideOK
  BY <1>1 DEF IInv
<1>3. PICK N \in Nat : N = n
  BY <1>2 DEF VariablesOK, n
<1>4. PICK ended : ended = [max |-> runDistance, idx |-> N - 1, cnt |-> runTime]
  OBVIOUS
<1>5. /\ right' = IF runDistance >= right.max THEN ended ELSE right
      /\ left' = IF runDistance <= left.max THEN ended ELSE left
  BY <1>3, <1>4 DEF Finish, LastRun, Ended
<1>6. /\ runDistance \in Int /\ runTime \in Nat /\ runDirection \in {-1, 0, 1}
      /\ right.max \in Int /\ right.idx \in Nat /\ right.cnt \in Nat
      /\ left.max \in Int /\ left.idx \in Nat /\ left.cnt \in Nat
      /\ N >= 3 /\ \A i \in 1 .. N : X[i] \in Int
  BY <1>1, <1>2, <1>3 DEF VariablesOK, Side, n
<1>7. ended \in Side /\ ended.max = runDistance /\ ended.idx = N - 1 /\ ended.cnt = runTime
  BY <1>4, <1>6 DEF Side
<1>8. VariablesOK'
  BY <1>1, <1>2, <1>5, <1>7 DEF VariablesOK, n
<1>9. SlideOK'
  BY <1>1, <1>2 DEF SlideOK, Windows, Window, Leads, TriggerWindowSize, n
<1>10. PICK longest : /\ longest = IF Magnitude(right'.max) > Magnitude(left'.max)
                                   THEN right' ELSE left'
                      /\ features' = [trig |-> maxWindow, trend |-> longest.max,
                                      idx |-> longest.idx, cnt |-> longest.cnt]
  BY DEF Finish
<1>11. features'.trig = maxWindow /\ features'.trend = longest.max
       /\ features'.idx = longest.idx /\ features'.cnt = longest.cnt
  BY <1>10
<1>12. features' # Unset
  BY <1>10 DEF Unset
<1>13. FastestWindow'
  <2>1. maxWindow = FirstFastest
    BY <1>1, <1>2, FastestFound
  <2>2. FirstFastest' = FirstFastest
    BY <1>1 DEF FirstFastest, Fastest, Windows, Window, TriggerWindowSize, n
  <2> QED
    BY <1>11, <2>1, <2>2 DEF FastestWindow
<1>14. /\ Starts' = Starts /\ n' = n
       /\ \A a : End(a)' = End(a) /\ Distance(a)' = Distance(a) /\ (Longest(a)' <=> Longest(a))
  BY <1>1 DEF Starts, Frames, End, Distance, Longest, Along, Against, dX, n
<1>15. /\ Starts = {} /\ longest.max = 0 /\ longest.idx = N - 1 => LongestRun'
       /\ \A a \in Starts :
             /\ longest.max = Distance(a) /\ longest.idx = End(a)
             /\ longest.cnt = End(a) - a + 1 /\ Longest(a)
             => LongestRun'
  <2>1. Starts = {} /\ longest.max = 0 /\ longest.idx = N - 1 => LongestRun'
    BY <1>3, <1>11, <1>14 DEF LongestRun
  <2>2. ASSUME NEW a \in Starts,
               longest.max = Distance(a), longest.idx = End(a),
               longest.cnt = End(a) - a + 1, Longest(a)
        PROVE  LongestRun'
    <3>1. Starts' # {} /\ a \in Starts'
      BY <1>14
    <3>2. /\ features'.trend = Distance(a)' /\ features'.idx = End(a)'
          /\ features'.cnt = End(a)' - a + 1 /\ Longest(a)'
      BY <1>11, <1>14, <2>2
    <3> QED
      BY <3>1, <3>2 DEF LongestRun
  <2> QED
    BY <2>1, <2>2
<1>16. ASSUME runDirection = 0 PROVE LongestRun'
  <2>1. (\A k \in 1 .. N - 1 : dX(k) = 0) /\ runDistance = 0
    BY <1>2, <1>3, <1>16 DEF RunInv, RunAtHand, Frames
  <2>2. Starts = {}
    BY <1>3, <2>1 DEF Starts, Frames
  <2>3. right = None /\ left = None
    BY <1>2, <2>2 DEF RunInv, KeptRight, KeptLeft
  <2>4. right' = ended /\ left' = ended
    BY <1>5, <2>1, <2>3 DEF None
  <2>5. longest = ended
    BY <1>10, <2>4
  <2>6. longest.max = 0 /\ longest.idx = N - 1
    BY <1>7, <2>1, <2>5
  <2> QED
    BY <1>15, <2>2, <2>6
<1>17. ASSUME runDirection # 0 PROVE LongestRun'
  <2>1. PICK f \in 1 .. N - 1 : f = First
    BY <1>2, <1>3, <1>17, AtHand DEF RunInv
  <2>2. /\ runTime = N - f /\ f \in Starts /\ Straight(f, N - 1)
        /\ runDistance = X[N] - X[f]
        /\ runDirection > 0 => dX(f) > 0 /\ runDistance > 0
        /\ runDirection < 0 => dX(f) < 0 /\ runDistance < 0
    BY <1>2, <1>3, <1>17, <2>1, AtHand DEF RunInv
  <2>3. End(f) = N - 1 /\ Distance(f) = runDistance
    <3>1. f \in 1 .. n - 1 /\ N - 1 \in f .. n - 1 /\ N - 1 = n - 1 /\ (N - 1) + 1 = N
      BY <1>3, <2>1
    <3>2. End(f) = N - 1 /\ Distance(f) = X[(N - 1) + 1] - X[f]
      BY <1>2, <2>2, <3>1, EndIs
    <3> QED
      BY <2>2, <3>1, <3>2
  <2>4. From(ended) = f /\ ended.cnt = (N - 1) - f + 1
    BY <1>6, <1>7, <2>1, <2>2 DEF From
  <2>5. ASSUME NEW b \in Starts, NEW e, Closed(b, e)
        PROVE  /\ End(b) = e /\ Distance(b) = X[e + 1] - X[b]
               /\ Distance(b) \in Int /\ b \in 1 .. N - 1 /\ e \in b .. N - 2
    <3>1. b \in 1 .. n - 1 /\ b \in 1 .. N - 1
      BY <1>3 DEF Starts, Frames
    <3>2. e \in b .. N - 2 /\ Straight(b, e) /\ Against(b, e + 1)
      BY <1>3, <2>5 DEF Closed
    <3>3. e \in b .. n - 1
      BY <1>3, <3>1, <3>2
    <3>4. End(b) = e /\ Distance(b) = X[e + 1] - X[b]
      BY <1>2, <3>1, <3>2, <3>3, EndIs
    <3>5. e + 1 \in 1 .. N /\ b \in 1 .. N
      BY <3>1, <3>2
    <3>6. X[e + 1] \in Int /\ X[b] \in Int
      BY <1>6, <3>5
    <3> QED
      BY <3>1, <3>2, <3>4, <3>6
  <2>6. /\ right.max >= 0
        /\ right.max > 0 => LET p == From(right) IN
              p \in Starts /\ Distance(p) = right.max /\ right.idx = End(p)
              /\ right.cnt = End(p) - p + 1
    <3>1. CASE right = None
      BY <3>1 DEF None
    <3>2. CASE \E b \in Starts : Kept(right, b) /\ dX(b) > 0 /\ right.max > 0
      <4>1. PICK b \in Starts : Kept(right, b) /\ right.max > 0
        BY <3>2
      <4>2. /\ Closed(b, right.idx) /\ right.max = X[right.idx + 1] - X[b]
            /\ right.cnt = right.idx - b + 1
        BY <4>1 DEF Kept
      <4>3. End(b) = right.idx /\ Distance(b) = right.max /\ b \in 1 .. N - 1
        BY <2>5, <4>2
      <4>4. From(right) = b
        BY <1>6, <4>2, <4>3 DEF From
      <4> QED
        BY <1>6, <4>1, <4>2, <4>3, <4>4
    <3> QED
      BY <1>2, <3>1, <3>2 DEF RunInv, KeptRight
  <2>7. /\ left.max <= 0
        /\ left.max < 0 => LET q == From(left) IN
              q \in Starts /\ Distance(q) = left.max /\ left.idx = End(q)
              /\ left.cnt = End(q) - q + 1
    <3>1. CASE left = None
      BY <3>1 DEF None
    <3>2. CASE \E b \in Starts : Kept(left, b) /\ dX(b) < 0 /\ left.max < 0
      <4>1. PICK b \in Starts : Kept(left, b) /\ left.max < 0
        BY <3>2
      <4>2. /\ Closed(b, left.idx) /\ left.max = X[left.idx + 1] - X[b]
            /\ left.cnt = left.idx - b + 1
        BY <4>1 DEF Kept
      <4>3. End(b) = left.idx /\ Distance(b) = left.max /\ b \in 1 .. N - 1
        BY <2>5, <4>2
      <4>4. From(left) = b
        BY <1>6, <4>2, <4>3 DEF From
      <4> QED
        BY <1>6, <4>1, <4>2, <4>3, <4>4
    <3> QED
      BY <1>2, <3>1, <3>2 DEF RunInv, KeptLeft
  <2>8. \/ runDirection > 0 /\ runDistance > 0 /\ left' = left
           /\ right' = IF runDistance >= right.max THEN ended ELSE right
        \/ runDirection < 0 /\ runDistance < 0 /\ right' = right
           /\ left' = IF runDistance <= left.max THEN ended ELSE left
    BY <1>5, <1>6, <1>17, <2>2, <2>6, <2>7
  <2>9. PICK r \in Int, l \in Int, p \in Int, q \in Int :
           r = right'.max /\ l = left'.max /\ p = From(right') /\ q = From(left')
    <3>1. /\ right'.max \in Int /\ right'.idx \in Int /\ right'.cnt \in Int
          /\ left'.max \in Int /\ left'.idx \in Int /\ left'.cnt \in Int
      BY <1>8 DEF VariablesOK, Side
    <3>2. From(right') \in Int /\ From(left') \in Int
      BY <3>1 DEF From
    <3> QED
      BY <3>1, <3>2
  <2>10. r >= 0 /\ l <= 0 /\ (r > 0 \/ l < 0)
    BY <1>6, <1>7, <2>6, <2>7, <2>8, <2>9
  <2>11. ASSUME NEW b \in Starts
         PROVE  \/ Distance(b) \in Int /\ Distance(b) > 0 /\ Distance(b) <= r
                   /\ (Distance(b) = r => b <= p)
                \/ Distance(b) \in Int /\ Distance(b) < 0 /\ Distance(b) >= l
                   /\ (Distance(b) = l => b <= q)
    <3>1. b \in 1 .. N - 1 /\ b <= f
      <4>1. b <= f
        BY <1>2, <1>3, <2>1, <2>2, NoneWithin
      <4> QED
        BY <1>3, <4>1 DEF Starts, Frames
    <3>2. CASE b = f
      BY <1>6, <1>7, <2>1, <2>3, <2>4, <2>8, <2>9, <3>2
    <3>3. CASE b < f
      <4>1. PICK e \in b .. n - 2 : Closed(b, e) /\ Bounded(b, X[e + 1] - X[b])
        BY <1>2, <2>1, <3>3 DEF RunInv, PastRuns
      <4>2. PICK y \in Int : y = Distance(b) /\ y = X[e + 1] - X[b]
        BY <2>5, <4>1
      <4>3. \/ y > 0 /\ y <= right.max /\ (y = right.max => b <= From(right))
            \/ y < 0 /\ y >= left.max /\ (y = left.max => b <= From(left))
        BY <4>1, <4>2 DEF Bounded
      <4>4. \/ y > 0 /\ y <= r /\ (y = r => b <= p)
            \/ y < 0 /\ y >= l /\ (y = l => b <= q)
        <5>1. CASE right' = right /\ left' = left
          BY <2>9, <4>3, <5>1
        <5>2. CASE right' = ended /\ left' = left /\ runDistance >= right.max
          BY <1>6, <1>7, <2>1, <2>4, <2>9, <3>1, <3>3, <4>2, <4>3, <5>2
        <5>3. CASE right' = right /\ left' = ended /\ runDistance <= left.max
          BY <1>6, <1>7, <2>1, <2>4, <2>9, <3>1, <3>3, <4>2, <4>3, <5>3
        <5> QED
          BY <2>8, <5>1, <5>2, <5>3
      <4> QED
        BY <4>2, <4>4
    <3>4. b = f \/ b < f
      BY <2>1, <3>1
    <3> QED
      BY <3>2, <3>3, <3>4
  <2>12. /\ r > -l /\ p \in Starts /\ Distance(p) = r => Longest(p)
         /\ r <= -l /\ q \in Starts /\ Distance(q) = l => Longest(q)
    BY <1>2, <2>10, <2>11, LongestKept
  <2>13. r > 0 => /\ p \in Starts /\ Distance(p) = r
                  /\ right'.idx = End(p) /\ right'.cnt = End(p) - p + 1
    <3>1. CASE right' = right
      BY <2>6, <2>9, <3>1
    <3>2. CASE right' = ended
      BY <1>7, <2>2, <2>3, <2>4, <2>9, <3>2
    <3> QED
      BY <2>8, <3>1, <3>2
  <2>14. l < 0 => /\ q \in Starts /\ Distance(q) = l
                  /\ left'.idx = End(q) /\ left'.cnt = End(q) - q + 1
    <3>1. CASE left' = left
      BY <2>7, <2>9, <3>1
    <3>2. CASE left' = ended
      BY <1>7, <2>2, <2>3, <2>4, <2>9, <3>2
    <3> QED
      BY <2>8, <3>1, <3>2
  <2>15. CASE r > -l
    <3>1. longest = right' /\ r > 0
      BY <1>10, <2>9, <2>10, <2>15 DEF Magnitude
    <3>2. /\ p \in Starts /\ longest.max = Distance(p) /\ longest.idx = End(p)
          /\ longest.cnt = End(p) - p + 1
      BY <2>9, <2>13, <3>1
    <3>3. Longest(p)
      BY <2>12, <2>13, <2>15, <3>1
    <3> QED
      BY <1>15, <3>2, <3>3
  <2>16. CASE r <= -l
    <3>1. longest = left' /\ l < 0
      BY <1>10, <2>9, <2>10, <2>16 DEF Magnitude
    <3>2. /\ q \in Starts /\ longest.max = Distance(q) /\ longest.idx = End(q)
          /\ longest.cnt = End(q) - q + 1
      BY <2>9, <2>14, <3>1
    <3>3. Longest(q)
      BY <2>12, <2>14, <2>16, <3>1
    <3> QED
      BY <1>15, <3>2, <3>3
  <2> QED
    BY <2>9, <2>15, <2>16
<1> QED
  BY <1>8, <1>9, <1>12, <1>13, <1>16, <1>17 DEF IInv

-----------------------------------------------------------------------------
(* The theorems about the longest run and the fastest window *)

LEMMA IInvInit == Init => IInv
<1> SUFFICES ASSUME Init PROVE IInv
  OBVIOUS
<1>1. /\ X = <<0>> /\ runDistance = 0 /\ runDirection = 0 /\ runTime = 0
      /\ right = None /\ left = None /\ slid = 1 /\ maxWindow = 0 /\ features = Unset
  BY DEF Init, None
<1>2. <<0>> \in Seq(Int) /\ Len(<<0>>) = 1 /\ None \in Side
  BY DEF None, Side
<1>3. n = 1 /\ Frames = {}
  BY <1>1, <1>2 DEF n, Frames
<1>4. VariablesOK
  BY <1>1, <1>2, <1>3 DEF VariablesOK
<1>5. RunInv
  <2>1. Starts = {}
    BY <1>3 DEF Starts
  <2>2. RunAtHand
    BY <1>1, <1>3 DEF RunAtHand
  <2> QED
    BY <1>1, <2>1, <2>2 DEF RunInv, PastRuns, KeptRight, KeptLeft
<1>6. SlideOK
  BY <1>1 DEF SlideOK
<1> QED
  BY <1>1, <1>4, <1>5, <1>6 DEF IInv, LongestRun, FastestWindow

LEMMA FrameInv ==
    ASSUME IInv, NEW d \in Steps, Frame(d)
    PROVE  IInv'
<1>1. /\ features = Unset /\ features' = Unset /\ slid = 1 /\ slid' = 1
      /\ maxWindow' = maxWindow /\ X' = Append(X, X[n] + d)
  BY DEF Frame, window
<1>2. VariablesOK /\ RunInv /\ SlideOK /\ d \in Int
  BY <1>1, StrokeAssumption DEF IInv, Steps
<1>3. PICK N \in Nat : N = n
  BY <1>2 DEF VariablesOK, n
<1>4. /\ runDistance' \in Int /\ runDirection' \in {-1, 0, 1} /\ runTime' \in Nat
      /\ right' \in Side /\ left' \in Side
  <2>1. Ended(n - 1) \in Side
    BY <1>2 DEF Ended, Side, VariablesOK, n
  <2>2. CASE Prolong(d)
    BY <1>2, <2>2 DEF Prolong, sides, VariablesOK
  <2>3. CASE Turn(d)
    BY <1>2, <2>1, <2>3 DEF Turn, NewRun, VariablesOK
  <2>4. CASE Begin(d)
    BY <1>2, <2>4 DEF Begin, NewRun, run, sides, VariablesOK
  <2> QED
    BY <2>2, <2>3, <2>4 DEF Frame
<1>5. VariablesOK'
  <2>1. X' \in Seq(Int) /\ n' = N + 1
    BY <1>1, <1>2, <1>3, FrameKeeps
  <2> QED
    BY <1>1, <1>2, <1>4, <2>1 DEF VariablesOK
<1>6. RunInv'
  <2>1. Prolong(d) \/ Turn(d) \/ Begin(d)
    BY DEF Frame
  <2> QED
    BY <1>1, <1>2, <2>1, ProlongInv, TurnInv, BeginInv
<1>7. maxWindow = 0
  BY <1>1, <1>2 DEF SlideOK
<1>8. SlideOK'
  BY <1>1, <1>7 DEF SlideOK
<1> QED
  BY <1>1, <1>5, <1>6, <1>8 DEF IInv, LongestRun, FastestWindow

THEOREM Inductive == Spec => []IInv
<1>1. ASSUME IInv, [Next]_vars PROVE IInv'
  <2>1. CASE \E d \in Steps : Frame(d)
    BY <1>1, <2>1, FrameInv
  <2>2. CASE Slide
    BY <1>1, <2>2, SlideInv
  <2>3. CASE Finish
    BY <1>1, <2>3, FinishInv
  <2>4. CASE UNCHANGED vars
    <3>1. /\ X' = X /\ right' = right /\ left' = left /\ features' = features
          /\ runDistance' = runDistance /\ runDirection' = runDirection /\ runTime' = runTime
          /\ slid' = slid /\ maxWindow' = maxWindow
      BY <2>4 DEF vars, run, sides, window
    <3>2. (VariablesOK' <=> VariablesOK) /\ (SlideOK' <=> SlideOK)
      BY <3>1 DEF VariablesOK, SlideOK, Windows, Window, Leads, TriggerWindowSize, n
    <3>3. (RunAtHand' <=> RunAtHand) /\ (PastRuns' <=> PastRuns)
      BY <3>1 DEF RunAtHand, PastRuns, First, Starts, Frames, Straight, Closed, Bounded, From,
         Along, Against, dX, n
    <3>4. (KeptRight' <=> KeptRight) /\ (KeptLeft' <=> KeptLeft)
      BY <3>1 DEF KeptRight, KeptLeft, Kept, First, Starts, Frames, Straight, Closed,
         Along, Against, dX, n, None
    <3>5. FastestWindow' <=> FastestWindow
      BY <3>1 DEF FastestWindow, FirstFastest, Fastest, Windows, Window, TriggerWindowSize, n
    <3>6. LongestRun' <=> LongestRun
      BY <3>1 DEF LongestRun, Starts, Frames, End, Distance, Longest, Along, Against, dX, n
    <3> QED
      BY <1>1, <3>1, <3>2, <3>3, <3>4, <3>5, <3>6 DEF IInv, RunInv
  <2> QED
    BY <1>1, <2>1, <2>2, <2>3, <2>4 DEF Next
<1> QED
  BY <1>1, IInvInit, PTL DEF Spec

\* What the features report of a contact, of whatever length and with steps of
\* whatever size, is its longest run, with the frame and the time that belong
\* to it (recognizer.c:1073-1145).
THEOREM RunCorrect == Spec => []LongestRun
<1>1. IInv => LongestRun
  BY DEF IInv
<1> QED
  BY <1>1, Inductive, PTL

\* The trigger reported is the first of the fastest windows, for every size of
\* the window (recognizer.c:1049-1071).
THEOREM WindowCorrect == Spec => []FastestWindow
<1>1. IInv => FastestWindow
  BY DEF IInv
<1> QED
  BY <1>1, Inductive, PTL

-----------------------------------------------------------------------------
(* CoTrends: what its variables are *)

\* Both loops keep their variables in range, and the counts are one per frame.
LoopsOK ==
    /\ kinds \in Seq(Kinds)
    /\ pad \in Seq([Kinds -> Nat])
    /\ Len(pad) = Len(kinds) + 1
    /\ scanned \in 0 .. Len(kinds)

-----------------------------------------------------------------------------
(* How the counts of the co-trends grow *)

\* The least of some numbers
LEMMA LeastMember ==
    ASSUME NEW S, S \subseteq Nat, S # {}
    PROVE  Min(S) \in S /\ \A j \in S : Min(S) <= j
<1> DEFINE R == OpToRel(<, Nat)
<1>1. IsWellFoundedOn(R, Nat)
  BY NatLessThanWellFounded
<1>2. R = {ss \in Nat \X Nat : ss[1] < ss[2]}
  BY DEF OpToRel
<1> HIDE DEF R
<1>3. PICK x \in S : \A y \in S : ~(<<y, x>> \in R)
  BY <1>1, WFMin
<1>4. ASSUME NEW y \in S PROVE x <= y
  <2>1. ~(<<y, x>>[1] < <<y, x>>[2])
    BY <1>2, <1>3
  <2> QED
    BY <2>1
<1> QED
  BY <1>4 DEF Min

\* How many of the first i frames are of a kind, in any contact
Tally(s, c, i) == Cardinality({j \in 1 .. i : s[j] = c})

\* One more frame leaves the tallies up to it as they are and adds at most one.
LEMMA OneMore ==
    ASSUME NEW s \in Seq(Kinds), NEW k \in Kinds, NEW c \in Kinds
    PROVE  /\ \A i \in 0 .. Len(s) : Tally(Append(s, k), c, i) = Tally(s, c, i)
           /\ Tally(s, c, Len(s)) \in Nat
           /\ Tally(Append(s, k), c, Len(s) + 1)
                = Tally(s, c, Len(s)) + (IF k = c THEN 1 ELSE 0)
<1> DEFINE L == Len(s)
           more == Append(s, k)
           Of(q, i) == {j \in 1 .. i : q[j] = c}
<1>1. L \in Nat /\ \A j \in 1 .. L : more[j] = s[j]
  OBVIOUS
<1>2. more[L + 1] = k
  OBVIOUS
<1>3. \A q, i : Tally(q, c, i) = Cardinality(Of(q, i))
  BY DEF Tally
<1> SUFFICES /\ \A i \in 0 .. L : Tally(more, c, i) = Tally(s, c, i)
             /\ Tally(s, c, L) \in Nat
             /\ Tally(more, c, L + 1) = Tally(s, c, L) + (IF k = c THEN 1 ELSE 0)
  OBVIOUS
<1> HIDE DEF L, more
<1>4. \A i \in 0 .. L : Of(more, i) = Of(s, i)
  BY <1>1
<1>5. IsFiniteSet(Of(s, L)) /\ Cardinality(Of(s, L)) \in Nat
  <2>1. IsFiniteSet(1 .. L)
    BY <1>1, FS_Interval
  <2>2. Of(s, L) \subseteq 1 .. L
    OBVIOUS
  <2>3. IsFiniteSet(Of(s, L))
    BY <2>1, <2>2, FS_Subset
  <2> QED
    BY <2>3, FS_CardinalityType
<1>6. ~(L + 1 \in Of(s, L))
  BY <1>1
<1>7. \A i \in 0 .. L : Tally(more, c, i) = Tally(s, c, i)
  BY <1>3, <1>4
<1>8. Tally(s, c, L) = Cardinality(Of(s, L)) /\ Tally(more, c, L + 1) = Cardinality(Of(more, L + 1))
  BY <1>3
<1>9. CASE k = c
  <2>1. Of(more, L + 1) = Of(s, L) \cup {L + 1}
    BY <1>1, <1>2, <1>9
  <2> HIDE DEF Of
  <2>2. Cardinality(Of(s, L) \cup {L + 1}) = Cardinality(Of(s, L)) + 1
    BY <1>5, <1>6, FS_AddElement
  <2> QED
    BY <1>5, <1>7, <1>8, <1>9, <2>1, <2>2
<1>10. CASE k # c
  <2>1. Of(more, L + 1) = Of(s, L)
    BY <1>1, <1>2, <1>10
  <2> HIDE DEF Of
  <2> QED
    BY <1>5, <1>7, <1>8, <1>10, <2>1
<1> QED
  BY <1>9, <1>10

LEMMA ManyTally == \A k, i : Many(k, i) = Tally(kinds, k, i)
BY DEF Many, Tally

LEMMA KindType == \A dY, dYTip : Kind(dY, dYTip) \in Kinds
BY DEF Kind, Kinds, Trends

-----------------------------------------------------------------------------
(* The loop that counts *)

LEMMA LoopsInit == TrendInit => LoopsOK /\ CountsPartition
<1> SUFFICES ASSUME TrendInit PROVE LoopsOK /\ CountsPartition
  OBVIOUS
<1> DEFINE zero == [k \in Kinds |-> 0]
<1>1. zero \in [Kinds -> Nat]
  OBVIOUS
<1>2. pad = <<zero>> /\ kinds = <<>> /\ scanned = 0
  BY DEF TrendInit
<1> HIDE DEF zero
<1>3. LoopsOK
  <2>1. <<zero>> \in Seq([Kinds -> Nat]) /\ Len(<<zero>>) = 1
    BY <1>1
  <2> QED
    BY <1>2, <2>1 DEF LoopsOK
<1>4. CountsPartition
  <2>1. counted - 1 = 0
    BY <1>2 DEF counted
  <2>2. Counts(0) = zero
    BY <1>2 DEF Counts
  <2>3. \A k \in Kinds : zero[k] = 0
    BY DEF zero
  <2>4. \A k \in Kinds : Many(k, 0) = 0
    <3> SUFFICES ASSUME NEW k \in Kinds PROVE Many(k, 0) = 0
      OBVIOUS
    <3>1. {j \in 1 .. 0 : kinds[j] = k} = {}
      OBVIOUS
    <3> QED
      BY <3>1, FS_EmptySet DEF Many
  <2>5. "UP" \in Kinds /\ "NONE" \in Kinds /\ "DOWN" \in Kinds /\ "OPPOS" \in Kinds
    BY DEF Kinds, Trends
  <2>6. SUFFICES ASSUME NEW i \in 0 .. counted - 1
                 PROVE  /\ \A k \in Kinds : Counts(i)[k] = Many(k, i)
                        /\ Counts(i)["UP"] + Counts(i)["NONE"]
                             + Counts(i)["DOWN"] + Counts(i)["OPPOS"] = i
    BY DEF CountsPartition
  <2>7. i = 0
    BY <2>1
  <2> QED
    BY <2>2, <2>3, <2>4, <2>5, <2>7
<1> QED
  BY <1>3, <1>4

LEMMA FrameCounts ==
    ASSUME LoopsOK, CountsPartition, NEW dY \in dYs, NEW dYTip \in dYtips, TrendFrame(dY, dYTip)
    PROVE  LoopsOK' /\ CountsPartition'
<1>0. PICK L \in Nat : L = Len(kinds)
  BY DEF LoopsOK
<1> DEFINE k == Kind(dY, dYTip)
<1>1. k \in Kinds
  BY KindType
<1>2. /\ kinds' = Append(kinds, k) /\ pad' = Append(pad, Count(k))
      /\ scanned = 0 /\ scanned' = 0
  BY DEF TrendFrame
<1>3. /\ kinds \in Seq(Kinds) /\ pad \in Seq([Kinds -> Nat])
      /\ Len(pad) = L + 1 /\ Len(kinds) = L
  BY <1>0 DEF LoopsOK
<1> HIDE DEF k
<1>4. pad[L + 1] \in [Kinds -> Nat]
  BY <1>3
<1>5. Count(k) = [pad[L + 1] EXCEPT ![k] = @ + 1]
  BY <1>3 DEF Count, Last, Counts, counted
<1>6. /\ Count(k) \in [Kinds -> Nat]
      /\ \A c \in Kinds : Count(k)[c] = pad[L + 1][c] + (IF k = c THEN 1 ELSE 0)
  BY <1>1, <1>4, <1>5
<1> DEFINE new == Count(k)
<1>7. new \in [Kinds -> Nat]
  BY <1>6
<1>8. \A c \in Kinds : new[c] = pad[L + 1][c] + (IF k = c THEN 1 ELSE 0)
  BY <1>6
<1> HIDE DEF new
<1>9. /\ kinds' \in Seq(Kinds) /\ Len(kinds') = L + 1
      /\ pad' \in Seq([Kinds -> Nat]) /\ Len(pad') = L + 2
      /\ pad'[L + 2] = new /\ \A i \in 1 .. L + 1 : pad'[i] = pad[i]
  <2>1. pad' = Append(pad, new)
    BY <1>2 DEF new
  <2>2. kinds' \in Seq(Kinds) /\ Len(kinds') = L + 1
    BY <1>1, <1>2, <1>3
  <2> QED
    BY <1>3, <1>7, <2>1, <2>2
<1>10. LoopsOK'
  BY <1>2, <1>3, <1>9 DEF LoopsOK
<1>11. \A i, c : Many(c, i)' = Tally(Append(kinds, k), c, i) /\ Many(c, i) = Tally(kinds, c, i)
  <2>1. \A i, c : Many(c, i)' = Tally(kinds', c, i)
    BY DEF Many, Tally
  <2> QED
    BY <1>2, <2>1, ManyTally
<1>12. ASSUME NEW c \in Kinds
       PROVE  /\ \A i \in 0 .. L : Many(c, i)' = Many(c, i)
              /\ Many(c, L + 1)' = Many(c, L) + (IF k = c THEN 1 ELSE 0)
  <2>1. /\ \A i \in 0 .. L : Tally(Append(kinds, k), c, i) = Tally(kinds, c, i)
        /\ Tally(Append(kinds, k), c, L + 1) = Tally(kinds, c, L) + (IF k = c THEN 1 ELSE 0)
    BY <1>1, <1>3, OneMore
  <2>2. Many(c, L + 1)' = Tally(Append(kinds, k), c, L + 1) /\ Many(c, L) = Tally(kinds, c, L)
    BY <1>11
  <2>3. \A i \in 0 .. L : Many(c, i)' = Many(c, i)
    BY <1>11, <2>1
  <2> QED
    BY <2>1, <2>2, <2>3
<1>13. CountsPartition'
  <2>1. counted = L + 1 /\ counted' = L + 2
    BY <1>3, <1>9 DEF counted
  <2>2. ASSUME NEW i \in 0 .. L
        PROVE  /\ \A c \in Kinds : Counts(i)'[c] = Many(c, i)'
               /\ Counts(i)'["UP"] + Counts(i)'["NONE"]
                    + Counts(i)'["DOWN"] + Counts(i)'["OPPOS"] = i
    <3>1. Counts(i)' = Counts(i)
      <4>1. i + 1 \in 1 .. L + 1
        BY <1>3
      <4>2. pad'[i + 1] = pad[i + 1]
        BY <1>9, <4>1
      <4> QED
        BY <4>2 DEF Counts
    <3> QED
      BY <1>3, <1>12, <2>1, <3>1 DEF CountsPartition
  <2>3. Counts(L + 1)' = new
    BY <1>3, <1>9 DEF Counts
  <2>4. pad[L + 1] = Counts(L) /\ L \in 0 .. counted - 1
    BY <1>3, <2>1 DEF Counts
  <2>5. \A c \in Kinds : new[c] = Many(c, L + 1)'
    BY <1>8, <1>12, <2>4 DEF CountsPartition
  <2>6. new["UP"] + new["NONE"] + new["DOWN"] + new["OPPOS"] = L + 1
    <3> DEFINE last == pad[L + 1]
    <3>1. last \in [Kinds -> Nat]
      BY <1>4
    <3>2. last["UP"] + last["NONE"] + last["DOWN"] + last["OPPOS"] = L
      BY <2>4 DEF CountsPartition
    <3>3. \A c \in Kinds : new[c] = last[c] + (IF k = c THEN 1 ELSE 0)
      BY <1>8
    <3> HIDE DEF last
    <3>4. k \in {"UP", "NONE", "DOWN", "OPPOS"}
      BY <1>1 DEF Kinds, Trends
    <3>5. "UP" \in Kinds /\ "NONE" \in Kinds /\ "DOWN" \in Kinds /\ "OPPOS" \in Kinds
      BY DEF Kinds, Trends
    <3>6. PICK u \in Nat, v \in Nat, w \in Nat, x \in Nat :
             last["UP"] = u /\ last["NONE"] = v /\ last["DOWN"] = w /\ last["OPPOS"] = x
      BY <3>1, <3>5
    <3>7. /\ new["UP"] = u + (IF k = "UP" THEN 1 ELSE 0)
          /\ new["NONE"] = v + (IF k = "NONE" THEN 1 ELSE 0)
          /\ new["DOWN"] = w + (IF k = "DOWN" THEN 1 ELSE 0)
          /\ new["OPPOS"] = x + (IF k = "OPPOS" THEN 1 ELSE 0)
      BY <3>3, <3>5, <3>6
    <3> QED
      BY <3>2, <3>4, <3>6, <3>7
  <2>7. ASSUME NEW i \in (0 .. counted - 1)'
        PROVE  /\ \A c \in Kinds : Counts(i)'[c] = Many(c, i)'
               /\ Counts(i)'["UP"] + Counts(i)'["NONE"]
                    + Counts(i)'["DOWN"] + Counts(i)'["OPPOS"] = i
    <3>1. i \in 0 .. L \/ i = L + 1
      BY <1>3, <2>1
    <3> QED
      BY <2>2, <2>3, <2>5, <2>6, <3>1
  <2> QED
    BY <2>7 DEF CountsPartition
<1> QED
  BY <1>10, <1>13
-----------------------------------------------------------------------------
(* The loop that numbers *)

\* The trends that the tests before place o of frame i have numbered
Reached(i, o) ==
    {u \in Long : Where(u) < i \/ (Where(u) = i /\ Order[u] < o)}

Rank(t) == 1 + Cardinality({u \in Long : Before(u, t)})

\* Before place o of frame i: what is reached has its rank, and the next slot
\* follows.
Numbered(s, i, o) ==
    /\ s.code \in [Trends -> Nat]
    /\ s.next = 1 + Cardinality(Reached(i, o))
    /\ \A t \in Trends : s.code[t] = IF t \in Reached(i, o) THEN Rank(t) ELSE 0

SlotsNumbered == Numbered(slots, scanned + 1, 1)

LEMMA TrendsFinite ==
    ASSUME NEW S, S \subseteq Trends
    PROVE  IsFiniteSet(S) /\ Cardinality(S) \in Nat
<1>1. IsFiniteSet({"UP"})
  BY FS_Singleton
<1>2. IsFiniteSet({"UP"} \cup {"NONE"})
  BY <1>1, FS_AddElement
<1>3. IsFiniteSet(({"UP"} \cup {"NONE"}) \cup {"DOWN"})
  BY <1>2, FS_AddElement
<1>4. Trends = ({"UP"} \cup {"NONE"}) \cup {"DOWN"}
  BY DEF Trends
<1>5. IsFiniteSet(Trends)
  BY <1>3, <1>4
<1>6. IsFiniteSet(S)
  BY <1>5, FS_Subset
<1> QED
  BY <1>6, FS_CardinalityType

\* A mark is what the tally of the whole contact gives.
LEMMA Halves ==
    ASSUME LoopsOK, CountsPartition
    PROVE  \A t \in Trends :
              /\ Many(t, Len(kinds)) \in Nat /\ Half(t) \in Nat
              /\ Many(t, Len(kinds)) <= Len(kinds)
              /\ Half(t) <= Many(t, Len(kinds))
              /\ Half(t) > 1 <=> t \in Long
              /\ \A i \in 1 .. Len(kinds) :
                    Marked(t, i) <=> Many(t, i) >= Half(t) /\ t \in Long
<1> SUFFICES ASSUME NEW t \in Trends
             PROVE  /\ Many(t, Len(kinds)) \in Nat /\ Half(t) \in Nat
                    /\ Many(t, Len(kinds)) <= Len(kinds)
                    /\ Half(t) <= Many(t, Len(kinds))
                    /\ Half(t) > 1 <=> t \in Long
                    /\ \A i \in 1 .. Len(kinds) :
                          Marked(t, i) <=> Many(t, i) >= Half(t) /\ t \in Long
  OBVIOUS
<1> DEFINE L == Len(kinds)
           m == Many(t, L)
<1>1. L \in Nat /\ counted = L + 1 /\ pad \in Seq([Kinds -> Nat]) /\ Len(pad) = L + 1
  BY DEF LoopsOK, counted
<1>2. t \in Kinds
  BY DEF Kinds
<1>3. \A i \in 0 .. L : Counts(i)[t] = Many(t, i) /\ Counts(i) \in [Kinds -> Nat]
  BY <1>1, <1>2 DEF CountsPartition, Counts
<1>4. Counts(L)["UP"] + Counts(L)["NONE"] + Counts(L)["DOWN"] + Counts(L)["OPPOS"] = L
  BY <1>1 DEF CountsPartition
<1>5. Counts(L) \in [Kinds -> Nat] /\ Counts(L)[t] = m
  BY <1>1, <1>3
<1>6. m \in Nat /\ m <= L
  <2>1. "UP" \in Kinds /\ "NONE" \in Kinds /\ "DOWN" \in Kinds /\ "OPPOS" \in Kinds
    BY DEF Kinds, Trends
  <2>2. /\ Counts(L)["UP"] \in Nat /\ Counts(L)["NONE"] \in Nat
        /\ Counts(L)["DOWN"] \in Nat /\ Counts(L)["OPPOS"] \in Nat
    BY <1>5, <2>1
  <2>3. t = "UP" \/ t = "NONE" \/ t = "DOWN"
    BY DEF Trends
  <2>4. PICK u \in Nat, v \in Nat, w \in Nat, x \in Nat :
           /\ Counts(L)["UP"] = u /\ Counts(L)["NONE"] = v
           /\ Counts(L)["DOWN"] = w /\ Counts(L)["OPPOS"] = x
    BY <2>2
  <2>5. m = u \/ m = v \/ m = w
    BY <1>5, <2>3, <2>4
  <2>6. u + v + w + x = L
    BY <1>4, <2>4
  <2> HIDE DEF m, L
  <2> QED
    BY <2>5, <2>6
<1>7. Half(t) = m \div 2
  BY DEF Half
<1>8. t \in Long <=> m >= 4
  BY DEF Long
<1>9. Last = Counts(L)
  BY <1>1 DEF Last
<1>10. Mark(t) = Half(t)
  BY <1>5, <1>7, <1>9 DEF Mark
<1>11. \A i \in 1 .. L : Marked(t, i) <=> Many(t, i) >= Half(t) /\ Half(t) > 1
  BY <1>1, <1>3, <1>10 DEF Marked
<1> HIDE DEF m
<1>12. Half(t) \in Nat /\ Half(t) <= m /\ (Half(t) > 1 <=> m >= 4)
  BY <1>6, <1>7
<1> QED
  BY <1>6, <1>8, <1>11, <1>12 DEF m

\* Where a trend comes half of its way
LEMMA WhereIs ==
    ASSUME LoopsOK, CountsPartition, NEW t \in Long
    PROVE  /\ Where(t) \in 1 .. Len(kinds)
           /\ Many(t, Where(t)) >= Half(t)
           /\ \A i \in 1 .. Len(kinds) : Many(t, i) >= Half(t) => Where(t) <= i
<1> DEFINE S == {i \in 1 .. Len(kinds) : Many(t, i) >= Half(t)}
<1>1. t \in Trends /\ Many(t, Len(kinds)) >= 4
  BY DEF Long
<1>2. Len(kinds) \in Nat
  BY DEF LoopsOK
<1>3. Len(kinds) \in S
  BY <1>1, <1>2, Halves
<1>4. S \subseteq Nat
  BY <1>2
<1>5. Where(t) = Min(S)
  BY DEF Where
<1>6. Min(S) \in S /\ \A j \in S : Min(S) <= j
  BY <1>3, <1>4, LeastMember
<1> QED
  BY <1>5, <1>6

LEMMA NoneReached ==
    ASSUME LoopsOK, CountsPartition
    PROVE  Reached(1, 1) = {} /\ Cardinality(Reached(1, 1)) = 0
<1>1. \A u \in Long : Where(u) \in Nat /\ Where(u) >= 1
  BY WhereIs DEF LoopsOK
<1>2. \A u \in Long : Order[u] \in {1, 2, 3}
  BY DEF Long, Trends, Order
<1>3. Reached(1, 1) = {}
  BY <1>1, <1>2 DEF Reached
<1> QED
  BY <1>3, FS_EmptySet

\* The test of one trend
LEMMA NumberStep ==
    ASSUME LoopsOK, CountsPartition,
           NEW s, NEW t \in Trends, NEW i \in 1 .. Len(kinds), NEW o \in Nat,
           Order[t] = o, Numbered(s, i, o)
    PROVE  Numbered(Number(s, t, i), i, o + 1)
<1> DEFINE R == Reached(i, o)
<1>1. \A u \in Long : u \in Trends /\ Where(u) \in Nat
  BY WhereIs DEF LoopsOK, Long
<1>2. \A u \in Trends : Order[u] \in Nat /\ (Order[u] = o => u = t)
  BY DEF Order, Trends
<1>3. R \subseteq Trends /\ IsFiniteSet(R) /\ Cardinality(R) \in Nat
  <2>1. R \subseteq Trends
    BY <1>1 DEF Reached
  <2> QED
    BY <2>1, TrendsFinite
<1>4. \A u \in Trends : Rank(u) \in Nat /\ Rank(u) >= 1
  <2> SUFFICES ASSUME NEW u \in Trends PROVE Rank(u) \in Nat /\ Rank(u) >= 1
    OBVIOUS
  <2>1. {v \in Long : Before(v, u)} \subseteq Trends
    BY <1>1
  <2>2. Cardinality({v \in Long : Before(v, u)}) \in Nat
    BY <2>1, TrendsFinite
  <2> QED
    BY <2>2 DEF Rank
<1>5. Marked(t, i) <=> Many(t, i) >= Half(t) /\ t \in Long
  BY Halves
<1>6. CASE t \in Long /\ Where(t) = i
  <2>1. Marked(t, i)
    BY <1>5, <1>6, WhereIs
  <2>2. ~(t \in R)
    BY <1>1, <1>2, <1>6 DEF Reached
  <2>3. s.code[t] = 0
    BY <2>2 DEF Numbered
  <2>4. Number(s, t, i) = [code |-> [s.code EXCEPT ![t] = s.next], next |-> s.next + 1]
    BY <2>1, <2>3 DEF Number
  <2>5. Reached(i, o + 1) = R \cup {t}
    BY <1>1, <1>2, <1>6 DEF Reached
  <2>6. Cardinality(R \cup {t}) = Cardinality(R) + 1
    BY <1>3, <2>2, FS_AddElement
  <2>7. R = {u \in Long : Before(u, t)}
    BY <1>1, <1>2, <1>6 DEF Reached, Before
  <2>8. s.next = Rank(t)
    BY <2>7 DEF Numbered, Rank
  <2> DEFINE new == [s.code EXCEPT ![t] = s.next]
  <2>9. new \in [Trends -> Nat] /\ \A u \in Trends : new[u] = IF u = t THEN Rank(t) ELSE s.code[u]
    BY <1>4, <2>8 DEF Numbered
  <2>10. Number(s, t, i).code = new /\ Number(s, t, i).next = s.next + 1
    BY <2>4
  <2> HIDE DEF new, R
  <2>11. \A u \in Trends : new[u] = IF u \in Reached(i, o + 1) THEN Rank(u) ELSE 0
    <3> SUFFICES ASSUME NEW u \in Trends
                 PROVE  new[u] = IF u \in Reached(i, o + 1) THEN Rank(u) ELSE 0
      OBVIOUS
    <3>1. s.code[u] = IF u \in R THEN Rank(u) ELSE 0
      BY DEF Numbered, R
    <3> QED
      BY <2>5, <2>9, <3>1
  <2>12. s.next + 1 = 1 + Cardinality(Reached(i, o + 1))
    <3>1. s.next = 1 + Cardinality(R)
      BY DEF Numbered, R
    <3>2. Cardinality(Reached(i, o + 1)) = Cardinality(R) + 1
      BY <2>5, <2>6
    <3> QED
      BY <1>3, <3>1, <3>2
  <2> QED
    BY <2>9, <2>10, <2>11, <2>12 DEF Numbered
<1>7. CASE ~(t \in Long /\ Where(t) = i)
  <2>1. Reached(i, o + 1) = R
    BY <1>1, <1>2, <1>7 DEF Reached
  <2>2. ~(Marked(t, i) /\ s.code[t] = 0)
    <3>1. CASE ~(t \in Long)
      BY <1>5, <3>1
    <3>2. CASE t \in Long /\ Where(t) < i
      <4>1. t \in R
        BY <3>2 DEF Reached
      <4>2. s.code[t] = Rank(t)
        BY <4>1 DEF Numbered
      <4> QED
        BY <1>4, <4>2
    <3>3. CASE t \in Long /\ Where(t) > i
      BY <1>1, <1>5, <3>3, WhereIs
    <3> QED
      BY <1>1, <1>7, <3>1, <3>2, <3>3
  <2>3. Number(s, t, i) = s
    BY <2>2 DEF Number
  <2> QED
    BY <2>1, <2>3 DEF Numbered
<1> QED
  BY <1>6, <1>7

\* One pass of the loop takes the numbering over a frame.
LEMMA PassStep ==
    ASSUME LoopsOK, CountsPartition,
           NEW s, NEW i \in 1 .. Len(kinds), Numbered(s, i, 1)
    PROVE  Numbered(Pass(s, i), i + 1, 1)
<1> DEFINE a == Number(s, "UP", i)
           b == Number(a, "NONE", i)
           c == Number(b, "DOWN", i)
<1>1. /\ "UP" \in Trends /\ "NONE" \in Trends /\ "DOWN" \in Trends
      /\ Order["UP"] = 1 /\ Order["NONE"] = 2 /\ Order["DOWN"] = 3
  BY DEF Trends, Order
<1>2. Pass(s, i) = c
  BY DEF Pass
<1> HIDE DEF a, b, c
<1>3. Numbered(a, i, 1 + 1)
  BY <1>1, NumberStep DEF a
<1>4. Numbered(a, i, 2)
  BY <1>3
<1>5. Numbered(b, i, 2 + 1)
  BY <1>1, <1>4, NumberStep DEF b
<1>6. Numbered(b, i, 3)
  BY <1>5
<1>7. Numbered(c, i, 3 + 1)
  BY <1>1, <1>6, NumberStep DEF c
<1>8. Reached(i, 3 + 1) = Reached(i + 1, 1)
  <2>1. \A u \in Long : Where(u) \in Nat
    BY WhereIs DEF LoopsOK
  <2>2. \A u \in Long : Order[u] \in {1, 2, 3}
    BY DEF Long, Order, Trends
  <2> QED
    BY <2>1, <2>2 DEF Reached
<1> QED
  BY <1>2, <1>7, <1>8 DEF Numbered

-----------------------------------------------------------------------------
(* The theorems about the co-trends *)

TrendInv == LoopsOK /\ CountsPartition /\ SlotsNumbered

LEMMA TrendInvInit == TrendInit => TrendInv
<1> SUFFICES ASSUME TrendInit PROVE TrendInv
  OBVIOUS
<1>1. LoopsOK /\ CountsPartition
  BY LoopsInit
<1>2. Reached(1, 1) = {} /\ Cardinality(Reached(1, 1)) = 0
  BY <1>1, NoneReached
<1>3. scanned + 1 = 1 /\ slots.code = [t \in Trends |-> 0] /\ slots.next = 1
  BY DEF TrendInit
<1>4. Numbered(slots, 1, 1)
  BY <1>2, <1>3 DEF Numbered
<1> QED
  BY <1>1, <1>3, <1>4 DEF TrendInv, SlotsNumbered

LEMMA TrendFrameInv ==
    ASSUME TrendInv, NEW dY \in dYs, NEW dYTip \in dYtips, TrendFrame(dY, dYTip)
    PROVE  TrendInv'
<1>1. LoopsOK' /\ CountsPartition'
  BY FrameCounts DEF TrendInv
<1>2. Reached(1, 1) = {} /\ Cardinality(Reached(1, 1)) = 0
  BY NoneReached DEF TrendInv
<1>3. (Reached(1, 1) = {} /\ Cardinality(Reached(1, 1)) = 0)'
  <2>1. (LoopsOK /\ CountsPartition => Reached(1, 1) = {} /\ Cardinality(Reached(1, 1)) = 0)'
    BY NoneReached, PTL
  <2> QED
    BY <1>1, <2>1
<1>4. scanned = 0 /\ scanned' = 0 /\ slots' = slots
  BY DEF TrendFrame
<1>5. Numbered(slots, 1, 1)
  BY <1>4 DEF TrendInv, SlotsNumbered
<1>6. Numbered(slots, 1, 1)'
  BY <1>2, <1>3, <1>4, <1>5 DEF Numbered
<1>7. SlotsNumbered'
  BY <1>4, <1>6 DEF SlotsNumbered
<1> QED
  BY <1>1, <1>7 DEF TrendInv

LEMMA ScanInv ==
    ASSUME TrendInv, Scan
    PROVE  TrendInv'
<1>1. LoopsOK /\ CountsPartition /\ Numbered(slots, scanned + 1, 1)
  BY DEF TrendInv, SlotsNumbered
<1>2. /\ kinds' = kinds /\ pad' = pad /\ scanned' = scanned + 1
      /\ slots' = Pass(slots, scanned + 1) /\ scanned < counted - 1
  BY DEF Scan
<1>3. scanned + 1 \in 1 .. Len(kinds)
  BY <1>1, <1>2 DEF LoopsOK, counted
<1>4. LoopsOK'
  BY <1>1, <1>2, <1>3 DEF LoopsOK
<1>5. CountsPartition'
  BY <1>1, <1>2 DEF CountsPartition, Counts, counted, Many
<1>6. Numbered(slots', scanned + 2, 1)
  <2>1. Numbered(Pass(slots, scanned + 1), (scanned + 1) + 1, 1)
    BY <1>1, <1>3, PassStep
  <2>2. (scanned + 1) + 1 = scanned + 2
    BY <1>1 DEF LoopsOK
  <2> QED
    BY <1>2, <2>1, <2>2
<1>7. Numbered(slots, scanned + 1, 1)' <=> Numbered(slots', scanned' + 1, 1)
  BY <1>2 DEF Numbered, Reached, Rank, Long, Before, Where, Half, Many
<1>8. scanned' + 1 = scanned + 2
  BY <1>1, <1>2 DEF LoopsOK
<1>9. SlotsNumbered'
  BY <1>6, <1>7, <1>8 DEF SlotsNumbered
<1> QED
  BY <1>4, <1>5, <1>9 DEF TrendInv

THEOREM TrendInductive == TrendSpec => []TrendInv
<1>1. ASSUME TrendInv, [TrendNext]_trendVars PROVE TrendInv'
  <2>1. CASE \E dY \in dYs, dYTip \in dYtips : TrendFrame(dY, dYTip)
    BY <1>1, <2>1, TrendFrameInv
  <2>2. CASE Scan
    BY <1>1, <2>2, ScanInv
  <2>3. CASE UNCHANGED trendVars
    <3>1. kinds' = kinds /\ pad' = pad /\ scanned' = scanned /\ slots' = slots
      BY <2>3 DEF trendVars
    <3>2. LoopsOK'
      BY <1>1, <3>1 DEF TrendInv, LoopsOK
    <3>3. CountsPartition'
      BY <1>1, <3>1 DEF TrendInv, CountsPartition, Counts, counted, Many
    <3>4. SlotsNumbered' <=> SlotsNumbered
      BY <3>1 DEF SlotsNumbered, Numbered, Reached, Rank, Long, Before, Where, Half, Many
    <3> QED
      BY <1>1, <3>2, <3>3, <3>4 DEF TrendInv
  <2> QED
    BY <1>1, <2>1, <2>2, <2>3 DEF TrendNext
<1> QED
  BY <1>1, TrendInvInit, PTL DEF TrendSpec

\* Each frame counts for exactly one kind, and the counts left at a frame are
\* those of the contact up to it, for every slope and every length of contact
\* (recognizer.c:678-709).
THEOREM CountsCorrect == TrendSpec => []CountsPartition
<1>1. TrendInv => CountsPartition
  BY DEF TrendInv
<1> QED
  BY <1>1, TrendInductive, PTL

\* The second loop numbers the trends of four frames or more without a gap, in
\* the order in which they come half of their way (recognizer.c:712-732).
THEOREM SlotsCorrect == TrendSpec => []SlotsInOrder
<1>1. TrendInv => SlotsInOrder
  <2> SUFFICES ASSUME TrendInv PROVE SlotsInOrder
    OBVIOUS
  <2>1. LoopsOK /\ CountsPartition /\ Numbered(slots, scanned + 1, 1) /\ scanned \in Nat
    BY DEF TrendInv, SlotsNumbered, LoopsOK
  <2>2. \A u \in Long : Where(u) \in Nat
    BY <2>1, WhereIs DEF LoopsOK
  <2>3. \A u \in Long : Order[u] \in {1, 2, 3}
    BY DEF Long, Order, Trends
  <2>4. \A t : t \in Reached(scanned + 1, 1) <=> t \in Long /\ Where(t) <= scanned
    BY <2>1, <2>2, <2>3 DEF Reached
  <2> QED
    BY <2>1, <2>4 DEF SlotsInOrder, Numbered, Rank
<1> QED
  BY <1>1, TrendInductive, PTL
=============================================================================
