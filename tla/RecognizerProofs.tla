-------------------------- MODULE RecognizerProofs --------------------------
(***************************************************************************)
(* Proofs about Recognizer: for contacts of every length below the limit,  *)
(* every velocity of the finger and every size of a sensor of up to 1023   *)
(* lines, the decision tree leaves no contact without a gesture, does not  *)
(* contradict the movement of the finger, and the peak that it tests for   *)
(* a tap is the weight of the frames that point backwards.                 *)
(***************************************************************************)
EXTENDS Recognizer, FiniteSetTheorems, WellFoundedInduction, TLAPS

-----------------------------------------------------------------------------
(* The least of some numbers, and the smallest of some sets *)

LEMMA LeastNumber ==
    ASSUME NEW S, S \subseteq Nat, S # {}
    PROVE  \E m \in S : \A j \in S : m <= j
<1> DEFINE R == OpToRel(<, Nat)
<1>1. IsWellFoundedOn(R, Nat)
  BY NatLessThanWellFounded
<1>2. R = {ss \in Nat \X Nat : ss[1] < ss[2]}
  BY DEF OpToRel
<1> HIDE DEF R
<1>3. PICK x \in S : \A y \in S : ~(<<y, x>> \in R)
  BY <1>1, WFMin
<1>4. ASSUME NEW y \in S PROVE x <= y
  <2>1. ~(<<y, x>>[1] < <<y, x>>[2])
    BY <1>2, <1>3
  <2> QED
    BY <2>1
<1> QED
  BY <1>4

LEMMA LeastIsMin ==
    ASSUME NEW S, S \subseteq Nat, S # {}
    PROVE  Min(S) \in S /\ \A j \in S : Min(S) <= j
BY LeastNumber DEF Min

\* Of some subsets of a finite set, one has no smaller one among them.
LEMMA SmallestSet ==
    ASSUME NEW U, IsFiniteSet(U), NEW Bad, Bad \subseteq SUBSET U, Bad # {}
    PROVE  \E s \in Bad : \A t \in SUBSET s : t # s => t \notin Bad
<1> DEFINE sizes == {Cardinality(s) : s \in Bad}
<1>1. \A s \in SUBSET U : IsFiniteSet(s) /\ Cardinality(s) \in Nat
  BY FS_Subset, FS_CardinalityType
<1>2. sizes \subseteq Nat /\ sizes # {}
  BY <1>1
<1>3. PICK m \in sizes : \A j \in sizes : m <= j
  BY <1>2, LeastNumber
<1>4. PICK s \in Bad : Cardinality(s) = m
  BY <1>3
<1>5. ASSUME NEW t \in SUBSET s, t # s, t \in Bad PROVE FALSE
  <2>1. IsFiniteSet(s) /\ Cardinality(s) \in Nat /\ Cardinality(t) \in Nat
    BY <1>1, <1>5
  <2>2. Cardinality(t) <= Cardinality(s) /\ Cardinality(s) # Cardinality(t)
    BY <1>5, <2>1, FS_Subset
  <2>3. Cardinality(s) <= Cardinality(t)
    BY <1>3, <1>4, <1>5
  <2> QED
    BY <2>1, <2>2, <2>3
<1> QED
  BY <1>4, <1>5

-----------------------------------------------------------------------------
(* Sums over finite sets *)

Pick(s) == CHOOSE x \in s : TRUE

Summing(w, S, f) ==
    f = [s \in SUBSET S |-> IF s = {} THEN 0 ELSE w[Pick(s)] + f[s \ {Pick(s)}]]

LEMMA SumIs ==
    \A w, S : SumFunctionOnSet(w, S) = (CHOOSE f : Summing(w, S, f))[S]
BY DEF SumFunctionOnSet, FoldFunctionOnSet, MapThenFoldSet, Summing, Pick

LEMMA PickIn == \A s : s # {} => Pick(s) \in s
BY DEF Pick

\* Two of these functions agree where both are defined.
LEMMA SameSums ==
    ASSUME NEW w, NEW A, NEW B, NEW T, IsFiniteSet(T), T \subseteq A, T \subseteq B,
           NEW f, NEW g, Summing(w, A, f), Summing(w, B, g)
    PROVE  f[T] = g[T]
<1> DEFINE Bad == {s \in SUBSET T : f[s] # g[s]}
<1>1. ASSUME Bad # {} PROVE FALSE
  <2>1. PICK s \in Bad : \A t \in SUBSET s : t # s => t \notin Bad
    <3>1. Bad \subseteq SUBSET T
      OBVIOUS
    <3> HIDE DEF Bad
    <3> QED
      BY <3>1, <1>1, SmallestSet
  <2>2. s \in SUBSET A /\ s \in SUBSET B
    OBVIOUS
  <2>3. /\ f[s] = IF s = {} THEN 0 ELSE w[Pick(s)] + f[s \ {Pick(s)}]
        /\ g[s] = IF s = {} THEN 0 ELSE w[Pick(s)] + g[s \ {Pick(s)}]
    BY <2>2 DEF Summing
  <2>4. s # {}
    BY <2>3
  <2>5. f[s \ {Pick(s)}] = g[s \ {Pick(s)}]
    BY <2>1, <2>4, PickIn
  <2> QED
    BY <2>3, <2>5
<1> QED
  BY <1>1

\* What a sum is where it and the one of a frame less exist
LEMMA SumStep ==
    ASSUME NEW w, NEW S, IsFiniteSet(S),
           \E f : Summing(w, S, f), \E f : Summing(w, S \ {Pick(S)}, f)
    PROVE  SumFunctionOnSet(w, S)
             = IF S = {} THEN 0
               ELSE w[Pick(S)] + SumFunctionOnSet(w, S \ {Pick(S)})
<1> DEFINE R == S \ {Pick(S)}
           f == CHOOSE h : Summing(w, S, h)
           g == CHOOSE h : Summing(w, R, h)
<1>1. Summing(w, S, f) /\ Summing(w, R, g)
  OBVIOUS
<1>2. SumFunctionOnSet(w, S) = f[S] /\ SumFunctionOnSet(w, R) = g[R]
  BY SumIs
<1>3. f[S] = IF S = {} THEN 0 ELSE w[Pick(S)] + f[R]
  <2> HIDE DEF f
  <2> QED
    BY <1>1 DEF Summing
<1>4. IsFiniteSet(R) /\ R \subseteq S
  BY FS_RemoveElement
<1> HIDE DEF f, g, R
<1>5. f[R] = g[R]
  BY <1>1, <1>4, SameSums
<1> QED
  BY <1>2, <1>3, <1>5 DEF R

LEMMA SumExists ==
    ASSUME NEW w, NEW U, IsFiniteSet(U)
    PROVE  \E f : Summing(w, U, f)
<1> DEFINE Bad == {s \in SUBSET U : ~ \E f : Summing(w, s, f)}
<1>1. ASSUME Bad # {} PROVE FALSE
  <2>1. PICK s \in Bad : \A t \in SUBSET s : t # s => t \notin Bad
    <3>1. Bad \subseteq SUBSET U
      OBVIOUS
    <3> HIDE DEF Bad
    <3> QED
      BY <3>1, <1>1, SmallestSet
  <2> HIDE DEF Bad
  <2>2. s \in SUBSET U /\ ~ \E f : Summing(w, s, f)
    BY <2>1 DEF Bad
  <2>3. \A t \in SUBSET s : t # s => \E f : Summing(w, t, f)
    BY <2>1, <2>2 DEF Bad
  <2> DEFINE Less(t) == IF t = {} THEN 0
                        ELSE w[Pick(t)] + SumFunctionOnSet(w, t \ {Pick(t)})
             h == [t \in SUBSET s |-> Less(t)]
  <2>4. ASSUME NEW t \in SUBSET s, t # {} PROVE h[t \ {Pick(t)}] = SumFunctionOnSet(w, t \ {Pick(t)})
    <3> DEFINE r == t \ {Pick(t)}
    <3>1. r \in SUBSET s /\ r # s
      BY <2>4, PickIn
    <3>2. r \ {Pick(r)} \in SUBSET s /\ r \ {Pick(r)} # s
      BY <3>1
    <3>3. IsFiniteSet(r)
      BY <2>2, FS_Subset
    <3> HIDE DEF r
    <3>4. SumFunctionOnSet(w, r) = Less(r)
      BY <2>3, <3>1, <3>2, <3>3, SumStep
    <3> QED
      BY <3>1, <3>4 DEF r
  <2>5. h = [t \in SUBSET s |-> IF t = {} THEN 0 ELSE w[Pick(t)] + h[t \ {Pick(t)}]]
    <3>1. \A t \in SUBSET s : Less(t) = IF t = {} THEN 0 ELSE w[Pick(t)] + h[t \ {Pick(t)}]
      BY <2>4
    <3> HIDE DEF Less
    <3>2. h = [t \in SUBSET s |-> Less(t)]
      OBVIOUS
    <3> HIDE DEF h
    <3> QED
      BY <3>1, <3>2
  <2> HIDE DEF h
  <2>6. Summing(w, s, h)
    BY <2>5 DEF Summing
  <2> QED
    BY <2>2, <2>6
<1> QED
  BY <1>1

LEMMA SumUnfold ==
    ASSUME NEW w, NEW S, IsFiniteSet(S)
    PROVE  SumFunctionOnSet(w, S)
             = IF S = {} THEN 0
               ELSE w[Pick(S)] + SumFunctionOnSet(w, S \ {Pick(S)})
<1>1. IsFiniteSet(S \ {Pick(S)})
  BY FS_RemoveElement
<1> QED
  BY <1>1, SumExists, SumStep

LEMMA SumInt ==
    ASSUME NEW w, NEW U, IsFiniteSet(U), \A i \in U : w[i] \in Int
    PROVE  SumFunctionOnSet(w, U) \in Int
<1> DEFINE Bad == {s \in SUBSET U : SumFunctionOnSet(w, s) \notin Int}
<1>1. ASSUME Bad # {} PROVE FALSE
  <2>1. PICK s \in Bad : \A t \in SUBSET s : t # s => t \notin Bad
    <3>1. Bad \subseteq SUBSET U
      OBVIOUS
    <3> HIDE DEF Bad
    <3> QED
      BY <3>1, <1>1, SmallestSet
  <2>2. IsFiniteSet(s)
    BY FS_Subset
  <2>3. /\ s = {} => SumFunctionOnSet(w, s) = 0
        /\ s # {} => SumFunctionOnSet(w, s) = w[Pick(s)] + SumFunctionOnSet(w, s \ {Pick(s)})
    BY <2>2, SumUnfold
  <2>4. s # {}
    BY <2>3
  <2>5. Pick(s) \in s /\ Pick(s) \in U
    BY <2>4, PickIn
  <2>6. SumFunctionOnSet(w, s \ {Pick(s)}) \in Int
    BY <2>1, <2>5
  <2> QED
    BY <2>3, <2>4, <2>5, <2>6
<1> QED
  BY <1>1

LEMMA SumZero ==
    ASSUME NEW w, NEW U, IsFiniteSet(U), \A i \in U : w[i] = 0
    PROVE  SumFunctionOnSet(w, U) = 0
<1> DEFINE Bad == {s \in SUBSET U : SumFunctionOnSet(w, s) # 0}
<1>1. ASSUME Bad # {} PROVE FALSE
  <2>1. PICK s \in Bad : \A t \in SUBSET s : t # s => t \notin Bad
    <3>1. Bad \subseteq SUBSET U
      OBVIOUS
    <3> HIDE DEF Bad
    <3> QED
      BY <3>1, <1>1, SmallestSet
  <2>2. IsFiniteSet(s)
    BY FS_Subset
  <2>3. /\ s = {} => SumFunctionOnSet(w, s) = 0
        /\ s # {} => SumFunctionOnSet(w, s) = w[Pick(s)] + SumFunctionOnSet(w, s \ {Pick(s)})
    BY <2>2, SumUnfold
  <2>4. s # {}
    BY <2>3
  <2>5. Pick(s) \in s /\ Pick(s) \in U
    BY <2>4, PickIn
  <2>6. SumFunctionOnSet(w, s \ {Pick(s)}) = 0
    BY <2>1, <2>5
  <2> QED
    BY <2>3, <2>4, <2>5, <2>6
<1> QED
  BY <1>1

\* A sum does not depend on the order in which it is taken.
LEMMA SumAdd ==
    ASSUME NEW w, NEW U, IsFiniteSet(U), \A i \in U : w[i] \in Int,
           NEW S, S \subseteq U, NEW x \in U \ S
    PROVE  SumFunctionOnSet(w, S \cup {x}) = w[x] + SumFunctionOnSet(w, S)
<1> DEFINE Sum(s) == SumFunctionOnSet(w, s)
           Bad == {s \in SUBSET U : \E y \in U \ s : Sum(s \cup {y}) # w[y] + Sum(s)}
<1>1. \A s \in SUBSET U : IsFiniteSet(s) /\ Sum(s) \in Int
  <2> SUFFICES ASSUME NEW s \in SUBSET U PROVE IsFiniteSet(s) /\ Sum(s) \in Int
    OBVIOUS
  <2>1. IsFiniteSet(s)
    BY FS_Subset
  <2> QED
    BY <2>1, SumInt
<1>2. \A s \in SUBSET U : s # {} => Sum(s) = w[Pick(s)] + Sum(s \ {Pick(s)})
  BY <1>1, SumUnfold
<1> HIDE DEF Sum
<1>3. ASSUME Bad # {} PROVE FALSE
  <2>1. PICK s \in Bad : \A t \in SUBSET s : t # s => t \notin Bad
    <3>1. Bad \subseteq SUBSET U
      OBVIOUS
    <3> HIDE DEF Bad
    <3> QED
      BY <3>1, <1>3, SmallestSet
  <2>2. PICK y \in U \ s : Sum(s \cup {y}) # w[y] + Sum(s)
    BY <2>1
  <2> DEFINE p == Pick(s \cup {y})
  <2>3. p \in s \cup {y}
    BY PickIn
  <2>4. Sum(s \cup {y}) = w[p] + Sum((s \cup {y}) \ {p})
    BY <1>2, <2>2
  <2> HIDE DEF p
  <2>5. CASE p = y
    <3>1. (s \cup {y}) \ {p} = s
      BY <2>2, <2>5
    <3> QED
      BY <2>2, <2>4, <2>5, <3>1
  <2>6. CASE p # y
    <3> DEFINE r == s \ {p}
    <3>1. p \in s /\ r \in SUBSET s /\ r # s /\ r \in SUBSET U /\ p \in U \ r /\ y \in U \ r
      BY <2>2, <2>3, <2>6
    <3>2. r \notin Bad
      BY <2>1, <3>1
    <3>3. (s \cup {y}) \ {p} = r \cup {y} /\ s = r \cup {p}
      BY <2>6, <3>1
    <3> HIDE DEF r
    <3>4. Sum(r \cup {y}) = w[y] + Sum(r) /\ Sum(r \cup {p}) = w[p] + Sum(r)
      BY <3>1, <3>2
    <3>5. Sum(r) \in Int /\ w[p] \in Int /\ w[y] \in Int
      BY <1>1, <3>1
    <3>6. Sum(s \cup {y}) = w[p] + (w[y] + Sum(r)) /\ Sum(s) = w[p] + Sum(r)
      BY <2>4, <3>3, <3>4
    <3> QED
      BY <2>2, <3>5, <3>6
  <2> QED
    BY <2>5, <2>6
<1>4. S \notin Bad
  BY <1>3
<1> QED
  BY <1>4 DEF Sum

\* The sum over two parts
LEMMA SumSplit ==
    ASSUME NEW w, NEW U, IsFiniteSet(U), \A i \in U : w[i] \in Int,
           NEW A, A \subseteq U, NEW B, B \subseteq U, A \cap B = {}
    PROVE  SumFunctionOnSet(w, A \cup B) = SumFunctionOnSet(w, A) + SumFunctionOnSet(w, B)
<1> DEFINE Sum(s) == SumFunctionOnSet(w, s)
           Bad == {s \in SUBSET B : Sum(A \cup s) # Sum(A) + Sum(s)}
<1>1. \A s \in SUBSET U : IsFiniteSet(s) /\ Sum(s) \in Int
  <2> SUFFICES ASSUME NEW s \in SUBSET U PROVE IsFiniteSet(s) /\ Sum(s) \in Int
    OBVIOUS
  <2>1. IsFiniteSet(s)
    BY FS_Subset
  <2> QED
    BY <2>1, SumInt
<1>2. Sum({}) = 0
  BY FS_EmptySet, SumUnfold
<1>3. \A s \in SUBSET U : \A x \in U \ s : Sum(s \cup {x}) = w[x] + Sum(s)
  BY SumAdd
<1> HIDE DEF Sum
<1>4. ASSUME Bad # {} PROVE FALSE
  <2>0. IsFiniteSet(B)
    BY FS_Subset
  <2>1. PICK s \in Bad : \A t \in SUBSET s : t # s => t \notin Bad
    <3>1. Bad \subseteq SUBSET B
      OBVIOUS
    <3> HIDE DEF Bad
    <3> QED
      BY <3>1, <1>4, <2>0, SmallestSet
  <2>2. s # {}
    <3> SUFFICES ASSUME s = {} PROVE FALSE
      OBVIOUS
    <3>1. A \cup s = A /\ Sum(A) \in Int /\ Sum(s) = 0
      BY <1>1, <1>2
    <3>2. Sum(A \cup s) = Sum(A) + Sum(s)
      BY <3>1
    <3> QED
      BY <2>1, <3>2
  <2>3. PICK x \in s : TRUE
    BY <2>2
  <2> DEFINE r == s \ {x}
  <2>4. /\ r \in SUBSET s /\ r # s /\ s = r \cup {x} /\ A \cup s = (A \cup r) \cup {x}
        /\ r \in SUBSET U /\ x \in U \ r /\ A \cup r \in SUBSET U /\ x \in U \ (A \cup r)
    BY <2>1, <2>3
  <2>5. Sum(A \cup r) = Sum(A) + Sum(r)
    BY <2>1, <2>4
  <2> HIDE DEF r
  <2>6. Sum(A \cup s) = w[x] + Sum(A \cup r) /\ Sum(s) = w[x] + Sum(r)
    BY <1>3, <2>4
  <2>7. w[x] \in Int /\ Sum(A) \in Int /\ Sum(r) \in Int
    BY <1>1, <2>4
  <2>8. Sum(A \cup s) = Sum(A) + Sum(s)
    BY <2>5, <2>6, <2>7
  <2> QED
    BY <2>1, <2>8
<1>5. B \notin Bad
  BY <1>4
<1> QED
  BY <1>5 DEF Sum

-----------------------------------------------------------------------------
(* The contact *)

ContactOK ==
    /\ X \in Seq(0 .. Xmax) /\ Y \in Seq(128 .. Ymax)
    /\ Len(Y) = n /\ n >= 1
    /\ finger \in [velocity: Velocities, span: Nat, turns: Nat]

Never(s) == \A i \in 1 .. n - 1 : s[i + 1] >= s[i]
Still(s) == \A i \in 1 .. n : s[i] = s[1]

LEMMA Frames ==
    ASSUME ContactOK
    PROVE  /\ n \in Nat /\ n >= 1 /\ Ymax \in Nat
           /\ \A i \in 1 .. n : /\ X[i] \in Nat /\ X[i] <= Xmax
                              /\ Y[i] \in Nat /\ Y[i] >= 128 /\ Y[i] < 1024
<1>1. n \in Nat /\ n >= 1 /\ Len(X) = n /\ Len(Y) = n
  BY DEF ContactOK, n
<1>2. ASSUME NEW S, NEW s \in Seq(S), NEW i \in 1 .. Len(s) PROVE s[i] \in S
  OBVIOUS
<1>3. \A i \in 1 .. n : X[i] \in 0 .. Xmax /\ Y[i] \in 128 .. Ymax
  BY <1>1, <1>2, Zenon DEF ContactOK
<1> QED
  BY <1>1, <1>3, SensorAssumption

-----------------------------------------------------------------------------
(* The smoothing of Y *)

\* smoothYlast before the frame
Before(f, i) == IF i = 1 THEN smoothYlast ELSE f[i - 1]

Smooths(f, m) == f = [i \in 1 .. m |-> Smooth(Before(f, i), Y[i])]

LEMMA SmoothsExists ==
    ASSUME NEW N \in Nat
    PROVE  \E f : Smooths(f, N)
<1> DEFINE Bad == {m \in Nat : ~ \E f : Smooths(f, m)}
<1>1. ASSUME Bad # {} PROVE FALSE
  <2>1. Bad \subseteq Nat
    OBVIOUS
  <2> HIDE DEF Bad
  <2>2. PICK m \in Bad : \A j \in Bad : m <= j
    BY <1>1, <2>1, LeastNumber
  <2>3. m \in Nat /\ ~ \E f : Smooths(f, m)
    BY <2>2 DEF Bad
  <2>4. CASE m = 0
    <3> DEFINE e == [i \in 1 .. 0 |-> 0]
    <3>1. e = [i \in 1 .. 0 |-> Smooth(Before(e, i), Y[i])]
      OBVIOUS
    <3> HIDE DEF e
    <3>2. Smooths(e, 0)
      BY <3>1 DEF Smooths
    <3> QED
      BY <2>3, <2>4, <3>2
  <2>5. CASE m > 0
    <3>1. m - 1 \in Nat /\ ~(m <= m - 1)
      BY <2>3, <2>5
    <3>2. PICK f : Smooths(f, m - 1)
      BY <2>2, <3>1 DEF Bad
    <3> DEFINE Next1(i) == Smooth(Before(f, i), Y[i])
               h == [i \in 1 .. m |-> Next1(i)]
    <3>3. \A i \in 1 .. m - 1 : f[i] = h[i]
      BY <2>3, <3>1, <3>2 DEF Smooths
    <3>4. \A i \in 1 .. m : Before(f, i) = Before(h, i)
      <4> HIDE DEF h
      <4> QED
        BY <2>3, <2>5, <3>3 DEF Before
    <3>5. \A i \in 1 .. m : Next1(i) = Smooth(Before(h, i), Y[i])
      BY <3>4
    <3> HIDE DEF Next1
    <3>6. h = [i \in 1 .. m |-> Next1(i)]
      OBVIOUS
    <3> HIDE DEF h
    <3>7. Smooths(h, m)
      BY <3>5, <3>6 DEF Smooths
    <3> QED
      BY <2>3, <3>7
  <2> QED
    BY <2>3, <2>4, <2>5
<1> QED
  BY <1>1

LEMMA SmoothedIs ==
    ASSUME NEW N \in Nat, N = n
    PROVE  \A i \in 1 .. N :
              Smoothed[i] = Smooth(IF i = 1 THEN smoothYlast ELSE Smoothed[i - 1], Y[i])
<1>1. Smoothed = CHOOSE f : Smooths(f, n)
  BY DEF Smoothed, Smooths, Before
<1>2. Smooths(Smoothed, N)
  BY <1>1, SmoothsExists
<1> HIDE DEF Smoothed
<1> QED
  BY <1>2 DEF Smooths, Before

LEMMA SmoothNat ==
    ASSUME NEW s \in Nat, NEW y \in Nat
    PROVE  Smooth(s, y) \in Nat
<1>1. PICK t \in Nat : t = s + y * UNIT
  BY SMT DEF UNIT
<1>2. ASSUME NEW g \in {2, 4, 8}
      PROVE  LET low == t \div g IN low * (g \div 2) \in Nat /\ (low + 1) * (g \div 2) \in Nat
  OBVIOUS
<1>3. Grid(t) \in {2, 4, 8}
  BY DEF Grid
<1> QED
  BY <1>1, <1>2, <1>3 DEF Smooth

\* A value on the grid of a float below 1024
OnGrid(s) ==
    /\ s \in Nat
    /\ s >= 256 * UNIT => s % 2 = 0
    /\ s >= 512 * UNIT => s % 4 = 0

\* Half of the last value and half of a new one above it lie between the two,
\* also when they are rounded.
LEMMA SmoothBetween ==
    ASSUME NEW s, OnGrid(s), NEW y \in Nat, y < 1024, s <= y * UNIT
    PROVE  LET r == Smooth(s, y) IN OnGrid(r) /\ s <= r /\ r <= y * UNIT
<1>1. PICK K \in Nat : /\ K = 256 * UNIT /\ 2 * K = 512 * UNIT /\ 4 * K = 1024 * UNIT
                      /\ K % 4 = 0 /\ K > 0
  BY SMT DEF UNIT
<1>2. PICK v \in Nat : v = y * UNIT /\ v % 4 = 0 /\ v < 4 * K
  BY <1>1, SMT DEF UNIT
<1>3. /\ s \in Nat /\ s <= v
      /\ s >= K => s % 2 = 0
      /\ s >= 2 * K => s % 4 = 0
  BY <1>1, <1>2 DEF OnGrid
<1>4. SUFFICES ASSUME NEW r \in Nat, r = Smooth(s, y)
               PROVE  /\ s <= r /\ r <= v
                      /\ r >= K => r % 2 = 0
                      /\ r >= 2 * K => r % 4 = 0
  <2>1. Smooth(s, y) \in Nat
    BY <1>3, SmoothNat
  <2> QED
    BY <1>1, <1>2, <2>1 DEF OnGrid
<1>5. PICK t \in Nat : t = s + v
  BY <1>2, <1>3
<1> DEFINE Half(g) == LET low == t \div g
                          rest == 2 * (t % g)
                          up == rest > g \/ (rest = g /\ low % 2 = 1)
                      IN  (IF up THEN low + 1 ELSE low) * (g \div 2)
<1>6. r = Half(Grid(t))
  BY <1>2, <1>4, <1>5 DEF Smooth
<1>7. CASE t < 2 * K
  <2>1. Grid(t) = 2
    BY <1>1, <1>5, <1>7 DEF Grid
  <2>2. PICK low \in Nat, m \in 0 .. 1 : t = 2 * low + m /\ low = t \div 2 /\ m = t % 2
    BY <1>5
  <2>3. r = (IF 2 * m > 2 \/ (2 * m = 2 /\ low % 2 = 1) THEN low + 1 ELSE low) * (2 \div 2)
    BY <1>6, <2>1, <2>2
  <2>4. \/ r = low * 1 /\ m <= 1
        \/ r = (low + 1) * 1 /\ m >= 1
    <3>1. 2 \div 2 = 1
      OBVIOUS
    <3>2. CASE 2 * m > 2 \/ (2 * m = 2 /\ low % 2 = 1)
      BY <2>3, <3>1, <3>2
    <3>3. CASE ~(2 * m > 2 \/ (2 * m = 2 /\ low % 2 = 1))
      BY <2>3, <3>1, <3>3
    <3> QED
      BY <3>2, <3>3
  <2>5. PICK q \in Nat : r = q * 1 /\ 2 * q - 1 <= t /\ t <= 2 * q + 1
    <3>1. CASE r = low * 1 /\ m <= 1
      <4>1. 2 * low - 1 <= t /\ t <= 2 * low + 1
        BY <2>2, <3>1
      <4> QED
        BY <3>1, <4>1
    <3>2. CASE r = (low + 1) * 1 /\ m >= 1
      <4>1. 2 * (low + 1) - 1 <= t /\ t <= 2 * (low + 1) + 1 /\ low + 1 \in Nat
        BY <2>2, <3>2
      <4> QED
        BY <3>2, <4>1
    <3> QED
      BY <2>4, <3>1, <3>2
  <2>6. r >= s /\ r <= v /\ r <= K
    BY <1>1, <1>2, <1>3, <1>5, <1>7, <2>5
  <2> QED
    BY <1>1, <2>6
<1>8. CASE t >= 2 * K /\ t < 4 * K
  <2>1. Grid(t) = 4
    BY <1>1, <1>5, <1>8 DEF Grid
  <2>2. PICK low \in Nat, m \in 0 .. 3 : t = 4 * low + m /\ low = t \div 4 /\ m = t % 4
    BY <1>5
  <2>3. r = (IF 2 * m > 4 \/ (2 * m = 4 /\ low % 2 = 1) THEN low + 1 ELSE low) * (4 \div 2)
    BY <1>6, <2>1, <2>2
  <2>4. \/ r = low * 2 /\ m <= 2
        \/ r = (low + 1) * 2 /\ m >= 2
    <3>1. 4 \div 2 = 2
      OBVIOUS
    <3>2. CASE 2 * m > 4 \/ (2 * m = 4 /\ low % 2 = 1)
      BY <2>3, <3>1, <3>2
    <3>3. CASE ~(2 * m > 4 \/ (2 * m = 4 /\ low % 2 = 1))
      BY <2>3, <3>1, <3>3
    <3> QED
      BY <3>2, <3>3
  <2>5. PICK q \in Nat : r = q * 2 /\ 4 * q - 2 <= t /\ t <= 4 * q + 2
    <3>1. CASE r = low * 2 /\ m <= 2
      <4>1. 4 * low - 2 <= t /\ t <= 4 * low + 2
        BY <2>2, <3>1
      <4> QED
        BY <3>1, <4>1
    <3>2. CASE r = (low + 1) * 2 /\ m >= 2
      <4>1. 4 * (low + 1) - 2 <= t /\ t <= 4 * (low + 1) + 2 /\ low + 1 \in Nat
        BY <2>2, <3>2
      <4> QED
        BY <3>2, <4>1
    <3> QED
      BY <2>4, <3>1, <3>2
  <2>6. r % 2 = 0 /\ r >= K /\ r <= 2 * K
    BY <1>1, <1>5, <1>8, <2>5
  <2>7. r >= s
    BY <1>1, <1>2, <1>3, <1>5, <2>5, <2>6
  <2>8. r <= v
    BY <1>2, <1>3, <1>5, <2>5
  <2> QED
    BY <1>1, <2>6, <2>7, <2>8
<1>9. CASE t >= 4 * K
  <2>1. Grid(t) = 8
    BY <1>1, <1>5, <1>9 DEF Grid
  <2>2. PICK low \in Nat, m \in 0 .. 7 : t = 8 * low + m /\ low = t \div 8 /\ m = t % 8
    BY <1>5
  <2>3. r = (IF 2 * m > 8 \/ (2 * m = 8 /\ low % 2 = 1) THEN low + 1 ELSE low) * (8 \div 2)
    BY <1>6, <2>1, <2>2
  <2>4. \/ r = low * 4 /\ m <= 4
        \/ r = (low + 1) * 4 /\ m >= 4
    <3>1. 8 \div 2 = 4
      OBVIOUS
    <3>2. CASE 2 * m > 8 \/ (2 * m = 8 /\ low % 2 = 1)
      BY <2>3, <3>1, <3>2
    <3>3. CASE ~(2 * m > 8 \/ (2 * m = 8 /\ low % 2 = 1))
      BY <2>3, <3>1, <3>3
    <3> QED
      BY <3>2, <3>3
  <2>5. PICK q \in Nat : r = q * 4 /\ 8 * q - 4 <= t /\ t <= 8 * q + 4
    <3>1. CASE r = low * 4 /\ m <= 4
      <4>1. 8 * low - 4 <= t /\ t <= 8 * low + 4
        BY <2>2, <3>1
      <4> QED
        BY <3>1, <4>1
    <3>2. CASE r = (low + 1) * 4 /\ m >= 4
      <4>1. 8 * (low + 1) - 4 <= t /\ t <= 8 * (low + 1) + 4 /\ low + 1 \in Nat
        BY <2>2, <3>2
      <4> QED
        BY <3>2, <4>1
    <3> QED
      BY <2>4, <3>1, <3>2
  <2>6. r % 4 = 0 /\ r >= 2 * K
    BY <1>1, <1>5, <1>9, <2>5
  <2>7. r >= s
    BY <1>1, <1>2, <1>3, <1>5, <2>5, <2>6
  <2>8. r <= v
    BY <1>2, <1>3, <1>5, <2>5
  <2> QED
    BY <2>6, <2>7, <2>8
<1> QED
  BY <1>1, <1>5, <1>7, <1>8, <1>9

LEMMA SmoothedNat ==
    ASSUME ContactOK
    PROVE  \A i \in 1 .. n : Smoothed[i] \in Nat
<1>1. PICK N \in Nat : N = n
  BY Frames
<1> DEFINE Bad == {i \in 1 .. N : Smoothed[i] \notin Nat}
<1>2. ASSUME Bad # {} PROVE FALSE
  <2>1. Bad \subseteq Nat
    OBVIOUS
  <2> HIDE DEF Bad
  <2>2. PICK m \in Bad : \A j \in Bad : m <= j
    BY <1>2, <2>1, LeastNumber
  <2>3. m \in 1 .. N /\ Smoothed[m] \notin Nat
    BY <2>2 DEF Bad
  <2>4. Smoothed[m] = Smooth(IF m = 1 THEN smoothYlast ELSE Smoothed[m - 1], Y[m])
    BY <1>1, <2>3, SmoothedIs
  <2>5. smoothYlast \in Nat
    BY Frames, SMT DEF smoothYlast, UNIT
  <2>6. m # 1 => Smoothed[m - 1] \in Nat
    <3> SUFFICES ASSUME m # 1, Smoothed[m - 1] \notin Nat PROVE FALSE
      OBVIOUS
    <3>1. m - 1 \in 1 .. N
      BY <2>3
    <3>2. m - 1 \in Bad /\ ~(m <= m - 1)
      BY <2>3, <3>1 DEF Bad
    <3> QED
      BY <2>2, <3>2
  <2>7. Y[m] \in Nat
    BY <1>1, <2>3, Frames
  <2> QED
    BY <2>3, <2>4, <2>5, <2>6, <2>7, SmoothNat
<1> QED
  BY <1>1, <1>2

\* Where Y never falls, neither does the smoothed one, which lies between the
\* first Y and the last.
LEMMA SmoothedRises ==
    ASSUME ContactOK, Never(Y)
    PROVE  /\ \A i \in 1 .. n : Y[1] * UNIT <= Smoothed[i] /\ Smoothed[i] <= Y[i] * UNIT
           /\ \A i \in 1 .. n - 1 : Smoothed[i] <= Smoothed[i + 1]
<1>1. PICK N \in Nat : N = n /\ N >= 1
  BY Frames
<1> DEFINE last(i) == IF i = 1 THEN smoothYlast ELSE Smoothed[i - 1]
           Good(i) == /\ OnGrid(Smoothed[i]) /\ last(i) <= Smoothed[i]
                      /\ Y[1] * UNIT <= Smoothed[i] /\ Smoothed[i] <= Y[i] * UNIT
           Bad == {i \in 1 .. N : ~Good(i)}
<1>2. \A i \in 1 .. N : /\ Y[i] \in Nat /\ Y[i] < 1024 /\ Y[i] * UNIT \in Nat
                        /\ OnGrid(Y[i] * UNIT)
  <2> SUFFICES ASSUME NEW i \in 1 .. N
               PROVE  /\ Y[i] \in Nat /\ Y[i] < 1024 /\ Y[i] * UNIT \in Nat
                      /\ OnGrid(Y[i] * UNIT)
    OBVIOUS
  <2>1. Y[i] \in Nat /\ Y[i] < 1024
    BY <1>1, Frames
  <2>2. Y[i] * UNIT \in Nat /\ (Y[i] * UNIT) % 2 = 0 /\ (Y[i] * UNIT) % 4 = 0
    BY <2>1, SMT DEF UNIT
  <2> QED
    BY <2>1, <2>2 DEF OnGrid
<1>3. ASSUME Bad # {} PROVE FALSE
  <2>1. Bad \subseteq Nat
    OBVIOUS
  <2> HIDE DEF Bad
  <2>2. PICK m \in Bad : \A j \in Bad : m <= j
    BY <1>3, <2>1, LeastNumber
  <2>3. m \in 1 .. N /\ ~Good(m)
    BY <2>2 DEF Bad
  <2>4. Smoothed[m] = Smooth(last(m), Y[m])
    BY <1>1, <2>3, SmoothedIs
  <2>5. CASE m = 1
    <3>1. last(m) = Y[1] * UNIT
      BY <2>5 DEF smoothYlast
    <3>2. 1 \in 1 .. N
      BY <1>1
    <3>3. OnGrid(Smoothed[m]) /\ last(m) <= Smoothed[m] /\ Smoothed[m] <= Y[1] * UNIT
      BY <1>2, <2>4, <2>5, <3>1, <3>2, SmoothBetween
    <3> QED
      BY <2>3, <2>5, <3>1, <3>3
  <2>6. CASE m # 1
    <3>1. m - 1 \in 1 .. N /\ m - 1 \in 1 .. N - 1 /\ ~(m <= m - 1) /\ (m - 1) + 1 = m
      BY <2>3, <2>6
    <3>2. Good(m - 1)
      BY <2>2, <3>1 DEF Bad
    <3>3. Y[m] >= Y[m - 1] /\ Y[m] \in Nat /\ Y[m - 1] \in Nat /\ Y[1] \in Nat
      BY <1>1, <1>2, <2>3, <3>1 DEF Never
    <3>4. Y[m - 1] * UNIT <= Y[m] * UNIT /\ Y[m - 1] * UNIT \in Nat /\ Y[m] * UNIT \in Nat
          /\ Y[1] * UNIT \in Nat
      BY <3>3, SMT DEF UNIT
    <3>5. last(m) = Smoothed[m - 1]
      BY <2>6
    <3>6. OnGrid(last(m)) /\ Y[1] * UNIT <= last(m) /\ last(m) <= Y[m - 1] * UNIT /\ last(m) \in Nat
      BY <3>2, <3>5 DEF OnGrid
    <3> HIDE DEF last
    <3>7. last(m) <= Y[m] * UNIT
      BY <3>4, <3>6
    <3>8. OnGrid(Smoothed[m]) /\ last(m) <= Smoothed[m] /\ Smoothed[m] <= Y[m] * UNIT
      BY <1>2, <2>3, <2>4, <3>6, <3>7, SmoothBetween
    <3>9. Y[1] * UNIT <= Smoothed[m]
      BY <3>4, <3>6, <3>8 DEF OnGrid
    <3> QED
      BY <2>3, <3>8, <3>9
  <2> QED
    BY <2>5, <2>6
<1>4. \A i \in 1 .. N : Good(i)
  BY <1>3
<1>5. \A i \in 1 .. N : Y[1] * UNIT <= Smoothed[i] /\ Smoothed[i] <= Y[i] * UNIT
  BY <1>4
<1>6. ASSUME NEW i \in 1 .. N - 1 PROVE Smoothed[i] <= Smoothed[i + 1]
  <2>1. i + 1 \in 1 .. N /\ i + 1 # 1 /\ (i + 1) - 1 = i
    BY <1>1
  <2>2. last(i + 1) <= Smoothed[i + 1]
    BY <1>4, <2>1
  <2> QED
    BY <2>1, <2>2
<1> QED
  BY <1>1, <1>5, <1>6

-----------------------------------------------------------------------------
(* The length of a step *)

\* The root of a number, rounded down
LEMMA Root ==
    ASSUME NEW s \in Nat
    PROVE  \E m \in Nat : m * m <= s /\ (m + 1) * (m + 1) > s
<1> DEFINE Above1 == {k \in Nat : k * k > s}
<1>1. Above1 \subseteq Nat
  OBVIOUS
<1>2. s + 1 \in Above1
  <2>1. (s + 1) * (s + 1) > s
    BY SMT
  <2> QED
    BY <2>1
<1> HIDE DEF Above1
<1>3. PICK k \in Above1 : \A j \in Above1 : k <= j
  BY <1>1, <1>2, LeastNumber
<1>4. k \in Nat /\ k * k > s
  BY <1>3 DEF Above1
<1>5. k # 0
  BY <1>4
<1>6. k - 1 \in Nat /\ ~(k <= k - 1)
  BY <1>4, <1>5
<1>7. ~((k - 1) * (k - 1) > s)
  BY <1>3, <1>6 DEF Above1
<1>8. (k - 1) * (k - 1) <= s
  BY <1>6, <1>7
<1>9. (k - 1) + 1 = k
  BY <1>4
<1> QED
  BY <1>4, <1>6, <1>8, <1>9

LEMMA MagNat ==
    ASSUME NEW dx \in Int, NEW dy \in Int
    PROVE  Mag(dx, dy) \in Nat /\ (dx = 0 /\ dy = 0 => Mag(dx, dy) = 0)
<1>1. PICK a \in Nat : a = 16 * Magnitude(dx) /\ (dx = 0 => a = 0)
  BY DEF Magnitude
<1>2. PICK b \in Nat : b = Magnitude(dy) \div (UNIT \div 16) /\ (dy = 0 => b = 0)
  <2>1. UNIT \div 16 = 4096
    BY SMT DEF UNIT
  <2> QED
    BY <2>1, SMT DEF Magnitude
<1>3. PICK top \in Nat : top = Max({a, b}) /\ (top = a \/ top = b) /\ top >= a /\ top >= b
  <2>1. \E t \in {a, b} : \A u \in {a, b} : t >= u
    BY <1>1, <1>2
  <2>2. Max({a, b}) \in {a, b} /\ \A u \in {a, b} : Max({a, b}) >= u
    BY <2>1 DEF Max
  <2> QED
    BY <2>2
<1>4. PICK s \in Nat : s = a * a + b * b
  OBVIOUS
<1>5. PICK m \in Nat : m * m <= s /\ (m + 1) * (m + 1) > s
  BY Root
<1>6. m >= a /\ m >= b /\ m <= a + b
  <2>1. a * a <= s /\ b * b <= s /\ s <= (a + b) * (a + b)
    BY <1>4, SMT
  <2>2. ASSUME NEW x \in Nat, NEW y \in Nat, x * x < (y + 1) * (y + 1) PROVE x <= y
    <3> SUFFICES ASSUME x >= y + 1 PROVE x * x >= (y + 1) * (y + 1)
      BY <2>2
    <3> QED
      BY SMT
  <2>3. a * a < (m + 1) * (m + 1) /\ b * b < (m + 1) * (m + 1)
    BY <1>5, <2>1
  <2>4. a <= m /\ b <= m
    BY <2>2, <2>3
  <2>5. m * m <= (a + b) * (a + b)
    BY <1>5, <2>1
  <2>6. (a + b) * (a + b) < (a + b + 1) * (a + b + 1)
    BY SMT
  <2>7. m * m < ((a + b) + 1) * ((a + b) + 1)
    BY <2>5, <2>6
  <2>8. a + b \in Nat
    OBVIOUS
  <2>9. m <= a + b
    BY <2>2, <2>7, <2>8
  <2> QED
    BY <2>4, <2>9
<1>7. m \in top .. a + b
  BY <1>3, <1>6
<1>8. Mag(dx, dy) = CHOOSE k \in top .. a + b : k * k <= a * a + b * b /\ (k + 1) * (k + 1) > a * a + b * b
  BY <1>1, <1>2, <1>3 DEF Mag
<1>9. Mag(dx, dy) \in top .. a + b
  BY <1>4, <1>5, <1>7, <1>8
<1> QED
  BY <1>1, <1>2, <1>3, <1>9

-----------------------------------------------------------------------------
(* The scratch pad *)

Filtered ==
    /\ n >= 3 /\ dX = Steps(X) /\ dY = Steps(Smoothed)
    /\ kinds = [i \in 1 .. n - 1 |-> Trend(dY[i])]

LEMMA PadSteps ==
    ASSUME ContactOK, Filtered
    PROVE  \A i \in 1 .. n - 1 :
              /\ dX[i] = X[i + 1] - X[i] /\ dX[i] \in Int
              /\ dY[i] = Smoothed[i + 1] - Smoothed[i] /\ dY[i] \in Int
              /\ kinds[i] = Trend(dY[i])
<1>1. PICK N \in Nat : N = n
  BY Frames
<1> SUFFICES ASSUME NEW i \in 1 .. N - 1
             PROVE  /\ dX[i] = X[i + 1] - X[i] /\ dX[i] \in Int
                    /\ dY[i] = Smoothed[i + 1] - Smoothed[i] /\ dY[i] \in Int
                    /\ kinds[i] = Trend(dY[i])
  BY <1>1
<1>2. i \in 1 .. n - 1 /\ i \in 1 .. n /\ i + 1 \in 1 .. n
  BY <1>1
<1>3. dX[i] = X[i + 1] - X[i] /\ dY[i] = Smoothed[i + 1] - Smoothed[i]
  BY <1>2 DEF Filtered, Steps
<1>4. X[i + 1] \in Nat /\ X[i] \in Nat /\ Smoothed[i + 1] \in Nat /\ Smoothed[i] \in Nat
  BY <1>2, Frames, SmoothedNat
<1>5. kinds[i] = Trend(dY[i])
  BY <1>2 DEF Filtered
<1> QED
  BY <1>3, <1>4, <1>5

LEMMA Trends ==
    ASSUME NEW d \in Int
    PROVE  /\ d >= 0 => Trend(d) # "DOWN"
           /\ d = 0 => Trend(d) = "OPPOS"
<1>1. 10 * UNIT \in Nat
  BY SMT DEF UNIT
<1> QED
  BY <1>1 DEF Trend, CoTrends!Kind, CoTrends!SameWay

LEMMA Rising ==
    ASSUME ContactOK, Filtered, Never(Y)
    PROVE  \A i \in 1 .. n - 1 : kinds[i] # "DOWN"
<1> SUFFICES ASSUME NEW i \in 1 .. n - 1 PROVE kinds[i] # "DOWN"
  OBVIOUS
<1>1. i \in 1 .. n /\ i + 1 \in 1 .. n
  BY Frames
<1>2. Smoothed[i] <= Smoothed[i + 1] /\ Smoothed[i] \in Nat /\ Smoothed[i + 1] \in Nat
  BY <1>1, SmoothedRises, SmoothedNat
<1>3. dY[i] = Smoothed[i + 1] - Smoothed[i] /\ kinds[i] = Trend(dY[i])
  BY PadSteps
<1>4. dY[i] >= 0 /\ dY[i] \in Int
  BY <1>2, <1>3
<1> QED
  BY <1>3, <1>4, Trends

LEMMA StillNever == ASSUME NEW s, n \in Nat, Still(s), s[1] \in Int PROVE Never(s)
<1> SUFFICES ASSUME NEW i \in 1 .. n - 1 PROVE s[i + 1] >= s[i]
  BY DEF Never
<1>1. i \in 1 .. n /\ i + 1 \in 1 .. n
  OBVIOUS
<1> QED
  BY <1>1 DEF Still

LEMMA Resting ==
    ASSUME ContactOK, Filtered
    PROVE  /\ Still(X) => \A i \in 1 .. n - 1 : dX[i] = 0
           /\ Still(Y) => \A i \in 1 .. n - 1 : dY[i] = 0 /\ kinds[i] = "OPPOS"
<1>1. PICK N \in Nat : N = n /\ N >= 1
  BY Frames
<1>2. ASSUME Still(X), NEW i \in 1 .. N - 1 PROVE dX[i] = 0
  <2>1. i \in 1 .. N /\ i + 1 \in 1 .. N /\ 1 \in 1 .. N
    BY <1>1
  <2>2. X[i + 1] = X[1] /\ X[i] = X[1] /\ X[1] \in Nat
    BY <1>1, <1>2, <2>1, Frames DEF Still
  <2>3. dX[i] = X[i + 1] - X[i]
    BY <1>1, PadSteps
  <2> QED
    BY <2>2, <2>3
<1>3. ASSUME Still(Y), NEW i \in 1 .. N - 1 PROVE dY[i] = 0 /\ kinds[i] = "OPPOS"
  <2>1. i \in 1 .. N /\ i + 1 \in 1 .. N /\ 1 \in 1 .. N
    BY <1>1
  <2>2. Y[i + 1] = Y[1] /\ Y[i] = Y[1] /\ Y[1] \in Nat
    BY <1>1, <1>3, <2>1, Frames DEF Still
  <2>3. Never(Y)
    BY <1>1, <1>3, <2>2, StillNever
  <2>4. PICK v \in Nat : v = Y[1] * UNIT
    BY <2>2, SMT DEF UNIT
  <2>5. /\ v <= Smoothed[i] /\ Smoothed[i] <= v /\ Smoothed[i] \in Nat
        /\ v <= Smoothed[i + 1] /\ Smoothed[i + 1] <= v /\ Smoothed[i + 1] \in Nat
    BY <1>1, <2>1, <2>2, <2>3, <2>4, SmoothedRises, SmoothedNat
  <2>6. dY[i] = Smoothed[i + 1] - Smoothed[i] /\ kinds[i] = Trend(dY[i])
    BY <1>1, PadSteps
  <2>7. dY[i] = 0
    BY <2>5, <2>6
  <2>8. Trend(0) = "OPPOS"
    BY Trends
  <2> QED
    BY <2>6, <2>7, <2>8
<1> QED
  BY <1>1, <1>2, <1>3

-----------------------------------------------------------------------------
(* The features *)

LEMMA FiniteFrames ==
    ASSUME ContactOK, NEW S, S \subseteq 1 .. n - 1
    PROVE  IsFiniteSet(S)
<1>1. n - 1 \in Int
  BY Frames
<1>2. IsFiniteSet(1 .. n - 1)
  BY <1>1, FS_Interval
<1> QED
  BY <1>2, FS_Subset

LEMMA DistInt ==
    ASSUME ContactOK, Filtered, NEW t
    PROVE  Dist(t) \in Int
<1> DEFINE S == {i \in 1 .. n - 1 : kinds[i] = t}
<1>1. S \subseteq 1 .. n - 1
  OBVIOUS
<1>2. \A i \in S : dY[i] \in Int
  BY PadSteps
<1> HIDE DEF S
<1>3. IsFiniteSet(S)
  BY <1>1, FiniteFrames
<1>4. SumFunctionOnSet(dY, S) \in Int
  BY <1>2, <1>3, SumInt
<1> QED
  BY <1>4 DEF Dist, S

\* A trend that no frame counts for
LEMMA NoTrend ==
    ASSUME ContactOK, Filtered, NEW t, \A i \in 1 .. n - 1 : kinds[i] # t
    PROVE  Dist(t) = 0 /\ CoTrends!Many(t, n - 1) = 0 /\ Location(t) = 0
<1>1. {i \in 1 .. n - 1 : kinds[i] = t} = {}
  OBVIOUS
<1>2. Dist(t) = 0
  <2>1. SumFunctionOnSet(dY, {}) = 0
    BY FS_EmptySet, SumUnfold
  <2> QED
    BY <1>1, <2>1 DEF Dist
<1>3. CoTrends!Many(t, n - 1) = 0
  <2>1. CoTrends!Cardinality({}) = Cardinality({})
    BY DEF CoTrends!Cardinality, Cardinality
  <2> QED
    BY <1>1, <2>1, FS_EmptySet DEF CoTrends!Many
<1>4. Location(t) = 0
  BY <1>3 DEF Location
<1> QED
  BY <1>2, <1>3, <1>4

LEMMA EndIndex ==
    ASSUME ContactOK, n >= 3
    PROVE  endIndex \in 1 .. 4 /\ endIndex <= n
<1>1. PICK h \in Nat : h = n \div 2 /\ h >= 1 /\ h <= n
  BY Frames
<1>2. \E x \in {4, h} : \A y \in {4, h} : x <= y
  BY <1>1
<1>3. Min({4, h}) \in {4, h} /\ Min({4, h}) <= 4 /\ Min({4, h}) <= h
  BY <1>2 DEF Min
<1> QED
  BY <1>1, <1>3, Frames DEF endIndex

LEMMA ClosureInt ==
    ASSUME ContactOK, n >= 3, NEW s, \A i \in 1 .. n : s[i] \in Int
    PROVE  Closure(s) \in Int /\ (Still(s) => Closure(s) = 0)
<1>1. PICK N \in Nat, e \in Nat : N = n /\ e = endIndex /\ 1 <= e /\ e <= N
  BY Frames, EndIndex
<1> DEFINE w == [i \in 1 .. e |-> s[i] - s[N + 1 - i]]
<1>2. ASSUME NEW i \in 1 .. e PROVE w[i] \in Int /\ (Still(s) => w[i] = 0)
  <2>1. i \in 1 .. N /\ N + 1 - i \in 1 .. N /\ 1 \in 1 .. N
    BY <1>1
  <2>2. s[i] \in Int /\ s[N + 1 - i] \in Int /\ s[1] \in Int
    BY <1>1, <2>1
  <2>3. Still(s) => s[i] = s[1] /\ s[N + 1 - i] = s[1]
    BY <1>1, <2>1 DEF Still
  <2> QED
    BY <2>2, <2>3
<1>3. DOMAIN w = 1 .. e /\ IsFiniteSet(1 .. e)
  BY FS_Interval
<1>4. Closure(s) = Magnitude(SumFunction(w))
  BY <1>1 DEF Closure
<1> HIDE DEF w
<1>5. SumFunctionOnSet(w, 1 .. e) \in Int
  BY <1>2, <1>3, SumInt
<1>6. Still(s) => SumFunctionOnSet(w, 1 .. e) = 0
  BY <1>2, <1>3, SumZero
<1>7. SumFunction(w) = SumFunctionOnSet(w, 1 .. e)
  BY <1>3 DEF SumFunction
<1> QED
  BY <1>4, <1>5, <1>6, <1>7 DEF Magnitude

LEMMA WeightsNat ==
    ASSUME ContactOK, Filtered
    PROVE  \A i \in 1 .. n - 1 : /\ Weights[i] \in Nat
                                 /\ dX[i] = 0 /\ dY[i] = 0 => Weights[i] = 0
<1> SUFFICES ASSUME NEW i \in 1 .. n - 1
             PROVE  /\ Weights[i] \in Nat
                    /\ dX[i] = 0 /\ dY[i] = 0 => Weights[i] = 0
  OBVIOUS
<1>1. dX[i] \in Int /\ dY[i] \in Int
  BY PadSteps
<1>2. Mag(dX[i], dY[i]) \in Nat /\ (dX[i] = 0 /\ dY[i] = 0 => Mag(dX[i], dY[i]) = 0)
  BY <1>1, MagNat
<1>3. Weights[i] = Weight(i)
  BY DEF Weights
<1> QED
  BY <1>2, <1>3 DEF Weight

\* A bin of the histogram is the weight of its frames.
LEMMA Bin ==
    ASSUME ContactOK, Filtered, NEW b \in 0 .. ANGLE_HISTOGRAM_BIN_COUNT
    PROVE  /\ Histogram[b] = SumFunctionOnSet(Weights, {i \in 1 .. n - 1 : Directions[i] = b})
           /\ Histogram[b] \in Int
           /\ (\A i \in 1 .. n - 1 : dX[i] = 0 /\ dY[i] = 0) => Histogram[b] = 0
<1> DEFINE S == {i \in 1 .. n - 1 : Directions[i] = b}
<1>1. Histogram[b] = SumFunctionOnSet(Weights, S)
  BY DEF Histogram
<1>2. S \subseteq 1 .. n - 1
  OBVIOUS
<1>3. Histogram[b] = SumFunctionOnSet(Weights, {i \in 1 .. n - 1 : Directions[i] = b})
  BY <1>1
<1> HIDE DEF S
<1>4. IsFiniteSet(S)
  BY <1>2, FiniteFrames
<1>5. \A i \in S : Weights[i] \in Int
  BY <1>2, WeightsNat
<1>6. SumFunctionOnSet(Weights, S) \in Int
  BY <1>4, <1>5, SumInt
<1>7. ASSUME \A i \in 1 .. n - 1 : dX[i] = 0 /\ dY[i] = 0
      PROVE  SumFunctionOnSet(Weights, S) = 0
  <2>1. \A i \in S : Weights[i] = 0
    BY <1>2, <1>7, WeightsNat
  <2> QED
    BY <1>4, <2>1, SumZero
<1> QED
  BY <1>1, <1>3, <1>6, <1>7

\* The trigger window, of a finger that never moves left
LEMMA FastestNever ==
    ASSUME ContactOK, n >= 3, Never(X)
    PROVE  /\ Runs!TriggerWindowSize \in Nat /\ Runs!TriggerWindowSize >= 1
           /\ Runs!FirstFastest \in Nat
           /\ Still(X) => Runs!FirstFastest = 0
<1>1. PICK N \in Nat : N = n /\ N >= 3 /\ N = Runs!n
  BY Frames DEF n, Runs!n
<1>2. PICK t \in 1 .. 3 : t = Runs!TriggerWindowSize
  BY <1>1 DEF Runs!TriggerWindowSize
<1>3. Runs!Windows = 2 .. N - t
  BY <1>1, <1>2 DEF Runs!Windows
<1>4. \A i \in Runs!Windows :
         /\ Runs!Window(i) \in Nat /\ Runs!Window(i) <= Xmax
         /\ Still(X) => Runs!Window(i) = 0
  <2> SUFFICES ASSUME NEW i \in 2 .. N - t
               PROVE  /\ Runs!Window(i) \in Nat /\ Runs!Window(i) <= Xmax
                      /\ Still(X) => Runs!Window(i) = 0
    BY <1>3
  <2>1. Runs!Window(i) = X[i + t] - X[i]
    BY <1>2 DEF Runs!Window
  <2>2. i \in 1 .. N /\ i + t \in 1 .. N /\ i \in 1 .. N - 1
    BY <1>1
  <2>3. X[i] \in Nat /\ X[i + t] \in Nat /\ X[i + t] <= Xmax
    BY <1>1, <2>2, Frames
  <2>4. X[i + t] >= X[i]
    <3>1. X[i + 1] >= X[i]
      BY <1>1, <2>2 DEF Never
    <3>2. CASE t = 1
      BY <3>1, <3>2
    <3>3. CASE t = 2
      <4>1. i + 1 \in 1 .. N - 1 /\ i + 1 \in 1 .. N /\ (i + 1) + 1 = i + 2
        BY <2>2, <3>3
      <4>2. X[i + 2] >= X[i + 1] /\ X[i + 1] \in Nat
        BY <1>1, <4>1, Frames DEF Never
      <4> QED
        BY <2>3, <3>1, <3>3, <4>2
    <3>4. CASE t = 3
      <4>1. /\ i + 1 \in 1 .. N - 1 /\ i + 1 \in 1 .. N /\ (i + 1) + 1 = i + 2
            /\ i + 2 \in 1 .. N - 1 /\ i + 2 \in 1 .. N /\ (i + 2) + 1 = i + 3
        BY <2>2, <3>4
      <4>2. X[i + 2] >= X[i + 1] /\ X[i + 1] \in Nat /\ X[i + 3] >= X[i + 2] /\ X[i + 2] \in Nat
        BY <1>1, <4>1, Frames DEF Never
      <4> QED
        BY <2>3, <3>1, <3>4, <4>2
    <3> QED
      BY <3>2, <3>3, <3>4
  <2>5. Still(X) => X[i + t] = X[1] /\ X[i] = X[1]
    BY <1>1, <2>2 DEF Still
  <2> QED
    BY <2>1, <2>3, <2>4, <2>5, SensorAssumption
<1>5. CASE Runs!Windows = {}
  BY <1>2, <1>5 DEF Runs!FirstFastest
<1>6. CASE Runs!Windows # {}
  <2> DEFINE Rest == {Xmax - Runs!Window(i) : i \in Runs!Windows}
  <2>1. Rest \subseteq Nat /\ Rest # {}
    BY <1>4, <1>6, SensorAssumption
  <2>2. PICK r \in Rest : \A j \in Rest : r <= j
    BY <2>1, LeastNumber
  <2>3. PICK a \in Runs!Windows : r = Xmax - Runs!Window(a)
    BY <2>2
  <2>4. ASSUME NEW j \in Runs!Windows
        PROVE  Runs!Magnitude(Runs!Window(j)) <= Runs!Magnitude(Runs!Window(a))
    <3>1. r <= Xmax - Runs!Window(j)
      BY <2>2
    <3>2. Runs!Window(j) <= Runs!Window(a)
      BY <1>4, <2>3, <3>1, SensorAssumption
    <3> QED
      BY <1>4, <2>3, <3>2 DEF Runs!Magnitude
  <2>5. a \in Runs!Fastest
    BY <2>4 DEF Runs!Fastest
  <2>6. Runs!Fastest \subseteq Runs!Windows /\ Runs!Fastest \subseteq Nat
    BY <1>3 DEF Runs!Fastest
  <2>7. PICK m \in Runs!Windows : m = Runs!Min(Runs!Fastest)
    <3>1. Min(Runs!Fastest) \in Runs!Fastest
      BY <2>5, <2>6, LeastIsMin
    <3>2. Runs!Min(Runs!Fastest) = Min(Runs!Fastest)
      BY DEF Runs!Min, Min
    <3> QED
      BY <2>6, <3>1, <3>2
  <2>8. Runs!FirstFastest = Runs!Window(m)
    BY <1>6, <2>7 DEF Runs!FirstFastest
  <2> QED
    BY <1>2, <1>4, <2>8
<1> QED
  BY <1>5, <1>6

\* A finger that does not move makes no run.
LEMMA NoRun ==
    ASSUME ContactOK, Filtered, Still(X)
    PROVE  Runs!Starts = {}
<1>1. PICK N \in Nat : N = n /\ N >= 3 /\ N = Runs!n
  BY Frames DEF n, Runs!n, Filtered
<1>2. \A i \in 1 .. N - 1 : Runs!dX(i) = 0
  <2> SUFFICES ASSUME NEW i \in 1 .. N - 1 PROVE Runs!dX(i) = 0
    OBVIOUS
  <2>1. dX[i] = X[i + 1] - X[i] /\ dX[i] = 0
    BY <1>1, PadSteps, Resting
  <2> QED
    BY <2>1 DEF Runs!dX
<1> QED
  BY <1>1, <1>2 DEF Runs!Starts, Runs!Frames

FeaturesOK(f) ==
    /\ f.ends \in 1 .. 4
    /\ f.XClosure \in Int /\ f.YClosure \in Int
    /\ f.CoTrendUpDist \in Int /\ f.CoTrendDownDist \in Int
    /\ Never(X) => f.windowSize \in Nat \ {0} /\ f.window \in Nat
    /\ Never(Y) => f.CoTrendDown = 0 /\ f.CoTrendDownDist = 0 /\ f.downLocation = 0
    /\ Still(X) => /\ f.window = 0 /\ f.XClosure = 0
                   /\ f.LRMaxTrend = 0 /\ f.LRMaxEX = X[1]
    /\ Still(Y) => f.CoTrendUpDist = 0

LEMMA FeaturesAre ==
    ASSUME ContactOK, Filtered
    PROVE  FeaturesOK(GestureFeatures)
<1>1. PICK N \in Nat : N = n /\ N >= 3
  BY Frames DEF Filtered
<1>2. 1 \in 1 .. n /\ X[1] \in Nat /\ Y[1] \in Nat /\ N \in 1 .. n
  BY <1>1, Frames
<1> DEFINE longest == {a \in Runs!Starts : Runs!Longest(a)}
           end == IF longest = {} THEN n - 1 ELSE Runs!End(Max(longest))
           f == [window |-> Runs!FirstFastest, windowSize |-> Runs!TriggerWindowSize,
                 LRMaxTrend |-> IF longest = {} THEN 0 ELSE Runs!Distance(Max(longest)),
                 LRMaxEX |-> X[end + 1],
                 CoTrendDown |-> CoTrends!Many("DOWN", n - 1),
                 CoTrendUpDist |-> Dist("UP"), CoTrendDownDist |-> Dist("DOWN"),
                 downLocation |-> Location("DOWN"),
                 XClosure |-> Closure(X), YClosure |-> Closure(Y), ends |-> endIndex]
<1>3. GestureFeatures = f
  BY DEF GestureFeatures
<1>4. /\ f.window = Runs!FirstFastest /\ f.windowSize = Runs!TriggerWindowSize
      /\ f.LRMaxTrend = IF longest = {} THEN 0 ELSE Runs!Distance(Max(longest))
      /\ f.LRMaxEX = X[end + 1]
      /\ f.CoTrendDown = CoTrends!Many("DOWN", n - 1)
      /\ f.CoTrendUpDist = Dist("UP") /\ f.CoTrendDownDist = Dist("DOWN")
      /\ f.downLocation = Location("DOWN")
      /\ f.XClosure = Closure(X) /\ f.YClosure = Closure(Y) /\ f.ends = endIndex
  OBVIOUS
<1> HIDE DEF f
<1>5. f.ends \in 1 .. 4
  BY <1>1, <1>4, EndIndex
<1>6. f.XClosure \in Int /\ f.YClosure \in Int /\ (Still(X) => f.XClosure = 0)
  <2>1. \A i \in 1 .. n : X[i] \in Int /\ Y[i] \in Int
    BY Frames
  <2> QED
    BY <1>1, <1>4, <2>1, ClosureInt
<1>7. f.CoTrendUpDist \in Int /\ f.CoTrendDownDist \in Int
  BY <1>4, DistInt
<1>8. Never(X) => /\ f.windowSize \in Nat \ {0} /\ f.window \in Nat
                  /\ Still(X) => f.window = 0
  BY <1>1, <1>4, FastestNever
<1>9. Still(X) => Never(X)
  BY <1>1, <1>2, StillNever
<1>10. Never(Y) => f.CoTrendDown = 0 /\ f.CoTrendDownDist = 0 /\ f.downLocation = 0
  BY <1>4, Rising, NoTrend
<1>11. Still(X) => f.LRMaxTrend = 0 /\ f.LRMaxEX = X[1]
  <2> SUFFICES ASSUME Still(X) PROVE f.LRMaxTrend = 0 /\ f.LRMaxEX = X[1]
    OBVIOUS
  <2>1. longest = {}
    BY NoRun
  <2>2. end + 1 = N
    BY <1>1, <2>1
  <2>3. X[N] = X[1]
    BY <1>2 DEF Still
  <2> QED
    BY <1>4, <2>1, <2>2, <2>3
<1>12. Still(Y) => f.CoTrendUpDist = 0
  <2> SUFFICES ASSUME Still(Y) PROVE Dist("UP") = 0
    BY <1>4
  <2>1. \A i \in 1 .. n - 1 : kinds[i] # "UP"
    BY Resting
  <2> QED
    BY <2>1, NoTrend
<1>13. FeaturesOK(f)
  BY <1>5, <1>6, <1>7, <1>8, <1>9, <1>10, <1>11, <1>12 DEF FeaturesOK
<1> QED
  BY <1>3, <1>13

-----------------------------------------------------------------------------
(* The heaviest direction and the decision tree *)

HistogramOK == \A b \in Bins : histogram[b] \in Int

LEMMA Peak ==
    ASSUME HistogramOK
    PROVE  angleMagMaxIndex \in Bins
<1> DEFINE Heaviest(m) == \E k \in 0 .. m : \A j \in 0 .. m : histogram[j] <= histogram[k]
           Bad == {m \in Bins : ~Heaviest(m)}
<1>1. Bins = 0 .. 17
  BY DEF Bins, ANGLE_HISTOGRAM_BIN_COUNT
<1>2. \A b \in 0 .. 17 : histogram[b] \in Int
  BY <1>1 DEF HistogramOK
<1>3. ASSUME Bad # {} PROVE FALSE
  <2>1. Bad \subseteq Nat
    BY <1>1
  <2> HIDE DEF Bad
  <2>2. PICK m \in Bad : \A j \in Bad : m <= j
    BY <1>3, <2>1, LeastNumber
  <2>3. m \in 0 .. 17 /\ ~Heaviest(m)
    BY <1>1, <2>2 DEF Bad
  <2>4. m # 0
    <3> SUFFICES ASSUME m = 0 PROVE FALSE
      OBVIOUS
    <3>1. \A j \in 0 .. 0 : j = 0
      OBVIOUS
    <3>2. Heaviest(0)
      BY <1>2, <3>1
    <3> QED
      BY <2>3, <3>2
  <2>5. m - 1 \in Bins /\ ~(m <= m - 1)
    BY <1>1, <2>3, <2>4
  <2>6. PICK k \in 0 .. m - 1 : \A j \in 0 .. m - 1 : histogram[j] <= histogram[k]
    BY <2>2, <2>5 DEF Bad
  <2>7. \A j \in 0 .. m : j \in 0 .. m - 1 \/ j = m
    BY <2>3
  <2>8. k \in 0 .. 17 /\ k \in 0 .. m /\ m \in 0 .. m
    BY <2>3, <2>4
  <2>9. CASE histogram[m] <= histogram[k]
    BY <2>3, <2>6, <2>7, <2>8, <2>9
  <2>10. CASE histogram[k] <= histogram[m]
    <3>1. ASSUME NEW j \in 0 .. m PROVE histogram[j] <= histogram[m]
      <4>1. j \in 0 .. 17
        BY <2>3
      <4> QED
        BY <1>2, <2>3, <2>6, <2>7, <2>8, <2>10, <4>1
    <3> QED
      BY <2>3, <2>8, <3>1
  <2> QED
    BY <1>2, <2>3, <2>8, <2>9, <2>10
<1>4. 17 \in Bins
  BY <1>1
<1>5. PICK k \in 0 .. 17 : \A j \in 0 .. 17 : histogram[j] <= histogram[k]
  BY <1>3, <1>4
<1>6. angleMagMax \in {histogram[b] : b \in Bins}
  <2> DEFINE S == {histogram[b] : b \in Bins}
  <2>1. \E x \in S : \A y \in S : x >= y
    BY <1>1, <1>2, <1>5
  <2> HIDE DEF S
  <2>2. Max(S) \in S
    BY <2>1 DEF Max
  <2> QED
    BY <2>2 DEF S, angleMagMax
<1> DEFINE P == {b \in Bins : histogram[b] = angleMagMax}
<1>7. P \subseteq Nat /\ P # {} /\ P \subseteq Bins
  BY <1>1, <1>6
<1>8. Min(P) \in P
  BY <1>7, LeastIsMin
<1> QED
  BY <1>7, <1>8 DEF angleMagMaxIndex

\* No number is both above and not above a threshold, and none is neither.
LEMMA Sides ==
    ASSUME FeaturesOK(features), NEW c \in Int, NEW num \in Int, NEW den \in Int
    PROVE  Above(c, num, den) <=> ~AtMost(c, num, den)
<1>1. features.ends \in Int /\ features.ends # 0
  BY DEF FeaturesOK
<1>2. c * den \in Int /\ num * features.ends \in Int
  BY <1>1
<1> QED
  BY <1>1, <1>2 DEF Above, AtMost

LEMMA FastLeftIs ==
    ASSUME HistogramOK, FeaturesOK(features)
    PROVE  FastLeft \in {"DOWN", "LEFT"}
<1>1. weightedPeakAngle > 250 <=> ~(weightedPeakAngle <= 250)
  <2>1. angleMagMaxIndex \in Int
    BY Peak DEF Bins, ANGLE_HISTOGRAM_BIN_COUNT
  <2> QED
    BY <2>1 DEF weightedPeakAngle
<1>2. Above(features.YClosure, 1723, 4) <=> ~AtMost(features.YClosure, 1723, 4)
  BY Sides DEF FeaturesOK
<1> QED
  BY <1>1, <1>2 DEF FastLeft

LEMMA FarRightIs ==
    ASSUME ContactOK
    PROVE  /\ FarRight \in {"RIGHT", "DOWN"}
           /\ features.CoTrendDown = 0 => FarRight = "RIGHT"
<1> DEFINE few == IF features.LRMaxTrend <= 117 THEN 2
                  ELSE IF features.LRMaxEX <= 273 THEN 6 ELSE n
<1>1. few \in Nat
  BY Frames
<1>2. FarRight = IF features.CoTrendDown <= few THEN "RIGHT" ELSE "DOWN"
  BY DEF FarRight
<1> QED
  BY <1>1, <1>2

LEMMA MovesDownIs == MovesDown \in {"RIGHT", "DOWN", "UP"}
BY DEF MovesDown

LEMMA MovesUpIs ==
    ASSUME FeaturesOK(features)
    PROVE  MovesUp \in {"UP", "TAP"}
<1>1. Above(features.YClosure, 275, 4) <=> ~AtMost(features.YClosure, 275, 4)
  BY Sides DEF FeaturesOK
<1> QED
  BY <1>1 DEF MovesUp

LEMMA HardlyMovesIs ==
    ASSUME ContactOK, FeaturesOK(features)
    PROVE  /\ HardlyMoves \in Gestures
           /\ HardlyMoves = "LEFT" => n <= 8
           /\ HardlyMoves = "DOWN" => features.downLocation # 0
           /\ LRVelTrigAtMost(98, 3) /\ features.XClosure = 0 /\ angleMagMax <= 628
                => HardlyMoves = "TAP"
<1>1. n \in Nat /\ (n > 8 <=> ~(n <= 8))
  BY Frames
<1>2. Above(features.XClosure, 93, 2) <=> ~AtMost(features.XClosure, 93, 2)
  BY Sides DEF FeaturesOK
<1>3. features.XClosure = 0 => AtMost(features.XClosure, 93, 2)
  BY DEF FeaturesOK, AtMost
<1> QED
  BY <1>1, <1>2, <1>3 DEF HardlyMoves, Gestures

\* Which part of the tree is asked
LEMMA Branch ==
    /\ J48CLASS \in {FastLeft, FarRight, MovesDown, MovesUp, HardlyMoves}
    /\ ~LRVelTrigAtMost(-22, 1) =>
          /\ J48CLASS \in {FarRight, MovesDown, MovesUp, HardlyMoves}
          /\ features.LRMaxEX > 264 => J48CLASS = FarRight
          /\ features.CoTrendDownDist = 0 => J48CLASS \in {FarRight, MovesUp, HardlyMoves}
          /\ ~(features.LRMaxEX > 264) /\ features.CoTrendDownDist = 0 /\ features.CoTrendUpDist = 0
                => J48CLASS = HardlyMoves
<1> DEFINE down == features.CoTrendDownDist <= -8117244
           notdown == features.CoTrendDownDist > -8117244
           up == features.CoTrendUpDist > 3940352
           trig == LRVelTrigAtMost(-22, 1)
           far == features.LRMaxEX > 264
<1>1. features.CoTrendDownDist = 0 => ~down
  BY SMT
<1>2. features.CoTrendUpDist = 0 => ~up
  BY SMT
<1>3. J48CLASS = CASE trig -> FastLeft
                   [] ~trig /\ far -> FarRight
                   [] OTHER -> CASE down -> MovesDown
                                 [] notdown /\ up -> MovesUp
                                 [] OTHER -> HardlyMoves
  BY DEF J48CLASS
<1> HIDE DEF down, notdown, up, trig
<1> DEFINE rest == CASE down -> MovesDown [] notdown /\ up -> MovesUp [] OTHER -> HardlyMoves
<1>4. /\ rest \in {MovesDown, MovesUp, HardlyMoves}
      /\ ~down => rest \in {MovesUp, HardlyMoves}
      /\ ~down /\ ~up => rest = HardlyMoves
  BY SMT
<1> HIDE DEF rest
<1>5. J48CLASS = CASE trig -> FastLeft [] ~trig /\ far -> FarRight [] OTHER -> rest
  BY <1>3 DEF rest
<1>6. /\ trig => J48CLASS = FastLeft
      /\ ~trig /\ far => J48CLASS = FarRight
      /\ ~trig /\ ~far => J48CLASS = rest
  BY <1>5
<1> QED
  BY <1>1, <1>2, <1>4, <1>6 DEF trig

\* What the tree says of a finger that never moves left, or not at all
LEMMA Tree ==
    ASSUME ContactOK, HistogramOK, FeaturesOK(features)
    PROVE  /\ J48CLASS \in Gestures
           /\ Never(X) /\ J48CLASS = "LEFT" => n <= 8
           /\ Never(X) /\ Never(Y) => J48CLASS # "DOWN"
           /\ Still(X) /\ Still(Y) /\ angleMagMax = 0
                => J48CLASS = IF X[1] <= 264 THEN "TAP" ELSE "RIGHT"
<1>1. 1 \in 1 .. n /\ X[1] \in Nat /\ Y[1] \in Nat /\ n \in Nat
  BY Frames
<1>2. Still(X) => Never(X)
  BY <1>1, StillNever
<1>3. Still(Y) => Never(Y)
  BY <1>1, StillNever
<1>4. Never(X) => ~LRVelTrigAtMost(-22, 1)
  BY DEF FeaturesOK, LRVelTrigAtMost
<1>5. Never(X) /\ features.window = 0 => LRVelTrigAtMost(98, 3)
  BY DEF FeaturesOK, LRVelTrigAtMost
<1>6. /\ FastLeft \in {"DOWN", "LEFT"}
      /\ FarRight \in {"RIGHT", "DOWN"} /\ (features.CoTrendDown = 0 => FarRight = "RIGHT")
      /\ MovesDown \in {"RIGHT", "DOWN", "UP"}
      /\ MovesUp \in {"UP", "TAP"}
  BY FastLeftIs, FarRightIs, MovesDownIs, MovesUpIs
<1>7. J48CLASS \in Gestures
  BY <1>6, Branch, HardlyMovesIs DEF Gestures
<1>8. Never(X) /\ J48CLASS = "LEFT" => n <= 8
  BY <1>4, <1>6, Branch, HardlyMovesIs
<1>9. Never(X) /\ Never(Y) => J48CLASS # "DOWN"
  <2> SUFFICES ASSUME Never(X), Never(Y) PROVE J48CLASS # "DOWN"
    OBVIOUS
  <2>1. features.CoTrendDown = 0 /\ features.CoTrendDownDist = 0 /\ features.downLocation = 0
    BY DEF FeaturesOK
  <2> QED
    BY <1>4, <1>6, <2>1, Branch, HardlyMovesIs
<1>10. ASSUME Still(X), Still(Y), angleMagMax = 0
       PROVE  J48CLASS = IF X[1] <= 264 THEN "TAP" ELSE "RIGHT"
  <2>1. /\ features.window = 0 /\ features.XClosure = 0 /\ features.LRMaxEX = X[1]
        /\ features.CoTrendUpDist = 0
    BY <1>10 DEF FeaturesOK
  <2>2. features.CoTrendDown = 0 /\ features.CoTrendDownDist = 0
    BY <1>3, <1>10 DEF FeaturesOK
  <2>3. HardlyMoves = "TAP"
    BY <1>2, <1>5, <1>10, <2>1, HardlyMovesIs
  <2>4. ~LRVelTrigAtMost(-22, 1) /\ FarRight = "RIGHT"
    BY <1>2, <1>4, <1>6, <1>10, <2>2
  <2>5. X[1] > 264 <=> ~(X[1] <= 264)
    BY <1>1
  <2> QED
    BY <2>1, <2>2, <2>3, <2>4, <2>5, Branch
<1> QED
  BY <1>7, <1>8, <1>9, <1>10

-----------------------------------------------------------------------------
(* The peak that decides on a tap *)

LEMMA FiveSum ==
    ASSUME NEW b \in Int, NEW w, DOMAIN w = b - 2 .. b + 2,
           \A i \in b - 2 .. b + 2 : w[i] \in Int
    PROVE  SumFunction(w) = w[b + 2] + (w[b + 1] + (w[b] + (w[b - 1] + w[b - 2])))
<1> DEFINE Sum(s) == SumFunctionOnSet(w, s)
           U == b - 2 .. b + 2
<1>1. IsFiniteSet(U)
  BY FS_Interval
<1>2. \A s \in SUBSET U : \A x \in U \ s : Sum(s \cup {x}) = w[x] + Sum(s)
  BY <1>1, SumAdd
<1>3. Sum({}) = 0
  BY FS_EmptySet, SumUnfold
<1>4. SumFunction(w) = Sum(U)
  BY DEF SumFunction
<1> HIDE DEF Sum
<1> DEFINE A1 == {} \cup {b - 2}
           A2 == A1 \cup {b - 1}
           A3 == A2 \cup {b}
           A4 == A3 \cup {b + 1}
           A5 == A4 \cup {b + 2}
<1>5. Sum(A1) = w[b - 2] + Sum({})
  <2>1. {} \in SUBSET U /\ b - 2 \in U \ {}
    OBVIOUS
  <2> QED
    BY <1>2, <2>1
<1>6. Sum(A2) = w[b - 1] + Sum(A1)
  <2>1. A1 \in SUBSET U /\ b - 1 \in U \ A1
    OBVIOUS
  <2> HIDE DEF A1
  <2> QED
    BY <1>2, <2>1
<1>7. Sum(A3) = w[b] + Sum(A2)
  <2>1. A2 \in SUBSET U /\ b \in U \ A2
    OBVIOUS
  <2> HIDE DEF A2
  <2> QED
    BY <1>2, <2>1
<1>8. Sum(A4) = w[b + 1] + Sum(A3)
  <2>1. A3 \in SUBSET U /\ b + 1 \in U \ A3
    OBVIOUS
  <2> HIDE DEF A3
  <2> QED
    BY <1>2, <2>1
<1>9. Sum(A5) = w[b + 2] + Sum(A4)
  <2>1. A4 \in SUBSET U /\ b + 2 \in U \ A4
    OBVIOUS
  <2> HIDE DEF A4
  <2> QED
    BY <1>2, <2>1
<1>10. U = A5
  OBVIOUS
<1> HIDE DEF U, A1, A2, A3, A4, A5
<1>11. Sum(A1) = w[b - 2]
  <2>1. w[b - 2] \in Int
    OBVIOUS
  <2> QED
    BY <1>3, <1>5, <2>1
<1> QED
  BY <1>4, <1>6, <1>7, <1>8, <1>9, <1>10, <1>11

Total(s) == SumFunctionOnSet(Weights, s)
Pointing(bins) == {i \in 1 .. n - 1 : Directions[i] \in bins}

\* Five bins around one that is opposite to another are those that are seven
\* to eleven bins away from that one, also where the circle closes.
LEMMA Opposite ==
    ASSUME ContactOK, Filtered, histogram = Histogram, NEW p \in Bins
    PROVE  Around(p + 9) = SumFunctionOnSet(Weights, {i \in 1 .. n - 1 :
              Directions[i] \in Bins /\ Magnitude(Directions[i] - p) \in 7 .. 11})
<1>1. p \in 0 .. 17 /\ Bins = 0 .. 17
  BY DEF Bins, ANGLE_HISTOGRAM_BIN_COUNT
<1>2. PICK c \in Int : c = p + 9
  BY <1>1
<1> DEFINE w == [i \in c - 2 .. c + 2 |-> histogram[Wrap(i)]]
<1>3. \A i \in Int : Wrap(i) = IF i < 0 THEN i + 18 ELSE IF i > 17 THEN i - 18 ELSE i
  BY DEF Wrap, ANGLE_HISTOGRAM_BIN_COUNT
<1>4. \A i \in c - 2 .. c + 2 : Wrap(i) \in 0 .. 17
  BY <1>1, <1>2, <1>3
<1>5. \A b \in 0 .. 17 : /\ histogram[b] \in Int
                         /\ histogram[b] = SumFunctionOnSet(Weights, {i \in 1 .. n - 1 : Directions[i] = b})
  <2>1. \A b \in 0 .. 17 : b \in 0 .. ANGLE_HISTOGRAM_BIN_COUNT
    BY DEF ANGLE_HISTOGRAM_BIN_COUNT
  <2> QED
    BY <2>1, Bin
<1>6. \A i \in c - 2 .. c + 2 : w[i] = histogram[Wrap(i)] /\ w[i] \in Int
  BY <1>4, <1>5
<1>7. Around(c) = SumFunction(w) /\ DOMAIN w = c - 2 .. c + 2
  BY DEF Around
<1> HIDE DEF w
<1>8. SumFunction(w) = w[c + 2] + (w[c + 1] + (w[c] + (w[c - 1] + w[c - 2])))
  BY <1>6, <1>7, FiveSum
<1> DEFINE a1 == Wrap(c + 2)
           a2 == Wrap(c + 1)
           a3 == Wrap(c)
           a4 == Wrap(c - 1)
           a5 == Wrap(c - 2)
<1>9. a1 \in 0 .. 17 /\ a2 \in 0 .. 17 /\ a3 \in 0 .. 17 /\ a4 \in 0 .. 17 /\ a5 \in 0 .. 17
  BY <1>4
<1>10. /\ a1 \notin {a2, a3, a4, a5} /\ a2 \notin {a3, a4, a5} /\ a3 \notin {a4, a5} /\ a4 # a5
  BY <1>1, <1>2, <1>3, <1>9
<1>11. \A x : x \in Bins /\ Magnitude(x - p) \in 7 .. 11 <=> x \in {a1, a2, a3, a4, a5}
  <2>1. ASSUME NEW x \in 0 .. 17
        PROVE  Magnitude(x - p) \in 7 .. 11 <=> x \in {a1, a2, a3, a4, a5}
    <3>1. /\ a1 = (IF p + 11 > 17 THEN p - 7 ELSE p + 11)
          /\ a2 = (IF p + 10 > 17 THEN p - 8 ELSE p + 10)
          /\ a3 = (IF p + 9 > 17 THEN p - 9 ELSE p + 9)
          /\ a4 = (IF p + 8 > 17 THEN p - 10 ELSE p + 8)
          /\ a5 = (IF p + 7 > 17 THEN p - 11 ELSE p + 7)
      BY <1>1, <1>2, <1>3, <1>9
    <3> HIDE DEF a1, a2, a3, a4, a5
    <3> QED
      BY <1>1, <3>1 DEF Magnitude
  <2> QED
    BY <1>1, <1>9, <2>1
<1> HIDE DEF a1, a2, a3, a4, a5
<1>12. {i \in 1 .. n - 1 : Directions[i] \in Bins /\ Magnitude(Directions[i] - p) \in 7 .. 11}
         = {i \in 1 .. n - 1 : Directions[i] \in {a1, a2, a3, a4, a5}}
  BY <1>11
<1>13. c + 2 \in c - 2 .. c + 2 /\ c + 1 \in c - 2 .. c + 2 /\ c \in c - 2 .. c + 2
       /\ c - 1 \in c - 2 .. c + 2 /\ c - 2 \in c - 2 .. c + 2
  OBVIOUS
<1>14. SumFunction(w) = histogram[a1] + (histogram[a2] + (histogram[a3] + (histogram[a4] + histogram[a5])))
  BY <1>6, <1>8, <1>13 DEF a1, a2, a3, a4, a5
<1>15. Total(Pointing({a1, a2, a3, a4, a5}))
         = Total(Pointing({a1})) + (Total(Pointing({a2})) + (Total(Pointing({a3}))
             + (Total(Pointing({a4})) + Total(Pointing({a5})))))
  <2> DEFINE Part(k) == Pointing({k})
             U == 1 .. n - 1
  <2>1. IsFiniteSet(U) /\ \A i \in U : Weights[i] \in Int
    <3>1. IsFiniteSet(U)
      BY FiniteFrames
    <3>2. \A i \in U : Weights[i] \in Int
      BY WeightsNat
    <3> QED
      BY <3>1, <3>2
  <2>2. ASSUME NEW A \in SUBSET U, NEW B \in SUBSET U, A \cap B = {}
        PROVE  Total(A \cup B) = Total(A) + Total(B)
    <3> HIDE DEF U
    <3>1. A \subseteq U /\ B \subseteq U
      OBVIOUS
    <3> QED
      BY <2>1, <2>2, <3>1, SumSplit DEF Total
  <2> DEFINE S2 == Part(a4) \cup Part(a5)
             S3 == Part(a3) \cup S2
             S4 == Part(a2) \cup S3
             S5 == Part(a1) \cup S4
  <2>3. \A k : Part(k) \in SUBSET U
    BY DEF Pointing
  <2>4. S2 = Pointing({a4, a5})
    BY DEF Pointing
  <2>5. S3 = Pointing({a3, a4, a5})
    BY DEF Pointing
  <2>6. S4 = Pointing({a2, a3, a4, a5})
    BY DEF Pointing
  <2>7. S5 = Pointing({a1, a2, a3, a4, a5})
    BY DEF Pointing
  <2>8. Part(a4) \cap Part(a5) = {}
    BY <1>10 DEF Pointing
  <2>9. Part(a3) \cap S2 = {}
    BY <1>10, <2>4 DEF Pointing
  <2>10. Part(a2) \cap S3 = {}
    BY <1>10, <2>5 DEF Pointing
  <2>11. Part(a1) \cap S4 = {}
    BY <1>10, <2>6 DEF Pointing
  <2>12. S2 \in SUBSET U /\ S3 \in SUBSET U /\ S4 \in SUBSET U
    BY <2>4, <2>5, <2>6 DEF Pointing
  <2>13. Total(S2) = Total(Part(a4)) + Total(Part(a5))
    BY <2>2, <2>3, <2>8
  <2>14. Total(S3) = Total(Part(a3)) + Total(S2)
    <3> HIDE DEF S2
    <3> QED
      BY <2>2, <2>3, <2>9, <2>12
  <2>15. Total(S4) = Total(Part(a2)) + Total(S3)
    <3> HIDE DEF S3
    <3> QED
      BY <2>2, <2>3, <2>10, <2>12
  <2>16. Total(S5) = Total(Part(a1)) + Total(S4)
    <3> HIDE DEF S4
    <3> QED
      BY <2>2, <2>3, <2>11, <2>12
  <2> HIDE DEF S2, S3, S4, S5
  <2>17. Total(S5) = Total(Part(a1)) + (Total(Part(a2)) + (Total(Part(a3)) + (Total(Part(a4)) + Total(Part(a5)))))
    BY <2>13, <2>14, <2>15, <2>16
  <2> QED
    BY <2>7, <2>17
<1>16. \A b \in 0 .. 17 : histogram[b] = Total(Pointing({b}))
  <2>1. \A b : {i \in 1 .. n - 1 : Directions[i] = b} = Pointing({b})
    BY DEF Pointing
  <2> QED
    BY <1>5, <2>1 DEF Total
<1>17. Around(c) = Total(Pointing({a1, a2, a3, a4, a5}))
  BY <1>7, <1>9, <1>14, <1>15, <1>16
<1> QED
  BY <1>2, <1>12, <1>17 DEF Total, Pointing

-----------------------------------------------------------------------------
(* The inductive invariant *)

IInv ==
    /\ ContactOK
    /\ kinds # Unset => Filtered
    /\ features # Unset => kinds # Unset /\ histogram = Histogram /\ FeaturesOK(features)
    /\ Classified => features # Unset /\ class = J48CLASS

LEMMA WithinIs ==
    ASSUME NEW low \in Int, NEW high \in Int, low <= high, NEW x \in Int
    PROVE  Within(x, low, high) \in low .. high
<1>1. \E m \in {high, x} : \A j \in {high, x} : m <= j
  OBVIOUS
<1>2. PICK m \in Int : m = Min({high, x}) /\ m <= high
  BY <1>1 DEF Min
<1>3. \E t \in {low, m} : \A j \in {low, m} : t >= j
  BY <1>2
<1>4. Max({low, m}) \in {low, m} /\ Max({low, m}) >= low
  BY <1>3 DEF Max
<1> QED
  BY <1>2, <1>4 DEF Within

LEMMA VelocitiesInt ==
    ASSUME NEW v \in Velocities
    PROVE  v[1] \in Int /\ v[2] \in Int
<1>1. \A x \in Both(XSpeeds) \cup Both(YSpeeds) : x \in Int
  BY SensorAssumption DEF Both
<1> QED
  BY <1>1 DEF Velocities

LEMMA Started == Init => IInv
<1> SUFFICES ASSUME Init PROVE IInv
  OBVIOUS
<1>1. PICK x \in XStarts : X = <<x>>
  BY DEF Init
<1>2. PICK y \in YStarts : Y = <<y>>
  BY DEF Init
<1>3. x \in 0 .. Xmax /\ y \in 128 .. Ymax
  BY SensorAssumption
<1>4. X \in Seq(0 .. Xmax) /\ Y \in Seq(128 .. Ymax) /\ Len(X) = 1 /\ Len(Y) = 1
  BY <1>1, <1>2, <1>3
<1>5. finger \in [velocity: Velocities, span: Nat, turns: Nat]
  BY DEF Init
<1>6. ContactOK
  BY <1>4, <1>5 DEF ContactOK, n
<1> QED
  BY <1>6 DEF Init, IInv, Classified

\* A contact that grows is one.
LEMMA Pushed == ASSUME ContactOK, Push PROVE ContactOK'
<1>1. n \in Nat /\ n >= 1 /\ n \in 1 .. n /\ Len(X) = n /\ Len(Y) = n
  BY Frames DEF ContactOK, n
<1>2. X[n] \in Nat /\ Y[n] \in Nat /\ Y[n] >= 128 /\ X[n] <= Xmax
  BY <1>1, Frames
<1>3. finger \in [velocity: Velocities, span: Nat, turns: Nat]
  BY DEF ContactOK
<1>4. finger.velocity[1] \in Int /\ finger.velocity[2] \in Int
  BY <1>3, VelocitiesInt
<1>5. Within(X[n] + finger.velocity[1], 0, Xmax) \in 0 .. Xmax
  <2>1. PICK x \in Int : x = X[n] + finger.velocity[1]
    BY <1>2, <1>4
  <2>2. Xmax \in Int /\ 0 <= Xmax
    BY SensorAssumption
  <2>3. Within(x, 0, Xmax) \in 0 .. Xmax
    BY <2>2, WithinIs
  <2> QED
    BY <2>1, <2>3
<1>6. Within(Y[n] + finger.velocity[2], 128, Ymax) \in 128 .. Ymax
  <2>1. PICK y \in Int : y = Y[n] + finger.velocity[2]
    BY <1>2, <1>4
  <2>2. 128 <= Ymax /\ Ymax \in Int
    <3>1. ASSUME NEW S, NEW s \in Seq(S), NEW i \in 1 .. Len(s) PROVE s[i] \in S
      OBVIOUS
    <3>2. Y[n] \in 128 .. Ymax
      BY <1>1, <3>1, Zenon DEF ContactOK
    <3> QED
      BY <3>2, SensorAssumption
  <2>3. Within(y, 128, Ymax) \in 128 .. Ymax
    BY <2>2, WithinIs
  <2> QED
    BY <2>1, <2>3
<1>7. /\ X' \in Seq(0 .. Xmax) /\ Len(X') = n + 1
      /\ Y' \in Seq(128 .. Ymax) /\ Len(Y') = n + 1
  BY <1>1, <1>5, <1>6 DEF ContactOK, Push
<1>8. finger' \in [velocity: Velocities, span: Nat, turns: Nat]
  BY <1>3 DEF Push
<1> QED
  BY <1>1, <1>7, <1>8 DEF ContactOK, n

\* What depends on variables that do not change does not change.
LEMMA SameContact == ASSUME ContactOK, UNCHANGED contact PROVE ContactOK'
BY DEF ContactOK, contact, n

LEMMA SamePad == ASSUME UNCHANGED <<X, Y, pad>>, Filtered PROVE Filtered'
<1>1. X' = X /\ Y' = Y /\ dX' = dX /\ dY' = dY /\ kinds' = kinds
  BY DEF pad
<1>2. n' = n
  BY <1>1 DEF n
<1>3. Smoothed' = Smoothed
  BY <1>1 DEF Smoothed, n, smoothYlast
<1>4. Steps(X)' = Steps(X) /\ Steps(Smoothed)' = Steps(Smoothed)
  BY <1>1, <1>2, <1>3 DEF Steps
<1>5. [i \in 1 .. n - 1 |-> Trend(dY[i])]' = [i \in 1 .. n - 1 |-> Trend(dY[i])]
  BY <1>1, <1>2
<1> QED
  BY <1>1, <1>2, <1>4, <1>5 DEF Filtered

LEMMA SameHistogram == ASSUME X' = X, dX' = dX, dY' = dY PROVE Histogram' = Histogram
BY DEF Histogram, Weights, Directions, Weight, n

LEMMA SameFeatures ==
    ASSUME X' = X, Y' = Y, FeaturesOK(features') PROVE FeaturesOK(features)'
BY DEF FeaturesOK, Never, Still, n

LEMMA SameTree ==
    ASSUME X' = X, features' = features, histogram' = histogram
    PROVE  J48CLASS' = J48CLASS
<1>1. n' = n
  BY DEF n
<1>2. LRVelTrigAtMost(-22, 1)' = LRVelTrigAtMost(-22, 1)
  BY DEF LRVelTrigAtMost
<1>3. LRVelTrigAtMost(116, 3)' = LRVelTrigAtMost(116, 3)
  BY DEF LRVelTrigAtMost
<1>4. LRVelTrigAtMost(98, 3)' = LRVelTrigAtMost(98, 3)
  BY DEF LRVelTrigAtMost
<1>5. angleMagMax' = angleMagMax
  BY DEF angleMagMax
<1>6. angleMagMaxIndex' = angleMagMaxIndex
  BY <1>5 DEF angleMagMaxIndex
<1>7. tapPeak' = tapPeak
  BY <1>6 DEF tapPeak, Around
<1>8. FastLeft' = FastLeft
  BY <1>6 DEF FastLeft, weightedPeakAngle, AtMost, Above
<1>9. FarRight' = FarRight
  BY <1>1 DEF FarRight
<1>10. MovesDown' = MovesDown
  BY <1>1, <1>3 DEF MovesDown
<1>11. MovesUp' = MovesUp
  BY <1>7 DEF MovesUp, AtMost, Above
<1>12. HardlyMoves' = HardlyMoves
  BY <1>1, <1>4, <1>5 DEF HardlyMoves, AtMost, Above
<1> QED
  BY <1>2, <1>8, <1>9, <1>10, <1>11, <1>12, SMT DEF J48CLASS

LEMMA Stepped == IInv /\ [Next]_vars => IInv'
<1> SUFFICES ASSUME IInv, [Next]_vars PROVE IInv'
  OBVIOUS
<1>1. ContactOK
  BY DEF IInv
<1>2. CASE Push
  <2>1. ContactOK'
    BY <1>1, <1>2, Pushed
  <2>2. kinds = Unset /\ features = Unset /\ class = "NONE"
    BY <1>2 DEF IInv, Push, On, Classified
  <2>3. UNCHANGED <<kinds, features, class>>
    BY <1>2 DEF Push, pad
  <2> QED
    BY <2>1, <2>2, <2>3 DEF IInv, Classified
<1>3. CASE Turn
  <2>1. PICK v \in Velocities : finger' = [velocity |-> v, span |-> 0, turns |-> finger.turns + 1]
    BY <1>3 DEF Turn
  <2>2. ContactOK'
    BY <1>1, <1>3, <2>1 DEF ContactOK, Turn, n
  <2>3. kinds = Unset /\ features = Unset /\ class = "NONE"
    BY <1>3 DEF IInv, Turn, On, Classified
  <2>4. UNCHANGED <<kinds, features, class>>
    BY <1>3 DEF Turn, pad
  <2> QED
    BY <2>2, <2>3, <2>4 DEF IInv, Classified
<1>4. CASE Filter
  <2>1. ContactOK'
    BY <1>1, <1>4, SameContact DEF Filter
  <2>2. X' = X /\ Y' = Y /\ n' = n
    BY <1>4 DEF Filter, contact, n
  <2>3. Steps(X)' = Steps(X) /\ Steps(Smoothed)' = Steps(Smoothed)
    <3>1. Smoothed' = Smoothed
      BY <2>2 DEF Smoothed, n, smoothYlast
    <3> QED
      BY <2>2, <3>1 DEF Steps
  <2>4. Filtered'
    BY <1>4, <2>2, <2>3 DEF Filter, Filtered
  <2>5. features = Unset /\ class = "NONE"
    BY <1>4 DEF IInv, Filter, On, Classified
  <2>6. UNCHANGED <<features, class>>
    BY <1>4 DEF Filter
  <2> QED
    BY <2>1, <2>4, <2>5, <2>6 DEF IInv, Classified
<1>5. CASE Features
  <2>1. ContactOK'
    BY <1>1, <1>5, SameContact DEF Features
  <2>2. X' = X /\ Y' = Y /\ dX' = dX /\ dY' = dY /\ kinds' = kinds /\ kinds # Unset
    BY <1>5 DEF Features, contact, pad
  <2>3. Filtered
    BY <2>2 DEF IInv
  <2>4. Filtered'
    BY <2>2, <2>3, SamePad DEF pad
  <2>5. FeaturesOK(features)'
    <3>1. FeaturesOK(features')
      BY <1>1, <1>5, <2>3, FeaturesAre DEF Features
    <3> QED
      BY <2>2, <3>1, SameFeatures
  <2>6. (histogram = Histogram)'
    BY <1>5, <2>2, SameHistogram DEF Features
  <2>7. class = "NONE" /\ class' = class
    BY <1>5 DEF IInv, Features, Classified
  <2> QED
    BY <2>1, <2>2, <2>4, <2>5, <2>6, <2>7 DEF IInv, Classified
<1>6. CASE classifyGesture \/ UNCHANGED vars
  <2>1. UNCHANGED <<contact, pad, histogram, features>>
    BY <1>6 DEF classifyGesture, vars
  <2>2. ContactOK'
    BY <1>1, <2>1, SameContact
  <2>3. X' = X /\ Y' = Y /\ dX' = dX /\ dY' = dY /\ kinds' = kinds
    BY <2>1 DEF contact, pad
  <2>4. (kinds # Unset => Filtered)'
    BY <2>1, <2>3, SamePad DEF IInv
  <2>5. (features # Unset => kinds # Unset /\ histogram = Histogram /\ FeaturesOK(features))'
    <3>1. FeaturesOK(features) => FeaturesOK(features)'
      BY <2>1, <2>3, SameFeatures
    <3> QED
      BY <2>1, <2>3, <3>1, SameHistogram DEF IInv
  <2>6. J48CLASS' = J48CLASS
    BY <2>1, <2>3, SameTree
  <2>7. (Classified => features # Unset /\ class = J48CLASS)'
    <3>1. CASE classifyGesture
      BY <2>6, <3>1 DEF classifyGesture, Classified
    <3>2. CASE UNCHANGED vars
      BY <2>6, <3>2 DEF vars, IInv, Classified
    <3> QED
      BY <1>6, <3>1, <3>2
  <2> QED
    BY <2>2, <2>4, <2>5, <2>7 DEF IInv
<1> QED
  BY <1>2, <1>3, <1>4, <1>5, <1>6 DEF Next

LEMMA Inductive == Spec => []IInv
<1> QED
  BY Started, Stepped, PTL DEF Spec

-----------------------------------------------------------------------------
(* The theorems *)

\* A classified contact, its histogram and its features
LEMMA Facts ==
    ASSUME IInv, Classified
    PROVE  /\ ContactOK /\ Filtered /\ HistogramOK /\ FeaturesOK(features)
           /\ histogram = Histogram /\ class = J48CLASS
<1>1. /\ ContactOK /\ Filtered /\ FeaturesOK(features)
      /\ histogram = Histogram /\ class = J48CLASS
  BY DEF IInv
<1>2. \A b \in Bins : b \in 0 .. ANGLE_HISTOGRAM_BIN_COUNT
  BY DEF Bins, ANGLE_HISTOGRAM_BIN_COUNT
<1>3. HistogramOK
  BY <1>1, <1>2, Bin DEF HistogramOK
<1> QED
  BY <1>1, <1>3

\* Every contact that is classified gets a gesture: no path of the tree ends
\* without one, for closures that are numbers and features of any size
\* (recognizer.c:404-537).
THEOREM DecidedCorrect == Spec => []Decided
<1>1. IInv => Decided
  BY Facts, Tree DEF Decided
<1> QED
  BY <1>1, Inductive, PTL

\* A finger that rests is never a swipe up, down or to the left, and a tap
\* within the tap time unless it rests beyond 264: the smoothing does not move
\* it, its histogram is empty, and it makes no run (recognizer.c:404-537,
\* 560-583, 649-657).
THEOREM StillCorrect == Spec => []StillContact
<1>1. ASSUME IInv, Classified, \A i \in 1 .. n : X[i] = X[1] /\ Y[i] = Y[1]
      PROVE  class = IF X[1] <= 264 THEN "TAP" ELSE "RIGHT"
  <2>1. Still(X) /\ Still(Y)
    BY <1>1 DEF Still
  <2>2. ContactOK /\ Filtered /\ HistogramOK /\ FeaturesOK(features)
        /\ histogram = Histogram /\ class = J48CLASS
    BY <1>1, Facts
  <2>3. \A i \in 1 .. n - 1 : dX[i] = 0 /\ dY[i] = 0
    BY <2>1, <2>2, Resting
  <2>4. \A b \in Bins : b \in 0 .. ANGLE_HISTOGRAM_BIN_COUNT
    BY DEF Bins, ANGLE_HISTOGRAM_BIN_COUNT
  <2>5. \A b \in Bins : histogram[b] = 0
    BY <2>2, <2>3, <2>4, Bin
  <2>6. angleMagMax = 0
    <3>1. 0 \in Bins
      BY DEF Bins, ANGLE_HISTOGRAM_BIN_COUNT
    <3>2. {histogram[b] : b \in Bins} = {0}
      BY <2>5, <3>1
    <3>3. Max({0}) = 0
      BY DEF Max
    <3> QED
      BY <3>2, <3>3 DEF angleMagMax
  <2> QED
    BY <2>1, <2>2, <2>6, Tree
<1>2. IInv => StillContact
  BY <1>1 DEF StillContact
<1> QED
  BY <1>2, Inductive, PTL

\* A finger that never moves left is LEFT only in a contact of at most eight
\* frames, and one that never moves left or down is never DOWN: a smoothed Y
\* that never falls has no frame of the trend down (recognizer.c:404-537,
\* 560-583).
THEOREM NotAgainstCorrect == Spec => []NotAgainstTheFinger
<1>1. IInv /\ Classified => /\ Never(X) /\ class = "LEFT" => n <= 8
                            /\ Never(X) /\ Never(Y) => class # "DOWN"
  BY Facts, Tree
<1>2. IInv => NotAgainstTheFinger
  BY <1>1 DEF NotAgainstTheFinger, Never
<1> QED
  BY <1>2, Inductive, PTL

\* The peak that tells a tap from a stroke up is the weight of the frames that
\* point to within two bins of the opposite of the heaviest direction, wherever
\* on the circle of bins that is (recognizer.c:247-254, 294-306).
THEOREM TapPeakCorrect == Spec => []TapPeakIsOpposite
<1>1. ASSUME IInv, Classified
      PROVE  tapPeak = SumFunctionOnSet(Weights, {i \in 1 .. n - 1 :
                Directions[i] \in Bins /\ Magnitude(Directions[i] - angleMagMaxIndex) \in 7 .. 11})
  <2>1. ContactOK /\ Filtered /\ HistogramOK /\ histogram = Histogram
    BY <1>1, Facts
  <2>2. angleMagMaxIndex \in Bins
    BY <2>1, Peak
  <2>3. ANGLE_HISTOGRAM_BIN_COUNT \div 2 = 9
    BY DEF ANGLE_HISTOGRAM_BIN_COUNT
  <2> QED
    BY <2>1, <2>2, <2>3, Opposite DEF tapPeak
<1>2. IInv => TapPeakIsOpposite
  BY <1>1 DEF TapPeakIsOpposite
<1> QED
  BY <1>2, Inductive, PTL

=============================================================================
