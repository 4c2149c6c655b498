-------------------------- MODULE TimerWheelProofs --------------------------
(***************************************************************************)
(* Proofs about TimerWheel, for any number of wheels and slots, any        *)
(* durations and any number of timers and services.                        *)
(*                                                                         *)
(* The slots of a key and the heads of the wheels are numbers in base      *)
(* WHEEL_SIZE, and how long a key still has is their difference            *)
(* (Distance).  A tick moves the head of wheel 0; until the cascade has    *)
(* moved the next wheel's, the keys above are one turn off (Pending), and  *)
(* a timer that is set in between stays so (Early).  The inductive         *)
(* invariant says this of every key (Timed).                               *)
(***************************************************************************)
EXTENDS TimerWheel, FiniteSetTheorems, NaturalsInduction, WellFoundedInduction, TLAPS

-----------------------------------------------------------------------------
(* Induction and recursion, stated with sets and functions. *)

LEMMA LeastNumber ==
    ASSUME NEW T, T \subseteq Nat, T # {}
    PROVE  \E x \in T : \A y \in T : x <= y
<1>1. PICK x \in T : \A y \in T : ~(<<y, x>> \in OpToRel(<, Nat))
  BY NatLessThanWellFounded, WFMin
<1>2. ASSUME NEW y \in T
      PROVE  x <= y
  <2>1. x \in Nat /\ y \in Nat /\ ~(y < x)
    BY <1>1 DEF OpToRel
  <2> QED
    BY <2>1
<1> QED
  BY <1>2

\* A set that holds 0 and with a number the next one holds all of them.
LEMMA Climb ==
    ASSUME NEW N \in Nat, NEW S, 0 \in S, \A i \in 0..(N - 1) : i \in S => i + 1 \in S
    PROVE  0..N \subseteq S
<1> DEFINE T == (0..N) \ S
<1> SUFFICES ASSUME T # {} PROVE FALSE
  OBVIOUS
<1>0. T \subseteq Nat
  OBVIOUS
<1>1. PICK x \in T : \A y \in T : x <= y
  <2> HIDE DEF T
  <2> QED
    BY <1>0, LeastNumber
<1>2. x \in 0..N /\ x \notin S /\ x # 0
  OBVIOUS
<1>3. x - 1 \in 0..(N - 1) /\ x - 1 \in 0..N /\ (x - 1) + 1 = x
  BY <1>2
<1>4. x - 1 \notin T
  BY <1>1, <1>3
<1> QED
  BY <1>2, <1>3, <1>4

\* f starts with base and goes on by step, up to n.
Iterates(f, n, base, step) ==
    /\ f \in [0..n -> Int]
    /\ \A i \in 0..n : f[i] = IF i = 0 THEN base ELSE step[i - 1][f[i - 1]]

LEMMA Recursion ==
    ASSUME NEW N \in Nat, NEW base \in Int, NEW step \in [Nat -> [Int -> Int]]
    PROVE  \E f : Iterates(f, N, base, step)
<1> DEFINE Is(f, n) == Iterates(f, n, base, step)
           S == {n \in Nat : \E f : Is(f, n)}
<1> USE DEF Iterates
<1>1. 0 \in S
  <2>1. Is([i \in 0..0 |-> base], 0)
    OBVIOUS
  <2> QED
    BY <2>1
<1>2. ASSUME NEW n \in 0..(N - 1), n \in S
      PROVE  n + 1 \in S
  <2>1. PICK f : Is(f, n)
    BY <1>2
  <2> DEFINE x == step[n][f[n]]
             g == [i \in 0..(n + 1) |-> IF i = n + 1 THEN x ELSE f[i]]
  <2>2. n \in Nat /\ f[n] \in Int
    BY <2>1
  <2>3. x \in Int
    BY <2>2
  <2> HIDE DEF x
  <2>4. g \in [0..(n + 1) -> Int]
    BY <2>1, <2>2, <2>3
  <2>5. ASSUME NEW i \in 0..(n + 1)
        PROVE  g[i] = IF i = 0 THEN base ELSE step[i - 1][g[i - 1]]
    <3>1. CASE i = n + 1
      <4>1. i # 0 /\ i - 1 = n /\ n \in 0..(n + 1) /\ n # n + 1
        BY <2>2, <3>1
      <4>2. g[i] = x /\ g[i - 1] = f[n]
        BY <3>1, <4>1
      <4> QED
        BY <4>1, <4>2 DEF x
    <3>2. CASE i # n + 1
      <4>1. i \in 0..n /\ g[i] = f[i]
        BY <2>2, <3>2
      <4>2. i # 0 => i - 1 \in 0..(n + 1) /\ i - 1 # n + 1
        BY <2>2, <4>1
      <4>3. i # 0 => g[i - 1] = f[i - 1]
        BY <4>2
      <4> QED
        BY <2>1, <4>1, <4>3
    <3> QED
      BY <3>1, <3>2
  <2>6. Is(g, n + 1) /\ n + 1 \in Nat
    <3> HIDE DEF g
    <3> QED
      BY <2>2, <2>4, <2>5
  <2> QED
    BY <2>6
<1> HIDE DEF S
<1>3. 0..N \subseteq S
  BY <1>1, <1>2, Climb
<1>4. N \in S
  BY <1>3
<1> QED
  BY <1>4 DEF S

LEMMA Division ==
    ASSUME NEW m \in Nat \ {0}, NEW x \in Int
    PROVE  x \div m \in Int /\ x % m \in 0..(m - 1) /\ x = ((x \div m) * m) + (x % m)
OBVIOUS

\* Division with rest.
LEMMA RestIs ==
    ASSUME NEW m \in Nat \ {0}, NEW q \in Int, NEW r \in 0..(m - 1)
    PROVE  (q * m + r) % m = r /\ (q * m + r) \div m = q
<1> DEFINE a == q * m + r
           d == a \div m
           e == a % m
<1>1. a \in Int /\ a = d * m + e /\ d \in Int /\ e \in 0..(m - 1)
  OBVIOUS
<1> DEFINE z == q - d
<1>2. z * m = e - r /\ z \in Int /\ e - r < m /\ e - r > -m
  BY <1>1
<1> HIDE DEF z, a, d, e
<1>3. z >= 1 => z * m >= m
  BY <1>2
<1>4. z <= -1 => z * m <= -m
  BY <1>2
<1>5. z = 0
  BY <1>1, <1>2, <1>3, <1>4
<1> QED
  BY <1>1, <1>2, <1>5 DEF a, d, e, z

-----------------------------------------------------------------------------
(* The wheels as numbers. *)

LEMMA Constants ==
    /\ WHEEL_SIZE \in Nat /\ WHEEL_SIZE >= 2
    /\ Wheels \in Nat /\ Wheels >= 1
    /\ PRECISION \in Nat /\ PRECISION >= 1
    /\ Wheels - 1 \in Levels /\ 0 \in Levels /\ Levels \subseteq 0..Wheels
BY WheelAssumption DEF Levels

LEMMA SlotTicksIs ==
    /\ \A i \in 0..Wheels : SlotTicks[i] \in Nat /\ SlotTicks[i] >= 1
    /\ SlotTicks[0] = 1
    /\ \A i \in Levels : SlotTicks[i + 1] = WHEEL_SIZE * SlotTicks[i]
<1> USE Constants
<1> DEFINE step == [n \in Nat |-> [x \in Int |-> WHEEL_SIZE * x]]
<1>1. step \in [Nat -> [Int -> Int]]
  OBVIOUS
<1>2. \A i \in Nat, x \in Int : step[i][x] = WHEEL_SIZE * x
  OBVIOUS
<1> HIDE DEF step
<1>3. PICK f : Iterates(f, Wheels, 1, step)
  <2> DEFINE one == 1
  <2>1. one \in Int
    OBVIOUS
  <2> HIDE DEF one
  <2>2. \E f : Iterates(f, Wheels, one, step)
    BY <1>1, <2>1, Recursion
  <2> QED
    BY <2>2 DEF one
<1>4. ASSUME NEW i \in 0..Wheels
      PROVE  f[i] = IF i = 0 THEN 1 ELSE WHEEL_SIZE * f[i - 1]
  <2>1. i # 0 => i - 1 \in Nat /\ i - 1 \in 0..Wheels
    OBVIOUS
  <2>2. i # 0 => step[i - 1][f[i - 1]] = WHEEL_SIZE * f[i - 1]
    BY <1>2, <1>3, <2>1 DEF Iterates
  <2> QED
    BY <1>3, <2>2 DEF Iterates
<1>5. f = [i \in 0..Wheels |-> IF i = 0 THEN 1 ELSE WHEEL_SIZE * f[i - 1]]
  BY <1>3, <1>4 DEF Iterates
<1>6. SlotTicks = [i \in 0..Wheels |-> IF i = 0 THEN 1 ELSE WHEEL_SIZE * SlotTicks[i - 1]]
  <2>1. \E g : g = [i \in 0..Wheels |-> IF i = 0 THEN 1 ELSE WHEEL_SIZE * g[i - 1]]
    BY <1>5
  <2> QED
    BY <2>1 DEF SlotTicks
<1>7. SlotTicks[0] = 1
  BY <1>6
<1>8. ASSUME NEW i \in Levels
      PROVE  SlotTicks[i + 1] = WHEEL_SIZE * SlotTicks[i]
  <2>1. i + 1 \in 0..Wheels /\ i + 1 # 0 /\ (i + 1) - 1 = i
    BY DEF Levels
  <2> QED
    BY <1>6, <2>1
<1> DEFINE S == {i \in 0..Wheels : SlotTicks[i] \in Nat /\ SlotTicks[i] >= 1}
<1>9. 0 \in S
  BY <1>7
<1>10. ASSUME NEW i \in 0..(Wheels - 1), i \in S
       PROVE  i + 1 \in S
  <2>1. i \in Levels /\ i + 1 \in 0..Wheels
    BY DEF Levels
  <2>2. SlotTicks[i] \in Nat /\ SlotTicks[i] >= 1
    BY <1>10
  <2> DEFINE t == SlotTicks[i]
  <2>3. SlotTicks[i + 1] = WHEEL_SIZE * t /\ t \in Nat /\ t >= 1
    BY <1>8, <2>1, <2>2
  <2> HIDE DEF t
  <2>4. WHEEL_SIZE * t \in Nat /\ WHEEL_SIZE * t >= 1
    BY <2>3
  <2> QED
    BY <2>1, <2>3, <2>4
<1> HIDE DEF S
<1>11. 0..Wheels \subseteq S
  BY <1>9, <1>10, Climb
<1> QED
  BY <1>7, <1>8, <1>11 DEF S

LEMMA LevelRecursion ==
    ASSUME NEW base \in Int, NEW step \in [Nat -> [Int -> Int]]
    PROVE  \E f \in [Levels -> Int] : \A i \in Levels :
               f[i] = IF i = 0 THEN base ELSE step[i - 1][f[i - 1]]
<1> DEFINE N == Wheels - 1
<1>1. N \in Nat /\ Levels = 0..N
  BY Constants DEF Levels
<1> HIDE DEF N
<1>2. PICK f : Iterates(f, N, base, step)
  BY <1>1, Recursion
<1> QED
  BY <1>1, <1>2 DEF Iterates

LEMMA Below ==
    ASSUME NEW i \in Levels
    PROVE  /\ i \in Nat /\ i \in 0..Wheels /\ i + 1 \in 0..Wheels
           /\ i # 0 => i - 1 \in Levels /\ i - 1 \in Nat /\ (i - 1) + 1 = i
BY Constants DEF Levels

\* Induction over the levels.
LEMMA ClimbLevels ==
    ASSUME NEW S, 0 \in S, \A i \in Levels : i + 1 \in Levels /\ i \in S => i + 1 \in S
    PROVE  Levels \subseteq S
<1> DEFINE N == Wheels - 1
<1>1. N \in Nat /\ Levels = 0..N
  BY Constants DEF Levels
<1> HIDE DEF N
<1>2. \A i \in 0..(N - 1) : i \in Levels /\ i + 1 \in Levels
  BY <1>1
<1> QED
  BY <1>1, <1>2, Climb

\* slot_count, wheel by wheel.
LEMMA SlotCountIs ==
    ASSUME head_ \in [Levels -> Slots], NEW n \in Int
    PROVE  /\ \A i \in Levels : SlotCount(n)[i] \in Int
           /\ SlotCount(n)[0] = n + head_[0]
           /\ \A i \in Levels : i # 0 =>
                  SlotCount(n)[i] = ((SlotCount(n)[i - 1] - 1) \div WHEEL_SIZE) + head_[i]
<1> DEFINE h(j) == IF j \in Levels THEN head_[j] ELSE 0
           base == n + head_[0]
           step == [j \in Nat |-> [x \in Int |-> ((x - 1) \div WHEEL_SIZE) + h(j + 1)]]
<1>0. WHEEL_SIZE \in Nat \ {0} /\ \A i \in Levels : head_[i] \in Int
  BY Constants DEF Slots
<1>1. \A j : h(j) \in Int
  BY <1>0
<1>2. base \in Int
  BY <1>0, Constants
<1>3. \A j \in Nat, x \in Int : step[j][x] = ((x - 1) \div WHEEL_SIZE) + h(j + 1)
  OBVIOUS
<1>4. step \in [Nat -> [Int -> Int]]
  <2> HIDE DEF h
  <2>1. \A j \in Nat, x \in Int : ((x - 1) \div WHEEL_SIZE) + h(j + 1) \in Int
    BY <1>0, <1>1
  <2> QED
    BY <2>1
<1> HIDE DEF step, base
<1>5. PICK f \in [Levels -> Int] : \A i \in Levels :
          f[i] = IF i = 0 THEN base ELSE step[i - 1][f[i - 1]]
  BY <1>2, <1>4, LevelRecursion
<1>6. ASSUME NEW i \in Levels
      PROVE  f[i] = IF i = 0 THEN n + head_[0]
                    ELSE ((f[i - 1] - 1) \div WHEEL_SIZE) + head_[i]
  <2>1. CASE i = 0
    BY <1>5, <2>1 DEF base
  <2>2. CASE i # 0
    <3>1. i - 1 \in Levels /\ i - 1 \in Nat /\ (i - 1) + 1 = i
      BY <2>2, Below
    <3>2. f[i - 1] \in Int
      BY <3>1
    <3>3. step[i - 1][f[i - 1]] = ((f[i - 1] - 1) \div WHEEL_SIZE) + h((i - 1) + 1)
      BY <1>3, <3>1, <3>2
    <3>4. h((i - 1) + 1) = head_[i]
      BY <3>1
    <3> QED
      BY <1>5, <2>2, <3>3, <3>4
  <2> QED
    BY <2>1, <2>2
<1> DEFINE G(g) == [i \in Levels |-> IF i = 0 THEN n + head_[0]
                                     ELSE ((g[i - 1] - 1) \div WHEEL_SIZE) + head_[i]]
<1>7. f = G(f)
  <2>1. f = [i \in Levels |-> f[i]]
    OBVIOUS
  <2> QED
    BY <1>6, <2>1
<1>8. SlotCount(n) = CHOOSE g : g = G(g)
  BY DEF SlotCount
<1> DEFINE c == SlotCount(n)
<1>9. c = G(c)
  <2> HIDE DEF G
  <2> QED
    BY <1>7, <1>8
<1> HIDE DEF c
<1>10. \A i \in Levels : c[i] = IF i = 0 THEN n + head_[0]
                                ELSE ((c[i - 1] - 1) \div WHEEL_SIZE) + head_[i]
  BY <1>9
<1> DEFINE S == {i \in Levels : c[i] \in Int}
<1>11. 0 \in S
  BY <1>0, <1>10, Constants
<1>12. ASSUME NEW i \in Levels, i + 1 \in Levels, i \in S
       PROVE  i + 1 \in S
  <2>1. i + 1 # 0 /\ (i + 1) - 1 = i /\ c[i] \in Int
    BY <1>12, Below
  <2>2. c[i + 1] = ((c[i] - 1) \div WHEEL_SIZE) + head_[i + 1]
    BY <1>10, <1>12, <2>1
  <2>3. c[i + 1] \in Int
    BY <1>0, <1>12, <2>1, <2>2
  <2> QED
    BY <1>12, <2>3
<1> HIDE DEF S
<1>13. Levels \subseteq S
  BY <1>11, <1>12, ClimbLevels
<1> QED
  BY <1>10, <1>13, Constants DEF S, c

\* How many ticks the heads h are before the slots sl, seen from wheel i: the head of wheel
\* 0 is at the next slot, those of the others are one further, as their last slot has
\* been cascaded.
Distance(sl, h) ==
    LET d[i \in Levels] ==
            IF i = 0 THEN sl[0] - h[0]
            ELSE d[i - 1] + ((sl[i] - h[i]) + 1) * SlotTicks[i]
    IN  d

LEMMA DistanceIs ==
    ASSUME NEW sl \in [Levels -> Slots], NEW h \in [Levels -> Slots]
    PROVE  /\ \A i \in Levels : Distance(sl, h)[i] \in Int
           /\ Distance(sl, h)[0] = sl[0] - h[0]
           /\ \A i \in Levels : i # 0 =>
                  Distance(sl, h)[i] =
                      Distance(sl, h)[i - 1] + ((sl[i] - h[i]) + 1) * SlotTicks[i]
<1> DEFINE w(j) == IF j \in Levels THEN ((sl[j] - h[j]) + 1) * SlotTicks[j] ELSE 0
           base == sl[0] - h[0]
           step == [j \in Nat |-> [x \in Int |-> x + w(j + 1)]]
<1>0. \A i \in Levels : sl[i] \in Int /\ h[i] \in Int /\ SlotTicks[i] \in Int
  BY Constants, SlotTicksIs, Below DEF Slots
<1>1. \A j : w(j) \in Int
  <2> TAKE j
  <2>1. ASSUME j \in Levels
        PROVE  ((sl[j] - h[j]) + 1) * SlotTicks[j] \in Int
    <3> DEFINE a == (sl[j] - h[j]) + 1
               t == SlotTicks[j]
    <3>1. a \in Int /\ t \in Int
      BY <1>0, <2>1
    <3> HIDE DEF a, t
    <3>2. a * t \in Int
      BY <3>1
    <3> QED
      BY <3>2 DEF a, t
  <2> QED
    BY <2>1
<1>2. base \in Int
  BY <1>0, Constants
<1>3. \A j \in Nat, x \in Int : step[j][x] = x + w(j + 1)
  OBVIOUS
<1>4. step \in [Nat -> [Int -> Int]]
  <2> HIDE DEF w
  <2> QED
    BY <1>1
<1> HIDE DEF step, base
<1>5. PICK f \in [Levels -> Int] : \A i \in Levels :
          f[i] = IF i = 0 THEN base ELSE step[i - 1][f[i - 1]]
  BY <1>2, <1>4, LevelRecursion
<1>6. ASSUME NEW i \in Levels
      PROVE  f[i] = IF i = 0 THEN sl[0] - h[0]
                    ELSE f[i - 1] + ((sl[i] - h[i]) + 1) * SlotTicks[i]
  <2>1. CASE i = 0
    BY <1>5, <2>1 DEF base
  <2>2. CASE i # 0
    <3>1. i - 1 \in Levels /\ i - 1 \in Nat /\ (i - 1) + 1 = i
      BY <2>2, Below
    <3>2. f[i - 1] \in Int
      BY <3>1
    <3>3. step[i - 1][f[i - 1]] = f[i - 1] + w((i - 1) + 1)
      BY <1>3, <3>1, <3>2
    <3>4. w((i - 1) + 1) = ((sl[i] - h[i]) + 1) * SlotTicks[i]
      BY <3>1
    <3> HIDE DEF w
    <3> QED
      BY <1>5, <2>2, <3>3, <3>4
  <2> QED
    BY <2>1, <2>2
<1> DEFINE G(g) == [i \in Levels |-> IF i = 0 THEN sl[0] - h[0]
                                     ELSE g[i - 1] + ((sl[i] - h[i]) + 1) * SlotTicks[i]]
<1>7. f = G(f)
  <2>1. f = [i \in Levels |-> f[i]]
    OBVIOUS
  <2> QED
    BY <1>6, <2>1
<1>8. Distance(sl, h) = CHOOSE g : g = G(g)
  BY DEF Distance
<1> DEFINE d == Distance(sl, h)
<1>9. d = G(d)
  <2> HIDE DEF G
  <2> QED
    BY <1>7, <1>8
<1> HIDE DEF d
<1>10. \A i \in Levels : d[i] = IF i = 0 THEN sl[0] - h[0]
                                ELSE d[i - 1] + ((sl[i] - h[i]) + 1) * SlotTicks[i]
  BY <1>9
<1> DEFINE S == {i \in Levels : d[i] \in Int}
<1>11. 0 \in S
  BY <1>0, <1>10, Constants
<1>12. ASSUME NEW i \in Levels, i + 1 \in Levels, i \in S
       PROVE  i + 1 \in S
  <2>1. i + 1 # 0 /\ (i + 1) - 1 = i /\ d[i] \in Int
    BY <1>12, Below
  <2>2. d[i + 1] = d[i] + w(i + 1)
    BY <1>10, <1>12, <2>1
  <2>3. w(i + 1) \in Int
    BY <1>1
  <2> HIDE DEF w
  <2>4. d[i + 1] \in Int
    BY <2>1, <2>2, <2>3
  <2> QED
    BY <1>12, <2>4
<1> HIDE DEF S
<1>13. Levels \subseteq S
  BY <1>11, <1>12, ClimbLevels
<1> QED
  BY <1>10, <1>13, Constants DEF S, d

\* When head u moves to x, the distances from wheel u on change by whole slots of wheel u.
Moved(h, u, x, h2) == h2 = [h EXCEPT ![u] = x]

Shifted(sl, h, u, x, h2) ==
    \A i \in Levels : Distance(sl, h2)[i] =
        Distance(sl, h)[i] + (IF i < u THEN 0 ELSE (h[u] - x) * SlotTicks[u])

LEMMA HeadMoves ==
    ASSUME NEW sl \in [Levels -> Slots], NEW h \in [Levels -> Slots],
           NEW u \in Levels, NEW x \in Slots, NEW h2, Moved(h, u, x, h2)
    PROVE  Shifted(sl, h, u, x, h2)
<1> USE DEF Moved
<1> DEFINE d  == Distance(sl, h)
           d2 == Distance(sl, h2)
           move == (h[u] - x) * SlotTicks[u]
           S == {i \in Levels : d2[i] = d[i] + (IF i < u THEN 0 ELSE move)}
<1>1. /\ h2 \in [Levels -> Slots] /\ h2[u] = x
      /\ \A i \in Levels : i # u => h2[i] = h[i]
  OBVIOUS
<1>2. /\ \A i \in Levels : d[i] \in Int
      /\ d[0] = sl[0] - h[0]
      /\ \A i \in Levels : i # 0 => d[i] = d[i - 1] + ((sl[i] - h[i]) + 1) * SlotTicks[i]
  BY DistanceIs
<1>3. /\ \A i \in Levels : d2[i] \in Int
      /\ d2[0] = sl[0] - h2[0]
      /\ \A i \in Levels : i # 0 => d2[i] = d2[i - 1] + ((sl[i] - h2[i]) + 1) * SlotTicks[i]
  BY SMTT(20), ZenonT(60), <1>1, DistanceIs
<1>4. \A i \in Levels : sl[i] \in Int /\ h[i] \in Int /\ h2[i] \in Int /\ SlotTicks[i] \in Int
  BY <1>1, Constants, SlotTicksIs, Below DEF Slots
<1>5. x \in Int /\ u \in Nat /\ SlotTicks[0] = 1
  BY SlotTicksIs, Below DEF Slots
<1> HIDE DEF d, d2
<1>6. move \in Int
  <2> DEFINE a == h[u] - x
             t == SlotTicks[u]
  <2>1. a \in Int /\ t \in Int
    BY <1>4, <1>5
  <2> HIDE DEF a, t
  <2>2. a * t \in Int
    BY <2>1
  <2> QED
    BY <2>2 DEF a, t
<1>7. 0 \in S
  <2>1. CASE u = 0
    <3>1. move = h[0] - x
      BY <1>4, <1>5, <2>1, Constants
    <3>2. ~(0 < u) /\ h2[0] = x
      BY <1>1, <2>1
    <3> HIDE DEF move
    <3> QED
      BY <1>2, <1>3, <1>4, <1>5, <3>1, <3>2, Constants
  <2>2. CASE u # 0
    <3>1. 0 < u /\ h2[0] = h[0]
      BY <1>1, <1>5, <2>2, Constants
    <3> QED
      BY <1>2, <1>3, <3>1, Constants
  <2> QED
    BY <2>1, <2>2
<1>8. ASSUME NEW i \in Levels, i + 1 \in Levels, i \in S
      PROVE  i + 1 \in S
  <2> DEFINE k == i + 1
             t == SlotTicks[k]
             b == sl[k] - h[k]
             b2 == sl[k] - h2[k]
  <2>1. k \in Levels /\ k # 0 /\ k - 1 = i /\ i \in Nat
    BY <1>8, Below
  <2>2. d2[i] = d[i] + (IF i < u THEN 0 ELSE move)
    BY <1>8
  <2>3. d[k] = d[i] + (b + 1) * t /\ d2[k] = d2[i] + (b2 + 1) * t
    BY <1>2, <1>3, <2>1
  <2>4. b \in Int /\ b2 \in Int /\ t \in Int
    BY <1>4, <2>1
  <2>5. d2[k] = d[k] + (IF k < u THEN 0 ELSE move)
    <3>1. CASE k = u
      <4>1. b2 - b = h[u] - x
        BY <1>1, <1>4, <1>5, <2>1, <3>1
      <4>2. move = (b2 - b) * t
        BY <3>1, <4>1
      <4>3. i < u /\ ~(k < u)
        BY <1>5, <2>1, <3>1
      <4>4. d2[i] = d[i]
        BY <1>2, <2>2, <4>3
      <4> HIDE DEF b, b2, t, move
      <4>5. (b2 + 1) * t = (b + 1) * t + (b2 - b) * t
        BY <2>4
      <4> DEFINE p == (b + 1) * t
                 q == (b2 - b) * t
      <4>6. p \in Int /\ q \in Int
        BY <2>4
      <4>7. d[k] = d[i] + p /\ d2[k] = d[i] + (p + q) /\ move = q
        BY <2>3, <4>2, <4>4, <4>5
      <4> HIDE DEF p, q
      <4> QED
        BY <1>2, <2>1, <4>3, <4>6, <4>7
    <3>2. CASE k # u
      <4>1. b2 = b /\ (i < u <=> k < u)
        BY <1>1, <1>5, <2>1, <3>2
      <4> DEFINE p == (b + 1) * t
      <4>2. p \in Int
        <5> HIDE DEF b, t
        <5> QED
          BY <2>4
      <4>3. d[k] = d[i] + p /\ d2[k] = d2[i] + p
        BY <2>3, <4>1
      <4> HIDE DEF p, move, b, b2, t
      <4> QED
        BY <1>2, <1>3, <1>6, <2>1, <2>2, <4>1, <4>2, <4>3
    <3> QED
      BY <3>1, <3>2
  <2> HIDE DEF move
  <2> QED
    BY <2>1, <2>5
<1> HIDE DEF S
<1>9. Levels \subseteq S
  BY <1>7, <1>8, ClimbLevels
<1> QED
  BY <1>9 DEF S, d, d2, Shifted

\* A key ahead of the head of its wheel is not behind.
LEMMA DistanceBound ==
    ASSUME NEW sl \in [Levels -> Slots], NEW h \in [Levels -> Slots]
    PROVE  \A i \in Levels : sl[i] >= h[i] => Distance(sl, h)[i] >= 0
<1> DEFINE d == Distance(sl, h)
           S == {i \in Levels : d[i] >= 1 - SlotTicks[i + 1]}
<1>1. /\ \A i \in Levels : d[i] \in Int
      /\ d[0] = sl[0] - h[0]
      /\ \A i \in Levels : i # 0 => d[i] = d[i - 1] + ((sl[i] - h[i]) + 1) * SlotTicks[i]
  BY DistanceIs
<1>2. \A i \in Levels : sl[i] \in Slots /\ h[i] \in Slots
  OBVIOUS
<1>3. \A i \in Levels : /\ sl[i] - h[i] \in Int
                        /\ sl[i] - h[i] >= 1 - WHEEL_SIZE
                        /\ SlotTicks[i] \in Nat /\ SlotTicks[i] >= 1
                        /\ SlotTicks[i + 1] = WHEEL_SIZE * SlotTicks[i]
  <2> TAKE i \in Levels
  <2>1. sl[i] - h[i] \in Int /\ sl[i] - h[i] >= 1 - WHEEL_SIZE
    BY <1>2, Constants DEF Slots
  <2> QED
    BY <2>1, Below, SlotTicksIs
<1> HIDE DEF d
<1>4. 0 \in S
  BY <1>1, <1>3, Constants, SlotTicksIs
<1>5. ASSUME NEW i \in Levels, i + 1 \in Levels, i \in S
      PROVE  i + 1 \in S
  <2> DEFINE k == i + 1
             t == SlotTicks[k]
             b == sl[k] - h[k]
             t2 == SlotTicks[k + 1]
             p == (b + 1) * t
  <2>1. k \in Levels /\ k # 0 /\ k - 1 = i /\ i \in Nat
    BY <1>5, Below
  <2>2. d[i] >= 1 - t
    BY <1>5
  <2>3. d[k] = d[i] + p
    BY <1>1, <2>1
  <2>4. b \in Int /\ b >= 1 - WHEEL_SIZE /\ t \in Nat /\ t >= 1 /\ t2 = WHEEL_SIZE * t
    BY <1>3, <2>1
  <2>5. p \in Int /\ t2 \in Int /\ p >= 2 * t - t2
    <3> HIDE DEF b, t, t2
    <3>1. (b + 1) * t >= (2 - WHEEL_SIZE) * t
      BY <2>4, Constants
    <3>2. (2 - WHEEL_SIZE) * t = 2 * t - WHEEL_SIZE * t
      BY <2>4, Constants
    <3>3. (b + 1) * t \in Int /\ WHEEL_SIZE * t \in Int
      BY <2>4, Constants
    <3> QED
      BY <2>4, <3>1, <3>2, <3>3
  <2> HIDE DEF p, t, t2
  <2>6. d[k] \in Int /\ d[i] \in Int
    BY <1>1, <2>1
  <2>7. d[k] >= 1 - t2
    BY <2>2, <2>3, <2>4, <2>5, <2>6
  <2> QED
    BY <2>1, <2>7 DEF t2
<1>6. Levels \subseteq S
  <2> HIDE DEF S
  <2> QED
    BY <1>4, <1>5, ClimbLevels
<1> SUFFICES ASSUME NEW i \in Levels, sl[i] >= h[i]
             PROVE  d[i] >= 0
  BY DEF d
<1>7. CASE i = 0
  BY <1>1, <1>2, <1>7 DEF Slots
<1>8. CASE i # 0
  <2> DEFINE t == SlotTicks[i]
             b == sl[i] - h[i]
             p == (b + 1) * t
  <2>1. i - 1 \in Levels /\ (i - 1) + 1 = i
    BY <1>8, Below
  <2>2. d[i - 1] >= 1 - t /\ d[i - 1] \in Int
    BY <1>1, <1>6, <2>1
  <2>3. d[i] = d[i - 1] + p
    BY <1>1, <1>8
  <2>4. t \in Nat /\ t >= 1 /\ b \in Int /\ b >= 0
    BY <1>2, <1>3 DEF Slots
  <2>5. p \in Int /\ p >= t
    <3> HIDE DEF b, t
    <3> QED
      BY <2>4
  <2> HIDE DEF p, t
  <2> QED
    BY <2>2, <2>3, <2>4, <2>5
<1> QED
  BY <1>7, <1>8

-----------------------------------------------------------------------------
(* insert_timer(). *)

LEMMA TicksOfIs ==
    ASSUME NEW duration \in 0..IntMax
    PROVE  TicksOf(duration) \in Nat /\ TicksOf(duration) >= 1
<1> DEFINE x == IF duration % PRECISION > 0 THEN duration + PRECISION ELSE duration
           n == x \div PRECISION
<1>1. duration \in Int /\ IntMax \in Nat /\ PRECISION \in Nat \ {0}
  BY Constants, WheelAssumption
<1>2. x \in Int
  BY <1>1
<1> HIDE DEF x
<1>3. n \in Int
  BY <1>1, <1>2
<1>4. TicksOf(duration) = IF n > 0 THEN n ELSE 1
  BY DEF TicksOf, x
<1> HIDE DEF n
<1> QED
  BY <1>3, <1>4

\* Where a key is put that is put somewhere, and how far that is.
LEMMA KeyOfIs ==
    ASSUME head_ \in [Levels -> Slots], NEW n \in Nat, n >= 1, NEW id \in TimerId
    PROVE  /\ KeyOf(id, n) \in Key /\ KeyOf(id, n).id = id
           /\ LevelsOf(n) # {} =>
                  LET i == Min(LevelsOf(n))
                      sl == KeyOf(id, n).slot
                  IN  /\ i \in Levels /\ sl[i] >= head_[i]
                      /\ Distance(sl, head_)[i] = n - 1
                      /\ n + head_[0] <= WHEEL_SIZE => i = 0 /\ sl[0] = n + head_[0] - 1
                      /\ n + head_[0] > WHEEL_SIZE => i # 0
<1> DEFINE c == SlotCount(n)
           sl == KeyOf(id, n).slot
           d == Distance(sl, head_)
           q(i) == (c[i] - 1) \div WHEEL_SIZE
<1>1. /\ \A i \in Levels : c[i] \in Int
      /\ c[0] = n + head_[0]
      /\ \A i \in Levels : i # 0 => c[i] = q(i - 1) + head_[i]
  BY SlotCountIs
<1>2. KeyOf(id, n) = [id |-> id, slot |-> [i \in Levels |-> (c[i] - 1) % WHEEL_SIZE]]
  BY DEF KeyOf
<1>3. \A i \in Levels : sl[i] = (c[i] - 1) % WHEEL_SIZE
  BY <1>2
<1> HIDE DEF c
<1>4. \A i \in Levels : /\ sl[i] \in Slots /\ q(i) \in Int
                        /\ c[i] - 1 = q(i) * WHEEL_SIZE + sl[i]
  <2> TAKE i \in Levels
  <2> DEFINE x == c[i] - 1
  <2>1. x \in Int
    BY <1>1
  <2> HIDE DEF x
  <2> DEFINE y == x \div WHEEL_SIZE
             z == x % WHEEL_SIZE
  <2>2. y \in Int /\ z \in 0..(WHEEL_SIZE - 1) /\ x = y * WHEEL_SIZE + z
    BY <2>1, Division, WheelAssumption
  <2>3. sl[i] = z /\ q(i) = y
    BY <1>3 DEF x
  <2> HIDE DEF y, z, q, sl
  <2>4. sl[i] \in Slots /\ q(i) \in Int /\ x = q(i) * WHEEL_SIZE + sl[i]
    BY <2>2, <2>3 DEF Slots
  <2> QED
    BY <2>4 DEF x
<1>5. sl \in [Levels -> Slots]
  <2>1. [i \in Levels |-> (c[i] - 1) % WHEEL_SIZE] \in [Levels -> Slots]
    BY <1>2, <1>3, <1>4
  <2> QED
    BY <1>2, <2>1
<1>6. KeyOf(id, n) \in Key /\ KeyOf(id, n).id = id
  BY <1>2, <1>5 DEF Key
<1> SUFFICES ASSUME LevelsOf(n) # {}
             PROVE  LET i == Min(LevelsOf(n))
                    IN  /\ i \in Levels /\ sl[i] >= head_[i]
                        /\ d[i] = n - 1
                        /\ n + head_[0] <= WHEEL_SIZE => i = 0 /\ sl[0] = n + head_[0] - 1
                        /\ n + head_[0] > WHEEL_SIZE => i # 0
  BY <1>6
<1> DEFINE R == LevelsOf(n)
           i == Min(R)
<1>7. R = {j \in Levels : c[j] <= WHEEL_SIZE}
  BY DEF LevelsOf, c
<1>8. i \in R /\ \A j \in R : i <= j
  <2>1. R \subseteq Nat
    BY <1>7, Below
  <2> HIDE DEF R
  <2>2. \E x \in R : \A y \in R : x <= y
    BY <2>1, LeastNumber DEF R
  <2> QED
    BY <2>2 DEF Min
<1> HIDE DEF R, i
<1>9. i \in Levels /\ c[i] <= WHEEL_SIZE
  BY <1>7, <1>8
<1>10. \A j \in Levels : head_[j] \in Nat
  BY Constants DEF Slots
<1>11. q(i) = 0 /\ sl[i] = c[i] - 1 /\ c[i] - 1 >= head_[i]
  <2>1. c[i] - 1 >= head_[i]
    <3>1. CASE i = 0
      BY <1>1, <1>10, <3>1, Constants
    <3>2. CASE i # 0
      <4> DEFINE k == i - 1
      <4>1. k \in Levels /\ k \in Nat /\ i \in Nat
        BY <1>9, <3>2, Below
      <4>2. k \notin R
        BY <1>8, <1>9, <4>1
      <4>3. c[k] > WHEEL_SIZE /\ c[k] \in Int
        BY <1>1, <1>7, <4>1, <4>2, Constants
      <4>4. c[k] - 1 = q(k) * WHEEL_SIZE + sl[k] /\ q(k) \in Int
            /\ sl[k] \in 0..(WHEEL_SIZE - 1)
        BY <1>4, <4>1 DEF Slots
      <4> DEFINE qk == q(k)
      <4>5. c[i] = qk + head_[i]
        BY <1>1, <1>9, <3>2
      <4>6. c[k] - 1 = qk * WHEEL_SIZE + sl[k] /\ qk \in Int
        BY <4>4
      <4> HIDE DEF qk, k
      <4>7. qk <= 0 => qk * WHEEL_SIZE <= 0
        BY <4>6, Constants
      <4>8. qk >= 1
        BY <4>3, <4>4, <4>6, <4>7, Constants
      <4> QED
        BY <1>9, <1>10, <4>5, <4>6, <4>8
    <3> QED
      BY <3>1, <3>2
  <2> DEFINE r == c[i] - 1
             z == 0
  <2>2. r \in 0..(WHEEL_SIZE - 1)
    BY <1>1, <1>9, <1>10, <2>1, Constants
  <2>3. z \in Int /\ z * WHEEL_SIZE + r = r
    BY <2>2, Constants
  <2> HIDE DEF r, z
  <2>4. r % WHEEL_SIZE = r /\ r \div WHEEL_SIZE = z
    BY <2>2, <2>3, RestIs, WheelAssumption
  <2> QED
    BY <1>3, <1>9, <2>1, <2>4 DEF r, z
<1>12. d[i] = n - 1
  <2> DEFINE S == {j \in Levels : d[j] = n - 1 - q(j) * SlotTicks[j + 1]}
  <2>0. /\ \A j \in Levels : d[j] \in Int
        /\ d[0] = sl[0] - head_[0]
        /\ \A j \in Levels : j # 0 =>
               d[j] = d[j - 1] + ((sl[j] - head_[j]) + 1) * SlotTicks[j]
    BY <1>5, DistanceIs
  <2> HIDE DEF d
  <2>1. 0 \in S
    <3>1. SlotTicks[0 + 1] = WHEEL_SIZE * 1
      BY Constants, SlotTicksIs
    <3> DEFINE q0 == q(0)
    <3>2. c[0] - 1 = q0 * WHEEL_SIZE + sl[0] /\ q0 \in Int
      BY <1>4, Constants
    <3> HIDE DEF q0
    <3> DEFINE p == q0 * WHEEL_SIZE
    <3>3. p \in Int /\ p = q0 * SlotTicks[0 + 1]
      BY <3>1, <3>2, Constants
    <3>4. c[0] - 1 = p + sl[0]
      BY <3>2
    <3> HIDE DEF p
    <3>5. sl[0] \in Int /\ head_[0] \in Int
      BY <1>4, <1>10, Constants DEF Slots
    <3>6. d[0] = n - 1 - p
      BY <1>1, <2>0, <3>3, <3>4, <3>5, Constants
    <3> QED
      BY <3>3, <3>6, Constants DEF q0
  <2>2. ASSUME NEW j \in Levels, j + 1 \in Levels, j \in S
        PROVE  j + 1 \in S
    <3> DEFINE k == j + 1
               t == SlotTicks[k]
               t2 == SlotTicks[k + 1]
               qj == q(j)
               qk == q(k)
               b == (sl[k] - head_[k]) + 1
    <3>1. k \in Levels /\ k # 0 /\ k - 1 = j
      BY <2>2, Below
    <3>2. d[j] = n - 1 - qj * t
      BY <2>2
    <3>3. d[k] = d[j] + b * t
      BY <2>0, <3>1
    <3>4. c[k] = qj + head_[k] /\ c[k] - 1 = qk * WHEEL_SIZE + sl[k]
      BY <1>1, <1>4, <3>1
    <3>5. qj \in Int /\ qk \in Int /\ sl[k] \in Int /\ head_[k] \in Int
      BY <1>4, <1>10, <3>1 DEF Slots
    <3>6. t \in Int /\ t2 = WHEEL_SIZE * t
      BY <3>1, Below, SlotTicksIs
    <3> DEFINE w == qk * WHEEL_SIZE
    <3>7. w \in Int
      <4> HIDE DEF qk
      <4> QED
        BY <3>5, Constants
    <3>8. b = qj - w /\ b \in Int
      <4> HIDE DEF w, qj
      <4>1. c[k] - 1 = w + sl[k]
        BY <3>4 DEF w
      <4> QED
        BY <3>4, <3>5, <3>7, <4>1
    <3>9. qk * t2 = w * t
      <4> HIDE DEF qk, t, t2
      <4> QED
        BY <3>5, <3>6, Constants DEF w
    <3> HIDE DEF b, w, qj, qk, t, t2, k
    <3>10. b * t = qj * t - w * t
      BY <3>5, <3>6, <3>7, <3>8
    <3> DEFINE x == qj * t
               y == w * t
    <3>11. x \in Int /\ y \in Int
      BY <3>5, <3>6, <3>7
    <3>12. d[j] = n - 1 - x /\ d[k] = d[j] + (x - y) /\ qk * t2 = y
      BY <3>2, <3>3, <3>9, <3>10
    <3> HIDE DEF x, y
    <3>13. d[k] = n - 1 - qk * t2
      BY <3>11, <3>12
    <3> QED
      BY <3>1, <3>13 DEF k, t2, qk
  <2> HIDE DEF S
  <2>3. Levels \subseteq S
    BY <2>1, <2>2, ClimbLevels
  <2>4. d[i] = n - 1 - q(i) * SlotTicks[i + 1]
    BY <1>9, <2>3 DEF S
  <2>5. SlotTicks[i + 1] \in Int
    BY <1>9, Below, SlotTicksIs
  <2> HIDE DEF q
  <2> QED
    BY <1>11, <2>4, <2>5
<1>13. n + head_[0] <= WHEEL_SIZE => i = 0 /\ sl[0] = n + head_[0] - 1
  <2> SUFFICES ASSUME n + head_[0] <= WHEEL_SIZE
               PROVE  i = 0 /\ sl[0] = n + head_[0] - 1
    OBVIOUS
  <2>1. 0 \in R
    BY <1>1, <1>7, Constants
  <2>2. i \in Nat /\ i <= 0
    BY <1>8, <1>9, <2>1, Below
  <2>3. i = 0
    BY <2>2
  <2>4. sl[0] = c[0] - 1
    BY <1>11, <2>3
  <2> QED
    BY <1>1, <1>10, <2>3, <2>4, Constants
<1>14. n + head_[0] > WHEEL_SIZE => i # 0
  BY <1>1, <1>9, <1>10, Constants
<1> QED
  BY <1>9, <1>11, <1>12, <1>13, <1>14 DEF i, R

\* A timer that does not come up on any wheel is longer than a slot of the last one.
LEMMA NoLevelIsLong ==
    ASSUME head_ \in [Levels -> Slots], NEW n \in Nat, LevelsOf(n) = {}
    PROVE  n > SlotTicks[Wheels - 1]
<1> DEFINE c == SlotCount(n)
           S == {i \in Levels : \A m \in Nat \ {0} :
                     n <= m * SlotTicks[i] => c[i] <= m + WHEEL_SIZE - 1}
<1>1. /\ \A i \in Levels : c[i] \in Int
      /\ c[0] = n + head_[0]
      /\ \A i \in Levels : i # 0 => c[i] = ((c[i - 1] - 1) \div WHEEL_SIZE) + head_[i]
  BY SlotCountIs
<1> HIDE DEF c
<1>2. \A i \in Levels : head_[i] \in Int /\ head_[i] <= WHEEL_SIZE - 1
  BY Constants DEF Slots
<1>3. 0 \in S
  <2>1. ASSUME NEW m \in Nat \ {0}, n <= m * SlotTicks[0]
        PROVE  c[0] <= m + WHEEL_SIZE - 1
    <3>1. n <= m
      BY <2>1, SlotTicksIs
    <3> QED
      BY <1>1, <1>2, <3>1, Constants
  <2> QED
    BY <2>1, Constants
<1>4. ASSUME NEW i \in Levels, i + 1 \in Levels, i \in S
      PROVE  i + 1 \in S
  <2> DEFINE k == i + 1
             t == SlotTicks[i]
  <2>1. k \in Levels /\ k # 0 /\ k - 1 = i
    BY <1>4, Below
  <2>2. t \in Nat /\ SlotTicks[k] = WHEEL_SIZE * t
    BY <1>4, Below, SlotTicksIs
  <2>3. ASSUME NEW m \in Nat \ {0}, n <= m * SlotTicks[k]
        PROVE  c[k] <= m + WHEEL_SIZE - 1
    <3> DEFINE m2 == m * WHEEL_SIZE
    <3>1. m2 \in Nat \ {0}
      BY Constants
    <3>2. m * SlotTicks[k] = m2 * t
      <4> HIDE DEF t
      <4> QED
        BY <2>2, Constants
    <3> HIDE DEF m2
    <3>3. c[i] <= m2 + WHEEL_SIZE - 1
      BY <1>4, <2>3, <3>1, <3>2
    <3> DEFINE x == c[i] - 1
               q == x \div WHEEL_SIZE
    <3>4. x \in Int /\ x <= m2 + WHEEL_SIZE - 2
      BY <1>1, <3>1, <3>3, Constants
    <3> HIDE DEF x
    <3>5. q \in Int /\ q * WHEEL_SIZE <= x
      BY <3>4, Constants
    <3> HIDE DEF q
    <3>6. q >= m + 1 => q * WHEEL_SIZE >= m2 + WHEEL_SIZE
      BY <3>5, Constants DEF m2
    <3> DEFINE w == q * WHEEL_SIZE
    <3>7. w \in Int /\ w <= x
      BY <3>5, Constants
    <3>8. q >= m + 1 => w >= m2 + WHEEL_SIZE
      BY <3>6
    <3> HIDE DEF w
    <3>9. q <= m
      BY <3>1, <3>4, <3>5, <3>7, <3>8, Constants
    <3>10. c[k] = q + head_[k]
      BY <1>1, <2>1 DEF q, x
    <3> QED
      BY <1>2, <2>1, <3>5, <3>9, <3>10, Constants
  <2> QED
    BY <2>1, <2>3
<1> HIDE DEF S
<1>5. Levels \subseteq S
  BY <1>3, <1>4, ClimbLevels
<1> DEFINE last == Wheels - 1
<1>6. last \in Levels /\ SlotTicks[last] \in Nat
  BY Constants, SlotTicksIs
<1> HIDE DEF last
<1> SUFFICES ASSUME n <= SlotTicks[last] PROVE FALSE
  BY <1>6 DEF last
<1> DEFINE one == 1
<1>7. one \in Nat \ {0} /\ n <= one * SlotTicks[last]
  BY <1>6
<1> HIDE DEF one
<1>8. c[last] <= one + WHEEL_SIZE - 1
  BY <1>5, <1>6, <1>7 DEF S
<1>9. c[last] <= WHEEL_SIZE
  BY <1>1, <1>6, <1>8, Constants DEF one
<1>10. last \in LevelsOf(n)
  BY <1>6, <1>9 DEF LevelsOf, c
<1> QED
  BY <1>10

-----------------------------------------------------------------------------
(* create_timerid(): there is a free number, and the search finds one. *)

LEMMA TableIsFinite ==
    ASSUME Live \subseteq TimerId, Cardinality(Live) < MaxTimers
    PROVE  \E x \in TimerId : x \notin Live
<1> DEFINE zero == 0
           top == IdRange - 1
<1>1. zero \in Int /\ top \in Int /\ zero <= top /\ top - zero + 1 = IdRange
      /\ TimerId = zero..top /\ MaxTimers <= IdRange /\ MaxTimers \in Nat
  BY WheelAssumption DEF TimerId
<1> HIDE DEF zero, top
<1>2. IsFiniteSet(TimerId) /\ Cardinality(TimerId) = IdRange
  BY <1>1, FS_Interval
<1> SUFFICES ASSUME Live = TimerId PROVE FALSE
  OBVIOUS
<1>3. Cardinality(TimerId) < MaxTimers
  OBVIOUS
<1> QED
  BY <1>1, <1>2, <1>3, WheelAssumption

LEMMA FreshIdIs ==
    ASSUME Live \subseteq TimerId, Cardinality(Live) < MaxTimers, uuid_ \in TimerId \cup {0}
    PROVE  FreshId \in TimerId /\ FreshId \notin Live
<1> DEFINE from == IF uuid_ \in {0, MAX_TIMER_NUM} THEN 1 ELSE uuid_
           R == IdRange
           id(i) == (from + i) % R
           T == {i \in 0..(R - 1) : id(i) \notin Live}
           P(i) == id(i) \notin Live /\ \A j \in 0..(i - 1) : id(j) \in Live
<1>1. R \in Nat \ {0} /\ R >= 2 /\ TimerId = 0..(R - 1)
  BY WheelAssumption DEF TimerId
<1>2. from \in 0..(R - 1)
  BY <1>1
<1>3. FreshId = id(CHOOSE i \in 0..(R - 1) : P(i))
  BY DEF FreshId, FirstFree
<1> HIDE DEF from, R
<1>4. ASSUME NEW i \in 0..(R - 1)
      PROVE  id(i) \in TimerId
  <2> DEFINE x == from + i
  <2>1. x \in Int
    BY <1>2
  <2> HIDE DEF x
  <2>2. x % R \in 0..(R - 1)
    BY <1>1, <2>1, Division
  <2> QED
    BY <1>1, <2>2 DEF x
<1>5. T # {}
  <2>1. PICK x \in TimerId : x \notin Live
    BY TableIsFinite
  <2>2. x \in 0..(R - 1)
    BY <1>1, <2>1
  <2> DEFINE i == IF x >= from THEN x - from ELSE x - from + R
             q == IF x >= from THEN 0 ELSE 1
  <2>3. i \in 0..(R - 1) /\ from + i = q * R + x /\ q \in Int
    BY <1>1, <1>2, <2>2
  <2> HIDE DEF i, q
  <2>4. (q * R + x) % R = x
    BY <1>1, <2>2, <2>3, RestIs
  <2>5. id(i) = x
    BY <2>3, <2>4
  <2> QED
    BY <2>1, <2>3, <2>5
<1>6. \E i \in 0..(R - 1) : P(i)
  <2>1. T \subseteq Nat
    BY <1>1
  <2>2. PICK i \in T : \A j \in T : i <= j
    <3> HIDE DEF T
    <3> QED
      BY <1>5, <2>1, LeastNumber
  <2>3. i \in 0..(R - 1) /\ id(i) \notin Live
    BY <2>2
  <2>4. ASSUME NEW j \in 0..(i - 1)
        PROVE  id(j) \in Live
    <3>1. j \in 0..(R - 1) /\ ~(i <= j)
      BY <1>1, <2>3
    <3>2. j \notin T
      BY <2>2, <3>1
    <3> QED
      BY <3>1, <3>2
  <2> QED
    BY <2>3, <2>4
<1> DEFINE k == CHOOSE i \in 0..(R - 1) : P(i)
<1>7. k \in 0..(R - 1) /\ P(k)
  <2> HIDE DEF P
  <2> QED
    BY <1>6
<1> HIDE DEF k
<1> QED
  BY <1>3, <1>4, <1>7 DEF k

-----------------------------------------------------------------------------
(* The inductive invariant. *)

Expiring == pc \in {"expiring", "callback", "final"}

Calling == pc \in {"callback", "final"}

\* Where the tick is: the cascade starts at wheel 0, and the slot that expires is the one
\* behind the head.
Phase ==
    /\ pc # "cascade" => level = 0
    /\ Expiring => head_[0] = (slot + 1) % WHEEL_SIZE

\* A key is in the slot it has for its wheel.
Placed ==
    \A i \in Levels : \A s \in Slots : \A key \in wheels_[i][s] : key.slot[i] = s

\* No two keys have the same number, and no key is in two places.
Single ==
    \A i, j \in Levels : \A s, t \in Slots :
        \A key \in wheels_[i][s] : \A key2 \in wheels_[j][t] :
            key.id = key2.id => i = j /\ s = t /\ key = key2

\* Every key is that of a timer that is not lost and whose callback does not run.
Known ==
    \A i \in Levels : \A s \in Slots : \A key \in wheels_[i][s] :
        key.id \in Live /\ key.id \notin lost /\ ~(Calling /\ key.id = cur)

\* Every other timer has a key.
Present ==
    \A id \in Live : id \notin lost /\ ~(Calling /\ id = cur) =>
        \E i \in Levels : \E s \in Slots : \E key \in wheels_[i][s] : key.id = id

\* Only overflows and long timers are lost.
LostLong ==
    \A id \in lost :
        /\ id \in Live
        /\ \/ Overflows(timers_[id].duration)
           \/ TicksOf(timers_[id].duration) > SlotTicks[Wheels - 1]

\* How much too early a timer expires.
Early(id) == IF id \in wrapped THEN WHEEL_SIZE ELSE 0

\* How far the wheels above level are off while the cascade has yet to move them.
Pending(i) ==
    IF pc # "idle" /\ i > level /\ head_[level] = 0 THEN SlotTicks[level + 1] ELSE 0

\* The slots of a key say when its timer is due.
InTime(i, s, key) ==
    IF Expiring /\ i = 0 /\ s = slot
    THEN due[key.id] = Early(key.id)
    ELSE /\ s >= head_[i]
         /\ due[key.id] = Distance(key.slot, head_)[i] + 1 - Pending(i) + Early(key.id)

Timed == \A i \in Levels : \A s \in Slots : \A key \in wheels_[i][s] : InTime(i, s, key)

\* So does the callback that runs.
CurTimed == Calling => cur \notin lost /\ due[cur] = Early(cur)

IInv ==
    TypeOK /\ Phase /\ Placed /\ Single /\ Known /\ Present /\ LostLong /\ Timed /\ CurTimed

LEMMA Numbers ==
    ASSUME TypeOK
    PROVE  /\ \A i \in Levels : head_[i] \in Nat /\ head_[i] <= WHEEL_SIZE - 1
           /\ slot \in Nat /\ level \in Nat /\ WHEEL_SIZE \in Nat /\ WHEEL_SIZE >= 2
           /\ \A id : Early(id) \in Nat
           /\ \A i \in Levels : Pending(i) \in Nat
           /\ head_ \in [Levels -> Slots] /\ level \in Levels
<1>1. head_ \in [Levels -> Slots] /\ slot \in Slots /\ level \in Levels
  BY DEF TypeOK
<1>2. SlotTicks[level + 1] \in Nat
  BY <1>1, Below, SlotTicksIs
<1> QED
  BY <1>1, <1>2, Below, Constants DEF Slots, Early, Pending

\* Inserted(): nothing, or one key more, which has the time it should.
Adds(id, n, i, s, key) ==
    /\ key.id = id /\ key.slot[i] = s
    /\ wheels_' = [wheels_ EXCEPT ![i][s] = @ \cup {key}]
    /\ LET early == IF OutOfStep /\ n >= WHEEL_SIZE THEN WHEEL_SIZE ELSE 0
       IN  IF Expiring /\ i = 0 /\ s = slot
           THEN n = early
           ELSE /\ s >= head_[i]
                /\ n = Distance(key.slot, head_)[i] + 1 - Pending(i) + early

LEMMA InsertedIs ==
    ASSUME TypeOK, Phase, pc \in {"idle", "callback", "final"},
           NEW duration \in 0..IntMax, NEW id \in TimerId,
           wheels_' = Inserted(id, duration), ~IsLost(duration)
    PROVE  \E i \in Levels : \E s \in Slots : \E key \in Key :
               Adds(id, TicksOf(duration), i, s, key)
<1> DEFINE n == TicksOf(duration)
           key == KeyOf(id, n)
           i == Min(LevelsOf(n))
           s == key.slot[i]
           early == IF OutOfStep /\ n >= WHEEL_SIZE THEN WHEEL_SIZE ELSE 0
<1>1. n \in Nat /\ n >= 1
  BY TicksOfIs
<1>2. LevelsOf(n) # {} /\ wheels_' = [wheels_ EXCEPT ![i][s] = @ \cup {key}]
  BY DEF IsLost, Inserted
<1> HIDE DEF n
<1>3. /\ key \in Key /\ key.id = id
      /\ i \in Levels /\ s >= head_[i]
      /\ Distance(key.slot, head_)[i] = n - 1
      /\ n + head_[0] <= WHEEL_SIZE => i = 0 /\ key.slot[0] = n + head_[0] - 1
      /\ n + head_[0] > WHEEL_SIZE => i # 0
  BY <1>1, <1>2, Numbers, KeyOfIs
<1> HIDE DEF key, i
<1>4. s \in Slots
  BY <1>3 DEF Key
<1>5. level = 0 /\ SlotTicks[level + 1] = WHEEL_SIZE /\ 0 \in Levels
  <2>1. level = 0 /\ 0 \in Levels
    BY Constants DEF Phase
  <2>2. SlotTicks[0 + 1] = WHEEL_SIZE * 1
    BY <2>1, SlotTicksIs
  <2> QED
    BY <2>1, <2>2, Constants
<1>6. head_[0] \in Nat /\ head_[0] <= WHEEL_SIZE - 1 /\ slot \in 0..(WHEEL_SIZE - 1)
      /\ WHEEL_SIZE \in Nat
  BY <1>5, Numbers DEF TypeOK, Slots
<1>7. Expiring => head_[0] = IF slot = WHEEL_SIZE - 1 THEN 0 ELSE slot + 1
  <2>1. slot # WHEEL_SIZE - 1 => (slot + 1) % WHEEL_SIZE = slot + 1
    BY <1>6, Constants
  <2>2. (WHEEL_SIZE - 1) + 1 = WHEEL_SIZE
    BY <1>6
  <2>3. slot = WHEEL_SIZE - 1 => (slot + 1) % WHEEL_SIZE = 0
    BY <2>2, Constants
  <2> QED
    BY <2>1, <2>3 DEF Phase
<1>8. i \in Nat
  BY <1>3, Below
<1>9. CASE Expiring /\ i = 0 /\ s = slot
  <2>1. n + head_[0] <= WHEEL_SIZE /\ s = n + head_[0] - 1
    BY <1>1, <1>3, <1>6, <1>9
  <2>2. head_[0] = 0 /\ slot = WHEEL_SIZE - 1
    BY <1>1, <1>3, <1>6, <1>7, <1>9, <2>1
  <2>3. OutOfStep
    BY <1>9, <2>2 DEF OutOfStep, Expiring
  <2>4. s = WHEEL_SIZE - 1 /\ s = n + 0 - 1
    BY <1>9, <2>1, <2>2
  <2>5. n = WHEEL_SIZE
    <3> HIDE DEF s
    <3> QED
      BY <1>1, <1>6, <2>4
  <2>6. n >= WHEEL_SIZE
    BY <1>6, <2>5
  <2>7. n = early
    BY <2>3, <2>5, <2>6
  <2> HIDE DEF s
  <2>8. Adds(id, n, i, s, key)
    BY <1>2, <1>3, <1>4, <1>9, <2>7 DEF Adds, s
  <2> QED
    BY <1>3, <1>4, <2>8 DEF n
<1>10. CASE ~(Expiring /\ i = 0 /\ s = slot)
  <2>1. Pending(i) = early
    <3>1. CASE ~OutOfStep
      BY <1>5, <3>1 DEF Pending, OutOfStep
    <3>2. CASE OutOfStep
      <4>1. pc # "idle" /\ head_[0] = 0 /\ Expiring
        BY <3>2 DEF OutOfStep, Expiring
      <4>2. slot = WHEEL_SIZE - 1
        BY <1>6, <1>7, <4>1
      <4>3. Pending(i) = IF i > 0 THEN WHEEL_SIZE ELSE 0
        BY <1>5, <4>1 DEF Pending
      <4>4. early = IF n >= WHEEL_SIZE THEN WHEEL_SIZE ELSE 0
        BY <3>2
      <4>5. i = 0 => n < WHEEL_SIZE
        BY <1>1, <1>3, <1>6, <1>10, <4>1, <4>2
      <4>6. i > 0 => n > WHEEL_SIZE
        BY <1>1, <1>3, <1>6, <1>8, <4>1
      <4> QED
        BY <1>1, <1>6, <1>8, <4>3, <4>4, <4>5, <4>6
    <3> QED
      BY <3>1, <3>2
  <2>2. n = Distance(key.slot, head_)[i] + 1 - Pending(i) + early
    <3>1. early \in Nat
      BY <1>6
    <3> HIDE DEF early
    <3> QED
      BY <1>1, <1>3, <2>1, <3>1
  <2> QED
    BY <1>2, <1>3, <1>4, <1>10, <2>2 DEF Adds, n
<1> QED
  BY <1>9, <1>10

-----------------------------------------------------------------------------
(* A timer is set: put into the table, or put back. *)

\* What Repeat and PutBack have in common.
Sets(id, duration) ==
    /\ pc \in {"idle", "callback", "final"}
    /\ \A i \in Levels : \A s \in Slots : \A key \in wheels_[i][s] : key.id # id
    /\ wheels_' = Inserted(id, duration)
    /\ lost' = LostWith(id, duration)
    /\ wrapped' = WrapsWith(id, duration)
    /\ head_' = head_ /\ slot' = slot /\ level' = level
    /\ (pc' = "idle") <=> (pc = "idle")
    /\ Expiring' <=> Expiring
    /\ Live' = Live \cup {id}
    /\ due'[id] = TicksOf(duration)
    /\ timers_'[id].duration = duration
    /\ \A x \in Live \ {id} :
           due'[x] = due[x] /\ timers_'[x].duration = timers_[x].duration
    /\ ~(Calling' /\ cur' = id)
    /\ \A x \in Live \ {id} : (Calling' /\ cur' = x) <=> (Calling /\ cur = x)

LEMMA SetsOthers ==
    ASSUME NEW id, NEW duration, Sets(id, duration), NEW x \in Live, x # id
    PROVE  /\ x \in Live' /\ (x \in lost' <=> x \in lost)
           /\ due'[x] = due[x] /\ Early(x)' = Early(x)
           /\ timers_'[x].duration = timers_[x].duration
           /\ (Calling' /\ cur' = x) <=> (Calling /\ cur = x)
BY DEF Sets, LostWith, WrapsWith, Early

LEMMA SetsPending ==
    ASSUME NEW id, NEW duration, Sets(id, duration), NEW i
    PROVE  Pending(i)' = Pending(i)
BY DEF Sets, Pending

LEMMA SetsInTime ==
    ASSUME NEW id, NEW duration, Sets(id, duration), NEW i, NEW s, NEW key,
           key.id \in Live, key.id # id, InTime(i, s, key)
    PROVE  InTime(i, s, key)'
<1>1. /\ due'[key.id] = due[key.id] /\ Early(key.id)' = Early(key.id)
      /\ Pending(i)' = Pending(i)
  BY SetsOthers, SetsPending
<1>2. head_' = head_ /\ slot' = slot /\ (Expiring' <=> Expiring)
  BY DEF Sets
<1>3. CASE Expiring /\ i = 0 /\ s = slot
  BY <1>1, <1>2, <1>3 DEF InTime
<1>4. CASE ~(Expiring /\ i = 0 /\ s = slot)
  BY <1>1, <1>2, <1>4 DEF InTime
<1> QED
  BY <1>3, <1>4

LEMMA SetsPlaces ==
    ASSUME TypeOK, NEW id, NEW n, NEW i \in Levels, NEW s \in Slots, NEW key \in Key,
           Adds(id, n, i, s, key)
    PROVE  /\ wheels_' \in [Levels -> [Slots -> SUBSET Key]]
           /\ key \in wheels_'[i][s]
           /\ \A j \in Levels : \A t \in Slots : \A k \in wheels_[j][t] : k \in wheels_'[j][t]
           /\ \A j \in Levels : \A t \in Slots : \A k \in wheels_'[j][t] :
                  k \in wheels_[j][t] \/ (j = i /\ t = s /\ k = key)
<1>1. wheels_ \in [Levels -> [Slots -> SUBSET Key]]
  BY DEF TypeOK
<1>2. wheels_' = [wheels_ EXCEPT ![i][s] = @ \cup {key}]
  BY DEF Adds
<1>3. wheels_' \in [Levels -> [Slots -> SUBSET Key]]
  BY <1>1, <1>2
<1>4. wheels_'[i][s] = wheels_[i][s] \cup {key}
  BY <1>1, <1>2
<1>5. \A j \in Levels : \A t \in Slots :
          (j = i /\ t = s) \/ wheels_'[j][t] = wheels_[j][t]
  BY <1>1, <1>2
<1> QED
  BY <1>3, <1>4, <1>5

LEMMA SetsNone ==
    ASSUME IInv, NEW id \in TimerId, NEW duration \in 0..IntMax, Sets(id, duration),
           IsLost(duration)
    PROVE  /\ wheels_' = wheels_
           /\ Placed' /\ Single' /\ Known' /\ Present' /\ LostLong' /\ Timed'
<1>1. wheels_' = wheels_ /\ lost' = lost \cup {id}
  BY DEF Sets, Inserted, LostWith
<1>2. ASSUME NEW i \in Levels, NEW s \in Slots, NEW key \in wheels_[i][s]
      PROVE  /\ key.id # id /\ key.id \in Live /\ key.id \notin lost
             /\ ~(Calling /\ key.id = cur)
  BY <1>2 DEF IInv, Known, Sets
<1>3. Placed' /\ Single'
  BY <1>1 DEF IInv, Placed, Single
<1>4. Known'
  <2> SUFFICES ASSUME NEW i \in Levels, NEW s \in Slots, NEW key \in wheels_[i][s]
               PROVE  key.id \in Live' /\ key.id \notin lost' /\ ~(Calling' /\ key.id = cur')
    BY <1>1 DEF Known
  <2> QED
    BY <1>2, SetsOthers
<1>5. Present'
  <2> SUFFICES ASSUME NEW x \in Live', x \notin lost', ~(Calling' /\ x = cur')
               PROVE  \E i \in Levels : \E s \in Slots : \E key \in wheels_[i][s] : key.id = x
    BY <1>1 DEF Present
  <2>1. x # id /\ x \in Live
    BY <1>1 DEF Sets
  <2>2. x \notin lost /\ ~(Calling /\ x = cur)
    BY <2>1, SetsOthers
  <2> QED
    BY <2>1, <2>2 DEF IInv, Present
<1>6. LostLong'
  <2> SUFFICES ASSUME NEW x \in lost \cup {id}
               PROVE  /\ x \in Live'
                      /\ \/ Overflows(timers_'[x].duration)
                         \/ TicksOf(timers_'[x].duration) > SlotTicks[Wheels - 1]
    BY <1>1 DEF LostLong
  <2>1. CASE x = id
    <3>1. x \in Live' /\ timers_'[x].duration = duration
      BY <2>1 DEF Sets
    <3>2. LevelsOf(TicksOf(duration)) = {} => TicksOf(duration) > SlotTicks[Wheels - 1]
      BY TicksOfIs, NoLevelIsLong DEF IInv, TypeOK
    <3> QED
      BY <3>1, <3>2 DEF IsLost
  <2>2. CASE x # id
    <3>1. /\ x \in Live
          /\ \/ Overflows(timers_[x].duration)
             \/ TicksOf(timers_[x].duration) > SlotTicks[Wheels - 1]
      BY <2>2 DEF IInv, LostLong
    <3> QED
      BY <2>2, <3>1, SetsOthers
  <2> QED
    BY <2>1, <2>2
<1>7. Timed'
  <2> SUFFICES ASSUME NEW i \in Levels, NEW s \in Slots, NEW key \in wheels_[i][s]
               PROVE  InTime(i, s, key)'
    BY <1>1 DEF Timed
  <2>1. InTime(i, s, key)
    BY DEF IInv, Timed
  <2> QED
    BY <1>2, <2>1, SetsInTime
<1> QED
  BY <1>1, <1>3, <1>4, <1>5, <1>6, <1>7

LEMMA SetsOne ==
    ASSUME IInv, NEW id \in TimerId, NEW duration \in 0..IntMax, Sets(id, duration),
           ~IsLost(duration)
    PROVE  /\ wheels_' \in [Levels -> [Slots -> SUBSET Key]]
           /\ Placed' /\ Single' /\ Known' /\ Present' /\ LostLong' /\ Timed'
<1> DEFINE n == TicksOf(duration)
<1>1. PICK i \in Levels : \E s \in Slots : \E key \in Key : Adds(id, n, i, s, key)
  BY InsertedIs DEF Sets, IInv
<1>2. PICK s \in Slots : \E key \in Key : Adds(id, n, i, s, key)
  BY <1>1
<1>3. PICK new \in Key : Adds(id, n, i, s, new)
  BY <1>2
<1>4. lost' = lost \ {id}
  BY DEF Sets, LostWith
<1>5. /\ wheels_' \in [Levels -> [Slots -> SUBSET Key]]
      /\ new \in wheels_'[i][s]
      /\ \A j \in Levels : \A t \in Slots : \A k \in wheels_[j][t] : k \in wheels_'[j][t]
      /\ \A j \in Levels : \A t \in Slots : \A k \in wheels_'[j][t] :
             k \in wheels_[j][t] \/ (j = i /\ t = s /\ k = new)
  BY <1>3, SetsPlaces DEF IInv
<1>6. new.id = id /\ new.slot[i] = s
  BY <1>3 DEF Adds
<1>7. ASSUME NEW j \in Levels, NEW t \in Slots, NEW key \in wheels_[j][t]
      PROVE  /\ key.id # id /\ key.id \in Live /\ key.id \notin lost
             /\ ~(Calling /\ key.id = cur)
  BY <1>7 DEF IInv, Known, Sets
<1>8. Placed'
  BY <1>5, <1>6 DEF IInv, Placed
<1>9. Single'
  <2> SUFFICES ASSUME NEW j \in Levels, NEW j2 \in Levels, NEW t \in Slots, NEW t2 \in Slots,
                      NEW key \in wheels_'[j][t], NEW key2 \in wheels_'[j2][t2],
                      key.id = key2.id
               PROVE  j = j2 /\ t = t2 /\ key = key2
    BY DEF Single
  <2>1. CASE key.id = id
    <3>1. key \notin wheels_[j][t] /\ key2 \notin wheels_[j2][t2]
      BY <1>7, <2>1
    <3> QED
      BY <1>5, <3>1
  <2>2. CASE key.id # id
    <3>1. key \in wheels_[j][t] /\ key2 \in wheels_[j2][t2]
      BY <1>5, <1>6, <2>2
    <3> QED
      BY <3>1 DEF IInv, Single
  <2> QED
    BY <2>1, <2>2
<1>10. Known'
  <2> SUFFICES ASSUME NEW j \in Levels, NEW t \in Slots, NEW key \in wheels_'[j][t]
               PROVE  key.id \in Live' /\ key.id \notin lost' /\ ~(Calling' /\ key.id = cur')
    BY DEF Known
  <2>1. CASE key \in wheels_[j][t]
    BY <1>7, <2>1, SetsOthers
  <2>2. CASE key = new
    BY <1>4, <1>6, <2>2 DEF Sets
  <2> QED
    BY <1>5, <2>1, <2>2
<1>11. Present'
  <2> SUFFICES ASSUME NEW x \in Live', x \notin lost', ~(Calling' /\ x = cur')
               PROVE  \E j \in Levels : \E t \in Slots : \E key \in wheels_'[j][t] : key.id = x
    BY DEF Present
  <2>1. CASE x = id
    BY <1>5, <1>6, <2>1
  <2>2. CASE x # id
    <3>1. x \in Live
      BY <2>2 DEF Sets
    <3>2. x \notin lost /\ ~(Calling /\ x = cur)
      BY <2>2, <3>1, SetsOthers
    <3>3. \E j \in Levels : \E t \in Slots : \E key \in wheels_[j][t] : key.id = x
      BY <3>1, <3>2 DEF IInv, Present
    <3> QED
      BY <1>5, <3>3
  <2> QED
    BY <2>1, <2>2
<1>12. LostLong'
  <2> SUFFICES ASSUME NEW x \in lost, x # id
               PROVE  /\ x \in Live'
                      /\ \/ Overflows(timers_'[x].duration)
                         \/ TicksOf(timers_'[x].duration) > SlotTicks[Wheels - 1]
    BY <1>4 DEF LostLong
  <2>1. /\ x \in Live
        /\ \/ Overflows(timers_[x].duration)
           \/ TicksOf(timers_[x].duration) > SlotTicks[Wheels - 1]
    BY DEF IInv, LostLong
  <2> QED
    BY <2>1, SetsOthers
<1>13. Timed'
  <2> SUFFICES ASSUME NEW j \in Levels, NEW t \in Slots, NEW key \in wheels_'[j][t]
               PROVE  InTime(j, t, key)'
    BY DEF Timed
  <2>1. CASE key \in wheels_[j][t]
    <3>1. InTime(j, t, key)
      BY <2>1 DEF IInv, Timed
    <3> QED
      BY <1>7, <2>1, <3>1, SetsInTime
  <2>2. CASE j = i /\ t = s /\ key = new
    <3>1. due'[key.id] = n
      BY <1>6, <2>2 DEF Sets
    <3>2. Early(id)' = IF OutOfStep /\ n >= WHEEL_SIZE THEN WHEEL_SIZE ELSE 0
      BY DEF Sets, WrapsWith, Early
    <3>3. Pending(i)' = Pending(i)
      BY SetsPending
    <3>4. head_' = head_ /\ slot' = slot /\ (Expiring' <=> Expiring)
      BY DEF Sets
    <3> HIDE DEF n
    <3>5. CASE Expiring /\ i = 0 /\ s = slot
      BY <1>3, <1>6, <2>2, <3>1, <3>2, <3>4, <3>5 DEF InTime, Adds
    <3>6. CASE ~(Expiring /\ i = 0 /\ s = slot)
      BY <1>3, <1>6, <2>2, <3>1, <3>2, <3>3, <3>4, <3>6 DEF InTime, Adds
    <3> QED
      BY <3>5, <3>6
  <2> QED
    BY <1>5, <2>1, <2>2
<1> QED
  BY <1>5, <1>8, <1>9, <1>10, <1>11, <1>12, <1>13

LEMMA SetsKeeps ==
    ASSUME IInv, NEW id \in TimerId, NEW duration \in 0..IntMax, Sets(id, duration)
    PROVE  /\ wheels_' \in [Levels -> [Slots -> SUBSET Key]]
           /\ Placed' /\ Single' /\ Known' /\ Present' /\ LostLong' /\ Timed'
<1>1. wheels_ \in [Levels -> [Slots -> SUBSET Key]]
  BY DEF IInv, TypeOK
<1> QED
  BY <1>1, SetsNone, SetsOne

LEMMA StepRepeat ==
    ASSUME IInv, NEW d \in Durations, NEW times \in Times, NEW owner \in Services,
           Repeat(d, times, owner)
    PROVE  IInv'
<1> DEFINE id == FreshId
           dur == IF d < PRECISION THEN PRECISION ELSE d
<1>0. TypeOK
  BY DEF IInv
<1>1. id \in TimerId /\ id \notin Live
  BY <1>0, FreshIdIs DEF Repeat, TypeOK
<1>2. dur \in 0..IntMax
  BY WheelAssumption
<1>3. /\ ScriptRuns
      /\ uuid_' = id
      /\ wheels_' = Inserted(id, dur)
      /\ timers_' = [i \in Live \cup {id} |->
             IF i = id THEN [duration |-> dur, times |-> times, removed |-> FALSE,
                             infinite |-> times <= 0, owner |-> owner]
                       ELSE timers_[i]]
      /\ due' = [i \in Live \cup {id} |-> IF i = id THEN TicksOf(dur) ELSE due[i]]
      /\ lost' = LostWith(id, dur)
      /\ wrapped' = WrapsWith(id, dur)
      /\ UNCHANGED <<head_, alive, pc, slot, level, cur>>
  BY DEF Repeat, tickVars
<1> HIDE DEF id, dur
<1>4. pc \in {"idle", "callback", "final"}
  BY <1>3 DEF ScriptRuns
<1>5. Live' = Live \cup {id}
  BY <1>3 DEF Live
<1>6. (Expiring' <=> Expiring) /\ (Calling' <=> Calling)
  BY <1>3 DEF Expiring, Calling
<1>7. Calling => cur \in Live
  BY <1>0 DEF Calling, TypeOK
<1>8. Sets(id, dur)
  <2>1. \A i \in Levels : \A s \in Slots : \A key \in wheels_[i][s] : key.id # id
    BY <1>1 DEF IInv, Known
  <2>2. timers_'[id].duration = dur /\ due'[id] = TicksOf(dur)
    BY <1>3
  <2>3. \A x \in Live \ {id} :
            due'[x] = due[x] /\ timers_'[x].duration = timers_[x].duration
    BY <1>3
  <2>4. ~(Calling' /\ cur' = id)
    BY <1>1, <1>3, <1>6, <1>7
  <2> QED
    BY <1>3, <1>4, <1>5, <1>6, <2>1, <2>2, <2>3, <2>4 DEF Sets
<1>9. /\ wheels_' \in [Levels -> [Slots -> SUBSET Key]]
      /\ Placed' /\ Single' /\ Known' /\ Present' /\ LostLong' /\ Timed'
  BY <1>1, <1>2, <1>8, SetsKeeps
<1>10. TypeOK'
  <2>1. Live' \subseteq TimerId
    BY <1>0, <1>1, <1>5 DEF TypeOK
  <2>2. ASSUME NEW x \in Live'
        PROVE  timers_'[x] \in Timer
    <3>1. CASE x = id
      <4>1. timers_'[x] = [duration |-> dur, times |-> times, removed |-> FALSE,
                           infinite |-> times <= 0, owner |-> owner]
        BY <1>3, <3>1
      <4>2. times \in Nat /\ (times <= 0) \in BOOLEAN
        BY WheelAssumption
      <4> QED
        BY <1>2, <4>1, <4>2 DEF Timer
    <3>2. CASE x # id
      BY <1>0, <1>3, <1>5, <3>2 DEF TypeOK
    <3> QED
      BY <3>1, <3>2
  <2>3. due' \in [Live' -> Int]
    <3>1. TicksOf(dur) \in Int
      BY <1>2, TicksOfIs
    <3> QED
      BY <1>0, <1>3, <1>5, <3>1 DEF TypeOK
  <2>4. pc' \in {"callback", "final"} => cur' \in Live'
    BY <1>0, <1>3, <1>5 DEF TypeOK
  <2> QED
    BY <1>0, <1>1, <1>3, <1>9, <2>1, <2>2, <2>3, <2>4 DEF TypeOK
<1>11. Phase'
  BY <1>3, <1>6 DEF IInv, Phase
<1>12. CurTimed'
  <2> SUFFICES ASSUME Calling' PROVE cur' \notin lost' /\ due'[cur'] = Early(cur)'
    BY DEF CurTimed, Early
  <2>1. Calling /\ cur \in Live /\ cur' = cur /\ cur # id
    BY <1>1, <1>3, <1>6, <1>7
  <2>2. cur \notin lost /\ due[cur] = Early(cur)
    BY <2>1 DEF IInv, CurTimed
  <2> QED
    BY <1>8, <2>1, <2>2, SetsOthers
<1> QED
  BY <1>9, <1>10, <1>11, <1>12 DEF IInv

LEMMA StepPutBack ==
    ASSUME IInv, PutBack
    PROVE  IInv'
<1> DEFINE dur == timers_[cur].duration
<1>0. TypeOK
  BY DEF IInv
<1>1. /\ pc = "callback" /\ pc' = "expiring" /\ cur' = 0
      /\ wheels_' = Inserted(cur, dur)
      /\ due' = [due EXCEPT ![cur] = TicksOf(dur)]
      /\ lost' = LostWith(cur, dur)
      /\ wrapped' = WrapsWith(cur, dur)
      /\ head_' = head_ /\ uuid_' = uuid_ /\ alive' = alive
      /\ slot' = slot /\ level' = level
  BY DEF PutBack
<1>2. cur \in Live /\ cur \in TimerId /\ timers_[cur] \in Timer /\ dur \in 0..IntMax
  BY <1>0, <1>1 DEF TypeOK, Timer
<1>3. /\ Live' = Live
      /\ \A x \in Live : timers_'[x] \in Timer /\ timers_'[x].duration = timers_[x].duration
  <2>1. CASE timers_[cur].infinite
    <3>1. timers_' = timers_
      BY <2>1 DEF PutBack
    <3> QED
      BY <1>0, <3>1 DEF TypeOK, Live
  <2>2. CASE ~timers_[cur].infinite
    <3> DEFINE rec == [timers_[cur] EXCEPT !.times = @ - 1]
    <3>1. timers_' = [timers_ EXCEPT ![cur] = rec]
      BY <2>2 DEF PutBack
    <3>2. rec \in Timer /\ rec.duration = dur
      <4>1. timers_[cur].times > 1 /\ timers_[cur].times \in Nat
        BY <1>2, <2>2 DEF PutBack, Timer
      <4>2. timers_[cur].times - 1 \in Nat
        BY <4>1
      <4> QED
        BY <1>2, <4>2 DEF Timer
    <3> HIDE DEF rec
    <3>3. Live' = Live
      BY <3>1 DEF Live
    <3>4. \A x \in Live : timers_'[x] = IF x = cur THEN rec ELSE timers_[x]
      BY <1>2, <3>1 DEF Live
    <3> QED
      BY <1>0, <3>2, <3>3, <3>4 DEF TypeOK
  <2> QED
    BY <2>1, <2>2
<1> HIDE DEF dur
<1>4. due \in [Live -> Int]
  BY <1>0 DEF TypeOK
<1>5. Sets(cur, dur)
  <2>1. Calling /\ ~Calling' /\ Expiring /\ Expiring'
    BY <1>1 DEF Calling, Expiring
  <2>2. \A i \in Levels : \A s \in Slots : \A key \in wheels_[i][s] : key.id # cur
    BY <2>1 DEF IInv, Known
  <2>3. due'[cur] = TicksOf(dur) /\ timers_'[cur].duration = dur
    BY <1>1, <1>2, <1>3, <1>4 DEF dur
  <2>4. \A x \in Live \ {cur} :
            due'[x] = due[x] /\ timers_'[x].duration = timers_[x].duration
    BY <1>1, <1>3, <1>4
  <2> QED
    BY <1>1, <1>2, <1>3, <2>1, <2>2, <2>3, <2>4 DEF Sets
<1>6. /\ wheels_' \in [Levels -> [Slots -> SUBSET Key]]
      /\ Placed' /\ Single' /\ Known' /\ Present' /\ LostLong' /\ Timed'
  BY <1>2, <1>5, SetsKeeps
<1>7. TypeOK'
  <2>1. due' \in [Live' -> Int]
    <3>1. TicksOf(dur) \in Int
      BY <1>2, TicksOfIs
    <3> QED
      BY <1>1, <1>2, <1>3, <1>4, <3>1
  <2> QED
    BY <1>0, <1>1, <1>3, <1>6, <2>1 DEF TypeOK
<1>8. Phase' /\ CurTimed'
  BY <1>1 DEF IInv, Phase, CurTimed, Expiring, Calling
<1> QED
  BY <1>6, <1>7, <1>8 DEF IInv

-----------------------------------------------------------------------------
(* Steps that leave the wheels alone. *)

Waits(x) == x \in Live /\ x \notin lost /\ ~(Calling /\ x = cur)

Quiet ==
    /\ wheels_' = wheels_ /\ head_' = head_
    /\ \A x : Waits(x)' <=> Waits(x)
    /\ \A x : Waits(x) => due'[x] = due[x] /\ Early(x)' = Early(x)
    /\ \A x \in lost' : x \in lost /\ x \in Live' /\ timers_'[x].duration = timers_[x].duration
    /\ \A i \in Levels : Pending(i)' = Pending(i)
    /\ \A s \in Slots : wheels_[0][s] # {} =>
           ((Expiring' /\ s = slot') <=> (Expiring /\ s = slot))

LEMMA QuietKeeps ==
    ASSUME IInv, Quiet
    PROVE  Placed' /\ Single' /\ Known' /\ Present' /\ LostLong' /\ Timed'
<1>0. wheels_' = wheels_ /\ head_' = head_
  BY DEF Quiet
<1>1. ASSUME NEW i \in Levels, NEW s \in Slots, NEW key \in wheels_[i][s]
      PROVE  Waits(key.id) /\ Waits(key.id)'
  BY <1>1 DEF IInv, Known, Quiet, Waits
<1>2. Placed' /\ Single'
  BY <1>0 DEF IInv, Placed, Single
<1>3. Known'
  BY <1>0, <1>1 DEF Known, Waits
<1>4. Present'
  <2> SUFFICES ASSUME NEW x, Waits(x)'
               PROVE  \E i \in Levels : \E s \in Slots : \E key \in wheels_[i][s] : key.id = x
    BY <1>0 DEF Present, Waits
  <2>1. Waits(x)
    BY DEF Quiet
  <2> QED
    BY <2>1 DEF Waits, IInv, Present
<1>5. LostLong'
  BY DEF IInv, LostLong, Quiet
<1>6. Timed'
  <2> SUFFICES ASSUME NEW i \in Levels, NEW s \in Slots, NEW key \in wheels_[i][s]
               PROVE  InTime(i, s, key)'
    BY <1>0 DEF Timed
  <2>1. InTime(i, s, key) /\ Waits(key.id)
    BY <1>1 DEF IInv, Timed
  <2>2. due'[key.id] = due[key.id] /\ Early(key.id)' = Early(key.id)
        /\ Pending(i)' = Pending(i)
    BY <2>1 DEF Quiet
  <2>3. i = 0 => ((Expiring' /\ s = slot') <=> (Expiring /\ s = slot))
    BY DEF Quiet
  <2>4. CASE Expiring /\ i = 0 /\ s = slot
    BY <1>0, <2>1, <2>2, <2>3, <2>4 DEF InTime
  <2>5. CASE ~(Expiring /\ i = 0 /\ s = slot)
    BY <1>0, <2>1, <2>2, <2>3, <2>5 DEF InTime
  <2> QED
    BY <2>4, <2>5
<1> QED
  BY <1>2, <1>3, <1>4, <1>5, <1>6

LEMMA StepRemove ==
    ASSUME IInv, NEW id \in Live, Remove(id)
    PROVE  IInv'
<1>0. TypeOK /\ CurTimed
  BY DEF IInv
<1>1. /\ timers_' = [timers_ EXCEPT ![id].removed = TRUE]
      /\ UNCHANGED <<head_, wheels_, uuid_, alive, pc, slot, level, cur, due, lost, wrapped>>
  BY DEF Remove, wheelVars, tickVars
<1>2. /\ Live' = Live
      /\ \A x \in Live : timers_'[x] \in Timer /\ timers_'[x].duration = timers_[x].duration
  BY <1>0, <1>1 DEF TypeOK, Timer, Live
<1>3. /\ \A x : Early(x)' = Early(x)
      /\ \A i \in Levels : Pending(i)' = Pending(i)
      /\ (Expiring' <=> Expiring) /\ (Calling' <=> Calling)
  BY <1>1 DEF Early, Pending, Expiring, Calling
<1>4. \A x : Waits(x)' <=> Waits(x)
  BY <1>1, <1>2, <1>3 DEF Waits
<1>5. Quiet
  BY <1>1, <1>2, <1>3, <1>4 DEF Quiet, IInv, LostLong
<1>6. TypeOK'
  BY <1>0, <1>1, <1>2 DEF TypeOK
<1>7. Phase' /\ CurTimed'
  BY <1>0, <1>1, <1>3 DEF IInv, Phase, CurTimed, Early
<1> QED
  BY <1>5, <1>6, <1>7, QuietKeeps DEF IInv

LEMMA StepUseUp ==
    ASSUME IInv, UseUp
    PROVE  IInv'
<1>0. TypeOK /\ CurTimed
  BY DEF IInv
<1>1. /\ timers_' = [timers_ EXCEPT ![cur].times = 0]
      /\ pc = "callback" /\ pc' = "final"
      /\ UNCHANGED <<head_, wheels_, uuid_, alive, slot, level, cur, due, lost, wrapped>>
  BY DEF UseUp, wheelVars
<1>2. /\ Live' = Live
      /\ \A x \in Live : timers_'[x] \in Timer /\ timers_'[x].duration = timers_[x].duration
  BY <1>0, <1>1 DEF TypeOK, Timer, Live
<1>3. /\ \A x : Early(x)' = Early(x)
      /\ \A i \in Levels : Pending(i)' = Pending(i)
      /\ Expiring' /\ Expiring /\ Calling' /\ Calling
  BY <1>1 DEF Early, Pending, Expiring, Calling
<1>4. \A x : Waits(x)' <=> Waits(x)
  BY <1>1, <1>2, <1>3 DEF Waits
<1>5. Quiet
  BY <1>1, <1>2, <1>3, <1>4 DEF Quiet, IInv, LostLong
<1>6. TypeOK'
  BY <1>0, <1>1, <1>2 DEF TypeOK
<1>7. Phase' /\ CurTimed'
  BY <1>0, <1>1, <1>3 DEF IInv, Phase, CurTimed, Early
<1> QED
  BY <1>5, <1>6, <1>7, QuietKeeps DEF IInv

LEMMA StepErase ==
    ASSUME IInv, Erase
    PROVE  IInv'
<1>0. TypeOK
  BY DEF IInv
<1>1. /\ pc = "final" /\ pc' = "expiring"
      /\ timers_' = [x \in Live \ {cur} |-> timers_[x]]
      /\ due' = [x \in Live \ {cur} |-> due[x]]
      /\ lost' = lost \ {cur} /\ wrapped' = wrapped \ {cur}
      /\ UNCHANGED <<head_, wheels_, uuid_, alive, slot, level>>
  BY DEF Erase, wheelVars, Restrict
<1>2. Live' = Live \ {cur}
  BY <1>1 DEF Live
<1>3. /\ \A x : x # cur => Early(x)' = Early(x)
      /\ \A i \in Levels : Pending(i)' = Pending(i)
      /\ Expiring' /\ Expiring /\ ~Calling' /\ Calling
  BY <1>1 DEF Early, Pending, Expiring, Calling
<1>4. \A x : Waits(x)' <=> Waits(x)
  BY <1>1, <1>2, <1>3 DEF Waits
<1>5. \A x : Waits(x) => due'[x] = due[x] /\ Early(x)' = Early(x)
  BY <1>1, <1>3 DEF Waits
<1>6. Quiet
  <2>1. \A x \in lost' : x \in lost /\ x \in Live' /\ timers_'[x].duration = timers_[x].duration
    BY <1>1, <1>2 DEF IInv, LostLong
  <2> QED
    BY <1>1, <1>3, <1>4, <1>5, <2>1 DEF Quiet
<1>7. TypeOK'
  <2>1. due' \in [Live' -> Int]
    BY <1>0, <1>1, <1>2 DEF TypeOK
  <2>2. Live' \subseteq TimerId /\ \A x \in Live' : timers_'[x] \in Timer
    BY <1>0, <1>1, <1>2 DEF TypeOK
  <2> QED
    BY <1>0, <1>1, <2>1, <2>2 DEF TypeOK
<1>8. Phase' /\ CurTimed'
  BY <1>1, <1>3 DEF IInv, Phase, CurTimed
<1> QED
  BY <1>6, <1>7, <1>8, QuietKeeps DEF IInv

LEMMA StepDestroyService ==
    ASSUME IInv, NEW s \in Services, DestroyService(s)
    PROVE  IInv'
<1>0. TypeOK /\ CurTimed
  BY DEF IInv
<1>1. /\ alive' = alive \ {s}
      /\ UNCHANGED <<head_, wheels_, timers_, uuid_, pc, slot, level, cur, due, lost, wrapped>>
  BY DEF DestroyService, wheelVars, tickVars
<1>2. Live' = Live
  BY <1>1 DEF Live
<1>3. /\ \A x : Early(x)' = Early(x)
      /\ \A i \in Levels : Pending(i)' = Pending(i)
      /\ (Expiring' <=> Expiring) /\ (Calling' <=> Calling)
  BY <1>1 DEF Early, Pending, Expiring, Calling
<1>4. \A x : Waits(x)' <=> Waits(x)
  BY <1>1, <1>2, <1>3 DEF Waits
<1>5. Quiet
  BY <1>1, <1>2, <1>3, <1>4 DEF Quiet, IInv, LostLong
<1>6. TypeOK'
  BY <1>0, <1>1, <1>2 DEF TypeOK
<1>7. Phase' /\ CurTimed'
  BY <1>0, <1>1, <1>3 DEF IInv, Phase, CurTimed, Early
<1> QED
  BY <1>5, <1>6, <1>7, QuietKeeps DEF IInv

LEMMA StepExpired ==
    ASSUME IInv, Expired
    PROVE  IInv'
<1>0. TypeOK
  BY DEF IInv
<1>1. /\ pc = "expiring" /\ wheels_[0][slot] = {}
      /\ pc' = "cascade" /\ level' = 0 /\ slot' = 0
      /\ UNCHANGED <<head_, wheels_, timers_, uuid_, alive, cur, due, lost, wrapped>>
  BY DEF Expired, wheelVars
<1>2. Live' = Live /\ level = 0
  BY <1>1 DEF IInv, Phase, Live
<1>3. /\ \A x : Early(x)' = Early(x)
      /\ \A i \in Levels : Pending(i)' = Pending(i)
      /\ ~Expiring' /\ ~Calling' /\ ~Calling
  BY <1>1, <1>2 DEF Early, Pending, Expiring, Calling
<1>4. \A x : Waits(x)' <=> Waits(x)
  BY <1>1, <1>2, <1>3 DEF Waits
<1>5. Quiet
  BY <1>1, <1>2, <1>3, <1>4 DEF Quiet, IInv, LostLong
<1>6. 0 \in Slots /\ 0 \in Levels
  BY Constants DEF Slots
<1>7. TypeOK'
  BY <1>0, <1>1, <1>2, <1>6 DEF TypeOK
<1>8. Phase' /\ CurTimed'
  BY <1>1, <1>3 DEF IInv, Phase, CurTimed
<1> QED
  BY <1>5, <1>7, <1>8, QuietKeeps DEF IInv

LEMMA StepTickDone ==
    ASSUME IInv, TickDone
    PROVE  IInv'
<1>0. TypeOK
  BY DEF IInv
<1>1. /\ pc = "cascade" /\ (level = Wheels - 1 \/ head_[level] # 0)
      /\ pc' = "idle" /\ level' = 0
      /\ UNCHANGED <<head_, wheels_, timers_, uuid_, alive, slot, cur, due, lost, wrapped>>
  BY DEF TickDone, wheelVars
<1>2. Live' = Live
  BY <1>1 DEF Live
<1>3. ASSUME NEW i \in Levels
      PROVE  Pending(i)' = Pending(i)
  <2>1. Pending(i)' = 0
    BY <1>1 DEF Pending
  <2>2. i <= Wheels - 1 /\ i \in Nat /\ level \in Nat
    BY Constants, Numbers, <1>0 DEF Levels
  <2>3. ~(i > level /\ head_[level] = 0)
    BY <1>1, <2>2, Constants
  <2> QED
    BY <2>1, <2>3 DEF Pending
<1>4. /\ \A x : Early(x)' = Early(x)
      /\ ~Expiring /\ ~Expiring' /\ ~Calling' /\ ~Calling
  BY <1>1 DEF Early, Expiring, Calling
<1>5. \A x : Waits(x)' <=> Waits(x)
  BY <1>1, <1>2, <1>4 DEF Waits
<1>6. Quiet
  BY <1>1, <1>2, <1>3, <1>4, <1>5 DEF Quiet, IInv, LostLong
<1>7. TypeOK'
  BY <1>0, <1>1, <1>2, Constants DEF TypeOK
<1>8. Phase' /\ CurTimed'
  BY <1>1, <1>4 DEF IInv, Phase, CurTimed
<1> QED
  BY <1>6, <1>7, <1>8, QuietKeeps DEF IInv

-----------------------------------------------------------------------------
(* Steps that move keys. *)

LEMMA StepExpire ==
    ASSUME IInv, Expire
    PROVE  IInv'
<1>0. TypeOK
  BY DEF IInv
<1>1. PICK key \in wheels_[0][slot] :
          /\ wheels_' = [wheels_ EXCEPT ![0][slot] = @ \ {key}]
          /\ IF key.id \in Live
             THEN /\ cur' = key.id
                  /\ pc' = IF timers_[key.id].removed THEN "final" ELSE "callback"
                  /\ timers_' = IF timers_[key.id].owner \in alive THEN timers_
                                ELSE [timers_ EXCEPT ![key.id].removed = TRUE]
             ELSE UNCHANGED <<cur, pc, timers_>>
  BY DEF Expire
<1> DEFINE id == key.id
<1>2. /\ pc = "expiring"
      /\ UNCHANGED <<head_, uuid_, alive, slot, level, due, lost, wrapped>>
  BY DEF Expire
<1>3. 0 \in Levels /\ slot \in Slots /\ wheels_ \in [Levels -> [Slots -> SUBSET Key]]
  BY <1>0, Constants DEF TypeOK
<1>4. id \in Live /\ id \notin lost
  BY <1>3 DEF IInv, Known
<1>5. /\ cur' = id /\ pc' \in {"callback", "final"}
      /\ timers_' = IF timers_[id].owner \in alive THEN timers_
                    ELSE [timers_ EXCEPT ![id].removed = TRUE]
  BY <1>1, <1>4
<1>6. Expiring /\ Expiring' /\ ~Calling /\ Calling'
  BY <1>2, <1>5 DEF Expiring, Calling
<1>7. /\ Live' = Live
      /\ \A x \in Live : timers_'[x] \in Timer /\ timers_'[x].duration = timers_[x].duration
  BY <1>0, <1>4, <1>5 DEF TypeOK, Timer, Live
<1>8. /\ wheels_' \in [Levels -> [Slots -> SUBSET Key]]
      /\ \A i \in Levels : \A s \in Slots : \A k \in wheels_'[i][s] : k \in wheels_[i][s]
      /\ \A i \in Levels : \A s \in Slots : \A k \in wheels_[i][s] :
             k \in wheels_'[i][s] \/ k = key
      /\ key \notin wheels_'[0][slot]
  <2>1. wheels_' \in [Levels -> [Slots -> SUBSET Key]]
    BY <1>1, <1>3
  <2>2. wheels_'[0][slot] = wheels_[0][slot] \ {key}
    BY <1>1, <1>3
  <2>3. \A i \in Levels : \A s \in Slots :
            (i = 0 /\ s = slot) \/ wheels_'[i][s] = wheels_[i][s]
    BY <1>1, <1>3
  <2> QED
    BY <2>1, <2>2, <2>3
<1>9. ASSUME NEW i \in Levels, NEW s \in Slots, NEW k \in wheels_'[i][s]
      PROVE  k \in wheels_[i][s] /\ k.id # id
  <2>1. k \in wheels_[i][s]
    BY <1>8
  <2>2. ASSUME k.id = id PROVE FALSE
    <3>1. i = 0 /\ s = slot /\ k = key
      BY <1>3, <2>1, <2>2 DEF IInv, Single
    <3> QED
      BY <1>8, <3>1
  <2> QED
    BY <2>1, <2>2
<1>10. Placed' /\ Single'
  BY <1>9 DEF IInv, Placed, Single
<1>11. Known'
  <2> SUFFICES ASSUME NEW i \in Levels, NEW s \in Slots, NEW k \in wheels_'[i][s]
               PROVE  k.id \in Live' /\ k.id \notin lost' /\ ~(Calling' /\ k.id = cur')
    BY DEF Known
  <2>1. k \in wheels_[i][s] /\ k.id # id
    BY <1>9
  <2> QED
    BY <1>2, <1>5, <1>7, <2>1 DEF IInv, Known
<1>12. Present'
  <2> SUFFICES ASSUME NEW x \in Live, x \notin lost, x # id
               PROVE  \E i \in Levels : \E s \in Slots : \E k \in wheels_'[i][s] : k.id = x
    BY <1>2, <1>5, <1>6, <1>7 DEF Present
  <2>1. \E i \in Levels : \E s \in Slots : \E k \in wheels_[i][s] : k.id = x
    BY <1>6 DEF IInv, Present
  <2> QED
    BY <1>8, <2>1
<1>13. LostLong'
  BY <1>2, <1>7 DEF IInv, LostLong
<1>14. Timed'
  <2> SUFFICES ASSUME NEW i \in Levels, NEW s \in Slots, NEW k \in wheels_'[i][s]
               PROVE  InTime(i, s, k)'
    BY DEF Timed
  <2>1. InTime(i, s, k)
    BY <1>9 DEF IInv, Timed
  <2>2. Early(k.id)' = Early(k.id) /\ Pending(i)' = Pending(i)
    BY <1>2, <1>5 DEF Early, Pending
  <2>3. CASE i = 0 /\ s = slot
    BY <1>2, <1>6, <2>1, <2>2, <2>3 DEF InTime
  <2>4. CASE ~(i = 0 /\ s = slot)
    BY <1>2, <1>6, <2>1, <2>2, <2>4 DEF InTime
  <2> QED
    BY <2>3, <2>4
<1>15. TypeOK'
  BY <1>0, <1>2, <1>4, <1>5, <1>7, <1>8 DEF TypeOK
<1>16. Phase'
  BY <1>2, <1>5, <1>6 DEF IInv, Phase
<1>17. CurTimed'
  <2>1. InTime(0, slot, key)
    BY <1>3 DEF IInv, Timed
  <2>2. due[id] = Early(id)
    BY <1>6, <2>1 DEF InTime
  <2> QED
    BY <1>2, <1>4, <1>5, <2>2 DEF CurTimed, Early
<1> QED
  BY <1>10, <1>11, <1>12, <1>13, <1>14, <1>15, <1>16, <1>17 DEF IInv

\* Between two ticks every timer of the wheels is due in a tick to come.
LEMMA NotOverdue ==
    ASSUME IInv, pc = "idle",
           NEW i \in Levels, NEW s \in Slots, NEW key \in wheels_[i][s]
    PROVE  /\ key.slot \in [Levels -> Slots] /\ key.slot[i] = s /\ s >= head_[i]
           /\ due[key.id] = Distance(key.slot, head_)[i] + 1 + Early(key.id)
           /\ Distance(key.slot, head_)[i] \in Nat
<1>1. key.slot \in [Levels -> Slots] /\ key.slot[i] = s /\ head_ \in [Levels -> Slots]
  BY DEF IInv, TypeOK, Key, Placed
<1>2. InTime(i, s, key) /\ ~Expiring /\ Pending(i) = 0
  BY DEF IInv, Timed, Expiring, Pending
<1> DEFINE D == Distance(key.slot, head_)[i]
           e == Early(key.id)
<1>3. s >= head_[i] /\ due[key.id] = D + 1 - 0 + e
  BY <1>2 DEF InTime
<1>4. D \in Int /\ D >= 0 /\ e \in Nat
  BY <1>1, <1>3, DistanceIs, DistanceBound, Numbers DEF IInv
<1> HIDE DEF D, e
<1>5. due[key.id] = D + 1 + e /\ D \in Nat
  BY <1>3, <1>4
<1> QED
  BY <1>1, <1>3, <1>5 DEF D, e

LEMMA StepTick ==
    ASSUME IInv, Tick
    PROVE  IInv'
<1> DEFINE W == WHEEL_SIZE
           h == head_[0]
           x == IF h = W - 1 THEN 0 ELSE h + 1
<1>0. TypeOK
  BY DEF IInv
<1>1. /\ pc = "idle" /\ slot' = h /\ pc' = "expiring"
      /\ head_' = [head_ EXCEPT ![0] = (h + 1) % W]
      /\ due' = [id \in Live |-> IF due[id] < 0 THEN due[id] ELSE due[id] - 1]
      /\ UNCHANGED <<wheels_, timers_, uuid_, alive, level, cur, lost, wrapped>>
  BY <1>0, Constants DEF Tick, TypeOK
<1>2. /\ 0 \in Levels /\ h \in Slots /\ h \in 0..(W - 1) /\ W \in Nat /\ W >= 2
      /\ head_ \in [Levels -> Slots]
  BY <1>0, Constants DEF TypeOK, Slots
<1>3. (h + 1) % W = x
  <2>1. h # W - 1 => (h + 1) % W = h + 1
    BY <1>2
  <2>2. (W - 1) + 1 = W
    BY <1>2
  <2>3. h = W - 1 => (h + 1) % W = 0
    BY <1>2, <2>2
  <2> QED
    BY <2>1, <2>3
<1>4. x \in Slots /\ head_' = [head_ EXCEPT ![0] = x]
  <2>1. x \in 0..(W - 1)
    BY <1>2
  <2> HIDE DEF x
  <2> QED
    BY <1>1, <1>3, <2>1 DEF Slots
<1>5. /\ head_' \in [Levels -> Slots] /\ head_'[0] = x
      /\ \A i \in Levels : i # 0 => head_'[i] = head_[i]
  BY <1>2, <1>4
<1>6. level = 0 /\ SlotTicks[level + 1] = W /\ SlotTicks[0] = 1
  <2>1. level = 0
    BY <1>1 DEF IInv, Phase
  <2>2. SlotTicks[0 + 1] = W * 1
    BY <1>2, SlotTicksIs
  <2> QED
    BY <1>2, <2>1, <2>2, SlotTicksIs
<1>7. Live' = Live
  BY <1>1 DEF Live
<1>8. ~Expiring /\ Expiring' /\ ~Calling /\ ~Calling'
  BY <1>1 DEF Expiring, Calling
<1>9. Placed' /\ Single' /\ Known' /\ Present' /\ LostLong'
  BY <1>1, <1>7, <1>8 DEF IInv, Placed, Single, Known, Present, LostLong
<1>10. TypeOK'
  <2>1. due' \in [Live' -> Int]
    BY <1>0, <1>1, <1>7 DEF TypeOK
  <2> QED
    BY <1>0, <1>1, <1>2, <1>5, <1>7, <2>1 DEF TypeOK
<1>11. Phase' /\ CurTimed'
  BY <1>1, <1>3, <1>5, <1>6, <1>8 DEF Phase, CurTimed
<1>12. Timed'
  <2> SUFFICES ASSUME NEW i \in Levels, NEW s \in Slots, NEW key \in wheels_[i][s]
               PROVE  InTime(i, s, key)'
    BY <1>1 DEF Timed
  <2> DEFINE D == Distance(key.slot, head_)[i]
             D2 == Distance(key.slot, head_')[i]
             e == Early(key.id)
  <2>1. /\ key.slot \in [Levels -> Slots] /\ key.slot[i] = s /\ s >= head_[i]
        /\ due[key.id] = D + 1 + e /\ D \in Nat
    BY <1>1, NotOverdue
  <2>2. e \in Nat /\ Early(key.id)' = e
    BY <1>0, <1>1, Numbers DEF Early
  <2>3. D2 = D + (IF i < 0 THEN 0 ELSE (h - x) * SlotTicks[0])
    <3> DEFINE zero == 0
    <3>1. /\ zero \in Levels /\ head_' = [head_ EXCEPT ![zero] = x] /\ h = head_[zero]
          /\ key.slot \in [Levels -> Slots] /\ head_ \in [Levels -> Slots]
      BY <1>2, <1>4, <2>1
    <3> DEFINE sl == key.slot
               h2 == head_'
               h1 == head_
    <3>4. /\ zero \in Levels /\ x \in Slots /\ h2 = [h1 EXCEPT ![zero] = x]
          /\ sl \in [Levels -> Slots] /\ h1 \in [Levels -> Slots]
          /\ Moved(h1, zero, x, h2)
      BY <1>4, <3>1 DEF Moved
    <3> HIDE DEF zero, x, h, sl, h1, h2
    <3>2. Shifted(sl, h1, zero, x, h2)
      BY <3>4, HeadMoves
    <3>3. D2 = D + (IF i < zero THEN 0 ELSE (head_[zero] - x) * SlotTicks[zero])
      BY <3>2 DEF sl, h1, h2, Shifted
    <3> QED
      BY <3>1, <3>3 DEF zero
  <2>4. i \in Nat /\ s \in Nat /\ s <= W - 1 /\ head_[i] \in Nat
    BY <1>0, <1>2, Below, Numbers DEF Slots
  <2> HIDE DEF D2, e, D
  <2>5. x \in Nat
    BY <1>2
  <2>6. D2 = D + (h - x)
    <3> HIDE DEF x, h
    <3>1. h \in Nat
      BY <1>2
    <3> QED
      BY <1>6, <2>1, <2>3, <2>4, <2>5, <3>1
  <2>7. due'[key.id] = D + e
    <3>1. key.id \in Live
      BY DEF IInv, Known
    <3>2. due'[key.id] = IF due[key.id] < 0 THEN due[key.id] ELSE due[key.id] - 1
      BY <1>1, <3>1
    <3> QED
      BY <2>1, <2>2, <3>2
  <2>8. Pending(i)' = IF i > 0 /\ x = 0 THEN W ELSE 0
    BY <1>1, <1>5, <1>6 DEF Pending
  <2>9. CASE i = 0 /\ s = h
    <3>1. D = 0
      BY <1>2, <2>1, <2>9, DistanceIs DEF D
    <3>2. due'[key.id] = e
      BY <2>2, <2>7, <3>1
    <3> QED
      BY <1>1, <1>8, <2>2, <2>9, <3>2 DEF InTime
  <2>10. CASE ~(i = 0 /\ s = h)
    <3>1. i = 0 => x = h + 1 /\ s >= x
      BY <1>2, <2>1, <2>4, <2>10
    <3>2. s >= head_'[i]
      BY <1>5, <2>1, <3>1
    <3> DEFINE p == Pending(i)'
    <3>3. p = IF i > 0 /\ x = 0 THEN W ELSE 0
      BY <2>8
    <3> HIDE DEF p
    <3>4. D + e = D2 + 1 - p + e
      <4>1. CASE h = W - 1
        <5>1. x = 0 /\ i > 0 /\ p = W
          BY <2>4, <3>1, <3>3, <1>2, <4>1
        <5> QED
          BY <1>2, <2>1, <2>2, <2>6, <4>1, <5>1
      <4>2. CASE h # W - 1
        <5>1. x = h + 1 /\ p = 0
          BY <1>2, <3>3, <4>2
        <5> QED
          BY <1>2, <2>1, <2>2, <2>6, <5>1
      <4> QED
        BY <4>1, <4>2
    <3>5. ~(Expiring' /\ i = 0 /\ s = slot')
      BY <1>1, <2>10
    <3> QED
      BY <2>2, <2>7, <3>2, <3>4, <3>5 DEF InTime, D2, p
  <2> QED
    BY <2>9, <2>10
<1> QED
  BY <1>9, <1>10, <1>11, <1>12 DEF IInv

LEMMA StepCascade ==
    ASSUME IInv, Cascade
    PROVE  IInv'
<1> DEFINE W == WHEEL_SIZE
           l == level
           up == level + 1
           h == head_[up]
           x == IF h = W - 1 THEN 0 ELSE h + 1
           front == wheels_[up][h]
           t == SlotTicks[up]
           t2 == SlotTicks[up + 1]
<1>0. TypeOK
  BY DEF IInv
<1>1. /\ pc = "cascade" /\ level < Wheels - 1 /\ head_[level] = 0
      /\ wheels_' = [wheels_ EXCEPT
             ![up][h] = {},
             ![l] = [s \in Slots |-> @[s] \cup {key \in front : key.slot[l] = s}]]
      /\ head_' = [head_ EXCEPT ![up] = (h + 1) % W]
      /\ level' = up
      /\ UNCHANGED <<timers_, uuid_, alive, pc, slot, cur, due, lost, wrapped>>
  <2>1. head_' = [head_ EXCEPT ![up] = (@ + 1) % W]
    BY DEF Cascade
  <2>2. head_' = [head_ EXCEPT ![up] = (h + 1) % W]
    BY <2>1
  <2> QED
    BY <2>2 DEF Cascade
<1>2. /\ l \in Levels /\ up \in Levels /\ l \in Nat /\ up # l /\ up \in Nat
      /\ up # 0 /\ up - 1 = l
      /\ head_ \in [Levels -> Slots] /\ wheels_ \in [Levels -> [Slots -> SUBSET Key]]
      /\ W \in Nat /\ W >= 2
  BY SMTT(40), <1>0, <1>1, Constants DEF TypeOK, Levels
<1>3. h \in Slots /\ h \in 0..(W - 1) /\ x \in Slots /\ x \in 0..(W - 1)
  BY <1>2 DEF Slots
<1>4. (h + 1) % W = x
  <2>1. h # W - 1 => (h + 1) % W = h + 1
    BY <1>2, <1>3
  <2>2. (W - 1) + 1 = W
    BY <1>2
  <2>3. h = W - 1 => (h + 1) % W = 0
    BY <1>2, <2>2
  <2> QED
    BY <2>1, <2>3
<1>5. /\ head_' = [head_ EXCEPT ![up] = x]
      /\ head_' \in [Levels -> Slots] /\ head_'[up] = x
      /\ \A i \in Levels : i # up => head_'[i] = head_[i]
  <2> HIDE DEF x, h, up
  <2> QED
    BY <1>1, <1>2, <1>3, <1>4
<1>6. t \in Nat /\ t >= 1 /\ t2 = W * t /\ SlotTicks[l + 1] = t
  BY <1>2, Below, SlotTicksIs
<1>7. Live' = Live
  BY <1>1 DEF Live
<1>8. ~Expiring /\ ~Expiring' /\ ~Calling /\ ~Calling'
  BY <1>1 DEF Expiring, Calling
<1> HIDE DEF h, x, up, t, t2
<1>9. /\ wheels_' \in [Levels -> [Slots -> SUBSET Key]]
      /\ \A s \in Slots : wheels_'[up][s] = IF s = h THEN {} ELSE wheels_[up][s]
      /\ \A s \in Slots :
             wheels_'[l][s] = wheels_[l][s] \cup {key \in front : key.slot[l] = s}
      /\ \A i \in Levels : i # l /\ i # up => wheels_'[i] = wheels_[i]
  <2> DEFINE mid == [wheels_ EXCEPT ![up][h] = {}]
             row == [s \in Slots |-> wheels_[l][s] \cup {key \in front : key.slot[l] = s}]
  <2>1. /\ mid \in [Levels -> [Slots -> SUBSET Key]] /\ mid[l] = wheels_[l]
        /\ \A s \in Slots : mid[up][s] = IF s = h THEN {} ELSE wheels_[up][s]
        /\ \A i \in Levels : i # up => mid[i] = wheels_[i]
    BY <1>2, <1>3
  <2>2. row \in [Slots -> SUBSET Key]
    BY <1>2, <1>3
  <2>3. wheels_' = [mid EXCEPT ![l] = row]
    BY <1>1, <1>2, <2>1
  <2>4. \A s \in Slots : row[s] = wheels_[l][s] \cup {key \in front : key.slot[l] = s}
    OBVIOUS
  <2> HIDE DEF mid, row
  <2>5. wheels_'[l] = row /\ \A i \in Levels : i # l => wheels_'[i] = mid[i]
    BY <1>2, <2>1, <2>3
  <2>6. wheels_' \in [Levels -> [Slots -> SUBSET Key]]
    BY <1>2, <2>1, <2>2, <2>3
  <2> QED
    BY <1>2, <2>1, <2>4, <2>5, <2>6
\* Where a key is after the step, and where it comes from.
<1>10. ASSUME NEW i \in Levels, NEW s \in Slots, NEW key \in wheels_'[i][s]
       PROVE  \/ /\ i = l /\ key \in front /\ key.slot[l] = s
              \/ /\ key \in wheels_[i][s] /\ ~(i = up /\ s = h)
  BY <1>2, <1>9
<1>11. ASSUME NEW i \in Levels, NEW s \in Slots, NEW key \in wheels_[i][s]
       PROVE  \E j \in Levels : \E r \in Slots : key \in wheels_'[j][r]
  <2>1. CASE i = up /\ s = h
    <3>1. key \in front /\ key.slot[l] \in Slots
      BY <1>2, <2>1 DEF Key
    <3> QED
      BY <1>2, <1>9, <3>1
  <2>2. CASE ~(i = up /\ s = h)
    <3>1. key \in wheels_'[i][s]
      BY <1>2, <1>9, <2>2
    <3> QED
      BY <3>1
  <2> QED
    BY <2>1, <2>2
<1>12. Placed'
  BY <1>10 DEF IInv, Placed
<1>13. Single'
  <2> SUFFICES ASSUME NEW i \in Levels, NEW i2 \in Levels, NEW s \in Slots, NEW s2 \in Slots,
                      NEW key \in wheels_'[i][s], NEW key2 \in wheels_'[i2][s2],
                      key.id = key2.id
               PROVE  i = i2 /\ s = s2 /\ key = key2
    BY DEF Single
  <2>1. \A k \in front, j \in Levels, r \in Slots : \A k2 \in wheels_[j][r] :
            k.id = k2.id => j = up /\ r = h /\ k = k2
    BY <1>2, <1>3 DEF IInv, Single
  <2>2. CASE key \in front /\ i = l /\ key.slot[l] = s
    <3>1. key2 \in front /\ i2 = l /\ key2.slot[l] = s2
      BY <1>10, <2>1, <2>2
    <3> QED
      BY <1>2, <1>3, <2>1, <2>2, <3>1
  <2>3. CASE key \in wheels_[i][s] /\ ~(i = up /\ s = h)
    <3>1. key2 \in wheels_[i2][s2]
      BY <1>10, <2>1, <2>3
    <3> QED
      BY <2>3, <3>1 DEF IInv, Single
  <2> QED
    BY <1>10, <2>2, <2>3
<1>14. Known'
  <2> SUFFICES ASSUME NEW i \in Levels, NEW s \in Slots, NEW key \in wheels_'[i][s]
               PROVE  key.id \in Live /\ key.id \notin lost
    BY <1>1, <1>7, <1>8 DEF Known
  <2>1. \E j \in Levels : \E r \in Slots : key \in wheels_[j][r]
    BY <1>2, <1>3, <1>10
  <2> QED
    BY <2>1 DEF IInv, Known
<1>15. Present'
  <2> SUFFICES ASSUME NEW y \in Live, y \notin lost
               PROVE  \E i \in Levels : \E s \in Slots : \E key \in wheels_'[i][s] : key.id = y
    BY <1>1, <1>7, <1>8 DEF Present
  <2>1. \E i \in Levels : \E s \in Slots : \E key \in wheels_[i][s] : key.id = y
    BY <1>8 DEF IInv, Present
  <2> QED
    BY <1>11, <2>1
<1>16. LostLong' /\ CurTimed'
  BY <1>1, <1>7, <1>8 DEF IInv, LostLong, CurTimed
<1>17. TypeOK'
  BY <1>0, <1>1, <1>2, <1>5, <1>7, <1>9 DEF TypeOK
<1>18. Phase'
  BY <1>1, <1>8 DEF Phase
<1>19. ASSUME NEW i \in Levels
       PROVE  /\ Pending(i) = IF i >= up THEN t ELSE 0
              /\ Pending(i)' = IF i > up /\ x = 0 THEN t2 ELSE 0
  <2>1. i \in Nat
    BY Below
  <2>2. i > l <=> i >= up
    BY <1>2, <2>1 DEF up
  <2> QED
    BY <1>1, <1>5, <1>6, <2>2 DEF Pending, t2
<1>20. Timed'
  <2> SUFFICES ASSUME NEW i \in Levels, NEW s \in Slots, NEW key \in wheels_'[i][s]
               PROVE  InTime(i, s, key)'
    BY DEF Timed
  <2> DEFINE D == Distance(key.slot, head_)
             D2 == Distance(key.slot, head_')
             e == Early(key.id)
             y == due[key.id]
  <2>1. key.slot \in [Levels -> Slots]
    BY <1>9 DEF Key
  <2>2. /\ \A j \in Levels : D[j] \in Int
        /\ D[up] = D[l] + ((key.slot[up] - h) + 1) * t
    <3> DEFINE sl == key.slot
    <3> HIDE DEF sl
    <3>1. /\ \A j \in Levels : Distance(sl, head_)[j] \in Int
          /\ \A j \in Levels : j # 0 => Distance(sl, head_)[j] =
                 Distance(sl, head_)[j - 1] + ((sl[j] - head_[j]) + 1) * SlotTicks[j]
      BY <1>2, <2>1, DistanceIs DEF sl
    <3>2. Distance(sl, head_)[up] =
              Distance(sl, head_)[l] + ((sl[up] - head_[up]) + 1) * SlotTicks[up]
      BY <1>2, <3>1
    <3> QED
      BY <3>1, <3>2 DEF sl, h, t
  <2>3. \A j \in Levels : D2[j] = D[j] + (IF j < up THEN 0 ELSE (h - x) * t)
    <3> DEFINE sl == key.slot
               h1 == head_
               h2 == head_'
    <3>1. /\ up \in Levels /\ x \in Slots /\ Moved(h1, up, x, h2)
          /\ sl \in [Levels -> Slots] /\ h1 \in [Levels -> Slots]
      BY <1>2, <1>3, <1>5, <2>1 DEF Moved
    <3> HIDE DEF sl, h1, h2
    <3>2. Shifted(sl, h1, up, x, h2)
      BY <3>1, HeadMoves
    <3> QED
      BY <3>2 DEF sl, h1, h2, h, t, Shifted
  <2>4. e \in Nat /\ Early(key.id)' = e
    BY <1>0, <1>1, Numbers DEF Early
  <2>5. i \in Nat /\ s \in Nat /\ s <= W - 1 /\ h \in Nat /\ x \in Nat
    <3>1. s \in 0..(W - 1)
      BY DEF Slots
    <3>2. W \in Nat /\ h \in 0..(W - 1) /\ x \in 0..(W - 1) /\ i \in Nat
      BY <1>2, <1>3, Below
    <3> QED
      BY <3>1, <3>2
  <2> SUFFICES s >= head_'[i] /\ y = D2[i] + 1 - Pending(i)' + e
    BY <1>1, <1>8, <2>4 DEF InTime
  <2> HIDE DEF D, D2, e, y
  <2>6. CASE i = l /\ key \in front /\ key.slot[l] = s
    <3>1. InTime(up, h, key)
      BY <1>2, <1>3, <2>6 DEF IInv, Timed
    <3>2. y = D[up] + 1 - t + e
      BY <1>2, <1>8, <1>19, <3>1 DEF InTime, D, y, e
    <3>3. D[up] = D[l] + t
      <4>1. key.slot[up] = h
        BY <1>2, <1>3, <2>6 DEF IInv, Placed
      <4>2. (h - h) + 1 = 1 /\ 1 * t = t
        BY <1>6, <2>5
      <4> QED
        BY <2>2, <4>1, <4>2
    <3>4. D2[i] = D[l] /\ Pending(i)' = 0
      <4>1. i < up /\ ~(i > up)
        BY <1>2, <2>6 DEF up
      <4> QED
        BY <1>19, <2>2, <2>3, <2>6, <4>1
    <3>5. s >= head_'[i]
      BY <1>1, <1>2, <1>5, <2>5, <2>6
    <3>6. y = D2[i] + 1 - 0 + e
      BY <1>2, <1>6, <2>2, <2>4, <3>2, <3>3, <3>4
    <3> QED
      BY <3>4, <3>5, <3>6
  <2>7. CASE key \in wheels_[i][s] /\ ~(i = up /\ s = h)
    <3>1. InTime(i, s, key)
      BY <2>7 DEF IInv, Timed
    <3>2. s >= head_[i] /\ y = D[i] + 1 - Pending(i) + e
      BY <1>8, <3>1 DEF InTime, D, y, e
    <3>3. CASE i < up
      <4>1. i # up /\ ~(i >= up) /\ ~(i > up)
        BY <1>2, <2>5, <3>3
      <4>2. Pending(i) = 0 /\ Pending(i)' = 0 /\ D2[i] = D[i] /\ head_'[i] = head_[i]
        BY <1>5, <1>19, <2>2, <2>3, <3>3, <4>1
      <4> QED
        BY <3>2, <4>2
    <3>4. CASE i >= up
      <4> DEFINE p == Pending(i)'
      <4>1. p = IF i > up /\ x = 0 THEN t2 ELSE 0
        BY <1>19
      <4>2. y = D[i] + 1 - t + e
        BY <1>19, <3>2, <3>4
      <4>3. ~(i < up)
        BY <1>2, <2>5, <3>4
      <4>4. D2[i] = D[i] + (h - x) * t
        BY <2>3, <4>3
      <4>5. i = up => h # W - 1 /\ s >= x
        <5> SUFFICES ASSUME i = up PROVE h # W - 1 /\ s >= x
          OBVIOUS
        <5>1. s >= h /\ s # h
          BY <2>7, <3>2 DEF h
        <5> QED
          BY <1>2, <2>5, <5>1 DEF x
      <4>6. s >= head_'[i]
        BY <1>5, <3>2, <4>5
      <4>7. CASE h = W - 1
        <5>1. i > up /\ x = 0 /\ p = t2
          BY <1>2, <2>5, <3>4, <4>1, <4>5, <4>7 DEF x
        <5>2. (h - x) * t = t2 - t
          BY <1>2, <1>6, <4>7, <5>1
        <5>3. t2 \in Int
          BY <1>2, <1>6
        <5> HIDE DEF p
        <5>4. y = D2[i] + 1 - p + e
          BY <1>6, <2>2, <2>4, <2>5, <4>2, <4>4, <5>1, <5>2, <5>3
        <5> QED
          BY <4>6, <5>4 DEF p
      <4>8. CASE h # W - 1
        <5>1. x = h + 1 /\ p = 0
          BY <2>5, <4>1, <4>8 DEF x
        <5>2. (h - x) * t = -t
          BY <1>6, <2>5, <5>1
        <5> HIDE DEF p
        <5>4. y = D2[i] + 1 - p + e
          BY <1>6, <2>2, <2>4, <2>5, <4>2, <4>4, <5>1, <5>2
        <5> QED
          BY <4>6, <5>4 DEF p
      <4> QED
        BY <4>7, <4>8
    <3> QED
      BY <1>2, <2>5, <3>3, <3>4
  <2> QED
    BY <1>10, <2>6, <2>7
<1> QED
  BY <1>12, <1>13, <1>14, <1>15, <1>16, <1>17, <1>18, <1>20 DEF IInv

-----------------------------------------------------------------------------
(* The theorems. *)

LEMMA Start ==
    ASSUME Init
    PROVE  IInv
<1>1. /\ head_ = [i \in Levels |-> 0]
      /\ wheels_ = [i \in Levels |-> [s \in Slots |-> {}]]
      /\ timers_ = <<>> /\ uuid_ = 0 /\ alive = Services /\ pc = "idle"
      /\ slot = 0 /\ level = 0 /\ due = <<>> /\ lost = {}
  BY DEF Init
<1>2. 0 \in Levels /\ 0 \in Slots
  BY Constants DEF Slots
<1>3. \A i \in Levels : \A s \in Slots : wheels_[i][s] = {}
  BY <1>1
<1>4. Live = {} /\ ~Calling /\ ~Expiring
  BY <1>1 DEF Live, Calling, Expiring
<1>5. TypeOK
  <2>1. due \in [Live -> Int]
    BY <1>1, <1>4
  <2> QED
    BY <1>1, <1>2, <1>4, <2>1 DEF TypeOK
<1>6. Phase /\ LostLong /\ CurTimed
  BY <1>1, <1>4 DEF Phase, LostLong, CurTimed
<1>7. Placed /\ Single /\ Known /\ Present /\ Timed
  BY <1>3, <1>4 DEF Placed, Single, Known, Present, Timed
<1> QED
  BY <1>5, <1>6, <1>7 DEF IInv

LEMMA StepIdle ==
    ASSUME IInv, UNCHANGED vars
    PROVE  IInv'
<1>1. UNCHANGED <<head_, wheels_, timers_, uuid_, alive, pc, slot, level, cur, due, lost,
                  wrapped>>
  BY DEF vars, wheelVars, tickVars
<1>2. Live' = Live /\ (Expiring' <=> Expiring) /\ (Calling' <=> Calling)
  BY <1>1 DEF Live, Expiring, Calling
<1>3. /\ \A x : Early(x)' = Early(x)
      /\ \A i \in Levels : Pending(i)' = Pending(i)
  BY <1>1 DEF Early, Pending
<1>4. \A x : Waits(x)' <=> Waits(x)
  BY <1>1, <1>2 DEF Waits
<1>5. Quiet
  BY <1>1, <1>2, <1>3, <1>4 DEF Quiet, IInv, LostLong
<1>6. TypeOK' /\ Phase' /\ CurTimed'
  BY <1>1, <1>2, <1>3 DEF IInv, TypeOK, Phase, CurTimed, Early
<1> QED
  BY <1>5, <1>6, QuietKeeps DEF IInv

LEMMA Step ==
    ASSUME IInv, [Next]_vars
    PROVE  IInv'
<1>1. CASE UpdateStep
  BY <1>1, StepTick, StepExpire, StepPutBack, StepUseUp, StepErase, StepExpired,
     StepTickDone, StepCascade DEF UpdateStep
<1>2. CASE \E d \in Durations, n \in Times, s \in Services : Repeat(d, n, s)
  BY <1>2, StepRepeat
<1>3. CASE \E id \in Live : Remove(id)
  BY <1>3, StepRemove
<1>4. CASE \E s \in Services : DestroyService(s)
  BY <1>4, StepDestroyService
<1>5. CASE UNCHANGED vars
  BY <1>5, StepIdle
<1> QED
  BY <1>1, <1>2, <1>3, <1>4, <1>5 DEF Next

\* The inductive invariant.
LEMMA Inductive == SafeSpec => []IInv
<1>1. Init => IInv
  BY Start
<1>2. IInv /\ [Next]_vars => IInv'
  BY Step
<1> QED
  BY <1>1, <1>2, PTL DEF SafeSpec

\* The types hold.
THEOREM TypeCorrect == SafeSpec => []TypeOK
<1>1. IInv => TypeOK
  BY DEF IInv
<1> QED
  BY <1>1, Inductive, PTL

LEMMA OnePlace ==
    ASSUME IInv, NEW id \in Live
    PROVE  Cardinality(Places(id)) =
               IF id \in lost \/ (pc \in {"callback", "final"} /\ id = cur) THEN 0 ELSE 1
<1> DEFINE Out == id \in lost \/ (pc \in {"callback", "final"} /\ id = cur)
<1>1. ASSUME NEW p \in Places(id)
      PROVE  /\ p[1] \in Levels /\ p[2] \in Slots
             /\ p[3] \in wheels_[p[1]][p[2]] /\ p[3].id = id
             /\ p = <<p[1], p[2], p[3]>>
  BY <1>1 DEF Places
<1>2. CASE Out
  <2>1. ASSUME NEW p \in Places(id) PROVE FALSE
    <3>1. p[1] \in Levels /\ p[2] \in Slots /\ p[3] \in wheels_[p[1]][p[2]] /\ p[3].id = id
      BY <1>1
    <3> QED
      BY <1>2, <3>1 DEF IInv, Known, Calling
  <2>2. Places(id) = {}
    BY <2>1
  <2> QED
    BY <1>2, <2>2, FS_EmptySet
<1>3. CASE ~Out
  <2>1. PICK i \in Levels : \E s \in Slots : \E key \in wheels_[i][s] : key.id = id
    BY <1>3 DEF IInv, Present, Calling
  <2>2. PICK s \in Slots : \E key \in wheels_[i][s] : key.id = id
    BY <2>1
  <2>3. PICK key \in wheels_[i][s] : key.id = id
    BY <2>2
  <2> DEFINE at == <<i, s, key>>
  <2>4. at \in Places(id)
    <3>1. key \in Keys
      BY DEF Keys
    <3>2. at \in Levels \X Slots \X Keys
      BY <3>1
    <3> QED
      BY <2>3, <3>2 DEF Places
  <2>5. ASSUME NEW p \in Places(id)
        PROVE  p = at
    <3>1. /\ p[1] \in Levels /\ p[2] \in Slots /\ p[3] \in wheels_[p[1]][p[2]]
          /\ p[3].id = id /\ p = <<p[1], p[2], p[3]>>
      BY <1>1
    <3>2. p[1] = i /\ p[2] = s /\ p[3] = key
      BY <2>3, <3>1 DEF IInv, Single
    <3> QED
      BY <3>1, <3>2
  <2> HIDE DEF at
  <2>6. Places(id) = {at}
    BY <2>4, <2>5
  <2> QED
    BY <1>3, <2>6, FS_Singleton
<1> QED
  BY <1>2, <1>3

\* insert_timer, expired and cascade never lose or double a key, and a timer number is
\* never given to a new timer while a key with it is left in a wheel: every timer of
\* the table has one key in one slot, except while its callback runs and except those
\* that insert_timer() has put nowhere, which are overflows and very long ones.
THEOREM EveryTimerOneKey == SafeSpec => []OneKeyPerTimer
<1>1. ASSUME IInv
      PROVE  OneKeyPerTimer
  <2>1. \A id \in Live :
            Cardinality(Places(id)) =
                IF id \in lost \/ (pc \in {"callback", "final"} /\ id = cur) THEN 0 ELSE 1
    BY <1>1, OnePlace
  <2>2. \A key \in Keys : key.id \in Live
    BY <1>1 DEF IInv, Known, Keys
  <2>3. \A id \in lost :
            \/ Overflows(timers_[id].duration)
            \/ TicksOf(timers_[id].duration) > SlotTicks[Wheels - 1]
    BY <1>1 DEF IInv, LostLong
  <2> QED
    BY <2>1, <2>2, <2>3 DEF OneKeyPerTimer
<1> QED
  BY <1>1, Inductive, PTL

\* However the wheels are sized and whatever scripts set in callbacks, no timer of the
\* wheels is overdue between two calls of update().
THEOREM TimersAreNeverLate == SafeSpec => []NeverLate
<1>1. ASSUME IInv
      PROVE  NeverLate
  <2> SUFFICES ASSUME pc = "idle", NEW id \in Live, id \notin lost
               PROVE  due[id] > 0
    BY DEF NeverLate
  <2>1. PICK i \in Levels : \E s \in Slots : \E key \in wheels_[i][s] : key.id = id
    BY <1>1 DEF IInv, Present, Calling
  <2>2. PICK s \in Slots : \E key \in wheels_[i][s] : key.id = id
    BY <2>1
  <2>3. PICK key \in wheels_[i][s] : key.id = id
    BY <2>2
  <2> DEFINE D == Distance(key.slot, head_)[i]
             e == Early(id)
  <2>4. due[id] = D + 1 + e /\ D \in Nat
    BY <1>1, <2>3, NotOverdue
  <2>5. e \in Nat
    BY <1>1, Numbers DEF IInv
  <2> HIDE DEF D, e
  <2> QED
    BY <2>4, <2>5
<1> QED
  BY <1>1, Inductive, PTL

\* A callback runs in the tick its timer is due, or, when the timer was set for a full
\* turn or more in the tick that turned wheel 0 over, one turn before.
THEOREM EarlyByOneTurnOnly == SafeSpec => []EarlyOnlyAfterWrap
<1>1. IInv => EarlyOnlyAfterWrap
  BY DEF IInv, CurTimed, Calling, Early, EarlyOnlyAfterWrap
<1> QED
  BY <1>1, Inductive, PTL

=============================================================================
