---------------------------- MODULE StreamProofs ----------------------------
(***************************************************************************)
(* Proofs about the two modules of byte streams: Buffer, for any bytes,    *)
(* capacities and bounds, and LuaSerialize, for any heap of tables, any    *)
(* arguments, any base and any limits.                                     *)
(*                                                                         *)
(* Both recur: next_pow2, the powers of Base, the bytes of a number, what  *)
(* tables contain, and what they write.  The provers cannot instantiate    *)
(* the library's induction theorems, which have operators as parameters,   *)
(* but the well-foundedness of the naturals is stated with sets: every set *)
(* of numbers has a least element (LeastNumber), and the counterexamples   *)
(* to what is to be shown are such a set.                                  *)
(*                                                                         *)
(* Three invariants carry the serialisation.  RefusedInv says that what is *)
(* behind the walk through the arguments was supported and not too deep;   *)
(* FlattenInv, that the text is what is behind it, written flat.  RoundInv *)
(* keeps a trace: a mark for each step of pack, with the place of the walk *)
(* and of the stream, between which the stream holds what that step wrote. *)
(* The reader goes from mark to mark, and what it has read by then is a    *)
(* copy of what is behind that place of the walk (Match).                  *)
(***************************************************************************)
EXTENDS Buffer, LuaSerialize, SequenceTheorems, NaturalsInduction, WellFoundedInduction, TLAPS

-----------------------------------------------------------------------------
(* Induction and recursion, stated with sets and functions. *)

LEMMA LeastNumber ==
    ASSUME NEW T, T \subseteq Nat, T # {}
    PROVE  \E x \in T : \A y \in T : x <= y
<1>1. PICK x \in T : \A y \in T : ~(<<y, x>> \in OpToRel(<, Nat))
  BY NatLessThanWellFounded, WFMin
<1>2. ASSUME NEW y \in T
      PROVE  x <= y
  <2>1. x \in Nat /\ y \in Nat /\ ~(y < x)
    BY <1>1 DEF OpToRel
  <2> QED
    BY <2>1
<1> QED
  BY <1>2

\* A set that holds 0 and with a number the next one holds all of them.
LEMMA Climb ==
    ASSUME NEW N \in Nat, NEW S, 0 \in S, \A i \in 0..(N - 1) : i \in S => i + 1 \in S
    PROVE  0..N \subseteq S
<1> DEFINE T == (0..N) \ S
<1> SUFFICES ASSUME T # {} PROVE FALSE
  OBVIOUS
<1>0. T \subseteq Nat
  OBVIOUS
<1>1. PICK x \in T : \A y \in T : x <= y
  <2> HIDE DEF T
  <2> QED
    BY <1>0, LeastNumber
<1>2. x \in 0..N /\ x \notin S /\ x # 0
  OBVIOUS
<1>3. x - 1 \in 0..(N - 1) /\ x - 1 \in 0..N /\ (x - 1) + 1 = x
  BY <1>2
<1>4. x - 1 \notin T
  BY <1>1, <1>3
<1> QED
  BY <1>2, <1>3, <1>4

\* f starts with base and goes on by step, up to n, in the set X.
Iterates(f, X, n, base, step) ==
    /\ f \in [0..n -> X]
    /\ f[0] = base
    /\ \A i \in 1..n : f[i] = step[i][f[i - 1]]

LEMMA Recursion ==
    ASSUME NEW N \in Nat, NEW X, NEW base \in X, NEW step \in [1..N -> [X -> X]]
    PROVE  \E f : Iterates(f, X, N, base, step)
<1> DEFINE S == {n \in 0..N : \E f : Iterates(f, X, n, base, step)}
<1>1. 0 \in S
  <2>1. Iterates([i \in 0..0 |-> base], X, 0, base, step)
    BY DEF Iterates
  <2> QED
    BY <2>1
<1>2. ASSUME NEW n \in 0..(N - 1), n \in S
      PROVE  n + 1 \in S
  <2>1. PICK f : Iterates(f, X, n, base, step)
    BY <1>2
  <2> DEFINE x == step[n + 1][f[n]]
             g == [i \in 0..(n + 1) |-> IF i = n + 1 THEN x ELSE f[i]]
  <2>2. n \in Nat /\ f[n] \in X /\ n + 1 \in 1..N
    BY <2>1 DEF Iterates
  <2>3. x \in X
    BY <2>2
  <2> HIDE DEF x
  <2>4. g \in [0..(n + 1) -> X] /\ g[0] = base
    BY <2>1, <2>2, <2>3 DEF Iterates
  <2>5. ASSUME NEW i \in 1..(n + 1)
        PROVE  g[i] = step[i][g[i - 1]]
    <3>1. CASE i = n + 1
      <4>1. i - 1 = n /\ n \in 0..(n + 1) /\ n # n + 1
        BY <2>2, <3>1
      <4>2. g[i] = x /\ g[i - 1] = f[n]
        BY <3>1, <4>1
      <4> QED
        BY <3>1, <4>2 DEF x
    <3>2. CASE i # n + 1
      <4>1. i \in 1..n /\ i \in 0..(n + 1) /\ i - 1 \in 0..(n + 1) /\ i - 1 # n + 1
        BY <2>2, <3>2
      <4>2. g[i] = f[i] /\ g[i - 1] = f[i - 1]
        BY <3>2, <4>1
      <4> QED
        BY <2>1, <4>1, <4>2 DEF Iterates
    <3> QED
      BY <3>1, <3>2
  <2>6. Iterates(g, X, n + 1, base, step) /\ n + 1 \in 0..N
    <3> HIDE DEF g
    <3> QED
      BY <2>2, <2>4, <2>5 DEF Iterates
  <2> QED
    BY <2>6
<1> HIDE DEF S
<1>3. 0..N \subseteq S
  BY <1>1, <1>2, Climb
<1>4. N \in S
  BY <1>3
<1> QED
  BY <1>4 DEF S

LEMMA Division ==
    ASSUME NEW m \in Nat \ {0}, NEW x \in Int
    PROVE  x \div m \in Int /\ x % m \in 0..(m - 1) /\ x = ((x \div m) * m) + (x % m)
OBVIOUS

\* Division with rest.
LEMMA RestIs ==
    ASSUME NEW m \in Nat \ {0}, NEW q \in Int, NEW r \in 0..(m - 1)
    PROVE  (q * m + r) % m = r /\ (q * m + r) \div m = q
<1> DEFINE a == q * m + r
           d == a \div m
           e == a % m
<1>1. a \in Int /\ a = d * m + e /\ d \in Int /\ e \in 0..(m - 1)
  OBVIOUS
<1> DEFINE z == q - d
<1>2. z * m = e - r /\ z \in Int /\ e - r < m /\ e - r > -m
  BY <1>1
<1> HIDE DEF z, a, d, e
<1>3. z >= 1 => z * m >= m
  BY <1>2
<1>4. z <= -1 => z * m <= -m
  BY <1>2
<1>5. z = 0
  BY <1>1, <1>2, <1>3, <1>4
<1> QED
  BY <1>1, <1>2, <1>5 DEF a, d, e, z

LEMMA SmallRest ==
    ASSUME NEW m \in Nat \ {0}, NEW r \in 0..(m - 1)
    PROVE  r % m = r /\ (r - m) % m = r
<1>1. 0 * m + r = r /\ (-1) * m + r = r - m /\ -1 \in Int
  OBVIOUS
<1> QED
  BY <1>1, RestIs

\* Division by a product.
LEMMA RestOfProduct ==
    ASSUME NEW P \in Nat \ {0}, NEW B \in Nat \ {0}, NEW x \in Int
    PROVE  x % (B * P) = (x % P) + ((x \div P) % B) * P
<1> DEFINE q == x \div P
           r == x % P
           c == q \div B
           d == q % B
<1>1. x = q * P + r /\ q \in Int /\ r \in 0..(P - 1)
  BY Division
<1>2. q = c * B + d /\ c \in Int /\ d \in 0..(B - 1)
  BY <1>1, Division
<1> HIDE DEF q, r, c, d
<1>3. d * P \in Nat /\ d * P <= (B - 1) * P
  BY <1>2
<1>4. d * P + r \in 0..(B * P - 1)
  BY <1>1, <1>2, <1>3
<1>5. B * P \in Nat \ {0}
  OBVIOUS
<1>6. x = c * (B * P) + (d * P + r)
  <2>1. q * P = c * (B * P) + d * P
    BY <1>2
  <2> QED
    BY <1>1, <1>2, <2>1
<1>7. x % (B * P) = d * P + r
  <2> DEFINE m == B * P
             s == d * P + r
  <2>1. m \in Nat \ {0} /\ s \in 0..(m - 1) /\ x = c * m + s
    BY <1>4, <1>5, <1>6
  <2> HIDE DEF m, s
  <2>2. x % m = s
    BY <1>2, <2>1, RestIs
  <2> QED
    BY <2>2 DEF m, s
<1>8. d * P \in Int
  BY <1>3
<1> QED
  BY <1>1, <1>7, <1>8 DEF q, r, c, d

-----------------------------------------------------------------------------
(* next_pow2. *)

Half(x) == (x + 1) \div 2

LEMMA HalfIsLess ==
    ASSUME NEW x \in Nat, x > 1
    PROVE  Half(x) \in Nat /\ Half(x) > 0 /\ Half(x) < x /\ x <= 2 * Half(x) /\ 2 * Half(x) <= x + 1
BY DEF Half

\* g is next_pow2 as far as n.
Upto(g, n) ==
    /\ g \in [0..n -> Nat]
    /\ \A x \in 0..n : g[x] = IF x <= 1 THEN x ELSE 2 * g[Half(x)]

LEMMA UptoUnique ==
    ASSUME NEW n \in Nat, NEW m \in Nat, NEW g, NEW h, Upto(g, n), Upto(h, m)
    PROVE  \A x \in Nat : x <= n /\ x <= m => g[x] = h[x]
<1> DEFINE T == {x \in Nat : x <= n /\ x <= m /\ g[x] # h[x]}
<1> SUFFICES ASSUME T # {} PROVE FALSE
  OBVIOUS
<1>1. PICK x \in T : \A y \in T : x <= y
  BY LeastNumber
<1>2. x \in Nat /\ x \in 0..n /\ x \in 0..m /\ g[x] # h[x]
  OBVIOUS
<1>3. CASE x <= 1
  BY <1>2, <1>3 DEF Upto
<1>4. CASE x > 1
  <2>1. Half(x) \in Nat /\ Half(x) < x
    BY <1>2, <1>4, HalfIsLess
  <2>2. Half(x) \notin T /\ Half(x) <= n /\ Half(x) <= m
    BY <1>1, <1>2, <2>1
  <2>3. g[Half(x)] = h[Half(x)]
    BY <2>1, <2>2
  <2>4. g[x] = 2 * g[Half(x)] /\ h[x] = 2 * h[Half(x)]
    BY <1>2, <1>4 DEF Upto
  <2> QED
    BY <1>2, <2>3, <2>4
<1> QED
  BY <1>2, <1>3, <1>4

LEMMA UptoExists == \A n \in Nat : \E g : Upto(g, n)
<1> DEFINE T == {n \in Nat : ~ \E g : Upto(g, n)}
<1> SUFFICES ASSUME T # {} PROVE FALSE
  OBVIOUS
<1>1. PICK n \in T : \A y \in T : n <= y
  BY LeastNumber
<1>2. CASE n = 0
  <2> DEFINE h == [x \in 0..0 |-> 0]
  <2>1. Upto(h, 0)
    BY DEF Upto
  <2> QED
    BY <1>2, <2>1
<1>3. CASE n > 0
  <2>1. n - 1 \in Nat /\ n - 1 \notin T
    BY <1>1, <1>3
  <2>2. PICK g : Upto(g, n - 1)
    BY <2>1
  <2> DEFINE last == IF n <= 1 THEN n ELSE 2 * g[Half(n)]
             h == [x \in 0..n |-> IF x < n THEN g[x] ELSE last]
  <2>3. last \in Nat /\ (n > 1 => Half(n) \in 0..n - 1)
    <3>1. n \in Nat
      OBVIOUS
    <3>2. n > 1 => Half(n) \in 0..n - 1
      BY <3>1, HalfIsLess
    <3>3. n > 1 => g[Half(n)] \in Nat
      BY <2>2, <3>2 DEF Upto
    <3> QED
      BY <3>1, <3>2, <3>3
  <2> HIDE DEF last
  <2>4. h \in [0..n -> Nat]
    BY <2>2, <2>3 DEF Upto
  <2>5. ASSUME NEW x \in 0..n
        PROVE  h[x] = IF x <= 1 THEN x ELSE 2 * h[Half(x)]
    <3>1. CASE x < n
      <4>1. x \in 0..n - 1 /\ h[x] = g[x]
        BY <3>1
      <4>2. g[x] = IF x <= 1 THEN x ELSE 2 * g[Half(x)]
        BY <2>2, <4>1 DEF Upto
      <4>3. x > 1 => Half(x) \in 0..n /\ Half(x) < n
        BY <3>1, HalfIsLess
      <4> QED
        BY <4>1, <4>2, <4>3
    <3>2. CASE x = n
      <4>1. h[x] = last
        BY <3>2
      <4>2. n > 1 => h[Half(n)] = g[Half(n)]
        BY <2>3
      <4> QED
        BY <3>2, <4>1, <4>2 DEF last
    <3> QED
      BY <3>1, <3>2
  <2>6. Upto(h, n)
    BY <2>4, <2>5 DEF Upto
  <2> QED
    BY <1>1, <2>6
<1> QED
  BY <1>1, <1>2, <1>3

LEMMA NextPow2Def ==
    next_pow2 = [x \in Nat |-> IF x <= 1 THEN x ELSE 2 * next_pow2[Half(x)]]
<1> DEFINE G(n) == CHOOSE g : Upto(g, n)
           F == [n \in Nat |-> G(n)[n]]
<1>1. \A n \in Nat : Upto(G(n), n)
  BY UptoExists
<1>2. ASSUME NEW x \in Nat
      PROVE  F[x] = IF x <= 1 THEN x ELSE 2 * F[Half(x)]
  <2>1. F[x] = G(x)[x] /\ x \in 0..x /\ Upto(G(x), x)
    BY <1>1
  <2>2. G(x)[x] = IF x <= 1 THEN x ELSE 2 * G(x)[Half(x)]
    BY <2>1 DEF Upto
  <2>3. CASE x <= 1
    BY <2>1, <2>2, <2>3
  <2>4. CASE x > 1
    <3>1. Half(x) \in Nat /\ Half(x) <= x /\ Half(x) <= Half(x)
      BY <2>4, HalfIsLess
    <3>2. F[Half(x)] = G(Half(x))[Half(x)] /\ Upto(G(Half(x)), Half(x))
      BY <1>1, <3>1
    <3> HIDE DEF G, F
    <3>3. G(x)[Half(x)] = G(Half(x))[Half(x)]
      BY <2>1, <3>1, <3>2, UptoUnique
    <3> QED
      BY <2>1, <2>2, <2>4, <3>2, <3>3
  <2> QED
    BY <2>3, <2>4
<1>3. F = [x \in Nat |-> IF x <= 1 THEN x ELSE 2 * F[Half(x)]]
  <2>1. F = [n \in Nat |-> F[n]]
    OBVIOUS
  <2> HIDE DEF F
  <2> QED
    BY <1>2, <2>1
<1> HIDE DEF F
<1>4. \E f : f = [x \in Nat |-> IF x <= 1 THEN x ELSE 2 * f[Half(x)]]
  BY <1>3
<1> QED
  BY <1>4 DEF next_pow2, Half

\* What grows is large enough, and less than twice what is needed.
LEMMA NextPow2Fits ==
    ASSUME NEW x \in Nat
    PROVE  next_pow2[x] \in Nat /\ x <= next_pow2[x] /\ (x > 0 => next_pow2[x] < 2 * x)
<1> DEFINE Enough(y) == next_pow2[y] \in Nat /\ y <= next_pow2[y]
                      /\ (y > 0 => next_pow2[y] <= 2 * y - 1) /\ (y > 1 => next_pow2[y] <= 2 * (y - 1))
           T == {y \in Nat : ~Enough(y)}
<1>1. \A y \in Nat : next_pow2[y] = IF y <= 1 THEN y ELSE 2 * next_pow2[Half(y)]
  BY NextPow2Def
<1>2. SUFFICES ASSUME T # {} PROVE FALSE
  OBVIOUS
<1>3. PICK y \in T : \A z \in T : y <= z
  BY <1>2, LeastNumber
<1>4. y \in Nat /\ ~Enough(y)
  OBVIOUS
<1>5. CASE y <= 1
  BY <1>1, <1>4, <1>5
<1>6. CASE y > 1
  <2>1. Half(y) \in Nat /\ Half(y) > 0 /\ Half(y) < y /\ y <= 2 * Half(y) /\ 2 * Half(y) <= y + 1
    BY <1>4, <1>6, HalfIsLess
  <2>2. Enough(Half(y))
    BY <1>3, <1>4, <2>1
  <2>3. next_pow2[y] = 2 * next_pow2[Half(y)]
    BY <1>1, <1>4, <1>6
  <2>4. CASE Half(y) = 1
    BY <1>4, <1>6, <2>1, <2>2, <2>3, <2>4
  <2>5. CASE Half(y) > 1
    BY <1>4, <1>6, <2>1, <2>2, <2>3, <2>5
  <2> QED
    BY <2>1, <2>4, <2>5
<1> QED
  BY <1>4, <1>5, <1>6

-----------------------------------------------------------------------------
(* The blocks of memory. *)

Octets == Byte \cup {Junk}

\* A block of c bytes keeps the first n of d.
LEMMA BlockIs ==
    ASSUME NEW d, NEW n \in Nat, NEW c \in Nat,
           \A i \in 1..n : d[i] \in Octets
    PROVE  /\ Block(d, n, c) \in Seq(Octets)
           /\ Len(Block(d, n, c)) = c
           /\ \A i \in 1..c : i <= n => Block(d, n, c)[i] = d[i]
<1> DEFINE e(i) == IF i <= n THEN d[i] ELSE Junk
           b == [i \in 1..c |-> e(i)]
<1>1. Block(d, n, c) = b
  BY DEF Block
<1>2. \A i \in 1..c : e(i) \in Octets
  BY DEF Octets
<1>3. b \in Seq(Octets)
  <2> HIDE DEF e
  <2> QED
    BY <1>2, IsASeq
<1>4. DOMAIN b = 1..c /\ \A i \in 1..c : b[i] = e(i)
  OBVIOUS
<1> HIDE DEF b
<1>5. Len(b) = c
  BY <1>3, <1>4, LenProperties
<1> QED
  BY <1>1, <1>3, <1>4, <1>5

\* Putting bytes into a block changes these and not its size.
LEMMA PutIs ==
    ASSUME NEW d \in Seq(Octets), NEW p \in Nat, NEW s \in Seq(Octets)
    PROVE  /\ Put(d, p, s) \in Seq(Octets)
           /\ Len(Put(d, p, s)) = Len(d)
           /\ \A i \in 1..Len(d) :
                /\ i <= p \/ i > p + Len(s) => Put(d, p, s)[i] = d[i]
                /\ i > p /\ i <= p + Len(s) => Put(d, p, s)[i] = s[i - p]
<1>1. /\ Len(d) \in Nat /\ DOMAIN d = 1..Len(d) /\ \A i \in 1..Len(d) : d[i] \in Octets
      /\ Len(s) \in Nat /\ DOMAIN s = 1..Len(s) /\ \A i \in 1..Len(s) : s[i] \in Octets
  BY LenProperties
<1> DEFINE e(i) == IF i - p \in 1..Len(s) THEN s[i - p] ELSE d[i]
           b == [i \in 1..Len(d) |-> e(i)]
<1>2. Put(d, p, s) = b
  BY <1>1 DEF Put
<1>3. \A i \in 1..Len(d) : e(i) \in Octets
  BY <1>1
<1>4. b \in Seq(Octets)
  <2> HIDE DEF e
  <2> QED
    BY <1>1, <1>3, IsASeq
<1>5. DOMAIN b = 1..Len(d) /\ \A i \in 1..Len(d) : b[i] = e(i)
  OBVIOUS
<1>6. \A i \in 1..Len(d) :
        /\ i <= p \/ i > p + Len(s) => e(i) = d[i]
        /\ i > p /\ i <= p + Len(s) => e(i) = s[i - p]
  BY <1>1
<1> HIDE DEF b, e
<1>7. Len(b) = Len(d)
  BY <1>1, <1>4, <1>5, LenProperties
<1> QED
  BY <1>2, <1>4, <1>5, <1>6, <1>7

\* The part of a block from a to z.
LEMMA SidePart ==
    ASSUME NEW d \in Seq(Octets), NEW a \in Nat, NEW z \in Nat, a <= z, z <= Len(d)
    PROVE  /\ SubSeq(d, a + 1, z) \in Seq(Octets)
           /\ Len(SubSeq(d, a + 1, z)) = z - a
           /\ \A i \in 1..z - a : SubSeq(d, a + 1, z)[i] = d[a + i]
<1> DEFINE m == a + 1
<1>1. m \in Int /\ z \in Int /\ \A i \in m..z : d[i] \in Octets
  BY LenProperties
<1>2. m = a + 1
  OBVIOUS
<1> HIDE DEF m
<1>3. /\ SubSeq(d, m, z) \in Seq(Octets)
      /\ Len(SubSeq(d, m, z)) = IF m <= z THEN z - m + 1 ELSE 0
      /\ \A i \in 1..z - m + 1 : SubSeq(d, m, z)[i] = d[m + i - 1]
  BY <1>1, SubSeqProperties
<1>4. \A i \in 1..z - a : SubSeq(d, m, z)[i] = d[a + i]
  <2> TAKE i \in 1..z - a
  <2>1. i \in 1..z - m + 1 /\ m + i - 1 = a + i
    BY <1>2
  <2> QED
    BY <1>3, <2>1
<1> QED
  BY <1>2, <1>3, <1>4 DEF m

\* Compacting moves the bytes from rd to wr down to h.
LEMMA MovedIs ==
    ASSUME NEW d \in Seq(Octets), NEW h \in Nat, NEW rd \in Nat, NEW wr \in Nat,
           h <= rd, rd <= wr, wr <= Len(d)
    PROVE  /\ Moved(d, h, rd, wr) \in Seq(Octets)
           /\ Len(Moved(d, h, rd, wr)) = Len(d)
           /\ \A i \in 1..h : Moved(d, h, rd, wr)[i] = d[i]
           /\ \A i \in 1..wr - rd : Moved(d, h, rd, wr)[h + i] = d[rd + i]
<1> DEFINE s == SubSeq(d, rd + 1, wr)
<1>1. /\ s \in Seq(Octets) /\ Len(s) = wr - rd
      /\ \A i \in 1..wr - rd : s[i] = d[rd + i]
  BY SidePart
<1>2. Moved(d, h, rd, wr) = Put(d, h, s)
  BY DEF Moved
<1>3. Len(d) \in Nat
  BY LenProperties
<1> HIDE DEF s
<1> DEFINE q == Put(d, h, s)
<1>4. /\ q \in Seq(Octets) /\ Len(q) = Len(d)
      /\ \A i \in 1..Len(d) :
            /\ i <= h \/ i > h + Len(s) => q[i] = d[i]
            /\ i > h /\ i <= h + Len(s) => q[i] = s[i - h]
  BY <1>1, PutIs
<1> HIDE DEF q
<1>5. \A i \in 1..h : q[i] = d[i]
  BY <1>3, <1>4
<1>6. ASSUME NEW i \in 1..wr - rd
      PROVE  q[h + i] = d[rd + i]
  <2>1. h + i \in 1..Len(d) /\ h + i > h /\ h + i <= h + Len(s) /\ (h + i) - h = i
    BY <1>1, <1>3
  <2> QED
    BY <1>1, <1>4, <2>1
<1> QED
  BY <1>2, <1>4, <1>5, <1>6 DEF q

-----------------------------------------------------------------------------
(* check_space. *)

\* The buffer holds the bytes 1 to rd of data_ or fewer in front, the bytes rd + 1 to wr
\* behind them, and then those of s.
HoldsData(h, rd, wr, s) ==
    /\ data_' \in Seq(Octets)
    /\ capacity_' = Len(data_') /\ capacity_' >= capacity_
    /\ readpos_' \in Nat
    /\ writepos_' = readpos_' + (wr - rd) + Len(s) /\ writepos_' <= capacity_'
    /\ readpos_' = rd \/ (readpos_' = h /\ h < rd)
    /\ \A i \in 1..readpos_' : data_'[i] = data_[i]
    /\ \A i \in 1..wr - rd : data_'[readpos_' + i] = data_[rd + i]
    /\ \A i \in 1..Len(s) : data_'[readpos_' + (wr - rd) + i] = s[i]

\* d is a block with the old contents from r to w, and s is put behind them.
Stores(h, rd, wr, s, r, w, d) ==
    /\ r \in Nat /\ w \in Nat /\ d \in Seq(Octets)
    /\ Len(d) >= capacity_ /\ w + Len(s) <= Len(d)
    /\ w = r + (wr - rd)
    /\ r = rd \/ (r = h /\ h < rd)
    /\ \A i \in 1..r : d[i] = data_[i]
    /\ \A i \in 1..wr - rd : d[r + i] = data_[rd + i]
    /\ readpos_' = r
    /\ writepos_' = w + Len(s)
    /\ data_' = Put(d, w, s)
    /\ capacity_' = Len(d)

LEMMA StoreHolds ==
    ASSUME NEW h \in Nat, NEW rd \in Nat, NEW wr \in Nat, rd <= wr, NEW s \in Seq(Octets),
           capacity_ \in Nat, NEW r, NEW w, NEW d, Stores(h, rd, wr, s, r, w, d)
    PROVE  HoldsData(h, rd, wr, s)
<1> r \in Nat /\ w \in Nat /\ d \in Seq(Octets)
  BY DEF Stores
<1> DEFINE q == Put(d, w, s)
<1>1. /\ q \in Seq(Octets) /\ Len(q) = Len(d)
      /\ \A i \in 1..Len(d) :
            /\ i <= w \/ i > w + Len(s) => q[i] = d[i]
            /\ i > w /\ i <= w + Len(s) => q[i] = s[i - w]
  BY PutIs
<1>2. Len(d) \in Nat /\ Len(s) \in Nat
  BY LenProperties
<1>2a. r <= w /\ w <= Len(d)
  BY <1>2 DEF Stores
<1> HIDE DEF q
<1>3. \A i \in 1..r : q[i] = data_[i]
  BY <1>1, <1>2, <1>2a DEF Stores
<1>4. ASSUME NEW i \in 1..wr - rd
      PROVE  q[r + i] = data_[rd + i]
  <2>1. r + i \in 1..Len(d) /\ r + i <= w
    BY <1>2 DEF Stores
  <2> QED
    BY <1>1, <2>1 DEF Stores
<1>5. ASSUME NEW i \in 1..Len(s)
      PROVE  q[r + (wr - rd) + i] = s[i]
  <2>1. w + i \in 1..Len(d) /\ w + i > w /\ w + i <= w + Len(s) /\ (w + i) - w = i
    BY <1>2 DEF Stores
  <2> QED
    BY <1>1, <2>1 DEF Stores
<1>6. writepos_' = readpos_' + (wr - rd) + Len(s)
  BY <1>2 DEF Stores
<1>7. data_' = q
  BY DEF q, Stores
<1> QED
  BY <1>1, <1>2, <1>3, <1>4, <1>5, <1>6, <1>7 DEF HoldsData, Stores

LEMMA CheckSpaceHolds ==
    ASSUME data_ \in Seq(Octets), capacity_ = Len(data_),
           NEW h \in Nat, NEW rd \in Nat, NEW wr \in Nat, NEW need \in Nat,
           rd <= wr, wr <= capacity_,
           NEW s \in Seq(Octets), Len(s) <= need,
           CheckSpace(h, rd, wr, need, s)
    PROVE  HoldsData(h, rd, wr, s)
<1>1. Len(s) \in Nat /\ capacity_ \in Nat /\ \A i \in 1..wr : data_[i] \in Octets
  BY LenProperties
<1>2. CASE /\ capacity_ - wr >= need
           /\ readpos_' = rd /\ writepos_' = wr + Len(s) /\ data_' = Put(data_, wr, s)
           /\ capacity_' = Len(data_)
  <2>1. Len(data_) >= capacity_ /\ wr + Len(s) <= Len(data_) /\ wr = rd + (wr - rd)
    BY <1>1, <1>2
  <2>2. Stores(h, rd, wr, s, rd, wr, data_)
    BY <1>2, <2>1 DEF Stores
  <2> QED
    BY <1>1, <2>2, StoreHolds
<1>3. CASE /\ capacity_ - wr < need
           /\ readpos_' = rd /\ writepos_' = wr + Len(s)
           /\ data_' = Put(Grown(data_, rd, wr, need), wr, s)
           /\ capacity_' = Len(Grown(data_, rd, wr, need))
  <2> DEFINE c == next_pow2[wr + need]
             g == Grown(data_, rd, wr, need)
  <2>1. c \in Nat /\ wr + need <= c
    BY NextPow2Fits
  <2>2. g = Block(data_, wr, c)
    BY DEF Grown
  <2> HIDE DEF c, g
  <2>3. g \in Seq(Octets) /\ Len(g) = c /\ \A i \in 1..c : i <= wr => g[i] = data_[i]
    <3> DEFINE d == data_
    <3>1. \A i \in 1..wr : d[i] \in Octets
      BY <1>1
    <3>2. g = Block(d, wr, c)
      BY <2>2
    <3> HIDE DEF d
    <3>3. /\ Block(d, wr, c) \in Seq(Octets) /\ Len(Block(d, wr, c)) = c
          /\ \A i \in 1..c : i <= wr => Block(d, wr, c)[i] = d[i]
      BY <2>1, <3>1, BlockIs
    <3> QED
      BY <3>2, <3>3 DEF d
  <2>4. \A i \in 1..wr : g[i] = data_[i]
    BY <2>1, <2>3
  <2>5. (\A i \in 1..rd : g[i] = data_[i]) /\ (\A i \in 1..wr - rd : g[rd + i] = data_[rd + i])
    BY <2>4
  <2>6. Len(g) >= capacity_ /\ wr + Len(s) <= Len(g) /\ wr = rd + (wr - rd)
    BY <1>1, <1>3, <2>1, <2>3
  <2>7. /\ readpos_' = rd /\ writepos_' = wr + Len(s) /\ data_' = Put(g, wr, s)
        /\ capacity_' = Len(g)
    BY <1>3 DEF g
  <2>8. Stores(h, rd, wr, s, rd, wr, g)
    BY <2>3, <2>5, <2>6, <2>7 DEF Stores
  <2> QED
    BY <1>1, <2>8, StoreHolds
<1>4. CASE /\ capacity_ - wr < need /\ Compacts(h, rd, wr, need)
           /\ readpos_' = h /\ writepos_' = h + (wr - rd) + Len(s)
           /\ data_' = Put(Moved(data_, h, rd, wr), h + (wr - rd), s)
           /\ capacity_' = Len(Moved(data_, h, rd, wr))
  <2> DEFINE w == h + (wr - rd)
             g == Moved(data_, h, rd, wr)
  <2>1. h < rd /\ w \in Nat /\ w + Len(s) <= Len(data_)
    BY <1>1, <1>4 DEF Compacts
  <2>2. /\ g \in Seq(Octets) /\ Len(g) = Len(data_)
        /\ \A i \in 1..h : g[i] = data_[i]
        /\ \A i \in 1..wr - rd : g[h + i] = data_[rd + i]
    <3>1. h <= rd /\ wr <= Len(data_)
      BY <2>1
    <3>2. g \in Seq(Octets) /\ Len(g) = Len(data_)
      BY <3>1, MovedIs
    <3>3. \A i \in 1..h : g[i] = data_[i]
      BY <3>1, MovedIs
    <3>4. \A i \in 1..wr - rd : g[h + i] = data_[rd + i]
      BY <3>1, MovedIs
    <3> QED
      BY <3>2, <3>3, <3>4
  <2>3. /\ readpos_' = h /\ writepos_' = w + Len(s) /\ data_' = Put(g, w, s)
        /\ capacity_' = Len(g)
    BY <1>4
  <2>4. w = h + (wr - rd)
    OBVIOUS
  <2> HIDE DEF w, g
  <2>5. Len(g) >= capacity_ /\ w + Len(s) <= Len(g)
    BY <1>1, <2>1, <2>2
  <2>6. Stores(h, rd, wr, s, h, w, g)
    BY <2>1, <2>2, <2>3, <2>4, <2>5 DEF Stores
  <2> QED
    BY <1>1, <2>6, StoreHolds
<1> QED
  BY <1>2, <1>3, <1>4 DEF CheckSpace

-----------------------------------------------------------------------------
(* The invariant: the memory never shrinks below that of the stack block,  *)
(* so that the room in front always fits.                                  *)

IInv == TypeOK /\ PositionsFit /\ STACK_CAPACITY <= capacity_

LEMMA IInvTypes ==
    ASSUME IInv
    PROVE  /\ headreserved_ \in Nat /\ headreserved_ <= STACK_CAPACITY
           /\ data_ \in Seq(Octets) /\ capacity_ = Len(data_) /\ capacity_ \in Nat
           /\ readpos_ \in Nat /\ writepos_ \in Nat
           /\ readpos_ <= writepos_ /\ writepos_ <= capacity_
           /\ headreserved_ <= capacity_
           /\ STACK_CAPACITY \in Nat
BY BufferAssumption, LenProperties DEF IInv, TypeOK, PositionsFit, Octets

LEMMA InitInv == Init => IInv
<1> SUFFICES ASSUME Init PROVE IInv
  OBVIOUS
<1>1. PICK c \in Capacities, h \in Heads :
        /\ headreserved_ = h /\ readpos_ = h /\ writepos_ = h
        /\ data_ = IF c + h > STACK_CAPACITY
                   THEN Block([i \in 1..h |-> Junk], h, next_pow2[h + c])
                   ELSE [i \in 1..STACK_CAPACITY |-> Junk]
        /\ capacity_ = Len(data_)
        /\ disturbed = FALSE
  BY DEF Init
<1>2. c \in Nat /\ h \in Nat /\ h <= STACK_CAPACITY /\ STACK_CAPACITY \in Nat
  BY BufferAssumption
<1>3. data_ \in Seq(Octets) /\ STACK_CAPACITY <= Len(data_)
  <2>1. CASE c + h > STACK_CAPACITY
    <3> DEFINE z == [i \in 1..h |-> Junk]
               n == next_pow2[h + c]
    <3>1. n \in Nat /\ h + c <= n
      BY <1>2, NextPow2Fits
    <3>2. \A i \in 1..h : z[i] \in Octets
      BY DEF Octets
    <3>3. data_ = Block(z, h, n)
      BY <1>1, <2>1
    <3> HIDE DEF z, n
    <3>4. data_ \in Seq(Octets) /\ Len(data_) = n
      BY <1>2, <3>1, <3>2, <3>3, BlockIs
    <3> QED
      BY <1>2, <2>1, <3>1, <3>4
  <2>2. CASE ~(c + h > STACK_CAPACITY)
    <3> DEFINE z == [i \in 1..STACK_CAPACITY |-> Junk]
    <3>1. data_ = z /\ DOMAIN z = 1..STACK_CAPACITY
      BY <1>1, <2>2
    <3>2. z \in Seq(Octets)
      BY <1>2, IsASeq DEF Octets
    <3> HIDE DEF z
    <3>3. Len(z) = STACK_CAPACITY
      BY <1>2, <3>1, <3>2, LenProperties
    <3> QED
      BY <1>2, <3>1, <3>2, <3>3
  <2> QED
    BY <2>1, <2>2
<1>4. Len(data_) \in Nat
  BY <1>3, LenProperties
<1>5. disturbed \in BOOLEAN /\ headreserved_ \in Heads
  BY <1>1
<1>6. readpos_ = headreserved_ /\ writepos_ = headreserved_ /\ headreserved_ = h /\ capacity_ = Len(data_)
  BY <1>1
<1>7. TypeOK
  BY <1>2, <1>3, <1>5, <1>6 DEF TypeOK, Octets
<1>8. PositionsFit /\ STACK_CAPACITY <= capacity_
  BY <1>2, <1>3, <1>4, <1>6 DEF PositionsFit
<1> QED
  BY <1>7, <1>8 DEF IInv

\* The bytes that are written.
LEMMA InputsType ==
    ASSUME NEW s \in Inputs
    PROVE  s \in Seq(Octets) /\ Len(s) \in Nat /\ Len(s) > 0
<1>1. PICK n \in 1..MaxWrite : s \in [1..n -> Byte]
  BY DEF Inputs
<1>2. n \in Nat /\ n > 0
  BY <1>1, BufferAssumption
<1>3. \A i \in 1..n : s[i] \in Octets
  BY <1>1 DEF Octets
<1>4. s = [i \in 1..n |-> s[i]]
  BY <1>1
<1>5. [i \in 1..n |-> s[i]] \in Seq(Octets)
  BY <1>2, <1>3, IsASeq
<1>6. s \in Seq(Octets) /\ DOMAIN s = 1..n
  BY <1>1, <1>4, <1>5
<1> QED
  BY <1>2, <1>6, LenProperties

LEMMA ReinitKeeps ==
    ASSUME IInv, NEW c \in Capacities, NEW h \in Heads, Reinit(c, h)
    PROVE  IInv' /\ readpos_' = h /\ writepos_' = h
<1>1. c \in Nat /\ h \in Nat /\ h <= STACK_CAPACITY
  BY BufferAssumption
<1> DEFINE e == <<>>
<1>2. h <= capacity_ /\ h <= h /\ e \in Seq(Octets) /\ Len(e) = 0 /\ Len(e) <= c
  BY <1>1, IInvTypes, EmptySeq DEF IInv
<1>3. CheckSpace(h, h, h, c, e) /\ headreserved_' = h /\ disturbed' = FALSE
  BY DEF Reinit
<1> HIDE DEF e
<1>4. HoldsData(h, h, h, e)
  BY <1>1, <1>2, <1>3, IInvTypes, CheckSpaceHolds
<1>5. readpos_' = h /\ writepos_' = h
  BY <1>1, <1>2, <1>4 DEF HoldsData
<1>6. /\ data_' \in Seq(Octets) /\ capacity_' = Len(data_') /\ capacity_' \in Nat
      /\ capacity_' >= capacity_ /\ writepos_' <= capacity_'
  BY <1>4, LenProperties DEF HoldsData
<1>7. STACK_CAPACITY <= capacity_'
  BY <1>6, IInvTypes DEF IInv
<1>8. TypeOK'
  BY <1>1, <1>3, <1>5, <1>6 DEF TypeOK, Octets
<1>9. PositionsFit'
  BY <1>1, <1>3, <1>5, <1>6 DEF PositionsFit
<1> QED
  BY <1>5, <1>7, <1>8, <1>9 DEF IInv

LEMMA WriteBackHolds ==
    ASSUME IInv, NEW s \in Inputs, write_back(s)
    PROVE  HoldsData(headreserved_, readpos_, writepos_, s)
<1>1. s \in Seq(Octets) /\ Len(s) \in Nat
  BY InputsType
<1> QED
  BY <1>1, IInvTypes, CheckSpaceHolds DEF write_back

LEMMA WriteBackKeeps ==
    ASSUME IInv, NEW s \in Inputs, write_back(s)
    PROVE  IInv'
<1>1. HoldsData(headreserved_, readpos_, writepos_, s) /\ Len(s) \in Nat
  BY WriteBackHolds, InputsType
<1>2. UNCHANGED <<headreserved_, disturbed>>
  BY DEF write_back
<1>3. readpos_' \in Nat /\ writepos_' \in Nat /\ readpos_' <= writepos_'
  <2>1. readpos_' \in Nat /\ writepos_' = readpos_' + (writepos_ - readpos_) + Len(s)
    BY <1>1 DEF HoldsData
  <2>2. readpos_ \in Nat /\ writepos_ \in Nat /\ readpos_ <= writepos_
    BY IInvTypes
  <2> QED
    BY <1>1, <2>1, <2>2
<1>4. ~disturbed => readpos_' >= headreserved_
  BY <1>1, IInvTypes DEF HoldsData, IInv, PositionsFit
<1>5. capacity_' = Len(data_') /\ STACK_CAPACITY <= capacity_' /\ writepos_' <= capacity_'
  BY <1>1, IInvTypes, LenProperties DEF HoldsData, IInv
<1> QED
  BY <1>1, <1>2, <1>3, <1>4, <1>5 DEF HoldsData, IInv, TypeOK, PositionsFit, Octets

LEMMA WriteFrontKeeps ==
    ASSUME IInv, NEW s \in Inputs, write_front(s)
    PROVE  IInv'
<1>1. s \in Seq(Octets) /\ Len(s) \in Nat
  BY InputsType
<1>2. readpos_' \in Nat /\ readpos_' <= readpos_
  BY <1>1, IInvTypes DEF write_front
<1>3. data_' \in Seq(Octets) /\ Len(data_') = Len(data_)
  <2> DEFINE p == readpos_'
             q == Put(data_, p, s)
  <2>1. q \in Seq(Octets) /\ Len(q) = Len(data_)
    <3> HIDE DEF p
    <3> QED
      BY <1>1, <1>2, IInvTypes, PutIs DEF p
  <2>2. data_' = q
    BY DEF write_front
  <2> QED
    BY <2>1, <2>2
<1> QED
  BY <1>2, <1>3, IInvTypes DEF write_front, IInv, TypeOK, PositionsFit, Octets

\* The steps that change neither the memory nor the room in front.
LEMMA PositionsKeep ==
    ASSUME IInv, UNCHANGED <<headreserved_, capacity_, data_>>,
           readpos_' \in Nat, writepos_' \in Nat,
           readpos_' <= writepos_', writepos_' <= capacity_,
           disturbed' \in BOOLEAN,
           ~disturbed' => readpos_' >= headreserved_
    PROVE  IInv'
BY DEF IInv, TypeOK, PositionsFit

LEMMA ClampedFits ==
    ASSUME IInv, NEW p \in Int
    PROVE  Clamped(p) \in Nat /\ Clamped(p) <= writepos_
<1>1. SizeRange \in Nat /\ SizeRange > 0
  BY BufferAssumption
<1> DEFINE m == p % SizeRange
<1>2. m \in Nat
  BY <1>1
<1> HIDE DEF m
<1>3. Clamped(p) = IF m > writepos_ THEN writepos_ ELSE m
  BY DEF Clamped, m
<1> QED
  BY <1>2, <1>3, IInvTypes

LEMMA SeekKeeps ==
    ASSUME IInv, NEW p \in Nat, p <= writepos_, seek(p)
    PROVE  IInv'
<1>1. disturbed' \in BOOLEAN
  BY Zenon DEF seek, IInv, TypeOK
<1>2. ASSUME ~disturbed'
      PROVE  readpos_' >= headreserved_
  <2>1. ~disturbed /\ ~(p < readpos_)
    BY <1>2, Zenon DEF seek
  <2>2. readpos_ >= headreserved_
    BY <2>1 DEF IInv, PositionsFit
  <2> QED
    BY <2>1, <2>2, IInvTypes DEF seek
<1> QED
  BY <1>1, <1>2, IInvTypes, PositionsKeep DEF seek

\* offset_writepos does not wrap, as its argument stays within the contents and MaxSize.
LEMMA OffsetIs ==
    ASSUME IInv, NEW offset \in Offsets, offset_writepos(offset)
    PROVE  /\ writepos_' \in Nat /\ readpos_ <= writepos_' /\ writepos_' <= capacity_
           /\ UNCHANGED <<headreserved_, capacity_, readpos_, data_, disturbed>>
<1> DEFINE p == (writepos_ + offset) % SizeRange
<1>1. /\ writepos_ + offset \in readpos_..MaxSize
      /\ writepos_' = IF p >= capacity_ THEN capacity_ ELSE p
      /\ UNCHANGED <<headreserved_, capacity_, readpos_, data_, disturbed>>
  BY DEF offset_writepos
<1>2. offset \in Int /\ MaxSize \in Nat /\ SizeRange \in Nat /\ MaxSize < SizeRange
  BY BufferAssumption DEF Offsets
<1>3. p = writepos_ + offset
  <2> DEFINE x == writepos_ + offset
  <2>1. x \in Nat /\ x < SizeRange
    BY <1>1, <1>2, IInvTypes
  <2> HIDE DEF x
  <2>2. x % SizeRange = x
    BY <1>2, <2>1
  <2> QED
    BY <2>2 DEF x
<1> HIDE DEF p
<1> QED
  BY <1>1, <1>2, <1>3, IInvTypes

LEMMA SameMemoryKeeps ==
    ASSUME IInv,
           \/ \E n \in 1..MaxSize : read(n)
           \/ \E offset \in Offsets :
                  \/ SeekBegin(offset)
                  \/ SeekCurrent(offset)
                  \/ SeekEnd(offset)
                  \/ offset_writepos(offset)
           \/ clear
    PROVE  IInv'
<1>1. ASSUME NEW n \in 1..MaxSize, read(n)
      PROVE  IInv'
  BY <1>1, IInvTypes, BufferAssumption, PositionsKeep DEF read, IInv, PositionsFit, TypeOK
<1>2. ASSUME NEW offset \in Offsets, SeekBegin(offset)
      PROVE  IInv'
  BY <1>2, IInvTypes, SeekKeeps DEF SeekBegin
<1>3. ASSUME NEW offset \in Offsets, SeekCurrent(offset) \/ SeekEnd(offset)
      PROVE  IInv'
  <2>1. readpos_ + offset \in Int /\ writepos_ + offset \in Int
    BY IInvTypes, BufferAssumption DEF Offsets
  <2> QED
    BY <1>3, <2>1, ClampedFits, SeekKeeps DEF SeekCurrent, SeekEnd
<1>4. ASSUME NEW offset \in Offsets, offset_writepos(offset)
      PROVE  IInv'
  BY <1>4, OffsetIs, IInvTypes, PositionsKeep DEF IInv, PositionsFit, TypeOK
<1>5. CASE clear
  <2>1. /\ UNCHANGED <<headreserved_, capacity_, data_>>
        /\ readpos_' = headreserved_ /\ writepos_' = headreserved_ /\ disturbed' = FALSE
    BY <1>5 DEF clear
  <2>2. readpos_' <= writepos_' /\ writepos_' <= capacity_ /\ readpos_' >= headreserved_
    BY <2>1, IInvTypes
  <2> QED
    BY <2>1, <2>2, IInvTypes, PositionsKeep
<1> QED
  BY <1>1, <1>2, <1>3, <1>4, <1>5

LEMMA NextKeeps == IInv /\ [Next]_vars => IInv'
<1> SUFFICES ASSUME IInv, [Next]_vars PROVE IInv'
  OBVIOUS
<1>1. CASE UNCHANGED vars
  BY <1>1 DEF vars, IInv, TypeOK, PositionsFit
<1> QED
  BY <1>1, ReinitKeeps, WriteBackKeeps, WriteFrontKeeps, SameMemoryKeeps DEF Next

LEMMA Invariance == Spec => []IInv
BY InitInv, NextKeeps, PTL DEF Spec

\* Every variable has its type.
THEOREM TypeCorrect == Spec => []TypeOK
<1>1. IInv => TypeOK
  BY DEF IInv
<1> QED
  BY <1>1, Invariance, PTL

\* No operation reads or writes outside of the memory, and the room that was promised
\* in front of the contents is there, whatever is written, read, grown and compacted
\* (buffer::check_space and its callers).
THEOREM PositionsStayInside == Spec => []PositionsFit
<1>1. IInv => PositionsFit
  BY DEF IInv
<1> QED
  BY <1>1, Invariance, PTL

-----------------------------------------------------------------------------
(* The buffer implements the tape. *)

\* The bytes in front of the reading position and the contents.
FrontSide == SubSeq(data_, 1, readpos_)
BackSide == SubSeq(data_, readpos_ + 1, writepos_)

LEMMA Sides ==
    ASSUME NEW d \in Seq(Octets), NEW r \in Nat, NEW w \in Nat, r <= w, w <= Len(d)
    PROVE  /\ SubSeq(d, 1, r) \in Seq(Octets) /\ Len(SubSeq(d, 1, r)) = r
           /\ \A i \in 1..r : SubSeq(d, 1, r)[i] = d[i]
           /\ SubSeq(d, r + 1, w) \in Seq(Octets) /\ Len(SubSeq(d, r + 1, w)) = w - r
           /\ \A i \in 1..w - r : SubSeq(d, r + 1, w)[i] = d[r + i]
<1>1. Len(d) \in Nat /\ r <= Len(d) /\ 0 <= r /\ r - 0 = r /\ 0 + 1 = 1 /\ 0 \in Nat
  BY LenProperties
<1> DEFINE f == SubSeq(d, 0 + 1, r)
<1>2. f \in Seq(Octets) /\ Len(f) = r - 0 /\ \A i \in 1..r - 0 : f[i] = d[0 + i]
  BY <1>1, SidePart
<1>3. f = SubSeq(d, 1, r)
  OBVIOUS
<1> HIDE DEF f
<1>4. \A i \in 1..r : f[i] = d[i]
  BY <1>2
<1>5. /\ SubSeq(d, 1, r) \in Seq(Octets) /\ Len(SubSeq(d, 1, r)) = r
      /\ \A i \in 1..r : SubSeq(d, 1, r)[i] = d[i]
  <2>1. f \in Seq(Octets) /\ Len(f) = r /\ \A i \in 1..r : f[i] = d[i]
    BY <1>1, <1>2, <1>4
  <2> QED
    BY <2>1, <1>3
<1>6. /\ SubSeq(d, r + 1, w) \in Seq(Octets) /\ Len(SubSeq(d, r + 1, w)) = w - r
      /\ \A i \in 1..w - r : SubSeq(d, r + 1, w)[i] = d[r + i]
  BY SidePart
<1> QED
  BY <1>5, <1>6

LEMMA SidesNow ==
    ASSUME IInv
    PROVE  /\ FrontSide \in Seq(Octets) /\ Len(FrontSide) = readpos_
           /\ \A i \in 1..readpos_ : FrontSide[i] = data_[i]
           /\ BackSide \in Seq(Octets) /\ Len(BackSide) = writepos_ - readpos_
           /\ \A i \in 1..writepos_ - readpos_ : BackSide[i] = data_[readpos_ + i]
<1>1. data_ \in Seq(Octets) /\ readpos_ \in Nat /\ writepos_ \in Nat /\ readpos_ <= writepos_
      /\ writepos_ <= Len(data_)
  BY IInvTypes
<1> QED
  BY <1>1, Sides DEF FrontSide, BackSide

LEMMA SidesNext ==
    ASSUME IInv'
    PROVE  /\ FrontSide' \in Seq(Octets) /\ Len(FrontSide') = readpos_'
           /\ \A i \in 1..readpos_' : FrontSide'[i] = data_'[i]
           /\ BackSide' \in Seq(Octets) /\ Len(BackSide') = writepos_' - readpos_'
           /\ \A i \in 1..writepos_' - readpos_' : BackSide'[i] = data_'[readpos_' + i]
<1>1. data_' \in Seq(Octets) /\ readpos_' \in Nat /\ writepos_' \in Nat /\ readpos_' <= writepos_'
      /\ writepos_' <= Len(data_')
  BY LenProperties DEF IInv, TypeOK, PositionsFit, Octets
<1> QED
  BY <1>1, Sides DEF FrontSide, BackSide

\* Prefixes and suffixes, by their elements.
LEMMA PrefixIs ==
    ASSUME NEW s \in Seq(Octets), NEW t \in Seq(Octets), Len(s) <= Len(t),
           \A i \in 1..Len(s) : s[i] = t[i]
    PROVE  tape!IsPrefix(s, t) /\ s = SubSeq(t, 1, Len(s))
<1>1. Len(s) \in Nat /\ Len(t) \in Nat
  BY LenProperties
<1> DEFINE u == SubSeq(t, 1, Len(s))
<1>2. u \in Seq(Octets) /\ Len(u) = Len(s) /\ \A i \in 1..Len(s) : u[i] = t[i]
  <2> DEFINE n == Len(s)
  <2>1. n \in Nat /\ n <= Len(t) /\ n <= n
    BY <1>1
  <2> HIDE DEF n
  <2>2. /\ SubSeq(t, 1, n) \in Seq(Octets) /\ Len(SubSeq(t, 1, n)) = n
        /\ \A i \in 1..n : SubSeq(t, 1, n)[i] = t[i]
    BY <2>1, Sides
  <2> QED
    BY <2>2 DEF n
<1> HIDE DEF u
<1>3. s = u
  BY <1>2, SeqEqual
<1>4. SubSeq(s, 1, Len(s)) = s
  BY SubSeqFull
<1> QED
  BY <1>1, <1>3, <1>4 DEF u, tape!IsPrefix

LEMMA ReverseIs ==
    ASSUME NEW s \in Seq(Octets)
    PROVE  /\ tape!Reverse(s) \in Seq(Octets) /\ Len(tape!Reverse(s)) = Len(s)
           /\ \A i \in 1..Len(s) : tape!Reverse(s)[i] = s[(Len(s) - i) + 1]
<1>1. Len(s) \in Nat /\ \A i \in 1..Len(s) : s[i] \in Octets
  BY LenProperties
<1> DEFINE e(i) == s[(Len(s) - i) + 1]
           r == [i \in 1..Len(s) |-> e(i)]
<1>2. \A i \in 1..Len(s) : e(i) \in Octets
  BY <1>1
<1>3. tape!Reverse(s) = r /\ DOMAIN r = 1..Len(s) /\ \A i \in 1..Len(s) : r[i] = e(i)
  BY DEF tape!Reverse
<1>4. r \in Seq(Octets)
  <2> HIDE DEF e
  <2> QED
    BY <1>1, <1>2, IsASeq
<1>5. Len(r) = Len(s)
  <2> HIDE DEF r, e
  <2> QED
    BY <1>1, <1>3, <1>4, LenProperties
<1> QED
  BY <1>3, <1>4, <1>5

LEMMA SuffixIs ==
    ASSUME NEW s \in Seq(Octets), NEW t \in Seq(Octets), Len(s) <= Len(t),
           \A i \in 1..Len(s) : s[i] = t[Len(t) - Len(s) + i]
    PROVE  tape!IsSuffix(s, t)
<1> DEFINE a == tape!Reverse(s)
           b == tape!Reverse(t)
<1>1. /\ a \in Seq(Octets) /\ Len(a) = Len(s) /\ b \in Seq(Octets) /\ Len(b) = Len(t)
      /\ \A i \in 1..Len(s) : a[i] = s[(Len(s) - i) + 1]
      /\ \A i \in 1..Len(t) : b[i] = t[(Len(t) - i) + 1]
  BY ReverseIs
<1>2. Len(s) \in Nat /\ Len(t) \in Nat
  BY LenProperties
<1> HIDE DEF a, b
<1>3. ASSUME NEW i \in 1..Len(s)
      PROVE  a[i] = b[i]
  <2>1. /\ (Len(s) - i) + 1 \in 1..Len(s) /\ i \in 1..Len(t)
        /\ Len(t) - Len(s) + ((Len(s) - i) + 1) = (Len(t) - i) + 1
    BY <1>2
  <2> QED
    BY <1>1, <2>1
<1>4. tape!IsPrefix(a, b)
  BY <1>1, <1>3, PrefixIs
<1> QED
  BY <1>4 DEF a, b, tape!IsSuffix

LEMMA TapeInit == Init => tape!Init
<1> SUFFICES ASSUME Init PROVE tape!Init
  OBVIOUS
<1>1. IInv /\ readpos_ = headreserved_ /\ writepos_ = headreserved_
  BY InitInv DEF Init
<1>2. Len(FrontSide) = headreserved_ /\ headreserved_ \in Nat
  BY <1>1, SidesNow, IInvTypes
<1>3. BackSide = <<>>
  BY <1>1, SidesNow, EmptySeq, IInvTypes
<1> QED
  BY <1>2, <1>3 DEF tape!Init, FrontSide, BackSide

LEMMA EmptyStep ==
    ASSUME IInv, IInv', headreserved_' \in Nat,
           readpos_' = headreserved_', writepos_' = headreserved_'
    PROVE  tape!Empty
<1>1. Len(FrontSide') = headreserved_'
  BY SidesNext
<1>2. BackSide' = <<>>
  BY SidesNext, EmptySeq
<1> QED
  BY <1>1, <1>2 DEF tape!Empty, FrontSide, BackSide

\* Whether it grows, compacts or has the room, write_back appends.
LEMMA PutBackStep ==
    ASSUME IInv, IInv', NEW s \in Inputs, write_back(s)
    PROVE  tape!PutBack
<1>1. HoldsData(headreserved_, readpos_, writepos_, s) /\ UNCHANGED headreserved_
  BY WriteBackHolds DEF write_back
<1>2. Len(s) \in Nat /\ Len(s) > 0
  BY InputsType
<1> DEFINE n == writepos_ - readpos_
<1>3. n \in Nat /\ Len(BackSide) = n /\ Len(BackSide') = n + Len(s)
  <2>1. n \in Nat /\ Len(BackSide) = n
    BY SidesNow, IInvTypes
  <2>2. readpos_' \in Nat /\ writepos_' = readpos_' + n + Len(s)
    BY <1>1 DEF HoldsData
  <2>3. Len(BackSide') = writepos_' - readpos_'
    BY SidesNext
  <2> HIDE DEF n
  <2>4. writepos_' - readpos_' = n + Len(s)
    BY <1>2, <2>1, <2>2
  <2> QED
    BY <2>1, <2>3, <2>4
<1>4. \A i \in 1..n : BackSide[i] = BackSide'[i]
  <2> TAKE i \in 1..n
  <2>1. BackSide[i] = data_[readpos_ + i]
    BY SidesNow
  <2>2. i \in 1..writepos_' - readpos_'
    BY <1>1, <1>2, <1>3 DEF HoldsData
  <2>3. BackSide'[i] = data_'[readpos_' + i]
    BY <2>2, SidesNext
  <2> QED
    BY <1>1, <2>1, <2>3 DEF HoldsData
<1> HIDE DEF n
<1>5. tape!IsPrefix(BackSide, BackSide') /\ BackSide # BackSide'
  BY <1>2, <1>3, <1>4, SidesNow, SidesNext, PrefixIs
<1>6. CASE readpos_' = readpos_
  <2>1. Len(FrontSide') = Len(FrontSide) /\ \A i \in 1..Len(FrontSide') : FrontSide'[i] = FrontSide[i]
    BY <1>1, <1>6, SidesNow, SidesNext DEF HoldsData
  <2>2. FrontSide' = FrontSide
    BY <2>1, SidesNow, SidesNext, SeqEqual
  <2> QED
    BY <1>1, <1>5, <2>2 DEF tape!PutBack, FrontSide, BackSide
<1>7. CASE readpos_' = headreserved_ /\ headreserved_ < readpos_
  <2>0. Len(FrontSide') = headreserved_ /\ headreserved_ < Len(FrontSide)
    BY <1>7, SidesNow, SidesNext
  <2>0a. ASSUME NEW i \in 1..Len(FrontSide')
         PROVE  FrontSide'[i] = FrontSide[i]
    <3>1. i \in 1..readpos_' /\ i \in 1..readpos_
      BY <1>7, <2>0, IInvTypes
    <3>2. FrontSide'[i] = data_'[i] /\ FrontSide[i] = data_[i]
      BY <3>1, SidesNow, SidesNext
    <3> QED
      BY <1>1, <3>1, <3>2 DEF HoldsData
  <2>1. /\ Len(FrontSide') = headreserved_ /\ headreserved_ < Len(FrontSide)
        /\ \A i \in 1..Len(FrontSide') : FrontSide'[i] = FrontSide[i]
    BY <2>0, <2>0a
  <2>2. Len(FrontSide') <= Len(FrontSide)
    BY <2>1, IInvTypes, SidesNow
  <2>3. FrontSide' = SubSeq(FrontSide, 1, Len(FrontSide'))
    BY <2>1, <2>2, SidesNow, SidesNext, PrefixIs
  <2>4. FrontSide' = SubSeq(FrontSide, 1, headreserved_)
    BY <2>1, <2>3
  <2> QED
    BY <1>1, <1>5, <2>1, <2>4, IInvTypes DEF tape!PutBack, FrontSide, BackSide
<1> QED
  BY <1>1, <1>6, <1>7 DEF HoldsData

LEMMA PutFrontStep ==
    ASSUME IInv, IInv', NEW s \in Inputs, write_front(s)
    PROVE  tape!PutFront
<1>1. s \in Seq(Octets) /\ Len(s) \in Nat /\ Len(s) > 0
  BY InputsType
<1>2. /\ Len(s) <= readpos_ /\ readpos_' = readpos_ - Len(s)
      /\ data_' = Put(data_, readpos_', s)
      /\ UNCHANGED <<headreserved_, writepos_>>
  BY DEF write_front
<1> DEFINE p == readpos_'
           q == Put(data_, p, s)
<1>3. p \in Nat /\ p + Len(s) = readpos_ /\ readpos_ <= writepos_ /\ writepos_ <= Len(data_)
      /\ Len(data_) \in Nat /\ p < readpos_
  BY <1>1, <1>2, IInvTypes
<1>4. \A i \in 1..Len(data_) : i <= p \/ i > p + Len(s) => q[i] = data_[i]
  <2> HIDE DEF p
  <2> QED
    BY <1>1, <1>3, IInvTypes, PutIs
<1>5. data_' = q
  BY <1>2
<1>0. readpos_' = p
  OBVIOUS
<1>0a. readpos_ \in Nat /\ writepos_ \in Nat /\ writepos_' = writepos_
  BY <1>2, IInvTypes
<1> HIDE DEF p, q
<1>6. Len(FrontSide') = p /\ Len(FrontSide) = readpos_
  BY <1>0, SidesNow, SidesNext
<1>7. \A i \in 1..p : FrontSide'[i] = FrontSide[i]
  <2> TAKE i \in 1..p
  <2>1. FrontSide'[i] = data_'[i]
    BY <1>0, SidesNext
  <2>2. i \in 1..readpos_ /\ i \in 1..Len(data_) /\ i <= p
    BY <1>0a, <1>3
  <2>3. FrontSide[i] = data_[i] /\ q[i] = data_[i]
    BY <1>4, <2>2, SidesNow
  <2> QED
    BY <1>5, <2>1, <2>3
<1>8. tape!IsPrefix(FrontSide', FrontSide)
  <2>1. Len(FrontSide') <= Len(FrontSide) /\ \A i \in 1..Len(FrontSide') : FrontSide'[i] = FrontSide[i]
    BY <1>3, <1>6, <1>7
  <2> QED
    BY <2>1, SidesNow, SidesNext, PrefixIs
<1>9. Len(BackSide') = writepos_ - p /\ Len(BackSide) = writepos_ - readpos_
  BY <1>0, <1>0a, SidesNow, SidesNext
<1>10. \A i \in 1..writepos_ - readpos_ : BackSide[i] = BackSide'[Len(s) + i]
  <2> TAKE i \in 1..writepos_ - readpos_
  <2>1. BackSide[i] = data_[readpos_ + i]
    BY SidesNow
  <2>2. Len(s) + i \in 1..writepos_' - readpos_'
    BY <1>0, <1>0a, <1>1, <1>3
  <2>3. BackSide'[Len(s) + i] = data_'[readpos_' + (Len(s) + i)]
    BY <2>2, SidesNext
  <2>4. readpos_ + i \in 1..Len(data_) /\ readpos_ + i > p + Len(s)
        /\ p + (Len(s) + i) = readpos_ + i
    BY <1>0a, <1>1, <1>3
  <2>5. q[readpos_ + i] = data_[readpos_ + i]
    BY <1>4, <2>4
  <2> QED
    BY <1>0, <1>5, <2>1, <2>3, <2>4, <2>5
<1>11. tape!IsSuffix(BackSide, BackSide')
  <2>1. Len(BackSide) <= Len(BackSide') /\ Len(BackSide') - Len(BackSide) = Len(s)
    BY <1>0a, <1>1, <1>3, <1>9
  <2>2. \A i \in 1..Len(BackSide) : BackSide[i] = BackSide'[Len(BackSide') - Len(BackSide) + i]
    BY <1>9, <1>10, <2>1
  <2> QED
    BY <2>1, <2>2, SidesNow, SidesNext, SuffixIs
<1>12. Len(FrontSide') < Len(FrontSide) /\ Len(FrontSide') + Len(BackSide') = Len(FrontSide) + Len(BackSide)
  BY <1>0a, <1>3, <1>6, <1>9
<1> QED
  BY <1>2, <1>8, <1>11, <1>12 DEF tape!PutFront, FrontSide, BackSide

\* Reading and seeking: all bytes up to the writing position stay.
LEMMA MoveStep ==
    ASSUME IInv, IInv', UNCHANGED <<headreserved_, writepos_, data_>>
    PROVE  tape!Move
<1> DEFINE W == SubSeq(data_, 1, writepos_)
<1>1. ASSUME NEW d \in Seq(Octets), NEW r \in Nat, NEW w \in Nat, r <= w, w <= Len(d)
      PROVE  SubSeq(d, 1, r) \o SubSeq(d, r + 1, w) = SubSeq(d, 1, w)
  <2>1. Len(d) \in Nat
    BY LenProperties
  <2>2. 1 \in 1..Len(d) + 1 /\ r \in 1 - 1..Len(d) /\ w \in r..Len(d)
    BY <1>1, <2>1
  <2> QED
    BY <2>2, ConcatAdjacentSubSeq
<1>2. FrontSide \o BackSide = W
  BY <1>1, IInvTypes DEF FrontSide, BackSide
<1>3. FrontSide' \o BackSide' = W
  <2>1. readpos_' \in Nat /\ readpos_' <= writepos_
    BY DEF IInv, TypeOK, PositionsFit
  <2>2. SubSeq(data_, 1, readpos_') \o SubSeq(data_, readpos_' + 1, writepos_) = W
    BY <1>1, <2>1, IInvTypes
  <2> QED
    BY <2>2 DEF FrontSide, BackSide
<1> QED
  BY <1>2, <1>3 DEF tape!Move, FrontSide, BackSide

\* offset_writepos takes bytes behind the contents in, or cuts some off.
LEMMA OffsetStep ==
    ASSUME IInv, IInv', NEW offset \in Offsets, offset_writepos(offset)
    PROVE  tape!PutBack \/ tape!CutBack
<1>1. /\ writepos_' \in Nat /\ readpos_ <= writepos_' /\ writepos_' <= capacity_
      /\ UNCHANGED <<headreserved_, readpos_, data_>>
  BY OffsetIs
<1>2. FrontSide' = FrontSide
  BY <1>1 DEF FrontSide
<1>3. /\ Len(BackSide) = writepos_ - readpos_ /\ Len(BackSide') = writepos_' - readpos_
      /\ BackSide \in Seq(Octets) /\ BackSide' \in Seq(Octets)
      /\ \A i \in 1..writepos_ - readpos_ : BackSide[i] = data_[readpos_ + i]
      /\ \A i \in 1..writepos_' - readpos_ : BackSide'[i] = data_[readpos_ + i]
  BY <1>1, SidesNow, SidesNext
<1>4. CASE writepos_' > writepos_
  <2>1. Len(BackSide) < Len(BackSide') /\ \A i \in 1..Len(BackSide) : BackSide[i] = BackSide'[i]
    BY SMTT(40), <1>1, <1>3, <1>4, IInvTypes
  <2>2. Len(BackSide) <= Len(BackSide') /\ BackSide # BackSide'
    BY <1>1, <1>3, <2>1, IInvTypes
  <2>3. tape!IsPrefix(BackSide, BackSide')
    BY <1>3, <2>1, <2>2, PrefixIs
  <2> QED
    BY <1>1, <1>2, <2>2, <2>3 DEF tape!PutBack, FrontSide, BackSide
<1>5. CASE writepos_' <= writepos_
  <2>1. Len(BackSide') <= Len(BackSide) /\ \A i \in 1..Len(BackSide') : BackSide'[i] = BackSide[i]
    BY <1>1, <1>3, <1>5, IInvTypes
  <2>2. tape!IsPrefix(BackSide', BackSide)
    BY <1>3, <2>1, PrefixIs
  <2> QED
    BY <1>1, <1>2, <2>2 DEF tape!CutBack, FrontSide, BackSide
<1> QED
  BY <1>1, <1>4, <1>5, IInvTypes

LEMMA TapeNext == IInv /\ IInv' /\ [Next]_vars => [tape!Next]_(tape!vars)
<1> SUFFICES ASSUME IInv, IInv', [Next]_vars PROVE [tape!Next]_(tape!vars)
  OBVIOUS
<1>1. ASSUME NEW c \in Capacities, NEW h \in Heads, Reinit(c, h)
      PROVE  tape!Next
  <2>1. headreserved_' = h /\ h \in Nat
    BY <1>1, BufferAssumption DEF Reinit
  <2> QED
    BY <1>1, <2>1, ReinitKeeps, EmptyStep DEF tape!Next
<1>2. ASSUME NEW s \in Inputs, write_back(s) \/ write_front(s)
      PROVE  tape!Next
  BY <1>2, PutBackStep, PutFrontStep DEF tape!Next
<1>3. ASSUME NEW n \in 1..MaxSize, read(n)
      PROVE  tape!Next
  BY <1>3, MoveStep DEF read, tape!Next
<1>4. ASSUME NEW offset \in Offsets,
             SeekBegin(offset) \/ SeekCurrent(offset) \/ SeekEnd(offset)
      PROVE  tape!Next
  BY <1>4, MoveStep DEF SeekBegin, SeekCurrent, SeekEnd, seek, tape!Next
<1>5. ASSUME NEW offset \in Offsets, offset_writepos(offset)
      PROVE  tape!Next
  BY <1>5, OffsetStep DEF tape!Next
<1>6. ASSUME clear
      PROVE  tape!Next
  BY <1>6, EmptyStep, IInvTypes DEF clear, tape!Next
<1>7. CASE UNCHANGED vars
  BY <1>7 DEF vars, tape!vars
<1> QED
  BY <1>1, <1>2, <1>3, <1>4, <1>5, <1>6, <1>7 DEF Next

\* The buffer is a tape: neither growing nor compacting loses, changes or moves a byte of
\* the contents (buffer::check_space).
THEOREM BufferImplementsTape == Spec => ImplementsTape
BY TapeInit, TapeNext, Invariance, PTL DEF Spec, ImplementsTape, tape!Spec
-----------------------------------------------------------------------------
(* Bytes. *)

LEMMA SpanIs ==
    /\ \A n \in 0..8 : Span[n] \in Nat \ {0}
    /\ Span[0] = 1
    /\ \A n \in 1..8 : Span[n] = Base * Span[n - 1]
<1> DEFINE step == [n \in 1..8 |-> [x \in Nat \ {0} |-> Base * x]]
<1>1. step \in [1..8 -> [Nat \ {0} -> Nat \ {0}]]
  <2>1. \A x \in Nat \ {0} : Base * x \in Nat \ {0}
    BY SerializeAssumption
  <2> QED
    BY <2>1
<1>2. \A n \in 1..8 : \A x \in Nat \ {0} : step[n][x] = Base * x
  OBVIOUS
<1> HIDE DEF step
<1>3. PICK f : Iterates(f, Nat \ {0}, 8, 1, step)
  <2>1. 8 \in Nat /\ 1 \in Nat \ {0}
    OBVIOUS
  <2> DEFINE X == Nat \ {0}
             one == 1
             N == 8
  <2>2. \E f : Iterates(f, X, N, one, step)
    <3> HIDE DEF X, one
    <3>1. N \in Nat /\ one \in X /\ step \in [1..N -> [X -> X]]
      BY <1>1, <2>1 DEF X, one
    <3> HIDE DEF N
    <3> QED
      BY <3>1, Recursion
  <2> QED
    BY <2>2
<1>4. \A n \in 1..8 : n # 0 /\ n - 1 \in 0..8 /\ n \in 0..8
  OBVIOUS
<1>5. \A n \in 1..8 : f[n] = Base * f[n - 1]
  BY <1>2, <1>3, <1>4 DEF Iterates
<1>6. f = [n \in 0..8 |-> IF n = 0 THEN 1 ELSE Base * f[n - 1]]
  BY <1>3, <1>5 DEF Iterates
<1>7. Span = [n \in 0..8 |-> IF n = 0 THEN 1 ELSE Base * Span[n - 1]]
  <2>1. \E g : g = [n \in 0..8 |-> IF n = 0 THEN 1 ELSE Base * g[n - 1]]
    BY <1>6
  <2> QED
    BY <2>1 DEF Span
<1>8. Span[0] = 1 /\ \A n \in 1..8 : Span[n] = Base * Span[n - 1]
  BY <1>4, <1>7
<1> DEFINE S == {n \in 0..8 : Span[n] \in Nat \ {0}}
<1>9. 0 \in S
  BY <1>8
<1>10. ASSUME NEW n \in 0..(8 - 1), n \in S
       PROVE  n + 1 \in S
  <2>1. n + 1 \in 1..8 /\ n + 1 \in 0..8 /\ (n + 1) - 1 = n /\ Span[n] \in Nat \ {0}
    BY <1>10
  <2>2. Span[n + 1] = Base * Span[n]
    BY <1>8, <2>1
  <2> DEFINE s == Span[n]
  <2>3. s \in Nat \ {0}
    BY <2>1
  <2> HIDE DEF s
  <2>4. Base * s \in Nat \ {0}
    BY <2>3, SerializeAssumption
  <2> QED
    BY <2>1, <2>2, <2>4 DEF s
<1> HIDE DEF S
<1>11. 0..8 \subseteq S
  <2> DEFINE N == 8
  <2>1. N \in Nat /\ \A n \in 0..(N - 1) : n \in S => n + 1 \in S
    BY <1>10
  <2> HIDE DEF N
  <2>2. 0..N \subseteq S
    BY <1>9, <2>1, Climb
  <2> QED
    BY <2>2 DEF N
<1> QED
  BY <1>8, <1>11 DEF S

LEMMA BytesAre ==
    ASSUME NEW x \in Int, NEW n \in 0..8
    PROVE  Bytes(x, n) \in Seq(Nat) /\ Len(Bytes(x, n)) = n
<1>1. ASSUME NEW i \in 1..n
      PROVE  (x \div Span[i - 1]) % Base \in Nat
  <2>1. i - 1 \in 0..8
    OBVIOUS
  <2>2. Span[i - 1] \in Nat \ {0} /\ Base \in Nat \ {0}
    BY <2>1, SpanIs, SerializeAssumption
  <2> QED
    BY <2>2
<1>2. Bytes(x, n) \in [1..n -> Nat]
  BY <1>1 DEF Bytes
<1> QED
  BY <1>2

\* The bytes of a number hold it, less the multiples of what they can hold.
LEMMA UnsignedIs ==
    ASSUME NEW x \in Int, NEW n \in 0..8
    PROVE  Unsigned(Bytes(x, n)) = x % Span[n]
<1> DEFINE bs == Bytes(x, n)
           G(sum) == [i \in 0..n |-> IF i = 0 THEN 0 ELSE sum[i - 1] + bs[i] * Span[i - 1]]
           f == [i \in 0..n |-> x % Span[i]]
<1>1. Len(bs) = n
  BY BytesAre
<1>2. ASSUME NEW i \in 1..n
      PROVE  x % Span[i] = (x % Span[i - 1]) + bs[i] * Span[i - 1]
  <2>1. i \in 1..8 /\ i - 1 \in 0..8
    OBVIOUS
  <2>2. Span[i] = Base * Span[i - 1] /\ Span[i - 1] \in Nat \ {0} /\ Base \in Nat \ {0}
    BY <2>1, SpanIs, SerializeAssumption
  <2> DEFINE P == Span[i - 1]
  <2>3. P \in Nat \ {0} /\ Base \in Nat \ {0} /\ x % Span[i] = x % (Base * P)
    BY <2>2
  <2>4. bs[i] = (x \div P) % Base
    BY DEF Bytes
  <2> HIDE DEF P
  <2>5. x % (Base * P) = (x % P) + ((x \div P) % Base) * P
    BY <2>3, RestOfProduct
  <2> QED
    BY <2>3, <2>4, <2>5 DEF P
<1>3. x % Span[0] = 0
  BY SpanIs
<1>4. f = G(f)
  <2>1. ASSUME NEW i \in 0..n
        PROVE  f[i] = IF i = 0 THEN 0 ELSE f[i - 1] + bs[i] * Span[i - 1]
    <3>1. i # 0 => i \in 1..n /\ i - 1 \in 0..n
      OBVIOUS
    <3> HIDE DEF bs
    <3> QED
      BY <1>2, <1>3, <3>1
  <2> HIDE DEF bs
  <2> QED
    BY <2>1
<1>5. ASSUME NEW g, g = G(g)
      PROVE  g[n] = x % Span[n]
  <2> DEFINE S == {i \in 0..n : g[i] = x % Span[i]}
  <2>1. \A i \in 0..n : g[i] = IF i = 0 THEN 0 ELSE g[i - 1] + bs[i] * Span[i - 1]
    <3> HIDE DEF bs
    <3> QED
      BY <1>5
  <2> HIDE DEF bs
  <2>2. 0 \in S
    BY <1>3, <2>1
  <2>3. ASSUME NEW i \in 0..(n - 1), i \in S
        PROVE  i + 1 \in S
    <3>1. i + 1 \in 0..n /\ i + 1 \in 1..n /\ i + 1 # 0 /\ (i + 1) - 1 = i /\ g[i] = x % Span[i]
      BY <2>3
    <3>2. g[i + 1] = g[i] + bs[i + 1] * Span[i]
      BY <2>1, <3>1
    <3>3. x % Span[i + 1] = (x % Span[i]) + bs[i + 1] * Span[i]
      BY <1>2, <3>1
    <3> QED
      BY <3>1, <3>2, <3>3
  <2> HIDE DEF S
  <2>4. n \in Nat /\ 0..n \subseteq S
    BY <2>2, <2>3, Climb
  <2> QED
    BY <2>4 DEF S
<1>6. Unsigned(bs) = (CHOOSE g : g = G(g))[n]
  BY <1>1 DEF Unsigned
<1> HIDE DEF G
<1>7. (CHOOSE g : g = G(g)) = G(CHOOSE g : g = G(g))
  BY <1>4
<1> QED
  BY <1>5, <1>6, <1>7

LEMMA UnsignedExact ==
    ASSUME NEW n \in 0..8, NEW x \in 0..(Span[n] - 1)
    PROVE  Unsigned(Bytes(x, n)) = x
<1>1. Span[n] \in Nat \ {0} /\ x \in Int
  BY SpanIs
<1>2. Unsigned(Bytes(x, n)) = x % Span[n]
  BY <1>1, UnsignedIs
<1> DEFINE m == Span[n]
<1>3. m \in Nat \ {0} /\ x \in 0..(m - 1)
  BY <1>1
<1> HIDE DEF m
<1>4. x % m = x
  BY <1>3, SmallRest
<1> QED
  BY <1>2, <1>4 DEF m

\* Two's complement.
LEMMA SignedExact ==
    ASSUME NEW n \in 0..8, NEW x \in Int, Fits(x, n)
    PROVE  Signed(Bytes(x, n)) = x
<1> DEFINE m == Span[n]
<1>1. m \in Nat \ {0} /\ -m <= 2 * x /\ 2 * x < m
  BY SpanIs DEF Fits
<1>2. Unsigned(Bytes(x, n)) = x % m /\ Len(Bytes(x, n)) = n
  BY UnsignedIs, BytesAre
<1>3. Signed(Bytes(x, n)) = IF 2 * (x % m) >= m THEN (x % m) - m ELSE x % m
  BY <1>2 DEF Signed
<1> HIDE DEF m
<1>4. CASE x >= 0
  <2>1. x \in 0..(m - 1)
    BY <1>1, <1>4
  <2>2. x % m = x
    BY <1>1, <2>1, SmallRest
  <2> QED
    BY <1>1, <1>3, <2>2
<1>5. CASE x < 0
  <2> DEFINE r == x + m
  <2>1. r \in 0..(m - 1) /\ r - m = x /\ 2 * r >= m
    BY <1>1, <1>5
  <2> HIDE DEF r
  <2>2. x % m = r
    BY <1>1, <2>1, SmallRest
  <2> QED
    BY <1>1, <1>3, <2>1, <2>2
<1> QED
  BY <1>4, <1>5

LEMMA TagIs ==
    ASSUME NEW type \in 0..7, NEW cookie \in 0..(MAX_COOKIE - 1)
    PROVE  /\ Tag(type, cookie) = <<type + 8 * cookie>>
           /\ Tag(type, cookie) \in Seq(Nat) /\ Len(Tag(type, cookie)) = 1
           /\ TypeOf(type + 8 * cookie) = type /\ CookieOf(type + 8 * cookie) = cookie
<1> DEFINE m == 8 * MAX_COOKIE
           r == type + 8 * cookie
<1>1. m \in Nat \ {0} /\ r \in 0..(m - 1)
  BY SerializeAssumption
<1>2. r % 8 = type /\ r \div 8 = cookie
  OBVIOUS
<1>3. Tag(type, cookie) = <<r % m>>
  BY DEF Tag
<1> HIDE DEF m, r
<1>4. r % m = r
  BY <1>1, SmallRest
<1>5. Tag(type, cookie) = <<r>>
  BY <1>3, <1>4
<1>6. <<r>> \in Seq(Nat) /\ Len(<<r>>) = 1
  BY <1>1
<1> QED
  BY <1>2, <1>5, <1>6 DEF TypeOf, CookieOf, r

-----------------------------------------------------------------------------
(* What was written is read.  A stream whose end is cut off holds the      *)
(* beginning of what was written.                                          *)

\* The bytes e are in b from the position p on, as far as b goes.
Holds(b, p, e) == \A i \in 1..Len(e) : p + i <= Len(b) => b[p + i] = e[i]

\* Reading from p on gives x, unless there are less than n bytes.
Gives(r, b, p, n, x) == r = IF p + n <= Len(b) THEN Result(x, p + n) ELSE Invalid

LEMMA HoldsParts ==
    ASSUME NEW b \in Seq(Nat), NEW p \in Nat, NEW e \in Seq(Nat), NEW f \in Seq(Nat),
           Holds(b, p, e \o f)
    PROVE  Holds(b, p, e) /\ Holds(b, p + Len(e), f)
<1>1. Len(e \o f) = Len(e) + Len(f) /\ Len(e) \in Nat /\ Len(f) \in Nat
  OBVIOUS
<1>2. ASSUME NEW i \in 1..Len(e), p + i <= Len(b)
      PROVE  b[p + i] = e[i]
  <2>1. i \in 1..Len(e \o f) /\ (e \o f)[i] = e[i]
    BY <1>1
  <2> QED
    BY <1>2, <2>1 DEF Holds
<1>3. ASSUME NEW i \in 1..Len(f), (p + Len(e)) + i <= Len(b)
      PROVE  b[(p + Len(e)) + i] = f[i]
  <2>1. Len(e) + i \in 1..Len(e \o f) /\ (e \o f)[Len(e) + i] = f[i]
    BY <1>1
  <2>2. p + (Len(e) + i) = (p + Len(e)) + i
    BY <1>1
  <2> QED
    BY <1>3, <2>1, <2>2 DEF Holds
<1> QED
  BY <1>2, <1>3 DEF Holds

LEMMA CellsAre ==
    ASSUME NEW b \in Seq(Nat), NEW p \in Nat, NEW e \in Seq(Nat),
           Holds(b, p, e), p + Len(e) <= Len(b)
    PROVE  Cells(b, p, Len(e)) = e
<1>1. \A i \in 1..Len(e) : b[p + i] = e[i]
  BY DEF Holds
<1>2. e = [i \in 1..Len(e) |-> e[i]]
  OBVIOUS
<1> QED
  BY <1>1, <1>2 DEF Cells

LEMMA NumberIs ==
    ASSUME NEW b \in Seq(Nat), NEW p \in Nat, NEW n \in 1..8, NEW x \in Int, NEW k,
           Holds(b, p, Bytes(x, n)),
           IF k = "int" /\ n >= 4 THEN Signed(Bytes(x, n)) = x ELSE x \in 0..(Span[n] - 1)
    PROVE  Gives(Number(b, p, n, k), b, p, n, [k |-> k, v |-> <<x>>])
<1>0. n \in 0..8
  OBVIOUS
<1>1. Bytes(x, n) \in Seq(Nat) /\ Len(Bytes(x, n)) = n
  BY <1>0, BytesAre
<1>2. CASE Len(b) < p + n
  BY <1>2 DEF Number, Gives, Short
<1>3. CASE ~(Len(b) < p + n)
  <2>1. p + n <= Len(b)
    BY <1>3
  <2>2. Cells(b, p, n) = Bytes(x, n)
    BY <1>1, <2>1, CellsAre
  <2>3. (IF k = "int" /\ n >= 4 THEN Signed(Bytes(x, n)) ELSE Unsigned(Bytes(x, n))) = x
    BY <1>0, UnsignedExact
  <2> QED
    BY <1>3, <2>1, <2>2, <2>3 DEF Number, Gives, Short
<1> QED
  BY <1>2, <1>3

\* The bytes w in b are a tag and e.
Tagged(b, p, w, type, cookie, e) ==
    /\ w \in Seq(Nat) /\ Len(w) = 1 + Len(e)
    /\ ~Short(b, p, 1) => TypeOf(b[p + 1]) = type /\ CookieOf(b[p + 1]) = cookie
    /\ Holds(b, p + 1, e)

LEMMA TagFirst ==
    ASSUME NEW b \in Seq(Nat), NEW p \in Nat, NEW e \in Seq(Nat),
           NEW type \in 0..7, NEW cookie \in 0..(MAX_COOKIE - 1),
           NEW w, w = Tag(type, cookie) \o e, Holds(b, p, w)
    PROVE  Tagged(b, p, w, type, cookie, e)
<1>1. Tag(type, cookie) = <<type + 8 * cookie>>
  BY TagIs
<1>2. Tag(type, cookie) \in Seq(Nat) /\ Len(Tag(type, cookie)) = 1
  BY TagIs
<1>3. Holds(b, p, Tag(type, cookie)) /\ Holds(b, p + 1, e)
  BY <1>2, HoldsParts
<1>4. ASSUME ~Short(b, p, 1)
      PROVE  TypeOf(b[p + 1]) = type /\ CookieOf(b[p + 1]) = cookie
  <2>1. p + 1 <= Len(b)
    BY <1>4 DEF Short
  <2>2. 1 \in 1..Len(Tag(type, cookie)) /\ Tag(type, cookie)[1] = type + 8 * cookie
    BY <1>1, <1>2
  <2>3. b[p + 1] = type + 8 * cookie
    BY <1>3, <2>1, <2>2 DEF Holds
  <2> QED
    BY <2>3, TagIs
<1>5. w \in Seq(Nat) /\ Len(w) = 1 + Len(e)
  <2> DEFINE c == Tag(type, cookie)
  <2>1. c \in Seq(Nat) /\ Len(c) = 1
    BY <1>2
  <2> HIDE DEF c
  <2>2. c \o e \in Seq(Nat) /\ Len(c \o e) = Len(c) + Len(e)
    BY <2>1, ConcatProperties
  <2> QED
    BY <2>1, <2>2 DEF c
<1> QED
  BY <1>3, <1>4, <1>5 DEF Tagged

LEMMA TagAlone ==
    ASSUME NEW b \in Seq(Nat), NEW p \in Nat,
           NEW type \in 0..7, NEW cookie \in 0..(MAX_COOKIE - 1),
           NEW w, w = Tag(type, cookie), Holds(b, p, w)
    PROVE  Tagged(b, p, w, type, cookie, << >>)
<1> DEFINE e == << >>
<1>1. e \in Seq(Nat)
  OBVIOUS
<1>2. w = Tag(type, cookie) \o e
  BY TagIs, ConcatEmptySeq
<1> HIDE DEF e
<1>3. Tagged(b, p, w, type, cookie, e)
  BY <1>1, <1>2, TagFirst
<1> QED
  BY <1>3 DEF e

\* The ways in which wb_integer writes a number: a cookie and n bytes.
LEMMA IntegerForms ==
    ASSUME NEW x \in Int, Fits(x, 8)
    PROVE  \E c \in 0..(MAX_COOKIE - 1), n \in 0..8 :
               /\ <<c, n>> \in {<<0, 0>>, <<1, 1>>, <<2, 2>>, <<4, 4>>, <<6, 8>>}
               /\ wb_integer(x) = Tag(TYPE_NUMBER, c) \o Bytes(x, n)
               /\ IF n >= 4 THEN Signed(Bytes(x, n)) = x ELSE x \in 0..(Span[n] - 1)
<1>0. {0, 1, 2, 4, 6} \subseteq 0..(MAX_COOKIE - 1) /\ {0, 1, 2, 4, 8} \subseteq 0..8
  BY SerializeAssumption DEF TYPE_NUMBER_REAL
<1> DEFINE Form(c, n) ==
               /\ c \in 0..(MAX_COOKIE - 1) /\ n \in 0..8
               /\ <<c, n>> \in {<<0, 0>>, <<1, 1>>, <<2, 2>>, <<4, 4>>, <<6, 8>>}
               /\ wb_integer(x) = Tag(TYPE_NUMBER, c) \o Bytes(x, n)
               /\ IF n >= 4 THEN Signed(Bytes(x, n)) = x ELSE x \in 0..(Span[n] - 1)
           wide == x # Signed(Bytes(x, 4))
<1>1. Span[0] = 1 /\ Span[1] \in Nat /\ Span[2] \in Nat
  BY SpanIs
<1>2. \/ x = 0 /\ wb_integer(x) = Tag(TYPE_NUMBER, 0)
      \/ wide /\ wb_integer(x) = Tag(TYPE_NUMBER, 6) \o Bytes(x, 8)
      \/ x \in 1..(Span[1] - 1) /\ wb_integer(x) = Tag(TYPE_NUMBER, 1) \o Bytes(x, 1)
      \/ x \in Span[1]..(Span[2] - 1) /\ wb_integer(x) = Tag(TYPE_NUMBER, 2) \o Bytes(x, 2)
      \/ ~wide /\ wb_integer(x) = Tag(TYPE_NUMBER, 4) \o Bytes(x, 4)
  <2> HIDE DEF wide
  <2> QED
    BY DEF wb_integer, wide, TYPE_NUMBER_ZERO, TYPE_NUMBER_BYTE, TYPE_NUMBER_WORD,
           TYPE_NUMBER_DWORD, TYPE_NUMBER_QWORD
<1>3. Signed(Bytes(x, 8)) = x
  BY <1>0, SignedExact
<1>4. CASE x = 0 /\ wb_integer(x) = Tag(TYPE_NUMBER, 0)
  <2>1. Tag(TYPE_NUMBER, 0) = Tag(TYPE_NUMBER, 0) \o Bytes(x, 0)
    <3>1. Bytes(x, 0) = << >>
      BY DEF Bytes
    <3>2. Tag(TYPE_NUMBER, 0) \in Seq(Nat)
      <4>1. TYPE_NUMBER \in 0..7 /\ 0 \in 0..(MAX_COOKIE - 1)
        BY <1>0 DEF TYPE_NUMBER
      <4> QED
        BY <4>1, TagIs
    <3> QED
      BY <3>1, <3>2, ConcatEmptySeq
  <2>2. Form(0, 0)
    BY <1>0, <1>1, <1>4, <2>1
  <2> QED
    BY <2>2
<1>5. CASE wide /\ wb_integer(x) = Tag(TYPE_NUMBER, 6) \o Bytes(x, 8)
  <2>1. Form(6, 8)
    BY <1>0, <1>3, <1>5
  <2> QED
    BY <2>1
<1>6. CASE x \in 1..(Span[1] - 1) /\ wb_integer(x) = Tag(TYPE_NUMBER, 1) \o Bytes(x, 1)
  <2>1. Form(1, 1)
    BY <1>0, <1>1, <1>6
  <2> QED
    BY <2>1
<1>7. CASE x \in Span[1]..(Span[2] - 1) /\ wb_integer(x) = Tag(TYPE_NUMBER, 2) \o Bytes(x, 2)
  <2>1. x \in 0..(Span[2] - 1)
    BY <1>1, <1>7
  <2>2. Form(2, 2)
    BY <1>0, <1>7, <2>1
  <2> QED
    BY <2>2
<1>8. CASE ~wide /\ wb_integer(x) = Tag(TYPE_NUMBER, 4) \o Bytes(x, 4)
  <2>1. Form(4, 4)
    BY <1>0, <1>8
  <2> QED
    BY <2>1
<1> HIDE DEF wide
<1> QED
  BY <1>2, <1>4, <1>5, <1>6, <1>7, <1>8

\* get_integer reads what wb_integer wrote.
LEMMA IntegerIs ==
    ASSUME NEW b \in Seq(Nat), NEW p \in Nat, NEW x \in Int, Fits(x, 8),
           Holds(b, p, wb_integer(x))
    PROVE  /\ wb_integer(x) \in Seq(Nat) /\ Len(wb_integer(x)) >= 1
           /\ ~Short(b, p, 1) =>
                  /\ TypeOf(b[p + 1]) = TYPE_NUMBER
                  /\ CookieOf(b[p + 1]) # TYPE_NUMBER_REAL
                  /\ Gives(get_integer(b, p + 1, CookieOf(b[p + 1])), b, p,
                           Len(wb_integer(x)), Integer(x))
<1>1. PICK c \in 0..(MAX_COOKIE - 1), n \in 0..8 :
          /\ <<c, n>> \in {<<0, 0>>, <<1, 1>>, <<2, 2>>, <<4, 4>>, <<6, 8>>}
          /\ wb_integer(x) = Tag(TYPE_NUMBER, c) \o Bytes(x, n)
          /\ IF n >= 4 THEN Signed(Bytes(x, n)) = x ELSE x \in 0..(Span[n] - 1)
  BY IntegerForms
<1>2. Bytes(x, n) \in Seq(Nat) /\ Len(Bytes(x, n)) = n
  BY BytesAre
<1>3. /\ wb_integer(x) \in Seq(Nat)
      /\ Len(wb_integer(x)) = 1 + n
      /\ ~Short(b, p, 1) => TypeOf(b[p + 1]) = TYPE_NUMBER /\ CookieOf(b[p + 1]) = c
      /\ Holds(b, p + 1, Bytes(x, n))
  <2>1. TYPE_NUMBER \in 0..7
    BY DEF TYPE_NUMBER
  <2>2. Tagged(b, p, wb_integer(x), TYPE_NUMBER, c, Bytes(x, n))
    BY <1>1, <1>2, <2>1, TagFirst
  <2> QED
    BY <1>2, <2>2 DEF Tagged
<1>4. c # TYPE_NUMBER_REAL
  BY <1>1 DEF TYPE_NUMBER_REAL
<1>5. ASSUME ~Short(b, p, 1)
      PROVE  Gives(get_integer(b, p + 1, c), b, p, 1 + n, Integer(x))
  <2>1. p + 1 <= Len(b) /\ p + (1 + n) = (p + 1) + n /\ p + 1 \in Nat
    BY <1>5 DEF Short
  <2>2. CASE n = 0
    <3>1. c = 0 /\ x = 0
      BY <1>1, <2>2, SpanIs
    <3>2. get_integer(b, p + 1, c) = Result(Integer(0), p + 1)
      BY <3>1 DEF get_integer, TYPE_NUMBER_ZERO, TYPE_NUMBER_BYTE, TYPE_NUMBER_WORD,
                  TYPE_NUMBER_DWORD, TYPE_NUMBER_QWORD
    <3>3. 1 + n = 1
      BY <2>2
    <3> QED
      BY <2>1, <3>1, <3>2, <3>3 DEF Gives
  <2>3. CASE n # 0
    <3>1. get_integer(b, p + 1, c) = Number(b, p + 1, n, "int") /\ n \in 1..8
      BY <1>1, <2>3 DEF get_integer, TYPE_NUMBER_ZERO, TYPE_NUMBER_BYTE, TYPE_NUMBER_WORD,
                  TYPE_NUMBER_DWORD, TYPE_NUMBER_QWORD
    <3>2. Gives(Number(b, p + 1, n, "int"), b, p + 1, n, [k |-> "int", v |-> <<x>>])
      BY <1>1, <1>3, <2>1, <3>1, NumberIs
    <3> QED
      BY <2>1, <3>1, <3>2 DEF Gives, Integer
  <2> QED
    BY <2>2, <2>3
<1> QED
  BY <1>3, <1>4, <1>5

\* At p the value x is read from the bytes w, as far as they are in b.
Reads(b, p, w, x) ==
    /\ w \in Seq(Nat) /\ Len(w) >= 1
    /\ Gives(Decoded(b, p), b, p, Len(w), x)

IsLeaf(b, p) == ~Short(b, p, 1) => TypeOf(b[p + 1]) # TYPE_TABLE

LEMMA TypesAre ==
    /\ TYPE_NIL \in 0..7 /\ TYPE_BOOLEAN \in 0..7 /\ TYPE_NUMBER \in 0..7
    /\ TYPE_USERDATA \in 0..7 /\ TYPE_SHORT_STRING \in 0..7 /\ TYPE_LONG_STRING \in 0..7
    /\ TYPE_TABLE \in 0..7
    /\ TYPE_TABLE \notin {TYPE_NIL, TYPE_BOOLEAN, TYPE_NUMBER, TYPE_USERDATA,
                          TYPE_SHORT_STRING, TYPE_LONG_STRING}
BY DEF TYPE_NIL, TYPE_BOOLEAN, TYPE_NUMBER, TYPE_USERDATA, TYPE_SHORT_STRING,
       TYPE_LONG_STRING, TYPE_TABLE

LEMMA TagRead ==
    ASSUME NEW b \in Seq(Nat), NEW p \in Nat, NEW w, NEW type, NEW cookie, NEW e \in Seq(Nat),
           NEW x, Tagged(b, p, w, type, cookie, e),
           p + 1 <= Len(b) => Gives(push_value(b, p + 1, type, cookie), b, p + 1, Len(e), x)
    PROVE  Reads(b, p, w, x) /\ (~Short(b, p, 1) => TypeOf(b[p + 1]) = type)
<1>1. Len(w) = 1 + Len(e) /\ Len(e) \in Nat /\ Len(b) \in Nat /\ w \in Seq(Nat)
  BY DEF Tagged
<1>2. CASE Short(b, p, 1)
  <2>1. Decoded(b, p) = Invalid
    BY <1>2 DEF Decoded
  <2>2. ~(p + Len(w) <= Len(b))
    BY <1>1, <1>2 DEF Short
  <2> QED
    BY <1>1, <1>2, <2>1, <2>2 DEF Reads, Gives
<1>3. CASE ~Short(b, p, 1)
  <2>1. TypeOf(b[p + 1]) = type /\ CookieOf(b[p + 1]) = cookie
    BY <1>3 DEF Tagged
  <2>2. p + 1 <= Len(b)
    BY <1>1, <1>3 DEF Short
  <2>3. Gives(push_value(b, p + 1, type, cookie), b, p + 1, Len(e), x)
    BY <2>2
  <2>4. Decoded(b, p) = push_value(b, p + 1, type, cookie)
    BY <1>3, <2>1 DEF Decoded
  <2>5. (p + 1) + Len(e) = p + Len(w)
    BY <1>1
  <2>6. Gives(Decoded(b, p), b, p, Len(w), x)
    BY <2>3, <2>4, <2>5 DEF Gives
  <2> QED
    BY <1>1, <2>1, <2>6 DEF Reads
<1> QED
  BY <1>2, <1>3

LEMMA BufferIs ==
    ASSUME NEW b \in Seq(Nat), NEW p \in Nat, NEW s \in Seq(Nat), Holds(b, p, s)
    PROVE  Gives(get_buffer(b, p, Len(s)), b, p, Len(s), Str(s))
<1>1. Len(s) \in Nat /\ Len(b) \in Nat
  OBVIOUS
<1>2. CASE Short(b, p, Len(s))
  <2>1. ~(p + Len(s) <= Len(b))
    BY <1>1, <1>2 DEF Short
  <2> QED
    BY <1>2, <2>1 DEF get_buffer, Gives
<1>3. CASE ~Short(b, p, Len(s))
  <2>1. p + Len(s) <= Len(b)
    BY <1>1, <1>3 DEF Short
  <2>2. Cells(b, p, Len(s)) = s
    BY <2>1, CellsAre
  <2> QED
    BY <1>3, <2>1, <2>2 DEF get_buffer, Gives
<1> QED
  BY <1>2, <1>3

LEMMA LongStringIs ==
    ASSUME NEW b \in Seq(Nat), NEW p \in Nat, NEW s \in Seq(Nat), NEW n \in 0..8,
           Len(s) \in 0..(Span[n] - 1), NEW e, e = Bytes(Len(s), n) \o s, Holds(b, p, e)
    PROVE  e \in Seq(Nat) /\ Gives(LongString(b, p, n), b, p, Len(e), Str(s))
<1> DEFINE k == Len(s)
           len == Bytes(k, n)
<1>0. k \in Int
  OBVIOUS
<1> HIDE DEF k
<1>9. Bytes(k, n) \in Seq(Nat) /\ Len(Bytes(k, n)) = n
  BY <1>0, BytesAre
<1>1. len \in Seq(Nat) /\ Len(len) = n /\ Len(s) \in Nat /\ Len(b) \in Nat /\ n \in Nat
  BY <1>9 DEF k
<1>2. Unsigned(len) = Len(s)
  BY UnsignedExact DEF k
<1>7. len = Bytes(Len(s), n)
  BY DEF k
<1> HIDE DEF len
<1>3. e \in Seq(Nat) /\ Len(e) = n + Len(s)
  <2>1. e = len \o s
    BY <1>7
  <2> QED
    BY <1>1, <2>1, ConcatProperties
<1>4. Holds(b, p, len) /\ Holds(b, p + n, s)
  <2>1. Holds(b, p, len \o s)
    BY <1>7
  <2> QED
    BY <1>1, <2>1, HoldsParts
<1>5. CASE Short(b, p, n)
  <2>1. ~(p + Len(e) <= Len(b))
    BY <1>1, <1>3, <1>5 DEF Short
  <2> QED
    BY <1>3, <1>5, <2>1 DEF LongString, Gives
<1>6. CASE ~Short(b, p, n)
  <2>1. p + n <= Len(b) /\ p + n \in Nat /\ (p + n) + Len(s) = p + Len(e)
    BY <1>1, <1>3, <1>6 DEF Short
  <2>2. Cells(b, p, n) = len
    BY <1>1, <1>4, <2>1, CellsAre
  <2>3. LongString(b, p, n) = get_buffer(b, p + n, Len(s))
    BY <1>2, <1>6, <2>2 DEF LongString
  <2>4. Gives(get_buffer(b, p + n, Len(s)), b, p + n, Len(s), Str(s))
    BY <1>4, <2>1, BufferIs
  <2> QED
    BY <1>3, <2>1, <2>3, <2>4 DEF Gives
<1> QED
  BY <1>5, <1>6

LEMMA Regroup ==
    ASSUME NEW r \in Seq(Nat), NEW s \in Seq(Nat), NEW t \in Seq(Nat)
    PROVE  (r \o s) \o t = r \o (s \o t)
OBVIOUS

LEMMA StringRead ==
    ASSUME NEW b \in Seq(Nat), NEW p \in Nat, NEW s \in Seq(Nat), Fits(Len(s), 4),
           Holds(b, p, wb_string(s))
    PROVE  Reads(b, p, wb_string(s), Str(s)) /\ IsLeaf(b, p)
<1>0. 0..8 \subseteq 0..(MAX_COOKIE - 1) /\ Len(s) \in Nat
  BY SerializeAssumption DEF TYPE_NUMBER_REAL
<1> DEFINE w == wb_string(s)
<1>1. CASE Len(s) < MAX_COOKIE
  <2> DEFINE k == Len(s)
  <2>1. w = Tag(TYPE_SHORT_STRING, k) \o s
    BY <1>1 DEF wb_string
  <2>2. k \in 0..(MAX_COOKIE - 1)
    BY <1>0, <1>1, SerializeAssumption
  <2>3. Holds(b, p, w) /\ k = Len(s)
    OBVIOUS
  <2> HIDE DEF w, k
  <2>4. Tagged(b, p, w, TYPE_SHORT_STRING, k, s)
    BY <2>1, <2>2, <2>3, TypesAre, TagFirst
  <2>5. Gives(get_buffer(b, p + 1, Len(s)), b, p + 1, Len(s), Str(s))
    BY <2>4, BufferIs DEF Tagged
  <2>6. push_value(b, p + 1, TYPE_SHORT_STRING, k) = get_buffer(b, p + 1, k)
    BY DEF push_value, TYPE_NIL, TYPE_BOOLEAN, TYPE_NUMBER, TYPE_USERDATA,
           TYPE_SHORT_STRING, TYPE_LONG_STRING, TYPE_TABLE
  <2>7. Reads(b, p, w, Str(s)) /\ (~Short(b, p, 1) => TypeOf(b[p + 1]) = TYPE_SHORT_STRING)
    BY <2>3, <2>4, <2>5, <2>6, TagRead
  <2> QED
    BY <2>7, TypesAre DEF w, IsLeaf
<1>2. ASSUME NEW n \in {2, 4}, w = (Tag(TYPE_LONG_STRING, n) \o Bytes(Len(s), n)) \o s,
             Len(s) \in 0..(Span[n] - 1)
      PROVE  Reads(b, p, w, Str(s)) /\ IsLeaf(b, p)
  <2> DEFINE k == Len(s)
             len == Bytes(k, n)
             e == len \o s
             tag == Tag(TYPE_LONG_STRING, n)
  <2>1. n \in 0..8 /\ n \in 0..(MAX_COOKIE - 1) /\ k \in Int
    BY <1>0
  <2>2. Holds(b, p, w) /\ w = (tag \o len) \o s /\ e = Bytes(Len(s), n) \o s
    BY <1>2
  <2> HIDE DEF w, k
  <2>3. len \in Seq(Nat) /\ tag \in Seq(Nat)
    BY <2>1, TypesAre, BytesAre, TagIs
  <2> HIDE DEF len, tag
  <2>4. w = tag \o e /\ e \in Seq(Nat)
    <3>0. s \in Seq(Nat) /\ len \in Seq(Nat) /\ tag \in Seq(Nat)
      BY <2>3
    <3>1. (tag \o len) \o s = tag \o (len \o s)
      BY <3>0, Regroup
    <3>2. len \o s \in Seq(Nat)
      BY <2>3, ConcatProperties
    <3> QED
      BY <2>2, <3>1, <3>2
  <2> HIDE DEF e
  <2>5. Tagged(b, p, w, TYPE_LONG_STRING, n, e)
    BY <2>1, <2>2, <2>4, TypesAre, TagFirst DEF tag
  <2>6. Holds(b, p + 1, e) /\ p + 1 \in Nat
    BY <2>5 DEF Tagged
  <2>8. Gives(LongString(b, p + 1, n), b, p + 1, Len(e), Str(s))
    BY <1>2, <2>1, <2>2, <2>6, LongStringIs
  <2>9. push_value(b, p + 1, TYPE_LONG_STRING, n) = LongString(b, p + 1, n)
    BY <1>2 DEF push_value, TYPE_NIL, TYPE_BOOLEAN, TYPE_NUMBER, TYPE_USERDATA,
           TYPE_SHORT_STRING, TYPE_LONG_STRING, TYPE_TABLE
  <2>10. Reads(b, p, w, Str(s)) /\ (~Short(b, p, 1) => TypeOf(b[p + 1]) = TYPE_LONG_STRING)
    BY <2>4, <2>5, <2>8, <2>9, TagRead
  <2> QED
    BY <2>10, TypesAre DEF IsLeaf
<1>3. CASE ~(Len(s) < MAX_COOKIE) /\ Len(s) < Span[2]
  <2>1. w = (Tag(TYPE_LONG_STRING, 2) \o Bytes(Len(s), 2)) \o s
    BY <1>3 DEF wb_string
  <2>2. Len(s) \in 0..(Span[2] - 1)
    <3> DEFINE n == Len(s)
               P == Span[2]
    <3>1. P \in Nat /\ n \in Nat /\ n < P
      BY <1>0, <1>3, SpanIs
    <3> HIDE DEF n, P
    <3>2. n \in 0..(P - 1)
      BY <3>1
    <3> QED
      BY <3>2 DEF n, P
  <2> HIDE DEF w
  <2> QED
    BY <1>2, <2>1, <2>2 DEF w
<1>4. CASE ~(Len(s) < MAX_COOKIE) /\ ~(Len(s) < Span[2])
  <2>1. w = (Tag(TYPE_LONG_STRING, 4) \o Bytes(Len(s), 4)) \o s
    BY <1>4 DEF wb_string
  <2>2. Len(s) \in 0..(Span[4] - 1)
    <3> DEFINE n == Len(s)
               P == Span[4]
    <3>1. P \in Nat /\ n \in Nat /\ 2 * n < P
      BY <1>0, SpanIs DEF Fits
    <3> HIDE DEF n, P
    <3>2. n \in 0..(P - 1)
      BY <3>1
    <3> QED
      BY <3>2 DEF n, P
  <2> HIDE DEF w
  <2> QED
    BY <1>2, <2>1, <2>2 DEF w
<1> QED
  BY <1>1, <1>3, <1>4

LEMMA NilRead ==
    ASSUME NEW b \in Seq(Nat), NEW p \in Nat, Holds(b, p, wb_nil)
    PROVE  Reads(b, p, wb_nil, Nil) /\ IsLeaf(b, p)
<1> DEFINE e == << >>
           w == wb_nil
<1>1. 0 \in 0..(MAX_COOKIE - 1) /\ e \in Seq(Nat) /\ w = Tag(TYPE_NIL, 0) /\ Holds(b, p, w)
  BY SerializeAssumption DEF TYPE_NUMBER_REAL, wb_nil
<1> HIDE DEF w
<1>2. Tagged(b, p, w, TYPE_NIL, 0, e)
  BY <1>1, TypesAre, TagAlone
<1>3. push_value(b, p + 1, TYPE_NIL, 0) = Result(Nil, p + 1)
  BY DEF push_value, TYPE_NIL, TYPE_BOOLEAN, TYPE_NUMBER, TYPE_USERDATA,
         TYPE_SHORT_STRING, TYPE_LONG_STRING, TYPE_TABLE
<1>4. p + 1 <= Len(b) => Gives(push_value(b, p + 1, TYPE_NIL, 0), b, p + 1, Len(e), Nil)
  BY <1>3 DEF Gives
<1> HIDE DEF e
<1>5. Reads(b, p, w, Nil) /\ (~Short(b, p, 1) => TypeOf(b[p + 1]) = TYPE_NIL)
  BY <1>1, <1>2, <1>4, TagRead
<1> QED
  BY <1>5, TypesAre DEF w, IsLeaf

LEMMA BooleanRead ==
    ASSUME NEW b \in Seq(Nat), NEW p \in Nat, NEW n \in {0, 1},
           NEW w, w = Tag(TYPE_BOOLEAN, n), Holds(b, p, w)
    PROVE  Reads(b, p, w, [k |-> "boolean", v |-> <<n>>]) /\ IsLeaf(b, p)
<1> DEFINE e == << >>
           x == [k |-> "boolean", v |-> <<n>>]
<1>1. n \in 0..(MAX_COOKIE - 1) /\ e \in Seq(Nat)
  BY SerializeAssumption DEF TYPE_NUMBER_REAL
<1>2. Tagged(b, p, w, TYPE_BOOLEAN, n, e)
  BY <1>1, TypesAre, TagAlone
<1>3. push_value(b, p + 1, TYPE_BOOLEAN, n) = Result(x, p + 1)
  BY DEF push_value, TYPE_NIL, TYPE_BOOLEAN, TYPE_NUMBER, TYPE_USERDATA,
         TYPE_SHORT_STRING, TYPE_LONG_STRING, TYPE_TABLE
<1> HIDE DEF x
<1>4. p + 1 <= Len(b) => Gives(push_value(b, p + 1, TYPE_BOOLEAN, n), b, p + 1, Len(e), x)
  BY <1>3 DEF Gives
<1> HIDE DEF e
<1>5. Reads(b, p, w, x) /\ (~Short(b, p, 1) => TypeOf(b[p + 1]) = TYPE_BOOLEAN)
  BY <1>1, <1>2, <1>4, TagRead
<1> QED
  BY <1>5, TypesAre DEF x, IsLeaf

\* A real or a pointer, that is eight bytes.
LEMMA EightBytesRead ==
    ASSUME NEW b \in Seq(Nat), NEW p \in Nat, NEW n \in 0..(Span[8] - 1),
           NEW k, NEW type, NEW cookie, NEW w,
           w = Tag(type, cookie) \o Bytes(n, 8), Holds(b, p, w),
           \/ k = "real" /\ type = TYPE_NUMBER /\ cookie = TYPE_NUMBER_REAL
           \/ k = "pointer" /\ type = TYPE_USERDATA /\ cookie = 0
    PROVE  Reads(b, p, w, [k |-> k, v |-> <<n>>]) /\ IsLeaf(b, p)
<1> DEFINE e == Bytes(n, 8)
           x == [k |-> k, v |-> <<n>>]
<1>1. type \in 0..7 /\ type # TYPE_TABLE /\ k # "int"
  BY TypesAre
<1>11. cookie \in 0..(MAX_COOKIE - 1)
  <2>1. 0 \in 0..(MAX_COOKIE - 1) /\ TYPE_NUMBER_REAL \in 0..(MAX_COOKIE - 1)
    BY SerializeAssumption DEF TYPE_NUMBER_REAL
  <2> QED
    BY <2>1
<1>2. n \in Int /\ 8 \in 0..8 /\ 8 \in 1..8
  <2>1. Span[8] \in Nat
    BY SpanIs
  <2> QED
    BY <2>1
<1>3. e \in Seq(Nat) /\ Len(e) = 8
  BY <1>2, BytesAre
<1>4. w = Tag(type, cookie) \o e
  OBVIOUS
<1>5. e = Bytes(n, 8)
  OBVIOUS
<1> HIDE DEF e
<1>6. Tagged(b, p, w, type, cookie, e)
  BY <1>1, <1>11, <1>3, <1>4, TagFirst
<1>7. Holds(b, p + 1, e) /\ p + 1 \in Nat
  BY <1>6 DEF Tagged
<1>8. Gives(Number(b, p + 1, 8, k), b, p + 1, 8, x)
  BY <1>1, <1>2, <1>5, <1>7, NumberIs
<1>9. push_value(b, p + 1, type, cookie) = Number(b, p + 1, 8, k)
  BY DEF push_value, TYPE_NIL, TYPE_BOOLEAN, TYPE_NUMBER, TYPE_USERDATA, TYPE_NUMBER_REAL,
         TYPE_SHORT_STRING, TYPE_LONG_STRING, TYPE_TABLE
<1> HIDE DEF x
<1>10. Reads(b, p, w, x) /\ (~Short(b, p, 1) => TypeOf(b[p + 1]) = type)
  BY <1>3, <1>6, <1>8, <1>9, TagRead
<1> QED
  BY <1>1, <1>10 DEF x, IsLeaf

LEMMA IntegerRead ==
    ASSUME NEW b \in Seq(Nat), NEW p \in Nat, NEW n \in Int, Fits(n, 8),
           Holds(b, p, wb_integer(n))
    PROVE  Reads(b, p, wb_integer(n), Integer(n)) /\ IsLeaf(b, p)
<1> DEFINE w == wb_integer(n)
           x == Integer(n)
           c == CookieOf(b[p + 1])
<1>1. /\ w \in Seq(Nat) /\ Len(w) >= 1
      /\ ~Short(b, p, 1) =>
             /\ TypeOf(b[p + 1]) = TYPE_NUMBER
             /\ c # TYPE_NUMBER_REAL
             /\ Gives(get_integer(b, p + 1, c), b, p, Len(w), x)
  BY IntegerIs
<1> HIDE DEF w, x, c
<1>2. CASE Short(b, p, 1)
  <2>1. ~(p + Len(w) <= Len(b))
    BY <1>1, <1>2 DEF Short
  <2>2. Decoded(b, p) = Invalid
    BY <1>2 DEF Decoded
  <2> QED
    BY <1>1, <1>2, <2>1, <2>2 DEF Reads, Gives, IsLeaf, w, x
<1>3. CASE ~Short(b, p, 1)
  <2>1. Decoded(b, p) = push_value(b, p + 1, TYPE_NUMBER, c)
    BY <1>1, <1>3 DEF Decoded, c
  <2>2. push_value(b, p + 1, TYPE_NUMBER, c) = get_integer(b, p + 1, c)
    BY <1>1, <1>3 DEF push_value, TYPE_NIL, TYPE_BOOLEAN, TYPE_NUMBER, TYPE_USERDATA,
         TYPE_SHORT_STRING, TYPE_LONG_STRING, TYPE_TABLE
  <2>3. Gives(Decoded(b, p), b, p, Len(w), x)
    BY <1>1, <1>3, <2>1, <2>2
  <2> QED
    BY <1>1, <1>3, <2>3, TypesAre DEF Reads, IsLeaf, w, x
<1> QED
  BY <1>2, <1>3

\* Values that are no tables are read as they were written.
LEMMA ValueRead ==
    ASSUME NEW b \in Seq(Nat), NEW p \in Nat, NEW x, IsValue(x), ~IsTable(x), x.k # "function",
           Holds(b, p, Encoded(x))
    PROVE  Reads(b, p, Encoded(x), x) /\ IsLeaf(b, p)
<1> DEFINE k == x.k
           v == x.v
           n == v[1]
<1>0. x = [k |-> k, v |-> v]
  BY DEF IsValue
<1>1. CASE k = "nil"
  <2>1. x = Nil /\ Encoded(x) = wb_nil
    BY <1>0, <1>1 DEF IsValue, Nil, Encoded
  <2> QED
    BY <2>1, NilRead
<1>2. CASE k = "int"
  <2>1. x = Integer(n) /\ Encoded(x) = wb_integer(n) /\ n \in Int /\ Fits(n, 8)
    BY <1>0, <1>2 DEF IsValue, Integer, Encoded
  <2> HIDE DEF n
  <2> QED
    BY <2>1, IntegerRead
<1>3. CASE k \in {"real", "pointer"}
  <2>1. /\ x = [k |-> k, v |-> <<n>>] /\ n \in 0..(Span[8] - 1)
    BY <1>0, <1>3 DEF IsValue
  <2>2. \/ k = "real" /\ Encoded(x) = Tag(TYPE_NUMBER, TYPE_NUMBER_REAL) \o Bytes(n, 8)
        \/ k = "pointer" /\ Encoded(x) = Tag(TYPE_USERDATA, 0) \o Bytes(n, 8)
    BY <1>3 DEF Encoded
  <2> DEFINE w == Encoded(x)
  <2>3. Holds(b, p, w)
    OBVIOUS
  <2> HIDE DEF n, k, w
  <2>4. Reads(b, p, w, [k |-> k, v |-> <<n>>]) /\ IsLeaf(b, p)
    BY <2>1, <2>2, <2>3, EightBytesRead DEF w
  <2> QED
    BY <2>1, <2>4 DEF w
<1>4. CASE k = "boolean"
  <2>1. /\ x = [k |-> "boolean", v |-> <<n>>] /\ n \in {0, 1}
        /\ Encoded(x) = Tag(TYPE_BOOLEAN, n)
    BY <1>0, <1>4 DEF IsValue, Encoded
  <2> HIDE DEF n
  <2>2. Reads(b, p, Encoded(x), [k |-> "boolean", v |-> <<n>>]) /\ IsLeaf(b, p)
    BY <2>1, BooleanRead
  <2> QED
    BY <2>1, <2>2
<1>5. CASE k = "string"
  <2>1. x = Str(v) /\ Encoded(x) = wb_string(v) /\ v \in Seq(0..(Base - 1)) /\ Fits(Len(v), 4)
    BY <1>0, <1>5 DEF IsValue, Str, Encoded
  <2>2. v \in Seq(Nat)
    BY <2>1, SerializeAssumption
  <2> HIDE DEF v
  <2> QED
    BY <2>1, <2>2, StringRead
<1> QED
  BY <1>1, <1>2, <1>3, <1>4, <1>5 DEF IsValue, IsTable

\* The beginning of a table is read as its length.
LEMMA HeaderRead ==
    ASSUME NEW b \in Seq(Nat), NEW p \in Nat, NEW n \in Nat, Fits(n, 8),
           Holds(b, p, ArrayHeader(n))
    PROVE  /\ Reads(b, p, ArrayHeader(n), Integer(n))
           /\ ~Short(b, p, 1) => TypeOf(b[p + 1]) = TYPE_TABLE
<1> DEFINE w == ArrayHeader(n)
<1>0. MAX_COOKIE - 1 \in 0..(MAX_COOKIE - 1) /\ MAX_COOKIE \in Nat
  BY SerializeAssumption DEF TYPE_NUMBER_REAL
<1>1. \A q, c : push_value(b, q, TYPE_TABLE, c) = array_size(b, q, c)
  BY DEF push_value, TYPE_NIL, TYPE_BOOLEAN, TYPE_NUMBER, TYPE_USERDATA,
         TYPE_SHORT_STRING, TYPE_LONG_STRING, TYPE_TABLE
<1>2. CASE n < MAX_COOKIE - 1
  <2> DEFINE e == << >>
  <2>1. w = Tag(TYPE_TABLE, n) /\ n \in 0..(MAX_COOKIE - 1) /\ Holds(b, p, w) /\ e \in Seq(Nat)
    BY <1>0, <1>2 DEF ArrayHeader
  <2> HIDE DEF w
  <2>2. Tagged(b, p, w, TYPE_TABLE, n, e)
    BY <2>1, TypesAre, TagAlone
  <2>3. array_size(b, p + 1, n) = Result(Integer(n), p + 1)
    BY <1>0, <1>2 DEF array_size
  <2>4. p + 1 <= Len(b) =>
            Gives(push_value(b, p + 1, TYPE_TABLE, n), b, p + 1, Len(e), Integer(n))
    BY <1>1, <2>3 DEF Gives
  <2> HIDE DEF e
  <2> QED
    BY <2>1, <2>2, <2>4, TagRead DEF w
<1>3. CASE ~(n < MAX_COOKIE - 1)
  <2> DEFINE e == wb_integer(n)
             c == MAX_COOKIE - 1
  <2>1. w = Tag(TYPE_TABLE, c) \o e /\ Holds(b, p, w)
    BY <1>0, <1>3 DEF ArrayHeader
  <2>2. n \in Int /\ e \in Seq(Nat) /\ Len(e) >= 1
    <3>1. << >> \in Seq(Nat) /\ Holds(<< >>, 0, e) /\ 0 \in Nat
      BY DEF Holds
    <3>2. PICK a \in Seq(Nat), q \in Nat : Holds(a, q, e)
      BY <3>1
    <3> QED
      BY <3>2, IntegerIs
  <2>3. c \in 0..(MAX_COOKIE - 1)
    BY <1>0
  <2> HIDE DEF w, e, c
  <2>4. Tagged(b, p, w, TYPE_TABLE, c, e)
    BY <2>1, <2>2, <2>3, TypesAre, TagFirst
  <2> DEFINE q == p + 1
             cookie == CookieOf(b[q + 1])
  <2>5. Holds(b, q, wb_integer(n)) /\ q \in Nat
    BY <2>4 DEF Tagged, e
  <2>6. ~Short(b, q, 1) =>
            /\ TypeOf(b[q + 1]) = TYPE_NUMBER
            /\ cookie # TYPE_NUMBER_REAL
            /\ Gives(get_integer(b, q + 1, cookie), b, q, Len(e), Integer(n))
    BY <2>2, <2>5, IntegerIs DEF e
  <2> HIDE DEF q, cookie
  <2>7. array_size(b, q, c) =
            IF Short(b, q, 1) THEN Invalid
            ELSE IF TypeOf(b[q + 1]) # TYPE_NUMBER \/ cookie = TYPE_NUMBER_REAL THEN Invalid
            ELSE get_integer(b, q + 1, cookie)
    BY DEF array_size, cookie, c
  <2>8. Gives(array_size(b, q, c), b, q, Len(e), Integer(n))
    <3>1. CASE Short(b, q, 1)
      <4>1. ~(q + Len(e) <= Len(b))
        BY <2>2, <2>5, <3>1 DEF Short
      <4> QED
        BY <2>7, <3>1, <4>1 DEF Gives
    <3>2. CASE ~Short(b, q, 1)
      BY <2>6, <2>7, <3>2
    <3> QED
      BY <3>1, <3>2
  <2>9. Gives(push_value(b, p + 1, TYPE_TABLE, c), b, p + 1, Len(e), Integer(n))
    BY <1>1, <2>8 DEF q
  <2> QED
    BY <2>2, <2>4, <2>9, TagRead DEF w
<1> QED
  BY <1>2, <1>3

-----------------------------------------------------------------------------
(* Tables and their slots. *)

Jobs == {"pack", "concat"}

LEMMA RowIs ==
    ASSUME NEW t \in DOMAIN Heap
    PROVE  /\ Heap[t].length \in Nat /\ Fits(Heap[t].length, 8)
           /\ Heap[t].pairs \in Seq(Pairs(t))
           /\ \A p \in Pairs(t) :
                  /\ p = <<p[1], p[2]>> /\ IsValue(p[1]) /\ IsValue(p[2]) /\ p[1] # Nil
                  /\ \E i \in 1..Len(Heap[t].pairs) : p = Heap[t].pairs[i]
           /\ \A p, q \in Pairs(t) : p[1] = q[1] => p = q
           /\ \A i, k \in 1..Len(Heap[t].pairs) :
                  Heap[t].pairs[i][1] = Heap[t].pairs[k][1] => i = k
           /\ Heap[t].length > 0 => \E p \in Pairs(t) : p[1] = Integer(Heap[t].length)
<1> DEFINE ps == Heap[t].pairs
<1>1. IsRow(Heap[t]) /\ ps \in Seq(Pairs(t))
  BY SerializeAssumption
<1>2. DOMAIN ps = 1..Len(ps) /\ Pairs(t) = {ps[i] : i \in 1..Len(ps)}
  BY <1>1 DEF Pairs, ToSet
<1>3. Heap[t].length \in Nat /\ Fits(Heap[t].length, 4)
  BY <1>1 DEF IsRow
<1>4. Fits(Heap[t].length, 8)
  <2>1. ASSUME NEW n \in 0..7
        PROVE  Span[n] \in Nat /\ Span[n + 1] \in Nat /\ Span[n] <= Span[n + 1]
    <3>1. n \in 0..8 /\ n + 1 \in 1..8 /\ n + 1 \in 0..8 /\ (n + 1) - 1 = n
      OBVIOUS
    <3>2. Span[n + 1] = Base * Span[n] /\ Span[n] \in Nat /\ Span[n + 1] \in Nat
      BY <3>1, SpanIs
    <3> DEFINE s == Span[n]
    <3>3. s \in Nat /\ Base \in Nat /\ Base >= 1
      BY <3>2, SerializeAssumption
    <3> HIDE DEF s
    <3>4. s <= Base * s
      BY <3>3
    <3> QED
      BY <3>2, <3>4 DEF s
  <2>2. /\ Span[4] \in Nat /\ Span[5] \in Nat /\ Span[6] \in Nat /\ Span[7] \in Nat
        /\ Span[8] \in Nat
        /\ Span[4] <= Span[5] /\ Span[5] <= Span[6] /\ Span[6] <= Span[7] /\ Span[7] <= Span[8]
    <3>1. /\ Span[4] \in Nat /\ Span[4 + 1] \in Nat /\ Span[4] <= Span[4 + 1]
          /\ Span[5 + 1] \in Nat /\ Span[5] <= Span[5 + 1]
      BY <2>1
    <3>2. /\ Span[6 + 1] \in Nat /\ Span[6] <= Span[6 + 1]
          /\ Span[7 + 1] \in Nat /\ Span[7] <= Span[7 + 1]
      BY <2>1
    <3> QED
      BY <3>1, <3>2
  <2>3. Span[4] <= Span[8]
    BY <2>2
  <2> QED
    BY <1>3, <2>2, <2>3 DEF Fits
<1>5. \A i \in 1..Len(ps) :
          ps[i] = <<ps[i][1], ps[i][2]>> /\ IsValue(ps[i][1]) /\ IsValue(ps[i][2])
          /\ ps[i][1] # Nil
  BY <1>1, <1>2 DEF IsRow
<1>6. \A i, k \in 1..Len(ps) : ps[i][1] = ps[k][1] => i = k
  BY <1>1, <1>2 DEF IsRow
<1>7. Heap[t].length > 0 => \E i \in 1..Len(ps) : ps[i][1] = Integer(Heap[t].length)
  BY <1>1, <1>2 DEF IsRow
<1> HIDE DEF ps
<1>8. \A p \in Pairs(t) :
          /\ p = <<p[1], p[2]>> /\ IsValue(p[1]) /\ IsValue(p[2]) /\ p[1] # Nil
          /\ \E i \in 1..Len(ps) : p = ps[i]
  BY <1>2, <1>5
<1>9. \A p, q \in Pairs(t) : p[1] = q[1] => p = q
  BY <1>2, <1>6
<1>10. Heap[t].length > 0 => \E p \in Pairs(t) : p[1] = Integer(Heap[t].length)
  BY <1>2, <1>7
<1> QED
  BY <1>1, <1>3, <1>4, <1>6, <1>8, <1>9, <1>10 DEF ps

LEMMA IntegersDiffer ==
    ASSUME NEW a, NEW b, Integer(a) = Integer(b)
    PROVE  a = b
<1>1. Integer(a).v[1] = a /\ Integer(b).v[1] = b
  BY DEF Integer
<1> QED
  BY <1>1

LEMMA RawGetIs ==
    ASSUME NEW t \in DOMAIN Heap, NEW i
    PROVE  /\ \A p \in Pairs(t) : p[1] = Integer(i) => p = <<Integer(i), rawgeti(t, i)>>
           /\ rawgeti(t, i) # Nil => <<Integer(i), rawgeti(t, i)>> \in Pairs(t)
           /\ IsValue(rawgeti(t, i))
<1>1. \A p \in Pairs(t) : p = <<p[1], p[2]>> /\ IsValue(p[2])
  BY RowIs
<1>2. \A p, q \in Pairs(t) : p[1] = q[1] => p = q
  BY RowIs
<1>3. IsValue(Nil)
  BY DEF IsValue, Nil
<1>4. CASE \E p \in Pairs(t) : p[1] = Integer(i)
  <2> DEFINE c == CHOOSE p \in Pairs(t) : p[1] = Integer(i)
  <2>1. c \in Pairs(t) /\ c[1] = Integer(i)
    BY <1>4
  <2>2. rawgeti(t, i) = c[2]
    BY <1>4 DEF rawgeti
  <2> HIDE DEF c
  <2>3. c = <<Integer(i), rawgeti(t, i)>>
    BY <1>1, <2>1, <2>2
  <2>4. \A p \in Pairs(t) : p[1] = Integer(i) => p = c
    BY <1>2, <2>1
  <2> QED
    BY <1>1, <2>1, <2>2, <2>3, <2>4
<1>5. CASE ~ \E p \in Pairs(t) : p[1] = Integer(i)
  <2>1. rawgeti(t, i) = Nil
    BY <1>5 DEF rawgeti
  <2> QED
    BY <1>3, <1>5, <2>1
<1> QED
  BY <1>4, <1>5

LEMMA SlotsAre ==
    ASSUME NEW j \in Jobs, NEW t \in DOMAIN Heap
    PROVE  /\ Len(Slots(j, t)) \in Nat /\ Heap[t].length <= Len(Slots(j, t))
           /\ j = "concat" => Len(Slots(j, t)) = Heap[t].length
           /\ j = "pack" => Len(Slots(j, t)) = Heap[t].length + Len(Heap[t].pairs)
           /\ \A i \in 1..Heap[t].length : Slots(j, t)[i] = <<Integer(i), rawgeti(t, i)>>
           /\ \A i \in 1..Len(Slots(j, t)) : i > Heap[t].length =>
                  j = "pack" /\ Slots(j, t)[i] = Heap[t].pairs[i - Heap[t].length]
<1> DEFINE n == Heap[t].length
           ps == Heap[t].pairs
           a == [i \in 1..n |-> <<Integer(i), rawgeti(t, i)>>]
           e == IF j = "pack" THEN ps ELSE << >>
           X == {a[i] : i \in 1..n} \cup Pairs(t)
<1>1. n \in Nat /\ ps \in Seq(Pairs(t))
  BY RowIs
<1>2. Slots(j, t) = a \o e
  BY DEF Slots
<1> HIDE DEF n, ps
<1>3. a \in Seq(X) /\ Len(a) = n
  <2>1. a \in [1..n -> X]
    OBVIOUS
  <2> HIDE DEF X, a
  <2> QED
    BY <1>1, <2>1 DEF a
<1>4. \A i \in 1..n : a[i] = <<Integer(i), rawgeti(t, i)>>
  OBVIOUS
<1>5. e \in Seq(X)
  <2>1. ps \in Seq(X)
    <3>1. Pairs(t) \subseteq X
      OBVIOUS
    <3> HIDE DEF X
    <3> QED
      BY <1>1, <3>1
  <2> QED
    BY <2>1
<1>6. (j = "pack" => e = ps) /\ (j = "concat" => e = << >>)
  OBVIOUS
<1> HIDE DEF a, e, X
<1>7. /\ Len(a \o e) = n + Len(e)
      /\ \A i \in 1..(n + Len(e)) : (a \o e)[i] = IF i <= n THEN a[i] ELSE e[i - n]
  BY <1>3, <1>5, ConcatProperties
<1>8. j = "concat" => Len(e) = 0
  BY <1>6
<1>9. Len(e) \in Nat
  BY <1>5
<1>10. Len(Slots(j, t)) = n + Len(e)
  BY <1>2, <1>7
<1>11. \A i \in 1..(n + Len(e)) : Slots(j, t)[i] = IF i <= n THEN a[i] ELSE e[i - n]
  BY <1>2, <1>7
<1>12. \A i \in 1..n : Slots(j, t)[i] = <<Integer(i), rawgeti(t, i)>>
  BY <1>1, <1>4, <1>9, <1>11
<1>13. \A i \in 1..Len(Slots(j, t)) : i > n => j = "pack" /\ Slots(j, t)[i] = ps[i - n]
  <2> TAKE i \in 1..Len(Slots(j, t))
  <2> HAVE i > n
  <2>1. i \in 1..(n + Len(e)) /\ ~(i <= n)
    BY <1>1, <1>9, <1>10
  <2>2. j # "concat"
    BY <1>1, <1>8, <2>1
  <2> QED
    BY <1>6, <1>11, <2>1, <2>2 DEF Jobs
<1>14. j = "pack" => Len(Slots(j, t)) = n + Len(ps)
  BY <1>6, <1>10
<1>15. j = "concat" => Len(Slots(j, t)) = n
  BY <1>1, <1>8, <1>10
<1>16. Len(Slots(j, t)) \in Nat /\ n <= Len(Slots(j, t))
  BY <1>1, <1>9, <1>10
<1> QED
  BY <1>12, <1>13, <1>14, <1>15, <1>16 DEF n, ps

\* The slot is in the array part, or it holds a pair.
LEMMA SlotIs ==
    ASSUME NEW j \in Jobs, NEW t \in DOMAIN Heap, NEW i \in 1..Len(Slots(j, t))
    PROVE  /\ Slots(j, t)[i] = <<Slots(j, t)[i][1], Slots(j, t)[i][2]>>
           /\ IsValue(Slots(j, t)[i][2])
           /\ Slots(j, t)[i][1] # Nil
           /\ i > Heap[t].length => Slots(j, t)[i] \in Pairs(t) /\ IsValue(Slots(j, t)[i][1])
<1>1. CASE i <= Heap[t].length
  <2>1. Heap[t].length \in Nat
    BY RowIs
  <2>2. Slots(j, t)[i] = <<Integer(i), rawgeti(t, i)>>
    BY <1>1, <2>1, SlotsAre
  <2>3. Integer(i) # Nil
    BY DEF Integer, Nil
  <2> QED
    BY <1>1, <2>1, <2>2, <2>3, RawGetIs
<1>2. CASE i > Heap[t].length
  <2> DEFINE n == Heap[t].length
             ps == Heap[t].pairs
  <2>1. n \in Nat /\ ps \in Seq(Pairs(t))
    BY RowIs
  <2>2. j = "pack" /\ Slots(j, t)[i] = ps[i - n] /\ Len(Slots(j, t)) = n + Len(ps)
    BY <1>2, SlotsAre
  <2> HIDE DEF n, ps
  <2>3. i - n \in 1..Len(ps)
    BY <1>2, <2>1, <2>2 DEF n
  <2>4. ps[i - n] \in Pairs(t)
    BY <2>1, <2>3
  <2> QED
    BY <2>2, <2>4, RowIs
<1>3. Heap[t].length \in Nat
  BY RowIs
<1> QED
  BY <1>1, <1>2, <1>3

LEMMA NextSlotIs ==
    ASSUME NEW j \in Jobs, NEW t \in DOMAIN Heap, NEW i \in 0..Len(Slots(j, t))
    PROVE  /\ NextSlot(j, t, i) \in (i + 1)..(Len(Slots(j, t)) + 1)
           /\ ~Skipped(j, t, NextSlot(j, t, i))
           /\ \A n \in (i + 1)..(NextSlot(j, t, i) - 1) : Skipped(j, t, n)
<1> DEFINE N == Len(Slots(j, t))
           T == {m \in (i + 1)..(N + 1) : ~Skipped(j, t, m)}
<1>1. N \in Nat /\ i \in Nat
  BY SlotsAre
<1>2. N + 1 \in T
  <2>1. ~(N + 1 \in (Heap[t].length + 1)..N)
    BY <1>1
  <2>2. ~Skipped(j, t, N + 1)
    BY <2>1 DEF Skipped
  <2> QED
    BY <1>1, <2>2
<1>3. T \subseteq Nat /\ T # {}
  BY <1>1, <1>2
<1>4. PICK m \in T : \A n \in T : m <= n
  <2> HIDE DEF T
  <2> QED
    BY <1>3, LeastNumber
<1>5. m \in (i + 1)..(N + 1) /\ ~Skipped(j, t, m)
  OBVIOUS
<1>6. ASSUME NEW n \in (i + 1)..(m - 1)
      PROVE  Skipped(j, t, n)
  <2>1. n \in (i + 1)..(N + 1) /\ ~(m <= n)
    BY <1>1, <1>5
  <2> QED
    BY <1>4, <2>1
<1> DEFINE P(k) == ~Skipped(j, t, k) /\ \A n \in (i + 1)..(k - 1) : Skipped(j, t, n)
           D == (i + 1)..(N + 1)
<1>7. m \in D /\ P(m)
  BY <1>5, <1>6
<1>8. NextSlot(j, t, i) = CHOOSE k \in D : P(k)
  BY DEF NextSlot
<1> HIDE DEF P, D
<1>9. NextSlot(j, t, i) \in D /\ P(NextSlot(j, t, i))
  BY <1>7, <1>8
<1> QED
  BY <1>9 DEF P, D

\* The first slot is not passed over, and in the array part none is.
LEMMA NoneSkipped ==
    ASSUME NEW j \in Jobs, NEW t \in DOMAIN Heap
    PROVE  /\ NextSlot(j, t, 0) = 1
           /\ \A i \in 1..Len(Slots(j, t)) :
                  i < Heap[t].length \/ j = "concat" => NextSlot(j, t, i) = i + 1
<1> DEFINE n == Heap[t].length
           N == Len(Slots(j, t))
<1>1. n \in Nat /\ N \in Nat /\ n <= N /\ (j = "concat" => N = n)
  BY SlotsAre, RowIs
<1> HIDE DEF n, N
<1>2. ASSUME NEW i \in 0..N, i < n \/ j = "concat" \/ i = 0
      PROVE  NextSlot(j, t, i) = i + 1
  <2>1. ~Skipped(j, t, i + 1)
    <3>1. CASE i < n \/ j = "concat"
      <4>1. i + 1 \notin (n + 1)..N
        BY <1>1, <3>1
      <4> QED
        BY <4>1 DEF Skipped, n, N
    <3>2. CASE i = 0 /\ ~(i < n)
      <4>1. 1..n = {}
        BY <1>1, <3>2
      <4> QED
        BY <4>1 DEF Skipped, InArray, n
    <3> QED
      BY <1>2, <3>1, <3>2
  <2> DEFINE m == NextSlot(j, t, i)
  <2>2. m \in (i + 1)..(N + 1) /\ \A k \in (i + 1)..(m - 1) : Skipped(j, t, k)
    BY NextSlotIs DEF N
  <2> HIDE DEF m
  <2>3. m # i + 1 => i + 1 \in (i + 1)..(m - 1)
    BY <1>1, <2>2
  <2> QED
    BY <2>1, <2>2, <2>3 DEF m
<1>3. 0 \in 0..N /\ 0 + 1 = 1 /\ \A i \in 1..N : i \in 0..N
  BY <1>1
<1> QED
  BY <1>2, <1>3 DEF n, N

-----------------------------------------------------------------------------
(* The walk. *)

LEMMA TopIs ==
    ASSUME NEW S, NEW s \in Seq(S), s # << >>
    PROVE  /\ Front(s) \in Seq(S) /\ Len(Front(s)) = Len(s) - 1
           /\ Len(s) \in Nat /\ Len(s) >= 1 /\ Last(s) = s[Len(s)] /\ Last(s) \in S
           /\ \A l \in 1..(Len(s) - 1) : Front(s)[l] = s[l]
           /\ Front(s) = << >> <=> Len(s) = 1
<1> DEFINE n == Len(s)
           r == Front(s)
<1>1. n \in Nat /\ n >= 1
  OBVIOUS
<1>2. r \in Seq(S) /\ Len(r) = n - 1 /\ \A l \in 1..(n - 1) : r[l] = s[l]
  <2>1. r = SubSeq(s, 1, n - 1)
    BY DEF Front
  <2>2. r = [l \in 1..(n - 1) |-> s[l]]
    BY <1>1, <2>1
  <2> QED
    BY <1>1, <2>2
<1>3. Last(s) = s[n] /\ s[n] \in S
  BY <1>1 DEF Last
<1> HIDE DEF r, n
<1>4. r = << >> <=> Len(r) = 0
  BY <1>2, EmptySeq
<1>5. r = << >> <=> n = 1
  BY <1>1, <1>2, <1>4
<1> QED
  BY <1>1, <1>2, <1>3, <1>5 DEF r, n

LEMMA AppendIs ==
    ASSUME NEW S, NEW s \in Seq(S), NEW x \in S
    PROVE  /\ Append(s, x) \in Seq(S) /\ Len(Append(s, x)) = Len(s) + 1
           /\ \A l \in 1..Len(s) : Append(s, x)[l] = s[l]
           /\ Append(s, x)[Len(s) + 1] = x
           /\ Append(s, x) # << >> /\ Last(Append(s, x)) = x /\ Front(Append(s, x)) = s
BY DEF Front, Last

Frames == [t : DOMAIN Heap, i : Nat, half : BOOLEAN]

IsFrame(j, f) ==
    /\ f \in Frames
    /\ f.i \in 1..(Len(Slots(j, f.t)) + 1)
    /\ ~Skipped(j, f.t, f.i)
    /\ f.half => f.i > Heap[f.t].length /\ f.i <= Len(Slots(j, f.t))

\* The arguments of a call.
IsArgs(xs) ==
    /\ Len(xs) \in Nat
    /\ \A i \in 1..Len(xs) : IsValue(xs[i]) /\ xs[i] \in ToSet(xs)
    /\ \A x \in ToSet(xs) : \E i \in 1..Len(xs) : x = xs[i]

\* The stack is a way down from an argument.
IsHere(j, xs, h) ==
    /\ h \in [arg : Nat, stack : Seq(Frames)]
    /\ h.arg \in 1..(Len(xs) + 1)
    /\ Len(h.stack) <= MAX_DEPTH + 1
    /\ \A l \in 1..Len(h.stack) : IsFrame(j, h.stack[l])
    /\ h.stack # << >> => h.arg <= Len(xs) /\ xs[h.arg] = Ref(h.stack[1].t)
    /\ \A l \in 1..(Len(h.stack) - 1) :
           ~AtEnd(j, h.stack[l]) /\ Current(j, h.stack[l]) = Ref(h.stack[l + 1].t)

LEMMA ArgumentsAre == \A xs \in Arguments : IsArgs(xs)
<1> TAKE xs \in Arguments
<1>1. xs \in Seq(ToSet(xs)) /\ \A x \in ToSet(xs) : IsValue(x)
  BY SerializeAssumption
<1>2. DOMAIN xs = 1..Len(xs) /\ Len(xs) \in Nat
  <2> DEFINE S == ToSet(xs)
  <2>1. xs \in Seq(S)
    BY <1>1
  <2> HIDE DEF S
  <2> QED
    BY <2>1
<1>3. ToSet(xs) = {xs[i] : i \in 1..Len(xs)}
  BY <1>2 DEF ToSet
<1> QED
  BY <1>1, <1>2, <1>3 DEF IsArgs

LEMMA CurrentIs ==
    ASSUME NEW j \in Jobs, NEW f, IsFrame(j, f), ~AtEnd(j, f)
    PROVE  /\ f.t \in DOMAIN Heap /\ f.i \in 1..Len(Slots(j, f.t))
           /\ IsValue(Current(j, f))
           /\ AtKey(f) => Current(j, f) # Nil
<1>1. f.t \in DOMAIN Heap /\ f.i \in 1..Len(Slots(j, f.t)) /\ f.half \in BOOLEAN
  <2>1. f.t \in DOMAIN Heap /\ f.i \in 1..(Len(Slots(j, f.t)) + 1) /\ f.half \in BOOLEAN
    BY DEF IsFrame, Frames
  <2>2. Len(Slots(j, f.t)) \in Nat
    BY <2>1, SlotsAre
  <2> QED
    BY <2>1, <2>2 DEF AtEnd
<1> DEFINE slot == Slots(j, f.t)[f.i]
<1>2. /\ IsValue(slot[2]) /\ slot[1] # Nil
      /\ f.i > Heap[f.t].length => IsValue(slot[1])
  BY <1>1, SlotIs
<1>3. Current(j, f) = IF AtKey(f) THEN slot[1] ELSE slot[2]
  BY DEF Current
<1> QED
  BY <1>1, <1>2, <1>3 DEF AtKey

LEMMA AfterIs ==
    ASSUME NEW j \in Jobs, NEW f, IsFrame(j, f), ~AtEnd(j, f)
    PROVE  IsFrame(j, After(j, f)) /\ After(j, f).t = f.t
<1>1. f.t \in DOMAIN Heap /\ f.i \in 1..Len(Slots(j, f.t)) /\ f.half \in BOOLEAN /\ f \in Frames
  BY CurrentIs DEF IsFrame, Frames
<1>2. CASE AtKey(f)
  <2>1. After(j, f) = [f EXCEPT !.half = TRUE]
    BY <1>2 DEF After
  <2>2. After(j, f) = [t |-> f.t, i |-> f.i, half |-> TRUE]
    BY <1>1, <2>1 DEF Frames
  <2> QED
    BY <1>1, <1>2, <2>2 DEF IsFrame, Frames, AtKey, AtEnd
<1>3. CASE ~AtKey(f)
  <2> DEFINE m == NextSlot(j, f.t, f.i)
  <2>1. After(j, f) = [t |-> f.t, i |-> m, half |-> FALSE]
    BY <1>3 DEF After
  <2>2. f.i \in 0..Len(Slots(j, f.t))
    BY <1>1
  <2>3. m \in (f.i + 1)..(Len(Slots(j, f.t)) + 1) /\ ~Skipped(j, f.t, m)
    BY <1>1, <2>2, NextSlotIs
  <2>4. Len(Slots(j, f.t)) \in Nat
    BY <1>1, SlotsAre
  <2> HIDE DEF m
  <2>5. m \in 1..(Len(Slots(j, f.t)) + 1)
    BY <1>1, <2>3, <2>4
  <2>6. After(j, f).t = f.t /\ After(j, f).i = m /\ After(j, f).half = FALSE
        /\ After(j, f) \in Frames
    BY <1>1, <2>1, <2>5 DEF Frames
  <2> QED
    BY <2>3, <2>5, <2>6 DEF IsFrame
<1> QED
  BY <1>2, <1>3

LEMMA FrameIs ==
    ASSUME NEW j \in Jobs, NEW t \in DOMAIN Heap
    PROVE  IsFrame(j, Frame(j, t)) /\ Frame(j, t) = [t |-> t, i |-> 1, half |-> FALSE]
<1>1. Frame(j, t) = [t |-> t, i |-> 1, half |-> FALSE]
  BY NoneSkipped DEF Frame
<1>2. Len(Slots(j, t)) \in Nat
  BY SlotsAre
<1>3. ~Skipped(j, t, 1)
  <2>1. 0 \in 0..Len(Slots(j, t))
    BY <1>2
  <2> QED
    BY <2>1, NextSlotIs, NoneSkipped
<1> QED
  BY <1>1, <1>2, <1>3 DEF IsFrame, Frames

LEMMA ValueIs ==
    ASSUME NEW j \in Jobs, NEW xs, IsArgs(xs), NEW h, IsHere(j, xs, h), AtValue(j, xs, h)
    PROVE  IsValue(Value(j, xs, h))
<1>1. CASE h.stack = << >>
  <2>1. h.arg \in 1..Len(xs)
    BY <1>1 DEF IsHere, AtValue, IsArgs
  <2> QED
    BY <1>1, <2>1 DEF Value, IsArgs
<1>2. CASE h.stack # << >>
  <2>1. h.stack \in Seq(Frames)
    BY DEF IsHere
  <2> DEFINE s == h.stack
  <2>4. \A l \in 1..Len(s) : IsFrame(j, s[l])
    BY DEF IsHere
  <2>5. s # << >> /\ s \in Seq(Frames)
    BY <1>2, <2>1
  <2> HIDE DEF s
  <2>2. Last(s) = s[Len(s)] /\ Len(s) \in 1..Len(s)
    <3>1. Len(s) \in Nat /\ Len(s) >= 1 /\ Last(s) = s[Len(s)]
      BY <2>5, TopIs
    <3> QED
      BY <3>1
  <2>6. IsFrame(j, Last(s))
    BY <2>2, <2>4
  <2>3. IsFrame(j, Last(h.stack)) /\ ~AtEnd(j, Last(h.stack))
    BY <1>2, <2>6 DEF AtValue, s
  <2> QED
    BY <1>2, <2>3, CurrentIs DEF Value
<1> QED
  BY <1>1, <1>2

LEMMA BehindIs ==
    ASSUME NEW j \in Jobs, NEW xs, IsArgs(xs), NEW h, IsHere(j, xs, h), AtValue(j, xs, h)
    PROVE  /\ IsHere(j, xs, Behind(j, h))
           /\ h.stack = << >> =>
                  Behind(j, h) = [arg |-> h.arg + 1, stack |-> << >>]
           /\ h.stack # << >> =>
                  Behind(j, h) = [arg |-> h.arg,
                                  stack |-> Append(Front(h.stack), After(j, Last(h.stack)))]
<1>0. /\ h = [arg |-> h.arg, stack |-> h.stack] /\ h.arg \in Nat /\ h.stack \in Seq(Frames)
      /\ Len(xs) \in Nat /\ MAX_DEPTH \in Nat
  BY SerializeAssumption DEF IsHere, IsArgs
<1>1. CASE h.stack = << >>
  <2>1. Behind(j, h) = [arg |-> h.arg + 1, stack |-> << >>]
    BY <1>0, <1>1 DEF Behind
  <2>2. h.arg <= Len(xs)
    BY <1>1 DEF AtValue
  <2> QED
    BY <1>0, <1>1, <2>1, <2>2 DEF IsHere
<1>2. CASE h.stack # << >>
  <2> DEFINE s == h.stack
             n == Len(s)
             f == Last(s)
             g == After(j, f)
             r == Append(Front(s), g)
  <2>1. Behind(j, h) = [arg |-> h.arg, stack |-> r]
    BY <1>0, <1>2 DEF Behind
  <2>2. /\ Front(s) \in Seq(Frames) /\ Len(Front(s)) = n - 1 /\ n \in Nat /\ n >= 1
        /\ f = s[n] /\ \A l \in 1..(n - 1) : Front(s)[l] = s[l]
    BY <1>0, <1>2, TopIs
  <2>3. IsFrame(j, f) /\ ~AtEnd(j, f)
    BY <1>2, <2>2 DEF IsHere, AtValue
  <2>4. IsFrame(j, g) /\ g.t = f.t
    BY <2>3, AfterIs
  <2>5. /\ n <= MAX_DEPTH + 1 /\ h.arg \in 1..(Len(xs) + 1)
        /\ \A l \in 1..n : IsFrame(j, s[l])
        /\ h.arg <= Len(xs) /\ xs[h.arg] = Ref(s[1].t)
        /\ \A l \in 1..(n - 1) : ~AtEnd(j, s[l]) /\ Current(j, s[l]) = Ref(s[l + 1].t)
    BY <1>2 DEF IsHere
  <2>6. g \in Frames
    BY <2>4 DEF IsFrame
  <2> HIDE DEF s, n, f, g
  <2>7. /\ r \in Seq(Frames) /\ Len(r) = n /\ r[n] = g
        /\ \A l \in 1..(n - 1) : r[l] = s[l]
    <3>1. /\ r \in Seq(Frames) /\ Len(r) = Len(Front(s)) + 1 /\ r[Len(Front(s)) + 1] = g
          /\ \A l \in 1..Len(Front(s)) : r[l] = Front(s)[l]
      BY <2>2, <2>6, AppendIs
    <3>2. Len(Front(s)) + 1 = n
      BY <2>2
    <3> HIDE DEF r
    <3> QED
      BY <2>2, <3>1, <3>2
  <2> HIDE DEF r
  <2>8. \A l \in 1..n : r[l].t = s[l].t
    BY <2>2, <2>4, <2>7
  <2>9. \A l \in 1..n : IsFrame(j, r[l])
    BY <2>2, <2>4, <2>5, <2>7
  <2>10. \A l \in 1..(n - 1) : ~AtEnd(j, r[l]) /\ Current(j, r[l]) = Ref(r[l + 1].t)
    <3> TAKE l \in 1..(n - 1)
    <3>1. l + 1 \in 1..n /\ r[l] = s[l]
      BY <2>2, <2>7
    <3> QED
      BY <2>5, <2>8, <3>1
  <2>11. 1 \in 1..n
    BY <2>2
  <2>12. Behind(j, h).arg = h.arg /\ Behind(j, h).stack = r
         /\ Behind(j, h) \in [arg : Nat, stack : Seq(Frames)]
    BY <1>0, <2>1, <2>7
  <2>13. xs[h.arg] = Ref(r[1].t)
    BY <2>5, <2>8, <2>11
  <2>14. IsHere(j, xs, Behind(j, h))
    BY <2>5, <2>7, <2>9, <2>10, <2>12, <2>13 DEF IsHere
  <2> QED
    BY <1>2, <2>1, <2>14 DEF r, s, g, f
<1> QED
  BY <1>1, <1>2

LEMMA IntoIs ==
    ASSUME NEW j \in Jobs, NEW xs, IsArgs(xs), NEW h, IsHere(j, xs, h), AtValue(j, xs, h),
           NEW t \in DOMAIN Heap, Value(j, xs, h) = Ref(t), ~TooDeep(Depth(h))
    PROVE  /\ IsHere(j, xs, Into(j, h, t))
           /\ Into(j, h, t) = [arg |-> h.arg, stack |-> Append(h.stack, Frame(j, t))]
<1> DEFINE s == h.stack
           n == Len(s)
           g == Frame(j, t)
           r == Append(s, g)
<1>0. /\ h = [arg |-> h.arg, stack |-> s] /\ h.arg \in Nat /\ s \in Seq(Frames)
      /\ Len(xs) \in Nat /\ MAX_DEPTH \in Nat /\ n \in Nat
  BY SerializeAssumption DEF IsHere, IsArgs
<1>1. Into(j, h, t) = [arg |-> h.arg, stack |-> r]
  <2>1. Into(j, h, t) = [h EXCEPT !.stack = r]
    BY DEF Into
  <2> HIDE DEF r
  <2> QED
    BY <1>0, <2>1
<1>2. n <= MAX_DEPTH
  BY <1>0 DEF TooDeep, Depth
<1>3. IsFrame(j, g) /\ g \in Frames /\ g.t = t
  BY FrameIs DEF IsFrame
<1>4. /\ r \in Seq(Frames) /\ Len(r) = n + 1 /\ r[n + 1] = g
      /\ \A l \in 1..n : r[l] = s[l]
  BY <1>0, <1>3, AppendIs
<1>5. /\ h.arg \in 1..(Len(xs) + 1)
      /\ \A l \in 1..n : IsFrame(j, s[l])
      /\ n > 0 => h.arg <= Len(xs) /\ xs[h.arg] = Ref(s[1].t)
      /\ \A l \in 1..(n - 1) : ~AtEnd(j, s[l]) /\ Current(j, s[l]) = Ref(s[l + 1].t)
  BY <1>0 DEF IsHere
<1>6. CASE n = 0
  <2>1. h.arg <= Len(xs) /\ xs[h.arg] = Ref(t)
    BY <1>0, <1>6 DEF AtValue, Value
  <2> HIDE DEF s, n, r, g
  <2>3. Into(j, h, t).arg = h.arg /\ Into(j, h, t).stack = r
        /\ Into(j, h, t) \in [arg : Nat, stack : Seq(Frames)]
    BY <1>0, <1>1, <1>4
  <2>4. Len(r) = 1 /\ r[1] = g
    BY <1>4, <1>6
  <2>5. /\ \A l \in 1..Len(r) : IsFrame(j, r[l])
        /\ xs[h.arg] = Ref(r[1].t)
        /\ 1..(Len(r) - 1) = {} /\ Len(r) <= MAX_DEPTH + 1
    <3>1. \A l \in 1..Len(r) : l = 1
      BY <2>4
    <3> QED
      BY <1>0, <1>3, <2>1, <2>4, <3>1
  <2>2. IsHere(j, xs, Into(j, h, t))
    BY <1>5, <2>1, <2>3, <2>5 DEF IsHere
  <2> QED
    BY <1>1, <2>2 DEF s, r, g
<1>7. CASE n # 0
  <2>1. s # << >> /\ Last(s) = s[n]
    <3>1. s # << >>
      BY <1>0, <1>7
    <3>2. s \in Seq(Frames)
      BY <1>0
    <3> HIDE DEF s
    <3> QED
      BY <3>1, <3>2, TopIs
  <2>2. ~AtEnd(j, s[n]) /\ Current(j, s[n]) = Ref(t)
    BY <2>1 DEF AtValue, Value
  <2> HIDE DEF s, n, r, g
  <2>3. \A l \in 1..(n + 1) : IsFrame(j, r[l])
    BY <1>0, <1>3, <1>4, <1>5
  <2>4. \A l \in 1..n : ~AtEnd(j, r[l]) /\ Current(j, r[l]) = Ref(r[l + 1].t)
    <3> TAKE l \in 1..n
    <3>1. CASE l = n
      BY <1>3, <1>4, <2>2, <3>1
    <3>2. CASE l # n
      <4>1. l \in 1..(n - 1) /\ l + 1 \in 1..n
        BY <1>0, <3>2
      <4> QED
        BY <1>4, <1>5, <4>1
    <3> QED
      BY <3>1, <3>2
  <2>5. 1 \in 1..n /\ n > 0
    BY <1>0, <1>7
  <2>6. h.arg <= Len(xs) /\ xs[h.arg] = Ref(r[1].t)
    BY <1>4, <1>5, <2>5
  <2>7. Into(j, h, t).arg = h.arg /\ Into(j, h, t).stack = r
        /\ Into(j, h, t) \in [arg : Nat, stack : Seq(Frames)]
    BY <1>0, <1>1, <1>4
  <2>8. (n + 1) - 1 = n /\ n + 1 <= MAX_DEPTH + 1
    BY <1>0, <1>2
  <2>9. IsHere(j, xs, Into(j, h, t))
    BY <1>4, <1>5, <2>3, <2>4, <2>6, <2>7, <2>8 DEF IsHere
  <2> QED
    BY <1>1, <2>9 DEF s, r, g
<1> QED
  BY <1>6, <1>7

\* Without the innermost table, the walk is at the value that this table is.
Out(h) == [arg |-> h.arg, stack |-> Front(h.stack)]

LEMMA OutIs ==
    ASSUME NEW j \in Jobs, NEW xs, IsArgs(xs), NEW h, IsHere(j, xs, h), h.stack # << >>
    PROVE  /\ IsHere(j, xs, Out(h)) /\ AtValue(j, xs, Out(h))
           /\ Value(j, xs, Out(h)) = Ref(Last(h.stack).t)
           /\ Back(j, h) = Behind(j, Out(h))
<1> DEFINE s == h.stack
           n == Len(s)
           r == Front(s)
<1>0. /\ h = [arg |-> h.arg, stack |-> s] /\ h.arg \in Nat /\ s \in Seq(Frames)
      /\ Len(xs) \in Nat /\ MAX_DEPTH \in Nat /\ n \in Nat
  BY SerializeAssumption DEF IsHere, IsArgs
<1>1. /\ r \in Seq(Frames) /\ Len(r) = n - 1 /\ n >= 1 /\ Last(s) = s[n]
      /\ \A l \in 1..(n - 1) : r[l] = s[l]
  BY <1>0, TopIs
<1>2. /\ h.arg \in 1..(Len(xs) + 1) /\ n <= MAX_DEPTH + 1
      /\ \A l \in 1..n : IsFrame(j, s[l])
      /\ h.arg <= Len(xs) /\ xs[h.arg] = Ref(s[1].t)
      /\ \A l \in 1..(n - 1) : ~AtEnd(j, s[l]) /\ Current(j, s[l]) = Ref(s[l + 1].t)
  BY <1>0 DEF IsHere
<1>3. Back(j, h) = Behind(j, Out(h))
  <2>1. [h EXCEPT !.stack = Front(@)] = Out(h)
    BY <1>0 DEF Out
  <2> QED
    BY <2>1 DEF Back
<1>4. Out(h).arg = h.arg /\ Out(h).stack = r /\ Out(h) \in [arg : Nat, stack : Seq(Frames)]
  BY <1>0, <1>1 DEF Out
<1> HIDE DEF s, n, r
<1>5. r # << >> => n - 1 >= 1
  BY <1>1
<1>6. IsHere(j, xs, Out(h))
  <2>1. \A l \in 1..Len(r) : IsFrame(j, r[l])
    <3> TAKE l \in 1..Len(r)
    <3>1. l \in 1..(n - 1) /\ l \in 1..n
      BY <1>0, <1>1
    <3> QED
      BY <1>1, <1>2, <3>1
  <2>2. r # << >> => h.arg <= Len(xs) /\ xs[h.arg] = Ref(r[1].t)
    <3>1. r # << >> => 1 \in 1..(n - 1)
      BY <1>0, <1>5
    <3> QED
      BY <1>1, <1>2, <3>1
  <2>3. \A l \in 1..(Len(r) - 1) : ~AtEnd(j, r[l]) /\ Current(j, r[l]) = Ref(r[l + 1].t)
    <3> TAKE l \in 1..(Len(r) - 1)
    <3>1. l \in 1..(n - 1) /\ l + 1 \in 1..(n - 1)
      BY <1>0, <1>1
    <3> QED
      BY <1>1, <1>2, <3>1
  <2>4. Len(r) <= MAX_DEPTH + 1
    BY <1>0, <1>1, <1>2
  <2> QED
    BY <1>2, <1>4, <2>1, <2>2, <2>3, <2>4 DEF IsHere
<1>7. AtValue(j, xs, Out(h)) /\ Value(j, xs, Out(h)) = Ref(s[n].t)
  <2>1. CASE r = << >>
    <3>1. n = 1
      BY <1>0, <1>1, <2>1
    <3> QED
      BY <1>2, <1>4, <2>1, <3>1 DEF AtValue, Value
  <2>2. CASE r # << >>
    <3>1. n - 1 \in 1..(n - 1) /\ (n - 1) + 1 = n
      BY <1>0, <1>5, <2>2
    <3>2. Last(r) = r[n - 1]
      <4>1. r \in Seq(Frames) /\ Len(r) = n - 1
        BY <1>1
      <4>2. Last(r) = r[Len(r)]
        BY <2>2, <4>1, TopIs
      <4> QED
        BY <4>1, <4>2
    <3>3. Last(r) = s[n - 1]
      BY <1>1, <3>1, <3>2
    <3>4. ~AtEnd(j, s[n - 1]) /\ Current(j, s[n - 1]) = Ref(s[n].t)
      BY <1>2, <3>1
    <3> QED
      BY <1>4, <2>2, <3>3, <3>4 DEF AtValue, Value
  <2> QED
    BY <2>1, <2>2
<1> QED
  BY <1>1, <1>3, <1>6, <1>7 DEF s

-----------------------------------------------------------------------------
(* What is down in the arguments. *)

\* The values of the arguments and of the tables, and nil.
ValuesOf(t) == {p[1] : p \in Pairs(t)} \cup {p[2] : p \in Pairs(t)}
Values ==
    {Nil} \cup (UNION {ToSet(xs) : xs \in Arguments})
          \cup (UNION {ValuesOf(t) : t \in DOMAIN Heap})

Depths == 0..(MAX_DEPTH + 1)

LEMMA DepthsAre == MAX_DEPTH \in Nat /\ MAX_DEPTH + 1 \in Nat /\ MAX_DEPTH + 1 \in Depths
BY SerializeAssumption DEF Depths

LEMMA TableIs ==
    ASSUME NEW x, IsValue(x), IsTable(x)
    PROVE  x.v[1] \in DOMAIN Heap /\ x = Ref(x.v[1])
<1>1. x.k = "table"
  BY DEF IsTable
<1>2. x = [k |-> x.k, v |-> x.v] /\ x.v = <<x.v[1]>> /\ x.v[1] \in DOMAIN Heap
  BY <1>1 DEF IsValue
<1> QED
  BY <1>1, <1>2 DEF Ref

LEMMA RefIs ==
    ASSUME NEW t
    PROVE  IsTable(Ref(t)) /\ Ref(t).v[1] = t
BY DEF Ref, IsTable

LEMMA PairIs ==
    ASSUME NEW t \in DOMAIN Heap, NEW p \in Pairs(t)
    PROVE  p[1] \in Values /\ p[2] \in Values
<1>1. p[1] \in ValuesOf(t) /\ p[2] \in ValuesOf(t)
  BY DEF ValuesOf
<1>2. ValuesOf(t) \in {ValuesOf(s) : s \in DOMAIN Heap}
  OBVIOUS
<1>3. ValuesOf(t) \subseteq Values
  BY <1>2 DEF Values
<1> QED
  BY <1>1, <1>3

\* What is inside of a table are values.
LEMMA InsideIs ==
    ASSUME NEW j \in Jobs, NEW x, IsValue(x)
    PROVE  /\ Inside(j, x) \subseteq Values
           /\ \A y \in Inside(j, x) : IsValue(y)
<1>1. CASE ~IsTable(x)
  BY <1>1 DEF Inside
<1>2. CASE IsTable(x)
  <2> DEFINE t == x.v[1]
             P == Pairs(t)
  <2>1. t \in DOMAIN Heap
    BY <1>2, TableIs
  <2>2. \A p \in P : IsValue(p[1]) /\ IsValue(p[2])
    BY <2>1, RowIs
  <2>3. \A p \in P : p[1] \in Values /\ p[2] \in Values
    BY <2>1, PairIs
  <2>4. \A y \in Inside(j, x) : \E p \in P : y = p[1] \/ y = p[2]
    BY <1>2 DEF Inside
  <2> HIDE DEF P
  <2> QED
    BY <2>2, <2>3, <2>4
<1> QED
  BY <1>1, <1>2

LEMMA ArgumentIs ==
    ASSUME NEW xs \in Arguments
    PROVE  /\ ToSet(xs) \subseteq Values /\ \A x \in ToSet(xs) : IsValue(x)
           /\ ToSet(xs) = {xs[i] : i \in 1..Len(xs)}
           /\ IsArgs(xs)
<1>1. IsArgs(xs)
  BY ArgumentsAre
<1>2. ToSet(xs) \subseteq Values
  BY DEF Values
<1>3. \A x \in ToSet(xs) : IsValue(x)
  BY SerializeAssumption
<1>4. ToSet(xs) = {xs[i] : i \in 1..Len(xs)}
  BY <1>1 DEF IsArgs
<1> QED
  BY <1>1, <1>2, <1>3, <1>4

LEMMA DownIs ==
    ASSUME NEW j \in Jobs, NEW xs \in Arguments
    PROVE  /\ Down(j, xs)[0] = ToSet(xs)
           /\ \A d \in 1..(MAX_DEPTH + 1) :
                  Down(j, xs)[d] = UNION {Inside(j, x) : x \in Down(j, xs)[d - 1]}
           /\ \A d \in Depths : \A x \in Down(j, xs)[d] : IsValue(x)
<1> DEFINE V == {x \in Values : IsValue(x)}
           X == SUBSET V
           N == MAX_DEPTH + 1
           F(S) == UNION {Inside(j, x) : x \in S}
           step == [n \in 1..N |-> [S \in X |-> F(S)]]
           base == ToSet(xs)
           G(f) == [d \in 0..N |-> IF d = 0 THEN base ELSE F(f[d - 1])]
<1>0. N \in Nat /\ Depths = 0..N
  BY DepthsAre DEF Depths
<1>1. base \in X
  BY ArgumentIs
<1>2. \A S \in X : F(S) \in X
  <2> TAKE S \in X
  <2>1. \A x \in S : Inside(j, x) \subseteq V
    BY InsideIs
  <2> QED
    BY <2>1
<1> HIDE DEF X, F, N, base
<1>3. step \in [1..N -> [X -> X]]
  BY <1>2
<1>4. \A n \in 1..N : \A S \in X : step[n][S] = F(S)
  OBVIOUS
<1> HIDE DEF step
<1>5. PICK f : Iterates(f, X, N, base, step)
  BY <1>0, <1>1, <1>3, Recursion
<1>6. \A n \in 1..N : n # 0 /\ n - 1 \in 0..N /\ n \in 0..N
  BY <1>0
<1>7. f \in [0..N -> X] /\ f[0] = base /\ \A n \in 1..N : f[n] = F(f[n - 1])
  BY <1>4, <1>5, <1>6 DEF Iterates
<1>8. f = G(f)
  <2>1. \A n \in 0..N : n # 0 => n \in 1..N
    OBVIOUS
  <2>2. \A n \in 0..N : f[n] = IF n = 0 THEN base ELSE F(f[n - 1])
    BY <1>7, <2>1
  <2> QED
    BY <1>7, <2>2
<1>9. Down(j, xs) = CHOOSE g : g = G(g)
  BY DEF Down, F, N, base
<1>10. Down(j, xs) = G(Down(j, xs))
  <2>1. \E g : g = G(g)
    BY <1>8
  <2> HIDE DEF G
  <2> QED
    BY <1>9, <2>1
<1> DEFINE g == Down(j, xs)
<1>11. g[0] = base /\ \A n \in 1..N : g[n] = F(g[n - 1])
  <2>1. g = [d \in 0..N |-> IF d = 0 THEN base ELSE F(g[d - 1])]
    BY <1>10
  <2>2. 0 \in 0..N
    BY <1>0
  <2> HIDE DEF g
  <2> QED
    BY <1>6, <2>1, <2>2
<1> DEFINE T == {n \in 0..N : g[n] \in X}
<1>12. 0 \in T
  BY <1>0, <1>1, <1>11
<1>13. ASSUME NEW n \in 0..(N - 1), n \in T
       PROVE  n + 1 \in T
  <2>1. n + 1 \in 1..N /\ (n + 1) - 1 = n
    BY <1>0
  <2>2. g[n + 1] = F(g[n])
    BY <1>11, <2>1
  <2> QED
    BY <1>2, <1>6, <1>13, <2>1, <2>2
<1> HIDE DEF T, g
<1>14. 0..N \subseteq T
  BY <1>0, <1>12, <1>13, Climb
<1>15. \A d \in Depths : \A x \in g[d] : IsValue(x)
  BY <1>0, <1>14 DEF T, X
<1> QED
  BY <1>11, <1>15 DEF g, F, N, base

\* The values that are clean with n levels left, of which they take one.
CleanOf(j) ==
    CHOOSE c :
        /\ c \in [Depths -> SUBSET Values]
        /\ c[0] = {}
        /\ \A n \in 1..(MAX_DEPTH + 1) :
               c[n] = {x \in Values : ~Unsupported(j, x) /\ Inside(j, x) \subseteq c[n - 1]}

LEMMA CleanOfIs ==
    ASSUME NEW j \in Jobs
    PROVE  /\ CleanOf(j)[0] = {}
           /\ \A n \in 1..(MAX_DEPTH + 1) :
                  CleanOf(j)[n] =
                      {x \in Values : ~Unsupported(j, x) /\ Inside(j, x) \subseteq CleanOf(j)[n - 1]}
<1> DEFINE X == SUBSET Values
           N == MAX_DEPTH + 1
           F(S) == {x \in Values : ~Unsupported(j, x) /\ Inside(j, x) \subseteq S}
           step == [n \in 1..N |-> [S \in X |-> F(S)]]
           base == {}
<1>0. N \in Nat /\ Depths = 0..N
  BY DepthsAre DEF Depths
<1>1. base \in X /\ \A S \in X : F(S) \in X
  OBVIOUS
<1> HIDE DEF X, F, N, base
<1>3. step \in [1..N -> [X -> X]]
  BY <1>1
<1>4. \A n \in 1..N : \A S \in X : step[n][S] = F(S)
  OBVIOUS
<1> HIDE DEF step
<1>5. PICK f : Iterates(f, X, N, base, step)
  BY <1>0, <1>1, <1>3, Recursion
<1>6. \A n \in 1..N : n # 0 /\ n - 1 \in 0..N /\ n \in 0..N
  BY <1>0
<1>7. f \in [Depths -> X] /\ f[0] = base /\ \A n \in 1..N : f[n] = F(f[n - 1])
  BY <1>0, <1>4, <1>5, <1>6 DEF Iterates
<1> DEFINE Q(c) == c \in [Depths -> X] /\ c[0] = base /\ \A n \in 1..N : c[n] = F(c[n - 1])
<1>8. CleanOf(j) = CHOOSE c : Q(c)
  BY DEF CleanOf, X, F, N, base
<1>9. Q(f)
  BY <1>7
<1> HIDE DEF Q
<1>10. Q(CleanOf(j))
  BY <1>8, <1>9
<1> QED
  BY <1>10 DEF Q, X, F, N, base

-----------------------------------------------------------------------------
(* What is refused. *)

\* The values that are clean d tables down.
CleanAt(j, d) == CleanOf(j)[(MAX_DEPTH + 1) - d]

LEMMA CleanAtIs ==
    ASSUME NEW j \in Jobs
    PROVE  /\ CleanAt(j, MAX_DEPTH + 1) = {}
           /\ \A d \in 0..MAX_DEPTH : \A x :
                  x \in CleanAt(j, d) <=>
                      x \in Values /\ ~Unsupported(j, x) /\ Inside(j, x) \subseteq CleanAt(j, d + 1)
<1>0. MAX_DEPTH \in Nat
  BY DepthsAre
<1>1. (MAX_DEPTH + 1) - (MAX_DEPTH + 1) = 0
  BY <1>0
<1>2. CleanAt(j, MAX_DEPTH + 1) = {}
  BY <1>1, CleanOfIs DEF CleanAt
<1>3. ASSUME NEW d \in 0..MAX_DEPTH, NEW x
      PROVE  x \in CleanAt(j, d) <=>
                 x \in Values /\ ~Unsupported(j, x) /\ Inside(j, x) \subseteq CleanAt(j, d + 1)
  <2> DEFINE n == (MAX_DEPTH + 1) - d
  <2>1. n \in 1..(MAX_DEPTH + 1) /\ (MAX_DEPTH + 1) - (d + 1) = n - 1
    BY <1>0
  <2>2. CleanAt(j, d) = CleanOf(j)[n] /\ CleanAt(j, d + 1) = CleanOf(j)[n - 1]
    BY <2>1 DEF CleanAt
  <2> HIDE DEF n
  <2>3. CleanOf(j)[n] = {y \in Values : ~Unsupported(j, y) /\ Inside(j, y) \subseteq CleanOf(j)[n - 1]}
    BY <2>1, CleanOfIs
  <2> QED
    BY <2>2, <2>3
<1> QED
  BY <1>2, <1>3

LEMMA SlotInValues ==
    ASSUME NEW j \in Jobs, NEW t \in DOMAIN Heap, NEW i \in 1..Len(Slots(j, t))
    PROVE  /\ Slots(j, t)[i][2] \in Values
           /\ i > Heap[t].length => Slots(j, t)[i][1] \in Values
<1>0. Heap[t].length \in Nat
  BY RowIs
<1>1. CASE i > Heap[t].length
  <2>1. Slots(j, t)[i] \in Pairs(t)
    BY <1>1, SlotIs
  <2> QED
    BY <2>1, PairIs
<1>2. CASE i <= Heap[t].length
  <2>1. i \in 1..Heap[t].length
    BY <1>0, <1>2
  <2>2. Slots(j, t)[i][2] = rawgeti(t, i)
    BY <2>1, SlotsAre
  <2>3. CASE rawgeti(t, i) = Nil
    BY <1>0, <1>2, <2>2, <2>3 DEF Values
  <2>4. CASE rawgeti(t, i) # Nil
    <3>1. <<Integer(i), rawgeti(t, i)>> \in Pairs(t)
      BY <2>4, RawGetIs
    <3>2. <<Integer(i), rawgeti(t, i)>>[2] \in Values
      BY <3>1, PairIs
    <3> QED
      BY <1>0, <1>2, <2>2, <3>2
  <2> QED
    BY <2>3, <2>4
<1> QED
  BY <1>0, <1>1, <1>2

LEMMA ValueInValues ==
    ASSUME NEW j \in Jobs, NEW xs \in Arguments, NEW h, IsHere(j, xs, h), AtValue(j, xs, h)
    PROVE  Value(j, xs, h) \in Values
<1>0. IsArgs(xs) /\ ToSet(xs) \subseteq Values /\ ToSet(xs) = {xs[i] : i \in 1..Len(xs)}
  BY ArgumentIs
<1>1. CASE h.stack = << >>
  <2>1. h.arg \in 1..Len(xs)
    BY <1>0, <1>1 DEF IsHere, AtValue, IsArgs
  <2> QED
    BY <1>0, <1>1, <2>1 DEF Value
<1>2. CASE h.stack # << >>
  <2> DEFINE s == h.stack
             f == Last(s)
  <2>1. s \in Seq(Frames) /\ \A l \in 1..Len(s) : IsFrame(j, s[l])
    BY DEF IsHere
  <2>2. s # << >>
    BY <1>2
  <2>3. ~AtEnd(j, f) /\ Value(j, xs, h) = Current(j, f)
    BY <1>2 DEF AtValue, Value
  <2> HIDE DEF s, f
  <2>4. Len(s) \in 1..Len(s) /\ f = s[Len(s)]
    <3>1. Len(s) \in Nat /\ Len(s) >= 1 /\ Last(s) = s[Len(s)]
      BY <2>1, <2>2, TopIs
    <3> QED
      BY <3>1 DEF f
  <2>5. IsFrame(j, f)
    BY <2>1, <2>4
  <2>6. f.t \in DOMAIN Heap /\ f.i \in 1..Len(Slots(j, f.t))
    BY <2>3, <2>5, CurrentIs
  <2> DEFINE slot == Slots(j, f.t)[f.i]
  <2>7. slot[2] \in Values /\ (f.i > Heap[f.t].length => slot[1] \in Values)
    BY <2>6, SlotInValues
  <2>8. Current(j, f) = IF AtKey(f) THEN slot[1] ELSE slot[2]
    BY DEF Current
  <2> HIDE DEF slot
  <2> QED
    BY <2>3, <2>7, <2>8 DEF AtKey
<1> QED
  BY <1>1, <1>2

\* What is passed over is what the array part had.
LEMMA SkippedIs ==
    ASSUME NEW j \in Jobs, NEW t \in DOMAIN Heap, NEW i \in 1..Len(Slots(j, t)),
           NEW m \in (i + 1)..(NextSlot(j, t, i) - 1)
    PROVE  /\ m \in 1..Len(Slots(j, t)) /\ m > Heap[t].length /\ Slots(j, t)[m][1].k = "int"
           /\ \E c \in 1..i : Slots(j, t)[m] = Slots(j, t)[c]
<1> DEFINE N == Len(Slots(j, t))
           n == Heap[t].length
           S == Slots(j, t)
           k == NextSlot(j, t, i)
<1>0. N \in Nat /\ n \in Nat
  BY SlotsAre, RowIs
<1>1. k \in (i + 1)..(N + 1) /\ \A q \in (i + 1)..(k - 1) : Skipped(j, t, q)
  <2>1. i \in 0..N
    BY <1>0
  <2> QED
    BY <2>1, NextSlotIs
<1>2. Skipped(j, t, m)
  BY <1>1
<1> DEFINE key == S[m][1]
           c == key.v[1]
<1>3. m \in (n + 1)..N /\ key.k = "int" /\ c \in 1..n
  BY <1>2 DEF Skipped, InArray
<1>4. m \in 1..N /\ m > n
  BY <1>0, <1>3
<1>5. IsValue(key) /\ S[m] \in Pairs(t) /\ S[m] = <<S[m][1], S[m][2]>>
  BY <1>4, SlotIs
<1>6. key = Integer(c)
  BY <1>3, <1>5 DEF IsValue, Integer
<1> HIDE DEF key, c
<1>7. S[m] = <<Integer(c), rawgeti(t, c)>>
  BY <1>5, <1>6, RawGetIs DEF key
<1>8. S[c] = <<Integer(c), rawgeti(t, c)>>
  BY <1>3, SlotsAre
<1>9. c \in 1..i
  <2>1. ASSUME c >= i + 1 PROVE FALSE
    <3>1. i < n
      BY <1>0, <1>3, <2>1
    <3>2. k = i + 1
      BY <3>1, NoneSkipped
    <3> QED
      BY <3>2
  <2> QED
    BY <1>3, <2>1
<1> QED
  BY <1>3, <1>4, <1>7, <1>8, <1>9 DEF key

\* What is before f in its table is in C.
Passed(j, f, C) ==
    /\ \A m \in 1..(f.i - 1) :
           /\ Slots(j, f.t)[m][2] \in C
           /\ m > Heap[f.t].length => Slots(j, f.t)[m][1] \in C
    /\ f.half => Slots(j, f.t)[f.i][1] \in C

LEMMA PassedAfter ==
    ASSUME NEW j \in Jobs, NEW f, IsFrame(j, f), ~AtEnd(j, f), NEW C, Passed(j, f, C),
           Current(j, f) \in C, \A y \in Values : y.k = "int" => y \in C
    PROVE  Passed(j, After(j, f), C)
<1> DEFINE t == f.t
           N == Len(Slots(j, t))
           n == Heap[t].length
           S == Slots(j, t)
<1>1. t \in DOMAIN Heap /\ f.i \in 1..N /\ f.half \in BOOLEAN /\ f \in Frames
  BY CurrentIs DEF IsFrame, Frames
<1>0. N \in Nat /\ n \in Nat
  BY <1>1, SlotsAre, RowIs
<1>2. /\ \A m \in 1..(f.i - 1) : S[m][2] \in C /\ (m > n => S[m][1] \in C)
      /\ f.half => S[f.i][1] \in C
  BY DEF Passed
<1>3. CASE AtKey(f)
  <2>1. After(j, f) = [t |-> t, i |-> f.i, half |-> TRUE]
    BY <1>1, <1>3 DEF After, Frames
  <2>2. S[f.i][1] \in C
    BY <1>3 DEF Current
  <2> HIDE DEF S, n, t
  <2> QED
    BY <1>2, <2>1, <2>2 DEF Passed, S, n
<1>4. CASE ~AtKey(f)
  <2> DEFINE k == NextSlot(j, t, f.i)
  <2>1. After(j, f) = [t |-> t, i |-> k, half |-> FALSE]
    BY <1>4 DEF After
  <2>2. k \in (f.i + 1)..(N + 1) /\ \A m \in (f.i + 1)..(k - 1) : Skipped(j, t, m)
    <3>1. f.i \in 0..N
      BY <1>1
    <3> QED
      BY <1>1, <3>1, NextSlotIs
  <2>3. S[f.i][2] \in C /\ (f.i > n => S[f.i][1] \in C)
    BY <1>2, <1>4 DEF Current, AtKey
  <2>4. ASSUME NEW m \in (f.i + 1)..(k - 1)
        PROVE  S[m][2] \in C /\ S[m][1] \in C
    <3>1. PICK i \in 1..f.i : S[m] = S[i]
      BY <1>1, SkippedIs
    <3>2. m \in 1..N /\ m > n /\ S[m][1].k = "int"
      BY <1>1, SkippedIs
    <3>3. S[m][1] \in Values
      BY <1>1, <3>2, SlotInValues
    <3>4. i = f.i \/ i \in 1..(f.i - 1)
      BY <1>1
    <3>5. S[i][2] \in C
      BY <1>2, <2>3, <3>4
    <3> QED
      BY <3>1, <3>2, <3>3, <3>5
  <2>5. \A m \in 1..(k - 1) : S[m][2] \in C /\ (m > n => S[m][1] \in C)
    <3> TAKE m \in 1..(k - 1)
    <3>1. m \in 1..(f.i - 1) \/ m = f.i \/ m \in (f.i + 1)..(k - 1)
      BY <1>1, <2>2
    <3> QED
      BY <1>2, <2>3, <2>4, <3>1
  <2> HIDE DEF S, n, t, k
  <2> QED
    BY <2>1, <2>5 DEF Passed, S, n
<1> QED
  BY <1>3, <1>4

\* What is before h is clean.
CleanHere(j, xs, h) ==
    /\ \A i \in 1..(h.arg - 1) : xs[i] \in CleanAt(j, 0)
    /\ \A l \in 1..Len(h.stack) : Passed(j, h.stack[l], CleanAt(j, l))

LEMMA CleanBehind ==
    ASSUME NEW j \in Jobs, NEW xs \in Arguments, NEW h, IsHere(j, xs, h), AtValue(j, xs, h),
           CleanHere(j, xs, h), Value(j, xs, h) \in CleanAt(j, Depth(h))
    PROVE  CleanHere(j, xs, Behind(j, h))
<1>0. IsArgs(xs) /\ h.arg \in Nat /\ h.stack \in Seq(Frames) /\ Len(h.stack) <= MAX_DEPTH + 1
  BY ArgumentIs DEF IsHere
<1>1. CASE h.stack = << >>
  <2>1. Behind(j, h) = [arg |-> h.arg + 1, stack |-> << >>]
    BY <1>0, <1>1, BehindIs
  <2>2. xs[h.arg] \in CleanAt(j, 0)
    BY <1>1 DEF Value, Depth
  <2>3. \A i \in 1..((h.arg + 1) - 1) : i \in 1..(h.arg - 1) \/ i = h.arg
    BY <1>0
  <2> QED
    BY <2>1, <2>2, <2>3 DEF CleanHere
<1>2. CASE h.stack # << >>
  <2> DEFINE s == h.stack
             n == Len(s)
             f == Last(s)
             g == After(j, f)
             r == Append(Front(s), g)
  <2>1. Behind(j, h) = [arg |-> h.arg, stack |-> r]
    BY <1>0, <1>2, BehindIs
  <2>2. ~AtEnd(j, f) /\ Current(j, f) \in CleanAt(j, n)
    BY <1>2 DEF AtValue, Value, Depth
  <2>3. /\ s \in Seq(Frames) /\ s # << >> /\ n <= MAX_DEPTH + 1
        /\ \A l \in 1..n : IsFrame(j, s[l]) /\ Passed(j, s[l], CleanAt(j, l))
    BY <1>0, <1>2 DEF IsHere, CleanHere
  <2> HIDE DEF s, g
  <2>4. /\ Front(s) \in Seq(Frames) /\ Len(Front(s)) = n - 1 /\ n \in Nat /\ n >= 1
        /\ f = s[n] /\ \A l \in 1..(n - 1) : Front(s)[l] = s[l]
    BY <2>3, TopIs
  <2> HIDE DEF n, f
  <2>5. IsFrame(j, f) /\ Passed(j, f, CleanAt(j, n))
    BY <2>3, <2>4
  <2>6. \A y \in Values : y.k = "int" => y \in CleanAt(j, n)
    <3>1. n # MAX_DEPTH + 1
      BY <2>2, CleanAtIs
    <3>2. n \in 0..MAX_DEPTH
      BY <2>3, <2>4, <3>1, DepthsAre
    <3>3. ASSUME NEW y \in Values, y.k = "int"
          PROVE  y \in CleanAt(j, n)
      <4>1. ~Unsupported(j, y) /\ Inside(j, y) = {}
        BY <3>3 DEF Unsupported, Inside, IsTable
      <4> QED
        BY <3>2, <4>1, CleanAtIs
    <3> QED
      BY <3>3
  <2>7. Passed(j, g, CleanAt(j, n))
    BY <2>2, <2>5, <2>6, PassedAfter DEF g
  <2>8. IsFrame(j, g)
    BY <2>2, <2>5, AfterIs DEF g
  <2>9. /\ Len(r) = n /\ r[n] = g
        /\ \A l \in 1..(n - 1) : r[l] = s[l]
    <3>1. /\ r \in Seq(Frames) /\ Len(r) = Len(Front(s)) + 1 /\ r[Len(Front(s)) + 1] = g
          /\ \A l \in 1..Len(Front(s)) : r[l] = Front(s)[l]
      BY <2>4, <2>8, AppendIs DEF IsFrame
    <3>2. Len(Front(s)) + 1 = n
      BY <2>4
    <3> HIDE DEF r
    <3> QED
      BY <2>4, <3>1, <3>2
  <2> HIDE DEF r
  <2>10. \A l \in 1..n : Passed(j, r[l], CleanAt(j, l))
    <3> TAKE l \in 1..n
    <3>1. l = n \/ l \in 1..(n - 1)
      BY <2>4
    <3> QED
      BY <2>3, <2>7, <2>9, <3>1
  <2> QED
    BY <2>1, <2>9, <2>10 DEF CleanHere
<1> QED
  BY <1>1, <1>2

\* A table that is behind is clean.
LEMMA CleanOut ==
    ASSUME NEW j \in Jobs, NEW xs \in Arguments, NEW h, IsHere(j, xs, h), h.stack # << >>,
           AtEnd(j, Last(h.stack)), CleanHere(j, xs, h)
    PROVE  CleanHere(j, xs, Out(h)) /\ Value(j, xs, Out(h)) \in CleanAt(j, Depth(Out(h)))
<1> DEFINE s == h.stack
           n == Len(s)
           f == Last(s)
           t == f.t
           S == Slots(j, t)
           C == CleanAt(j, n)
<1>0. /\ s \in Seq(Frames) /\ s # << >> /\ n <= MAX_DEPTH + 1 /\ AtEnd(j, f) /\ IsArgs(xs)
      /\ \A l \in 1..n : IsFrame(j, s[l]) /\ Passed(j, s[l], CleanAt(j, l))
  BY ArgumentIs DEF IsHere, CleanHere
<1> HIDE DEF s, f, C
<1>1. /\ Len(Front(s)) = n - 1 /\ n \in Nat /\ n >= 1
      /\ f = s[n] /\ \A l \in 1..(n - 1) : Front(s)[l] = s[l]
  BY <1>0, TopIs DEF f
<1> HIDE DEF n
<1>2. Out(h).stack = Front(s) /\ Out(h).arg = h.arg /\ Depth(Out(h)) = n - 1
  BY <1>1 DEF Out, s, Depth
<1>3. \A l \in 1..(n - 1) : l \in 1..n
  BY <1>1
<1>4. CleanHere(j, xs, Out(h))
  <2>1. \A i \in 1..(h.arg - 1) : xs[i] \in CleanAt(j, 0)
    BY DEF CleanHere
  <2> QED
    BY <1>0, <1>1, <1>2, <1>3, <2>1 DEF CleanHere
<1>5. n \in 1..n
  BY <1>1
<1>6. IsFrame(j, f) /\ Passed(j, f, C) /\ t \in DOMAIN Heap
  BY <1>0, <1>1, <1>5 DEF C, IsFrame, Frames
<1>7. \A m \in 1..Len(S) : S[m][2] \in C /\ (m > Heap[t].length => S[m][1] \in C)
  <2>1. Len(S) \in Nat
    BY <1>6, SlotsAre
  <2>2. f.i \in 1..(Len(S) + 1) /\ f.i > Len(S)
    BY <1>0, <1>6 DEF IsFrame, AtEnd
  <2>3. \A m \in 1..Len(S) : m \in 1..(f.i - 1)
    BY <2>1, <2>2
  <2> QED
    BY <1>6, <2>3 DEF Passed
<1>8. Value(j, xs, Out(h)) = Ref(t) /\ IsHere(j, xs, Out(h)) /\ AtValue(j, xs, Out(h))
  BY <1>0, OutIs DEF f, s
<1>9. Inside(j, Ref(t)) \subseteq C
  <2> DEFINE k == Heap[t].length
  <2>0. k \in Nat /\ k <= Len(S) /\ Len(S) \in Nat
    BY <1>6, SlotsAre, RowIs
  <2>1. CASE j = "concat"
    <3>1. Inside(j, Ref(t)) = {p[2] : p \in {q \in Pairs(t) : InArray(t, q[1])}}
      BY <2>1, RefIs DEF Inside
    <3>2. ASSUME NEW p \in Pairs(t), InArray(t, p[1])
          PROVE  p[2] \in C
      <4> DEFINE i == p[1].v[1]
      <4>1. p[1].k = "int" /\ i \in 1..k
        BY <3>2 DEF InArray
      <4>2. IsValue(p[1]) /\ p = <<p[1], p[2]>>
        BY <1>6, RowIs
      <4>3. p[1] = Integer(i)
        BY <4>1, <4>2 DEF IsValue, Integer
      <4> HIDE DEF i
      <4>4. p = <<Integer(i), rawgeti(t, i)>>
        BY <1>6, <4>3, RawGetIs
      <4>5. S[i] = <<Integer(i), rawgeti(t, i)>> /\ i \in 1..Len(S)
        BY <1>6, <2>0, <4>1, SlotsAre
      <4> QED
        BY <1>7, <4>4, <4>5
    <3> QED
      BY <3>1, <3>2
  <2>2. CASE j = "pack"
    <3>1. Inside(j, Ref(t)) = {p[1] : p \in Pairs(t)} \cup {p[2] : p \in Pairs(t)}
      BY <2>2, RefIs DEF Inside
    <3>2. ASSUME NEW p \in Pairs(t)
          PROVE  p[1] \in C /\ p[2] \in C
      <4> DEFINE ps == Heap[t].pairs
      <4>1. PICK i \in 1..Len(ps) : p = ps[i]
        BY <1>6, RowIs
      <4>2. Len(S) = k + Len(ps) /\ Len(ps) \in Nat
        <5>1. ps \in Seq(Pairs(t))
          BY <1>6, RowIs
        <5>2. Len(ps) \in Nat
          BY <5>1
        <5> QED
          BY <1>6, <2>2, <5>2, SlotsAre
      <4> HIDE DEF ps, k
      <4>3. k + i \in 1..Len(S) /\ k + i > k /\ (k + i) - k = i
        BY <2>0, <4>2
      <4>4. S[k + i] = p
        BY <1>6, <4>1, <4>3, SlotsAre DEF ps, k
      <4> QED
        BY <1>7, <4>3, <4>4 DEF k
    <3> QED
      BY <3>1, <3>2
  <2> QED
    BY <2>1, <2>2 DEF Jobs
<1>10. Ref(t) \in Values
  BY <1>8, ValueInValues
<1>11. ~Unsupported(j, Ref(t))
  BY DEF Unsupported, Ref
<1>12. n - 1 \in 0..MAX_DEPTH /\ (n - 1) + 1 = n
  BY <1>0, <1>1, DepthsAre
<1>13. Ref(t) \in CleanAt(j, n - 1)
  BY <1>9, <1>10, <1>11, <1>12, CleanAtIs DEF C
<1> QED
  BY <1>2, <1>4, <1>8, <1>13

\* Behind the last argument nothing is too deep or of a wrong type.
LEMMA CleanEnd ==
    ASSUME NEW j \in Jobs, NEW xs \in Arguments, NEW h, CleanHere(j, xs, h),
           h.arg = Len(xs) + 1
    PROVE  /\ Down(j, xs)[MAX_DEPTH + 1] = {}
           /\ \A d \in 0..MAX_DEPTH : \A x \in Down(j, xs)[d] : ~Unsupported(j, x)
<1> DEFINE N == MAX_DEPTH + 1
           T == {d \in 0..N : Down(j, xs)[d] \subseteq CleanAt(j, d)}
<1>0. N \in Nat /\ MAX_DEPTH \in Nat /\ N - 1 = MAX_DEPTH
  BY DepthsAre
<1>1. 0 \in T
  <2>1. Len(xs) \in Nat /\ ToSet(xs) = {xs[i] : i \in 1..Len(xs)}
    BY ArgumentIs DEF IsArgs
  <2>2. (Len(xs) + 1) - 1 = Len(xs)
    BY <2>1
  <2>3. \A i \in 1..Len(xs) : xs[i] \in CleanAt(j, 0)
    BY <2>2 DEF CleanHere
  <2>4. Down(j, xs)[0] \subseteq CleanAt(j, 0)
    BY <2>1, <2>3, DownIs
  <2> QED
    BY <1>0, <2>4
<1>2. ASSUME NEW d \in 0..(N - 1), d \in T
      PROVE  d + 1 \in T
  <2>1. d + 1 \in 1..N /\ (d + 1) - 1 = d /\ d \in 0..MAX_DEPTH /\ d + 1 \in 0..N
    BY <1>0
  <2>2. Down(j, xs)[d + 1] = UNION {Inside(j, x) : x \in Down(j, xs)[d]}
    BY <2>1, DownIs
  <2>3. \A x \in Down(j, xs)[d] : Inside(j, x) \subseteq CleanAt(j, d + 1)
    BY <1>2, <2>1, CleanAtIs
  <2>4. Down(j, xs)[d + 1] \subseteq CleanAt(j, d + 1)
    BY <2>2, <2>3
  <2> QED
    BY <2>1, <2>4
<1> HIDE DEF T
<1>3. 0..N \subseteq T
  BY <1>0, <1>1, <1>2, Climb
<1>4. \A d \in 0..N : Down(j, xs)[d] \subseteq CleanAt(j, d)
  BY <1>3 DEF T
<1>5. Down(j, xs)[N] = {}
  BY <1>0, <1>4, CleanAtIs
<1>6. ASSUME NEW d \in 0..MAX_DEPTH, NEW x \in Down(j, xs)[d]
      PROVE  ~Unsupported(j, x)
  <2>1. x \in CleanAt(j, d)
    BY <1>0, <1>4
  <2> QED
    BY <2>1, CleanAtIs
<1> QED
  BY <1>5, <1>6

\* The value that a walk is at in a table is inside of the table, or it is a hole in it.
LEMMA CurrentInside ==
    ASSUME NEW j \in Jobs, NEW f, IsFrame(j, f), ~AtEnd(j, f)
    PROVE  \/ Current(j, f) \in Inside(j, Ref(f.t))
           \/ Current(j, f) = Nil /\ Inside(j, Ref(f.t)) # {}
<1> DEFINE t == f.t
           slot == Slots(j, t)[f.i]
           k == Heap[t].length
<1>1. t \in DOMAIN Heap /\ f.i \in 1..Len(Slots(j, t))
  BY CurrentIs
<1>2. k \in Nat
  BY <1>1, RowIs
<1>3. Current(j, f) = IF AtKey(f) THEN slot[1] ELSE slot[2]
  BY DEF Current
<1>4. /\ j = "concat" => Inside(j, Ref(t)) = {p[2] : p \in {q \in Pairs(t) : InArray(t, q[1])}}
      /\ j = "pack" =>
             Inside(j, Ref(t)) = {p[1] : p \in Pairs(t)} \cup {p[2] : p \in Pairs(t)}
  BY RefIs DEF Inside
<1> HIDE DEF t, slot
<1>5. ASSUME NEW p \in Pairs(t), InArray(t, p[1]) \/ j = "pack"
      PROVE  p[2] \in Inside(j, Ref(t)) /\ (j = "pack" => p[1] \in Inside(j, Ref(t)))
  BY <1>4, <1>5 DEF Jobs
<1>6. CASE f.i > k
  <2>1. slot \in Pairs(t) /\ j = "pack"
    BY <1>1, <1>6, SlotIs, SlotsAre DEF slot
  <2> QED
    BY <1>3, <1>5, <2>1 DEF t
<1>7. CASE ~(f.i > k)
  <2>1. f.i \in 1..k /\ k \in 1..k
    BY <1>1, <1>2, <1>7
  <2>2. Current(j, f) = rawgeti(t, f.i)
    <3>1. slot = <<Integer(f.i), rawgeti(t, f.i)>>
      BY <1>1, <2>1, SlotsAre DEF slot
    <3>2. ~AtKey(f)
      BY <1>7 DEF AtKey, t
    <3> QED
      BY <1>3, <3>1, <3>2
  <2>3. \A i \in 1..k : InArray(t, Integer(i))
    BY DEF InArray, Integer
  <2>4. CASE rawgeti(t, f.i) # Nil
    <3>1. <<Integer(f.i), rawgeti(t, f.i)>> \in Pairs(t)
      BY <1>1, <2>4, RawGetIs
    <3>2. InArray(t, <<Integer(f.i), rawgeti(t, f.i)>>[1])
      BY <2>1, <2>3
    <3>3. <<Integer(f.i), rawgeti(t, f.i)>>[2] \in Inside(j, Ref(t))
      BY <1>5, <3>1, <3>2
    <3> QED
      BY <2>2, <3>3 DEF t
  <2>5. CASE rawgeti(t, f.i) = Nil
    <3>1. PICK p \in Pairs(t) : p[1] = Integer(k)
      <4>1. Heap[t].length > 0
        BY <1>2, <2>1
      <4> QED
        BY <1>1, <4>1, RowIs
    <3>2. InArray(t, p[1])
      BY <2>1, <2>3, <3>1
    <3> QED
      BY <1>5, <2>2, <2>5, <3>2 DEF t
  <2> QED
    BY <2>4, <2>5
<1> QED
  BY <1>6, <1>7

LEMMA HereDown ==
    ASSUME NEW j \in Jobs, NEW xs \in Arguments, NEW h, IsHere(j, xs, h), AtValue(j, xs, h)
    PROVE  /\ Depth(h) \in 0..(MAX_DEPTH + 1)
           /\ \/ Value(j, xs, h) \in Down(j, xs)[Depth(h)]
              \/ Value(j, xs, h) = Nil /\ Down(j, xs)[Depth(h)] # {}
<1> DEFINE s == h.stack
           n == Len(s)
           f == Last(s)
           D == Down(j, xs)
<1>0. /\ IsArgs(xs) /\ ToSet(xs) = {xs[i] : i \in 1..Len(xs)} /\ D[0] = ToSet(xs)
      /\ \A d \in 1..(MAX_DEPTH + 1) : D[d] = UNION {Inside(j, x) : x \in D[d - 1]}
      /\ MAX_DEPTH \in Nat
  BY ArgumentIs, DownIs, DepthsAre
<1>1. /\ s \in Seq(Frames) /\ n <= MAX_DEPTH + 1 /\ h.arg \in 1..(Len(xs) + 1)
      /\ \A l \in 1..n : IsFrame(j, s[l])
      /\ s # << >> => h.arg <= Len(xs) /\ xs[h.arg] = Ref(s[1].t)
      /\ \A l \in 1..(n - 1) : ~AtEnd(j, s[l]) /\ Current(j, s[l]) = Ref(s[l + 1].t)
  BY DEF IsHere
<1>2. n \in Nat /\ Depth(h) = n
  BY <1>1 DEF Depth
<1>3. CASE s = << >>
  <2>1. h.arg \in 1..Len(xs) /\ n = 0 /\ Value(j, xs, h) = xs[h.arg]
    BY <1>0, <1>1, <1>3 DEF AtValue, Value, IsArgs
  <2> QED
    BY <1>0, <1>2, <2>1
<1>4. CASE s # << >>
  <2>1. ~AtEnd(j, f) /\ Value(j, xs, h) = Current(j, f)
    BY <1>4 DEF AtValue, Value
  <2> HIDE DEF s, D, f
  <2>2. n >= 1 /\ f = s[n]
    BY <1>1, <1>4, TopIs DEF f
  <2> HIDE DEF n
  <2> DEFINE T == {l \in 0..(n - 1) : Ref(s[l + 1].t) \in D[l]}
  <2>3. 0 \in T
    <3>1. h.arg \in 1..Len(xs) /\ xs[h.arg] = Ref(s[0 + 1].t)
      BY <1>0, <1>1, <1>4 DEF IsArgs
    <3> QED
      BY <1>0, <1>2, <2>2, <3>1
  <2>4. ASSUME NEW l \in 0..((n - 1) - 1), l \in T
        PROVE  l + 1 \in T
    <3> DEFINE g == s[l + 1]
               y == Ref(s[(l + 1) + 1].t)
    <3>1. l + 1 \in 1..(n - 1) /\ l + 1 \in 0..(n - 1) /\ l + 1 \in 1..n
          /\ l + 1 \in 1..(MAX_DEPTH + 1) /\ (l + 1) - 1 = l
      BY <1>0, <1>1, <1>2
    <3>2. ~AtEnd(j, g) /\ Current(j, g) = y /\ IsFrame(j, g)
      BY <1>1, <3>1
    <3>3. y # Nil
      BY DEF Ref, Nil
    <3>4. Ref(g.t) \in D[l]
      BY <2>4
    <3> HIDE DEF g, y
    <3>5. y \in Inside(j, Ref(g.t))
      BY <3>2, <3>3, CurrentInside
    <3>6. y \in D[l + 1]
      BY <1>0, <3>1, <3>4, <3>5
    <3> QED
      BY <3>1, <3>6 DEF y
  <2> HIDE DEF T
  <2>5. 0..(n - 1) \subseteq T
    <3>1. n - 1 \in Nat
      BY <1>2, <2>2
    <3> DEFINE m == n - 1
    <3>2. \A l \in 0..(m - 1) : l \in T => l + 1 \in T
      BY <2>4
    <3> HIDE DEF m
    <3>3. m \in Nat
      BY <3>1 DEF m
    <3>4. 0..m \subseteq T
      BY <2>3, <3>2, <3>3, Climb
    <3> QED
      BY <3>4 DEF m
  <2>6. Ref(f.t) \in D[n - 1]
    <3>1. n - 1 \in 0..(n - 1) /\ (n - 1) + 1 = n
      BY <1>2, <2>2
    <3>2. n - 1 \in T
      BY <2>5, <3>1
    <3> QED
      BY <2>2, <3>1, <3>2 DEF T
  <2>7. n \in 1..n /\ n \in 1..(MAX_DEPTH + 1)
    BY <1>0, <1>1, <1>2, <2>2
  <2>8. Inside(j, Ref(f.t)) \subseteq D[n]
    BY <1>0, <2>6, <2>7
  <2>9. IsFrame(j, f)
    BY <1>1, <2>2, <2>7
  <2> QED
    BY <1>2, <2>1, <2>7, <2>8, <2>9, CurrentInside DEF D
<1> QED
  BY <1>3, <1>4

\* Where the calls of pack, concat and unpack are.
WalkInv ==
    /\ job \in Jobs \cup {"none"}
    /\ outcome \in {"none", "error", "done", "invalid", "unpacked"}
    /\ reading \in {"none", "unpack", "unpack_one"}
    /\ reading # "none" => outcome = "done" /\ job = "pack"
    /\ job = "none" => outcome = "none" /\ here = Start
    /\ job # "none" => args \in Arguments /\ IsHere(job, args, here)
    /\ outcome \in {"done", "invalid", "unpacked"} =>
           here.stack = << >> /\ here.arg = Len(args) + 1

\* A walk that has not been refused has passed what is clean.
RefusedInv ==
    /\ WalkInv
    /\ job # "none" /\ outcome # "error" => CleanHere(job, args, here)
    /\ RefusedExactly

LEMMA StartIs ==
    ASSUME NEW j \in Jobs, NEW xs \in Arguments
    PROVE  IsHere(j, xs, Start) /\ CleanHere(j, xs, Start)
<1>1. Len(xs) \in Nat /\ MAX_DEPTH \in Nat
  BY ArgumentIs, DepthsAre DEF IsArgs
<1>2. Start.arg = 1 /\ Start.stack = << >> /\ Start \in [arg : Nat, stack : Seq(Frames)]
  BY DEF Start
<1>3. 1..0 = {} /\ 1 - 1 = 0 /\ Len(<< >>) = 0 /\ 1..(0 - 1) = {}
  OBVIOUS
<1>4. IsHere(j, xs, Start)
  BY <1>1, <1>2, <1>3 DEF IsHere
<1>5. CleanHere(j, xs, Start)
  BY <1>2, <1>3 DEF CleanHere
<1> QED
  BY <1>4, <1>5

\* The walk stays on the tables of the heap.
LEMMA WalkKeeps ==
    ASSUME WalkInv, [SerializeNext]_serializeVars
    PROVE  WalkInv'
<1>0. /\ job \in Jobs \cup {"none"}
      /\ outcome \in {"none", "error", "done", "invalid", "unpacked"}
      /\ reading \in {"none", "unpack", "unpack_one"}
      /\ reading # "none" => outcome = "done" /\ job = "pack"
      /\ job = "none" => outcome = "none" /\ here = Start
      /\ job # "none" => args \in Arguments /\ IsHere(job, args, here)
      /\ outcome \in {"done", "invalid", "unpacked"} =>
             here.stack = << >> /\ here.arg = Len(args) + 1
  BY DEF WalkInv
<1>00. Writing => job \in Jobs /\ args \in Arguments /\ IsArgs(args) /\ IsHere(job, args, here)
  BY <1>0, ArgumentIs DEF Writing
<1>1. CASE UNCHANGED serializeVars
  BY <1>0, <1>1 DEF WalkInv, serializeVars, writeVars, readVars
<1>2. ASSUME NEW j \in {"pack", "concat"}, NEW xs \in Arguments, Call(j, xs)
      PROVE  WalkInv'
  <2>1. IsHere(j, xs, Start)
    BY StartIs DEF Jobs
  <2> QED
    BY <1>0, <1>2, <2>1 DEF WalkInv, Call, readVars, Jobs
<1>3. CASE WriteValue
  <2>1. Writing /\ AtValue(job, args, here)
    BY <1>3 DEF WriteValue, Passes
  <2>2. IsHere(job, args, Behind(job, here))
    BY <1>00, <2>1, BehindIs
  <2> QED
    BY <1>0, <1>3, <2>1, <2>2 DEF WalkInv, WriteValue, Write, Writing, readVars
<1>4. CASE EnterTable
  <2>1. Writing /\ AtValue(job, args, here) /\ IsTable(Now) /\ ~TooDeep(Depth(here))
    BY <1>4 DEF EnterTable, Passes
  <2>2. IsValue(Now) /\ Now = Value(job, args, here)
    BY <1>00, <2>1, ValueIs DEF Now
  <2>3. IsHere(job, args, Into(job, here, Now.v[1]))
    <3>1. Now.v[1] \in DOMAIN Heap /\ Now = Ref(Now.v[1])
      BY <2>1, <2>2, TableIs
    <3> QED
      BY <1>00, <2>1, <2>2, <3>1, IntoIs
  <2> QED
    BY <1>0, <1>4, <2>1, <2>3 DEF WalkInv, EnterTable, Write, Writing, readVars
<1>5. CASE LeaveTable
  <2>1. Writing /\ here.stack # << >>
    BY <1>5 DEF LeaveTable
  <2>2. IsHere(job, args, Out(here)) /\ AtValue(job, args, Out(here))
        /\ Back(job, here) = Behind(job, Out(here))
    BY <1>00, <2>1, OutIs
  <2>3. IsHere(job, args, Back(job, here))
    BY <1>00, <2>1, <2>2, BehindIs
  <2> QED
    BY <1>0, <1>5, <2>1, <2>3 DEF WalkInv, LeaveTable, Write, Writing, readVars
<1>6. CASE Refuse
  BY <1>0, <1>6 DEF WalkInv, Refuse, Writing, readVars
<1>7. CASE Return
  <2>1. here.arg = Len(args) + 1
    <3>1. Writing /\ ~(here.arg <= Len(args))
      BY <1>7 DEF Return, AtValue
    <3>2. here.arg \in 1..(Len(args) + 1) /\ Len(args) \in Nat
      BY <1>00, <3>1 DEF IsHere, IsArgs
    <3> QED
      BY <3>1, <3>2
  <2> QED
    BY <1>0, <1>7, <2>1 DEF WalkInv, Return, Write, Writing, readVars
<1>8. CASE Cut
  BY <1>0, <1>8 DEF WalkInv, Cut, readVars
<1>9. ASSUME NEW call \in {"unpack", "unpack_one"}, Begin(call)
      PROVE  WalkInv'
  BY <1>0, <1>9 DEF WalkInv, Begin, writeVars
<1>10. CASE ReadTable
  BY <1>0, <1>10 DEF WalkInv, ReadTable, Reading, writeVars
<1>11. CASE ReadValue
  BY <1>0, <1>11 DEF WalkInv, ReadValue, Reading, writeVars
<1>12. CASE ReadFails
  <2>1. reading # "none"
    BY <1>12 DEF ReadFails, More
  <2> QED
    BY <1>0, <1>12, <2>1 DEF WalkInv, ReadFails, writeVars
<1>13. CASE Seek
  BY <1>0, <1>13 DEF WalkInv, Seek, writeVars
<1>14. CASE Unpacked
  BY <1>0, <1>14 DEF WalkInv, Unpacked, writeVars
<1> QED
  BY <1>1, <1>2, <1>3, <1>4, <1>5, <1>6, <1>7, <1>8, <1>9, <1>10, <1>11, <1>12, <1>13, <1>14
     DEF SerializeNext

\* What a walk writes is clean.
LEMMA PassesClean ==
    ASSUME NEW j \in Jobs, NEW xs \in Arguments, NEW h, IsHere(j, xs, h), AtValue(j, xs, h),
           ~TooDeep(Depth(h)), ~Unsupported(j, Value(j, xs, h)), ~IsTable(Value(j, xs, h))
    PROVE  Value(j, xs, h) \in CleanAt(j, Depth(h))
<1>1. Depth(h) \in 0..MAX_DEPTH
  BY HereDown, DepthsAre DEF TooDeep
<1>2. Value(j, xs, h) \in Values
  BY ValueInValues
<1>3. Inside(j, Value(j, xs, h)) = {}
  BY DEF Inside
<1> QED
  BY <1>1, <1>2, <1>3, CleanAtIs

LEMMA RefusedKeeps ==
    ASSUME RefusedInv, [SerializeNext]_serializeVars
    PROVE  RefusedInv'
<1>0. WalkInv /\ WalkInv'
  BY WalkKeeps DEF RefusedInv
<1>01. /\ job # "none" /\ outcome # "error" => CleanHere(job, args, here)
       /\ RefusedExactly
  BY DEF RefusedInv
<1>00. Writing => /\ job \in Jobs /\ args \in Arguments /\ IsArgs(args)
                  /\ IsHere(job, args, here) /\ CleanHere(job, args, here)
  BY <1>0, <1>01, ArgumentIs DEF WalkInv, Writing
<1> DEFINE Wrong(j, xs) ==
        \/ Down(j, xs)[MAX_DEPTH + 1] # {}
        \/ \E d \in 0..MAX_DEPTH : \E x \in Down(j, xs)[d] : Unsupported(j, x)
<1>02. RefusedExactly <=> (outcome # "none" => (outcome = "error" <=> Wrong(job, args)))
  BY DEF RefusedExactly
<1>03. RefusedExactly' <=> (outcome' # "none" => (outcome' = "error" <=> Wrong(job', args')))
  BY DEF RefusedExactly
<1> HIDE DEF Wrong
<1>04. ASSUME UNCHANGED <<job, args, here, outcome>>
       PROVE  RefusedInv'
  BY <1>0, <1>01, <1>02, <1>03, <1>04 DEF RefusedInv
<1>05. ASSUME UNCHANGED <<job, args, here>>, outcome = "done", outcome' \in {"invalid", "unpacked"}
       PROVE  RefusedInv'
  BY <1>0, <1>01, <1>02, <1>03, <1>05 DEF RefusedInv
<1>06. ASSUME Writing, UNCHANGED <<job, args, outcome>>, CleanHere(job, args, here')
       PROVE  RefusedInv'
  BY <1>0, <1>03, <1>06 DEF RefusedInv, Writing
<1>1. CASE UNCHANGED serializeVars
  BY <1>04, <1>1 DEF serializeVars, writeVars
<1>2. ASSUME NEW j \in {"pack", "concat"}, NEW xs \in Arguments, Call(j, xs)
      PROVE  RefusedInv'
  <2>1. CleanHere(j, xs, Start)
    BY StartIs DEF Jobs
  <2>2. here = Start /\ outcome = "none"
    BY <1>0, <1>2 DEF WalkInv, Call
  <2> QED
    BY <1>0, <1>03, <1>2, <2>1, <2>2 DEF RefusedInv, Call
<1>3. CASE WriteValue
  <2>1. /\ Writing /\ AtValue(job, args, here) /\ ~TooDeep(Depth(here))
        /\ ~Unsupported(job, Now) /\ ~IsTable(Now)
    BY <1>3 DEF WriteValue, Passes
  <2>2. Value(job, args, here) \in CleanAt(job, Depth(here))
    BY <1>00, <2>1, PassesClean DEF Now
  <2>3. CleanHere(job, args, Behind(job, here))
    BY <1>00, <2>1, <2>2, CleanBehind
  <2> QED
    BY <1>06, <1>3, <2>1, <2>3 DEF WriteValue, Write
<1>4. CASE EnterTable
  <2>1. /\ Writing /\ AtValue(job, args, here) /\ ~TooDeep(Depth(here)) /\ IsTable(Now)
    BY <1>4 DEF EnterTable, Passes
  <2> DEFINE t == Now.v[1]
             s == here.stack
             n == Len(s)
             r == Append(s, Frame(job, t))
  <2>2. t \in DOMAIN Heap /\ Now = Ref(t)
    BY <1>00, <2>1, ValueIs, TableIs DEF Now
  <2>3. Into(job, here, t) = [arg |-> here.arg, stack |-> r]
    BY <1>00, <2>1, <2>2, IntoIs DEF Now
  <2>4. s \in Seq(Frames) /\ Frame(job, t) \in Frames
    BY <1>00, <2>1, <2>2, FrameIs DEF IsHere, IsFrame
  <2>5. Passed(job, Frame(job, t), CleanAt(job, n + 1))
    <3>1. Frame(job, t) = [t |-> t, i |-> 1, half |-> FALSE]
      BY <1>00, <2>1, <2>2, FrameIs
    <3>2. 1..(1 - 1) = {}
      OBVIOUS
    <3> HIDE DEF t
    <3> QED
      BY <3>1, <3>2 DEF Passed
  <2>6. /\ \A l \in 1..n : Passed(job, s[l], CleanAt(job, l))
        /\ \A i \in 1..(here.arg - 1) : args[i] \in CleanAt(job, 0)
    BY <1>00, <2>1 DEF CleanHere
  <2> HIDE DEF s, t
  <2>7. /\ Len(r) = n + 1 /\ r[n + 1] = Frame(job, t) /\ n \in Nat
        /\ \A l \in 1..n : r[l] = s[l]
    BY <2>4, AppendIs
  <2> HIDE DEF r, n
  <2>8. \A l \in 1..(n + 1) : Passed(job, r[l], CleanAt(job, l))
    <3> TAKE l \in 1..(n + 1)
    <3>1. l = n + 1 \/ l \in 1..n
      BY <2>7
    <3> QED
      BY <2>5, <2>6, <2>7, <3>1
  <2>9. CleanHere(job, args, Into(job, here, t))
    BY <2>3, <2>6, <2>7, <2>8 DEF CleanHere
  <2> QED
    BY <1>06, <1>4, <2>1, <2>9 DEF EnterTable, Write, t
<1>5. CASE LeaveTable
  <2>1. Writing /\ here.stack # << >> /\ AtEnd(job, Last(here.stack))
    BY <1>5 DEF LeaveTable, AtValue
  <2>2. IsHere(job, args, Out(here)) /\ AtValue(job, args, Out(here))
        /\ Back(job, here) = Behind(job, Out(here))
    BY <1>00, <2>1, OutIs
  <2>3. CleanHere(job, args, Out(here))
        /\ Value(job, args, Out(here)) \in CleanAt(job, Depth(Out(here)))
    BY <1>00, <2>1, CleanOut
  <2>4. CleanHere(job, args, Back(job, here))
    BY <1>00, <2>1, <2>2, <2>3, CleanBehind
  <2> QED
    BY <1>06, <1>5, <2>1, <2>4 DEF LeaveTable, Write
<1>6. CASE Refuse
  <2>1. /\ Writing /\ AtValue(job, args, here)
        /\ TooDeep(Depth(here)) \/ Unsupported(job, Now)
        /\ outcome' = "error" /\ UNCHANGED <<job, args, here>>
    BY <1>6 DEF Refuse
  <2> DEFINE d == Depth(here)
             x == Value(job, args, here)
             D == Down(job, args)
  <2>2. d \in 0..(MAX_DEPTH + 1) /\ (x \in D[d] \/ (x = Nil /\ D[d] # {}))
    BY <1>00, <2>1, HereDown
  <2>3. Wrong(job, args)
    <3>1. CASE TooDeep(d)
      <4>1. d = MAX_DEPTH + 1
        BY <2>2, <3>1, DepthsAre DEF TooDeep
      <4> QED
        BY <2>2, <4>1 DEF Wrong
    <3>2. CASE ~TooDeep(d) /\ Unsupported(job, x)
      <4>1. d \in 0..MAX_DEPTH
        BY <2>2, <3>2, DepthsAre DEF TooDeep
      <4>2. x # Nil
        BY <3>2 DEF Unsupported, Nil
      <4> QED
        BY <2>2, <3>2, <4>1, <4>2 DEF Wrong
    <3> QED
      BY <2>1, <3>1, <3>2 DEF Now
  <2> QED
    BY <1>0, <1>03, <2>1, <2>3 DEF RefusedInv
<1>7. CASE Return
  <2>1. Writing /\ UNCHANGED <<job, args, here>> /\ outcome' = "done"
    BY <1>7 DEF Return, Write
  <2>2. here.arg = Len(args) + 1
    BY <1>0, <2>1 DEF WalkInv
  <2>3. ~Wrong(job, args)
    BY <1>00, <2>1, <2>2, CleanEnd DEF Wrong
  <2> QED
    BY <1>0, <1>00, <1>03, <2>1, <2>3 DEF RefusedInv
<1>8. CASE Cut
  BY <1>04, <1>8 DEF Cut
<1>9. ASSUME NEW call \in {"unpack", "unpack_one"}, Begin(call)
      PROVE  RefusedInv'
  BY <1>04, <1>9 DEF Begin, writeVars
<1>10. CASE ReadTable
  BY <1>04, <1>10 DEF ReadTable, Reading, writeVars
<1>11. CASE ReadValue
  BY <1>04, <1>11 DEF ReadValue, Reading, writeVars
<1>12. CASE ReadFails
  <2>1. outcome = "done"
    BY <1>0, <1>12 DEF ReadFails, More, WalkInv
  <2> QED
    BY <1>05, <1>12, <2>1 DEF ReadFails, writeVars
<1>13. CASE Seek
  BY <1>04, <1>13 DEF Seek, writeVars
<1>14. CASE Unpacked
  <2>1. outcome = "done"
    BY <1>0, <1>14 DEF Unpacked, WalkInv
  <2> QED
    BY <1>05, <1>14, <2>1 DEF Unpacked, writeVars
<1> QED
  BY <1>1, <1>2, <1>3, <1>4, <1>5, <1>6, <1>7, <1>8, <1>9, <1>10, <1>11, <1>12, <1>13, <1>14
     DEF SerializeNext

LEMMA WalkInit ==
    ASSUME SerializeInit
    PROVE  WalkInv
BY DEF SerializeInit, WalkInv, Start

LEMMA RefusedInit ==
    ASSUME SerializeInit
    PROVE  RefusedInv
BY WalkInit DEF SerializeInit, RefusedInv, RefusedExactly

\* pack and concat refuse arguments exactly when something in them is more than MAX_DEPTH
\* tables down or of a type they do not support: for every heap, with tables that are
\* shared, that are keys, and that contain themselves.
THEOREM Refusals == SerializeSpec => []RefusedExactly
<1>1. SerializeInit => RefusedInv
  BY RefusedInit
<1>2. RefusedInv /\ [SerializeNext]_serializeVars => RefusedInv'
  BY RefusedKeeps
<1>3. RefusedInv => RefusedExactly
  BY DEF RefusedInv
<1> QED
  BY <1>1, <1>2, <1>3, PTL DEF SerializeSpec

-----------------------------------------------------------------------------
(* What concat writes. *)

\* J[i] are the first i sequences of g, one behind the other.
Joins(J, W, n, g) ==
    /\ J \in [0..n -> Seq(W)] /\ J[0] = << >>
    /\ \A i \in 1..n : J[i] = J[i - 1] \o g[i]
    /\ \A m \in 0..n : Joined([i \in 1..m |-> g[i]]) = J[m]

LEMMA JoinedIs ==
    ASSUME NEW W, NEW n \in Nat, NEW g \in [1..n -> Seq(W)]
    PROVE  \E J : Joins(J, W, n, g)
<1> DEFINE X == Seq(W)
           step == [i \in 1..n |-> [s \in X |-> s \o g[i]]]
           base == << >>
<1>1. base \in X
  OBVIOUS
<1>2. \A i \in 1..n : \A s \in X : s \o g[i] \in X
  OBVIOUS
<1> HIDE DEF X, base
<1>3. step \in [1..n -> [X -> X]]
  BY <1>2
<1>4. \A i \in 1..n : \A s \in X : step[i][s] = s \o g[i]
  OBVIOUS
<1> HIDE DEF step
<1>5. PICK J : Iterates(J, X, n, base, step)
  BY <1>1, <1>3, Recursion
<1>6. \A i \in 1..n : i # 0 /\ i - 1 \in 0..n /\ i \in 0..n
  OBVIOUS
<1>7. J \in [0..n -> X] /\ J[0] = base /\ \A i \in 1..n : J[i] = J[i - 1] \o g[i]
  BY <1>4, <1>5, <1>6 DEF Iterates
<1>8. ASSUME NEW m \in 0..n
      PROVE  Joined([i \in 1..m |-> g[i]]) = J[m]
  <2> DEFINE ss == [i \in 1..m |-> g[i]]
             G(f) == [i \in 0..m |-> IF i = 0 THEN << >> ELSE f[i - 1] \o ss[i]]
             f0 == [i \in 0..m |-> J[i]]
  <2>1. Len(ss) = m /\ \A i \in 1..m : ss[i] = g[i]
    OBVIOUS
  <2>2. Joined(ss) = (CHOOSE f : f = G(f))[m]
    BY <2>1 DEF Joined
  <2> HIDE DEF ss
  <2>3. \A i \in 0..m : i \in 0..n /\ (i # 0 => i \in 1..n /\ i \in 1..m /\ i - 1 \in 0..m)
    OBVIOUS
  <2>4. f0 = G(f0)
    <3>1. \A i \in 0..m : f0[i] = IF i = 0 THEN << >> ELSE f0[i - 1] \o ss[i]
      BY <1>7, <2>1, <2>3 DEF base
    <3> QED
      BY <3>1
  <2>5. ASSUME NEW f, f = G(f)
        PROVE  f[m] = J[m]
    <3> DEFINE T == {i \in 0..m : f[i] = J[i]}
    <3>1. \A i \in 0..m : f[i] = IF i = 0 THEN << >> ELSE f[i - 1] \o ss[i]
      BY <2>5
    <3>2. 0 \in T
      BY <1>7, <3>1 DEF base
    <3>3. ASSUME NEW i \in 0..(m - 1), i \in T
          PROVE  i + 1 \in T
      <4>1. i + 1 \in 0..m /\ i + 1 # 0 /\ (i + 1) - 1 = i /\ i + 1 \in 1..m /\ i + 1 \in 1..n
        OBVIOUS
      <4>2. f[i + 1] = f[i] \o ss[i + 1]
        BY <3>1, <4>1
      <4>3. J[i + 1] = J[i] \o g[i + 1]
        BY <1>7, <4>1
      <4>4. f[i] = J[i]
        BY <3>3
      <4> QED
        BY <2>1, <4>1, <4>2, <4>3, <4>4
    <3> HIDE DEF T
    <3>4. 0..m \subseteq T
      <4>1. m \in Nat
        OBVIOUS
      <4> QED
        BY <3>2, <3>3, <4>1, Climb
    <3>5. m \in T
      BY <3>4
    <3> QED
      BY <3>5 DEF T
  <2> HIDE DEF G, f0
  <2>6. LET c == CHOOSE f : f = G(f) IN c = G(c)
    BY <2>4
  <2>7. (CHOOSE f : f = G(f))[m] = J[m]
    BY <2>5, <2>6
  <2> QED
    BY <2>2, <2>7 DEF ss
<1>9. Joins(J, W, n, g)
  BY <1>7, <1>8 DEF Joins, X, base
<1> QED
  BY <1>9

\* The last sequence comes behind the others.
LEMMA JoinedLast ==
    ASSUME NEW W, NEW n \in Nat, NEW g \in [1..n -> Seq(W)]
    PROVE  /\ Joined(g) \in Seq(W)
           /\ n = 0 => Joined(g) = << >>
           /\ n > 0 => /\ Joined([i \in 1..(n - 1) |-> g[i]]) \in Seq(W)
                       /\ Joined(g) = Joined([i \in 1..(n - 1) |-> g[i]]) \o g[n]
<1>1. PICK J : Joins(J, W, n, g)
  BY JoinedIs
<1>2. g = [i \in 1..n |-> g[i]] /\ n \in 0..n
  OBVIOUS
<1>3. Joined(g) = J[n] /\ J[n] \in Seq(W)
  <2>1. Joined([i \in 1..n |-> g[i]]) = J[n]
    BY <1>1, <1>2 DEF Joins
  <2> QED
    BY <1>1, <1>2, <2>1 DEF Joins
<1>4. n > 0 => n - 1 \in 0..n /\ n \in 1..n
  OBVIOUS
<1> QED
  BY <1>1, <1>3, <1>4 DEF Joins

\* What a value d tables down writes.
PieceAt(d, x) == Written(Flat[(MAX_DEPTH + 1) - d], x)

LEMMA WordsAre ==
    ASSUME NEW x \in Values
    PROVE  Words(x) \in Seq(Values)
BY DEF Words

LEMMA ElementsAre ==
    ASSUME NEW t \in DOMAIN Heap
    PROVE  /\ Heap[t].length \in Nat
           /\ Elements(t) \in [1..Heap[t].length -> Values]
           /\ \A i \in 1..Heap[t].length : Elements(t)[i] = rawgeti(t, i) /\ IsValue(Elements(t)[i])
<1> DEFINE n == Heap[t].length
<1>1. n \in Nat
  BY RowIs
<1>2. Elements(t) = [i \in 1..n |-> rawgeti(t, i)]
  BY DEF Elements
<1>3. ASSUME NEW i \in 1..n
      PROVE  rawgeti(t, i) \in Values /\ IsValue(rawgeti(t, i))
  <2>1. "concat" \in Jobs
    BY DEF Jobs
  <2>2. i \in 1..Len(Slots("concat", t))
    BY <1>1, <2>1, SlotsAre
  <2>3. Slots("concat", t)[i] = <<Integer(i), rawgeti(t, i)>>
    BY <2>1, SlotsAre
  <2>4. Slots("concat", t)[i][2] \in Values /\ IsValue(Slots("concat", t)[i][2])
    BY <2>1, <2>2, SlotInValues, SlotIs
  <2> QED
    BY <2>3, <2>4
<1> QED
  BY <1>1, <1>2, <1>3

LEMMA FlatIs ==
    /\ \A e \in Depths : Flat[e] \in [DOMAIN Heap -> Seq(Values)]
    /\ \A e \in 1..(MAX_DEPTH + 1) : \A t \in DOMAIN Heap :
           Flat[e][t] = Joined([i \in 1..Heap[t].length |-> Written(Flat[e - 1], Elements(t)[i])])
<1> DEFINE X == [DOMAIN Heap -> Seq(Values)]
           N == MAX_DEPTH + 1
           W(fl, t) == [i \in DOMAIN Elements(t) |-> Written(fl, Elements(t)[i])]
           F(fl) == [t \in DOMAIN Heap |-> Joined(W(fl, t))]
           base == [t \in DOMAIN Heap |-> << >>]
           step == [n \in 1..N |-> [fl \in X |-> F(fl)]]
           G(f) == [d \in 0..N |-> [t \in DOMAIN Heap |->
                       IF d = 0 THEN << >> ELSE Joined(W(f[d - 1], t))]]
<1>0. N \in Nat /\ Depths = 0..N
  BY DepthsAre DEF Depths
<1>1. base \in X
  OBVIOUS
<1>2. ASSUME NEW fl \in X
      PROVE  F(fl) \in X
  <2>1. ASSUME NEW t \in DOMAIN Heap
        PROVE  Joined(W(fl, t)) \in Seq(Values)
    <3> DEFINE n == Heap[t].length
               g == W(fl, t)
    <3>1. n \in Nat /\ DOMAIN Elements(t) = 1..n
      BY ElementsAre
    <3>2. \A i \in 1..n : Elements(t)[i] \in Values /\ IsValue(Elements(t)[i])
      BY ElementsAre
    <3>3. \A i \in 1..n : Written(fl, Elements(t)[i]) \in Seq(Values)
      BY <3>2, TableIs, WordsAre DEF Written
    <3>4. g \in [1..n -> Seq(Values)]
      BY <3>1, <3>3
    <3> HIDE DEF g, n
    <3>5. Joined(g) \in Seq(Values)
      BY <3>1, <3>4, JoinedLast
    <3> QED
      BY <3>5 DEF g
  <2> HIDE DEF W
  <2> QED
    BY <2>1
<1> HIDE DEF X, F, N, base
<1>3. step \in [1..N -> [X -> X]]
  BY <1>2
<1>4. \A n \in 1..N : \A fl \in X : step[n][fl] = F(fl)
  OBVIOUS
<1> HIDE DEF step
<1>5. PICK f : Iterates(f, X, N, base, step)
  BY <1>0, <1>1, <1>3, Recursion
<1>6. \A n \in 1..N : n # 0 /\ n - 1 \in 0..N /\ n \in 0..N
  BY <1>0
<1>7. f \in [0..N -> X] /\ f[0] = base /\ \A n \in 1..N : f[n] = F(f[n - 1])
  BY <1>4, <1>5, <1>6 DEF Iterates
<1> HIDE DEF W
<1>8. f = G(f)
  <2>1. \A n \in 0..N : n # 0 => n \in 1..N
    OBVIOUS
  <2>2. \A n \in 0..N : f[n] = [t \in DOMAIN Heap |->
                                    IF n = 0 THEN << >> ELSE Joined(W(f[n - 1], t))]
    <3> TAKE n \in 0..N
    <3>1. CASE n = 0
      BY <1>7, <3>1 DEF base
    <3>2. CASE n # 0
      <4>1. f[n] = F(f[n - 1])
        BY <1>7, <2>1, <3>2
      <4> QED
        BY <3>2, <4>1 DEF F
    <3> QED
      BY <3>1, <3>2
  <2> QED
    BY <1>7, <2>2
<1>9. Flat = CHOOSE c : c = G(c)
  BY DEF Flat, W, N
<1>10. Flat = G(Flat)
  <2>1. \E c : c = G(c)
    BY <1>8
  <2> HIDE DEF G
  <2> QED
    BY <1>9, <2>1
<1> DEFINE g == Flat
<1>11. g[0] = base /\ \A n \in 1..N : g[n] = F(g[n - 1])
  <2>1. g = [d \in 0..N |-> [t \in DOMAIN Heap |->
                       IF d = 0 THEN << >> ELSE Joined(W(g[d - 1], t))]]
    BY <1>10
  <2>2. 0 \in 0..N
    BY <1>0
  <2> HIDE DEF g
  <2> QED
    BY <1>6, <2>1, <2>2 DEF base, F
<1> DEFINE T == {n \in 0..N : g[n] \in X}
<1>12. 0 \in T
  BY <1>0, <1>1, <1>11
<1>13. ASSUME NEW n \in 0..(N - 1), n \in T
       PROVE  n + 1 \in T
  <2>1. n + 1 \in 1..N /\ (n + 1) - 1 = n
    BY <1>0
  <2>2. g[n + 1] = F(g[n])
    BY <1>11, <2>1
  <2> QED
    BY <1>2, <1>6, <1>13, <2>1, <2>2
<1> HIDE DEF T, g
<1>14. 0..N \subseteq T
  BY <1>0, <1>12, <1>13, Climb
<1>15. \A e \in Depths : g[e] \in X
  BY <1>0, <1>14 DEF T
<1>16. ASSUME NEW e \in 1..N, NEW t \in DOMAIN Heap
       PROVE  g[e][t] = Joined([i \in 1..Heap[t].length |-> Written(g[e - 1], Elements(t)[i])])
  <2>1. DOMAIN Elements(t) = 1..Heap[t].length
    BY ElementsAre
  <2>2. g[e][t] = Joined(W(g[e - 1], t))
    BY <1>11 DEF F
  <2> QED
    BY <2>1, <2>2 DEF W
<1> QED
  BY <1>15, <1>16 DEF g, X, N

LEMMA PieceIs ==
    ASSUME NEW d \in Depths, NEW x \in Values, IsValue(x)
    PROVE  /\ PieceAt(d, x) \in Seq(Values)
           /\ ~IsTable(x) => PieceAt(d, x) = Words(x)
<1> DEFINE e == (MAX_DEPTH + 1) - d
<1>1. e \in Depths
  BY DepthsAre DEF Depths
<1>2. PieceAt(d, x) = IF IsTable(x) THEN Flat[e][x.v[1]] ELSE Words(x)
  BY DEF PieceAt, Written
<1> HIDE DEF e
<1>3. Flat[e] \in [DOMAIN Heap -> Seq(Values)]
  BY <1>1, FlatIs
<1> QED
  BY <1>2, <1>3, TableIs, WordsAre

\* What the elements of t write that are before the i-th.
ElementsBefore(d, t, i) == Joined([m \in 1..(i - 1) |-> PieceAt(d, Elements(t)[m])])

LEMMA ElementsBeforeIs ==
    ASSUME NEW t \in DOMAIN Heap, NEW d \in Depths, NEW i \in 1..(Heap[t].length + 1)
    PROVE  /\ ElementsBefore(d, t, i) \in Seq(Values)
           /\ i = 1 => ElementsBefore(d, t, i) = << >>
           /\ i <= Heap[t].length =>
                  ElementsBefore(d, t, i + 1) = ElementsBefore(d, t, i) \o PieceAt(d, Elements(t)[i])
           /\ i = Heap[t].length + 1 /\ d > 0 => ElementsBefore(d, t, i) = PieceAt(d - 1, Ref(t))
<1> DEFINE n == Heap[t].length
           P(m) == PieceAt(d, Elements(t)[m])
<1>1. n \in Nat /\ \A m \in 1..n : Elements(t)[m] \in Values /\ IsValue(Elements(t)[m])
  BY ElementsAre
<1>2. \A m \in 1..n : P(m) \in Seq(Values)
  BY <1>1, PieceIs
<1> HIDE DEF P, n
<1>3. ASSUME NEW k \in 0..n
      PROVE  /\ ElementsBefore(d, t, k + 1) \in Seq(Values)
             /\ k = 0 => ElementsBefore(d, t, k + 1) = << >>
             /\ k > 0 => ElementsBefore(d, t, k + 1) = ElementsBefore(d, t, k) \o P(k)
  <2> DEFINE g == [m \in 1..k |-> P(m)]
             g1 == [m \in 1..(k - 1) |-> P(m)]
  <2>1. g \in [1..k -> Seq(Values)] /\ k \in Nat
    BY <1>1, <1>2
  <2>2. (k + 1) - 1 = k
    BY <2>1
  <2>3. ElementsBefore(d, t, k + 1) = Joined(g) /\ ElementsBefore(d, t, k) = Joined(g1)
    BY <2>2 DEF ElementsBefore, P
  <2>4. k > 0 => g1 = [m \in 1..(k - 1) |-> g[m]] /\ g[k] = P(k)
    BY <2>1
  <2> HIDE DEF g, g1
  <2>5. /\ Joined(g) \in Seq(Values) /\ (k = 0 => Joined(g) = << >>)
        /\ k > 0 => Joined(g) = Joined([m \in 1..(k - 1) |-> g[m]]) \o g[k]
    BY <2>1, JoinedLast
  <2> QED
    BY <2>3, <2>4, <2>5
<1>4. i - 1 \in 0..n /\ (i - 1) + 1 = i /\ (i <= n => i \in 0..n /\ i > 0)
  BY <1>1 DEF n
<1>5. ElementsBefore(d, t, i) \in Seq(Values) /\ (i = 1 => ElementsBefore(d, t, i) = << >>)
  <2> DEFINE k == i - 1
  <2>1. k \in 0..n /\ (i = 1 => k = 0) /\ i = k + 1
    BY <1>4
  <2> HIDE DEF k
  <2> QED
    BY <1>3, <2>1
<1>6. i <= n => ElementsBefore(d, t, i + 1) = ElementsBefore(d, t, i) \o P(i)
  BY <1>3, <1>4
<1>7. i = n + 1 /\ d > 0 => ElementsBefore(d, t, i) = PieceAt(d - 1, Ref(t))
  <2> HAVE i = n + 1 /\ d > 0
  <2> DEFINE e == (MAX_DEPTH + 1) - (d - 1)
  <2>1. e \in 1..(MAX_DEPTH + 1) /\ e - 1 = (MAX_DEPTH + 1) - d
    BY DepthsAre DEF Depths
  <2>2. PieceAt(d - 1, Ref(t)) = Flat[e][t]
    BY RefIs DEF PieceAt, Written
  <2>3. i - 1 = n
    BY <1>1
  <2> HIDE DEF e
  <2>4. Flat[e][t] = Joined([m \in 1..n |-> Written(Flat[e - 1], Elements(t)[m])])
    BY <2>1, FlatIs DEF n
  <2> QED
    BY <2>1, <2>2, <2>3, <2>4 DEF ElementsBefore, PieceAt
<1> QED
  BY <1>5, <1>6, <1>7 DEF n, P

\* What is before h l tables down: arguments, or elements of a table.
Part(xs, h, l) ==
    IF l = 0 THEN Joined([i \in 1..(h.arg - 1) |-> PieceAt(0, xs[i])])
    ELSE ElementsBefore(l, h.stack[l].t, h.stack[l].i)

TextOf(xs, h) == Joined([l \in 1..(Len(h.stack) + 1) |-> Part(xs, h, l - 1)])

LEMMA ConcatFrame ==
    ASSUME NEW f, IsFrame("concat", f)
    PROVE  /\ f.t \in DOMAIN Heap /\ f.i \in 1..(Heap[f.t].length + 1)
           /\ AtEnd("concat", f) <=> f.i = Heap[f.t].length + 1
           /\ ~AtEnd("concat", f) =>
                  /\ Current("concat", f) = Elements(f.t)[f.i]
                  /\ After("concat", f).t = f.t /\ After("concat", f).i = f.i + 1
<1> DEFINE t == f.t
           n == Heap[t].length
<1>0. "concat" \in Jobs
  BY DEF Jobs
<1>1. t \in DOMAIN Heap /\ f.i \in 1..(Len(Slots("concat", t)) + 1)
      /\ (f.half => f.i > n /\ f.i <= Len(Slots("concat", t)))
  BY DEF IsFrame, Frames
<1>2. Len(Slots("concat", t)) = n /\ n \in Nat
  BY <1>0, <1>1, SlotsAre, RowIs
<1>3. AtEnd("concat", f) <=> f.i = n + 1
  BY <1>1, <1>2 DEF AtEnd
<1>4. ASSUME ~AtEnd("concat", f)
      PROVE  /\ Current("concat", f) = Elements(t)[f.i]
             /\ After("concat", f).t = t /\ After("concat", f).i = f.i + 1
  <2>1. f.i \in 1..n
    BY <1>1, <1>2, <1>3, <1>4
  <2>2. ~AtKey(f)
    BY <1>2, <2>1 DEF AtKey
  <2>3. Slots("concat", t)[f.i] = <<Integer(f.i), rawgeti(t, f.i)>>
    BY <1>0, <1>1, <2>1, SlotsAre
  <2>4. NextSlot("concat", t, f.i) = f.i + 1
    BY <1>0, <1>1, <1>2, <2>1, NoneSkipped
  <2>5. Elements(t)[f.i] = rawgeti(t, f.i)
    BY <1>1, <2>1, ElementsAre
  <2> QED
    BY <2>2, <2>3, <2>4, <2>5 DEF Current, After
<1> QED
  BY <1>1, <1>2, <1>3, <1>4

LEMMA PartIs ==
    ASSUME NEW xs \in Arguments, NEW h, IsHere("concat", xs, h)
    PROVE  /\ Len(h.stack) \in Nat
           /\ \A l \in 0..Len(h.stack) : l \in Depths /\ Part(xs, h, l) \in Seq(Values)
           /\ TextOf(xs, h) \in Seq(Values)
<1> DEFINE n == Len(h.stack)
           s == h.stack
           g == [l \in 1..(n + 1) |-> Part(xs, h, l - 1)]
<1>1. /\ s \in Seq(Frames) /\ n \in Nat /\ n <= MAX_DEPTH + 1 /\ h.arg \in 1..(Len(xs) + 1)
      /\ \A l \in 1..n : IsFrame("concat", s[l])
  BY DEF IsHere
<1>2. Len(xs) \in Nat /\ \A i \in 1..Len(xs) : xs[i] \in Values /\ IsValue(xs[i])
  BY ArgumentIs DEF IsArgs
<1>3. 0 \in Depths /\ \A l \in 0..n : l \in Depths
  BY <1>1, DepthsAre DEF Depths
<1>4. Part(xs, h, 0) \in Seq(Values)
  <2> DEFINE k == h.arg - 1
             p == [i \in 1..k |-> PieceAt(0, xs[i])]
  <2>1. k \in Nat /\ \A i \in 1..k : i \in 1..Len(xs)
    BY <1>1, <1>2
  <2>2. \A i \in 1..k : PieceAt(0, xs[i]) \in Seq(Values)
    BY <1>2, <1>3, <2>1, PieceIs
  <2>3. p \in [1..k -> Seq(Values)]
    BY <2>2
  <2>4. Part(xs, h, 0) = Joined(p)
    BY DEF Part
  <2> HIDE DEF p, k
  <2> QED
    BY <2>1, <2>3, <2>4, JoinedLast
<1>5. ASSUME NEW l \in 1..n
      PROVE  Part(xs, h, l) \in Seq(Values)
  <2>1. l # 0 /\ l \in Depths /\ IsFrame("concat", s[l])
    BY <1>1, <1>3
  <2>2. Part(xs, h, l) = ElementsBefore(l, s[l].t, s[l].i)
    BY <2>1 DEF Part
  <2>3. s[l].t \in DOMAIN Heap /\ s[l].i \in 1..(Heap[s[l].t].length + 1)
    BY <2>1, ConcatFrame
  <2> QED
    BY <2>1, <2>2, <2>3, ElementsBeforeIs
<1>6. \A l \in 0..n : Part(xs, h, l) \in Seq(Values)
  BY <1>1, <1>4, <1>5
<1>7. g \in [1..(n + 1) -> Seq(Values)] /\ n + 1 \in Nat
  <2>1. \A l \in 1..(n + 1) : l - 1 \in 0..n
    BY <1>1
  <2> QED
    BY <1>1, <1>6, <2>1
<1>8. TextOf(xs, h) = Joined(g)
  BY DEF TextOf
<1> HIDE DEF g, n
<1>9. TextOf(xs, h) \in Seq(Values)
  BY <1>7, <1>8, JoinedLast
<1> QED
  BY <1>1, <1>3, <1>6, <1>9 DEF n

\* The text is what is before the innermost table, and the part in it.
LEMMA TextIs ==
    ASSUME NEW xs \in Arguments, NEW h, IsHere("concat", xs, h)
    PROVE  /\ h.stack = << >> => TextOf(xs, h) = Part(xs, h, 0)
           /\ \A g : /\ Len(h.stack) > 0 /\ Len(g.stack) = Len(h.stack) - 1
                     /\ \A l \in 0..(Len(h.stack) - 1) : Part(xs, g, l) = Part(xs, h, l)
                     => TextOf(xs, h) = TextOf(xs, g) \o Part(xs, h, Len(h.stack))
<1> DEFINE n == Len(h.stack)
           p == [l \in 1..(n + 1) |-> Part(xs, h, l - 1)]
           q == [l \in 1..n |-> Part(xs, h, l - 1)]
<1>1. n \in Nat /\ \A l \in 0..n : Part(xs, h, l) \in Seq(Values)
  BY PartIs
<1>2. p \in [1..(n + 1) -> Seq(Values)] /\ n + 1 \in Nat /\ (n + 1) - 1 = n /\ n + 1 > 0
  <2>1. \A l \in 1..(n + 1) : l - 1 \in 0..n
    BY <1>1
  <2> QED
    BY <1>1, <2>1
<1>3. q = [l \in 1..((n + 1) - 1) |-> p[l]] /\ p[n + 1] = Part(xs, h, n)
  <2>1. \A l \in 1..n : l \in 1..(n + 1)
    BY <1>1
  <2>2. n + 1 \in 1..(n + 1)
    BY <1>1
  <2> QED
    BY <1>2, <2>1, <2>2
<1>4. TextOf(xs, h) = Joined(p)
  BY DEF TextOf
<1> HIDE DEF p
<1>5. Joined([l \in 1..((n + 1) - 1) |-> p[l]]) \in Seq(Values)
      /\ Joined(p) = Joined([l \in 1..((n + 1) - 1) |-> p[l]]) \o p[n + 1]
  <2> DEFINE m == n + 1
  <2>1. m \in Nat /\ m > 0 /\ p \in [1..m -> Seq(Values)]
    BY <1>2
  <2> HIDE DEF m
  <2>2. Joined([l \in 1..(m - 1) |-> p[l]]) \in Seq(Values)
        /\ Joined(p) = Joined([l \in 1..(m - 1) |-> p[l]]) \o p[m]
    BY <2>1, JoinedLast
  <2> QED
    BY <2>2 DEF m
<1> HIDE DEF n, q
<1>6. Joined(q) \in Seq(Values) /\ TextOf(xs, h) = Joined(q) \o Part(xs, h, n)
  BY <1>3, <1>4, <1>5
<1>7. ASSUME n = 0
      PROVE  TextOf(xs, h) = Part(xs, h, 0)
  <2>1. q \in [1..0 -> Seq(Values)]
    BY <1>7 DEF q
  <2>2. Joined(q) = << >>
    <3> DEFINE z == 0
    <3>1. z \in Nat /\ q \in [1..z -> Seq(Values)] /\ z = 0
      BY <2>1
    <3> HIDE DEF z
    <3> QED
      BY <3>1, JoinedLast
  <2>3. Part(xs, h, 0) \in Seq(Values)
    BY <1>1, <1>7
  <2> QED
    BY <1>6, <1>7, <2>2, <2>3
<1>8. ASSUME NEW g, n > 0, Len(g.stack) = n - 1,
             \A l \in 0..(n - 1) : Part(xs, g, l) = Part(xs, h, l)
      PROVE  TextOf(xs, h) = TextOf(xs, g) \o Part(xs, h, n)
  <2>1. (n - 1) + 1 = n /\ \A l \in 1..n : l - 1 \in 0..(n - 1)
    BY <1>1
  <2>2. TextOf(xs, g) = Joined([l \in 1..n |-> Part(xs, g, l - 1)])
    BY <1>8, <2>1 DEF TextOf
  <2>3. [l \in 1..n |-> Part(xs, g, l - 1)] = q
    BY <1>8, <2>1 DEF q
  <2> QED
    BY <1>6, <2>2, <2>3
<1> QED
  BY <1>7, <1>8 DEF n

LEMMA TextOut ==
    ASSUME NEW xs \in Arguments, NEW h, IsHere("concat", xs, h), h.stack # << >>
    PROVE  /\ TextOf(xs, h) = TextOf(xs, Out(h)) \o Part(xs, h, Len(h.stack))
           /\ AtEnd("concat", Last(h.stack)) =>
                  Part(xs, h, Len(h.stack)) = PieceAt(Depth(Out(h)), Value("concat", xs, Out(h)))
<1> DEFINE s == h.stack
           n == Len(s)
           o == Out(h)
           f == Last(s)
<1>1. s \in Seq(Frames) /\ \A l \in 1..n : IsFrame("concat", s[l])
  BY DEF IsHere
<1>2. o.stack = Front(s) /\ o.arg = h.arg
  BY DEF Out
<1>3. Value("concat", xs, o) = Ref(f.t) /\ IsHere("concat", xs, o)
  <2>1. "concat" \in Jobs /\ IsArgs(xs)
    BY ArgumentIs DEF Jobs
  <2> QED
    BY <2>1, OutIs
<1> HIDE DEF s, o, f
<1>4. /\ Len(Front(s)) = n - 1 /\ n \in Nat /\ n >= 1 /\ f = s[n]
      /\ \A l \in 1..(n - 1) : Front(s)[l] = s[l]
  BY <1>1, TopIs DEF s, f
<1>5. Len(h.stack) > 0 /\ Len(o.stack) = Len(h.stack) - 1 /\ Depth(o) = n - 1
  BY <1>2, <1>4 DEF s, Depth
<1> HIDE DEF n
<1>6. \A l \in 0..(n - 1) : Part(xs, o, l) = Part(xs, h, l)
  <2> TAKE l \in 0..(n - 1)
  <2>1. CASE l = 0
    BY <1>2, <2>1 DEF Part
  <2>2. CASE l # 0
    <3>1. l \in 1..(n - 1)
      BY <2>2
    <3>2. o.stack[l] = h.stack[l]
      BY <1>2, <1>4, <3>1 DEF s
    <3> QED
      BY <2>2, <3>2 DEF Part
  <2> QED
    BY <2>1, <2>2
<1>7. TextOf(xs, h) = TextOf(xs, o) \o Part(xs, h, n)
  BY <1>5, <1>6, TextIs DEF n, s
<1>8. ASSUME AtEnd("concat", f)
      PROVE  Part(xs, h, n) = PieceAt(n - 1, Ref(f.t))
  <2>1. n \in 1..n /\ n # 0 /\ n > 0 /\ n \in 0..n
    BY <1>4
  <2>2. IsFrame("concat", f)
    BY <1>1, <1>4, <2>1
  <2>3. f.t \in DOMAIN Heap /\ f.i = Heap[f.t].length + 1 /\ f.i \in 1..(Heap[f.t].length + 1)
    BY <1>8, <2>2, ConcatFrame
  <2>4. n \in Depths
    BY <2>1, PartIs DEF n, s
  <2>5. Part(xs, h, n) = ElementsBefore(n, f.t, f.i)
    BY <1>4, <2>1 DEF Part, s
  <2> QED
    BY <2>1, <2>3, <2>4, <2>5, ElementsBeforeIs
<1> QED
  BY <1>3, <1>5, <1>7, <1>8 DEF n, s, o, f

LEMMA TextBehind ==
    ASSUME NEW xs \in Arguments, NEW h, IsHere("concat", xs, h), AtValue("concat", xs, h)
    PROVE  TextOf(xs, Behind("concat", h)) =
               TextOf(xs, h) \o PieceAt(Depth(h), Value("concat", xs, h))
<1> DEFINE s == h.stack
           n == Len(s)
           b == Behind("concat", h)
           x == Value("concat", xs, h)
<1>0. "concat" \in Jobs /\ IsArgs(xs)
  BY ArgumentIs DEF Jobs
<1>1. IsHere("concat", xs, b)
  BY <1>0, BehindIs
<1>2. x \in Values /\ IsValue(x)
  BY <1>0, ValueInValues, ValueIs
<1>3. CASE s = << >>
  <2> DEFINE k == h.arg
             p == [i \in 1..k |-> PieceAt(0, xs[i])]
             q == [i \in 1..(k - 1) |-> PieceAt(0, xs[i])]
  <2>1. b.stack = << >> /\ b.arg = k + 1
    BY <1>0, <1>3, BehindIs
  <2>2. k \in 1..Len(xs) /\ x = xs[k] /\ Depth(h) = 0
    BY <1>0, <1>3 DEF IsHere, AtValue, Value, Depth, IsArgs
  <2>3. TextOf(xs, h) = Part(xs, h, 0) /\ TextOf(xs, b) = Part(xs, b, 0)
    BY <1>1, <1>3, <2>1, TextIs
  <2>4. (k + 1) - 1 = k
    BY <2>2
  <2>5. Part(xs, h, 0) = Joined(q) /\ Part(xs, b, 0) = Joined(p)
    BY <2>1, <2>4 DEF Part
  <2>6. p \in [1..k -> Seq(Values)]
    <3>1. \A i \in 1..k : i \in 1..Len(xs)
      BY <2>2
    <3>2. \A i \in 1..Len(xs) : xs[i] \in Values /\ IsValue(xs[i])
      BY ArgumentIs
    <3>3. 0 \in Depths
      BY DepthsAre DEF Depths
    <3> QED
      BY <3>1, <3>2, <3>3, PieceIs
  <2>7. q = [i \in 1..(k - 1) |-> p[i]] /\ p[k] = PieceAt(0, x) /\ k > 0 /\ k \in Nat
    BY <2>2
  <2> HIDE DEF p, q, k
  <2>8. Joined(p) = Joined(q) \o p[k]
    BY <2>6, <2>7, JoinedLast
  <2> QED
    BY <2>2, <2>3, <2>5, <2>7, <2>8
<1>4. CASE s # << >>
  <2> DEFINE f == Last(s)
             g == After("concat", f)
             r == Append(Front(s), g)
  <2>1. b.stack = r /\ b.arg = h.arg
    BY <1>0, <1>4, BehindIs
  <2>2. s \in Seq(Frames) /\ \A l \in 1..n : IsFrame("concat", s[l])
    BY DEF IsHere
  <2>3. ~AtEnd("concat", f) /\ x = Current("concat", f) /\ Depth(h) = n
    BY <1>4 DEF AtValue, Value, Depth
  <2>4. Len(b.stack) \in Nat /\ n \in Nat
    BY <1>1, PartIs
  <2> HIDE DEF s, f, g, x
  <2>5. /\ Front(s) \in Seq(Frames) /\ Len(Front(s)) = n - 1 /\ n >= 1 /\ f = s[n]
        /\ \A l \in 1..(n - 1) : Front(s)[l] = s[l]
    BY <1>4, <2>2, TopIs DEF f
  <2>6. IsFrame("concat", f)
    <3>1. n \in 1..n
      BY <2>4, <2>5
    <3> QED
      BY <2>2, <2>5, <3>1
  <2>7. IsFrame("concat", g)
    BY <1>0, <2>3, <2>6, AfterIs DEF g
  <2> HIDE DEF n, b
  <2>8. /\ Len(r) = n /\ r[n] = g
        /\ \A l \in 1..(n - 1) : r[l] = s[l]
    <3>1. /\ r \in Seq(Frames) /\ Len(r) = Len(Front(s)) + 1 /\ r[Len(Front(s)) + 1] = g
          /\ \A l \in 1..Len(Front(s)) : r[l] = Front(s)[l]
      BY <2>5, <2>7, AppendIs DEF IsFrame
    <3>2. Len(Front(s)) + 1 = n
      BY <2>4, <2>5
    <3> HIDE DEF r
    <3> QED
      BY <2>5, <3>1, <3>2
  <2> HIDE DEF r
  <2>9. \A l \in 0..(n - 1) : Part(xs, Out(h), l) = Part(xs, b, l)
    <3> TAKE l \in 0..(n - 1)
    <3>1. Out(h).stack = Front(s) /\ Out(h).arg = h.arg
      BY DEF Out, s
    <3>2. CASE l = 0
      BY <2>1, <3>1, <3>2 DEF Part
    <3>3. CASE l # 0
      <4>1. l \in 1..(n - 1)
        BY <2>4, <3>3
      <4>2. Out(h).stack[l] = b.stack[l]
        BY <2>1, <2>5, <2>8, <3>1, <4>1
      <4> QED
        BY <3>3, <4>2 DEF Part
    <3> QED
      BY <3>2, <3>3
  <2>10. TextOf(xs, b) = TextOf(xs, Out(h)) \o Part(xs, b, n)
    <3>1. Len(Out(h).stack) = n - 1 /\ Len(b.stack) = n /\ n > 0
      BY <2>1, <2>4, <2>5, <2>8 DEF Out, s
    <3> QED
      BY <1>1, <2>9, <3>1, TextIs
  <2>11. TextOf(xs, h) = TextOf(xs, Out(h)) \o Part(xs, h, n)
    BY <1>4, TextOut DEF n, s
  <2>12. Part(xs, b, n) = Part(xs, h, n) \o PieceAt(n, x)
    <3>1. f.t \in DOMAIN Heap /\ f.i \in 1..(Heap[f.t].length + 1) /\ g.t = f.t /\ g.i = f.i + 1
          /\ x = Elements(f.t)[f.i] /\ f.i # Heap[f.t].length + 1
      BY <2>3, <2>6, ConcatFrame DEF g
    <3>2. Heap[f.t].length \in Nat
      BY <3>1, RowIs
    <3>3. f.i <= Heap[f.t].length
      BY <3>1, <3>2
    <3>4. n # 0 /\ b.stack[n] = g /\ h.stack[n] = f
      BY <2>1, <2>4, <2>5, <2>8 DEF s
    <3>5. n \in Depths
      <4>1. n \in 0..Len(h.stack)
        BY <2>4 DEF n, s
      <4> QED
        BY <4>1, PartIs
    <3>6. ElementsBefore(n, f.t, f.i + 1) = ElementsBefore(n, f.t, f.i) \o PieceAt(n, Elements(f.t)[f.i])
      BY <3>1, <3>3, <3>5, ElementsBeforeIs
    <3> QED
      BY <3>1, <3>4, <3>6 DEF Part
  <2>13. IsHere("concat", xs, Out(h))
    BY <1>0, <1>4, OutIs DEF s
  <2>14. /\ TextOf(xs, Out(h)) \in Seq(Values) /\ Part(xs, h, n) \in Seq(Values)
         /\ PieceAt(n, x) \in Seq(Values)
    <3>1. n \in 0..Len(h.stack)
      BY <2>4 DEF n, s
    <3>2. n \in Depths /\ Part(xs, h, n) \in Seq(Values)
      BY <3>1, PartIs
    <3> QED
      BY <1>2, <2>13, <3>2, PartIs, PieceIs DEF x
  <2>15. (TextOf(xs, Out(h)) \o Part(xs, h, n)) \o PieceAt(n, x) =
             TextOf(xs, Out(h)) \o (Part(xs, h, n) \o PieceAt(n, x))
    BY <2>14, ConcatAssociative
  <2> QED
    BY <2>3, <2>10, <2>11, <2>12, <2>15 DEF b, x
<1> QED
  BY <1>3, <1>4 DEF s

LEMMA TextInto ==
    ASSUME NEW xs \in Arguments, NEW h, IsHere("concat", xs, h), AtValue("concat", xs, h),
           NEW t \in DOMAIN Heap, Value("concat", xs, h) = Ref(t), ~TooDeep(Depth(h))
    PROVE  TextOf(xs, Into("concat", h, t)) = TextOf(xs, h)
<1> DEFINE b == Into("concat", h, t)
           s == h.stack
           n == Len(s)
           g == Frame("concat", t)
           r == Append(s, g)
<1>0. "concat" \in Jobs /\ IsArgs(xs)
  BY ArgumentIs DEF Jobs
<1>1. IsHere("concat", xs, b) /\ b = [arg |-> h.arg, stack |-> r]
  BY <1>0, IntoIs
<1>2. s \in Seq(Frames) /\ IsFrame("concat", g) /\ g = [t |-> t, i |-> 1, half |-> FALSE]
      /\ g \in Frames
  BY <1>0, FrameIs DEF IsHere, IsFrame
<1> HIDE DEF s, b, g
<1>3. /\ r # << >> /\ Last(r) = g /\ Front(r) = s /\ Len(r) = n + 1 /\ r[n + 1] = g
      /\ n \in Nat
  BY <1>2, AppendIs
<1> HIDE DEF r, n
<1>4. Out(b) = h
  <2>1. h = [arg |-> h.arg, stack |-> s]
    BY DEF IsHere, s
  <2> QED
    BY <1>1, <1>3, <2>1 DEF Out
<1>5. TextOf(xs, b) = TextOf(xs, h) \o Part(xs, b, n + 1)
  BY <1>1, <1>3, <1>4, TextOut
<1>6. Part(xs, b, n + 1) = << >>
  <2>1. n + 1 # 0 /\ b.stack[n + 1] = g /\ n + 1 \in 0..Len(b.stack)
    BY <1>1, <1>3
  <2>2. n + 1 \in Depths
    BY <1>1, <2>1, PartIs
  <2>3. 1 \in 1..(Heap[t].length + 1)
    BY RowIs
  <2>4. ElementsBefore(n + 1, t, 1) = << >>
    <3> DEFINE d == n + 1
               i == 1
    <3>1. d \in Depths /\ i \in 1..(Heap[t].length + 1) /\ i = 1
      BY <2>2, <2>3
    <3> HIDE DEF d, i
    <3>2. ElementsBefore(d, t, i) = << >>
      BY <3>1, ElementsBeforeIs
    <3> QED
      BY <3>1, <3>2 DEF d
  <2> QED
    BY <1>2, <2>1, <2>4 DEF Part
<1>7. TextOf(xs, h) \in Seq(Values)
  BY PartIs
<1> QED
  BY <1>5, <1>6, <1>7 DEF b

\* The text of concat is that of what is before the value it is at.
FlattenInv ==
    /\ WalkInv
    /\ job = "none" => text = << >>
    /\ job = "concat" /\ outcome \in {"none", "done"} => text = TextOf(args, here)

LEMMA FlattenInit ==
    ASSUME SerializeInit
    PROVE  FlattenInv
BY WalkInit DEF SerializeInit, FlattenInv

LEMMA FlattenKeeps ==
    ASSUME FlattenInv, [SerializeNext]_serializeVars
    PROVE  FlattenInv'
<1>0. WalkInv /\ WalkInv'
  BY WalkKeeps DEF FlattenInv
<1>01. /\ job = "none" => text = << >>
       /\ job = "concat" /\ outcome \in {"none", "done"} => text = TextOf(args, here)
  BY DEF FlattenInv
<1>00. Writing => /\ job \in {"pack", "concat"} /\ args \in Arguments /\ IsArgs(args)
                  /\ IsHere(job, args, here)
                  /\ job = "concat" => text = TextOf(args, here)
  BY <1>0, <1>01, ArgumentIs DEF WalkInv, Writing, Jobs
<1>02. "concat" \in Jobs
  BY DEF Jobs
<1>03. ASSUME UNCHANGED <<job, args, here, text>>, outcome \in {"none", "done"} \/ outcome' = outcome
       PROVE  FlattenInv'
  BY <1>0, <1>01, <1>03 DEF FlattenInv
<1>04. ASSUME job = "pack", job' = "pack"
       PROVE  FlattenInv'
  BY <1>0, <1>04 DEF FlattenInv
<1>05. ASSUME Writing, UNCHANGED <<job, args>>, job = "concat" => text' = TextOf(args, here')
       PROVE  FlattenInv'
  BY <1>0, <1>05 DEF FlattenInv, Writing
<1>06. reading # "none" => outcome = "done"
  BY <1>0 DEF WalkInv
<1>1. CASE UNCHANGED serializeVars
  BY <1>03, <1>1 DEF serializeVars, writeVars
<1>2. ASSUME NEW j \in {"pack", "concat"}, NEW xs \in Arguments, Call(j, xs)
      PROVE  FlattenInv'
  <2>1. here = Start /\ text = << >> /\ text' = text /\ here' = here /\ args' = xs /\ job' = j
    BY <1>0, <1>01, <1>2 DEF WalkInv, Call
  <2>2. TextOf(xs, Start) = << >>
    <3>1. IsHere("concat", xs, Start) /\ Start.stack = << >> /\ Start.arg = 1
      BY <1>02, StartIs DEF Start
    <3>2. TextOf(xs, Start) = Part(xs, Start, 0)
      BY <3>1, TextIs
    <3> DEFINE p == [i \in 1..(1 - 1) |-> PieceAt(0, xs[i])]
               n == 0
    <3>3. Part(xs, Start, 0) = Joined(p)
      BY <3>1 DEF Part
    <3>4. p \in [1..n -> Seq(Values)] /\ n \in Nat /\ n = 0
      OBVIOUS
    <3> HIDE DEF p, n
    <3> QED
      BY <3>2, <3>3, <3>4, JoinedLast
  <2> QED
    BY <1>0, <2>1, <2>2 DEF FlattenInv
<1>3. CASE WriteValue
  <2>1. Writing /\ AtValue(job, args, here) /\ ~IsTable(Now) /\ ~TooDeep(Depth(here))
    BY <1>3 DEF WriteValue, Passes
  <2>2. UNCHANGED <<job, args>> /\ here' = Behind(job, here)
        /\ (job = "concat" => text' = text \o Words(Now))
    BY <1>3 DEF WriteValue, Write
  <2>3. ASSUME job = "concat"
        PROVE  text' = TextOf(args, here')
    <3>1. TextOf(args, Behind(job, here)) = TextOf(args, here) \o PieceAt(Depth(here), Now)
      BY <1>00, <2>1, <2>3, TextBehind DEF Now
    <3>2. Now \in Values /\ IsValue(Now)
      BY <1>00, <1>02, <2>1, <2>3, ValueInValues, ValueIs DEF Now
    <3>3. Depth(here) \in Depths
      BY <1>00, <1>02, <2>1, <2>3, HereDown DEF Depths
    <3>4. PieceAt(Depth(here), Now) = Words(Now)
      BY <2>1, <3>2, <3>3, PieceIs
    <3> QED
      BY <1>00, <2>1, <2>2, <2>3, <3>1, <3>4
  <2> QED
    BY <1>05, <2>1, <2>2, <2>3
<1>4. CASE EnterTable
  <2>1. Writing /\ AtValue(job, args, here) /\ IsTable(Now) /\ ~TooDeep(Depth(here))
    BY <1>4 DEF EnterTable, Passes
  <2> DEFINE t == Now.v[1]
  <2>2. UNCHANGED <<job, args>> /\ here' = Into(job, here, t)
        /\ (job = "concat" => text' = text \o << >>)
    BY <1>4 DEF EnterTable, Write
  <2>3. ASSUME job = "concat"
        PROVE  text' = TextOf(args, here')
    <3>1. t \in DOMAIN Heap /\ Now = Ref(t)
      BY <1>00, <1>02, <2>1, <2>3, ValueIs, TableIs DEF Now
    <3> HIDE DEF t
    <3>2. TextOf(args, Into(job, here, t)) = TextOf(args, here)
      BY <1>00, <2>1, <2>3, <3>1, TextInto DEF Now
    <3>3. text \in Seq(Values)
      BY <1>00, <2>1, <2>3, PartIs
    <3> QED
      BY <1>00, <2>1, <2>2, <2>3, <3>2, <3>3
  <2> QED
    BY <1>05, <2>1, <2>2, <2>3
<1>5. CASE LeaveTable
  <2>1. Writing /\ here.stack # << >> /\ AtEnd(job, Last(here.stack))
    BY <1>5 DEF LeaveTable, AtValue
  <2>2. UNCHANGED <<job, args>> /\ here' = Back(job, here)
        /\ (job = "concat" => text' = text \o << >>)
    BY <1>5 DEF LeaveTable, Write
  <2>3. ASSUME job = "concat"
        PROVE  text' = TextOf(args, here')
    <3>1. IsHere(job, args, Out(here)) /\ AtValue(job, args, Out(here))
          /\ Back(job, here) = Behind(job, Out(here))
      BY <1>00, <1>02, <2>1, <2>3, OutIs
    <3>2. TextOf(args, Back(job, here)) =
              TextOf(args, Out(here)) \o PieceAt(Depth(Out(here)), Value(job, args, Out(here)))
      BY <1>00, <2>1, <2>3, <3>1, TextBehind
    <3>3. TextOf(args, here) =
              TextOf(args, Out(here)) \o PieceAt(Depth(Out(here)), Value(job, args, Out(here)))
      BY <1>00, <2>1, <2>3, TextOut
    <3>4. text \in Seq(Values)
      BY <1>00, <2>1, <2>3, PartIs
    <3> QED
      BY <1>00, <2>1, <2>2, <2>3, <3>2, <3>3, <3>4
  <2> QED
    BY <1>05, <2>1, <2>2, <2>3
<1>6. CASE Refuse
  BY <1>0, <1>00, <1>6 DEF FlattenInv, Refuse
<1>7. CASE Return
  <2>1. Writing /\ UNCHANGED <<job, args, here>> /\ (job = "concat" => text' = text \o << >>)
    BY <1>7 DEF Return, Write
  <2>2. ASSUME job = "concat"
        PROVE  text' = TextOf(args, here')
    <3>1. text \in Seq(Values)
      BY <1>00, <2>1, <2>2, PartIs
    <3> QED
      BY <1>00, <2>1, <2>2, <3>1
  <2> QED
    BY <1>0, <1>00, <2>1, <2>2 DEF FlattenInv
<1>8. CASE Cut
  BY <1>04, <1>8 DEF Cut
<1>9. ASSUME NEW call \in {"unpack", "unpack_one"}, Begin(call)
      PROVE  FlattenInv'
  BY <1>03, <1>9 DEF Begin, writeVars
<1>10. CASE ReadTable
  BY <1>03, <1>10 DEF ReadTable, Reading, writeVars
<1>11. CASE ReadValue
  BY <1>03, <1>11 DEF ReadValue, Reading, writeVars
<1>12. CASE ReadFails
  <2>1. outcome = "done"
    BY <1>06, <1>12 DEF ReadFails, More
  <2> QED
    BY <1>03, <1>12, <2>1 DEF ReadFails, writeVars
<1>13. CASE Seek
  BY <1>03, <1>13 DEF Seek, writeVars
<1>14. CASE Unpacked
  <2>1. outcome = "done"
    BY <1>06, <1>14 DEF Unpacked
  <2> QED
    BY <1>03, <1>14, <2>1 DEF Unpacked, writeVars
<1> QED
  BY <1>1, <1>2, <1>3, <1>4, <1>5, <1>6, <1>7, <1>8, <1>9, <1>10, <1>11, <1>12, <1>13, <1>14
     DEF SerializeNext

LEMMA FlattenImplies ==
    ASSUME FlattenInv
    PROVE  ConcatFlattens
<1> SUFFICES ASSUME job = "concat", outcome = "done"
             PROVE  text = Joined([i \in 1..Len(args) |-> Written(Flat[MAX_DEPTH + 1], args[i])])
  BY DEF ConcatFlattens
<1>1. /\ args \in Arguments /\ IsHere("concat", args, here) /\ here.stack = << >>
      /\ here.arg = Len(args) + 1 /\ text = TextOf(args, here)
  BY DEF FlattenInv, WalkInv
<1>2. text = Part(args, here, 0)
  BY <1>1, TextIs
<1>3. (Len(args) + 1) - 1 = Len(args) /\ (MAX_DEPTH + 1) - 0 = MAX_DEPTH + 1
  BY <1>1, ArgumentIs, DepthsAre DEF IsArgs
<1> QED
  BY <1>1, <1>2, <1>3 DEF Part, PieceAt

\* What concat returns is what is in its arguments and in their arrays, in order, down to
\* every depth, and nothing of what is under other keys.
THEOREM Flattening == SerializeSpec => []ConcatFlattens
<1>1. SerializeInit => FlattenInv
  BY FlattenInit
<1>2. FlattenInv /\ [SerializeNext]_serializeVars => FlattenInv'
  BY FlattenKeeps
<1>3. FlattenInv => ConcatFlattens
  BY FlattenImplies
<1> QED
  BY <1>1, <1>2, <1>3, PTL DEF SerializeSpec

-----------------------------------------------------------------------------
(* The trace of pack: what each step has written, and where. *)

\* What pack writes at h, and where it goes on.
StepBytes(xs, h) ==
    IF ~AtValue("pack", xs, h) THEN wb_nil
    ELSE IF IsTable(Value("pack", xs, h)) THEN ArrayHeader(Heap[Value("pack", xs, h).v[1]].length)
    ELSE Encoded(Value("pack", xs, h))

StepHere(xs, h) ==
    IF ~AtValue("pack", xs, h) THEN Back("pack", h)
    ELSE IF IsTable(Value("pack", xs, h)) THEN Into("pack", h, Value("pack", xs, h).v[1])
    ELSE Behind("pack", h)

Opens(xs, h) == AtValue("pack", xs, h) /\ IsTable(Value("pack", xs, h))

\* The walk goes on from h.
GoesOn(xs, h) ==
    /\ h.stack # << >> \/ AtValue("pack", xs, h)
    /\ AtValue("pack", xs, h) =>
           ~Unsupported("pack", Value("pack", xs, h)) /\ ~TooDeep(Depth(h))

Marks == [at : Nat, here : [arg : Nat, stack : Seq(Frames)], tables : Nat]

\* From the mark m the step goes to the mark n.
MarkStep(xs, o, b, m, n) ==
    /\ GoesOn(xs, m.here)
    /\ Holds(b, m.at, StepBytes(xs, m.here))
    /\ n.at = m.at + Len(StepBytes(xs, m.here))
    /\ n.here = StepHere(xs, m.here)
    /\ IF Opens(xs, m.here)
       THEN n.tables = m.tables + 1 /\ o[n.tables] = Value("pack", xs, m.here).v[1]
       ELSE n.tables = m.tables

TraceOK(xs, o, b, top, tr) ==
    /\ tr \in Seq(Marks) /\ tr # << >>
    /\ tr[1] = [at |-> 0, here |-> Start, tables |-> 0]
    /\ \A k \in 1..Len(tr) :
           IsHere("pack", xs, tr[k].here) /\ tr[k].tables <= Len(o) /\ tr[k].at <= top
    /\ \A k \in 1..(Len(tr) - 1) : MarkStep(xs, o, b, tr[k], tr[k + 1])

LEMMA HoldsGrow ==
    ASSUME NEW b \in Seq(Nat), NEW e \in Seq(Nat), NEW p \in Nat, NEW w \in Seq(Nat),
           Holds(b, p, w), p + Len(w) <= Len(b)
    PROVE  Holds(b \o e, p, w)
<1> DEFINE c == b \o e
<1>1. Len(c) = Len(b) + Len(e) /\ \A i \in 1..Len(b) : c[i] = b[i]
  OBVIOUS
<1> HIDE DEF c
<1>2. ASSUME NEW i \in 1..Len(w)
      PROVE  c[p + i] = w[i]
  <2>1. p + i \in 1..Len(b) /\ p + i <= Len(b)
    OBVIOUS
  <2> QED
    BY <1>1, <2>1 DEF Holds
<1> QED
  BY <1>2 DEF Holds, c

LEMMA HoldsNew ==
    ASSUME NEW b \in Seq(Nat), NEW e \in Seq(Nat)
    PROVE  Holds(b \o e, Len(b), e)
<1>1. \A i \in 1..Len(e) : (b \o e)[Len(b) + i] = e[i]
  OBVIOUS
<1> QED
  BY <1>1 DEF Holds

LEMMA HoldsCut ==
    ASSUME NEW b \in Seq(Nat), b # << >>, NEW p \in Nat, NEW w \in Seq(Nat), Holds(b, p, w)
    PROVE  Holds(Front(b), p, w)
<1> DEFINE c == Front(b)
<1>1. c \in Seq(Nat) /\ Len(c) = Len(b) - 1 /\ \A i \in 1..(Len(b) - 1) : c[i] = b[i]
  BY TopIs
<1> HIDE DEF c
<1>2. ASSUME NEW i \in 1..Len(w), p + i <= Len(c)
      PROVE  c[p + i] = w[i]
  <2>1. p + i \in 1..(Len(b) - 1) /\ p + i <= Len(b)
    BY <1>1, <1>2
  <2> QED
    BY <1>1, <2>1 DEF Holds
<1> QED
  BY <1>2 DEF Holds, c

LEMMA StepBytesAre ==
    ASSUME NEW xs \in Arguments, NEW h, IsHere("pack", xs, h), GoesOn(xs, h)
    PROVE  StepBytes(xs, h) \in Seq(Nat) /\ Len(StepBytes(xs, h)) >= 1
<1> DEFINE b == << >>
           p == 0
           x == Value("pack", xs, h)
<1>0. "pack" \in Jobs /\ IsArgs(xs) /\ b \in Seq(Nat) /\ p \in Nat
  BY ArgumentIs DEF Jobs
<1>1. ASSUME NEW w
      PROVE  Holds(b, p, w)
  <2>1. Len(b) = 0
    OBVIOUS
  <2> DEFINE n == Len(b)
  <2>2. n = 0
    BY <2>1
  <2> HIDE DEF n
  <2>3. \A i \in 1..Len(w) : ~(p + i <= n)
    BY <2>2
  <2> QED
    BY <2>3 DEF Holds, n
<1> HIDE DEF b, p
<1>2. CASE ~AtValue("pack", xs, h)
  <2>1. StepBytes(xs, h) = wb_nil
    BY <1>2 DEF StepBytes
  <2>2. Reads(b, p, wb_nil, Nil)
    BY <1>0, <1>1, NilRead
  <2> QED
    BY <2>1, <2>2 DEF Reads
<1>3. CASE AtValue("pack", xs, h)
  <2>1. IsValue(x) /\ x.k # "function"
    BY <1>0, <1>3, ValueIs DEF GoesOn, Unsupported
  <2>2. CASE IsTable(x)
    <3> DEFINE t == x.v[1]
               n == Heap[t].length
    <3>1. n \in Nat /\ Fits(n, 8)
      BY <2>1, <2>2, TableIs, RowIs
    <3>2. StepBytes(xs, h) = ArrayHeader(n)
      BY <1>3, <2>2 DEF StepBytes
    <3> HIDE DEF n
    <3>3. Reads(b, p, ArrayHeader(n), Integer(n))
      BY <1>0, <1>1, <3>1, HeaderRead
    <3> QED
      BY <3>2, <3>3 DEF Reads
  <2>3. CASE ~IsTable(x)
    <3>1. StepBytes(xs, h) = Encoded(x)
      BY <1>3, <2>3 DEF StepBytes
    <3> HIDE DEF x
    <3>2. Reads(b, p, Encoded(x), x)
      BY <1>0, <1>1, <2>1, <2>3, ValueRead
    <3> QED
      BY <3>1, <3>2 DEF Reads
  <2> QED
    BY <2>2, <2>3
<1> QED
  BY <1>2, <1>3

LEMMA StepHereIs ==
    ASSUME NEW xs \in Arguments, NEW h, IsHere("pack", xs, h), GoesOn(xs, h)
    PROVE  IsHere("pack", xs, StepHere(xs, h))
<1> DEFINE x == Value("pack", xs, h)
<1>0. "pack" \in Jobs /\ IsArgs(xs)
  BY ArgumentIs DEF Jobs
<1>1. CASE ~AtValue("pack", xs, h)
  <2>1. h.stack # << >> /\ StepHere(xs, h) = Back("pack", h)
    BY <1>1 DEF GoesOn, StepHere
  <2> QED
    BY <1>0, <2>1, OutIs, BehindIs
<1>2. CASE AtValue("pack", xs, h) /\ ~IsTable(x)
  BY <1>0, <1>2, BehindIs DEF StepHere
<1>3. CASE AtValue("pack", xs, h) /\ IsTable(x)
  <2>1. x.v[1] \in DOMAIN Heap /\ x = Ref(x.v[1])
    BY <1>0, <1>3, ValueIs, TableIs
  <2>2. StepHere(xs, h) = Into("pack", h, x.v[1]) /\ ~TooDeep(Depth(h))
    BY <1>3 DEF StepHere, GoesOn
  <2> QED
    BY <1>0, <1>3, <2>1, <2>2, IntoIs
<1> QED
  BY <1>1, <1>2, <1>3

\* A step from the last mark h of tr writes b2 and o2, and adds the mark m.
Adds(xs, o, b, tr, h, o2, b2, m) ==
    /\ TraceOK(xs, o, b, Len(b), tr)
    /\ tr[Len(tr)].at = Len(b) /\ tr[Len(tr)].tables = Len(o) /\ tr[Len(tr)].here = h
    /\ GoesOn(xs, h)
    /\ b2 = b \o StepBytes(xs, h)
    /\ o2 = IF Opens(xs, h) THEN Append(o, Value("pack", xs, h).v[1]) ELSE o
    /\ m = [at |-> Len(b2), here |-> StepHere(xs, h), tables |-> Len(o2)]

LEMMA TraceGrows ==
    ASSUME NEW xs \in Arguments, NEW o \in Seq(DOMAIN Heap), NEW b \in Seq(Nat), NEW tr, NEW h,
           NEW b2, NEW o2, NEW m, Adds(xs, o, b, tr, h, o2, b2, m)
    PROVE  /\ b2 \in Seq(Nat) /\ o2 \in Seq(DOMAIN Heap)
           /\ TraceOK(xs, o2, b2, Len(b2), Append(tr, m))
<1>0. /\ TraceOK(xs, o, b, Len(b), tr)
      /\ tr[Len(tr)].at = Len(b) /\ tr[Len(tr)].tables = Len(o) /\ h = tr[Len(tr)].here
      /\ GoesOn(xs, h)
      /\ b2 = b \o StepBytes(xs, h)
      /\ o2 = IF Opens(xs, h) THEN Append(o, Value("pack", xs, h).v[1]) ELSE o
      /\ m = [at |-> Len(b2), here |-> StepHere(xs, h), tables |-> Len(o2)]
  BY DEF Adds
<1> USE <1>0
<1> DEFINE N == Len(tr)
           r == Append(tr, m)
           e == StepBytes(xs, h)
<1>1. /\ tr \in Seq(Marks) /\ tr # << >> /\ N \in Nat /\ N >= 1
      /\ tr[1] = [at |-> 0, here |-> Start, tables |-> 0]
      /\ \A k \in 1..N : IsHere("pack", xs, tr[k].here) /\ tr[k].tables <= Len(o)
                         /\ tr[k].at <= Len(b)
      /\ \A k \in 1..(N - 1) : MarkStep(xs, o, b, tr[k], tr[k + 1])
  <2>1. tr \in Seq(Marks) /\ tr # << >>
    BY DEF TraceOK
  <2>2. N \in Nat /\ N >= 1
    BY <2>1
  <2> QED
    BY <2>1, <2>2 DEF TraceOK
<1>2. IsHere("pack", xs, h)
  <2>1. N \in 1..N
    BY <1>1
  <2> QED
    BY <1>1, <2>1
<1>3. e \in Seq(Nat) /\ Len(e) >= 1
  BY <1>2, StepBytesAre
<1> HIDE DEF e
<1>4. b2 \in Seq(Nat) /\ Len(b2) = Len(b) + Len(e) /\ Len(b) \in Nat /\ Len(e) \in Nat
  BY <1>3 DEF e
<1>5. /\ o2 \in Seq(DOMAIN Heap) /\ Len(o2) >= Len(o) /\ Len(o) \in Nat /\ Len(o2) \in Nat
      /\ \A i \in 1..Len(o) : o2[i] = o[i]
      /\ IF Opens(xs, h) THEN Len(o2) = Len(o) + 1 /\ o2[Len(o2)] = Value("pack", xs, h).v[1]
                         ELSE Len(o2) = Len(o)
  <2>1. CASE Opens(xs, h)
    <3> DEFINE x == Value("pack", xs, h)
               t == x.v[1]
    <3>1. t \in DOMAIN Heap
      <4>1. "pack" \in Jobs /\ IsArgs(xs)
        BY ArgumentIs DEF Jobs
      <4>2. AtValue("pack", xs, h) /\ IsTable(x)
        BY <2>1 DEF Opens
      <4> QED
        BY <1>2, <4>1, <4>2, ValueIs, TableIs
    <3> DEFINE c == Append(o, t)
               S == DOMAIN Heap
    <3>2. o2 = c
      BY <2>1
    <3>4. o \in Seq(S) /\ t \in S
      BY <3>1
    <3> HIDE DEF t, S
    <3>3. /\ c \in Seq(S) /\ Len(c) = Len(o) + 1 /\ c[Len(o) + 1] = t
          /\ \A i \in 1..Len(o) : c[i] = o[i]
      BY <3>4, AppendIs
    <3>5. Len(o) \in Nat
      BY <3>4
    <3> HIDE DEF c
    <3> QED
      BY <2>1, <3>2, <3>3, <3>5 DEF t, S
  <2>2. CASE ~Opens(xs, h)
    BY <2>2
  <2> QED
    BY <2>1, <2>2
<1>6. IsHere("pack", xs, StepHere(xs, h))
  BY <1>2, StepHereIs
<1>7. m \in Marks /\ m.at = Len(b2) /\ m.here = StepHere(xs, h) /\ m.tables = Len(o2)
  <2>1. StepHere(xs, h) \in [arg : Nat, stack : Seq(Frames)]
    BY <1>6 DEF IsHere
  <2> QED
    BY <1>4, <1>5, <2>1 DEF Marks
<1>8. /\ r \in Seq(Marks) /\ Len(r) = N + 1 /\ r[N + 1] = m /\ r # << >>
      /\ \A k \in 1..N : r[k] = tr[k]
  BY <1>1, <1>7, AppendIs
<1> HIDE DEF r, N
<1>9. r[1] = [at |-> 0, here |-> Start, tables |-> 0]
  <2>1. 1 \in 1..N
    BY <1>1
  <2> QED
    BY <1>1, <1>8, <2>1
<1>10. \A k \in 1..(N + 1) :
           IsHere("pack", xs, r[k].here) /\ r[k].tables <= Len(o2) /\ r[k].at <= Len(b2)
  <2> TAKE k \in 1..(N + 1)
  <2>1. CASE k = N + 1
    BY <1>4, <1>5, <1>6, <1>7, <1>8, <2>1
  <2>2. CASE k # N + 1
    <3>1. k \in 1..N
      BY <1>1, <2>2
    <3>2. r[k] = tr[k] /\ tr[k] \in Marks
      BY <1>1, <1>8, <3>1 DEF N
    <3>3. tr[k].tables \in Nat /\ tr[k].at \in Nat
      BY <3>2 DEF Marks
    <3>4. IsHere("pack", xs, tr[k].here) /\ tr[k].tables <= Len(o) /\ tr[k].at <= Len(b)
      BY <1>1, <3>1
    <3>5. /\ Len(o) \in Nat /\ Len(o2) \in Nat /\ Len(o) <= Len(o2)
          /\ Len(b) \in Nat /\ Len(b2) \in Nat /\ Len(b) <= Len(b2)
      BY <1>4, <1>5
    <3>6. tr[k].tables <= Len(o2) /\ tr[k].at <= Len(b2)
      BY <3>3, <3>4, <3>5
    <3> QED
      BY <3>2, <3>4, <3>6
  <2> QED
    BY <2>1, <2>2
<1>11. ASSUME NEW k \in 1..N
       PROVE  MarkStep(xs, o2, b2, r[k], r[k + 1])
  <2>0. r[k] = tr[k] /\ tr[k] \in Marks
    BY <1>1, <1>8, <1>11 DEF N
  <2>1. CASE k = N
    <3>1. r[k] = tr[N] /\ r[k + 1] = m /\ tr[N].here = h /\ tr[N].at = Len(b) /\ tr[N].tables = Len(o)
      BY <1>1, <1>8, <2>1 DEF N
    <3>2. Holds(b2, Len(b), e)
      BY <1>3, HoldsNew DEF e
    <3> QED
      BY <1>4, <1>5, <1>7, <3>1, <3>2 DEF MarkStep, e
  <2>2. CASE k # N
    <3>1. k \in 1..(N - 1) /\ k + 1 \in 1..N
      BY <1>1, <2>2
    <3> HIDE <1>0
    <3> DEFINE p == tr[k]
               q == tr[k + 1]
               w == StepBytes(xs, p.here)
    <3>2. r[k] = p /\ r[k + 1] = q /\ p \in Marks /\ q \in Marks
      BY <1>1, <1>8, <3>1 DEF N
    <3>3. MarkStep(xs, o, b, p, q) /\ q.at <= Len(b) /\ q.tables <= Len(o)
          /\ IsHere("pack", xs, p.here)
      BY <1>1, <3>1
    <3> HIDE DEF p, q, w
    <3>4. p.at \in Nat /\ q.at \in Nat /\ p.tables \in Nat /\ q.tables \in Nat
      BY <3>2 DEF Marks
    <3>5. /\ GoesOn(xs, p.here) /\ Holds(b, p.at, w) /\ q.at = p.at + Len(w)
          /\ q.here = StepHere(xs, p.here)
          /\ IF Opens(xs, p.here)
             THEN q.tables = p.tables + 1 /\ o[q.tables] = Value("pack", xs, p.here).v[1]
             ELSE q.tables = p.tables
      BY <3>3 DEF MarkStep, w
    <3>6. w \in Seq(Nat)
      BY <3>3, <3>5, StepBytesAre DEF w
    <3>7. Holds(b2, p.at, w)
      BY <1>0, <1>3, <3>3, <3>4, <3>5, <3>6, HoldsGrow DEF e
    <3>8. Opens(xs, p.here) => o2[q.tables] = Value("pack", xs, p.here).v[1]
      <4>1. Opens(xs, p.here) => q.tables \in 1..Len(o)
        BY <1>5, <3>3, <3>4, <3>5
      <4> QED
        BY <1>5, <3>5, <4>1
    <3> QED
      BY <3>2, <3>5, <3>7, <3>8 DEF MarkStep, w
  <2> QED
    BY <2>1, <2>2
<1>12. Len(r) - 1 = N
  BY <1>1, <1>8
<1>13. TraceOK(xs, o2, b2, Len(b2), r)
  BY <1>8, <1>9, <1>10, <1>11, <1>12 DEF TraceOK
<1> QED
  BY <1>4, <1>5, <1>13 DEF r

\* Of a stream that is cut, the rest is as it was.
LEMMA TraceCut ==
    ASSUME NEW xs \in Arguments, NEW o, NEW b \in Seq(Nat), b # << >>, NEW top, NEW tr,
           TraceOK(xs, o, b, top, tr)
    PROVE  TraceOK(xs, o, Front(b), top, tr)
<1>1. ASSUME NEW k \in 1..(Len(tr) - 1)
      PROVE  MarkStep(xs, o, Front(b), tr[k], tr[k + 1])
  <2>1. MarkStep(xs, o, b, tr[k], tr[k + 1])
    BY DEF TraceOK
  <2>2. k \in 1..Len(tr) /\ tr \in Seq(Marks)
    BY DEF TraceOK
  <2>3. tr[k] \in Marks /\ IsHere("pack", xs, tr[k].here)
    BY <2>2 DEF TraceOK
  <2>4. tr[k].at \in Nat
    BY <2>3 DEF Marks
  <2>5. StepBytes(xs, tr[k].here) \in Seq(Nat)
    BY <2>1, <2>3, StepBytesAre DEF MarkStep
  <2> QED
    BY <2>1, <2>4, <2>5, HoldsCut DEF MarkStep
<1> QED
  BY <1>1 DEF TraceOK

-----------------------------------------------------------------------------
(* What has been read is what was written before a place of the walk.      *)

\* The value that was written for y, if o are the tables that were written.
Src(o, y) == IF IsTable(y) THEN Ref(o[y.v[1]]) ELSE y

Image(o, map) == {<<Src(o, q[1]), Src(o, q[2])>> : q \in map}
Distinct(o, map) == \A q, r \in map : Src(o, q[1]) = Src(o, r[1]) => q = r

\* What the reader gives, and the tables it is inside of.
Readings == Values \cup {Ref(n) : n \in Nat} \cup {Integer(n) : n \in Nat}
Maps == SUBSET (Readings \X Readings)
ReadFrames == [tab : Nat, n : Nat, i : Nat, key : Readings]

\* The pairs of the table t before its slot i.
Done(t, i) ==
    {Slots("pack", t)[m] : m \in {m \in 1..(i - 1) : Slots("pack", t)[m][2] # Nil}}

\* In the frame g the reader is where the walk is in the frame f.
FrameMatch(o, md, g, f) ==
    /\ g.tab \in 1..Len(md)
    /\ o[g.tab] = f.t
    /\ g.n = Heap[f.t].length
    /\ g.i = IF f.i <= Heap[f.t].length THEN f.i ELSE Heap[f.t].length + 1
    /\ IF f.half THEN Src(o, g.key) = Slots("pack", f.t)[f.i][1] ELSE g.key = Nil
    /\ Image(o, md[g.tab]) = Done(f.t, f.i)
    /\ Distinct(o, md[g.tab])

CopyOf(o, map, t) ==
    Image(o, map) = {p \in Pairs(t) : p[2] # Nil} /\ Distinct(o, map)

Match(o, xs, h, tables, rs, md, gt) ==
    /\ rs \in Seq(ReadFrames) /\ md \in Seq(Maps) /\ gt \in Seq(Readings)
    /\ Len(md) = tables /\ Len(gt) = h.arg - 1 /\ Len(rs) = Len(h.stack)
    /\ \A l \in 1..Len(rs) : FrameMatch(o, md, rs[l], h.stack[l])
    /\ \A l, m \in 1..Len(rs) : l < m => rs[l].tab < rs[m].tab
    /\ \A i \in 1..Len(gt) : Src(o, gt[i]) = xs[i]
    /\ \A n \in 1..Len(md) : (\A l \in 1..Len(rs) : rs[l].tab # n) => CopyOf(o, md[n], o[n])

LEMMA SrcIs ==
    ASSUME NEW o, NEW y
    PROVE  Src(o, y) = Nil <=> y = Nil
<1>1. CASE IsTable(y)
  BY <1>1 DEF Src, Ref, Nil, IsTable
<1>2. CASE ~IsTable(y)
  BY <1>2 DEF Src
<1> QED
  BY <1>1, <1>2

\* A new key is added, a nil is not.
LEMMA RawsetIs ==
    ASSUME NEW o, NEW map \in Maps, NEW key \in Readings, NEW y \in Readings, Distinct(o, map),
           \A d \in Image(o, map) : d[1] # Src(o, key)
    PROVE  /\ rawset(map, key, y) \in Maps /\ Distinct(o, rawset(map, key, y))
           /\ Image(o, rawset(map, key, y)) =
                  Image(o, map) \cup
                      (IF Src(o, y) # Nil THEN {<<Src(o, key), Src(o, y)>>} ELSE {})
<1> DEFINE p == <<key, y>>
           e == IF y = Nil THEN {} ELSE {p}
<1>1. \A q \in map : Src(o, q[1]) # Src(o, key)
  <2> TAKE q \in map
  <2>1. <<Src(o, q[1]), Src(o, q[2])>> \in Image(o, map)
    BY DEF Image
  <2> QED
    BY <2>1
<1>2. \A q \in map : q[1] # key
  BY <1>1
<1>3. rawset(map, key, y) = map \cup e
  BY <1>2 DEF rawset
<1>4. p[1] = key /\ p[2] = y /\ p \in Readings \X Readings
  OBVIOUS
<1>5. y = Nil <=> Src(o, y) = Nil
  BY SrcIs
<1> HIDE DEF p
<1>6. CASE y = Nil
  BY <1>3, <1>5, <1>6
<1>7. CASE y # Nil
  <2>1. rawset(map, key, y) = map \cup {p}
    BY <1>3, <1>7
  <2>2. Image(o, map \cup {p}) = Image(o, map) \cup {<<Src(o, key), Src(o, y)>>}
    BY <1>4 DEF Image
  <2>3. Distinct(o, map \cup {p})
    BY <1>1, <1>4 DEF Distinct
  <2>4. map \cup {p} \in Maps
    BY <1>4 DEF Maps
  <2> QED
    BY <1>5, <1>7, <2>1, <2>2, <2>3, <2>4
<1> QED
  BY <1>6, <1>7

LEMMA DoneIs ==
    ASSUME NEW t \in DOMAIN Heap
    PROVE  /\ Done(t, 1) = {}
           /\ Done(t, Len(Slots("pack", t)) + 1) = {p \in Pairs(t) : p[2] # Nil}
           /\ \A i \in 1..Len(Slots("pack", t)) :
                  /\ ~Skipped("pack", t, i) =>
                         \A d \in Done(t, i) : d[1] # Slots("pack", t)[i][1]
                  /\ Done(t, NextSlot("pack", t, i)) =
                         Done(t, i) \cup (IF Slots("pack", t)[i][2] # Nil
                                          THEN {Slots("pack", t)[i]} ELSE {})
<1> DEFINE S == Slots("pack", t)
           N == Len(S)
           n == Heap[t].length
           ps == Heap[t].pairs
<1>0. "pack" \in Jobs
  BY DEF Jobs
<1>1. /\ N \in Nat /\ n \in Nat /\ n <= N /\ N = n + Len(ps) /\ ps \in Seq(Pairs(t))
      /\ \A i \in 1..n : S[i] = <<Integer(i), rawgeti(t, i)>>
      /\ \A i \in 1..N : i > n => S[i] = ps[i - n] /\ S[i] \in Pairs(t)
  <2>1. ps \in Seq(Pairs(t)) /\ n \in Nat
    BY RowIs
  <2>2. \A i \in 1..N : i > n => S[i] = ps[i - n] /\ S[i] \in Pairs(t)
    BY <1>0, SlotsAre, SlotIs
  <2> QED
    BY <1>0, <2>1, <2>2, SlotsAre
<1> HIDE DEF S, n, ps
<1>2. \A i : Done(t, i) = {S[m] : m \in {m \in 1..(i - 1) : S[m][2] # Nil}}
  BY DEF Done, S
<1>3. Done(t, 1) = {}
  <2>1. 1..(1 - 1) = {}
    OBVIOUS
  <2> QED
    BY <1>2, <2>1
<1>4. Done(t, N + 1) = {p \in Pairs(t) : p[2] # Nil}
  <2>1. (N + 1) - 1 = N
    BY <1>1
  <2>2. ASSUME NEW m \in 1..N, S[m][2] # Nil
        PROVE  S[m] \in Pairs(t)
    <3>1. CASE m > n
      BY <1>1, <3>1
    <3>2. CASE ~(m > n)
      <4>1. S[m] = <<Integer(m), rawgeti(t, m)>>
        BY <1>1, <3>2
      <4> QED
        BY <2>2, <4>1, RawGetIs
    <3> QED
      BY <3>1, <3>2
  <2>3. ASSUME NEW p \in Pairs(t)
        PROVE  \E m \in 1..N : p = S[m]
    <3>1. PICK i \in 1..Len(ps) : p = ps[i]
      BY RowIs DEF ps
    <3>2. Len(ps) \in Nat
      BY <1>1
    <3>3. n + i \in 1..N /\ n + i > n /\ (n + i) - n = i
      BY <1>1, <3>2
    <3> QED
      BY <1>1, <3>1, <3>3
  <2>4. Done(t, N + 1) = {S[m] : m \in {m \in 1..N : S[m][2] # Nil}}
    BY <1>2, <2>1
  <2> QED
    BY <2>2, <2>3, <2>4
<1>5. ASSUME NEW i \in 1..N, ~Skipped("pack", t, i), NEW d \in Done(t, i)
      PROVE  d[1] # S[i][1]
  <2>1. PICK m \in 1..(i - 1) : d = S[m]
    BY <1>2
  <2>2. m \in 1..N /\ m < i
    BY <1>1
  <2> SUFFICES ASSUME S[m][1] = S[i][1] PROVE FALSE
    BY <2>1
  <2>3. CASE i <= n
    <3>1. S[m] = <<Integer(m), rawgeti(t, m)>> /\ S[i] = <<Integer(i), rawgeti(t, i)>>
      BY <1>1, <2>2, <2>3
    <3>2. Integer(m) = Integer(i)
      BY <3>1
    <3> QED
      BY <2>2, <3>2, IntegersDiffer
  <2>4. CASE i > n /\ m > n
    <3>1. Len(ps) \in Nat
      BY <1>1
    <3>2. i - n \in 1..Len(ps) /\ m - n \in 1..Len(ps) /\ i - n # m - n
      BY <1>1, <2>2, <2>4, <3>1
    <3>3. S[i] = ps[i - n] /\ S[m] = ps[m - n]
      BY <1>1, <2>2, <2>4
    <3>4. \A a, b \in 1..Len(ps) : ps[a][1] = ps[b][1] => a = b
      BY RowIs DEF ps
    <3> QED
      BY <3>2, <3>3, <3>4
  <2>5. CASE i > n /\ ~(m > n)
    <3>1. m \in 1..n /\ S[m] = <<Integer(m), rawgeti(t, m)>>
      BY <1>1, <2>2, <2>5
    <3>2. S[i][1] = Integer(m)
      BY <3>1
    <3>3. InArray(t, S[i][1])
      BY <3>1, <3>2 DEF InArray, Integer, n
    <3>4. i \in (n + 1)..N
      BY <1>1, <2>5
    <3> QED
      BY <1>5, <3>3, <3>4 DEF Skipped, S, n
  <2> QED
    BY <1>1, <2>3, <2>4, <2>5
<1>6. ASSUME NEW i \in 1..N
      PROVE  Done(t, NextSlot("pack", t, i)) = Done(t, i) \cup (IF S[i][2] # Nil THEN {S[i]} ELSE {})
  <2> DEFINE k == NextSlot("pack", t, i)
  <2>1. k \in (i + 1)..(N + 1)
    <3>1. i \in 0..N
      OBVIOUS
    <3> QED
      BY <1>0, <3>1, NextSlotIs DEF S
  <2>2. \A m \in (i + 1)..(k - 1) : \E c \in 1..i : S[m] = S[c]
    BY <1>0, SkippedIs DEF S
  <2> HIDE DEF k
  <2>3. \A m \in 1..(k - 1) : m \in 1..(i - 1) \/ m = i \/ m \in (i + 1)..(k - 1)
    BY <2>1
  <2>4. \A c \in 1..i : c = i \/ c \in 1..(i - 1)
    OBVIOUS
  <2>5. i \in 1..(k - 1) /\ \A m \in 1..(i - 1) : m \in 1..(k - 1)
    BY <2>1
  <2> DEFINE A == Done(t, i)
             E == IF S[i][2] # Nil THEN {S[i]} ELSE {}
  <2>6. \A m \in 1..(i - 1) : S[m][2] # Nil => S[m] \in A
    BY <1>2
  <2>7. S[i][2] # Nil => S[i] \in E
    OBVIOUS
  <2>8. \A m \in 1..(k - 1) : S[m][2] # Nil => S[m] \in A \cup E
    <3> HIDE DEF A, E
    <3> TAKE m \in 1..(k - 1)
    <3>1. CASE m \in 1..(i - 1)
      BY <2>6, <3>1
    <3>2. CASE m = i
      BY <2>7, <3>2
    <3>3. CASE m \in (i + 1)..(k - 1)
      <4>1. PICK c \in 1..i : S[m] = S[c]
        BY <2>2, <3>3
      <4> QED
        BY <2>4, <2>6, <2>7, <4>1
    <3> QED
      BY <2>3, <3>1, <3>2, <3>3
  <2>9. Done(t, k) \subseteq A \cup E
    <3> HIDE DEF A, E
    <3> QED
      BY <1>2, <2>8
  <2>10. A \cup E \subseteq Done(t, k)
    BY <1>2, <2>5
  <2> QED
    BY <2>9, <2>10 DEF k
<1> QED
  BY <1>3, <1>4, <1>5, <1>6 DEF S

LEMMA ReadingsAre ==
    /\ Values \subseteq Readings /\ Nil \in Readings
    /\ \A n \in Nat : Ref(n) \in Readings /\ Integer(n) \in Readings
BY DEF Readings, Values

\* The value y goes into the table of the frame g.
StoredIn(md, g, y, md2, g2) ==
    IF g.i <= g.n
    THEN /\ md2 = [md EXCEPT ![g.tab] = rawset(md[g.tab], Integer(g.i), y)]
         /\ g2 = [g EXCEPT !.i = g.i + 1]
    ELSE IF g.key # Nil
    THEN /\ md2 = [md EXCEPT ![g.tab] = rawset(md[g.tab], g.key, y)]
         /\ g2 = [g EXCEPT !.key = Nil]
    ELSE md2 = md /\ g2 = [g EXCEPT !.key = y]

Stored(rs, md, gt, y, rs2, md2, gt2) ==
    IF rs = << >> THEN rs2 = rs /\ md2 = md /\ gt2 = Append(gt, y)
    ELSE /\ gt2 = gt
         /\ \E g : rs2 = Append(Front(rs), g) /\ StoredIn(md, Last(rs), y, md2, g)

\* Storing under a key that the table has not yet.
LEMMA SlotStored ==
    ASSUME NEW o, NEW md \in Seq(Maps), NEW tab \in 1..Len(md), NEW t \in DOMAIN Heap,
           NEW i \in 1..Len(Slots("pack", t)), ~Skipped("pack", t, i),
           NEW key \in Readings, Src(o, key) = Slots("pack", t)[i][1],
           NEW y \in Readings, Src(o, y) = Slots("pack", t)[i][2],
           Image(o, md[tab]) = Done(t, i), Distinct(o, md[tab]),
           NEW md2, md2 = [md EXCEPT ![tab] = rawset(md[tab], key, y)]
    PROVE  /\ md2 \in Seq(Maps) /\ Len(md2) = Len(md)
           /\ \A k \in 1..Len(md) : k # tab => md2[k] = md[k]
           /\ Image(o, md2[tab]) = Done(t, NextSlot("pack", t, i))
           /\ Distinct(o, md2[tab])
<1> DEFINE r == rawset(md[tab], key, y)
           slot == Slots("pack", t)[i]
           c == [md EXCEPT ![tab] = r]
<1>1. md[tab] \in Maps
  OBVIOUS
<1>2. \A d \in Image(o, md[tab]) : d[1] # Src(o, key)
  BY DoneIs
<1>3. /\ r \in Maps /\ Distinct(o, r)
      /\ Image(o, r) = Image(o, md[tab]) \cup
             (IF Src(o, y) # Nil THEN {<<Src(o, key), Src(o, y)>>} ELSE {})
  BY <1>1, <1>2, RawsetIs
<1>4. slot = <<slot[1], slot[2]>>
  BY SlotIs DEF Jobs
<1>5. Image(o, r) = Done(t, NextSlot("pack", t, i))
  <2>1. <<Src(o, key), Src(o, y)>> = slot
    BY <1>4
  <2>2. Done(t, NextSlot("pack", t, i)) =
            Done(t, i) \cup (IF slot[2] # Nil THEN {slot} ELSE {})
    BY DoneIs
  <2> HIDE DEF r, slot
  <2> QED
    BY <1>3, <2>1, <2>2 DEF slot
<1> HIDE DEF r
<1>6. /\ c \in Seq(Maps) /\ Len(c) = Len(md) /\ c[tab] = r
      /\ \A k \in 1..Len(md) : k # tab => c[k] = md[k]
  BY <1>3
<1>7. md2 = c
  BY DEF r
<1> HIDE DEF c
<1> QED
  BY <1>3, <1>5, <1>6, <1>7

LEMMA FrameStore ==
    ASSUME NEW o, NEW md \in Seq(Maps), NEW f, IsFrame("pack", f), ~AtEnd("pack", f),
           NEW g \in ReadFrames, FrameMatch(o, md, g, f),
           NEW y \in Readings, Src(o, y) = Current("pack", f),
           NEW md2, NEW g2, StoredIn(md, g, y, md2, g2)
    PROVE  /\ md2 \in Seq(Maps) /\ g2 \in ReadFrames /\ Len(md2) = Len(md) /\ g2.tab = g.tab
           /\ \A k \in 1..Len(md) : k # g.tab => md2[k] = md[k]
           /\ FrameMatch(o, md2, g2, After("pack", f))
<1> DEFINE t == f.t
           n == Heap[t].length
           S == Slots("pack", t)
           N == Len(S)
           f2 == After("pack", f)
           k == NextSlot("pack", t, f.i)
<1>0. "pack" \in Jobs
  BY DEF Jobs
<1>1. /\ t \in DOMAIN Heap /\ f.i \in 1..N /\ f.half \in BOOLEAN /\ f \in Frames
      /\ ~Skipped("pack", t, f.i) /\ (f.half => f.i > n) /\ N \in Nat /\ n \in Nat /\ n <= N
  <2>1. t \in DOMAIN Heap /\ f.i \in 1..N
    BY <1>0, CurrentIs
  <2> QED
    BY <1>0, <2>1, SlotsAre, RowIs DEF IsFrame, Frames
<1>2. /\ g.tab \in 1..Len(md) /\ o[g.tab] = t /\ g.n = n
      /\ g.i = IF f.i <= n THEN f.i ELSE n + 1
      /\ IF f.half THEN Src(o, g.key) = S[f.i][1] ELSE g.key = Nil
      /\ Image(o, md[g.tab]) = Done(t, f.i) /\ Distinct(o, md[g.tab])
  BY DEF FrameMatch
<1>3. g = [tab |-> g.tab, n |-> g.n, i |-> g.i, key |-> g.key] /\ g.key \in Readings
      /\ g.tab \in Nat /\ g.n \in Nat /\ g.i \in Nat
  BY DEF ReadFrames
<1>4. k \in (f.i + 1)..(N + 1)
  <2>1. f.i \in 0..N
    BY <1>1
  <2> QED
    BY <1>0, <1>1, <2>1, NextSlotIs
<1>5. Current("pack", f) = IF AtKey(f) THEN S[f.i][1] ELSE S[f.i][2]
  BY DEF Current
<1>6. ~AtKey(f) => f2 = [t |-> t, i |-> k, half |-> FALSE]
  BY DEF After
<1>7. AtKey(f) => f2 = [t |-> t, i |-> f.i, half |-> TRUE]
  BY <1>1 DEF After, Frames
<1>8. S[f.i][1] # Nil
  BY <1>0, <1>1, SlotIs
<1>9. Src(o, g.key) = Nil <=> g.key = Nil
  BY SrcIs
<1>10. AtKey(f) <=> f.i > n /\ ~f.half
  BY DEF AtKey
<1>11. StoredIn(md, g, y, md2, g2)
  OBVIOUS
<1> HIDE DEF S, n, f2, k
<1>12. CASE f.i <= n
  <2>1. ~AtKey(f) /\ ~f.half /\ g.i = f.i /\ g.i <= g.n
    BY <1>1, <1>2, <1>10, <1>12
  <2> DEFINE key == Integer(f.i)
  <2>2. /\ md2 = [md EXCEPT ![g.tab] = rawset(md[g.tab], key, y)]
        /\ g2 = [g EXCEPT !.i = g.i + 1]
    BY <1>11, <2>1 DEF StoredIn
  <2>3. S[f.i] = <<Integer(f.i), rawgeti(t, f.i)>>
    BY <1>0, <1>1, <1>12, SlotsAre DEF S, n
  <2>4. Src(o, key) = S[f.i][1]
    BY <2>3 DEF Src, Integer, IsTable
  <2>5. key \in Readings
    BY <1>1, ReadingsAre
  <2>6. Src(o, y) = S[f.i][2]
    BY <1>5, <2>1
  <2> HIDE DEF key
  <2>7. /\ md2 \in Seq(Maps) /\ Len(md2) = Len(md)
        /\ \A m \in 1..Len(md) : m # g.tab => md2[m] = md[m]
        /\ Image(o, md2[g.tab]) = Done(t, k) /\ Distinct(o, md2[g.tab])
    <3> DEFINE tab == g.tab
               i == f.i
    <3>1. tab \in 1..Len(md) /\ i \in 1..Len(Slots("pack", t)) /\ Src(o, y) = Slots("pack", t)[i][2]
          /\ Src(o, key) = Slots("pack", t)[i][1] /\ ~Skipped("pack", t, i)
          /\ Image(o, md[tab]) = Done(t, i) /\ Distinct(o, md[tab])
          /\ md2 = [md EXCEPT ![tab] = rawset(md[tab], key, y)]
      BY <1>1, <1>2, <2>2, <2>4, <2>6 DEF S
    <3> HIDE DEF tab, i, t
    <3>2. t \in DOMAIN Heap
      BY <1>1 DEF t
    <3> QED
      <4>1. /\ md2 \in Seq(Maps) /\ Len(md2) = Len(md)
            /\ \A m \in 1..Len(md) : m # tab => md2[m] = md[m]
            /\ Image(o, md2[tab]) = Done(t, NextSlot("pack", t, i)) /\ Distinct(o, md2[tab])
        <5>1. key \in Readings /\ tab \in 1..Len(md) /\ i \in 1..Len(Slots("pack", t))
          BY <2>5, <3>1
        <5> QED
          BY <3>1, <3>2, <5>1, SlotStored
      <4> QED
        BY <4>1 DEF k, tab, i
  <2>8. g2 = [tab |-> g.tab, n |-> g.n, i |-> g.i + 1, key |-> g.key]
    BY <1>3, <2>2
  <2>9. k <= n => k = f.i + 1
    <3>1. k <= n => f.i < n
      BY <1>1, <1>4, <1>12
    <3> QED
      BY <1>0, <1>1, <3>1, NoneSkipped DEF n, k, S
  <2>10. g.i + 1 = IF k <= n THEN k ELSE n + 1
    <3>1. CASE k <= n
      BY <2>1, <2>9, <3>1
    <3>2. CASE ~(k <= n)
      <4>1. f.i < n => k = f.i + 1
        BY <1>0, <1>1, NoneSkipped DEF n, k, S
      <4>2. f.i = n
        BY <1>1, <1>4, <1>12, <3>2, <4>1
      <4> QED
        BY <2>1, <3>2, <4>2
    <3> QED
      BY <3>1, <3>2
  <2>11. f2.t = t /\ f2.i = k /\ ~f2.half
    BY <1>6, <2>1
  <2>12. g2 \in ReadFrames /\ g2.tab = g.tab /\ g2.n = g.n /\ g2.i = g.i + 1 /\ g2.key = g.key
    BY <1>3, <2>8 DEF ReadFrames
  <2>13. FrameMatch(o, md2, g2, f2)
    BY <1>2, <2>1, <2>7, <2>10, <2>11, <2>12 DEF FrameMatch, n
  <2> QED
    BY <2>7, <2>12, <2>13 DEF f2
<1>13. CASE f.i > n /\ g.key # Nil
  <2>1. ~AtKey(f) /\ f.half /\ g.i = n + 1 /\ ~(g.i <= g.n)
    BY <1>1, <1>2, <1>10, <1>13
  <2> DEFINE key == g.key
  <2>2. /\ md2 = [md EXCEPT ![g.tab] = rawset(md[g.tab], key, y)]
        /\ g2 = [g EXCEPT !.key = Nil]
    BY <1>11, <1>13, <2>1 DEF StoredIn
  <2>4. Src(o, key) = S[f.i][1] /\ key \in Readings
    BY <1>2, <1>3, <2>1
  <2>6. Src(o, y) = S[f.i][2]
    BY <1>5, <2>1
  <2> HIDE DEF key
  <2>7. /\ md2 \in Seq(Maps) /\ Len(md2) = Len(md)
        /\ \A m \in 1..Len(md) : m # g.tab => md2[m] = md[m]
        /\ Image(o, md2[g.tab]) = Done(t, k) /\ Distinct(o, md2[g.tab])
    <3> DEFINE tab == g.tab
               i == f.i
    <3>1. tab \in 1..Len(md) /\ i \in 1..Len(Slots("pack", t)) /\ Src(o, y) = Slots("pack", t)[i][2]
          /\ Src(o, key) = Slots("pack", t)[i][1] /\ ~Skipped("pack", t, i)
          /\ Image(o, md[tab]) = Done(t, i) /\ Distinct(o, md[tab])
          /\ md2 = [md EXCEPT ![tab] = rawset(md[tab], key, y)]
      BY <1>1, <1>2, <2>2, <2>4, <2>6 DEF S
    <3> HIDE DEF tab, i, t
    <3>2. t \in DOMAIN Heap
      BY <1>1 DEF t
    <3> QED
      BY <2>4, <3>1, <3>2, SlotStored DEF k, tab, i
  <2>8. g2 = [tab |-> g.tab, n |-> g.n, i |-> g.i, key |-> Nil]
    BY <1>3, <2>2
  <2>9. ~(k <= n)
    BY <1>1, <1>4, <1>13
  <2>11. f2.t = t /\ f2.i = k /\ ~f2.half
    BY <1>6, <2>1
  <2>12. g2 \in ReadFrames /\ g2.tab = g.tab /\ g2.n = g.n /\ g2.i = g.i /\ g2.key = Nil
    BY <1>3, <2>8, ReadingsAre DEF ReadFrames
  <2>13. FrameMatch(o, md2, g2, f2)
    BY <1>2, <2>1, <2>7, <2>9, <2>11, <2>12 DEF FrameMatch, n
  <2> QED
    BY <2>7, <2>12, <2>13 DEF f2
<1>14. CASE f.i > n /\ g.key = Nil
  <2>1. ~f.half
    BY <1>1, <1>2, <1>8, <1>9, <1>14
  <2>2. AtKey(f) /\ g.i = n + 1 /\ ~(g.i <= g.n)
    BY <1>1, <1>2, <1>10, <1>14, <2>1
  <2>3. md2 = md /\ g2 = [g EXCEPT !.key = y]
    BY <1>11, <1>14, <2>2 DEF StoredIn
  <2>4. g2 = [tab |-> g.tab, n |-> g.n, i |-> g.i, key |-> y]
    BY <1>3, <2>3
  <2>5. g2 \in ReadFrames /\ g2.tab = g.tab /\ g2.n = g.n /\ g2.i = g.i /\ g2.key = y
    BY <1>3, <2>4 DEF ReadFrames
  <2>6. f2.t = t /\ f2.i = f.i /\ f2.half /\ Src(o, y) = S[f.i][1]
    BY <1>5, <1>7, <2>2
  <2>7. FrameMatch(o, md2, g2, f2)
    BY <1>2, <2>3, <2>5, <2>6 DEF FrameMatch, n, S
  <2> QED
    BY <2>3, <2>5, <2>7 DEF f2
<1> QED
  BY <1>1, <1>12, <1>13, <1>14


\* The top of two stacks is replaced.
LEMMA Replaced ==
    ASSUME NEW S, NEW s \in Seq(S), s # << >>, NEW x \in S
    PROVE  /\ Append(Front(s), x) \in Seq(S) /\ Len(Append(Front(s), x)) = Len(s)
           /\ Append(Front(s), x)[Len(s)] = x
           /\ \A l \in 1..(Len(s) - 1) : Append(Front(s), x)[l] = s[l]
<1> DEFINE r == Front(s)
           c == Append(r, x)
<1>1. /\ r \in Seq(S) /\ Len(r) = Len(s) - 1 /\ Len(s) \in Nat /\ Len(s) >= 1
      /\ \A l \in 1..(Len(s) - 1) : r[l] = s[l]
  BY TopIs
<1> HIDE DEF r
<1>2. /\ c \in Seq(S) /\ Len(c) = Len(r) + 1 /\ c[Len(r) + 1] = x
      /\ \A l \in 1..Len(r) : c[l] = r[l]
  BY <1>1, AppendIs
<1> HIDE DEF c
<1>3. Len(r) + 1 = Len(s)
  BY <1>1
<1> QED
  BY <1>1, <1>2, <1>3 DEF c, r

\* A table that the reader is inside of stays with its frame.
LEMMA OtherFrame ==
    ASSUME NEW o, NEW md, NEW md2, NEW g, NEW f, FrameMatch(o, md, g, f),
           Len(md2) \in Nat, Len(md) \in Nat, Len(md2) >= Len(md), md2[g.tab] = md[g.tab]
    PROVE  FrameMatch(o, md2, g, f)
<1>1. g.tab \in 1..Len(md2)
  BY DEF FrameMatch
<1> QED
  BY <1>1 DEF FrameMatch

\* A value is read that the walk has passed.
LEMMA MatchStore ==
    ASSUME NEW xs \in Arguments, NEW o, NEW h, IsHere("pack", xs, h), AtValue("pack", xs, h),
           NEW tables, NEW rs, NEW md, NEW gt, Match(o, xs, h, tables, rs, md, gt),
           NEW y \in Readings, Src(o, y) = Value("pack", xs, h),
           NEW rs2, NEW md2, NEW gt2, Stored(rs, md, gt, y, rs2, md2, gt2)
    PROVE  Match(o, xs, Behind("pack", h), tables, rs2, md2, gt2)
<1> DEFINE s == h.stack
           N == Len(rs)
           M == Len(md)
           h2 == Behind("pack", h)
<1>0. "pack" \in Jobs /\ IsArgs(xs)
  BY ArgumentIs DEF Jobs
<1>1. /\ rs \in Seq(ReadFrames) /\ md \in Seq(Maps) /\ gt \in Seq(Readings)
      /\ M = tables /\ Len(gt) = h.arg - 1 /\ N = Len(s)
      /\ \A l \in 1..N : FrameMatch(o, md, rs[l], s[l])
      /\ \A l, m \in 1..N : l < m => rs[l].tab < rs[m].tab
      /\ \A i \in 1..Len(gt) : Src(o, gt[i]) = xs[i]
      /\ \A n \in 1..M : (\A l \in 1..N : rs[l].tab # n) => CopyOf(o, md[n], o[n])
  BY DEF Match
<1>2. /\ s \in Seq(Frames) /\ h.arg \in Nat /\ h.arg >= 1
      /\ \A l \in 1..Len(s) : IsFrame("pack", s[l])
  BY DEF IsHere
<1>3. N \in Nat /\ M \in Nat
  BY <1>1
<1>4. /\ s = << >> => h2 = [arg |-> h.arg + 1, stack |-> << >>]
      /\ s # << >> => h2 = [arg |-> h.arg, stack |-> Append(Front(s), After("pack", Last(s)))]
  BY <1>0, BehindIs
<1> HIDE DEF s, N, M, h2
<1>5. CASE rs = << >>
  <2>1. N = 0
    BY <1>5 DEF N
  <2>2. s = << >>
    <3>1. s # << >> => Len(s) >= 1
      BY <1>2, TopIs
    <3> QED
      BY <1>1, <2>1, <3>1
  <2> DEFINE c == Append(gt, y)
  <2>3. rs2 = rs /\ md2 = md /\ gt2 = c
    BY <1>5 DEF Stored
  <2>4. /\ c \in Seq(Readings) /\ Len(c) = Len(gt) + 1 /\ c[Len(gt) + 1] = y
        /\ \A i \in 1..Len(gt) : c[i] = gt[i]
    BY <1>1, AppendIs
  <2>5. Len(gt) \in Nat
    BY <1>1
  <2> HIDE DEF c
  <2>6. h2.arg = h.arg + 1 /\ h2.stack = << >> /\ Len(h2.stack) = 0
    BY <1>4, <2>2
  <2>7. Value("pack", xs, h) = xs[h.arg]
    BY <2>2 DEF Value, s
  <2>8. ASSUME NEW i \in 1..Len(c)
        PROVE  Src(o, c[i]) = xs[i]
    <3>1. CASE i \in 1..Len(gt)
      BY <1>1, <2>4, <3>1
    <3>2. CASE i \notin 1..Len(gt)
      <4>1. i = Len(gt) + 1 /\ i = h.arg
        <5>1. i \in 1..(Len(gt) + 1) /\ Len(gt) = h.arg - 1 /\ h.arg \in Nat
          BY <1>1, <1>2, <2>4
        <5> QED
          BY <2>5, <3>2, <5>1
      <4> QED
        BY <2>4, <2>7, <4>1
    <3> QED
      BY <3>1, <3>2
  <2>9. Len(c) = h2.arg - 1
    BY <1>1, <1>2, <2>4, <2>6
  <2>10. \A l \in 1..Len(rs) : FrameMatch(o, md, rs[l], h2.stack[l])
    BY <2>1 DEF N
  <2>11. Match(o, xs, h2, tables, rs, md, c)
    BY <1>1, <2>1, <2>4, <2>6, <2>8, <2>9, <2>10 DEF Match, N, M
  <2> QED
    BY <2>3, <2>11 DEF h2
<1>6. CASE rs # << >>
  <2>1. N >= 1 /\ Last(rs) = rs[N] /\ Last(rs) \in ReadFrames
    BY <1>1, <1>6, TopIs DEF N
  <2>2. s # << >>
    <3>1. Len(s) >= 1
      BY <1>1, <2>1
    <3> QED
      BY <3>1
  <2> DEFINE f == Last(s)
             g0 == Last(rs)
             f2 == After("pack", f)
  <2>3. f = s[N]
    BY <1>1, <1>2, <2>2, TopIs
  <2>4. N \in 1..N
    BY <1>3, <2>1
  <2> HIDE DEF f, g0
  <2>5. IsFrame("pack", f) /\ FrameMatch(o, md, g0, f) /\ g0 \in ReadFrames /\ g0 = rs[N]
    BY <1>1, <1>2, <2>1, <2>3, <2>4 DEF g0
  <2>6. ~AtEnd("pack", f) /\ Src(o, y) = Current("pack", f)
    BY <2>2 DEF AtValue, Value, f, s
  <2>7. PICK g : rs2 = Append(Front(rs), g) /\ StoredIn(md, g0, y, md2, g)
    BY <1>6 DEF Stored, g0
  <2>8. gt2 = gt
    BY <1>6 DEF Stored
  <2>9. /\ md2 \in Seq(Maps) /\ g \in ReadFrames /\ Len(md2) = M /\ g.tab = g0.tab
        /\ \A k \in 1..M : k # g0.tab => md2[k] = md[k]
        /\ FrameMatch(o, md2, g, f2)
    <3>1. md \in Seq(Maps)
      BY <1>1
    <3>2. IsFrame("pack", f) /\ ~AtEnd("pack", f) /\ g0 \in ReadFrames
          /\ FrameMatch(o, md, g0, f) /\ Src(o, y) = Current("pack", f)
          /\ StoredIn(md, g0, y, md2, g)
      BY <2>5, <2>6, <2>7
    <3>3. /\ md2 \in Seq(Maps) /\ g \in ReadFrames /\ Len(md2) = Len(md) /\ g.tab = g0.tab
          /\ \A k \in 1..Len(md) : k # g0.tab => md2[k] = md[k]
          /\ FrameMatch(o, md2, g, After("pack", f))
      BY <3>1, <3>2, FrameStore
    <3> QED
      BY <3>3 DEF M
  <2>10. f2 \in Frames
    BY <1>0, <2>5, <2>6, AfterIs DEF IsFrame
  <2> HIDE DEF f2
  <2> DEFINE s2 == h2.stack
  <2>11. h2.arg = h.arg /\ s2 = Append(Front(s), f2)
    BY <1>4, <2>2 DEF f2, f
  <2> HIDE DEF s2
  <2>12. Len(s2) = N /\ s2[N] = f2 /\ \A l \in 1..(N - 1) : s2[l] = s[l]
    BY <1>1, <1>2, <2>2, <2>10, <2>11, Replaced
  <2>13. rs2 \in Seq(ReadFrames) /\ Len(rs2) = N /\ rs2[N] = g /\ \A l \in 1..(N - 1) : rs2[l] = rs[l]
    BY <1>1, <1>6, <2>7, <2>9, Replaced DEF N
  <2>14. \A l \in 1..N : l = N \/ (l \in 1..(N - 1) /\ l < N)
    BY <1>3
  <2>15. \A l \in 1..N : rs2[l].tab = rs[l].tab
    BY <2>5, <2>9, <2>13, <2>14
  <2>16. ASSUME NEW l \in 1..N
         PROVE  FrameMatch(o, md2, rs2[l], s2[l])
    <3>1. CASE l = N
      BY <2>9, <2>12, <2>13, <3>1
    <3>2. CASE l # N
      <4>1. l \in 1..(N - 1) /\ l < N
        BY <2>14, <3>2
      <4> DEFINE e == rs[l]
      <4>2. rs2[l] = e /\ s2[l] = s[l] /\ FrameMatch(o, md, e, s[l]) /\ e.tab < g0.tab
        BY <1>1, <2>4, <2>5, <2>12, <2>13, <4>1
      <4> HIDE DEF e
      <4>3. e.tab \in 1..M /\ e.tab # g0.tab
        <5>1. e.tab \in 1..M /\ g0.tab \in 1..M
          BY <2>5, <4>2 DEF FrameMatch, M
        <5> QED
          BY <1>3, <4>2, <5>1
      <4>4. md2[e.tab] = md[e.tab]
        BY <2>9, <4>3
      <4>5. FrameMatch(o, md2, e, s[l])
        BY <1>3, <2>9, <4>2, <4>4, OtherFrame DEF M
      <4> QED
        BY <4>2, <4>5
    <3> QED
      BY <3>1, <3>2
  <2>17. \A l, m \in 1..N : l < m => rs2[l].tab < rs2[m].tab
    BY <1>1, <2>15
  <2>18. ASSUME NEW n \in 1..M, \A l \in 1..N : rs2[l].tab # n
         PROVE  CopyOf(o, md2[n], o[n])
    <3>1. \A l \in 1..N : rs[l].tab # n
      BY <2>15, <2>18
    <3>2. n # g0.tab
      BY <2>4, <2>5, <3>1
    <3> QED
      BY <1>1, <2>9, <3>1, <3>2
  <2>19. Match(o, xs, h2, tables, rs2, md2, gt)
    BY <1>1, <2>9, <2>11, <2>12, <2>13, <2>16, <2>17, <2>18 DEF Match, s2
  <2> QED
    BY <2>8, <2>19 DEF h2
<1> QED
  BY <1>5, <1>6

\* The end of a table is read.
LEMMA MatchOut ==
    ASSUME NEW xs \in Arguments, NEW o, NEW h, IsHere("pack", xs, h),
           h.stack # << >>, ~AtValue("pack", xs, h),
           NEW tables, NEW rs, NEW md, NEW gt, Match(o, xs, h, tables, rs, md, gt)
    PROVE  /\ rs # << >> /\ Last(rs).tab \in Nat
           /\ Src(o, Ref(Last(rs).tab)) = Ref(Last(h.stack).t)
           /\ FrameMatch(o, md, Last(rs), Last(h.stack))
           /\ Match(o, xs, Out(h), tables, Front(rs), md, gt)
<1> DEFINE s == h.stack
           N == Len(rs)
           M == Len(md)
           f == Last(s)
           g == Last(rs)
           rs2 == Front(rs)
           s2 == Front(s)
<1>0. "pack" \in Jobs
  BY DEF Jobs
<1>1. /\ rs \in Seq(ReadFrames) /\ md \in Seq(Maps) /\ gt \in Seq(Readings)
      /\ M = tables /\ Len(gt) = h.arg - 1 /\ N = Len(s)
      /\ \A l \in 1..N : FrameMatch(o, md, rs[l], s[l])
      /\ \A l, m \in 1..N : l < m => rs[l].tab < rs[m].tab
      /\ \A i \in 1..Len(gt) : Src(o, gt[i]) = xs[i]
      /\ \A n \in 1..M : (\A l \in 1..N : rs[l].tab # n) => CopyOf(o, md[n], o[n])
  BY DEF Match
<1>2. /\ s \in Seq(Frames) /\ \A l \in 1..Len(s) : IsFrame("pack", s[l])
  BY DEF IsHere
<1>3. /\ s2 \in Seq(Frames) /\ Len(s2) = N - 1 /\ f = s[N] /\ N \in Nat /\ N >= 1
      /\ \A l \in 1..(N - 1) : s2[l] = s[l]
  <2> HIDE DEF s
  <2>1. s # << >>
    BY DEF s
  <2> QED
    BY <1>1, <1>2, <2>1, TopIs
<1>4. rs # << >>
  BY <1>3
<1>5. /\ rs2 \in Seq(ReadFrames) /\ Len(rs2) = N - 1 /\ g = rs[N]
      /\ \A l \in 1..(N - 1) : rs2[l] = rs[l]
  BY <1>1, <1>4, TopIs
<1>6. AtEnd("pack", f)
  BY DEF AtValue
<1>7. Out(h).arg = h.arg /\ Out(h).stack = s2
  BY DEF Out
<1> HIDE DEF s, N, M, f, g, rs2, s2
<1>8. N \in 1..N /\ \A l \in 1..(N - 1) : l \in 1..N /\ l < N
  BY <1>3
<1>9. IsFrame("pack", f) /\ FrameMatch(o, md, g, f)
  BY <1>1, <1>2, <1>3, <1>5, <1>8
<1>10. /\ g.tab \in 1..M /\ o[g.tab] = f.t /\ Image(o, md[g.tab]) = Done(f.t, f.i)
       /\ Distinct(o, md[g.tab])
  BY <1>9 DEF FrameMatch, M
<1>11. CopyOf(o, md[g.tab], o[g.tab])
  <2>1. f.t \in DOMAIN Heap /\ f.i \in 1..(Len(Slots("pack", f.t)) + 1)
    BY <1>9 DEF IsFrame, Frames
  <2>2. Len(Slots("pack", f.t)) \in Nat /\ f.i > Len(Slots("pack", f.t))
    BY <1>0, <1>6, <2>1, SlotsAre DEF AtEnd
  <2>3. f.i = Len(Slots("pack", f.t)) + 1
    BY <2>1, <2>2
  <2> DEFINE t == f.t
  <2>4. Image(o, md[g.tab]) = Done(t, Len(Slots("pack", t)) + 1) /\ t \in DOMAIN Heap /\ o[g.tab] = t
    BY <1>10, <2>1, <2>3
  <2> HIDE DEF t
  <2> QED
    BY <1>10, <2>4, DoneIs DEF CopyOf
<1>12. ASSUME NEW n \in 1..M, \A l \in 1..(N - 1) : rs2[l].tab # n
       PROVE  CopyOf(o, md[n], o[n])
  <2>1. CASE n = g.tab
    BY <1>11, <2>1
  <2>2. CASE n # g.tab
    <3>1. \A l \in 1..N : l = N \/ l \in 1..(N - 1)
      BY <1>3
    <3>2. \A l \in 1..N : rs[l].tab # n
      BY <1>5, <1>12, <2>2, <3>1
    <3> QED
      BY <1>1, <3>2
  <2> QED
    BY <2>1, <2>2
<1>13. \A l \in 1..(N - 1) : FrameMatch(o, md, rs2[l], s2[l])
  BY <1>1, <1>3, <1>5, <1>8
<1>14. \A l, m \in 1..(N - 1) : l < m => rs2[l].tab < rs2[m].tab
  BY <1>1, <1>5, <1>8
<1>15. Match(o, xs, Out(h), tables, rs2, md, gt)
  BY <1>1, <1>3, <1>5, <1>7, <1>12, <1>13, <1>14 DEF Match, M
<1>16. g.tab \in Nat
  BY <1>1, <1>10 DEF M
<1>17. Src(o, Ref(g.tab)) = Ref(f.t)
  BY <1>10 DEF Src, Ref, IsTable
<1> QED
  BY <1>4, <1>9, <1>15, <1>16, <1>17 DEF g, f, s, rs2

\* The header of a table is read.
LEMMA MatchInto ==
    ASSUME NEW xs \in Arguments, NEW o, NEW h, IsHere("pack", xs, h), AtValue("pack", xs, h),
           ~TooDeep(Depth(h)), NEW t \in DOMAIN Heap, Value("pack", xs, h) = Ref(t),
           NEW tables, NEW rs, NEW md, NEW gt, Match(o, xs, h, tables, rs, md, gt),
           o[tables + 1] = t,
           NEW g, g = [tab |-> Len(md) + 1, n |-> Heap[t].length, i |-> 1, key |-> Nil]
    PROVE  Match(o, xs, Into("pack", h, t), tables + 1, Append(rs, g), Append(md, {}), gt)
<1> DEFINE s == h.stack
           N == Len(rs)
           M == Len(md)
           f == Frame("pack", t)
           s2 == Append(s, f)
           rs2 == Append(rs, g)
           empty == {}
           md2 == Append(md, empty)
           h2 == Into("pack", h, t)
<1>0. "pack" \in Jobs /\ IsArgs(xs)
  BY ArgumentIs DEF Jobs
<1>1. /\ rs \in Seq(ReadFrames) /\ md \in Seq(Maps) /\ gt \in Seq(Readings)
      /\ M = tables /\ Len(gt) = h.arg - 1 /\ N = Len(s)
      /\ \A l \in 1..N : FrameMatch(o, md, rs[l], s[l])
      /\ \A l, m \in 1..N : l < m => rs[l].tab < rs[m].tab
      /\ \A i \in 1..Len(gt) : Src(o, gt[i]) = xs[i]
      /\ \A n \in 1..M : (\A l \in 1..N : rs[l].tab # n) => CopyOf(o, md[n], o[n])
  BY DEF Match
<1>2. s \in Seq(Frames)
  BY DEF IsHere
<1>3. f = [t |-> t, i |-> 1, half |-> FALSE] /\ f \in Frames
  BY <1>0, FrameIs DEF IsFrame
<1>4. h2 = [arg |-> h.arg, stack |-> s2]
  BY <1>0, IntoIs
<1>5. N \in Nat /\ M \in Nat /\ Heap[t].length \in Nat
  BY <1>1, RowIs
<1>6. g \in ReadFrames
  BY <1>5, ReadingsAre DEF ReadFrames, M
<1>7. empty \in Maps
  BY DEF Maps
<1> HIDE DEF s, N, M, f, empty
<1>8. Len(s2) = N + 1 /\ s2[N + 1] = f /\ \A l \in 1..N : s2[l] = s[l]
  BY <1>1, <1>2, <1>3, AppendIs
<1>9. /\ rs2 \in Seq(ReadFrames) /\ Len(rs2) = N + 1 /\ rs2[N + 1] = g
      /\ \A l \in 1..N : rs2[l] = rs[l]
  BY <1>1, <1>6, AppendIs DEF N
<1>10. /\ md2 \in Seq(Maps) /\ Len(md2) = M + 1 /\ md2[M + 1] = empty
       /\ \A n \in 1..M : md2[n] = md[n]
  BY <1>1, <1>7, AppendIs DEF M
<1>11. h2.arg = h.arg /\ h2.stack = s2
  BY <1>4
<1> HIDE DEF s2, rs2, md2, h2
<1>12. \A l \in 1..(N + 1) : l = N + 1 \/ (l \in 1..N /\ l < N + 1)
  BY <1>5
<1>13. N + 1 \in 1..(N + 1) /\ \A l \in 1..N : l \in 1..(N + 1)
  BY <1>5
<1>14. g.tab = M + 1 /\ g.n = Heap[t].length /\ g.i = 1 /\ g.key = Nil
  BY DEF M
<1>15. FrameMatch(o, md2, g, f)
  <2>1. Image(o, empty) = {} /\ Distinct(o, empty)
    BY DEF Image, Distinct, empty
  <2>2. Done(t, 1) = {}
    BY DoneIs
  <2>3. f.t = t /\ f.i = 1 /\ ~f.half
    BY <1>3
  <2>4. g.tab \in 1..Len(md2) /\ o[g.tab] = t /\ md2[g.tab] = empty
    BY <1>1, <1>5, <1>10, <1>14
  <2>5. 1 = IF 1 <= Heap[t].length THEN 1 ELSE Heap[t].length + 1
    BY <1>5
  <2> QED
    BY <1>14, <2>1, <2>2, <2>3, <2>4, <2>5 DEF FrameMatch
<1>16. \A l \in 1..N : rs[l].tab \in 1..M
  BY <1>1 DEF FrameMatch, M
<1>17. ASSUME NEW l \in 1..(N + 1)
       PROVE  FrameMatch(o, md2, rs2[l], s2[l])
  <2>1. CASE l = N + 1
    BY <1>8, <1>9, <1>15, <2>1
  <2>2. CASE l # N + 1
    <3> DEFINE e == rs[l]
    <3>1. l \in 1..N
      BY <1>12, <2>2
    <3>2. rs2[l] = e /\ s2[l] = s[l] /\ FrameMatch(o, md, e, s[l]) /\ e.tab \in 1..M
      BY <1>1, <1>8, <1>9, <1>16, <3>1
    <3> HIDE DEF e
    <3>3. md2[e.tab] = md[e.tab] /\ Len(md2) \in Nat /\ Len(md2) >= Len(md) /\ Len(md) \in Nat
      BY <1>5, <1>10, <3>2 DEF M
    <3>4. FrameMatch(o, md2, e, s[l])
      BY <3>2, <3>3, OtherFrame
    <3> QED
      BY <3>2, <3>4
  <2> QED
    BY <2>1, <2>2
<1>18. ASSUME NEW l \in 1..(N + 1), NEW m \in 1..(N + 1), l < m
       PROVE  rs2[l].tab < rs2[m].tab
  <2>1. l \in 1..N
    BY <1>5, <1>18
  <2>2. CASE m = N + 1
    <3>1. rs2[m].tab = M + 1 /\ rs2[l] = rs[l] /\ rs[l].tab \in 1..M
      BY <1>9, <1>14, <1>16, <2>1, <2>2
    <3> QED
      BY <1>5, <3>1
  <2>3. CASE m # N + 1
    <3>1. m \in 1..N
      BY <1>12, <2>3
    <3> QED
      BY <1>1, <1>9, <1>18, <2>1, <3>1
  <2> QED
    BY <2>2, <2>3
<1>19. ASSUME NEW n \in 1..(M + 1), \A l \in 1..(N + 1) : rs2[l].tab # n
       PROVE  CopyOf(o, md2[n], o[n])
  <2>1. n # M + 1
    BY <1>9, <1>13, <1>14, <1>19
  <2>2. n \in 1..M
    BY <1>5, <2>1
  <2>3. \A l \in 1..N : rs[l].tab # n
    BY <1>9, <1>13, <1>19
  <2> QED
    BY <1>1, <1>10, <2>2, <2>3
<1>20. Match(o, xs, h2, tables + 1, rs2, md2, gt)
  BY <1>1, <1>8, <1>9, <1>10, <1>11, <1>17, <1>18, <1>19 DEF Match
<1> QED
  BY <1>20 DEF h2, rs2, md2, empty

-----------------------------------------------------------------------------
(* What the reader does at a mark. *)

\* What is decoded at a mark is what was written there, unless it is cut off.
LEMMA DecodedAt ==
    ASSUME NEW xs \in Arguments, NEW o, NEW b \in Seq(Nat), NEW m \in Marks, NEW n \in Marks,
           IsHere("pack", xs, m.here), MarkStep(xs, o, b, m, n),
           NEW h, h = m.here, NEW p, p = m.at, NEW r, r = Decoded(b, p)
    PROVE  /\ m.at < n.at
           /\ r.ok <=> n.at <= Len(b)
           /\ r.ok => /\ r.p = n.at
                      /\ TypeOf(b[p + 1]) = TYPE_TABLE <=> Opens(xs, h)
                      /\ IF Opens(xs, h) THEN r.x.v[1] = Heap[Value("pack", xs, h).v[1]].length
                         ELSE r.x = IF AtValue("pack", xs, h) THEN Value("pack", xs, h) ELSE Nil
<1> DEFINE x == Value("pack", xs, h)
           w == StepBytes(xs, h)
           t == x.v[1]
           len == Heap[t].length
<1>0. "pack" \in Jobs /\ IsArgs(xs) /\ p \in Nat
  BY ArgumentIs DEF Jobs, Marks
<1>1. GoesOn(xs, h) /\ Holds(b, p, w) /\ n.at = p + Len(w)
  BY DEF MarkStep
<1>2. ASSUME NEW y, Reads(b, p, w, y)
      PROVE  /\ m.at < n.at /\ (r.ok <=> n.at <= Len(b))
             /\ r.ok => r.p = n.at /\ r.x = y /\ ~Short(b, p, 1)
  <2> HIDE DEF w
  <2>1. w \in Seq(Nat) /\ Len(w) >= 1 /\ r = IF p + Len(w) <= Len(b) THEN Result(y, p + Len(w)) ELSE Invalid
    BY <1>2 DEF Reads, Gives
  <2>2. Len(w) \in Nat /\ Len(b) \in Nat
    BY <2>1
  <2>3. CASE p + Len(w) <= Len(b)
    <3>1. r = Result(y, n.at)
      BY <1>1, <2>1, <2>3
    <3>2. r.ok /\ r.p = n.at /\ r.x = y
      BY <3>1 DEF Result
    <3>3. ~Short(b, p, 1)
      BY <1>0, <2>1, <2>2, <2>3 DEF Short
    <3> QED
      BY <1>0, <1>1, <2>1, <2>2, <2>3, <3>2, <3>3
  <2>4. CASE ~(p + Len(w) <= Len(b))
    <3>1. r = Invalid
      BY <2>1, <2>4
    <3>2. ~r.ok
      BY <3>1 DEF Invalid
    <3> QED
      BY <1>0, <1>1, <2>1, <2>2, <2>4, <3>2
  <2> QED
    BY <2>3, <2>4
<1> HIDE DEF x, w
<1>3. CASE ~AtValue("pack", xs, h)
  <2>1. w = wb_nil /\ ~Opens(xs, h)
    BY <1>3 DEF w, StepBytes, Opens
  <2>2. Reads(b, p, w, Nil) /\ IsLeaf(b, p)
    BY <1>0, <1>1, <2>1, NilRead
  <2> QED
    BY <1>2, <1>3, <2>1, <2>2 DEF IsLeaf
<1>4. CASE AtValue("pack", xs, h) /\ ~IsTable(x)
  <2>1. w = Encoded(x) /\ ~Opens(xs, h)
    BY <1>4 DEF w, x, StepBytes, Opens
  <2>2. IsValue(x) /\ x.k # "function"
    BY <1>0, <1>1, <1>4, ValueIs DEF GoesOn, Unsupported, x
  <2>3. Reads(b, p, w, x) /\ IsLeaf(b, p)
    BY <1>0, <1>1, <1>4, <2>1, <2>2, ValueRead
  <2> QED
    BY <1>2, <1>4, <2>1, <2>3 DEF IsLeaf, x
<1>5. CASE AtValue("pack", xs, h) /\ IsTable(x)
  <2>1. w = ArrayHeader(len) /\ Opens(xs, h)
    BY <1>5 DEF w, x, StepBytes, Opens
  <2>2. IsValue(x)
    BY <1>0, <1>5, ValueIs DEF x
  <2>3. t \in DOMAIN Heap
    BY <1>5, <2>2, TableIs
  <2>4. len \in Nat /\ Fits(len, 8)
    BY <2>3, RowIs
  <2> HIDE DEF len, t
  <2>5. Reads(b, p, w, Integer(len)) /\ (~Short(b, p, 1) => TypeOf(b[p + 1]) = TYPE_TABLE)
    BY <1>0, <1>1, <2>1, <2>4, HeaderRead
  <2>6. Integer(len).v[1] = len
    BY DEF Integer
  <2> QED
    BY <1>2, <2>1, <2>5, <2>6 DEF x, len, t
<1> QED
  BY <1>3, <1>4, <1>5

\* A nil ends a table only where pack has ended it.
Ends(rs, x) == x = Nil /\ rs # << >> /\ Last(rs).i > Last(rs).n /\ Last(rs).key = Nil

\* The reader goes from a mark to the next one.
LEMMA TableStep ==
    ASSUME NEW xs \in Arguments, NEW o \in Seq(DOMAIN Heap), NEW b \in Seq(Nat),
           NEW m \in Marks, NEW n \in Marks,
           IsHere("pack", xs, m.here), MarkStep(xs, o, b, m, n), Opens(xs, m.here),
           NEW rs, NEW md, NEW gt, Match(o, xs, m.here, m.tables, rs, md, gt),
           NEW g, g = [tab |-> Len(md) + 1, n |-> Heap[Value("pack", xs, m.here).v[1]].length,
                       i |-> 1, key |-> Nil]
    PROVE  Match(o, xs, n.here, n.tables, Append(rs, g), Append(md, {}), gt)
<1> DEFINE h == m.here
           x == Value("pack", xs, h)
           t == x.v[1]
<1>0. "pack" \in Jobs /\ IsArgs(xs)
  BY ArgumentIs DEF Jobs
<1>1. AtValue("pack", xs, h) /\ IsTable(x)
  BY DEF Opens
<1>2. t \in DOMAIN Heap /\ x = Ref(t)
  BY <1>0, <1>1, ValueIs, TableIs
<1>3. /\ n.here = Into("pack", h, t) /\ n.tables = m.tables + 1 /\ o[m.tables + 1] = t
      /\ ~TooDeep(Depth(h))
  BY <1>1 DEF MarkStep, StepHere, GoesOn
<1>4. IsHere("pack", xs, h) /\ Match(o, xs, h, m.tables, rs, md, gt)
      /\ g = [tab |-> Len(md) + 1, n |-> Heap[t].length, i |-> 1, key |-> Nil]
  OBVIOUS
<1>5. x = Value("pack", xs, h)
  OBVIOUS
<1> HIDE DEF h, t, x
<1> DEFINE tables == m.tables
<1>6. Value("pack", xs, h) = Ref(t) /\ o[tables + 1] = t /\ Match(o, xs, h, tables, rs, md, gt)
      /\ n.tables = tables + 1
  BY <1>2, <1>3, <1>4, <1>5
<1> HIDE DEF tables
<1>7. Match(o, xs, Into("pack", h, t), tables + 1, Append(rs, g), Append(md, {}), gt)
  BY <1>1, <1>2, <1>3, <1>4, <1>6, MatchInto
<1> QED
  BY <1>3, <1>6, <1>7

LEMMA ValueStep ==
    ASSUME NEW xs \in Arguments, NEW o \in Seq(DOMAIN Heap), NEW b \in Seq(Nat),
           NEW m \in Marks, NEW n \in Marks,
           IsHere("pack", xs, m.here), MarkStep(xs, o, b, m, n), ~Opens(xs, m.here),
           NEW rs, NEW md, NEW gt, Match(o, xs, m.here, m.tables, rs, md, gt),
           NEW x, x = IF AtValue("pack", xs, m.here) THEN Value("pack", xs, m.here) ELSE Nil,
           NEW rs2, NEW md2, NEW gt2,
           IF Ends(rs, x) THEN Stored(Front(rs), md, gt, Ref(Last(rs).tab), rs2, md2, gt2)
           ELSE Stored(rs, md, gt, x, rs2, md2, gt2)
    PROVE  Match(o, xs, n.here, n.tables, rs2, md2, gt2)
<1> DEFINE h == m.here
           tables == m.tables
<1>0. "pack" \in Jobs /\ IsArgs(xs)
  BY ArgumentIs DEF Jobs
<1>1. /\ IsHere("pack", xs, h) /\ Match(o, xs, h, tables, rs, md, gt) /\ n.tables = tables
      /\ GoesOn(xs, h) /\ n.here = StepHere(xs, h) /\ ~Opens(xs, h)
      /\ x = IF AtValue("pack", xs, h) THEN Value("pack", xs, h) ELSE Nil
  BY DEF MarkStep
<1> HIDE DEF h, tables
<1>2. CASE AtValue("pack", xs, h)
  <2>1. x = Value("pack", xs, h) /\ ~IsTable(x) /\ n.here = Behind("pack", h)
    BY <1>1, <1>2 DEF Opens, StepHere
  <2>2. x \in Readings /\ Src(o, x) = x
    <3>1. x \in Values
      BY <1>0, <1>1, <1>2, <2>1, ValueInValues
    <3> QED
      BY <2>1, <3>1, ReadingsAre DEF Src
  <2>3. ~Ends(rs, x)
    <3> SUFFICES ASSUME Ends(rs, x) PROVE FALSE
      OBVIOUS
    <3> DEFINE s == h.stack
               N == Len(rs)
               f == Last(s)
               g == Last(rs)
    <3>1. x = Nil /\ rs # << >> /\ g.i > g.n /\ g.key = Nil
      BY DEF Ends
    <3>2. rs \in Seq(ReadFrames) /\ N = Len(s) /\ \A l \in 1..N : FrameMatch(o, md, rs[l], s[l])
      BY <1>1 DEF Match
    <3>3. s \in Seq(Frames) /\ \A l \in 1..Len(s) : IsFrame("pack", s[l])
      BY <1>1 DEF IsHere
    <3>4. N \in Nat /\ N >= 1 /\ g = rs[N] /\ g \in ReadFrames
      BY <3>1, <3>2, TopIs
    <3> HIDE DEF s, N
    <3>5. s # << >>
      <4>1. Len(s) >= 1
        BY <3>2, <3>4
      <4> QED
        BY <4>1
    <3>6. f = s[N] /\ N \in 1..N
      <4>1. Last(s) = s[Len(s)]
        BY <3>3, <3>5, TopIs
      <4> QED
        BY <3>2, <3>4, <4>1
    <3>7. x = Current("pack", f) /\ ~AtEnd("pack", f)
      BY <1>2, <2>1, <3>5 DEF Value, AtValue, s
    <3> HIDE DEF f, g
    <3>8. IsFrame("pack", f) /\ FrameMatch(o, md, g, f)
      BY <3>2, <3>3, <3>4, <3>6
    <3>9. /\ f.t \in DOMAIN Heap /\ f.i \in 1..Len(Slots("pack", f.t))
          /\ AtKey(f) => Current("pack", f) # Nil
      BY <1>0, <3>7, <3>8, CurrentIs
    <3>10. /\ g.n = Heap[f.t].length
           /\ g.i = IF f.i <= Heap[f.t].length THEN f.i ELSE Heap[f.t].length + 1
           /\ IF f.half THEN Src(o, g.key) = Slots("pack", f.t)[f.i][1] ELSE g.key = Nil
      BY <3>8 DEF FrameMatch
    <3>11. f.i > Heap[f.t].length
      <4>1. Heap[f.t].length \in Nat /\ Len(Slots("pack", f.t)) \in Nat
        BY <1>0, <3>9, RowIs, SlotsAre
      <4>2. f.i \in Nat
        BY <3>9
      <4> QED
        BY <3>1, <3>10, <4>1, <4>2
    <3>12. ~f.half
      <4>1. Slots("pack", f.t)[f.i][1] # Nil
        BY <1>0, <3>9, <3>11, SlotIs
      <4> QED
        BY <3>1, <3>10, <4>1, SrcIs
    <3> QED
      BY <3>1, <3>7, <3>9, <3>11, <3>12 DEF AtKey
  <2>4. Stored(rs, md, gt, x, rs2, md2, gt2)
    BY <2>3
  <2>5. Match(o, xs, Behind("pack", h), tables, rs2, md2, gt2)
    BY <1>1, <1>2, <2>1, <2>2, <2>4, MatchStore
  <2> QED
    BY <1>1, <2>1, <2>5
<1>3. CASE ~AtValue("pack", xs, h)
  <2>1. x = Nil /\ h.stack # << >> /\ n.here = Back("pack", h)
    BY <1>1, <1>3 DEF GoesOn, StepHere
  <2> DEFINE g == Last(rs)
             f == Last(h.stack)
             r1 == Front(rs)
             y == Ref(g.tab)
  <2>2. /\ rs # << >> /\ g.tab \in Nat /\ Src(o, y) = Ref(f.t) /\ FrameMatch(o, md, g, f)
        /\ Match(o, xs, Out(h), tables, r1, md, gt)
    BY <1>1, <1>3, <2>1, MatchOut
  <2>3. /\ IsHere("pack", xs, Out(h)) /\ AtValue("pack", xs, Out(h))
        /\ Value("pack", xs, Out(h)) = Ref(f.t) /\ Back("pack", h) = Behind("pack", Out(h))
    BY <1>0, <1>1, <2>1, OutIs
  <2>4. IsFrame("pack", f) /\ AtEnd("pack", f)
    <3> DEFINE s == h.stack
    <3>1. s \in Seq(Frames) /\ \A l \in 1..Len(s) : IsFrame("pack", s[l])
      BY <1>1 DEF IsHere
    <3>2. AtEnd("pack", f)
      BY <1>3, <2>1 DEF AtValue
    <3>3. s # << >> /\ f = Last(s)
      BY <2>1
    <3> HIDE DEF s, f
    <3>4. f = s[Len(s)] /\ Len(s) \in Nat /\ Len(s) >= 1
      BY <3>1, <3>3, TopIs
    <3>5. Len(s) \in 1..Len(s)
      BY <3>4
    <3> QED
      BY <3>1, <3>2, <3>4, <3>5
  <2> HIDE DEF g, f, y, r1
  <2>5. g.i > g.n /\ g.key = Nil
    <3>1. /\ f.t \in DOMAIN Heap /\ f.i \in 1..(Len(Slots("pack", f.t)) + 1)
          /\ f.half => f.i <= Len(Slots("pack", f.t))
      BY <2>4 DEF IsFrame, Frames
    <3>2. /\ Len(Slots("pack", f.t)) \in Nat /\ Heap[f.t].length \in Nat
          /\ Heap[f.t].length <= Len(Slots("pack", f.t))
      BY <1>0, <3>1, RowIs, SlotsAre
    <3>3. f.i > Len(Slots("pack", f.t))
      BY <2>4 DEF AtEnd
    <3>4. ~f.half /\ ~(f.i <= Heap[f.t].length)
      BY <3>1, <3>2, <3>3
    <3>5. g.n = Heap[f.t].length /\ g.i = Heap[f.t].length + 1 /\ g.key = Nil
      BY <2>2, <3>4 DEF FrameMatch
    <3> QED
      BY <3>2, <3>5
  <2>6. Ends(rs, x)
    BY <2>1, <2>2, <2>5 DEF Ends, g
  <2>7. Stored(r1, md, gt, y, rs2, md2, gt2)
    BY <2>6 DEF r1, y, g
  <2>8. y \in Readings
    BY <2>2, ReadingsAre DEF y
  <2> DEFINE q == Out(h)
  <2>9. /\ IsHere("pack", xs, q) /\ AtValue("pack", xs, q) /\ Match(o, xs, q, tables, r1, md, gt)
        /\ Src(o, y) = Value("pack", xs, q) /\ n.here = Behind("pack", q)
    BY <2>1, <2>2, <2>3
  <2> HIDE DEF q
  <2>10. Match(o, xs, Behind("pack", q), tables, rs2, md2, gt2)
    BY <2>7, <2>8, <2>9, MatchStore
  <2> QED
    BY <1>1, <2>9, <2>10
<1> QED
  BY <1>2, <1>3

\* The reader is at a mark.
ReadAt(xs, o, tr, v, rs, md, gt) ==
    \E k \in 1..Len(tr) : v = tr[k].at /\ Match(o, xs, tr[k].here, tr[k].tables, rs, md, gt)

\* The last mark is the end of the walk.
EndsAt(xs, o, top, tr) ==
    /\ tr[Len(tr)].here.stack = << >> /\ tr[Len(tr)].here.arg = Len(xs) + 1
    /\ tr[Len(tr)].at = top

LEMMA TraceIs ==
    ASSUME NEW xs \in Arguments, NEW o, NEW b, NEW top, NEW tr, TraceOK(xs, o, b, top, tr)
    PROVE  /\ Len(tr) \in Nat /\ Len(tr) >= 1
           /\ \A k \in 1..Len(tr) : tr[k] \in Marks /\ tr[k].at \in Nat /\ tr[k].at <= top
                                    /\ IsHere("pack", xs, tr[k].here)
<1>1. tr \in Seq(Marks) /\ tr # << >>
  BY DEF TraceOK
<1>2. Len(tr) \in Nat /\ Len(tr) >= 1 /\ \A k \in 1..Len(tr) : tr[k] \in Marks
  BY <1>1
<1>3. \A k \in 1..Len(tr) : tr[k].at \in Nat
  BY <1>2 DEF Marks
<1> QED
  BY <1>2, <1>3 DEF TraceOK

\* A reader that is at the mark m gets to the mark n.
ReadsOn(xs, o, b, top, tr, m, n, v, rs, md, gt) ==
    /\ v = m.at /\ IsHere("pack", xs, m.here) /\ MarkStep(xs, o, b, m, n)
    /\ Match(o, xs, m.here, m.tables, rs, md, gt)
    /\ n.at <= top
    /\ \A rs2, md2, gt2 : Match(o, xs, n.here, n.tables, rs2, md2, gt2) =>
                              ReadAt(xs, o, tr, n.at, rs2, md2, gt2)

\* Where there is more to read there is a next mark.
LEMMA NextMark ==
    ASSUME NEW xs \in Arguments, NEW o, NEW b \in Seq(Nat), NEW top \in Nat, top >= Len(b),
           NEW tr, TraceOK(xs, o, b, top, tr), EndsAt(xs, o, top, tr),
           NEW v, NEW rs, NEW md, NEW gt, ReadAt(xs, o, tr, v, rs, md, gt),
           rs # << >> \/ v < Len(b)
    PROVE  \E m, n \in Marks : ReadsOn(xs, o, b, top, tr, m, n, v, rs, md, gt)
<1> DEFINE N == Len(tr)
<1>1. PICK k \in 1..N : v = tr[k].at /\ Match(o, xs, tr[k].here, tr[k].tables, rs, md, gt)
  BY DEF ReadAt
<1>2. /\ N \in Nat /\ N >= 1
      /\ \A i \in 1..N : tr[i] \in Marks /\ tr[i].at \in Nat /\ tr[i].at <= top
                         /\ IsHere("pack", xs, tr[i].here)
  BY TraceIs
<1> HIDE DEF N
<1>3. k # N
  <2> SUFFICES ASSUME k = N PROVE FALSE
    OBVIOUS
  <2>1. tr[k].here.stack = << >> /\ tr[k].at = top
    BY DEF EndsAt, N
  <2>2. Len(b) \in Nat
    OBVIOUS
  <2>3. ~(v < Len(b))
    BY <1>1, <2>1, <2>2
  <2>4. rs \in Seq(ReadFrames) /\ Len(rs) = Len(tr[k].here.stack)
    BY <1>1 DEF Match
  <2>5. Len(rs) = 0
    BY <2>1, <2>4
  <2>6. rs = << >>
    BY <2>4, <2>5
  <2> QED
    BY <2>3, <2>6
<1>4. k \in 1..(N - 1) /\ k + 1 \in 1..N
  BY <1>2, <1>3
<1> DEFINE m == tr[k]
           n == tr[k + 1]
<1>5. MarkStep(xs, o, b, m, n)
  BY <1>4 DEF TraceOK, N
<1>6. m \in Marks /\ n \in Marks /\ IsHere("pack", xs, m.here) /\ n.at <= top
  BY <1>2, <1>4
<1>7. ASSUME NEW rs2, NEW md2, NEW gt2, Match(o, xs, n.here, n.tables, rs2, md2, gt2)
      PROVE  ReadAt(xs, o, tr, n.at, rs2, md2, gt2)
  BY <1>4, <1>7 DEF ReadAt, N
<1> HIDE DEF m, n
<1>8. v = m.at /\ Match(o, xs, m.here, m.tables, rs, md, gt)
  BY <1>1 DEF m
<1>9. ReadsOn(xs, o, b, top, tr, m, n, v, rs, md, gt)
  BY <1>5, <1>6, <1>7, <1>8 DEF ReadsOn
<1> QED
  BY <1>6, <1>9

\* A reader that is at the end has read all arguments.
LEMMA LastMark ==
    ASSUME NEW xs \in Arguments, NEW o, NEW b \in Seq(Nat),
           NEW tr, TraceOK(xs, o, b, Len(b), tr), EndsAt(xs, o, Len(b), tr),
           NEW v, NEW rs, NEW md, NEW gt, ReadAt(xs, o, tr, v, rs, md, gt),
           rs = << >>, ~(v < Len(b))
    PROVE  Len(gt) = Len(xs)
<1> DEFINE N == Len(tr)
<1>1. PICK k \in 1..N : v = tr[k].at /\ Match(o, xs, tr[k].here, tr[k].tables, rs, md, gt)
  BY DEF ReadAt
<1>2. /\ N \in Nat /\ N >= 1
      /\ \A i \in 1..N : tr[i] \in Marks /\ tr[i].at \in Nat /\ tr[i].at <= Len(b)
                         /\ IsHere("pack", xs, tr[i].here)
  BY TraceIs
<1> HIDE DEF N
<1>3. k = N
  <2> SUFFICES ASSUME k # N PROVE FALSE
    OBVIOUS
  <2>1. k \in 1..(N - 1) /\ k + 1 \in 1..N
    BY <1>2
  <2> DEFINE m == tr[k]
             n == tr[k + 1]
  <2>2. MarkStep(xs, o, b, m, n)
    BY <2>1 DEF TraceOK, N
  <2>3. m \in Marks /\ n \in Marks /\ IsHere("pack", xs, m.here) /\ n.at <= Len(b) /\ v = m.at
        /\ m.at \in Nat /\ n.at \in Nat
    BY <1>1, <1>2, <2>1
  <2> HIDE DEF m, n
  <2>4. m.at < n.at
    BY <2>2, <2>3, DecodedAt
  <2>5. Len(b) \in Nat
    OBVIOUS
  <2> QED
    BY <2>3, <2>4, <2>5
<1>4. tr[k].here.arg = Len(xs) + 1
  BY <1>3 DEF EndsAt, N
<1>5. Len(gt) = tr[k].here.arg - 1
  BY <1>1 DEF Match
<1>6. Len(xs) \in Nat
  BY ArgumentIs DEF IsArgs
<1> QED
  BY <1>4, <1>5, <1>6

-----------------------------------------------------------------------------
(* The invariant of pack and unpack. *)

NowMark == [at |-> Len(buf), here |-> here, tables |-> Len(opened)]

Unread == reads = << >> /\ made = << >> /\ got = << >> /\ pos = 0 /\ view = 0

\* While pack writes, its marks and the place it is at are a trace.
PackInv ==
    job = "pack" /\ outcome = "none" =>
        /\ buf \in Seq(Nat) /\ opened \in Seq(DOMAIN Heap) /\ cut = 0
        /\ marks \in Seq(Marks)
        /\ TraceOK(args, opened, buf, Len(buf), Append(marks, NowMark))

\* Then they are a trace of what is left of the stream, and the reader is at one of them.
ReadInv ==
    job = "pack" /\ outcome \in {"done", "invalid", "unpacked"} =>
        /\ buf \in Seq(Nat) /\ opened \in Seq(DOMAIN Heap) /\ cut \in Nat /\ pos \in Nat
        /\ TraceOK(args, opened, buf, Len(buf) + cut, marks)
        /\ EndsAt(args, opened, Len(buf) + cut, marks)
        /\ ReadAt(args, opened, marks, view, reads, made, got)
        /\ reading = "none" /\ outcome = "done" => view = pos
        /\ reading = "unpack_one" => pos < Len(buf)
        /\ outcome = "unpacked" /\ cut = 0 => Len(got) = Len(args)
        /\ outcome = "invalid" => cut > 0

RoundInv ==
    /\ WalkInv
    /\ job = "none" => args = << >> /\ buf = << >> /\ marks = << >> /\ opened = << >> /\ cut = 0
    /\ job # "pack" \/ outcome \in {"none", "error"} => Unread
    /\ job # "pack" => outcome \notin {"invalid", "unpacked"}
    /\ PackInv /\ ReadInv

LEMMA RoundImplies ==
    ASSUME RoundInv
    PROVE  RoundTrip
<1>1. CASE job = "pack" /\ outcome \in {"done", "invalid", "unpacked"}
  <2>1. /\ ReadAt(args, opened, marks, view, reads, made, got)
        /\ TraceOK(args, opened, buf, Len(buf) + cut, marks)
        /\ outcome = "unpacked" /\ cut = 0 => Len(got) = Len(args)
        /\ outcome = "invalid" => cut > 0
    BY <1>1 DEF RoundInv, ReadInv
  <2>2. args \in Arguments
    BY <1>1 DEF RoundInv, WalkInv
  <2>3. PICK k \in 1..Len(marks) :
            Match(opened, args, marks[k].here, marks[k].tables, reads, made, got)
    BY <2>1 DEF ReadAt
  <2> DEFINE h == marks[k].here
  <2>4. IsHere("pack", args, h)
    BY <2>1, <2>2, TraceIs
  <2>5. /\ Len(got) = h.arg - 1
        /\ \A i \in 1..Len(got) : Src(opened, got[i]) = args[i]
        /\ \A n \in 1..Len(made) :
               (\A l \in 1..Len(reads) : reads[l].tab # n) => CopyOf(opened, made[n], opened[n])
    BY <2>3 DEF Match
  <2>6. h.arg \in 1..(Len(args) + 1) /\ Len(args) \in Nat
    BY <2>2, <2>4, ArgumentIs DEF IsHere, IsArgs
  <2> HIDE DEF h
  <2>7. Len(got) <= Len(args)
    BY <2>5, <2>6
  <2>8. \A y : Source(y) = Src(opened, y)
    BY DEF Source, Src
  <2>9. ASSUME NEW n \in 1..Len(made), \A l \in 1..Len(reads) : reads[l].tab # n
        PROVE  IsCopy(made[n], opened[n])
    <3> DEFINE map == made[n]
               t == opened[n]
    <3>1. CopyOf(opened, map, t)
      BY <2>5, <2>9
    <3> HIDE DEF map, t
    <3>2. {<<Source(q[1]), Source(q[2])>> : q \in map} = Image(opened, map)
      BY <2>8 DEF Image
    <3>3. IsCopy(map, t)
      BY <2>8, <3>1, <3>2 DEF IsCopy, CopyOf, Distinct
    <3> QED
      BY <3>3 DEF map, t
  <2> QED
    BY <2>1, <2>5, <2>7, <2>8, <2>9 DEF RoundTrip
<1>2. CASE ~(job = "pack" /\ outcome \in {"done", "invalid", "unpacked"})
  <2>1. Unread /\ outcome \notin {"unpacked", "invalid"}
    BY <1>2 DEF RoundInv, WalkInv
  <2>2. got = << >> /\ made = << >>
    BY <2>1 DEF Unread
  <2>3. Len(got) = 0 /\ Len(made) = 0
    BY <2>2
  <2>4. Len(args) >= 0
    <3>1. CASE job = "none"
      BY <3>1 DEF RoundInv
    <3>2. CASE job # "none"
      <4>1. Len(args) \in Nat
        BY <3>2, ArgumentIs DEF RoundInv, WalkInv, IsArgs
      <4> QED
        BY <4>1
    <3> QED
      BY <3>1, <3>2
  <2>5. 1..Len(got) = {} /\ 1..Len(made) = {} /\ Len(got) <= Len(args)
    BY <2>3, <2>4
  <2> HIDE <2>2, <2>3
  <2> QED
    BY <2>1, <2>5 DEF RoundTrip
<1> QED
  BY <1>1, <1>2

LEMMA RoundInit ==
    ASSUME SerializeInit
    PROVE  RoundInv
<1>1. WalkInv
  BY WalkInit
<1> QED
  BY <1>1 DEF SerializeInit, RoundInv, Unread, PackInv, ReadInv

LEMMA NowMarkIs ==
    ASSUME RoundInv, job = "pack", outcome = "none"
    PROVE  NowMark \in Marks
<1>1. args \in Arguments /\ IsHere("pack", args, here)
  BY DEF RoundInv, WalkInv
<1>2. buf \in Seq(Nat) /\ opened \in Seq(DOMAIN Heap)
  BY DEF RoundInv, PackInv
<1>3. here \in [arg : Nat, stack : Seq(Frames)]
  BY <1>1 DEF IsHere
<1>4. Len(buf) \in Nat /\ Len(opened) \in Nat
  BY <1>2
<1> QED
  BY <1>3, <1>4 DEF NowMark, Marks

\* A step of pack writes what the trace says.
LEMMA RoundWrites ==
    ASSUME RoundInv, Writing, job = "pack", GoesOn(args, here),
           UNCHANGED <<job, args, outcome, cut, readVars>>,
           marks' = Append(marks, NowMark),
           buf' = buf \o StepBytes(args, here),
           here' = StepHere(args, here),
           opened' = IF Opens(args, here) THEN Append(opened, Value("pack", args, here).v[1])
                     ELSE opened,
           WalkInv'
    PROVE  RoundInv'
<1> DEFINE d == NowMark
           tr == Append(marks, d)
           b2 == buf'
           o2 == opened'
           m == NowMark'
<1>1. outcome = "none" /\ args \in Arguments
  BY DEF Writing, RoundInv, WalkInv
<1>2. /\ buf \in Seq(Nat) /\ opened \in Seq(DOMAIN Heap) /\ cut = 0 /\ marks \in Seq(Marks)
      /\ TraceOK(args, opened, buf, Len(buf), tr)
  BY <1>1 DEF RoundInv, PackInv
<1>3. Unread
  BY <1>1 DEF RoundInv
<1>4. d \in Marks
  BY <1>1, NowMarkIs
<1>5. d.at = Len(buf) /\ d.here = here /\ d.tables = Len(opened)
  BY DEF NowMark
<1>6. /\ b2 = buf \o StepBytes(args, here)
      /\ o2 = IF Opens(args, here) THEN Append(opened, Value("pack", args, here).v[1]) ELSE opened
      /\ m = [at |-> Len(b2), here |-> StepHere(args, here), tables |-> Len(o2)]
  BY DEF NowMark
<1> HIDE DEF d, b2, o2, m
<1>7. tr \in Seq(Marks) /\ Len(tr) = Len(marks) + 1 /\ tr[Len(marks) + 1] = d
  BY <1>2, <1>4, AppendIs
<1> HIDE DEF tr
<1>8. /\ tr[Len(tr)].at = Len(buf) /\ tr[Len(tr)].tables = Len(opened) /\ tr[Len(tr)].here = here
      /\ GoesOn(args, here)
  BY <1>5, <1>7
<1>9. /\ b2 \in Seq(Nat) /\ o2 \in Seq(DOMAIN Heap)
      /\ TraceOK(args, o2, b2, Len(b2), Append(tr, m))
  <2>1. Adds(args, opened, buf, tr, here, o2, b2, m)
    BY <1>2, <1>6, <1>8 DEF Adds
  <2> QED
    BY <1>1, <1>2, <2>1, TraceGrows
<1>10. marks' = tr
  BY DEF tr, d
<1>11. job' = "pack" /\ outcome' = "none" /\ args' = args /\ cut' = 0
  BY <1>1, <1>2
<1>12. PackInv'
  BY <1>7, <1>9, <1>10, <1>11 DEF PackInv, b2, o2, m
<1>13. Unread'
  BY <1>3 DEF Unread, readVars
<1> QED
  BY <1>11, <1>12, <1>13 DEF RoundInv, ReadInv

\* In a trace that begins nothing has been written.
LEMMA TraceBegins ==
    ASSUME NEW xs \in Arguments, NEW tr, tr = <<[at |-> 0, here |-> Start, tables |-> 0]>>
    PROVE  TraceOK(xs, << >>, << >>, 0, tr)
<1> DEFINE d == [at |-> 0, here |-> Start, tables |-> 0]
           o == << >>
<1>1. IsHere("pack", xs, Start)
  BY StartIs DEF Jobs
<1>2. d \in Marks /\ d.at = 0 /\ d.here = Start /\ d.tables = 0
  <2>1. Start \in [arg : Nat, stack : Seq(Frames)]
    BY <1>1 DEF IsHere
  <2> QED
    BY <2>1 DEF Marks
<1>3. Len(o) = 0
  OBVIOUS
<1> HIDE DEF d, o
<1>4. tr = <<d>>
  BY DEF d
<1>5. tr \in Seq(Marks) /\ tr # << >> /\ Len(tr) = 1 /\ tr[1] = d
  BY <1>2, <1>4
<1>6. \A k \in 1..1 : k = 1
  OBVIOUS
<1>7. 1..(1 - 1) = {}
  OBVIOUS
<1>8. \A k \in 1..Len(tr) : IsHere("pack", xs, tr[k].here) /\ tr[k].tables <= Len(o) /\ tr[k].at <= 0
  BY <1>1, <1>2, <1>3, <1>5, <1>6
<1>9. TraceOK(xs, o, o, 0, tr)
  BY <1>5, <1>7, <1>8 DEF TraceOK, d
<1> QED
  BY <1>9 DEF o

\* Where nothing has been read the reader is at the first mark.
LEMMA ReadBegins ==
    ASSUME NEW xs \in Arguments, NEW o, NEW b, NEW top, NEW tr, TraceOK(xs, o, b, top, tr)
    PROVE  ReadAt(xs, o, tr, 0, << >>, << >>, << >>)
<1> DEFINE e == << >>
<1>1. 1 \in 1..Len(tr) /\ tr[1] = [at |-> 0, here |-> Start, tables |-> 0]
  BY TraceIs DEF TraceOK
<1>2. Start.arg = 1 /\ Start.stack = << >>
  BY DEF Start
<1>3. /\ \A S : e \in Seq(S)
      /\ Len(e) = 0 /\ 1..Len(e) = {} /\ Len(Start.stack) = 0 /\ Len(e) = Start.arg - 1
  BY <1>2
<1> HIDE DEF e
<1>4. Match(o, xs, Start, 0, e, e, e)
  BY <1>3 DEF Match
<1>5. tr[1].at = 0 /\ tr[1].here = Start /\ tr[1].tables = 0
  BY <1>1
<1>6. ReadAt(xs, o, tr, 0, e, e, e)
  BY <1>1, <1>4, <1>5 DEF ReadAt
<1> QED
  BY <1>6 DEF e

\* What pack and unpack keep.
LEMMA RoundPacks ==
    ASSUME RoundInv, WalkInv',
           \/ \E j \in {"pack", "concat"}, xs \in Arguments : Call(j, xs)
           \/ WriteValue \/ EnterTable \/ LeaveTable \/ Refuse \/ Return
    PROVE  RoundInv'
<1>0. /\ job = "none" => args = << >> /\ buf = << >> /\ marks = << >> /\ opened = << >> /\ cut = 0
                         /\ outcome = "none" /\ here = Start
      /\ job # "pack" \/ outcome \in {"none", "error"} => Unread
      /\ job # "pack" => outcome \notin {"invalid", "unpacked"}
      /\ PackInv
      /\ job \in Jobs \cup {"none"}
  BY DEF RoundInv, WalkInv
<1>1. ASSUME NEW j \in {"pack", "concat"}, NEW xs \in Arguments, Call(j, xs)
      PROVE  RoundInv'
  <2>1. /\ job = "none" /\ job' = j /\ args' = xs
        /\ UNCHANGED <<here, outcome, buf, text, cut, marks, opened, readVars>>
    BY <1>1 DEF Call
  <2>2. buf' = << >> /\ marks' = << >> /\ opened' = << >> /\ cut' = 0 /\ here' = Start
        /\ outcome' = "none"
    BY <1>0, <2>1
  <2>3. Unread'
    BY <1>0, <2>1 DEF Unread, readVars
  <2>4. PackInv'
    <3> DEFINE tr == <<[at |-> 0, here |-> Start, tables |-> 0]>>
               e == << >>
               n == 0
    <3>1. TraceOK(xs, e, e, n, tr)
      BY TraceBegins
    <3>2. Append(marks', NowMark') = tr
      BY <2>2 DEF NowMark
    <3>3. \A S : e \in Seq(S)
      OBVIOUS
    <3>4. Len(e) = n
      OBVIOUS
    <3>5. buf' = e /\ opened' = e /\ marks' = e /\ args' = xs /\ cut' = 0
      BY <2>1, <2>2
    <3> HIDE DEF tr, e, n
    <3> QED
      BY <3>1, <3>2, <3>3, <3>4, <3>5 DEF PackInv
  <2> QED
    BY <2>1, <2>2, <2>3, <2>4 DEF RoundInv, ReadInv
<1>2. ASSUME Writing, job # "pack", outcome' \in {"none", "done", "error"},
             UNCHANGED <<job, args, readVars>>
      PROVE  RoundInv'
  <2>1. Unread'
    BY <1>0, <1>2 DEF Unread, readVars
  <2>2. job' # "pack" /\ job' # "none"
    BY <1>2 DEF Writing
  <2> QED
    BY <1>2, <2>1, <2>2 DEF RoundInv, PackInv, ReadInv
<1>3. CASE WriteValue
  <2>1. /\ Writing /\ AtValue(job, args, here) /\ ~TooDeep(Depth(here)) /\ ~Unsupported(job, Now)
        /\ ~IsTable(Now) /\ Now = Value(job, args, here)
        /\ Write(Encoded(Now), Words(Now)) /\ here' = Behind(job, here)
        /\ UNCHANGED <<outcome, opened>>
    BY <1>3 DEF WriteValue, Passes, Now
  <2>2. UNCHANGED <<job, args, outcome, cut, readVars>> /\ marks' = Append(marks, NowMark)
        /\ (job = "pack" => buf' = buf \o Encoded(Now))
    BY <2>1 DEF Write, NowMark
  <2>3. CASE job = "pack"
    <3>1. /\ GoesOn(args, here) /\ StepBytes(args, here) = Encoded(Now)
          /\ StepHere(args, here) = Behind("pack", here) /\ ~Opens(args, here)
      BY <2>1, <2>3 DEF GoesOn, StepBytes, StepHere, Opens
    <3>2. /\ buf' = buf \o StepBytes(args, here) /\ here' = StepHere(args, here)
          /\ opened' = IF Opens(args, here) THEN Append(opened, Value("pack", args, here).v[1])
                       ELSE opened
      BY <2>1, <2>2, <2>3, <3>1
    <3> QED
      BY <2>1, <2>2, <2>3, <3>1, <3>2, RoundWrites
  <2>4. CASE job # "pack"
    <3>1. outcome' \in {"none", "done", "error"}
      BY <2>1 DEF Writing
    <3> QED
      BY <1>2, <2>1, <2>2, <2>4, <3>1
  <2> QED
    BY <2>3, <2>4
<1>4. CASE EnterTable
  <2>1. /\ Writing /\ AtValue(job, args, here) /\ ~TooDeep(Depth(here)) /\ ~Unsupported(job, Now)
        /\ IsTable(Now) /\ Now = Value(job, args, here)
        /\ Write(ArrayHeader(Heap[Now.v[1]].length), << >>) /\ here' = Into(job, here, Now.v[1])
        /\ opened' = Append(opened, Now.v[1]) /\ UNCHANGED outcome
    BY <1>4 DEF EnterTable, Passes, Now
  <2>2. UNCHANGED <<job, args, outcome, cut, readVars>> /\ marks' = Append(marks, NowMark)
        /\ (job = "pack" => buf' = buf \o ArrayHeader(Heap[Now.v[1]].length))
    BY <2>1 DEF Write, NowMark
  <2>3. CASE job = "pack"
    <3>1. /\ GoesOn(args, here) /\ StepBytes(args, here) = ArrayHeader(Heap[Now.v[1]].length)
          /\ StepHere(args, here) = Into("pack", here, Now.v[1]) /\ Opens(args, here)
      BY <2>1, <2>3 DEF GoesOn, StepBytes, StepHere, Opens
    <3>2. /\ buf' = buf \o StepBytes(args, here) /\ here' = StepHere(args, here)
          /\ opened' = IF Opens(args, here) THEN Append(opened, Value("pack", args, here).v[1])
                       ELSE opened
      BY <2>1, <2>2, <2>3, <3>1
    <3> QED
      BY <2>1, <2>2, <2>3, <3>1, <3>2, RoundWrites
  <2>4. CASE job # "pack"
    <3>1. outcome' \in {"none", "done", "error"}
      BY <2>1 DEF Writing
    <3> QED
      BY <1>2, <2>1, <2>2, <2>4, <3>1
  <2> QED
    BY <2>3, <2>4
<1>5. CASE LeaveTable
  <2>1. /\ Writing /\ ~AtValue(job, args, here) /\ here.stack # << >>
        /\ Write(wb_nil, << >>) /\ here' = Back(job, here)
        /\ UNCHANGED <<outcome, opened>>
    BY <1>5 DEF LeaveTable
  <2>2. UNCHANGED <<job, args, outcome, cut, readVars>> /\ marks' = Append(marks, NowMark)
        /\ (job = "pack" => buf' = buf \o wb_nil)
    BY <2>1 DEF Write, NowMark
  <2>3. CASE job = "pack"
    <3>1. /\ GoesOn(args, here) /\ StepBytes(args, here) = wb_nil
          /\ StepHere(args, here) = Back("pack", here) /\ ~Opens(args, here)
      BY <2>1, <2>3 DEF GoesOn, StepBytes, StepHere, Opens
    <3>2. /\ buf' = buf \o StepBytes(args, here) /\ here' = StepHere(args, here)
          /\ opened' = IF Opens(args, here) THEN Append(opened, Value("pack", args, here).v[1])
                       ELSE opened
      BY <2>1, <2>2, <2>3, <3>1
    <3> QED
      BY <2>1, <2>2, <2>3, <3>1, <3>2, RoundWrites
  <2>4. CASE job # "pack"
    <3>1. outcome' \in {"none", "done", "error"}
      BY <2>1 DEF Writing
    <3> QED
      BY <1>2, <2>1, <2>2, <2>4, <3>1
  <2> QED
    BY <2>3, <2>4
<1>6. CASE Refuse
  <2>1. Writing /\ outcome' = "error" /\ UNCHANGED <<job, args, readVars>>
    BY <1>6 DEF Refuse
  <2>2. Unread'
    BY <1>0, <2>1 DEF Unread, readVars, Writing
  <2>3. job' # "none"
    BY <2>1 DEF Writing
  <2> QED
    BY <2>1, <2>2, <2>3 DEF RoundInv, PackInv, ReadInv
<1>7. CASE Return
  <2>1. /\ Writing /\ ~AtValue(job, args, here) /\ here.stack = << >>
        /\ Write(<< >>, << >>) /\ outcome' = "done" /\ UNCHANGED <<here, opened>>
    BY <1>7 DEF Return
  <2>2. UNCHANGED <<job, args, cut, readVars>> /\ marks' = Append(marks, NowMark)
        /\ (job = "pack" => buf' = buf \o << >>)
    BY <2>1 DEF Write, NowMark
  <2>3. CASE job = "pack"
    <3> DEFINE d == NowMark
               tr == Append(marks, d)
    <3>1. outcome = "none" /\ args \in Arguments /\ IsHere("pack", args, here)
      BY <2>1, <2>3 DEF Writing, RoundInv, WalkInv
    <3>2. /\ buf \in Seq(Nat) /\ opened \in Seq(DOMAIN Heap) /\ cut = 0 /\ marks \in Seq(Marks)
          /\ TraceOK(args, opened, buf, Len(buf), tr)
      BY <1>0, <2>3, <3>1 DEF PackInv
    <3>3. d \in Marks
      BY <2>3, <3>1, NowMarkIs
    <3>4. here.arg = Len(args) + 1
      <4>1. ~(here.arg <= Len(args))
        BY <2>1, <2>3 DEF AtValue
      <4>2. here.arg \in 1..(Len(args) + 1) /\ Len(args) \in Nat
        BY <3>1, ArgumentIs DEF IsHere, IsArgs
      <4> QED
        BY <4>1, <4>2
    <3>5. d.at = Len(buf) /\ d.here = here
      BY DEF NowMark
    <3> HIDE DEF d
    <3>6. tr \in Seq(Marks) /\ Len(tr) = Len(marks) + 1 /\ tr[Len(marks) + 1] = d
      BY <3>2, <3>3, AppendIs
    <3>7. ReadAt(args, opened, tr, 0, << >>, << >>, << >>)
      BY <3>1, <3>2, ReadBegins
    <3>8. marks' = tr
      BY <2>2 DEF d
    <3> HIDE DEF tr
    <3>9. EndsAt(args, opened, Len(buf), tr)
      BY <2>1, <3>4, <3>5, <3>6 DEF EndsAt
    <3>10. buf' = buf
      BY <2>2, <2>3, <3>2
    <3>11. Len(buf) + 0 = Len(buf)
      BY <3>2
    <3>12. reads' = << >> /\ made' = << >> /\ got' = << >> /\ pos' = 0 /\ view' = 0
      BY <1>0, <2>2, <3>1 DEF Unread, readVars
    <3>13. reading' = "none"
      <4>1. reading = "none"
        BY <3>1 DEF RoundInv, WalkInv
      <4> QED
        BY <2>2, <4>1 DEF readVars
    <3>14. job' = "pack" /\ outcome' = "done" /\ args' = args /\ opened' = opened /\ cut' = 0
      BY <2>1, <2>2, <2>3, <3>2
    <3>15. ReadInv'
      BY <3>2, <3>7, <3>8, <3>9, <3>10, <3>11, <3>12, <3>13, <3>14 DEF ReadInv
    <3> QED
      BY <3>14, <3>15 DEF RoundInv, PackInv
  <2>4. CASE job # "pack"
    BY <1>2, <2>1, <2>2, <2>4
  <2> QED
    BY <2>3, <2>4
<1> QED
  BY <1>1, <1>3, <1>4, <1>5, <1>6, <1>7

\* The steps of Cut, unpack and unpack_one.
LEMMA RoundReads ==
    ASSUME RoundInv, WalkInv',
           \/ Cut
           \/ \E call \in {"unpack", "unpack_one"} : Begin(call)
           \/ ReadTable \/ ReadValue \/ ReadFails \/ Seek \/ Unpacked
    PROVE  RoundInv'
<1> DEFINE top == Len(buf) + cut
<1>1. job = "pack" /\ outcome \in {"done", "invalid", "unpacked"} /\ args \in Arguments
  <2>1. job = "pack" /\ outcome = "done"
    <3>1. Cut \/ (\E call \in {"unpack", "unpack_one"} : Begin(call)) \/ reading # "none"
      BY DEF ReadTable, ReadValue, ReadFails, More, Seek, Unpacked
    <3>2. reading # "none" => outcome = "done" /\ job = "pack"
      BY DEF RoundInv, WalkInv
    <3> QED
      BY <3>1, <3>2 DEF Cut, Begin
  <2> QED
    BY <2>1 DEF RoundInv, WalkInv
<1>2. /\ buf \in Seq(Nat) /\ opened \in Seq(DOMAIN Heap) /\ cut \in Nat /\ pos \in Nat
      /\ TraceOK(args, opened, buf, top, marks) /\ EndsAt(args, opened, top, marks)
      /\ ReadAt(args, opened, marks, view, reads, made, got)
      /\ reading = "none" /\ outcome = "done" => view = pos
      /\ reading = "unpack_one" => pos < Len(buf)
      /\ outcome = "unpacked" /\ cut = 0 => Len(got) = Len(args)
      /\ outcome = "invalid" => cut > 0
  BY <1>1 DEF RoundInv, ReadInv
<1>3. Len(buf) \in Nat /\ top \in Nat /\ top >= Len(buf)
  BY <1>2
<1>4. view \in Nat /\ view <= top
  BY <1>1, <1>2, TraceIs DEF ReadAt
<1>5. ASSUME outcome' \in {"done", "invalid", "unpacked"}, job' = "pack", ReadInv'
      PROVE  RoundInv'
  BY <1>5 DEF RoundInv, PackInv
<1>6. reading # "none" => outcome = "done"
  BY DEF RoundInv, WalkInv
<1> HIDE DEF top
<1>7. CASE Cut
  <2>1. /\ outcome = "done" /\ reading = "none" /\ buf # << >> /\ cut' = cut + 1 /\ buf' = Front(buf)
        /\ UNCHANGED <<job, args, here, outcome, text, marks, opened, readVars>>
    BY <1>7 DEF Cut
  <2> DEFINE b2 == Front(buf)
  <2>2. b2 \in Seq(Nat) /\ Len(b2) = Len(buf) - 1
    BY <1>2, <2>1, TopIs
  <2>3. TraceOK(args, opened, b2, top, marks)
    BY <1>1, <1>2, <2>1, TraceCut
  <2> HIDE DEF b2
  <2>4. Len(b2) + (cut + 1) = top
    BY <1>2, <1>3, <2>2 DEF top
  <2>5. buf' = b2 /\ cut' = cut + 1 /\ cut + 1 \in Nat
    BY <1>2, <2>1 DEF b2
  <2>6. ReadInv'
    BY <1>2, <2>1, <2>2, <2>3, <2>4, <2>5 DEF ReadInv, readVars
  <2> QED
    BY <1>1, <1>5, <2>1, <2>6
<1>8. ASSUME NEW call \in {"unpack", "unpack_one"}, Begin(call)
      PROVE  RoundInv'
  <2>0. /\ outcome = "done" /\ reading = "none" /\ pos < Len(buf) /\ reading' # "none" /\ view' = pos
        /\ UNCHANGED <<writeVars, outcome, pos, reads, made, got>>
    BY <1>8 DEF Begin
  <2>1. /\ outcome = "done" /\ pos < Len(buf) /\ reading' # "none"
        /\ UNCHANGED <<writeVars, outcome, pos, view, reads, made, got>>
    BY <1>2, <2>0
  <2>2. ReadInv'
    BY <1>2, <2>1 DEF ReadInv, writeVars, top
  <2> QED
    BY <1>1, <1>5, <2>1, <2>2 DEF writeVars
<1>9. ASSUME More
      PROVE  /\ reading # "none"
             /\ \E m, n \in Marks :
                   /\ view = m.at /\ IsHere("pack", args, m.here) /\ MarkStep(args, opened, buf, m, n)
                   /\ Match(opened, args, m.here, m.tables, reads, made, got)
                   /\ n.at <= top
                   /\ \A rs2, md2, gt2 : Match(opened, args, n.here, n.tables, rs2, md2, gt2) =>
                                             ReadAt(args, opened, marks, n.at, rs2, md2, gt2)
  <2>1. reading # "none" /\ (reads # << >> \/ view < Len(buf))
    <3>1. reading = "unpack_one" /\ view = pos => view < Len(buf)
      BY <1>2
    <3> QED
      BY <1>9, <3>1 DEF More
  <2>2. /\ buf \in Seq(Nat) /\ TraceOK(args, opened, buf, top, marks)
        /\ EndsAt(args, opened, top, marks)
        /\ ReadAt(args, opened, marks, view, reads, made, got)
    BY <1>2
  <2>3. args \in Arguments /\ top \in Nat /\ top >= Len(buf) /\ (reads # << >> \/ view < Len(buf))
    BY <1>1, <1>3, <2>1
  <2>4. \E m, n \in Marks : ReadsOn(args, opened, buf, top, marks, m, n, view, reads, made, got)
    BY <2>2, <2>3, NextMark
  <2> QED
    BY <2>1, <2>4 DEF ReadsOn
<1>10. ASSUME Reading, ReadAt(args, opened, marks, view', reads', made', got'), reading # "none"
       PROVE  RoundInv'
  <2>1. outcome = "done" /\ UNCHANGED <<writeVars, outcome, reading, pos>>
    BY <1>6, <1>10 DEF Reading
  <2>2. ReadInv'
    BY <1>2, <1>10, <2>1 DEF ReadInv, writeVars, top
  <2> QED
    BY <1>1, <1>5, <2>1, <2>2 DEF writeVars
<1>11. CASE ReadTable
  <2> DEFINE r == Decoded(buf, view)
             g == [tab |-> Len(made) + 1, n |-> r.x.v[1], i |-> 1, key |-> Nil]
  <2>1. /\ More /\ r.ok /\ TypeOf(buf[view + 1]) = TYPE_TABLE
        /\ view' = r.p /\ made' = Append(made, {}) /\ reads' = Append(reads, g) /\ got' = got
        /\ Reading
    BY <1>11 DEF ReadTable
  <2> HIDE DEF r
  <2>2. PICK m \in Marks, n \in Marks :
            /\ view = m.at /\ IsHere("pack", args, m.here) /\ MarkStep(args, opened, buf, m, n)
            /\ Match(opened, args, m.here, m.tables, reads, made, got)
            /\ \A rs2, md2, gt2 : Match(opened, args, n.here, n.tables, rs2, md2, gt2) =>
                                      ReadAt(args, opened, marks, n.at, rs2, md2, gt2)
    BY <1>9, <2>1
  <2>3. r.p = n.at /\ Opens(args, m.here)
        /\ r.x.v[1] = Heap[Value("pack", args, m.here).v[1]].length
    BY <1>1, <1>2, <2>1, <2>2, DecodedAt DEF r
  <2>4. g = [tab |-> Len(made) + 1, n |-> Heap[Value("pack", args, m.here).v[1]].length,
             i |-> 1, key |-> Nil]
    BY <2>3
  <2> HIDE DEF g
  <2>5. Match(opened, args, n.here, n.tables, Append(reads, g), Append(made, {}), got)
    BY <1>1, <1>2, <2>2, <2>3, <2>4, TableStep
  <2>6. ReadAt(args, opened, marks, view', reads', made', got')
    BY <2>1, <2>2, <2>3, <2>5
  <2> QED
    BY <1>9, <1>10, <2>1, <2>6
<1>12. CASE ReadValue
  <2> DEFINE r == Decoded(buf, view)
             x == r.x
             ends == Ends(reads, x)
             rs == IF ends THEN Front(reads) ELSE reads
             y == IF ends THEN Ref(Last(reads).tab) ELSE x
  <2>1. /\ More /\ r.ok /\ TypeOf(buf[view + 1]) # TYPE_TABLE /\ view' = r.p
        /\ IF EndsTable(x) THEN Store(Front(reads), Ref(Last(reads).tab)) ELSE Store(reads, x)
        /\ Reading
    BY <1>12 DEF ReadValue
  <2>2. EndsTable(x) <=> ends
    BY DEF EndsTable, Ends
  <2> HIDE DEF r, x, ends
  <2>3. Store(rs, y)
    BY <2>1, <2>2
  <2>4. Stored(rs, made, got, y, reads', made', got')
    <3> HIDE DEF rs, y
    <3>1. CASE rs = << >>
      BY <2>3, <3>1 DEF Store, Stored
    <3>2. CASE rs # << >>
      <4> DEFINE f == Last(rs)
      <4>1. /\ \/ /\ f.i <= f.n
                  /\ made' = [made EXCEPT ![f.tab] = rawset(made[f.tab], Integer(f.i), y)]
                  /\ reads' = Append(Front(rs), [f EXCEPT !.i = f.i + 1])
               \/ /\ f.i > f.n /\ f.key # Nil
                  /\ made' = [made EXCEPT ![f.tab] = rawset(made[f.tab], f.key, y)]
                  /\ reads' = Append(Front(rs), [f EXCEPT !.key = Nil])
               \/ /\ f.i > f.n /\ f.key = Nil /\ made' = made
                  /\ reads' = Append(Front(rs), [f EXCEPT !.key = y])
            /\ got' = got
        BY <2>3, <3>2 DEF Store
      <4>2. f.i > f.n => ~(f.i <= f.n)
        <5>1. f \in ReadFrames
          <6>1. \E h, tables : Match(opened, args, h, tables, reads, made, got)
            BY <1>2 DEF ReadAt
          <6>2. reads \in Seq(ReadFrames)
            BY <6>1 DEF Match
          <6>3. rs \in Seq(ReadFrames)
            <7>1. CASE ~ends
              BY <6>2, <7>1 DEF rs
            <7>2. CASE ends
              <8>1. reads # << >>
                BY <7>2 DEF ends, Ends
              <8>2. Front(reads) \in Seq(ReadFrames)
                BY <6>2, <8>1, TopIs
              <8> QED
                BY <7>2, <8>2 DEF rs
            <7> QED
              BY <7>1, <7>2
          <6> QED
            BY <3>2, <6>3, TopIs
        <5>2. f.i \in Nat /\ f.n \in Nat
          BY <5>1 DEF ReadFrames
        <5> QED
          BY <5>2
      <4> HIDE DEF f
      <4>3. \E g : reads' = Append(Front(rs), g) /\ StoredIn(made, f, y, made', g)
        <5>1. CASE f.i <= f.n
          BY <4>1, <4>2, <5>1 DEF StoredIn
        <5>2. CASE ~(f.i <= f.n) /\ f.key # Nil
          BY <4>1, <4>2, <5>2 DEF StoredIn
        <5>3. CASE ~(f.i <= f.n) /\ f.key = Nil
          BY <4>1, <4>2, <5>3 DEF StoredIn
        <5> QED
          BY <5>1, <5>2, <5>3
      <4> QED
        BY <3>2, <4>1, <4>3 DEF Stored, f
    <3> QED
      BY <3>1, <3>2
  <2>5. IF Ends(reads, x) THEN Stored(Front(reads), made, got, Ref(Last(reads).tab), reads', made', got')
        ELSE Stored(reads, made, got, x, reads', made', got')
    BY <2>4 DEF ends
  <2> HIDE DEF rs, y
  <2>6. PICK m \in Marks, n \in Marks :
            /\ view = m.at /\ IsHere("pack", args, m.here) /\ MarkStep(args, opened, buf, m, n)
            /\ Match(opened, args, m.here, m.tables, reads, made, got)
            /\ \A rs2, md2, gt2 : Match(opened, args, n.here, n.tables, rs2, md2, gt2) =>
                                      ReadAt(args, opened, marks, n.at, rs2, md2, gt2)
    BY <1>9, <2>1
  <2>7. r.p = n.at /\ ~Opens(args, m.here)
        /\ r.x = IF AtValue("pack", args, m.here) THEN Value("pack", args, m.here) ELSE Nil
    BY <1>1, <1>2, <2>1, <2>6, DecodedAt DEF r
  <2>8. x = IF AtValue("pack", args, m.here) THEN Value("pack", args, m.here) ELSE Nil
    BY <2>7 DEF x
  <2> DEFINE rs2 == reads'
             md2 == made'
             gt2 == got'
  <2>9. IF Ends(reads, x) THEN Stored(Front(reads), made, got, Ref(Last(reads).tab), rs2, md2, gt2)
        ELSE Stored(reads, made, got, x, rs2, md2, gt2)
    BY <2>5
  <2> HIDE DEF rs2, md2, gt2
  <2>10. Match(opened, args, n.here, n.tables, rs2, md2, gt2)
    BY <1>1, <1>2, <2>6, <2>7, <2>8, <2>9, ValueStep
  <2>11. ReadAt(args, opened, marks, view', reads', made', got')
    BY <2>1, <2>6, <2>7, <2>10 DEF rs2, md2, gt2
  <2> QED
    BY <1>9, <1>10, <2>1, <2>11
<1>13. CASE ReadFails
  <2>1. /\ More /\ ~Decoded(buf, view).ok /\ outcome' = "invalid" /\ reading' = "none"
        /\ UNCHANGED <<writeVars, pos, view, reads, made, got>>
    BY <1>13 DEF ReadFails
  <2>2. PICK m \in Marks, n \in Marks :
            /\ view = m.at /\ IsHere("pack", args, m.here) /\ MarkStep(args, opened, buf, m, n)
            /\ n.at <= top
    BY <1>9, <2>1
  <2>3. ~(n.at <= Len(buf))
    BY <1>1, <1>2, <2>1, <2>2, DecodedAt
  <2>4. cut > 0
    <3>1. n.at \in Nat
      BY DEF Marks
    <3> QED
      BY <1>2, <1>3, <2>2, <2>3, <3>1 DEF top
  <2>5. ReadInv'
    BY <1>2, <2>1, <2>4 DEF ReadInv, writeVars, top
  <2> QED
    BY <1>1, <1>5, <2>1, <2>5 DEF writeVars
<1>14. CASE Seek
  <2>1. /\ pos' = pos + ((Len(buf) - pos) - (Len(buf) - view)) /\ reading' = "none"
        /\ UNCHANGED <<writeVars, outcome, view, reads, made, got>> /\ reading = "unpack_one"
    BY <1>14 DEF Seek
  <2>2. pos' = view
    BY <1>2, <1>3, <1>4, <2>1
  <2>3. outcome = "done"
    BY <1>6, <2>1
  <2>4. ReadInv'
    BY <1>2, <1>4, <2>1, <2>2, <2>3 DEF ReadInv, writeVars, top
  <2> QED
    BY <1>1, <1>5, <2>1, <2>4 DEF writeVars
<1>15. CASE Unpacked
  <2>1. /\ reading = "unpack" /\ ~More /\ outcome' = "unpacked" /\ reading' = "none"
        /\ UNCHANGED <<writeVars, pos, view, reads, made, got>>
    BY <1>15 DEF Unpacked
  <2>2. reads = << >> /\ ~(view < Len(buf))
    BY <2>1 DEF More
  <2>3. ASSUME cut = 0
        PROVE  Len(got) = Len(args)
    <3>1. top = Len(buf)
      BY <1>3, <2>3 DEF top
    <3>2. TraceOK(args, opened, buf, Len(buf), marks) /\ EndsAt(args, opened, Len(buf), marks)
      BY <1>2, <3>1
    <3> QED
      BY <1>1, <1>2, <2>2, <3>2, LastMark
  <2>4. ReadInv'
    BY <1>2, <2>1, <2>3 DEF ReadInv, writeVars, top
  <2> QED
    BY <1>1, <1>5, <2>1, <2>4 DEF writeVars
<1> QED
  BY <1>7, <1>8, <1>11, <1>12, <1>13, <1>14, <1>15

LEMMA RoundKeeps ==
    ASSUME RoundInv, [SerializeNext]_serializeVars
    PROVE  RoundInv'
<1>1. WalkInv'
  BY WalkKeeps DEF RoundInv
<1>2. CASE UNCHANGED serializeVars
  <2>1. PackInv' /\ ReadInv'
    BY <1>2 DEF RoundInv, PackInv, ReadInv, NowMark, serializeVars, writeVars, readVars
  <2> QED
    BY <1>1, <1>2, <2>1 DEF RoundInv, Unread, serializeVars, writeVars, readVars
<1>3. CASE \/ \E j \in {"pack", "concat"}, xs \in Arguments : Call(j, xs)
           \/ WriteValue \/ EnterTable \/ LeaveTable \/ Refuse \/ Return
  BY <1>1, <1>3, RoundPacks
<1>4. CASE \/ Cut
           \/ \E call \in {"unpack", "unpack_one"} : Begin(call)
           \/ ReadTable \/ ReadValue \/ ReadFails \/ Seek \/ Unpacked
  BY <1>1, <1>4, RoundReads
<1> QED
  BY <1>2, <1>3, <1>4 DEF SerializeNext

\* What is packed is unpacked as it was, value for value and table for table, by unpack and
\* by unpack_one, and of a stream that was cut only its beginning: for every base, for
\* every number of cookies that leaves one for a real, and for every heap.
THEOREM Restored == SerializeSpec => []RoundTrip
<1>1. SerializeInit => RoundInv
  BY RoundInit
<1>2. RoundInv /\ [SerializeNext]_serializeVars => RoundInv'
  BY RoundKeeps
<1>3. RoundInv => RoundTrip
  BY RoundImplies
<1> QED
  BY <1>1, <1>2, <1>3, PTL DEF SerializeSpec
=============================================================================
