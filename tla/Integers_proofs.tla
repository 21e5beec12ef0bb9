--------------------------- MODULE Integers_proofs ---------------------------
(***************************************************************************)
(* Induction over natural numbers in first-order form, for the proofs of   *)
(* the other modules, and what it gives for the folds that the             *)
(* specifications are written with: a fold over the positions 1..n of a    *)
(* sequence is the last value of a run that starts with the base and takes *)
(* one step per position.  And what they need of quotients and remainders. *)
(***************************************************************************)
EXTENDS Integers, FiniteSetsExt, WellFoundedInduction, TLAPS

\* Every set of natural numbers with an element has a least one.
LEMMA LeastElement ==
  ASSUME NEW S \in SUBSET Nat, S # {}
  PROVE  \E n \in S : \A m \in S : n <= m
<1> DEFINE R == {ss \in Nat \X Nat : ss[1] < ss[2]}
<1>1. IsWellFoundedOn(R, Nat)
  BY NatLessThanWellFounded DEF OpToRel
<1>2. \E x \in S : \A y \in S : ~(<<y, x>> \in R)
  <2> HIDE DEF R
  <2> QED
    BY <1>1, WFMin
<1>3. PICK x \in S : \A y \in S : ~(<<y, x>> \in R)
  BY <1>2
<1>4. ASSUME NEW y \in S
      PROVE  x <= y
  <2>1. x \in Nat /\ y \in Nat
    OBVIOUS
  <2>2. <<y, x>> \in Nat \X Nat
    BY <2>1
  <2>3. ~(<<y, x>>[1] < <<y, x>>[2])
    BY <1>3, <2>2
  <2> QED
    BY <2>1, <2>3
<1> QED
  BY <1>4

\* A set with 0 and with the successor, up to m, of each of its elements has all of 0..m.
LEMMA IntervalInduction ==
  ASSUME NEW m \in Nat, NEW S, 0 \in S, \A k \in 0..m - 1 : k \in S => k + 1 \in S
  PROVE  0..m \subseteq S
<1> DEFINE C == {k \in 0..m : k \notin S}
<1> SUFFICES ASSUME C # {}
             PROVE  FALSE
  OBVIOUS
<1>1. PICK n \in C : \A k \in C : n <= k
  <2>1. C \in SUBSET Nat
    OBVIOUS
  <2> HIDE DEF C
  <2> QED
    BY <2>1, LeastElement
<1>2. n # 0 /\ n \in 1..m
  OBVIOUS
<1>3. n - 1 \in 0..m - 1 /\ n - 1 + 1 = n
  BY <1>2
<1>4. n - 1 \in S
  BY <1>1, <1>2, <1>3
<1> QED
  BY <1>3, <1>4

\* The greatest element of a non-empty set of positions.
LEMMA MaxOfPositions ==
  ASSUME NEW n \in Nat, NEW s \in SUBSET (1..n), s # {}
  PROVE  Max(s) \in s /\ \A x \in s : x <= Max(s)
<1> DEFINE U == {k \in Nat : \A x \in s : x <= k}
<1>1. n \in U /\ U \in SUBSET Nat
  OBVIOUS
<1>2. PICK k \in U : \A j \in U : k <= j
  <2> HIDE DEF U
  <2> QED
    BY <1>1, LeastElement
<1>3. k \in Nat /\ \A x \in s : x <= k
  OBVIOUS
<1>4. k \in s
  <2>1. SUFFICES ASSUME k \notin s
                 PROVE  FALSE
    OBVIOUS
  <2>2. PICK y \in s : TRUE
    OBVIOUS
  <2>3. k # 0 /\ k - 1 \in Nat
    BY <1>3, <2>2
  <2>4. \A x \in s : x <= k - 1
    BY <1>3, <2>1
  <2>5. k - 1 \in U
    BY <2>3, <2>4
  <2> QED
    BY <1>2, <1>3, <2>3, <2>5
<1>5. \E x \in s : \A y \in s : x >= y
  BY <1>3, <1>4
<1>6. Max(s) \in s /\ \A y \in s : Max(s) >= y
  <2>1. (CHOOSE x \in s : \A y \in s : x >= y) \in s
        /\ \A y \in s : (CHOOSE x \in s : \A z \in s : x >= z) >= y
    BY <1>5, Zenon
  <2> QED
    BY <2>1 DEF Max
<1> QED
  BY <1>6

\* The greatest of the first k positions is the k-th, and the others are the ones before it.
LEMMA MaxOfFirst ==
  ASSUME NEW k \in Nat, k > 0
  PROVE  Max(1..k) = k /\ (1..k) \ {k} = 1..k - 1 /\ 1..k # {}
<1>1. 1..k # {} /\ 1..k \in SUBSET (1..k) /\ k \in 1..k
  OBVIOUS
<1>2. Max(1..k) \in 1..k /\ k <= Max(1..k)
  BY <1>1, MaxOfPositions
<1> QED
  BY <1>1, <1>2

\* g gives, for every set of positions, the value after the steps at its positions, in order,
\* from base.  Step k is the function G[k].
IsFold(g, n, T, base, G) ==
    /\ g \in [SUBSET (1..n) -> T]
    /\ \A s \in SUBSET (1..n) :
          g[s] = IF s = {} THEN base ELSE G[Max(s)][g[s \ {Max(s)}]]

\* There is such a fold.
LEMMA FoldExists ==
  ASSUME NEW n \in Nat, NEW T, NEW base \in T, NEW G \in [1..n -> [T -> T]]
  PROVE  \E g : IsFold(g, n, T, base, G)
<1> DEFINE Fold(g, k) == \A s \in SUBSET (1..k) :
                            g[s] = IF s = {} THEN base ELSE G[Max(s)][g[s \ {Max(s)}]]
           S == {k \in 0..n : \E g \in [SUBSET (1..k) -> T] : Fold(g, k)}
<1>1. 0 \in S
  <2> DEFINE g == [s \in SUBSET (1..0) |-> base]
  <2>1. \A s \in SUBSET (1..0) : s = {}
    OBVIOUS
  <2>2. g \in [SUBSET (1..0) -> T]
    OBVIOUS
  <2>3. Fold(g, 0)
    BY <2>1
  <2> HIDE DEF g
  <2>4. \E f \in [SUBSET (1..0) -> T] : Fold(f, 0)
    BY <2>2, <2>3
  <2>5. 0 \in 0..n
    OBVIOUS
  <2> HIDE DEF Fold
  <2> QED
    BY <2>4, <2>5
<1>2. ASSUME NEW k \in 0..n - 1, k \in S
      PROVE  k + 1 \in S
  <2>1. PICK g \in [SUBSET (1..k) -> T] : Fold(g, k)
    BY <1>2
  <2> DEFINE h == [s \in SUBSET (1..k + 1) |->
                      IF k + 1 \in s THEN G[k + 1][g[s \ {k + 1}]] ELSE g[s]]
  <2>2. k + 1 \in 1..n /\ k \in Nat
    OBVIOUS
  <2>3. ASSUME NEW s \in SUBSET (1..k + 1)
        PROVE  /\ s \ {k + 1} \in SUBSET (1..k)
               /\ k + 1 \notin s => s \in SUBSET (1..k)
    BY <2>2
  <2>4. h \in [SUBSET (1..k + 1) -> T]
    <3>1. ASSUME NEW s \in SUBSET (1..k + 1)
          PROVE  h[s] \in T
      BY <2>2, <2>3
    <3> QED
      BY <3>1
  <2>5. ASSUME NEW s \in SUBSET (1..k + 1)
        PROVE  h[s] = IF s = {} THEN base ELSE G[Max(s)][h[s \ {Max(s)}]]
    <3>1. CASE s = {}
      <4>1. s \in SUBSET (1..k) /\ k + 1 \notin s
        BY <3>1
      <4>2. h[s] = g[s]
        BY <4>1
      <4> QED
        BY <2>1, <3>1, <4>1, <4>2
    <3>2. CASE k + 1 \in s
      <4>1. Max(s) = k + 1
        <5>1. k + 1 \in Nat /\ s # {}
          BY <2>2, <3>2
        <5>2. Max(s) \in s /\ \A x \in s : x <= Max(s)
          BY <5>1, MaxOfPositions
        <5>3. Max(s) \in 1..k + 1 /\ k + 1 <= Max(s)
          BY <3>2, <5>2
        <5> QED
          BY <5>1, <5>3
      <4>2. h[s] = G[k + 1][g[s \ {k + 1}]]
        BY <3>2
      <4>3. s \ {k + 1} \in SUBSET (1..k + 1) /\ k + 1 \notin s \ {k + 1}
        OBVIOUS
      <4>4. h[s \ {k + 1}] = g[s \ {k + 1}]
        BY <4>3
      <4> QED
        BY <3>2, <4>1, <4>2, <4>4
    <3>3. CASE k + 1 \notin s /\ s # {}
      <4>1. s \in SUBSET (1..k) /\ s \ {Max(s)} \in SUBSET (1..k)
        BY <2>3, <3>3
      <4>2. h[s] = g[s] /\ h[s \ {Max(s)}] = g[s \ {Max(s)}]
        BY <3>3, <4>1
      <4> QED
        BY <2>1, <3>3, <4>1, <4>2
    <3> QED
      BY <3>1, <3>2, <3>3
  <2> HIDE DEF h
  <2>6. Fold(h, k + 1)
    BY <2>5
  <2>7. \E f \in [SUBSET (1..k + 1) -> T] : Fold(f, k + 1)
    BY <2>4, <2>6
  <2>8. k + 1 \in 0..n
    BY <2>2
  <2> HIDE DEF Fold
  <2> QED
    BY <2>7, <2>8
<1>3. n \in S
  <2> HIDE DEF S
  <2>1. 0..n \subseteq S
    BY <1>1, <1>2, IntervalInduction
  <2> QED
    BY <2>1
<1> QED
  BY <1>3 DEF IsFold

-----------------------------------------------------------------------------
(* Functions defined by recursion.                                         *)

\* g takes step after step from base, m of them.
IsRun(g, m, T, base, G) ==
    /\ g \in [0..m -> T] /\ g[0] = base
    /\ \A k \in 1..m : g[k] = G[k][g[k - 1]]

\* There is such a function.
LEMMA RunExists ==
  ASSUME NEW n \in Nat, NEW T, NEW base \in T, NEW G, \A k \in 1..n : G[k] \in [T -> T]
  PROVE  \E g : IsRun(g, n, T, base, G)
<1> DEFINE S == {m \in 0..n : \E g : IsRun(g, m, T, base, G)}
<1>1. 0 \in S
  <2> DEFINE g == [k \in 0..0 |-> base]
  <2>1. IsRun(g, 0, T, base, G)
    BY DEF IsRun
  <2> HIDE DEF g
  <2> QED
    BY <2>1
<1>2. ASSUME NEW m \in 0..n - 1, m \in S
      PROVE  m + 1 \in S
  <2>1. PICK g : IsRun(g, m, T, base, G)
    BY <1>2
  <2>2. m + 1 \in 1..n /\ m \in Nat /\ m \in 0..m /\ g[m] \in T
    BY <2>1 DEF IsRun
  <2> DEFINE h == [k \in 0..m + 1 |-> IF k = m + 1 THEN G[m + 1][g[m]] ELSE g[k]]
  <2>3. h[m + 1] = G[m + 1][g[m]] /\ \A k \in 0..m : h[k] = g[k]
    BY <2>2
  <2>4. h \in [0..m + 1 -> T]
    BY <2>1, <2>2 DEF IsRun
  <2> HIDE DEF h
  <2>5. ASSUME NEW k \in 1..m + 1
        PROVE  h[k] = G[k][h[k - 1]]
    <3>1. CASE k = m + 1
      BY <2>2, <2>3, <3>1
    <3>2. CASE k # m + 1
      <4>1. k \in 1..m /\ k \in 0..m /\ k - 1 \in 0..m
        BY <2>2, <3>2
      <4> QED
        BY <2>1, <2>3, <4>1 DEF IsRun
    <3> QED
      BY <3>1, <3>2
  <2>6. h[0] = base
    BY <2>1, <2>2, <2>3 DEF IsRun
  <2>7. IsRun(h, m + 1, T, base, G)
    BY <2>4, <2>5, <2>6 DEF IsRun
  <2> QED
    BY <2>2, <2>7
<1>3. 0..n \subseteq S
  <2> HIDE DEF S
  <2> QED
    BY <1>1, <1>2, IntervalInduction
<1> QED
  BY <1>3

\* Two of them agree as far as both go.
LEMMA RunsAgree ==
  ASSUME NEW m \in Nat, NEW n \in Nat, m <= n, NEW T, NEW base, NEW G, NEW g, NEW h,
         IsRun(g, m, T, base, G), IsRun(h, n, T, base, G)
  PROVE  \A k \in 0..m : g[k] = h[k]
<1> DEFINE S == {k \in 0..m : g[k] = h[k]}
<1>1. 0 \in S
  BY DEF IsRun
<1>2. ASSUME NEW k \in 0..m - 1, k \in S
      PROVE  k + 1 \in S
  <2>1. k + 1 \in 1..m /\ k + 1 \in 1..n /\ (k + 1) - 1 = k /\ k + 1 \in 0..m
    OBVIOUS
  <2>2. g[k + 1] = G[k + 1][g[k]] /\ h[k + 1] = G[k + 1][h[k]]
    BY <2>1 DEF IsRun
  <2> QED
    BY <1>2, <2>1, <2>2
<1> HIDE DEF S
<1>3. 0..m \subseteq S
  BY <1>1, <1>2, IntervalInduction
<1> QED
  BY <1>3 DEF S

\* The steps, and a function that takes them all.
AreSteps(G, T) == \A k \in Nat \ {0} : G[k] \in [T -> T]
Takes(g, T, base, G) ==
    g \in [Nat -> T] /\ g[0] = base /\ \A k \in Nat \ {0} : g[k] = G[k][g[k - 1]]

\* A function on all natural numbers can be defined by recursion.
LEMMA Recursion ==
  ASSUME NEW T, NEW base \in T, NEW G, AreSteps(G, T)
  PROVE  \E g : Takes(g, T, base, G)
<1> DEFINE r == [m \in Nat |-> CHOOSE g : IsRun(g, m, T, base, G)]
           f == [m \in Nat |-> r[m][m]]
<1>1. ASSUME NEW m \in Nat
      PROVE  IsRun(r[m], m, T, base, G)
  <2>1. \E g : IsRun(g, m, T, base, G)
    BY RunExists DEF AreSteps
  <2> QED
    BY <2>1
<1> HIDE DEF r
<1>2. ASSUME NEW m \in Nat
      PROVE  f[m] \in T
  BY <1>1 DEF IsRun
<1>3. f[0] = base
  BY <1>1 DEF IsRun
<1>4. ASSUME NEW k \in Nat \ {0}
      PROVE  f[k] = G[k][f[k - 1]]
  <2> DEFINE j == k - 1
  <2>1. j \in Nat /\ j <= k /\ j \in 0..j /\ k \in 1..k /\ k \in Nat
    OBVIOUS
  <2>2. IsRun(r[k], k, T, base, G) /\ IsRun(r[j], j, T, base, G)
    BY <1>1, <2>1
  <2> HIDE DEF j
  <2>3. r[j][j] = r[k][j]
    BY <2>1, <2>2, RunsAgree
  <2>4. r[k][k] = G[k][r[k][j]]
    BY <2>1, <2>2 DEF IsRun, j
  <2> QED
    BY <2>1, <2>3, <2>4 DEF j
<1>5. f \in [Nat -> T]
  BY <1>2
<1> HIDE DEF f
<1>6. Takes(f, T, base, G)
  BY <1>3, <1>4, <1>5 DEF Takes
<1> QED
  BY <1>6

-----------------------------------------------------------------------------
(* Quotients and remainders.                                               *)

\* A number has one quotient and one remainder.
LEMMA Division ==
  ASSUME NEW b \in Nat, b > 0, NEW x \in Int
  PROVE  x \div b \in Int /\ x % b \in 0..b - 1 /\ x = b * (x \div b) + (x % b)
  OBVIOUS

\* A quotient and a remainder that fit are the ones.
LEMMA DivisionIs ==
  ASSUME NEW b \in Nat, b > 0, NEW x \in Int, NEW q \in Int, NEW r \in 0..b - 1, x = b * q + r
  PROVE  x \div b = q /\ x % b = r
<1> DEFINE d == x \div b
           y == x % b
<1>1. d \in Int /\ y \in 0..b - 1 /\ x = b * d + y
  BY Division
<1> HIDE DEF d, y
<1>2. q = d
  BY <1>1
<1>3. r = y
  BY <1>1, <1>2
<1> QED
  BY <1>2, <1>3 DEF d, y

\* Multiples do not change a remainder.
LEMMA Shifted ==
  ASSUME NEW b \in Nat, b > 0, NEW x \in Int, NEW q \in Int
  PROVE  (x + b * q) \div b = (x \div b) + q /\ (x + b * q) % b = x % b
<1> DEFINE d == x \div b
           y == x % b
<1>1. d \in Int /\ y \in 0..b - 1 /\ x = b * d + y
  BY Division
<1> HIDE DEF d, y
<1>2. x + b * q = b * (d + q) + y /\ d + q \in Int /\ x + b * q \in Int
  BY <1>1
<1>3. (x + b * q) \div b = d + q /\ (x + b * q) % b = y
  BY <1>1, <1>2, DivisionIs
<1> QED
  BY <1>3 DEF d, y

\* A remainder may be taken before an addition.
LEMMA RemainderOfSum ==
  ASSUME NEW b \in Nat, b > 0, NEW x \in Int, NEW y \in Int
  PROVE  ((x % b) + y) % b = (x + y) % b
<1> DEFINE d == x \div b
           r == x % b
<1>1. d \in Int /\ r \in 0..b - 1 /\ x = b * d + r
  BY Division
<1> HIDE DEF d, r
<1>2. x + y = (r + y) + b * d /\ r + y \in Int
  BY <1>1
<1>3. ((r + y) + b * d) % b = (r + y) % b
  BY <1>1, <1>2, Shifted
<1> QED
  BY <1>2, <1>3 DEF r

-----------------------------------------------------------------------------
(* Congruences.                                                            *)

Cong(m, a, b) == \E q \in Int : a = b + m * q

\* Congruence is an equivalence.
LEMMA CongRefl == ASSUME NEW m \in Int, NEW a \in Int PROVE Cong(m, a, a)
<1>1. a = a + m * 0
  OBVIOUS
<1> QED
  BY <1>1 DEF Cong

\* Congruence is symmetric.
LEMMA CongSym == ASSUME NEW m \in Int, NEW a \in Int, NEW b \in Int, Cong(m, a, b) PROVE Cong(m, b, a)
<1>1. PICK q \in Int : a = b + m * q
  BY DEF Cong
<1>2. b = a + m * (-q) /\ -q \in Int
  BY <1>1
<1> QED
  BY <1>2 DEF Cong

\* Congruence is transitive.
LEMMA CongTrans ==
  ASSUME NEW m \in Int, NEW a \in Int, NEW b \in Int, NEW c \in Int, Cong(m, a, b), Cong(m, b, c)
  PROVE  Cong(m, a, c)
<1>1. PICK q \in Int : a = b + m * q
  BY DEF Cong
<1>2. PICK r \in Int : b = c + m * r
  BY DEF Cong
<1>3. a = c + m * (r + q) /\ r + q \in Int
  BY <1>1, <1>2
<1> QED
  BY <1>3 DEF Cong

\* Sums and differences of congruent numbers are congruent.
LEMMA CongSum ==
  ASSUME NEW m \in Int, NEW a \in Int, NEW b \in Int, NEW c \in Int, NEW d \in Int,
         Cong(m, a, b), Cong(m, c, d)
  PROVE  Cong(m, a + c, b + d) /\ Cong(m, a - c, b - d)
<1>1. PICK q \in Int : a = b + m * q
  BY DEF Cong
<1>2. PICK r \in Int : c = d + m * r
  BY DEF Cong
<1>3. a + c = (b + d) + m * (q + r) /\ q + r \in Int /\ a - c = (b - d) + m * (q - r) /\ q - r \in Int
  BY <1>1, <1>2
<1> QED
  BY <1>3 DEF Cong

\* So are products with one number.
LEMMA CongTimes ==
  ASSUME NEW m \in Int, NEW a \in Int, NEW b \in Int, NEW c \in Int, Cong(m, a, b)
  PROVE  Cong(m, a * c, b * c) /\ Cong(m, c * a, c * b)
<1>1. PICK q \in Int : a = b + m * q
  BY DEF Cong
<1>2. (m * q) * c = m * (q * c) /\ q * c \in Int /\ (b + m * q) * c = b * c + (m * q) * c
  BY <1>1
<1>3. a * c = b * c + m * (q * c) /\ c * a = a * c /\ c * b = b * c
  BY <1>1, <1>2
<1> QED
  BY <1>2, <1>3 DEF Cong

\* And products of congruent numbers.
LEMMA CongProduct ==
  ASSUME NEW m \in Int, NEW a \in Int, NEW b \in Int, NEW c \in Int, NEW d \in Int,
         Cong(m, a, b), Cong(m, c, d)
  PROVE  Cong(m, a * c, b * d)
<1>1. Cong(m, a * c, b * c)
  BY CongTimes
<1>2. Cong(m, b * c, b * d)
  BY CongTimes
<1>3. a * c \in Int /\ b * c \in Int /\ b * d \in Int
  OBVIOUS
<1> QED
  BY <1>1, <1>2, <1>3, CongTrans

\* A remainder is congruent to the number.
LEMMA CongRemainder ==
  ASSUME NEW m \in Nat, m > 0, NEW a \in Int
  PROVE  a % m \in 0..m - 1 /\ Cong(m, a % m, a) /\ Cong(m, a, a % m)
<1>1. a \div m \in Int /\ a % m \in 0..m - 1 /\ a = m * (a \div m) + (a % m)
  BY Division
<1> DEFINE d == a \div m
           r == a % m
<1>2. d \in Int /\ r \in 0..m - 1 /\ a = r + m * d
  BY <1>1
<1> HIDE DEF d, r
<1>3. Cong(m, a, r)
  BY <1>2 DEF Cong
<1>4. Cong(m, r, a)
  BY <1>2, <1>3, CongSym
<1> QED
  BY <1>2, <1>3, <1>4 DEF r

\* Remainders that are congruent are the same.
LEMMA CongUnique ==
  ASSUME NEW m \in Nat, m > 0, NEW a \in 0..m - 1, NEW b \in 0..m - 1, Cong(m, a, b)
  PROVE  a = b
<1>1. PICK q \in Int : a = b + m * q
  BY DEF Cong
<1>2. CASE q = 0
  BY <1>1, <1>2
<1>3. CASE q >= 1
  <2>1. m * q >= m
    BY <1>3
  <2> QED
    BY <1>1, <2>1
<1>4. CASE q <= -1
  <2>1. m * q <= -m
    BY <1>4
  <2> QED
    BY <1>1, <2>1
<1> QED
  BY <1>2, <1>3, <1>4

\* Congruent numbers have the same remainder.
LEMMA CongSame ==
  ASSUME NEW m \in Nat, m > 0, NEW a \in Int, NEW b \in Int, Cong(m, a, b)
  PROVE  a % m = b % m
<1> DEFINE r == a % m
           s == b % m
<1>1. r \in 0..m - 1 /\ s \in 0..m - 1 /\ Cong(m, r, a) /\ Cong(m, b, s)
  BY CongRemainder
<1> HIDE DEF r, s
<1>2. r \in Int /\ s \in Int
  BY <1>1
<1>3. Cong(m, r, b)
  BY <1>1, <1>2, CongTrans
<1>4. Cong(m, r, s)
  BY <1>1, <1>2, <1>3, CongTrans
<1> QED
  BY <1>1, <1>4, CongUnique DEF r, s
=============================================================================
