-------------------------- MODULE Montgomery_proofs --------------------------
(***************************************************************************)
(* The arithmetic of Montgomery is exact, whatever the size of a word: by  *)
(* any sequence of operations.  An element x stands for an integer n when  *)
(* x and n * R are congruent modulo p.                                     *)
(***************************************************************************)
EXTENDS Montgomery, Integers_proofs

-----------------------------------------------------------------------------
(* One row of words.                                                       *)

Word == 0..B - 1

\* A sum and its word and carry.
LEMMA WordCarry ==
  ASSUME NEW t \in Nat
  PROVE  lo(t) \in Word /\ hi(t) \in Nat /\ t = lo(t) + B * hi(t)
<1>1. t \div B \in Int /\ t % B \in 0..B - 1 /\ t = B * (t \div B) + (t % B)
  BY Division, WordAssumption
<1> DEFINE d == t \div B
           r == t % B
<1>2. d \in Int /\ r \in 0..B - 1 /\ t = r + B * d /\ B \in Nat /\ B > 1
  BY <1>1, WordAssumption
<1> HIDE DEF d, r
<1>3. d >= 0
  <2> SUFFICES ASSUME d <= -1 PROVE FALSE
    BY <1>2
  <2>1. B * d <= -B
    BY <1>2
  <2> QED
    BY <1>2, <2>1
<1> QED
  BY <1>2, <1>3 DEF lo, hi, Word, d, r

\* Two words: the lower and the higher word of an integer.
LEMMA WordsOf ==
  ASSUME NEW v \in 0..B * B - 1
  PROVE  lo(v) \in Word /\ hi(v) \in Word /\ v = lo(v) + B * hi(v)
<1>1. v \in Nat /\ B \in Nat /\ B > 1
  BY WordAssumption
<1>2. lo(v) \in Word /\ hi(v) \in Nat /\ v = lo(v) + B * hi(v)
  BY <1>1, WordCarry
<1> DEFINE d == hi(v)
<1>3. d < B
  <2> HIDE DEF d
  <2> SUFFICES ASSUME d >= B PROVE FALSE
    BY <1>1, <1>2 DEF d
  <2>1. B * d >= B * B
    BY <1>1, <1>2 DEF d
  <2>2. v = lo(v) + B * d /\ lo(v) >= 0 /\ lo(v) \in Int /\ B * d \in Int /\ B * B \in Int
    BY <1>1, <1>2 DEF d, Word
  <2>3. v < B * B
    BY <2>2
  <2> QED
    BY <1>1, <2>1, <2>2, <2>3
<1> QED
  BY <1>1, <1>2, <1>3 DEF Word

\* What the words of a row stand for.  The sum in word k and the carry out of it.
Term(zz, a, w, at, k) == zz[k] + (IF k - at + 1 \in DOMAIN a THEN a[k - at + 1] * w ELSE 0)

\* c has the carries of a row.
IsCarry(c, zz, a, w, at) ==
    /\ c \in [0..Len(zz) -> Nat]
    /\ \A k \in 0..Len(zz) :
          c[k] = IF k < at THEN 0 ELSE hi(Term(zz, a, w, at, k) + c[k - 1])

\* What add_row is called with, and what it returns when c has the carries.
RowArgs(zz, a, w, at) == zz \in Seq(Nat) /\ a \in Seq(Nat) /\ w \in Nat /\ at \in 1..Len(zz)
RowWith(c, zz, a, w, at) ==
    [zz |-> [k \in 1..Len(zz) |-> IF k < at THEN zz[k] ELSE lo(Term(zz, a, w, at, k) + c[k - 1])],
     carry |-> c[Len(zz)]]

\* Every row has carries, and add_row computes with them.
LEMMA RowIs ==
  ASSUME NEW zz, NEW a, NEW w, NEW at, RowArgs(zz, a, w, at)
  PROVE  \E c : IsCarry(c, zz, a, w, at) /\ add_row(zz, a, w, at) = RowWith(c, zz, a, w, at)
<1> DEFINE l == Len(zz)
           o == Len(a)
<1>1. /\ Len(zz) = l /\ DOMAIN a = 1..o /\ l \in Nat /\ o \in Nat /\ zz \in [1..l -> Nat]
      /\ a \in [1..o -> Nat] /\ w \in Nat /\ at \in Nat /\ at > 0
  BY DEF RowArgs
<1> HIDE DEF l, o
<1> DEFINE G == [k \in 1..l |-> [v \in Nat |-> IF k < at THEN 0 ELSE hi(Term(zz, a, w, at, k) + v)]]
           Body(c, k) == IF k < at THEN 0 ELSE hi(Term(zz, a, w, at, k) + c[k - 1])
           Is(c) == c = [k \in 0..Len(zz) |-> Body(c, k)]
<1>2. ASSUME NEW k \in 1..l
      PROVE  Term(zz, a, w, at, k) \in Nat
  <2>1. CASE k - at + 1 \in DOMAIN a
    <3>1. a[k - at + 1] \in Nat
      BY <1>1, <2>1
    <3>2. a[k - at + 1] * w \in Nat
      BY <1>1, <3>1
    <3> QED
      BY <1>1, <2>1, <3>2 DEF Term
  <2>2. CASE k - at + 1 \notin DOMAIN a
    BY <1>1, <2>2 DEF Term
  <2> QED
    BY <2>1, <2>2
<1>3. ASSUME NEW k \in 1..l, NEW v \in Nat
      PROVE  hi(Term(zz, a, w, at, k) + v) \in Nat
  <2>1. ASSUME NEW t \in Nat PROVE hi(t) \in Nat
    BY WordCarry
  <2>2. Term(zz, a, w, at, k) + v \in Nat
    BY <1>2
  <2> QED
    BY <2>1, <2>2
<1>4. \A k \in 1..l : G[k] \in [Nat -> Nat]
  BY <1>3
<1>5. PICK c : IsRun(c, l, Nat, 0, G)
  <2> HIDE DEF G
  <2> QED
    BY <1>1, <1>4, RunExists
<1>6. Is(c)
  <2>1. c \in [0..l -> Nat] /\ c[0] = 0
    BY <1>5 DEF IsRun
  <2>2. ASSUME NEW k \in 1..l
        PROVE  c[k] = Body(c, k)
    <3>1. c[k] = G[k][c[k - 1]]
      <4> HIDE DEF G
      <4> QED
        BY <1>5 DEF IsRun
    <3>2. c[k - 1] \in Nat
      BY <1>1, <2>1
    <3> QED
      BY <3>1, <3>2
  <2>3. \A k \in 0..l : c[k] = Body(c, k)
    BY <1>1, <2>1, <2>2
  <2> HIDE DEF Body
  <2> QED
    BY <1>1, <2>1, <2>3
<1> DEFINE e == CHOOSE c2 : Is(c2)
<1>7. Is(e)
  <2> HIDE DEF Is
  <2> QED
    BY <1>6
<1>8. e \in [0..l -> Nat]
  <2> DEFINE S == {k \in 0..l : e[k] \in Nat}
  <2>1. 0 \in S
    <3>1. 0 \in 0..Len(zz) /\ 0 < at
      BY <1>1
    <3>2. e[0] = Body(e, 0)
      <4> HIDE DEF e, Body
      <4> QED
        BY <1>7, <3>1
    <3> HIDE DEF e
    <3> QED
      BY <1>1, <3>1, <3>2
  <2>2. ASSUME NEW k \in 0..l - 1, k \in S
        PROVE  k + 1 \in S
    <3>1. k + 1 \in 1..l /\ (k + 1) - 1 = k /\ e[k] \in Nat /\ k + 1 \in 0..Len(zz)
      BY <1>1, <2>2
    <3>2. e[k + 1] = Body(e, k + 1)
      BY <1>7, <3>1
    <3>3. hi(Term(zz, a, w, at, k + 1) + e[k]) \in Nat
      BY <1>3, <3>1
    <3> QED
      BY <3>1, <3>2, <3>3
  <2>3. 0..l \subseteq S
    <3> HIDE DEF S
    <3> QED
      BY <1>1, <2>1, <2>2, IntervalInduction
  <2>4. DOMAIN e = 0..l /\ e = [k \in 0..l |-> e[k]]
    BY <1>1, <1>7
  <2> QED
    BY <2>3, <2>4
<1>9. IsCarry(e, zz, a, w, at)
  BY <1>1, <1>7, <1>8 DEF IsCarry
<1>10. add_row(zz, a, w, at) = RowWith(e, zz, a, w, at)
  BY DEF add_row, Term, RowWith
<1> HIDE DEF e
<1> QED
  BY <1>9, <1>10

\* Word k of a row r with the carries c.
WordHas(r, c, zz, a, w, at, k) ==
    LET t == Term(zz, a, w, at, k) + c[k - 1]
    IN  /\ r.zz[k] = lo(t) /\ lo(t) \in Word /\ c[k] \in Nat /\ t = lo(t) + B * c[k]

\* All of it.
RowHas(r, c, zz, a, w, at) ==
    /\ r.carry = c[Len(zz)] /\ c[at - 1] = 0 /\ DOMAIN r.zz = 1..Len(zz)
    /\ r.zz = [k \in 1..Len(zz) |-> r.zz[k]]
    /\ \A k \in 1..Len(zz) :
          IF k < at THEN r.zz[k] = zz[k] ELSE WordHas(r, c, zz, a, w, at, k)

\* Every row does.
LEMMA Row ==
  ASSUME NEW zz, NEW a, NEW w, NEW at, RowArgs(zz, a, w, at)
  PROVE  \E c : RowHas(add_row(zz, a, w, at), c, zz, a, w, at)
<1> DEFINE r == add_row(zz, a, w, at)
<1>1. PICK c : IsCarry(c, zz, a, w, at) /\ r = RowWith(c, zz, a, w, at)
  BY RowIs
<1> HIDE DEF r
<1> DEFINE l == Len(zz)
           o == Len(a)
<1>2. /\ Len(zz) = l /\ DOMAIN a = 1..o /\ l \in Nat /\ o \in Nat /\ zz \in [1..l -> Nat]
      /\ a \in [1..o -> Nat] /\ w \in Nat /\ at \in Nat /\ at > 0 /\ at \in 1..l
  BY DEF RowArgs
<1>3. /\ r.carry = c[l] /\ r.zz = [k \in 1..l |-> r.zz[k]] /\ DOMAIN r.zz = 1..l
      /\ \A k \in 1..l :
            r.zz[k] = IF k < at THEN zz[k] ELSE lo(Term(zz, a, w, at, k) + c[k - 1])
  BY <1>1 DEF RowWith
<1>4. c[at - 1] = 0
  BY <1>1, <1>2 DEF IsCarry
<1> HIDE DEF l, o
<1>5. ASSUME NEW k \in 1..l, at <= k
      PROVE  WordHas(r, c, zz, a, w, at, k)
  <2>1. zz[k] \in Nat /\ k - 1 \in 0..l /\ k \in 0..l /\ ~(k < at) /\ k \in Nat
    BY <1>2, <1>5
  <2>2. c[k - 1] \in Nat /\ c[k] = hi(Term(zz, a, w, at, k) + c[k - 1])
    BY <1>1, <1>2, <2>1 DEF IsCarry
  <2>3. Term(zz, a, w, at, k) \in Nat
    <3>1. CASE k - at + 1 \in DOMAIN a
      <4>1. a[k - at + 1] \in Nat
        BY <1>2, <3>1
      <4>2. a[k - at + 1] * w \in Nat
        BY <1>2, <4>1
      <4> QED
        BY <2>1, <3>1, <4>2 DEF Term
    <3>2. CASE k - at + 1 \notin DOMAIN a
      BY <2>1, <3>2 DEF Term
    <3> QED
      BY <3>1, <3>2
  <2> DEFINE t == Term(zz, a, w, at, k) + c[k - 1]
  <2>4. t \in Nat /\ c[k] = hi(t) /\ r.zz[k] = lo(t)
    BY <1>3, <2>1, <2>2, <2>3
  <2> HIDE DEF t
  <2>5. lo(t) \in Word /\ hi(t) \in Nat /\ t = lo(t) + B * hi(t)
    BY <2>4, WordCarry
  <2> QED
    BY <2>4, <2>5 DEF WordHas, t
<1>6. \A k \in 1..l : IF k < at THEN r.zz[k] = zz[k] ELSE WordHas(r, c, zz, a, w, at, k)
  BY <1>2, <1>3, <1>5
<1>7. RowHas(r, c, zz, a, w, at)
  BY <1>2, <1>3, <1>4, <1>6 DEF RowHas
<1> QED
  BY <1>7 DEF r

\* The digit z and the carry c are what becomes of s; with the carry, the digits after it are
\* out, and top above them.
Splits(s, z, c) == s \in Nat /\ z \in Nat /\ c \in Nat /\ s = z + B * c
Sums(c, rest, out, top) == rest \in Nat /\ out \in Nat /\ top \in Nat /\ rest + c = out + top

\* One digit more in front of a sum with carries.
LEMMA Digit ==
  ASSUME NEW s, NEW z, NEW c, Splits(s, z, c), NEW rest, NEW out, NEW top, Sums(c, rest, out, top)
  PROVE  s + B * rest = (z + B * out) + B * top
<1>1. B \in Nat /\ s \in Nat /\ z \in Nat /\ c \in Nat /\ s = z + B * c
      /\ rest \in Nat /\ out \in Nat /\ top \in Nat /\ c + rest = out + top
  BY WordAssumption DEF Splits, Sums
<1>2. B * (c + rest) = B * c + B * rest /\ B * (out + top) = B * out + B * top
  BY <1>1
<1>3. B * c \in Nat /\ B * rest \in Nat /\ B * out \in Nat /\ B * top \in Nat
  BY <1>1
<1> QED
  BY <1>1, <1>2, <1>3

\* The integers that two words and four words stand for.
Two(zz) == zz[1] + B * zz[2]
Four(zz) == zz[1] + B * (zz[2] + B * (zz[3] + B * zz[4]))

\* A row of one word.
LEMMA RowOfOne ==
  ASSUME NEW zz \in [1..2 -> Word], NEW w \in Nat, NEW a \in [1..1 -> Word]
  PROVE  LET r == add_row(zz, a, w, 1)
         IN  /\ r.zz \in [1..2 -> Word] /\ r.carry \in Nat
             /\ r.zz[1] = (zz[1] + a[1] * w) % B
             /\ Two(zz) + a[1] * w = Two(r.zz) + B * (B * r.carry)
<1>1. /\ B \in Nat /\ B > 1 /\ Len(zz) = 2 /\ RowArgs(zz, a, w, 1)
      /\ zz[1] \in Nat /\ zz[2] \in Nat /\ a[1] \in Nat /\ DOMAIN a = 1..1
  <2>1. zz \in [1..2 -> Nat] /\ a \in [1..1 -> Nat] /\ B \in Nat /\ B > 1
    BY WordAssumption DEF Word
  <2>2. ASSUME NEW l \in Nat, NEW q \in [1..l -> Nat]
        PROVE  q \in Seq(Nat) /\ Len(q) = l
    OBVIOUS
  <2>3. zz \in Seq(Nat) /\ a \in Seq(Nat) /\ Len(zz) = 2
    BY <2>1, <2>2
  <2> QED
    BY <2>1, <2>3 DEF RowArgs
<1> DEFINE r == add_row(zz, a, w, 1)
           m == a[1] * w
           z1 == zz[1]
           z2 == zz[2]
           t1 == Term(zz, a, w, 1, 1)
           t2 == Term(zz, a, w, 1, 2)
<1>2. PICK c : RowHas(r, c, zz, a, w, 1)
  BY <1>1, Row
<1> HIDE DEF r
<1>3. WordHas(r, c, zz, a, w, 1, 1) /\ WordHas(r, c, zz, a, w, 1, 2) /\ c[0] = 0
  BY <1>1, <1>2 DEF RowHas
<1>4. r.carry = c[2] /\ r.zz = [k \in 1..2 |-> r.zz[k]]
  BY <1>1, <1>2 DEF RowHas
<1>5. t1 = z1 + m /\ t2 = z2 /\ m \in Nat /\ z1 \in Nat /\ z2 \in Nat
  <2>1. m \in Nat
    BY <1>1
  <2> QED
    BY <1>1, <2>1 DEF Term
<1> HIDE DEF t1, t2, m, z1, z2
<1>6. /\ r.zz[1] = lo(t1 + c[0]) /\ lo(t1 + c[0]) \in Word /\ c[1] \in Nat
      /\ t1 + c[0] = lo(t1 + c[0]) + B * c[1]
  BY <1>3 DEF WordHas, t1
<1>7. /\ r.zz[2] = lo(t2 + c[1]) /\ lo(t2 + c[1]) \in Word /\ c[2] \in Nat
      /\ t2 + c[1] = lo(t2 + c[1]) + B * c[2]
  BY <1>3 DEF WordHas, t2
<1> DEFINE r1 == r.zz[1]
           r2 == r.zz[2]
           c1 == c[1]
           c2 == c[2]
<1>8. /\ r1 \in Word /\ r2 \in Word /\ c1 \in Nat /\ c2 \in Nat /\ r1 = (z1 + m) % B
      /\ z1 + m = r1 + B * c1 /\ z2 + c1 = r2 + B * c2
  BY <1>3, <1>5, <1>6, <1>7 DEF lo
<1>9. r.zz \in [1..2 -> Word]
  BY <1>4, <1>8
<1> HIDE DEF r1, r2, c1, c2
<1>10. t1 + B * z2 = (r1 + B * r2) + B * (B * c2)
  <2> DEFINE top == B * c2
  <2>1. top \in Nat /\ r1 \in Nat /\ r2 \in Nat /\ t1 \in Nat
    BY <1>1, <1>5, <1>8 DEF Word
  <2>2. Splits(t1, r1, c1) /\ Sums(c1, z2, r2, top)
    BY <1>5, <1>8, <2>1 DEF Splits, Sums
  <2> HIDE DEF top
  <2>3. t1 + B * z2 = (r1 + B * r2) + B * top
    BY <2>2, Digit
  <2> QED
    BY <2>3 DEF top
<1>11. Two(zz) + m = t1 + B * z2
  <2>1. B * z2 \in Nat /\ Two(zz) = z1 + B * z2
    BY <1>1, <1>5 DEF Two, z1, z2
  <2> QED
    BY <1>5, <2>1
<1>12. Two(r.zz) = r1 + B * r2
  BY DEF Two, r1, r2
<1>13. Two(zz) + m = Two(r.zz) + B * (B * r.carry)
  BY <1>4, <1>10, <1>11, <1>12 DEF c2
<1> QED
  BY <1>4, <1>8, <1>9, <1>13 DEF r, r1, c2, m, z1

\* The same, with the carry into the digit.
LEMMA DigitSums ==
  ASSUME NEW v \in Nat, NEW b \in Nat, NEW z, NEW c, Splits(v + b, z, c),
         NEW rest, NEW out, NEW top, Sums(c, rest, out, top)
  PROVE  Sums(b, v + B * rest, z + B * out, B * top)
<1> DEFINE s == v + b
<1>1. s = v + b /\ Splits(s, z, c)
  OBVIOUS
<1> HIDE DEF s
<1>2. s + B * rest = (z + B * out) + B * top
  BY <1>1, Digit
<1>3. B \in Nat /\ z \in Nat /\ rest \in Nat /\ out \in Nat /\ top \in Nat
  BY <1>1, WordAssumption DEF Splits, Sums
<1>4. B * rest \in Nat /\ B * out \in Nat /\ B * top \in Nat
  BY <1>3
<1> QED
  BY <1>1, <1>2, <1>3, <1>4 DEF Sums

\* The three high words of a row over four.
LEMMA HighWords ==
  ASSUME NEW r, NEW c, NEW zz, NEW a, NEW w, NEW at \in 1..2, RowHas(r, c, zz, a, w, at),
         Len(zz) = 4, NEW t \in [2..4 -> Nat], \A k \in 2..4 : t[k] = Term(zz, a, w, at, k), c[1] \in Nat
  PROVE  /\ \A k \in 2..4 : r.zz[k] \in Word /\ c[k] \in Nat
         /\ \A k \in 2..4 : r.zz[k] = (t[k] + c[k - 1]) % B
         /\ Sums(c[1], t[2] + B * (t[3] + B * t[4]), r.zz[2] + B * (r.zz[3] + B * r.zz[4]),
                 B * (B * (B * c[4])))
<1>1. B \in Nat /\ B > 1
  BY WordAssumption
<1>2. ASSUME NEW k \in 2..4
      PROVE  /\ r.zz[k] \in Word /\ r.zz[k] \in Nat /\ c[k] \in Nat /\ r.zz[k] = (t[k] + c[k - 1]) % B
             /\ t[k] + c[k - 1] = r.zz[k] + B * c[k]
  <2>1. k \in 1..Len(zz) /\ ~(k < at)
    OBVIOUS
  <2>2. WordHas(r, c, zz, a, w, at, k)
    BY <2>1 DEF RowHas
  <2>3. t[k] = Term(zz, a, w, at, k)
    OBVIOUS
  <2> QED
    BY <1>1, <2>2, <2>3 DEF WordHas, lo, Word
<1> DEFINE t2 == t[2]
           t3 == t[3]
           t4 == t[4]
           c1 == c[1]
           c2 == c[2]
           c3 == c[3]
           c4 == c[4]
           r2 == r.zz[2]
           r3 == r.zz[3]
           r4 == r.zz[4]
<1>3. /\ t2 \in Nat /\ t3 \in Nat /\ t4 \in Nat /\ c1 \in Nat /\ c2 \in Nat /\ c3 \in Nat /\ c4 \in Nat
      /\ r2 \in Nat /\ r3 \in Nat /\ r4 \in Nat
      /\ t2 + c1 = r2 + B * c2 /\ t3 + c2 = r3 + B * c3 /\ t4 + c3 = r4 + B * c4
  <2>1. 2 \in 2..4 /\ 3 \in 2..4 /\ 4 \in 2..4 /\ 2 - 1 = 1 /\ 3 - 1 = 2 /\ 4 - 1 = 3
    OBVIOUS
  <2> QED
    BY <1>2, <2>1
<1>4. \A k \in 2..4 : /\ r.zz[k] \in Word /\ c[k] \in Nat /\ r.zz[k] = (t[k] + c[k - 1]) % B
  BY <1>2
<1> HIDE DEF t2, t3, t4, c1, c2, c3, c4, r2, r3, r4
<1>5. B * c4 \in Nat
  BY <1>1, <1>3
<1>6. Sums(c3, t4, r4, B * c4)
  BY <1>3, <1>5 DEF Sums
<1>7. Splits(t3 + c2, r3, c3) /\ Splits(t2 + c1, r2, c2)
  BY <1>3 DEF Splits
<1>8. Sums(c2, t3 + B * t4, r3 + B * r4, B * (B * c4))
  BY <1>3, <1>6, <1>7, DigitSums
<1>9. Sums(c1, t2 + B * (t3 + B * t4), r2 + B * (r3 + B * r4), B * (B * (B * c4)))
  BY <1>3, <1>7, <1>8, DigitSums
<1> QED
  BY <1>4, <1>9 DEF t2, t3, t4, c1, c4, r2, r3, r4

\* Arguments of a row over four words.
LEMMA FourArgs ==
  ASSUME NEW zz \in [1..4 -> Word], NEW a \in [1..2 -> Word], NEW w \in Nat, NEW at \in 1..2
  PROVE  /\ RowArgs(zz, a, w, at) /\ Len(zz) = 4 /\ DOMAIN a = 1..2 /\ B \in Nat /\ B > 1
         /\ \A k \in 1..4 : zz[k] \in Nat
         /\ a[1] * w \in Nat /\ a[2] * w \in Nat
<1>1. /\ zz \in [1..4 -> Nat] /\ a \in [1..2 -> Nat] /\ B \in Nat /\ B > 1
      /\ a[1] \in Nat /\ a[2] \in Nat
  BY WordAssumption DEF Word
<1>2. ASSUME NEW l \in Nat, NEW q \in [1..l -> Nat]
      PROVE  q \in Seq(Nat) /\ Len(q) = l
  OBVIOUS
<1>3. zz \in Seq(Nat) /\ a \in Seq(Nat) /\ Len(zz) = 4
  BY <1>1, <1>2
<1>4. a[1] * w \in Nat /\ a[2] * w \in Nat
  BY <1>1
<1> QED
  BY <1>1, <1>3, <1>4 DEF RowArgs

\* A row of two words, from the lowest word on.
LEMMA FirstRow ==
  ASSUME NEW zz \in [1..4 -> Word], NEW w \in Nat, NEW a \in [1..2 -> Word]
  PROVE  LET r == add_row(zz, a, w, 1)
         IN  /\ r.zz \in [1..4 -> Word] /\ r.carry \in Nat
             /\ r.zz[1] = (zz[1] + a[1] * w) % B
             /\ Four(zz) + (a[1] * w + B * (a[2] * w)) = Four(r.zz) + B * (B * (B * (B * r.carry)))
<1> DEFINE r == add_row(zz, a, w, 1)
           m == a[1] * w
           o == a[2] * w
<1>1. /\ RowArgs(zz, a, w, 1) /\ Len(zz) = 4 /\ DOMAIN a = 1..2 /\ B \in Nat /\ B > 1
      /\ \A k \in 1..4 : zz[k] \in Nat
      /\ m \in Nat /\ o \in Nat
  <2>1. ASSUME NEW at \in 1..2
        PROVE  /\ RowArgs(zz, a, w, at) /\ Len(zz) = 4 /\ DOMAIN a = 1..2 /\ B \in Nat /\ B > 1
               /\ \A k \in 1..4 : zz[k] \in Nat
               /\ a[1] * w \in Nat /\ a[2] * w \in Nat
    BY FourArgs
  <2>2. 1 \in 1..2
    OBVIOUS
  <2> QED
    BY <2>1, <2>2
<1>2. PICK c : RowHas(r, c, zz, a, w, 1)
  BY <1>1, Row
<1> DEFINE t == [k \in 2..4 |-> Term(zz, a, w, 1, k)]
<1>3. t[2] = zz[2] + o /\ t[3] = zz[3] /\ t[4] = zz[4] /\ Term(zz, a, w, 1, 1) = zz[1] + m
  BY <1>1 DEF Term
<1>4. t \in [2..4 -> Nat]
  <2>1. t[2] \in Nat /\ t[3] \in Nat /\ t[4] \in Nat
    BY <1>1, <1>3
  <2>2. \A k \in 2..4 : k = 2 \/ k = 3 \/ k = 4
    OBVIOUS
  <2> QED
    BY <2>1, <2>2
<1>5. \A k \in 2..4 : t[k] = Term(zz, a, w, 1, k)
  OBVIOUS
<1> HIDE DEF r, t
<1>6. WordHas(r, c, zz, a, w, 1, 1) /\ c[0] = 0 /\ r.carry = c[4] /\ r.zz = [k \in 1..4 |-> r.zz[k]]
  BY <1>1, <1>2 DEF RowHas
<1> DEFINE z1 == zz[1]
           c1 == c[1]
           r1 == r.zz[1]
<1>7. r1 \in Word /\ c1 \in Nat /\ r1 = (z1 + m) % B /\ z1 + m = r1 + B * c1 /\ z1 \in Nat
  BY <1>1, <1>3, <1>6 DEF WordHas, lo
<1>8. /\ \A k \in 2..4 : r.zz[k] \in Word /\ c[k] \in Nat
      /\ Sums(c1, t[2] + B * (t[3] + B * t[4]), r.zz[2] + B * (r.zz[3] + B * r.zz[4]), B * (B * (B * c[4])))
  <2>1. 1 \in 1..2
    OBVIOUS
  <2> HIDE DEF m, o
  <2> QED
    BY <1>1, <1>2, <1>4, <1>5, <1>7, <2>1, HighWords
<1>9. r.zz \in [1..4 -> Word]
  <2>1. \A k \in 1..4 : k = 1 \/ k \in 2..4
    OBVIOUS
  <2> QED
    BY <1>6, <1>7, <1>8, <2>1
<1> DEFINE rest == t[2] + B * (t[3] + B * t[4])
           out == r.zz[2] + B * (r.zz[3] + B * r.zz[4])
           top == B * (B * (B * c[4]))
           high == zz[3] + B * zz[4]
           s == z1 + m
<1>10. Splits(s, r1, c1)
  BY <1>1, <1>7 DEF Splits, Word
<1> HIDE DEF m, o, z1, c1, r1
<1>11. s + B * rest = (r1 + B * out) + B * top
  <2>1. Sums(c1, rest, out, top)
    BY <1>8
  <2> HIDE DEF rest, out, top, s
  <2> QED
    BY <1>10, <2>1, Digit
<1>12. rest = (zz[2] + o) + B * high /\ zz[2] \in Nat /\ high \in Nat
  <2>1. zz[2] \in Nat /\ zz[3] \in Nat /\ zz[4] \in Nat
    BY <1>1
  <2>2. B * zz[4] \in Nat
    BY <1>1, <2>1
  <2> QED
    BY <1>3, <2>1, <2>2
<1> DEFINE z2 == zz[2]
<1> HIDE DEF rest, high, out, top, z2
<1>13. Four(zz) + (m + B * o) = s + B * rest
  <2>1. Four(zz) = z1 + B * (z2 + B * high)
    BY DEF Four, z1, z2, high
  <2> DEFINE h == B * high
  <2>2. h \in Nat /\ z2 \in Nat /\ rest = (z2 + o) + h
    BY <1>1, <1>12 DEF z2
  <2> HIDE DEF h
  <2>3. B * rest = B * (z2 + h) + B * o
    BY <1>1, <2>2
  <2>4. B * (z2 + h) \in Nat /\ B * o \in Nat
    BY <1>1, <2>2
  <2> QED
    BY <1>1, <1>7, <2>1, <2>3, <2>4 DEF h
<1>14. Four(r.zz) = r1 + B * out
  BY DEF Four, r1, out
<1> QED
  BY <1>6, <1>7, <1>8, <1>9, <1>11, <1>13, <1>14 DEF r, m, o, z1, r1, top

\* A row of two words, from the second word on.
LEMMA SecondRow ==
  ASSUME NEW zz \in [1..4 -> Word], NEW w \in Nat, NEW a \in [1..2 -> Word]
  PROVE  LET r == add_row(zz, a, w, 2)
         IN  /\ r.zz \in [1..4 -> Word] /\ r.carry \in Nat
             /\ r.zz[1] = zz[1] /\ r.zz[2] = (zz[2] + a[1] * w) % B
             /\ Four(zz) + B * (a[1] * w + B * (a[2] * w)) = Four(r.zz) + B * (B * (B * (B * r.carry)))
<1> DEFINE r == add_row(zz, a, w, 2)
           m == a[1] * w
           o == a[2] * w
<1>1. /\ RowArgs(zz, a, w, 2) /\ Len(zz) = 4 /\ DOMAIN a = 1..2 /\ B \in Nat /\ B > 1
      /\ \A k \in 1..4 : zz[k] \in Nat
      /\ m \in Nat /\ o \in Nat
  <2>1. ASSUME NEW at \in 1..2
        PROVE  /\ RowArgs(zz, a, w, at) /\ Len(zz) = 4 /\ DOMAIN a = 1..2 /\ B \in Nat /\ B > 1
               /\ \A k \in 1..4 : zz[k] \in Nat
               /\ a[1] * w \in Nat /\ a[2] * w \in Nat
    BY FourArgs
  <2>2. 2 \in 1..2
    OBVIOUS
  <2> QED
    BY <2>1, <2>2
<1>2. PICK c : RowHas(r, c, zz, a, w, 2)
  BY <1>1, Row
<1> DEFINE t == [k \in 2..4 |-> Term(zz, a, w, 2, k)]
<1>3. t[2] = zz[2] + m /\ t[3] = zz[3] + o /\ t[4] = zz[4]
  BY <1>1 DEF Term
<1>4. t \in [2..4 -> Nat]
  <2>1. t[2] \in Nat /\ t[3] \in Nat /\ t[4] \in Nat
    BY <1>1, <1>3
  <2>2. \A k \in 2..4 : k = 2 \/ k = 3 \/ k = 4
    OBVIOUS
  <2> QED
    BY <2>1, <2>2
<1>5. \A k \in 2..4 : t[k] = Term(zz, a, w, 2, k)
  OBVIOUS
<1> HIDE DEF r, t
<1>6. r.zz[1] = zz[1] /\ c[1] = 0 /\ r.carry = c[4] /\ r.zz = [k \in 1..4 |-> r.zz[k]]
  BY <1>1, <1>2 DEF RowHas
<1>7. /\ \A k \in 2..4 : r.zz[k] \in Word /\ c[k] \in Nat
      /\ \A k \in 2..4 : r.zz[k] = (t[k] + c[k - 1]) % B
      /\ Sums(c[1], t[2] + B * (t[3] + B * t[4]), r.zz[2] + B * (r.zz[3] + B * r.zz[4]), B * (B * (B * c[4])))
  <2>1. 2 \in 1..2 /\ c[1] \in Nat
    BY <1>6
  <2> HIDE DEF m, o
  <2> QED
    BY <1>1, <1>2, <1>4, <1>5, <2>1, HighWords
<1>8. r.zz[2] = (zz[2] + m) % B
  <2>1. 2 \in 2..4 /\ 2 - 1 = 1 /\ zz[2] + m \in Nat
    BY <1>1
  <2>2. r.zz[2] = (t[2] + c[1]) % B
    BY <1>7, <2>1
  <2> QED
    BY <1>3, <1>6, <2>1, <2>2
<1>9. r.zz \in [1..4 -> Word]
  <2>1. \A k \in 1..4 : k = 1 \/ k \in 2..4
    OBVIOUS
  <2>2. r.zz[1] \in Word
    BY <1>6
  <2> QED
    BY <1>6, <1>7, <2>1, <2>2
<1> DEFINE rest == t[2] + B * (t[3] + B * t[4])
           out == r.zz[2] + B * (r.zz[3] + B * r.zz[4])
           top == B * (B * (B * c[4]))
           z1 == zz[1]
           z2 == zz[2]
           z3 == zz[3]
           z4 == zz[4]
<1> HIDE DEF m, o
<1>10. rest \in Nat /\ out \in Nat /\ top \in Nat /\ rest = out + top
  BY <1>6, <1>7 DEF Sums
<1>11. rest = (z2 + m) + B * ((z3 + o) + B * z4) /\ z1 \in Nat /\ z2 \in Nat /\ z3 \in Nat /\ z4 \in Nat
  BY <1>1, <1>3
<1>12. Four(zz) = z1 + B * (z2 + B * (z3 + B * z4))
  BY DEF Four
<1>13. Four(r.zz) = z1 + B * out
  BY <1>6 DEF Four
<1> HIDE DEF rest, out, top, z1, z2, z3, z4
<1>14. Four(zz) + B * (m + B * o) = z1 + B * rest
  <2> DEFINE h == z3 + B * z4
             u == B * h
             v == B * o
  <2>1. h \in Nat /\ B * z4 \in Nat
    BY <1>1, <1>11
  <2>2. (z3 + o) + B * z4 = h + o
    BY <1>1, <1>11, <2>1
  <2> HIDE DEF h
  <2>3. B * ((z3 + o) + B * z4) = u + v /\ u \in Nat /\ v \in Nat
    BY <1>1, <2>1, <2>2
  <2>4. rest = (z2 + u) + (m + v) /\ Four(zz) = z1 + B * (z2 + u)
    BY <1>1, <1>11, <1>12, <2>3 DEF h
  <2> HIDE DEF u, v
  <2>5. B * rest = B * (z2 + u) + B * (m + v) /\ B * (z2 + u) \in Nat /\ B * (m + v) \in Nat
    BY <1>1, <1>11, <2>3, <2>4
  <2> QED
    BY <1>11, <2>4, <2>5 DEF v
<1>15. z1 + B * rest = (z1 + B * out) + B * top
  <2>1. B * rest = B * out + B * top /\ B * out \in Nat /\ B * top \in Nat
    BY <1>1, <1>10
  <2> QED
    BY <1>11, <2>1
<1> QED
  BY <1>6, <1>7, <1>8, <1>9, <1>13, <1>14, <1>15 DEF r, m, o, top

-----------------------------------------------------------------------------
(* Products.                                                               *)

\* What is computed with: the parameters of a field.
IsField(f) ==
    /\ f.words \in {1, 2} /\ f.p \in Nat /\ f.p > 2 /\ f.p < R(f)
    /\ f.words = 2 => f.p + B <= R(f)
    /\ f.mu \in Nat /\ (f.mu * f.p + 1) % B = 0
    /\ f.r2 = (R(f) * R(f)) % f.p

\* B times a number that is not zero is at least B times one.
LEMMA AtLeast ==
  ASSUME NEW b \in Nat, NEW c \in Nat, NEW d \in Nat, c >= d
  PROVE  b * c \in Nat /\ b * d \in Nat /\ b * c >= b * d
<1> DEFINE e == c - d
<1>1. e \in Nat /\ c = d + e
  OBVIOUS
<1> HIDE DEF e
<1>2. b * c = b * d + b * e /\ b * e \in Nat /\ b * d \in Nat
  BY <1>1
<1> QED
  BY <1>2

\* A number of two words, or of four, has nothing above them.
LEMMA NoCarry ==
  ASSUME NEW low \in Nat, NEW c \in Nat
  PROVE  /\ low + B * (B * c) < B * B => c = 0
         /\ low + B * (B * (B * (B * c))) < B * (B * (B * B)) => c = 0
<1>1. B \in Nat
  BY WordAssumption
<1> SUFFICES ASSUME c >= 1
             PROVE  /\ low + B * (B * c) >= B * B
                    /\ low + B * (B * (B * (B * c))) >= B * (B * (B * B))
  <2> DEFINE q == B * (B * c)
             s == B * (B * (B * (B * c)))
             d == B * B
             e == B * (B * (B * B))
  <2>1. q \in Int /\ s \in Int /\ d \in Int /\ e \in Int
    BY <1>1
  <2> HIDE DEF q, s, d, e
  <2>2. (c >= 1 => low + q >= d /\ low + s >= e) => (low + q < d => c = 0) /\ (low + s < e => c = 0)
    BY <2>1
  <2> QED
    BY <2>2 DEF q, s, d, e
<1> DEFINE c1 == B * c
           c2 == B * c1
           c3 == B * c2
           c4 == B * c3
           d2 == B * B
           d3 == B * d2
           d4 == B * d3
<1>2. c1 \in Nat /\ B * 1 = B /\ c1 >= B
  <2>1. 1 \in Nat
    OBVIOUS
  <2> QED
    BY <1>1, <2>1, AtLeast
<1>3. c2 \in Nat /\ d2 \in Nat /\ c2 >= d2
  <2> HIDE DEF c1
  <2> QED
    BY <1>1, <1>2, AtLeast
<1>4. c3 \in Nat /\ d3 \in Nat /\ c3 >= d3
  <2> HIDE DEF c2, d2
  <2> QED
    BY <1>1, <1>3, AtLeast
<1>5. c4 \in Nat /\ d4 \in Nat /\ c4 >= d4
  <2> HIDE DEF c3, d3
  <2> QED
    BY <1>1, <1>4, AtLeast
<1>6. low + c2 >= d2 /\ low + c4 >= d4
  <2> HIDE DEF c2, c4, d2, d4
  <2> QED
    BY <1>3, <1>5
<1> QED
  BY <1>6

\* A product below the product of the bounds.
LEMMA BelowProduct ==
  ASSUME NEW b \in Nat, NEW d \in Nat, NEW u \in 0..b - 1, NEW v \in 0..d - 1
  PROVE  u * v \in Nat /\ u * v < b * d
<1>1. b >= 1 /\ d >= 1 /\ u \in Nat /\ v \in Nat /\ b - 1 \in Nat /\ d - 1 \in Nat
  OBVIOUS
<1> DEFINE e == b - 1
           g == d - 1
<1>2. u * v \in Nat /\ u * g \in Nat /\ u * g >= u * v
  BY <1>1, AtLeast
<1>3. g * e \in Nat /\ g * u \in Nat /\ g * e >= g * u
  BY <1>1, AtLeast
<1>4. b * d = g * e + e + g + 1
  <2>1. b = e + 1 /\ d = g + 1 /\ e \in Nat /\ g \in Nat
    BY <1>1
  <2> HIDE DEF e, g
  <2>2. (e + 1) * (g + 1) = e * g + e + g + 1 /\ e * g = g * e
    BY <2>1
  <2> QED
    BY <2>1, <2>2
<1>5. u * g = g * u
  BY <1>1
<1> HIDE DEF e, g
<1>6. e \in Nat /\ g \in Nat
  BY <1>1 DEF e, g
<1> DEFINE i == u * v
           j == u * g
           k == g * e
           h == b * d
<1>7. i \in Nat /\ j \in Nat /\ k \in Nat /\ j >= i /\ k >= j /\ h = k + e + g + 1
  BY <1>2, <1>3, <1>4, <1>5
<1> HIDE DEF i, j, k, h
<1>8. i < h
  BY <1>6, <1>7
<1> QED
  BY <1>7, <1>8 DEF i, h

\* The words of an integer.
LEMMA OneWord ==
  ASSUME NEW v \in Word
  PROVE  words(v, 1) \in [1..1 -> Word] /\ words(v, 1)[1] = v /\ lo(v) = v
<1>1. lo(v) = v
  BY WordAssumption DEF lo, Word
<1> QED
  BY <1>1 DEF words

\* The words of an integer of two.
LEMMA TwoWords ==
  ASSUME NEW v \in 0..B * B - 1
  PROVE  /\ words(v, 2) \in [1..2 -> Word] /\ words(v, 2)[1] = lo(v) /\ words(v, 2)[2] = hi(v)
         /\ v = words(v, 2)[1] + B * words(v, 2)[2]
<1>1. lo(v) \in Word /\ hi(v) \in Word /\ v = lo(v) + B * hi(v)
  BY WordsOf
<1>2. words(v, 2)[1] = lo(v) /\ words(v, 2)[2] = hi(v)
  BY DEF words
<1> QED
  BY <1>1, <1>2 DEF words

\* A row adds a multiple of its words.
LEMMA RowSum ==
  ASSUME NEW b \in Nat, NEW c \in Nat, NEW w \in Nat
  PROVE  b * w + B * (c * w) = (b + B * c) * w
<1>1. B \in Nat
  BY WordAssumption
<1>2. B * (c * w) = (B * c) * w /\ B * c \in Nat
  BY <1>1
<1> QED
  BY <1>1, <1>2

\* The product of two words.
LEMMA ProductOfOne ==
  ASSUME NEW f, f.words = 1, NEW u \in Word, NEW v \in Word
  PROVE  product(f, u, v) \in [1..2 -> Word] /\ Two(product(f, u, v)) = u * v
<1> DEFINE zero == [k \in 1..2 |-> 0]
           a == words(v, 1)
           r == add_row(zero, a, u, 1)
<1>1. B \in Nat /\ B > 1 /\ 0 \in Word /\ u \in Nat /\ v \in Nat
  BY WordAssumption DEF Word
<1>2. words(u, 1)[1] = u /\ a \in [1..1 -> Word] /\ a[1] = v
  BY OneWord
<1>3. product(f, u, v) = r.zz
  BY <1>2 DEF product
<1>4. zero \in [1..2 -> Word] /\ Two(zero) = 0
  BY <1>1 DEF Two
<1> HIDE DEF zero, a
<1>5. /\ r.zz \in [1..2 -> Word] /\ r.carry \in Nat
      /\ Two(zero) + a[1] * u = Two(r.zz) + B * (B * r.carry)
  BY <1>1, <1>2, <1>4, RowOfOne
<1> DEFINE zz == r.zz
           c == r.carry
<1> HIDE DEF r
<1>6. u * v = Two(zz) + B * (B * c) /\ u * v \in Nat
  <2>1. a[1] * u = u * v /\ u * v \in Nat
    BY <1>1, <1>2
  <2> QED
    BY <1>4, <1>5, <2>1
<1>7. Two(zz) \in Nat
  <2>1. zz[1] \in Nat /\ zz[2] \in Nat
    BY <1>1, <1>5 DEF Word
  <2>2. B * zz[2] \in Nat
    BY <1>1, <2>1
  <2> QED
    BY <2>1, <2>2 DEF Two
<1>8. u * v < B * B
  BY <1>1, BelowProduct DEF Word
<1>9. c = 0
  <2> DEFINE low == Two(zz)
  <2>1. low \in Nat /\ c \in Nat /\ low + B * (B * c) < B * B
    BY <1>5, <1>6, <1>7, <1>8
  <2> HIDE DEF low, c
  <2> QED
    BY <2>1, NoCarry
<1>10. B * (B * c) = 0
  BY <1>1, <1>9
<1> QED
  BY <1>3, <1>5, <1>6, <1>7, <1>10

\* Four words are a natural number.
LEMMA FourIs ==
  ASSUME NEW zz \in [1..4 -> Word]
  PROVE  Four(zz) \in Nat
<1>1. B \in Nat /\ zz[1] \in Nat /\ zz[2] \in Nat /\ zz[3] \in Nat /\ zz[4] \in Nat
  BY WordAssumption DEF Word
<1>2. B * zz[4] \in Nat
  BY <1>1
<1>3. B * (zz[3] + B * zz[4]) \in Nat
  BY <1>1, <1>2
<1>4. B * (zz[2] + B * (zz[3] + B * zz[4])) \in Nat
  BY <1>1, <1>3
<1> QED
  BY <1>1, <1>4 DEF Four

\* A row over four words that leaves no carry.
LEMMA RowFits ==
  ASSUME NEW zz \in [1..4 -> Word], NEW c \in Nat, NEW s \in Nat,
         s = Four(zz) + B * (B * (B * (B * c))), s < B * (B * (B * B))
  PROVE  c = 0 /\ Four(zz) = s
<1>1. B \in Nat /\ Four(zz) \in Nat
  BY WordAssumption, FourIs
<1> DEFINE low == Four(zz)
<1> HIDE DEF low
<1>2. c = 0
  <2>1. low \in Nat /\ low + B * (B * (B * (B * c))) < B * (B * (B * B))
    BY <1>1 DEF low
  <2> QED
    BY <2>1, NoCarry
<1>3. B * (B * (B * (B * c))) = 0
  BY <1>1, <1>2
<1> QED
  BY <1>1, <1>2, <1>3

\* The product of two integers of two words.
LEMMA ProductOfTwo ==
  ASSUME NEW f, f.words = 2, NEW u \in 0..B * B - 1, NEW v \in 0..B * B - 1
  PROVE  product(f, u, v) \in [1..4 -> Word] /\ Four(product(f, u, v)) = u * v
<1> DEFINE zero == [k \in 1..4 |-> 0]
           xs == words(u, 2)
           a == words(v, 2)
           r == add_row(zero, a, xs[1], 1)
           s == add_row(r.zz, a, xs[2], 2)
<1>1. B \in Nat /\ B > 1 /\ 0 \in Word /\ u \in Nat /\ v \in Nat /\ B * B \in Nat
  BY WordAssumption DEF Word
<1>2. /\ xs \in [1..2 -> Word] /\ u = xs[1] + B * xs[2] /\ a \in [1..2 -> Word] /\ v = a[1] + B * a[2]
  BY TwoWords
<1>3. product(f, u, v) = s.zz
  <2>1. 2 * 2 = 4 /\ f.words # 1
    OBVIOUS
  <2> QED
    BY <2>1 DEF product
<1>4. zero \in [1..4 -> Word] /\ Four(zero) = 0
  <2>1. zero[1] = 0 /\ zero[2] = 0 /\ zero[3] = 0 /\ zero[4] = 0
    OBVIOUS
  <2>2. B * 0 = 0 /\ 0 + 0 = 0
    BY <1>1
  <2> QED
    BY <1>1, <2>1, <2>2 DEF Four
<1> DEFINE u1 == xs[1]
           u2 == xs[2]
           v1 == a[1]
           v2 == a[2]
<1>5. u1 \in Nat /\ u2 \in Nat /\ v1 \in Nat /\ v2 \in Nat /\ u = u1 + B * u2 /\ v = v1 + B * v2 /\ u1 \in Word
  BY <1>1, <1>2 DEF Word
<1> HIDE DEF zero, xs, a
<1>6. /\ r.zz \in [1..4 -> Word] /\ r.carry \in Nat
      /\ Four(zero) + (v1 * u1 + B * (v2 * u1)) = Four(r.zz) + B * (B * (B * (B * r.carry)))
  <2>1. r = add_row(zero, a, u1, 1) /\ u1 \in Nat /\ a \in [1..2 -> Word]
    BY <1>2, <1>5
  <2> HIDE DEF r, u1
  <2> QED
    BY <1>4, <2>1, FirstRow DEF v1, v2
<1> HIDE DEF u1, u2, v1, v2
<1>7. v1 * u1 + B * (v2 * u1) = v * u1 /\ v1 * u2 + B * (v2 * u2) = v * u2
  BY <1>5, RowSum
<1>8. v * u1 \in Nat /\ v * u2 \in Nat /\ u * v \in Nat /\ v * u1 + B * (v * u2) = u * v
  <2>1. v * u1 \in Nat /\ v * u2 \in Nat /\ u * v \in Nat
    BY <1>1, <1>5
  <2>2. B * (v * u2) = v * (B * u2) /\ B * u2 \in Nat
    BY <1>1, <1>5
  <2>3. v * u1 + v * (B * u2) = v * (u1 + B * u2)
    BY <1>1, <1>5, <2>2
  <2> QED
    BY <1>5, <2>1, <2>2, <2>3
<1>9. v * u1 < B * (B * (B * B)) /\ u * v < B * (B * (B * B))
  <2> DEFINE q == B * B
  <2>1. q \in Nat /\ u \in 0..q - 1 /\ v \in 0..q - 1 /\ q * q = B * (B * (B * B))
    BY <1>1
  <2>2. u * v < q * q
    <3> HIDE DEF q
    <3> QED
      BY <2>1, BelowProduct
  <2>3. v * u1 <= u * v
    <3>1. v * u2 \in Nat /\ v * u1 \in Nat /\ B * (v * u2) \in Nat
      BY <1>1, <1>8
    <3> DEFINE i == v * u1
               j == B * (v * u2)
    <3>2. i \in Nat /\ j \in Nat /\ i + j = u * v
      BY <1>8, <3>1
    <3> HIDE DEF i, j
    <3>3. i <= u * v
      BY <3>2
    <3> QED
      BY <3>3 DEF i
  <2> DEFINE h == q * q
             i == v * u1
             k == u * v
  <2>4. h \in Nat /\ i \in Nat /\ k \in Nat /\ k < h /\ i <= k
    <3>1. q * q \in Nat
      BY <2>1
    <3> QED
      BY <1>8, <2>2, <2>3, <3>1
  <2>5. h = B * (B * (B * B))
    BY <2>1
  <2> HIDE DEF h, i, k
  <2>6. i < h /\ k < h
    BY <2>4
  <2> QED
    BY <2>5, <2>6 DEF i, k
<1> DEFINE z == r.zz
           c == r.carry
<1>10. Four(z) = v * u1 /\ z \in [1..4 -> Word]
  <2> DEFINE g == v * u1
  <2>1. g \in Nat /\ c \in Nat /\ z \in [1..4 -> Word] /\ g = Four(z) + B * (B * (B * (B * c)))
        /\ g < B * (B * (B * B))
    BY <1>4, <1>6, <1>7, <1>8, <1>9
  <2> HIDE DEF g, z, c
  <2> QED
    BY <2>1, RowFits DEF g
<1> HIDE DEF z, r
<1> DEFINE zs == s.zz
           d == s.carry
<1>11. s = add_row(z, a, u2, 2)
  BY DEF z, u2
<1>12. /\ zs \in [1..4 -> Word] /\ d \in Nat
       /\ Four(z) + B * (v1 * u2 + B * (v2 * u2)) = Four(zs) + B * (B * (B * (B * d)))
  <2> HIDE DEF s
  <2>1. u2 \in Nat
    BY <1>5
  <2> QED
    BY <1>2, <1>10, <1>11, <2>1, SecondRow DEF v1, v2
<1> HIDE DEF s
<1>13. Four(zs) = u * v
  <2> DEFINE g == u * v
  <2>1. g \in Nat /\ g = Four(zs) + B * (B * (B * (B * d))) /\ g < B * (B * (B * B))
    BY <1>7, <1>8, <1>9, <1>10, <1>12
  <2> HIDE DEF g, zs, d
  <2> QED
    BY <1>12, <2>1, RowFits DEF g
<1> QED
  BY <1>3, <1>12, <1>13

-----------------------------------------------------------------------------
(* Reduction.                                                              *)

\* The multiple of p that reduce adds makes the word zero.
LEMMA ZeroWord ==
  ASSUME NEW mu \in Nat, NEW p \in Nat, (mu * p + 1) % B = 0, NEW z \in Nat
  PROVE  (z + lo(p) * ((mu * z) % B)) % B = 0
<1>1. B \in Nat /\ B > 0 /\ B \in Int /\ 0 \in 0..B - 1
  BY WordAssumption
<1> DEFINE e == mu * z
           w == e % B
           b == lo(p)
           d == mu * p + 1
<1>2. e \in Int /\ d \in Int /\ d % B = 0
  OBVIOUS
<1>3. w \in 0..B - 1 /\ Cong(B, w, e)
  <2> HIDE DEF e
  <2> QED
    BY <1>1, <1>2, CongRemainder
<1>4. b \in 0..B - 1 /\ Cong(B, b, p)
  <2>1. p \in Int
    OBVIOUS
  <2>2. p % B \in 0..B - 1 /\ Cong(B, p % B, p)
    BY <1>1, <2>1, CongRemainder
  <2> QED
    BY <2>2 DEF lo
<1>5. Cong(B, 0, d)
  <2> HIDE DEF d
  <2> QED
    BY <1>1, <1>2, CongRemainder
<1>6. z + p * e = d * z
  BY <1>1
<1> HIDE DEF e, w, b, d
<1>7. w \in Int /\ b \in Int
  BY <1>1, <1>3, <1>4
<1>8. Cong(B, b * w, p * e)
  BY <1>1, <1>2, <1>3, <1>4, <1>7, CongProduct
<1>9. Cong(B, 0 * z, d * z)
  <2>1. ASSUME NEW o \in Int, Cong(B, o, d)
        PROVE  Cong(B, o * z, d * z)
    <3>1. B \in Int /\ d \in Int /\ z \in Int
      BY <1>1, <1>2
    <3> QED
      BY <2>1, <3>1, CongTimes
  <2>2. 0 \in Int
    OBVIOUS
  <2> QED
    BY <1>5, <2>1, <2>2
<1> DEFINE y == b * w
           t == p * e
           g == d * z
<1>10. y \in Int /\ t \in Int /\ g \in Int /\ z + t = g /\ 0 * z = 0
  BY <1>2, <1>6, <1>7
<1>11. Cong(B, y, t) /\ Cong(B, 0, g)
  BY <1>8, <1>9, <1>10
<1> HIDE DEF y, t, g
<1>12. Cong(B, z + y, z + t)
  BY <1>1, <1>10, <1>11, CongRefl, CongSum
<1>13. Cong(B, z + y, g) /\ Cong(B, g, 0)
  BY <1>1, <1>10, <1>11, <1>12, CongSym
<1> DEFINE s == z + y
<1>14. s \in Int /\ Cong(B, s, g)
  BY <1>10, <1>13
<1> HIDE DEF s
<1>15. Cong(B, s, 0)
  BY <1>1, <1>10, <1>13, <1>14, CongTrans
<1> DEFINE q == s % B
<1>16. q \in 0..B - 1 /\ Cong(B, q, s)
  BY <1>1, <1>14, CongRemainder
<1> HIDE DEF q
<1>17. Cong(B, q, 0)
  BY <1>1, <1>14, <1>15, <1>16, CongTrans
<1>18. q = 0
  BY <1>1, <1>16, <1>17, CongUnique
<1> QED
  BY <1>18 DEF q, s, y, b, w, e

\* What mul does before it subtracts: a multiple of p is added to the product, and the low
\* words, which are zero, are taken off.
Reduced(f, u, v, c, h, m) ==
    /\ c \in Nat /\ h \in 0..R(f) - 1 /\ m \in 0..R(f) - 1
    /\ R(f) * (h + R(f) * c) = u * v + f.p * m
    /\ mul(f, u, v) = subtract_once(f, c, h)

\* It does for integers of one word.
LEMMA ReducedOne ==
  ASSUME NEW f, IsField(f), f.words = 1, NEW u \in Word, NEW v \in Word
  PROVE  \E c, h, m : Reduced(f, u, v, c, h, m)
<1> DEFINE zz == product(f, u, v)
           p == f.p
           mu == f.mu
           w == (mu * zz[1]) % B
           a == words(p, 1)
           r == add_row(zz, a, w, 1)
<1>1. /\ B \in Nat /\ B > 1 /\ p \in Nat /\ p \in Word /\ mu \in Nat /\ (mu * p + 1) % B = 0 /\ R(f) = B
      /\ u \in Nat /\ v \in Nat
  BY WordAssumption DEF IsField, R, Word
<1>2. zz \in [1..2 -> Word] /\ Two(zz) = u * v
  BY ProductOfOne
<1>3. a \in [1..1 -> Word] /\ a[1] = p
  BY <1>1, OneWord
<1>4. lo(p) = p
  BY <1>1, OneWord
<1>5. mul(f, u, v) = subtract_once(f, r.carry, r.zz[2])
  BY DEF mul, reduce
<1> HIDE DEF zz, p, mu, a
<1>6. zz[1] \in Nat
  BY <1>1, <1>2 DEF Word
<1>7. w \in Word /\ w \in Nat
  <2> DEFINE e == mu * zz[1]
  <2>1. e \in Int
    BY <1>1, <1>6
  <2> HIDE DEF e
  <2>2. e % B \in 0..B - 1
    BY <1>1, <2>1, CongRemainder
  <2> QED
    BY <1>1, <2>2 DEF e, Word
<1>8. (zz[1] + p * w) % B = 0
  <2> DEFINE z == zz[1]
  <2> HIDE DEF z
  <2>1. (z + lo(p) * ((mu * z) % B)) % B = 0
    BY <1>1, <1>6, ZeroWord DEF z
  <2> QED
    BY <1>4, <2>1 DEF z
<1> HIDE DEF w
<1>9. /\ r.zz \in [1..2 -> Word] /\ r.carry \in Nat /\ r.zz[1] = (zz[1] + a[1] * w) % B
      /\ Two(zz) + a[1] * w = Two(r.zz) + B * (B * r.carry)
  BY <1>2, <1>3, <1>7, RowOfOne
<1> DEFINE h == r.zz[2]
           c == r.carry
<1>10. /\ h \in Word /\ h \in Nat /\ c \in Nat /\ u * v + p * w = Two(r.zz) + B * (B * c)
       /\ Two(r.zz) = B * h
  <2>1. r.zz[1] = 0 /\ h \in Word
    BY <1>3, <1>8, <1>9
  <2>2. Two(r.zz) = B * h
    BY <1>1, <2>1 DEF Two, Word
  <2> QED
    BY <1>1, <1>2, <1>3, <1>9, <2>1, <2>2 DEF Word
<1> HIDE DEF r
<1>11. mul(f, u, v) = subtract_once(f, c, h)
  BY <1>5
<1> HIDE DEF h, c
<1>12. B * h + B * (B * c) = B * (h + B * c)
  <2> DEFINE g == B * c
  <2>1. g \in Nat
    BY <1>1, <1>10
  <2> HIDE DEF g
  <2>2. B * h + B * g = B * (h + g)
    BY <1>1, <1>10, <2>1
  <2> QED
    BY <2>2 DEF g
<1>13. Reduced(f, u, v, c, h, w)
  BY <1>1, <1>7, <1>10, <1>11, <1>12 DEF Reduced, Word, p
<1> QED
  BY <1>13

\* Two words make an integer of two words.
LEMMA TwoFit ==
  ASSUME NEW b \in Word, NEW d \in Word
  PROVE  b + B * d \in 0..B * B - 1
<1>1. B \in Nat /\ B > 1 /\ b \in Nat /\ d \in Nat /\ b <= B - 1 /\ d <= B - 1 /\ B - 1 \in Nat
  BY WordAssumption DEF Word
<1>2. B * d \in Nat /\ B * (B - 1) >= B * d
  <2> DEFINE e == B - 1
  <2>1. e \in Nat /\ e >= d
    BY <1>1
  <2> HIDE DEF e
  <2>2. B * e \in Nat /\ B * d \in Nat /\ B * e >= B * d
    BY <1>1, <2>1, AtLeast
  <2> QED
    BY <2>2 DEF e
<1>3. B * (B - 1) = B * B - B /\ B * B \in Nat
  BY <1>1
<1> DEFINE g == B * d
           h == B * B
<1>4. g \in Nat /\ h \in Nat /\ h - B >= g
  BY <1>2, <1>3
<1> HIDE DEF g, h
<1>5. b + g \in 0..h - 1
  BY <1>1, <1>4
<1> QED
  BY <1>5 DEF g, h

\* The factor of the multiple is a word.
LEMMA FactorIs ==
  ASSUME NEW mu \in Nat, NEW z \in Word
  PROVE  (mu * z) % B \in Word
<1>1. B \in Nat /\ B > 0 /\ z \in Nat
  BY WordAssumption DEF Word
<1> DEFINE e == mu * z
<1>2. e \in Int
  BY <1>1
<1> HIDE DEF e
<1>3. e % B \in 0..B - 1
  BY <1>1, <1>2, CongRemainder
<1> QED
  BY <1>3 DEF e, Word

\* With the room above p, the first row does not carry out of the highest word.
LEMMA RowHasRoom ==
  ASSUME NEW p \in Nat, p + B <= B * B, NEW u \in 0..B * B - 1, NEW v \in 0..p - 1, NEW w \in Word
  PROVE  u * v + p * w \in Nat /\ u * v + p * w < B * (B * (B * B))
<1> DEFINE q == B * B
<1>1. B \in Nat /\ B > 1 /\ q \in Nat /\ w \in Nat /\ w <= B /\ u \in Nat /\ v \in Nat /\ u \in 0..q - 1
  BY WordAssumption DEF Word
<1>2. p + B <= q /\ B * (B * (B * B)) = q * q /\ B * q = q * B
  BY <1>1
<1>3. q > 0
  BY <1>1
<1> HIDE DEF q
<1>4. u * v \in Nat /\ u * v < q * p
  BY <1>1, BelowProduct
<1>5. p * w \in Nat /\ p * B \in Nat /\ p * B >= p * w
  BY <1>1, AtLeast
<1> DEFINE e == q - B
           i == u * v
           j == p * w
           y == q + B
<1>6. e \in Nat /\ e >= p /\ y \in Nat
  BY <1>1, <1>2
<1>7. y * e \in Nat /\ y * p \in Nat /\ y * e >= y * p
  <2> HIDE DEF e, y
  <2> QED
    BY <1>6, AtLeast
<1>8. y * e = q * q - B * B /\ y * p = q * p + p * B /\ B * B = q
  <2>1. y * e = (q * q - q * B) + (B * q - B * B)
    BY <1>1
  <2>2. y * p = q * p + p * B
    BY <1>1
  <2> QED
    BY <1>1, <1>2, <2>1, <2>2 DEF q
<1> DEFINE i2 == q * p
           j2 == p * B
           s == q * q
<1>9. i \in Nat /\ j \in Nat /\ i2 \in Nat /\ j2 \in Nat /\ s \in Nat /\ i < i2 /\ j2 >= j /\ s - q >= i2 + j2
  <2>1. i2 \in Nat /\ s \in Nat
    BY <1>1
  <2>2. y * e = s - q /\ y * p = i2 + j2
    BY <1>8
  <2> HIDE DEF y, e, i2, j2, s
  <2> QED
    BY <1>4, <1>5, <1>7, <2>1, <2>2 DEF i2, j2
<1> HIDE DEF i, j, i2, j2, s
<1>10. i + j \in Nat /\ i + j < s
  BY <1>1, <1>3, <1>9
<1> QED
  BY <1>2, <1>10 DEF i, j, s

\* Four words of which the low two are zero.
LEMMA FourOfHigh ==
  ASSUME NEW zz \in [1..4 -> Word], zz[1] = 0, zz[2] = 0, NEW c \in Nat
  PROVE  LET h == zz[3] + B * zz[4]
         IN  /\ h \in 0..B * B - 1
             /\ Four(zz) + B * (B * (B * (B * c))) = (B * B) * (h + (B * B) * c)
<1> DEFINE h == zz[3] + B * zz[4]
<1>1. B \in Nat /\ zz[3] \in Word /\ zz[4] \in Word /\ B * B \in Nat
  BY WordAssumption
<1>2. h \in 0..B * B - 1
  BY <1>1, TwoFit
<1>3. h \in Nat
  BY <1>1, <1>2
<1>4. Four(zz) = 0 + B * (0 + B * h)
  BY DEF Four
<1> HIDE DEF h
<1>5. B * h \in Nat /\ B * (B * h) \in Nat
  BY <1>1, <1>3
<1>6. Four(zz) = B * (B * h)
  BY <1>4, <1>5
<1> DEFINE g == B * (B * c)
<1>7. g \in Nat /\ g = (B * B) * c
  BY <1>1
<1> HIDE DEF g
<1>8. B * (B * h) + B * (B * g) = (B * B) * (h + g)
  BY <1>1, <1>3, <1>7
<1> QED
  BY <1>2, <1>6, <1>7, <1>8 DEF g, h

\* It does for integers of two words.
LEMMA ReducedTwo ==
  ASSUME NEW f, IsField(f), f.words = 2, NEW u \in 0..B * B - 1, NEW v \in 0..f.p - 1
  PROVE  \E c, h, m : Reduced(f, u, v, c, h, m)
<1> DEFINE zz == product(f, u, v)
           p == f.p
           mu == f.mu
           a == words(p, 2)
           w1 == (mu * zz[1]) % B
           r == add_row(zz, a, w1, 1)
           y == r.zz
           w2 == (mu * y[2]) % B
           s == add_row(y, a, w2, 2)
<1>1. /\ B \in Nat /\ B > 1 /\ B * B \in Nat /\ p \in Nat /\ p \in 0..B * B - 1 /\ p + B <= B * B
      /\ mu \in Nat /\ (mu * p + 1) % B = 0 /\ R(f) = B * B
      /\ u \in Nat /\ v \in Nat /\ v \in 0..p - 1 /\ v \in 0..B * B - 1
  <2>1. B \in Nat /\ B > 1 /\ B * B \in Nat
    BY WordAssumption
  <2>2. f.words # 1 /\ R(f) = B * B
    BY DEF R
  <2> QED
    BY <2>1, <2>2 DEF IsField
<1>2. zz \in [1..4 -> Word] /\ Four(zz) = u * v
  BY <1>1, ProductOfTwo
<1>3. a \in [1..2 -> Word] /\ a[1] = lo(p) /\ p = a[1] + B * a[2]
  BY <1>1, TwoWords
<1>4. mul(f, u, v) = subtract_once(f, s.carry, s.zz[3] + B * s.zz[4])
  BY DEF mul, reduce
<1>5. p = f.p
  OBVIOUS
<1> DEFINE a1 == a[1]
           a2 == a[2]
<1> HIDE DEF zz, p, mu, a
<1>6. a1 \in Nat /\ a2 \in Nat /\ a1 = lo(p) /\ p = a1 + B * a2
  BY <1>1, <1>3 DEF Word
<1>7. ASSUME NEW z \in Word
      PROVE  /\ (mu * z) % B \in Word /\ (mu * z) % B \in Nat
             /\ (z + a1 * ((mu * z) % B)) % B = 0
             /\ a1 * ((mu * z) % B) + B * (a2 * ((mu * z) % B)) = p * ((mu * z) % B)
  <2> DEFINE w == (mu * z) % B
  <2>1. w \in Word /\ w \in Nat /\ z \in Nat
    BY <1>1, FactorIs DEF Word
  <2>2. (z + lo(p) * w) % B = 0
    BY <1>1, <2>1, ZeroWord
  <2> HIDE DEF w
  <2>3. a1 * w + B * (a2 * w) = p * w
    <3> HIDE DEF a1, a2
    <3> QED
      BY <1>6, <2>1, RowSum
  <2> QED
    BY <1>6, <2>1, <2>2, <2>3 DEF w
<1>8. w1 \in Word /\ w1 \in Nat /\ (zz[1] + a1 * w1) % B = 0 /\ a1 * w1 + B * (a2 * w1) = p * w1
  <2> DEFINE z == zz[1]
  <2>1. z \in Word
    BY <1>2
  <2> HIDE DEF z, a1, a2
  <2>2. /\ (mu * z) % B \in Word /\ (mu * z) % B \in Nat
        /\ (z + a1 * ((mu * z) % B)) % B = 0
        /\ a1 * ((mu * z) % B) + B * (a2 * ((mu * z) % B)) = p * ((mu * z) % B)
    BY <1>7, <2>1
  <2> QED
    BY <2>2 DEF z
<1> HIDE DEF w1
<1>9. /\ r.zz \in [1..4 -> Word] /\ r.carry \in Nat /\ r.zz[1] = (zz[1] + a[1] * w1) % B
      /\ Four(zz) + (a[1] * w1 + B * (a[2] * w1)) = Four(r.zz) + B * (B * (B * (B * r.carry)))
  <2> HIDE DEF a1, a2
  <2> QED
    BY <1>2, <1>3, <1>8, FirstRow
<1>10. y \in [1..4 -> Word] /\ y[1] = 0
  BY <1>8, <1>9
<1>11. Four(y) = u * v + p * w1
  <2> DEFINE g == u * v + p * w1
             c == r.carry
  <2>1. g \in Nat /\ g < B * (B * (B * B))
    BY <1>1, <1>8, RowHasRoom
  <2>2. g = Four(y) + B * (B * (B * (B * c))) /\ c \in Nat
    BY <1>2, <1>8, <1>9
  <2> HIDE DEF g, y, c
  <2> QED
    BY <1>10, <2>1, <2>2, RowFits DEF g
<1> HIDE DEF y
<1>12. w2 \in Word /\ w2 \in Nat /\ (y[2] + a1 * w2) % B = 0 /\ a1 * w2 + B * (a2 * w2) = p * w2
  <2> DEFINE z == y[2]
  <2>1. z \in Word
    BY <1>10
  <2> HIDE DEF z, a1, a2
  <2>2. /\ (mu * z) % B \in Word /\ (mu * z) % B \in Nat
        /\ (z + a1 * ((mu * z) % B)) % B = 0
        /\ a1 * ((mu * z) % B) + B * (a2 * ((mu * z) % B)) = p * ((mu * z) % B)
    BY <1>7, <2>1
  <2> QED
    BY <2>2 DEF z
<1> HIDE DEF w2
<1>13. /\ s.zz \in [1..4 -> Word] /\ s.carry \in Nat /\ s.zz[1] = y[1] /\ s.zz[2] = (y[2] + a[1] * w2) % B
       /\ Four(y) + B * (a[1] * w2 + B * (a[2] * w2)) = Four(s.zz) + B * (B * (B * (B * s.carry)))
  <2> HIDE DEF a1, a2
  <2> QED
    BY <1>3, <1>10, <1>12, SecondRow
<1> DEFINE zs == s.zz
           c == s.carry
           h == zs[3] + B * zs[4]
           m == w1 + B * w2
           q == B * B
<1>14. zs \in [1..4 -> Word] /\ zs[1] = 0 /\ zs[2] = 0 /\ c \in Nat
  BY <1>10, <1>12, <1>13
<1>15. (u * v + p * w1) + B * (p * w2) = Four(zs) + B * (B * (B * (B * c)))
  BY <1>11, <1>12, <1>13
<1>16. mul(f, u, v) = subtract_once(f, c, h)
  BY <1>4
<1> HIDE DEF s, zs, c
<1>17. h \in 0..q - 1 /\ Four(zs) + B * (B * (B * (B * c))) = q * (h + q * c)
  BY <1>14, FourOfHigh
<1>18. m \in 0..q - 1
  BY <1>8, <1>12, TwoFit
<1>19. (u * v + p * w1) + B * (p * w2) = u * v + p * m
  <2>1. B * (p * w2) = p * (B * w2) /\ B * w2 \in Nat /\ p * w1 \in Nat /\ u * v \in Nat
    BY <1>1, <1>8, <1>12
  <2> DEFINE g == B * w2
  <2>2. p * w1 + p * g = p * (w1 + g) /\ p * g \in Nat
    <3>1. g \in Nat
      BY <2>1
    <3> HIDE DEF g
    <3> QED
      BY <1>1, <1>8, <3>1
  <2> DEFINE i == u * v
             j == p * w1
             k == p * g
  <2>3. i \in Nat /\ j \in Nat /\ k \in Nat /\ j + k = p * m /\ B * (p * w2) = k
    BY <2>1, <2>2
  <2> HIDE DEF i, j, k
  <2>4. (i + j) + k = i + (j + k)
    BY <2>3
  <2> QED
    BY <2>3, <2>4 DEF i, j
<1> HIDE DEF h, m
<1>20. Reduced(f, u, v, c, h, m)
  BY <1>1, <1>5, <1>14, <1>15, <1>16, <1>17, <1>18, <1>19 DEF Reduced
<1> QED
  BY <1>20

\* A sum or a product, reduced, has to be subtracted from once at most.
LEMMA SubtractOnce ==
  ASSUME NEW f, IsField(f), NEW c \in Nat, NEW h \in 0..R(f) - 1, h + R(f) * c < f.p + f.p
  PROVE  LET t == h + R(f) * c
             z == subtract_once(f, c, h)
         IN  z \in 0..f.p - 1 /\ (z = t \/ z = t - f.p)
<1> DEFINE rr == R(f)
           p == f.p
           t == h + rr * c
           z == subtract_once(f, c, h)
<1>1. rr \in Nat /\ p \in Nat /\ p > 2 /\ p < rr
  <2>1. B \in Nat /\ B * B \in Nat
    BY WordAssumption
  <2> QED
    BY <2>1 DEF IsField, R
<1>2. z = (IF c = 0 /\ h < p THEN h ELSE (h - p) % rr)
  BY DEF subtract_once
<1> HIDE DEF rr, p, z
<1>3. h \in Nat /\ h < rr /\ rr * c \in Nat /\ t \in Nat /\ t < p + p
  <2>1. h \in Nat /\ h < rr
    BY <1>1 DEF rr
  <2>2. rr * c \in Nat
    BY <1>1
  <2> QED
    BY <2>1, <2>2 DEF rr, p
<1>4. CASE c = 0 /\ h < p
  <2>1. rr * c = 0
    BY <1>1, <1>4
  <2>2. z = h /\ t = h /\ h \in 0..p - 1
    BY <1>1, <1>2, <1>3, <1>4, <2>1
  <2> QED
    BY <2>2 DEF p, rr, z
<1>5. CASE ~(c = 0 /\ h < p)
  <2>1. t >= p
    <3>1. CASE c = 0
      <4>1. rr * c = 0 /\ h >= p
        BY <1>1, <1>3, <1>5, <3>1
      <4> QED
        BY <1>1, <1>3, <4>1
    <3>2. CASE c >= 1
      <4>1. rr * c >= rr * 1 /\ rr * 1 = rr
        BY <1>1, <3>2, AtLeast
      <4> QED
        BY <1>1, <1>3, <4>1
    <3> QED
      BY <3>1, <3>2
  <2>2. t - p \in 0..rr - 1 /\ t - p \in 0..p - 1
    BY <1>1, <1>3, <2>1
  <2>3. h - p = rr * (-c) + (t - p) /\ -c \in Int /\ h - p \in Int
    <3>1. rr * (-c) = -(rr * c)
      BY <1>1
    <3> QED
      BY <1>1, <1>3, <3>1
  <2> DEFINE d == t - p
             e == h - p
             k == -c
  <2>4. d \in 0..rr - 1 /\ e \in Int /\ k \in Int /\ e = rr * k + d /\ rr \in Nat /\ rr > 0
    BY <1>1, <2>2, <2>3
  <2>5. e % rr = d
    <3> HIDE DEF d, e, k
    <3> QED
      BY <2>4, DivisionIs
  <2>6. z = d
    BY <1>2, <1>5, <2>5
  <2> QED
    BY <2>2, <2>6 DEF p, rr, z
<1> QED
  BY <1>4, <1>5

\* Montgomery multiplication: the product, divided by R, modulo p.
LEMMA MulIs ==
  ASSUME NEW f, IsField(f), NEW u \in 0..R(f) - 1, NEW v \in 0..f.p - 1
  PROVE  mul(f, u, v) \in 0..f.p - 1 /\ Cong(f.p, R(f) * mul(f, u, v), u * v)
<1> DEFINE rr == R(f)
           p == f.p
           z == mul(f, u, v)
<1>1. rr \in Nat /\ p \in Nat /\ p > 2 /\ p < rr /\ u \in Nat /\ v \in Nat
  <2>1. B \in Nat /\ B * B \in Nat
    BY WordAssumption
  <2> QED
    BY <2>1 DEF IsField, R
<1>2. \E c, h, m : Reduced(f, u, v, c, h, m)
  <2>1. CASE f.words = 1
    <3>1. u \in Word /\ v \in Word
      BY <1>1, <2>1 DEF R, Word
    <3> QED
      BY <2>1, <3>1, ReducedOne
  <2>2. CASE f.words = 2
    <3>1. u \in 0..B * B - 1
      BY <2>2 DEF R
    <3> QED
      BY <2>2, <3>1, ReducedTwo
  <2> QED
    BY <2>1, <2>2 DEF IsField
<1>3. PICK c, h, m : Reduced(f, u, v, c, h, m)
  BY <1>2
<1> DEFINE t == h + rr * c
<1>4. /\ c \in Nat /\ h \in 0..rr - 1 /\ m \in 0..rr - 1 /\ rr * t = u * v + p * m
      /\ z = subtract_once(f, c, h)
  BY <1>3 DEF Reduced
<1>5. t \in Nat /\ m \in Nat /\ h \in Nat
  <2>1. rr * c \in Nat
    BY <1>1, <1>4
  <2> QED
    BY <1>1, <1>4, <2>1
<1>6. t < p + p
  <2> HIDE DEF rr, p
  <2>1. u * v \in Nat /\ u * v < rr * p
    BY <1>1, BelowProduct DEF rr, p
  <2>2. p * rr \in Nat /\ p * m \in Nat /\ p * rr >= p * m
    BY <1>1, <1>4, <1>5, AtLeast
  <2> HIDE DEF t
  <2> SUFFICES ASSUME t >= p + p
               PROVE  FALSE
    BY <1>1, <1>5
  <2>3. p + p \in Nat
    BY <1>1
  <2>4. rr * t \in Nat /\ rr * t >= rr * (p + p)
    BY <1>1, <1>5, <2>3, AtLeast
  <2>5. rr * (p + p) = rr * p + rr * p /\ rr * p = p * rr
    BY <1>1
  <2> DEFINE i == u * v
             j == p * m
             k == p * rr
             l == rr * t
  <2>6. i \in Nat /\ j \in Nat /\ k \in Nat /\ l \in Nat /\ i < k /\ k >= j /\ l >= k + k /\ l = i + j
    BY <1>4, <2>1, <2>2, <2>4, <2>5
  <2> HIDE DEF i, j, k, l
  <2> QED
    BY <2>6
<1>7. z \in 0..p - 1 /\ (z = t \/ z = t - p)
  <2>1. h + R(f) * c < f.p + f.p
    BY <1>6
  <2> QED
    BY <1>4, <2>1, SubtractOnce
<1>8. CASE z = t
  <2>1. rr * z = u * v + p * m /\ m \in Int
    BY <1>4, <1>5, <1>8
  <2> QED
    BY <1>7, <2>1 DEF Cong
<1>9. CASE z = t - p
  <2> HIDE DEF t, rr, p, z
  <2>1. rr * z = rr * t - rr * p
    BY <1>1, <1>5, <1>9
  <2>2. p * (m - rr) = p * m - rr * p
    BY <1>1, <1>5
  <2> DEFINE i == u * v
             j == p * m
             k == rr * p
             l == rr * t
  <2>3. i \in Int /\ j \in Int /\ k \in Int /\ l = i + j /\ rr * z = l - k /\ p * (m - rr) = j - k
    BY <1>1, <1>4, <1>5, <2>1, <2>2
  <2> HIDE DEF i, j, k, l
  <2>4. rr * z = i + p * (m - rr) /\ m - rr \in Int
    BY <1>1, <1>5, <2>3
  <2>5. Cong(p, rr * z, i)
    BY <2>4 DEF Cong
  <2> QED
    BY <1>7, <2>5 DEF i, p, rr, z
<1> QED
  BY <1>7, <1>8, <1>9

-----------------------------------------------------------------------------
(* What elements stand for.                                                *)

\* The numbers of a field.
LEMMA FieldNumbers ==
  ASSUME NEW f, IsField(f)
  PROVE  R(f) \in Nat /\ f.p \in Nat /\ f.p > 2 /\ f.p < R(f) /\ f.mu \in Nat /\ 1 \in 0..f.p - 1
<1>1. B \in Nat /\ B * B \in Nat
  BY WordAssumption
<1> QED
  BY <1>1 DEF IsField, R

\* The factor mu shows that R has an inverse modulo p.
LEMMA RInverse ==
  ASSUME NEW f, IsField(f)
  PROVE  \E i \in Int : Cong(f.p, R(f) * i, 1)
<1> DEFINE p == f.p
           mu == f.mu
           e == mu * p + 1
           d == e \div B
<1>1. p \in Nat /\ mu \in Nat /\ B \in Nat /\ B > 1 /\ e \in Int /\ e % B = 0
  BY FieldNumbers, WordAssumption DEF IsField
<1>2. d \in Int /\ e = B * d
  <2> HIDE DEF e
  <2>1. d \in Int /\ e = B * d + (e % B)
    BY <1>1, Division
  <2> HIDE DEF d
  <2>2. B * d \in Int
    BY <1>1, <2>1
  <2> QED
    BY <1>1, <2>1, <2>2
<1>3. B * d = 1 + p * mu
  BY <1>1, <1>2
<1> HIDE DEF d, e
<1>4. Cong(p, B * d, 1)
  BY <1>1, <1>3 DEF Cong
<1>5. CASE f.words = 1
  <2>1. R(f) = B
    BY <1>5 DEF R
  <2> QED
    BY <1>2, <1>4, <2>1
<1>6. CASE f.words = 2
  <2>1. R(f) = B * B
    BY <1>6 DEF R
  <2> DEFINE b == B * d
  <2>2. b \in Int /\ p \in Int /\ 1 \in Int
    BY <1>1, <1>2
  <2>3. ASSUME NEW o \in Int, Cong(p, b, o)
        PROVE  Cong(p, b * b, o * o)
    <3> HIDE DEF b, p
    <3> QED
      BY <2>2, <2>3, CongProduct
  <2>4. Cong(p, b * b, 1 * 1)
    BY <1>4, <2>2, <2>3
  <2>5. b * b = (B * B) * (d * d) /\ d * d \in Int /\ 1 * 1 = 1
    BY <1>1, <1>2
  <2> QED
    BY <2>1, <2>4, <2>5
<1> QED
  BY <1>5, <1>6 DEF IsField

\* A factor of R can be cancelled.
LEMMA Cancel ==
  ASSUME NEW f, IsField(f), NEW a \in Int, NEW b \in Int, Cong(f.p, R(f) * a, R(f) * b)
  PROVE  Cong(f.p, a, b)
<1> DEFINE p == f.p
           rr == R(f)
<1>1. p \in Int /\ rr \in Int
  BY FieldNumbers
<1>2. PICK i \in Int : Cong(p, rr * i, 1)
  BY RInverse
<1>3. Cong(p, rr * a, rr * b)
  OBVIOUS
<1> HIDE DEF p, rr
<1> DEFINE e == rr * i
<1>4. e \in Int /\ Cong(p, e, 1)
  BY <1>1, <1>2
<1>5. ASSUME NEW c \in Int
      PROVE  Cong(p, e * c, c)
  <2> HIDE DEF e
  <2>1. ASSUME NEW o \in Int, Cong(p, e, o)
        PROVE  Cong(p, e * c, o * c)
    BY <1>1, <1>4, <2>1, CongTimes
  <2>2. Cong(p, e * c, 1 * c)
    BY <1>4, <2>1
  <2>3. 1 * c = c
    OBVIOUS
  <2> QED
    BY <2>2, <2>3
<1> DEFINE u == rr * a
           v == rr * b
<1>6. u \in Int /\ v \in Int
  BY <1>1
<1>7. Cong(p, i * u, i * v)
  <2> HIDE DEF u, v
  <2>1. Cong(p, u, v)
    BY <1>3 DEF u, v
  <2> QED
    BY <1>1, <1>6, <2>1, CongTimes
<1>8. i * u = e * a /\ i * v = e * b
  BY <1>1
<1> DEFINE y == e * a
           z == e * b
<1>9. y \in Int /\ z \in Int
  BY <1>4
<1>10. Cong(p, y, z) /\ Cong(p, y, a) /\ Cong(p, z, b)
  BY <1>5, <1>7, <1>8
<1> HIDE DEF y, z
<1>11. Cong(p, a, y) /\ Cong(p, y, b)
  BY <1>1, <1>9, <1>10, CongSym, CongTrans
<1>12. Cong(p, a, b)
  BY <1>1, <1>9, <1>11, CongTrans
<1> QED
  BY <1>12 DEF p

\* An element stands for an integer.
Stands(f, z, k) == z \in 0..f.p - 1 /\ Cong(f.p, z, k * R(f))

\* And for what is congruent to it.
LEMMA StandsFor ==
  ASSUME NEW f, IsField(f), NEW z, NEW k \in Int, Stands(f, z, k), NEW l \in Int, Cong(f.p, k, l)
  PROVE  Stands(f, z, l)
<1> DEFINE p == f.p
           rr == R(f)
           u == k * rr
           v == l * rr
<1>1. p \in Int /\ rr \in Int /\ z \in 0..p - 1 /\ Cong(p, z, u) /\ Cong(p, k, l)
  BY FieldNumbers DEF Stands
<1> HIDE DEF p, rr
<1>2. u \in Int /\ v \in Int /\ Cong(p, u, v) /\ z \in Int
  <2>1. Cong(p, k * rr, l * rr)
    BY <1>1, CongTimes
  <2> QED
    BY <1>1, <2>1
<1> HIDE DEF u, v
<1>3. Cong(p, z, v)
  BY <1>1, <1>2, CongTrans
<1> QED
  BY <1>1, <1>3 DEF Stands, p, rr, v

\* Only one element does.
LEMMA StandsAlone ==
  ASSUME NEW f, IsField(f), NEW k \in Int, NEW y, NEW z, Stands(f, y, k), Stands(f, z, k)
  PROVE  y = z
<1> DEFINE p == f.p
           u == k * R(f)
<1>1. /\ p \in Nat /\ p \in Int /\ p > 0 /\ u \in Int /\ y \in 0..p - 1 /\ z \in 0..p - 1 /\ y \in Int /\ z \in Int
      /\ Cong(p, y, u) /\ Cong(p, z, u)
  BY FieldNumbers DEF Stands
<1> HIDE DEF p, u
<1>2. Cong(p, u, z)
  BY <1>1, CongSym
<1>3. Cong(p, y, z)
  BY <1>1, <1>2, CongTrans
<1> QED
  BY <1>1, <1>3, CongUnique

\* Multiplication in the Montgomery domain.
LEMMA MulStands ==
  ASSUME NEW f, IsField(f), NEW y, NEW z, NEW k \in Int, NEW l \in Int, Stands(f, y, k), Stands(f, z, l)
  PROVE  Stands(f, mul(f, y, z), k * l)
<1> DEFINE p == f.p
           rr == R(f)
           m == mul(f, y, z)
           u == k * rr
           v == l * rr
           o == (k * l) * rr
<1>1. p \in Nat /\ rr \in Nat /\ p < rr /\ y \in 0..p - 1 /\ z \in 0..p - 1 /\ Cong(p, y, u) /\ Cong(p, z, v)
  BY FieldNumbers DEF Stands
<1>2. m \in 0..p - 1 /\ Cong(p, rr * m, y * z)
  <2>1. y \in 0..rr - 1
    BY <1>1
  <2> QED
    BY <1>1, <2>1, MulIs
<1> HIDE DEF p, rr, m
<1>3. p \in Int /\ y \in Int /\ z \in Int /\ u \in Int /\ v \in Int /\ m \in Int /\ o \in Int
  BY <1>1, <1>2
<1>4. u * v = rr * o
  <2>1. (k * rr) * (l * rr) = rr * ((k * l) * rr)
    BY <1>1
  <2> QED
    BY <2>1
<1> HIDE DEF u, v, o
<1>5. Cong(p, y * z, u * v)
  BY <1>1, <1>3, CongProduct
<1> DEFINE i == rr * m
           j == y * z
           h == u * v
<1>6. i \in Int /\ j \in Int /\ h \in Int /\ Cong(p, i, j) /\ Cong(p, j, h)
  BY <1>1, <1>2, <1>3, <1>5
<1>7. Cong(p, i, h)
  <2> HIDE DEF i, j, h
  <2> QED
    BY <1>3, <1>6, CongTrans
<1>8. Cong(p, rr * m, rr * o)
  BY <1>4, <1>7
<1>9. Cong(p, m, o)
  BY <1>3, <1>8, Cancel DEF p, rr
<1> QED
  BY <1>2, <1>9 DEF Stands, p, rr, m, o

\* An integer of the width, in the Montgomery domain.
LEMMA MontgomeryStands ==
  ASSUME NEW f, IsField(f), NEW k \in 0..R(f) - 1
  PROVE  Stands(f, montgomery(f, k), k)
<1> DEFINE p == f.p
           rr == R(f)
           q == f.r2
           m == mul(f, k, q)
           g == rr * rr
           o == k * rr
<1>1. p \in Nat /\ p > 2 /\ rr \in Nat /\ k \in Nat /\ p \in Int /\ k \in Int
  BY FieldNumbers
<1>2. q = g % p /\ g \in Int
  BY <1>1 DEF IsField
<1>3. q \in 0..p - 1 /\ Cong(p, q, g)
  <2> HIDE DEF g, p, q
  <2> QED
    BY <1>1, <1>2, CongRemainder
<1>4. m \in 0..p - 1 /\ Cong(p, rr * m, k * q)
  BY <1>3, MulIs
<1>5. montgomery(f, k) = m
  <2>1. m < p
    <3> HIDE DEF m, p
    <3> QED
      BY <1>1, <1>4
  <2> QED
    BY <2>1 DEF montgomery, modp
<1> HIDE DEF p, rr, q, m
<1>6. k * g = rr * o /\ o \in Int /\ m \in Int /\ q \in Int
  BY <1>1, <1>3, <1>4
<1> HIDE DEF g, o
<1>7. Cong(p, k * q, k * g)
  BY <1>1, <1>2, <1>3, <1>6, CongTimes
<1> DEFINE i == rr * m
           j == k * q
           h == k * g
<1>8. i \in Int /\ j \in Int /\ h \in Int /\ Cong(p, i, j) /\ Cong(p, j, h)
  BY <1>1, <1>2, <1>4, <1>6, <1>7
<1>9. Cong(p, i, h)
  <2> HIDE DEF i, j, h
  <2> QED
    BY <1>1, <1>8, CongTrans
<1>10. Cong(p, rr * m, rr * o)
  BY <1>6, <1>9
<1>11. Cong(p, m, o)
  BY <1>6, <1>10, Cancel DEF p, rr
<1> QED
  BY <1>4, <1>5, <1>11 DEF Stands, p, rr, m, o

\* An element, out of the Montgomery domain.
LEMMA ResidueIs ==
  ASSUME NEW f, IsField(f), NEW z, NEW k \in Int, Stands(f, z, k)
  PROVE  residue(f, z) \in 0..f.p - 1 /\ Cong(f.p, residue(f, z), k)
<1> DEFINE p == f.p
           rr == R(f)
           m == mul(f, z, 1)
           o == k * rr
<1>1. p \in Nat /\ rr \in Nat /\ p < rr /\ 1 \in 0..p - 1 /\ z \in 0..p - 1 /\ Cong(p, z, o)
  BY FieldNumbers DEF Stands
<1>2. m \in 0..p - 1 /\ Cong(p, rr * m, z * 1)
  <2>1. z \in 0..rr - 1
    BY <1>1
  <2>2. ASSUME NEW e \in 0..f.p - 1
        PROVE  mul(f, z, e) \in 0..f.p - 1 /\ Cong(f.p, R(f) * mul(f, z, e), z * e)
    BY <2>1, MulIs
  <2> QED
    BY <1>1, <2>2
<1>3. residue(f, z) = m
  <2>1. m < p
    <3> HIDE DEF m, p
    <3> QED
      BY <1>1, <1>2
  <2> QED
    BY <2>1 DEF residue, modp
<1> HIDE DEF p, rr, m
<1>4. z * 1 = z /\ z \in Int /\ p \in Int /\ m \in Int /\ o = rr * k /\ o \in Int
  BY <1>1, <1>2
<1> DEFINE i == rr * m
<1>5. i \in Int /\ Cong(p, i, z)
  BY <1>1, <1>2, <1>4
<1> HIDE DEF i, o
<1>6. Cong(p, i, o)
  BY <1>1, <1>4, <1>5, CongTrans
<1>7. Cong(p, rr * m, rr * k)
  BY <1>4, <1>6 DEF i
<1>8. Cong(p, m, k)
  BY <1>4, <1>7, Cancel DEF p, rr
<1> QED
  BY <1>2, <1>3, <1>8 DEF p

\* Every element that stands for a residue is exact.
LEMMA Exact ==
  ASSUME NEW f, IsField(f), NEW z, NEW k \in 0..f.p - 1, Stands(f, z, k)
  PROVE  z \in 0..f.p - 1 /\ residue(f, z) = k /\ z = montgomery(f, k)
<1>1. f.p \in Nat /\ f.p > 0 /\ k \in Int /\ k \in 0..R(f) - 1
  BY FieldNumbers
<1>2. residue(f, z) \in 0..f.p - 1 /\ Cong(f.p, residue(f, z), k)
  BY <1>1, ResidueIs
<1>3. residue(f, z) = k
  <2> DEFINE p == f.p
             m == residue(f, z)
  <2>1. p \in Nat /\ p > 0 /\ k \in 0..p - 1 /\ m \in 0..p - 1 /\ Cong(p, m, k)
    BY <1>1, <1>2
  <2> HIDE DEF p, m
  <2>2. m = k
    BY <2>1, CongUnique
  <2> QED
    BY <2>2 DEF m
<1>4. Stands(f, montgomery(f, k), k)
  BY <1>1, MontgomeryStands
<1>5. z = montgomery(f, k)
  BY <1>1, <1>4, StandsAlone
<1> QED
  BY <1>3, <1>5 DEF Stands

\* Addition.
LEMMA AddStands ==
  ASSUME NEW f, IsField(f), NEW y, NEW z, NEW k \in Int, NEW l \in Int, Stands(f, y, k), Stands(f, z, l)
  PROVE  Stands(f, add(f, y, z), k + l)
<1> DEFINE p == f.p
           rr == R(f)
           s == y + z
           c == s \div rr
           h == s % rr
           m == add(f, y, z)
           u == k * rr
           v == l * rr
           o == (k + l) * rr
<1>1. /\ p \in Nat /\ p > 2 /\ rr \in Nat /\ p < rr /\ y \in 0..p - 1 /\ z \in 0..p - 1
      /\ Cong(p, y, u) /\ Cong(p, z, v)
  BY FieldNumbers DEF Stands
<1>2. m = subtract_once(f, c, h)
  BY DEF add
<1>3. s \in Nat /\ s < p + p
  BY <1>1
<1>4. c \in Nat /\ h \in 0..rr - 1 /\ s = h + rr * c
  <2> HIDE DEF s, rr
  <2>1. s \in Int /\ rr > 0
    BY <1>1, <1>3
  <2>2. c \in Int /\ h \in 0..rr - 1 /\ s = rr * c + h
    BY <1>1, <2>1, Division
  <2> HIDE DEF c, h
  <2>3. c >= 0
    <3> SUFFICES ASSUME c <= -1 PROVE FALSE
      BY <2>2
    <3>1. rr * c <= -rr /\ rr * c \in Int
      BY <1>1, <2>2
    <3> QED
      BY <1>1, <1>3, <2>2, <3>1
  <2>4. rr * c \in Int
    BY <1>1, <2>2
  <2> QED
    BY <1>1, <2>2, <2>3, <2>4
<1>5. m \in 0..p - 1 /\ (m = s \/ m = s - p)
  <2> HIDE DEF c, h, s
  <2>1. h + R(f) * c < f.p + f.p
    BY <1>3, <1>4
  <2>2. LET t == h + R(f) * c
            e == subtract_once(f, c, h)
        IN  e \in 0..f.p - 1 /\ (e = t \/ e = t - f.p)
    BY <1>4, <2>1, SubtractOnce
  <2> QED
    BY <1>2, <1>4, <2>2
<1> HIDE DEF p, rr, m, c, h
<1>6. p \in Int /\ y \in Int /\ z \in Int /\ u \in Int /\ v \in Int /\ o = u + v /\ m \in Int /\ o \in Int /\ s \in Int
  BY <1>1, <1>5
<1> HIDE DEF u, v, o
<1>7. Cong(p, s, o)
  BY <1>1, <1>6, CongSum
<1> HIDE DEF s
<1>8. Cong(p, m, s)
  <2>1. m = s + p * 0 \/ m = s + p * (-1)
    BY <1>5, <1>6
  <2> QED
    BY <2>1 DEF Cong
<1>9. Cong(p, m, o)
  BY <1>6, <1>7, <1>8, CongTrans
<1> QED
  BY <1>5, <1>9 DEF Stands, p, rr, m, o

\* Subtraction.
LEMMA SubStands ==
  ASSUME NEW f, IsField(f), NEW y, NEW z, NEW k \in Int, NEW l \in Int, Stands(f, y, k), Stands(f, z, l)
  PROVE  Stands(f, sub(f, y, z), k - l)
<1> DEFINE p == f.p
           rr == R(f)
           s == y - z
           m == sub(f, y, z)
           u == k * rr
           v == l * rr
           o == (k - l) * rr
<1>1. /\ p \in Nat /\ p > 2 /\ rr \in Nat /\ p < rr /\ y \in 0..p - 1 /\ z \in 0..p - 1
      /\ Cong(p, y, u) /\ Cong(p, z, v)
  BY FieldNumbers DEF Stands
<1>2. m = IF y < z THEN ((s % rr) + p) % rr ELSE s % rr
  BY DEF sub
<1> HIDE DEF p, rr, m
<1>3. m \in 0..p - 1 /\ (m = s \/ m = s + p)
  <2>1. ASSUME NEW a \in Int, NEW q \in Int, NEW b \in 0..rr - 1, a = rr * q + b
        PROVE  a % rr = b
    BY <1>1, <2>1, DivisionIs
  <2>2. CASE y < z
    <3>1. s \in Int /\ s + rr \in 0..rr - 1 /\ s = rr * (-1) + (s + rr)
      BY <1>1, <2>2
    <3>2. s % rr = s + rr
      BY <2>1, <3>1
    <3>3. (s + rr) + p \in Int /\ s + p \in 0..rr - 1 /\ (s + rr) + p = rr * 1 + (s + p) /\ s + p \in 0..p - 1
      BY <1>1, <2>2
    <3>4. ((s + rr) + p) % rr = s + p
      BY <2>1, <3>3
    <3> QED
      BY <1>2, <2>2, <3>2, <3>3, <3>4
  <2>3. CASE ~(y < z)
    <3>1. s \in Int /\ s \in 0..rr - 1 /\ s = rr * 0 + s /\ s \in 0..p - 1
      BY <1>1, <2>3
    <3>2. s % rr = s
      BY <2>1, <3>1
    <3> QED
      BY <1>2, <2>3, <3>1, <3>2
  <2> QED
    BY <2>2, <2>3
<1>4. p \in Int /\ y \in Int /\ z \in Int /\ u \in Int /\ v \in Int /\ o = u - v /\ m \in Int /\ o \in Int /\ s \in Int
  BY <1>1, <1>3
<1> HIDE DEF u, v, o
<1>5. Cong(p, s, o)
  BY <1>1, <1>4, CongSum
<1> HIDE DEF s
<1>6. Cong(p, m, s)
  <2>1. m = s + p * 0 \/ m = s + p * 1
    BY <1>3, <1>4
  <2> QED
    BY <2>1 DEF Cong
<1>7. Cong(p, m, o)
  BY <1>4, <1>5, <1>6, CongTrans
<1> QED
  BY <1>3, <1>7 DEF Stands, p, rr, m, o

-----------------------------------------------------------------------------
(* Powers.                                                                 *)

\* The recursion of powers has a solution.
LEMMA PowersIs ==
  ASSUME NEW k \in Int, NEW p \in Nat, p > 0
  PROVE  /\ powers(k, p) \in [Nat -> Int] /\ powers(k, p)[0] = 1
         /\ \A e \in Nat : /\ powers(k, p)[e + 1] = (powers(k, p)[e] * k) % p
                           /\ powers(k, p)[e + 1] \in 0..p - 1
<1> DEFINE Body(q, e) == IF e = 0 THEN 1 ELSE (q[e - 1] * k) % p
           Is(q) == q = [e \in Nat |-> Body(q, e)]
           G == [e \in Nat \ {0} |-> [v \in Int |-> (v * k) % p]]
<1>1. ASSUME NEW v \in Int
      PROVE  (v * k) % p \in Int /\ (v * k) % p \in 0..p - 1
  <2> DEFINE a == v * k
  <2>1. a \in Int
    OBVIOUS
  <2> HIDE DEF a
  <2>2. a % p \in 0..p - 1
    BY <2>1, CongRemainder
  <2> QED
    BY <2>2 DEF a
<1>2. 1 \in Int /\ \A e \in Nat \ {0} : G[e] \in [Int -> Int]
  BY <1>1
<1>3. PICK g \in [Nat -> Int] : g[0] = 1 /\ \A e \in Nat \ {0} : g[e] = G[e][g[e - 1]]
  <2> HIDE DEF G
  <2> DEFINE T == Int
             base == 1
  <2>1. base \in T /\ AreSteps(G, T)
    BY <1>2 DEF AreSteps
  <2> HIDE DEF T, base
  <2>2. \E g : Takes(g, T, base, G)
    BY <2>1, Recursion
  <2> QED
    BY <2>2 DEF T, base, Takes
<1>4. Is(g)
  <2>1. ASSUME NEW e \in Nat
        PROVE  g[e] = Body(g, e)
    <3>1. CASE e = 0
      BY <1>3, <3>1
    <3>2. CASE e # 0
      <4>1. e \in Nat \ {0} /\ e - 1 \in Nat
        BY <3>2
      <4>2. g[e] = G[e][g[e - 1]] /\ g[e - 1] \in Int
        <5> HIDE DEF G
        <5> QED
          BY <1>3, <4>1
      <4> QED
        BY <3>2, <4>1, <4>2
    <3> QED
      BY <3>1, <3>2
  <2> HIDE DEF Body
  <2> QED
    BY <1>3, <2>1
<1> DEFINE q == CHOOSE q2 : Is(q2)
<1>5. Is(q)
  <2> HIDE DEF Is
  <2> QED
    BY <1>4
<1>6. q = powers(k, p)
  BY DEF powers
<1> HIDE DEF q
<1>7. q = [e \in Nat |-> q[e]] /\ q[0] = 1
  BY <1>5
<1>8. \A e \in Nat : q[e + 1] = (q[e] * k) % p
  <2> TAKE e \in Nat
  <2>1. e + 1 \in Nat /\ e + 1 # 0 /\ (e + 1) - 1 = e
    OBVIOUS
  <2> QED
    BY <1>5, <2>1
<1>9. ASSUME NEW e \in Nat
      PROVE  q[e] \in Int
  <2> DEFINE S == {i \in 0..e : q[i] \in Int}
  <2>1. 0 \in S
    BY <1>7
  <2>2. ASSUME NEW i \in 0..e - 1, i \in S
        PROVE  i + 1 \in S
    <3>1. i \in Nat /\ q[i] \in Int /\ i + 1 \in 0..e
      BY <2>2
    <3>2. q[i + 1] \in Int
      BY <1>1, <1>8, <3>1
    <3> QED
      BY <3>1, <3>2
  <2>3. 0..e \subseteq S
    <3> HIDE DEF S
    <3> QED
      BY <2>1, <2>2, IntervalInduction
  <2> QED
    BY <2>3
<1>10. \A e \in Nat : q[e + 1] \in 0..p - 1
  BY <1>1, <1>8, <1>9
<1> QED
  BY <1>6, <1>7, <1>8, <1>9, <1>10

\* A power is the product of powers whose exponents add up to its own.
LEMMA PowersAdd ==
  ASSUME NEW k \in Int, NEW p \in Nat, p > 0, NEW a \in Nat, NEW b \in Nat
  PROVE  Cong(p, powers(k, p)[a + b], powers(k, p)[a] * powers(k, p)[b])
<1> DEFINE q == powers(k, p)
           S == {i \in 0..b : Cong(p, q[a + i], q[a] * q[i])}
<1>1. q \in [Nat -> Int] /\ q[0] = 1 /\ \A e \in Nat : q[e + 1] = (q[e] * k) % p
  BY PowersIs
<1> HIDE DEF q
<1>2. 0 \in S
  <2>1. a + 0 = a /\ q[a] \in Int /\ q[a] * 1 = q[a] /\ p \in Int
    BY <1>1
  <2>2. Cong(p, q[a], q[a])
    BY <2>1, CongRefl
  <2> QED
    BY <1>1, <2>1, <2>2
<1>3. ASSUME NEW i \in 0..b - 1, i \in S
      PROVE  i + 1 \in S
  <2> DEFINE u == q[a]
             v == q[i]
             w == q[a + i]
             v2 == q[i + 1]
             w2 == q[(a + i) + 1]
  <2>1. i \in Nat /\ a + i \in Nat /\ (a + i) + 1 = a + (i + 1) /\ i + 1 \in 0..b /\ p \in Int /\ i + 1 \in Nat
    OBVIOUS
  <2>2. u \in Int /\ v \in Int /\ w \in Int /\ v2 = (v * k) % p /\ w2 = (w * k) % p /\ Cong(p, w, u * v)
        /\ v2 \in Int /\ w2 \in Int
    BY <1>1, <1>3, <2>1
  <2> HIDE DEF u, v, w, v2, w2
  <2> DEFINE vk == v * k
             wk == w * k
             uv == u * v
  <2>3. vk \in Int /\ wk \in Int /\ uv \in Int /\ v2 = vk % p /\ w2 = wk % p /\ uv * k = u * vk /\ Cong(p, w, uv)
    BY <2>2
  <2>4. Cong(p, wk, uv * k)
    <3> HIDE DEF uv
    <3> QED
      BY <2>1, <2>2, <2>3, CongTimes
  <2> HIDE DEF vk, wk, uv
  <2>5. Cong(p, w2, wk) /\ Cong(p, vk, v2)
    BY <2>3, CongRemainder
  <2>6. Cong(p, u * vk, u * v2)
    BY <2>1, <2>2, <2>3, <2>5, CongTimes
  <2> DEFINE i1 == u * vk
             i2 == u * v2
  <2>7. i1 \in Int /\ i2 \in Int /\ Cong(p, wk, i1) /\ Cong(p, i1, i2)
    BY <2>2, <2>3, <2>4, <2>6
  <2> HIDE DEF i1, i2
  <2>8. Cong(p, w2, i1)
    BY <2>1, <2>2, <2>3, <2>5, <2>7, CongTrans
  <2>9. Cong(p, w2, i2)
    BY <2>1, <2>2, <2>7, <2>8, CongTrans
  <2> QED
    BY <2>1, <2>9 DEF i2, u, v2, w2
<1>4. 0..b \subseteq S
  <2> HIDE DEF S
  <2> QED
    BY <1>2, <1>3, IntervalInduction
<1>5. b \in S
  BY <1>4
<1> QED
  BY <1>5 DEF q

\* The recursion of shifted has a solution.
LEMMA ShiftedIs ==
  ASSUME NEW exp \in Nat
  PROVE  /\ shifted(exp) \in [Nat -> Nat] /\ shifted(exp)[0] = exp
         /\ \A e \in Nat : shifted(exp)[e + 1] = shifted(exp)[e] \div 2
<1> DEFINE Body(q, e) == IF e = 0 THEN exp ELSE q[e - 1] \div 2
           Is(q) == q = [e \in Nat |-> Body(q, e)]
           G == [e \in Nat \ {0} |-> [v \in Nat |-> v \div 2]]
<1>1. ASSUME NEW v \in Nat
      PROVE  v \div 2 \in Nat
  OBVIOUS
<1>2. \A e \in Nat \ {0} : G[e] \in [Nat -> Nat]
  BY <1>1
<1>3. PICK g \in [Nat -> Nat] : g[0] = exp /\ \A e \in Nat \ {0} : g[e] = G[e][g[e - 1]]
  <2> HIDE DEF G
  <2> DEFINE T == Nat
  <2>1. exp \in T /\ AreSteps(G, T)
    BY <1>2 DEF AreSteps
  <2> HIDE DEF T
  <2>2. \E g : Takes(g, T, exp, G)
    BY <2>1, Recursion
  <2> QED
    BY <2>2 DEF T, Takes
<1>4. Is(g)
  <2>1. ASSUME NEW e \in Nat
        PROVE  g[e] = Body(g, e)
    <3>1. CASE e = 0
      BY <1>3, <3>1
    <3>2. CASE e # 0
      <4>1. e \in Nat \ {0} /\ e - 1 \in Nat
        BY <3>2
      <4>2. g[e] = G[e][g[e - 1]] /\ g[e - 1] \in Nat
        <5> HIDE DEF G
        <5> QED
          BY <1>3, <4>1
      <4> QED
        BY <3>2, <4>1, <4>2
    <3> QED
      BY <3>1, <3>2
  <2> HIDE DEF Body
  <2> QED
    BY <1>3, <2>1
<1> DEFINE q == CHOOSE q2 : Is(q2)
<1>5. Is(q)
  <2> HIDE DEF Is
  <2> QED
    BY <1>4
<1>6. q = shifted(exp)
  BY DEF shifted
<1> HIDE DEF q
<1>7. q = [e \in Nat |-> q[e]] /\ q[0] = exp
  BY <1>5
<1>8. \A e \in Nat : q[e + 1] = q[e] \div 2
  <2> TAKE e \in Nat
  <2>1. e + 1 \in Nat /\ e + 1 # 0 /\ (e + 1) - 1 = e
    OBVIOUS
  <2> QED
    BY <1>5, <2>1
<1>9. ASSUME NEW e \in Nat
      PROVE  q[e] \in Nat
  <2> DEFINE S == {i \in 0..e : q[i] \in Nat}
  <2>1. 0 \in S
    BY <1>7
  <2>2. ASSUME NEW i \in 0..e - 1, i \in S
        PROVE  i + 1 \in S
    <3>1. i \in Nat /\ q[i] \in Nat /\ i + 1 \in 0..e
      BY <2>2
    <3>2. q[i + 1] \in Nat
      BY <1>1, <1>8, <3>1
    <3> QED
      BY <3>1, <3>2
  <2>3. 0..e \subseteq S
    <3> HIDE DEF S
    <3> QED
      BY <2>1, <2>2, IntervalInduction
  <2> QED
    BY <2>3
<1> QED
  BY <1>6, <1>7, <1>8, <1>9

\* An exponent is shifted to nothing by as many bits as it has.
LEMMA BitLengthIs ==
  ASSUME NEW exp \in Nat
  PROVE  bit_length(exp) \in Nat /\ shifted(exp)[bit_length(exp)] = 0
<1> DEFINE s == shifted(exp)
           S == {i \in 0..exp : s[i] <= exp - i}
           Z == {l \in Nat : s[l] = 0}
           Is(l) == s[l] = 0 /\ (l > 0 => s[l - 1] # 0)
<1>1. s \in [Nat -> Nat] /\ s[0] = exp /\ \A e \in Nat : s[e + 1] = s[e] \div 2
  BY ShiftedIs
<1> HIDE DEF s
<1>2. 0 \in S
  BY <1>1
<1>3. ASSUME NEW i \in 0..exp - 1, i \in S
      PROVE  i + 1 \in S
  <2> DEFINE a == s[i]
  <2>1. i \in Nat /\ a \in Nat /\ a <= exp - i /\ s[i + 1] = a \div 2 /\ i + 1 \in 0..exp /\ exp - i >= 1
    BY <1>1, <1>3
  <2> HIDE DEF a
  <2>2. a = 0 \/ a \div 2 <= a - 1
    BY <2>1
  <2>3. a \div 2 <= exp - (i + 1)
    BY <2>1, <2>2
  <2> QED
    BY <2>1, <2>3
<1>4. 0..exp \subseteq S
  <2> HIDE DEF S
  <2> QED
    BY <1>2, <1>3, IntervalInduction
<1>5. exp \in Z
  <2>1. s[exp] <= 0
    BY <1>4
  <2> QED
    BY <1>1, <2>1
<1>6. PICK l \in Z : \A m \in Z : l <= m
  <2>1. Z \in SUBSET Nat /\ Z # {}
    BY <1>5
  <2> HIDE DEF Z
  <2> QED
    BY <2>1, LeastElement
<1>7. l \in 0..exp /\ Is(l)
  <2>1. l \in Nat /\ s[l] = 0 /\ l <= exp
    BY <1>5, <1>6
  <2>2. l > 0 => s[l - 1] # 0
    <3> SUFFICES ASSUME l > 0, s[l - 1] = 0
                 PROVE  FALSE
      OBVIOUS
    <3>1. l - 1 \in Z
      BY <2>1
    <3> QED
      BY <1>6, <2>1, <3>1
  <2> QED
    BY <2>1, <2>2
<1> DEFINE b == CHOOSE l2 \in 0..exp : Is(l2)
<1>8. b \in 0..exp /\ Is(b)
  <2> HIDE DEF Is
  <2> QED
    BY <1>7
<1>9. b = bit_length(exp)
  BY DEF bit_length, s
<1> HIDE DEF b
<1> QED
  BY <1>8, <1>9 DEF s

\* One bit of the exponent: square, and multiply when it is set.
LEMMA PowStep ==
  ASSUME NEW f, IsField(f), NEW z, NEW k \in Int, Stands(f, z, k), NEW t, NEW d \in Nat,
         Stands(f, t, powers(k, f.p)[d \div 2])
  PROVE  Stands(f, IF d % 2 = 1 THEN mul(f, mul(f, t, t), z) ELSE mul(f, t, t), powers(k, f.p)[d])
<1> DEFINE p == f.p
           q == powers(k, p)
           g == d \div 2
           v == q[g]
           w == q[g + g]
           sq == mul(f, t, t)
<1>1. p \in Nat /\ p > 0 /\ p \in Int
  BY FieldNumbers
<1>2. q \in [Nat -> Int] /\ \A e \in Nat : q[e + 1] = (q[e] * k) % p
  BY <1>1, PowersIs
<1>3. g \in Nat /\ g + g \in Nat /\ (d % 2 = 1 \/ d % 2 = 0) /\ d = 2 * g + (d % 2)
  OBVIOUS
<1>4. v \in Int /\ w \in Int /\ v * v \in Int
  BY <1>2, <1>3
<1>5. Cong(p, w, v * v)
  <2> HIDE DEF g, p
  <2> QED
    BY <1>1, <1>3, PowersAdd
<1>6. Stands(f, t, v)
  OBVIOUS
<1>7. Stands(f, sq, v * v)
  <2> HIDE DEF v
  <2> QED
    BY <1>4, <1>6, MulStands
<1>8. Stands(f, sq, w)
  <2> DEFINE vv == v * v
  <2>1. vv \in Int /\ Cong(p, w, vv) /\ Stands(f, sq, vv)
    BY <1>4, <1>5, <1>7
  <2> HIDE DEF vv, w
  <2>2. Cong(p, vv, w)
    <3> HIDE DEF p
    <3> QED
      BY <1>1, <1>4, <2>1, CongSym
  <2> HIDE DEF sq
  <2> QED
    BY <1>4, <2>1, <2>2, StandsFor
<1>9. CASE d % 2 = 1
  <2>1. d = (g + g) + 1
    BY <1>3, <1>9
  <2> DEFINE wk == w * k
             o == q[d]
             m == mul(f, sq, z)
  <2>2. o = wk % p /\ wk \in Int /\ o \in Int
    BY <1>2, <1>3, <1>4, <2>1
  <2>3. Stands(f, m, wk)
    <3> HIDE DEF w, sq
    <3> QED
      BY <1>4, <1>8, MulStands
  <2>4. Cong(p, wk, o)
    <3> HIDE DEF wk, o, p
    <3> QED
      BY <1>1, <2>2, CongRemainder
  <2>5. Stands(f, m, o)
    <3> HIDE DEF wk, o, m
    <3> QED
      BY <2>2, <2>3, <2>4, StandsFor
  <2> QED
    BY <1>9, <2>5
<1>10. CASE d % 2 = 0
  <2>1. d = g + g
    BY <1>3, <1>10
  <2> QED
    BY <1>8, <1>10, <2>1
<1> QED
  BY <1>3, <1>9, <1>10

\* Square and multiply.
LEMMA PowStands ==
  ASSUME NEW f, IsField(f), NEW z, NEW k \in Int, Stands(f, z, k), NEW exp \in Nat
  PROVE  Stands(f, pow(f, z, exp), powers(k, f.p)[exp])
<1> DEFINE len == bit_length(exp)
           s == shifted(exp)
           T == 0..f.p - 1
           one == montgomery(f, 1)
           Bit(t, i) == IF s[len - i] % 2 = 1 THEN mul(f, mul(f, t, t), z) ELSE mul(f, t, t)
           Body(e, i) == IF i = 0 THEN one ELSE Bit(e[i - 1], i)
           Is(e) == e = [i \in 0..len |-> Body(e, i)]
           G == [i \in 1..len |-> [t \in T |-> Bit(t, i)]]
<1>1. len \in Nat /\ s[len] = 0
  BY BitLengthIs
<1>2. s \in [Nat -> Nat] /\ s[0] = exp /\ \A e \in Nat : s[e + 1] = s[e] \div 2
  BY ShiftedIs
<1>3. f.p \in Nat /\ f.p > 0 /\ 1 \in 0..R(f) - 1 /\ 1 \in Int
  BY FieldNumbers
<1>4. Stands(f, one, 1) /\ one \in T
  <2>1. ASSUME NEW o \in 0..R(f) - 1
        PROVE  Stands(f, montgomery(f, o), o)
    BY MontgomeryStands
  <2>2. Stands(f, one, 1)
    BY <1>3, <2>1
  <2> QED
    BY <2>2 DEF Stands
<1>5. ASSUME NEW t \in T, NEW y \in T
      PROVE  mul(f, t, y) \in T
  <2>1. t \in 0..R(f) - 1
    BY FieldNumbers
  <2> QED
    BY <2>1, MulIs
<1>6. z \in T
  BY DEF Stands
<1>7. ASSUME NEW i \in 1..len
      PROVE  G[i] \in [T -> T]
  <2>1. \A t \in T : Bit(t, i) \in T
    <3> HIDE DEF T
    <3> QED
      BY <1>5, <1>6
  <2> HIDE DEF T, Bit
  <2> QED
    BY <2>1
<1>8. PICK g : IsRun(g, len, T, one, G)
  <2> HIDE DEF G, T, len, one
  <2> QED
    BY <1>1, <1>4, <1>7, RunExists
<1>9. Is(g)
  <2> HIDE DEF T, len, one, Bit
  <2>1. g \in [0..len -> T] /\ g[0] = one
    BY <1>8 DEF IsRun
  <2>2. ASSUME NEW i \in 1..len
        PROVE  g[i] = Body(g, i)
    <3>1. g[i] = G[i][g[i - 1]]
      <4> HIDE DEF G
      <4> QED
        BY <1>8 DEF IsRun
    <3>2. i - 1 \in 0..len /\ i # 0
      BY <1>1
    <3>3. g[i - 1] \in T
      BY <2>1, <3>2
    <3> QED
      BY <3>1, <3>2, <3>3
  <2>3. ASSUME NEW i \in 0..len
        PROVE  g[i] = Body(g, i)
    <3>1. i = 0 \/ i \in 1..len
      BY <1>1
    <3> QED
      BY <2>1, <2>2, <3>1
  <2> HIDE DEF Body
  <2> QED
    BY <2>1, <2>3
<1> DEFINE e == CHOOSE e2 : Is(e2)
<1>10. Is(e)
  <2> HIDE DEF Is
  <2> QED
    BY <1>9
<1>11. pow(f, z, exp) = e[len]
  BY DEF pow
<1> HIDE DEF e
<1> DEFINE q == powers(k, f.p)
           S == {i \in 0..len : Stands(f, e[i], q[s[len - i]])}
<1>12. q[0] = 1
  BY <1>3, PowersIs
<1>13. 0 \in S
  <2>1. len - 0 = len /\ 0 \in 0..len
    BY <1>1
  <2>2. e[0] = one
    <3> HIDE DEF one, len, Bit
    <3> QED
      BY <1>10, <2>1
  <2> HIDE DEF one, q, len, s
  <2> QED
    BY <1>1, <1>4, <1>12, <2>1, <2>2
<1>14. ASSUME NEW i \in 0..len - 1, i \in S
       PROVE  i + 1 \in S
  <2> DEFINE j == i + 1
             d == s[len - j]
             t == e[i]
  <2> HIDE DEF len, s, q
  <2>1. j \in 0..len /\ j # 0 /\ j - 1 = i /\ len - j \in Nat /\ (len - j) + 1 = len - i /\ j \in Nat
    BY <1>1
  <2>2. d \in Nat /\ s[len - i] = d \div 2
    <3> DEFINE a == len - j
    <3>1. a \in Nat /\ a + 1 = len - i
      BY <2>1
    <3> HIDE DEF a
    <3>2. s[a] \in Nat /\ s[a + 1] = s[a] \div 2
      BY <1>2, <3>1
    <3> QED
      BY <3>1, <3>2 DEF a
  <2>3. Stands(f, t, q[d \div 2])
    BY <1>14, <2>2
  <2>4. e[j] = Bit(t, j)
    <3> HIDE DEF Bit, j, one
    <3> QED
      BY <1>10, <2>1
  <2>5. Stands(f, e[j], q[d])
    <3>1. e[j] = IF d % 2 = 1 THEN mul(f, mul(f, t, t), z) ELSE mul(f, t, t)
      BY <2>4
    <3> HIDE DEF d, t
    <3>2. Stands(f, IF d % 2 = 1 THEN mul(f, mul(f, t, t), z) ELSE mul(f, t, t), q[d])
      BY <2>2, <2>3, PowStep DEF q
    <3> QED
      BY <3>1, <3>2
  <2> QED
    BY <2>1, <2>5
<1>15. 0..len \subseteq S
  <2> HIDE DEF S, len
  <2> QED
    BY <1>1, <1>13, <1>14, IntervalInduction
<1>16. Stands(f, e[len], q[s[len - len]])
  <2> HIDE DEF len, q, s
  <2>1. len \in 0..len
    BY <1>1
  <2> QED
    BY <1>15, <2>1
<1>17. len - len = 0
  BY <1>1
<1> QED
  BY <1>2, <1>11, <1>16, <1>17

-----------------------------------------------------------------------------
(* The specification.                                                      *)

\* The parameters of a modulus make a field, and its powers are those of a prime.
PrimeField(f) == \A k \in 1..f.p - 1 : powers(k, f.p)[f.p - 1] = 1

\* Those of the moduli do.
LEMMA ParametersAreFields ==
  ASSUME PrimeModuli, RoomAbove, NEW m \in Moduli
  PROVE  IsField(FieldParameters(m)) /\ PrimeField(FieldParameters(m))
<1> DEFINE f == FieldParameters(m)
           mu == CHOOSE i \in 0..B - 1 : IsMu(i, m)
<1>1. m.words \in {1, 2} /\ m.p \in 3..R(m) - 1 /\ \E i \in 0..B - 1 : IsMu(i, m)
  BY ModuliAssumption
<1>2. mu \in 0..B - 1 /\ IsMu(mu, m)
  BY <1>1
<1>3. f.p = m.p /\ f.words = m.words /\ f.mu = mu /\ f.r2 = (R(m) * R(m)) % m.p
  BY DEF FieldParameters
<1>4. R(f) = R(m)
  BY <1>3 DEF R
<1> HIDE DEF f, mu
<1>5. B \in Nat /\ mu \in Nat /\ (mu * m.p + 1) % B = 0
  BY <1>2, WordAssumption DEF IsMu
<1>6. R(m) \in Nat
  <2>1. B * B \in Nat /\ B \in Nat
    BY WordAssumption
  <2> QED
    BY <2>1 DEF R
<1>7. m.words = 2 => m.p + B <= R(m)
  BY DEF RoomAbove
<1>8. IsField(f)
  BY <1>1, <1>3, <1>4, <1>5, <1>6, <1>7 DEF IsField
<1>9. PrimeField(f)
  BY <1>3 DEF PrimeField, PrimeModuli
<1> QED
  BY <1>8, <1>9 DEF f

\* A power before the last is the inverse.
LEMMA InvStands ==
  ASSUME IsField(fp), PrimeField(fp), NEW z, NEW k \in 0..fp.p - 1, Stands(fp, z, k)
  PROVE  inverse(k) \in Int /\ Stands(fp, inv(fp, z), inverse(k))
<1> DEFINE p == fp.p
           q == powers(k, p)
           e == p - 2
           v == q[e]
           o == inverse(k)
<1>1. p \in Nat /\ p \in Int /\ p > 2 /\ e \in Nat /\ e # 0 /\ e - 1 \in Nat /\ (e - 1) + 1 = e /\ e + 1 = p - 1 /\ k \in Int
  BY FieldNumbers
<1>2. /\ q \in [Nat -> Int]
      /\ \A i \in Nat : q[i + 1] = (q[i] * k) % p /\ q[i + 1] \in 0..p - 1
  <2>1. p > 0
    BY <1>1
  <2> HIDE DEF p
  <2> QED
    BY <1>1, <2>1, PowersIs
<1>3. v \in 0..p - 1 /\ v \in Int /\ v = (q[e - 1] * k) % p /\ q[e - 1] \in Int /\ q[p - 1] = (v * k) % p
  <2> HIDE DEF p, q, e
  <2> QED
    BY <1>1, <1>2
<1>4. Stands(fp, inv(fp, z), v)
  <2>1. inv(fp, z) = pow(fp, z, e)
    BY DEF inv
  <2> HIDE DEF e
  <2> QED
    BY <1>1, <2>1, PowStands
<1>5. CASE k = 0
  <2>1. o = 0
    BY <1>5 DEF inverse
  <2>2. v = 0
    <3> DEFINE a == q[e - 1]
    <3>1. a * k = 0
      BY <1>3, <1>5
    <3>2. 0 % p = 0
      BY <1>1
    <3> QED
      BY <1>3, <3>1, <3>2
  <2> QED
    BY <1>4, <2>1, <2>2
<1>6. CASE k # 0
  <2>1. (v * k) % p = 1
    <3>1. k \in 1..p - 1
      BY <1>1, <1>6
    <3>2. q[p - 1] = 1
      BY <3>1 DEF PrimeField
    <3> QED
      BY <1>3, <3>2
  <2> HIDE DEF q, e, v
  <2>2. v * k = k * v
    BY <1>1, <1>3
  <2>3. \E y \in 0..p - 1 : (k * y) % p = 1
    BY <1>3, <2>1, <2>2
  <2>4. o \in 0..p - 1 /\ (k * o) % p = 1
    <3>1. o = CHOOSE y \in 0..p - 1 : (k * y) % p = 1
      BY <1>6 DEF inverse
    <3> DEFINE Is(y) == (k * y) % p = 1
    <3>2. \E y \in 0..p - 1 : Is(y)
      BY <2>3
    <3>3. o = CHOOSE y \in 0..p - 1 : Is(y)
      BY <3>1
    <3> HIDE DEF Is, o
    <3>4. o \in 0..p - 1 /\ Is(o)
      BY <3>2, <3>3
    <3> QED
      BY <3>4 DEF Is
  <2> HIDE DEF o, p
  <2>5. o \in Int
    BY <1>1, <2>4
  <2> DEFINE a == v * k
             b == k * o
  <2>6. a \in Int /\ b \in Int /\ a % p = 1 /\ b % p = 1
    BY <1>1, <1>3, <2>1, <2>4, <2>5
  <2>7. a * o = v * b
    BY <1>1, <1>3, <2>5
  <2>8. Cong(p, a, 1) /\ Cong(p, b, 1)
    <3> HIDE DEF a, b
    <3> QED
      BY <1>1, <2>6, CongRemainder
  <2> HIDE DEF a, b
  <2>9. Cong(p, a * o, 1 * o) /\ Cong(p, v * b, v * 1)
    <3>1. ASSUME NEW i \in Int, Cong(p, a, i), Cong(p, b, i)
          PROVE  Cong(p, a * o, i * o) /\ Cong(p, v * b, v * i)
      BY <1>1, <1>3, <2>5, <2>6, <3>1, CongTimes
    <3> QED
      BY <2>8, <3>1
  <2> DEFINE g == a * o
  <2>10. g \in Int /\ Cong(p, g, o) /\ Cong(p, g, v)
    <3>1. 1 * o = o /\ v * 1 = v
      BY <1>3, <2>5
    <3> QED
      BY <2>5, <2>6, <2>7, <2>9, <3>1
  <2> HIDE DEF g
  <2>11. Cong(p, v, g)
    BY <1>1, <1>3, <2>10, CongSym
  <2>12. Cong(p, v, o)
    BY <1>1, <1>3, <2>5, <2>10, <2>11, CongTrans
  <2>13. Stands(fp, inv(fp, z), o)
    BY <1>3, <1>4, <2>5, <2>12, StandsFor DEF p
  <2> QED
    BY <2>5, <2>13 DEF o
<1> QED
  BY <1>5, <1>6

\* The element stands for the integer that the operations give.
Represents ==
    /\ \E m \in Moduli : fp = FieldParameters(m)
    /\ n \in 0..fp.p - 1
    /\ Stands(fp, x, n)

\* An operation whose result stands for its value keeps to that.
LEMMA BecomesRepresents ==
  ASSUME IsField(fp), \E m \in Moduli : fp = FieldParameters(m),
         NEW elem, NEW value \in Int, Stands(fp, elem, value), Becomes(elem, value)
  PROVE  Represents'
<1> DEFINE p == fp.p
           o == value % p
<1>1. p \in Nat /\ p > 0
  BY FieldNumbers
<1>2. o \in 0..p - 1 /\ Cong(p, value, o) /\ o \in Int
  <2> HIDE DEF p
  <2> QED
    BY <1>1, CongRemainder
<1>3. Stands(fp, elem, o)
  <2> HIDE DEF o
  <2> QED
    BY <1>2, StandsFor
<1>4. x' = elem /\ n' = o /\ fp' = fp
  BY DEF Becomes
<1> HIDE DEF o
<1> QED
  BY <1>2, <1>3, <1>4 DEF Represents, Stands

\* A state in which the element stands for the integer is exact.
LEMMA RepresentsIsExact ==
  ASSUME PrimeModuli, RoomAbove, Represents
  PROVE  FieldIsExact
<1>1. IsField(fp)
  BY ParametersAreFields DEF Represents
<1> QED
  BY <1>1, Exact DEF Represents, FieldIsExact

\* After any sequence of operations the stored integer is below p, stands for the integer that
\* the operations give modulo p, and is the only one that does (fp.rs and fp64.rs under
\* make_field!): for words of any size, for any modulus of one word, and for any modulus of two
\* that leaves room for a word above it, if the moduli are prime.
THEOREM FieldArithmeticIsExact ==
  ASSUME PrimeModuli, RoomAbove
  PROVE  Spec => []FieldIsExact
<1>1. Init => Represents
  <2> SUFFICES ASSUME Init
               PROVE  Represents
    OBVIOUS
  <2>1. PICK m \in Moduli : fp = FieldParameters(m)
    BY DEF Init
  <2>2. IsField(fp)
    BY <2>1, ParametersAreFields
  <2>3. PICK k \in 0..R(fp) - 1 : x = montgomery(fp, k) /\ n = k % fp.p
    BY DEF Init
  <2>4. Stands(fp, x, k)
    BY <2>2, <2>3, MontgomeryStands
  <2> DEFINE p == fp.p
  <2>5. p \in Nat /\ p > 0 /\ k \in Int
    BY <2>2, FieldNumbers
  <2>6. n \in 0..p - 1 /\ Cong(p, k, n) /\ n \in Int
    <3>1. n = k % p
      BY <2>3
    <3> HIDE DEF p
    <3> QED
      BY <2>5, <3>1, CongRemainder
  <2>7. Stands(fp, x, n)
    BY <2>2, <2>4, <2>5, <2>6, StandsFor
  <2> QED
    BY <2>1, <2>6, <2>7 DEF Represents
<1>2. Represents /\ [Next]_vars => Represents'
  <2> SUFFICES ASSUME Represents, [Next]_vars
               PROVE  Represents'
    OBVIOUS
  <2>1. /\ \E m \in Moduli : fp = FieldParameters(m)
        /\ n \in 0..fp.p - 1 /\ Stands(fp, x, n)
    BY DEF Represents
  <2>2. IsField(fp) /\ PrimeField(fp)
    BY <2>1, ParametersAreFields
  <2>3. n \in Int /\ fp.p \in Nat /\ fp.p > 2 /\ fp.p < R(fp) /\ R(fp) \in Nat
    BY <2>1, <2>2, FieldNumbers
  <2>4. ASSUME NEW k \in 0..fp.p - 1
        PROVE  Stands(fp, montgomery(fp, k), k) /\ k \in Int /\ k \in Nat
    <3>1. k \in 0..R(fp) - 1 /\ k \in Int /\ k \in Nat
      BY <2>3
    <3> QED
      BY <2>2, <3>1, MontgomeryStands
  <2>5. ASSUME NEW k \in 0..fp.p - 1, Add(k)
        PROVE  Represents'
    <3>1. Stands(fp, add(fp, x, montgomery(fp, k)), n + k) /\ n + k \in Int
      BY <2>1, <2>2, <2>3, <2>4, AddStands
    <3> QED
      BY <2>1, <2>2, <2>5, <3>1, BecomesRepresents DEF Add
  <2>6. ASSUME NEW k \in 0..fp.p - 1, Sub(k)
        PROVE  Represents'
    <3>1. Stands(fp, sub(fp, x, montgomery(fp, k)), n - k) /\ n - k \in Int
      BY <2>1, <2>2, <2>3, <2>4, SubStands
    <3> QED
      BY <2>1, <2>2, <2>6, <3>1, BecomesRepresents DEF Sub
  <2>7. ASSUME NEW k \in 0..fp.p - 1, Mul(k)
        PROVE  Represents'
    <3>1. Stands(fp, mul(fp, x, montgomery(fp, k)), n * k) /\ n * k \in Int
      BY <2>1, <2>2, <2>3, <2>4, MulStands
    <3> QED
      BY <2>1, <2>2, <2>7, <3>1, BecomesRepresents DEF Mul
  <2>8. ASSUME NEW k \in 0..fp.p - 1, Div(k)
        PROVE  Represents'
    <3> DEFINE i == inverse(k)
               y == inv(fp, montgomery(fp, k))
    <3>1. i \in Int /\ Stands(fp, y, i)
      BY <2>2, <2>4, InvStands
    <3> HIDE DEF i, y
    <3>2. Stands(fp, mul(fp, x, y), n * i) /\ n * i \in Int
      BY <2>1, <2>2, <2>3, <3>1, MulStands
    <3>3. Becomes(mul(fp, x, y), n * i)
      BY <2>8 DEF Div, i, y
    <3> QED
      BY <2>1, <2>2, <3>2, <3>3, BecomesRepresents
  <2>9. ASSUME NEW k \in 0..fp.p - 1, Pow(k)
        PROVE  Represents'
    <3> DEFINE v == powers(n, fp.p)[k]
    <3>1. Stands(fp, pow(fp, x, k), v)
      BY <2>1, <2>2, <2>3, <2>4, PowStands
    <3>2. v \in Int
      <4> DEFINE p == fp.p
      <4>1. p \in Nat /\ p > 0 /\ k \in Nat
        BY <2>3, <2>4
      <4> HIDE DEF p
      <4>2. powers(n, p) \in [Nat -> Int]
        BY <2>3, <4>1, PowersIs
      <4> QED
        BY <4>1, <4>2 DEF p
    <3>3. Becomes(pow(fp, x, k), v)
      BY <2>9 DEF Pow
    <3> HIDE DEF v
    <3> QED
      BY <2>1, <2>2, <3>1, <3>2, <3>3, BecomesRepresents
  <2>10. CASE Neg
    <3>1. 0 \in Int /\ Stands(fp, 0, 0)
      <4> DEFINE rr == R(fp)
                 p == fp.p
      <4>1. rr \in Int /\ p \in Int /\ 0 \in 0..p - 1
        BY <2>3
      <4>2. 0 = 0 * rr + p * 0
        BY <4>1
      <4> QED
        BY <4>1, <4>2 DEF Stands, Cong
    <3>2. ASSUME NEW o \in Int, NEW z, Stands(fp, z, o)
          PROVE  Stands(fp, sub(fp, z, x), o - n)
      BY <2>1, <2>2, <2>3, <3>2, SubStands
    <3>3. Stands(fp, sub(fp, 0, x), 0 - n) /\ 0 - n = -n /\ -n \in Int
      BY <2>3, <3>1, <3>2
    <3>4. Stands(fp, neg(fp, x), -n) /\ -n \in Int
      BY <3>3 DEF neg
    <3> QED
      BY <2>1, <2>2, <2>10, <3>4, BecomesRepresents DEF Neg
  <2>11. CASE Inv
    <3>1. inverse(n) \in Int /\ Stands(fp, inv(fp, x), inverse(n))
      BY <2>1, <2>2, InvStands
    <3> QED
      BY <2>1, <2>2, <2>11, <3>1, BecomesRepresents DEF Inv
  <2>12. CASE Reload
    <3>1. residue(fp, x) = n
      BY <2>1, <2>2, Exact
    <3>2. Stands(fp, montgomery(fp, residue(fp, x)), n)
      BY <2>1, <2>4, <3>1
    <3> QED
      BY <2>1, <2>2, <2>3, <2>12, <3>2, BecomesRepresents DEF Reload
  <2>13. CASE UNCHANGED vars
    BY <2>1, <2>13 DEF Represents, Stands, vars
  <2> QED
    BY <2>5, <2>6, <2>7, <2>8, <2>9, <2>10, <2>11, <2>12, <2>13 DEF Next
<1>3. Represents => FieldIsExact
  BY RepresentsIsExact
<1> QED
  BY <1>1, <1>2, <1>3, PTL DEF Spec
=============================================================================
