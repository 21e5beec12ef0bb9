----------------------------- MODULE Prng_proofs ------------------------------
(***************************************************************************)
(* That the buffer of Prng cannot be observed, for every size of blocks,   *)
(* buffers and elements, every stream and every change of fields.          *)
(***************************************************************************)
EXTENDS Prng, Integers_proofs, SequenceTheorems, TLAPS

-----------------------------------------------------------------------------
\* The stream repeats after Period bytes.
LEMMA Repeats ==
  ASSUME NEW s, NEW x \in Int, NEW y \in Int
  PROVE  /\ byte_at(s, (x % Period) + y) = byte_at(s, x + y)
         /\ Period \in Nat /\ Period > 0
<1>1. BlockSize \in Nat /\ BlockSize > 0 /\ Blocks \in Nat /\ Blocks > 0
  BY SizeAssumption
<1>2. Period = BlockSize * Blocks /\ Period \in Nat /\ Period > 0
  BY <1>1 DEF Period
<1> DEFINE d == x \div Period
           r == x % Period
           z == r + y
<1>3. d \in Int /\ r \in 0..Period - 1 /\ x = Period * d + r
  BY <1>2, Division
<1> HIDE DEF d, r
<1>4. z \in Int /\ x + y = z + BlockSize * (Blocks * d) /\ Blocks * d \in Int
  BY <1>1, <1>2, <1>3
<1> HIDE DEF z
<1>5. (x + y) \div BlockSize = (z \div BlockSize) + Blocks * d /\ (x + y) % BlockSize = z % BlockSize
  BY <1>1, <1>4, Shifted
<1>6. z \div BlockSize \in Int
  BY <1>1, <1>4, Division
<1> DEFINE c == z \div BlockSize
<1> HIDE DEF c
<1>7. (c + Blocks * d) % Blocks = c % Blocks
  BY <1>1, <1>3, <1>6, Shifted DEF c
<1> QED
  BY <1>2, <1>5, <1>7 DEF byte_at, c, z, r

-----------------------------------------------------------------------------
(* The seed stream.                                                        *)

Bytes == 0..Byte - 1

\* buf holds bytes of the stream, from position p on.
Holds(buf, s, p) == /\ buf \in Seq(Bytes)
                    /\ \A i \in 1..Len(buf) : buf[i] = byte_at(s, p + i - 1)

\* The smaller of two numbers.
LEMMA MinOfTwo ==
  ASSUME NEW a \in Int, NEW b \in Int
  PROVE  Min({a, b}) = IF a <= b THEN a ELSE b
<1> DEFINE S == {a, b}
           least == CHOOSE x \in S : \A y \in S : x <= y
<1>1. \E x \in S : \A y \in S : x <= y
  OBVIOUS
<1>2. least \in S /\ \A y \in S : least <= y
  <2> HIDE DEF S
  <2> QED
    BY <1>1
<1>3. Min(S) = least
  BY DEF Min
<1> HIDE DEF least
<1> QED
  BY <1>2, <1>3

\* A block is BlockSize bytes, at the positions that its counter says.
LEMMA Block ==
  ASSUME NEW s \in Streams, NEW c \in Nat, NEW j \in 1..BlockSize
  PROVE  hash_block(s, c)[j] \in Bytes /\ hash_block(s, c)[j] = byte_at(s, BlockSize * c + j - 1)
<1>1. BlockSize \in Nat /\ BlockSize > 0 /\ Blocks \in Nat /\ Blocks > 0
  BY SizeAssumption
<1>2. s \in [0..Blocks - 1 -> [1..BlockSize -> 0..Byte - 1]]
  BY StreamAssumption
<1>3. c % Blocks \in 0..Blocks - 1
  BY <1>1
<1> DEFINE x == BlockSize * c + j - 1
<1>4. x \in Int /\ j - 1 \in 0..BlockSize - 1 /\ x = BlockSize * c + (j - 1) /\ c \in Int
  BY <1>1
<1> HIDE DEF x
<1>5. x \div BlockSize = c /\ x % BlockSize = j - 1
  BY <1>1, <1>4, DivisionIs
<1>6. (x % BlockSize) + 1 = j
  BY <1>4, <1>5
<1> QED
  BY <1>2, <1>3, <1>5, <1>6 DEF hash_block, byte_at, Bytes, x

\* The buffer reaches to an offset in block c.
Reaches(buf, consumed, c, offset) == BlockSize * c + offset = consumed + Len(buf)

\* A buffer with bytes of a block appended.
copied(s, c, buf, offset, read) == buf \o SubSeq(hash_block(s, c), offset + 1, offset + read)

\* One turn of fill's loop: bytes of the block that the buffer has reached are appended to it.
LEMMA Copied ==
  ASSUME NEW s \in Streams, NEW consumed \in Nat, NEW buf, Holds(buf, s, consumed),
         NEW c \in Nat, NEW offset \in 0..BlockSize - 1, NEW read \in 0..BlockSize - offset,
         Reaches(buf, consumed, c, offset)
  PROVE  /\ Holds(copied(s, c, buf, offset, read), s, consumed)
         /\ Len(copied(s, c, buf, offset, read)) = Len(buf) + read
<1> DEFINE part == SubSeq(hash_block(s, c), offset + 1, offset + read)
           new == buf \o part
           n == Len(buf)
<1>1. buf \in Seq(Bytes) /\ n \in Nat /\ BlockSize \in Nat /\ BlockSize > 0
  BY SizeAssumption DEF Holds
<1>2. offset + 1 \in Int /\ offset + read \in Int
      /\ \A i \in offset + 1..offset + read : hash_block(s, c)[i] \in Bytes
  <2>1. \A i \in offset + 1..offset + read : i \in 1..BlockSize
    BY <1>1
  <2>2. offset + 1 \in Int /\ offset + read \in Int
    BY <1>1
  <2>3. \A i \in 1..BlockSize : hash_block(s, c)[i] \in Bytes
    BY Block
  <2> QED
    BY <2>1, <2>2, <2>3
<1>3. /\ part \in Seq(Bytes)
      /\ Len(part) = IF offset + 1 <= offset + read THEN (offset + read) - (offset + 1) + 1 ELSE 0
      /\ \A i \in 1..(offset + read) - (offset + 1) + 1 :
            part[i] = hash_block(s, c)[(offset + 1) + i - 1]
  BY <1>2, SubSeqProperties
<1> HIDE DEF part
<1>4. Len(part) = read
  BY <1>1, <1>3
<1>5. \A i \in 1..read : part[i] = hash_block(s, c)[offset + i]
  <2> SUFFICES ASSUME NEW i \in 1..read
               PROVE  part[i] = hash_block(s, c)[offset + i]
    OBVIOUS
  <2>1. i \in 1..(offset + read) - (offset + 1) + 1 /\ (offset + 1) + i - 1 = offset + i
    BY <1>1
  <2> QED
    BY <1>3, <2>1
<1>6. /\ new \in Seq(Bytes) /\ Len(new) = n + read
      /\ \A i \in 1..Len(new) : new[i] = IF i <= n THEN buf[i] ELSE part[i - n]
  <2>1. new \in Seq(Bytes)
    BY <1>1, <1>3, ConcatProperties
  <2>2. Len(new) = n + read
    BY <1>1, <1>3, <1>4, ConcatProperties
  <2>3. \A i \in 1..Len(buf) + Len(part) :
              new[i] = IF i <= Len(buf) THEN buf[i] ELSE part[i - Len(buf)]
    BY <1>1, <1>3, ConcatProperties
  <2> HIDE DEF new
  <2> QED
    BY <1>4, <2>1, <2>2, <2>3
<1> HIDE DEF new
<1>7. ASSUME NEW i \in 1..Len(new)
      PROVE  new[i] = byte_at(s, consumed + i - 1)
  <2>1. CASE i <= n
    <3>1. i \in 1..n
      BY <1>1, <1>6, <2>1
    <3> QED
      BY <1>6, <2>1, <3>1 DEF Holds
  <2>2. CASE ~(i <= n)
    <3> DEFINE j == i - n
    <3>1. j \in 1..read /\ offset + j \in 1..BlockSize
      BY <1>1, <1>6, <2>2
    <3>2. BlockSize * c + (offset + j) - 1 = consumed + i - 1
      BY <1>1, <3>1 DEF Reaches
    <3>3. new[i] = hash_block(s, c)[offset + j]
      BY <1>5, <1>6, <2>2, <3>1
    <3> HIDE DEF j
    <3> QED
      BY <3>1, <3>2, <3>3, Block
  <2> QED
    BY <2>1, <2>2
<1> QED
  BY <1>6, <1>7 DEF Holds, copied, new, part

\* The blocks that a fill takes cover what it is asked for, and no block is taken in vain.
LEMMA Reach ==
  ASSUME NEW consumed \in Nat, NEW len \in Nat, NEW first, NEW beyond, NEW off,
         first = consumed \div BlockSize, off = consumed % BlockSize,
         beyond = (consumed + len + BlockSize - 1) \div BlockSize
  PROVE  /\ first \in Nat /\ off \in 0..BlockSize - 1 /\ consumed = BlockSize * first + off
         /\ beyond - first \in Nat
         /\ BlockSize * (beyond - first) >= len + off
         /\ \A k \in 0..(beyond - first) - 1 : BlockSize * k < len + off
<1>1. BlockSize \in Nat /\ BlockSize > 0
  BY SizeAssumption
<1>2. first \in Int /\ off \in 0..BlockSize - 1 /\ consumed = BlockSize * first + off
  BY <1>1, Division
<1>3. first \in Nat
  BY <1>1, <1>2
<1> DEFINE x == consumed + len + BlockSize - 1
           e == x % BlockSize
<1>4. x \in Int
  BY <1>1
<1> HIDE DEF x
<1>5. beyond \in Int /\ e \in 0..BlockSize - 1 /\ x = BlockSize * beyond + e
  BY <1>1, <1>4, Division DEF x
<1> HIDE DEF e
<1> DEFINE m == beyond - first
<1>6. m \in Int /\ BlockSize * m = len + off + BlockSize - 1 - e
  BY <1>1, <1>2, <1>3, <1>5 DEF x
<1> HIDE DEF m
<1>7. BlockSize * m >= len + off
  BY <1>1, <1>2, <1>5, <1>6
<1>8. m \in Nat
  BY <1>1, <1>2, <1>6, <1>7
<1>9. ASSUME NEW k \in 0..m - 1
      PROVE  BlockSize * k < len + off
  <2>1. BlockSize * k <= BlockSize * (m - 1)
    BY <1>1, <1>8
  <2>2. BlockSize * (m - 1) = BlockSize * m - BlockSize
    BY <1>1, <1>8
  <2> QED
    BY <1>1, <1>2, <1>5, <1>6, <1>8, <2>1, <2>2
<1> QED
  BY <1>2, <1>3, <1>7, <1>8, <1>9 DEF m

\* What fill puts into a buffer is the stream, from where the stream was read last.
LEMMA Filled ==
  ASSUME NEW s \in Streams, NEW consumed \in Nat, NEW len \in Nat
  PROVE  Holds(fill(s, consumed, len), s, consumed) /\ Len(fill(s, consumed, len)) = len
<1> DEFINE B == BlockSize
           first == consumed \div BlockSize
           beyond == (consumed + len + BlockSize - 1) \div BlockSize
           off == consumed % BlockSize
           m == beyond - first
           T == Seq(Bytes)
           offset(c) == IF c = first THEN off ELSE 0
           read(c, buf) == Min({BlockSize - offset(c), len - Len(buf)})
           step(c, buf) == buf \o SubSeq(hash_block(s, c), offset(c) + 1, offset(c) + read(c, buf))
           counters == [k \in 1..m |-> first + k - 1]
           G == [k \in 1..m |-> [buf \in T |-> step(first + k - 1, buf)]]
           Folds(it) == it = [t \in SUBSET (1..m) |->
                                IF t = {} THEN <<>> ELSE step(counters[Max(t)], it[t \ {Max(t)}])]
           iter == CHOOSE it : Folds(it)
<1>1. fill(s, consumed, len) = iter[1..m]
  <2>1. DOMAIN counters = 1..m
    OBVIOUS
  <2> QED
    BY <2>1 DEF fill, FoldLeft, MapThenFoldSet
<1>2. BlockSize \in Nat /\ BlockSize > 0
  BY SizeAssumption
<1>3. /\ first \in Nat /\ off \in 0..BlockSize - 1 /\ consumed = BlockSize * first + off
      /\ m \in Nat /\ BlockSize * m >= len + off
      /\ \A k \in 0..m - 1 : BlockSize * k < len + off
  BY Reach
<1> HIDE DEF first, off, m
<1>4. ASSUME NEW k \in 1..m, NEW buf \in T
      PROVE  step(first + k - 1, buf) \in T
  <2> DEFINE c == first + k - 1
             o == offset(c)
             r == read(c, buf)
  <2>1. c \in Nat /\ o \in 0..BlockSize - 1 /\ Len(buf) \in Nat
    BY <1>2, <1>3
  <2>2. r \in Int /\ r <= BlockSize - o
    <3>1. BlockSize - o \in Int /\ len - Len(buf) \in Int
      BY <1>2, <2>1
    <3>2. r = IF BlockSize - o <= len - Len(buf) THEN BlockSize - o ELSE len - Len(buf)
      BY <3>1, MinOfTwo
    <3> QED
      BY <3>1, <3>2
  <2> HIDE DEF c, o, r
  <2>3. /\ o + 1 \in Int /\ o + r \in Int
        /\ \A i \in o + 1..o + r : i \in 1..BlockSize
    BY <1>2, <2>1, <2>2
  <2>4. \A i \in 1..BlockSize : hash_block(s, c)[i] \in Bytes
    BY <2>1, Block
  <2>5. \A i \in o + 1..o + r : hash_block(s, c)[i] \in Bytes
    BY <2>3, <2>4
  <2>6. SubSeq(hash_block(s, c), o + 1, o + r) \in Seq(Bytes)
    BY <2>3, <2>5, SubSeqProperties
  <2>7. buf \o SubSeq(hash_block(s, c), o + 1, o + r) \in Seq(Bytes)
    <3> DEFINE part == SubSeq(hash_block(s, c), o + 1, o + r)
    <3> HIDE DEF part
    <3> QED
      BY <2>6, ConcatProperties DEF part
  <2> QED
    BY <2>7 DEF c, o, r
<1> HIDE DEF step
<1>5. G \in [1..m -> [T -> T]]
  <2> HIDE DEF T
  <2> QED
    BY <1>4
<1>6. \E it : Folds(it)
  <2>0. <<>> \in T
    OBVIOUS
  <2> HIDE DEF G, T
  <2>1. PICK it : IsFold(it, m, T, <<>>, G)
    BY <1>3, <1>5, <2>0, FoldExists
  <2>2. /\ it \in [SUBSET (1..m) -> T]
        /\ \A t \in SUBSET (1..m) :
              it[t] = IF t = {} THEN <<>> ELSE G[Max(t)][it[t \ {Max(t)}]]
    BY <2>1 DEF IsFold
  <2>3. ASSUME NEW t \in SUBSET (1..m)
        PROVE  it[t] = IF t = {} THEN <<>> ELSE step(counters[Max(t)], it[t \ {Max(t)}])
    <3>1. CASE t = {}
      BY <2>2, <3>1
    <3>2. CASE t # {}
      <4>1. Max(t) \in 1..m
        BY <1>3, <3>2, MaxOfPositions
      <4>2. counters[Max(t)] = first + Max(t) - 1 /\ it[t \ {Max(t)}] \in T
        BY <2>2, <4>1
      <4>3. G[Max(t)][it[t \ {Max(t)}]] = step(first + Max(t) - 1, it[t \ {Max(t)}])
        BY <4>1, <4>2 DEF G
      <4> HIDE DEF counters
      <4> QED
        BY <2>2, <3>2, <4>2, <4>3
    <3> QED
      BY <3>1, <3>2
  <2>4. it = [t \in SUBSET (1..m) |->
                IF t = {} THEN <<>> ELSE step(counters[Max(t)], it[t \ {Max(t)}])]
    <3> HIDE DEF counters
    <3> QED
      BY <2>2, <2>3
  <2> QED
    BY <2>4
<1>7. Folds(iter)
  <2> HIDE DEF Folds
  <2> QED
    BY <1>6
<1> HIDE DEF iter
<1> DEFINE at(k) == iter[1..k]
<1>8. at(0) = <<>>
  BY <1>7
<1>9. ASSUME NEW k \in 1..m
      PROVE  at(k) = step(first + k - 1, at(k - 1))
  <2>1. k \in Nat /\ k > 0 /\ 1..k \in SUBSET (1..m) /\ counters[k] = first + k - 1
    BY <1>3
  <2>2. Max(1..k) = k /\ (1..k) \ {k} = 1..k - 1 /\ 1..k # {}
    BY <2>1, MaxOfFirst
  <2>3. iter[1..k] = IF 1..k = {} THEN <<>>
                     ELSE step(counters[Max(1..k)], iter[(1..k) \ {Max(1..k)}])
    <3> HIDE DEF counters
    <3> QED
      BY <1>7, <2>1
  <2> HIDE DEF counters
  <2> QED
    BY <2>1, <2>2, <2>3
<1> HIDE DEF Folds, at
<1> DEFINE Length(k) == IF k = 0 THEN 0 ELSE IF B * k - off <= len THEN B * k - off ELSE len
           S == {k \in 0..m : Holds(at(k), s, consumed) /\ Len(at(k)) = Length(k)}
<1>10. 0 \in S
  <2>1. Holds(<<>>, s, consumed) /\ Len(<<>>) = 0
    BY DEF Holds
  <2> QED
    BY <1>3, <1>8, <2>1
<1>11. ASSUME NEW k \in 0..m - 1, k \in S
       PROVE  k + 1 \in S
  <2> DEFINE c == first + (k + 1) - 1
             buf == at(k)
             o == offset(c)
             r == read(c, buf)
  <2>1. k + 1 \in 1..m /\ k + 1 \in 0..m /\ (k + 1) - 1 = k /\ c = first + k /\ c \in Nat /\ k \in Nat
    BY <1>3
  <2>2. at(k + 1) = step(c, buf)
    BY <1>9, <2>1
  <2>3. Holds(buf, s, consumed) /\ Len(buf) = Length(k)
    BY <1>11
  <2>4. /\ o \in 0..BlockSize - 1 /\ BlockSize * c + o = consumed + Length(k)
        /\ Length(k) \in 0..len
    <3>1. CASE k = 0
      BY <1>2, <1>3, <2>1, <3>1
    <3>2. CASE k # 0
      <4>1. c # first /\ o = 0
        BY <1>3, <2>1, <3>2
      <4> DEFINE y == BlockSize * k
                 z == BlockSize * first
      <4>2. y < len + off /\ y \in Nat /\ z \in Nat /\ y >= BlockSize
        BY <1>2, <1>3, <2>1, <3>2
      <4>3. BlockSize * c = z + y
        BY <1>2, <1>3, <2>1
      <4>4. consumed = z + off
        BY <1>3
      <4>5. Length(k) = IF y - off <= len THEN y - off ELSE len
        BY <3>2
      <4> HIDE DEF y, z
      <4> QED
        BY <1>2, <1>3, <4>1, <4>2, <4>3, <4>4, <4>5
    <3> QED
      BY <3>1, <3>2
  <2>5. r = IF BlockSize - o <= len - Length(k) THEN BlockSize - o ELSE len - Length(k)
    <3>1. BlockSize - o \in Int /\ len - Len(buf) \in Int /\ Len(buf) = Length(k)
      BY <1>2, <2>3, <2>4
    <3> HIDE DEF o, Length
    <3>2. Min({BlockSize - o, len - Len(buf)})
            = IF BlockSize - o <= len - Len(buf) THEN BlockSize - o ELSE len - Len(buf)
      BY <3>1, MinOfTwo
    <3> QED
      BY <3>1, <3>2 DEF o
  <2>6. r \in 0..BlockSize - o
    <3> HIDE DEF r, o, Length
    <3> QED
      BY <1>2, <2>4, <2>5
  <2>7. Length(k + 1) = Length(k) + r
    <3> DEFINE y == BlockSize * k
               z == BlockSize * first
               w == BlockSize * (k + 1)
    <3>1. w = y + BlockSize /\ y \in Nat /\ z \in Nat /\ w \in Nat
      BY <1>2, <1>3, <2>1
    <3>2. Length(k + 1) = IF w - off <= len THEN w - off ELSE len
      BY <2>1
    <3>3. CASE k = 0
      <4>1. o = off /\ Length(k) = 0 /\ y = 0
        BY <1>2, <2>1, <1>3, <3>3
      <4> HIDE DEF y, z, w, r, o, Length
      <4> QED
        BY <1>2, <1>3, <2>5, <3>1, <3>2, <4>1
    <3>4. CASE k # 0
      <4>1. o = 0 /\ Length(k) = IF y - off <= len THEN y - off ELSE len
        BY <1>3, <2>1, <3>4
      <4>2. y < len + off
        BY <1>3
      <4> HIDE DEF y, z, w, r, o, Length
      <4> QED
        BY <1>2, <1>3, <2>5, <3>1, <3>2, <4>1, <4>2
    <3> QED
      BY <3>3, <3>4
  <2>8. step(c, buf) = buf \o SubSeq(hash_block(s, c), o + 1, o + r)
    BY DEF step
  <2> HIDE DEF r, o, c, Length, buf
  <2>9. Holds(step(c, buf), s, consumed) /\ Len(step(c, buf)) = Len(buf) + r
    <3>1. Reaches(buf, consumed, c, o)
      BY <2>3, <2>4 DEF Reaches
    <3>2. /\ Holds(copied(s, c, buf, o, r), s, consumed)
          /\ Len(copied(s, c, buf, o, r)) = Len(buf) + r
      BY <2>1, <2>3, <2>4, <2>6, <3>1, Copied
    <3> QED
      BY <2>8, <3>2 DEF copied
  <2> QED
    BY <2>1, <2>2, <2>3, <2>7, <2>9
<1>12. 0..m \subseteq S
  <2> HIDE DEF S
  <2> QED
    BY <1>3, <1>10, <1>11, IntervalInduction
<1>13. Holds(at(m), s, consumed) /\ Len(at(m)) = Length(m)
  <2>1. m \in 0..m
    BY <1>3
  <2> QED
    BY <1>12, <2>1
<1>14. Length(m) = len
  BY <1>2, <1>3
<1> QED
  BY <1>1, <1>13, <1>14 DEF at

-----------------------------------------------------------------------------
(* The buffer.                                                             *)

\* What is unread of a buffer is the stream from position p on, and the stream has been read
\* as far as that reaches.
Ahead(s, buf, index, consumed, p) ==
    /\ \A i \in 1..Len(buf) - index : buf[index + i] = byte_at(s, p + i - 1)
    /\ consumed = (p + (Len(buf) - index)) % Period

\* Bytes are used: the reader without a buffer moves by as much.
LEMMA Used ==
  ASSUME NEW s, NEW buf \in Seq(Bytes), NEW index \in 0..Len(buf), NEW consumed, NEW p \in Nat,
         Ahead(s, buf, index, consumed, p), NEW n \in 0..Len(buf) - index
  PROVE  Ahead(s, buf, index + n, consumed, p + n)
<1>1. Len(buf) \in Nat
  OBVIOUS
<1> DEFINE len == Len(buf)
<1> HIDE DEF len
<1>2. len \in Nat /\ index \in 0..len /\ n \in 0..len - index
  BY <1>1 DEF len
<1>3. ASSUME NEW i \in 1..len - (index + n)
      PROVE  buf[index + n + i] = byte_at(s, p + n + i - 1)
  <2>1. n + i \in 1..len - index /\ index + (n + i) = index + n + i /\ p + (n + i) - 1 = p + n + i - 1
    BY <1>2
  <2>2. buf[index + (n + i)] = byte_at(s, p + (n + i) - 1)
    BY <2>1 DEF Ahead, len
  <2> QED
    BY <2>1, <2>2
<1>4. p + n + (len - (index + n)) = p + (len - index)
  BY <1>2
<1> QED
  BY <1>3, <1>4 DEF Ahead, len

\* Positions are taken modulo the period.
LEMMA Wrapped ==
  ASSUME NEW s, NEW buf \in Seq(Bytes), NEW index \in 0..Len(buf), NEW consumed, NEW p \in Nat,
         Ahead(s, buf, index, consumed, p)
  PROVE  Ahead(s, buf, index, consumed, p % Period)
<1>1. Len(buf) \in Nat /\ Period \in Nat /\ Period > 0
  BY Repeats
<1> DEFINE r == p % Period
<1>2. r \in Nat
  BY <1>1
<1>3. ASSUME NEW i \in 1..Len(buf) - index
      PROVE  buf[index + i] = byte_at(s, r + i - 1)
  <2>1. byte_at(s, r + (i - 1)) = byte_at(s, p + (i - 1))
    BY Repeats
  <2> HIDE DEF r
  <2>2. r + (i - 1) = r + i - 1 /\ p + (i - 1) = p + i - 1
    BY <1>2
  <2>3. buf[index + i] = byte_at(s, p + i - 1)
    BY DEF Ahead
  <2> QED
    BY <2>1, <2>2, <2>3
<1>4. consumed = (r + (Len(buf) - index)) % Period
  <2> DEFINE y == Len(buf) - index
  <2>1. y \in Int /\ p \in Int
    BY <1>1
  <2> HIDE DEF y
  <2>2. ((p % Period) + y) % Period = (p + y) % Period
    BY <1>1, <2>1, RemainderOfSum
  <2> QED
    BY <2>2 DEF Ahead, y
<1> QED
  BY <1>3, <1>4 DEF Ahead

\* The next bytes of a buffer are the ones a reader without it would see.
LEMMA NextChunk ==
  ASSUME NEW s, NEW buf \in Seq(Bytes), NEW index \in 0..Len(buf), NEW consumed, NEW p \in Nat,
         Ahead(s, buf, index, consumed, p), NEW n \in 0..Len(buf) - index
  PROVE  SubSeq(buf, index + 1, index + n) = chunk_at(s, p, n)
<1> DEFINE part == SubSeq(buf, index + 1, index + n)
<1>1. Len(buf) \in Nat /\ index + 1 \in Int /\ index + n \in Int
      /\ \A i \in index + 1..index + n : buf[i] \in Bytes
  <2>1. Len(buf) \in Nat
    OBVIOUS
  <2>2. \A i \in index + 1..index + n : i \in 1..Len(buf)
    BY <2>1
  <2> QED
    BY <2>1, <2>2
<1>2. /\ part \in Seq(Bytes)
      /\ Len(part) = IF index + 1 <= index + n THEN (index + n) - (index + 1) + 1 ELSE 0
      /\ \A i \in 1..(index + n) - (index + 1) + 1 : part[i] = buf[(index + 1) + i - 1]
  BY <1>1, SubSeqProperties
<1> HIDE DEF part
<1>3. Len(part) = n
  BY <1>1, <1>2
<1>4. ASSUME NEW i \in 1..n
      PROVE  part[i] = byte_at(s, p + i - 1)
  <2>1. i \in 1..(index + n) - (index + 1) + 1 /\ (index + 1) + i - 1 = index + i
        /\ i \in 1..Len(buf) - index
    BY <1>1
  <2>2. part[i] = buf[index + i]
    BY <1>2, <2>1
  <2> QED
    BY <2>1, <2>2 DEF Ahead
<1>5. part = [i \in 1..n |-> part[i]]
  BY <1>2, <1>3
<1>6. part = [i \in 1..n |-> byte_at(s, p + i - 1)]
  BY <1>4, <1>5
<1> QED
  BY <1>6 DEF chunk_at, part

\* The stream, continued.
LEMMA Joined ==
  ASSUME NEW s, NEW p \in Nat, NEW left, NEW more, NEW consumed, Holds(left, s, p),
         Holds(more, s, consumed), consumed = (p + Len(left)) % Period
  PROVE  Holds(left \o more, s, p) /\ Len(left \o more) = Len(left) + Len(more)
<1> DEFINE new == left \o more
           n == Len(left)
<1>1. left \in Seq(Bytes) /\ more \in Seq(Bytes) /\ n \in Nat /\ Len(more) \in Nat
  BY DEF Holds
<1>2. new \in Seq(Bytes)
  BY <1>1, ConcatProperties
<1>3. Len(new) = n + Len(more)
  BY <1>1, ConcatProperties
<1>4. \A i \in 1..Len(left) + Len(more) :
          new[i] = IF i <= Len(left) THEN left[i] ELSE more[i - Len(left)]
  BY <1>1, ConcatProperties
<1> HIDE DEF new
<1>5. ASSUME NEW i \in 1..Len(new)
      PROVE  new[i] = byte_at(s, p + i - 1)
  <2>1. new[i] = IF i <= n THEN left[i] ELSE more[i - n]
    BY <1>3, <1>4
  <2>2. CASE i <= n
    <3>1. i \in 1..n
      BY <1>1, <2>2
    <3> QED
      BY <2>1, <2>2, <3>1 DEF Holds
  <2>3. CASE ~(i <= n)
    <3> DEFINE j == i - n
    <3>1. j \in 1..Len(more) /\ j - 1 \in Int /\ (p + n) + (j - 1) = p + i - 1 /\ p + n \in Int
      BY <1>1, <1>3, <2>3
    <3> HIDE DEF j, n
    <3>2. new[i] = byte_at(s, consumed + j - 1)
      BY <2>1, <2>3, <3>1 DEF Holds, j
    <3>3. byte_at(s, ((p + n) % Period) + (j - 1)) = byte_at(s, (p + n) + (j - 1))
          /\ Period \in Nat /\ Period > 0
      BY <3>1, Repeats
    <3>4. (p + n) % Period \in Int
      BY <3>1, <3>3
    <3>5. consumed + j - 1 = ((p + n) % Period) + (j - 1)
      BY <3>1, <3>4 DEF n
    <3> QED
      BY <3>1, <3>2, <3>3, <3>5
  <2> QED
    BY <2>2, <2>3
<1> QED
  BY <1>2, <1>3, <1>5 DEF Holds, new

\* A refill keeps what is unread and continues it.
LEMMA Refilled ==
  ASSUME NEW s \in Streams, NEW buf \in Seq(Bytes), NEW index \in 0..Len(buf), NEW consumed,
         NEW p \in Nat, Ahead(s, buf, index, consumed, p)
  PROVE  LET left == SubSeq(buf, index + 1, Len(buf))
             wanted == Len(buf) - Len(left)
             new == left \o fill(s, consumed, wanted)
         IN  /\ new \in Seq(Bytes)
             /\ Ahead(s, new, 0, (consumed + wanted) % Period, p)
<1> DEFINE len == Len(buf)
           n == len - index
           left == SubSeq(buf, index + 1, Len(buf))
           wanted == Len(buf) - Len(left)
           more == fill(s, consumed, wanted)
           new == left \o more
<1>1. len \in Nat
  OBVIOUS
<1>2. Period \in Nat /\ Period > 0
  BY Repeats
<1>3. n \in 0..len - index /\ n \in Nat /\ index + n = len
  BY <1>1
<1>4. left = chunk_at(s, p, n)
  <2>1. SubSeq(buf, index + 1, index + n) = chunk_at(s, p, n)
    <3> HIDE DEF n
    <3> QED
      BY <1>3, NextChunk DEF len
  <2> QED
    BY <1>3, <2>1
<1>5. left \in Seq(Bytes)
  <2>1. \A i \in index + 1..len : buf[i] \in Bytes
    <3>1. \A i \in index + 1..len : i \in 1..len
      BY <1>1
    <3> QED
      BY <3>1
  <2>2. index + 1 \in Int /\ len \in Int
    BY <1>1
  <2> QED
    BY <2>1, <2>2, SubSeqProperties
<1> HIDE DEF left
<1>6. Len(left) = n /\ \A i \in 1..n : left[i] = byte_at(s, p + i - 1)
  <2> HIDE DEF n
  <2>1. DOMAIN left = 1..n /\ \A i \in 1..n : left[i] = byte_at(s, p + i - 1)
    BY <1>4 DEF chunk_at
  <2>2. Len(left) = n
    BY <1>3, <1>5, <2>1
  <2> QED
    BY <2>1, <2>2
<1>7. wanted = index /\ wanted \in Nat
  BY <1>1, <1>3, <1>6
<1>8. consumed = (p + n) % Period
  BY DEF Ahead
<1> HIDE DEF n, wanted
<1>9. consumed \in Nat
  BY <1>2, <1>3, <1>8
<1>10. Holds(more, s, consumed) /\ Len(more) = wanted
  BY <1>7, <1>9, Filled
<1> HIDE DEF more
<1>11. Holds(left, s, p)
  BY <1>5, <1>6 DEF Holds
<1>12. Holds(new, s, p) /\ Len(new) = n + wanted
  <2>1. Holds(left \o more, s, p) /\ Len(left \o more) = Len(left) + Len(more)
    BY <1>6, <1>8, <1>10, <1>11, Joined
  <2> QED
    BY <1>6, <1>10, <2>1
<1> HIDE DEF new
<1>13. Len(new) \in Nat /\ Len(new) - 0 = Len(new)
  BY <1>3, <1>7, <1>12
<1>14. (consumed + wanted) % Period = (p + (Len(new) - 0)) % Period
  <2>1. p + n \in Int /\ wanted \in Int /\ p + n + wanted = p + (Len(new) - 0)
    BY <1>3, <1>7, <1>12, <1>13
  <2>2. (((p + n) % Period) + wanted) % Period = (p + n + wanted) % Period
    BY <1>2, <2>1, RemainderOfSum
  <2> QED
    BY <1>8, <2>1, <2>2
<1>15. ASSUME NEW i \in 1..Len(new) - 0
       PROVE  new[0 + i] = byte_at(s, p + i - 1)
  <2>1. i \in 1..Len(new) /\ 0 + i = i
    BY <1>13
  <2> QED
    BY <1>12, <2>1 DEF Holds
<1>16. Ahead(s, new, 0, (consumed + wanted) % Period, p) /\ new \in Seq(Bytes)
  BY <1>12, <1>14, <1>15 DEF Ahead, Holds
<1> QED
  BY <1>16 DEF new, more, wanted, left

-----------------------------------------------------------------------------
(* The generator.                                                          *)

\* How many chunks generate_random rejects.
Rejected(s, p, f) == Min({k \in 0..Period - 1 :
                          accepts(f, chunk_at(s, p + k * f.ENCODED_SIZE, f.ENCODED_SIZE))})

\* The chunks that generate_random looks at: those before the last are no elements.
LEMMA Chunks ==
  ASSUME NEW s \in Streams, NEW f \in Fields, NEW p \in 0..Period - 1
  PROVE  LET k == Rejected(s, p, f)
             size == f.ENCODED_SIZE
         IN  /\ k \in Nat /\ k \in 0..Period - 1
             /\ accepts(f, chunk_at(s, p + k * size, size))
             /\ \A j \in 0..k - 1 : ~accepts(f, chunk_at(s, p + j * size, size))
             /\ generate_random(s, p, f) = [element |-> masked(f, chunk_at(s, p + k * size, size)),
                                            next |-> (p + (k + 1) * size) % Period]
<1> DEFINE size == f.ENCODED_SIZE
           good(j) == accepts(f, chunk_at(s, p + j * size, size))
           tries == {j \in 0..Period - 1 : good(j)}
           least == CHOOSE x \in tries : \A y \in tries : x <= y
<1>1. tries # {} /\ tries \in SUBSET Nat
  BY StreamAssumption
<1>2. \E x \in tries : \A y \in tries : x <= y
  <2> HIDE DEF tries
  <2> QED
    BY <1>1, LeastElement
<1>3. least \in tries /\ \A y \in tries : least <= y
  <2> HIDE DEF tries
  <2> QED
    BY <1>2
<1>4. Rejected(s, p, f) = least
  BY DEF Rejected, Min
<1>5. generate_random(s, p, f) = [element |-> masked(f, chunk_at(s, p + least * size, size)),
                                  next |-> (p + (least + 1) * size) % Period]
  BY DEF generate_random, Min
<1> HIDE DEF least, good
<1>6. least \in 0..Period - 1 /\ good(least) /\ least \in Nat
  BY <1>3
<1>7. ASSUME NEW j \in 0..least - 1
      PROVE  ~good(j)
  <2>1. j \in 0..Period - 1 /\ ~(least <= j)
    BY <1>6, Repeats
  <2> QED
    BY <1>3, <2>1
<1> QED
  BY <1>4, <1>5, <1>6, <1>7 DEF good

\* What generate_random found from origin on is what get is to find, and get has rejected j
\* of the chunks that generate_random rejected.
Searching(origin, j) ==
    LET r == generate_random(stream, origin, field)
    IN  /\ cursor = r.next /\ expected = r.element
        /\ j <= Rejected(stream, origin, field)
        /\ Ahead(stream, buffer, buffer_index, length_consumed, origin + j * field.ENCODED_SIZE)

\* The inductive invariant.
IInv ==
    /\ stream \in Streams /\ field \in Fields
    /\ buffer \in Seq(Bytes) /\ buffer_index \in 0..Len(buffer)
    /\ cursor \in 0..Period - 1
    /\ getting \in BOOLEAN
    /\ ~getting => value = expected /\ Ahead(stream, buffer, buffer_index, length_consumed, cursor)
    /\ getting => \E origin \in 0..Period - 1, j \in Nat : Searching(origin, j)

\* The generator starts with a full buffer.
LEMMA IInvInit == Init => IInv
<1> SUFFICES ASSUME Init
             PROVE  IInv
  OBVIOUS
<1> DEFINE len == BUFFER_SIZE_IN_ELEMENTS * field.ENCODED_SIZE
<1>1. stream \in Streams /\ field \in Fields /\ ~getting /\ getting \in BOOLEAN /\ cursor = 0
      /\ value = expected /\ buffer_index = 0 /\ buffer = fill(stream, 0, len)
      /\ length_consumed = len % Period
  BY DEF Init
<1>2. Period \in Nat /\ Period > 0
  BY Repeats
<1>3. len \in Nat
  BY <1>1, SizeAssumption
<1> HIDE DEF len
<1>4. Holds(buffer, stream, 0) /\ Len(buffer) = len /\ buffer \in Seq(Bytes)
  BY <1>1, <1>3, Filled DEF Holds
<1>5. Ahead(stream, buffer, 0, length_consumed, 0)
  <2>1. len - 0 = len /\ 0 + (len - 0) = len /\ \A i \in 1..len : 0 + i = i
    BY <1>3
  <2>2. ASSUME NEW i \in 1..len
        PROVE  buffer[0 + i] = byte_at(stream, 0 + i - 1)
    BY <1>4, <2>1 DEF Holds
  <2> QED
    BY <1>1, <1>4, <2>1, <2>2 DEF Ahead
<1> QED
  BY <1>1, <1>2, <1>3, <1>4, <1>5 DEF IInv

\* get is called: the search starts where the reader without a buffer stood.
LEMMA GetStep == IInv /\ Get => IInv'
<1> SUFFICES ASSUME IInv, Get
             PROVE  IInv'
  OBVIOUS
<1>1. stream \in Streams /\ field \in Fields /\ cursor \in 0..Period - 1 /\ ~getting
      /\ Ahead(stream, buffer, buffer_index, length_consumed, cursor)
  BY DEF IInv, Get
<1>2. PICK origin \in 0..Period - 1 : origin = cursor
  BY <1>1
<1> DEFINE r == generate_random(stream, origin, field)
           k == Rejected(stream, origin, field)
           size == field.ENCODED_SIZE
<1>3. k \in Nat /\ r.next = (origin + (k + 1) * size) % Period
  BY <1>1, Chunks
<1>4. size \in Nat /\ Period \in Nat /\ Period > 0
  BY <1>1, SizeAssumption, Repeats
<1>5. r.next \in 0..Period - 1
  <2> HIDE DEF k, r, size
  <2>1. origin + (k + 1) * size \in Int
    BY <1>3, <1>4
  <2> QED
    BY <1>3, <1>4, <2>1
<1>6. /\ getting' = TRUE /\ cursor' = r.next /\ expected' = r.element
      /\ UNCHANGED <<stream, length_consumed, field, buffer, buffer_index, value>>
  BY <1>2 DEF Get
<1>7. 0 <= k /\ origin + 0 * size = origin
  <2> HIDE DEF k, size
  <2> QED
    BY <1>3, <1>4
<1>8. Ahead(stream, buffer, buffer_index, length_consumed, origin + 0 * size)
  BY <1>1, <1>2, <1>7
<1> HIDE DEF r
<1>9. Searching(origin, 0)'
  BY <1>6, <1>7, <1>8 DEF Searching, r
<1>10. \E o \in 0..Period - 1, j \in Nat : Searching(o, j)'
  BY <1>9
<1> QED
  BY <1>1, <1>5, <1>6, <1>10 DEF IInv

\* A turn of get's loop: the chunk is the one that generate_random looks at next.
LEMMA SampleStep == IInv /\ Sample => IInv'
<1> SUFFICES ASSUME IInv, Sample
             PROVE  IInv'
  OBVIOUS
<1>1. stream \in Streams /\ field \in Fields /\ cursor \in 0..Period - 1 /\ getting
      /\ buffer \in Seq(Bytes) /\ buffer_index \in 0..Len(buffer)
  BY DEF IInv, Sample
<1>2. PICK origin \in 0..Period - 1, j \in Nat : Searching(origin, j)
  BY <1>1 DEF IInv
<1> DEFINE r == generate_random(stream, origin, field)
           k == Rejected(stream, origin, field)
           size == field.ENCODED_SIZE
           p == origin + j * size
           chunk(i) == chunk_at(stream, origin + i * size, size)
           bytes == SubSeq(buffer, buffer_index + 1, buffer_index + size)
<1>3. /\ k \in Nat /\ accepts(field, chunk(k))
      /\ \A i \in 0..k - 1 : ~accepts(field, chunk(i))
      /\ r = [element |-> masked(field, chunk(k)), next |-> (origin + (k + 1) * size) % Period]
  BY <1>1, Chunks
<1>4. size \in Nat /\ size > 0 /\ Period \in Nat /\ Period > 0
  BY <1>1, SizeAssumption, Repeats
<1>5. /\ cursor = r.next /\ expected = r.element /\ j <= k
      /\ Ahead(stream, buffer, buffer_index, length_consumed, p)
  BY <1>2 DEF Searching
<1>6. p \in Nat /\ Len(buffer) \in Nat /\ p + size = origin + (j + 1) * size
  <2>1. Len(buffer) \in Nat
    BY <1>1
  <2> HIDE DEF size
  <2> QED
    BY <1>4, <2>1
<1>7. size \in 0..Len(buffer) - buffer_index /\ buffer_index + size \in 0..Len(buffer)
  <2>1. buffer_index + size <= Len(buffer)
    BY DEF Sample, chunk_fits
  <2> HIDE DEF size
  <2> QED
    BY <1>1, <1>4, <1>6, <2>1
<1> HIDE DEF size, p
<1>8. bytes = chunk(j)
  <2>1. bytes = chunk_at(stream, p, size)
    BY <1>1, <1>5, <1>6, <1>7, NextChunk
  <2> QED
    BY <2>1 DEF p
<1>9. Ahead(stream, buffer, buffer_index + size, length_consumed, p + size)
  BY <1>1, <1>5, <1>6, <1>7, Used
<1>10. /\ buffer_index' = buffer_index + size
       /\ UNCHANGED <<stream, length_consumed, field, buffer, cursor, expected>>
       /\ \/ accepts(field, bytes) /\ value' = masked(field, bytes) /\ getting' = FALSE
          \/ ~accepts(field, bytes) /\ UNCHANGED <<value, getting>>
  BY DEF Sample, size
<1> HIDE DEF bytes, chunk, k, r
<1>11. CASE accepts(field, bytes) /\ value' = masked(field, bytes) /\ getting' = FALSE
  <2>1. j = k
    <3>1. ~(j \in 0..k - 1)
      BY <1>3, <1>8, <1>11
    <3> QED
      BY <1>3, <1>5, <3>1
  <2>2. value' = expected'
    BY <1>3, <1>5, <1>8, <1>10, <1>11, <2>1
  <2>3. cursor = (p + size) % Period
    BY <1>3, <1>5, <1>6, <2>1
  <2>4. Ahead(stream, buffer, buffer_index + size, length_consumed, cursor)
    <3> DEFINE q == p + size
               index == buffer_index + size
    <3>1. q \in Nat /\ index \in 0..Len(buffer) /\ Ahead(stream, buffer, index, length_consumed, q)
      BY <1>4, <1>6, <1>7, <1>9
    <3> HIDE DEF q, index
    <3>2. Ahead(stream, buffer, index, length_consumed, q % Period)
      BY <1>1, <3>1, Wrapped
    <3> QED
      BY <2>3, <3>2 DEF q, index
  <2> QED
    BY <1>1, <1>7, <1>10, <1>11, <2>2, <2>4 DEF IInv
<1>12. CASE ~accepts(field, bytes) /\ UNCHANGED <<value, getting>>
  <2>1. j + 1 <= k
    <3>1. j # k
      BY <1>3, <1>8, <1>12
    <3> QED
      BY <1>3, <1>5, <3>1
  <2>2. Ahead(stream, buffer, buffer_index + size, length_consumed, origin + (j + 1) * size)
    BY <1>6, <1>9
  <2>3. Searching(origin, j + 1)'
    BY <1>5, <1>10, <2>1, <2>2 DEF Searching, r, k, size
  <2>4. \E o \in 0..Period - 1, i \in Nat : Searching(o, i)'
    <3>1. j + 1 \in Nat
      OBVIOUS
    <3> QED
      BY <2>3, <3>1
  <2> QED
    BY <1>1, <1>7, <1>10, <1>12, <2>4 DEF IInv
<1> QED
  BY <1>10, <1>11, <1>12

\* A refill: nothing is skipped and nothing is read twice.
LEMMA RefreshStep == IInv /\ Refresh => IInv'
<1> SUFFICES ASSUME IInv, Refresh
             PROVE  IInv'
  OBVIOUS
<1>1. stream \in Streams /\ field \in Fields /\ cursor \in 0..Period - 1 /\ getting
      /\ buffer \in Seq(Bytes) /\ buffer_index \in 0..Len(buffer)
  BY DEF IInv, Refresh
<1>2. PICK origin \in 0..Period - 1, j \in Nat : Searching(origin, j)
  BY <1>1 DEF IInv
<1> DEFINE size == field.ENCODED_SIZE
           p == origin + j * size
           left == SubSeq(buffer, buffer_index + 1, Len(buffer))
           wanted == Len(buffer) - Len(left)
           new == left \o fill(stream, length_consumed, wanted)
<1>3. Ahead(stream, buffer, buffer_index, length_consumed, p)
  BY <1>2 DEF Searching
<1>4. p \in Nat
  <2>1. size \in Nat
    BY <1>1, SizeAssumption
  <2> HIDE DEF size
  <2> QED
    BY <2>1
<1> HIDE DEF p
<1>5. new \in Seq(Bytes) /\ Ahead(stream, new, 0, (length_consumed + wanted) % Period, p)
  BY <1>1, <1>3, <1>4, Refilled
<1>6. /\ buffer' = new /\ length_consumed' = (length_consumed + wanted) % Period /\ buffer_index' = 0
      /\ UNCHANGED <<stream, field, getting, value, cursor, expected>>
  BY DEF Refresh
<1> HIDE DEF new, wanted
<1>7. Ahead(stream, buffer, buffer_index, length_consumed, p)'
  BY <1>5, <1>6 DEF p, size
<1>8. Searching(origin, j)'
  <2>1. Ahead(stream', buffer', buffer_index', length_consumed', origin + j * field'.ENCODED_SIZE)
    BY <1>5, <1>6 DEF p, size
  <2> QED
    BY <1>2, <1>6, <2>1 DEF Searching
<1>9. \E o \in 0..Period - 1, i \in Nat : Searching(o, i)'
  BY <1>8
<1>10. buffer_index' \in 0..Len(buffer')
  <2>1. Len(new) \in Nat
    BY <1>5
  <2> QED
    BY <1>6, <2>1
<1> QED
  BY <1>1, <1>5, <1>6, <1>9, <1>10 DEF IInv

\* The field changes between two calls of get, and nothing else does.
LEMMA IntoNewFieldStep == IInv /\ IntoNewField => IInv'
  BY DEF IInv, IntoNewField

\* Every step preserves the invariant.
LEMMA IInvNext == IInv /\ [Next]_vars => IInv'
<1> SUFFICES ASSUME IInv, [Next]_vars
             PROVE  IInv'
  OBVIOUS
<1>1. CASE UNCHANGED vars
  BY <1>1 DEF IInv, vars, Searching
<1> QED
  BY <1>1, GetStep, SampleStep, RefreshStep, IntoNewFieldStep DEF Next

-----------------------------------------------------------------------------
\* For all sizes of blocks, buffers and elements, all streams and all changes of the field: the
\* element that get returns is the one that generate_random draws from the stream without a
\* buffer, and what is left in the buffer is the stream from where that reader stands, continued
\* by the next fill (get and into_new_field of src/prng.rs, fill of src/vdaf/xof.rs).
THEOREM BufferCannotBeObserved == Spec => []BufferIsInvisible
<1>1. IInv => BufferIsInvisible
  <2> SUFFICES ASSUME IInv, ~getting
               PROVE  /\ value = expected
                      /\ \A i \in 1..Len(buffer) - buffer_index :
                            buffer[buffer_index + i] = byte_at(stream, cursor + i - 1)
                      /\ length_consumed = (cursor + (Len(buffer) - buffer_index)) % Period
    BY DEF BufferIsInvisible
  <2> QED
    BY DEF IInv, Ahead
<1> QED
  BY <1>1, IInvInit, IInvNext, PTL DEF Spec
=============================================================================
