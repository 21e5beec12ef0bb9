----------------------------- MODULE Idpf_proofs -----------------------------
(***************************************************************************)
(* That the two keys of Idpf add up to a point function, and that its      *)
(* caches are sound, for every field, every length of inputs, every        *)
(* extendable-output function and every sequence of evaluations.           *)
(***************************************************************************)
EXTENDS Idpf, Integers_proofs, SequenceTheorems, TLAPS

Bit == {0, 1}
Node == [key : Seed, control_bit : Bit]
Pair == [1..2 -> Node]
Word == [seed : Seed, control_bits : [1..2 -> Bit], value : F]

\* The aggregators' nodes on the path of the input: one of them holds the control bit.
Apart(nodes) == nodes[1].control_bit # nodes[2].control_bit

-----------------------------------------------------------------------------
(* Arithmetic modulo P and modulo 2.                                       *)

\* A residue is an element, an element is its own residue, and the rest is a multiple of P.
LEMMA Residue ==
  ASSUME NEW x \in Int
  PROVE  /\ x % P \in F
         /\ x \in F => x % P = x
         /\ \E q \in Int : x = P * q + (x % P)
<1>1. x \div P \in Int /\ x % P \in F /\ x = P * (x \div P) + (x % P)
  BY Division, ModulusAssumption DEF F
<1>2. x \in F => x % P = x
  BY ModulusAssumption DEF F
<1> QED
  BY <1>1, <1>2

\* An integer that differs from an element by a multiple of P has it for its residue.
LEMMA ResidueIs ==
  ASSUME NEW x \in Int, NEW q \in Int, NEW r \in F, x = P * q + r
  PROVE  x % P = r
  BY DivisionIs, ModulusAssumption DEF F

\* A field element and its negation.
LEMMA Negated ==
  ASSUME NEW y \in F
  PROVE  /\ negated(y) \in F
         /\ \E q \in Int : P - y = P * q + negated(y)
         /\ (y + negated(y)) % P = 0
<1>1. y \in Int /\ P \in Int /\ P - y \in Int /\ 0 \in F
  BY ModulusAssumption DEF F
<1>2. PICK q \in Int : P - y = P * q + ((P - y) % P)
  BY <1>1, Residue
<1>3. (P - y) % P \in F
  BY <1>1, Residue
<1> DEFINE n == (P - y) % P
<1> HIDE DEF n
<1>4. n \in Int /\ P - y = P * q + n
  BY <1>2, <1>3 DEF n, F
<1>5. y + n \in Int /\ 1 - q \in Int /\ y + n = P * (1 - q) + 0
  BY <1>1, <1>4
<1>6. (y + n) % P = 0
  BY <1>1, <1>5, ResidueIs
<1> QED
  BY <1>2, <1>3, <1>6 DEF n, negated

\* On the path the correction makes the two shares add up to the value.
LEMMA CorrectedSum ==
  ASSUME NEW value \in F, NEW c \in [1..2 -> F], NEW t \in [1..2 -> Bit], t[1] # t[2],
         NEW v, v = correction_value(value, c, t)
  PROVE  /\ v \in F
         /\ (((c[1] + t[1] * v) % P) + negated((c[2] + t[2] * v) % P)) % P = value
<1> DEFINE d == value - c[1] + c[2]
           u == d % P
<1>1. c[1] \in F /\ c[2] \in F /\ t[1] \in {0, 1} /\ t[2] \in {0, 1}
  BY DEF Bit
<1>2. c[1] \in Int /\ c[2] \in Int /\ value \in Int /\ P \in Int /\ d \in Int
  BY <1>1, ModulusAssumption DEF F
<1> HIDE DEF d
<1>3. u \in F /\ \E q \in Int : d = P * q + u
  BY <1>2, Residue
<1>4. v = IF t[2] = 1 THEN negated(u) ELSE u
  BY DEF correction_value, d
<1> HIDE DEF u
<1>5. PICK q1 \in Int : d = P * q1 + u
  BY <1>3
<1>6. u \in Int /\ value = c[1] - c[2] + P * q1 + u
  BY <1>2, <1>3, <1>5 DEF F, d
<1>7. negated(u) \in F /\ \E q \in Int : P - u = P * q + negated(u)
  BY <1>3, Negated
<1>8. v \in F /\ v \in Int
  BY <1>3, <1>4, <1>7 DEF F
<1>9. CASE t[2] = 1 /\ t[1] = 0
  <2>1. PICK q2 \in Int : P - u = P * q2 + v
    BY <1>4, <1>7, <1>9
  <2>2. c[1] + t[1] * v = c[1] /\ c[2] + t[2] * v = c[2] + v
    BY <1>2, <1>8, <1>9
  <2> DEFINE y == (c[2] + v) % P
  <2>3. c[1] % P = c[1]
    BY <1>1, <1>2, Residue
  <2>4. y \in F /\ \E q \in Int : c[2] + v = P * q + y
    <3>1. c[2] + v \in Int
      BY <1>2, <1>8
    <3> QED
      BY <3>1, Residue
  <2> HIDE DEF y
  <2>5. PICK q3 \in Int : c[2] + v = P * q3 + y
    BY <2>4
  <2>6. negated(y) \in F /\ \E q \in Int : P - y = P * q + negated(y)
    BY <2>4, Negated
  <2>7. PICK q4 \in Int : P - y = P * q4 + negated(y)
    BY <2>6
  <2> DEFINE z == negated(y)
  <2>8. z \in Int /\ y \in Int /\ P - y = P * q4 + z
    BY <2>4, <2>6, <2>7 DEF F
  <2> HIDE DEF z
  <2>9. c[1] + z = c[1] + P - (c[2] + v - P * q3) - P * q4
    BY <1>2, <1>8, <2>5, <2>8
  <2>10. c[1] + z = P * (q2 + q3 - q4 - q1) + value
    BY <1>2, <1>6, <1>8, <2>1, <2>9
  <2>11. (c[1] + z) % P = value
    <3>1. c[1] + z \in Int /\ q2 + q3 - q4 - q1 \in Int
      BY <1>2, <2>8
    <3> QED
      BY <2>10, <3>1, ResidueIs
  <2> QED
    BY <1>8, <2>2, <2>3, <2>11 DEF y, z
<1>10. CASE t[2] = 0 /\ t[1] = 1
  <2>1. v = u
    BY <1>4, <1>10
  <2>2. c[1] + t[1] * v = c[1] + u /\ c[2] + t[2] * v = c[2]
    BY <1>2, <1>8, <1>10, <2>1
  <2> DEFINE y == (c[1] + u) % P
             z == negated(c[2])
  <2>3. c[2] % P = c[2]
    BY <1>1, <1>2, Residue
  <2>4. y \in F /\ \E q \in Int : c[1] + u = P * q + y
    <3>1. c[1] + u \in Int
      BY <1>2, <1>6
    <3> QED
      BY <3>1, Residue
  <2>5. z \in F /\ \E q \in Int : P - c[2] = P * q + z
    BY <1>1, Negated
  <2> HIDE DEF y, z
  <2>6. PICK q3 \in Int : c[1] + u = P * q3 + y
    BY <2>4
  <2>7. PICK q4 \in Int : P - c[2] = P * q4 + z
    BY <2>5
  <2>8. z \in Int /\ y \in Int
    BY <2>4, <2>5 DEF F
  <2>9. y + z = P * (1 - q1 - q3 - q4) + value
    BY <1>2, <1>6, <2>6, <2>7, <2>8
  <2>10. (y + z) % P = value
    <3>1. y + z \in Int /\ 1 - q1 - q3 - q4 \in Int
      BY <2>8
    <3> QED
      BY <2>9, <3>1, ResidueIs
  <2> QED
    BY <1>8, <2>2, <2>3, <2>10 DEF y, z
<1> QED
  BY <1>1, <1>9, <1>10

-----------------------------------------------------------------------------
(* One level of the tree.                                                  *)

\* A child's seed and control bit, from the parent's node and a correction word.
Seeded(node, seed, side) == conditional_xor(extend(node.key).seeds[side], seed, node.control_bit)
Turned(node, bits, side) ==
    (extend(node.key).control_bits[side] + bits[side] * node.control_bit) % 2
Child(node, seed, bits, side) ==
    [key |-> ConvertSeed(Seeded(node, seed, side)), control_bit |-> Turned(node, bits, side)]

\* Evaluated is the identity on pairs.
LEMMA EvaluatedPair ==
  ASSUME NEW S, NEW f \in [1..2 -> S]
  PROVE  Evaluated(f) = f
<1>1. f \in Seq(S)
  BY SeqDef
<1> QED
  BY <1>1, ConcatEmptySeq DEF Evaluated

\* A key extends to seeds and control bits.
LEMMA Extend ==
  ASSUME NEW key \in Seed, NEW side \in 1..2
  PROVE  extend(key).seeds[side] \in Seed /\ extend(key).control_bits[side] \in Bit
<1> DEFINE blocks == <<ExtendXof(key, 0), ExtendXof(key, 1)>>
           bits == [k \in 1..2 |-> IF 0 \in blocks[k] THEN 1 ELSE 0]
<1>1. bits \in [1..2 -> Bit]
  BY DEF Bit
<1>2. Evaluated(bits) = bits
  <2> HIDE DEF bits
  <2> QED
    BY <1>1, EvaluatedPair
<1>3. extend(key).control_bits = bits /\ extend(key).seeds = <<blocks[1] \ {0}, blocks[2] \ {0}>>
  BY <1>2 DEF extend
<1>4. extend(key).control_bits[side] \in Bit
  BY <1>1, <1>3
<1>5. blocks[1] \in Seed /\ blocks[2] \in Seed
  BY XofAssumption
<1>6. extend(key).seeds[side] \in Seed
  BY <1>3, <1>5 DEF Seed
<1> QED
  BY <1>4, <1>6

\* A child of a node is a node.
LEMMA ChildIsNode ==
  ASSUME NEW node \in Node, NEW seed \in Seed, NEW bits \in [1..2 -> Bit], NEW side \in 1..2
  PROVE  /\ Seeded(node, seed, side) \in Seed
         /\ Turned(node, bits, side) \in Bit
         /\ ConvertValue(Seeded(node, seed, side)) \in F
         /\ Child(node, seed, bits, side) \in Node
<1>1. node.key \in Seed /\ node.control_bit \in Bit /\ bits[side] \in Bit
  BY DEF Node
<1>2. extend(node.key).seeds[side] \in Seed /\ extend(node.key).control_bits[side] \in Bit
  BY <1>1, Extend
<1>3. Seeded(node, seed, side) \in Seed
  BY <1>1, <1>2 DEF Seeded, conditional_xor, SymDiff, Seed
<1>4. Turned(node, bits, side) \in Bit
  BY <1>1, <1>2 DEF Turned, Bit
<1> QED
  BY <1>3, <1>4, XofAssumption DEF Child, Node

\* What eval_next computes.
LEMMA EvalNextIs ==
  ASSUME NEW a \in Bit, NEW node \in Node, NEW word \in Word, NEW bit \in Bit
  PROVE  LET side == bit + 1
             raw == (ConvertValue(Seeded(node, word.seed, side))
                        + Turned(node, word.control_bits, side) * word.value) % P
             r == eval_next(a, node, word, bit)
         IN  /\ side \in 1..2
             /\ r.node = Child(node, word.seed, word.control_bits, side)
             /\ r.node \in Node
             /\ raw \in F
             /\ r.out = IF a = 0 THEN raw ELSE negated(raw)
             /\ r.out \in F
<1> DEFINE side == bit + 1
           value == ConvertValue(Seeded(node, word.seed, side))
           turned == Turned(node, word.control_bits, side)
           raw == (value + turned * word.value) % P
<1>1. side \in 1..2 /\ word.seed \in Seed /\ word.control_bits \in [1..2 -> Bit] /\ word.value \in F
  BY DEF Bit, Word
<1>2. eval_next(a, node, word, bit)
        = [node |-> Child(node, word.seed, word.control_bits, side),
           out |-> IF a = 0 THEN raw ELSE negated(raw)]
  BY DEF eval_next, Child, Seeded, Turned
<1> HIDE DEF side
<1>3. value \in F /\ turned \in Bit /\ Child(node, word.seed, word.control_bits, side) \in Node
  BY <1>1, ChildIsNode
<1> HIDE DEF value, turned
<1>4. value + turned * word.value \in Int
  BY <1>1, <1>3, ModulusAssumption DEF Bit, F
<1>5. raw \in F
  BY <1>4, Residue
<1>6. negated(raw) \in F
  <2> HIDE DEF raw
  <2> QED
    BY <1>5, Negated
<1> QED
  BY <1>1, <1>2, <1>3, <1>5, <1>6 DEF side, value, turned

\* What generate_correction_word computes.
LEMMA GenerateIs ==
  ASSUME NEW bit \in Bit, NEW value \in F, NEW nodes \in Pair, NEW g,
         g = generate_correction_word(bit, value, nodes)
  PROVE  LET keep == bit + 1
             lose == 2 - bit
             one == extend(nodes[1].key)
             two == extend(nodes[2].key)
             c == [i \in 1..2 |-> ConvertValue(Seeded(nodes[i], g.word.seed, keep))]
             t == [i \in 1..2 |-> Turned(nodes[i], g.word.control_bits, keep)]
         IN  /\ keep \in 1..2 /\ lose \in 1..2
             /\ g.word.seed = SymDiff(one.seeds[lose], two.seeds[lose])
             /\ g.word.seed \in Seed
             /\ g.word.control_bits \in [1..2 -> Bit]
             /\ g.word.control_bits[keep] = (one.control_bits[keep] + two.control_bits[keep] + 1) % 2
             /\ g.word.control_bits[lose] = (one.control_bits[lose] + two.control_bits[lose]) % 2
             /\ g.word = [seed |-> g.word.seed, control_bits |-> g.word.control_bits,
                          value |-> correction_value(value, c, t)]
             /\ \A i \in 1..2 : g.nodes[i] = Child(nodes[i], g.word.seed, g.word.control_bits, keep)
             /\ g.nodes \in Pair
<1> DEFINE keep == bit + 1
           lose == 2 - bit
           e == <<extend(nodes[1].key), extend(nodes[2].key)>>
           seed == SymDiff(e[1].seeds[lose], e[2].seeds[lose])
           bits == correction_bits(bit, e)
           c == [i \in 1..2 |-> ConvertValue(Seeded(nodes[i], seed, keep))]
           t == [i \in 1..2 |-> Turned(nodes[i], bits, keep)]
           children == [i \in 1..2 |-> Child(nodes[i], seed, bits, keep)]
<1>1. keep \in 1..2 /\ lose \in 1..2 /\ 1 \in 1..2 /\ 2 \in 1..2
  BY DEF Bit
<1>2. nodes[1] \in Node /\ nodes[2] \in Node /\ nodes[1].key \in Seed /\ nodes[2].key \in Seed
  BY <1>1 DEF Pair, Node
<1>3. \A i \in 1..2 : e[i] = extend(nodes[i].key)
  OBVIOUS
<1>4. \A i \in 1..2 : \A side \in 1..2 : e[i].seeds[side] \in Seed /\ e[i].control_bits[side] \in Bit
  <2> SUFFICES ASSUME NEW i \in 1..2, NEW side \in 1..2
               PROVE  e[i].seeds[side] \in Seed /\ e[i].control_bits[side] \in Bit
    OBVIOUS
  <2>1. nodes[i].key \in Seed
    BY <1>2
  <2> HIDE DEF e
  <2> QED
    BY <1>3, <2>1, Extend
<1>5. seed \in Seed
  <2>1. e[1].seeds[lose] \in Seed /\ e[2].seeds[lose] \in Seed
    BY <1>1, <1>4
  <2> QED
    BY <2>1 DEF SymDiff, Seed
<1>6. /\ bits \in [1..2 -> Bit]
      /\ bits[keep] = (e[1].control_bits[keep] + e[2].control_bits[keep] + 1) % 2
      /\ bits[lose] = (e[1].control_bits[lose] + e[2].control_bits[lose]) % 2
  <2> HIDE DEF e
  <2>1. e[1].control_bits[1] \in {0, 1} /\ e[2].control_bits[1] \in {0, 1}
        /\ e[1].control_bits[2] \in {0, 1} /\ e[2].control_bits[2] \in {0, 1} /\ bit \in {0, 1}
    BY <1>1, <1>4 DEF Bit
  <2> QED
    BY <2>1 DEF correction_bits, Bit
<1>7. children \in Pair
  <2> SUFFICES ASSUME NEW i \in 1..2
               PROVE  Child(nodes[i], seed, bits, keep) \in Node
    BY DEF Pair
  <2>1. nodes[i] \in Node
    BY <1>2
  <2> HIDE DEF seed, bits, keep
  <2> QED
    BY <1>1, <1>5, <1>6, <2>1, ChildIsNode
<1>8. Evaluated(children) = children
  <2> HIDE DEF children
  <2> QED
    BY <1>7, EvaluatedPair DEF Pair
<1>9. g = [nodes |-> children,
           word |-> [seed |-> seed, control_bits |-> bits, value |-> correction_value(value, c, t)]]
  <2> DEFINE tt == [a \in 1..2 |-> (e[a].control_bits[keep] + bits[keep] * nodes[a].control_bit) % 2]
             kk == [a \in 1..2 |-> conditional_xor(e[a].seeds[keep], seed, nodes[a].control_bit)]
             cc == [a \in 1..2 |-> ConvertValue(kk[a])]
             ch == [a \in 1..2 |-> [key |-> ConvertSeed(kk[a]), control_bit |-> tt[a]]]
  <2>1. g = [nodes |-> Evaluated(ch),
             word |-> [seed |-> seed, control_bits |-> bits, value |-> correction_value(value, cc, tt)]]
    BY DEF generate_correction_word
  <2> HIDE DEF e, seed, bits, keep
  <2>2. tt = t
    BY <1>3 DEF Turned
  <2>3. \A a \in 1..2 : kk[a] = Seeded(nodes[a], seed, keep)
    BY <1>3 DEF Seeded
  <2>4. cc = c
    BY <2>3
  <2>5. ch = children
    BY <2>2, <2>3 DEF Child
  <2> HIDE DEF tt, cc, ch, c, t, children
  <2> QED
    BY <1>8, <2>1, <2>2, <2>4, <2>5
<1> HIDE DEF seed, bits, keep, lose
<1>10. g.word.seed = seed /\ g.word.control_bits = bits /\ g.nodes = children
  BY <1>9
<1>11. seed = SymDiff(extend(nodes[1].key).seeds[lose], extend(nodes[2].key).seeds[lose])
  BY DEF seed
<1>12. /\ bits[keep] = (extend(nodes[1].key).control_bits[keep]
                          + extend(nodes[2].key).control_bits[keep] + 1) % 2
       /\ bits[lose] = (extend(nodes[1].key).control_bits[lose]
                          + extend(nodes[2].key).control_bits[lose]) % 2
  BY <1>6
<1>13. \A i \in 1..2 : g.nodes[i] = Child(nodes[i], seed, bits, keep)
  BY <1>10
<1>14. g.word = [seed |-> seed, control_bits |-> bits, value |-> correction_value(value, c, t)]
  BY <1>9
<1> QED
  BY <1>1, <1>5, <1>6, <1>7, <1>10, <1>11, <1>12, <1>13, <1>14, Zenon DEF keep, lose

\* Two nodes that are the same have children that are the same, with shares that cancel.
LEMMA Twins ==
  ASSUME NEW node \in Node, NEW word \in Word, NEW bit \in Bit
  PROVE  /\ eval_next(0, node, word, bit).node = eval_next(1, node, word, bit).node
         /\ eval_next(0, node, word, bit).node \in Node
         /\ (eval_next(0, node, word, bit).out + eval_next(1, node, word, bit).out) % P = 0
<1> DEFINE side == bit + 1
           raw == (ConvertValue(Seeded(node, word.seed, side))
                        + Turned(node, word.control_bits, side) * word.value) % P
<1>1. 0 \in Bit /\ 1 \in Bit
  BY DEF Bit
<1>2. /\ eval_next(0, node, word, bit).node = Child(node, word.seed, word.control_bits, side)
      /\ eval_next(0, node, word, bit).node \in Node
      /\ raw \in F /\ eval_next(0, node, word, bit).out = raw
  BY <1>1, EvalNextIs
<1>3. /\ eval_next(1, node, word, bit).node = Child(node, word.seed, word.control_bits, side)
      /\ eval_next(1, node, word, bit).out = negated(raw)
  BY <1>1, EvalNextIs
<1> HIDE DEF raw
<1>4. (raw + negated(raw)) % P = 0
  BY <1>2, Negated
<1> QED
  BY <1>2, <1>3, <1>4

\* Control bits after a correction: apart on the kept side, together on the lost one.
LEMMA Parity ==
  ASSUME NEW x \in Bit, NEW y \in Bit, NEW t \in Bit, NEW u \in Bit, t # u
  PROVE  /\ (x + ((x + y + 1) % 2) * t) % 2 # (y + ((x + y + 1) % 2) * u) % 2
         /\ (x + ((x + y) % 2) * t) % 2 = (y + ((x + y) % 2) * u) % 2
  BY DEF Bit

\* One level of key generation.  Where the nodes above were apart, the correction word leads
\* both aggregators to the next nodes of the path, which are apart again, with shares that add
\* up to the value; and to one and the same node, with shares that cancel, off the path.
LEMMA OneLevel ==
  ASSUME NEW bit \in Bit, NEW value \in F, NEW nodes \in Pair, Apart(nodes), NEW g,
         g = generate_correction_word(bit, value, nodes)
  PROVE  /\ g.word \in Word /\ g.nodes \in Pair /\ Apart(g.nodes)
         /\ eval_next(0, nodes[1], g.word, bit).node = g.nodes[1]
         /\ eval_next(1, nodes[2], g.word, bit).node = g.nodes[2]
         /\ (eval_next(0, nodes[1], g.word, bit).out + eval_next(1, nodes[2], g.word, bit).out) % P
                = value
         /\ eval_next(0, nodes[1], g.word, 1 - bit).node = eval_next(1, nodes[2], g.word, 1 - bit).node
         /\ (eval_next(0, nodes[1], g.word, 1 - bit).out
                + eval_next(1, nodes[2], g.word, 1 - bit).out) % P = 0
<1> DEFINE keep == bit + 1
           lose == 2 - bit
           one == extend(nodes[1].key)
           two == extend(nodes[2].key)
           seed == g.word.seed
           bits == g.word.control_bits
           c == [i \in 1..2 |-> ConvertValue(Seeded(nodes[i], seed, keep))]
           t == [i \in 1..2 |-> Turned(nodes[i], bits, keep)]
           v == g.word.value
<1>1. /\ keep \in 1..2 /\ lose \in 1..2
      /\ seed = SymDiff(one.seeds[lose], two.seeds[lose])
      /\ seed \in Seed
      /\ bits \in [1..2 -> Bit]
      /\ bits[keep] = (one.control_bits[keep] + two.control_bits[keep] + 1) % 2
      /\ bits[lose] = (one.control_bits[lose] + two.control_bits[lose]) % 2
      /\ g.word = [seed |-> seed, control_bits |-> bits, value |-> correction_value(value, c, t)]
      /\ \A i \in 1..2 : g.nodes[i] = Child(nodes[i], seed, bits, keep)
      /\ g.nodes \in Pair
  BY GenerateIs
<1>2. nodes[1] \in Node /\ nodes[2] \in Node /\ nodes[1].key \in Seed /\ nodes[2].key \in Seed
      /\ nodes[1].control_bit \in Bit /\ nodes[2].control_bit \in Bit
      /\ nodes[1].control_bit # nodes[2].control_bit
  BY DEF Pair, Node, Apart
<1>3. /\ one.seeds[lose] \in Seed /\ two.seeds[lose] \in Seed
      /\ one.control_bits[lose] \in Bit /\ two.control_bits[lose] \in Bit
      /\ one.control_bits[keep] \in Bit /\ two.control_bits[keep] \in Bit
  BY <1>1, <1>2, Extend
<1>4. c \in [1..2 -> F] /\ t \in [1..2 -> Bit]
  <2> SUFFICES ASSUME NEW i \in 1..2
               PROVE  /\ ConvertValue(Seeded(nodes[i], seed, keep)) \in F
                      /\ Turned(nodes[i], bits, keep) \in Bit
    OBVIOUS
  <2>1. nodes[i] \in Node
    BY DEF Pair
  <2> HIDE DEF seed, bits, keep
  <2> QED
    BY <1>1, <2>1, ChildIsNode
<1>5. t[1] # t[2]
  <2>1. t[1] = (one.control_bits[keep] + bits[keep] * nodes[1].control_bit) % 2
    BY DEF Turned
  <2>2. t[2] = (two.control_bits[keep] + bits[keep] * nodes[2].control_bit) % 2
    BY DEF Turned
  <2> HIDE DEF one, two, bits, keep, t
  <2> QED
    BY <1>1, <1>2, <1>3, <2>1, <2>2, Parity
<1>6. v = correction_value(value, c, t)
  BY <1>1
<1>7. v \in F /\ (((c[1] + t[1] * v) % P) + negated((c[2] + t[2] * v) % P)) % P = value
  <2> HIDE DEF c, t, v
  <2> QED
    BY <1>4, <1>5, <1>6, CorrectedSum
<1>8. g.word \in Word
  BY <1>1, <1>6, <1>7 DEF Word
<1>9. c[1] = ConvertValue(Seeded(nodes[1], seed, keep)) /\ t[1] = Turned(nodes[1], bits, keep)
      /\ c[2] = ConvertValue(Seeded(nodes[2], seed, keep)) /\ t[2] = Turned(nodes[2], bits, keep)
  OBVIOUS
<1>10. g.nodes[1] = Child(nodes[1], seed, bits, keep) /\ g.nodes[2] = Child(nodes[2], seed, bits, keep)
  BY <1>1
<1>11. Apart(g.nodes)
  BY <1>5, <1>9, <1>10 DEF Apart, Child
<1>12. 0 \in Bit /\ 1 \in Bit /\ 1 - bit \in Bit /\ (1 - bit) + 1 = lose
  BY DEF Bit
<1> HIDE DEF c, t
<1>13. /\ eval_next(0, nodes[1], g.word, bit).node = Child(nodes[1], seed, bits, keep)
       /\ eval_next(0, nodes[1], g.word, bit).out = (c[1] + t[1] * v) % P
  BY <1>2, <1>8, <1>9, <1>12, EvalNextIs
<1>14. /\ eval_next(1, nodes[2], g.word, bit).node = Child(nodes[2], seed, bits, keep)
       /\ eval_next(1, nodes[2], g.word, bit).out = negated((c[2] + t[2] * v) % P)
  BY <1>2, <1>8, <1>9, <1>12, EvalNextIs
<1>15. Seeded(nodes[1], seed, lose) = Seeded(nodes[2], seed, lose)
  <2> HIDE DEF seed, lose
  <2>1. seed = SymDiff(one.seeds[lose], two.seeds[lose])
    BY <1>1
  <2> QED
    BY <1>2, <2>1 DEF Seeded, conditional_xor, SymDiff, Bit
<1>16. Turned(nodes[1], bits, lose) = Turned(nodes[2], bits, lose)
  <2>1. /\ Turned(nodes[1], bits, lose) = (one.control_bits[lose] + bits[lose] * nodes[1].control_bit) % 2
        /\ Turned(nodes[2], bits, lose) = (two.control_bits[lose] + bits[lose] * nodes[2].control_bit) % 2
    BY DEF Turned
  <2> HIDE DEF one, two, bits, lose
  <2> QED
    BY <1>1, <1>2, <1>3, <2>1, Parity
<1> DEFINE raw(node) == (ConvertValue(Seeded(node, seed, lose)) + Turned(node, bits, lose) * v) % P
<1>17. raw(nodes[1]) = raw(nodes[2])
  BY <1>15, <1>16
<1>18. /\ eval_next(0, nodes[1], g.word, 1 - bit).node = Child(nodes[1], seed, bits, lose)
       /\ eval_next(0, nodes[1], g.word, 1 - bit).out = raw(nodes[1])
       /\ raw(nodes[1]) \in F
  BY <1>2, <1>8, <1>12, EvalNextIs
<1>19. /\ eval_next(1, nodes[2], g.word, 1 - bit).node = Child(nodes[2], seed, bits, lose)
       /\ eval_next(1, nodes[2], g.word, 1 - bit).out = negated(raw(nodes[2]))
  BY <1>2, <1>8, <1>12, EvalNextIs
<1>20. Child(nodes[1], seed, bits, lose) = Child(nodes[2], seed, bits, lose)
  BY <1>15, <1>16 DEF Child
<1>21. (raw(nodes[1]) + negated(raw(nodes[2]))) % P = 0
  <2> DEFINE r == raw(nodes[1])
  <2>1. r \in F /\ raw(nodes[2]) = r
    BY <1>17, <1>18
  <2> HIDE DEF r
  <2>2. (r + negated(r)) % P = 0
    BY <2>1, Negated
  <2> QED
    BY <2>1, <2>2 DEF r
<1> HIDE DEF raw, v, seed, bits, keep, lose
<1> QED
  BY <1>1, <1>7, <1>8, <1>10, <1>11, <1>13, <1>14, <1>18, <1>19, <1>20, <1>21

-----------------------------------------------------------------------------
(* Key generation.                                                         *)

\* N are the nodes on the path of an input, level by level, and ws the correction words that
\* lead from each of them to the next.
IsPath(N, ws, input, values, random) ==
    /\ N \in [0..Bits -> Pair]
    /\ ws \in [1..Bits -> Word]
    /\ N[0] = root_nodes(random)
    /\ \A k \in 0..Bits : Apart(N[k])
    /\ \A k \in 1..Bits :
          LET g == generate_correction_word(input[k], values[k], N[k - 1])
          IN  N[k] = g.nodes /\ ws[k] = g.word

\* The nodes at the root are apart.
LEMMA Root ==
  ASSUME NEW random \in [1..2 -> Seed]
  PROVE  root_nodes(random) \in Pair /\ Apart(root_nodes(random))
  BY DEF root_nodes, Pair, Node, Bit, Apart

\* The public share that gen_with_random makes is the correction words of a path.
LEMMA Generated ==
  ASSUME NEW input \in [1..Bits -> Bit], NEW values \in [1..Bits -> F],
         NEW random \in [1..2 -> Seed]
  PROVE  \E N : IsPath(N, gen_with_random(input, values, random), input, values, random)
<1> DEFINE T == [nodes : {n \in Pair : Apart(n)}, words : Seq(Word)]
           base == [nodes |-> root_nodes(random), words |-> <<>>]
           gen(k, acc) == generate_correction_word(input[k], values[k], acc.nodes)
           step(k, acc) == [nodes |-> gen(k, acc).nodes, words |-> Append(acc.words, gen(k, acc).word)]
           G == [k \in 1..Bits |-> [acc \in T |-> step(k, acc)]]
           levels == [level \in 1..Bits |-> level]
           Folds(it) == it = [s \in SUBSET (1..Bits) |->
                                IF s = {} THEN base ELSE step(levels[Max(s)], it[s \ {Max(s)}])]
           iter == CHOOSE it : Folds(it)
<1>1. gen_with_random(input, values, random) = iter[1..Bits].words
  <2>1. DOMAIN levels = 1..Bits
    OBVIOUS
  <2> QED
    BY <2>1 DEF gen_with_random, FoldLeft, MapThenFoldSet
<1>2. Bits \in Nat /\ Bits >= 1
  BY IdpfAssumption
<1>3. base \in T
  BY Root
<1>4. ASSUME NEW k \in 1..Bits, NEW acc \in T
      PROVE  step(k, acc) \in T
  <2>1. input[k] \in Bit /\ values[k] \in F /\ acc.nodes \in Pair /\ Apart(acc.nodes)
        /\ acc.words \in Seq(Word)
    OBVIOUS
  <2>2. gen(k, acc).word \in Word /\ gen(k, acc).nodes \in Pair /\ Apart(gen(k, acc).nodes)
    BY <2>1, OneLevel
  <2> HIDE DEF gen
  <2> QED
    BY <2>1, <2>2
<1>5. G \in [1..Bits -> [T -> T]]
  <2> HIDE DEF step, T
  <2> QED
    BY <1>4
<1>6. \E it : Folds(it)
  <2> HIDE DEF T, G, base
  <2>0. PICK it : IsFold(it, Bits, T, base, G)
    BY <1>2, <1>3, <1>5, FoldExists
  <2>1. /\ it \in [SUBSET (1..Bits) -> T]
        /\ \A s \in SUBSET (1..Bits) :
              it[s] = IF s = {} THEN base ELSE G[Max(s)][it[s \ {Max(s)}]]
    BY <2>0 DEF IsFold
  <2>2. ASSUME NEW s \in SUBSET (1..Bits)
        PROVE  it[s] = IF s = {} THEN base ELSE step(levels[Max(s)], it[s \ {Max(s)}])
    <3>1. CASE s = {}
      BY <2>1, <3>1
    <3>2. CASE s # {}
      <4>1. Max(s) \in 1..Bits
        BY <1>2, <3>2, MaxOfPositions
      <4>2. levels[Max(s)] = Max(s)
        BY <4>1
      <4>3. it[s \ {Max(s)}] \in T
        BY <2>1
      <4>4. G[Max(s)][it[s \ {Max(s)}]] = step(Max(s), it[s \ {Max(s)}])
        <5> HIDE DEF step
        <5> QED
          BY <4>1, <4>3 DEF G
      <4> HIDE DEF levels, step
      <4> QED
        BY <2>1, <3>2, <4>2, <4>4
    <3> QED
      BY <3>1, <3>2
  <2>3. it = [s \in SUBSET (1..Bits) |->
                IF s = {} THEN base ELSE step(levels[Max(s)], it[s \ {Max(s)}])]
    <3> HIDE DEF step, levels
    <3> QED
      BY <2>1, <2>2
  <2> QED
    BY <2>3
<1>7. Folds(iter)
  <2> HIDE DEF Folds
  <2> QED
    BY <1>6
<1> HIDE DEF iter
<1>8. iter[1..0] = base
  BY <1>7
<1>9. ASSUME NEW k \in 1..Bits
      PROVE  iter[1..k] = step(k, iter[1..k - 1])
  <2>1. k \in Nat /\ k > 0 /\ 1..k \in SUBSET (1..Bits) /\ levels[k] = k
    BY <1>2
  <2>2. Max(1..k) = k /\ (1..k) \ {k} = 1..k - 1 /\ 1..k # {}
    BY <2>1, MaxOfFirst
  <2>3. iter[1..k] = IF 1..k = {} THEN base
                     ELSE step(levels[Max(1..k)], iter[(1..k) \ {Max(1..k)}])
    <3> HIDE DEF step, base, levels
    <3> QED
      BY <1>7, <2>1
  <2> HIDE DEF step, base, levels
  <2> QED
    BY <2>1, <2>2, <2>3
<1> HIDE DEF Folds, step, base
<1> DEFINE at(k) == iter[1..k]
           Good(k) == /\ at(k) \in T
                      /\ Len(at(k).words) = k
                      /\ \A j \in 1..k : at(k).words[j] = gen(j, at(j - 1)).word
           S == {k \in 0..Bits : Good(k)}
<1>10. 0 \in S
  <2>1. at(0) \in T
    BY <1>3, <1>8
  <2>2. at(0).words = <<>>
    BY <1>8 DEF base
  <2>3. 1..0 = {} /\ 0 \in 0..Bits /\ Len(<<>>) = 0
    BY <1>2
  <2> HIDE DEF T, at
  <2> QED
    BY <2>1, <2>2, <2>3
<1>11. ASSUME NEW k \in 0..Bits - 1, k \in S
       PROVE  k + 1 \in S
  <2>1. k + 1 \in 1..Bits /\ k + 1 \in 0..Bits /\ (k + 1) - 1 = k /\ k \in Nat
    BY <1>2
  <2>2. Good(k)
    BY <1>11
  <2>3. at(k + 1) = step(k + 1, at(k))
    BY <1>9, <2>1
  <2>4. at(k + 1) \in T
    <3> HIDE DEF T, at
    <3> QED
      BY <1>4, <2>1, <2>2, <2>3
  <2>5. at(k + 1).words = Append(at(k).words, gen(k + 1, at(k)).word)
    BY <2>3 DEF step
  <2>6. at(k).words \in Seq(Word) /\ Len(at(k).words) = k
    <3> HIDE DEF at
    <3> QED
      BY <2>2
  <2> HIDE DEF at, gen, T
  <2>7. Len(at(k + 1).words) = k + 1
    BY <2>5, <2>6
  <2>8. ASSUME NEW j \in 1..k + 1
        PROVE  at(k + 1).words[j] = gen(j, at(j - 1)).word
    <3>1. CASE j = k + 1
      <4>1. at(k + 1).words[k + 1] = gen(k + 1, at(k)).word
        BY <2>5, <2>6
      <4>2. j - 1 = k
        BY <2>1, <3>1
      <4> QED
        BY <3>1, <4>1, <4>2
    <3>2. CASE j # k + 1
      <4>1. j \in 1..k
        BY <2>1, <3>2
      <4>2. at(k + 1).words[j] = at(k).words[j]
        BY <2>5, <2>6, <4>1
      <4> QED
        BY <2>2, <4>1, <4>2
    <3> QED
      BY <3>1, <3>2
  <2>9. Good(k + 1)
    BY <2>4, <2>7, <2>8
  <2> HIDE DEF Good
  <2> QED
    BY <2>1, <2>9
<1>12. 0..Bits \subseteq S
  <2> HIDE DEF S
  <2> QED
    BY <1>2, <1>10, <1>11, IntervalInduction
<1>13. \A k \in 0..Bits : Good(k)
  <2> HIDE DEF Good
  <2> QED
    BY <1>12
<1> DEFINE N == [k \in 0..Bits |-> at(k).nodes]
           ws == at(Bits).words
<1>14. ASSUME NEW k \in 0..Bits
       PROVE  at(k).nodes \in Pair /\ Apart(at(k).nodes)
  <2>1. at(k) \in T
    BY <1>13
  <2> HIDE DEF at
  <2> QED
    BY <2>1
<1>15. N \in [0..Bits -> Pair] /\ \A k \in 0..Bits : Apart(N[k])
  <2> HIDE DEF at
  <2> QED
    BY <1>14
<1>16. /\ ws \in Seq(Word) /\ Len(ws) = Bits
       /\ \A j \in 1..Bits : ws[j] = gen(j, at(j - 1)).word
  <2>1. Bits \in 0..Bits
    BY <1>2
  <2>2. Good(Bits)
    BY <1>13, <2>1
  <2> HIDE DEF at, gen
  <2> QED
    BY <2>2
<1>17. ws \in [1..Bits -> Word]
  <2> HIDE DEF ws
  <2> QED
    BY <1>16
<1>18. N[0] = root_nodes(random)
  BY <1>2, <1>8 DEF base
<1>19. ASSUME NEW k \in 1..Bits
       PROVE  LET g == generate_correction_word(input[k], values[k], N[k - 1])
              IN  N[k] = g.nodes /\ ws[k] = g.word
  <2>1. k - 1 \in 0..Bits /\ k \in 0..Bits
    BY <1>2
  <2>2. N[k] = at(k).nodes /\ N[k - 1] = at(k - 1).nodes
    <3> HIDE DEF at
    <3> QED
      BY <2>1
  <2>3. at(k).nodes = gen(k, at(k - 1)).nodes
    <3>1. at(k) = step(k, at(k - 1))
      BY <1>9
    <3> HIDE DEF gen, at
    <3> QED
      BY <3>1 DEF step
  <2> HIDE DEF at, N, ws
  <2> QED
    BY <1>16, <2>2, <2>3
<1>20. ws = gen_with_random(input, values, random)
  BY <1>1
<1>21. IsPath(N, ws, input, values, random)
  <2> HIDE DEF N, ws
  <2> QED
    BY <1>15, <1>17, <1>18, <1>19 DEF IsPath
<1> QED
  BY <1>20, <1>21

-----------------------------------------------------------------------------
(* Evaluation from the root.                                               *)

\* Aggregator a's node at p, with its public share and random keys as parameters.
Walk(a, ws, random, p) ==
    FoldLeft(LAMBDA node, level : eval_next(a, node, ws[level], p[level]).node,
             root_nodes(random)[a + 1], [level \in 1..Len(p) |-> level])

\* w are the nodes on the way to p, level by level.
IsWalk(w, a, ws, random, p) ==
    /\ w \in [0..Len(p) -> Node]
    /\ w[0] = root_nodes(random)[a + 1]
    /\ \A k \in 1..Len(p) : w[k] = eval_next(a, w[k - 1], ws[k], p[k]).node

\* A walk ends in the node that Walk computes.
LEMMA Walked ==
  ASSUME NEW a \in Bit, NEW ws \in [1..Bits -> Word], NEW random \in [1..2 -> Seed],
         NEW n \in 0..Bits, NEW p \in [1..n -> Bit]
  PROVE  \E w : IsWalk(w, a, ws, random, p) /\ Walk(a, ws, random, p) = w[n]
<1> DEFINE base == root_nodes(random)[a + 1]
           step(k, node) == eval_next(a, node, ws[k], p[k]).node
           G == [k \in 1..n |-> [node \in Node |-> step(k, node)]]
           levels == [level \in 1..n |-> level]
           Folds(it) == it = [s \in SUBSET (1..n) |->
                                IF s = {} THEN base ELSE step(levels[Max(s)], it[s \ {Max(s)}])]
           iter == CHOOSE it : Folds(it)
<1>1. Len(p) = n /\ n \in Nat /\ Bits \in Nat
  BY IdpfAssumption
<1>2. Walk(a, ws, random, p) = iter[1..n]
  BY <1>1 DEF Walk, FoldLeft, MapThenFoldSet
<1>3. base \in Node
  <2>1. a + 1 \in 1..2
    BY DEF Bit
  <2> QED
    BY <2>1, Root DEF Pair
<1>4. ASSUME NEW k \in 1..n, NEW node \in Node
      PROVE  step(k, node) \in Node
  <2>1. ws[k] \in Word /\ p[k] \in Bit
    BY <1>1
  <2> QED
    BY <2>1, EvalNextIs
<1> HIDE DEF base
<1>5. G \in [1..n -> [Node -> Node]]
  <2> HIDE DEF step
  <2> QED
    BY <1>4
<1>6. \E it : Folds(it)
  <2> HIDE DEF G, step
  <2>1. PICK it : IsFold(it, n, Node, base, G)
    BY <1>1, <1>3, <1>5, FoldExists
  <2>2. /\ it \in [SUBSET (1..n) -> Node]
        /\ \A s \in SUBSET (1..n) :
              it[s] = IF s = {} THEN base ELSE G[Max(s)][it[s \ {Max(s)}]]
    BY <2>1 DEF IsFold
  <2>3. ASSUME NEW s \in SUBSET (1..n)
        PROVE  it[s] = IF s = {} THEN base ELSE step(levels[Max(s)], it[s \ {Max(s)}])
    <3>1. CASE s = {}
      BY <2>2, <3>1
    <3>2. CASE s # {}
      <4>1. Max(s) \in 1..n
        BY <1>1, <3>2, MaxOfPositions
      <4>2. levels[Max(s)] = Max(s) /\ it[s \ {Max(s)}] \in Node
        BY <2>2, <4>1
      <4>3. G[Max(s)][it[s \ {Max(s)}]] = step(Max(s), it[s \ {Max(s)}])
        BY <4>1, <4>2 DEF G
      <4> HIDE DEF levels
      <4> QED
        BY <2>2, <3>2, <4>2, <4>3
    <3> QED
      BY <3>1, <3>2
  <2>4. it = [s \in SUBSET (1..n) |->
                IF s = {} THEN base ELSE step(levels[Max(s)], it[s \ {Max(s)}])]
    <3> HIDE DEF levels
    <3> QED
      BY <2>2, <2>3
  <2> QED
    BY <2>4
<1>7. Folds(iter)
  <2> HIDE DEF Folds
  <2> QED
    BY <1>6
<1> HIDE DEF iter
<1> DEFINE w == [k \in 0..n |-> iter[1..k]]
<1>8. w[0] = base
  BY <1>1, <1>7
<1>9. ASSUME NEW k \in 1..n
      PROVE  w[k] = step(k, w[k - 1])
  <2>1. /\ k \in Nat /\ k > 0 /\ 1..k \in SUBSET (1..n) /\ levels[k] = k
        /\ k \in 0..n /\ k - 1 \in 0..n
    BY <1>1
  <2>2. Max(1..k) = k /\ (1..k) \ {k} = 1..k - 1 /\ 1..k # {}
    BY <2>1, MaxOfFirst
  <2>3. iter[1..k] = IF 1..k = {} THEN base
                     ELSE step(levels[Max(1..k)], iter[(1..k) \ {Max(1..k)}])
    <3> HIDE DEF step, levels
    <3> QED
      BY <1>7, <2>1
  <2> HIDE DEF step, levels
  <2> QED
    BY <2>1, <2>2, <2>3
<1> HIDE DEF Folds
<1> DEFINE S == {k \in 0..n : w[k] \in Node}
<1>10. 0 \in S
  BY <1>1, <1>3, <1>8
<1>11. ASSUME NEW k \in 0..n - 1, k \in S
       PROVE  k + 1 \in S
  <2>1. k + 1 \in 1..n /\ k + 1 \in 0..n /\ (k + 1) - 1 = k
    BY <1>1
  <2>2. w[k + 1] = step(k + 1, w[k])
    BY <1>9, <2>1
  <2> HIDE DEF w, step
  <2> QED
    BY <1>4, <1>11, <2>1, <2>2
<1>12. 0..n \subseteq S
  <2> HIDE DEF S
  <2> QED
    BY <1>1, <1>10, <1>11, IntervalInduction
<1>13. w \in [0..n -> Node]
  BY <1>12
<1>14. w[n] = iter[1..n]
  BY <1>1
<1>15. IsWalk(w, a, ws, random, p)
  <2> HIDE DEF w
  <2> QED
    BY <1>1, <1>8, <1>9, <1>13 DEF IsWalk, base
<1> QED
  BY <1>2, <1>14, <1>15

\* The first n bits of p and of q are the same: p leads to q, if those are all it has.
Leads(n, p, q) == \A k \in 1..n : p[k] = q[k]

\* The way to a prefix of p is the first part of the way to p.
LEMMA WalksAgree ==
  ASSUME NEW a, NEW ws, NEW random, NEW n \in Nat, NEW m \in 0..n, NEW p, NEW q,
         Len(p) = n, Len(q) = m, Leads(m, q, p),
         NEW w, NEW v, IsWalk(w, a, ws, random, p), IsWalk(v, a, ws, random, q)
  PROVE  \A k \in 0..m : v[k] = w[k]
<1> DEFINE S == {k \in 0..m : v[k] = w[k]}
<1>1. 0 \in S
  BY DEF IsWalk
<1>2. ASSUME NEW k \in 0..m - 1, k \in S
      PROVE  k + 1 \in S
  <2>1. k + 1 \in 1..m /\ k + 1 \in 1..n /\ k + 1 \in 0..m /\ (k + 1) - 1 = k
    OBVIOUS
  <2>2. v[k + 1] = eval_next(a, v[k], ws[k + 1], q[k + 1]).node
    BY <2>1 DEF IsWalk
  <2>3. w[k + 1] = eval_next(a, w[k], ws[k + 1], p[k + 1]).node
    BY <2>1 DEF IsWalk
  <2>4. v[k] = w[k] /\ q[k + 1] = p[k + 1]
    BY <1>2, <2>1 DEF Leads
  <2> QED
    BY <2>1, <2>2, <2>3, <2>4
<1>3. 0..m \subseteq S
  <2> HIDE DEF S
  <2> QED
    BY <1>1, <1>2, IntervalInduction
<1> QED
  BY <1>3

\* The empty prefix leads to the root.
LEMMA WalkStart ==
  ASSUME NEW a \in Bit, NEW ws \in [1..Bits -> Word], NEW random \in [1..2 -> Seed],
         NEW p \in [1..0 -> Bit]
  PROVE  Walk(a, ws, random, p) = root_nodes(random)[a + 1] /\ Walk(a, ws, random, p) \in Node
<1>1. 0 \in 0..Bits /\ Len(p) = 0
  BY IdpfAssumption
<1>2. PICK w : IsWalk(w, a, ws, random, p) /\ Walk(a, ws, random, p) = w[0]
  BY <1>1, Walked
<1> QED
  BY <1>1, <1>2 DEF IsWalk

\* A prefix leads to the child, on the side of its last bit, of the node its parent leads to.
LEMMA WalkNext ==
  ASSUME NEW a \in Bit, NEW ws \in [1..Bits -> Word], NEW random \in [1..2 -> Seed],
         NEW n \in 1..Bits, NEW p \in [1..n -> Bit], NEW q \in [1..n - 1 -> Bit],
         Leads(n - 1, q, p)
  PROVE  /\ Walk(a, ws, random, q) \in Node
         /\ Walk(a, ws, random, p) \in Node
         /\ Walk(a, ws, random, p) = eval_next(a, Walk(a, ws, random, q), ws[n], p[n]).node
<1>1. /\ n \in 0..Bits /\ n - 1 \in 0..Bits /\ n \in Nat /\ n - 1 \in 0..n /\ n \in 1..n /\ n \in 0..n
      /\ Len(p) = n /\ Len(q) = n - 1 /\ n - 1 \in 0..n - 1
  BY IdpfAssumption
<1>2. PICK w : IsWalk(w, a, ws, random, p) /\ Walk(a, ws, random, p) = w[n]
  BY <1>1, Walked
<1>3. PICK v : IsWalk(v, a, ws, random, q) /\ Walk(a, ws, random, q) = v[n - 1]
  BY <1>1, Walked
<1>4. v[n - 1] = w[n - 1]
  <2>1. \A k \in 0..n - 1 : v[k] = w[k]
    <3> DEFINE m == n - 1
    <3>1. m \in 0..n /\ Len(q) = m /\ Leads(m, q, p)
      BY <1>1
    <3> HIDE DEF m
    <3>2. \A k \in 0..m : v[k] = w[k]
      BY <1>1, <1>2, <1>3, <3>1, WalksAgree
    <3> QED
      BY <3>2 DEF m
  <2> QED
    BY <1>1, <2>1
<1>5. w[n] = eval_next(a, w[n - 1], ws[n], p[n]).node /\ w[n] \in Node /\ w[n - 1] \in Node
  BY <1>1, <1>2 DEF IsWalk
<1> QED
  BY <1>2, <1>3, <1>4, <1>5

-----------------------------------------------------------------------------
(* The point function.                                                     *)

\* Aggregator a's share at a prefix of length n, its parent being q.
Share(a, ws, random, n, p, q) == eval_next(a, Walk(a, ws, random, q), ws[n], p[n]).out

\* The sum of the shares there, and what it should be.
Sum(ws, random, n, p, q) == (Share(0, ws, random, n, p, q) + Share(1, ws, random, n, p, q)) % P
Programmed(n, p, input, values) == IF Leads(n, p, input) THEN values[n] ELSE 0

\* The two aggregators' nodes at a prefix: the ones key generation saw where the prefix leads
\* to the input, the same node where it does not.
Together(n, p, N, ws, random, input) ==
    IF Leads(n, p, input)
    THEN Walk(0, ws, random, p) = N[n][1] /\ Walk(1, ws, random, p) = N[n][2]
    ELSE Walk(0, ws, random, p) = Walk(1, ws, random, p)

\* The step from a parent to its child, and the shares at the child.
LEMMA Descend ==
  ASSUME NEW input \in [1..Bits -> Bit], NEW values \in [1..Bits -> F],
         NEW random \in [1..2 -> Seed], NEW N, NEW ws, IsPath(N, ws, input, values, random),
         NEW n \in 1..Bits, NEW p \in [1..n -> Bit], NEW q \in [1..n - 1 -> Bit],
         Leads(n - 1, q, p),
         Together(n - 1, q, N, ws, random, input)
  PROVE  /\ Together(n, p, N, ws, random, input)
         /\ Sum(ws, random, n, p, q) = Programmed(n, p, input, values)
<1> DEFINE g == generate_correction_word(input[n], values[n], N[n - 1])
           left == Walk(0, ws, random, q)
           right == Walk(1, ws, random, q)
<1>1. /\ n - 1 \in 0..Bits /\ n \in 0..Bits /\ n \in 1..n /\ Bits \in Nat /\ n \in Nat
      /\ 0 \in Bit /\ 1 \in Bit
  BY IdpfAssumption DEF Bit
<1>2. ws \in [1..Bits -> Word] /\ N[n - 1] \in Pair /\ Apart(N[n - 1]) /\ N[n] = g.nodes /\ ws[n] = g.word
  BY <1>1 DEF IsPath
<1>3. input[n] \in Bit /\ values[n] \in F /\ p[n] \in Bit
  BY <1>1
<1>4. /\ left \in Node /\ right \in Node
      /\ Walk(0, ws, random, p) = eval_next(0, left, ws[n], p[n]).node
      /\ Walk(1, ws, random, p) = eval_next(1, right, ws[n], p[n]).node
  BY <1>1, <1>2, WalkNext
<1>5. /\ Share(0, ws, random, n, p, q) = eval_next(0, left, ws[n], p[n]).out
      /\ Share(1, ws, random, n, p, q) = eval_next(1, right, ws[n], p[n]).out
  BY DEF Share
<1>6. Leads(n, p, input) <=> (Leads(n - 1, q, input) /\ p[n] = input[n])
  BY <1>1 DEF Leads
<1> HIDE DEF left, right, g
<1>7. CASE Leads(n - 1, q, input)
  <2>1. left = N[n - 1][1] /\ right = N[n - 1][2]
    BY <1>7 DEF Together, left, right
  <2> DEFINE nodes == N[n - 1]
  <2> HIDE DEF nodes
  <2>2. /\ eval_next(0, nodes[1], g.word, input[n]).node = g.nodes[1]
        /\ eval_next(1, nodes[2], g.word, input[n]).node = g.nodes[2]
        /\ (eval_next(0, nodes[1], g.word, input[n]).out
              + eval_next(1, nodes[2], g.word, input[n]).out) % P = values[n]
        /\ eval_next(0, nodes[1], g.word, 1 - input[n]).node
              = eval_next(1, nodes[2], g.word, 1 - input[n]).node
        /\ (eval_next(0, nodes[1], g.word, 1 - input[n]).out
              + eval_next(1, nodes[2], g.word, 1 - input[n]).out) % P = 0
    BY <1>2, <1>3, OneLevel DEF nodes, g
  <2>3. p[n] = input[n] \/ (p[n] = 1 - input[n] /\ p[n] # input[n])
    BY <1>3 DEF Bit
  <2>4. CASE p[n] = input[n]
    BY <1>2, <1>4, <1>5, <1>6, <1>7, <2>1, <2>2, <2>4 DEF Together, Sum, Programmed, nodes
  <2>5. CASE p[n] = 1 - input[n] /\ p[n] # input[n]
    BY <1>2, <1>4, <1>5, <1>6, <2>1, <2>2, <2>5 DEF Together, Sum, Programmed, nodes
  <2> QED
    BY <2>3, <2>4, <2>5
<1>8. CASE ~Leads(n - 1, q, input)
  <2>1. left = right
    BY <1>8 DEF Together, left, right
  <2>2. ws[n] \in Word
    BY <1>2
  <2>3. /\ eval_next(0, left, ws[n], p[n]).node = eval_next(1, left, ws[n], p[n]).node
        /\ (eval_next(0, left, ws[n], p[n]).out + eval_next(1, left, ws[n], p[n]).out) % P = 0
    BY <1>3, <1>4, <2>2, Twins
  <2> QED
    BY <1>4, <1>5, <1>6, <1>8, <2>1, <2>3 DEF Together, Sum, Programmed
<1> QED
  BY <1>7, <1>8

\* At every prefix the two aggregators stand where key generation meant them to.
LEMMA Points ==
  ASSUME NEW input \in [1..Bits -> Bit], NEW values \in [1..Bits -> F],
         NEW random \in [1..2 -> Seed], NEW N, NEW ws, IsPath(N, ws, input, values, random)
  PROVE  \A n \in 0..Bits : \A p \in [1..n -> Bit] : Together(n, p, N, ws, random, input)
<1> DEFINE S == {n \in 0..Bits : \A p \in [1..n -> Bit] : Together(n, p, N, ws, random, input)}
<1>1. Bits \in Nat /\ ws \in [1..Bits -> Word]
  BY IdpfAssumption DEF IsPath
<1>2. 0 \in S
  <2> SUFFICES ASSUME NEW p \in [1..0 -> Bit]
               PROVE  Together(0, p, N, ws, random, input)
    BY <1>1
  <2>1. Leads(0, p, input)
    BY DEF Leads
  <2>2. 0 \in Bit /\ 1 \in Bit /\ 0 + 1 = 1 /\ 1 + 1 = 2
    BY DEF Bit
  <2>3. /\ Walk(0, ws, random, p) = root_nodes(random)[1]
        /\ Walk(1, ws, random, p) = root_nodes(random)[2]
    BY <1>1, <2>2, WalkStart
  <2> QED
    BY <2>1, <2>3 DEF Together, IsPath
<1>3. ASSUME NEW k \in 0..Bits - 1, k \in S
      PROVE  k + 1 \in S
  <2> DEFINE n == k + 1
  <2>1. n \in 1..Bits /\ n \in 0..Bits /\ n - 1 = k
    BY <1>1
  <2> SUFFICES ASSUME NEW p \in [1..n -> Bit]
               PROVE  Together(n, p, N, ws, random, input)
    BY <2>1
  <2> DEFINE q == [i \in 1..n - 1 |-> p[i]]
  <2> HIDE DEF n
  <2>2. q \in [1..n - 1 -> Bit] /\ Leads(n - 1, q, p)
    BY <2>1 DEF Leads
  <2> HIDE DEF q
  <2>3. Together(n - 1, q, N, ws, random, input)
    BY <1>3, <2>1, <2>2
  <2> QED
    BY <2>1, <2>2, <2>3, Descend
<1>4. 0..Bits \subseteq S
  <2> HIDE DEF S
  <2> QED
    BY <1>1, <1>2, <1>3, IntervalInduction
<1> QED
  BY <1>4

\* The shares at a prefix add up to the value on the path and to zero off it.
LEMMA SharesAdd ==
  ASSUME NEW input \in [1..Bits -> Bit], NEW values \in [1..Bits -> F],
         NEW random \in [1..2 -> Seed], NEW n \in 1..Bits, NEW p \in [1..n -> Bit],
         NEW q \in [1..n - 1 -> Bit], Leads(n - 1, q, p)
  PROVE  LET ws == gen_with_random(input, values, random)
         IN  Sum(ws, random, n, p, q) = Programmed(n, p, input, values)
<1> DEFINE ws == gen_with_random(input, values, random)
<1>1. PICK N : IsPath(N, ws, input, values, random)
  BY Generated
<1> HIDE DEF ws
<1>2. n - 1 \in 0..Bits
  BY IdpfAssumption
<1>3. Together(n - 1, q, N, ws, random, input)
  BY <1>1, <1>2, Points
<1>4. Sum(ws, random, n, p, q) = Programmed(n, p, input, values)
  BY <1>1, <1>3, Descend
<1> QED
  BY <1>4 DEF ws

-----------------------------------------------------------------------------
(* The caches.                                                             *)

Inner == UNION {[1..n -> Bit] : n \in 1..Bits - 1}
Entry == [prefix : Inner, node : Node]

\* The entries that say which node their prefix leads to.
TrueEntry(a, ws, random) == {e \in Entry : e.node = Walk(a, ws, random, e.prefix)}

\* A ring has room for an entry, and no more entries than it has room for.
Fits(k, cap, c) == k = "RingBufferCache" => cap \in Nat /\ cap >= 1 /\ Len(c) <= cap

\* The first bits of a prefix.
LEMMA Cut ==
  ASSUME NEW n \in Nat, NEW p \in [1..n -> Bit], NEW l \in 0..n
  PROVE  /\ SubSeq(p, 1, l) \in [1..l -> Bit]
         /\ \A k \in 1..l : SubSeq(p, 1, l)[k] = p[k]
         /\ Leads(l, SubSeq(p, 1, l), p)
<1> DEFINE q == SubSeq(p, 1, l)
<1>1. 1 \in Int /\ l \in Int /\ \A i \in 1..l : p[i] \in Bit
  OBVIOUS
<1>2. /\ q \in Seq(Bit) /\ Len(q) = IF 1 <= l THEN l - 1 + 1 ELSE 0
      /\ \A i \in 1..l - 1 + 1 : q[i] = p[1 + i - 1]
  BY <1>1, SubSeqProperties
<1> HIDE DEF q
<1>3. Len(q) = l /\ \A i \in 1..l : q[i] = p[i]
  BY <1>1, <1>2
<1>4. q \in [1..l -> Bit]
  BY <1>2, <1>3
<1> QED
  BY <1>3, <1>4 DEF q, Leads

\* What is in a cache after an insertion was in it or is the new entry, and a ring does not
\* outgrow its capacity.
LEMMA Inserted ==
  ASSUME NEW E, NEW k \in CacheKinds, NEW cap, NEW c \in Seq(E), Fits(k, cap, c),
         NEW p, NEW node, [prefix |-> p, node |-> node] \in E
  PROVE  /\ cache_insert(k, cap, c, p, node) \in Seq(E)
         /\ Fits(k, cap, cache_insert(k, cap, c, p, node))
<1> DEFINE entry == [prefix |-> p, node |-> node]
<1>1. ASSUME NEW d \in Seq(E)
      PROVE  Append(d, entry) \in Seq(E) /\ Len(Append(d, entry)) = Len(d) + 1
  <2>1. entry \in E
    OBVIOUS
  <2> HIDE DEF entry
  <2> QED
    BY <2>1, AppendProperties
<1>2. CASE k = "NoCache"
  BY <1>2 DEF cache_insert
<1>3. CASE k = "HashMapCache"
  <2>1. cache_insert(k, cap, c, p, node)
          = IF cache_hits(c, p) = {} THEN Append(c, entry) ELSE c
    BY <1>3 DEF cache_insert
  <2>2. k # "RingBufferCache"
    BY <1>3
  <2> HIDE DEF entry
  <2> QED
    BY <1>1, <2>1, <2>2 DEF Fits
<1>4. CASE k = "RingBufferCache"
  <2> DEFINE d == IF Len(c) = cap THEN Tail(c) ELSE c
  <2>1. cache_insert(k, cap, c, p, node) = Append(d, entry)
    BY <1>4 DEF cache_insert
  <2>2. cap \in Nat /\ cap >= 1 /\ Len(c) <= cap /\ Len(c) \in Nat
    BY <1>4 DEF Fits
  <2>3. d \in Seq(E) /\ Len(d) \in Nat /\ Len(d) + 1 <= cap
    <3>1. CASE Len(c) = cap
      <4>1. c # <<>> /\ d = Tail(c)
        BY <2>2, <3>1
      <4>2. Tail(c) \in Seq(E) /\ Len(Tail(c)) = Len(c) - 1
        BY <4>1, HeadTailProperties
      <4> QED
        BY <2>2, <3>1, <4>1, <4>2
    <3>2. CASE Len(c) # cap
      BY <2>2, <3>2
    <3> QED
      BY <3>1, <3>2
  <2> HIDE DEF d, entry
  <2>4. Append(d, entry) \in Seq(E) /\ Len(Append(d, entry)) = Len(d) + 1
    BY <1>1, <2>3
  <2> QED
    BY <2>1, <2>2, <2>3, <2>4 DEF Fits
<1> QED
  BY <1>2, <1>3, <1>4 DEF CacheKinds

\* An evaluation from any node on the way to a prefix ends with the share at the prefix, and
\* leaves a cache of true entries with another such cache.
LEMMA Evaluation ==
  ASSUME NEW a \in Bit, NEW ws \in [1..Bits -> Word], NEW random \in [1..2 -> Seed],
         NEW n \in 1..Bits, NEW p \in [1..n -> Bit], NEW start \in 0..n - 1,
         NEW node, node = Walk(a, ws, random, SubSeq(p, 1, start)), node \in Node,
         NEW k \in CacheKinds, NEW cap, NEW c \in Seq(TrueEntry(a, ws, random)), Fits(k, cap, c)
  PROVE  LET r == eval_from_node(a, ws, start, node, p, k, cap, c)
         IN  /\ r.out = Share(a, ws, random, n, p, SubSeq(p, 1, n - 1))
             /\ r.out \in F
             /\ r.cache \in Seq(TrueEntry(a, ws, random)) /\ Fits(k, cap, r.cache)
<1> DEFINE m == n - start
           base == [node |-> node, out |-> 0, cache |-> c]
           T == [node : Node, out : F, cache : {d \in Seq(Entry) : Fits(k, cap, d)}]
           next(l, acc) == eval_next(a, acc.node, ws[l], p[l])
           grown(l, acc) == IF l = Bits THEN acc.cache
                            ELSE cache_insert(k, cap, acc.cache, SubSeq(p, 1, l), next(l, acc).node)
           step(l, acc) == [node |-> next(l, acc).node, out |-> next(l, acc).out,
                            cache |-> grown(l, acc)]
           levels == [i \in 1..m |-> start + i]
           G == [i \in 1..m |-> [acc \in T |-> step(start + i, acc)]]
           Folds(it) == it = [s \in SUBSET (1..m) |->
                                IF s = {} THEN base ELSE step(levels[Max(s)], it[s \ {Max(s)}])]
           iter == CHOOSE it : Folds(it)
<1>1. Len(p) = n /\ n \in Nat /\ Bits \in Nat /\ m \in 1..n /\ m \in Nat
  BY IdpfAssumption
<1>2. eval_from_node(a, ws, start, node, p, k, cap, c) = iter[1..m]
  BY <1>1 DEF eval_from_node, FoldLeft, MapThenFoldSet
<1>3. TrueEntry(a, ws, random) \subseteq Entry /\ c \in Seq(Entry)
  BY DEF TrueEntry
<1>4. base \in T
  BY <1>3, ModulusAssumption DEF F
<1> HIDE DEF m
<1>5. ASSUME NEW i \in 1..m
      PROVE  start + i \in 1..n /\ start + i \in 1..Bits /\ (start + i) - 1 \in 0..n
             /\ ws[start + i] \in Word /\ p[start + i] \in Bit
  BY <1>1 DEF m
<1>6. ASSUME NEW l \in 1..n, l # Bits, l \in 1..Bits
      PROVE  SubSeq(p, 1, l) \in Inner
  <2>1. l \in 0..n /\ l \in 1..Bits - 1
    BY <1>1, <1>6
  <2>2. SubSeq(p, 1, l) \in [1..l -> Bit]
    BY <1>1, <2>1, Cut
  <2> QED
    BY <2>1, <2>2 DEF Inner
<1>7. ASSUME NEW i \in 1..m, NEW acc \in T
      PROVE  step(start + i, acc) \in T
  <2> DEFINE l == start + i
  <2>1. l \in 1..n /\ l \in 1..Bits /\ ws[l] \in Word /\ p[l] \in Bit
    BY <1>5
  <2> HIDE DEF l
  <2>2. acc.node \in Node /\ acc.cache \in Seq(Entry) /\ Fits(k, cap, acc.cache)
    OBVIOUS
  <2>3. next(l, acc).node \in Node /\ next(l, acc).out \in F
    BY <2>1, <2>2, EvalNextIs
  <2> HIDE DEF next
  <2>4. grown(l, acc) \in Seq(Entry) /\ Fits(k, cap, grown(l, acc))
    <3>1. CASE l = Bits
      BY <2>2, <3>1
    <3>2. CASE l # Bits
      <4>1. [prefix |-> SubSeq(p, 1, l), node |-> next(l, acc).node] \in Entry
        BY <1>6, <2>1, <2>3, <3>2 DEF Entry
      <4> QED
        BY <2>2, <3>2, <4>1, Inserted
    <3> QED
      BY <3>1, <3>2
  <2> HIDE DEF grown
  <2>5. step(l, acc) \in T
    BY <2>3, <2>4
  <2> QED
    BY <2>5 DEF l
<1> HIDE DEF base, T, step
<1>8. G \in [1..m -> [T -> T]]
  BY <1>7
<1>9. \E it : Folds(it)
  <2> HIDE DEF G
  <2>1. PICK it : IsFold(it, m, T, base, G)
    BY <1>1, <1>4, <1>8, FoldExists
  <2>2. /\ it \in [SUBSET (1..m) -> T]
        /\ \A s \in SUBSET (1..m) :
              it[s] = IF s = {} THEN base ELSE G[Max(s)][it[s \ {Max(s)}]]
    BY <2>1 DEF IsFold
  <2>3. ASSUME NEW s \in SUBSET (1..m)
        PROVE  it[s] = IF s = {} THEN base ELSE step(levels[Max(s)], it[s \ {Max(s)}])
    <3>1. CASE s = {}
      BY <2>2, <3>1
    <3>2. CASE s # {}
      <4>1. Max(s) \in 1..m
        BY <1>1, <3>2, MaxOfPositions
      <4>2. levels[Max(s)] = start + Max(s) /\ it[s \ {Max(s)}] \in T
        BY <2>2, <4>1
      <4>3. G[Max(s)][it[s \ {Max(s)}]] = step(start + Max(s), it[s \ {Max(s)}])
        BY <4>1, <4>2 DEF G
      <4> HIDE DEF levels
      <4> QED
        BY <2>2, <3>2, <4>2, <4>3
    <3> QED
      BY <3>1, <3>2
  <2>4. it = [s \in SUBSET (1..m) |->
                IF s = {} THEN base ELSE step(levels[Max(s)], it[s \ {Max(s)}])]
    <3> HIDE DEF levels
    <3> QED
      BY <2>2, <2>3
  <2> QED
    BY <2>4
<1>10. Folds(iter)
  <2> HIDE DEF Folds
  <2> QED
    BY <1>9
<1> HIDE DEF iter
<1> DEFINE at(i) == iter[1..i]
<1>11. at(0) = base
  BY <1>10
<1>12. ASSUME NEW i \in 1..m
       PROVE  at(i) = step(start + i, at(i - 1))
  <2>1. i \in Nat /\ i > 0 /\ 1..i \in SUBSET (1..m) /\ levels[i] = start + i
    BY <1>1
  <2>2. Max(1..i) = i /\ (1..i) \ {i} = 1..i - 1 /\ 1..i # {}
    BY <2>1, MaxOfFirst
  <2>3. iter[1..i] = IF 1..i = {} THEN base
                     ELSE step(levels[Max(1..i)], iter[(1..i) \ {Max(1..i)}])
    <3> HIDE DEF levels
    <3> QED
      BY <1>10, <2>1
  <2> HIDE DEF levels
  <2> QED
    BY <2>1, <2>2, <2>3
<1> HIDE DEF Folds, at
<1> DEFINE E == TrueEntry(a, ws, random)
           Good(i) == /\ at(i).node = Walk(a, ws, random, SubSeq(p, 1, start + i))
                      /\ at(i).node \in Node
                      /\ at(i).cache \in Seq(E) /\ Fits(k, cap, at(i).cache)
                      /\ i > 0 => /\ at(i).out \in F
                                  /\ at(i).out = Share(a, ws, random, start + i, p,
                                                       SubSeq(p, 1, start + i - 1))
           S == {i \in 0..m : Good(i)}
<1> HIDE DEF E
<1>13. 0 \in S
  <2>1. 0 \in 0..m /\ start + 0 = start /\ ~(0 > 0)
    BY <1>1
  <2>2. at(0).node = node /\ at(0).cache = c
    BY <1>11 DEF base
  <2> QED
    BY <2>1, <2>2 DEF E
<1>14. ASSUME NEW j \in 0..m - 1, j \in S
       PROVE  j + 1 \in S
  <2> DEFINE l == start + (j + 1)
             q == SubSeq(p, 1, l)
             parent == SubSeq(p, 1, l - 1)
  <2>1. j + 1 \in 1..m /\ j + 1 \in 0..m /\ (j + 1) - 1 = j /\ l - 1 = start + j
        /\ start + (j + 1) - 1 = l - 1
    BY <1>1
  <2>2. l \in 1..n /\ l \in 1..Bits /\ l - 1 \in 0..n /\ l \in 0..n /\ ws[l] \in Word /\ p[l] \in Bit
    BY <1>1, <1>5, <2>1
  <2>3. at(j + 1) = step(l, at(j))
    BY <1>12, <2>1
  <2>4. Good(j)
    BY <1>14
  <2>5. at(j).node = Walk(a, ws, random, parent) /\ at(j).node \in Node
        /\ at(j).cache \in Seq(E) /\ Fits(k, cap, at(j).cache)
    BY <2>1, <2>4
  <2> HIDE DEF l
  <2>6. q \in [1..l -> Bit] /\ parent \in [1..l - 1 -> Bit] /\ Leads(l, q, p) /\ Leads(l - 1, parent, p)
    BY <1>1, <2>2, Cut
  <2>7. Leads(l - 1, parent, q) /\ q[l] = p[l]
    BY <1>1, <2>2, <2>6 DEF Leads
  <2> HIDE DEF q, parent
  <2>8. Walk(a, ws, random, q) = eval_next(a, at(j).node, ws[l], p[l]).node
        /\ Walk(a, ws, random, q) \in Node
    <3>1. /\ Walk(a, ws, random, q) \in Node
          /\ Walk(a, ws, random, q) = eval_next(a, Walk(a, ws, random, parent), ws[l], q[l]).node
      BY <2>2, <2>6, <2>7, WalkNext
    <3> QED
      BY <2>5, <2>7, <3>1
  <2>9. at(j + 1).node = Walk(a, ws, random, q) /\ at(j + 1).node = next(l, at(j)).node
    BY <2>3, <2>8 DEF step
  <2>10. at(j + 1).out = Share(a, ws, random, l, p, parent) /\ at(j + 1).out \in F
    <3>1. at(j + 1).out = eval_next(a, at(j).node, ws[l], p[l]).out
      BY <2>3 DEF step
    <3>2. eval_next(a, at(j).node, ws[l], p[l]).out \in F
      BY <2>2, <2>5, EvalNextIs
    <3> QED
      BY <2>5, <3>1, <3>2 DEF Share
  <2>11. at(j + 1).cache \in Seq(E) /\ Fits(k, cap, at(j + 1).cache)
    <3>1. at(j + 1).cache = grown(l, at(j))
      <4> HIDE DEF grown, next
      <4> QED
        BY <2>3 DEF step
    <3>2. CASE l = Bits
      BY <2>5, <3>1, <3>2
    <3>3. CASE l # Bits
      <4>1. grown(l, at(j)) = cache_insert(k, cap, at(j).cache, q, next(l, at(j)).node)
        BY <3>3 DEF q
      <4> HIDE DEF next, grown
      <4>2. q \in Inner
        BY <1>6, <2>2, <3>3 DEF q
      <4>3. [prefix |-> q, node |-> next(l, at(j)).node] \in E
        BY <2>8, <2>9, <4>2 DEF E, TrueEntry, Entry
      <4> QED
        BY <2>5, <3>1, <4>1, <4>3, Inserted
    <3> QED
      BY <3>2, <3>3
  <2>12. Good(j + 1)
    BY <2>1, <2>8, <2>9, <2>10, <2>11 DEF l, q, parent
  <2> HIDE DEF Good
  <2> QED
    BY <2>1, <2>12
<1>15. 0..m \subseteq S
  <2> HIDE DEF S
  <2> QED
    BY <1>1, <1>13, <1>14, IntervalInduction
<1>16. Good(m) /\ m > 0 /\ start + m = n /\ start + m - 1 = n - 1
  <2>1. m \in 0..m /\ m > 0 /\ start + m = n /\ start + m - 1 = n - 1
    BY <1>1 DEF m
  <2> HIDE DEF Good
  <2> QED
    BY <1>15, <2>1
<1>17. /\ at(m).out = Share(a, ws, random, n, p, SubSeq(p, 1, n - 1)) /\ at(m).out \in F
       /\ at(m).cache \in Seq(E) /\ Fits(k, cap, at(m).cache)
  BY <1>16
<1> QED
  BY <1>2, <1>17 DEF at, E

-----------------------------------------------------------------------------
(* The aggregator.                                                         *)

\* The answer is the share at the prefix asked for.
AnswerIsShare ==
    answer # -1 =>
        \E n \in 1..Bits :
            /\ asked \in [1..n -> Bit]
            /\ answer = Share(agg, words, report.random, n, asked, SubSeq(asked, 1, n - 1))

\* The inductive invariant.
IInv ==
    /\ agg \in Bit
    /\ report \in Reports
    /\ words = gen_with_random(report.input, report.values, report.random)
    /\ kind \in CacheKinds
    /\ cache \in Seq(TrueEntry(agg, words, report.random))
    /\ Fits(kind, capacity, cache)
    /\ AnswerIsShare

\* What a report holds.
LEMMA Report ==
  ASSUME NEW r \in Reports
  PROVE  r.input \in [1..Bits -> Bit] /\ r.values \in [1..Bits -> F] /\ r.random \in [1..2 -> Seed]
         /\ gen_with_random(r.input, r.values, r.random) \in [1..Bits -> Word]
<1>1. r.input \in [1..Bits -> Bit] /\ r.values \in [1..Bits -> F] /\ r.random \in [1..2 -> Seed]
  BY IdpfAssumption DEF Bit
<1> QED
  BY <1>1, Generated DEF IsPath

\* An aggregator starts with an empty cache.
LEMMA IInvInit == Init => IInv
<1> SUFFICES ASSUME Init
             PROVE  IInv
  OBVIOUS
<1>1. agg \in Bit /\ report \in Reports /\ kind \in CacheKinds
      /\ words = gen_with_random(report.input, report.values, report.random)
  BY DEF Init, Bit
<1>2. cache \in Seq(TrueEntry(agg, words, report.random)) /\ Len(cache) = 0
  BY DEF Init
<1>3. Fits(kind, capacity, cache)
  <2> SUFFICES ASSUME kind = "RingBufferCache"
               PROVE  capacity \in Nat /\ capacity >= 1
    BY <1>2 DEF Fits
  <2>1. PICK c \in Capacities : capacity = IF c = 0 THEN 1 ELSE c
    BY DEF Init
  <2> QED
    BY <2>1, IdpfAssumption
<1>4. AnswerIsShare
  BY DEF Init, AnswerIsShare
<1> QED
  BY <1>1, <1>2, <1>3, <1>4 DEF IInv

\* Where an evaluation starts: at the root, or at the node that an entry of the cache is for.
LEMMA Start ==
  ASSUME NEW a \in Bit, NEW ws \in [1..Bits -> Word], NEW random \in [1..2 -> Seed],
         NEW n \in 1..Bits, NEW p \in [1..n -> Bit], NEW c \in Seq(TrueEntry(a, ws, random))
  PROVE  LET start == start_level(c, p)
             node == IF start = 0 THEN root_nodes(random)[a + 1]
                     ELSE cache_get(c, SubSeq(p, 1, start))
         IN  /\ start \in 0..n - 1
             /\ node = Walk(a, ws, random, SubSeq(p, 1, start))
             /\ node \in Node
<1> DEFINE known == {l \in 1..Len(p) - 1 : cache_hits(c, SubSeq(p, 1, l)) # {}}
           start == IF known = {} THEN 0 ELSE Max(known)
           node == IF start = 0 THEN root_nodes(random)[a + 1]
                   ELSE cache_get(c, SubSeq(p, 1, start))
<1>1. n \in Nat /\ Len(p) = n /\ n - 1 \in Nat /\ Len(c) \in Nat
  BY IdpfAssumption
<1>2. CASE known = {}
  <2>1. start = 0 /\ node = root_nodes(random)[a + 1] /\ 0 \in 0..n /\ 0 \in 0..n - 1
    BY <1>1, <1>2
  <2>2. SubSeq(p, 1, 0) \in [1..0 -> Bit]
    BY <1>1, <2>1, Cut
  <2>3. Walk(a, ws, random, SubSeq(p, 1, 0)) = root_nodes(random)[a + 1]
        /\ Walk(a, ws, random, SubSeq(p, 1, 0)) \in Node
    BY <2>2, WalkStart
  <2> HIDE DEF known
  <2> QED
    BY <2>1, <2>3 DEF start_level, known
<1>3. CASE known # {}
  <2>1. known \in SUBSET (1..n - 1)
    BY <1>1
  <2>2. start = Max(known) /\ Max(known) \in known
    <3> HIDE DEF known
    <3> QED
      BY <1>1, <1>3, <2>1, MaxOfPositions
  <2> DEFINE q == SubSeq(p, 1, start)
             hits == cache_hits(c, q)
  <2>3. start \in 1..n - 1 /\ start # 0 /\ hits # {} /\ start \in 0..n - 1
    <3>1. start \in known
      BY <2>2
    <3> HIDE DEF start
    <3>2. start \in 1..n - 1 /\ hits # {}
      BY <1>1, <3>1
    <3> QED
      BY <1>1, <3>2
  <2>4. hits \in SUBSET (1..Len(c)) /\ \A i \in hits : c[i].prefix = q
    BY DEF cache_hits
  <2>5. Max(hits) \in hits
    <3> HIDE DEF hits
    <3> QED
      BY <1>1, <2>3, <2>4, MaxOfPositions
  <2>6. node = c[Max(hits)].node
    BY <2>3 DEF cache_get
  <2> HIDE DEF hits, node, start, known
  <2>7. c[Max(hits)] \in TrueEntry(a, ws, random) /\ c[Max(hits)].prefix = q
    <3>1. Max(hits) \in 1..Len(c)
      BY <2>4, <2>5
    <3> QED
      BY <2>4, <2>5, <3>1
  <2>8. node = Walk(a, ws, random, q) /\ node \in Node
    BY <2>6, <2>7 DEF TrueEntry, Entry
  <2> QED
    BY <2>3, <2>8 DEF start_level, start, known, node
<1> QED
  BY <1>2, <1>3

\* An evaluation preserves the invariant.
LEMMA IInvNext == IInv /\ [Next]_vars => IInv'
<1> SUFFICES ASSUME IInv, [Next]_vars
             PROVE  IInv'
  OBVIOUS
<1>1. CASE UNCHANGED vars
  BY <1>1 DEF IInv, vars, AnswerIsShare
<1>2. CASE Next
  <2>1. PICK prefix \in Prefix \cup {<<>>, [i \in 1..Bits + 1 |-> 0]} : Eval(prefix)
    BY <1>2 DEF Next
  <2>2. UNCHANGED <<agg, report, words, kind, capacity>> /\ asked' = prefix
    BY <2>1 DEF Eval
  <2> DEFINE random == report.random
             E == TrueEntry(agg, words, random)
  <2>3. agg \in Bit /\ report \in Reports /\ kind \in CacheKinds /\ cache \in Seq(E)
        /\ Fits(kind, capacity, cache) /\ random \in [1..2 -> Seed] /\ words \in [1..Bits -> Word]
    BY Report DEF IInv
  <2> SUFFICES cache' \in Seq(E) /\ Fits(kind, capacity, cache') /\ AnswerIsShare'
    BY <2>2, <2>3 DEF IInv
  <2>4. CASE Len(prefix) \notin 1..Bits
    BY <2>1, <2>3, <2>4 DEF Eval, AnswerIsShare
  <2>5. CASE Len(prefix) \in 1..Bits
    <3> DEFINE n == Len(prefix)
               start == start_level(cache, prefix)
               node == IF start = 0 THEN root_nodes(random)[agg + 1]
                       ELSE cache_get(cache, SubSeq(prefix, 1, start))
               r == eval_from_node(agg, words, start, node, prefix, kind, capacity, cache)
    <3>1. answer' = r.out /\ cache' = r.cache
      BY <2>1, <2>5 DEF Eval
    <3>2. n \in 1..Bits /\ prefix \in [1..n -> Bit]
      <4>1. CASE prefix \in Prefix
        <5>1. PICK j \in 1..Bits : prefix \in [1..j -> {0, 1}]
          BY <4>1 DEF Prefix
        <5>2. Len(prefix) = j
          BY <5>1
        <5> QED
          BY <5>1, <5>2 DEF Bit
      <4>2. CASE prefix = <<>>
        BY <2>5, <4>2
      <4>3. CASE prefix = [i \in 1..Bits + 1 |-> 0]
        <5>1. Len(prefix) = Bits + 1 /\ Bits \in Nat
          BY <4>3, IdpfAssumption
        <5> QED
          BY <2>5, <5>1
      <4> QED
        BY <2>1, <4>1, <4>2, <4>3
    <3> HIDE DEF n
    <3>3. start \in 0..n - 1 /\ node = Walk(agg, words, random, SubSeq(prefix, 1, start))
          /\ node \in Node
      BY <2>3, <3>2, Start
    <3> HIDE DEF start, node
    <3>4. /\ r.out = Share(agg, words, random, n, prefix, SubSeq(prefix, 1, n - 1))
          /\ r.cache \in Seq(E) /\ Fits(kind, capacity, r.cache)
      BY <2>3, <3>2, <3>3, Evaluation
    <3> HIDE DEF r
    <3>5. AnswerIsShare'
      BY <2>2, <3>1, <3>2, <3>4 DEF AnswerIsShare
    <3> QED
      BY <3>1, <3>4, <3>5
  <2> QED
    BY <2>4, <2>5
<1> QED
  BY <1>1, <1>2

\* The node that NodeAt walks to.
LEMMA NodeAtIs == \A a, prefix : NodeAt(a, prefix) = Walk(a, words, report.random, prefix)
  BY DEF NodeAt, Walk

-----------------------------------------------------------------------------
\* For every field, length of inputs, extendable-output function, kind and capacity of a cache,
\* and whatever prefixes were evaluated before: every entry of the cache is the node that its
\* prefix leads to, none is for a leaf, and a ring stays within its capacity (the caches and
\* eval_from_node of src/idpf.rs).
THEOREM CachesAreSound == Spec => []CacheIsSound
<1>1. IInv => CacheIsSound
  <2> SUFFICES ASSUME IInv
               PROVE  CacheIsSound
    OBVIOUS
  <2>1. cache \in Seq(TrueEntry(agg, words, report.random)) /\ Fits(kind, capacity, cache)
    BY DEF IInv
  <2>2. ASSUME NEW i \in DOMAIN cache
        PROVE  cache[i].node = NodeAt(agg, cache[i].prefix) /\ Len(cache[i].prefix) < Bits
    <3>1. cache[i] \in TrueEntry(agg, words, report.random)
      BY <2>1
    <3>2. cache[i].node = Walk(agg, words, report.random, cache[i].prefix)
          /\ cache[i].prefix \in Inner
      BY <3>1 DEF TrueEntry, Entry
    <3>3. PICK n \in 1..Bits - 1 : cache[i].prefix \in [1..n -> Bit]
      BY <3>2 DEF Inner
    <3>4. Len(cache[i].prefix) = n
      BY <3>3
    <3> QED
      BY <3>2, <3>4, NodeAtIs, IdpfAssumption
  <2> QED
    BY <2>1, <2>2 DEF CacheIsSound, Fits
<1> QED
  BY <1>1, IInvInit, IInvNext, PTL DEF Spec

\* A prefix in the sense of IsPrefix.
LEMMA LeadsIs ==
  ASSUME NEW m \in Nat, NEW n \in 1..m, NEW p \in [1..n -> Bit], NEW input \in [1..m -> Bit]
  PROVE  IsPrefix(p, input) <=> Leads(n, p, input)
<1>1. Len(p) = n /\ Len(input) = m /\ n \in 0..n /\ n \in 0..m /\ n \in Nat /\ n <= m
  OBVIOUS
<1> DEFINE x == SubSeq(p, 1, n)
           y == SubSeq(input, 1, n)
<1>2. x \in [1..n -> Bit] /\ \A k \in 1..n : x[k] = p[k]
  BY <1>1, Cut
<1>3. y \in [1..n -> Bit] /\ \A k \in 1..n : y[k] = input[k]
  BY <1>1, Cut
<1>4. IsPrefix(p, input) <=> x = y
  BY <1>1 DEF IsPrefix
<1> HIDE DEF x, y
<1>5. x = y <=> \A k \in 1..n : x[k] = y[k]
  BY <1>2, <1>3
<1> QED
  BY <1>2, <1>3, <1>4, <1>5 DEF Leads

\* For every field, length of inputs, extendable-output function and cache, and whatever was
\* evaluated before: the shares of the two aggregators at a prefix add up to the value that the
\* client programmed for its level if the prefix leads to the client's input, and to zero if it
\* does not (gen_with_random, eval_next and eval of src/idpf.rs).
THEOREM SharesArePointFunction == Spec => []PointFunction
<1>1. IInv => PointFunction
  <2> SUFFICES ASSUME IInv, answer # -1
               PROVE  (answer + ShareAt(1 - agg, asked)) % P
                         = IF IsPrefix(asked, report.input) THEN report.values[Len(asked)] ELSE 0
    BY DEF PointFunction
  <2>1. PICK n \in 1..Bits :
            /\ asked \in [1..n -> Bit]
            /\ answer = Share(agg, words, report.random, n, asked, SubSeq(asked, 1, n - 1))
    BY DEF IInv, AnswerIsShare
  <2> DEFINE q == SubSeq(asked, 1, n - 1)
             random == report.random
             share(a) == Share(a, words, random, n, asked, q)
  <2>2. /\ report.input \in [1..Bits -> Bit] /\ report.values \in [1..Bits -> F]
        /\ random \in [1..2 -> Seed] /\ words \in [1..Bits -> Word]
        /\ words = gen_with_random(report.input, report.values, random) /\ agg \in Bit
    BY Report DEF IInv
  <2>3. Len(asked) = n /\ n \in Nat /\ n - 1 \in 0..n /\ Bits \in Nat /\ n - 1 \in 0..Bits
    BY <2>1, IdpfAssumption
  <2>4. q \in [1..n - 1 -> Bit] /\ Leads(n - 1, q, asked)
    BY <2>1, <2>3, Cut
  <2>5. ShareAt(1 - agg, asked) = share(1 - agg)
    BY <2>3, NodeAtIs DEF ShareAt, Share
  <2> HIDE DEF q
  <2>6. Sum(words, random, n, asked, q) = Programmed(n, asked, report.input, report.values)
    BY <2>1, <2>2, <2>4, SharesAdd
  <2>7. share(0) \in F /\ share(1) \in F
    <3>1. asked[n] \in Bit /\ words[n] \in Word /\ 0 \in Bit /\ 1 \in Bit
      <4>1. n \in 1..n /\ 0 \in Bit /\ 1 \in Bit
        BY <2>3 DEF Bit
      <4> QED
        BY <2>1, <2>2, <4>1
    <3>2. Walk(0, words, random, q) \in Node /\ Walk(1, words, random, q) \in Node
      BY <2>1, <2>2, <2>4, <3>1, WalkNext
    <3> QED
      BY <3>1, <3>2, EvalNextIs DEF Share
  <2>8. share(agg) + share(1 - agg) = share(0) + share(1)
    <3>1. agg = 0 \/ agg = 1
      BY <2>2 DEF Bit
    <3> HIDE DEF share
    <3>2. share(0) \in Int /\ share(1) \in Int
      BY <2>7 DEF F
    <3>3. CASE agg = 0
      BY <3>2, <3>3
    <3>4. CASE agg = 1
      BY <3>2, <3>4
    <3> QED
      BY <3>1, <3>3, <3>4
  <2>9. answer + ShareAt(1 - agg, asked) = share(0) + share(1)
    BY <2>1, <2>5, <2>8 DEF q
  <2>10. IsPrefix(asked, report.input) <=> Leads(n, asked, report.input)
    BY <2>1, <2>2, <2>3, LeadsIs
  <2> QED
    BY <2>3, <2>6, <2>9, <2>10 DEF Sum, Programmed
<1> QED
  BY <1>1, IInvInit, IInvNext, PTL DEF Spec
=============================================================================
