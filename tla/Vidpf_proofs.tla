----------------------------- MODULE Vidpf_proofs -----------------------------
(***************************************************************************)
(* That the two keys of Vidpf add up to a point function with proofs that  *)
(* agree, for every field, every length of inputs and weights, every       *)
(* extendable-output function and every order of evaluations.              *)
(***************************************************************************)
EXTENDS Vidpf, Integers_proofs, SequenceTheorems, TLAPS

Bit == {0, 1}
Vec == [1..WeightLen -> F]
Word == [seed : Seed, bits : [1..2 -> Bit], weight : Vec]

\* The servers' seeds and control bits on the path of the input: one of them holds the bit.
Place == [s : [1..2 -> Seed], t : {t \in [1..2 -> Bit] : t[1] # t[2]}]

zero == [i \in 1..WeightLen |-> 0]

-----------------------------------------------------------------------------
(* Arithmetic modulo P.                                                    *)

\* A remainder is an element, and differs from the number by a multiple of P.
LEMMA Residue ==
  ASSUME NEW x \in Int
  PROVE  x % P \in F /\ \E q \in Int : x % P = x - P * q
<1>1. x \div P \in Int /\ x % P \in F /\ x = P * (x \div P) + (x % P)
  BY Division, ModulusAssumption DEF F
<1> DEFINE d == x \div P
           y == x % P
<1> HIDE DEF d, y
<1>2. d \in Int /\ y \in Int /\ x = P * d + y
  BY <1>1, ModulusAssumption DEF F, d, y
<1>3. y = x - P * d
  BY <1>2, ModulusAssumption
<1> QED
  BY <1>1, <1>2, <1>3 DEF y

\* A number that differs from an element by a multiple of P has it for its remainder.
LEMMA ResidueIs ==
  ASSUME NEW x \in Int, NEW q \in Int, NEW r \in F, x = P * q + r
  PROVE  x % P = r
  BY DivisionIs, ModulusAssumption DEF F

\* The remainder of a sum, and of a difference.
LEMMA SumResidue ==
  ASSUME NEW x \in Int, NEW y \in Int
  PROVE  /\ (x + y) % P \in Int /\ \E q \in Int : (x + y) % P = (x + y) - P * q
         /\ (x - y) % P \in Int /\ \E q \in Int : (x - y) % P = (x - y) - P * q
<1>1. x + y \in Int /\ x - y \in Int /\ F \subseteq Int
  BY ModulusAssumption DEF F
<1>2. (x + y) % P \in F /\ \E q \in Int : (x + y) % P = (x + y) - P * q
  BY <1>1, Residue
<1>3. (x - y) % P \in F /\ \E q \in Int : (x - y) % P = (x - y) - P * q
  BY <1>1, Residue
<1> QED
  BY <1>1, <1>2, <1>3

\* An element and its negation.
LEMMA Negation ==
  ASSUME NEW y \in F
  PROVE  (y + ((P - y) % P)) % P = 0
<1>1. y \in Int /\ P \in Int /\ P - y \in Int /\ 0 \in F
  BY ModulusAssumption DEF F
<1> DEFINE n == (P - y) % P
<1>2. PICK q \in Int : n = (P - y) - P * q
  BY <1>1, Residue
<1> HIDE DEF n
<1>3. y + n \in Int /\ 1 - q \in Int /\ y + n = P * (1 - q) + 0
  BY <1>1, <1>2
<1>4. (y + n) % P = 0
  BY <1>1, <1>3, ResidueIs
<1> QED
  BY <1>4 DEF n

\* The difference of the servers' elements, made up to the programmed one.
Made(c, d, m) == (((d - c) % P) + m) % P

\* The first server holds the control bit, and applies the correction as it is.
LEMMA FirstCorrects ==
  ASSUME NEW c \in F, NEW d \in F, NEW m \in F
  PROVE  (((Made(c, d, m) + c) % P) + ((P - d) % P)) % P = m
<1>1. c \in Int /\ d \in Int /\ m \in Int /\ P \in Int
  BY ModulusAssumption DEF F
<1> DEFINE a == (d - c) % P
           u == (a + m) % P
           y == (u + c) % P
           z == (P - d) % P
<1>2. PICK q1 \in Int : a = (d - c) - P * q1
  BY <1>1, SumResidue
<1>3. a \in Int
  BY <1>1, <1>2
<1> HIDE DEF a
<1>4. PICK q2 \in Int : u = (a + m) - P * q2
  BY <1>1, <1>3, SumResidue
<1>5. u \in Int
  BY <1>1, <1>3, <1>4
<1> HIDE DEF u
<1>6. PICK q3 \in Int : y = (u + c) - P * q3
  BY <1>1, <1>5, SumResidue
<1>7. PICK q4 \in Int : z = (P - d) - P * q4
  BY <1>1, SumResidue
<1> HIDE DEF y, z
<1>8. /\ y + z = P * (1 - q1 - q2 - q3 - q4) + m
      /\ y + z \in Int /\ 1 - q1 - q2 - q3 - q4 \in Int
  BY <1>1, <1>2, <1>3, <1>4, <1>5, <1>6, <1>7
<1>9. (y + z) % P = m
  BY <1>8, ResidueIs
<1> QED
  BY <1>9 DEF Made, a, u, y, z

\* The second server holds it, and applies the correction that was negated for it.
LEMMA SecondCorrects ==
  ASSUME NEW c \in F, NEW d \in F, NEW m \in F
  PROVE  (c + ((P - ((((P - Made(c, d, m)) % P) + d) % P)) % P)) % P = m
<1>1. c \in Int /\ d \in Int /\ m \in Int /\ P \in Int
  BY ModulusAssumption DEF F
<1> DEFINE a == (d - c) % P
           u == (a + m) % P
           v == (P - u) % P
           y == (v + d) % P
           z == (P - y) % P
<1>2. PICK q1 \in Int : a = (d - c) - P * q1
  BY <1>1, SumResidue
<1>3. a \in Int
  BY <1>1, <1>2
<1> HIDE DEF a
<1>4. PICK q2 \in Int : u = (a + m) - P * q2
  BY <1>1, <1>3, SumResidue
<1>5. u \in Int
  BY <1>1, <1>3, <1>4
<1> HIDE DEF u
<1>6. PICK q3 \in Int : v = (P - u) - P * q3
  BY <1>1, <1>5, SumResidue
<1>7. v \in Int
  BY <1>1, <1>5, <1>6
<1> HIDE DEF v
<1>8. PICK q4 \in Int : y = (v + d) - P * q4
  BY <1>1, <1>7, SumResidue
<1>9. y \in Int
  BY <1>1, <1>7, <1>8
<1> HIDE DEF y
<1>10. PICK q5 \in Int : z = (P - y) - P * q5
  BY <1>1, <1>9, SumResidue
<1> HIDE DEF z
<1>11. /\ c + z = P * (q3 + q4 - q1 - q2 - q5) + m
       /\ c + z \in Int /\ q3 + q4 - q1 - q2 - q5 \in Int
  BY <1>1, <1>2, <1>3, <1>4, <1>5, <1>6, <1>7, <1>8, <1>9, <1>10
<1>12. (c + z) % P = m
  BY <1>11, ResidueIs
<1> QED
  BY <1>12 DEF Made, a, u, v, y, z

-----------------------------------------------------------------------------
(* Vectors.                                                                *)

\* Evaluated is the identity on sequences.
LEMMA EvaluatedIs ==
  ASSUME NEW n \in Nat, NEW S, NEW f \in [1..n -> S]
  PROVE  Evaluated(f) = f
<1>1. f \in Seq(S)
  BY SeqDef
<1> QED
  BY <1>1, ConcatEmptySeq DEF Evaluated

\* Sums, differences and negations of weights are taken element by element.
LEMMA Vectors ==
  ASSUME WeightLen \in Nat, NEW x \in Vec, NEW y \in Vec
  PROVE  /\ merge_vector(x, y) \in Vec
         /\ sub_vector(x, y) \in Vec
         /\ \A i \in 1..WeightLen : merge_vector(x, y)[i] = (x[i] + y[i]) % P
         /\ \A i \in 1..WeightLen : sub_vector(x, y)[i] = (x[i] - y[i]) % P
<1> DEFINE sum == [i \in DOMAIN x |-> (x[i] + y[i]) % P]
           dif == [i \in DOMAIN x |-> (x[i] - y[i]) % P]
<1>1. ASSUME NEW i \in 1..WeightLen
      PROVE  (x[i] + y[i]) % P \in F /\ (x[i] - y[i]) % P \in F
  <2>1. x[i] \in F /\ y[i] \in F
    BY DEF Vec
  <2>2. x[i] + y[i] \in Int /\ x[i] - y[i] \in Int
    BY <2>1, ModulusAssumption DEF F
  <2> QED
    BY <2>2, Residue
<1>2. DOMAIN x = 1..WeightLen
  BY DEF Vec
<1>3. sum \in Vec /\ dif \in Vec
  BY <1>1, <1>2 DEF Vec
<1>4. /\ \A i \in 1..WeightLen : sum[i] = (x[i] + y[i]) % P
      /\ \A i \in 1..WeightLen : dif[i] = (x[i] - y[i]) % P
  BY <1>2
<1>5. Evaluated(sum) = sum /\ Evaluated(dif) = dif
  <2> HIDE DEF sum, dif
  <2> QED
    BY <1>3, EvaluatedIs DEF Vec
<1>6. merge_vector(x, y) = sum /\ sub_vector(x, y) = dif
  BY <1>5 DEF merge_vector, sub_vector
<1> HIDE DEF sum, dif
<1> QED
  BY <1>3, <1>4, <1>6

\* The negation of a weight.
LEMMA Negates ==
  ASSUME NEW x \in Vec, NEW bit \in Bit
  PROVE  /\ negate_if(x, bit) \in Vec
         /\ negate_if(x, 0) = x
         /\ \A i \in 1..WeightLen : negate_if(x, 1)[i] = (P - x[i]) % P
<1>1. ASSUME NEW i \in 1..WeightLen
      PROVE  (P - x[i]) % P \in F
  <2>1. x[i] \in F
    BY DEF Vec
  <2>2. P - x[i] \in Int
    BY <2>1, ModulusAssumption DEF F
  <2> QED
    BY <2>2, Residue
<1>2. DOMAIN x = 1..WeightLen
  BY DEF Vec
<1> QED
  BY <1>1, <1>2 DEF Vec, Bit, negate_if

\* A weight and its negation cancel.
LEMMA Cancel ==
  ASSUME WeightLen \in Nat, NEW x \in Vec
  PROVE  merge_vector(negate_if(x, 0), negate_if(x, 1)) = zero
<1> DEFINE y == negate_if(x, 1)
<1>1. 0 \in Bit /\ 1 \in Bit
  BY DEF Bit
<1>2. y \in Vec /\ negate_if(x, 0) = x /\ \A i \in 1..WeightLen : y[i] = (P - x[i]) % P
  BY <1>1, Negates
<1> HIDE DEF y
<1>3. merge_vector(x, y) \in Vec /\ \A i \in 1..WeightLen : merge_vector(x, y)[i] = (x[i] + y[i]) % P
  BY <1>2, Vectors
<1>4. ASSUME NEW i \in 1..WeightLen
      PROVE  merge_vector(x, y)[i] = 0
  <2>1. x[i] \in F
    BY DEF Vec
  <2> QED
    BY <1>2, <1>3, <2>1, Negation
<1>5. merge_vector(x, y) = zero
  BY <1>3, <1>4 DEF Vec, zero
<1> QED
  BY <1>2, <1>5 DEF y

\* A server's weight at a node, corrected if it holds the control bit.
Corrected(w, v, bit) == IF bit = 1 THEN merge_vector(v, w) ELSE w

\* On the path the correction makes the servers' shares add up to the client's weight.
LEMMA CorrectedSum ==
  ASSUME WeightLen \in Nat, NEW c \in Vec, NEW d \in Vec, NEW weight \in Vec,
         NEW t \in [1..2 -> Bit], t[1] # t[2], NEW v, v = weight_correction(<<c, d>>, weight, t)
  PROVE  /\ v \in Vec
         /\ Corrected(c, v, t[1]) \in Vec /\ Corrected(d, v, t[2]) \in Vec
         /\ merge_vector(negate_if(Corrected(c, v, t[1]), 0), negate_if(Corrected(d, v, t[2]), 1))
                = weight
<1> DEFINE u == merge_vector(sub_vector(d, c), weight)
<1>1. 0 \in Bit /\ 1 \in Bit /\ t[1] \in {0, 1} /\ t[2] \in {0, 1}
  BY DEF Bit
<1>2. sub_vector(d, c) \in Vec /\ \A i \in 1..WeightLen : sub_vector(d, c)[i] = (d[i] - c[i]) % P
  BY Vectors
<1>3. u \in Vec /\ \A i \in 1..WeightLen : u[i] = Made(c[i], d[i], weight[i])
  <2> DEFINE s == sub_vector(d, c)
  <2> HIDE DEF s
  <2>1. merge_vector(s, weight) \in Vec
        /\ \A i \in 1..WeightLen : merge_vector(s, weight)[i] = (s[i] + weight[i]) % P
    BY <1>2, Vectors DEF s
  <2> QED
    BY <1>2, <2>1 DEF s, Made
<1>4. v = negate_if(u, t[2])
  BY DEF weight_correction
<1> HIDE DEF u
<1>5. negate_if(u, 1) \in Vec /\ negate_if(u, 0) = u
      /\ \A i \in 1..WeightLen : negate_if(u, 1)[i] = (P - u[i]) % P
  BY <1>1, <1>3, Negates
<1>6. CASE t[1] = 1 /\ t[2] = 0
  <2>1. v = u
    BY <1>4, <1>5, <1>6
  <2> DEFINE y == merge_vector(u, c)
             z == negate_if(d, 1)
  <2>2. y \in Vec /\ \A i \in 1..WeightLen : y[i] = (u[i] + c[i]) % P
    BY <1>3, Vectors
  <2>3. z \in Vec /\ \A i \in 1..WeightLen : z[i] = (P - d[i]) % P
    BY <1>1, Negates
  <2>4. Corrected(c, v, t[1]) = y /\ Corrected(d, v, t[2]) = d
    BY <1>6, <2>1 DEF Corrected
  <2> HIDE DEF y, z
  <2>5. negate_if(y, 0) = y
    BY <1>1, <2>2, Negates
  <2>6. merge_vector(y, z) \in Vec /\ \A i \in 1..WeightLen : merge_vector(y, z)[i] = (y[i] + z[i]) % P
    BY <2>2, <2>3, Vectors
  <2>7. ASSUME NEW i \in 1..WeightLen
        PROVE  merge_vector(y, z)[i] = weight[i]
    <3>1. c[i] \in F /\ d[i] \in F /\ weight[i] \in F
      BY DEF Vec
    <3> QED
      BY <1>3, <2>2, <2>3, <2>6, <3>1, FirstCorrects
  <2>8. merge_vector(y, z) = weight
    BY <2>6, <2>7 DEF Vec
  <2> QED
    BY <1>3, <2>1, <2>2, <2>4, <2>5, <2>8 DEF z
<1>7. CASE t[1] = 0 /\ t[2] = 1
  <2>1. v = negate_if(u, 1)
    BY <1>4, <1>7
  <2>2. v \in Vec /\ \A i \in 1..WeightLen : v[i] = (P - u[i]) % P
    BY <1>5, <2>1
  <2> DEFINE y == merge_vector(v, d)
             z == negate_if(y, 1)
  <2>3. y \in Vec /\ \A i \in 1..WeightLen : y[i] = (v[i] + d[i]) % P
    BY <2>2, Vectors
  <2>4. Corrected(c, v, t[1]) = c /\ Corrected(d, v, t[2]) = y
    BY <1>7 DEF Corrected
  <2> HIDE DEF y
  <2>5. z \in Vec /\ \A i \in 1..WeightLen : z[i] = (P - y[i]) % P
    BY <1>1, <2>3, Negates
  <2>6. negate_if(c, 0) = c
    BY <1>1, Negates
  <2> HIDE DEF z
  <2>7. merge_vector(c, z) \in Vec /\ \A i \in 1..WeightLen : merge_vector(c, z)[i] = (c[i] + z[i]) % P
    BY <2>5, Vectors
  <2>8. ASSUME NEW i \in 1..WeightLen
        PROVE  merge_vector(c, z)[i] = weight[i]
    <3>1. c[i] \in F /\ d[i] \in F /\ weight[i] \in F
      BY DEF Vec
    <3> QED
      BY <1>3, <2>2, <2>3, <2>5, <2>7, <3>1, SecondCorrects
  <2>9. merge_vector(c, z) = weight
    BY <2>7, <2>8 DEF Vec
  <2> QED
    BY <2>2, <2>3, <2>4, <2>6, <2>9 DEF z
<1> QED
  BY <1>1, <1>6, <1>7

-----------------------------------------------------------------------------
(* One level of the tree.                                                  *)

At(seed, bit, proof) == [seed |-> seed, control_bit |-> bit, proof |-> proof]

\* A child's seed before conversion, and its control bit, from its parent's and a correction.
Seeded(seed, bit, correction, nonce, side) == xor_if(prg(seed, nonce).seeds[side], correction, bit)
Turned(seed, bit, corrections, nonce, side) ==
    (prg(seed, nonce).bits[side] + bit * corrections[side]) % 2

\* What the generator yields for a seed.
LEMMA Generator ==
  ASSUME VidpfContract, NEW r \in Reports, NEW seed \in Seed, NEW side \in 1..2
  PROVE  prg(seed, r.nonce).seeds[side] \in Seed /\ prg(seed, r.nonce).bits[side] \in Bit
<1> DEFINE blocks == <<PrgXof(seed, r.nonce, 0), PrgXof(seed, r.nonce, 1)>>
           bits == [k \in 1..2 |-> IF 0 \in blocks[k] THEN 1 ELSE 0]
<1>1. bits \in [1..2 -> Bit]
  BY DEF Bit
<1>2. Evaluated(bits) = bits
  <2> HIDE DEF bits
  <2> QED
    BY <1>1, EvaluatedIs
<1>3. /\ prg(seed, r.nonce).bits = bits
      /\ prg(seed, r.nonce).seeds = <<blocks[1] \ {0}, blocks[2] \ {0}>>
  BY <1>2 DEF prg
<1>4. blocks[1] \in Seed /\ blocks[2] \in Seed
  BY DEF VidpfContract
<1> QED
  BY <1>1, <1>3, <1>4 DEF Seed

\* What a seed is converted to.
LEMMA Converted ==
  ASSUME VidpfContract, NEW r \in Reports, NEW seed \in Seed
  PROVE  convert(seed, r.nonce).seed \in Seed /\ convert(seed, r.nonce).weight \in Vec
<1> DEFINE w == [i \in 1..WeightLen |-> ConvertWeight(seed, r.nonce, i)]
<1>1. w \in Vec /\ WeightLen \in Nat
  BY DEF VidpfContract, Vec
<1>2. Evaluated(w) = w
  <2> HIDE DEF w
  <2> QED
    BY <1>1, EvaluatedIs DEF Vec
<1>3. convert(seed, r.nonce) = [seed |-> ConvertSeed(seed, r.nonce), weight |-> w]
  BY <1>2 DEF convert
<1> QED
  BY <1>1, <1>3 DEF VidpfContract

\* The types of a child.
LEMMA ChildTypes ==
  ASSUME VidpfContract, NEW r \in Reports, NEW seed \in Seed, NEW bit \in Bit,
         NEW correction \in Seed, NEW corrections \in [1..2 -> Bit], NEW side \in 1..2
  PROVE  /\ Seeded(seed, bit, correction, r.nonce, side) \in Seed
         /\ Turned(seed, bit, corrections, r.nonce, side) \in Bit
         /\ convert(Seeded(seed, bit, correction, r.nonce, side), r.nonce).seed \in Seed
         /\ convert(Seeded(seed, bit, correction, r.nonce, side), r.nonce).weight \in Vec
<1>1. prg(seed, r.nonce).seeds[side] \in Seed /\ prg(seed, r.nonce).bits[side] \in Bit
  BY Generator
<1>2. Seeded(seed, bit, correction, r.nonce, side) \in Seed
  BY <1>1 DEF Seeded, xor_if, SymDiff, Seed
<1>3. Turned(seed, bit, corrections, r.nonce, side) \in Bit
  <2>1. corrections[side] \in {0, 1} /\ bit \in {0, 1} /\ prg(seed, r.nonce).bits[side] \in {0, 1}
    BY <1>1 DEF Bit
  <2> QED
    BY <2>1 DEF Turned, Bit
<1> QED
  BY <1>2, <1>3, Converted

\* What a server computes at the prefix p of n bits, from what it has at p's parent: a seed,
\* a control bit, a weight and a proof.
ChildSeed(pub, p, n, seed, bit, nonce) ==
    convert(Seeded(seed, bit, pub.cw[n].seed, nonce, p[n] + 1), nonce).seed
ChildBit(pub, p, n, seed, bit, nonce) == Turned(seed, bit, pub.cw[n].bits, nonce, p[n] + 1)
ChildWeight(pub, p, n, seed, bit, nonce) ==
    Corrected(convert(Seeded(seed, bit, pub.cw[n].seed, nonce, p[n] + 1), nonce).weight,
              pub.cw[n].weight, ChildBit(pub, p, n, seed, bit, nonce))
ChildProof(pub, p, n, seed, bit, nonce, pi) ==
    next_proof(node_proof(p, ChildSeed(pub, p, n, seed, bit, nonce)), pub.cs[n],
               ChildBit(pub, p, n, seed, bit, nonce), pi)

EvalResult(pub, p, n, seed, bit, nonce, pi, id) ==
    [state |-> At(ChildSeed(pub, p, n, seed, bit, nonce), ChildBit(pub, p, n, seed, bit, nonce),
                  ChildProof(pub, p, n, seed, bit, nonce, pi)),
     share |-> negate_if(ChildWeight(pub, p, n, seed, bit, nonce), id)]

\* A public share has a correction for the prefix p of n bits.
Corrects(pub, p, n) == Len(p) = n /\ p[n] \in Bit /\ pub.cw[n] \in Word

\* What eval_next computes.
LEMMA EvalNextIs ==
  ASSUME VidpfContract, NEW r \in Reports, NEW id, NEW pub, NEW p, NEW n, Corrects(pub, p, n),
         NEW seed \in Seed, NEW bit \in Bit, NEW pi
  PROVE  /\ ChildSeed(pub, p, n, seed, bit, r.nonce) \in Seed
         /\ ChildBit(pub, p, n, seed, bit, r.nonce) \in Bit
         /\ ChildWeight(pub, p, n, seed, bit, r.nonce) \in Vec
         /\ eval_next(id, pub, p, At(seed, bit, pi), r.nonce)
              = EvalResult(pub, p, n, seed, bit, r.nonce, pi, id)
<1> DEFINE side == p[n] + 1
           word == pub.cw[n]
           child == convert(Seeded(seed, bit, word.seed, r.nonce, side), r.nonce)
           turned == Turned(seed, bit, word.bits, r.nonce, side)
           y == Corrected(child.weight, word.weight, turned)
<1>1. side \in 1..2 /\ word.seed \in Seed /\ word.bits \in [1..2 -> Bit] /\ word.weight \in Vec
  BY DEF Bit, Word, Corrects
<1>2. eval_next(id, pub, p, At(seed, bit, pi), r.nonce)
        = [state |-> At(child.seed, turned,
                        next_proof(node_proof(p, child.seed), pub.cs[n], turned, pi)),
           share |-> negate_if(y, id)]
  BY DEF eval_next, At, Seeded, Turned, Corrected, Corrects
<1>3. /\ ChildSeed(pub, p, n, seed, bit, r.nonce) = child.seed
      /\ ChildBit(pub, p, n, seed, bit, r.nonce) = turned
      /\ ChildWeight(pub, p, n, seed, bit, r.nonce) = y
      /\ ChildProof(pub, p, n, seed, bit, r.nonce, pi)
           = next_proof(node_proof(p, child.seed), pub.cs[n], turned, pi)
  BY DEF ChildSeed, ChildBit, ChildWeight, ChildProof
<1> HIDE DEF side, word
<1>4. child.seed \in Seed /\ child.weight \in Vec /\ turned \in Bit
  BY <1>1, ChildTypes
<1> HIDE DEF child, turned
<1>5. y \in Vec
  BY <1>1, <1>4, Vectors DEF Corrected, VidpfContract
<1> HIDE DEF y
<1> QED
  BY <1>2, <1>3, <1>4, <1>5 DEF EvalResult

\* Two servers are at one and the same place.
Same(left, right) == \E seed \in Seed, bit \in Bit : \E pi :
    left = At(seed, bit, pi) /\ right = At(seed, bit, pi)

\* They stay together below it, with shares that cancel.
LEMMA Twins ==
  ASSUME VidpfContract, NEW r \in Reports, NEW pub, NEW p, NEW n, Corrects(pub, p, n),
         NEW x, NEW y, Same(x, y)
  PROVE  LET left == eval_next(0, pub, p, x, r.nonce)
             right == eval_next(1, pub, p, y, r.nonce)
         IN  /\ Same(left.state, right.state)
             /\ merge_vector(left.share, right.share) = zero
<1>1. PICK seed \in Seed, bit \in Bit : \E pi : x = At(seed, bit, pi) /\ y = At(seed, bit, pi)
  BY DEF Same
<1>2. PICK pi : x = At(seed, bit, pi) /\ y = At(seed, bit, pi)
  BY <1>1
<1> DEFINE s == ChildSeed(pub, p, n, seed, bit, r.nonce)
           b == ChildBit(pub, p, n, seed, bit, r.nonce)
           w == ChildWeight(pub, p, n, seed, bit, r.nonce)
           proof == ChildProof(pub, p, n, seed, bit, r.nonce, pi)
<1>3. /\ s \in Seed /\ b \in Bit /\ w \in Vec
      /\ eval_next(0, pub, p, At(seed, bit, pi), r.nonce)
           = EvalResult(pub, p, n, seed, bit, r.nonce, pi, 0)
  BY EvalNextIs
<1>4. eval_next(1, pub, p, At(seed, bit, pi), r.nonce)
           = EvalResult(pub, p, n, seed, bit, r.nonce, pi, 1)
  BY EvalNextIs
<1>5. /\ EvalResult(pub, p, n, seed, bit, r.nonce, pi, 0)
            = [state |-> At(s, b, proof), share |-> negate_if(w, 0)]
      /\ EvalResult(pub, p, n, seed, bit, r.nonce, pi, 1)
            = [state |-> At(s, b, proof), share |-> negate_if(w, 1)]
  BY DEF EvalResult
<1> HIDE DEF s, b, w, proof
<1>6. merge_vector(negate_if(w, 0), negate_if(w, 1)) = zero
  BY <1>3, Cancel DEF VidpfContract
<1> QED
  BY <1>2, <1>3, <1>4, <1>5, <1>6 DEF Same

\* What one level of key generation computes on the path, for server i.
KeptChild(r, level, s, t, g, i) ==
    convert(Seeded(s[i], t[i], g.cw.seed, r.nonce, r.input[level] + 1), r.nonce)
KeptBit(r, level, s, t, g, i) == Turned(s[i], t[i], g.cw.bits, r.nonce, r.input[level] + 1)

\* One level of key generation: the side that is kept and the one that is lost.
LevelIs(r, level, s, t, g) ==
    LET keep == r.input[level] + 1
        lose == 2 - r.input[level]
        one == prg(s[1], r.nonce)
        two == prg(s[2], r.nonce)
        prefix == SubSeq(r.input, 1, level)
    IN  /\ g.cw.seed = SymDiff(one.seeds[lose], two.seeds[lose]) /\ g.cw.seed \in Seed
        /\ g.cw.bits \in [1..2 -> Bit]
        /\ g.cw.bits[keep] = (one.bits[keep] + two.bits[keep] + 1) % 2
        /\ g.cw.bits[lose] = (one.bits[lose] + two.bits[lose]) % 2
        /\ g.s = [i \in 1..2 |-> KeptChild(r, level, s, t, g, i).seed]
        /\ g.t = [i \in 1..2 |-> KeptBit(r, level, s, t, g, i)]
        /\ g.cw = [seed |-> g.cw.seed, bits |-> g.cw.bits,
                   weight |-> weight_correction(<<KeptChild(r, level, s, t, g, 1).weight,
                                                  KeptChild(r, level, s, t, g, 2).weight>>,
                                                r.weight, g.t)]
        /\ g.cs = SymDiff(node_proof(prefix, g.s[1]), node_proof(prefix, g.s[2]))

\* This is what gen_level computes.
LEMMA GenLevelIs ==
  ASSUME VidpfContract, NEW r \in Reports, NEW level \in 1..Len(r.input),
         NEW s \in [1..2 -> Seed], NEW t \in [1..2 -> Bit], NEW g, g = gen_level(r, level, s, t)
  PROVE  LevelIs(r, level, s, t, g)
<1> DEFINE alpha == r.input[level]
           keep == alpha + 1
           lose == 2 - alpha
           seq == <<prg(s[1], r.nonce), prg(s[2], r.nonce)>>
           s_cw == SymDiff(seq[1].seeds[lose], seq[2].seeds[lose])
           t_cw == <<(seq[1].bits[1] + seq[2].bits[1] + alpha + 1) % 2,
                     (seq[1].bits[2] + seq[2].bits[2] + alpha) % 2>>
           child == [i \in 1..2 |-> convert(xor_if(seq[i].seeds[keep], s_cw, t[i]), r.nonce)]
           t_next == [i \in 1..2 |-> (seq[i].bits[keep] + t[i] * t_cw[keep]) % 2]
           prefix == SubSeq(r.input, 1, level)
           Child == [seed : Seed, weight : Vec]
           cw == [seed |-> s_cw, bits |-> t_cw,
                  weight |-> weight_correction(<<child[1].weight, child[2].weight>>, r.weight, t_next)]
<1>1. alpha \in {0, 1} /\ keep \in 1..2 /\ lose \in 1..2
  <2>1. r.input \in Seq({0, 1})
    BY DEF VidpfContract
  <2>2. alpha \in {0, 1}
    BY <2>1
  <2> QED
    BY <2>2
<1>2. \A i \in 1..2 : seq[i] = prg(s[i], r.nonce)
  OBVIOUS
<1>3. \A i, side \in 1..2 : seq[i].seeds[side] \in Seed /\ seq[i].bits[side] \in Bit
  <2> SUFFICES ASSUME NEW i \in 1..2, NEW side \in 1..2
               PROVE  seq[i].seeds[side] \in Seed /\ seq[i].bits[side] \in Bit
    OBVIOUS
  <2>1. s[i] \in Seed
    OBVIOUS
  <2> HIDE DEF seq
  <2> QED
    BY <1>2, <2>1, Generator
<1> HIDE DEF seq, alpha
<1>4. s_cw \in Seed
  <2>1. seq[1].seeds[lose] \in Seed /\ seq[2].seeds[lose] \in Seed
    BY <1>1, <1>3
  <2> QED
    BY <2>1 DEF SymDiff, Seed
<1>5. /\ t_cw \in [1..2 -> Bit]
      /\ t_cw[keep] = (seq[1].bits[keep] + seq[2].bits[keep] + 1) % 2
      /\ t_cw[lose] = (seq[1].bits[lose] + seq[2].bits[lose]) % 2
  <2>1. seq[1].bits[1] \in {0, 1} /\ seq[2].bits[1] \in {0, 1}
        /\ seq[1].bits[2] \in {0, 1} /\ seq[2].bits[2] \in {0, 1}
    BY <1>3 DEF Bit
  <2>2. t_cw[1] \in {0, 1} /\ t_cw[2] \in {0, 1}
    BY <1>1, <2>1
  <2>3. t_cw \in [1..2 -> Bit]
    BY <2>2 DEF Bit
  <2>4. CASE alpha = 0
    <3>1. keep = 1 /\ lose = 2
      BY <2>4
    <3>2. t_cw[1] = (seq[1].bits[1] + seq[2].bits[1] + 1) % 2
      BY <2>1, <2>4
    <3>3. t_cw[2] = (seq[1].bits[2] + seq[2].bits[2]) % 2
      BY <2>1, <2>4
    <3> HIDE DEF t_cw, keep, lose
    <3> QED
      BY <2>3, <3>1, <3>2, <3>3
  <2>5. CASE alpha = 1
    <3>1. keep = 2 /\ lose = 1
      BY <2>5
    <3>2. t_cw[2] = (seq[1].bits[2] + seq[2].bits[2] + 1) % 2
      BY <2>1, <2>5
    <3>3. t_cw[1] = (seq[1].bits[1] + seq[2].bits[1]) % 2
      BY <2>1, <2>5
    <3> HIDE DEF t_cw, keep, lose
    <3> QED
      BY <2>3, <3>1, <3>2, <3>3
  <2> QED
    BY <1>1, <2>4, <2>5
<1> HIDE DEF s_cw, t_cw, keep, lose
<1>6. \A i \in 1..2 : /\ child[i] = convert(Seeded(s[i], t[i], s_cw, r.nonce, keep), r.nonce)
                      /\ t_next[i] = Turned(s[i], t[i], t_cw, r.nonce, keep)
  BY <1>2 DEF Seeded, Turned
<1>7. \A i \in 1..2 : child[i].seed \in Seed /\ child[i].weight \in Vec /\ t_next[i] \in Bit
  <2> SUFFICES ASSUME NEW i \in 1..2
               PROVE  child[i].seed \in Seed /\ child[i].weight \in Vec /\ t_next[i] \in Bit
    OBVIOUS
  <2>1. s[i] \in Seed /\ t[i] \in Bit
    OBVIOUS
  <2> HIDE DEF child, t_next
  <2>2. /\ child[i] = convert(Seeded(s[i], t[i], s_cw, r.nonce, keep), r.nonce)
        /\ t_next[i] = Turned(s[i], t[i], t_cw, r.nonce, keep)
    BY <1>6
  <2>3. /\ convert(Seeded(s[i], t[i], s_cw, r.nonce, keep), r.nonce).seed \in Seed
        /\ convert(Seeded(s[i], t[i], s_cw, r.nonce, keep), r.nonce).weight \in Vec
        /\ Turned(s[i], t[i], t_cw, r.nonce, keep) \in Bit
    BY <1>1, <1>4, <1>5, <2>1, ChildTypes
  <2> QED
    BY <2>2, <2>3
<1>8. Evaluated(child) = child
  <2>1. child \in [1..2 -> {child[1], child[2]}]
    OBVIOUS
  <2> HIDE DEF child
  <2> QED
    BY <2>1, EvaluatedIs
<1>9. Evaluated(t_next) = t_next
  <2>1. t_next \in [1..2 -> Bit]
    BY <1>7
  <2> HIDE DEF t_next
  <2> QED
    BY <2>1, EvaluatedIs
<1>10. g = [s |-> <<child[1].seed, child[2].seed>>, t |-> t_next, cw |-> cw,
            cs |-> SymDiff(node_proof(prefix, child[1].seed), node_proof(prefix, child[2].seed))]
  <2>1. gen_level(r, level, s, t)
          = [s |-> <<Evaluated(child)[1].seed, Evaluated(child)[2].seed>>, t |-> Evaluated(t_next),
             cw |-> [seed |-> s_cw, bits |-> t_cw,
                     weight |-> weight_correction(<<Evaluated(child)[1].weight,
                                                    Evaluated(child)[2].weight>>,
                                                  r.weight, Evaluated(t_next))],
             cs |-> SymDiff(node_proof(prefix, Evaluated(child)[1].seed),
                            node_proof(prefix, Evaluated(child)[2].seed))]
    BY DEF gen_level, seq, s_cw, t_cw, keep, lose, alpha
  <2> HIDE DEF child, t_next, prefix
  <2> QED
    BY <1>8, <1>9, <2>1
<1> HIDE DEF child, t_next, prefix
<1>11. /\ g.cw = cw /\ g.t = t_next /\ g.s = <<child[1].seed, child[2].seed>>
       /\ g.cs = SymDiff(node_proof(prefix, child[1].seed), node_proof(prefix, child[2].seed))
  <2> HIDE DEF cw
  <2> QED
    BY <1>10
<1>12. g.cw.seed = s_cw /\ g.cw.bits = t_cw
  BY <1>11
<1>13. \A i \in 1..2 : /\ KeptChild(r, level, s, t, g, i) = child[i]
                       /\ KeptBit(r, level, s, t, g, i) = t_next[i]
  BY <1>6, <1>12 DEF KeptChild, KeptBit, keep, alpha
<1>14. g.s = [i \in 1..2 |-> KeptChild(r, level, s, t, g, i).seed]
  <2>1. g.s = [i \in 1..2 |-> child[i].seed]
    BY <1>11
  <2> QED
    BY <1>13, <2>1
<1>15. g.t = [i \in 1..2 |-> KeptBit(r, level, s, t, g, i)]
  <2>1. t_next = [i \in 1..2 |-> t_next[i]]
    BY DEF t_next
  <2> QED
    BY <1>11, <1>13, <2>1
<1>16. g.cw = [seed |-> g.cw.seed, bits |-> g.cw.bits,
               weight |-> weight_correction(<<KeptChild(r, level, s, t, g, 1).weight,
                                              KeptChild(r, level, s, t, g, 2).weight>>,
                                            r.weight, g.t)]
  <2>1. KeptChild(r, level, s, t, g, 1) = child[1] /\ KeptChild(r, level, s, t, g, 2) = child[2]
    BY <1>13
  <2> QED
    BY <1>11, <1>12, <2>1
<1>17. g.cs = SymDiff(node_proof(prefix, g.s[1]), node_proof(prefix, g.s[2]))
  <2>1. g.s[1] = child[1].seed /\ g.s[2] = child[2].seed
    BY <1>11
  <2> QED
    BY <1>11, <2>1
<1>18. s_cw = SymDiff(prg(s[1], r.nonce).seeds[lose], prg(s[2], r.nonce).seeds[lose])
  BY <1>2 DEF s_cw
<1>19. /\ t_cw[keep] = (prg(s[1], r.nonce).bits[keep] + prg(s[2], r.nonce).bits[keep] + 1) % 2
       /\ t_cw[lose] = (prg(s[1], r.nonce).bits[lose] + prg(s[2], r.nonce).bits[lose]) % 2
  BY <1>2, <1>5
<1> HIDE DEF cw
<1> QED
  BY <1>4, <1>5, <1>12, <1>14, <1>15, <1>16, <1>17, <1>18, <1>19, Zenon
      DEF LevelIs, keep, lose, alpha, prefix

\* Control bits after a correction: apart on the kept side, together on the lost one.
LEMMA Parity ==
  ASSUME NEW x \in Bit, NEW y \in Bit, NEW t \in Bit, NEW u \in Bit, t # u
  PROVE  /\ (x + t * ((x + y + 1) % 2)) % 2 # (y + u * ((x + y + 1) % 2)) % 2
         /\ (x + t * ((x + y) % 2)) % 2 = (y + u * ((x + y) % 2)) % 2
  BY DEF Bit

\* A client programs a weight of the right length.
Proper(r) == Len(r.weight) = WeightLen

\* One level of key generation leads from one place on the path to the next, with a correction
\* that makes up the client's weight.
LEMMA LevelTypes ==
  ASSUME VidpfContract, NEW r \in Reports, Proper(r), NEW level \in 1..Len(r.input),
         NEW s \in [1..2 -> Seed], NEW t \in [1..2 -> Bit], t[1] # t[2],
         NEW g, g = gen_level(r, level, s, t)
  PROVE  /\ g.s \in [1..2 -> Seed] /\ g.t \in [1..2 -> Bit] /\ g.t[1] # g.t[2]
         /\ g.cw \in Word
         /\ merge_vector(
                negate_if(Corrected(KeptChild(r, level, s, t, g, 1).weight, g.cw.weight, g.t[1]), 0),
                negate_if(Corrected(KeptChild(r, level, s, t, g, 2).weight, g.cw.weight, g.t[2]), 1))
              = r.weight
<1> DEFINE keep == r.input[level] + 1
           lose == 2 - r.input[level]
           one == prg(s[1], r.nonce)
           two == prg(s[2], r.nonce)
           c == KeptChild(r, level, s, t, g, 1).weight
           d == KeptChild(r, level, s, t, g, 2).weight
<1>1. /\ g.cw.seed \in Seed
      /\ g.cw.bits \in [1..2 -> Bit]
      /\ g.cw.bits[keep] = (one.bits[keep] + two.bits[keep] + 1) % 2
      /\ g.s = [i \in 1..2 |-> KeptChild(r, level, s, t, g, i).seed]
      /\ g.t = [i \in 1..2 |-> KeptBit(r, level, s, t, g, i)]
      /\ g.cw = [seed |-> g.cw.seed, bits |-> g.cw.bits,
                 weight |-> weight_correction(<<c, d>>, r.weight, g.t)]
  <2>1. LevelIs(r, level, s, t, g)
    BY GenLevelIs
  <2> QED
    BY <2>1 DEF LevelIs
<1>2. r.input[level] \in Bit /\ keep \in 1..2 /\ WeightLen \in Nat /\ r.weight \in Vec
  <2>1. r.input \in Seq({0, 1}) /\ r.weight \in Seq(F) /\ WeightLen \in Nat
    BY DEF VidpfContract
  <2>2. r.input[level] \in {0, 1}
    BY <2>1
  <2> QED
    BY <2>1, <2>2 DEF Bit, Vec, Proper
<1>3. ASSUME NEW i \in 1..2
      PROVE  /\ KeptChild(r, level, s, t, g, i).seed \in Seed
             /\ KeptChild(r, level, s, t, g, i).weight \in Vec
             /\ KeptBit(r, level, s, t, g, i) \in Bit
  <2>1. s[i] \in Seed /\ t[i] \in Bit
    OBVIOUS
  <2> DEFINE seed == g.cw.seed
             bits == g.cw.bits
  <2>2. seed \in Seed /\ bits \in [1..2 -> Bit]
    BY <1>1
  <2>3. /\ KeptChild(r, level, s, t, g, i) = convert(Seeded(s[i], t[i], seed, r.nonce, keep), r.nonce)
        /\ KeptBit(r, level, s, t, g, i) = Turned(s[i], t[i], bits, r.nonce, keep)
    BY DEF KeptChild, KeptBit
  <2> HIDE DEF seed, bits, keep
  <2>4. /\ convert(Seeded(s[i], t[i], seed, r.nonce, keep), r.nonce).seed \in Seed
        /\ convert(Seeded(s[i], t[i], seed, r.nonce, keep), r.nonce).weight \in Vec
        /\ Turned(s[i], t[i], bits, r.nonce, keep) \in Bit
    BY <1>2, <2>1, <2>2, ChildTypes
  <2> QED
    BY <2>3, <2>4
<1>4. c \in Vec /\ d \in Vec
  BY <1>3
<1>5. g.s \in [1..2 -> Seed] /\ g.t \in [1..2 -> Bit]
  BY <1>1, <1>3
<1>6. g.t[1] # g.t[2]
  <2>1. g.t[1] = KeptBit(r, level, s, t, g, 1) /\ g.t[2] = KeptBit(r, level, s, t, g, 2)
    BY <1>1
  <2>2. /\ g.t[1] = (one.bits[keep] + t[1] * g.cw.bits[keep]) % 2
        /\ g.t[2] = (two.bits[keep] + t[2] * g.cw.bits[keep]) % 2
    BY <2>1 DEF KeptBit, Turned
  <2>3. s[1] \in Seed /\ s[2] \in Seed /\ t[1] \in Bit /\ t[2] \in Bit
    OBVIOUS
  <2>4. one.bits[keep] \in Bit /\ two.bits[keep] \in Bit
    BY <1>2, <2>3, Generator
  <2> HIDE DEF one, two, keep
  <2> QED
    BY <1>1, <2>2, <2>3, <2>4, Parity
<1>7. g.cw.weight = weight_correction(<<c, d>>, r.weight, g.t)
  BY <1>1
<1> DEFINE tt == g.t
           v == g.cw.weight
<1> HIDE DEF c, d, tt, v
<1>8. /\ v \in Vec
      /\ merge_vector(negate_if(Corrected(c, v, tt[1]), 0), negate_if(Corrected(d, v, tt[2]), 1))
            = r.weight
  <2>1. tt \in [1..2 -> Bit] /\ tt[1] # tt[2] /\ v = weight_correction(<<c, d>>, r.weight, tt)
    BY <1>5, <1>6, <1>7 DEF tt, v
  <2> DEFINE weight == r.weight
  <2>2. weight \in Vec
    BY <1>2
  <2> HIDE DEF weight
  <2> QED
    BY <1>2, <1>4, <2>1, <2>2, CorrectedSum DEF weight
<1>9. g.cw \in Word
  BY <1>1, <1>8 DEF Word, v
<1> QED
  BY <1>5, <1>6, <1>8, <1>9 DEF c, d, v, tt

\* A public share holds what one level of key generation computed.
Holds(pub, level, g) == pub.cw[level] = g.cw /\ pub.cs[level] = g.cs

\* Two servers are at a place on the path, with one proof.
Apart(left, right, s, t) == \E pi : left = At(s[1], t[1], pi) /\ right = At(s[2], t[2], pi)

\* p is the first n bits of an input.
FirstBits(p, n, input) == p = SubSeq(input, 1, n) /\ p[n] = input[n]

\* On the path both servers reach the next place on it, with proofs that agree and shares that
\* add up to the client's weight.
LEMMA OnPath ==
  ASSUME VidpfContract, NEW r \in Reports, Proper(r), NEW level \in 1..Len(r.input),
         NEW s \in [1..2 -> Seed], NEW t \in [1..2 -> Bit], t[1] # t[2],
         NEW g, g = gen_level(r, level, s, t), NEW pub, Holds(pub, level, g),
         NEW p, FirstBits(p, level, r.input), Corrects(pub, p, level), NEW x, NEW y, Apart(x, y, s, t)
  PROVE  LET left == eval_next(0, pub, p, x, r.nonce)
             right == eval_next(1, pub, p, y, r.nonce)
         IN  /\ Apart(left.state, right.state, g.s, g.t)
             /\ merge_vector(left.share, right.share) = r.weight
<1>1. PICK pi : x = At(s[1], t[1], pi) /\ y = At(s[2], t[2], pi)
  BY DEF Apart
<1>2. s[1] \in Seed /\ s[2] \in Seed /\ t[1] \in Bit /\ t[2] \in Bit
  OBVIOUS
<1>3. /\ eval_next(0, pub, p, x, r.nonce) = EvalResult(pub, p, level, s[1], t[1], r.nonce, pi, 0)
      /\ eval_next(1, pub, p, y, r.nonce) = EvalResult(pub, p, level, s[2], t[2], r.nonce, pi, 1)
  <2>1. ASSUME NEW seed \in Seed, NEW bit \in Bit, NEW id
        PROVE  eval_next(id, pub, p, At(seed, bit, pi), r.nonce)
                 = EvalResult(pub, p, level, seed, bit, r.nonce, pi, id)
    BY EvalNextIs
  <2> QED
    BY <1>1, <1>2, <2>1
<1>4. /\ g.s = [i \in 1..2 |-> KeptChild(r, level, s, t, g, i).seed]
      /\ g.t = [i \in 1..2 |-> KeptBit(r, level, s, t, g, i)]
      /\ g.cs = SymDiff(node_proof(SubSeq(r.input, 1, level), g.s[1]),
                        node_proof(SubSeq(r.input, 1, level), g.s[2]))
  <2>1. LevelIs(r, level, s, t, g)
    BY GenLevelIs
  <2> QED
    BY <2>1 DEF LevelIs
<1>5. ASSUME NEW i \in 1..2
      PROVE  /\ ChildSeed(pub, p, level, s[i], t[i], r.nonce) = g.s[i]
             /\ ChildBit(pub, p, level, s[i], t[i], r.nonce) = g.t[i]
             /\ ChildWeight(pub, p, level, s[i], t[i], r.nonce)
                  = Corrected(KeptChild(r, level, s, t, g, i).weight, g.cw.weight, g.t[i])
             /\ ChildProof(pub, p, level, s[i], t[i], r.nonce, pi)
                  = next_proof(node_proof(p, g.s[i]), g.cs, g.t[i], pi)
  <2>1. g.s[i] = KeptChild(r, level, s, t, g, i).seed /\ g.t[i] = KeptBit(r, level, s, t, g, i)
    BY <1>4
  <2>2. pub.cw[level] = g.cw /\ pub.cs[level] = g.cs
    BY DEF Holds
  <2> QED
    BY <2>1, <2>2 DEF ChildSeed, ChildBit, ChildWeight, ChildProof, KeptChild, KeptBit, FirstBits
<1>6. /\ g.t \in [1..2 -> Bit] /\ g.t[1] # g.t[2]
      /\ merge_vector(
             negate_if(Corrected(KeptChild(r, level, s, t, g, 1).weight, g.cw.weight, g.t[1]), 0),
             negate_if(Corrected(KeptChild(r, level, s, t, g, 2).weight, g.cw.weight, g.t[2]), 1))
           = r.weight
  BY LevelTypes
<1> DEFINE one == node_proof(p, g.s[1])
           two == node_proof(p, g.s[2])
           proof == next_proof(one, g.cs, g.t[1], pi)
<1>7. next_proof(two, g.cs, g.t[2], pi) = proof
  <2>1. g.cs = SymDiff(one, two)
    BY <1>4 DEF FirstBits
  <2>2. g.t[1] \in {0, 1} /\ g.t[2] \in {0, 1}
    BY <1>6 DEF Bit
  <2>3. xor_if(one, g.cs, g.t[1]) = xor_if(two, g.cs, g.t[2])
    <3> HIDE DEF one, two
    <3> QED
      BY <1>6, <2>1, <2>2 DEF xor_if, SymDiff
  <2> QED
    BY <2>3 DEF next_proof
<1>8. /\ EvalResult(pub, p, level, s[1], t[1], r.nonce, pi, 0).state = At(g.s[1], g.t[1], proof)
      /\ EvalResult(pub, p, level, s[2], t[2], r.nonce, pi, 1).state = At(g.s[2], g.t[2], proof)
  BY <1>5, <1>7 DEF EvalResult
<1>9. /\ EvalResult(pub, p, level, s[1], t[1], r.nonce, pi, 0).share
           = negate_if(Corrected(KeptChild(r, level, s, t, g, 1).weight, g.cw.weight, g.t[1]), 0)
      /\ EvalResult(pub, p, level, s[2], t[2], r.nonce, pi, 1).share
           = negate_if(Corrected(KeptChild(r, level, s, t, g, 2).weight, g.cw.weight, g.t[2]), 1)
  BY <1>5 DEF EvalResult
<1> HIDE DEF proof
<1> QED
  BY <1>3, <1>6, <1>8, <1>9 DEF Apart

\* Off the path both servers reach one and the same place, with shares that cancel.
LEMMA OffPath ==
  ASSUME VidpfContract, NEW r \in Reports, NEW level \in 1..Len(r.input),
         NEW s \in [1..2 -> Seed], NEW t \in [1..2 -> Bit], t[1] # t[2],
         NEW g, g = gen_level(r, level, s, t), NEW pub, Holds(pub, level, g),
         NEW p, Corrects(pub, p, level), p[level] # r.input[level],
         NEW x, NEW y, Apart(x, y, s, t)
  PROVE  LET left == eval_next(0, pub, p, x, r.nonce)
             right == eval_next(1, pub, p, y, r.nonce)
         IN  /\ Same(left.state, right.state)
             /\ merge_vector(left.share, right.share) = zero
<1>1. PICK pi : x = At(s[1], t[1], pi) /\ y = At(s[2], t[2], pi)
  BY DEF Apart
<1>2. s[1] \in Seed /\ s[2] \in Seed /\ t[1] \in Bit /\ t[2] \in Bit
  OBVIOUS
<1> DEFINE lose == 2 - r.input[level]
           one == prg(s[1], r.nonce)
           two == prg(s[2], r.nonce)
           seed == ChildSeed(pub, p, level, s[1], t[1], r.nonce)
           bit == ChildBit(pub, p, level, s[1], t[1], r.nonce)
           weight == ChildWeight(pub, p, level, s[1], t[1], r.nonce)
           proof == ChildProof(pub, p, level, s[1], t[1], r.nonce, pi)
<1>3. /\ g.cw.seed = SymDiff(one.seeds[lose], two.seeds[lose])
      /\ g.cw.bits[lose] = (one.bits[lose] + two.bits[lose]) % 2
  <2>1. LevelIs(r, level, s, t, g)
    BY GenLevelIs
  <2> QED
    BY <2>1 DEF LevelIs
<1>4. p[level] + 1 = lose /\ lose \in 1..2
  <2>1. r.input \in Seq({0, 1})
    BY DEF VidpfContract
  <2>2. r.input[level] \in {0, 1} /\ p[level] \in {0, 1}
    BY <2>1 DEF Corrects, Bit
  <2> QED
    BY <2>2
<1>5. pub.cw[level] = g.cw /\ pub.cs[level] = g.cs
  BY DEF Holds
<1>6. Seeded(s[1], t[1], g.cw.seed, r.nonce, lose) = Seeded(s[2], t[2], g.cw.seed, r.nonce, lose)
  <2> HIDE DEF lose
  <2> QED
    BY <1>2, <1>3 DEF Seeded, xor_if, SymDiff, Bit
<1>7. Turned(s[1], t[1], g.cw.bits, r.nonce, lose) = Turned(s[2], t[2], g.cw.bits, r.nonce, lose)
  <2>1. one.bits[lose] \in Bit /\ two.bits[lose] \in Bit
    BY <1>2, <1>4, Generator
  <2>2. /\ Turned(s[1], t[1], g.cw.bits, r.nonce, lose) = (one.bits[lose] + t[1] * g.cw.bits[lose]) % 2
        /\ Turned(s[2], t[2], g.cw.bits, r.nonce, lose) = (two.bits[lose] + t[2] * g.cw.bits[lose]) % 2
    BY DEF Turned
  <2> HIDE DEF one, two, lose
  <2> QED
    BY <1>2, <1>3, <2>1, <2>2, Parity
<1> HIDE DEF lose
<1>8. /\ ChildSeed(pub, p, level, s[2], t[2], r.nonce) = seed
      /\ ChildBit(pub, p, level, s[2], t[2], r.nonce) = bit
  BY <1>4, <1>5, <1>6, <1>7 DEF ChildSeed, ChildBit
<1>9. ChildWeight(pub, p, level, s[2], t[2], r.nonce) = weight
  BY <1>4, <1>5, <1>6, <1>8 DEF ChildWeight
<1>10. ChildProof(pub, p, level, s[2], t[2], r.nonce, pi) = proof
  BY <1>8 DEF ChildProof
<1>11. ASSUME NEW sd \in Seed, NEW b \in Bit, NEW id
       PROVE  /\ eval_next(id, pub, p, At(sd, b, pi), r.nonce)
                   = EvalResult(pub, p, level, sd, b, r.nonce, pi, id)
              /\ ChildSeed(pub, p, level, sd, b, r.nonce) \in Seed
              /\ ChildBit(pub, p, level, sd, b, r.nonce) \in Bit
              /\ ChildWeight(pub, p, level, sd, b, r.nonce) \in Vec
  BY EvalNextIs
<1>12. /\ eval_next(0, pub, p, x, r.nonce) = EvalResult(pub, p, level, s[1], t[1], r.nonce, pi, 0)
       /\ eval_next(1, pub, p, y, r.nonce) = EvalResult(pub, p, level, s[2], t[2], r.nonce, pi, 1)
       /\ seed \in Seed /\ bit \in Bit /\ weight \in Vec
  BY <1>1, <1>2, <1>11
<1>13. /\ EvalResult(pub, p, level, s[1], t[1], r.nonce, pi, 0)
            = [state |-> At(seed, bit, proof), share |-> negate_if(weight, 0)]
       /\ EvalResult(pub, p, level, s[2], t[2], r.nonce, pi, 1)
            = [state |-> At(seed, bit, proof), share |-> negate_if(weight, 1)]
  BY <1>8, <1>9, <1>10 DEF EvalResult
<1> HIDE DEF seed, bit, weight, proof
<1>14. merge_vector(negate_if(weight, 0), negate_if(weight, 1)) = zero
  BY <1>12, Cancel DEF VidpfContract
<1> QED
  BY <1>12, <1>13, <1>14 DEF Same

-----------------------------------------------------------------------------
(* Key generation.                                                         *)

\* N are the places on the path of the input, level by level, and pub holds the corrections
\* that lead from each of them to the next.
IsPath(N, pub, r) ==
    /\ N \in [0..Len(r.input) -> Place]
    /\ N[0] = [s |-> r.keys, t |-> <<0, 1>>]
    /\ Len(pub.cw) = Len(r.input)
    /\ \A k \in 1..Len(r.input) :
          LET g == gen_level(r, k, N[k - 1].s, N[k - 1].t)
          IN  /\ N[k] = [s |-> g.s, t |-> g.t]
              /\ Holds(pub, k, g) /\ g.cw \in Word

\* The client does not refuse the report.
Accepted(r) == ~(Len(r.input) > 2^LevelWidth) /\ Proper(r)

\* The fold of gen_with_keys.
Run(r) == FoldLeft(LAMBDA acc, level :
                    LET g == gen_level(r, level, acc.s, acc.t)
                    IN  [s |-> g.s, t |-> g.t, cw |-> Append(acc.cw, g.cw), cs |-> Append(acc.cs, g.cs)],
                 [s |-> r.keys, t |-> <<0, 1>>, cw |-> <<>>, cs |-> <<>>],
                 [level \in DOMAIN r.input |-> level])

\* The public share of a report that is accepted has the corrections of a path.
LEMMA Generated ==
  ASSUME VidpfContract, NEW r \in Reports, Accepted(r)
  PROVE  \E N : IsPath(N, Run(r), r)
<1> DEFINE L == Len(r.input)
           Proofs == SUBSET ({"NodeProof"} \X Seed \X Seq({0, 1}))
           T == [s : [1..2 -> Seed], t : {t \in [1..2 -> Bit] : t[1] # t[2]},
                 cw : Seq(Word), cs : Seq(Proofs)]
           base == [s |-> r.keys, t |-> <<0, 1>>, cw |-> <<>>, cs |-> <<>>]
           gen(k, acc) == gen_level(r, k, acc.s, acc.t)
           step(k, acc) == [s |-> gen(k, acc).s, t |-> gen(k, acc).t,
                            cw |-> Append(acc.cw, gen(k, acc).cw),
                            cs |-> Append(acc.cs, gen(k, acc).cs)]
           G == [k \in 1..L |-> [acc \in T |-> step(k, acc)]]
           levels == [level \in DOMAIN r.input |-> level]
           Folds(it) == it = [s \in SUBSET (1..L) |->
                                IF s = {} THEN base ELSE step(levels[Max(s)], it[s \ {Max(s)}])]
           iter == CHOOSE it : Folds(it)
<1>1. /\ r.input \in Seq({0, 1}) /\ L \in Nat /\ DOMAIN r.input = 1..L
      /\ r.keys \in [1..2 -> Seed] /\ Proper(r)
  BY DEF VidpfContract, Accepted
<1>2. Run(r) = iter[1..L]
  <2>1. DOMAIN levels = 1..L
    BY <1>1
  <2> QED
    BY <2>1 DEF Run, FoldLeft, MapThenFoldSet
<1>3. base \in T
  BY <1>1 DEF Bit
<1>4. ASSUME NEW k \in 1..L, NEW acc \in T
      PROVE  step(k, acc) \in T
  <2>1. /\ acc.s \in [1..2 -> Seed] /\ acc.t \in [1..2 -> Bit] /\ acc.t[1] # acc.t[2]
        /\ acc.cw \in Seq(Word) /\ acc.cs \in Seq(Proofs)
    OBVIOUS
  <2> DEFINE g == gen(k, acc)
             s == acc.s
             t == acc.t
  <2>2. s \in [1..2 -> Seed] /\ t \in [1..2 -> Bit] /\ t[1] # t[2] /\ g = gen_level(r, k, s, t)
    BY <2>1
  <2> HIDE DEF g, s, t
  <2>3. g.s \in [1..2 -> Seed] /\ g.t \in [1..2 -> Bit] /\ g.t[1] # g.t[2] /\ g.cw \in Word
    BY <1>1, <2>2, LevelTypes
  <2>4. LevelIs(r, k, s, t, g)
    BY <2>2, GenLevelIs
  <2>5. g.cs = SymDiff(node_proof(SubSeq(r.input, 1, k), g.s[1]), node_proof(SubSeq(r.input, 1, k), g.s[2]))
    BY <2>4 DEF LevelIs
  <2>6. SubSeq(r.input, 1, k) \in Seq({0, 1}) /\ g.s[1] \in Seed /\ g.s[2] \in Seed
    BY <1>1, <2>3
  <2>7. g.cs \in Proofs
    <3> DEFINE a == <<"NodeProof", g.s[1], SubSeq(r.input, 1, k)>>
               b == <<"NodeProof", g.s[2], SubSeq(r.input, 1, k)>>
    <3>1. a \in {"NodeProof"} \X Seed \X Seq({0, 1}) /\ b \in {"NodeProof"} \X Seed \X Seq({0, 1})
      BY <2>6
    <3>2. g.cs = SymDiff({a}, {b})
      BY <2>5 DEF node_proof
    <3> HIDE DEF a, b
    <3> QED
      BY <3>1, <3>2 DEF SymDiff
  <2> HIDE DEF Proofs
  <2>8. Append(acc.cw, g.cw) \in Seq(Word) /\ Append(acc.cs, g.cs) \in Seq(Proofs)
    BY <2>1, <2>3, <2>7
  <2>9. step(k, acc) = [s |-> g.s, t |-> g.t, cw |-> Append(acc.cw, g.cw), cs |-> Append(acc.cs, g.cs)]
    BY DEF g
  <2> HIDE DEF step
  <2> QED
    BY <2>3, <2>8, <2>9
<1>5. G \in [1..L -> [T -> T]]
  <2> HIDE DEF step, T
  <2> QED
    BY <1>4
<1>6. \E it : Folds(it)
  <2> HIDE DEF T, G, base, L
  <2>0. PICK it : IsFold(it, L, T, base, G)
    BY <1>1, <1>3, <1>5, FoldExists
  <2>1. /\ it \in [SUBSET (1..L) -> T]
        /\ \A s \in SUBSET (1..L) :
              it[s] = IF s = {} THEN base ELSE G[Max(s)][it[s \ {Max(s)}]]
    BY <2>0 DEF IsFold
  <2>2. ASSUME NEW s \in SUBSET (1..L)
        PROVE  it[s] = IF s = {} THEN base ELSE step(levels[Max(s)], it[s \ {Max(s)}])
    <3>1. CASE s = {}
      BY <2>1, <3>1
    <3>2. CASE s # {}
      <4>1. Max(s) \in 1..L
        BY <1>1, <3>2, MaxOfPositions
      <4>2. levels[Max(s)] = Max(s)
        BY <1>1, <4>1
      <4>3. it[s \ {Max(s)}] \in T
        BY <2>1
      <4>4. G[Max(s)][it[s \ {Max(s)}]] = step(Max(s), it[s \ {Max(s)}])
        <5> HIDE DEF step
        <5> QED
          BY <4>1, <4>3 DEF G
      <4> HIDE DEF levels, step
      <4> QED
        BY <2>1, <3>2, <4>2, <4>4
    <3> QED
      BY <3>1, <3>2
  <2>3. it = [s \in SUBSET (1..L) |->
                IF s = {} THEN base ELSE step(levels[Max(s)], it[s \ {Max(s)}])]
    <3> HIDE DEF step, levels
    <3> QED
      BY <2>1, <2>2
  <2> QED
    BY <2>3
<1>7. Folds(iter)
  <2> HIDE DEF Folds
  <2> QED
    BY <1>6
<1> HIDE DEF iter, L
<1>8. iter[1..0] = base
  BY <1>7
<1>9. ASSUME NEW k \in 1..L
      PROVE  iter[1..k] = step(k, iter[1..k - 1])
  <2>1. k \in Nat /\ k > 0 /\ 1..k \in SUBSET (1..L) /\ levels[k] = k
    BY <1>1
  <2>2. Max(1..k) = k /\ (1..k) \ {k} = 1..k - 1 /\ 1..k # {}
    BY <2>1, MaxOfFirst
  <2>3. iter[1..k] = IF 1..k = {} THEN base
                     ELSE step(levels[Max(1..k)], iter[(1..k) \ {Max(1..k)}])
    <3> HIDE DEF step, base, levels
    <3> QED
      BY <1>7, <2>1
  <2> HIDE DEF step, base, levels
  <2> QED
    BY <2>1, <2>2, <2>3
<1> HIDE DEF Folds, step, base
<1> DEFINE at(k) == iter[1..k]
           Good(k) == /\ at(k) \in T
                      /\ Len(at(k).cw) = k /\ Len(at(k).cs) = k
                      /\ \A j \in 1..k : /\ at(k).cw[j] = gen(j, at(j - 1)).cw
                                         /\ at(k).cs[j] = gen(j, at(j - 1)).cs
           S == {k \in 0..L : Good(k)}
<1>10. 0 \in S
  <2>1. at(0) \in T
    BY <1>3, <1>8
  <2>2. at(0).cw = <<>> /\ at(0).cs = <<>>
    BY <1>8 DEF base
  <2>3. 1..0 = {} /\ 0 \in 0..L /\ Len(<<>>) = 0
    BY <1>1
  <2> HIDE DEF T, at
  <2> QED
    BY <2>1, <2>2, <2>3
<1>11. ASSUME NEW k \in 0..L - 1, k \in S
       PROVE  k + 1 \in S
  <2>1. k + 1 \in 1..L /\ k + 1 \in 0..L /\ (k + 1) - 1 = k /\ k \in Nat
    BY <1>1
  <2>2. Good(k)
    BY <1>11
  <2>3. at(k + 1) = step(k + 1, at(k))
    BY <1>9, <2>1
  <2>4. at(k + 1) \in T
    <3> HIDE DEF T, at
    <3> QED
      BY <1>4, <2>1, <2>2, <2>3
  <2>5. /\ at(k + 1).cw = Append(at(k).cw, gen(k + 1, at(k)).cw)
        /\ at(k + 1).cs = Append(at(k).cs, gen(k + 1, at(k)).cs)
    BY <2>3 DEF step
  <2>6. /\ at(k).cw \in Seq(Word) /\ Len(at(k).cw) = k
        /\ at(k).cs \in Seq(Proofs) /\ Len(at(k).cs) = k
    <3> HIDE DEF at, Proofs
    <3> QED
      BY <2>2
  <2> HIDE DEF at, gen, T, Proofs
  <2>7. Len(at(k + 1).cw) = k + 1 /\ Len(at(k + 1).cs) = k + 1
    BY <2>5, <2>6
  <2>8. ASSUME NEW j \in 1..k + 1
        PROVE  at(k + 1).cw[j] = gen(j, at(j - 1)).cw /\ at(k + 1).cs[j] = gen(j, at(j - 1)).cs
    <3>1. CASE j = k + 1
      <4>1. /\ at(k + 1).cw[k + 1] = gen(k + 1, at(k)).cw
            /\ at(k + 1).cs[k + 1] = gen(k + 1, at(k)).cs
        BY <2>5, <2>6
      <4>2. j - 1 = k
        BY <2>1, <3>1
      <4> QED
        BY <3>1, <4>1, <4>2
    <3>2. CASE j # k + 1
      <4>1. j \in 1..k
        BY <2>1, <3>2
      <4>2. at(k + 1).cw[j] = at(k).cw[j] /\ at(k + 1).cs[j] = at(k).cs[j]
        BY <2>5, <2>6, <4>1
      <4> QED
        BY <2>2, <4>1, <4>2
    <3> QED
      BY <3>1, <3>2
  <2>9. Good(k + 1)
    BY <2>4, <2>7, <2>8
  <2> HIDE DEF Good
  <2> QED
    BY <2>1, <2>9
<1>12. 0..L \subseteq S
  <2> HIDE DEF S
  <2> QED
    BY <1>1, <1>10, <1>11, IntervalInduction
<1>13. \A k \in 0..L : Good(k)
  <2> HIDE DEF Good
  <2> QED
    BY <1>12
<1> DEFINE N == [k \in 0..L |-> [s |-> at(k).s, t |-> at(k).t]]
           pub == at(L)
<1>14. ASSUME NEW k \in 0..L
       PROVE  [s |-> at(k).s, t |-> at(k).t] \in Place
  <2>1. at(k) \in T
    BY <1>13
  <2> HIDE DEF at
  <2> QED
    BY <2>1 DEF Place
<1>15. N \in [0..L -> Place]
  <2> HIDE DEF at
  <2> QED
    BY <1>14
<1>16. /\ Len(pub.cw) = L
       /\ \A j \in 1..L : pub.cw[j] = gen(j, at(j - 1)).cw /\ pub.cs[j] = gen(j, at(j - 1)).cs
  <2>1. L \in 0..L
    BY <1>1
  <2>2. Good(L)
    BY <1>13, <2>1
  <2> HIDE DEF at, gen
  <2> QED
    BY <2>2
<1>17. N[0] = [s |-> r.keys, t |-> <<0, 1>>]
  BY <1>1, <1>8 DEF base
<1>18. ASSUME NEW k \in 1..L
       PROVE  LET g == gen_level(r, k, N[k - 1].s, N[k - 1].t)
              IN  /\ N[k] = [s |-> g.s, t |-> g.t]
                  /\ Holds(pub, k, g) /\ g.cw \in Word
  <2>1. k - 1 \in 0..L /\ k \in 0..L
    BY <1>1
  <2>2. /\ N[k] = [s |-> at(k).s, t |-> at(k).t]
        /\ N[k - 1] = [s |-> at(k - 1).s, t |-> at(k - 1).t]
    <3> HIDE DEF at
    <3> QED
      BY <2>1
  <2> DEFINE g == gen_level(r, k, N[k - 1].s, N[k - 1].t)
  <2>3. g = gen(k, at(k - 1))
    BY <2>2
  <2>4. at(k).s = gen(k, at(k - 1)).s /\ at(k).t = gen(k, at(k - 1)).t
    <3>1. at(k) = step(k, at(k - 1))
      BY <1>9
    <3> HIDE DEF gen, at
    <3> QED
      BY <3>1 DEF step
  <2>5. g.cw \in Word
    <3>1. N[k - 1] \in Place
      BY <1>15, <2>1
    <3> DEFINE s == N[k - 1].s
               t == N[k - 1].t
    <3>2. s \in [1..2 -> Seed] /\ t \in [1..2 -> Bit] /\ t[1] # t[2] /\ g = gen_level(r, k, s, t)
      BY <3>1 DEF Place
    <3> HIDE DEF s, t, g
    <3>3. k \in 1..Len(r.input)
      BY DEF L
    <3> QED
      BY <1>1, <3>2, <3>3, LevelTypes
  <2> HIDE DEF at, N, pub, g, gen
  <2>6. N[k] = [s |-> g.s, t |-> g.t] /\ Holds(pub, k, g)
    BY <1>16, <2>2, <2>3, <2>4 DEF Holds
  <2> QED
    BY <2>5, <2>6 DEF g
<1>19. IsPath(N, pub, r)
  <2> HIDE DEF N, pub
  <2> QED
    BY <1>15, <1>16, <1>17, <1>18 DEF IsPath, L
<1>20. pub = Run(r)
  BY <1>2
<1> HIDE DEF N, pub
<1> QED
  BY <1>19, <1>20

-----------------------------------------------------------------------------
(* Evaluation from the key.                                                *)

\* w is what a server computes on the way to p, level by level.
IsWalk(w, id, pub, key, nonce, n, p) ==
    /\ w[0] = [state |-> init_from_key(id, key), share |-> zero]
    /\ \A k \in 1..n : w[k] = eval_next(id, pub, SubSeq(p, 1, k), w[k - 1].state, nonce)

\* A walk ends with what eval computes.
LEMMA Walked ==
  ASSUME NEW id, NEW pub, NEW key, NEW nonce, NEW n \in Nat, NEW p \in [1..n -> Bit]
  PROVE  \E w : IsWalk(w, id, pub, key, nonce, n, p) /\ eval(id, pub, key, p, nonce) = w[n]
<1> DEFINE base == [state |-> init_from_key(id, key), share |-> zero]
           step(k, acc) == eval_next(id, pub, SubSeq(p, 1, k), acc.state, nonce)
           levels == [level \in DOMAIN p |-> level]
           Value(it, s) == IF s = {} THEN base ELSE step(levels[Max(s)], it[s \ {Max(s)}])
           Folds(it, m) == it = [s \in SUBSET (1..m) |-> Value(it, s)]
           iter == CHOOSE it : Folds(it, n)
           S == {m \in 0..n : \E it : Folds(it, m)}
<1>1. eval(id, pub, key, p, nonce) = iter[1..n]
  <2>1. DOMAIN levels = 1..n
    OBVIOUS
  <2> QED
    BY <2>1 DEF eval, FoldLeft, MapThenFoldSet, zero
<1>2. \A k \in 1..n : levels[k] = k
  OBVIOUS
<1> HIDE DEF base, step, levels
<1>3. 0 \in S
  <2> DEFINE it == [s \in SUBSET (1..0) |-> base]
  <2>1. \A s \in SUBSET (1..0) : Value(it, s) = base
    OBVIOUS
  <2>2. Folds(it, 0)
    <3> HIDE DEF Value
    <3> QED
      BY <2>1
  <2> HIDE DEF Folds, it
  <2> QED
    BY <2>2
<1>4. ASSUME NEW k \in 0..n - 1, k \in S
      PROVE  k + 1 \in S
  <2>1. PICK it : Folds(it, k)
    BY <1>4
  <2>2. k + 1 \in 1..n /\ k \in Nat /\ k + 1 \in 0..n
    OBVIOUS
  <2> DEFINE h == [s \in SUBSET (1..k + 1) |->
                      IF k + 1 \in s THEN step(levels[k + 1], it[s \ {k + 1}]) ELSE it[s]]
  <2>3. ASSUME NEW s \in SUBSET (1..k + 1)
        PROVE  /\ s \ {k + 1} \in SUBSET (1..k)
               /\ k + 1 \notin s => s \in SUBSET (1..k)
    BY <2>2
  <2>4. \A s \in SUBSET (1..k) : it[s] = Value(it, s)
    <3> HIDE DEF Value
    <3> QED
      BY <2>1
  <2>5. ASSUME NEW s \in SUBSET (1..k + 1)
        PROVE  h[s] = Value(h, s)
    <3>1. CASE s = {}
      <4>1. s \in SUBSET (1..k) /\ k + 1 \notin s
        BY <3>1
      <4>2. h[s] = it[s]
        BY <4>1
      <4>3. Value(h, s) = base /\ Value(it, s) = base
        BY <3>1
      <4> QED
        BY <2>4, <4>1, <4>2, <4>3
    <3>2. CASE k + 1 \in s
      <4>1. Max(s) = k + 1
        <5>1. k + 1 \in Nat /\ s # {}
          BY <2>2, <3>2
        <5>2. Max(s) \in s /\ \A x \in s : x <= Max(s)
          BY <5>1, MaxOfPositions
        <5>3. Max(s) \in 1..k + 1 /\ k + 1 <= Max(s)
          BY <3>2, <5>2
        <5> QED
          BY <5>1, <5>3
      <4>2. h[s] = step(levels[k + 1], it[s \ {k + 1}])
        BY <3>2
      <4>3. s \ {k + 1} \in SUBSET (1..k + 1) /\ k + 1 \notin s \ {k + 1}
        OBVIOUS
      <4>4. h[s \ {k + 1}] = it[s \ {k + 1}]
        BY <4>3
      <4> HIDE DEF h
      <4>5. Value(h, s) = step(levels[Max(s)], h[s \ {Max(s)}])
        BY <3>2
      <4> QED
        BY <4>1, <4>2, <4>4, <4>5
    <3>3. CASE k + 1 \notin s /\ s # {}
      <4>1. s \in SUBSET (1..k) /\ s \ {Max(s)} \in SUBSET (1..k)
        BY <2>3, <3>3
      <4>2. h[s] = it[s] /\ h[s \ {Max(s)}] = it[s \ {Max(s)}]
        BY <3>3, <4>1
      <4> HIDE DEF h
      <4>3. /\ Value(h, s) = step(levels[Max(s)], h[s \ {Max(s)}])
            /\ Value(it, s) = step(levels[Max(s)], it[s \ {Max(s)}])
        BY <3>3
      <4> QED
        BY <2>4, <4>1, <4>2, <4>3
    <3> QED
      BY <3>1, <3>2, <3>3
  <2>6. h = [s \in SUBSET (1..k + 1) |-> h[s]]
    OBVIOUS
  <2> HIDE DEF h
  <2>7. Folds(h, k + 1)
    <3> HIDE DEF Value
    <3> QED
      BY <2>5, <2>6
  <2> HIDE DEF Folds
  <2> QED
    BY <2>2, <2>7
<1>5. n \in S
  <2> HIDE DEF S
  <2>1. 0..n \subseteq S
    BY <1>3, <1>4, IntervalInduction
  <2> QED
    BY <2>1
<1>6. Folds(iter, n)
  <2> HIDE DEF Folds
  <2> QED
    BY <1>5
<1> HIDE DEF iter
<1>7. \A s \in SUBSET (1..n) : iter[s] = Value(iter, s)
  <2> HIDE DEF Value
  <2> QED
    BY <1>6
<1> DEFINE w == [k \in 0..n |-> iter[1..k]]
<1>8. w[0] = base
  <2>1. 1..0 = {} /\ w[0] = iter[1..0] /\ 1..0 \in SUBSET (1..n)
    OBVIOUS
  <2> QED
    BY <1>7, <2>1
<1>9. ASSUME NEW k \in 1..n
      PROVE  w[k] = step(k, w[k - 1])
  <2>1. /\ k \in Nat /\ k > 0 /\ 1..k \in SUBSET (1..n) /\ levels[k] = k
        /\ k \in 0..n /\ k - 1 \in 0..n
    BY <1>2
  <2>2. Max(1..k) = k /\ (1..k) \ {k} = 1..k - 1 /\ 1..k # {}
    BY <2>1, MaxOfFirst
  <2>3. iter[1..k] = Value(iter, 1..k)
    BY <1>7, <2>1
  <2>4. Value(iter, 1..k) = step(levels[Max(1..k)], iter[(1..k) \ {Max(1..k)}])
    BY <2>2
  <2> HIDE DEF Value
  <2> QED
    BY <2>1, <2>2, <2>3, <2>4
<1>10. w[n] = iter[1..n]
  OBVIOUS
<1> HIDE DEF w
<1>11. IsWalk(w, id, pub, key, nonce, n, p)
  BY <1>8, <1>9 DEF IsWalk, base, step
<1> QED
  BY <1>1, <1>10, <1>11

\* The first n bits of p and of q are the same.
Leads(n, p, q) == \A k \in 1..n : p[k] = q[k]

\* The first bits of a sequence of bits.
LEMMA Cut ==
  ASSUME NEW n \in Nat, NEW p \in [1..n -> Bit], NEW l \in 0..n
  PROVE  /\ SubSeq(p, 1, l) \in [1..l -> Bit]
         /\ \A k \in 1..l : SubSeq(p, 1, l)[k] = p[k]
<1> DEFINE q == SubSeq(p, 1, l)
<1>1. 1 \in Int /\ l \in Int /\ \A i \in 1..l : p[i] \in Bit
  OBVIOUS
<1>2. /\ q \in Seq(Bit) /\ Len(q) = IF 1 <= l THEN l - 1 + 1 ELSE 0
      /\ \A i \in 1..l - 1 + 1 : q[i] = p[1 + i - 1]
  BY <1>1, SubSeqProperties
<1> HIDE DEF q
<1>3. Len(q) = l /\ \A i \in 1..l : q[i] = p[i]
  BY <1>1, <1>2
<1>4. q \in [1..l -> Bit]
  BY <1>2, <1>3
<1> QED
  BY <1>3, <1>4 DEF q

\* Sequences that begin alike have the same first bits.
LEMMA SameCut ==
  ASSUME NEW n \in Nat, NEW p \in [1..n -> Bit], NEW m \in Nat, NEW q \in [1..m -> Bit],
         NEW l \in 0..n, l <= m, Leads(l, p, q)
  PROVE  SubSeq(p, 1, l) = SubSeq(q, 1, l)
<1>1. l \in 0..m
  OBVIOUS
<1> DEFINE x == SubSeq(p, 1, l)
           y == SubSeq(q, 1, l)
<1>2. x \in [1..l -> Bit] /\ \A k \in 1..l : x[k] = p[k]
  BY Cut
<1>3. y \in [1..l -> Bit] /\ \A k \in 1..l : y[k] = q[k]
  BY <1>1, Cut
<1> HIDE DEF x, y
<1>4. x = y
  BY <1>2, <1>3 DEF Leads
<1> QED
  BY <1>4 DEF x, y

\* Without bits eval returns the state made from the key.
LEMMA EvalStart ==
  ASSUME NEW id, NEW pub, NEW key, NEW nonce, NEW p \in [1..0 -> Bit]
  PROVE  eval(id, pub, key, p, nonce) = [state |-> init_from_key(id, key), share |-> zero]
<1>1. ASSUME NEW n \in Nat, NEW q \in [1..n -> Bit]
      PROVE  \E w : IsWalk(w, id, pub, key, nonce, n, q) /\ eval(id, pub, key, q, nonce) = w[n]
  BY Walked
<1>2. PICK w : IsWalk(w, id, pub, key, nonce, 0, p) /\ eval(id, pub, key, p, nonce) = w[0]
  BY <1>1
<1> QED
  BY <1>2 DEF IsWalk

\* The evaluation of a prefix is one step from that of its parent.
LEMMA EvalStep ==
  ASSUME NEW id, NEW pub, NEW key, NEW nonce, NEW n \in Nat, n > 0, NEW p \in [1..n -> Bit],
         NEW q \in [1..n - 1 -> Bit], Leads(n - 1, p, q)
  PROVE  eval(id, pub, key, p, nonce)
           = eval_next(id, pub, p, eval(id, pub, key, q, nonce).state, nonce)
<1> DEFINE m == n - 1
<1>1. m \in Nat /\ m = n - 1 /\ q \in [1..m -> Bit] /\ Leads(m, p, q)
  OBVIOUS
<1> HIDE DEF m
<1>2. PICK w : IsWalk(w, id, pub, key, nonce, n, p) /\ eval(id, pub, key, p, nonce) = w[n]
  BY Walked
<1>3. PICK v : IsWalk(v, id, pub, key, nonce, m, q) /\ eval(id, pub, key, q, nonce) = v[m]
  BY <1>1, Walked
<1> DEFINE S == {k \in 0..m : v[k] = w[k]}
<1>4. 0 \in S
  BY <1>1, <1>2, <1>3 DEF IsWalk
<1>5. ASSUME NEW k \in 0..m - 1, k \in S
      PROVE  k + 1 \in S
  <2>1. k + 1 \in 1..m /\ k + 1 \in 1..n /\ k + 1 \in 0..m /\ k + 1 \in 0..n /\ k + 1 <= m /\ (k + 1) - 1 = k
    BY <1>1
  <2>2. v[k + 1] = eval_next(id, pub, SubSeq(q, 1, k + 1), v[k].state, nonce)
    BY <1>3, <2>1 DEF IsWalk
  <2>3. w[k + 1] = eval_next(id, pub, SubSeq(p, 1, k + 1), w[k].state, nonce)
    BY <1>2, <2>1 DEF IsWalk
  <2>4. SubSeq(p, 1, k + 1) = SubSeq(q, 1, k + 1)
    <3> DEFINE l == k + 1
    <3>1. l \in 0..n /\ l <= m /\ Leads(l, p, q)
      BY <1>1, <2>1 DEF Leads
    <3> HIDE DEF l
    <3>2. SubSeq(p, 1, l) = SubSeq(q, 1, l)
      BY <1>1, <3>1, SameCut
    <3> QED
      BY <3>2 DEF l
  <2>5. v[k] = w[k]
    BY <1>5
  <2> QED
    BY <2>1, <2>2, <2>3, <2>4, <2>5
<1>6. v[m] = w[m]
  <2> HIDE DEF S
  <2>1. 0..m \subseteq S
    BY <1>1, <1>4, <1>5, IntervalInduction
  <2> QED
    BY <1>1, <2>1 DEF S
<1>7. w[n] = eval_next(id, pub, SubSeq(p, 1, n), w[m].state, nonce)
  BY <1>1, <1>2 DEF IsWalk
<1>8. SubSeq(p, 1, n) = p
  <2>1. n \in 0..n
    OBVIOUS
  <2>2. SubSeq(p, 1, n) \in [1..n -> Bit] /\ \A k \in 1..n : SubSeq(p, 1, n)[k] = p[k]
    BY <2>1, Cut
  <2> QED
    BY <2>2
<1> QED
  BY <1>2, <1>3, <1>6, <1>7, <1>8

-----------------------------------------------------------------------------
(* The point function.                                                     *)

\* What server id has at the prefix p.
Reached(id, pub, r, p) == eval(id, pub, r.keys[id + 1], p, r.nonce)

\* The servers at a prefix of n bits: at the place that key generation saw where the prefix
\* leads to the input, at one and the same place where it does not.
Together(pub, r, N, n, p) ==
    LET left == Reached(0, pub, r, p).state
        right == Reached(1, pub, r, p).state
    IN  IF Leads(n, p, r.input) THEN Apart(left, right, N[n].s, N[n].t) ELSE Same(left, right)

\* Their shares add up to the weight on the path and to zero off it.
SharesAdd(pub, r, n, p) ==
    merge_vector(Reached(0, pub, r, p).share, Reached(1, pub, r, p).share)
        = IF Leads(n, p, r.input) THEN r.weight ELSE zero

\* The step from a parent q to its child p.
LEMMA Descend ==
  ASSUME VidpfContract, NEW r \in Reports, Accepted(r), NEW N, NEW pub, IsPath(N, pub, r),
         NEW n \in 1..Len(r.input), NEW p \in [1..n -> Bit], NEW q \in [1..n - 1 -> Bit],
         Leads(n - 1, p, q), Together(pub, r, N, n - 1, q)
  PROVE  Together(pub, r, N, n, p) /\ SharesAdd(pub, r, n, p)
<1> DEFINE s == N[n - 1].s
           t == N[n - 1].t
           g == gen_level(r, n, s, t)
           x == Reached(0, pub, r, q).state
           y == Reached(1, pub, r, q).state
           left == eval_next(0, pub, p, x, r.nonce)
           right == eval_next(1, pub, p, y, r.nonce)
<1>1. /\ r.input \in Seq({0, 1}) /\ Len(r.input) \in Nat /\ n \in Nat /\ n > 0 /\ n \in 1..n
      /\ n - 1 \in 0..Len(r.input) /\ Proper(r) /\ p[n] \in Bit /\ Len(p) = n
  BY DEF VidpfContract, Accepted
<1>2. /\ N[n - 1] \in Place /\ N[n] = [s |-> g.s, t |-> g.t] /\ Holds(pub, n, g) /\ g.cw \in Word
  BY <1>1 DEF IsPath
<1>3. s \in [1..2 -> Seed] /\ t \in [1..2 -> Bit] /\ t[1] # t[2]
  BY <1>2 DEF Place
<1>4. Reached(0, pub, r, p) = left /\ Reached(1, pub, r, p) = right
  <2>1. ASSUME NEW id
        PROVE  Reached(id, pub, r, p) = eval_next(id, pub, p, Reached(id, pub, r, q).state, r.nonce)
    BY <1>1, EvalStep DEF Reached
  <2> QED
    BY <2>1
<1>5. Corrects(pub, p, n)
  BY <1>1, <1>2 DEF Corrects, Holds
<1>6. N[n].s = g.s /\ N[n].t = g.t
  BY <1>2
<1>7. Leads(n, p, r.input) <=> (Leads(n - 1, q, r.input) /\ p[n] = r.input[n])
  BY <1>1 DEF Leads
<1> HIDE DEF s, t, x, y
<1>8. CASE Leads(n - 1, q, r.input)
  <2>1. Apart(x, y, s, t)
    BY <1>8 DEF Together, x, y, s, t
  <2>2. CASE p[n] = r.input[n]
    <3>1. Leads(n, p, r.input)
      BY <1>7, <1>8, <2>2
    <3>2. FirstBits(p, n, r.input)
      <4> DEFINE L == Len(r.input)
                 input == r.input
      <4>1. L \in Nat /\ input \in [1..L -> Bit] /\ n \in 0..n /\ n <= L /\ Leads(n, p, input)
        BY <1>1, <3>1 DEF Bit
      <4> HIDE DEF L, input
      <4>2. SubSeq(p, 1, n) = SubSeq(input, 1, n)
        BY <1>1, <4>1, SameCut
      <4>3. SubSeq(p, 1, n) \in [1..n -> Bit] /\ \A k \in 1..n : SubSeq(p, 1, n)[k] = p[k]
        BY <1>1, <4>1, Cut
      <4>4. SubSeq(p, 1, n) = p
        BY <4>3
      <4> QED
        BY <2>2, <4>2, <4>4 DEF FirstBits, input
    <3> HIDE DEF g
    <3>3. Apart(left.state, right.state, g.s, g.t) /\ merge_vector(left.share, right.share) = r.weight
      BY <1>1, <1>2, <1>3, <1>5, <2>1, <3>2, OnPath DEF g
    <3> QED
      BY <1>4, <1>6, <3>1, <3>3 DEF Together, SharesAdd
  <2>3. CASE p[n] # r.input[n]
    <3>1. ~Leads(n, p, r.input)
      BY <1>7, <2>3
    <3> HIDE DEF g
    <3>2. Same(left.state, right.state) /\ merge_vector(left.share, right.share) = zero
      BY <1>1, <1>2, <1>3, <1>5, <2>1, <2>3, OffPath DEF g
    <3> QED
      BY <1>4, <3>1, <3>2 DEF Together, SharesAdd
  <2> QED
    BY <2>2, <2>3
<1>9. CASE ~Leads(n - 1, q, r.input)
  <2>1. Same(x, y)
    BY <1>9 DEF Together, x, y
  <2>2. Same(left.state, right.state) /\ merge_vector(left.share, right.share) = zero
    BY <1>5, <2>1, Twins
  <2> QED
    BY <1>4, <1>7, <1>9, <2>2 DEF Together, SharesAdd
<1> QED
  BY <1>8, <1>9

\* At every prefix the servers stand where key generation meant them to, and below the root
\* their shares add up.
LEMMA Points ==
  ASSUME VidpfContract, NEW r \in Reports, Accepted(r), NEW N, NEW pub, IsPath(N, pub, r)
  PROVE  \A n \in 0..Len(r.input) : \A p \in [1..n -> Bit] :
            Together(pub, r, N, n, p) /\ (n > 0 => SharesAdd(pub, r, n, p))
<1> DEFINE L == Len(r.input)
           Good(n) == \A p \in [1..n -> Bit] :
                        Together(pub, r, N, n, p) /\ (n > 0 => SharesAdd(pub, r, n, p))
           S == {n \in 0..L : Good(n)}
<1>1. L \in Nat
  BY DEF VidpfContract
<1>2. 0 \in S
  <2> SUFFICES ASSUME NEW p \in [1..0 -> Bit]
               PROVE  Together(pub, r, N, 0, p)
    BY <1>1
  <2>1. Leads(0, p, r.input)
    BY DEF Leads
  <2>2. Reached(0, pub, r, p) = [state |-> init_from_key(0, r.keys[1]), share |-> zero]
        /\ Reached(1, pub, r, p) = [state |-> init_from_key(1, r.keys[2]), share |-> zero]
    <3>1. ASSUME NEW id
          PROVE  Reached(id, pub, r, p) = [state |-> init_from_key(id, r.keys[id + 1]), share |-> zero]
      BY EvalStart DEF Reached
    <3>2. 0 + 1 = 1 /\ 1 + 1 = 2
      OBVIOUS
    <3> QED
      BY <3>1, <3>2
  <2>3. N[0].s = r.keys /\ N[0].t = <<0, 1>>
    BY DEF IsPath
  <2>4. /\ Reached(0, pub, r, p).state = At(N[0].s[1], N[0].t[1], {})
        /\ Reached(1, pub, r, p).state = At(N[0].s[2], N[0].t[2], {})
    <3>1. N[0].t[1] = 0 /\ N[0].t[2] = 1 /\ N[0].s[1] = r.keys[1] /\ N[0].s[2] = r.keys[2]
      BY <2>3
    <3>2. ASSUME NEW id, NEW key
          PROVE  init_from_key(id, key) = At(key, id, {})
      BY DEF init_from_key, At
    <3>3. /\ Reached(0, pub, r, p).state = init_from_key(0, r.keys[1])
          /\ Reached(1, pub, r, p).state = init_from_key(1, r.keys[2])
      BY <2>2
    <3> QED
      BY <3>1, <3>2, <3>3
  <2> QED
    BY <2>1, <2>4 DEF Together, Apart
<1>3. ASSUME NEW k \in 0..L - 1, k \in S
      PROVE  k + 1 \in S
  <2> DEFINE n == k + 1
  <2>1. n \in 1..L /\ n \in 0..L /\ n - 1 = k /\ n \in Nat /\ n - 1 \in 0..n
    BY <1>1
  <2> SUFFICES ASSUME NEW p \in [1..n -> Bit]
               PROVE  Together(pub, r, N, n, p) /\ SharesAdd(pub, r, n, p)
    BY <2>1
  <2> DEFINE q == [i \in 1..n - 1 |-> p[i]]
  <2> HIDE DEF n
  <2>2. q \in [1..n - 1 -> Bit] /\ Leads(n - 1, p, q)
    BY <2>1 DEF Leads
  <2> HIDE DEF q
  <2>3. Together(pub, r, N, n - 1, q)
    BY <1>3, <2>1, <2>2
  <2>4. n \in 1..Len(r.input)
    BY <2>1
  <2> HIDE DEF L
  <2> QED
    BY <2>2, <2>3, <2>4, Descend
<1>4. 0..L \subseteq S
  <2> HIDE DEF S
  <2> QED
    BY <1>1, <1>2, <1>3, IntervalInduction
<1> QED
  BY <1>4

-----------------------------------------------------------------------------
(* The servers.                                                            *)

\* A public share is empty, or it corrects the path of the report's input.
Sent(r, pub) ==
    \/ Len(pub.cw) = 0
    \/ Accepted(r) /\ Len(pub.cw) = Len(r.input) /\ \E N : IsPath(N, pub, r)

\* What key generation sends.
LEMMA GenIs ==
  ASSUME VidpfContract, NEW r \in Reports
  PROVE  Sent(r, gen_with_keys(r))
<1> DEFINE pub == gen_with_keys(r)
<1>1. pub = IF Accepted(r) THEN [cw |-> Run(r).cw, cs |-> Run(r).cs] ELSE [cw |-> <<>>, cs |-> <<>>]
  BY DEF gen_with_keys, Run, Accepted, Proper
<1> HIDE DEF pub
<1>2. CASE ~Accepted(r)
  <2>1. pub.cw = <<>>
    BY <1>1, <1>2
  <2> QED
    BY <2>1 DEF Sent, pub
<1>3. CASE Accepted(r)
  <2>1. PICK N : IsPath(N, Run(r), r)
    BY <1>3, Generated
  <2>2. pub.cw = Run(r).cw /\ pub.cs = Run(r).cs
    BY <1>1, <1>3
  <2>3. IsPath(N, pub, r)
    BY <2>1, <2>2 DEF IsPath, Holds
  <2>4. Len(pub.cw) = Len(r.input)
    BY <2>3 DEF IsPath
  <2> QED
    BY <1>3, <2>3, <2>4 DEF Sent, pub
<1> QED
  BY <1>2, <1>3

\* What a server holds at a prefix is what an evaluation of the whole prefix yields.
Kept(r, pub, id, held) ==
    \A p \in DOMAIN held : \E n \in 0..Len(pub.cw) :
        p \in [1..n -> Bit] /\ held[p] = Reached(id, pub, r, p)

\* What it holds after the evaluation of a child of parent.
Extended(r, pub, id, held, parent, p) ==
    [q \in DOMAIN held \cup {p} |->
        IF q = p THEN eval_next(id, pub, p, held[parent].state, r.nonce) ELSE held[q]]

\* An evaluation adds one prefix, a child of one that was there.
LEMMA KeptStep ==
  ASSUME NEW r, NEW pub, Len(pub.cw) \in Nat, NEW id, NEW held, Kept(r, pub, id, held),
         NEW parent \in DOMAIN held, NEW bit \in Bit,
         Len(Append(parent, bit)) <= Len(pub.cw)
  PROVE  Kept(r, pub, id, Extended(r, pub, id, held, parent, Append(parent, bit)))
<1> DEFINE p == Append(parent, bit)
           next == Extended(r, pub, id, held, parent, p)
<1>0. /\ DOMAIN next = DOMAIN held \cup {p}
      /\ next[p] = eval_next(id, pub, p, held[parent].state, r.nonce)
      /\ \A q \in DOMAIN held : q # p => next[q] = held[q]
  BY DEF Extended
<1> HIDE DEF next
<1>1. PICK m \in 0..Len(pub.cw) :
        parent \in [1..m -> Bit] /\ held[parent] = Reached(id, pub, r, parent)
  BY DEF Kept
<1> DEFINE n == m + 1
<1>2. /\ n \in Nat /\ n > 0 /\ n - 1 = m /\ parent \in Seq(Bit) /\ Len(parent) = m
      /\ parent \in [1..n - 1 -> Bit]
  BY <1>1
<1>3. p \in [1..n -> Bit] /\ Leads(n - 1, p, parent) /\ Len(p) = n
  <2>1. /\ p \in Seq(Bit) /\ Len(p) = m + 1 /\ \A i \in 1..m : p[i] = parent[i]
    BY <1>2, AppendProperties
  <2> HIDE DEF p
  <2>2. p \in [1..n -> Bit] /\ Len(p) = n
    BY <1>2, <2>1
  <2>3. Leads(n - 1, p, parent)
    BY <1>2, <2>1 DEF Leads
  <2> QED
    BY <2>2, <2>3
<1> HIDE DEF p
<1>4. n \in 0..Len(pub.cw)
  BY <1>2, <1>3 DEF p
<1> HIDE DEF n
<1>5. Reached(id, pub, r, p) = eval_next(id, pub, p, Reached(id, pub, r, parent).state, r.nonce)
  BY <1>2, <1>3, EvalStep DEF Reached
<1>6. next[p] = Reached(id, pub, r, p)
  BY <1>0, <1>1, <1>5
<1>7. ASSUME NEW q \in DOMAIN next
      PROVE  \E k \in 0..Len(pub.cw) : q \in [1..k -> Bit] /\ next[q] = Reached(id, pub, r, q)
  <2>1. CASE q = p
    BY <1>3, <1>4, <1>6, <2>1
  <2>2. CASE q # p
    <3>1. q \in DOMAIN held /\ next[q] = held[q]
      BY <1>0, <2>2
    <3> QED
      BY <3>1 DEF Kept
  <2> QED
    BY <2>1, <2>2
<1> QED
  BY <1>7 DEF Kept, next, p

\* The inductive invariant: nothing is said of a public share that was damaged.
IInv ==
    /\ report \in Reports
    /\ damage = "none" =>
        /\ public = [id \in Server |-> gen_with_keys(report)]
        /\ nodes = [id \in Server |-> nodes[id]]
        /\ \A id \in Server : Kept(report, gen_with_keys(report), id, nodes[id])

\* It holds when the servers have their keys and have evaluated nothing.
LEMMA IInvInit == ASSUME VidpfContract PROVE Init => IInv
<1> SUFFICES ASSUME Init, damage = "none"
             PROVE  /\ public = [id \in Server |-> gen_with_keys(report)]
                    /\ nodes = [id \in Server |-> nodes[id]]
                    /\ \A id \in Server : Kept(report, gen_with_keys(report), id, nodes[id])
  BY DEF Init, IInv
<1> DEFINE pub == gen_with_keys(report)
<1>1. public = [id \in Server |-> pub]
  BY DEF Init, Fields
<1>2. nodes = [id \in Server |-> [prefix \in {<<>>} |-> Root(id)]]
  BY DEF Init
<1>3. report \in Reports
  BY DEF Init
<1>4. Len(pub.cw) \in Nat
  <2>1. Sent(report, pub)
    BY <1>3, GenIs
  <2> QED
    BY <1>3, <2>1 DEF Sent, VidpfContract
<1> HIDE DEF pub
<1>5. ASSUME NEW id \in Server
      PROVE  Kept(report, pub, id, nodes[id])
  <2>1. nodes[id] = [prefix \in {<<>>} |-> Root(id)]
    BY <1>2
  <2>2. <<>> \in [1..0 -> Bit] /\ 0 \in 0..Len(pub.cw)
    BY <1>4
  <2>3. Reached(id, pub, report, <<>>)
          = [state |-> init_from_key(id, report.keys[id + 1]), share |-> zero]
    BY <2>2, EvalStart DEF Reached
  <2>4. Root(id) = Reached(id, pub, report, <<>>)
    BY <2>3 DEF Root, zero
  <2> QED
    BY <2>1, <2>2, <2>4 DEF Kept
<1> QED
  BY <1>1, <1>2, <1>5 DEF pub

\* Every evaluation preserves it.
LEMMA IInvNext == ASSUME VidpfContract PROVE IInv /\ [Next]_vars => IInv'
<1> SUFFICES ASSUME IInv, [Next]_vars
             PROVE  IInv'
  OBVIOUS
<1>1. CASE UNCHANGED vars
  <2>1. report' = report /\ public' = public /\ damage' = damage /\ nodes' = nodes
    BY <1>1 DEF vars
  <2> QED
    BY <2>1 DEF IInv
<1>2. ASSUME NEW id \in Server, NEW parent \in DOMAIN nodes[id], NEW bit \in {0, 1},
             EvalNext(id, parent, bit)
      PROVE  IInv'
  <2> DEFINE prefix == Append(parent, bit)
             pub == gen_with_keys(report)
             held == nodes[id]
             next == Extended(report, pub, id, held, parent, prefix)
  <2>1. report' = report /\ public' = public /\ damage' = damage
    BY <1>2 DEF EvalNext
  <2>2. report \in Reports
    BY DEF IInv
  <2>3. CASE damage # "none"
    BY <2>1, <2>2, <2>3 DEF IInv
  <2>4. CASE damage = "none"
    <3>1. /\ public = [i \in Server |-> pub] /\ nodes = [i \in Server |-> nodes[i]]
          /\ \A i \in Server : Kept(report, pub, i, nodes[i])
      BY <2>4 DEF IInv
    <3>2. public[id] = pub
      BY <3>1
    <3>3. Len(prefix) <= Len(pub.cw)
      BY <1>2, <3>2 DEF EvalNext
    <3>4. nodes' = [nodes EXCEPT ![id] = next]
      BY <1>2, <3>2 DEF EvalNext, Extended
    <3>5. nodes' = [i \in Server |-> IF i = id THEN next ELSE nodes[i]]
      <4> HIDE DEF next
      <4> QED
        BY <3>1, <3>4
    <3>6. Len(pub.cw) \in Nat
      <4>1. Sent(report, pub)
        BY <2>2, GenIs
      <4> QED
        BY <2>2, <4>1 DEF Sent, VidpfContract
    <3>7. Kept(report, pub, id, next)
      <4> HIDE DEF pub, held
      <4>1. Kept(report, pub, id, held) /\ parent \in DOMAIN held /\ bit \in Bit
        BY <3>1 DEF held, Bit
      <4> QED
        BY <3>3, <3>6, <4>1, KeptStep
    <3> HIDE DEF next, pub
    <3>8. ASSUME NEW i \in Server
          PROVE  Kept(report, pub, i, nodes'[i])
      BY <3>1, <3>5, <3>7
    <3>9. nodes' = [i \in Server |-> nodes'[i]]
      BY <3>5
    <3> QED
      BY <2>1, <2>2, <3>1, <3>8, <3>9 DEF IInv, pub
  <2> QED
    BY <2>3, <2>4
<1> QED
  BY <1>1, <1>2 DEF Next

\* A prefix in the sense of IsPrefix.
LEMMA LeadsIs ==
  ASSUME NEW m \in Nat, NEW n \in 1..m, NEW p \in [1..n -> Bit], NEW input \in [1..m -> Bit]
  PROVE  IsPrefix(p, input) <=> Leads(n, p, input)
<1>1. Len(p) = n /\ Len(input) = m /\ n \in 0..n /\ n \in Nat /\ n \in 0..m /\ n <= m
  OBVIOUS
<1> DEFINE x == SubSeq(p, 1, n)
           y == SubSeq(input, 1, n)
<1>2. IsPrefix(p, input) <=> x = y
  BY <1>1 DEF IsPrefix
<1>3. /\ x \in [1..n -> Bit] /\ \A k \in 1..n : x[k] = p[k]
      /\ y \in [1..n -> Bit] /\ \A k \in 1..n : y[k] = input[k]
  BY <1>1, Cut
<1> HIDE DEF x, y
<1>4. x = y <=> \A k \in 1..n : x[k] = y[k]
  BY <1>3
<1> QED
  BY <1>2, <1>3, <1>4 DEF Leads

\* At a prefix that both servers can evaluate with the public share they were sent, their shares
\* add up and their proofs agree.
LEMMA Agreement ==
  ASSUME VidpfContract, NEW r \in Reports, NEW pub, Sent(r, pub), NEW n \in 1..Len(pub.cw),
         NEW p \in [1..n -> Bit]
  PROVE  /\ Reached(0, pub, r, p).state.proof = Reached(1, pub, r, p).state.proof
         /\ merge_vector(Reached(0, pub, r, p).share, Reached(1, pub, r, p).share)
              = IF IsPrefix(p, r.input) THEN r.weight ELSE zero
<1>1. Accepted(r) /\ Len(pub.cw) = Len(r.input) /\ \E N : IsPath(N, pub, r)
  BY DEF Sent
<1>2. PICK N : IsPath(N, pub, r)
  BY <1>1
<1>3. n \in 0..Len(r.input) /\ n \in 1..Len(r.input) /\ n > 0 /\ Len(r.input) \in Nat
      /\ r.input \in [1..Len(r.input) -> Bit]
  BY <1>1 DEF VidpfContract, Bit
<1>4. Together(pub, r, N, n, p) /\ SharesAdd(pub, r, n, p)
  BY <1>1, <1>2, <1>3, Points
<1>5. IsPrefix(p, r.input) <=> Leads(n, p, r.input)
  BY <1>3, LeadsIs
<1>6. \E a, b, c, d, pi : /\ Reached(0, pub, r, p).state = At(a, b, pi)
                          /\ Reached(1, pub, r, p).state = At(c, d, pi)
  BY <1>4 DEF Together, Apart, Same
<1>7. Reached(0, pub, r, p).state.proof = Reached(1, pub, r, p).state.proof
  BY <1>6 DEF At
<1> QED
  BY <1>4, <1>5, <1>7 DEF SharesAdd

\* For every field, length of weights and extendable-output function, whatever prefixes the two
\* servers evaluate, each on its own and in any order that follows the tree: with the public
\* share that the client sent, the states a server keeps between the levels lead where an
\* evaluation of the whole prefix leads; at a prefix both evaluated, the shares add up to the
\* client's weight on the path of its input and to zero off it, and the proofs are the same
\* (gen_with_keys, eval_next and eval of src/vidpf.rs).
THEOREM VidpfSharesArePointFunction == ASSUME VidpfContract PROVE Spec => []VidpfPointFunction
<1>1. IInv => VidpfPointFunction
  <2> SUFFICES ASSUME IInv, damage = "none"
               PROVE  VidpfPointFunction
    BY DEF VidpfPointFunction
  <2> DEFINE pub == gen_with_keys(report)
  <2>1. /\ report \in Reports /\ public = [id \in Server |-> pub]
        /\ \A id \in Server : Kept(report, pub, id, nodes[id])
    BY DEF IInv
  <2>2. Sent(report, pub)
    BY <2>1, GenIs
  <2> HIDE DEF pub
  <2>3. 0 \in Server /\ 1 \in Server /\ \A id \in Server : public[id] = pub
    BY <2>1 DEF Server
  <2>4. ASSUME NEW id \in Server, NEW p \in DOMAIN nodes[id]
        PROVE  \E n \in 0..Len(pub.cw) : p \in [1..n -> Bit] /\ nodes[id][p] = Reached(id, pub, report, p)
    BY <2>1 DEF Kept
  <2>5. ASSUME NEW id \in Server, NEW p \in DOMAIN nodes[id]
        PROVE  nodes[id][p] = eval(id, public[id], report.keys[id + 1], p, report.nonce)
    BY <2>3, <2>4 DEF Reached
  <2>6. ASSUME NEW p \in Both
        PROVE  Sum(p) = Expected(p) /\ SameProof(p)
    <3>1. p \in DOMAIN nodes[0] /\ p \in DOMAIN nodes[1] /\ p # <<>>
      BY DEF Both
    <3>2. /\ nodes[0][p] = Reached(0, pub, report, p) /\ nodes[1][p] = Reached(1, pub, report, p)
          /\ \E n \in 0..Len(pub.cw) : p \in [1..n -> Bit]
      BY <2>3, <2>4, <3>1
    <3>3. PICK n \in 0..Len(pub.cw) : p \in [1..n -> Bit]
      BY <3>2
    <3>4. n \in 1..Len(pub.cw)
      <4>1. CASE n = 0
        <5>1. p = <<>>
          BY <3>3, <4>1
        <5> QED
          BY <3>1, <5>1
      <4> QED
        BY <4>1
    <3>5. /\ Reached(0, pub, report, p).state.proof = Reached(1, pub, report, p).state.proof
          /\ merge_vector(Reached(0, pub, report, p).share, Reached(1, pub, report, p).share)
               = IF IsPrefix(p, report.input) THEN report.weight ELSE zero
      BY <2>1, <2>2, <3>3, <3>4, Agreement
    <3> QED
      BY <3>2, <3>5 DEF Sum, Expected, SameProof, zero
  <2> QED
    BY <2>5, <2>6 DEF VidpfPointFunction
<1> QED
  BY <1>1, IInvInit, IInvNext, PTL DEF Spec
=============================================================================
