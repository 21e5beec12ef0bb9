----------------------------- MODULE Montgomery -----------------------------
(***************************************************************************)
(* The arithmetic under the fields of src/field.rs: src/fp.rs for moduli   *)
(* of two words and src/fp64.rs for moduli of one.  An element is stored   *)
(* in the Montgomery domain.  Integers have the width of the words they    *)
(* are made of and wrap around; a word has fewer bits than in the code.    *)
(*                                                                         *)
(* An element is computed with, from an integer on, by a sequence of       *)
(* operations, along with the integer it stands for.                       *)
(***************************************************************************)
EXTENDS Integers, Sequences

CONSTANTS
    B,        \* the values that a word has (2^64 in the code)
    Moduli    \* records [p, words]: a modulus and the words that integers have

ASSUME WordAssumption == B \in Nat /\ B > 1

\* The values of the integers that elements are stored in: of one word or of two.
R(f) == IF f.words = 1 THEN B ELSE B * B
lo(x) == x % B
hi(x) == x \div B
words(x, n) == [k \in 1..n |-> IF k = 1 THEN lo(x) ELSE hi(x)]

\* mu = -p^(-1) mod B.
IsMu(mu, m) == (mu * m.p + 1) % B = 0

ASSUME ModuliAssumption ==
    \A m \in Moduli :
        m.words \in {1, 2} /\ m.p \in 3..R(m) - 1 /\ \E mu \in 0..B - 1 : IsMu(mu, m)

\* The constants of FieldParameters, with r2 = R^2 mod p.
FieldParameters(m) ==
    [p |-> m.p, words |-> m.words,
     mu |-> CHOOSE mu \in 0..B - 1 : IsMu(mu, m),
     r2 |-> (R(m) * R(m)) % m.p]

\* Fault: the carry above the highest word is not looked at.
subtract_once_uncarried(f, carry, z) == IF z < f.p THEN z ELSE z - f.p

\* The result of an operation, carry and z, less p unless that borrows.
subtract_once(f, carry, z) == IF carry = 0 /\ z < f.p THEN z ELSE (z - f.p) % R(f)

add(f, x, y) == subtract_once(f, (x + y) \div R(f), (x + y) % R(f))

sub(f, x, y) == LET z == (x - y) % R(f) IN IF x < y THEN (z + f.p) % R(f) ELSE z
neg(f, x) == sub(f, 0, x)
modp(f, x) == IF x < f.p THEN x ELSE x - f.p

\* Adds w times the words a to zz from word `at` on; the carry runs on to the highest word
\* and out of it.  No sum is too large for two words.
add_row(zz, a, w, at) ==
    LET term(k) == zz[k] + (IF k - at + 1 \in DOMAIN a THEN a[k - at + 1] * w ELSE 0)
        carry[k \in 0..Len(zz)] == IF k < at THEN 0 ELSE hi(term(k) + carry[k - 1])
    IN  [zz |-> [k \in 1..Len(zz) |-> IF k < at THEN zz[k] ELSE lo(term(k) + carry[k - 1])],
         carry |-> carry[Len(zz)]]

\* The integer product, one row per word of x.
product(f, x, y) ==
    LET xs == words(x, f.words)
        ys == words(y, f.words)
        first == add_row([k \in 1..2 * f.words |-> 0], ys, xs[1], 1).zz
    IN  IF f.words = 1 THEN first ELSE add_row(first, ys, xs[2], 2).zz

\* A multiple of p makes word i zero.
reduce(f, zz, i) == add_row(zz, words(f.p, f.words), (f.mu * zz[i]) % B, i)

\* Montgomery multiplication: the low words become zero, one after another; the high words
\* are the result.  What the first of two rows carries out of the highest word is lost.
mul(f, x, y) ==
    LET first == reduce(f, product(f, x, y), 1)
        second == reduce(f, first.zz, 2)
    IN  IF f.words = 1
        THEN subtract_once(f, first.carry, first.zz[2])
        ELSE subtract_once(f, second.carry, second.zz[3] + B * second.zz[4])

montgomery(f, x) == modp(f, mul(f, x, f.r2))
residue(f, x) == modp(f, mul(f, x, 1))

\* exp >> k, by k.
shifted(exp) ==
    LET s[k \in Nat] == IF k = 0 THEN exp ELSE s[k - 1] \div 2
    IN  s
bit_length(exp) == CHOOSE l \in 0..exp : shifted(exp)[l] = 0 /\ (l > 0 => shifted(exp)[l - 1] # 0)

\* Square and multiply, from the highest bit of the exponent that is set.
pow(f, x, exp) ==
    LET n == bit_length(exp)
        step(t, i) == IF shifted(exp)[n - i] % 2 = 1 THEN mul(f, mul(f, t, t), x) ELSE mul(f, t, t)
        t[i \in 0..n] == IF i = 0 THEN montgomery(f, 1) ELSE step(t[i - 1], i)
    IN  t[n]
inv(f, x) == pow(f, x, f.p - 2)

-----------------------------------------------------------------------------
VARIABLES fp,   \* the parameters of a field
          x,    \* an element, as it is stored
          n     \* the integer it stands for
vars == <<fp, x, n>>

\* The powers of k modulo p, by exponent.
powers(k, p) ==
    LET q[e \in Nat] == IF e = 0 THEN 1 ELSE (q[e - 1] * k) % p
    IN  q

\* From<integer>: any integer of the width, reduced.
Init ==
    /\ fp \in {FieldParameters(m) : m \in Moduli}
    /\ \E k \in 0..R(fp) - 1 : x = montgomery(fp, k) /\ n = k % fp.p

Becomes(elem, value) == x' = elem /\ n' = value % fp.p /\ UNCHANGED fp

Add(k) == Becomes(add(fp, x, montgomery(fp, k)), n + k)
Sub(k) == Becomes(sub(fp, x, montgomery(fp, k)), n - k)
Mul(k) == Becomes(mul(fp, x, montgomery(fp, k)), n * k)
Neg == Becomes(neg(fp, x), -n)

\* The inverse of zero is zero.
inverse(k) == IF k = 0 THEN 0 ELSE CHOOSE m \in 0..fp.p - 1 : (k * m) % fp.p = 1
Inv == Becomes(inv(fp, x), inverse(n))
Div(k) == Becomes(mul(fp, x, inv(fp, montgomery(fp, k))), n * inverse(k))
Pow(k) == Becomes(pow(fp, x, k), powers(n, fp.p)[k])

\* An element is encoded as its integer; bytes that are not below p are refused.
Reload ==
    /\ residue(fp, x) < fp.p
    /\ Becomes(montgomery(fp, residue(fp, x)), n)

Next ==
    \/ \E k \in 0..fp.p - 1 : Add(k) \/ Sub(k) \/ Mul(k) \/ Div(k) \/ Pow(k)
    \/ Neg \/ Inv \/ Reload

Spec == Init /\ [][Next]_vars

-----------------------------------------------------------------------------
\* What the shipped moduli have.  They are prime: a number that is not a multiple has one as
\* its (p - 1)st power, so that inv may compute the power before it.  And two words leave
\* room for a word above them.
PrimeModuli == \A m \in Moduli : \A k \in 1..m.p - 1 : powers(k, m.p)[m.p - 1] = 1
RoomAbove == \A m \in Moduli : m.words = 2 => m.p + B <= R(m)

\* After any sequence of operations the stored integer is below p, stands for the integer that
\* the operations give modulo p, and is the only one that does: elements can be compared and
\* hashed by what is stored (the invariant of make_field! that eq and hash assert).
FieldIsExact ==
    /\ x \in 0..fp.p - 1
    /\ residue(fp, x) = n
    /\ x = montgomery(fp, n)
=============================================================================
