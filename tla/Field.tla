------------------------------- MODULE Field --------------------------------
(***************************************************************************)
(* The prime fields of src/field.rs: elements are the integers modulo P.   *)
(* A field suited to the FFT has a generator of a subgroup whose order is  *)
(* a power of two.                                                         *)
(***************************************************************************)
EXTENDS Integers, SequencesExt

CONSTANT P   \* the field modulus

ASSUME ModulusAssumption == P \in Nat /\ P > 2

F == 0..P - 1

\* The sequence s itself.  TLC evaluates the elements of a concatenation once, where it
\* evaluates those of a function expression at every use.
Evaluated(s) == s \o <<>>

SumOver(f(_), seq) == FoldLeft(LAMBDA acc, x : (acc + f(x)) % P, 0, seq)

pow(x, n) == FoldLeft(LAMBDA acc, i : (acc * x) % P, 1, [i \in 1..n |-> i])
inv(x) == CHOOSE y \in F : (x * y) % P = 1

merge_vector(x, y) == Evaluated([i \in DOMAIN x |-> (x[i] + y[i]) % P])
sum_vectors(vs) == FoldLeft(merge_vector, vs[1], Tail(vs))
sub_vector(x, y) == Evaluated([i \in DOMAIN x |-> (x[i] - y[i]) % P])

\* Least significant bit first; decoding is an inner product with the powers of
\* two, so that it applies to secret shares of the bits as well.
encode_as_bitvector(input, bits) == [i \in 1..bits |-> (input \div 2^(i - 1)) % 2]
decode_bitvector(input) ==
    SumOver(LAMBDA i : input[i] * pow(2, i - 1), [i \in DOMAIN input |-> i])

\* A field element is encoded in `size` bytes, the least significant first, and a vector by
\* its elements; how many there are, the decoder is told.  A byte has Radix values, fewer
\* than in the code, so that elements of a small field take several.
Radix == 4
encode_elem(x, size) == [k \in 1..size |-> (x \div Radix^(k - 1)) % Radix]
decode_elem(bytes) == FoldRight(LAMBDA b, acc : Radix * acc + b, bytes, 0)
encode_fieldvec(v, size) == FlattenSeq([i \in DOMAIN v |-> encode_elem(v[i], size)])
decode_fieldvec(count, size, bytes) ==
    Evaluated([i \in 1..count |-> decode_elem(SubSeq(bytes, (i - 1) * size + 1, i * size))])

\* Polynomials are given by their coefficients, the constant term first.  A product has no
\* leading zeros; the zero polynomial has one coefficient.
poly_eval(poly, x) == FoldRight(LAMBDA c, acc : (acc * x + c) % P, poly, 0)

poly_deg(p) == Max({0} \cup {d \in 1..Len(p) - 1 : p[d + 1] # 0})

truncate_poly(p) == SubSeq(p, 1, poly_deg(p) + 1)

poly_mul(p, q) ==
    truncate_poly(Evaluated([k \in 1..Len(p) + Len(q) - 1 |->
        SumOver(LAMBDA i : IF k - i + 1 \in DOMAIN q THEN p[i] * q[k - i + 1] ELSE 0,
                [i \in DOMAIN p |-> i])]))
=============================================================================
