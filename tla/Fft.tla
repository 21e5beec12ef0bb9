-------------------------------- MODULE Fft ---------------------------------
(***************************************************************************)
(* The iterative transform of src/fft.rs.  Index x of the code's buffer is *)
(* position x + 1 of a sequence.                                           *)
(***************************************************************************)
EXTENDS Field

CONSTANTS
    Generator,   \* a generator of the subgroup of order 2^LogOrder
    LogOrder

ASSUME RootAssumption ==
    /\ Generator \in F /\ LogOrder \in Nat \ {0}
    /\ pow(Generator, 2^(LogOrder - 1)) = P - 1

\* The principal 2^l-th root of unity.
root(l) == pow(Generator, 2^(LogOrder - l))

\* The smallest l with 2^l >= x, and the smallest such power.
log2(x) == CHOOSE l \in 0..x : 2^l >= x /\ \A k \in 0..l - 1 : 2^k < x
next_power_of_two(x) == 2^log2(x)

\* The d low bits of x in reverse order.
bitrev(d, x) ==
    LET bit(i) == (x \div 2^i) % 2
    IN  FoldLeft(LAMBDA acc, i : 2 * acc + bit(i - 1), 0, [i \in 1..d |-> i])

\* The buffer before the first level: the input, padded with zeros, in bit-reversed order.
permuted(inp, size) ==
    LET at(x) == bitrev(log2(size), x)
    IN  Evaluated([i \in 1..size |->
            IF at(i - 1) < Len(inp) THEN inp[at(i - 1) + 1] ELSE 0])

\* Fault: the twiddle factor is not advanced within a level.
butterflies_untwiddled(outp, l) ==
    LET y == 2^(l - 1)
    IN  Evaluated([x \in DOMAIN outp |->
            IF (x - 1) % 2^l < y
            THEN (outp[x] + outp[x + y]) % P
            ELSE (outp[x - y] - outp[x]) % P])

\* One level: element i of a block of 2^l is combined with the one half a block
\* further, scaled by the i-th power of the 2^l-th root.
butterflies(outp, l) ==
    LET y == 2^(l - 1)
        r == root(l)
        i(x) == (x - 1) % 2^l
    IN  Evaluated([x \in DOMAIN outp |->
            IF i(x) < y
            THEN (outp[x] + pow(r, i(x)) * outp[x + y]) % P
            ELSE (outp[x - y] - pow(r, i(x) - y) * outp[x]) % P])

discrete_fourier_transform(inp, size) ==
    FoldLeft(butterflies, permuted(inp, size), [l \in 1..log2(size) |-> l])

\* Fault: the elements are scaled but not exchanged.
inv_finish_unswapped(outp, size) ==
    LET size_inv == inv(size)
    IN  Evaluated([i \in 1..size |-> (outp[i] * size_inv) % P])

\* Scales every element by 1/size and exchanges the elements x and size - x.
inv_finish(outp, size) ==
    LET size_inv == inv(size)
        other(i) == IF i = 1 THEN 1 ELSE size - i + 2
    IN  Evaluated([i \in 1..size |-> (outp[other(i)] * size_inv) % P])

\* The coefficients of the polynomial with the given values at the powers of the
\* root of unity, the missing ones being zero.
interpolate(values, size) == inv_finish(discrete_fourier_transform(values, size), size)
=============================================================================
