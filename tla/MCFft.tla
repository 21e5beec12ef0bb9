------------------------------- MODULE MCFft --------------------------------
(***************************************************************************)
(* The transform run level by level on one buffer, forwards and then as    *)
(* the first half of an inverse transform, the way flp.rs interpolates.    *)
(***************************************************************************)
EXTENDS Fft

CONSTANTS
    Sizes,      \* the sizes to transform, powers of two
    MCValues    \* the field elements inputs are made of

VARIABLES
    inp,    \* the input: no longer than the size
    size,
    outp,   \* the buffer
    l,      \* the level done last
    pass    \* "forward", "inverse", or "done"

vars == <<inp, size, outp, l, pass>>

Init ==
    /\ size \in Sizes
    /\ inp \in UNION {[1..n -> MCValues] : n \in 1..size}
    /\ outp = permuted(inp, size)
    /\ l = 0
    /\ pass = "forward"

Level ==
    /\ pass # "done" /\ l < log2(size)
    /\ l' = l + 1
    /\ outp' = butterflies(outp, l + 1)
    /\ UNCHANGED <<inp, size, pass>>

\* The values just computed are transformed again, to be interpolated.
Reload ==
    /\ pass = "forward" /\ l = log2(size)
    /\ l' = 0
    /\ outp' = permuted(outp, size)
    /\ pass' = "inverse"
    /\ UNCHANGED <<inp, size>>

Finish ==
    /\ pass = "inverse" /\ l = log2(size)
    /\ outp' = inv_finish(outp, size)
    /\ pass' = "done"
    /\ UNCHANGED <<inp, size, l>>

Next == Level \/ Reload \/ Finish

Spec == Init /\ [][Next]_vars

-----------------------------------------------------------------------------
\* After level l of the forward pass, every block of 2^l elements holds the values,
\* at the powers of the 2^l-th root, of the polynomial whose coefficients are the
\* inputs with that block's residue: the loop invariant of the levels of
\* discrete_fourier_transform.
BlocksAreTransforms ==
    pass = "forward" =>
        \A block \in 0..(size \div 2^l) - 1, k \in 0..2^l - 1 :
            LET stride == size \div 2^l
                first == bitrev(log2(stride), block)
                coefficient(j) ==
                    IF first + j * stride < Len(inp) THEN inp[first + j * stride + 1] ELSE 0
            IN  outp[block * 2^l + k + 1]
                  = poly_eval([j \in 1..2^l |-> coefficient(j - 1)], pow(root(l), k))

\* The inverse transform gives back the coefficients the forward one was given: what
\* prove and query interpolate has the recorded values at the roots of unity.
InverseRestores ==
    pass = "done" =>
        \A i \in 1..size : outp[i] = IF i <= Len(inp) THEN inp[i] ELSE 0
=============================================================================
