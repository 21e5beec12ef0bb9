------------------------------- MODULE MCPrng -------------------------------
(***************************************************************************)
(* Bytes of two bits, blocks of five bytes, buffers of three elements, and   *)
(* three fields of one, two and three bytes, so that every left-over       *)
(* length occurs and chunks lie across block boundaries everywhere.        *)
(***************************************************************************)
EXTENDS Prng

MCStreams ==
  { [c \in 0..4 |-> [i \in 1..5 |-> ((a * (5 * c + i) * (5 * c + i) + (5 * c + i)) \div 3) % 4]] :
      a \in {1, 2, 5} }

MCFields ==
  { [ENCODED_SIZE |-> 1, mask |-> 4, modulus |-> 3],
    [ENCODED_SIZE |-> 2, mask |-> 8, modulus |-> 5],
    [ENCODED_SIZE |-> 3, mask |-> 64, modulus |-> 37] }
=============================================================================
