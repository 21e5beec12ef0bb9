--------------------------- MODULE MCWideModulus ----------------------------
(***************************************************************************)
(* A prime below R = 1024 with no room for a word between them.  Words of  *)
(* five bits, the shortest for which such a prime shows what is lost.      *)
(* Products are all that is computed.                                      *)
(***************************************************************************)
EXTENDS Montgomery

MCModuli == {[p |-> 1021, words |-> 2]}

MCSpec == Init /\ [][\E k \in 0..fp.p - 1 : Mul(k)]_vars
=============================================================================
