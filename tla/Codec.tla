------------------------------- MODULE Codec --------------------------------
(***************************************************************************)
(* The wire encoding of src/codec.rs and of the messages built with it:    *)
(* ping-pong messages, the messages and the prepare state of Prio3 and     *)
(* Poplar1, and the public share of the IDPF.                              *)
(*                                                                         *)
(* An encoder appends to a buffer [ok, bytes]; after an error nothing more *)
(* is appended (the `?` of the code).  A decoder reads bytes from a cursor *)
(* position, the number of bytes read, and gives the value and the new     *)
(* position, or the position Failed, from which nothing is read any more.  *)
(***************************************************************************)
EXTENDS Integers, SequencesExt

CONSTANTS
    ByteBits,     \* the bits of a byte (8 in the code)
    SeedSize,     \* the bytes of a Seed<SEED_SIZE>
    IdpfSeedSize  \* the bytes of a seed of the IDPF (16 in the code)

Radix == 2^ByteBits
Byte == 0..Radix - 1
Failed == -1

-----------------------------------------------------------------------------
\* Encoders and decoders of single values.
append(buf, s) == IF buf.ok THEN [buf EXCEPT !.bytes = @ \o s] ELSE buf

Decoded(value, pos) == [value |-> value, pos |-> pos]
Refused == Decoded(<<>>, Failed)

\* The `?` after a call that decodes: go on with the value and from the position it gave.
Then(read, K(_, _)) == IF read.pos = Failed THEN Refused ELSE K(read.value, read.pos)

read_exact(n, bytes, pos) ==
    IF pos # Failed /\ pos + n <= Len(bytes)
    THEN Decoded(SubSeq(bytes, pos + 1, pos + n), pos + n)
    ELSE Refused

\* Unsigned integers of n bytes, the most significant byte first.
encode_uint(n, x) == [k \in 1..n |-> (x \div Radix^(n - k)) % Radix]
decode_uint(n, bytes, pos) ==
    Then(read_exact(n, bytes, pos), LAMBDA v, p :
        Decoded(FoldLeft(LAMBDA acc, b : Radix * acc + b, 0, v), p))

encode_byte(x) == encode_uint(1, x)
decode_byte(bytes, pos) == decode_uint(1, bytes, pos)

\* Elements of a field [modulus, size], the least significant byte first.
encode_elem(field, x) == [k \in 1..field.size |-> (x \div Radix^(k - 1)) % Radix]

try_from_bytes(field, x, pos) == IF x < field.modulus THEN Decoded(x, pos) ELSE Refused
decode_elem(field, bytes, pos) ==
    Then(read_exact(field.size, bytes, pos), LAMBDA v, p :
        try_from_bytes(field, FoldRight(LAMBDA b, acc : Radix * acc + b, v, 0), p))

\* A value that is present only for some instances (Option<Seed>): <<seed>> or <<>>.
encode_option(seed) == FlattenSeq(seed)
decode_option(present, bytes, pos) ==
    IF present THEN Then(read_exact(SeedSize, bytes, pos), LAMBDA seed, p : Decoded(<<seed>>, p))
    ELSE Decoded(<<>>, pos)

\* A known number of values, one after another.
encode_all(E(_), seq) == FlattenSeq([i \in DOMAIN seq |-> E(seq[i])])
decode_all(n, D(_, _), bytes, pos) ==
    LET after[k \in 0..n] ==
            IF k = 0 THEN Decoded(<<>>, pos)
            ELSE Then(after[k - 1], LAMBDA items, p :
                    Then(D(bytes, p), LAMBDA item, q : Decoded(Append(items, item), q)))
    IN  after[n]

encode_elems(field, v) == encode_all(LAMBDA x : encode_elem(field, x), v)
decode_elems(n, field, bytes, pos) ==
    decode_all(n, LAMBDA b, p : decode_elem(field, b, p), bytes, pos)

-----------------------------------------------------------------------------
\* Vectors with a length prefix of n bytes (n in 1..4): the prefix counts the bytes of the
\* items.  It is written once the items are; a list it cannot count is an error that leaves
\* a prefix of zero and the items in the buffer.

encode_items(n, buf, items) ==
    LET written == append(append(buf, encode_uint(n, 0)), items)
        len_offset == Len(buf.bytes)
        len == Len(written.bytes) - len_offset - n
    IN  IF ~buf.ok THEN buf
        ELSE IF len \div Radix^(n - 1) >= Radix THEN [written EXCEPT !.ok = FALSE]
        ELSE [ok |-> TRUE, bytes |-> SubSeq(written.bytes, 1, len_offset)
                  \o encode_uint(n, len) \o SubSeq(written.bytes, len_offset + n + 1, Len(written.bytes))]

\* The items of the lists in use: bytes, or seeds.
decode_item(of, bytes, pos) ==
    IF of = "byte" THEN decode_byte(bytes, pos) ELSE read_exact(SeedSize, bytes, pos)

\* The items from a position to the end of the bytes.
items_to_end(of, bytes, pos) ==
    LET from[p \in 0..Len(bytes)] ==
            IF p = Len(bytes) THEN Decoded(<<>>, p)
            ELSE Then(decode_item(of, bytes, p), LAMBDA item, q :
                    Then(from[q], LAMBDA items, end : Decoded(<<item>> \o items, end)))
    IN  from[pos]

\* As many items as the prefix has bytes for, read from those bytes only.
decode_items(n, of, bytes, pos) ==
    Then(decode_uint(n, bytes, pos), LAMBDA len, p :
        IF p + len > Len(bytes) THEN Refused ELSE items_to_end(of, SubSeq(bytes, 1, p + len), p))

\* get_decoded: bytes left over after the value are an error.
all_read(r, bytes) == IF r.pos = Len(bytes) THEN r ELSE Refused
=============================================================================
