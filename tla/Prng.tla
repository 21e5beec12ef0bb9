-------------------------------- MODULE Prng --------------------------------
(***************************************************************************)
(* Field elements drawn from a seed stream: `Prng` (prng.rs), a buffer in  *)
(* front of a seed stream, with a fixed-key stream (vdaf/xof.rs) behind    *)
(* it. The stream is made block by block and read at any length; the       *)
(* buffer is cut into chunks of the encoded size of the field, chunks that *)
(* are no element are rejected, and into_new_field changes the field, and  *)
(* with it the size of a chunk, while bytes are left in the buffer.        *)
(*                                                                         *)
(* A byte is a digit in base Byte. The blocks repeat after Blocks of them, *)
(* which keeps positions in the stream finite; nothing else is bounded.    *)
(***************************************************************************)
EXTENDS Integers, Sequences, SequencesExt, FiniteSetsExt

CONSTANTS
  Byte,                     \* the base of a byte: 256 in the code
  BlockSize,                \* bytes in a block of the seed stream: 16 in the code
  Blocks,                   \* the number of blocks after which the model's stream repeats
  Streams,                  \* the streams considered, each a function from counters to blocks
  Fields,                   \* records: ENCODED_SIZE, mask (a power of two) and modulus
  BUFFER_SIZE_IN_ELEMENTS   \* 32 in the code

Period == BlockSize * Blocks

VARIABLES
  stream,           \* the blocks that the cipher yields, by counter
  length_consumed,  \* bytes drawn from the stream, modulo Period
  field,            \* the field of the generator
  buffer,           \* bytes drawn and not all used
  buffer_index,     \* bytes of the buffer that are used
  getting,          \* get is running
  value,            \* what the last get returned
  cursor,           \* history: where a reader without a buffer stands in the stream
  expected          \* history: what that reader got last

vars == <<stream, length_consumed, field, buffer, buffer_index, getting, value,
          cursor, expected>>

-----------------------------------------------------------------------------
(* The seed stream.                                                        *)

\* The block of a counter: the base block and the counter, hashed under the fixed key.
hash_block(s, block_counter) == s[block_counter % Blocks]

\* The bytes that fill puts into a buffer of length len when consumed bytes have been read: the
\* blocks in question, the first from an offset, the last as far as the buffer reaches.
fill(s, consumed, len) ==
  LET first == consumed \div BlockSize
      beyond == (consumed + len + BlockSize - 1) \div BlockSize
      copy(buf, c) ==
        LET offset == IF c = first THEN consumed % BlockSize ELSE 0
            read == Min({BlockSize - offset, len - Len(buf)})
        IN  buf \o SubSeq(hash_block(s, c), offset + 1, offset + read)
  IN  FoldLeft(copy, <<>>, [k \in 1..(beyond - first) |-> first + k - 1])

-----------------------------------------------------------------------------
(* Field elements from bytes.                                              *)

\* The integer, little-endian, that bytes stand for, and try_from_random's mask on it.
masked(f, bytes) ==
  FoldRight(LAMBDA b, n : b + (Byte * n), bytes, 0) % f.mask

\* from_random_rejection: the element (Break), or a rejection (Continue).
accepts(f, bytes) == masked(f, bytes) < f.modulus

\* The byte at a position of the stream, for the reader without a buffer.
byte_at(s, p) == s[(p \div BlockSize) % Blocks][(p % BlockSize) + 1]

chunk_at(s, p, size) == [i \in 1..size |-> byte_at(s, p + i - 1)]

\* generate_random: fresh bytes of one element at a time, until they are one.
generate_random(s, p, f) ==
  LET tries == {k \in 0..Period - 1 :
                  accepts(f, chunk_at(s, p + k * f.ENCODED_SIZE, f.ENCODED_SIZE))}
      k == Min(tries)
  IN  [element |-> masked(f, chunk_at(s, p + k * f.ENCODED_SIZE, f.ENCODED_SIZE)),
       next |-> (p + (k + 1) * f.ENCODED_SIZE) % Period]

ASSUME SizeAssumption ==
  /\ BlockSize \in Nat \ {0} /\ Blocks \in Nat \ {0} /\ BUFFER_SIZE_IN_ELEMENTS \in Nat \ {0}
  /\ \A f \in Fields : f.ENCODED_SIZE \in Nat \ {0}

\* The streams repeat, so a field none of whose elements is ever met has to be left out;
\* a chunk of any field fits the buffer of any other, as 32 times the smallest exceeds the largest.
ASSUME StreamAssumption ==
  /\ \A s \in Streams : s \in [0..Blocks - 1 -> [1..BlockSize -> 0..Byte - 1]]
  /\ \A s \in Streams, f \in Fields, p \in 0..Period - 1 : \E k \in 0..Period - 1 :
        accepts(f, chunk_at(s, p + k * f.ENCODED_SIZE, f.ENCODED_SIZE))
  /\ \A f, g \in Fields : g.ENCODED_SIZE <= BUFFER_SIZE_IN_ELEMENTS * f.ENCODED_SIZE

-----------------------------------------------------------------------------
\* from_seed_stream: the buffer is full at once.
Init ==
  /\ stream \in Streams
  /\ field \in Fields
  /\ buffer = fill(stream, 0, BUFFER_SIZE_IN_ELEMENTS * field.ENCODED_SIZE)
  /\ length_consumed = (BUFFER_SIZE_IN_ELEMENTS * field.ENCODED_SIZE) % Period
  /\ buffer_index = 0
  /\ getting = FALSE
  /\ cursor = 0
  /\ value = 0 /\ expected = 0

\* get is called.
Get ==
  /\ ~getting
  /\ getting' = TRUE
  /\ LET r == generate_random(stream, cursor, field)
     IN  cursor' = r.next /\ expected' = r.element
  /\ UNCHANGED <<stream, length_consumed, field, buffer, buffer_index, value>>

chunk_fits == buffer_index + field.ENCODED_SIZE <= Len(buffer)

\* Fault: the position is advanced for an element only, not for a rejected chunk.
Sample_stays_on_reject ==
  /\ getting /\ chunk_fits
  /\ LET j == buffer_index + field.ENCODED_SIZE
         bytes == SubSeq(buffer, buffer_index + 1, j)
     IN  \/ accepts(field, bytes) /\ value' = masked(field, bytes) /\ getting' = FALSE
            /\ buffer_index' = j
         \/ ~accepts(field, bytes) /\ UNCHANGED <<value, getting, buffer_index>>
  /\ UNCHANGED <<stream, length_consumed, field, buffer, cursor, expected>>

\* One turn of get's inner loop: the next chunk is the result or is rejected.
Sample ==
  /\ getting /\ chunk_fits
  /\ LET j == buffer_index + field.ENCODED_SIZE
         bytes == SubSeq(buffer, buffer_index + 1, j)
     IN  /\ buffer_index' = j
         /\ \/ accepts(field, bytes) /\ value' = masked(field, bytes) /\ getting' = FALSE
            \/ ~accepts(field, bytes) /\ UNCHANGED <<value, getting>>
  /\ UNCHANGED <<stream, length_consumed, field, buffer, cursor, expected>>

\* Fault: the whole buffer is filled, and what was left is lost.
Refresh_drops_left_over ==
  /\ getting /\ ~chunk_fits
  /\ buffer' = fill(stream, length_consumed, Len(buffer))
  /\ length_consumed' = (length_consumed + Len(buffer)) % Period
  /\ buffer_index' = 0
  /\ UNCHANGED <<stream, field, getting, value, cursor, expected>>

\* The end of the outer loop: what is left moves to the front, the rest is filled.
Refresh ==
  /\ getting /\ ~chunk_fits
  /\ LET left_over == SubSeq(buffer, buffer_index + 1, Len(buffer))
         wanted == Len(buffer) - Len(left_over)
     IN  /\ buffer' = left_over \o fill(stream, length_consumed, wanted)
         /\ length_consumed' = (length_consumed + wanted) % Period
  /\ buffer_index' = 0
  /\ UNCHANGED <<stream, field, getting, value, cursor, expected>>

\* into_new_field: everything is kept but the type.
IntoNewField ==
  /\ ~getting
  /\ \E f \in Fields \ {field} : field' = f
  /\ UNCHANGED <<stream, length_consumed, buffer, buffer_index, getting, value, cursor, expected>>

Next == Get \/ Sample \/ Refresh \/ IntoNewField

\* A call of get runs to its end: its loop is never suspended.
Spec == Init /\ [][Next]_vars /\ WF_vars(Sample \/ Refresh)

-----------------------------------------------------------------------------
(* Between two calls of get the buffer cannot be observed: the last        *)
(* element is the one that generate_random finds without a buffer, and     *)
(* what is unread, however many fields the buffer has served, is the       *)
(* stream from where that reader stands, continued by the next fill. So    *)
(* no byte is skipped or used twice at a refill (prng.rs:96-102) or at a   *)
(* block boundary (xof.rs:409-430), and two readers of one stream draw the *)
(* same elements.                                                          *)
BufferIsInvisible ==
  LET unread == Len(buffer) - buffer_index
  IN  ~getting =>
        /\ value = expected
        /\ \A i \in 1..unread : buffer[buffer_index + i] = byte_at(stream, cursor + i - 1)
        /\ length_consumed = (cursor + unread) % Period

(* Every call of get returns: the loop never spins without drawing bytes,  *)
(* whatever the field left in the buffer (prng.rs:79-102).                 *)
GetReturns == getting ~> ~getting
=============================================================================
