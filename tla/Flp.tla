-------------------------------- MODULE Flp ---------------------------------
(***************************************************************************)
(* The fully linear proofs of src/flp.rs and the measurement types of      *)
(* src/flp/types.rs.  A type is a record of its parameters; it has one or  *)
(* two gadgets of degree 2, each called a fixed number of times on wires   *)
(* that do not depend on the gadgets' outputs.  A validity circuit is      *)
(* therefore its wires, the inputs of all the gadget calls, and an output  *)
(* that is affine in the outputs of the calls.  Vectors have the lengths   *)
(* their decoders fixed, so that the length checks of prove, query and     *)
(* decide hold.                                                            *)
(***************************************************************************)
EXTENDS Fft

CONSTANT FftThreshold   \* wire polynomials at least this long are multiplied by FFT

ASSUME ThresholdAssumption == FftThreshold \in Nat

degree == 2

null_vector(n) == [i \in 1..n |-> 0]

ceil_div(x, y) == (x + y - 1) \div y

wire_poly_len(calls) == next_power_of_two(1 + calls)

gadget_poly_len(m) == degree * (m - 1) + 1

\* A gadget adds up `chunks` calls of an inner one: of Mul, on two wires, or of PolyEval, on
\* one.  A gadget that is not a ParallelSum has one chunk.
MulSum(chunks, calls) ==
    [poly |-> <<>>, chunks |-> chunks, arity |-> 2 * chunks, calls |-> calls]
PolySum(poly, chunks, calls) ==
    [poly |-> poly, chunks |-> chunks, arity |-> chunks, calls |-> calls]

\* x^2 - x, and the square of the number that y stands for, y^2 - 2^n y + 2^(2n - 2).
poly_range_check == <<0, P - 1, 1>>
norm_summand_poly(bits) == <<2^(2 * bits - 2) % P, (-(2^bits)) % P, 1>>

\* The types, with the lengths the code states for each of them.
Count ==
    [name |-> "Count", input_len |-> 1, output_len |-> 1, joint_rand_len |-> 0,
     gadgets |-> <<MulSum(1, 1)>>, proof_len |-> 5, verifier_len |-> 4]

Sum(bits) ==
    [name |-> "Sum", input_len |-> bits, output_len |-> 1, joint_rand_len |-> 1,
     gadgets |-> <<PolySum(poly_range_check, 1, bits)>>,
     proof_len |-> 2 * (next_power_of_two(1 + bits) - 1) + 2, verifier_len |-> 3]

\* Average is Sum but for decode_result, which converts the sum to an integer of a machine
\* word, at most max_word (a u64 in the code, where a field element may have 128 bits).
Average(bits, max_word) == [max_word |-> max_word] @@ Sum(bits)

Chunked(name, len, chunk_length) ==
    LET calls == ceil_div(len, chunk_length)
    IN  [name |-> name, input_len |-> len, gadgets |-> <<MulSum(chunk_length, calls)>>,
         proof_len |-> chunk_length * 2 + 2 * (next_power_of_two(1 + calls) - 1) + 1,
         verifier_len |-> 2 + chunk_length * 2]

Histogram(length, chunk_length) ==
    Chunked("Histogram", length, chunk_length) @@ [output_len |-> length, joint_rand_len |-> 2]

SumVec(bits, len, chunk_length) ==
    Chunked("SumVec", bits * len, chunk_length)
      @@ [output_len |-> len, joint_rand_len |-> 1, bits |-> bits]

\* Fault: norms may be larger than the field.
fits_unbounded(bits, entries) == TRUE

\* Vectors of fixed-point numbers in [-1, 1), bit by bit, and the square of their norm; a type
\* whose norms do not fit the field is refused.
fits(bits, entries) == entries * 2^(2 * bits - 2) < P
sqrt_floor(x) == CHOOSE r \in 0..x : r * r <= x /\ x < (r + 1) * (r + 1)

FixedPoint(bits, entries) ==
    LET len == bits * entries + 2 * bits - 2
        chunks0 == Max({1, sqrt_floor(len)})
        chunks1 == Max({1, sqrt_floor(entries)})
        calls0 == ceil_div(len, chunks0)
        calls1 == ceil_div(entries, chunks1)
    IN  [name |-> "FixedPoint", input_len |-> len, output_len |-> entries, joint_rand_len |-> 2,
         bits |-> bits,
         gadgets |-> <<MulSum(chunks0, calls0), PolySum(norm_summand_poly(bits), chunks1, calls1)>>,
         proof_len |-> chunks0 * 2 + 2 * (next_power_of_two(1 + calls0) - 1) + 1
                         + chunks1 + 2 * (next_power_of_two(1 + calls1) - 1) + 1,
         verifier_len |-> chunks0 * 2 + chunks1 + 3]

total(typ, of(_)) == FoldLeft(LAMBDA acc, g : acc + of(g), 0, typ.gadgets)
prove_rand_len(typ) == total(typ, LAMBDA g : g.arity)
query_rand_len(typ) == Len(typ.gadgets)

\* The bits of entry i of a vector, and those after the entries: the norm.
entry_bits(typ, input, i) == SubSeq(input, (i - 1) * typ.bits + 1, i * typ.bits)
norm_bits(typ, input) == SubSeq(input, typ.output_len * typ.bits + 1, typ.input_len)

\* A fixed-point number, a two's complement integer, with its sign bit inverted.
to_field_integer(bits, x) == ((x % 2^bits) + 2^(bits - 1)) % 2^bits
compute_norm_of_entries(bits, entries) ==
    SumOver(LAMBDA y : poly_eval(norm_summand_poly(bits), y), entries)

\* A vector whose norm is too long to be encoded is an error in the code; here it loses bits.
encode_measurement(typ, measurement) ==
    CASE typ.name = "Count" -> <<measurement>>
      [] typ.name = "Sum" -> encode_as_bitvector(measurement, typ.input_len)
      [] typ.name = "Histogram" ->
            [i \in 1..typ.input_len |-> IF i = measurement + 1 THEN 1 ELSE 0]
      [] typ.name = "SumVec" ->
            FlattenSeq([i \in DOMAIN measurement |->
                            encode_as_bitvector(measurement[i], typ.bits)])
      [] typ.name = "FixedPoint" ->
            LET entries == [i \in DOMAIN measurement |-> to_field_integer(typ.bits, measurement[i])]
            IN  FlattenSeq([i \in DOMAIN entries |-> encode_as_bitvector(entries[i], typ.bits)])
                  \o encode_as_bitvector(compute_norm_of_entries(typ.bits, entries), 2 * typ.bits - 2)

truncate(typ, input) ==
    CASE typ.name \in {"Count", "Histogram"} -> input
      [] typ.name = "Sum" -> <<decode_bitvector(input)>>
      [] typ.name \in {"SumVec", "FixedPoint"} ->
            Evaluated([i \in 1..typ.output_len |-> decode_bitvector(entry_bits(typ, input, i))])

\* Fault: an average is decoded like a sum, neither checked nor divided.
decode_result_undivided(typ, data, num_measurements) ==
    IF Len(data) # typ.output_len THEN [ok |-> FALSE]
    ELSE [ok |-> TRUE, result |-> data]

\* The aggregate result: the integers of the field elements; or the quotient of the sum, if a
\* word can hold it, and the number of measurements (a float in the code, a fraction here); or
\* sums of fixed-point numbers (floats in the code, multiples of 2^(1 - bits) here).
IsAverage(typ) == "max_word" \in DOMAIN typ
decode_result(typ, data, num_measurements) ==
    IF Len(data) # typ.output_len \/ (IsAverage(typ) /\ data[1] > typ.max_word) THEN [ok |-> FALSE]
    ELSE [ok |-> TRUE,
          result |->
            CASE IsAverage(typ) -> <<data[1], num_measurements>>
              [] typ.name = "FixedPoint" ->
                    [i \in DOMAIN data |-> data[i] - num_measurements * 2^(typ.bits - 1)]
              [] OTHER -> data]

-----------------------------------------------------------------------------
gadget_call(g, inp) ==
    SumOver(LAMBDA k : IF g.poly = <<>> THEN inp[2 * k - 1] * inp[2 * k] ELSE poly_eval(g.poly, inp[k]),
            [k \in 1..g.chunks |-> k])

\* A gadget writes the polynomial it computes into a buffer, which holds something already.
\* Mul: directly, the product is written over as many coefficients as it has, and the others
\* stay; by FFT, the whole buffer is overwritten.
write_front(outp, v) == v \o SubSeq(outp, Len(v) + 1, Len(outp))
mul_poly(outp, p, q) ==
    LET n == Len(outp)
        p_vals == discrete_fourier_transform(p, n)
        q_vals == discrete_fourier_transform(q, n)
    IN  IF Len(p) >= FftThreshold
        THEN interpolate(Evaluated([i \in 1..n |-> (p_vals[i] * q_vals[i]) % P]), n)
        ELSE write_front(outp, poly_mul(p, q))

\* PolyEval: the constant term is assigned, and the powers of the input are added to the rest.
powers(d, p, n) ==
    LET p_vals == discrete_fourier_transform(p, n)
        power(i) == IF Len(p) >= FftThreshold
                    THEN interpolate(Evaluated([k \in 1..n |-> pow(p_vals[k], i)]), n)
                    ELSE FoldLeft(poly_mul, p, [k \in 1..i - 1 |-> p])
    IN  <<p>> \o [i \in 1..d - 1 |-> power(i + 1)]
accumulate(outp, poly, x) ==
    LET term(i, k) == IF k \in DOMAIN x[i] THEN poly[i + 1] * x[i][k] ELSE 0
    IN  Evaluated([k \in DOMAIN outp |->
            ((IF k = 1 THEN poly[1] ELSE outp[k])
               + SumOver(LAMBDA i : term(i, k), [i \in DOMAIN x |-> i])) % P])

\* Fault: the buffer is not cleared before powers are added to it.
eval_poly_stale(outp, poly, p) == accumulate(outp, poly, powers(Len(poly) - 1, p, Len(outp)))

eval_poly(outp, poly, p) ==
    accumulate(null_vector(Len(outp)), poly, powers(Len(poly) - 1, p, Len(outp)))

\* The inputs of the inner gadget's k-th call, and that call.
chunk(g, inp, k) ==
    LET arity == g.arity \div g.chunks IN SubSeq(inp, (k - 1) * arity + 1, k * arity)
call_poly(g, outp, inp) ==
    IF g.poly = <<>> THEN mul_poly(outp, inp[1], inp[2]) ELSE eval_poly(outp, g.poly, inp[1])

\* One output buffer serves all the calls of the inner gadget: what a call does not overwrite
\* is added once more.
gadget_call_poly(g, inp) ==
    LET n == next_power_of_two(gadget_poly_len(Len(inp[1])))
        partial_outp[k \in 0..g.chunks] ==
            IF k = 0 THEN null_vector(n) ELSE call_poly(g, partial_outp[k - 1], chunk(g, inp, k))
    IN  FoldLeft(merge_vector, null_vector(n), Evaluated([k \in 1..g.chunks |-> partial_outp[k]]))

\* The wires of parallel_sum_range_checks: each input x becomes r^k x and x - 1/num_shares,
\* and the last chunk is padded as if with zero inputs.
range_check_wires(g, input, r, num_shares) ==
    LET num_shares_inverse == inv(num_shares)
        args(c, j) ==
            LET k == (c - 1) * g.chunks + (j + 1) \div 2
                x == IF k \in DOMAIN input THEN input[k] ELSE 0
            IN  IF j % 2 = 1 THEN (pow(r, k) * x) % P ELSE (x - num_shares_inverse) % P
    IN  Evaluated([c \in 1..g.calls |-> Evaluated([j \in 1..g.arity |-> args(c, j)])])

\* Fault: the last chunk is padded with the encoding of zero, not with a share of it.
norm_wires_unshared(typ, g, input, num_shares) ==
    LET entries == truncate(typ, input)
    IN  Evaluated([c \in 1..g.calls |-> Evaluated([j \in 1..g.arity |->
            LET k == (c - 1) * g.chunks + j
            IN  IF k <= typ.output_len THEN entries[k] ELSE 2^(typ.bits - 1) % P])])

\* The wires of the norm: the entries, and shares of the encoding of zero in the last chunk.
norm_wires(typ, g, input, num_shares) ==
    LET entries == truncate(typ, input)
        zero_enc_share == (2^(typ.bits - 1) * inv(num_shares)) % P
    IN  Evaluated([c \in 1..g.calls |-> Evaluated([j \in 1..g.arity |->
            LET k == (c - 1) * g.chunks + j
            IN  IF k <= typ.output_len THEN entries[k] ELSE zero_enc_share])])

\* The inputs of the gadgets' calls when a share of the input is evaluated.
wires(typ, input, joint_rand, num_shares) ==
    LET range_checks == range_check_wires(typ.gadgets[1], input, joint_rand[1], num_shares)
    IN  CASE typ.name = "Count" -> <<<<<<input[1], input[1]>>>>>>
          [] typ.name = "Sum" -> <<[k \in 1..typ.input_len |-> <<input[k]>>]>>
          [] typ.name \in {"Histogram", "SumVec"} -> <<range_checks>>
          [] typ.name = "FixedPoint" ->
                <<range_checks, norm_wires(typ, typ.gadgets[2], input, num_shares)>>

\* The second check of a type with two, given the outputs of the gadgets' calls: that a
\* histogram counts one measurement; that the norm is the one submitted.
second_check(typ, outs, input, num_shares) ==
    LET id(x) == x
    IN  IF typ.name = "Histogram" THEN (SumOver(id, input) - inv(num_shares)) % P
        ELSE (SumOver(id, outs[2]) - decode_bitvector(norm_bits(typ, input))) % P

\* The output of the circuit, given the outputs of the gadgets' calls.
circuit_output(typ, outs, input, joint_rand, num_shares) ==
    LET id(x) == x
        r == joint_rand[2]
    IN  CASE typ.name = "Count" -> (outs[1][1] - input[1]) % P
          [] typ.name = "Sum" ->
                SumOver(LAMBDA k : pow(joint_rand[1], k) * outs[1][k], [k \in DOMAIN outs[1] |-> k])
          [] typ.name = "SumVec" -> SumOver(id, outs[1])
          [] typ.name \in {"Histogram", "FixedPoint"} ->
                (r * SumOver(id, outs[1]) + ((r * r) % P) * second_check(typ, outs, input, num_shares)) % P

valid(typ, input, joint_rand, num_shares) ==
    LET w == wires(typ, input, joint_rand, num_shares)
        outs == Evaluated([g \in DOMAIN typ.gadgets |->
                    Evaluated([k \in 1..typ.gadgets[g].calls |-> gadget_call(typ.gadgets[g], w[g][k])])])
    IN  circuit_output(typ, outs, input, joint_rand, num_shares)

-----------------------------------------------------------------------------
\* Where the part of gadget number g begins in a vector that has len(_) elements for each.
offset(typ, len(_), g) ==
    FoldLeft(LAMBDA acc, h : acc + len(h), 0, SubSeq(typ.gadgets, 1, g - 1))
slice(typ, len(_), v, g) ==
    LET at == offset(typ, len, g) IN SubSeq(v, at + 1, at + len(typ.gadgets[g]))

rand_part(typ, v, g) == slice(typ, LAMBDA h : h.arity, v, g)
proof_part(typ, v, g) ==
    slice(typ, LAMBDA h : h.arity + gadget_poly_len(wire_poly_len(h.calls)), v, g)
verifier_part(typ, v, g) == slice(typ, LAMBDA h : h.arity + 1, Tail(v), g)

\* The polynomials of a gadget's wires: the seeds at the first root of unity, what the
\* shims recorded at the next ones.
wire_polys(g, seeds, w) ==
    LET m == wire_poly_len(g.calls)
    IN  Evaluated([j \in 1..g.arity |->
            interpolate(<<seeds[j]>> \o [k \in 1..g.calls |-> w[k][j]], m)])

gadget_poly(g, f) == SubSeq(gadget_call_poly(g, f), 1, gadget_poly_len(Len(f[1])))

\* Fault: the wires are interpolated without their random first point.
prove_unblinded(typ, input, prove_rand, joint_rand) ==
    LET w == wires(typ, input, joint_rand, 1)
        zero(g) == null_vector(g.arity)
    IN  FlattenSeq([g \in DOMAIN w |-> rand_part(typ, prove_rand, g)
            \o gadget_poly(typ.gadgets[g], wire_polys(typ.gadgets[g], zero(typ.gadgets[g]), w[g]))])

\* The proof: for each gadget the seeds, and the coefficients of the gadget applied to the
\* wire polynomials.
prove(typ, input, prove_rand, joint_rand) ==
    LET w == wires(typ, input, joint_rand, 1)
        seeds(g) == rand_part(typ, prove_rand, g)
    IN  FlattenSeq([g \in DOMAIN typ.gadgets |->
            seeds(g) \o gadget_poly(typ.gadgets[g], wire_polys(typ.gadgets[g], seeds(g), w[g]))])

\* No query point may be one the gadget's wires were interpolated at.
query_rand_ok(typ, query_rand) ==
    \A g \in DOMAIN typ.gadgets : pow(query_rand[g], wire_poly_len(typ.gadgets[g].calls)) # 1

\* What the shim of a gadget answers: the proof polynomial at every step-th root of unity.
query_outputs(g, proof) ==
    LET m == wire_poly_len(g.calls)
        size == next_power_of_two(m * degree)
        step == 2^(log2(m * degree) - log2(m))
        p_vals == discrete_fourier_transform(SubSeq(proof, g.arity + 1, Len(proof)), size)
    IN  Evaluated([k \in 1..g.calls |-> p_vals[k * step + 1]])

\* The wire polynomials and the proof polynomial of a gadget at a point.
query_values(g, proof, w, t) ==
    LET f == wire_polys(g, proof, w)
    IN  Evaluated([j \in 1..g.arity |-> poly_eval(f[j], t)])
          \o <<poly_eval(SubSeq(proof, g.arity + 1, Len(proof)), t)>>

\* The verifier (a share of it, given shares): the output of the circuit, evaluated with what
\* the shims answer, and the values for each gadget.
query(typ, input, proof, query_rand, joint_rand, num_shares) ==
    LET w == wires(typ, input, joint_rand, num_shares)
        outs == Evaluated([g \in DOMAIN typ.gadgets |-> query_outputs(typ.gadgets[g], proof_part(typ, proof, g))])
    IN  <<circuit_output(typ, outs, input, joint_rand, num_shares)>>
          \o FlattenSeq([g \in DOMAIN typ.gadgets |->
                query_values(typ.gadgets[g], proof_part(typ, proof, g), w[g], query_rand[g])])

\* Fault: the first gadget is looked at every time.
well_formed_first(typ, verifier, g) ==
    LET values == verifier_part(typ, verifier, 1)
    IN  gadget_call(typ.gadgets[1], Front(values)) = Last(values)

\* Is a gadget's polynomial the gadget of its wires, as far as the values tell?
well_formed(typ, verifier, g) ==
    LET values == verifier_part(typ, verifier, g)
    IN  gadget_call(typ.gadgets[g], Front(values)) = Last(values)

decide(typ, verifier) ==
    verifier[1] = 0 /\ \A g \in DOMAIN typ.gadgets : well_formed(typ, verifier, g)

-----------------------------------------------------------------------------
\* What a type promises about an input, said without its circuit.
IsValid(typ, input) ==
    /\ \A i \in DOMAIN input : input[i] \in {0, 1}
    /\ typ.name = "Histogram" => Cardinality({i \in DOMAIN input : input[i] = 1}) = 1
    /\ typ.name = "FixedPoint" =>
          LET int(b) == FoldRight(LAMBDA bit, acc : 2 * acc + bit, b, 0)
              number(i) == int(entry_bits(typ, input, i)) - 2^(typ.bits - 1)
          IN  int(norm_bits(typ, input))
                = FoldLeft(LAMBDA acc, i : acc + number(i) * number(i), 0, [i \in 1..typ.output_len |-> i])

\* How many coefficients of its buffer a call of the inner gadget overwrites.
overwritten(g, inp, n) ==
    IF g.poly = <<>> /\ Len(inp[1]) < FftThreshold THEN Len(poly_mul(inp[1], inp[2])) ELSE n

\* Is coefficient k of the buffer left alone by a call that comes after one that set it?
keeps(g, inp, n, k) ==
    \E c, d \in 1..g.chunks : /\ c < d
                              /\ k <= overwritten(g, chunk(g, inp, c), n)
                              /\ k > overwritten(g, chunk(g, inp, d), n)

\* A proof is spoilt when, as it was made, a product of two chunks' wire polynomials had fewer
\* coefficients than one before it.
spoilt(typ, input, proof, joint_rand) ==
    LET w == wires(typ, input, joint_rand, 1)
        f(g) == wire_polys(typ.gadgets[g], proof_part(typ, proof, g), w[g])
        n(g) == gadget_poly_len(wire_poly_len(typ.gadgets[g].calls))
    IN  \E g \in DOMAIN typ.gadgets : \E k \in 1..n(g) : keeps(typ.gadgets[g], f(g), n(g), k)
=============================================================================
