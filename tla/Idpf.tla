-------------------------------- MODULE Idpf --------------------------------
(***************************************************************************)
(* The incremental distributed point function of src/idpf.rs, and an       *)
(* aggregator that evaluates its key at one prefix after the other through *)
(* a cache of tree nodes.                                                  *)
(*                                                                         *)
(* A seed is the set of its bits that are one, and exclusive or is the     *)
(* symmetric difference; bit 0 is the one the control bit is taken from.   *)
(* The values at inner nodes and at leaves are elements of one field.      *)
(***************************************************************************)
EXTENDS Field

CONSTANTS
    Bits,               \* the length of an input
    SeedBits,           \* the bits of a seed
    ExtendXof(_, _),    \* the stream of a key under the extend tag: block 0 and block 1
    ConvertSeed(_), ConvertValue(_),   \* ... of a seed under the convert tag: a seed, a value
    Reports,            \* what clients program: an input, its values and random keys
    Capacities          \* what RingBufferCache is created with

Seed == SUBSET SeedBits
Prefix == UNION {[1..n -> {0, 1}] : n \in 1..Bits}

ASSUME IdpfAssumption ==
    /\ Bits \in Nat \ {0}
    /\ 0 \in SeedBits
    /\ Reports \subseteq [input : [1..Bits -> {0, 1}], values : [1..Bits -> F],
                           random : [1..2 -> Seed]]
    /\ Capacities \subseteq Nat

\* What the streams yield are seeds and field elements.
ASSUME XofAssumption ==
    \A seed \in Seed :
        /\ ExtendXof(seed, 0) \in Seed /\ ExtendXof(seed, 1) \in Seed
        /\ ConvertSeed(seed) \in Seed /\ ConvertValue(seed) \in F

conditional_xor(x, y, bit) == IF bit = 1 THEN SymDiff(x, y) ELSE x
negated(x) == (P - x) % P

\* A key extends to a seed and a control bit for each child.
extend(key) ==
    LET blocks == <<ExtendXof(key, 0), ExtendXof(key, 1)>>
    IN  [seeds |-> <<blocks[1] \ {0}, blocks[2] \ {0}>>,
         control_bits |-> Evaluated([k \in 1..2 |-> IF 0 \in blocks[k] THEN 1 ELSE 0])]

\* Fault: the value is not negated for the holder of the control bit.
correction_value_unsigned(value, elements, control_bits) ==
    (value - elements[1] + elements[2]) % P

correction_value(value, elements, control_bits) ==
    LET v == (value - elements[1] + elements[2]) % P
    IN  IF control_bits[2] = 1 THEN negated(v) ELSE v

correction_bits(input_bit, e) ==
    <<(e[1].control_bits[1] + e[2].control_bits[1] + input_bit + 1) % 2,
      (e[1].control_bits[2] + e[2].control_bits[2] + input_bit) % 2>>

\* One level of key generation: nodes are the aggregators' keys and control bits on the path.
generate_correction_word(input_bit, value, nodes) ==
    LET e == <<extend(nodes[1].key), extend(nodes[2].key)>>
        keep == input_bit + 1
        lose == 2 - input_bit
        cw_seed == SymDiff(e[1].seeds[lose], e[2].seeds[lose])
        cw_bits == correction_bits(input_bit, e)
        control_bits ==
            [a \in 1..2 |->
                (e[a].control_bits[keep] + cw_bits[keep] * nodes[a].control_bit) % 2]
        corrected ==
            [a \in 1..2 |-> conditional_xor(e[a].seeds[keep], cw_seed, nodes[a].control_bit)]
        elements == [a \in 1..2 |-> ConvertValue(corrected[a])]
    IN  [nodes |-> Evaluated([a \in 1..2 |->
            [key |-> ConvertSeed(corrected[a]), control_bit |-> control_bits[a]]]),
         word |-> [seed |-> cw_seed, control_bits |-> cw_bits,
                   value |-> correction_value(value, elements, control_bits)]]

\* The aggregators' nodes at the root.
root_nodes(random) ==
    [a \in 1..2 |-> [key |-> random[a], control_bit |-> a - 1]]

\* The public share: a correction word for every level.
gen_with_random(input, values, random) ==
    FoldLeft(LAMBDA acc, level :
                LET g == generate_correction_word(input[level], values[level], acc.nodes)
                IN  [nodes |-> g.nodes, words |-> Append(acc.words, g.word)],
             [nodes |-> root_nodes(random), words |-> <<>>],
             [level \in 1..Bits |-> level]).words

\* One level of evaluation by aggregator a.
eval_next(a, node, word, input_bit) ==
    LET e == extend(node.key)
        side == input_bit + 1
        corrected == conditional_xor(e.seeds[side], word.seed, node.control_bit)
        control_bit ==
            (e.control_bits[side] + word.control_bits[side] * node.control_bit) % 2
        out == (ConvertValue(corrected) + control_bit * word.value) % P
    IN  [node |-> [key |-> ConvertSeed(corrected), control_bit |-> control_bit],
         out |-> IF a = 0 THEN out ELSE negated(out)]

-----------------------------------------------------------------------------
\* The caches.  A cache is the sequence of its entries, oldest first.
CacheKinds == {"NoCache", "HashMapCache", "RingBufferCache"}

\* The entries for a prefix; of several, the one inserted last is found.
cache_hits(cache, prefix) == {i \in DOMAIN cache : cache[i].prefix = prefix}
cache_get(cache, prefix) == cache[Max(cache_hits(cache, prefix))].node

\* The hash map keeps what it has; the ring evicts its oldest entry when full, and does
\* not look whether it has the prefix already.
cache_insert(kind, capacity, cache, prefix, node) ==
    LET entry == [prefix |-> prefix, node |-> node]
    IN  CASE kind = "NoCache" -> cache
          [] kind = "HashMapCache" ->
                IF cache_hits(cache, prefix) = {} THEN Append(cache, entry) ELSE cache
          [] kind = "RingBufferCache" ->
                Append(IF Len(cache) = capacity THEN Tail(cache) ELSE cache, entry)

\* Fault: a node is cached with the state of its parent.
eval_from_node_stale(a, words, start, node, prefix, kind, capacity, cache) ==
    FoldLeft(LAMBDA acc, level :
                LET r == eval_next(a, acc.node, words[level], prefix[level])
                IN  [node |-> r.node, out |-> r.out,
                     cache |-> IF level = Bits THEN acc.cache
                               ELSE cache_insert(kind, capacity, acc.cache,
                                                 SubSeq(prefix, 1, level), acc.node)],
             [node |-> node, out |-> 0, cache |-> cache],
             [i \in 1..Len(prefix) - start |-> start + i])

\* The levels below a node whose key and control bit are known.  Every inner node on the
\* way goes into the cache, the leaf does not.
eval_from_node(a, words, start, node, prefix, kind, capacity, cache) ==
    FoldLeft(LAMBDA acc, level :
                LET r == eval_next(a, acc.node, words[level], prefix[level])
                IN  [node |-> r.node, out |-> r.out,
                     cache |-> IF level = Bits THEN acc.cache
                               ELSE cache_insert(kind, capacity, acc.cache,
                                                 SubSeq(prefix, 1, level), r.node)],
             [node |-> node, out |-> 0, cache |-> cache],
             [i \in 1..Len(prefix) - start |-> start + i])

\* The level to start from: the longest proper prefix that is in the cache.
start_level(cache, prefix) ==
    LET known == {n \in 1..Len(prefix) - 1 : cache_hits(cache, SubSeq(prefix, 1, n)) # {}}
    IN  IF known = {} THEN 0 ELSE Max(known)

-----------------------------------------------------------------------------
VARIABLES
    agg,        \* the aggregator
    report,     \* what the client programmed
    words,      \* the public share
    kind, capacity, cache,
    asked,      \* the prefix evaluated last, <<>> at first
    answer      \* the output share returned for it, or -1 for an error

vars == <<agg, report, words, kind, capacity, cache, asked, answer>>

Init ==
    /\ agg \in {0, 1}
    /\ report \in Reports
    /\ words = gen_with_random(report.input, report.values, report.random)
    /\ kind \in CacheKinds
    /\ capacity \in IF kind = "RingBufferCache"
                    THEN {IF c = 0 THEN 1 ELSE c : c \in Capacities} ELSE {0}
    /\ cache = <<>>
    /\ asked = <<>>
    /\ answer = -1

\* Idpf::eval.  A prefix that is empty or too long is an error and leaves the cache alone.
Eval(prefix) ==
    LET start == start_level(cache, prefix)
        node == IF start = 0 THEN root_nodes(report.random)[agg + 1]
                ELSE cache_get(cache, SubSeq(prefix, 1, start))
        r == eval_from_node(agg, words, start, node, prefix, kind, capacity, cache)
    IN  /\ asked' = prefix
        /\ \/ /\ Len(prefix) \in 1..Bits
              /\ answer' = r.out
              /\ cache' = r.cache
           \/ /\ Len(prefix) \notin 1..Bits
              /\ answer' = -1
              /\ UNCHANGED cache
        /\ UNCHANGED <<agg, report, words, kind, capacity>>

Next == \E prefix \in Prefix \cup {<<>>, [i \in 1..Bits + 1 |-> 0]} : Eval(prefix)

Spec == Init /\ [][Next]_vars

-----------------------------------------------------------------------------
\* Aggregator a's node at a prefix, walked to from the root.
NodeAt(a, prefix) ==
    FoldLeft(LAMBDA node, level : eval_next(a, node, words[level], prefix[level]).node,
             root_nodes(report.random)[a + 1], [level \in 1..Len(prefix) |-> level])

ShareAt(a, prefix) ==
    LET n == Len(prefix)
    IN  eval_next(a, NodeAt(a, SubSeq(prefix, 1, n - 1)), words[n], prefix[n]).out

\* The two output shares at a prefix add up to the value programmed for its level if it
\* leads to the input, and to zero if not, whatever the cache held when it was evaluated.
PointFunction ==
    answer # -1 =>
        (answer + ShareAt(1 - agg, asked)) % P
            = IF IsPrefix(asked, report.input) THEN report.values[Len(asked)] ELSE 0

\* Every entry of a cache is the node that its prefix leads to, none is for a leaf, and a
\* ring never grows beyond what was allocated for it, not even one created with capacity
\* zero: no sequence of evaluations poisons a later one.
CacheIsSound ==
    /\ \A i \in DOMAIN cache :
          /\ cache[i].node = NodeAt(agg, cache[i].prefix)
          /\ Len(cache[i].prefix) < Bits
    /\ kind = "RingBufferCache" => Len(cache) <= capacity
=============================================================================
