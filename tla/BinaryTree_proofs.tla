-------------------------- MODULE BinaryTree_proofs --------------------------
(***************************************************************************)
(* What BinaryTree promises for every set of values, every bound on the    *)
(* paths and every byte string that arrives.                               *)
(*                                                                         *)
(* The bytes of a complete encoding say nothing of how they came about, so *)
(* the invariant speaks of the turns the encoder took: a set of situations *)
(* of its loop that begins with the root's slot, goes on from each one to  *)
(* the next, and finds in the bytes what each turn wrote.  The decoder     *)
(* moves through that set.                                                 *)
(***************************************************************************)
EXTENDS BinaryTree, Integers_proofs, SequenceTheorems, TLAPS

Slot == Seq(Bit)

\* A tree: every node has a path, and the nodes above it are there.
IsTree(t) ==
  /\ t \in [DOMAIN t -> Nat]
  /\ DOMAIN t \subseteq Slot
  /\ \A p \in DOMAIN t : \A k \in 0..Len(p) : SubSeq(p, 1, k) \in DOMAIN t

\* A situation of the codec's loop: the slots to visit, the bytes passed, the nodes seen.
Situation == [stack : Seq(Slot), pos : Nat, seen : SUBSET Slot]
AtRoot == [stack |-> << <<>> >>, pos |-> 0, seen |-> {}]

\* The situation after one more turn.
Turned(t, c) ==
  LET slot == Last(c.stack)
  IN  IF has(t, slot)
      THEN [stack |-> push_children(Front(c.stack), slot), pos |-> c.pos + 2,
            seen |-> c.seen \union {slot}]
      ELSE [stack |-> Front(c.stack), pos |-> c.pos + 1, seen |-> c.seen]

\* The bytes hold what that turn writes.
Written(t, b, c) ==
  LET slot == Last(c.stack)
  IN  /\ has(t, slot) => /\ c.pos + 2 <= Len(b)
                         /\ b[c.pos + 1] = Inner /\ b[c.pos + 2] = t[slot]
      /\ ~has(t, slot) => c.pos + 1 <= Len(b) /\ b[c.pos + 1] = Leaf

\* No node is forgotten: it was seen, or a slot above it is still to be visited.
Above(q, p) == \E k \in 0..Len(p) : q = SubSeq(p, 1, k)
Covers(t, c) ==
  /\ c.seen \subseteq DOMAIN t
  /\ \A p \in DOMAIN t : p \in c.seen \/ \E i \in DOMAIN c.stack : Above(c.stack[i], p)

\* The turns that led from the root's slot to the situation last.
Explains(t, b, turns, last) ==
  /\ AtRoot \in turns /\ last \in turns
  /\ \A c \in turns : c \in Situation /\ Covers(t, c)
  /\ \A c \in turns \ {last} : c.stack # <<>> /\ Written(t, b, c) /\ Turned(t, c) \in turns
  /\ last.pos = Len(b)

Modes == {"idle", "arrived", "encoding", "decoding", "failed"}

TypeOK ==
  /\ IsTree(tree) /\ IsTree(out)
  /\ mode \in Modes
  /\ source \in {"own", "received"}
  /\ bytes \in Seq(Nat)
  /\ pos \in Nat
  /\ stack \in Seq(Slot)

\* Whose bytes are looked at when; bytes from elsewhere are read before there is a tree.
Sources ==
  /\ source = "own" => mode \in {"idle", "encoding", "decoding"}
  /\ source = "received" => mode \in {"arrived", "decoding", "failed"} /\ tree = default

\* Every slot the decoder has yet to visit is below a node that it has built.
Hangs == mode = "decoding" =>
  \A i \in DOMAIN stack : stack[i] = <<>> \/ Front(stack[i]) \in DOMAIN out

EncoderRan == mode = "encoding" =>
  \E turns : \E last \in turns : last.stack = stack /\ Explains(tree, bytes, turns, last)

DecoderFollows == mode = "decoding" /\ source = "own" =>
  \E turns : \E last \in turns :
    /\ last.stack = <<>> /\ Explains(tree, bytes, turns, last)
    /\ [stack |-> stack, pos |-> pos, seen |-> DOMAIN out] \in turns
    /\ \A p \in DOMAIN out : out[p] = tree[p]

IInv == TypeOK /\ Sources /\ Hangs /\ EncoderRan /\ DecoderFollows

-----------------------------------------------------------------------------
\* The last element of a sequence and the ones before it.
LEMMA FrontLast ==
  ASSUME NEW S, NEW s \in Seq(S), s # <<>>
  PROVE  /\ Last(s) \in S /\ Front(s) \in Seq(S)
         /\ Len(Front(s)) = Len(s) - 1 /\ Len(s) \in Nat /\ Len(s) >= 1
         /\ \A i \in 1..Len(s) - 1 : Front(s)[i] = s[i]
<1>1. Len(s) \in Nat /\ Len(s) >= 1
  BY EmptySeq
<1>2. \A i \in 1..Len(s) : s[i] \in S
  BY ElementOfSeq
<1>3. \A i \in 1..Len(s) - 1 : s[i] \in S
  BY <1>1, <1>2
<1>4. Last(s) \in S
  BY <1>1, <1>2 DEF Last
<1>5. Front(s) \in Seq(S)
  BY <1>1, <1>3, SubSeqProperties DEF Front
<1>6. Len(Front(s)) = Len(s) - 1
  <2> DEFINE n == Len(s) - 1
  <2>1. n \in Nat
    BY <1>1
  <2>2. Len(SubSeq(s, 1, n)) = n
    <3> HIDE DEF n
    <3>1. \A i \in 1..n : s[i] \in S
      BY <1>3 DEF n
    <3>2. Len(SubSeq(s, 1, n)) = IF 1 <= n THEN n - 1 + 1 ELSE 0
      BY <2>1, <3>1, SubSeqProperties
    <3> QED
      BY <2>1, <3>2
  <2> QED
    BY <2>2 DEF Front
<1>7. \A i \in 1..Len(s) - 1 : Front(s)[i] = s[i]
  BY <1>1 DEF Front
<1> QED
  BY <1>1, <1>4, <1>5, <1>6, <1>7

\* push_children leaves the old slots where they are and puts the two new ones on top.
LEMMA PushChildren ==
  ASSUME NEW s \in Seq(Slot), NEW x \in Slot
  PROVE  /\ push_children(s, x) \in Seq(Slot)
         /\ Len(push_children(s, x)) = Len(s) + 2
         /\ \A i \in 1..Len(s) : push_children(s, x)[i] = s[i]
         /\ push_children(s, x)[Len(s) + 1] = right(x)
         /\ push_children(s, x)[Len(s) + 2] = left(x)
  BY DEF push_children, left, right, Bit, Slot

\* A tree with one node more, at a slot below a node, is a tree.
LEMMA WithNode ==
  ASSUME NEW t, IsTree(t), NEW p \in Slot, NEW v \in Nat,
         \A k \in 0..Len(p) - 1 : SubSeq(p, 1, k) \in DOMAIN t
  PROVE  /\ IsTree(with_node(t, p, v))
         /\ DOMAIN with_node(t, p, v) = DOMAIN t \union {p}
         /\ with_node(t, p, v)[p] = v
         /\ \A q \in DOMAIN t : q # p => with_node(t, p, v)[q] = t[q]
<1> DEFINE w == with_node(t, p, v)
<1>1. DOMAIN w = DOMAIN t \union {p} /\ w \in [DOMAIN w -> Nat]
  BY DEF with_node, IsTree
<1>2. SubSeq(p, 1, Len(p)) = p
  BY SubSeqFull DEF Slot
<1>3. ASSUME NEW q \in DOMAIN w, NEW k \in 0..Len(q)
      PROVE  SubSeq(q, 1, k) \in DOMAIN w
  <2>1. CASE q \in DOMAIN t
    BY <1>1, <2>1 DEF IsTree
  <2>2. CASE q = p
    BY <1>1, <1>2, <2>2 DEF Slot
  <2> QED
    BY <1>1, <2>1, <2>2
<1> QED
  BY <1>1, <1>3 DEF with_node, IsTree

\* The slots above a slot are those above the node it belongs to.
LEMMA AboveFront ==
  ASSUME NEW p \in Slot, p # <<>>, NEW k \in 0..Len(p) - 1
  PROVE  k \in 0..Len(Front(p)) /\ SubSeq(Front(p), 1, k) = SubSeq(p, 1, k)
<1>1. Front(p) \in Slot /\ Len(Front(p)) = Len(p) - 1 /\ Len(p) \in Nat /\ Len(p) >= 1
      /\ \A i \in 1..Len(p) - 1 : Front(p)[i] = p[i]
  BY FrontLast DEF Slot
<1>2. SubSeq(Front(p), 1, k) \in Seq(Bit) /\ SubSeq(p, 1, k) \in Seq(Bit)
      /\ Len(SubSeq(Front(p), 1, k)) = k /\ Len(SubSeq(p, 1, k)) = k
  BY <1>1 DEF Slot
<1>3. \A i \in 1..k : SubSeq(Front(p), 1, k)[i] = SubSeq(p, 1, k)[i]
  BY <1>1 DEF Slot
<1> QED
  BY <1>1, <1>2, <1>3, SeqEqual

\* One turn keeps the situation well formed, and forgets no node.
LEMMA TurnCovers ==
  ASSUME NEW t, IsTree(t), NEW c \in Situation, Covers(t, c), c.stack # <<>>
  PROVE  Turned(t, c) \in Situation /\ Covers(t, Turned(t, c))
<1> DEFINE slot == Last(c.stack)
           d == Turned(t, c)
<1>1. /\ slot \in Slot /\ Front(c.stack) \in Seq(Slot)
      /\ Len(Front(c.stack)) = Len(c.stack) - 1 /\ Len(c.stack) \in Nat /\ Len(c.stack) >= 1
      /\ \A i \in 1..Len(c.stack) - 1 : Front(c.stack)[i] = c.stack[i]
  BY FrontLast DEF Situation
<1>2. c.stack \in Seq(Slot) /\ DOMAIN c.stack = 1..Len(c.stack) /\ slot = c.stack[Len(c.stack)]
  BY DEF Situation, Last
<1>3. CASE ~has(t, slot)
  <2>1. d.stack = Front(c.stack) /\ d.pos = c.pos + 1 /\ d.seen = c.seen
    BY <1>3 DEF Turned
  <2>2. d \in Situation
    BY <1>1, <1>3 DEF Turned, Situation
  <2>3. ASSUME NEW p \in DOMAIN t, p \notin c.seen
        PROVE  \E i \in DOMAIN d.stack : Above(d.stack[i], p)
    <3>1. PICK i \in DOMAIN c.stack : Above(c.stack[i], p)
      BY <2>3 DEF Covers
    <3>2. i # Len(c.stack)
      BY <1>2, <1>3, <3>1 DEF Above, IsTree, has
    <3>3. i \in 1..Len(c.stack) - 1 /\ i \in DOMAIN Front(c.stack)
      BY <1>1, <1>2, <3>2
    <3> QED
      BY <1>1, <2>1, <3>1, <3>3
  <2> QED
    BY <2>1, <2>2, <2>3 DEF Covers
<1>4. CASE has(t, slot)
  <2> DEFINE s == push_children(Front(c.stack), slot)
  <2>1. d.stack = s /\ d.pos = c.pos + 2 /\ d.seen = c.seen \union {slot}
    BY <1>4 DEF Turned
  <2>2. /\ s \in Seq(Slot) /\ DOMAIN s = 1..Len(c.stack) + 1
        /\ \A i \in 1..Len(c.stack) - 1 : s[i] = c.stack[i]
        /\ s[Len(c.stack)] = right(slot) /\ s[Len(c.stack) + 1] = left(slot)
    <3>1. /\ s \in Seq(Slot) /\ Len(s) = Len(Front(c.stack)) + 2
          /\ \A i \in 1..Len(Front(c.stack)) : s[i] = Front(c.stack)[i]
          /\ s[Len(Front(c.stack)) + 1] = right(slot) /\ s[Len(Front(c.stack)) + 2] = left(slot)
      BY <1>1, PushChildren
    <3> HIDE DEF s
    <3> QED
      BY <1>1, <3>1
  <2>3. d \in Situation
    BY <1>1, <1>4, <2>2 DEF Turned, Situation
  <2> HIDE DEF s
  <2>4. ASSUME NEW p \in DOMAIN t, p \notin c.seen, p # slot
        PROVE  \E i \in DOMAIN s : Above(s[i], p)
    <3>1. PICK i \in DOMAIN c.stack : Above(c.stack[i], p)
      BY <2>4 DEF Covers
    <3>2. CASE i # Len(c.stack)
      <4>1. i \in 1..Len(c.stack) - 1
        BY <1>1, <1>2, <3>1, <3>2
      <4>2. i \in DOMAIN s /\ s[i] = c.stack[i]
        BY <1>1, <1>2, <2>2, <4>1
      <4> QED
        BY <3>1, <4>2
    <3>3. CASE i = Len(c.stack)
      <4>0. p \in Seq(Bit)
        BY DEF IsTree, Slot
      <4>1. PICK k \in 0..Len(p) : slot = SubSeq(p, 1, k)
        BY <1>2, <3>1, <3>3 DEF Above
      <4>2. k # Len(p)
        BY <2>4, <4>0, <4>1, SubSeqFull
      <4>3. SubSeq(p, 1, k + 1) = Append(slot, p[k + 1]) /\ p[k + 1] \in Bit /\ k + 1 \in 0..Len(p)
        BY <4>0, <4>1, <4>2
      <4>4. Above(left(slot), p) \/ Above(right(slot), p)
        BY <4>3 DEF Above, left, right, Bit
      <4>5. Len(c.stack) \in DOMAIN s /\ Len(c.stack) + 1 \in DOMAIN s
        BY <1>1, <2>2
      <4> QED
        BY <2>2, <4>4, <4>5
    <3> QED
      BY <3>2, <3>3
  <2>5. d.seen \subseteq DOMAIN t
    BY <1>4, <2>1 DEF Covers, has
  <2> QED
    BY <2>1, <2>3, <2>4, <2>5 DEF Covers
<1> QED
  BY <1>3, <1>4

-----------------------------------------------------------------------------
\* A path that is inserted is a slot's.
LEMMA PathIsSlot == Path \subseteq Slot
  BY BinaryTreeAssumption DEF Path, Slot, BoundedSeq, SeqOf

\* The slots above the end of a path from a node: those above the node, and those on the path.
LEMMA AboveConcat ==
  ASSUME NEW o \in Slot, NEW p \in Slot, NEW k \in 0..Len(o \o p) - 1
  PROVE  /\ o \o p \in Slot
         /\ k <= Len(o) => k \in 0..Len(o) /\ SubSeq(o \o p, 1, k) = SubSeq(o, 1, k)
         /\ k > Len(o) => /\ k - Len(o) \in 1..Len(p) - 1
                          /\ SubSeq(o \o p, 1, k) = o \o SubSeq(p, 1, k - Len(o))
<1>1. /\ o \o p \in Seq(Bit) /\ Len(o \o p) = Len(o) + Len(p) /\ Len(o) \in Nat /\ Len(p) \in Nat
      /\ \A i \in 1..Len(o) + Len(p) : (o \o p)[i] = IF i <= Len(o) THEN o[i] ELSE p[i - Len(o)]
  BY ConcatProperties DEF Slot
<1>2. k \in Nat /\ k <= Len(o) + Len(p) - 1
  BY <1>1
<1>3. \A i \in 1..k : (o \o p)[i] \in Bit
  BY <1>1, <1>2, ElementOfSeq
<1>4. /\ SubSeq(o \o p, 1, k) \in Seq(Bit) /\ Len(SubSeq(o \o p, 1, k)) = k
      /\ \A i \in 1..k : SubSeq(o \o p, 1, k)[i] = (o \o p)[i]
  BY <1>1, <1>2
<1>5. CASE k <= Len(o)
  <2>1. /\ SubSeq(o, 1, k) \in Seq(Bit) /\ Len(SubSeq(o, 1, k)) = k
        /\ \A i \in 1..k : SubSeq(o, 1, k)[i] = o[i]
    BY <1>1, <1>2, <1>5 DEF Slot
  <2>2. \A i \in 1..k : SubSeq(o \o p, 1, k)[i] = SubSeq(o, 1, k)[i]
    BY <1>1, <1>2, <1>4, <1>5, <2>1
  <2> QED
    BY <1>1, <1>2, <1>4, <1>5, <2>1, <2>2, SeqEqual DEF Slot
<1>6. CASE k > Len(o)
  <2> DEFINE j == k - Len(o)
             q == SubSeq(p, 1, j)
  <2>1. j \in 1..Len(p) - 1 /\ j \in Nat /\ k = Len(o) + j
    BY <1>1, <1>2, <1>6
  <2> HIDE DEF j
  <2>2. q \in Seq(Bit) /\ Len(q) = j /\ \A i \in 1..j : q[i] = p[i]
    BY <1>1, <2>1 DEF Slot
  <2> HIDE DEF q
  <2>3. /\ o \o q \in Seq(Bit) /\ Len(o \o q) = k
        /\ \A i \in 1..k : (o \o q)[i] = IF i <= Len(o) THEN o[i] ELSE q[i - Len(o)]
    BY <2>1, <2>2, ConcatProperties DEF Slot
  <2>4. \A i \in 1..k : SubSeq(o \o p, 1, k)[i] = (o \o q)[i]
    BY <1>1, <1>2, <1>4, <2>1, <2>2, <2>3
  <2>5. SubSeq(o \o p, 1, k) = o \o q
    BY <1>4, <2>3, <2>4, SeqEqual
  <2> QED
    BY <1>1, <1>2, <1>6, <2>1, <2>5 DEF Slot, j, q
<1> QED
  BY <1>1, <1>2, <1>5, <1>6

\* A tree before and after a step that only adds to it.
Grows(t, u) == \A p \in DOMAIN t : has(u, p) /\ u[p] = t[p]

\* Node::insert keeps a tree a tree, with all that was there.
LEMMA NodeInsertGrows ==
  ASSUME NEW t, IsTree(t), NEW o \in Slot, has(t, o), NEW p \in Slot, NEW v \in Nat
  PROVE  IsTree(Node_insert(t, o, p, v)) /\ Grows(t, Node_insert(t, o, p, v))
<1>1. CASE unreachable(t, o, p) \/ has(t, o \o p)
  BY <1>1 DEF Node_insert, Grows, has
<1>2. CASE ~unreachable(t, o, p) /\ ~has(t, o \o p)
  <2>1. o \o p \in Slot
    BY ConcatProperties DEF Slot
  <2>2. ASSUME NEW k \in 0..Len(o \o p) - 1
        PROVE  SubSeq(o \o p, 1, k) \in DOMAIN t
    <3>1. k \in Nat /\ Len(o) \in Nat
      BY DEF Slot
    <3>2. CASE k <= Len(o)
      <4>1. k \in 0..Len(o) /\ SubSeq(o \o p, 1, k) = SubSeq(o, 1, k)
        BY <3>2, AboveConcat
      <4>2. SubSeq(o, 1, k) \in DOMAIN t
        BY <4>1 DEF IsTree, has
      <4> QED
        BY <4>1, <4>2
    <3>3. CASE k > Len(o)
      <4>1. k - Len(o) \in 1..Len(p) - 1 /\ SubSeq(o \o p, 1, k) = o \o SubSeq(p, 1, k - Len(o))
        BY <3>3, AboveConcat
      <4>2. o \o SubSeq(p, 1, k - Len(o)) \in DOMAIN t
        BY <1>2, <4>1 DEF unreachable, has
      <4> QED
        BY <4>1, <4>2
    <3> QED
      BY <3>1, <3>2, <3>3
  <2>3. Node_insert(t, o, p, v) = with_node(t, o \o p, v)
    BY <1>2 DEF Node_insert
  <2>4. /\ IsTree(with_node(t, o \o p, v))
        /\ DOMAIN with_node(t, o \o p, v) = DOMAIN t \union {o \o p}
        /\ \A q \in DOMAIN t : q # o \o p => with_node(t, o \o p, v)[q] = t[q]
    BY <2>1, <2>2, WithNode
  <2> QED
    BY <1>2, <2>3, <2>4 DEF Grows, has
<1> QED
  BY <1>1, <1>2

\* BinaryTree::insert does so too.
LEMMA TreeInsertGrows ==
  ASSUME NEW t, IsTree(t), NEW p \in Slot, NEW v \in Nat
  PROVE  IsTree(BinaryTree_insert(t, p, v)) /\ Grows(t, BinaryTree_insert(t, p, v))
<1>0. <<>> \in Slot
  BY DEF Slot
<1>1. CASE has(t, <<>>)
  BY <1>0, <1>1, NodeInsertGrows DEF BinaryTree_insert
<1>2. CASE ~has(t, <<>>) /\ p = <<>>
  <2>1. Len(p) = 0
    BY <1>2
  <2>2. \A k \in 0..Len(p) - 1 : SubSeq(p, 1, k) \in DOMAIN t
    BY <2>1
  <2>3. BinaryTree_insert(t, p, v) = with_node(t, p, v)
    BY <1>2 DEF BinaryTree_insert
  <2>4. /\ IsTree(with_node(t, p, v))
        /\ DOMAIN with_node(t, p, v) = DOMAIN t \union {p}
        /\ \A q \in DOMAIN t : q # p => with_node(t, p, v)[q] = t[q]
    BY <2>2, WithNode
  <2> QED
    BY <1>2, <2>3, <2>4 DEF Grows, has
<1>3. CASE ~has(t, <<>>) /\ p # <<>>
  BY <1>3 DEF BinaryTree_insert, Grows, has
<1> QED
  BY <1>1, <1>2, <1>3

-----------------------------------------------------------------------------
\* The tree without nodes.
LEMMA DefaultIsTree == IsTree(default) /\ DOMAIN default = {}
  BY DEF IsTree, default

\* The decoder stands where the encoder once stood; while there is a slot to visit, the bytes
\* in front of it are the ones that the encoder wrote for that slot.
Follows(turns, last, here) ==
  /\ last \in turns /\ last.stack = <<>> /\ Explains(tree, bytes, turns, last)
  /\ here \in turns /\ here \in Situation
  /\ \A p \in DOMAIN out : out[p] = tree[p]
  /\ stack # <<>> => Written(tree, bytes, here) /\ Turned(tree, here) \in turns

\* A decoder on its way stands in such a place.
LEMMA DecoderStands ==
  ASSUME DecoderFollows, mode = "decoding", source = "own",
         NEW here, here = [stack |-> stack, pos |-> pos, seen |-> DOMAIN out]
  PROVE  \E turns, last : Follows(turns, last, here)
<1>1. PICK turns : \E last \in turns :
        /\ last.stack = <<>> /\ Explains(tree, bytes, turns, last)
        /\ here \in turns
        /\ \A p \in DOMAIN out : out[p] = tree[p]
  BY DEF DecoderFollows
<1>2. PICK last \in turns :
        /\ last.stack = <<>> /\ Explains(tree, bytes, turns, last)
        /\ here \in turns
        /\ \A p \in DOMAIN out : out[p] = tree[p]
  BY <1>1
<1>3. here.stack = stack
  OBVIOUS
<1>4. stack # <<>> => here # last
  BY <1>2, <1>3
<1>5. here \in Situation /\ (stack # <<>> => Written(tree, bytes, here) /\ Turned(tree, here) \in turns)
  BY <1>2, <1>4 DEF Explains
<1>6. Follows(turns, last, here)
  BY <1>2, <1>5 DEF Follows
<1> QED
  BY <1>6

\* Positions of two bytes in front of the cursor.
LEMMA Within ==
  ASSUME NEW k \in Nat, NEW l \in Nat, NEW n \in Nat, k + 2 <= l, l <= n
  PROVE  k + 1 \in 1..l /\ k + 2 \in 1..l /\ k + 2 <= n
  OBVIOUS

\* A marker and a value more.
LEMMA TwoMore ==
  ASSUME NEW b \in Seq(Nat), NEW x \in Nat, NEW y \in Nat, NEW d, d = Append(Append(b, x), y)
  PROVE  /\ d \in Seq(Nat) /\ Len(d) = Len(b) + 2
         /\ \A i \in 1..Len(b) : d[i] = b[i]
         /\ d[Len(b) + 1] = x /\ d[Len(b) + 2] = y
  OBVIOUS

\* What was written stays written when more is.
LEMMA WrittenStays ==
  ASSUME NEW t, NEW b \in Seq(Nat), NEW d \in Seq(Nat), NEW c \in Situation,
         Len(b) <= Len(d), \A i \in 1..Len(b) : d[i] = b[i],
         Written(t, b, c)
  PROVE  Written(t, d, c)
<1> DEFINE l == Len(b)
           n == Len(d)
<1>1. l \in Nat /\ n \in Nat /\ c.pos \in Nat
  BY DEF Situation
<1>2. \A i \in 1..l : d[i] = b[i]
  OBVIOUS
<1>5. l <= n
  OBVIOUS
<1>3. CASE has(t, Last(c.stack))
  <2>1. c.pos + 2 <= l /\ b[c.pos + 1] = Inner /\ b[c.pos + 2] = t[Last(c.stack)]
    BY <1>3 DEF Written
  <2> HIDE DEF l, n
  <2>2. c.pos + 1 \in 1..l /\ c.pos + 2 \in 1..l /\ c.pos + 2 <= n
    BY <1>1, <1>5, <2>1, Within
  <2>3. d[c.pos + 1] = Inner /\ d[c.pos + 2] = t[Last(c.stack)]
    BY <1>2, <2>1, <2>2
  <2> QED
    BY <1>3, <2>2, <2>3 DEF Written, n
<1>4. CASE ~has(t, Last(c.stack))
  <2>1. c.pos + 1 <= l /\ b[c.pos + 1] = Leaf
    BY <1>4 DEF Written
  <2> HIDE DEF l, n
  <2>2. c.pos + 1 \in 1..l /\ c.pos + 1 <= n
    BY <1>1, <1>5, <2>1
  <2>3. d[c.pos + 1] = Leaf
    BY <1>2, <2>1, <2>2
  <2> QED
    BY <1>4, <2>2, <2>3 DEF Written, n
<1> QED
  BY <1>3, <1>4

\* The encoder begins.
LEMMA EncodeStep == ASSUME IInv, Encode PROVE IInv'
<1>1. TypeOK' /\ Sources' /\ Hangs' /\ DecoderFollows'
  <2>1. << <<>> >> \in Seq(Slot)
    BY DEF Slot
  <2>2. TypeOK'
    BY <2>1 DEF IInv, TypeOK, Encode, Modes
  <2> QED
    BY <2>2 DEF IInv, Sources, Hangs, DecoderFollows, Encode
<1>2. EncoderRan'
  <2>1. AtRoot \in Situation
    BY DEF AtRoot, Situation, Slot
  <2>2. Covers(tree, AtRoot)
    <3>1. ASSUME NEW p \in DOMAIN tree
          PROVE  Above(<<>>, p)
      <4>1. p \in Seq(Bit)
        BY DEF IInv, TypeOK, IsTree, Slot
      <4>2. <<>> = SubSeq(p, 1, 0) /\ 0 \in 0..Len(p)
        BY <4>1, SubSeqEmpty
      <4> QED
        BY <4>2 DEF Above
    <3>2. 1 \in DOMAIN AtRoot.stack /\ AtRoot.stack[1] = <<>> /\ AtRoot.seen = {}
      BY DEF AtRoot
    <3> QED
      BY <3>1, <3>2 DEF Covers
  <2>3. tree' = tree /\ bytes' = <<>> /\ stack' = AtRoot.stack /\ AtRoot.pos = 0
    BY DEF Encode, AtRoot
  <2>4. Explains(tree', bytes', {AtRoot}, AtRoot)
    BY <2>1, <2>2, <2>3 DEF Explains
  <2> QED
    BY <2>3, <2>4 DEF EncoderRan
<1> QED
  BY <1>1, <1>2 DEF IInv

\* One turn of the encoder is one more that the bytes tell of.
LEMMA EncodeSlotStep == ASSUME IInv, EncodeSlot PROVE IInv'
<1> DEFINE slot == Last(stack)
<1>1. mode = "encoding" /\ stack # <<>> /\ stack \in Seq(Slot) /\ IsTree(tree) /\ bytes \in Seq(Nat)
  BY DEF EncodeSlot, IInv, TypeOK
<1>2. slot \in Slot /\ Front(stack) \in Seq(Slot)
  BY <1>1, FrontLast
<1>3. PICK turns : \E last \in turns : last.stack = stack /\ Explains(tree, bytes, turns, last)
  BY <1>1 DEF IInv, EncoderRan
<1>4. PICK last \in turns : last.stack = stack /\ Explains(tree, bytes, turns, last)
  BY <1>3
<1> DEFINE new == Turned(tree, last)
           more == turns \union {new}
<1>5. last \in Situation /\ Covers(tree, last) /\ last.pos = Len(bytes)
  BY <1>4 DEF Explains
<1>6. new \in Situation /\ Covers(tree, new)
  BY <1>1, <1>4, <1>5, TurnCovers
<1>7. /\ new.stack = stack' /\ new.pos = Len(bytes')
      /\ bytes' \in Seq(Nat) /\ stack' \in Seq(Slot)
      /\ Len(bytes) <= Len(bytes') /\ \A i \in 1..Len(bytes) : bytes'[i] = bytes[i]
      /\ Written(tree, bytes', last)
  <2>1. CASE has(tree, slot)
    <3>1. tree[slot] \in Nat /\ Inner \in Nat
      BY <1>1, <2>1 DEF IsTree, has, Inner
    <3>3. bytes' = Append(Append(bytes, Inner), tree[slot]) /\ stack' = push_children(Front(stack), slot)
      BY <2>1 DEF EncodeSlot
    <3>4. new.stack = stack' /\ new.pos = Len(bytes) + 2
      BY <1>4, <1>5, <2>1, <3>3 DEF Turned
    <3>5. /\ bytes' \in Seq(Nat) /\ Len(bytes') = Len(bytes) + 2
          /\ \A i \in 1..Len(bytes) : bytes'[i] = bytes[i]
          /\ bytes'[Len(bytes) + 1] = Inner /\ bytes'[Len(bytes) + 2] = tree[slot]
      BY <1>1, <3>1, <3>3, TwoMore
    <3>6. stack' \in Seq(Slot)
      BY <1>2, <3>3, PushChildren
    <3>7. Written(tree, bytes', last)
      BY <1>1, <1>4, <1>5, <2>1, <3>5 DEF Written
    <3> QED
      BY <1>1, <3>4, <3>5, <3>6, <3>7
  <2>2. CASE ~has(tree, slot)
    <3>1. bytes' = Append(bytes, Leaf) /\ stack' = Front(stack)
      BY <2>2 DEF EncodeSlot
    <3>2. new.stack = stack' /\ new.pos = Len(bytes) + 1
      BY <1>4, <1>5, <2>2, <3>1 DEF Turned
    <3>3. /\ bytes' \in Seq(Nat) /\ Len(bytes') = Len(bytes) + 1
          /\ \A i \in 1..Len(bytes) : bytes'[i] = bytes[i]
          /\ bytes'[Len(bytes) + 1] = Leaf
      BY <1>1, <3>1 DEF Leaf
    <3>4. Written(tree, bytes', last)
      BY <1>1, <1>4, <1>5, <2>2, <3>3 DEF Written
    <3> QED
      BY <1>1, <1>2, <3>1, <3>2, <3>3, <3>4
  <2> QED
    BY <2>1, <2>2
<1>8. tree' = tree /\ mode' = mode /\ source' = source /\ pos' = pos /\ out' = out
  BY DEF EncodeSlot
<1>9. Explains(tree, bytes', more, new)
  <2>1. ASSUME NEW c \in turns \ {last}
        PROVE  c.stack # <<>> /\ Written(tree, bytes', c) /\ Turned(tree, c) \in more
    <3>1. c \in Situation /\ c.stack # <<>> /\ Written(tree, bytes, c) /\ Turned(tree, c) \in turns
      BY <1>4 DEF Explains
    <3>2. Written(tree, bytes', c)
      BY <1>1, <1>7, <3>1, WrittenStays
    <3> QED
      BY <3>1, <3>2
  <2> HIDE DEF new
  <2>2. ASSUME NEW c \in more \ {new}
        PROVE  c.stack # <<>> /\ Written(tree, bytes', c) /\ Turned(tree, c) \in more
    BY <1>1, <1>4, <1>7, <2>1 DEF new
  <2>3. \A c \in more : c \in Situation /\ Covers(tree, c)
    BY <1>4, <1>6 DEF Explains
  <2>4. AtRoot \in more /\ new \in more
    BY <1>4 DEF Explains
  <2> QED
    BY <1>7, <2>2, <2>3, <2>4 DEF Explains
<1>10. TypeOK' /\ Sources' /\ Hangs' /\ DecoderFollows'
  BY <1>1, <1>7, <1>8 DEF IInv, TypeOK, Sources, Hangs, DecoderFollows
<1>11. EncoderRan'
  <2> HIDE DEF new, more
  <2>1. new \in more
    BY DEF more
  <2> QED
    BY <1>7, <1>8, <1>9, <2>1 DEF EncoderRan
<1> QED
  BY <1>10, <1>11 DEF IInv

\* The decoder begins where the encoder began.
LEMMA DecodeStep == ASSUME IInv, Decode PROVE IInv'
<1>0. /\ mode' = "decoding" /\ pos' = 0 /\ out' = default /\ stack' = << <<>> >>
      /\ tree' = tree /\ source' = source /\ bytes' = bytes
  BY DEF Decode
<1>1. TypeOK' /\ Sources' /\ Hangs' /\ EncoderRan'
  <2>1. << <<>> >> \in Seq(Slot)
    BY DEF Slot
  <2>2. TypeOK'
    BY <1>0, <2>1, DefaultIsTree DEF IInv, TypeOK, Modes
  <2>3. Sources'
    BY <1>0 DEF IInv, Sources
  <2>4. Hangs'
    BY <1>0 DEF Hangs
  <2> QED
    BY <1>0, <2>2, <2>3, <2>4 DEF EncoderRan
<1>2. DecoderFollows'
  <2>1. SUFFICES ASSUME source = "own"
                 PROVE  DecoderFollows'
    BY <1>0 DEF DecoderFollows
  <2>2. mode = "encoding" /\ stack = <<>>
    BY <2>1 DEF Decode, IInv, Sources
  <2>3. PICK turns : \E last \in turns : last.stack = <<>> /\ Explains(tree, bytes, turns, last)
    BY <2>2 DEF IInv, EncoderRan
  <2>4. PICK last \in turns : last.stack = <<>> /\ Explains(tree, bytes, turns, last)
    BY <2>3
  <2>5. [stack |-> stack', pos |-> pos', seen |-> DOMAIN out'] = AtRoot
    BY <1>0, DefaultIsTree DEF AtRoot
  <2>6. AtRoot \in turns /\ \A p \in DOMAIN out' : out'[p] = tree'[p]
    BY <1>0, <2>4, DefaultIsTree DEF Explains
  <2> QED
    BY <1>0, <2>4, <2>5, <2>6 DEF DecoderFollows
<1> QED
  BY <1>1, <1>2 DEF IInv

\* What the decoder reads at an empty slot of its own tree's encoding.
LEMMA DecodeLeafStep == ASSUME IInv, DecodeLeaf PROVE IInv'
<1> DEFINE slot == Last(stack)
           here == [stack |-> stack, pos |-> pos, seen |-> DOMAIN out]
<1>0. /\ mode = "decoding" /\ stack # <<>> /\ bytes[pos + 1] = Leaf
      /\ pos' = pos + 1 /\ stack' = Front(stack)
      /\ tree' = tree /\ mode' = mode /\ source' = source /\ bytes' = bytes /\ out' = out
  BY DEF DecodeLeaf
<1>1. /\ stack \in Seq(Slot) /\ DOMAIN stack = 1..Len(stack) /\ Len(stack) \in Nat /\ pos \in Nat
      /\ slot \in Slot /\ Front(stack) \in Seq(Slot) /\ DOMAIN Front(stack) = 1..Len(stack) - 1
      /\ \A i \in 1..Len(stack) - 1 : Front(stack)[i] = stack[i]
  <2>1. stack \in Seq(Slot) /\ pos \in Nat
    BY DEF IInv, TypeOK
  <2>2. /\ slot \in Slot /\ Front(stack) \in Seq(Slot) /\ Len(Front(stack)) = Len(stack) - 1
        /\ \A i \in 1..Len(stack) - 1 : Front(stack)[i] = stack[i]
    BY <1>0, <2>1, FrontLast
  <2> QED
    BY <2>1, <2>2
<1>2. TypeOK' /\ Sources' /\ EncoderRan'
  BY <1>0, <1>1 DEF IInv, TypeOK, Sources, EncoderRan
<1>3. Hangs'
  <2>1. \A i \in DOMAIN stack' : i \in DOMAIN stack /\ stack'[i] = stack[i]
    BY <1>0, <1>1
  <2> QED
    BY <1>0, <2>1 DEF IInv, Hangs
<1>4. DecoderFollows'
  <2>1. SUFFICES ASSUME source = "own"
                 PROVE  DecoderFollows'
    BY <1>0 DEF DecoderFollows
  <2>2. PICK turns, last : Follows(turns, last, here)
    BY <1>0, <2>1, DecoderStands DEF IInv
  <2>3. here.stack = stack /\ here.pos = pos /\ here.seen = DOMAIN out
    OBVIOUS
  <2>4. ~has(tree, slot)
    <3>1. has(tree, slot) => bytes[pos + 1] = Inner
      BY <1>0, <2>2, <2>3 DEF Follows, Written
    <3> QED
      BY <1>0, <3>1 DEF Leaf, Inner
  <2>5. Turned(tree, here) = [stack |-> stack', pos |-> pos', seen |-> DOMAIN out']
    BY <1>0, <2>3, <2>4 DEF Turned
  <2>6. Turned(tree, here) \in turns
    BY <1>0, <2>2 DEF Follows
  <2> QED
    BY <1>0, <2>2, <2>5, <2>6 DEF Follows, DecoderFollows
<1> QED
  BY <1>2, <1>3, <1>4 DEF IInv

\* What the decoder reads at a node, and the tree it builds from any bytes.
LEMMA DecodeInnerStep == ASSUME IInv, DecodeInner PROVE IInv'
<1> DEFINE slot == Last(stack)
           here == [stack |-> stack, pos |-> pos, seen |-> DOMAIN out]
<1>0. /\ mode = "decoding" /\ stack # <<>> /\ bytes[pos + 1] = Inner /\ pos + 1 < Len(bytes)
      /\ pos' = pos + 2 /\ stack' = push_children(Front(stack), slot)
      /\ out' = with_node(out, slot, bytes[pos + 2])
      /\ tree' = tree /\ mode' = mode /\ source' = source /\ bytes' = bytes
  BY DEF DecodeInner
<1>1. /\ stack \in Seq(Slot) /\ DOMAIN stack = 1..Len(stack) /\ Len(stack) \in Nat /\ pos \in Nat
      /\ slot \in Slot /\ Front(stack) \in Seq(Slot) /\ Len(Front(stack)) = Len(stack) - 1
      /\ Len(stack) >= 1 /\ slot = stack[Len(stack)]
      /\ \A i \in 1..Len(stack) - 1 : Front(stack)[i] = stack[i]
  BY <1>0, FrontLast DEF IInv, TypeOK, Last
<1>2. bytes[pos + 2] \in Nat
  BY <1>0, <1>1 DEF IInv, TypeOK
<1>3. \A k \in 0..Len(slot) - 1 : SubSeq(slot, 1, k) \in DOMAIN out
  <2>1. CASE slot = <<>>
    BY <2>1
  <2>2. CASE slot # <<>>
    <3>1. Front(slot) \in DOMAIN out
      BY <1>0, <1>1, <2>2 DEF IInv, Hangs
    <3>2. \A k \in 0..Len(slot) - 1 :
            k \in 0..Len(Front(slot)) /\ SubSeq(Front(slot), 1, k) = SubSeq(slot, 1, k)
      BY <1>1, <2>2, AboveFront
    <3>3. \A k \in 0..Len(Front(slot)) : SubSeq(Front(slot), 1, k) \in DOMAIN out
      BY <3>1 DEF IInv, TypeOK, IsTree
    <3> QED
      BY <3>2, <3>3
  <2> QED
    BY <2>1, <2>2
<1>4. /\ IsTree(out') /\ DOMAIN out' = DOMAIN out \union {slot} /\ out'[slot] = bytes[pos + 2]
      /\ \A q \in DOMAIN out : q # slot => out'[q] = out[q]
  <2>1. IsTree(out)
    BY DEF IInv, TypeOK
  <2> DEFINE v == bytes[pos + 2]
  <2>2. slot \in Slot /\ v \in Nat
    BY <1>1, <1>2
  <2> HIDE DEF slot, v
  <2>3. /\ IsTree(with_node(out, slot, v)) /\ DOMAIN with_node(out, slot, v) = DOMAIN out \union {slot}
        /\ with_node(out, slot, v)[slot] = v
        /\ \A q \in DOMAIN out : q # slot => with_node(out, slot, v)[q] = out[q]
    BY <1>3, <2>1, <2>2, WithNode
  <2>4. out' = with_node(out, slot, v)
    BY <1>0 DEF v
  <2> QED
    BY <2>3, <2>4 DEF v
<1>5. /\ stack' \in Seq(Slot) /\ Len(stack') = Len(stack) + 1 /\ DOMAIN stack' = 1..Len(stack) + 1
      /\ \A i \in 1..Len(stack) - 1 : stack'[i] = stack[i]
      /\ stack'[Len(stack)] = right(slot) /\ stack'[Len(stack) + 1] = left(slot)
  <2>1. /\ stack' \in Seq(Slot) /\ Len(stack') = Len(Front(stack)) + 2
        /\ \A i \in 1..Len(Front(stack)) : stack'[i] = Front(stack)[i]
        /\ stack'[Len(Front(stack)) + 1] = right(slot) /\ stack'[Len(Front(stack)) + 2] = left(slot)
    BY <1>0, <1>1, PushChildren
  <2> QED
    BY <1>1, <2>1
<1>6. TypeOK' /\ Sources' /\ EncoderRan'
  BY <1>0, <1>1, <1>4, <1>5 DEF IInv, TypeOK, Sources, EncoderRan
<1>7. Hangs'
  <2>1. Front(left(slot)) = slot /\ Front(right(slot)) = slot
    BY <1>1 DEF left, right, Front, Slot, Bit
  <2>2. ASSUME NEW i \in DOMAIN stack'
        PROVE  stack'[i] = <<>> \/ Front(stack'[i]) \in DOMAIN out'
    <3>1. CASE i \in 1..Len(stack) - 1
      <4>1. i \in DOMAIN stack /\ stack'[i] = stack[i]
        BY <1>1, <1>5, <3>1
      <4> QED
        BY <1>0, <1>4, <4>1 DEF IInv, Hangs
    <3>2. CASE i = Len(stack) \/ i = Len(stack) + 1
      BY <1>4, <1>5, <2>1, <3>2
    <3> QED
      BY <1>1, <1>5, <3>1, <3>2
  <2> QED
    BY <2>2 DEF Hangs
<1>8. DecoderFollows'
  <2>1. SUFFICES ASSUME source = "own"
                 PROVE  DecoderFollows'
    BY <1>0 DEF DecoderFollows
  <2>2. PICK turns, last : Follows(turns, last, here)
    BY <1>0, <2>1, DecoderStands DEF IInv
  <2>3. here.stack = stack /\ here.pos = pos /\ here.seen = DOMAIN out
    OBVIOUS
  <2>4. has(tree, slot) /\ bytes[pos + 2] = tree[slot]
    <3>1. ~has(tree, slot) => bytes[pos + 1] = Leaf
      BY <1>0, <2>2, <2>3 DEF Follows, Written
    <3>2. has(tree, slot)
      BY <1>0, <3>1 DEF Leaf, Inner
    <3> QED
      BY <1>0, <2>2, <2>3, <3>2 DEF Follows, Written
  <2>5. Turned(tree, here) = [stack |-> stack', pos |-> pos', seen |-> DOMAIN out']
    BY <1>0, <1>4, <2>3, <2>4 DEF Turned
  <2>6. Turned(tree, here) \in turns
    BY <1>0, <2>2 DEF Follows
  <2>7. \A p \in DOMAIN out' : out'[p] = tree'[p]
    BY <1>0, <1>4, <2>2, <2>4 DEF Follows
  <2> QED
    BY <1>0, <2>2, <2>5, <2>6, <2>7 DEF Follows, DecoderFollows
<1> QED
  BY <1>6, <1>7, <1>8 DEF IInv

\* Decoding the tree's own encoding meets neither the end of the bytes nor a strange marker.
LEMMA DecodeErrorStep == ASSUME IInv, DecodeError PROVE IInv'
<1> DEFINE here == [stack |-> stack, pos |-> pos, seen |-> DOMAIN out]
<1>0. /\ mode = "decoding" /\ stack # <<>> /\ mode' = "failed"
      /\ UNCHANGED <<tree, source, bytes, pos, stack, out>>
  BY DEF DecodeError
<1>1. source # "own"
  <2>1. SUFFICES ASSUME source = "own"
                 PROVE  FALSE
    OBVIOUS
  <2>2. PICK turns, last : Follows(turns, last, here)
    BY <1>0, <2>1, DecoderStands DEF IInv
  <2>3. here.stack = stack /\ here.pos = pos /\ pos \in Nat /\ Len(bytes) \in Nat
    BY DEF IInv, TypeOK
  <2>4. /\ has(tree, Last(stack)) => pos + 2 <= Len(bytes) /\ bytes[pos + 1] = Inner
        /\ ~has(tree, Last(stack)) => pos + 1 <= Len(bytes) /\ bytes[pos + 1] = Leaf
    BY <1>0, <2>2, <2>3 DEF Follows, Written
  <2> QED
    BY <2>3, <2>4 DEF DecodeError, Leaf, Inner
<1> QED
  BY <1>0, <1>1 DEF IInv, TypeOK, Modes, Sources, Hangs, EncoderRan, DecoderFollows

\* decode returns the tree that was encoded, or a tree where there was none.
LEMMA DecodedTree ==
  ASSUME IInv, mode = "decoding", stack = <<>>
  PROVE  /\ Grows(tree, out)
         /\ source = "own" => out = tree /\ pos = Len(bytes)
<1> DEFINE here == [stack |-> stack, pos |-> pos, seen |-> DOMAIN out]
<1>1. CASE source = "own"
  <2>1. PICK turns, last : Follows(turns, last, here)
    BY <1>1, DecoderStands DEF IInv
  <2>2. here.stack = <<>> /\ here.pos = pos /\ here.seen = DOMAIN out
    OBVIOUS
  <2>3. here = last
    BY <2>1, <2>2 DEF Follows, Explains
  <2>4. pos = Len(bytes)
    BY <2>1, <2>2, <2>3 DEF Follows, Explains
  <2>5. DOMAIN out = DOMAIN tree
    <3>1. Covers(tree, here)
      BY <2>1 DEF Follows, Explains
    <3>2. DOMAIN here.stack = {}
      BY <2>2
    <3> QED
      BY <2>2, <3>1, <3>2 DEF Covers
  <2>6. out = tree
    <3>1. \A p \in DOMAIN out : out[p] = tree[p]
      BY <2>1 DEF Follows
    <3>2. tree \in [DOMAIN tree -> Nat] /\ out \in [DOMAIN tree -> Nat]
      BY <2>5 DEF IInv, TypeOK, IsTree
    <3> QED
      BY <2>5, <3>1, <3>2
  <2> QED
    BY <2>4, <2>6 DEF Grows, has
<1>2. CASE source # "own"
  <2>1. DOMAIN tree = {}
    BY <1>2, DefaultIsTree DEF IInv, TypeOK, Sources
  <2> QED
    BY <1>2, <2>1 DEF Grows
<1> QED
  BY <1>1, <1>2

\* decode returns the tree.
LEMMA DecodedStep == ASSUME IInv, Decoded PROVE IInv'
<1>1. IsTree(out)
  BY DEF IInv, TypeOK
<1>2. <<>> \in Seq(Nat) /\ <<>> \in Seq(Slot)
  OBVIOUS
<1> QED
  BY <1>1, <1>2, DefaultIsTree
  DEF Decoded, IInv, TypeOK, Modes, Sources, Hangs, EncoderRan, DecoderFollows

\* An insertion leaves the codec alone.
LEMMA InsertStep ==
  ASSUME IInv, mode = "idle", UNCHANGED <<mode, source, bytes, pos, stack, out>>, IsTree(tree')
  PROVE  IInv'
  BY DEF IInv, TypeOK, Sources, Hangs, EncoderRan, DecoderFollows

\* Insertions, through the tree and through a node of it.
LEMMA InsertionGrows ==
  ASSUME IInv,
         \/ \E path \in Path, value \in Values : Insert(path, value)
         \/ \E origin, path \in Path, value \in Values : InsertBelow(origin, path, value)
  PROVE  IInv' /\ Grows(tree, tree')
<1>0. IsTree(tree) /\ Values \subseteq Nat
  BY BinaryTreeAssumption DEF IInv, TypeOK
<1>1. ASSUME NEW path \in Path, NEW value \in Values, Insert(path, value)
      PROVE  IInv' /\ Grows(tree, tree')
  <2>1. path \in Slot /\ value \in Nat
    BY <1>0, PathIsSlot
  <2>2. tree' = BinaryTree_insert(tree, path, value)
    BY <1>1 DEF Insert
  <2>3. IsTree(tree') /\ Grows(tree, tree')
    BY <1>0, <2>1, <2>2, TreeInsertGrows
  <2> QED
    BY <1>1, <2>3, InsertStep DEF Insert
<1>2. ASSUME NEW origin \in Path, NEW path \in Path, NEW value \in Values,
             InsertBelow(origin, path, value)
      PROVE  IInv' /\ Grows(tree, tree')
  <2>1. origin \in Slot /\ path \in Slot /\ value \in Nat
    BY <1>0, PathIsSlot
  <2>2. has(tree, origin) /\ tree' = Node_insert(tree, origin, path, value)
    BY <1>2 DEF InsertBelow
  <2>3. IsTree(tree') /\ Grows(tree, tree')
    BY <1>0, <2>1, <2>2, NodeInsertGrows
  <2> QED
    BY <1>2, <2>3, InsertStep DEF InsertBelow
<1> QED
  BY <1>1, <1>2

\* The initial states.
LEMMA IInvInit == Init => IInv
<1> SUFFICES ASSUME Init
             PROVE  IInv
  OBVIOUS
<1>1. <<>> \in Seq(Nat) /\ <<>> \in Seq(Slot) /\ Received \subseteq Seq(Nat)
  BY BinaryTreeAssumption
<1> QED
  BY <1>1, DefaultIsTree
  DEF Init, IInv, TypeOK, Modes, Sources, Hangs, EncoderRan, DecoderFollows

\* Every step keeps the invariant, and every step keeps what is in the tree.
LEMMA IInvStep ==
  ASSUME IInv, [Next]_vars
  PROVE  IInv' /\ Grows(tree, tree')
<1>1. CASE UNCHANGED vars
  BY <1>1 DEF vars, IInv, TypeOK, Sources, Hangs, EncoderRan, DecoderFollows, Grows, has
<1>2. CASE \/ \E path \in Path, value \in Values : Insert(path, value)
           \/ \E origin, path \in Path, value \in Values : InsertBelow(origin, path, value)
  BY <1>2, InsertionGrows
<1>3. ASSUME tree' = tree
      PROVE  Grows(tree, tree')
  BY <1>3 DEF Grows, has
<1>4. CASE Encode
  BY <1>3, <1>4, EncodeStep DEF Encode
<1>5. CASE EncodeSlot
  BY <1>3, <1>5, EncodeSlotStep DEF EncodeSlot
<1>6. CASE Decode
  BY <1>3, <1>6, DecodeStep DEF Decode
<1>7. CASE DecodeLeaf
  BY <1>3, <1>7, DecodeLeafStep DEF DecodeLeaf
<1>8. CASE DecodeInner
  BY <1>3, <1>8, DecodeInnerStep DEF DecodeInner
<1>9. CASE DecodeError
  BY <1>3, <1>9, DecodeErrorStep DEF DecodeError
<1>10. CASE Decoded
  BY <1>10, DecodedStep, DecodedTree DEF Decoded
<1> QED
  BY <1>1, <1>2, <1>4, <1>5, <1>6, <1>7, <1>8, <1>9, <1>10 DEF Next

-----------------------------------------------------------------------------
\* Every tree is restored from its encoding, whatever values it holds and however large it is:
\* BinaryTree::encode, followed by BinaryTree::decode, never fails, loses, moves or invents a
\* node, and leaves no byte.
THEOREM TreesAreRestored == Spec => []RoundTrip
<1>1. IInv => RoundTrip
  <2> SUFFICES ASSUME IInv, source = "own"
               PROVE  /\ mode # "failed"
                      /\ (mode = "decoding" /\ stack = <<>>) => (out = tree /\ pos = Len(bytes))
    BY DEF RoundTrip
  <2>1. mode # "failed"
    BY DEF IInv, Sources
  <2> QED
    BY <2>1, DecodedTree
<1>2. IInv /\ [Next]_vars => IInv'
  BY IInvStep
<1> QED
  BY <1>1, <1>2, IInvInit, PTL DEF Spec

\* The tree is append-only: no insertion through the tree or through a node of it, and no save
\* and restore, moves, changes or drops a node.
THEOREM TreeOnlyGrows == Spec => AppendOnly
<1>1. IInv /\ [Next]_vars => [\A path \in DOMAIN tree : has(tree', path) /\ tree'[path] = tree[path]]_tree
  BY IInvStep DEF Grows
<1>2. IInv /\ [Next]_vars => IInv'
  BY IInvStep
<1> QED
  BY <1>1, <1>2, IInvInit, PTL DEF Spec, AppendOnly

-----------------------------------------------------------------------------
(* The encoding of a tree is unique.  The bytes that arrive are nobody's   *)
(* encoding at first, so what the decoder's turns read is told in terms of *)
(* the tree that they have built so far; and once the last slot has been   *)
(* visited, the turns are followed backwards: from each of them on, the    *)
(* bytes are the encodings of the slots on the stack, the top one first.   *)

SlotsOf(t) ==
  DOMAIN t \union {left(p) : p \in DOMAIN t} \union {right(p) : p \in DOMAIN t} \union {<<>>}

\* The encoding of the slot p, from those of the slots below it.
SlotCode(t, f, p) ==
  IF has(t, p) THEN <<Inner, t[p]>> \o f[left(p)] \o f[right(p)] ELSE <<Leaf>>

IsCode(f, t) == \A p \in SlotsOf(t) : f[p] = SlotCode(t, f, p)

Shallow(t, n) == \A p \in DOMAIN t : Len(p) < n

\* The slots below a node.
LEMMA SlotsBelow ==
  ASSUME NEW t, IsTree(t), NEW p \in DOMAIN t
  PROVE  /\ p \in Slot /\ left(p) \in SlotsOf(t) /\ right(p) \in SlotsOf(t)
         /\ Len(left(p)) = Len(p) + 1 /\ Len(right(p)) = Len(p) + 1 /\ Len(p) \in Nat
<1>1. p \in Seq({0, 1})
  BY DEF IsTree, Slot, Bit
<1>2. Len(left(p)) = Len(p) + 1 /\ Len(right(p)) = Len(p) + 1 /\ Len(p) \in Nat
  BY <1>1 DEF left, right
<1>3. left(p) \in SlotsOf(t) /\ right(p) \in SlotsOf(t)
  BY DEF SlotsOf
<1> QED
  BY <1>1, <1>2, <1>3 DEF Slot, Bit

\* The slots of a tree are slots.
LEMMA SlotsAreSlots ==
  ASSUME NEW t, IsTree(t), NEW p \in SlotsOf(t)
  PROVE  p \in Slot /\ Len(p) \in Nat
<1>1. CASE p \in DOMAIN t
  BY <1>1 DEF IsTree, Slot
<1>2. ASSUME NEW q \in DOMAIN t, p = left(q) \/ p = right(q)
      PROVE  p \in Slot
  <2>1. q \in Seq({0, 1})
    BY DEF IsTree, Slot, Bit
  <2> QED
    BY <1>2, <2>1 DEF left, right, Slot, Bit
<1>3. CASE p = <<>>
  BY <1>3 DEF Slot
<1>4. p \in Slot
  BY <1>1, <1>2, <1>3 DEF SlotsOf
<1> QED
  BY <1>4 DEF Slot

\* The recursion of preorder ends: a tree without infinite paths has an encoding.
LEMMA PreorderIs ==
  ASSUME NEW t, IsTree(t), NEW n \in Nat, Shallow(t, n)
  PROVE  \E f : IsCode(f, t) /\ preorder(t) = f[<<>>]
<1> DEFINE D == SlotsOf(t)
           Deep(k, p) == Len(p) >= n - k
           Good(f, k) == \A p \in D : Deep(k, p) => f[p] = SlotCode(t, f, p)
           S == {k \in 0..n : \E f : f = [p \in D |-> f[p]] /\ Good(f, k)}
<1>1. 0 \in S
  <2> DEFINE f == [p \in D |-> <<Leaf>>]
  <2>1. ASSUME NEW p \in D, Deep(0, p)
        PROVE  f[p] = SlotCode(t, f, p)
    <3>1. ~has(t, p)
      <4>1. Len(p) \in Nat
        BY SlotsAreSlots
      <4> QED
        BY <2>1, <4>1 DEF Shallow, has
    <3> QED
      BY <3>1 DEF SlotCode
  <2>2. f = [p \in D |-> f[p]] /\ Good(f, 0)
    BY <2>1
  <2> HIDE DEF f, Good, D
  <2> QED
    BY <2>2
<1>2. ASSUME NEW k \in 0..n - 1, k \in S
      PROVE  k + 1 \in S
  <2>1. PICK f : f = [p \in D |-> f[p]] /\ Good(f, k)
    BY <1>2
  <2> DEFINE h == [p \in D |-> IF Deep(k, p) THEN f[p] ELSE SlotCode(t, f, p)]
  <2>2. ASSUME NEW p \in D, Deep(k + 1, p)
        PROVE  h[p] = SlotCode(t, f, p) /\ SlotCode(t, h, p) = SlotCode(t, f, p)
    <3>1. h[p] = SlotCode(t, f, p)
      BY <2>1
    <3>2. CASE has(t, p)
      <4>1. /\ left(p) \in D /\ right(p) \in D
            /\ Len(left(p)) = Len(p) + 1 /\ Len(right(p)) = Len(p) + 1 /\ Len(p) \in Nat
        BY <3>2, SlotsBelow DEF has
      <4>2. Deep(k, left(p)) /\ Deep(k, right(p))
        BY <2>2, <4>1
      <4>3. h[left(p)] = f[left(p)] /\ h[right(p)] = f[right(p)]
        BY <4>1, <4>2
      <4> QED
        BY <3>1, <4>3 DEF SlotCode
    <3>3. CASE ~has(t, p)
      BY <3>1, <3>3 DEF SlotCode
    <3> QED
      BY <3>2, <3>3
  <2>3. h = [p \in D |-> h[p]] /\ Good(h, k + 1)
    BY <2>2
  <2>4. k + 1 \in 0..n
    OBVIOUS
  <2> HIDE DEF h, Good, D
  <2> QED
    BY <2>3, <2>4
<1>3. n \in S
  <2> HIDE DEF S
  <2>1. 0..n \subseteq S
    BY <1>1, <1>2, IntervalInduction
  <2> QED
    BY <2>1
<1>4. PICK f : f = [p \in D |-> f[p]] /\ Good(f, n)
  BY <1>3
<1> DEFINE Is(g) == g = [p \in D |-> SlotCode(t, g, p)]
<1>5. Is(f)
  <2>1. \A p \in D : Deep(n, p)
    BY SlotsAreSlots
  <2>2. \A p \in D : f[p] = SlotCode(t, f, p)
    BY <1>4, <2>1
  <2> HIDE DEF D
  <2> QED
    BY <1>4, <2>2
<1> DEFINE c == CHOOSE g : Is(g)
<1>6. Is(c)
  <2> HIDE DEF Is
  <2> QED
    BY <1>5
<1>7. preorder(t) = c[<<>>]
  BY DEF preorder, SlotsOf, SlotCode
<1>8. IsCode(c, t)
  <2> HIDE DEF c
  <2> QED
    BY <1>6 DEF IsCode
<1> HIDE DEF c
<1> QED
  BY <1>7, <1>8

\* Neighbouring parts of a sequence.
LEMMA PartsJoin ==
  ASSUME NEW b \in Seq(Nat), NEW i \in Nat, NEW j \in Nat, NEW k \in Nat,
         i <= j, j <= k, k <= Len(b)
  PROVE  SubSeq(b, i + 1, j) \o SubSeq(b, j + 1, k) = SubSeq(b, i + 1, k)
<1> DEFINE m == i + 1
<1>1. m \in 1..Len(b) + 1 /\ j \in m - 1..Len(b) /\ k \in j..Len(b)
  OBVIOUS
<1> HIDE DEF m
<1>2. SubSeq(b, m, j) \o SubSeq(b, j + 1, k) = SubSeq(b, m, k)
  BY <1>1, ConcatAdjacentSubSeq
<1> QED
  BY <1>2 DEF m

\* Parts of one and of two elements.
LEMMA ShortParts ==
  ASSUME NEW b \in Seq(Nat), NEW p \in Nat, p + 1 <= Len(b)
  PROVE  /\ SubSeq(b, p + 1, p + 1) = <<b[p + 1]>>
         /\ p + 2 <= Len(b) => SubSeq(b, p + 1, p + 2) = <<b[p + 1], b[p + 2]>>
<1>0. \A i \in 1..Len(b) : b[i] \in Nat
  BY ElementOfSeq
<1>1. SubSeq(b, p + 1, p + 1) = <<b[p + 1]>>
  <2> DEFINE x == SubSeq(b, p + 1, p + 1)
             v == b[p + 1]
             y == <<v>>
  <2>1. x \in Seq(Nat) /\ Len(x) = 1 /\ x[1] = v
    OBVIOUS
  <2>2. y \in Seq(Nat) /\ Len(y) = 1 /\ y[1] = v
    BY <1>0
  <2> HIDE DEF x, y
  <2>3. \A i \in 1..Len(x) : x[i] = y[i]
    BY <2>1, <2>2
  <2>4. x = y
    BY <2>1, <2>2, <2>3, SeqEqual
  <2> QED
    BY <2>4 DEF x, y
<1>2. ASSUME p + 2 <= Len(b)
      PROVE  SubSeq(b, p + 1, p + 2) = <<b[p + 1], b[p + 2]>>
  <2> DEFINE x == SubSeq(b, p + 1, p + 2)
             v == b[p + 1]
             w == b[p + 2]
             y == <<v, w>>
  <2>1. x \in Seq(Nat) /\ Len(x) = 2 /\ x[1] = v /\ x[2] = w
    BY <1>2
  <2>2. y \in Seq(Nat) /\ Len(y) = 2 /\ y[1] = v /\ y[2] = w
    BY <1>0, <1>2
  <2> HIDE DEF x, y
  <2>3. \A i \in 1..Len(x) : x[i] = y[i]
    BY <2>1, <2>2
  <2>4. x = y
    BY <2>1, <2>2, <2>3, SeqEqual
  <2> QED
    BY <2>4 DEF x, y
<1> QED
  BY <1>1, <1>2

\* A slot that belongs to a node, or is the root's.
HangsFrom(t, q) == q = <<>> \/ Front(q) \in DOMAIN t

LEMMA HangingSlot ==
  ASSUME NEW t, IsTree(t), NEW q \in Slot, HangsFrom(t, q)
  PROVE  q \in SlotsOf(t)
<1>1. CASE q = <<>>
  BY <1>1 DEF SlotsOf
<1>2. CASE q # <<>>
  <2> DEFINE p == Front(q)
  <2>1. p \in DOMAIN t
    BY <1>2 DEF HangsFrom
  <2>2. q = Append(p, Last(q)) /\ Last(q) \in Bit
    <3>1. q \in Seq(Bit) /\ Len(q) \in Nat /\ Len(q) >= 1 /\ Last(q) \in Bit
      BY <1>2, FrontLast DEF Slot
    <3>2. p \in Seq(Bit) /\ Len(p) = Len(q) - 1 /\ \A i \in 1..Len(q) - 1 : p[i] = q[i]
      BY <1>2, FrontLast DEF Slot
    <3> HIDE DEF p
    <3> DEFINE a == Append(p, Last(q))
    <3>3. a \in Seq(Bit) /\ Len(a) = Len(q) /\ a[Len(q)] = q[Len(q)]
      BY <3>1, <3>2 DEF Last
    <3>4. \A i \in 1..Len(q) : a[i] = q[i]
      BY <3>1, <3>2 DEF Last
    <3>5. a = q
      <4> HIDE DEF a
      <4> QED
        BY <3>1, <3>3, <3>4, SeqEqual
    <3> QED
      BY <3>1, <3>5
  <2>3. q = left(p) \/ q = right(p)
    BY <2>2 DEF left, right, Bit
  <2> QED
    BY <2>1, <2>3 DEF SlotsOf
<1> QED
  BY <1>1, <1>2

\* From the situation c on, up to the position end, the bytes are the encodings of the slots
\* on the stack; e has the positions where they begin and end.
Ahead(f, b, c, end, e) ==
  /\ e \in [0..Len(c.stack) -> Nat]
  /\ e[0] = end /\ e[Len(c.stack)] = c.pos /\ end <= Len(b)
  /\ \A i \in 1..Len(c.stack) :
        /\ e[i] <= e[i - 1] /\ e[i - 1] <= Len(b)
        /\ SubSeq(b, e[i] + 1, e[i - 1]) = f[c.stack[i]]

\* If that holds after a turn, it holds before it.
LEMMA TurnBack ==
  ASSUME NEW t, IsTree(t), NEW f, IsCode(f, t), NEW b \in Seq(Nat),
         NEW c \in Situation, c.stack # <<>>, Written(t, b, c), HangsFrom(t, Last(c.stack)),
         NEW end, NEW d, Ahead(f, b, Turned(t, c), end, d)
  PROVE  \E e : Ahead(f, b, c, end, e)
<1> DEFINE slot == Last(c.stack)
           n == Len(c.stack)
           e == [i \in 0..n |-> IF i = n THEN c.pos ELSE d[i]]
<1>1. /\ slot \in Slot /\ Front(c.stack) \in Seq(Slot) /\ c.pos \in Nat
      /\ Len(Front(c.stack)) = n - 1 /\ n \in Nat /\ n >= 1 /\ slot = c.stack[n]
      /\ \A i \in 1..n - 1 : Front(c.stack)[i] = c.stack[i]
  BY FrontLast DEF Situation, Last
<1>2. f[slot] = SlotCode(t, f, slot)
  BY <1>1, HangingSlot DEF IsCode
<1> HIDE DEF slot, n
<1>3. SUFFICES /\ \A i \in 0..n - 1 : d[i] \in Nat
               /\ d[0] = end /\ end <= Len(b)
               /\ \A i \in 1..n - 1 : /\ d[i] <= d[i - 1] /\ d[i - 1] <= Len(b)
                                      /\ SubSeq(b, d[i] + 1, d[i - 1]) = f[c.stack[i]]
               /\ c.pos <= d[n - 1] /\ d[n - 1] <= Len(b)
               /\ SubSeq(b, c.pos + 1, d[n - 1]) = f[slot]
  <2>1. e \in [0..n -> Nat] /\ e[0] = end /\ e[n] = c.pos
    BY <1>1, <1>3
  <2>2. ASSUME NEW i \in 1..n
        PROVE  /\ e[i] <= e[i - 1] /\ e[i - 1] <= Len(b)
               /\ SubSeq(b, e[i] + 1, e[i - 1]) = f[c.stack[i]]
    <3>1. e[i - 1] = d[i - 1]
      BY <1>1
    <3>2. CASE i = n
      BY <1>1, <1>3, <3>1, <3>2
    <3>3. CASE i # n
      <4>1. i \in 1..n - 1 /\ e[i] = d[i]
        BY <1>1, <3>3
      <4> QED
        BY <1>3, <3>1, <4>1
    <3> QED
      BY <3>2, <3>3
  <2> HIDE DEF e
  <2>3. Ahead(f, b, c, end, e)
    BY <1>3, <2>1, <2>2 DEF Ahead, n
  <2> QED
    BY <2>3
<1>4. CASE ~has(t, slot)
  <2> DEFINE s == Front(c.stack)
  <2>1. Turned(t, c).stack = s /\ Turned(t, c).pos = c.pos + 1
    BY <1>4 DEF Turned, slot
  <2>2. Len(s) = n - 1 /\ \A i \in 1..n - 1 : s[i] = c.stack[i]
    BY <1>1
  <2> HIDE DEF s
  <2>3. /\ d \in [0..n - 1 -> Nat] /\ d[0] = end /\ d[n - 1] = c.pos + 1 /\ end <= Len(b)
        /\ \A i \in 1..n - 1 : /\ d[i] <= d[i - 1] /\ d[i - 1] <= Len(b)
                               /\ SubSeq(b, d[i] + 1, d[i - 1]) = f[s[i]]
    BY <2>1, <2>2 DEF Ahead
  <2>4. c.pos + 1 <= Len(b) /\ b[c.pos + 1] = Leaf
    BY <1>4 DEF Written, slot
  <2>5. SubSeq(b, c.pos + 1, c.pos + 1) = <<Leaf>>
    BY <1>1, <2>4, ShortParts
  <2>6. f[slot] = <<Leaf>>
    BY <1>2, <1>4 DEF SlotCode
  <2>7. c.pos <= d[n - 1] /\ d[n - 1] <= Len(b)
    BY <1>1, <2>3, <2>4
  <2>8. \A i \in 0..n - 1 : d[i] \in Nat
    BY <2>3
  <2>9. SubSeq(b, c.pos + 1, d[n - 1]) = f[slot]
    BY <2>3, <2>5, <2>6
  <2> QED
    BY <2>2, <2>3, <2>7, <2>8, <2>9
<1>5. CASE has(t, slot)
  <2> DEFINE s == push_children(Front(c.stack), slot)
  <2>1. Turned(t, c).stack = s /\ Turned(t, c).pos = c.pos + 2
    BY <1>5 DEF Turned, slot
  <2>2. /\ Len(s) = n + 1 /\ \A i \in 1..n - 1 : s[i] = c.stack[i]
        /\ s[n] = right(slot) /\ s[n + 1] = left(slot)
    <3>1. /\ Len(s) = Len(Front(c.stack)) + 2
          /\ \A i \in 1..Len(Front(c.stack)) : s[i] = Front(c.stack)[i]
          /\ s[Len(Front(c.stack)) + 1] = right(slot) /\ s[Len(Front(c.stack)) + 2] = left(slot)
      BY <1>1, PushChildren
    <3> HIDE DEF s
    <3>2. Len(Front(c.stack)) + 2 = n + 1 /\ Len(Front(c.stack)) + 1 = n
      BY <1>1
    <3>3. \A i \in 1..n - 1 : s[i] = c.stack[i]
      BY <1>1, <3>1
    <3> QED
      BY <3>1, <3>2, <3>3
  <2> HIDE DEF s
  <2>3. /\ d \in [0..n + 1 -> Nat] /\ d[0] = end /\ d[n + 1] = c.pos + 2 /\ end <= Len(b)
        /\ \A i \in 1..n + 1 : /\ d[i] <= d[i - 1] /\ d[i - 1] <= Len(b)
                               /\ SubSeq(b, d[i] + 1, d[i - 1]) = f[s[i]]
    BY <2>1, <2>2 DEF Ahead
  <2>4. /\ d[n] <= d[n - 1] /\ d[n - 1] <= Len(b) /\ SubSeq(b, d[n] + 1, d[n - 1]) = f[right(slot)]
        /\ c.pos + 2 <= d[n] /\ SubSeq(b, c.pos + 3, d[n]) = f[left(slot)]
        /\ d[n] \in Nat /\ d[n - 1] \in Nat
    <3>1. n \in 1..n + 1 /\ n + 1 \in 1..n + 1 /\ (n + 1) - 1 = n /\ n - 1 \in 0..n + 1 /\ n \in 0..n + 1
      BY <1>1
    <3>2. /\ d[n] <= d[n - 1] /\ d[n - 1] <= Len(b) /\ SubSeq(b, d[n] + 1, d[n - 1]) = f[right(slot)]
          /\ d[n + 1] <= d[n] /\ SubSeq(b, d[n + 1] + 1, d[n]) = f[left(slot)]
      BY <2>2, <2>3, <3>1
    <3>3. d[n + 1] + 1 = c.pos + 3
      BY <1>1, <2>3
    <3> QED
      BY <2>3, <3>1, <3>2, <3>3
  <2>5. c.pos + 2 <= Len(b) /\ b[c.pos + 1] = Inner /\ b[c.pos + 2] = t[slot]
    BY <1>5 DEF Written, slot
  <2>6. f[slot] = <<Inner, t[slot]>> \o f[left(slot)] \o f[right(slot)]
    BY <1>2, <1>5 DEF SlotCode
  <2>7. SubSeq(b, c.pos + 1, d[n - 1]) = f[slot]
    <3> DEFINE p == c.pos
               q == c.pos + 2
               u == d[n]
               v == d[n - 1]
    <3>1. p \in Nat /\ q \in Nat /\ u \in Nat /\ v \in Nat /\ p <= q /\ q <= u /\ u <= v /\ v <= Len(b)
      <4> HIDE DEF u, v
      <4>1. u \in Nat /\ v \in Nat /\ c.pos + 2 <= u /\ u <= v /\ v <= Len(b)
        BY <2>4 DEF u, v
      <4> QED
        BY <1>1, <4>1
    <3>2. SubSeq(b, p + 1, q) = <<Inner, t[slot]>>
      <4>1. c.pos + 1 <= Len(b)
        BY <1>1, <2>5
      <4> QED
        BY <1>1, <2>5, <4>1, ShortParts
    <3>3. SubSeq(b, q + 1, u) = f[left(slot)] /\ SubSeq(b, u + 1, v) = f[right(slot)]
      <4>1. q + 1 = c.pos + 3
        BY <1>1
      <4> QED
        BY <2>4, <4>1
    <3> HIDE DEF p, q, u, v
    <3>4. SubSeq(b, p + 1, q) \o SubSeq(b, q + 1, u) = SubSeq(b, p + 1, u)
      BY <3>1, PartsJoin
    <3>5. SubSeq(b, p + 1, u) \o SubSeq(b, u + 1, v) = SubSeq(b, p + 1, v)
      <4>1. p <= u
        BY <3>1
      <4> QED
        BY <3>1, <4>1, PartsJoin
    <3>6. SubSeq(b, p + 1, v) = f[slot]
      BY <2>6, <3>2, <3>3, <3>4, <3>5
    <3> QED
      BY <3>6 DEF p, v
  <2>8. c.pos <= d[n - 1]
    BY <1>1, <2>4
  <2>9. \A i \in 1..n - 1 : i \in 1..n + 1 /\ s[i] = c.stack[i]
    BY <1>1, <2>2
  <2>10. \A i \in 0..n - 1 : d[i] \in Nat
    <3>1. \A i \in 0..n - 1 : i \in 0..n + 1
      BY <1>1
    <3> QED
      BY <2>3, <3>1
  <2> QED
    BY <2>3, <2>4, <2>7, <2>8, <2>9, <2>10
<1> QED
  BY <1>4, <1>5

\* The turns that read the tree t from the bytes b, up to the situation last.
Reads(t, b, turns, last) ==
  /\ AtRoot \in turns /\ last \in turns /\ last.pos <= Len(b)
  /\ \A c \in turns : c \in Situation /\ c.pos <= last.pos
  /\ \A c \in turns \ {last} :
        /\ c.stack # <<>> /\ Written(t, b, c) /\ Turned(t, c) \in turns
        /\ HangsFrom(t, Last(c.stack))

\* No slot is visited twice: those on the stack differ, hold no node, and were not visited.
Apart(t, turns, last) ==
  /\ \A i \in DOMAIN last.stack : last.stack[i] \notin DOMAIN t
  /\ \A i, j \in DOMAIN last.stack : i # j => last.stack[i] # last.stack[j]
  /\ \A c \in turns \ {last} : \A i \in DOMAIN last.stack : last.stack[i] # Last(c.stack)

\* Once no slot is left, the bytes read are the encoding of the root's slot.
LEMMA ReadsCode ==
  ASSUME NEW t, IsTree(t), NEW f, IsCode(f, t), NEW b \in Seq(Nat), NEW turns, NEW last,
         Reads(t, b, turns, last), last.stack = <<>>
  PROVE  SubSeq(b, 1, last.pos) = f[<<>>]
<1> DEFINE Good(c) == \E e : Ahead(f, b, c, last.pos, e)
           Bad == {m \in Nat : \E c \in turns : m = last.pos - c.pos /\ ~Good(c)}
<1>0. last \in turns /\ \A c \in turns : c \in Situation /\ c.pos \in Nat /\ c.pos <= last.pos
  BY DEF Reads, Situation
<1>1. Good(last)
  <2> DEFINE e == [i \in 0..0 |-> last.pos]
  <2>1. Len(last.stack) = 0 /\ last.pos \in Nat /\ last.pos <= Len(b)
    BY <1>0 DEF Reads
  <2>2. Ahead(f, b, last, last.pos, e)
    BY <2>1 DEF Ahead
  <2> HIDE DEF e
  <2> QED
    BY <2>2
<1>2. Good(AtRoot)
  <2>1. SUFFICES ASSUME ~Good(AtRoot)
                 PROVE  FALSE
    OBVIOUS
  <2>2. AtRoot \in turns /\ last.pos - AtRoot.pos \in Nat
    <3>1. AtRoot \in turns
      BY DEF Reads
    <3> QED
      BY <1>0, <3>1
  <2>3. Bad # {} /\ Bad \in SUBSET Nat
    <3> HIDE DEF Good
    <3> QED
      BY <2>1, <2>2
  <2>4. PICK m \in Bad : \A k \in Bad : m <= k
    <3> HIDE DEF Bad
    <3> QED
      BY <2>3, LeastElement
  <2>5. PICK c \in turns : m = last.pos - c.pos /\ ~Good(c)
    <3> HIDE DEF Good
    <3> QED
      BY <2>4
  <2> DEFINE d == Turned(t, c)
  <2>6. c # last
    BY <1>1, <2>5
  <2>7. /\ c \in Situation /\ c.stack # <<>> /\ Written(t, b, c) /\ d \in turns
        /\ HangsFrom(t, Last(c.stack))
    BY <1>0, <2>6 DEF Reads
  <2>8. d.pos > c.pos
    BY <1>0, <2>7 DEF Turned
  <2> HIDE DEF d
  <2>9. Good(d)
    <3>1. SUFFICES ASSUME ~Good(d)
                   PROVE  FALSE
      OBVIOUS
    <3> DEFINE k == last.pos - d.pos
    <3>2. k \in Nat /\ k < m
      BY <1>0, <2>5, <2>7, <2>8
    <3>3. k \in Bad
      <4> HIDE DEF Good
      <4> QED
        BY <2>7, <3>1, <3>2
    <3> HIDE DEF k
    <3> QED
      BY <2>4, <3>2, <3>3
  <2>10. PICK e : Ahead(f, b, d, last.pos, e)
    BY <2>9
  <2>11. Good(c)
    BY <2>7, <2>10, TurnBack DEF d
  <2> QED
    BY <2>5, <2>11
<1>3. PICK e : Ahead(f, b, AtRoot, last.pos, e)
  BY <1>2
<1>4. AtRoot.stack = << <<>> >> /\ AtRoot.pos = 0
  BY DEF AtRoot
<1>5. Len(AtRoot.stack) = 1 /\ AtRoot.stack[1] = <<>>
  BY <1>4
<1>6. e[0] = last.pos /\ e[1] = 0 /\ SubSeq(b, e[1] + 1, e[1 - 1]) = f[AtRoot.stack[1]]
  BY <1>3, <1>4, <1>5 DEF Ahead
<1> QED
  BY <1>5, <1>6

\* An empty slot is read.
LEMMA ReadLeaf ==
  ASSUME NEW t, NEW b \in Seq(Nat), NEW turns, NEW c, Reads(t, b, turns, c), Apart(t, turns, c),
         c.stack # <<>>, HangsFrom(t, Last(c.stack)), c.seen = DOMAIN t,
         c.pos < Len(b), b[c.pos + 1] = Leaf,
         NEW d, d = [stack |-> Front(c.stack), pos |-> c.pos + 1, seen |-> DOMAIN t]
  PROVE  \E more : Reads(t, b, more, d) /\ Apart(t, more, d)
<1> DEFINE slot == Last(c.stack)
           n == Len(c.stack)
           more == turns \union {d}
<1>0. c \in turns /\ c \in Situation /\ c.stack \in Seq(Slot) /\ c.pos \in Nat /\ DOMAIN c.stack = 1..n
  BY DEF Reads, Situation
<1>1. /\ slot \in Slot /\ d.stack \in Seq(Slot) /\ DOMAIN d.stack = 1..n - 1 /\ n \in Nat /\ n >= 1
      /\ slot = c.stack[n] /\ \A i \in 1..n - 1 : d.stack[i] = c.stack[i]
  <2>1. d.stack = Front(c.stack)
    OBVIOUS
  <2>2. /\ slot \in Slot /\ Front(c.stack) \in Seq(Slot) /\ Len(Front(c.stack)) = n - 1 /\ n \in Nat
        /\ n >= 1 /\ \A i \in 1..n - 1 : Front(c.stack)[i] = c.stack[i]
    BY <1>0, FrontLast
  <2>3. slot = c.stack[n]
    BY DEF Last
  <2> QED
    BY <2>1, <2>2, <2>3
<1>2. d.pos = c.pos + 1 /\ d.seen = DOMAIN t /\ d \in Situation
  BY <1>0, <1>1 DEF Situation
<1>3. slot \notin DOMAIN t
  BY <1>0, <1>1 DEF Apart
<1>4. Written(t, b, c) /\ Turned(t, c) = d
  BY <1>0, <1>3 DEF Written, Turned, has
<1>5. \A x \in turns : x \in Situation /\ x.pos \in Nat /\ x.pos <= c.pos
  BY DEF Reads, Situation
<1>6. d \notin turns /\ more \ {d} = turns
  BY <1>0, <1>2, <1>5
<1> HIDE DEF slot, n, more
<1>7. Reads(t, b, more, d)
  <2>1. AtRoot \in more /\ d \in more
    BY DEF Reads, more
  <2>2. d.pos <= Len(b)
    BY <1>0, <1>2
  <2>3. \A x \in more : x \in Situation /\ x.pos <= d.pos
    BY <1>0, <1>2, <1>5 DEF more
  <2>4. ASSUME NEW x \in turns
        PROVE  /\ x.stack # <<>> /\ Written(t, b, x) /\ Turned(t, x) \in more
               /\ HangsFrom(t, Last(x.stack))
    BY <1>4 DEF Reads, more, slot
  <2> QED
    BY <1>6, <2>1, <2>2, <2>3, <2>4 DEF Reads
<1>8. Apart(t, more, d)
  <2>1. \A i \in DOMAIN d.stack : i \in DOMAIN c.stack /\ d.stack[i] = c.stack[i] /\ i # n
    BY <1>0, <1>1
  <2>2. n \in DOMAIN c.stack
    BY <1>0, <1>1
  <2>3. ASSUME NEW x \in turns, NEW i \in DOMAIN d.stack
        PROVE  d.stack[i] # Last(x.stack)
    <3>1. CASE x = c
      BY <1>1, <2>1, <2>2, <3>1 DEF Apart, slot
    <3>2. CASE x # c
      BY <2>1, <3>2 DEF Apart
    <3> QED
      BY <3>1, <3>2
  <2> QED
    BY <1>6, <2>1, <2>3 DEF Apart
<1> QED
  BY <1>7, <1>8

\* A node is read: it is new, and so are the slots below it.
LEMMA ReadNode ==
  ASSUME NEW t, IsTree(t), NEW b \in Seq(Nat), NEW turns, NEW c,
         Reads(t, b, turns, c), Apart(t, turns, c),
         c.stack # <<>>, \A i \in DOMAIN c.stack : HangsFrom(t, c.stack[i]), c.seen = DOMAIN t,
         c.pos + 2 <= Len(b), b[c.pos + 1] = Inner,
         NEW u, u = with_node(t, Last(c.stack), b[c.pos + 2]),
         NEW d, d = [stack |-> push_children(Front(c.stack), Last(c.stack)), pos |-> c.pos + 2,
                     seen |-> DOMAIN u]
  PROVE  \E more : Reads(u, b, more, d) /\ Apart(u, more, d)
<1> DEFINE slot == Last(c.stack)
           n == Len(c.stack)
           more == turns \union {d}
<1>0. /\ c \in turns /\ c \in Situation /\ c.stack \in Seq(Slot) /\ c.pos \in Nat /\ DOMAIN c.stack = 1..n
      /\ c.seen \in SUBSET Slot
  BY DEF Reads, Situation
<1>1. /\ slot \in Slot /\ Front(c.stack) \in Seq(Slot) /\ Len(Front(c.stack)) = n - 1 /\ n \in Nat
      /\ n >= 1 /\ slot = c.stack[n] /\ \A i \in 1..n - 1 : Front(c.stack)[i] = c.stack[i]
  BY <1>0, FrontLast DEF Last
<1>2. /\ d.stack \in Seq(Slot) /\ Len(d.stack) = n + 1 /\ DOMAIN d.stack = 1..n + 1
      /\ \A i \in 1..n - 1 : d.stack[i] = c.stack[i]
      /\ d.stack[n] = right(slot) /\ d.stack[n + 1] = left(slot)
  <2> DEFINE s == push_children(Front(c.stack), slot)
  <2>1. d.stack = s
    OBVIOUS
  <2>2. /\ s \in Seq(Slot) /\ Len(s) = Len(Front(c.stack)) + 2
        /\ \A i \in 1..Len(Front(c.stack)) : s[i] = Front(c.stack)[i]
        /\ s[Len(Front(c.stack)) + 1] = right(slot) /\ s[Len(Front(c.stack)) + 2] = left(slot)
    BY <1>1, PushChildren
  <2> HIDE DEF s, slot
  <2>3. Len(Front(c.stack)) + 1 = n /\ Len(Front(c.stack)) + 2 = n + 1
    BY <1>1
  <2>4. \A i \in 1..n - 1 : s[i] = c.stack[i]
    BY <1>1, <2>2
  <2> QED
    BY <2>1, <2>2, <2>3, <2>4
<1>3. /\ DOMAIN u = DOMAIN t \union {slot} /\ u[slot] = b[c.pos + 2]
      /\ \A q \in DOMAIN t : q # slot => u[q] = t[q]
  BY DEF with_node
<1>4. d.pos = c.pos + 2 /\ d.seen = DOMAIN u /\ d \in Situation
  <2>1. d.pos = c.pos + 2 /\ d.seen = DOMAIN u
    OBVIOUS
  <2>2. DOMAIN u \in SUBSET Slot
    BY <1>0, <1>1, <1>3
  <2> QED
    BY <1>0, <1>2, <2>1, <2>2 DEF Situation
<1> HIDE DEF slot, n
<1>5. slot \notin DOMAIN t /\ n \in DOMAIN c.stack
  <2>1. n \in 1..n
    BY <1>1
  <2>2. n \in DOMAIN c.stack
    BY <1>0, <2>1
  <2> QED
    BY <1>1, <2>2 DEF Apart
<1>6. Written(u, b, c) /\ Turned(u, c) = d
  <2>1. has(u, Last(c.stack)) /\ Last(c.stack) = slot
    BY <1>3 DEF has, slot
  <2>2. Written(u, b, c)
    BY <1>3, <2>1 DEF Written
  <2>3. Turned(u, c) = d
    BY <1>3, <2>1 DEF Turned
  <2> QED
    BY <2>2, <2>3
<1>7. \A x \in turns : x \in Situation /\ x.pos \in Nat /\ x.pos <= c.pos
  BY DEF Reads, Situation
<1>8. d \notin turns /\ more \ {d} = turns
  <2>1. c.pos + 2 > c.pos
    BY <1>0
  <2>2. d \notin turns
    BY <1>0, <1>4, <1>7, <2>1
  <2> QED
    BY <2>2
<1> HIDE DEF more
<1>9. ASSUME NEW x \in turns
      PROVE  /\ x.stack # <<>> /\ Written(u, b, x) /\ Turned(u, x) \in more
             /\ HangsFrom(u, Last(x.stack))
  <2>1. CASE x = c
    <3>1. HangsFrom(t, slot)
      BY <1>1, <1>5
    <3> QED
      BY <1>3, <1>6, <2>1, <3>1 DEF HangsFrom, more, slot
  <2>2. CASE x # c
    <3> DEFINE q == Last(x.stack)
    <3>1. x.stack # <<>> /\ Written(t, b, x) /\ Turned(t, x) \in turns /\ HangsFrom(t, q)
      BY <2>2 DEF Reads
    <3>2. q # slot
      BY <1>1, <1>5, <2>2 DEF Apart
    <3>3. has(u, q) = has(t, q) /\ (has(t, q) => u[q] = t[q])
      BY <1>3, <3>2 DEF has
    <3>4. Written(u, b, x)
      BY <3>1, <3>3 DEF Written
    <3>5. Turned(u, x) = Turned(t, x)
      BY <3>3 DEF Turned
    <3>6. HangsFrom(u, q)
      BY <1>3, <3>1 DEF HangsFrom
    <3> QED
      BY <3>1, <3>4, <3>5, <3>6 DEF more
  <2> QED
    BY <2>1, <2>2
<1>10. Reads(u, b, more, d)
  <2>1. AtRoot \in more /\ d \in more
    BY DEF Reads, more
  <2>2. \A x \in more : x \in Situation /\ x.pos <= d.pos
    BY <1>0, <1>4, <1>7 DEF more
  <2> QED
    BY <1>4, <1>8, <1>9, <2>1, <2>2 DEF Reads
<1>11. /\ left(slot) # slot /\ right(slot) # slot /\ left(slot) # right(slot)
       /\ Front(left(slot)) = slot /\ Front(right(slot)) = slot
       /\ left(slot) # <<>> /\ right(slot) # <<>> /\ left(slot) \in Slot /\ right(slot) \in Slot
  <2>1. slot \in Seq({0, 1})
    BY <1>1 DEF Slot, Bit
  <2>2. /\ Len(left(slot)) = Len(slot) + 1 /\ Len(right(slot)) = Len(slot) + 1
        /\ left(slot)[Len(slot) + 1] = 0 /\ right(slot)[Len(slot) + 1] = 1 /\ Len(slot) \in Nat
        /\ left(slot) \in Slot /\ right(slot) \in Slot
    BY <2>1 DEF left, right, Slot, Bit
  <2>3. Front(left(slot)) = slot /\ Front(right(slot)) = slot
    BY <2>1 DEF left, right, Front
  <2> QED
    BY <2>2, <2>3
\* Nothing that hangs from t is below the slot.
<1>12. ASSUME NEW q \in {left(slot), right(slot)}
       PROVE  q \notin DOMAIN t /\ ~HangsFrom(t, q) /\ q # slot
  <2>1. q \in Slot /\ q # <<>> /\ Front(q) = slot /\ q # slot
    BY <1>11
  <2>2. ~HangsFrom(t, q)
    BY <1>5, <2>1 DEF HangsFrom
  <2>3. ASSUME q \in DOMAIN t
        PROVE  FALSE
    <3>1. Len(q) \in Nat /\ Len(q) >= 1 /\ Front(q) = SubSeq(q, 1, Len(q) - 1)
      <4>1. Front(q) = SubSeq(q, 1, Len(q) - 1)
        BY DEF Front
      <4> QED
        BY <2>1, <4>1, FrontLast
    <3>2. Len(q) - 1 \in 0..Len(q)
      BY <3>1
    <3>3. SubSeq(q, 1, Len(q) - 1) \in DOMAIN t
      BY <2>3, <3>2 DEF IsTree
    <3> QED
      BY <1>5, <2>1, <3>1, <3>3
  <2> QED
    BY <2>1, <2>2, <2>3
\* The slots on the new stack.
<1>13. ASSUME NEW i \in DOMAIN d.stack
       PROVE  \/ i \in DOMAIN c.stack /\ i # n /\ d.stack[i] = c.stack[i] /\ i # n + 1
              \/ i = n /\ d.stack[i] = right(slot)
              \/ i = n + 1 /\ d.stack[i] = left(slot)
  <2>1. i \in 1..n + 1 /\ i \in Int /\ n \in Int
    BY <1>1, <1>2
  <2>2. CASE i = n
    BY <1>2, <2>2
  <2>3. CASE i = n + 1
    BY <1>2, <2>3
  <2>4. CASE i # n /\ i # n + 1
    <3>1. i \in 1..n - 1 /\ i \in 1..n
      BY <2>1, <2>4
    <3>2. d.stack[i] = c.stack[i] /\ i \in DOMAIN c.stack
      BY <1>0, <1>2, <3>1
    <3> QED
      BY <2>4, <3>2
  <2> QED
    BY <2>2, <2>3, <2>4
<1>14. Apart(u, more, d)
  <2>1. ASSUME NEW i \in DOMAIN d.stack
        PROVE  d.stack[i] \notin DOMAIN u
    <3>1. CASE i \in DOMAIN c.stack /\ i # n /\ d.stack[i] = c.stack[i]
      BY <1>1, <1>3, <1>5, <3>1 DEF Apart
    <3>2. CASE d.stack[i] \in {left(slot), right(slot)}
      BY <1>3, <1>12, <3>2
    <3> QED
      BY <1>13, <3>1, <3>2
  <2>2. ASSUME NEW i \in DOMAIN d.stack, NEW j \in DOMAIN d.stack, i # j
        PROVE  d.stack[i] # d.stack[j]
    <3>1. ASSUME NEW k \in DOMAIN c.stack, NEW q \in {left(slot), right(slot)}
          PROVE  c.stack[k] # q
      BY <1>12
    <3>2. CASE i \in DOMAIN c.stack /\ d.stack[i] = c.stack[i] /\ j \in DOMAIN c.stack /\ d.stack[j] = c.stack[j]
      BY <2>2, <3>2 DEF Apart
    <3> QED
      BY <1>11, <1>13, <2>2, <3>1, <3>2
  <2>3. ASSUME NEW x \in turns, NEW i \in DOMAIN d.stack
        PROVE  d.stack[i] # Last(x.stack)
    <3>1. CASE x = c
      <4>1. Last(x.stack) = slot
        BY <3>1 DEF slot
      <4>2. CASE i \in DOMAIN c.stack /\ i # n /\ d.stack[i] = c.stack[i]
        BY <1>1, <1>5, <4>1, <4>2 DEF Apart
      <4> QED
        BY <1>11, <1>13, <4>1, <4>2
    <3>2. CASE x # c
      <4>1. HangsFrom(t, Last(x.stack))
        BY <3>2 DEF Reads
      <4>2. CASE i \in DOMAIN c.stack /\ d.stack[i] = c.stack[i]
        BY <3>2, <4>2 DEF Apart
      <4> QED
        BY <1>12, <1>13, <4>1, <4>2
    <3> QED
      BY <3>1, <3>2
  <2> QED
    BY <1>8, <2>1, <2>2, <2>3 DEF Apart
<1> QED
  BY <1>10, <1>14

\* The situation of the decoder, how it came about, and that the tree it builds is finite.
Here == [stack |-> stack, pos |-> pos, seen |-> DOMAIN out]
DecoderReads == mode = "decoding" =>
  \E turns : Reads(out, bytes, turns, Here) /\ Apart(out, turns, Here)
OutIsShallow == mode = "decoding" => \E n \in Nat : Shallow(out, n)

CInv == IInv /\ DecoderReads /\ OutIsShallow

\* decode begins.
LEMMA DecodeReads == ASSUME CInv, Decode PROVE DecoderReads' /\ OutIsShallow'
<1>0. /\ mode' = "decoding" /\ pos' = 0 /\ out' = default /\ stack' = << <<>> >>
      /\ bytes' = bytes /\ bytes \in Seq(Nat) /\ DOMAIN out' = {}
  <2>1. bytes \in Seq(Nat)
    BY DEF CInv, IInv, TypeOK
  <2> QED
    BY <2>1, DefaultIsTree DEF Decode
<1>1. Here' = AtRoot
  BY <1>0 DEF Here, AtRoot
<1>2. AtRoot \in Situation
  BY DEF AtRoot, Situation, Slot
<1>3. AtRoot.pos = 0 /\ AtRoot.stack = << <<>> >> /\ DOMAIN AtRoot.stack = {1} /\ 0 <= Len(bytes)
  <2>1. AtRoot.pos = 0 /\ AtRoot.stack = << <<>> >>
    BY DEF AtRoot
  <2>2. 0 <= Len(bytes)
    BY <1>0
  <2> QED
    BY <2>1, <2>2
<1> DEFINE turns == {AtRoot}
<1>4. Reads(out', bytes, turns, AtRoot)
  BY <1>2, <1>3 DEF Reads
<1>5. Apart(out', turns, AtRoot)
  BY <1>0, <1>3 DEF Apart
<1>6. DecoderReads'
  <2> HIDE DEF turns
  <2> QED
    BY <1>0, <1>1, <1>4, <1>5 DEF DecoderReads
<1>7. OutIsShallow'
  BY <1>0 DEF OutIsShallow, Shallow
<1> QED
  BY <1>6, <1>7

\* One turn of decode at an empty slot.
LEMMA DecodeLeafReads == ASSUME CInv, DecodeLeaf PROVE DecoderReads' /\ OutIsShallow'
<1>0. /\ mode = "decoding" /\ stack # <<>> /\ pos < Len(bytes) /\ bytes[pos + 1] = Leaf
      /\ pos' = pos + 1 /\ stack' = Front(stack)
      /\ mode' = mode /\ bytes' = bytes /\ out' = out /\ bytes \in Seq(Nat)
  BY DEF DecodeLeaf, CInv, IInv, TypeOK
<1>1. PICK turns : Reads(out, bytes, turns, Here) /\ Apart(out, turns, Here)
  BY <1>0 DEF CInv, DecoderReads
<1>2. Here.stack = stack /\ Here.pos = pos /\ Here.seen = DOMAIN out
  BY DEF Here
<1>3. Here' = [stack |-> Front(Here.stack), pos |-> Here.pos + 1, seen |-> DOMAIN out]
  BY <1>0, <1>2 DEF Here
<1>4. HangsFrom(out, Last(stack))
  <2>1. stack \in Seq(Slot)
    BY DEF CInv, IInv, TypeOK
  <2>2. Len(stack) \in DOMAIN stack /\ Last(stack) = stack[Len(stack)]
    BY <1>0, <2>1, FrontLast DEF Last
  <2> QED
    BY <1>0, <2>2 DEF CInv, IInv, Hangs, HangsFrom
<1>5. \E more : Reads(out, bytes, more, Here') /\ Apart(out, more, Here')
  BY <1>0, <1>1, <1>2, <1>3, <1>4, ReadLeaf
<1> QED
  BY <1>0, <1>5 DEF DecoderReads, CInv, OutIsShallow

\* One turn of decode at a node.
LEMMA DecodeInnerReads == ASSUME CInv, DecodeInner PROVE DecoderReads' /\ OutIsShallow'
<1>0. /\ mode = "decoding" /\ stack # <<>> /\ pos + 1 < Len(bytes) /\ bytes[pos + 1] = Inner
      /\ pos' = pos + 2 /\ stack' = push_children(Front(stack), Last(stack))
      /\ out' = with_node(out, Last(stack), bytes[pos + 2])
      /\ mode' = mode /\ bytes' = bytes
      /\ bytes \in Seq(Nat) /\ stack \in Seq(Slot) /\ pos \in Nat /\ IsTree(out)
  BY DEF DecodeInner, CInv, IInv, TypeOK
<1>1. PICK turns : Reads(out, bytes, turns, Here) /\ Apart(out, turns, Here)
  BY <1>0 DEF CInv, DecoderReads
<1>2. Here.stack = stack /\ Here.pos = pos /\ Here.seen = DOMAIN out
  BY DEF Here
<1>3. Here' = [stack |-> push_children(Front(Here.stack), Last(Here.stack)), pos |-> Here.pos + 2,
               seen |-> DOMAIN out']
  BY <1>0, <1>2 DEF Here
<1>4. \A i \in DOMAIN stack : HangsFrom(out, stack[i])
  BY <1>0 DEF CInv, IInv, Hangs, HangsFrom
<1>5. pos + 2 <= Len(bytes)
  BY <1>0
<1>6. \E more : Reads(out', bytes, more, Here') /\ Apart(out', more, Here')
  BY <1>0, <1>1, <1>2, <1>3, <1>4, <1>5, ReadNode
<1>7. OutIsShallow'
  <2>1. PICK n \in Nat : Shallow(out, n)
    BY <1>0 DEF CInv, OutIsShallow
  <2> DEFINE slot == Last(stack)
             m == n + Len(slot) + 1
  <2>2. DOMAIN out' = DOMAIN out \union {slot} /\ Len(slot) \in Nat
    <3>1. slot \in Seq(Bit)
      BY <1>0, FrontLast DEF Slot
    <3> QED
      BY <1>0, <3>1 DEF with_node
  <2> HIDE DEF slot
  <2>3. m \in Nat /\ Len(slot) < m /\ n < m
    BY <2>2
  <2>4. \A p \in DOMAIN out : Len(p) \in Nat /\ Len(p) < n
    BY <1>0, <2>1 DEF Shallow, IsTree, Slot
  <2>5. \A p \in DOMAIN out : Len(p) < m
    BY <2>3, <2>4
  <2> HIDE DEF m
  <2>6. Shallow(out', m)
    BY <2>2, <2>3, <2>5 DEF Shallow
  <2> QED
    BY <2>3, <2>6 DEF OutIsShallow
<1> QED
  BY <1>0, <1>6, <1>7 DEF DecoderReads

LEMMA CInvStep == ASSUME CInv, [Next]_vars PROVE CInv'
<1> SUFFICES DecoderReads' /\ OutIsShallow'
  BY IInvStep DEF CInv
<1>1. CASE UNCHANGED vars
  BY <1>1 DEF vars, CInv, DecoderReads, OutIsShallow, Here
<1>2. ASSUME mode' # "decoding"
      PROVE  DecoderReads' /\ OutIsShallow'
  BY <1>2 DEF DecoderReads, OutIsShallow
<1>3. CASE \/ \E path \in Path, value \in Values : Insert(path, value)
           \/ \E origin, path \in Path, value \in Values : InsertBelow(origin, path, value)
  BY <1>2, <1>3 DEF Insert, InsertBelow
<1>4. CASE Encode \/ EncodeSlot \/ DecodeError \/ Decoded
  BY <1>2, <1>4 DEF Encode, EncodeSlot, DecodeError, Decoded
<1>5. CASE Decode \/ DecodeLeaf \/ DecodeInner
  BY <1>5, DecodeReads, DecodeLeafReads, DecodeInnerReads
<1> QED
  BY <1>1, <1>3, <1>4, <1>5 DEF Next

\* The encoding of a tree is canonical, for every byte string: whenever BinaryTree::decode
\* succeeds, the bytes that it used are what BinaryTree::encode writes for the tree it returns,
\* so no two byte strings are read as one tree.
THEOREM EncodingIsCanonical == Spec => []Canonical
<1>1. Init => CInv
  BY IInvInit DEF Init, CInv, DecoderReads, OutIsShallow
<1>2. CInv /\ [Next]_vars => CInv'
  BY CInvStep
<1>3. CInv => Canonical
  <2> SUFFICES ASSUME CInv, mode = "decoding", stack = <<>>
               PROVE  preorder(out) = SubSeq(bytes, 1, pos)
    BY DEF Canonical
  <2>1. IsTree(out) /\ bytes \in Seq(Nat)
    BY DEF CInv, IInv, TypeOK
  <2>2. PICK n \in Nat : Shallow(out, n)
    BY DEF CInv, OutIsShallow
  <2>3. PICK f : IsCode(f, out) /\ preorder(out) = f[<<>>]
    BY <2>1, <2>2, PreorderIs
  <2>4. PICK turns : Reads(out, bytes, turns, Here)
    BY DEF CInv, DecoderReads
  <2>5. Here.stack = <<>> /\ Here.pos = pos
    BY DEF Here
  <2>6. SubSeq(bytes, 1, Here.pos) = f[<<>>]
    BY <2>1, <2>3, <2>4, <2>5, ReadsCode
  <2> QED
    BY <2>3, <2>5, <2>6
<1> QED
  BY <1>1, <1>2, <1>3, PTL DEF Spec
=============================================================================
