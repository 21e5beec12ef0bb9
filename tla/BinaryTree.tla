----------------------------- MODULE BinaryTree -----------------------------
(***************************************************************************)
(* The append-only binary tree of bt.rs and its codec. A tree is the       *)
(* function from the paths of its nodes to their values, so a node's left  *)
(* child is the node at its path followed by 0. The codec's loops run one  *)
(* turn per step, since what makes them right is the stack of slots that   *)
(* they have yet to visit.                                                 *)
(*                                                                         *)
(* A value is encoded as one byte. Values and markers share the bytes 0    *)
(* and 1: only its position says what a byte is.                           *)
(***************************************************************************)
EXTENDS Naturals, Sequences, SequencesExt, Functions, FiniteSets

CONSTANTS
  MaxPath,    \* bound on the length of the paths that are inserted
  Values,     \* the values in the nodes, bytes
  Received    \* byte strings to decode that come from elsewhere

ASSUME BinaryTreeAssumption ==
  /\ MaxPath \in Nat
  /\ Values \subseteq Nat
  /\ Received \subseteq Seq(Nat)

Bit == {0, 1}
Path == BoundedSeq(Bit, MaxPath)

VARIABLES
  tree,    \* the tree
  mode,    \* the operation under way, or how it ended
  source,  \* whose encoding bytes is: of tree ("own") or of somebody else ("received")
  bytes,   \* the encoding, written or being read
  pos,     \* the cursor's position in bytes
  stack,   \* the paths of the slots that the codec's loop has yet to visit, the next one last
  out      \* the tree that decoding builds

vars == <<tree, mode, source, bytes, pos, stack, out>>

-----------------------------------------------------------------------------
default == <<>>

has(t, path) == path \in DOMAIN t

left(path) == Append(path, 0)
right(path) == Append(path, 1)

\* A tree and one node more.
with_node(t, path, value) ==
  [q \in DOMAIN t \union {path} |-> IF q = path THEN value ELSE t[q]]

\* The walk along path from the node at origin meets an empty slot before its end.
unreachable(t, origin, path) ==
  \E k \in 1..Len(path) - 1 : ~has(t, origin \o SubSeq(path, 1, k))

\* Fault: a node that is there already is replaced.
Node_insert_replaces(t, origin, path, value) ==
  IF unreachable(t, origin, path) THEN t ELSE with_node(t, origin \o path, value)

\* Node::insert, on the node at origin: UnreachableNode, InsertNonEmptyNode, or a new node.
Node_insert(t, origin, path, value) ==
  IF unreachable(t, origin, path) \/ has(t, origin \o path)
  THEN t
  ELSE with_node(t, origin \o path, value)

\* BinaryTree::insert: on the root if there is one; without one only the root can be inserted.
BinaryTree_insert(t, path, value) ==
  CASE has(t, <<>>) -> Node_insert(t, <<>>, path, value)
    [] ~has(t, <<>>) /\ path = <<>> -> with_node(t, path, value)
    [] OTHER -> t

-----------------------------------------------------------------------------
(* The bytes before a slot: CodecMarker.                                   *)
Leaf == 0
Inner == 1

Init ==
  /\ tree = default
  /\ out = default
  /\ pos = 0
  /\ stack = <<>>
  /\ \/ mode = "idle" /\ source = "own" /\ bytes = <<>>
     \/ mode = "arrived" /\ source = "received" /\ bytes \in Received

Insert(path, value) ==
  /\ mode = "idle"
  /\ tree' = BinaryTree_insert(tree, path, value)
  /\ UNCHANGED <<mode, source, bytes, pos, stack, out>>

\* insert on the node that get_node finds at the end of a path.
InsertBelow(origin, path, value) ==
  /\ mode = "idle"
  /\ has(tree, origin)
  /\ tree' = Node_insert(tree, origin, path, value)
  /\ UNCHANGED <<mode, source, bytes, pos, stack, out>>

\* encode of the tree and of its root node: the root is the first slot.
Encode ==
  /\ mode = "idle"
  /\ mode' = "encoding" /\ source' = "own"
  /\ bytes' = <<>>
  /\ stack' = << <<>> >>
  /\ UNCHANGED <<tree, pos, out>>

\* Fault: the slots come off the stack in the opposite order.
push_children_swapped(slots, slot) == slots \o <<left(slot), right(slot)>>

\* What visiting a node leaves to be visited: the left slot is popped first.
push_children(slots, slot) == slots \o <<right(slot), left(slot)>>

\* One turn of the encoder's loop.
EncodeSlot ==
  /\ mode = "encoding" /\ stack # <<>>
  /\ LET slot == Last(stack)
     IN  \/ /\ has(tree, slot)
            /\ bytes' = Append(Append(bytes, Inner), tree[slot])
            /\ stack' = push_children(Front(stack), slot)
         \/ /\ ~has(tree, slot)
            /\ bytes' = Append(bytes, Leaf)
            /\ stack' = Front(stack)
  /\ UNCHANGED <<tree, mode, source, pos, out>>

\* decode of a tree, from its own encoding or from bytes that arrived.
Decode ==
  /\ mode = "arrived" \/ (mode = "encoding" /\ stack = <<>>)
  /\ mode' = "decoding"
  /\ pos' = 0 /\ out' = default
  /\ stack' = << <<>> >>
  /\ UNCHANGED <<tree, source, bytes>>

DecodeLeaf ==
  /\ mode = "decoding" /\ stack # <<>>
  /\ pos < Len(bytes) /\ bytes[pos + 1] = Leaf
  /\ pos' = pos + 1
  /\ stack' = Front(stack)
  /\ UNCHANGED <<tree, mode, source, bytes, out>>

\* Fault: the cursor is one behind when the value is read: the marker is taken for the value,
\* and the value is skipped.
DecodeInner_value_skipped ==
  /\ mode = "decoding" /\ stack # <<>>
  /\ pos + 1 < Len(bytes) /\ bytes[pos + 1] = Inner
  /\ pos' = pos + 2
  /\ out' = with_node(out, Last(stack), bytes[pos + 1])
  /\ stack' = push_children(Front(stack), Last(stack))
  /\ UNCHANGED <<tree, mode, source, bytes>>

\* Fault: the decoder pushes the slots in the opposite order.
DecodeInner_swapped ==
  /\ mode = "decoding" /\ stack # <<>>
  /\ pos + 1 < Len(bytes) /\ bytes[pos + 1] = Inner
  /\ pos' = pos + 2
  /\ out' = with_node(out, Last(stack), bytes[pos + 2])
  /\ stack' = push_children_swapped(Front(stack), Last(stack))
  /\ UNCHANGED <<tree, mode, source, bytes>>

DecodeInner ==
  /\ mode = "decoding" /\ stack # <<>>
  /\ pos + 1 < Len(bytes) /\ bytes[pos + 1] = Inner
  /\ pos' = pos + 2
  /\ out' = with_node(out, Last(stack), bytes[pos + 2])
  /\ stack' = push_children(Front(stack), Last(stack))
  /\ UNCHANGED <<tree, mode, source, bytes>>

\* The bytes end before a marker or a value, or a marker is none.
DecodeError ==
  /\ mode = "decoding" /\ stack # <<>>
  /\ \/ pos = Len(bytes)
     \/ pos < Len(bytes) /\ bytes[pos + 1] \notin {Leaf, Inner}
     \/ pos + 1 = Len(bytes) /\ bytes[pos + 1] = Inner
  /\ mode' = "failed"
  /\ UNCHANGED <<tree, source, bytes, pos, stack, out>>

\* decode returns, and its caller goes on with the tree that it got.
Decoded ==
  /\ mode = "decoding" /\ stack = <<>>
  /\ mode' = "idle" /\ source' = "own"
  /\ tree' = out
  /\ bytes' = <<>> /\ pos' = 0 /\ out' = default
  /\ UNCHANGED stack

Next ==
  \/ \E path \in Path, value \in Values : Insert(path, value)
  \/ \E origin, path \in Path, value \in Values :
       Len(origin \o path) <= MaxPath /\ InsertBelow(origin, path, value)
  \/ Encode \/ EncodeSlot
  \/ Decode \/ DecodeLeaf \/ DecodeInner \/ DecodeError \/ Decoded

Spec == Init /\ [][Next]_vars

-----------------------------------------------------------------------------
\* The encoding a tree should have: every slot in pre-order, with a marker before it.
preorder(t) ==
  LET slots == DOMAIN t \union {left(p) : p \in DOMAIN t} \union {right(p) : p \in DOMAIN t}
               \union {<<>>}
      f[p \in slots] == IF has(t, p) THEN <<Inner, t[p]>> \o f[left(p)] \o f[right(p)] ELSE <<Leaf>>
  IN  f[<<>>]

(* A tree is restored from its encoding: decoding what encode wrote never  *)
(* fails, and ends with every node, nothing else, and no byte left         *)
(* (bt.rs:240-290, whatever the values, markers included).                 *)
RoundTrip ==
  source = "own" =>
    /\ mode # "failed"
    /\ (mode = "decoding" /\ stack = <<>>) => (out = tree /\ pos = Len(bytes))

(* The encoding is canonical: when decoding succeeds, the bytes it used    *)
(* are the encoding of the tree it built, so no two byte strings are       *)
(* read as one tree (bt.rs:264-290, 345-354).                              *)
Canonical ==
  (mode = "decoding" /\ stack = <<>>) => preorder(out) = SubSeq(bytes, 1, pos)

(* The tree only grows: no insertion, through the tree or through one of   *)
(* its nodes, and no save and restore moves, changes or drops a node       *)
(* (bt.rs:6, 110-143, 204-213).                                            *)
AppendOnly ==
  [][\A path \in DOMAIN tree : has(tree', path) /\ tree'[path] = tree[path]]_tree
=============================================================================
