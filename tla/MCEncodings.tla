---------------------------- MODULE MCEncodings -----------------------------
(***************************************************************************)
(* What is saved or sent: a binary tree (BinaryTree) or a buffer of        *)
(* messages (MCCodec), one at a time.                                      *)
(*                                                                         *)
(* Trees of up to seven nodes whose values are a marker's byte and another *)
(* one, and every string of up to seven bytes to decode.                   *)
(***************************************************************************)
EXTENDS BinaryTree

CONSTANTS ByteBits, SeedSize, IdpfSeedSize, MaxMessages, Levels   \* of the messages

VARIABLES layer,                               \* what is encoded
          buf, sent, carried, intact, got, at  \* of MCCodec

Messages == INSTANCE MCCodec

MCReceived == BoundedSeq(0..2, 7)

messageVars == <<buf, sent, carried, intact, got, at>>
mcvars == <<layer, vars, messageVars>>

NoTree ==
    /\ tree = default /\ mode = "none" /\ source = "own" /\ bytes = <<>>
    /\ pos = 0 /\ stack = <<>> /\ out = default

MCInit ==
    \/ layer = "tree" /\ Init /\ Messages!Init
    \/ layer = "messages" /\ Messages!Init /\ NoTree

MCNext ==
    /\ \/ layer = "tree" /\ Next /\ UNCHANGED messageVars
       \/ layer = "messages" /\ Messages!Next /\ UNCHANGED vars
    /\ UNCHANGED layer

MCSpec == MCInit /\ [][MCNext]_mcvars

-----------------------------------------------------------------------------
\* From an undamaged buffer every message is read as it was written, and the one error that an
\* encoder reports is a list too long for its prefix (encode and decode of src/codec.rs and of
\* the messages).
MessagesAreRestored == Messages!RoundTrip

\* Bytes that are read to the end, damaged or not, are the encoding of the values read: no
\* message has two encodings (decode of src/codec.rs and of the messages).
MessagesAreCanonical == Messages!Canonical
=============================================================================
