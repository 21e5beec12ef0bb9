SPECIFICATION MCSpec
CONSTANTS
    MaxPath = 2
    Values = {1, 2}
    Received <- MCReceived
    ByteBits = 4
    SeedSize = 2
    IdpfSeedSize = 1
    MaxMessages = 2
    Levels = 3
INVARIANTS RoundTrip Canonical MessagesAreRestored MessagesAreCanonical
PROPERTY AppendOnly
\* Bytes that are no encoding end the calls.
CHECK_DEADLOCK FALSE
