SPECIFICATION FairSpec
CONSTANTS
    Rounds = 4
    Reports <- MCReports
    Honest <- MCHonest
    VdafPrepState <- MCState
    VdafPrepShare <- MCShare
    VdafPrepMsg <- MCMsg
    VdafOutShare <- MCOut
    vdaf_prepare_init <- MCprepare_init
    vdaf_combine <- MCcombine
    vdaf_prepare_next <- MCprepare_next
    vdaf_decodes_share <- MCdecodes
    vdaf_decodes_msg <- MCdecodes
    vdaf_encode_state <- MCencode_state
    vdaf_decode_state <- MCdecode_state
    NoState = NoState
    NoMsg = NoMsg
    NoOut = NoOut
    CallerChecksStep = TRUE
INVARIANTS TypeOK Lockstep RoundsAreFaithful InSync
PROPERTIES OutcomeIsFinal ImplementsDriver
CHECK_DEADLOCK FALSE
