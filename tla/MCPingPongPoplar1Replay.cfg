SPECIFICATION Spec
CONSTANTS
    Rounds = 2
    P = 5
    Bits = 3
    LevelWidth = 8
    MaxCount = 4
    MCSeeds = {1}
    Xof <- MCXof
    job_of <- JobOf
    Reports <- MCReports
    Honest <- MCHonest
    VdafPrepState <- MCPrepState
    VdafPrepShare <- PrepShare
    VdafPrepMsg <- PrepMsg
    VdafOutShare <- MCOutShare
    vdaf_prepare_init <- MCprepare_init
    vdaf_combine <- prepare_shares_to_prepare_message
    vdaf_prepare_next <- prepare_next
    vdaf_decodes_share <- decodes_share
    vdaf_decodes_msg <- decodes_msg
    vdaf_encode_state <- encode_state
    vdaf_decode_state <- decode_state
    NoState = NoState
    NoMsg = NoMsg
    NoOut = NoOut
    CallerChecksStep = FALSE
INVARIANTS FinishAgreement TransitionReadable
CHECK_DEADLOCK FALSE
