SPECIFICATION Spec
CONSTANTS
    Rounds = 1
    P = 41
    Generator = 3
    LogOrder = 3
    FftThreshold = 30
    typ <- MCTypHistogram
    num_proofs = 2
    num_aggregators = 2
    MCMeasurements = {2}
    MCSalts = {1}
    MCKeys = {1, 2, 4, 7}
    MCPrio2Keys = {1, 2, 6}
    Xof <- MCXof
    Reports <- MCAllReports
    Honest <- MCAllHonest
    VdafPrepState <- MCAllPrepState
    VdafPrepShare <- MCAllPrepShare
    VdafPrepMsg <- MCAllPrepMsg
    VdafOutShare <- MCAllOutShare
    vdaf_prepare_init <- MCAllprepare_init
    vdaf_combine <- MCAllcombine
    vdaf_prepare_next <- MCAllprepare_next
    vdaf_decodes_share <- MCAlldecodes_share
    vdaf_decodes_msg <- MCAlldecodes_msg
    vdaf_encode_state <- MCAllencode_state
    vdaf_decode_state <- MCAlldecode_state
    NoState = NoState
    NoMsg = NoMsg
    NoOut = NoOut
    CallerChecksStep = TRUE
INVARIANTS AcceptsWhatIsProved HonestRejectedOnlyByChance SplitVerdictIsTheClients OutputsAddUp DecidesOnBits
CHECK_DEADLOCK FALSE
