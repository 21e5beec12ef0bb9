SPECIFICATION Spec
CONSTANTS
    P = 97
    Generator = 28
    LogOrder = 5
    FftThreshold = 30
    num_proofs = 1
    num_aggregators = 3
    Prio3Xof <- MCPrio3Xof
    Bits = 3
    LevelWidth = 8
    MaxCount = 5
    Xof <- MCXof
    Threshold = 2
    Batches <- MCBatches
    Partials <- MCPartials
    vdaf_num_aggregators <- MCnum_aggregators
    vdaf_prepare <- MCprepare
    vdaf_aggregate <- MCaggregate
    vdaf_merge <- MCmerge
    vdaf_encode_agg_share <- MCencode
    vdaf_decode_agg_share <- MCdecode
    vdaf_unshard <- MCunshard
    next_param <- MCnext_param
    SameShape <- MCSameShape
INVARIANTS CollectsTheAggregate CountsAreExact FindsHeavyHitters StepsAreOneShot
CHECK_DEADLOCK FALSE
