SPECIFICATION MCFairSpec
CONSTANTS
    HS = 2
    StreamID = {1, 2}
    Sent <- MCAll
    MaxMsg = 3
    Capacity = 1
    CHUNK_LENGTH = 9
    RTMP_DIGEST_LENGTH = 2
    FIELD_LENGTH = 1
    Offsets <- MCOffsets
INVARIANTS RepliesBeforeRead HandshakeKeepsFraming ResultUnlessRepublished HandshakeIsAnswered
PROPERTIES DataIsAccepted SessionEndsWhenReady
CHECK_DEADLOCK FALSE
