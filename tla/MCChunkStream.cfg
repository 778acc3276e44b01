SPECIFICATION Spec
CONSTANTS
    Clients <- MCClients
    Extended = 2
    INIT_CHUNK_SIZE = 1
    MAX_CHUNK_SIZE = 2
    MAX_PARTIAL_CHUNK_SIZE = 3
    MAX_PREVIOUS_CHUNK_HEADERS = 3
    MAX_PARTIAL_CHUNK_COUNT = 2
INVARIANTS RoundTrip NothingLeftBehind ErrorsAreEarned
CHECK_DEADLOCK FALSE
