CONSTANTS
    ID_LEN = 1
    SIG_LEN = 1
    INT_LEN = 2
    MAX_VARINT_LEN = 3
    U16_MAX = 511
    MAX_NETWORK_ID_LEN = 2
    MAX_LABEL_LEN = 2
    MAX_NAME_LEN = 5
    MAX_DATA_LEN = 2
    PROTOCOL_VERSION = 1
    MAX_LIST = 2
    MAX_BLOCKS_PER_REQUEST = 128
    Samples <- MCSamples
    RawInputs <- MCRawInputs
    Noise <- MCNoise
SPECIFICATION Spec
INVARIANTS
    RoundTrip
    Canonical
    SignatureCovers
