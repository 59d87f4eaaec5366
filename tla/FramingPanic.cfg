\* A malformed datagram (empty, or decrypting to a pad byte larger than
\* itself) reaching aesCbcDecrypt.
CONSTANTS
    NBytes = 8
    BlockSize = 2
    Iv <- MCIv
    UidLen = 3
    TagLen = 1
    MaxLen = 4
    FrameBytes = {0, 1, 2}
    UByte = 4
    PrefixLen = 2
    GuidLen = 1
SPECIFICATION Spec
INVARIANT DecryptNeverPanics
\* The input never changes: every state is terminal.
CHECK_DEADLOCK FALSE
