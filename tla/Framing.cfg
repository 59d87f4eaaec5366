\* AES-CBC and UNet framing round trips over every bounded input: 2-byte
\* blocks over 3-bit bytes (aligned, unaligned and multi-block plaintexts)
\* and inner datagrams around the minimum length; Unreal TArray readers
\* over 2-bit bytes with a 4-bit int32 (so the count wraps and overflows).
CONSTANTS
    NBytes = 8
    BlockSize = 2
    Iv <- MCIv
    UidLen = 3
    TagLen = 1
    MaxLen = 4
    FrameBytes = {0, 1, 2}
    UByte = 4
    PrefixLen = 2
    GuidLen = 1
SPECIFICATION MCSpec
INVARIANT CbcRoundTrip
INVARIANT FrameRoundTrip
INVARIANT TArrayGuidSizeConsumed
INVARIANT FStringArrayAligned
\* The input never changes: every state is terminal.
CHECK_DEADLOCK FALSE
