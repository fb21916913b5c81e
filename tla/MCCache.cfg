\* Word = 4 makes the 32-bit number wrap twice within MaxSeq packets; the ring of
\* three wraps three times.
CONSTANTS
    Payload = {a, b}
    NoPayload = none
    CacheSize = 3
    Word = 4
    DWord = 16
    MaxSeq = 9
SPECIFICATION Spec
INVARIANT IInv
PROPERTY WindowSpec
