CONSTANTS
    Radix <- MCRadix
    W16 <- MCW16
    W32 <- MCW32
    W64 <- MCW64
    TruncLen <- MCTruncLen
    CounterField <- MCCounterField
    CounterCollection <- MCCounterCollection
    BlobHashLen <- MCBlobHashLen
    Keys <- ReportKeys
    MaxEntries = 2
SPECIFICATION Spec
INVARIANT DecodeNeverPanics
