CONSTANTS
    Lengths <- MCLengths
    Bits <- MCBits
    DataBytes <- MCDataBytes
    JunkBytes <- MCJunkBytes
    MaxSerialize = 1
    StartSize = 16
    SubtypeBytes = {0, 170}
    WriteErrors = TRUE
    HeaderSize = 2
    MaxChunk = 2
    MaxWrites = 2
    MaxSectors = 2
    MaxReads = 5
SPECIFICATION Spec
INVARIANT TypeOK
INVARIANT SerializedDocumentsWellFormed
INVARIANT MCReadLoopHandsOverWholeWrites
INVARIANT MCCrawlerWritesEachPartitionOnce
INVARIANT MCCrawlerReleasesEverything
INVARIANT MCEachBufferFreedOnce
PROPERTY RefinesBitSet
\* glibc aborts the process on the double free of a failed bson_writef.
CHECK_DEADLOCK FALSE
