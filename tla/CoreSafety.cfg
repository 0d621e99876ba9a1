\* Two jobs with the same file name, two threads: interleavings and storage.
SPECIFICATION Spec
CONSTANTS
    c1 = c1  c2 = c2  l1 = l1  d1 = d1  d2 = d2  k1 = k1  k2 = k2
    m1 = m1  m2 = m2  a = a  b = b
    None = None
    ProcessCalls <- TwoCalls
    LocateCalls <- NoCalls
    Names <- OneName
    PlainNames <- OneName
    Models <- TwoModels
    Dirs <- TwoDirs
    ObjectKeys <- TwoKeys
    MaxWorkers = 2
    MaxLines = 0
    PipeSize = 1
    MaxRestarts = 0
INVARIANTS TypeOK ResultIsOfRequest ResultNeedsCleanExit ProcessedCountsResults
PROPERTY ArtifactsKept
