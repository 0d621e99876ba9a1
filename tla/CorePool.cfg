\* One job and one LocateObjects call share a single thread; the container may
\* be restarted, and the child prints more lines than its pipe holds.
\* Every call ends under the fairness of the threads and the scripts; a child
\* its handler left may fill its pipe and stay.
SPECIFICATION FairSpec
CONSTANTS
    c1 = c1  c2 = c2  l1 = l1  d1 = d1  d2 = d2  k1 = k1  k2 = k2
    m1 = m1  m2 = m2  a = a  b = b
    None = None
    ProcessCalls <- OneCall
    LocateCalls <- OneLocate
    Names <- TwoNames
    PlainNames <- OneName
    Models <- OneModel
    Dirs <- OneDir
    ObjectKeys <- OneKey
    MaxWorkers = 1
    MaxLines = 3
    PipeSize = 1
    MaxRestarts = 1
INVARIANTS AnswerIsLast EveryCallAnswered GaugeCountsHandlers
PROPERTIES FulfilsContract ChildrenEndOrFill
