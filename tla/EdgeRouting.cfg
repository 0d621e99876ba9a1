\* One call on every kind of asset, with progress messages in the stream.  The
\* Core may stay silent, break or answer late: the call returns.
SPECIFICATION FairSpec
CONSTANTS
    c1 = c1  c2 = c2  s1 = s1  s2 = s2  k1 = k1  k2 = k2
    p1 = p1  p2 = p2  t1 = t1  t2 = t2
    None = None
    Scenes = {s1, s2}
    Calls <- OneCall
    HostInputs <- AllKinds
    ObjectKeys = {k1}
    ProxyKeys = {p1}
    Temps = {t1}
    WireSize = 2
INVARIANTS TwinProcessed
PROPERTY EveryInvocationAnswered
