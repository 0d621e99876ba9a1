\* A mesh whose extension is spelled in capitals has a USDZ beside it.
SPECIFICATION Spec
CONSTANTS
    c1 = c1  c2 = c2  s1 = s1  s2 = s2  k1 = k1  k2 = k2
    p1 = p1  p2 = p2  t1 = t1  t2 = t2
    None = None
    Scenes = {s1, s2}
    Calls <- OneCall
    HostInputs <- UpperCase
    ObjectKeys = {k1}
    ProxyKeys = {p1}
    Temps = {t1}
    WireSize = 0
INVARIANTS TwinProcessed
