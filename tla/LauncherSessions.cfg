\* Two launchers, interrupted anywhere; one container or port-forward may die.
SPECIFICATION FairSpec
CONSTANTS
    first = first  second = second
    None = None
    Launchers <- TwoLaunchers
    MaxCrashes = 1
INVARIANTS StopsOwnCoreUnlessItDied AppHasOwnCore SessionEndsCleanOnceMarked
PROPERTY StartupDecided
