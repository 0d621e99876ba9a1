CONSTANTS
    Grain = 5
    MaxAnalyses = 2
    Stages <- MCStages
    Bitrates <- MCBitrates

SPECIFICATION Spec

INVARIANTS
    ReportCurrent
    LabelsTranslated
    AdviceClaims
    QualityAgrees
    BypassExplained
    FiguresTrue

CHECK_DEADLOCK FALSE
