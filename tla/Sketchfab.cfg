\* Two models, three downloads.
SPECIFICATION Spec
CONSTANTS
    house = house  chair = chair
    None = None
    Models <- BothModels
    MaxAttempts = 3
INVARIANTS TypeOK PairOfOneDownload SelectionHasStage
