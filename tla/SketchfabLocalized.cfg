\* One download that fails: how the window words the error.
SPECIFICATION Spec
CONSTANTS
    house = house  chair = chair
    None = None
    Models <- BothModels
    MaxAttempts = 1
INVARIANT ErrorsLocalized
