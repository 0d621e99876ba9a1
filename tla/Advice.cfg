\* Two calls of advice, two tokens each, overlapping or not.
SPECIFICATION FairSpec
CONSTANTS
    MaxCalls = 2
    MaxTokens = 2
CHECK_DEADLOCK FALSE
INVARIANTS HandlersInFlight SettledAnswerComplete AdviceInLanguage StreamSamplesAnswer
PROPERTY SpinnerEnds
