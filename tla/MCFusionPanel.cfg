CONSTANTS
    N = 4
    Backed <- MCBacked
    MinPanel = 2
    MaxConcurrency = 2
    RefineEnabled = TRUE
SPECIFICATION FairPanelSpec
INVARIANTS CountersAgree NoIdleCapacity EndsForCause
PROPERTIES LateAnswersIgnored AnswersNeverAllLost PanelEnds
CHECK_DEADLOCK FALSE
