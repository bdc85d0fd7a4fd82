SPECIFICATION FairSpec
CONSTANTS
    MaxCalls = 3
    KindsOf <- Retry
    MaxCrashes = 1
INVARIANTS AnsweredOnceAndTruly OrphansAreTold OneReplays
PROPERTIES EveryCallAnswered OutcomeKnown OrphansStop
CHECK_DEADLOCK FALSE
