SPECIFICATION SuiteSpec
CONSTANTS
    Tests = {"auth", "feature", "message", "protocol", "wam"}
    MaxCalls = 2
    WallClock = 99
    MaxUpdates = 1
    Available <- AvailableCounts
    CasesFor <- SuiteCases
    RequestOf <- Encoded
    RunnerResponse <- Response
INVARIANTS
    RegeneratedIsFresh
    FixturesReplay
    AnswersOwnRequest
    SameAsReference
CHECK_DEADLOCK FALSE
