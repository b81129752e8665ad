CONSTANTS
    strict = strict
    lenient = lenient
    Tasks <- TwoTasks
    MaxTries = 2
    FailOnReviewRoute <- StrictOnly
    HasTaskInstance <- StrictOnly
    Faults = {"arguments", "run", "push", "killed"}
SPECIFICATION FairSpec
INVARIANTS
    TypeOK
    SuccessIsTruthful
    FailedOutcomeIsOnRecord
    OnlyLossRepeatsAPublish
PROPERTIES
    EveryTaskEnds
