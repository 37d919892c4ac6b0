CONSTANTS
    orchestrator = orchestrator
    base = base
    collectorA = collectorA
    collectorB = collectorB
    decision = decision
    notifier = notifier
    Workflow = {orchestrator, base, collectorA, collectorB, decision, notifier}
    Root = orchestrator
    Steps <- MCSteps
    MaxAttempts <- MCMaxAttempts
    Abort = {collectorB}
SPECIFICATION FairSpec
INVARIANTS
    TypeOK
    AttemptsHold
    HandlersFollowFailure
    NothingSkipped
    AbortStops
    NoOrphans
    InputsReady
PROPERTY RunEnds
CHECK_DEADLOCK FALSE
