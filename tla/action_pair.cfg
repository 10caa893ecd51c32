SPECIFICATION FairPairSpec
CONSTANTS
    g1 = g1
    g2 = g2
    empty = empty
    a1 = a1
    r1 = r1
    r2 = r2
    UUIDs <- MCGoals
    Actions = {a1}
    Results = {r1, r2}
    NoResult = NoResult
    NoEntry = NoEntry
    EmptyUUID = empty
    ActionOf <- MCOneAction
    CancelTargets = {}
    GoalAnswers = {"accepted", "rejected"}
    ResultAnswers = {"result"}
    CancelCodes = {"NONE"}
    FeedbackGoals = {}
    GivenResults <- MCGivenResults
    FinalCodes = {"SUCCEEDED"}
INVARIANTS
    AwaitedGoalIsServed
PROPERTIES
    ImplementsExchange
    TakenResultIsTold
    ToldGoalIsReleased
CHECK_DEADLOCK FALSE
