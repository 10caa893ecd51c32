SPECIFICATION Spec
CONSTANTS
    g1 = g1
    g2 = g2
    empty = empty
    a1 = a1
    UUIDs <- MCGoals
    Actions = {a1}
    Results = {}
    NoResult = NoResult
    NoEntry = NoEntry
    EmptyUUID = empty
    ActionOf <- MCOneAction
    GoalAnswers = {"accepted", "rejected"}
    ResultAnswers = {"result", "unreadable"}
    CancelCodes = {"NONE"}
    FeedbackGoals = {}
    CancelTargets = {}
INVARIANTS
    ReplyFindsItsGoal
PROPERTIES
    EraseNeedsBoth
    ImplementsTracking
SYMMETRY MCSymmetry
CHECK_DEADLOCK FALSE
