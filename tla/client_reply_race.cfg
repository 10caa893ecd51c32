SPECIFICATION Spec
CONSTANTS
    g1 = g1
    g2 = g2
    empty = empty
    a1 = a1
    UUIDs <- MCGoal
    Actions = {a1}
    Results = {}
    NoResult = NoResult
    NoEntry = NoEntry
    EmptyUUID = empty
    ActionOf <- MCOneAction
    GoalAnswers = {"accepted", "rejected", "malformed"}
    ResultAnswers = {"result"}
    CancelCodes = {"NONE", "REJECTED", "UNKNOWN_GOAL_ID", "GOAL_TERMINATED", "other"}
    FeedbackGoals = {}
    CancelTargets = {g1, empty}
INVARIANTS
    AcceptedGoalIsFollowedUp
CHECK_DEADLOCK FALSE
