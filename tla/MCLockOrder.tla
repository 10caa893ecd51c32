---------------------------- MODULE MCLockOrder ----------------------------
(* Instances of LockOrder for TLC.                                         *)
EXTENDS LockOrder, TLC

CONSTANTS discovery, pipe, application

MCCallsOf ==
    ( discovery :> {"create_reader"} )
 @@ ( pipe :> {"add_data", "add_goal_reply", "add_goal_request", "add_result_request"} )
 @@ ( application :> {"publish", "send_service_request", "send_service_reply",
                      "announce_service", "announce_action", "revoke",
                      "send_action_goal", "cancel_action_goal",
                      "send_action_cancel_goal_reply", "send_action_result",
                      "send_action_feedback", "update_action_status"} )

=============================================================================
