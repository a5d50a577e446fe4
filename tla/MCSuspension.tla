---------------------------- MODULE MCSuspension ----------------------------
(***************************************************************************)
(* Accounts with a history variable: the accounts an administrator switched *)
(* off and has not switched on again.  The tables cannot tell these from    *)
(* accounts that never confirmed their address.                            *)
(***************************************************************************)
EXTENDS MCAccounts

VARIABLE suspended

Committed(op, u) ==
    \E r \in Request : flight[r].op = op /\ flight[r].user = u /\ Commit(r)

HInit == Init /\ suspended = {}

HNext ==
    /\ Next
    /\ suspended' = {u \in User : \/ Committed("deactivate", u)
                                  \/ u \in suspended /\ ~ Committed("activate", u)}

HSpec == HInit /\ [][HNext]_<<vars, suspended>>

\* update_by_admin deletes every emailed link, since "a live link would let the
\* user undo their own deactivation": an account switched off stays off until
\* an administrator switches it on.
SuspendedStaysOff == \A u \in suspended : ~ account[u].active
=============================================================================
