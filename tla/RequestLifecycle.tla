-------------------------- MODULE RequestLifecycle --------------------------
(***************************************************************************)
(* What the request store promises about one request, crashes and failed   *)
(* saves included: the transitions its durable record may make.            *)
(*                                                                         *)
(* executing: recorded as running and not known to have completed;         *)
(* completed: running, the execution is known to have completed;           *)
(* forgotten: released by its owner or past the retention of the history.  *)
(***************************************************************************)
CONSTANT Ids

VARIABLE status

Statuses == {"unborn", "executing", "completed", "delivering", "succeeded",
             "failed", "interrupted", "cancelled", "forgotten"}

Ended == {"succeeded", "failed", "interrupted", "cancelled"}

\* allowedTransition, with the rule of transitionLocked and recoverLocked that
\* completed work can only succeed and that an ended request never moves on.
Edge(a, b) ==
    \/ a = "unborn" /\ b = "executing"
    \/ a = "executing" /\ b \in {"completed"} \cup Ended
    \/ a = "completed" /\ b \in {"delivering", "succeeded"}
    \/ a = "delivering" /\ b = "succeeded"
    \/ a \in Ended /\ b = "forgotten"

Init == status = [i \in Ids |-> "unborn"]

\* One transaction or one startup may move several requests.
Next == /\ status' \in [Ids -> Statuses]
        /\ \A i \in Ids : status'[i] = status[i] \/ Edge(status[i], status'[i])

Spec == Init /\ [][Next]_status

=============================================================================
