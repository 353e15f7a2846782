----------------------------- MODULE OrderState -----------------------------
(***************************************************************************)
(* The order reducer of src/backend/app/order_state.py: the statuses of a  *)
(* registered order, the internal events, and the one function that        *)
(* authorises a change of status.                                          *)
(***************************************************************************)

\* OrderStatus.
Statuses == {"queued", "processing", "food_ready", "published", "failed"}

\* The statuses the registry may evict, and those it must keep.
Terminal == {"failed", "published"}
Active == Statuses \ Terminal

\* The OrderEvent union.
Events == {"ProcessingStarted", "FoodPrepared", "ProcessingFailed",
           "QueueAdmissionFailed", "PublishConfirmed", "RetryRequested",
           "RepublishRequested"}

(***************************************************************************)
(* transition(current, event).  "raised" stands for the                    *)
(* InvalidOrderTransitionError of the last case.                           *)
(***************************************************************************)
Transition(status, event) ==
  CASE status = "queued" /\ event = "ProcessingStarted" -> "processing"
    [] status = "processing" /\ event = "FoodPrepared" -> "food_ready"
    [] status = "processing" /\ event = "ProcessingFailed" -> "failed"
    [] status = "queued" /\ event = "QueueAdmissionFailed" -> "failed"
    [] status = "food_ready" /\ event = "PublishConfirmed" -> "published"
    [] status = "failed" /\ event = "RetryRequested" -> "queued"
    [] status = "published" /\ event = "RepublishRequested" -> "food_ready"
    [] OTHER -> "raised"

=============================================================================
