--------------------------- MODULE RequestStates ---------------------------
(***************************************************************************)
(* The states of a service request and the transitions between them.      *)
(***************************************************************************)

(* ALLOWED_TRANSITIONS, which the staff endpoint and WorkflowService share. *)
Allowed(from) ==
    CASE from = "draft" -> {"submitted"}
      [] from = "under_review" ->
           {"need_more_info", "field_visit_scheduled", "payment_required",
            "approved", "rejected"}
      [] from \in {"submitted", "need_more_info", "field_visit_completed",
                   "payment_required", "reopened"} -> {"under_review"}
      [] from = "field_visit_scheduled" -> {"field_visit_completed"}
      [] from = "approved" -> {"ready_for_pickup"}
      [] from = "ready_for_pickup" -> {"completed"}
      [] from = "completed" -> {"archived"}
      [] from \in {"archived", "rejected"} -> {"reopened"}
      [] OTHER -> {}

Status ==
    {"draft", "submitted", "under_review", "need_more_info", "field_visit_scheduled",
     "field_visit_completed", "payment_required", "approved", "ready_for_pickup",
     "completed", "archived", "rejected", "reopened"}
=============================================================================
