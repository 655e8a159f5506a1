------------------------- MODULE ReservationStatus -------------------------
(***************************************************************************)
(* The status vocabulary of a reservation row and the transition rules of  *)
(* ReservationStatusService.  The module is constant-level: the state      *)
(* machines that move rows take their guards from here.                    *)
(***************************************************************************)

Status == {"pending", "pending_approval", "confirmed", "in_progress",
           "completed", "cancelled", "rejected", "no_show"}

StorageStatus == {"available", "occupied", "maintenance"}

\* A row that has not been inserted yet.
Absent == "absent"

ACTIVE_RESERVATION_STATUSES == {"confirmed", "in_progress"}

NO_SHOW_FROM_STATUSES == {"pending", "pending_approval", "confirmed"}

\* Faulty: a completed reservation keeps its storage occupied.
ReleaseOnRefusal == {"rejected", "cancelled"}

RELEASE_STORAGE_STATUSES == {"rejected", "cancelled", "completed"}

TERMINAL_RESERVATION_STATUSES == {"rejected", "cancelled", "completed"}

GUEST_CANCEL_STATUSES == {"pending", "pending_approval", "confirmed"}

CAPACITY_COUNT_STATUSES ==
    {"pending", "pending_approval", "confirmed", "in_progress"}

\* What the TTL cleanup and the hourly auto-completion look for.
CLEANUP_FROM == {"pending", "confirmed"}
AUTO_COMPLETE_FROM == {"confirmed", "in_progress"}

CHECK_IN_FROM == {"pending", "pending_approval", "confirmed"}
CHECK_OUT_FROM == {"pending", "pending_approval", "confirmed", "in_progress"}

----------------------------------------------------------------------------

\* Faulty: whatever is not terminal may be approved.
assertNotTerminal(s) == s \notin TERMINAL_RESERVATION_STATUSES

assertCanApprove(s) == s \in {"pending", "pending_approval", "confirmed"}

assertCanCheckin(s) == s \in {"confirmed", "in_progress"}

assertCanCheckout(s) == s \in {"confirmed", "in_progress"}

getAllowedNextStatuses(s) ==
    CASE s \in {"pending", "pending_approval"} ->
            {"confirmed", "rejected", "cancelled"}
      [] s = "confirmed" -> {"in_progress", "completed", "cancelled"}
      [] s = "in_progress" -> {"completed", "cancelled"}
      [] OTHER -> {}

\* Asking for the status a row already has is accepted, terminal or not: the
\* caller goes on to write it, and to release the storage, once more.
assertCanTransition(s, next) ==
    \/ s = next
    \/ /\ s \notin TERMINAL_RESERVATION_STATUSES
       /\ next \in getAllowedNextStatuses(s)

\* The statuses from which the service allows nothing else: the terminal ones
\* and no_show, which has no entry in getAllowedNextStatuses.
Closed(s) == s \in TERMINAL_RESERVATION_STATUSES \union {"no_show"}
=============================================================================
