---------------------------- MODULE ImageStatus ----------------------------
(***************************************************************************)
(* The status state machine of an InspectionImage row, translated from     *)
(* backend/app/inspections/state.py: the transition table, `transition`    *)
(* and `mark_failed` as functions from a row to the row they leave behind. *)
(*                                                                         *)
(* A row is abstracted to the three columns these functions touch: the     *)
(* status, and for failure_reason and processed_at whether they hold a     *)
(* value ("set") or not ("null").                                          *)
(***************************************************************************)

TERMINAL_STATUSES == {"COMPLETED", "FAILED"}

SetIf(condition) == IF condition THEN "set" ELSE "null"

ALLOWED_TRANSITIONS ==
  [QUEUED     |-> {"PROCESSING", "FAILED"},
   PROCESSING |-> {"DETECTED", "COMPLETED", "FAILED"},
   DETECTED   |-> {"ANALYZING", "COMPLETED", "FAILED"},
   ANALYZING  |-> {"COMPLETED", "FAILED"},
   COMPLETED  |-> {"ANALYZING"},
   FAILED     |-> {"QUEUED"}]

ImageStatuses ==
  {"QUEUED", "PROCESSING", "DETECTED", "ANALYZING", "COMPLETED", "FAILED"}

\* `transition` raises InvalidTransitionError unless this holds.
CanTransition(from, to) ==
  /\ from \in ImageStatuses
  /\ to \in ALLOWED_TRANSITIONS[from]

\* A mutant of Transition: the timestamp of an earlier completion survives re-opening.
TransitionKeepsTimestamp(row, to) ==
  [row EXCEPT !.status = to,
              !.failure_reason = SetIf(to = "FAILED"),
              !.processed_at = IF to \in TERMINAL_STATUSES THEN "set" ELSE @]

\* The row `transition(image, to)` leaves, when CanTransition allows it: the reason and the
\* timestamp are cleared on the way to anything but FAILED, and every terminal status stamps
\* a new timestamp.
Transition(row, to) ==
  [row EXCEPT !.status = to,
              !.failure_reason = SetIf(to = "FAILED"),
              !.processed_at = SetIf(to \in TERMINAL_STATUSES)]

\* `mark_failed` raises (and so changes nothing) unless this holds: `transition` refuses
\* COMPLETED -> FAILED, and refuses an empty reason, which str(exc) is for an exception
\* without a message. An image already FAILED only has its reason overwritten.
CanMarkFailed(status, reason) ==
  \/ status = "FAILED"
  \/ CanTransition(status, "FAILED") /\ reason # "blank"

MarkFailed(row) ==
  IF row.status = "FAILED"
  THEN [row EXCEPT !.failure_reason = "set"]
  ELSE Transition(row, "FAILED")
=============================================================================
