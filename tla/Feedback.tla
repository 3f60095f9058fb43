------------------------------ MODULE Feedback -------------------------------
(***************************************************************************)
(* What operators say about an inspection: they validate or reject its     *)
(* analysis, confirm or dismiss a detection, draw one the model missed,    *)
(* decide what becomes of the board.                                       *)
(*                                                                         *)
(* Code: backend/app/analyses/service.py and router.py,                    *)
(* detections/service.py and router.py, inspections/service.py and         *)
(* router.py, audit/service.py, models/analysis_review.py,                 *)
(* models/board_disposition.py, models/detection.py.                       *)
(*                                                                         *)
(* All of them answer to one scheme: read the row, set a column, stage an  *)
(* AuditLog entry (and an AnalysisReview), commit.  The session writes the *)
(* column only when it differs from what it has read, and requests         *)
(* overlap: another may commit between the read and the write.             *)
(***************************************************************************)
EXTENDS Naturals, Sequences, Functions

CONSTANTS
  Analyses,      \* analysis rows ...
  Detections,    \* ... detection rows the model has produced ...
  Drawn,         \* ... detection rows drawn by hand ...
  Dispositions,  \* ... and board_disposition rows, all of one inspection
  Feedbacks,     \* API requests that may be under way at a time
  MaxEntries     \* bound on the audit entries, of all rows together

\* What the proofs ask of the constants: the tables have rows of their own.
FeedbackAssumption ==
  /\ Analyses \cap (Detections \cup Drawn \cup Dispositions) = {}
  /\ Detections \cap (Drawn \cup Dispositions) = {} /\ Drawn \cap Dispositions = {}

Rows == Analyses \cup Detections \cup Drawn \cup Dispositions

VARIABLES
  shown,   \* [Rows -> review_status, review or decision]; "absent" when there is no row
  audit,   \* [Rows -> Seq(entry)]: audit_log entries (and reviews), in commit order
  request, \* what each request has read and is about to write
  purged   \* whether retention has deleted the inspection

feedbackVars == <<shown, audit, request, purged>>

Decisions(row) == IF row \in Analyses THEN {"VALIDATED", "REJECTED"}
                  ELSE IF row \in Dispositions THEN {"APPROVED", "REWORK", "DISCARDED"}
                  ELSE {"confirmed", "false_positive"}
Blank(row) == IF row \in Analyses THEN "PENDING"
              ELSE IF row \in Detections THEN "unreviewed" ELSE "absent"

AllDecisions == UNION {Decisions(row) : row \in Rows}
Idle == [row |-> "none"]

\* The row as the session has read it, and how many entries of the audit log were there then.
Read(r, row, decision) ==
  /\ request[r] = Idle
  /\ request' = [request EXCEPT ![r] =
       [row |-> row, decision |-> decision, previous |-> shown[row], after |-> Len(audit[row])]]
  /\ UNCHANGED <<shown, audit, purged>>

\* 404 once the row is gone; the disposition need not exist yet, its inspection must.
BeginReview(r, row) ==
  /\ row \in Analyses \cup Detections \cup Drawn /\ shown[row] # "absent"
  /\ \E decision \in Decisions(row) : Read(r, row, decision)

BeginDisposition(r, row) ==
  /\ row \in Dispositions /\ ~purged
  /\ \E decision \in Decisions(row) : Read(r, row, decision)

BeginAnnotation(r, row) ==
  /\ row \in Drawn /\ ~purged /\ shown[row] = "absent"
  /\ \A other \in Feedbacks : request[other].row # row
  /\ Read(r, row, "confirmed")

\* What the payload of an audit entry says of the value replaced: set_detection_review and
\* set_disposition record it; review_analysis records the comment alone, annotate_detection what
\* was drawn.
Unrecorded == "unrecorded"
RecordsPrevious(q) == q.row \notin Analyses /\ (q.row \in Drawn => q.previous # "absent")

\* A mutant of Entry: the entry is made up after the column has been set.
EntryAfterwards(q) ==
  [decision |-> q.decision, previous |-> IF RecordsPrevious(q) THEN q.decision ELSE Unrecorded,
   after |-> q.after]

\* record_audit, in the same transaction.
Entry(q) ==
  [decision |-> q.decision, previous |-> IF RecordsPrevious(q) THEN q.previous ELSE Unrecorded,
   after |-> q.after]

RecordAudit(q) == /\ FoldFunction(LAMBDA log, n : Len(log) + n, 0, audit) < MaxEntries
                  /\ audit' = [audit EXCEPT ![q.row] = Append(@, Entry(q))]

Ends(r) == request' = [request EXCEPT ![r] = Idle]

\* A mutant of CommitUpdate: only the first feedback is shown.
CommitFirstUpdate(r) ==
  LET q == request[r] IN
  /\ q # Idle /\ q.previous # "absent" /\ shown[q.row] # "absent"
  /\ shown' = [shown EXCEPT ![q.row] = IF q.previous = Blank(q.row) THEN q.decision ELSE @]
  /\ RecordAudit(q)
  /\ Ends(r)
  /\ UNCHANGED purged

\* The row had been read: UPDATE if the value differs, then the entry.
CommitUpdate(r) ==
  LET q == request[r] IN
  /\ q # Idle /\ q.previous # "absent" /\ shown[q.row] # "absent"
  /\ shown' = [shown EXCEPT ![q.row] = IF q.decision = q.previous THEN @ ELSE q.decision]
  /\ RecordAudit(q)
  /\ Ends(r)
  /\ UNCHANGED purged

\* There was none: INSERT.  It fails when another request has inserted the disposition
\* (UNIQUE image_id) or retention has deleted the inspection (foreign key).
CommitInsert(r) ==
  LET q == request[r] IN
  /\ q # Idle /\ q.previous = "absent" /\ shown[q.row] = "absent" /\ ~purged
  /\ shown' = [shown EXCEPT ![q.row] = q.decision]
  /\ RecordAudit(q)
  /\ Ends(r)
  /\ UNCHANGED purged

\* An UPDATE of no row (also for the operator alone, a column that `shown` leaves out), a broken
\* constraint: a 500, and everything staged is rolled back.
CommitFails(r) ==
  LET q == request[r] IN
  /\ q # Idle
  /\ \/ q.previous = "absent" /\ (shown[q.row] # "absent" \/ purged)
     \/ q.previous # "absent" /\ purged
  /\ Ends(r)
  /\ UNCHANGED <<shown, audit, purged>>

\* The same decision by the operator who had made it: with nothing to update, a deleted detection
\* or disposition is not missed.  The entry is committed, the refresh that follows fails.
CommitEntryOnly(r) ==
  LET q == request[r] IN
  /\ q # Idle /\ purged /\ q.previous = q.decision /\ q.row \notin Analyses
  /\ RecordAudit(q)
  /\ Ends(r)
  /\ UNCHANGED <<shown, purged>>

\* retention deletes the analysis; detections and disposition cascade with the image.
PurgeInspection ==
  /\ ~purged
  /\ purged' = TRUE
  /\ shown' = [row \in Rows |-> "absent"]
  /\ UNCHANGED <<audit, request>>

-----------------------------------------------------------------------------
Init ==
  /\ shown = [row \in Rows |-> Blank(row)]
  /\ audit = [row \in Rows |-> <<>>]
  /\ request = [r \in Feedbacks |-> Idle]
  /\ purged = FALSE

Next ==
  \/ \E r \in Feedbacks, row \in Rows :
       BeginReview(r, row) \/ BeginDisposition(r, row) \/ BeginAnnotation(r, row)
  \/ \E r \in Feedbacks :
       CommitUpdate(r) \/ CommitInsert(r) \/ CommitFails(r) \/ CommitEntryOnly(r)
  \/ PurgeInspection

Spec == Init /\ [][Next]_feedbackVars

-----------------------------------------------------------------------------
Entries == [decision : AllDecisions,
            previous : AllDecisions \cup {Blank(row) : row \in Rows} \cup {Unrecorded}, after : Nat]

TypeOK ==
  /\ shown \in [Rows -> AllDecisions \cup {"absent", "PENDING", "unreviewed"}]
  /\ audit \in [Rows -> Seq(Entries)]
  /\ \A r \in Feedbacks : request[r] # Idle => request[r].row \in Rows /\ Entry(request[r]) \in Entries
  /\ purged \in BOOLEAN

\* The entries of `row` that no other one began after, among its first n.
LatestOf(row, n) == {k \in 1..n : \A j \in 1..n : audit[row][j].after < k}

\* What a row shows is a latest feedback on it: however requests overlap, and though a session
\* that found its value there already writes nothing, feedback that began after all other
\* feedback was committed is never hidden by it.  (Of two that overlap either may show, also
\* the one the history lists first.)
ShowsALatestFeedback ==
  ~purged => \A row \in Rows :
    IF audit[row] = <<>> THEN shown[row] = Blank(row)
    ELSE \E k \in LatestOf(row, Len(audit[row])) : shown[row] = audit[row][k].decision

\* The audit log tells what the judgement of a detection, or the decision about a board, has
\* replaced: the previous value of its entry is a latest one of those committed before its
\* request began, however requests overlap.
AuditTellsPrevious ==
  \A row \in Rows : \A i \in DOMAIN audit[row] :
    LET entry == audit[row][i] IN
    entry.previous # Unrecorded =>
      IF entry.after = 0 THEN entry.previous = Blank(row)
      ELSE \E k \in LatestOf(row, entry.after) : entry.previous = audit[row][k].decision
=============================================================================
