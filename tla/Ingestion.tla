----------------------------- MODULE Ingestion ------------------------------
(***************************************************************************)
(* Scans of the watch root: the poll and POST /inspections/scan requests.  *)
(*                                                                         *)
(* Code: backend/app/ingestion/service.py (scan_directory and the helpers  *)
(* it calls), naming.py, validation.py, watcher.py, tasks/ingestion.py.    *)
(*                                                                         *)
(* A scan is one READ COMMITTED transaction over all the files it has      *)
(* listed.  Between its statements other scans commit, the camera writes   *)
(* and files disappear.  A unique key that another open transaction has    *)
(* inserted makes an INSERT wait; if that one commits, the INSERT raises   *)
(* and the whole scan is rolled back.  The poll runs again for ever, a     *)
(* request once.  What follows the commit, the enqueueing of run_inference *)
(* for each QUEUED row, is in Pipeline.                                    *)
(***************************************************************************)
EXTENDS Naturals, FiniteSets

CONSTANTS
  Files,         \* paths of files one level below a batch directory, in the order they sort
  Boards,        \* board rows: a batch with the stem of a file's name
  Batches,       \* batch rows
  Contents,      \* checksums of complete files
  Images,        \* those that decode as an image in an accepted format
  BoardOf,       \* [Files -> Boards]; "a.jpg" and "a.png" have the same board
  BatchOf,       \* [Files -> Batches]
  ContentOf,     \* [Files -> Contents]
  Poll,          \* the poll of the watch root
  Requests,      \* scan requests for the watch root; each is made once
  MaxCrashes,    \* bound on the number of scans cut off by a crash
  Environments   \* the combinations of disturbances to consider

Scans == {Poll} \cup Requests

Disturbances ==
  {"concurrent",   \* a scan may begin while another one is open
   "crash",        \* a scan's process is killed, or its request cancelled
   "slow_camera",  \* a file can be seen before it is complete
   "removed",      \* a file may be taken away
   "unreadable",   \* a file may be listed, but opening or reading it raises OSError
   "purge"}        \* retention deletes rows

ASSUME IngestionAssumption ==
  /\ Files \subseteq Nat
  /\ IsFiniteSet(Files)
  /\ Contents \cap Files = {}
  /\ Images \subseteq Contents
  /\ Boards \cap Batches = {}
  /\ BoardOf \in [Files -> Boards]
  /\ BatchOf \in [Files -> Batches]
  /\ ContentOf \in [Files -> Contents]
  /\ \A f, g \in Files : BoardOf[f] = BoardOf[g] => BatchOf[f] = BatchOf[g]
  /\ Poll \notin Requests
  /\ MaxCrashes \in Nat
  /\ Environments \subseteq SUBSET Disturbances

VARIABLES
  file,     \* [Files -> FileStates]: the watch root
  rows,     \* committed inspection_image rows
  keys,     \* committed batch and board rows
  scan,     \* [Scans -> ScanStates]
  crashes,  \* crashes so far
  env       \* the disturbances that may happen in this behaviour

vars == <<file, rows, keys, scan, crashes, env>>

FileStates == {"absent", "partial", "complete", "unreadable", "removed"}

\* A row remembers which scan inserted it, which stands for its id.  The checksum of a fragment
\* of a file is represented by the file: no other content has it.
Rows ==
  [by : Scans, path : Files, checksum : Contents \cup Files, status : {"QUEUED", "FAILED"}]

ScanStates ==
  [pc : {"idle", "file", "batch", "new_batch", "checksum", "metadata", "duplicate",
         "board", "new_board", "done"},
   todo : SUBSET Files,                  \* the listed files that are still to be ingested
   checksum : Contents \cup Files \cup {0},
   status : {"QUEUED", "FAILED"},        \* what the current file's row will be
   rows : SUBSET Rows,                   \* inserted and not committed
   keys : SUBSET (Batches \cup Boards)]  \* inserted and not committed

NoScan == [pc |-> "idle", todo |-> {}, checksum |-> 0, status |-> "QUEUED", rows |-> {},
           keys |-> {}]

\* A request that has ended is not made again.
Ended(s) == IF s = Poll THEN NoScan ELSE [NoScan EXCEPT !.pc = "done"]

Open(s) == scan[s].pc \notin {"idle", "done"}
Current(s) == CHOOSE f \in scan[s].todo : \A g \in scan[s].todo : f <= g
VisibleRows(s) == rows \cup scan[s].rows
VisibleKeys(s) == keys \cup scan[s].keys

-----------------------------------------------------------------------------
(* The directory *)

Valid(f) == file[f] = "complete" /\ ContentOf[f] \in Images

\* The camera writes a file, at once or in pieces; later somebody may take it away.
Camera(f) ==
  /\ \/ file[f] \in {"absent", "partial"} /\ file' = [file EXCEPT ![f] = "complete"]
     \/ /\ file[f] = "absent"
        /\ \/ "slow_camera" \in env /\ file' = [file EXCEPT ![f] = "partial"]
           \/ "unreadable" \in env /\ file' = [file EXCEPT ![f] = "unreadable"]
     \/ /\ file[f] \notin {"absent", "removed"}
        /\ "removed" \in env
        /\ file' = [file EXCEPT ![f] = "removed"]
  /\ UNCHANGED <<rows, keys, scan, crashes, env>>

-----------------------------------------------------------------------------
(* A scan *)

Becomes(s, state) ==
  /\ scan' = [scan EXCEPT ![s] = state]
  /\ UNCHANGED <<file, rows, keys, crashes, env>>

Start(s) ==
  /\ scan[s].pc = "idle"
  /\ "concurrent" \in env \/ \A t \in Scans : ~Open(t)
  /\ Becomes(s, [NoScan EXCEPT !.pc = "file",
                               !.todo = {f \in Files : file[f] \notin {"absent", "removed"}}])

NextFile(state, f) == [state EXCEPT !.pc = "file", !.todo = @ \ {f}]

\* _is_known_path
KnownPath(s) ==
  /\ scan[s].pc = "file"
  /\ scan[s].todo # {}
  /\ IF \E r \in VisibleRows(s) : r.path = Current(s)
     THEN Becomes(s, NextFile(scan[s], Current(s)))
     ELSE Becomes(s, [scan[s] EXCEPT !.pc = "batch"])

\* The row that a scan looks for or inserts.
Key(s) == IF scan[s].pc \in {"batch", "new_batch"} THEN BatchOf[Current(s)] ELSE BoardOf[Current(s)]

\* With its batch there, the file is read; with its board there, its row is inserted.
Resolved(s, state) ==
  IF state.pc \in {"batch", "new_batch"}
  THEN [state EXCEPT !.pc = "checksum"]
  ELSE [NextFile(state, Current(s)) EXCEPT
          !.rows = @ \cup {[by |-> s, path |-> Current(s), checksum |-> state.checksum,
                            status |-> state.status]}]

\* The SELECT of _get_or_create_batch and _get_or_create_board.
FindKey(s) ==
  /\ scan[s].pc \in {"batch", "board"}
  /\ Becomes(s, IF Key(s) \in VisibleKeys(s)
                THEN Resolved(s, scan[s])
                ELSE [scan[s] EXCEPT !.pc = IF @ = "batch" THEN "new_batch" ELSE "new_board"])

WaitsFor(s, t) ==
  /\ scan[s].pc \in {"new_batch", "new_board"}
  /\ t # s
  /\ Key(s) \in scan[t].keys

\* Their INSERT: the first to insert a key has it, the next one waits and then fails if it
\* was committed.
InsertKey(s) ==
  /\ scan[s].pc \in {"new_batch", "new_board"}
  /\ \A t \in Scans : ~WaitsFor(s, t)
  /\ Becomes(s, IF Key(s) \in keys
                THEN Ended(s)
                ELSE Resolved(s, [scan[s] EXCEPT !.keys = @ \cup {Key(s)}]))

\* The database ends one of the transactions that wait for each other.
BreakDeadlock(s) ==
  /\ \E waiting \in SUBSET Scans :
       s \in waiting /\ \A t \in waiting : \E u \in waiting : WaitsFor(t, u)
  /\ Becomes(s, Ended(s))

\* sha256_checksum: what the file is now.  An OSError is caught by no one.
Checksum(s) ==
  /\ scan[s].pc = "checksum"
  /\ LET f == Current(s) IN
     Becomes(s, IF file[f] \in {"partial", "complete"}
                THEN [scan[s] EXCEPT
                        !.pc = "metadata",
                        !.checksum = IF file[f] = "partial" THEN f ELSE ContentOf[f]]
                ELSE Ended(s))

\* A mutant of Metadata: the status of an invalid file stays for the files after it.
MetadataSticky(s) ==
  /\ scan[s].pc = "metadata"
  /\ Becomes(s, IF Valid(Current(s))
                THEN [scan[s] EXCEPT !.pc = "duplicate"]
                ELSE [scan[s] EXCEPT !.pc = "board", !.status = "FAILED"])

\* read_image_metadata opens the file once more; here an OSError makes the row FAILED.
Metadata(s) ==
  /\ scan[s].pc = "metadata"
  /\ Becomes(s, IF Valid(Current(s))
                THEN [scan[s] EXCEPT !.pc = "duplicate", !.status = "QUEUED"]
                ELSE [scan[s] EXCEPT !.pc = "board", !.status = "FAILED"])

\* A mutant of HasTwin: only committed rows are asked, not those of the scan itself.
HasCommittedTwin(s) ==
  \E r \in rows : BatchOf[r.path] = BatchOf[Current(s)] /\ r.checksum = scan[s].checksum

\* Does a visible row of the file's batch have its checksum?
HasTwin(s) ==
  \E r \in VisibleRows(s) :
    BatchOf[r.path] = BatchOf[Current(s)] /\ r.checksum = scan[s].checksum

\* _find_duplicate_in_batch
Duplicate(s) ==
  /\ scan[s].pc = "duplicate"
  /\ Becomes(s, IF HasTwin(s) THEN NextFile(scan[s], Current(s))
                ELSE [scan[s] EXCEPT !.pc = "board"])

\* A mutant of Commit: the batches and boards are left to a transaction that is not committed.
CommitRowsOnly(s) ==
  /\ scan[s].pc = "file"
  /\ scan[s].todo = {}
  /\ rows' = VisibleRows(s)
  /\ scan' = [scan EXCEPT ![s] = Ended(s)]
  /\ UNCHANGED <<file, keys, crashes, env>>

Commit(s) ==
  /\ scan[s].pc = "file"
  /\ scan[s].todo = {}
  /\ rows' = VisibleRows(s)
  /\ keys' = VisibleKeys(s)
  /\ scan' = [scan EXCEPT ![s] = Ended(s)]
  /\ UNCHANGED <<file, crashes, env>>

Crash(s) ==
  /\ "crash" \in env
  /\ crashes < MaxCrashes
  /\ Open(s)
  /\ crashes' = crashes + 1
  /\ scan' = [scan EXCEPT ![s] = Ended(s)]
  /\ UNCHANGED <<file, rows, keys, env>>

\* Retention deletes the row of an image past its window; its file, batch and board remain.
Purge(r) ==
  /\ "purge" \in env
  /\ r \in rows
  /\ rows' = rows \ {r}
  /\ UNCHANGED <<file, keys, scan, crashes, env>>

-----------------------------------------------------------------------------
\* Batches may be there from images of other boards that have been ingested earlier.
Init ==
  /\ file = [f \in Files |-> "absent"]
  /\ rows = {}
  /\ keys \in SUBSET Batches
  /\ scan = [s \in Scans |-> NoScan]
  /\ crashes = 0
  /\ env \in Environments

ScanStep(s) ==
  \/ KnownPath(s) \/ FindKey(s) \/ InsertKey(s) \/ BreakDeadlock(s)
  \/ Checksum(s) \/ Metadata(s) \/ Duplicate(s) \/ Commit(s)

Next ==
  \/ \E f \in Files : Camera(f)
  \/ \E s \in Scans : Start(s) \/ ScanStep(s) \/ Crash(s)
  \/ \E r \in rows : Purge(r)

Spec == Init /\ [][Next]_vars

\* Celery beat sends the poll for ever, as long as watch mode is configured and not paused,
\* and an open transaction goes on.  One that waits for a key gets it, or its error, when the
\* holder ends (the database wakes it), even if the next holder would be quick.
Fairness ==
  /\ WF_vars(Start(Poll))
  /\ \A s \in Scans : WF_vars(ScanStep(s)) /\ SF_vars(InsertKey(s))

FairSpec == Spec /\ Fairness

-----------------------------------------------------------------------------
(* Properties *)

TypeOK ==
  /\ file \in [Files -> FileStates]
  /\ rows \subseteq Rows
  /\ keys \subseteq Batches \cup Boards
  /\ scan \in [Scans -> ScanStates]
  /\ \A s \in Scans : scan[s].pc \notin {"idle", "file", "done"} => scan[s].todo # {}
  /\ \A r \in rows : BatchOf[r.path] \in keys /\ BoardOf[r.path] \in keys
  /\ crashes \in 0..MaxCrashes
  /\ env \in Environments

\* RN-04: a path is ingested once, and no two images of a batch that go to inspection have the
\* same checksum.  Nothing but the SELECTs of _is_known_path and _find_duplicate_in_batch
\* stands behind this, so it is only promised while scans do not overlap.
NoDuplicates ==
  "concurrent" \notin env
    => \A r, q \in rows : r # q =>
         /\ r.path # q.path
         /\ BatchOf[r.path] = BatchOf[q.path] /\ r.status = "QUEUED" /\ q.status = "QUEUED"
              => r.checksum # q.checksum

\* The row of a file says what the file is, whatever else was ingested before it in the same
\* scan and whoever interfered, provided the file was complete when it was first seen
\* (_ingest_batch_file reads it twice).
RowsMatchFiles ==
  env \cap {"slow_camera", "removed"} = {}
    => \A r \in rows : /\ r.checksum = ContentOf[r.path]
                       /\ r.status = "QUEUED" <=> r.checksum \in Images

\* The image of a file is known: it goes to inspection, or one with the same content does.
Ingested(f) ==
  \E r \in rows : BatchOf[r.path] = BatchOf[f] /\ r.checksum = ContentOf[f] /\ r.status = "QUEUED"

\* Watch mode comes to every file: a scan that is rolled back, because another one inserted the
\* same batch or a file vanished, costs no file its inspection.
EveryFileIngested ==
  \A f \in Files :
    env \cap {"slow_camera", "removed", "unreadable"} = {} /\ Valid(f) ~> Ingested(f)

\* service.py:1-7: a bad file does not abort the rest.
BadFileStopsNoOther ==
  \A f \in Files : Valid(f) ~> Ingested(f)
=============================================================================
