--------------------------- MODULE IngestionProofs ---------------------------
(***************************************************************************)
(* Proofs about Ingestion, for any finite set of files, any boards,        *)
(* batches and contents, any number of scan requests and crashes, and in   *)
(* every environment.                                                      *)
(***************************************************************************)
EXTENDS Ingestion, WellFoundedInduction, TLAPS
-----------------------------------------------------------------------------
(***************************************************************************)
(* The inductive invariant.  An open transaction carries what the SELECTs  *)
(* of its earlier statements established until the row that rests on it is *)
(* inserted: the file's path is new, its batch is there, its checksum is   *)
(* the file's and has no twin.  All of it is said of the state n of one    *)
(* scan, so that a step is examined on the state it leads to.              *)
(***************************************************************************)

First(T) == CHOOSE f \in T : \A g \in T : f <= g

WithBatch == {"checksum", "metadata", "duplicate", "board", "new_board"}
WithChecksum == {"metadata", "duplicate", "board", "new_board"}

\* A row's batch and board are there, for the transaction that sees the row.
HasKeys(r, K) == BatchOf[r.path] \in K /\ BoardOf[r.path] \in K

Keyed(n) ==
  /\ n.pc \in {"idle", "done"} => n.rows = {} /\ n.keys = {}
  /\ \A r \in n.rows : HasKeys(r, keys \cup n.keys)
  /\ n.pc \in WithBatch => BatchOf[First(n.todo)] \in keys \cup n.keys
  /\ n.pc \in WithChecksum => n.checksum \in Contents \cup Files

\* What NoDuplicates asks of two rows.
Differ(r, q) ==
  /\ r.path # q.path
  /\ BatchOf[r.path] = BatchOf[q.path] /\ r.status = "QUEUED" /\ q.status = "QUEUED"
       => r.checksum # q.checksum

Distinct(R) == \A r, q \in R : r # q => Differ(r, q)

\* The only scan sees no row of the file it is at, and none like the one it may insert.
Fresh(n) ==
  /\ Distinct(rows \cup n.rows)
  /\ n.pc # "file" => \A r \in rows \cup n.rows : r.path # First(n.todo)
  /\ n.pc \in {"board", "new_board"} /\ n.status = "QUEUED" =>
       \A r \in rows \cup n.rows :
         ~(BatchOf[r.path] = BatchOf[First(n.todo)] /\ r.checksum = n.checksum)

\* What RowsMatchFiles asks of a row.
Matches(r) == r.checksum = ContentOf[r.path] /\ (r.status = "QUEUED" <=> r.checksum \in Images)

\* Where files are complete when they are first seen, a scan knows its file.
KnowsFile(n) ==
  /\ \A r \in n.rows : Matches(r)
  /\ \A f \in n.todo : file[f] # "absent"
  /\ n.pc \in WithChecksum =>
       n.checksum = ContentOf[First(n.todo)] /\ file[First(n.todo)] = "complete"
  /\ n.pc = "duplicate" => n.status = "QUEUED" /\ n.checksum \in Images
  /\ n.pc \in {"board", "new_board"} => (n.status = "QUEUED" <=> n.checksum \in Images)

Alone == "concurrent" \notin env
Prompt == env \cap {"slow_camera", "removed"} = {}

Fits(n) ==
  /\ n \in ScanStates
  /\ n.pc \notin {"idle", "file", "done"} => n.todo # {}
  /\ Keyed(n)
  /\ Alone /\ n.pc \notin {"idle", "done"} => Fresh(n)
  /\ Prompt => KnowsFile(n)

AloneInv ==
  Alone => Distinct(rows) /\ \A s, t \in Scans : Open(s) /\ Open(t) => s = t

PromptInv ==
  Prompt => /\ \A f \in Files : file[f] \in {"absent", "complete", "unreadable"}
            /\ \A r \in rows : Matches(r)

IInv == TypeOK /\ (\A s \in Scans : Fits(scan[s])) /\ AloneInv /\ PromptInv


-----------------------------------------------------------------------------
(* States of a scan *)

\* The file a scan is at: the first of those that are left.
LEMMA CurrentIsNext ==
  ASSUME NEW s \in Scans, scan[s].todo \subseteq Files, scan[s].todo # {}
  PROVE  Current(s) \in scan[s].todo /\ Current(s) \in Files
<1>1. scan[s].todo \subseteq Nat
  BY IngestionAssumption
<1>2. \E f \in scan[s].todo : \A g \in scan[s].todo : ~(<<g, f>> \in OpToRel(<, Nat))
  BY <1>1, NatLessThanWellFounded, WFMin
<1>3. ASSUME NEW f \in Nat, NEW g \in Nat, ~(<<g, f>> \in OpToRel(<, Nat))
      PROVE  f <= g
  <2>1. g < f => <<g, f>> \in OpToRel(<, Nat)
    BY DEF OpToRel
  <2>2. ~(g < f)
    BY <1>3, <2>1, Zenon
  <2> QED BY <2>2
<1>4. PICK f \in scan[s].todo : \A g \in scan[s].todo : ~(<<g, f>> \in OpToRel(<, Nat))
  BY <1>2
<1>5. \A g \in scan[s].todo : f <= g
  BY <1>1, <1>3, <1>4
<1> QED
  BY <1>5 DEF Current

LEMMA CurrentIsFirst == \A s \in Scans : Current(s) = First(scan[s].todo)
BY Zenon DEF Current, First

LEMMA ScanType ==
  ASSUME TypeOK, NEW s \in Scans
  PROVE  /\ scan[s] \in ScanStates
         /\ scan[s].todo \subseteq Files
         /\ scan[s].pc \in {"idle", "file", "batch", "new_batch", "checksum", "metadata",
                            "duplicate", "board", "new_board", "done"}
         /\ scan[s].todo # {} => Current(s) \in scan[s].todo /\ Current(s) \in Files
         /\ scan[s].pc \notin {"idle", "file", "done"} => scan[s].todo # {}
<1>1. scan[s] \in ScanStates /\ (scan[s].pc \notin {"idle", "file", "done"} => scan[s].todo # {})
  BY DEF TypeOK
<1>2. scan[s].todo \subseteq Files
  BY <1>1 DEF ScanStates
<1>3. scan[s].todo # {} => Current(s) \in scan[s].todo /\ Current(s) \in Files
  BY <1>2, CurrentIsNext
<1> QED
  BY <1>1, <1>2, <1>3 DEF ScanStates

LEMMA EndedType ==
  ASSUME NEW s \in Scans
  PROVE  /\ Ended(s) \in ScanStates /\ Ended(s).pc \in {"idle", "done"}
         /\ Ended(s).rows = {} /\ Ended(s).keys = {} /\ Ended(s).todo = {}
BY DEF Ended, NoScan, ScanStates

LEMMA NoScanType ==
  /\ NoScan \in ScanStates /\ NoScan.pc = "idle"
  /\ NoScan.rows = {} /\ NoScan.keys = {} /\ NoScan.todo = {}
BY DEF NoScan, ScanStates

LEMMA NextFileType ==
  ASSUME NEW state \in ScanStates, NEW f
  PROVE  /\ NextFile(state, f) \in ScanStates
         /\ NextFile(state, f).pc = "file"
         /\ NextFile(state, f).todo = state.todo \ {f}
         /\ NextFile(state, f).rows = state.rows /\ NextFile(state, f).keys = state.keys
         /\ NextFile(state, f).checksum = state.checksum
BY DEF NextFile, ScanStates

\* The row that Resolved inserts for the scan's file.
NewRow(s, state) ==
  [by |-> s, path |-> Current(s), checksum |-> state.checksum, status |-> state.status]

LEMMA NewRowType ==
  ASSUME NEW s \in Scans, NEW state \in ScanStates, Current(s) \in Files,
         state.checksum \in Contents \cup Files
  PROVE  NewRow(s, state) \in Rows
BY DEF NewRow, ScanStates, Rows

\* The two things a resolved key can lead to: the file is read, or its row is inserted.
LEMMA ResolvedType ==
  ASSUME NEW s \in Scans, NEW state \in ScanStates, Current(s) \in Files,
         state.pc \in {"batch", "new_batch", "board", "new_board"},
         state.pc \in {"board", "new_board"} => state.checksum \in Contents \cup Files
  PROVE  /\ Resolved(s, state) \in ScanStates
         /\ Resolved(s, state).keys = state.keys
         /\ state.pc \in {"batch", "new_batch"} =>
              /\ Resolved(s, state).pc = "checksum"
              /\ Resolved(s, state).rows = state.rows
              /\ Resolved(s, state).todo = state.todo
         /\ state.pc \in {"board", "new_board"} =>
              /\ Resolved(s, state).pc = "file"
              /\ Resolved(s, state).rows = state.rows \cup {NewRow(s, state)}
              /\ Resolved(s, state).todo = state.todo \ {Current(s)}
<1>1. CASE state.pc \in {"batch", "new_batch"}
  BY <1>1 DEF Resolved, ScanStates
<1>2. CASE state.pc \in {"board", "new_board"}
  <2>1. Resolved(s, state) = [NextFile(state, Current(s)) EXCEPT !.rows = @ \cup {NewRow(s, state)}]
    BY <1>2 DEF Resolved, NewRow
  <2>2. NewRow(s, state) \in Rows
    BY <1>2, NewRowType
  <2>3. /\ NextFile(state, Current(s)) \in ScanStates
        /\ NextFile(state, Current(s)).pc = "file"
        /\ NextFile(state, Current(s)).todo = state.todo \ {Current(s)}
        /\ NextFile(state, Current(s)).rows = state.rows
        /\ NextFile(state, Current(s)).keys = state.keys
    BY NextFileType
  <2>4. \A n \in ScanStates : [n EXCEPT !.rows = @ \cup {NewRow(s, state)}] \in ScanStates
    BY <2>2 DEF ScanStates
  <2> QED
    BY <1>2, <2>1, <2>3, <2>4 DEF ScanStates
<1> QED BY <1>1, <1>2

-----------------------------------------------------------------------------
(***************************************************************************)
(* A step of a scan leaves everything but its own state as it is, so it    *)
(* preserves the invariant if the new state fits.                          *)
(***************************************************************************)

LEMMA BecomesFits ==
  ASSUME IInv, NEW s \in Scans, NEW n, Fits(n), Becomes(s, n),
         Alone /\ n.pc \notin {"idle", "done"} => \A t \in Scans : Open(t) => t = s
  PROVE  IInv'
<1>1. /\ scan \in [Scans -> ScanStates] /\ n \in ScanStates
      /\ scan' = [scan EXCEPT ![s] = n]
      /\ UNCHANGED <<file, rows, keys, crashes, env>>
  BY DEF IInv, TypeOK, Fits, Becomes
<1>2. \A t \in Scans : scan'[t] = IF t = s THEN n ELSE scan[t]
  BY <1>1
<1>3. scan' \in [Scans -> ScanStates]
  BY <1>1
<1>4. TypeOK'
  BY <1>1, <1>2, <1>3 DEF IInv, TypeOK, Fits
<1>6. \A t \in Scans : Fits(scan[t])'
  <2> TAKE t \in Scans
  <2>1. Fits(scan'[t])
    BY <1>2 DEF IInv
  <2>2. scan'[t] \in ScanStates /\ UNCHANGED <<file, rows, keys, env>>
    BY <1>1, <1>3
  <2> QED
    BY <2>1, <2>2 DEF Fits, Keyed, Fresh, KnowsFile, Alone, Prompt
<1>7. AloneInv'
  <2> SUFFICES ASSUME Alone'
               PROVE  Distinct(rows') /\ \A t, u \in Scans : Open(t)' /\ Open(u)' => t = u
    BY DEF AloneInv
  <2>1. Alone
    BY <1>1 DEF Alone
  <2>2. Distinct(rows')
    BY <1>1, <2>1 DEF IInv, AloneInv
  <2>3. ASSUME NEW t \in Scans, NEW u \in Scans, Open(t)', Open(u)'
        PROVE  t = u
    BY <1>2, <2>1, <2>3 DEF IInv, AloneInv, Open
  <2> QED BY <2>2, <2>3
<1>8. PromptInv'
  BY <1>1 DEF IInv, PromptInv, Prompt
<1> QED BY <1>4, <1>6, <1>7, <1>8 DEF IInv

\* A scan that ends keeps nothing.
LEMMA EndedFits ==
  ASSUME NEW s \in Scans
  PROVE  Fits(Ended(s)) /\ Ended(s).pc \in {"idle", "done"}
BY EndedType DEF Fits, Keyed, KnowsFile, WithBatch, WithChecksum

\* Whoever is open is alone, and stays so.
LEMMA StaysAlone ==
  ASSUME IInv, NEW s \in Scans, Open(s)
  PROVE  Alone => \A t \in Scans : Open(t) => t = s
BY DEF IInv, AloneInv

\* What the invariant says of an open scan.
LEMMA ScanFacts ==
  ASSUME IInv, NEW s \in Scans, scan[s].pc \notin {"idle", "done"}
  PROVE  /\ Open(s)
         /\ Fits(scan[s])
         /\ Alone => Fresh(scan[s]) /\ \A t \in Scans : Open(t) => t = s
         /\ Current(s) = First(scan[s].todo)
         /\ scan[s].todo # {} => Current(s) \in scan[s].todo /\ Current(s) \in Files
BY StaysAlone, ScanType, CurrentIsFirst DEF IInv, Fits, Open

-----------------------------------------------------------------------------
(* The steps of a scan *)

LEMMA StartStep ==
  ASSUME IInv, NEW s \in Scans, Start(s)
  PROVE  IInv'
<1> DEFINE n == [NoScan EXCEPT !.pc = "file",
                               !.todo = {f \in Files : file[f] \notin {"absent", "removed"}}]
<1>1. /\ n \in ScanStates /\ n.pc = "file" /\ n.rows = {} /\ n.keys = {}
      /\ n.todo = {f \in Files : file[f] \notin {"absent", "removed"}}
  BY DEF NoScan, ScanStates
<1>2. Alone => Distinct(rows \cup n.rows)
  BY <1>1 DEF IInv, AloneInv
<1>3. Fits(n)
  BY <1>1, <1>2 DEF Fits, Keyed, Fresh, KnowsFile, WithBatch, WithChecksum
<1>4. Becomes(s, n) /\ (Alone => \A t \in Scans : ~Open(t))
  BY DEF Start, Alone
<1> QED BY <1>3, <1>4, BecomesFits

LEMMA KnownPathStep ==
  ASSUME IInv, NEW s \in Scans, KnownPath(s)
  PROVE  IInv'
<1>1. scan[s].pc = "file" /\ scan[s].todo # {}
  BY DEF KnownPath
<1>2. /\ Fits(scan[s]) /\ scan[s] \in ScanStates
      /\ Alone => Fresh(scan[s]) /\ \A t \in Scans : Open(t) => t = s
      /\ Current(s) = First(scan[s].todo)
      /\ Current(s) \in scan[s].todo
  BY <1>1, ScanFacts DEF Fits
<1>3. CASE \E r \in VisibleRows(s) : r.path = Current(s)
  <2> DEFINE n == NextFile(scan[s], Current(s))
  <2>1. /\ n \in ScanStates /\ n.pc = "file" /\ n.todo = scan[s].todo \ {Current(s)}
        /\ n.rows = scan[s].rows /\ n.keys = scan[s].keys
    BY <1>2, NextFileType
  <2>2. Fits(n)
    BY <1>1, <1>2, <2>1 DEF Fits, Keyed, Fresh, KnowsFile, WithBatch, WithChecksum
  <2>3. Becomes(s, n)
    BY <1>3 DEF KnownPath
  <2> QED BY <1>2, <2>2, <2>3, BecomesFits
<1>4. CASE ~\E r \in VisibleRows(s) : r.path = Current(s)
  <2> DEFINE n == [scan[s] EXCEPT !.pc = "batch"]
  <2>1. /\ n \in ScanStates /\ n.pc = "batch" /\ n.todo = scan[s].todo
        /\ n.rows = scan[s].rows /\ n.keys = scan[s].keys
    BY <1>2 DEF ScanStates
  <2>2. \A r \in rows \cup n.rows : r.path # First(n.todo)
    BY <1>2, <1>4, <2>1 DEF VisibleRows
  <2>3. Fits(n)
    BY <1>1, <1>2, <2>1, <2>2 DEF Fits, Keyed, Fresh, KnowsFile, WithBatch, WithChecksum
  <2>4. Becomes(s, n)
    BY <1>4 DEF KnownPath
  <2> QED BY <1>2, <2>3, <2>4, BecomesFits
<1> QED BY <1>3, <1>4

LEMMA ResolvedFits ==
  ASSUME IInv, NEW s \in Scans, scan[s].pc \in {"batch", "new_batch", "board", "new_board"},
         NEW state \in ScanStates,
         state.pc = scan[s].pc, state.todo = scan[s].todo, state.rows = scan[s].rows,
         state.checksum = scan[s].checksum, state.status = scan[s].status,
         scan[s].keys \subseteq state.keys, Key(s) \in keys \cup state.keys
  PROVE  Fits(Resolved(s, state))
<1> DEFINE n == Resolved(s, state)
<1>1. /\ Fits(scan[s])
      /\ Alone => Fresh(scan[s])
      /\ Current(s) = First(scan[s].todo)
      /\ Current(s) \in scan[s].todo /\ Current(s) \in Files
  BY ScanFacts DEF Fits
<1>2. /\ \A r \in scan[s].rows : HasKeys(r, keys \cup state.keys)
      /\ scan[s].pc \in WithChecksum => scan[s].checksum \in Contents \cup Files
      /\ scan[s].pc \in WithBatch => BatchOf[Current(s)] \in keys \cup state.keys
  BY <1>1 DEF Fits, Keyed, HasKeys
<1>3. /\ n \in ScanStates
      /\ n.keys = state.keys
      /\ state.pc \in {"batch", "new_batch"} =>
           n.pc = "checksum" /\ n.rows = state.rows /\ n.todo = state.todo
      /\ state.pc \in {"board", "new_board"} =>
           /\ n.pc = "file"
           /\ n.rows = state.rows \cup {NewRow(s, state)}
           /\ n.todo = state.todo \ {Current(s)}
  BY <1>1, <1>2, ResolvedType DEF WithChecksum
<1>4. CASE scan[s].pc \in {"batch", "new_batch"}
  <2>1. BatchOf[First(n.todo)] \in keys \cup n.keys
    BY <1>1, <1>3, <1>4 DEF Key
  <2>2. Keyed(n)
    BY <1>2, <1>3, <1>4, <2>1 DEF Keyed, WithChecksum
  <2>3. Alone => Fresh(n)
    BY <1>1, <1>3, <1>4 DEF Fresh
  <2>4. Prompt => KnowsFile(n)
    BY <1>1, <1>3, <1>4 DEF Fits, KnowsFile, WithChecksum
  <2> QED BY <1>1, <1>3, <1>4, <2>2, <2>3, <2>4 DEF Fits
<1>5. CASE scan[s].pc \in {"board", "new_board"}
  <2> DEFINE new == NewRow(s, state)
  <2>1. new.path = Current(s) /\ new.checksum = scan[s].checksum /\ new.status = scan[s].status
    BY DEF NewRow
  <2>2. HasKeys(new, keys \cup n.keys)
    BY <1>2, <1>3, <1>5, <2>1 DEF HasKeys, Key, WithBatch
  <2>3. Keyed(n)
    BY <1>2, <1>3, <1>5, <2>2 DEF Keyed, WithBatch, WithChecksum
  <2>4. ASSUME Alone
        PROVE  Fresh(n)
    <3>1. /\ Distinct(rows \cup scan[s].rows)
          /\ \A r \in rows \cup scan[s].rows : Differ(r, new) /\ Differ(new, r)
      BY <1>1, <1>5, <2>1, <2>4 DEF Fresh, Differ
    <3>2. Distinct(rows \cup n.rows)
      BY <1>3, <1>5, <3>1 DEF Distinct
    <3> QED BY <1>3, <1>5, <3>2 DEF Fresh
  <2>5. ASSUME Prompt
        PROVE  KnowsFile(n)
    <3>1. KnowsFile(scan[s])
      BY <1>1, <2>5 DEF Fits
    <3>2. Matches(new)
      BY <1>1, <1>5, <2>1, <3>1 DEF KnowsFile, Matches, WithChecksum
    <3> QED BY <1>3, <1>5, <3>1, <3>2 DEF KnowsFile, WithChecksum
  <2> QED BY <1>3, <1>5, <2>3, <2>4, <2>5 DEF Fits
<1> QED BY <1>4, <1>5

LEMMA FindKeyStep ==
  ASSUME IInv, NEW s \in Scans, FindKey(s)
  PROVE  IInv'
<1>1. scan[s].pc \in {"batch", "board"}
  BY DEF FindKey
<1>2. /\ Fits(scan[s]) /\ scan[s] \in ScanStates
      /\ Alone => Fresh(scan[s]) /\ \A t \in Scans : Open(t) => t = s
  BY <1>1, ScanFacts DEF Fits
<1>3. CASE Key(s) \in VisibleKeys(s)
  <2>1. Fits(Resolved(s, scan[s]))
    BY <1>1, <1>2, <1>3, ResolvedFits DEF VisibleKeys
  <2>2. Becomes(s, Resolved(s, scan[s]))
    BY <1>3 DEF FindKey
  <2> QED BY <1>2, <2>1, <2>2, BecomesFits
<1>4. CASE Key(s) \notin VisibleKeys(s)
  <2> DEFINE n == [scan[s] EXCEPT !.pc = IF @ = "batch" THEN "new_batch" ELSE "new_board"]
  <2>1. /\ n \in ScanStates
        /\ n.pc = IF scan[s].pc = "batch" THEN "new_batch" ELSE "new_board"
        /\ n.todo = scan[s].todo /\ n.rows = scan[s].rows /\ n.keys = scan[s].keys
        /\ n.checksum = scan[s].checksum /\ n.status = scan[s].status
    BY <1>2 DEF ScanStates
  <2>2. Keyed(n)
    BY <1>1, <1>2, <2>1 DEF Fits, Keyed, WithBatch, WithChecksum
  <2>3. Alone => Fresh(n)
    BY <1>1, <1>2, <2>1 DEF Fresh
  <2>4. Prompt => KnowsFile(n)
    BY <1>1, <1>2, <2>1 DEF Fits, KnowsFile, WithChecksum
  <2>5. Fits(n)
    BY <1>1, <1>2, <2>1, <2>2, <2>3, <2>4 DEF Fits
  <2>6. Becomes(s, n)
    BY <1>4 DEF FindKey
  <2> QED BY <1>2, <2>5, <2>6, BecomesFits
<1> QED BY <1>3, <1>4

LEMMA InsertKeyStep ==
  ASSUME IInv, NEW s \in Scans, InsertKey(s)
  PROVE  IInv'
<1>1. scan[s].pc \in {"new_batch", "new_board"}
  BY DEF InsertKey
<1>2. /\ scan[s] \in ScanStates
      /\ Alone => \A t \in Scans : Open(t) => t = s
      /\ Current(s) \in Files
  BY <1>1, ScanFacts DEF Fits
<1>3. CASE Key(s) \in keys
  <2>1. Becomes(s, Ended(s))
    BY <1>3 DEF InsertKey
  <2> QED BY <2>1, EndedFits, BecomesFits
<1>4. CASE Key(s) \notin keys
  <2> DEFINE state == [scan[s] EXCEPT !.keys = @ \cup {Key(s)}]
  <2>1. Key(s) \in Batches \cup Boards
    BY <1>2, IngestionAssumption DEF Key
  <2>2. /\ state \in ScanStates
        /\ state.pc = scan[s].pc /\ state.todo = scan[s].todo /\ state.rows = scan[s].rows
        /\ state.checksum = scan[s].checksum /\ state.status = scan[s].status
        /\ state.keys = scan[s].keys \cup {Key(s)}
    BY <1>2, <2>1 DEF ScanStates
  <2>3. Fits(Resolved(s, state))
    BY <1>1, <2>2, ResolvedFits
  <2>4. Becomes(s, Resolved(s, state))
    BY <1>4 DEF InsertKey
  <2> QED BY <1>2, <2>3, <2>4, BecomesFits
<1> QED BY <1>3, <1>4

LEMMA BreakDeadlockStep ==
  ASSUME IInv, NEW s \in Scans, BreakDeadlock(s)
  PROVE  IInv'
BY EndedFits, BecomesFits DEF BreakDeadlock

LEMMA ChecksumStep ==
  ASSUME IInv, NEW s \in Scans, Checksum(s)
  PROVE  IInv'
<1> DEFINE f == Current(s)
<1>1. scan[s].pc = "checksum"
  BY DEF Checksum
<1>2. /\ Fits(scan[s]) /\ scan[s] \in ScanStates
      /\ Alone => Fresh(scan[s]) /\ \A t \in Scans : Open(t) => t = s
      /\ f = First(scan[s].todo) /\ f \in Files
  BY <1>1, ScanFacts DEF Fits
<1>3. CASE file[f] \in {"partial", "complete"}
  <2> DEFINE n == [scan[s] EXCEPT !.pc = "metadata",
                                  !.checksum = IF file[f] = "partial" THEN f ELSE ContentOf[f]]
  <2>1. ContentOf[f] \in Contents
    BY <1>2, IngestionAssumption
  <2>2. /\ n \in ScanStates /\ n.pc = "metadata"
        /\ n.checksum = IF file[f] = "partial" THEN f ELSE ContentOf[f]
        /\ n.todo = scan[s].todo /\ n.rows = scan[s].rows /\ n.keys = scan[s].keys
    BY <1>2, <2>1 DEF ScanStates
  <2>3. Keyed(n)
    BY <1>1, <1>2, <2>1, <2>2 DEF Fits, Keyed, WithBatch
  <2>4. Alone => Fresh(n)
    BY <1>1, <1>2, <2>2 DEF Fresh
  <2>5. ASSUME Prompt
        PROVE  KnowsFile(n)
    <3>1. file[f] = "complete"
      BY <1>2, <1>3, <2>5 DEF IInv, PromptInv
    <3> QED BY <1>1, <1>2, <2>2, <2>5, <3>1 DEF Fits, KnowsFile
  <2>6. Fits(n)
    BY <1>1, <1>2, <2>2, <2>3, <2>4, <2>5 DEF Fits
  <2>7. Becomes(s, n)
    BY <1>3 DEF Checksum
  <2> QED BY <1>2, <2>6, <2>7, BecomesFits
<1>4. CASE file[f] \notin {"partial", "complete"}
  <2>1. Becomes(s, Ended(s))
    BY <1>4 DEF Checksum
  <2> QED BY <2>1, EndedFits, BecomesFits
<1> QED BY <1>3, <1>4

LEMMA MetadataStep ==
  ASSUME IInv, NEW s \in Scans, Metadata(s)
  PROVE  IInv'
<1>1. scan[s].pc = "metadata"
  BY DEF Metadata
<1>2. /\ Fits(scan[s]) /\ scan[s] \in ScanStates
      /\ Alone => Fresh(scan[s]) /\ \A t \in Scans : Open(t) => t = s
      /\ Current(s) = First(scan[s].todo)
  BY <1>1, ScanFacts DEF Fits
<1>3. PICK n \in ScanStates :
        /\ Becomes(s, n)
        /\ n.todo = scan[s].todo /\ n.rows = scan[s].rows /\ n.keys = scan[s].keys
        /\ n.checksum = scan[s].checksum
        /\ \/ Valid(Current(s)) /\ n.pc = "duplicate" /\ n.status = "QUEUED"
           \/ ~Valid(Current(s)) /\ n.pc = "board" /\ n.status = "FAILED"
  <2>1. CASE Valid(Current(s))
    <3>1. [scan[s] EXCEPT !.pc = "duplicate", !.status = "QUEUED"] \in ScanStates
      BY <1>2 DEF ScanStates
    <3> WITNESS [scan[s] EXCEPT !.pc = "duplicate", !.status = "QUEUED"] \in ScanStates
    <3> QED BY <1>2, <2>1, <3>1 DEF Metadata, ScanStates
  <2>2. CASE ~Valid(Current(s))
    <3>1. [scan[s] EXCEPT !.pc = "board", !.status = "FAILED"] \in ScanStates
      BY <1>2 DEF ScanStates
    <3> WITNESS [scan[s] EXCEPT !.pc = "board", !.status = "FAILED"] \in ScanStates
    <3> QED BY <1>2, <2>2, <3>1 DEF Metadata, ScanStates
  <2> QED BY <2>1, <2>2
<1>4. Keyed(n)
  BY <1>1, <1>2, <1>3 DEF Fits, Keyed, WithBatch, WithChecksum
<1>5. Alone => Fresh(n)
  BY <1>1, <1>2, <1>3 DEF Fresh
<1>6. Prompt => KnowsFile(n)
  BY <1>1, <1>2, <1>3 DEF Fits, KnowsFile, WithChecksum, Valid
<1>7. Fits(n)
  BY <1>1, <1>2, <1>3, <1>4, <1>5, <1>6 DEF Fits
<1> QED BY <1>2, <1>3, <1>7, BecomesFits

LEMMA DuplicateStep ==
  ASSUME IInv, NEW s \in Scans, Duplicate(s)
  PROVE  IInv'
<1>1. scan[s].pc = "duplicate"
  BY DEF Duplicate
<1>2. /\ Fits(scan[s]) /\ scan[s] \in ScanStates
      /\ Alone => Fresh(scan[s]) /\ \A t \in Scans : Open(t) => t = s
      /\ Current(s) = First(scan[s].todo)
  BY <1>1, ScanFacts DEF Fits
<1>3. CASE HasTwin(s)
  <2> DEFINE n == NextFile(scan[s], Current(s))
  <2>1. /\ n \in ScanStates /\ n.pc = "file" /\ n.todo = scan[s].todo \ {Current(s)}
        /\ n.rows = scan[s].rows /\ n.keys = scan[s].keys
    BY <1>2, NextFileType
  <2>2. Fits(n)
    BY <1>1, <1>2, <2>1 DEF Fits, Keyed, Fresh, KnowsFile, WithBatch, WithChecksum
  <2>3. Becomes(s, n)
    BY <1>3 DEF Duplicate
  <2> QED BY <1>2, <2>2, <2>3, BecomesFits
<1>4. CASE ~HasTwin(s)
  <2> DEFINE n == [scan[s] EXCEPT !.pc = "board"]
  <2>1. /\ n \in ScanStates /\ n.pc = "board"
        /\ n.todo = scan[s].todo /\ n.rows = scan[s].rows /\ n.keys = scan[s].keys
        /\ n.checksum = scan[s].checksum /\ n.status = scan[s].status
    BY <1>2 DEF ScanStates
  <2>2. Keyed(n)
    BY <1>1, <1>2, <2>1 DEF Fits, Keyed, WithBatch, WithChecksum
  <2>3. Alone => Fresh(n)
    BY <1>1, <1>2, <1>4, <2>1 DEF Fresh, HasTwin, VisibleRows
  <2>4. Prompt => KnowsFile(n)
    BY <1>1, <1>2, <2>1 DEF Fits, KnowsFile, WithChecksum
  <2>5. Fits(n)
    BY <1>1, <1>2, <2>1, <2>2, <2>3, <2>4 DEF Fits
  <2>6. Becomes(s, n)
    BY <1>4 DEF Duplicate
  <2> QED BY <1>2, <2>5, <2>6, BecomesFits
<1> QED BY <1>3, <1>4

-----------------------------------------------------------------------------
(* The steps that change something else *)

\* A scan that has nothing more to do gives its rows and keys to everyone.
LEMMA CommitStep ==
  ASSUME IInv, NEW s \in Scans, Commit(s)
  PROVE  IInv'
<1>1. /\ scan[s].pc = "file"
      /\ rows' = rows \cup scan[s].rows /\ keys' = keys \cup scan[s].keys
      /\ scan' = [scan EXCEPT ![s] = Ended(s)]
      /\ UNCHANGED <<file, crashes, env>>
  BY DEF Commit, VisibleRows, VisibleKeys
<1>2. /\ Fits(scan[s]) /\ scan[s] \in ScanStates
      /\ Alone => Fresh(scan[s]) /\ \A t \in Scans : Open(t) => t = s
  BY <1>1, ScanFacts DEF Fits
<1>3. Ended(s) \in ScanStates /\ Ended(s).pc \in {"idle", "done"}
  BY EndedType
<1>4. /\ scan \in [Scans -> ScanStates] /\ scan' \in [Scans -> ScanStates]
      /\ \A t \in Scans : scan'[t] = IF t = s THEN Ended(s) ELSE scan[t]
  BY <1>1, <1>3 DEF IInv, TypeOK
<1>5. TypeOK'
  <2>1. rows' \subseteq Rows /\ keys' \subseteq Batches \cup Boards
    BY <1>1, <1>2 DEF IInv, TypeOK, ScanStates
  <2>2. \A t \in Scans : scan'[t].pc \notin {"idle", "file", "done"} => scan'[t].todo # {}
    BY <1>3, <1>4 DEF IInv, TypeOK
  <2>3. \A r \in rows' : BatchOf[r.path] \in keys' /\ BoardOf[r.path] \in keys'
    BY <1>1, <1>2 DEF IInv, TypeOK, Fits, Keyed, HasKeys
  <2> QED BY <1>1, <1>4, <2>1, <2>2, <2>3 DEF IInv, TypeOK
<1>6. ASSUME NEW t \in Scans
      PROVE  Fits(scan[t])'
  <2>1. CASE t = s
    <3>1. Fits(Ended(s)) /\ Ended(s).rows = {} /\ Ended(s).keys = {} /\ Ended(s).todo = {}
      BY EndedFits, EndedType
    <3>2. Keyed(Ended(s))' /\ KnowsFile(Ended(s))'
      BY <1>3, <3>1 DEF Keyed, KnowsFile, WithBatch, WithChecksum
    <3>3. scan'[t] = Ended(s)
      BY <1>4, <2>1
    <3>4. Keyed(scan[t])' /\ KnowsFile(scan[t])'
      BY <3>2, <3>3 DEF Keyed, KnowsFile
    <3> QED BY <1>3, <3>3, <3>4 DEF Fits
  <2>2. CASE t # s
    <3>1. scan'[t] = scan[t] /\ Fits(scan[t])
      BY <1>4, <2>2 DEF IInv
    <3>2. Keyed(scan[t])'
      BY <1>1, <3>1 DEF Fits, Keyed, HasKeys
    <3>3. Alone' => scan'[t].pc \in {"idle", "done"}
      BY <1>1, <1>2, <2>2, <3>1 DEF Open, Alone
    <3>4. Prompt' => KnowsFile(scan[t])'
      BY <1>1, <3>1 DEF Fits, Prompt, KnowsFile
    <3> QED BY <3>1, <3>2, <3>3, <3>4 DEF Fits
  <2> QED BY <2>1, <2>2
<1>7. AloneInv'
  <2> SUFFICES ASSUME Alone'
               PROVE  Distinct(rows') /\ \A t, u \in Scans : Open(t)' /\ Open(u)' => t = u
    BY DEF AloneInv
  <2>1. Alone
    BY <1>1 DEF Alone
  <2>2. Distinct(rows')
    BY <1>1, <1>2, <2>1 DEF Fresh
  <2>3. ASSUME NEW t \in Scans, Open(t)'
        PROVE  FALSE
    BY <1>2, <1>3, <1>4, <2>1, <2>3 DEF Open
  <2> QED BY <2>2, <2>3
<1>8. PromptInv'
  BY <1>1, <1>2 DEF IInv, PromptInv, Prompt, Fits, KnowsFile
<1> QED BY <1>5, <1>6, <1>7, <1>8 DEF IInv

\* The steps that leave the keys and every row they keep alone.
LEMMA CrashStep ==
  ASSUME IInv, NEW s \in Scans, Crash(s)
  PROVE  IInv'
<1>1. /\ crashes < MaxCrashes /\ crashes' = crashes + 1
      /\ scan' = [scan EXCEPT ![s] = Ended(s)]
      /\ UNCHANGED <<file, rows, keys, env>>
  BY DEF Crash
<1>2. Fits(Ended(s)) /\ Ended(s).pc \in {"idle", "done"} /\ Ended(s) \in ScanStates
  BY EndedFits, EndedType
<1>3. /\ scan' \in [Scans -> ScanStates]
      /\ \A t \in Scans : scan'[t] = IF t = s THEN Ended(s) ELSE scan[t]
  BY <1>1, <1>2 DEF IInv, TypeOK
<1>4. crashes' \in 0..MaxCrashes
  BY <1>1, IngestionAssumption DEF IInv, TypeOK
<1>5. TypeOK'
  BY <1>1, <1>2, <1>3, <1>4 DEF IInv, TypeOK
<1>6. ASSUME NEW t \in Scans
      PROVE  Fits(scan[t])'
  <2>1. Fits(scan'[t]) /\ scan'[t] \in ScanStates
    BY <1>2, <1>3 DEF IInv
  <2> QED BY <1>1, <2>1 DEF Fits, Keyed, Fresh, KnowsFile, Alone, Prompt
<1>7. AloneInv'
  <2> SUFFICES ASSUME Alone'
               PROVE  Distinct(rows') /\ \A t, u \in Scans : Open(t)' /\ Open(u)' => t = u
    BY DEF AloneInv
  <2>1. Alone
    BY <1>1 DEF Alone
  <2>2. Distinct(rows')
    BY <1>1, <2>1 DEF IInv, AloneInv
  <2>3. ASSUME NEW t \in Scans, NEW u \in Scans, Open(t)', Open(u)'
        PROVE  t = u
    BY <1>2, <1>3, <2>1, <2>3 DEF IInv, AloneInv, Open
  <2> QED BY <2>2, <2>3
<1>8. PromptInv'
  BY <1>1 DEF IInv, PromptInv, Prompt
<1> QED BY <1>5, <1>6, <1>7, <1>8 DEF IInv

\* A camera never takes a complete file back where files are not removed.
LEMMA CameraStep ==
  ASSUME IInv, NEW f \in Files, Camera(f)
  PROVE  IInv'
<1>1. UNCHANGED <<rows, keys, scan, crashes, env>>
  BY DEF Camera
<1>2. file \in [Files -> FileStates]
  BY DEF IInv, TypeOK
<1>3. PICK to \in {"complete", "partial", "unreadable", "removed"} :
        /\ file' = [file EXCEPT ![f] = to]
        /\ \/ to = "complete" /\ file[f] \in {"absent", "partial"}
           \/ to = "partial" /\ "slow_camera" \in env
           \/ to = "unreadable" /\ file[f] = "absent"
           \/ to = "removed" /\ "removed" \in env
  BY DEF Camera
<1>4. /\ file' \in [Files -> FileStates]
      /\ \A g \in Files : file'[g] = IF g = f THEN to ELSE file[g]
  BY <1>2, <1>3 DEF FileStates
<1>5. TypeOK'
  BY <1>1, <1>4 DEF IInv, TypeOK
<1>6. ASSUME Prompt
      PROVE  /\ to \in {"complete", "unreadable"}
             /\ \A g \in Files : file'[g] # "absent" \/ file'[g] = file[g]
             /\ \A g \in Files : file[g] = "complete" => file'[g] = "complete"
  BY <1>3, <1>4, <1>6 DEF Prompt
<1>7. ASSUME NEW t \in Scans
      PROVE  Fits(scan[t])'
  <2>1. /\ Fits(scan[t]) /\ scan[t].todo \subseteq Files
        /\ Current(t) = First(scan[t].todo)
        /\ scan[t].todo # {} => Current(t) \in Files
    BY ScanType, CurrentIsFirst DEF IInv
  <2>2. Keyed(scan[t])' /\ (Alone' /\ scan'[t].pc \notin {"idle", "done"} => Fresh(scan[t])')
    BY <1>1, <2>1 DEF Fits, Keyed, Fresh, Alone
  <2>3. ASSUME Prompt
        PROVE  KnowsFile(scan[t])'
    <3>1. KnowsFile(scan[t])
      BY <2>1, <2>3 DEF Fits
    <3>2. scan[t].pc \in WithChecksum => First(scan[t].todo) \in Files
      BY <2>1 DEF Fits, WithChecksum
    <3> QED BY <1>1, <1>6, <2>1, <2>3, <3>1, <3>2 DEF KnowsFile
  <2>4. scan'[t] = scan[t] /\ (Prompt' <=> Prompt)
    BY <1>1 DEF Prompt
  <2> QED BY <2>1, <2>2, <2>3, <2>4 DEF Fits
<1>8. AloneInv'
  BY <1>1 DEF IInv, AloneInv, Alone, Open
<1>9. PromptInv'
  BY <1>1, <1>4, <1>6 DEF IInv, PromptInv, Prompt
<1> QED BY <1>5, <1>7, <1>8, <1>9 DEF IInv

LEMMA PurgeStep ==
  ASSUME IInv, NEW gone \in rows, Purge(gone)
  PROVE  IInv'
<1>1. rows' = rows \ {gone} /\ UNCHANGED <<file, keys, scan, crashes, env>>
  BY DEF Purge
<1>2. TypeOK'
  BY <1>1 DEF IInv, TypeOK
<1>3. ASSUME NEW t \in Scans
      PROVE  Fits(scan[t])'
  <2>1. Fits(scan[t]) /\ scan'[t] = scan[t]
    BY <1>1 DEF IInv
  <2>2. Keyed(scan[t])' /\ (Alone' /\ scan'[t].pc \notin {"idle", "done"} => Fresh(scan[t])')
    BY <1>1, <2>1 DEF Fits, Keyed, Fresh, Distinct, Alone
  <2>3. Prompt' => KnowsFile(scan[t])'
    BY <1>1, <2>1 DEF Fits, KnowsFile, Prompt
  <2> QED BY <2>1, <2>2, <2>3 DEF Fits
<1>4. AloneInv'
  BY <1>1 DEF IInv, AloneInv, Alone, Open, Distinct
<1>5. PromptInv'
  BY <1>1 DEF IInv, PromptInv, Prompt
<1> QED BY <1>2, <1>3, <1>4, <1>5 DEF IInv

-----------------------------------------------------------------------------
(* The theorems *)

LEMMA InitIInv == Init => IInv
<1> SUFFICES ASSUME Init
             PROVE  IInv
  OBVIOUS
<1>1. /\ file = [f \in Files |-> "absent"] /\ rows = {} /\ keys \subseteq Batches
      /\ scan = [s \in Scans |-> NoScan] /\ crashes = 0 /\ env \in Environments
  BY DEF Init
<1>2. /\ NoScan \in ScanStates /\ NoScan.pc = "idle"
      /\ NoScan.rows = {} /\ NoScan.keys = {} /\ NoScan.todo = {}
  BY NoScanType
<1>3. scan \in [Scans -> ScanStates] /\ \A s \in Scans : scan[s] = NoScan
  BY <1>1, <1>2
<1>4. TypeOK
  BY <1>1, <1>2, <1>3, IngestionAssumption DEF TypeOK, FileStates
<1>5. Fits(NoScan)
  BY <1>2 DEF Fits, Keyed, KnowsFile, WithBatch, WithChecksum
<1>6. AloneInv
  BY <1>1, <1>2, <1>3 DEF AloneInv, Distinct, Open
<1>7. PromptInv
  BY <1>1 DEF PromptInv
<1> QED BY <1>3, <1>4, <1>5, <1>6, <1>7 DEF IInv

LEMMA NextIInv == IInv /\ [Next]_vars => IInv'
<1> SUFFICES ASSUME IInv, [Next]_vars
             PROVE  IInv'
  OBVIOUS
<1>1. ASSUME NEW f \in Files, Camera(f)
      PROVE  IInv'
  BY <1>1, CameraStep
<1>2. ASSUME NEW s \in Scans, Start(s) \/ ScanStep(s) \/ Crash(s)
      PROVE  IInv'
  BY <1>2, StartStep, KnownPathStep, FindKeyStep, InsertKeyStep, BreakDeadlockStep, ChecksumStep,
     MetadataStep, DuplicateStep, CommitStep, CrashStep DEF ScanStep
<1>3. ASSUME NEW r \in rows, Purge(r)
      PROVE  IInv'
  BY <1>3, PurgeStep
<1>4. CASE UNCHANGED vars
  <2>1. UNCHANGED <<file, rows, keys, scan, crashes, env>>
    BY <1>4 DEF vars
  <2>2. TypeOK'
    BY <2>1 DEF IInv, TypeOK
  <2>3. \A s \in Scans : Fits(scan[s])'
    BY <2>1 DEF IInv, Fits, Keyed, Fresh, KnowsFile, Alone, Prompt
  <2>4. AloneInv' /\ PromptInv'
    BY <2>1 DEF IInv, AloneInv, PromptInv, Alone, Prompt, Open
  <2> QED BY <2>2, <2>3, <2>4 DEF IInv
<1> QED BY <1>1, <1>2, <1>3, <1>4 DEF Next

LEMMA Invariance == Spec => []IInv
BY InitIInv, NextIInv, PTL DEF Spec

\* Rows, keys and the states of scans keep their types, a scan that asks about a file has one,
\* and a committed row has its batch and its board: no foreign key is broken, whatever scans
\* run into each other, crash or are rolled back (Ingestion!TypeOK).
THEOREM TypeCorrect == Spec => []TypeOK
<1>1. IInv => TypeOK
  BY DEF IInv
<1> QED BY <1>1, Invariance, PTL

\* While scans do not overlap, a path is ingested once, and no two images of a batch that go to
\* inspection have the same checksum, through crashes, rolled back scans and purges
\* (_is_known_path, _find_duplicate_in_batch).
THEOREM NoDuplicatesAlone == Spec => []NoDuplicates
<1>1. IInv => NoDuplicates
  BY DEF IInv, AloneInv, Alone, Distinct, Differ, NoDuplicates
<1> QED BY <1>1, Invariance, PTL

\* Where a file is complete when it is first seen and stays, its row has the checksum of what it
\* contains and goes to inspection if and only if that is an image, whatever overlaps
\* (_ingest_batch_file).
THEOREM RowsMatch == Spec => []RowsMatchFiles
<1>1. IInv => RowsMatchFiles
  BY DEF IInv, PromptInv, Prompt, Matches, RowsMatchFiles
<1> QED BY <1>1, Invariance, PTL
=============================================================================
