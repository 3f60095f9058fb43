--------------------------- MODULE FeedbackProofs ----------------------------
(***************************************************************************)
(* AuditTellsPrevious and ShowsALatestFeedback hold of every instance of   *)
(* Feedback, for any rows and any requests that overlap.                   *)
(*                                                                         *)
(* Both look back: a request commits what it has read, however long ago.   *)
(* ReadStands says that what it has read was then a latest feedback;       *)
(* WriteStands that if the row shows something else by now, a latest       *)
(* feedback committed since the reading says so, and a request that writes *)
(* nothing does not put itself before that one.                            *)
(***************************************************************************)
EXTENDS Feedback, SequenceTheorems, TLAPS

Decided == AllDecisions \cup {"confirmed"}
Values == Decided \cup {"absent", "PENDING", "unreviewed"}
Readings == [row : Rows, decision : Decided, previous : Values, after : Nat]
AuditRows == [decision : Decided, previous : Values \cup {Unrecorded}, after : Nat]

Types ==
  /\ shown \in [Rows -> Values]
  /\ audit \in [Rows -> Seq(AuditRows)]
  /\ request \in [Feedbacks -> {Idle} \cup Readings]

\* Nothing was read after the end of the log.
AfterInv ==
  /\ \A row \in Rows : \A i \in 1..Len(audit[row]) : audit[row][i].after < i
  /\ \A r \in Feedbacks : request[r] # Idle => request[r].after <= Len(audit[request[r].row])

\* LatestOf, for any log; and: `value` is a latest feedback among the first n entries of the log
\* of `row`, or there is none.
LatestIn(log, n) == {k \in 1..n : \A j \in 1..n : log[j].after < k}
Says(log, row, n, value) ==
  IF n = 0 THEN value = Blank(row) ELSE \E k \in LatestIn(log, n) : value = log[k].decision

\* `value` is `shownNow`, or a latest feedback after the first n entries says what `shownNow` is.
Current(log, n, value, shownNow) ==
  value = shownNow \/ \E k \in LatestIn(log, Len(log)) : k > n /\ shownNow = log[k].decision

ReadStands(r) == request[r] # Idle =>
  LET q == request[r] IN Says(audit[q.row], q.row, q.after, q.previous)

WriteStands(r) == ~purged /\ request[r] # Idle =>
  LET q == request[r] IN Current(audit[q.row], q.after, q.previous, shown[q.row])

EntriesStand ==
  \A row \in Rows : \A i \in 1..Len(audit[row]) :
    audit[row][i].previous # Unrecorded =>
      Says(audit[row], row, audit[row][i].after, audit[row][i].previous)

RowsStand == ~purged => \A row \in Rows : Says(audit[row], row, Len(audit[row]), shown[row])

IInv ==
  /\ Types /\ AfterInv /\ EntriesStand /\ RowsStand
  /\ \A r \in Feedbacks : ReadStands(r) /\ WriteStands(r)

-----------------------------------------------------------------------------
LEMMA EntryTypes ==
  ASSUME IInv, NEW row \in Rows
  PROVE  /\ audit[row] \in Seq(AuditRows) /\ Len(audit[row]) \in Nat
         /\ \A i \in 1..Len(audit[row]) : audit[row][i].after \in Nat /\ audit[row][i].after < i
<1>1. audit[row] \in Seq(AuditRows)
  BY DEF IInv, Types
<1>2. \A i \in 1..Len(audit[row]) : audit[row][i] \in AuditRows
  BY <1>1, ElementOfSeq
<1>3. \A i \in 1..Len(audit[row]) : audit[row][i].after \in Nat
  BY <1>2 DEF AuditRows
<1> QED
  BY <1>1, <1>3, LenProperties DEF IInv, AfterInv

LEMMA InitIInv == Init => IInv
<1> SUFFICES ASSUME Init PROVE IInv
  OBVIOUS
<1>1. Types
  <2>1. \A row \in Rows : Blank(row) \in Values
    BY DEF Blank, Values
  <2>2. \A row \in Rows : audit[row] \in Seq(AuditRows)
    BY DEF Init
  <2> QED
    BY <2>1, <2>2 DEF Init, Types
<1>2. \A row \in Rows : Len(audit[row]) = 0 /\ shown[row] = Blank(row)
  BY DEF Init
<1>3. \A r \in Feedbacks : request[r] = Idle
  BY DEF Init
<1>4. AfterInv /\ EntriesStand /\ RowsStand
  BY <1>2, <1>3 DEF AfterInv, EntriesStand, RowsStand, Says
<1> QED
  BY <1>1, <1>3, <1>4 DEF IInv, ReadStands, WriteStands

\* What the row shows is read, together with the length of its log.
LEMMA StepRead ==
  ASSUME IInv, NEW r \in Feedbacks, NEW row \in Rows, NEW decision \in Decided, ~purged,
         Read(r, row, decision)
  PROVE  IInv'
<1> DEFINE q == [row |-> row, decision |-> decision, previous |-> shown[row],
                 after |-> Len(audit[row])]
<1>1. /\ request'[r] = q /\ \A o \in Feedbacks \ {r} : request'[o] = request[o]
      /\ request' = [request EXCEPT ![r] = q]
      /\ UNCHANGED <<shown, audit, purged>>
  BY DEF Read, IInv, Types
<1>2. q \in Readings /\ Len(audit[row]) \in Nat
  BY DEF IInv, Types, Readings
<1>3. q.row = row /\ q.previous = shown[row] /\ q.after = Len(audit[row])
  OBVIOUS
<1> HIDE DEF q
<1>4. Types' /\ AfterInv' /\ EntriesStand' /\ RowsStand'
  <2>1. Types'
    BY <1>1, <1>2 DEF IInv, Types
  <2>2. AfterInv'
    BY <1>1, <1>2, <1>3 DEF IInv, AfterInv
  <2> QED
    BY <1>1, <2>1, <2>2 DEF IInv, EntriesStand, RowsStand
<1>5. ReadStands(r)' /\ WriteStands(r)'
  BY <1>1, <1>3 DEF IInv, RowsStand, ReadStands, WriteStands, Current
<1>6. \A o \in Feedbacks \ {r} : ReadStands(o)' /\ WriteStands(o)'
  BY <1>1 DEF IInv, ReadStands, WriteStands
<1> QED
  BY <1>4, <1>5, <1>6 DEF IInv

-----------------------------------------------------------------------------
(* A request commits: an entry is appended, the column is written or not. *)

\* The entries there were keep their places, and what was the latest of them was.
LEMMA Appended ==
  ASSUME IInv, NEW r \in Feedbacks, request[r] # Idle, RecordAudit(request[r])
  PROVE  LET q == request[r]  L == Len(audit[q.row]) IN
         /\ q \in Readings /\ L \in Nat /\ q.after <= L
         /\ audit' \in [Rows -> Seq(AuditRows)]
         /\ Len(audit'[q.row]) = L + 1 /\ audit'[q.row][L + 1] = Entry(q)
         /\ \A i \in 1..L : audit'[q.row][i] = audit[q.row][i]
         /\ \A row \in Rows \ {q.row} : audit'[row] = audit[row]
<1> DEFINE q == request[r]
           L == Len(audit[q.row])
<1>1. q \in Readings /\ q.row \in Rows
  BY DEF IInv, Types, Readings
<1>2. audit[q.row] \in Seq(AuditRows) /\ Entry(q) \in AuditRows /\ L \in Nat /\ q.after <= L
  <2>1. audit[q.row] \in Seq(AuditRows) /\ L \in Nat
    BY <1>1, EntryTypes
  <2>2. q.after <= L
    BY DEF IInv, AfterInv
  <2> HIDE DEF q, L
  <2>3. Entry(q) \in AuditRows
    BY <1>1 DEF Readings, AuditRows, Entry, Unrecorded
  <2> QED
    BY <2>1, <2>2, <2>3
<1>3. audit' = [audit EXCEPT ![q.row] = Append(audit[q.row], Entry(q))]
  BY DEF RecordAudit
<1>4. /\ Append(audit[q.row], Entry(q)) \in Seq(AuditRows)
      /\ Len(Append(audit[q.row], Entry(q))) = L + 1
      /\ \A i \in 1..L : Append(audit[q.row], Entry(q))[i] = audit[q.row][i]
      /\ Append(audit[q.row], Entry(q))[L + 1] = Entry(q)
  BY <1>2, AppendProperties
<1> HIDE DEF q, L
<1>5. /\ audit' \in [Rows -> Seq(AuditRows)] /\ audit'[q.row] = Append(audit[q.row], Entry(q))
      /\ \A row \in Rows \ {q.row} : audit'[row] = audit[row]
  BY <1>1, <1>3, <1>4 DEF IInv, Types
<1> QED
  BY <1>1, <1>2, <1>4, <1>5 DEF q, L

\* A log that has grown says the same of its beginning.
LEMMA SaysKept ==
  ASSUME NEW log, NEW grown, NEW row, NEW L \in Nat, NEW n \in 0..L, NEW value,
         \A i \in 1..L : grown[i] = log[i], Says(log, row, n, value)
  PROVE  Says(grown, row, n, value)
<1>1. CASE n = 0
  BY <1>1 DEF Says
<1>2. CASE n # 0
  <2>1. \A i \in 1..n : grown[i] = log[i]
    OBVIOUS
  <2> QED
    BY <1>2, <2>1 DEF Says, LatestIn
<1> QED
  BY <1>1, <1>2

\* The row of the request: what it shows once the request has committed.
Commits(log, grown, L, after, decision, previous, old, new) ==
  /\ L \in Nat /\ Len(log) = L /\ Len(grown) = L + 1 /\ after \in 0..L
  /\ \A i \in 1..L : grown[i] = log[i] /\ log[i].after \in Nat /\ log[i].after < i
  /\ grown[L + 1].after = after /\ grown[L + 1].decision = decision
  /\ new = decision \/ (new = old /\ decision = previous)
  /\ Current(log, after, previous, old)

Overtaken(log, grown, L, old, new) ==
  /\ \E k \in LatestIn(grown, L + 1) : new = grown[k].decision
  /\ \A x \in 0..L : \A p : Current(log, x, p, old) => Current(grown, x, p, new)

LEMMA RowAfterCommit ==
  ASSUME NEW log, NEW grown, NEW L, NEW after, NEW decision, NEW previous, NEW old, NEW new,
         Commits(log, grown, L, after, decision, previous, old, new)
  PROVE  Overtaken(log, grown, L, old, new)
<1> SUFFICES /\ \E k \in LatestIn(grown, L + 1) : new = grown[k].decision
             /\ \A x \in 0..L : \A p : Current(log, x, p, old) => Current(grown, x, p, new)
  BY DEF Overtaken
<1>0. /\ L \in Nat /\ Len(log) = L /\ Len(grown) = L + 1 /\ after \in 0..L
      /\ \A i \in 1..L : grown[i] = log[i] /\ log[i].after \in Nat /\ log[i].after < i
      /\ grown[L + 1].after = after /\ grown[L + 1].decision = decision
      /\ new = decision \/ (new = old /\ decision = previous)
  BY DEF Commits
<1>1. L + 1 \in LatestIn(grown, L + 1)
  <2>1. \A j \in 1..(L + 1) : grown[j].after < L + 1
    <3> TAKE j \in 1..(L + 1)
    <3>1. CASE j = L + 1
      BY <1>0, <3>1
    <3>2. CASE j \in 1..L
      <4>1. grown[j].after < j /\ grown[j].after \in Nat
        BY <1>0, <3>2
      <4> QED
        BY <1>0, <3>2, <4>1
    <3> QED
      BY <1>0, <3>1, <3>2
  <2> QED
    BY <1>0, <2>1 DEF LatestIn
<1>2. \A k \in LatestIn(log, L) : k > after => k \in LatestIn(grown, L + 1) /\ grown[k] = log[k]
  <2> SUFFICES ASSUME NEW k \in LatestIn(log, L), k > after
               PROVE  k \in LatestIn(grown, L + 1) /\ grown[k] = log[k]
    OBVIOUS
  <2>1. k \in 1..L /\ k \in 1..(L + 1) /\ grown[k] = log[k]
    BY <1>0 DEF LatestIn
  <2>2. \A j \in 1..L : grown[j].after < k
    BY <1>0 DEF LatestIn
  <2>3. \A j \in 1..(L + 1) : j \in 1..L \/ j = L + 1
    BY <1>0
  <2>4. grown[L + 1].after < k
    BY <1>0, <2>1
  <2> QED
    BY <2>1, <2>2, <2>3, <2>4 DEF LatestIn
<1>3. CASE new = decision
  BY <1>0, <1>1, <1>3 DEF Current
<1>4. CASE new # decision
  <2>1. new = old /\ previous # old
    BY <1>0, <1>4
  <2>2. PICK k \in LatestIn(log, L) : k > after /\ old = log[k].decision
    BY <2>1 DEF Current, Commits
  <2>3. k \in LatestIn(grown, L + 1) /\ new = grown[k].decision /\ k \in Nat
    BY <1>0, <1>2, <2>1, <2>2 DEF LatestIn
  <2>4. ASSUME NEW x \in 0..L, NEW h \in LatestIn(log, L), h > x, old = log[h].decision
        PROVE  \E g \in LatestIn(grown, L + 1) : g > x /\ new = grown[g].decision
    <3>1. h \in Nat
      BY DEF LatestIn
    <3>2. CASE h > k
      BY <1>0, <1>2, <2>1, <2>2, <2>3, <2>4, <3>1, <3>2
    <3>3. CASE ~(h > k)
      BY <2>3, <2>4, <3>1, <3>3
    <3> QED
      BY <3>2, <3>3
  <2> QED
    BY <1>0, <2>1, <2>3, <2>4 DEF Current
<1> QED
  BY <1>3, <1>4

LEMMA StepCommit ==
  ASSUME IInv, NEW r \in Feedbacks, request[r] # Idle, RecordAudit(request[r]), Ends(r),
         UNCHANGED purged, shown' \in [Rows -> Values],
         \A row \in Rows \ {request[r].row} : shown'[row] = shown[row],
         ~purged => \/ shown'[request[r].row] = request[r].decision
                    \/ /\ shown'[request[r].row] = shown[request[r].row]
                       /\ request[r].decision = request[r].previous
  PROVE  IInv'
<1> DEFINE q == request[r]
           a == q.row
           L == Len(audit[a])
<1>1. /\ q \in Readings /\ a \in Rows /\ L \in Nat /\ q.after \in 0..L
      /\ audit' \in [Rows -> Seq(AuditRows)]
      /\ Len(audit'[a]) = L + 1
      /\ \A i \in 1..L : audit'[a][i] = audit[a][i]
      /\ \A row \in Rows \ {a} : audit'[row] = audit[row]
  <2>1. /\ q \in Readings /\ L \in Nat /\ q.after <= L
        /\ audit' \in [Rows -> Seq(AuditRows)]
        /\ Len(audit'[a]) = L + 1
        /\ \A i \in 1..L : audit'[a][i] = audit[a][i]
        /\ \A row \in Rows \ {a} : audit'[row] = audit[row]
    BY Appended
  <2> HIDE DEF q, L
  <2>2. q.row \in Rows /\ q.after \in Nat
    BY <2>1 DEF Readings
  <2> QED
    BY <2>1, <2>2
<1>2. /\ audit'[a][L + 1].decision = q.decision
      /\ audit'[a][L + 1].previous \in {q.previous, Unrecorded}
      /\ audit'[a][L + 1].after = q.after
  <2>1. audit'[a][L + 1] = Entry(q)
    BY Appended
  <2> HIDE DEF q, a, L
  <2> QED
    BY <2>1 DEF Entry
<1>3. /\ request'[r] = Idle /\ \A o \in Feedbacks \ {r} : request'[o] = request[o]
      /\ request' \in [Feedbacks -> {Idle} \cup Readings]
  BY DEF Ends, IInv, Types
<1>4. \A i \in 1..L : audit[a][i].after \in Nat /\ audit[a][i].after < i
  BY <1>1, EntryTypes
<1>5. Says(audit[a], a, q.after, q.previous)
  BY DEF IInv, ReadStands
<1>6. \A o \in Feedbacks : request[o] # Idle =>
        request[o] \in Readings /\ request[o].after <= Len(audit[request[o].row])
  BY DEF IInv, Types, AfterInv
<1>7. \A row \in Rows : /\ Len(audit[row]) \in Nat /\ Len(audit'[row]) \in Nat
                        /\ Len(audit[row]) <= Len(audit'[row])
                        /\ \A i \in 1..Len(audit[row]) : audit'[row][i] = audit[row][i]
  <2>1. \A row \in Rows : Len(audit[row]) \in Nat /\ Len(audit'[row]) \in Nat
    BY <1>1 DEF IInv, Types
  <2> QED
    BY <1>1, <2>1
<1> SUFFICES ASSUME ~purged => \/ shown'[a] = q.decision
                               \/ shown'[a] = shown[a] /\ q.decision = q.previous
             PROVE  IInv'
  OBVIOUS
<1>8. ~purged =>
        /\ \E k \in LatestIn(audit'[a], L + 1) : shown'[a] = audit'[a][k].decision
        /\ \A x \in 0..L : \A p :
             Current(audit[a], x, p, shown[a]) => Current(audit'[a], x, p, shown'[a])
  <2> SUFFICES ASSUME ~purged PROVE <1>8!2
    OBVIOUS
  <2> DEFINE log == audit[a]
             grown == audit'[a]
             old == shown[a]
             new == shown'[a]
             after == q.after
             decision == q.decision
             previous == q.previous
  <2>1. Current(log, after, previous, old)
    BY DEF IInv, WriteStands
  <2>2. /\ L \in Nat /\ Len(log) = L /\ Len(grown) = L + 1 /\ after \in 0..L
        /\ grown[L + 1].after = after /\ grown[L + 1].decision = decision
    BY <1>1, <1>2
  <2>3. \A i \in 1..L : grown[i] = log[i] /\ log[i].after \in Nat /\ log[i].after < i
    BY <1>1, <1>4
  <2>4. new = decision \/ (new = old /\ decision = previous)
    OBVIOUS
  <2> HIDE DEF L, log, grown, old, new, after, decision, previous
  <2>5. Commits(log, grown, L, after, decision, previous, old, new)
    BY <2>1, <2>2, <2>3, <2>4 DEF Commits
  <2>6. Overtaken(log, grown, L, old, new)
    BY <2>5, RowAfterCommit
  <2> QED
    BY <2>6 DEF Overtaken, log, grown, old, new
<1> HIDE DEF q, a, L
<1> DEFINE SameBeginning(row) == \A n \in 0..Len(audit[row]) : \A value :
             Says(audit[row], row, n, value) => Says(audit'[row], row, n, value)
<1>15. \A row \in Rows : SameBeginning(row)
  <2> SUFFICES ASSUME NEW row \in Rows, NEW n \in 0..Len(audit[row]), NEW value,
                      Says(audit[row], row, n, value)
               PROVE  Says(audit'[row], row, n, value)
    OBVIOUS
  <2> DEFINE log == audit[row]
             grown == audit'[row]
             size == Len(audit[row])
  <2>1. size \in Nat /\ n \in 0..size /\ \A i \in 1..size : grown[i] = log[i]
    BY <1>7
  <2>2. Says(log, row, n, value)
    OBVIOUS
  <2> HIDE DEF log, grown, size
  <2>3. Says(grown, row, n, value)
    BY <2>1, <2>2, SaysKept
  <2> QED
    BY <2>3 DEF grown
<1>9. Types'
  BY <1>1, <1>3 DEF Types
<1>10. AfterInv'
  <2>1. \A i \in 1..(L + 1) : audit'[a][i].after < i
    <3> TAKE i \in 1..(L + 1)
    <3>1. CASE i = L + 1
      BY <3>1, <1>1, <1>2
    <3>2. CASE i \in 1..L
      BY <3>2, <1>1, <1>4
    <3> QED
      BY <1>1, <3>1, <3>2
  <2>2. ASSUME NEW o \in Feedbacks, request'[o] # Idle
        PROVE  request'[o].after <= Len(audit'[request'[o].row])
    <3>1. request'[o] = request[o] /\ request[o].row \in Rows /\ request[o].after \in Nat
          /\ request[o].after <= Len(audit[request[o].row])
      BY <1>3, <1>6, <2>2 DEF Readings
    <3> QED
      BY <3>1, <1>7
  <2> QED
    BY <1>1, <2>1, <2>2 DEF IInv, AfterInv
<1>11. EntriesStand'
  <2>1. ASSUME NEW row \in Rows, NEW i \in 1..Len(audit[row]),
               audit'[row][i].previous # Unrecorded
        PROVE  Says(audit'[row], row, audit'[row][i].after, audit'[row][i].previous)
    <3> DEFINE n == audit[row][i].after
    <3>0. audit'[row][i] = audit[row][i]
      BY <1>7
    <3>1. audit'[row][i] = audit[row][i] /\ Says(audit[row], row, n, audit[row][i].previous)
      BY <2>1, <3>0 DEF IInv, EntriesStand
    <3>2. n \in 0..Len(audit[row])
      <4>1. n \in Nat /\ n < i
        BY EntryTypes
      <4> QED
        BY <1>7, <4>1
    <3> HIDE DEF n
    <3>3. Says(audit'[row], row, n, audit[row][i].previous)
      BY <1>15, <3>1, <3>2
    <3> QED
      BY <3>1, <3>3 DEF n
  <2>2. audit'[a][L + 1].previous # Unrecorded =>
          Says(audit'[a], a, audit'[a][L + 1].after, audit'[a][L + 1].previous)
    BY <1>1, <1>2, <1>5, <1>15 DEF L
  <2>3. \A row \in Rows : \A i \in 1..Len(audit'[row]) :
          i \in 1..Len(audit[row]) \/ (row = a /\ i = L + 1)
    BY <1>1, <1>7 DEF L
  <2> QED
    BY <2>1, <2>2, <2>3 DEF EntriesStand
<1>12. RowsStand'
  <2> SUFFICES ASSUME ~purged, NEW row \in Rows
               PROVE  Says(audit'[row], row, Len(audit'[row]), shown'[row])
    BY DEF RowsStand
  <2>1. CASE row = a
    BY <1>1, <1>8, <2>1 DEF Says
  <2>2. CASE row # a
    BY <1>1, <2>2 DEF IInv, RowsStand, a, q
  <2> QED
    BY <2>1, <2>2
<1>13. ASSUME NEW o \in Feedbacks, request'[o] # Idle
       PROVE  ReadStands(o)' /\ WriteStands(o)'
  <2>1. /\ request'[o] = request[o] /\ request[o] # Idle /\ request[o].row \in Rows
        /\ request[o].after \in 0..Len(audit[request[o].row])
    BY <1>3, <1>6, <1>7, <1>13 DEF Readings
  <2>2. ReadStands(o)'
    <3>1. Says(audit[request[o].row], request[o].row, request[o].after, request[o].previous)
      BY <2>1 DEF IInv, ReadStands
    <3>2. Says(audit'[request[o].row], request[o].row, request[o].after, request[o].previous)
      BY <1>15, <2>1, <3>1
    <3> QED
      BY <2>1, <3>2 DEF ReadStands
  <2>3. WriteStands(o)'
    <3> DEFINE b == request[o].row
               x == request[o].after
               p == request[o].previous
    <3> SUFFICES ASSUME ~purged
                 PROVE  Current(audit'[b], x, p, shown'[b])
      BY <2>1 DEF WriteStands
    <3>1. Current(audit[b], x, p, shown[b])
      BY <2>1 DEF IInv, WriteStands
    <3>2. b \in Rows /\ x \in 0..Len(audit[b])
      BY <2>1
    <3> HIDE DEF b, x, p
    <3>3. CASE b = a
      BY <1>1, <1>8, <3>1, <3>2, <3>3 DEF L
    <3>4. CASE b # a
      <4>1. audit'[b] = audit[b] /\ shown'[b] = shown[b]
        BY <1>1, <3>2, <3>4 DEF a, q
      <4> QED
        BY <3>1, <4>1
    <3> QED
      BY <3>3, <3>4
  <2> QED
    BY <2>2, <2>3
<1>14. \A o \in Feedbacks : ReadStands(o)' /\ WriteStands(o)'
  BY <1>13 DEF ReadStands, WriteStands
<1> QED
  BY <1>9, <1>10, <1>11, <1>12, <1>14 DEF IInv

-----------------------------------------------------------------------------
LEMMA StepUpdate == ASSUME IInv, NEW r \in Feedbacks, CommitUpdate(r) PROVE IInv'
<1> DEFINE q == request[r]
           value == IF q.decision = q.previous THEN shown[q.row] ELSE q.decision
<1>1. /\ q # Idle /\ q \in Readings /\ shown' = [shown EXCEPT ![q.row] = value]
  BY DEF CommitUpdate, IInv, Types
<1>2. value \in Values /\ q.row \in Rows
  BY <1>1 DEF IInv, Types, Readings, Values
<1>3. /\ shown' \in [Rows -> Values] /\ shown'[q.row] = value
      /\ \A row \in Rows \ {q.row} : shown'[row] = shown[row]
  <2> HIDE DEF value
  <2> QED
    BY <1>1, <1>2 DEF IInv, Types
<1> QED
  BY <1>1, <1>3, StepCommit DEF CommitUpdate

LEMMA StepInsert == ASSUME IInv, NEW r \in Feedbacks, CommitInsert(r) PROVE IInv'
<1>1. /\ request[r] # Idle /\ request[r] \in Readings
      /\ shown' = [shown EXCEPT ![request[r].row] = request[r].decision]
  BY DEF CommitInsert, IInv, Types
<1>2. request[r].decision \in Values /\ request[r].row \in Rows
  BY <1>1 DEF Readings, Values
<1>3. /\ shown' \in [Rows -> Values] /\ shown'[request[r].row] = request[r].decision
      /\ \A row \in Rows \ {request[r].row} : shown'[row] = shown[row]
  BY <1>1, <1>2 DEF IInv, Types
<1> QED
  BY <1>1, <1>3, StepCommit DEF CommitInsert

LEMMA StepEntryOnly == ASSUME IInv, NEW r \in Feedbacks, CommitEntryOnly(r) PROVE IInv'
<1>1. request[r] # Idle /\ shown' \in [Rows -> Values] /\ purged
  BY DEF CommitEntryOnly, IInv, Types
<1> QED
  BY <1>1, StepCommit DEF CommitEntryOnly

LEMMA StepFails == ASSUME IInv, NEW r \in Feedbacks, CommitFails(r) PROVE IInv'
<1>1. /\ request'[r] = Idle /\ \A o \in Feedbacks \ {r} : request'[o] = request[o]
      /\ request' \in [Feedbacks -> {Idle} \cup Readings]
      /\ UNCHANGED <<shown, audit, purged>>
  BY DEF CommitFails, Ends, IInv, Types
<1>2. Types' /\ AfterInv' /\ EntriesStand' /\ RowsStand'
  BY <1>1 DEF IInv, Types, AfterInv, EntriesStand, RowsStand
<1>3. \A o \in Feedbacks : ReadStands(o)' /\ WriteStands(o)'
  BY <1>1 DEF IInv, ReadStands, WriteStands
<1> QED
  BY <1>2, <1>3 DEF IInv

LEMMA StepPurge == ASSUME IInv, PurgeInspection PROVE IInv'
<1>1. purged' = TRUE /\ shown' \in [Rows -> Values] /\ UNCHANGED <<audit, request>>
  BY DEF PurgeInspection, Values
<1>2. Types' /\ AfterInv' /\ EntriesStand' /\ RowsStand'
  BY <1>1 DEF IInv, Types, AfterInv, EntriesStand, RowsStand
<1>3. \A o \in Feedbacks : ReadStands(o)' /\ WriteStands(o)'
  BY <1>1 DEF IInv, ReadStands, WriteStands
<1> QED
  BY <1>2, <1>3 DEF IInv

-----------------------------------------------------------------------------
\* Where there is something to read, there is an inspection.
PresentInv == purged => \A row \in Rows : shown[row] = "absent"

LEMMA DecisionTypes == \A row \in Rows : Decisions(row) \subseteq Decided
BY DEF Decided, AllDecisions

LEMMA Inductive == IInv /\ PresentInv /\ [Next]_feedbackVars => IInv' /\ PresentInv'
<1> SUFFICES ASSUME IInv, PresentInv, [Next]_feedbackVars PROVE IInv' /\ PresentInv'
  OBVIOUS
<1>1. CASE UNCHANGED feedbackVars
  BY <1>1 DEF feedbackVars, IInv, Types, AfterInv, EntriesStand, RowsStand, ReadStands,
     WriteStands, PresentInv
<1>2. ASSUME NEW r \in Feedbacks, NEW row \in Rows,
             BeginReview(r, row) \/ BeginDisposition(r, row) \/ BeginAnnotation(r, row)
      PROVE  IInv' /\ PresentInv'
  <2>1. ~purged
    BY <1>2 DEF BeginReview, BeginDisposition, BeginAnnotation, PresentInv
  <2>2. PICK decision \in Decided : Read(r, row, decision)
    <3>1. CASE BeginReview(r, row) \/ BeginDisposition(r, row)
      BY <3>1, DecisionTypes DEF BeginReview, BeginDisposition
    <3>2. CASE BeginAnnotation(r, row)
      BY <3>2 DEF BeginAnnotation, Decided
    <3> QED
      BY <1>2, <3>1, <3>2
  <2> QED
    BY <2>1, <2>2, StepRead DEF Read, PresentInv
<1>3. ASSUME NEW r \in Feedbacks,
             CommitUpdate(r) \/ CommitInsert(r) \/ CommitFails(r) \/ CommitEntryOnly(r)
      PROVE  IInv' /\ PresentInv'
  <2>1. IInv'
    BY <1>3, StepUpdate, StepInsert, StepFails, StepEntryOnly
  <2>2. PresentInv'
    <3>1. request[r] # Idle => request[r].row \in Rows
      BY DEF IInv, Types, Readings
    <3> QED
      BY <1>3, <3>1 DEF CommitUpdate, CommitInsert, CommitFails, CommitEntryOnly, PresentInv
  <2> QED
    BY <2>1, <2>2
<1>4. CASE PurgeInspection
  BY <1>4, StepPurge DEF PurgeInspection, PresentInv
<1> QED
  BY <1>1, <1>2, <1>3, <1>4 DEF Next

LEMMA Promised == IInv => ShowsALatestFeedback /\ AuditTellsPrevious
<1> SUFFICES ASSUME IInv PROVE ShowsALatestFeedback /\ AuditTellsPrevious
  OBVIOUS
<1>1. \A row \in Rows : /\ Len(audit[row]) \in Nat /\ DOMAIN audit[row] = 1..Len(audit[row])
                        /\ audit[row] = <<>> <=> Len(audit[row]) = 0
  <2>1. \A row \in Rows : audit[row] \in Seq(AuditRows)
    BY DEF IInv, Types
  <2> QED
    BY <2>1, EmptySeq, LenProperties
<1>2. \A row \in Rows, n \in Nat : LatestIn(audit[row], n) = LatestOf(row, n)
  BY DEF LatestIn, LatestOf
<1>3. ShowsALatestFeedback
  BY <1>1, <1>2 DEF IInv, RowsStand, Says, ShowsALatestFeedback
<1>4. AuditTellsPrevious
  <2> SUFFICES ASSUME NEW row \in Rows, NEW i \in 1..Len(audit[row])
               PROVE  LET entry == audit[row][i] IN
                      entry.previous # Unrecorded =>
                      IF entry.after = 0 THEN entry.previous = Blank(row)
                      ELSE \E k \in LatestOf(row, entry.after) :
                             entry.previous = audit[row][k].decision
    BY <1>1 DEF AuditTellsPrevious
  <2>1. audit[row][i].after \in Nat
    BY EntryTypes
  <2> QED
    BY <1>2, <2>1 DEF IInv, EntriesStand, Says
<1> QED
  BY <1>3, <1>4

LEMMA InitPresent == Init => PresentInv
BY DEF Init, PresentInv

\* ShowsALatestFeedback: feedback that began after all other feedback on its row was committed is
\* never hidden by it, though unchanged values are not written (review_analysis and its like).
THEOREM RowsShowALatestFeedback == Spec => []ShowsALatestFeedback
<1>1. Init => IInv /\ PresentInv
  BY InitIInv, InitPresent
<1>2. IInv /\ PresentInv /\ [Next]_feedbackVars => (IInv /\ PresentInv)'
  BY Inductive
<1>3. IInv => ShowsALatestFeedback
  BY Promised
<1> QED
  BY <1>1, <1>2, <1>3, PTL DEF Spec

\* AuditTellsPrevious: the previous value in the audit entry of a detection's review or of a
\* disposition was a latest feedback when its request began, whatever was committed since
\* (set_detection_review, set_disposition).
THEOREM AuditAlwaysTellsPrevious == Spec => []AuditTellsPrevious
<1>1. Init => IInv /\ PresentInv
  BY InitIInv, InitPresent
<1>2. IInv /\ PresentInv /\ [Next]_feedbackVars => (IInv /\ PresentInv)'
  BY Inductive
<1>3. IInv => AuditTellsPrevious
  BY Promised
<1> QED
  BY <1>1, <1>2, <1>3, PTL DEF Spec

-----------------------------------------------------------------------------
(***************************************************************************)
(* Types.  Each row shows a decision of its own kind, and so does what a   *)
(* request has read of it: a row that retention has deleted is not read.   *)
(***************************************************************************)

TypeInv ==
  /\ \A row \in Rows : shown[row] \in Decisions(row) \cup {Blank(row), "absent"}
  /\ \A r \in Feedbacks : request[r] # Idle =>
       /\ request[r].decision \in Decisions(request[r].row)
       /\ request[r].previous \in Decisions(request[r].row) \cup {Blank(request[r].row)}
  /\ audit \in [Rows -> Seq(Entries)]
  /\ purged \in BOOLEAN

LEMMA DrawnRows ==
  ASSUME FeedbackAssumption
  PROVE  /\ \A row \in Drawn : Blank(row) = "absent" /\ "confirmed" \in Decisions(row)
         /\ \A row \in Dispositions : Blank(row) = "absent"
BY DEF FeedbackAssumption, Blank, Decisions

\* A request reads a row: what the row shows is no deleted row's.
LEMMA TypedRead ==
  ASSUME IInv, TypeInv, NEW r \in Feedbacks, NEW row \in Rows, NEW decision \in Decisions(row),
         Read(r, row, decision), shown[row] # "absent" \/ Blank(row) = "absent"
  PROVE  TypeInv'
<1>1. /\ request' = [request EXCEPT ![r] = [row |-> row, decision |-> decision,
                                           previous |-> shown[row], after |-> Len(audit[row])]]
      /\ UNCHANGED <<shown, audit, purged>>
  BY DEF Read
<1>2. request \in [Feedbacks -> {Idle} \cup Readings]
  BY DEF IInv, Types
<1>3. shown[row] \in Decisions(row) \cup {Blank(row)}
  BY DEF TypeInv
<1>4. ASSUME NEW o \in Feedbacks, request'[o] # Idle
      PROVE  /\ request'[o].decision \in Decisions(request'[o].row)
             /\ request'[o].previous \in Decisions(request'[o].row) \cup {Blank(request'[o].row)}
  <2>1. CASE o = r
    BY <1>1, <1>2, <1>3, <2>1
  <2>2. CASE o # r
    BY <1>1, <1>2, <1>4, <2>2 DEF TypeInv
  <2> QED
    BY <2>1, <2>2
<1> QED
  BY <1>1, <1>4 DEF TypeInv, Entries, AllDecisions

\* A request ends; what it commits, if anything, is what it has read and decided.
LEMMA TypedCommit ==
  ASSUME IInv, TypeInv, NEW r \in Feedbacks, request[r] # Idle, Ends(r), UNCHANGED purged,
         audit' = audit \/ RecordAudit(request[r]),
         \/ shown' = shown
         \/ shown' = [shown EXCEPT ![request[r].row] = request[r].decision]
  PROVE  TypeInv'
<1> DEFINE q == request[r]
<1>1. /\ request \in [Feedbacks -> {Idle} \cup Readings] /\ q \in Readings
      /\ shown \in [Rows -> Values] /\ audit \in [Rows -> Seq(Entries)]
  BY DEF IInv, Types, TypeInv
<1>2. q.decision \in Decisions(q.row) /\ q.previous \in Decisions(q.row) \cup {Blank(q.row)}
      /\ q.row \in Rows /\ q.after \in Nat
  BY <1>1 DEF TypeInv, Readings
<1>3. request' = [request EXCEPT ![r] = Idle]
  BY DEF Ends
<1> HIDE DEF q
<1>4. ASSUME NEW row \in Rows
      PROVE  shown'[row] \in Decisions(row) \cup {Blank(row), "absent"}
  <2>1. shown[row] \in Decisions(row) \cup {Blank(row), "absent"}
    BY DEF TypeInv
  <2>2. CASE shown' = shown
    BY <2>1, <2>2
  <2>3. CASE shown' = [shown EXCEPT ![q.row] = q.decision]
    BY <1>1, <1>2, <2>1, <2>3
  <2> QED
    BY <2>2, <2>3 DEF q
<1>5. audit' \in [Rows -> Seq(Entries)]
  <2>1. Entry(q) \in Entries
    BY <1>2 DEF Entry, Entries, AllDecisions
  <2>2. audit[q.row] \in Seq(Entries)
    BY <1>1, <1>2
  <2>3. Append(audit[q.row], Entry(q)) \in Seq(Entries)
    BY <2>1, <2>2, AppendProperties
  <2>4. audit' = audit \/ audit' = [audit EXCEPT ![q.row] = Append(audit[q.row], Entry(q))]
    BY <1>1, <1>2 DEF RecordAudit, q
  <2> QED
    BY <1>1, <2>3, <2>4
<1>6. \A o \in Feedbacks : request'[o] # Idle => request'[o] = request[o]
  BY <1>1, <1>3
<1>7. ASSUME NEW o \in Feedbacks, request'[o] # Idle
      PROVE  /\ request'[o].decision \in Decisions(request'[o].row)
             /\ request'[o].previous \in Decisions(request'[o].row) \cup {Blank(request'[o].row)}
  BY <1>6, <1>7 DEF TypeInv
<1> QED
  BY <1>4, <1>5, <1>7 DEF TypeInv, Entries, AllDecisions

LEMMA TypedStep ==
  ASSUME FeedbackAssumption, IInv, TypeInv, [Next]_feedbackVars
  PROVE  TypeInv'
<1>1. CASE UNCHANGED feedbackVars
  BY <1>1 DEF feedbackVars, TypeInv, Entries, AllDecisions
<1>2. ASSUME NEW r \in Feedbacks, NEW row \in Rows,
             BeginReview(r, row) \/ BeginDisposition(r, row) \/ BeginAnnotation(r, row)
      PROVE  TypeInv'
  <2>1. CASE BeginReview(r, row)
    BY <2>1, TypedRead DEF BeginReview
  <2>2. CASE BeginDisposition(r, row)
    BY <2>2, TypedRead, DrawnRows DEF BeginDisposition
  <2>3. CASE BeginAnnotation(r, row)
    BY <2>3, TypedRead, DrawnRows DEF BeginAnnotation
  <2> QED
    BY <1>2, <2>1, <2>2, <2>3
<1>3. ASSUME NEW r \in Feedbacks,
             CommitUpdate(r) \/ CommitInsert(r) \/ CommitFails(r) \/ CommitEntryOnly(r)
      PROVE  TypeInv'
  <2>1. CASE CommitUpdate(r)
    <3>1. \/ shown' = shown
          \/ shown' = [shown EXCEPT ![request[r].row] = request[r].decision]
      BY <2>1 DEF CommitUpdate, IInv, Types
    <3> QED
      BY <2>1, <3>1, TypedCommit DEF CommitUpdate
  <2>2. CASE CommitInsert(r)
    BY <2>2, TypedCommit DEF CommitInsert
  <2>3. CASE CommitFails(r)
    BY <2>3, TypedCommit DEF CommitFails
  <2>4. CASE CommitEntryOnly(r)
    BY <2>4, TypedCommit DEF CommitEntryOnly
  <2> QED
    BY <1>3, <2>1, <2>2, <2>3, <2>4
<1>4. CASE PurgeInspection
  BY <1>4 DEF PurgeInspection, TypeInv, Entries, AllDecisions
<1> QED
  BY <1>1, <1>2, <1>3, <1>4 DEF Next

LEMMA TypedInit == Init => TypeInv
<1> SUFFICES ASSUME Init PROVE TypeInv
  OBVIOUS
<1>1. <<>> \in Seq(Entries)
  OBVIOUS
<1> QED
  BY <1>1 DEF Init, TypeInv

\* Rows show, requests read and entries name decisions of the row's own kind, or its value before
\* the first (AnalysisStatus, DetectionReview, BoardDisposition).
THEOREM TypeCorrect ==
  ASSUME FeedbackAssumption
  PROVE  Spec => []TypeOK
<1>1. Init => IInv /\ PresentInv /\ TypeInv
  BY InitIInv, InitPresent, TypedInit
<1>2. IInv /\ PresentInv /\ TypeInv /\ [Next]_feedbackVars => (IInv /\ PresentInv /\ TypeInv)'
  BY Inductive, TypedStep
<1>3. IInv /\ TypeInv => TypeOK
  <2> SUFFICES ASSUME IInv, TypeInv PROVE TypeOK
    OBVIOUS
  <2>1. shown \in [Rows -> AllDecisions \cup {"absent", "PENDING", "unreviewed"}]
    <3>1. shown \in [Rows -> Values]
      BY DEF IInv, Types
    <3>2. \A row \in Rows : shown[row] \in AllDecisions \cup {"absent", "PENDING", "unreviewed"}
      BY DEF TypeInv, AllDecisions, Blank
    <3> QED
      BY <3>1, <3>2
  <2>2. ASSUME NEW r \in Feedbacks, request[r] # Idle
        PROVE  request[r].row \in Rows /\ Entry(request[r]) \in Entries
    <3>1. request[r] \in Readings
      BY <2>2 DEF IInv, Types
    <3> QED
      BY <2>2, <3>1 DEF TypeInv, Readings, Entry, Entries, AllDecisions
  <2> QED
    BY <2>1, <2>2 DEF TypeInv, TypeOK
<1> QED
  BY <1>1, <1>2, <1>3, PTL DEF Spec
=============================================================================
