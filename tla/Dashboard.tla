------------------------------ MODULE Dashboard ------------------------------
(***************************************************************************)
(* The dashboard's aggregates: computed from the images of the station by  *)
(* a few statements in a row, kept in Redis for a minute, thrown away by   *)
(* the pipeline when an image completes.                                   *)
(*                                                                         *)
(* Code: backend/app/stats/router.py, stats/cache.py, stats/service.py,    *)
(* batches/service.py, knowledge/defects.py (the severity of a batch).     *)
(*                                                                         *)
(* The statements of one request run in READ COMMITTED: each sees what is  *)
(* committed when it runs.  All images are of one batch.  Every operation  *)
(* on Redis is best-effort.  Ratios are compared crosswise, in integers.   *)
(* An image that fails is counted nowhere: it stays QUEUED here.          *)
(***************************************************************************)
EXTENDS Integers, FiniteSets, Functions

CONSTANTS
  Images,     \* inspection_image rows
  Classes,    \* defect classes
  Weight,     \* [Classes -> 1..4]: DEFECT_TYPE_WEIGHT, the severity of a class
  MaxDrawn,   \* bound on the detections drawn by hand
  Requests,   \* GET /api/v1/stats/* requests that may be under way at a time
  Keys,       \* what they ask for: a subset of {"summary", "recent_batches"}
  Ttl         \* CACHE_TTL_SECONDS, in ticks of the clock

\* What the proofs ask of the constants.
DashboardAssumption ==
  /\ IsFiniteSet(Images) /\ IsFiniteSet(Classes) /\ Weight \in [Classes -> 1..4]
  /\ Ttl \in Nat \ {0}

VARIABLES
  image,      \* [Images -> row]: its status, the classes found by the model and those drawn
  finishing,  \* images whose task has committed and has yet to invalidate the cache
  asked,      \* the cache key this behaviour follows: the keys do not interact
  cache,      \* the answer stored under it, or Miss
  ttl,        \* what is left of its time
  query       \* what each request has read so far

dashboardVars == <<image, finishing, asked, cache, ttl, query>>

Statuses == {"QUEUED", "ANALYZING", "COMPLETED"}

-----------------------------------------------------------------------------
(* The severity of a batch: what was found, scaled by how many boards carry it. *)

Sum(f) == FoldFunction(+, 0, f)
WeightMin == CHOOSE w \in Range(Weight) : \A v \in Range(Weight) : w <= v
WeightMax == CHOOSE w \in Range(Weight) : \A v \in Range(Weight) : w >= v

\* A mutant of Severity: the share of clean boards is taken for the share of defective ones.
SeverityOfCleanRate(counts, boards, completed) ==
  LET total == Sum(counts)
      weighted == Sum([c \in Classes |-> counts[c] * Weight[c]])
      n == IF completed = 0 THEN 1 ELSE completed
      b == IF completed = 0 THEN 0 ELSE IF boards < completed THEN boards ELSE completed
      Under(k) == 4 * weighted * (2 * n - b) < (4 * WeightMin + k * (WeightMax - WeightMin)) * 2 * total * n
  IN IF total = 0 THEN 0 ELSE IF Under(1) THEN 1 ELSE IF Under(2) THEN 2 ELSE IF Under(3) THEN 3 ELSE 4

\* severity_from_defect_counts(counts, defect_rate = boards / completed): the first band of four
\* the score lies under, 0 when there are no defects.  The score is
\* weighted / total * (1 + rate) / 2, with the rate between 0 and 1.
Severity(counts, boards, completed) ==
  LET total == Sum(counts)
      weighted == Sum([c \in Classes |-> counts[c] * Weight[c]])
      n == IF completed = 0 THEN 1 ELSE completed
      b == IF completed = 0 THEN 0 ELSE IF boards < completed THEN boards ELSE completed
      Under(k) == 4 * weighted * (n + b) < (4 * WeightMin + k * (WeightMax - WeightMin)) * 2 * total * n
  IN IF total = 0 THEN 0 ELSE IF Under(1) THEN 1 ELSE IF Under(2) THEN 2 ELSE IF Under(3) THEN 3 ELSE 4

-----------------------------------------------------------------------------
(* The statements, each over the images as they are when it runs. *)

Completed == {i \in Images : image[i].status = "COMPLETED"}
Defects(i) == image[i].found \cup image[i].drawn
\* A mutant of Defective: the status is not asked for.
DefectiveAnyStatus == {i \in Images : Defects(i) # {}}

Defective == {i \in Completed : Defects(i) # {}}

CompletedCount == Cardinality(Completed)
BoardsWithDefects == Cardinality(Defective)
DefectCounts ==
  [c \in Classes |-> Cardinality({i \in Completed : c \in image[i].found})
                     + Cardinality({i \in Completed : c \in image[i].drawn})]

-----------------------------------------------------------------------------
(* The pipeline. *)

Settle(i, status, found) ==
  /\ image' = [image EXCEPT ![i].status = status, ![i].found = found]
  /\ query' = [r \in Requests |-> IF status = "COMPLETED" /\ query[r].pc # "idle"
                                  THEN [query[r] EXCEPT !.arrived = @ \cup {i}] ELSE query[r]]

\* Inference ends: the image is complete, or goes on to the agents.
InferImage(i) ==
  /\ image[i].status = "QUEUED"
  /\ \E found \in SUBSET Classes :
       \/ Settle(i, "COMPLETED", found)
       \/ found # {} /\ Settle(i, "ANALYZING", found)
  /\ finishing' = finishing \cup {i}
  /\ UNCHANGED <<asked, cache, ttl>>

\* The agents, or their fallback, complete it.
CompleteAnalysis(i) ==
  /\ image[i].status = "ANALYZING" /\ Settle(i, "COMPLETED", image[i].found)
  /\ finishing' = finishing \cup {i}
  /\ UNCHANGED <<asked, cache, ttl>>

\* A completed image with an analysis goes back to the agents; nothing is invalidated.
RequestAnalysis(i) ==
  /\ i \in Completed /\ image[i].found # {} /\ Settle(i, "ANALYZING", image[i].found)
  /\ UNCHANGED <<finishing, asked, cache, ttl>>

\* An operator draws a defect the model has missed; nothing is invalidated.
AnnotateImage(i, c) ==
  /\ c \notin image[i].drawn
  /\ Sum([j \in Images |-> Cardinality(image[j].drawn)]) < MaxDrawn
  /\ image' = [image EXCEPT ![i].drawn = @ \cup {c}]
  /\ UNCHANGED <<finishing, asked, cache, ttl, query>>

\* invalidate_all, after the commit: no effect when Redis cannot be reached.
Miss == <<>>
InvalidateStats(i) ==
  /\ i \in finishing
  /\ finishing' = finishing \ {i}
  /\ \/ cache' = Miss /\ ttl' = 0
     \/ UNCHANGED <<cache, ttl>>
  /\ UNCHANGED <<image, asked, query>>

-----------------------------------------------------------------------------
(* The requests. *)

Idle == [pc |-> "idle"]
Begun == [pc |-> "overview", arrived |-> {}, completed |-> 0, counts |-> [c \in Classes |-> 0],
          boards |-> 0]

\* A mutant of CheckCache: a hit renews the key, and who keeps asking keeps the answer.
CheckCacheRenewing(r) ==
  /\ query[r] = Idle
  /\ \/ cache = Miss /\ query' = [query EXCEPT ![r] = Begun] /\ ttl' = ttl
     \/ cache # Miss /\ query' = query /\ ttl' = Ttl
  /\ UNCHANGED <<image, finishing, asked, cache>>

\* get_cached: a hit is answered at once and leaves the key its time, a miss computes.
CheckCache(r) ==
  /\ query[r] = Idle
  /\ query' = IF cache = Miss THEN [query EXCEPT ![r] = Begun] ELSE query
  /\ UNCHANGED <<image, finishing, asked, cache, ttl>>

\* The batch overview, or the summary's first count: total_inspected.
ReadOverview(r) ==
  /\ query[r].pc = "overview"
  /\ query' = [query EXCEPT ![r].pc = IF asked = "summary" THEN "boards" ELSE "defects",
                            ![r].completed = CompletedCount]
  /\ UNCHANGED <<image, finishing, asked, cache, ttl>>

ReadDefectCounts(r) ==
  /\ query[r].pc = "defects"
  /\ query' = [query EXCEPT ![r].pc = "boards", ![r].counts = DefectCounts]
  /\ UNCHANGED <<image, finishing, asked, cache, ttl>>

\* Boards with defects, or the summary's second count: total_with_defects.
ReadBoardsWithDefects(r) ==
  /\ query[r].pc = "boards"
  /\ query' = [query EXCEPT ![r].pc = "answer", ![r].boards = BoardsWithDefects]
  /\ UNCHANGED <<image, finishing, asked, cache, ttl>>

\* What the response shows: the summary its two counts (the rate is made of them), the batch
\* its severity.
Answer(q) ==
  IF asked = "summary"
  THEN [completed |-> q.completed, boards |-> q.boards]
  ELSE [defects |-> Sum(q.counts),
        severity |-> Severity(q.counts, q.boards, q.completed)]

CurrentAnswer ==
  Answer([completed |-> CompletedCount,
          counts |-> DefectCounts, boards |-> BoardsWithDefects])

\* set_cached: whatever is there is overwritten, and the key has its full time again.
SetCached(r) ==
  /\ query[r].pc = "answer"
  /\ \/ cache' = Answer(query[r]) /\ ttl' = Ttl
     \/ UNCHANGED <<cache, ttl>>
  /\ query' = [query EXCEPT ![r] = Idle]
  /\ UNCHANGED <<image, finishing, asked>>

\* Time passes for the key; when its time is over, Redis drops it.
Tick ==
  /\ cache # Miss
  /\ ttl' = ttl - 1
  /\ cache' = IF ttl = 1 THEN Miss ELSE cache
  /\ UNCHANGED <<image, finishing, asked, query>>

-----------------------------------------------------------------------------
Init ==
  /\ image = [i \in Images |-> [status |-> "QUEUED", found |-> {}, drawn |-> {}]]
  /\ finishing = {}
  /\ asked \in Keys
  /\ cache = Miss /\ ttl = 0
  /\ query = [r \in Requests |-> Idle]

Next ==
  \/ \E i \in Images :
       \/ InferImage(i) \/ CompleteAnalysis(i) \/ RequestAnalysis(i) \/ InvalidateStats(i)
       \/ \E c \in Classes : AnnotateImage(i, c)
  \/ \E r \in Requests :
       \/ CheckCache(r) \/ ReadOverview(r) \/ ReadDefectCounts(r) \/ ReadBoardsWithDefects(r) \/ SetCached(r)
  \/ Tick

Spec == Init /\ [][Next]_dashboardVars

\* Time does not stop.
FairSpec == Spec /\ WF_dashboardVars(Tick)

-----------------------------------------------------------------------------
TypeOK ==
  /\ image \in [Images -> [status : Statuses, found : SUBSET Classes, drawn : SUBSET Classes]]
  /\ finishing \subseteq Images
  /\ asked \in Keys
  /\ ttl \in 0..Ttl /\ (ttl = 0 <=> cache = Miss)
  /\ query \in [Requests ->
       {Idle} \cup [pc : {"overview", "defects", "boards", "answer"}, arrived : SUBSET Images,
                   completed : Nat, counts : [Classes -> Nat], boards : Nat]]

\* Counts of two statements may be out of step, and the share of defective boards above one
\* (the quality rate below zero), but by no more than the images that completed meanwhile.
SkewIsBounded ==
  \A r \in Requests : query[r].pc = "answer" =>
    query[r].boards <= query[r].completed + Cardinality(query[r].arrived)

\* The reading of a batch follows what is found: a clean board never makes it worse, a board
\* whose defects weigh at least as much as any found before never makes it milder.
CurrentSeverity == Severity(DefectCounts, BoardsWithDefects, CompletedCount)
SeverityFollowsFindings ==
  [][\A i \in Completed' \ Completed :
       IF Defects(i)' = {} THEN CurrentSeverity' <= CurrentSeverity
       ELSE (\A c \in Defects(i)' : \A j \in Completed : \A d \in Defects(j) :
               Weight[c] >= Weight[d]) => CurrentSeverity' >= CurrentSeverity]_dashboardVars

\* A cached answer does not stay out of date: even if requests that began before an image
\* completed store theirs one after the other, after the invalidation, each with its full time,
\* and however often the answer is asked for, it gives way.
StaleAnswersEnd ==
  cache # Miss /\ cache # CurrentAnswer ~> cache = Miss \/ cache = CurrentAnswer
=============================================================================
