------------------------------ MODULE GoldenSet ------------------------------
(***************************************************************************)
(* The score of a candidate model on the golden set: predictions of one    *)
(* class are matched with ground-truth boxes one by one, by descending     *)
(* confidence, and the average precision is the area under the             *)
(* precision/recall curve that results.                                    *)
(*                                                                         *)
(* Code: backend/app/inference/golden_set.py.                              *)
(*                                                                         *)
(* A prediction is its row of IoUs with the ground-truth boxes, 0 for the  *)
(* boxes of another image and those it does not touch; IoUs are ranks in a *)
(* finite scale.  An average precision is kept as an integer, in units of  *)
(* 1 / (Scale * number of boxes): Scale is divisible by every precision's  *)
(* denominator.                                                            *)
(***************************************************************************)
EXTENDS Integers, Sequences, FiniteSets

CONSTANTS
  NumBoxes,        \* ground-truth boxes of the class
  MaxIoU,          \* the greatest rank of the IoU scale
  Thresholds,      \* the IoU thresholds, as ranks: the least one gives the mAP@50
  MaxPredictions,  \* bound on the predictions
  Scale            \* a multiple of each of 1..MaxPredictions

Boxes == 1..NumBoxes

\* What the proofs ask of the constants.
GoldenSetAssumption ==
  /\ NumBoxes \in Nat /\ MaxIoU \in Nat /\ MaxPredictions \in Nat /\ Scale \in Nat
  /\ Thresholds \subseteq Nat

VARIABLE found  \* [Thresholds -> Seq(box)]: what each prediction so far was matched with, or NoBox

goldenVars == <<found>>

NoBox == 0

-----------------------------------------------------------------------------
(* _class_ap_at_iou: one turn of the loop over the predictions, for every threshold.  A
   prediction takes the box it overlaps most among those not matched yet, the first of equals;
   the threshold is applied to that one only. *)

Free(threshold) == Boxes \ {found[threshold][n] : n \in DOMAIN found[threshold]}

Candidate(iou, free) ==
  {b \in free : /\ iou[b] > 0
                /\ \A o \in free \ {b} : iou[o] < iou[b] \/ (iou[o] = iou[b] /\ b < o)}

\* A mutant of Match: the comparison is the wrong way round.
MatchReversed(iou, threshold) ==
  LET hit == {b \in Candidate(iou, Free(threshold)) : iou[b] <= threshold}
  IN IF hit = {} THEN NoBox ELSE CHOOSE b \in hit : TRUE

Match(iou, threshold) ==
  LET hit == {b \in Candidate(iou, Free(threshold)) : iou[b] >= threshold}
  IN IF hit = {} THEN NoBox ELSE CHOOSE b \in hit : TRUE

-----------------------------------------------------------------------------
(* _average_precision: cumulative counts, the envelope from the right, the integral. *)

TruePositives(boxes, n) == Cardinality({m \in 1..n : boxes[m] # NoBox})
Precision(boxes, n) == (Scale * TruePositives(boxes, n)) \div n

\* f[1] + ... + f[n], for n = 0, 1, ...
Totals(f) ==
  LET total[n \in Nat] == IF n = 0 THEN 0 ELSE total[n - 1] + f[n]
  IN total

Gain(boxes, n) == TruePositives(boxes, n) - TruePositives(boxes, n - 1)

\* A mutant of AveragePrecision: the precisions are summed without their envelope.
AveragePrecisionRaw(boxes) ==
  Totals([n \in 1..Len(boxes) |-> Precision(boxes, n) * Gain(boxes, n)])[Len(boxes)]

\* The greatest precision from the n-th prediction on, and 0 after the last.
Envelope(boxes) ==
  LET envelope[n \in 1..(Len(boxes) + 1)] ==
        IF n > Len(boxes) THEN 0
        ELSE LET rest == envelope[n + 1]
             IN IF Precision(boxes, n) > rest THEN Precision(boxes, n) ELSE rest
  IN envelope

AveragePrecision(boxes) ==
  LET envelope == Envelope(boxes)
  IN Totals([n \in 1..Len(boxes) |-> envelope[n] * Gain(boxes, n)])[Len(boxes)]

\* The class's entry in compute_map: one average precision per threshold.
Score(threshold) == AveragePrecision(found[threshold])

-----------------------------------------------------------------------------
Init == found = [threshold \in Thresholds |-> <<>>]

\* detect() has one more prediction, less confident than those before: its IoUs with the boxes.
Predict(iou) ==
  /\ \A threshold \in Thresholds : Len(found[threshold]) < MaxPredictions
  /\ found' = [threshold \in Thresholds |-> Append(found[threshold], Match(iou, threshold))]

Next == \E iou \in [Boxes -> 0..MaxIoU] : Predict(iou)

Spec == Init /\ [][Next]_goldenVars

-----------------------------------------------------------------------------
\* The definition the code's three loops stand for: for each number of boxes found, the best
\* precision at which at least so many are found.
BestPrecision(boxes, k) ==
  LET levels == {0} \cup {Precision(boxes, n) : n \in {m \in DOMAIN boxes : TruePositives(boxes, m) >= k}}
  IN CHOOSE p \in levels : \A q \in levels : q <= p

\* The average precision is that of the definition: the mean over the boxes of the precision at
\* which each of them is recalled, with 0 for the boxes never found.
ScoreIsAveragePrecision ==
  \A threshold \in Thresholds :
    LET boxes == found[threshold]
    IN Score(threshold) =
         Totals([k \in Boxes |-> BestPrecision(boxes, k)])[NumBoxes]

\* A stricter threshold never scores higher, though each threshold matches anew and a box may go
\* to another prediction: the mAP@50-95 is at most the mAP@50.
StricterNeverScoresHigher ==
  \A s, t \in Thresholds : s <= t => Score(t) <= Score(s)

TypeOK == found \in [Thresholds -> Seq(Boxes \cup {NoBox})]
=============================================================================
