---------------------------- MODULE MCIngestion -----------------------------
(* Files, boards and environments for TLC's runs of Ingestion. *)
EXTENDS Ingestion

CONSTANTS b1, d1, d2, c1, c2

\* 1 and 3 share a board (same stem) and have the same content, 2 is no image.
ThreeFiles == 1..3
BoardOfThree == <<d1, d2, d1>>
BatchOfThree == <<b1, b1, b1>>
ContentOfThree == <<c1, c2, c1>>

\* Overlapping scans, with what may disturb them most; then one scan at a time.
Watching ==
  {{"concurrent", "purge"},
   {"crash", "unreadable"},
   {"slow_camera"},
   {"removed"}}

OnlyUnreadable == {{"unreadable"}}
=============================================================================
