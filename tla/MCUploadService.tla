--------------------------- MODULE MCUploadService ---------------------------
(* Values of the constants for the runs of UploadService.                   *)
EXTENDS UploadService, TLC

CONSTANTS r1, r2, r3, d1, d2

OneItem    == {1}
TwoItems   == 1..2
ThreeItems == 1..3

OneRecording    == {r1}
TwoRecordings   == {r1, r2}
ThreeRecordings == {r1, r2, r3}
OnlySecond      == {r2}
OnlyThird       == {r3}

\* Each row has a recording of its own, or the last two rows are of one recording enqueued twice.
Single     == 1 :> r1
Distinct   == (1 :> r1) @@ (2 :> r2)
ThreeDistinct == (1 :> r1) @@ (2 :> r2) @@ (3 :> r3)
FirstThenTwice == (1 :> r1) @@ (2 :> r2) @@ (3 :> r2)
=============================================================================
