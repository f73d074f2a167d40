-------------------------- MODULE MCRecordingSession --------------------------
(***************************************************************************)
(* The symmetry of a small recording session for TLC: nothing tells one    *)
(* meeting, visit or upload from another.  The run that uses it checks     *)
(* only invariants and the steps of the list, no liveness.                 *)
(***************************************************************************)
EXTENDS RecordingSession, TLC

Symmetry == Permutations(Meetings) \cup Permutations(Screens) \cup Permutations(Saves)
=============================================================================
