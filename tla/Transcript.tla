------------------------------ MODULE Transcript ------------------------------
(***************************************************************************)
(* Reading and editing one transcript: stores/transcriptStore.ts and the   *)
(* screen TranscriptScreen.tsx, which loads on entry and resets the store  *)
(* when it is left.                                                        *)
(*                                                                         *)
(* loadTranscript writes its answer into whatever the store holds by then. *)
(* saveTranscriptEdits is a stub that resolves at once, so that saveEdits  *)
(* is one step whose catch is not reached.  A text is told apart only by   *)
(* where it comes from: the server, or the recording it was typed for.     *)
(***************************************************************************)
EXTENDS Naturals

CONSTANTS
  Recordings,
  MaxSegments,   \* bound: the length of the longest transcript
  Calls          \* identities for calls of loadTranscript

ASSUME MaxSegmentsAssumption == MaxSegments \in Nat

\* Every transcript numbers its segments from seg-0, so that a longer one has the ids of a shorter.
Segments == 0..MaxSegments - 1

VARIABLES
  recordingId, segments, editMode, pendingEdits, isLoading, error,   \* the store
  editing,                                                           \* the tab of edited text
  call                                                               \* the recording each call asked for

store == <<recordingId, segments, editMode, pendingEdits, isLoading, error>>
vars  == <<store, editing, call>>

None == "none"

ASSUME NoneAssumption == None \notin Recordings

NoEdits == [g \in Segments |-> None]
\* The text of a segment that is not there is None.
NoSegments == [of |-> None, text |-> NoEdits]
Text(r, n) == [of |-> r, text |-> [g \in Segments |-> IF g < n THEN "server" ELSE None]]
Present(g) == segments.text[g] # None

Initial ==
  /\ recordingId' = None /\ segments' = NoSegments /\ editMode' = FALSE
  /\ pendingEdits' = NoEdits /\ isLoading' = FALSE /\ error' = FALSE

Init ==
  /\ recordingId = None /\ segments = NoSegments /\ editMode = FALSE
  /\ pendingEdits = NoEdits /\ isLoading = FALSE /\ error = FALSE
  /\ editing = FALSE
  /\ call = [c \in Calls |-> None]

\* The screen shows a spinner, or the error with a button to try again, until it has segments.
Spinner == isLoading /\ segments = NoSegments
Failure == error /\ segments = NoSegments /\ ~isLoading
Visible == recordingId # None /\ ~Spinner /\ ~Failure

LoadTranscript(c, r) ==
  /\ call[c] = None /\ call' = [call EXCEPT ![c] = r]
  /\ isLoading' = TRUE /\ error' = FALSE /\ recordingId' = r
  /\ UNCHANGED <<segments, editMode, pendingEdits, editing>>

Enter(c, r) == recordingId = None /\ LoadTranscript(c, r)
Retry(c) == recordingId # None /\ Failure /\ LoadTranscript(c, recordingId)

Answered(c) == call[c] # None /\ call' = [call EXCEPT ![c] = None]

\* Mutant: a transcript that arrives starts with no edits.
LoadedAfresh(c) ==
  /\ Answered(c)
  /\ segments' \in {NoSegments} \cup {Text(call[c], n) : n \in 1..MaxSegments}
  /\ isLoading' = FALSE
  /\ pendingEdits' = NoEdits
  /\ UNCHANGED <<recordingId, editMode, error, editing>>

\* Of any length, also empty.
Loaded(c) ==
  /\ Answered(c)
  /\ segments' \in {NoSegments} \cup {Text(call[c], n) : n \in 1..MaxSegments}
  /\ isLoading' = FALSE
  /\ UNCHANGED <<recordingId, editMode, pendingEdits, error, editing>>

\* Mutant: a failed load goes on loading.
LoadFailsLoading(c) ==
  /\ Answered(c)
  /\ error' = TRUE
  /\ UNCHANGED <<recordingId, segments, editMode, pendingEdits, isLoading, editing>>

LoadFails(c) ==
  /\ Answered(c)
  /\ isLoading' = FALSE /\ error' = TRUE
  /\ UNCHANGED <<recordingId, segments, editMode, pendingEdits, editing>>

\* toggleEditMode, called by the tab of edited text when the mode is off.
EditedTab ==
  /\ Visible
  /\ editing' = TRUE /\ editMode' = TRUE
  /\ UNCHANGED <<recordingId, segments, pendingEdits, isLoading, error, call>>

OriginalTab ==
  /\ Visible
  /\ editing' = FALSE
  /\ UNCHANGED <<store, call>>

EditSegment(g) ==
  /\ Visible /\ editing /\ Present(g)
  /\ pendingEdits' = [pendingEdits EXCEPT ![g] = recordingId]
  /\ UNCHANGED <<recordingId, segments, editMode, isLoading, error, editing, call>>

\* Mutant: segments without an edit are given none.
UpdatedAll == IF segments = NoSegments THEN NoSegments ELSE [segments EXCEPT !.text = pendingEdits]

\* An edit of a segment that is not there is not written.
Updated == [segments EXCEPT !.text = [g \in Segments |->
              IF Present(g) /\ pendingEdits[g] # None THEN pendingEdits[g] ELSE @[g]]]

\* The error of an earlier call is not taken back.
SaveEdits ==
  /\ Visible /\ editing /\ pendingEdits # NoEdits
  /\ segments' = Updated
  /\ pendingEdits' = NoEdits /\ editMode' = FALSE /\ isLoading' = FALSE
  /\ UNCHANGED <<recordingId, error, editing, call>>

\* Mutant: the edits are not reset.
LeaveKeepingEdits ==
  /\ recordingId # None
  /\ recordingId' = None /\ segments' = NoSegments /\ editMode' = FALSE
  /\ isLoading' = FALSE /\ error' = FALSE
  /\ editing' = FALSE
  /\ UNCHANGED <<pendingEdits, call>>

\* The screen is left and resets the store; calls under way go on.
Leave ==
  /\ recordingId # None
  /\ Initial
  /\ editing' = FALSE
  /\ UNCHANGED call

-----------------------------------------------------------------------------
CallStep(c) == Loaded(c) \/ LoadFails(c)

Next ==
  \/ \E c \in Calls : CallStep(c) \/ Retry(c) \/ \E r \in Recordings : Enter(c, r)
  \/ EditedTab \/ OriginalTab \/ SaveEdits \/ Leave
  \/ \E g \in Segments : EditSegment(g)

Spec == Init /\ [][Next]_vars

\* Every call is answered or fails.
FairSpec == Spec /\ \A c \in Calls : WF_vars(CallStep(c))

-----------------------------------------------------------------------------
(* Properties.                                                              *)

TypeOK ==
  /\ recordingId \in Recordings \cup {None}
  /\ segments \in [of : Recordings \cup {None}, text : [Segments -> Recordings \cup {"server", None}]]
  /\ \A g, h \in Segments : g < h /\ Present(h) => Present(g)
  /\ editMode \in BOOLEAN /\ isLoading \in BOOLEAN /\ error \in BOOLEAN /\ editing \in BOOLEAN
  /\ pendingEdits \in [Segments -> Recordings \cup {None}]
  /\ call \in [Calls -> Recordings \cup {None}]

\* The overlay that blocks the screen belongs to a call that has yet to be answered, whichever
\* calls of screens left before were answered meanwhile.
LoadingHasCall == isLoading => \E c \in Calls : call[c] # None

\* A text that was typed for one recording is neither pending nor saved under another.
EditsStayWithRecording ==
  \A g \in Segments : /\ pendingEdits[g] \in {None, recordingId}
                      /\ segments.text[g] \in {None, "server", recordingId}

\* What the user has typed leaves the pending edits only into the text of the transcript or with
\* the screen: no answer that arrives late, also one for another recording, takes it back.  The
\* exception is what the code does when the segment is not there at the time of saving, because a
\* late answer brought a shorter transcript: saveEdits then drops its edit with the others.
EditsLeaveSaved ==
  [][\A g \in Segments : pendingEdits[g] # None =>
       \/ pendingEdits'[g] = pendingEdits[g]
       \/ segments'.text[g] = pendingEdits[g]
       \/ recordingId' = None
       \/ ~Present(g) /\ pendingEdits' = NoEdits /\ UNCHANGED call]_vars

\* The overlay goes away.
LoadingEnds == isLoading ~> ~isLoading
=============================================================================
