--------------------------- MODULE TranscriptProofs ---------------------------
(***************************************************************************)
(* Whichever answers to loads of transcripts arrive late: the overlay has  *)
(* its call, and no edit is lost to an answer or reaches another           *)
(* recording.  Proved for any number of recordings, segments and calls.    *)
(***************************************************************************)
EXTENDS Transcript, TLAPS

\* TypeOK is inductive; the only step that builds a new text is SaveEdits.
LEMMA TypeStep ==
  ASSUME TypeOK, [Next]_vars
  PROVE  TypeOK'
<1> USE DEF TypeOK, store, Present
<1>1. ASSUME NEW c \in Calls, NEW r \in Recordings, LoadTranscript(c, r)
      PROVE  TypeOK'
  BY <1>1 DEF LoadTranscript
<1>2. ASSUME NEW c \in Calls, Retry(c) PROVE TypeOK'
  BY <1>1, <1>2 DEF Retry
<1>3. ASSUME NEW c \in Calls, NEW r \in Recordings, Enter(c, r) PROVE TypeOK'
  BY <1>1, <1>3 DEF Enter
<1>4. ASSUME NEW c \in Calls, Loaded(c) PROVE TypeOK'
  <2>1. call[c] \in Recordings
    BY <1>4 DEF Loaded, Answered
  <2>2. ASSUME NEW n \in 1..MaxSegments, segments' = Text(call[c], n) PROVE TypeOK'
    <3>1. segments' = [of |-> call[c], text |-> [g \in Segments |-> IF g < n THEN "server" ELSE None]]
      BY <2>2 DEF Text
    <3>2. segments' \in [of : Recordings \cup {None}, text : [Segments -> Recordings \cup {"server", None}]]
      BY <2>1, <3>1
    <3>3. \A g \in Segments : segments'.text[g] # None <=> g < n
      BY <3>1 DEF None
    <3>4. \A g, h \in Segments : g < h /\ h < n => g < n
      BY MaxSegmentsAssumption DEF Segments
    <3> QED BY <1>4, <3>2, <3>3, <3>4 DEF Loaded, Answered
  <2>3. CASE segments' = NoSegments
    BY <1>4, <2>3 DEF Loaded, Answered, NoSegments, NoEdits
  <2> QED BY <1>4, <2>2, <2>3 DEF Loaded
<1>5. ASSUME NEW c \in Calls, LoadFails(c) PROVE TypeOK'
  BY <1>5 DEF LoadFails, Answered
<1>6. CASE EditedTab \/ OriginalTab
  BY <1>6 DEF EditedTab, OriginalTab
<1>7. ASSUME NEW g \in Segments, EditSegment(g) PROVE TypeOK'
  BY <1>7 DEF EditSegment, Visible
<1>8. CASE SaveEdits
  <2>1. /\ Updated \in [of : Recordings \cup {None}, text : [Segments -> Recordings \cup {"server", None}]]
        /\ \A g \in Segments : Updated.text[g] # None <=> Present(g)
    BY DEF Updated
  <2>2. NoEdits \in [Segments -> Recordings \cup {None}]
    BY DEF NoEdits
  <2> QED BY <1>8, <2>1, <2>2 DEF SaveEdits
<1>9. CASE Leave
  <2>1. NoEdits \in [Segments -> Recordings \cup {None}]
    BY DEF NoEdits
  <2> QED BY <1>9, <2>1 DEF Leave, Initial, NoSegments, NoEdits
<1>10. CASE UNCHANGED vars
  BY <1>10 DEF vars
<1> QED BY <1>2, <1>3, <1>4, <1>5, <1>6, <1>7, <1>8, <1>9, <1>10 DEF Next, CallStep

\* The state of the store and the calls keeps its types.
THEOREM Typed == Spec => []TypeOK
<1>1. ASSUME Init PROVE TypeOK
  <2>1. \A g \in Segments : ~Present(g)
    BY <1>1 DEF Init, NoSegments, NoEdits, Present
  <2> QED BY <1>1, <2>1 DEF Init, TypeOK, NoSegments, NoEdits
<1> QED BY <1>1, TypeStep, PTL DEF Spec

\* The overlay that blocks the screen belongs to a call that has yet to be answered.
THEOREM OverlayHasCall == Spec => []LoadingHasCall
<1>1. Init => LoadingHasCall
  BY DEF Init, LoadingHasCall
<1>2. ASSUME TypeOK, LoadingHasCall, [Next]_vars PROVE LoadingHasCall'
  <2> USE <1>2 DEF LoadingHasCall, TypeOK
  <2>1. ASSUME NEW c \in Calls, NEW r \in Recordings, LoadTranscript(c, r)
        PROVE  LoadingHasCall'
    <3>1. call'[c] = r /\ r # None
      BY <2>1, NoneAssumption DEF LoadTranscript
    <3> QED BY <3>1
  <2>2. ASSUME NEW c \in Calls, Retry(c) \/ \E r \in Recordings : Enter(c, r) PROVE LoadingHasCall'
    BY <2>1, <2>2 DEF Retry, Enter
  <2>3. ASSUME NEW c \in Calls, CallStep(c) PROVE LoadingHasCall'
    BY <2>3 DEF CallStep, Loaded, LoadFails
  <2>4. CASE EditedTab \/ OriginalTab \/ SaveEdits \/ Leave \/ \E g \in Segments : EditSegment(g)
    BY <2>4 DEF EditedTab, OriginalTab, SaveEdits, Leave, Initial, EditSegment, store
  <2>5. CASE UNCHANGED vars
    BY <2>5 DEF vars, store
  <2> QED BY <2>2, <2>3, <2>4, <2>5 DEF Next
<1> QED BY <1>1, <1>2, Typed, PTL DEF Spec

\* What was typed for one recording is neither pending nor saved under another.  The property is
\* inductive because the store holds no recording between two screens.
THEOREM EditsStay == Spec => []EditsStayWithRecording
<1> DEFINE Kept == \A g \in Segments : pendingEdits[g] \in {None, recordingId}
           Own == \A g \in Segments : segments.text[g] \in {None, "server", recordingId}
<1>1. Init => EditsStayWithRecording
  BY DEF Init, EditsStayWithRecording, NoSegments, NoEdits
<1>2. ASSUME TypeOK, EditsStayWithRecording, [Next]_vars PROVE EditsStayWithRecording'
  <2>0. Kept /\ Own
    BY <1>2 DEF EditsStayWithRecording
  <2> SUFFICES Kept' /\ Own'
    BY DEF EditsStayWithRecording
  <2>1. ASSUME NEW c \in Calls, CallStep(c) PROVE Kept' /\ Own'
    <3>1. /\ \/ segments' \in {segments, NoSegments}
             \/ \E n \in 1..MaxSegments : segments' = Text(call[c], n)
          /\ UNCHANGED <<pendingEdits, recordingId>>
      BY <2>1 DEF CallStep, Loaded, LoadFails
    <3> QED BY <2>0, <3>1 DEF Text, NoSegments, NoEdits
  <2>2. ASSUME NEW c \in Calls, Retry(c) \/ \E r \in Recordings : Enter(c, r) PROVE Kept' /\ Own'
    <3>1. UNCHANGED <<segments, pendingEdits>> /\ (recordingId' = recordingId \/ recordingId = None)
      BY <2>2 DEF Retry, Enter, LoadTranscript
    <3> QED BY <2>0, <3>1
  <2>3. CASE EditedTab \/ OriginalTab
    BY <2>0, <2>3 DEF EditedTab, OriginalTab, store
  <2>4. ASSUME NEW g \in Segments, EditSegment(g) PROVE Kept' /\ Own'
    BY <1>2, <2>0, <2>4 DEF EditSegment, TypeOK
  <2>5. CASE SaveEdits
    <3>1. pendingEdits' = NoEdits /\ recordingId' = recordingId /\ segments' = Updated
      BY <2>5 DEF SaveEdits
    <3>2. \A g \in Segments : Updated.text[g] \in {None, "server", recordingId}
      BY <1>2, <2>0 DEF Updated, NoSegments, TypeOK
    <3> QED BY <3>1, <3>2 DEF NoEdits
  <2>6. CASE Leave
    BY <2>6 DEF Leave, Initial, NoSegments, NoEdits
  <2>7. CASE UNCHANGED vars
    BY <2>0, <2>7 DEF vars, store
  <2> QED BY <1>2, <2>1, <2>2, <2>3, <2>4, <2>5, <2>6, <2>7 DEF Next
<1> QED BY <1>1, <1>2, Typed, PTL DEF Spec

\* An edit leaves the pending ones only saved or with the screen.  Typing again into a segment
\* keeps its edit because the edits are those of the recording shown.
THEOREM EditsSurvive == Spec => EditsLeaveSaved
<1> DEFINE Stays(g) == \/ pendingEdits'[g] = pendingEdits[g]
                       \/ segments'.text[g] = pendingEdits[g]
                       \/ recordingId' = None
                       \/ ~Present(g) /\ pendingEdits' = NoEdits /\ UNCHANGED call
<1>1. ASSUME TypeOK, EditsStayWithRecording, [Next]_vars, NEW g \in Segments, pendingEdits[g] # None
      PROVE  Stays(g)
  <2>1. CASE \E c \in Calls : CallStep(c) \/ Retry(c) \/ \E r \in Recordings : Enter(c, r)
    BY <2>1 DEF CallStep, Loaded, LoadFails, Retry, Enter, LoadTranscript
  <2>2. CASE EditedTab \/ OriginalTab \/ Leave
    BY <2>2 DEF EditedTab, OriginalTab, store, Leave, Initial
  <2>3. ASSUME NEW h \in Segments, EditSegment(h) PROVE Stays(g)
    <3>1. pendingEdits[g] = recordingId
      BY <1>1 DEF EditsStayWithRecording
    <3> QED BY <1>1, <2>3, <3>1 DEF EditSegment, TypeOK
  <2>4. CASE SaveEdits
    <3>1. segments' = Updated /\ pendingEdits' = NoEdits /\ call' = call
      BY <2>4 DEF SaveEdits
    <3>2. Present(g) => Updated.text[g] = pendingEdits[g]
      BY <1>1 DEF Updated, TypeOK
    <3> QED BY <3>1, <3>2
  <2>5. CASE UNCHANGED vars
    BY <2>5 DEF vars, store
  <2> QED BY <1>1, <2>1, <2>2, <2>3, <2>4, <2>5 DEF Next
<1>2. TypeOK /\ EditsStayWithRecording /\ [Next]_vars =>
        [\A g \in Segments : pendingEdits[g] # None => Stays(g)]_vars
  BY <1>1
<1> QED BY <1>2, Typed, EditsStay, PTL DEF Spec, EditsLeaveSaved
=============================================================================
