-------------------------- MODULE UploadOutboxProofs --------------------------
(***************************************************************************)
(* UploadService implements UploadOutbox: each of its steps is a step of   *)
(* the outbox or leaves it unchanged.                                      *)
(***************************************************************************)
EXTENDS UploadServiceProofs

\* The phases that the statuses stand for.
LEMMA PhaseValues ==
  /\ PhaseOf("absent") = "absent" /\ PhaseOf("failed") = "failed" /\ PhaseOf("done") = "delivered"
  /\ \A s \in {"pending", "retrying", "uploading", "completing"} : PhaseOf(s) = "waiting"
BY DEF PhaseOf

\* Changing one status moves that row of the outbox and no other.
LEMMA PhaseMoves ==
  ASSUME status \in [Items -> Status], NEW i \in Items, NEW s \in Status,
         status' = [status EXCEPT ![i] = s]
  PROVE  phase' = [phase EXCEPT ![i] = PhaseOf(s)]
BY DEF phase

\* Completing one more session archives its recording and no other.
LEMMA ArchiveGrows ==
  ASSUME NEW C, NEW i \in Items, NEW s \in {RecordingOf[i]} \X SessionIds
  PROVE  ArchiveOf(C \cup {s}) = ArchiveOf(C) \cup {RecordingOf[i]}
<1>1. PICK n \in SessionIds : s = <<RecordingOf[i], n>>
  OBVIOUS
<1>2. RecordingOf[i] \in Recordings
  BY RecordingsAssumption
<1> QED BY <1>1, <1>2 DEF ArchiveOf

\* The service starts as an empty outbox.
LEMMA OutboxInit == Init => Outbox!Init
BY DEF Init, Outbox!Init, phase, archive, PhaseOf, ArchiveOf

\* Reporting the completion of a sent row, answered or not, is at most the server accepting it.
LEMMA CompletionAccepts ==
  ASSUME DeliveryInv, NEW i \in Items, status[i] \in Sent, session[i] \in Sessions,
         status' = status, NEW R \in SUBSET {session[i]}, completed' = completed \cup R
  PROVE  [Outbox!Next]_(Outbox!vars)
<1>1. phase' = phase
  BY DEF phase
<1>2. session[i] \in {RecordingOf[i]} \X SessionIds
  BY SessionsAssumption DEF DeliveryInv, TypeOK
<1>3. CASE completed' = completed
  BY <1>1, <1>3 DEF archive, Outbox!vars
<1>4. CASE R = {session[i]} /\ session[i] \notin completed
  <2>1. archive' = archive \cup {RecordingOf[i]}
    BY <1>2, <1>4, ArchiveGrows DEF archive
  <2>2. phase[i] = "waiting"
    BY <1>4, PhaseValues DEF phase, Sent, DeliveryInv, RowData
  <2> QED BY <1>1, <2>1, <2>2 DEF Outbox!Next, Outbox!Accept
<1> QED
  BY <1>3, <1>4

\* Writing status done delivers the row, or changes nothing if the other writer was first.
LEMMA DoneDelivers ==
  ASSUME DeliveryInv, NEW i \in Items, status[i] \in Sent, session[i] \in completed,
         status' = [status EXCEPT ![i] = "done"], completed' = completed
  PROVE  [Outbox!Next]_(Outbox!vars)
<1>1. phase' = [phase EXCEPT ![i] = "delivered"]
  BY PhaseMoves, PhaseValues DEF DeliveryInv, TypeOK, Status
<1>2. archive' = archive
  BY DEF archive
<1>3. CASE status[i] = "done"
  <2>1. phase[i] = "delivered" BY <1>3, PhaseValues DEF phase
  <2> QED BY <1>1, <1>2, <2>1 DEF phase, Outbox!vars
<1>4. CASE status[i] = "completing"
  <2>1. phase[i] = "waiting" BY <1>4, PhaseValues DEF phase
  <2>2. RecordingOf[i] \in archive
    <3>1. session[i] \in {RecordingOf[i]} \X SessionIds
      BY <1>4, SessionsAssumption DEF DeliveryInv, TypeOK, RowData, Sent
    <3>2. PICK n \in SessionIds : session[i] = <<RecordingOf[i], n>>
      BY <3>1
    <3> QED BY <3>2, RecordingsAssumption DEF archive, ArchiveOf
  <2> QED BY <1>1, <1>2, <2>1, <2>2 DEF Outbox!Next, Outbox!Deliver, Outbox!Move
<1> QED
  BY <1>3, <1>4 DEF Sent

\* A waiting row whose status becomes failed is given up.
LEMMA FailureGivesUp ==
  ASSUME DeliveryInv, NEW i \in Items, status[i] \in {"pending", "retrying", "uploading"},
         status' = [status EXCEPT ![i] = "failed"], completed' = completed
  PROVE  Outbox!Next
<1>1. phase' = [phase EXCEPT ![i] = "failed"]
  BY PhaseMoves, PhaseValues DEF DeliveryInv, TypeOK, Status
<1>2. phase[i] = "waiting" /\ archive' = archive
  BY PhaseValues DEF phase, archive
<1> QED
  BY <1>1, <1>2 DEF Outbox!Next, Outbox!GiveUp, Outbox!Move

\* A waiting row that goes on waiting is no step of the outbox.
LEMMA WaitingStays ==
  ASSUME DeliveryInv, NEW i \in Items, NEW s \in {"pending", "retrying", "uploading", "completing"},
         status[i] \in {"pending", "retrying", "uploading"},
         status' = [status EXCEPT ![i] = s], completed' = completed
  PROVE  UNCHANGED Outbox!vars
<1>1. phase' = [phase EXCEPT ![i] = "waiting"]
  BY PhaseMoves, PhaseValues DEF DeliveryInv, TypeOK, Status
<1>2. phase[i] = "waiting" /\ archive' = archive
  BY PhaseValues DEF phase, archive
<1> QED
  BY <1>1, <1>2 DEF phase, Outbox!vars

\* A step that changes neither statuses nor completed sessions leaves the outbox as it is.
LEMMA SameOutbox ==
  ASSUME status' = status, completed' = completed
  PROVE  UNCHANGED Outbox!vars
BY DEF phase, archive, Outbox!vars

\* The completion requests that a crash leaves on the wire may all arrive: the server accepts at once.
LEMMA CrashAccepts ==
  ASSUME DeliveryInv, Crash
  PROVE  [Outbox!Next]_(Outbox!vars)
<1> DEFINE InFlight == {j \in Items : worker[j] = "complete"
                                     \/ \E d \in Drains : drainPc[d] = "complete" /\ drainItem[d] = j}
<1>1. PICK reached \in SUBSET {session[i] : i \in InFlight} : completed' = completed \cup reached
  BY DEF Crash
<1>2. \A j \in InFlight : status[j] \in Sent /\ session[j] \in {RecordingOf[j]} \X SessionIds
  BY SessionsAssumption DEF DeliveryInv, TypeOK, WorkerOwnsRow, DrainData, RowData, Sent
<1>3. phase' = phase
  BY DEF Crash, queue, phase
<1> DEFINE landed == {j \in InFlight : session[j] \in reached /\ status[j] = "completing"}
           R == {RecordingOf[j] : j \in landed}
<1>4. completed' = completed \cup {session[j] : j \in landed}
  BY <1>1, <1>2 DEF DeliveryInv, RowData, Sent
<1>5. archive' = archive \cup R
  <2>1. ASSUME NEW r \in Recordings, r \in archive' PROVE r \in archive \cup R
    <3>1. PICK n \in SessionIds : <<r, n>> \in completed'
      BY <2>1 DEF archive, ArchiveOf
    <3>2. CASE <<r, n>> \in completed
      BY <3>2 DEF archive, ArchiveOf
    <3>3. ASSUME NEW j \in landed, <<r, n>> = session[j] PROVE r \in R
      <4>1. <<r, n>> \in {RecordingOf[j]} \X SessionIds
        BY <1>2, <3>3
      <4>2. r = RecordingOf[j]
        BY <4>1
      <4> QED BY <4>2
    <3> QED BY <1>4, <3>1, <3>2, <3>3
  <2>2. archive \subseteq archive'
    BY <1>4 DEF archive, ArchiveOf
  <2>3. ASSUME NEW j \in landed PROVE RecordingOf[j] \in archive'
    <3>1. PICK n \in SessionIds : session[j] = <<RecordingOf[j], n>>
      BY <1>2
    <3>2. RecordingOf[j] \in Recordings
      BY RecordingsAssumption
    <3> QED BY <1>4, <3>1, <3>2 DEF archive, ArchiveOf
  <2>4. archive' \subseteq Recordings
    BY DEF archive, ArchiveOf
  <2> QED BY <2>1, <2>2, <2>3, <2>4
<1>6. R \in SUBSET {RecordingOf[i] : i \in {j \in Items : phase[j] = "waiting"}}
  BY PhaseValues DEF phase
<1> QED
  BY <1>3, <1>5, <1>6 DEF Outbox!Next, Outbox!Accept

\* Every step of the service is a step of the outbox or leaves it unchanged.
LEMMA OutboxStep == DeliveryInv /\ [Next]_vars => [Outbox!Next]_(Outbox!vars)
<1> DEFINE Goal == [Outbox!Next]_(Outbox!vars)
<1> SUFFICES ASSUME DeliveryInv, [Next]_vars PROVE Goal
  OBVIOUS
<1> USE DEF queue, external, transfers
<1>1. ASSUME NEW d \in Drains, DrainStep(d) PROVE Goal
  <2>1. CASE FetchCompleting(d) BY <2>1, SameOutbox DEF FetchCompleting
  <2>2. CASE RecoverNext(d) BY <2>2, SameOutbox DEF RecoverNext
  <2>3. CASE RecoverEnd(d) BY <2>3, SameOutbox DEF RecoverEnd
  <2>4. CASE DrainAnswered(d)
    BY <2>4, DrainHoldsSession, CompletionAccepts DEF DrainAnswered, Answered, DeliveryInv, DrainData
  <2>5. CASE DrainUnanswered(d)
    BY <2>5, DrainHoldsSession, CompletionAccepts DEF DrainUnanswered, Unanswered, DeliveryInv, DrainData
  <2>6. CASE DrainWriteDone(d)
    BY <2>6, DoneDelivers DEF DrainWriteDone, WriteDone, SetStatus, DeliveryInv, DrainData
  <2>7. CASE DrainRequestStt(d) BY <2>7, SameOutbox DEF DrainRequestStt
  <2>8. CASE FetchReady(d) BY <2>8, SameOutbox DEF FetchReady
  <2>9. CASE StartWorker(d) BY <2>9, SameOutbox DEF StartWorker
  <2>10. CASE NothingReady(d) BY <2>10, SameOutbox DEF NothingReady
  <2>11. CASE LeaveDrain(d) BY <2>11, SameOutbox DEF LeaveDrain
  <2> QED BY <1>1, <2>1, <2>2, <2>3, <2>4, <2>5, <2>6, <2>7, <2>8, <2>9, <2>10, <2>11 DEF DrainStep
<1>2. ASSUME NEW i \in Items, WorkerStep(i) PROVE Goal
  <2>1. CASE Start(i) BY <2>1, SameOutbox, FailureGivesUp DEF Start, SetStatus, DeliveryInv, WorkerOwnsRow
  <2>2. CASE Presigned(i) BY <2>2, SameOutbox DEF Presigned
  <2>3. CASE PresignFailed(i) BY <2>3, FailureGivesUp DEF PresignFailed, SetStatus, DeliveryInv, WorkerOwnsRow
  <2>4. CASE MarkUploading(i) BY <2>4, WaitingStays DEF MarkUploading, SetStatus, DeliveryInv, WorkerOwnsRow
  <2>5. CASE TransferProgress(i) BY <2>5, SameOutbox DEF TransferProgress
  <2>6. CASE TransferCompleted(i) BY <2>6, WaitingStays DEF TransferCompleted, SetStatus, DeliveryInv, WorkerOwnsRow
  <2>7. CASE TransferFailed(i)
    BY <2>7, WaitingStays, FailureGivesUp DEF TransferFailed, AfterFailure, SetStatus, DeliveryInv, WorkerOwnsRow
  <2>8. CASE WorkerAnswered(i)
    BY <2>8, WorkerHoldsSession, CompletionAccepts DEF WorkerAnswered, Answered, DeliveryInv, WorkerOwnsRow, Sent
  <2>9. CASE WorkerUnanswered(i)
    BY <2>9, WorkerHoldsSession, CompletionAccepts DEF WorkerUnanswered, Unanswered, DeliveryInv, WorkerOwnsRow, Sent
  <2>10. CASE WorkerWriteDone(i)
    BY <2>10, DoneDelivers DEF WorkerWriteDone, WriteDone, SetStatus, DeliveryInv, WorkerOwnsRow, WorkerData, Sent
  <2>11. CASE WorkerRequestStt(i) BY <2>11, SameOutbox DEF WorkerRequestStt
  <2>12. CASE Finally(i) BY <2>12, SameOutbox DEF Finally
  <2> QED BY <1>2, <2>1, <2>2, <2>3, <2>4, <2>5, <2>6, <2>7, <2>8, <2>9, <2>10, <2>11, <2>12 DEF WorkerStep
<1>3. ASSUME NEW i \in Items, CallerStep(i) PROVE Goal
  <2>1. CASE Enqueue(i)
    <3>1. status[i] = "absent" /\ status' = [status EXCEPT ![i] = "pending"] /\ completed' = completed
      BY <2>1 DEF Enqueue, IsFirst, SetStatus, external, transfers
    <3>2. phase[i] = "absent" /\ phase' = [phase EXCEPT ![i] = "waiting"] /\ archive' = archive
      <4>1. phase' = [phase EXCEPT ![i] = "waiting"]
        BY <3>1, PhaseMoves, PhaseValues DEF DeliveryInv, TypeOK, Status
      <4> QED BY <4>1, <3>1, PhaseValues DEF phase, archive
    <3> QED BY <3>2 DEF Outbox!Next, Outbox!Submit, Outbox!Move
  <2>2. CASE RetryUpload(i)
    <3>1. status[i] = "failed" /\ status' = [status EXCEPT ![i] = "pending"] /\ completed' = completed
      BY <2>2 DEF RetryUpload, external, transfers
    <3>2. phase[i] = "failed" /\ phase' = [phase EXCEPT ![i] = "waiting"] /\ archive' = archive
      <4>1. phase' = [phase EXCEPT ![i] = "waiting"]
        BY <3>1, PhaseMoves, PhaseValues DEF DeliveryInv, TypeOK, Status
      <4> QED BY <4>1, <3>1, PhaseValues DEF phase, archive
    <3> QED BY <3>2 DEF Outbox!Next, Outbox!Resubmit, Outbox!Move
  <2>3. CASE Wake(i) BY <2>3, SameOutbox DEF Wake
  <2> QED BY <1>3, <2>1, <2>2, <2>3 DEF CallerStep
<1>4. ASSUME Environment PROVE Goal
  <2>1. CASE InitQueue BY <2>1, SameOutbox DEF InitQueue
  <2>2. CASE DestroyQueue BY <2>2, SameOutbox DEF DestroyQueue
  <2>3. CASE Reconnect BY <2>3, SameOutbox DEF Reconnect
  <2>4. CASE Crash BY <2>4, CrashAccepts
  <2>5. ASSUME NEW i \in Items, BackoffElapses(i) PROVE Goal BY <2>5, SameOutbox DEF BackoffElapses
  <2>6. ASSUME NEW s \in Sessions, UrlExpires(s) PROVE Goal BY <2>6, SameOutbox DEF UrlExpires
  <2> QED BY <1>4, <2>1, <2>2, <2>3, <2>4, <2>5, <2>6 DEF Environment
<1>5. CASE UNCHANGED vars
  BY <1>5, SameOutbox DEF vars
<1> QED
  BY <1>1, <1>2, <1>3, <1>4, <1>5 DEF Next

\* The upload service implements the outbox.
THEOREM ImplementsOutbox == Spec => OutboxSpec
<1> QED
  BY OutboxInit, OutboxStep, DeliveryInvariant, PTL DEF Spec, OutboxSpec, Outbox!Spec

\* What the app shows as delivered the server has archived: the promise of the outbox, kept by the
\* service in every reachable state.
THEOREM DeliveredIsArchivedHolds == Spec => []Outbox!DeliveredIsArchived
<1>1. DeliveryInv => Outbox!DeliveredIsArchived
  <2> SUFFICES ASSUME DeliveryInv, NEW i \in Items, phase[i] = "delivered"
               PROVE  RecordingOf[i] \in archive
    BY DEF Outbox!DeliveredIsArchived
  <2>1. status[i] = "done"
    BY PhaseValues DEF phase, DeliveryInv, TypeOK, Status
  <2>2. session[i] \in completed /\ session[i] \in {RecordingOf[i]} \X SessionIds
    BY <2>1 DEF DeliveryInv, RowData, TypeOK, Sent
  <2>3. PICK n \in SessionIds : session[i] = <<RecordingOf[i], n>>
    BY <2>2
  <2> QED
    BY <2>2, <2>3, RecordingsAssumption DEF archive, ArchiveOf
<1> QED
  BY <1>1, DeliveryInvariant, PTL
=============================================================================
