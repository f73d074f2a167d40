------------------------- MODULE UploadServiceProofs -------------------------
(***************************************************************************)
(* Proofs about UploadService.  Two inductive invariants carry them:       *)
(* DeliveryInv, what a row's status and a suspended function's position    *)
(* say of the session at the storage and at the server, and SlotInv, what  *)
(* isProcessing and activeUploadIds say of the drains and workers that     *)
(* run.  UploadingIsTransfer adds who is behind a row in uploading, from   *)
(* which the rows that kills strand can be counted.  A step lemma has one  *)
(* case per action or group of actions.                                    *)
(***************************************************************************)
EXTENDS UploadService, TLAPS, FiniteSetTheorems

\* A session the server hands out for a recording is a session.
LEMMA SessionOfRecording ==
  ASSUME NEW i \in Items, NEW s \in {RecordingOf[i]} \X SessionIds
  PROVE  s \in Sessions /\ s # NoSession
<1>1. RecordingOf[i] \in Recordings
  BY RecordingsAssumption
<1>2. PICK r \in {RecordingOf[i]}, n \in SessionIds : s = <<r, n>>
  OBVIOUS
<1>3. s \in Sessions
  BY <1>1, <1>2 DEF Sessions
<1> QED
  BY <1>3, SessionsAssumption

\* A drain that reports or has reported a completion (_handleCompleting) has a row with a session.
LEMMA DrainHoldsSession ==
  ASSUME DeliveryInv, NEW d \in Drains, drainPc[d] \in {"complete", "writeDone", "requestStt"}
  PROVE  drainItem[d] \in Items /\ session[drainItem[d]] \in Sessions
BY DEF DeliveryInv, TypeOK, DrainData, RowData, Sent

\* A worker past the write of status uploading (_processItem) has a row with a session.
LEMMA WorkerHoldsSession ==
  ASSUME DeliveryInv, NEW i \in Items, worker[i] \in {"transfer", "complete", "writeDone", "requestStt"}
  PROVE  session[i] \in Sessions
BY DEF DeliveryInv, TypeOK, WorkerOwnsRow, RowData, Sent

\* An installation that never ran satisfies the invariant of delivery.
LEMMA DeliveryInit == Init => DeliveryInv
<1> USE ItemsAssumption, RecordingsAssumption, SessionsAssumption, LimitsAssumption
<1> SUFFICES ASSUME Init PROVE DeliveryInv
  OBVIOUS
<1>1. TypeOK
  <2>1. status \in [Items -> Status] /\ attempts \in [Items -> 0..(MAX_UPLOAD_ATTEMPTS - 1)]
    BY DEF Init, Status
  <2>2. due \in [Items -> BOOLEAN] /\ session \in [Items -> Sessions \cup {NoSession}]
    BY DEF Init
  <2>3. drainPc \in [Drains -> DrainPc] /\ drainRows \in [Drains -> SUBSET Items]
        /\ drainItem \in [Drains -> Items \cup {0}] /\ worker \in [Items -> WorkerPc]
    BY DEF Init, DrainPc, WorkerPc
  <2>4. 0 \in 0..MaxCrashes /\ 0 \in 0..MaxResubmits
    OBVIOUS
  <2>5. \A i \in Items : session[i] \in ({RecordingOf[i]} \X SessionIds) \cup {NoSession}
    BY DEF Init
  <2> QED BY <2>1, <2>2, <2>3, <2>4, <2>5 DEF Init, TypeOK
<1>2. RowData /\ WorkerOwnsRow /\ WorkerData /\ DrainData
  BY DEF Init, RowData, WorkerOwnsRow, WorkerData, DrainData, Sent
<1>3. SttOnlyAfterUpload /\ ProgressOnlyInTransfer
  BY DEF Init, SttOnlyAfterUpload, ProgressOnlyInTransfer
<1> QED
  BY <1>1, <1>2, <1>3 DEF DeliveryInv

\* Every step leaves every variable in its type; the sessions written by _processItem are the
\* recording's own, and attempts stays below its limit.
LEMMA TypeStep == DeliveryInv /\ [Next]_vars => TypeOK'
<1> USE ItemsAssumption, RecordingsAssumption, SessionsAssumption, LimitsAssumption
<1> SUFFICES ASSUME DeliveryInv, [Next]_vars PROVE TypeOK'
  OBVIOUS
<1> USE DEF DeliveryInv, TypeOK, Status, DrainPc, WorkerPc, store, external, transfers, counters, queue, drain
<1>1. ASSUME NEW d \in Drains, DrainStep(d) PROVE TypeOK'
  <2>1. CASE FetchCompleting(d) BY <2>1 DEF FetchCompleting, DrainGoto
  <2>2. CASE RecoverNext(d) BY <2>2 DEF RecoverNext, DrainGoto
  <2>3. CASE RecoverEnd(d) BY <2>3 DEF RecoverEnd, DrainGoto, NextSlot
  <2>4. CASE DrainAnswered(d) BY <2>4, DrainHoldsSession DEF DrainAnswered, DrainTo, Answered
  <2>5. CASE DrainUnanswered(d) BY <2>5, DrainHoldsSession DEF DrainUnanswered, DrainTo, Unanswered
  <2>6. CASE DrainWriteDone(d) BY <2>6 DEF DrainWriteDone, DrainTo, WriteDone, SetStatus
  <2>7. CASE DrainRequestStt(d) 
    <3>1. RecordingOf[drainItem[d]] \in Recordings BY <2>7, DrainHoldsSession DEF DrainRequestStt
    <3>2. stt' \subseteq Recordings BY <2>7, <3>1 DEF DrainRequestStt, RequestSTTIfConsented
    <3> QED BY <2>7, <3>2 DEF DrainRequestStt, DrainTo
  <2>8. CASE FetchReady(d) BY <2>8 DEF FetchReady, DrainGoto
  <2>9. CASE StartWorker(d) BY <2>9 DEF StartWorker, DrainGoto, NextSlot
  <2>10. CASE NothingReady(d) BY <2>10 DEF NothingReady, DrainGoto
  <2>11. CASE LeaveDrain(d) BY <2>11 DEF LeaveDrain, DrainGoto
  <2> QED BY <1>1, <2>1, <2>2, <2>3, <2>4, <2>5, <2>6, <2>7, <2>8, <2>9, <2>10, <2>11 DEF DrainStep
<1>2. ASSUME NEW i \in Items, WorkerStep(i) PROVE TypeOK'
  <2>1. CASE Start(i) BY <2>1 DEF Start, Goto, SetStatus
  <2>2. CASE Presigned(i) BY <2>2 DEF Presigned, Goto, Sessions
  <2>3. CASE PresignFailed(i) BY <2>3 DEF PresignFailed, Goto, SetStatus
  <2>4. CASE MarkUploading(i) BY <2>4 DEF MarkUploading, Goto, SetStatus
  <2>5. CASE TransferProgress(i) BY <2>5 DEF TransferProgress
  <2>6. CASE TransferCompleted(i) BY <2>6 DEF TransferCompleted, Goto, SetStatus, WorkerOwnsRow, RowData
  <2>7. CASE TransferFailed(i) 
    <3>1. status' \in [Items -> Status] /\ attempts' \in [Items -> 0..(MAX_UPLOAD_ATTEMPTS - 1)]
          /\ due' \in [Items -> BOOLEAN] /\ session' = session
      <4>1. CASE attempts[i] + 1 >= MAX_UPLOAD_ATTEMPTS
        <5>1. SetStatus(i, "failed") BY <2>7, <4>1 DEF TransferFailed, AfterFailure
        <5> QED BY <5>1 DEF SetStatus
      <4>2. CASE ~(attempts[i] + 1 >= MAX_UPLOAD_ATTEMPTS)
        <5>1. /\ status' = [status EXCEPT ![i] = "retrying"]
              /\ attempts' = [attempts EXCEPT ![i] = attempts[i] + 1]
              /\ due' = [due EXCEPT ![i] = FALSE] /\ session' = session
          BY <2>7, <4>2 DEF TransferFailed, AfterFailure
        <5>2. attempts[i] \in 0..(MAX_UPLOAD_ATTEMPTS - 1)
          OBVIOUS
        <5>3. attempts[i] + 1 \in 0..(MAX_UPLOAD_ATTEMPTS - 1)
          BY <4>2, <5>2
        <5> QED BY <5>1, <5>3
      <4> QED BY <4>1, <4>2
    <3> QED BY <2>7, <3>1 DEF TransferFailed, Goto
  <2>8. CASE WorkerAnswered(i) BY <2>8 DEF WorkerAnswered, Goto, Answered, WorkerOwnsRow, RowData, Sent
  <2>9. CASE WorkerUnanswered(i) BY <2>9 DEF WorkerUnanswered, Goto, Unanswered, WorkerOwnsRow, RowData, Sent
  <2>10. CASE WorkerWriteDone(i) BY <2>10 DEF WorkerWriteDone, Goto, WriteDone, SetStatus
  <2>11. CASE WorkerRequestStt(i) BY <2>11 DEF WorkerRequestStt, Goto, RequestSTTIfConsented
  <2>12. CASE Finally(i) BY <2>12 DEF Finally, Goto, ProcessQueue, DrainTo
  <2> QED BY <1>2, <2>1, <2>2, <2>3, <2>4, <2>5, <2>6, <2>7, <2>8, <2>9, <2>10, <2>11, <2>12 DEF WorkerStep
<1>3. ASSUME NEW i \in Items, CallerStep(i) PROVE TypeOK'
  <2>1. CASE Enqueue(i) BY <2>1 DEF Enqueue, SetStatus
  <2>2. CASE RetryUpload(i) BY <2>2 DEF RetryUpload
  <2>3. CASE Wake(i) BY <2>3 DEF Wake, ProcessQueue, DrainTo
  <2> QED BY <1>3, <2>1, <2>2, <2>3 DEF CallerStep
<1>4. ASSUME Environment PROVE TypeOK'
  <2>1. CASE InitQueue BY <2>1 DEF InitQueue, ProcessQueue, DrainTo
  <2>2. CASE DestroyQueue BY <2>2 DEF DestroyQueue
  <2>3. CASE Reconnect BY <2>3 DEF Reconnect, ProcessQueue, DrainTo
  <2>4. CASE Crash 
    <3>1. completed' \subseteq Sessions
      <4>1. \A j \in Items : worker[j] = "complete" => session[j] \in Sessions
        BY WorkerHoldsSession
      <4>2. \A d \in Drains : drainPc[d] = "complete" => session[drainItem[d]] \in Sessions
        BY DrainHoldsSession
      <4> QED BY <2>4, <4>1, <4>2 DEF Crash
    <3>2. drainPc' \in [Drains -> DrainPc] /\ drainRows' \in [Drains -> SUBSET Items]
          /\ drainItem' \in [Drains -> Items \cup {0}] /\ worker' \in [Items -> WorkerPc]
      BY <2>4 DEF Crash
    <3>3. crashes' \in 0..MaxCrashes
      BY <2>4 DEF Crash
    <3>4. /\ isProcessing' \in BOOLEAN /\ activeUploadIds' \subseteq Recordings
          /\ validUrls' \subseteq Sessions /\ progressMap' \subseteq Recordings
          /\ listening' \in BOOLEAN /\ waking' \subseteq Items
          /\ UNCHANGED <<queue, transfers, stt, resubmits>>
      BY <2>4 DEF Crash
    <3> QED BY <3>1, <3>2, <3>3, <3>4
  <2>5. ASSUME NEW i \in Items, BackoffElapses(i) PROVE TypeOK' BY <2>5 DEF BackoffElapses
  <2>6. ASSUME NEW s \in Sessions, UrlExpires(s) PROVE TypeOK' BY <2>6 DEF UrlExpires
  <2> QED BY <1>4, <2>1, <2>2, <2>3, <2>4, <2>5, <2>6 DEF Environment
<1>5. CASE UNCHANGED vars
  BY <1>5 DEF vars
<1> QED
  BY <1>1, <1>2, <1>3, <1>4, <1>5 DEF Next

\* Every step keeps what status says of the session, and nobody but the worker moves a row that
\* a worker is processing.
LEMMA RowStep == DeliveryInv /\ [Next]_vars => RowData' /\ WorkerOwnsRow' /\ WorkerData'
<1> DEFINE Goal == RowData /\ WorkerOwnsRow /\ WorkerData
<1> SUFFICES ASSUME DeliveryInv, [Next]_vars PROVE Goal'
  OBVIOUS
<1> USE SessionsAssumption DEF DeliveryInv, TypeOK, RowData, WorkerOwnsRow, WorkerData, DrainData, Sent,
       store, external, transfers, counters, queue, drain
<1>1. ASSUME NEW d \in Drains, DrainStep(d) PROVE Goal'
  <2>1. CASE FetchCompleting(d) BY <2>1 DEF FetchCompleting, DrainGoto
  <2>2. CASE RecoverNext(d) BY <2>2 DEF RecoverNext, DrainGoto, CanComplete
  <2>3. CASE RecoverEnd(d) BY <2>3 DEF RecoverEnd, DrainGoto, NextSlot
  <2>4. CASE DrainAnswered(d) BY <2>4 DEF DrainAnswered, DrainTo, Answered
  <2>5. CASE DrainUnanswered(d) BY <2>5 DEF DrainUnanswered, DrainTo, Unanswered
  <2>6. CASE DrainWriteDone(d) BY <2>6 DEF DrainWriteDone, DrainTo, WriteDone, SetStatus
  <2>7. CASE DrainRequestStt(d) BY <2>7 DEF DrainRequestStt, DrainTo, RequestSTTIfConsented
  <2>8. CASE FetchReady(d) BY <2>8 DEF FetchReady, DrainGoto
  <2>9. CASE StartWorker(d) BY <2>9 DEF StartWorker, DrainGoto, NextSlot, IsFirst, Choosable, IsReady
  <2>10. CASE NothingReady(d) BY <2>10 DEF NothingReady, DrainGoto
  <2>11. CASE LeaveDrain(d) BY <2>11 DEF LeaveDrain, DrainGoto
  <2> QED BY <1>1, <2>1, <2>2, <2>3, <2>4, <2>5, <2>6, <2>7, <2>8, <2>9, <2>10, <2>11 DEF DrainStep
<1>2. ASSUME NEW i \in Items, WorkerStep(i) PROVE Goal'
  <2>1. CASE Start(i) BY <2>1 DEF Start, Goto, SetStatus, IsPresignedUrlValid
  <2>2. CASE Presigned(i)
    <3>1. PICK s \in {RecordingOf[i]} \X SessionIds : session' = [session EXCEPT ![i] = s]
      BY <2>2 DEF Presigned
    <3>2. s # NoSession
      BY <3>1, SessionOfRecording
    <3>3. status[i] \notin Sent \cup {"uploading"}
      BY <2>2 DEF Presigned
    <3> QED BY <2>2, <3>1, <3>2, <3>3 DEF Presigned, Goto
  <2>3. CASE PresignFailed(i) BY <2>3 DEF PresignFailed, Goto, SetStatus
  <2>4. CASE MarkUploading(i) BY <2>4 DEF MarkUploading, Goto, SetStatus
  <2>5. CASE TransferProgress(i) BY <2>5 DEF TransferProgress
  <2>6. CASE TransferCompleted(i) BY <2>6 DEF TransferCompleted, Goto, SetStatus
  <2>7. CASE TransferFailed(i) BY <2>7 DEF TransferFailed, Goto, SetStatus, AfterFailure
  <2>8. CASE WorkerAnswered(i) BY <2>8 DEF WorkerAnswered, Goto, Answered
  <2>9. CASE WorkerUnanswered(i) BY <2>9 DEF WorkerUnanswered, Goto, Unanswered
  <2>10. CASE WorkerWriteDone(i) BY <2>10 DEF WorkerWriteDone, Goto, WriteDone, SetStatus
  <2>11. CASE WorkerRequestStt(i) BY <2>11 DEF WorkerRequestStt, Goto, RequestSTTIfConsented
  <2>12. CASE Finally(i) BY <2>12 DEF Finally, Goto, ProcessQueue, DrainTo
  <2> QED BY <1>2, <2>1, <2>2, <2>3, <2>4, <2>5, <2>6, <2>7, <2>8, <2>9, <2>10, <2>11, <2>12 DEF WorkerStep
<1>3. ASSUME NEW i \in Items, CallerStep(i) PROVE Goal'
  <2>1. CASE Enqueue(i) BY <2>1 DEF Enqueue, SetStatus, IsFirst
  <2>2. CASE RetryUpload(i) BY <2>2 DEF RetryUpload
  <2>3. CASE Wake(i) BY <2>3 DEF Wake, ProcessQueue, DrainTo
  <2> QED BY <1>3, <2>1, <2>2, <2>3 DEF CallerStep
<1>4. ASSUME Environment PROVE Goal'
  <2>1. CASE InitQueue BY <2>1 DEF InitQueue, ProcessQueue, DrainTo
  <2>2. CASE DestroyQueue BY <2>2 DEF DestroyQueue
  <2>3. CASE Reconnect BY <2>3 DEF Reconnect, ProcessQueue, DrainTo
  <2>4. CASE Crash BY <2>4 DEF Crash
  <2>5. ASSUME NEW i \in Items, BackoffElapses(i) PROVE Goal' BY <2>5 DEF BackoffElapses
  <2>6. ASSUME NEW s \in Sessions, UrlExpires(s) PROVE Goal' BY <2>6 DEF UrlExpires
  <2> QED BY <1>4, <2>1, <2>2, <2>3, <2>4, <2>5, <2>6 DEF Environment
<1>5. CASE UNCHANGED vars
  BY <1>5 DEF vars
<1> QED
  BY <1>1, <1>2, <1>3, <1>4, <1>5 DEF Next

\* The rows a drain recovers stay sent behind its back, whatever workers and callers do.
LEMMA DrainDataStep == DeliveryInv /\ [Next]_vars => DrainData'
<1> SUFFICES ASSUME DeliveryInv, [Next]_vars PROVE DrainData'
  OBVIOUS
<1> USE SessionsAssumption DEF DeliveryInv, TypeOK, DrainPc, WorkerOwnsRow, DrainData, Sent,
       store, external, transfers, counters, queue, drain
<1>1. ASSUME NEW d \in Drains, DrainStep(d) PROVE DrainData'
  <2>1. CASE FetchCompleting(d) BY <2>1 DEF FetchCompleting, DrainGoto
  <2>2. CASE RecoverNext(d)
    <3>1. PICK i \in Items : /\ i \in drainRows[d]
                             /\ DrainGoto(d, IF CanComplete(i) THEN "complete" ELSE "recover",
                                          drainRows[d] \ {i}, i)
      BY <2>2 DEF RecoverNext, IsFirst
    <3>2. drainPc'[d] \in {"recover", "complete"} /\ drainItem'[d] = i /\ drainRows'[d] = drainRows[d] \ {i}
      BY <3>1 DEF DrainGoto
    <3>3. \A e \in Drains \ {d} : /\ drainPc'[e] = drainPc[e] /\ drainItem'[e] = drainItem[e]
                                  /\ drainRows'[e] = drainRows[e]
      BY <3>1 DEF DrainGoto
    <3>4. \A j \in drainRows[d] : status[j] \in Sent
      BY <2>2 DEF RecoverNext
    <3> QED BY <2>2, <3>1, <3>2, <3>3, <3>4 DEF RecoverNext
  <2>3. CASE RecoverEnd(d) BY <2>3 DEF RecoverEnd, DrainGoto, NextSlot
  <2>4. CASE DrainAnswered(d) BY <2>4 DEF DrainAnswered, DrainTo, Answered
  <2>5. CASE DrainUnanswered(d) BY <2>5 DEF DrainUnanswered, DrainTo, Unanswered
  <2>6. CASE DrainWriteDone(d) BY <2>6 DEF DrainWriteDone, DrainTo, WriteDone, SetStatus
  <2>7. CASE DrainRequestStt(d) BY <2>7 DEF DrainRequestStt, DrainTo, RequestSTTIfConsented
  <2>8. CASE FetchReady(d) BY <2>8 DEF FetchReady, DrainGoto
  <2>9. CASE StartWorker(d) BY <2>9 DEF StartWorker, DrainGoto, NextSlot, IsFirst, Choosable, IsReady
  <2>10. CASE NothingReady(d) BY <2>10 DEF NothingReady, DrainGoto
  <2>11. CASE LeaveDrain(d) BY <2>11 DEF LeaveDrain, DrainGoto
  <2> QED BY <1>1, <2>1, <2>2, <2>3, <2>4, <2>5, <2>6, <2>7, <2>8, <2>9, <2>10, <2>11 DEF DrainStep
<1>2. ASSUME NEW i \in Items, WorkerStep(i) PROVE DrainData'
  <2>1. CASE Start(i) BY <2>1 DEF Start, Goto, SetStatus, IsPresignedUrlValid
  <2>2. CASE Presigned(i) BY <2>2 DEF Presigned, Goto
  <2>3. CASE PresignFailed(i) BY <2>3 DEF PresignFailed, Goto, SetStatus
  <2>4. CASE MarkUploading(i) BY <2>4 DEF MarkUploading, Goto, SetStatus
  <2>5. CASE TransferProgress(i) BY <2>5 DEF TransferProgress
  <2>6. CASE TransferCompleted(i) BY <2>6 DEF TransferCompleted, Goto, SetStatus
  <2>7. CASE TransferFailed(i) BY <2>7 DEF TransferFailed, Goto, SetStatus, AfterFailure
  <2>8. CASE WorkerAnswered(i) BY <2>8 DEF WorkerAnswered, Goto, Answered
  <2>9. CASE WorkerUnanswered(i) BY <2>9 DEF WorkerUnanswered, Goto, Unanswered
  <2>10. CASE WorkerWriteDone(i) BY <2>10 DEF WorkerWriteDone, Goto, WriteDone, SetStatus
  <2>11. CASE WorkerRequestStt(i) BY <2>11 DEF WorkerRequestStt, Goto, RequestSTTIfConsented
  <2>12. CASE Finally(i) BY <2>12 DEF Finally, Goto, ProcessQueue, DrainTo
  <2> QED BY <1>2, <2>1, <2>2, <2>3, <2>4, <2>5, <2>6, <2>7, <2>8, <2>9, <2>10, <2>11, <2>12 DEF WorkerStep
<1>3. ASSUME NEW i \in Items, CallerStep(i) PROVE DrainData'
  <2>1. CASE Enqueue(i) BY <2>1 DEF Enqueue, SetStatus, IsFirst
  <2>2. CASE RetryUpload(i) BY <2>2 DEF RetryUpload
  <2>3. CASE Wake(i) BY <2>3 DEF Wake, ProcessQueue, DrainTo
  <2> QED BY <1>3, <2>1, <2>2, <2>3 DEF CallerStep
<1>4. ASSUME Environment PROVE DrainData'
  <2>1. CASE InitQueue BY <2>1 DEF InitQueue, ProcessQueue, DrainTo
  <2>2. CASE DestroyQueue BY <2>2 DEF DestroyQueue
  <2>3. CASE Reconnect BY <2>3 DEF Reconnect, ProcessQueue, DrainTo
  <2>4. CASE Crash BY <2>4 DEF Crash
  <2>5. ASSUME NEW i \in Items, BackoffElapses(i) PROVE DrainData' BY <2>5 DEF BackoffElapses
  <2>6. ASSUME NEW s \in Sessions, UrlExpires(s) PROVE DrainData' BY <2>6 DEF UrlExpires
  <2> QED BY <1>4, <2>1, <2>2, <2>3, <2>4, <2>5, <2>6 DEF Environment
<1>5. CASE UNCHANGED vars
  BY <1>5 DEF vars
<1> QED
  BY <1>1, <1>2, <1>3, <1>4, <1>5 DEF Next

\* Every step keeps a done row for each requested transcription and a transfer for each progress bar.
LEMMA WitnessStep == DeliveryInv /\ [Next]_vars => SttOnlyAfterUpload' /\ ProgressOnlyInTransfer'
<1> DEFINE Goal == SttOnlyAfterUpload /\ ProgressOnlyInTransfer
<1> SUFFICES ASSUME DeliveryInv, [Next]_vars PROVE Goal'
  OBVIOUS
<1> USE DEF DeliveryInv, TypeOK, WorkerOwnsRow, DrainData, Sent, SttOnlyAfterUpload, ProgressOnlyInTransfer,
       store, external, transfers, counters, queue, drain
<1>1. ASSUME NEW d \in Drains, DrainStep(d) PROVE Goal'
  <2>1. CASE FetchCompleting(d) BY <2>1 DEF FetchCompleting, DrainGoto
  <2>2. CASE RecoverNext(d) BY <2>2 DEF RecoverNext, DrainGoto, CanComplete
  <2>3. CASE RecoverEnd(d) BY <2>3 DEF RecoverEnd, DrainGoto, NextSlot
  <2>4. CASE DrainAnswered(d) BY <2>4 DEF DrainAnswered, DrainTo, Answered
  <2>5. CASE DrainUnanswered(d) BY <2>5 DEF DrainUnanswered, DrainTo, Unanswered
  <2>6. CASE DrainWriteDone(d) BY <2>6 DEF DrainWriteDone, DrainTo, WriteDone, SetStatus
  <2>7. CASE DrainRequestStt(d) BY <2>7 DEF DrainRequestStt, DrainTo, RequestSTTIfConsented
  <2>8. CASE FetchReady(d) BY <2>8 DEF FetchReady, DrainGoto
  <2>9. CASE StartWorker(d) BY <2>9 DEF StartWorker, DrainGoto, NextSlot, IsFirst, Choosable, IsReady
  <2>10. CASE NothingReady(d) BY <2>10 DEF NothingReady, DrainGoto
  <2>11. CASE LeaveDrain(d) BY <2>11 DEF LeaveDrain, DrainGoto
  <2> QED BY <1>1, <2>1, <2>2, <2>3, <2>4, <2>5, <2>6, <2>7, <2>8, <2>9, <2>10, <2>11 DEF DrainStep
<1>2. ASSUME NEW i \in Items, WorkerStep(i) PROVE Goal'
  <2>1. CASE Start(i) BY <2>1 DEF Start, Goto, SetStatus, IsPresignedUrlValid
  <2>2. CASE Presigned(i) BY <2>2 DEF Presigned, Goto
  <2>3. CASE PresignFailed(i) BY <2>3 DEF PresignFailed, Goto, SetStatus
  <2>4. CASE MarkUploading(i) BY <2>4 DEF MarkUploading, Goto, SetStatus
  <2>5. CASE TransferProgress(i) BY <2>5 DEF TransferProgress
  <2>6. CASE TransferCompleted(i) BY <2>6 DEF TransferCompleted, Goto, SetStatus
  <2>7. CASE TransferFailed(i) BY <2>7 DEF TransferFailed, Goto, SetStatus, AfterFailure
  <2>8. CASE WorkerAnswered(i) BY <2>8 DEF WorkerAnswered, Goto, Answered
  <2>9. CASE WorkerUnanswered(i) BY <2>9 DEF WorkerUnanswered, Goto, Unanswered
  <2>10. CASE WorkerWriteDone(i) BY <2>10 DEF WorkerWriteDone, Goto, WriteDone, SetStatus
  <2>11. CASE WorkerRequestStt(i) BY <2>11 DEF WorkerRequestStt, Goto, RequestSTTIfConsented
  <2>12. CASE Finally(i) BY <2>12 DEF Finally, Goto, ProcessQueue, DrainTo
  <2> QED BY <1>2, <2>1, <2>2, <2>3, <2>4, <2>5, <2>6, <2>7, <2>8, <2>9, <2>10, <2>11, <2>12 DEF WorkerStep
<1>3. ASSUME NEW i \in Items, CallerStep(i) PROVE Goal'
  <2>1. CASE Enqueue(i) BY <2>1 DEF Enqueue, SetStatus, IsFirst
  <2>2. CASE RetryUpload(i) BY <2>2 DEF RetryUpload
  <2>3. CASE Wake(i) BY <2>3 DEF Wake, ProcessQueue, DrainTo
  <2> QED BY <1>3, <2>1, <2>2, <2>3 DEF CallerStep
<1>4. ASSUME Environment PROVE Goal'
  <2>1. CASE InitQueue BY <2>1 DEF InitQueue, ProcessQueue, DrainTo
  <2>2. CASE DestroyQueue BY <2>2 DEF DestroyQueue
  <2>3. CASE Reconnect BY <2>3 DEF Reconnect, ProcessQueue, DrainTo
  <2>4. CASE Crash BY <2>4 DEF Crash
  <2>5. ASSUME NEW i \in Items, BackoffElapses(i) PROVE Goal' BY <2>5 DEF BackoffElapses
  <2>6. ASSUME NEW s \in Sessions, UrlExpires(s) PROVE Goal' BY <2>6 DEF UrlExpires
  <2> QED BY <1>4, <2>1, <2>2, <2>3, <2>4, <2>5, <2>6 DEF Environment
<1>5. CASE UNCHANGED vars
  BY <1>5 DEF vars
<1> QED
  BY <1>1, <1>2, <1>3, <1>4, <1>5 DEF Next

\* The invariant of delivery holds in every reachable state, whatever the numbers of rows, drains,
\* attempts, slots, crashes and resubmissions.
THEOREM DeliveryInvariant == Spec => []DeliveryInv
<1>1. DeliveryInv /\ [Next]_vars => DeliveryInv'
  BY TypeStep, RowStep, DrainDataStep, WitnessStep DEF DeliveryInv
<1> QED
  BY <1>1, DeliveryInit, PTL DEF Spec

\* At the start no drain runs and every slot is free.
LEMMA SlotInit == Init => SlotInv
<1>1. IsFiniteSet({}) /\ Cardinality({}) = 0
  BY FS_EmptySet
<1>2. Init => Working = {}
  BY DEF Init, Working
<1> QED
  BY <1>1, <1>2, LimitsAssumption DEF Init, SlotInv, AtMostOneDrain, OneUploadPerRecording

\* Giving a slot back leaves no fewer slots free.
LEMMA SlotReturned ==
  ASSUME NEW S, IsFiniteSet(S), NEW r
  PROVE  /\ IsFiniteSet(S \ {r}) /\ Cardinality(S \ {r}) <= Cardinality(S)
         /\ Cardinality(S) \in Nat /\ Cardinality(S \ {r}) \in Nat
BY FS_RemoveElement, FS_CardinalityType

\* Taking a slot that was seen free stays within the limit.
LEMMA SlotTaken ==
  ASSUME NEW S, IsFiniteSet(S), HasAvailableSlot(S), NEW r
  PROVE  IsFiniteSet(S \cup {r}) /\ Cardinality(S \cup {r}) <= MAX_CONCURRENT_UPLOADS
<1>1. Cardinality(S) \in Nat
  BY FS_CardinalityType
<1>2. IsFiniteSet(S \cup {r}) /\ Cardinality(S \cup {r}) = IF r \in S THEN Cardinality(S) ELSE Cardinality(S) + 1
  BY FS_AddElement
<1>3. Cardinality(S) < MAX_CONCURRENT_UPLOADS /\ MAX_CONCURRENT_UPLOADS \in Nat
  BY LimitsAssumption DEF HasAvailableSlot
<1> QED
  BY <1>1, <1>2, <1>3

\* Every step keeps the drains apart and the slots within their limit: the check of isProcessing in
\* processQueue and the slot seen free before the query in _drainQueue.
LEMMA SlotStep == TypeOK /\ SlotInv /\ [Next]_vars => SlotInv'
<1> SUFFICES ASSUME TypeOK, SlotInv, [Next]_vars PROVE SlotInv'
  OBVIOUS
<1> USE DEF TypeOK, SlotInv, AtMostOneDrain, OneUploadPerRecording, Working, DrainPc, WorkerPc,
       store, external, transfers, counters, queue, drain
<1>1. ASSUME NEW d \in Drains, DrainStep(d) PROVE SlotInv'
  <2>1. CASE FetchCompleting(d) BY <2>1 DEF FetchCompleting, DrainGoto
  <2>2. CASE RecoverNext(d) BY <2>2 DEF RecoverNext, DrainGoto, CanComplete
  <2>3. CASE RecoverEnd(d) BY <2>3 DEF RecoverEnd, DrainGoto, NextSlot
  <2>4. CASE DrainAnswered(d) BY <2>4 DEF DrainAnswered, DrainTo, Answered
  <2>5. CASE DrainUnanswered(d) BY <2>5 DEF DrainUnanswered, DrainTo, Unanswered
  <2>6. CASE DrainWriteDone(d) BY <2>6 DEF DrainWriteDone, DrainTo, WriteDone, SetStatus
  <2>7. CASE DrainRequestStt(d) BY <2>7 DEF DrainRequestStt, DrainTo, RequestSTTIfConsented
  <2>8. CASE FetchReady(d) BY <2>8 DEF FetchReady, DrainGoto
  <2>9. CASE StartWorker(d)
    <3>1. PICK i \in Items : /\ RecordingOf[i] \notin activeUploadIds
                             /\ activeUploadIds' = activeUploadIds \cup {RecordingOf[i]}
                             /\ worker' = [worker EXCEPT ![i] = "start"]
      BY <2>9 DEF StartWorker, IsFirst, Choosable
    <3>2. IsFiniteSet(activeUploadIds') /\ Cardinality(activeUploadIds') <= MAX_CONCURRENT_UPLOADS
      <4>1. HasAvailableSlot(activeUploadIds)
        BY <2>9 DEF StartWorker
      <4> QED BY <3>1, <4>1, SlotTaken
    <3>3. /\ drainPc' = [drainPc EXCEPT ![d] = NextSlot(activeUploadIds')]
          /\ isProcessing' = isProcessing /\ drainPc[d] = "choose"
      BY <2>9 DEF StartWorker, DrainGoto
    <3>4. NextSlot(activeUploadIds') \in {"fetchReady", "leave"}
          /\ (NextSlot(activeUploadIds') = "fetchReady" => HasAvailableSlot(activeUploadIds'))
      BY DEF NextSlot
    <3>5. \A e \in Drains \ {d} : drainPc'[e] = "idle"
      BY <3>3
    <3>6. AtMostOneDrain' /\ \A e \in Drains : drainPc'[e] # "idle" => isProcessing'
      BY <3>3, <3>4, <3>5
    <3>7. \A e \in Drains : drainPc'[e] \in {"fetchReady", "choose"} => HasAvailableSlot(activeUploadIds')
      BY <3>3, <3>4, <3>5
    <3>8. OneUploadPerRecording' /\ \A j \in Working' : RecordingOf[j] \in activeUploadIds'
      BY <3>1
    <3> QED BY <3>2, <3>6, <3>7, <3>8
  <2>10. CASE NothingReady(d) BY <2>10 DEF NothingReady, DrainGoto
  <2>11. CASE LeaveDrain(d) BY <2>11 DEF LeaveDrain, DrainGoto
  <2> QED BY <1>1, <2>1, <2>2, <2>3, <2>4, <2>5, <2>6, <2>7, <2>8, <2>9, <2>10, <2>11 DEF DrainStep
<1>2. ASSUME NEW i \in Items, WorkerStep(i) PROVE SlotInv'
  <2>1. CASE Start(i) BY <2>1 DEF Start, Goto, SetStatus, IsPresignedUrlValid
  <2>2. CASE Presigned(i) BY <2>2 DEF Presigned, Goto
  <2>3. CASE PresignFailed(i) BY <2>3 DEF PresignFailed, Goto, SetStatus
  <2>4. CASE MarkUploading(i) BY <2>4 DEF MarkUploading, Goto, SetStatus
  <2>5. CASE TransferProgress(i) BY <2>5 DEF TransferProgress
  <2>6. CASE TransferCompleted(i) BY <2>6 DEF TransferCompleted, Goto, SetStatus
  <2>7. CASE TransferFailed(i) BY <2>7 DEF TransferFailed, Goto, SetStatus, AfterFailure
  <2>8. CASE WorkerAnswered(i) BY <2>8 DEF WorkerAnswered, Goto, Answered
  <2>9. CASE WorkerUnanswered(i) BY <2>9 DEF WorkerUnanswered, Goto, Unanswered
  <2>10. CASE WorkerWriteDone(i) BY <2>10 DEF WorkerWriteDone, Goto, WriteDone, SetStatus
  <2>11. CASE WorkerRequestStt(i) BY <2>11 DEF WorkerRequestStt, Goto, RequestSTTIfConsented
  <2>12. CASE Finally(i)
    <3>1. /\ activeUploadIds' = activeUploadIds \ {RecordingOf[i]}
          /\ worker' = [worker EXCEPT ![i] = "none"]
          /\ ProcessQueue
      BY <2>12 DEF Finally, Goto
    <3>2. i \in Working
      BY <2>12 DEF Finally
    <3>3. OneUploadPerRecording' /\ \A j \in Working' : RecordingOf[j] \in activeUploadIds'
      BY <3>1, <3>2
    <3>4. /\ IsFiniteSet(activeUploadIds') /\ Cardinality(activeUploadIds') <= Cardinality(activeUploadIds)
          /\ Cardinality(activeUploadIds) \in Nat /\ Cardinality(activeUploadIds') \in Nat
      BY <3>1, SlotReturned
    <3>5. Cardinality(activeUploadIds') <= MAX_CONCURRENT_UPLOADS
      BY <3>4, LimitsAssumption
    <3>6. HasAvailableSlot(activeUploadIds) => HasAvailableSlot(activeUploadIds')
      BY <3>4, LimitsAssumption DEF HasAvailableSlot
    <3>7. AtMostOneDrain' /\ \A d \in Drains : drainPc'[d] # "idle" => isProcessing'
      BY <3>1 DEF ProcessQueue, DrainTo
    <3>8. \A d \in Drains : drainPc'[d] \in {"fetchReady", "choose"} => HasAvailableSlot(activeUploadIds')
      BY <3>1, <3>6 DEF ProcessQueue, DrainTo
    <3> QED BY <3>3, <3>4, <3>5, <3>7, <3>8
  <2> QED BY <1>2, <2>1, <2>2, <2>3, <2>4, <2>5, <2>6, <2>7, <2>8, <2>9, <2>10, <2>11, <2>12 DEF WorkerStep
<1>3. ASSUME NEW i \in Items, CallerStep(i) PROVE SlotInv'
  <2>1. CASE Enqueue(i) BY <2>1 DEF Enqueue, SetStatus, IsFirst
  <2>2. CASE RetryUpload(i) BY <2>2 DEF RetryUpload
  <2>3. CASE Wake(i) BY <2>3 DEF Wake, ProcessQueue, DrainTo
  <2> QED BY <1>3, <2>1, <2>2, <2>3 DEF CallerStep
<1>4. ASSUME Environment PROVE SlotInv'
  <2>1. CASE InitQueue BY <2>1 DEF InitQueue, ProcessQueue, DrainTo
  <2>2. CASE DestroyQueue BY <2>2 DEF DestroyQueue
  <2>3. CASE Reconnect BY <2>3 DEF Reconnect, ProcessQueue, DrainTo
  <2>4. CASE Crash
    <3>1. IsFiniteSet({}) /\ Cardinality({}) <= MAX_CONCURRENT_UPLOADS
      BY FS_EmptySet, LimitsAssumption
    <3> QED BY <2>4, <3>1 DEF Crash
  <2>5. ASSUME NEW i \in Items, BackoffElapses(i) PROVE SlotInv' BY <2>5 DEF BackoffElapses
  <2>6. ASSUME NEW s \in Sessions, UrlExpires(s) PROVE SlotInv' BY <2>6 DEF UrlExpires
  <2> QED BY <1>4, <2>1, <2>2, <2>3, <2>4, <2>5, <2>6 DEF Environment
<1>5. CASE UNCHANGED vars
  BY <1>5 DEF vars
<1> QED
  BY <1>1, <1>2, <1>3, <1>4, <1>5 DEF Next

\* The invariant of slots holds in every reachable state.
THEOREM SlotInvariant == Spec => []SlotInv
<1>1. DeliveryInv => TypeOK
  BY DEF DeliveryInv
<1> QED
  BY <1>1, SlotInit, SlotStep, DeliveryInvariant, PTL DEF Spec

\* At the start nobody holds anything.
LEMMA HoldersInit == Init => HeldByRunning
BY DEF Init, HeldByRunning, Working

\* A worker that goes on without leaving keeps its slot, and nobody else's is touched.
LEMMA WorkerKeepsSlot ==
  ASSUME TypeOK, HeldByRunning, NEW i \in Items, NEW pc \in WorkerPc, worker[i] # "none", pc # "none",
         Goto(i, pc), UNCHANGED <<isProcessing, activeUploadIds, drainPc>>
  PROVE  HeldByRunning'
<1>1. Working' = Working
  BY DEF Working, Goto, TypeOK
<1> QED BY <1>1 DEF HeldByRunning

\* processQueue either turns the caller away from a drain that runs, or starts one.
LEMMA ProcessQueueHolds ==
  ASSUME TypeOK, HeldByRunning, ProcessQueue
  PROVE  isProcessing' /\ \E d \in Drains : drainPc'[d] # "idle"
BY DEF TypeOK, HeldByRunning, ProcessQueue, DrainTo, drain

\* Every step leaves isProcessing to a drain that runs and each slot to a worker that runs: the
\* finally blocks of processQueue and _drainQueue are reached on every path.
LEMMA HoldersStep == TypeOK /\ SlotInv /\ HeldByRunning /\ [Next]_vars => HeldByRunning'
<1> SUFFICES ASSUME TypeOK, SlotInv, HeldByRunning, [Next]_vars PROVE HeldByRunning'
  OBVIOUS
<1> USE DEF store, external, transfers, counters, queue, drain
<1>1. ASSUME NEW d \in Drains, DrainStep(d) PROVE HeldByRunning'
  <2> DEFINE GoesOn == /\ drainPc[d] # "idle" /\ drainPc'[d] # "idle"
                       /\ UNCHANGED <<isProcessing, activeUploadIds, worker>>
  <2>1. GoesOn => HeldByRunning'
    BY DEF HeldByRunning, Working
  <2> USE DEF TypeOK
  <2>2. CASE FetchCompleting(d) BY <2>1, <2>2 DEF FetchCompleting, DrainGoto
  <2>3. CASE RecoverNext(d) BY <2>1, <2>3 DEF RecoverNext, DrainGoto
  <2>4. CASE RecoverEnd(d) BY <2>1, <2>4 DEF RecoverEnd, DrainGoto, NextSlot
  <2>5. CASE DrainAnswered(d) BY <2>1, <2>5 DEF DrainAnswered, DrainTo
  <2>6. CASE DrainUnanswered(d) BY <2>1, <2>6 DEF DrainUnanswered, DrainTo
  <2>7. CASE DrainWriteDone(d) BY <2>1, <2>7 DEF DrainWriteDone, DrainTo
  <2>8. CASE DrainRequestStt(d) BY <2>1, <2>8 DEF DrainRequestStt, DrainTo
  <2>9. CASE FetchReady(d) BY <2>1, <2>9 DEF FetchReady, DrainGoto
  <2>10. CASE NothingReady(d) BY <2>1, <2>10 DEF NothingReady, DrainGoto
  <2>11. CASE StartWorker(d)
    <3>1. PICK i \in Items : /\ activeUploadIds' = activeUploadIds \cup {RecordingOf[i]}
                             /\ worker' = [worker EXCEPT ![i] = "start"]
      BY <2>11 DEF StartWorker, IsFirst
    <3>2. Working' = Working \cup {i}
      BY <3>1 DEF Working
    <3>3. activeUploadIds' = {RecordingOf[j] : j \in Working'}
      BY <3>1, <3>2 DEF HeldByRunning
    <3>4. isProcessing' = isProcessing /\ drainPc[d] # "idle" /\ drainPc'[d] # "idle"
      BY <2>11 DEF StartWorker, DrainGoto, NextSlot
    <3> QED BY <3>3, <3>4 DEF HeldByRunning
  <2>12. CASE LeaveDrain(d)
    <3>1. \A e \in Drains : drainPc'[e] = "idle"
      BY <2>12 DEF LeaveDrain, DrainGoto, SlotInv, AtMostOneDrain
    <3> QED BY <2>12, <3>1 DEF LeaveDrain, HeldByRunning, Working
  <2> QED BY <1>1, <2>2, <2>3, <2>4, <2>5, <2>6, <2>7, <2>8, <2>9, <2>10, <2>11, <2>12 DEF DrainStep
<1>2. ASSUME NEW i \in Items, WorkerStep(i) PROVE HeldByRunning'
  <2> USE DEF WorkerPc
  <2>1. CASE Start(i)
    <3>1. \E pc \in {"finally", "markUploading", "presign"} : Goto(i, pc)
      BY <2>1 DEF Start
    <3> QED BY <2>1, <3>1, WorkerKeepsSlot DEF Start
  <2>2. CASE Presigned(i) BY <2>2, WorkerKeepsSlot DEF Presigned
  <2>3. CASE PresignFailed(i) BY <2>3, WorkerKeepsSlot DEF PresignFailed
  <2>4. CASE MarkUploading(i) BY <2>4, WorkerKeepsSlot DEF MarkUploading
  <2>5. CASE TransferProgress(i) BY <2>5 DEF TransferProgress, HeldByRunning, Working
  <2>6. CASE TransferCompleted(i) BY <2>6, WorkerKeepsSlot DEF TransferCompleted
  <2>7. CASE TransferFailed(i) BY <2>7, WorkerKeepsSlot DEF TransferFailed
  <2>8. CASE WorkerAnswered(i) BY <2>8, WorkerKeepsSlot DEF WorkerAnswered
  <2>9. CASE WorkerUnanswered(i) BY <2>9, WorkerKeepsSlot DEF WorkerUnanswered
  <2>10. CASE WorkerWriteDone(i) BY <2>10, WorkerKeepsSlot DEF WorkerWriteDone
  <2>11. CASE WorkerRequestStt(i) BY <2>11, WorkerKeepsSlot DEF WorkerRequestStt
  <2>12. CASE Finally(i)
    <3>1. /\ activeUploadIds' = activeUploadIds \ {RecordingOf[i]}
          /\ worker' = [worker EXCEPT ![i] = "none"] /\ i \in Working
          /\ ProcessQueue
      BY <2>12 DEF Finally, Goto, Working
    <3>2. Working' = Working \ {i}
      BY <3>1 DEF Working, TypeOK
    <3>3. \A j \in Working \ {i} : RecordingOf[j] # RecordingOf[i]
      BY <3>1 DEF SlotInv, OneUploadPerRecording
    <3>4. activeUploadIds' = {RecordingOf[j] : j \in Working'}
      BY <3>1, <3>2, <3>3 DEF HeldByRunning
    <3> QED BY <3>1, <3>4, ProcessQueueHolds DEF HeldByRunning
  <2> QED BY <1>2, <2>1, <2>2, <2>3, <2>4, <2>5, <2>6, <2>7, <2>8, <2>9, <2>10, <2>11, <2>12 DEF WorkerStep
<1>3. ASSUME NEW i \in Items, CallerStep(i) PROVE HeldByRunning'
  <2>1. CASE Enqueue(i) BY <2>1 DEF Enqueue, HeldByRunning, Working
  <2>2. CASE RetryUpload(i) BY <2>2 DEF RetryUpload, HeldByRunning, Working
  <2>3. CASE Wake(i) BY <2>3, ProcessQueueHolds DEF Wake, HeldByRunning, Working
  <2> QED BY <1>3, <2>1, <2>2, <2>3 DEF CallerStep
<1>4. ASSUME Environment PROVE HeldByRunning'
  <2>1. CASE InitQueue BY <2>1, ProcessQueueHolds DEF InitQueue, HeldByRunning, Working
  <2>2. CASE DestroyQueue BY <2>2 DEF DestroyQueue, HeldByRunning, Working
  <2>3. CASE Reconnect BY <2>3, ProcessQueueHolds DEF Reconnect, HeldByRunning, Working
  <2>4. CASE Crash
    <3>1. Working' = {} /\ activeUploadIds' = {} /\ ~isProcessing' /\ \A d \in Drains : drainPc'[d] = "idle"
      BY <2>4 DEF Crash, Working
    <3> QED BY <3>1 DEF HeldByRunning
  <2>5. ASSUME NEW i \in Items, BackoffElapses(i) PROVE HeldByRunning'
    BY <2>5 DEF BackoffElapses, HeldByRunning, Working
  <2>6. ASSUME NEW s \in Sessions, UrlExpires(s) PROVE HeldByRunning'
    BY <2>6 DEF UrlExpires, HeldByRunning, Working
  <2> QED BY <1>4, <2>1, <2>2, <2>3, <2>4, <2>5, <2>6 DEF Environment
<1>5. CASE UNCHANGED vars
  BY <1>5 DEF vars, HeldByRunning, Working
<1> QED
  BY <1>1, <1>2, <1>3, <1>4, <1>5 DEF Next

\* No drain and no worker ends with the flag or a slot still taken, so that neither is ever lost.
THEOREM HeldByRunningHolds == Spec => []HeldByRunning
<1>1. DeliveryInv => TypeOK
  BY DEF DeliveryInv
<1> QED
  BY <1>1, HoldersInit, HoldersStep, SlotInvariant, DeliveryInvariant, PTL DEF Spec

\* As many workers as slots, because each worker's recording holds a slot of its own.
LEMMA SlotsBoundWorkers == SlotInv => SlotLimit
<1> SUFFICES ASSUME SlotInv PROVE SlotLimit
  OBVIOUS
<1> DEFINE holds == [i \in Working |-> RecordingOf[i]]
<1>1. holds \in Injection(Working, activeUploadIds)
  BY DEF SlotInv, OneUploadPerRecording, Injection, IsInjective
<1>2. IsFiniteSet(activeUploadIds) /\ Cardinality(activeUploadIds) <= MAX_CONCURRENT_UPLOADS
  BY DEF SlotInv
<1>3. IsFiniteSet(Working) /\ Cardinality(Working) <= Cardinality(activeUploadIds)
  BY <1>1, <1>2, FS_Injection
<1>4. Cardinality(Working) \in Nat /\ Cardinality(activeUploadIds) \in Nat
  BY <1>2, <1>3, FS_CardinalityType
<1> QED
  BY <1>2, <1>3, <1>4, LimitsAssumption DEF SlotLimit

\* No more than MAX_CONCURRENT_UPLOADS _processItem calls are ever in flight.
THEOREM SlotLimitHolds == Spec => []SlotLimit
BY SlotInvariant, SlotsBoundWorkers, PTL

\* isProcessing keeps every two runs of _drainQueue apart.
THEOREM OneDrainHolds == Spec => []AtMostOneDrain
<1>1. SlotInv => AtMostOneDrain
  BY DEF SlotInv
<1> QED BY <1>1, SlotInvariant, PTL

\* Two rows of one recording are never worked on at the same time.
THEOREM OneUploadPerRecordingHolds == Spec => []OneUploadPerRecording
<1>1. SlotInv => OneUploadPerRecording
  BY DEF SlotInv
<1> QED BY <1>1, SlotInvariant, PTL

\* The types of UploadService are kept; in particular attempts never reaches MAX_UPLOAD_ATTEMPTS.
THEOREM TypeOKHolds == Spec => []TypeOK
<1>1. DeliveryInv => TypeOK
  BY DEF DeliveryInv
<1> QED BY <1>1, DeliveryInvariant, PTL

\* A row shown as done was sent to the end and its session completed at the server.
THEOREM DoneIsSentHolds == Spec => []DoneIsSent
<1>1. DeliveryInv => DoneIsSent
  BY DEF DeliveryInv, RowData, Sent, DoneIsSent
<1> QED BY <1>1, DeliveryInvariant, PTL

\* Between two awaits of _processItem nobody else changes the status it relies on.
THEOREM WorkerOwnsRowHolds == Spec => []WorkerOwnsRow
<1>1. DeliveryInv => WorkerOwnsRow
  BY DEF DeliveryInv
<1> QED BY <1>1, DeliveryInvariant, PTL

\* _requestSTTIfConsented asks only for recordings with a row that is done.
THEOREM SttOnlyAfterUploadHolds == Spec => []SttOnlyAfterUpload
<1>1. DeliveryInv => SttOnlyAfterUpload
  BY DEF DeliveryInv
<1> QED BY <1>1, DeliveryInvariant, PTL

\* progressMap has entries only for files being sent, also after a restart.
THEOREM ProgressOnlyInTransferHolds == Spec => []ProgressOnlyInTransfer
<1>1. DeliveryInv => ProgressOnlyInTransfer
  BY DEF DeliveryInv
<1> QED BY <1>1, DeliveryInvariant, PTL

\* No step takes a row out of completing except to done, and none takes it out of done.
LEMMA SentStep ==
  DeliveryInv /\ [Next]_vars =>
    \A i \in Items : status[i] \in {"completing", "done"} => status'[i] \in {"done", status[i]}
<1> DEFINE StaysSent == \A i \in Items : status[i] \in {"completing", "done"} => status'[i] \in {"done", status[i]}
<1> SUFFICES ASSUME DeliveryInv, [Next]_vars PROVE StaysSent
  OBVIOUS
<1> USE DEF DeliveryInv, TypeOK, WorkerOwnsRow, queue
<1>1. ASSUME NEW d \in Drains, DrainStep(d) PROVE StaysSent
  <2>1. CASE FetchCompleting(d) BY <2>1 DEF FetchCompleting, DrainGoto
  <2>2. CASE RecoverNext(d) BY <2>2 DEF RecoverNext, DrainGoto, CanComplete
  <2>3. CASE RecoverEnd(d) BY <2>3 DEF RecoverEnd, DrainGoto, NextSlot
  <2>4. CASE DrainAnswered(d) BY <2>4 DEF DrainAnswered, DrainTo, Answered
  <2>5. CASE DrainUnanswered(d) BY <2>5 DEF DrainUnanswered, DrainTo, Unanswered
  <2>6. CASE DrainWriteDone(d) BY <2>6 DEF DrainWriteDone, DrainTo, WriteDone, SetStatus
  <2>7. CASE DrainRequestStt(d) BY <2>7 DEF DrainRequestStt, DrainTo, RequestSTTIfConsented
  <2>8. CASE FetchReady(d) BY <2>8 DEF FetchReady, DrainGoto
  <2>9. CASE StartWorker(d) BY <2>9 DEF StartWorker, DrainGoto, NextSlot, IsFirst, Choosable, IsReady
  <2>10. CASE NothingReady(d) BY <2>10 DEF NothingReady, DrainGoto
  <2>11. CASE LeaveDrain(d) BY <2>11 DEF LeaveDrain, DrainGoto
  <2> QED BY <1>1, <2>1, <2>2, <2>3, <2>4, <2>5, <2>6, <2>7, <2>8, <2>9, <2>10, <2>11 DEF DrainStep
<1>2. ASSUME NEW i \in Items, WorkerStep(i) PROVE StaysSent
  <2>1. CASE Start(i) BY <2>1 DEF Start, Goto, SetStatus, IsPresignedUrlValid
  <2>2. CASE Presigned(i) BY <2>2 DEF Presigned, Goto
  <2>3. CASE PresignFailed(i) BY <2>3 DEF PresignFailed, Goto, SetStatus
  <2>4. CASE MarkUploading(i) BY <2>4 DEF MarkUploading, Goto, SetStatus
  <2>5. CASE TransferProgress(i) BY <2>5 DEF TransferProgress
  <2>6. CASE TransferCompleted(i) BY <2>6 DEF TransferCompleted, Goto, SetStatus
  <2>7. CASE TransferFailed(i) BY <2>7 DEF TransferFailed, Goto, SetStatus, AfterFailure
  <2>8. CASE WorkerAnswered(i) BY <2>8 DEF WorkerAnswered, Goto, Answered
  <2>9. CASE WorkerUnanswered(i) BY <2>9 DEF WorkerUnanswered, Goto, Unanswered
  <2>10. CASE WorkerWriteDone(i) BY <2>10 DEF WorkerWriteDone, Goto, WriteDone, SetStatus
  <2>11. CASE WorkerRequestStt(i) BY <2>11 DEF WorkerRequestStt, Goto, RequestSTTIfConsented
  <2>12. CASE Finally(i) BY <2>12 DEF Finally, Goto, ProcessQueue, DrainTo
  <2> QED BY <1>2, <2>1, <2>2, <2>3, <2>4, <2>5, <2>6, <2>7, <2>8, <2>9, <2>10, <2>11, <2>12 DEF WorkerStep
<1>3. ASSUME NEW i \in Items, CallerStep(i) PROVE StaysSent
  <2>1. CASE Enqueue(i) BY <2>1 DEF Enqueue, SetStatus, IsFirst
  <2>2. CASE RetryUpload(i) BY <2>2 DEF RetryUpload
  <2>3. CASE Wake(i) BY <2>3 DEF Wake, ProcessQueue, DrainTo
  <2> QED BY <1>3, <2>1, <2>2, <2>3 DEF CallerStep
<1>4. ASSUME Environment PROVE StaysSent
  <2>1. CASE InitQueue BY <2>1 DEF InitQueue, ProcessQueue, DrainTo
  <2>2. CASE DestroyQueue BY <2>2 DEF DestroyQueue
  <2>3. CASE Reconnect BY <2>3 DEF Reconnect, ProcessQueue, DrainTo
  <2>4. CASE Crash BY <2>4 DEF Crash
  <2>5. ASSUME NEW i \in Items, BackoffElapses(i) PROVE StaysSent BY <2>5 DEF BackoffElapses
  <2>6. ASSUME NEW s \in Sessions, UrlExpires(s) PROVE StaysSent BY <2>6 DEF UrlExpires
  <2> QED BY <1>4, <2>1, <2>2, <2>3, <2>4, <2>5, <2>6 DEF Environment
<1>5. CASE UNCHANGED vars
  BY <1>5 DEF vars
<1> QED
  BY <1>1, <1>2, <1>3, <1>4, <1>5 DEF Next

\* Once a file was sent, no failed completion, restart or resend makes it be sent again.
THEOREM NeverResentHolds == Spec => NeverResent
<1> QED
  BY SentStep, DeliveryInvariant, PTL DEF Spec, NeverResent

\* A row comes into uploading only with a worker that sends its file, and stays there only while
\* nobody but a kill takes its worker away.
LEMMA UploadingFrame ==
  DeliveryInv /\ UploadingIsTransfer /\ [Next]_vars /\ ~Crash =>
    \A i \in Items : status'[i] = "uploading" =>
      worker'[i] = "transfer" \/ (status[i] = "uploading" /\ worker'[i] = worker[i])
<1> DEFINE Frame == \A i \in Items : status'[i] = "uploading" =>
                      worker'[i] = "transfer" \/ (status[i] = "uploading" /\ worker'[i] = worker[i])
<1> SUFFICES ASSUME DeliveryInv, UploadingIsTransfer, [Next]_vars, ~Crash PROVE Frame
  OBVIOUS
<1>1. status \in [Items -> Status] /\ worker \in [Items -> WorkerPc] /\ WorkerOwnsRow
  BY DEF DeliveryInv, TypeOK
<1>2. UNCHANGED <<status, worker>> => Frame
  OBVIOUS
<1> USE <1>1 DEF WorkerOwnsRow, UploadingIsTransfer, queue
<1>3. ASSUME NEW d \in Drains, DrainStep(d) PROVE Frame
  <2>1. CASE DrainWriteDone(d) BY <2>1 DEF DrainWriteDone, WriteDone, SetStatus
  <2>2. CASE StartWorker(d)
    <3>1. PICK i \in Items : status[i] # "uploading" /\ worker' = [worker EXCEPT ![i] = "start"]
      BY <2>2 DEF StartWorker, IsFirst, Choosable, IsReady
    <3> QED BY <2>2, <3>1 DEF StartWorker
  <2>3. CASE ~DrainWriteDone(d) /\ ~StartWorker(d)
    BY <1>2, <1>3, <2>3 DEF DrainStep, FetchCompleting, RecoverNext, RecoverEnd, DrainAnswered,
       DrainUnanswered, DrainRequestStt, FetchReady, NothingReady, LeaveDrain
  <2> QED BY <2>1, <2>2, <2>3
<1>4. ASSUME NEW i \in Items, WorkerStep(i) PROVE Frame
  <2>1. CASE Start(i) BY <2>1 DEF Start, Goto, SetStatus
  <2>2. CASE Presigned(i) BY <2>2 DEF Presigned, Goto
  <2>3. CASE PresignFailed(i) BY <2>3 DEF PresignFailed, Goto, SetStatus
  <2>4. CASE MarkUploading(i) BY <2>4 DEF MarkUploading, Goto, SetStatus
  <2>5. CASE TransferProgress(i) BY <1>2, <2>5 DEF TransferProgress
  <2>6. CASE TransferCompleted(i) BY <2>6 DEF TransferCompleted, Goto, SetStatus
  <2>7. CASE TransferFailed(i) BY <2>7 DEF TransferFailed, Goto, SetStatus, AfterFailure
  <2>8. CASE WorkerAnswered(i) BY <2>8 DEF WorkerAnswered, Goto
  <2>9. CASE WorkerUnanswered(i) BY <2>9 DEF WorkerUnanswered, Goto
  <2>10. CASE WorkerWriteDone(i) BY <2>10 DEF WorkerWriteDone, Goto, WriteDone, SetStatus
  <2>11. CASE WorkerRequestStt(i) BY <2>11 DEF WorkerRequestStt, Goto
  <2>12. CASE Finally(i) BY <2>12 DEF Finally, Goto
  <2> QED BY <1>4, <2>1, <2>2, <2>3, <2>4, <2>5, <2>6, <2>7, <2>8, <2>9, <2>10, <2>11, <2>12 DEF WorkerStep
<1>5. ASSUME NEW i \in Items, CallerStep(i) PROVE Frame
  BY <1>2, <1>5 DEF CallerStep, Enqueue, RetryUpload, Wake, SetStatus
<1>6. ASSUME Environment PROVE Frame
  BY <1>2, <1>6 DEF Environment, InitQueue, DestroyQueue, Reconnect, BackoffElapses, UrlExpires
<1>7. CASE UNCHANGED vars
  BY <1>2, <1>7 DEF vars
<1> QED
  BY <1>3, <1>4, <1>5, <1>6, <1>7 DEF Next

LEMMA UploadingInit == Init => UploadingIsTransfer
BY DEF Init, UploadingIsTransfer

LEMMA UploadingStep == DeliveryInv /\ UploadingIsTransfer /\ [Next]_vars => UploadingIsTransfer'
<1> SUFFICES ASSUME DeliveryInv, UploadingIsTransfer, [Next]_vars PROVE UploadingIsTransfer'
  OBVIOUS
<1>1. CASE Crash
  BY <1>1 DEF Crash, UploadingIsTransfer
<1>2. CASE ~Crash
  BY <1>2, UploadingFrame DEF UploadingIsTransfer
<1> QED BY <1>1, <1>2

\* A kill strands at most the rows that had a worker; no other step strands any.
LEMMA StrandedStep ==
  DeliveryInv /\ UploadingIsTransfer /\ [Next]_vars =>
    IF Crash THEN {i \in Items : Stranded(i)}' \subseteq {i \in Items : Stranded(i)} \cup Working
             ELSE {i \in Items : Stranded(i)}' \subseteq {i \in Items : Stranded(i)}
<1> SUFFICES ASSUME DeliveryInv, UploadingIsTransfer, [Next]_vars
             PROVE  IF Crash THEN {i \in Items : Stranded(i)}' \subseteq {i \in Items : Stranded(i)} \cup Working
                             ELSE {i \in Items : Stranded(i)}' \subseteq {i \in Items : Stranded(i)}
  OBVIOUS
<1>1. CASE Crash
  BY <1>1 DEF Crash, Stranded, Working, queue
<1>2. CASE ~Crash
  BY <1>2, UploadingFrame DEF Stranded
<1> QED BY <1>1, <1>2

\* Only a kill is counted, and none is forgotten.
LEMMA CrashesCounted ==
  TypeOK /\ [Next]_vars => crashes \in Nat /\ crashes' = IF Crash THEN crashes + 1 ELSE crashes
<1>6. TypeOK => crashes \in Nat
  BY LimitsAssumption DEF TypeOK
<1>7. Crash => crashes' = crashes + 1
  BY DEF Crash
<1> SUFFICES ASSUME [Next]_vars, ~Crash PROVE crashes' = crashes
  BY <1>6, <1>7
<1> USE DEF counters
<1>1. ASSUME NEW d \in Drains, DrainStep(d) PROVE crashes' = crashes
  BY <1>1 DEF DrainStep, FetchCompleting, RecoverNext, RecoverEnd, DrainAnswered, DrainUnanswered,
     DrainWriteDone, DrainRequestStt, FetchReady, StartWorker, NothingReady, LeaveDrain, external, transfers
<1>2. ASSUME NEW i \in Items, WorkerStep(i) PROVE crashes' = crashes
  BY <1>2 DEF WorkerStep, Start, Presigned, PresignFailed, MarkUploading, TransferProgress, TransferCompleted,
     TransferFailed, WorkerAnswered, WorkerUnanswered, WorkerWriteDone, WorkerRequestStt, Finally
<1>3. ASSUME NEW i \in Items, CallerStep(i) PROVE crashes' = crashes
  BY <1>3 DEF CallerStep, Enqueue, RetryUpload, Wake
<1>4. ASSUME Environment PROVE crashes' = crashes
  BY <1>4 DEF Environment, InitQueue, DestroyQueue, Reconnect, BackoffElapses, UrlExpires
<1>5. CASE UNCHANGED vars
  BY <1>5 DEF vars
<1> QED
  BY <1>1, <1>2, <1>3, <1>4, <1>5 DEF Next

LEMMA StrandingStep ==
  DeliveryInv /\ UploadingIsTransfer /\ SlotInv /\ KillsStrandWhatIsSent /\ [Next]_vars
    => KillsStrandWhatIsSent'
<1> DEFINE Rows == {i \in Items : Stranded(i)}
           M == MAX_CONCURRENT_UPLOADS
<1> SUFFICES ASSUME DeliveryInv, UploadingIsTransfer, SlotInv, KillsStrandWhatIsSent, [Next]_vars
             PROVE  Cardinality(Rows') <= crashes' * M
  BY DEF KillsStrandWhatIsSent
<1>1. IsFiniteSet(Rows) /\ IsFiniteSet(Working) /\ IsFiniteSet(Rows')
  BY ItemsAssumption, FS_Subset DEF Working
<1>2. Cardinality(Rows) \in Nat /\ Cardinality(Working) \in Nat /\ Cardinality(Rows') \in Nat
  BY <1>1, FS_CardinalityType
<1>3. crashes \in Nat /\ crashes' = IF Crash THEN crashes + 1 ELSE crashes
  BY CrashesCounted DEF DeliveryInv
<1>4. Cardinality(Rows) <= crashes * M
  BY DEF KillsStrandWhatIsSent
<1>5. CASE Crash
  <2>1. Rows' \subseteq Rows \cup Working
    BY <1>5, StrandedStep
  <2>2. IsFiniteSet(Rows \cup Working) /\ Cardinality(Rows \cup Working) \in Nat
        /\ Cardinality(Rows \cup Working) <= Cardinality(Rows) + Cardinality(Working)
    <3>1. IsFiniteSet(Rows \cup Working)
      BY <1>1, FS_Union
    <3>2. Cardinality(Rows \cup Working)
            = Cardinality(Rows) + Cardinality(Working) - Cardinality(Rows \cap Working)
      BY <1>1, FS_Union
    <3>3. Cardinality(Rows \cap Working) \in Nat
      BY <1>1, FS_Intersection, FS_CardinalityType
    <3> QED BY <1>2, <3>1, <3>2, <3>3, FS_CardinalityType
  <2>3. Cardinality(Rows') <= Cardinality(Rows \cup Working)
    BY <2>1, <2>2, FS_Subset
  <2>4. Cardinality(Working) <= M
    BY SlotsBoundWorkers DEF SlotLimit
  <2>5. (crashes + 1) * M = crashes * M + M
    BY <1>3, LimitsAssumption
  <2>6. crashes * M \in Nat /\ M \in Nat
    BY <1>3, LimitsAssumption
  <2> HIDE DEF Rows, M
  <2> QED BY <1>2, <1>3, <1>4, <1>5, <2>2, <2>3, <2>4, <2>5, <2>6
<1>6. CASE ~Crash
  <2>1. Rows' \subseteq Rows
    BY <1>6, StrandedStep
  <2>2. Cardinality(Rows') <= Cardinality(Rows)
    BY <1>1, <2>1, FS_Subset
  <2>3. crashes * M \in Nat
    BY <1>3, LimitsAssumption
  <2> HIDE DEF Rows, M
  <2> QED BY <1>2, <1>3, <1>4, <1>6, <2>2, <2>3
<1> QED BY <1>5, <1>6

LEMMA StrandingInit == Init => KillsStrandWhatIsSent
<1> SUFFICES ASSUME Init PROVE KillsStrandWhatIsSent
  OBVIOUS
<1>1. {i \in Items : Stranded(i)} = {}
  BY DEF Init, Stranded
<1>2. crashes * MAX_CONCURRENT_UPLOADS = 0
  BY LimitsAssumption DEF Init
<1> QED BY <1>1, <1>2, FS_EmptySet DEF KillsStrandWhatIsSent

\* Without a kill no row is left in uploading behind everybody's back, and a kill strands no more
\* rows than there are slots: the safety half of what SettlesOrStrands promises.
THEOREM KillsStrandWhatIsSentHolds == Spec => []KillsStrandWhatIsSent
<1>1. Spec => []UploadingIsTransfer
  BY UploadingInit, UploadingStep, DeliveryInvariant, PTL DEF Spec
<1> QED
  BY <1>1, StrandingInit, StrandingStep, SlotInvariant, DeliveryInvariant, PTL DEF Spec
=============================================================================
