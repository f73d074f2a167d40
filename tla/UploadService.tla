---------------------------- MODULE UploadService ----------------------------
(***************************************************************************)
(* The upload queue: src/features/upload/uploadService.ts and              *)
(* uploadQueue.ts, over the in-memory store stores/uploadQueueStore.ts and *)
(* the WatermelonDB table local_upload_queue.                              *)
(*                                                                         *)
(* processQueue() starts a drain.  A drain first completes the rows that   *)
(* are in status completing, then hands ready rows to workers while a slot *)
(* is free.  A worker (_processItem) obtains a session, PUTs the file,     *)
(* reports completion, and on its way out frees its slot and calls         *)
(* processQueue() again.  JavaScript runs one callback at a time, so a     *)
(* step is an awaited operation taking effect together with the code up to *)
(* the next await; between two awaits of one chain any other may run.  A   *)
(* database write is folded into the step of the network answer that       *)
(* causes it: only a crash could separate the two, and a crash before the  *)
(* write is the same as a crash before the answer.                         *)
(***************************************************************************)
EXTENDS Naturals, FiniteSets

CONSTANTS
  Items,                   \* row ids of local_upload_queue, in insertion order
  Recordings,              \* ids of local_recordings
  RecordingOf,             \* the row's recording_id
  Registered,              \* recordings whose row exists with a server_recording_id
  Checksummed,             \* recordings with a checksum_sha256
  SessionIds, NoSession,   \* the server's sessions are <<recording, id>>
  Drains,                  \* identities for concurrent processQueue() runs
  MAX_UPLOAD_ATTEMPTS, MAX_CONCURRENT_UPLOADS,
  Refusable,               \* bound: recordings whose file the storage may refuse
  MaxCrashes, MaxResubmits \* bounds: kills of the app, presses of the resend button

Sessions == Recordings \X SessionIds

ASSUME ItemsAssumption == Items \subseteq Nat \ {0} /\ IsFiniteSet(Items)
ASSUME RecordingsAssumption ==
  /\ RecordingOf \in [Items -> Recordings]
  /\ Registered \subseteq Recordings
  /\ Checksummed \subseteq Recordings
  /\ Refusable \subseteq Recordings
ASSUME SessionsAssumption == NoSession \notin Sessions
ASSUME LimitsAssumption ==
  /\ MAX_UPLOAD_ATTEMPTS \in Nat \ {0}
  /\ MAX_CONCURRENT_UPLOADS \in Nat \ {0}
  /\ MaxCrashes \in Nat
  /\ MaxResubmits \in Nat

VARIABLES
  status, attempts, due, session,                         \* the columns of local_upload_queue
  isProcessing, activeUploadIds, validUrls, progressMap,  \* the Zustand store
  listening,                                              \* netInfoUnsubscribe is set
  drainPc, drainRows, drainItem, worker, waking,          \* suspended async functions
  sent, refused,          \* sessions whose PUT was reported completed, and whose last PUT the storage refused
  completed, stt,         \* sessions the API server completed, transcriptions requested
  crashes, resubmits

queue    == <<status, attempts, due, session>>
drain    == <<drainPc, drainRows, drainItem>>
store    == <<isProcessing, activeUploadIds, validUrls, progressMap>>
transfers == <<sent, refused>>
external == <<transfers, completed, stt>>
counters == <<crashes, resubmits>>
vars == <<queue, store, listening, drain, worker, waking, external, counters>>

Status   == {"absent", "pending", "uploading", "completing", "retrying", "done", "failed"}
DrainPc  == {"idle", "fetchCompleting", "recover", "complete", "writeDone", "requestStt",
             "fetchReady", "choose", "leave"}
WorkerPc == {"none", "start", "presign", "markUploading", "transfer", "complete",
             "writeDone", "requestStt", "finally"}

IsFirst(i, S) == i \in S /\ \A j \in S : i <= j
IsReady(i) == status[i] = "pending" \/ (status[i] = "retrying" /\ due[i])
\* Mutant: one slot too many.
HasAvailableSlotOffByOne(active) == Cardinality(active) <= MAX_CONCURRENT_UPLOADS
HasAvailableSlot(active) == Cardinality(active) < MAX_CONCURRENT_UPLOADS
IsPresignedUrlValid(s) == s \in validUrls
CanComplete(i) == RecordingOf[i] \in Registered /\ session[i] # NoSession

Init ==
  /\ status = [i \in Items |-> "absent"] /\ attempts = [i \in Items |-> 0]
  /\ due = [i \in Items |-> TRUE] /\ session = [i \in Items |-> NoSession]
  /\ isProcessing = FALSE /\ activeUploadIds = {} /\ validUrls = {} /\ progressMap = {}
  /\ listening = FALSE
  /\ drainPc = [d \in Drains |-> "idle"]
  /\ drainRows = [d \in Drains |-> {}] /\ drainItem = [d \in Drains |-> 0]
  /\ worker = [i \in Items |-> "none"]
  /\ waking = {}
  /\ sent = {} /\ refused = {} /\ completed = {} /\ stt = {}
  /\ crashes = 0 /\ resubmits = 0

SetStatus(i, s) == status' = [status EXCEPT ![i] = s] /\ UNCHANGED <<attempts, due, session>>

-----------------------------------------------------------------------------
(* Calls of processQueue(): a run in progress turns the call away.          *)

DrainTo(d, pc) == drainPc' = [drainPc EXCEPT ![d] = pc] /\ UNCHANGED <<drainRows, drainItem>>

\* Mutant: the isProcessing guard is gone.
ProcessQueueUnguarded ==
  /\ isProcessing' = TRUE
  /\ \E d \in Drains : /\ drainPc[d] = "idle"
                       /\ DrainTo(d, "fetchCompleting")

ProcessQueue ==
  IF isProcessing THEN UNCHANGED <<isProcessing, drain>>
  ELSE /\ isProcessing' = TRUE
       /\ \E d \in Drains : /\ drainPc[d] = "idle"
                            /\ DrainTo(d, "fetchCompleting")

InitQueue ==
  /\ ~listening
  /\ listening' = TRUE
  /\ ProcessQueue
  /\ UNCHANGED <<queue, activeUploadIds, validUrls, progressMap, worker, waking, external, counters>>

DestroyQueue ==
  /\ listening
  /\ listening' = FALSE
  /\ UNCHANGED <<queue, store, drain, worker, waking, external, counters>>

\* NetInfo reports a connected state to the registered listener.
Reconnect ==
  /\ listening
  /\ ProcessQueue
  /\ UNCHANGED <<queue, activeUploadIds, validUrls, progressMap, listening, worker, waking,
                 external, counters>>

\* The write of enqueueUpload; rows are created in the order of their ids.
Enqueue(i) ==
  /\ IsFirst(i, {j \in Items : status[j] = "absent"})
  /\ SetStatus(i, "pending")
  /\ waking' = waking \cup {i}
  /\ UNCHANGED <<store, listening, drain, worker, external, counters>>

\* Mutant: any row in the queue can be resubmitted.
RetryUploadUnguarded(i) ==
  /\ status[i] # "absent"
  /\ resubmits < MaxResubmits
  /\ status' = [status EXCEPT ![i] = "pending"]
  /\ attempts' = [attempts EXCEPT ![i] = 0]
  /\ due' = [due EXCEPT ![i] = TRUE]
  /\ UNCHANGED session
  /\ waking' = waking \cup {i}
  /\ resubmits' = resubmits + 1
  /\ UNCHANGED <<store, listening, drain, worker, external, crashes>>

\* The write of retryUpload; only a failed row is resubmitted.
RetryUpload(i) ==
  /\ status[i] = "failed"
  /\ resubmits < MaxResubmits
  /\ status' = [status EXCEPT ![i] = "pending"]
  /\ attempts' = [attempts EXCEPT ![i] = 0]
  /\ due' = [due EXCEPT ![i] = TRUE]
  /\ UNCHANGED session
  /\ waking' = waking \cup {i}
  /\ resubmits' = resubmits + 1
  /\ UNCHANGED <<store, listening, drain, worker, external, crashes>>

\* enqueueUpload and retryUpload call processQueue once their write has returned.
Wake(i) ==
  /\ i \in waking
  /\ waking' = waking \ {i}
  /\ ProcessQueue
  /\ UNCHANGED <<queue, activeUploadIds, validUrls, progressMap, listening, worker, external, counters>>

-----------------------------------------------------------------------------
(* completeUploadSession, as the worker and the drain await it.  The server *)
(* is not assumed to verify that it holds the bytes.                        *)

Answered(i) ==     \* 200, or 409 for a session completed before
  completed' = completed \cup {session[i]}

Unanswered(i) ==   \* any other outcome: the request may still have reached the server
  \E reached \in SUBSET {session[i]} : completed' = completed \cup reached

\* The row is marked done, then its cached URL is dropped.
WriteDone(i) ==
  /\ SetStatus(i, "done")
  /\ validUrls' = validUrls \ {session[i]}

\* The keychain may hold the consent to cross-border processing, or not, or fail to answer.
RequestSTTIfConsented(i) ==
  \E consented \in BOOLEAN : stt' = IF consented THEN stt \cup {RecordingOf[i]} ELSE stt

-----------------------------------------------------------------------------
(* A drain: _drainQueue.                                                    *)

\* The run moves on, with these rows ahead of it and this one in hand.
DrainGoto(d, pc, rows, item) ==
  /\ drainPc' = [drainPc EXCEPT ![d] = pc]
  /\ drainRows' = [drainRows EXCEPT ![d] = rows]
  /\ drainItem' = [drainItem EXCEPT ![d] = item]

NextSlot(active) == IF HasAvailableSlot(active) THEN "fetchReady" ELSE "leave"

\* Mutant: a drain does not recover the rows in completing.
FetchCompletingNothing(d) ==
  /\ drainPc[d] = "fetchCompleting"
  /\ DrainGoto(d, "recover", {}, 0)
  /\ UNCHANGED <<queue, store, listening, worker, waking, external, counters>>

FetchCompleting(d) ==
  /\ drainPc[d] = "fetchCompleting"
  /\ DrainGoto(d, "recover", {i \in Items : status[i] = "completing"}, 0)
  /\ UNCHANGED <<queue, store, listening, worker, waking, external, counters>>

RecoverNext(d) ==
  /\ drainPc[d] = "recover"
  /\ \E i \in Items :
       /\ IsFirst(i, drainRows[d])
       /\ DrainGoto(d, IF CanComplete(i) THEN "complete" ELSE "recover", drainRows[d] \ {i}, i)
  /\ UNCHANGED <<queue, store, listening, worker, waking, external, counters>>

RecoverEnd(d) ==
  /\ drainPc[d] = "recover" /\ drainRows[d] = {}
  /\ DrainGoto(d, NextSlot(activeUploadIds), {}, 0)
  /\ UNCHANGED <<queue, store, listening, worker, waking, external, counters>>

DrainAnswered(d) ==
  /\ drainPc[d] = "complete"
  /\ Answered(drainItem[d])
  /\ DrainTo(d, "writeDone")
  /\ UNCHANGED <<queue, store, listening, worker, waking, transfers, stt, counters>>

DrainUnanswered(d) ==
  /\ drainPc[d] = "complete"
  /\ Unanswered(drainItem[d])
  /\ DrainTo(d, "recover")
  /\ UNCHANGED <<queue, store, listening, worker, waking, transfers, stt, counters>>

DrainWriteDone(d) ==
  /\ drainPc[d] = "writeDone"
  /\ WriteDone(drainItem[d])
  /\ DrainTo(d, "requestStt")
  /\ UNCHANGED <<isProcessing, activeUploadIds, progressMap, listening, worker, waking, external, counters>>

DrainRequestStt(d) ==
  /\ drainPc[d] = "requestStt"
  /\ RequestSTTIfConsented(drainItem[d])
  /\ DrainTo(d, "recover")
  /\ UNCHANGED <<queue, store, listening, worker, waking, transfers, completed, counters>>

\* The query of _pickNextReadyItem takes its snapshot ...
FetchReady(d) ==
  /\ drainPc[d] = "fetchReady"
  /\ DrainGoto(d, "choose", {i \in Items : status[i] \in {"pending", "retrying"}}, 0)
  /\ UNCHANGED <<queue, store, listening, worker, waking, external, counters>>

\* Mutant: a recording being uploaded can be chosen again.
ChoosableTwice(d) == {i \in drainRows[d] : IsReady(i)}
Choosable(d) == {i \in drainRows[d] : RecordingOf[i] \notin activeUploadIds /\ IsReady(i)}

\* ... and the first candidate that is ready by now, and not active, is handed to a worker.
StartWorker(d) ==
  /\ drainPc[d] = "choose"
  /\ \E i \in Items :
       /\ IsFirst(i, Choosable(d))
       /\ activeUploadIds' = activeUploadIds \cup {RecordingOf[i]}
       /\ worker' = [worker EXCEPT ![i] = "start"]
  /\ DrainGoto(d, NextSlot(activeUploadIds'), {}, 0)
  /\ UNCHANGED <<queue, isProcessing, validUrls, progressMap, listening, waking, external, counters>>

NothingReady(d) ==
  /\ drainPc[d] = "choose" /\ Choosable(d) = {}
  /\ DrainGoto(d, "leave", {}, 0)
  /\ UNCHANGED <<queue, store, listening, worker, waking, external, counters>>

LeaveDrain(d) ==
  /\ drainPc[d] = "leave"
  /\ isProcessing' = FALSE
  /\ DrainGoto(d, "idle", {}, 0)
  /\ UNCHANGED <<queue, activeUploadIds, validUrls, progressMap, listening, worker, waking,
                 external, counters>>

-----------------------------------------------------------------------------
(* A worker: _processItem and, at its end, the finally of _drainQueue.      *)

Goto(i, pc) == worker' = [worker EXCEPT ![i] = pc]

\* Mutant: the worker of an unregistered recording returns without its finally.
StartReturns(i) ==
  /\ worker[i] = "start"
  /\ LET r == RecordingOf[i] IN
     \/ /\ r \notin Registered
        /\ Goto(i, "none")
        /\ UNCHANGED queue
     \/ /\ r \in Registered \ Checksummed
        /\ Goto(i, "finally")
        /\ SetStatus(i, "failed")
     \/ /\ r \in Registered \cap Checksummed
        /\ Goto(i, IF IsPresignedUrlValid(session[i]) THEN "markUploading" ELSE "presign")
        /\ UNCHANGED queue
  /\ UNCHANGED <<store, listening, drain, waking, external, counters>>

\* An unregistered recording leaves the row as it is; one without checksum fails it.
Start(i) ==
  /\ worker[i] = "start"
  /\ LET r == RecordingOf[i] IN
     \/ /\ r \notin Registered
        /\ Goto(i, "finally")
        /\ UNCHANGED queue
     \/ /\ r \in Registered \ Checksummed
        /\ Goto(i, "finally")
        /\ SetStatus(i, "failed")
     \/ /\ r \in Registered \cap Checksummed
        /\ Goto(i, IF IsPresignedUrlValid(session[i]) THEN "markUploading" ELSE "presign")
        /\ UNCHANGED queue
  /\ UNCHANGED <<store, listening, drain, waking, external, counters>>

\* The server opens a session, or returns one still open, for the recording.
Presigned(i) ==
  /\ worker[i] = "presign"
  /\ \E s \in ({RecordingOf[i]} \X SessionIds) \ completed :
       /\ session' = [session EXCEPT ![i] = s]
       /\ validUrls' = validUrls \cup {s}
  /\ Goto(i, "markUploading")
  /\ UNCHANGED <<status, attempts, due, isProcessing, activeUploadIds, progressMap, listening, drain, waking, external, counters>>

\* requestPresignedUrl threw: _markFailed at once, whatever attempts says.
PresignFailed(i) ==
  /\ worker[i] = "presign"
  /\ SetStatus(i, "failed")
  /\ Goto(i, "finally")
  /\ UNCHANGED <<store, listening, drain, waking, external, counters>>

\* Mutant: the status is advanced before the transfer, not after it.
MarkUploadingEarly(i) ==
  /\ worker[i] = "markUploading"
  /\ SetStatus(i, "completing")
  /\ Goto(i, "transfer")
  /\ UNCHANGED <<store, listening, drain, waking, external, counters>>

MarkUploading(i) ==
  /\ worker[i] = "markUploading"
  /\ SetStatus(i, "uploading")
  /\ Goto(i, "transfer")
  /\ UNCHANGED <<store, listening, drain, waking, external, counters>>

TransferProgress(i) ==
  /\ worker[i] = "transfer"
  /\ progressMap' = progressMap \cup {RecordingOf[i]}
  /\ UNCHANGED <<queue, isProcessing, activeUploadIds, validUrls, listening, drain, worker, waking,
                 external, counters>>

\* settleSuccess, then the write of status completing.  The completed event reports the end of
\* the request, also of one that the storage refused: its status is not looked at, and neither
\* does any step look at refused.
TransferCompleted(i) ==
  /\ worker[i] = "transfer"
  /\ sent' = sent \cup {session[i]}
  /\ \/ refused' = refused \ {session[i]}
     \/ RecordingOf[i] \in Refusable /\ refused' = refused \cup {session[i]}
  /\ progressMap' = progressMap \ {RecordingOf[i]}
  /\ SetStatus(i, "completing")
  /\ Goto(i, "complete")
  /\ UNCHANGED <<isProcessing, activeUploadIds, validUrls, listening, drain, waking,
                 completed, stt, counters>>

\* Mutant: one attempt too many.
AfterFailureOffByOne(i) ==
  IF attempts[i] + 1 > MAX_UPLOAD_ATTEMPTS THEN SetStatus(i, "failed")
  ELSE /\ status' = [status EXCEPT ![i] = "retrying"]
       /\ attempts' = [attempts EXCEPT ![i] = attempts[i] + 1]
       /\ due' = [due EXCEPT ![i] = FALSE]
       /\ UNCHANGED session

\* Mutant: the failure of a transfer is not written.
AfterFailureUnwritten(i) == UNCHANGED queue

\* The row after a transfer that failed: it waits for its backoff, or has used its last attempt.
AfterFailure(i) ==
  IF attempts[i] + 1 >= MAX_UPLOAD_ATTEMPTS THEN SetStatus(i, "failed")
  ELSE /\ status' = [status EXCEPT ![i] = "retrying"]
       /\ attempts' = [attempts EXCEPT ![i] = attempts[i] + 1]
       /\ due' = [due EXCEPT ![i] = FALSE]
       /\ UNCHANGED session

\* Mutant: settleFailure forgets clearProgress.
TransferFailedKeepsProgress(i) ==
  /\ worker[i] = "transfer"
  /\ AfterFailure(i)
  /\ Goto(i, "finally")
  /\ UNCHANGED <<store, listening, drain, waking, external, counters>>

\* settleFailure: an error or cancelled event, or startUpload itself threw.
TransferFailed(i) ==
  /\ worker[i] = "transfer"
  /\ progressMap' = progressMap \ {RecordingOf[i]}
  /\ AfterFailure(i)
  /\ Goto(i, "finally")
  /\ UNCHANGED <<isProcessing, activeUploadIds, validUrls, listening, drain, waking,
                 external, counters>>

WorkerAnswered(i) ==
  /\ worker[i] = "complete"
  /\ Answered(i)
  /\ Goto(i, "writeDone")
  /\ UNCHANGED <<queue, store, listening, drain, waking, transfers, stt, counters>>

\* Mutant: a failed completion is retried as a failed upload.
WorkerUnansweredRetries(i) ==
  /\ worker[i] = "complete"
  /\ Unanswered(i)
  /\ AfterFailure(i)
  /\ Goto(i, "finally")
  /\ UNCHANGED <<store, listening, drain, waking, transfers, stt, counters>>

\* Mutant: transcription is requested whether or not the completion was answered.
WorkerUnansweredRequests(i) ==
  /\ worker[i] = "complete"
  /\ Unanswered(i)
  /\ Goto(i, "requestStt")
  /\ UNCHANGED <<queue, store, listening, drain, waking, transfers, stt, counters>>

\* The error is swallowed; the row stays completing for a later drain.
WorkerUnanswered(i) ==
  /\ worker[i] = "complete"
  /\ Unanswered(i)
  /\ Goto(i, "finally")
  /\ UNCHANGED <<queue, store, listening, drain, waking, transfers, stt, counters>>

WorkerWriteDone(i) ==
  /\ worker[i] = "writeDone"
  /\ WriteDone(i)
  /\ Goto(i, "requestStt")
  /\ UNCHANGED <<isProcessing, activeUploadIds, progressMap, listening, drain, waking, external, counters>>

WorkerRequestStt(i) ==
  /\ worker[i] = "requestStt"
  /\ RequestSTTIfConsented(i)
  /\ Goto(i, "finally")
  /\ UNCHANGED <<queue, store, listening, drain, waking, transfers, completed, counters>>

Finally(i) ==
  /\ worker[i] = "finally"
  /\ activeUploadIds' = activeUploadIds \ {RecordingOf[i]}
  /\ Goto(i, "none")
  /\ ProcessQueue
  /\ UNCHANGED <<queue, validUrls, progressMap, listening, waking, external, counters>>

-----------------------------------------------------------------------------
(* Clocks, and the death of the process.                                    *)

BackoffElapses(i) ==
  /\ ~due[i]
  /\ due' = [due EXCEPT ![i] = TRUE]
  /\ UNCHANGED <<status, attempts, session, store, listening, drain, worker, waking, external, counters>>

UrlExpires(s) ==
  /\ s \in validUrls
  /\ validUrls' = validUrls \ {s}
  /\ UNCHANGED <<queue, isProcessing, activeUploadIds, progressMap, listening, drain, worker, waking,
                 external, counters>>

\* The process dies: the table and the servers stay, the store and every suspended function are
\* lost, and a completion that was on the wire may still arrive.  Nobody hears of a transfer that
\* the system goes on with.
Crash ==
  /\ crashes < MaxCrashes
  /\ crashes' = crashes + 1
  /\ \E reached \in SUBSET {session[i] : i \in
          {j \in Items : worker[j] = "complete" \/ \E d \in Drains : drainPc[d] = "complete" /\ drainItem[d] = j}} :
       completed' = completed \cup reached
  /\ isProcessing' = FALSE /\ activeUploadIds' = {} /\ validUrls' = {} /\ progressMap' = {}
  /\ listening' = FALSE
  /\ drainPc' = [d \in Drains |-> "idle"]
  /\ drainRows' = [d \in Drains |-> {}] /\ drainItem' = [d \in Drains |-> 0]
  /\ worker' = [i \in Items |-> "none"]
  /\ waking' = {}
  /\ UNCHANGED <<queue, transfers, stt, resubmits>>

-----------------------------------------------------------------------------
DrainStep(d) ==
  \/ FetchCompleting(d) \/ RecoverNext(d) \/ RecoverEnd(d)
  \/ DrainAnswered(d) \/ DrainUnanswered(d) \/ DrainWriteDone(d) \/ DrainRequestStt(d)
  \/ FetchReady(d) \/ StartWorker(d) \/ NothingReady(d) \/ LeaveDrain(d)

WorkerStep(i) ==
  \/ Start(i) \/ Presigned(i) \/ PresignFailed(i) \/ MarkUploading(i)
  \/ TransferProgress(i) \/ TransferCompleted(i) \/ TransferFailed(i)
  \/ WorkerAnswered(i) \/ WorkerUnanswered(i) \/ WorkerWriteDone(i) \/ WorkerRequestStt(i)
  \/ Finally(i)

CallerStep(i) == Enqueue(i) \/ RetryUpload(i) \/ Wake(i)

Environment ==
  \/ InitQueue \/ DestroyQueue \/ Reconnect \/ Crash
  \/ \E i \in Items : BackoffElapses(i)
  \/ \E s \in Sessions : UrlExpires(s)

Next == \/ \E d \in Drains : DrainStep(d)
        \/ \E i \in Items : WorkerStep(i) \/ CallerStep(i)
        \/ Environment

Spec == Init /\ [][Next]_vars

-----------------------------------------------------------------------------
(* Safety.                                                                  *)

\* Every variable holds a value the code can put there; a row's session belongs to its recording.
TypeOK ==
  /\ status \in [Items -> Status] /\ attempts \in [Items -> 0..(MAX_UPLOAD_ATTEMPTS - 1)]
  /\ due \in [Items -> BOOLEAN] /\ session \in [Items -> Sessions \cup {NoSession}]
  /\ \A i \in Items : session[i] \in ({RecordingOf[i]} \X SessionIds) \cup {NoSession}
  /\ isProcessing \in BOOLEAN /\ activeUploadIds \subseteq Recordings
  /\ validUrls \subseteq Sessions /\ progressMap \subseteq Recordings
  /\ listening \in BOOLEAN
  /\ drainPc \in [Drains -> DrainPc]
  /\ drainRows \in [Drains -> SUBSET Items] /\ drainItem \in [Drains -> Items \cup {0}]
  /\ worker \in [Items -> WorkerPc]
  /\ waking \subseteq Items
  /\ sent \subseteq Sessions /\ refused \subseteq Sessions /\ completed \subseteq Sessions /\ stt \subseteq Recordings
  /\ crashes \in 0..MaxCrashes /\ resubmits \in 0..MaxResubmits

\* The isProcessing flag keeps every two runs of _drainQueue apart, whoever calls processQueue.
AtMostOneDrain == \A d, e \in Drains : drainPc[d] # "idle" /\ drainPc[e] # "idle" => d = e

Working == {i \in Items : worker[i] # "none"}

\* No more than MAX_CONCURRENT_UPLOADS _processItem calls are ever in flight: the slot seen
\* free before the query of _pickNextReadyItem is still free after it.
SlotLimit == Cardinality(Working) <= MAX_CONCURRENT_UPLOADS

\* What turns callers away belongs to somebody who will give it back: isProcessing to a drain that
\* runs, and each slot to a worker, whatever early returns, failures and kills ended the others.
HeldByRunning ==
  /\ isProcessing <=> \E d \in Drains : drainPc[d] # "idle"
  /\ activeUploadIds = {RecordingOf[i] : i \in Working}

\* Two rows of one recording, enqueued twice, are never worked on at the same time.
OneUploadPerRecording ==
  \A i, j \in Working : RecordingOf[i] = RecordingOf[j] => i = j

\* While _processItem is between two awaits nobody else changes the status it relies on:
\* not a drain recovering completing rows, not the resend button.
WorkerOwnsRow ==
  \A i \in Items :
    /\ worker[i] \in {"start", "presign", "markUploading"} => status[i] \in {"pending", "retrying"}
    /\ worker[i] = "transfer" => status[i] = "uploading"
    /\ worker[i] \in {"complete", "writeDone"} => status[i] \in {"completing", "done"}
    /\ worker[i] = "requestStt" => status[i] = "done"

\* A row shown as done was sent to the end and its session completed at the server, whoever wrote
\* done: the worker, or a drain after a restart, though the server is not assumed to verify the
\* upload.  That the storage took the bytes does not follow: a refused PUT counts as sent.
DoneIsSent ==
  \A i \in Items : status[i] = "done" => session[i] \in sent \cap completed

\* Transcription is requested only for a recording one of whose rows is done.
SttOnlyAfterUpload ==
  \A r \in stt : \E i \in Items : RecordingOf[i] = r /\ status[i] = "done"

\* A progress bar shows only while the recording's file is being sent, restarts included.
ProgressOnlyInTransfer ==
  \A r \in progressMap : \E i \in Items : RecordingOf[i] = r /\ worker[i] = "transfer"

\* Once the file was sent the row only completes: no failure of the completion call, no restart
\* and no press of the resend button makes the file be sent again.
NeverResent ==
  [][\A i \in Items : status[i] \in {"completing", "done"} =>
       status'[i] \in {"done", status[i]}]_vars

-----------------------------------------------------------------------------
(* The inductive invariants behind the safety properties.                   *)

Sent == {"completing", "done"}

\* What the status of a row says of its session, at the storage and at the server.
RowData ==
  \A i \in Items :
    /\ status[i] \in Sent \cup {"uploading"} => session[i] # NoSession
    /\ status[i] \in Sent => session[i] \in sent
    /\ status[i] = "done" => session[i] \in completed

\* What a suspended worker relies on besides the status.
WorkerData ==
  \A i \in Items :
    /\ worker[i] = "markUploading" => session[i] # NoSession
    /\ worker[i] = "writeDone" => session[i] \in completed

\* The rows a recovering drain holds were sent, and stay so behind its back.
DrainData ==
  \A d \in Drains :
    /\ drainPc[d] \in {"recover", "complete", "writeDone", "requestStt"} =>
         \A i \in drainRows[d] : status[i] \in Sent
    /\ drainPc[d] \in {"complete", "writeDone", "requestStt"} =>
         drainItem[d] \in Items /\ status[drainItem[d]] \in Sent
    /\ drainPc[d] = "writeDone" => session[drainItem[d]] \in completed
    /\ drainPc[d] = "requestStt" => status[drainItem[d]] = "done"

DeliveryInv ==
  TypeOK /\ RowData /\ WorkerOwnsRow /\ WorkerData /\ DrainData
  /\ SttOnlyAfterUpload /\ ProgressOnlyInTransfer

\* A row in uploading is being sent, or was by a worker that is gone.
UploadingIsTransfer ==
  \A i \in Items : status[i] = "uploading" => worker[i] \in {"transfer", "none"}

\* Only the run that set isProcessing drains; every worker's recording holds a slot, and a slot
\* seen free stays free until that run takes it.
SlotInv ==
  /\ AtMostOneDrain
  /\ \A d \in Drains : drainPc[d] # "idle" => isProcessing
  /\ OneUploadPerRecording
  /\ \A i \in Working : RecordingOf[i] \in activeUploadIds
  /\ IsFiniteSet(activeUploadIds) /\ Cardinality(activeUploadIds) <= MAX_CONCURRENT_UPLOADS
  /\ \A d \in Drains : drainPc[d] \in {"fetchReady", "choose"} => HasAvailableSlot(activeUploadIds)

-----------------------------------------------------------------------------
(* Liveness.  Fairness: the event loop runs every suspended function, a      *)
(* clock goes on, and a completion that is reported again and again of a     *)
(* session whose bytes the storage took is once answered.                    *)

CompletionAnswered(i) ==
  /\ session[i] \notin refused
  /\ \/ WorkerAnswered(i)
     \/ \E d \in Drains : drainItem[d] = i /\ DrainAnswered(d)

Fairness ==
  /\ \A d \in Drains : WF_vars(DrainStep(d))
  /\ \A i \in Items : /\ WF_vars(WorkerStep(i)) /\ WF_vars(Wake(i))
                      /\ WF_vars(BackoffElapses(i))
                      /\ SF_vars(CompletionAnswered(i))

\* What the code gives: it has no timer, and initQueue no caller in this tree.
FairSpec == Spec /\ Fairness
\* An assumption on the caller that is to come: a started app initialises the queue.
FairStartSpec == FairSpec /\ WF_vars(InitQueue)
\* And one on the network: it comes back again and again.
FairNetworkSpec == FairStartSpec /\ WF_vars(Reconnect)

\* And a row that is choosable again and again is once chosen.
FairPickSpec ==
  FairNetworkSpec /\ \A i \in Items : SF_vars(\E d \in Drains : StartWorker(d) /\ worker'[i] = "start")

Waiting(i) == status[i] \in {"pending", "retrying", "uploading", "completing"}
Settled(i) == status[i] \in {"done", "failed"}
\* No code path leads out of uploading but the one of the worker that a crash has removed.
Stranded(i) == status[i] = "uploading" /\ worker[i] = "none"

\* Only a kill strands rows, and none more than were being sent when it came.
KillsStrandWhatIsSent ==
  Cardinality({i \in Items : Stranded(i)}) <= crashes * MAX_CONCURRENT_UPLOADS

\* Nothing sends again what the storage has refused, and a server that looks for the bytes never
\* completes it.
Refused(i) == status[i] = "completing" /\ session[i] \in refused
AllRegistered == \A i \in Items : RecordingOf[i] \in Registered

\* If the queue is initialised, and woken by the network again and again, and if every recording in
\* it is registered: each row is eventually done or failed, unless a crash interrupted its transfer
\* or the storage refused its file.
SettlesOrStrands ==
  \A i \in Items : AllRegistered /\ Waiting(i) ~> Settled(i) \/ Stranded(i) \/ Refused(i)

\* A transfer that the death of the app interrupted is resumed after the restart.
InterruptedUploadResumes == \A i \in Items : Stranded(i) ~> ~Stranded(i)

\* A row whose backoff has elapsed is taken up again.
ElapsedBackoffIsRetried ==
  \A i \in Items : (status[i] = "retrying" /\ due[i]) ~> (status[i] # "retrying")

\* A row ready for upload is eventually picked, whatever rows stand before it.
ReadyRowIsPicked ==
  \A i \in Items : RecordingOf[i] \in Registered =>
    (status[i] = "pending") ~> (status[i] # "pending")

-----------------------------------------------------------------------------
(* UploadService implements UploadOutbox.                                   *)

PhaseOf(s) == CASE s = "absent" -> "absent"
                [] s = "failed" -> "failed"
                [] s = "done"   -> "delivered"
                [] OTHER        -> "waiting"
ArchiveOf(C) == {r \in Recordings : \E n \in SessionIds : <<r, n>> \in C}

phase == [i \in Items |-> PhaseOf(status[i])]
archive == ArchiveOf(completed)

Outbox == INSTANCE UploadOutbox WITH phase <- phase, archive <- archive
\* The queue keeps the promise of the abstract outbox.
OutboxSpec == Outbox!Spec
=============================================================================
