# TLA+ models of the IBK STT mobile app

The app (React Native, TypeScript) records meetings, uploads the audio, has it
transcribed and shows lists, details and transcripts. This directory holds TLA+
modules for the parts of it where several asynchronous functions share state,
TLC configurations that check them on small instances, and TLAPS proofs for
every value of the constants. Paths below are relative to the repository.

## 1. Inventory

JavaScript runs one callback at a time, so there are no data races; what
interleaves are the continuations of `async` functions. Everything that was
read before an `await` may be stale after it, and a kill of the app loses every
suspended function and every Zustand store while the database, the keychain and
the servers stay.

| component | state it keeps | operations | talks to |
| --- | --- | --- | --- |
| Upload queue: `features/upload/uploadService.ts`, `uploadQueue.ts`, `stores/uploadQueueStore.ts`, table `local_upload_queue` | rows (status, attempts, next_retry_at, session), `isProcessing`, `activeUploadIds`, URL cache, progress | `initQueue`, `destroyQueue`, `processQueue`, `enqueueUpload`, `retryUpload` | database, API server, object storage, keychain (consent), NetInfo |
| Authentication: `stores/authStore.ts`, `auth/tokenStorage.ts`, `auth/providers/*`, `navigation/AuthGate.tsx` | status, session, three keychain entries | `bootstrap`, `login`, `logout` | keychain, auth server; the API client reads the access token |
| Recording list: `stores/recordingListStore.ts`, `recordingListScreen.tsx`, `recordingDetailScreen.tsx`, `api/recordings.ts` | items, filter, sort, flags | load, refresh, poll, delete, star, edit, request a transcription | API server; detail calls `retryUpload` |
| Recording session: `RecordingScreen.tsx` | recorder, elapsed, dialog, file | start, pause, stop, save, cancel | native recorder, API server; writes the recording list |
| Transcript: `stores/transcriptStore.ts`, `TranscriptScreen.tsx` | recording, segments, pending edits | load, edit, save, reset | API server |
| Search: `stores/searchStore.ts`, `SearchScreen.tsx` | query, results, recent queries | search, commit, remove | API server |
| API client, navigation, library filters, static screens, theme, native shells | none that a protocol depends on | | |

What is hard in each, and what makes it correct:

* **Upload queue.** Up to `MAX_CONCURRENT_UPLOADS` workers and a drain are
  suspended at once; five places call `processQueue`. Answers get lost,
  transfers fail, the app is killed. Correct means: at most one drain, no slot
  overrun, no slot or `isProcessing` left behind by somebody who has ended, no two
  uploads of one recording, nobody changes a row under its
  worker, done implies sent to the end and completed by the server, transcription
  only after that, a sent file is never sent again, and a row of a registered
  recording ends done or failed when the queue is woken often enough, unless a kill
  met it in its transfer or the storage refused its file.
* **Authentication.** Three keychain entries written in parallel, `logout`
  without a guard, errors swallowed. Correct means: what is restored at boot is
  one session that was saved and not logged out since, and the API client's
  token is the session's.
* **Recording list.** Loads answered out of order, rounds of polling that go on
  through a list which is replaced, deleted from or edited meanwhile. Correct
  means: no spinner outlives its load (a stuck one blocks the next refresh), a
  late answer neither revives a card nor undoes a title, and polling alone shows
  that a meeting in processing has finished. A poll answered before the
  transcription began can end the polling of its card; then only a load does.
* **Recording session.** A list captured before an upload and written back after
  it, uploads that outlive their screen, an answer that is lost after the server
  made the meeting. Correct means: no meeting is listed twice, a recording
  becomes one meeting, a dialog that is shown has its file and can be saved again
  after a failure, and saving changes nothing else in the list.
* **Transcript.** Answers that arrive for what is no longer open. Correct means:
  what the user typed is neither taken back by an answer nor carried to another
  recording, and the overlay that blocks the screen goes away.

`PROJECT.json` lists every component with its status and every hazard at its
line.

## 2. Modules

| module | models |
| --- | --- |
| `UploadOutbox` | the abstract promise of the upload queue: a row waits, and is delivered (the server has accepted the recording) or given up until it is handed over again |
| `UploadService` | the upload queue as coded, its properties, inductive invariants and refinement mapping |
| `MCUploadService` | values of the constants for TLC |
| `UploadServiceProofs` | inductive invariants and safety properties proved |
| `UploadOutboxProofs` | the proof that `UploadService` implements `UploadOutbox` |
| `AuthSession` | bootstrap, login and logout over the three keychain entries |
| `AuthSessionProofs` | its inductive invariant and its safety properties proved |
| `MeetingList` | the list store with its loads, its polling, and what the list and the detail screen change; `Added` states what it expects of a save |
| `MeetingListProofs` | types, spinners, and what may become of a card |
| `RecordingSession` | extends `MeetingList` by the recording screens and their uploads; `ListSpec`, checked and proved, says that the composition implements the list |
| `MCRecordingSession` | the symmetry of its small instance for TLC |
| `RecordingSessionProofs` | its inductive invariant, its safety properties, and `ListSpec` |
| `Transcript` | the transcript store and its screen |
| `TranscriptProofs` | its safety properties |

Modules without an `MC` module are checked as they are: their constants are small
sets of strings given in the `.cfg`.

### UploadService and the code

*State.* A queue row is its columns: `status`, `attempts`, `due` (has
`next_retry_at` passed) and `session` (`upload_session_id`). `isProcessing`,
`activeUploadIds`, `validUrls` (the cache entries that `isPresignedUrlValid`
accepts) and `progressMap` are the Zustand store. `drainPc`, `drainRows`,
`drainItem` hold each suspended run of `_drainQueue`; `worker` each suspended
`_processItem`; `waking` the callers of `enqueueUpload` and `retryUpload` whose
write has not returned. `sent` and `refused` are what is on the other side of the
PUT: the sessions whose transfer was reported completed, and those whose last PUT
the storage refused all the same. `completed` and `stt` are the API server and the
transcriptions requested.

*Steps.* A step is an awaited operation taking effect together with the code up
to the next await. The drain: `FetchCompleting`, `RecoverNext`/`RecoverEnd` and
`DrainAnswered` to `DrainRequestStt` for `_handleCompleting`, then `FetchReady`,
`StartWorker`/`NothingReady`, `LeaveDrain` (the `finally` of `processQueue`). The
worker: `Start`, `Presigned`/`PresignFailed`, `MarkUploading`,
`TransferProgress`, `TransferCompleted`/`TransferFailed`, `WorkerAnswered` to
`WorkerRequestStt`, `Finally` (frees the slot and calls `processQueue`). The
callers: `InitQueue`, `DestroyQueue`, `Reconnect`, `Enqueue`, `RetryUpload`,
`Wake`. `BackoffElapses` and `UrlExpires` are clocks; `Crash` kills the app:
rows and servers stay, requests on the wire may still arrive.

*Data left out.* File bytes, checksums' values, URLs, error texts, timestamps,
`bytes_uploaded`. Whether a recording is registered and has a checksum is a
constant: nothing in the tree writes `local_recordings`.

*Foldings and assumptions.* A database write is folded into the step of the
network answer that causes it: WatermelonDB runs writers in call order, no
query that matters can fall between, and a crash before the write equals one
before the answer. `retryUpload` checks and writes in one step: with status
`failed` only another `retryUpload` writes the row, and it writes the same.
Database operations do not fail. The server opens, or returns, a session that
is not completed; it answers 409 only for a session completed before (this is
how `ApiError.isAlreadyCompleted` reads it) and is *not* assumed to verify that
it holds the bytes. A completed event means that the request was answered, whatever
the answer: the code takes one with any HTTP status for success
(`uploadService.ts:300`), so that `TransferCompleted` leaves open whether the storage
refused the file, and goes on to completing. A refused file can therefore end as a row
that is done; or its row stays completing, if the server looks for the bytes.

### AuthSession and the code

*State.* `status`, `session`, `isSubmitting` are the Zustand store; `session` is a
triple (access, refresh, meta) of the sessions the parts come from, so that a
mixture can be told from a session. `keychain` is the three entries, and
`operations` the writes and erasures issued and not executed: `saveSession` issues
three at once (`Promise.all`), `clear` likewise (`Promise.allSettled`), and
react-native-keychain executes them in the order they were issued, each of which may
fail. `autoLogin` is a development build with the mock provider. `pc` and `current`
hold the suspended calls: the bootstrap, the login and any number of logouts.
`confirming` is the alert of `ProfileScreen`, which survives a change of screen.
`issued`, `expired` and `ended` are the server's sessions, those about to expire,
and those logged out. `crashes`, `faults` and `cuts` are history: kills, failed
keychain calls, and the kills that came while keychain operations were on their way.

*Steps.* `LoadNothing`, `LoadSession`, `LoadExpired`, `LoadDamaged`, `LoadFails`
are the outcomes of `loadSession`; `BootObtains`, `RefreshRefused`,
`AutoLoginRefused` those of the provider; `Login`, `LoginObtains`,
`LoginRefused`, and `AskLogout`, `ConfirmLogout`, `LogoutAnswered` the two other
operations. A keychain operation and the continuation it wakes are one step:
`EntryWritten`, `SessionSaved`, `SaveRejected` (the rest of a rejected save stays
on its way, `Abandoned`), `EntryKept`, `Cleared`, `DamageErased`. `Expire` is the
clock, `Crash` a kill.

*Left out.* Error texts, user data, the kind of credentials. The three reads of
`loadSession` are one step, because nothing else runs while the splash screen
shows. Repeated logins cannot overlap: the buttons are disabled.

### MeetingList, RecordingSession and the code

*State of the list.* `items` gives each meeting the sequence of its cards; a
sequence, so that a meeting listed twice is a state. The order of different
meetings is left out: no property is about it, and filters and sorting only
select what is displayed. A card is its transcription state and what the user
changed on it. `isLoading` and `isRefreshing` are the store's flags; `load`,
`listed` the calls of `loadList` and their answers; `polling`, `detail` the
rounds of `poll`: what each has yet to ask for, and the answer that waits to be
applied. `status` is the server.

*Steps of the list.* `LoadShown`, `LoadForeground` and `Refresh` are the three
callers of `loadList`, `ServerLists` the answer on its way, `ListLoaded` and
`LoadFails` its end (the `finally` resets both flags, whoever set them).
`PollStart` takes the meetings in processing, `ServerDescribes`/`PollAnswered`
and `PollFails` are one turn of its loop each. `ToggleStar`, `EditTitle`,
`RequestTranscription` and `Delete` are the user's; their server calls are stubs
in `api/recordings.ts` that resolve at once. `Create` and `Advance` are the
server's own progress. `mapStatusCode` and `toCache` are modelled by what they
do: a listed meeting is shown as completed, and one accepted and not begun is
described as not requested.

*State and steps of the session.* Per visit to the screen: `screen`, `recorder`,
`stopping` (`stopRecorder` awaited), `hasFile`, `modal`, `isSaving`; `alert` is the
alert in front, which asks whether to cancel or reports that the recorder did not
start, and outlives the screen that raised it; per upload its phase, its screen, the
list captured in the closure of `onSave`, and the meeting it made. `made` and
`lost` are history. `Mount` to `StopRejected` are the recorder, `Save`,
`ServerStores`, `SaveAnswered`, `SaveFails` an upload, `AskCancel` to
`StartFailureSeen` the dialog and the alerts. `SaveFails` ends an upload the server
may already have stored; a second press then makes a second meeting. What a screen
that was left would still set is dropped with its state, but its continuation writes
the list all the same, and goes back.

`navigation.goBack()` takes away the screen on top of the one stack of `MainStack`,
whichever screen calls it. `GoBack` is that call: the recording screen that is open
goes, with its dialog and its file; without one, a screen that is not in this module
goes, or none. It is called by the answer to an upload (`RecordingScreen.tsx:199`,
also when its screen was left), by the confirmed cancellation (`:219`) and by the alert
of a failed start (`:123`). One alert is in front at a time: on Android a new one takes
the place of the old, and where they are stacked the older ones can only go back from
what lies under the recording. An alert keeps the user from the screens below it.

*Left out.* Pausing, elapsed time, waves and the title; `appendItems`,
`restoreItem` and `reset`, which no code path reaches; `retryTranscription`,
which ends in an alert because no card has a `transcriptionId`. Two presses of
stop before the first is answered count as one. The refinement checks one load
and no polls beside two screens, because a save touches neither; the proof has
any number of both.

### Transcript and the code

`recordingId`, `segments`, `editMode`, `pendingEdits`, `isLoading`, `error` are
the store, `editing` the tab of the screen, `call` the loads under way.
`Enter`, `Retry`, `Loaded`, `LoadFails` are `loadTranscript`, whose answer is
written into whatever the store holds by then; `EditedTab`, `OriginalTab`,
`EditSegment`, `SaveEdits` and `Leave` the user. A text is told apart by where it
comes from: the server, or the recording it was typed for. All transcripts number
their segments alike, `seg-0` to their length, which is what could carry an edit to a
foreign one; a segment that a shorter transcript has not is a text `None`, and
`Loaded` brings one of any length.
`saveTranscriptEdits` is a stub, so that `saveEdits` is one step. That a late
answer fills the screen with another recording's segments until the next answer
is in the model, as in the code; `EditsStayWithRecording` is about what was typed.
When the late answer is a shorter transcript, or an empty one, `saveEdits` has no
segment to write some of the edits to and drops them: `EditsLeaveSaved` names this as
its exception, an edit whose segment is not there at the time of saving.

## 3. Runs

| run | question | bounds | result |
| --- | --- | --- | --- |
| `upload_crash` | do slots, drains, delivery and resending hold under failures and a kill at any point? is a slot or `isProcessing` ever leaked, and how many rows can a kill strand? | 3 rows (the last unregistered), 1 slot, 2 attempts, 2 drains, 1 crash | holds |
| `upload_double_enqueue` | one recording enqueued twice behind another without checksum, with a resend; and is every step one of the outbox? | 3 rows of 2 recordings, 2 slots, 2 sessions, 1 attempt, 1 resend | holds |
| `upload_settles` | does every row end done or failed, if the queue is initialised, the network comes back again and again and all recordings are registered? | 2 rows, one without checksum, 1 slot, 2 attempts, 1 resend, 1 crash, the storage may refuse either file | holds, but for a row killed in uploading and one whose file the storage refused |
| `upload_interrupted` | is an interrupted upload resumed? | 1 row, 1 crash | **violated** |
| `upload_backoff` | is a row taken up when its backoff elapses? | 1 row, 2 attempts | **violated** |
| `upload_hol` | is a ready row picked whatever stands before it? | 3 rows, 2 of them unregistered, 2 slots | **violated** |
| `auth_session` | does the keychain at rest hold the session in use? can a boot restore tokens older than the expiry time it checked, or of a session logged out, or of two sessions after one interrupted batch? do the splash screen and the disabled buttons end, and has every busy flag a call that will clear it? | 2 sessions, 2 logouts, 3 mishaps (kills or failing keychain calls), both kinds of build | holds |
| `auth_mixed` | is what a boot restores one session? | 2 sessions, 1 logout, 2 mishaps | **violated** |
| `meetings` | do spinners end with their loads, does nothing but a load or a save revive a card, does a title survive the polls, does polling show what has finished? | 1 meeting, 2 loads, 2 rounds of polling, all statuses | holds |
| `recording_session` | no duplicates, one meeting of a recording, a failed save can be repeated as long as its dialog is shown; is every step one of the list? | 2 meetings, 1 load, 2 screens, 2 uploads, up to symmetry | holds |
| `save_drops` | does saving only add to the list? | 2 meetings, 1 load, 1 screen, 1 upload | **violated** |
| `transcript` | do edits survive late answers and stay with their recording, does the overlay end? | 2 recordings, transcripts of 0 to 2 segments, 3 calls | holds, but for edits of segments that a shorter late transcript has not |

*Why the bounds are enough.* The interesting interleavings involve two rows and one
contended slot (a third that frees it unchanged shows the early return), one
recording twice and two slots, or a worker and a drain on the same row; two attempts
distinguish the last from an earlier one; two drain identities let a broken
`isProcessing` guard show; one crash reaches every suspended state. More of each
only repeats these, and the safety properties of the queue are proved for all
values. `Refusable` bounds which files the storage may refuse. No guard and no safety
property reads `refused`, which only remembers the storage's verdict; the other runs of
the queue therefore leave it empty, and `upload_settles`, whose property does read it,
lets either file be refused. For `AuthSession` two sessions are one stored and one half written over it;
two logouts are the late one and the one it follows; of three mishaps one spoils a
save, one the clear after it, and one kills the app in between, and two kills are
what it takes to mix two sessions: one leaves remains, the next cuts a write short.
`MetaIsOldest` says what still holds of the mixture, because the meta entry is
written last. A second session over remains of an earlier mixture only shifts the
numbers, and all the invariants are proved for any number. `MetaIsOldest`,
`LogoutErases` and `WholeUnlessCutTwice` are stated for runs in which no keychain
call has failed: `clear` ignores those (`Promise.allSettled`, by its comment on
purpose), and the token stays. In `meetings` the cards of different meetings do not
depend on each other but through the flags and the replacement of the whole list, so
one meeting with two overlapping loads and rounds shows every order; the safety
properties are proved for any number. `recording_session` needs two screens and two
uploads for an upload that outlives its screen beside the save of the next
recording, and two meetings to tell theirs apart; nothing tells one meeting, visit or
upload from another, so that `MCRecordingSession` gives TLC their permutations. In
`transcript` two calls of
screens left before and a third that is loading are all that can disagree.

*Findings.* The violated properties are sentences of the design document
`docs/spec-upload-filemanager.md` or of a comment; `PROJECT.json` quotes them. In
short: a kill during the transfer leaves a row in `uploading`, which no query
selects and `retryUpload` refuses; nothing wakes the queue when a backoff elapses;
two rows whose recordings are not registered start and finish in a busy loop and
starve the rows behind them. A logout killed after the first erasure and a login
killed after the first write leave three entries of two sessions, which the next
boot restores as one. `WholeUnlessCutTwice` is the bound on this finding: one
interrupted batch never suffices. `KillsStrandWhatIsSent` is the bound on the first:
each kill strands at most `MAX_CONCURRENT_UPLOADS` rows, and nothing but a kill
strands any. The list that `onSave` writes is the one captured when save was
pressed: what a load or a poll brought while the upload was awaited is dropped,
although the comment there speaks of adding to the front.

One more divergence has no run, because it is a single step: the document says
`failed` means five attempts used up (`spec-upload-filemanager.md:67`) and that
an offline app queues and resumes (`:34`), but one failed presign request fails a
row at once (`uploadService.ts:193`), also when the app is merely offline.

### Fairness

`Fairness` states what the runtime gives: the event loop runs every suspended
function (`WF` of each drain and worker), a caller's write returns, the clock
goes on. A completion request that is made again and again for a file the storage did
not refuse is once answered (`SF`): without it no protocol could complete.
`FairStartSpec` adds that the queue is initialised, which the code does not give:
`initQueue` has no caller in the tree, and a caller is assumed. `FairNetworkSpec` adds
that NetInfo reports a connection again and again. This is what `SettlesOrStrands`
really rests on: the code has no timer, and a wake-up that meets a drain past its last
query is lost, so only a later event picks the row up. The recurring connection hides
both, and `SettlesOrStrands` shows nothing of either; `upload_backoff` checks the same
system without it and finds the row waiting for ever. `SettlesOrStrands` asks further
that every recording is registered: `upload_hol` shows that others never settle and
keep rows behind them from it. `FairPickSpec` adds strong
fairness of picking each row, so that the starvation in `upload_hol` is due to
the code's order and not to the scheduler.

`FairSpec` of `AuthSession` assumes that the keychain and the provider answer or
fail, and that the event loop runs what they resume (`WF` of the boot's, the
keychain's and the login's steps). `fetch` has no timeout in this code, so that
the provider answers is an assumption on the network; it is listed as a hazard.

`PollFairness` of `MeetingList`: the interval timer starts rounds, an answer that
has arrived is applied, a request that is never answered fails (`WF`), and a
meeting asked for in round after round is once described (`SF`): each round has
one try per meeting and skips it on failure. Nothing is assumed of loads, so that
`PollSettles` rests on polling alone. `ListFairSpec` lets a save leave the other cards
as they are (`OnlyAdded`), which `save_drops` shows that the code does not promise: a
stale list could take any card out of processing. And `PollSettles` asks that no round
still awaits an answer about the meeting from before it finished: one that says not
requested is written, the card is polled no more (`recordingListScreen.tsx:154`), and
without a load it never shows the end. `FairSpec` of `Transcript` assumes that every
call is answered or fails.

## 4. Proofs

`UploadServiceProofs` proves, for any number of rows, recordings, sessions,
drains, attempts, slots, crashes and resends, from the named assumptions of
`UploadService`:

* `DeliveryInvariant`. The safety properties are not inductive. `DoneIsSent`
  needs to know that a row in `completing` is sent, that a worker before the
  write of done holds a completed session, and that the rows a *drain* remembers
  from its query are still sent when it reaches them, although workers ran in
  between. `DeliveryInv` conjoins `TypeOK`, `RowData` (what a status says of the
  session), `WorkerOwnsRow`, `WorkerData`, `DrainData`, `SttOnlyAfterUpload` and
  `ProgressOnlyInTransfer`. `DoneIsSent`, `WorkerOwnsRow` and the others follow.
* `SlotInvariant`. `SlotLimit` needs that each worker's recording is in
  `activeUploadIds`, that workers have different recordings (so `RecordingOf` is
  an injection from workers into the slots), and that a slot seen free before
  the query is free after it, which holds because only the one drain takes slots.
* `HeldByRunningHolds`. What turns callers away is never leaked: `isProcessing` is
  set exactly while a drain runs, and `activeUploadIds` holds exactly the recordings
  of the workers. `SlotInv` is the one direction (who runs holds); this is the other,
  over every early return, failure and kill (`HoldersStep`). It is the safety half of
  `SettlesOrStrands`: a queue that stopped would have stopped with a slot nobody has.
* `KillsStrandWhatIsSentHolds`. `UploadingIsTransfer` (a row in `uploading` has a worker
  in its transfer, or none) shows that no step but a kill makes a row stranded
  (`StrandedStep`), and `SlotLimit` how many a kill can make (`StrandingStep`); the
  sum over the kills is the bound.
* `NeverResentHolds`, an action property, from `DeliveryInv`.
* `ImplementsOutbox` (`UploadOutboxProofs`): every step is a step of
  `UploadOutbox` or a stutter. The delicate steps are done written by a drain
  and a worker for the same row, completions that reach the server although
  nobody hears the answer, and a crash, after which several may arrive at once.
  `DeliveredIsArchivedHolds` is the outbox's guarantee for the service.

`AuthSessionProofs` proves, for any number of sessions, logouts, kills and failing
calls, from `AuthBounds` and `LogoutsAssumption`: `TypeOK`, `AuthedIsStored`,
`MetaIsOldest`, `LogoutErases`, `WholeUnlessCutTwice` and `BusyHasCall`. None of
them is inductive: they speak of the keychain, which is only what the operations on
their way will make of it, or of calls whose answer depends on those operations.
`IInv` therefore describes the queue: who may run beside whom (`Control`); each
operation belongs to a call that still waits for it and writes the session issued
last, or erases (`Awaited`); the operations of a call come in one piece, in the
order of `Entries` (`Together`), and only a logout issues anything behind a save
(`LastOfCall`); what of the first batch has been executed is in the keychain
(`Executed`). From this follow `Stored` (while a session is used, only logouts are
at work, and the keychain at rest holds it), `Order` (a session being saved is not
that of any logout) and `Faultless` (the meta entry is the oldest).
`WholeUnlessCutTwice` needs to know what one interrupted batch leaves (`CutOnce`):
while nothing was cut, a session is saved only over an erased or expired meta entry,
so that a save cut short, which writes meta last, leaves what `bootstrap` drops or
refreshes, and a clear cut short leaves too little to restore. `BusyHasCall` is
the safety half of `BootEnds` and `SubmittingEnds`: the splash screen and the
disabled buttons belong to a call that is under way. `CallsAreServed` adds, of the
model's queue and only in the proofs, that a call that waits for the keychain finds its
last operation there, also when a failed write of another call has disowned a part of
it (`ServedStep`). The steps fall into three kinds,
those that leave the queue alone, issue a batch, or execute its head; the one
delicate step apart from them is `SaveRejected`, which disowns the rest of a batch
and may issue another behind it.

`MeetingListProofs` proves of `MeetingList`, for any number of meetings, loads
and rounds, `ListTypeOK`, `SpinnerHasLoad`, `OnlyLoadsRevive` and
`TitleSurvivesPolls`. The invariant `ListData` adds to the types that the cards
are of meetings that exist and at most one of each; the two action properties
follow from it, because every other step patches cards where they are
(`CardSteps`). `RecordingSessionProofs` proves `TypeOK`, `NoDuplicates`,
`SavingHasUpload`, `OneMeetingPerSave` and `ListSpec` of the composition, from
`NobodyAssumption` and `NoMeetingAssumption`. That a captured list never contains
the meeting about to be put in front of it needs to know that a list, captured or
current, has only meetings that exist, while the server makes a new one
(`UploadData`); that a recording becomes one meeting needs that an open screen
with an upload is saving, so that it cannot begin another (`ViewData`), and what
is made at each point of a screen's life (`MadeOnce`). Since one screen is open at a
time, `GoBack` of an answered upload leaves no open screen behind, its own or another.
`SavingHasUpload` is about the dialogs that are shown: that one stays until its user
answers it is not proved, because it does not hold. `Implements` maps a save to
`Added`, an upload the server stores to `Create`, everything else of the screens
to a stutter; so what is proved of the list alone holds with screens beside it:
`SpinnerEndsBesideScreens`, `RevivedBesideScreens` and `TitlesBesideScreens`.

`TranscriptProofs` proves `TypeOK`, `LoadingHasCall`, `EditsStayWithRecording` and
`EditsLeaveSaved` for any recordings, lengths of transcripts and calls, from
`NoneAssumption` and `MaxSegmentsAssumption`. The invariants are inductive with `TypeOK`; `EditsLeaveSaved`
rests on `EditsStayWithRecording`, since typing again into a segment replaces the
edit by one for the recording shown.

Only model-checked: the liveness properties `SettlesOrStrands`, `BootEnds`,
`SubmittingEnds`, `PollSettles` and `LoadingEnds` (TLAPS has no reasoning about
fairness here; `HeldByRunning`, `BusyHasCall` and `LoadingHasCall`, the safety
they rest on, are proved), and the violations. Every invariant, the inductive ones included,
was checked with TLC before it was proved.

## 5. Plan

Done: `UploadService` and `UploadOutbox`, `AuthSession`, `MeetingList`,
`RecordingSession`, `Transcript`, with their proofs. Left, the most important first:

1. An abstract specification of `AuthSession`: a cell that holds a session or
   none, which it implements as long as no kill falls between the operations of
   one batch.
2. The cards of `MeetingList` together with the rows of `UploadService`, once
   the code connects them: no card has an upload state that changes, and nothing
   writes `local_recordings`.
3. The cancellation that the design document asks for (`any state -> cancelled`)
   against deletion in the list, once it is coded.

## 6. Not modelled

* *Search.* `SearchScreen` is registered in no navigator, so nothing in the app
  reaches its store.
* *Screens without protocol state*, layout and theme, the pure filters with
  complete unit tests, the HTML mock-ups. The progress hook only displays
  `progressMap`.
* *Authentication providers and the API client*: one request and one answer each;
  what comes of them is in the modules that call them.
* *Third-party code.* Almost all lines of the tree are C++ of pods vendored under
  `src/ios/Pods` (React Native, Folly, Boost, fmt and others) and the generated
  native projects. The app's own program is the TypeScript under `src/src`, which
  is what is modelled; a line count over the whole tree says nothing of it.
* *Assumptions listed as hazards*: database failures, the order of native upload
  events against `addListener`, a fetch that is never answered.
* *Behaviour that is in the models and has no property, because nothing holds of
  it*: a recorder whose screen was left while it was starting goes on
  (`RecordingScreen.tsx:112`), a late transcript fills the screen of another
  recording and drops the edits of segments it has not, a card accepted but not begun
  turns into one that offers to request its transcription and is polled no more, a row
  whose PUT the storage refused becomes done without its bytes
  (`uploadService.ts:300`), and the answer to an upload whose screen was left takes
  away the dialog and the file of the recording on top (`RecordingScreen.tsx:199`).
* *Not in the models*: the error of an earlier load makes the screen report a
  failed save after one that succeeded (`TranscriptScreen.tsx` reads `error`
  after `saveEdits`); the list store is not reset at logout, since `reset` has no
  caller.
