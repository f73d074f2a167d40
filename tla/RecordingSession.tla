--------------------------- MODULE RecordingSession ---------------------------
(***************************************************************************)
(* Recording a meeting and saving it: RecordingScreen.tsx, which adds the  *)
(* meeting it has uploaded to the list of MeetingList.                     *)
(*                                                                         *)
(* The screen starts the recorder when it is entered.  Stop opens the save *)
(* dialog; save uploads the file, and its continuation writes a list made  *)
(* of the new meeting and the items the screen had when save was pressed.  *)
(* The dialog can be cancelled, on Android also while the upload is under  *)
(* way, and the upload goes on without its screen.  Whoever goes back      *)
(* leaves the screen that is on top then, be it that of another recording. *)
(***************************************************************************)
EXTENDS MeetingList, FiniteSets

CONSTANTS
  Screens,   \* visits to the recording screen
  Saves      \* identities for uploads under way

Nobody == "nobody"
NoMeeting == "none"

ASSUME NobodyAssumption == Nobody \notin Screens
ASSUME NoMeetingAssumption == NoMeeting \notin Meetings

VARIABLES
  screen,                  \* unopened, open or left
  recorder, stopping,      \* the native recorder, and stopRecorder awaited
  hasFile, modal, isSaving,   \* the state of the screen
  alert,                   \* the alert in front: none, cancel (save or not), or failed (no microphone)
  upload, by, captured, got,   \* uploads: their phase, screen, list captured, meeting made
  made, lost               \* history: the meetings made of a recording, and those whose answer was lost

view    == <<hasFile, modal, isSaving>>
uploads == <<upload, by, captured, got>>
history == <<made, lost>>
sessionVars == <<screen, recorder, stopping, view, alert, uploads, history>>
vars == <<listVars, sessionVars>>

NoList == [m \in Meetings |-> <<>>]

Init ==
  /\ ListInit
  /\ screen = [s \in Screens |-> "unopened"]
  /\ recorder = [s \in Screens |-> "off"] /\ stopping = [s \in Screens |-> FALSE]
  /\ hasFile = [s \in Screens |-> FALSE] /\ modal = [s \in Screens |-> FALSE]
  /\ isSaving = [s \in Screens |-> FALSE] /\ alert = "none"
  /\ upload = [u \in Saves |-> "idle"] /\ by = [u \in Saves |-> Nobody]
  /\ captured = [u \in Saves |-> NoList] /\ got = [u \in Saves |-> NoMeeting]
  /\ made = [s \in Screens |-> {}] /\ lost = {}

Open(s) == screen[s] = "open"

-----------------------------------------------------------------------------
(* The recorder.                                                            *)

\* One recording screen is on the stack at a time; an alert keeps the user from everything else.
Mount(s) ==
  /\ alert = "none" /\ screen[s] = "unopened" /\ \A t \in Screens : ~Open(t)
  /\ screen' = [screen EXCEPT ![s] = "open"]
  /\ recorder' = [recorder EXCEPT ![s] = "starting"]
  /\ UNCHANGED <<listVars, stopping, view, alert, uploads, history>>

\* Also for a screen that was left before: nothing stops that recorder any more.
Started(s) ==
  /\ recorder[s] = "starting"
  /\ recorder' = [recorder EXCEPT ![s] = "on"]
  /\ UNCHANGED <<listVars, screen, stopping, view, alert, uploads, history>>

\* The alert is shown also when the screen was left before.  It takes the place of another one.
StartFails(s) ==
  /\ recorder[s] = "starting"
  /\ recorder' = [recorder EXCEPT ![s] = "off"]
  /\ alert' = "failed"
  /\ UNCHANGED <<listVars, screen, stopping, view, uploads, history>>

\* stopRecorder has no effect on a recorder that has not started yet.
Stopped(s) == recorder' = [recorder EXCEPT ![s] = IF @ = "on" THEN "off" ELSE @]

\* The screen goes away with its state, and its cleanup stops the recorder.  A stop that it
\* still waits for would only set that state; its alerts stay until they are answered.
Unmount(s) ==
  /\ screen' = [screen EXCEPT ![s] = "left"] /\ Stopped(s)
  /\ stopping' = [stopping EXCEPT ![s] = FALSE]
  /\ hasFile' = [hasFile EXCEPT ![s] = FALSE] /\ modal' = [modal EXCEPT ![s] = FALSE]
  /\ isSaving' = [isSaving EXCEPT ![s] = FALSE]

\* goBack takes away the screen on top, whichever screen calls it: the recording screen that is
\* open, its dialog and its file with it, or else a screen that is not modelled here.
GoBack ==
  \/ \E s \in Screens : Open(s) /\ Unmount(s)
  \/ (\A s \in Screens : ~Open(s)) /\ UNCHANGED <<screen, recorder, stopping, view>>

\* The back key; the dialog would be in front of it.
Leave(s) ==
  /\ Open(s) /\ ~modal[s] /\ alert = "none"
  /\ Unmount(s)
  /\ UNCHANGED <<listVars, alert, uploads, history>>

Stop(s) ==
  /\ Open(s) /\ ~modal[s] /\ alert = "none"
  /\ stopping' = [stopping EXCEPT ![s] = TRUE]
  /\ UNCHANGED <<listVars, screen, recorder, view, alert, uploads, history>>

StopAnswered(s) ==
  /\ stopping[s]
  /\ stopping' = [stopping EXCEPT ![s] = FALSE]
  /\ Stopped(s)
  /\ hasFile' = [hasFile EXCEPT ![s] = TRUE] /\ modal' = [modal EXCEPT ![s] = TRUE]
  /\ UNCHANGED <<listVars, screen, isSaving, alert, uploads, history>>

\* Its own alert only has to be dismissed; on Android it takes the place of another one.
StopRejected(s) ==
  /\ stopping[s]
  /\ stopping' = [stopping EXCEPT ![s] = FALSE]
  /\ alert' \in {alert, "none"}
  /\ UNCHANGED <<listVars, screen, recorder, view, uploads, history>>

-----------------------------------------------------------------------------
(* Saving.                                                                  *)

\* The dialog, which may have come in front of the alert of a start that failed.
InFront(s) == Open(s) /\ modal[s] /\ alert # "cancel"

\* Mutant: a second press is not kept out.
SaveTwice(u, s) ==
  /\ InFront(s) /\ hasFile[s]
  /\ upload[u] = "idle"
  /\ isSaving' = [isSaving EXCEPT ![s] = TRUE]
  /\ upload' = [upload EXCEPT ![u] = "sent"] /\ by' = [by EXCEPT ![u] = s]
  /\ captured' = [captured EXCEPT ![u] = items]
  /\ UNCHANGED <<listVars, screen, recorder, stopping, hasFile, modal, alert, got, history>>

Save(u, s) ==
  /\ InFront(s) /\ ~isSaving[s] /\ hasFile[s]
  /\ upload[u] = "idle"
  /\ isSaving' = [isSaving EXCEPT ![s] = TRUE]
  /\ upload' = [upload EXCEPT ![u] = "sent"] /\ by' = [by EXCEPT ![u] = s]
  /\ captured' = [captured EXCEPT ![u] = items]
  /\ UNCHANGED <<listVars, screen, recorder, stopping, hasFile, modal, alert, got, history>>

\* The server makes a meeting of every upload it receives, also of a repeated one.
ServerStores(u) ==
  /\ upload[u] = "sent"
  /\ \E m \in Meetings :
       /\ status[m] = "absent"
       /\ status' = [status EXCEPT ![m] = "not_requested"]
       /\ got' = [got EXCEPT ![u] = m]
       /\ made' = [made EXCEPT ![by[u]] = @ \cup {m}]
  /\ upload' = [upload EXCEPT ![u] = "stored"]
  /\ UNCHANGED <<items, flags, loading, polls, screen, recorder, stopping, view, alert, by, captured, lost>>

UploadEnded(u) ==
  /\ upload' = [upload EXCEPT ![u] = "idle"] /\ by' = [by EXCEPT ![u] = Nobody]
  /\ captured' = [captured EXCEPT ![u] = NoList] /\ got' = [got EXCEPT ![u] = NoMeeting]

\* Mutant: the new card has its upload state as its transcription state.
PrependedUploaded(cards) == <<NewCard("uploaded")>> \o cards
Prepended(cards) == <<NewCard("processing")>> \o cards

\* Mutant: the meeting is put in front of the list as it is now.
SaveAnsweredCurrent(u) ==
  /\ upload[u] = "stored"
  /\ items' = [items EXCEPT ![got[u]] = Prepended(@)]
  /\ GoBack
  /\ UploadEnded(u)
  /\ UNCHANGED <<flags, loading, polls, status, alert, history>>

\* Mutant: the spinner is turned on for a load that nobody starts.
SaveAnsweredReloading(u) ==
  /\ upload[u] = "stored"
  /\ items' = [captured[u] EXCEPT ![got[u]] = Prepended(@)]
  /\ isLoading' = TRUE
  /\ GoBack
  /\ UploadEnded(u)
  /\ UNCHANGED <<isRefreshing, loading, polls, status, alert, history>>

\* The meeting is put in front of the list that was captured when save was pressed, also when
\* the screen was left in the meantime: then goBack leaves the next recording.
SaveAnswered(u) ==
  /\ upload[u] = "stored"
  /\ items' = [captured[u] EXCEPT ![got[u]] = Prepended(@)]
  /\ GoBack
  /\ UploadEnded(u)
  /\ UNCHANGED <<flags, loading, polls, status, alert, history>>

\* Mutant: the file is forgotten with the upload that failed.
SaveFailsForgetting(u) ==
  /\ upload[u] # "idle"
  /\ isSaving' = [isSaving EXCEPT ![by[u]] = FALSE]
  /\ hasFile' = [hasFile EXCEPT ![by[u]] = FALSE]
  /\ lost' = lost \cup ({got[u]} \ {NoMeeting})
  /\ UploadEnded(u)
  /\ UNCHANGED <<listVars, screen, recorder, stopping, modal, alert, made>>

\* The upload fails, or only its answer is lost: the dialog stays, and save can be pressed again.
SaveFails(u) ==
  /\ upload[u] # "idle"
  /\ isSaving' = [isSaving EXCEPT ![by[u]] = FALSE]
  /\ lost' = lost \cup ({got[u]} \ {NoMeeting})
  /\ UploadEnded(u)
  /\ UNCHANGED <<listVars, screen, recorder, stopping, hasFile, modal, alert, made>>

\* The button is disabled while saving, the back key of Android is not.
AskCancel(s) ==
  /\ InFront(s)
  /\ alert' = "cancel"
  /\ UNCHANGED <<listVars, screen, recorder, stopping, view, uploads, history>>

KeepRecording ==
  /\ alert = "cancel"
  /\ alert' = "none"
  /\ UNCHANGED <<listVars, screen, recorder, stopping, view, uploads, history>>

\* An upload under way goes on.  When its answer has closed the dialog behind the alert, or
\* another one has, this goes back once more.
ConfirmCancel ==
  /\ alert = "cancel"
  /\ alert' = "none"
  /\ GoBack
  /\ UNCHANGED <<listVars, uploads, history>>

\* The button of the alert after StartFails.
StartFailureSeen ==
  /\ alert = "failed"
  /\ alert' = "none"
  /\ GoBack
  /\ UNCHANGED <<listVars, uploads, history>>

-----------------------------------------------------------------------------
RecorderStep(s) == \/ Mount(s) \/ Started(s) \/ StartFails(s) \/ Leave(s)
                   \/ Stop(s) \/ StopAnswered(s) \/ StopRejected(s)
DialogStep(s) == AskCancel(s) \/ \E u \in Saves : Save(u, s)
AlertStep == KeepRecording \/ ConfirmCancel \/ StartFailureSeen
UploadStep(u) == ServerStores(u) \/ SaveAnswered(u) \/ SaveFails(u)

Next == \/ ListStep /\ UNCHANGED sessionVars
        \/ \E s \in Screens : RecorderStep(s) \/ DialogStep(s)
        \/ AlertStep
        \/ \E u \in Saves : UploadStep(u)

Spec == Init /\ [][Next]_vars

-----------------------------------------------------------------------------
(* Properties.                                                              *)

TypeOK ==
  /\ ListTypeOK
  /\ screen \in [Screens -> {"unopened", "open", "left"}]
  /\ recorder \in [Screens -> {"off", "starting", "on"}] /\ stopping \in [Screens -> BOOLEAN]
  /\ hasFile \in [Screens -> BOOLEAN] /\ modal \in [Screens -> BOOLEAN]
  /\ isSaving \in [Screens -> BOOLEAN] /\ alert \in {"none", "cancel", "failed"}
  /\ upload \in [Saves -> {"idle", "sent", "stored"}] /\ by \in [Saves -> Screens \cup {Nobody}]
  /\ captured \in [Saves -> [Meetings -> Seq(Card)]] /\ got \in [Saves -> Meetings \cup {NoMeeting}]
  /\ made \in [Screens -> SUBSET Meetings] /\ lost \subseteq Meetings

\* A recording becomes one meeting, however often save is pressed, unless an upload that the
\* server has stored was reported as failed.
OneMeetingPerSave == \A s \in Screens : Cardinality(made[s] \ lost) <= 1

\* As long as a dialog is shown its file is there, and its save button is disabled only while an
\* upload of that screen is under way: after a failure the same file can be saved again.  This
\* does not say how long the dialog is shown: GoBack of an earlier recording takes it away too.
SavingHasUpload ==
  \A s \in Screens : modal[s] => hasFile[s] /\ (isSaving[s] => \E u \in Saves : by[u] = s)

\* Saving adds a meeting to the list, and changes nothing else of it.
SaveOnlyAdds ==
  [][\A u \in Saves : upload[u] = "stored" /\ upload'[u] = "idle"
       => \A m \in Meetings \ {got[u]} : items'[m] = items[m]]_vars
=============================================================================
