------------------------ MODULE RecordingSessionProofs ------------------------
(***************************************************************************)
(* The list shows no meeting twice, a recording becomes one meeting, a     *)
(* dialog that stays can be saved, and RecordingSession keeps the promise that     *)
(* MeetingList makes of the list that a save writes: proved for any number *)
(* of meetings, loads, polls, screens and uploads.                         *)
(***************************************************************************)
EXTENDS RecordingSession, MeetingListProofs, FiniteSetTheorems, TLAPS

-----------------------------------------------------------------------------
(* The inductive invariant: what MeetingListProofs knows of the list, and   *)
(* how uploads, screens and the meetings made of a recording go together.   *)

\* An upload belongs to a screen, its list was captured before its meeting was made.
UploadData ==
  \A u \in Saves :
    /\ upload[u] = "idle" <=> by[u] = Nobody
    /\ upload[u] = "stored" => got[u] \in Created /\ captured[u][got[u]] = <<>>
    /\ captured[u] \in [Meetings -> Single]
    /\ OnlyCreated(captured[u])

\* One screen is open, which goBack leaves.  A dialog is shown by that screen and has a file; its
\* save waits for the one upload of the screen.
ViewData ==
  /\ \A s, t \in Screens : Open(s) /\ Open(t) => s = t
  /\ \A s \in Screens :
       /\ modal[s] \/ isSaving[s] \/ stopping[s] => Open(s)
       /\ modal[s] => hasFile[s]
       /\ isSaving[s] => \E u \in Saves : by[u] = s
  /\ \A u \in Saves : by[u] # Nobody =>
       /\ screen[by[u]] # "unopened"
       /\ Open(by[u]) => isSaving[by[u]]
       /\ \A v \in Saves : by[v] = by[u] => v = u

\* What a screen has made and not lost is nothing, the meeting of its upload, or, once the
\* screen was left and has no upload any more, one meeting.
MadeOnce(s) ==
  \/ made[s] \ lost = {}
  \/ \E u \in Saves : upload[u] = "stored" /\ by[u] = s /\ made[s] \ lost = {got[u]}
  \/ /\ screen[s] = "left" /\ \A u \in Saves : by[u] # s
     /\ \E m \in Meetings : made[s] \ lost = {m}

IInv == TypeOK /\ ListData /\ UploadData /\ ViewData /\ \A s \in Screens : MadeOnce(s)

-----------------------------------------------------------------------------
(* The recording screen: every step of RecordingSession keeps IInv.         *)

LEMMA Initial ==
  ASSUME Init
  PROVE  IInv
<1>1. ListData
  BY ListInitial DEF Init
<1>2. NoList \in [Meetings -> Single] /\ \A m \in Meetings : NoList[m] = <<>>
  BY DEF NoList, Single
<1>3. NoList \in [Meetings -> Seq(Card)]
  BY <1>2, SinglesAreTyped
<1>4. TypeOK
  BY <1>1, <1>3 DEF Init, TypeOK, ListData
<1>5. UploadData
  BY <1>2 DEF Init, UploadData, OnlyCreated
<1>6. ViewData
  BY NobodyAssumption DEF Init, ViewData, Open
<1>7. \A s \in Screens : MadeOnce(s)
  BY DEF Init, MadeOnce
<1> QED BY <1>1, <1>4, <1>5, <1>6, <1>7 DEF IInv

\* Uploads under way wait while the server only makes more meetings.
LEMMA UploadsWait ==
  ASSUME UploadData, UNCHANGED uploads,
         \A m \in Meetings : status[m] # "absent" => status'[m] # "absent"
  PROVE  UploadData'
BY DEF UploadData, uploads, OnlyCreated, Created

\* Where neither uploads nor histories change, and a screen that was left stays so.
LEMMA MadeOnceStays ==
  ASSUME NEW s \in Screens, MadeOnce(s), UNCHANGED <<uploads, history>>,
         screen[s] = "left" => screen'[s] = "left"
  PROVE  MadeOnce(s)'
BY DEF MadeOnce, uploads, history

LEMMA ListStepKeepsAll ==
  ASSUME IInv, ListStep, UNCHANGED sessionVars
  PROVE  IInv'
<1> USE DEF sessionVars, view, uploads, history
<1>1. ListData' /\ \A k \in Meetings : status[k] # "absent" => status'[k] # "absent"
  BY ListStepKeeps DEF IInv
<1>2. TypeOK'
  BY <1>1 DEF IInv, TypeOK, ListData
<1>3. UploadData'
  BY <1>1, UploadsWait DEF IInv
<1>4. ViewData'
  BY DEF IInv, ViewData, Open
<1>5. \A s \in Screens : MadeOnce(s)'
  BY MadeOnceStays DEF IInv
<1> QED BY <1>1, <1>2, <1>3, <1>4, <1>5 DEF IInv

\* Where a screen goes away, also the one that is found on top, what the others show stays.
LEMMA UnmountKeeps ==
  ASSUME TypeOK, ViewData, NEW s \in Screens, Unmount(s), screen[s] # "unopened", UNCHANGED uploads
  PROVE  /\ ViewData'
         /\ screen'[s] = "left" /\ \A t \in Screens : screen[t] = "left" => screen'[t] = "left"
<1>1. /\ screen' = [screen EXCEPT ![s] = "left"] /\ stopping' = [stopping EXCEPT ![s] = FALSE]
      /\ hasFile' = [hasFile EXCEPT ![s] = FALSE] /\ modal' = [modal EXCEPT ![s] = FALSE]
      /\ isSaving' = [isSaving EXCEPT ![s] = FALSE]
  BY DEF Unmount
<1> QED BY <1>1 DEF TypeOK, ViewData, Open, uploads

\* The types of what a screen keeps, where a screen goes away or nothing happens.
LEMMA GoBackIsTyped ==
  ASSUME TypeOK, GoBack
  PROVE  /\ screen' \in [Screens -> {"unopened", "open", "left"}]
         /\ recorder' \in [Screens -> {"off", "starting", "on"}] /\ stopping' \in [Screens -> BOOLEAN]
         /\ hasFile' \in [Screens -> BOOLEAN] /\ modal' \in [Screens -> BOOLEAN]
         /\ isSaving' \in [Screens -> BOOLEAN]
<1>1. CASE \E s \in Screens : Unmount(s)
  BY <1>1 DEF TypeOK, Unmount, Stopped
<1>2. CASE UNCHANGED <<screen, recorder, stopping, view>>
  BY <1>2 DEF TypeOK, view
<1> QED BY <1>1, <1>2 DEF GoBack

\* Going back leaves the screen that was open, if one was.
LEMMA GoBackKeeps ==
  ASSUME TypeOK, ViewData, GoBack, UNCHANGED uploads
  PROVE  /\ ViewData'
         /\ \A t \in Screens : screen[t] = "left" => screen'[t] = "left"
<1>1. CASE \E s \in Screens : Open(s) /\ Unmount(s)
  BY <1>1, UnmountKeeps DEF Open
<1>2. CASE UNCHANGED <<screen, recorder, stopping, view>>
  BY <1>2 DEF ViewData, Open, view, uploads
<1> QED BY <1>1, <1>2 DEF GoBack

\* The steps of screens and alerts that neither begin nor end an upload.
ScreenStep == AlertStep \/ \E s \in Screens : RecorderStep(s) \/ AskCancel(s)

LEMMA ScreenStepKeeps ==
  ASSUME IInv, ScreenStep
  PROVE  IInv'
<1> USE DEF view, uploads, history, listVars, sessionVars
<1>1. TypeOK /\ ListData /\ UploadData /\ ViewData /\ \A t \in Screens : MadeOnce(t)
  BY DEF IInv
<1>2. UNCHANGED <<listVars, uploads, history>>
  BY DEF ScreenStep, RecorderStep, AlertStep, Mount, Started, StartFails, Leave, Stop, StopAnswered,
         StopRejected, AskCancel, KeepRecording, ConfirmCancel, StartFailureSeen
<1>3. ListData' /\ ListTypeOK'
  BY <1>1, <1>2 DEF flags, loading, polls, ListData, ListTypeOK, OnlyCreated, Created, SpinnerHasLoad
<1>4. UploadData'
  BY <1>1, <1>2, UploadsWait
<1>5. ASSUME NEW s \in Screens, RecorderStep(s) \/ AskCancel(s)
      PROVE  TypeOK' /\ ViewData' /\ \A t \in Screens : screen[t] = "left" => screen'[t] = "left"
  <2> USE <1>1, <1>2, <1>3
  <2>1. CASE Mount(s)
    BY <2>1 DEF Mount, TypeOK, ViewData, Open
  <2>2. CASE Started(s) \/ StartFails(s)
    <3>1. TypeOK'
      BY <2>2 DEF Started, StartFails, TypeOK
    <3>2. UNCHANGED <<screen, stopping, view>>
      BY <2>2 DEF Started, StartFails
    <3> QED BY <3>1, <3>2 DEF ViewData, Open
  <2>3. CASE Leave(s)
    <3>1. TypeOK'
      BY <2>3 DEF Leave, Unmount, Stopped, TypeOK
    <3> QED BY <2>3, <3>1, UnmountKeeps DEF Leave, Open
  <2>4. CASE Stop(s)
    BY <2>4 DEF Stop, TypeOK, ViewData, Open
  <2>5. CASE StopAnswered(s)
    BY <2>5 DEF StopAnswered, Stopped, TypeOK, ViewData, Open
  <2>6. CASE StopRejected(s)
    BY <2>6 DEF StopRejected, TypeOK, ViewData, Open
  <2>7. CASE AskCancel(s)
    BY <2>7 DEF AskCancel, TypeOK, ViewData, Open
  <2> QED BY <1>5, <2>1, <2>2, <2>3, <2>4, <2>5, <2>6, <2>7 DEF RecorderStep
<1>6. ASSUME AlertStep
      PROVE  TypeOK' /\ ViewData' /\ \A t \in Screens : screen[t] = "left" => screen'[t] = "left"
  <2>1. CASE KeepRecording
    BY <1>1, <1>2, <1>3, <2>1 DEF KeepRecording, TypeOK, ViewData, Open
  <2>2. CASE ConfirmCancel \/ StartFailureSeen
    <3>1. GoBack /\ alert' = "none"
      BY <2>2 DEF ConfirmCancel, StartFailureSeen
    <3>2. TypeOK'
      BY <1>1, <1>2, <1>3, <3>1, GoBackIsTyped DEF TypeOK
    <3> QED BY <1>1, <1>2, <3>1, <3>2, GoBackKeeps
  <2> QED BY <1>6, <2>1, <2>2 DEF AlertStep
<1>7. \A t \in Screens : MadeOnce(t)'
  BY <1>1, <1>2, <1>5, <1>6, MadeOnceStays DEF ScreenStep
<1> QED BY <1>3, <1>4, <1>5, <1>6, <1>7 DEF IInv, ScreenStep

-----------------------------------------------------------------------------
(* Uploads: begun, stored, and answered with or without success.            *)

LEMMA SaveKeeps ==
  ASSUME IInv, NEW s \in Screens, NEW u \in Saves, Save(u, s)
  PROVE  IInv'
<1>1. TypeOK /\ ListData /\ UploadData /\ ViewData /\ \A t \in Screens : MadeOnce(t)
  BY DEF IInv
<1>2. /\ upload' = [upload EXCEPT ![u] = "sent"] /\ by' = [by EXCEPT ![u] = s]
      /\ captured' = [captured EXCEPT ![u] = items] /\ isSaving' = [isSaving EXCEPT ![s] = TRUE]
      /\ UNCHANGED <<listVars, screen, recorder, stopping, hasFile, modal, alert, got, history>>
  BY DEF Save
<1>3. Open(s) /\ ~isSaving[s] /\ upload[u] = "idle" /\ by[u] = Nobody
  BY <1>1 DEF Save, InFront, UploadData
<1>4. ListData'
  BY <1>1, <1>2 DEF ListData, ListTypeOK, OnlyCreated, Created, SpinnerHasLoad, listVars
<1>5. TypeOK'
  BY <1>1, <1>2, <1>4 DEF TypeOK, ListData, ListTypeOK, listVars, history
<1>6. UploadData'
  <2>1. \A v \in Saves : OnlyCreated(captured'[v])
    BY <1>1, <1>2 DEF TypeOK, UploadData, ListData
  <2>2. \A v \in Saves : captured'[v] \in [Meetings -> Single]
    BY <1>1, <1>2 DEF TypeOK, UploadData, ListData
  <2> QED
    BY <1>1, <1>2, <2>1, <2>2, NobodyAssumption DEF TypeOK, UploadData, OnlyCreated, Created, listVars
<1>7. ViewData'
  BY <1>1, <1>2, <1>3, NobodyAssumption DEF TypeOK, ViewData, Open
<1>8. ASSUME NEW t \in Screens PROVE MadeOnce(t)'
  <2>1. \A v \in Saves : upload[v] = "stored" => /\ upload'[v] = "stored" /\ by'[v] = by[v]
                                                 /\ got'[v] = got[v]
    BY <1>1, <1>2, <1>3 DEF TypeOK
  <2>2. UNCHANGED <<made, lost, screen>>
    BY <1>2 DEF history
  <2>3. screen[t] = "left" => \A v \in Saves : by'[v] = t => by[v] = t
    BY <1>1, <1>2, <1>3 DEF TypeOK, Open
  <2> QED BY <1>1, <2>1, <2>2, <2>3 DEF MadeOnce
<1> QED BY <1>4, <1>5, <1>6, <1>7, <1>8 DEF IInv

LEMMA ServerStoresKeeps ==
  ASSUME IInv, NEW u \in Saves, ServerStores(u)
  PROVE  IInv' /\ \E m \in Meetings : Create(m)
<1>1. TypeOK /\ ListData /\ UploadData /\ ViewData /\ \A t \in Screens : MadeOnce(t)
  BY DEF IInv
<1>2. PICK m \in Meetings :
        /\ status[m] = "absent"
        /\ status' = [status EXCEPT ![m] = "not_requested"]
        /\ got' = [got EXCEPT ![u] = m]
        /\ made' = [made EXCEPT ![by[u]] = @ \cup {m}]
  BY DEF ServerStores
<1>3. /\ upload[u] = "sent" /\ upload' = [upload EXCEPT ![u] = "stored"]
      /\ UNCHANGED <<items, flags, loading, polls, screen, recorder, stopping, view, alert, by, captured, lost>>
  BY DEF ServerStores
<1>4. Create(m)
  BY <1>2, <1>3 DEF Create
<1>5. ListData' /\ \A k \in Meetings : status[k] # "absent" => status'[k] # "absent"
  BY <1>1, <1>4, ServerStepKeeps DEF ServerStep
<1>6. by[u] \in Screens
  BY <1>1, <1>3 DEF TypeOK, UploadData
<1>7. TypeOK'
  BY <1>1, <1>2, <1>3, <1>5, <1>6 DEF TypeOK, ListData, view
<1>8. UploadData'
  <2>1. captured[u][m] = <<>> /\ status'[m] # "absent"
    BY <1>1, <1>2 DEF UploadData, OnlyCreated, ListData, ListTypeOK
  <2> QED
    BY <1>1, <1>2, <1>3, <1>5, <2>1 DEF TypeOK, UploadData, OnlyCreated, Created
<1>9. ViewData'
  BY <1>1, <1>3 DEF ViewData, Open, view
<1>10. ASSUME NEW t \in Screens PROVE MadeOnce(t)'
  <2>1. CASE t = by[u]
    <3>1. \A v \in Saves : by[v] = t => v = u
      BY <1>1, <1>6, <2>1, NobodyAssumption DEF ViewData
    <3>2. made[t] \ lost = {}
      BY <1>1, <1>3, <2>1, <3>1 DEF MadeOnce
    <3>3. made'[t] = made[t] \cup {m} /\ lost' = lost /\ got'[u] = m /\ upload'[u] = "stored" /\ by'[u] = t
      BY <1>1, <1>2, <1>3, <2>1 DEF TypeOK
    <3>4. made'[t] \ lost' = {} \/ made'[t] \ lost' = {got'[u]}
      BY <3>2, <3>3
    <3> QED BY <3>3, <3>4 DEF MadeOnce
  <2>2. CASE t # by[u]
    <3>1. made'[t] = made[t] /\ lost' = lost
      BY <1>1, <1>2, <1>3, <2>2 DEF TypeOK
    <3>2. \A v \in Saves : by[v] = t => v # u /\ upload'[v] = upload[v] /\ got'[v] = got[v]
      BY <1>1, <1>2, <1>3, <2>2 DEF TypeOK
    <3> QED BY <1>1, <1>3, <3>1, <3>2 DEF MadeOnce
  <2> QED BY <2>1, <2>2
<1> QED BY <1>4, <1>5, <1>7, <1>8, <1>9, <1>10 DEF IInv

\* What a save writes is what MeetingList promises of it.
LEMMA SaveKeepsPromise ==
  ASSUME IInv, NEW u \in Saves, SaveAnswered(u)
  PROVE  got[u] \in Meetings /\ Added(got[u])
<1> DEFINE m == got[u]
           list == captured[u]
           card == NewCard("processing")
<1>1. /\ upload[u] = "stored" /\ items' = [list EXCEPT ![m] = Prepended(list[m])]
      /\ UNCHANGED <<flags, loading, polls, status>>
  BY DEF SaveAnswered
<1>2. m \in Meetings /\ status[m] # "absent" /\ list[m] = <<>> /\ list \in [Meetings -> Single]
      /\ OnlyCreated(list)
  BY <1>1 DEF IInv, UploadData, Created
<1>3. Prepended(list[m]) = <<card>>
  BY <1>2 DEF Prepended
<1>4. <<card>> \in Single
  BY NewCards DEF CardStates, Single
<1>5. items' = [list EXCEPT ![m] = <<card>>]
  BY <1>1, <1>3
<1> HIDE DEF m, list, card
<1>6. items' \in [Meetings -> Single] /\ items'[m] = <<card>>
      /\ \A k \in Meetings : items'[k] # <<>> => status[k] # "absent"
  BY <1>2, <1>4, <1>5 DEF OnlyCreated
<1> QED BY <1>1, <1>2, <1>6 DEF Added, m, card

\* An upload that has ended leaves no trace of itself.
LEMMA EndedKeeps ==
  ASSUME TypeOK, UploadData, NEW u \in Saves, UploadEnded(u), UNCHANGED status
  PROVE  /\ UploadData' /\ by'[u] = Nobody
         /\ \A v \in Saves \ {u} : by'[v] = by[v] /\ upload'[v] = upload[v] /\ got'[v] = got[v]
<1>1. /\ upload' = [upload EXCEPT ![u] = "idle"] /\ by' = [by EXCEPT ![u] = Nobody]
      /\ captured' = [captured EXCEPT ![u] = NoList] /\ got' = [got EXCEPT ![u] = NoMeeting]
  BY DEF UploadEnded
<1>2. \A v \in Saves \ {u} : /\ by'[v] = by[v] /\ upload'[v] = upload[v]
                             /\ got'[v] = got[v] /\ captured'[v] = captured[v]
  BY <1>1 DEF TypeOK
<1>3. by'[u] = Nobody /\ upload'[u] = "idle" /\ captured'[u] = NoList
  BY <1>1 DEF TypeOK
<1>4. NoList \in [Meetings -> Single] /\ \A m \in Meetings : NoList[m] = <<>>
  BY DEF NoList, Single
<1> QED BY <1>2, <1>3, <1>4 DEF UploadData, OnlyCreated, Created

LEMMA EndedIsTyped ==
  ASSUME TypeOK, NEW u \in Saves, UploadEnded(u)
  PROVE  /\ upload' \in [Saves -> {"idle", "sent", "stored"}] /\ by' \in [Saves -> Screens \cup {Nobody}]
         /\ captured' \in [Saves -> [Meetings -> Seq(Card)]] /\ got' \in [Saves -> Meetings \cup {NoMeeting}]
<1>1. NoList \in [Meetings -> Seq(Card)]
  BY SinglesAreTyped DEF NoList, Single
<1> QED BY <1>1 DEF TypeOK, UploadEnded

\* An upload whose answer is taken goes back, so that its own screen has been left by then.
LEMMA SaveAnsweredKeeps ==
  ASSUME IInv, NEW u \in Saves, SaveAnswered(u)
  PROVE  IInv'
<1> DEFINE owner == by[u]
<1>1. TypeOK /\ ListData /\ UploadData /\ ViewData /\ \A t \in Screens : MadeOnce(t)
  BY DEF IInv
<1>2. /\ upload[u] = "stored" /\ GoBack /\ UploadEnded(u)
      /\ UNCHANGED <<flags, loading, polls, status, alert, history>>
  BY DEF SaveAnswered
<1>3. owner \in Screens /\ got[u] \in Meetings /\ \A v \in Saves : by[v] = owner => v = u
  BY <1>1, <1>2, NobodyAssumption DEF TypeOK, UploadData, ViewData, Created
<1>4. ListData'
  BY <1>1, SaveKeepsPromise, AddedKeeps
<1>5. UploadData' /\ by'[u] = Nobody
      /\ \A v \in Saves \ {u} : by'[v] = by[v] /\ upload'[v] = upload[v] /\ got'[v] = got[v]
  BY <1>1, <1>2, EndedKeeps
<1>6. TypeOK'
  BY <1>1, <1>2, <1>4, GoBackIsTyped, EndedIsTyped DEF TypeOK, ListData, history
<1>7. /\ \A t \in Screens : /\ screen'[t] = "left" \/ screen'[t] = screen[t]
                            /\ screen[t] = "left" => screen'[t] = "left"
                            /\ screen'[t] # "open" => ~isSaving'[t]
                            /\ modal'[t] \/ isSaving'[t] \/ stopping'[t] => screen'[t] = "open"
                            /\ modal'[t] => hasFile'[t]
      /\ \A t \in Screens : screen'[t] # "open"
  <2>1. ASSUME NEW s \in Screens, Open(s), Unmount(s)
        PROVE  \A t \in Screens : /\ screen'[t] = IF t = s THEN "left" ELSE screen[t]
                                  /\ modal'[t] = IF t = s THEN FALSE ELSE modal[t]
                                  /\ hasFile'[t] = IF t = s THEN FALSE ELSE hasFile[t]
                                  /\ stopping'[t] = IF t = s THEN FALSE ELSE stopping[t]
                                  /\ isSaving'[t] = IF t = s THEN FALSE ELSE isSaving[t]
    BY <1>1, <2>1 DEF TypeOK, Unmount
  <2>2. CASE \E s \in Screens : Open(s) /\ Unmount(s)
    <3>1. PICK s \in Screens : Open(s) /\ Unmount(s)
      BY <2>2
    <3>2. \A t \in Screens : /\ t # s => screen[t] # "open"
                             /\ modal[t] \/ isSaving[t] \/ stopping[t] => screen[t] = "open"
                             /\ modal[t] => hasFile[t]
      BY <1>1, <3>1 DEF ViewData, Open
    <3>3. \A t \in Screens : /\ screen'[t] = IF t = s THEN "left" ELSE screen[t]
                             /\ modal'[t] = IF t = s THEN FALSE ELSE modal[t]
                             /\ hasFile'[t] = IF t = s THEN FALSE ELSE hasFile[t]
                             /\ stopping'[t] = IF t = s THEN FALSE ELSE stopping[t]
                             /\ isSaving'[t] = IF t = s THEN FALSE ELSE isSaving[t]
      BY <2>1, <3>1
    <3> QED BY <3>2, <3>3
  <2>3. CASE (\A s \in Screens : ~Open(s)) /\ UNCHANGED <<screen, recorder, stopping, view>>
    BY <1>1, <2>3 DEF ViewData, Open, view
  <2> QED BY <1>2, <2>2, <2>3 DEF GoBack
<1>8. screen[owner] # "unopened" /\ screen'[owner] = "left"
  BY <1>1, <1>2, <1>3, <1>6, <1>7, NobodyAssumption DEF TypeOK, ViewData
<1> HIDE DEF owner
<1>9. ViewData'
  <2>1. \A v \in Saves : by'[v] # Nobody => v # u /\ by'[v] = by[v] /\ by[v] \in Screens
    BY <1>1, <1>5 DEF TypeOK
  <2>2. \A t \in Screens : ~isSaving'[t]
    BY <1>7
  <2>3. \A v \in Saves : by'[v] # Nobody =>
          /\ screen'[by'[v]] # "unopened"
          /\ \A w \in Saves : by'[w] = by'[v] => w = v
    BY <1>1, <1>7, <2>1 DEF ViewData
  <2> QED BY <1>7, <2>1, <2>2, <2>3 DEF ViewData, Open
<1>10. ASSUME NEW t \in Screens PROVE MadeOnce(t)'
  <2>1. UNCHANGED <<made, lost>>
    BY <1>2 DEF history
  <2>2. CASE t = owner
    <3>1. screen'[t] = "left" /\ \A v \in Saves : by'[v] # t
      BY <1>1, <1>3, <1>5, <1>8, <2>2, NobodyAssumption DEF TypeOK
    <3>2. made[t] \ lost = {} \/ made[t] \ lost = {got[u]}
      BY <1>1, <1>3, <2>2 DEF MadeOnce, owner
    <3> QED BY <1>3, <2>1, <3>1, <3>2 DEF MadeOnce
  <2>3. CASE t # owner
    <3>1. screen[t] = "left" => screen'[t] = "left"
      BY <1>7
    <3>2. \A v \in Saves : by[v] = t => v # u
      BY <2>3 DEF owner
    <3>3. \A v \in Saves : by'[v] = t => by[v] = t
      BY <1>5, NobodyAssumption
    <3> QED BY <1>1, <1>5, <2>1, <3>1, <3>2, <3>3 DEF MadeOnce
  <2> QED BY <2>2, <2>3
<1> QED BY <1>4, <1>5, <1>6, <1>9, <1>10 DEF IInv

LEMMA SaveFailsKeeps ==
  ASSUME IInv, NEW u \in Saves, SaveFails(u)
  PROVE  IInv'
<1> DEFINE owner == by[u]
<1>1. TypeOK /\ ListData /\ UploadData /\ ViewData /\ \A t \in Screens : MadeOnce(t)
  BY DEF IInv
<1>2. /\ upload[u] # "idle" /\ isSaving' = [isSaving EXCEPT ![owner] = FALSE]
      /\ lost' = lost \cup ({got[u]} \ {NoMeeting}) /\ UploadEnded(u)
      /\ UNCHANGED <<listVars, screen, recorder, stopping, hasFile, modal, alert, made>>
  BY DEF SaveFails
<1>3. owner \in Screens /\ \A v \in Saves : by[v] = owner => v = u
  BY <1>1, <1>2, NobodyAssumption DEF TypeOK, UploadData, ViewData
<1>4. ListData' /\ UNCHANGED status
  BY <1>1, <1>2 DEF ListData, ListTypeOK, OnlyCreated, Created, SpinnerHasLoad, listVars
<1>5. UploadData' /\ by'[u] = Nobody
      /\ \A v \in Saves \ {u} : by'[v] = by[v] /\ upload'[v] = upload[v] /\ got'[v] = got[v]
  BY <1>1, <1>2, <1>4, EndedKeeps
<1>6. TypeOK'
  BY <1>1, <1>2, <1>4, EndedIsTyped DEF TypeOK, ListData
<1> HIDE DEF owner
<1>7. ViewData'
  <2>1. \A v \in Saves : by'[v] # Nobody => v # u /\ by'[v] = by[v] /\ by[v] \in Screens /\ by[v] # owner
    BY <1>1, <1>3, <1>5 DEF TypeOK, owner
  <2>2. \A t \in Screens : (\E v \in Saves : by[v] = t) /\ t # owner => \E v \in Saves : by'[v] = t
    BY <1>3, <1>5 DEF owner
  <2>3. ~isSaving'[owner] /\ \A t \in Screens : t # owner => isSaving'[t] = isSaving[t] /\ screen'[t] = screen[t]
    BY <1>1, <1>2, <1>3 DEF TypeOK
  <2>4. /\ \A t \in Screens : /\ modal'[t] \/ isSaving'[t] \/ stopping'[t] => screen'[t] = "open"
                              /\ modal'[t] => hasFile'[t]
        /\ \A s, t \in Screens : screen'[s] = "open" /\ screen'[t] = "open" => s = t
    BY <1>1, <1>2, <1>3 DEF TypeOK, ViewData, Open
  <2>5. \A t \in Screens : isSaving'[t] => \E v \in Saves : by'[v] = t
    BY <1>1, <2>2, <2>3 DEF ViewData
  <2>6. \A v \in Saves : by'[v] # Nobody =>
          /\ screen'[by'[v]] # "unopened"
          /\ screen'[by'[v]] = "open" => isSaving'[by'[v]]
          /\ \A w \in Saves : by'[w] = by'[v] => w = v
    BY <1>1, <2>1, <2>3 DEF ViewData, Open
  <2> QED BY <2>4, <2>5, <2>6 DEF ViewData, Open
<1>8. ASSUME NEW t \in Screens PROVE MadeOnce(t)'
  <2>1. \A v \in Saves : by'[v] = t => by[v] = t
    BY <1>5, NobodyAssumption
  <2>2. CASE made[t] \ lost = {}
    BY <1>2, <2>2 DEF MadeOnce
  <2>3. ASSUME NEW v \in Saves, upload[v] = "stored", by[v] = t, made[t] \ lost = {got[v]}
        PROVE  MadeOnce(t)'
    <3>1. CASE v = u
      <4>1. got[u] # NoMeeting
        BY <1>1, <2>3, <3>1, NoMeetingAssumption DEF UploadData, Created
      <4>2. made'[t] \ lost' = {}
        BY <1>2, <2>3, <3>1, <4>1
      <4> QED BY <4>2 DEF MadeOnce
    <3>2. CASE v # u
      <4>1. made'[t] \ lost' = {} \/ made'[t] \ lost' = {got'[v]}
        BY <1>2, <1>5, <2>3, <3>2
      <4> QED BY <1>5, <2>3, <3>2, <4>1 DEF MadeOnce
    <3> QED BY <3>1, <3>2
  <2>4. ASSUME NEW m \in Meetings, made[t] \ lost = {m}, screen[t] = "left", \A v \in Saves : by[v] # t
        PROVE  MadeOnce(t)'
    <3>1. made'[t] \ lost' = {} \/ made'[t] \ lost' = {m}
      BY <1>2, <2>4
    <3> QED BY <1>2, <2>1, <2>4, <3>1 DEF MadeOnce
  <2> QED BY <1>1, <2>2, <2>3, <2>4 DEF MadeOnce
<1> QED BY <1>4, <1>5, <1>6, <1>7, <1>8 DEF IInv

-----------------------------------------------------------------------------
(* What holds of every recording session.                                   *)

\* IInv holds at first and is kept by every step, also by none.
LEMMA Inductive ==
  /\ Init => IInv
  /\ IInv /\ [Next]_vars => IInv'
<1>1. Init => IInv
  BY Initial
<1>2. ASSUME IInv, Next PROVE IInv'
  <2>1. CASE ListStep /\ UNCHANGED sessionVars
    BY <1>2, <2>1, ListStepKeepsAll
  <2>2. ASSUME AlertStep \/ \E s \in Screens : RecorderStep(s) \/ DialogStep(s) PROVE IInv'
    BY <1>2, <2>2, ScreenStepKeeps, SaveKeeps DEF DialogStep, ScreenStep
  <2>3. ASSUME NEW u \in Saves, UploadStep(u) PROVE IInv'
    BY <1>2, <2>3, ServerStoresKeeps, SaveAnsweredKeeps, SaveFailsKeeps DEF UploadStep
  <2> QED BY <1>2, <2>1, <2>2, <2>3 DEF Next
<1>3. ASSUME IInv, UNCHANGED vars PROVE IInv'
  <2> USE <1>3 DEF vars, listVars, sessionVars, view, uploads, history
  <2>1. ListData'
    BY DEF IInv, ListData, ListTypeOK, OnlyCreated, Created, SpinnerHasLoad
  <2>2. TypeOK'
    BY <2>1 DEF IInv, TypeOK, ListData
  <2>3. UploadData'
    BY UploadsWait DEF IInv
  <2>4. ViewData'
    BY DEF IInv, ViewData, Open
  <2>5. \A s \in Screens : MadeOnce(s)'
    BY MadeOnceStays DEF IInv
  <2> QED BY <2>1, <2>2, <2>3, <2>4, <2>5 DEF IInv
<1> QED BY <1>1, <1>2, <1>3

\* The inductive invariant holds of recording screens, their uploads and the list together.
THEOREM Invariance == Spec => []IInv
<1>1. Init => IInv
  BY Inductive
<1>2. IInv /\ [Next]_vars => IInv'
  BY Inductive
<1> QED BY <1>1, <1>2, PTL DEF Spec

\* The state of the list, the screens and the uploads keeps its types.
THEOREM Typed == Spec => []TypeOK
<1>1. IInv => TypeOK
  BY DEF IInv
<1> QED BY <1>1, Invariance, PTL

\* However loads, saves and uploads of screens that were left overlap, no meeting is listed twice.
THEOREM ListedOnce == Spec => []NoDuplicates
<1>1. ASSUME IInv PROVE NoDuplicates
  BY <1>1, SingleIsShort DEF IInv, ListData, NoDuplicates
<1> QED BY <1>1, Invariance, PTL

\* Of every dialog that is shown the file is there, and its save button is disabled only while its
\* upload is under way, also when uploads of screens left before go back over it.
THEOREM SaveComesBack == Spec => []SavingHasUpload
<1>1. IInv => SavingHasUpload
  BY DEF IInv, ViewData, SavingHasUpload
<1> QED BY <1>1, Invariance, PTL

\* But for answers that were lost, a recording becomes at most one meeting.
THEOREM SavedOnce == Spec => []OneMeetingPerSave
<1>1. ASSUME IInv PROVE OneMeetingPerSave
  <2>1. ASSUME NEW s \in Screens PROVE Cardinality(made[s] \ lost) <= 1
    <3>1. made[s] \ lost = {} \/ \E m : made[s] \ lost = {m}
      BY <1>1 DEF IInv, MadeOnce
    <3>2. CASE made[s] \ lost = {}
      BY <3>2, FS_EmptySet
    <3>3. ASSUME NEW m, made[s] \ lost = {m} PROVE Cardinality(made[s] \ lost) <= 1
      BY <3>3, FS_Singleton
    <3> QED BY <3>1, <3>2, <3>3
  <2> QED BY <2>1 DEF OneMeetingPerSave
<1> QED BY <1>1, Invariance, PTL

\* Recording and saving implements what MeetingList assumes of it: each step is a step of the
\* list, a meeting the server makes, a save that writes what it promises, or none of these.
THEOREM Implements == Spec => ListSpec
<1>1. Init => ListInit
  BY DEF Init
<1>2. ASSUME IInv, [Next]_vars PROVE [ListNext]_listVars
  <2>1. CASE ListStep /\ UNCHANGED sessionVars
    BY <2>1 DEF ListNext
  <2>2. ASSUME AlertStep \/ \E s \in Screens : RecorderStep(s) \/ DialogStep(s) PROVE UNCHANGED listVars
    BY <2>2 DEF RecorderStep, DialogStep, AlertStep, Mount, Started, StartFails, Leave, Stop, StopAnswered,
         StopRejected, AskCancel, KeepRecording, ConfirmCancel, StartFailureSeen, Save
  <2>3. ASSUME NEW u \in Saves, ServerStores(u) PROVE ListNext
    BY <1>2, <2>3, ServerStoresKeeps DEF ListNext, ListStep, ServerStep
  <2>4. ASSUME NEW u \in Saves, SaveAnswered(u) PROVE ListNext
    BY <1>2, <2>4, SaveKeepsPromise DEF ListNext
  <2>5. ASSUME NEW u \in Saves, SaveFails(u) PROVE UNCHANGED listVars
    BY <2>5 DEF SaveFails
  <2>6. CASE UNCHANGED vars
    BY <2>6 DEF vars
  <2> QED BY <1>2, <2>1, <2>2, <2>3, <2>4, <2>5, <2>6 DEF Next, UploadStep
<1> QED BY <1>1, <1>2, Invariance, PTL DEF Spec, ListSpec

\* With recording screens and uploads beside it, the list still shows a spinner only for a load.
THEOREM SpinnerEndsBesideScreens == Spec => []SpinnerHasLoad
BY Implements, ListSpinnerEnds

\* No answer to an upload, and no step of a screen, brings back a card by another way than a save.
THEOREM RevivedBesideScreens == Spec => OnlyLoadsRevive
BY Implements, RevivedByLoads

\* A title typed while an upload is awaited is undone by no poll, and by no step of a screen but a save.
THEOREM TitlesBesideScreens == Spec => TitleSurvivesPolls
BY Implements, TitlesSurvive
=============================================================================
