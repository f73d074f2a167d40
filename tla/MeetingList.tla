----------------------------- MODULE MeetingList -----------------------------
(***************************************************************************)
(* The list of meetings: stores/recordingListStore.ts, its loads and polls *)
(* in recordingListScreen.tsx, and the changes that the list and the       *)
(* detail screen make to a card.                                           *)
(*                                                                         *)
(* A request and its answer are two steps, and what was answered is used   *)
(* when it arrives: loads may be answered out of order, and a poll goes on *)
(* through the meetings it started with while the list is replaced.  The   *)
(* list is kept as the cards of each meeting; the order of the meetings in *)
(* it is left out.                                                         *)
(***************************************************************************)
EXTENDS Naturals, Sequences

CONSTANTS
  Meetings,
  Loads, Polls,   \* identities for calls of loadList and for rounds of poll
  Edits,          \* what a user may change on a card: "star", "title"
  Progress        \* bound: the statuses that transcriptions reach

Statuses == {"absent", "not_requested", "processing", "completed", "failed"}

ASSUME EditsAssumption == Edits \subseteq {"star", "title"}
ASSUME ProgressAssumption == Progress \subseteq {"processing", "completed", "failed"}

VARIABLES
  items,                     \* for each meeting its cards in the list
  isLoading, isRefreshing,
  load, listed,              \* calls of loadList, and the meetings each was answered
  polling, detail,           \* the meetings each round has yet to finish, and its last answer
  status                     \* what the server knows of a meeting

listVars == <<items, isLoading, isRefreshing, load, listed, polling, detail, status>>
flags    == <<isLoading, isRefreshing>>
loading  == <<load, listed>>
polls    == <<polling, detail>>

CardStates == {"not_requested", "queued", "processing", "completed", "failed"}
Card       == [state : CardStates, edits : SUBSET Edits]
NoAnswer   == [meeting |-> "none", state |-> "none"]

Created   == {m \in Meetings : status[m] # "absent"}
Completed == {m \in Meetings : status[m] = "completed"}

NewCard(s) == [state |-> s, edits |-> {}]
Shown(m)   == items[m] # <<>>
\* At most one card.
Single     == {<<>>} \cup {<<card>> : card \in Card}

ListInit ==
  /\ items = [m \in Meetings |-> <<>>]
  /\ isLoading = FALSE /\ isRefreshing = FALSE
  /\ load = [l \in Loads |-> "idle"] /\ listed = [l \in Loads |-> {}]
  /\ polling = [p \in Polls |-> {}] /\ detail = [p \in Polls |-> NoAnswer]
  /\ status = [m \in Meetings |-> "absent"]

\* updateItem patches the cards of m that are there, and adds none.
UpdateItem(m, patch) == items' = [items EXCEPT ![m] = [n \in DOMAIN @ |-> patch[@[n]]]]

SetState(s) == [card \in Card |-> [card EXCEPT !.state = s]]
SetTitle    == [card \in Card |-> [card EXCEPT !.edits = @ \cup {"title"}]]
FlipStar    == [card \in Card |-> [card EXCEPT !.edits = (@ \ {"star"}) \cup ({"star"} \ @)]]

-----------------------------------------------------------------------------
(* Loads.  Whatever filter and sort the screen has, the request is the same. *)

Ask(l) == load[l] = "idle" /\ load' = [load EXCEPT ![l] = "asked"]

\* On mount, and when the filter or the sort changes.
LoadShown(l) ==
  /\ Ask(l)
  /\ isLoading' = TRUE
  /\ UNCHANGED <<items, isRefreshing, listed, polls, status>>

\* The app comes back to the foreground.
LoadForeground(l) ==
  /\ Ask(l)
  /\ UNCHANGED <<items, flags, listed, polls, status>>

Refresh(l) ==
  /\ ~isRefreshing
  /\ Ask(l)
  /\ isRefreshing' = TRUE
  /\ UNCHANGED <<items, isLoading, listed, polls, status>>

\* The server lists every meeting it has finished, and perhaps others.
ServerLists(l) ==
  /\ load[l] = "asked"
  /\ load' = [load EXCEPT ![l] = "answered"]
  /\ \E S \in SUBSET Created : Completed \subseteq S /\ listed' = [listed EXCEPT ![l] = S]
  /\ UNCHANGED <<items, flags, polls, status>>

LoadEnded(l) ==
  /\ load' = [load EXCEPT ![l] = "idle"] /\ listed' = [listed EXCEPT ![l] = {}]
  /\ isLoading' = FALSE /\ isRefreshing' = FALSE

\* setItems replaces the list; what is listed is taken to be completed.
ListLoaded(l) ==
  /\ load[l] = "answered"
  /\ items' = [m \in Meetings |-> IF m \in listed[l] THEN <<NewCard("completed")>> ELSE <<>>]
  /\ LoadEnded(l)
  /\ UNCHANGED <<polls, status>>

\* Mutant: the flags are reset only when the list was loaded.
LoadFailsLoading(l) ==
  /\ load[l] # "idle"
  /\ load' = [load EXCEPT ![l] = "idle"] /\ listed' = [listed EXCEPT ![l] = {}]
  /\ UNCHANGED <<items, flags, polls, status>>

\* The request or its answer is lost: the list stays.
LoadFails(l) ==
  /\ load[l] # "idle"
  /\ LoadEnded(l)
  /\ UNCHANGED <<items, polls, status>>

-----------------------------------------------------------------------------
(* Polling.  Every 30 seconds a round asks for each meeting shown as in      *)
(* processing; a slow round and the next one may overlap.                    *)

Processing == {m \in Meetings : \E n \in DOMAIN items[m] : items[m][n].state = "processing"}

PollStart(p) ==
  /\ polling[p] = {} /\ Processing # {}
  /\ polling' = [polling EXCEPT ![p] = Processing]
  /\ UNCHANGED <<items, flags, loading, detail, status>>

ServerDescribes(p, m) ==
  /\ m \in polling[p] /\ detail[p] = NoAnswer
  /\ detail' = [detail EXCEPT ![p] = [meeting |-> m, state |-> status[m]]]
  /\ UNCHANGED <<items, flags, loading, polling, status>>

PollNext(p, m) == polling' = [polling EXCEPT ![p] = @ \ {m}]

\* Mutant: the list is given the whole answer, not only its transcription state.
DescribedWhole(m, s) ==
  IF s \in {"processing", "absent"} THEN UNCHANGED items
  ELSE UpdateItem(m, [card \in Card |-> NewCard(s)])

\* Mutant: only a completed transcription is written.
DescribedCompleted(m, s) ==
  IF s # "completed" THEN UNCHANGED items
  ELSE UpdateItem(m, SetState(s))

\* Mutant: a meeting that is no longer in the list is put back.
DescribedUpsert(m, s) ==
  IF s \in {"processing", "absent"} THEN UNCHANGED items
  ELSE items' = [items EXCEPT ![m] = <<NewCard(s)>>]

\* Any state but processing is written, that of a transcription not requested too.
Described(m, s) ==
  IF s \in {"processing", "absent"} THEN UNCHANGED items
  ELSE UpdateItem(m, SetState(s))

PollAnswered(p) ==
  /\ detail[p] # NoAnswer
  /\ Described(detail[p].meeting, detail[p].state)
  /\ PollNext(p, detail[p].meeting)
  /\ detail' = [detail EXCEPT ![p] = NoAnswer]
  /\ UNCHANGED <<flags, loading, status>>

\* One meeting that cannot be asked for does not end the round.
PollFails(p, m) ==
  /\ m \in polling[p] /\ detail[p] = NoAnswer
  /\ PollNext(p, m)
  /\ UNCHANGED <<items, flags, loading, detail, status>>

-----------------------------------------------------------------------------
(* The user.  None of these reaches the server yet: its calls are stubs.     *)

ToggleStar(m) ==
  /\ Shown(m) /\ "star" \in Edits
  /\ UpdateItem(m, FlipStar)
  /\ UNCHANGED <<flags, loading, polls, status>>

EditTitle(m) ==
  /\ Shown(m) /\ "title" \in Edits
  /\ UpdateItem(m, SetTitle)
  /\ UNCHANGED <<flags, loading, polls, status>>

\* Mutant: the card is given a state that no screen knows.
RequestTranscriptionUnknown(m) ==
  /\ \E n \in DOMAIN items[m] : items[m][n].state = "not_requested"
  /\ UpdateItem(m, SetState("requested"))
  /\ UNCHANGED <<flags, loading, polls, status>>

RequestTranscription(m) ==
  /\ \E n \in DOMAIN items[m] : items[m][n].state = "not_requested"
  /\ UpdateItem(m, SetState("queued"))
  /\ UNCHANGED <<flags, loading, polls, status>>

Delete(m) ==
  /\ Shown(m)
  /\ items' = [items EXCEPT ![m] = <<>>]
  /\ UNCHANGED <<flags, loading, polls, status>>

-----------------------------------------------------------------------------
(* The recording screen.  What it promises of the list that it writes when a *)
(* recording is saved; RecordingSession shows where that list comes from.    *)

\* A list with the meeting that was saved.  It was captured when save was pressed, so that of the
\* other meetings it may show any that exist, in whatever state, and leave out any.
Added(m) ==
  /\ status[m] # "absent"
  /\ items' \in [Meetings -> Single]
  /\ items'[m] = <<NewCard("processing")>>
  /\ \A k \in Meetings : items'[k] # <<>> => status[k] # "absent"
  /\ UNCHANGED <<flags, loading, polls, status>>

-----------------------------------------------------------------------------
(* The server: meetings come into being, also from the upload queue or a    *)
(* PC, and their transcription makes progress.                              *)

Create(m) ==
  /\ status[m] = "absent"
  /\ status' = [status EXCEPT ![m] = "not_requested"]
  /\ UNCHANGED <<items, flags, loading, polls>>

Advance(m) ==
  /\ \E s \in Progress :
       /\ status[m] = IF s = "processing" THEN "not_requested" ELSE "processing"
       /\ status' = [status EXCEPT ![m] = s]
  /\ UNCHANGED <<items, flags, loading, polls>>

-----------------------------------------------------------------------------
LoadStep(l) == LoadShown(l) \/ LoadForeground(l) \/ Refresh(l) \/ ServerLists(l) \/ ListLoaded(l) \/ LoadFails(l)
PollStep(p) == PollStart(p) \/ PollAnswered(p) \/ \E m \in Meetings : ServerDescribes(p, m) \/ PollFails(p, m)
UserStep(m) == ToggleStar(m) \/ EditTitle(m) \/ RequestTranscription(m) \/ Delete(m)
ServerStep(m) == Create(m) \/ Advance(m)

ListStep ==
  \/ \E l \in Loads : LoadStep(l)
  \/ \E p \in Polls : PollStep(p)
  \/ \E m \in Meetings : UserStep(m) \/ ServerStep(m)
ListNext == ListStep \/ \E m \in Meetings : Added(m)

ListSpec == ListInit /\ [][ListNext]_listVars

\* The interval timer starts rounds, what was answered is processed, and a meeting that is asked
\* for again and again is once described.
PollFairness ==
  \A p \in Polls : /\ WF_listVars(PollStart(p)) /\ WF_listVars(PollAnswered(p))
                   /\ \A m \in Meetings : /\ SF_listVars(ServerDescribes(p, m))
                                          /\ WF_listVars(PollFails(p, m))

\* Assumed for liveness: a save leaves the other cards as they are.  The code does not promise it
\* (a load or a poll answered during the upload is undone by the captured list), and a stale list
\* could take any card out of processing.
OnlyAdded(m) == Added(m) /\ \A k \in Meetings \ {m} : items'[k] = items[k]

ListFairSpec == ListInit /\ [][ListStep \/ \E m \in Meetings : OnlyAdded(m)]_listVars /\ PollFairness

-----------------------------------------------------------------------------
(* Properties.                                                              *)

ListTypeOK ==
  /\ items \in [Meetings -> Seq(Card)]
  /\ isLoading \in BOOLEAN /\ isRefreshing \in BOOLEAN
  /\ load \in [Loads -> {"idle", "asked", "answered"}] /\ listed \in [Loads -> SUBSET Meetings]
  /\ polling \in [Polls -> SUBSET Meetings]
  /\ detail \in [Polls -> {NoAnswer} \cup [meeting : Meetings, state : Statuses]]
  /\ status \in [Meetings -> Statuses]

\* The list shows no meeting twice.
NoDuplicates == \A m \in Meetings : Len(items[m]) <= 1

\* A spinner that is shown, and with it the guard against a second refresh, belongs to a load
\* that has yet to end: none stays for ever after the last load.
SpinnerHasLoad == isLoading \/ isRefreshing => \E l \in Loads : load[l] # "idle"

\* No round awaits an answer that the server gave about m before it had finished.
NotAwaited(m) == \A p \in Polls : detail[p].meeting # m
Finished(m) == \A n \in DOMAIN items[m] : items[m][n].state \in {"completed", "failed"}

\* A card in processing whose meeting the server has finished, with success or not, is eventually
\* shown as finished, or gone: by polling alone, without any load.  The exception is a round that
\* awaits an answer about that meeting from before: if it says not requested, the card is set to
\* that and polled no more, and only a load shows the end of the transcription.
PollSettles ==
  \A m \in Meetings :
    (m \in Processing /\ status[m] \in {"completed", "failed"} /\ NotAwaited(m)) ~> Finished(m)

\* The list is written as a whole: a load ends, or a recording has been saved.
Replaced == (\E l \in Loads : load[l] = "answered" /\ load'[l] = "idle") \/ \E m \in Meetings : Added(m)

\* A meeting that left the list comes back only with a load or a save, never with a late poll
\* answer or an edit of a card that is gone.
OnlyLoadsRevive == [][\A m \in Meetings : Shown(m)' /\ ~Shown(m) => Replaced]_listVars

Titled(m) == \E n \in DOMAIN items[m] : "title" \in items[m][n].edits
\* A title edited on a card stays until the card goes or the list is replaced: no poll answer,
\* which knows the server's title, undoes it.
TitleSurvivesPolls == [][\A m \in Meetings : Titled(m) /\ Shown(m)' => Titled(m)' \/ Replaced]_listVars
=============================================================================
