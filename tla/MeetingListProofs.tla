-------------------------- MODULE MeetingListProofs --------------------------
(***************************************************************************)
(* The list keeps its types and at most one card of each meeting, no       *)
(* spinner outlives its load, only loads and saves bring a meeting back,   *)
(* and no poll undoes a title: proved for any number of meetings, loads    *)
(* and rounds of polling.                                                  *)
(***************************************************************************)
EXTENDS MeetingList, SequenceTheorems, TLAPS

-----------------------------------------------------------------------------
(* Lists of at most one card.                                               *)

\* A list of at most one card is a sequence of cards, no longer than one.
LEMMA SingleIsShort ==
  ASSUME NEW s \in Single
  PROVE  s \in Seq(Card) /\ Len(s) <= 1
<1>1. CASE s = <<>>
  BY <1>1
<1>2. ASSUME NEW card \in Card, s = <<card>> PROVE s \in Seq(Card) /\ Len(s) <= 1
  BY <1>2
<1> QED BY <1>1, <1>2 DEF Single

\* Patching a list of at most one card leaves one, and an empty one empty.
LEMMA PatchSingle ==
  ASSUME NEW s \in Single, NEW patch \in [Card -> Card]
  PROVE  /\ [n \in DOMAIN s |-> patch[s[n]]] \in Single
         /\ [n \in DOMAIN s |-> patch[s[n]]] = <<>> <=> s = <<>>
<1> DEFINE t == [n \in DOMAIN s |-> patch[s[n]]]
<1>1. CASE s = <<>>
  <2>1. t = <<>> BY <1>1
  <2> QED BY <1>1, <2>1 DEF Single
<1>2. ASSUME NEW card \in Card, s = <<card>>
      PROVE  t \in Single /\ t # <<>> /\ s # <<>>
  <2>1. t = <<patch[card]>> BY <1>2
  <2>2. patch[card] \in Card OBVIOUS
  <2> QED BY <2>1, <2>2, <1>2 DEF Single
<1> QED BY <1>1, <1>2 DEF Single

\* What the code patches a card with makes cards of cards.
LEMMA Patches ==
  /\ \A s \in CardStates : SetState(s) \in [Card -> Card]
  /\ "title" \in Edits => SetTitle \in [Card -> Card]
  /\ "star" \in Edits => FlipStar \in [Card -> Card]
<1>1. \A s \in CardStates : SetState(s) \in [Card -> Card]
  BY DEF SetState, Card
<1>2. "title" \in Edits => SetTitle \in [Card -> Card]
  BY DEF SetTitle, Card
<1>3. "star" \in Edits => FlipStar \in [Card -> Card]
  BY DEF FlipStar, Card
<1> QED BY <1>1, <1>2, <1>3

LEMMA NewCards == \A s \in CardStates : NewCard(s) \in Card
BY DEF NewCard, Card

-----------------------------------------------------------------------------
(* The inductive invariant.  ListTypeOK alone says too little: the cards    *)
(* are of meetings that exist, so that a meeting the server has just made   *)
(* is in no list, captured or current.                                      *)

OnlyCreated(list) == \A m \in Meetings : list[m] # <<>> => status[m] # "absent"

ListData ==
  /\ ListTypeOK
  /\ items \in [Meetings -> Single]
  /\ OnlyCreated(items)
  /\ \A l \in Loads : listed[l] \subseteq Created
  /\ SpinnerHasLoad

-----------------------------------------------------------------------------
(* The list: every step of MeetingList keeps ListData.                      *)

\* Lists of at most one card per meeting have the type of items.
LEMMA SinglesAreTyped ==
  ASSUME NEW list \in [Meetings -> Single]
  PROVE  list \in [Meetings -> Seq(Card)]
<1>1. \A m \in Meetings : list[m] \in Seq(Card)
  BY SingleIsShort
<1> QED BY <1>1

\* updateItem neither adds a card nor takes one away.
LEMMA UpdateKeeps ==
  ASSUME NEW m \in Meetings, NEW patch \in [Card -> Card],
         items \in [Meetings -> Single], UpdateItem(m, patch)
  PROVE  /\ items' \in [Meetings -> Single]
         /\ \A k \in Meetings : items'[k] = <<>> <=> items[k] = <<>>
<1> DEFINE t == [n \in DOMAIN items[m] |-> patch[items[m][n]]]
<1>1. items[m] \in Single
  OBVIOUS
<1>2. t \in Single /\ (t = <<>> <=> items[m] = <<>>)
  BY <1>1, PatchSingle
<1>3. items' = [items EXCEPT ![m] = t]
  BY DEF UpdateItem
<1> QED BY <1>2, <1>3

LEMMA ListInitial ==
  ASSUME ListInit
  PROVE  ListData
<1>1. \A m \in Meetings : items[m] = <<>>
  BY DEF ListInit
<1>2. items \in [Meetings -> Single]
  BY DEF ListInit, Single
<1>3. ListTypeOK
  BY <1>2, SinglesAreTyped DEF ListInit, ListTypeOK, Statuses
<1> QED BY <1>1, <1>2, <1>3 DEF ListInit, ListData, OnlyCreated, SpinnerHasLoad

\* A step that leaves the list, the loads and the server alone, or the list with the same meetings.
LEMMA SameMeetings ==
  ASSUME ListData, items' \in [Meetings -> Single],
         \A m \in Meetings : items'[m] # <<>> => items[m] # <<>>,
         UNCHANGED <<flags, loading, status>>,
         polling' \in [Polls -> SUBSET Meetings],
         detail' \in [Polls -> {NoAnswer} \cup [meeting : Meetings, state : Statuses]]
  PROVE  ListData'
<1>1. items' \in [Meetings -> Seq(Card)]
  BY SinglesAreTyped
<1>2. ListTypeOK'
  BY <1>1 DEF ListData, ListTypeOK, flags, loading
<1> QED BY <1>2 DEF ListData, OnlyCreated, Created, SpinnerHasLoad, flags, loading

\* A load is asked for, answered, or ends.
LEMMA LoadStepKeeps ==
  ASSUME ListData, NEW l \in Loads, LoadStep(l)
  PROVE  ListData'
<1> USE DEF flags, loading, polls
<1>1. ListTypeOK /\ items \in [Meetings -> Single] /\ OnlyCreated(items) /\ SpinnerHasLoad
      /\ \A k \in Loads : listed[k] \subseteq Created
  BY DEF ListData
<1>2. CASE LoadShown(l) \/ LoadForeground(l) \/ Refresh(l)
  <2>1. ListTypeOK'
    BY <1>1, <1>2 DEF LoadShown, LoadForeground, Refresh, Ask, ListTypeOK
  <2>2. SpinnerHasLoad'
    <3>1. load'[l] = "asked"
      BY <1>1, <1>2 DEF LoadShown, LoadForeground, Refresh, Ask, ListTypeOK
    <3> QED BY <3>1 DEF SpinnerHasLoad
  <2>3. UNCHANGED <<items, listed, status>>
    BY <1>2 DEF LoadShown, LoadForeground, Refresh
  <2> QED BY <1>1, <2>1, <2>2, <2>3 DEF ListData, OnlyCreated, Created
<1>3. CASE ServerLists(l)
  <2>1. PICK S \in SUBSET Created : listed' = [listed EXCEPT ![l] = S]
    BY <1>3 DEF ServerLists
  <2>2. load' = [load EXCEPT ![l] = "answered"] /\ UNCHANGED <<items, flags, polls, status>>
    BY <1>3 DEF ServerLists
  <2>3. ListTypeOK'
    BY <1>1, <2>1, <2>2 DEF ListTypeOK, Created
  <2>4. SpinnerHasLoad'
    BY <1>1, <2>2 DEF SpinnerHasLoad, ListTypeOK
  <2>5. \A k \in Loads : listed'[k] \subseteq Created'
    BY <1>1, <2>1, <2>2 DEF Created, ListTypeOK
  <2> QED BY <1>1, <2>2, <2>3, <2>4, <2>5 DEF ListData, OnlyCreated
<1>4. CASE ListLoaded(l) \/ LoadFails(l)
  <2>1. /\ items' \in [Meetings -> Single]
        /\ \A m \in Meetings : items'[m] # <<>> => status[m] # "absent"
    <3>1. CASE ListLoaded(l)
      <4>1. items' = [m \in Meetings |-> IF m \in listed[l] THEN <<NewCard("completed")>> ELSE <<>>]
        BY <3>1 DEF ListLoaded
      <4>2. <<NewCard("completed")>> \in Single /\ <<>> \in Single
        BY NewCards DEF CardStates, Single
      <4> QED BY <1>1, <4>1, <4>2 DEF Created
    <3>2. CASE LoadFails(l)
      BY <1>1, <3>2 DEF LoadFails, OnlyCreated
    <3> QED BY <1>4, <3>1, <3>2
  <2>2. LoadEnded(l) /\ UNCHANGED <<polls, status>>
    BY <1>4 DEF ListLoaded, LoadFails
  <2>3. items' \in [Meetings -> Seq(Card)]
    BY <2>1, SinglesAreTyped
  <2>4. ListTypeOK'
    BY <1>1, <2>2, <2>3 DEF ListTypeOK, LoadEnded
  <2>5. SpinnerHasLoad'
    BY <2>2 DEF SpinnerHasLoad, LoadEnded
  <2>6. \A k \in Loads : listed'[k] \subseteq Created'
    BY <1>1, <2>2 DEF LoadEnded, Created, ListTypeOK
  <2> QED BY <2>1, <2>2, <2>4, <2>5, <2>6 DEF ListData, OnlyCreated
<1> QED BY <1>2, <1>3, <1>4 DEF LoadStep

\* What the server describes can be shown, but for a meeting in processing or one it does not know.
LEMMA PollStepKeeps ==
  ASSUME ListData, NEW p \in Polls, PollStep(p)
  PROVE  ListData'
<1> USE DEF flags, loading, polls
<1>1. ListTypeOK /\ items \in [Meetings -> Single]
  BY DEF ListData
<1>2. CASE PollStart(p)
  <2>1. Processing \subseteq Meetings
    BY DEF Processing
  <2>2. polling' \in [Polls -> SUBSET Meetings]
    BY <1>1, <1>2, <2>1 DEF PollStart, ListTypeOK
  <2>3. UNCHANGED <<items, flags, loading, detail, status>>
    BY <1>2 DEF PollStart
  <2> QED BY <1>1, <2>2, <2>3, SameMeetings DEF ListTypeOK
<1>3. ASSUME NEW m \in Meetings, ServerDescribes(p, m)
      PROVE  ListData'
  <2>1. detail' = [detail EXCEPT ![p] = [meeting |-> m, state |-> status[m]]]
    BY <1>3 DEF ServerDescribes
  <2>2. [meeting |-> m, state |-> status[m]] \in [meeting : Meetings, state : Statuses]
    BY <1>1 DEF ListTypeOK
  <2>3. detail' \in [Polls -> {NoAnswer} \cup [meeting : Meetings, state : Statuses]]
    BY <1>1, <2>1, <2>2 DEF ListTypeOK
  <2>4. UNCHANGED <<items, flags, loading, polling, status>>
    BY <1>3 DEF ServerDescribes
  <2> QED BY <1>1, <2>3, <2>4, SameMeetings DEF ListTypeOK
<1>4. ASSUME NEW m \in Meetings, PollFails(p, m)
      PROVE  ListData'
  <2>1. polling' \in [Polls -> SUBSET Meetings]
    BY <1>1, <1>4 DEF PollFails, PollNext, ListTypeOK
  <2>2. UNCHANGED <<items, flags, loading, detail, status>>
    BY <1>4 DEF PollFails
  <2> QED BY <1>1, <2>1, <2>2, SameMeetings DEF ListTypeOK
<1>5. CASE PollAnswered(p)
  <2> DEFINE m == detail[p].meeting
             s == detail[p].state
  <2>1. detail[p] \in [meeting : Meetings, state : Statuses]
    BY <1>1, <1>5 DEF PollAnswered, ListTypeOK
  <2>2. m \in Meetings /\ s \in Statuses
    BY <2>1
  <2>3. /\ items' \in [Meetings -> Single]
        /\ \A k \in Meetings : items'[k] # <<>> => items[k] # <<>>
    <3>1. Described(m, s)
      BY <1>5 DEF PollAnswered
    <3>2. CASE s \in {"processing", "absent"}
      BY <1>1, <3>1, <3>2 DEF Described
    <3>3. CASE s \notin {"processing", "absent"}
      <4>1. SetState(s) \in [Card -> Card]
        BY <2>2, <3>3, Patches DEF Statuses, CardStates
      <4>2. UpdateItem(m, SetState(s))
        BY <3>1, <3>3 DEF Described
      <4> HIDE DEF m, s
      <4> QED BY <1>1, <2>2, <4>1, <4>2, UpdateKeeps
    <3> QED BY <3>2, <3>3
  <2>4. polling' \in [Polls -> SUBSET Meetings]
    BY <1>1, <1>5 DEF PollAnswered, PollNext, ListTypeOK
  <2>5. detail' \in [Polls -> {NoAnswer} \cup [meeting : Meetings, state : Statuses]]
    BY <1>1, <1>5 DEF PollAnswered, ListTypeOK
  <2>6. UNCHANGED <<flags, loading, status>>
    BY <1>5 DEF PollAnswered
  <2> QED BY <2>3, <2>4, <2>5, <2>6, SameMeetings
<1> QED BY <1>2, <1>3, <1>4, <1>5 DEF PollStep

\* Cards are changed where they are, or removed.
LEMMA UserStepKeeps ==
  ASSUME ListData, NEW m \in Meetings, UserStep(m)
  PROVE  ListData'
<1> USE DEF flags, loading, polls
<1>1. ListTypeOK /\ items \in [Meetings -> Single]
  BY DEF ListData
<1>2. UNCHANGED <<flags, loading, polls, status>>
  BY DEF UserStep, ToggleStar, EditTitle, RequestTranscription, Delete
<1>3. /\ items' \in [Meetings -> Single]
      /\ \A k \in Meetings : items'[k] # <<>> => items[k] # <<>>
  <2>1. CASE ToggleStar(m)
    BY <1>1, <2>1, Patches, UpdateKeeps DEF ToggleStar
  <2>2. CASE EditTitle(m)
    BY <1>1, <2>2, Patches, UpdateKeeps DEF EditTitle
  <2>3. CASE RequestTranscription(m)
    BY <1>1, <2>3, Patches, UpdateKeeps DEF RequestTranscription, CardStates
  <2>4. CASE Delete(m)
    BY <1>1, <2>4 DEF Delete, Single
  <2> QED BY <2>1, <2>2, <2>3, <2>4 DEF UserStep
<1> QED BY <1>1, <1>2, <1>3, SameMeetings DEF ListTypeOK

\* The server makes meetings and finishes them, and forgets none.
LEMMA ServerStepKeeps ==
  ASSUME ListData, NEW m \in Meetings, ServerStep(m)
  PROVE  ListData' /\ \A k \in Meetings : status[k] # "absent" => status'[k] # "absent"
<1> USE DEF flags, loading, polls
<1>1. UNCHANGED <<items, flags, loading, polls>>
  BY DEF ServerStep, Create, Advance
<1>2. PICK s \in Statuses \ {"absent"} : status' = [status EXCEPT ![m] = s]
  BY ProgressAssumption DEF ServerStep, Create, Advance, Statuses
<1>3. \A k \in Meetings : status[k] # "absent" => status'[k] # "absent"
  BY <1>2 DEF ListData, ListTypeOK
<1>4. ListTypeOK'
  BY <1>1, <1>2 DEF ListData, ListTypeOK
<1> QED BY <1>1, <1>3, <1>4 DEF ListData, OnlyCreated, Created, SpinnerHasLoad

\* No step of the list makes the server forget a meeting.
LEMMA ListStepKeeps ==
  ASSUME ListData, ListStep
  PROVE  ListData' /\ \A k \in Meetings : status[k] # "absent" => status'[k] # "absent"
<1> USE DEF flags, loading, polls
<1>1. ASSUME NEW l \in Loads, LoadStep(l) PROVE UNCHANGED status
  BY <1>1 DEF LoadStep, LoadShown, LoadForeground, Refresh, ServerLists, ListLoaded, LoadFails
<1>2. ASSUME NEW p \in Polls, PollStep(p) PROVE UNCHANGED status
  BY <1>2 DEF PollStep, PollStart, PollAnswered, ServerDescribes, PollFails
<1>3. ASSUME NEW m \in Meetings, UserStep(m) PROVE UNCHANGED status
  BY <1>3 DEF UserStep, ToggleStar, EditTitle, RequestTranscription, Delete
<1> QED BY <1>1, <1>2, <1>3, LoadStepKeeps, PollStepKeeps, UserStepKeeps, ServerStepKeeps DEF ListStep

\* A save writes what it promises.
LEMMA AddedKeeps ==
  ASSUME ListData, NEW m \in Meetings, Added(m)
  PROVE  ListData'
<1> USE DEF flags, loading, polls
<1>1. items' \in [Meetings -> Seq(Card)]
  BY SinglesAreTyped DEF Added
<1>2. ListTypeOK'
  BY <1>1 DEF ListData, ListTypeOK, Added
<1> QED BY <1>2 DEF ListData, OnlyCreated, Created, SpinnerHasLoad, Added

LEMMA ListInductive == ListData /\ [ListNext]_listVars => ListData'
<1> SUFFICES ASSUME ListData, [ListNext]_listVars PROVE ListData'
  OBVIOUS
<1>1. CASE ListNext
  BY <1>1, ListStepKeeps, AddedKeeps DEF ListNext
<1>2. CASE UNCHANGED listVars
  BY <1>2 DEF listVars, flags, loading, polls, ListData, ListTypeOK, OnlyCreated, Created, SpinnerHasLoad
<1> QED BY <1>1, <1>2

-----------------------------------------------------------------------------
(* What becomes of a card.                                                  *)

KeepsTitle(patch) == \A card \in Card : "title" \in card.edits => "title" \in patch[card].edits

LEMMA PatchesKeepTitle ==
  /\ \A s \in CardStates : KeepsTitle(SetState(s))
  /\ "title" \in Edits => KeepsTitle(SetTitle)
  /\ "star" \in Edits => KeepsTitle(FlipStar)
<1>1. \A s \in CardStates : KeepsTitle(SetState(s))
  BY DEF KeepsTitle, SetState, Card
<1>2. "title" \in Edits => KeepsTitle(SetTitle)
  BY DEF KeepsTitle, SetTitle, Card
<1>3. "star" \in Edits => KeepsTitle(FlipStar)
  BY DEF KeepsTitle, FlipStar, Card
<1> QED BY <1>1, <1>2, <1>3

\* Unless the list is replaced, its cards are patched where they are, one meeting's are removed, or
\* nothing happens to them.
LEMMA CardSteps ==
  ASSUME ListData, ListNext, ~Replaced
  PROVE  \/ UNCHANGED items
         \/ \E m \in Meetings : items' = [items EXCEPT ![m] = <<>>]
         \/ \E m \in Meetings, patch \in [Card -> Card] : UpdateItem(m, patch) /\ KeepsTitle(patch)
<1>1. ListTypeOK
  BY DEF ListData
<1>2. ASSUME NEW l \in Loads, LoadStep(l) PROVE UNCHANGED items
  <2>1. ~ListLoaded(l)
    <3>1. SUFFICES ASSUME ListLoaded(l) PROVE FALSE
      OBVIOUS
    <3>2. load[l] = "answered" /\ load'[l] = "idle"
      BY <1>1, <3>1 DEF ListLoaded, LoadEnded, ListTypeOK
    <3> QED BY <3>2 DEF Replaced
  <2> QED BY <1>2, <2>1 DEF LoadStep, LoadShown, LoadForeground, Refresh, ServerLists, LoadFails
<1>3. ASSUME NEW p \in Polls, PollStep(p)
      PROVE  \/ UNCHANGED items
             \/ \E m \in Meetings, patch \in [Card -> Card] : UpdateItem(m, patch) /\ KeepsTitle(patch)
  <2>1. CASE PollAnswered(p)
    <3>1. PICK m, s : m = detail[p].meeting /\ s = detail[p].state
      OBVIOUS
    <3>2. detail[p] \in [meeting : Meetings, state : Statuses] /\ Described(m, s)
      BY <1>1, <2>1, <3>1 DEF PollAnswered, ListTypeOK
    <3>3. m \in Meetings /\ s \in Statuses
      BY <3>1, <3>2
    <3>4. CASE s \in {"processing", "absent"}
      BY <3>2, <3>4 DEF Described
    <3>5. CASE s \notin {"processing", "absent"}
      <4>1. s \in CardStates /\ UpdateItem(m, SetState(s))
        BY <3>2, <3>3, <3>5 DEF Described, Statuses, CardStates
      <4> QED BY <3>3, <4>1, Patches, PatchesKeepTitle
    <3> QED BY <3>4, <3>5
  <2>2. CASE ~PollAnswered(p)
    BY <1>3, <2>2 DEF PollStep, PollStart, ServerDescribes, PollFails
  <2> QED BY <2>1, <2>2
<1>4. ASSUME NEW m \in Meetings, UserStep(m)
      PROVE  \/ items' = [items EXCEPT ![m] = <<>>]
             \/ \E patch \in [Card -> Card] : UpdateItem(m, patch) /\ KeepsTitle(patch)
  <2>1. CASE Delete(m)
    BY <2>1 DEF Delete
  <2>2. CASE ToggleStar(m)
    BY <2>2, Patches, PatchesKeepTitle DEF ToggleStar
  <2>3. CASE EditTitle(m)
    BY <2>3, Patches, PatchesKeepTitle DEF EditTitle
  <2>4. CASE RequestTranscription(m)
    BY <2>4, Patches, PatchesKeepTitle DEF RequestTranscription, CardStates
  <2> QED BY <1>4, <2>1, <2>2, <2>3, <2>4 DEF UserStep
<1>5. ASSUME NEW m \in Meetings, ServerStep(m) PROVE UNCHANGED items
  BY <1>5 DEF ServerStep, Create, Advance
<1>6. ~\E m \in Meetings : Added(m)
  BY DEF Replaced
<1> QED BY <1>2, <1>3, <1>4, <1>5, <1>6 DEF ListNext, ListStep

\* A patch that keeps titles takes none from the list.
LEMMA UpdateKeepsTitles ==
  ASSUME ListData, NEW m \in Meetings, NEW patch \in [Card -> Card], UpdateItem(m, patch), KeepsTitle(patch),
         NEW k \in Meetings, Titled(k)
  PROVE  Titled(k)'
<1>1. items \in [Meetings -> Single]
  BY DEF ListData
<1>2. CASE k # m
  <2>1. items'[k] = items[k]
    BY <1>1, <1>2 DEF UpdateItem
  <2> QED BY <2>1 DEF Titled
<1>3. CASE k = m
  <2>1. items[m] # <<>>
    BY <1>3 DEF Titled
  <2>2. PICK card \in Card : items[m] = <<card>>
    BY <1>1, <2>1 DEF Single
  <2>3. "title" \in card.edits
    BY <1>3, <2>2 DEF Titled
  <2>4. items'[m] = <<patch[card]>>
    <3>1. items'[m] = [n \in DOMAIN items[m] |-> patch[items[m][n]]]
      BY <1>1 DEF UpdateItem
    <3> QED BY <2>2, <3>1
  <2>5. 1 \in DOMAIN items'[m] /\ items'[m][1] = patch[card]
    BY <2>4
  <2>6. "title" \in patch[card].edits
    BY <2>3 DEF KeepsTitle
  <2> QED BY <1>3, <2>5, <2>6 DEF Titled
<1> QED BY <1>2, <1>3

-----------------------------------------------------------------------------
(* What holds of every list.                                                *)

\* The inductive invariant holds of the list in every run.
THEOREM ListInvariance == ListSpec => []ListData
<1>1. ListInit => ListData
  BY ListInitial
<1> QED BY <1>1, ListInductive, PTL DEF ListSpec

\* The list, the loads and the rounds of polling keep their types.
THEOREM ListTyped == ListSpec => []ListTypeOK
<1>1. ListData => ListTypeOK
  BY DEF ListData
<1> QED BY <1>1, ListInvariance, PTL

\* A spinner is shown only while some call of loadList is under way.
THEOREM ListSpinnerEnds == ListSpec => []SpinnerHasLoad
<1>1. ListData => SpinnerHasLoad
  BY DEF ListData
<1> QED BY <1>1, ListInvariance, PTL

\* Only loads and saves bring a meeting back that left the list; poll answers and edits do not.
THEOREM RevivedByLoads == ListSpec => OnlyLoadsRevive
<1>1. ASSUME ListData, [ListNext]_listVars, NEW m \in Meetings, Shown(m)', ~Shown(m), ~Replaced
      PROVE  FALSE
  <2>1. items \in [Meetings -> Single] /\ items'[m] # <<>> /\ items[m] = <<>>
    BY <1>1 DEF ListData, Shown
  <2>2. CASE UNCHANGED items
    BY <2>1, <2>2
  <2>3. ASSUME NEW k \in Meetings, items' = [items EXCEPT ![k] = <<>>] PROVE FALSE
    BY <2>1, <2>3
  <2>4. ASSUME NEW k \in Meetings, NEW patch \in [Card -> Card], UpdateItem(k, patch) PROVE FALSE
    BY <2>1, <2>4, UpdateKeeps
  <2>5. CASE UNCHANGED listVars
    BY <2>2, <2>5 DEF listVars
  <2> QED BY <1>1, <2>2, <2>3, <2>4, <2>5, CardSteps
<1>2. ListData /\ [ListNext]_listVars => [\A m \in Meetings : Shown(m)' /\ ~Shown(m) => Replaced]_listVars
  BY <1>1
<1> QED BY <1>2, ListInvariance, PTL DEF ListSpec, OnlyLoadsRevive

\* A title stays on its card until the card goes or the list is replaced.
THEOREM TitlesSurvive == ListSpec => TitleSurvivesPolls
<1>1. ASSUME ListData, ListNext, NEW m \in Meetings, Titled(m), Shown(m)', ~Replaced
      PROVE  Titled(m)'
  <2>1. items \in [Meetings -> Single]
    BY <1>1 DEF ListData
  <2>2. CASE UNCHANGED items
    BY <1>1, <2>2 DEF Titled
  <2>3. ASSUME NEW k \in Meetings, items' = [items EXCEPT ![k] = <<>>] PROVE Titled(m)'
    <3>1. items'[m] = items[m]
      BY <1>1, <2>1, <2>3 DEF Shown
    <3> QED BY <1>1, <3>1 DEF Titled
  <2>4. ASSUME NEW k \in Meetings, NEW patch \in [Card -> Card], UpdateItem(k, patch), KeepsTitle(patch)
        PROVE  Titled(m)'
    BY <1>1, <2>4, UpdateKeepsTitles
  <2> QED BY <1>1, <2>2, <2>3, <2>4, CardSteps
<1>2. ListData /\ [ListNext]_listVars
        => [\A m \in Meetings : Titled(m) /\ Shown(m)' => Titled(m)' \/ Replaced]_listVars
  BY <1>1
<1> QED BY <1>2, ListInvariance, PTL DEF ListSpec, TitleSurvivesPolls
=============================================================================
