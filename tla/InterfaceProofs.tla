-------------------------- MODULE InterfaceProofs ---------------------------
(***************************************************************************)
(* What the page shows and sends, for every collection of records, every   *)
(* set of texts and every order of events.                                 *)
(***************************************************************************)
EXTENDS Interface, SequenceProofs

(* A set of cards that show which records are selected.                     *)
CardsShow(among, selected) ==
  \A card \in among : card[2] <=> Contains(selected, card[1])

(* The parts of the invariant.                                              *)
Selecting ==
  /\ selectedIds \in Selections
  /\ mode \in {"search", "ask"}
  /\ AskHasEvidence

Waiting ==
  /\ BusyWhileWaiting
  /\ response # Nothing => pending # Nothing

IInv ==
  /\ Selecting
  /\ ScreenShowsSelection
  /\ Waiting

-----------------------------------------------------------------------------
(* What the server answers                                                 *)

LEMMA CollectionsAreSequences ==
  ASSUME NEW c \in Collections
  PROVE  c \in Seq(Ids) /\ IsInjective(c)
<1>1. PICK m \in 0..(MaxLimit + 1) : c \in [1..m -> Ids]
  BY DEF Collections, SeqOf
<1>2. m \in Nat
  BY LimitsAssumption
<1>3. QED
  BY <1>1, <1>2 DEF Collections

(* If no record is missing, those asked for are found, in their order       *)
(* (get_by_ids after the test of missing_ids).                              *)
LEMMA NoneMissing ==
  ASSUME NEW c \in Seq(Ids), NEW ids \in Seq(Ids), Missing(c, ids) = <<>>
  PROVE  Known(c, ids) = ids
<1> DEFINE found == Known(c, ids)
<1>1. ToSet(found) = ToSet(ids) \cap ToSet(c)
  BY AmongMembers DEF Known
<1>2. ToSet(Missing(c, ids)) = ToSet(ids) \cap (ToSet(ids) \ ToSet(found))
  BY AmongMembers DEF Missing
<1>3. ToSet(<<>>) = {}
  BY DEF ToSet
<1> HIDE DEF found
<1>4. ToSet(ids) \subseteq ToSet(c)
  BY <1>1, <1>2, <1>3
<1>5. QED
  BY <1>4, AmongAll DEF Known

(* What a search may be answered.                                           *)
LEMMA SearchAnswers ==
  ASSUME NEW c \in Seq(Ids), NEW request, request.operation = "search"
  PROVE  /\ Response(c, request) # UnhandledError
         /\ Response(c, request).outcome \in {"error", "empty", "results"}
         /\ Response(c, request).outcome = "results" =>
              Response(c, request).results \in Seq(Ids)
         /\ Response(c, request) \in Replies
<1>1. CASE SearchErrors(request) # {}
  <2>1. Response(c, request) = ValidationError(SearchErrors(request))
    BY <1>1 DEF Response, RequestErrors
  <2>2. Root \notin SearchErrors(request)
    BY DEF SearchErrors, Root
  <2>3. Response(c, request) = Error(422, "invalid_request", SearchErrors(request))
    BY <2>1, <2>2 DEF ValidationError
  <2>4. SearchErrors(request) \in SUBSET Fields
    BY DEF SearchErrors, Fields
  <2>5. Response(c, request) \in Replies
    BY <2>3, <2>4 DEF Error, Replies
  <2>6. QED
    BY <2>3, <2>5 DEF Error, UnhandledError
<1>2. CASE SearchErrors(request) = {}
  <2> DEFINE matches == AllMatches(c, request.text)
             results == FirstOf(request.limit, matches)
  <2>1. Response(c, request) = AnswerSearch(c, request)
    BY <1>2 DEF Response, RequestErrors
  <2>2. results \in Seq(Ids) /\ Len(matches) \in Nat
    <3>1. matches \in Seq(Ids)
      BY AmongSelects DEF AllMatches
    <3>2. request.limit \in 1..MaxLimit
      BY <1>2 DEF SearchErrors
    <3> HIDE DEF matches
    <3>3. request.limit \in Nat
      BY <3>2, LimitsAssumption
    <3>4. QED
      BY <3>1, <3>3 DEF FirstOf
  <2> HIDE DEF results, matches
  <2>3. \/ Response(c, request) = Error(503, "search_unavailable", {})
        \/ Response(c, request) =
             [outcome |-> IF results = <<>> THEN "empty" ELSE "results",
              status |-> 200, results |-> results, total |-> Len(matches)]
    BY <2>1 DEF AnswerSearch, results, matches
  <2>4. Response(c, request) \in Replies
    BY <2>2, <2>3 DEF Error, Replies
  <2>5. QED
    BY <2>2, <2>3, <2>4 DEF Error, UnhandledError
<1>3. QED
  BY <1>1, <1>2

(* A citation for each of a sequence of records (to_answer_contract).       *)
LEMMA AnsweredIsReply ==
  ASSUME NEW ids \in Seq(Ids)
  PROVE  Answered(ids) \in Replies
<1> DEFINE Citation(n) == [citation_id |-> n, evidence_ids |-> <<ids[n]>>]
           citations   == [n \in 1..Len(ids) |-> Citation(n)]
<1>1. ASSUME NEW n \in 1..Len(ids) PROVE Citation(n) \in Citations
  <2>1. ids[n] \in Ids /\ n \in Nat \ {0}
    OBVIOUS
  <2>2. QED
    BY <2>1 DEF Citations
<1>2. Answered(ids) = [outcome |-> "answered", status |-> 200, citations |-> citations]
  BY DEF Answered
<1> HIDE DEF Citation
<1>3. citations \in [1..Len(ids) -> Citations]
  BY <1>1
<1> HIDE DEF citations
<1>4. Len(ids) \in Nat
  OBVIOUS
<1>5. citations \in Seq(Citations)
  BY <1>3, <1>4
<1>6. QED
  BY <1>2, <1>5 DEF Replies

(* What an answer request for records without repeats may be answered.      *)
LEMMA QuestionAnswers ==
  ASSUME NEW c \in Seq(Ids), NEW request, request.operation = "answer",
         request.evidence_ids \in Seq(Ids), IsInjective(request.evidence_ids)
  PROVE  /\ Response(c, request) # UnhandledError
         /\ Response(c, request).outcome \in
              {"error", "generation_unavailable", "abstained", "answered"}
         /\ Response(c, request).outcome = "answered" =>
              Response(c, request) = Answered(request.evidence_ids)
         /\ Response(c, request) \in Replies
<1> DEFINE ids == request.evidence_ids
<1>1. CASE AnswerErrors(request) # {}
  <2>1. Response(c, request) = ValidationError(AnswerErrors(request))
    BY <1>1 DEF Response, RequestErrors
  <2>2. Root \notin AnswerErrors(request)
    BY DEF AnswerErrors, Root
  <2>3. Response(c, request) = Error(422, "invalid_request", AnswerErrors(request))
    BY <2>1, <2>2 DEF ValidationError
  <2>4. AnswerErrors(request) \in SUBSET Fields
    BY DEF AnswerErrors, Fields
  <2>5. Response(c, request) \in Replies
    BY <2>3, <2>4 DEF Error, Replies
  <2>6. QED
    BY <2>3, <2>5 DEF Error, UnhandledError
<1>2. CASE AnswerErrors(request) = {}
  <2>1. Response(c, request) = AnswerQuestion(c, request)
    BY <1>2 DEF Response, RequestErrors
  <2>2. CASE Missing(c, ids) # <<>>
    <3>1. Response(c, request) = Error(404, "not_found", ToSet(Missing(c, ids)))
      BY <2>1, <2>2 DEF AnswerQuestion
    <3>2. ToSet(Missing(c, ids)) \in SUBSET Ids
      <4>1. ToSet(ids) \subseteq Ids
        BY DEF ToSet
      <4>2. ToSet(Missing(c, ids)) \subseteq ToSet(ids)
        BY AmongMembers DEF Missing
      <4>3. QED
        BY <4>1, <4>2
    <3>3. Response(c, request) \in Replies
      BY <3>1, <3>2 DEF Error, Replies
    <3>4. QED
      BY <3>1, <3>3 DEF Error, UnhandledError
  <2>3. CASE Missing(c, ids) = <<>>
    <3>1. Known(c, ids) = ids
      BY <2>3, NoneMissing
    <3>2. Response(c, request) = Generate(Markers[request.text], ids)
      BY <2>1, <2>3, <3>1 DEF AnswerQuestion
    <3>3. \/ Response(c, request) = [outcome |-> "generation_unavailable",
                                     status |-> 200, reason |-> "not_configured"]
          \/ \E reason \in {"unsupported_question", "conflicting_evidence",
                            "insufficient_evidence"} :
               Response(c, request) = Abstained(reason)
          \/ Response(c, request) = Answered(ids)
      BY <3>2, Zenon DEF Generate
    <3>4. Answered(ids) \in Replies
      BY AnsweredIsReply
    <3>5. Response(c, request) \in Replies
      BY <3>3, <3>4 DEF Abstained, Replies
    <3>6. QED
      BY <3>3, <3>5 DEF Abstained, Answered, UnhandledError
  <2>4. QED
    BY <2>2, <2>3
<1>3. QED
  BY <1>1, <1>2

-----------------------------------------------------------------------------
(* The selection                                                           *)

(* Taking a record out of the selection leaves a selection without repeats  *)
(* (splice in toggleSelection).                                             *)
LEMMA RemovingKeepsType ==
  ASSUME NEW s \in Selections, NEW n \in DOMAIN s
  PROVE  RemoveAt(s, n) \in Selections
<1> DEFINE before == SubSeq(s, 1, n - 1)
           after == SubSeq(s, n + 1, Len(s))
           t == before \o after
<1>0. s \in Seq(Ids) /\ IsInjective(s)
  BY DEF Selections
<1>1. n \in Int /\ n >= 1 /\ n <= Len(s) /\ Len(s) \in Nat
  BY <1>0
<1>2. /\ before \in Seq(Ids)
      /\ Len(before) = n - 1
      /\ \A i \in 1..(n - 1) : before[i] = s[i]
  BY <1>0, <1>1
<1>3. /\ after \in Seq(Ids)
      /\ Len(after) = Len(s) - n
      /\ \A i \in 1..(Len(s) - n) : after[i] = s[n + i]
  BY <1>0, <1>1
<1>4. t \in Seq(Ids) /\ Len(t) = Len(s) - 1
  <2> HIDE DEF before, after
  <2>1. t \in Seq(Ids) /\ Len(t) = Len(before) + Len(after)
    <3>1. before \in Seq(Ids) /\ after \in Seq(Ids)
      BY <1>2, <1>3
    <3>2. QED
      BY <3>1, ConcatProperties
  <2>2. QED
    BY <1>1, <1>2, <1>3, <2>1
<1>5. \A i \in 1..(Len(s) - 1) : t[i] = IF i < n THEN s[i] ELSE s[i + 1]
  <2> HIDE DEF before, after
  <2> SUFFICES ASSUME NEW i \in 1..(Len(s) - 1)
               PROVE  t[i] = IF i < n THEN s[i] ELSE s[i + 1]
    OBVIOUS
  <2>1. CASE i < n
    BY <1>1, <1>2, <1>3, <2>1
  <2>2. CASE ~(i < n)
    <3>1. t[i] = after[i - (n - 1)]
      BY <1>1, <1>2, <1>3, <2>2
    <3>2. i - (n - 1) \in 1..(Len(s) - n) /\ n + (i - (n - 1)) = i + 1
      BY <1>1, <2>2
    <3>3. QED
      BY <1>3, <2>2, <3>1, <3>2
  <2>3. QED
    BY <2>1, <2>2
<1>6. IsInjective(t)
  <2> HIDE DEF t
  <2> SUFFICES ASSUME NEW i \in 1..(Len(s) - 1), NEW j \in 1..(Len(s) - 1), t[i] = t[j]
               PROVE  i = j
    BY <1>4 DEF IsInjective
  <2> DEFINE Place(k) == IF k < n THEN k ELSE k + 1
  <2>1. Place(i) \in DOMAIN s /\ Place(j) \in DOMAIN s
    BY <1>0, <1>1
  <2>2. s[Place(i)] = s[Place(j)]
    BY <1>5
  <2>3. Place(i) = Place(j)
    BY <1>0, <2>1, <2>2, Zenon DEF IsInjective
  <2>4. QED
    BY <1>1, <2>3
<1>7. QED
  BY <1>4, <1>6 DEF RemoveAt, Selections

(* Adding a record that is not selected yet keeps it one.                   *)
LEMMA AddingKeepsType ==
  ASSUME NEW s \in Selections, NEW id \in Ids, ~Contains(s, id)
  PROVE  Append(s, id) \in Selections
<1> DEFINE t == Append(s, id)
<1>1. s \in Seq(Ids) /\ IsInjective(s)
  BY DEF Selections
<1>2. /\ t \in Seq(Ids)
      /\ Len(t) = Len(s) + 1
      /\ \A i \in 1..Len(s) : t[i] = s[i] /\ s[i] # id
      /\ t[Len(s) + 1] = id
  BY <1>1 DEF Contains
<1> HIDE DEF t
<1>3. IsInjective(t)
  <2> SUFFICES ASSUME NEW i \in 1..(Len(s) + 1), NEW j \in 1..(Len(s) + 1), t[i] = t[j]
               PROVE  i = j
    BY <1>1, <1>2 DEF IsInjective
  <2>1. i \in 1..Len(s) \/ i = Len(s) + 1
    BY <1>1
  <2>2. j \in 1..Len(s) \/ j = Len(s) + 1
    BY <1>1
  <2>3. QED
    BY <1>1, <1>2, <2>1, <2>2 DEF IsInjective
<1>4. QED
  BY <1>2, <1>3 DEF Selections, t

(* Whatever the new selection, syncSelectionUI shows it on every card.      *)
LEMMA ShownAsSelected ==
  ASSUME NEW among, NEW selected, ShowSelection(among, selected)
  PROVE  /\ CardsShow(cards', selected)
         /\ tray' = selected
         /\ askDisabled' <=> selected = <<>>
<1>1. ASSUME NEW card \in cards'
      PROVE  card[2] <=> Contains(selected, card[1])
  <2>1. PICK old \in among : card = <<old[1], Contains(selected, old[1])>>
    BY <1>1, Zenon DEF ShowSelection
  <2>2. card[1] = old[1]
    BY <2>1
  <2>3. card[2] = Contains(selected, old[1])
    BY <2>1
  <2> QED
    BY <2>2, <2>3, Zenon
<1> QED
  BY <1>1, Zenon DEF ShowSelection, CardsShow

(* toggleSelection and clearSelection keep the screen and the mode in line  *)
(* with the selection they make.                                            *)
LEMMA SelectKeeps ==
  ASSUME Selecting, NEW selected \in Selections, Select(selected)
  PROVE  Selecting' /\ ScreenShowsSelection'
<1> DEFINE M == ModeAfter(selected)
<1>1. selectedIds' = selected /\ mode' = M /\ placeholder' = PlaceholderFor(mode', selected)
  BY Zenon DEF Select
<1>2. /\ CardsShow(cards', selected)
      /\ tray' = selected
      /\ askDisabled' <=> selected = <<>>
  BY ShownAsSelected, Zenon DEF Select
<1>3. M \in {"search", "ask"} /\ (M = "ask" => selected # <<>>)
  BY DEF Selecting, ModeAfter
<1>4. Selecting'
  BY <1>1, <1>3, Zenon DEF Selecting, AskHasEvidence
<1>5. ScreenShowsSelection'
  BY <1>1, <1>2, Zenon DEF ScreenShowsSelection, CardsShow
<1> QED
  BY <1>4, <1>5, Zenon

(* The mode buttons: ask mode is only entered with evidence selected.       *)
LEMMA SetModeKeeps ==
  ASSUME Selecting, ScreenShowsSelection, NEW m \in {"search", "ask"},
         m = "ask" => ~askDisabled,
         SetMode(m), UNCHANGED <<selectedIds, cards, tray, askDisabled>>
  PROVE  Selecting' /\ ScreenShowsSelection'
<1>1. m = "ask" => selectedIds # <<>>
  BY Zenon DEF ScreenShowsSelection
<1>2. mode' = m /\ placeholder' = PlaceholderFor(m, selectedIds)
  BY Zenon DEF SetMode
<1>3. Selecting'
  BY <1>1, <1>2, Zenon DEF Selecting, AskHasEvidence
<1>4. ScreenShowsSelection'
  BY <1>2, Zenon DEF ScreenShowsSelection
<1> QED
  BY <1>3, <1>4, Zenon

-----------------------------------------------------------------------------
(* Requests                                                                *)

(* What the submit handler sends is a request, and it sends it only while   *)
(* nothing is under way.                                                    *)
LEMMA SubmitInBegins ==
  ASSUME Selecting, Waiting, NEW m, NEW text \in Texts, SubmitIn(m, text)
  PROVE  Waiting' /\ pending = Nothing
<1> DEFINE R == IF m = "ask" /\ selectedIds # <<>>
                THEN Ask(text, selectedIds) ELSE Search(text, PageSize)
<1>1. Search(text, PageSize) \in Requests
  BY DEF Search, Requests
<1>2. Ask(text, selectedIds) \in Requests
  BY DEF Ask, Requests, Selecting, Selections
<1>3. R # Nothing
  BY <1>1, <1>2, NothingAssumption
<1>4. Begin(R)
  BY Zenon DEF SubmitIn
<1>5. pending' # Nothing /\ busy' /\ typing' /\ response' = response
  BY <1>3, <1>4, Zenon DEF Begin
<1>6. pending = Nothing
  BY Zenon DEF Waiting, BusyWhileWaiting, SubmitIn
<1>7. Waiting'
  BY <1>5, Zenon DEF Waiting, BusyWhileWaiting
<1> QED
  BY <1>6, <1>7, Zenon

(* The finally block of submitSearch and submitAsk.                         *)
LEMMA SettleEnds ==
  ASSUME NEW message, Settle(message)
  PROVE  Waiting' /\ pending' = Nothing
BY Zenon DEF Settle, Waiting, BusyWhileWaiting

-----------------------------------------------------------------------------
(* The invariant                                                           *)

(* The page starts empty, in search mode, with nothing under way.           *)
LEMMA Initially == Init => IInv
<1> SUFFICES ASSUME Init PROVE IInv
  OBVIOUS
<1>1. Selecting
  BY DEF Init, Selecting, AskHasEvidence, Selections, IsInjective
<1>2. ScreenShowsSelection
  BY DEF Init, ScreenShowsSelection, PlaceholderFor
<1>3. Waiting
  BY DEF Init, Waiting, BusyWhileWaiting
<1> QED
  BY <1>1, <1>2, <1>3 DEF IInv

LEMMA SelectionUntouched ==
  ASSUME Selecting, ScreenShowsSelection, UNCHANGED selection
  PROVE  Selecting' /\ ScreenShowsSelection'
<1> USE DEF selection
<1>1. Selecting'
  BY DEF Selecting, AskHasEvidence
<1>2. ScreenShowsSelection'
  BY DEF ScreenShowsSelection
<1> QED
  BY <1>1, <1>2

LEMMA ExchangeUntouched ==
  ASSUME Waiting, UNCHANGED exchange
  PROVE  Waiting' /\ pending' = pending
BY DEF exchange, Waiting, BusyWhileWaiting

(* What a step does to the request under way.                               *)
Settles == pending # Nothing /\ pending' # pending => pending' = Nothing

(* Every step keeps the invariant and sends at most one request.            *)
LEMMA StepKeeps ==
  ASSUME IInv, [Next]_vars
  PROVE  IInv' /\ Settles
<1>0. Selecting /\ ScreenShowsSelection /\ Waiting
  BY Zenon DEF IInv
<1>a. ASSUME Selecting', ScreenShowsSelection', Waiting', Settles
      PROVE  IInv' /\ Settles
  BY <1>a, Zenon DEF IInv
<1>b. ASSUME UNCHANGED exchange
      PROVE  Waiting' /\ Settles
  BY <1>0, <1>b, ExchangeUntouched, Zenon DEF Settles
<1>1. CASE ClickSearchMode
  <2>1. Selecting' /\ ScreenShowsSelection'
    BY <1>0, <1>1, SetModeKeeps DEF ClickSearchMode
  <2>2. Waiting' /\ Settles
    BY <1>1, <1>b, Zenon DEF ClickSearchMode
  <2> QED
    BY <1>a, <2>1, <2>2, Zenon
<1>2. CASE ClickAskMode
  <2>1. Selecting' /\ ScreenShowsSelection'
    BY <1>0, <1>2, SetModeKeeps DEF ClickAskMode
  <2>2. Waiting' /\ Settles
    BY <1>2, <1>b, Zenon DEF ClickAskMode
  <2> QED
    BY <1>a, <2>1, <2>2, Zenon
<1>3. ASSUME NEW id \in Ids, ToggleSelection(id)
      PROVE  IInv' /\ Settles
  <2>1. PICK selected \in Selections : Select(selected)
    <3>1. CASE Deselect(id)
      <4>1. PICK n \in DOMAIN selectedIds : Select(RemoveAt(selectedIds, n))
        BY <3>1, Zenon DEF Deselect
      <4>2. RemoveAt(selectedIds, n) \in Selections
        BY <1>0, RemovingKeepsType DEF Selecting
      <4> QED
        BY <4>1, <4>2, Zenon
    <3>2. CASE ~Contains(selectedIds, id) /\ Select(Append(selectedIds, id))
      <4>1. Append(selectedIds, id) \in Selections
        BY <1>0, <1>3, <3>2, AddingKeepsType DEF Selecting
      <4> QED
        BY <3>2, <4>1, Zenon
    <3> QED
      BY <1>3, <3>1, <3>2, Zenon DEF ToggleSelection
  <2>2. Selecting' /\ ScreenShowsSelection'
    BY <1>0, <2>1, SelectKeeps, Zenon
  <2>3. Waiting' /\ Settles
    BY <1>3, <1>b, Zenon DEF ToggleSelection
  <2> QED
    BY <1>a, <2>2, <2>3, Zenon
<1>4. CASE ClearSelection
  <2>1. Selecting' /\ ScreenShowsSelection'
    <3>1. <<>> \in Selections
      BY DEF Selections, IsInjective
    <3>2. Select(<<>>)
      BY <1>4, Zenon DEF ClearSelection
    <3> QED
      BY <1>0, <3>1, <3>2, SelectKeeps, Zenon
  <2>2. Waiting' /\ Settles
    BY <1>4, <1>b, Zenon DEF ClearSelection
  <2> QED
    BY <1>a, <2>1, <2>2, Zenon
<1>5. CASE Submit
  <2>1. PICK text \in Texts : SubmitIn(mode, text)
    BY <1>5, Zenon DEF Submit
  <2>2. Waiting' /\ pending = Nothing
    BY <1>0, <2>1, SubmitInBegins, Zenon
  <2>3. UNCHANGED selection
    BY <1>5, <2>1 DEF Submit, SubmitIn, selection
  <2>4. Selecting' /\ ScreenShowsSelection'
    BY <1>0, <2>3, SelectionUntouched, Zenon
  <2> QED
    BY <1>a, <2>2, <2>4, Zenon DEF Settles
<1>6. CASE ExampleChip
  <2>1. PICK text \in Texts : SubmitIn("search", text)
    BY <1>6, Zenon DEF ExampleChip
  <2>2. Waiting' /\ pending = Nothing
    BY <1>0, <2>1, SubmitInBegins, Zenon
  <2>3. UNCHANGED <<selectedIds, cards, tray, askDisabled>>
    BY <2>1 DEF SubmitIn
  <2>4. Selecting' /\ ScreenShowsSelection'
    BY <1>0, <1>6, <2>3, SetModeKeeps DEF ExampleChip
  <2> QED
    BY <1>a, <2>2, <2>4, Zenon DEF Settles
<1>7. CASE AnswerChip
  <2>1. PICK text \in Texts : SubmitIn("ask", text)
    BY <1>7, Zenon DEF AnswerChip
  <2>2. Waiting' /\ pending = Nothing
    BY <1>0, <2>1, SubmitInBegins, Zenon
  <2>3. UNCHANGED <<selectedIds, cards, tray, askDisabled>>
    BY <2>1 DEF SubmitIn
  <2>4. Selecting' /\ ScreenShowsSelection'
    BY <1>0, <1>7, <2>3, SetModeKeeps DEF AnswerChip
  <2> QED
    BY <1>a, <2>2, <2>4, Zenon DEF Settles
<1>8. CASE ServerResponds
  <2>1. UNCHANGED <<selection, busy, typing, pending>> /\ pending # Nothing
    BY <1>8, Zenon DEF ServerResponds
  <2>2. Selecting' /\ ScreenShowsSelection'
    BY <1>0, <2>1, SelectionUntouched, Zenon
  <2>3. Waiting' /\ Settles
    BY <1>0, <2>1 DEF Waiting, BusyWhileWaiting, Settles
  <2> QED
    BY <1>a, <2>2, <2>3, Zenon
<1>9. CASE Deliver
  <2>1. Waiting' /\ pending' = Nothing
    BY <1>9, SettleEnds, Zenon DEF Deliver
  <2>2. CASE UNCHANGED selection
    <3>1. Selecting' /\ ScreenShowsSelection'
      BY <1>0, <2>2, SelectionUntouched, Zenon
    <3> QED
      BY <1>a, <2>1, <3>1, Zenon DEF Settles
  <2>3. CASE RenderResults(response.results)
    <3>1. PICK among : ShowSelection(among, selectedIds)
      BY <2>3, Zenon DEF RenderResults
    <3>2. UNCHANGED <<selectedIds, mode>>
      BY <2>3, Zenon DEF RenderResults
    <3>3. placeholder' = PlaceholderFor(mode, selectedIds)
      BY <1>0, <2>3, Zenon DEF RenderResults, ScreenShowsSelection
    <3>4. /\ CardsShow(cards', selectedIds)
          /\ tray' = selectedIds
          /\ askDisabled' <=> selectedIds = <<>>
      BY <3>1, ShownAsSelected, Zenon
    <3>5. Selecting'
      BY <1>0, <3>2 DEF Selecting, AskHasEvidence
    <3>6. ScreenShowsSelection'
      BY <3>2, <3>3, <3>4 DEF ScreenShowsSelection, CardsShow
    <3> QED
      BY <1>a, <2>1, <3>5, <3>6, Zenon DEF Settles
  <2> QED
    BY <1>9, <2>2, <2>3, Zenon DEF Deliver
<1>10. CASE NetworkFails
  <2>1. Waiting' /\ pending' = Nothing
    BY <1>10, SettleEnds, Zenon DEF NetworkFails
  <2>2. Selecting' /\ ScreenShowsSelection'
    BY <1>0, <1>10, SelectionUntouched, Zenon DEF NetworkFails
  <2> QED
    BY <1>a, <2>1, <2>2, Zenon DEF Settles
<1>11. CASE UNCHANGED <<selection, exchange>>
  <2>1. UNCHANGED selection /\ UNCHANGED exchange
    BY <1>11, Zenon
  <2>2. Selecting' /\ ScreenShowsSelection'
    BY <1>0, <2>1, SelectionUntouched, Zenon
  <2> QED
    BY <1>a, <1>b, <2>1, <2>2, Zenon
<1>12. CASE Restart
  BY <1>11, <1>12, Zenon DEF Restart
<1>13. CASE UNCHANGED vars
  BY <1>11, <1>13 DEF vars
<1>14. CASE User
  BY <1>1, <1>2, <1>3, <1>4, <1>5, <1>6, <1>7, <1>14, Zenon DEF User
<1> QED
  BY <1>8, <1>9, <1>10, <1>12, <1>13, <1>14, Zenon DEF Next

(* The page keeps its invariant whatever the user, the network and the      *)
(* server do.                                                               *)
THEOREM Invariant == Spec => []IInv
<1>1. Init => IInv
  BY Initially
<1>2. IInv /\ [Next]_vars => IInv'
  BY StepKeeps, Zenon
<1> QED
  BY <1>1, <1>2, PTL DEF Spec

-----------------------------------------------------------------------------

(* Cards, tray, Ask controls and placeholder always show the selection      *)
(* (syncSelectionUI), and an ask always has evidence (toggleSelection,      *)
(* clearSelection, setMode).                                                *)
THEOREM ScreenIsTrue == Spec => []SelectionIsShown
<1>1. IInv => SelectionIsShown
  BY DEF IInv, Selecting, SelectionIsShown
<1> QED
  BY <1>1, Invariant, PTL

(* The page is busy exactly while a fetch is under way (setBusy and the     *)
(* finally blocks).                                                         *)
THEOREM BusyIsTrue == Spec => []BusyWhileWaiting
<1>1. IInv => BusyWhileWaiting
  BY DEF IInv, Waiting
<1> QED
  BY <1>1, Invariant, PTL

(* No second request is sent before the first has settled (the submit       *)
(* handler).                                                                *)
THEOREM RequestsDoNotOverlap == Spec => OneRequestAtATime
<1>1. IInv /\ [Next]_vars => [Settles]_vars
  BY StepKeeps, Zenon
<1>2. [Settles]_vars => [pending # Nothing /\ pending' # pending => pending' = Nothing]_vars
  BY Zenon DEF Settles
<1> QED
  BY <1>1, <1>2, Invariant, PTL DEF Spec, OneRequestAtATime

-----------------------------------------------------------------------------
(* The exchange with the server                                            *)

(* What the page asks and what it then gets, with the types of what it      *)
(* shows: the request under way is one the page makes, with evidence that   *)
(* it names once; the response is the server's answer to that request, from *)
(* some collection; the answer shown cites its request.                     *)
Typed ==
  /\ recordsById \subseteq Ids
  /\ cards \subseteq Ids \X BOOLEAN
  /\ askDisabled \in BOOLEAN
  /\ busy \in BOOLEAN
  /\ typing \in BOOLEAN
  /\ shown \in Messages \cup {Nothing}
  /\ collection \in Deployments

NamesOnce(request) ==
  request.operation = "answer" => request.evidence_ids \in Selections

Sent == pending # Nothing => pending \in Requests /\ NamesOnce(pending)

Replied ==
  response # Nothing => \E c \in Collections : response = Response(c, pending)

Talks == Typed /\ Sent /\ Replied /\ AnswersCiteTheirRequest

(* What the end of an exchange leaves as it is.                             *)
Spares ==
  pending # Nothing /\ pending' = Nothing =>
    /\ UNCHANGED <<selectedIds, mode, tray, askDisabled>>
    /\ recordsById \subseteq recordsById'
    /\ cards \subseteq cards'
    /\ \/ pending.operation = "search" /\ shown'.outcome = "results"
       \/ UNCHANGED <<recordsById, cards>>

(* A request the page makes is a search or an answer request.               *)
LEMMA PageRequests ==
  ASSUME NEW request \in Requests
  PROVE  request.operation \in {"search", "answer"}
BY DEF Requests

(* An answer citing each of a sequence of records in turn.                  *)
LEMMA AnsweredCites ==
  ASSUME NEW ids \in Seq(Ids)
  PROVE  LET citations == Answered(ids).citations
         IN /\ Len(citations) = Len(ids)
            /\ \A n \in DOMAIN citations : citations[n].evidence_ids = <<ids[n]>>
<1> DEFINE citations == Answered(ids).citations
<1>1. citations = [n \in 1..Len(ids) |->
                     [citation_id |-> n, evidence_ids |-> <<ids[n]>>]]
  BY DEF Answered
<1>2. DOMAIN citations = 1..Len(ids) /\ Len(ids) \in Nat
  BY <1>1
<1>3. Len(citations) = Len(ids)
  BY <1>1
<1>4. \A n \in 1..Len(ids) : citations[n].evidence_ids = <<ids[n]>>
  BY <1>1
<1> HIDE DEF citations
<1>5. QED
  BY <1>2, <1>3, <1>4 DEF citations

(* What the response to the request under way can be.                       *)
LEMMA ResponseTo ==
  ASSUME Talks, response # Nothing, pending # Nothing
  PROVE  /\ response # UnhandledError
         /\ response \in Replies /\ pending \in Requests
         /\ response.outcome = "results" =>
              pending.operation = "search" /\ response.results \in Seq(Ids)
         /\ response.outcome = "answered" =>
              /\ pending.evidence_ids \in Seq(Ids)
              /\ response = Answered(pending.evidence_ids)
<1>1. PICK c \in Seq(Ids) : response = Response(c, pending)
  BY CollectionsAreSequences DEF Talks, Replied
<1>2. pending \in Requests /\ NamesOnce(pending)
  BY DEF Talks, Sent
<1>3. CASE pending.operation = "search"
  BY <1>1, <1>2, <1>3, SearchAnswers
<1>4. CASE pending.operation = "answer"
  <2>1. pending.evidence_ids \in Seq(Ids) /\ IsInjective(pending.evidence_ids)
    BY <1>2, <1>4 DEF NamesOnce, Selections
  <2>2. QED
    BY <1>1, <1>2, <1>4, <2>1, QuestionAnswers
<1>5. QED
  BY <1>2, <1>3, <1>4, PageRequests

(* Cards that syncSelectionUI went over are cards of records.               *)
LEMMA CardsStayCards ==
  ASSUME NEW among \in SUBSET (Ids \X BOOLEAN), NEW selected,
         ShowSelection(among, selected)
  PROVE  cards' \subseteq Ids \X BOOLEAN /\ askDisabled' \in BOOLEAN
<1>1. ASSUME NEW card \in cards' PROVE card \in Ids \X BOOLEAN
  <2>1. PICK old \in among : card = <<old[1], Contains(selected, old[1])>>
    BY <1>1, Zenon DEF ShowSelection
  <2>2. old[1] \in Ids
    BY <2>1
  <2>3. Contains(selected, old[1]) \in BOOLEAN
    BY DEF Contains
  <2>4. QED
    BY <2>1, <2>2, <2>3, Zenon
<1>2. askDisabled' \in BOOLEAN
  BY DEF ShowSelection
<1>3. QED
  BY <1>1, <1>2

(* A step of the user that asks for nothing.                                *)
LEMMA SelectingTalks ==
  ASSUME Talks, UNCHANGED <<exchange, collection, recordsById>>,
         \/ UNCHANGED <<cards, askDisabled>>
         \/ \E selected : ShowSelection(cards, selected)
  PROVE  Talks' /\ Spares
<1>1. UNCHANGED <<busy, typing, shown, pending, response, collection, recordsById>>
  BY DEF exchange
<1>2. cards' \subseteq Ids \X BOOLEAN /\ askDisabled' \in BOOLEAN
  <2>1. CASE UNCHANGED <<cards, askDisabled>>
    BY <2>1 DEF Talks, Typed
  <2>2. CASE \E selected : ShowSelection(cards, selected)
    BY <2>2, CardsStayCards DEF Talks, Typed
  <2>3. QED
    BY <2>1, <2>2
<1>3. Typed'
  BY <1>1, <1>2 DEF Talks, Typed
<1>4. Sent' /\ Replied' /\ AnswersCiteTheirRequest'
  BY <1>1 DEF Talks, Sent, Replied, AnswersCiteTheirRequest, IsAnswer
<1>5. Spares
  BY <1>1 DEF Spares
<1>6. QED
  BY <1>3, <1>4, <1>5 DEF Talks

(* The submit handler sends a request that names each record once.          *)
LEMMA SubmittingTalks ==
  ASSUME IInv, Talks, NEW m, NEW text \in Texts, SubmitIn(m, text)
  PROVE  Talks' /\ Spares
<1> DEFINE R == IF m = "ask" /\ selectedIds # <<>>
                THEN Ask(text, selectedIds) ELSE Search(text, PageSize)
<1>1. R \in Requests /\ NamesOnce(R)
  <2>1. Search(text, PageSize) \in Requests /\ NamesOnce(Search(text, PageSize))
    BY DEF Search, Requests, NamesOnce
  <2>2. Ask(text, selectedIds) \in Requests /\ NamesOnce(Ask(text, selectedIds))
    BY DEF Ask, Requests, NamesOnce, IInv, Selecting, Selections
  <2>3. QED
    BY <2>1, <2>2
<1>2. Begin(R) /\ UNCHANGED <<recordsById, cards, askDisabled, collection>>
  BY Zenon DEF SubmitIn
<1>3. pending = Nothing
  BY Zenon DEF IInv, Waiting, BusyWhileWaiting, SubmitIn
<1>4. response = Nothing
  BY <1>3, Zenon DEF IInv, Waiting
<1> HIDE DEF R
<1>5. pending' = R /\ busy' /\ typing' /\ busy' = TRUE /\ typing' = TRUE
      /\ UNCHANGED <<shown, response>>
  BY <1>2, Zenon DEF Begin
<1>6. Typed'
  BY <1>2, <1>5 DEF Talks, Typed
<1>7. Sent'
  BY <1>1, <1>5 DEF Sent, NamesOnce
<1>8. Replied'
  BY <1>4, <1>5 DEF Replied
<1>9. AnswersCiteTheirRequest'
  BY <1>5 DEF Talks, AnswersCiteTheirRequest, IsAnswer
<1>10. Spares
  BY <1>3 DEF Spares
<1>11. QED
  BY <1>6, <1>7, <1>8, <1>9, <1>10 DEF Talks

(* The server answers from the records it then has.                         *)
LEMMA RespondingTalks ==
  ASSUME Talks, ServerResponds
  PROVE  Talks' /\ Spares
<1>1. /\ pending # Nothing
      /\ response' = Response(collection, pending)
      /\ UNCHANGED <<selection, busy, typing, shown, pending, collection>>
  BY Zenon DEF ServerResponds
<1>2. UNCHANGED <<recordsById, cards, askDisabled>>
  BY <1>1 DEF selection
<1>3. collection \in Collections
  BY DeploymentsAssumption DEF Talks, Typed
<1>4. Typed' /\ Sent'
  BY <1>1, <1>2 DEF Talks, Typed, Sent, NamesOnce
<1>5. Replied'
  BY <1>1, <1>3, Zenon DEF Replied
<1>6. AnswersCiteTheirRequest'
  BY <1>1 DEF Talks, AnswersCiteTheirRequest, IsAnswer
<1>7. Spares
  BY <1>1 DEF Spares
<1>8. QED
  BY <1>4, <1>5, <1>6, <1>7 DEF Talks

(* The end of an exchange: nothing is awaited, and the message shows what   *)
(* came back, if anything.                                                  *)
LEMMA SettlingTalks ==
  ASSUME NEW message, Settle(message),
         message.outcome = "answered" =>
           /\ message.to.evidence_ids \in Seq(Ids)
           /\ message.response = Answered(message.to.evidence_ids)
  PROVE  Sent' /\ Replied' /\ AnswersCiteTheirRequest'
<1>1. shown' = message /\ pending' = Nothing /\ response' = Nothing
  BY Zenon DEF Settle
<1>2. Sent' /\ Replied'
  BY <1>1 DEF Sent, Replied
<1>3. AnswersCiteTheirRequest'
  <2> SUFFICES ASSUME message.outcome = "answered"
               PROVE  LET citations == message.response.citations
                          ids       == message.to.evidence_ids
                      IN /\ Len(citations) = Len(ids)
                         /\ \A n \in DOMAIN citations :
                              citations[n].evidence_ids = <<ids[n]>>
    BY <1>1, Zenon DEF AnswersCiteTheirRequest, IsAnswer
  <2>1. QED
    BY AnsweredCites, Zenon
<1>4. QED
  BY <1>2, <1>3

(* renderSearchResponse and syncSelectionUI over old and new cards: those   *)
(* that were there show what they showed.                                   *)
LEMMA RenderingAdds ==
  ASSUME IInv, Typed, NEW results \in Seq(Ids), RenderResults(results)
  PROVE  /\ recordsById \subseteq recordsById' /\ recordsById' \subseteq Ids
         /\ cards \subseteq cards' /\ cards' \subseteq Ids \X BOOLEAN
         /\ askDisabled' = askDisabled
         /\ UNCHANGED <<selectedIds, mode, tray>>
<1> DEFINE fresh == {<<id, FALSE>> : id \in ToSet(results)}
<1>1. ToSet(results) \subseteq Ids
  BY DEF ToSet
<1>2. recordsById' = recordsById \cup ToSet(results) /\ UNCHANGED <<selectedIds, mode>>
  BY DEF RenderResults
<1>3. /\ cards' = {<<card[1], Contains(selectedIds, card[1])>> : card \in cards \cup fresh}
      /\ tray' = selectedIds
      /\ askDisabled' = (selectedIds = <<>>)
  BY DEF RenderResults, ShowSelection
<1>4. cards' \subseteq Ids \X BOOLEAN
  <2>1. fresh \subseteq Ids \X BOOLEAN
    <3>1. \A id \in ToSet(results) : <<id, FALSE>> \in Ids \X BOOLEAN
      BY <1>1
    <3>2. QED
      BY <3>1, Zenon
  <2> HIDE DEF fresh
  <2>2. cards \cup fresh \in SUBSET (Ids \X BOOLEAN)
    BY <2>1 DEF Typed
  <2>3. ShowSelection(cards \cup fresh, selectedIds)
    BY Zenon DEF RenderResults, fresh
  <2>4. QED
    BY <2>2, <2>3, CardsStayCards
<1>5. ASSUME NEW card \in cards PROVE card \in cards'
  <2>1. PICK id \in Ids, marked \in BOOLEAN : card = <<id, marked>>
    BY <1>5 DEF Typed
  <2>2. card[1] = id /\ card[2] = marked
    BY <2>1
  <2>3. marked <=> Contains(selectedIds, id)
    BY <1>5, <2>2 DEF IInv, ScreenShowsSelection
  <2>4. Contains(selectedIds, id) \in BOOLEAN
    BY DEF Contains
  <2>5. card = <<card[1], Contains(selectedIds, card[1])>>
    BY <2>1, <2>2, <2>3, <2>4
  <2>6. QED
    BY <1>3, <1>5, <2>5
<1>6. tray' = tray
  BY <1>3 DEF IInv, ScreenShowsSelection
<1>7. askDisabled' = askDisabled
  <2>1. askDisabled \in BOOLEAN /\ (askDisabled <=> selectedIds = <<>>)
    BY DEF Typed, IInv, ScreenShowsSelection
  <2>2. QED
    BY <1>3, <2>1
<1>8. QED
  BY <1>1, <1>2, <1>4, <1>5, <1>6, <1>7 DEF Typed

(* The message of a reply to a request.                                     *)
LEMMA MessageOf ==
  ASSUME NEW reply \in Replies, reply # Nothing, NEW request \in Requests
  PROVE  [outcome |-> reply.outcome, to |-> request, response |-> reply] \in Messages
<1>1. reply.outcome \in Outcomes
  BY DEF Replies, Outcomes
<1>2. QED
  BY <1>1 DEF Messages

(* The answer arrives.                                                      *)
LEMMA DeliveringTalks ==
  ASSUME IInv, Talks, Deliver
  PROVE  Talks' /\ Spares
<1> DEFINE message == [outcome |-> response.outcome, to |-> pending,
                       response |-> response]
<1>1. response # Nothing /\ Settle(message) /\ UNCHANGED collection
  BY Zenon DEF Deliver
<1>2. pending # Nothing
  BY <1>1, Zenon DEF IInv, Waiting
<1>3. message.outcome = response.outcome /\ message.to = pending
      /\ message.response = response
  OBVIOUS
<1> HIDE DEF message
<1>4. Sent' /\ Replied' /\ AnswersCiteTheirRequest'
  BY <1>1, <1>2, <1>3, ResponseTo, SettlingTalks
<1>5. busy' = FALSE /\ typing' = FALSE /\ shown' = message
  BY <1>1, Zenon DEF Settle
<1>10. shown' \in Messages
  <2>1. response \in Replies /\ pending \in Requests
    BY <1>1, <1>2, ResponseTo
  <2>2. message \in Messages
    BY <1>1, <2>1, MessageOf, Zenon DEF message
  <2>3. QED
    BY <1>5, <2>2, Zenon
<1>6. CASE response.outcome = "results"
  <2>1. response.results \in Seq(Ids) /\ pending.operation = "search"
    BY <1>1, <1>2, <1>6, ResponseTo
  <2>2. RenderResults(response.results)
    BY <1>6, Zenon DEF Deliver
  <2>3. /\ recordsById \subseteq recordsById' /\ recordsById' \subseteq Ids
        /\ cards \subseteq cards' /\ cards' \subseteq Ids \X BOOLEAN
        /\ askDisabled' = askDisabled
        /\ UNCHANGED <<selectedIds, mode, tray>>
    BY <2>1, <2>2, RenderingAdds DEF Talks
  <2>4. Typed'
    BY <1>1, <1>5, <1>10, <2>3 DEF Talks, Typed
  <2>5. Spares
    BY <1>3, <1>5, <1>6, <2>1, <2>3 DEF Spares
  <2>6. QED
    BY <1>4, <2>4, <2>5 DEF Talks
<1>7. CASE UNCHANGED selection
  <2>1. UNCHANGED <<recordsById, selectedIds, mode, cards, tray, askDisabled>>
    BY <1>7 DEF selection
  <2>2. Typed' /\ Spares
    BY <1>1, <1>5, <1>10, <2>1 DEF Talks, Typed, Spares
  <2>3. QED
    BY <1>4, <2>2 DEF Talks
<1>8. QED
  BY <1>6, <1>7, Zenon DEF Deliver

(* The fetch fails.                                                         *)
LEMMA FailingTalks ==
  ASSUME Talks, NetworkFails
  PROVE  Talks' /\ Spares
<1> DEFINE message == [outcome |-> "error", to |-> pending, response |-> Nothing]
<1>1. Settle(message) /\ UNCHANGED selection /\ UNCHANGED collection
  BY Zenon DEF NetworkFails
<1>2. message.outcome # "answered"
  OBVIOUS
<1>a. message \in Messages
  <2>1. pending \in Requests
    BY DEF NetworkFails, Talks, Sent
  <2>2. QED
    BY <2>1 DEF Messages, Outcomes
<1> HIDE DEF message
<1>3. Sent' /\ Replied' /\ AnswersCiteTheirRequest'
  BY <1>1, <1>2, SettlingTalks
<1>4. busy' = FALSE /\ typing' = FALSE /\ shown' = message
  BY <1>1, Zenon DEF Settle
<1>5. UNCHANGED <<recordsById, selectedIds, mode, cards, tray, askDisabled>>
  BY <1>1 DEF selection
<1>6. Typed' /\ Spares
  BY <1>1, <1>a, <1>4, <1>5 DEF Talks, Typed, Spares
<1>7. QED
  BY <1>3, <1>6 DEF Talks

(* The server's restart, and no step at all.                                *)
LEMMA ElsewhereTalks ==
  ASSUME Talks, UNCHANGED <<selection, exchange>>, collection' \in Deployments
  PROVE  Talks' /\ Spares
<1>1. UNCHANGED <<busy, typing, shown, pending, response, recordsById, cards,
                  askDisabled>>
  BY DEF selection, exchange
<1>2. Typed'
  BY <1>1 DEF Talks, Typed
<1>3. Sent' /\ Replied' /\ AnswersCiteTheirRequest'
  BY <1>1 DEF Talks, Sent, Replied, AnswersCiteTheirRequest, IsAnswer
<1>4. Spares
  BY <1>1 DEF Spares
<1>5. QED
  BY <1>2, <1>3, <1>4 DEF Talks

(* The page starts with nothing asked and nothing shown.                    *)
LEMMA TalksInitially == Init => Talks
<1> SUFFICES ASSUME Init PROVE Talks
  OBVIOUS
<1>1. Typed
  BY DEF Init, Typed
<1>2. Sent /\ Replied /\ AnswersCiteTheirRequest
  BY DEF Init, Sent, Replied, AnswersCiteTheirRequest, IsAnswer
<1>3. QED
  BY <1>1, <1>2 DEF Talks

(* Every step keeps what the exchange is about, and its end spares the      *)
(* search.                                                                  *)
LEMMA StepTalks ==
  ASSUME IInv, Talks, [Next]_vars
  PROVE  Talks' /\ Spares
<1>1. CASE ClickSearchMode \/ ClickAskMode
  BY <1>1, SelectingTalks DEF ClickSearchMode, ClickAskMode
<1>2. ASSUME NEW id \in Ids, ToggleSelection(id) PROVE Talks' /\ Spares
  <2>1. \E selected : ShowSelection(cards, selected)
    BY <1>2, Zenon DEF ToggleSelection, Deselect, Select
  <2>2. QED
    BY <1>2, <2>1, SelectingTalks DEF ToggleSelection
<1>3. CASE ClearSelection
  <2>1. \E selected : ShowSelection(cards, selected)
    BY <1>3, Zenon DEF ClearSelection, Select
  <2>2. QED
    BY <1>3, <2>1, SelectingTalks DEF ClearSelection
<1>4. CASE Submit \/ ExampleChip \/ AnswerChip
  <2>1. PICK m : \E text \in Texts : SubmitIn(m, text)
    BY <1>4, Zenon DEF Submit, ExampleChip, AnswerChip
  <2>2. QED
    BY <2>1, SubmittingTalks
<1>5. CASE User
  BY <1>1, <1>2, <1>3, <1>4, <1>5, Zenon DEF User
<1>6. CASE ServerResponds
  BY <1>6, RespondingTalks
<1>7. CASE Deliver
  BY <1>7, DeliveringTalks
<1>8. CASE NetworkFails
  BY <1>8, FailingTalks
<1>9. CASE Restart
  BY <1>9, ElsewhereTalks DEF Restart
<1>10. CASE UNCHANGED vars
  BY <1>10, ElsewhereTalks DEF vars, Talks, Typed
<1>11. QED
  BY <1>5, <1>6, <1>7, <1>8, <1>9, <1>10, Zenon DEF Next

(* Both invariants together.                                                *)
LEMMA TalksInvariant == Spec => [](IInv /\ Talks)
<1>1. Init => IInv /\ Talks
  BY Initially, TalksInitially
<1>2. IInv /\ Talks /\ [Next]_vars => IInv' /\ Talks'
  BY StepKeeps, StepTalks, Zenon
<1> QED
  BY <1>1, <1>2, PTL DEF Spec

-----------------------------------------------------------------------------

(* The page's variables have their types, no selection has a repeat, and    *)
(* what the server answers and the page shows is a well-formed reply to a   *)
(* request the page makes.                                                  *)
THEOREM TypeCorrect == Spec => []TypeOK
<1>1. IInv /\ Talks => TypeOK
  <2> SUFFICES ASSUME IInv, Talks PROVE TypeOK
    OBVIOUS
  <2>1. placeholder \in Nat
    BY DEF IInv, Selecting, Selections, ScreenShowsSelection, PlaceholderFor
  <2>2. pending \in Requests \cup {Nothing}
    BY DEF Talks, Sent
  <2>3. response \in Replies \cup {Nothing}
    <3>1. CASE response # Nothing
      <4>1. pending # Nothing
        BY <3>1, Zenon DEF IInv, Waiting
      <4>2. QED
        BY <3>1, <4>1, ResponseTo
    <3>2. QED
      BY <3>1
  <2>4. selectedIds \in Selections /\ tray \in Selections /\ mode \in {"search", "ask"}
    BY DEF IInv, Selecting, ScreenShowsSelection
  <2>5. QED
    BY <2>1, <2>2, <2>3, <2>4 DEF Talks, Typed, TypeOK
<1> QED
  BY <1>1, TalksInvariant, PTL

(* The server never fails on what the page sends (error_json_response,      *)
(* validation_error_handler): the page names no record twice, the one       *)
(* request whose refusal the error contract cannot carry.                   *)
THEOREM PageMakesNoUnhandledError == Spec => []NoUnhandledError
<1>1. IInv /\ Talks => NoUnhandledError
  <2> SUFFICES ASSUME IInv, Talks, response # Nothing PROVE response # UnhandledError
    BY DEF NoUnhandledError
  <2>1. pending # Nothing
    BY Zenon DEF IInv, Waiting
  <2>2. QED
    BY <2>1, ResponseTo
<1> QED
  BY <1>1, TalksInvariant, PTL

(* An answer cites the records that were selected when it was asked for,    *)
(* one after the other (submitAsk, answer, to_answer_contract).             *)
THEOREM CitationsAreOfTheRequest == Spec => []AnswersCiteTheirRequest
<1>1. IInv /\ Talks => AnswersCiteTheirRequest
  BY DEF Talks
<1> QED
  BY <1>1, TalksInvariant, PTL

(* However a request ends, selection, records and cards that were there     *)
(* stay, and nothing is added to them but by a search that finds something  *)
(* (submitSearch, submitAsk, renderSearchResponse).                         *)
THEOREM SearchStays == Spec => SearchIsPreserved
<1>1. IInv /\ Talks /\ [Next]_vars => [Spares]_vars
  BY StepTalks, Zenon
<1>2. [Spares]_vars =>
        [pending # Nothing /\ pending' = Nothing =>
           /\ UNCHANGED <<selectedIds, mode, tray, askDisabled>>
           /\ recordsById \subseteq recordsById'
           /\ cards \subseteq cards'
           /\ \/ pending.operation = "search" /\ shown'.outcome = "results"
              \/ UNCHANGED <<recordsById, cards>>]_vars
  BY Zenon DEF Spares
<1> QED
  BY <1>1, <1>2, TalksInvariant, PTL DEF Spec, SearchIsPreserved
=============================================================================
