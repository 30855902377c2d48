----------------------------- MODULE Interface ------------------------------
(***************************************************************************)
(* The browser page (api/static/app.js) and the server it talks to.        *)
(*                                                                         *)
(* An event handler runs without interruption, up to the await of a fetch; *)
(* the rest of submitSearch and submitAsk runs when the answer is there or *)
(* the network has failed.  In between the user may do anything the page   *)
(* leaves enabled, and the server may be started again with other records. *)
(***************************************************************************)
EXTENDS AnswerApi

CONSTANTS
  PageSize,     \* the limit submitSearch asks for
  Deployments,  \* the collections a server may be started with
  Nothing       \* no request, no response, no message

ASSUME PageSizeAssumption == PageSize \in 1..MaxLimit

(* What the page sends.                                                     *)
Requests ==
  [operation : {"search"}, text : Texts, limit : {PageSize}]
    \cup [operation : {"answer"}, text : Texts, evidence_ids : Seq(Ids)]

ASSUME NothingAssumption == Nothing \notin Requests
ASSUME DeploymentsAssumption == Deployments \subseteq Collections

VARIABLES
  recordsById,  \* identifiers of the records received
  selectedIds,  \* the selected ones, in the order of their selection
  mode,         \* of the composer
  busy,         \* a request is under way; the send button is disabled
  typing,       \* the indicator in the thread
  placeholder,  \* 0: the search text; n > 0: "Ask about the n selected records"
  cards,        \* <<id, shown as selected>> of the evidence cards in the thread
  tray,         \* the chips above the composer
  askDisabled,  \* of the Ask button and the answer examples
  shown,        \* the last assistant message
  pending,      \* the request of the fetch under way
  response,     \* what the server answered to it
  collection    \* the records the server was started with

selection == <<recordsById, selectedIds, mode, placeholder, cards, tray, askDisabled>>
exchange  == <<busy, typing, shown, pending, response>>
vars      == <<selection, exchange, collection>>

Init ==
  /\ recordsById = {}
  /\ selectedIds = <<>>
  /\ mode = "search"
  /\ busy = FALSE
  /\ typing = FALSE
  /\ placeholder = 0
  /\ cards = {}
  /\ tray = <<>>
  /\ askDisabled = TRUE
  /\ shown = Nothing
  /\ pending = Nothing
  /\ response = Nothing
  /\ collection \in Deployments

-----------------------------------------------------------------------------
(* The composer's mode and the selection                                   *)

(* setMode                                                                  *)
PlaceholderFor(m, selected) == IF m = "search" THEN 0 ELSE Len(selected)

SetMode(m) ==
  /\ mode' = m
  /\ placeholder' = PlaceholderFor(m, selectedIds)

ClickSearchMode ==
  /\ SetMode("search")
  /\ UNCHANGED <<recordsById, selectedIds, cards, tray, askDisabled, exchange,
                 collection>>

ClickAskMode ==
  /\ ~askDisabled
  /\ SetMode("ask")
  /\ UNCHANGED <<recordsById, selectedIds, cards, tray, askDisabled, exchange,
                 collection>>

(* syncSelectionUI, over the cards in the thread.                           *)
ShowSelection(among, selected) ==
  /\ cards' = {<<card[1], Contains(selected, card[1])>> : card \in among}
  /\ tray' = selected
  /\ askDisabled' = (selected = <<>>)

(* The two tests at the end of toggleSelection.                             *)
ModeAfter(selected) ==
  IF selected = <<>> THEN "search"
  ELSE IF selectedIds = <<>> /\ Len(selected) = 1 THEN "ask"
  ELSE mode

(* setMode where it is called, and again in syncSelectionUI in ask mode.    *)
Select(selected) ==
  /\ selectedIds' = selected
  /\ mode' = ModeAfter(selected)
  /\ placeholder' = PlaceholderFor(mode', selected)
  /\ ShowSelection(cards, selected)

ToggleByAdding(id) ==
  /\ id \in {card[1] : card \in cards}
  /\ Select(Append(selectedIds, id))
  /\ UNCHANGED <<recordsById, exchange, collection>>

Deselect(id) ==
  \E n \in DOMAIN selectedIds :
    selectedIds[n] = id /\ Select(RemoveAt(selectedIds, n))

(* toggleSelection, from a card or a chip.                                  *)
ToggleSelection(id) ==
  /\ id \in {card[1] : card \in cards} \cup ToSet(tray)
  /\ \/ Deselect(id)
     \/ ~Contains(selectedIds, id) /\ Select(Append(selectedIds, id))
  /\ UNCHANGED <<recordsById, exchange, collection>>

ClearSelection ==
  /\ tray # <<>>
  /\ Select(<<>>)
  /\ UNCHANGED <<recordsById, exchange, collection>>

-----------------------------------------------------------------------------
(* Requests                                                                *)

Begin(request) ==
  /\ pending' = request
  /\ busy' = TRUE
  /\ typing' = TRUE
  /\ UNCHANGED <<shown, response>>

(* The submit handler, in composer mode m: submitAsk or submitSearch up to  *)
(* the fetch.                                                               *)
SubmitIn(m, text) ==
  /\ ~busy
  /\ Begin(IF m = "ask" /\ selectedIds # <<>>
           THEN Ask(text, selectedIds)
           ELSE Search(text, PageSize))
  /\ UNCHANGED <<recordsById, selectedIds, cards, tray, askDisabled, collection>>

Submit ==
  /\ \E text \in Texts : SubmitIn(mode, text)
  /\ UNCHANGED <<mode, placeholder>>

(* The example chips set the mode, then submit.                             *)
ExampleChip ==
  /\ \E text \in Texts : SubmitIn("search", text)
  /\ SetMode("search")

AnswerChip ==
  /\ ~askDisabled
  /\ \E text \in Texts : SubmitIn("ask", text)
  /\ SetMode("ask")

ServerRespondsToSelection ==
  /\ pending # Nothing
  /\ response = Nothing
  /\ response' = Response(collection,
       IF pending.operation = "answer" THEN Ask(pending.text, selectedIds) ELSE pending)
  /\ UNCHANGED <<selection, busy, typing, shown, pending, collection>>

(* The server handles the request with the records it then has.             *)
ServerResponds ==
  /\ pending # Nothing
  /\ response = Nothing
  /\ response' = Response(collection, pending)
  /\ UNCHANGED <<selection, busy, typing, shown, pending, collection>>

SettleUnlessFailed(message) ==
  /\ shown' = message
  /\ typing' = FALSE
  /\ busy' = (message.outcome = "error")
  /\ pending' = Nothing
  /\ response' = Nothing

Settle(message) ==
  /\ shown' = message
  /\ typing' = FALSE
  /\ busy' = FALSE
  /\ pending' = Nothing
  /\ response' = Nothing

RenderResultsUnsynchronised(results) ==
  /\ recordsById' = recordsById \cup ToSet(results)
  /\ cards' = cards \cup {<<id, FALSE>> : id \in ToSet(results)}
  /\ UNCHANGED <<selectedIds, mode, placeholder, tray, askDisabled>>

RenderResultsAfresh(results) ==
  /\ recordsById' = ToSet(results)
  /\ ShowSelection({<<id, FALSE>> : id \in ToSet(results)}, selectedIds)
  /\ UNCHANGED <<selectedIds, mode, placeholder>>

(* renderSearchResponse of results: new cards are shown unselected, then    *)
(* syncSelectionUI goes over all of them.                                   *)
RenderResults(results) ==
  /\ recordsById' = recordsById \cup ToSet(results)
  /\ ShowSelection(cards \cup {<<id, FALSE>> : id \in ToSet(results)}, selectedIds)
  /\ placeholder' = IF mode = "ask" THEN PlaceholderFor(mode, selectedIds)
                    ELSE placeholder
  /\ UNCHANGED <<selectedIds, mode>>

(* The answer arrives: a message of what the request was and what came back.*)
Deliver ==
  /\ response # Nothing
  /\ Settle([outcome |-> response.outcome, to |-> pending, response |-> response])
  /\ IF response.outcome = "results"
     THEN RenderResults(response.results)
     ELSE UNCHANGED selection
  /\ UNCHANGED collection

(* fetch or response.json rejects, before or after the server's work.       *)
NetworkFails ==
  /\ pending # Nothing
  /\ Settle([outcome |-> "error", to |-> pending, response |-> Nothing])
  /\ UNCHANGED <<selection, collection>>

(* The server is stopped and started again with other records.              *)
Restart ==
  /\ collection' \in Deployments
  /\ UNCHANGED <<selection, exchange>>

-----------------------------------------------------------------------------

User ==
  \/ ClickSearchMode
  \/ ClickAskMode
  \/ \E id \in Ids : ToggleSelection(id)
  \/ ClearSelection
  \/ Submit
  \/ ExampleChip
  \/ AnswerChip

Next == User \/ ServerResponds \/ Deliver \/ NetworkFails \/ Restart

Spec == Init /\ [][Next]_vars

(* The page itself has no timeout: that a fetch settles is up to the server *)
(* and the network.                                                         *)
FairSpec ==
  /\ Spec
  /\ WF_vars(ServerResponds)
  /\ WF_vars(Deliver)

-----------------------------------------------------------------------------
(* Types                                                                   *)

Selections == {s \in Seq(Ids) : IsInjective(s)}

(* What the server may answer to the page.                                  *)
Citations == [citation_id : Nat \ {0}, evidence_ids : Seq(Ids)]

Fields == {"query", "limit", "question", "evidence_ids"}

Replies ==
  [outcome : {"error"}, status : {422}, code : {"invalid_request"},
   field_errors : SUBSET Fields]
    \cup [outcome : {"error"}, status : {404}, code : {"not_found"},
          field_errors : SUBSET Ids]
    \cup [outcome : {"error"}, status : {503}, code : {"search_unavailable"},
          field_errors : {{}}]
    \cup [outcome : {"empty", "results"}, status : {200}, results : Seq(Ids), total : Nat]
    \cup [outcome : {"generation_unavailable"}, status : {200},
          reason : {"not_configured"}]
    \cup [outcome : {"abstained"}, status : {200},
          reason : {"unsupported_question", "conflicting_evidence",
                    "insufficient_evidence"}]
    \cup [outcome : {"answered"}, status : {200}, citations : Seq(Citations)]

Outcomes == {"error", "empty", "results", "generation_unavailable", "abstained", "answered"}

(* A message is of a reply, or of a fetch without one.                      *)
Messages ==
  {m \in [outcome : Outcomes, to : Requests, response : Replies \cup {Nothing}] :
     m.outcome = IF m.response = Nothing THEN "error" ELSE m.response.outcome}

(* The page's variables, selections without repetition, and what the server *)
(* answers and the page shows of it.                                        *)
TypeOK ==
  /\ recordsById \subseteq Ids
  /\ selectedIds \in Selections
  /\ mode \in {"search", "ask"}
  /\ busy \in BOOLEAN
  /\ typing \in BOOLEAN
  /\ pending \in Requests \cup {Nothing}
  /\ response \in Replies \cup {Nothing}
  /\ shown \in Messages \cup {Nothing}
  /\ placeholder \in Nat
  /\ cards \subseteq Ids \X BOOLEAN
  /\ tray \in Selections
  /\ askDisabled \in BOOLEAN
  /\ collection \in Deployments

-----------------------------------------------------------------------------
(* Safety                                                                  *)

(* Whatever was clicked and whatever arrived meanwhile, every card in the   *)
(* thread, the tray, the Ask controls and the placeholder show the          *)
(* selection as it is (syncSelectionUI after every change).                 *)
ScreenShowsSelection ==
  /\ \A card \in cards : card[2] <=> Contains(selectedIds, card[1])
  /\ tray = selectedIds
  /\ askDisabled <=> selectedIds = <<>>
  /\ placeholder = PlaceholderFor(mode, selectedIds)

(* Ask mode never survives the last selected record, so that an ask always  *)
(* has evidence and never turns into a search.                              *)
AskHasEvidence == mode = "ask" => selectedIds # <<>>

(* Screen, mode and selection agree at every moment.                        *)
SelectionIsShown == ScreenShowsSelection /\ AskHasEvidence

(* One request at a time: the page is busy, and shows it, exactly while a   *)
(* fetch is under way, whichever way that ends.                             *)
BusyWhileWaiting ==
  /\ busy <=> pending # Nothing
  /\ typing <=> busy

(* No request is sent before the one under way has settled.                 *)
OneRequestAtATime ==
  [][pending # Nothing /\ pending' # pending => pending' = Nothing]_vars

IsAnswer == shown # Nothing /\ shown.outcome = "answered"

(* The answer shown cites exactly the records selected when it was asked    *)
(* for, although the selection and the server may have changed since.       *)
AnswersCiteTheirRequest ==
  IsAnswer =>
    LET citations == shown.response.citations
        ids       == shown.to.evidence_ids
    IN /\ Len(citations) = Len(ids)
       /\ \A n \in DOMAIN citations : citations[n].evidence_ids = <<ids[n]>>

(* The page never sends what the server cannot handle; too many selected    *)
(* records are refused as an invalid request.                               *)
NoUnhandledError ==
  response # Nothing => response # UnhandledError

(* However a request ends, selection and mode stay.  A failure of any kind, *)
(* an abstention, an answer and a search that finds nothing leave the       *)
(* results as they are too; the results of a search only add to them.       *)
SearchIsPreserved ==
  [][pending # Nothing /\ pending' = Nothing =>
       /\ UNCHANGED <<selectedIds, mode, tray, askDisabled>>
       /\ recordsById \subseteq recordsById'
       /\ cards \subseteq cards'
       /\ \/ pending.operation = "search" /\ shown'.outcome = "results"
          \/ UNCHANGED <<recordsById, cards>>]_vars

-----------------------------------------------------------------------------
(* Liveness                                                                *)

(* If every fetch settles, the composer always becomes usable again.        *)
ComposerIsReleased == busy ~> ~busy
=============================================================================
