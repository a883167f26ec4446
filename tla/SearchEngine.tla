----------------------------- MODULE SearchEngine -----------------------------
(***************************************************************************)
(* AbstractSearchEngine with its two search workers (LocalSearchEngine,    *)
(* NetflixSearchEngine), and AbstractSearchDisplayController, its only     *)
(* client.                                                                 *)
(*                                                                         *)
(* The main thread handles what the user types and the results posted to   *)
(* it; one background thread takes the newest request, pauses so as not to *)
(* search more often than once a second, and searches in several parts,    *)
(* asking after each whether the request is still the current one.  Each   *)
(* [gate lock] ... [gate unlock] block is one step, [gate wait] apart.     *)
(***************************************************************************)
EXTENDS Integers, Sequences

CONSTANTS
    Values,       \* what the user may type, after trimming
    Empty,        \* the empty search text; also "no result" on the screen
    NoRequest,    \* nil
    Parts,        \* the parts of one search: 5 (local) or 2 (Netflix)
    MaxRequests   \* bound: how often the user changes the text

ASSUME SearchAssumption ==
    /\ Empty \notin Values
    /\ NoRequest \notin [id : Nat, value : Values]
    /\ Parts \in Nat \ {0}
    /\ MaxRequests \in Nat

VARIABLES
    currentRequestId,      \* the newest request, or the newest invalidation
    nextSearchRequest,     \* the request to search for next, or NoRequest
    thread,                \* where the search thread is
    executing,             \* currentlyExecutingRequest
    part,                  \* how many parts of the search are done
    posted,                \* results posted to the main thread
    text,                  \* the text in the search bar
    abstractSearchResult   \* the value of the result on the screen, or Empty

vars == <<currentRequestId, nextSearchRequest, thread, executing, part, posted,
          text, abstractSearchResult>>

screen == <<text, abstractSearchResult>>
search == <<thread, executing, part, posted>>
requests == <<currentRequestId, nextSearchRequest>>

Requests == [id : 1..MaxRequests, value : Values]

TypeOK ==
    /\ currentRequestId \in 0..MaxRequests
    /\ nextSearchRequest \in Requests \cup {NoRequest}
    /\ thread \in {"idle", "waiting", "pausing", "searching"}
    /\ executing \in Requests \cup {NoRequest}
    /\ part \in 0..Parts
    /\ posted \in Seq(Requests)
    /\ text \in Values \cup {Empty}
    /\ abstractSearchResult \in Values \cup {Empty}

Init ==
    /\ currentRequestId = 0
    /\ nextSearchRequest = NoRequest
    /\ thread = "idle"
    /\ executing = NoRequest
    /\ part = 0
    /\ posted = <<>>
    /\ text = Empty
    /\ abstractSearchResult = Empty

-----------------------------------------------------------------------------
(* The main thread *)

(* [gate broadcast] *)
Broadcast == thread' = IF thread = "waiting" THEN "idle" ELSE thread

(* shouldReloadTableForSearchString: with some text: submitRequest.  A     *)
(* space typed or deleted at either end asks for the same text again.      *)
SubmitRequest(v) ==
    /\ currentRequestId < MaxRequests
    /\ text' = v
    /\ currentRequestId' = currentRequestId + 1
    /\ nextSearchRequest' = [id |-> currentRequestId + 1, value |-> v]
    /\ Broadcast
    /\ UNCHANGED <<executing, part, posted, abstractSearchResult>>

(* invalidateExistingRequests *)
InvalidateExistingRequests ==
    /\ currentRequestId' = currentRequestId + 1
    /\ nextSearchRequest' = NoRequest

(* shouldReloadTableForSearchString: with an empty text. *)
ClearText ==
    /\ currentRequestId < MaxRequests
    /\ text' = Empty
    /\ InvalidateExistingRequests
    /\ abstractSearchResult' = Empty
    /\ UNCHANGED search

(* Mutation of ReportResult: it does not look at the request's id. *)
ReportAnyResult ==
    /\ posted # <<>>
    /\ posted' = Tail(posted)
    /\ abstractSearchResult' = Head(posted).value
    /\ UNCHANGED <<requests, thread, executing, part, text>>

(* reportResult on the main thread: a result whose request is not the      *)
(* current one any more is dropped, another goes to the screen.            *)
ReportResult ==
    /\ posted # <<>>
    /\ posted' = Tail(posted)
    /\ abstractSearchResult' = IF Head(posted).id = currentRequestId
                               THEN Head(posted).value
                               ELSE abstractSearchResult
    /\ UNCHANGED <<requests, thread, executing, part, text>>

-----------------------------------------------------------------------------
(* The search thread *)

(* Mutation of TakeRequest: the request taken stays the next one as well. *)
TakeRequestAndKeepIt ==
    /\ thread = "idle"
    /\ nextSearchRequest # NoRequest
    /\ thread' = "pausing"
    /\ executing' = nextSearchRequest
    /\ UNCHANGED <<requests, part, posted, screen>>

(* The head of searchLoopWorker: wait for a request and take it. *)
TakeRequest ==
    /\ thread = "idle"
    /\ IF nextSearchRequest = NoRequest
       THEN /\ thread' = "waiting"
            /\ UNCHANGED <<nextSearchRequest, executing>>
       ELSE /\ thread' = "pausing"
            /\ executing' = nextSearchRequest
            /\ nextSearchRequest' = NoRequest
    /\ UNCHANGED <<currentRequestId, part, posted, screen>>

(* NSCondition may wake the thread without a broadcast. *)
SpuriousWakeup ==
    /\ thread = "waiting"
    /\ thread' = "idle"
    /\ UNCHANGED <<requests, executing, part, posted, screen>>

(* A second after the last search, or after the first request, it starts. *)
PauseEnds ==
    /\ thread = "pausing"
    /\ thread' = "searching"
    /\ part' = 0
    /\ UNCHANGED <<requests, executing, posted, screen>>

(* Mutation of AbortEarly: the comparison is the wrong way round. *)
AbortCurrent == executing.id = currentRequestId

(* abortEarly: the request has been superseded or invalidated. *)
AbortEarly == executing.id # currentRequestId

(* One part of searchWorker and the test after it. *)
SearchPart ==
    /\ thread = "searching"
    /\ part < Parts
    /\ IF AbortEarly
       THEN thread' = "idle" /\ executing' = NoRequest /\ part' = 0
       ELSE part' = part + 1 /\ UNCHANGED <<thread, executing>>
    /\ UNCHANGED <<requests, posted, screen>>

(* Mutation of PostResult: it reports the next request, not the one done. *)
PostNextResult ==
    /\ thread = "searching"
    /\ part = Parts
    /\ posted' = Append(posted, nextSearchRequest)
    /\ thread' = "idle"
    /\ executing' = NoRequest
    /\ part' = 0
    /\ UNCHANGED <<requests, screen>>

(* The end of searchWorker: reportResult posts itself to the main thread. *)
PostResult ==
    /\ thread = "searching"
    /\ part = Parts
    /\ posted' = Append(posted, executing)
    /\ thread' = "idle"
    /\ executing' = NoRequest
    /\ part' = 0
    /\ UNCHANGED <<requests, screen>>

Next ==
    \/ \E v \in Values : SubmitRequest(v)
    \/ ClearText
    \/ ReportResult
    \/ TakeRequest
    \/ SpuriousWakeup
    \/ PauseEnds
    \/ SearchPart
    \/ PostResult

(* The run loop delivers what is posted and the search thread keeps going. *)
Fairness ==
    /\ WF_vars(ReportResult)
    /\ WF_vars(TakeRequest)
    /\ WF_vars(PauseEnds)
    /\ WF_vars(SearchPart)
    /\ WF_vars(PostResult)

Spec == Init /\ [][Next]_vars /\ Fairness

-----------------------------------------------------------------------------
(* The current text is never lost: whenever the screen does not show it,   *)
(* its request, with the current id, is waiting, being searched for, or    *)
(* its result is on its way.  So the "Searching" row is never a lie.       *)
SearchingForText ==
    LET current == [id |-> currentRequestId, value |-> text]
    IN  text # Empty /\ text # abstractSearchResult =>
           \/ nextSearchRequest = current
           \/ executing = current
           \/ \E i \in DOMAIN posted : posted[i] = current

(* No lost wake-up: the thread does not sleep on while a request waits. *)
SleepsOnlyWithoutRequest == thread = "waiting" => nextSearchRequest = NoRequest

(* Results arrive in the order of their requests, and never for a request  *)
(* newer than the one being searched for.                                  *)
ResultsInOrder ==
    /\ \A i, j \in DOMAIN posted : i < j => posted[i].id < posted[j].id
    /\ executing # NoRequest =>
          /\ \A i \in DOMAIN posted : posted[i].id < executing.id
          /\ nextSearchRequest # NoRequest => executing.id < nextSearchRequest.id

(* The engine and the display controller keep the promise of SearchBox:    *)
(* results of older text never replace those of the current text or fill   *)
(* an emptied box, and after the last keystroke the results come.          *)
Box == INSTANCE SearchBox WITH shown <- abstractSearchResult
ImplementsSearchBox == Box!BoxSpec
=============================================================================
