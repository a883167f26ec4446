-------------------------- MODULE SearchEngine_proofs --------------------------
(***************************************************************************)
(* The safety of the search engine for any texts, any number of parts of a *)
(* search and any number of requests, and that its steps are steps of      *)
(* SearchBox.                                                              *)
(*                                                                         *)
(* reportResult compares ids only, while the user sees texts.  The         *)
(* invariant ties the two together: the id of the current request belongs  *)
(* to the text in the box, wherever that request is, and to no request at  *)
(* all when the box is empty.                                              *)
(***************************************************************************)
EXTENDS SearchEngine, TLAPS

(* r waits, is searched for, or has its result on the way. *)
InFlight(r) ==
    \/ r = nextSearchRequest
    \/ r = executing
    \/ \E i \in DOMAIN posted : r = posted[i]

(* The search thread has a request exactly while it pauses or searches. *)
ThreadHasItsRequest ==
    executing = NoRequest <=> thread \in {"idle", "waiting"}

(* The current id stands for the text in the box. *)
IdsStandForText ==
    \A r \in Requests : InFlight(r) =>
        /\ r.id <= currentRequestId
        /\ r.id = currentRequestId => r.value = text /\ text # Empty

(* The request that waits is the newest of all. *)
NextIsNewest ==
    nextSearchRequest # NoRequest =>
        /\ nextSearchRequest.id = currentRequestId
        /\ executing # NoRequest => executing.id < currentRequestId
        /\ \A i \in DOMAIN posted : posted[i].id < currentRequestId

(* The inductive invariant. *)
IInv ==
    /\ TypeOK
    /\ ThreadHasItsRequest
    /\ IdsStandForText
    /\ NextIsNewest
    /\ SearchingForText
    /\ SleepsOnlyWithoutRequest
    /\ ResultsInOrder

-----------------------------------------------------------------------------
(* Lemmas about requests and the results that are posted *)

(* nil is not a request, and a request has a positive id and a text. *)
LEMMA RequestsAreReal ==
    /\ NoRequest \notin Requests
    /\ \A r \in Requests : r.id \in 1..MaxRequests /\ r.value \in Values
BY SearchAssumption DEF Requests

(* What Tail leaves: the results after the first, in their order. *)
LEMMA TailOfPosted ==
    ASSUME NEW s \in Seq(Requests), s # <<>>
    PROVE  /\ Head(s) \in Requests /\ Head(s) = s[1] /\ 1 \in DOMAIN s
           /\ Tail(s) \in Seq(Requests)
           /\ \A i \in DOMAIN Tail(s) : i + 1 \in DOMAIN s /\ Tail(s)[i] = s[i + 1]
           /\ \A i \in DOMAIN s : i # 1 => i - 1 \in DOMAIN Tail(s) /\ s[i] = Tail(s)[i - 1]
OBVIOUS

(* What Append adds. *)
LEMMA AppendToPosted ==
    ASSUME NEW s \in Seq(Requests), NEW r \in Requests
    PROVE  /\ Append(s, r) \in Seq(Requests)
           /\ Len(s) + 1 \in DOMAIN Append(s, r)
           /\ Append(s, r)[Len(s) + 1] = r
           /\ \A i \in DOMAIN s : i \in DOMAIN Append(s, r) /\ Append(s, r)[i] = s[i]
           /\ \A i \in DOMAIN Append(s, r) :
                 i = Len(s) + 1 \/ (i \in DOMAIN s /\ i < Len(s) + 1)
OBVIOUS

-----------------------------------------------------------------------------
(* The invariant *)

LEMMA InitEstablishesIInv == Init => IInv
<1> SUFFICES ASSUME Init PROVE IInv
  OBVIOUS
<1>1. posted = <<>> /\ DOMAIN posted = {} /\ posted \in Seq(Requests)
  BY DEF Init
<1>2. TypeOK
  BY <1>1, SearchAssumption DEF Init, TypeOK
<1>3. IdsStandForText
  BY <1>1, RequestsAreReal DEF Init, IdsStandForText, InFlight
<1>4. QED
  BY <1>1, <1>2, <1>3 DEF Init, IInv, ThreadHasItsRequest, NextIsNewest,
     SearchingForText, SleepsOnlyWithoutRequest, ResultsInOrder

LEMMA SubmitRequestKeepsIInv ==
    ASSUME IInv, NEW v \in Values, SubmitRequest(v) PROVE IInv'
<1> DEFINE new == [id |-> currentRequestId + 1, value |-> v]
<1> USE DEF SubmitRequest, Broadcast
<1>1. /\ new \in Requests
      /\ currentRequestId \in Nat
      /\ new.id = currentRequestId + 1
      /\ new.value = v
      /\ v # Empty
  BY SearchAssumption DEF IInv, TypeOK, Requests
<1>2. nextSearchRequest' = new /\ new # NoRequest
  BY <1>1, RequestsAreReal
<1>3. TypeOK'
  BY <1>1, <1>2, SearchAssumption DEF IInv, TypeOK
<1>4. ThreadHasItsRequest'
  BY DEF IInv, TypeOK, ThreadHasItsRequest
<1>5. IdsStandForText'
  BY <1>1, <1>2, RequestsAreReal DEF IInv, TypeOK, IdsStandForText, InFlight
<1>6. (executing # NoRequest => executing.id < currentRequestId')
      /\ \A i \in DOMAIN posted : posted[i].id < currentRequestId'
  BY <1>1, RequestsAreReal DEF IInv, TypeOK, IdsStandForText, InFlight
<1>7. NextIsNewest'
  BY <1>1, <1>2, <1>6 DEF NextIsNewest
<1>8. SearchingForText'
  BY DEF SearchingForText
<1>9. SleepsOnlyWithoutRequest'
  BY DEF IInv, TypeOK, SleepsOnlyWithoutRequest
<1>10. ResultsInOrder'
  BY <1>1, <1>2, <1>6 DEF IInv, ResultsInOrder
<1>11. QED
  BY <1>3, <1>4, <1>5, <1>7, <1>8, <1>9, <1>10 DEF IInv

LEMMA ClearTextKeepsIInv ==
    ASSUME IInv, ClearText PROVE IInv'
<1> USE DEF ClearText, InvalidateExistingRequests, search
<1>1. currentRequestId \in Nat
  BY DEF IInv, TypeOK
<1>2. TypeOK'
  BY SearchAssumption DEF IInv, TypeOK
<1>3. IdsStandForText'
  BY <1>1, RequestsAreReal DEF IInv, TypeOK, IdsStandForText, InFlight
<1>4. ResultsInOrder'
  BY DEF IInv, ResultsInOrder
<1>5. QED
  BY <1>2, <1>3, <1>4 DEF IInv, ThreadHasItsRequest, NextIsNewest,
     SearchingForText, SleepsOnlyWithoutRequest

LEMMA ReportResultKeepsIInv ==
    ASSUME IInv, ReportResult PROVE IInv'
<1> USE DEF ReportResult, requests
<1>1. /\ posted \in Seq(Requests) /\ posted # <<>>
      /\ posted' = Tail(posted)
  BY DEF IInv, TypeOK
<1> HIDE DEF ReportResult
<1>2. /\ Head(posted) \in Requests /\ Head(posted) = posted[1] /\ 1 \in DOMAIN posted
      /\ posted' \in Seq(Requests)
      /\ \A i \in DOMAIN posted' : i + 1 \in DOMAIN posted /\ posted'[i] = posted[i + 1]
      /\ \A i \in DOMAIN posted :
            i # 1 => i - 1 \in DOMAIN posted' /\ posted[i] = posted'[i - 1]
      /\ DOMAIN posted' \subseteq Nat
  BY <1>1, TailOfPosted
<1>3. UNCHANGED <<currentRequestId, nextSearchRequest, thread, executing, part, text>>
  BY DEF ReportResult
<1>4. Head(posted).id = currentRequestId =>
        abstractSearchResult' = text
  BY <1>2 DEF ReportResult, IInv, IdsStandForText, InFlight
<1>5. Head(posted).id # currentRequestId => UNCHANGED abstractSearchResult
  BY DEF ReportResult
<1>6. TypeOK'
  BY <1>2, <1>3, <1>4, <1>5 DEF IInv, TypeOK
<1>7. IdsStandForText'
  BY <1>2, <1>3 DEF IInv, IdsStandForText, InFlight
<1>8. NextIsNewest'
  BY <1>2, <1>3 DEF IInv, NextIsNewest
<1>9. SearchingForText'
  <2> SUFFICES ASSUME text # Empty, text # abstractSearchResult'
               PROVE  \/ nextSearchRequest = [id |-> currentRequestId, value |-> text]
                      \/ executing = [id |-> currentRequestId, value |-> text]
                      \/ \E i \in DOMAIN posted' :
                            posted'[i] = [id |-> currentRequestId, value |-> text]
    BY <1>3 DEF SearchingForText
  <2>1. Head(posted).id # currentRequestId /\ text # abstractSearchResult
    BY <1>4, <1>5
  <2>2. posted[1] # [id |-> currentRequestId, value |-> text]
    BY <1>2, <2>1
  <2>3. QED
    BY <1>2, <2>1, <2>2 DEF IInv, SearchingForText
<1>10. ResultsInOrder'
  <2>1. \A i, j \in DOMAIN posted' : i < j => posted'[i].id < posted'[j].id
    BY <1>2 DEF IInv, ResultsInOrder
  <2>2. QED
    BY <1>2, <1>3, <2>1 DEF IInv, ResultsInOrder
<1>11. QED
  BY <1>3, <1>6, <1>7, <1>8, <1>9, <1>10
     DEF IInv, ThreadHasItsRequest, SleepsOnlyWithoutRequest

LEMMA TakeRequestKeepsIInv ==
    ASSUME IInv, TakeRequest PROVE IInv'
<1> USE DEF TakeRequest, screen
<1>1. executing = NoRequest
  BY DEF IInv, ThreadHasItsRequest
<1>2. CASE nextSearchRequest = NoRequest
  BY <1>1, <1>2 DEF IInv, TypeOK, ThreadHasItsRequest, IdsStandForText, InFlight,
     NextIsNewest, SearchingForText, SleepsOnlyWithoutRequest, ResultsInOrder
<1>3. CASE nextSearchRequest # NoRequest
  <2>1. /\ nextSearchRequest \in Requests
        /\ executing' = nextSearchRequest /\ nextSearchRequest' = NoRequest
        /\ thread' = "pausing"
    BY <1>3 DEF IInv, TypeOK
  <2>2. TypeOK'
    BY <2>1 DEF IInv, TypeOK
  <2>3. ThreadHasItsRequest' /\ SleepsOnlyWithoutRequest' /\ NextIsNewest'
    BY <1>3, <2>1 DEF ThreadHasItsRequest, SleepsOnlyWithoutRequest, NextIsNewest
  <2>4. IdsStandForText'
    BY <2>1, RequestsAreReal DEF IInv, IdsStandForText, InFlight
  <2>5. SearchingForText'
    BY <1>1, <2>1, RequestsAreReal DEF IInv, TypeOK, SearchingForText
  <2>6. ResultsInOrder'
    BY <1>3, <2>1 DEF IInv, ResultsInOrder, NextIsNewest
  <2>7. QED
    BY <2>2, <2>3, <2>4, <2>5, <2>6 DEF IInv
<1>4. QED
  BY <1>2, <1>3

(* The steps of the thread that leave every request where it is. *)
LEMMA ThreadMovesKeepIInv ==
    ASSUME IInv, SpuriousWakeup \/ PauseEnds PROVE IInv'
<1>1. 0 \in 0..Parts
  BY SearchAssumption
<1>2. QED
  BY <1>1 DEF SpuriousWakeup, PauseEnds, requests, screen, IInv, TypeOK,
     ThreadHasItsRequest, IdsStandForText, InFlight, NextIsNewest, SearchingForText,
     SleepsOnlyWithoutRequest, ResultsInOrder

(* A search that is aborted was not the one for the text in the box. *)
LEMMA SearchPartKeepsIInv ==
    ASSUME IInv, SearchPart PROVE IInv'
<1> USE DEF SearchPart, requests, screen
<1>1. part + 1 \in 0..Parts /\ 0 \in 0..Parts
  BY SearchAssumption DEF IInv, TypeOK
<1>2. CASE ~AbortEarly
  BY <1>1, <1>2 DEF IInv, TypeOK, ThreadHasItsRequest, IdsStandForText, InFlight,
     NextIsNewest, SearchingForText, SleepsOnlyWithoutRequest, ResultsInOrder
<1>3. CASE AbortEarly
  <2>1. /\ executing' = NoRequest /\ thread' = "idle" /\ part' = 0
        /\ UNCHANGED <<currentRequestId, nextSearchRequest, posted, text, abstractSearchResult>>
    BY <1>3
  <2>2. executing # [id |-> currentRequestId, value |-> text]
    BY <1>3 DEF AbortEarly
  <2>3. TypeOK'
    BY <1>1, <2>1 DEF IInv, TypeOK
  <2>4. IdsStandForText'
    BY <2>1, RequestsAreReal DEF IInv, IdsStandForText, InFlight
  <2>5. SearchingForText'
    BY <2>1, <2>2 DEF IInv, SearchingForText
  <2>6. QED
    BY <2>1, <2>3, <2>4, <2>5 DEF IInv, ThreadHasItsRequest, NextIsNewest,
       SleepsOnlyWithoutRequest, ResultsInOrder
<1>4. QED
  BY <1>2, <1>3

LEMMA PostResultKeepsIInv ==
    ASSUME IInv, PostResult PROVE IInv'
<1> USE DEF PostResult, requests, screen
<1>1. executing \in Requests /\ posted \in Seq(Requests) /\ executing # NoRequest
  BY DEF IInv, TypeOK, ThreadHasItsRequest
<1>2. /\ posted' = Append(posted, executing)
      /\ executing' = NoRequest /\ thread' = "idle" /\ part' = 0
      /\ UNCHANGED <<currentRequestId, nextSearchRequest, text, abstractSearchResult>>
  OBVIOUS
<1> HIDE DEF PostResult
<1>3. /\ posted' \in Seq(Requests)
      /\ Len(posted) + 1 \in DOMAIN posted'
      /\ posted'[Len(posted) + 1] = executing
      /\ \A i \in DOMAIN posted : i \in DOMAIN posted' /\ posted'[i] = posted[i]
      /\ \A i \in DOMAIN posted' :
            i = Len(posted) + 1 \/ (i \in DOMAIN posted /\ i < Len(posted) + 1)
  BY <1>1, <1>2, AppendToPosted
<1>4. TypeOK'
  BY <1>2, <1>3, SearchAssumption DEF IInv, TypeOK
<1>5. ThreadHasItsRequest' /\ SleepsOnlyWithoutRequest'
  BY <1>2 DEF ThreadHasItsRequest, SleepsOnlyWithoutRequest
<1>6. IdsStandForText'
  BY <1>2, <1>3, RequestsAreReal DEF IInv, IdsStandForText, InFlight
<1>7. NextIsNewest'
  BY <1>1, <1>2, <1>3 DEF IInv, NextIsNewest
<1>8. SearchingForText'
  BY <1>2, <1>3 DEF IInv, SearchingForText
<1>9. ResultsInOrder'
  <2>1. \A i, j \in DOMAIN posted' : i < j => posted'[i].id < posted'[j].id
    BY <1>1, <1>3 DEF IInv, ResultsInOrder
  <2>2. QED
    BY <1>2, <2>1 DEF ResultsInOrder
<1>10. QED
  BY <1>4, <1>5, <1>6, <1>7, <1>8, <1>9 DEF IInv

LEMMA NextKeepsIInv == IInv /\ [Next]_vars => IInv'
<1> SUFFICES ASSUME IInv, [Next]_vars PROVE IInv'
  OBVIOUS
<1>1. ASSUME NEW v \in Values, SubmitRequest(v) PROVE IInv'
  BY <1>1, SubmitRequestKeepsIInv
<1>2. CASE ClearText
  BY <1>2, ClearTextKeepsIInv
<1>3. CASE ReportResult
  BY <1>3, ReportResultKeepsIInv
<1>4. CASE TakeRequest
  BY <1>4, TakeRequestKeepsIInv
<1>5. CASE SpuriousWakeup \/ PauseEnds
  BY <1>5, ThreadMovesKeepIInv
<1>6. CASE SearchPart
  BY <1>6, SearchPartKeepsIInv
<1>7. CASE PostResult
  BY <1>7, PostResultKeepsIInv
<1>8. CASE UNCHANGED vars
  BY <1>8 DEF vars, IInv, TypeOK, ThreadHasItsRequest, IdsStandForText, InFlight,
     NextIsNewest, SearchingForText, SleepsOnlyWithoutRequest, ResultsInOrder
<1>9. QED
  BY <1>1, <1>2, <1>3, <1>4, <1>5, <1>6, <1>7, <1>8 DEF Next

LEMMA IInvHolds == Spec => []IInv
<1>1. QED
  BY InitEstablishesIInv, NextKeepsIInv, PTL DEF Spec

-----------------------------------------------------------------------------
(* What follows from it *)

(* The engine's fields are well formed: what the search thread posts is a  *)
(* request, never nil.                                                     *)
THEOREM TypeCorrect == Spec => []TypeOK
<1>1. IInv => TypeOK
  BY DEF IInv
<1>2. QED
  BY <1>1, IInvHolds, PTL

(* The request for the text in the box is never lost before its result is  *)
(* shown: between submitRequest, the search loop and reportResult it is    *)
(* always somewhere.                                                       *)
THEOREM CurrentTextIsNotLost == Spec => []SearchingForText
<1>1. IInv => SearchingForText
  BY DEF IInv
<1>2. QED
  BY <1>1, IInvHolds, PTL

(* The search thread never sleeps in searchLoopWorker beside a request. *)
THEOREM NoLostRequest == Spec => []SleepsOnlyWithoutRequest
<1>1. IInv => SleepsOnlyWithoutRequest
  BY DEF IInv
<1>2. QED
  BY <1>1, IInvHolds, PTL

(* Results reach the main thread in the order of their requests. *)
THEOREM ResultsStayInOrder == Spec => []ResultsInOrder
<1>1. IInv => ResultsInOrder
  BY DEF IInv
<1>2. QED
  BY <1>1, IInvHolds, PTL

-----------------------------------------------------------------------------
(* The refinement *)

LEMMA InitImplementsBox == Init => Box!BoxInit
BY DEF Init, Box!BoxInit

LEMMA NextImplementsBox ==
    IInv /\ [Next]_vars => [Box!BoxNext]_(Box!boxVars)
<1> SUFFICES ASSUME IInv, [Next]_vars
             PROVE  Box!BoxNext \/ UNCHANGED Box!boxVars
  OBVIOUS
<1> USE DEF Box!boxVars
<1>1. ASSUME NEW v \in Values, SubmitRequest(v) PROVE Box!Type(v)
  BY <1>1 DEF SubmitRequest, Box!Type
<1>2. CASE ClearText
  BY <1>2 DEF ClearText, Box!Clear, Box!BoxNext
<1>3. CASE ReportResult
  <2>1. CASE Head(posted).id = currentRequestId
    <3>1. /\ Head(posted) \in Requests
          /\ Head(posted) = posted[1] /\ 1 \in DOMAIN posted
      BY <1>3, TailOfPosted DEF ReportResult, IInv, TypeOK
    <3>2. Head(posted).value = text /\ text # Empty
      BY <2>1, <3>1 DEF IInv, IdsStandForText, InFlight
    <3>3. Box!Show
      BY <1>3, <2>1, <3>2 DEF ReportResult, Box!Show
    <3>4. QED
      BY <3>3 DEF Box!BoxNext
  <2>2. CASE Head(posted).id # currentRequestId
    BY <1>3, <2>2 DEF ReportResult
  <2>3. QED
    BY <2>1, <2>2
<1>4. CASE TakeRequest \/ SpuriousWakeup \/ PauseEnds \/ SearchPart \/ PostResult
  BY <1>4 DEF TakeRequest, SpuriousWakeup, PauseEnds, SearchPart, PostResult, screen
<1>5. CASE UNCHANGED vars
  BY <1>5 DEF vars
<1>6. QED
  BY <1>1, <1>2, <1>3, <1>4, <1>5 DEF Next, Box!BoxNext

(* Every step of the engine and its display controller is one that the     *)
(* search box promises: only results of the text in the box come up, and   *)
(* an emptied box stays empty.                                             *)
THEOREM ImplementsBoxSafety == Spec => Box!BoxInit /\ [][Box!BoxNext]_(Box!boxVars)
<1>1. QED
  BY InitImplementsBox, NextImplementsBox, IInvHolds, PTL DEF Spec
=============================================================================
