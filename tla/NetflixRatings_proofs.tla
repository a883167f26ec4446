------------------------- MODULE NetflixRatings_proofs -------------------------
(***************************************************************************)
(* The three copies of a rating, for any number of views, ratings, changes *)
(* and kills: the file never runs ahead of the server, and the user sees   *)
(* the rating given last.                                                  *)
(*                                                                         *)
(* Neither follows from the copies alone.  The file is written from the    *)
(* operation that runs, so what that operation carries must be known to    *)
(* have been on the server; and the rating given last is shown because the *)
(* overlay has it, whatever updates write to the file below.               *)
(***************************************************************************)
EXTENDS NetflixRatings, SequenceTheorems, TLAPS

Pending == [kind : {"change"}, view : Views, rating : Given]
              \cup [kind : {"update"}, view : {None}, rating : {None}]

Operations == [kind : {"change"}, view : Views, rating : Given,
               at : {"look", "send", "write"}]
                 \cup [kind : {"update"}, view : {None}, rating : Given \cup {None},
                       at : {"look", "write"}]

Results == [view : Views, ok : BOOLEAN]

(* The variables of the main thread, of the worker, and of the rating. *)
MainThreadTyped ==
    /\ presubmit \in Given \cup {None}
    /\ readonly \subseteq Views
    /\ newest \in Given \cup {None}
    /\ uncovered \in BOOLEAN
    /\ reports \in Seq(Results)

WorkerTyped ==
    /\ pending \in Seq(Pending)
    /\ \/ running = <<>>
       \/ \E op \in Operations : running = <<op>>

RatingTyped ==
    /\ server \in Seq(Given)
    /\ server # <<>>
    /\ userRatingsFile \in Given \cup {None}

(* What is about to be written to the file has been on the server. *)
WritesServerRating ==
    running # <<>> /\ running[1].at = "write" => running[1].rating \in Range(server)

(* The overlay has the rating given last until a result uncovers it. *)
OverlayIsNewest ==
    readonly # {} /\ ~uncovered => presubmit = newest /\ newest \in Given

(* The inductive invariant. *)
IInv ==
    /\ MainThreadTyped
    /\ WorkerTyped
    /\ RatingTyped
    /\ WritesServerRating
    /\ FileHoldsServerRating
    /\ OverlayIsNewest

-----------------------------------------------------------------------------
(* Lemmas about sequences *)

(* Whatever was on the server stays in its history. *)
LEMMA AppendKeepsRange ==
    ASSUME NEW S, NEW s \in Seq(S), NEW e \in S
    PROVE  /\ Append(s, e) \in Seq(S) /\ Append(s, e) # <<>>
           /\ Range(Append(s, e)) = Range(s) \cup {e}
<1>1. /\ Append(s, e) \in Seq(S) /\ Append(s, e) # <<>>
      /\ Len(Append(s, e)) = Len(s) + 1
      /\ \A i \in 1..Len(s) : Append(s, e)[i] = s[i]
      /\ Append(s, e)[Len(s) + 1] = e
  BY AppendProperties
<1>2. DOMAIN s = 1..Len(s) /\ DOMAIN Append(s, e) = 1..(Len(s) + 1) /\ Len(s) \in Nat
  BY <1>1
<1>3. Range(Append(s, e)) = Range(s) \cup {e}
  BY <1>1, <1>2 DEF Range
<1>4. QED
  BY <1>1, <1>3

LEMMA LastIsInRange ==
    ASSUME NEW S, NEW s \in Seq(S), s # <<>>
    PROVE  Last(s) \in S /\ Last(s) \in Range(s)
BY DEF Last, Range

LEMMA RemoveAtKeepsType ==
    ASSUME NEW S, NEW s \in Seq(S), NEW i \in DOMAIN s
    PROVE  RemoveAt(s, i) \in Seq(S)
BY DEF RemoveAt

LEMMA TailKeepsType ==
    ASSUME NEW S, NEW s \in Seq(S), s # <<>>
    PROVE  Tail(s) \in Seq(S)
BY HeadTailProperties

(* The operation that runs, as the actions see it. *)
LEMMA RunningOperation ==
    ASSUME WorkerTyped, running # <<>>
    PROVE  /\ running[1] \in Operations
           /\ running = <<running[1]>>
BY DEF WorkerTyped

-----------------------------------------------------------------------------
LEMMA InitEstablishesIInv == Init => IInv
<1> SUFFICES ASSUME Init PROVE IInv
  OBVIOUS
<1>1. MainThreadTyped /\ WorkerTyped
  BY EmptySeq DEF Init, MainThreadTyped, WorkerTyped
<1>2. RatingTyped
  BY DEF Init, RatingTyped, Given
<1>3. WritesServerRating /\ FileHoldsServerRating /\ OverlayIsNewest
  BY DEF Init, WritesServerRating, FileHoldsServerRating, OverlayIsNewest
<1>4. QED
  BY <1>1, <1>2, <1>3 DEF IInv

LEMMA ChangeRatingKeepsIInv ==
    ASSUME IInv, NEW v \in Views, NEW r \in Given, ChangeRating(v, r) PROVE IInv'
<1> USE DEF IInv, ChangeRating
<1>1. MainThreadTyped'
  BY DEF MainThreadTyped
<1>2. WorkerTyped'
  <2>1. [kind |-> "change", view |-> v, rating |-> r] \in Pending
    BY DEF Pending
  <2>2. pending' \in Seq(Pending)
    BY <2>1, AppendKeepsRange DEF WorkerTyped
  <2>3. QED
    BY <2>2 DEF WorkerTyped
<1>3. RatingTyped' /\ WritesServerRating' /\ FileHoldsServerRating'
  BY DEF RatingTyped, WritesServerRating, FileHoldsServerRating
<1>4. OverlayIsNewest'
  BY DEF OverlayIsNewest
<1>5. QED
  BY <1>1, <1>2, <1>3, <1>4

LEMMA AskForUpdateKeepsIInv ==
    ASSUME IInv, AskForUpdate PROVE IInv'
<1> USE DEF IInv, AskForUpdate, history
<1>1. [kind |-> "update", view |-> None, rating |-> None] \in Pending
  BY DEF Pending
<1>2. pending' \in Seq(Pending)
  BY <1>1, AppendKeepsRange DEF WorkerTyped
<1>3. QED
  BY <1>2 DEF MainThreadTyped, WorkerTyped, RatingTyped, WritesServerRating,
              FileHoldsServerRating, OverlayIsNewest

(* Whoever still waits after a report has lost the overlay, which is what  *)
(* uncovered records.                                                      *)
LEMMA HandleReportKeepsIInv ==
    ASSUME IInv, HandleReport PROVE IInv'
<1> USE DEF IInv, HandleReport
<1>1. reports' \in Seq(Results)
  BY TailKeepsType DEF MainThreadTyped
<1>2. MainThreadTyped'
  BY <1>1 DEF MainThreadTyped
<1>3. OverlayIsNewest'
  BY DEF OverlayIsNewest
<1>4. QED
  BY <1>2, <1>3 DEF WorkerTyped, RatingTyped, WritesServerRating, FileHoldsServerRating

(* An operation starts with a look: it carries nothing to be written. *)
LEMMA StartKeepsIInv ==
    ASSUME IInv, NEW i \in DOMAIN pending, Start(i) PROVE IInv'
<1> USE DEF IInv, Start, history
<1>1. pending[i] \in Pending
  BY DEF WorkerTyped
<1>2. pending' \in Seq(Pending)
  BY RemoveAtKeepsType DEF WorkerTyped
<1> DEFINE op == [kind |-> pending[i].kind, view |-> pending[i].view,
                  rating |-> pending[i].rating, at |-> "look"]
<1>3. op \in Operations
  BY <1>1 DEF Pending, Operations
<1>4. running' = <<op>> /\ running'[1].at = "look"
  OBVIOUS
<1>5. WorkerTyped' /\ WritesServerRating'
  <2> HIDE DEF op
  <2>1. QED
    BY <1>2, <1>3, <1>4 DEF WorkerTyped, WritesServerRating
<1>6. QED
  BY <1>5 DEF MainThreadTyped, RatingTyped, FileHoldsServerRating, OverlayIsNewest

(* The worker reports the change it runs to a view. *)
LEMMA ReportKeepsType ==
    ASSUME IInv, NEW ok \in BOOLEAN, running # <<>>, running[1].kind = "change", Report(ok)
    PROVE  reports' \in Seq(Results)
<1>1. running[1].view \in Views
  BY RunningOperation DEF IInv, Operations
<1>2. [view |-> running[1].view, ok |-> ok] \in Results
  BY <1>1 DEF Results
<1>3. QED
  BY <1>2, AppendKeepsRange DEF IInv, MainThreadTyped, Report

(* A step of the worker that leaves the rating's copies alone and either   *)
(* ends the operation or keeps what WritesServerRating says of it.         *)
LEMMA WorkerStepKeepsIInv ==
    ASSUME IInv,
           UNCHANGED <<presubmit, pending, readonly, history>>,
           reports' \in Seq(Results),
           RatingTyped', FileHoldsServerRating',
           \/ running' = <<>>
           \/ \E op \in Operations :
                 /\ running' = <<op>>
                 /\ op.at = "write" => op.rating \in Range(server')
    PROVE  IInv'
<1> USE DEF IInv, history
<1>1. MainThreadTyped'
  BY DEF MainThreadTyped
<1>2. WorkerTyped'
  BY DEF WorkerTyped
<1>3. WritesServerRating'
  BY DEF WritesServerRating
<1>4. OverlayIsNewest'
  BY DEF OverlayIsNewest
<1>5. QED
  BY <1>1, <1>2, <1>3, <1>4

LEMMA LookForRatingKeepsIInv ==
    ASSUME IInv, LookForRating PROVE IInv'
<1> USE DEF LookForRating, Running
<1>1. RatingTyped' /\ FileHoldsServerRating'
  BY DEF IInv, RatingTyped, FileHoldsServerRating
<1>2. CASE running' = <<[running[1] EXCEPT !.at = "send"]>> /\ UNCHANGED reports
  <2>1. [running[1] EXCEPT !.at = "send"] \in Operations
    BY RunningOperation DEF IInv, Operations
  <2>2. [running[1] EXCEPT !.at = "send"].at = "send"
    BY RunningOperation DEF IInv, Operations
  <2>3. reports' \in Seq(Results)
    BY <1>2 DEF IInv, MainThreadTyped
  <2>4. QED
    BY <1>1, <1>2, <2>1, <2>2, <2>3, WorkerStepKeepsIInv
<1>3. CASE Stop /\ Report(FALSE)
  <2>1. reports' \in Seq(Results)
    BY <1>3, ReportKeepsType
  <2>2. QED
    BY <1>1, <1>3, <2>1, WorkerStepKeepsIInv DEF Stop
<1>4. QED
  BY <1>2, <1>3

(* The server gets the rating before it may be written. *)
LEMMA SendRatingKeepsIInv ==
    ASSUME IInv, SendRating PROVE IInv'
<1> USE DEF SendRating, Running
<1>1. running[1] \in Operations /\ running[1].rating \in Given
  BY RunningOperation DEF IInv, Operations
<1>2. /\ server' \in Seq(Given) /\ server' # <<>>
      /\ Range(server) \subseteq Range(server')
  <2>1. server' = server \/ server' = Append(server, running[1].rating)
    OBVIOUS
  <2>2. server \in Seq(Given) /\ server # <<>>
    BY DEF IInv, RatingTyped
  <2>3. CASE server' = server
    BY <2>2, <2>3
  <2>4. CASE server' = Append(server, running[1].rating)
    <3> HIDE DEF SendRating, Running
    <3>1. QED
      BY <1>1, <2>2, <2>4, AppendKeepsRange
  <2>5. QED
    BY <2>1, <2>3, <2>4
<1>3. RatingTyped' /\ FileHoldsServerRating'
  BY <1>2 DEF IInv, RatingTyped, FileHoldsServerRating
<1>4. CASE /\ server' = Append(server, running[1].rating)
           /\ running' = <<[running[1] EXCEPT !.at = "write"]>>
           /\ UNCHANGED reports
  <2>1. /\ [running[1] EXCEPT !.at = "write"] \in Operations
        /\ [running[1] EXCEPT !.at = "write"].rating = running[1].rating
    BY <1>1 DEF Operations
  <2>2. running[1].rating \in Range(server')
    BY <1>1, <1>4, AppendKeepsRange DEF IInv, RatingTyped
  <2>3. reports' \in Seq(Results)
    BY <1>4 DEF IInv, MainThreadTyped
  <2>4. QED
    BY <1>3, <1>4, <2>1, <2>2, <2>3, WorkerStepKeepsIInv
<1>5. CASE Stop /\ Report(FALSE)
  <2>1. reports' \in Seq(Results)
    BY <1>5, ReportKeepsType
  <2>2. QED
    BY <1>3, <1>5, <2>1, WorkerStepKeepsIInv DEF Stop
<1>6. QED
  BY <1>4, <1>5

LEMMA WriteChangedRatingKeepsIInv ==
    ASSUME IInv, WriteChangedRating PROVE IInv'
<1> USE DEF WriteChangedRating, Running
<1>1. running[1].rating \in Range(server) /\ running[1].rating \in Given
  BY RunningOperation DEF IInv, Operations, WritesServerRating
<1>2. RatingTyped' /\ FileHoldsServerRating'
  BY <1>1 DEF IInv, RatingTyped, FileHoldsServerRating
<1>3. reports' \in Seq(Results)
  BY ReportKeepsType
<1>4. QED
  BY <1>2, <1>3, WorkerStepKeepsIInv DEF Stop

LEMMA DownloadRatingKeepsIInv ==
    ASSUME IInv, DownloadRating PROVE IInv'
<1> USE DEF DownloadRating, Running
<1>1. RatingTyped' /\ FileHoldsServerRating' /\ reports' \in Seq(Results)
  BY DEF IInv, RatingTyped, FileHoldsServerRating, MainThreadTyped
<1>2. CASE running' = <<[running[1] EXCEPT !.at = "write", !.rating = Last(server)]>>
  <2>1. Last(server) \in Given /\ Last(server) \in Range(server)
    BY LastIsInRange DEF IInv, RatingTyped
  <2>2. /\ [running[1] EXCEPT !.at = "write", !.rating = Last(server)] \in Operations
        /\ [running[1] EXCEPT !.at = "write", !.rating = Last(server)].rating
              = Last(server)
    BY <2>1, RunningOperation DEF IInv, Operations
  <2>3. server' = server
    OBVIOUS
  <2>4. QED
    BY <1>1, <1>2, <2>1, <2>2, <2>3, WorkerStepKeepsIInv
<1>3. CASE Stop
  BY <1>1, <1>3, WorkerStepKeepsIInv DEF Stop
<1>4. QED
  BY <1>2, <1>3

LEMMA WriteDownloadedRatingKeepsIInv ==
    ASSUME IInv, WriteDownloadedRating PROVE IInv'
<1> USE DEF WriteDownloadedRating, Running
<1>1. running[1].rating \in Range(server)
  BY DEF IInv, WritesServerRating
<1>2. running[1].rating \in Given
  BY <1>1, RangeOfSeq DEF IInv, RatingTyped
<1>3. RatingTyped' /\ FileHoldsServerRating' /\ reports' \in Seq(Results)
  BY <1>1, <1>2 DEF IInv, RatingTyped, FileHoldsServerRating, MainThreadTyped
<1>4. QED
  BY <1>3, WorkerStepKeepsIInv DEF Stop

LEMMA ForeignRatingKeepsIInv ==
    ASSUME IInv, ForeignRating PROVE IInv'
<1> USE DEF IInv, ForeignRating, history
<1>1. PICK r \in Given : server' = Append(server, r)
  OBVIOUS
<1>2. /\ server' \in Seq(Given) /\ server' # <<>>
      /\ Range(server) \subseteq Range(server')
  BY <1>1, AppendKeepsRange DEF RatingTyped
<1>3. RatingTyped' /\ WritesServerRating' /\ FileHoldsServerRating'
  BY <1>2 DEF RatingTyped, WritesServerRating, FileHoldsServerRating
<1>4. QED
  BY <1>3 DEF MainThreadTyped, WorkerTyped, OverlayIsNewest

LEMMA CrashKeepsIInv ==
    ASSUME IInv, Crash PROVE IInv'
<1>1. MainThreadTyped' /\ WorkerTyped'
  BY EmptySeq DEF Crash, MainThreadTyped, WorkerTyped
<1>2. RatingTyped' /\ FileHoldsServerRating'
  BY DEF IInv, Crash, RatingTyped, FileHoldsServerRating
<1>3. WritesServerRating' /\ OverlayIsNewest'
  BY DEF Crash, WritesServerRating, OverlayIsNewest
<1>4. QED
  BY <1>1, <1>2, <1>3 DEF IInv

LEMMA NextKeepsIInv == IInv /\ [Next]_vars => IInv'
<1> SUFFICES ASSUME IInv, [Next]_vars PROVE IInv'
  OBVIOUS
<1>1. ASSUME NEW v \in Views, NEW r \in Given, ChangeRating(v, r) PROVE IInv'
  BY <1>1, ChangeRatingKeepsIInv
<1>2. CASE AskForUpdate
  BY <1>2, AskForUpdateKeepsIInv
<1>3. CASE HandleReport
  BY <1>3, HandleReportKeepsIInv
<1>4. ASSUME NEW i \in DOMAIN pending, Start(i) PROVE IInv'
  BY <1>4, StartKeepsIInv
<1>5. CASE LookForRating
  BY <1>5, LookForRatingKeepsIInv
<1>6. CASE SendRating
  BY <1>6, SendRatingKeepsIInv
<1>7. CASE WriteChangedRating
  BY <1>7, WriteChangedRatingKeepsIInv
<1>8. CASE DownloadRating
  BY <1>8, DownloadRatingKeepsIInv
<1>9. CASE WriteDownloadedRating
  BY <1>9, WriteDownloadedRatingKeepsIInv
<1>10. CASE ForeignRating
  BY <1>10, ForeignRatingKeepsIInv
<1>11. CASE Crash
  BY <1>11, CrashKeepsIInv
<1>12. CASE UNCHANGED vars
  BY <1>12 DEF vars, history, IInv, MainThreadTyped, WorkerTyped, RatingTyped,
               WritesServerRating, FileHoldsServerRating, OverlayIsNewest
<1>13. QED
  BY <1>1, <1>2, <1>3, <1>4, <1>5, <1>6, <1>7, <1>8, <1>9, <1>10, <1>11, <1>12
     DEF Next, OperationStep

LEMMA IInvHolds == Spec => []IInv
<1>1. QED
  BY InitEstablishesIInv, NextKeepsIInv, PTL DEF Spec

-----------------------------------------------------------------------------
(* What follows from it *)

(* Every variable has its type; in particular an operation about to write  *)
(* has a rating, never nil.                                                *)
THEOREM TypeCorrect == Spec => []TypeOK
<1>1. IInv => TypeOK
  <2> SUFFICES ASSUME IInv PROVE TypeOK
    OBVIOUS
  <2>1. \A op \in Range(pending) : op.kind \in {"change", "update"}
    <3>1. Range(pending) \subseteq Pending
      BY RangeOfSeq DEF IInv, WorkerTyped
    <3>2. QED
      BY <3>1 DEF Pending
  <2>2. /\ Len(running) <= 1
        /\ \A op \in Range(running) :
              /\ op.at \in {"look", "send", "write"}
              /\ op.at = "write" => op.rating \in Given
    <3>1. CASE running = <<>>
      BY <3>1 DEF Range
    <3>2. ASSUME NEW op \in Operations, running = <<op>>
          PROVE  /\ op.at \in {"look", "send", "write"}
                 /\ op.at = "write" => op.rating \in Given
      <4>1. op.at = "write" => op.rating \in Range(server)
        BY <3>2 DEF IInv, WritesServerRating
      <4>2. Range(server) \subseteq Given
        BY RangeOfSeq DEF IInv, RatingTyped
      <4>3. op.at \in {"look", "send", "write"}
        BY DEF Operations
      <4>4. QED
        BY <4>1, <4>2, <4>3
    <3>3. ASSUME NEW op \in Operations, running = <<op>>
          PROVE  Len(running) = 1 /\ Range(running) = {op}
      BY <3>3 DEF Range
    <3>4. CASE \E op \in Operations : running = <<op>>
      <4>1. PICK op \in Operations : running = <<op>>
        BY <3>4
      <4>2. Len(running) = 1 /\ Range(running) = {op}
        BY <4>1, <3>3
      <4>3. QED
        BY <3>2, <4>1, <4>2
    <3>5. QED
      BY <3>1, <3>4 DEF IInv, WorkerTyped
  <2>3. QED
    BY <2>1, <2>2 DEF IInv, MainThreadTyped, RatingTyped, Results, TypeOK
<1>2. QED
  BY <1>1, IInvHolds, PTL

(* The file never holds a rating the server has not had: not after lost    *)
(* requests, lost replies or a kill between the server and the file.       *)
THEOREM FileIsNotAhead == Spec => []FileHoldsServerRating
<1>1. IInv => FileHoldsServerRating
  BY DEF IInv
<1>2. QED
  BY <1>1, IInvHolds, PTL

(* However many views share the rating, the user sees the one given last   *)
(* until its result is there, or another view's result has uncovered it.   *)
THEOREM NewestIsShown == Spec => []NewestChangeShown
<1>1. IInv => NewestChangeShown
  <2> SUFFICES ASSUME IInv, readonly # {}, ~uncovered PROVE Shown = newest
    BY DEF NewestChangeShown
  <2>1. presubmit = newest /\ newest \in Given
    BY DEF IInv, OverlayIsNewest
  <2>2. presubmit # None
    BY <2>1, RatingsAssumption DEF RatingsAssumption, Given
  <2>3. QED
    BY <2>1, <2>2 DEF Shown
<1>2. QED
  BY <1>1, IInvHolds, PTL
=============================================================================
