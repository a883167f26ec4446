---------------------------- MODULE NetflixRatings ----------------------------
(***************************************************************************)
(* The user's rating of one title: what the server has, the file that      *)
(* caches it, and presubmitRatings, the overlay by which the user sees a   *)
(* new rating before the server has it.  Discs of a series share the       *)
(* rating of the series (promoteDiscToSeries), so that several views can   *)
(* change the rating of one title.                                         *)
(*                                                                         *)
(* Changes (NetflixUpdater) and updates (NetflixCache updateRatings) are   *)
(* operations of the OperationQueue and run one at a time; every request   *)
(* and every write of the file is a step.                                  *)
(***************************************************************************)
EXTENDS Integers, Sequences, SequencesExt

CONSTANTS
    Views,
    Ratings,
    Unrated,       \* no rating; "" in the file
    None,          \* nil: no file, nothing in the overlay
    Unreliable,    \* whether requests and replies can be lost
    MaxForeign,    \* bound: ratings given with another client
    MaxChanges,    \* bound: ratings given here
    MaxUpdates,    \* bound: how often the rating is updated from the server
    MaxCrashes     \* bound: how often the app is killed

ASSUME RatingsAssumption ==
    /\ Unrated \notin Ratings
    /\ None \notin Ratings \cup {Unrated}
    /\ Unreliable \in BOOLEAN
    /\ {MaxForeign, MaxChanges, MaxUpdates, MaxCrashes} \subseteq Nat

VARIABLES
    server,            \* all ratings the server has had, oldest first
    userRatingsFile,   \* the rating in the file, or None
    presubmit,         \* presubmitRatings for the title, or None
    pending,           \* the operations in the OperationQueue
    running,           \* the operation that runs, or none (length <= 1)
    readonly,          \* the views that wait for the result of their change
    newest,            \* history: the rating of the change made last
    uncovered,         \* history: the result of another view's change took the
                       \* overlay of one that is not reported yet
    reports,           \* the results posted to the main thread, in their order
    left               \* what is left of the bounds

history == <<newest, uncovered>>
vars == <<server, userRatingsFile, presubmit, pending, running, readonly, history,
          reports, left>>

Given == Ratings \cup {Unrated}

TypeOK ==
    /\ server \in Seq(Given)
    /\ userRatingsFile \in Given \cup {None}
    /\ presubmit \in Given \cup {None}
    /\ \A op \in Range(pending) : op.kind \in {"change", "update"}
    /\ Len(running) <= 1
    /\ \A op \in Range(running) :
          /\ op.at \in {"look", "send", "write"}
          /\ op.at = "write" => op.rating \in Given
    /\ readonly \subseteq Views
    /\ newest \in Given \cup {None}
    /\ uncovered \in BOOLEAN
    /\ reports \in Seq([view : Views, ok : BOOLEAN])

Init ==
    /\ server = <<Unrated>>
    /\ userRatingsFile = None
    /\ presubmit = None
    /\ pending = <<>>
    /\ running = <<>>
    /\ readonly = {}
    /\ newest = None
    /\ uncovered = FALSE
    /\ reports = <<>>
    /\ left = [foreign |-> MaxForeign, changes |-> MaxChanges,
               updates |-> MaxUpdates, crashes |-> MaxCrashes]

-----------------------------------------------------------------------------
(* The main thread *)

(* userRatingForMovie: the overlay, else the file. *)
Shown == IF presubmit # None THEN presubmit
         ELSE IF userRatingsFile # None THEN userRatingsFile ELSE Unrated

(* Mutation of ChangeRating: only a title not rated yet gets an overlay. *)
ChangeRatingOverlayOnce(v, r) ==
    /\ left.changes > 0
    /\ v \notin readonly
    /\ r # Shown
    /\ presubmit' = IF userRatingsFile = None THEN r ELSE presubmit
    /\ pending' = Append(pending, [kind |-> "change", view |-> v, rating |-> r])
    /\ readonly' = readonly \cup {v}
    /\ newest' = r
    /\ uncovered' = FALSE
    /\ left' = [left EXCEPT !.changes = @ - 1]
    /\ UNCHANGED <<server, userRatingsFile, running, reports>>

(* rateNetflixMovieWasTapped, changeRatingTo: a rating that is not the one  *)
(* shown goes into the overlay and to the server.                           *)
ChangeRating(v, r) ==
    /\ left.changes > 0
    /\ v \notin readonly
    /\ r # Shown
    /\ presubmit' = r
    /\ pending' = Append(pending, [kind |-> "change", view |-> v, rating |-> r])
    /\ readonly' = readonly \cup {v}
    /\ newest' = r
    /\ uncovered' = FALSE
    /\ left' = [left EXCEPT !.changes = @ - 1]
    /\ UNCHANGED <<server, userRatingsFile, running, reports>>

(* updateMovieDetails, for a movie come up or a forced refresh. *)
AskForUpdate ==
    /\ left.updates > 0
    /\ pending' = Append(pending, [kind |-> "update", view |-> None, rating |-> None])
    /\ left' = [left EXCEPT !.updates = @ - 1]
    /\ UNCHANGED <<server, userRatingsFile, presubmit, running, readonly, history, reports>>

(* reportChangeRatingSuccess, reportChangeRatingFailure: the overlay of the *)
(* title goes, and the view's rows can be changed again.                    *)
HandleReport ==
    /\ reports # <<>>
    /\ readonly' = readonly \ {Head(reports).view}
    /\ uncovered' = (readonly' # {})
    /\ presubmit' = None
    /\ reports' = Tail(reports)
    /\ UNCHANGED <<server, userRatingsFile, pending, running, newest, left>>

-----------------------------------------------------------------------------
(* Operations *)

(* A Now operation goes before a Priority one. *)
Start(i) ==
    /\ running = <<>>
    /\ i \in DOMAIN pending
    /\ pending[i].kind = "update" => \A op \in Range(pending) : op.kind = "update"
    /\ running' = <<[kind |-> pending[i].kind, view |-> pending[i].view,
                     rating |-> pending[i].rating, at |-> "look"]>>
    /\ pending' = RemoveAt(pending, i)
    /\ UNCHANGED <<server, userRatingsFile, presubmit, readonly, history, reports, left>>

Running(kind, at) == running # <<>> /\ running[1].kind = kind /\ running[1].at = at
Stop == running' = <<>>
Report(ok) == reports' = Append(reports, [view |-> running[1].view, ok |-> ok])

(* Mutation of LookForRating: the file gets the new rating first. *)
PersistAndLookForRating ==
    /\ Running("change", "look")
    /\ userRatingsFile' = running[1].rating
    /\ \/ running' = <<[running[1] EXCEPT !.at = "send"]>> /\ UNCHANGED reports
       \/ Unreliable /\ Stop /\ Report(FALSE)
    /\ UNCHANGED <<server, presubmit, pending, readonly, history, left>>

(* changeRatingTo:forMovieWorker: whether there is a rating decides between *)
(* PUT and POST; the server does the same for both.                         *)
LookForRating ==
    /\ Running("change", "look")
    /\ \/ running' = <<[running[1] EXCEPT !.at = "send"]>> /\ UNCHANGED reports
       \/ Unreliable /\ Stop /\ Report(FALSE)
    /\ UNCHANGED <<server, userRatingsFile, presubmit, pending, readonly, history, left>>

(* putChangeRatingTo, postChangeRatingTo; the reply may get lost, or the    *)
(* request, or a POST may be refused.                                       *)
SendRating ==
    /\ Running("change", "send")
    /\ \/ /\ server' = Append(server, running[1].rating)
          /\ running' = <<[running[1] EXCEPT !.at = "write"]>>
          /\ UNCHANGED reports
       \/ /\ Unreliable
          /\ server' \in {server, Append(server, running[1].rating)}
          /\ Stop
          /\ Report(FALSE)
    /\ UNCHANGED <<userRatingsFile, presubmit, pending, readonly, history, left>>

(* Mutation of WriteChangedRating: the success is not reported. *)
WriteWithoutReporting ==
    /\ Running("change", "write")
    /\ userRatingsFile' = running[1].rating
    /\ Stop
    /\ UNCHANGED <<server, presubmit, pending, readonly, history, reports, left>>

(* changeRatingBackgroundEntryPointWorker: the server has it, now the file. *)
WriteChangedRating ==
    /\ Running("change", "write")
    /\ userRatingsFile' = running[1].rating
    /\ Stop
    /\ Report(TRUE)
    /\ UNCHANGED <<server, presubmit, pending, readonly, history, left>>

(* Mutation of DownloadRating: a missing user_rating is kept as nil. *)
DownloadNil ==
    /\ Running("update", "look")
    /\ running' = <<[running[1] EXCEPT !.at = "write", !.rating =
                        IF Last(server) = Unrated THEN None ELSE Last(server)]>>
    /\ UNCHANGED <<server, userRatingsFile, presubmit, pending, readonly, history, reports, left>>

(* updateRatings: nothing to do when the file is recent; else the rating is *)
(* asked for, and without an answer nothing is written.                     *)
DownloadRating ==
    /\ Running("update", "look")
    /\ \/ running' = <<[running[1] EXCEPT !.at = "write", !.rating = Last(server)]>>
       \/ (Unreliable \/ userRatingsFile # None) /\ Stop
    /\ UNCHANGED <<server, userRatingsFile, presubmit, pending, readonly, history, reports, left>>

WriteDownloadedRating ==
    /\ Running("update", "write")
    /\ userRatingsFile' = running[1].rating
    /\ Stop
    /\ UNCHANGED <<server, presubmit, pending, readonly, history, reports, left>>

-----------------------------------------------------------------------------
(* The user rates the title with another client. *)
ForeignRating ==
    /\ left.foreign > 0
    /\ \E r \in Given : r # Last(server) /\ server' = Append(server, r)
    /\ left' = [left EXCEPT !.foreign = @ - 1]
    /\ UNCHANGED <<userRatingsFile, presubmit, pending, running, readonly, history, reports>>

(* The app is killed and started again; only the file is left. *)
Crash ==
    /\ left.crashes > 0
    /\ presubmit' = None
    /\ pending' = <<>>
    /\ running' = <<>>
    /\ readonly' = {}
    /\ newest' = None
    /\ uncovered' = FALSE
    /\ reports' = <<>>
    /\ left' = [left EXCEPT !.crashes = @ - 1]
    /\ UNCHANGED <<server, userRatingsFile>>

OperationStep ==
    \/ \E i \in DOMAIN pending : Start(i)
    \/ LookForRating
    \/ SendRating
    \/ WriteChangedRating
    \/ DownloadRating
    \/ WriteDownloadedRating

Next ==
    \/ \E v \in Views, r \in Given : ChangeRating(v, r)
    \/ AskForUpdate
    \/ HandleReport
    \/ OperationStep
    \/ ForeignRating
    \/ Crash

(* The worker goes on, a request is answered or times out, and the run loop *)
(* handles what is posted to it.                                            *)
Spec == Init /\ [][Next]_vars /\ WF_vars(OperationStep) /\ WF_vars(HandleReport)

-----------------------------------------------------------------------------
(* "First, persist the change so that the UI picks it up": until the change *)
(* made last is reported back, its rating is the one shown, whatever        *)
(* updates write to the file in the meantime; unless it was uncovered by    *)
(* the result of another disc's change of the same rating                   *)
(* (removePresubmitRatingsForMovie drops the overlay of the title).         *)
NewestChangeShown == readonly # {} /\ ~uncovered => Shown = newest

(* The file never holds a rating that the server has not had: neither a     *)
(* failed change nor one cut short by a crash leaves its rating behind.     *)
FileHoldsServerRating == userRatingsFile # None => userRatingsFile \in Range(server)

(* Every change is reported back to its view, and the overlay goes. *)
ChangesAreReported ==
    /\ \A v \in Views : v \in readonly ~> v \notin readonly
    /\ presubmit # None ~> presubmit = None
=============================================================================
