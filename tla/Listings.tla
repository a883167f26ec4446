------------------------------- MODULE Listings -------------------------------
(***************************************************************************)
(* The theater listings: AbstractDataProvider looks them up for a date and *)
(* saves them in several files, ThreadsafeValue keeps their copies in      *)
(* memory, Controller and AbstractDetailsViewController ask for a lookup   *)
(* when the user picks a date, and BookmarkCache has the titles that the   *)
(* user bookmarked, of which the data provider keeps the movies.           *)
(*                                                                         *)
(* A listing is told apart by the date it was looked up for; the showtimes *)
(* of theaters that a lookup did not find come from listings before it.    *)
(* Lookups run one at a time on a worker thread, oldest first; each file   *)
(* it writes is a step, and the app may be killed between two.  The        *)
(* movies, theaters and bookmarks are under the provider's dataGate, which *)
(* the worker holds while it replaces them.                                *)
(***************************************************************************)
EXTENDS Naturals, Sequences, FiniteSets, SequencesExt

CONSTANTS
    Dates, Today,   \* days, and the one of the first start
    Titles,
    None,           \* no listing, nothing cached
    MaxActs         \* bound: dates, addresses and bookmarks that the user sets,
                    \* lookups asked for otherwise, midnights and kills

ASSUME ListingsAssumption ==
    /\ Dates \subseteq Nat /\ Today \in Dates
    /\ None \notin Dates
    /\ MaxActs \in Nat

VARIABLES
    searchDate,     \* the date of Model, in the user defaults
    today, started, \* the day it is, and the one on which the app was started
    enabled,        \* dataProviderEnabled: there is a user address
    marker,         \* lastLookupDateFile: "none", "fresh", or "old"
    directory,      \* the performances directory: a listing, and the dates of
                    \* the showtimes that it has of theaters not in it
    theaters,       \* the theaters and their file
    movies,         \* the movies and their file: a listing and its titles
    cached,         \* performancesData: what was read since it was reset, if anything
    titles,         \* the titles of BookmarkCache
    bookmarks,      \* bookmarksData: the bookmarked movies
    savedBookmarks, \* the movies that it has saved
    bookmarking,    \* where the main thread is in addBookmark or removeBookmark
    requests,       \* the lookups waiting in the OperationQueue
    lookup,         \* the one that runs, as a sequence of length at most one
    updateId,       \* of AbstractDetailsViewController
    modal,          \* whether it shows its "updating" view
    failed,         \* history: the last lookup asked for failed, or was killed
                    \* while a fresh marker vouched for an earlier one
    crossed,        \* history: an update that the user had left set the date
    passed,         \* history: the date set itself to the one of the app's
                    \* start, or midnight came with lookups under way, and no
                    \* lookup for the date was made since
    raced,          \* history: a bookmark changed while a lookup replaced them
    cut,            \* history: the app was killed between the two caches of a
                    \* bookmark, or between the movies and the bookmarks of a
                    \* lookup
    left            \* how many acts are left

settings == <<searchDate, today, started, enabled>>
files == <<marker, directory, theaters, movies, savedBookmarks, titles>>
screen == <<updateId, modal>>
excuses == <<failed, crossed, passed>>
vars == <<settings, files, cached, bookmarks, bookmarking, requests, lookup,
          screen, excuses, raced, cut, left>>

Listings == Dates \cup {None}
Directories == [listing : Listings, old : SUBSET Dates]
Requests == [date : Dates, force : BOOLEAN, details : BOOLEAN, id : Nat, known : BOOLEAN]
Steps == {"start", "lookup", "report", "date", "trash", "move", "read", "match",
          "movies", "theaters", "bookmarks", "reset", "marker"}

(* Every variable has its type; at most one lookup runs (the runGate of     *)
(* update:delegate:context:force:).                                         *)
TypeOK ==
    /\ {searchDate, today, started} \subseteq Dates /\ started <= today
    /\ marker \in {"none", "fresh", "old"}
    /\ {theaters, movies.listing} \subseteq Listings
    /\ {directory} \cup cached \subseteq Directories
    /\ {titles, bookmarks, savedBookmarks, movies.titles} \subseteq SUBSET Titles
    /\ bookmarking.at \in {"no", "copy", "set", "save"}
    /\ \A i \in DOMAIN requests : requests[i] \in Requests
    /\ Len(lookup) <= 1
    /\ \A l \in Range(lookup) :
          /\ l.at \in Steps /\ l.request \in Requests
          /\ {l.titles, l.bookmarks} \subseteq SUBSET Titles /\ l.old \subseteq Dates
    /\ {enabled, modal, failed, crossed, passed, raced, cut} \subseteq BOOLEAN

(* A request has the theaters known when it was made. *)
Request(d, force, details, id) ==
    [date |-> d, force |-> force, details |-> details, id |-> id,
     known |-> theaters # None]
NoPerformances == [listing |-> None, old |-> {}]
NotBookmarking == [at |-> "no", title |-> None, value |-> {}]

(* The app starts without listings, and with an address or without; other  *)
(* caches may have bookmarks.                                               *)
Init ==
    /\ searchDate = Today /\ today = Today /\ started = Today
    /\ enabled \in BOOLEAN
    /\ marker = "none"
    /\ directory = NoPerformances /\ theaters = None /\ cached = {}
    /\ movies = [listing |-> None, titles |-> {}]
    /\ titles \in SUBSET Titles
    /\ bookmarks = {} /\ savedBookmarks = {}
    /\ bookmarking = NotBookmarking
    /\ requests = <<Request(Today, FALSE, FALSE, 0)>>
    /\ lookup = <<>>
    /\ updateId = 0 /\ modal = FALSE
    /\ failed = FALSE /\ crossed = FALSE /\ passed = FALSE /\ raced = FALSE /\ cut = FALSE
    /\ left = MaxActs

-----------------------------------------------------------------------------
(* The date *)

At(step) == lookup # <<>> /\ lookup[1].at = step

OneAct == left > 0 /\ left' = left - 1

(* Whoever reads the date when it is past sets it to DateUtilities.today,  *)
(* which is the day on which the app was started; no lookup is asked for.   *)
(* The date of a day is a time of that day.                                 *)
ReadSearchDate ==
    /\ searchDate <= today /\ searchDate # started
    /\ searchDate' = started
    /\ passed' = TRUE
    /\ UNCHANGED <<today, started, enabled, files, cached, bookmarks, bookmarking,
                   requests, lookup, screen, failed, crossed, left>>

(* What follows has read the date. *)
DateRead == searchDate < today => searchDate = started

UnderWay == lookup # <<>> \/ requests # <<>>

(* Midnight: the last lookup was not on the same day. *)
DayPasses ==
    /\ OneAct /\ today + 1 \in Dates
    /\ today' = today + 1
    /\ marker' = IF marker = "fresh" THEN "old" ELSE marker
    /\ passed' = (passed \/ UnderWay)
    /\ UNCHANGED <<searchDate, started, enabled, directory, theaters, movies,
                   savedBookmarks, titles, cached, bookmarks, bookmarking, requests,
                   lookup, screen, failed, crossed>>

(* What a date that was picked is as soon as it is read: one of today is    *)
(* past already.                                                            *)
Picked(d) == IF d = today THEN started ELSE d

-----------------------------------------------------------------------------
(* The user picks a date, or asks for a lookup *)

AtRest == DateRead /\ ~modal /\ bookmarking.at = "no"

(* A lookup is asked for that must run. *)
AskedFor == failed' = FALSE /\ crossed' = FALSE /\ passed' = FALSE


(* Controller.setSearchDate, from the settings: the date, markOutOfDate,    *)
(* and a forced lookup for the date as it is read again.                    *)
SetSearchDate(d) ==
    /\ OneAct /\ AtRest
    /\ d >= today /\ d # searchDate
    /\ searchDate' = Picked(d)
    /\ marker' = "none"
    /\ requests' = Append(requests, Request(Picked(d), TRUE, FALSE, 0))
    /\ AskedFor
    /\ UNCHANGED <<today, started, enabled, directory, theaters, movies, savedBookmarks,
                   titles, cached, bookmarks, bookmarking, lookup, screen>>

(* Controller.setUserAddress: markOutOfDate, and a forced lookup once the   *)
(* location of the address is known.  Without an address there is none.     *)
SetUserAddress(address) ==
    /\ OneAct /\ AtRest
    /\ enabled \/ address
    /\ enabled' = address
    /\ marker' = "none"
    /\ requests' = Append(requests, Request(searchDate, TRUE, FALSE, 0))
    /\ AskedFor
    /\ UNCHANGED <<searchDate, today, started, directory, theaters, movies,
                   savedBookmarks, titles, cached, bookmarks, bookmarking, lookup, screen>>

(* AbstractDetailsViewController: the date is set when the listing is here. *)
OnSearchDateChanged(d) ==
    /\ OneAct /\ AtRest
    /\ d >= today /\ d # searchDate
    /\ modal' = TRUE
    /\ updateId' = updateId + 1
    /\ requests' = Append(requests, Request(d, TRUE, TRUE, updateId + 1))
    /\ UNCHANGED <<settings, files, cached, bookmarks, bookmarking, lookup, excuses>>

OnCancelTapped ==
    /\ modal
    /\ modal' = FALSE
    /\ updateId' = updateId + 1
    /\ UNCHANGED <<settings, files, cached, bookmarks, bookmarking, requests, lookup,
                   excuses, left>>

(* spawnDataProviderLookupThread, when the app starts or becomes active *)
Refresh ==
    /\ OneAct /\ DateRead
    /\ requests' = Append(requests, Request(searchDate, FALSE, FALSE, 0))
    /\ passed' = (passed /\ (UnderWay \/ marker = "fresh"))
    /\ UNCHANGED <<settings, files, cached, bookmarks, bookmarking, lookup, screen,
                   failed, crossed>>

(* Two hours pass; the lookups asked for before have ended by then. *)
Age ==
    /\ marker = "fresh"
    /\ requests = <<>> /\ lookup = <<>>
    /\ marker' = "old"
    /\ UNCHANGED <<settings, directory, theaters, movies, savedBookmarks, titles,
                   cached, bookmarks, bookmarking, requests, lookup, screen, excuses, left>>

-----------------------------------------------------------------------------
(* Bookmarks and showtimes, on the main thread *)

(* dataGate: the worker holds it from the movies to the reset. *)
GateFree == ~(At("theaters") \/ At("bookmarks") \/ At("reset"))

(* BookmarkCache saves its titles, ... *)
ToggleBookmark(t) ==
    /\ OneAct /\ ~modal /\ bookmarking.at = "no"
    /\ titles' = IF t \in titles THEN titles \ {t} ELSE titles \cup {t}
    /\ bookmarking' = [at |-> "copy", title |-> t, value |-> {}]
    /\ UNCHANGED <<settings, marker, directory, theaters, movies, savedBookmarks,
                   cached, bookmarks, requests, lookup, screen, excuses>>

(* ... the data provider copies its bookmarks and changes the copy (a title *)
(* that is none of its movies is not for it), ...                           *)
CopyBookmarks ==
    /\ bookmarking.at = "copy" /\ GateFree
    /\ LET t == bookmarking.title
       IN  bookmarking' =
             CASE t \notin titles ->
                    [at |-> "set", title |-> t, value |-> bookmarks \ {t}]
               [] t \in titles /\ t \in movies.titles ->
                    [at |-> "set", title |-> t, value |-> bookmarks \cup {t}]
               [] OTHER -> NotBookmarking
    /\ UNCHANGED <<settings, files, cached, bookmarks, requests, lookup, screen,
                   excuses, left>>

(* ... sets the value under the gate, ... *)
SetBookmarks ==
    /\ bookmarking.at = "set" /\ GateFree
    /\ bookmarks' = bookmarking.value
    /\ bookmarking' = [bookmarking EXCEPT !.at = "save"]
    /\ UNCHANGED <<settings, files, cached, requests, lookup, screen, excuses, left>>

(* ... and saves it outside of the gate. *)
SaveBookmarks ==
    /\ bookmarking.at = "save"
    /\ savedBookmarks' = bookmarking.value
    /\ bookmarking' = NotBookmarking
    /\ UNCHANGED <<settings, marker, directory, theaters, movies, titles, cached,
                   bookmarks, requests, lookup, screen, excuses, left>>

(* moviePerformances, for the theaters there are: from the directory when   *)
(* they are not cached; a file that is missing is cached as an empty one.   *)
ReadPerformances ==
    /\ bookmarking.at = "no" /\ GateFree
    /\ theaters # None /\ cached = {}
    /\ cached' = {directory}
    /\ UNCHANGED <<settings, files, bookmarks, bookmarking, requests, lookup, screen,
                   excuses, left>>

-----------------------------------------------------------------------------
(* The worker *)

GoTo(step) == lookup' = <<[lookup[1] EXCEPT !.at = step]>>
Finish == lookup' = <<>>

request == lookup[1].request
TooSoon == marker = "fresh"
NewLookup == [at |-> "start", request |-> Head(requests), titles |-> {}, old |-> {},
              bookmarks |-> {}]

(* Mutation of Start: without the runGate. *)
StartAnother ==
    /\ requests # <<>>
    /\ requests' = Tail(requests)
    /\ lookup' = Append(lookup, NewLookup)
    /\ UNCHANGED <<settings, files, cached, bookmarks, bookmarking, screen, excuses, left>>

(* Under the runGate, one at a time *)
Start ==
    /\ lookup = <<>> /\ requests # <<>>
    /\ requests' = Tail(requests)
    /\ lookup' = <<NewLookup>>
    /\ UNCHANGED <<settings, files, cached, bookmarks, bookmarking, screen, excuses, left>>

(* updateBackgroundEntryPoint: not without an address, nor when the last    *)
(* lookup is recent; nobody is told then.                                   *)
CheckTooSoon ==
    /\ At("start")
    /\ IF enabled /\ (request.force \/ ~TooSoon) THEN GoTo("lookup") ELSE Finish
    /\ UNCHANGED <<settings, files, cached, bookmarks, bookmarking, requests, screen,
                   excuses, left>>

(* What is found, favourite theaters included, and addMissingTheaters:      *)
(* theaters known when the lookup was asked for that are not in it keep     *)
(* the showtimes that the directory has, for whatever date, with movies.    *)
Held == ({directory.listing} \cup directory.old) \ {None}

LookupLocation ==
    /\ At("lookup")
    /\ \E ts \in SUBSET Titles \ {{}}, old \in SUBSET Held :
          /\ old # {} => request.known
          /\ lookup' = <<[lookup[1] EXCEPT !.at = "report", !.titles = ts,
                                           !.old = old \ {request.date}]>>
    /\ UNCHANGED <<settings, files, cached, bookmarks, bookmarking, requests, screen,
                   excuses, left>>

(* onDataProviderUpdateFailure: no location, or nothing found.  A failed    *)
(* update of the details screen leaves date and listing as they were.       *)
LookupFails ==
    /\ At("lookup")
    /\ Finish
    /\ IF request.details
       THEN modal' = (modal /\ updateId # request.id) /\ UNCHANGED failed
       ELSE failed' = TRUE /\ UNCHANGED modal
    /\ UNCHANGED <<settings, files, cached, bookmarks, bookmarking, requests, updateId,
                   crossed, passed, left>>

(* onDataProviderUpdateSuccess: the details screen tests that it was not    *)
(* cancelled, ...                                                           *)
OnSuccess ==
    /\ At("report")
    /\ CASE ~request.details -> GoTo("trash")
         [] request.details /\ request.id = updateId -> GoTo("date")
         [] OTHER -> Finish
    /\ UNCHANGED <<settings, files, cached, bookmarks, bookmarking, requests, screen,
                   excuses, left>>

(* ... and sets the date; the Controller has set it already. *)
SetModelDate ==
    /\ At("date")
    /\ searchDate' = request.date
    /\ crossed' = ~(modal /\ request.id = updateId)
    /\ failed' = FALSE /\ passed' = FALSE
    /\ GoTo("trash")
    /\ UNCHANGED <<today, started, enabled, files, cached, bookmarks, bookmarking,
                   requests, screen, left>>

(* saveResult: the old directory goes, ... *)
TrashPerformances ==
    /\ At("trash")
    /\ directory' = NoPerformances
    /\ GoTo("move")
    /\ UNCHANGED <<settings, marker, theaters, movies, savedBookmarks, titles, cached,
                   bookmarks, bookmarking, requests, screen, excuses, left>>

(* ... the new one comes, ... *)
MovePerformances ==
    /\ At("move")
    /\ directory' = [listing |-> request.date, old |-> lookup[1].old]
    /\ GoTo("read")
    /\ UNCHANGED <<settings, marker, theaters, movies, savedBookmarks, titles, cached,
                   bookmarks, bookmarking, requests, screen, excuses, left>>

(* ... the movies bookmarked before join the ones found, ... *)
AddBookmarkedMovies ==
    /\ At("read")
    /\ lookup' = <<[lookup[1] EXCEPT !.at = "match", !.titles = @ \cup bookmarks]>>
    /\ UNCHANGED <<settings, files, cached, bookmarks, bookmarking, requests, screen,
                   excuses, left>>

(* Mutation of MatchBookmarks: only what is bookmarked already is kept. *)
MatchBookmarksKept ==
    /\ At("match")
    /\ lookup' = <<[lookup[1] EXCEPT !.at = "movies", !.bookmarks = bookmarks]>>
    /\ UNCHANGED <<settings, files, cached, bookmarks, bookmarking, requests, screen,
                   excuses, left>>

(* ... and the ones found are matched with the bookmarked titles. *)
MatchBookmarks ==
    /\ At("match")
    /\ lookup' = <<[lookup[1] EXCEPT
                      !.at = "movies",
                      !.bookmarks = bookmarks \cup (lookup[1].titles \cap titles)]>>
    /\ UNCHANGED <<settings, files, cached, bookmarks, bookmarking, requests, screen,
                   excuses, left>>

(* Under the gate: the movies, ... *)
SetMovies ==
    /\ At("movies")
    /\ movies' = [listing |-> request.date, titles |-> lookup[1].titles]
    /\ GoTo("theaters")
    /\ UNCHANGED <<settings, marker, directory, theaters, savedBookmarks, titles, cached,
                   bookmarks, bookmarking, requests, screen, excuses, left>>

(* ... the theaters, ... *)
SetTheaters ==
    /\ At("theaters")
    /\ theaters' = request.date
    /\ GoTo("bookmarks")
    /\ UNCHANGED <<settings, marker, directory, movies, savedBookmarks, titles, cached,
                   bookmarks, bookmarking, requests, screen, excuses, left>>

(* ... the bookmarks, saved before the gate is let go, ... *)
ReplaceBookmarks ==
    /\ At("bookmarks")
    /\ bookmarks' = lookup[1].bookmarks
    /\ savedBookmarks' = lookup[1].bookmarks
    /\ GoTo("reset")
    /\ UNCHANGED <<settings, marker, directory, theaters, movies, titles, cached,
                   bookmarking, requests, screen, excuses, left>>

(* Mutation of ResetPerformances: what is cached is kept. *)
ResetPerformancesNot ==
    /\ At("reset")
    /\ GoTo("marker")
    /\ UNCHANGED <<settings, files, cached, bookmarks, bookmarking, requests, screen,
                   excuses, left>>

(* ... and the cached performances go. *)
ResetPerformances ==
    /\ At("reset")
    /\ cached' = {}
    /\ GoTo("marker")
    /\ UNCHANGED <<settings, files, bookmarks, bookmarking, requests, screen, excuses, left>>

(* "Do this last.  It signifies that we are done" *)
SetLastLookupDate ==
    /\ At("marker")
    /\ marker' = "fresh"
    /\ Finish
    /\ failed' = (failed /\ request.date # searchDate)
    /\ passed' = (passed /\ ~(request.date = searchDate /\ requests = <<>>))
    /\ modal' = (modal /\ ~request.details)
    /\ UNCHANGED <<settings, directory, theaters, movies, savedBookmarks, titles, cached,
                   bookmarks, bookmarking, requests, updateId, crossed, left>>

WorkerStep ==
    \/ Start \/ CheckTooSoon \/ LookupLocation \/ LookupFails \/ OnSuccess \/ SetModelDate
    \/ TrashPerformances \/ MovePerformances \/ AddBookmarkedMovies \/ MatchBookmarks
    \/ SetMovies \/ SetTheaters \/ ReplaceBookmarks \/ ResetPerformances
    \/ SetLastLookupDate

BookmarkStep == CopyBookmarks \/ SetBookmarks \/ SaveBookmarks

-----------------------------------------------------------------------------
(* Between its first look at the bookmarks and their replacement *)
Replacing == At("match") \/ At("movies") \/ At("theaters") \/ At("bookmarks")
Bookmarking == bookmarking.at # "no"

(* Between its movies and its bookmarks *)
MoviesReplaced == At("theaters") \/ At("bookmarks")

(* The app is killed and started again: what is not in a file is gone, and  *)
(* a lookup is asked for, for the date as it is read.                       *)
Kill ==
    /\ OneAct
    /\ started' = today
    /\ searchDate' = IF searchDate < today THEN today ELSE searchDate
    /\ passed' = ((passed \/ searchDate' # searchDate) /\ marker = "fresh")
    /\ cached' = {}
    /\ bookmarks' = savedBookmarks
    /\ bookmarking' = NotBookmarking
    /\ requests' = <<Request(searchDate', FALSE, FALSE, 0)>>
    /\ lookup' = <<>>
    /\ updateId' = 0 /\ modal' = FALSE
    /\ failed' = (failed \/ (marker = "fresh" /\ UnderWay))
    /\ cut' = (cut \/ MoviesReplaced \/ Bookmarking)
    /\ UNCHANGED <<today, enabled, files, crossed, raced>>

UserStep ==
    \/ \E d \in Dates : SetSearchDate(d) \/ OnSearchDateChanged(d)
    \/ \E address \in BOOLEAN : SetUserAddress(address)
    \/ OnCancelTapped \/ Refresh \/ ReadSearchDate
    \/ \E t \in Titles : ToggleBookmark(t)
    \/ ReadPerformances

(* The history of what overlaps: the main thread and the worker at the      *)
(* bookmarks.  (That of kills is in Kill.)                                  *)
Watch ==
    /\ raced' = (raced \/ (Replacing' /\ Bookmarking'))
    /\ UNCHANGED cut

Next ==
    \/ (UserStep \/ BookmarkStep \/ WorkerStep \/ Age \/ DayPasses) /\ Watch
    \/ Kill

(* The worker and the main thread go on; a lookup ends. *)
Fairness == WF_vars(WorkerStep /\ Watch) /\ WF_vars(BookmarkStep /\ Watch)

Spec == Init /\ [][Next]_vars /\ Fairness

-----------------------------------------------------------------------------
(* All the files are those of a lookup for the date: its movies, its        *)
(* theaters and their showtimes.  Theaters that the lookup did not find,    *)
(* and that are shown as well, may have showtimes of other dates.           *)
Listed(d) == directory.listing = d /\ theaters = d /\ movies.listing = d


(* While nobody is at them, the bookmarked movies are the ones saved        *)
(* (saveResult, ThreadsafeValue.setValue), unless the user changed a        *)
(* bookmark while a lookup replaced them; and they are those of the data    *)
(* provider's movies whose titles are bookmarked (addBookmark,              *)
(* removeBookmark, saveResult), unless moreover the app was killed between  *)
(* the two caches of a bookmark that changed, or between the movies and the *)
(* bookmarks of a lookup.                                                   *)
BookmarksAgree ==
    ~Replacing /\ ~Bookmarking /\ ~raced =>
        /\ savedBookmarks = bookmarks
        /\ \/ cut
           \/ /\ bookmarks \subseteq titles
              /\ titles \cap movies.titles \subseteq bookmarks

(* Once a lookup has replaced the listing, the showtimes in memory are      *)
(* those of the directory (saveResult resets them under dataGate after the  *)
(* directory is moved, and moviePerformances fills them under it).          *)
PerformancesFresh ==
    ~Replacing /\ ~At("move") /\ ~At("read") /\ ~At("reset") => cached \subseteq {directory}
=============================================================================
