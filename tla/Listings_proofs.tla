--------------------------- MODULE Listings_proofs ---------------------------
(***************************************************************************)
(* The listings for any days and titles, and any number of lookups,        *)
(* bookmarks and kills: the showtimes in memory are those of the directory *)
(* once a lookup has replaced it, and the bookmarked movies, the titles of *)
(* BookmarkCache and the movies of the data provider agree.                *)
(*                                                                         *)
(* Both follow from what holds at each place of a lookup and of the main   *)
(* thread's addBookmark: what the worker has read, what the main thread    *)
(* has copied, and what may have changed since.                            *)
(***************************************************************************)
EXTENDS Listings, SequenceTheorems, TLAPS

Lookups == [at : Steps, request : Requests, titles : SUBSET Titles,
            old : SUBSET Dates, bookmarks : SUBSET Titles]

(* The variables of the files, of the main thread and of the worker. *)
FilesTyped ==
    /\ marker \in {"none", "fresh", "old"}
    /\ directory \in Directories
    /\ theaters \in Listings
    /\ movies \in [listing : Listings, titles : SUBSET Titles]
    /\ titles \in SUBSET Titles
    /\ savedBookmarks \in SUBSET Titles

MainThreadTyped ==
    /\ searchDate \in Dates /\ today \in Dates /\ started \in Dates /\ started <= today
    /\ enabled \in BOOLEAN
    /\ cached \subseteq Directories
    /\ bookmarks \in SUBSET Titles
    /\ bookmarking \in [at : {"no", "copy", "set", "save"}, title : Titles \cup {None},
                        value : SUBSET Titles]
    /\ updateId \in Nat
    /\ modal \in BOOLEAN
    /\ left \in Nat

WorkerTyped ==
    /\ requests \in Seq(Requests)
    /\ \/ lookup = <<>>
       \/ \E l \in Lookups : lookup = <<l>>

HistoryTyped ==
    /\ failed \in BOOLEAN /\ crossed \in BOOLEAN /\ passed \in BOOLEAN
    /\ raced \in BOOLEAN /\ cut \in BOOLEAN

Typed == FilesTyped /\ MainThreadTyped /\ WorkerTyped /\ HistoryTyped

-----------------------------------------------------------------------------
(* Lemmas about the worker's lookup and the bounds *)

LEMMA LookupRuns ==
    ASSUME WorkerTyped, lookup # <<>>
    PROVE  lookup[1] \in Lookups /\ lookup = <<lookup[1]>> /\ request \in Requests
<1>1. PICK l \in Lookups : lookup = <<l>>
  BY DEF WorkerTyped
<1>2. QED
  BY <1>1 DEF Lookups, request

LEMMA GoToMoves ==
    ASSUME WorkerTyped, lookup # <<>>, NEW step \in Steps, GoTo(step)
    PROVE  /\ \E l \in Lookups : lookup' = <<l>>
           /\ lookup'[1] = [lookup[1] EXCEPT !.at = step]
           /\ lookup'[1].at = step
           /\ lookup'[1].titles = lookup[1].titles
           /\ lookup'[1].bookmarks = lookup[1].bookmarks
<1> DEFINE l == [lookup[1] EXCEPT !.at = step]
<1>1. lookup[1] \in Lookups
  BY LookupRuns
<1>2. /\ l \in Lookups /\ l.at = step /\ l.titles = lookup[1].titles
      /\ l.bookmarks = lookup[1].bookmarks
  BY <1>1 DEF Lookups
<1>3. lookup' = <<l>> /\ lookup'[1] = l
  BY DEF GoTo
<1>4. QED
  <2> HIDE DEF l
  <2>1. l \in Lookups /\ lookup' = <<l>>
    BY <1>2, <1>3
  <2>2. QED
    BY <2>1, <1>2, <1>3 DEF l

LEMMA LeftKeepsType ==
    ASSUME MainThreadTyped, OneAct
    PROVE  left' \in Nat
BY DEF MainThreadTyped, OneAct

LEMMA OneIsSequence ==
    ASSUME NEW S, NEW e \in S
    PROVE  <<e>> \in Seq(S)
OBVIOUS

LEMMA AskKeepsType ==
    ASSUME WorkerTyped, NEW d \in Dates, NEW force \in BOOLEAN, NEW details \in BOOLEAN,
           NEW id \in Nat
    PROVE  Append(requests, Request(d, force, details, id)) \in Seq(Requests)
<1>1. Request(d, force, details, id) \in Requests
  BY DEF Request, Requests
<1>2. QED
  BY <1>1, AppendProperties DEF WorkerTyped

-----------------------------------------------------------------------------
(* Types *)

LEMMA InitIsTyped == Init => Typed
<1> SUFFICES ASSUME Init PROVE Typed
  OBVIOUS
<1> USE DEF Init
<1>1. FilesTyped
  BY DEF FilesTyped, Listings, Directories, NoPerformances
<1>2. MainThreadTyped
  <2>1. bookmarking \in [at : {"no", "copy", "set", "save"}, title : Titles \cup {None},
                         value : SUBSET Titles]
    BY DEF NotBookmarking
  <2>2. left \in Nat /\ started <= today
    BY ListingsAssumption DEF ListingsAssumption
  <2>3. QED
    BY <2>1, <2>2, ListingsAssumption DEF ListingsAssumption, MainThreadTyped
<1>3. WorkerTyped
  <2>1. Request(Today, FALSE, FALSE, 0) \in Requests
    BY ListingsAssumption DEF ListingsAssumption, Request, Requests
  <2>2. requests \in Seq(Requests)
    <3>1. requests = <<Request(Today, FALSE, FALSE, 0)>>
      OBVIOUS
    <3>2. QED
      BY <2>1, <3>1, OneIsSequence
  <2>3. QED
    BY <2>2 DEF WorkerTyped
<1>4. QED
  BY <1>1, <1>2, <1>3 DEF Typed, HistoryTyped

HistoryOfOverlapsTyped == raced \in BOOLEAN /\ cut \in BOOLEAN

LEMMA WatchIsTyped ==
    ASSUME Typed, Watch PROVE HistoryOfOverlapsTyped'
BY DEF Watch, Typed, HistoryTyped, HistoryOfOverlapsTyped

LEMMA UserStepKeepsTypes ==
    ASSUME Typed, UserStep, HistoryOfOverlapsTyped' PROVE Typed'
<1> USE DEF Typed, HistoryTyped, HistoryOfOverlapsTyped, settings, files, screen, excuses
<1>1. ASSUME NEW d \in Dates, SetSearchDate(d) PROVE Typed'
  <2>1. Picked(d) \in Dates
    BY DEF Picked, MainThreadTyped
  <2>2. requests' \in Seq(Requests)
    BY <1>1, <2>1, AskKeepsType DEF SetSearchDate
  <2>3. left' \in Nat
    BY <1>1, LeftKeepsType DEF SetSearchDate
  <2>4. QED
    BY <1>1, <2>1, <2>2, <2>3
       DEF SetSearchDate, AskedFor, FilesTyped, MainThreadTyped, WorkerTyped
<1>2. ASSUME NEW d \in Dates, OnSearchDateChanged(d) PROVE Typed'
  <2>1. updateId + 1 \in Nat
    BY DEF MainThreadTyped
  <2>2. requests' \in Seq(Requests)
    BY <1>2, <2>1, AskKeepsType DEF OnSearchDateChanged
  <2>3. left' \in Nat
    BY <1>2, LeftKeepsType DEF OnSearchDateChanged
  <2>4. QED
    BY <1>2, <2>1, <2>2, <2>3
       DEF OnSearchDateChanged, FilesTyped, MainThreadTyped, WorkerTyped
<1>3. CASE OnCancelTapped
  <2>1. MainThreadTyped'
    <3>1. modal' \in BOOLEAN
      BY <1>3 DEF OnCancelTapped
    <3>2. updateId' \in Nat
      BY <1>3 DEF OnCancelTapped, MainThreadTyped
    <3>3. UNCHANGED <<searchDate, today, started, enabled, cached, bookmarks, bookmarking,
                      left>>
      BY <1>3 DEF OnCancelTapped
    <3>4. QED
      BY <3>1, <3>2, <3>3 DEF MainThreadTyped
  <2>2. FilesTyped' /\ HistoryTyped'
    BY <1>3 DEF OnCancelTapped, FilesTyped
  <2>3. QED
    BY <1>3, <2>1, <2>2 DEF OnCancelTapped, WorkerTyped
<1>4. CASE Refresh
  <2>1. requests' \in Seq(Requests)
    BY <1>4, AskKeepsType DEF Refresh, MainThreadTyped
  <2>2. left' \in Nat
    BY <1>4, LeftKeepsType DEF Refresh
  <2>3. passed' \in BOOLEAN
    BY <1>4 DEF Refresh
  <2>4. QED
    BY <1>4, <2>1, <2>2, <2>3 DEF Refresh, FilesTyped, MainThreadTyped, WorkerTyped
<1>5. ASSUME NEW t \in Titles, ToggleBookmark(t) PROVE Typed'
  <2>1. left' \in Nat
    BY <1>5, LeftKeepsType DEF ToggleBookmark
  <2>2. titles' \in SUBSET Titles
    BY <1>5 DEF ToggleBookmark, FilesTyped
  <2>3. QED
    BY <1>5, <2>1, <2>2 DEF ToggleBookmark, FilesTyped, MainThreadTyped, WorkerTyped
<1>6. CASE ReadPerformances
  BY <1>6 DEF ReadPerformances, FilesTyped, MainThreadTyped, WorkerTyped
<1>7. CASE ReadSearchDate
  <2>1. searchDate' \in Dates
    BY <1>7 DEF ReadSearchDate, MainThreadTyped
  <2>2. QED
    BY <1>7, <2>1 DEF ReadSearchDate, FilesTyped, MainThreadTyped, WorkerTyped
<1>8. ASSUME NEW address \in BOOLEAN, SetUserAddress(address) PROVE Typed'
  <2>1. requests' \in Seq(Requests)
    BY <1>8, AskKeepsType DEF SetUserAddress, MainThreadTyped
  <2>2. left' \in Nat
    BY <1>8, LeftKeepsType DEF SetUserAddress
  <2>3. QED
    BY <1>8, <2>1, <2>2
       DEF SetUserAddress, AskedFor, FilesTyped, MainThreadTyped, WorkerTyped
<1>9. QED
  BY <1>1, <1>2, <1>3, <1>4, <1>5, <1>6, <1>7, <1>8 DEF UserStep

LEMMA DayPassesKeepsTypes ==
    ASSUME Typed, DayPasses, HistoryOfOverlapsTyped' PROVE Typed'
<1> USE DEF Typed, HistoryTyped, HistoryOfOverlapsTyped, DayPasses, screen
<1>1. left' \in Nat
  BY LeftKeepsType
<1>2. passed' \in BOOLEAN
  OBVIOUS
<1>3. today' \in Dates /\ started' <= today'
  BY ListingsAssumption DEF ListingsAssumption, MainThreadTyped
<1>4. QED
  BY <1>1, <1>2, <1>3 DEF FilesTyped, MainThreadTyped, WorkerTyped

LEMMA BookmarkStepKeepsTypes ==
    ASSUME Typed, BookmarkStep, HistoryOfOverlapsTyped' PROVE Typed'
<1> USE DEF Typed, HistoryTyped, HistoryOfOverlapsTyped, settings, files, screen, excuses,
            NotBookmarking
<1>1. CASE CopyBookmarks
  <2>1. bookmarking'.at \in {"no", "set"} /\
        bookmarking' \in [at : {"no", "copy", "set", "save"}, title : Titles \cup {None},
                          value : SUBSET Titles]
    BY <1>1 DEF CopyBookmarks, FilesTyped, MainThreadTyped
  <2>2. QED
    BY <1>1, <2>1 DEF CopyBookmarks, FilesTyped, MainThreadTyped, WorkerTyped
<1>2. CASE SetBookmarks
  BY <1>2 DEF SetBookmarks, FilesTyped, MainThreadTyped, WorkerTyped
<1>3. CASE SaveBookmarks
  BY <1>3 DEF SaveBookmarks, FilesTyped, MainThreadTyped, WorkerTyped
<1>4. QED
  BY <1>1, <1>2, <1>3 DEF BookmarkStep

LEMMA WorkerStepKeepsTypes ==
    ASSUME Typed, WorkerStep, HistoryOfOverlapsTyped' PROVE Typed'
<1> USE DEF Typed, HistoryTyped, HistoryOfOverlapsTyped, settings, files, screen, excuses,
            At
<1>1. lookup # <<>> =>
         /\ lookup[1] \in Lookups /\ request \in Requests /\ request.date \in Dates
         /\ request.date \in Listings /\ lookup[1].old \in SUBSET Dates
         /\ lookup[1].titles \in SUBSET Titles /\ lookup[1].bookmarks \in SUBSET Titles
  BY LookupRuns DEF Requests, Lookups, Listings
<1>2. CASE Start
  <2>1. Head(requests) \in Requests /\ Tail(requests) \in Seq(Requests)
    BY <1>2, HeadTailProperties DEF Start, WorkerTyped
  <2>2. NewLookup \in Lookups
    BY <2>1 DEF Lookups, Steps, NewLookup
  <2>3. WorkerTyped'
    BY <1>2, <2>1, <2>2 DEF Start, WorkerTyped
  <2>4. QED
    BY <1>2, <2>3 DEF Start, FilesTyped, MainThreadTyped
<1>3. CASE CheckTooSoon
  <2>1. WorkerTyped'
    BY <1>3, GoToMoves DEF CheckTooSoon, Steps, Finish, WorkerTyped
  <2>2. QED
    BY <1>3, <2>1 DEF CheckTooSoon, FilesTyped, MainThreadTyped
<1>4. CASE LookupLocation
  <2> DEFINE Found(ts, old) == [lookup[1] EXCEPT !.at = "report", !.titles = ts,
                                                 !.old = old \ {request.date}]
  <2>1. PICK ts \in SUBSET Titles \ {{}}, old \in SUBSET Held : lookup' = <<Found(ts, old)>>
    BY <1>4 DEF LookupLocation
  <2>2. Found(ts, old) \in Lookups
    <3>1. old \ {request.date} \in SUBSET Dates
      BY DEF Held, FilesTyped, Directories, Listings
    <3>2. QED
      BY <1>1, <1>4, <3>1 DEF LookupLocation, Lookups, Steps
  <2>3. WorkerTyped'
    BY <1>4, <2>1, <2>2 DEF LookupLocation, WorkerTyped
  <2>4. QED
    BY <1>4, <2>3 DEF LookupLocation, FilesTyped, MainThreadTyped
<1>5. CASE LookupFails
  <2>1. WorkerTyped' /\ failed' \in BOOLEAN
    BY <1>5 DEF LookupFails, Finish, WorkerTyped
  <2>2. modal' \in BOOLEAN
    BY <1>5 DEF LookupFails, MainThreadTyped
  <2>3. QED
    BY <1>5, <2>1, <2>2 DEF LookupFails, FilesTyped, MainThreadTyped
<1>6. CASE OnSuccess
  <2>1. GoTo("trash") \/ GoTo("date") \/ Finish
    BY <1>6 DEF OnSuccess
  <2>2. WorkerTyped'
    BY <1>6, <2>1, GoToMoves DEF OnSuccess, Steps, Finish, WorkerTyped
  <2>3. QED
    BY <1>6, <2>2 DEF OnSuccess, FilesTyped, MainThreadTyped
<1>7. CASE SetModelDate
  <2>1. WorkerTyped'
    BY <1>7, GoToMoves DEF SetModelDate, Steps, WorkerTyped
  <2>2. crossed' \in BOOLEAN /\ failed' \in BOOLEAN /\ passed' \in BOOLEAN
    BY <1>7 DEF SetModelDate
  <2>3. QED
    BY <1>1, <1>7, <2>1, <2>2 DEF SetModelDate, FilesTyped, MainThreadTyped
<1>8. CASE TrashPerformances
  <2>1. WorkerTyped'
    BY <1>8, GoToMoves DEF TrashPerformances, Steps, WorkerTyped
  <2>2. QED
    BY <1>8, <2>1 DEF TrashPerformances, FilesTyped, MainThreadTyped, Listings,
                      Directories, NoPerformances
<1>9. CASE MovePerformances
  <2>1. WorkerTyped'
    BY <1>9, GoToMoves DEF MovePerformances, Steps, WorkerTyped
  <2>2. QED
    BY <1>1, <1>9, <2>1 DEF MovePerformances, FilesTyped, MainThreadTyped, Directories
<1>10. CASE AddBookmarkedMovies
  <2> DEFINE l == [lookup[1] EXCEPT !.at = "match",
                                    !.titles = lookup[1].titles \cup bookmarks]
  <2>1. l \in Lookups /\ lookup' = <<l>>
    BY <1>1, <1>10 DEF AddBookmarkedMovies, MainThreadTyped, Lookups, Steps
  <2>2. WorkerTyped'
    BY <1>10, <2>1 DEF AddBookmarkedMovies, WorkerTyped
  <2>3. QED
    BY <1>10, <2>2 DEF AddBookmarkedMovies, FilesTyped, MainThreadTyped
<1>11. CASE MatchBookmarks
  <2> DEFINE l == [lookup[1] EXCEPT
                      !.at = "movies",
                      !.bookmarks = bookmarks \cup (lookup[1].titles \cap titles)]
  <2>1. l \in Lookups /\ lookup' = <<l>>
    BY <1>1, <1>11 DEF MatchBookmarks, MainThreadTyped, Lookups, Steps
  <2>2. WorkerTyped'
    BY <1>11, <2>1 DEF MatchBookmarks, WorkerTyped
  <2>3. QED
    BY <1>11, <2>2 DEF MatchBookmarks, FilesTyped, MainThreadTyped
<1>12. CASE SetMovies
  <2>1. WorkerTyped'
    BY <1>12, GoToMoves DEF SetMovies, Steps, WorkerTyped
  <2>2. QED
    BY <1>1, <1>12, <2>1 DEF SetMovies, FilesTyped, MainThreadTyped
<1>13. CASE SetTheaters
  <2>1. WorkerTyped'
    BY <1>13, GoToMoves DEF SetTheaters, Steps, WorkerTyped
  <2>2. QED
    BY <1>1, <1>13, <2>1 DEF SetTheaters, FilesTyped, MainThreadTyped
<1>14. CASE ReplaceBookmarks
  <2>1. WorkerTyped'
    BY <1>14, GoToMoves DEF ReplaceBookmarks, Steps, WorkerTyped
  <2>2. QED
    BY <1>1, <1>14, <2>1 DEF ReplaceBookmarks, FilesTyped, MainThreadTyped
<1>15. CASE ResetPerformances
  <2>1. WorkerTyped'
    BY <1>15, GoToMoves DEF ResetPerformances, Steps, WorkerTyped
  <2>2. QED
    BY <1>15, <2>1 DEF ResetPerformances, FilesTyped, MainThreadTyped
<1>16. CASE SetLastLookupDate
  <2>1. WorkerTyped' /\ failed' \in BOOLEAN /\ passed' \in BOOLEAN
    BY <1>16 DEF SetLastLookupDate, Finish, WorkerTyped
  <2>2. modal' \in BOOLEAN
    BY <1>16 DEF SetLastLookupDate, MainThreadTyped
  <2>3. QED
    BY <1>16, <2>1, <2>2 DEF SetLastLookupDate, FilesTyped, MainThreadTyped
<1>17. QED
  BY <1>2, <1>3, <1>4, <1>5, <1>6, <1>7, <1>8, <1>9, <1>10, <1>11, <1>12, <1>13, <1>14,
     <1>15, <1>16 DEF WorkerStep

LEMMA KillKeepsTypes ==
    ASSUME Typed, Kill PROVE Typed'
<1> USE DEF Typed, HistoryTyped, Kill, files, NotBookmarking
<1>1. left' \in Nat /\ searchDate' \in Dates /\ started' <= today'
  BY LeftKeepsType, ListingsAssumption DEF MainThreadTyped, ListingsAssumption
<1>2. Request(searchDate', FALSE, FALSE, 0) \in Requests
  BY <1>1 DEF Request, Requests
<1>3. WorkerTyped'
  <2>1. requests' \in Seq(Requests)
    BY <1>2, OneIsSequence
  <2>2. QED
    BY <2>1 DEF WorkerTyped
<1>4. failed' \in BOOLEAN /\ passed' \in BOOLEAN /\ cut' \in BOOLEAN
  OBVIOUS
<1>5. QED
  BY <1>1, <1>3, <1>4 DEF FilesTyped, MainThreadTyped

LEMMA NextKeepsTypes == Typed /\ [Next]_vars => Typed'
<1> SUFFICES ASSUME Typed, [Next]_vars PROVE Typed'
  OBVIOUS
<1>1. CASE UNCHANGED vars
  BY <1>1 DEF vars, settings, files, screen, excuses, Typed, FilesTyped, MainThreadTyped,
              WorkerTyped, HistoryTyped
<1>2. CASE Kill
  BY <1>2, KillKeepsTypes
<1>3. CASE (UserStep \/ BookmarkStep \/ WorkerStep \/ Age \/ DayPasses) /\ Watch
  <2>1. HistoryOfOverlapsTyped'
    BY <1>3, WatchIsTyped
  <2>2. ASSUME Age PROVE Typed'
    BY <2>1, <2>2 DEF Age, settings, screen, excuses, Typed, FilesTyped, MainThreadTyped,
                      WorkerTyped, HistoryTyped, HistoryOfOverlapsTyped
  <2>3. QED
    BY <1>3, <2>1, <2>2, UserStepKeepsTypes, BookmarkStepKeepsTypes,
       WorkerStepKeepsTypes, DayPassesKeepsTypes
<1>4. QED
  BY <1>1, <1>2, <1>3 DEF Next

LEMMA TypedHolds == Spec => []Typed
<1>1. QED
  BY InitIsTyped, NextKeepsTypes, PTL DEF Spec

-----------------------------------------------------------------------------
(* Where the worker is *)

LEMMA GoToPlace ==
    ASSUME WorkerTyped, lookup # <<>>, NEW step \in Steps, GoTo(step)
    PROVE  \A s : At(s)' <=> s = step
<1>1. lookup' # <<>>
  BY DEF GoTo
<1>2. lookup'[1].at = step
  BY GoToMoves
<1>3. QED
  BY <1>1, <1>2 DEF At

LEMMA AtOnePlace ==
    ASSUME NEW s, NEW r, At(s), At(r)
    PROVE  s = r
BY DEF At

(* Between the old directory and the reset, the showtimes in memory may be *)
(* those of the listing before.                                            *)
Changing == At("move") \/ At("read") \/ Replacing \/ At("reset")

PerformancesInv == ~Changing => cached \subseteq {directory}

LEMMA UserAndBookmarkStepsKeepPerformances ==
    ASSUME PerformancesInv, UserStep \/ BookmarkStep \/ Age \/ DayPasses
    PROVE  PerformancesInv'
<1> USE DEF files
<1>1. lookup' = lookup /\ directory' = directory
  BY DEF UserStep, SetSearchDate, SetUserAddress, OnSearchDateChanged, OnCancelTapped,
         Refresh, ReadSearchDate, ToggleBookmark, ReadPerformances, BookmarkStep,
         CopyBookmarks, SetBookmarks, SaveBookmarks, Age, DayPasses
<1>2. cached' = cached \/ cached' = {directory}
  BY DEF UserStep, SetSearchDate, SetUserAddress, OnSearchDateChanged, OnCancelTapped,
         Refresh, ReadSearchDate, ToggleBookmark, ReadPerformances, BookmarkStep,
         CopyBookmarks, SetBookmarks, SaveBookmarks, Age, DayPasses
<1>3. QED
  BY <1>1, <1>2 DEF PerformancesInv, Changing, Replacing, At

LEMMA WorkerStepKeepsPerformances ==
    ASSUME Typed, PerformancesInv, WorkerStep PROVE PerformancesInv'
<1> USE DEF Typed, files
<1>1. CASE TrashPerformances
  <2>1. At("move")'
    BY <1>1, GoToPlace DEF TrashPerformances, At, Steps
  <2>2. QED
    BY <2>1 DEF PerformancesInv, Changing
<1>2. CASE MovePerformances
  <2>1. At("read")'
    BY <1>2, GoToPlace DEF MovePerformances, At, Steps
  <2>2. QED
    BY <2>1 DEF PerformancesInv, Changing
<1>3. CASE AddBookmarkedMovies
  <2>1. lookup[1] \in Lookups
    BY <1>3, LookupRuns DEF AddBookmarkedMovies, At
  <2>2. lookup' # <<>> /\ lookup'[1].at = "match"
    BY <1>3, <2>1 DEF AddBookmarkedMovies, Lookups
  <2>3. QED
    BY <2>2 DEF PerformancesInv, Changing, Replacing, At
<1>4. CASE MatchBookmarks
  <2>1. lookup[1] \in Lookups
    BY <1>4, LookupRuns DEF MatchBookmarks, At
  <2>2. lookup' # <<>> /\ lookup'[1].at = "movies"
    BY <1>4, <2>1 DEF MatchBookmarks, Lookups
  <2>3. QED
    BY <2>2 DEF PerformancesInv, Changing, Replacing, At
<1>5. CASE SetMovies \/ SetTheaters \/ ReplaceBookmarks
  <2>1. GoTo("theaters") \/ GoTo("bookmarks") \/ GoTo("reset")
    BY <1>5 DEF SetMovies, SetTheaters, ReplaceBookmarks
  <2>2. At("theaters")' \/ At("bookmarks")' \/ At("reset")'
    BY <1>5, <2>1, GoToPlace DEF SetMovies, SetTheaters, ReplaceBookmarks, At, Steps
  <2>3. QED
    BY <2>2 DEF PerformancesInv, Changing, Replacing
<1>6. CASE ResetPerformances
  BY <1>6 DEF ResetPerformances, PerformancesInv
<1>7. CASE Start \/ CheckTooSoon \/ LookupLocation \/ LookupFails \/ OnSuccess
           \/ SetModelDate \/ SetLastLookupDate
  <2>1. cached' = cached /\ directory' = directory
    BY <1>7 DEF Start, CheckTooSoon, LookupLocation, LookupFails, OnSuccess, SetModelDate,
                SetLastLookupDate
  <2>2. ~Changing
    BY <1>7 DEF Start, CheckTooSoon, LookupLocation, LookupFails, OnSuccess, SetModelDate,
                SetLastLookupDate, Changing, Replacing, At
  <2>3. QED
    BY <2>1, <2>2 DEF PerformancesInv
<1>8. QED
  BY <1>1, <1>2, <1>3, <1>4, <1>5, <1>6, <1>7 DEF WorkerStep

LEMMA NextKeepsPerformances ==
    Typed /\ PerformancesInv /\ [Next]_vars => PerformancesInv'
<1> SUFFICES ASSUME Typed, PerformancesInv, [Next]_vars PROVE PerformancesInv'
  OBVIOUS
<1>1. ASSUME Kill PROVE PerformancesInv'
  BY <1>1 DEF Kill, PerformancesInv
<1>2. ASSUME UNCHANGED vars PROVE PerformancesInv'
  BY <1>2 DEF vars, files, PerformancesInv, Changing, Replacing, At
<1>3. QED
  BY <1>1, <1>2, UserAndBookmarkStepsKeepPerformances, WorkerStepKeepsPerformances
     DEF Next

(* Whatever lookups, kills and reads overlap, the showtimes shown are those *)
(* of the listing in the directory once its lookup has reset them.          *)
THEOREM ShowtimesAreFresh == Spec => []PerformancesFresh
<1>1. Init => PerformancesInv
  BY DEF Init, PerformancesInv
<1>2. PerformancesInv => PerformancesFresh
  BY DEF PerformancesInv, PerformancesFresh, Changing
<1>3. QED
  BY <1>1, <1>2, TypedHolds, NextKeepsPerformances, PTL DEF Spec

-----------------------------------------------------------------------------
(* Bookmarks *)

(* The bookmarked movies bs are the movies whose titles are bookmarked, if *)
(* no kill came in between.                                                *)
Agree(bs) == cut \/ (bs \subseteq titles /\ titles \cap movies.titles \subseteq bs)

(* What the worker has read and what the main thread has copied, at each   *)
(* place of theirs, as long as the two have not overlapped.                *)
WorkerMatches ==
    /\ Replacing => ~Bookmarking
    /\ At("movies") => \/ cut
                       \/ /\ lookup[1].bookmarks \subseteq titles
                          /\ titles \cap lookup[1].titles \subseteq lookup[1].bookmarks
    /\ At("theaters") \/ At("bookmarks") => Agree(lookup[1].bookmarks)

MainThreadMatches ==
    /\ ~MoviesReplaced /\ ~Bookmarking => Agree(bookmarks) /\ savedBookmarks = bookmarks
    /\ bookmarking.at = "copy" =>
          /\ \/ cut
             \/ /\ bookmarks \ {bookmarking.title} \subseteq titles
                /\ (titles \ {bookmarking.title}) \cap movies.titles \subseteq bookmarks
          /\ savedBookmarks = bookmarks
    /\ bookmarking.at = "set" => Agree(bookmarking.value)
    /\ bookmarking.at = "save" => Agree(bookmarking.value) /\ bookmarks = bookmarking.value

BookmarksInv == raced \/ (WorkerMatches /\ MainThreadMatches)

LEMMA RacedStays ==
    ASSUME Watch, raced PROVE BookmarksInv'
BY DEF Watch, BookmarksInv

(* Steps elsewhere: nothing of the bookmarks changes, and the worker is not *)
(* at, and does not come to, their replacement.                             *)
LEMMA ElsewhereKeepsBookmarksInv ==
    ASSUME BookmarksInv, Watch,
           UNCHANGED <<titles, bookmarks, savedBookmarks, movies, bookmarking>>,
           lookup' = lookup \/ (~Replacing /\ ~Replacing')
    PROVE  BookmarksInv'
<1>1. CASE raced
  BY <1>1, RacedStays
<1>2. CASE ~raced
  <2>1. WorkerMatches /\ MainThreadMatches
    BY <1>2 DEF BookmarksInv
  <2>0. cut' = cut
    BY DEF Watch
  <2>2. CASE lookup' = lookup
    <3>1. WorkerMatches'
      BY <2>0, <2>1, <2>2 DEF WorkerMatches, Replacing, Bookmarking, Agree, At
    <3>2. MainThreadMatches'
      BY <2>0, <2>1, <2>2 DEF MainThreadMatches, MoviesReplaced, Bookmarking, Agree, At
    <3>3. QED
      BY <3>1, <3>2 DEF BookmarksInv
  <2>3. CASE ~Replacing /\ ~Replacing'
    <3>1. WorkerMatches'
      BY <2>3 DEF WorkerMatches, Replacing
    <3>2. MainThreadMatches'
      BY <2>0, <2>1, <2>3
         DEF MainThreadMatches, MoviesReplaced, Replacing, Bookmarking, Agree
    <3>3. QED
      BY <3>1, <3>2 DEF BookmarksInv
  <2>4. QED
    BY <2>2, <2>3
<1>3. QED
  BY <1>1, <1>2

LEMMA ToggleKeepsBookmarksInv ==
    ASSUME Typed, BookmarksInv, Watch, NEW t \in Titles, ToggleBookmark(t)
    PROVE  BookmarksInv'
<1> USE DEF ToggleBookmark
<1>1. bookmarking' = [at |-> "copy", title |-> t, value |-> {}]
  OBVIOUS
<1>2. bookmarking'.at = "copy" /\ bookmarking'.title = t /\ Bookmarking'
  BY <1>1 DEF Bookmarking
<1>3. CASE raced \/ Replacing'
  <2>1. raced'
    BY <1>2, <1>3 DEF Watch
  <2>2. QED
    BY <2>1 DEF BookmarksInv
<1>4. CASE ~raced /\ ~Replacing'
  <2>1. ~Replacing /\ ~Bookmarking
    BY <1>4 DEF Replacing, At, Bookmarking
  <2>2. Agree(bookmarks) /\ savedBookmarks = bookmarks
    BY <1>4, <2>1 DEF BookmarksInv, MainThreadMatches, MoviesReplaced, Replacing
  <2>3. WorkerMatches'
    BY <1>4 DEF WorkerMatches, Replacing
  <2>4. titles' \ {t} = titles \ {t} /\ cut' = cut
    BY DEF Watch
  <2>5. MainThreadMatches'
    BY <1>2, <2>2, <2>4 DEF MainThreadMatches, Bookmarking, Agree
  <2>6. QED
    BY <2>3, <2>5 DEF BookmarksInv
<1>5. QED
  BY <1>3, <1>4

(* The main thread's steps: while it is at them, the worker is elsewhere,  *)
(* or the two have raced.                                                  *)
LEMMA BookmarkStepKeepsBookmarksInv ==
    ASSUME Typed, BookmarksInv, Watch, BookmarkStep PROVE BookmarksInv'
<1> USE DEF files
<1>1. CASE raced
  BY <1>1, RacedStays
<1>2. CASE ~raced
  <2>1. WorkerMatches /\ MainThreadMatches
    BY <1>2 DEF BookmarksInv
  <2>2. lookup' = lookup /\ titles' = titles /\ movies' = movies /\ cut' = cut
    BY DEF BookmarkStep, CopyBookmarks, SetBookmarks, SaveBookmarks, Watch
  <2>3. ~Replacing /\ ~Replacing'
    <3>1. Bookmarking
      BY DEF BookmarkStep, CopyBookmarks, SetBookmarks, SaveBookmarks, Bookmarking
    <3>2. QED
      BY <2>1, <2>2, <3>1 DEF WorkerMatches, Replacing, At
  <2>4. WorkerMatches'
    BY <2>3 DEF WorkerMatches, Replacing
  <2>5. CASE CopyBookmarks
    <3> USE DEF CopyBookmarks
    <3>1. bookmarks' = bookmarks /\ savedBookmarks' = savedBookmarks
      BY <2>5
    <3>2. /\ \/ cut
             \/ /\ bookmarks \ {bookmarking.title} \subseteq titles
                /\ (titles \ {bookmarking.title}) \cap movies.titles \subseteq bookmarks
          /\ savedBookmarks = bookmarks
          /\ cut' = cut
      BY <2>1, <2>5 DEF MainThreadMatches, Watch
    <3>3. CASE bookmarking.title \notin titles
      <4>1. bookmarking'.at = "set" /\ bookmarking'.value = bookmarks \ {bookmarking.title}
        BY <2>5, <3>3
      <4>2. MainThreadMatches'
        BY <2>2, <3>2, <3>3, <4>1 DEF MainThreadMatches, Bookmarking, Agree
      <4>3. QED
        BY <2>4, <4>2 DEF BookmarksInv
    <3>4. CASE bookmarking.title \in titles /\ bookmarking.title \in movies.titles
      <4>1. /\ bookmarking'.at = "set"
            /\ bookmarking'.value = bookmarks \cup {bookmarking.title}
        BY <2>5, <3>4
      <4>2. MainThreadMatches'
        BY <2>2, <3>2, <3>4, <4>1 DEF MainThreadMatches, Bookmarking, Agree
      <4>3. QED
        BY <2>4, <4>2 DEF BookmarksInv
    <3>5. CASE bookmarking.title \in titles /\ bookmarking.title \notin movies.titles
      <4>1. bookmarking' = NotBookmarking /\ bookmarking'.at = "no"
        BY <2>5, <3>5 DEF NotBookmarking
      <4>2. MainThreadMatches'
        BY <2>2, <3>1, <3>2, <3>5, <4>1 DEF MainThreadMatches, Bookmarking, Agree
      <4>3. QED
        BY <2>4, <4>2 DEF BookmarksInv
    <3>6. QED
      BY <3>3, <3>4, <3>5
  <2>6. CASE SetBookmarks
    <3>1. bookmarks' = bookmarking.value /\ Agree(bookmarking.value)
      BY <2>1, <2>6 DEF SetBookmarks, MainThreadMatches
    <3>2. bookmarking'.at = "save" /\ bookmarking'.value = bookmarking.value
      BY <2>6 DEF SetBookmarks, Typed, MainThreadTyped
    <3>3. MainThreadMatches'
      BY <2>2, <3>1, <3>2 DEF MainThreadMatches, Bookmarking, Agree
    <3>4. QED
      BY <2>4, <3>3 DEF BookmarksInv
  <2>7. CASE SaveBookmarks
    <3>1. /\ savedBookmarks' = bookmarking.value /\ bookmarks' = bookmarks
          /\ Agree(bookmarking.value) /\ bookmarks = bookmarking.value
      BY <2>1, <2>7 DEF SaveBookmarks, MainThreadMatches
    <3>2. bookmarking'.at = "no"
      BY <2>7 DEF SaveBookmarks, NotBookmarking
    <3>3. MainThreadMatches'
      BY <2>2, <3>1, <3>2 DEF MainThreadMatches, Bookmarking, Agree
    <3>4. QED
      BY <2>4, <3>3 DEF BookmarksInv
  <2>8. QED
    BY <2>5, <2>6, <2>7 DEF BookmarkStep
<1>3. QED
  BY <1>1, <1>2

-----------------------------------------------------------------------------
(* The worker's steps at the bookmarks *)

(* A worker step after which the two have not raced leaves the bookmark    *)
(* being changed alone, if there is one.                                   *)
LEMMA AddBookmarkedMoviesKeepsBookmarksInv ==
    ASSUME Typed, BookmarksInv, Watch, AddBookmarkedMovies PROVE BookmarksInv'
<1> USE DEF AddBookmarkedMovies, files
<1>1. lookup' # <<>> /\ lookup'[1].at = "match"
  <2>1. lookup[1] \in Lookups
    BY LookupRuns DEF Typed, At
  <2>2. QED
    BY <2>1 DEF Lookups
<1>2. Replacing'
  BY <1>1 DEF Replacing, At
<1>3. CASE raced \/ Bookmarking
  <2>1. raced'
    BY <1>2, <1>3 DEF Watch, Bookmarking
  <2>2. QED
    BY <2>1 DEF BookmarksInv
<1>4. CASE ~raced /\ ~Bookmarking
  <2>1. ~MoviesReplaced
    BY DEF MoviesReplaced, At
  <2>2. cut' = cut /\ Agree(bookmarks) /\ savedBookmarks = bookmarks
    BY <1>4, <2>1 DEF BookmarksInv, MainThreadMatches, Watch
  <2>3. WorkerMatches'
    BY <1>1, <1>4 DEF WorkerMatches, Bookmarking, At
  <2>4. MainThreadMatches'
    BY <1>4, <2>2 DEF MainThreadMatches, Bookmarking, Agree
  <2>5. QED
    BY <2>3, <2>4 DEF BookmarksInv
<1>5. QED
  BY <1>3, <1>4

LEMMA MatchBookmarksKeepsBookmarksInv ==
    ASSUME Typed, BookmarksInv, Watch, MatchBookmarks PROVE BookmarksInv'
<1> USE DEF MatchBookmarks, files
<1>1. /\ lookup' # <<>> /\ lookup'[1].at = "movies"
      /\ lookup'[1].titles = lookup[1].titles
      /\ lookup'[1].bookmarks = bookmarks \cup (lookup[1].titles \cap titles)
  <2>1. lookup[1] \in Lookups
    BY LookupRuns DEF Typed, At
  <2>2. QED
    BY <2>1 DEF Lookups
<1>2. CASE raced
  BY <1>2, RacedStays
<1>3. CASE ~raced
  <2>1. cut' = cut /\ ~Bookmarking /\ ~MoviesReplaced
    BY <1>3 DEF BookmarksInv, WorkerMatches, Replacing, MoviesReplaced, At, Watch
  <2>2. Agree(bookmarks) /\ savedBookmarks = bookmarks
    BY <1>3, <2>1 DEF BookmarksInv, MainThreadMatches
  <2>3. WorkerMatches'
    BY <1>1, <2>1, <2>2 DEF WorkerMatches, Bookmarking, Agree, At
  <2>4. MainThreadMatches'
    BY <2>1, <2>2 DEF MainThreadMatches, Bookmarking, Agree
  <2>5. QED
    BY <2>3, <2>4 DEF BookmarksInv
<1>4. QED
  BY <1>2, <1>3

LEMMA SetMoviesKeepsBookmarksInv ==
    ASSUME Typed, BookmarksInv, Watch, SetMovies \/ SetTheaters PROVE BookmarksInv'
<1> USE DEF SetMovies, SetTheaters, files
<1>1. /\ lookup' # <<>> /\ lookup'[1].at \in {"theaters", "bookmarks"}
      /\ lookup'[1].bookmarks = lookup[1].bookmarks
  BY GoToMoves DEF Typed, At, Steps
<1>2. CASE raced
  BY <1>2, RacedStays
<1>3. CASE ~raced
  <2>1. WorkerMatches /\ Replacing /\ cut' = cut
    BY <1>3 DEF BookmarksInv, Replacing, Watch
  <2>2. Agree(lookup[1].bookmarks)'
    <3>1. CASE SetMovies
      BY <1>1, <2>1, <3>1 DEF WorkerMatches, Agree
    <3>2. CASE SetTheaters
      BY <1>1, <2>1, <3>2 DEF WorkerMatches, Agree
    <3>3. QED
      BY <3>1, <3>2
  <2>3. ~Bookmarking'
    BY <2>1 DEF WorkerMatches, Bookmarking
  <2>4. WorkerMatches'
    BY <1>1, <2>2, <2>3 DEF WorkerMatches, At
  <2>5. MoviesReplaced'
    BY <1>1 DEF MoviesReplaced, At
  <2>6. MainThreadMatches'
    BY <2>3, <2>5 DEF MainThreadMatches, Bookmarking
  <2>7. QED
    BY <2>4, <2>6 DEF BookmarksInv
<1>4. QED
  BY <1>2, <1>3

LEMMA ReplaceBookmarksKeepsBookmarksInv ==
    ASSUME Typed, BookmarksInv, Watch, ReplaceBookmarks PROVE BookmarksInv'
<1> USE DEF ReplaceBookmarks, files
<1>1. lookup' # <<>> /\ lookup'[1].at = "reset"
  BY GoToMoves DEF Typed, At, Steps
<1>2. CASE raced
  BY <1>2, RacedStays
<1>3. CASE ~raced
  <2>1. Agree(lookup[1].bookmarks) /\ ~Bookmarking /\ cut' = cut
    BY <1>3 DEF BookmarksInv, WorkerMatches, Replacing, Watch
  <2>2. WorkerMatches'
    BY <1>1 DEF WorkerMatches, Replacing, At
  <2>3. MainThreadMatches'
    BY <2>1 DEF MainThreadMatches, Bookmarking, Agree
  <2>4. QED
    BY <2>2, <2>3 DEF BookmarksInv
<1>4. QED
  BY <1>2, <1>3

LEMMA WorkerStepKeepsBookmarksInv ==
    ASSUME Typed, BookmarksInv, Watch, WorkerStep PROVE BookmarksInv'
<1>1. CASE AddBookmarkedMovies
  BY <1>1, AddBookmarkedMoviesKeepsBookmarksInv
<1>2. CASE MatchBookmarks
  BY <1>2, MatchBookmarksKeepsBookmarksInv
<1>3. CASE SetMovies \/ SetTheaters
  BY <1>3, SetMoviesKeepsBookmarksInv
<1>4. CASE ReplaceBookmarks
  BY <1>4, ReplaceBookmarksKeepsBookmarksInv
<1>5. CASE Start \/ CheckTooSoon \/ LookupLocation \/ LookupFails \/ OnSuccess
           \/ SetModelDate \/ TrashPerformances \/ MovePerformances
           \/ ResetPerformances \/ SetLastLookupDate
  <2>1. UNCHANGED <<titles, bookmarks, savedBookmarks, movies, bookmarking>>
    BY <1>5 DEF Start, CheckTooSoon, LookupLocation, LookupFails, OnSuccess, SetModelDate,
                TrashPerformances, MovePerformances, ResetPerformances, SetLastLookupDate,
                files
  <2>2. ~Replacing
    BY <1>5 DEF Start, CheckTooSoon, LookupLocation, LookupFails, OnSuccess, SetModelDate,
                TrashPerformances, MovePerformances, ResetPerformances, SetLastLookupDate,
                Replacing, At
  <2>3. \/ lookup' = <<>>
        \/ lookup' # <<>> /\ lookup'[1].at \in {"start", "lookup", "report", "trash",
                                                "date", "move", "read", "marker"}
    <3>1. CASE Start
      BY <3>1 DEF Start, NewLookup
    <3>2. CASE LookupLocation
      <4>1. lookup[1] \in Lookups
        BY <3>2, LookupRuns DEF LookupLocation, Typed, At
      <4> DEFINE Found(ts, os) == [lookup[1] EXCEPT !.at = "report", !.titles = ts,
                                                    !.old = os \ {request.date}]
      <4>2. PICK ts \in SUBSET Titles \ {{}}, os \in SUBSET Held :
                 lookup' = <<Found(ts, os)>>
        BY <3>2 DEF LookupLocation
      <4>3. Found(ts, os).at = "report"
        BY <4>1 DEF Lookups
      <4>4. lookup'[1].at = "report"
        BY <4>2, <4>3
      <4>5. QED
        BY <4>2, <4>4
    <3>3. CASE LookupFails \/ SetLastLookupDate
      BY <3>3 DEF LookupFails, SetLastLookupDate, Finish
    <3>4. CASE CheckTooSoon \/ OnSuccess \/ SetModelDate \/ TrashPerformances
               \/ MovePerformances \/ ResetPerformances
      <4>1. /\ lookup # <<>>
            /\ \/ Finish \/ GoTo("lookup") \/ GoTo("trash") \/ GoTo("date")
               \/ GoTo("move") \/ GoTo("read") \/ GoTo("marker")
        <5>1. CASE CheckTooSoon \/ OnSuccess
          BY <5>1 DEF CheckTooSoon, OnSuccess, At
        <5>2. CASE ~(CheckTooSoon \/ OnSuccess)
          BY <3>4, <5>2 DEF SetModelDate, TrashPerformances, MovePerformances,
                            ResetPerformances, At
        <5>3. QED
          BY <5>1, <5>2
      <4>2. {"lookup", "trash", "date", "move", "read", "marker"} \subseteq Steps
        BY DEF Steps
      <4>3. CASE Finish
        BY <4>3 DEF Finish
      <4>4. ASSUME NEW step \in {"lookup", "trash", "date", "move", "read", "marker"},
                   GoTo(step)
            PROVE  lookup' # <<>> /\ lookup'[1].at = step
        <5>1. lookup'[1].at = step
          BY <4>1, <4>2, <4>4, GoToMoves DEF Typed
        <5>2. QED
          BY <4>4, <5>1 DEF GoTo
      <4>5. QED
        BY <4>1, <4>3, <4>4
    <3>5. QED
      BY <1>5, <3>1, <3>2, <3>3, <3>4
  <2>4. ~Replacing'
    BY <2>3 DEF Replacing, At
  <2>5. QED
    BY <2>1, <2>2, <2>4, ElsewhereKeepsBookmarksInv
<1>6. QED
  BY <1>1, <1>2, <1>3, <1>4, <1>5 DEF WorkerStep

(* A kill takes the bookmarks from their file: memory and file agree again. *)
(* Before the worker has replaced the movies, and while nobody is at the    *)
(* bookmarks, what is saved agrees with the titles too.                     *)
LEMMA KillKeepsBookmarksInv ==
    ASSUME Typed, BookmarksInv, Kill PROVE BookmarksInv'
<1> USE DEF Kill, files
<1>1. CASE raced
  BY <1>1 DEF BookmarksInv
<1>2. CASE ~raced
  <2>1. WorkerMatches /\ MainThreadMatches
    BY <1>2 DEF BookmarksInv
  <2>2. bookmarking'.at = "no" /\ bookmarks' = savedBookmarks
        /\ UNCHANGED <<titles, movies, savedBookmarks>>
    BY DEF NotBookmarking
  <2>3. Agree(savedBookmarks)'
    <3>1. CASE cut \/ MoviesReplaced \/ Bookmarking
      <4>1. cut'
        BY <3>1
      <4>2. QED
        BY <4>1 DEF Agree
    <3>2. CASE ~cut /\ ~MoviesReplaced /\ ~Bookmarking
      <4>1. Agree(savedBookmarks)
        BY <2>1, <3>2 DEF MainThreadMatches, Bookmarking, MoviesReplaced, Replacing, At
      <4>2. QED
        BY <2>2, <3>2, <4>1 DEF Agree
    <3>3. QED
      BY <3>1, <3>2
  <2>4. WorkerMatches'
    BY DEF WorkerMatches, Replacing, At
  <2>5. MainThreadMatches'
    BY <2>2, <2>3 DEF MainThreadMatches, Bookmarking
  <2>6. QED
    BY <2>4, <2>5 DEF BookmarksInv
<1>3. QED
  BY <1>1, <1>2

LEMMA NextKeepsBookmarksInv == Typed /\ BookmarksInv /\ [Next]_vars => BookmarksInv'
<1> SUFFICES ASSUME Typed, BookmarksInv, [Next]_vars PROVE BookmarksInv'
  OBVIOUS
<1>1. ASSUME UNCHANGED vars PROVE BookmarksInv'
  BY <1>1 DEF vars, files, BookmarksInv, WorkerMatches, MainThreadMatches, Replacing,
              MoviesReplaced, Bookmarking, Agree, At
<1>2. ASSUME Watch, UserStep \/ Age \/ DayPasses PROVE BookmarksInv'
  <2>1. ASSUME NEW t \in Titles, ToggleBookmark(t) PROVE BookmarksInv'
    BY <1>2, <2>1, ToggleKeepsBookmarksInv
  <2>2. ASSUME ~(\E t \in Titles : ToggleBookmark(t)) PROVE BookmarksInv'
    <3>1. /\ UNCHANGED <<titles, bookmarks, savedBookmarks, movies, bookmarking>>
          /\ lookup' = lookup
      BY <1>2, <2>2 DEF UserStep, Age, DayPasses, SetSearchDate, SetUserAddress,
                        OnSearchDateChanged, OnCancelTapped, Refresh, ReadSearchDate,
                        ReadPerformances, files
    <3>2. QED
      BY <1>2, <3>1, ElsewhereKeepsBookmarksInv
  <2>3. QED
    BY <2>1, <2>2
<1>3. QED
  BY <1>1, <1>2, BookmarkStepKeepsBookmarksInv, WorkerStepKeepsBookmarksInv,
     KillKeepsBookmarksInv DEF Next

(* At rest the bookmarked movies are the ones saved, as long as no bookmark *)
(* was changed while a lookup replaced them; and they agree with the        *)
(* bookmarked titles, as long as moreover no kill came between the two      *)
(* caches of a bookmark, or between the movies and bookmarks of a lookup.   *)
THEOREM BookmarksDoAgree == Spec => []BookmarksAgree
<1>1. Init => BookmarksInv
  <2> SUFFICES ASSUME Init PROVE WorkerMatches /\ MainThreadMatches
    BY DEF BookmarksInv
  <2>1. lookup = <<>> /\ bookmarking.at = "no"
    BY DEF Init, NotBookmarking
  <2>2. bookmarks = {} /\ savedBookmarks = {} /\ movies.titles = {}
    BY DEF Init
  <2>3. QED
    BY <2>1, <2>2 DEF WorkerMatches, MainThreadMatches, Replacing, Bookmarking, Agree, At
<1>2. BookmarksInv => BookmarksAgree
  BY DEF BookmarksInv, MainThreadMatches, BookmarksAgree, Agree, MoviesReplaced, Replacing
<1>3. QED
  BY <1>1, <1>2, TypedHolds, NextKeepsBookmarksInv, PTL DEF Spec

(* At most one lookup runs, and every variable has its type. *)
THEOREM TypeCorrect == Spec => []TypeOK
<1>1. Typed => TypeOK
  <2> SUFFICES ASSUME Typed PROVE TypeOK
    OBVIOUS
  <2> USE DEF Typed
  <2>1. /\ Len(lookup) <= 1
        /\ \A l \in Range(lookup) :
              /\ l.at \in Steps /\ l.request \in Requests
              /\ {l.titles, l.bookmarks} \subseteq SUBSET Titles /\ l.old \subseteq Dates
    <3>1. CASE lookup = <<>>
      BY <3>1 DEF Range
    <3>2. CASE lookup # <<>>
      <4>1. lookup[1] \in Lookups /\ lookup = <<lookup[1]>>
        BY <3>2, LookupRuns
      <4>2. Len(lookup) = 1 /\ Range(lookup) = {lookup[1]}
        BY <4>1 DEF Range
      <4>3. QED
        BY <4>1, <4>2 DEF Lookups
    <3>3. QED
      BY <3>1, <3>2
  <2>2. \A i \in DOMAIN requests : requests[i] \in Requests
    BY DEF WorkerTyped
  <2>3. bookmarking.at \in {"no", "copy", "set", "save"}
    BY DEF MainThreadTyped
  <2>4. {enabled, modal, failed, crossed, passed, raced, cut} \subseteq BOOLEAN
    BY DEF MainThreadTyped, HistoryTyped
  <2>5. QED
    BY <2>1, <2>2, <2>3, <2>4 DEF TypeOK, FilesTyped, MainThreadTyped
<1>2. QED
  BY <1>1, TypedHolds, PTL
=============================================================================
