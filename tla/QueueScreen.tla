----------------------------- MODULE QueueScreen -----------------------------
(***************************************************************************)
(* NetflixQueueViewController, the table of a Netflix queue, on top of     *)
(* AbstractTableViewController and the Pulser that tells it to refresh.    *)
(*                                                                         *)
(* The screen keeps the queue it was loaded from, the rows of its table    *)
(* (which the user edits) and what UIKit shows for them: a tap on a row    *)
(* opens the movie of the queue at that index.  A refresh is refused while *)
(* the rows are being edited or are read-only, that is, while an operation *)
(* of NetflixUpdater is under way; it waits while the table moves.         *)
(*                                                                         *)
(* NetflixUpdater tells movies apart by identity.  A movie here is an      *)
(* object, a movie and the download that made it.  A request and its reply *)
(* are one step here; NetflixQueue takes them apart.                       *)
(***************************************************************************)
EXTENDS Pulser, Sequences, SequencesExt

CONSTANTS
    Movies,
    MaxEdits,       \* bound: operations the user starts
    MaxReorders,    \* bound: movies that one editing session moves
    MaxOutside      \* bound: downloads of the queue, changes made to it by
                    \* another client, lost replies, and what other caches save

ASSUME QueueScreenAssumption ==
    /\ IsFiniteSet(Movies)
    /\ {MaxEdits, MaxReorders, MaxOutside} \subseteq Nat

VARIABLES
    server,     \* the queue of the server
    saved,      \* the queue of NetflixFeedCache
    art,        \* counts what other caches saved for the cells
    visible,
    deferred,   \* majorRefresh is to be performed later
    editing,    \* "swipe" (one row shows its Delete button), "edit", or "no"
    readonly,   \* readonlyMode
    queue,      \* self.queue
    rows,       \* mutableMovies
    table,      \* the movies that the table shows
    shown,      \* the art that its cells show
    deleted,    \* deletedMovies
    reordered,  \* reorderedMovies
    session,    \* the operation under way, as a sequence of length at most one:
                \* its queue, what it has yet to delete and to move, the rows
    report,     \* its result, posted to the main thread
    refused,    \* history: a refresh was refused since the last reload
    lost,       \* history: ... and nothing refreshes the table in its place
    disordered, \* history: the rows are those of a session that moved several
    overtaken,  \* history: a download came between a success and its report
    left        \* what is left of the bounds

cache == <<server, saved>>
shape == <<visible, editing, readonly>>
temporary == <<deleted, reordered>>
content == <<queue, rows, table, shown>>
operation == <<session, report>>
history == <<refused, lost, disordered, overtaken>>
vars == <<pulser, cache, art, shape, deferred, content, temporary, operation,
          history, left>>

Objects == [movie : Movies, copy : 0..MaxOutside]
Ids(objects) == [i \in DOMAIN objects |-> objects[i].movie]
Made(movies, copy) == [i \in DOMAIN movies |-> [movie |-> movies[i], copy |-> copy]]
Orders == {s \in BoundedSeq(Movies, Cardinality(Movies)) : IsInjective(s)}
Queues == [etag : Nat, movies : Seq(Objects)]
Index(objects, m) == SelectInSeq(objects, LAMBDA x : x = m)    \* indexOfObjectIdenticalTo
Kinds == {"move", "modify"}

TypeOK ==
    /\ PulserTypeOK
    /\ server \in [etag : Nat, movies : Orders]
    /\ {saved, queue} \subseteq Queues
    /\ {art, shown} \subseteq 0..MaxOutside
    /\ {visible, deferred, readonly} \subseteq BOOLEAN
    /\ editing \in {"no", "swipe", "edit"}
    /\ rows \in Seq(Objects)
    /\ table \in Seq(Movies)
    /\ {deleted, reordered} \subseteq SUBSET Objects
    /\ readonly <=> Len(session) + Len(report) = 1
    /\ \A s \in Range(session) : s.kind \in Kinds /\ s.queue \in Queues
    /\ \A r \in Range(report) : r.kind \in Kinds /\ r.ok \in BOOLEAN
    /\ {refused, lost, disordered, overtaken} \subseteq BOOLEAN

Init ==
    /\ PulserInit
    /\ server = [etag |-> 1, movies |-> SetToSeq(Movies)]
    /\ saved = [etag |-> 1, movies |-> Made(server.movies, 0)]
    /\ art = 0
    /\ visible = FALSE /\ deferred = FALSE
    /\ editing = "no" /\ readonly = FALSE
    /\ queue = [etag |-> 0, movies |-> <<>>]
    /\ rows = <<>> /\ table = <<>> /\ shown = 0
    /\ deleted = {} /\ reordered = {}
    /\ session = <<>> /\ report = <<>>
    /\ refused = FALSE /\ lost = FALSE /\ disordered = FALSE /\ overtaken = FALSE
    /\ left = [edits |-> MaxEdits, outside |-> MaxOutside]

-----------------------------------------------------------------------------
(* AbstractTableViewController *)

(* Mutation of Reload: movies that are in the table already keep their rows. *)
ReloadChangedRows ==
    /\ queue' = saved
    /\ rows' = IF Ids(rows) = Ids(saved.movies) THEN rows ELSE saved.movies
    /\ table' = Ids(saved.movies)
    /\ shown' = art
    /\ refused' = FALSE /\ lost' = FALSE /\ disordered' = FALSE
    /\ UNCHANGED overtaken

(* reloadTableViewData, for a table that is visible: it takes the queue of  *)
(* the cache (onBeforeReloadTableViewData) and draws all of its cells.      *)
Reload ==
    /\ queue' = saved
    /\ rows' = saved.movies
    /\ table' = Ids(saved.movies)
    /\ shown' = art
    /\ refused' = FALSE /\ lost' = FALSE /\ disordered' = FALSE
    /\ UNCHANGED overtaken

ReloadTableViewData ==
    IF editing' # "no" \/ readonly'
    THEN refused' = TRUE /\ UNCHANGED <<content, lost, disordered, overtaken>>
    ELSE Reload

(* majorRefresh: refreshWithSelector, on the state the caller leaves; the   *)
(* user may be scrolling.                                                   *)
MajorRefresh ==
    \/ ~visible' /\ deferred' = FALSE /\ UNCHANGED <<content, history>>
    \/ visible' /\ deferred' = TRUE /\ UNCHANGED <<content, history>>
    \/ visible' /\ deferred' = FALSE /\ ReloadTableViewData

Appear ==
    /\ ~visible
    /\ visible' = TRUE
    /\ UNCHANGED <<editing, readonly>>
    /\ ReloadTableViewData
    /\ UNCHANGED <<pulser, cache, art, deferred, temporary, operation, left>>

Disappear ==
    /\ visible
    /\ visible' = FALSE
    /\ UNCHANGED <<pulser, cache, art, deferred, editing, readonly, content,
                   temporary, operation, history, left>>

PerformDeferred ==
    /\ deferred
    /\ UNCHANGED shape
    /\ MajorRefresh
    /\ UNCHANGED <<pulser, cache, art, temporary, operation, left>>

-----------------------------------------------------------------------------
(* The Pulser and the caches that use it *)

(* One of the things that come from outside happens. *)
Outside ==
    /\ left.outside > 0
    /\ left' = [left EXCEPT !.outside = @ - 1]

(* Another cache saves something that the cells show and asks for a refresh *)
(* (majorRefresh: with or without force).                                   *)
SaveArt ==
    /\ Outside
    /\ art' = art + 1
    /\ \/ calls' = calls + 1 /\ UNCHANGED forces
       \/ forces' = forces + 1 /\ UNCHANGED calls
    /\ UNCHANGED <<since, reposts, due, cache, shape, deferred, content, temporary,
                   operation, history>>

(* A pulse, forced or not, refreshes the controllers of the application. *)
Pulse ==
    /\ TakeDue \/ ForcePulse
    /\ UNCHANGED shape
    /\ MajorRefresh
    /\ UNCHANGED <<cache, art, temporary, operation, left>>

PulserStep ==
    /\ HandleCall \/ (\E r \in reposts : HandleRepost(r)) \/ Tick
    /\ UNCHANGED <<cache, art, shape, deferred, content, temporary, operation,
                   history, left>>

-----------------------------------------------------------------------------
(* The user *)

(* UIKit raises an exception when rows change while it and the controller   *)
(* disagree on their number; what follows is not modelled.                  *)
TouchableRows == IF Len(rows) = Len(table) THEN DOMAIN rows ELSE {}

StartSwipe ==
    /\ visible /\ ~readonly /\ editing = "no" /\ rows # <<>>
    /\ editing' = "swipe"
    /\ UNCHANGED <<pulser, cache, art, visible, readonly, deferred, content,
                   temporary, operation, history, left>>

(* The Delete button of the row goes away again. *)
CancelSwipe ==
    /\ editing = "swipe"
    /\ editing' = "no"
    /\ lost' = (lost \/ refused)
    /\ UNCHANGED <<pulser, cache, art, visible, readonly, deferred, content,
                   temporary, operation, refused, disordered, overtaken, left>>

OnEdit ==
    /\ visible /\ ~readonly /\ editing = "no"
    /\ editing' = "edit"
    /\ deleted' = {} /\ reordered' = {}
    /\ UNCHANGED <<pulser, cache, art, visible, readonly, deferred, content,
                   operation, history, left>>

(* onSave with changes: an operation takes along the queue, the movies      *)
(* deleted and moved, and the rows.                                         *)
StartSession(movies, deletedMovies, reorderedMovies) ==
    /\ left.edits > 0
    /\ left' = [left EXCEPT !.edits = @ - 1]
    /\ editing' = "no"
    /\ readonly' = TRUE
    /\ session' = <<[kind |-> "modify", queue |-> queue, deleted |-> deletedMovies,
                     reordered |-> reorderedMovies, to |-> movies,
                     several |-> Cardinality(reorderedMovies) > 1]>>
    /\ UNCHANGED <<pulser, cache, art, visible, deferred, queue, shown,
                   report, history>>

(* commitEditingStyle: in an editing session the row goes; after a swipe    *)
(* that is saved at once.                                                   *)
DeleteRow(i) ==
    /\ visible
    /\ rows' = RemoveAt(rows, i)
    /\ table' = RemoveAt(table, i)
    /\ deleted' = deleted \cup {rows[i]}
    /\ reordered' = reordered \ {rows[i]}
    /\ \/ editing = "swipe" /\ StartSession(rows', deleted', reordered')
       \/ /\ editing = "edit"
          /\ UNCHANGED <<pulser, cache, art, shape, deferred, queue, shown, operation,
                         history, left>>

MoveRow(i, j) ==
    /\ visible /\ editing = "edit"
    /\ i # j
    /\ Cardinality(reordered \cup {rows[i]}) <= MaxReorders
    /\ rows' = InsertAt(RemoveAt(rows, i), j, rows[i])
    /\ table' = InsertAt(RemoveAt(table, i), j, table[i])
    /\ reordered' = reordered \cup {rows[i]}
    /\ UNCHANGED <<pulser, cache, art, shape, deferred, queue, shown, deleted,
                   operation, history, left>>

OnCancel ==
    /\ visible /\ editing = "edit"
    /\ editing' = "no"
    /\ deleted' = {} /\ reordered' = {}
    /\ UNCHANGED <<visible, readonly>>
    /\ MajorRefresh
    /\ UNCHANGED <<pulser, cache, art, operation, left>>

OnSave ==
    /\ visible /\ editing = "edit"
    /\ deleted \cup reordered # {}
    /\ StartSession(rows, deleted, reordered)
    /\ UNCHANGED <<rows, table, temporary>>

(* upArrowTappedForRowAtIndexPath *)
UpArrow(i) ==
    /\ visible /\ ~readonly /\ editing = "no"
    /\ i # 1
    /\ left.edits > 0
    /\ left' = [left EXCEPT !.edits = @ - 1]
    /\ readonly' = TRUE
    /\ session' = <<[kind |-> "move", queue |-> queue, deleted |-> {},
                     reordered |-> {rows[i]}, to |-> <<rows[i]>>, several |-> FALSE]>>
    /\ UNCHANGED <<pulser, cache, art, visible, editing, deferred, content,
                   temporary, report, history>>

-----------------------------------------------------------------------------
(* NetflixUpdater and NetflixCache *)

(* removeObjectIdenticalTo, and removal on the server: a queue has an object *)
(* and the server a movie at most once.                                     *)
Without(objects, x) == RemoveFirst(objects, x)

(* moveMovie: taken out, where it is there, and put in at its new place. *)
MovedTo(objects, x, position) == InsertAt(Without(objects, x), position, x)

(* The server deletes a movie that it has, whatever etag the copy has ... *)
ServerDeletes(m) ==
    /\ m.movie \in Range(server.movies)
    /\ server' = [etag |-> server.etag + 1, movies |-> Without(server.movies, m.movie)]

(* ... and moves one to a place that it has, unless the copy's etag is old. *)
ServerMoves(m, position) ==
    /\ session[1].queue.etag = server.etag
    /\ m.movie \in Range(server.movies)
    /\ position <= Len(server.movies)
    /\ server' = [etag |-> server.etag + 1,
                  movies |-> MovedTo(server.movies, m.movie, position)]

(* The next requests of the operation: the deletions, in any order, then    *)
(* the moves, by the index their movies are to have (orderMovies).          *)
NextDeletions == session[1].deleted
NextMoves ==
    LET s == session[1]
    IN  {m \in s.reordered : /\ s.deleted = {}
                             /\ \A x \in s.reordered : Index(s.to, m) <= Index(s.to, x)}

Report(ok) ==
    /\ report' = <<[kind |-> session[1].kind, ok |-> ok, to |-> session[1].to,
                    several |-> session[1].several]>>
    /\ session' = <<>>

(* A request was accepted: the next one, or save and report. *)
GoOn(s) ==
    IF s.deleted \cup s.reordered = {}
    THEN saved' = s.queue /\ Report(TRUE)
    ELSE session' = <<s>> /\ UNCHANGED <<saved, report>>

Deleted(m) ==
    [session[1] EXCEPT !.deleted = @ \ {m},
                       !.queue = [etag |-> server.etag + 1, movies |-> Without(@.movies, m)]]
Moved(m, position) ==
    [session[1] EXCEPT !.reordered = @ \ {m},
                       !.queue = [etag |-> server.etag + 1,
                                  movies |-> MovedTo(@.movies, m, position)]]

RequestAccepted ==
    /\ session # <<>>
    /\ \/ \E m \in NextDeletions : ServerDeletes(m) /\ GoOn(Deleted(m))
       \/ \E m \in NextMoves :
             LET position == Index(session[1].to, m)
             IN  ServerMoves(m, position) /\ GoOn(Moved(m, position))
    /\ UNCHANGED <<pulser, art, shape, deferred, content, temporary, history, left>>

(* The request is refused or lost, or its reply is.  A session saves what it *)
(* has; a move that fails saves nothing.                                    *)
RequestFails ==
    /\ session # <<>>
    /\ \/ UNCHANGED <<server, left>>
       \/ /\ Outside
          /\ \/ \E m \in NextDeletions : ServerDeletes(m)
             \/ \E m \in NextMoves : ServerMoves(m, Index(session[1].to, m))
    /\ saved' = IF session[1].kind = "modify" THEN session[1].queue ELSE saved
    /\ Report(FALSE)
    /\ UNCHANGED <<pulser, art, shape, deferred, content, temporary, history>>

OperationStep == RequestAccepted \/ RequestFails

(* An operation under way keeps the worker busy; until its first reply it   *)
(* has the queue of the screen.                                             *)
UnderWay == session # <<>> /\ session[1].queue # queue

(* The queue is downloaded, with new objects; that it then refreshes no     *)
(* table is what the code does.                                             *)
Download ==
    /\ Outside
    /\ ~UnderWay
    /\ saved' = [etag |-> server.etag,
                 movies |-> Made(server.movies, MaxOutside - left'.outside)]
    /\ overtaken' = (overtaken \/ (report # <<>> /\ report[1].ok))
    /\ UNCHANGED <<pulser, server, art, shape, deferred, content, temporary, operation,
                   refused, lost, disordered>>

(* The user moves a movie with another client. *)
ForeignChange ==
    /\ Outside
    /\ server.movies # <<>>
    /\ server' = [etag |-> server.etag + 1,
                  movies |-> Append(Tail(server.movies), Head(server.movies))]
    /\ UNCHANGED <<pulser, saved, art, shape, deferred, content, temporary, operation,
                   history>>

-----------------------------------------------------------------------------
(* The delegate's methods *)

(* Mutation of ExitReadonlyMode: only the temporary queues are cleared. *)
ExitReadonlyModeHalf ==
    /\ report' = <<>>
    /\ deleted' = {} /\ reordered' = {}
    /\ UNCHANGED <<visible, editing, readonly>>

ExitReadonlyMode ==
    /\ report' = <<>>
    /\ readonly' = FALSE
    /\ deleted' = {} /\ reordered' = {}
    /\ UNCHANGED <<visible, editing>>

(* moveSucceededForMovie: the queue of the cache, and the row moves. *)
MoveSucceeded ==
    /\ report # <<>> /\ report[1].ok /\ report[1].kind = "move"
    /\ LET row == Index(rows, report[1].to[1])
       IN  /\ rows' = InsertAt(RemoveAt(rows, row), 1, rows[row])
           /\ table' = InsertAt(RemoveAt(table, row), 1, table[row])
    /\ queue' = saved
    /\ ExitReadonlyMode
    /\ lost' = (lost \/ refused)
    /\ UNCHANGED <<pulser, cache, art, deferred, shown, session, refused, disordered,
                   overtaken, left>>

(* Mutation of ModifySucceeded: the queue is not taken from the cache. *)
ModifySucceededKeepsQueue ==
    /\ report # <<>> /\ report[1].ok /\ report[1].kind = "modify"
    /\ ExitReadonlyMode
    /\ lost' = (lost \/ refused)
    /\ disordered' = (disordered \/ report[1].several)
    /\ UNCHANGED <<pulser, cache, art, deferred, content, session, refused,
                   overtaken, left>>

(* modifySucceeded: the queue and the rows of the cache; the table is not   *)
(* told.                                                                    *)
ModifySucceeded ==
    /\ report # <<>> /\ report[1].ok /\ report[1].kind = "modify"
    /\ queue' = saved
    /\ rows' = saved.movies
    /\ ExitReadonlyMode
    /\ lost' = (lost \/ refused)
    /\ disordered' = (disordered \/ report[1].several)
    /\ UNCHANGED <<pulser, cache, art, deferred, table, shown, session, refused,
                   overtaken, left>>

(* onModifyFailure: "make sure we're in a good state" *)
OnModifyFailure ==
    /\ report # <<>> /\ ~report[1].ok
    /\ ExitReadonlyMode
    /\ MajorRefresh
    /\ UNCHANGED <<pulser, cache, art, session, left>>

HandleReport == MoveSucceeded \/ ModifySucceeded \/ OnModifyFailure

Next ==
    \/ Appear \/ Disappear \/ PerformDeferred
    \/ SaveArt \/ Pulse \/ PulserStep
    \/ StartSwipe \/ CancelSwipe \/ OnEdit \/ OnCancel \/ OnSave
    \/ \E i \in TouchableRows :
          DeleteRow(i) \/ UpArrow(i) \/ \E j \in TouchableRows : MoveRow(i, j)
    \/ OperationStep \/ Download \/ ForeignChange \/ HandleReport

(* The main thread handles what is posted to it and its timers, time        *)
(* passes, the table comes to rest, and an operation ends.                  *)
Fairness ==
    /\ WF_vars(Pulse)
    /\ WF_vars(PulserStep)
    /\ SF_vars(PerformDeferred /\ ~deferred')
    /\ WF_vars(OperationStep)
    /\ WF_vars(HandleReport)

Spec == Init /\ [][Next]_vars /\ Fairness

-----------------------------------------------------------------------------
Idle == visible /\ ~readonly /\ editing = "no"

(* A tap on a row opens the movie that the row shows: didSelectRow indexes  *)
(* the queue of the screen, the table shows other state.  Exceptions: the   *)
(* screen waits for its refresh, or nothing makes up for a refused one, a   *)
(* session that moved several movies, or a download between a success and   *)
(* its report.  A reload ends all but the last.                             *)
RowOpensItsMovie ==
    Idle => \/ table = Ids(queue.movies)
            \/ deferred \/ lost \/ disordered \/ overtaken

(* moveMovie takes a movie out by its identity and puts it back in: the     *)
(* queue that is saved has no movie twice, unless a download came between a *)
(* success and its report, which leaves rows of older objects.              *)
SavedOnce == overtaken \/ IsInjective(Ids(saved.movies))

(* What other caches save gets to be shown, however the Pulser drops and    *)
(* postpones requests, while the user scrolls, edits and changes screens -  *)
(* unless a swipe or a successful operation hides that a refresh was        *)
(* refused.                                                                 *)
LatestIsShown == []<>(shown = art \/ ~visible \/ editing # "no" \/ lost)

(* "Error shown when we tried to reorder a user's movie queue on the server *)
(* but failed": without an error, the queue has the order that the user     *)
(* gave it.                                                                 *)
ReorderedOrFailed ==
    \A r \in Range(report) :
        r.kind = "modify" /\ r.ok => overtaken \/ Ids(saved.movies) = Ids(r.to)
=============================================================================
