----------------------------- MODULE NetflixQueue -----------------------------
(***************************************************************************)
(* One queue of a Netflix account: the server that owns it, the copy kept  *)
(* by NetflixFeedCache in memory and in two files, the operations of       *)
(* NetflixUpdater that change it and of NetflixCache that download it, and *)
(* the view controllers that start the changes.                            *)
(*                                                                         *)
(* The server gives each state of the queue an etag.  server is the        *)
(* sequence of all its states, so the etag of a state is its index.  An    *)
(* operation of the OperationQueue runs alone; each of its requests to the *)
(* server and each file it writes is a step.  The list of saved titles is  *)
(* handled like the queue itself and left out.                             *)
(*                                                                         *)
(* The app tells movies apart by identity: a movie in memory is an object, *)
(* a movie and the download that made it.  Server and files know movies.   *)
(***************************************************************************)
EXTENDS Integers, Sequences, FiniteSets, SequencesExt

CONSTANTS
    Movies,
    FirstQueue,     \* the movies of the queue at first
    Views,          \* the view controllers that show movies of the queue
    Kinds,          \* what the user does: "top", "add", "reorder", "delete"
    Unreliable,     \* whether requests and replies can be lost
    MaxEtag,        \* bound: how many states the queue has on the server
    MaxForeign,     \* bound: changes made to it by another client
    MaxEdits,       \* bound: changes the user asks for here
    MaxRefreshes,   \* bound: updates of the cache, forced ones not counted
    MaxCrashes      \* bound: how often the app is killed

ASSUME NetflixAssumption ==
    /\ IsFiniteSet(Movies)
    /\ FirstQueue \in Seq(Movies) /\ IsInjective(FirstQueue)
    /\ IsFiniteSet(Views)
    /\ Kinds \subseteq {"top", "add", "reorder", "delete"}
    /\ Unreliable \in BOOLEAN
    /\ MaxEtag \in Nat \ {0}
    /\ {MaxForeign, MaxEdits, MaxRefreshes, MaxCrashes} \subseteq Nat

VARIABLES
    server,      \* the states of the queue, oldest first
    memory,      \* accountToFeedKeyToQueues, or NoQueue
    queueFile,   \* the queue file, or NoQueue
    etagFile,    \* the etag file; 0 is no etag
    pending,     \* the operations waiting in the OperationQueue
    running,     \* the operation that runs, as a sequence of length at most one
    views,       \* per view its class, its queue, its rows, whether it is read-only
    reports,     \* the results posted to the main thread
    blind,       \* history: a DELETE was not the only change between two etags
    overtaken,   \* history: a success found other objects in the cache than its rows
    torn,        \* history: killed between the files of an older or empty queue
    left         \* what is left of the bounds

vars == <<server, memory, queueFile, etagFile, pending, running, views, reports,
          blind, overtaken, torn, left>>

cache == <<memory, queueFile, etagFile>>
history == <<blind, overtaken, torn>>
app == <<pending, running, views, reports, history>>

NoEtag == 0

(* nil, which has no movies and an etag that no queue has. *)
NoQueue == [etag |-> -1, movies |-> <<>>]

Contents == {s \in BoundedSeq(Movies, Cardinality(Movies)) : IsInjective(s)}
Objects == [movie : Movies, copy : Nat]
Ids(objects) == [i \in DOMAIN objects |-> objects[i].movie]
Made(movies, copy) == [i \in DOMAIN movies |-> [movie |-> movies[i], copy |-> copy]]

Queues == [etag : 0..MaxEtag, movies : Seq(Objects)]
QueueFiles == [etag : 0..MaxEtag, movies : Seq(Movies)]
Changes == [kind : {"top", "add", "reorder", "delete"}, object : Objects, position : Int]
Reports == [view : Views, ok : BOOLEAN, moved : Seq(Objects)]

(* A view before it loads: a NetflixQueueViewController shows the queue, a  *)
(* MovieDetailsViewController the places of a movie in it.                  *)
Screens == {"queue", "movie"}
Closed(screen) == [screen |-> screen, queue |-> NoQueue, rows |-> <<>>, busy |-> FALSE]
Opened == [Views -> {Closed(screen) : screen \in Screens}]

serverEtag == Len(server)
serverMovies == Last(server)

TypeOK ==
    /\ server \in Seq(Contents)
    /\ memory \in Queues \cup {NoQueue}
    /\ queueFile \in QueueFiles \cup {NoQueue}
    /\ etagFile \in 0..MaxEtag
    /\ \A op \in Range(pending) :
          op.kind \in {"edit", "download"} /\ op.todo \in Seq(Changes)
    /\ Len(running) <= 1
    /\ \A op \in Range(running) :
          /\ op.at \in {"edit", "etag", "check", "fetch", "queueFile", "etagFile", "memory"}
          /\ op.at \in {"queueFile", "etagFile", "memory"} => op.queue \in Queues
          /\ op.at \in {"edit", "etag"} => op.kind = "edit" /\ op.todo # <<>>
    /\ views \in [Views -> [screen : Screens, queue : Queues \cup {NoQueue},
                            rows : Seq(Objects), busy : BOOLEAN]]
    /\ reports \subseteq Reports
    /\ {blind, overtaken, torn} \subseteq BOOLEAN

(* The first launch, or one after the queue was downloaded. *)
Init ==
    /\ server = <<FirstQueue>>
    /\ memory = NoQueue
    /\ \/ queueFile = NoQueue /\ etagFile = NoEtag
       \/ queueFile = [etag |-> 1, movies |-> server[1]] /\ etagFile = 1
    /\ pending = <<>>
    /\ running = <<>>
    /\ views \in Opened
    /\ reports = {}
    /\ blind = FALSE /\ overtaken = FALSE /\ torn = FALSE
    /\ left = [foreign |-> MaxForeign, edits |-> MaxEdits,
               refreshes |-> MaxRefreshes, crashes |-> MaxCrashes]

-----------------------------------------------------------------------------
(* The server *)

(* What a change makes of a queue's movies (on the server) or objects (in   *)
(* the app, where removal is by identity); position -1 is the end.          *)
Changed(list, kind, x, position) ==
    CASE kind = "delete" -> RemoveFirst(list, x)
      [] kind = "add" -> IF position = -1 THEN Append(list, x)
                         ELSE InsertAt(list, position + 1, x)
      [] OTHER -> InsertAt(RemoveFirst(list, x), position + 1, x)

(* A place among this many movies. *)
HasPlace(change, n) ==
    CASE change.kind = "delete" -> TRUE
      [] change.kind = "add" -> change.position <= n
      [] OTHER -> change.position < n

(* A POST carries the etag of the queue it is made for; a DELETE only names *)
(* the movie.                                                               *)
Mismatch(queue, change) ==
    \/ change.kind # "delete" /\ queue.etag # serverEtag
    \/ change.kind # "add" /\ change.object.movie \notin Range(serverMovies)

Accepts(queue, change) ==
    /\ ~Mismatch(queue, change)
    /\ change.kind = "add" => change.object.movie \notin Range(serverMovies)
    /\ HasPlace(change, Len(serverMovies))
    /\ serverEtag < MaxEtag

ServerMakes(kind, m, position) ==
    server' = Append(server, Changed(serverMovies, kind, m, position))
ServerDoes(change) == ServerMakes(change.kind, change.object.movie, change.position)

(* The user changes the queue with another client. *)
ForeignChange ==
    /\ left.foreign > 0
    /\ serverEtag < MaxEtag
    /\ \E m \in Movies :
          ServerMakes(IF m \in Range(serverMovies) THEN "delete" ELSE "add", m, -1)
    /\ left' = [left EXCEPT !.foreign = @ - 1]
    /\ UNCHANGED <<cache, app>>

-----------------------------------------------------------------------------
(* The main thread *)

(* The objects that the app holds, and a mark for those of one more download. *)
HeldBy(op) == Range(op.queue.movies) \cup {change.object : change \in Range(op.todo)}
ShownBy(view) == Range(view.queue.movies) \cup Range(view.rows)
InUse ==
    Range(memory.movies)
    \cup (UNION {ShownBy(views[v]) : v \in Views})
    \cup (UNION {HeldBy(op) : op \in Range(pending) \cup Range(running)})
Fresh ==
    LET used == {x.copy : x \in InUse}
    IN  CHOOSE n \in 0..Cardinality(used) : n \notin used

(* queueForFeed: from memory, else from the file, which fills the memory    *)
(* with new objects.                                                        *)
QueueForFeed ==
    IF memory # NoQueue \/ queueFile = NoQueue
    THEN memory
    ELSE [etag |-> queueFile.etag, movies |-> Made(queueFile.movies, Fresh)]

Edit(v, queue, todo) ==
    [kind |-> "edit", view |-> v, queue |-> queue, todo |-> todo, force |-> FALSE]
Download(force) ==
    [kind |-> "download", view |-> CHOOSE v \in Views : TRUE, queue |-> NoQueue,
     todo |-> <<>>, force |-> force]

Change(kind, x, position) == [kind |-> kind, object |-> x, position |-> position]

(* Changes that the rows of a view let the user ask for at once: one movie  *)
(* to the top, one deleted, or, on a screen of the queue, an editing session *)
(* that deletes at most one movie and moves at most one.                    *)
Todos(v) ==
    LET rows == views[v].rows
        tops == {Change("top", rows[i], 0) : i \in 2..Len(rows)}
        deletes == {Change("delete", x, -1) : x \in Range(rows)}
        moves(n) == {Change("reorder", x, p) : x \in Range(rows), p \in 0..(n - 1)}
        sessions == {<<move>> : move \in moves(Len(rows))}
                    \cup {<<delete, move>> : delete \in deletes, move \in moves(Len(rows) - 1)}
    IN  {todo \in {<<change>> : change \in tops \cup deletes}
                  \cup IF views[v].screen = "queue" THEN sessions ELSE {} :
            /\ \A i \in DOMAIN todo : todo[i].kind \in Kinds
            /\ Len(todo) = 2 => todo[1].object # todo[2].object}

(* updateQueue:byMovingMovieToTop: and ...byDeletingMovies:...: the view    *)
(* goes read-only and the operation takes along the queue of the view and   *)
(* objects of its rows.                                                     *)
EditQueue(v) ==
    /\ left.edits > 0
    /\ ~views[v].busy
    /\ views[v].queue # NoQueue
    /\ \E todo \in Todos(v) : pending' = Append(pending, Edit(v, views[v].queue, todo))
    /\ views' = [views EXCEPT ![v].busy = TRUE]
    /\ left' = [left EXCEPT !.edits = @ - 1]
    /\ UNCHANGED <<server, cache, running, reports, history>>

(* updateQueue:byAddingMovie:..., to either end of the queue that the cache *)
(* has now (the screen asked it for its statuses, which fills the memory);  *)
(* the movie comes back as a new object.                                    *)
AddMovie(v) ==
    /\ left.edits > 0
    /\ views[v].screen = "movie"
    /\ ~views[v].busy
    /\ "add" \in Kinds
    /\ memory # NoQueue
    /\ \E m \in Movies, position \in {-1, 0} :
          LET x == [movie |-> m, copy |-> Fresh]
          IN  pending' = Append(pending, Edit(v, memory, <<Change("add", x, position)>>))
    /\ views' = [views EXCEPT ![v].busy = TRUE]
    /\ left' = [left EXCEPT !.edits = @ - 1]
    /\ UNCHANGED <<server, cache, running, reports, history>>

(* updateQueues:force:NO *)
Refresh ==
    /\ left.refreshes > 0
    /\ pending' = Append(pending, Download(FALSE))
    /\ left' = [left EXCEPT !.refreshes = @ - 1]
    /\ UNCHANGED <<server, cache, running, views, reports, history>>

(* onBeforeReloadTableViewData: the view takes the queue of the cache. *)
Loaded(v) ==
    [views[v] EXCEPT !.queue = QueueForFeed, !.rows = QueueForFeed.movies, !.busy = FALSE]

(* reloadTableViewData, refused while the view is read-only. *)
Reload(v) ==
    /\ ~views[v].busy
    /\ views[v] # Loaded(v)
    /\ views' = [views EXCEPT ![v] = Loaded(v)]
    /\ memory' = QueueForFeed
    /\ UNCHANGED <<server, queueFile, etagFile, pending, running, reports, history, left>>

(* moveSucceededForMovie: the queue of the cache, but the rows that were    *)
(* there, with the one that moved on top.                                   *)
MoveSucceeded(report) ==
    LET v == report.view
        x == report.moved[1]
        rows == InsertAt(RemoveFirst(views[v].rows, x), 1, x)
    IN  /\ views[v].screen = "queue" /\ report.ok /\ report.moved # <<>>
        /\ views' = [views EXCEPT ![v] =
                        [@ EXCEPT !.queue = QueueForFeed, !.rows = rows, !.busy = FALSE]]
        /\ overtaken' = (overtaken \/ ~(Range(rows) \subseteq Range(QueueForFeed.movies)))
        /\ memory' = QueueForFeed
        /\ UNCHANGED <<blind, torn>>

(* modifySucceeded, and every other result when it reloads the view at once. *)
ReportReloads(report) ==
    /\ ~(views[report.view].screen = "queue" /\ report.ok /\ report.moved # <<>>)
    /\ views' = [views EXCEPT ![report.view] = Loaded(report.view)]
    /\ memory' = QueueForFeed
    /\ UNCHANGED history

(* A failure, or a success that a screen of a movie hears of: majorRefresh, *)
(* which leaves the rows for later while the table moves or is not visible. *)
ReportRefreshesLater(report) ==
    /\ ~(views[report.view].screen = "queue" /\ report.ok)
    /\ views' = [views EXCEPT ![report.view].busy = FALSE]
    /\ UNCHANGED <<memory, history>>

(* The delegate's methods: the rows can be changed again. *)
HandleReport(report) ==
    /\ report \in reports
    /\ reports' = reports \ {report}
    /\ MoveSucceeded(report) \/ ReportReloads(report) \/ ReportRefreshesLater(report)
    /\ UNCHANGED <<server, queueFile, etagFile, pending, running, left>>

-----------------------------------------------------------------------------
(* Operations *)

(* A Now operation goes before a Priority one. *)
Start(i) ==
    /\ running = <<>>
    /\ i \in DOMAIN pending
    /\ pending[i].kind = "download" => \A op \in Range(pending) : op.kind = "download"
    /\ pending' = RemoveAt(pending, i)
    /\ running' = <<[kind |-> pending[i].kind, view |-> pending[i].view,
                     queue |-> pending[i].queue, todo |-> pending[i].todo,
                     force |-> pending[i].force, ok |-> TRUE, moved |-> <<>>,
                     at |-> IF pending[i].kind = "edit" THEN "edit" ELSE "check"]>>
    /\ UNCHANGED <<server, cache, views, reports, history, left>>

Running(at) == running # <<>> /\ running[1].at = at
GoOn(op) == running' = <<op>>
Stop == running' = <<>>
Report(op) ==
    reports' = reports \cup {[view |-> op.view, ok |-> op.ok, moved |-> op.moved]}

(* Mutation of Fail: a move or an addition saves its queue as well. *)
FailSaving ==
    GoOn([running[1] EXCEPT !.at = "queueFile", !.ok = FALSE]) /\ UNCHANGED reports

(* The operation fails: a session saves the queue as far as it got, or as   *)
(* the view had it, before it reports; a single move or addition does not.  *)
Fail ==
    IF running[1].todo[1].kind \in {"reorder", "delete"}
    THEN GoOn([running[1] EXCEPT !.at = "queueFile", !.ok = FALSE]) /\ UNCHANGED reports
    ELSE Stop /\ Report([running[1] EXCEPT !.ok = FALSE])

(* Mutation of Applied: the new etag is kept with the old movies. *)
AppliedEtagOnly(etag) ==
    LET op == running[1]
        rest == Tail(op.todo)
    IN  GoOn([op EXCEPT !.queue.etag = etag, !.todo = rest,
                        !.at = IF rest = <<>> THEN "queueFile" ELSE "edit"])

(* Mutation of Applied: the changes are not counted right. *)
AppliedWithoutEnd(etag) ==
    LET op == running[1]
        change == op.todo[1]
    IN  GoOn([op EXCEPT
            !.queue = [etag |-> etag, movies |->
                Changed(op.queue.movies, change.kind, change.object, change.position)],
            !.todo = Tail(op.todo),
            !.at = IF Len(op.todo) = 2 THEN "queueFile" ELSE "edit"])

(* The change is made here as well: next change, or save.  (To insert past  *)
(* the end of the copy would raise an exception; what follows is not        *)
(* modelled.)                                                               *)
Applied(etag) ==
    LET op == running[1]
        change == op.todo[1]
        rest == Tail(op.todo)
    IN  /\ change.position <= Len(RemoveFirst(op.queue.movies, change.object))
        /\ GoOn([op EXCEPT
              !.queue = [etag |-> etag, movies |->
                  Changed(op.queue.movies, change.kind, change.object, change.position)],
              !.todo = rest,
              !.moved = IF change.kind = "top" THEN <<change.object>> ELSE @,
              !.at = IF rest = <<>> THEN "queueFile" ELSE "edit"])

(* The server accepts the change and its reply arrives.  The reply to a     *)
(* POST has the new etag; after a DELETE it takes another request.          *)
ServerAccepts ==
    /\ Running("edit")
    /\ LET op == running[1] IN
          /\ Accepts(op.queue, op.todo[1])
          /\ ServerDoes(op.todo[1])
          /\ IF op.todo[1].kind = "delete"
             THEN GoOn([op EXCEPT !.at = "etag"])
             ELSE Applied(serverEtag + 1)
    /\ UNCHANGED <<cache, pending, views, reports, history, left>>

(* The server refuses; out of date means a forced download of the queue. *)
ServerRefuses ==
    /\ Running("edit")
    /\ LET op == running[1] IN
          /\ ~Accepts(op.queue, op.todo[1])
          /\ pending' = IF Mismatch(op.queue, op.todo[1])
                        THEN Append(pending, Download(TRUE)) ELSE pending
          /\ Fail
    /\ UNCHANGED <<server, cache, views, history, left>>

(* The request is lost, or its reply is. *)
EditLost ==
    /\ Unreliable
    /\ Running("edit")
    /\ LET op == running[1] IN
          \/ UNCHANGED server
          \/ Accepts(op.queue, op.todo[1]) /\ ServerDoes(op.todo[1])
    /\ Fail
    /\ UNCHANGED <<cache, pending, views, history, left>>

(* downloadEtag after a DELETE *)
DownloadEtag ==
    /\ Running("etag")
    /\ \/ /\ Applied(serverEtag)
          /\ blind' = (blind \/ serverEtag # running[1].queue.etag + 1)
          /\ UNCHANGED reports
       \/ Unreliable /\ Fail /\ UNCHANGED blind
    /\ UNCHANGED <<server, cache, pending, views, overtaken, torn, left>>

(* downloadQueue: the download is needed when it is forced, when there is   *)
(* nothing to show, without an etag, or when the server's etag differs (an  *)
(* unanswered question is different too).                                   *)
CheckEtag ==
    /\ Running("check")
    /\ memory' = QueueForFeed
    /\ LET op == running[1]
           empty == QueueForFeed = NoQueue \/ QueueForFeed.movies = <<>>
           fetch == GoOn([op EXCEPT !.at = "fetch"])
       IN  IF op.force \/ empty \/ etagFile = NoEtag \/ etagFile # serverEtag
           THEN fetch
           ELSE Stop \/ (Unreliable /\ fetch)
    /\ UNCHANGED <<server, queueFile, etagFile, pending, views, reports, history, left>>

(* downloadQueueWorker: a reply, nothing (or status 500), or any other      *)
(* error, which looks like an empty queue without an etag.                  *)
FetchQueue ==
    /\ Running("fetch")
    /\ LET save(queue) == GoOn([running[1] EXCEPT !.queue = queue, !.at = "queueFile"])
       IN  \/ save([etag |-> serverEtag, movies |-> Made(serverMovies, Fresh)])
           \/ Unreliable /\ Stop
           \/ Unreliable /\ save([etag |-> NoEtag, movies |-> <<>>])
    /\ UNCHANGED <<server, cache, pending, views, reports, history, left>>

(* Mutation of WriteQueueFile: the etag file is written in its place. *)
WriteEtagFileFirst ==
    /\ Running("queueFile")
    /\ etagFile' = running[1].queue.etag
    /\ GoOn([running[1] EXCEPT !.at = "etagFile"])
    /\ UNCHANGED <<server, memory, queueFile, pending, views, reports, history, left>>

(* saveQueue: the queue file, ... *)
WriteQueueFile ==
    /\ Running("queueFile")
    /\ queueFile' = [running[1].queue EXCEPT !.movies = Ids(@)]
    /\ GoOn([running[1] EXCEPT !.at = "etagFile"])
    /\ UNCHANGED <<server, memory, etagFile, pending, views, reports, history, left>>

(* ... the etag file, ... *)
WriteEtagFile ==
    /\ Running("etagFile")
    /\ etagFile' = running[1].queue.etag
    /\ GoOn([running[1] EXCEPT !.at = "memory"])
    /\ UNCHANGED <<server, memory, queueFile, pending, views, reports, history, left>>

(* Mutation of AddQueue: a session that failed is not reported. *)
AddQueueReportsSuccess ==
    /\ Running("memory")
    /\ memory' = running[1].queue
    /\ Stop
    /\ IF running[1].kind = "edit" /\ running[1].ok
       THEN Report(running[1]) ELSE UNCHANGED reports
    /\ UNCHANGED <<server, queueFile, etagFile, pending, views, history, left>>

(* ... and the memory; then an edit is reported. *)
AddQueue ==
    /\ Running("memory")
    /\ memory' = running[1].queue
    /\ Stop
    /\ IF running[1].kind = "edit" THEN Report(running[1])
                                   ELSE UNCHANGED reports
    /\ UNCHANGED <<server, queueFile, etagFile, pending, views, history, left>>

(* The app is killed and started again; only the files are left. *)
Crash ==
    /\ left.crashes > 0
    /\ memory' = NoQueue
    /\ pending' = <<>>
    /\ running' = <<>>
    /\ views' \in Opened
    /\ reports' = {}
    /\ left' = [left EXCEPT !.crashes = @ - 1]
    /\ torn' = (torn \/ (Running("etagFile") /\ running[1].queue.etag < etagFile))
    /\ UNCHANGED <<server, queueFile, etagFile, blind, overtaken>>

OperationStep ==
    \/ \E i \in DOMAIN pending : Start(i)
    \/ ServerAccepts
    \/ ServerRefuses
    \/ EditLost
    \/ DownloadEtag
    \/ CheckEtag
    \/ FetchQueue
    \/ WriteQueueFile
    \/ WriteEtagFile
    \/ AddQueue

Next ==
    \/ ForeignChange
    \/ \E v \in Views : EditQueue(v) \/ AddMovie(v) \/ Reload(v)
    \/ Refresh
    \/ \E report \in reports : HandleReport(report)
    \/ OperationStep
    \/ Crash

(* The worker goes on, a request is answered or times out, and the run loop *)
(* handles what is posted to it.                                            *)
Fairness ==
    /\ WF_vars(OperationStep)
    /\ WF_vars(\E report \in reports : HandleReport(report))

Spec == Init /\ [][Next]_vars /\ Fairness

-----------------------------------------------------------------------------
(* A queue with an etag is what the server had under that etag: otherwise   *)
(* the etag check calls a wrong copy up to date.                            *)
Genuine(queue) ==
    queue # NoQueue /\ queue.etag # NoEtag => Ids(queue.movies) = server[queue.etag]

(* No copy of the queue, in memory, on disk or in a view, pairs an etag     *)
(* with movies that the server never had under it.                          *)
CopiesGenuine ==
    /\ Genuine(memory)
    /\ queueFile # NoQueue /\ queueFile.etag # NoEtag
          => queueFile.movies = server[queueFile.etag]
    /\ \A v \in Views : Genuine(views[v].queue)

(* Half-done sessions that save what they have, lost replies and refused    *)
(* moves never break that.  Two things do: a DELETE that was not the sole   *)
(* change between two etags, and a success that is handled when the cache   *)
(* has been downloaded again: the rows are objects of the older queue then, *)
(* and a row that is moved is not found in the new one and is saved twice.  *)
CopiesGenuineUnlessBlindOrOvertaken == blind \/ overtaken \/ CopiesGenuine

SessionFailed ==
    running # <<>> /\ ~running[1].ok /\ running[1].todo[1].kind \in {"reorder", "delete"}

(* While the app runs, its copy of the queue is only replaced by an older   *)
(* one when a session failed: that saves the queue the user was shown, with *)
(* the changes it got through (an error taken for an empty queue has no     *)
(* age).                                                                    *)
OnlyFailedSessionsGoBack ==
    [][ memory # NoQueue /\ memory' # NoQueue /\ memory'.etag # NoEtag
          => \/ memory'.etag >= memory.etag
             \/ SessionFailed ]_vars

(* A read-only view does not stay read-only: every edit is reported back,   *)
(* lost replies, refusals and half-done sessions included.                  *)
EditsAreReported == \A v \in Views : views[v].busy ~> ~views[v].busy

(* "first download and check the feed's current etag against the current    *)
(* one": when the etag file agrees with the server, the copy is the         *)
(* server's queue.                                                          *)
SameEtagMeansUpToDate ==
    running = <<>> /\ etagFile = serverEtag =>
        QueueForFeed # NoQueue /\ Ids(QueueForFeed.movies) = serverMovies

(* That comment holds for whatever is lost, refused, half done or killed    *)
(* between two files, with three exceptions: the DELETE that was not the    *)
(* only change; rows of an older download; and a kill while a failed        *)
(* session (or an error taken for an empty queue) replaces the queue, which *)
(* leaves it under the newer etag.                                          *)
UpToDateUnlessBlindOvertakenOrTorn ==
    blind \/ overtaken \/ torn \/ SameEtagMeansUpToDate
=============================================================================
