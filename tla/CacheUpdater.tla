----------------------------- MODULE CacheUpdater -----------------------------
(***************************************************************************)
(* The Android code: CacheUpdater with its BoundedPrioritySets, the two    *)
(* threads that take movies out of them and the threads of urgent          *)
(* requests, composed with the mutex their downloads go through            *)
(* (DownloadMutex).                                                        *)
(*                                                                         *)
(* Both threads take from the same two sets, prioritized movies first.     *)
(* The one called UpdateMovieDetails brings the movie up to date in every  *)
(* cache, posters first; the one called UpdateImages only in the cache of  *)
(* posters.  A block under the lock is a step.  The addresses a cache      *)
(* tries for a movie are one download.                                     *)
(***************************************************************************)
EXTENDS DownloadMutex, Sequences, SequencesExt

CONSTANTS
    Movies,
    Details, Images,    \* the two threads
    Urgent,             \* the threads of prioritizeMovie(movie, now)
    Important,          \* the threads that load theaters and scores
    Caches,             \* the caches of updateMovieDetails, in its order
    MaxSize,            \* size of a bounded set: 9
    NoMovie,
    MaxCalls,           \* bound: calls of the user interface
    MaxImportant        \* bound: important downloads

ASSUME UpdaterAssumption ==
    /\ Threads = {Details, Images} \cup Urgent \cup Important
    /\ Details # Images
    /\ {Details, Images} \cap (Urgent \cup Important) = {}
    /\ Urgent \cap Important = {}
    /\ Caches \in Seq(Range(Caches)) /\ Caches # <<>> /\ IsInjective(Caches)
    /\ MaxSize \in Nat \ {0}
    /\ NoMovie \notin Movies
    /\ {MaxCalls, MaxImportant} \subseteq Nat

VARIABLES
    prioritizedMovieOperations,   \* the sets of those names, oldest first
    movieOperations,
    imageOperations,
    adding,       \* the movie prioritizeMovie has in one of its two sets
    state,        \* where each thread is, outside of a download
    job,          \* per thread its movie and the caches still to update
    updated,      \* updatedMovies of each cache
    shutdown,     \* the field of that name
    imagesOnly,   \* history: the movies that the thread Images took
    dropped,      \* history: the movies that did not fit into a bounded set
    calls, importants

queues == <<prioritizedMovieOperations, movieOperations, imageOperations, adding,
            dropped, calls>>
work == <<state, job, updated, imagesOnly>>
updaterVars == <<vars, queues, work, shutdown, importants>>

Workers == {Details, Images}
Poster == Head(Caches)
NoJob == [movie |-> NoMovie, todo |-> <<>>]

UpdaterTypeOK ==
    /\ TypeOK
    /\ \A set \in {prioritizedMovieOperations, movieOperations, imageOperations} :
          set \in Seq(Movies) /\ IsInjective(set)
    /\ Len(prioritizedMovieOperations) <= MaxSize
    /\ Len(imageOperations) <= MaxSize
    /\ adding \in Movies \cup {NoMovie}
    /\ state \in [Threads \ Important ->
                    {"idle", "looking", "waiting", "taken", "cache", "add",
                     "download", "between", "done"}]
    /\ \A t \in Threads \ Important :
          /\ job[t].movie \in Movies \cup {NoMovie}
          /\ job[t].todo \in Seq(Range(Caches))
          /\ state[t] \in {"cache", "add", "download"} => job[t].todo # <<>>
    /\ updated \in [Range(Caches) -> SUBSET Movies]
    /\ shutdown \in BOOLEAN

UpdaterInit ==
    /\ Init
    /\ prioritizedMovieOperations = <<>>
    /\ movieOperations = <<>>
    /\ imageOperations = <<>>
    /\ adding = NoMovie
    /\ state = [t \in Threads \ Important |-> IF t \in Workers THEN "looking" ELSE "idle"]
    /\ job = [t \in Threads \ Important |-> NoJob]
    /\ updated = [c \in Range(Caches) |-> {}]
    /\ shutdown = FALSE
    /\ imagesOnly = {}
    /\ dropped = {}
    /\ calls = 0
    /\ importants = 0

-----------------------------------------------------------------------------
(* BoundedPrioritySet *)

(* Mutation of Added: the set is not asked. *)
AddedAgain(set, movie, maxSize) ==
    IF maxSize > 0 /\ Len(set) >= maxSize THEN Append(Tail(set), movie)
    ELSE Append(set, movie)

(* addNoLock: what is there stays where it is, the oldest makes room. *)
Added(set, movie, maxSize) ==
    LET longer == Append(set, movie)
    IN  IF Contains(set, movie) THEN set
        ELSE IF maxSize > 0 /\ Len(longer) > maxSize THEN Tail(longer)
        ELSE longer

(* addAll of a List goes through it from its end; the lists are of two      *)
(* movies, or of one that is twice in it, which is added once.              *)
AddedAll(set, movies, maxSize) ==
    Added(Added(set, movies[2], maxSize), movies[1], maxSize)

(* lock.notifyAll() *)
NotifyAll == state' = [t \in DOMAIN state |->
                          IF state[t] = "waiting" THEN "looking" ELSE state[t]]

-----------------------------------------------------------------------------
(* The user interface and the providers *)

Call == calls < MaxCalls /\ calls' = calls + 1

(* Mutation of AddMovies: no thread is notified. *)
AddMoviesSilently(movies) ==
    /\ Call
    /\ movieOperations' = AddedAll(movieOperations, movies, -1)
    /\ UNCHANGED <<vars, prioritizedMovieOperations, imageOperations, adding, dropped,
                   work, shutdown, importants>>

(* addMovie, addMovies *)
AddMovies(movies) ==
    /\ Call
    /\ movieOperations' = AddedAll(movieOperations, movies, -1)
    /\ NotifyAll
    /\ UNCHANGED <<vars, prioritizedMovieOperations, imageOperations, adding, dropped,
                   job, updated, imagesOnly, shutdown, importants>>

(* prioritizeMovie(movie, false): one set, ... *)
Prioritize(movie) ==
    /\ Call
    /\ adding = NoMovie
    /\ adding' = movie
    /\ prioritizedMovieOperations' = Added(prioritizedMovieOperations, movie, MaxSize)
    /\ dropped' = dropped \cup (Range(prioritizedMovieOperations)
                                    \ Range(prioritizedMovieOperations'))
    /\ NotifyAll
    /\ UNCHANGED <<vars, movieOperations, imageOperations, job, updated, imagesOnly,
                   shutdown, importants>>

(* ... and the other, which nobody ever takes from. *)
PrioritizeImages ==
    /\ adding # NoMovie
    /\ adding' = NoMovie
    /\ imageOperations' = Added(imageOperations, adding, MaxSize)
    /\ NotifyAll
    /\ UNCHANGED <<vars, prioritizedMovieOperations, movieOperations, dropped, calls,
                   job, updated, imagesOnly, shutdown, importants>>

(* prioritizeMovie(movie, true) starts a thread. *)
PrioritizeNow(t, movie) ==
    /\ Call
    /\ state[t] = "idle"
    /\ state' = [state EXCEPT ![t] = "cache"]
    /\ job' = [job EXCEPT ![t] = [movie |-> movie, todo |-> Caches]]
    /\ UNCHANGED <<vars, prioritizedMovieOperations, movieOperations, imageOperations,
                   adding, dropped, updated, imagesOnly, shutdown, importants>>

(* Mutation of Shutdown: no thread is notified. *)
ShutdownSilently ==
    /\ ~shutdown
    /\ shutdown' = TRUE
    /\ UNCHANGED <<vars, queues, work, importants>>

(* The application ends (NowPlayingModel.shutdown). *)
Shutdown ==
    /\ ~shutdown
    /\ shutdown' = TRUE
    /\ NotifyAll
    /\ UNCHANGED <<vars, queues, job, updated, imagesOnly, importants>>

(* updatedMoviesClear of a cache when memory is low. *)
LowMemory(c) ==
    /\ Call
    /\ updated[c] # {}
    /\ updated' = [updated EXCEPT ![c] = {}]
    /\ UNCHANGED <<vars, prioritizedMovieOperations, movieOperations, imageOperations,
                   adding, dropped, state, job, imagesOnly, shutdown, importants>>

StartImportant(t) ==
    /\ importants < MaxImportant
    /\ importants' = importants + 1
    /\ LockHigh(t)
    /\ UNCHANGED <<queues, work, shutdown>>

FinishImportant(t) ==
    /\ UnlockHigh(t)
    /\ UNCHANGED <<queues, work, shutdown, importants>>

-----------------------------------------------------------------------------
(* The threads *)

Become(t, place) == state' = [state EXCEPT ![t] = place]

(* What thread w does with a movie. *)
Job(w, movie) ==
    [movie |-> movie, todo |-> IF w = Images THEN <<Poster>> ELSE Caches]

Take(w, movie) ==
    /\ Become(w, "taken")
    /\ job' = [job EXCEPT ![w] = Job(w, movie)]
    /\ imagesOnly' = imagesOnly \cup (IF w = Images THEN {movie} ELSE {})

(* The loop under the lock: a movie, the end, or wait. *)
Look(w) ==
    /\ state[w] = "looking"
    /\ \/ /\ shutdown
          /\ Become(w, "done")
          /\ UNCHANGED <<job, imagesOnly, prioritizedMovieOperations, movieOperations>>
       \/ /\ ~shutdown
          /\ prioritizedMovieOperations # <<>>
          /\ Take(w, Head(prioritizedMovieOperations))
          /\ prioritizedMovieOperations' = Tail(prioritizedMovieOperations)
          /\ UNCHANGED movieOperations
       \/ /\ ~shutdown
          /\ prioritizedMovieOperations = <<>>
          /\ movieOperations # <<>>
          /\ Take(w, Head(movieOperations))
          /\ movieOperations' = Tail(movieOperations)
          /\ UNCHANGED prioritizedMovieOperations
       \/ /\ ~shutdown
          /\ prioritizedMovieOperations = <<>> /\ movieOperations = <<>>
          /\ Become(w, "waiting")
          /\ UNCHANGED <<job, imagesOnly, prioritizedMovieOperations, movieOperations>>
    /\ UNCHANGED <<vars, imageOperations, adding, dropped, calls, updated, shutdown, importants>>

WakeSpuriously(w) ==
    /\ state[w] = "waiting"
    /\ Become(w, "looking")
    /\ UNCHANGED <<vars, queues, job, updated, imagesOnly, shutdown, importants>>

(* Outside the lock shutdown is tested once more.                           *)
Begin(w) ==
    /\ state[w] = "taken"
    /\ IF shutdown
       THEN Become(w, "done") /\ job' = [job EXCEPT ![w] = NoJob]
       ELSE Become(w, "cache") /\ UNCHANGED job
    /\ UNCHANGED <<vars, queues, updated, imagesOnly, shutdown, importants>>

(* t has done what there was to do in a cache.                              *)
CacheDone(t) ==
    /\ Become(t, "between")
    /\ job' = [job EXCEPT ![t].todo = Tail(@)]

(* A cache asks whether it has seen the movie, ...                          *)
AskCache(t) ==
    /\ state[t] = "cache"
    /\ IF job[t].movie \in updated[Head(job[t].todo)]
       THEN CacheDone(t)
       ELSE Become(t, "add") /\ UNCHANGED job
    /\ UNCHANGED <<vars, queues, updated, imagesOnly, shutdown, importants>>

(* ... notes it in another synchronized block, and downloads what it has no *)
(* file of.                                                                 *)
AddToUpdated(t) ==
    /\ state[t] = "add"
    /\ updated' = [updated EXCEPT ![Head(job[t].todo)] = @ \cup {job[t].movie}]
    /\ \/ Become(t, "download") /\ UNCHANGED job
       \/ CacheDone(t)
    /\ UNCHANGED <<vars, queues, imagesOnly, shutdown, importants>>

(* After the last cache, and after each one once shutdown is set, a thread  *)
(* sleeps a while and looks for its next movie, or is done; the thread of   *)
(* an urgent request ends.                                                  *)
NextCache(t) ==
    /\ state[t] = "between"
    /\ IF job[t].todo = <<>> \/ shutdown
       THEN /\ Become(t, IF t \notin Workers THEN "idle"
                         ELSE IF shutdown THEN "done" ELSE "looking")
            /\ job' = [job EXCEPT ![t] = NoJob]
       ELSE Become(t, "cache") /\ UNCHANGED job
    /\ UNCHANGED <<vars, queues, updated, imagesOnly, shutdown, importants>>

StartDownload(t) ==
    /\ state[t] = "download"
    /\ LockLow(t)
    /\ UNCHANGED <<queues, work, shutdown, importants>>

FinishDownload(t) ==
    /\ state[t] = "download"
    /\ UnlockLow(t)
    /\ CacheDone(t)
    /\ UNCHANGED <<queues, updated, imagesOnly, shutdown, importants>>

WakeInDownload(t) ==
    /\ SpuriousWakeup(t)
    /\ UNCHANGED <<queues, work, shutdown, importants>>

(* What thread t does on its own. *)
Step(t) ==
    \/ t \in Workers /\ (Look(t) \/ Begin(t))
    \/ AskCache(t)
    \/ AddToUpdated(t)
    \/ StartDownload(t)
    \/ FinishDownload(t)
    \/ NextCache(t)

UpdaterNext ==
    \/ \E m, n \in Movies : AddMovies(<<m, n>>)
    \/ \E m \in Movies : Prioritize(m)
    \/ PrioritizeImages
    \/ \E t \in Urgent, m \in Movies : PrioritizeNow(t, m)
    \/ Shutdown
    \/ \E c \in Range(Caches) : LowMemory(c)
    \/ \E t \in Important : StartImportant(t) \/ FinishImportant(t)
    \/ \E t \in Threads \ Important : Step(t) \/ WakeInDownload(t)
    \/ \E w \in Workers : WakeSpuriously(w)

(* A thread goes on with the one thing it can do unless it waits for a      *)
(* monitor, and downloads end.                                              *)
UpdaterFairness ==
    /\ WF_updaterVars(PrioritizeImages)
    /\ \A t \in Important : WF_updaterVars(FinishImportant(t))
    /\ \A t \in Threads \ Important : WF_updaterVars(Step(t))

UpdaterSpec == UpdaterInit /\ [][UpdaterNext]_updaterVars /\ UpdaterFairness

-----------------------------------------------------------------------------
Waits(m) == Contains(prioritizedMovieOperations, m) \/ Contains(movieOperations, m)

(* Every movie that waits in a set is looked up in every cache, down to the *)
(* last, or only in the one for posters when the thread for images was the  *)
(* one that took it; only the bound of a set or a shutdown loses a movie.   *)
MoviesAreUpdated ==
    \A m \in Movies :
        Waits(m) ~> \/ shutdown
                    \/ m \in dropped
                    \/ m \in updated[IF m \in imagesOnly THEN Poster ELSE Last(Caches)]

(* A shutdown ends both threads, also one that waits for a movie or for     *)
(* important downloads to finish.                                           *)
ShutdownEndsThreads == shutdown ~> \A w \in Workers : state[w] = "done"
=============================================================================
