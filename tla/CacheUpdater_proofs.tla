------------------------- MODULE CacheUpdater_proofs -------------------------
(***************************************************************************)
(* The Android downloads, for any finite set of threads, any movies and    *)
(* caches and any size of a bounded set: the counter of the mutex is the   *)
(* number of important downloads under way, a thread that sleeps in it is  *)
(* owed a notifyAll, and its steps implement PriorityGate.                 *)
(*                                                                         *)
(* The second part is about the threads and the bounded sets.  Each thread *)
(* uses the mutex in one of two ways and only while it downloads, and a    *)
(* thread at a cache still has that cache on its list.                     *)
(***************************************************************************)
EXTENDS CacheUpdater, SequenceTheorems, FiniteSetTheorems, TLAPS

-----------------------------------------------------------------------------
(* The mutex *)

(* What a step of the whole does to the mutex. *)
MutexNext ==
    \E t \in Threads :
        \/ LockHigh(t)
        \/ UnlockHigh(t)
        \/ LockLow(t)
        \/ UnlockLow(t)
        \/ SpuriousWakeup(t)

CountMatchesImportant == highTaskRunningCount = Cardinality(At("important"))

(* The inductive invariant of the mutex. *)
MutexInv ==
    /\ pc \in [Threads -> Places]
    /\ CountMatchesImportant
    /\ At("waiting") # {} => At("important") # {}

(* At picks out a subset of the finite set of threads. *)
LEMMA AtIsFinite ==
    ASSUME NEW place
    PROVE  IsFiniteSet(At(place)) /\ Cardinality(At(place)) \in Nat
<1>1. At(place) \subseteq Threads
  BY DEF At
<1>2. QED
  BY <1>1, ThreadsFinite, FS_Subset, FS_CardinalityType DEF ThreadsFinite

(* The counter is positive exactly when an important download runs. *)
LEMMA CountTestsForImportant ==
    ASSUME CountMatchesImportant
    PROVE  /\ highTaskRunningCount \in Nat
           /\ highTaskRunningCount = 0 <=> At("important") = {}
           /\ highTaskRunningCount > 0 <=> At("important") # {}
<1>1. IsFiniteSet(At("important")) /\ Cardinality(At("important")) \in Nat
  BY AtIsFinite
<1>2. Cardinality(At("important")) = 0 <=> At("important") = {}
  BY <1>1, FS_EmptySet
<1>3. QED
  BY <1>1, <1>2 DEF CountMatchesImportant

LEMMA InitEstablishesMutexInv == Init => MutexInv
<1> SUFFICES ASSUME Init PROVE MutexInv
  OBVIOUS
<1>1. pc \in [Threads -> Places]
  BY DEF Init, Places
<1>2. At("important") = {} /\ At("waiting") = {}
  BY DEF Init, At
<1>3. QED
  BY <1>1, <1>2, FS_EmptySet DEF MutexInv, Init, CountMatchesImportant

LEMMA LockHighKeepsMutexInv ==
    ASSUME MutexInv, NEW t \in Threads, LockHigh(t) PROVE MutexInv'
<1>1. pc' \in [Threads -> Places]
  BY DEF MutexInv, LockHigh, Move, Places
<1>2. At("important")' = At("important") \cup {t} /\ t \notin At("important")
  BY DEF MutexInv, LockHigh, Move, At
<1>3. Cardinality(At("important") \cup {t}) = Cardinality(At("important")) + 1
  BY <1>2, AtIsFinite, FS_AddElement
<1>4. CountMatchesImportant'
  BY <1>2, <1>3 DEF MutexInv, LockHigh, CountMatchesImportant
<1>5. QED
  BY <1>1, <1>2, <1>4 DEF MutexInv

(* The unlockHigh that brings the counter to 0 wakes everybody, any other  *)
(* leaves an important download behind.                                    *)
LEMMA UnlockHighKeepsMutexInv ==
    ASSUME MutexInv, NEW t \in Threads, UnlockHigh(t) PROVE MutexInv'
<1> USE DEF MutexInv
<1>1. pc' \in [Threads -> Places]
  BY DEF UnlockHigh, MoveAndNotifyAll, Move, Places
<1>2. At("important")' = At("important") \ {t} /\ t \in At("important")
  BY DEF UnlockHigh, MoveAndNotifyAll, Move, At, Places
<1>3. Cardinality(At("important") \ {t}) = Cardinality(At("important")) - 1
  BY <1>2, AtIsFinite, FS_RemoveElement
<1>4. CountMatchesImportant'
  BY <1>2, <1>3 DEF UnlockHigh, CountMatchesImportant
<1>5. At("waiting")' # {} => At("important")' # {}
  <2>1. CASE highTaskRunningCount - 1 = 0
    <3>1. At("waiting")' = {}
      BY <2>1 DEF UnlockHigh, MoveAndNotifyAll, At, Places
    <3>2. QED
      BY <3>1
  <2>2. CASE highTaskRunningCount - 1 # 0
    <3>1. highTaskRunningCount' # 0
      BY <2>2 DEF UnlockHigh
    <3>2. At("important") # {} /\ At("important")' # {}
      <4>1. IsFiniteSet(At("important") \ {t})
        BY AtIsFinite, FS_Subset
      <4>2. Cardinality(At("important") \ {t}) # 0
        BY <3>1, <1>2, <1>4 DEF CountMatchesImportant
      <4>3. At("important") \ {t} # {}
        BY <4>1, <4>2, FS_EmptySet
      <4>4. QED
        BY <4>3, <1>2
    <3>3. QED
      BY <3>2
  <2>3. QED
    BY <2>1, <2>2
<1>6. QED
  BY <1>1, <1>4, <1>5

LEMMA LockLowKeepsMutexInv ==
    ASSUME MutexInv, NEW t \in Threads, LockLow(t) PROVE MutexInv'
<1> USE DEF MutexInv, LockLow, Move
<1>1. pc' \in [Threads -> Places]
  BY DEF Places
<1>2. At("important")' = At("important")
  BY DEF At
<1>3. CountMatchesImportant'
  BY <1>2 DEF CountMatchesImportant
<1>4. At("waiting")' # {} => At("important") # {}
  <2>1. CASE highTaskRunningCount > 0
    BY <2>1, CountTestsForImportant
  <2>2. CASE ~(highTaskRunningCount > 0)
    <3>1. At("waiting")' \subseteq At("waiting")
      BY <2>2 DEF At
    <3>2. QED
      BY <3>1
  <2>3. QED
    BY <2>1, <2>2
<1>5. QED
  BY <1>1, <1>2, <1>3, <1>4

LEMMA UnlockLowKeepsMutexInv ==
    ASSUME MutexInv, NEW t \in Threads, UnlockLow(t) \/ SpuriousWakeup(t)
    PROVE  MutexInv'
<1> USE DEF MutexInv, UnlockLow, SpuriousWakeup, Move
<1>1. pc' \in [Threads -> Places]
  BY DEF Places
<1>2. At("important")' = At("important") /\ At("waiting")' \subseteq At("waiting")
  BY DEF At
<1>3. CountMatchesImportant'
  BY <1>2 DEF CountMatchesImportant
<1>4. QED
  BY <1>1, <1>2, <1>3

LEMMA MutexNextKeepsMutexInv == MutexInv /\ [MutexNext]_vars => MutexInv'
<1> SUFFICES ASSUME MutexInv, [MutexNext]_vars PROVE MutexInv'
  OBVIOUS
<1>1. ASSUME NEW t \in Threads, LockHigh(t) PROVE MutexInv'
  BY <1>1, LockHighKeepsMutexInv
<1>2. ASSUME NEW t \in Threads, UnlockHigh(t) PROVE MutexInv'
  BY <1>2, UnlockHighKeepsMutexInv
<1>3. ASSUME NEW t \in Threads, LockLow(t) PROVE MutexInv'
  BY <1>3, LockLowKeepsMutexInv
<1>4. ASSUME NEW t \in Threads, UnlockLow(t) \/ SpuriousWakeup(t) PROVE MutexInv'
  BY <1>4, UnlockLowKeepsMutexInv
<1>5. CASE UNCHANGED vars
  BY <1>5 DEF vars, MutexInv, CountMatchesImportant, At
<1>6. QED
  BY <1>1, <1>2, <1>3, <1>4, <1>5 DEF MutexNext

(* Whatever the threads do, the mutex makes its own steps. *)
LEMMA UpdaterStepsAreMutexSteps == [UpdaterNext]_updaterVars => [MutexNext]_vars
<1> SUFFICES ASSUME [UpdaterNext]_updaterVars PROVE MutexNext \/ UNCHANGED vars
  OBVIOUS
<1>1. Important \subseteq Threads
  BY UpdaterAssumption DEF UpdaterAssumption
<1>2. ASSUME NEW m \in Movies, NEW n \in Movies, AddMovies(<<m, n>>)
      PROVE  UNCHANGED vars
  BY <1>2 DEF AddMovies
<1>3. ASSUME NEW m \in Movies, Prioritize(m) PROVE UNCHANGED vars
  BY <1>3 DEF Prioritize
<1>4. CASE PrioritizeImages \/ Shutdown
  BY <1>4 DEF PrioritizeImages, Shutdown
<1>5. ASSUME NEW t \in Urgent, NEW m \in Movies, PrioritizeNow(t, m)
      PROVE  UNCHANGED vars
  BY <1>5 DEF PrioritizeNow
<1>6. ASSUME NEW c \in Range(Caches), LowMemory(c) PROVE UNCHANGED vars
  BY <1>6 DEF LowMemory
<1>7. ASSUME NEW t \in Important, StartImportant(t) \/ FinishImportant(t)
      PROVE  MutexNext
  BY <1>1, <1>7 DEF StartImportant, FinishImportant, MutexNext
<1>8. ASSUME NEW t \in Threads \ Important, Step(t)
      PROVE  MutexNext \/ UNCHANGED vars
  <2>1. CASE StartDownload(t) \/ FinishDownload(t)
    BY <2>1 DEF StartDownload, FinishDownload, MutexNext
  <2>2. CASE Look(t) \/ Begin(t)
    BY <2>2 DEF Look, Begin
  <2>3. CASE AskCache(t) \/ AddToUpdated(t) \/ NextCache(t)
    BY <2>3 DEF AskCache, AddToUpdated, NextCache
  <2>4. QED
    BY <1>8, <2>1, <2>2, <2>3 DEF Step
<1>9. ASSUME NEW t \in Threads \ Important, WakeInDownload(t) PROVE MutexNext
  BY <1>9 DEF WakeInDownload, MutexNext
<1>10. ASSUME NEW w \in Workers, WakeSpuriously(w) PROVE UNCHANGED vars
  BY <1>10 DEF WakeSpuriously
<1>11. CASE UNCHANGED updaterVars
  BY <1>11 DEF updaterVars
<1>12. QED
  BY <1>2, <1>3, <1>4, <1>5, <1>6, <1>7, <1>8, <1>9, <1>10, <1>11 DEF UpdaterNext

LEMMA MutexInvHolds == UpdaterSpec => []MutexInv
<1>1. UpdaterInit => MutexInv
  BY InitEstablishesMutexInv DEF UpdaterInit
<1>2. MutexInv /\ [UpdaterNext]_updaterVars => MutexInv'
  BY UpdaterStepsAreMutexSteps, MutexNextKeepsMutexInv
<1>3. QED
  BY <1>1, <1>2, PTL DEF UpdaterSpec

(* A thread sleeps in lockLow only while an important download runs, whose *)
(* unlockHigh will wake it, and the counter never drifts.                  *)
THEOREM NobodySleepsForNothing == UpdaterSpec => []SleepersHaveAnImportantDownload
<1>1. MutexInv => SleepersHaveAnImportantDownload
  BY CountTestsForImportant
     DEF MutexInv, SleepersHaveAnImportantDownload, CountMatchesImportant
<1>2. QED
  BY <1>1, MutexInvHolds, PTL

-----------------------------------------------------------------------------
(* The refinement *)

LEMMA InitImplementsGate == Init => Gate!GateInit
BY DEF Init, Gate!GateInit, At

(* Every step of the mutex is a step of the abstract gate or leaves its    *)
(* state alone: a woken thread that has to sleep again changes nothing.    *)
LEMMA MutexNextImplementsGate ==
    MutexInv /\ [MutexNext]_vars => [Gate!GateNext]_(Gate!gateVars)
<1> SUFFICES ASSUME MutexInv, [MutexNext]_vars
             PROVE  Gate!GateNext \/ UNCHANGED Gate!gateVars
  OBVIOUS
<1> USE DEF MutexInv
<1>1. ASSUME NEW t \in Threads, LockHigh(t) PROVE Gate!EnterHigh(t)
  BY <1>1 DEF LockHigh, Move, Gate!EnterHigh, Gate!Outside, At
<1>2. ASSUME NEW t \in Threads, UnlockHigh(t) PROVE Gate!LeaveHigh(t)
  <2>1. /\ pc'[t] = "outside" /\ pc[t] = "important"
        /\ \A u \in Threads \ {t} : \/ pc'[u] = pc[u]
                                    \/ pc[u] = "waiting" /\ pc'[u] = "woken"
    BY <1>2 DEF UnlockHigh, MoveAndNotifyAll, Move
  <2>2. QED
    BY <2>1 DEF Gate!LeaveHigh, At
<1>3. ASSUME NEW t \in Threads, LockLow(t)
      PROVE  Gate!HoldBack(t) \/ Gate!AdmitLow(t) \/ UNCHANGED Gate!gateVars
  <2>1. CASE highTaskRunningCount > 0 /\ pc[t] = "outside"
    <3>1. At("important") # {}
      BY <2>1, CountTestsForImportant
    <3>2. Gate!HoldBack(t)
      BY <1>3, <2>1, <3>1 DEF LockLow, Move, Gate!HoldBack, Gate!Outside, At
    <3>3. QED
      BY <3>2
  <2>2. CASE highTaskRunningCount > 0 /\ pc[t] = "woken"
    BY <1>3, <2>2 DEF LockLow, Move, Gate!gateVars, At
  <2>3. CASE ~(highTaskRunningCount > 0)
    <3>1. At("important") = {}
      BY <2>3, CountTestsForImportant
    <3>2. Gate!AdmitLow(t)
      BY <1>3, <2>3, <3>1 DEF LockLow, Move, Gate!AdmitLow, Gate!Outside, At
    <3>3. QED
      BY <3>2
  <2>4. QED
    BY <1>3, <2>1, <2>2, <2>3 DEF LockLow
<1>4. ASSUME NEW t \in Threads, UnlockLow(t) PROVE Gate!LeaveLow(t)
  BY <1>4 DEF UnlockLow, Move, Gate!LeaveLow, At
<1>5. ASSUME NEW t \in Threads, SpuriousWakeup(t) PROVE UNCHANGED Gate!gateVars
  BY <1>5 DEF SpuriousWakeup, Move, Gate!gateVars, At
<1>6. CASE UNCHANGED vars
  BY <1>6 DEF vars, Gate!gateVars, At
<1>7. QED
  BY <1>1, <1>2, <1>3, <1>4, <1>5, <1>6 DEF MutexNext, Gate!GateNext

(* The Android mutex, used by any number of threads in the way             *)
(* CacheUpdater uses it, lets unimportant downloads in only while no       *)
(* important one runs.                                                     *)
THEOREM DownloadsImplementGate == UpdaterSpec => ImplementsPriorityGate
<1>1. UpdaterInit => Gate!GateInit
  BY InitImplementsGate DEF UpdaterInit
<1>2. MutexInv /\ [UpdaterNext]_updaterVars => [Gate!GateNext]_(Gate!gateVars)
  BY UpdaterStepsAreMutexSteps, MutexNextImplementsGate
<1>3. QED
  BY <1>1, <1>2, MutexInvHolds, PTL
     DEF UpdaterSpec, ImplementsPriorityGate, Gate!GateSafety

-----------------------------------------------------------------------------
(* The bounded sets *)

IsMovieSet(set) == set \in Seq(Movies) /\ IsInjective(set)

SetsTyped ==
    /\ IsMovieSet(prioritizedMovieOperations)
    /\ IsMovieSet(movieOperations)
    /\ IsMovieSet(imageOperations)
    /\ Len(prioritizedMovieOperations) <= MaxSize
    /\ Len(imageOperations) <= MaxSize
    /\ adding \in Movies \cup {NoMovie}

(* Taking the oldest movie out leaves a set. *)
LEMMA TailOfMovieSet ==
    ASSUME NEW set, IsMovieSet(set), set # <<>>
    PROVE  IsMovieSet(Tail(set)) /\ Len(Tail(set)) = Len(set) - 1 /\ Head(set) \in Movies
<1>1. /\ Tail(set) \in Seq(Movies) /\ Head(set) \in Movies
      /\ Len(Tail(set)) = Len(set) - 1 /\ Len(set) \in Nat
      /\ \A i \in 1..Len(Tail(set)) : Tail(set)[i] = set[i + 1]
  BY HeadTailProperties DEF IsMovieSet
<1>2. IsInjective(Tail(set))
  <2> SUFFICES ASSUME NEW i \in 1..Len(Tail(set)), NEW j \in 1..Len(Tail(set)),
                      Tail(set)[i] = Tail(set)[j]
               PROVE  i = j
    BY <1>1 DEF IsInjective
  <2>1. set[i + 1] = set[j + 1] /\ i + 1 \in DOMAIN set /\ j + 1 \in DOMAIN set
    BY <1>1 DEF IsMovieSet
  <2>2. i + 1 = j + 1
    BY <2>1 DEF IsMovieSet, IsInjective
  <2>3. QED
    BY <2>2
<1>3. QED
  BY <1>1, <1>2 DEF IsMovieSet

(* Added keeps a set a set, and within its size if it has one. *)
LEMMA AddedIsMovieSet ==
    ASSUME NEW set, IsMovieSet(set), NEW movie \in Movies, NEW size \in Int
    PROVE  /\ IsMovieSet(Added(set, movie, size))
           /\ size > 0 /\ Len(set) <= size => Len(Added(set, movie, size)) <= size
<1> DEFINE longer == Append(set, movie)
<1>1. CASE Contains(set, movie)
  BY <1>1 DEF Added
<1>2. CASE ~Contains(set, movie)
  <2>1. /\ longer \in Seq(Movies) /\ longer # <<>>
        /\ Len(longer) = Len(set) + 1 /\ Len(set) \in Nat
        /\ \A i \in 1..Len(set) : longer[i] = set[i]
        /\ longer[Len(set) + 1] = movie
    BY AppendProperties DEF IsMovieSet
  <2>2. \A i \in 1..Len(set) : set[i] # movie
    BY <1>2 DEF Contains
  <2>3. IsInjective(longer)
    <3> HIDE DEF longer
    <3> SUFFICES ASSUME NEW i \in 1..(Len(set) + 1), NEW j \in 1..(Len(set) + 1),
                        longer[i] = longer[j]
                 PROVE  i = j
      BY <2>1 DEF IsInjective
    <3>1. DOMAIN set = 1..Len(set)
      BY DEF IsMovieSet
    <3>2. QED
      BY <2>1, <2>2, <3>1 DEF IsMovieSet, IsInjective
  <2>4. IsMovieSet(longer)
    BY <2>1, <2>3 DEF IsMovieSet
  <2>5. IsMovieSet(Tail(longer)) /\ Len(Tail(longer)) = Len(set)
    <3> HIDE DEF longer
    <3>1. QED
      BY <2>1, <2>4, TailOfMovieSet
  <2>6. Added(set, movie, size) = IF size > 0 /\ Len(longer) > size THEN Tail(longer)
                                  ELSE longer
    BY <1>2 DEF Added
  <2>7. QED
    <3> HIDE DEF longer
    <3>1. QED
      BY <2>1, <2>4, <2>5, <2>6
<1>3. QED
  BY <1>1, <1>2

-----------------------------------------------------------------------------
(* The threads *)

Updaters == Threads \ Important

WorkPlaces == {"idle", "looking", "waiting", "taken", "cache", "add", "download",
               "between", "done"}

(* A thread has a movie from the moment it takes it, and while it is at a  *)
(* cache it has that cache on its list.                                    *)
ThreadsTyped ==
    /\ state \in [Updaters -> WorkPlaces]
    /\ job \in [Updaters -> [movie : Movies \cup {NoMovie}, todo : Seq(Range(Caches))]]
    /\ updated \in [Range(Caches) -> SUBSET Movies]
    /\ shutdown \in BOOLEAN
    /\ \A t \in Updaters :
          /\ state[t] \in {"taken", "cache", "add", "download", "between"} =>
                job[t].movie \in Movies
          /\ state[t] \in {"taken", "cache", "add", "download"} => job[t].todo # <<>>

(* Important threads never wait for the mutex, and the others are in it    *)
(* only while they download.                                               *)
MutexUse ==
    /\ \A t \in Important : pc[t] \in {"outside", "important"}
    /\ \A t \in Updaters : /\ pc[t] # "important"
                           /\ pc[t] # "outside" => state[t] = "download"

(* The inductive invariant of the whole. *)
IInv == MutexInv /\ SetsTyped /\ ThreadsTyped /\ MutexUse

(* The part of it that is not about the mutex alone. *)
WorkInv == SetsTyped /\ ThreadsTyped /\ MutexUse

LEMMA CachesAreThere ==
    /\ Caches \in Seq(Range(Caches)) /\ Caches # <<>>
    /\ <<Poster>> \in Seq(Range(Caches)) /\ <<Poster>> # <<>>
<1>1. Caches \in Seq(Range(Caches)) /\ Caches # <<>>
  BY UpdaterAssumption DEF UpdaterAssumption
<1>2. Poster \in Range(Caches)
  BY <1>1, HeadTailProperties DEF Poster
<1>3. QED
  BY <1>1, <1>2

LEMMA ThreadsAre ==
    /\ Workers \subseteq Updaters /\ Urgent \subseteq Updaters
    /\ Important \subseteq Threads /\ Workers \cap Urgent = {}
BY UpdaterAssumption DEF UpdaterAssumption, Workers, Updaters

LEMMA InitEstablishesWorkInv == UpdaterInit => WorkInv
<1> SUFFICES ASSUME UpdaterInit PROVE WorkInv
  OBVIOUS
<1> USE DEF UpdaterInit
<1>1. IsMovieSet(<<>>)
  BY EmptySeq DEF IsMovieSet, IsInjective
<1>2. SetsTyped
  BY <1>1, UpdaterAssumption DEF UpdaterAssumption, SetsTyped
<1>3. ThreadsTyped
  <2>1. state \in [Updaters -> WorkPlaces]
    BY DEF Updaters, WorkPlaces
  <2>2. job \in [Updaters -> [movie : Movies \cup {NoMovie}, todo : Seq(Range(Caches))]]
    BY EmptySeq DEF Updaters, NoJob
  <2>3. \A t \in Updaters : state[t] \in {"looking", "idle"}
    BY DEF Updaters
  <2>4. QED
    BY <2>1, <2>2, <2>3 DEF ThreadsTyped
<1>4. MutexUse
  BY ThreadsAre DEF Init, MutexUse, Updaters
<1>5. QED
  BY <1>2, <1>3, <1>4 DEF WorkInv

(* notifyAll moves only threads that wait for a movie. *)
LEMMA NotifyAllKeepsThreads ==
    ASSUME ThreadsTyped, MutexUse, NotifyAll, UNCHANGED <<pc, job, updated>>,
           shutdown' \in BOOLEAN
    PROVE  ThreadsTyped' /\ MutexUse'
<1>1. /\ state' \in [Updaters -> WorkPlaces]
      /\ \A t \in Updaters : \/ state'[t] = state[t]
                             \/ /\ state[t] = "waiting"
                                /\ state'[t] = "looking"
  <2>1. state \in [Updaters -> WorkPlaces] /\ DOMAIN state = Updaters
    BY DEF ThreadsTyped
  <2>2. state' = [t \in Updaters |->
                     IF state[t] = "waiting" THEN "looking" ELSE state[t]]
    BY <2>1 DEF NotifyAll
  <2>3. "looking" \in WorkPlaces
    BY DEF WorkPlaces
  <2>4. \A t \in Updaters :
           state'[t] = IF state[t] = "waiting" THEN "looking" ELSE state[t]
    BY <2>2
  <2>5. state' \in [Updaters -> WorkPlaces]
    BY <2>1, <2>2, <2>3
  <2>6. QED
    BY <2>4, <2>5
<1>2. ThreadsTyped'
  BY <1>1 DEF ThreadsTyped
<1>3. MutexUse'
  BY <1>1 DEF MutexUse
<1>4. QED
  BY <1>2, <1>3

LEMMA AddMoviesKeepsWorkInv ==
    ASSUME WorkInv, NEW m \in Movies, NEW n \in Movies, AddMovies(<<m, n>>)
    PROVE  WorkInv'
<1> USE DEF WorkInv, AddMovies, vars
<1>1. IsMovieSet(movieOperations')
  <2>1. movieOperations' = Added(Added(movieOperations, n, -1), m, -1)
    BY DEF AddedAll
  <2>2. IsMovieSet(Added(movieOperations, n, -1))
    BY AddedIsMovieSet DEF SetsTyped
  <2>3. QED
    BY <2>1, <2>2, AddedIsMovieSet
<1>2. SetsTyped'
  BY <1>1 DEF SetsTyped
<1>3. ThreadsTyped' /\ MutexUse'
  BY NotifyAllKeepsThreads DEF ThreadsTyped
<1>4. QED
  BY <1>2, <1>3

LEMMA PrioritizeKeepsWorkInv ==
    ASSUME WorkInv, NEW movie \in Movies, Prioritize(movie) PROVE WorkInv'
<1> USE DEF WorkInv, Prioritize, vars
<1>1. MaxSize \in Int /\ MaxSize > 0
  BY UpdaterAssumption DEF UpdaterAssumption
<1>2. /\ IsMovieSet(prioritizedMovieOperations')
      /\ Len(prioritizedMovieOperations') <= MaxSize
  BY <1>1, AddedIsMovieSet DEF SetsTyped
<1>3. SetsTyped'
  BY <1>2 DEF SetsTyped
<1>4. ThreadsTyped' /\ MutexUse'
  BY NotifyAllKeepsThreads DEF ThreadsTyped
<1>5. QED
  BY <1>3, <1>4

LEMMA PrioritizeImagesKeepsWorkInv ==
    ASSUME WorkInv, PrioritizeImages PROVE WorkInv'
<1> USE DEF WorkInv, PrioritizeImages, vars
<1>1. MaxSize \in Int /\ MaxSize > 0
  BY UpdaterAssumption DEF UpdaterAssumption
<1>2. adding \in Movies
  BY DEF SetsTyped
<1>3. IsMovieSet(imageOperations') /\ Len(imageOperations') <= MaxSize
  BY <1>1, <1>2, AddedIsMovieSet DEF SetsTyped
<1>4. SetsTyped'
  BY <1>3 DEF SetsTyped
<1>5. ThreadsTyped' /\ MutexUse'
  BY NotifyAllKeepsThreads DEF ThreadsTyped
<1>6. QED
  BY <1>4, <1>5

LEMMA ShutdownKeepsWorkInv ==
    ASSUME WorkInv, Shutdown PROVE WorkInv'
<1> USE DEF WorkInv, Shutdown, vars, queues
<1>1. ThreadsTyped' /\ MutexUse'
  BY NotifyAllKeepsThreads
<1>2. QED
  BY <1>1 DEF SetsTyped

LEMMA LowMemoryKeepsWorkInv ==
    ASSUME WorkInv, NEW c \in Range(Caches), LowMemory(c) PROVE WorkInv'
<1> USE DEF WorkInv, LowMemory, vars
<1>1. updated' \in [Range(Caches) -> SUBSET Movies]
  BY DEF ThreadsTyped
<1>2. QED
  BY <1>1 DEF SetsTyped, ThreadsTyped, MutexUse

(* A step that moves one updater from one place to another, gives it a job *)
(* that suits the place, and does not touch the mutex.                     *)
LEMMA MoveKeepsThreads ==
    ASSUME ThreadsTyped, MutexUse, NEW t \in Updaters, NEW place \in WorkPlaces,
           Become(t, place), state[t] # "download", UNCHANGED <<pc, shutdown>>,
           updated' \in [Range(Caches) -> SUBSET Movies],
           NEW j \in [movie : Movies \cup {NoMovie}, todo : Seq(Range(Caches))],
           job' = [job EXCEPT ![t] = j],
           place \in {"taken", "cache", "add", "download", "between"} => j.movie \in Movies,
           place \in {"taken", "cache", "add", "download"} => j.todo # <<>>
    PROVE  ThreadsTyped' /\ MutexUse'
<1>1. /\ state' \in [Updaters -> WorkPlaces]
      /\ state'[t] = place
      /\ \A u \in Updaters \ {t} : state'[u] = state[u]
  BY DEF ThreadsTyped, Become
<1>2. /\ job' \in [Updaters -> [movie : Movies \cup {NoMovie}, todo : Seq(Range(Caches))]]
      /\ job'[t] = j
      /\ \A u \in Updaters \ {t} : job'[u] = job[u]
  BY DEF ThreadsTyped
<1>3. ThreadsTyped'
  BY <1>1, <1>2 DEF ThreadsTyped
<1>4. MutexUse'
  BY <1>1 DEF MutexUse
<1>5. QED
  BY <1>3, <1>4

LEMMA PrioritizeNowKeepsWorkInv ==
    ASSUME WorkInv, NEW t \in Urgent, NEW movie \in Movies, PrioritizeNow(t, movie)
    PROVE  WorkInv'
<1> USE DEF WorkInv, PrioritizeNow, vars
<1> DEFINE j == [movie |-> movie, todo |-> Caches]
<1>1. j \in [movie : Movies \cup {NoMovie}, todo : Seq(Range(Caches))]
  BY CachesAreThere
<1>2. j.movie \in Movies /\ j.todo # <<>> /\ t \in Updaters /\ "cache" \in WorkPlaces
  BY CachesAreThere, ThreadsAre DEF WorkPlaces
<1>3. ThreadsTyped' /\ MutexUse'
  <2>1. UNCHANGED <<pc, shutdown>> /\ job' = [job EXCEPT ![t] = j]
    OBVIOUS
  <2>2. updated' \in [Range(Caches) -> SUBSET Movies]
    BY DEF ThreadsTyped
  <2>3. Become(t, "cache") /\ state[t] # "download"
    BY DEF Become
  <2> HIDE DEF j, PrioritizeNow
  <2>4. QED
    BY <1>1, <1>2, <2>1, <2>2, <2>3, MoveKeepsThreads
<1>4. QED
  BY <1>3 DEF SetsTyped

(* The same without a new job. *)
LEMMA MoveOnKeepsThreads ==
    ASSUME ThreadsTyped, MutexUse, NEW t \in Updaters, NEW place \in WorkPlaces,
           Become(t, place), state[t] # "download", UNCHANGED <<pc, shutdown, job>>,
           updated' \in [Range(Caches) -> SUBSET Movies],
           \/ place \notin {"taken", "cache", "add", "download", "between"}
           \/ job[t].movie \in Movies /\ job[t].todo # <<>>
    PROVE  ThreadsTyped' /\ MutexUse'
<1>1. job[t] \in [movie : Movies \cup {NoMovie}, todo : Seq(Range(Caches))]
  BY DEF ThreadsTyped
<1>2. job' = [job EXCEPT ![t] = job[t]]
  BY DEF ThreadsTyped
<1>3. QED
  BY <1>1, <1>2, MoveKeepsThreads

LEMMA TakeKeepsThreads ==
    ASSUME ThreadsTyped, MutexUse, NEW w \in Workers, NEW movie \in Movies,
           state[w] = "looking", Take(w, movie), UNCHANGED <<pc, shutdown, updated>>
    PROVE  ThreadsTyped' /\ MutexUse'
<1>1. /\ Job(w, movie) \in [movie : Movies \cup {NoMovie}, todo : Seq(Range(Caches))]
      /\ Job(w, movie).movie \in Movies /\ Job(w, movie).todo # <<>>
  BY CachesAreThere DEF Job
<1>2. w \in Updaters /\ "taken" \in WorkPlaces
  BY ThreadsAre DEF WorkPlaces
<1>3. Become(w, "taken") /\ job' = [job EXCEPT ![w] = Job(w, movie)]
  BY DEF Take
<1>4. updated' \in [Range(Caches) -> SUBSET Movies]
  BY DEF ThreadsTyped
<1>5. QED
  BY <1>1, <1>2, <1>3, <1>4, MoveKeepsThreads

LEMMA LookKeepsWorkInv ==
    ASSUME WorkInv, NEW w \in Workers, Look(w) PROVE WorkInv'
<1> USE DEF WorkInv, Look, vars
<1>1. w \in Updaters /\ {"done", "waiting"} \subseteq WorkPlaces
  BY ThreadsAre DEF WorkPlaces
<1>2. updated' \in [Range(Caches) -> SUBSET Movies] /\ UNCHANGED <<pc, shutdown>>
  BY DEF ThreadsTyped
<1>3. CASE /\ Become(w, "done") \/ Become(w, "waiting")
           /\ UNCHANGED <<job, imagesOnly, prioritizedMovieOperations, movieOperations>>
  <2>1. ThreadsTyped' /\ MutexUse'
    BY <1>1, <1>2, <1>3, MoveOnKeepsThreads
  <2>2. QED
    BY <1>3, <2>1 DEF SetsTyped
<1>4. CASE /\ prioritizedMovieOperations # <<>>
           /\ Take(w, Head(prioritizedMovieOperations))
           /\ prioritizedMovieOperations' = Tail(prioritizedMovieOperations)
           /\ UNCHANGED movieOperations
  <2>1. /\ Head(prioritizedMovieOperations) \in Movies
        /\ IsMovieSet(Tail(prioritizedMovieOperations))
        /\ Len(Tail(prioritizedMovieOperations)) = Len(prioritizedMovieOperations) - 1
        /\ Len(prioritizedMovieOperations) \in Nat
    BY <1>4, TailOfMovieSet DEF SetsTyped, IsMovieSet
  <2>2. Len(Tail(prioritizedMovieOperations)) <= MaxSize
    BY <2>1, UpdaterAssumption DEF UpdaterAssumption, SetsTyped
  <2>3. SetsTyped'
    BY <1>4, <2>1, <2>2 DEF SetsTyped
  <2>4. ThreadsTyped' /\ MutexUse'
    BY <1>4, <2>1, TakeKeepsThreads
  <2>5. QED
    BY <2>3, <2>4
<1>5. CASE /\ movieOperations # <<>>
           /\ Take(w, Head(movieOperations))
           /\ movieOperations' = Tail(movieOperations)
           /\ UNCHANGED prioritizedMovieOperations
  <2>1. Head(movieOperations) \in Movies /\ IsMovieSet(Tail(movieOperations))
    BY <1>5, TailOfMovieSet DEF SetsTyped
  <2>2. SetsTyped'
    BY <1>5, <2>1 DEF SetsTyped
  <2>3. ThreadsTyped' /\ MutexUse'
    BY <1>5, <2>1, TakeKeepsThreads
  <2>4. QED
    BY <2>2, <2>3
<1>6. QED
  BY <1>3, <1>4, <1>5

LEMMA WakeSpuriouslyKeepsWorkInv ==
    ASSUME WorkInv, NEW w \in Workers, WakeSpuriously(w) PROVE WorkInv'
<1> USE DEF WorkInv, WakeSpuriously, vars, queues
<1>1. w \in Updaters /\ "looking" \in WorkPlaces
  BY ThreadsAre DEF WorkPlaces
<1>2. ThreadsTyped' /\ MutexUse'
  BY <1>1, MoveOnKeepsThreads DEF ThreadsTyped
<1>3. QED
  BY <1>2 DEF SetsTyped

LEMMA NoJobIsJob == NoJob \in [movie : Movies \cup {NoMovie}, todo : Seq(Range(Caches))]
BY EmptySeq DEF NoJob

LEMMA BeginKeepsWorkInv ==
    ASSUME WorkInv, NEW w \in Workers, Begin(w) PROVE WorkInv'
<1> USE DEF WorkInv, Begin, vars, queues
<1>1. w \in Updaters /\ {"done", "cache"} \subseteq WorkPlaces
  BY ThreadsAre DEF WorkPlaces
<1>2. /\ updated' \in [Range(Caches) -> SUBSET Movies] /\ UNCHANGED <<pc, shutdown>>
      /\ job[w].movie \in Movies /\ job[w].todo # <<>>
  BY <1>1 DEF ThreadsTyped
<1>3. CASE shutdown
  BY <1>1, <1>2, <1>3, NoJobIsJob, MoveKeepsThreads DEF SetsTyped
<1>4. CASE ~shutdown
  BY <1>1, <1>2, <1>4, MoveOnKeepsThreads DEF SetsTyped
<1>5. QED
  BY <1>3, <1>4

(* The cache that is done is taken off the list. *)
LEMMA CacheDoneKeepsJob ==
    ASSUME ThreadsTyped, NEW t \in Updaters, CacheDone(t),
           state[t] \in {"cache", "add", "download"}
    PROVE  /\ Become(t, "between")
           /\ \E j \in [movie : Movies \cup {NoMovie}, todo : Seq(Range(Caches))] :
                 job' = [job EXCEPT ![t] = j] /\ j.movie \in Movies
<1> DEFINE j == [job[t] EXCEPT !.todo = Tail(job[t].todo)]
<1>1. job[t].movie \in Movies /\ job[t].todo \in Seq(Range(Caches)) /\ job[t].todo # <<>>
  BY DEF ThreadsTyped
<1>2. Tail(job[t].todo) \in Seq(Range(Caches))
  BY <1>1, HeadTailProperties
<1>3. /\ j \in [movie : Movies \cup {NoMovie}, todo : Seq(Range(Caches))]
      /\ j.movie \in Movies
  BY <1>1, <1>2 DEF ThreadsTyped
<1>4. job' = [job EXCEPT ![t] = j]
  BY DEF CacheDone, ThreadsTyped
<1>5. QED
  <2> HIDE DEF j
  <2>1. QED
    BY <1>3, <1>4 DEF CacheDone

LEMMA CacheDoneKeepsThreads ==
    ASSUME ThreadsTyped, MutexUse, NEW t \in Updaters, CacheDone(t),
           state[t] \in {"cache", "add"}, UNCHANGED <<pc, shutdown>>,
           updated' \in [Range(Caches) -> SUBSET Movies]
    PROVE  ThreadsTyped' /\ MutexUse'
<1>1. PICK j \in [movie : Movies \cup {NoMovie}, todo : Seq(Range(Caches))] :
           Become(t, "between") /\ job' = [job EXCEPT ![t] = j] /\ j.movie \in Movies
  BY CacheDoneKeepsJob
<1>2. "between" \in WorkPlaces /\ state[t] # "download"
  BY DEF WorkPlaces
<1>3. QED
  BY <1>1, <1>2, MoveKeepsThreads

LEMMA AskCacheKeepsWorkInv ==
    ASSUME WorkInv, NEW t \in Updaters, AskCache(t) PROVE WorkInv'
<1> USE DEF WorkInv, AskCache, vars, queues
<1>1. /\ updated' \in [Range(Caches) -> SUBSET Movies] /\ UNCHANGED <<pc, shutdown>>
      /\ job[t].movie \in Movies /\ job[t].todo # <<>> /\ "add" \in WorkPlaces
  BY DEF ThreadsTyped, WorkPlaces
<1>2. CASE CacheDone(t)
  BY <1>1, <1>2, CacheDoneKeepsThreads DEF SetsTyped
<1>3. CASE Become(t, "add") /\ UNCHANGED job
  BY <1>1, <1>3, MoveOnKeepsThreads DEF SetsTyped
<1>4. QED
  BY <1>2, <1>3

LEMMA AddToUpdatedKeepsWorkInv ==
    ASSUME WorkInv, NEW t \in Updaters, AddToUpdated(t) PROVE WorkInv'
<1> USE DEF WorkInv, AddToUpdated, vars, queues
<1>1. /\ job[t].movie \in Movies /\ job[t].todo # <<>> /\ "download" \in WorkPlaces
      /\ UNCHANGED <<pc, shutdown>>
  BY DEF ThreadsTyped, WorkPlaces
<1>2. updated' \in [Range(Caches) -> SUBSET Movies]
  BY <1>1 DEF ThreadsTyped
<1>3. CASE CacheDone(t)
  BY <1>1, <1>2, <1>3, CacheDoneKeepsThreads DEF SetsTyped
<1>4. CASE Become(t, "download") /\ UNCHANGED job
  BY <1>1, <1>2, <1>4, MoveOnKeepsThreads DEF SetsTyped
<1>5. QED
  BY <1>3, <1>4

LEMMA NextCacheKeepsWorkInv ==
    ASSUME WorkInv, NEW t \in Updaters, NextCache(t) PROVE WorkInv'
<1> USE DEF WorkInv, NextCache, vars, queues
<1>1. /\ {"idle", "done", "looking", "cache"} \subseteq WorkPlaces
      /\ updated' \in [Range(Caches) -> SUBSET Movies] /\ UNCHANGED <<pc, shutdown>>
      /\ job[t].movie \in Movies
  BY DEF ThreadsTyped, WorkPlaces
<1>2. CASE job[t].todo = <<>> \/ shutdown
  <2>1. PICK place \in {"idle", "done", "looking"} :
             Become(t, place) /\ job' = [job EXCEPT ![t] = NoJob]
    BY <1>2
  <2>2. QED
    BY <1>1, <2>1, NoJobIsJob, MoveKeepsThreads DEF SetsTyped
<1>3. CASE ~(job[t].todo = <<>> \/ shutdown)
  BY <1>1, <1>3, MoveOnKeepsThreads DEF SetsTyped
<1>4. QED
  BY <1>2, <1>3

-----------------------------------------------------------------------------
(* Steps of the mutex *)

LEMMA StartImportantKeepsWorkInv ==
    ASSUME MutexInv, WorkInv, NEW t \in Important, StartImportant(t) \/ FinishImportant(t)
    PROVE  WorkInv'
<1> USE DEF WorkInv, StartImportant, FinishImportant, queues, work
<1>1. /\ t \in Threads /\ t \notin Updaters
      /\ \A u \in Updaters : u \in Threads /\ u # t
      /\ \A u \in Important : u \in Threads
  BY ThreadsAre DEF Updaters
<1>2. /\ pc'[t] \in {"outside", "important"}
      /\ \A u \in Threads \ {t} : \/ pc'[u] = pc[u]
                                  \/ pc[u] = "waiting" /\ pc'[u] = "woken"
  BY <1>1 DEF MutexInv, LockHigh, UnlockHigh, MoveAndNotifyAll, Move
<1>3. MutexUse'
  BY <1>1, <1>2 DEF MutexUse
<1>4. QED
  BY <1>3 DEF SetsTyped, ThreadsTyped

LEMMA StartDownloadKeepsWorkInv ==
    ASSUME MutexInv, WorkInv, NEW t \in Updaters, StartDownload(t) \/ WakeInDownload(t)
    PROVE  WorkInv'
<1> USE DEF WorkInv, StartDownload, WakeInDownload, queues, work
<1>1. t \in Threads /\ t \notin Important
  BY DEF Updaters
<1>2. /\ pc'[t] \in {"waiting", "unimportant", "woken"}
      /\ \A u \in Threads \ {t} : pc'[u] = pc[u]
  BY <1>1 DEF MutexInv, LockLow, SpuriousWakeup, Move
<1>3. state[t] = "download"
  BY DEF MutexUse, SpuriousWakeup
<1>4. MutexUse'
  BY <1>1, <1>2, <1>3, ThreadsAre DEF MutexUse, Updaters
<1>5. QED
  BY <1>4 DEF SetsTyped, ThreadsTyped

LEMMA FinishDownloadKeepsWorkInv ==
    ASSUME MutexInv, WorkInv, NEW t \in Updaters, FinishDownload(t) PROVE WorkInv'
<1> USE DEF WorkInv, FinishDownload, queues
<1>1. t \in Threads /\ t \notin Important
  BY DEF Updaters
<1>2. pc'[t] = "outside" /\ \A u \in Threads \ {t} : pc'[u] = pc[u]
  BY <1>1 DEF MutexInv, UnlockLow, Move
<1>3. PICK j \in [movie : Movies \cup {NoMovie}, todo : Seq(Range(Caches))] :
           Become(t, "between") /\ job' = [job EXCEPT ![t] = j] /\ j.movie \in Movies
  BY CacheDoneKeepsJob
<1>4. /\ state' \in [Updaters -> WorkPlaces] /\ state'[t] = "between"
      /\ \A u \in Updaters \ {t} : state'[u] = state[u]
  BY <1>3 DEF ThreadsTyped, Become, WorkPlaces
<1>5. /\ job' \in [Updaters -> [movie : Movies \cup {NoMovie}, todo : Seq(Range(Caches))]]
      /\ job'[t] = j
      /\ \A u \in Updaters \ {t} : job'[u] = job[u]
  BY <1>3 DEF ThreadsTyped
<1>6. ThreadsTyped'
  BY <1>3, <1>4, <1>5 DEF ThreadsTyped
<1>7. MutexUse'
  BY <1>1, <1>2, <1>4, ThreadsAre DEF MutexUse, Updaters
<1>8. QED
  BY <1>6, <1>7 DEF SetsTyped

LEMMA StepKeepsWorkInv ==
    ASSUME MutexInv, WorkInv, NEW t \in Updaters, Step(t) PROVE WorkInv'
<1>1. CASE t \in Workers /\ (Look(t) \/ Begin(t))
  BY <1>1, LookKeepsWorkInv, BeginKeepsWorkInv
<1>2. CASE AskCache(t) \/ AddToUpdated(t) \/ NextCache(t)
  BY <1>2, AskCacheKeepsWorkInv, AddToUpdatedKeepsWorkInv, NextCacheKeepsWorkInv
<1>3. CASE StartDownload(t) \/ FinishDownload(t)
  BY <1>3, StartDownloadKeepsWorkInv, FinishDownloadKeepsWorkInv
<1>4. QED
  BY <1>1, <1>2, <1>3 DEF Step

LEMMA NextKeepsIInv == IInv /\ [UpdaterNext]_updaterVars => IInv'
<1> SUFFICES ASSUME MutexInv, WorkInv, [UpdaterNext]_updaterVars
             PROVE  MutexInv' /\ WorkInv'
  BY DEF IInv, WorkInv
<1>1. MutexInv'
  BY UpdaterStepsAreMutexSteps, MutexNextKeepsMutexInv
<1>2. ASSUME NEW m \in Movies, NEW n \in Movies, AddMovies(<<m, n>>) PROVE WorkInv'
  BY <1>2, AddMoviesKeepsWorkInv
<1>3. ASSUME NEW m \in Movies, Prioritize(m) PROVE WorkInv'
  BY <1>3, PrioritizeKeepsWorkInv
<1>4. ASSUME PrioritizeImages PROVE WorkInv'
  BY <1>4, PrioritizeImagesKeepsWorkInv
<1>5. ASSUME NEW t \in Urgent, NEW m \in Movies, PrioritizeNow(t, m) PROVE WorkInv'
  BY <1>5, PrioritizeNowKeepsWorkInv
<1>6. ASSUME Shutdown PROVE WorkInv'
  BY <1>6, ShutdownKeepsWorkInv
<1>7. ASSUME NEW c \in Range(Caches), LowMemory(c) PROVE WorkInv'
  BY <1>7, LowMemoryKeepsWorkInv
<1>8. ASSUME NEW t \in Important, StartImportant(t) \/ FinishImportant(t) PROVE WorkInv'
  BY <1>8, StartImportantKeepsWorkInv
<1>9. ASSUME NEW t \in Threads \ Important, Step(t) PROVE WorkInv'
  BY <1>9, StepKeepsWorkInv DEF Updaters
<1>10. ASSUME NEW t \in Threads \ Important, WakeInDownload(t) PROVE WorkInv'
  BY <1>10, StartDownloadKeepsWorkInv DEF Updaters
<1>11. ASSUME NEW w \in Workers, WakeSpuriously(w) PROVE WorkInv'
  BY <1>11, WakeSpuriouslyKeepsWorkInv
<1>12. ASSUME UNCHANGED updaterVars PROVE WorkInv'
  BY <1>12 DEF updaterVars, vars, queues, work, WorkInv, SetsTyped, ThreadsTyped,
               MutexUse
<1>13. WorkInv'
  BY <1>2, <1>3, <1>4, <1>5, <1>6, <1>7, <1>8, <1>9, <1>10, <1>11, <1>12
     DEF UpdaterNext
<1>14. QED
  BY <1>1, <1>13

LEMMA IInvHolds == UpdaterSpec => []IInv
<1>1. UpdaterInit => IInv
  BY InitEstablishesMutexInv, InitEstablishesWorkInv DEF UpdaterInit, IInv, WorkInv
<1>2. QED
  BY <1>1, NextKeepsIInv, PTL DEF UpdaterSpec

-----------------------------------------------------------------------------
(* What follows from it *)

(* The bounded sets hold no movie twice and never more than their bound, a *)
(* thread at a cache has a cache to ask, and the counter stays in bounds.  *)
THEOREM TypeCorrect == UpdaterSpec => []UpdaterTypeOK
<1>1. IInv => UpdaterTypeOK
  <2> SUFFICES ASSUME IInv PROVE UpdaterTypeOK
    OBVIOUS
  <2> USE DEF IInv
  <2>1. TypeOK
    <3>1. At("important") \subseteq Threads
      BY DEF At
    <3>2. /\ Cardinality(At("important")) <= Cardinality(Threads)
          /\ Cardinality(Threads) \in Nat
      BY <3>1, ThreadsFinite, FS_Subset, FS_CardinalityType DEF ThreadsFinite
    <3>3. highTaskRunningCount \in Nat
      BY CountTestsForImportant DEF MutexInv
    <3>4. QED
      BY <3>2, <3>3 DEF MutexInv, TypeOK, CountMatchesImportant
  <2>2. /\ \A set \in {prioritizedMovieOperations, movieOperations, imageOperations} :
              set \in Seq(Movies) /\ IsInjective(set)
        /\ Len(prioritizedMovieOperations) <= MaxSize
        /\ Len(imageOperations) <= MaxSize
        /\ adding \in Movies \cup {NoMovie}
    BY DEF SetsTyped, IsMovieSet
  <2>3. /\ state \in [Threads \ Important ->
                        {"idle", "looking", "waiting", "taken", "cache", "add",
                         "download", "between", "done"}]
        /\ \A t \in Threads \ Important :
              /\ job[t].movie \in Movies \cup {NoMovie}
              /\ job[t].todo \in Seq(Range(Caches))
              /\ state[t] \in {"cache", "add", "download"} => job[t].todo # <<>>
        /\ updated \in [Range(Caches) -> SUBSET Movies]
        /\ shutdown \in BOOLEAN
    BY DEF ThreadsTyped, Updaters, WorkPlaces
  <2>4. QED
    BY <2>1, <2>2, <2>3 DEF UpdaterTypeOK
<1>2. QED
  BY <1>1, IInvHolds, PTL

(* Theater and score downloads are never held back, and a thread that waits *)
(* for them to finish is downloading a poster or page of a cache it has     *)
(* still on its list, not between two caches.                               *)
WaitersDownload ==
    \A t \in At("waiting") \cup At("woken") :
        /\ t \notin Important
        /\ state[t] = "download"
        /\ job[t].todo # <<>>

(* No thread is held up by the mutex outside of a download. *)
THEOREM OnlyDownloadsWait == UpdaterSpec => []WaitersDownload
<1>1. IInv => WaitersDownload
  <2> SUFFICES ASSUME IInv, NEW t \in Threads, pc[t] \in {"waiting", "woken"}
               PROVE  t \notin Important /\ state[t] = "download" /\ job[t].todo # <<>>
    BY DEF WaitersDownload, At
  <2>1. t \notin Important
    BY DEF IInv, MutexUse
  <2>2. t \in Updaters
    BY <2>1 DEF Updaters
  <2>3. state[t] = "download"
    BY <2>2 DEF IInv, MutexUse
  <2>4. QED
    BY <2>1, <2>2, <2>3 DEF IInv, ThreadsTyped
<1>2. QED
  BY <1>1, IInvHolds, PTL
=============================================================================
