---------------------------- MODULE DownloadMutex ----------------------------
(***************************************************************************)
(* The Android code: NetworkUtilities.download brackets every download     *)
(* with the static PriorityMutex of threading/PriorityMutex.java.  The     *)
(* caller says whether the download is important (theater and score data)  *)
(* or not (posters).  synchronized blocks that do not wait are one step;   *)
(* lock.wait() is as in PriorityMutex.  Unlike the iPhone mutex,           *)
(* unlockHigh wakes every waiting thread and unlockLow does nothing.       *)
(***************************************************************************)
EXTENDS Integers, FiniteSets

CONSTANT Threads

ASSUME ThreadsFinite == IsFiniteSet(Threads)

VARIABLES
    highTaskRunningCount,   \* the field of that name
    pc                      \* where each thread is in download

vars == <<highTaskRunningCount, pc>>

Places == {"outside", "important", "unimportant", "waiting", "woken"}

At(place) == {t \in Threads : pc[t] = place}

TypeOK ==
    /\ highTaskRunningCount \in 0..Cardinality(Threads)
    /\ pc \in [Threads -> Places]

Init ==
    /\ highTaskRunningCount = 0
    /\ pc = [t \in Threads |-> "outside"]

-----------------------------------------------------------------------------
(* Mutation of MoveAndNotifyAll: notify() in place of notifyAll(). *)
MoveAndNotifyOne(t, place) ==
    \/ /\ At("waiting") = {}
       /\ pc' = [pc EXCEPT ![t] = place]
    \/ \E w \in At("waiting") : pc' = [pc EXCEPT ![t] = place, ![w] = "woken"]

(* pc after t moved to place and lock.notifyAll() woke every waiter. *)
MoveAndNotifyAll(t, place) ==
    pc' = [u \in Threads |->
              IF u = t THEN place
              ELSE IF pc[u] = "waiting" THEN "woken" ELSE pc[u]]

Move(t, place) == pc' = [pc EXCEPT ![t] = place]

SpuriousWakeup(t) ==
    /\ pc[t] = "waiting"
    /\ Move(t, "woken")
    /\ UNCHANGED highTaskRunningCount

(* download(url, true): lockHigh, then the download runs. *)
LockHigh(t) ==
    /\ pc[t] = "outside"
    /\ highTaskRunningCount' = highTaskRunningCount + 1
    /\ Move(t, "important")

(* downloadWorker returns its bytes, returns null or throws: the finally   *)
(* block unlocks in every case.                                            *)
UnlockHigh(t) ==
    /\ pc[t] = "important"
    /\ highTaskRunningCount' = highTaskRunningCount - 1
    /\ IF highTaskRunningCount - 1 = 0
       THEN MoveAndNotifyAll(t, "outside")
       ELSE Move(t, "outside")

(* Mutation of LockLow: if in place of while. *)
LockLowTestsOnce(t) ==
    /\ pc[t] \in {"outside", "woken"}
    /\ Move(t, IF pc[t] = "outside" /\ highTaskRunningCount > 0
               THEN "waiting" ELSE "unimportant")
    /\ UNCHANGED highTaskRunningCount

(* download(url, false): the while loop of lockLow, on the way in and      *)
(* after every wake-up.                                                    *)
LockLow(t) ==
    /\ pc[t] \in {"outside", "woken"}
    /\ Move(t, IF highTaskRunningCount > 0 THEN "waiting" ELSE "unimportant")
    /\ UNCHANGED highTaskRunningCount

(* unlockLow is empty. *)
UnlockLow(t) ==
    /\ pc[t] = "unimportant"
    /\ Move(t, "outside")
    /\ UNCHANGED highTaskRunningCount

-----------------------------------------------------------------------------
(* A poster download only sleeps while an important download is counted:   *)
(* since unlockLow signals nobody, the last unlockHigh must wake them all, *)
(* and the counter must be the number of important downloads under way.    *)
SleepersHaveAnImportantDownload ==
    At("waiting") # {} =>
        /\ highTaskRunningCount > 0
        /\ highTaskRunningCount = Cardinality(At("important"))

Gate == INSTANCE PriorityGate
            WITH high <- At("important"), low <- At("unimportant"),
                 queued <- At("waiting") \cup At("woken")

(* The Android mutex keeps the same promise as the iPhone one: unimportant *)
(* downloads start only when no important download runs.  That those held  *)
(* back do start is part of what CacheUpdater promises.                    *)
ImplementsPriorityGate == Gate!GateSafety
=============================================================================
