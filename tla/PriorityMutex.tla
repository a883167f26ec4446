---------------------------- MODULE PriorityMutex ----------------------------
(***************************************************************************)
(* PriorityMutex of the iPhone code (MetasyntacticShared, PriorityMutex.m).*)
(* Every method runs inside [gate lock] ... [gate unlock], so a method     *)
(* that does not wait is one step.  [gate wait] releases the lock and puts *)
(* the thread on the condition's wait set; a thread taken off the set      *)
(* ("woken") must get the lock again before it re-tests the while loop, so *)
(* other threads can run in between.                                       *)
(***************************************************************************)
EXTENDS Integers, FiniteSets

CONSTANT Threads

ASSUME ThreadsFinite == IsFiniteSet(Threads)

VARIABLES
    highTaskRunningCount,   \* the field of that name
    pc                      \* where each thread is

vars == <<highTaskRunningCount, pc>>

Places == {"outside", "high", "low", "waiting", "woken"}

At(place) == {t \in Threads : pc[t] = place}

TypeOK ==
    /\ highTaskRunningCount \in 0..Cardinality(Threads)
    /\ pc \in [Threads -> Places]

Init ==
    /\ highTaskRunningCount = 0
    /\ pc = [t \in Threads |-> "outside"]

-----------------------------------------------------------------------------
(* NSCondition *)

Move(t, place) == pc' = [pc EXCEPT ![t] = place]

(* t moves to place and [gate signal] wakes one waiting thread, if any. *)
MoveAndSignal(t, place) ==
    IF At("waiting") = {}
    THEN Move(t, place)
    ELSE \E w \in At("waiting") :
            pc' = [pc EXCEPT ![t] = place, ![w] = "woken"]

(* A condition variable may also wake a waiter that nobody signalled. *)
SpuriousWakeup(t) ==
    /\ pc[t] = "waiting"
    /\ Move(t, "woken")
    /\ UNCHANGED highTaskRunningCount

-----------------------------------------------------------------------------
(* The four methods *)

LockHigh(t) ==
    /\ pc[t] = "outside"
    /\ highTaskRunningCount' = highTaskRunningCount + 1
    /\ Move(t, "high")

UnlockHigh(t) ==
    /\ pc[t] = "high"
    /\ highTaskRunningCount' = highTaskRunningCount - 1
    /\ IF highTaskRunningCount - 1 = 0
       THEN MoveAndSignal(t, "outside")
       ELSE Move(t, "outside")

(* Mutation of LockLow: if in place of while. *)
LockLowTestsOnce(t) ==
    /\ pc[t] \in {"outside", "woken"}
    /\ Move(t, IF pc[t] = "outside" /\ highTaskRunningCount > 0
               THEN "waiting" ELSE "low")
    /\ UNCHANGED highTaskRunningCount

(* The test of the while loop, on the way in and after every wake-up. *)
LockLow(t) ==
    /\ pc[t] \in {"outside", "woken"}
    /\ Move(t, IF highTaskRunningCount > 0 THEN "waiting" ELSE "low")
    /\ UNCHANGED highTaskRunningCount

(* Mutation of UnlockLow: it does not pass the signal on. *)
UnlockLowSilently(t) ==
    /\ pc[t] = "low"
    /\ Move(t, "outside")
    /\ UNCHANGED highTaskRunningCount

(* Mutation of UnlockLow: it counts down as unlockHigh does. *)
UnlockLowCountsDown(t) ==
    /\ pc[t] = "low"
    /\ MoveAndSignal(t, "outside")
    /\ highTaskRunningCount' = highTaskRunningCount - 1

UnlockLow(t) ==
    /\ pc[t] = "low"
    /\ MoveAndSignal(t, "outside")
    /\ UNCHANGED highTaskRunningCount

Next ==
    \E t \in Threads :
        \/ LockHigh(t)
        \/ UnlockHigh(t)
        \/ LockLow(t)
        \/ UnlockLow(t)
        \/ SpuriousWakeup(t)

(* A thread that holds the mutex finishes its work, and a woken thread is *)
(* scheduled; nothing obliges a thread to ask for the mutex.              *)
Fairness ==
    \A t \in Threads :
        /\ WF_vars(UnlockHigh(t))
        /\ WF_vars(UnlockLow(t))
        /\ WF_vars(pc[t] = "woken" /\ LockLow(t))

Spec == Init /\ [][Next]_vars /\ Fairness

-----------------------------------------------------------------------------
(* The counter is exactly the number of threads between lockHigh and       *)
(* unlockHigh; a drifting counter would shut low priority work out for     *)
(* good, or let it in beside high priority work.                           *)
CountMatchesHighs == highTaskRunningCount = Cardinality(At("high"))

(* No lost wake-up: while a thread sleeps on the condition, somebody is    *)
(* still going to signal it: a high thread inside, a low thread inside     *)
(* (its unlockLow passes the signal on), or a woken thread on its way in.  *)
(* unlockHigh wakes only one thread, so the chain kept up by unlockLow     *)
(* must never break.                                                       *)
NoLostWakeup ==
    At("waiting") # {} =>
        \/ highTaskRunningCount > 0
        \/ At("low") # {}
        \/ At("woken") # {}

(* The mutex keeps the promise of PriorityGate. *)
Gate == INSTANCE PriorityGate
            WITH high <- At("high"), low <- At("low"),
                 queued <- At("waiting") \cup At("woken")

(* Every step of the mutex is a step of the abstract gate or leaves it     *)
(* alone, and held back low priority work gets in: lockLow re-tests the    *)
(* counter in a loop, so a thread woken just before a new lockHigh does    *)
(* not slip past it.                                                       *)
ImplementsPriorityGate == Gate!GateSpec
=============================================================================
