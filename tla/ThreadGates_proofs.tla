-------------------------- MODULE ThreadGates_proofs --------------------------
(***************************************************************************)
(* The safety of the two gates that the threads of the iPhone code pass:   *)
(* PriorityMutex, for any finite set of threads, and that its steps        *)
(* implement PriorityGate; and MainThreadGate, for any number of           *)
(* background threads and of calls.                                        *)
(*                                                                         *)
(* PriorityMutex.  The invariant ties the counter to the threads that are  *)
(* inside at high priority: lockHigh and unlockHigh move the counter and   *)
(* the thread together.  With it, "the counter is 0" in the code means     *)
(* that no high priority work runs, which is what the abstract gate speaks *)
(* of, and a sleeping thread whose counter is positive is owed a signal by *)
(* one of the threads inside.                                              *)
(*                                                                         *)
(* MainThreadGate.  backgroundThreadRunning is up exactly while some       *)
(* background thread is inside, and a background thread comes in only when *)
(* it finds the flag down, so it comes in alone.  A thread goes to sleep   *)
(* only because somebody is inside; whoever leaves while threads sleep     *)
(* turns one of them into a woken one; and a woken thread goes back to     *)
(* sleep only because, again, somebody is inside.                          *)
(***************************************************************************)
EXTENDS PriorityMutex, MainThreadGate, FiniteSetTheorems, TLAPS

(* The inductive invariant. *)
IInv ==
    /\ pc \in [Threads -> Places]
    /\ CountMatchesHighs
    /\ NoLostWakeup

-----------------------------------------------------------------------------
(* Lemmas about the program counters and the counter *)

(* At picks out a subset of the finite set of threads. *)
LEMMA AtIsFinite ==
    ASSUME NEW place
    PROVE  IsFiniteSet(At(place)) /\ Cardinality(At(place)) \in Nat
<1>1. At(place) \subseteq Threads
  BY DEF At
<1>2. QED
  BY <1>1, ThreadsFinite, FS_Subset, FS_CardinalityType DEF ThreadsFinite

(* The counter is positive exactly when high priority work runs. *)
LEMMA CountTestsForHighs ==
    ASSUME CountMatchesHighs
    PROVE  /\ highTaskRunningCount \in Nat
           /\ highTaskRunningCount = 0 <=> At("high") = {}
           /\ highTaskRunningCount > 0 <=> At("high") # {}
<1>1. IsFiniteSet(At("high")) /\ Cardinality(At("high")) \in Nat
  BY AtIsFinite
<1>2. Cardinality(At("high")) = 0 <=> At("high") = {}
  BY <1>1, FS_EmptySet
<1>3. QED
  BY <1>1, <1>2 DEF CountMatchesHighs

(* What a signal does to the program counters. *)
LEMMA SignalWakesOne ==
    ASSUME NEW t \in Threads, NEW place \in Places, MoveAndSignal(t, place),
           pc \in [Threads -> Places], pc[t] # "waiting"
    PROVE  /\ pc' \in [Threads -> Places]
           /\ pc'[t] = place
           /\ \A u \in Threads \ {t} :
                 \/ pc'[u] = pc[u]
                 \/ pc[u] = "waiting" /\ pc'[u] = "woken"
           /\ At("waiting") # {} => \E u \in Threads : pc'[u] = "woken"
BY DEF MoveAndSignal, Move, At, Places

(* Where unlockHigh and unlockLow leave the threads. *)
LEMMA UnlockMovesOne ==
    ASSUME NEW t \in Threads, pc \in [Threads -> Places],
           UnlockHigh(t) \/ UnlockLow(t)
    PROVE  /\ pc' \in [Threads -> Places]
           /\ pc'[t] = "outside"
           /\ \A u \in Threads \ {t} :
                 \/ pc'[u] = pc[u]
                 \/ pc[u] = "waiting" /\ pc'[u] = "woken"
<1>1. pc[t] # "waiting" /\ "outside" \in Places
  BY DEF UnlockHigh, UnlockLow, Places
<1>2. CASE MoveAndSignal(t, "outside")
  BY <1>1, <1>2, SignalWakesOne
<1>3. CASE Move(t, "outside")
  BY <1>1, <1>3 DEF Move
<1>4. QED
  BY <1>2, <1>3 DEF UnlockHigh, UnlockLow

-----------------------------------------------------------------------------
(* The invariant *)

LEMMA InitEstablishesIInv == Init => IInv
<1> SUFFICES ASSUME Init PROVE IInv
  OBVIOUS
<1>1. pc \in [Threads -> Places]
  BY DEF Init, Places
<1>2. At("high") = {} /\ At("waiting") = {}
  BY DEF Init, At
<1>3. QED
  BY <1>1, <1>2, FS_EmptySet DEF IInv, Init, CountMatchesHighs, NoLostWakeup

LEMMA LockHighKeepsIInv ==
    ASSUME IInv, NEW t \in Threads, LockHigh(t) PROVE IInv'
<1>1. pc' \in [Threads -> Places]
  BY DEF IInv, LockHigh, Move, Places
<1>2. At("high")' = At("high") \cup {t} /\ t \notin At("high")
  BY DEF IInv, LockHigh, Move, At
<1>3. Cardinality(At("high") \cup {t}) = Cardinality(At("high")) + 1
  BY <1>2, AtIsFinite, FS_AddElement
<1>4. CountMatchesHighs'
  BY <1>2, <1>3 DEF IInv, LockHigh, CountMatchesHighs
<1>5. highTaskRunningCount' > 0
  BY CountTestsForHighs DEF IInv, LockHigh
<1>6. QED
  BY <1>1, <1>4, <1>5 DEF IInv, NoLostWakeup

LEMMA UnlockHighKeepsIInv ==
    ASSUME IInv, NEW t \in Threads, UnlockHigh(t) PROVE IInv'
<1> USE DEF IInv
<1>1. /\ pc' \in [Threads -> Places]
      /\ pc'[t] = "outside"
      /\ \A u \in Threads \ {t} : \/ pc'[u] = pc[u]
                                  \/ pc[u] = "waiting" /\ pc'[u] = "woken"
  BY UnlockMovesOne
<1>2. At("high")' = At("high") \ {t} /\ t \in At("high")
  BY <1>1 DEF UnlockHigh, At
<1>3. Cardinality(At("high") \ {t}) = Cardinality(At("high")) - 1
  BY <1>2, AtIsFinite, FS_RemoveElement
<1>4. CountMatchesHighs'
  BY <1>2, <1>3 DEF UnlockHigh, CountMatchesHighs
<1>5. NoLostWakeup'
  <2>1. CASE highTaskRunningCount - 1 = 0
    <3>1. MoveAndSignal(t, "outside") /\ pc[t] # "waiting" /\ "outside" \in Places
      BY <2>1 DEF UnlockHigh, Places
    <3>2. At("waiting") # {} => At("woken")' # {}
      BY <3>1, SignalWakesOne DEF At
    <3>3. At("waiting") = {} => At("waiting")' = {}
      BY <1>1 DEF At
    <3>4. QED
      BY <3>2, <3>3 DEF NoLostWakeup
  <2>2. CASE highTaskRunningCount - 1 # 0
    <3>1. highTaskRunningCount \in Nat /\ highTaskRunningCount > 0
      BY <1>2, CountTestsForHighs
    <3>2. highTaskRunningCount' > 0
      BY <3>1, <2>2 DEF UnlockHigh
    <3>3. QED
      BY <3>2 DEF NoLostWakeup
  <2>3. QED
    BY <2>1, <2>2
<1>6. QED
  BY <1>1, <1>4, <1>5

LEMMA LockLowKeepsIInv ==
    ASSUME IInv, NEW t \in Threads, LockLow(t) PROVE IInv'
<1> USE DEF IInv, LockLow, Move
<1>1. pc' \in [Threads -> Places]
  BY DEF Places
<1>2. At("high")' = At("high")
  BY DEF At
<1>3. CountMatchesHighs'
  BY <1>2 DEF CountMatchesHighs
<1>4. NoLostWakeup'
  <2>1. CASE highTaskRunningCount > 0
    BY <2>1 DEF NoLostWakeup
  <2>2. CASE ~(highTaskRunningCount > 0)
    <3>1. t \in At("low")'
      BY <2>2 DEF At
    <3>2. QED
      BY <3>1 DEF NoLostWakeup
  <2>3. QED
    BY <2>1, <2>2
<1>5. QED
  BY <1>1, <1>3, <1>4

LEMMA UnlockLowKeepsIInv ==
    ASSUME IInv, NEW t \in Threads, UnlockLow(t) PROVE IInv'
<1> USE DEF IInv
<1>1. /\ pc' \in [Threads -> Places]
      /\ pc'[t] = "outside"
      /\ \A u \in Threads \ {t} : \/ pc'[u] = pc[u]
                                  \/ pc[u] = "waiting" /\ pc'[u] = "woken"
  BY UnlockMovesOne
<1>2. At("high")' = At("high")
  BY <1>1 DEF UnlockLow, At
<1>3. CountMatchesHighs'
  BY <1>2 DEF UnlockLow, CountMatchesHighs
<1>4. NoLostWakeup'
  <2>1. MoveAndSignal(t, "outside") /\ pc[t] # "waiting" /\ "outside" \in Places
    BY DEF UnlockLow, Places
  <2>2. At("waiting") # {} => At("woken")' # {}
    BY <2>1, SignalWakesOne DEF At
  <2>3. At("waiting") = {} => At("waiting")' = {}
    BY <1>1 DEF At
  <2>4. QED
    BY <2>2, <2>3 DEF NoLostWakeup
<1>5. QED
  BY <1>1, <1>3, <1>4

LEMMA SpuriousWakeupKeepsIInv ==
    ASSUME IInv, NEW t \in Threads, SpuriousWakeup(t) PROVE IInv'
<1> USE DEF IInv, SpuriousWakeup, Move
<1>1. pc' \in [Threads -> Places]
  BY DEF Places
<1>2. At("high")' = At("high") /\ t \in At("woken")'
  BY DEF At
<1>3. QED
  BY <1>1, <1>2 DEF CountMatchesHighs, NoLostWakeup

LEMMA NextKeepsIInv == IInv /\ [Next]_vars => IInv'
<1> SUFFICES ASSUME IInv, [Next]_vars PROVE IInv'
  OBVIOUS
<1>1. ASSUME NEW t \in Threads, LockHigh(t) PROVE IInv'
  BY <1>1, LockHighKeepsIInv
<1>2. ASSUME NEW t \in Threads, UnlockHigh(t) PROVE IInv'
  BY <1>2, UnlockHighKeepsIInv
<1>3. ASSUME NEW t \in Threads, LockLow(t) PROVE IInv'
  BY <1>3, LockLowKeepsIInv
<1>4. ASSUME NEW t \in Threads, UnlockLow(t) PROVE IInv'
  BY <1>4, UnlockLowKeepsIInv
<1>5. ASSUME NEW t \in Threads, SpuriousWakeup(t) PROVE IInv'
  BY <1>5, SpuriousWakeupKeepsIInv
<1>6. CASE UNCHANGED vars
  BY <1>6 DEF vars, IInv, CountMatchesHighs, NoLostWakeup, At
<1>7. QED
  BY <1>1, <1>2, <1>3, <1>4, <1>5, <1>6 DEF Next

LEMMA IInvHolds == Spec => []IInv
<1>1. QED
  BY InitEstablishesIInv, NextKeepsIInv, PTL DEF Spec

-----------------------------------------------------------------------------
(* What follows from it *)

(* The counter never drifts, whatever the interleaving of lockHigh and     *)
(* unlockHigh.                                                             *)
THEOREM CounterIsExact == Spec => []CountMatchesHighs
<1>1. IInv => CountMatchesHighs
  BY DEF IInv
<1>2. QED
  BY <1>1, IInvHolds, PTL

(* The fields and the threads' places are well formed; in particular the   *)
(* counter never leaves 0..Cardinality(Threads).                           *)
THEOREM TypeCorrect == Spec => []TypeOK
<1>1. IInv => TypeOK
  <2> SUFFICES ASSUME IInv PROVE TypeOK
    OBVIOUS
  <2>1. At("high") \subseteq Threads
    BY DEF At
  <2>2. /\ Cardinality(At("high")) <= Cardinality(Threads)
        /\ Cardinality(Threads) \in Nat
    BY <2>1, ThreadsFinite, FS_Subset, FS_CardinalityType DEF ThreadsFinite
  <2>3. highTaskRunningCount \in Nat
    BY CountTestsForHighs DEF IInv
  <2>4. QED
    BY <2>2, <2>3 DEF IInv, TypeOK, CountMatchesHighs
<1>2. QED
  BY <1>1, IInvHolds, PTL

(* A low priority thread that sleeps in lockLow is never forgotten. *)
THEOREM NobodyIsForgotten == Spec => []NoLostWakeup
<1>1. IInv => NoLostWakeup
  BY DEF IInv
<1>2. QED
  BY <1>1, IInvHolds, PTL

-----------------------------------------------------------------------------
(* The refinement *)

LEMMA InitImplementsGate == Init => Gate!GateInit
BY DEF Init, Gate!GateInit, At

(* Every step of the mutex is a step of the abstract gate or leaves its    *)
(* state alone: a woken thread that has to sleep again changes nothing.    *)
LEMMA NextImplementsGate ==
    IInv /\ [Next]_vars => [Gate!GateNext]_(Gate!gateVars)
<1> SUFFICES ASSUME IInv, [Next]_vars
             PROVE  Gate!GateNext \/ UNCHANGED Gate!gateVars
  OBVIOUS
<1> USE DEF IInv
<1>1. ASSUME NEW t \in Threads, LockHigh(t) PROVE Gate!EnterHigh(t)
  BY <1>1 DEF LockHigh, Move, Gate!EnterHigh, Gate!Outside, At
<1>2. ASSUME NEW t \in Threads, UnlockHigh(t) PROVE Gate!LeaveHigh(t)
  BY <1>2, UnlockMovesOne DEF UnlockHigh, Gate!LeaveHigh, At
<1>3. ASSUME NEW t \in Threads, LockLow(t)
      PROVE  Gate!HoldBack(t) \/ Gate!AdmitLow(t) \/ UNCHANGED Gate!gateVars
  <2>1. CASE highTaskRunningCount > 0 /\ pc[t] = "outside"
    <3>1. At("high") # {}
      BY <2>1, CountTestsForHighs
    <3>2. Gate!HoldBack(t)
      BY <1>3, <2>1, <3>1 DEF LockLow, Move, Gate!HoldBack, Gate!Outside, At
    <3>3. QED
      BY <3>2
  <2>2. CASE highTaskRunningCount > 0 /\ pc[t] = "woken"
    BY <1>3, <2>2 DEF LockLow, Move, Gate!gateVars, At
  <2>3. CASE ~(highTaskRunningCount > 0)
    <3>1. At("high") = {}
      BY <2>3, CountTestsForHighs
    <3>2. Gate!AdmitLow(t)
      BY <1>3, <2>3, <3>1 DEF LockLow, Move, Gate!AdmitLow, Gate!Outside, At
    <3>3. QED
      BY <3>2
  <2>4. QED
    BY <1>3, <2>1, <2>2, <2>3 DEF LockLow
<1>4. ASSUME NEW t \in Threads, UnlockLow(t) PROVE Gate!LeaveLow(t)
  BY <1>4, UnlockMovesOne DEF UnlockLow, Gate!LeaveLow, At
<1>5. ASSUME NEW t \in Threads, SpuriousWakeup(t) PROVE UNCHANGED Gate!gateVars
  BY <1>5 DEF SpuriousWakeup, Move, Gate!gateVars, At
<1>6. CASE UNCHANGED vars
  BY <1>6 DEF vars, Gate!gateVars, At
<1>7. QED
  BY <1>1, <1>2, <1>3, <1>4, <1>5, <1>6 DEF Next, Gate!GateNext

(* PriorityMutex keeps the safety half of the promise of PriorityGate: low *)
(* priority work is let in only while no high priority work runs.          *)
THEOREM ImplementsGateSafety == Spec => Gate!GateSafety
<1>1. QED
  BY InitImplementsGate, NextImplementsGate, IInvHolds, PTL
     DEF Spec, Gate!GateSafety

-----------------------------------------------------------------------------
(* MainThreadGate *)

(* The main thread never sleeps on the condition: it walks straight in.    *)
MainNeverWaits == position[Main] \in {"outside", "inside"}

(* The inductive invariant. *)
FileTyped ==
    /\ mainThreadRunning \in BOOLEAN
    /\ backgroundThreadRunning \in BOOLEAN
    /\ position \in [FileThreads -> FilePlaces]
    /\ calls \in [FileThreads -> 0..MaxCalls]

FileInv ==
    /\ FileTyped
    /\ MainNeverWaits
    /\ UnlockFindsItsFlag
    /\ BackgroundExclusion
    /\ NoLostSignal

(* What a signal does to the program counters: t moves to place, and, if   *)
(* anybody sleeps, one sleeper is woken.                                   *)
LEMMA FileSignalWakesOne ==
    ASSUME NEW t \in FileThreads, NEW place \in FilePlaces, GoAndSignal(t, place),
           FileTyped, position[t] # "waiting"
    PROVE  /\ position' \in [FileThreads -> FilePlaces]
           /\ position'[t] = place
           /\ \A u \in FileThreads \ {t} :
                 \/ position'[u] = position[u]
                 \/ position[u] = "waiting" /\ position'[u] = "woken"
           /\ AreAt("waiting") # {} => \E u \in FileThreads : position'[u] = "woken"
BY DEF GoAndSignal, GoTo, FileTyped, AreAt, FilePlaces

LEMMA InitEstablishesFileInv == FileInit => FileInv
<1> SUFFICES ASSUME FileInit PROVE FileInv
  OBVIOUS
<1> USE GateAssumption DEF GateAssumption, FileInit, FileThreads
<1>1. FileTyped
  <2>1. mainThreadRunning \in BOOLEAN /\ backgroundThreadRunning \in BOOLEAN
    OBVIOUS
  <2>2. position \in [FileThreads -> FilePlaces]
    BY DEF FilePlaces
  <2>3. calls \in [FileThreads -> 0..MaxCalls]
    OBVIOUS
  <2>4. QED
    BY <2>1, <2>2, <2>3 DEF FileTyped
<1>2. MainNeverWaits
  BY DEF MainNeverWaits
<1>3. UnlockFindsItsFlag
  BY DEF UnlockFindsItsFlag
<1>4. BackgroundExclusion
  BY DEF BackgroundExclusion
<1>5. NoLostSignal
  BY DEF NoLostSignal, AreAt
<1>6. QED
  BY <1>1, <1>2, <1>3, <1>4, <1>5 DEF FileInv

LEMMA LockMainKeepsFileInv ==
    ASSUME FileInv, LockMain PROVE FileInv'
<1> USE GateAssumption DEF GateAssumption, FileInv, LockMain, Begin, GoTo, FileThreads
<1>1. FileTyped'
  BY DEF FileTyped, FilePlaces
<1>2. MainNeverWaits'
  BY DEF MainNeverWaits, FileTyped
<1>3. UnlockFindsItsFlag'
  BY DEF UnlockFindsItsFlag, FileTyped
<1>4. BackgroundExclusion'
  BY DEF BackgroundExclusion, FileTyped
<1>5. NoLostSignal'
  BY DEF NoLostSignal, AreAt, FileTyped
<1>6. QED
  BY <1>1, <1>2, <1>3, <1>4, <1>5

LEMMA LockBackgroundKeepsFileInv ==
    ASSUME FileInv, NEW t \in Background, LockBackground(t) PROVE FileInv'
<1> USE GateAssumption DEF GateAssumption, FileInv, LockBackground, Begin, GoTo, FileThreads
<1>1. FileTyped'
  <2>1. mainThreadRunning' \in BOOLEAN /\ backgroundThreadRunning' \in BOOLEAN
    BY DEF FileTyped
  <2>2. position' \in [FileThreads -> FilePlaces]
    BY DEF FileTyped, FilePlaces
  <2>3. calls' \in [FileThreads -> 0..MaxCalls]
    BY DEF FileTyped
  <2>4. QED
    BY <2>1, <2>2, <2>3 DEF FileTyped
<1>2. MainNeverWaits'
  BY DEF MainNeverWaits, FileTyped
<1>3. UnlockFindsItsFlag'
  BY DEF UnlockFindsItsFlag, FileTyped
<1>4. BackgroundExclusion'
  BY DEF BackgroundExclusion, UnlockFindsItsFlag, FileTyped
<1>5. NoLostSignal'
  <2>1. CASE mainThreadRunning \/ backgroundThreadRunning
    <3>1. PICK u \in FileThreads : position[u] = "inside"
      BY <2>1 DEF UnlockFindsItsFlag
    <3>2. u # t
      BY <3>1
    <3>3. position'[u] = "inside"
      BY <3>1, <3>2, <2>1 DEF FileTyped
    <3>4. QED
      BY <3>3 DEF NoLostSignal, AreAt
  <2>2. CASE ~(mainThreadRunning \/ backgroundThreadRunning)
    <3>1. position'[t] = "inside"
      BY <2>2 DEF FileTyped
    <3>2. QED
      BY <3>1 DEF NoLostSignal, AreAt
  <2>3. QED
    BY <2>1, <2>2
<1>6. QED
  BY <1>1, <1>2, <1>3, <1>4, <1>5

LEMMA UnlockMainKeepsFileInv ==
    ASSUME FileInv, UnlockMain PROVE FileInv'
<1> USE GateAssumption DEF GateAssumption, FileInv, UnlockMain, FileThreads
<1>1. /\ position' \in [FileThreads -> FilePlaces]
      /\ position'[Main] = "outside"
      /\ \A u \in Background : \/ position'[u] = position[u]
                               \/ position[u] = "waiting" /\ position'[u] = "woken"
      /\ AreAt("waiting") # {} => \E u \in FileThreads : position'[u] = "woken"
  BY FileSignalWakesOne DEF FilePlaces
<1>2. FileTyped'
  BY <1>1 DEF FileTyped
<1>3. MainNeverWaits'
  BY <1>1 DEF MainNeverWaits
<1>4. UnlockFindsItsFlag'
  BY <1>1 DEF UnlockFindsItsFlag, FileTyped
<1>5. BackgroundExclusion'
  BY <1>1 DEF BackgroundExclusion
<1>6. NoLostSignal'
  BY <1>1 DEF NoLostSignal, AreAt
<1>7. QED
  BY <1>2, <1>3, <1>4, <1>5, <1>6

LEMMA UnlockBackgroundKeepsFileInv ==
    ASSUME FileInv, NEW t \in Background, UnlockBackground(t) PROVE FileInv'
<1> USE GateAssumption DEF GateAssumption, FileInv, UnlockBackground, FileThreads
<1>1. /\ position' \in [FileThreads -> FilePlaces]
      /\ position'[t] = "outside"
      /\ \A u \in FileThreads \ {t} : \/ position'[u] = position[u]
                                      \/ position[u] = "waiting" /\ position'[u] = "woken"
      /\ AreAt("waiting") # {} => \E u \in FileThreads : position'[u] = "woken"
  BY FileSignalWakesOne DEF FilePlaces
<1>2. FileTyped'
  BY <1>1 DEF FileTyped
<1>3. position'[Main] = position[Main]
  BY <1>1 DEF MainNeverWaits
<1>4. MainNeverWaits'
  BY <1>3 DEF MainNeverWaits
<1>5. UnlockFindsItsFlag'
  <2>1. \A u \in Background : position'[u] # "inside"
    BY <1>1 DEF BackgroundExclusion
  <2>2. QED
    BY <2>1, <1>3 DEF UnlockFindsItsFlag
<1>6. BackgroundExclusion'
  BY <1>1 DEF BackgroundExclusion
<1>7. NoLostSignal'
  BY <1>1 DEF NoLostSignal, AreAt
<1>8. QED
  BY <1>2, <1>4, <1>5, <1>6, <1>7

LEMMA WakeUpKeepsFileInv ==
    ASSUME FileInv, NEW t \in Background, WakeUp(t) PROVE FileInv'
<1> USE GateAssumption DEF GateAssumption, FileInv, WakeUp, GoTo, FileThreads
<1>1. FileTyped'
  BY DEF FileTyped, FilePlaces
<1>2. MainNeverWaits'
  BY DEF MainNeverWaits, FileTyped
<1>3. UnlockFindsItsFlag'
  BY DEF UnlockFindsItsFlag, FileTyped
<1>4. BackgroundExclusion'
  BY DEF BackgroundExclusion, FileTyped
<1>5. NoLostSignal'
  BY DEF NoLostSignal, AreAt, FileTyped
<1>6. QED
  BY <1>1, <1>2, <1>3, <1>4, <1>5

LEMMA NextKeepsFileInv == FileInv /\ [FileNext]_fileVars => FileInv'
<1> SUFFICES ASSUME FileInv, [FileNext]_fileVars PROVE FileInv'
  OBVIOUS
<1>1. CASE LockMain
  BY <1>1, LockMainKeepsFileInv
<1>2. CASE UnlockMain
  BY <1>2, UnlockMainKeepsFileInv
<1>3. ASSUME NEW t \in Background, LockBackground(t) PROVE FileInv'
  BY <1>3, LockBackgroundKeepsFileInv
<1>4. ASSUME NEW t \in Background, UnlockBackground(t) PROVE FileInv'
  BY <1>4, UnlockBackgroundKeepsFileInv
<1>5. ASSUME NEW t \in Background, WakeUp(t) PROVE FileInv'
  BY <1>5, WakeUpKeepsFileInv
<1>6. CASE UNCHANGED fileVars
  <2> USE <1>6 DEF fileVars, FileInv
  <2>1. FileTyped' /\ MainNeverWaits' /\ BackgroundExclusion'
    BY DEF FileTyped, MainNeverWaits, BackgroundExclusion
  <2>2. UnlockFindsItsFlag'
    BY DEF UnlockFindsItsFlag
  <2>3. NoLostSignal'
    BY DEF NoLostSignal, AreAt
  <2>4. QED
    BY <2>1, <2>2, <2>3
<1>7. QED
  BY <1>1, <1>2, <1>3, <1>4, <1>5, <1>6 DEF FileNext

(* The inductive invariant holds in every reachable state. *)
THEOREM FileInvHolds == FileSpec => []FileInv
<1>1. QED
  BY InitEstablishesFileInv, NextKeepsFileInv, PTL DEF FileSpec

(* lock and unlock keep each flag true exactly while a thread of its kind  *)
(* is inside, and every thread's place well formed.                        *)
THEOREM FileTypeCorrect == FileSpec => []FileTypeOK
<1>1. FileInv => FileTypeOK
  BY DEF FileInv, FileTyped, MainNeverWaits, UnlockFindsItsFlag, FileTypeOK
<1>2. QED
  BY <1>1, FileInvHolds, PTL

(* Background threads are never inside together (MainThreadGate.lock). *)
THEOREM BackgroundThreadsExclude == FileSpec => []BackgroundExclusion
<1>1. FileInv => BackgroundExclusion
  BY DEF FileInv
<1>2. QED
  BY <1>1, FileInvHolds, PTL

(* A thread that sleeps in lock is never forgotten (the signal of unlock). *)
THEOREM NoThreadIsForgotten == FileSpec => []NoLostSignal
<1>1. FileInv => NoLostSignal
  BY DEF FileInv
<1>2. QED
  BY <1>1, FileInvHolds, PTL

(* The assertions at the head of unlock never fail.                        *)
THEOREM UnlockAssertionsHold == FileSpec => []UnlockFindsItsFlag
<1>1. FileInv => UnlockFindsItsFlag
  BY DEF FileInv
<1>2. QED
  BY <1>1, FileInvHolds, PTL

(* No background thread walks in beside the main thread. *)
THEOREM MainIsYieldedTo == FileSpec => BackgroundYieldsToMain
<1> DEFINE Yields == \A t \in Background :
              position[t] # "inside" /\ position'[t] = "inside" => position[Main] # "inside"
<1>1. FileInv /\ [FileNext]_fileVars => [Yields]_fileVars
  <2> SUFFICES ASSUME FileInv, FileNext, NEW t \in Background,
                      position[t] # "inside", position'[t] = "inside"
               PROVE  position[Main] # "inside"
    OBVIOUS
  <2> USE GateAssumption DEF GateAssumption, FileInv, FileThreads
  <2>1. CASE LockMain
    BY <2>1 DEF LockMain, GoTo, FileTyped
  <2>2. CASE UnlockMain
    BY <2>2, FileSignalWakesOne DEF UnlockMain, FilePlaces
  <2>3. ASSUME NEW u \in Background, LockBackground(u) PROVE position[Main] # "inside"
    BY <2>3 DEF LockBackground, Begin, GoTo, UnlockFindsItsFlag, FileTyped
  <2>4. ASSUME NEW u \in Background, UnlockBackground(u) PROVE position[Main] # "inside"
    BY <2>4, FileSignalWakesOne DEF UnlockBackground, FilePlaces
  <2>5. ASSUME NEW u \in Background, WakeUp(u) PROVE position[Main] # "inside"
    BY <2>5 DEF WakeUp, GoTo, FileTyped
  <2>6. QED
    BY <2>1, <2>2, <2>3, <2>4, <2>5 DEF FileNext
<1>2. QED
  BY <1>1, FileInvHolds, PTL DEF FileSpec, BackgroundYieldsToMain
=============================================================================
