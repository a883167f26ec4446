---------------------------- MODULE MainThreadGate ----------------------------
(***************************************************************************)
(* MainThreadGate (MetasyntacticShared) and the file operations of         *)
(* FileUtilities that it guards.  Background threads take turns and yield  *)
(* to the main thread; the main thread walks straight in, even beside a    *)
(* background thread that is already inside, so that the user interface    *)
(* never waits for a background file operation.                            *)
(*                                                                         *)
(* lock and unlock run inside [condition lock] ... [condition unlock] and  *)
(* are one step each, except that [condition wait] lets go of the lock.    *)
(* Every method of FileUtilities is lock; a file operation; unlock, none   *)
(* calls another inside the bracket, and none can throw past the unlock.   *)
(***************************************************************************)
EXTENDS Integers, FiniteSets

CONSTANTS
    Background,    \* the background threads
    Main,          \* the main thread
    MaxCalls       \* how many file operations a thread performs

ASSUME GateAssumption ==
    /\ IsFiniteSet(Background)
    /\ Main \notin Background
    /\ MaxCalls \in Nat

VARIABLES
    mainThreadRunning,
    backgroundThreadRunning,
    position, \* where each thread is
    calls     \* the operations each thread has begun

fileVars == <<mainThreadRunning, backgroundThreadRunning, position, calls>>

FileThreads == Background \cup {Main}

FilePlaces == {"outside", "inside", "waiting", "woken"}

AreAt(place) == {t \in FileThreads : position[t] = place}

(* Each flag says whether a thread of its kind is inside, and the main     *)
(* thread never waits.                                                     *)
FileTypeOK ==
    /\ position \in [FileThreads -> FilePlaces]
    /\ position[Main] \in {"outside", "inside"}
    /\ calls \in [FileThreads -> 0..MaxCalls]
    /\ mainThreadRunning = (position[Main] = "inside")
    /\ backgroundThreadRunning = (\E t \in Background : position[t] = "inside")

FileInit ==
    /\ mainThreadRunning = FALSE
    /\ backgroundThreadRunning = FALSE
    /\ position = [t \in FileThreads |-> "outside"]
    /\ calls = [t \in FileThreads |-> 0]

-----------------------------------------------------------------------------
GoTo(t, place) == position' = [position EXCEPT ![t] = place]


(* A thread calls a method of FileUtilities. *)
Begin(t) ==
    /\ position[t] = "outside"
    /\ calls[t] < MaxCalls
    /\ calls' = [calls EXCEPT ![t] = @ + 1]

(* NSCondition may wake a thread that nobody signalled. *)
WakeUp(t) ==
    /\ position[t] = "waiting"
    /\ GoTo(t, "woken")
    /\ UNCHANGED <<mainThreadRunning, backgroundThreadRunning, calls>>

LockMain ==
    /\ Begin(Main)
    /\ mainThreadRunning' = TRUE
    /\ GoTo(Main, "inside")
    /\ UNCHANGED backgroundThreadRunning

(* Mutation of LockBackground: if in place of while. *)
LockBackgroundTestsOnce(t) ==
    /\ \/ Begin(t)
       \/ position[t] = "woken" /\ UNCHANGED calls
    /\ IF position[t] = "outside" /\ (mainThreadRunning \/ backgroundThreadRunning)
       THEN /\ GoTo(t, "waiting")
            /\ UNCHANGED backgroundThreadRunning
       ELSE /\ GoTo(t, "inside")
            /\ backgroundThreadRunning' = TRUE
    /\ UNCHANGED mainThreadRunning

(* The while loop of lock for a background thread. *)
LockBackground(t) ==
    /\ \/ Begin(t)
       \/ position[t] = "woken" /\ UNCHANGED calls
    /\ IF mainThreadRunning \/ backgroundThreadRunning
       THEN /\ GoTo(t, "waiting")
            /\ UNCHANGED backgroundThreadRunning
       ELSE /\ GoTo(t, "inside")
            /\ backgroundThreadRunning' = TRUE
    /\ UNCHANGED mainThreadRunning

(* [condition signal] wakes one waiting thread, if any. *)
GoAndSignal(t, place) ==
    IF AreAt("waiting") = {}
    THEN GoTo(t, place)
    ELSE \E w \in AreAt("waiting") :
            position' = [position EXCEPT ![t] = place, ![w] = "woken"]

(* Mutation of UnlockMain: the main thread never waits, so it was thought  *)
(* to need no signal.                                                      *)
UnlockMainSilently ==
    /\ position[Main] = "inside"
    /\ mainThreadRunning' = FALSE
    /\ GoTo(Main, "outside")
    /\ UNCHANGED <<backgroundThreadRunning, calls>>

(* Mutation of UnlockMain: both flags are reset, for either kind of thread. *)
UnlockMainResetsBoth ==
    /\ position[Main] = "inside"
    /\ mainThreadRunning' = FALSE
    /\ backgroundThreadRunning' = FALSE
    /\ GoAndSignal(Main, "outside")
    /\ UNCHANGED calls

UnlockMain ==
    /\ position[Main] = "inside"
    /\ mainThreadRunning' = FALSE
    /\ GoAndSignal(Main, "outside")
    /\ UNCHANGED <<backgroundThreadRunning, calls>>

UnlockBackground(t) ==
    /\ position[t] = "inside"
    /\ backgroundThreadRunning' = FALSE
    /\ GoAndSignal(t, "outside")
    /\ UNCHANGED <<mainThreadRunning, calls>>

FileNext ==
    \/ LockMain
    \/ UnlockMain
    \/ \E t \in Background :
        \/ LockBackground(t)
        \/ UnlockBackground(t)
        \/ WakeUp(t)

(* File operations end, and a woken thread is scheduled. *)
FileFairness ==
    /\ WF_fileVars(UnlockMain)
    /\ \A t \in Background :
        /\ WF_fileVars(UnlockBackground(t))
        /\ WF_fileVars(position[t] = "woken" /\ LockBackground(t))

FileSpec == FileInit /\ [][FileNext]_fileVars /\ FileFairness

-----------------------------------------------------------------------------
(* Two background threads are never inside together, although lock lets    *)
(* go of the condition while it waits and any number of them may be woken. *)
BackgroundExclusion ==
    \A t, u \in Background : position[t] = "inside" /\ position[u] = "inside" => t = u

(* A background thread never walks in while the main thread is inside; it  *)
(* can only have been there before the main thread came.                   *)
BackgroundYieldsToMain ==
    [][ \A t \in Background :
          position[t] # "inside" /\ position'[t] = "inside" => position[Main] # "inside" ]_fileVars

(* One signal per unlock is enough: while a thread sleeps, a thread is     *)
(* inside and will signal, or a woken thread is on its way.                *)
NoLostSignal ==
    AreAt("waiting") # {} => AreAt("inside") # {} \/ AreAt("woken") # {}

(* The assertion at the head of unlock for background threads.  The flag   *)
(* is shared by them all, so a second thread inside would find it cleared. *)
UnlockFindsItsFlag ==
    /\ (position[Main] = "inside") = mainThreadRunning
    /\ (\E t \in Background : position[t] = "inside") = backgroundThreadRunning

(* Every background thread that asks for the file system gets in, if the   *)
(* threads make finitely many calls: nobody sleeps for ever.               *)
EveryCallGetsIn ==
    \A t \in Background : position[t] \in {"waiting", "woken"} ~> position[t] = "inside"
=============================================================================
