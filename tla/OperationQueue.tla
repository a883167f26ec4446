---------------------------- MODULE OperationQueue ----------------------------
(***************************************************************************)
(* OperationQueue and Operation (MetasyntacticShared): the one queue that  *)
(* runs the program's background work, an operation at a time.             *)
(*                                                                         *)
(* Actors: the threads that ask for work (the main thread or any other),   *)
(* the main thread's run loop, which carries out what other threads post   *)
(* to it, the worker of the NSOperationQueue, and whichever thread drops   *)
(* the last reference to an operation.  A block between [dataGate lock]    *)
(* and [dataGate unlock] is one step.                                      *)
(*                                                                         *)
(* When an operation throws, Operation.start catches the exception outside *)
(* its gate and replaces the NSOperationQueue.  The old queue still counts *)
(* the operation as running, so nothing else that waits in it ever starts. *)
(***************************************************************************)
EXTENDS Integers, Sequences, FiniteSets, SequencesExt

CONSTANTS
    Ops,                   \* the operations
    PriorityOf,            \* the queuePriority of each operation
    BoundedOps,            \* the operations added with performBoundedSelector
    Gates,                 \* the locks that operations may run under
    GateOf,                \* the gate of each operation, or NoGate
    NoGate,
    MaxBoundedOperations,  \* maxBoundedOperations: screen size / 100
    MaxExceptions,         \* bound: how many operations throw
    MaxSuspensions         \* bound: how often the queue is suspended

(* enum QueuePriority: the five values of NSOperationQueuePriority. *)
Now == 8
Priority == 4
Search == 0
Normal == -4
Low == -8

ASSUME OperationsAssumption ==
    /\ IsFiniteSet(Ops)
    /\ BoundedOps \subseteq Ops
    /\ PriorityOf \in [Ops -> {Now, Priority, Search, Normal, Low}]
    /\ NoGate \notin Gates
    /\ GateOf \in [Ops -> Gates \cup {NoGate}]
    /\ MaxBoundedOperations \in Nat
    /\ MaxExceptions \in Nat
    /\ MaxSuspensions \in Nat

VARIABLES
    stage,                    \* how far each operation has come
    cancelled,                \* the operations whose isCancelled is set
    posted,                   \* addOperation: calls waiting for the run loop
    queue,                    \* waiting in the NSOperationQueue, oldest first
    suspended,                \* the NSOperationQueue's isSuspended
    resumeScheduled,          \* a delayed [self resume] is scheduled
    boundedOperations,        \* the field of that name
    priorityOperationsCount,  \* the field of that name
    gateOwner,                \* which operation's thread holds each gate
    abandoned,                \* history: operations alive at a restart
    straysDestroyed,          \* history: abandoned operations counted down since
    exceptions,               \* how many operations have thrown
    suspensions               \* how often temporarilySuspend was called

vars == <<stage, cancelled, posted, queue, suspended, resumeScheduled,
          boundedOperations, priorityOperationsCount, gateOwner, abandoned,
          straysDestroyed, exceptions, suspensions>>

bookkeeping == <<boundedOperations, priorityOperationsCount, abandoned,
                 straysDestroyed>>
timing == <<suspended, resumeScheduled, suspensions>>

Free == "free"

Stages == {"unborn", "registeredOnMain", "registered", "posted", "queued",
           "started", "working", "finishing", "over", "threw", "destroyed"}

In(stages) == {op \in Ops : stage[op] \in stages}

IsPriority(op) == PriorityOf[op] >= Priority

TypeOK ==
    /\ stage \in [Ops -> Stages]
    /\ cancelled \subseteq Ops
    /\ posted \in Seq(Ops)
    /\ queue \in Seq(Ops)
    /\ suspended \in BOOLEAN
    /\ resumeScheduled \in BOOLEAN
    /\ boundedOperations \in Seq(BoundedOps)
    /\ priorityOperationsCount \in Int
    /\ gateOwner \in [Gates -> Ops \cup {Free}]
    /\ abandoned \subseteq Ops
    /\ straysDestroyed \in Nat
    /\ exceptions \in 0..MaxExceptions
    /\ suspensions \in 0..MaxSuspensions

Init ==
    /\ stage = [op \in Ops |-> "unborn"]
    /\ cancelled = {}
    /\ posted = <<>>
    /\ queue = <<>>
    /\ suspended = FALSE
    /\ resumeScheduled = FALSE
    /\ boundedOperations = <<>>
    /\ priorityOperationsCount = 0
    /\ gateOwner = [g \in Gates |-> Free]
    /\ abandoned = {}
    /\ straysDestroyed = 0
    /\ exceptions = 0
    /\ suspensions = 0

Advance(op, from, to) ==
    /\ stage[op] = from
    /\ stage' = [stage EXCEPT ![op] = to]

(* The main thread is not in the middle of a performSelector call. *)
MainIdle == In({"registeredOnMain"}) = {}

-----------------------------------------------------------------------------
(* Asking for work *)

(* Mutation of AddBounded: the list may grow by one more. *)
AddBoundedLate(op) ==
    IF Len(boundedOperations) > MaxBoundedOperations + 1
    THEN /\ cancelled' = cancelled \cup {Head(boundedOperations)}
         /\ boundedOperations' = Append(Tail(boundedOperations), op)
    ELSE /\ boundedOperations' = Append(boundedOperations, op)
         /\ UNCHANGED cancelled

(* Mutation of AddBounded: the cancelled operation stays on the list. *)
AddBoundedKeepsStale(op) ==
    /\ boundedOperations' = Append(boundedOperations, op)
    /\ cancelled' = IF Len(boundedOperations) > MaxBoundedOperations
                    THEN cancelled \cup {Head(boundedOperations)} ELSE cancelled

(* addBoundedOperation: with too many on the list, cancel the oldest. *)
AddBounded(op) ==
    IF Len(boundedOperations) > MaxBoundedOperations
    THEN /\ cancelled' = cancelled \cup {Head(boundedOperations)}
         /\ boundedOperations' = Append(Tail(boundedOperations), op)
    ELSE /\ boundedOperations' = Append(boundedOperations, op)
         /\ UNCHANGED cancelled

(* Mutation of Register: every operation goes on the bounded list. *)
RegisterEvery(op) == AddBounded(op)

(* performSelector leaves the list alone, performBoundedSelector does not. *)
Register(op) ==
    IF op \in BoundedOps
    THEN AddBounded(op)
    ELSE UNCHANGED <<boundedOperations, cancelled>>

(* performSelector or performBoundedSelector creates the operation. *)
PerformSelector(op, where) ==
    /\ where = "registeredOnMain" => MainIdle
    /\ Advance(op, "unborn", where)
    /\ Register(op)
    /\ UNCHANGED <<posted, queue, priorityOperationsCount, gateOwner, abandoned,
                   straysDestroyed, exceptions, timing>>

(* addOperation away from the main thread posts itself to the main thread. *)
Post(op) ==
    /\ Advance(op, "registered", "posted")
    /\ posted' = Append(posted, op)
    /\ UNCHANGED <<cancelled, queue, gateOwner, exceptions, bookkeeping, timing>>

(* Mutation of AddOperation: only what is above Priority counts. *)
AddOperationCountsAbove(op) ==
    /\ queue' = Append(queue, op)
    /\ priorityOperationsCount' =
          priorityOperationsCount + (IF PriorityOf[op] > Priority THEN 1 ELSE 0)
    /\ UNCHANGED <<cancelled, boundedOperations, gateOwner, abandoned,
                   straysDestroyed, exceptions, timing>>

(* addOperation on the main thread. *)
AddOperation(op) ==
    /\ queue' = Append(queue, op)
    /\ priorityOperationsCount' =
          priorityOperationsCount + (IF IsPriority(op) THEN 1 ELSE 0)
    /\ UNCHANGED <<cancelled, boundedOperations, gateOwner, abandoned,
                   straysDestroyed, exceptions, timing>>

AddFromMain(op) ==
    /\ Advance(op, "registeredOnMain", "queued")
    /\ AddOperation(op)
    /\ UNCHANGED posted

AddFromRunLoop ==
    /\ MainIdle
    /\ posted # <<>>
    /\ Advance(Head(posted), "posted", "queued")
    /\ posted' = Tail(posted)
    /\ AddOperation(Head(posted))

(* AbstractCacheUpdater.addSearchObjects cancels the operations of the     *)
(* search before, which it holds on to; they are never bounded.            *)
Cancel(op) ==
    /\ PriorityOf[op] = Search /\ op \notin BoundedOps
    /\ stage[op] \notin {"unborn", "destroyed"}
    /\ cancelled' = cancelled \cup {op}
    /\ UNCHANGED <<stage, posted, queue, gateOwner, exceptions, bookkeeping, timing>>

-----------------------------------------------------------------------------
(* Running it *)

(* The worker of the current queue has no operation in hand. *)
WorkerIdle == In({"started", "working", "finishing"}) = {}

(* NSOperationQueue starts a waiting operation of the highest priority.    *)
(* NSOperation's start skips main for an operation already cancelled.      *)
Start(i) ==
    /\ ~suspended
    /\ WorkerIdle
    /\ \A j \in DOMAIN queue : PriorityOf[queue[j]] <= PriorityOf[queue[i]]
    /\ queue' = RemoveAt(queue, i)
    /\ Advance(queue[i], "queued",
               IF queue[i] \in cancelled THEN "over" ELSE "started")
    /\ UNCHANGED <<cancelled, posted, gateOwner, exceptions, bookkeeping, timing>>

GateFree(op) == GateOf[op] # NoGate => gateOwner[GateOf[op]] = Free

(* main takes the gate and tests isCancelled: mainWorker runs, or not.  A  *)
(* gate that is not free belongs to the thread of an operation that threw; *)
(* gates are recursive locks, so the new queue's worker gets it if and     *)
(* only if the system made it the same thread.                             *)
LockGate(op) ==
    /\ Advance(op, "started", IF op \in cancelled THEN "finishing" ELSE "working")
    /\ gateOwner' = IF GateOf[op] = NoGate \/ op \in cancelled \/ ~GateFree(op)
                    THEN gateOwner
                    ELSE [gateOwner EXCEPT ![GateOf[op]] = op]
    /\ UNCHANGED <<cancelled, posted, queue, exceptions, bookkeeping, timing>>

(* mainWorker returns and main unlocks the gate. *)
UnlockGate(op) ==
    /\ Advance(op, "working", "finishing")
    /\ gateOwner' = [g \in Gates |-> IF gateOwner[g] = op THEN Free ELSE gateOwner[g]]
    /\ UNCHANGED <<cancelled, posted, queue, exceptions, bookkeeping, timing>>

(* onAfterBoundedOperationCompleted, then main and start return; the list  *)
(* has no operation twice.                                                 *)
Finish(op) ==
    /\ Advance(op, "finishing", "over")
    /\ boundedOperations' = IF op \in BoundedOps THEN RemoveFirst(boundedOperations, op)
                            ELSE boundedOperations
    /\ UNCHANGED <<cancelled, posted, queue, priorityOperationsCount, gateOwner,
                   abandoned, straysDestroyed, exceptions, timing>>

(* mainWorker throws: the gate stays locked, and start restarts the queue. *)
ThrowAndRestart(op) ==
    /\ exceptions < MaxExceptions
    /\ exceptions' = exceptions + 1
    /\ Advance(op, "working", "threw")
    /\ queue' = <<>>
    /\ suspended' = FALSE
    /\ boundedOperations' = <<>>
    /\ priorityOperationsCount' = 0
    /\ abandoned' = abandoned \cup In({"queued", "working", "over", "threw"})
    /\ straysDestroyed' = 0
    /\ UNCHANGED <<cancelled, posted, gateOwner, resumeScheduled, suspensions>>

(* The last reference to an operation goes: dealloc tells the queue.  A    *)
(* finished operation is let go by the worker; what a restart abandoned    *)
(* goes with the old NSOperationQueue, if that is ever freed.              *)
Destroy(op) ==
    /\ stage[op] \in {"over", "threw"} \/ (stage[op] = "queued" /\ op \in abandoned)
    /\ ~Contains(boundedOperations, op)
    /\ stage' = [stage EXCEPT ![op] = "destroyed"]
    /\ IF IsPriority(op)
       THEN /\ priorityOperationsCount' = priorityOperationsCount - 1
            /\ straysDestroyed' = straysDestroyed + (IF op \in abandoned THEN 1 ELSE 0)
       ELSE UNCHANGED <<priorityOperationsCount, straysDestroyed>>
    /\ UNCHANGED <<cancelled, posted, queue, boundedOperations, gateOwner,
                   abandoned, exceptions, timing>>

-----------------------------------------------------------------------------
(* Suspending it, from the main thread *)

TemporarilySuspend ==
    /\ MainIdle
    /\ suspensions < MaxSuspensions
    /\ suspensions' = suspensions + 1
    /\ suspended' = TRUE
    /\ resumeScheduled' = TRUE    \* in place of the one cancelled, if any
    /\ UNCHANGED <<stage, cancelled, posted, queue, gateOwner, exceptions, bookkeeping>>

(* Mutation of Resume: the queue stays suspended. *)
ResumeForgets ==
    /\ MainIdle
    /\ resumeScheduled
    /\ resumeScheduled' = FALSE
    /\ UNCHANGED <<stage, cancelled, posted, queue, gateOwner, exceptions,
                   bookkeeping, suspended, suspensions>>

Resume ==
    /\ MainIdle
    /\ resumeScheduled
    /\ resumeScheduled' = FALSE
    /\ suspended' = FALSE
    /\ UNCHANGED <<stage, cancelled, posted, queue, gateOwner, exceptions,
                   bookkeeping, suspensions>>

Next ==
    \/ \E op \in Ops :
        \/ PerformSelector(op, "registeredOnMain")
        \/ PerformSelector(op, "registered")
        \/ Post(op)
        \/ AddFromMain(op)
        \/ Cancel(op)
        \/ LockGate(op)
        \/ UnlockGate(op)
        \/ Finish(op)
        \/ ThrowAndRestart(op)
        \/ Destroy(op)
    \/ AddFromRunLoop
    \/ \E i \in DOMAIN queue : Start(i)
    \/ TemporarilySuspend
    \/ Resume

(* Threads inside a call go on, the run loop handles what is posted and    *)
(* its timers fire, and the worker works; but nobody frees a gate that an  *)
(* exception left locked.                                                  *)
Fairness ==
    /\ \A op \in Ops :
        /\ WF_vars(Post(op))
        /\ WF_vars(AddFromMain(op))
        /\ WF_vars(GateFree(op) /\ LockGate(op))
        /\ WF_vars(UnlockGate(op))
        /\ WF_vars(Finish(op))
    /\ WF_vars(AddFromRunLoop)
    /\ WF_vars(\E i \in DOMAIN queue : Start(i))
    /\ WF_vars(Resume)

Spec == Init /\ [][Next]_vars /\ Fairness

-----------------------------------------------------------------------------
Unfinished == {"registeredOnMain", "registered", "posted", "queued",
               "started", "working", "finishing"}

(* priorityOperationsCount counts the priority operations handed to the    *)
(* current queue that are still alive; hasPriorityOperations (shown to the *)
(* user as "Downloading data") depends on it.  A restart zeroes it without *)
(* forgetting the operations it abandons: each one freed later counts it   *)
(* down once more, so it is too low by exactly the number of those.        *)
PriorityCountDrift ==
    priorityOperationsCount + straysDestroyed =
        Cardinality({op \in Ops \ abandoned :
            /\ IsPriority(op)
            /\ stage[op] \in {"queued", "started", "working", "finishing", "over"}})

(* The bounded list holds no operation that is done or cancelled; and as   *)
(* long as nothing threw it holds every other bounded operation, also      *)
(* those still on their way through the main thread.                       *)
BoundedListAccurate ==
    LET pending == {op \in BoundedOps :
                      stage[op] \in Unfinished /\ op \notin cancelled}
    IN  /\ ToSet(boundedOperations) \subseteq pending
        /\ exceptions = 0 => pending \subseteq ToSet(boundedOperations)

(* "too many operations.  cancel the oldest one": at most one more than    *)
(* maxBoundedOperations bounded operations are to be worked on, however    *)
(* their registration, posting and completion interleave; a restart        *)
(* forgets those that it does not abandon.                                 *)
BoundedBacklog ==
    exceptions = 0 =>
        Cardinality({op \in BoundedOps :
            stage[op] \in Unfinished /\ op \notin cancelled}) <= MaxBoundedOperations + 1

(* Every request is served or cancelled: no operation is lost between the  *)
(* thread that asked for it, the main thread and the queue, whatever is    *)
(* suspended or cancelled meanwhile, unless an operation threw.            *)
EveryRequestEnds ==
    \A op \in Ops : stage[op] \in Unfinished ~>
        stage[op] \in {"over", "destroyed"} \/ exceptions > 0

(* OperationQueue.h: "A 'Now' request must happen immediately."  At the    *)
(* very least it must happen, unless a restart threw it away.              *)
NowRequestsHappen ==
    \A op \in Ops : PriorityOf[op] = Now =>
        (stage[op] = "queued" ~>
            stage[op] \in {"working", "over", "destroyed"} \/ op \in abandoned)
=============================================================================
