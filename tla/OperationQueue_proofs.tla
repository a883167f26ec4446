------------------------ MODULE OperationQueue_proofs ------------------------
(***************************************************************************)
(* The OperationQueue for any finite set of operations, any priorities,    *)
(* gates and size of the bounded list, and any number of exceptions: the   *)
(* bounded list is the bounded work that is pending, and the count of      *)
(* priority operations is off by exactly the operations that restarts      *)
(* abandoned.                                                              *)
(*                                                                         *)
(* Each needs facts about the rest of the queue: that the list has no      *)
(* operation twice, that a new operation is not cancelled yet; and, for    *)
(* the count, that at most one operation is in the worker's hands, so that *)
(* the restart by one that throws leaves no other behind uncounted.        *)
(***************************************************************************)
EXTENDS OperationQueue, SequenceTheorems, FiniteSetTheorems, TLAPS

-----------------------------------------------------------------------------
(* Lemmas about lists without duplicates *)

LEMMA AppendToList ==
    ASSUME NEW S, NEW s \in Seq(S), IsInjective(s), NEW e \in S, e \notin ToSet(s)
    PROVE  /\ Append(s, e) \in Seq(S) /\ IsInjective(Append(s, e))
           /\ ToSet(Append(s, e)) = ToSet(s) \cup {e}
           /\ Len(Append(s, e)) = Len(s) + 1
<1> DEFINE longer == Append(s, e)
<1>1. /\ longer \in Seq(S) /\ Len(longer) = Len(s) + 1
      /\ \A i \in 1..Len(s) : longer[i] = s[i]
      /\ longer[Len(s) + 1] = e
  BY AppendProperties
<1>2. /\ DOMAIN s = 1..Len(s) /\ Len(s) \in Nat
      /\ DOMAIN longer = 1..(Len(s) + 1)
  BY <1>1
<1> HIDE DEF longer
<1>3. ToSet(longer) = ToSet(s) \cup {e}
  BY <1>1, <1>2 DEF ToSet
<1>4. \A i \in 1..Len(s) : s[i] # e
  BY <1>2 DEF ToSet
<1>5. IsInjective(longer)
  <2> SUFFICES ASSUME NEW i \in 1..(Len(s) + 1), NEW j \in 1..(Len(s) + 1),
                      longer[i] = longer[j]
               PROVE  i = j
    BY <1>2 DEF IsInjective
  <2>1. QED
    BY <1>1, <1>2, <1>4 DEF IsInjective
<1>6. QED
  BY <1>1, <1>3, <1>5 DEF longer

LEMMA TailOfList ==
    ASSUME NEW S, NEW s \in Seq(S), IsInjective(s), s # <<>>
    PROVE  /\ Tail(s) \in Seq(S) /\ IsInjective(Tail(s))
           /\ ToSet(Tail(s)) = ToSet(s) \ {Head(s)}
           /\ Head(s) \in ToSet(s)
           /\ Len(Tail(s)) = Len(s) - 1
<1>1. /\ Tail(s) \in Seq(S) /\ Len(Tail(s)) = Len(s) - 1
      /\ \A i \in 1..Len(Tail(s)) : Tail(s)[i] = s[i + 1]
      /\ Len(s) \in Nat /\ Len(s) >= 1
  BY HeadTailProperties
<1>2. /\ DOMAIN s = 1..Len(s) /\ DOMAIN Tail(s) = 1..(Len(s) - 1) /\ Head(s) = s[1]
  BY <1>1
<1>3. IsInjective(Tail(s))
  <2> SUFFICES ASSUME NEW i \in 1..(Len(s) - 1), NEW j \in 1..(Len(s) - 1),
                      Tail(s)[i] = Tail(s)[j]
               PROVE  i = j
    BY <1>2 DEF IsInjective
  <2>1. s[i + 1] = s[j + 1] /\ i + 1 \in DOMAIN s /\ j + 1 \in DOMAIN s
    BY <1>1, <1>2
  <2>2. i + 1 = j + 1
    BY <2>1 DEF IsInjective
  <2>3. QED
    BY <2>2
<1>4. ToSet(Tail(s)) \subseteq ToSet(s) \ {Head(s)}
  <2> SUFFICES ASSUME NEW i \in 1..(Len(s) - 1)
               PROVE  Tail(s)[i] \in ToSet(s) /\ Tail(s)[i] # Head(s)
    BY <1>2 DEF ToSet
  <2>1. Tail(s)[i] = s[i + 1] /\ i + 1 \in DOMAIN s /\ 1 \in DOMAIN s /\ i + 1 # 1
    BY <1>1, <1>2
  <2>2. QED
    BY <1>2, <2>1 DEF ToSet, IsInjective
<1>5. ToSet(s) \ {Head(s)} \subseteq ToSet(Tail(s))
  <2> SUFFICES ASSUME NEW i \in 1..Len(s), s[i] # Head(s)
               PROVE  s[i] \in ToSet(Tail(s))
    BY <1>2 DEF ToSet
  <2>1. i - 1 \in 1..(Len(s) - 1) /\ i - 1 + 1 = i
    BY <1>1, <1>2
  <2>2. s[i] = Tail(s)[i - 1] /\ i - 1 \in DOMAIN Tail(s)
    BY <1>1, <1>2, <2>1
  <2>3. QED
    BY <2>2 DEF ToSet
<1>6. Head(s) \in ToSet(s)
  BY <1>1, <1>2 DEF ToSet
<1>7. QED
  BY <1>1, <1>3, <1>4, <1>5, <1>6

LEMMA RemoveAtProperties ==
    ASSUME NEW S, NEW s \in Seq(S), NEW i \in 1..Len(s)
    PROVE  /\ RemoveAt(s, i) \in Seq(S)
           /\ Len(RemoveAt(s, i)) = Len(s) - 1
           /\ \A j \in 1..Len(s) - 1 :
                 RemoveAt(s, i)[j] = IF j < i THEN s[j] ELSE s[j + 1]
<1> DEFINE a == SubSeq(s, 1, i - 1)
           b == SubSeq(s, i + 1, Len(s))
<1>1. /\ a \in Seq(S) /\ Len(a) = i - 1
      /\ \A j \in 1..i - 1 : a[j] = s[j]
  OBVIOUS
<1>2. /\ b \in Seq(S) /\ Len(b) = Len(s) - i
      /\ \A j \in 1..Len(s) - i : b[j] = s[i + j]
  OBVIOUS
<1> HIDE DEF a, b
<1>3. /\ a \o b \in Seq(S) /\ Len(a \o b) = Len(s) - 1
      /\ \A j \in 1..Len(s) - 1 : (a \o b)[j] = IF j < i THEN a[j] ELSE b[j - (i - 1)]
  <2>1. a \o b \in Seq(S) /\ Len(a \o b) = Len(a) + Len(b)
    BY <1>1, <1>2, ConcatProperties
  <2>2. \A j \in 1..Len(a) + Len(b) :
           (a \o b)[j] = IF j <= Len(a) THEN a[j] ELSE b[j - Len(a)]
    BY <1>1, <1>2, ConcatProperties
  <2>3. Len(s) \in Nat /\ i \in Nat /\ i >= 1 /\ i <= Len(s)
    OBVIOUS
  <2>4. Len(a) + Len(b) = Len(s) - 1
    BY <1>1, <1>2, <2>3
  <2>5. ASSUME NEW j \in 1..Len(s) - 1
        PROVE  (a \o b)[j] = IF j < i THEN a[j] ELSE b[j - (i - 1)]
    BY <1>1, <2>2, <2>3, <2>4
  <2>6. QED
    BY <2>1, <2>4, <2>5
<1>4. \A j \in 1..Len(s) - 1 : (a \o b)[j] = IF j < i THEN s[j] ELSE s[j + 1]
  BY <1>1, <1>2, <1>3
<1>5. RemoveAt(s, i) = a \o b
  BY DEF RemoveAt, a, b
<1>6. QED
  BY <1>3, <1>4, <1>5

(* In a list without duplicates the first occurrence is the only one. *)
LEMMA RemoveFirstIsRemoveAt ==
    ASSUME NEW S, NEW s \in Seq(S), IsInjective(s), NEW i \in 1..Len(s)
    PROVE  RemoveFirst(s, s[i]) = RemoveAt(s, i)
<1> DEFINE I == {j \in 1..Len(s) : s[j] = s[i]}
<1>1. I = {i}
  BY DEF IsInjective
<1>2. SelectInSeq(s, LAMBDA v : v = s[i]) = IF I # {} THEN Min(I) ELSE 0
  BY DEF SelectInSeq
<1>3. Min(I) = i
  <2>1. Min(I) \in I
    BY <1>1 DEF Min
  <2>2. QED
    BY <1>1, <2>1
<1>4. SelectInSeq(s, LAMBDA v : v = s[i]) = i
  BY <1>1, <1>2, <1>3
<1>5. \E j \in 1..Len(s) : s[j] = s[i]
  OBVIOUS
<1>6. RemoveFirst(s, s[i]) = RemoveAt(s, SelectInSeq(s, LAMBDA v : v = s[i]))
  BY <1>5 DEF RemoveFirst
<1>7. QED
  BY <1>4, <1>6

LEMMA RemoveFromList ==
    ASSUME NEW S, NEW s \in Seq(S), IsInjective(s), NEW e
    PROVE  /\ RemoveFirst(s, e) \in Seq(S) /\ IsInjective(RemoveFirst(s, e))
           /\ ToSet(RemoveFirst(s, e)) = ToSet(s) \ {e}
           /\ Len(RemoveFirst(s, e)) <= Len(s)
<1>1. DOMAIN s = 1..Len(s) /\ Len(s) \in Nat
  OBVIOUS
<1>2. CASE e \notin ToSet(s)
  <2>1. ~\E i \in 1..Len(s) : s[i] = e
    BY <1>1, <1>2 DEF ToSet
  <2>2. RemoveFirst(s, e) = s
    BY <2>1 DEF RemoveFirst
  <2>3. QED
    BY <1>1, <1>2, <2>2
<1>3. CASE e \in ToSet(s)
  <2>1. PICK i \in 1..Len(s) : s[i] = e
    BY <1>1, <1>3 DEF ToSet
  <2> DEFINE shorter == RemoveAt(s, i)
  <2>2. RemoveFirst(s, e) = shorter
    BY <2>1, RemoveFirstIsRemoveAt
  <2>3. /\ shorter \in Seq(S) /\ Len(shorter) = Len(s) - 1
        /\ \A j \in 1..Len(s) - 1 : shorter[j] = IF j < i THEN s[j] ELSE s[j + 1]
    BY RemoveAtProperties
  <2> HIDE DEF shorter
  <2>4. DOMAIN shorter = 1..Len(s) - 1
    BY <2>3
  <2>5. IsInjective(shorter)
    <3> SUFFICES ASSUME NEW j \in 1..Len(s) - 1, NEW k \in 1..Len(s) - 1,
                        shorter[j] = shorter[k]
                 PROVE  j = k
      BY <2>4 DEF IsInjective
    <3>1. /\ (IF j < i THEN j ELSE j + 1) \in DOMAIN s
          /\ (IF k < i THEN k ELSE k + 1) \in DOMAIN s
          /\ s[IF j < i THEN j ELSE j + 1] = s[IF k < i THEN k ELSE k + 1]
      BY <1>1, <2>3
    <3>2. (IF j < i THEN j ELSE j + 1) = (IF k < i THEN k ELSE k + 1)
      BY <3>1 DEF IsInjective
    <3>3. QED
      BY <3>2
  <2>6. ToSet(shorter) \subseteq ToSet(s) \ {e}
    <3> SUFFICES ASSUME NEW j \in 1..Len(s) - 1
                 PROVE  shorter[j] \in ToSet(s) /\ shorter[j] # e
      BY <2>4 DEF ToSet
    <3>1. PICK k \in DOMAIN s : k # i /\ shorter[j] = s[k]
      <4>1. CASE j < i
        BY <1>1, <2>3, <4>1
      <4>2. CASE ~(j < i)
        <5>1. j + 1 \in DOMAIN s /\ j + 1 # i /\ shorter[j] = s[j + 1]
          BY <1>1, <2>3, <4>2
        <5>2. QED
          BY <5>1
      <4>3. QED
        BY <4>1, <4>2
    <3>2. QED
      BY <1>1, <2>1, <3>1 DEF ToSet, IsInjective
  <2>7. ToSet(s) \ {e} \subseteq ToSet(shorter)
    <3> SUFFICES ASSUME NEW k \in 1..Len(s), s[k] # e
                 PROVE  s[k] \in ToSet(shorter)
      BY <1>1 DEF ToSet
    <3>1. k # i
      BY <2>1
    <3>2. CASE k < i
      <4>1. k \in DOMAIN shorter /\ shorter[k] = s[k]
        BY <1>1, <2>3, <2>4, <3>2
      <4>2. QED
        BY <4>1 DEF ToSet
    <3>3. CASE k > i
      <4>1. k - 1 \in DOMAIN shorter /\ k - 1 + 1 = k /\ ~(k - 1 < i)
        BY <1>1, <2>4, <3>3
      <4>2. shorter[k - 1] = s[k]
        BY <2>3, <2>4, <4>1
      <4>3. QED
        BY <4>1, <4>2 DEF ToSet
    <3>4. QED
      BY <1>1, <3>1, <3>2, <3>3
  <2>8. QED
    BY <1>1, <2>2, <2>3, <2>5, <2>6, <2>7
<1>4. QED
  BY <1>2, <1>3

(* A list is no shorter than the set of what is on it. *)
LEMMA SetOfList ==
    ASSUME NEW S, NEW s \in Seq(S)
    PROVE  IsFiniteSet(ToSet(s)) /\ Cardinality(ToSet(s)) <= Len(s)
<1>1. s \in Surjection(1..Len(s), ToSet(s))
  BY DEF Surjection, ToSet
<1>2. IsFiniteSet(1..Len(s)) /\ Cardinality(1..Len(s)) = Len(s)
  <2>1. Len(s) \in Nat /\ 1 \in Int /\ Len(s) \in Int
    OBVIOUS
  <2>2. Cardinality(1..Len(s)) = IF 1 > Len(s) THEN 0 ELSE Len(s) - 1 + 1
    BY <2>1, FS_Interval
  <2>3. QED
    BY <2>1, <2>2, FS_Interval
<1>3. QED
  BY <1>1, <1>2, FS_Surjection

-----------------------------------------------------------------------------
(* Types *)

LEMMA InitIsTyped == Init => TypeOK
<1> SUFFICES ASSUME Init PROVE TypeOK
  OBVIOUS
<1>1. stage \in [Ops -> Stages]
  BY DEF Init, Stages
<1>2. posted \in Seq(Ops) /\ queue \in Seq(Ops) /\ boundedOperations \in Seq(BoundedOps)
  BY EmptySeq DEF Init
<1>3. gateOwner \in [Gates -> Ops \cup {Free}]
  BY DEF Init
<1>4. exceptions \in 0..MaxExceptions /\ suspensions \in 0..MaxSuspensions
  BY OperationsAssumption DEF OperationsAssumption, Init
<1>5. suspended \in BOOLEAN /\ resumeScheduled \in BOOLEAN
  BY DEF Init
<1>6. /\ cancelled \subseteq Ops /\ abandoned \subseteq Ops
      /\ priorityOperationsCount \in Int /\ straysDestroyed \in Nat
  BY DEF Init
<1>7. QED
  BY <1>1, <1>2, <1>3, <1>4, <1>5, <1>6 DEF TypeOK

LEMMA AdvanceKeepsType ==
    ASSUME TypeOK, NEW op \in Ops, NEW to \in Stages,
           stage' = [stage EXCEPT ![op] = to]
    PROVE  /\ stage' \in [Ops -> Stages]
           /\ stage'[op] = to
           /\ \A other \in Ops \ {op} : stage'[other] = stage[other]
BY DEF TypeOK

(* Registering leaves the list a list of bounded operations. *)
LEMMA RegisterKeepsType ==
    ASSUME TypeOK, NEW op \in Ops, Register(op)
    PROVE  boundedOperations' \in Seq(BoundedOps) /\ cancelled' \subseteq Ops
<1> USE DEF Register
<1>1. /\ BoundedOps \subseteq Ops /\ MaxBoundedOperations \in Nat
      /\ boundedOperations \in Seq(BoundedOps) /\ cancelled \subseteq Ops
  BY OperationsAssumption DEF OperationsAssumption, TypeOK
<1>2. CASE op \notin BoundedOps
  BY <1>1, <1>2
<1>3. CASE op \in BoundedOps /\ ~(Len(boundedOperations) > MaxBoundedOperations)
  <2>1. /\ boundedOperations' = Append(boundedOperations, op)
        /\ cancelled' = cancelled
    BY <1>3 DEF AddBounded
  <2>2. Append(boundedOperations, op) \in Seq(BoundedOps)
    BY <1>1, <1>3, AppendProperties
  <2>3. QED
    BY <1>1, <2>1, <2>2
<1>4. CASE op \in BoundedOps /\ Len(boundedOperations) > MaxBoundedOperations
  <2>1. boundedOperations # <<>>
    BY <1>1, <1>4
  <2>2. Tail(boundedOperations) \in Seq(BoundedOps) /\ Head(boundedOperations) \in Ops
    BY <1>1, <2>1, HeadTailProperties
  <2>3. Append(Tail(boundedOperations), op) \in Seq(BoundedOps)
    BY <1>4, <2>2, AppendProperties
  <2>4. /\ boundedOperations' = Append(Tail(boundedOperations), op)
        /\ cancelled' = cancelled \cup {Head(boundedOperations)}
    BY <1>4 DEF AddBounded
  <2>5. QED
    BY <1>1, <2>2, <2>3, <2>4
<1>5. QED
  BY <1>2, <1>3, <1>4

LEMMA NextKeepsType ==
    ASSUME TypeOK, IsInjective(boundedOperations), [Next]_vars
    PROVE  TypeOK'
<1> USE DEF bookkeeping, timing
<1>1. /\ "registeredOnMain" \in Stages /\ "registered" \in Stages /\ "posted" \in Stages
      /\ "queued" \in Stages /\ "started" \in Stages /\ "working" \in Stages
      /\ "finishing" \in Stages /\ "over" \in Stages /\ "threw" \in Stages
      /\ "destroyed" \in Stages
  BY DEF Stages
<1>2. ASSUME NEW op \in Ops, NEW where \in {"registeredOnMain", "registered"},
             PerformSelector(op, where)
      PROVE  TypeOK'
  <2>1. stage' \in [Ops -> Stages]
    BY <1>1, <1>2, AdvanceKeepsType DEF PerformSelector, Advance
  <2>2. boundedOperations' \in Seq(BoundedOps) /\ cancelled' \subseteq Ops
    BY <1>2, RegisterKeepsType DEF PerformSelector
  <2>3. QED
    BY <1>2, <2>1, <2>2 DEF PerformSelector, TypeOK
<1>3. ASSUME NEW op \in Ops, Post(op) PROVE TypeOK'
  <2>1. stage' \in [Ops -> Stages]
    BY <1>1, <1>3, AdvanceKeepsType DEF Post, Advance
  <2>2. posted' \in Seq(Ops)
    BY <1>3, AppendProperties DEF Post, TypeOK
  <2>3. QED
    BY <1>3, <2>1, <2>2 DEF Post, TypeOK
<1>4. ASSUME NEW op \in Ops, AddOperation(op)
      PROVE  queue' \in Seq(Ops) /\ priorityOperationsCount' \in Int
  BY <1>4, AppendProperties DEF AddOperation, TypeOK
<1>5. ASSUME NEW op \in Ops, AddFromMain(op) PROVE TypeOK'
  <2>1. stage' \in [Ops -> Stages]
    BY <1>1, <1>5, AdvanceKeepsType DEF AddFromMain, Advance
  <2>2. queue' \in Seq(Ops) /\ priorityOperationsCount' \in Int
    BY <1>4, <1>5 DEF AddFromMain
  <2>3. QED
    BY <1>5, <2>1, <2>2 DEF AddFromMain, AddOperation, TypeOK
<1>6. ASSUME AddFromRunLoop PROVE TypeOK'
  <2>1. Head(posted) \in Ops /\ Tail(posted) \in Seq(Ops)
    BY <1>6, HeadTailProperties DEF AddFromRunLoop, TypeOK
  <2>2. stage' \in [Ops -> Stages]
    BY <1>1, <1>6, <2>1, AdvanceKeepsType DEF AddFromRunLoop, Advance
  <2>3. queue' \in Seq(Ops) /\ priorityOperationsCount' \in Int
    BY <1>4, <1>6, <2>1 DEF AddFromRunLoop
  <2>4. QED
    BY <1>6, <2>1, <2>2, <2>3 DEF AddFromRunLoop, AddOperation, TypeOK
<1>7. ASSUME NEW op \in Ops, Cancel(op) PROVE TypeOK'
  BY <1>7 DEF Cancel, TypeOK
<1>8. ASSUME NEW i \in DOMAIN queue, Start(i) PROVE TypeOK'
  <2>1. queue[i] \in Ops /\ i \in 1..Len(queue)
    BY DEF TypeOK
  <2>2. stage' \in [Ops -> Stages]
    BY <1>1, <1>8, <2>1, AdvanceKeepsType DEF Start, Advance
  <2>3. queue' \in Seq(Ops)
    BY <1>8, <2>1, RemoveAtProperties DEF Start, TypeOK
  <2>4. QED
    BY <1>8, <2>2, <2>3 DEF Start, TypeOK
<1>9. ASSUME NEW op \in Ops, LockGate(op) PROVE TypeOK'
  <2>1. stage' \in [Ops -> Stages]
    BY <1>1, <1>9, AdvanceKeepsType DEF LockGate, Advance
  <2>2. gateOwner' \in [Gates -> Ops \cup {Free}]
    BY <1>9 DEF LockGate, TypeOK
  <2>3. QED
    BY <1>9, <2>1, <2>2 DEF LockGate, TypeOK
<1>10. ASSUME NEW op \in Ops, UnlockGate(op) PROVE TypeOK'
  <2>1. stage' \in [Ops -> Stages]
    BY <1>1, <1>10, AdvanceKeepsType DEF UnlockGate, Advance
  <2>2. gateOwner' \in [Gates -> Ops \cup {Free}]
    BY <1>10 DEF UnlockGate, TypeOK
  <2>3. QED
    BY <1>10, <2>1, <2>2 DEF UnlockGate, TypeOK
<1>11. ASSUME NEW op \in Ops, Finish(op) PROVE TypeOK'
  <2>1. stage' \in [Ops -> Stages]
    BY <1>1, <1>11, AdvanceKeepsType DEF Finish, Advance
  <2>2. boundedOperations' \in Seq(BoundedOps)
    BY <1>11, RemoveFromList DEF Finish, TypeOK
  <2>3. QED
    BY <1>11, <2>1, <2>2 DEF Finish, TypeOK
<1>12. ASSUME NEW op \in Ops, ThrowAndRestart(op) PROVE TypeOK'
  <2>1. stage' \in [Ops -> Stages]
    BY <1>1, <1>12, AdvanceKeepsType DEF ThrowAndRestart, Advance
  <2>2. queue' \in Seq(Ops) /\ boundedOperations' \in Seq(BoundedOps)
    BY <1>12, EmptySeq DEF ThrowAndRestart
  <2>3. exceptions' \in 0..MaxExceptions
    BY <1>12, OperationsAssumption DEF OperationsAssumption, ThrowAndRestart, TypeOK
  <2>4. abandoned' \subseteq Ops
    BY <1>12 DEF ThrowAndRestart, TypeOK, In
  <2>5. suspended' \in BOOLEAN /\ resumeScheduled' \in BOOLEAN
    BY <1>12 DEF ThrowAndRestart, TypeOK
  <2>6. /\ cancelled' \subseteq Ops /\ posted' \in Seq(Ops)
        /\ priorityOperationsCount' \in Int /\ straysDestroyed' \in Nat
        /\ gateOwner' \in [Gates -> Ops \cup {Free}] /\ suspensions' \in 0..MaxSuspensions
    BY <1>12 DEF ThrowAndRestart, TypeOK
  <2>7. QED
    BY <2>1, <2>2, <2>3, <2>4, <2>5, <2>6 DEF TypeOK
<1>13. ASSUME NEW op \in Ops, Destroy(op) PROVE TypeOK'
  <2>1. stage' \in [Ops -> Stages]
    BY <1>1, <1>13, AdvanceKeepsType DEF Destroy
  <2>2. priorityOperationsCount' \in Int /\ straysDestroyed' \in Nat
    BY <1>13 DEF Destroy, TypeOK
  <2>3. QED
    BY <1>13, <2>1, <2>2 DEF Destroy, TypeOK
<1>14. ASSUME TemporarilySuspend PROVE TypeOK'
  <2>1. suspensions' \in 0..MaxSuspensions
    BY <1>14, OperationsAssumption DEF OperationsAssumption, TemporarilySuspend, TypeOK
  <2>2. QED
    BY <1>14, <2>1 DEF TemporarilySuspend, TypeOK
<1>15. ASSUME Resume PROVE TypeOK'
  BY <1>15 DEF Resume, TypeOK
<1>16. ASSUME UNCHANGED vars PROVE TypeOK'
  BY <1>16 DEF vars, TypeOK
<1>17. QED
  BY <1>2, <1>3, <1>5, <1>6, <1>7, <1>8, <1>9, <1>10, <1>11, <1>12, <1>13, <1>14, <1>15,
     <1>16 DEF Next

-----------------------------------------------------------------------------
(* The bounded list *)

Pending == {op \in BoundedOps : stage[op] \in Unfinished /\ op \notin cancelled}

ListIsPending ==
    /\ ToSet(boundedOperations) \subseteq Pending
    /\ exceptions = 0 => Pending \subseteq ToSet(boundedOperations)

(* The list has no operation twice and is not longer than it may be; and   *)
(* the cancelled operations are ones that were created.                    *)
BoundedInv ==
    /\ IsInjective(boundedOperations)
    /\ Len(boundedOperations) <= MaxBoundedOperations + 1
    /\ \A op \in Ops : stage[op] = "unborn" => op \notin cancelled
    /\ ListIsPending

LEMMA InitIsBounded == Init => BoundedInv
<1> SUFFICES ASSUME Init PROVE BoundedInv
  OBVIOUS
<1>1. /\ boundedOperations = <<>> /\ cancelled = {}
      /\ \A op \in Ops : stage[op] = "unborn"
  BY DEF Init
<1>2. MaxBoundedOperations \in Nat /\ BoundedOps \subseteq Ops
  BY OperationsAssumption DEF OperationsAssumption
<1>3. IsInjective(boundedOperations) /\ ToSet(boundedOperations) = {}
  BY <1>1 DEF IsInjective, ToSet
<1>4. Len(boundedOperations) <= MaxBoundedOperations + 1
  BY <1>1, <1>2
<1>5. Pending = {}
  BY <1>1, <1>2 DEF Pending, Unfinished
<1>6. QED
  BY <1>1, <1>3, <1>4, <1>5 DEF BoundedInv, ListIsPending

(* An operation moves on, and stays as unfinished as it was if it is one   *)
(* of those on the list: nothing changes for the list.                     *)
LEMMA MovingOnKeepsBounded ==
    ASSUME TypeOK, BoundedInv, NEW op \in Ops, NEW to,
           stage' = [stage EXCEPT ![op] = to], to # "unborn",
           op \in BoundedOps \ cancelled => (stage[op] \in Unfinished <=> to \in Unfinished),
           UNCHANGED <<boundedOperations, cancelled, exceptions>>
    PROVE  BoundedInv'
<1>1. /\ stage'[op] = to
      /\ \A other \in Ops \ {op} : stage'[other] = stage[other]
  BY DEF TypeOK
<1>2. BoundedOps \subseteq Ops
  BY OperationsAssumption DEF OperationsAssumption
<1>3. Pending' = Pending
  BY <1>1, <1>2 DEF Pending
<1>4. \A other \in Ops : stage'[other] = "unborn" => other \notin cancelled'
  BY <1>1 DEF BoundedInv
<1>5. QED
  BY <1>3, <1>4 DEF BoundedInv, ListIsPending

(* The oldest operation is cancelled when the list is full: it is another  *)
(* than the new one, which is not cancelled yet.                           *)
LEMMA RegisterKeepsBounded ==
    ASSUME TypeOK, BoundedInv, NEW op \in Ops, NEW to \in {"registeredOnMain", "registered"},
           Advance(op, "unborn", to), Register(op), UNCHANGED exceptions
    PROVE  BoundedInv'
<1>1. /\ stage[op] = "unborn" /\ stage'[op] = to
      /\ \A other \in Ops \ {op} : stage'[other] = stage[other]
  BY DEF Advance, TypeOK
<1>2. /\ BoundedOps \subseteq Ops /\ MaxBoundedOperations \in Nat
      /\ boundedOperations \in Seq(BoundedOps)
  BY OperationsAssumption DEF OperationsAssumption, TypeOK
<1>3. stage[op] \notin Unfinished /\ to \in Unfinished /\ to # "unborn"
  BY <1>1 DEF Unfinished
<1>4. op \notin cancelled
  BY <1>1 DEF BoundedInv
<1>5. op \notin ToSet(boundedOperations)
  BY <1>3 DEF BoundedInv, ListIsPending, Pending
<1>6. CASE op \notin BoundedOps
  <2>1. UNCHANGED <<boundedOperations, cancelled>>
    BY <1>6 DEF Register
  <2>2. stage' = [stage EXCEPT ![op] = to]
    BY DEF Advance
  <2>3. QED
    BY <1>3, <1>6, <2>1, <2>2, MovingOnKeepsBounded
<1>7. CASE op \in BoundedOps /\ ~(Len(boundedOperations) > MaxBoundedOperations)
  <2>1. boundedOperations' = Append(boundedOperations, op) /\ cancelled' = cancelled
    BY <1>7 DEF Register, AddBounded
  <2>2. /\ IsInjective(boundedOperations')
        /\ ToSet(boundedOperations') = ToSet(boundedOperations) \cup {op}
        /\ Len(boundedOperations') = Len(boundedOperations) + 1
    BY <1>2, <1>5, <1>7, <2>1, AppendToList DEF BoundedInv
  <2>3. Len(boundedOperations') <= MaxBoundedOperations + 1
    BY <1>2, <1>7, <2>2
  <2>4. Pending' = Pending \cup {op}
    BY <1>1, <1>2, <1>3, <1>4, <1>7, <2>1 DEF Pending
  <2>5. ListIsPending'
    BY <2>2, <2>4 DEF BoundedInv, ListIsPending
  <2>6. \A other \in Ops : stage'[other] = "unborn" => other \notin cancelled'
    BY <1>1, <1>3, <2>1 DEF BoundedInv
  <2>7. QED
    BY <2>2, <2>3, <2>5, <2>6 DEF BoundedInv
<1>8. CASE op \in BoundedOps /\ Len(boundedOperations) > MaxBoundedOperations
  <2> DEFINE oldest == Head(boundedOperations)
             others == Tail(boundedOperations)
  <2>1. boundedOperations' = Append(others, op) /\ cancelled' = cancelled \cup {oldest}
    BY <1>8 DEF Register, AddBounded
  <2>2. boundedOperations # <<>>
    BY <1>2, <1>8
  <2>3. /\ others \in Seq(BoundedOps) /\ IsInjective(others)
        /\ ToSet(others) = ToSet(boundedOperations) \ {oldest}
        /\ oldest \in ToSet(boundedOperations)
        /\ Len(others) = Len(boundedOperations) - 1
    BY <1>2, <2>2, TailOfList DEF BoundedInv
  <2> HIDE DEF oldest, others
  <2>4. oldest # op
    BY <1>5, <2>3
  <2>5. op \notin ToSet(others)
    BY <1>5, <2>3
  <2>6. /\ IsInjective(boundedOperations')
        /\ ToSet(boundedOperations') = (ToSet(boundedOperations) \ {oldest}) \cup {op}
        /\ Len(boundedOperations') = Len(others) + 1
    BY <1>8, <2>1, <2>3, <2>5, AppendToList
  <2>7. Len(boundedOperations') <= MaxBoundedOperations + 1
    <3>1. Len(boundedOperations) \in Nat /\ Len(boundedOperations) <= MaxBoundedOperations + 1
      BY <1>2 DEF BoundedInv
    <3>2. QED
      BY <1>2, <2>3, <2>6, <3>1
  <2>8. Pending' = (Pending \ {oldest}) \cup {op}
    BY <1>1, <1>2, <1>3, <1>4, <1>8, <2>1, <2>4 DEF Pending
  <2>9. ListIsPending'
    BY <2>6, <2>8 DEF BoundedInv, ListIsPending
  <2>10. oldest \in Ops /\ stage[oldest] # "unborn"
    BY <1>2, <2>3 DEF BoundedInv, ListIsPending, Pending, Unfinished
  <2>11. \A other \in Ops : stage'[other] = "unborn" => other \notin cancelled'
    BY <1>1, <1>3, <2>1, <2>4, <2>10 DEF BoundedInv
  <2>12. QED
    BY <2>6, <2>7, <2>9, <2>11 DEF BoundedInv
<1>9. QED
  BY <1>6, <1>7, <1>8

LEMMA FinishKeepsBounded ==
    ASSUME TypeOK, BoundedInv, NEW op \in Ops, Finish(op)
    PROVE  BoundedInv'
<1>1. /\ stage[op] = "finishing" /\ stage'[op] = "over"
      /\ \A other \in Ops \ {op} : stage'[other] = stage[other]
      /\ cancelled' = cancelled /\ exceptions' = exceptions
  BY DEF Finish, Advance, TypeOK
<1>2. /\ BoundedOps \subseteq Ops /\ MaxBoundedOperations \in Nat
      /\ boundedOperations \in Seq(BoundedOps)
  BY OperationsAssumption DEF OperationsAssumption, TypeOK
<1>3. /\ IsInjective(boundedOperations')
      /\ ToSet(boundedOperations') = ToSet(boundedOperations) \ {op}
      /\ Len(boundedOperations') <= Len(boundedOperations)
      /\ boundedOperations' \in Seq(BoundedOps)
  <2>1. CASE op \in BoundedOps
    BY <1>2, <2>1, RemoveFromList DEF Finish, BoundedInv
  <2>2. CASE op \notin BoundedOps
    <3>1. boundedOperations' = boundedOperations
      BY <2>2 DEF Finish
    <3>2. op \notin ToSet(boundedOperations)
      BY <2>2 DEF BoundedInv, ListIsPending, Pending
    <3>3. QED
      BY <1>2, <3>1, <3>2 DEF BoundedInv
  <2>3. QED
    BY <2>1, <2>2
<1>4. Len(boundedOperations') <= MaxBoundedOperations + 1
  <2>1. Len(boundedOperations) \in Nat /\ Len(boundedOperations') \in Nat
    BY <1>2, <1>3
  <2>2. QED
    BY <1>2, <1>3, <2>1 DEF BoundedInv
<1>5. Pending' = Pending \ {op}
  BY <1>1, <1>2 DEF Pending, Unfinished
<1>6. ListIsPending'
  BY <1>1, <1>3, <1>5 DEF BoundedInv, ListIsPending
<1>7. \A other \in Ops : stage'[other] = "unborn" => other \notin cancelled'
  BY <1>1 DEF BoundedInv
<1>8. QED
  BY <1>3, <1>4, <1>6, <1>7 DEF BoundedInv

LEMMA ThrowKeepsBounded ==
    ASSUME TypeOK, BoundedInv, NEW op \in Ops, ThrowAndRestart(op)
    PROVE  BoundedInv'
<1>1. /\ stage'[op] = "threw"
      /\ \A other \in Ops \ {op} : stage'[other] = stage[other]
      /\ cancelled' = cancelled /\ boundedOperations' = <<>>
  BY DEF ThrowAndRestart, Advance, TypeOK
<1>2. exceptions' # 0 /\ MaxBoundedOperations \in Nat
  BY OperationsAssumption DEF OperationsAssumption, ThrowAndRestart, TypeOK
<1>3. IsInjective(boundedOperations') /\ ToSet(boundedOperations') = {}
  BY <1>1 DEF IsInjective, ToSet
<1>4. Len(boundedOperations') <= MaxBoundedOperations + 1
  BY <1>1, <1>2
<1>5. \A other \in Ops : stage'[other] = "unborn" => other \notin cancelled'
  BY <1>1 DEF BoundedInv
<1>6. QED
  BY <1>2, <1>3, <1>4, <1>5 DEF BoundedInv, ListIsPending

LEMMA CancelKeepsBounded ==
    ASSUME TypeOK, BoundedInv, NEW op \in Ops, Cancel(op)
    PROVE  BoundedInv'
<1>1. /\ op \notin BoundedOps /\ stage[op] # "unborn"
      /\ cancelled' = cancelled \cup {op}
      /\ stage' = stage /\ exceptions' = exceptions
      /\ boundedOperations' = boundedOperations
  BY DEF Cancel, bookkeeping
<1>2. Pending' = Pending
  BY <1>1 DEF Pending
<1>3. \A other \in Ops : stage'[other] = "unborn" => other \notin cancelled'
  BY <1>1 DEF BoundedInv
<1>4. QED
  BY <1>1, <1>2, <1>3 DEF BoundedInv, ListIsPending

LEMMA DestroyKeepsBounded ==
    ASSUME TypeOK, BoundedInv, NEW op \in Ops, Destroy(op)
    PROVE  BoundedInv'
<1>1. /\ op \notin ToSet(boundedOperations)
      /\ stage[op] # "unborn"
      /\ stage'[op] = "destroyed"
      /\ \A other \in Ops \ {op} : stage'[other] = stage[other]
      /\ UNCHANGED <<boundedOperations, cancelled, exceptions>>
  BY DEF Destroy, TypeOK, Contains, ToSet
<1>2. BoundedOps \subseteq Ops
  BY OperationsAssumption DEF OperationsAssumption
<1>3. Pending' = Pending \ {op}
  BY <1>1, <1>2 DEF Pending, Unfinished
<1>4. ListIsPending'
  BY <1>1, <1>3 DEF BoundedInv, ListIsPending
<1>5. \A other \in Ops : stage'[other] = "unborn" => other \notin cancelled'
  BY <1>1 DEF BoundedInv
<1>6. QED
  BY <1>1, <1>4, <1>5 DEF BoundedInv

LEMMA NextKeepsBounded ==
    ASSUME TypeOK, BoundedInv, [Next]_vars
    PROVE  BoundedInv'
<1> USE DEF bookkeeping, timing
<1>1. ASSUME NEW op \in Ops, NEW where \in {"registeredOnMain", "registered"},
             PerformSelector(op, where)
      PROVE  BoundedInv'
  BY <1>1, RegisterKeepsBounded DEF PerformSelector
<1>2. ASSUME NEW op \in Ops, NEW from \in Unfinished, NEW to \in Unfinished,
             Advance(op, from, to), UNCHANGED <<boundedOperations, cancelled, exceptions>>
      PROVE  BoundedInv'
  <2>1. stage[op] \in Unfinished /\ stage' = [stage EXCEPT ![op] = to]
    BY <1>2 DEF Advance
  <2>2. to # "unborn"
    BY DEF Unfinished
  <2>3. QED
    BY <1>2, <2>1, <2>2, MovingOnKeepsBounded
<1>3. /\ "registeredOnMain" \in Unfinished /\ "registered" \in Unfinished
      /\ "posted" \in Unfinished /\ "queued" \in Unfinished /\ "started" \in Unfinished
      /\ "working" \in Unfinished /\ "finishing" \in Unfinished
  BY DEF Unfinished
<1>4. ASSUME NEW op \in Ops, Post(op) PROVE BoundedInv'
  BY <1>2, <1>3, <1>4 DEF Post
<1>5. ASSUME NEW op \in Ops, AddFromMain(op) PROVE BoundedInv'
  BY <1>2, <1>3, <1>5 DEF AddFromMain, AddOperation
<1>6. ASSUME AddFromRunLoop PROVE BoundedInv'
  <2>1. Head(posted) \in Ops
    BY <1>6, HeadTailProperties DEF AddFromRunLoop, TypeOK
  <2>2. QED
    BY <1>2, <1>3, <1>6, <2>1 DEF AddFromRunLoop, AddOperation
<1>7. ASSUME NEW op \in Ops, Cancel(op) PROVE BoundedInv'
  BY <1>7, CancelKeepsBounded
<1>8. ASSUME NEW i \in DOMAIN queue, Start(i) PROVE BoundedInv'
  <2>1. queue[i] \in Ops
    BY DEF TypeOK
  <2>2. /\ stage[queue[i]] = "queued"
        /\ UNCHANGED <<boundedOperations, cancelled, exceptions>>
    BY <1>8 DEF Start, Advance
  <2>3. CASE queue[i] \in cancelled
    <3>1. stage' = [stage EXCEPT ![queue[i]] = "over"]
      BY <1>8, <2>3 DEF Start, Advance
    <3>2. QED
      BY <2>1, <2>2, <2>3, <3>1, MovingOnKeepsBounded
  <2>4. CASE queue[i] \notin cancelled
    <3>1. Advance(queue[i], "queued", "started")
      BY <1>8, <2>4 DEF Start
    <3>2. QED
      BY <1>2, <1>3, <2>1, <2>2, <3>1
  <2>5. QED
    BY <2>3, <2>4
<1>9. ASSUME NEW op \in Ops, LockGate(op) PROVE BoundedInv'
  <2>1. UNCHANGED <<boundedOperations, cancelled, exceptions>>
    BY <1>9 DEF LockGate
  <2>2. CASE op \in cancelled
    BY <1>2, <1>3, <1>9, <2>1, <2>2 DEF LockGate
  <2>3. CASE op \notin cancelled
    BY <1>2, <1>3, <1>9, <2>1, <2>3 DEF LockGate
  <2>4. QED
    BY <2>2, <2>3
<1>10. ASSUME NEW op \in Ops, UnlockGate(op) PROVE BoundedInv'
  BY <1>2, <1>3, <1>10 DEF UnlockGate
<1>11. ASSUME NEW op \in Ops, Finish(op) PROVE BoundedInv'
  BY <1>11, FinishKeepsBounded
<1>12. ASSUME NEW op \in Ops, ThrowAndRestart(op) PROVE BoundedInv'
  BY <1>12, ThrowKeepsBounded
<1>13. ASSUME NEW op \in Ops, Destroy(op) PROVE BoundedInv'
  BY <1>13, DestroyKeepsBounded
<1>14. ASSUME UNCHANGED <<stage, cancelled, boundedOperations, exceptions>>
       PROVE  BoundedInv'
  BY <1>14 DEF BoundedInv, ListIsPending, Pending
<1>15. ASSUME TemporarilySuspend PROVE BoundedInv'
  BY <1>14, <1>15 DEF TemporarilySuspend
<1>16. ASSUME Resume PROVE BoundedInv'
  BY <1>14, <1>16 DEF Resume
<1>17. ASSUME UNCHANGED vars PROVE BoundedInv'
  BY <1>14, <1>17 DEF vars
<1>18. QED
  BY <1>1, <1>4, <1>5, <1>6, <1>7, <1>8, <1>9, <1>10, <1>11, <1>12, <1>13, <1>15, <1>16,
     <1>17 DEF Next

LEMMA TypedAndBounded == Spec => [](TypeOK /\ BoundedInv)
<1>1. Init => TypeOK /\ BoundedInv
  BY InitIsTyped, InitIsBounded
<1>2. TypeOK /\ BoundedInv /\ [Next]_vars => (TypeOK /\ BoundedInv)'
  <2> SUFFICES ASSUME TypeOK, BoundedInv, [Next]_vars PROVE (TypeOK /\ BoundedInv)'
    OBVIOUS
  <2>1. IsInjective(boundedOperations)
    BY DEF BoundedInv
  <2>2. QED
    BY <2>1, NextKeepsType, NextKeepsBounded
<1>3. QED
  BY <1>1, <1>2, PTL DEF Spec

(* Every variable stays in its type: at each step the queue and the lists  *)
(* hold operations, and a gate is free or held by one.                     *)
THEOREM TypeCorrect == Spec => []TypeOK
BY TypedAndBounded, PTL

(* The bounded list holds no operation that is done or cancelled, however  *)
(* registering, posting, cancelling, finishing and restarts interleave;    *)
(* and as long as nothing threw it holds every one that is still to come.  *)
THEOREM BoundedListIsAccurate == Spec => []BoundedListAccurate
<1>1. BoundedInv => BoundedListAccurate
  BY DEF BoundedInv, ListIsPending, BoundedListAccurate, Pending
<1>2. QED
  BY <1>1, TypedAndBounded, PTL

(* No more than maxBoundedOperations + 1 bounded operations are to be      *)
(* worked on, unless one has thrown: the cards the user scrolled past do   *)
(* not keep the queue busy.                                                *)
THEOREM BacklogIsBounded == Spec => []BoundedBacklog
<1>1. ASSUME TypeOK, BoundedInv PROVE BoundedBacklog
  <2> SUFFICES ASSUME exceptions = 0
               PROVE  Cardinality(Pending) <= MaxBoundedOperations + 1
    BY DEF BoundedBacklog, Pending
  <2>1. /\ boundedOperations \in Seq(BoundedOps) /\ Len(boundedOperations) \in Nat
        /\ MaxBoundedOperations \in Nat
    BY <1>1, OperationsAssumption DEF OperationsAssumption, TypeOK
  <2>2. /\ IsFiniteSet(ToSet(boundedOperations))
        /\ Cardinality(ToSet(boundedOperations)) <= Len(boundedOperations)
    BY <2>1, SetOfList
  <2>3. Pending = ToSet(boundedOperations)
    BY <1>1 DEF BoundedInv, ListIsPending
  <2>4. Cardinality(Pending) \in Nat
    BY <2>2, <2>3, FS_CardinalityType
  <2>5. QED
    BY <1>1, <2>1, <2>2, <2>3, <2>4 DEF BoundedInv
<1>2. TypeOK /\ BoundedInv => BoundedBacklog
  BY <1>1
<1>3. QED
  BY <1>2, TypedAndBounded, PTL

-----------------------------------------------------------------------------
(* The count of priority operations *)

InHand == {"started", "working", "finishing"}

Alive == {"queued", "started", "working", "finishing", "over"}

Counted == {op \in Ops \ abandoned : IsPriority(op) /\ stage[op] \in Alive}

(* The worker of the current queue has one operation in hand; so all that  *)
(* the restart by one that throws leaves behind waits, is over or threw    *)
(* itself, and of that nothing is in the new queue.                        *)
RestartsLeaveNothing ==
    /\ \A op, other \in Ops : stage[op] \in InHand /\ stage[other] \in InHand => op = other
    /\ \A op \in abandoned : stage[op] \in {"queued", "over", "threw", "destroyed"}
    /\ \A op \in Ops : stage[op] = "threw" => op \in abandoned
    /\ \A i \in DOMAIN queue : queue[i] \notin abandoned

Count == priorityOperationsCount + straysDestroyed = Cardinality(Counted)

LEMMA CountedIsFinite == IsFiniteSet(Counted) /\ Cardinality(Counted) \in Nat
<1>1. Counted \subseteq Ops /\ IsFiniteSet(Ops)
  BY OperationsAssumption DEF OperationsAssumption, Counted
<1>2. QED
  BY <1>1, FS_Subset, FS_CardinalityType

(* An operation moves on within the queue, without being added or dropped. *)
LEMMA MovingOnKeepsCount ==
    ASSUME TypeOK, Count, NEW op \in Ops, NEW to,
           stage' = [stage EXCEPT ![op] = to],
           op \notin abandoned => (stage[op] \in Alive <=> to \in Alive),
           UNCHANGED <<priorityOperationsCount, straysDestroyed, abandoned>>
    PROVE  Count'
<1>1. /\ stage'[op] = to
      /\ \A other \in Ops \ {op} : stage'[other] = stage[other]
  BY DEF TypeOK
<1>2. Counted' = Counted
  BY <1>1 DEF Counted
<1>3. QED
  BY <1>2 DEF Count

LEMMA AddKeepsCount ==
    ASSUME TypeOK, Count, NEW op \in Ops, op \notin abandoned, stage[op] \notin Alive,
           stage' = [stage EXCEPT ![op] = "queued"], AddOperation(op)
    PROVE  Count'
<1>1. /\ stage'[op] = "queued"
      /\ \A other \in Ops \ {op} : stage'[other] = stage[other]
      /\ abandoned' = abandoned /\ straysDestroyed' = straysDestroyed
  BY DEF TypeOK, AddOperation
<1>2. priorityOperationsCount \in Int /\ straysDestroyed \in Nat
  BY DEF TypeOK
<1>3. CASE IsPriority(op)
  <2>1. Counted' = Counted \cup {op} /\ op \notin Counted
    BY <1>1, <1>3 DEF Counted, Alive, IsPriority
  <2>2. Cardinality(Counted') = Cardinality(Counted) + 1
    BY <2>1, CountedIsFinite, FS_AddElement
  <2>3. priorityOperationsCount' = priorityOperationsCount + 1
    BY <1>3 DEF AddOperation
  <2>4. QED
    BY <1>1, <1>2, <2>2, <2>3, CountedIsFinite DEF Count
<1>4. CASE ~IsPriority(op)
  <2>1. Counted' = Counted
    BY <1>1, <1>4 DEF Counted, IsPriority
  <2>2. priorityOperationsCount' = priorityOperationsCount
    BY <1>2, <1>4 DEF AddOperation
  <2>3. QED
    BY <1>1, <2>1, <2>2 DEF Count
<1>5. QED
  BY <1>3, <1>4

(* What is freed was counted, unless a restart had abandoned it: then it   *)
(* is a stray.                                                             *)
LEMMA DestroyKeepsCount ==
    ASSUME TypeOK, RestartsLeaveNothing, Count, NEW op \in Ops, Destroy(op)
    PROVE  Count'
<1>1. /\ stage'[op] = "destroyed"
      /\ \A other \in Ops \ {op} : stage'[other] = stage[other]
      /\ abandoned' = abandoned
  BY DEF TypeOK, Destroy
<1>2. priorityOperationsCount \in Int /\ straysDestroyed \in Nat
  BY DEF TypeOK
<1>3. op \notin abandoned => stage[op] = "over"
  BY DEF Destroy, RestartsLeaveNothing
<1>4. Counted' = Counted \ {op}
  BY <1>1 DEF Counted, Alive, IsPriority
<1>5. CASE ~IsPriority(op)
  <2>1. op \notin Counted
    BY <1>5 DEF Counted
  <2>2. UNCHANGED <<priorityOperationsCount, straysDestroyed>>
    BY <1>5 DEF Destroy
  <2>3. QED
    BY <1>4, <2>1, <2>2 DEF Count
<1>6. CASE IsPriority(op) /\ op \in abandoned
  <2>1. op \notin Counted
    BY <1>6 DEF Counted
  <2>2. /\ priorityOperationsCount' = priorityOperationsCount - 1
        /\ straysDestroyed' = straysDestroyed + 1
    BY <1>6 DEF Destroy
  <2>3. QED
    BY <1>2, <1>4, <2>1, <2>2 DEF Count
<1>7. CASE IsPriority(op) /\ op \notin abandoned
  <2>1. op \in Counted
    BY <1>3, <1>7 DEF Counted, Alive
  <2>2. Cardinality(Counted') = Cardinality(Counted) - 1
    BY <1>4, <2>1, CountedIsFinite, FS_RemoveElement
  <2>3. /\ priorityOperationsCount' = priorityOperationsCount - 1
        /\ straysDestroyed' = straysDestroyed
    BY <1>2, <1>7 DEF Destroy
  <2>4. QED
    BY <1>2, <2>2, <2>3, CountedIsFinite DEF Count
<1>8. QED
  BY <1>5, <1>6, <1>7

(* The one that throws is the only one in hand: a restart counts nothing   *)
(* and leaves nothing uncounted.                                           *)
LEMMA ThrowKeepsCount ==
    ASSUME TypeOK, RestartsLeaveNothing, NEW op \in Ops, ThrowAndRestart(op)
    PROVE  RestartsLeaveNothing' /\ Count'
<1>1. /\ stage[op] = "working" /\ stage'[op] = "threw"
      /\ \A other \in Ops \ {op} : stage'[other] = stage[other]
      /\ queue' = <<>>
      /\ priorityOperationsCount' = 0 /\ straysDestroyed' = 0
      /\ abandoned' = abandoned \cup In({"queued", "working", "over", "threw"})
  BY DEF ThrowAndRestart, Advance, TypeOK
<1>2. /\ op \in abandoned'
      /\ \A other \in Ops : stage[other] \in {"queued", "over", "threw"} => other \in abandoned'
  BY <1>1 DEF In
<1>3. \A other \in Ops : stage[other] \in InHand => other = op
  BY <1>1 DEF RestartsLeaveNothing, InHand
<1>4. Counted' = {}
  <2> SUFFICES ASSUME NEW other \in Ops, other \notin abandoned', stage'[other] \in Alive
               PROVE  FALSE
    BY DEF Counted, IsPriority
  <2>1. other # op /\ stage[other] \in Alive
    BY <1>1, <1>2
  <2>2. QED
    BY <1>2, <1>3, <2>1 DEF Alive, InHand
<1>5. Count'
  BY <1>1, <1>4, FS_EmptySet DEF Count
<1>6. \A a, b \in Ops : stage'[a] \in InHand /\ stage'[b] \in InHand => a = b
  <2> SUFFICES ASSUME NEW a \in Ops, stage'[a] \in InHand PROVE FALSE
    OBVIOUS
  <2>1. a # op /\ stage[a] \in InHand
    BY <1>1 DEF InHand
  <2>2. QED
    BY <1>3, <2>1
<1>7. \A a \in abandoned' : stage'[a] \in {"queued", "over", "threw", "destroyed"}
  <2> SUFFICES ASSUME NEW a \in abandoned', a # op
               PROVE  stage'[a] \in {"queued", "over", "threw", "destroyed"}
    BY <1>1
  <2>1. a \in Ops /\ stage'[a] = stage[a]
    BY <1>1 DEF TypeOK, In
  <2>2. CASE a \in abandoned
    BY <2>1, <2>2 DEF RestartsLeaveNothing
  <2>3. CASE a \in In({"queued", "working", "over", "threw"})
    BY <1>3, <2>1, <2>3 DEF In, InHand
  <2>4. QED
    BY <1>1, <2>2, <2>3
<1>8. \A a \in Ops : stage'[a] = "threw" => a \in abandoned'
  BY <1>1, <1>2
<1>9. \A i \in DOMAIN queue' : queue'[i] \notin abandoned'
  BY <1>1
<1>10. QED
  BY <1>5, <1>6, <1>7, <1>8, <1>9 DEF RestartsLeaveNothing

LEMMA MovingOnLeavesNothing ==
    ASSUME TypeOK, RestartsLeaveNothing, NEW op \in Ops, NEW to,
           stage' = [stage EXCEPT ![op] = to], abandoned' = abandoned, to # "threw",
           to \in InHand => stage[op] \in InHand \/ WorkerIdle,
           op \in abandoned => to \in {"queued", "over", "threw", "destroyed"},
           \A i \in DOMAIN queue' : queue'[i] \notin abandoned
    PROVE  RestartsLeaveNothing'
<1>1. /\ stage'[op] = to
      /\ \A other \in Ops \ {op} : stage'[other] = stage[other]
  BY DEF TypeOK
<1>2. WorkerIdle => \A other \in Ops : stage[other] \notin InHand
  BY DEF WorkerIdle, In, InHand
<1>3. \A a, b \in Ops : stage'[a] \in InHand /\ stage'[b] \in InHand => a = b
  <2> SUFFICES ASSUME NEW a \in Ops, NEW b \in Ops, a # b,
                      stage'[a] \in InHand, stage'[b] \in InHand
               PROVE  FALSE
    OBVIOUS
  <2>1. CASE a # op /\ b # op
    BY <1>1, <2>1 DEF RestartsLeaveNothing
  <2>2. CASE a = op
    BY <1>1, <1>2, <2>2 DEF RestartsLeaveNothing
  <2>3. CASE b = op
    BY <1>1, <1>2, <2>3 DEF RestartsLeaveNothing
  <2>4. QED
    BY <2>1, <2>2, <2>3
<1>4. \A a \in abandoned' : stage'[a] \in {"queued", "over", "threw", "destroyed"}
  BY <1>1 DEF RestartsLeaveNothing, TypeOK
<1>5. \A a \in Ops : stage'[a] = "threw" => a \in abandoned'
  BY <1>1 DEF RestartsLeaveNothing
<1>6. QED
  BY <1>3, <1>4, <1>5 DEF RestartsLeaveNothing

(* What is added at the end of the queue was not abandoned. *)
LEMMA AddLeavesNothing ==
    ASSUME TypeOK, RestartsLeaveNothing, NEW op \in Ops, op \notin abandoned,
           AddOperation(op)
    PROVE  \A i \in DOMAIN queue' : queue'[i] \notin abandoned
<1>1. queue \in Seq(Ops) /\ queue' = Append(queue, op)
  BY DEF AddOperation, TypeOK
<1>2. \A i \in DOMAIN queue' : queue'[i] = op \/ \E j \in DOMAIN queue : queue'[i] = queue[j]
  BY <1>1, AppendProperties
<1>3. QED
  BY <1>2 DEF RestartsLeaveNothing

(* Starting an operation takes it out of the queue. *)
LEMMA StartLeavesNothing ==
    ASSUME TypeOK, RestartsLeaveNothing, NEW i \in DOMAIN queue, Start(i)
    PROVE  \A j \in DOMAIN queue' : queue'[j] \notin abandoned
<1>1. queue \in Seq(Ops) /\ i \in 1..Len(queue) /\ queue' = RemoveAt(queue, i)
  BY DEF Start, TypeOK
<1>2. /\ queue' \in Seq(Ops) /\ Len(queue') = Len(queue) - 1
      /\ \A j \in 1..Len(queue) - 1 : queue'[j] = IF j < i THEN queue[j] ELSE queue[j + 1]
  BY <1>1, RemoveAtProperties
<1>3. ASSUME NEW j \in DOMAIN queue' PROVE \E k \in DOMAIN queue : queue'[j] = queue[k]
  <2>1. j \in 1..Len(queue) - 1 /\ j \in DOMAIN queue /\ j + 1 \in DOMAIN queue
    BY <1>1, <1>2
  <2>2. QED
    BY <1>2, <2>1
<1>4. QED
  BY <1>3 DEF RestartsLeaveNothing

LEMMA NextKeepsCount ==
    ASSUME TypeOK, RestartsLeaveNothing, Count, [Next]_vars
    PROVE  RestartsLeaveNothing' /\ Count'
<1> USE DEF bookkeeping, timing
<1>1. ASSUME NEW op \in Ops, NEW from, NEW to, Advance(op, from, to),
             from \notin {"queued", "over", "threw", "destroyed"}
      PROVE  op \notin abandoned
  BY <1>1 DEF Advance, RestartsLeaveNothing
<1>2. ASSUME NEW op \in Ops, NEW from, NEW to, Advance(op, from, to),
             from \notin {"queued", "over", "threw", "destroyed"},
             from \in Alive <=> to \in Alive,
             to \in InHand => from \in InHand,
             to # "threw",
             UNCHANGED <<queue, abandoned, priorityOperationsCount, straysDestroyed>>
      PROVE  RestartsLeaveNothing' /\ Count'
  <2>1. /\ op \notin abandoned /\ stage[op] = from
        /\ stage' = [stage EXCEPT ![op] = to]
    BY <1>1, <1>2 DEF Advance
  <2>2. \A i \in DOMAIN queue' : queue'[i] \notin abandoned
    BY <1>2 DEF RestartsLeaveNothing
  <2>3. RestartsLeaveNothing'
    BY <1>2, <2>1, <2>2, MovingOnLeavesNothing
  <2>4. Count'
    BY <1>2, <2>1, MovingOnKeepsCount
  <2>5. QED
    BY <2>3, <2>4
<1>3. ASSUME NEW op \in Ops, NEW from \in {"registeredOnMain", "posted"},
             Advance(op, from, "queued"), AddOperation(op)
      PROVE  RestartsLeaveNothing' /\ Count'
  <2>1. /\ op \notin abandoned /\ stage[op] = from
        /\ stage' = [stage EXCEPT ![op] = "queued"]
        /\ abandoned' = abandoned
    BY <1>1, <1>3 DEF Advance, AddOperation
  <2>2. \A i \in DOMAIN queue' : queue'[i] \notin abandoned
    BY <1>3, <2>1, AddLeavesNothing
  <2>3. "queued" \notin InHand
    BY DEF InHand
  <2>4. RestartsLeaveNothing'
    BY <2>1, <2>2, <2>3, MovingOnLeavesNothing
  <2>5. stage[op] \notin Alive
    BY <2>1 DEF Alive
  <2>6. Count'
    BY <1>3, <2>1, <2>5, AddKeepsCount
  <2>7. QED
    BY <2>4, <2>6
<1>4. ASSUME NEW op \in Ops, NEW where \in {"registeredOnMain", "registered"},
             PerformSelector(op, where)
      PROVE  RestartsLeaveNothing' /\ Count'
  <2>1. /\ Advance(op, "unborn", where)
        /\ UNCHANGED <<queue, abandoned, priorityOperationsCount, straysDestroyed>>
    BY <1>4 DEF PerformSelector
  <2>2. "unborn" \notin Alive /\ where \notin Alive /\ where \notin InHand /\ where # "threw"
    BY DEF Alive, InHand
  <2>3. QED
    BY <1>2, <2>1, <2>2
<1>5. ASSUME NEW op \in Ops, Post(op) PROVE RestartsLeaveNothing' /\ Count'
  <2>1. /\ Advance(op, "registered", "posted")
        /\ UNCHANGED <<queue, abandoned, priorityOperationsCount, straysDestroyed>>
    BY <1>5 DEF Post
  <2>2. "registered" \notin Alive /\ "posted" \notin Alive /\ "posted" \notin InHand
    BY DEF Alive, InHand
  <2>3. QED
    BY <1>2, <2>1, <2>2
<1>6. ASSUME NEW op \in Ops, AddFromMain(op) PROVE RestartsLeaveNothing' /\ Count'
  BY <1>3, <1>6 DEF AddFromMain
<1>7. ASSUME AddFromRunLoop PROVE RestartsLeaveNothing' /\ Count'
  <2>1. Head(posted) \in Ops
    BY <1>7, HeadTailProperties DEF AddFromRunLoop, TypeOK
  <2>2. QED
    BY <1>3, <1>7, <2>1 DEF AddFromRunLoop
<1>8. ASSUME NEW i \in DOMAIN queue, Start(i) PROVE RestartsLeaveNothing' /\ Count'
  <2> DEFINE op == queue[i]
             to == IF op \in cancelled THEN "over" ELSE "started"
  <2>1. op \in Ops /\ op \notin abandoned
    BY DEF TypeOK, RestartsLeaveNothing
  <2>2. /\ stage[op] = "queued" /\ stage' = [stage EXCEPT ![op] = to] /\ WorkerIdle
        /\ UNCHANGED <<abandoned, priorityOperationsCount, straysDestroyed>>
    BY <1>8 DEF Start, Advance
  <2>3. \A j \in DOMAIN queue' : queue'[j] \notin abandoned
    BY <1>8, StartLeavesNothing
  <2>4. to # "threw" /\ "queued" \in Alive /\ to \in Alive
    BY DEF Alive
  <2> HIDE DEF op, to
  <2>5. RestartsLeaveNothing'
    BY <2>1, <2>2, <2>3, <2>4, MovingOnLeavesNothing
  <2>6. Count'
    BY <2>1, <2>2, <2>4, MovingOnKeepsCount
  <2>7. QED
    BY <2>5, <2>6
<1>9. ASSUME NEW op \in Ops, LockGate(op) PROVE RestartsLeaveNothing' /\ Count'
  <2> DEFINE to == IF op \in cancelled THEN "finishing" ELSE "working"
  <2>1. /\ Advance(op, "started", to)
        /\ UNCHANGED <<queue, abandoned, priorityOperationsCount, straysDestroyed>>
    BY <1>9 DEF LockGate
  <2>2. /\ "started" \in Alive /\ to \in Alive /\ "started" \in InHand /\ to # "threw"
    BY DEF Alive, InHand
  <2> HIDE DEF to
  <2>3. QED
    BY <1>2, <2>1, <2>2
<1>10. ASSUME NEW op \in Ops, UnlockGate(op) PROVE RestartsLeaveNothing' /\ Count'
  <2>1. /\ Advance(op, "working", "finishing")
        /\ UNCHANGED <<queue, abandoned, priorityOperationsCount, straysDestroyed>>
    BY <1>10 DEF UnlockGate
  <2>2. "working" \in Alive /\ "finishing" \in Alive /\ "working" \in InHand
    BY DEF Alive, InHand
  <2>3. QED
    BY <1>2, <2>1, <2>2
<1>11. ASSUME NEW op \in Ops, Finish(op) PROVE RestartsLeaveNothing' /\ Count'
  <2>1. /\ Advance(op, "finishing", "over")
        /\ UNCHANGED <<queue, abandoned, priorityOperationsCount, straysDestroyed>>
    BY <1>11 DEF Finish
  <2>2. "finishing" \in Alive /\ "over" \in Alive /\ "over" \notin InHand
    BY DEF Alive, InHand
  <2>3. QED
    BY <1>2, <2>1, <2>2
<1>12. ASSUME NEW op \in Ops, ThrowAndRestart(op) PROVE RestartsLeaveNothing' /\ Count'
  BY <1>12, ThrowKeepsCount
<1>13. ASSUME NEW op \in Ops, Destroy(op) PROVE RestartsLeaveNothing' /\ Count'
  <2>1. /\ stage' = [stage EXCEPT ![op] = "destroyed"]
        /\ abandoned' = abandoned /\ queue' = queue
    BY <1>13 DEF Destroy
  <2>2. \A i \in DOMAIN queue' : queue'[i] \notin abandoned
    BY <2>1 DEF RestartsLeaveNothing
  <2>3. "destroyed" \notin InHand
    BY DEF InHand
  <2>4. RestartsLeaveNothing'
    BY <2>1, <2>2, <2>3, MovingOnLeavesNothing
  <2>5. QED
    BY <1>13, <2>4, DestroyKeepsCount
<1>14. ASSUME UNCHANGED <<stage, queue, abandoned, priorityOperationsCount, straysDestroyed>>
       PROVE  RestartsLeaveNothing' /\ Count'
  BY <1>14 DEF RestartsLeaveNothing, Count, Counted
<1>15. ASSUME NEW op \in Ops, Cancel(op) PROVE RestartsLeaveNothing' /\ Count'
  BY <1>14, <1>15 DEF Cancel
<1>16. ASSUME TemporarilySuspend PROVE RestartsLeaveNothing' /\ Count'
  BY <1>14, <1>16 DEF TemporarilySuspend
<1>17. ASSUME Resume PROVE RestartsLeaveNothing' /\ Count'
  BY <1>14, <1>17 DEF Resume
<1>18. ASSUME UNCHANGED vars PROVE RestartsLeaveNothing' /\ Count'
  BY <1>14, <1>18 DEF vars
<1>19. QED
  BY <1>4, <1>5, <1>6, <1>7, <1>8, <1>9, <1>10, <1>11, <1>12, <1>13, <1>15, <1>16, <1>17,
     <1>18 DEF Next

LEMMA InitIsCounted == Init => RestartsLeaveNothing /\ Count
<1> SUFFICES ASSUME Init PROVE RestartsLeaveNothing /\ Count
  OBVIOUS
<1>1. /\ \A op \in Ops : stage[op] = "unborn"
      /\ abandoned = {} /\ queue = <<>>
      /\ priorityOperationsCount = 0 /\ straysDestroyed = 0
  BY DEF Init
<1>2. Counted = {}
  BY <1>1 DEF Counted, Alive
<1>3. Count
  BY <1>1, <1>2, FS_EmptySet DEF Count
<1>4. RestartsLeaveNothing
  BY <1>1 DEF RestartsLeaveNothing, InHand
<1>5. QED
  BY <1>3, <1>4

(* priorityOperationsCount is the number of priority operations handed to  *)
(* the queue and still alive, less the abandoned ones freed since the last *)
(* restart: exactly, however often the queue was restarted and whenever    *)
(* the operations it left behind are freed.                                *)
THEOREM PriorityCountDriftsByTheStrays == Spec => []PriorityCountDrift
<1>1. Init => TypeOK /\ BoundedInv /\ RestartsLeaveNothing /\ Count
  BY InitIsTyped, InitIsBounded, InitIsCounted
<1>2. TypeOK /\ BoundedInv /\ RestartsLeaveNothing /\ Count /\ [Next]_vars
         => (RestartsLeaveNothing /\ Count)'
  BY NextKeepsCount
<1>3. Count => PriorityCountDrift
  BY DEF Count, Counted, Alive, PriorityCountDrift
<1>4. QED
  BY <1>1, <1>2, <1>3, TypedAndBounded, PTL DEF Spec
=============================================================================
