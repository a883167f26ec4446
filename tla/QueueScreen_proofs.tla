-------------------------- MODULE QueueScreen_proofs --------------------------
(***************************************************************************)
(* The screen of a Netflix queue for any movies, any number of edits and   *)
(* moves in a session, downloads and changes by other clients: no movie is *)
(* saved twice, and a tap on a row opens the movie that the row shows.     *)
(*                                                                         *)
(* The first needs that the rows are objects of the queue that the screen  *)
(* was loaded from, and stay objects of the queue of the operation under   *)
(* way.  The second needs more, the order: the rows that the user has not  *)
(* moved are in the order in which the queue has them.  Without deletions  *)
(* and moves left to do that makes rows and queue equal.                   *)
(***************************************************************************)
EXTENDS QueueScreen, SequenceTheorems, FiniteSetTheorems, NaturalsInduction,
        WellFoundedInduction, TLAPS

-----------------------------------------------------------------------------
(* The invariants *)

Sessions == [kind : Kinds, queue : Queues, deleted : SUBSET Objects,
             reordered : SUBSET Objects, to : Seq(Objects), several : BOOLEAN]
Results == [kind : Kinds, ok : BOOLEAN, to : Seq(Objects), several : BOOLEAN]

(* What the variables hold, the server and its copies ... *)
CachesTyped ==
    /\ server \in [etag : Nat, movies : Orders]
    /\ saved \in Queues /\ IsInjective(saved.movies)
    /\ art \in Nat /\ shown \in 0..MaxOutside
    /\ left \in [edits : Nat, outside : 0..MaxOutside]
    /\ art + left.outside <= MaxOutside

(* ... the screen ... *)
ScreenTyped ==
    /\ {visible, deferred, readonly} \subseteq BOOLEAN
    /\ editing \in {"no", "swipe", "edit"}
    /\ queue \in Queues /\ IsInjective(queue.movies)
    /\ rows \in Seq(Objects) /\ IsInjective(rows)
    /\ table \in Seq(Movies)
    /\ {deleted, reordered} \subseteq SUBSET Objects
    /\ {refused, lost, disordered, overtaken} \subseteq BOOLEAN

(* ... and the operation, of which there is one while the rows are          *)
(* read-only, and none while they are edited.                               *)
OperationTyped ==
    /\ session # <<>> => session = <<session[1]>> /\ session[1] \in Sessions
    /\ report # <<>> => report = <<report[1]>> /\ report[1] \in Results
    /\ session = <<>> \/ report = <<>>
    /\ readonly <=> session # <<>> \/ report # <<>>
    /\ editing # "no" => ~readonly

(* What is to be deleted and moved: nothing between the edits; else the     *)
(* moved rows are there and the deleted are not.  A row that goes to the    *)
(* top is in the table.                                                     *)
EditsAreOfRows ==
    /\ editing # "edit" /\ ~readonly => deleted = {} /\ reordered = {}
    /\ editing = "edit" => reordered \subseteq Range(rows) /\ deleted \cap Range(rows) = {}
    /\ session # <<>> =>
          LET s == session[1]
          IN  /\ IsInjective(s.queue.movies) /\ IsInjective(s.to)
              /\ s.reordered \subseteq Range(s.to)
              /\ s.deleted \cap Range(s.to) = {}
              /\ ~s.several => \A x, y \in s.reordered : x = y
              /\ s.kind = "move" =>
                    /\ Len(table) = Len(rows)
                    /\ \E m \in Range(rows) :
                          s.to = <<m>> /\ s.deleted = {} /\ s.reordered = {m}
    /\ report # <<>> /\ report[1].kind = "move" =>
          /\ Len(table) = Len(rows)
          /\ \E m \in Range(rows) : report[1].to = <<m>>

(* A copy has no fewer movies than the server: only deletions make the      *)
(* server's queue shorter, and each of them one copy, by no more.           *)
CopiesAreLongEnough ==
    /\ Len(saved.movies) >= Len(server.movies)
    /\ \/ Len(queue.movies) >= Len(server.movies)
       \/ rows = <<>> /\ deleted = {} /\ reordered = {}
    /\ session # <<>> => Len(session[1].queue.movies) >= Len(server.movies)

TypeInv ==
    /\ PulserTypeOK
    /\ CachesTyped
    /\ ScreenTyped
    /\ OperationTyped
    /\ EditsAreOfRows
    /\ CopiesAreLongEnough

(* No copy has a movie twice, and the rows are objects of the queue that    *)
(* they were loaded from, or that an operation makes of it.                 *)
Once(q) == IsInjective(Ids(q.movies))

RowsOfQueue ==
    /\ Once(saved) /\ Once(queue)
    /\ Range(rows) \subseteq Range(queue.movies)
    /\ session # <<>> =>
          LET s == session[1]
          IN  /\ Once(s.queue)
              /\ s.reordered \subseteq Range(s.queue.movies)
              /\ s.kind = "move" => Range(rows) \subseteq Range(s.queue.movies)
    /\ report # <<>> /\ report[1].ok /\ report[1].kind = "move" =>
          Range(rows) \subseteq Range(saved.movies)

OnceInv == overtaken \/ RowsOfQueue

(* Two lists have the elements that both have, but for some, in one order. *)
SameOrder(a, b, but) ==
    \A i, j \in DOMAIN a, k, l \in DOMAIN b :
        a[i] = b[k] /\ a[j] = b[l] /\ a[i] \notin but /\ a[j] \notin but => (i < j <=> k < l)

(* The rows to are those of from without the deleted ones, the moved ones   *)
(* anywhere.                                                                *)
Arranged(to, from, deletions, moves) ==
    /\ Range(to) = Range(from) \ deletions
    /\ SameOrder(to, from, moves)

(* The table shows the rows, which are those of the queue up to the edits   *)
(* that are made or under way.                                              *)
RowsMatch ==
    /\ session = <<>> /\ report = <<>> =>
          /\ table = Ids(rows)
          /\ IF editing = "edit" THEN Arranged(rows, queue.movies, deleted, reordered)
                                 ELSE rows = queue.movies
    /\ session # <<>> =>
          LET s == session[1]
          IN  IF s.kind = "modify"
              THEN s.several \/ /\ table = Ids(s.to)
                                /\ Arranged(s.to, s.queue.movies, s.deleted, s.reordered)
              ELSE table = Ids(rows) /\ rows = queue.movies /\ s.queue = queue
    /\ report # <<>> /\ report[1].ok =>
          IF report[1].kind = "modify"
          THEN report[1].several \/ table = Ids(saved.movies)
          ELSE /\ table = Ids(rows)
               /\ saved.movies = MovedTo(rows, report[1].to[1], 1)

(* A refused refresh is an excuse while it may still be made up for. *)
Excused ==
    deferred \/ lost \/ disordered \/ overtaken \/ (refused /\ (readonly \/ editing # "no"))

RowsInv == visible => Excused \/ RowsMatch

-----------------------------------------------------------------------------
(* Lemmas about lists without duplicates *)

Loses(t, s, x) == Range(t) = Range(s) \ {x}
Gains(t, s, x) == Range(t) = Range(s) \cup {x}

LEMMA RemoveAtProperties ==
    ASSUME NEW S, NEW s \in Seq(S), NEW i \in 1..Len(s)
    PROVE  /\ RemoveAt(s, i) \in Seq(S)
           /\ Len(RemoveAt(s, i)) = Len(s) - 1
           /\ \A j \in 1..Len(s) - 1 :
                 RemoveAt(s, i)[j] = IF j < i THEN s[j] ELSE s[j + 1]
<1> DEFINE a == SubSeq(s, 1, i - 1)
           b == SubSeq(s, i + 1, Len(s))
<1>1. /\ a \in Seq(S) /\ Len(a) = i - 1
      /\ \A j \in 1..i - 1 : a[j] = s[j]
  OBVIOUS
<1>2. /\ b \in Seq(S) /\ Len(b) = Len(s) - i
      /\ \A j \in 1..Len(s) - i : b[j] = s[i + j]
  OBVIOUS
<1> HIDE DEF a, b
<1>3. a \o b \in Seq(S) /\ Len(a \o b) = Len(a) + Len(b)
  BY <1>1, <1>2, ConcatProperties
<1>4. \A j \in 1..Len(a) + Len(b) : (a \o b)[j] = IF j <= Len(a) THEN a[j] ELSE b[j - Len(a)]
  BY <1>1, <1>2, ConcatProperties
<1>5. Len(s) \in Nat /\ i \in Nat /\ i >= 1 /\ i <= Len(s)
  OBVIOUS
<1>6. Len(a) + Len(b) = Len(s) - 1
  BY <1>1, <1>2, <1>5
<1>7. ASSUME NEW j \in 1..Len(s) - 1
      PROVE  (a \o b)[j] = IF j < i THEN s[j] ELSE s[j + 1]
  <2>1. CASE j < i
    BY <1>1, <1>4, <1>5, <1>6, <2>1
  <2>2. CASE ~(j < i)
    <3>1. /\ (a \o b)[j] = b[j - (i - 1)]
          /\ j - (i - 1) \in 1..Len(s) - i /\ i + (j - (i - 1)) = j + 1
      BY <1>1, <1>4, <1>5, <1>6, <2>2
    <3>2. QED
      BY <1>2, <2>2, <3>1
  <2>3. QED
    BY <2>1, <2>2
<1>8. RemoveAt(s, i) = a \o b
  BY DEF RemoveAt, a, b
<1>9. QED
  BY <1>3, <1>6, <1>7, <1>8

LEMMA InsertAtProperties ==
    ASSUME NEW S, NEW s \in Seq(S), NEW e \in S, NEW p \in 1..(Len(s) + 1)
    PROVE  /\ InsertAt(s, p, e) \in Seq(S)
           /\ Len(InsertAt(s, p, e)) = Len(s) + 1
           /\ \A j \in 1..(Len(s) + 1) :
                 InsertAt(s, p, e)[j] = IF j < p THEN s[j] ELSE IF j = p THEN e ELSE s[j - 1]
<1> DEFINE a == SubSeq(s, 1, p - 1)
           b == SubSeq(s, p, Len(s))
           m == <<e>>
           am == a \o m
<1>1. /\ a \in Seq(S) /\ Len(a) = p - 1
      /\ \A j \in 1..p - 1 : a[j] = s[j]
  OBVIOUS
<1>2. /\ b \in Seq(S) /\ Len(b) = Len(s) - p + 1
      /\ \A j \in 1..(Len(s) - p + 1) : b[j] = s[p + j - 1]
  OBVIOUS
<1>3. m \in Seq(S) /\ Len(m) = 1 /\ m[1] = e
  OBVIOUS
<1>4. InsertAt(s, p, e) = am \o b
  BY DEF InsertAt
<1>5. Len(s) \in Nat /\ p \in Nat /\ p >= 1 /\ p <= Len(s) + 1
  OBVIOUS
<1> HIDE DEF a, b, m
<1>6. /\ am \in Seq(S) /\ Len(am) = Len(a) + Len(m)
      /\ \A j \in 1..Len(a) + Len(m) : am[j] = IF j <= Len(a) THEN a[j] ELSE m[j - Len(a)]
  BY <1>1, <1>3, ConcatProperties
<1>7. /\ Len(am) = p /\ am[p] = e
      /\ \A j \in 1..p - 1 : am[j] = s[j]
  BY <1>1, <1>3, <1>5, <1>6
<1> HIDE DEF am
<1>8. /\ am \o b \in Seq(S) /\ Len(am \o b) = Len(am) + Len(b)
      /\ \A j \in 1..Len(am) + Len(b) :
            (am \o b)[j] = IF j <= Len(am) THEN am[j] ELSE b[j - Len(am)]
  <2>1. am \in Seq(S) /\ b \in Seq(S)
    BY <1>2, <1>6
  <2>2. QED
    BY <2>1, ConcatProperties
<1>9. ASSUME NEW j \in 1..(Len(s) + 1)
      PROVE  (am \o b)[j] = IF j < p THEN s[j] ELSE IF j = p THEN e ELSE s[j - 1]
  <2>1. j \in 1..Len(am) + Len(b)
    BY <1>2, <1>5, <1>7
  <2>2. CASE j <= p
    BY <1>5, <1>7, <1>8, <2>1, <2>2
  <2>3. CASE ~(j <= p)
    <3>1. (am \o b)[j] = b[j - p] /\ j - p \in 1..(Len(s) - p + 1) /\ p + (j - p) - 1 = j - 1
      BY <1>5, <1>7, <1>8, <2>1, <2>3
    <3>2. QED
      BY <1>2, <1>5, <2>3, <3>1
  <2>4. QED
    BY <2>2, <2>3
<1>10. Len(am) + Len(b) = Len(s) + 1
  BY <1>2, <1>5, <1>7
<1>11. QED
  BY <1>4, <1>8, <1>9, <1>10

(* A list with one element less. *)
LEMMA ShorterList ==
    ASSUME NEW S, NEW s \in Seq(S), IsInjective(s), NEW i \in 1..Len(s)
    PROVE  /\ RemoveAt(s, i) \in Seq(S)
           /\ Len(RemoveAt(s, i)) = Len(s) - 1
           /\ IsInjective(RemoveAt(s, i))
           /\ Loses(RemoveAt(s, i), s, s[i])
           /\ SameOrder(RemoveAt(s, i), s, {})
<1> DEFINE r == RemoveAt(s, i)
           at(j) == IF j < i THEN j ELSE j + 1
<1>1. /\ r \in Seq(S) /\ Len(r) = Len(s) - 1
      /\ \A j \in 1..Len(s) - 1 : r[j] = IF j < i THEN s[j] ELSE s[j + 1]
  BY RemoveAtProperties
<1> HIDE DEF r
<1>2. /\ DOMAIN s = 1..Len(s) /\ Len(s) \in Nat /\ i \in Nat
      /\ DOMAIN r = 1..Len(s) - 1
  BY <1>1
<1>3. \A j \in DOMAIN r : at(j) \in DOMAIN s /\ r[j] = s[at(j)] /\ at(j) # i
  BY <1>1, <1>2
<1>4. \A j, k \in DOMAIN r : at(j) < at(k) <=> j < k
  BY <1>2
<1>5. \A j, k \in DOMAIN r : at(j) = at(k) => j = k
  BY <1>2
<1>6. \A k \in DOMAIN s : k # i => \E j \in DOMAIN r : at(j) = k
  <2> SUFFICES ASSUME NEW k \in DOMAIN s, k # i PROVE \E j \in DOMAIN r : at(j) = k
    OBVIOUS
  <2>1. CASE k < i
    <3>1. k \in DOMAIN r /\ at(k) = k
      BY <1>2, <2>1
    <3>2. QED
      BY <3>1
  <2>2. CASE ~(k < i)
    <3>1. k - 1 \in DOMAIN r /\ at(k - 1) = k
      BY <1>2, <2>2
    <3>2. QED
      BY <3>1
  <2>3. QED
    BY <2>1, <2>2
<1> HIDE DEF at
<1>7. IsInjective(r)
  BY <1>3, <1>5 DEF IsInjective
<1>8. Range(r) \subseteq Range(s) \ {s[i]}
  <2> SUFFICES ASSUME NEW j \in DOMAIN r PROVE r[j] \in Range(s) /\ r[j] # s[i]
    BY DEF Range
  <2>1. QED
    BY <1>2, <1>3 DEF Range, IsInjective
<1>9. Range(s) \ {s[i]} \subseteq Range(r)
  <2> SUFFICES ASSUME NEW k \in DOMAIN s, s[k] # s[i] PROVE s[k] \in Range(r)
    BY DEF Range
  <2>1. PICK j \in DOMAIN r : at(j) = k
    BY <1>6
  <2>2. QED
    BY <1>3, <2>1 DEF Range
<1>10. SameOrder(r, s, {})
  <2> SUFFICES ASSUME NEW j \in DOMAIN r, NEW k \in DOMAIN r,
                      NEW l \in DOMAIN s, NEW m \in DOMAIN s, r[j] = s[l], r[k] = s[m]
               PROVE  j < k <=> l < m
    BY DEF SameOrder
  <2>1. l = at(j) /\ m = at(k)
    BY <1>3 DEF IsInjective
  <2>2. QED
    BY <1>4, <2>1
<1>11. QED
  BY <1>1, <1>7, <1>8, <1>9, <1>10 DEF r, Loses

(* A list with one element more. *)
LEMMA LongerList ==
    ASSUME NEW S, NEW s \in Seq(S), IsInjective(s), NEW e \in S, e \notin Range(s),
           NEW p \in 1..(Len(s) + 1)
    PROVE  /\ InsertAt(s, p, e) \in Seq(S)
           /\ Len(InsertAt(s, p, e)) = Len(s) + 1
           /\ IsInjective(InsertAt(s, p, e))
           /\ Gains(InsertAt(s, p, e), s, e)
           /\ SameOrder(InsertAt(s, p, e), s, {e})
<1> DEFINE r == InsertAt(s, p, e)
           from(j) == IF j < p THEN j ELSE j - 1
<1>1. /\ r \in Seq(S) /\ Len(r) = Len(s) + 1
      /\ \A j \in 1..(Len(s) + 1) :
            r[j] = IF j < p THEN s[j] ELSE IF j = p THEN e ELSE s[j - 1]
  BY InsertAtProperties
<1> HIDE DEF r
<1>2. /\ DOMAIN s = 1..Len(s) /\ Len(s) \in Nat /\ p \in Nat
      /\ DOMAIN r = 1..(Len(s) + 1) /\ p \in DOMAIN r
  BY <1>1
<1>3. r[p] = e /\ \A j \in DOMAIN r : j # p => from(j) \in DOMAIN s /\ r[j] = s[from(j)]
  BY <1>1, <1>2
<1>4. \A j, k \in DOMAIN r : j # p /\ k # p => (from(j) < from(k) <=> j < k)
  BY <1>2
<1>5. \A j, k \in DOMAIN r : j # p /\ k # p /\ from(j) = from(k) => j = k
  BY <1>2
<1>6. \A k \in DOMAIN s : \E j \in DOMAIN r : j # p /\ from(j) = k
  <2> SUFFICES ASSUME NEW k \in DOMAIN s PROVE \E j \in DOMAIN r : j # p /\ from(j) = k
    OBVIOUS
  <2>1. CASE k < p
    <3>1. k \in DOMAIN r /\ k # p /\ from(k) = k
      BY <1>2, <2>1
    <3>2. QED
      BY <3>1
  <2>2. CASE ~(k < p)
    <3>1. k + 1 \in DOMAIN r /\ k + 1 # p /\ from(k + 1) = k
      BY <1>2, <2>2
    <3>2. QED
      BY <3>1
  <2>3. QED
    BY <2>1, <2>2
<1> HIDE DEF from
<1>7. \A k \in DOMAIN s : s[k] # e
  BY DEF Range
<1>8. IsInjective(r)
  BY <1>3, <1>5, <1>7 DEF IsInjective
<1>9. Range(r) \subseteq Range(s) \cup {e}
  BY <1>3 DEF Range
<1>10. Range(s) \cup {e} \subseteq Range(r)
  <2>1. e \in Range(r)
    BY <1>2, <1>3 DEF Range
  <2>2. ASSUME NEW k \in DOMAIN s PROVE s[k] \in Range(r)
    <3>1. PICK j \in DOMAIN r : j # p /\ from(j) = k
      BY <1>6
    <3>2. QED
      BY <1>3, <3>1 DEF Range
  <2>3. QED
    BY <2>1, <2>2 DEF Range
<1>11. SameOrder(r, s, {e})
  <2> SUFFICES ASSUME NEW j \in DOMAIN r, NEW k \in DOMAIN r,
                      NEW l \in DOMAIN s, NEW m \in DOMAIN s, r[j] = s[l], r[k] = s[m]
               PROVE  j < k <=> l < m
    BY DEF SameOrder
  <2>1. j # p /\ k # p
    BY <1>3, <1>7
  <2>2. l = from(j) /\ m = from(k)
    BY <1>3, <2>1 DEF IsInjective
  <2>3. QED
    BY <1>4, <2>1, <2>2
<1>12. QED
  BY <1>1, <1>8, <1>9, <1>10, <1>11 DEF r, Gains

-----------------------------------------------------------------------------
(* Lemmas about the index of an object, removal and moves *)

(* indexOfObjectIdenticalTo finds the object where it is. *)
LEMMA IndexOfElement ==
    ASSUME NEW S, NEW s \in Seq(S), IsInjective(s), NEW i \in 1..Len(s)
    PROVE  /\ Index(s, s[i]) = i
           /\ Without(s, s[i]) = RemoveAt(s, i)
<1> DEFINE I == {j \in 1..Len(s) : s[j] = s[i]}
<1>1. I = {i}
  BY DEF IsInjective
<1>2. SelectInSeq(s, LAMBDA v : v = s[i]) = IF I # {} THEN Min(I) ELSE 0
  BY DEF SelectInSeq
<1>3. Min(I) = i
  <2>1. Min(I) \in I
    BY <1>1 DEF Min
  <2>2. QED
    BY <1>1, <2>1
<1>4. SelectInSeq(s, LAMBDA v : v = s[i]) = i
  BY <1>1, <1>2, <1>3
<1>5. QED
  BY <1>4 DEF Index, Without, RemoveFirst

LEMMA IndexIn ==
    ASSUME NEW S, NEW s \in Seq(S), IsInjective(s), NEW x \in Range(s)
    PROVE  /\ Index(s, x) \in 1..Len(s)
           /\ s[Index(s, x)] = x
           /\ Without(s, x) = RemoveAt(s, Index(s, x))
<1>1. PICK i \in 1..Len(s) : x = s[i]
  BY DEF Range
<1>2. Index(s, x) = i
  BY <1>1, IndexOfElement
<1>3. Without(s, x) = RemoveAt(s, i)
  BY <1>1, IndexOfElement
<1>4. QED
  BY <1>1, <1>2, <1>3

LEMMA NothingToRemove ==
    ASSUME NEW S, NEW s \in Seq(S), NEW x, x \notin Range(s)
    PROVE  Without(s, x) = s
BY DEF Without, RemoveFirst, Range

LEMMA WithoutProperties ==
    ASSUME NEW S, NEW s \in Seq(S), IsInjective(s), NEW x
    PROVE  /\ Without(s, x) \in Seq(S)
           /\ Len(Without(s, x)) = IF x \in Range(s) THEN Len(s) - 1 ELSE Len(s)
           /\ IsInjective(Without(s, x))
           /\ Loses(Without(s, x), s, x)
           /\ SameOrder(Without(s, x), s, {})
<1>1. CASE x \in Range(s)
  <2>1. /\ Without(s, x) = RemoveAt(s, Index(s, x))
        /\ s[Index(s, x)] = x /\ Index(s, x) \in 1..Len(s)
    BY <1>1, IndexIn
  <2>2. QED
    BY <1>1, <2>1, ShorterList
<1>2. CASE x \notin Range(s)
  <2>1. Without(s, x) = s
    BY <1>2, NothingToRemove
  <2>2. SameOrder(s, s, {})
    BY DEF SameOrder, IsInjective
  <2>3. QED
    BY <1>2, <2>1, <2>2 DEF Loses
<1>3. QED
  BY <1>1, <1>2

(* What two steps leave in order, but for some, they leave in order but for *)
(* these together.                                                          *)
LEMMA SameOrderComposes ==
    ASSUME NEW a, NEW b, NEW c, NEW X, NEW Y, SameOrder(a, b, X), SameOrder(b, c, Y),
           \A x \in Range(a) \cap Range(c) : x \in X \cup Y \cup Range(b)
    PROVE  SameOrder(a, c, X \cup Y)
<1> SUFFICES ASSUME NEW i \in DOMAIN a, NEW j \in DOMAIN a,
                    NEW k \in DOMAIN c, NEW l \in DOMAIN c,
                    a[i] = c[k], a[j] = c[l], a[i] \notin X \cup Y, a[j] \notin X \cup Y
             PROVE  i < j <=> k < l
  BY DEF SameOrder
<1>1. PICK u \in DOMAIN b : b[u] = a[i]
  BY DEF Range
<1>2. PICK v \in DOMAIN b : b[v] = a[j]
  BY DEF Range
<1>3. i < j <=> u < v
  BY <1>1, <1>2 DEF SameOrder
<1>4. u < v <=> k < l
  BY <1>1, <1>2 DEF SameOrder
<1>5. QED
  BY <1>3, <1>4

LEMMA SameOrderTurned ==
    ASSUME NEW a, NEW b, NEW X, SameOrder(a, b, X)
    PROVE  SameOrder(b, a, X)
BY DEF SameOrder

LEMMA MovedToProperties ==
    ASSUME NEW S, NEW s \in Seq(S), IsInjective(s), NEW x \in S,
           NEW p \in 1..(Len(Without(s, x)) + 1)
    PROVE  /\ MovedTo(s, x, p) \in Seq(S)
           /\ Len(MovedTo(s, x, p)) = IF x \in Range(s) THEN Len(s) ELSE Len(s) + 1
           /\ IsInjective(MovedTo(s, x, p))
           /\ Gains(MovedTo(s, x, p), s, x)
           /\ SameOrder(MovedTo(s, x, p), s, {x})
<1>1. PICK w : w = Without(s, x)
  OBVIOUS
<1>2. /\ w \in Seq(S) /\ IsInjective(w) /\ Loses(w, s, x)
      /\ Len(w) = IF x \in Range(s) THEN Len(s) - 1 ELSE Len(s)
      /\ SameOrder(w, s, {})
  BY <1>1, WithoutProperties
<1>3. p \in 1..(Len(w) + 1) /\ x \notin Range(w)
  BY <1>1, <1>2 DEF Loses
<1>4. PICK t : t = MovedTo(s, x, p)
  OBVIOUS
<1>5. t = InsertAt(w, p, x)
  BY <1>1, <1>4 DEF MovedTo
<1>6. /\ t \in Seq(S) /\ Len(t) = Len(w) + 1 /\ IsInjective(t)
      /\ Gains(t, w, x)
      /\ SameOrder(t, w, {x})
  BY <1>2, <1>3, <1>5, LongerList
<1>7. SameOrder(t, s, {x} \cup {})
  <2>1. \A y \in Range(t) \cap Range(s) : y \in {x} \cup {} \cup Range(w)
    BY <1>2 DEF Loses
  <2>2. QED
    BY <1>2, <1>6, <2>1, SameOrderComposes
<1>8. {x} \cup {} = {x} /\ Len(s) \in Nat
  OBVIOUS
<1>9. QED
  BY <1>2, <1>4, <1>6, <1>7, <1>8 DEF Loses, Gains

(* Taken out and put in where it was, a row leaves the list as it was. *)
LEMMA PutBack ==
    ASSUME NEW S, NEW s \in Seq(S), NEW i \in 1..Len(s)
    PROVE  InsertAt(RemoveAt(s, i), i, s[i]) = s
<1>1. PICK r : r = RemoveAt(s, i)
  OBVIOUS
<1>2. /\ r \in Seq(S) /\ Len(r) = Len(s) - 1
      /\ \A j \in 1..Len(s) - 1 : r[j] = IF j < i THEN s[j] ELSE s[j + 1]
  BY <1>1, RemoveAtProperties
<1>3. Len(s) \in Nat /\ i \in 1..(Len(r) + 1) /\ s[i] \in S
  BY <1>2
<1>4. PICK t : t = InsertAt(r, i, s[i])
  OBVIOUS
<1>5. /\ t \in Seq(S) /\ Len(t) = Len(r) + 1
      /\ \A j \in 1..(Len(r) + 1) :
            t[j] = IF j < i THEN r[j] ELSE IF j = i THEN s[i] ELSE r[j - 1]
  BY <1>2, <1>3, <1>4, InsertAtProperties, SMTT(60)
<1>6. Len(t) = Len(s)
  BY <1>2, <1>3, <1>5
<1>7. ASSUME NEW j \in 1..Len(s) PROVE t[j] = s[j]
  <2>1. CASE j < i
    BY <1>2, <1>3, <1>5, <2>1
  <2>2. CASE j = i
    BY <1>2, <1>3, <1>5, <2>2
  <2>3. CASE j > i
    <3>1. t[j] = r[j - 1] /\ j - 1 \in 1..Len(s) - 1 /\ ~(j - 1 < i) /\ (j - 1) + 1 = j
      BY <1>2, <1>3, <1>5, <2>3
    <3>2. QED
      BY <1>2, <3>1
  <2>4. QED
    BY <2>1, <2>2, <2>3
<1>8. t = s
  BY <1>5, <1>6, <1>7, SeqEqual
<1>9. QED
  BY <1>1, <1>4, <1>8

-----------------------------------------------------------------------------
(* Lemmas about the order *)

(* Two lists of the same elements in the same order agree from the start:   *)
(* at the first place where they did not, each would have the other's       *)
(* element later on.                                                        *)
LEMMA SameOrderAgrees ==
    ASSUME NEW S, NEW a \in Seq(S), NEW b \in Seq(S), IsInjective(a), IsInjective(b),
           Range(a) = Range(b), SameOrder(a, b, {})
    PROVE  \A i \in DOMAIN a : i \in DOMAIN b /\ a[i] = b[i]
<1> DEFINE Differ == {i \in DOMAIN a : ~(i \in DOMAIN b /\ a[i] = b[i])}
<1> SUFFICES ASSUME Differ # {} PROVE FALSE
  OBVIOUS
<1>1. DOMAIN a = 1..Len(a) /\ DOMAIN b = 1..Len(b) /\ Len(a) \in Nat /\ Len(b) \in Nat
  OBVIOUS
<1>2. Differ \subseteq Nat
  BY <1>1
<1>3. PICK i \in Differ : \A j \in Differ : ~(<<j, i>> \in OpToRel(<, Nat))
  BY <1>2, NatLessThanWellFounded, WFMin
<1>4. \A j \in DOMAIN a : j < i => j \in DOMAIN b /\ a[j] = b[j]
  <2> SUFFICES ASSUME NEW j \in Differ, j < i PROVE FALSE
    OBVIOUS
  <2>1. i \in Nat /\ j \in Nat
    BY <1>2
  <2>2. <<j, i>> \in OpToRel(<, Nat)
    BY <2>1 DEF OpToRel
  <2>3. QED
    BY <1>3, <2>2
<1>5. i \in DOMAIN a /\ i \in Nat /\ (i \notin DOMAIN b \/ a[i] # b[i])
  BY <1>2
<1> HIDE DEF Differ
<1>6. PICK k \in DOMAIN b : b[k] = a[i]
  BY <1>5 DEF Range
<1>7. k > i
  <2>1. k # i
    BY <1>5, <1>6
  <2>2. ~(k < i)
    <3> SUFFICES ASSUME k < i PROVE FALSE
      OBVIOUS
    <3>1. k \in DOMAIN a
      BY <1>1, <1>5
    <3>2. a[k] = a[i]
      BY <1>4, <1>6, <3>1
    <3>3. k = i
      BY <1>5, <3>1, <3>2 DEF IsInjective
    <3>4. QED
      BY <2>1, <3>3
  <2>3. QED
    BY <1>1, <1>5, <2>1, <2>2
<1>8. i \in DOMAIN b
  BY <1>1, <1>5, <1>7
<1>9. PICK l \in DOMAIN a : a[l] = b[i]
  BY <1>8 DEF Range
<1>10. l > i
  <2>1. l # i
    BY <1>5, <1>8, <1>9
  <2>2. ~(l < i)
    <3> SUFFICES ASSUME l < i PROVE FALSE
      OBVIOUS
    <3>1. l \in DOMAIN b /\ b[l] = b[i]
      BY <1>4, <1>9
    <3>2. l = i
      BY <1>8, <3>1 DEF IsInjective
    <3>3. QED
      BY <2>1, <3>2
  <2>3. QED
    BY <1>1, <1>5, <2>1, <2>2
<1>11. i < l <=> k < i
  BY <1>5, <1>6, <1>8, <1>9 DEF SameOrder
<1>12. QED
  BY <1>1, <1>5, <1>7, <1>10, <1>11

LEMMA OrderDetermines ==
    ASSUME NEW S, NEW a \in Seq(S), NEW b \in Seq(S), IsInjective(a), IsInjective(b),
           Range(a) = Range(b), SameOrder(a, b, {})
    PROVE  a = b
<1>1. \A i \in DOMAIN a : i \in DOMAIN b /\ a[i] = b[i]
  BY SameOrderAgrees
<1>2. \A i \in DOMAIN b : i \in DOMAIN a
  <2>1. SameOrder(b, a, {})
    BY SameOrderTurned
  <2>2. QED
    BY <2>1, SameOrderAgrees
<1>3. DOMAIN a = 1..Len(a) /\ DOMAIN b = 1..Len(b) /\ Len(a) \in Nat /\ Len(b) \in Nat
  OBVIOUS
<1>4. DOMAIN a = DOMAIN b
  BY <1>1, <1>2
<1>5. Len(a) = Len(b)
  BY <1>4
<1>6. QED
  BY <1>1, <1>3, <1>5, SeqEqual

LEMMA ArrangedSelf ==
    ASSUME NEW s, IsInjective(s)
    PROVE  Arranged(s, s, {}, {})
BY DEF Arranged, SameOrder, IsInjective

LEMMA FewerExceptions ==
    ASSUME NEW a, NEW b, NEW X, NEW x, SameOrder(a, b, X), x \notin Range(a)
    PROVE  SameOrder(a, b, X \ {x})
BY DEF SameOrder, Range

(* The user deletes a row ... *)
LEMMA ArrangedWithoutRow ==
    ASSUME NEW S, NEW to \in Seq(S), IsInjective(to), NEW from, NEW D, NEW M,
           Arranged(to, from, D, M), NEW i \in 1..Len(to)
    PROVE  Arranged(RemoveAt(to, i), from, D \cup {to[i]}, M \ {to[i]})
<1>1. PICK r : r = RemoveAt(to, i)
  OBVIOUS
<1>2. Loses(r, to, to[i]) /\ SameOrder(r, to, {})
  BY <1>1, ShorterList
<1>3. SameOrder(r, from, {} \cup M)
  BY <1>2, SameOrderComposes DEF Arranged, Loses
<1>4. {} \cup M = M
  OBVIOUS
<1>5. SameOrder(r, from, M \ {to[i]})
  BY <1>2, <1>3, <1>4, FewerExceptions DEF Loses
<1>6. Range(r) = Range(from) \ (D \cup {to[i]})
  BY <1>2 DEF Arranged, Loses
<1>7. QED
  BY <1>1, <1>5, <1>6 DEF Arranged

(* ... or moves one ... *)
LEMMA ArrangedWithRowMoved ==
    ASSUME NEW S, NEW to \in Seq(S), IsInjective(to), NEW from, NEW D, NEW M,
           Arranged(to, from, D, M), NEW i \in 1..Len(to), NEW j \in 1..Len(to)
    PROVE  Arranged(InsertAt(RemoveAt(to, i), j, to[i]), from, D, M \cup {to[i]})
<1>1. PICK t : t = MovedTo(to, to[i], j)
  OBVIOUS
<1>2. t = InsertAt(RemoveAt(to, i), j, to[i])
  BY <1>1, IndexOfElement DEF MovedTo
<1>3. to[i] \in S /\ to[i] \in Range(to) /\ Len(to) \in Nat
  BY DEF Range
<1>4. j \in 1..(Len(Without(to, to[i])) + 1)
  BY <1>3, WithoutProperties
<1>5. Gains(t, to, to[i]) /\ SameOrder(t, to, {to[i]})
  BY <1>1, <1>3, <1>4, MovedToProperties
<1>6. Range(t) = Range(to)
  BY <1>3, <1>5 DEF Gains
<1>7. SameOrder(t, from, {to[i]} \cup M)
  BY <1>5, <1>6, SameOrderComposes DEF Arranged
<1>8. {to[i]} \cup M = M \cup {to[i]}
  OBVIOUS
<1>9. QED
  BY <1>2, <1>6, <1>7, <1>8 DEF Arranged

(* ... the operation deletes a movie ... *)
LEMMA ArrangedAfterDeletion ==
    ASSUME NEW S, NEW from \in Seq(S), IsInjective(from), NEW to, NEW D, NEW M,
           Arranged(to, from, D, M), NEW x \in D
    PROVE  Arranged(to, Without(from, x), D \ {x}, M)
<1>1. PICK w : w = Without(from, x)
  OBVIOUS
<1>2. Loses(w, from, x) /\ SameOrder(w, from, {})
  BY <1>1, WithoutProperties
<1>3. Range(to) = Range(w) \ (D \ {x})
  BY <1>2 DEF Arranged, Loses
<1>4. SameOrder(from, w, {})
  BY <1>2, SameOrderTurned
<1>5. \A y \in Range(to) \cap Range(w) : y \in M \cup {} \cup Range(from)
  BY DEF Arranged
<1>6. SameOrder(to, w, M \cup {})
  BY <1>4, <1>5, SameOrderComposes DEF Arranged
<1>7. M \cup {} = M
  OBVIOUS
<1>8. QED
  BY <1>1, <1>3, <1>6, <1>7 DEF Arranged

(* ... or, the last thing it does, moves one: the queue is what the user    *)
(* made of it.                                                              *)
LEMMA ArrangedAtLast ==
    ASSUME NEW S, NEW to \in Seq(S), IsInjective(to), NEW from \in Seq(S), IsInjective(from),
           Arranged(to, from, {}, {})
    PROVE  to = from
<1>1. Range(to) = Range(from) /\ SameOrder(to, from, {})
  BY DEF Arranged
<1>2. QED
  BY <1>1, OrderDetermines

LEMMA ArrangedByLastMove ==
    ASSUME NEW S, NEW to \in Seq(S), IsInjective(to), NEW from \in Seq(S), IsInjective(from),
           NEW x \in Range(to), Arranged(to, from, {}, {x})
    PROVE  MovedTo(from, x, Index(to, x)) = to
<1>1. PICK v : v = Without(to, x)
  OBVIOUS
<1>2. PICK w : w = Without(from, x)
  OBVIOUS
<1>3. /\ v \in Seq(S) /\ IsInjective(v) /\ Loses(v, to, x)
      /\ SameOrder(v, to, {})
  BY <1>1, WithoutProperties
<1>4. /\ w \in Seq(S) /\ IsInjective(w) /\ Loses(w, from, x)
      /\ SameOrder(w, from, {})
  BY <1>2, WithoutProperties
<1>5. Range(v) = Range(w)
  BY <1>3, <1>4 DEF Arranged, Loses
<1>6. SameOrder(v, w, {})
  <2>1. SameOrder(v, from, {} \cup {x})
    BY <1>3, SameOrderComposes DEF Arranged, Loses
  <2>2. SameOrder(from, w, {})
    BY <1>4, SameOrderTurned
  <2>3. \A y \in Range(v) \cap Range(w) : y \in ({} \cup {x}) \cup {} \cup Range(from)
    BY <1>4 DEF Loses
  <2>4. SameOrder(v, w, ({} \cup {x}) \cup {})
    BY <2>1, <2>2, <2>3, SameOrderComposes
  <2>5. x \notin Range(v)
    BY <1>3 DEF Loses
  <2>6. SameOrder(v, w, (({} \cup {x}) \cup {}) \ {x})
    BY <2>4, <2>5, FewerExceptions
  <2>7. (({} \cup {x}) \cup {}) \ {x} = {}
    OBVIOUS
  <2>8. QED
    BY <2>6, <2>7
<1>7. v = w
  BY <1>3, <1>4, <1>5, <1>6, OrderDetermines
<1>8. PICK i : i = Index(to, x)
  OBVIOUS
<1>9. i \in 1..Len(to) /\ to[i] = x /\ v = RemoveAt(to, i)
  BY <1>1, <1>8, IndexIn
<1>10. InsertAt(v, i, x) = to
  BY <1>9, PutBack
<1>11. QED
  BY <1>2, <1>7, <1>8, <1>10 DEF MovedTo

-----------------------------------------------------------------------------
(* Lemmas about the movies of a list of objects *)

LEMMA IdsProperties ==
    ASSUME NEW s \in Seq(Objects)
    PROVE  /\ Ids(s) \in Seq(Movies)
           /\ Len(Ids(s)) = Len(s)
           /\ \A i \in 1..Len(s) : Ids(s)[i] = s[i].movie
<1>1. DOMAIN s = 1..Len(s) /\ Len(s) \in Nat
  OBVIOUS
<1>2. Ids(s) = [i \in 1..Len(s) |-> s[i].movie]
  BY <1>1 DEF Ids
<1>3. ASSUME NEW i \in 1..Len(s) PROVE s[i].movie \in Movies
  <2>1. s[i] \in Objects
    OBVIOUS
  <2>2. QED
    BY <2>1 DEF Objects
<1>4. QED
  BY <1>1, <1>2, <1>3

LEMMA IdsOfRemoveAt ==
    ASSUME NEW s \in Seq(Objects), NEW i \in 1..Len(s)
    PROVE  Ids(RemoveAt(s, i)) = RemoveAt(Ids(s), i)
<1>1. PICK a : a = Ids(RemoveAt(s, i))
  OBVIOUS
<1>2. PICK b : b = RemoveAt(Ids(s), i)
  OBVIOUS
<1>3. /\ Ids(s) \in Seq(Movies) /\ Len(Ids(s)) = Len(s)
      /\ \A j \in 1..Len(s) : Ids(s)[j] = s[j].movie
  BY IdsProperties
<1>4. /\ RemoveAt(s, i) \in Seq(Objects) /\ Len(RemoveAt(s, i)) = Len(s) - 1
      /\ \A j \in 1..Len(s) - 1 : RemoveAt(s, i)[j] = IF j < i THEN s[j] ELSE s[j + 1]
  BY RemoveAtProperties
<1>5. /\ a \in Seq(Movies) /\ Len(a) = Len(s) - 1
      /\ \A j \in 1..Len(s) - 1 : a[j] = (IF j < i THEN s[j] ELSE s[j + 1]).movie
  BY <1>1, <1>4, IdsProperties
<1>6. /\ b \in Seq(Movies) /\ Len(b) = Len(s) - 1
      /\ \A j \in 1..Len(s) - 1 : b[j] = IF j < i THEN Ids(s)[j] ELSE Ids(s)[j + 1]
  BY <1>2, <1>3, RemoveAtProperties
<1>7. ASSUME NEW j \in 1..Len(s) - 1 PROVE a[j] = b[j]
  <2>1. Len(s) \in Nat /\ j \in 1..Len(s) /\ j + 1 \in 1..Len(s)
    OBVIOUS
  <2>2. QED
    BY <1>3, <1>5, <1>6, <2>1
<1>8. a = b
  BY <1>5, <1>6, <1>7, SeqEqual
<1>9. QED
  BY <1>1, <1>2, <1>8

LEMMA IdsOfInsertAt ==
    ASSUME NEW s \in Seq(Objects), NEW e \in Objects, NEW p \in 1..(Len(s) + 1)
    PROVE  Ids(InsertAt(s, p, e)) = InsertAt(Ids(s), p, e.movie)
<1>1. PICK a : a = Ids(InsertAt(s, p, e))
  OBVIOUS
<1>2. PICK b : b = InsertAt(Ids(s), p, e.movie)
  OBVIOUS
<1>3. /\ Ids(s) \in Seq(Movies) /\ Len(Ids(s)) = Len(s)
      /\ \A j \in 1..Len(s) : Ids(s)[j] = s[j].movie
  BY IdsProperties
<1>4. /\ InsertAt(s, p, e) \in Seq(Objects) /\ Len(InsertAt(s, p, e)) = Len(s) + 1
      /\ \A j \in 1..(Len(s) + 1) :
            InsertAt(s, p, e)[j] = IF j < p THEN s[j] ELSE IF j = p THEN e ELSE s[j - 1]
  BY InsertAtProperties
<1>5. /\ a \in Seq(Movies) /\ Len(a) = Len(s) + 1
      /\ \A j \in 1..(Len(s) + 1) :
            a[j] = (IF j < p THEN s[j] ELSE IF j = p THEN e ELSE s[j - 1]).movie
  BY <1>1, <1>4, IdsProperties
<1>6. e.movie \in Movies
  BY DEF Objects
<1>7. /\ b \in Seq(Movies) /\ Len(b) = Len(s) + 1
      /\ \A j \in 1..(Len(s) + 1) :
            b[j] = IF j < p THEN Ids(s)[j] ELSE IF j = p THEN e.movie ELSE Ids(s)[j - 1]
  BY <1>2, <1>3, <1>6, InsertAtProperties, SMTT(60)
<1>8. ASSUME NEW j \in 1..(Len(s) + 1) PROVE a[j] = b[j]
  <2>1. Len(s) \in Nat /\ p \in 1..(Len(s) + 1)
    OBVIOUS
  <2>2. CASE j < p
    <3>1. j \in 1..Len(s)
      BY <2>1, <2>2
    <3>2. QED
      BY <1>3, <1>5, <1>7, <2>2, <3>1
  <2>3. CASE j = p
    BY <1>5, <1>7, <2>3
  <2>4. CASE j > p
    <3>1. j - 1 \in 1..Len(s) /\ ~(j < p) /\ j # p
      BY <2>1, <2>4
    <3>2. QED
      BY <1>3, <1>5, <1>7, <3>1
  <2>5. QED
    BY <2>1, <2>2, <2>3, <2>4
<1>9. a = b
  BY <1>5, <1>7, <1>8, SeqEqual
<1>10. QED
  BY <1>1, <1>2, <1>9

(* No movie is in a list twice when no object is and no two objects are of  *)
(* one movie.                                                               *)
NoTwins(objects) == \A x, y \in objects : x.movie = y.movie => x = y

LEMMA IdsInjective ==
    ASSUME NEW s \in Seq(Objects)
    PROVE  IsInjective(Ids(s)) <=> IsInjective(s) /\ NoTwins(Range(s))
<1>1. /\ DOMAIN Ids(s) = DOMAIN s
      /\ \A i \in DOMAIN s : Ids(s)[i] = s[i].movie
  BY DEF Ids
<1>2. IsInjective(Ids(s)) <=> \A i, j \in DOMAIN s : s[i].movie = s[j].movie => i = j
  BY <1>1 DEF IsInjective
<1>3. IsInjective(s) <=> \A i, j \in DOMAIN s : s[i] = s[j] => i = j
  BY DEF IsInjective
<1>4. NoTwins(Range(s)) <=> \A i, j \in DOMAIN s : s[i].movie = s[j].movie => s[i] = s[j]
  BY DEF NoTwins, Range
<1>5. QED
  BY <1>2, <1>3, <1>4

LEMMA MadeProperties ==
    ASSUME NEW s \in Seq(Movies), IsInjective(s), NEW c \in 0..MaxOutside
    PROVE  /\ Made(s, c) \in Seq(Objects)
           /\ Len(Made(s, c)) = Len(s)
           /\ IsInjective(Made(s, c))
           /\ Ids(Made(s, c)) = s
<1>1. DOMAIN s = 1..Len(s) /\ Len(s) \in Nat
  OBVIOUS
<1>2. Made(s, c) = [i \in 1..Len(s) |-> [movie |-> s[i], copy |-> c]]
  BY <1>1 DEF Made
<1>3. \A i \in 1..Len(s) : [movie |-> s[i], copy |-> c] \in Objects
  BY DEF Objects
<1>4. Made(s, c) \in Seq(Objects) /\ Len(Made(s, c)) = Len(s)
  BY <1>1, <1>2, <1>3
<1>5. \A i \in 1..Len(s) : Made(s, c)[i].movie = s[i]
  BY <1>2
<1>6. Ids(Made(s, c)) = s
  <2>1. PICK t : t = Ids(Made(s, c))
    OBVIOUS
  <2>2. t \in Seq(Movies) /\ Len(t) = Len(s) /\ \A i \in 1..Len(s) : t[i] = s[i]
    BY <1>4, <1>5, <2>1, IdsProperties
  <2>3. t = s
    BY <2>2, SeqEqual
  <2>4. QED
    BY <2>1, <2>3
<1>7. IsInjective(Made(s, c))
  BY <1>4, <1>6, IdsInjective
<1>8. QED
  BY <1>4, <1>6, <1>7

-----------------------------------------------------------------------------
(* Lemmas about the queue of the server and about the size of edits *)

LEMMA RangeIsFinite ==
    ASSUME NEW S, NEW s \in Seq(S)
    PROVE  IsFiniteSet(Range(s))
<1>1. s \in [1..Len(s) -> Range(s)] /\ DOMAIN s = 1..Len(s) /\ Len(s) \in Nat
  BY DEF Range
<1>2. s \in Surjection(1..Len(s), Range(s))
  BY <1>1 DEF Surjection, Range
<1>3. IsFiniteSet(1..Len(s))
  BY <1>1, FS_Interval
<1>4. QED
  BY <1>2, <1>3, FS_Surjection

LEMMA AtMostOne ==
    ASSUME NEW R, IsFiniteSet(R), ~(Cardinality(R) > 1)
    PROVE  \A x, y \in R : x = y
<1> SUFFICES ASSUME NEW x \in R, NEW y \in R, x # y PROVE FALSE
  OBVIOUS
<1>1. {x, y} \in SUBSET R
  OBVIOUS
<1>2. IsFiniteSet({x}) /\ Cardinality({x}) = 1
  BY FS_Singleton
<1>3. IsFiniteSet({x} \cup {y}) /\ Cardinality({x} \cup {y}) = 2
  <2>1. y \notin {x}
    OBVIOUS
  <2>2. /\ IsFiniteSet({x} \cup {y})
        /\ Cardinality({x} \cup {y}) = IF y \in {x} THEN 1 ELSE 1 + 1
    BY <1>2, FS_AddElement, Zenon
  <2>3. QED
    BY <2>1, <2>2
<1>4. {x} \cup {y} \in SUBSET R
  BY <1>1
<1>5. Cardinality({x} \cup {y}) <= Cardinality(R) /\ Cardinality(R) \in Nat
  BY <1>4, FS_Subset, FS_CardinalityType
<1>6. QED
  BY <1>3, <1>5

LEMMA OrdersProperties ==
    ASSUME NEW s
    PROVE  s \in Orders <=> s \in Seq(Movies) /\ IsInjective(s)
<1>1. ASSUME s \in Orders PROVE s \in Seq(Movies) /\ IsInjective(s)
  <2>1. PICK m \in 0..Cardinality(Movies) : s \in [1..m -> Movies]
    BY <1>1 DEF Orders, BoundedSeq, SeqOf
  <2>2. m \in Nat
    OBVIOUS
  <2>3. QED
    BY <1>1, <2>1, <2>2 DEF Orders
<1>2. ASSUME s \in Seq(Movies), IsInjective(s) PROVE s \in Orders
  <2>1. s \in [1..Len(s) -> Movies] /\ Len(s) \in Nat
    BY <1>2
  <2>2. s \in Injection(1..Len(s), Movies)
    BY <1>2, <2>1 DEF Injection
  <2>3. IsFiniteSet(Movies)
    BY QueueScreenAssumption
  <2>4. Cardinality(1..Len(s)) <= Cardinality(Movies)
    BY <2>2, <2>3, FS_Injection
  <2>5. Cardinality(1..Len(s)) = Len(s)
    <3>1. 1 \in Int /\ Len(s) \in Int
      BY <2>1
    <3>2. Cardinality(1..Len(s)) = IF 1 > Len(s) THEN 0 ELSE Len(s) - 1 + 1
      BY <3>1, FS_Interval
    <3>3. QED
      BY <2>1, <3>2
  <2>6. Len(s) \in 0..Cardinality(Movies)
    BY <2>1, <2>3, <2>4, <2>5, FS_CardinalityType
  <2>7. QED
    BY <1>2, <2>1, <2>6 DEF Orders, BoundedSeq, SeqOf
<1>3. QED
  BY <1>1, <1>2

LEMMA AllMoviesInOrder == SetToSeq(Movies) \in Orders
<1> DEFINE n == Cardinality(Movies)
<1>1. n \in Nat /\ ExistsBijection(1..n, Movies)
  BY QueueScreenAssumption, FS_CardinalityType
<1>2. PICK f : f \in Bijection(1..n, Movies)
  BY <1>1 DEF ExistsBijection
<1>3. f \in [1..n -> Movies] /\ IsInjective(f)
  BY <1>2 DEF Bijection, Injection
<1>4. SetToSeq(Movies) \in [1..n -> Movies] /\ IsInjective(SetToSeq(Movies))
  BY <1>3 DEF SetToSeq
<1>5. QED
  BY <1>1, <1>4, OrdersProperties

LEMMA Rotated ==
    ASSUME NEW s \in Orders, s # <<>>
    PROVE  /\ Append(Tail(s), Head(s)) \in Orders
           /\ Len(Append(Tail(s), Head(s))) = Len(s)
<1>1. s \in Seq(Movies) /\ IsInjective(s)
  BY OrdersProperties
<1>2. PICK t : t = Append(Tail(s), Head(s))
  OBVIOUS
<1>3. /\ t \in Seq(Movies) /\ Len(t) = Len(s) /\ Len(s) \in Nat \ {0}
      /\ \A i \in 1..Len(s) : t[i] = IF i < Len(s) THEN s[i + 1] ELSE s[1]
  BY <1>1, <1>2
<1>4. \A i, j \in 1..Len(s) : t[i] = t[j] => i = j
  <2> SUFFICES ASSUME NEW i \in 1..Len(s), NEW j \in 1..Len(s), t[i] = t[j] PROVE i = j
    OBVIOUS
  <2> DEFINE from(k) == IF k < Len(s) THEN k + 1 ELSE 1
  <2>1. from(i) \in DOMAIN s /\ from(j) \in DOMAIN s /\ t[i] = s[from(i)] /\ t[j] = s[from(j)]
    BY <1>1, <1>3
  <2>2. from(i) = from(j)
    BY <1>1, <2>1 DEF IsInjective
  <2>3. QED
    BY <1>3, <2>2
<1>5. IsInjective(t)
  BY <1>3, <1>4 DEF IsInjective
<1>6. QED
  BY <1>2, <1>3, <1>5, OrdersProperties

-----------------------------------------------------------------------------
(* The types: the first state, and what steps have in common *)

LEMMA TypeInit == ASSUME Init PROVE TypeInv
<1>1. server = [etag |-> 1, movies |-> SetToSeq(Movies)]
  BY DEF Init
<1>2. server.movies \in Orders /\ server \in [etag : Nat, movies : Orders]
  BY <1>1, AllMoviesInOrder
<1>3. server.movies \in Seq(Movies) /\ IsInjective(server.movies)
  BY <1>2, OrdersProperties
<1>4. MaxOutside \in Nat /\ MaxEdits \in Nat /\ 0 \in 0..MaxOutside
  BY QueueScreenAssumption
<1>5. /\ Made(server.movies, 0) \in Seq(Objects)
      /\ IsInjective(Made(server.movies, 0))
      /\ Len(Made(server.movies, 0)) = Len(server.movies)
  BY <1>3, <1>4, MadeProperties
<1>6. saved = [etag |-> 1, movies |-> Made(server.movies, 0)]
  BY DEF Init
<1>7. /\ saved \in Queues /\ IsInjective(saved.movies)
      /\ Len(saved.movies) = Len(server.movies)
  BY <1>5, <1>6 DEF Queues
<1>8. PulserTypeOK
  BY PulserAssumption DEF Init, PulserInit, PulserTypeOK
<1>9. CachesTyped
  BY <1>2, <1>4, <1>7 DEF Init, CachesTyped
<1>10. IsInjective(<<>>) /\ <<>> \in Seq(Objects) /\ <<>> \in Seq(Movies)
  BY DEF IsInjective
<1>11. queue \in Queues /\ IsInjective(queue.movies)
  BY <1>10 DEF Init, Queues
<1>12. ScreenTyped
  BY <1>10, <1>11 DEF Init, ScreenTyped
<1>13. OperationTyped
  BY DEF Init, OperationTyped
<1>14. EditsAreOfRows
  BY DEF Init, EditsAreOfRows
<1>15. Len(server.movies) \in Nat
  BY <1>3
<1>16. CopiesAreLongEnough
  BY <1>7, <1>15 DEF Init, CopiesAreLongEnough
<1>17. QED
  BY <1>8, <1>9, <1>12, <1>13, <1>14, <1>16 DEF TypeInv

(* What a step does not touch keeps its type. *)
LEMMA Untouched ==
    ASSUME TypeInv
    PROVE  /\ UNCHANGED pulser => PulserTypeOK'
           /\ UNCHANGED <<cache, art, shown, left>> => CachesTyped'
           /\ UNCHANGED <<shape, deferred, queue, rows, table, temporary, history>>
                 => ScreenTyped'
           /\ UNCHANGED <<operation, readonly, editing>> => OperationTyped'
           /\ UNCHANGED <<editing, readonly, temporary, rows, table, operation>>
                 => EditsAreOfRows'
           /\ UNCHANGED <<cache, queue, rows, temporary, session>> => CopiesAreLongEnough'
<1>1. UNCHANGED pulser => PulserTypeOK'
  BY DEF TypeInv, PulserTypeOK, pulser
<1>2. UNCHANGED <<cache, art, shown, left>> => CachesTyped'
  BY DEF TypeInv, CachesTyped, cache
<1>3. UNCHANGED <<shape, deferred, queue, rows, table, temporary, history>> => ScreenTyped'
  BY DEF TypeInv, ScreenTyped, shape, temporary, history
<1>4. UNCHANGED <<operation, readonly, editing>> => OperationTyped'
  BY DEF TypeInv, OperationTyped, operation
<1>5. UNCHANGED <<editing, readonly, temporary, rows, table, operation>> => EditsAreOfRows'
  BY DEF TypeInv, EditsAreOfRows, temporary, operation
<1>6. UNCHANGED <<cache, queue, rows, temporary, session>> => CopiesAreLongEnough'
  BY DEF TypeInv, CopiesAreLongEnough, cache, temporary
<1>7. QED
  BY <1>1, <1>2, <1>3, <1>4, <1>5, <1>6

(* A refresh changes nothing that the table shows, or loads the queue of    *)
(* the cache, and that only while the rows are neither edited nor read-only.*)
Refresh == MajorRefresh \/ (UNCHANGED deferred /\ ReloadTableViewData)

Loaded == queue' = saved /\ rows' = saved.movies /\ table' = Ids(saved.movies)

LEMMA RefreshLoads ==
    ASSUME Refresh
    PROVE  \/ UNCHANGED content
           \/ Loaded /\ shown' = art /\ editing' = "no" /\ ~readonly'
BY DEF Refresh, MajorRefresh, ReloadTableViewData, Reload, Loaded, content

LEMMA RefreshTyped ==
    ASSUME TypeInv, Refresh, UNCHANGED <<cache, art, left>>,
           {visible', readonly'} \subseteq BOOLEAN, editing' \in {"no", "swipe", "edit"},
           {deleted', reordered'} \subseteq SUBSET Objects
    PROVE  CachesTyped' /\ ScreenTyped'
<1>1. CachesTyped /\ ScreenTyped
  BY DEF TypeInv
<1>2. UNCHANGED <<saved, server, art, left>>
  BY DEF cache
<1>3. art \in 0..MaxOutside
  BY <1>1, QueueScreenAssumption DEF CachesTyped
<1>4. shown' \in 0..MaxOutside
  BY <1>1, <1>3, RefreshLoads DEF CachesTyped, content
<1>5. CachesTyped'
  BY <1>1, <1>2, <1>4 DEF CachesTyped
<1>6. saved.movies \in Seq(Objects) /\ saved \in Queues /\ IsInjective(saved.movies)
  BY <1>1 DEF CachesTyped, Queues
<1>7. Ids(saved.movies) \in Seq(Movies)
  BY <1>6, IdsProperties
<1>8. /\ queue' \in Queues /\ IsInjective(queue'.movies)
      /\ rows' \in Seq(Objects) /\ IsInjective(rows')
      /\ table' \in Seq(Movies)
  BY <1>1, <1>6, <1>7, RefreshLoads DEF ScreenTyped, Loaded, content
<1>9. deferred' \in BOOLEAN /\ {refused', lost', disordered', overtaken'} \subseteq BOOLEAN
  BY <1>1 DEF ScreenTyped, Refresh, MajorRefresh, ReloadTableViewData, Reload, history
<1>10. ScreenTyped'
  BY <1>8, <1>9 DEF ScreenTyped
<1>11. QED
  BY <1>5, <1>10

LEMMA RefreshCopies ==
    ASSUME TypeInv, Refresh, UNCHANGED <<cache, session>>,
           UNCHANGED temporary \/ (deleted' = {} /\ reordered' = {})
    PROVE  CopiesAreLongEnough'
<1>1. CopiesAreLongEnough /\ UNCHANGED <<server, saved, session>>
  BY DEF TypeInv, cache
<1>2. UNCHANGED <<queue, rows>> \/ queue' = saved
  BY RefreshLoads DEF Loaded, content
<1>3. deleted' \in {deleted, {}} /\ reordered' \in {reordered, {}}
  BY DEF temporary
<1>4. QED
  BY <1>1, <1>2, <1>3 DEF CopiesAreLongEnough

(* While the rows are not read-only there is no operation, and while they   *)
(* are neither that nor edited there are no edits.                          *)
LEMMA NothingUnderWay ==
    ASSUME TypeInv
    PROVE  /\ ~readonly => session = <<>> /\ report = <<>>
           /\ editing # "edit" /\ ~readonly => deleted = {} /\ reordered = {}
           /\ report # <<>> => readonly /\ editing = "no" /\ session = <<>>
           /\ session # <<>> => readonly /\ editing = "no" /\ report = <<>>
BY DEF TypeInv, OperationTyped, EditsAreOfRows

-----------------------------------------------------------------------------
(* The types: the steps of AbstractTableViewController *)

LEMMA TypeRefreshing ==
    ASSUME TypeInv, Appear \/ PerformDeferred \/ Pulse
    PROVE  TypeInv'
<1>1. /\ Refresh
      /\ UNCHANGED <<cache, art, left, editing, readonly, temporary, operation>>
      /\ visible' \in {TRUE, visible}
  BY DEF Appear, PerformDeferred, Pulse, Refresh, shape
<1>2. ScreenTyped
  BY DEF TypeInv
<1>3. PulserTypeOK'
  <2>1. CASE Pulse
    <3>1. PulserTypeOK
      BY DEF TypeInv
    <3>2. QED
      BY <2>1, <3>1, PulserAssumption DEF Pulse, TakeDue, ForcePulse, PulserTypeOK, Reposts
  <2>2. CASE UNCHANGED pulser
    BY <2>2, Untouched
  <2>3. QED
    BY <2>1, <2>2 DEF Appear, PerformDeferred
<1>4. CachesTyped' /\ ScreenTyped'
  <2>1. /\ {visible', readonly'} \subseteq BOOLEAN /\ editing' \in {"no", "swipe", "edit"}
        /\ {deleted', reordered'} \subseteq SUBSET Objects
    BY <1>1, <1>2 DEF ScreenTyped, temporary
  <2>2. QED
    BY <1>1, <2>1, RefreshTyped
<1>5. OperationTyped'
  BY <1>1, Untouched
<1>6. EditsAreOfRows'
  <2>1. CASE UNCHANGED content
    BY <1>1, <2>1, Untouched DEF content
  <2>2. CASE editing' = "no" /\ ~readonly'
    <3>1. /\ session' = <<>> /\ report' = <<>> /\ deleted' = {} /\ reordered' = {}
      BY <1>1, <2>2, NothingUnderWay DEF operation, temporary
    <3>2. QED
      BY <2>2, <3>1 DEF EditsAreOfRows
  <2>3. QED
    BY <1>1, <2>1, <2>2, RefreshLoads
<1>7. CopiesAreLongEnough'
  BY <1>1, RefreshCopies DEF operation
<1>8. QED
  BY <1>3, <1>4, <1>5, <1>6, <1>7 DEF TypeInv

LEMMA TypeShowing ==
    ASSUME TypeInv, Disappear \/ StartSwipe \/ CancelSwipe \/ OnEdit
    PROVE  TypeInv'
<1>1. /\ UNCHANGED <<pulser, cache, art, shown, left>>
      /\ UNCHANGED <<readonly, queue, rows, table, operation>>
      /\ UNCHANGED temporary \/ (deleted' = {} /\ reordered' = {})
      /\ UNCHANGED editing \/ ~readonly
  BY NothingUnderWay DEF Disappear, StartSwipe, CancelSwipe, OnEdit, content, TypeInv,
     OperationTyped
<1>2. ScreenTyped /\ OperationTyped /\ EditsAreOfRows /\ CopiesAreLongEnough
  BY DEF TypeInv
<1>3. PulserTypeOK' /\ CachesTyped'
  BY <1>1, Untouched
<1>4. ScreenTyped'
  <2>1. visible' \in BOOLEAN /\ deferred' \in BOOLEAN /\ editing' \in {"no", "swipe", "edit"}
    BY <1>2 DEF ScreenTyped, Disappear, StartSwipe, CancelSwipe, OnEdit
  <2>2. {refused', lost', disordered', overtaken'} \subseteq BOOLEAN
    BY <1>2 DEF ScreenTyped, Disappear, StartSwipe, CancelSwipe, OnEdit, history
  <2>3. QED
    BY <1>1, <1>2, <2>1, <2>2 DEF ScreenTyped, temporary
<1>5. OperationTyped'
  BY <1>1, <1>2 DEF OperationTyped, operation
<1>6. EditsAreOfRows'
  <2>1. CASE Disappear
    BY <2>1, Untouched DEF Disappear, content
  <2>2. CASE StartSwipe \/ CancelSwipe
    <3>1. /\ editing # "edit" /\ editing' # "edit"
          /\ UNCHANGED <<readonly, temporary, rows, table, session, report>>
      BY <2>2 DEF StartSwipe, CancelSwipe, content, operation
    <3>2. QED
      BY <1>2, <3>1 DEF EditsAreOfRows, temporary
  <2>3. CASE OnEdit
    <3>1. session' = <<>> /\ report' = <<>> /\ deleted' = {} /\ reordered' = {}
      BY <2>3, NothingUnderWay DEF OnEdit, operation
    <3>2. QED
      BY <3>1 DEF EditsAreOfRows
  <2>4. QED
    BY <2>1, <2>2, <2>3
<1>7. CopiesAreLongEnough'
  <2>1. UNCHANGED <<server, saved, queue, rows, session>>
    BY <1>1 DEF cache, operation
  <2>2. deleted' \in {deleted, {}} /\ reordered' \in {reordered, {}}
    BY <1>1 DEF temporary
  <2>3. QED
    BY <1>2, <2>1, <2>2 DEF CopiesAreLongEnough
<1>8. QED
  BY <1>3, <1>4, <1>5, <1>6, <1>7 DEF TypeInv

LEMMA TypeCancelling ==
    ASSUME TypeInv, OnCancel
    PROVE  TypeInv'
<1>1. /\ Refresh
      /\ UNCHANGED <<pulser, cache, art, left, visible, readonly, operation>>
      /\ editing = "edit" /\ editing' = "no" /\ deleted' = {} /\ reordered' = {}
  BY DEF OnCancel, Refresh
<1>2. ScreenTyped
  BY DEF TypeInv
<1>3. ~readonly /\ session = <<>> /\ report = <<>>
  BY <1>1, NothingUnderWay DEF TypeInv, OperationTyped
<1>4. PulserTypeOK'
  BY <1>1, Untouched
<1>5. CachesTyped' /\ ScreenTyped'
  <2>1. /\ {visible', readonly'} \subseteq BOOLEAN
        /\ {deleted', reordered'} \subseteq SUBSET Objects
    BY <1>1, <1>2 DEF ScreenTyped
  <2>2. QED
    BY <1>1, <2>1, RefreshTyped
<1>6. session' = <<>> /\ report' = <<>> /\ ~readonly'
  BY <1>1, <1>3 DEF operation
<1>7. OperationTyped' /\ EditsAreOfRows'
  BY <1>1, <1>6 DEF OperationTyped, EditsAreOfRows
<1>8. CopiesAreLongEnough'
  BY <1>1, RefreshCopies DEF operation
<1>9. QED
  BY <1>4, <1>5, <1>7, <1>8 DEF TypeInv

-----------------------------------------------------------------------------
(* The types: the Pulser, other caches and other clients *)

LEMMA PulserTyped ==
    ASSUME PulserTypeOK, PulserStep
    PROVE  PulserTypeOK'
<1>1. ASSUME NEW date \in -1 .. (Interval - 1), NEW others \in SUBSET Reposts,
             TryPulse(date, others), {calls', forces'} \subseteq Nat
      PROVE  PulserTypeOK'
  <2>1. CASE since' = since /\ due' = due /\ reposts' = others
    BY <1>1, <2>1 DEF PulserTypeOK
  <2>2. CASE /\ date >= 0
             /\ since' = since /\ due' = due
             /\ reposts' = others \cup
                  {[date |-> date, wait |-> IF Interval - date + 1 < Interval
                                            THEN Interval - date + 1 ELSE Interval]}
    <3>1. [date |-> date, wait |-> IF Interval - date + 1 < Interval
                                   THEN Interval - date + 1 ELSE Interval] \in Reposts
      BY <2>2, PulserAssumption DEF Reposts
    <3>2. QED
      BY <1>1, <2>2, <3>1 DEF PulserTypeOK
  <2>3. CASE since' = 0 /\ due' = due + 1 /\ reposts' = {[r EXCEPT !.date = -1] : r \in others}
    <3>1. \A r \in others : [r EXCEPT !.date = -1] \in Reposts
      BY PulserAssumption DEF Reposts
    <3>2. QED
      BY <1>1, <2>3, <3>1, PulserAssumption DEF PulserTypeOK
  <2>4. QED
    BY <1>1, <2>1, <2>2, <2>3 DEF TryPulse
<1>2. CASE HandleCall
  <2>1. (IF since = Interval THEN 0 ELSE since) \in -1 .. (Interval - 1)
    BY PulserAssumption DEF PulserTypeOK
  <2>2. TryPulse(IF since = Interval THEN 0 ELSE since, reposts)
    BY <1>2 DEF HandleCall
  <2>3. {calls', forces'} \subseteq Nat /\ reposts \in SUBSET Reposts
    BY <1>2 DEF HandleCall, PulserTypeOK
  <2>4. QED
    BY <1>1, <2>1, <2>2, <2>3
<1>3. CASE \E r \in reposts : HandleRepost(r)
  <2>1. PICK r \in reposts : HandleRepost(r)
    BY <1>3
  <2>2. r.date \in -1 .. (Interval - 1) /\ reposts \ {r} \in SUBSET Reposts
    BY DEF PulserTypeOK, Reposts
  <2>3. TryPulse(r.date, reposts \ {r}) /\ {calls', forces'} \subseteq Nat
    BY <2>1 DEF HandleRepost, PulserTypeOK
  <2>4. QED
    BY <1>1, <2>2, <2>3
<1>4. CASE Tick
  <2>1. ASSUME NEW r \in reposts
        PROVE  [r EXCEPT !.wait = IF @ = 0 THEN 0 ELSE @ - 1] \in Reposts
    <3>1. r \in Reposts
      BY DEF PulserTypeOK
    <3>2. (IF r.wait = 0 THEN 0 ELSE r.wait - 1) \in 0..Interval
      BY <3>1, PulserAssumption DEF Reposts
    <3>3. QED
      BY <3>1, <3>2 DEF Reposts
  <2>2. since' \in 0..Interval
    BY <1>4, PulserAssumption DEF Tick, PulserTypeOK
  <2>3. reposts' \subseteq Reposts
    BY <1>4, <2>1 DEF Tick
  <2>4. {calls', forces', due'} \subseteq Nat
    BY <1>4 DEF Tick, PulserTypeOK
  <2>5. QED
    BY <2>2, <2>3, <2>4 DEF PulserTypeOK
<1>5. QED
  BY <1>2, <1>3, <1>4 DEF PulserStep

LEMMA TypeAround ==
    ASSUME TypeInv, SaveArt \/ PulserStep
    PROVE  TypeInv'
<1>1. /\ UNCHANGED <<cache, shape, deferred, content, temporary, operation, history>>
      /\ UNCHANGED <<editing, readonly, queue, rows, table, shown, session>>
  BY DEF SaveArt, PulserStep, shape, content, operation
<1>2. PulserTypeOK /\ CachesTyped
  BY DEF TypeInv
<1>3. PulserTypeOK'
  BY <1>2, PulserTyped DEF SaveArt, PulserTypeOK
<1>4. CachesTyped'
  <2>1. CASE SaveArt
    BY <1>1, <1>2, <2>1, QueueScreenAssumption DEF SaveArt, Outside, CachesTyped, cache
  <2>2. CASE PulserStep
    BY <1>1, <2>2, Untouched DEF PulserStep
  <2>3. QED
    BY <2>1, <2>2
<1>5. ScreenTyped' /\ OperationTyped' /\ EditsAreOfRows' /\ CopiesAreLongEnough'
  BY <1>1, Untouched
<1>6. QED
  BY <1>3, <1>4, <1>5 DEF TypeInv

LEMMA OutsideTyped ==
    ASSUME CachesTyped, Outside
    PROVE  /\ left' \in [edits : Nat, outside : 0..MaxOutside]
           /\ left'.outside = left.outside - 1
           /\ MaxOutside - left'.outside \in 0..MaxOutside
BY QueueScreenAssumption DEF CachesTyped, Outside

LEMMA TypeForeign ==
    ASSUME TypeInv, Download \/ ForeignChange
    PROVE  TypeInv'
<1>1. /\ UNCHANGED <<pulser, art, shape, deferred, content, temporary, operation>>
      /\ UNCHANGED <<editing, readonly, queue, rows, table, shown, session>>
      /\ Outside
  BY DEF Download, ForeignChange, shape, content, operation
<1>2. CachesTyped /\ ScreenTyped /\ CopiesAreLongEnough
  BY DEF TypeInv
<1>3. server.movies \in Orders /\ server.etag \in Nat
  BY <1>2 DEF CachesTyped
<1>4. server.movies \in Seq(Movies) /\ IsInjective(server.movies)
  BY <1>3, OrdersProperties
<1>5. PulserTypeOK' /\ OperationTyped' /\ EditsAreOfRows'
  BY <1>1, Untouched
<1>6. ScreenTyped'
  BY <1>1, <1>2 DEF Download, ForeignChange, ScreenTyped, shape, temporary, history
<1>7. /\ left' \in [edits : Nat, outside : 0..MaxOutside]
      /\ left'.outside = left.outside - 1
      /\ MaxOutside - left'.outside \in 0..MaxOutside
  BY <1>1, <1>2, OutsideTyped
<1>8. CachesTyped' /\ CopiesAreLongEnough'
  <2>1. CASE Download
    <3>1. PICK movies : movies = Made(server.movies, MaxOutside - left'.outside)
      OBVIOUS
    <3>2. movies \in Seq(Objects) /\ Len(movies) = Len(server.movies) /\ IsInjective(movies)
      BY <1>4, <1>7, <3>1, MadeProperties
    <3>3. saved' = [etag |-> server.etag, movies |-> movies] /\ server' = server
      BY <2>1, <3>1 DEF Download
    <3>4. saved' \in Queues /\ saved'.movies = movies
      BY <1>3, <3>2, <3>3 DEF Queues
    <3>5. CachesTyped'
      BY <1>1, <1>2, <1>7, <3>2, <3>3, <3>4, QueueScreenAssumption DEF CachesTyped
    <3>6. Len(server.movies) \in Nat
      BY <1>4
    <3>7. CopiesAreLongEnough'
      BY <1>1, <1>2, <3>2, <3>3, <3>4, <3>6 DEF CopiesAreLongEnough, temporary
    <3>8. QED
      BY <3>5, <3>7
  <2>2. CASE ForeignChange
    <3>1. PICK movies : movies = Append(Tail(server.movies), Head(server.movies))
      OBVIOUS
    <3>2. movies \in Orders /\ Len(movies) = Len(server.movies)
      BY <1>3, <2>2, <3>1, Rotated DEF ForeignChange
    <3>3. server' = [etag |-> server.etag + 1, movies |-> movies] /\ saved' = saved
      BY <2>2, <3>1 DEF ForeignChange
    <3>4. server' \in [etag : Nat, movies : Orders] /\ server'.movies = movies
      BY <1>3, <3>2, <3>3
    <3>5. CachesTyped'
      BY <1>1, <1>2, <1>7, <3>3, <3>4, QueueScreenAssumption DEF CachesTyped
    <3>6. CopiesAreLongEnough'
      BY <1>1, <1>2, <3>2, <3>3, <3>4 DEF CopiesAreLongEnough, temporary
    <3>7. QED
      BY <3>5, <3>6
  <2>3. QED
    BY <2>1, <2>2
<1>9. QED
  BY <1>5, <1>6, <1>8 DEF TypeInv

-----------------------------------------------------------------------------
(* The types: the user's edits *)

(* An operation starts with the queue of the screen.                        *)
LEMMA SessionStarts ==
    ASSUME TypeInv, ~readonly, NEW s \in Sessions, session' = <<s>>, UNCHANGED report,
           readonly', editing' = "no", s.queue = queue, UNCHANGED <<cache, queue>>,
           IsInjective(s.to), s.reordered \subseteq Range(s.to), s.deleted \cap Range(s.to) = {},
           ~s.several => \A x, y \in s.reordered : x = y,
           s.kind = "move" =>
              /\ Len(table') = Len(rows')
              /\ \E m \in Range(rows') :
                    s.to = <<m>> /\ s.deleted = {} /\ s.reordered = {m},
           rows # <<>> \/ deleted \cup reordered # {}
    PROVE  OperationTyped' /\ EditsAreOfRows' /\ CopiesAreLongEnough'
<1>1. /\ session' # <<>> /\ session'[1] = s /\ report' = <<>>
      /\ UNCHANGED <<server, saved>>
  BY NothingUnderWay DEF cache
<1>2. OperationTyped'
  BY <1>1 DEF OperationTyped
<1>3. IsInjective(s.queue.movies)
  BY DEF TypeInv, ScreenTyped
<1>4. EditsAreOfRows'
  BY <1>1, <1>3 DEF EditsAreOfRows
<1>5. CopiesAreLongEnough'
  BY <1>1 DEF TypeInv, CopiesAreLongEnough
<1>6. QED
  BY <1>2, <1>4, <1>5

LEMMA FewMoved ==
    ASSUME NEW S, NEW s \in Seq(S), NEW moved \in SUBSET Range(s), ~(Cardinality(moved) > 1)
    PROVE  \A x, y \in moved : x = y
<1>1. IsFiniteSet(moved)
  BY RangeIsFinite, FS_Subset
<1>2. QED
  BY <1>1, AtMostOne

(* onSave and a deletion after a swipe start an operation in one way.       *)
LEMMA ModifyStarts ==
    ASSUME TypeInv, ~readonly, NEW list, NEW gone, NEW moved, StartSession(list, gone, moved),
           list \in Seq(Objects), IsInjective(list),
           gone \in SUBSET Objects, moved \in SUBSET Range(list), gone \cap Range(list) = {},
           rows # <<>> \/ deleted \cup reordered # {}
    PROVE  OperationTyped' /\ EditsAreOfRows' /\ CopiesAreLongEnough'
<1>1. PICK s : s = [kind |-> "modify", queue |-> queue, deleted |-> gone,
                    reordered |-> moved, to |-> list, several |-> Cardinality(moved) > 1]
  OBVIOUS
<1>2. queue \in Queues
  BY DEF TypeInv, ScreenTyped
<1>3. moved \in SUBSET Objects
  BY DEF Range
<1>4. (Cardinality(moved) > 1) \in BOOLEAN
  OBVIOUS
<1>5. s \in Sessions
  BY <1>1, <1>2, <1>3, <1>4 DEF Sessions, Kinds
<1>6. ~s.several => \A x, y \in s.reordered : x = y
  <2>1. ~s.several => ~(Cardinality(moved) > 1)
    BY <1>1
  <2>2. QED
    BY <1>1, <2>1, FewMoved
<1>7. /\ session' = <<s>> /\ readonly' /\ editing' = "no" /\ UNCHANGED <<report, cache, queue>>
  BY <1>1 DEF StartSession
<1>8. /\ s.kind = "modify" /\ s.queue = queue /\ s.to = list
      /\ s.reordered = moved /\ s.deleted = gone
  BY <1>1
<1>9. QED
  BY <1>5, <1>6, <1>7, <1>8, SessionStarts

LEMMA EditsTyped ==
    ASSUME CachesTyped, NEW list, NEW gone, NEW moved, StartSession(list, gone, moved)
    PROVE  CachesTyped'
BY DEF CachesTyped, StartSession, cache

LEMMA TouchableRow ==
    ASSUME TypeInv, NEW i \in TouchableRows
    PROVE  /\ i \in 1..Len(rows) /\ i \in 1..Len(table) /\ Len(rows) = Len(table)
           /\ rows[i] \in Objects /\ rows[i] \in Range(rows) /\ rows # <<>>
<1>1. Len(rows) = Len(table) /\ i \in DOMAIN rows
  BY DEF TouchableRows
<1>2. rows \in Seq(Objects) /\ table \in Seq(Movies)
  BY DEF TypeInv, ScreenTyped
<1>3. i \in 1..Len(rows)
  BY <1>1, <1>2
<1>4. rows[i] \in Objects /\ rows[i] \in Range(rows)
  BY <1>1, <1>2, <1>3 DEF Range
<1>5. rows # <<>>
  BY <1>2, <1>3
<1>6. QED
  BY <1>1, <1>3, <1>4, <1>5

LEMMA TypeDeleteRow ==
    ASSUME TypeInv, NEW i \in TouchableRows, DeleteRow(i)
    PROVE  TypeInv'
<1>1. CachesTyped /\ ScreenTyped /\ OperationTyped /\ EditsAreOfRows /\ CopiesAreLongEnough
  BY DEF TypeInv
<1>2. /\ i \in 1..Len(rows) /\ i \in 1..Len(table) /\ rows # <<>>
      /\ rows[i] \in Objects /\ rows[i] \in Range(rows)
  BY TouchableRow
<1>3. ~readonly /\ session = <<>> /\ report = <<>>
  BY <1>1, NothingUnderWay DEF DeleteRow, OperationTyped
<1>4. rows \in Seq(Objects) /\ IsInjective(rows) /\ table \in Seq(Movies)
  BY <1>1 DEF ScreenTyped
<1>5. PICK x : x = rows[i]
  OBVIOUS
<1>6. /\ rows' \in Seq(Objects) /\ IsInjective(rows') /\ Range(rows') = Range(rows) \ {x}
  <2>1. rows' = RemoveAt(rows, i)
    BY DEF DeleteRow
  <2>2. Loses(rows', rows, x)
    BY <1>2, <1>4, <1>5, <2>1, ShorterList
  <2>3. QED
    BY <1>2, <1>4, <2>1, <2>2, ShorterList DEF Loses
<1>7. table' \in Seq(Movies)
  BY <1>2, <1>4, RemoveAtProperties DEF DeleteRow
<1>8. deleted' = deleted \cup {x} /\ reordered' = reordered \ {x}
  BY <1>5 DEF DeleteRow
<1>9. /\ deleted' \in SUBSET Objects /\ reordered' \in SUBSET Range(rows')
      /\ deleted' \cap Range(rows') = {}
  BY <1>1, <1>2, <1>3, <1>5, <1>6, <1>8 DEF EditsAreOfRows, ScreenTyped, DeleteRow
<1>10. /\ UNCHANGED <<pulser, deferred, queue, visible, shown>>
       /\ UNCHANGED <<history, art, cache>>
  BY DEF DeleteRow, StartSession, shape
<1>11. PulserTypeOK'
  BY <1>10, Untouched
<1>12. ScreenTyped'
  <2>1. {visible', readonly'} \subseteq BOOLEAN /\ editing' \in {"no", "swipe", "edit"}
    BY <1>1 DEF ScreenTyped, DeleteRow, StartSession, shape
  <2>2. reordered' \in SUBSET Objects
    BY <1>1, <1>8 DEF ScreenTyped
  <2>3. QED
    BY <1>1, <1>6, <1>7, <1>9, <1>10, <2>1, <2>2 DEF ScreenTyped, history
<1>13. CachesTyped' /\ OperationTyped' /\ EditsAreOfRows' /\ CopiesAreLongEnough'
  <2>1. CASE editing = "swipe" /\ StartSession(rows', deleted', reordered')
    <3>1. CachesTyped'
      BY <1>1, <2>1, EditsTyped
    <3>2. QED
      BY <1>2, <1>3, <1>6, <1>9, <2>1, <3>1, ModifyStarts
  <2>2. CASE editing = "edit" /\ UNCHANGED <<shape, operation, left>>
    <3>1. UNCHANGED <<editing, readonly, session, report, server, saved>>
      BY <1>10, <2>2 DEF shape, operation, cache
    <3>2. CachesTyped'
      BY <1>10, <2>2, Untouched
    <3>3. OperationTyped'
      BY <1>1, <3>1 DEF OperationTyped
    <3>4. EditsAreOfRows'
      BY <1>3, <1>9, <2>2, <3>1 DEF EditsAreOfRows
    <3>5. CopiesAreLongEnough'
      BY <1>1, <1>2, <1>10, <3>1 DEF CopiesAreLongEnough
    <3>6. QED
      BY <3>2, <3>3, <3>4, <3>5
  <2>3. QED
    BY <2>1, <2>2 DEF DeleteRow
<1>14. QED
  BY <1>11, <1>12, <1>13 DEF TypeInv

LEMMA TypeMoveRow ==
    ASSUME TypeInv, NEW i \in TouchableRows, NEW j \in TouchableRows, MoveRow(i, j)
    PROVE  TypeInv'
<1>1. ScreenTyped /\ OperationTyped /\ EditsAreOfRows /\ CopiesAreLongEnough
  BY DEF TypeInv
<1>2. /\ i \in 1..Len(rows) /\ i \in 1..Len(table) /\ j \in 1..Len(rows)
      /\ j \in 1..Len(table) /\ rows # <<>>
      /\ rows[i] \in Objects /\ rows[i] \in Range(rows)
  BY TouchableRow
<1>3. rows \in Seq(Objects) /\ IsInjective(rows) /\ table \in Seq(Movies)
  BY <1>1 DEF ScreenTyped
<1>4. PICK x : x = rows[i]
  OBVIOUS
<1>5. rows' \in Seq(Objects) /\ IsInjective(rows') /\ Range(rows') = Range(rows)
  <2>1. rows' = MovedTo(rows, x, j)
    BY <1>2, <1>3, <1>4, IndexOfElement DEF MoveRow, MovedTo
  <2>2. x \in Objects /\ x \in Range(rows) /\ Len(rows) \in Nat
    BY <1>2, <1>3, <1>4
  <2>3. Len(Without(rows, x)) = Len(rows) - 1
    BY <1>3, <2>2, WithoutProperties
  <2>4. j \in 1..(Len(Without(rows, x)) + 1)
    BY <1>2, <2>2, <2>3
  <2>5. rows' \in Seq(Objects) /\ IsInjective(rows') /\ Gains(rows', rows, x)
    BY <1>3, <2>1, <2>2, <2>4, MovedToProperties
  <2>6. QED
    BY <2>2, <2>5 DEF Gains
<1>6. table' \in Seq(Movies)
  <2>1. PICK r : r = RemoveAt(table, i)
    OBVIOUS
  <2>2. r \in Seq(Movies) /\ Len(r) = Len(table) - 1 /\ Len(table) \in Nat
    BY <1>2, <1>3, <2>1, RemoveAtProperties
  <2>3. j \in 1..(Len(r) + 1) /\ table[i] \in Movies
    BY <1>2, <1>3, <2>2
  <2>4. table' = InsertAt(r, j, table[i])
    BY <2>1 DEF MoveRow
  <2>5. QED
    BY <2>2, <2>3, <2>4, InsertAtProperties
<1>7. /\ UNCHANGED <<pulser, cache, art, shown, left, queue, operation>>
      /\ UNCHANGED <<visible, deferred, editing, readonly, deleted, history>>
      /\ reordered' = reordered \cup {x} /\ editing = "edit"
  BY <1>4 DEF MoveRow, shape
<1>8. PulserTypeOK' /\ CachesTyped' /\ OperationTyped'
  BY <1>7, Untouched
<1>9. x \in Range(rows) /\ x \in Objects
  BY <1>2, <1>4
<1>10. ScreenTyped'
  BY <1>1, <1>5, <1>6, <1>7, <1>9 DEF ScreenTyped, history
<1>11. session' = <<>> /\ report' = <<>>
  BY <1>1, <1>7, NothingUnderWay DEF OperationTyped, operation
<1>12. EditsAreOfRows'
  BY <1>1, <1>5, <1>7, <1>9, <1>11 DEF EditsAreOfRows
<1>13. CopiesAreLongEnough'
  BY <1>1, <1>2, <1>7, <1>11 DEF CopiesAreLongEnough, cache
<1>14. QED
  BY <1>8, <1>10, <1>12, <1>13 DEF TypeInv

LEMMA TypeSaving ==
    ASSUME TypeInv, OnSave
    PROVE  TypeInv'
<1>1. CachesTyped /\ ScreenTyped /\ OperationTyped /\ EditsAreOfRows
  BY DEF TypeInv
<1>2. editing = "edit" /\ ~readonly /\ deleted \cup reordered # {}
  BY <1>1 DEF OnSave, OperationTyped
<1>3. /\ rows \in Seq(Objects) /\ IsInjective(rows) /\ deleted \in SUBSET Objects
      /\ reordered \in SUBSET Range(rows) /\ deleted \cap Range(rows) = {}
  BY <1>1, <1>2 DEF ScreenTyped, EditsAreOfRows
<1>4. StartSession(rows, deleted, reordered) /\ UNCHANGED <<rows, table, temporary>>
  BY DEF OnSave
<1>5. PulserTypeOK'
  BY <1>4, Untouched DEF StartSession
<1>6. CachesTyped'
  BY <1>1, <1>4, EditsTyped
<1>7. ScreenTyped'
  BY <1>1, <1>4 DEF ScreenTyped, StartSession, temporary, history
<1>8. OperationTyped' /\ EditsAreOfRows' /\ CopiesAreLongEnough'
  BY <1>2, <1>3, <1>4, ModifyStarts
<1>9. QED
  BY <1>5, <1>6, <1>7, <1>8 DEF TypeInv

LEMMA TypeUpArrow ==
    ASSUME TypeInv, NEW i \in TouchableRows, UpArrow(i)
    PROVE  TypeInv'
<1>1. CachesTyped /\ ScreenTyped /\ OperationTyped /\ EditsAreOfRows
  BY DEF TypeInv
<1>2. /\ Len(rows) = Len(table) /\ rows # <<>>
      /\ rows[i] \in Objects /\ rows[i] \in Range(rows)
  BY TouchableRow
<1>3. PICK x : x = rows[i]
  OBVIOUS
<1>4. PICK s : s = [kind |-> "move", queue |-> queue, deleted |-> {},
                    reordered |-> {x}, to |-> <<x>>, several |-> FALSE]
  OBVIOUS
<1>5. x \in Objects /\ x \in Range(rows)
  BY <1>2, <1>3
<1>6. <<x>> \in Seq(Objects) /\ Range(<<x>>) = {x} /\ IsInjective(<<x>>)
  BY <1>5 DEF Range, IsInjective
<1>7. queue \in Queues
  BY <1>1 DEF ScreenTyped
<1>8. s \in Sessions
  BY <1>4, <1>5, <1>6, <1>7 DEF Sessions, Kinds
<1>9. /\ s.kind = "move" /\ s.queue = queue /\ s.deleted = {} /\ s.reordered = {x}
      /\ s.to = <<x>>
  BY <1>4
<1>10. /\ session' = <<s>> /\ UNCHANGED <<report, cache, queue, rows, table>>
       /\ readonly' /\ ~readonly /\ editing' = "no"
       /\ UNCHANGED <<pulser, art, shown, visible, deferred, temporary, history>>
  BY <1>3, <1>4 DEF UpArrow, content
<1>11. PulserTypeOK'
  BY <1>10, Untouched
<1>12. CachesTyped'
  BY <1>1, <1>10 DEF CachesTyped, UpArrow, cache
<1>13. ScreenTyped'
  BY <1>1, <1>10 DEF ScreenTyped, UpArrow, temporary, history
<1>14. OperationTyped' /\ EditsAreOfRows' /\ CopiesAreLongEnough'
  <2>1. /\ IsInjective(s.to) /\ s.reordered \subseteq Range(s.to)
        /\ s.deleted \cap Range(s.to) = {}
        /\ \A y, z \in s.reordered : y = z
    BY <1>6, <1>9
  <2>2. /\ Len(table') = Len(rows')
        /\ \E m \in Range(rows') : s.to = <<m>> /\ s.deleted = {} /\ s.reordered = {m}
    BY <1>2, <1>5, <1>9, <1>10
  <2>3. QED
    BY <1>2, <1>8, <1>9, <1>10, <2>1, <2>2, SessionStarts
<1>15. QED
  BY <1>11, <1>12, <1>13, <1>14 DEF TypeInv

-----------------------------------------------------------------------------
(* The types: the operation and the server *)

LEMMA SessionUnderWay ==
    ASSUME TypeInv, session # <<>>
    PROVE  /\ session = <<session[1]>> /\ session[1] \in Sessions
           /\ readonly /\ editing = "no" /\ report = <<>>
           /\ session[1].queue \in Queues /\ session[1].queue.movies \in Seq(Objects)
           /\ IsInjective(session[1].queue.movies)
           /\ session[1].to \in Seq(Objects) /\ IsInjective(session[1].to)
           /\ session[1].reordered \subseteq Range(session[1].to)
           /\ session[1].deleted \cap Range(session[1].to) = {}
           /\ session[1].deleted \subseteq Objects /\ session[1].reordered \subseteq Objects
           /\ Len(session[1].queue.movies) >= Len(server.movies)
<1>1. session = <<session[1]>> /\ session[1] \in Sessions
  BY DEF TypeInv, OperationTyped
<1>2. readonly /\ editing = "no" /\ report = <<>>
  BY NothingUnderWay
<1>3. /\ session[1].queue \in Queues /\ session[1].to \in Seq(Objects)
      /\ session[1].deleted \subseteq Objects /\ session[1].reordered \subseteq Objects
  BY <1>1 DEF Sessions
<1>4. session[1].queue.movies \in Seq(Objects)
  BY <1>3 DEF Queues
<1>5. QED
  BY <1>1, <1>2, <1>3, <1>4 DEF TypeInv, EditsAreOfRows, CopiesAreLongEnough

LEMMA ServerDeletesTyped ==
    ASSUME CachesTyped, NEW m, ServerDeletes(m)
    PROVE  /\ server' \in [etag : Nat, movies : Orders] /\ server.etag + 1 \in Nat
           /\ Len(server'.movies) = Len(server.movies) - 1
           /\ Len(server.movies) \in Nat
<1>1. server.movies \in Orders /\ server.etag \in Nat
  BY DEF CachesTyped
<1>2. server.movies \in Seq(Movies) /\ IsInjective(server.movies)
  BY <1>1, OrdersProperties
<1>3. PICK movies : movies = Without(server.movies, m.movie)
  OBVIOUS
<1>4. /\ movies \in Seq(Movies) /\ IsInjective(movies)
      /\ Len(movies) = Len(server.movies) - 1
  BY <1>2, <1>3, WithoutProperties DEF ServerDeletes
<1>5. server' = [etag |-> server.etag + 1, movies |-> movies]
  BY <1>3 DEF ServerDeletes
<1>6. movies \in Orders
  BY <1>4, OrdersProperties
<1>7. QED
  BY <1>1, <1>2, <1>4, <1>5, <1>6

LEMMA ServerMovesTyped ==
    ASSUME CachesTyped, NEW m, NEW p \in Nat \ {0}, ServerMoves(m, p)
    PROVE  /\ server' \in [etag : Nat, movies : Orders] /\ server.etag + 1 \in Nat
           /\ Len(server'.movies) = Len(server.movies)
           /\ p <= Len(server.movies) /\ Len(server.movies) \in Nat
<1>1. server.movies \in Orders /\ server.etag \in Nat
  BY DEF CachesTyped
<1>2. server.movies \in Seq(Movies) /\ IsInjective(server.movies) /\ Len(server.movies) \in Nat
  BY <1>1, OrdersProperties
<1>3. m.movie \in Range(server.movies) /\ p <= Len(server.movies)
  BY DEF ServerMoves
<1>4. m.movie \in Movies
  BY <1>2, <1>3 DEF Range
<1>5. p \in 1..(Len(Without(server.movies, m.movie)) + 1)
  BY <1>2, <1>3, WithoutProperties
<1>6. PICK movies : movies = MovedTo(server.movies, m.movie, p)
  OBVIOUS
<1>7. /\ movies \in Seq(Movies) /\ IsInjective(movies)
      /\ Len(movies) = Len(server.movies)
  BY <1>2, <1>3, <1>4, <1>5, <1>6, MovedToProperties
<1>8. server' = [etag |-> server.etag + 1, movies |-> movies]
  BY <1>6 DEF ServerMoves
<1>9. movies \in Orders
  BY <1>7, OrdersProperties
<1>10. QED
  BY <1>1, <1>2, <1>3, <1>7, <1>8, <1>9

(* What an accepted deletion leaves to do ...                               *)
LEMMA AfterDeletion ==
    ASSUME TypeInv, session # <<>>, NEW m \in NextDeletions, ServerDeletes(m)
    PROVE  /\ Deleted(m) \in Sessions
           /\ Deleted(m).kind = session[1].kind /\ Deleted(m).to = session[1].to
           /\ Deleted(m).several = session[1].several
           /\ Deleted(m).deleted = session[1].deleted \ {m}
           /\ Deleted(m).reordered = session[1].reordered
           /\ Deleted(m).queue.movies = Without(session[1].queue.movies, m)
           /\ IsInjective(Deleted(m).queue.movies)
           /\ Len(Deleted(m).queue.movies) >= Len(server'.movies)
<1>1. PICK s : s = session[1]
  OBVIOUS
<1>2. /\ s \in Sessions /\ s.queue \in Queues /\ s.queue.movies \in Seq(Objects)
      /\ IsInjective(s.queue.movies) /\ Len(s.queue.movies) >= Len(server.movies)
  BY <1>1, SessionUnderWay
<1>3. PICK movies : movies = Without(s.queue.movies, m)
  OBVIOUS
<1>4. /\ movies \in Seq(Objects) /\ IsInjective(movies)
      /\ Len(movies) >= Len(s.queue.movies) - 1 /\ Len(s.queue.movies) \in Nat
      /\ Len(movies) \in Nat
  BY <1>2, <1>3, WithoutProperties
<1>5. /\ server.etag + 1 \in Nat /\ Len(server'.movies) = Len(server.movies) - 1
      /\ Len(server.movies) \in Nat
  BY ServerDeletesTyped DEF TypeInv
<1>6. [etag |-> server.etag + 1, movies |-> movies] \in Queues
  BY <1>4, <1>5 DEF Queues
<1>7. Deleted(m) = [s EXCEPT !.deleted = @ \ {m},
                             !.queue = [etag |-> server.etag + 1, movies |-> movies]]
  BY <1>1, <1>3 DEF Deleted
<1>8. /\ Deleted(m) \in Sessions
      /\ Deleted(m).kind = s.kind /\ Deleted(m).to = s.to /\ Deleted(m).several = s.several
      /\ Deleted(m).deleted = s.deleted \ {m} /\ Deleted(m).reordered = s.reordered
      /\ Deleted(m).queue.movies = movies
  <2>1. PICK q : q = [etag |-> server.etag + 1, movies |-> movies]
    OBVIOUS
  <2>2. q \in Queues /\ q.movies = movies
    BY <1>6, <2>1
  <2>3. PICK gone : gone = s.deleted \ {m}
    OBVIOUS
  <2>4. gone \in SUBSET Objects
    BY <1>2, <2>3 DEF Sessions
  <2>5. Deleted(m) = [s EXCEPT !.deleted = gone, !.queue = q]
    BY <1>7, <2>1, <2>3
  <2>6. QED
    BY <1>2, <2>2, <2>3, <2>4, <2>5 DEF Sessions
<1>9. Len(movies) >= Len(server'.movies)
  BY <1>2, <1>4, <1>5
<1>10. QED
  BY <1>1, <1>3, <1>4, <1>8, <1>9

(* ... and what a move leaves.  Its place is one that the copy has, since   *)
(* the server has it.                                                       *)
LEMMA AfterMove ==
    ASSUME TypeInv, session # <<>>, NEW m \in NextMoves,
           NEW p, p = Index(session[1].to, m), ServerMoves(m, p)
    PROVE  /\ p \in 1..(Len(Without(session[1].queue.movies, m)) + 1)
           /\ Moved(m, p) \in Sessions
           /\ Moved(m, p).kind = session[1].kind /\ Moved(m, p).to = session[1].to
           /\ Moved(m, p).several = session[1].several
           /\ Moved(m, p).deleted = session[1].deleted
           /\ Moved(m, p).reordered = session[1].reordered \ {m}
           /\ Moved(m, p).queue.movies = MovedTo(session[1].queue.movies, m, p)
           /\ IsInjective(Moved(m, p).queue.movies)
           /\ Gains(Moved(m, p).queue.movies, session[1].queue.movies, m)
           /\ Len(Moved(m, p).queue.movies) >= Len(server'.movies)
           /\ server' \in [etag : Nat, movies : Orders]
           /\ Len(server'.movies) = Len(server.movies)
<1>1. PICK s : s = session[1]
  OBVIOUS
<1>2. /\ s \in Sessions /\ s.queue \in Queues /\ s.queue.movies \in Seq(Objects)
      /\ IsInjective(s.queue.movies) /\ Len(s.queue.movies) >= Len(server.movies)
      /\ s.to \in Seq(Objects) /\ IsInjective(s.to) /\ s.reordered \subseteq Range(s.to)
      /\ s.reordered \subseteq Objects
  BY <1>1, SessionUnderWay
<1>3. m \in s.reordered
  BY <1>1 DEF NextMoves
<1>4. p \in 1..Len(s.to)
  BY <1>1, <1>2, <1>3, IndexIn
<1>5. p \in Nat \ {0} /\ m \in Objects
  BY <1>2, <1>3, <1>4
<1>6. /\ server' \in [etag : Nat, movies : Orders] /\ server.etag + 1 \in Nat
      /\ Len(server'.movies) = Len(server.movies)
      /\ p <= Len(server.movies) /\ Len(server.movies) \in Nat
  BY <1>5, ServerMovesTyped DEF TypeInv
<1>7. Len(Without(s.queue.movies, m)) >= Len(s.queue.movies) - 1 /\ Len(s.queue.movies) \in Nat
      /\ Len(Without(s.queue.movies, m)) \in Nat
  BY <1>2, WithoutProperties
<1>8. p \in 1..(Len(Without(s.queue.movies, m)) + 1)
  BY <1>2, <1>5, <1>6, <1>7
<1>9. PICK movies : movies = MovedTo(s.queue.movies, m, p)
  OBVIOUS
<1>10. /\ movies \in Seq(Objects) /\ IsInjective(movies) /\ Gains(movies, s.queue.movies, m)
       /\ Len(movies) >= Len(s.queue.movies) /\ Len(movies) \in Nat
  <2>1. PICK q : q = s.queue.movies
    OBVIOUS
  <2>2. q \in Seq(Objects) /\ IsInjective(q) /\ p \in 1..(Len(Without(q, m)) + 1)
    BY <1>2, <1>8, <2>1
  <2>3. /\ movies \in Seq(Objects) /\ IsInjective(movies) /\ Gains(movies, q, m)
        /\ Len(movies) = IF m \in Range(q) THEN Len(q) ELSE Len(q) + 1
    <3>1. m \in Objects /\ movies = MovedTo(q, m, p)
      BY <1>5, <1>9, <2>1
    <3>2. /\ MovedTo(q, m, p) \in Seq(Objects) /\ IsInjective(MovedTo(q, m, p))
          /\ Gains(MovedTo(q, m, p), q, m)
      BY <2>2, <3>1, MovedToProperties
    <3>3. Len(MovedTo(q, m, p)) = IF m \in Range(q) THEN Len(q) ELSE Len(q) + 1
      BY <2>2, <3>1, MovedToProperties
    <3>4. QED
      BY <3>1, <3>2, <3>3
  <2>4. QED
    BY <1>7, <2>1, <2>3
<1>11. [etag |-> server.etag + 1, movies |-> movies] \in Queues
  BY <1>6, <1>10 DEF Queues
<1>12. Moved(m, p) = [s EXCEPT !.reordered = @ \ {m},
                               !.queue = [etag |-> server.etag + 1, movies |-> movies]]
  BY <1>1, <1>9 DEF Moved
<1>13. /\ Moved(m, p) \in Sessions
       /\ Moved(m, p).kind = s.kind /\ Moved(m, p).to = s.to /\ Moved(m, p).several = s.several
       /\ Moved(m, p).deleted = s.deleted /\ Moved(m, p).reordered = s.reordered \ {m}
       /\ Moved(m, p).queue.movies = movies
  <2>1. PICK q : q = [etag |-> server.etag + 1, movies |-> movies]
    OBVIOUS
  <2>2. q \in Queues /\ q.movies = movies
    BY <1>11, <2>1
  <2>3. PICK rest : rest = s.reordered \ {m}
    OBVIOUS
  <2>4. rest \in SUBSET Objects
    BY <1>2, <2>3
  <2>5. Moved(m, p) = [s EXCEPT !.reordered = rest, !.queue = q]
    BY <1>12, <2>1, <2>3
  <2>6. QED
    BY <1>2, <2>2, <2>3, <2>4, <2>5 DEF Sessions
<1>14. Len(movies) >= Len(server'.movies)
  BY <1>2, <1>6, <1>7, <1>10
<1>15. QED
  BY <1>1, <1>6, <1>8, <1>9, <1>10, <1>13, <1>14

(* A session that has nothing left to do saves its queue and reports; one   *)
(* that moves a row to the top does so after its only request.              *)
LEMMA GoingOnTyped ==
    ASSUME TypeInv, session # <<>>, NEW t \in Sessions, GoOn(t),
           t.kind = session[1].kind, t.to = session[1].to, t.several = session[1].several,
           t.deleted \subseteq session[1].deleted, t.reordered \subseteq session[1].reordered,
           t.kind = "move" => t.deleted \cup t.reordered = {},
           IsInjective(t.queue.movies), Len(t.queue.movies) >= Len(server'.movies),
           server' \in [etag : Nat, movies : Orders],
           Len(server'.movies) <= Len(server.movies),
           UNCHANGED <<pulser, art, shape, deferred, content, temporary, history, left>>
    PROVE  TypeInv'
<1>1. PICK s : s = session[1]
  OBVIOUS
<1>2. CachesTyped /\ ScreenTyped /\ EditsAreOfRows /\ CopiesAreLongEnough
  BY DEF TypeInv
<1>3. /\ session = <<s>> /\ readonly /\ editing = "no" /\ report = <<>>
      /\ s \in Sessions /\ IsInjective(s.to) /\ s.reordered \subseteq Range(s.to)
      /\ s.deleted \cap Range(s.to) = {}
  BY <1>1, SessionUnderWay
<1>4. /\ UNCHANGED <<visible, editing, readonly, queue, rows, table, shown, deleted, reordered>>
      /\ t.queue \in Queues
  BY DEF shape, content, temporary, Sessions
<1>5. saved' \in Queues /\ IsInjective(saved'.movies) /\ Len(saved'.movies) >= Len(server'.movies)
  <2>1. saved' \in {saved, t.queue}
    BY DEF GoOn
  <2>2. server'.movies \in Orders /\ server.movies \in Orders /\ saved.movies \in Seq(Objects)
    BY <1>2 DEF CachesTyped, Queues
  <2>3. Len(server'.movies) \in Nat /\ Len(server.movies) \in Nat /\ Len(saved.movies) \in Nat
    BY <2>2, OrdersProperties
  <2>4. saved \in Queues /\ IsInjective(saved.movies) /\ Len(saved.movies) >= Len(server'.movies)
    BY <1>2, <2>3 DEF CachesTyped, CopiesAreLongEnough
  <2>5. QED
    BY <1>4, <2>1, <2>4
<1>6. PulserTypeOK' /\ ScreenTyped'
  BY <1>4, Untouched
<1>7. CachesTyped'
  BY <1>2, <1>4, <1>5 DEF CachesTyped
<1>8. Len(queue.movies) >= Len(server'.movies) \/ (rows = <<>> /\ deleted = {} /\ reordered = {})
  <2>1. server'.movies \in Orders /\ server.movies \in Orders /\ queue.movies \in Seq(Objects)
    BY <1>2 DEF CachesTyped, ScreenTyped, Queues
  <2>2. Len(server'.movies) \in Nat /\ Len(server.movies) \in Nat /\ Len(queue.movies) \in Nat
    BY <2>1, OrdersProperties
  <2>3. QED
    BY <1>2, <2>2 DEF CopiesAreLongEnough
<1>9. CASE t.deleted \cup t.reordered = {}
  <2>1. PICK r : r = [kind |-> s.kind, ok |-> TRUE, to |-> s.to, several |-> s.several]
    OBVIOUS
  <2>2. session' = <<>> /\ report' = <<r>> /\ saved' = t.queue
    BY <1>1, <1>9, <2>1 DEF GoOn, Report
  <2>3. r \in Results /\ r.kind = s.kind /\ r.to = s.to
    BY <1>3, <2>1 DEF Results, Sessions
  <2>4. report' # <<>> /\ report'[1] = r
    BY <2>2
  <2>5. OperationTyped'
    BY <1>3, <1>4, <2>2, <2>3, <2>4 DEF OperationTyped
  <2>6. EditsAreOfRows'
    BY <1>1, <1>2, <1>3, <1>4, <2>2, <2>3, <2>4 DEF EditsAreOfRows
  <2>7. CopiesAreLongEnough'
    BY <1>4, <1>5, <1>8, <2>2 DEF CopiesAreLongEnough
  <2>8. QED
    BY <1>6, <1>7, <2>5, <2>6, <2>7 DEF TypeInv
<1>10. CASE t.deleted \cup t.reordered # {}
  <2>1. session' = <<t>> /\ report' = <<>>
    BY <1>3, <1>10 DEF GoOn
  <2>2. session' # <<>> /\ session'[1] = t
    BY <2>1
  <2>3. OperationTyped'
    BY <1>3, <1>4, <2>1, <2>2 DEF OperationTyped
  <2>4. t.kind # "move"
    BY <1>10
  <2>5. /\ IsInjective(t.to) /\ t.reordered \subseteq Range(t.to)
        /\ t.deleted \cap Range(t.to) = {}
        /\ ~t.several => \A x, y \in t.reordered : x = y
    BY <1>1, <1>2, <1>3 DEF EditsAreOfRows
  <2>6. EditsAreOfRows'
    BY <1>3, <1>4, <2>1, <2>2, <2>4, <2>5 DEF EditsAreOfRows
  <2>7. CopiesAreLongEnough'
    BY <1>4, <1>5, <1>8, <2>1, <2>2 DEF CopiesAreLongEnough
  <2>8. QED
    BY <1>6, <1>7, <2>3, <2>6, <2>7 DEF TypeInv
<1>11. QED
  BY <1>9, <1>10

(* A session of the kind "move" has one request, which moves its movie.     *)
LEMMA MovesToTop ==
    ASSUME TypeInv, session # <<>>, session[1].kind = "move"
    PROVE  /\ NextDeletions = {}
           /\ Len(table) = Len(rows)
           /\ \E m \in Range(rows) :
                 session[1].to = <<m>> /\ session[1].deleted = {} /\ session[1].reordered = {m}
BY DEF TypeInv, EditsAreOfRows, NextDeletions

LEMMA TypeRequestAccepted ==
    ASSUME TypeInv, RequestAccepted
    PROVE  TypeInv'
<1>1. session # <<>> /\ CachesTyped
  BY DEF RequestAccepted, TypeInv
<1>2. UNCHANGED <<pulser, art, shape, deferred, content, temporary, history, left>>
  BY DEF RequestAccepted
<1>3. ASSUME NEW m \in NextDeletions, ServerDeletes(m), GoOn(Deleted(m))
      PROVE  TypeInv'
  <2>1. PICK t : t = Deleted(m)
    OBVIOUS
  <2>2. /\ t \in Sessions /\ t.kind = session[1].kind /\ t.to = session[1].to
        /\ t.several = session[1].several /\ t.deleted = session[1].deleted \ {m}
        /\ t.reordered = session[1].reordered
        /\ IsInjective(t.queue.movies) /\ Len(t.queue.movies) >= Len(server'.movies)
    BY <1>1, <1>3, <2>1, AfterDeletion
  <2>3. /\ server' \in [etag : Nat, movies : Orders]
        /\ Len(server'.movies) <= Len(server.movies)
    BY <1>1, <1>3, ServerDeletesTyped
  <2>4. t.kind # "move"
    BY <1>1, <1>3, <2>2, MovesToTop
  <2>5. GoOn(t)
    BY <1>3, <2>1
  <2>6. QED
    BY <1>1, <1>2, <2>2, <2>3, <2>4, <2>5, GoingOnTyped
<1>4. ASSUME NEW m \in NextMoves, ServerMoves(m, Index(session[1].to, m)),
             GoOn(Moved(m, Index(session[1].to, m)))
      PROVE  TypeInv'
  <2>1. PICK p : p = Index(session[1].to, m)
    OBVIOUS
  <2>2. PICK t : t = Moved(m, p)
    OBVIOUS
  <2>3. ServerMoves(m, p) /\ GoOn(t)
    BY <1>4, <2>1, <2>2
  <2>4. /\ t \in Sessions /\ t.kind = session[1].kind /\ t.to = session[1].to
        /\ t.several = session[1].several /\ t.deleted = session[1].deleted
        /\ t.reordered = session[1].reordered \ {m}
        /\ IsInjective(t.queue.movies) /\ Len(t.queue.movies) >= Len(server'.movies)
        /\ server' \in [etag : Nat, movies : Orders]
        /\ Len(server'.movies) = Len(server.movies)
    BY <1>1, <2>1, <2>2, <2>3, AfterMove
  <2>5. Len(server'.movies) <= Len(server.movies)
    <3>1. server.movies \in Orders
      BY <1>1 DEF CachesTyped
    <3>2. Len(server.movies) \in Nat
      BY <3>1, OrdersProperties
    <3>3. QED
      BY <2>4, <3>2
  <2>6. t.kind = "move" => t.deleted \cup t.reordered = {}
    BY <1>1, <2>4, MovesToTop DEF NextMoves
  <2>7. QED
    BY <1>1, <1>2, <2>3, <2>4, <2>5, <2>6, GoingOnTyped
<1>5. QED
  BY <1>3, <1>4 DEF RequestAccepted

LEMMA TypeRequestFails ==
    ASSUME TypeInv, RequestFails
    PROVE  TypeInv'
<1>1. PICK s : s = session[1]
  OBVIOUS
<1>2. CachesTyped /\ ScreenTyped /\ EditsAreOfRows /\ CopiesAreLongEnough /\ session # <<>>
  BY DEF TypeInv, RequestFails
<1>3. /\ session = <<s>> /\ readonly /\ editing = "no" /\ report = <<>>
      /\ s \in Sessions /\ s.queue \in Queues /\ IsInjective(s.queue.movies)
      /\ Len(s.queue.movies) >= Len(server.movies)
      /\ s.to \in Seq(Objects) /\ IsInjective(s.to) /\ s.reordered \subseteq Range(s.to)
  BY <1>1, <1>2, SessionUnderWay
<1>4. /\ UNCHANGED <<pulser, art, shape, deferred, content, temporary, history>>
      /\ UNCHANGED <<visible, editing, readonly, queue, rows, table, shown, deleted, reordered>>
  BY DEF RequestFails, shape, content, temporary
<1>5. PICK r : r = [kind |-> s.kind, ok |-> FALSE, to |-> s.to, several |-> s.several]
  OBVIOUS
<1>6. /\ session' = <<>> /\ report' = <<r>> /\ report' # <<>> /\ report'[1] = r
      /\ saved' \in {saved, s.queue}
  BY <1>1, <1>5 DEF RequestFails, Report
<1>7. r \in Results /\ r.kind = s.kind /\ r.to = s.to
  BY <1>3, <1>5 DEF Results, Sessions
<1>8. server.movies \in Orders /\ server \in [etag : Nat, movies : Orders]
      /\ left \in [edits : Nat, outside : 0..MaxOutside]
  BY <1>2 DEF CachesTyped
<1>9. Len(server.movies) \in Nat
  BY <1>8, OrdersProperties
<1>10. /\ server' \in [etag : Nat, movies : Orders] /\ Len(server'.movies) <= Len(server.movies)
       /\ left' \in [edits : Nat, outside : 0..MaxOutside]
       /\ left'.outside <= left.outside
  <2>1. CASE UNCHANGED <<server, left>>
    BY <1>8, <1>9, <2>1
  <2>2. CASE Outside /\ \E m \in NextDeletions : ServerDeletes(m)
    <3>1. left' \in [edits : Nat, outside : 0..MaxOutside] /\ left'.outside = left.outside - 1
      BY <1>2, <2>2, OutsideTyped
    <3>2. /\ server' \in [etag : Nat, movies : Orders]
          /\ Len(server'.movies) = Len(server.movies) - 1
      BY <1>2, <2>2, ServerDeletesTyped
    <3>3. QED
      BY <1>8, <1>9, <3>1, <3>2
  <2>3. CASE Outside /\ \E m \in NextMoves : ServerMoves(m, Index(session[1].to, m))
    <3>1. left' \in [edits : Nat, outside : 0..MaxOutside] /\ left'.outside = left.outside - 1
      BY <1>2, <2>3, OutsideTyped
    <3>2. PICK m \in NextMoves : ServerMoves(m, Index(s.to, m))
      BY <1>1, <2>3
    <3>3. m \in Range(s.to)
      BY <1>1, <1>3 DEF NextMoves
    <3>4. PICK p : p = Index(s.to, m)
      OBVIOUS
    <3>5. p \in 1..Len(s.to)
      BY <1>3, <3>3, <3>4, IndexIn
    <3>6. p \in Nat \ {0} /\ ServerMoves(m, p)
      BY <3>2, <3>4, <3>5
    <3>7. /\ server' \in [etag : Nat, movies : Orders]
          /\ Len(server'.movies) = Len(server.movies)
      BY <1>2, <3>6, ServerMovesTyped
    <3>8. QED
      BY <1>8, <1>9, <3>1, <3>7
  <2>4. QED
    BY <2>1, <2>2, <2>3 DEF RequestFails
<1>11. PulserTypeOK' /\ ScreenTyped'
  BY <1>4, Untouched
<1>12. server'.movies \in Orders
  BY <1>10
<1>13. Len(server'.movies) \in Nat
  BY <1>12, OrdersProperties
<1>14. Len(saved.movies) \in Nat /\ Len(queue.movies) \in Nat /\ Len(s.queue.movies) \in Nat
  <2>1. /\ saved.movies \in Seq(Objects) /\ queue.movies \in Seq(Objects)
        /\ s.queue.movies \in Seq(Objects)
    BY <1>2, <1>3 DEF CachesTyped, ScreenTyped, Queues
  <2>2. QED
    BY <2>1
<1>15. CachesTyped'
  <2>1. saved' \in Queues /\ IsInjective(saved'.movies)
    BY <1>2, <1>3, <1>6 DEF CachesTyped
  <2>2. /\ art' \in Nat /\ shown' \in 0..MaxOutside
        /\ art' + left'.outside <= MaxOutside
    BY <1>2, <1>4, <1>8, <1>10, QueueScreenAssumption DEF CachesTyped
  <2>3. QED
    BY <1>10, <2>1, <2>2 DEF CachesTyped
<1>16. OperationTyped'
  BY <1>3, <1>4, <1>6, <1>7 DEF OperationTyped
<1>17. EditsAreOfRows'
  BY <1>1, <1>2, <1>3, <1>4, <1>6, <1>7 DEF EditsAreOfRows
<1>18. CopiesAreLongEnough'
  BY <1>2, <1>3, <1>4, <1>6, <1>9, <1>10, <1>13, <1>14 DEF CopiesAreLongEnough
<1>19. QED
  BY <1>11, <1>15, <1>16, <1>17, <1>18 DEF TypeInv

-----------------------------------------------------------------------------
(* The types: the reports *)

LEMMA ReportedMove ==
    ASSUME TypeInv, report # <<>>, report[1].kind = "move"
    PROVE  \E m \in Range(rows) : report[1].to = <<m>> /\ Len(table) = Len(rows)
BY DEF TypeInv, EditsAreOfRows

LEMMA AfterReport ==
    ASSUME TypeInv, report # <<>>, ExitReadonlyMode, UNCHANGED session
    PROVE  /\ session' = <<>> /\ report' = <<>> /\ ~readonly' /\ editing' = "no"
           /\ deleted' = {} /\ reordered' = {}
           /\ OperationTyped' /\ EditsAreOfRows'
<1>1. /\ session' = <<>> /\ report' = <<>> /\ ~readonly' /\ editing' = "no"
      /\ deleted' = {} /\ reordered' = {} /\ readonly' = FALSE
  BY NothingUnderWay DEF ExitReadonlyMode
<1>2. OperationTyped'
  BY <1>1 DEF OperationTyped
<1>3. EditsAreOfRows'
  BY <1>1 DEF EditsAreOfRows
<1>4. QED
  BY <1>1, <1>2, <1>3

LEMMA RowToTop ==
    ASSUME TypeInv, report # <<>>, report[1].kind = "move", MoveSucceeded
    PROVE  /\ report[1].to[1] \in Range(rows)
           /\ rows' = MovedTo(rows, report[1].to[1], 1)
           /\ rows' \in Seq(Objects) /\ IsInjective(rows') /\ Range(rows') = Range(rows)
           /\ table' = InsertAt(RemoveAt(table, Index(rows, report[1].to[1])), 1,
                                table[Index(rows, report[1].to[1])])
           /\ table' \in Seq(Movies)
<1>1. rows \in Seq(Objects) /\ IsInjective(rows) /\ table \in Seq(Movies)
  BY DEF TypeInv, ScreenTyped
<1>2. PICK x \in Range(rows) : report[1].to = <<x>> /\ Len(table) = Len(rows)
  BY ReportedMove
<1>3. x = report[1].to[1] /\ x \in Objects
  BY <1>1, <1>2 DEF Range
<1>4. PICK i : i = Index(rows, x)
  OBVIOUS
<1>5. i \in 1..Len(rows) /\ rows[i] = x /\ Without(rows, x) = RemoveAt(rows, i)
  BY <1>1, <1>2, <1>4, IndexIn
<1>6. /\ rows' = InsertAt(RemoveAt(rows, i), 1, rows[i])
      /\ table' = InsertAt(RemoveAt(table, i), 1, table[i])
  BY <1>3, <1>4 DEF MoveSucceeded
<1>7. rows' = MovedTo(rows, x, 1)
  BY <1>5, <1>6 DEF MovedTo
<1>8. Len(Without(rows, x)) = Len(rows) - 1 /\ Len(rows) \in Nat
  BY <1>1, <1>2, WithoutProperties
<1>9. 1 \in 1..(Len(Without(rows, x)) + 1)
  BY <1>5, <1>8
<1>10. rows' \in Seq(Objects) /\ IsInjective(rows') /\ Gains(rows', rows, x)
  BY <1>1, <1>3, <1>7, <1>9, MovedToProperties
<1>11. table' \in Seq(Movies)
  <2>1. PICK r : r = RemoveAt(table, i)
    OBVIOUS
  <2>2. i \in 1..Len(table) /\ table[i] \in Movies
    BY <1>1, <1>2, <1>5
  <2>3. r \in Seq(Movies) /\ Len(r) = Len(table) - 1 /\ Len(table) \in Nat
    BY <1>1, <2>1, <2>2, RemoveAtProperties
  <2>4. 1 \in 1..(Len(r) + 1)
    BY <2>2, <2>3
  <2>5. table' = InsertAt(r, 1, table[i])
    BY <1>6, <2>1
  <2>6. QED
    BY <2>2, <2>3, <2>4, <2>5, InsertAtProperties
<1>12. Range(rows') = Range(rows)
  BY <1>10 DEF Gains
<1>13. QED
  BY <1>3, <1>4, <1>6, <1>7, <1>10, <1>11, <1>12

LEMMA TypeSucceeded ==
    ASSUME TypeInv, MoveSucceeded \/ ModifySucceeded
    PROVE  TypeInv'
<1>1. CachesTyped /\ ScreenTyped /\ CopiesAreLongEnough /\ report # <<>>
  BY DEF TypeInv, MoveSucceeded, ModifySucceeded
<1>2. /\ ExitReadonlyMode /\ queue' = saved
      /\ UNCHANGED <<pulser, cache, art, deferred, shown, session, left, refused, overtaken>>
      /\ UNCHANGED visible
  BY DEF MoveSucceeded, ModifySucceeded, ExitReadonlyMode
<1>3. /\ session' = <<>> /\ report' = <<>> /\ ~readonly' /\ editing' = "no"
      /\ deleted' = {} /\ reordered' = {}
      /\ OperationTyped' /\ EditsAreOfRows'
  BY <1>1, <1>2, AfterReport
<1>4. PulserTypeOK' /\ CachesTyped'
  BY <1>2, Untouched
<1>5. saved \in Queues /\ IsInjective(saved.movies) /\ saved.movies \in Seq(Objects)
  BY <1>1 DEF CachesTyped, Queues
<1>6. rows' \in Seq(Objects) /\ IsInjective(rows') /\ table' \in Seq(Movies)
  <2>1. CASE MoveSucceeded
    <3>1. report # <<>> /\ report[1].kind = "move"
      BY <2>1 DEF MoveSucceeded
    <3>2. QED
      BY <2>1, <3>1, RowToTop
  <2>2. CASE ModifySucceeded
    BY <1>1, <1>5, <2>2 DEF ModifySucceeded, ScreenTyped
  <2>3. QED
    BY <2>1, <2>2
<1>7. {lost', disordered'} \subseteq BOOLEAN
  <2>1. report[1].several \in BOOLEAN
    BY <1>1 DEF TypeInv, OperationTyped, Results
  <2>2. QED
    BY <1>1, <2>1 DEF ScreenTyped, MoveSucceeded, ModifySucceeded
<1>8. readonly' \in BOOLEAN
  BY <1>2 DEF ExitReadonlyMode
<1>9. ScreenTyped'
  BY <1>1, <1>2, <1>3, <1>5, <1>6, <1>7, <1>8 DEF ScreenTyped
<1>10. CopiesAreLongEnough'
  BY <1>1, <1>2, <1>3 DEF CopiesAreLongEnough, cache
<1>11. QED
  BY <1>3, <1>4, <1>9, <1>10 DEF TypeInv

LEMMA TypeFailed ==
    ASSUME TypeInv, OnModifyFailure
    PROVE  TypeInv'
<1>1. ScreenTyped /\ report # <<>>
  BY DEF TypeInv, OnModifyFailure
<1>2. /\ ExitReadonlyMode /\ Refresh /\ UNCHANGED <<pulser, cache, art, session, left>>
  BY DEF OnModifyFailure, Refresh
<1>3. /\ session' = <<>> /\ report' = <<>> /\ ~readonly' /\ editing' = "no"
      /\ deleted' = {} /\ reordered' = {}
      /\ OperationTyped' /\ EditsAreOfRows'
  BY <1>1, <1>2, AfterReport
<1>4. PulserTypeOK'
  BY <1>2, Untouched
<1>5. CachesTyped' /\ ScreenTyped'
  <2>1. {visible', readonly'} \subseteq BOOLEAN /\ {deleted', reordered'} \subseteq SUBSET Objects
    BY <1>1, <1>2, <1>3 DEF ScreenTyped, ExitReadonlyMode
  <2>2. QED
    BY <1>2, <1>3, <2>1, RefreshTyped
<1>6. CopiesAreLongEnough'
  BY <1>2, <1>3, RefreshCopies
<1>7. QED
  BY <1>3, <1>4, <1>5, <1>6 DEF TypeInv

LEMMA TypeStutter == ASSUME TypeInv, UNCHANGED vars PROVE TypeInv'
<1>1. /\ UNCHANGED <<pulser, cache, art, shape, deferred, content, temporary, operation,
                     history, left>>
      /\ UNCHANGED <<shown, queue, rows, table, readonly, editing, session>>
  BY DEF vars, content, shape, operation
<1>2. QED
  BY <1>1, Untouched DEF TypeInv

LEMMA TypeStep == ASSUME TypeInv, [Next]_vars PROVE TypeInv'
<1>1. CASE Appear \/ PerformDeferred \/ Pulse
  BY <1>1, TypeRefreshing
<1>2. CASE Disappear \/ StartSwipe \/ CancelSwipe \/ OnEdit
  BY <1>2, TypeShowing
<1>3. CASE SaveArt \/ PulserStep
  BY <1>3, TypeAround
<1>4. CASE OnCancel
  BY <1>4, TypeCancelling
<1>5. CASE OnSave
  BY <1>5, TypeSaving
<1>6. ASSUME NEW i \in TouchableRows,
             DeleteRow(i) \/ UpArrow(i) \/ \E j \in TouchableRows : MoveRow(i, j)
      PROVE  TypeInv'
  BY <1>6, TypeDeleteRow, TypeUpArrow, TypeMoveRow
<1>7. CASE OperationStep
  BY <1>7, TypeRequestAccepted, TypeRequestFails DEF OperationStep
<1>8. CASE Download \/ ForeignChange
  BY <1>8, TypeForeign
<1>9. CASE HandleReport
  BY <1>9, TypeSucceeded, TypeFailed DEF HandleReport
<1>10. CASE UNCHANGED vars
  BY <1>10, TypeStutter
<1>11. QED
  BY <1>1, <1>2, <1>3, <1>4, <1>5, <1>6, <1>7, <1>8, <1>9, <1>10 DEF Next

(* The types, and what ties the fields of the screen to the operation: it   *)
(* moves rows that are there, and no copy has fewer movies than the server, *)
(* so that every place that the server has is one in the copy.              *)
THEOREM TypeInvariant == Spec => []TypeInv
BY TypeInit, TypeStep, PTL DEF Spec

LEMMA TypeInvImplies == ASSUME TypeInv PROVE TypeOK
<1>1. CachesTyped /\ ScreenTyped /\ OperationTyped
  BY DEF TypeInv
<1>2. art \in 0..MaxOutside
  BY <1>1, QueueScreenAssumption DEF CachesTyped
<1>3. readonly <=> Len(session) + Len(report) = 1
  <2>1. CASE session # <<>>
    <3>1. session = <<session[1]>> /\ report = <<>> /\ readonly
      BY <1>1, <2>1, NothingUnderWay DEF OperationTyped
    <3>2. Len(session) = 1 /\ Len(report) = 0
      BY <3>1
    <3>3. QED
      BY <3>1, <3>2
  <2>2. CASE report # <<>>
    <3>1. report = <<report[1]>> /\ session = <<>> /\ readonly
      BY <1>1, <2>2, NothingUnderWay DEF OperationTyped
    <3>2. Len(session) = 0 /\ Len(report) = 1
      BY <3>1
    <3>3. QED
      BY <3>1, <3>2
  <2>3. CASE session = <<>> /\ report = <<>>
    <3>1. ~readonly
      BY <1>1, <2>3 DEF OperationTyped
    <3>2. QED
      BY <2>3, <3>1
  <2>4. QED
    BY <2>1, <2>2, <2>3
<1>4. ASSUME NEW s \in Range(session) PROVE s.kind \in Kinds /\ s.queue \in Queues
  <2>1. session # <<>>
    BY DEF Range
  <2>2. session = <<session[1]>> /\ session[1] \in Sessions
    BY <1>1, <2>1 DEF OperationTyped
  <2>3. s = session[1]
    BY <2>2 DEF Range
  <2>4. QED
    BY <2>2, <2>3 DEF Sessions
<1>5. ASSUME NEW r \in Range(report) PROVE r.kind \in Kinds /\ r.ok \in BOOLEAN
  <2>1. report # <<>>
    BY DEF Range
  <2>2. report = <<report[1]>> /\ report[1] \in Results
    BY <1>1, <2>1 DEF OperationTyped
  <2>3. r = report[1]
    BY <2>2 DEF Range
  <2>4. QED
    BY <2>2, <2>3 DEF Results
<1>6. QED
  BY <1>1, <1>2, <1>3, <1>4, <1>5 DEF TypeInv, TypeOK, CachesTyped, ScreenTyped

(* At all times the variables have their types, and the rows are read-only  *)
(* exactly while one operation is under way or its result is.               *)
THEOREM TypeCorrect == Spec => []TypeOK
BY TypeInvariant, TypeInvImplies, PTL

-----------------------------------------------------------------------------
(* No movie is saved twice *)

LEMMA OnceWithin ==
    ASSUME NEW s \in Seq(Objects), NEW t \in Seq(Objects), IsInjective(Ids(s)),
           IsInjective(t), Range(t) \subseteq Range(s)
    PROVE  IsInjective(Ids(t))
<1>1. NoTwins(Range(s))
  BY IdsInjective
<1>2. NoTwins(Range(t))
  BY <1>1 DEF NoTwins
<1>3. QED
  BY <1>2, IdsInjective

LEMMA OnceInit == ASSUME Init PROVE OnceInv
<1>1. server.movies \in Seq(Movies) /\ IsInjective(server.movies)
  BY TypeInit, OrdersProperties DEF TypeInv, CachesTyped
<1>2. 0 \in 0..MaxOutside
  BY QueueScreenAssumption
<1>3. Ids(Made(server.movies, 0)) = server.movies
  BY <1>1, <1>2, MadeProperties
<1>4. Once(saved)
  BY <1>1, <1>3 DEF Init, Once
<1>5. Once(queue) /\ Range(rows) = {}
  BY DEF Init, Once, Ids, IsInjective, Range
<1>6. QED
  BY <1>4, <1>5 DEF Init, OnceInv, RowsOfQueue

LEMMA OvertakenStays == ASSUME overtaken, [Next]_vars PROVE overtaken'
<1>1. CASE Refresh
  BY <1>1 DEF Refresh, MajorRefresh, ReloadTableViewData, Reload, history
<1>2. CASE Appear \/ PerformDeferred \/ Pulse \/ OnCancel \/ OnModifyFailure
  BY <1>1, <1>2 DEF Appear, PerformDeferred, Pulse, OnCancel, OnModifyFailure, Refresh
<1>3. CASE OperationStep
  BY <1>3 DEF OperationStep, RequestAccepted, RequestFails, history
<1>4. CASE Download
  BY <1>4 DEF Download
<1>5. CASE MoveSucceeded \/ ModifySucceeded
  BY <1>5 DEF MoveSucceeded, ModifySucceeded
<1>6. ASSUME NEW i \in TouchableRows,
             DeleteRow(i) \/ UpArrow(i) \/ \E j \in TouchableRows : MoveRow(i, j)
      PROVE  overtaken'
  BY <1>6 DEF DeleteRow, StartSession, UpArrow, MoveRow, history
<1>7. CASE \/ Disappear \/ SaveArt \/ PulserStep \/ StartSwipe \/ CancelSwipe \/ OnEdit
           \/ OnSave \/ ForeignChange \/ UNCHANGED vars
  BY <1>7 DEF Disappear, SaveArt, PulserStep, StartSwipe, CancelSwipe, OnEdit, OnSave,
     StartSession, ForeignChange, vars, history
<1>8. QED
  BY <1>2, <1>3, <1>4, <1>5, <1>6, <1>7 DEF Next, HandleReport

(* A refresh loads the queue of the cache, and that only with no operation  *)
(* under way.                                                               *)
LEMMA OnceRefreshing ==
    ASSUME TypeInv, RowsOfQueue, Refresh, UNCHANGED saved, TypeInv',
           UNCHANGED operation \/ (session' = <<>> /\ report' = <<>>)
    PROVE  RowsOfQueue'
<1>1. CASE UNCHANGED content
  <2>1. UNCHANGED <<queue, rows, saved>>
    BY <1>1 DEF content
  <2>2. CASE UNCHANGED operation
    BY <2>1, <2>2 DEF RowsOfQueue, Once, operation
  <2>3. CASE session' = <<>> /\ report' = <<>>
    BY <2>1, <2>3 DEF RowsOfQueue, Once
  <2>4. QED
    BY <2>2, <2>3
<1>2. CASE Loaded /\ ~readonly'
  <2>1. session' = <<>> /\ report' = <<>>
    BY <1>2 DEF TypeInv, OperationTyped
  <2>2. queue' = saved /\ rows' = saved.movies
    BY <1>2 DEF Loaded
  <2>3. QED
    BY <2>1, <2>2 DEF RowsOfQueue, Once
<1>3. QED
  BY <1>1, <1>2, RefreshLoads

LEMMA OnceEditing ==
    ASSUME TypeInv, RowsOfQueue, ~readonly, UNCHANGED <<saved, queue, report>>,
           Range(rows') \subseteq Range(rows),
           NEW list, NEW gone, NEW moved, moved \subseteq Range(rows),
           UNCHANGED session \/ StartSession(list, gone, moved)
    PROVE  RowsOfQueue'
<1>1. session = <<>> /\ report' = <<>>
  BY NothingUnderWay
<1>2. Range(rows') \subseteq Range(queue.movies) /\ Once(saved') /\ Once(queue')
  BY DEF RowsOfQueue, Once
<1>3. CASE UNCHANGED session
  BY <1>1, <1>2, <1>3 DEF RowsOfQueue
<1>4. CASE StartSession(list, gone, moved)
  <2>1. /\ session'[1].queue = queue /\ session'[1].reordered = moved
        /\ session'[1].kind = "modify"
    BY <1>4 DEF StartSession
  <2>2. QED
    BY <1>1, <1>2, <2>1 DEF RowsOfQueue, Once
<1>5. QED
  BY <1>3, <1>4

(* Accepted, a request leaves a queue of the same objects, or of one less.  *)
LEMMA OnceAccepted ==
    ASSUME TypeInv, RowsOfQueue, RequestAccepted
    PROVE  RowsOfQueue'
<1>1. PICK s : s = session[1]
  OBVIOUS
<1>2. session # <<>> /\ UNCHANGED <<queue, rows>>
  BY DEF RequestAccepted, content
<1>3. /\ s.queue.movies \in Seq(Objects) /\ IsInjective(s.queue.movies)
      /\ s.reordered \subseteq Range(s.to) /\ s.deleted \cap Range(s.to) = {}
      /\ s.to \in Seq(Objects) /\ IsInjective(s.to) /\ report = <<>>
  BY <1>1, <1>2, SessionUnderWay
<1>4. /\ Once(s.queue) /\ s.reordered \subseteq Range(s.queue.movies)
      /\ s.kind = "move" => Range(rows) \subseteq Range(s.queue.movies)
      /\ Once(saved) /\ Once(queue) /\ Range(rows) \subseteq Range(queue.movies)
  BY <1>1, <1>2 DEF RowsOfQueue
<1>5. ASSUME NEW t, GoOn(t), t \in Sessions, IsInjective(t.queue.movies), t.kind = s.kind,
             Range(t.queue.movies) \subseteq Range(s.queue.movies),
             t.reordered \subseteq Range(t.queue.movies),
             t.kind = "move" => Range(rows) \subseteq Range(t.queue.movies)
      PROVE  RowsOfQueue'
  <2>1. t.queue.movies \in Seq(Objects)
    BY <1>5 DEF Sessions, Queues
  <2>2. Once(t.queue)
    BY <1>3, <1>4, <1>5, <2>1, OnceWithin DEF Once
  <2>3. CASE t.deleted \cup t.reordered = {}
    <3>1. session' = <<>> /\ saved' = t.queue /\ report'[1].kind = t.kind
      BY <1>1, <1>5, <2>3 DEF GoOn, Report
    <3>2. QED
      BY <1>2, <1>4, <1>5, <2>2, <3>1 DEF RowsOfQueue, Once
  <2>4. CASE t.deleted \cup t.reordered # {}
    <3>1. session' = <<t>> /\ saved' = saved /\ report' = <<>>
      BY <1>3, <1>5, <2>4 DEF GoOn
    <3>2. session'[1] = t
      BY <3>1
    <3>3. QED
      BY <1>2, <1>4, <1>5, <2>2, <3>1, <3>2 DEF RowsOfQueue, Once
  <2>5. QED
    BY <2>3, <2>4
<1>6. ASSUME NEW m \in NextDeletions, ServerDeletes(m), GoOn(Deleted(m))
      PROVE  RowsOfQueue'
  <2>1. PICK t : t = Deleted(m)
    OBVIOUS
  <2>2. /\ t \in Sessions /\ t.kind = s.kind /\ t.reordered = s.reordered
        /\ t.queue.movies = Without(s.queue.movies, m) /\ IsInjective(t.queue.movies)
    BY <1>1, <1>2, <1>6, <2>1, AfterDeletion
  <2>3. Loses(t.queue.movies, s.queue.movies, m)
    BY <1>3, <2>2, WithoutProperties
  <2>4. m \in s.deleted /\ m \notin s.reordered
    BY <1>1, <1>3 DEF NextDeletions
  <2>5. s.kind # "move"
    BY <1>1, <1>2, <1>6, MovesToTop
  <2>6. GoOn(t)
    BY <1>6, <2>1
  <2>7. /\ Range(t.queue.movies) \subseteq Range(s.queue.movies)
        /\ t.reordered \subseteq Range(t.queue.movies)
    BY <1>4, <2>2, <2>3, <2>4 DEF Loses
  <2>8. QED
    BY <1>5, <2>2, <2>5, <2>6, <2>7
<1>7. ASSUME NEW m \in NextMoves, ServerMoves(m, Index(session[1].to, m)),
             GoOn(Moved(m, Index(session[1].to, m)))
      PROVE  RowsOfQueue'
  <2>1. PICK p : p = Index(session[1].to, m)
    OBVIOUS
  <2>2. PICK t : t = Moved(m, p)
    OBVIOUS
  <2>3. ServerMoves(m, p) /\ GoOn(t)
    BY <1>7, <2>1, <2>2
  <2>4. /\ t \in Sessions /\ t.kind = s.kind /\ t.reordered = s.reordered \ {m}
        /\ IsInjective(t.queue.movies) /\ Gains(t.queue.movies, s.queue.movies, m)
    BY <1>1, <1>2, <2>1, <2>2, <2>3, AfterMove
  <2>5. m \in s.reordered
    BY <1>1 DEF NextMoves
  <2>6. Range(t.queue.movies) = Range(s.queue.movies)
    BY <1>4, <2>4, <2>5 DEF Gains
  <2>7. QED
    BY <1>4, <1>5, <2>3, <2>4, <2>6
<1>8. QED
  BY <1>6, <1>7 DEF RequestAccepted

LEMMA OnceFails ==
    ASSUME TypeInv, RowsOfQueue, RequestFails
    PROVE  RowsOfQueue'
<1>1. session # <<>> /\ UNCHANGED <<queue, rows>>
  BY DEF RequestFails, content
<1>2. saved' \in {saved, session[1].queue} /\ Once(saved) /\ Once(session[1].queue)
  BY <1>1 DEF RequestFails, RowsOfQueue
<1>3. Once(saved')
  BY <1>2
<1>4. session' = <<>> /\ report'[1].ok = FALSE
  BY DEF RequestFails, Report
<1>5. QED
  BY <1>1, <1>3, <1>4 DEF RowsOfQueue, Once

LEMMA OnceDownloaded ==
    ASSUME TypeInv, RowsOfQueue, Download
    PROVE  OnceInv'
<1>1. server.movies \in Seq(Movies) /\ IsInjective(server.movies)
  BY OrdersProperties DEF TypeInv, CachesTyped
<1>2. MaxOutside - left'.outside \in 0..MaxOutside
  BY OutsideTyped DEF TypeInv, Download
<1>3. Ids(Made(server.movies, MaxOutside - left'.outside)) = server.movies
  BY <1>1, <1>2, MadeProperties
<1>4. Once(saved')
  BY <1>1, <1>3 DEF Download, Once
<1>5. UNCHANGED <<queue, rows, session, report>>
  BY DEF Download, content, operation
<1>6. overtaken' \/ ~(report # <<>> /\ report[1].ok)
  BY DEF Download
<1>7. QED
  BY <1>4, <1>5, <1>6 DEF RowsOfQueue, OnceInv, Once

LEMMA OnceSucceeded ==
    ASSUME TypeInv, RowsOfQueue, MoveSucceeded \/ ModifySucceeded
    PROVE  RowsOfQueue'
<1>1. /\ queue' = saved /\ saved' = saved /\ ExitReadonlyMode /\ session' = session
      /\ report # <<>> /\ report[1].ok
  BY DEF MoveSucceeded, ModifySucceeded, cache
<1>2. session' = <<>> /\ report' = <<>>
  BY <1>1, AfterReport
<1>3. Once(saved') /\ Once(queue')
  BY <1>1 DEF RowsOfQueue, Once
<1>4. Range(rows') \subseteq Range(queue'.movies)
  <2>1. CASE MoveSucceeded
    <3>1. report[1].kind = "move"
      BY <2>1 DEF MoveSucceeded
    <3>2. Range(rows') = Range(rows)
      BY <1>1, <2>1, <3>1, RowToTop
    <3>3. QED
      BY <1>1, <3>1, <3>2 DEF RowsOfQueue
  <2>2. CASE ModifySucceeded
    BY <1>1, <2>2 DEF ModifySucceeded
  <2>3. QED
    BY <2>1, <2>2
<1>5. QED
  BY <1>2, <1>3, <1>4 DEF RowsOfQueue

LEMMA OnceStep == ASSUME TypeInv, OnceInv, [Next]_vars, TypeInv' PROVE OnceInv'
<1> SUFFICES ASSUME RowsOfQueue PROVE OnceInv'
  BY OvertakenStays DEF OnceInv
<1>1. CASE Appear \/ PerformDeferred \/ Pulse \/ OnCancel
  <2>1. Refresh /\ UNCHANGED <<saved, operation>>
    BY <1>1 DEF Appear, PerformDeferred, Pulse, OnCancel, Refresh, cache
  <2>2. QED
    BY <2>1, OnceRefreshing DEF OnceInv
<1>2. CASE OnModifyFailure
  <2>1. Refresh /\ UNCHANGED saved /\ session' = <<>> /\ report' = <<>>
    BY <1>2, AfterReport DEF OnModifyFailure, Refresh, cache
  <2>2. QED
    BY <2>1, OnceRefreshing DEF OnceInv
<1>3. CASE \/ Disappear \/ SaveArt \/ PulserStep \/ StartSwipe \/ CancelSwipe \/ OnEdit
           \/ ForeignChange \/ UNCHANGED vars
  <2>1. UNCHANGED <<saved, queue, rows, session, report>>
    BY <1>3 DEF Disappear, SaveArt, PulserStep, StartSwipe, CancelSwipe, OnEdit,
       ForeignChange, vars, cache, content, operation
  <2>2. QED
    BY <2>1 DEF OnceInv, RowsOfQueue, Once
<1>4. CASE OnSave
  <2>1. /\ ~readonly /\ reordered \subseteq Range(rows)
        /\ StartSession(rows, deleted, reordered) /\ rows' = rows
    BY <1>4 DEF OnSave, TypeInv, OperationTyped, EditsAreOfRows
  <2>2. UNCHANGED <<saved, queue, report>> /\ Range(rows') \subseteq Range(rows)
    BY <2>1 DEF StartSession, cache
  <2>3. QED
    BY <2>1, <2>2, OnceEditing DEF OnceInv
<1>5. ASSUME NEW i \in TouchableRows, DeleteRow(i)
      PROVE  OnceInv'
  <2>1. ~readonly /\ reordered \subseteq Range(rows)
    BY <1>5, NothingUnderWay DEF DeleteRow, TypeInv, OperationTyped, EditsAreOfRows
  <2>2. /\ rows \in Seq(Objects) /\ IsInjective(rows) /\ i \in 1..Len(rows)
        /\ rows' = RemoveAt(rows, i)
    BY <1>5, TouchableRow DEF TypeInv, ScreenTyped, DeleteRow
  <2>3. Loses(rows', rows, rows[i])
    BY <2>2, ShorterList
  <2>4. Range(rows') \subseteq Range(rows)
    BY <2>3 DEF Loses
  <2>5. UNCHANGED <<saved, queue, report>>
    BY <1>5 DEF DeleteRow, StartSession, cache, operation
  <2>6. reordered' \subseteq Range(rows)
    BY <1>5, <2>1 DEF DeleteRow
  <2>7. UNCHANGED session \/ StartSession(rows', deleted', reordered')
    BY <1>5 DEF DeleteRow, operation
  <2>8. QED
    BY <2>1, <2>4, <2>5, <2>6, <2>7, OnceEditing DEF OnceInv
<1>6. ASSUME NEW i \in TouchableRows, UpArrow(i)
      PROVE  OnceInv'
  <2>1. /\ UNCHANGED <<saved, queue, rows>> /\ report' = <<>>
        /\ rows[i] \in Range(rows)
    BY <1>6, NothingUnderWay, TouchableRow DEF UpArrow, cache, content
  <2>2. session'[1].queue = queue /\ session'[1].reordered = {rows[i]}
    BY <1>6 DEF UpArrow
  <2>3. QED
    BY <2>1, <2>2 DEF OnceInv, RowsOfQueue, Once
<1>7. ASSUME NEW i \in TouchableRows, NEW j \in TouchableRows, MoveRow(i, j)
      PROVE  OnceInv'
  <2>1. ~readonly /\ UNCHANGED <<saved, queue, report, session>>
    BY <1>7 DEF MoveRow, TypeInv, OperationTyped, cache, operation
  <2>2. /\ rows \in Seq(Objects) /\ IsInjective(rows) /\ i \in 1..Len(rows) /\ j \in 1..Len(rows)
        /\ rows' = InsertAt(RemoveAt(rows, i), j, rows[i]) /\ Len(rows) \in Nat
        /\ rows[i] \in Objects /\ rows[i] \in Range(rows)
    BY <1>7, TouchableRow DEF TypeInv, ScreenTyped, MoveRow
  <2>3. PICK x : x = rows[i]
    OBVIOUS
  <2>4. x \in Objects /\ x \in Range(rows) /\ rows' = MovedTo(rows, x, j)
    BY <2>2, <2>3, IndexOfElement DEF MovedTo
  <2>5. j \in 1..(Len(Without(rows, x)) + 1)
    BY <2>2, <2>4, WithoutProperties
  <2>6. Gains(rows', rows, x)
    BY <2>2, <2>4, <2>5, MovedToProperties
  <2>7. Range(rows') \subseteq Range(rows)
    BY <2>4, <2>6 DEF Gains
  <2>8. {} \subseteq Range(rows)
    OBVIOUS
  <2>9. QED
    BY <2>1, <2>7, <2>8, OnceEditing DEF OnceInv
<1>8. CASE OperationStep
  BY <1>8, OnceAccepted, OnceFails DEF OperationStep, OnceInv
<1>9. CASE Download
  BY <1>9, OnceDownloaded
<1>10. CASE MoveSucceeded \/ ModifySucceeded
  BY <1>10, OnceSucceeded DEF OnceInv
<1>11. QED
  BY <1>1, <1>2, <1>3, <1>4, <1>5, <1>6, <1>7, <1>8, <1>9, <1>10 DEF Next, HandleReport

(* The rows, what the user deletes and moves, and what an operation has yet *)
(* to do are objects of the queue that they were taken from, unless a       *)
(* download came between a success and its report.                          *)
THEOREM RowsAreOfTheQueue == Spec => []OnceInv
<1>1. Init => TypeInv /\ OnceInv
  BY TypeInit, OnceInit
<1>2. TypeInv /\ OnceInv /\ [Next]_vars => TypeInv' /\ OnceInv'
  BY TypeStep, OnceStep
<1>3. QED
  BY <1>1, <1>2, PTL DEF Spec

(* Unless a download came between a success and its report, the queue that  *)
(* is saved never has a movie twice: requests are made for objects of the   *)
(* queue of the operation, which is where a moved movie is taken out.       *)
THEOREM EachMovieIsSavedOnce == Spec => []SavedOnce
<1>1. OnceInv => SavedOnce
  BY DEF OnceInv, RowsOfQueue, Once, SavedOnce
<1>2. QED
  BY <1>1, RowsAreOfTheQueue, PTL

-----------------------------------------------------------------------------
(* A tap on a row opens its movie *)

LEMMA RowsInit == ASSUME Init PROVE RowsInv
BY DEF Init, RowsInv

(* A refresh that is made loads the table, one that is refused is so while  *)
(* the rows are edited or read-only, and one that waits is deferred.        *)
LEMMA RowsRefreshed ==
    ASSUME Refresh, TypeInv'
    PROVE  RowsInv'
<1>1. CASE Loaded /\ ~readonly' /\ editing' = "no"
  <2>1. session' = <<>> /\ report' = <<>>
    BY <1>1 DEF TypeInv, OperationTyped
  <2>2. table' = Ids(rows') /\ rows' = queue'.movies
    BY <1>1 DEF Loaded
  <2>3. QED
    BY <1>1, <2>1, <2>2 DEF RowsInv, RowsMatch
<1>2. CASE deferred' \/ ~visible' \/ (refused' /\ (readonly' \/ editing' # "no"))
  BY <1>2 DEF RowsInv, Excused
<1>3. QED
  BY <1>1, <1>2 DEF Refresh, MajorRefresh, ReloadTableViewData, Reload, Loaded

(* An excuse stays one until a refresh.                                     *)
LEMMA ExcuseStays ==
    ASSUME Excused, UNCHANGED deferred,
           lost => lost', disordered => disordered', overtaken => overtaken',
           refused /\ (readonly \/ editing # "no") =>
              lost' \/ (refused' /\ (readonly' \/ editing' # "no"))
    PROVE  Excused'
BY DEF Excused

LEMMA RowsShowing ==
    ASSUME TypeInv, RowsInv, Disappear \/ StartSwipe \/ CancelSwipe \/ OnEdit
    PROVE  RowsInv'
<1>1. CASE Disappear
  BY <1>1 DEF Disappear, RowsInv
<1>2. CASE StartSwipe \/ CancelSwipe \/ OnEdit
  <2>1. /\ UNCHANGED <<visible, readonly, deferred, queue, rows, table, session, report, saved>>
        /\ UNCHANGED <<refused, disordered, overtaken>>
        /\ editing # "edit" /\ session = <<>> /\ report = <<>> /\ ~readonly
    BY <1>2, NothingUnderWay DEF StartSwipe, CancelSwipe, OnEdit, content, operation, history,
       cache, TypeInv, OperationTyped
  <2>2. (lost => lost') /\ (refused /\ editing # "no" => lost')
    <3>1. CASE StartSwipe \/ OnEdit
      BY <3>1 DEF StartSwipe, OnEdit, history
    <3>2. CASE CancelSwipe
      BY <3>2 DEF CancelSwipe
    <3>3. QED
      BY <1>2, <3>1, <3>2
  <2>3. CASE Excused
    <3>1. Excused'
      BY <2>1, <2>2, <2>3, ExcuseStays
    <3>2. QED
      BY <3>1 DEF RowsInv
  <2>4. CASE RowsMatch
    <3>1. table = Ids(rows) /\ rows = queue.movies
      BY <2>1, <2>4 DEF RowsMatch
    <3>2. editing' = "edit" => deleted' = {} /\ reordered' = {}
      BY <1>2 DEF StartSwipe, CancelSwipe, OnEdit
    <3>3. IsInjective(rows)
      BY DEF TypeInv, ScreenTyped
    <3>4. Arranged(rows', queue'.movies, {}, {})
      BY <2>1, <3>1, <3>3, ArrangedSelf
    <3>5. RowsMatch'
      BY <2>1, <3>1, <3>2, <3>4 DEF RowsMatch, Ids
    <3>6. QED
      BY <3>5 DEF RowsInv
  <2>5. QED
    BY <2>1, <2>3, <2>4 DEF RowsInv
<1>3. QED
  BY <1>1, <1>2

(* The rows while they are edited or about to be: those of the queue up to  *)
(* the edits.                                                               *)
LEMMA RowsEdited ==
    ASSUME TypeInv, RowsMatch, ~readonly
    PROVE  table = Ids(rows) /\ Arranged(rows, queue.movies, deleted, reordered)
<1>1. session = <<>> /\ report = <<>>
  BY NothingUnderWay
<1>2. IsInjective(rows)
  BY DEF TypeInv, ScreenTyped
<1>3. CASE editing = "edit"
  BY <1>1, <1>3 DEF RowsMatch
<1>4. CASE editing # "edit"
  <2>1. deleted = {} /\ reordered = {}
    BY <1>4, NothingUnderWay
  <2>2. table = Ids(rows) /\ rows = queue.movies
    BY <1>1, <1>4 DEF RowsMatch
  <2>3. QED
    BY <1>2, <2>1, <2>2, ArrangedSelf
<1>5. QED
  BY <1>3, <1>4

(* An operation takes the edits along.                                      *)
LEMMA RowsTakenAlong ==
    ASSUME TypeInv, ~readonly, NEW list, NEW gone, NEW moved, StartSession(list, gone, moved),
           table' = Ids(list), Arranged(list, queue.movies, gone, moved)
    PROVE  RowsMatch'
<1>1. PICK s : s = [kind |-> "modify", queue |-> queue, deleted |-> gone,
                    reordered |-> moved, to |-> list, several |-> Cardinality(moved) > 1]
  OBVIOUS
<1>2. session' = <<s>> /\ session' # <<>> /\ session'[1] = s /\ report' = <<>>
  BY <1>1, NothingUnderWay DEF StartSession
<1>3. s.kind = "modify" /\ s.queue = queue /\ s.deleted = gone /\ s.reordered = moved
      /\ s.to = list
  BY <1>1
<1>4. QED
  BY <1>2, <1>3 DEF RowsMatch

LEMMA RowsSaving ==
    ASSUME TypeInv, RowsInv, OnSave
    PROVE  RowsInv'
<1>1. /\ visible /\ ~readonly /\ readonly' /\ StartSession(rows, deleted, reordered)
      /\ UNCHANGED <<deferred, history, rows, table, queue>>
  BY DEF OnSave, StartSession, TypeInv, OperationTyped
<1>2. CASE Excused
  <2>1. Excused'
    BY <1>1, <1>2, ExcuseStays DEF history
  <2>2. QED
    BY <2>1 DEF RowsInv
<1>3. CASE RowsMatch
  <2>1. table = Ids(rows) /\ Arranged(rows, queue.movies, deleted, reordered)
    BY <1>1, <1>3, RowsEdited
  <2>2. table' = Ids(rows)
    BY <1>1, <2>1
  <2>3. RowsMatch'
    BY <1>1, <2>1, <2>2, RowsTakenAlong
  <2>4. QED
    BY <2>3 DEF RowsInv
<1>4. QED
  BY <1>1, <1>2, <1>3 DEF RowsInv

LEMMA RowsDeleteRow ==
    ASSUME TypeInv, RowsInv, NEW i \in TouchableRows, DeleteRow(i), TypeInv'
    PROVE  RowsInv'
<1>1. /\ visible /\ ~readonly /\ UNCHANGED <<deferred, history, queue>>
      /\ rows' = RemoveAt(rows, i) /\ table' = RemoveAt(table, i)
      /\ deleted' = deleted \cup {rows[i]} /\ reordered' = reordered \ {rows[i]}
      /\ editing # "no" /\ (readonly' \/ editing' # "no")
  BY NothingUnderWay DEF DeleteRow, StartSession, shape, TypeInv, OperationTyped
<1>2. CASE Excused
  <2>1. Excused'
    BY <1>1, <1>2, ExcuseStays DEF history
  <2>2. QED
    BY <2>1 DEF RowsInv
<1>3. CASE RowsMatch
  <2>1. table = Ids(rows) /\ Arranged(rows, queue.movies, deleted, reordered)
    BY <1>1, <1>3, RowsEdited
  <2>2. rows \in Seq(Objects) /\ IsInjective(rows) /\ i \in 1..Len(rows)
    BY TouchableRow DEF TypeInv, ScreenTyped
  <2>3. table' = Ids(rows')
    BY <1>1, <2>1, <2>2, IdsOfRemoveAt
  <2>4. Arranged(rows', queue.movies, deleted', reordered')
    BY <1>1, <2>1, <2>2, ArrangedWithoutRow
  <2>5. CASE StartSession(rows', deleted', reordered')
    <3>1. RowsMatch'
      BY <1>1, <2>3, <2>4, <2>5, RowsTakenAlong
    <3>2. QED
      BY <3>1 DEF RowsInv
  <2>6. CASE editing = "edit" /\ UNCHANGED <<shape, operation>>
    <3>1. session' = <<>> /\ report' = <<>> /\ editing' = "edit"
      BY <1>1, <2>6, NothingUnderWay DEF shape, operation
    <3>2. RowsMatch'
      BY <1>1, <2>3, <2>4, <3>1 DEF RowsMatch, Ids
    <3>3. QED
      BY <3>2 DEF RowsInv
  <2>7. QED
    BY <2>5, <2>6 DEF DeleteRow
<1>4. QED
  BY <1>1, <1>2, <1>3 DEF RowsInv

LEMMA RowsMoveRow ==
    ASSUME TypeInv, RowsInv, NEW i \in TouchableRows, NEW j \in TouchableRows, MoveRow(i, j)
    PROVE  RowsInv'
<1>1. /\ visible /\ ~readonly /\ UNCHANGED <<deferred, history, queue, deleted>>
      /\ UNCHANGED <<readonly, editing, session, report>> /\ editing = "edit"
      /\ rows' = InsertAt(RemoveAt(rows, i), j, rows[i])
      /\ table' = InsertAt(RemoveAt(table, i), j, table[i])
      /\ reordered' = reordered \cup {rows[i]}
  BY DEF MoveRow, shape, operation, TypeInv, OperationTyped
<1>2. CASE Excused
  <2>1. Excused'
    BY <1>1, <1>2, ExcuseStays DEF history
  <2>2. QED
    BY <2>1 DEF RowsInv
<1>3. CASE RowsMatch
  <2>1. table = Ids(rows) /\ Arranged(rows, queue.movies, deleted, reordered)
    BY <1>1, <1>3, RowsEdited
  <2>2. /\ rows \in Seq(Objects) /\ IsInjective(rows) /\ i \in 1..Len(rows) /\ j \in 1..Len(rows)
        /\ rows[i] \in Objects
    BY TouchableRow DEF TypeInv, ScreenTyped
  <2>3. table' = Ids(rows')
    <3>1. PICK r : r = RemoveAt(rows, i)
      OBVIOUS
    <3>2. r \in Seq(Objects) /\ Len(r) = Len(rows) - 1 /\ Len(rows) \in Nat
      BY <2>2, <3>1, RemoveAtProperties
    <3>3. j \in 1..(Len(r) + 1)
      BY <2>2, <3>2
    <3>4. Ids(r) = RemoveAt(table, i)
      BY <2>1, <2>2, <3>1, IdsOfRemoveAt
    <3>5. table[i] = rows[i].movie
      BY <2>1, <2>2, IdsProperties
    <3>6. Ids(InsertAt(r, j, rows[i])) = InsertAt(Ids(r), j, rows[i].movie)
      BY <2>2, <3>2, <3>3, IdsOfInsertAt
    <3>7. QED
      BY <1>1, <3>1, <3>4, <3>5, <3>6
  <2>4. Arranged(rows', queue.movies, deleted, reordered')
    BY <1>1, <2>1, <2>2, ArrangedWithRowMoved
  <2>5. session' = <<>> /\ report' = <<>>
    BY <1>1, NothingUnderWay
  <2>6. RowsMatch'
    BY <1>1, <2>3, <2>4, <2>5 DEF RowsMatch, Ids
  <2>7. QED
    BY <2>6 DEF RowsInv
<1>4. QED
  BY <1>1, <1>2, <1>3 DEF RowsInv

LEMMA RowsUpArrow ==
    ASSUME TypeInv, RowsInv, NEW i \in TouchableRows, UpArrow(i)
    PROVE  RowsInv'
<1>1. /\ visible /\ ~readonly /\ readonly' /\ editing = "no" /\ report' = <<>>
      /\ UNCHANGED <<deferred, history, queue, rows, table>>
  BY NothingUnderWay DEF UpArrow, content
<1>2. CASE Excused
  <2>1. Excused'
    BY <1>1, <1>2, ExcuseStays DEF history
  <2>2. QED
    BY <2>1 DEF RowsInv
<1>3. CASE RowsMatch
  <2>1. table = Ids(rows) /\ rows = queue.movies
    BY <1>1, <1>3, NothingUnderWay DEF RowsMatch
  <2>2. session' # <<>> /\ session'[1].kind = "move" /\ session'[1].queue = queue
    BY DEF UpArrow
  <2>3. RowsMatch'
    BY <1>1, <2>1, <2>2 DEF RowsMatch, Ids
  <2>4. QED
    BY <2>3 DEF RowsInv
<1>4. QED
  BY <1>1, <1>2, <1>3 DEF RowsInv

(* A request takes one edit from the rows into the queue.                   *)
LEMMA RowsGoingOn ==
    ASSUME TypeInv, session # <<>>, NEW t \in Sessions, GoOn(t),
           t.kind = "modify", session[1].kind = "modify", t.to = session[1].to,
           t.several = session[1].several, IsInjective(t.queue.movies), UNCHANGED table,
           ~t.several => /\ table = Ids(t.to)
                         /\ Arranged(t.to, t.queue.movies, t.deleted, t.reordered)
    PROVE  RowsMatch'
<1>1. IsInjective(t.to) /\ t.to \in Seq(Objects) /\ report = <<>>
  BY SessionUnderWay
<1>2. t.queue.movies \in Seq(Objects)
  BY DEF Sessions, Queues
<1>3. CASE t.deleted \cup t.reordered = {}
  <2>1. /\ session' = <<>> /\ report' # <<>> /\ saved' = t.queue
        /\ report'[1].kind = "modify" /\ report'[1].several = t.several
    <3>1. saved' = t.queue /\ Report(TRUE)
      BY <1>3 DEF GoOn
    <3>2. PICK r : r = [kind |-> session[1].kind, ok |-> TRUE, to |-> session[1].to,
                        several |-> session[1].several]
      OBVIOUS
    <3>3. r.kind = "modify" /\ r.several = t.several
      BY <3>2
    <3>4. session' = <<>> /\ report' = <<r>>
      BY <3>1, <3>2 DEF Report
    <3>5. report' # <<>> /\ report'[1] = r
      BY <3>4
    <3>6. QED
      BY <3>1, <3>3, <3>4, <3>5
  <2>2. ~t.several => table = Ids(t.queue.movies)
    <3> SUFFICES ASSUME ~t.several PROVE table = Ids(t.queue.movies)
      OBVIOUS
    <3>1. t.deleted = {} /\ t.reordered = {}
      BY <1>3
    <3>2. Arranged(t.to, t.queue.movies, {}, {})
      BY <3>1
    <3>3. t.to = t.queue.movies
      BY <1>1, <1>2, <3>2, ArrangedAtLast
    <3>4. QED
      BY <3>3
  <2>3. QED
    BY <2>1, <2>2 DEF RowsMatch, Ids
<1>4. CASE t.deleted \cup t.reordered # {}
  <2>1. session' = <<t>> /\ report' = <<>>
    BY <1>1, <1>4 DEF GoOn
  <2>2. session' # <<>> /\ session'[1] = t
    BY <2>1
  <2>3. QED
    BY <2>1, <2>2 DEF RowsMatch, Ids
<1>5. QED
  BY <1>3, <1>4

LEMMA RowsAccepted ==
    ASSUME TypeInv, RowsMatch, RequestAccepted
    PROVE  RowsMatch'
<1>1. PICK s : s = session[1]
  OBVIOUS
<1>2. session # <<>> /\ UNCHANGED <<rows, table, queue>>
  BY DEF RequestAccepted, content
<1>3. /\ s \in Sessions /\ s.queue.movies \in Seq(Objects) /\ IsInjective(s.queue.movies)
      /\ s.to \in Seq(Objects) /\ IsInjective(s.to) /\ s.reordered \subseteq Range(s.to)
      /\ report = <<>>
  BY <1>1, <1>2, SessionUnderWay
<1>4. s.kind = "modify" /\ ~s.several =>
         table = Ids(s.to) /\ Arranged(s.to, s.queue.movies, s.deleted, s.reordered)
  BY <1>1, <1>2 DEF RowsMatch
<1>5. ASSUME NEW m \in NextDeletions, ServerDeletes(m), GoOn(Deleted(m))
      PROVE  RowsMatch'
  <2>1. PICK t : t = Deleted(m)
    OBVIOUS
  <2>2. /\ t \in Sessions /\ t.kind = s.kind /\ t.to = s.to /\ t.several = s.several
        /\ t.deleted = s.deleted \ {m} /\ t.reordered = s.reordered
        /\ t.queue.movies = Without(s.queue.movies, m) /\ IsInjective(t.queue.movies)
    BY <1>1, <1>2, <1>5, <2>1, AfterDeletion
  <2>3. s.kind = "modify" /\ m \in s.deleted
    BY <1>1, <1>2, <1>3, <1>5, MovesToTop DEF Sessions, Kinds, NextDeletions
  <2>4. ~t.several => /\ table = Ids(t.to)
                      /\ Arranged(t.to, t.queue.movies, t.deleted, t.reordered)
    BY <1>3, <1>4, <2>2, <2>3, ArrangedAfterDeletion
  <2>5. GoOn(t)
    BY <1>5, <2>1
  <2>6. QED
    BY <1>1, <1>2, <2>2, <2>3, <2>4, <2>5, RowsGoingOn
<1>6. ASSUME NEW m \in NextMoves, ServerMoves(m, Index(session[1].to, m)),
             GoOn(Moved(m, Index(session[1].to, m)))
      PROVE  RowsMatch'
  <2>1. PICK p : p = Index(session[1].to, m)
    OBVIOUS
  <2>2. PICK t : t = Moved(m, p)
    OBVIOUS
  <2>3. ServerMoves(m, p) /\ GoOn(t)
    BY <1>6, <2>1, <2>2
  <2>4. /\ t \in Sessions /\ t.kind = s.kind /\ t.to = s.to /\ t.several = s.several
        /\ t.deleted = s.deleted /\ t.reordered = s.reordered \ {m}
        /\ t.queue.movies = MovedTo(s.queue.movies, m, p) /\ IsInjective(t.queue.movies)
    BY <1>1, <1>2, <2>1, <2>2, <2>3, AfterMove
  <2>5. m \in s.reordered /\ s.deleted = {}
    BY <1>1 DEF NextMoves
  <2>6. CASE s.kind = "modify"
    <3>1. ASSUME ~t.several
          PROVE  /\ table = Ids(t.to)
                 /\ Arranged(t.to, t.queue.movies, t.deleted, t.reordered)
      <4>1. \A x, y \in s.reordered : x = y
        BY <1>1, <1>2, <2>4, <3>1 DEF TypeInv, EditsAreOfRows
      <4>2. s.reordered = {m} /\ t.reordered = {} /\ t.deleted = {}
        BY <2>4, <2>5, <4>1
      <4>3. table = Ids(s.to) /\ Arranged(s.to, s.queue.movies, {}, {m})
        BY <1>4, <2>4, <2>5, <2>6, <3>1, <4>2
      <4>4. m \in Range(s.to) /\ p = Index(s.to, m)
        BY <1>1, <1>3, <2>1, <2>5
      <4>5. MovedTo(s.queue.movies, m, p) = s.to
        BY <1>3, <4>3, <4>4, ArrangedByLastMove
      <4>6. Arranged(s.to, s.to, {}, {})
        BY <1>3, ArrangedSelf
      <4>7. QED
        BY <2>4, <4>2, <4>3, <4>5, <4>6
    <3>2. QED
      BY <1>1, <1>2, <2>3, <2>4, <2>6, <3>1, RowsGoingOn
  <2>7. CASE s.kind = "move"
    <3>1. PICK x : s.to = <<x>> /\ s.reordered = {x}
      BY <1>1, <1>2, <2>7, MovesToTop
    <3>2. x = m /\ t.deleted \cup t.reordered = {}
      BY <2>4, <2>5, <3>1
    <3>3. p = 1
      <4>1. s.to[p] = m /\ p \in 1..Len(s.to)
        BY <1>1, <1>3, <2>1, <2>5, IndexIn
      <4>2. Len(s.to) = 1
        BY <3>1
      <4>3. QED
        BY <4>1, <4>2
    <3>4. table = Ids(rows) /\ rows = queue.movies /\ s.queue = queue
      BY <1>1, <1>2, <2>7 DEF RowsMatch
    <3>5. /\ session' = <<>> /\ report' # <<>> /\ saved' = t.queue
          /\ report'[1].kind = "move" /\ report'[1].to = s.to
      BY <1>1, <2>3, <2>7, <3>2 DEF GoOn, Report
    <3>6. saved'.movies = MovedTo(rows, report'[1].to[1], 1)
      BY <2>4, <3>1, <3>2, <3>3, <3>4, <3>5
    <3>7. QED
      BY <1>2, <3>4, <3>5, <3>6 DEF RowsMatch, Ids, MovedTo, Without
  <2>8. QED
    BY <1>3, <2>6, <2>7 DEF Sessions, Kinds
<1>7. QED
  BY <1>5, <1>6 DEF RequestAccepted

LEMMA RowsOperating ==
    ASSUME TypeInv, RowsInv, OperationStep
    PROVE  RowsInv'
<1>1. UNCHANGED <<shape, deferred, history>>
  BY DEF OperationStep, RequestAccepted, RequestFails
<1>2. CASE Excused
  <2>1. Excused'
    BY <1>1, <1>2 DEF Excused, shape, history
  <2>2. QED
    BY <2>1 DEF RowsInv
<1>3. CASE RowsMatch /\ RequestAccepted
  BY <1>3, RowsAccepted DEF RowsInv
<1>4. CASE RequestFails
  <2>1. session' = <<>> /\ report' # <<>> /\ report'[1].ok = FALSE
    BY <1>4 DEF RequestFails, Report
  <2>2. RowsMatch'
    BY <2>1 DEF RowsMatch
  <2>3. QED
    BY <2>2 DEF RowsInv
<1>5. QED
  BY <1>1, <1>2, <1>3, <1>4 DEF RowsInv, OperationStep, shape

LEMMA RowsOutside ==
    ASSUME TypeInv, RowsInv,
           SaveArt \/ PulserStep \/ Download \/ ForeignChange \/ UNCHANGED vars
    PROVE  RowsInv'
<1>1. /\ UNCHANGED <<visible, editing, readonly, deferred, queue, rows, table>>
      /\ UNCHANGED <<deleted, reordered, session, report, refused, lost, disordered>>
  BY DEF SaveArt, PulserStep, Download, ForeignChange, vars, shape, content, temporary,
     operation, history
<1>2. overtaken' \/ UNCHANGED <<saved, overtaken>> \/ ~(report # <<>> /\ report[1].ok)
  BY DEF SaveArt, PulserStep, Download, ForeignChange, vars, cache, history
<1>3. overtaken => overtaken'
  BY OvertakenStays DEF Next
<1>4. CASE Excused
  <2>1. Excused'
    BY <1>1, <1>3, <1>4 DEF Excused
  <2>2. QED
    BY <2>1 DEF RowsInv
<1>5. CASE overtaken'
  BY <1>5 DEF RowsInv, Excused
<1>6. CASE RowsMatch /\ (saved' = saved \/ ~(report # <<>> /\ report[1].ok))
  <2>1. RowsMatch'
    BY <1>1, <1>6 DEF RowsMatch, Ids, MovedTo, Without
  <2>2. QED
    BY <2>1 DEF RowsInv
<1>7. QED
  BY <1>1, <1>2, <1>4, <1>5, <1>6 DEF RowsInv

(* The screen takes the queue that the operation made of its rows.          *)
LEMMA RowsSucceeded ==
    ASSUME TypeInv, RowsInv, MoveSucceeded \/ ModifySucceeded, TypeInv'
    PROVE  RowsInv'
<1>1. /\ report # <<>> /\ report[1].ok /\ ExitReadonlyMode
      /\ queue' = saved /\ UNCHANGED <<session, deferred, refused, overtaken, visible>>
  BY DEF MoveSucceeded, ModifySucceeded, ExitReadonlyMode
<1>2. session' = <<>> /\ report' = <<>> /\ ~readonly' /\ editing' = "no"
  BY <1>1, AfterReport
<1>3. /\ lost => lost'
      /\ disordered => disordered'
      /\ refused => lost'
      /\ ModifySucceeded /\ report[1].several => disordered'
  <2>1. CASE MoveSucceeded
    <3>1. lost' = (lost \/ refused) /\ disordered' = disordered
      BY <2>1, Zenon DEF MoveSucceeded
    <3>2. report[1].kind = "move"
      BY <2>1 DEF MoveSucceeded
    <3>3. ~ModifySucceeded
      BY <3>2 DEF ModifySucceeded
    <3>4. QED
      BY <3>1, <3>3, Zenon
  <2>2. CASE ModifySucceeded
    <3>1. lost' = (lost \/ refused) /\ disordered' = (disordered \/ report[1].several)
      BY <2>2, Zenon DEF ModifySucceeded
    <3>2. QED
      BY <3>1, Zenon
  <2>3. QED
    BY <2>1, <2>2
<1>4. CASE Excused
  <2>1. Excused'
    BY <1>1, <1>3, <1>4, ExcuseStays
  <2>2. QED
    BY <2>1 DEF RowsInv
<1>5. CASE RowsMatch /\ MoveSucceeded
  <2>1. report[1].kind = "move"
    BY <1>5 DEF MoveSucceeded
  <2>2. PICK x : x = report[1].to[1]
    OBVIOUS
  <2>3. PICK i : i = Index(rows, x)
    OBVIOUS
  <2>4. table = Ids(rows) /\ saved.movies = MovedTo(rows, x, 1)
    BY <1>1, <1>5, <2>1, <2>2 DEF RowsMatch
  <2>5. /\ x \in Range(rows) /\ rows' = MovedTo(rows, x, 1)
        /\ table' = InsertAt(RemoveAt(table, i), 1, table[i])
    BY <1>1, <1>5, <2>1, <2>2, <2>3, RowToTop
  <2>6. rows \in Seq(Objects) /\ IsInjective(rows)
    BY DEF TypeInv, ScreenTyped
  <2>7. i \in 1..Len(rows) /\ rows[i] = x /\ Without(rows, x) = RemoveAt(rows, i)
    BY <2>3, <2>5, <2>6, IndexIn
  <2>8. PICK r : r = RemoveAt(rows, i)
    OBVIOUS
  <2>9. r \in Seq(Objects) /\ Len(r) = Len(rows) - 1 /\ Len(rows) \in Nat
    BY <2>6, <2>7, <2>8, RemoveAtProperties
  <2>10. 1 \in 1..(Len(r) + 1) /\ x \in Objects
    BY <2>6, <2>7, <2>9
  <2>11. rows' = InsertAt(r, 1, x)
    BY <2>5, <2>7, <2>8 DEF MovedTo
  <2>12. Ids(InsertAt(r, 1, x)) = InsertAt(Ids(r), 1, x.movie)
    BY <2>9, <2>10, IdsOfInsertAt
  <2>13. Ids(r) = RemoveAt(table, i) /\ table[i] = x.movie
    BY <2>4, <2>6, <2>7, <2>8, IdsOfRemoveAt, IdsProperties
  <2>14. table' = Ids(rows')
    BY <2>5, <2>11, <2>12, <2>13
  <2>15. rows' = queue'.movies
    BY <1>1, <2>4, <2>5
  <2>16. RowsMatch'
    BY <1>2, <2>14, <2>15 DEF RowsMatch, Ids
  <2>17. QED
    BY <2>16 DEF RowsInv
<1>6. CASE RowsMatch /\ ModifySucceeded
  <2>1. report[1].kind = "modify" /\ rows' = saved.movies /\ table' = table
    BY <1>6 DEF ModifySucceeded
  <2>2. report[1].several \/ table = Ids(saved.movies)
    BY <1>1, <1>6, <2>1 DEF RowsMatch
  <2>3. CASE report[1].several
    BY <1>3, <1>6, <2>3 DEF RowsInv, Excused
  <2>4. CASE table = Ids(saved.movies)
    <3>1. RowsMatch'
      BY <1>1, <1>2, <2>1, <2>4 DEF RowsMatch, Ids
    <3>2. QED
      BY <3>1 DEF RowsInv
  <2>5. QED
    BY <2>2, <2>3, <2>4
<1>7. QED
  BY <1>1, <1>4, <1>5, <1>6 DEF RowsInv

LEMMA RowsStep == ASSUME TypeInv, RowsInv, [Next]_vars, TypeInv' PROVE RowsInv'
<1>1. CASE Appear \/ PerformDeferred \/ Pulse \/ OnCancel \/ OnModifyFailure
  <2>1. Refresh
    BY <1>1 DEF Appear, PerformDeferred, Pulse, OnCancel, OnModifyFailure, Refresh
  <2>2. QED
    BY <2>1, RowsRefreshed
<1>2. CASE Disappear \/ StartSwipe \/ CancelSwipe \/ OnEdit
  BY <1>2, RowsShowing
<1>3. CASE OnSave
  BY <1>3, RowsSaving
<1>4. ASSUME NEW i \in TouchableRows,
             DeleteRow(i) \/ UpArrow(i) \/ \E j \in TouchableRows : MoveRow(i, j)
      PROVE  RowsInv'
  BY <1>4, RowsDeleteRow, RowsUpArrow, RowsMoveRow
<1>5. CASE OperationStep
  BY <1>5, RowsOperating
<1>6. CASE SaveArt \/ PulserStep \/ Download \/ ForeignChange \/ UNCHANGED vars
  BY <1>6, RowsOutside
<1>7. CASE MoveSucceeded \/ ModifySucceeded
  BY <1>7, RowsSucceeded
<1>8. QED
  BY <1>1, <1>2, <1>3, <1>4, <1>5, <1>6, <1>7 DEF Next, HandleReport

(* A row that is tapped opens the movie that it shows, whatever the user    *)
(* edits and the server refuses, but for the four exceptions.               *)
THEOREM TapsOpenTheirMovies == Spec => []RowOpensItsMovie
<1>1. Init => TypeInv /\ RowsInv
  BY TypeInit, RowsInit
<1>2. TypeInv /\ RowsInv /\ [Next]_vars => TypeInv' /\ RowsInv'
  BY TypeStep, RowsStep
<1>3. ASSUME TypeInv, RowsInv PROVE RowOpensItsMovie
  <2>1. CASE Idle
    <3>1. session = <<>> /\ report = <<>> /\ visible /\ ~readonly /\ editing = "no"
      BY <1>3, <2>1, NothingUnderWay DEF Idle
    <3>2. CASE Excused
      BY <3>1, <3>2 DEF Excused, RowOpensItsMovie
    <3>3. CASE RowsMatch
      BY <3>1, <3>3 DEF RowsMatch, RowOpensItsMovie
    <3>4. QED
      BY <1>3, <3>1, <3>2, <3>3 DEF RowsInv
  <2>2. QED
    BY <2>1 DEF RowOpensItsMovie
<1>4. QED
  BY <1>1, <1>2, <1>3, PTL DEF Spec

=============================================================================
