------------------------- MODULE NetflixQueue_proofs -------------------------
(***************************************************************************)
(* The Netflix queue for any movies and views and any number of changes,   *)
(* refreshes, lost requests and kills of the app: a copy is what the       *)
(* server had under the copy's etag, unless a DELETE missed a change or a  *)
(* success was overtaken by a download; what is taken for current is the   *)
(* server's queue, unless besides the app was killed while it replaced the *)
(* queue by an older one; and a copy in memory gives way to an older one   *)
(* only when a session failed.                                             *)
(*                                                                         *)
(* The states of the queue on the server are only ever added to, so a copy *)
(* that was right stays right.  A change does the same to the movies of    *)
(* the server and to the objects of a copy as long as the object that it   *)
(* names is one of the copy: the rows of a view are objects of its queue,  *)
(* and the changes still to be made name objects of the queue in hand.     *)
(* What a DELETE makes of the queue is known before its etag is: in        *)
(* between, some later state of the server is the one before it with the   *)
(* movie deleted.                                                          *)
(***************************************************************************)
EXTENDS NetflixQueue, SequenceTheorems, FiniteSetTheorems, WellFoundedInduction,
        TLAPS

-----------------------------------------------------------------------------
(* Lemmas about sequences *)

LEMMA AppendAnything ==
    ASSUME NEW s, s \in Seq(Range(s)), NEW e
    PROVE  /\ Append(s, e) \in Seq(Range(Append(s, e)))
           /\ Append(s, e) # <<>>
           /\ Len(s) \in Nat /\ Len(Append(s, e)) = Len(s) + 1
           /\ \A i \in 1..Len(s) : Append(s, e)[i] = s[i]
           /\ Append(s, e)[Len(s) + 1] = e
           /\ Range(Append(s, e)) = Range(s) \cup {e}
<1> DEFINE S == Range(s) \cup {e}
           longer == Append(s, e)
<1>1. s \in Seq(S)
  <2>1. Len(s) \in Nat /\ s \in [1..Len(s) -> Range(s)]
    OBVIOUS
  <2>2. s \in [1..Len(s) -> S]
    BY <2>1
  <2>3. QED
    BY <2>1, <2>2, SeqDef
<1>2. /\ longer \in Seq(S) /\ Len(longer) = Len(s) + 1 /\ Len(s) \in Nat
      /\ \A i \in 1..Len(s) : longer[i] = s[i]
      /\ longer[Len(s) + 1] = e
      /\ DOMAIN s = 1..Len(s) /\ DOMAIN longer = 1..(Len(s) + 1)
  <2>1. e \in S
    OBVIOUS
  <2>2. QED
    BY <1>1, <2>1, AppendProperties
<1> HIDE DEF longer
<1>3. Range(longer) = S
  BY <1>2 DEF Range
<1>4. longer # <<>>
  BY <1>2
<1>5. QED
  BY <1>2, <1>3, <1>4 DEF longer

LEMMA RemoveAtProperties ==
    ASSUME NEW S, NEW s \in Seq(S), NEW i \in 1..Len(s)
    PROVE  /\ RemoveAt(s, i) \in Seq(S)
           /\ Len(RemoveAt(s, i)) = Len(s) - 1
           /\ \A j \in 1..Len(s) - 1 :
                 RemoveAt(s, i)[j] = IF j < i THEN s[j] ELSE s[j + 1]
<1> DEFINE a == SubSeq(s, 1, i - 1)
           b == SubSeq(s, i + 1, Len(s))
<1>1. /\ a \in Seq(S) /\ Len(a) = i - 1
      /\ \A j \in 1..i - 1 : a[j] = s[j]
  OBVIOUS
<1>2. /\ b \in Seq(S) /\ Len(b) = Len(s) - i
      /\ \A j \in 1..Len(s) - i : b[j] = s[i + j]
  OBVIOUS
<1> HIDE DEF a, b
<1>3. a \o b \in Seq(S) /\ Len(a \o b) = Len(a) + Len(b)
  BY <1>1, <1>2, ConcatProperties
<1>4. \A j \in 1..Len(a) + Len(b) : (a \o b)[j] = IF j <= Len(a) THEN a[j] ELSE b[j - Len(a)]
  BY <1>1, <1>2, ConcatProperties
<1>5. Len(s) \in Nat /\ i \in Nat /\ i >= 1 /\ i <= Len(s)
  OBVIOUS
<1>6. Len(a) + Len(b) = Len(s) - 1
  BY <1>1, <1>2, <1>5
<1>7. ASSUME NEW j \in 1..Len(s) - 1
      PROVE  (a \o b)[j] = IF j < i THEN s[j] ELSE s[j + 1]
  <2>1. CASE j < i
    BY <1>1, <1>4, <1>5, <1>6, <2>1
  <2>2. CASE ~(j < i)
    <3>1. /\ (a \o b)[j] = b[j - (i - 1)]
          /\ j - (i - 1) \in 1..Len(s) - i /\ i + (j - (i - 1)) = j + 1
      BY <1>1, <1>4, <1>5, <1>6, <2>2
    <3>2. QED
      BY <1>2, <2>2, <3>1
  <2>3. QED
    BY <2>1, <2>2
<1>8. RemoveAt(s, i) = a \o b
  BY DEF RemoveAt, a, b
<1>9. QED
  BY <1>3, <1>6, <1>7, <1>8

LEMMA InsertAtProperties ==
    ASSUME NEW S, NEW s \in Seq(S), NEW e \in S, NEW p \in 1..(Len(s) + 1)
    PROVE  /\ InsertAt(s, p, e) \in Seq(S)
           /\ Len(InsertAt(s, p, e)) = Len(s) + 1
           /\ \A j \in 1..(Len(s) + 1) :
                 InsertAt(s, p, e)[j] = IF j < p THEN s[j] ELSE IF j = p THEN e ELSE s[j - 1]
<1> DEFINE a == SubSeq(s, 1, p - 1)
           b == SubSeq(s, p, Len(s))
           m == <<e>>
           am == a \o m
<1>1. /\ a \in Seq(S) /\ Len(a) = p - 1
      /\ \A j \in 1..p - 1 : a[j] = s[j]
  OBVIOUS
<1>2. /\ b \in Seq(S) /\ Len(b) = Len(s) - p + 1
      /\ \A j \in 1..(Len(s) - p + 1) : b[j] = s[p + j - 1]
  OBVIOUS
<1>3. m \in Seq(S) /\ Len(m) = 1 /\ m[1] = e
  OBVIOUS
<1>4. InsertAt(s, p, e) = am \o b
  BY DEF InsertAt
<1>5. Len(s) \in Nat /\ p \in Nat /\ p >= 1 /\ p <= Len(s) + 1
  OBVIOUS
<1> HIDE DEF a, b, m
<1>6. /\ am \in Seq(S) /\ Len(am) = Len(a) + Len(m)
      /\ \A j \in 1..Len(a) + Len(m) : am[j] = IF j <= Len(a) THEN a[j] ELSE m[j - Len(a)]
  BY <1>1, <1>3, ConcatProperties
<1>7. /\ Len(am) = p /\ am[p] = e
      /\ \A j \in 1..p - 1 : am[j] = s[j]
  BY <1>1, <1>3, <1>5, <1>6
<1> HIDE DEF am
<1>8. /\ am \o b \in Seq(S) /\ Len(am \o b) = Len(am) + Len(b)
      /\ \A j \in 1..Len(am) + Len(b) :
            (am \o b)[j] = IF j <= Len(am) THEN am[j] ELSE b[j - Len(am)]
  <2>1. am \in Seq(S) /\ b \in Seq(S)
    BY <1>2, <1>6
  <2>2. QED
    BY <2>1, ConcatProperties
<1>9. ASSUME NEW j \in 1..(Len(s) + 1)
      PROVE  (am \o b)[j] = IF j < p THEN s[j] ELSE IF j = p THEN e ELSE s[j - 1]
  <2>1. j \in 1..Len(am) + Len(b)
    BY <1>2, <1>5, <1>7
  <2>2. CASE j <= p
    BY <1>5, <1>7, <1>8, <2>1, <2>2
  <2>3. CASE ~(j <= p)
    <3>1. (am \o b)[j] = b[j - p] /\ j - p \in 1..(Len(s) - p + 1) /\ p + (j - p) - 1 = j - 1
      BY <1>5, <1>7, <1>8, <2>1, <2>3
    <3>2. QED
      BY <1>2, <1>5, <2>3, <3>1
  <2>4. QED
    BY <2>2, <2>3
<1>10. Len(am) + Len(b) = Len(s) + 1
  BY <1>2, <1>5, <1>7
<1>11. QED
  BY <1>4, <1>8, <1>9, <1>10

(* Every element left was there before, and all but the one removed are left. *)
LEMMA ElementsLeft ==
    ASSUME NEW S, NEW s \in Seq(S), NEW i \in DOMAIN s
    PROVE  /\ \A j \in DOMAIN RemoveAt(s, i) : \E k \in DOMAIN s : RemoveAt(s, i)[j] = s[k]
           /\ \A k \in DOMAIN s \ {i} : s[k] \in Range(RemoveAt(s, i))
<1>1. PICK r : r = RemoveAt(s, i)
  OBVIOUS
<1>2. i \in 1..Len(s)
  OBVIOUS
<1>3. /\ r \in Seq(S) /\ Len(r) = Len(s) - 1
      /\ \A j \in 1..Len(s) - 1 : r[j] = IF j < i THEN s[j] ELSE s[j + 1]
  BY <1>1, <1>2, RemoveAtProperties
<1>4. /\ DOMAIN r = 1..Len(s) - 1 /\ DOMAIN s = 1..Len(s) /\ Len(s) \in Nat
  BY <1>3
<1>5. ASSUME NEW j \in DOMAIN r PROVE \E k \in DOMAIN s : r[j] = s[k]
  <2>1. j \in DOMAIN s /\ j + 1 \in DOMAIN s
    BY <1>4
  <2>2. QED
    BY <1>3, <1>4, <2>1
<1>6. ASSUME NEW k \in DOMAIN s \ {i} PROVE s[k] \in Range(r)
  <2>1. CASE k < i
    <3>1. k \in DOMAIN r /\ r[k] = s[k]
      BY <1>2, <1>3, <1>4, <2>1
    <3>2. QED
      BY <3>1 DEF Range
  <2>2. CASE ~(k < i)
    <3>1. k - 1 \in DOMAIN r /\ ~(k - 1 < i) /\ (k - 1) + 1 = k
      BY <1>2, <1>4, <2>2
    <3>2. r[k - 1] = s[k]
      BY <1>3, <1>4, <3>1
    <3>3. QED
      BY <3>1, <3>2 DEF Range
  <2>3. QED
    BY <2>1, <2>2
<1>7. QED
  BY <1>1, <1>5, <1>6

(* RemoveFirst takes out one place of the element. *)
LEMMA FirstPlace ==
    ASSUME NEW S, NEW s \in Seq(S), NEW x \in Range(s)
    PROVE  \E k \in 1..Len(s) : s[k] = x /\ RemoveFirst(s, x) = RemoveAt(s, k)
<1> DEFINE I == {i \in 1..Len(s) : s[i] = x}
<1>1. I \subseteq Nat /\ I # {} /\ \E i \in 1..Len(s) : s[i] = x
  BY DEF Range
<1>2. PICK i \in I : \A j \in I : <<j, i>> \notin OpToRel(<, Nat)
  BY <1>1, WFMin, NatLessThanWellFounded, Zenon
<1>3. \A j \in I : ~(j < i)
  BY <1>1, <1>2, Zenon DEF OpToRel
<1>4. \A j \in I : i =< j
  BY <1>1, <1>3
<1>5. PICK k : k = Min(I)
  OBVIOUS
<1>6. k \in I
  BY <1>2, <1>4, <1>5 DEF Min
<1>7. SelectInSeq(s, LAMBDA v : v = x) = k
  BY <1>1, <1>5 DEF SelectInSeq
<1>8. RemoveFirst(s, x) = RemoveAt(s, k)
  BY <1>1, <1>7 DEF RemoveFirst
<1>9. QED
  BY <1>6, <1>8

(* An element that is taken out of a list. *)
LEMMA TakenOut ==
    ASSUME NEW S, NEW s \in Seq(S), NEW x
    PROVE  /\ RemoveFirst(s, x) \in Seq(S)
           /\ Len(RemoveFirst(s, x)) \in {Len(s), Len(s) - 1}
           /\ x \in Range(s) => Len(RemoveFirst(s, x)) = Len(s) - 1
           /\ Range(s) \ {x} \subseteq Range(RemoveFirst(s, x))
           /\ IsInjective(s) => /\ IsInjective(RemoveFirst(s, x))
                                /\ x \notin Range(RemoveFirst(s, x))
<1>1. CASE x \in Range(s)
  <2>1. PICK k \in 1..Len(s) : s[k] = x /\ RemoveFirst(s, x) = RemoveAt(s, k)
    BY <1>1, FirstPlace
  <2>2. PICK r : r = RemoveAt(s, k)
    OBVIOUS
  <2>3. /\ r \in Seq(S) /\ Len(r) = Len(s) - 1
        /\ \A j \in 1..Len(s) - 1 : r[j] = IF j < k THEN s[j] ELSE s[j + 1]
    BY <2>1, <2>2, RemoveAtProperties
  <2>4. Range(s) \ {x} \subseteq Range(r)
    <3>1. \A j \in DOMAIN s \ {k} : s[j] \in Range(r)
      BY <2>2, ElementsLeft
    <3>2. QED
      BY <2>1, <3>1 DEF Range
  <2>5. ASSUME IsInjective(s) PROVE IsInjective(r) /\ x \notin Range(r)
    <3> DEFINE at(j) == IF j < k THEN j ELSE j + 1
    <3>1. /\ DOMAIN r = 1..Len(s) - 1 /\ DOMAIN s = 1..Len(s)
          /\ Len(s) \in Nat /\ k \in DOMAIN s
      BY <2>3
    <3>2. \A j \in DOMAIN r : r[j] = s[at(j)] /\ at(j) \in DOMAIN s /\ at(j) # k
      BY <2>3, <3>1
    <3>3. \A i1, i2 \in DOMAIN r : at(i1) = at(i2) => i1 = i2
      BY <3>1
    <3> HIDE DEF at
    <3>4. IsInjective(r)
      BY <2>5, <3>2, <3>3 DEF IsInjective
    <3>5. \A j \in DOMAIN r : r[j] # x
      BY <2>1, <2>5, <3>1, <3>2 DEF IsInjective
    <3>6. QED
      BY <3>4, <3>5 DEF Range
  <2>6. QED
    BY <2>1, <2>2, <2>3, <2>4, <2>5
<1>2. CASE x \notin Range(s)
  <2>1. RemoveFirst(s, x) = s
    BY <1>2 DEF RemoveFirst, Range
  <2>2. QED
    BY <1>2, <2>1
<1>3. QED
  BY <1>1, <1>2

(* An element that is put into a list. *)
LEMMA PutIn ==
    ASSUME NEW S, NEW s \in Seq(S), NEW e \in S, NEW p \in 1..(Len(s) + 1)
    PROVE  /\ InsertAt(s, p, e) \in Seq(S)
           /\ Range(s) \cup {e} \subseteq Range(InsertAt(s, p, e))
           /\ IsInjective(s) /\ e \notin Range(s) => IsInjective(InsertAt(s, p, e))
<1>1. PICK r : r = InsertAt(s, p, e)
  OBVIOUS
<1>2. /\ r \in Seq(S) /\ Len(r) = Len(s) + 1
      /\ \A j \in 1..(Len(s) + 1) :
            r[j] = IF j < p THEN s[j] ELSE IF j = p THEN e ELSE s[j - 1]
  BY <1>1, InsertAtProperties
<1>3. /\ DOMAIN r = 1..(Len(s) + 1) /\ DOMAIN s = 1..Len(s)
      /\ Len(s) \in Nat /\ p \in DOMAIN r
  BY <1>2
<1>4. ASSUME IsInjective(s), e \notin Range(s) PROVE IsInjective(r)
  <2> DEFINE from(j) == IF j < p THEN j ELSE j - 1
  <2>1. r[p] = e /\ \A j \in DOMAIN r : j # p => r[j] = s[from(j)] /\ from(j) \in DOMAIN s
    BY <1>2, <1>3
  <2>2. \A j, k \in DOMAIN r : j # p /\ k # p /\ from(j) = from(k) => j = k
    BY <1>3
  <2>3. \A k \in DOMAIN s : s[k] # e
    BY <1>4 DEF Range
  <2> HIDE DEF from
  <2>4. QED
    BY <1>4, <2>1, <2>2, <2>3 DEF IsInjective
<1>5. ASSUME NEW k \in DOMAIN s PROVE s[k] \in Range(r)
  <2>1. CASE k < p
    <3>1. k \in DOMAIN r /\ r[k] = s[k]
      BY <1>2, <1>3, <2>1
    <3>2. QED
      BY <3>1 DEF Range
  <2>2. CASE ~(k < p)
    <3>1. k + 1 \in DOMAIN r /\ ~(k + 1 < p) /\ k + 1 # p /\ (k + 1) - 1 = k
      BY <1>3, <2>2
    <3>2. r[k + 1] = s[k]
      BY <1>2, <1>3, <3>1
    <3>3. QED
      BY <3>1, <3>2 DEF Range
  <2>3. QED
    BY <2>1, <2>2
<1>6. e \in Range(r)
  <2>1. r[p] = e
    BY <1>2, <1>3
  <2>2. QED
    BY <1>3, <2>1 DEF Range
<1>7. QED
  BY <1>1, <1>2, <1>4, <1>5, <1>6 DEF Range

LEMMA PutLast ==
    ASSUME NEW S, NEW s \in Seq(S), NEW e \in S
    PROVE  Append(s, e) = InsertAt(s, Len(s) + 1, e)
<1>1. /\ Append(s, e) \in Seq(S) /\ Len(Append(s, e)) = Len(s) + 1
      /\ Append(s, e)[Len(s) + 1] = e /\ Len(s) \in Nat
      /\ \A j \in 1..Len(s) : Append(s, e)[j] = s[j]
  BY AppendProperties
<1>2. Len(s) + 1 \in 1..(Len(s) + 1)
  BY <1>1
<1>3. PICK t : t = InsertAt(s, Len(s) + 1, e)
  OBVIOUS
<1>4. /\ t \in Seq(S) /\ Len(t) = Len(s) + 1
      /\ \A j \in 1..(Len(s) + 1) :
            t[j] = IF j < Len(s) + 1 THEN s[j] ELSE IF j = Len(s) + 1 THEN e ELSE s[j - 1]
  BY <1>2, <1>3, InsertAtProperties
<1>5. \A j \in 1..(Len(s) + 1) : t[j] = Append(s, e)[j]
  BY <1>1, <1>4
<1>6. t = Append(s, e)
  BY <1>1, <1>4, <1>5, SeqEqual
<1>7. QED
  BY <1>3, <1>6

-----------------------------------------------------------------------------
(* Lemmas about lists of movies and of objects *)

LEMMA RangeIsFinite ==
    ASSUME NEW S, NEW s \in Seq(S)
    PROVE  IsFiniteSet(Range(s))
<1>1. s \in [1..Len(s) -> Range(s)] /\ DOMAIN s = 1..Len(s) /\ Len(s) \in Nat
  BY DEF Range
<1>2. s \in Surjection(1..Len(s), Range(s))
  BY <1>1 DEF Surjection, Range
<1>3. IsFiniteSet(1..Len(s))
  BY <1>1, FS_Interval
<1>4. QED
  BY <1>2, <1>3, FS_Surjection

LEMMA IdsProperties ==
    ASSUME NEW s \in Seq(Objects)
    PROVE  /\ Ids(s) \in Seq(Movies)
           /\ Len(Ids(s)) = Len(s)
           /\ \A i \in 1..Len(s) : Ids(s)[i] = s[i].movie
<1>1. DOMAIN s = 1..Len(s) /\ Len(s) \in Nat
  OBVIOUS
<1>2. Ids(s) = [i \in 1..Len(s) |-> s[i].movie]
  BY <1>1 DEF Ids
<1>3. ASSUME NEW i \in 1..Len(s) PROVE s[i].movie \in Movies
  <2>1. s[i] \in Objects
    OBVIOUS
  <2>2. QED
    BY <2>1 DEF Objects
<1>4. QED
  BY <1>1, <1>2, <1>3

LEMMA IdsOfRemoveAt ==
    ASSUME NEW s \in Seq(Objects), NEW i \in 1..Len(s)
    PROVE  Ids(RemoveAt(s, i)) = RemoveAt(Ids(s), i)
<1>1. PICK a : a = Ids(RemoveAt(s, i))
  OBVIOUS
<1>2. PICK b : b = RemoveAt(Ids(s), i)
  OBVIOUS
<1>3. /\ Ids(s) \in Seq(Movies) /\ Len(Ids(s)) = Len(s)
      /\ \A j \in 1..Len(s) : Ids(s)[j] = s[j].movie
  BY IdsProperties
<1>4. /\ RemoveAt(s, i) \in Seq(Objects) /\ Len(RemoveAt(s, i)) = Len(s) - 1
      /\ \A j \in 1..Len(s) - 1 : RemoveAt(s, i)[j] = IF j < i THEN s[j] ELSE s[j + 1]
  BY RemoveAtProperties
<1>5. /\ a \in Seq(Movies) /\ Len(a) = Len(s) - 1
      /\ \A j \in 1..Len(s) - 1 : a[j] = (IF j < i THEN s[j] ELSE s[j + 1]).movie
  BY <1>1, <1>4, IdsProperties
<1>6. /\ b \in Seq(Movies) /\ Len(b) = Len(s) - 1
      /\ \A j \in 1..Len(s) - 1 : b[j] = IF j < i THEN Ids(s)[j] ELSE Ids(s)[j + 1]
  BY <1>2, <1>3, RemoveAtProperties
<1>7. ASSUME NEW j \in 1..Len(s) - 1 PROVE a[j] = b[j]
  <2>1. Len(s) \in Nat /\ j \in 1..Len(s) /\ j + 1 \in 1..Len(s)
    OBVIOUS
  <2>2. QED
    BY <1>3, <1>5, <1>6, <2>1
<1>8. a = b
  BY <1>5, <1>6, <1>7, SeqEqual
<1>9. QED
  BY <1>1, <1>2, <1>8

LEMMA IdsOfInsertAt ==
    ASSUME NEW s \in Seq(Objects), NEW e \in Objects, NEW p \in 1..(Len(s) + 1)
    PROVE  Ids(InsertAt(s, p, e)) = InsertAt(Ids(s), p, e.movie)
<1>1. PICK a : a = Ids(InsertAt(s, p, e))
  OBVIOUS
<1>2. PICK b : b = InsertAt(Ids(s), p, e.movie)
  OBVIOUS
<1>3. /\ Ids(s) \in Seq(Movies) /\ Len(Ids(s)) = Len(s)
      /\ \A j \in 1..Len(s) : Ids(s)[j] = s[j].movie
  BY IdsProperties
<1>4. /\ InsertAt(s, p, e) \in Seq(Objects) /\ Len(InsertAt(s, p, e)) = Len(s) + 1
      /\ \A j \in 1..(Len(s) + 1) :
            InsertAt(s, p, e)[j] = IF j < p THEN s[j] ELSE IF j = p THEN e ELSE s[j - 1]
  <2>1. PICK O : O = Objects
    OBVIOUS
  <2>2. s \in Seq(O) /\ e \in O
    BY <2>1
  <2>3. /\ InsertAt(s, p, e) \in Seq(O) /\ Len(InsertAt(s, p, e)) = Len(s) + 1
        /\ \A j \in 1..(Len(s) + 1) :
              InsertAt(s, p, e)[j] = IF j < p THEN s[j] ELSE IF j = p THEN e ELSE s[j - 1]
    BY <2>2, InsertAtProperties
  <2>4. QED
    BY <2>1, <2>3
<1>5. /\ a \in Seq(Movies) /\ Len(a) = Len(s) + 1
      /\ \A j \in 1..(Len(s) + 1) :
            a[j] = (IF j < p THEN s[j] ELSE IF j = p THEN e ELSE s[j - 1]).movie
  BY <1>1, <1>4, IdsProperties
<1>6. e.movie \in Movies
  BY DEF Objects
<1>7. /\ b \in Seq(Movies) /\ Len(b) = Len(s) + 1
      /\ \A j \in 1..(Len(s) + 1) :
            b[j] = IF j < p THEN Ids(s)[j] ELSE IF j = p THEN e.movie ELSE Ids(s)[j - 1]
  BY <1>2, <1>3, <1>6, InsertAtProperties, SMTT(60)
<1>8. ASSUME NEW j \in 1..(Len(s) + 1) PROVE a[j] = b[j]
  <2>1. Len(s) \in Nat /\ p \in 1..(Len(s) + 1)
    OBVIOUS
  <2>2. CASE j < p
    <3>1. j \in 1..Len(s)
      BY <2>1, <2>2
    <3>2. QED
      BY <1>3, <1>5, <1>7, <2>2, <3>1
  <2>3. CASE j = p
    BY <1>5, <1>7, <2>3
  <2>4. CASE j > p
    <3>1. j - 1 \in 1..Len(s) /\ ~(j < p) /\ j # p
      BY <2>1, <2>4
    <3>2. QED
      BY <1>3, <1>5, <1>7, <3>1
  <2>5. QED
    BY <2>1, <2>2, <2>3, <2>4
<1>9. a = b
  BY <1>5, <1>7, <1>8, SeqEqual
<1>10. QED
  BY <1>1, <1>2, <1>9

LEMMA ContentsProperties ==
    ASSUME NEW s
    PROVE  s \in Contents <=> s \in Seq(Movies) /\ IsInjective(s)
<1>1. ASSUME s \in Contents PROVE s \in Seq(Movies) /\ IsInjective(s)
  <2>1. PICK m \in 0..Cardinality(Movies) : s \in [1..m -> Movies]
    BY <1>1 DEF Contents, BoundedSeq, SeqOf
  <2>2. m \in Nat
    OBVIOUS
  <2>3. QED
    BY <1>1, <2>1, <2>2 DEF Contents
<1>2. ASSUME s \in Seq(Movies), IsInjective(s) PROVE s \in Contents
  <2>1. s \in [1..Len(s) -> Movies] /\ Len(s) \in Nat
    BY <1>2
  <2>2. s \in Injection(1..Len(s), Movies)
    BY <1>2, <2>1 DEF Injection
  <2>3. IsFiniteSet(Movies)
    BY NetflixAssumption
  <2>4. Cardinality(1..Len(s)) <= Cardinality(Movies)
    BY <2>2, <2>3, FS_Injection
  <2>5. Cardinality(1..Len(s)) = Len(s)
    <3>1. 1 \in Int /\ Len(s) \in Int
      BY <2>1
    <3>2. Cardinality(1..Len(s)) = IF 1 > Len(s) THEN 0 ELSE Len(s) - 1 + 1
      BY <3>1, FS_Interval
    <3>3. QED
      BY <2>1, <3>2
  <2>6. Len(s) \in 0..Cardinality(Movies)
    BY <2>1, <2>3, <2>4, <2>5, FS_CardinalityType
  <2>7. QED
    BY <1>2, <2>1, <2>6 DEF Contents, BoundedSeq, SeqOf
<1>3. QED
  BY <1>1, <1>2

LEMMA MadeProperties ==
    ASSUME NEW s \in Seq(Movies), NEW c \in Nat
    PROVE  Made(s, c) \in Seq(Objects) /\ Ids(Made(s, c)) = s
<1>1. DOMAIN s = 1..Len(s) /\ Len(s) \in Nat
  OBVIOUS
<1>2. Made(s, c) = [i \in 1..Len(s) |-> [movie |-> s[i], copy |-> c]]
  BY <1>1 DEF Made
<1>3. \A i \in 1..Len(s) : [movie |-> s[i], copy |-> c] \in Objects
  BY DEF Objects
<1>4. Made(s, c) \in Seq(Objects) /\ Len(Made(s, c)) = Len(s)
  BY <1>1, <1>2, <1>3
<1>5. \A i \in 1..Len(s) : Made(s, c)[i].movie = s[i]
  BY <1>2
<1>6. PICK t : t = Ids(Made(s, c))
  OBVIOUS
<1>7. t \in Seq(Movies) /\ Len(t) = Len(s) /\ \A i \in 1..Len(s) : t[i] = s[i]
  BY <1>4, <1>5, <1>6, IdsProperties
<1>8. t = s
  BY <1>7, SeqEqual
<1>9. QED
  BY <1>4, <1>6, <1>8

LEMMA IdsOfRemoveFirst ==
    ASSUME NEW s \in Seq(Objects), IsInjective(Ids(s)), NEW x \in Range(s)
    PROVE  Ids(RemoveFirst(s, x)) = RemoveFirst(Ids(s), x.movie)
<1>1. PICK k \in 1..Len(s) : s[k] = x /\ RemoveFirst(s, x) = RemoveAt(s, k)
  BY FirstPlace
<1>2. /\ Ids(s) \in Seq(Movies) /\ Len(Ids(s)) = Len(s)
      /\ \A i \in 1..Len(s) : Ids(s)[i] = s[i].movie
      /\ DOMAIN Ids(s) = 1..Len(s)
  BY IdsProperties
<1>3. Ids(s)[k] = x.movie /\ x.movie \in Range(Ids(s))
  BY <1>1, <1>2 DEF Range
<1>4. PICK l \in 1..Len(s) :
         Ids(s)[l] = x.movie /\ RemoveFirst(Ids(s), x.movie) = RemoveAt(Ids(s), l)
  <2>1. PICK ids : ids = Ids(s)
    OBVIOUS
  <2>2. ids \in Seq(Movies) /\ x.movie \in Range(ids) /\ Len(ids) = Len(s)
    BY <1>2, <1>3, <2>1
  <2>3. \E l \in 1..Len(ids) : ids[l] = x.movie /\ RemoveFirst(ids, x.movie) = RemoveAt(ids, l)
    BY <2>2, FirstPlace
  <2>4. QED
    BY <2>1, <2>2, <2>3
<1>5. k = l
  BY <1>2, <1>3, <1>4 DEF IsInjective
<1>6. Ids(RemoveAt(s, k)) = RemoveAt(Ids(s), k)
  BY IdsOfRemoveAt
<1>7. QED
  BY <1>1, <1>4, <1>5, <1>6

FourKinds == {"top", "add", "reorder", "delete"}

(* The place of a change is a place in this list. *)
Fitting(s, kind, x, position) ==
    /\ kind = "add" => position \in -1..Len(s)
    /\ kind \in {"top", "reorder"} => position \in 0..Len(RemoveFirst(s, x))

(* What a change makes of a list. *)
LEMMA ChangedProperties ==
    ASSUME NEW S, NEW s \in Seq(S), NEW x \in S, NEW kind \in FourKinds, NEW position \in Int,
           Fitting(s, kind, x, position)
    PROVE  /\ Changed(s, kind, x, position) \in Seq(S)
           /\ \A y \in Range(s) :
                 (kind = "delete" => y # x) => y \in Range(Changed(s, kind, x, position))
           /\ IsInjective(s) /\ (kind = "add" => x \notin Range(s))
                 => IsInjective(Changed(s, kind, x, position))
<1>1. PICK r : r = RemoveFirst(s, x)
  OBVIOUS
<1>2. /\ r \in Seq(S) /\ Len(r) \in Nat /\ Len(s) \in Nat
      /\ Range(s) \ {x} \subseteq Range(r)
      /\ IsInjective(s) => IsInjective(r) /\ x \notin Range(r)
  <2>1. /\ r \in Seq(S)
        /\ Range(s) \ {x} \subseteq Range(r)
        /\ IsInjective(s) => IsInjective(r) /\ x \notin Range(r)
    BY <1>1, TakenOut
  <2>2. QED
    BY <2>1
<1>3. CASE kind = "delete"
  <2>1. Changed(s, kind, x, position) = r
    BY <1>1, <1>3 DEF Changed
  <2>2. QED
    BY <1>2, <1>3, <2>1
<1>4. CASE kind = "add"
  <2>1. PICK p \in 1..(Len(s) + 1) : Changed(s, kind, x, position) = InsertAt(s, p, x)
    <3>1. Changed(s, kind, x, position) = IF position = -1 THEN Append(s, x)
                                          ELSE InsertAt(s, position + 1, x)
      BY <1>4 DEF Changed
    <3>2. CASE position = -1
      BY <1>2, <3>1, <3>2, PutLast
    <3>3. CASE position # -1
      <4>1. position + 1 \in 1..(Len(s) + 1)
        BY <1>2, <1>4, <3>3 DEF Fitting
      <4>2. QED
        BY <3>1, <3>3, <4>1
    <3>4. QED
      BY <3>2, <3>3
  <2>2. QED
    BY <1>4, <2>1, PutIn
<1>5. CASE kind \in {"top", "reorder"}
  <2>1. Changed(s, kind, x, position) = InsertAt(r, position + 1, x)
    BY <1>1, <1>5 DEF Changed
  <2>2. position + 1 \in 1..(Len(r) + 1)
    BY <1>1, <1>2, <1>5 DEF Fitting
  <2>3. /\ InsertAt(r, position + 1, x) \in Seq(S)
        /\ Range(r) \cup {x} \subseteq Range(InsertAt(r, position + 1, x))
        /\ IsInjective(r) /\ x \notin Range(r) => IsInjective(InsertAt(r, position + 1, x))
    BY <1>2, <2>2, PutIn
  <2>4. QED
    BY <1>2, <1>5, <2>1, <2>3
<1>6. QED
  BY <1>3, <1>4, <1>5 DEF FourKinds

(* It makes the same of objects and of their movies. *)
LEMMA ChangedIds ==
    ASSUME NEW s \in Seq(Objects), NEW x \in Objects, NEW kind \in FourKinds,
           NEW position \in Int, Fitting(s, kind, x, position), IsInjective(Ids(s)),
           kind # "add" => x \in Range(s)
    PROVE  Ids(Changed(s, kind, x, position)) = Changed(Ids(s), kind, x.movie, position)
<1>1. PICK r : r = RemoveFirst(s, x)
  OBVIOUS
<1>2. r \in Seq(Objects) /\ Len(r) \in Nat /\ Len(s) \in Nat
  BY <1>1, TakenOut
<1>3. kind # "add" => Ids(r) = RemoveFirst(Ids(s), x.movie)
  BY <1>1, IdsOfRemoveFirst
<1>4. /\ Ids(s) \in Seq(Movies) /\ Len(Ids(s)) = Len(s) /\ x.movie \in Movies
  BY IdsProperties DEF Objects
<1>5. CASE kind = "delete"
  BY <1>1, <1>3, <1>5 DEF Changed
<1>6. CASE kind = "add"
  <2>1. CASE position = -1
    <3>1. Changed(s, kind, x, position) = InsertAt(s, Len(s) + 1, x)
      BY <1>6, <2>1, PutLast DEF Changed
    <3>2. Changed(Ids(s), kind, x.movie, position) = InsertAt(Ids(s), Len(s) + 1, x.movie)
      <4>1. Append(Ids(s), x.movie) = InsertAt(Ids(s), Len(Ids(s)) + 1, x.movie)
        BY <1>4, PutLast
      <4>2. QED
        BY <1>4, <1>6, <2>1, <4>1 DEF Changed
    <3>3. Len(s) + 1 \in 1..(Len(s) + 1)
      BY <1>2
    <3>4. QED
      BY <3>1, <3>2, <3>3, IdsOfInsertAt
  <2>2. CASE position # -1
    <3>1. position + 1 \in 1..(Len(s) + 1)
      BY <1>2, <1>6, <2>2 DEF Fitting
    <3>2. QED
      BY <1>6, <2>2, <3>1, IdsOfInsertAt DEF Changed
  <2>3. QED
    BY <2>1, <2>2
<1>7. CASE kind \in {"top", "reorder"}
  <2>1. position + 1 \in 1..(Len(r) + 1)
    BY <1>1, <1>2, <1>7 DEF Fitting
  <2>2. Ids(InsertAt(r, position + 1, x)) = InsertAt(Ids(r), position + 1, x.movie)
    BY <1>2, <2>1, IdsOfInsertAt
  <2>3. Changed(s, kind, x, position) = InsertAt(r, position + 1, x)
    BY <1>1, <1>7 DEF Changed
  <2>4. Changed(Ids(s), kind, x.movie, position) = InsertAt(Ids(r), position + 1, x.movie)
    BY <1>3, <1>7 DEF Changed
  <2>5. QED
    BY <2>2, <2>3, <2>4
<1>8. QED
  BY <1>5, <1>6, <1>7 DEF FourKinds

-----------------------------------------------------------------------------
(* The types *)

Places == {"edit", "etag", "check", "fetch", "queueFile", "etagFile", "memory"}
NoneOrQueues == Queues \cup {NoQueue}
NoneOrFiles == QueueFiles \cup {NoQueue}
AnyView == CHOOSE v \in Views : TRUE

(* A change names a place from the front, or the end for an addition. *)
PlacedChanges ==
    {change \in Changes : /\ change.kind = "add" => change.position \in Nat \cup {-1}
                          /\ change.kind \in {"top", "reorder"} => change.position \in Nat}

Operations == [kind : {"edit", "download"}, view : Views \cup {AnyView},
               queue : NoneOrQueues, todo : Seq(PlacedChanges), force : BOOLEAN]
Started == [kind : {"edit", "download"}, view : Views \cup {AnyView},
            queue : NoneOrQueues, todo : Seq(PlacedChanges), force : BOOLEAN,
            ok : BOOLEAN, moved : Seq(Objects), at : Places]

(* An edit takes along a queue and changes. *)
EditTyped(op) ==
    op.kind = "edit" /\ op.view \in Views /\ op.queue \in Queues /\ op.todo # <<>>

ViewStates == [screen : Screens, queue : NoneOrQueues, rows : Seq(Objects), busy : BOOLEAN]

ServerTyped == server \in Seq(Contents) /\ Len(server) \in 1..MaxEtag

CopiesTyped ==
    /\ memory \in NoneOrQueues /\ queueFile \in NoneOrFiles
    /\ etagFile \in 0..MaxEtag
    /\ views \in [Views -> ViewStates]

PendingTyped ==
    /\ pending \in Seq(Operations)
    /\ \A i \in DOMAIN pending : pending[i].kind = "edit" => EditTyped(pending[i])

RunningTyped ==
    running # <<>> =>
        /\ running = <<running[1]>> /\ running[1] \in Started
        /\ running[1].kind = "edit" => running[1].view \in Views
        /\ running[1].at \in {"edit", "etag"} => EditTyped(running[1])
        /\ running[1].at \in {"queueFile", "etagFile", "memory"} => running[1].queue \in Queues

TypeInv ==
    /\ ServerTyped
    /\ CopiesTyped
    /\ PendingTyped
    /\ RunningTyped
    /\ reports \subseteq Reports
    /\ blind \in BOOLEAN /\ overtaken \in BOOLEAN /\ torn \in BOOLEAN

LEMMA NothingTyped ==
    /\ NoQueue \in NoneOrQueues /\ NoQueue \in NoneOrFiles /\ NoQueue.movies = <<>>
    /\ \A screen \in Screens : Closed(screen) \in ViewStates
BY DEF NoQueue, NoneOrQueues, NoneOrFiles, Closed, ViewStates

LEMMA AQueue ==
    /\ \A queue \in NoneOrQueues : queue.movies \in Seq(Objects)
    /\ \A queue \in NoneOrQueues : queue # NoQueue => queue \in Queues
    /\ \A file \in NoneOrFiles : file # NoQueue => file \in QueueFiles
<1>1. NoQueue.movies \in Seq(Objects)
  BY NothingTyped
<1>2. \A queue \in Queues : queue.movies \in Seq(Objects)
  BY DEF Queues
<1>3. QED
  BY <1>1, <1>2 DEF NoneOrQueues, NoneOrFiles

LEMMA TypeInit == ASSUME Init PROVE TypeInv
<1>1. /\ server = <<FirstQueue>>
      /\ memory = NoQueue /\ pending = <<>> /\ running = <<>> /\ reports = {}
      /\ blind = FALSE /\ overtaken = FALSE /\ torn = FALSE
      /\ views \in Opened
      /\ \/ queueFile = NoQueue /\ etagFile = 0
         \/ queueFile = [etag |-> 1, movies |-> server[1]] /\ etagFile = 1
  BY DEF Init, NoEtag
<1>2. MaxEtag \in Nat \ {0} /\ FirstQueue \in Seq(Movies) /\ IsInjective(FirstQueue)
  BY NetflixAssumption
<1>3. FirstQueue \in Contents
  BY <1>2, ContentsProperties
<1>4. ServerTyped
  BY <1>1, <1>2, <1>3 DEF ServerTyped
<1>5. queueFile \in NoneOrFiles /\ etagFile \in 0..MaxEtag
  BY <1>1, <1>2 DEF NoneOrFiles, QueueFiles
<1>6. views \in [Views -> ViewStates]
  BY <1>1, NothingTyped DEF Opened
<1>7. CopiesTyped
  BY <1>1, <1>5, <1>6 DEF CopiesTyped, NoneOrQueues
<1>8. PendingTyped /\ RunningTyped
  BY <1>1 DEF PendingTyped, RunningTyped
<1>9. QED
  BY <1>1, <1>4, <1>7, <1>8 DEF TypeInv

-----------------------------------------------------------------------------
(* There is always a mark for new objects *)

LEMMA ImageIsFinite ==
    ASSUME NEW S, IsFiniteSet(S), NEW f, DOMAIN f = S, f = [x \in S |-> f[x]]
    PROVE  IsFiniteSet({f[x] : x \in S})
<1>1. f \in Surjection(S, {f[x] : x \in S})
  BY DEF Surjection
<1>2. QED
  BY <1>1, FS_Surjection

LEMMA HeldIsFinite ==
    ASSUME NEW op, op \in Operations \cup Started
    PROVE  IsFiniteSet(HeldBy(op))
<1>1. op.queue \in NoneOrQueues /\ op.todo \in Seq(PlacedChanges)
  BY DEF Operations, Started
<1>2. IsFiniteSet(Range(op.queue.movies)) /\ IsFiniteSet(Range(op.todo))
  BY <1>1, AQueue, RangeIsFinite
<1>3. IsFiniteSet({change.object : change \in Range(op.todo)})
  <2> DEFINE f == [change \in Range(op.todo) |-> change.object]
  <2>1. DOMAIN f = Range(op.todo) /\ f = [change \in Range(op.todo) |-> f[change]]
    OBVIOUS
  <2>2. {f[change] : change \in Range(op.todo)} = {change.object : change \in Range(op.todo)}
    OBVIOUS
  <2> HIDE DEF f
  <2>3. IsFiniteSet({f[change] : change \in Range(op.todo)})
    BY <1>2, <2>1, ImageIsFinite
  <2>4. QED
    BY <2>2, <2>3
<1>4. QED
  BY <1>2, <1>3, FS_Union DEF HeldBy

LEMMA InUseIsFinite ==
    ASSUME TypeInv PROVE IsFiniteSet(InUse)
<1>1. CopiesTyped /\ PendingTyped /\ RunningTyped
  BY DEF TypeInv
<1>2. IsFiniteSet(Range(memory.movies))
  BY <1>1, AQueue, RangeIsFinite DEF CopiesTyped
<1>3. IsFiniteSet(UNION {ShownBy(views[v]) : v \in Views})
  <2> DEFINE f == [v \in Views |-> ShownBy(views[v])]
  <2>1. ASSUME NEW v \in Views PROVE IsFiniteSet(f[v])
    <3>1. views[v].queue \in NoneOrQueues /\ views[v].rows \in Seq(Objects)
      BY <1>1 DEF CopiesTyped, ViewStates
    <3>2. IsFiniteSet(Range(views[v].queue.movies)) /\ IsFiniteSet(Range(views[v].rows))
      BY <3>1, AQueue, RangeIsFinite
    <3>3. IsFiniteSet(ShownBy(views[v]))
      BY <3>2, FS_Union DEF ShownBy
    <3>4. QED
      BY <3>3
  <2>2. DOMAIN f = Views /\ f = [v \in Views |-> f[v]]
    OBVIOUS
  <2>3. {f[v] : v \in Views} = {ShownBy(views[v]) : v \in Views}
    OBVIOUS
  <2> HIDE DEF f
  <2>4. IsFiniteSet({f[v] : v \in Views})
    BY <2>2, ImageIsFinite, NetflixAssumption
  <2>5. IsFiniteSet(UNION {f[v] : v \in Views})
    <3>1. \A T \in {f[v] : v \in Views} : IsFiniteSet(T)
      BY <2>1
    <3>2. QED
      BY <2>4, <3>1, FS_UNION
  <2>6. QED
    BY <2>3, <2>5
<1>4. IsFiniteSet(UNION {HeldBy(op) : op \in Range(pending) \cup Range(running)})
  <2> DEFINE ops == Range(pending) \cup Range(running)
             f == [op \in ops |-> HeldBy(op)]
  <2>1. pending \in Seq(Operations) /\ Range(pending) \subseteq Operations
    BY <1>1 DEF PendingTyped, Range
  <2>2. running \in Seq(Started) /\ Range(running) \subseteq Started
    <3>1. running = <<>> \/ (running = <<running[1]>> /\ running[1] \in Started)
      BY <1>1 DEF RunningTyped
    <3>2. running \in Seq(Started)
      <4>1. CASE running = <<>>
        BY <4>1
      <4>2. CASE running = <<running[1]>> /\ running[1] \in Started
        <5>1. PICK run : run = running[1]
          OBVIOUS
        <5>2. run \in Started /\ <<run>> \in Seq(Started) /\ running = <<run>>
          BY <4>2, <5>1
        <5>3. QED
          BY <5>2
      <4>3. QED
        BY <3>1, <4>1, <4>2
    <3>3. \A i \in DOMAIN running : running[i] \in Started
      BY <3>2
    <3>4. QED
      BY <3>2, <3>3 DEF Range
  <2>3. IsFiniteSet(ops)
    BY <2>1, <2>2, RangeIsFinite, FS_Union
  <2>4. \A op \in ops : IsFiniteSet(HeldBy(op))
    BY <2>1, <2>2, HeldIsFinite
  <2>5. DOMAIN f = ops /\ f = [op \in ops |-> f[op]] /\ \A op \in ops : f[op] = HeldBy(op)
    OBVIOUS
  <2>6. {f[op] : op \in ops} = {HeldBy(op) : op \in ops}
    BY <2>5
  <2> HIDE DEF f, ops
  <2>7. IsFiniteSet({f[op] : op \in ops})
    BY <2>3, <2>5, ImageIsFinite
  <2>8. \A T \in {f[op] : op \in ops} : IsFiniteSet(T)
    BY <2>4, <2>5
  <2>9. IsFiniteSet(UNION {f[op] : op \in ops})
    BY <2>7, <2>8, FS_UNION
  <2>10. QED
    BY <2>6, <2>9 DEF ops
<1>5. IsFiniteSet(Range(memory.movies) \cup (UNION {ShownBy(views[v]) : v \in Views}))
  BY <1>2, <1>3, FS_Union
<1>6. QED
  BY <1>4, <1>5, FS_Union DEF InUse

LEMMA FreshTyped == ASSUME TypeInv PROVE Fresh \in Nat
<1> DEFINE used == {x.copy : x \in InUse}
           n == Cardinality(used)
<1>1. IsFiniteSet(used)
  <2> DEFINE f == [x \in InUse |-> x.copy]
  <2>1. DOMAIN f = InUse /\ f = [x \in InUse |-> f[x]] /\ \A x \in InUse : f[x] = x.copy
    OBVIOUS
  <2> HIDE DEF f
  <2>2. {f[x] : x \in InUse} = used
    BY <2>1
  <2> HIDE DEF used
  <2>3. IsFiniteSet({f[x] : x \in InUse})
    BY <2>1, InUseIsFinite, ImageIsFinite
  <2>4. QED
    BY <2>2, <2>3
<1> HIDE DEF used
<1>2. n \in Nat
  BY <1>1, FS_CardinalityType
<1>3. \E k \in 0..n : k \notin used
  <2> SUFFICES ASSUME 0..n \subseteq used PROVE FALSE
    OBVIOUS
  <2>1. Cardinality(0..n) <= n
    BY <1>1, FS_Subset
  <2>2. Cardinality(0..n) = n + 1
    <3>1. Cardinality(0..n) = IF 0 > n THEN 0 ELSE n - 0 + 1
      BY <1>2, FS_Interval
    <3>2. QED
      BY <1>2, <3>1
  <2>3. QED
    BY <1>2, <2>1, <2>2
<1>4. Fresh = CHOOSE k \in 0..n : k \notin used
  BY DEF Fresh, used
<1> HIDE DEF n
<1>5. PICK k : k = CHOOSE i \in 0..n : i \notin used
  OBVIOUS
<1>6. k \in 0..n
  BY <1>3, <1>5
<1>7. Fresh = k
  BY <1>4, <1>5
<1>8. QED
  BY <1>2, <1>6, <1>7

(* What the file has in place of a queue in memory. *)
InFile(queue) == [queue EXCEPT !.movies = Ids(@)]

(* The queue of the cache is the one in memory, or new objects for the file. *)
LEMMA QueueForFeedProperties ==
    ASSUME TypeInv
    PROVE  /\ QueueForFeed \in NoneOrQueues
           /\ \/ QueueForFeed = memory
              \/ /\ memory = NoQueue /\ queueFile # NoQueue
                 /\ QueueForFeed \in Queues
                 /\ InFile(QueueForFeed) = queueFile
                 /\ QueueForFeed.etag = queueFile.etag
                 /\ Ids(QueueForFeed.movies) = queueFile.movies
<1>1. memory \in NoneOrQueues /\ queueFile \in NoneOrFiles
  BY DEF TypeInv, CopiesTyped
<1>2. CASE memory # NoQueue \/ queueFile = NoQueue
  BY <1>1, <1>2 DEF QueueForFeed
<1>3. CASE memory = NoQueue /\ queueFile # NoQueue
  <2>1. queueFile \in QueueFiles /\ queueFile.movies \in Seq(Movies)
    BY <1>1, <1>3, AQueue DEF QueueFiles
  <2>2. PICK made : made = Made(queueFile.movies, Fresh)
    OBVIOUS
  <2>3. made \in Seq(Objects) /\ Ids(made) = queueFile.movies
    BY <2>1, <2>2, FreshTyped, MadeProperties
  <2>4. PICK queue : queue = QueueForFeed
    OBVIOUS
  <2>5. queue = [etag |-> queueFile.etag, movies |-> made]
    BY <1>3, <2>2, <2>4 DEF QueueForFeed
  <2>6. queue \in Queues /\ queue.etag = queueFile.etag /\ queue.movies = made
    BY <2>1, <2>3, <2>5 DEF Queues, QueueFiles
  <2>7. InFile(queue) = queueFile
    BY <2>1, <2>3, <2>5 DEF InFile, QueueFiles
  <2>8. QED
    BY <1>3, <2>3, <2>4, <2>6, <2>7 DEF NoneOrQueues
<1>4. QED
  BY <1>2, <1>3

-----------------------------------------------------------------------------
(* The types: what steps have in common *)

LEMMA LatestTyped ==
    ASSUME ServerTyped
    PROVE  /\ serverMovies \in Contents /\ serverMovies \in Seq(Movies)
           /\ IsInjective(serverMovies)
           /\ serverEtag \in 1..MaxEtag /\ serverEtag = Len(server)
           /\ serverMovies = server[Len(server)]
<1>1. server \in Seq(Contents) /\ Len(server) \in 1..Len(server) /\ Len(server) \in 1..MaxEtag
  BY DEF ServerTyped
<1>2. server[Len(server)] \in Contents
  BY <1>1
<1>3. QED
  BY <1>1, <1>2, ContentsProperties DEF serverMovies, serverEtag, Last

LEMMA ServerMadeTyped ==
    ASSUME ServerTyped, serverEtag < MaxEtag, NEW kind \in FourKinds, NEW m \in Movies,
           NEW position \in Int, Fitting(serverMovies, kind, m, position),
           kind = "add" => m \notin Range(serverMovies),
           ServerMakes(kind, m, position)
    PROVE  ServerTyped'
<1>1. PICK movies : movies = Changed(serverMovies, kind, m, position)
  OBVIOUS
<1>2. movies \in Contents
  BY <1>1, LatestTyped, ChangedProperties, ContentsProperties
<1>3. server' = Append(server, movies)
  BY <1>1 DEF ServerMakes
<1>4. server \in Seq(Contents) /\ Len(server) \in Nat
  BY DEF ServerTyped
<1>5. server' \in Seq(Contents) /\ Len(server') = Len(server) + 1
  BY <1>2, <1>3, <1>4, AppendProperties
<1>6. MaxEtag \in Nat
  BY NetflixAssumption
<1>7. QED
  BY <1>4, <1>5, <1>6 DEF ServerTyped, serverEtag

LEMMA AcceptedFits ==
    ASSUME ServerTyped, NEW queue, NEW change \in PlacedChanges, Accepts(queue, change)
    PROVE  /\ change.kind \in FourKinds /\ change.object \in Objects
           /\ change.object.movie \in Movies /\ change.position \in Int
           /\ Fitting(serverMovies, change.kind, change.object.movie, change.position)
           /\ change.kind = "add" => change.object.movie \notin Range(serverMovies)
           /\ serverEtag < MaxEtag
<1>1. /\ change.kind \in FourKinds /\ change.object \in Objects /\ change.position \in Int
      /\ change.kind = "add" => change.position \in Nat \cup {-1}
      /\ change.kind \in {"top", "reorder"} => change.position \in Nat
  BY DEF PlacedChanges, Changes, FourKinds
<1>2. change.object.movie \in Movies
  BY <1>1 DEF Objects
<1>3. /\ HasPlace(change, Len(serverMovies)) /\ serverEtag < MaxEtag
      /\ change.kind = "add" => change.object.movie \notin Range(serverMovies)
      /\ change.kind # "add" => change.object.movie \in Range(serverMovies)
  BY DEF Accepts, Mismatch
<1>4. serverMovies \in Seq(Movies) /\ Len(serverMovies) \in Nat
  BY LatestTyped
<1>5. change.kind = "add" => change.position \in -1..Len(serverMovies)
  BY <1>1, <1>3, <1>4 DEF HasPlace
<1>6. ASSUME change.kind \in {"top", "reorder"}
      PROVE  change.position \in 0..Len(RemoveFirst(serverMovies, change.object.movie))
  <2>1. Len(RemoveFirst(serverMovies, change.object.movie)) = Len(serverMovies) - 1
    BY <1>3, <1>4, <1>6, TakenOut
  <2>2. change.position < Len(serverMovies)
    BY <1>3, <1>6 DEF HasPlace
  <2>3. QED
    BY <1>1, <1>4, <1>6, <2>1, <2>2
<1>7. QED
  BY <1>1, <1>2, <1>3, <1>5, <1>6 DEF Fitting

LEMMA AcceptedTyped ==
    ASSUME ServerTyped, NEW queue, NEW change \in PlacedChanges, Accepts(queue, change),
           ServerDoes(change)
    PROVE  ServerTyped'
BY AcceptedFits, ServerMadeTyped DEF ServerDoes

LEMMA OneMorePending ==
    ASSUME pending \in Seq(Operations), NEW op \in Operations, pending' = Append(pending, op)
    PROVE  /\ pending' \in Seq(Operations)
           /\ \A i \in DOMAIN pending' : \/ pending'[i] = op
                                         \/ \E k \in DOMAIN pending : pending'[i] = pending[k]
<1>1. /\ pending' \in Seq(Operations) /\ Len(pending') = Len(pending) + 1
      /\ \A i \in 1..Len(pending) : pending'[i] = pending[i]
      /\ pending'[Len(pending) + 1] = op
      /\ DOMAIN pending = 1..Len(pending) /\ Len(pending) \in Nat
      /\ DOMAIN pending' = 1..(Len(pending) + 1)
  BY AppendProperties
<1>2. QED
  BY <1>1

LEMMA OneMoreTyped ==
    ASSUME PendingTyped, NEW op \in Operations, pending' = Append(pending, op),
           op.kind = "edit" => EditTyped(op)
    PROVE  PendingTyped'
BY OneMorePending DEF PendingTyped, EditTyped

LEMMA DownloadTyped ==
    ASSUME NEW force \in BOOLEAN
    PROVE  Download(force) \in Operations /\ Download(force).kind = "download"
<1>1. <<>> \in Seq(PlacedChanges)
  OBVIOUS
<1>2. QED
  BY <1>1 DEF Download, Operations, NoneOrQueues, AnyView

LEMMA EditIsTyped ==
    ASSUME NEW v \in Views, NEW queue \in Queues, NEW todo \in Seq(PlacedChanges), todo # <<>>
    PROVE  /\ Edit(v, queue, todo) \in Operations /\ EditTyped(Edit(v, queue, todo))
           /\ Edit(v, queue, todo).queue = queue /\ Edit(v, queue, todo).todo = todo
BY DEF Edit, Operations, EditTyped, NoneOrQueues

(* What the user can ask for names different rows of the view. *)
LEMMA TodosProperties ==
    ASSUME NEW v \in Views, views[v].rows \in Seq(Objects), NEW todo \in Todos(v)
    PROVE  /\ todo \in Seq(PlacedChanges) /\ todo # <<>>
           /\ \A i \in DOMAIN todo : todo[i].object \in Range(views[v].rows)
           /\ \A i, j \in DOMAIN todo : i < j => todo[i].object # todo[j].object
<1> DEFINE rows == views[v].rows
           tops == {Change("top", rows[i], 0) : i \in 2..Len(rows)}
           deletes == {Change("delete", x, -1) : x \in Range(rows)}
           moves(n) == {Change("reorder", x, p) : x \in Range(rows), p \in 0..(n - 1)}
           Named == {change \in PlacedChanges : change.object \in Range(rows)}
<1>1. Range(rows) \subseteq Objects /\ \A i \in 2..Len(rows) : rows[i] \in Range(rows)
  BY DEF Range
<1>2. tops \subseteq Named
  <2> SUFFICES ASSUME NEW i \in 2..Len(rows) PROVE Change("top", rows[i], 0) \in Named
    OBVIOUS
  <2>1. rows[i] \in Range(rows) /\ rows[i] \in Objects
    BY <1>1
  <2>2. QED
    BY <2>1 DEF Change, PlacedChanges, Changes
<1>3. deletes \subseteq Named
  <2> SUFFICES ASSUME NEW x \in Range(rows) PROVE Change("delete", x, -1) \in Named
    OBVIOUS
  <2>1. QED
    BY <1>1 DEF Change, PlacedChanges, Changes
<1>4. ASSUME NEW n \in Int PROVE moves(n) \subseteq Named
  <2> SUFFICES ASSUME NEW x \in Range(rows), NEW p \in 0..(n - 1)
               PROVE  Change("reorder", x, p) \in Named
    OBVIOUS
  <2>1. p \in Nat /\ p \in Int
    OBVIOUS
  <2>2. QED
    BY <1>1, <2>1 DEF Change, PlacedChanges, Changes
<1>5. Len(rows) \in Nat
  OBVIOUS
<1>6. \/ \E change \in Named : todo = <<change>>
      \/ \E delete \in Named, move \in Named : todo = <<delete, move>>
  <2>1. \/ \E change \in tops \cup deletes : todo = <<change>>
        \/ \E move \in moves(Len(rows)) : todo = <<move>>
        \/ \E delete \in deletes, move \in moves(Len(rows) - 1) : todo = <<delete, move>>
    BY DEF Todos
  <2> HIDE DEF tops, deletes, moves, Named, rows
  <2>2. moves(Len(rows)) \subseteq Named /\ moves(Len(rows) - 1) \subseteq Named
    BY <1>4, <1>5
  <2>3. QED
    BY <1>2, <1>3, <2>1, <2>2
<1>7. Len(todo) = 2 => todo[1].object # todo[2].object
  BY DEF Todos
<1>8. \A change \in Named : change \in PlacedChanges /\ change.object \in Range(rows)
  OBVIOUS
<1> HIDE DEF Named
<1>9. CASE \E change \in Named : todo = <<change>>
  <2>1. PICK change \in Named : todo = <<change>>
    BY <1>9
  <2>2. DOMAIN todo = {1} /\ todo[1] = change /\ todo # <<>>
    BY <2>1
  <2>3. todo \in Seq(PlacedChanges)
    BY <1>8, <2>1
  <2>4. QED
    BY <1>8, <2>2, <2>3
<1>10. CASE \E delete \in Named, move \in Named : todo = <<delete, move>>
  <2>1. PICK delete \in Named, move \in Named : todo = <<delete, move>>
    BY <1>10
  <2>2. DOMAIN todo = {1, 2} /\ todo[1] = delete /\ todo[2] = move /\ Len(todo) = 2
    BY <2>1
  <2>3. todo \in Seq(PlacedChanges) /\ todo # <<>>
    BY <1>8, <2>1
  <2>4. QED
    BY <1>7, <1>8, <2>2, <2>3
<1>11. QED
  BY <1>6, <1>9, <1>10

LEMMA RestTyped ==
    ASSUME TypeInv
    PROVE  /\ UNCHANGED server => ServerTyped'
           /\ UNCHANGED <<cache, views>> => CopiesTyped'
           /\ UNCHANGED pending => PendingTyped'
           /\ UNCHANGED running => RunningTyped'
           /\ UNCHANGED reports => reports' \subseteq Reports
           /\ UNCHANGED <<blind, torn>> => blind' \in BOOLEAN /\ torn' \in BOOLEAN
           /\ UNCHANGED overtaken => overtaken' \in BOOLEAN
<1>1. UNCHANGED server => ServerTyped'
  BY DEF TypeInv, ServerTyped
<1>2. UNCHANGED <<cache, views>> => CopiesTyped'
  BY DEF TypeInv, CopiesTyped, cache
<1>3. UNCHANGED pending => PendingTyped'
  BY DEF TypeInv, PendingTyped, EditTyped
<1>4. UNCHANGED running => RunningTyped'
  BY DEF TypeInv, RunningTyped, EditTyped
<1>5. /\ UNCHANGED reports => reports' \subseteq Reports
      /\ UNCHANGED <<blind, torn>> => blind' \in BOOLEAN /\ torn' \in BOOLEAN
      /\ UNCHANGED overtaken => overtaken' \in BOOLEAN
  BY DEF TypeInv
<1>6. QED
  BY <1>1, <1>2, <1>3, <1>4, <1>5

-----------------------------------------------------------------------------
(* The types: the steps of the user and of the main thread *)

LEMMA TypeForeign == ASSUME TypeInv, ForeignChange PROVE TypeInv'
<1>1. /\ UNCHANGED <<cache, views>> /\ UNCHANGED pending /\ UNCHANGED running
      /\ UNCHANGED reports /\ UNCHANGED <<blind, torn>> /\ UNCHANGED overtaken
  BY DEF ForeignChange, app, history
<1>2. PICK m \in Movies :
         ServerMakes(IF m \in Range(serverMovies) THEN "delete" ELSE "add", m, -1)
  BY DEF ForeignChange
<1>3. PICK kind : kind = IF m \in Range(serverMovies) THEN "delete" ELSE "add"
  OBVIOUS
<1>4. /\ kind \in FourKinds /\ kind \notin {"top", "reorder"}
      /\ kind = "add" => m \notin Range(serverMovies)
  BY <1>3 DEF FourKinds
<1>5. ServerTyped /\ serverMovies \in Seq(Movies) /\ serverEtag < MaxEtag
  BY LatestTyped DEF TypeInv, ForeignChange
<1>6. Fitting(serverMovies, kind, m, -1)
  BY <1>4, <1>5 DEF Fitting
<1>7. ServerTyped'
  BY <1>2, <1>3, <1>4, <1>5, <1>6, ServerMadeTyped
<1>8. QED
  BY <1>1, <1>7, RestTyped DEF TypeInv

LEMMA TypeEditQueue == ASSUME TypeInv, NEW v \in Views, EditQueue(v) PROVE TypeInv'
<1>1. /\ UNCHANGED server /\ UNCHANGED cache /\ UNCHANGED running
      /\ UNCHANGED reports /\ UNCHANGED <<blind, torn>> /\ UNCHANGED overtaken
      /\ views[v].queue # NoQueue
      /\ views' = [views EXCEPT ![v].busy = TRUE]
  BY DEF EditQueue, history
<1>2. PICK todo \in Todos(v) : pending' = Append(pending, Edit(v, views[v].queue, todo))
  BY DEF EditQueue
<1>3. CopiesTyped /\ PendingTyped
  BY DEF TypeInv
<1>4. views[v].queue \in NoneOrQueues /\ views[v].rows \in Seq(Objects)
  BY <1>3 DEF CopiesTyped, ViewStates
<1>5. views[v].queue \in Queues /\ todo \in Seq(PlacedChanges) /\ todo # <<>>
  BY <1>1, <1>4, AQueue, TodosProperties
<1>6. PendingTyped'
  BY <1>2, <1>3, <1>5, EditIsTyped, OneMoreTyped
<1>7. views' \in [Views -> ViewStates]
  BY <1>1, <1>3 DEF CopiesTyped, ViewStates
<1>8. CopiesTyped'
  BY <1>1, <1>3, <1>7 DEF CopiesTyped, cache
<1>9. QED
  BY <1>1, <1>6, <1>8, RestTyped DEF TypeInv

LEMMA TypeAddMovie == ASSUME TypeInv, NEW v \in Views, AddMovie(v) PROVE TypeInv'
<1>1. /\ UNCHANGED server /\ UNCHANGED cache /\ UNCHANGED running
      /\ UNCHANGED reports /\ UNCHANGED <<blind, torn>> /\ UNCHANGED overtaken
      /\ memory # NoQueue
      /\ views' = [views EXCEPT ![v].busy = TRUE]
  BY DEF AddMovie, history
<1>2. PICK m \in Movies, position \in {-1, 0} :
         pending' = Append(pending, Edit(v, memory,
                       <<Change("add", [movie |-> m, copy |-> Fresh], position)>>))
  BY DEF AddMovie
<1>3. CopiesTyped /\ PendingTyped
  BY DEF TypeInv
<1>4. memory \in Queues
  BY <1>1, <1>3, AQueue DEF CopiesTyped
<1>5. PICK change : change = Change("add", [movie |-> m, copy |-> Fresh], position)
  OBVIOUS
<1>6. [movie |-> m, copy |-> Fresh] \in Objects
  BY FreshTyped DEF Objects
<1>7. change \in PlacedChanges
  BY <1>5, <1>6 DEF Change, PlacedChanges, Changes
<1>8. <<change>> \in Seq(PlacedChanges) /\ <<change>> # <<>>
  BY <1>7
<1>9. PendingTyped'
  BY <1>2, <1>3, <1>4, <1>5, <1>8, EditIsTyped, OneMoreTyped
<1>10. views' \in [Views -> ViewStates]
  BY <1>1, <1>3 DEF CopiesTyped, ViewStates
<1>11. CopiesTyped'
  BY <1>1, <1>3, <1>10 DEF CopiesTyped, cache
<1>12. QED
  BY <1>1, <1>9, <1>11, RestTyped DEF TypeInv

LEMMA TypeRefresh == ASSUME TypeInv, Refresh PROVE TypeInv'
<1>1. /\ UNCHANGED server /\ UNCHANGED <<cache, views>> /\ UNCHANGED running
      /\ UNCHANGED reports /\ UNCHANGED <<blind, torn>> /\ UNCHANGED overtaken
      /\ pending' = Append(pending, Download(FALSE))
  BY DEF Refresh, history
<1>2. PendingTyped'
  BY <1>1, DownloadTyped, OneMoreTyped DEF TypeInv
<1>3. QED
  BY <1>1, <1>2, RestTyped DEF TypeInv

(* A view after it loaded, and after a movie went to the top. *)
LEMMA LoadedTyped ==
    ASSUME TypeInv, NEW v \in Views
    PROVE  /\ Loaded(v) \in ViewStates
           /\ Loaded(v).queue = QueueForFeed /\ Loaded(v).rows = QueueForFeed.movies
<1>1. views[v] \in ViewStates
  BY DEF TypeInv, CopiesTyped
<1>2. QueueForFeed \in NoneOrQueues /\ QueueForFeed.movies \in Seq(Objects)
  BY QueueForFeedProperties, AQueue
<1>3. QED
  BY <1>1, <1>2 DEF Loaded, ViewStates

LEMMA MovedRowsTyped ==
    ASSUME NEW rows \in Seq(Objects), NEW x \in Objects
    PROVE  InsertAt(RemoveFirst(rows, x), 1, x) \in Seq(Objects)
<1>1. PICK O : O = Objects
  OBVIOUS
<1>2. PICK r : r = RemoveFirst(rows, x)
  OBVIOUS
<1>3. r \in Seq(O) /\ x \in O
  BY <1>1, <1>2, TakenOut
<1>4. 1 \in 1..(Len(r) + 1)
  BY <1>3
<1>5. InsertAt(r, 1, x) \in Seq(O)
  BY <1>3, <1>4, PutIn
<1>6. QED
  BY <1>1, <1>2, <1>5

(* What handling a report can do to the view. *)
LEMMA HandledReport ==
    ASSUME TypeInv, NEW report \in reports, HandleReport(report)
    PROVE  /\ UNCHANGED <<server, queueFile, etagFile, pending, running, blind, torn>>
           /\ reports' \subseteq reports /\ report.view \in Views
           /\ \/ /\ memory' = QueueForFeed /\ UNCHANGED overtaken
                 /\ views' = [views EXCEPT ![report.view] = Loaded(report.view)]
              \/ /\ memory' = memory /\ UNCHANGED overtaken
                 /\ views' = [views EXCEPT ![report.view].busy = FALSE]
              \/ /\ memory' = QueueForFeed
                 /\ \E rows \in Seq(Objects) :
                       /\ views' = [views EXCEPT ![report.view] =
                             [@ EXCEPT !.queue = QueueForFeed, !.rows = rows, !.busy = FALSE]]
                       /\ overtaken' = (overtaken
                             \/ ~(Range(rows) \subseteq Range(QueueForFeed.movies)))
<1>1. /\ UNCHANGED <<server, queueFile, etagFile, pending, running>>
      /\ reports' \subseteq reports
      /\ MoveSucceeded(report) \/ ReportReloads(report) \/ ReportRefreshesLater(report)
  BY DEF HandleReport
<1>2. report \in Reports
  BY DEF TypeInv
<1>3. report.view \in Views /\ report.moved \in Seq(Objects)
  BY <1>2 DEF Reports
<1>4. views[report.view].rows \in Seq(Objects)
  BY <1>3 DEF TypeInv, CopiesTyped, ViewStates
<1>5. CASE MoveSucceeded(report)
  <2>1. PICK x : x = report.moved[1]
    OBVIOUS
  <2>2. report.moved # <<>>
    BY <1>5 DEF MoveSucceeded
  <2>3. x \in Objects
    BY <1>3, <2>1, <2>2
  <2>4. PICK rows : rows = InsertAt(RemoveFirst(views[report.view].rows, x), 1, x)
    OBVIOUS
  <2>5. rows \in Seq(Objects)
    BY <1>4, <2>3, <2>4, MovedRowsTyped
  <2>6. /\ memory' = QueueForFeed /\ UNCHANGED <<blind, torn>>
        /\ views' = [views EXCEPT ![report.view] =
              [@ EXCEPT !.queue = QueueForFeed, !.rows = rows, !.busy = FALSE]]
        /\ overtaken' = (overtaken \/ ~(Range(rows) \subseteq Range(QueueForFeed.movies)))
    BY <1>5, <2>1, <2>4 DEF MoveSucceeded
  <2>7. QED
    BY <1>1, <1>3, <2>5, <2>6
<1>6. CASE ReportReloads(report) \/ ReportRefreshesLater(report)
  BY <1>1, <1>3, <1>6 DEF ReportReloads, ReportRefreshesLater, history
<1>7. QED
  BY <1>1, <1>5, <1>6

LEMMA TypeReload == ASSUME TypeInv, NEW v \in Views, Reload(v) PROVE TypeInv'
<1>1. /\ UNCHANGED server /\ UNCHANGED pending /\ UNCHANGED running /\ UNCHANGED reports
      /\ UNCHANGED <<blind, torn>> /\ UNCHANGED overtaken
      /\ UNCHANGED <<queueFile, etagFile>>
      /\ memory' = QueueForFeed
      /\ views' = [views EXCEPT ![v] = Loaded(v)]
  BY DEF Reload, history
<1>2. Loaded(v) \in ViewStates /\ CopiesTyped
  BY LoadedTyped DEF TypeInv
<1> HIDE DEF Loaded
<1>3. views' \in [Views -> ViewStates]
  BY <1>1, <1>2 DEF CopiesTyped
<1>4. CopiesTyped'
  BY <1>1, <1>2, <1>3, QueueForFeedProperties DEF CopiesTyped
<1>5. QED
  BY <1>1, <1>4, RestTyped DEF TypeInv

LEMMA TypeHandleReport ==
    ASSUME TypeInv, NEW report \in reports, HandleReport(report) PROVE TypeInv'
<1>1. /\ UNCHANGED server /\ UNCHANGED pending /\ UNCHANGED running
      /\ UNCHANGED <<blind, torn>> /\ UNCHANGED <<queueFile, etagFile>>
      /\ reports' \subseteq reports /\ report.view \in Views
      /\ memory' \in {memory, QueueForFeed}
  BY HandledReport
<1>2. CopiesTyped /\ views[report.view] \in ViewStates /\ Loaded(report.view) \in ViewStates
      /\ QueueForFeed \in NoneOrQueues
  BY <1>1, LoadedTyped, QueueForFeedProperties DEF TypeInv, CopiesTyped
<1>3. views' \in [Views -> ViewStates] /\ overtaken' \in BOOLEAN
  <2>1. CASE /\ UNCHANGED overtaken
             /\ views' = [views EXCEPT ![report.view] = Loaded(report.view)]
    BY <1>1, <1>2, <2>1 DEF CopiesTyped, TypeInv
  <2>2. CASE UNCHANGED overtaken /\ views' = [views EXCEPT ![report.view].busy = FALSE]
    BY <1>1, <1>2, <2>2 DEF CopiesTyped, TypeInv, ViewStates
  <2>3. CASE \E rows \in Seq(Objects) :
                /\ views' = [views EXCEPT ![report.view] =
                      [@ EXCEPT !.queue = QueueForFeed, !.rows = rows, !.busy = FALSE]]
                /\ overtaken' = (overtaken
                      \/ ~(Range(rows) \subseteq Range(QueueForFeed.movies)))
    <3>1. PICK rows \in Seq(Objects) :
             /\ views' = [views EXCEPT ![report.view] =
                   [@ EXCEPT !.queue = QueueForFeed, !.rows = rows, !.busy = FALSE]]
             /\ overtaken' = (overtaken \/ ~(Range(rows) \subseteq Range(QueueForFeed.movies)))
      BY <2>3
    <3>2. views' \in [Views -> ViewStates]
      BY <1>1, <1>2, <3>1 DEF CopiesTyped, ViewStates
    <3>3. overtaken' \in BOOLEAN
      BY <3>1 DEF TypeInv
    <3>4. QED
      BY <3>2, <3>3
  <2>4. QED
    BY <2>1, <2>2, <2>3, HandledReport
<1>4. CopiesTyped'
  BY <1>1, <1>2, <1>3 DEF CopiesTyped
<1>5. reports' \subseteq Reports
  BY <1>1 DEF TypeInv
<1>6. QED
  BY <1>1, <1>3, <1>4, <1>5, RestTyped DEF TypeInv

(* An operation that starts is one of those that waited. *)
LEMMA Starting ==
    ASSUME PendingTyped, NEW i \in DOMAIN pending, Start(i)
    PROVE  /\ running = <<>> /\ running' # <<>> /\ running' = <<running'[1]>>
           /\ running'[1] \in Started
           /\ running'[1].at = IF pending[i].kind = "edit" THEN "edit" ELSE "check"
           /\ running'[1].kind = pending[i].kind /\ running'[1].view = pending[i].view
           /\ running'[1].queue = pending[i].queue /\ running'[1].todo = pending[i].todo
           /\ pending' \in Seq(Operations)
           /\ \A j \in DOMAIN pending' : \E k \in DOMAIN pending : pending'[j] = pending[k]
<1>1. pending \in Seq(Operations) /\ pending' = RemoveAt(pending, i) /\ running = <<>>
  BY DEF PendingTyped, Start
<1>2. PICK op : op = pending[i]
  OBVIOUS
<1>3. op \in Operations
  BY <1>1, <1>2
<1>4. PICK at \in Places : at = IF op.kind = "edit" THEN "edit" ELSE "check"
  BY DEF Places
<1>5. PICK run : run = [kind |-> op.kind, view |-> op.view, queue |-> op.queue,
                        todo |-> op.todo, force |-> op.force, ok |-> TRUE,
                        moved |-> <<>>, at |-> at]
  OBVIOUS
<1>6. running' = <<run>>
  BY <1>2, <1>4, <1>5 DEF Start
<1>7. run \in Started
  <2>1. <<>> \in Seq(Objects)
    OBVIOUS
  <2>2. QED
    BY <1>3, <1>5, <2>1 DEF Operations, Started
<1>8. /\ run.kind = op.kind /\ run.view = op.view /\ run.queue = op.queue
      /\ run.todo = op.todo /\ run.at = at
  BY <1>5
<1>9. running' # <<>> /\ running'[1] = run
  BY <1>6
<1>10. /\ pending' \in Seq(Operations)
       /\ \A j \in DOMAIN pending' : \E k \in DOMAIN pending : pending'[j] = pending[k]
  <2>1. i \in 1..Len(pending)
    BY <1>1
  <2>2. QED
    BY <1>1, <2>1, RemoveAtProperties, ElementsLeft
<1>11. QED
  BY <1>1, <1>2, <1>4, <1>6, <1>7, <1>8, <1>9, <1>10

LEMMA TypeStart == ASSUME TypeInv, NEW i \in DOMAIN pending, Start(i) PROVE TypeInv'
<1>1. /\ UNCHANGED server /\ UNCHANGED <<cache, views>> /\ UNCHANGED reports
      /\ UNCHANGED <<blind, torn>> /\ UNCHANGED overtaken
  BY DEF Start, history
<1>2. PendingTyped /\ (pending[i].kind = "edit" => EditTyped(pending[i]))
  BY DEF TypeInv, PendingTyped
<1>3. RunningTyped'
  BY <1>2, Starting DEF RunningTyped, EditTyped
<1>4. PendingTyped'
  BY <1>2, Starting DEF PendingTyped, EditTyped
<1>5. QED
  BY <1>1, <1>3, <1>4, RestTyped DEF TypeInv


-----------------------------------------------------------------------------
(* The types: the steps of an operation *)

(* The operation goes on at another place, for the same view. *)
LEMMA GoingOnTyped ==
    ASSUME TypeInv, running # <<>>, NEW run, running' = <<run>>, run \in Started,
           run.kind = running[1].kind, run.view = running[1].view,
           run.at \in {"edit", "etag"} => EditTyped(run),
           run.at \in {"queueFile", "etagFile", "memory"} => run.queue \in Queues
    PROVE  RunningTyped'
<1>1. running' # <<>> /\ running'[1] = run
  OBVIOUS
<1>2. running[1].kind = "edit" => running[1].view \in Views
  BY DEF TypeInv, RunningTyped
<1>3. run.kind = "edit" => run.view \in Views
  BY <1>2
<1>4. QED
  BY <1>1, <1>3 DEF RunningTyped, EditTyped

LEMMA StoppedTyped == ASSUME running' = <<>> PROVE RunningTyped'
BY DEF RunningTyped

LEMMA RunningIsTyped ==
    ASSUME TypeInv, running # <<>>
    PROVE  /\ running[1] \in Started
           /\ running[1].kind = "edit" => running[1].view \in Views
           /\ running[1].at \in {"edit", "etag"} => EditTyped(running[1])
           /\ running[1].at \in {"queueFile", "etagFile", "memory"} => running[1].queue \in Queues
BY DEF TypeInv, RunningTyped

(* The change that is asked for. *)
LEMMA FirstChange ==
    ASSUME TypeInv, running # <<>>, running[1].at \in {"edit", "etag"}
    PROVE  /\ running[1].todo[1] \in PlacedChanges
           /\ running[1].todo[1].kind \in FourKinds
           /\ running[1].todo[1].object \in Objects
           /\ running[1].todo[1].position \in Int
           /\ running[1].todo \in Seq(PlacedChanges) /\ running[1].todo # <<>>
           /\ running[1].queue \in Queues /\ running[1].queue.movies \in Seq(Objects)
           /\ running[1].kind = "edit" /\ running[1].view \in Views
<1>1. PICK op : op = running[1]
  OBVIOUS
<1>2. op \in Started /\ EditTyped(op)
  BY <1>1, RunningIsTyped
<1>3. /\ op.todo \in Seq(PlacedChanges) /\ op.todo # <<>> /\ op.queue \in Queues
      /\ op.kind = "edit" /\ op.view \in Views
  BY <1>2 DEF Started, EditTyped
<1>4. op.todo[1] \in PlacedChanges
  BY <1>3
<1>5. op.todo[1].kind \in FourKinds /\ op.todo[1].object \in Objects
      /\ op.todo[1].position \in Int
  BY <1>4 DEF PlacedChanges, Changes, FourKinds
<1>6. op.queue.movies \in Seq(Objects)
  BY <1>3 DEF Queues
<1>7. QED
  BY <1>1, <1>3, <1>4, <1>5, <1>6

(* A change that can be made in the copy finds its place there. *)
LEMMA AppliedFits ==
    ASSUME NEW movies \in Seq(Objects), NEW change \in PlacedChanges,
           change.position <= Len(RemoveFirst(movies, change.object))
    PROVE  Fitting(movies, change.kind, change.object, change.position)
<1>1. /\ change.kind = "add" => change.position \in Nat \cup {-1}
      /\ change.kind \in {"top", "reorder"} => change.position \in Nat
  BY DEF PlacedChanges
<1>2. PICK O : O = Objects
  OBVIOUS
<1>3. PICK rest : rest = RemoveFirst(movies, change.object)
  OBVIOUS
<1>4. rest \in Seq(O) /\ Len(rest) \in {Len(movies), Len(movies) - 1} /\ Len(movies) \in Nat
  BY <1>2, <1>3, TakenOut
<1>5. Len(rest) \in Nat
  BY <1>4
<1>6. change.position <= Len(rest)
  BY <1>3
<1>7. change.kind = "add" => change.position \in -1..Len(movies)
  BY <1>1, <1>4, <1>5, <1>6
<1>8. change.kind \in {"top", "reorder"} => change.position \in 0..Len(rest)
  BY <1>1, <1>5, <1>6
<1>9. QED
  BY <1>3, <1>7, <1>8 DEF Fitting

(* The operation after a change is made in its copy. *)
LEMMA AppliedRun ==
    ASSUME TypeInv, running # <<>>, running[1].at \in {"edit", "etag"},
           NEW etag \in 0..MaxEtag, Applied(etag)
    PROVE  LET op == running[1]
               change == op.todo[1]
               movies == Changed(op.queue.movies, change.kind, change.object, change.position)
           IN  /\ running' = <<running'[1]>> /\ running' # <<>>
               /\ running'[1] \in Started
               /\ running'[1].kind = "edit" /\ running'[1].view = op.view
               /\ running'[1].queue = [etag |-> etag, movies |-> movies]
               /\ running'[1].queue.etag = etag /\ running'[1].queue.movies = movies
               /\ running'[1].queue \in Queues
               /\ running'[1].todo = Tail(op.todo)
               /\ running'[1].at = IF Tail(op.todo) = <<>> THEN "queueFile" ELSE "edit"
               /\ Fitting(op.queue.movies, change.kind, change.object, change.position)
<1>1. PICK op : op = running[1]
  OBVIOUS
<1>2. PICK change : change = op.todo[1]
  OBVIOUS
<1>3. PICK movies : movies = Changed(op.queue.movies, change.kind, change.object,
                                     change.position)
  OBVIOUS
<1>4. /\ op \in Started /\ change \in PlacedChanges /\ change.kind \in FourKinds
      /\ change.object \in Objects /\ change.position \in Int
      /\ op.todo \in Seq(PlacedChanges) /\ op.todo # <<>>
      /\ op.queue.movies \in Seq(Objects) /\ op.kind = "edit"
  BY <1>1, <1>2, FirstChange, RunningIsTyped
<1>5. Fitting(op.queue.movies, change.kind, change.object, change.position)
  BY <1>1, <1>2, <1>4, AppliedFits DEF Applied
<1>6. movies \in Seq(Objects)
  <2>1. PICK O : O = Objects
    OBVIOUS
  <2>2. PICK list : list = op.queue.movies
    OBVIOUS
  <2>3. list \in Seq(O) /\ change.object \in O
    BY <1>4, <2>1, <2>2
  <2>4. Changed(list, change.kind, change.object, change.position) \in Seq(O)
    BY <1>4, <1>5, <2>2, <2>3, ChangedProperties
  <2>5. QED
    BY <1>3, <2>1, <2>2, <2>4
<1>7. PICK queue : queue = [etag |-> etag, movies |-> movies]
  OBVIOUS
<1>8. queue \in Queues /\ queue.etag = etag /\ queue.movies = movies
  BY <1>6, <1>7 DEF Queues
<1>9. PICK rest : rest = Tail(op.todo)
  OBVIOUS
<1>10. rest \in Seq(PlacedChanges)
  BY <1>4, <1>9
<1>11. PICK at \in Places : at = IF rest = <<>> THEN "queueFile" ELSE "edit"
  BY DEF Places
<1>12. PICK moved : moved = IF change.kind = "top" THEN <<change.object>> ELSE op.moved
  OBVIOUS
<1>13. moved \in Seq(Objects)
  BY <1>4, <1>12 DEF Started
<1>14. PICK run : run = [op EXCEPT !.queue = queue, !.todo = rest, !.moved = moved, !.at = at]
  OBVIOUS
<1>15. running' = <<run>>
  BY <1>1, <1>2, <1>3, <1>7, <1>9, <1>11, <1>12, <1>14 DEF Applied, GoOn
<1>16. /\ run \in Started /\ run.queue = queue /\ run.todo = rest /\ run.at = at
       /\ run.kind = op.kind /\ run.view = op.view
  BY <1>4, <1>8, <1>10, <1>11, <1>13, <1>14 DEF Started, NoneOrQueues
<1>17. running' # <<>> /\ running'[1] = run
  BY <1>15
<1>18. QED
  BY <1>1, <1>2, <1>3, <1>4, <1>5, <1>7, <1>8, <1>9, <1>11, <1>15, <1>16, <1>17

LEMMA TypeApplied ==
    ASSUME TypeInv, running # <<>>, running[1].at \in {"edit", "etag"},
           NEW etag \in 0..MaxEtag, Applied(etag)
    PROVE  RunningTyped'
<1>1. PICK run : run = running'[1]
  OBVIOUS
<1>2. PICK rest : rest = Tail(running[1].todo)
  OBVIOUS
<1>3. /\ running' = <<run>> /\ running' # <<>> /\ run \in Started
      /\ run.kind = "edit" /\ run.view = running[1].view /\ run.queue \in Queues
      /\ run.todo = rest /\ run.at = IF rest = <<>> THEN "queueFile" ELSE "edit"
  BY <1>1, <1>2, AppliedRun
<1>4. running[1].kind = "edit" /\ running[1].view \in Views
  BY FirstChange
<1>5. run.at \in {"edit", "etag"} => EditTyped(run)
  BY <1>3, <1>4 DEF EditTyped
<1>6. QED
  BY <1>3, <1>4, <1>5, GoingOnTyped

LEMMA ReportTyped ==
    ASSUME TypeInv, NEW op, op.view \in Views, op.ok \in BOOLEAN, op.moved \in Seq(Objects),
           Report(op)
    PROVE  reports' \subseteq Reports
BY DEF TypeInv, Report, Reports

(* A failure ends the operation, or leads to the save of what it has. *)
LEMMA FailedRun ==
    ASSUME TypeInv, running # <<>>, running[1].at \in {"edit", "etag"}, Fail
    PROVE  \/ /\ running' = <<running'[1]>> /\ running' # <<>> /\ running'[1] \in Started
              /\ running'[1].kind = "edit" /\ running'[1].view = running[1].view
              /\ running'[1].queue = running[1].queue /\ running'[1].at = "queueFile"
              /\ UNCHANGED reports
           \/ running' = <<>> /\ Report([running[1] EXCEPT !.ok = FALSE])
<1>1. PICK op : op = running[1]
  OBVIOUS
<1>2. op \in Started /\ op.kind = "edit"
  BY <1>1, RunningIsTyped, FirstChange
<1>3. CASE op.todo[1].kind \in {"reorder", "delete"}
  <2>1. PICK run : run = [op EXCEPT !.at = "queueFile", !.ok = FALSE]
    OBVIOUS
  <2>2. running' = <<run>> /\ UNCHANGED reports
    BY <1>1, <1>3, <2>1 DEF Fail, GoOn
  <2>3. /\ run \in Started /\ run.at = "queueFile" /\ run.queue = op.queue
        /\ run.kind = op.kind /\ run.view = op.view
    BY <1>2, <2>1 DEF Started, Places
  <2>4. running' # <<>> /\ running'[1] = run
    BY <2>2
  <2>5. QED
    BY <1>1, <1>2, <2>2, <2>3, <2>4
<1>4. CASE op.todo[1].kind \notin {"reorder", "delete"}
  BY <1>1, <1>4 DEF Fail, Stop
<1>5. QED
  BY <1>3, <1>4

LEMMA TypeFail ==
    ASSUME TypeInv, running # <<>>, running[1].at \in {"edit", "etag"}, Fail
    PROVE  RunningTyped' /\ reports' \subseteq Reports
<1>1. PICK op : op = running[1]
  OBVIOUS
<1>2. op \in Started /\ op.kind = "edit" /\ op.view \in Views /\ op.queue \in Queues
  BY <1>1, RunningIsTyped, FirstChange
<1>3. CASE /\ running' = <<running'[1]>> /\ running' # <<>> /\ running'[1] \in Started
           /\ running'[1].kind = "edit" /\ running'[1].view = op.view
           /\ running'[1].queue = op.queue /\ running'[1].at = "queueFile"
           /\ UNCHANGED reports
  <2>1. PICK run : run = running'[1]
    OBVIOUS
  <2>2. RunningTyped'
    BY <1>1, <1>2, <1>3, <2>1, GoingOnTyped
  <2>3. QED
    BY <1>3, <2>2, RestTyped
<1>4. CASE running' = <<>> /\ Report([op EXCEPT !.ok = FALSE])
  <2>1. PICK failed : failed = [op EXCEPT !.ok = FALSE]
    OBVIOUS
  <2>2. failed.view = op.view /\ failed.ok \in BOOLEAN /\ failed.moved \in Seq(Objects)
    BY <1>2, <2>1 DEF Started
  <2>3. Report(failed)
    BY <1>4, <2>1
  <2>4. reports' \subseteq Reports
    BY <1>2, <2>2, <2>3, ReportTyped
  <2>5. QED
    BY <1>4, <2>4, StoppedTyped
<1>5. QED
  BY <1>1, <1>3, <1>4, FailedRun

(* After a DELETE the operation has still to learn the etag. *)
LEMMA DeletedRun ==
    ASSUME TypeInv, running # <<>>, running[1].at = "edit",
           GoOn([running[1] EXCEPT !.at = "etag"])
    PROVE  /\ running' = <<running'[1]>> /\ running' # <<>> /\ running'[1] \in Started
           /\ running'[1].kind = "edit" /\ running'[1].view = running[1].view
           /\ running'[1].queue = running[1].queue /\ running'[1].todo = running[1].todo
           /\ running'[1].at = "etag"
<1>1. PICK op : op = running[1]
  OBVIOUS
<1>2. op \in Started /\ op.kind = "edit"
  BY <1>1, RunningIsTyped, FirstChange
<1>3. PICK run : run = [op EXCEPT !.at = "etag"]
  OBVIOUS
<1>4. running' = <<run>>
  BY <1>1, <1>3 DEF GoOn
<1>5. /\ run \in Started /\ run.at = "etag" /\ run.queue = op.queue
      /\ run.kind = op.kind /\ run.view = op.view /\ run.todo = op.todo
  BY <1>2, <1>3 DEF Started, Places
<1>6. running' # <<>> /\ running'[1] = run
  BY <1>4
<1>7. QED
  BY <1>1, <1>2, <1>4, <1>5, <1>6

LEMMA TypeServerAccepts == ASSUME TypeInv, ServerAccepts PROVE TypeInv'
<1>1. /\ UNCHANGED <<cache, views>> /\ UNCHANGED pending
      /\ UNCHANGED reports /\ UNCHANGED <<blind, torn>> /\ UNCHANGED overtaken
      /\ running # <<>> /\ running[1].at = "edit"
  BY DEF ServerAccepts, Running, history
<1>2. PICK op : op = running[1]
  OBVIOUS
<1>3. PICK change : change = op.todo[1]
  OBVIOUS
<1>4. /\ Accepts(op.queue, change) /\ ServerDoes(change)
      /\ IF change.kind = "delete" THEN GoOn([op EXCEPT !.at = "etag"])
                                   ELSE Applied(serverEtag + 1)
  BY <1>2, <1>3 DEF ServerAccepts
<1>5. change \in PlacedChanges /\ EditTyped(op)
  BY <1>1, <1>2, <1>3, FirstChange, RunningIsTyped
<1>6. ServerTyped'
  BY <1>4, <1>5, AcceptedTyped DEF TypeInv
<1>7. RunningTyped'
  <2>1. CASE change.kind = "delete"
    <3>1. PICK run : run = running'[1]
      OBVIOUS
    <3>2. /\ running' = <<run>> /\ run \in Started /\ run.at = "etag" /\ run.queue = op.queue
          /\ run.kind = op.kind /\ run.view = op.view /\ run.todo = op.todo
      BY <1>1, <1>2, <1>4, <1>5, <2>1, <3>1, DeletedRun DEF EditTyped
    <3>3. EditTyped(run)
      BY <1>5, <3>2 DEF EditTyped
    <3>4. QED
      BY <1>1, <1>2, <3>2, <3>3, GoingOnTyped
  <2>2. CASE change.kind # "delete"
    <3>1. Applied(serverEtag + 1)
      BY <1>4, <2>2
    <3>2. serverEtag + 1 \in 0..MaxEtag
      <4>1. serverEtag \in 1..MaxEtag /\ serverEtag < MaxEtag /\ MaxEtag \in Nat
        BY <1>4, LatestTyped, NetflixAssumption DEF TypeInv, Accepts
      <4>2. QED
        BY <4>1
    <3>3. QED
      BY <1>1, <3>1, <3>2, TypeApplied
  <2>3. QED
    BY <2>1, <2>2
<1>8. QED
  BY <1>1, <1>6, <1>7, RestTyped DEF TypeInv

LEMMA TypeServerRefuses == ASSUME TypeInv, ServerRefuses PROVE TypeInv'
<1>1. /\ UNCHANGED server /\ UNCHANGED <<cache, views>> /\ UNCHANGED <<blind, torn>>
      /\ UNCHANGED overtaken /\ running # <<>> /\ running[1].at = "edit" /\ Fail
      /\ pending' = pending \/ pending' = Append(pending, Download(TRUE))
  BY DEF ServerRefuses, Running, history
<1>2. RunningTyped' /\ reports' \subseteq Reports
  BY <1>1, TypeFail
<1>3. PendingTyped'
  BY <1>1, DownloadTyped, OneMoreTyped, RestTyped DEF TypeInv
<1>4. QED
  BY <1>1, <1>2, <1>3, RestTyped DEF TypeInv

LEMMA TypeEditLost == ASSUME TypeInv, EditLost PROVE TypeInv'
<1>1. /\ UNCHANGED <<cache, views>> /\ UNCHANGED pending /\ UNCHANGED <<blind, torn>>
      /\ UNCHANGED overtaken /\ running # <<>> /\ running[1].at = "edit" /\ Fail
  BY DEF EditLost, Running, history
<1>2. RunningTyped' /\ reports' \subseteq Reports
  BY <1>1, TypeFail
<1>3. ServerTyped'
  <2>1. PICK op : op = running[1]
    OBVIOUS
  <2>2. \/ UNCHANGED server
        \/ Accepts(op.queue, op.todo[1]) /\ ServerDoes(op.todo[1])
    BY <2>1 DEF EditLost
  <2>3. op.todo[1] \in PlacedChanges
    BY <1>1, <2>1, FirstChange
  <2>4. QED
    BY <2>2, <2>3, AcceptedTyped, RestTyped DEF TypeInv
<1>4. QED
  BY <1>1, <1>2, <1>3, RestTyped DEF TypeInv

LEMMA TypeDownloadEtag == ASSUME TypeInv, DownloadEtag PROVE TypeInv'
<1>1. /\ UNCHANGED server /\ UNCHANGED <<cache, views>> /\ UNCHANGED pending
      /\ UNCHANGED torn /\ UNCHANGED overtaken /\ running # <<>> /\ running[1].at = "etag"
  BY DEF DownloadEtag, Running
<1>2. serverEtag \in 0..MaxEtag
  BY LatestTyped DEF TypeInv
<1>3. RunningTyped' /\ reports' \subseteq Reports
  <2>1. CASE Applied(serverEtag) /\ UNCHANGED reports
    BY <1>1, <1>2, <2>1, TypeApplied, RestTyped
  <2>2. CASE Fail
    BY <1>1, <2>2, TypeFail
  <2>3. QED
    BY <2>1, <2>2 DEF DownloadEtag
<1>4. blind' \in BOOLEAN
  <2>1. blind' = (blind \/ serverEtag # running[1].queue.etag + 1) \/ blind' = blind
    BY DEF DownloadEtag
  <2>2. blind \in BOOLEAN
    BY DEF TypeInv
  <2>3. QED
    BY <2>1, <2>2
<1>5. torn' \in BOOLEAN
  BY <1>1 DEF TypeInv
<1>6. QED
  BY <1>1, <1>3, <1>4, <1>5, RestTyped DEF TypeInv

(* The operation takes its queue along to another place. *)
LEMMA MovedOnRun ==
    ASSUME TypeInv, running # <<>>, NEW at \in Places,
           running' = <<[running[1] EXCEPT !.at = at]>>
    PROVE  /\ running' = <<running'[1]>> /\ running' # <<>> /\ running'[1] \in Started
           /\ running'[1].kind = running[1].kind /\ running'[1].view = running[1].view
           /\ running'[1].queue = running[1].queue /\ running'[1].at = at
<1>1. PICK op : op = running[1]
  OBVIOUS
<1>2. PICK run : run = [op EXCEPT !.at = at]
  OBVIOUS
<1>3. op \in Started /\ running' = <<run>>
  BY <1>1, <1>2, RunningIsTyped
<1>4. /\ run \in Started /\ run.at = at /\ run.queue = op.queue
      /\ run.kind = op.kind /\ run.view = op.view
  BY <1>2, <1>3 DEF Started
<1>5. running' # <<>> /\ running'[1] = run
  BY <1>3
<1>6. QED
  BY <1>1, <1>3, <1>4, <1>5

LEMMA MovedOn ==
    ASSUME TypeInv, running # <<>>, NEW at \in Places \ {"edit", "etag"},
           running' = <<[running[1] EXCEPT !.at = at]>>,
           at \in {"queueFile", "etagFile", "memory"} => running[1].queue \in Queues
    PROVE  RunningTyped'
<1>1. PICK run : run = running'[1]
  OBVIOUS
<1>2. /\ running' = <<run>> /\ run \in Started /\ run.kind = running[1].kind
      /\ run.view = running[1].view /\ run.queue = running[1].queue /\ run.at = at
  BY <1>1, MovedOnRun
<1>3. QED
  BY <1>2, GoingOnTyped

LEMMA TypeCheckEtag == ASSUME TypeInv, CheckEtag PROVE TypeInv'
<1>1. /\ UNCHANGED server /\ UNCHANGED <<queueFile, etagFile, views>> /\ UNCHANGED pending
      /\ UNCHANGED reports /\ UNCHANGED <<blind, torn>> /\ UNCHANGED overtaken
      /\ memory' = QueueForFeed
      /\ running # <<>>
  BY DEF CheckEtag, Running, history
<1>2. running' = <<>> \/ running' = <<[running[1] EXCEPT !.at = "fetch"]>>
  BY DEF CheckEtag, Stop, GoOn
<1>3. RunningTyped'
  BY <1>1, <1>2, MovedOn, StoppedTyped DEF Places
<1>4. CopiesTyped /\ QueueForFeed \in NoneOrQueues
  BY QueueForFeedProperties DEF TypeInv
<1>5. CopiesTyped'
  BY <1>1, <1>4 DEF CopiesTyped
<1>6. QED
  BY <1>1, <1>3, <1>5, RestTyped DEF TypeInv

(* What a download brings: the queue of the server, as new objects, or an   *)
(* empty one without an etag.                                               *)
LEMMA FetchedRun ==
    ASSUME TypeInv, FetchQueue
    PROVE  /\ running # <<>> /\ running[1].at = "fetch"
           /\ \/ running' = <<>>
              \/ /\ running' = <<running'[1]>> /\ running' # <<>> /\ running'[1] \in Started
                 /\ running'[1].kind = running[1].kind /\ running'[1].view = running[1].view
                 /\ running'[1].at = "queueFile" /\ running'[1].queue \in Queues
                 /\ \/ /\ running'[1].queue.etag = serverEtag
                       /\ Ids(running'[1].queue.movies) = serverMovies
                    \/ running'[1].queue.etag = NoEtag
<1>1. running # <<>> /\ running[1].at = "fetch"
  BY DEF FetchQueue, Running
<1>2. PICK op : op = running[1]
  OBVIOUS
<1>3. op \in Started
  BY <1>1, <1>2, RunningIsTyped
<1>4. PICK made : made = Made(serverMovies, Fresh)
  OBVIOUS
<1>5. made \in Seq(Objects) /\ Ids(made) = serverMovies
  BY <1>4, LatestTyped, FreshTyped, MadeProperties DEF TypeInv
<1>6. PICK brought : brought = [etag |-> serverEtag, movies |-> made]
  OBVIOUS
<1>7. PICK nothing : nothing = [etag |-> NoEtag, movies |-> <<>>]
  OBVIOUS
<1>8. /\ brought \in Queues /\ brought.etag = serverEtag /\ brought.movies = made
      /\ nothing \in Queues /\ nothing.etag = NoEtag
  BY <1>5, <1>6, <1>7, LatestTyped, NetflixAssumption DEF TypeInv, Queues, NoEtag
<1>9. \/ running' = <<>>
      \/ running' = <<[op EXCEPT !.queue = brought, !.at = "queueFile"]>>
      \/ running' = <<[op EXCEPT !.queue = nothing, !.at = "queueFile"]>>
  BY <1>2, <1>4, <1>6, <1>7 DEF FetchQueue, GoOn, Stop
<1>10. ASSUME NEW queue \in {brought, nothing},
              running' = <<[op EXCEPT !.queue = queue, !.at = "queueFile"]>>
       PROVE  /\ running' = <<running'[1]>> /\ running' # <<>> /\ running'[1] \in Started
              /\ running'[1].kind = op.kind /\ running'[1].view = op.view
              /\ running'[1].at = "queueFile" /\ running'[1].queue = queue
  <2>1. PICK run : run = [op EXCEPT !.queue = queue, !.at = "queueFile"]
    OBVIOUS
  <2>2. running' = <<run>> /\ queue \in Queues
    BY <1>8, <1>10, <2>1
  <2>3. /\ run \in Started /\ run.at = "queueFile" /\ run.queue = queue
        /\ run.kind = op.kind /\ run.view = op.view
    BY <1>3, <2>1, <2>2 DEF Started, NoneOrQueues, Places
  <2>4. running' # <<>> /\ running'[1] = run
    BY <2>2
  <2>5. QED
    BY <2>2, <2>3, <2>4
<1>11. CASE running' = <<>>
  BY <1>1, <1>11
<1>12. CASE running' = <<[op EXCEPT !.queue = brought, !.at = "queueFile"]>>
  BY <1>1, <1>2, <1>5, <1>8, <1>10, <1>12
<1>13. CASE running' = <<[op EXCEPT !.queue = nothing, !.at = "queueFile"]>>
  BY <1>1, <1>2, <1>8, <1>10, <1>13
<1>14. QED
  BY <1>9, <1>11, <1>12, <1>13

LEMMA TypeFetchQueue == ASSUME TypeInv, FetchQueue PROVE TypeInv'
<1>1. /\ UNCHANGED server /\ UNCHANGED <<cache, views>> /\ UNCHANGED pending
      /\ UNCHANGED reports /\ UNCHANGED <<blind, torn>> /\ UNCHANGED overtaken
  BY DEF FetchQueue, history
<1>2. RunningTyped'
  <2>1. CASE running' = <<>>
    BY <2>1, StoppedTyped
  <2>2. CASE running' # <<>>
    <3>1. PICK run : run = running'[1]
      OBVIOUS
    <3>2. /\ running # <<>> /\ running' = <<run>> /\ run \in Started
          /\ run.kind = running[1].kind /\ run.view = running[1].view
          /\ run.at = "queueFile" /\ run.queue \in Queues
      BY <2>2, <3>1, FetchedRun
    <3>3. QED
      BY <3>2, GoingOnTyped
  <2>3. QED
    BY <2>1, <2>2
<1>3. QED
  BY <1>1, <1>2, RestTyped DEF TypeInv

LEMMA TypeWrite == ASSUME TypeInv, WriteQueueFile \/ WriteEtagFile PROVE TypeInv'
<1>1. /\ UNCHANGED server /\ UNCHANGED <<memory, views>> /\ UNCHANGED pending
      /\ UNCHANGED reports /\ UNCHANGED <<blind, torn>> /\ UNCHANGED overtaken
      /\ running # <<>> /\ running[1].at \in {"queueFile", "etagFile"}
  BY DEF WriteQueueFile, WriteEtagFile, Running, history
<1>2. running[1].queue \in Queues
  BY <1>1, RunningIsTyped
<1>3. \/ running' = <<[running[1] EXCEPT !.at = "etagFile"]>>
      \/ running' = <<[running[1] EXCEPT !.at = "memory"]>>
  BY DEF WriteQueueFile, WriteEtagFile, GoOn
<1>4. RunningTyped'
  BY <1>1, <1>2, <1>3, MovedOn DEF Places
<1>5. /\ queueFile' \in {queueFile, InFile(running[1].queue)}
      /\ etagFile' \in {etagFile, running[1].queue.etag}
  BY DEF WriteQueueFile, WriteEtagFile, InFile
<1>6. running[1].queue.etag \in 0..MaxEtag
  BY <1>2 DEF Queues
<1>7. InFile(running[1].queue) \in NoneOrFiles
  <2>1. PICK queue \in Queues : queue = running[1].queue
    BY <1>2
  <2>2. Ids(queue.movies) \in Seq(Movies)
    BY IdsProperties DEF Queues
  <2>3. InFile(queue) \in QueueFiles
    BY <2>2 DEF InFile, Queues, QueueFiles
  <2>4. QED
    BY <2>1, <2>3 DEF NoneOrFiles
<1>8. CopiesTyped'
  BY <1>1, <1>5, <1>6, <1>7 DEF TypeInv, CopiesTyped
<1>9. QED
  BY <1>1, <1>4, <1>8, RestTyped DEF TypeInv

LEMMA TypeAddQueue == ASSUME TypeInv, AddQueue PROVE TypeInv'
<1>1. /\ UNCHANGED server /\ UNCHANGED <<queueFile, etagFile, views>> /\ UNCHANGED pending
      /\ UNCHANGED <<blind, torn>> /\ UNCHANGED overtaken
      /\ memory' = running[1].queue
      /\ running # <<>> /\ running[1].at = "memory" /\ running' = <<>>
  BY DEF AddQueue, Running, Stop, history
<1>2. PICK op : op = running[1]
  OBVIOUS
<1>3. /\ op.queue \in NoneOrQueues /\ op.ok \in BOOLEAN /\ op.moved \in Seq(Objects)
      /\ op.kind = "edit" => op.view \in Views
  BY <1>1, <1>2, RunningIsTyped DEF Started
<1>4. CopiesTyped'
  BY <1>1, <1>2, <1>3 DEF TypeInv, CopiesTyped
<1>5. reports' \subseteq Reports
  <2>1. CASE op.kind = "edit"
    BY <1>2, <1>3, <2>1, ReportTyped DEF AddQueue
  <2>2. CASE op.kind # "edit"
    BY <1>2, <2>2, RestTyped DEF AddQueue
  <2>3. QED
    BY <2>1, <2>2
<1>6. QED
  BY <1>1, <1>4, <1>5, StoppedTyped, RestTyped DEF TypeInv

LEMMA TypeCrash == ASSUME TypeInv, Crash PROVE TypeInv'
<1>1. /\ UNCHANGED server /\ UNCHANGED <<queueFile, etagFile>> /\ UNCHANGED blind
      /\ memory' = NoQueue /\ pending' = <<>> /\ running' = <<>> /\ reports' = {}
      /\ views' \in Opened /\ UNCHANGED overtaken
  BY DEF Crash
<1>2. views' \in [Views -> ViewStates]
  BY <1>1, NothingTyped DEF Opened
<1>3. CopiesTyped'
  BY <1>1, <1>2 DEF TypeInv, CopiesTyped, NoneOrQueues
<1>4. PendingTyped' /\ RunningTyped'
  BY <1>1 DEF PendingTyped, RunningTyped
<1>5. torn' \in BOOLEAN
  BY DEF Crash, TypeInv
<1>6. blind' \in BOOLEAN
  BY <1>1 DEF TypeInv
<1>7. QED
  BY <1>1, <1>3, <1>4, <1>5, <1>6, RestTyped DEF TypeInv

LEMMA TypeStep == TypeInv /\ [Next]_vars => TypeInv'
<1> SUFFICES ASSUME TypeInv, [Next]_vars PROVE TypeInv'
  OBVIOUS
<1>1. CASE ForeignChange \/ Refresh \/ Crash
  BY <1>1, TypeForeign, TypeRefresh, TypeCrash
<1>2. CASE \E v \in Views : EditQueue(v) \/ AddMovie(v) \/ Reload(v)
  BY <1>2, TypeEditQueue, TypeAddMovie, TypeReload
<1>3. CASE \E report \in reports : HandleReport(report)
  BY <1>3, TypeHandleReport
<1>4. CASE \E i \in DOMAIN pending : Start(i)
  BY <1>4, TypeStart
<1>5. CASE ServerAccepts \/ ServerRefuses \/ EditLost \/ DownloadEtag
  BY <1>5, TypeServerAccepts, TypeServerRefuses, TypeEditLost, TypeDownloadEtag
<1>6. CASE CheckEtag \/ FetchQueue \/ WriteQueueFile \/ WriteEtagFile \/ AddQueue
  BY <1>6, TypeCheckEtag, TypeFetchQueue, TypeWrite, TypeAddQueue
<1>7. CASE UNCHANGED vars
  BY <1>7, RestTyped DEF vars, cache, TypeInv
<1>8. QED
  BY <1>1, <1>2, <1>3, <1>4, <1>5, <1>6, <1>7 DEF Next, OperationStep

(* Every queue, file and list of rows is one of movies or objects, and no   *)
(* etag is beyond the last: the server has a movie at most once and no more *)
(* of them than there are, and an operation only asks for changes while it  *)
(* has some and only saves a queue that it has, whatever the server was     *)
(* told by others in the meantime.                                          *)
THEOREM TypeCorrect == Spec => []TypeOK
<1>1. Init => TypeInv
  BY TypeInit
<1>2. TypeInv => TypeOK
  <2> SUFFICES ASSUME TypeInv PROVE TypeOK
    OBVIOUS
  <2>1. server \in Seq(Contents)
    BY DEF TypeInv, ServerTyped
  <2>2. /\ memory \in Queues \cup {NoQueue} /\ queueFile \in QueueFiles \cup {NoQueue}
        /\ etagFile \in 0..MaxEtag
        /\ views \in [Views -> [screen : Screens, queue : Queues \cup {NoQueue},
                                rows : Seq(Objects), busy : BOOLEAN]]
    BY DEF TypeInv, CopiesTyped, NoneOrQueues, NoneOrFiles, ViewStates
  <2>3. \A op \in Range(pending) : op.kind \in {"edit", "download"} /\ op.todo \in Seq(Changes)
    <3> SUFFICES ASSUME NEW i \in DOMAIN pending
                 PROVE  pending[i].kind \in {"edit", "download"}
                        /\ pending[i].todo \in Seq(Changes)
      BY DEF Range
    <3>1. pending[i] \in Operations
      BY DEF TypeInv, PendingTyped
    <3>2. PlacedChanges \subseteq Changes
      BY DEF PlacedChanges
    <3>3. PICK todo : todo = pending[i].todo
      OBVIOUS
    <3>4. todo \in Seq(PlacedChanges)
      BY <3>1, <3>3 DEF Operations
    <3>5. todo \in Seq(Changes)
      BY <3>2, <3>4
    <3>6. QED
      BY <3>1, <3>3, <3>5 DEF Operations
  <2>4. Len(running) <= 1 /\ Range(running) \subseteq {running[1]}
        /\ (running = <<>> => Range(running) = {})
    <3>1. running = <<>> \/ running = <<running[1]>>
      BY DEF TypeInv, RunningTyped
    <3>2. QED
      BY <3>1 DEF Range
  <2>5. ASSUME running # <<>>
        PROVE  /\ running[1].at \in Places
               /\ running[1].at \in {"queueFile", "etagFile", "memory"} =>
                     running[1].queue \in Queues
               /\ running[1].at \in {"edit", "etag"} =>
                     running[1].kind = "edit" /\ running[1].todo # <<>>
    <3>1. /\ running[1] \in Started
          /\ running[1].at \in {"edit", "etag"} => EditTyped(running[1])
          /\ running[1].at \in {"queueFile", "etagFile", "memory"} =>
                running[1].queue \in Queues
      BY <2>5, RunningIsTyped
    <3>2. running[1].at \in Places
      BY <3>1 DEF Started
    <3>3. EditTyped(running[1]) => running[1].kind = "edit" /\ running[1].todo # <<>>
      BY DEF EditTyped
    <3>4. QED
      BY <3>1, <3>2, <3>3
  <2>6. reports \subseteq Reports /\ {blind, overtaken, torn} \subseteq BOOLEAN
    BY DEF TypeInv
  <2>7. QED
    BY <2>1, <2>2, <2>3, <2>4, <2>5, <2>6 DEF TypeOK, Places
<1>3. QED
  BY <1>1, <1>2, TypeStep, PTL DEF Spec

-----------------------------------------------------------------------------
(* Copies that are what the server had *)

Wrong == blind \/ overtaken

(* The etag is one of the server's, or none; and as long as nothing went    *)
(* wrong, the movies are what the server had under it.                      *)
Real(etag, movies, states, wrong) ==
    /\ etag \in 0..Len(states)
    /\ ~wrong /\ etag # NoEtag => movies = states[etag]
RealCopy(queue, states, wrong) == Real(queue.etag, Ids(queue.movies), states, wrong)
Sound(queue, states, wrong) == queue = NoQueue \/ RealCopy(queue, states, wrong)

(* The changes name different objects of the queue, or movies to add. *)
Own(movies, todo) ==
    /\ \A i \in DOMAIN todo : todo[i].kind # "add" => todo[i].object \in Range(movies)
    /\ \A i, j \in DOMAIN todo : i < j => todo[i].object # todo[j].object

EditSound(op, states, wrong, late) ==
    RealCopy(op.queue, states, wrong) /\ (~late => Own(op.queue.movies, op.todo))

Editing == Running("edit") \/ Running("etag")
Saving == Running("queueFile") \/ Running("etagFile") \/ Running("memory")

MemorySound == Sound(memory, server, Wrong)
FileSound == queueFile = NoQueue \/ Real(queueFile.etag, queueFile.movies, server, Wrong)

ViewSound(view, states, wrong, late) ==
    /\ Sound(view.queue, states, wrong)
    /\ ~late => Range(view.rows) \subseteq Range(view.queue.movies)
ViewsSound == \A v \in Views : ViewSound(views[v], server, Wrong, overtaken)

PendingSound ==
    \A i \in DOMAIN pending :
       pending[i].kind = "edit" => EditSound(pending[i], server, Wrong, overtaken)

(* After a DELETE some later state of the server is the one before it with  *)
(* the movie deleted.                                                       *)
Deleting(op, states) ==
    \E k \in 2..Len(states) :
       /\ op.queue.etag < k
       /\ states[k] = Changed(states[k - 1], op.todo[1].kind, op.todo[1].object.movie,
                              op.todo[1].position)
RunningSound ==
    running # <<>> =>
        /\ running[1].at \in {"edit", "etag"} => EditSound(running[1], server, Wrong, overtaken)
        /\ running[1].at \in {"queueFile", "etagFile", "memory"} =>
              RealCopy(running[1].queue, server, Wrong)
        /\ running[1].at = "etag" => Deleting(running[1], server)

CopiesInv == MemorySound /\ FileSound /\ ViewsSound /\ PendingSound /\ RunningSound

LEMMA NothingSound ==
    ASSUME NEW states, NEW wrong, NEW late, NEW screen \in Screens
    PROVE  Sound(NoQueue, states, wrong) /\ ViewSound(Closed(screen), states, wrong, late)
<1>1. Closed(screen).queue = NoQueue /\ Closed(screen).rows = <<>>
  BY DEF Closed
<1>2. Range(<<>>) = {}
  BY DEF Range
<1>3. QED
  BY <1>1, <1>2 DEF Sound, ViewSound

LEMMA InitIsSound == ASSUME Init PROVE CopiesInv
<1>1. /\ server = <<FirstQueue>> /\ memory = NoQueue /\ pending = <<>> /\ running = <<>>
      /\ views \in Opened
      /\ \/ queueFile = NoQueue
         \/ queueFile = [etag |-> 1, movies |-> server[1]]
  BY DEF Init
<1>2. MemorySound /\ FileSound
  <2>1. Len(server) = 1
    BY <1>1
  <2>2. ASSUME queueFile = [etag |-> 1, movies |-> server[1]]
        PROVE  Real(queueFile.etag, queueFile.movies, server, Wrong)
    BY <2>1, <2>2 DEF Real
  <2>3. QED
    BY <1>1, <2>2 DEF MemorySound, FileSound, Sound
<1>3. ViewsSound
  <2> SUFFICES ASSUME NEW v \in Views PROVE ViewSound(views[v], server, Wrong, overtaken)
    BY DEF ViewsSound
  <2>1. PICK screen \in Screens : views[v] = Closed(screen)
    BY <1>1 DEF Opened
  <2>2. QED
    BY <2>1, NothingSound
<1>4. PendingSound /\ RunningSound
  BY <1>1 DEF PendingSound, RunningSound
<1>5. QED
  BY <1>2, <1>3, <1>4 DEF CopiesInv

-----------------------------------------------------------------------------
(* What stays as it was *)

(* The server's states are only added to, and what went wrong stays wrong.  *)
LEMMA OnlyGrows ==
    ASSUME TypeInv, [Next]_vars
    PROVE  /\ server' = server \/ \E movies : server' = Append(server, movies)
           /\ (blind => blind') /\ (overtaken => overtaken')
<1> USE DEF app, history, cache
<1>1. CASE ForeignChange
  BY <1>1 DEF ForeignChange, ServerMakes
<1>2. CASE ServerAccepts \/ EditLost
  BY <1>2 DEF ServerAccepts, EditLost, ServerDoes, ServerMakes
<1>3. CASE DownloadEtag
  <2> DEFINE missed == serverEtag # running[1].queue.etag + 1
  <2>1. /\ server' = server /\ overtaken' = overtaken
        /\ blind' = (blind \/ missed) \/ blind' = blind
    BY <1>3 DEF DownloadEtag
  <2> HIDE DEF missed
  <2>2. blind => blind'
    BY <2>1
  <2>3. QED
    BY <2>1, <2>2
<1>4. ASSUME NEW report \in reports, HandleReport(report)
      PROVE  server' = server /\ blind' = blind /\ (overtaken => overtaken')
  BY <1>4, HandledReport
<1>5. ASSUME UNCHANGED vars \/ Refresh \/ Crash
      PROVE  UNCHANGED <<server, blind, overtaken>>
  BY <1>5 DEF vars, Refresh, Crash
<1>6. ASSUME NEW v \in Views, EditQueue(v) \/ AddMovie(v) \/ Reload(v)
      PROVE  UNCHANGED <<server, blind, overtaken>>
  BY <1>6 DEF EditQueue, AddMovie, Reload
<1>7. ASSUME CheckEtag \/ FetchQueue \/ WriteQueueFile \/ WriteEtagFile \/ AddQueue
      PROVE  UNCHANGED <<server, blind, overtaken>>
  BY <1>7 DEF CheckEtag, FetchQueue, WriteQueueFile, WriteEtagFile, AddQueue
<1>8. ASSUME ServerRefuses \/ \E i \in DOMAIN pending : Start(i)
      PROVE  UNCHANGED <<server, blind, overtaken>>
  BY <1>8 DEF ServerRefuses, Start
<1>9. QED
  BY <1>1, <1>2, <1>3, <1>4, <1>5, <1>6, <1>7, <1>8 DEF Next, OperationStep

LEMMA Keeps ==
    ASSUME TypeInv, [Next]_vars
    PROVE  /\ Len(server) \in Nat /\ Len(server') \in Nat /\ Len(server) <= Len(server')
           /\ \A k \in 1..Len(server) : server'[k] = server[k]
           /\ (Wrong => Wrong') /\ (overtaken => overtaken')
           /\ \A etag, movies :
                 Real(etag, movies, server, Wrong) => Real(etag, movies, server', Wrong')
           /\ \A queue : RealCopy(queue, server, Wrong) => RealCopy(queue, server', Wrong')
           /\ \A queue : Sound(queue, server, Wrong) => Sound(queue, server', Wrong')
<1>1. server \in Seq(Contents) /\ Len(server) \in Nat /\ server' \in Seq(Contents)
  BY TypeStep DEF TypeInv, ServerTyped
<1>2. Len(server') \in Nat /\ Len(server) <= Len(server')
      /\ \A k \in 1..Len(server) : server'[k] = server[k]
  <2>1. CASE server' = server
    BY <1>1, <2>1
  <2>2. CASE \E movies : server' = Append(server, movies)
    <3>1. PICK movies : server' = Append(server, movies)
      BY <2>2
    <3>2. server \in Seq(Range(server))
      <4>1. server = [i \in 1..Len(server) |-> server[i]]
        BY <1>1
      <4>2. \A i \in 1..Len(server) : server[i] \in Range(server)
        BY <1>1 DEF Range
      <4>3. QED
        BY <1>1, <4>1, <4>2
    <3>3. Len(server') = Len(server) + 1 /\ \A k \in 1..Len(server) : server'[k] = server[k]
      BY <3>1, <3>2, AppendAnything
    <3>4. QED
      BY <1>1, <3>3
  <2>3. QED
    BY <2>1, <2>2, OnlyGrows
<1>3. (Wrong => Wrong') /\ (overtaken => overtaken')
  BY OnlyGrows DEF Wrong
<1>4. ASSUME NEW etag, NEW movies, Real(etag, movies, server, Wrong)
      PROVE  Real(etag, movies, server', Wrong')
  <2>1. etag \in 0..Len(server) /\ (~Wrong /\ etag # NoEtag => movies = server[etag])
    BY <1>4 DEF Real
  <2>2. etag \in 0..Len(server')
    BY <1>1, <1>2, <2>1
  <2>3. ASSUME ~Wrong', etag # NoEtag PROVE movies = server'[etag]
    <3>1. etag \in 1..Len(server)
      BY <1>1, <2>1, <2>3 DEF NoEtag
    <3>2. QED
      BY <1>2, <1>3, <2>1, <2>3, <3>1
  <2>4. QED
    BY <2>2, <2>3 DEF Real
<1>5. QED
  BY <1>1, <1>2, <1>3, <1>4 DEF RealCopy, Sound

LEMMA KeepsEdits ==
    ASSUME TypeInv, [Next]_vars
    PROVE  /\ \A op : EditSound(op, server, Wrong, overtaken)
                         => EditSound(op, server', Wrong', overtaken')
           /\ \A view : ViewSound(view, server, Wrong, overtaken)
                         => ViewSound(view, server', Wrong', overtaken')
           /\ \A op : Deleting(op, server) => Deleting(op, server')
<1>1. ASSUME NEW op, Deleting(op, server) PROVE Deleting(op, server')
  <2>1. PICK k \in 2..Len(server) :
           /\ op.queue.etag < k
           /\ server[k] = Changed(server[k - 1], op.todo[1].kind, op.todo[1].object.movie,
                                  op.todo[1].position)
    BY <1>1 DEF Deleting
  <2>2. k \in 2..Len(server') /\ server'[k] = server[k] /\ server'[k - 1] = server[k - 1]
    <3>1. k \in 1..Len(server) /\ k - 1 \in 1..Len(server)
      BY Keeps
    <3>2. QED
      BY <3>1, Keeps
  <2>3. QED
    BY <2>1, <2>2 DEF Deleting
<1>2. QED
  BY <1>1, Keeps DEF EditSound, ViewSound

LEMMA Undisturbed ==
    ASSUME TypeInv, CopiesInv, [Next]_vars
    PROVE  /\ UNCHANGED memory => MemorySound'
           /\ UNCHANGED queueFile => FileSound'
           /\ UNCHANGED views => ViewsSound'
           /\ UNCHANGED pending => PendingSound'
           /\ UNCHANGED running => RunningSound'
<1>1. UNCHANGED memory => MemorySound'
  BY Keeps DEF CopiesInv, MemorySound
<1>2. UNCHANGED queueFile => FileSound'
  BY Keeps DEF CopiesInv, FileSound
<1>3. UNCHANGED views => ViewsSound'
  BY KeepsEdits DEF CopiesInv, ViewsSound
<1>4. UNCHANGED pending => PendingSound'
  BY KeepsEdits DEF CopiesInv, PendingSound
<1>5. UNCHANGED running => RunningSound'
  BY Keeps, KeepsEdits DEF CopiesInv, RunningSound
<1>6. QED
  BY <1>1, <1>2, <1>3, <1>4, <1>5

(* One operation more waits. *)
LEMMA OneMoreSound ==
    ASSUME TypeInv, CopiesInv, [Next]_vars, NEW op \in Operations,
           pending' = Append(pending, op),
           op.kind = "edit" => EditSound(op, server', Wrong', overtaken')
    PROVE  PendingSound'
<1>1. \A i \in DOMAIN pending' : \/ pending'[i] = op
                                 \/ \E k \in DOMAIN pending : pending'[i] = pending[k]
  BY OneMorePending DEF TypeInv, PendingTyped
<1>2. QED
  BY <1>1, KeepsEdits DEF CopiesInv, PendingSound

(* The queue that the cache gives. *)
LEMMA QueueForFeedSound ==
    ASSUME TypeInv, CopiesInv PROVE Sound(QueueForFeed, server, Wrong)
BY QueueForFeedProperties DEF CopiesInv, MemorySound, FileSound, Sound, RealCopy

-----------------------------------------------------------------------------
(* The copies: the steps of the user and of the main thread *)

LEMMA ForeignChangeKeepsCopies ==
    ASSUME TypeInv, CopiesInv, ForeignChange PROVE CopiesInv'
<1>1. [Next]_vars
  BY DEF Next
<1>2. /\ UNCHANGED memory /\ UNCHANGED queueFile /\ UNCHANGED views /\ UNCHANGED pending
      /\ UNCHANGED running
  BY DEF ForeignChange, cache, app
<1>3. QED
  BY <1>1, <1>2, Undisturbed DEF CopiesInv

LEMMA EditQueueKeepsCopies ==
    ASSUME TypeInv, CopiesInv, NEW v \in Views, EditQueue(v) PROVE CopiesInv'
<1>1. [Next]_vars
  BY DEF Next
<1>2. /\ UNCHANGED memory /\ UNCHANGED queueFile /\ UNCHANGED running
      /\ UNCHANGED <<server, blind, overtaken>>
      /\ views[v].queue # NoQueue
      /\ views' = [views EXCEPT ![v].busy = TRUE]
  BY DEF EditQueue, cache, history
<1>3. PICK todo \in Todos(v) : pending' = Append(pending, Edit(v, views[v].queue, todo))
  BY DEF EditQueue
<1>4. views \in [Views -> ViewStates]
  BY DEF TypeInv, CopiesTyped
<1>5. views[v].queue \in NoneOrQueues /\ views[v].rows \in Seq(Objects)
  BY <1>4 DEF ViewStates
<1>6. /\ views[v].queue \in Queues /\ todo \in Seq(PlacedChanges) /\ todo # <<>>
      /\ \A i \in DOMAIN todo : todo[i].object \in Range(views[v].rows)
      /\ \A i, j \in DOMAIN todo : i < j => todo[i].object # todo[j].object
  BY <1>2, <1>5, AQueue, TodosProperties
<1>7. ViewSound(views[v], server, Wrong, overtaken)
  BY DEF CopiesInv, ViewsSound
<1>8. PICK op : op = Edit(v, views[v].queue, todo)
  OBVIOUS
<1>9. op \in Operations /\ op.queue = views[v].queue /\ op.todo = todo
  BY <1>6, <1>8, EditIsTyped
<1>10. EditSound(op, server, Wrong, overtaken)
  <2>1. RealCopy(op.queue, server, Wrong)
    BY <1>2, <1>7, <1>9 DEF ViewSound, Sound
  <2>2. ~overtaken => Own(op.queue.movies, op.todo)
    BY <1>6, <1>7, <1>9 DEF ViewSound, Own
  <2>3. QED
    BY <2>1, <2>2 DEF EditSound
<1>11. PendingSound'
  BY <1>1, <1>3, <1>8, <1>9, <1>10, KeepsEdits, OneMoreSound
<1>12. ViewsSound'
  <2> SUFFICES ASSUME NEW w \in Views PROVE ViewSound(views'[w], server', Wrong', overtaken')
    BY DEF ViewsSound
  <2>1. views'[w].queue = views[w].queue /\ views'[w].rows = views[w].rows
    BY <1>2, <1>4 DEF ViewStates
  <2>2. ViewSound(views[w], server', Wrong', overtaken')
    BY <1>1, KeepsEdits DEF CopiesInv, ViewsSound
  <2>3. QED
    BY <2>1, <2>2 DEF ViewSound
<1>13. QED
  BY <1>1, <1>2, <1>11, <1>12, Undisturbed DEF CopiesInv

LEMMA AddMovieKeepsCopies ==
    ASSUME TypeInv, CopiesInv, NEW v \in Views, AddMovie(v) PROVE CopiesInv'
<1>1. [Next]_vars
  BY DEF Next
<1>2. /\ UNCHANGED memory /\ UNCHANGED queueFile /\ UNCHANGED running
      /\ memory # NoQueue
      /\ views' = [views EXCEPT ![v].busy = TRUE]
  BY DEF AddMovie, cache
<1>3. PICK m \in Movies, position \in {-1, 0} :
         pending' = Append(pending, Edit(v, memory,
                       <<Change("add", [movie |-> m, copy |-> Fresh], position)>>))
  BY DEF AddMovie
<1>4. memory \in Queues /\ views \in [Views -> ViewStates]
  BY <1>2, AQueue DEF TypeInv, CopiesTyped
<1>5. PICK change : change = Change("add", [movie |-> m, copy |-> Fresh], position)
  OBVIOUS
<1>6. [movie |-> m, copy |-> Fresh] \in Objects
  BY FreshTyped DEF Objects
<1>7. change \in PlacedChanges /\ change.kind = "add"
  BY <1>5, <1>6 DEF Change, PlacedChanges, Changes
<1>8. PICK todo : todo = <<change>>
  OBVIOUS
<1>9. todo \in Seq(PlacedChanges) /\ todo # <<>> /\ DOMAIN todo = {1} /\ todo[1] = change
  BY <1>7, <1>8
<1>10. PICK op : op = Edit(v, memory, todo)
  OBVIOUS
<1>11. op \in Operations /\ op.queue = memory /\ op.todo = todo
  BY <1>4, <1>9, <1>10, EditIsTyped
<1>12. EditSound(op, server, Wrong, overtaken)
  <2>1. RealCopy(op.queue, server, Wrong)
    BY <1>2, <1>11 DEF CopiesInv, MemorySound, Sound
  <2>2. Own(op.queue.movies, op.todo)
    BY <1>7, <1>9, <1>11 DEF Own
  <2>3. QED
    BY <2>1, <2>2 DEF EditSound
<1>13. pending' = Append(pending, op)
  BY <1>3, <1>5, <1>8, <1>10
<1>14. PendingSound'
  BY <1>1, <1>11, <1>12, <1>13, KeepsEdits, OneMoreSound
<1>15. ViewsSound'
  <2> SUFFICES ASSUME NEW w \in Views PROVE ViewSound(views'[w], server', Wrong', overtaken')
    BY DEF ViewsSound
  <2>1. views'[w].queue = views[w].queue /\ views'[w].rows = views[w].rows
    BY <1>2, <1>4 DEF ViewStates
  <2>2. ViewSound(views[w], server', Wrong', overtaken')
    BY <1>1, KeepsEdits DEF CopiesInv, ViewsSound
  <2>3. QED
    BY <2>1, <2>2 DEF ViewSound
<1>16. QED
  BY <1>1, <1>2, <1>14, <1>15, Undisturbed DEF CopiesInv

LEMMA RefreshKeepsCopies == ASSUME TypeInv, CopiesInv, Refresh PROVE CopiesInv'
<1>1. [Next]_vars
  BY DEF Next
<1>2. /\ UNCHANGED memory /\ UNCHANGED queueFile /\ UNCHANGED views /\ UNCHANGED running
      /\ pending' = Append(pending, Download(FALSE))
  BY DEF Refresh, cache
<1>3. Download(FALSE) \in Operations /\ Download(FALSE).kind = "download"
  BY DownloadTyped
<1>4. PendingSound'
  BY <1>1, <1>2, <1>3, OneMoreSound
<1>5. QED
  BY <1>1, <1>2, <1>4, Undisturbed DEF CopiesInv

(* A view that loads shows the cache's queue and its movies. *)
LEMMA LoadingKeepsCopies ==
    ASSUME TypeInv, CopiesInv, [Next]_vars, NEW v \in Views,
           memory' = QueueForFeed, views' = [views EXCEPT ![v] = Loaded(v)],
           UNCHANGED <<queueFile, pending, running>>
    PROVE  CopiesInv'
<1>1. Sound(QueueForFeed, server', Wrong')
  BY QueueForFeedSound, Keeps
<1>2. MemorySound'
  BY <1>1 DEF MemorySound
<1>3. ViewsSound'
  <2> SUFFICES ASSUME NEW w \in Views PROVE ViewSound(views'[w], server', Wrong', overtaken')
    BY DEF ViewsSound
  <2>1. CASE w = v
    <3>1. views'[w] = Loaded(v)
      BY <2>1 DEF TypeInv, CopiesTyped
    <3>2. views'[w].queue = QueueForFeed /\ views'[w].rows = QueueForFeed.movies
      BY <3>1, LoadedTyped
    <3>3. QED
      BY <1>1, <3>2 DEF ViewSound
  <2>2. CASE w # v
    <3>1. views'[w] = views[w]
      BY <2>2 DEF TypeInv, CopiesTyped
    <3>2. QED
      BY <3>1, KeepsEdits DEF CopiesInv, ViewsSound
  <2>3. QED
    BY <2>1, <2>2
<1>4. QED
  BY <1>2, <1>3, Undisturbed DEF CopiesInv

LEMMA ReloadKeepsCopies ==
    ASSUME TypeInv, CopiesInv, NEW v \in Views, Reload(v) PROVE CopiesInv'
<1>1. [Next]_vars
  BY DEF Next
<1>2. /\ memory' = QueueForFeed /\ views' = [views EXCEPT ![v] = Loaded(v)]
      /\ UNCHANGED <<queueFile, pending, running>>
  BY DEF Reload
<1>3. QED
  BY <1>1, <1>2, LoadingKeepsCopies

(* A success that finds other objects in the cache than its rows is noted. *)
LEMMA HandleReportKeepsCopies ==
    ASSUME TypeInv, CopiesInv, NEW report \in reports, HandleReport(report)
    PROVE  CopiesInv'
<1>1. [Next]_vars
  BY DEF Next
<1>2. UNCHANGED <<queueFile, pending, running>> /\ report.view \in Views
  BY HandledReport
<1>3. PICK v \in Views : v = report.view
  BY <1>2
<1>4. views \in [Views -> ViewStates]
  BY DEF TypeInv, CopiesTyped
<1>5. ASSUME NEW w \in Views, w # v,
             DOMAIN views' = Views /\ views'[w] = views[w]
      PROVE  ViewSound(views'[w], server', Wrong', overtaken')
  BY <1>1, <1>5, KeepsEdits DEF CopiesInv, ViewsSound
<1>6. CASE memory' = QueueForFeed /\ views' = [views EXCEPT ![v] = Loaded(v)]
  BY <1>1, <1>2, <1>6, LoadingKeepsCopies
<1>7. CASE memory' = memory /\ views' = [views EXCEPT ![v].busy = FALSE]
  <2>1. /\ views'[v].queue = views[v].queue /\ views'[v].rows = views[v].rows
        /\ DOMAIN views' = Views /\ \A w \in Views : w # v => views'[w] = views[w]
    BY <1>4, <1>7 DEF ViewStates
  <2>2. ViewSound(views[v], server', Wrong', overtaken')
    BY <1>1, KeepsEdits DEF CopiesInv, ViewsSound
  <2>3. ViewSound(views'[v], server', Wrong', overtaken')
    BY <2>1, <2>2 DEF ViewSound
  <2>4. ViewsSound'
    BY <1>5, <2>1, <2>3 DEF ViewsSound
  <2>5. QED
    BY <1>1, <1>2, <1>7, <2>4, Undisturbed DEF CopiesInv
<1>8. ASSUME NEW rows \in Seq(Objects), memory' = QueueForFeed,
             views' = [views EXCEPT ![v] =
                          [@ EXCEPT !.queue = QueueForFeed, !.rows = rows, !.busy = FALSE]],
             overtaken' = (overtaken \/ ~(Range(rows) \subseteq Range(QueueForFeed.movies)))
      PROVE  CopiesInv'
  <2>1. /\ views'[v].queue = QueueForFeed /\ views'[v].rows = rows
        /\ DOMAIN views' = Views /\ \A w \in Views : w # v => views'[w] = views[w]
    BY <1>4, <1>8 DEF ViewStates
  <2>2. Sound(QueueForFeed, server', Wrong')
    BY <1>1, QueueForFeedSound, Keeps
  <2>3. ~overtaken' => Range(rows) \subseteq Range(QueueForFeed.movies)
    BY <1>8
  <2>4. ViewSound(views'[v], server', Wrong', overtaken')
    BY <2>1, <2>2, <2>3 DEF ViewSound
  <2>5. ViewsSound' /\ MemorySound'
    BY <1>5, <1>8, <2>1, <2>2, <2>4 DEF ViewsSound, MemorySound
  <2>6. QED
    BY <1>1, <1>2, <2>5, Undisturbed DEF CopiesInv
<1>9. QED
  BY <1>3, <1>6, <1>7, <1>8, HandledReport

-----------------------------------------------------------------------------
(* The copies: the steps of an operation *)

(* An operation that makes a change in its copy: what the server makes of   *)
(* its movies the operation makes of the objects.                           *)
LEMMA AppliedIsSound ==
    ASSUME TypeInv, CopiesInv, [Next]_vars, running # <<>>,
           running[1].at \in {"edit", "etag"}, NEW etag \in 1..MaxEtag, Applied(etag),
           etag <= Len(server'),
           LET op == running[1]
               change == op.todo[1]
           IN  ~Wrong' =>
                  /\ IsInjective(Ids(op.queue.movies))
                  /\ server'[etag] = Changed(Ids(op.queue.movies), change.kind,
                                             change.object.movie, change.position)
    PROVE  RunningSound'
<1>1. PICK op : op = running[1]
  OBVIOUS
<1>2. PICK change : change = op.todo[1]
  OBVIOUS
<1>3. PICK old : old = op.queue.movies
  OBVIOUS
<1>4. PICK movies : movies = Changed(old, change.kind, change.object, change.position)
  OBVIOUS
<1>5. PICK run : run = running'[1]
  OBVIOUS
<1>6. etag \in 0..MaxEtag
  OBVIOUS
<1>7. /\ running' # <<>> /\ run.queue.etag = etag /\ run.queue.movies = movies
      /\ run.todo = Tail(op.todo)
      /\ run.at = IF Tail(op.todo) = <<>> THEN "queueFile" ELSE "edit"
      /\ Fitting(old, change.kind, change.object, change.position)
  BY <1>1, <1>2, <1>3, <1>4, <1>5, <1>6, AppliedRun
<1>8. /\ change.kind \in FourKinds /\ change.object \in Objects /\ change.position \in Int
      /\ op.todo \in Seq(PlacedChanges) /\ op.todo # <<>> /\ old \in Seq(Objects)
  BY <1>1, <1>2, <1>3, FirstChange
<1>9. EditSound(op, server', Wrong', overtaken')
  BY <1>1, KeepsEdits DEF CopiesInv, RunningSound
<1>10. ~overtaken' => Own(old, op.todo)
  BY <1>3, <1>9 DEF EditSound
<1>11. DOMAIN op.todo = 1..Len(op.todo) /\ Len(op.todo) \in Nat \ {0} /\ 1 \in DOMAIN op.todo
  BY <1>8
<1>12. RealCopy(run.queue, server', Wrong')
  <2>1. etag \in 0..Len(server')
    BY Keeps
  <2>2. ASSUME ~Wrong' PROVE Ids(movies) = server'[etag]
    <3>1. change.kind # "add" => change.object \in Range(old)
      BY <1>2, <1>10, <1>11, <2>2 DEF Own, Wrong
    <3>2. IsInjective(Ids(old))
      BY <1>1, <1>3, <2>2
    <3>3. Ids(movies) = Changed(Ids(old), change.kind, change.object.movie, change.position)
      BY <1>4, <1>7, <1>8, <3>1, <3>2, ChangedIds
    <3>4. server'[etag] = Changed(Ids(old), change.kind, change.object.movie, change.position)
      BY <1>1, <1>2, <1>3, <2>2
    <3>5. QED
      BY <3>3, <3>4
  <2>3. QED
    BY <1>7, <2>1, <2>2 DEF RealCopy, Real
<1>13. ASSUME ~overtaken' PROVE Own(movies, run.todo)
  <2>1. PICK rest : rest = Tail(op.todo)
    OBVIOUS
  <2>2. /\ DOMAIN rest = 1..(Len(op.todo) - 1)
        /\ \A i \in DOMAIN rest : i + 1 \in DOMAIN op.todo /\ rest[i] = op.todo[i + 1]
    BY <1>8, <1>11, <2>1
  <2>3. Own(old, op.todo)
    BY <1>10, <1>13
  <2>4. \A y \in Range(old) : y # change.object => y \in Range(movies)
    <3>1. PICK O : O = Objects
      OBVIOUS
    <3>2. old \in Seq(O) /\ change.object \in O
      BY <1>8, <3>1
    <3>3. \A y \in Range(old) : (change.kind = "delete" => y # change.object)
             => y \in Range(Changed(old, change.kind, change.object, change.position))
      BY <1>7, <1>8, <3>2, ChangedProperties
    <3>4. QED
      BY <1>4, <3>3
  <2>5. ASSUME NEW i \in DOMAIN rest, rest[i].kind # "add"
        PROVE  rest[i].object \in Range(movies)
    <3>1. i + 1 \in DOMAIN op.todo /\ rest[i] = op.todo[i + 1] /\ 1 < i + 1
      BY <1>11, <2>2
    <3>2. rest[i].object \in Range(old) /\ rest[i].object # change.object
      BY <1>2, <1>11, <2>3, <2>5, <3>1 DEF Own
    <3>3. QED
      BY <2>4, <3>2
  <2>6. ASSUME NEW i \in DOMAIN rest, NEW j \in DOMAIN rest, i < j
        PROVE  rest[i].object # rest[j].object
    <3>1. i \in Int /\ j \in Int /\ i + 1 < j + 1
      BY <1>11, <2>2, <2>6
    <3>2. /\ i + 1 \in DOMAIN op.todo /\ rest[i] = op.todo[i + 1]
          /\ j + 1 \in DOMAIN op.todo /\ rest[j] = op.todo[j + 1]
      BY <2>2
    <3>3. QED
      BY <2>3, <3>1, <3>2 DEF Own
  <2>7. QED
    BY <1>7, <2>1, <2>5, <2>6 DEF Own
<1>14. EditSound(run, server', Wrong', overtaken')
  BY <1>7, <1>12, <1>13 DEF EditSound
<1>15. run.at \in {"edit", "queueFile"}
  BY <1>7
<1>16. QED
  BY <1>5, <1>7, <1>12, <1>14, <1>15 DEF RunningSound

LEMMA FailLeavesSound ==
    ASSUME TypeInv, CopiesInv, [Next]_vars, running # <<>>,
           running[1].at \in {"edit", "etag"}, Fail
    PROVE  RunningSound'
<1>1. CASE running' = <<>>
  BY <1>1 DEF RunningSound
<1>2. CASE /\ running' # <<>> /\ running'[1].queue = running[1].queue
           /\ running'[1].at = "queueFile"
  <2>1. RealCopy(running[1].queue, server', Wrong')
    BY Keeps DEF CopiesInv, RunningSound, EditSound
  <2>2. QED
    BY <1>2, <2>1 DEF RunningSound
<1>3. QED
  BY <1>1, <1>2, FailedRun

LEMMA StartKeepsCopies ==
    ASSUME TypeInv, CopiesInv, NEW i \in DOMAIN pending, Start(i) PROVE CopiesInv'
<1>1. [Next]_vars
  BY DEF Next, OperationStep
<1>2. /\ UNCHANGED memory /\ UNCHANGED queueFile /\ UNCHANGED views
  BY DEF Start, cache
<1>3. PICK op : op = pending[i]
  OBVIOUS
<1>4. PICK run : run = running'[1]
  OBVIOUS
<1>5. /\ run.at = IF op.kind = "edit" THEN "edit" ELSE "check"
      /\ run.queue = op.queue /\ run.todo = op.todo /\ running' # <<>>
      /\ \A j \in DOMAIN pending' : \E k \in DOMAIN pending : pending'[j] = pending[k]
  BY <1>3, <1>4, Starting DEF TypeInv
<1>6. op.kind = "edit" => EditSound(op, server', Wrong', overtaken')
  BY <1>1, <1>3, KeepsEdits DEF CopiesInv, PendingSound
<1>7. RunningSound'
  <2>1. run.at \in {"edit", "etag"} => EditSound(run, server', Wrong', overtaken')
    BY <1>5, <1>6 DEF EditSound
  <2>2. run.at \in {"edit", "check"}
    BY <1>5
  <2>3. QED
    BY <1>4, <1>5, <2>1, <2>2 DEF RunningSound
<1>8. PendingSound'
  BY <1>1, <1>5, KeepsEdits DEF CopiesInv, PendingSound
<1>9. QED
  BY <1>1, <1>2, <1>7, <1>8, Undisturbed DEF CopiesInv

(* A POST is accepted for the queue the server has, so it makes of the      *)
(* copy what it makes of the server's.                                      *)
LEMMA ServerAcceptsKeepsCopies ==
    ASSUME TypeInv, CopiesInv, ServerAccepts PROVE CopiesInv'
<1>1. [Next]_vars
  BY DEF Next, OperationStep
<1>2. /\ UNCHANGED memory /\ UNCHANGED queueFile /\ UNCHANGED views /\ UNCHANGED pending
      /\ running # <<>> /\ running[1].at = "edit"
  BY DEF ServerAccepts, Running, cache
<1>3. PICK op : op = running[1]
  OBVIOUS
<1>4. PICK change : change = op.todo[1]
  OBVIOUS
<1>5. /\ Accepts(op.queue, change) /\ ServerDoes(change)
      /\ IF change.kind = "delete" THEN GoOn([op EXCEPT !.at = "etag"])
                                   ELSE Applied(serverEtag + 1)
  BY <1>3, <1>4 DEF ServerAccepts
<1>6. PICK made : made = Changed(serverMovies, change.kind, change.object.movie,
                                 change.position)
  OBVIOUS
<1>7. server' = Append(server, made)
  BY <1>5, <1>6 DEF ServerDoes, ServerMakes
<1>8. /\ Len(server) \in Nat /\ Len(server) >= 1 /\ Len(server') = Len(server) + 1
      /\ server'[Len(server) + 1] = made
      /\ server'[Len(server)] = serverMovies
      /\ serverMovies = server[Len(server)] /\ serverEtag = Len(server)
      /\ IsInjective(serverMovies) /\ Len(server) + 1 \in 1..MaxEtag
  <2>1. server \in Seq(Contents) /\ Len(server) \in Nat /\ Len(server) >= 1
    BY DEF TypeInv, ServerTyped
  <2>2. /\ serverMovies = server[Len(server)] /\ serverEtag = Len(server)
        /\ IsInjective(serverMovies)
    BY LatestTyped DEF TypeInv
  <2>3. server = [i \in 1..Len(server) |-> server[i]]
    BY <2>1
  <2>4. server \in Seq(Range(server))
    <3>1. \A i \in 1..Len(server) : server[i] \in Range(server)
      BY <2>1 DEF Range
    <3>2. QED
      BY <2>1, <2>3, <3>1
  <2>5. /\ Len(server') = Len(server) + 1 /\ server'[Len(server) + 1] = made
        /\ server'[Len(server)] = server[Len(server)]
    BY <1>7, <2>1, <2>4, AppendAnything
  <2>6. Len(server) < MaxEtag /\ MaxEtag \in Nat
    BY <1>5, <2>2, NetflixAssumption DEF Accepts
  <2>7. QED
    BY <2>1, <2>2, <2>5, <2>6
<1>9. EditSound(op, server, Wrong, overtaken)
  BY <1>2, <1>3 DEF CopiesInv, RunningSound
<1>10. RunningSound'
  <2>1. CASE change.kind = "delete"
    <3>1. PICK run : run = running'[1]
      OBVIOUS
    <3>2. /\ running' # <<>> /\ run.at = "etag" /\ run.queue = op.queue /\ run.todo = op.todo
      BY <1>2, <1>3, <1>5, <2>1, <3>1, DeletedRun
    <3>3. EditSound(run, server', Wrong', overtaken')
      BY <1>1, <1>9, <3>2, KeepsEdits DEF EditSound
    <3>4. Deleting(run, server')
      <4>1. PICK k : k = Len(server) + 1
        OBVIOUS
      <4>2. k \in 2..Len(server') /\ k - 1 = Len(server)
        BY <1>8, <4>1
      <4>3. op.queue.etag < k
        <5>1. op.queue.etag \in 0..Len(server)
          BY <1>9 DEF EditSound, RealCopy, Real
        <5>2. QED
          BY <1>8, <4>1, <5>1
      <4>4. server'[k] = Changed(server'[k - 1], change.kind, change.object.movie,
                                 change.position)
        BY <1>6, <1>8, <4>1, <4>2
      <4>5. QED
        BY <1>4, <3>2, <4>2, <4>3, <4>4 DEF Deleting
    <3>5. QED
      BY <3>1, <3>2, <3>3, <3>4 DEF RunningSound
  <2>2. CASE change.kind # "delete"
    <3>1. PICK etag : etag = Len(server) + 1
      OBVIOUS
    <3>2. /\ Applied(etag) /\ etag \in 1..MaxEtag /\ etag <= Len(server')
      BY <1>5, <1>8, <2>2, <3>1
    <3>3. op.queue.etag = Len(server)
      BY <1>5, <1>8, <2>2 DEF Accepts, Mismatch
    <3>4. ASSUME ~Wrong' PROVE Ids(op.queue.movies) = serverMovies
      <4>1. ~Wrong
        BY <1>1, <3>4, Keeps
      <4>2. op.queue.etag # NoEtag
        BY <1>8, <3>3 DEF NoEtag
      <4>3. QED
        BY <1>8, <1>9, <3>3, <4>1, <4>2 DEF EditSound, RealCopy, Real
    <3>5. ASSUME ~Wrong'
          PROVE  /\ IsInjective(Ids(op.queue.movies))
                 /\ server'[etag] = Changed(Ids(op.queue.movies), change.kind,
                                            change.object.movie, change.position)
      BY <1>6, <1>8, <3>1, <3>4, <3>5
    <3>6. QED
      BY <1>1, <1>2, <1>3, <1>4, <3>2, <3>5, AppliedIsSound
  <2>3. QED
    BY <2>1, <2>2
<1>11. QED
  BY <1>1, <1>2, <1>10, Undisturbed DEF CopiesInv

LEMMA ServerRefusesKeepsCopies ==
    ASSUME TypeInv, CopiesInv, ServerRefuses PROVE CopiesInv'
<1>1. [Next]_vars
  BY DEF Next, OperationStep
<1>2. /\ UNCHANGED memory /\ UNCHANGED queueFile /\ UNCHANGED views
      /\ running # <<>> /\ running[1].at = "edit" /\ Fail
      /\ pending' = pending \/ pending' = Append(pending, Download(TRUE))
  BY DEF ServerRefuses, Running, cache
<1>3. Download(TRUE) \in Operations /\ Download(TRUE).kind = "download"
  BY DownloadTyped
<1>4. PendingSound'
  BY <1>1, <1>2, <1>3, OneMoreSound, Undisturbed
<1>5. RunningSound'
  BY <1>1, <1>2, FailLeavesSound
<1>6. QED
  BY <1>1, <1>2, <1>4, <1>5, Undisturbed DEF CopiesInv

LEMMA EditLostKeepsCopies ==
    ASSUME TypeInv, CopiesInv, EditLost PROVE CopiesInv'
<1>1. [Next]_vars
  BY DEF Next, OperationStep
<1>2. /\ UNCHANGED memory /\ UNCHANGED queueFile /\ UNCHANGED views /\ UNCHANGED pending
      /\ running # <<>> /\ running[1].at = "edit" /\ Fail
  BY DEF EditLost, Running, cache
<1>3. RunningSound'
  BY <1>1, <1>2, FailLeavesSound
<1>4. QED
  BY <1>1, <1>2, <1>3, Undisturbed DEF CopiesInv

(* The etag a DELETE is told is right for the copy if it is the next one:   *)
(* then the step from the copy's state to it is the DELETE.                 *)
LEMMA DownloadEtagKeepsCopies ==
    ASSUME TypeInv, CopiesInv, DownloadEtag PROVE CopiesInv'
<1>1. [Next]_vars
  BY DEF Next, OperationStep
<1>2. /\ UNCHANGED memory /\ UNCHANGED queueFile /\ UNCHANGED views /\ UNCHANGED pending
      /\ UNCHANGED server /\ running # <<>> /\ running[1].at = "etag"
  BY DEF DownloadEtag, Running, cache
<1>3. PICK op : op = running[1]
  OBVIOUS
<1>4. PICK change : change = op.todo[1]
  OBVIOUS
<1>5. EditSound(op, server, Wrong, overtaken) /\ Deleting(op, server)
  BY <1>2, <1>3 DEF CopiesInv, RunningSound
<1>6. /\ Len(server) \in 1..MaxEtag /\ serverEtag = Len(server)
      /\ server \in Seq(Contents)
  BY LatestTyped DEF TypeInv, ServerTyped
<1>7. CASE Applied(serverEtag) /\ blind' = (blind \/ serverEtag # op.queue.etag + 1)
  <2> DEFINE missed == Len(server) # op.queue.etag + 1
  <2>1. blind' = (blind \/ missed)
    BY <1>6, <1>7
  <2>2. ~blind' => ~missed
    <3> HIDE DEF missed
    <3>1. QED
      BY <2>1
  <2>3. ASSUME ~Wrong'
        PROVE  /\ IsInjective(Ids(op.queue.movies))
               /\ server'[Len(server)] = Changed(Ids(op.queue.movies), change.kind,
                                                 change.object.movie, change.position)
    <3>1. ~Wrong /\ Len(server) = op.queue.etag + 1
      BY <1>1, <2>2, <2>3, Keeps DEF Wrong
    <3>2. PICK k \in 2..Len(server) :
             /\ op.queue.etag < k
             /\ server[k] = Changed(server[k - 1], change.kind, change.object.movie,
                                    change.position)
      BY <1>4, <1>5 DEF Deleting
    <3>3. op.queue.etag \in 0..Len(server)
      BY <1>5 DEF EditSound, RealCopy, Real
    <3>4. k = Len(server) /\ k - 1 = op.queue.etag /\ op.queue.etag \in 1..Len(server)
      BY <1>6, <3>1, <3>2, <3>3
    <3>5. Ids(op.queue.movies) = server[op.queue.etag]
      BY <1>5, <3>1, <3>4 DEF EditSound, RealCopy, Real, NoEtag
    <3>6. server[op.queue.etag] \in Contents
      BY <1>6, <3>4
    <3>7. IsInjective(Ids(op.queue.movies))
      BY <3>5, <3>6, ContentsProperties
    <3>8. QED
      BY <1>2, <3>2, <3>4, <3>5, <3>7
  <2>4. PICK etag : etag = Len(server)
    OBVIOUS
  <2>5. etag \in 1..MaxEtag /\ Applied(etag) /\ etag <= Len(server')
    BY <1>2, <1>6, <1>7, <2>4, Keeps
  <2>6. RunningSound'
    BY <1>1, <1>2, <1>3, <1>4, <2>3, <2>4, <2>5, AppliedIsSound
  <2>7. QED
    BY <1>1, <1>2, <2>6, Undisturbed DEF CopiesInv
<1>8. CASE Fail
  <2>1. RunningSound'
    BY <1>1, <1>2, <1>8, FailLeavesSound
  <2>2. QED
    BY <1>1, <1>2, <2>1, Undisturbed DEF CopiesInv
<1>9. QED
  BY <1>3, <1>7, <1>8 DEF DownloadEtag

LEMMA CheckEtagKeepsCopies ==
    ASSUME TypeInv, CopiesInv, CheckEtag PROVE CopiesInv'
<1>1. [Next]_vars
  BY DEF Next, OperationStep
<1>2. /\ UNCHANGED queueFile /\ UNCHANGED views /\ UNCHANGED pending
      /\ running # <<>> /\ memory' = QueueForFeed
      /\ running' = <<>> \/ running' = <<[running[1] EXCEPT !.at = "fetch"]>>
  BY DEF CheckEtag, GoOn, Stop, Running
<1>3. running' # <<>> => running'[1].at = "fetch"
  BY <1>2, MovedOnRun DEF Places
<1>4. RunningSound'
  BY <1>3 DEF RunningSound
<1>5. MemorySound'
  BY <1>1, <1>2, QueueForFeedSound, Keeps DEF MemorySound
<1>6. QED
  BY <1>1, <1>2, <1>4, <1>5, Undisturbed DEF CopiesInv

LEMMA FetchQueueKeepsCopies ==
    ASSUME TypeInv, CopiesInv, FetchQueue PROVE CopiesInv'
<1>1. [Next]_vars
  BY DEF Next, OperationStep
<1>2. /\ UNCHANGED memory /\ UNCHANGED queueFile /\ UNCHANGED views /\ UNCHANGED pending
      /\ UNCHANGED server
  BY DEF FetchQueue, cache
<1>3. RunningSound'
  <2>1. CASE running' = <<>>
    BY <2>1 DEF RunningSound
  <2>2. CASE running' # <<>>
    <3>1. PICK run : run = running'[1]
      OBVIOUS
    <3>2. /\ run.at = "queueFile"
          /\ \/ run.queue.etag = serverEtag /\ Ids(run.queue.movies) = serverMovies
             \/ run.queue.etag = NoEtag
      BY <2>2, <3>1, FetchedRun
    <3>3. /\ serverEtag = Len(server) /\ serverMovies = server[Len(server)]
          /\ Len(server) \in Nat
      BY LatestTyped DEF TypeInv, ServerTyped
    <3>4. RealCopy(run.queue, server', Wrong')
      BY <1>2, <3>2, <3>3 DEF RealCopy, Real, NoEtag
    <3>5. QED
      BY <2>2, <3>1, <3>2, <3>4 DEF RunningSound
  <2>3. QED
    BY <2>1, <2>2
<1>4. QED
  BY <1>1, <1>2, <1>3, Undisturbed DEF CopiesInv

(* The steps that save the queue in hand. *)
LEMMA SaveKeepsCopies ==
    ASSUME TypeInv, CopiesInv, WriteQueueFile \/ WriteEtagFile \/ AddQueue
    PROVE  CopiesInv'
<1>1. [Next]_vars
  BY DEF Next, OperationStep
<1>2. /\ UNCHANGED views /\ UNCHANGED pending /\ running # <<>>
      /\ running[1].at \in {"queueFile", "etagFile", "memory"}
      /\ memory' \in {memory, running[1].queue}
      /\ queueFile' \in {queueFile, InFile(running[1].queue)}
      /\ \/ running' = <<>>
         \/ running' = <<[running[1] EXCEPT !.at = "etagFile"]>>
         \/ running' = <<[running[1] EXCEPT !.at = "memory"]>>
  BY DEF WriteQueueFile, WriteEtagFile, AddQueue, GoOn, Stop, Running, InFile
<1>3. PICK queue : queue = running[1].queue
  OBVIOUS
<1>4. queue \in Queues /\ RealCopy(queue, server', Wrong')
  BY <1>1, <1>2, <1>3, RunningIsTyped, Keeps DEF CopiesInv, RunningSound
<1>5. InFile(queue).etag = queue.etag /\ InFile(queue).movies = Ids(queue.movies)
  BY <1>4 DEF InFile, Queues
<1>6. \/ running' = <<>>
      \/ /\ running' # <<>> /\ running'[1].at \in {"etagFile", "memory"}
         /\ running'[1].queue = queue
  BY <1>2, <1>3, MovedOnRun DEF Places
<1>7. RunningSound'
  BY <1>4, <1>6 DEF RunningSound
<1>8. MemorySound'
  <2>1. memory' = memory \/ memory' = queue
    BY <1>2, <1>3
  <2>2. QED
    BY <1>1, <1>4, <2>1, Undisturbed DEF MemorySound, Sound
<1>9. FileSound'
  <2>1. queueFile' = queueFile \/ queueFile' = InFile(queue)
    BY <1>2, <1>3
  <2>2. Real(InFile(queue).etag, InFile(queue).movies, server', Wrong')
    BY <1>4, <1>5 DEF RealCopy
  <2>3. QED
    BY <1>1, <2>1, <2>2, Undisturbed DEF FileSound
<1>10. QED
  BY <1>1, <1>2, <1>7, <1>8, <1>9, Undisturbed DEF CopiesInv

LEMMA CrashKeepsCopies == ASSUME TypeInv, CopiesInv, Crash PROVE CopiesInv'
<1>1. [Next]_vars
  BY DEF Next
<1>2. /\ UNCHANGED queueFile /\ memory' = NoQueue /\ pending' = <<>> /\ running' = <<>>
      /\ views' \in Opened
  BY DEF Crash
<1>3. MemorySound' /\ PendingSound' /\ RunningSound'
  BY <1>2 DEF MemorySound, Sound, PendingSound, RunningSound
<1>4. ViewsSound'
  <2> SUFFICES ASSUME NEW v \in Views PROVE ViewSound(views'[v], server', Wrong', overtaken')
    BY DEF ViewsSound
  <2>1. PICK screen \in Screens : views'[v] = Closed(screen)
    BY <1>2 DEF Opened
  <2>2. QED
    BY <2>1, NothingSound
<1>5. QED
  BY <1>1, <1>2, <1>3, <1>4, Undisturbed DEF CopiesInv

LEMMA NextKeepsCopies == ASSUME TypeInv, CopiesInv, [Next]_vars PROVE CopiesInv'
<1>1. CASE UNCHANGED vars
  BY <1>1, Undisturbed DEF vars, cache, app, CopiesInv
<1>2. CASE OperationStep
  BY <1>2, StartKeepsCopies, ServerAcceptsKeepsCopies, ServerRefusesKeepsCopies,
     EditLostKeepsCopies, DownloadEtagKeepsCopies, CheckEtagKeepsCopies,
     FetchQueueKeepsCopies, SaveKeepsCopies DEF OperationStep
<1>3. QED
  BY <1>1, <1>2, ForeignChangeKeepsCopies, EditQueueKeepsCopies, AddMovieKeepsCopies,
     ReloadKeepsCopies, RefreshKeepsCopies, HandleReportKeepsCopies, CrashKeepsCopies
     DEF Next

LEMMA CopiesAreSound == Spec => [](TypeInv /\ CopiesInv)
<1>1. Init => TypeInv /\ CopiesInv
  BY TypeInit, InitIsSound
<1>2. TypeInv /\ CopiesInv /\ [Next]_vars => (TypeInv /\ CopiesInv)'
  BY TypeStep, NextKeepsCopies
<1>3. QED
  BY <1>1, <1>2, PTL DEF Spec

(* No copy of the queue pairs an etag with movies that the server never had *)
(* under it, whatever is lost, refused, half done or killed, unless one of  *)
(* two things happened: a DELETE was not the one change between two etags,  *)
(* or a success was handled when the cache had been downloaded again, which *)
(* leaves a screen with rows that are not objects of its queue.             *)
THEOREM CopiesAreGenuineUnlessBlindOrOvertaken == Spec => []CopiesGenuineUnlessBlindOrOvertaken
<1>1. ASSUME NEW queue, Sound(queue, server, Wrong), ~Wrong PROVE Genuine(queue)
  BY <1>1 DEF Sound, RealCopy, Real, Genuine
<1>2. CopiesInv => CopiesGenuineUnlessBlindOrOvertaken
  <2> SUFFICES ASSUME CopiesInv, ~Wrong PROVE CopiesGenuine
    BY DEF CopiesGenuineUnlessBlindOrOvertaken, Wrong
  <2>1. Genuine(memory)
    BY <1>1 DEF CopiesInv, MemorySound
  <2>2. queueFile # NoQueue /\ queueFile.etag # NoEtag
           => queueFile.movies = server[queueFile.etag]
    BY DEF CopiesInv, FileSound, Real
  <2>3. \A v \in Views : Genuine(views[v].queue)
    BY <1>1 DEF CopiesInv, ViewsSound, ViewSound
  <2>4. QED
    BY <2>1, <2>2, <2>3 DEF CopiesGenuine
<1>3. QED
  BY <1>2, CopiesAreSound, PTL

-----------------------------------------------------------------------------
(* The files and the memory *)

(* Not in the middle of the three writes: with an etag there is a queue     *)
(* file at least as new, and the file has what the memory has.              *)
AtRest ==
    /\ etagFile # NoEtag => queueFile # NoQueue /\ queueFile.etag >= etagFile
    /\ memory # NoQueue => queueFile = InFile(memory)

FilesInv ==
    torn \/
      /\ ~Running("etagFile") /\ ~Running("memory") => AtRest
      /\ Running("etagFile") \/ Running("memory") => queueFile = InFile(running[1].queue)
      /\ Running("memory") => etagFile = running[1].queue.etag

LEMMA InitFiles == ASSUME Init PROVE FilesInv
<1>1. /\ running = <<>> /\ memory = NoQueue
      /\ \/ etagFile = NoEtag
         \/ queueFile = [etag |-> 1, movies |-> server[1]] /\ etagFile = 1
  BY DEF Init
<1>2. etagFile # NoEtag => queueFile # NoQueue /\ queueFile.etag >= etagFile
  <2>1. NoQueue.etag = -1
    BY DEF NoQueue
  <2>2. ASSUME queueFile = [etag |-> 1, movies |-> server[1]] PROVE queueFile.etag = 1
    BY <2>2
  <2>3. QED
    BY <1>1, <2>1, <2>2
<1>3. AtRest
  BY <1>1, <1>2 DEF AtRest
<1>4. QED
  BY <1>1, <1>3 DEF FilesInv, Running

(* Steps outside of the writes only load the memory from the file. *)
LEMMA LoadingKeepsFiles ==
    ASSUME TypeInv, FilesInv, UNCHANGED <<queueFile, etagFile, torn>>,
           memory' \in {memory, QueueForFeed},
           \/ running' = running
           \/ ~Running("etagFile") /\ ~Running("memory")
                /\ ~Running("etagFile")' /\ ~Running("memory")'
    PROVE  FilesInv'
<1>1. memory' # NoQueue => memory' = memory \/ InFile(memory') = queueFile
  BY QueueForFeedProperties
<1>2. AtRest => AtRest'
  BY <1>1 DEF AtRest
<1>3. CASE running' = running
  BY <1>2, <1>3 DEF FilesInv, Running
<1>4. CASE ~Running("etagFile") /\ ~Running("memory")
                /\ ~Running("etagFile")' /\ ~Running("memory")'
  BY <1>2, <1>4 DEF FilesInv
<1>5. QED
  BY <1>3, <1>4

(* An operation that does not save goes on without starting to write. *)
LEMMA NotWriting ==
    ASSUME TypeInv,
           \/ \E i \in DOMAIN pending : Start(i)
           \/ ServerAccepts \/ ServerRefuses \/ EditLost \/ DownloadEtag
           \/ CheckEtag \/ FetchQueue
    PROVE  /\ ~Running("etagFile") /\ ~Running("memory")
           /\ ~Running("etagFile")' /\ ~Running("memory")'
<1>1. ASSUME running # <<>>, running[1].at \in {"edit", "etag"}, NEW etag \in 0..MaxEtag,
             Applied(etag)
      PROVE  ~Running("etagFile")' /\ ~Running("memory")'
  BY <1>1, AppliedRun DEF Running
<1>2. ASSUME running # <<>>, running[1].at \in {"edit", "etag"}, Fail
      PROVE  ~Running("etagFile")' /\ ~Running("memory")'
  BY <1>2, FailedRun DEF Running
<1>3. serverEtag \in 0..MaxEtag /\ (serverEtag < MaxEtag => serverEtag + 1 \in 0..MaxEtag)
  <2>1. serverEtag \in 1..MaxEtag /\ MaxEtag \in Nat
    BY LatestTyped, NetflixAssumption DEF TypeInv
  <2>2. QED
    BY <2>1
<1>4. ASSUME NEW i \in DOMAIN pending, Start(i)
      PROVE  /\ ~Running("etagFile") /\ ~Running("memory")
             /\ ~Running("etagFile")' /\ ~Running("memory")'
  <2>1. running = <<>> /\ running'[1].at \in {"edit", "check"}
    BY <1>4, Starting DEF TypeInv
  <2>2. QED
    BY <2>1 DEF Running
<1>5. CASE ServerAccepts
  <2>1. /\ running # <<>> /\ running[1].at = "edit" /\ serverEtag < MaxEtag
        /\ GoOn([running[1] EXCEPT !.at = "etag"]) \/ Applied(serverEtag + 1)
    BY <1>5 DEF ServerAccepts, Running, Accepts
  <2>2. GoOn([running[1] EXCEPT !.at = "etag"]) => running'[1].at = "etag"
    BY <2>1, DeletedRun
  <2>3. QED
    BY <1>1, <1>3, <2>1, <2>2 DEF Running
<1>6. CASE ServerRefuses \/ EditLost
  <2>1. running # <<>> /\ running[1].at = "edit" /\ Fail
    BY <1>6 DEF ServerRefuses, EditLost, Running
  <2>2. QED
    BY <1>2, <2>1 DEF Running
<1>7. CASE DownloadEtag
  <2>1. running # <<>> /\ running[1].at = "etag" /\ (Fail \/ Applied(serverEtag))
    BY <1>7 DEF DownloadEtag, Running
  <2>2. QED
    BY <1>1, <1>2, <1>3, <2>1 DEF Running
<1>8. CASE CheckEtag
  <2>1. /\ running # <<>> /\ running[1].at = "check"
        /\ running' = <<>> \/ running' = <<[running[1] EXCEPT !.at = "fetch"]>>
    BY <1>8 DEF CheckEtag, GoOn, Stop, Running
  <2>2. running' # <<>> => running'[1].at = "fetch"
    BY <2>1, MovedOnRun DEF Places
  <2>3. QED
    BY <2>1, <2>2 DEF Running
<1>9. CASE FetchQueue
  <2>1. /\ running # <<>> /\ running[1].at = "fetch"
        /\ running' # <<>> => running'[1].at = "queueFile"
    BY <1>9, FetchedRun
  <2>2. QED
    BY <2>1 DEF Running
<1>10. QED
  BY <1>4, <1>5, <1>6, <1>7, <1>8, <1>9

(* What an operation that writes has in hand. *)
LEMMA InHand ==
    ASSUME TypeInv, Saving
    PROVE  /\ running # <<>> /\ running[1].queue \in Queues
           /\ running[1].queue.etag \in Nat
           /\ InFile(running[1].queue) # NoQueue
           /\ InFile(running[1].queue).etag = running[1].queue.etag
<1>1. running # <<>> /\ running[1].at \in {"queueFile", "etagFile", "memory"}
  BY DEF Saving, Running
<1>2. PICK queue \in Queues : queue = running[1].queue
  BY <1>1, RunningIsTyped
<1>3. queue.etag \in Nat /\ InFile(queue).etag = queue.etag
  BY NetflixAssumption DEF Queues, InFile
<1>4. NoQueue.etag = -1
  BY DEF NoQueue
<1>5. QED
  BY <1>1, <1>2, <1>3, <1>4

LEMMA NextKeepsFiles ==
    ASSUME TypeInv, FilesInv, [Next]_vars
    PROVE  FilesInv'
<1> USE DEF cache, app
<1>1. CASE ForeignChange \/ Refresh \/ UNCHANGED vars
  <2>1. UNCHANGED <<memory, queueFile, etagFile, torn, running>>
    BY <1>1 DEF ForeignChange, Refresh, vars, history
  <2>2. QED
    BY <2>1, LoadingKeepsFiles
<1>2. CASE \E v \in Views : EditQueue(v) \/ AddMovie(v) \/ Reload(v)
  <2>1. UNCHANGED <<queueFile, etagFile, torn, running>> /\ memory' \in {memory, QueueForFeed}
    BY <1>2 DEF EditQueue, AddMovie, Reload, history
  <2>2. QED
    BY <2>1, LoadingKeepsFiles
<1>3. ASSUME NEW report \in reports, HandleReport(report) PROVE FilesInv'
  <2>1. UNCHANGED <<queueFile, etagFile, torn, running>> /\ memory' \in {memory, QueueForFeed}
    BY <1>3, HandledReport
  <2>2. QED
    BY <2>1, LoadingKeepsFiles
<1>4. CASE \/ \E i \in DOMAIN pending : Start(i)
           \/ ServerAccepts \/ ServerRefuses \/ EditLost \/ DownloadEtag
           \/ CheckEtag \/ FetchQueue
  <2>1. UNCHANGED <<queueFile, etagFile, torn>> /\ memory' \in {memory, QueueForFeed}
    BY <1>4 DEF Start, ServerAccepts, ServerRefuses, EditLost, DownloadEtag, CheckEtag,
                FetchQueue, history
  <2>2. QED
    BY <1>4, <2>1, NotWriting, LoadingKeepsFiles
<1>5. CASE WriteQueueFile
  <2>1. /\ running # <<>> /\ queueFile' = InFile(running[1].queue)
        /\ running' = <<[running[1] EXCEPT !.at = "etagFile"]>>
    BY <1>5 DEF WriteQueueFile, GoOn, Running, InFile
  <2>2. running' # <<>> /\ running'[1].at = "etagFile" /\ running'[1].queue = running[1].queue
    BY <2>1, MovedOnRun DEF Places
  <2>3. QED
    BY <2>1, <2>2 DEF FilesInv, Running
<1>6. CASE WriteEtagFile
  <2>1. /\ running # <<>> /\ Running("etagFile") /\ etagFile' = running[1].queue.etag
        /\ running' = <<[running[1] EXCEPT !.at = "memory"]>>
        /\ queueFile' = queueFile /\ torn' = torn
    BY <1>6 DEF WriteEtagFile, GoOn, Running, history
  <2>2. running' # <<>> /\ running'[1].at = "memory" /\ running'[1].queue = running[1].queue
    BY <2>1, MovedOnRun DEF Places
  <2>3. torn \/ queueFile' = InFile(running'[1].queue)
    BY <2>1, <2>2 DEF FilesInv
  <2>4. QED
    BY <2>1, <2>2, <2>3 DEF FilesInv, Running
<1>7. CASE AddQueue
  <2>1. /\ Running("memory") /\ running' = <<>> /\ memory' = running[1].queue
        /\ UNCHANGED <<queueFile, etagFile, torn>>
    BY <1>7 DEF AddQueue, Stop, history
  <2>2. ASSUME ~torn
        PROVE  queueFile = InFile(running[1].queue) /\ etagFile = running[1].queue.etag
    BY <2>1, <2>2 DEF FilesInv
  <2>3. /\ InFile(running[1].queue) # NoQueue /\ running[1].queue.etag \in Nat
        /\ InFile(running[1].queue).etag = running[1].queue.etag
    BY <2>1, InHand DEF Saving
  <2>4. ~torn => AtRest'
    BY <2>1, <2>2, <2>3 DEF AtRest
  <2>5. QED
    BY <2>1, <2>4 DEF FilesInv, Running
<1>8. CASE Crash
  <2> DEFINE tears == Running("etagFile") /\ running[1].queue.etag < etagFile
  <2>1. /\ UNCHANGED <<queueFile, etagFile>> /\ memory' = NoQueue /\ running' = <<>>
        /\ torn' = (torn \/ tears)
    BY <1>8 DEF Crash
  <2>2. ~torn' => ~torn /\ ~tears
    <3> HIDE DEF tears
    <3>1. QED
      BY <2>1
  <2>3. ASSUME ~torn' PROVE etagFile # NoEtag => queueFile # NoQueue /\ queueFile.etag >= etagFile
    <3>1. CASE Running("etagFile") \/ Running("memory")
      <4>1. queueFile = InFile(running[1].queue)
        BY <2>2, <2>3, <3>1 DEF FilesInv
      <4>2. /\ InFile(running[1].queue) # NoQueue /\ running[1].queue.etag \in Nat
            /\ InFile(running[1].queue).etag = running[1].queue.etag
        BY <3>1, InHand DEF Saving
      <4>3. etagFile \in Int
        BY NetflixAssumption DEF TypeInv, CopiesTyped
      <4>4. running[1].queue.etag >= etagFile
        <5>1. CASE Running("etagFile")
          <6>1. ~(running[1].queue.etag < etagFile)
            BY <2>2, <2>3, <5>1
          <6>2. QED
            BY <4>2, <4>3, <6>1
        <5>2. CASE Running("memory")
          <6>1. etagFile = running[1].queue.etag
            BY <2>2, <2>3, <5>2 DEF FilesInv
          <6>2. QED
            BY <4>2, <6>1
        <5>3. QED
          BY <3>1, <5>1, <5>2
      <4>5. QED
        BY <4>1, <4>2, <4>4
    <3>2. CASE ~Running("etagFile") /\ ~Running("memory")
      BY <2>2, <2>3, <3>2 DEF FilesInv, AtRest
    <3>3. QED
      BY <3>1, <3>2
  <2>4. torn' \/ AtRest'
    BY <2>1, <2>3 DEF AtRest
  <2>5. QED
    BY <2>1, <2>4 DEF FilesInv, Running
<1>9. QED
  BY <1>1, <1>2, <1>3, <1>4, <1>5, <1>6, <1>7, <1>8 DEF Next, OperationStep

(* When the etag file agrees with the server, the copy is the server's      *)
(* queue, whatever is lost, refused or killed, with three exceptions: the   *)
(* DELETE that missed a change, a success that was handled after the cache  *)
(* was downloaded again, and the kill between the files of a queue and an   *)
(* etag that is newer.                                                      *)
THEOREM SameEtagMeansUpToDateWithThreeExceptions == Spec => []UpToDateUnlessBlindOvertakenOrTorn
<1>1. Init => FilesInv
  BY InitFiles
<1>2. TypeInv /\ FilesInv /\ [Next]_vars => FilesInv'
  BY NextKeepsFiles
<1>3. TypeInv /\ CopiesInv /\ FilesInv => UpToDateUnlessBlindOvertakenOrTorn
  <2> SUFFICES ASSUME TypeInv, CopiesInv, FilesInv, ~blind, ~overtaken, ~torn,
                      running = <<>>, etagFile = serverEtag
               PROVE  QueueForFeed # NoQueue /\ Ids(QueueForFeed.movies) = serverMovies
    BY DEF UpToDateUnlessBlindOvertakenOrTorn, SameEtagMeansUpToDate
  <2>1. AtRest
    BY DEF FilesInv, Running
  <2>2. /\ Len(server) \in Nat /\ Len(server) >= 1 /\ etagFile = Len(server)
        /\ serverMovies = server[Len(server)]
    BY LatestTyped DEF TypeInv, ServerTyped
  <2>3. queueFile # NoQueue /\ queueFile.etag >= Len(server)
    BY <2>1, <2>2 DEF AtRest, NoEtag
  <2>4. Real(queueFile.etag, queueFile.movies, server, FALSE)
    BY <2>3 DEF CopiesInv, FileSound, Wrong
  <2>5. queueFile.etag = Len(server) /\ queueFile.movies = server[Len(server)]
    BY <2>2, <2>3, <2>4 DEF Real, NoEtag
  <2>6. QueueForFeed # NoQueue /\ Ids(QueueForFeed.movies) = queueFile.movies
    <3>1. CASE memory # NoQueue
      <4>1. memory \in Queues /\ QueueForFeed = memory
        BY <3>1, AQueue DEF TypeInv, CopiesTyped, QueueForFeed
      <4>2. InFile(memory).movies = Ids(memory.movies)
        BY <4>1 DEF InFile, Queues
      <4>3. QED
        BY <2>1, <3>1, <4>1, <4>2 DEF AtRest
    <3>2. CASE memory = NoQueue
      <4>1. QueueForFeed = [etag |-> queueFile.etag, movies |-> Made(queueFile.movies, Fresh)]
        BY <2>3, <3>2 DEF QueueForFeed
      <4>2. QueueForFeed.etag = Len(server) /\ NoQueue.etag = -1
        BY <2>5, <4>1 DEF NoQueue
      <4>3. QueueForFeed # memory
        BY <2>2, <3>2, <4>2
      <4>4. QED
        BY <3>2, <4>3, QueueForFeedProperties
    <3>3. QED
      BY <3>1, <3>2
  <2>7. QED
    BY <2>2, <2>5, <2>6
<1>4. QED
  BY <1>1, <1>2, <1>3, CopiesAreSound, PTL DEF Spec

-----------------------------------------------------------------------------
(* Older and newer copies *)

(* A queue about to be saved is no older than the cached ones, unless it    *)
(* comes from a session that failed.                                        *)
NewestInv ==
    Saving /\ ~SessionFailed /\ running[1].queue.etag # NoEtag =>
        /\ memory.etag <= running[1].queue.etag
        /\ queueFile.etag <= running[1].queue.etag

LEMMA CachedEtags ==
    ASSUME CopiesInv, TypeInv
    PROVE  /\ memory.etag \in Int /\ memory.etag <= Len(server)
           /\ queueFile.etag \in Int /\ queueFile.etag <= Len(server)
           /\ Len(server) \in Nat
<1>1. Len(server) \in Nat
  BY DEF TypeInv, ServerTyped
<1>2. NoQueue.etag = -1
  BY DEF NoQueue
<1>3. memory.etag \in Int /\ memory.etag <= Len(server)
  BY <1>1, <1>2 DEF CopiesInv, MemorySound, Sound, RealCopy, Real
<1>4. queueFile.etag \in Int /\ queueFile.etag <= Len(server)
  BY <1>1, <1>2 DEF CopiesInv, FileSound, Real
<1>5. QED
  BY <1>1, <1>3, <1>4

(* What the server's newest etag was made for is new enough. *)
LEMMA NewestEtagIsNewest ==
    ASSUME TypeInv, CopiesInv, UNCHANGED <<memory, queueFile>>,
           Saving' => running'[1].queue.etag \in {NoEtag, Len(server), Len(server) + 1}
    PROVE  NewestInv'
<1> SUFFICES ASSUME Saving', running'[1].queue.etag # NoEtag
             PROVE  /\ memory'.etag <= running'[1].queue.etag
                    /\ queueFile'.etag <= running'[1].queue.etag
  BY DEF NewestInv
<1>1. running'[1].queue.etag \in {Len(server), Len(server) + 1}
  OBVIOUS
<1>2. memory'.etag = memory.etag /\ queueFile'.etag = queueFile.etag
  OBVIOUS
<1>3. QED
  BY <1>1, <1>2, CachedEtags

LEMMA AppliedIsNewest ==
    ASSUME TypeInv, CopiesInv, running # <<>>, running[1].at \in {"edit", "etag"},
           UNCHANGED <<memory, queueFile>>, NEW etag \in 0..MaxEtag,
           etag \in {Len(server), Len(server) + 1}, Applied(etag)
    PROVE  NewestInv'
<1>1. running'[1].queue.etag = etag
  BY AppliedRun
<1>2. QED
  BY <1>1, NewestEtagIsNewest

LEMMA NotSavingIsNewest == ASSUME ~Saving' PROVE NewestInv'
BY DEF NewestInv

LEMMA FailedIsExcepted ==
    ASSUME TypeInv, running # <<>>, running[1].at \in {"edit", "etag"}, Fail
    PROVE  NewestInv'
<1>1. PICK op : op = running[1]
  OBVIOUS
<1>2. op \in Started
  BY <1>1, RunningIsTyped
<1>3. CASE op.todo[1].kind \in {"reorder", "delete"}
  <2>1. PICK run : run = [op EXCEPT !.at = "queueFile", !.ok = FALSE]
    OBVIOUS
  <2>2. running' = <<run>>
    BY <1>1, <1>3, <2>1 DEF Fail, GoOn
  <2>3. running' # <<>> /\ running'[1] = run /\ run.ok = FALSE /\ run.todo = op.todo
    BY <1>2, <2>1, <2>2 DEF Started
  <2>4. SessionFailed'
    BY <1>3, <2>3 DEF SessionFailed
  <2>5. QED
    BY <2>4 DEF NewestInv
<1>4. CASE op.todo[1].kind \notin {"reorder", "delete"}
  <2>1. running' = <<>>
    BY <1>1, <1>4 DEF Fail, Stop
  <2>2. QED
    BY <2>1, NotSavingIsNewest DEF Saving, Running
<1>5. QED
  BY <1>3, <1>4

LEMMA NextKeepsNewest ==
    ASSUME TypeInv, CopiesInv, NewestInv, [Next]_vars
    PROVE  NewestInv'
<1> USE DEF cache, app
<1>1. ASSUME running' = running, queueFile' = queueFile, memory' \in {memory, QueueForFeed}
      PROVE  NewestInv'
  <2>1. memory'.etag = memory.etag \/ memory'.etag = queueFile.etag
    BY <1>1, QueueForFeedProperties
  <2>2. (Saving' <=> Saving) /\ (SessionFailed' <=> SessionFailed)
    BY <1>1 DEF Saving, Running, SessionFailed
  <2>3. QED
    BY <1>1, <2>1, <2>2 DEF NewestInv
<1>2. CASE ForeignChange \/ Refresh \/ UNCHANGED vars
  <2>1. UNCHANGED <<memory, queueFile, running>>
    BY <1>2 DEF ForeignChange, Refresh, vars
  <2>2. QED
    BY <1>1, <2>1
<1>3. CASE \E v \in Views : EditQueue(v) \/ AddMovie(v) \/ Reload(v)
  <2>1. UNCHANGED <<queueFile, running>> /\ memory' \in {memory, QueueForFeed}
    BY <1>3 DEF EditQueue, AddMovie, Reload
  <2>2. QED
    BY <1>1, <2>1
<1>4. ASSUME NEW report \in reports, HandleReport(report) PROVE NewestInv'
  <2>1. UNCHANGED <<queueFile, running>> /\ memory' \in {memory, QueueForFeed}
    BY <1>4, HandledReport
  <2>2. QED
    BY <1>1, <2>1
<1>5. ASSUME NEW i \in DOMAIN pending, Start(i) PROVE NewestInv'
  <2>1. running'[1].at \in {"edit", "check"}
    BY <1>5, Starting DEF TypeInv
  <2>2. QED
    BY <2>1, NotSavingIsNewest DEF Saving, Running
<1>6. serverEtag = Len(server) /\ Len(server) \in 1..MaxEtag /\ MaxEtag \in Nat
  BY LatestTyped, NetflixAssumption DEF TypeInv, ServerTyped
<1>7. CASE ServerAccepts
  <2>1. /\ running # <<>> /\ running[1].at = "edit" /\ UNCHANGED <<memory, queueFile>>
        /\ serverEtag < MaxEtag
        /\ \/ GoOn([running[1] EXCEPT !.at = "etag"])
           \/ Applied(serverEtag + 1)
    BY <1>7 DEF ServerAccepts, Running, Accepts
  <2>2. CASE GoOn([running[1] EXCEPT !.at = "etag"])
    <3>1. running'[1].at = "etag"
      BY <2>1, <2>2, DeletedRun
    <3>2. QED
      BY <3>1, NotSavingIsNewest DEF Saving, Running
  <2>3. CASE Applied(serverEtag + 1)
    <3>1. PICK etag : etag = serverEtag + 1
      OBVIOUS
    <3>2. etag \in 0..MaxEtag /\ etag = Len(server) + 1 /\ Applied(etag)
      BY <1>6, <2>1, <2>3, <3>1
    <3>3. QED
      BY <2>1, <3>2, AppliedIsNewest
  <2>4. QED
    BY <2>1, <2>2, <2>3
<1>8. CASE ServerRefuses \/ EditLost
  <2>1. running # <<>> /\ running[1].at = "edit" /\ Fail
    BY <1>8 DEF ServerRefuses, EditLost, Running
  <2>2. QED
    BY <2>1, FailedIsExcepted
<1>9. CASE DownloadEtag
  <2>1. /\ running # <<>> /\ running[1].at = "etag" /\ UNCHANGED <<memory, queueFile>>
        /\ Fail \/ Applied(serverEtag)
    BY <1>9 DEF DownloadEtag, Running
  <2>2. PICK etag : etag = serverEtag
    OBVIOUS
  <2>3. etag \in 0..MaxEtag /\ etag = Len(server) /\ (Fail \/ Applied(etag))
    BY <1>6, <2>1, <2>2
  <2>4. QED
    BY <2>1, <2>3, FailedIsExcepted, AppliedIsNewest
<1>10. CASE CheckEtag
  <2>1. /\ running # <<>>
        /\ running' = <<>> \/ running' = <<[running[1] EXCEPT !.at = "fetch"]>>
    BY <1>10 DEF CheckEtag, GoOn, Stop, Running
  <2>2. running' # <<>> => running'[1].at = "fetch"
    BY <2>1, MovedOnRun DEF Places
  <2>3. QED
    BY <2>2, NotSavingIsNewest DEF Saving, Running
<1>11. CASE FetchQueue
  <2>1. UNCHANGED <<memory, queueFile>>
    BY <1>11 DEF FetchQueue
  <2>2. CASE running' = <<>>
    BY <2>2, NotSavingIsNewest DEF Saving, Running
  <2>3. CASE running' # <<>>
    <3>1. running'[1].queue.etag \in {NoEtag, Len(server)}
      BY <1>6, <1>11, <2>3, FetchedRun
    <3>2. QED
      BY <2>1, <3>1, NewestEtagIsNewest
  <2>4. QED
    BY <2>2, <2>3
<1>12. CASE WriteQueueFile \/ WriteEtagFile
  <2>1. /\ running # <<>> /\ Saving /\ memory' = memory
        /\ queueFile' \in {queueFile, InFile(running[1].queue)}
        /\ \/ running' = <<[running[1] EXCEPT !.at = "etagFile"]>>
           \/ running' = <<[running[1] EXCEPT !.at = "memory"]>>
    BY <1>12 DEF WriteQueueFile, WriteEtagFile, GoOn, Saving, Running, InFile
  <2>2. PICK op : op = running[1]
    OBVIOUS
  <2>3. op \in Started /\ op.queue.etag \in Nat /\ InFile(op.queue).etag = op.queue.etag
    BY <2>1, <2>2, RunningIsTyped, InHand
  <2>4. PICK at \in {"etagFile", "memory"} : running' = <<[op EXCEPT !.at = at]>>
    BY <2>1, <2>2
  <2>5. PICK run : run = [op EXCEPT !.at = at]
    OBVIOUS
  <2>6. running' # <<>> /\ running'[1] = run
    BY <2>4, <2>5
  <2>7. run.queue = op.queue /\ run.todo = op.todo /\ run.ok = op.ok
    BY <2>3, <2>5 DEF Started
  <2>8. SessionFailed' <=> SessionFailed
    BY <2>1, <2>2, <2>6, <2>7 DEF SessionFailed
  <2>9. queueFile'.etag = queueFile.etag \/ queueFile'.etag = op.queue.etag
    BY <2>1, <2>2, <2>3
  <2>10. op.queue.etag <= op.queue.etag
    BY <2>3
  <2>11. QED
    BY <2>1, <2>2, <2>6, <2>7, <2>8, <2>9, <2>10 DEF NewestInv
<1>13. CASE AddQueue \/ Crash
  <2>1. running' = <<>>
    BY <1>13 DEF AddQueue, Crash, Stop
  <2>2. QED
    BY <2>1, NotSavingIsNewest DEF Saving, Running
<1>14. QED
  BY <1>2, <1>3, <1>4, <1>5, <1>7, <1>8, <1>9, <1>10, <1>11, <1>12, <1>13
     DEF Next, OperationStep

(* While the app runs, the copy in memory gives way to an older one only    *)
(* when a session failed, which saves what the user was shown: refusals,    *)
(* lost requests, other clients and downloads never turn it back.           *)
THEOREM CopiesGoBackOnlyByFailedSessions == Spec => OnlyFailedSessionsGoBack
<1> DEFINE GoesBackOnlyByFailedSession ==
             memory # NoQueue /\ memory' # NoQueue /\ memory'.etag # NoEtag
               => \/ memory'.etag >= memory.etag
                  \/ SessionFailed
<1>1. Init => NewestInv
  BY DEF Init, NewestInv, Saving, Running
<1>2. TypeInv /\ CopiesInv /\ NewestInv /\ [Next]_vars => NewestInv'
  BY NextKeepsNewest
<1>3. TypeInv /\ CopiesInv /\ NewestInv /\ [Next]_vars => [GoesBackOnlyByFailedSession]_vars
  <2> SUFFICES ASSUME TypeInv, CopiesInv, NewestInv, Next, memory # NoQueue,
                      memory' # NoQueue, memory'.etag # NoEtag, ~SessionFailed
               PROVE  memory'.etag >= memory.etag
    OBVIOUS
  <2>1. CASE AddQueue
    <3>1. Saving /\ memory' = running[1].queue
      BY <2>1 DEF AddQueue, Saving
    <3>2. running[1].queue.etag \in Int
      BY <3>1, InHand
    <3>3. QED
      BY <3>1, <3>2, CachedEtags DEF NewestInv
  <2>2. ASSUME memory' \in {memory, QueueForFeed} PROVE memory'.etag >= memory.etag
    <3>1. memory' = memory
      BY <2>2 DEF QueueForFeed
    <3>2. QED
      BY <3>1, CachedEtags
  <2>3. CASE Crash
    BY <2>3 DEF Crash
  <2> USE DEF cache, app
  <2>4. CASE ForeignChange \/ Refresh \/ \E v \in Views : EditQueue(v) \/ AddMovie(v) \/ Reload(v)
    BY <2>2, <2>4 DEF ForeignChange, Refresh, EditQueue, AddMovie, Reload
  <2>5. CASE \E report \in reports : HandleReport(report)
    BY <2>2, <2>5, HandledReport
  <2>6. CASE (\E i \in DOMAIN pending : Start(i)) \/ CheckEtag \/ FetchQueue
             \/ WriteQueueFile \/ WriteEtagFile
    BY <2>2, <2>6 DEF Start, CheckEtag, FetchQueue, WriteQueueFile, WriteEtagFile
  <2>7. CASE ServerAccepts \/ ServerRefuses \/ EditLost \/ DownloadEtag
    BY <2>2, <2>7 DEF ServerAccepts, ServerRefuses, EditLost, DownloadEtag
  <2>8. QED
    BY <2>1, <2>3, <2>4, <2>5, <2>6, <2>7 DEF Next, OperationStep
<1>4. QED
  BY <1>1, <1>2, <1>3, CopiesAreSound, PTL DEF Spec, OnlyFailedSessionsGoBack
=============================================================================
