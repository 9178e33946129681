----------------------------- MODULE TimersProofs -----------------------------
(* What the two timers drive, proved for every number of files, batches and writes,   *)
(* and for every span, rate, loop mode and stall limit: the import queue and the      *)
(* watched folder that feeds it, and the transport of the scope.                      *)
EXTENDS Imports, Playback, FiniteSetTheorems, SequenceTheorems, WellFoundedInduction, TLAPS

-----------------------------------------------------------------------------
(* Numbers in order *)

\* A set of numbers that is not empty has a least one.
LEMMA LeastExists ==
  ASSUME NEW T \in SUBSET Nat, T # {}
  PROVE  \E x \in T : \A y \in T : x <= y
<1>1. PICK x \in T : \A y \in T : ~(<<y, x>> \in OpToRel(<, Nat))
  BY NatLessThanWellFounded, WFMin
<1>2. \A y \in T : ~(y < x)
  BY <1>1 DEF OpToRel
<1> QED  BY <1>2

LEMMA MinIsLeast ==
  ASSUME NEW T \in SUBSET Nat, T # {}
  PROVE  Min(T) \in T /\ \A y \in T : Min(T) <= y
BY LeastExists DEF Min

Increasing(s) == \A i, j \in DOMAIN s : i < j => s[i] < s[j]

\* A finite set of numbers can be put in order.
LEMMA OrderExists ==
  ASSUME NEW S \in SUBSET Nat, IsFiniteSet(S)
  PROVE  \E s \in [1 .. Cardinality(S) -> S] : Increasing(s)
<1> DEFINE Bad == {n \in Nat : \E T \in SUBSET Nat : IsFiniteSet(T) /\ Cardinality(T) = n
                                 /\ \A s \in [1 .. n -> T] : ~Increasing(s)}
<1>1. Bad = {}
  <2> SUFFICES ASSUME Bad # {} PROVE FALSE
    OBVIOUS
  <2>1. PICK n \in Bad : \A k \in Bad : n <= k
    <3>1. Bad \in SUBSET Nat
      OBVIOUS
    <3> HIDE DEF Bad
    <3> QED  BY <3>1, LeastExists
  <2>2. PICK T \in SUBSET Nat : IsFiniteSet(T) /\ Cardinality(T) = n
                                 /\ \A s \in [1 .. n -> T] : ~Increasing(s)
    BY <2>1
  <2>3. n \in Nat
    BY <2>1
  <2>4. n # 0
    <3>1. SUFFICES ASSUME n = 0 PROVE FALSE
      OBVIOUS
    <3>2. [i \in 1 .. 0 |-> 0] \in [1 .. n -> T] /\ Increasing([i \in 1 .. 0 |-> 0])
      BY <3>1 DEF Increasing
    <3> QED  BY <2>2, <3>2
  <2>5. T # {}
    BY <2>2, <2>4, FS_EmptySet
  <2>6. PICK m \in T : \A y \in T : m <= y
    BY <2>5, LeastExists
  <2> DEFINE R == T \ {m}
  <2>7. IsFiniteSet(R) /\ Cardinality(R) = n - 1
    BY <2>2, <2>6, FS_RemoveElement
  <2>8. n - 1 \notin Bad
    BY <2>1, <2>3
  <2>9. PICK s \in [1 .. (n - 1) -> R] : Increasing(s)
    <3>1. n - 1 \in Nat /\ R \in SUBSET Nat
      BY <2>3, <2>4
    <3> QED  BY <2>7, <2>8, <3>1
  <2> DEFINE t == [i \in 1 .. n |-> IF i = 1 THEN m ELSE s[i - 1]]
  <2>10. t \in [1 .. n -> T]
    <3>1. \A i \in 1 .. n : i # 1 => i - 1 \in 1 .. (n - 1)
      BY <2>3
    <3> QED  BY <2>6, <2>9, <3>1
  <2>11. Increasing(t)
    <3>1. SUFFICES ASSUME NEW i \in 1 .. n, NEW j \in 1 .. n, i < j
                   PROVE  t[i] < t[j]
      BY DEF Increasing
    <3>2. j # 1 /\ j - 1 \in 1 .. (n - 1) /\ s[j - 1] \in R
      BY <2>3, <2>9, <3>1
    <3>3. CASE i = 1
      <4>1. m \in Nat /\ s[j - 1] \in Nat /\ m <= s[j - 1] /\ m # s[j - 1]
        BY <2>6, <3>2
      <4> QED  BY <3>2, <3>3, <4>1
    <3>4. CASE i # 1
      <4>1. i - 1 \in 1 .. (n - 1) /\ i - 1 < j - 1
        BY <2>3, <3>1, <3>4
      <4>2. s[i - 1] < s[j - 1]
        BY <2>9, <3>2, <4>1 DEF Increasing
      <4> QED  BY <3>2, <3>4, <4>2
    <3> QED  BY <3>3, <3>4
  <2> QED  BY <2>2, <2>10, <2>11
<1>2. Cardinality(S) \in Nat
  BY FS_CardinalityType
<1> QED  BY <1>1, <1>2

\* InOrder lists each number of a finite set at most once.
LEMMA InOrderListsOnce ==
  ASSUME NEW S \in SUBSET Nat, IsFiniteSet(S)
  PROVE  /\ InOrder(S) \in [1 .. Cardinality(S) -> S] /\ Cardinality(S) \in Nat
         /\ \A i, j \in 1 .. Cardinality(S) : InOrder(S)[i] = InOrder(S)[j] => i = j
<1>1. Cardinality(S) \in Nat
  BY FS_CardinalityType
<1>2. InOrder(S) \in [1 .. Cardinality(S) -> S] /\ Increasing(InOrder(S))
  BY OrderExists DEF InOrder, Increasing
<1>3. \A i \in 1 .. Cardinality(S) : InOrder(S)[i] \in Nat
  BY <1>2
<1> QED  BY <1>1, <1>2, <1>3 DEF Increasing

-----------------------------------------------------------------------------
(* The queue *)

Paths(q) == {q[i].path : i \in DOMAIN q}
Distinct(q) == \A i, j \in DOMAIN q : q[i].path = q[j].path => i = j
Names == Files \cup Typed \cup {Blank}

LEMMA HowMany == Cardinality(Files) \in Nat
BY ImportsAssumption, FS_CardinalityType

LEMMA IntervalSize ==
  ASSUME NEW n \in Nat
  PROVE  IsFiniteSet(1 .. n) /\ Cardinality(1 .. n) = n
BY FS_Interval

\* A queue that names each file once is no longer than the files there are.
LEMMA QueueIsShort ==
  ASSUME NEW q \in Seq(Entries), Distinct(q)
  PROVE  Len(q) \in 0 .. Cardinality(Files) /\ q \in BoundedSeq(Entries, Cardinality(Files))
<1> DEFINE f == [i \in 1 .. Len(q) |-> q[i].path]
<1>1. Len(q) \in Nat /\ DOMAIN q = 1 .. Len(q) /\ q \in [1 .. Len(q) -> Entries]
  BY LenProperties
<1>2. f \in [1 .. Len(q) -> Files]
  BY <1>1 DEF Entries
<1>3. \A i, j \in 1 .. Len(q) : f[i] = f[j] => i = j
  BY <1>1 DEF Distinct
<1>4. f \in Injection(1 .. Len(q), Files)
  <2> HIDE DEF f
  <2> QED  BY <1>2, <1>3 DEF Injection, IsInjective
<1>5. Cardinality(1 .. Len(q)) <= Cardinality(Files)
  <2> HIDE DEF f
  <2> QED  BY <1>4, ImportsAssumption, FS_Injection
<1>6. Cardinality(1 .. Len(q)) = Len(q)
  BY <1>1, IntervalSize
<1>7. Len(q) \in 0 .. Cardinality(Files)
  BY <1>1, <1>5, <1>6, HowMany
<1> QED  BY <1>1, <1>7 DEF BoundedSeq, SeqOf

\* Without its i-th entry a queue is the entries before and those behind it.
LEMMA RemoveAtShifts ==
  ASSUME NEW q \in Seq(Entries), NEW i \in DOMAIN q
  PROVE  /\ RemoveAt(q, i) \in Seq(Entries) /\ Len(RemoveAt(q, i)) = Len(q) - 1
         /\ \A k \in DOMAIN RemoveAt(q, i) :
              /\ k \in DOMAIN q /\ k + 1 \in DOMAIN q
              /\ RemoveAt(q, i)[k] = IF k < i THEN q[k] ELSE q[k + 1]
<1>1. Len(q) \in Nat /\ DOMAIN q = 1 .. Len(q) /\ i \in 1 .. Len(q)
  BY LenProperties
<1> DEFINE a == SubSeq(q, 1, i - 1)
           b == SubSeq(q, i + 1, Len(q))
<1>2. /\ a \in Seq(Entries) /\ Len(a) = i - 1
      /\ \A k \in 1 .. (i - 1) : a[k] = q[k]
  BY <1>1, SubSeqProperties
<1>3. /\ b \in Seq(Entries) /\ Len(b) = Len(q) - i
      /\ \A k \in 1 .. (Len(q) - i) : b[k] = q[k + i]
  BY <1>1, SubSeqProperties
<1>4. RemoveAt(q, i) = a \o b
  BY DEF RemoveAt
<1> HIDE DEF a, b
<1>5. /\ a \o b \in Seq(Entries) /\ Len(a \o b) = Len(a) + Len(b)
      /\ \A k \in 1 .. Len(a) + Len(b) : (a \o b)[k] = IF k <= Len(a) THEN a[k] ELSE b[k - Len(a)]
  BY <1>2, <1>3, ConcatProperties
<1>6. DOMAIN (a \o b) = 1 .. (Len(q) - 1) /\ Len(a \o b) = Len(q) - 1
  <2>1. Len(a) + Len(b) = Len(q) - 1
    BY <1>1, <1>2, <1>3
  <2>2. DOMAIN (a \o b) = 1 .. Len(a \o b)
    BY <1>5, LenProperties
  <2> QED  BY <1>5, <2>1, <2>2
<1>7. ASSUME NEW k \in 1 .. (Len(q) - 1)
      PROVE  k \in DOMAIN q /\ k + 1 \in DOMAIN q /\ (a \o b)[k] = IF k < i THEN q[k] ELSE q[k + 1]
  <2>1. k \in DOMAIN q /\ k + 1 \in DOMAIN q
    BY <1>1
  <2>2. /\ Len(a) = i - 1 /\ k \in 1 .. Len(a) + Len(b)
        /\ k \in Int /\ i \in Int /\ k < i <=> k <= i - 1
    BY <1>1, <1>2, <1>3
  <2>3. (a \o b)[k] = IF k <= Len(a) THEN a[k] ELSE b[k - Len(a)]
    BY <1>5, <2>2
  <2>4. CASE k < i
    <3>1. k \in 1 .. (i - 1)
      BY <2>2, <2>4
    <3>2. (a \o b)[k] = q[k]
      BY <1>2, <2>2, <2>3, <2>4, <3>1
    <3> QED  BY <2>1, <2>4, <3>2
  <2>5. CASE ~(k < i)
    <3>1. k - (i - 1) \in 1 .. (Len(q) - i) /\ k - (i - 1) + i = k + 1
      BY <1>1, <2>5
    <3>2. (a \o b)[k] = b[k - (i - 1)]
      BY <2>2, <2>3, <2>5
    <3>3. b[k - (i - 1)] = q[k + 1]
      BY <1>3, <3>1
    <3> QED  BY <2>1, <2>5, <3>2, <3>3
  <2> QED  BY <2>4, <2>5
<1> QED  BY <1>4, <1>5, <1>6, <1>7

\* What is left of a queue without an entry is every other entry of it.
LEMMA RemoveAtKeeps ==
  ASSUME NEW q \in Seq(Entries), NEW i \in DOMAIN q, Distinct(q)
  PROVE  /\ RemoveAt(q, i) \in Seq(Entries) /\ Distinct(RemoveAt(q, i))
         /\ \A k \in DOMAIN RemoveAt(q, i) :
              \E j \in DOMAIN q : j # i /\ RemoveAt(q, i)[k] = q[j]
         /\ \A k \in DOMAIN RemoveAt(q, i) : RemoveAt(q, i)[k].path # q[i].path
         /\ Paths(q) \subseteq Paths(RemoveAt(q, i)) \cup {q[i].path}
<1>1. Len(q) \in Nat /\ DOMAIN q = 1 .. Len(q) /\ i \in 1 .. Len(q)
  BY LenProperties
<1> DEFINE r == RemoveAt(q, i)
<1>2. /\ r \in Seq(Entries) /\ Len(r) = Len(q) - 1 /\ DOMAIN r = 1 .. (Len(q) - 1)
      /\ \A k \in DOMAIN r : /\ k \in DOMAIN q /\ k + 1 \in DOMAIN q
                             /\ r[k] = IF k < i THEN q[k] ELSE q[k + 1]
  BY <1>1, RemoveAtShifts, LenProperties
<1> DEFINE from(k) == IF k < i THEN k ELSE k + 1
<1>3. \A k \in DOMAIN r : from(k) \in DOMAIN q /\ from(k) # i /\ r[k] = q[from(k)]
  <2> HIDE DEF r
  <2> QED  BY <1>1, <1>2
<1>4. \A j, k \in DOMAIN r : from(j) = from(k) => j = k
  <2> HIDE DEF r
  <2> QED  BY <1>1, <1>2
<1>5. \A j \in DOMAIN q : j # i => \E k \in DOMAIN r : r[k] = q[j]
  <2> HIDE DEF r
  <2> TAKE j \in DOMAIN q
  <2> HAVE j # i
  <2>1. CASE j < i
    <3>1. j \in DOMAIN r /\ r[j] = q[j]
      BY <1>1, <1>2, <2>1
    <3> QED  BY <3>1
  <2>2. CASE ~(j < i)
    <3>1. j - 1 \in DOMAIN r /\ ~(j - 1 < i) /\ j - 1 + 1 = j
      BY <1>1, <1>2, <2>2
    <3>2. r[j - 1] = q[j]
      BY <1>2, <3>1
    <3> QED  BY <3>1, <3>2
  <2> QED  BY <2>1, <2>2
<1> HIDE DEF r, from
<1>6. Distinct(r)
  BY <1>3, <1>4 DEF Distinct
<1>7. \A k \in DOMAIN r : r[k].path # q[i].path
  BY <1>3 DEF Distinct
<1>8. Paths(q) \subseteq Paths(r) \cup {q[i].path}
  BY <1>5 DEF Paths
<1> QED  BY <1>2, <1>3, <1>6, <1>7, <1>8 DEF r

QueueCore ==
  /\ queue \in Seq(Entries) /\ Distinct(queue)
  /\ running \in Entries \cup {NoFile} /\ automatic \in BOOLEAN
  /\ total \in 0 .. Cardinality(Files) /\ label \in Names
  /\ ~Idle => \A i \in DOMAIN queue : queue[i].path # running.path
  /\ Unattended

\* Whatever queue a drain is started on: what is taken is off the queue, allowed by the
\* drain, and named after itself if the watcher found it; with a library open nothing
\* is lost, and nothing of the watcher's is left behind by a drain that ends; without one
\* what is taken is lost, and nothing else.
LEMMA StartNextKeeps ==
  ASSUME NEW q \in Seq(Entries), Distinct(q), NEW auto \in BOOLEAN,
         NEW n \in 0 .. Cardinality(Files), name \in Names, StartNext(q, auto, n)
  PROVE  /\ QueueCore'
         /\ LibraryOpen => Stalled' = {} /\ Paths(q) \subseteq InHand'
         /\ \A f \in Paths(q) \ InHand' : ~LibraryOpen /\ f = q[Min(Takeable(q, auto))].path
<1>1. CASE Takeable(q, auto) = {}
  <2>1. /\ queue' = q /\ running' = NoFile /\ label' = Blank
        /\ automatic' = FALSE /\ total' = 0
    BY <1>1 DEF StartNext
  <2>2. \A i \in DOMAIN q : ~IsAutomatic(q[i])
    BY <1>1 DEF Takeable
  <2>3. 0 \in 0 .. Cardinality(Files)
    BY HowMany
  <2>4. Paths(q) \subseteq InHand'
    BY <2>1 DEF Paths, InHand
  <2>5. Stalled' = {}
    BY <2>1, <2>2 DEF Stalled
  <2>6. QueueCore'
    BY <2>1, <2>2, <2>3 DEF QueueCore, Unattended, Idle, Names, Distinct
  <2> QED  BY <2>4, <2>5, <2>6
<1>2. CASE Takeable(q, auto) # {}
  <2> DEFINE i == Min(Takeable(q, auto))
  <2>1. i \in Takeable(q, auto)
    <3>1. DOMAIN q \in SUBSET Nat
      BY LenProperties
    <3>2. Takeable(q, auto) \in SUBSET Nat
      BY <3>1 DEF Takeable
    <3> QED  BY <1>2, <3>2, MinIsLeast
  <2>2. i \in DOMAIN q /\ (auto => IsAutomatic(q[i])) /\ q[i] \in Entries
    <3>1. i \in DOMAIN q /\ (auto => IsAutomatic(q[i]))
      BY <2>1 DEF Takeable
    <3> QED  BY <3>1, ElementOfSeq, LenProperties
  <2>3. /\ queue' = RemoveAt(q, i) /\ automatic' = auto /\ total' = n
        /\ IF LibraryOpen THEN running' = q[i] /\ label' = NameFor(q[i], n)
                          ELSE running' = NoFile /\ label' = Blank
    BY <1>2 DEF StartNext, Rest
  <2> HIDE DEF i
  <2>4. /\ queue' \in Seq(Entries) /\ Distinct(queue')
        /\ \A k \in DOMAIN queue' : queue'[k].path # q[i].path
        /\ Paths(q) \subseteq Paths(queue') \cup {q[i].path}
    BY <2>2, <2>3, RemoveAtKeeps
  <2>5. q[i] # NoFile /\ q[i].path \in Files
    BY <2>2, ImportsAssumption DEF Entries
  <2>6. NameFor(q[i], n) \in Names /\ (IsAutomatic(q[i]) => NameFor(q[i], n) = q[i].path)
    BY <2>5 DEF NameFor, Names
  <2>7. Distinct(queue)'
    BY <2>4 DEF Distinct
  <2>8. LibraryOpen => ~Idle' /\ Paths(q) \subseteq InHand'
    <3> HAVE LibraryOpen
    <3>1. ~Idle' /\ running' = q[i]
      BY <2>3, <2>5 DEF Idle
    <3> QED  BY <2>4, <3>1 DEF Paths, InHand
  <2>9. Unattended'
    BY <2>2, <2>3, <2>6 DEF Unattended, Idle
  <2>10. QueueCore'
    BY <2>2, <2>3, <2>4, <2>6, <2>7, <2>9 DEF QueueCore, Idle, Names
  <2>11. LibraryOpen => Stalled' = {} /\ Paths(q) \subseteq InHand'
    BY <2>8 DEF Stalled
  <2>12. Paths(queue') \subseteq InHand'
    BY DEF Paths, InHand
  <2>13. \A f \in Paths(q) \ InHand' : ~LibraryOpen /\ f = q[i].path
    BY <2>4, <2>8, <2>12
  <2> QED  BY <2>10, <2>11, <2>13 DEF i
<1> QED  BY <1>1, <1>2

\* Of the paths of a batch those are kept, each once, that are not in hand.
LEMMA FreshAreNew ==
  ASSUME NEW paths \in Seq(Files), IsInjective(paths)
  PROVE  /\ Fresh(paths) \in Seq(Files) /\ IsInjective(Fresh(paths))
         /\ \A k \in DOMAIN Fresh(paths) : Fresh(paths)[k] \notin InHand
<1> DEFINE I == {i \in DOMAIN paths : paths[i] \notin InHand}
<1>1. Len(paths) \in Nat /\ DOMAIN paths = 1 .. Len(paths)
      /\ \A i \in DOMAIN paths : paths[i] \in Files
  BY LenProperties, ElementOfSeq
<1>2. I \in SUBSET Nat /\ IsFiniteSet(I)
  <2>1. IsFiniteSet(1 .. Len(paths)) /\ I \in SUBSET (1 .. Len(paths))
    BY <1>1, FS_Interval
  <2> QED  BY <2>1, FS_Subset
<1> DEFINE at == InOrder(I)
           n == Cardinality(I)
<1>3. /\ at \in [1 .. n -> I] /\ n \in Nat
      /\ \A i, j \in 1 .. n : at[i] = at[j] => i = j
  <2> HIDE DEF I
  <2> QED  BY <1>2, InOrderListsOnce
<1>4. Fresh(paths) = [k \in 1 .. n |-> paths[at[k]]]
  <2>1. DOMAIN at = 1 .. n
    BY <1>3
  <2> QED  BY <2>1 DEF Fresh
<1>5. \A k \in 1 .. n : at[k] \in DOMAIN paths /\ paths[at[k]] \notin InHand
  BY <1>3
<1> HIDE DEF I, at, n
<1>6. Fresh(paths) \in [1 .. n -> Files]
  BY <1>1, <1>4, <1>5
<1>7. Fresh(paths) \in Seq(Files)
  BY <1>3, <1>6, IsASeq
<1>8. IsInjective(Fresh(paths))
  BY <1>3, <1>4, <1>5 DEF IsInjective
<1> QED  BY <1>4, <1>5, <1>7, <1>8

\* A queue with new paths behind it names each file once, and none that runs.
LEMMA JoinedIsSound ==
  ASSUME QueueCore, NEW added \in Seq(Files), IsInjective(added),
         \A k \in DOMAIN added : added[k] \notin InHand,
         NEW source \in {"chosen", "dropped", "watched"}, NEW q,
         q = Joined(added, source)
  PROVE  /\ q \in Seq(Entries) /\ Distinct(q) /\ Paths(queue) \subseteq Paths(q)
         /\ ~Idle => \A i \in DOMAIN q : q[i].path # running.path
         /\ \A i \in DOMAIN q : (i \in DOMAIN queue /\ q[i] = queue[i]) \/ q[i].source = source
<1> DEFINE e == [i \in DOMAIN added |-> Entry(added[i], source)]
           n == Len(queue)
           m == Len(added)
<1>1. /\ n \in Nat /\ DOMAIN queue = 1 .. n /\ m \in Nat /\ DOMAIN added = 1 .. m
      /\ \A i \in DOMAIN added : added[i] \in Files
      /\ queue \in Seq(Entries)
  BY LenProperties, ElementOfSeq DEF QueueCore
<1>2. e \in Seq(Entries) /\ Len(e) = m
  <2>1. e \in [1 .. m -> Entries]
    BY <1>1 DEF Entry, Entries
  <2> QED  BY <1>1, <2>1, IsASeq, LenProperties
<1>3. \A i \in 1 .. m : e[i].path = added[i] /\ e[i].source = source
  BY <1>1 DEF Entry
<1> HIDE DEF e, n, m
<1>4. /\ q \in Seq(Entries) /\ Len(q) = n + m
      /\ \A i \in 1 .. n + m : q[i] = IF i <= n THEN queue[i] ELSE e[i - n]
  BY <1>1, <1>2, ConcatProperties DEF e, n, Joined
<1>5. DOMAIN q = 1 .. (n + m)
  BY <1>4, LenProperties
<1>6. \A i \in DOMAIN q : \/ i \in 1 .. n /\ q[i] = queue[i]
                          \/ i - n \in 1 .. m /\ q[i] = e[i - n]
  <2> TAKE i \in DOMAIN q
  <2>1. i \in 1 .. (n + m) /\ n \in Nat /\ m \in Nat
    BY <1>1, <1>5
  <2>0. q[i] = IF i <= n THEN queue[i] ELSE e[i - n]
    BY <1>4, <2>1
  <2>2. CASE i <= n
    <3>1. i \in 1 .. n
      BY <2>1, <2>2
    <3> QED  BY <2>0, <2>2, <3>1
  <2>3. CASE ~(i <= n)
    <3>1. i - n \in 1 .. m
      BY <2>1, <2>3
    <3> QED  BY <2>0, <2>3, <3>1
  <2> QED  BY <2>2, <2>3
<1>7. \A i \in 1 .. n, k \in 1 .. m : queue[i].path # e[k].path
  BY <1>1, <1>3 DEF InHand
<1>8. \A k, l \in 1 .. m : e[k].path = e[l].path => k = l
  BY <1>1, <1>3 DEF IsInjective
<1>9. Distinct(q)
  <2> SUFFICES ASSUME NEW i \in DOMAIN q, NEW j \in DOMAIN q, q[i].path = q[j].path
               PROVE  i = j
    BY DEF Distinct
  <2>1. \A a, b \in 1 .. n : queue[a].path = queue[b].path => a = b
    BY <1>1 DEF QueueCore, Distinct
  <2>2. i \in Nat /\ j \in Nat
    BY <1>1, <1>5
  <2>3. CASE i \in 1 .. n /\ q[i] = queue[i]
    BY <1>6, <1>7, <2>1, <2>3
  <2>4. CASE i - n \in 1 .. m /\ q[i] = e[i - n]
    <3>1. j - n \in 1 .. m /\ q[j] = e[j - n]
      BY <1>6, <1>7, <2>4
    <3>2. i - n = j - n
      BY <1>8, <2>4, <3>1
    <3> QED  BY <1>1, <2>2, <3>2
  <2> QED  BY <1>6, <2>3, <2>4
<1>10. Paths(queue) \subseteq Paths(q)
  <2>1. \A i \in DOMAIN queue : i \in DOMAIN q /\ q[i] = queue[i]
    BY <1>1, <1>4, <1>5
  <2> QED  BY <2>1 DEF Paths
<1>11. ~Idle => \A i \in DOMAIN q : q[i].path # running.path
  <2>1. ~Idle => \A k \in 1 .. m : e[k].path # running.path
    BY <1>1, <1>3 DEF InHand
  <2> QED  BY <1>1, <1>6, <2>1 DEF QueueCore
<1> QED  BY <1>1, <1>3, <1>4, <1>6, <1>9, <1>10, <1>11

\* A batch is queued behind what is there, and what the watcher found is started.
LEMMA EnqueueKeeps ==
  ASSUME QueueCore, name \in Names, NEW paths \in Seq(Files), IsInjective(paths),
         NEW source \in {"chosen", "dropped", "watched"}, Enqueue(paths, source)
  PROVE  /\ QueueCore' /\ name' \in Names /\ outcomes' = outcomes
         /\ Paths(queue) \subseteq InHand'
         /\ ~Idle => Idle' = Idle /\ running' = running
         /\ LibraryOpen => Stalled' \subseteq Stalled
<1> DEFINE added == Fresh(paths)
           q == Joined(added, source)
<1>1. /\ added \in Seq(Files) /\ IsInjective(added)
      /\ \A k \in DOMAIN added : added[k] \notin InHand
  BY FreshAreNew
<1> HIDE DEF added
<1>2. /\ q \in Seq(Entries) /\ Distinct(q) /\ Paths(queue) \subseteq Paths(q)
      /\ ~Idle => \A i \in DOMAIN q : q[i].path # running.path
      /\ \A i \in DOMAIN q : (i \in DOMAIN queue /\ q[i] = queue[i]) \/ q[i].source = source
  BY <1>1, JoinedIsSound
<1>3. /\ name' = (IF added # <<>> /\ Idle /\ queue = <<>> /\ name = Blank THEN added[1] ELSE name)
      /\ IF added # <<>> /\ source = "watched" /\ Idle /\ LibraryOpen
         THEN StartNext(q, TRUE, Cardinality(Takeable(q, TRUE)))
         ELSE queue' = q /\ UNCHANGED <<running, automatic, total, label>>
      /\ outcomes' = outcomes
  BY DEF Enqueue, added
<1> HIDE DEF q
<1>4. name' \in Names
  <2>1. added # <<>> => added[1] \in Files
    BY <1>1, LenProperties, ElementOfSeq, EmptySeq
  <2> QED  BY <1>3, <2>1 DEF Names
<1>5. CASE added # <<>> /\ source = "watched" /\ Idle /\ LibraryOpen
  <2> DEFINE T == Takeable(q, TRUE)
             n == Cardinality(T)
  <2>1. StartNext(q, TRUE, n)
    BY <1>3, <1>5
  <2>2. n \in 0 .. Cardinality(Files)
    <3>1. Len(q) \in 0 .. Cardinality(Files) /\ DOMAIN q = 1 .. Len(q) /\ Len(q) \in Nat
      BY <1>2, QueueIsShort, LenProperties
    <3>2. T \in SUBSET (1 .. Len(q))
      BY <3>1 DEF Takeable
    <3> HIDE DEF T
    <3>3. IsFiniteSet(1 .. Len(q)) /\ Cardinality(1 .. Len(q)) = Len(q)
      <4>1. Len(q) \in Nat
        BY <1>2, LenProperties
      <4> QED  BY <4>1, IntervalSize
    <3>4. n \in Nat /\ n <= Len(q)
      BY <3>2, <3>3, FS_Subset, FS_CardinalityType
    <3> HIDE DEF n
    <3> QED  BY <3>1, <3>4, HowMany
  <2> HIDE DEF T, n
  <2>3. QueueCore' /\ Paths(q) \subseteq InHand' /\ Stalled' = {}
    BY <1>2, <1>5, <2>1, <2>2, StartNextKeeps
  <2> QED  BY <1>2, <1>3, <1>4, <1>5, <2>3
<1>6. CASE ~(added # <<>> /\ source = "watched" /\ Idle /\ LibraryOpen)
  <2>1. queue' = q /\ running' = running /\ automatic' = automatic /\ total' = total
        /\ label' = label
    BY <1>3, <1>6
  <2>2. QueueCore'
    <3>1. Distinct(queue)'
      BY <1>2, <2>1 DEF Distinct
    <3>2. Unattended' /\ Idle' = Idle
      BY <2>1 DEF QueueCore, Unattended, Idle
    <3> QED  BY <1>2, <2>1, <3>1, <3>2 DEF QueueCore, Idle
  <2>3. Paths(queue) \subseteq InHand' /\ Idle' = Idle
    BY <1>2, <2>1 DEF Paths, InHand, Idle
  <2>4. ASSUME LibraryOpen, Idle
        PROVE  \A i \in DOMAIN queue' :
                 IsAutomatic(queue'[i]) => i \in DOMAIN queue /\ queue'[i] = queue[i]
    <3>1. CASE added = <<>>
      <4>1. \A i \in DOMAIN added : FALSE
        BY <3>1
      <4>2. q = queue
        <5>1. [i \in DOMAIN added |-> Entry(added[i], source)] = <<>>
          BY <3>1
        <5> QED  BY <5>1, ConcatEmptySeq DEF q, Joined, QueueCore
      <4> QED  BY <2>1, <2>4, <4>2
    <3>2. CASE source # "watched"
      BY <1>2, <2>1, <2>4, <3>2 DEF IsAutomatic
    <3> QED  BY <1>6, <2>4, <3>1, <3>2
  <2>5. LibraryOpen => Stalled' \subseteq Stalled
    BY <2>3, <2>4 DEF Stalled
  <2> QED  BY <1>3, <1>4, <2>1, <2>2, <2>3, <2>5
<1> QED  BY <1>5, <1>6

-----------------------------------------------------------------------------
(* The watched folder *)

Marks == {"new", "adopted", "offered", "swept"}

\* While a file settles it is new to the watch, and was there at the last scan if it has
\* not changed since its stamp was taken; one not yet seen is new as soon as it is there.
WatchCore ==
  /\ writes \in 1 .. MaxWrites /\ folder \in [Watched -> 0 .. writes]
  /\ watching \in BOOLEAN /\ seen \in [Watched -> (0 .. writes) \cup {Done}]
  /\ history \in [Watched -> Marks]
  /\ \A f \in Watched :
       /\ ~watching => seen[f] = 0
       /\ seen[f] \notin {0, Done} => /\ history[f] = "new"
                                      /\ seen[f] = folder[f] => f \in scanned
       /\ watching /\ seen[f] = 0 /\ folder[f] # 0 => history[f] = "new"

LEMMA DoneIsNoStamp == WatchCore => Done \notin 0 .. writes /\ Done # 0 /\ Done \in Nat
BY ImportsAssumption DEF WatchCore, Done

LEMMA WriteWatches ==
  ASSUME WatchCore, NEW f \in Watched, Write(f) \/ Delete(f)
  PROVE  WatchCore'
<1>1. writes \in Nat /\ 0 .. writes \subseteq 0 .. (writes + 1)
  BY DEF WatchCore
<1>2. CASE Write(f)
  <2>1. writes' = writes + 1 /\ writes' \in 1 .. MaxWrites /\ Done' = Done
    BY <1>1, <1>2, ImportsAssumption DEF Write, WatchCore, Done
  <2>2. folder' \in [Watched -> 0 .. writes'] /\ folder' = [folder EXCEPT ![f] = writes + 1]
    BY <1>1, <1>2, <2>1 DEF Write, WatchCore
  <2>3. /\ seen' = seen /\ watching' = watching /\ scanned' = scanned \ {f}
        /\ history' = [history EXCEPT ![f] = IF folder[f] = 0 THEN "new" ELSE @]
        /\ history' \in [Watched -> Marks] /\ seen' \in [Watched -> (0 .. writes') \cup {Done}]
    BY <1>1, <1>2, <2>1 DEF Write, WatchCore, Marks
  <2>4. ASSUME NEW g \in Watched
        PROVE  /\ seen[g] \notin {0, Done} => /\ history'[g] = "new"
                                              /\ seen[g] = folder'[g] => g \in scanned'
               /\ watching /\ seen[g] = 0 /\ folder'[g] # 0 => history'[g] = "new"
    <3>1. seen[g] \in (0 .. writes) \cup {Done}
      BY DEF WatchCore
    <3>2. CASE g = f
      <4>1. folder'[g] = writes + 1 /\ history'[g] = IF folder[g] = 0 THEN "new" ELSE history[g]
        BY <2>2, <2>3, <3>2 DEF WatchCore
      <4>2. seen[g] # Done => seen[g] # writes + 1
        BY <1>1, <3>1
      <4> QED  BY <4>1, <4>2 DEF WatchCore
    <3>3. CASE g # f
      BY <2>2, <2>3, <3>3 DEF WatchCore
    <3> QED  BY <3>2, <3>3
  <2> QED  BY <2>1, <2>2, <2>3, <2>4 DEF WatchCore
<1>3. CASE Delete(f)
  <2>1. /\ folder' = [folder EXCEPT ![f] = 0] /\ scanned' = scanned \ {f}
        /\ writes' = writes /\ watching' = watching /\ seen' = seen /\ history' = history
        /\ Done' = Done
    BY <1>3 DEF Delete, Done
  <2>2. folder' \in [Watched -> 0 .. writes]
    BY <1>1, <2>1 DEF WatchCore
  <2>3. ASSUME NEW g \in Watched
        PROVE  /\ seen[g] \notin {0, Done} /\ seen[g] = folder'[g] => g \in scanned'
               /\ folder'[g] # 0 => folder'[g] = folder[g]
    BY <2>1 DEF WatchCore
  <2> QED  BY <2>1, <2>2, <2>3 DEF WatchCore
<1> QED  BY <1>2, <1>3

LEMMA WatchWatches ==
  ASSUME WatchCore, Watch \/ Unwatch \/ Sweep
  PROVE  WatchCore'
<1>1. /\ writes' = writes /\ folder' = folder /\ Done' = Done
      /\ watching' \in BOOLEAN
  BY DEF Watch, Unwatch, Sweep, Done, WatchCore
<1>2. CASE Watch
  <2>1. /\ seen' = [f \in Watched |-> IF f \in Present THEN Done ELSE 0]
        /\ history' = [f \in Watched |-> IF f \in Present THEN "adopted" ELSE history[f]]
        /\ watching' = TRUE
    BY <1>2 DEF Watch, Census
  <2>2. /\ history' \in [Watched -> Marks] /\ 0 \in 0 .. writes
        /\ seen' \in [Watched -> (0 .. writes) \cup {Done}]
    BY <2>1 DEF WatchCore, Marks
  <2>3. \A f \in Watched : seen'[f] \in {0, Done} /\ (seen'[f] = 0 => folder[f] = 0)
    BY <2>1, DoneIsNoStamp DEF Present
  <2> QED  BY <1>1, <2>1, <2>2, <2>3 DEF WatchCore
<1>3. CASE Unwatch
  <2>1. seen' = [f \in Watched |-> 0] /\ history' = history /\ watching' = FALSE
    BY <1>3 DEF Unwatch
  <2>2. 0 \in 0 .. writes
    BY DEF WatchCore
  <2> QED  BY <1>1, <2>1, <2>2 DEF WatchCore
<1>4. CASE Sweep
  <2>1. /\ seen' = [f \in Watched |-> IF f \in Present THEN Done ELSE seen[f]]
        /\ history' = [f \in Watched |-> IF f \in Present THEN "swept" ELSE history[f]]
        /\ watching /\ watching' = watching /\ scanned' = scanned
    BY <1>4 DEF Sweep
  <2>2. /\ history' \in [Watched -> Marks]
        /\ seen' \in [Watched -> (0 .. writes) \cup {Done}]
    BY <2>1 DEF WatchCore, Marks
  <2>3. ASSUME NEW f \in Watched
        PROVE  /\ f \in Present => seen'[f] = Done
               /\ f \notin Present => /\ seen'[f] = seen[f] /\ history'[f] = history[f]
                                      /\ folder[f] = 0
    BY <2>1 DEF Present
  <2>4. \A f \in Watched :
          /\ seen'[f] \notin {0, Done} => /\ history'[f] = "new"
                                          /\ seen'[f] = folder'[f] => f \in scanned'
          /\ seen'[f] = 0 => folder'[f] = 0
    BY <1>1, <2>1, <2>3, DoneIsNoStamp DEF WatchCore
  <2> QED  BY <1>1, <2>1, <2>2, <2>4 DEF WatchCore
<1> QED  BY <1>2, <1>3, <1>4

LEMMA TickWatches ==
  ASSUME WatchCore, NEW lost \in SUBSET Present, WatchTick(lost)
  PROVE  /\ WatchCore'
         /\ \A f \in Watched : history[f] # "offered" /\ history'[f] = "offered" =>
              history[f] = "new" /\ f \in scanned /\ folder'[f] = folder[f]
<1> DEFINE there == Present \ lost
           ready == {f \in there : seen[f] # Done /\ Settled(f)}
<1>1. /\ watching /\ watching' = watching /\ writes' = writes /\ Done' = Done
      /\ folder' = [f \in Watched |-> IF f \in lost THEN 0 ELSE folder[f]]
      /\ seen' = [f \in Watched |-> IF f \notin there THEN 0
                                    ELSE IF seen[f] = Done \/ f \in ready THEN Done ELSE folder[f]]
      /\ history' = [f \in Watched |-> IF f \in ready THEN "offered" ELSE history[f]]
      /\ scanned' = there
  BY DEF WatchTick, Done
<1>2. \A f \in Watched : f \in there <=> folder[f] # 0 /\ f \notin lost
  BY DEF Present
<1>3. \A f \in ready : f \in there /\ f \in Watched /\ seen[f] # Done /\ seen[f] = folder[f]
  BY DEF Settled, Present
<1> HIDE DEF there, ready
<1>4. \A f \in ready : history[f] = "new" /\ f \in scanned /\ folder'[f] = folder[f]
  BY <1>1, <1>2, <1>3 DEF WatchCore
<1>5. /\ folder' \in [Watched -> 0 .. writes] /\ history' \in [Watched -> Marks]
      /\ seen' \in [Watched -> (0 .. writes) \cup {Done}]
  BY <1>1 DEF WatchCore, Marks
<1>6. ASSUME NEW f \in Watched
      PROVE  /\ seen'[f] \notin {0, Done} => /\ history'[f] = "new"
                                             /\ seen'[f] = folder'[f] => f \in scanned'
             /\ seen'[f] = 0 /\ folder'[f] # 0 => history'[f] = "new"
  <2>1. CASE f \notin there
    <3>1. seen'[f] = 0 /\ folder'[f] = 0
      BY <1>1, <1>2, <2>1
    <3> QED  BY <3>1
  <2>2. CASE f \in there /\ (seen[f] = Done \/ f \in ready)
    <3>1. seen'[f] = Done /\ Done # 0
      BY <1>1, <2>2, DoneIsNoStamp
    <3> QED  BY <1>1, <3>1
  <2>3. CASE f \in there /\ seen[f] # Done /\ f \notin ready
    <3>1. history'[f] = history[f] /\ f \in scanned'
      BY <1>1, <2>3
    <3>2. history[f] = "new"
      BY <1>1, <1>2, <2>3 DEF WatchCore
    <3> QED  BY <1>1, <3>1, <3>2
  <2> QED  BY <2>1, <2>2, <2>3
<1>7. WatchCore'
  BY <1>1, <1>5, <1>6 DEF WatchCore
<1>8. \A f \in Watched : history[f] # "offered" /\ history'[f] = "offered" => f \in ready
  BY <1>1
<1> QED  BY <1>4, <1>7, <1>8

-----------------------------------------------------------------------------
(* The import screen *)

RecordCore == outcomes \in Seq(Files) /\ Len(outcomes) <= OutcomeRows

ImportsInv ==
  /\ QueueCore /\ name \in Names /\ RecordCore /\ WatchCore
  /\ library \in Libraries

\* An outcome goes on record last, and the oldest make room.
LEMMA RecordKeeps ==
  ASSUME RecordCore, NEW e \in Entries, Record(e)
  PROVE  RecordCore' /\ outcomes'[Len(outcomes')] = e.path
<1> DEFINE all == Append(outcomes, e.path)
           n == Len(outcomes) + 1
           m == IF n > OutcomeRows THEN n - OutcomeRows + 1 ELSE 1
<1>1. e.path \in Files /\ Len(outcomes) \in Nat /\ OutcomeRows \in Nat \ {0}
  BY ImportsAssumption, LenProperties DEF Entries, RecordCore
<1>2. all \in Seq(Files) /\ Len(all) = n /\ all[n] = e.path
  BY <1>1, AppendProperties DEF RecordCore
<1>3. n \in Nat /\ m \in 1 .. n /\ n - m + 1 <= OutcomeRows
  BY <1>1
<1>4. outcomes' = SubSeq(all, m, n)
  BY <1>2 DEF Record
<1> HIDE DEF all, n, m
<1>5. /\ outcomes' \in Seq(Files) /\ Len(outcomes') = n - m + 1
      /\ \A k \in 1 .. (n - m + 1) : outcomes'[k] = all[m + k - 1]
  <2>1. m \in 1 .. Len(all) + 1 /\ n \in m - 1 .. Len(all)
    BY <1>2, <1>3
  <2> QED  BY <1>2, <1>3, <1>4, <2>1, SubSeqProperties
<1>6. n - m + 1 \in 1 .. (n - m + 1) /\ m + (n - m + 1) - 1 = n
  BY <1>3
<1>7. outcomes'[n - m + 1] = all[n]
  BY <1>5, <1>6
<1> QED  BY <1>2, <1>3, <1>5, <1>7 DEF RecordCore

LEMMA ImportsInit == Init => ImportsInv
<1> SUFFICES ASSUME Init PROVE ImportsInv
  OBVIOUS
<1>1. /\ queue = <<>> /\ running = NoFile /\ automatic = FALSE /\ total = 0
      /\ name = Blank /\ label = Blank /\ outcomes = <<>> /\ library \in Libraries
  BY DEF Init
<1>2. QueueCore
  <2>1. queue \in Seq(Entries) /\ 0 \in 0 .. Cardinality(Files) /\ DOMAIN queue = {}
    BY <1>1, HowMany, EmptySeq
  <2> QED  BY <1>1, <2>1 DEF QueueCore, Distinct, Unattended, Idle, Names
<1>3. RecordCore
  BY <1>1, ImportsAssumption, EmptySeq DEF RecordCore
<1>4. WatchCore
  <2>1. /\ writes = 1 /\ folder \in [Watched -> {0, 1}] /\ watching = FALSE
        /\ seen = [f \in Watched |-> 0] /\ history = [f \in Watched |-> "new"]
    BY DEF Init
  <2>2. 0 .. 1 = {0, 1} /\ 1 \in 1 .. MaxWrites
    BY ImportsAssumption
  <2>3. folder \in [Watched -> 0 .. writes] /\ writes \in 1 .. MaxWrites
    BY <2>1, <2>2
  <2>4. seen \in [Watched -> (0 .. writes) \cup {Done}] /\ history \in [Watched -> Marks]
    BY <2>1, <2>2 DEF Marks
  <2> QED  BY <2>1, <2>3, <2>4 DEF WatchCore
<1> QED  BY <1>1, <1>2, <1>3, <1>4 DEF ImportsInv, Names

LEMMA ElsewhereKeeps ==
  ASSUME WatchCore, library \in Libraries, Elsewhere
  PROVE  WatchCore' /\ library' \in Libraries /\ LibraryOpen' = LibraryOpen /\ history' = history
BY DEF Elsewhere, WatchCore, watcherVars, Done, LibraryOpen

\* What every message does to the queue: it keeps its shape; with a library open no more
\* watched entries stall; and of what was in hand nothing is lost by a drain but what it
\* has put on record and, without a library, what it has just taken.
QueueStep ==
  /\ QueueCore' /\ name' \in Names /\ RecordCore'
  /\ LibraryOpen => Stalled' \subseteq Stalled
  /\ running' # running \/ outcomes' # outcomes =>
       \A f \in InHand \ InHand' :
          /\ ~Idle
          /\ \/ f = running.path /\ outcomes'[Len(outcomes')] = f
             \/ ~LibraryOpen /\ f = Turn

LEMMA QueueUnchanged ==
  ASSUME ImportsInv, UNCHANGED queueVars
  PROVE  QueueStep
<1>1. /\ queue' = queue /\ running' = running /\ automatic' = automatic /\ total' = total
      /\ name' = name /\ label' = label /\ outcomes' = outcomes
  BY DEF queueVars
<1> QED  BY <1>1 DEF QueueStep, ImportsInv, QueueCore, RecordCore, Distinct, Unattended,
                     Idle, Stalled

LEMMA QueuesMore ==
  ASSUME ImportsInv, NEW paths \in Seq(Files), IsInjective(paths),
         NEW source \in {"chosen", "dropped", "watched"}, Enqueue(paths, source)
  PROVE  QueueStep
<1>1. /\ QueueCore' /\ name' \in Names /\ outcomes' = outcomes
      /\ Paths(queue) \subseteq InHand'
      /\ ~Idle => Idle' = Idle /\ running' = running
      /\ LibraryOpen => Stalled' \subseteq Stalled
  BY EnqueueKeeps DEF ImportsInv
<1>2. InHand \subseteq InHand'
  <2>1. CASE Idle
    BY <1>1, <2>1 DEF InHand, Paths
  <2>2. CASE ~Idle
    <3>1. InHand = Paths(queue) \cup {running.path}
      BY <2>2 DEF InHand, Paths
    <3>2. running.path \in InHand'
      BY <1>1, <2>2 DEF InHand
    <3> QED  BY <1>1, <3>1, <3>2
  <2> QED  BY <2>1, <2>2
<1> QED  BY <1>1, <1>2 DEF QueueStep, ImportsInv, RecordCore

LEMMA Drains ==
  ASSUME ImportsInv, (\E f \in Files : Start(f)) \/ Imported
  PROVE  QueueStep
<1>1. CASE \E f \in Files : Start(f)
  <2>1. PICK f \in Files : Start(f)
    BY <1>1
  <2> DEFINE q == IF queue = <<>> THEN <<Entry(f, "chosen")>> ELSE queue
  <2>2. Idle /\ LibraryOpen /\ StartNext(q, FALSE, Len(q)) /\ outcomes' = <<>> /\ name' = name
    BY <2>1 DEF Start
  <2>3. q \in Seq(Entries) /\ Distinct(q)
    <3>1. CASE queue = <<>>
      <4>1. q = <<Entry(f, "chosen")>> /\ Entry(f, "chosen") \in Entries
        BY <3>1 DEF Entry, Entries
      <4> QED  BY <4>1 DEF Distinct
    <3>2. CASE queue # <<>>
      BY <3>2 DEF ImportsInv, QueueCore
    <3> QED  BY <3>1, <3>2
  <2>4. Paths(queue) \subseteq Paths(q)
    BY EmptySeq DEF Paths
  <2> HIDE DEF q
  <2>5. QueueCore' /\ Paths(q) \subseteq InHand' /\ Stalled' = {}
    BY <2>2, <2>3, QueueIsShort, StartNextKeeps DEF ImportsInv
  <2>6. RecordCore'
    BY <2>2, ImportsAssumption, EmptySeq DEF RecordCore
  <2>7. InHand \subseteq InHand'
    BY <2>2, <2>4, <2>5 DEF InHand, Paths
  <2> QED  BY <2>2, <2>5, <2>6, <2>7 DEF QueueStep, ImportsInv
<1>2. CASE Imported
  <2>1. ~Idle /\ Record(running) /\ StartNext(queue, automatic, total) /\ name' = name
    BY <1>2 DEF Imported
  <2>2. RecordCore' /\ outcomes'[Len(outcomes')] = running.path
    BY <2>1, RecordKeeps DEF ImportsInv, QueueCore, Idle
  <2>3. /\ QueueCore'
        /\ LibraryOpen => Stalled' = {}
        /\ \A f \in Paths(queue) \ InHand' : ~LibraryOpen /\ f = Turn
    BY <2>1, StartNextKeeps DEF ImportsInv, QueueCore, Turn
  <2>4. InHand = Paths(queue) \cup {running.path}
    BY <2>1 DEF InHand, Paths
  <2> QED  BY <2>1, <2>2, <2>3, <2>4 DEF QueueStep, ImportsInv
<1> QED  BY <1>1, <1>2

LEMMA Edits ==
  ASSUME ImportsInv,
         \/ \E i \in 1 .. Cardinality(Files) : Dequeue(i)
         \/ ClearQueue \/ ClearOutcomes
         \/ \E n \in Typed \cup {Blank} : TypeName(n)
  PROVE  QueueStep
<1>1. QueueCore /\ RecordCore /\ name \in Names
  BY DEF ImportsInv
<1>2. CASE \E i \in 1 .. Cardinality(Files) : Dequeue(i)
  <2>1. PICK i \in DOMAIN queue :
          /\ queue' = RemoveAt(queue, i)
          /\ running' = running /\ automatic' = automatic /\ total' = total
          /\ name' = name /\ label' = label /\ outcomes' = outcomes
    BY <1>2 DEF Dequeue
  <2>2. /\ queue' \in Seq(Entries) /\ Distinct(queue')
        /\ \A k \in DOMAIN queue' : \E j \in DOMAIN queue : queue'[k] = queue[j]
    BY <1>1, <2>1, RemoveAtKeeps DEF QueueCore
  <2>3. QueueCore'
    <3>1. Distinct(queue)' /\ Idle' = Idle /\ Unattended'
      BY <1>1, <2>1, <2>2 DEF Distinct, Idle, QueueCore, Unattended
    <3> QED  BY <1>1, <2>1, <2>2, <3>1 DEF QueueCore
  <2> QED  BY <1>1, <2>1, <2>2, <2>3 DEF QueueStep, RecordCore, Stalled, Idle
<1>3. CASE ClearQueue
  <2>1. /\ queue' = <<>>
        /\ running' = running /\ automatic' = automatic /\ total' = total
        /\ name' = name /\ label' = label /\ outcomes' = outcomes
    BY <1>3 DEF ClearQueue
  <2>2. queue' \in Seq(Entries) /\ DOMAIN queue' = {}
    BY <2>1, EmptySeq
  <2>3. QueueCore'
    BY <1>1, <2>1, <2>2 DEF QueueCore, Distinct, Idle, Unattended
  <2> QED  BY <1>1, <2>1, <2>2, <2>3 DEF QueueStep, RecordCore, Stalled
<1>4. CASE ClearOutcomes
  <2>1. /\ queue' = queue /\ outcomes' = <<>>
        /\ running' = running /\ automatic' = automatic /\ total' = total
        /\ name' = name /\ label' = label
    BY <1>4 DEF ClearOutcomes
  <2>2. QueueCore' /\ RecordCore'
    BY <1>1, <2>1, ImportsAssumption, EmptySeq
    DEF QueueCore, Distinct, Idle, Unattended, RecordCore
  <2>3. InHand' = InHand /\ Idle' = Idle
    BY <2>1 DEF InHand, Idle
  <2> QED  BY <1>1, <2>1, <2>2, <2>3 DEF QueueStep, Stalled, Idle
<1>5. CASE \E n \in Typed \cup {Blank} : TypeName(n)
  <2>1. /\ queue' = queue /\ outcomes' = outcomes /\ name' \in Names
        /\ running' = running /\ automatic' = automatic /\ total' = total
        /\ label' = label
    BY <1>5 DEF TypeName, Names
  <2>2. QueueCore' /\ RecordCore'
    BY <1>1, <2>1 DEF QueueCore, Distinct, Idle, Unattended, RecordCore
  <2> QED  BY <1>1, <2>1, <2>2 DEF QueueStep, Stalled, Idle
<1> QED  BY <1>2, <1>3, <1>4, <1>5

\* What a poll offers, and what a sweep takes, is a batch like any other.
LEMMA WatcherQueues ==
  ASSUME ImportsInv, NEW S \in SUBSET Watched, Enqueue(InOrder(S), "watched")
  PROVE  QueueStep
<1>1. S \in SUBSET Files /\ S \in SUBSET Nat /\ IsFiniteSet(S)
  BY ImportsAssumption, FS_Subset
<1>2. /\ InOrder(S) \in [1 .. Cardinality(S) -> S] /\ Cardinality(S) \in Nat
      /\ \A i, j \in 1 .. Cardinality(S) : InOrder(S)[i] = InOrder(S)[j] => i = j
  BY <1>1, InOrderListsOnce
<1>3. InOrder(S) \in [1 .. Cardinality(S) -> Files]
  BY <1>1, <1>2
<1>4. InOrder(S) \in Seq(Files) /\ IsInjective(InOrder(S))
  BY <1>2, <1>3, IsASeq DEF IsInjective
<1> QED  BY <1>4, QueuesMore

\* A file is offered by a poll only, and then ripe.
Ripe(f) == history[f] # "offered" /\ history'[f] = "offered" =>
             history[f] = "new" /\ f \in scanned /\ folder'[f] = folder[f]

LEMMA ImportsStep ==
  ASSUME ImportsInv, [Next]_vars
  PROVE  /\ ImportsInv' /\ QueueStep
         /\ \A f \in Watched : Ripe(f)
<1>1. /\ QueueCore /\ name \in Names /\ RecordCore /\ WatchCore /\ library \in Libraries
  BY DEF ImportsInv
<1>2. CASE \E b \in Batches : Pick(b) \/ Drop(b)
  <2>1. PICK b \in Batches, s \in {"chosen", "dropped"} : Enqueue(b, s) /\ Elsewhere
    BY <1>2 DEF Pick, Drop
  <2>2. b \in Seq(Files) /\ IsInjective(b) /\ s \in {"chosen", "dropped", "watched"}
    BY <2>1, ImportsAssumption
  <2>3. QueueStep
    BY <2>1, <2>2, QueuesMore
  <2> QED  BY <1>1, <2>1, <2>3, ElsewhereKeeps DEF QueueStep, ImportsInv, Ripe
<1>3. CASE (\E f \in Files : Start(f)) \/ Imported
  <2>1. Elsewhere
    BY <1>3 DEF Start, Imported
  <2> QED  BY <1>1, <1>3, <2>1, Drains, ElsewhereKeeps DEF QueueStep, ImportsInv, Ripe
<1>4. CASE \/ \E i \in 1 .. Cardinality(Files) : Dequeue(i)
           \/ ClearQueue \/ ClearOutcomes
           \/ \E n \in Typed \cup {Blank} : TypeName(n)
  <2>1. Elsewhere
    BY <1>4 DEF Dequeue, ClearQueue, ClearOutcomes, TypeName
  <2> QED  BY <1>1, <1>4, <2>1, Edits, ElsewhereKeeps DEF QueueStep, ImportsInv, Ripe
<1>5. CASE \E f \in Watched : Write(f) \/ Delete(f)
  <2>1. PICK f \in Watched : Write(f) \/ Delete(f)
    BY <1>5
  <2>2. UNCHANGED queueVars /\ library' = library
        /\ \A g \in Watched : history'[g] = history[g] \/ history'[g] = "new"
    BY <1>1, <2>1 DEF Write, Delete, WatchCore
  <2>3. WatchCore' /\ QueueStep
    BY <1>1, <2>1, <2>2, WriteWatches, QueueUnchanged
  <2> QED  BY <1>1, <2>2, <2>3 DEF QueueStep, ImportsInv, Ripe
<1>6. CASE Watch \/ Unwatch \/ Sweep
  <2>1. WatchCore' /\ library' = library
    BY <1>1, <1>6, WatchWatches DEF Watch, Unwatch, Sweep
  <2>2. \A g \in Watched : history'[g] = history[g] \/ history'[g] \in {"adopted", "swept"}
    BY <1>6 DEF Watch, Unwatch, Sweep
  <2>3. QueueStep
    <3>1. CASE UNCHANGED queueVars
      BY <3>1, QueueUnchanged
    <3>2. CASE Enqueue(InOrder(Present), "watched")
      <4>1. Present \in SUBSET Watched
        BY DEF Present
      <4> QED  BY <3>2, <4>1, WatcherQueues
    <3> QED  BY <1>6, <3>1, <3>2 DEF Watch, Unwatch, Sweep
  <2> QED  BY <1>1, <2>1, <2>2, <2>3 DEF QueueStep, ImportsInv, Ripe
<1>7. CASE \E lost \in SUBSET Present : WatchTick(lost)
  <2>1. PICK lost \in SUBSET Present : WatchTick(lost)
    BY <1>7
  <2>2. WatchCore' /\ \A f \in Watched : Ripe(f)
    BY <1>1, <2>1, TickWatches DEF Ripe
  <2>3. QueueStep /\ library' = library
    <3> DEFINE ready == {f \in Present \ lost : seen[f] # Done /\ Settled(f)}
    <3>1. library' = library
          /\ (UNCHANGED queueVars \/ Enqueue(InOrder(ready), "watched"))
      BY <2>1 DEF WatchTick
    <3>2. ready \in SUBSET Watched
      BY DEF Present
    <3> HIDE DEF ready
    <3> QED  BY <3>1, <3>2, QueueUnchanged, WatcherQueues
  <2> QED  BY <1>1, <2>2, <2>3 DEF QueueStep, ImportsInv
<1>8. CASE SwitchLibrary
  <2>1. /\ library' \in Libraries /\ UNCHANGED queueVars
        /\ folder' = folder /\ writes' = writes /\ watching' = watching /\ seen' = seen
        /\ history' = history /\ scanned' = scanned
    BY <1>8 DEF SwitchLibrary, watcherVars
  <2>2. WatchCore'
    BY <1>1, <2>1 DEF WatchCore, Done
  <2> QED  BY <1>1, <2>1, <2>2, QueueUnchanged DEF QueueStep, ImportsInv, Ripe
<1>9. CASE UNCHANGED vars
  <2>1. UNCHANGED queueVars /\ Elsewhere
    BY <1>9 DEF vars, Elsewhere
  <2> QED  BY <1>1, <2>1, QueueUnchanged, ElsewhereKeeps DEF QueueStep, ImportsInv, Ripe
<1> QED  BY <1>2, <1>3, <1>4, <1>5, <1>6, <1>7, <1>8, <1>9 DEF Next

\* The invariant the theorems about imports rest on.
THEOREM ImportsInvariant == Spec => []ImportsInv
BY ImportsInit, ImportsStep, PTL DEF Spec

LEMMA InvIsTyped == ImportsInv => TypeOK /\ NoDuplicates /\ Unattended
<1> SUFFICES ASSUME ImportsInv PROVE TypeOK /\ NoDuplicates /\ Unattended
  OBVIOUS
<1>1. /\ QueueCore /\ name \in Names /\ RecordCore /\ WatchCore /\ library \in Libraries
  BY DEF ImportsInv
<1>2. NoDuplicates /\ Unattended
  BY <1>1 DEF QueueCore, NoDuplicates, Distinct
<1>3. outcomes \in BoundedSeq(Files, OutcomeRows)
  <2>1. Len(outcomes) \in 0 .. OutcomeRows /\ outcomes \in [1 .. Len(outcomes) -> Files]
    BY <1>1, ImportsAssumption, LenProperties DEF RecordCore
  <2> QED  BY <2>1 DEF BoundedSeq, SeqOf
<1>4. /\ folder \in [Watched -> 0 .. MaxWrites] /\ writes \in 1 .. MaxWrites
      /\ watching \in BOOLEAN /\ seen \in [Watched -> 0 .. Done]
  <2>1. /\ 0 .. writes \subseteq 0 .. MaxWrites
        /\ (0 .. writes) \cup {Done} \subseteq 0 .. Done
    BY <1>1, ImportsAssumption DEF WatchCore, Done
  <2> QED  BY <1>1, <2>1 DEF WatchCore
<1>5. /\ queue \in BoundedSeq(Entries, Cardinality(Files)) /\ running \in Entries \cup {NoFile}
      /\ automatic \in BOOLEAN /\ total \in 0 .. Cardinality(Files)
      /\ name \in Names /\ label \in Names
  BY <1>1, QueueIsShort DEF QueueCore
<1> QED  BY <1>1, <1>2, <1>3, <1>4, <1>5 DEF TypeOK, Names

\* Whatever is queued, by whom and while what runs, and whichever libraries open or fail
\* to: each file is in hand once, and an unattended drain imports only what the watcher
\* found, under its own name (enqueue, start_next, dataset_name_for).
THEOREM EachFileOnce == Spec => []QueueIsSound
BY ImportsInvariant, InvIsTyped, PTL DEF QueueIsSound

\* Whatever libraries open, close or fail to open, and however long the queue: a file
\* leaves by an import whose outcome is put on record, unless a person takes it off the
\* queue, or its turn comes when the library is gone, which costs that one file.
THEOREM DrainsLoseNothing == Spec => NothingDropped
<1> DEFINE A == running' # running \/ outcomes' # outcomes =>
                  \A f \in InHand \ InHand' :
                     /\ ~Idle
                     /\ \/ f = running.path /\ outcomes'[Len(outcomes')] = f
                        \/ ~LibraryOpen /\ f = Turn
<1>1. ImportsInv /\ [Next]_vars => [A]_vars
  BY ImportsStep DEF QueueStep
<1> QED  BY <1>1, ImportsInvariant, PTL DEF Spec, NothingDropped

\* No message that comes while a library is open leaves a watched file waiting that was
\* not left waiting before (enqueue, start_next).
THEOREM WatchStallsOnlyShut == Spec => WatchNeverStalls
<1> DEFINE A == LibraryOpen => Stalled' \subseteq Stalled
<1>1. ImportsInv /\ [Next]_vars => [A]_vars
  BY ImportsStep DEF QueueStep
<1> QED  BY <1>1, ImportsInvariant, PTL DEF Spec, WatchNeverStalls

\* Both: what is queued is imported in its turn.
THEOREM DrainsStaySound == Spec => DrainsAreSound
BY DrainsLoseNothing, WatchStallsOnlyShut DEF DrainsAreSound

\* However often a file is written, deleted or lost under the watcher's eyes, and the
\* watch begun and ended: what a poll offers is new to the watch, was there at the poll
\* before and has not been touched since (Watcher::poll).
THEOREM OffersStayRipe == Spec => OffersAreRipe
<1>1. ImportsInv /\ [Next]_vars => [\A f \in Watched : Ripe(f)]_vars
  BY ImportsStep
<1> QED  BY <1>1, ImportsInvariant, PTL DEF Spec, OffersAreRipe, Ripe

-----------------------------------------------------------------------------
(* The transport *)

\* A transport whose fields have their types and whose playhead is inside its
\* range: what every method of Transport keeps.
Placed(t) == /\ t \in TransportType
             /\ t.range.start <= t.playhead /\ t.playhead <= t.range.end
             /\ t.state = "playing" => t.range.start < t.range.end
             /\ t.rate \in MinRate .. MaxRate \/ -t.rate \in MinRate .. MaxRate

PlaybackInv == /\ Placed(transport)
       /\ last \in Ages \cup {NoTick}
       /\ playedFor \in Ages

Ranges == {r \in [start : Int, end : Int] : r.start <= r.end}

LEMMA ClampIsInside ==
  ASSUME NEW r \in Ranges, NEW x \in Int
  PROVE  ClampTo(r, x) \in Int /\ r.start <= ClampTo(r, x) /\ ClampTo(r, x) <= r.end
BY DEF Ranges, ClampTo

\* A quotient by a positive span leaves a remainder inside it.
LEMMA Remainder ==
  ASSUME NEW x \in Int, NEW s \in Int, s > 0
  PROVE  x % s \in Int /\ 0 <= x % s /\ x % s < s
BY SMTT(30)

\* What a remainder is.
LEMMA Quotient ==
  ASSUME NEW x \in Int, NEW s \in Int, s > 0
  PROVE  x \div s \in Int /\ x = s * (x \div s) + (x % s)
BY SMTT(30)

\* It is the only one.
LEMMA OneRemainder ==
  ASSUME NEW x \in Int, NEW s \in Int, s > 0, NEW k \in Int, NEW r \in Int,
         0 <= r, r < s, x = s * k + r
  PROVE  x % s = r /\ x \div s = k
<1> DEFINE q == x \div s
           m == x % s
<1>1. q \in Int /\ m \in Int /\ 0 <= m /\ m < s /\ x = s * q + m
  BY Quotient, Remainder
<1> HIDE DEF q, m
<1> DEFINE d == q - k
<1>2. d \in Int /\ s * d = s * q - s * k /\ q = d + k
  BY <1>1
<1>3. s * d = r - m
  BY <1>1, <1>2
<1> HIDE DEF d
<1>4. CASE d = 0
  <2>1. q = k /\ s * d = 0
    BY <1>1, <1>2, <1>4
  <2>2. m = r
    BY <1>1, <1>3, <2>1
  <2> QED  BY <2>1, <2>2 DEF q, m
<1>5. CASE d >= 1
  <2>1. s * d >= s
    BY <1>2, <1>5
  <2> QED  BY <1>1, <1>3, <2>1
<1>6. CASE d <= -1
  <2>1. s * d <= -s
    BY <1>2, <1>6
  <2> QED  BY <1>1, <1>3, <2>1
<1> QED  BY <1>2, <1>4, <1>5, <1>6

Whole(c, s) == \E k \in Int : c = s * k

\* Whole spans change nothing.
LEMMA WholeSpans ==
  ASSUME NEW y \in Int, NEW s \in Int, s > 0, NEW c \in Int, Whole(c, s)
  PROVE  (y + c) % s = y % s
<1> DEFINE q == y \div s
           m == y % s
<1>1. PICK k \in Int : c = s * k
  BY DEF Whole
<1>2. q \in Int /\ m \in Int /\ 0 <= m /\ m < s /\ y = s * q + m
  BY Quotient, Remainder
<1> HIDE DEF q, m
<1>3. s * (q + k) = s * q + s * k /\ q + k \in Int
  BY <1>2
<1> DEFINE a == s * q
           b == s * (q + k)
<1>4. a \in Int /\ b = a + c /\ y = a + m
  BY <1>1, <1>2, <1>3
<1> HIDE DEF a, b
<1>5. y + c = b + m
  BY <1>2, <1>4
<1>6. y + c = s * (q + k) + m
  BY <1>5 DEF b
<1> DEFINE x == y + c
<1>7. x \in Int /\ x = s * (q + k) + m
  BY <1>6
<1> HIDE DEF x
<1>8. x % s = m
  BY <1>2, <1>3, <1>7, OneRemainder
<1> QED  BY <1>8 DEF x, m

LEMMA InsideRemains ==
  ASSUME NEW y \in Int, NEW s \in Int, s > 0, 0 <= y, y < s
  PROVE  y % s = y
<1>1. y = s * 0 + y
  OBVIOUS
<1> QED  BY <1>1, OneRemainder

\* Whole spans less a place: the place mirrored.
LEMMA Mirrored ==
  ASSUME NEW y \in Int, NEW s \in Int, s > 0, NEW c \in Int, Whole(c, s)
  PROVE  (c - y) % s = IF y % s = 0 THEN 0 ELSE s - (y % s)
<1> DEFINE q == y \div s
           m == y % s
           n == IF m = 0 THEN 0 ELSE s - m
           j == IF m = 0 THEN q ELSE q + 1
<1>1. PICK k \in Int : c = s * k
  BY DEF Whole
<1>2. q \in Int /\ m \in Int /\ 0 <= m /\ m < s /\ y = s * q + m
  BY Quotient, Remainder
<1> HIDE DEF q, m
<1>3. n \in Int /\ 0 <= n /\ n < s /\ j \in Int /\ k - j \in Int
  BY <1>2
<1> DEFINE a == s * q
<1>4. a \in Int /\ s * j = a + m + n /\ y = a + m
  BY <1>2
<1> HIDE DEF a, n, j
<1>5. s * (k - j) = s * k - s * j
  BY <1>3
<1> DEFINE d == s * j
           b == s * (k - j)
<1>6. d \in Int /\ d = a + m + n /\ b = c - d
  BY <1>1, <1>3, <1>4, <1>5
<1> HIDE DEF d, b
<1> DEFINE x == c - y
<1>7. x \in Int /\ x = b + n
  BY <1>2, <1>3, <1>4, <1>6
<1>8. x = s * (k - j) + n
  BY <1>7 DEF b
<1> HIDE DEF x
<1>9. x % s = n
  BY <1>3, <1>7, <1>8, OneRemainder
<1> QED  BY <1>9 DEF x, n, m

\* A place on the folded line, seen as one of two spans.
LEMMA TwoSpans ==
  ASSUME NEW x \in Int, NEW s \in Int, s > 0
  PROVE  /\ x % (2 * s) \in Int /\ 0 <= x % (2 * s) /\ x % (2 * s) < s + s
         /\ (x \div s) % 2 = 1 <=> x % (2 * s) >= s
<1> DEFINE w == 2 * s
           q == x \div w
           m == x % w
<1>1. w \in Int /\ w > 0 /\ w = s + s
  OBVIOUS
<1>2. q \in Int /\ m \in Int /\ 0 <= m /\ m < w /\ x = w * q + m
  <2> HIDE DEF w
  <2> QED  BY <1>1, Quotient, Remainder
<1>3. w * q = s * (2 * q) /\ s * (2 * q + 1) = s * (2 * q) + s
  <2> HIDE DEF q
  <2> QED  BY <1>2
<1> HIDE DEF q, m, w
<1>4. CASE m < s
  <2>1. x = s * (2 * q) + m /\ 2 * q \in Int
    BY <1>2, <1>3
  <2>2. x \div s = 2 * q
    BY <1>2, <1>4, <2>1, OneRemainder
  <2>3. (2 * q) % 2 = 0
    BY <1>2
  <2> QED  BY <1>1, <1>2, <1>4, <2>2, <2>3 DEF m, w
<1>5. CASE m >= s
  <2>1. m - s \in Int /\ 0 <= m - s /\ m - s < s /\ 2 * q + 1 \in Int
    BY <1>1, <1>2, <1>5
  <2> DEFINE a == s * (2 * q)
  <2>2. a \in Int /\ s * (2 * q + 1) = a + s /\ x = a + m
    BY <1>2, <1>3
  <2> HIDE DEF a
  <2>3. x = s * (2 * q + 1) + (m - s)
    BY <1>2, <2>1, <2>2
  <2>4. x \div s = 2 * q + 1
    BY <2>1, <2>3, OneRemainder
  <2>5. (2 * q + 1) % 2 = 1
    BY <1>2
  <2> QED  BY <1>1, <1>2, <1>5, <2>4, <2>5 DEF m, w
<1> QED  BY <1>1, <1>2, <1>4, <1>5

LEMMA WrapIsInside ==
  ASSUME NEW r \in Ranges, NEW x \in Int, r.start < r.end
  PROVE  Wrap(x, r) \in Int /\ r.start <= Wrap(x, r) /\ Wrap(x, r) <= r.end
<1> DEFINE s == r.end - r.start
<1>1. s \in Int /\ s > 0 /\ x - r.start \in Int /\ r.start \in Int /\ r.end \in Int
  BY DEF Ranges
<1>2. (x - r.start) % s \in Int /\ 0 <= (x - r.start) % s /\ (x - r.start) % s < s
  <2> HIDE DEF s
  <2> QED  BY <1>1, Remainder
<1>3. Wrap(x, r) = r.start + ((x - r.start) % s)
  BY DEF Wrap, Span
<1> DEFINE m == (x - r.start) % s
<1>4. m \in Int /\ 0 <= m /\ m < r.end - r.start
  BY <1>2
<1> HIDE DEF m
<1> QED  BY <1>1, <1>3, <1>4 DEF m

LEMMA FoldedIsInside ==
  ASSUME NEW r \in Ranges, NEW x \in Int, r.start < r.end
  PROVE  Folded(x, r) \in Int /\ r.start <= Folded(x, r) /\ Folded(x, r) <= r.end
<1> DEFINE s == 2 * (r.end - r.start)
           m == (x - r.start) % s
<1>1. s \in Int /\ s > 0 /\ x - r.start \in Int /\ r.start \in Int /\ r.end \in Int
      /\ s = (r.end - r.start) + (r.end - r.start)
  BY DEF Ranges
<1>2. m \in Int /\ 0 <= m /\ m < s
  <2> HIDE DEF s
  <2> QED  BY <1>1, Remainder
<1>3. Folded(x, r) = IF m <= r.end - r.start THEN r.start + m
                     ELSE r.end - (m - (r.end - r.start))
  BY DEF Folded, Span
<1> HIDE DEF m, s
<1> QED  BY <1>1, <1>2, <1>3

LEMMA HeadingIsInt ==
  ASSUME NEW t, Placed(t)
  PROVE  Heading(t) \in Int
BY DEF Heading, Placed, TransportType

-----------------------------------------------------------------------------
(* Every method of the transport *)

LEMMA PlayPlaces ==
  ASSUME NEW t, Placed(t)
  PROVE  Placed(Play(t)) /\ Placed(Pause(t)) /\ Placed(Toggle(t)) /\ Placed(Stop(t))
<1>0. t.playhead \in Int /\ t.range.start \in Int /\ t.range.end \in Int
  BY DEF Placed, TransportType
<1>1. Placed(Play(t))
  <2>1. CASE IsEmpty(t.range)
    BY <2>1 DEF Play
  <2>2. CASE ~IsEmpty(t.range)
    <3> DEFINE at == IF t.state # "playing" /\ AtEnd(t) THEN StartForDirection(t) ELSE t.playhead
    <3>1. Play(t) = [t EXCEPT !.state = "playing", !.playhead = at]
      BY <2>2 DEF Play
    <3>2. at \in Int /\ t.range.start <= at /\ at <= t.range.end /\ t.range.start < t.range.end
      BY <1>0, <2>2 DEF StartForDirection, Placed, IsEmpty
    <3> HIDE DEF at
    <3> QED  BY <3>1, <3>2 DEF Placed, TransportType, States
  <2> QED  BY <2>1, <2>2
<1>2. Placed(Pause(t))
  BY DEF Pause, Placed, TransportType, States, LoopModes
<1>3. Placed(Toggle(t))
  BY <1>1, <1>2 DEF Toggle
<1>4. Placed(Stop(t))
  <2>1. t.range.start <= t.range.start /\ t.range.start <= t.range.end
    BY <1>0 DEF Placed
  <2>2. /\ Stop(t) \in TransportType /\ Stop(t).state = "stopped" /\ Stop(t).rate = t.rate
        /\ Stop(t).range = t.range /\ Stop(t).playhead = t.range.start
    BY <1>0 DEF Stop, Placed, TransportType, States
  <2> QED  BY <2>1, <2>2 DEF Placed
<1> QED  BY <1>1, <1>2, <1>3, <1>4

LEMMA SeekPlaces ==
  ASSUME NEW t, Placed(t), NEW x \in Int
  PROVE  Placed(Seek(t, x))
<1>1. t.range \in Ranges
  BY DEF Placed, TransportType, Ranges
<1>2. ClampTo(t.range, x) \in Int /\ t.range.start <= ClampTo(t.range, x)
      /\ ClampTo(t.range, x) <= t.range.end
  BY <1>1, ClampIsInside
<1> QED  BY <1>2 DEF Seek, Placed, TransportType

LEMMA SettingsPlace ==
  ASSUME NEW t, Placed(t), NEW r \in Int, NEW m \in LoopModes
  PROVE  Placed(SetRate(t, r)) /\ Placed(SetLoopMode(t, m))
<1>1. r # 0 => Magnitude(r) \in MinRate .. MaxRate
  BY RatesAssumption DEF Magnitude
<1>2. Placed(SetRate(t, r))
  BY <1>1, RatesAssumption DEF SetRate, Placed, TransportType
<1>3. Placed(SetLoopMode(t, m))
  BY DEF SetLoopMode, Placed, TransportType
<1> QED  BY <1>2, <1>3

LEMMA RangePlaces ==
  ASSUME NEW t, Placed(t), NEW r \in Ranges
  PROVE  Placed(SetRange(t, r))
<1>1. t.playhead \in Int /\ r \in [start : Int, end : Int] /\ r.start <= r.end
      /\ r.start \in Int /\ r.end \in Int
  BY DEF Placed, TransportType, Ranges
<1>2. ClampTo(r, t.playhead) \in Int /\ r.start <= ClampTo(r, t.playhead)
      /\ ClampTo(r, t.playhead) <= r.end
  BY <1>1, ClampIsInside
<1> DEFINE at == IF IsEmpty(r) THEN r.start ELSE ClampTo(r, t.playhead)
           st == IF IsEmpty(r) THEN "stopped" ELSE t.state
<1>3. at \in Int /\ r.start <= at /\ at <= r.end
  BY <1>1, <1>2 DEF IsEmpty
<1>4. st \in States /\ (st = "playing" => r.start < r.end)
  BY <1>1 DEF IsEmpty, Placed, TransportType, States
<1>5. SetRange(t, r) = [t EXCEPT !.range = r, !.playhead = at, !.state = st]
  BY DEF SetRange
<1> HIDE DEF at, st
<1> QED  BY <1>1, <1>3, <1>4, <1>5 DEF Placed, TransportType

LEMMA LoopPlaces ==
  ASSUME NEW t, Placed(t), NEW x \in Int
  PROVE  Placed(SetLoopStart(t, x)) /\ Placed(SetLoopEnd(t, x))
<1>1. \A a, b \in Int : TimeRange(a, b) \in Ranges
  BY DEF TimeRange, Ranges
<1>2. t.range.start \in Int /\ t.range.end \in Int
  BY DEF Placed, TransportType
<1> DEFINE a == IF x < t.range.end THEN x ELSE t.range.end
           b == IF x > t.range.start THEN x ELSE t.range.start
<1>3. a \in Int /\ b \in Int
  BY <1>2
<1>4. TimeRange(a, t.range.end) \in Ranges /\ TimeRange(t.range.start, b) \in Ranges
  <2> HIDE DEF a, b
  <2> QED  BY <1>1, <1>2, <1>3
<1>5. SetLoopStart(t, x) = SetRange(t, TimeRange(a, t.range.end))
      /\ SetLoopEnd(t, x) = SetRange(t, TimeRange(t.range.start, b))
  BY DEF SetLoopStart, SetLoopEnd
<1> HIDE DEF a, b
<1> QED  BY <1>4, <1>5, RangePlaces

LEMMA AdvancePlaces ==
  ASSUME NEW t, Placed(t), NEW dt \in Int
  PROVE  Placed(Advance(t, dt))
<1> DEFINE target == t.playhead + dt * Heading(t)
<1>1. target \in Int
  BY HeadingIsInt DEF Placed, TransportType
<1>2. t.range \in Ranges
  BY DEF Placed, TransportType, Ranges
<1>3. CASE t.state # "playing" \/ IsEmpty(t.range)
  BY <1>3 DEF Advance
<1>4. CASE ~(t.state # "playing" \/ IsEmpty(t.range))
  <2>1. t.range.start < t.range.end /\ t.mode \in LoopModes /\ t.direction \in {-1, 1}
    BY <1>4 DEF Placed, TransportType
  <2>2. CASE t.range.start <= target /\ target <= t.range.end
    <3>1. Advance(t, dt) = [t EXCEPT !.playhead = target]
      BY <1>4, <2>2 DEF Advance
    <3> HIDE DEF target
    <3> QED  BY <1>1, <2>2, <3>1 DEF Placed, TransportType
  <2>3. CASE ~(t.range.start <= target /\ target <= t.range.end) /\ t.mode = "once"
    <3>1. Advance(t, dt) = Ended(t, target)
      BY <1>4, <2>3 DEF Advance
    <3> HIDE DEF target
    <3>2. ClampTo(t.range, target) \in Int /\ t.range.start <= ClampTo(t.range, target)
          /\ ClampTo(t.range, target) <= t.range.end
      BY <1>1, <1>2, ClampIsInside
    <3> QED  BY <3>1, <3>2 DEF Ended, Placed, TransportType, States
  <2>4. CASE ~(t.range.start <= target /\ target <= t.range.end) /\ t.mode = "loop"
    <3>1. Advance(t, dt) = [t EXCEPT !.playhead = Wrap(target, t.range)]
      BY <1>4, <2>4 DEF Advance
    <3> HIDE DEF target
    <3>2. Wrap(target, t.range) \in Int /\ t.range.start <= Wrap(target, t.range)
          /\ Wrap(target, t.range) <= t.range.end
      BY <1>1, <1>2, <2>1, WrapIsInside
    <3> QED  BY <2>1, <3>1, <3>2 DEF Placed, TransportType
  <2>5. CASE ~(t.range.start <= target /\ target <= t.range.end) /\ t.mode = "pingpong"
    <3>1. Advance(t, dt) = [t EXCEPT !.playhead = Folded(target, t.range),
                                     !.direction = IF Flipped(target, t.range) THEN -@ ELSE @]
      BY <1>4, <2>5 DEF Advance
    <3> HIDE DEF target
    <3>2. Folded(target, t.range) \in Int /\ t.range.start <= Folded(target, t.range)
          /\ Folded(target, t.range) <= t.range.end
      BY <1>1, <1>2, <2>1, FoldedIsInside
    <3>3. (IF Flipped(target, t.range) THEN -t.direction ELSE t.direction) \in {-1, 1}
      BY <2>1
    <3> QED  BY <2>1, <3>1, <3>2, <3>3 DEF Placed, TransportType
  <2> QED  BY <2>1, <2>2, <2>3, <2>4, <2>5 DEF LoopModes
<1> QED  BY <1>3, <1>4

-----------------------------------------------------------------------------
(* The screen and its clock *)

LEMMA LongerIsAnAge ==
  ASSUME NEW a \in Ages
  PROVE  Longer(a) \in Ages
BY StepAssumption DEF Ages, Longer

LEMMA PlaybackInvInit == PlaybackInit => PlaybackInv
BY RatesAssumption, StepAssumption
DEF PlaybackInit, PlaybackInv, Placed, TransportType, New, TimeRange, States, LoopModes, Ages, NoTick

LEMMA CommandKeeps ==
  ASSUME NEW t, PlaybackInv, Placed(t), Command(t)
  PROVE  PlaybackInv'
BY StepAssumption DEF PlaybackInv, Command, Placed, Ages

LEMMA AdjustKeeps ==
  ASSUME NEW t, PlaybackInv, Placed(t), Adjust(t)
  PROVE  PlaybackInv'
BY DEF PlaybackInv, Adjust, Placed

LEMMA PlaybackInvStep ==
  ASSUME PlaybackInv, [PlaybackNext]_playbackVars
  PROVE  PlaybackInv'
<1>1. Placed(transport) /\ last \in Ages \cup {NoTick} /\ playedFor \in Ages
  BY DEF PlaybackInv
<1>2. CASE PlayPressed \/ StopPressed \/ TogglePressed
  BY <1>1, <1>2, PlayPlaces, CommandKeeps DEF PlayPressed, StopPressed, TogglePressed
<1>3. CASE SeekFraction \/ CanvasSeek
  <2>1. PICK x \in Int : Command(Seek(transport, x))
    BY <1>1, <1>3, StepAssumption DEF SeekFraction, CanvasSeek, Placed, TransportType
  <2> QED  BY <1>1, <2>1, SeekPlaces, CommandKeeps
<1>4. CASE PausePressed
  BY <1>1, <1>4, PlayPlaces, AdjustKeeps DEF PausePressed
<1>5. CASE RateChanged
  <2>1. PICK r \in Rates : Adjust(SetRate(transport, r))
    BY <1>5 DEF RateChanged
  <2>2. r \in Int /\ "once" \in LoopModes
    BY RatesAssumption DEF LoopModes
  <2> QED  BY <1>1, <2>1, <2>2, SettingsPlace, AdjustKeeps
<1>6. CASE LoopModeChanged
  <2>1. PICK m \in LoopModes : Adjust(SetLoopMode(transport, m))
    BY <1>6 DEF LoopModeChanged
  <2> QED  BY <1>1, <2>1, SettingsPlace, AdjustKeeps
<1>7. CASE LoopStartPressed \/ LoopEndPressed
  <2>1. transport.playhead \in Int
    BY <1>1 DEF Placed, TransportType
  <2> QED  BY <1>1, <1>7, <2>1, LoopPlaces, AdjustKeeps DEF LoopStartPressed, LoopEndPressed
<1>8. CASE Retime
  <2>1. PICK r \in ContentRanges : Adjust(SetRange(transport, r))
    BY <1>8 DEF Retime
  <2>2. r \in Ranges
    BY RangesAssumption DEF Ranges
  <2> QED  BY <1>1, <2>1, <2>2, RangePlaces, AdjustKeeps
<1>9. CASE Elapse
  <2>1. last' \in Ages \cup {NoTick} /\ playedFor' \in Ages
    BY <1>1, <1>9, LongerIsAnAge DEF Elapse
  <2> QED  BY <1>1, <1>9, <2>1 DEF Elapse, PlaybackInv, Placed
<1>10. CASE Tick
  <2>1. Placed(transport') /\ playedFor' = playedFor /\ last' = 0
    <3>1. CASE Ticked = NoTick
      BY <1>1, <1>10, <3>1 DEF Tick
    <3>2. CASE Ticked # NoTick
      <4>1. Ticked \in Int
        BY <3>2, StepAssumption DEF Ticked
      <4> QED  BY <1>1, <1>10, <3>2, <4>1, AdvancePlaces DEF Tick
    <3> QED  BY <3>1, <3>2
  <2> QED  BY <1>1, <2>1, StepAssumption DEF PlaybackInv, Placed, Ages
<1>11. CASE UNCHANGED playbackVars
  BY <1>11 DEF playbackVars, PlaybackInv, Placed
<1> QED  BY <1>2, <1>3, <1>4, <1>5, <1>6, <1>7, <1>8, <1>9, <1>10, <1>11
         DEF PlaybackNext, PlaybackUser

\* The invariant the other theorems rest on.
THEOREM PlaybackInvariant == PlaybackSpec => []PlaybackInv
BY PlaybackInvInit, PlaybackInvStep, PTL DEF PlaybackSpec

\* The transport keeps its type, and its rate its bounds, whatever is asked.
THEOREM PlaybackIsTyped == PlaybackSpec => []PlaybackTypeOK
<1>1. PlaybackInv => PlaybackTypeOK
  BY DEF PlaybackInv, Placed, PlaybackTypeOK
<1> QED  BY <1>1, PlaybackInvariant, PTL

\* Whatever the span, and however far one tick carries or the span, rate or mode
\* moved since the last: the playhead is inside the playable span.
THEOREM PlayheadStaysInRange == PlaybackSpec => []InRange
<1>1. PlaybackInv => InRange
  BY DEF PlaybackInv, Placed, TransportType, InRange, IsEmpty
<1> QED  BY <1>1, PlaybackInvariant, PTL

-----------------------------------------------------------------------------
(* Two ticks and one *)

\* What a tick makes of a transport that plays.
LEMMA TickFields ==
  ASSUME NEW t, Placed(t), t.state = "playing", NEW dt \in Int, NEW target \in Int,
         target = t.playhead + dt * Heading(t)
  PROVE  LET u == Advance(t, dt)
             out == ~(t.range.start <= target /\ target <= t.range.end)
         IN
         /\ u.range = t.range /\ u.rate = t.rate /\ u.mode = t.mode
         /\ u.state = IF out /\ t.mode = "once" THEN "paused" ELSE "playing"
         /\ ~out => u.playhead = target
         /\ out /\ t.mode = "once" => u.playhead = ClampTo(t.range, target)
         /\ out /\ t.mode = "loop" => u.playhead = Wrap(target, t.range)
         /\ out /\ t.mode = "pingpong" => u.playhead = Folded(target, t.range)
         /\ u.direction = IF out /\ t.mode = "pingpong" /\ Flipped(target, t.range)
                          THEN -t.direction ELSE t.direction
<1> DEFINE out == ~(t.range.start <= target /\ target <= t.range.end)
<1>1. t \in TransportType /\ t.range.start < t.range.end
      /\ t.range.start \in Int /\ t.range.end \in Int
  BY DEF Placed, TransportType
<1>2. ~(t.state # "playing" \/ IsEmpty(t.range))
  BY <1>1 DEF IsEmpty
<1>3. CASE ~out
  <2>1. Advance(t, dt) = [t EXCEPT !.playhead = target]
    BY <1>2, <1>3 DEF Advance
  <2> QED  BY <1>1, <1>3, <2>1 DEF TransportType
<1>4. CASE out /\ t.mode = "once"
  <2>1. Advance(t, dt) = Ended(t, target)
    BY <1>2, <1>4 DEF Advance
  <2> QED  BY <1>1, <1>4, <2>1 DEF TransportType, Ended
<1>5. CASE out /\ t.mode = "loop"
  <2>1. Advance(t, dt) = [t EXCEPT !.playhead = Wrap(target, t.range)]
    BY <1>2, <1>5 DEF Advance
  <2> QED  BY <1>1, <1>5, <2>1 DEF TransportType
<1>6. CASE out /\ t.mode = "pingpong"
  <2>1. Advance(t, dt) = [t EXCEPT !.playhead = Folded(target, t.range),
                                   !.direction = IF Flipped(target, t.range) THEN -@ ELSE @]
    BY <1>2, <1>6 DEF Advance
  <2> QED  BY <1>1, <1>6, <2>1 DEF TransportType
<1>7. t.mode \in {"once", "loop", "pingpong"}
  BY <1>1 DEF TransportType, LoopModes
<1> QED  BY <1>3, <1>4, <1>5, <1>6, <1>7

\* Once: the first tick that runs out ends it, and the second finds it paused.
LEMMA OnceInOne ==
  ASSUME NEW r \in Ranges, NEW x \in Int, NEW y \in Int,
         (x < r.start /\ y < x) \/ (x > r.end /\ y > x)
  PROVE  ClampTo(r, x) = ClampTo(r, y)
BY DEF Ranges, ClampTo

\* Loop: where the second tick ends is the place of the whole, or the other end's.
LEMMA LoopInOne ==
  ASSUME NEW r \in Ranges, r.start < r.end, NEW x \in Int, NEW y \in Int,
         NEW z \in Int, z = Wrap(x, r) + (y - x)
  PROVE  /\ r.start <= z /\ z <= r.end =>
              z = Wrap(y, r) \/ (z = r.end /\ Wrap(y, r) = r.start)
         /\ ~(r.start <= z /\ z <= r.end) => Wrap(z, r) = Wrap(y, r)
<1> DEFINE a == r.start
           s == r.end - r.start
           k == (x - a) \div s
           m == (x - a) % s
<1>1. s \in Int /\ s > 0 /\ a \in Int /\ r.end = a + s /\ x - a \in Int
  BY DEF Ranges
<1>2. k \in Int /\ m \in Int /\ 0 <= m /\ m < s /\ x - a = s * k + m
  <2> HIDE DEF s, a
  <2> QED  BY <1>1, Quotient, Remainder
<1>3. Wrap(x, r) = a + m /\ Wrap(y, r) = a + ((y - a) % s) /\ Wrap(z, r) = a + ((z - a) % s)
  BY DEF Wrap, Span
<1> HIDE DEF a, s, k, m
<1> DEFINE c == s * k
<1>4. c \in Int /\ Whole(c, s) /\ x - a = c + m
  <2>1. c \in Int
    BY <1>1, <1>2
  <2>2. Whole(c, s)
    BY <1>2 DEF Whole
  <2> QED  BY <1>2, <2>1, <2>2
<1> HIDE DEF c
<1>5. (y - a) % s = (z - a) % s
  <2> DEFINE v == z - a
  <2>1. v \in Int /\ y - a = v + c
    BY <1>1, <1>2, <1>3, <1>4
  <2> HIDE DEF v
  <2>2. (v + c) % s = v % s
    BY <1>1, <1>4, <2>1, WholeSpans
  <2> QED  BY <2>1, <2>2 DEF v
<1>6. CASE a <= z /\ z < a + s
  <2> DEFINE v == z - a
  <2>1. v \in Int /\ 0 <= v /\ v < s
    BY <1>1, <1>6
  <2>2. v % s = v
    <3> HIDE DEF v
    <3> QED  BY <1>1, <2>1, InsideRemains
  <2>3. Wrap(y, r) = z
    BY <1>1, <1>3, <1>5, <2>2
  <2> QED  BY <1>1, <1>6, <2>3 DEF a
<1>7. CASE z = a + s
  <2>1. s = s * 1 + 0
    BY <1>1
  <2>2. s % s = 0
    BY <1>1, <2>1, OneRemainder
  <2>3. z - a = s
    BY <1>1, <1>7
  <2>4. Wrap(y, r) = a
    BY <1>1, <1>3, <1>5, <2>2, <2>3
  <2>5. z = r.end
    BY <1>1, <1>7
  <2> QED  BY <1>1, <2>4, <2>5 DEF a
<1>8. CASE ~(a <= z /\ z <= a + s)
  <2>1. Wrap(z, r) = Wrap(y, r)
    BY <1>3, <1>5
  <2> QED  BY <1>1, <1>8, <2>1 DEF a
<1> QED  BY <1>1, <1>6, <1>7, <1>8

\* Where the fold puts a place, and whether it turned it round.
LEMMA Folds ==
  ASSUME NEW r \in Ranges, r.start < r.end, NEW x \in Int
  PROVE  LET s == r.end - r.start
             o == (x - r.start) % (2 * s)
         IN
         /\ o \in Int /\ 0 <= o /\ o < s + s
         /\ Folded(x, r) = IF o <= s THEN r.start + o ELSE r.start + (s + s) - o
         /\ Flipped(x, r) <=> o >= s
<1> DEFINE s == r.end - r.start
           v == x - r.start
           o == v % (2 * s)
<1>1. r.start \in Int /\ r.end \in Int
  BY DEF Ranges
<1>2. s \in Int /\ s > 0 /\ r.end = r.start + s /\ v \in Int
  BY <1>1
<1>3. Folded(x, r) = IF o <= s THEN r.start + o ELSE r.end - (o - s)
  BY DEF Folded, Span
<1>4. Flipped(x, r) <=> (v \div s) % 2 = 1
  BY DEF Flipped, Span
<1>5. o \in Int /\ 0 <= o /\ o < s + s /\ ((v \div s) % 2 = 1 <=> o >= s)
  <2> HIDE DEF v, s
  <2> QED  BY <1>2, TwoSpans
<1>6. /\ o \in Int /\ 0 <= o /\ o < s + s
      /\ Folded(x, r) = IF o <= s THEN r.start + o ELSE r.start + (s + s) - o
      /\ Flipped(x, r) <=> o >= s
  <2>1. r.end - (o - s) = r.start + (s + s) - o
    <3> HIDE DEF o, s, v
    <3> QED  BY <1>1, <1>2, <1>5
  <2> HIDE DEF o, s, v
  <2> QED  BY <1>3, <1>4, <1>5, <2>1
<1> QED  BY <1>6

\* Ping-pong: the second tick starts where the fold put the first, the way it turned it.
LEMMA PingPongInOne ==
  ASSUME NEW r \in Ranges, r.start < r.end, NEW x \in Int, NEW y \in Int, NEW z \in Int,
         z = Folded(x, r) + (IF Flipped(x, r) THEN x - y ELSE y - x)
  PROVE  IF r.start <= z /\ z <= r.end
         THEN /\ z = Folded(y, r)
              /\ (Flipped(x, r) <=> Flipped(y, r)) \/ z \in {r.start, r.end}
         ELSE /\ Folded(z, r) = Folded(y, r)
              /\ \/ (Flipped(x, r) <=> Flipped(z, r)) <=> ~Flipped(y, r)
                 \/ Folded(z, r) \in {r.start, r.end}
<1> DEFINE a == r.start
           s == r.end - r.start
           w == 2 * s
           k == (x - a) \div w
           ox == (x - a) % w
           oy == (y - a) % w
           oz == (z - a) % w
<1>1. s \in Int /\ s > 0 /\ w = s + s /\ a \in Int /\ r.end = a + s /\ w > 0
      /\ x - a \in Int /\ y - a \in Int /\ z - a \in Int /\ w \in Int
  BY DEF Ranges
<1>2. /\ ox \in Int /\ 0 <= ox /\ ox < s + s
      /\ Folded(x, r) = IF ox <= s THEN a + ox ELSE a + (s + s) - ox
      /\ Flipped(x, r) <=> ox >= s
  BY <1>1, Folds
<1>3. /\ oy \in Int /\ 0 <= oy /\ oy < s + s
      /\ Folded(y, r) = IF oy <= s THEN a + oy ELSE a + (s + s) - oy
      /\ Flipped(y, r) <=> oy >= s
  BY <1>1, Folds
<1>4. /\ oz \in Int /\ 0 <= oz /\ oz < s + s
      /\ Folded(z, r) = IF oz <= s THEN a + oz ELSE a + (s + s) - oz
      /\ Flipped(z, r) <=> oz >= s
  BY <1>1, Folds
<1>5. k \in Int /\ x - a = w * k + ox
  <2> DEFINE u == x - a
  <2>1. u \in Int
    BY <1>1
  <2> HIDE DEF u, w
  <2>2. u \div w \in Int /\ u = w * (u \div w) + (u % w)
    BY <1>1, <2>1, Quotient
  <2> QED  BY <2>2 DEF u
<1> DEFINE c == w * k
<1>6. c \in Int /\ Whole(c, w) /\ x - a = c + ox
  <2> HIDE DEF w, k, ox
  <2> QED  BY <1>1, <1>2, <1>5 DEF Whole
<1>7. Whole(c + w, w)
  <2> HIDE DEF w, k
  <2>1. c + w = w * (k + 1) /\ k + 1 \in Int
    BY <1>1, <1>5
  <2> QED  BY <2>1 DEF Whole
<1>8. ASSUME 0 <= z - a, z - a <= s PROVE oz = z - a
  <2> DEFINE v == z - a
  <2>1. v \in Int /\ 0 <= v /\ v < w /\ w \in Int
    BY <1>1, <1>8
  <2> HIDE DEF v, w
  <2>2. v % w = v
    BY <1>1, <2>1, InsideRemains
  <2> QED  BY <2>2 DEF v
<1>9. CASE ~Flipped(x, r)
  <2> DEFINE v == z - a
  <2>1. ox < s /\ v \in Int /\ y - a = v + c
    <3> HIDE DEF a, s, w, ox, c
    <3> QED  BY <1>1, <1>2, <1>6, <1>9
  <2>2. oy = oz
    <3>1. w \in Int /\ w > 0 /\ c \in Int /\ Whole(c, w) /\ v \in Int
      BY <1>1, <1>6, <2>1
    <3> HIDE DEF v, w, c
    <3>2. (v + c) % w = v % w
      BY <3>1, WholeSpans
    <3> QED  BY <2>1, <3>2 DEF v
  <2> HIDE DEF s, w, ox, oy, oz, c, v, k
  <2> QED  BY <1>1, <1>2, <1>3, <1>4, <1>8, <1>9, <2>2
<1>10. CASE Flipped(x, r)
  <2> DEFINE v == z - a
             d == c + w
  <2>1. ox >= s /\ v \in Int /\ d \in Int /\ y - a = d - v
    <3> HIDE DEF a, s, w, ox, c
    <3> QED  BY <1>1, <1>2, <1>6, <1>10
  <2>2. oy = IF oz = 0 THEN 0 ELSE w - oz
    <3>1. w \in Int /\ w > 0 /\ d \in Int /\ Whole(d, w) /\ v \in Int
      BY <1>1, <1>7, <2>1
    <3> HIDE DEF v, w, d
    <3>2. (d - v) % w = IF v % w = 0 THEN 0 ELSE w - (v % w)
      BY <3>1, Mirrored
    <3> QED  BY <2>1, <3>2 DEF v
  <2> HIDE DEF s, w, ox, oy, oz, c, v, k, d
  <2> QED  BY <1>1, <1>2, <1>3, <1>4, <1>8, <1>10, <2>2
<1> QED  BY <1>9, <1>10

\* The way the playhead travels is somewhere, and turned round it is the other way.
LEMMA HeadingMoves ==
  ASSUME NEW t, Placed(t)
  PROVE  /\ Heading(t) \in Int /\ Heading(t) # 0
         /\ \A u : u.rate = t.rate /\ u.direction = t.direction => Heading(u) = Heading(t)
         /\ \A u : u.rate = t.rate /\ u.direction = -t.direction => Heading(u) = -Heading(t)
<1>1. t.rate \in Int /\ t.rate # 0 /\ t.direction \in {-1, 1}
  BY RatesAssumption DEF Placed, TransportType
<1> QED  BY <1>1 DEF Heading

LEMMA Products ==
  ASSUME NEW h \in Int, h # 0, NEW a \in Nat \ {0}, NEW b \in Nat \ {0}
  PROVE  /\ a * h \in Int /\ b * h \in Int /\ (a + b) * h = a * h + b * h /\ b * (-h) = -(b * h)
         /\ (a * h > 0 /\ b * h > 0) \/ (a * h < 0 /\ b * h < 0)
<1>1. CASE h > 0
  <2>1. a * h > 0 /\ b * h > 0
    BY <1>1
  <2> QED  BY <2>1
<1>2. CASE h < 0
  <2>1. a * h < 0 /\ b * h < 0
    BY <1>2
  <2> QED  BY <2>1
<1>3. a * h \in Int /\ b * h \in Int
  OBVIOUS
<1>4. (a + b) * h = a * h + b * h /\ b * (-h) = -(b * h)
  OBVIOUS
<1> QED  BY <1>1, <1>2, <1>3, <1>4

LEMMA TwoTicksAreOne ==
  ASSUME NEW t, Placed(t), NEW a \in Nat \ {0}, NEW b \in Nat \ {0}
  PROVE  Alike(Advance(Advance(t, a), b), Advance(t, a + b))
<1>1. CASE t.state # "playing"
  <2>1. Advance(t, a) = t /\ Advance(t, b) = t /\ Advance(t, a + b) = t
    BY <1>1 DEF Advance
  <2> QED  BY <2>1 DEF Alike
<1>2. CASE t.state = "playing"
  <2> DEFINE h == Heading(t)
             r == t.range
             da == a * h
             db == b * h
             x == t.playhead + da
             y == t.playhead + (a + b) * h
             u == Advance(t, a)
             one == Advance(t, a + b)
             two == Advance(u, b)
             out(p) == ~(r.start <= p /\ p <= r.end)
  <2>1. h \in Int /\ h # 0 /\ a \in Int /\ b \in Int /\ a + b \in Int
    BY HeadingMoves
  <2>2. /\ da \in Int /\ db \in Int /\ (a + b) * h = da + db /\ b * (-h) = -db
        /\ (da > 0 /\ db > 0) \/ (da < 0 /\ db < 0)
    BY <2>1, Products
  <2>3. /\ r \in Ranges /\ r.start < r.end /\ t.playhead \in Int /\ t.direction \in {-1, 1}
        /\ r.start <= t.playhead /\ t.playhead <= r.end
        /\ t.mode \in {"once", "loop", "pingpong"} /\ r.start \in Int /\ r.end \in Int
    BY <1>2 DEF Placed, TransportType, LoopModes, Ranges
  <2>4. /\ x \in Int /\ y \in Int /\ y = x + db
        /\ out(x) => (x < r.start /\ y < x) \/ (x > r.end /\ y > x)
    <3> HIDE DEF h, da, db
    <3> QED  BY <2>1, <2>2, <2>3
  <2>5. Placed(u) /\ u \in TransportType
    BY <2>1, AdvancePlaces DEF Placed
  <2>6. /\ u.range = r /\ u.rate = t.rate /\ u.mode = t.mode
        /\ u.state = IF out(x) /\ t.mode = "once" THEN "paused" ELSE "playing"
        /\ ~out(x) => u.playhead = x
        /\ out(x) /\ t.mode = "once" => u.playhead = ClampTo(r, x)
        /\ out(x) /\ t.mode = "loop" => u.playhead = Wrap(x, r)
        /\ out(x) /\ t.mode = "pingpong" => u.playhead = Folded(x, r)
        /\ u.direction = IF out(x) /\ t.mode = "pingpong" /\ Flipped(x, r)
                         THEN -t.direction ELSE t.direction
    BY <1>2, <2>1, <2>4, TickFields
  <2>7. /\ one.range = r /\ one.rate = t.rate /\ one.mode = t.mode
        /\ one.state = IF out(y) /\ t.mode = "once" THEN "paused" ELSE "playing"
        /\ ~out(y) => one.playhead = y
        /\ out(y) /\ t.mode = "once" => one.playhead = ClampTo(r, y)
        /\ out(y) /\ t.mode = "loop" => one.playhead = Wrap(y, r)
        /\ out(y) /\ t.mode = "pingpong" => one.playhead = Folded(y, r)
        /\ one.direction = IF out(y) /\ t.mode = "pingpong" /\ Flipped(y, r)
                           THEN -t.direction ELSE t.direction
    BY <1>2, <2>1, <2>4, TickFields
  <2> DEFINE z == u.playhead + b * Heading(u)
  <2>8. z \in Int /\ u.playhead \in Int
    <3>1. Heading(u) \in Int
      BY <2>5, HeadingMoves
    <3>2. u.playhead \in Int
      BY <2>5 DEF TransportType
    <3> HIDE DEF u
    <3> QED  BY <2>1, <3>1, <3>2
  <2>9. ASSUME u.state = "playing"
        PROVE
        /\ two.range = r /\ two.rate = t.rate /\ two.mode = t.mode
        /\ two.state = IF out(z) /\ t.mode = "once" THEN "paused" ELSE "playing"
        /\ ~out(z) => two.playhead = z
        /\ out(z) /\ t.mode = "once" => two.playhead = ClampTo(r, z)
        /\ out(z) /\ t.mode = "loop" => two.playhead = Wrap(z, r)
        /\ out(z) /\ t.mode = "pingpong" => two.playhead = Folded(z, r)
        /\ two.direction = IF out(z) /\ t.mode = "pingpong" /\ Flipped(z, r)
                           THEN -u.direction ELSE u.direction
    <3>1. /\ two.range = u.range /\ two.rate = u.rate /\ two.mode = u.mode
          /\ LET off == ~(u.range.start <= z /\ z <= u.range.end) IN
             /\ two.state = IF off /\ u.mode = "once" THEN "paused" ELSE "playing"
             /\ ~off => two.playhead = z
             /\ off /\ u.mode = "once" => two.playhead = ClampTo(u.range, z)
             /\ off /\ u.mode = "loop" => two.playhead = Wrap(z, u.range)
             /\ off /\ u.mode = "pingpong" => two.playhead = Folded(z, u.range)
             /\ two.direction = IF off /\ u.mode = "pingpong" /\ Flipped(z, u.range)
                                THEN -u.direction ELSE u.direction
      <4> HIDE DEF u
      <4> QED  BY <2>1, <2>5, <2>8, <2>9, TickFields
    <3> HIDE DEF u, two, z, r
    <3> QED  BY <2>6, <3>1
  <2>10. /\ u.direction = t.direction => z = u.playhead + (y - x)
         /\ u.direction = -t.direction => z = u.playhead + (x - y)
    <3>1. /\ u.direction = t.direction => Heading(u) = h
          /\ u.direction = -t.direction => Heading(u) = -h
      BY <2>6, HeadingMoves
    <3>2. /\ u.direction = t.direction => z = u.playhead + db
          /\ u.direction = -t.direction => z = u.playhead + (-db)
      BY <2>2, <3>1
    <3> HIDE DEF u, x, y, z, db
    <3> QED  BY <2>2, <2>4, <2>8, <3>2
  <2> DEFINE likewise ==
               /\ two.state = one.state
               /\ \/ /\ two.playhead = one.playhead
                     /\ two.direction = one.direction \/ two.playhead \in {r.start, r.end}
                  \/ t.mode = "loop" /\ {two.playhead, one.playhead} = {r.start, r.end}
  <2> SUFFICES two.range = r /\ two.rate = t.rate /\ two.mode = t.mode /\ likewise
    <3>1. two.range = one.range /\ two.rate = one.rate /\ two.mode = one.mode
      BY <2>7
    <3> HIDE DEF x, y, z, r, da, db, h
    <3> QED  BY <2>7, <3>1 DEF Alike
  <2> HIDE DEF u, one, two, x, y, z, r, da, db, h
  <2>11. CASE ~out(x)
    <3>1. u.state = "playing" /\ z = y /\ u.direction = t.direction
      BY <2>4, <2>6, <2>8, <2>10, <2>11
    <3>2. two.playhead = one.playhead
      BY <2>3, <2>7, <2>9, <3>1
    <3> QED  BY <2>7, <2>9, <3>1, <3>2
  <2>12. CASE out(x) /\ t.mode = "once"
    <3>1. u.state = "paused" /\ u.playhead = ClampTo(r, x)
      BY <2>6, <2>12
    <3>2. two = u
      BY <3>1 DEF two, Advance
    <3>3. out(y)
      BY <2>3, <2>4, <2>12
    <3>4. ClampTo(r, x) = ClampTo(r, y)
      BY <2>3, <2>4, <2>12, OnceInOne
    <3> QED  BY <2>6, <2>7, <2>12, <3>1, <3>2, <3>3, <3>4
  <2>13. CASE out(x) /\ t.mode = "loop"
    <3>1. /\ u.state = "playing" /\ u.direction = t.direction /\ u.playhead = Wrap(x, r)
          /\ z = Wrap(x, r) + (y - x) /\ out(y)
      BY <2>3, <2>4, <2>6, <2>10, <2>13
    <3>2. /\ r.start <= z /\ z <= r.end =>
               z = Wrap(y, r) \/ (z = r.end /\ Wrap(y, r) = r.start)
          /\ ~(r.start <= z /\ z <= r.end) => Wrap(z, r) = Wrap(y, r)
      <4>1. /\ r \in Ranges /\ r.start < r.end /\ x \in Int /\ y \in Int /\ z \in Int
            /\ z = Wrap(x, r) + (y - x)
        BY <2>3, <2>4, <2>8, <3>1
      <4> QED  BY <4>1, LoopInOne
    <3>3. /\ two.state = one.state /\ two.direction = one.direction
          /\ two.playhead = one.playhead
               \/ {two.playhead, one.playhead} = {r.start, r.end}
      BY <2>7, <2>9, <2>13, <3>1, <3>2
    <3> QED  BY <2>7, <2>9, <2>13, <3>1, <3>3
  <2>14. CASE out(x) /\ t.mode = "pingpong"
    <3>1. /\ u.state = "playing" /\ u.playhead = Folded(x, r) /\ out(y)
          /\ u.direction = IF Flipped(x, r) THEN -t.direction ELSE t.direction
          /\ z = Folded(x, r) + (IF Flipped(x, r) THEN x - y ELSE y - x)
      BY <2>3, <2>4, <2>6, <2>10, <2>14
    <3>2. IF r.start <= z /\ z <= r.end
          THEN /\ z = Folded(y, r)
               /\ (Flipped(x, r) <=> Flipped(y, r)) \/ z \in {r.start, r.end}
          ELSE /\ Folded(z, r) = Folded(y, r)
               /\ \/ (Flipped(x, r) <=> Flipped(z, r)) <=> ~Flipped(y, r)
                  \/ Folded(z, r) \in {r.start, r.end}
      BY <2>3, <2>4, <2>8, <3>1, PingPongInOne
    <3>3. two.playhead = one.playhead /\ two.state = one.state
      BY <2>7, <2>9, <2>14, <3>1, <3>2
    <3>4. two.direction = one.direction \/ two.playhead \in {r.start, r.end}
      <4>1. one.direction = IF Flipped(y, r) THEN -t.direction ELSE t.direction
        BY <2>7, <2>14, <3>1
      <4>2. CASE r.start <= z /\ z <= r.end
        <5>1. two.direction = u.direction /\ two.playhead = z
          BY <2>9, <3>1, <4>2
        <5> QED  BY <3>1, <3>2, <4>1, <4>2, <5>1
      <4>3. CASE ~(r.start <= z /\ z <= r.end)
        <5>1. /\ two.direction = IF Flipped(z, r) THEN -u.direction ELSE u.direction
              /\ two.playhead = Folded(z, r)
          BY <2>9, <2>14, <3>1, <4>3
        <5> QED  BY <2>3, <3>1, <3>2, <4>1, <4>3, <5>1
      <4> QED  BY <4>2, <4>3
    <3> QED  BY <2>7, <2>9, <3>1, <3>3, <3>4
  <2> QED  BY <2>3, <2>11, <2>12, <2>13, <2>14
<1> QED  BY <1>1, <1>2

\* Frames cost smoothness and never position: wherever the transport is, in any mode,
\* at any rate and over any span, the time of one tick dealt out over two ends in the
\* same place and goes on the same way.
THEOREM FramesCostNoPosition == PlaybackSpec => []FrameRateIndependent
<1>1. PlaybackInv => FrameRateIndependent
  <2> SUFFICES ASSUME Placed(transport), NEW a \in 1 .. MaxStep, NEW b \in 1 .. MaxStep
               PROVE  Alike(Advance(Advance(transport, a), b), Advance(transport, a + b))
    BY DEF PlaybackInv, FrameRateIndependent
  <2> QED  BY TwoTicksAreOne
<1> QED  BY <1>1, PlaybackInvariant, PTL

-----------------------------------------------------------------------------
(* The clock measures only time that was played *)

LEMMA OnlyCommandsStart ==
  ASSUME NEW t, Placed(t), NEW r \in Int, NEW m \in LoopModes, NEW s \in Ranges
  PROVE  /\ Pause(t).state # "playing"
         /\ SetRate(t, r).state = t.state
         /\ SetLoopMode(t, m).state = t.state
         /\ SetRange(t, s).state = "playing" => t.state = "playing"
<1>1. Pause(t).state # "playing"
  BY DEF Pause, Placed, TransportType
<1>2. SetRate(t, r).state = t.state /\ SetLoopMode(t, m).state = t.state
  BY DEF SetRate, SetLoopMode, Placed, TransportType
<1>3. SetRange(t, s).state = IF IsEmpty(s) THEN "stopped" ELSE t.state
  BY DEF SetRange, Placed, TransportType
<1> QED  BY <1>1, <1>2, <1>3

LEMMA LoopPointsDoNotStart ==
  ASSUME NEW t, Placed(t), NEW x \in Int
  PROVE  /\ SetLoopStart(t, x).state = "playing" => t.state = "playing"
         /\ SetLoopEnd(t, x).state = "playing" => t.state = "playing"
<1>1. \A s : SetRange(t, s).state = IF IsEmpty(s) THEN "stopped" ELSE t.state
  BY DEF SetRange, Placed, TransportType
<1> QED  BY <1>1 DEF SetLoopStart, SetLoopEnd

LEMMA LongerKeepsOrder ==
  ASSUME NEW a \in Ages, NEW b \in Ages, a <= b
  PROVE  Longer(a) <= Longer(b)
BY StepAssumption DEF Ages, Longer

LEMMA GapInit == PlaybackInit => GapWasPlayed
BY DEF PlaybackInit, GapWasPlayed

LEMMA GapStep ==
  ASSUME PlaybackInv, GapWasPlayed, [PlaybackNext]_playbackVars
  PROVE  GapWasPlayed'
<1>1. Placed(transport) /\ last \in Ages \cup {NoTick} /\ playedFor \in Ages
  BY DEF PlaybackInv
<1>2. CASE \E t : Command(t)
  BY <1>2 DEF Command, GapWasPlayed
<1>3. CASE \E t : Adjust(t) /\ (t.state = "playing" => transport.state = "playing")
  BY <1>3 DEF Adjust, GapWasPlayed
<1>4. CASE PlayPressed \/ StopPressed \/ TogglePressed \/ SeekFraction \/ CanvasSeek
  BY <1>2, <1>4 DEF PlayPressed, StopPressed, TogglePressed, SeekFraction, CanvasSeek
<1>5. CASE PausePressed \/ RateChanged \/ LoopModeChanged \/ Retime
  <2>1. CASE PausePressed
    <3>1. 1 \in Int /\ "once" \in LoopModes /\ [start |-> 0, end |-> 0] \in Ranges
      BY DEF LoopModes, Ranges
    <3> QED  BY <1>1, <1>3, <2>1, <3>1, OnlyCommandsStart DEF PausePressed
  <2>2. CASE RateChanged
    <3>1. PICK r \in Rates : Adjust(SetRate(transport, r))
      BY <2>2 DEF RateChanged
    <3>2. r \in Int /\ "once" \in LoopModes /\ [start |-> 0, end |-> 0] \in Ranges
      BY RatesAssumption DEF LoopModes, Ranges
    <3> QED  BY <1>1, <1>3, <3>1, <3>2, OnlyCommandsStart
  <2>3. CASE LoopModeChanged
    <3>1. PICK m \in LoopModes : Adjust(SetLoopMode(transport, m))
      BY <2>3 DEF LoopModeChanged
    <3>2. 1 \in Int /\ [start |-> 0, end |-> 0] \in Ranges
      BY DEF Ranges
    <3> QED  BY <1>1, <1>3, <3>1, <3>2, OnlyCommandsStart
  <2>4. CASE Retime
    <3>1. PICK s \in ContentRanges : Adjust(SetRange(transport, s))
      BY <2>4 DEF Retime
    <3>2. 1 \in Int /\ "once" \in LoopModes /\ s \in Ranges
      BY RangesAssumption DEF LoopModes, Ranges
    <3> QED  BY <1>1, <1>3, <3>1, <3>2, OnlyCommandsStart
  <2> QED  BY <1>5, <2>1, <2>2, <2>3, <2>4
<1>6. CASE LoopStartPressed \/ LoopEndPressed
  <2>1. transport.playhead \in Int
    BY <1>1 DEF Placed, TransportType
  <2> QED  BY <1>1, <1>3, <1>6, <2>1, LoopPointsDoNotStart DEF LoopStartPressed, LoopEndPressed
<1>7. CASE Elapse
  <2>1. SUFFICES ASSUME last' # NoTick, transport'.state = "playing"
                 PROVE  last' <= playedFor'
    BY DEF GapWasPlayed
  <2>2. last # NoTick /\ transport.state = "playing" /\ last \in Ages
    BY <1>1, <1>7, <2>1 DEF Elapse
  <2>3. last <= playedFor
    BY <2>2 DEF GapWasPlayed
  <2>4. last' = Longer(last) /\ playedFor' = Longer(playedFor)
    BY <1>7, <2>2 DEF Elapse
  <2> QED  BY <1>1, <2>2, <2>3, <2>4, LongerKeepsOrder
<1>8. CASE Tick
  <2>1. last' = 0 /\ playedFor' = playedFor /\ 0 <= playedFor
    BY <1>1, <1>8, StepAssumption DEF Tick, Ages
  <2> QED  BY <2>1 DEF GapWasPlayed
<1>9. CASE UNCHANGED playbackVars
  BY <1>9 DEF playbackVars, GapWasPlayed
<1> QED  BY <1>4, <1>5, <1>6, <1>7, <1>8, <1>9 DEF PlaybackNext, PlaybackUser

\* However long playback stood still and whatever was pressed since: the gap the next
\* frame measures does not reach back before playback last started or moved.
THEOREM OnlyPlayedTimeIsApplied == PlaybackSpec => []GapWasPlayed
BY PlaybackInvariant, GapInit, GapStep, PTL DEF PlaybackSpec
===============================================================================
