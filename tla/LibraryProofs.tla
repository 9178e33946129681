--------------------------- MODULE LibraryProofs ---------------------------
(* The library, proved for any file, columns, rows, sweeps and number of crashes:    *)
(* rows read back what they were written with and counts are what is named; and what *)
(* a caller, an import or a generation was told is all done or not at all.            *)
EXTENDS MCLibrary, FiniteSetTheorems, WellFoundedInduction, TLAPS

-----------------------------------------------------------------------------
(* Counting *)

\* How many of S a table maps to i.
Uses(f, S, i) == Cardinality({x \in S : f[x] = i})

LEMMA UsesAreNumbers ==
  ASSUME NEW S, IsFiniteSet(S), NEW f, NEW i
  PROVE  Uses(f, S, i) \in Nat
<1>1. IsFiniteSet({x \in S : f[x] = i})
  BY FS_Subset
<1> QED  BY <1>1, FS_CardinalityType DEF Uses

\* One row changes: what it named is named once less, what it names now once more.
LEMMA OneChanged ==
  ASSUME NEW S, IsFiniteSet(S), NEW f, NEW g, NEW x \in S, NEW i,
         \A y \in S \ {x} : g[y] = f[y]
  PROVE  Uses(g, S, i) + (IF f[x] = i THEN 1 ELSE 0)
           = Uses(f, S, i) + (IF g[x] = i THEN 1 ELSE 0)
<1> DEFINE F == {y \in S : f[y] = i}
           G == {y \in S : g[y] = i}
           O == {y \in S \ {x} : f[y] = i}
<1>1. IsFiniteSet(O) /\ Cardinality(O) \in Nat
  BY FS_Subset, FS_CardinalityType
<1>2. F = IF f[x] = i THEN O \cup {x} ELSE O
  OBVIOUS
<1>3. G = IF g[x] = i THEN O \cup {x} ELSE O
  OBVIOUS
<1>4. Cardinality(O \cup {x}) = Cardinality(O) + 1
  BY <1>1, FS_AddElement
<1>5. /\ Uses(f, S, i) = Cardinality(O) + IF f[x] = i THEN 1 ELSE 0
      /\ Uses(g, S, i) = Cardinality(O) + IF g[x] = i THEN 1 ELSE 0
  BY <1>1, <1>2, <1>3, <1>4 DEF Uses
<1> QED  BY <1>1, <1>5

\* The rows of P are taken out: what they named is named so much less.
LEMMA ManyTaken ==
  ASSUME NEW S, IsFiniteSet(S), NEW f, NEW g, NEW P \in SUBSET S, NEW i,
         \A y \in P : g[y] # i, \A y \in S \ P : g[y] = f[y]
  PROVE  Uses(g, S, i) + Uses(f, P, i) = Uses(f, S, i)
<1> DEFINE F == {y \in S : f[y] = i}
           G == {y \in S : g[y] = i}
           T == {y \in P : f[y] = i}
<1>1. IsFiniteSet(F) /\ IsFiniteSet(G) /\ IsFiniteSet(T)
  BY FS_Subset
<1>2. F = G \cup T /\ G \cap T = {}
  OBVIOUS
<1> HIDE DEF F, G, T
<1>3. Cardinality(G \cap T) = 0
  BY <1>2, FS_EmptySet
<1>4. /\ Cardinality(F) = Cardinality(G) + Cardinality(T) - 0
      /\ Cardinality(G) \in Nat /\ Cardinality(T) \in Nat
  BY <1>1, <1>2, <1>3, FS_Union, FS_CardinalityType
<1>5. Cardinality(G) + Cardinality(T) = Cardinality(F)
  BY <1>4
<1> QED  BY <1>5 DEF Uses, F, G, T

-----------------------------------------------------------------------------
(* The tables of a library *)

Sums == Columns \cup Reductions
Blob == [sum : Sums \cup {PendingSum, NoSum}, refs : Int]
Stored == [blob : [Ids -> Blob], row : [Rows -> Ids \cup {NoId}],
           pyramid : [Columns -> Ids \cup {NoId}]]
Written == [Rows -> Columns \cup {NoSum}]
Pending == [sum |-> PendingSum, refs |-> 0]

\* A content has one blob; what rows and pyramids name is there, and holds what the row
\* was written with.  The blob `at` is being written: nothing names it yet.
Sound(d, at, w) ==
  /\ \A i, j \in Live(d) : d.blob[i].sum = d.blob[j].sum => i = j
  /\ \A i \in Live(d) \ {at} : d.blob[i].sum \in Sums
  /\ at # NoId => at \in Ids /\ d.blob[at] = Pending
  /\ \A r \in Rows : d.row[r] # NoId =>
       d.row[r] \in Live(d) \ {at} /\ d.blob[d.row[r]].sum = w[r]
  /\ \A c \in Columns : d.pyramid[c] # NoId => d.pyramid[c] \in Live(d) \ {at}

LEMMA NoIdIsNoId == NoId \notin Ids /\ Ids \subseteq Nat
BY DEF NoId, Ids

LEMMA RowsAreFinite ==
  IsFiniteSet(Rows) /\ IsFiniteSet(Columns)
BY FS_Product, BlobsAssumption DEF Rows

LEMMA NullsDiffer ==
  /\ PendingSum # NoSum /\ PendingSum \notin Sums /\ NoSum \notin Sums
  /\ Pending \in Blob /\ NoBlob \in Blob /\ Pending # NoBlob
BY BlobsAssumption DEF Sums, Pending, NoBlob, Blob

LEMMA NamedIsUsed ==
  ASSUME NEW d, NEW i
  PROVE  /\ Named(d, i) = Uses(d.row, Rows, i) + Uses(d.pyramid, Columns, i)
         /\ Uses(d.row, Rows, i) \in Nat /\ Uses(d.pyramid, Columns, i) \in Nat
         /\ Named(d, i) \in Nat
<1>1. Named(d, i) = Uses(d.row, Rows, i) + Uses(d.pyramid, Columns, i)
  BY DEF Named, Uses
<1>2. Uses(d.row, Rows, i) \in Nat /\ Uses(d.pyramid, Columns, i) \in Nat
  BY RowsAreFinite, UsesAreNumbers
<1> QED  BY <1>1, <1>2

LEMMA UnusedIsZero ==
  ASSUME NEW S, IsFiniteSet(S), NEW f, NEW i
  PROVE  Uses(f, S, i) = 0 <=> \A x \in S : f[x] # i
<1> DEFINE F == {x \in S : f[x] = i}
<1>1. IsFiniteSet(F) /\ (F = {} <=> \A x \in S : f[x] # i)
  BY FS_Subset
<1> HIDE DEF F
<1>2. Cardinality(F) = 0 <=> F = {}
  BY <1>1, FS_EmptySet
<1> QED  BY <1>1, <1>2 DEF Uses, F

LEMMA UnnamedIsZero ==
  ASSUME NEW d, NEW i
  PROVE  Named(d, i) = 0 <=> /\ \A r \in Rows : d.row[r] # i
                             /\ \A c \in Columns : d.pyramid[c] # i
<1>1. /\ Uses(d.row, Rows, i) = 0 <=> \A r \in Rows : d.row[r] # i
      /\ Uses(d.pyramid, Columns, i) = 0 <=> \A c \in Columns : d.pyramid[c] # i
  BY RowsAreFinite, UnusedIsZero
<1>2. Named(d, i) = 0 <=> Uses(d.row, Rows, i) = 0 /\ Uses(d.pyramid, Columns, i) = 0
  BY NamedIsUsed
<1> QED  BY <1>1, <1>2

\* What names blobs did not change: nor did what is named.
LEMMA SameNamed ==
  ASSUME NEW d, NEW e, e.row = d.row, e.pyramid = d.pyramid, NEW i
  PROVE  Named(e, i) = Named(d, i)
BY DEF Named

\* One field of one table at a time.
LEMMA PutBlob ==
  ASSUME NEW d \in Stored, NEW i \in Ids, NEW b \in Blob
  PROVE  LET e == [d EXCEPT !.blob[i] = b] IN
         /\ e \in Stored /\ e.row = d.row /\ e.pyramid = d.pyramid
         /\ e.blob[i] = b /\ \A j \in Ids \ {i} : e.blob[j] = d.blob[j]
BY DEF Stored

LEMMA PutRow ==
  ASSUME NEW d \in Stored, NEW r \in Rows, NEW i \in Ids \cup {NoId}
  PROVE  LET e == [d EXCEPT !.row[r] = i] IN
         /\ e \in Stored /\ e.blob = d.blob /\ e.pyramid = d.pyramid
         /\ e.row[r] = i /\ \A q \in Rows \ {r} : e.row[q] = d.row[q]
BY DEF Stored

LEMMA PutPyramid ==
  ASSUME NEW d \in Stored, NEW c \in Columns, NEW i \in Ids \cup {NoId}
  PROVE  LET e == [d EXCEPT !.pyramid[c] = i] IN
         /\ e \in Stored /\ e.blob = d.blob /\ e.row = d.row
         /\ e.pyramid[c] = i /\ \A q \in Columns \ {c} : e.pyramid[q] = d.pyramid[q]
BY DEF Stored

LEMMA PutRefs ==
  ASSUME NEW d \in Stored, NEW i \in Ids, NEW n \in Int
  PROVE  LET e == [d EXCEPT !.blob[i].refs = n] IN
         /\ e \in Stored /\ e.row = d.row /\ e.pyramid = d.pyramid
         /\ e.blob[i].refs = n /\ e.blob[i].sum = d.blob[i].sum
         /\ \A j \in Ids \ {i} : e.blob[j] = d.blob[j]
BY DEF Stored, Blob

LEMMA Raised ==
  ASSUME NEW d \in Stored, NEW i \in Ids, NEW n \in Int
  PROVE  Raise(d, i, n) = [d EXCEPT !.blob[i].refs = d.blob[i].refs + n]
BY DEF Raise, Stored, Blob

\* The next id is above all there are.
LEMMA LeastExists ==
  ASSUME NEW T \in SUBSET Nat, T # {}
  PROVE  \E x \in T : \A y \in T : x <= y
<1>1. PICK x \in T : \A y \in T : ~(<<y, x>> \in OpToRel(<, Nat))
  BY NatLessThanWellFounded, WFMin
<1>2. \A y \in T : ~(y < x)
  BY <1>1 DEF OpToRel
<1> QED  BY <1>2

LEMMA NextIdIsFree ==
  ASSUME NEW d
  PROVE  Rowid(d) \notin Live(d)
<1> DEFINE above == {n \in Nat : \A i \in Live(d) : i <= n}
           most(m) == m \in Live(d) \cup {0} /\ \A i \in Live(d) : i <= m
<1>1. Live(d) \subseteq Ids /\ MaxId \in Nat
  BY BlobsAssumption DEF Live
<1>2. MaxId \in above
  BY <1>1 DEF Ids
<1>3. PICK n \in above : \A m \in above : n <= m
  <2>1. above \in SUBSET Nat /\ above # {}
    BY <1>2
  <2> HIDE DEF above
  <2> QED  BY <2>1, LeastExists
<1>4. most(n)
  <2>1. CASE n = 0
    BY <1>3, <2>1
  <2>2. CASE n # 0 /\ n \notin Live(d)
    <3>1. n \in Nat /\ \A i \in Live(d) : i \in Nat /\ i <= n /\ i # n
      BY <1>1, <1>3, <2>2, NoIdIsNoId
    <3>2. n - 1 \in Nat /\ \A i \in Live(d) : i <= n - 1
      <4> HIDE DEF above, most
      <4> QED  BY <2>2, <3>1
    <3> QED  BY <1>3, <3>1, <3>2
  <2>3. CASE n \in Live(d)
    BY <1>3, <2>3
  <2> QED  BY <2>1, <2>2, <2>3
<1>5. PICK m : most(m) /\ Rowid(d) = 1 + m
  <2>1. Rowid(d) = 1 + CHOOSE m \in Live(d) \cup {0} : \A i \in Live(d) : i <= m
    BY DEF Rowid
  <2> QED  BY <1>4, <2>1
<1>6. m \in Nat
  <2>1. \A i \in Live(d) : i \in Nat
    BY <1>1, NoIdIsNoId
  <2>2. m \in Live(d) \/ m = 0
    BY <1>5
  <2> HIDE DEF above, most
  <2> QED  BY <2>1, <2>2
<1>7. \A i \in Live(d) : i <= m
  BY <1>5
<1> HIDE DEF above, most
<1> QED  BY <1>5, <1>6, <1>7

-----------------------------------------------------------------------------
(* What each write does to sound tables *)

\* A row without its content: blob.rs begin.
LEMMA BeginsSound ==
  ASSUME NEW d \in Stored, NEW w, Sound(d, NoId, w), Rowid(d) \in Ids
  PROVE  LET i == Rowid(d)
             e == [d EXCEPT !.blob[i] = [sum |-> PendingSum, refs |-> 0]] IN
         /\ e \in Stored /\ Sound(e, i, w) /\ e.row = d.row /\ e.pyramid = d.pyramid
         /\ d.blob[i] = NoBlob /\ e.blob[i] = Pending
         /\ \A j \in Ids : e.blob[j].refs = d.blob[j].refs
         /\ Live(e) \ {i} = Live(d)
<1> DEFINE i == Rowid(d)
           e == [d EXCEPT !.blob[i] = Pending]
<1>1. i \in Ids /\ i \notin Live(d) /\ i # NoId
  BY NextIdIsFree, NoIdIsNoId
<1>2. d.blob[i] = NoBlob
  BY <1>1 DEF Live
<1>3. /\ e \in Stored /\ e.row = d.row /\ e.pyramid = d.pyramid
      /\ e.blob[i] = Pending /\ \A j \in Ids \ {i} : e.blob[j] = d.blob[j]
  <2> HIDE DEF i, e
  <2>1. Pending \in Blob
    BY NullsDiffer
  <2> QED  BY <1>1, <2>1, PutBlob DEF e
<1> HIDE DEF i, e
<1>4. Live(e) = Live(d) \cup {i} /\ Live(e) \ {i} = Live(d)
  BY <1>1, <1>2, <1>3, NullsDiffer DEF Live
<1>5. \A j \in Ids : e.blob[j].refs = d.blob[j].refs
  BY <1>2, <1>3 DEF NoBlob, Pending
<1>6. Sound(e, i, w)
  <2>1. \A j, k \in Live(e) : e.blob[j].sum = e.blob[k].sum => j = k
    <3>1. \A j \in Live(d) : j \in Ids /\ j # i /\ e.blob[j].sum = d.blob[j].sum
                             /\ d.blob[j].sum \in Sums
      BY <1>1, <1>3, NoIdIsNoId DEF Sound, Live
    <3>2. e.blob[i].sum = PendingSum /\ PendingSum \notin Sums
      BY <1>3, NullsDiffer DEF Pending
    <3>3. \A j, k \in Live(d) : d.blob[j].sum = d.blob[k].sum => j = k
      BY DEF Sound
    <3> QED  BY <1>4, <3>1, <3>2, <3>3
  <2>2. \A j \in Live(e) \ {i} : e.blob[j].sum \in Sums
    BY <1>1, <1>3, <1>4, NoIdIsNoId DEF Sound, Live
  <2>3. \A r \in Rows : e.row[r] # NoId =>
          e.row[r] \in Live(e) \ {i} /\ e.blob[e.row[r]].sum = w[r]
    BY <1>1, <1>3, <1>4 DEF Sound, Live
  <2>4. \A c \in Columns : e.pyramid[c] # NoId => e.pyramid[c] \in Live(e) \ {i}
    BY <1>3, <1>4 DEF Sound
  <2> QED  BY <1>1, <1>3, <2>1, <2>2, <2>3, <2>4 DEF Sound
<1> QED  BY <1>1, <1>2, <1>3, <1>4, <1>5, <1>6 DEF i, e, Pending

\* Its content is known: the blob that has it already is counted once more, or the new one is
\* the first.  blob.rs finish.
LEMMA FinishesSound ==
  ASSUME NEW d \in Stored, NEW w, NEW i \in Ids, Sound(d, i, w), NEW sum \in Sums
  PROVE  LET e == Finish(d, i, sum)
             t == CHOOSE k \in IdOf(e, sum) : TRUE IN
         /\ e \in Stored /\ Sound(e, NoId, w) /\ e.row = d.row /\ e.pyramid = d.pyramid
         /\ t \in Live(e) /\ e.blob[t].sum = sum
         /\ \A j \in Ids : e.blob[j].refs = d.blob[j].refs + (IF j = t THEN 1 ELSE 0)
         /\ Live(e) \subseteq (Live(d) \ {i}) \cup {t}
<1> DEFINE e == Finish(d, i, sum)
           t == CHOOSE k \in IdOf(e, sum) : TRUE
<1>1. i # NoId /\ d.blob[i] = Pending /\ i \in Live(d)
  BY NoIdIsNoId, NullsDiffer DEF Sound, Live
<1>2. /\ \A j, k \in Live(d) : d.blob[j].sum = d.blob[k].sum => j = k
      /\ \A j \in Live(d) \ {i} : d.blob[j].sum \in Sums
      /\ \A r \in Rows : d.row[r] # NoId =>
           d.row[r] \in Live(d) \ {i} /\ d.blob[d.row[r]].sum = w[r]
      /\ \A c \in Columns : d.pyramid[c] # NoId => d.pyramid[c] \in Live(d) \ {i}
  BY DEF Sound
<1>3. /\ sum # PendingSum /\ sum # NoSum /\ Live(d) \subseteq Ids
      /\ d.blob[i].sum = PendingSum /\ d.blob[i].refs = 0
  BY <1>1, NullsDiffer DEF Live, Pending
<1>4. \A j \in Ids : d.blob[j].refs \in Int /\ (j \notin Live(d) => d.blob[j].refs = 0)
  BY DEF Stored, Blob, Live, NoBlob
<1>5. ASSUME NEW b \in Ids, e \in Stored, e.row = d.row, e.pyramid = d.pyramid,
             Live(e) = (Live(d) \ {i}) \cup {b}, e.blob[b].sum = sum,
             \A j \in Live(d) \ {i} : e.blob[j].sum = d.blob[j].sum,
             b \in Live(d) \ {i} \/ \A j \in Live(d) : d.blob[j].sum # sum
      PROVE  t = b /\ Sound(e, NoId, w)
  <2> HIDE DEF e, t
  <2>1. \A j \in Live(e) : e.blob[j].sum = sum <=> j = b
    BY <1>2, <1>5
  <2>2. IdOf(e, sum) = {b}
    BY <1>5, <2>1 DEF IdOf
  <2>3. t = b
    BY <2>2 DEF t
  <2>4. \A j, k \in Live(e) : e.blob[j].sum = e.blob[k].sum => j = k
    BY <1>2, <1>5, <2>1
  <2>5. \A j \in Live(e) : e.blob[j].sum \in Sums
    BY <1>2, <1>5
  <2>6. \A r \in Rows : e.row[r] # NoId => e.row[r] \in Live(e) /\ e.blob[e.row[r]].sum = w[r]
    BY <1>2, <1>5
  <2>7. \A c \in Columns : e.pyramid[c] # NoId => e.pyramid[c] \in Live(e)
    BY <1>2, <1>5
  <2>8. NoId \notin Live(e)
    BY <1>3, <1>5, NoIdIsNoId
  <2> QED  BY <2>3, <2>4, <2>5, <2>6, <2>7, <2>8 DEF Sound
<1>6. CASE IdOf(d, sum) = {}
  <2>1. e = [d EXCEPT !.blob[i] = [sum |-> sum, refs |-> 1]]
    BY <1>6 DEF Finish
  <2>2. [sum |-> sum, refs |-> 1] \in Blob
    BY DEF Blob
  <2>3. /\ e \in Stored /\ e.row = d.row /\ e.pyramid = d.pyramid
        /\ e.blob[i] = [sum |-> sum, refs |-> 1]
        /\ \A j \in Ids \ {i} : e.blob[j] = d.blob[j]
    <3> HIDE DEF e
    <3> QED  BY <2>1, <2>2, PutBlob
  <2> HIDE DEF e, t
  <2>4. e.blob[i].sum = sum /\ e.blob[i].refs = 1 /\ e.blob[i] # NoBlob
    BY <1>3, <2>3 DEF NoBlob
  <2>5. Live(e) = (Live(d) \ {i}) \cup {i}
    BY <1>1, <2>3, <2>4 DEF Live
  <2>6. \A j \in Live(d) : d.blob[j].sum # sum
    BY <1>6 DEF IdOf
  <2>7. t = i /\ Sound(e, NoId, w)
    BY <1>3, <1>5, <2>3, <2>4, <2>5, <2>6
  <2>8. \A j \in Ids : e.blob[j].refs = d.blob[j].refs + (IF j = t THEN 1 ELSE 0)
    BY <1>3, <1>4, <2>3, <2>4, <2>7
  <2> QED  BY <2>3, <2>4, <2>5, <2>7, <2>8 DEF e, t
<1>7. CASE IdOf(d, sum) # {}
  <2> DEFINE b == CHOOSE k \in IdOf(d, sum) : TRUE
             f == Drop(d, i)
  <2>1. b \in Live(d) /\ d.blob[b].sum = sum /\ b # i /\ b \in Ids
    BY <1>3, <1>7 DEF IdOf
  <2>2. /\ f \in Stored /\ f.row = d.row /\ f.pyramid = d.pyramid
        /\ f.blob[i] = NoBlob /\ \A j \in Ids \ {i} : f.blob[j] = d.blob[j]
    <3>1. f = [d EXCEPT !.blob[i] = NoBlob] /\ NoBlob \in Blob
      BY NullsDiffer DEF Drop
    <3> HIDE DEF f
    <3> QED  BY <3>1, PutBlob
  <2>3. e = Raise(f, b, 1)
    BY <1>7 DEF Finish
  <2> HIDE DEF b, f, e, t
  <2>4. f.blob[b].refs = d.blob[b].refs /\ d.blob[b].refs + 1 \in Int
    BY <1>4, <2>1, <2>2
  <2>5. e = [f EXCEPT !.blob[b].refs = f.blob[b].refs + 1]
    BY <2>1, <2>2, <2>3, Raised
  <2>6. /\ e \in Stored /\ e.row = d.row /\ e.pyramid = d.pyramid
        /\ e.blob[b].refs = d.blob[b].refs + 1 /\ e.blob[b].sum = d.blob[b].sum
        /\ \A j \in Ids \ {b} : e.blob[j] = f.blob[j]
    BY <2>1, <2>2, <2>4, <2>5, PutRefs
  <2>7. e.blob[b] # NoBlob
    BY <1>3, <2>1, <2>6 DEF NoBlob
  <2>8. Live(e) = (Live(d) \ {i}) \cup {b}
    BY <2>1, <2>2, <2>6, <2>7 DEF Live
  <2>9. \A j \in Live(d) \ {i} : e.blob[j].sum = d.blob[j].sum
    BY <1>3, <2>1, <2>2, <2>6
  <2>10. t = b /\ Sound(e, NoId, w)
    BY <1>5, <2>1, <2>6, <2>8, <2>9
  <2>11. \A j \in Ids : e.blob[j].refs = d.blob[j].refs + (IF j = t THEN 1 ELSE 0)
    BY <1>3, <1>4, <2>1, <2>2, <2>6, <2>10 DEF NoBlob
  <2> QED  BY <2>1, <2>6, <2>8, <2>10, <2>11 DEF e, t
<1> QED  BY <1>6, <1>7

\* The row of an owner takes over the reference: library.rs, trains.rs.
LEMMA RowNamesSound ==
  ASSUME NEW d \in Stored, NEW w \in Written, Sound(d, NoId, w),
         NEW r \in Rows, NEW t \in Live(d), d.row[r] = NoId, NEW c \in Columns, d.blob[t].sum = c
  PROVE  LET e == [d EXCEPT !.row[r] = t]
             v == [w EXCEPT ![r] = c] IN
         /\ e \in Stored /\ v \in Written /\ Sound(e, NoId, v) /\ e.blob = d.blob
         /\ \A i \in Ids : Named(e, i) = Named(d, i) + (IF i = t THEN 1 ELSE 0)
<1> DEFINE e == [d EXCEPT !.row[r] = t]
           v == [w EXCEPT ![r] = c]
<1>1. t \in Ids
  BY DEF Live
<1>2. /\ e \in Stored /\ e.blob = d.blob /\ e.pyramid = d.pyramid
      /\ e.row[r] = t /\ \A q \in Rows \ {r} : e.row[q] = d.row[q]
  <2> HIDE DEF e
  <2> QED  BY <1>1, PutRow DEF e
<1>3. v \in Written /\ v[r] = c /\ \A q \in Rows \ {r} : v[q] = w[q]
  BY DEF Written
<1> HIDE DEF e, v
<1>4. Live(e) = Live(d)
  BY <1>2 DEF Live
<1>5. Sound(e, NoId, v)
  BY <1>1, <1>2, <1>3, <1>4, NoIdIsNoId DEF Sound
<1>6. ASSUME NEW i \in Ids PROVE Named(e, i) = Named(d, i) + (IF i = t THEN 1 ELSE 0)
  <2>1. /\ Uses(e.row, Rows, i) + (IF d.row[r] = i THEN 1 ELSE 0)
             = Uses(d.row, Rows, i) + (IF e.row[r] = i THEN 1 ELSE 0)
    BY <1>2, RowsAreFinite, OneChanged
  <2>2. i # NoId
    BY NoIdIsNoId
  <2>3. /\ Named(e, i) = Uses(e.row, Rows, i) + Uses(d.pyramid, Columns, i)
        /\ Uses(e.row, Rows, i) \in Nat
    BY <1>2, NamedIsUsed
  <2> QED  BY <1>2, <2>1, <2>2, <2>3, NamedIsUsed
<1> QED  BY <1>2, <1>3, <1>5, <1>6 DEF e, v

\* A pyramid is filed under its column: pyramid.rs link.
LEMMA PyramidNamesSound ==
  ASSUME NEW d \in Stored, NEW w, Sound(d, NoId, w),
         NEW c \in Columns, NEW t \in Live(d), d.pyramid[c] = NoId
  PROVE  LET e == [d EXCEPT !.pyramid[c] = t] IN
         /\ e \in Stored /\ Sound(e, NoId, w) /\ e.blob = d.blob
         /\ \A i \in Ids : Named(e, i) = Named(d, i) + (IF i = t THEN 1 ELSE 0)
<1> DEFINE e == [d EXCEPT !.pyramid[c] = t]
<1>1. t \in Ids
  BY DEF Live
<1>2. /\ e \in Stored /\ e.blob = d.blob /\ e.row = d.row
      /\ e.pyramid[c] = t /\ \A q \in Columns \ {c} : e.pyramid[q] = d.pyramid[q]
  <2> HIDE DEF e
  <2> QED  BY <1>1, PutPyramid DEF e
<1> HIDE DEF e
<1>3. Live(e) = Live(d)
  BY <1>2 DEF Live
<1>4. Sound(e, NoId, w)
  BY <1>1, <1>2, <1>3, NoIdIsNoId DEF Sound
<1>5. ASSUME NEW i \in Ids PROVE Named(e, i) = Named(d, i) + (IF i = t THEN 1 ELSE 0)
  <2>1. /\ Uses(e.pyramid, Columns, i) + (IF d.pyramid[c] = i THEN 1 ELSE 0)
             = Uses(d.pyramid, Columns, i) + (IF e.pyramid[c] = i THEN 1 ELSE 0)
    BY <1>2, RowsAreFinite, OneChanged
  <2>2. i # NoId
    BY NoIdIsNoId
  <2>3. /\ Named(e, i) = Uses(d.row, Rows, i) + Uses(e.pyramid, Columns, i)
        /\ Uses(e.pyramid, Columns, i) \in Nat
    BY <1>2, NamedIsUsed
  <2> QED  BY <1>2, <2>1, <2>2, <2>3, NamedIsUsed
<1> QED  BY <1>2, <1>4, <1>5 DEF e

\* A pyramid is forgotten: pyramid.rs unlink.
LEMMA UnlinksSound ==
  ASSUME NEW d \in Stored, NEW w, Sound(d, NoId, w),
         NEW c \in Columns, d.pyramid[c] # NoId
  PROVE  LET e == [d EXCEPT !.pyramid[c] = NoId] IN
         /\ e \in Stored /\ Sound(e, NoId, w) /\ e.blob = d.blob
         /\ \A i \in Ids : Named(e, i) + (IF i = d.pyramid[c] THEN 1 ELSE 0) = Named(d, i)
<1> DEFINE e == [d EXCEPT !.pyramid[c] = NoId]
<1>1. /\ e \in Stored /\ e.blob = d.blob /\ e.row = d.row
      /\ e.pyramid[c] = NoId /\ \A q \in Columns \ {c} : e.pyramid[q] = d.pyramid[q]
  <2> HIDE DEF e
  <2> QED  BY PutPyramid DEF e
<1> HIDE DEF e
<1>2. Live(e) = Live(d)
  BY <1>1 DEF Live
<1>3. Sound(e, NoId, w)
  BY <1>1, <1>2, NoIdIsNoId DEF Sound
<1>4. ASSUME NEW i \in Ids
      PROVE  Named(e, i) + (IF i = d.pyramid[c] THEN 1 ELSE 0) = Named(d, i)
  <2>1. /\ Uses(e.pyramid, Columns, i) + (IF d.pyramid[c] = i THEN 1 ELSE 0)
             = Uses(d.pyramid, Columns, i) + (IF e.pyramid[c] = i THEN 1 ELSE 0)
    BY <1>1, RowsAreFinite, OneChanged
  <2>2. i # NoId
    BY NoIdIsNoId
  <2>3. /\ Named(e, i) = Uses(d.row, Rows, i) + Uses(e.pyramid, Columns, i)
        /\ Uses(e.pyramid, Columns, i) \in Nat
    BY <1>1, NamedIsUsed
  <2> QED  BY <1>1, <2>1, <2>2, <2>3, NamedIsUsed
<1> QED  BY <1>1, <1>3, <1>4 DEF e

\* The rows of an owner go, and with them what they were written with: library.rs.
LEMMA DeletesSound ==
  ASSUME NEW d \in Stored, NEW w \in Written, Sound(d, NoId, w),
         NEW P \in SUBSET Rows
  PROVE  LET e == [d EXCEPT !.row = [r \in Rows |-> IF r \in P THEN NoId ELSE @[r]]]
             v == [r \in Rows |-> IF r \in P THEN NoSum ELSE w[r]] IN
         /\ e \in Stored /\ v \in Written /\ Sound(e, NoId, v) /\ e.blob = d.blob
         /\ \A i \in Ids : /\ Cardinality({r \in P : d.row[r] = i}) \in Nat
                           /\ Named(e, i) + Cardinality({r \in P : d.row[r] = i}) = Named(d, i)
<1> DEFINE e == [d EXCEPT !.row = [r \in Rows |-> IF r \in P THEN NoId ELSE @[r]]]
           v == [r \in Rows |-> IF r \in P THEN NoSum ELSE w[r]]
<1>1. /\ e \in Stored /\ e.blob = d.blob /\ e.pyramid = d.pyramid
      /\ \A r \in Rows : e.row[r] = IF r \in P THEN NoId ELSE d.row[r]
  BY DEF Stored
<1>2. v \in Written /\ \A r \in Rows \ P : v[r] = w[r]
  BY DEF Written
<1> HIDE DEF e, v
<1>3. Live(e) = Live(d)
  BY <1>1 DEF Live
<1>4. Sound(e, NoId, v)
  BY <1>1, <1>2, <1>3 DEF Sound
<1>5. ASSUME NEW i \in Ids
      PROVE  /\ Cardinality({r \in P : d.row[r] = i}) \in Nat
             /\ Named(e, i) + Cardinality({r \in P : d.row[r] = i}) = Named(d, i)
  <2>1. NoId # i /\ IsFiniteSet(Rows)
    BY NoIdIsNoId, RowsAreFinite
  <2>2. Uses(e.row, Rows, i) + Uses(d.row, P, i) = Uses(d.row, Rows, i)
    <3>1. (\A r \in P : e.row[r] # i) /\ (\A r \in Rows \ P : e.row[r] = d.row[r])
      BY <1>1, <2>1
    <3> QED  BY <2>1, <3>1, ManyTaken
  <2>3. IsFiniteSet(P)
    BY <2>1, FS_Subset
  <2>4. Uses(d.row, P, i) \in Nat
    BY <2>3, UsesAreNumbers
  <2>5. Cardinality({r \in P : d.row[r] = i}) = Uses(d.row, P, i)
    BY DEF Uses
  <2>6. /\ Named(e, i) = Uses(e.row, Rows, i) + Uses(d.pyramid, Columns, i)
        /\ Uses(e.row, Rows, i) \in Nat
    BY <1>1, NamedIsUsed
  <2> QED  BY <2>2, <2>4, <2>5, <2>6, NamedIsUsed
<1> QED  BY <1>1, <1>2, <1>4, <1>5 DEF e, v

\* Counts may be set to anything: contents stay.  blob.rs release, verify.rs.
LEMMA CountsSound ==
  ASSUME NEW d \in Stored, NEW w, Sound(d, NoId, w),
         NEW i \in Live(d), NEW n \in Int
  PROVE  LET e == [d EXCEPT !.blob[i].refs = n] IN
         /\ e \in Stored /\ Sound(e, NoId, w) /\ e.row = d.row /\ e.pyramid = d.pyramid
         /\ Live(e) = Live(d)
         /\ \A j \in Ids : /\ e.blob[j].refs = (IF j = i THEN n ELSE d.blob[j].refs)
                           /\ e.blob[j].sum = d.blob[j].sum
<1> DEFINE e == [d EXCEPT !.blob[i].refs = n]
<1>1. i \in Ids
  BY DEF Live
<1>2. /\ e \in Stored /\ e.row = d.row /\ e.pyramid = d.pyramid
      /\ e.blob[i].refs = n /\ e.blob[i].sum = d.blob[i].sum
      /\ \A j \in Ids \ {i} : e.blob[j] = d.blob[j]
  <2> HIDE DEF e
  <2> QED  BY <1>1, PutRefs DEF e
<1> HIDE DEF e
<1>3. d.blob[i].sum \in Sums
  BY NoIdIsNoId, <1>1 DEF Sound
<1>4. e.blob[i] # NoBlob
  BY <1>2, <1>3, NullsDiffer DEF NoBlob
<1>5. Live(e) = Live(d)
  BY <1>1, <1>2, <1>4 DEF Live
<1>6. \A j \in Ids : /\ e.blob[j].refs = (IF j = i THEN n ELSE d.blob[j].refs)
                     /\ e.blob[j].sum = d.blob[j].sum
  BY <1>1, <1>2
<1>7. Live(d) \subseteq Ids
  BY DEF Live
<1>8. Sound(e, NoId, w)
  BY <1>2, <1>5, <1>6, <1>7 DEF Sound
<1> QED  BY <1>2, <1>5, <1>6, <1>8 DEF e

\* A blob that nothing names goes.
LEMMA DropsSound ==
  ASSUME NEW d \in Stored, NEW w, Sound(d, NoId, w),
         NEW i \in Ids, Deletable(d, i)
  PROVE  LET e == Drop(d, i) IN
         /\ e \in Stored /\ Sound(e, NoId, w) /\ e.row = d.row /\ e.pyramid = d.pyramid
         /\ Live(e) = Live(d) \ {i}
         /\ e.blob[i].refs = 0 /\ \A j \in Ids \ {i} : e.blob[j] = d.blob[j]
<1> DEFINE e == Drop(d, i)
<1>1. e = [d EXCEPT !.blob[i] = NoBlob] /\ NoBlob \in Blob
  BY NullsDiffer DEF Drop
<1>2. /\ e \in Stored /\ e.row = d.row /\ e.pyramid = d.pyramid
      /\ e.blob[i] = NoBlob /\ \A j \in Ids \ {i} : e.blob[j] = d.blob[j]
  <2> HIDE DEF e
  <2> QED  BY <1>1, PutBlob
<1> HIDE DEF e
<1>3. Live(e) = Live(d) \ {i}
  BY <1>2 DEF Live
<1>4. (\A r \in Rows : d.row[r] # i) /\ (\A c \in Columns : d.pyramid[c] # i)
  BY UnnamedIsZero DEF Deletable
<1>5. Live(d) \subseteq Ids
  BY DEF Live
<1>6. Sound(e, NoId, w)
  BY <1>2, <1>3, <1>4, <1>5 DEF Sound
<1> QED  BY <1>2, <1>3, <1>6 DEF e, NoBlob

-----------------------------------------------------------------------------
(* The invariant: types and contents *)

Storing == [kind : {"storing"}, owner : Owners, at : Ids \cup {NoId},
            saved : Stored, before : Written]
Releasing == [kind : {"releasing"}, at : Ids \cup {NoId}, sums : SUBSET Columns,
              todo : [Ids -> Nat]]
Repairing == [kind : {"repairing"}, wrong : SUBSET Ids, loose : SUBSET Ids,
              found : [Ids -> Nat]]
Jobs == {Idle} \cup Storing \cup Releasing \cup Repairing
BuildJobs == [kind : {"building"}, id : Ids, column : Columns, read : Seq(Columns)]
Reports == [kind : {"verifying", "verified"}, at : {"pyramids", "blobs", "end"},
            stale : BOOLEAN, found : [Ids -> Nat], wrong : SUBSET Ids, loose : SUBSET Ids]

Types == /\ db \in Stored /\ wrote \in Written /\ job \in Jobs
         /\ builder \in [Builders -> {Idle} \cup BuildJobs]
         /\ report \in {Idle} \cup Reports
         /\ crashes \in 0 .. MaxCrashes /\ trusted \in BOOLEAN

\* The blob that is being written: outside a transaction there is none.
At == IF InTransaction THEN job.at ELSE NoId
\* The tables are sound, those to go back to as well, and what is to be unlinked is there.
Kept == /\ Sound(db, At, wrote)
        /\ InTransaction => Sound(job.saved, NoId, job.before)
        /\ job.kind = "releasing" => \A c \in job.sums : db.pyramid[c] # NoId
BlobsInv == Types /\ Kept

LEMMA JobKinds ==
  ASSUME Types
  PROVE  /\ Free => job.kind = "idle"
         /\ job.kind = "storing" => job \in Storing
         /\ job.kind = "releasing" => job \in Releasing
         /\ job.kind = "repairing" => job \in Repairing
BY DEF Types, Jobs, Idle, Free, Storing, Releasing, Repairing

LEMMA FreeIsSound ==
  ASSUME BlobsInv, Free \/ job.kind = "releasing" \/ job.kind = "repairing"
  PROVE  Sound(db, NoId, wrote) /\ At = NoId /\ ~InTransaction /\ Committed = db
BY JobKinds DEF BlobsInv, Kept, At, InTransaction, Committed

\* What readers see is sound, always.
LEMMA CommittedIsSound ==
  ASSUME BlobsInv
  PROVE  Committed \in Stored /\ \E w : Sound(Committed, NoId, w)
<1>1. CASE InTransaction
  BY <1>1, JobKinds DEF BlobsInv, Kept, InTransaction, Committed, Storing
<1>2. CASE ~InTransaction
  BY <1>2 DEF BlobsInv, Types, Kept, At, Committed
<1> QED  BY <1>1, <1>2

LEMMA TouchKeepsType ==
  ASSUME report \in {Idle} \cup Reports, Touch
  PROVE  report' \in {Idle} \cup Reports
BY DEF Touch, Reports, Idle

LEMMA BlobsInvInit == BlobsInit => BlobsInv
<1> SUFFICES ASSUME BlobsInit PROVE BlobsInv
  OBVIOUS
<1>1. Types
  BY NullsDiffer, BlobsAssumption DEF BlobsInit, Types, Stored, Written, Jobs
<1>2. Live(db) = {} /\ job.kind = "idle"
  BY DEF BlobsInit, Live, Idle
<1>3. /\ \A r \in Rows : db.row[r] = NoId
      /\ \A c \in Columns : db.pyramid[c] = NoId
  BY DEF BlobsInit
<1> QED  BY <1>1, <1>2, <1>3 DEF BlobsInv, Kept, Sound, At, InTransaction

\* One transaction.
LEMMA StoreKeeps ==
  ASSUME BlobsInv, Store
  PROVE  BlobsInv'
<1>1. Types /\ Kept
  BY DEF BlobsInv
<1>2. ASSUME NEW o \in Owners, BeginStore(o) PROVE BlobsInv'
  <2>1. Sound(db, NoId, wrote)
    BY <1>2, FreeIsSound DEF BeginStore
  <2>2. /\ job' = [kind |-> "storing", owner |-> o, at |-> NoId, saved |-> db, before |-> wrote]
        /\ UNCHANGED <<db, wrote, builder, report, crashes, trusted>>
    BY <1>2 DEF BeginStore
  <2>3. job' \in Jobs /\ job'.kind = "storing" /\ job'.at = NoId /\ job'.saved = db
        /\ job'.before = wrote
    BY <1>1, <2>2 DEF Jobs, Storing, Types
  <2>4. Types'
    BY <1>1, <2>2, <2>3 DEF Types
  <2> QED  BY <2>1, <2>2, <2>3, <2>4 DEF BlobsInv, Kept, At, InTransaction
<1>3. CASE BeginColumn
  <2>1. /\ InTransaction /\ job \in Storing /\ job.at = NoId /\ Rowid(db) \in Ids
        /\ job' = [job EXCEPT !.at = Rowid(db)]
        /\ db' = [db EXCEPT !.blob[Rowid(db)] = [sum |-> PendingSum, refs |-> 0]]
        /\ UNCHANGED <<wrote, builder, report, crashes, trusted>>
    BY <1>1, <1>3, JobKinds DEF BeginColumn, InTransaction
  <2>2. db' \in Stored /\ Sound(db', Rowid(db), wrote)
    BY <1>1, <2>1, BeginsSound DEF Types, Kept, At
  <2>3. job' \in Storing /\ job'.kind = "storing" /\ job'.at = Rowid(db)
        /\ job'.saved = job.saved /\ job'.before = job.before
    BY <2>1 DEF Storing
  <2>4. Types'
    BY <1>1, <2>1, <2>2, <2>3 DEF Types, Jobs
  <2> QED  BY <1>1, <2>1, <2>2, <2>3, <2>4 DEF BlobsInv, Kept, At, InTransaction
<1>4. CASE EndColumn
  <2> DEFINE i == job.at
  <2>1. PICK c \in Columns, s \in Slots :
          /\ InTransaction /\ i # NoId /\ db.row[<<job.owner, s>>] = NoId
          /\ LET d == Finish(db, i, c)
             IN db' = [d EXCEPT !.row[<<job.owner, s>>] = CHOOSE k \in IdOf(d, c) : TRUE]
          /\ wrote' = [wrote EXCEPT ![<<job.owner, s>>] = c]
          /\ job' = [job EXCEPT !.at = NoId]
          /\ UNCHANGED <<builder, report, crashes, trusted>>
    BY <1>4 DEF EndColumn
  <2> DEFINE d == Finish(db, i, c)
             r == <<job.owner, s>>
             t == CHOOSE k \in IdOf(d, c) : TRUE
  <2>2. job \in Storing /\ i \in Ids /\ r \in Rows /\ c \in Sums
    BY <1>1, <2>1, JobKinds DEF InTransaction, Storing, Rows, Sums
  <2>3. Sound(db, i, wrote) /\ db \in Stored /\ wrote \in Written
    BY <1>1, <2>1 DEF Types, Kept, At
  <2>4. /\ d \in Stored /\ Sound(d, NoId, wrote) /\ d.row = db.row
        /\ t \in Live(d) /\ d.blob[t].sum = c
    <3> HIDE DEF i
    <3> QED  BY <2>2, <2>3, FinishesSound
  <2>5. db' = [d EXCEPT !.row[r] = t] /\ wrote' = [wrote EXCEPT ![r] = c] /\ d.row[r] = NoId
    BY <2>1, <2>4
  <2> HIDE DEF d, r, t, i
  <2>6. db' \in Stored /\ wrote' \in Written /\ Sound(db', NoId, wrote')
    BY <2>2, <2>3, <2>4, <2>5, RowNamesSound
  <2>7. job' \in Storing /\ job'.kind = "storing" /\ job'.at = NoId
        /\ job'.saved = job.saved /\ job'.before = job.before
    BY <2>1, <2>2 DEF Storing
  <2>8. Types'
    BY <1>1, <2>1, <2>6, <2>7 DEF Types, Jobs
  <2> QED  BY <1>1, <2>1, <2>6, <2>7, <2>8 DEF BlobsInv, Kept, At, InTransaction
<1>5. CASE Commit
  <2>1. /\ InTransaction /\ job.at = NoId /\ job' = Idle /\ Touch
        /\ UNCHANGED <<db, wrote, builder, crashes, trusted>>
    BY <1>5 DEF Commit
  <2>2. report' \in {Idle} \cup Reports
    BY <1>1, <2>1, TouchKeepsType DEF Types
  <2>3. Types' /\ job'.kind = "idle"
    BY <1>1, <2>1, <2>2 DEF Types, Jobs, Idle
  <2> QED  BY <1>1, <2>1, <2>3 DEF BlobsInv, Kept, At, InTransaction
<1>6. CASE Rollback
  <2>1. /\ InTransaction /\ job \in Storing /\ db' = job.saved /\ wrote' = job.before
        /\ job' = Idle /\ UNCHANGED <<builder, report, crashes, trusted>>
    BY <1>1, <1>6, JobKinds DEF Rollback, InTransaction
  <2>2. Types' /\ job'.kind = "idle"
    BY <1>1, <2>1 DEF Types, Jobs, Idle, Storing
  <2> QED  BY <1>1, <2>1, <2>2 DEF BlobsInv, Kept, At, InTransaction
<1> QED  BY <1>2, <1>3, <1>4, <1>5, <1>6 DEF Store

\* Releases one by one, each committed by itself.
LEMMA RemoveKeeps ==
  ASSUME BlobsInv, Remove
  PROVE  BlobsInv'
<1>1. Types /\ Kept
  BY DEF BlobsInv
<1>2. ASSUME NEW o \in Owners, DeleteOwner(o) PROVE BlobsInv'
  <2> DEFINE P == Owned(o)
  <2>1. /\ Free /\ P \in SUBSET Rows /\ Touch /\ UNCHANGED <<builder, crashes, trusted>>
        /\ db' = [db EXCEPT !.row = [r \in Rows |-> IF r \in P THEN NoId ELSE @[r]]]
        /\ wrote' = [r \in Rows |-> IF r \in P THEN NoSum ELSE wrote[r]]
        /\ job' = [kind |-> "releasing", at |-> NoId, sums |-> {},
                   todo |-> [i \in Ids |-> Cardinality({r \in P : db.row[r] = i})]]
    BY <1>2 DEF DeleteOwner, Owned
  <2> HIDE DEF P
  <2>2. Sound(db, NoId, wrote) /\ db \in Stored /\ wrote \in Written
    BY <1>1, <2>1, FreeIsSound DEF Types
  <2>3. /\ db' \in Stored /\ wrote' \in Written /\ Sound(db', NoId, wrote')
        /\ \A i \in Ids : Cardinality({r \in P : db.row[r] = i}) \in Nat
    BY <2>1, <2>2, DeletesSound
  <2>4. job' \in Releasing /\ job'.kind = "releasing" /\ job'.sums = {}
    BY <2>1, <2>3 DEF Releasing
  <2>5. Types'
    BY <1>1, <2>1, <2>3, <2>4, TouchKeepsType DEF Types, Jobs
  <2> QED  BY <2>3, <2>4, <2>5 DEF BlobsInv, Kept, At, InTransaction
<1>3. CASE ReleaseOne
  <2>1. PICK i \in Ids :
          /\ job.kind = "releasing" /\ job.at = NoId /\ job.todo[i] > 0
          /\ db' = IF i \in Live(db) THEN Raise(db, i, -1) ELSE db
          /\ job' = [job EXCEPT !.at = i, !.todo[i] = @ - 1]
          /\ Touch /\ UNCHANGED <<wrote, builder, crashes, trusted>>
    BY <1>3 DEF ReleaseOne
  <2>2. Sound(db, NoId, wrote) /\ db \in Stored /\ job \in Releasing
    BY <1>1, <2>1, FreeIsSound, JobKinds DEF Types
  <2>3. /\ db' \in Stored /\ Sound(db', NoId, wrote) /\ db'.pyramid = db.pyramid
    <3>1. CASE i \in Live(db)
      <4>1. db' = [db EXCEPT !.blob[i].refs = db.blob[i].refs + (-1)]
        BY <2>1, <2>2, <3>1, Raised
      <4>2. db.blob[i].refs + (-1) \in Int
        BY <2>2 DEF Stored, Blob
      <4> QED  BY <2>2, <3>1, <4>1, <4>2, CountsSound
    <3>2. CASE i \notin Live(db)
      BY <2>1, <2>2, <3>2
    <3> QED  BY <3>1, <3>2
  <2>4. job' \in Releasing /\ job'.kind = "releasing" /\ job'.sums = job.sums
    <3>1. job.todo \in [Ids -> Nat] /\ job.todo[i] - 1 \in Nat
      BY <2>1, <2>2 DEF Releasing
    <3> DEFINE todo == [job.todo EXCEPT ![i] = job.todo[i] - 1]
    <3>2. todo \in [Ids -> Nat] /\ job' = [job EXCEPT !.at = i, !.todo = todo]
      BY <2>1, <3>1
    <3> HIDE DEF todo
    <3> QED  BY <2>2, <3>2 DEF Releasing
  <2>5. Types'
    BY <1>1, <2>1, <2>3, <2>4, TouchKeepsType DEF Types, Jobs
  <2> QED  BY <1>1, <2>1, <2>3, <2>4, <2>5 DEF BlobsInv, Kept, At, InTransaction
<1>4. CASE ReleaseTwo
  <2> DEFINE i == job.at
             gone == i \in Live(db) /\ db.blob[i].refs <= 0
  <2>1. /\ job.kind = "releasing" /\ i # NoId
        /\ Touch /\ UNCHANGED <<wrote, builder, crashes, trusted>>
        /\ IF gone /\ ~Deletable(db, i) THEN db' = db /\ job' = Idle
           ELSE db' = (IF gone THEN Drop(db, i) ELSE db) /\ job' = [job EXCEPT !.at = NoId]
    BY <1>4 DEF ReleaseTwo
  <2>2. Sound(db, NoId, wrote) /\ db \in Stored /\ job \in Releasing /\ i \in Ids
    BY <1>1, <2>1, FreeIsSound, JobKinds DEF Types, Releasing
  <2>3. /\ db' \in Stored /\ Sound(db', NoId, wrote) /\ db'.pyramid = db.pyramid
    <3> HIDE DEF i
    <3> QED  BY <2>1, <2>2, DropsSound
  <2>4. \/ job' = Idle /\ job'.kind = "idle"
        \/ job' \in Releasing /\ job'.kind = "releasing" /\ job'.sums = job.sums
    BY <2>1, <2>2 DEF Releasing, Idle
  <2>5. Types'
    BY <1>1, <2>1, <2>3, <2>4, TouchKeepsType DEF Types, Jobs
  <2> QED  BY <1>1, <2>1, <2>3, <2>4, <2>5 DEF BlobsInv, Kept, At, InTransaction
<1>5. CASE JobDone
  <2>1. Sound(db, NoId, wrote)
    BY <1>5, FreeIsSound DEF JobDone
  <2>2. Types' /\ job'.kind = "idle"
    BY <1>1, <1>5 DEF Types, Jobs, Idle, JobDone
  <2> QED  BY <1>5, <2>1, <2>2 DEF BlobsInv, Kept, At, InTransaction, JobDone
<1> QED  BY <1>2, <1>3, <1>4, <1>5 DEF Remove

LEMMA MaintainKeeps ==
  ASSUME BlobsInv, Maintain
  PROVE  BlobsInv'
<1>1. Types /\ Kept
  BY DEF BlobsInv
<1>2. CASE ClearPyramids
  <2> DEFINE sums == {c \in Columns : db.pyramid[c] # NoId}
  <2>1. /\ Free /\ UNCHANGED <<db, wrote, builder, report, crashes, trusted>>
        /\ job' = [kind |-> "releasing", todo |-> NoNames, at |-> NoId, sums |-> sums]
    BY <1>2 DEF ClearPyramids
  <2> HIDE DEF sums
  <2>2. Sound(db, NoId, wrote) /\ sums \in SUBSET Columns
    BY <2>1, FreeIsSound DEF sums
  <2>3. job' \in Releasing /\ job'.kind = "releasing" /\ job'.sums = sums
    BY <2>1, <2>2 DEF Releasing, NoNames
  <2>4. Types'
    BY <1>1, <2>1, <2>3 DEF Types, Jobs
  <2> QED  BY <2>1, <2>2, <2>3, <2>4 DEF BlobsInv, Kept, At, InTransaction, sums
<1>3. CASE Unlink
  <2>1. PICK c \in Columns :
          /\ job.kind = "releasing" /\ c \in job.sums
          /\ db' = [db EXCEPT !.pyramid[c] = NoId]
          /\ job' = [job EXCEPT !.todo[db.pyramid[c]] = 1, !.sums = @ \ {c}]
          /\ Touch /\ UNCHANGED <<wrote, builder, crashes, trusted>>
    BY <1>3 DEF Unlink
  <2>2. /\ Sound(db, NoId, wrote) /\ db \in Stored /\ job \in Releasing
        /\ \A x \in job.sums : db.pyramid[x] # NoId
    BY <1>1, <2>1, FreeIsSound, JobKinds DEF Types, Kept
  <2>3. db' \in Stored /\ Sound(db', NoId, wrote)
    BY <2>1, <2>2, UnlinksSound
  <2>4. job' \in Releasing /\ job'.kind = "releasing" /\ job'.sums = job.sums \ {c}
    BY <2>1, <2>2 DEF Releasing
  <2>5. \A x \in job'.sums : db'.pyramid[x] # NoId
    BY <2>1, <2>2, <2>4 DEF Stored, Releasing
  <2>6. Types'
    BY <1>1, <2>1, <2>3, <2>4, TouchKeepsType DEF Types, Jobs
  <2> QED  BY <2>1, <2>3, <2>4, <2>5, <2>6 DEF BlobsInv, Kept, At, InTransaction
<1> QED  BY <1>2, <1>3 DEF Maintain

\* A pyramid filed in one transaction.
LEMMA FiledIsSound ==
  ASSUME NEW d0 \in Stored, NEW w, Sound(d0, NoId, w), Rowid(d0) \in Ids,
         NEW c \in Columns, NEW bytes \in Sums
  PROVE  LET d == Finish([d0 EXCEPT !.blob[Rowid(d0)] = [sum |-> PendingSum, refs |-> 0]],
                         Rowid(d0), bytes)
             i == CHOOSE e \in IdOf(d, bytes) : TRUE
             e == IF Refused(d, c, i) THEN d0 ELSE Link(d, c, i)
         IN e \in Stored /\ Sound(e, NoId, w)
<1> DEFINE n == Rowid(d0)
           b == [d0 EXCEPT !.blob[n] = [sum |-> PendingSum, refs |-> 0]]
           d == Finish(b, n, bytes)
           i == CHOOSE e \in IdOf(d, bytes) : TRUE
           e == IF Refused(d, c, i) THEN d0 ELSE Link(d, c, i)
<1> SUFFICES e \in Stored /\ Sound(e, NoId, w)
  OBVIOUS
<1>1. b \in Stored /\ Sound(b, n, w) /\ n \in Ids
  BY BeginsSound
<1>2. d \in Stored /\ Sound(d, NoId, w) /\ i \in Live(d) /\ i \in Ids
  <2>1. d \in Stored /\ Sound(d, NoId, w) /\ i \in Live(d)
    <3> HIDE DEF n, b
    <3> QED  BY <1>1, FinishesSound
  <2> HIDE DEF n, b, d, i
  <2> QED  BY <2>1 DEF Live
<1> HIDE DEF n, b, d, i
<1>3. CASE Refused(d, c, i)
  BY <1>3
<1>4. CASE ~Refused(d, c, i) /\ d.pyramid[c] = NoId
  <2>1. e = [d EXCEPT !.pyramid[c] = i]
    BY <1>4 DEF Link
  <2> HIDE DEF e
  <2>2. e \in Stored /\ Sound(e, NoId, w)
    BY <1>2, <1>4, <2>1, PyramidNamesSound
  <2> QED  BY <2>2
<1>5. CASE ~Refused(d, c, i) /\ d.pyramid[c] # NoId
  <2> DEFINE r == Raise(d, i, -1)
  <2>1. e = IF r.blob[i].refs <= 0 THEN Drop(r, i) ELSE r
    BY <1>5 DEF Link
  <2>2. /\ r = [d EXCEPT !.blob[i].refs = d.blob[i].refs + (-1)]
        /\ d.blob[i].refs \in Int /\ d.blob[i].refs + (-1) \in Int
    <3>1. d.blob[i].refs \in Int
      BY <1>2 DEF Stored, Blob
    <3>2. r = [d EXCEPT !.blob[i].refs = d.blob[i].refs + (-1)]
      BY <1>2, Raised
    <3> QED  BY <3>1, <3>2
  <2> HIDE DEF r, e
  <2>3. /\ r \in Stored /\ Sound(r, NoId, w) /\ r.row = d.row /\ r.pyramid = d.pyramid
        /\ r.blob[i].refs = d.blob[i].refs + (-1)
    <3> DEFINE m == d.blob[i].refs + (-1)
               f == [d EXCEPT !.blob[i].refs = m]
    <3>1. m \in Int /\ r = f
      BY <2>2
    <3> HIDE DEF m
    <3>2. /\ f \in Stored /\ Sound(f, NoId, w) /\ f.row = d.row /\ f.pyramid = d.pyramid
          /\ f.blob[i].refs = m
      BY <1>2, <3>1, CountsSound
    <3> QED  BY <3>1, <3>2 DEF m
  <2>4. r.blob[i].refs <= 0 => Deletable(r, i)
    <3>1. r.blob[i].refs <= 0 => d.blob[i].refs <= 1
      BY <2>2, <2>3
    <3> QED  BY <1>5, <2>3, <3>1, SameNamed DEF Refused, Deletable
  <2>5. e \in Stored /\ Sound(e, NoId, w)
    BY <1>2, <2>1, <2>3, <2>4, DropsSound
  <2> QED  BY <2>5
<1> QED  BY <1>3, <1>4, <1>5

LEMMA BuildKeeps ==
  ASSUME BlobsInv, Build
  PROVE  BlobsInv'
<1>1. Types /\ Kept
  BY DEF BlobsInv
<1>2. ASSUME NEW b \in Builders,
             (\E i \in Ids : BeginBuild(b, i)) \/ ReadChunk(b) \/ CancelBuild(b)
      PROVE  BlobsInv'
  <2>1. UNCHANGED <<db, job, wrote, report, crashes, trusted>>
    BY <1>2 DEF BeginBuild, ReadChunk, CancelBuild
  <2>2. builder' \in [Builders -> {Idle} \cup BuildJobs]
    <3>1. CASE \E i \in Ids : BeginBuild(b, i)
      BY <1>1, <3>1 DEF BeginBuild, Types, BuildJobs
    <3>2. CASE ReadChunk(b)
      <4> DEFINE found == Committed.blob[builder[b].id].sum
      <4> DEFINE more == [builder[b] EXCEPT !.read = Append(builder[b].read, found)]
      <4> DEFINE next == IF found \in Columns /\ Len(builder[b].read) < Chunks[found]
                         THEN more ELSE Idle
      <4>1. builder[b] # Idle /\ builder' = [builder EXCEPT ![b] = next]
        BY <3>2 DEF ReadChunk
      <4>2. builder[b] \in BuildJobs /\ builder \in [Builders -> {Idle} \cup BuildJobs]
        BY <1>1, <4>1 DEF Types
      <4>3. ASSUME found \in Columns
            PROVE  [builder[b] EXCEPT !.read = Append(builder[b].read, found)] \in BuildJobs
        <5> HIDE DEF found
        <5>1. builder[b].read \in Seq(Columns)
          BY <4>2 DEF BuildJobs
        <5>2. Append(builder[b].read, found) \in Seq(Columns)
          BY <4>3, <5>1
        <5> QED  BY <4>2, <5>2 DEF BuildJobs
      <4>5. next \in {Idle} \cup BuildJobs
        <5>1. found \in Columns => more \in BuildJobs
          BY <4>3
        <5> HIDE DEF more
        <5> QED  BY <5>1
      <4> HIDE DEF next
      <4> QED  BY <4>1, <4>2, <4>5
    <3>3. CASE CancelBuild(b)
      BY <1>1, <3>3 DEF CancelBuild, Types
    <3> QED  BY <1>2, <3>1, <3>2, <3>3
  <2> QED  BY <1>1, <2>1, <2>2 DEF BlobsInv, Types, Kept, At, InTransaction
<1>3. ASSUME NEW b \in Builders, FilePyramid(b) PROVE BlobsInv'
  <2> DEFINE c == builder[b].column
             bytes == builder[b].read
             d == Finish([db EXCEPT !.blob[Rowid(db)] = [sum |-> PendingSum, refs |-> 0]],
                         Rowid(db), bytes)
             i == CHOOSE e \in IdOf(d, bytes) : TRUE
  <2>1. /\ Free /\ builder[b] # Idle /\ Len(bytes) = Chunks[c] /\ Rowid(db) \in Ids
        /\ db' = IF Refused(d, c, i) THEN db ELSE Link(d, c, i)
        /\ builder' = [builder EXCEPT ![b] = Idle]
        /\ Touch /\ UNCHANGED <<job, wrote, crashes, trusted>>
    BY <1>3 DEF FilePyramid
  <2>2. c \in Columns /\ bytes \in Seq(Columns)
    BY <1>1, <2>1 DEF Types, BuildJobs
  <2>3. bytes \in Sums
    <3>1. bytes \in [1 .. Len(bytes) -> Columns]
      BY <2>2
    <3>2. bytes \in [1 .. Chunks[c] -> Columns]
      BY <2>1, <3>1
    <3> HIDE DEF c, bytes
    <3> QED  BY <2>2, <3>2 DEF Sums, Reductions
  <2>4. Sound(db, NoId, wrote) /\ db \in Stored
    BY <1>1, <2>1, FreeIsSound DEF Types
  <2>5. db' \in Stored /\ Sound(db', NoId, wrote)
    <3> HIDE DEF c, bytes
    <3> QED  BY <2>1, <2>2, <2>3, <2>4, FiledIsSound
  <2> HIDE DEF c, bytes, d, i
  <2>6. builder' \in [Builders -> {Idle} \cup BuildJobs]
    BY <1>1, <2>1 DEF Types
  <2>7. job'.kind = "idle"
    BY <1>1, <2>1, JobKinds
  <2>8. Types'
    BY <1>1, <2>1, <2>5, <2>6, TouchKeepsType DEF Types
  <2> QED  BY <2>1, <2>5, <2>7, <2>8 DEF BlobsInv, Kept, At, InTransaction
<1> QED  BY <1>2, <1>3 DEF Build

\* What a report says is of its type.
LEMMA CountsAreTyped ==
  ASSUME NEW d
  PROVE  /\ [i \in Ids |-> Cardinality({r \in Rows : d.row[r] = i})] \in [Ids -> Nat]
         /\ \A i \in Ids : Cardinality({c \in Columns : d.pyramid[c] = i}) \in Nat
<1>1. ASSUME NEW i \in Ids
      PROVE  /\ Cardinality({r \in Rows : d.row[r] = i}) \in Nat
             /\ Cardinality({c \in Columns : d.pyramid[c] = i}) \in Nat
  <2>1. Uses(d.row, Rows, i) \in Nat /\ Uses(d.pyramid, Columns, i) \in Nat
    BY NamedIsUsed
  <2> QED  BY <2>1 DEF Uses
<1> QED  BY <1>1

LEMMA VerifyKeeps ==
  ASSUME BlobsInv, Verify
  PROVE  BlobsInv'
<1>1. Types /\ Kept
  BY DEF BlobsInv
<1>2. UNCHANGED <<db, job, wrote, builder, crashes, trusted>>
  BY DEF Verify, VerifyRows, VerifyPyramids, VerifyBlobs
<1>3. report' \in Reports
  <2>1. CASE VerifyRows
    BY <2>1, CountsAreTyped DEF VerifyRows, Reports
  <2>2. CASE VerifyPyramids
    <3>1. report \in Reports
      BY <1>1, <2>2 DEF VerifyPyramids, Types, Idle
    <3> DEFINE found == [i \in Ids |-> report.found[i]
                           + Cardinality({c \in Columns : Committed.pyramid[c] = i})]
    <3>2. report' = [report EXCEPT !.at = "blobs", !.found = found]
      BY <2>2 DEF VerifyPyramids
    <3>3. \A i \in Ids : /\ report.found[i] \in Nat
                         /\ Cardinality({c \in Columns : Committed.pyramid[c] = i}) \in Nat
      BY <3>1, CountsAreTyped DEF Reports
    <3>4. found \in [Ids -> Nat]
      BY <3>3
    <3> HIDE DEF found
    <3> QED  BY <3>1, <3>2, <3>4 DEF Reports
  <2>3. CASE VerifyBlobs
    <3>1. report \in Reports
      BY <1>1, <2>3 DEF VerifyBlobs, Types, Idle
    <3>2. Wrong(Committed, report.found) \subseteq Ids /\ Loose(Committed, report.found) \subseteq Ids
      BY DEF Wrong, Loose, Live
    <3> QED  BY <2>3, <3>1, <3>2 DEF VerifyBlobs, Reports
  <2> QED  BY <2>1, <2>2, <2>3 DEF Verify
<1> QED  BY <1>1, <1>2, <1>3 DEF BlobsInv, Types, Kept, At, InTransaction

LEMMA RepairKeeps ==
  ASSUME BlobsInv, Repair
  PROVE  BlobsInv'
<1>1. Types /\ Kept
  BY DEF BlobsInv
<1>2. CASE BeginRepair
  <2>1. Sound(db, NoId, wrote) /\ report \in Reports
    BY <1>1, <1>2, FreeIsSound DEF BeginRepair, Types, Idle
  <2>2. job' \in Repairing /\ job'.kind = "repairing"
    BY <1>2, <2>1 DEF BeginRepair, Repairing, Reports
  <2>3. Types'
    BY <1>1, <1>2, <2>1, <2>2 DEF BeginRepair, Types, Jobs, Reports
  <2> QED  BY <1>2, <2>1, <2>2, <2>3 DEF BeginRepair, BlobsInv, Kept, At, InTransaction
<1>3. CASE RepairCount
  <2>1. PICK i \in job.wrong :
          /\ job.kind = "repairing"
          /\ db' = IF i \in Live(db) THEN [db EXCEPT !.blob[i].refs = job.found[i]] ELSE db
          /\ job' = [job EXCEPT !.wrong = @ \ {i}]
          /\ Touch /\ UNCHANGED <<wrote, builder, crashes, trusted>>
    BY <1>3 DEF RepairCount
  <2>2. Sound(db, NoId, wrote) /\ db \in Stored /\ job \in Repairing /\ job.found[i] \in Int
    BY <1>1, <2>1, FreeIsSound, JobKinds DEF Types, Repairing
  <2>3. db' \in Stored /\ Sound(db', NoId, wrote)
    BY <2>1, <2>2, CountsSound
  <2>4. job' \in Repairing /\ job'.kind = "repairing"
    BY <2>1, <2>2 DEF Repairing
  <2>5. Types'
    BY <1>1, <2>1, <2>3, <2>4, TouchKeepsType DEF Types, Jobs
  <2> QED  BY <2>1, <2>3, <2>4, <2>5 DEF BlobsInv, Kept, At, InTransaction
<1>4. CASE RepairBlob
  <2>1. PICK i \in job.loose :
          /\ job.kind = "repairing" /\ Touch /\ UNCHANGED <<wrote, builder, crashes, trusted>>
          /\ IF i \in Live(db) /\ ~Deletable(db, i) THEN db' = db /\ job' = Idle
             ELSE db' = Drop(db, i) /\ job' = [job EXCEPT !.loose = @ \ {i}]
    BY <1>4 DEF RepairBlob
  <2>2. Sound(db, NoId, wrote) /\ db \in Stored /\ job \in Repairing /\ i \in Ids
    BY <1>1, <2>1, FreeIsSound, JobKinds DEF Types, Repairing
  <2>3. Deletable(db, i) \/ i \in Live(db)
    <3>1. i # NoId
      BY <2>2, NoIdIsNoId
    <3>2. i \notin Live(db) => (\A r \in Rows : db.row[r] # i)
                               /\ (\A c \in Columns : db.pyramid[c] # i)
      BY <2>2, <3>1 DEF Sound
    <3> QED  BY <3>2, UnnamedIsZero DEF Deletable
  <2>4. db' \in Stored /\ Sound(db', NoId, wrote)
    BY <2>1, <2>2, <2>3, DropsSound
  <2>5. \/ job' = Idle /\ job'.kind = "idle"
        \/ job' \in Repairing /\ job'.kind = "repairing"
    BY <2>1, <2>2 DEF Repairing, Idle
  <2>6. Types'
    BY <1>1, <2>1, <2>4, <2>5, TouchKeepsType DEF Types, Jobs
  <2> QED  BY <2>1, <2>4, <2>5, <2>6 DEF BlobsInv, Kept, At, InTransaction
<1>5. CASE RepairDone
  <2>1. Sound(db, NoId, wrote)
    BY <1>5, FreeIsSound DEF RepairDone
  <2>2. Types' /\ job'.kind = "idle"
    BY <1>1, <1>5 DEF Types, Jobs, Idle, RepairDone
  <2> QED  BY <1>5, <2>1, <2>2 DEF BlobsInv, Kept, At, InTransaction, RepairDone
<1> QED  BY <1>2, <1>3, <1>4, <1>5 DEF Repair

LEMMA CrashKeeps ==
  ASSUME BlobsInv, Crash
  PROVE  BlobsInv'
<1>1. Types /\ Kept
  BY DEF BlobsInv
<1>2. /\ job' = Idle /\ job'.kind = "idle" /\ report' = Idle /\ trusted' = trusted
      /\ builder' = [b \in Builders |-> Idle]
      /\ db' = Committed /\ wrote' = IF InTransaction THEN job.before ELSE wrote
  BY DEF Crash, Idle
<1>3. crashes' \in 0 .. MaxCrashes
  BY <1>1, BlobsAssumption DEF Crash, Types
<1>4. db' \in Stored /\ wrote' \in Written /\ Sound(db', NoId, wrote')
  <2>1. CASE InTransaction
    BY <1>1, <1>2, <2>1, JobKinds DEF Committed, Kept, InTransaction, Storing
  <2>2. CASE ~InTransaction
    BY <1>1, <1>2, <2>2 DEF Committed, Kept, Types, At
  <2> QED  BY <2>1, <2>2
<1>5. Types'
  BY <1>2, <1>3, <1>4, <1>1 DEF Types, Jobs
<1> QED  BY <1>2, <1>4, <1>5 DEF BlobsInv, Kept, At, InTransaction

LEMMA BlobsInvStep ==
  ASSUME BlobsInv, [BlobsNext]_blobVars
  PROVE  BlobsInv'
<1>1. CASE UNCHANGED blobVars
  BY <1>1 DEF blobVars, BlobsInv, Types, Kept, At, InTransaction
<1> QED  BY <1>1, StoreKeeps, RemoveKeeps, MaintainKeeps, BuildKeeps, VerifyKeeps,
            RepairKeeps, CrashKeeps DEF BlobsNext

\* The invariant the other theorems rest on.
THEOREM BlobsInvariant == BlobsSpec => []BlobsInv
<1>1. BlobsInit => BlobsInv
  BY BlobsInvInit
<1>2. BlobsInv /\ [BlobsNext]_blobVars => BlobsInv'
  BY BlobsInvStep
<1> QED  BY <1>1, <1>2, PTL DEF BlobsSpec

\* Whatever is deleted, repaired from an old report or cut short, and although ids are given
\* out again, a row names the blob that holds what the row was written with.
THEOREM RowsKeepTheirContent == BlobsSpec => []RowsReadBack
<1>1. BlobsInv => RowsReadBack
  BY DEF BlobsInv, Kept, Sound, RowsReadBack
<1>2. BlobsSpec => []BlobsInv
  BY BlobsInvariant
<1> QED  BY <1>1, <1>2, PTL

\* Stored keep their types, and readers never see a blob that is still being written, or two of
\* one content.
THEOREM BlobsAreTyped == BlobsSpec => []BlobsTypeOK
<1>1. ASSUME BlobsInv PROVE BlobsTypeOK
  <2>1. PICK w : Sound(Committed, NoId, w)
    BY <1>1, CommittedIsSound
  <2>2. ASSUME NEW i \in Live(Committed)
        PROVE  /\ Committed.blob[i].sum # PendingSum
               /\ IdOf(Committed, Committed.blob[i].sum) = {i}
    <3>1. i \in Ids /\ i # NoId
      BY NoIdIsNoId DEF Live
    <3>2. Committed.blob[i].sum \in Sums
      BY <2>1, <3>1 DEF Sound
    <3>3. \A j \in Live(Committed) : Committed.blob[j].sum = Committed.blob[i].sum => j = i
      BY <2>1 DEF Sound
    <3> QED  BY <3>2, <3>3, NullsDiffer DEF IdOf
  <2>3. db \in Stored /\ crashes \in 0 .. MaxCrashes /\ trusted \in BOOLEAN
    BY <1>1 DEF BlobsInv, Types
  <2> QED  BY <2>2, <2>3 DEF BlobsTypeOK, Stored, Blob, Sums
<1>2. BlobsInv => BlobsTypeOK
  BY <1>1
<1>3. BlobsSpec => []BlobsInv
  BY BlobsInvariant
<1> QED  BY <1>2, <1>3, PTL


-----------------------------------------------------------------------------
(* The invariant: counts *)

\* By how much a count is above what is named, and what the job under way has yet to release.
Over(d, i) == d.blob[i].refs - Named(d, i)
Due(i) == IF job.kind = "releasing" THEN job.todo[i] ELSE 0
Balance(i) == Over(db, i) - Due(i)
Full(d, but) == \A i \in Live(d) \ {but} : d.blob[i].refs > 0
\* The blob that is written now, or whose count was lowered and not looked at yet.
Doing == IF job.kind \in {"storing", "releasing"} THEN job.at ELSE NoId

\* A crash may leave a count too high, never too low.
Fair(n) == n >= 0 /\ (crashes = 0 => n = 0)
Accounts == trusted => \A i \in Ids : /\ Fair(Balance(i))
                                      /\ InTransaction => Fair(Over(job.saved, i))
Fulls == trusted /\ crashes = 0 => /\ Full(db, Doing)
                                   /\ InTransaction => Full(job.saved, NoId)
\* A report nobody wrote after tells what readers see.
Tells == \/ /\ report.at = "pyramids"
            /\ \A i \in Ids : report.found[i] = Uses(Committed.row, Rows, i)
         \/ /\ report.at # "pyramids"
            /\ \A i \in Ids : report.found[i] = Named(Committed, i)
            /\ report.at = "end" => /\ report.wrong = Wrong(Committed, report.found)
                                    /\ report.loose = Loose(Committed, report.found)
Reported == report # Idle => /\ report.kind = "verified" => report.at = "end"
                             /\ report.stale \/ Tells
\* What a repair from such a report has not mended yet is in its lists.
Mends == job.kind = "repairing" /\ trusted =>
  /\ \A i \in Ids : job.found[i] = Named(db, i)
  /\ \A i \in job.wrong : job.found[i] # 0
  /\ \A i \in job.loose : job.found[i] = 0
  /\ \A i \in Live(db) \ (job.wrong \cup job.loose) :
       db.blob[i].refs = Named(db, i) /\ db.blob[i].refs > 0
CountsInv == Accounts /\ Fulls /\ Reported /\ Mends

LEMMA OverIsInt ==
  ASSUME NEW d \in Stored, NEW i \in Ids
  PROVE  /\ Over(d, i) \in Int /\ d.blob[i].refs \in Int /\ Named(d, i) \in Nat
         /\ Over(d, i) = d.blob[i].refs - Named(d, i)
         /\ i \notin Live(d) => d.blob[i].refs = 0
<1>1. d.blob[i].refs \in Int
  BY DEF Stored, Blob
<1>2. i \notin Live(d) => d.blob[i].refs = 0
  BY DEF Live, NoBlob
<1> QED  BY <1>1, <1>2, NamedIsUsed DEF Over

LEMMA DueIsNat ==
  ASSUME Types, NEW i \in Ids
  PROVE  Due(i) \in Nat
BY JobKinds DEF Due, Releasing

\* What is not there is named by nothing.
LEMMA AbsentIsUnnamed ==
  ASSUME NEW d, NEW at, NEW w, Sound(d, at, w), NEW i \in Ids, i \notin Live(d)
  PROVE  Named(d, i) = 0
<1>1. i # NoId
  BY NoIdIsNoId
<1>2. (\A r \in Rows : d.row[r] # i) /\ (\A c \in Columns : d.pyramid[c] # i)
  BY <1>1 DEF Sound
<1> QED  BY <1>2, UnnamedIsZero

\* A write whose references and names move together.
LEMMA EvenKeeps ==
  ASSUME Accounts, trusted' = trusted, crashes' = crashes,
         trusted => \A i \in Ids : Balance(i)' = Balance(i),
         trusted /\ InTransaction' => \A i \in Ids :
           \/ InTransaction /\ Over(job.saved, i)' = Over(job.saved, i)
           \/ Over(job.saved, i)' = Balance(i)
  PROVE  Accounts'
BY DEF Accounts, Fair

LEMMA ReportHolds ==
  ASSUME Types, Reported, Touch \/ (report' = report /\ Committed' = Committed)
  PROVE  Reported'
<1>1. CASE report' = report /\ Committed' = Committed
  <2>1. Tells => Tells'
    BY <1>1 DEF Tells
  <2> QED  BY <1>1, <2>1 DEF Reported
<1>2. CASE Touch /\ Committed' # Committed /\ report # Idle
  <2>1. report \in Reports /\ report' = [report EXCEPT !.stale = TRUE]
    BY <1>2 DEF Touch, Types
  <2>2. report'.stale /\ report'.kind = report.kind /\ report'.at = report.at
    BY <2>1 DEF Reports
  <2> QED  BY <1>2, <2>2 DEF Reported
<1>3. CASE Touch /\ ~(Committed' # Committed /\ report # Idle)
  <2>1. report' = report
    BY <1>3 DEF Touch
  <2>2. CASE report = Idle
    BY <2>1, <2>2 DEF Reported
  <2>3. CASE Committed' = Committed
    BY <1>1, <2>1, <2>3
  <2> QED  BY <1>3, <2>2, <2>3
<1> QED  BY <1>1, <1>2, <1>3

LEMMA CountsInit == BlobsInit => CountsInv
<1> SUFFICES ASSUME BlobsInit PROVE CountsInv
  OBVIOUS
<1>1. /\ db.row = [r \in Rows |-> NoId] /\ db.pyramid = [c \in Columns |-> NoId]
      /\ db.blob = [i \in Ids |-> NoBlob]
  BY DEF BlobsInit
<1>2. job.kind = "idle" /\ report = Idle
  BY DEF BlobsInit, Idle
<1>3. ASSUME NEW i \in Ids PROVE Balance(i) = 0
  <2>1. i # NoId
    BY NoIdIsNoId
  <2>2. Named(db, i) = 0
    BY <1>1, <2>1, UnnamedIsZero
  <2>3. db.blob[i].refs = 0
    BY <1>1 DEF NoBlob
  <2> QED  BY <1>2, <2>2, <2>3 DEF Balance, Over, Due
<1>4. Live(db) = {}
  BY <1>1 DEF Live
<1> QED  BY <1>2, <1>3, <1>4
         DEF CountsInv, Accounts, Fair, Fulls, Full, Reported, Mends, InTransaction

\* A pyramid filed: what is counted once more is named once more.
LEMMA FiledIsEven ==
  ASSUME NEW d0 \in Stored, NEW w, Sound(d0, NoId, w), Rowid(d0) \in Ids,
         NEW c \in Columns, NEW bytes \in Sums, \A k \in Ids : Over(d0, k) >= 0
  PROVE  LET d == Finish([d0 EXCEPT !.blob[Rowid(d0)] = [sum |-> PendingSum, refs |-> 0]],
                         Rowid(d0), bytes)
             i == CHOOSE e \in IdOf(d, bytes) : TRUE
             e == IF Refused(d, c, i) THEN d0 ELSE Link(d, c, i)
         IN /\ \A k \in Ids : Over(e, k) = Over(d0, k)
            /\ Full(d0, NoId) => Full(e, NoId)
<1> DEFINE n == Rowid(d0)
           b == [d0 EXCEPT !.blob[n] = [sum |-> PendingSum, refs |-> 0]]
           d == Finish(b, n, bytes)
           i == CHOOSE e \in IdOf(d, bytes) : TRUE
           e == IF Refused(d, c, i) THEN d0 ELSE Link(d, c, i)
<1> SUFFICES (\A k \in Ids : Over(e, k) = Over(d0, k)) /\ (Full(d0, NoId) => Full(e, NoId))
  OBVIOUS
<1>1. /\ b \in Stored /\ Sound(b, n, w) /\ n \in Ids /\ b.row = d0.row /\ b.pyramid = d0.pyramid
      /\ \A k \in Ids : b.blob[k].refs = d0.blob[k].refs
      /\ Live(b) \ {n} = Live(d0)
  BY BeginsSound
<1>2. /\ d \in Stored /\ Sound(d, NoId, w) /\ i \in Live(d) /\ d.row = b.row /\ d.pyramid = b.pyramid
      /\ \A k \in Ids : d.blob[k].refs = b.blob[k].refs + (IF k = i THEN 1 ELSE 0)
      /\ Live(d) \subseteq (Live(b) \ {n}) \cup {i}
  <2> HIDE DEF n, b
  <2> QED  BY <1>1, FinishesSound
<1> HIDE DEF n, b, d, i
<1>3. i \in Ids /\ i # NoId /\ NoId \notin Ids /\ Live(d) \subseteq Ids /\ Live(d0) \subseteq Ids
  BY <1>2, NoIdIsNoId DEF Live
<1>4. \A k \in Ids : /\ Named(d, k) = Named(d0, k)
                     /\ d.blob[k].refs = d0.blob[k].refs + (IF k = i THEN 1 ELSE 0)
  BY <1>1, <1>2, SameNamed
<1>5. Full(d0, NoId) => Full(d, NoId)
  <2>1. ASSUME Full(d0, NoId), NEW k \in Live(d) PROVE d.blob[k].refs > 0
    <3>1. k \in Ids /\ d0.blob[k].refs \in Int /\ (k \notin Live(d0) => d0.blob[k].refs = 0)
      BY <1>3, OverIsInt
    <3>2. k \in Live(d0) => d0.blob[k].refs > 0
      BY <1>3, <2>1 DEF Full
    <3>3. k \in Live(d0) \/ k = i
      BY <1>1, <1>2
    <3> QED  BY <1>4, <3>1, <3>2, <3>3
  <2> QED  BY <2>1 DEF Full
<1>6. CASE Refused(d, c, i)
  BY <1>6
<1>7. CASE ~Refused(d, c, i) /\ d.pyramid[c] = NoId
  <2>1. e = [d EXCEPT !.pyramid[c] = i]
    BY <1>7 DEF Link
  <2> HIDE DEF e
  <2>2. /\ e.blob = d.blob
        /\ \A k \in Ids : Named(e, k) = Named(d, k) + (IF k = i THEN 1 ELSE 0)
    BY <1>2, <1>7, <2>1, PyramidNamesSound
  <2>3. ASSUME NEW k \in Ids PROVE Over(e, k) = Over(d0, k)
    <3>1. d0.blob[k].refs \in Int /\ Named(d0, k) \in Nat
      BY OverIsInt
    <3> QED  BY <1>4, <2>2, <3>1 DEF Over
  <2>4. Full(d, NoId) => Full(e, NoId)
    BY <2>2 DEF Full, Live
  <2> QED  BY <1>5, <2>3, <2>4
<1>8. CASE ~Refused(d, c, i) /\ d.pyramid[c] # NoId
  <2> DEFINE r == Raise(d, i, -1)
  <2>1. e = IF r.blob[i].refs <= 0 THEN Drop(r, i) ELSE r
    BY <1>8 DEF Link
  <2>2. /\ r = [d EXCEPT !.blob[i].refs = d.blob[i].refs + (-1)]
        /\ d.blob[i].refs \in Int /\ d.blob[i].refs + (-1) \in Int
    <3>1. d.blob[i].refs \in Int
      BY <1>2, <1>3 DEF Stored, Blob
    <3>2. r = [d EXCEPT !.blob[i].refs = d.blob[i].refs + (-1)]
      BY <1>2, <1>3, Raised
    <3> QED  BY <3>1, <3>2
  <2> HIDE DEF r, e
  <2>3. /\ r \in Stored /\ Sound(r, NoId, w) /\ r.row = d.row /\ r.pyramid = d.pyramid
        /\ Live(r) = Live(d)
        /\ \A k \in Ids : r.blob[k].refs = (IF k = i THEN d.blob[i].refs + (-1) ELSE d.blob[k].refs)
    <3> DEFINE m == d.blob[i].refs + (-1)
               f == [d EXCEPT !.blob[i].refs = m]
    <3>1. m \in Int /\ r = f
      BY <2>2
    <3> HIDE DEF m
    <3>2. /\ f \in Stored /\ Sound(f, NoId, w) /\ f.row = d.row /\ f.pyramid = d.pyramid
          /\ Live(f) = Live(d)
          /\ \A k \in Ids : f.blob[k].refs = (IF k = i THEN m ELSE d.blob[k].refs)
      BY <1>2, <3>1, CountsSound
    <3> QED  BY <3>1, <3>2 DEF m
  <2>4. ASSUME NEW k \in Ids
        PROVE  /\ Over(r, k) = Over(d0, k) /\ r.blob[k].refs = d0.blob[k].refs
               /\ Named(r, k) = Named(d0, k) /\ r.blob[k].refs \in Int
    <3>1. d0.blob[k].refs \in Int /\ Named(d0, k) \in Nat
      BY OverIsInt
    <3>2. Named(r, k) = Named(d0, k)
      BY <1>4, <2>3, SameNamed
    <3>3. r.blob[k].refs = d0.blob[k].refs
      BY <1>3, <1>4, <2>3, <3>1
    <3> QED  BY <3>1, <3>2, <3>3 DEF Over
  <2>5. CASE r.blob[i].refs > 0
    <3>1. e = r
      BY <1>3, <2>1, <2>4, <2>5
    <3>2. Full(d, NoId) => Full(r, NoId)
      <4>1. ASSUME Full(d, NoId), NEW k \in Live(r) PROVE r.blob[k].refs > 0
        BY <1>3, <2>3, <2>5, <4>1 DEF Full
      <4> QED  BY <4>1 DEF Full
    <3> QED  BY <1>5, <2>4, <3>1, <3>2
  <2>6. CASE r.blob[i].refs <= 0
    <3>1. e = Drop(r, i)
      BY <2>1, <2>6
    <3>2. r.blob[i].refs = 0 /\ Named(r, i) = 0
      <4>1. Over(d0, i) >= 0 /\ Over(d0, i) = d0.blob[i].refs - Named(d0, i)
            /\ d0.blob[i].refs \in Int /\ Named(d0, i) \in Nat
        BY <1>3, OverIsInt
      <4> QED  BY <1>3, <2>4, <2>6, <4>1
    <3>3. /\ e.row = r.row /\ e.pyramid = r.pyramid /\ Live(e) = Live(r) \ {i}
          /\ e.blob[i].refs = 0 /\ \A k \in Ids \ {i} : e.blob[k] = r.blob[k]
      BY <1>3, <2>3, <3>1, <3>2, DropsSound DEF Deletable
    <3>4. \A k \in Ids : Named(e, k) = Named(r, k) /\ e.blob[k].refs = r.blob[k].refs
      BY <3>2, <3>3, SameNamed
    <3>5. \A k \in Ids : Over(e, k) = Over(d0, k)
      BY <2>4, <3>4 DEF Over
    <3>6. Full(d, NoId) => Full(e, NoId)
      BY <1>3, <2>3, <3>3 DEF Full
    <3> QED  BY <1>5, <3>5, <3>6
  <2> QED  BY <1>3, <2>4, <2>5, <2>6
<1> QED  BY <1>6, <1>7, <1>8

\* One transaction: a row takes over the reference its column was counted for.
LEMMA StoreCounts ==
  ASSUME BlobsInv, CountsInv, Store
  PROVE  CountsInv'
<1>1. Types /\ Kept /\ Accounts /\ Fulls /\ Reported
  BY DEF BlobsInv, CountsInv
<1>2. ASSUME NEW o \in Owners, BeginStore(o) PROVE CountsInv'
  <2>1. /\ Free /\ job.kind = "idle" /\ At = NoId /\ ~InTransaction
        /\ job'.kind = "storing" /\ job'.at = NoId /\ job'.saved = db
        /\ UNCHANGED <<db, report, crashes, trusted>>
    BY <1>1, <1>2, JobKinds DEF BeginStore, At, InTransaction
  <2>2. \A i \in Ids : Balance(i) = Over(db, i) - 0 /\ Over(db, i) \in Int
    BY <1>1, <2>1, OverIsInt DEF Balance, Due, Types
  <2>3. \A i \in Ids : Balance(i)' = Over(db, i) - 0 /\ Over(job.saved, i)' = Over(db, i)
    BY <2>1 DEF Balance, Due, Over, Named
  <2>4. Accounts'
    BY <1>1, <2>1, <2>2, <2>3, EvenKeeps
  <2>5. Fulls'
    BY <1>1, <2>1 DEF Fulls, Full, Doing, Live
  <2>6. Reported'
    BY <1>1, <2>1, ReportHolds DEF Committed, InTransaction
  <2> QED  BY <2>1, <2>4, <2>5, <2>6 DEF CountsInv, Mends
<1>3. CASE BeginColumn
  <2> DEFINE i == Rowid(db)
  <2>1. /\ InTransaction /\ job \in Storing /\ job.at = NoId /\ i \in Ids
        /\ job' = [job EXCEPT !.at = i]
        /\ db' = [db EXCEPT !.blob[i] = [sum |-> PendingSum, refs |-> 0]]
        /\ UNCHANGED <<report, crashes, trusted>>
    BY <1>1, <1>3, JobKinds DEF BeginColumn, InTransaction
  <2>2. /\ db'.row = db.row /\ db'.pyramid = db.pyramid
        /\ \A j \in Ids : db'.blob[j].refs = db.blob[j].refs
        /\ Live(db') \ {i} = Live(db)
    BY <1>1, <2>1, BeginsSound DEF Types, Kept, At
  <2>3. job'.kind = "storing" /\ job'.at = i /\ job'.saved = job.saved
    BY <2>1 DEF Storing
  <2> HIDE DEF i
  <2>4. \A j \in Ids : Balance(j)' = Balance(j)
    <3>1. \A j \in Ids : Over(db', j) = Over(db, j)
      BY <2>2, SameNamed DEF Over
    <3> QED  BY <2>1, <2>3, <3>1 DEF Balance, Due, InTransaction
  <2>5. \A j \in Ids : Over(job.saved, j)' = Over(job.saved, j)
    BY <2>3
  <2>6. Accounts'
    BY <1>1, <2>1, <2>4, <2>5, EvenKeeps
  <2>7. Full(db, NoId) => Full(db', i)
    BY <2>2, NoIdIsNoId DEF Full, Live
  <2>8. Fulls'
    BY <1>1, <2>1, <2>3, <2>7 DEF Fulls, Doing, InTransaction
  <2>9. Reported'
    BY <1>1, <2>1, <2>3, ReportHolds DEF Committed, InTransaction
  <2> QED  BY <2>3, <2>6, <2>8, <2>9 DEF CountsInv, Mends
<1>4. CASE EndColumn
  <2> DEFINE i == job.at
  <2>1. PICK c \in Columns, s \in Slots :
          /\ InTransaction /\ i # NoId /\ db.row[<<job.owner, s>>] = NoId
          /\ LET d == Finish(db, i, c)
             IN db' = [d EXCEPT !.row[<<job.owner, s>>] = CHOOSE k \in IdOf(d, c) : TRUE]
          /\ job' = [job EXCEPT !.at = NoId]
          /\ UNCHANGED <<builder, report, crashes, trusted>>
    BY <1>4 DEF EndColumn
  <2> DEFINE d == Finish(db, i, c)
             r == <<job.owner, s>>
             t == CHOOSE k \in IdOf(d, c) : TRUE
  <2>2. job \in Storing /\ i \in Ids /\ r \in Rows /\ c \in Sums
    BY <1>1, <2>1, JobKinds DEF InTransaction, Storing, Rows, Sums
  <2>3. Sound(db, i, wrote) /\ db \in Stored /\ wrote \in Written
    BY <1>1, <2>1 DEF Types, Kept, At
  <2>4. /\ d \in Stored /\ Sound(d, NoId, wrote) /\ d.row = db.row /\ d.pyramid = db.pyramid
        /\ t \in Live(d) /\ d.blob[t].sum = c
        /\ \A j \in Ids : d.blob[j].refs = db.blob[j].refs + (IF j = t THEN 1 ELSE 0)
        /\ Live(d) \subseteq (Live(db) \ {i}) \cup {t}
    <3> HIDE DEF i
    <3> QED  BY <2>2, <2>3, FinishesSound
  <2>5. db' = [d EXCEPT !.row[r] = t] /\ d.row[r] = NoId
    BY <2>1, <2>4
  <2>6. job'.kind = "storing" /\ job'.at = NoId /\ job'.saved = job.saved
    BY <2>1, <2>2 DEF Storing
  <2>7. Doing = i
    BY <2>1 DEF Doing, InTransaction
  <2> HIDE DEF d, r, t, i
  <2>8. /\ db'.blob = d.blob
        /\ \A j \in Ids : Named(db', j) = Named(d, j) + (IF j = t THEN 1 ELSE 0)
    <3> DEFINE e == [d EXCEPT !.row[r] = t]
    <3>1. e.blob = d.blob /\ \A j \in Ids : Named(e, j) = Named(d, j) + (IF j = t THEN 1 ELSE 0)
      BY <2>2, <2>3, <2>4, <2>5, RowNamesSound
    <3> QED  BY <2>5, <3>1
  <2>9. \A j \in Ids : Balance(j)' = Balance(j)
    <3>1. ASSUME NEW j \in Ids PROVE Over(db', j) = Over(db, j)
      <4>1. db.blob[j].refs \in Int /\ Named(db, j) \in Nat /\ Named(d, j) = Named(db, j)
        BY <2>3, <2>4, OverIsInt, SameNamed
      <4> QED  BY <2>4, <2>8, <4>1 DEF Over
    <3> QED  BY <2>1, <2>6, <3>1 DEF Balance, Due, InTransaction
  <2>10. \A j \in Ids : Over(job.saved, j)' = Over(job.saved, j)
    BY <2>6
  <2>11. Accounts'
    BY <1>1, <2>1, <2>9, <2>10, EvenKeeps
  <2>12. Full(db, i) => Full(db', NoId)
    <3>1. ASSUME Full(db, i), NEW j \in Live(db') PROVE db'.blob[j].refs > 0
      <4>1. j \in Ids /\ j \in Live(d) /\ db'.blob[j] = d.blob[j]
        BY <2>8 DEF Live
      <4>2. j \in Live(db) \ {i} => db.blob[j].refs > 0
        BY <3>1 DEF Full
      <4>3. j \notin Live(db) \ {i} => j = t
        BY <2>4, <4>1
      <4>4. db.blob[j].refs \in Int /\ (j \notin Live(db) => db.blob[j].refs = 0)
        BY <2>3, <4>1, OverIsInt
      <4>5. j = i => db.blob[j].refs = 0
        BY <2>2, <2>3, NoIdIsNoId DEF Sound, Pending
      <4> QED  BY <2>4, <4>1, <4>2, <4>3, <4>4, <4>5
    <3> QED  BY <3>1 DEF Full
  <2>13. Fulls'
    BY <1>1, <2>1, <2>6, <2>7, <2>12 DEF Fulls, Doing, InTransaction
  <2>14. Reported'
    BY <1>1, <2>1, <2>6, ReportHolds DEF Committed, InTransaction
  <2> QED  BY <2>6, <2>11, <2>13, <2>14 DEF CountsInv, Mends
<1>5. CASE Commit
  <2>1. /\ InTransaction /\ job.at = NoId /\ job'.kind = "idle" /\ Touch
        /\ UNCHANGED <<db, crashes, trusted>>
    BY <1>5 DEF Commit, Idle
  <2>2. \A i \in Ids : Balance(i)' = Balance(i)
    BY <2>1 DEF Balance, Due, Over, InTransaction, Named
  <2>3. Accounts'
    BY <1>1, <2>1, <2>2, EvenKeeps DEF InTransaction
  <2>4. Fulls'
    BY <1>1, <2>1 DEF Fulls, Full, Doing, Live, InTransaction
  <2>5. Reported'
    BY <1>1, <2>1, ReportHolds
  <2> QED  BY <2>1, <2>3, <2>4, <2>5 DEF CountsInv, Mends
<1>6. CASE Rollback
  <2>1. /\ InTransaction /\ db' = job.saved /\ job'.kind = "idle"
        /\ UNCHANGED <<report, crashes, trusted>> /\ job \in Storing
    BY <1>1, <1>6, JobKinds DEF Rollback, InTransaction, Idle
  <2>2. \A i \in Ids : Balance(i)' = Over(job.saved, i) - 0 /\ Over(job.saved, i) \in Int
    BY <2>1, OverIsInt DEF Balance, Due, Over, Storing, Named
  <2>3. Accounts'
    BY <1>1, <2>1, <2>2 DEF Accounts, Fair, InTransaction
  <2>4. Fulls'
    BY <1>1, <2>1 DEF Fulls, Full, Doing, Live, InTransaction
  <2>5. Reported'
    BY <1>1, <2>1, ReportHolds DEF Committed, InTransaction
  <2> QED  BY <2>1, <2>3, <2>4, <2>5 DEF CountsInv, Mends
<1> QED  BY <1>2, <1>3, <1>4, <1>5, <1>6 DEF Store

\* Releases: what an owner named is taken from the counts one at a time.
LEMMA RemoveCounts ==
  ASSUME BlobsInv, CountsInv, Remove
  PROVE  CountsInv'
<1>1. Types /\ Kept /\ Accounts /\ Fulls /\ Reported
  BY DEF BlobsInv, CountsInv
<1>2. ASSUME NEW o \in Owners, DeleteOwner(o) PROVE CountsInv'
  <2> DEFINE P == Owned(o)
  <2>1. /\ Free /\ P \in SUBSET Rows /\ Touch /\ UNCHANGED <<crashes, trusted>>
        /\ db' = [db EXCEPT !.row = [r \in Rows |-> IF r \in P THEN NoId ELSE @[r]]]
        /\ job' = [kind |-> "releasing", at |-> NoId, sums |-> {},
                   todo |-> [i \in Ids |-> Cardinality({r \in P : db.row[r] = i})]]
    BY <1>2 DEF DeleteOwner, Owned
  <2> HIDE DEF P
  <2>2. /\ Sound(db, NoId, wrote) /\ db \in Stored /\ wrote \in Written
        /\ job.kind = "idle" /\ ~InTransaction
    BY <1>1, <2>1, FreeIsSound, JobKinds DEF Types
  <2>3. /\ db'.blob = db.blob
        /\ \A i \in Ids : /\ Cardinality({r \in P : db.row[r] = i}) \in Nat
                          /\ Named(db', i) + Cardinality({r \in P : db.row[r] = i}) = Named(db, i)
    BY <2>1, <2>2, DeletesSound
  <2>4. /\ job'.kind = "releasing" /\ job'.at = NoId
        /\ \A i \in Ids : job'.todo[i] = Cardinality({r \in P : db.row[r] = i})
    BY <2>1
  <2>5. ASSUME NEW i \in Ids PROVE Balance(i)' = Balance(i)
    <3>1. /\ Balance(i)' = db.blob[i].refs - Named(db', i) - job'.todo[i]
          /\ Balance(i) = db.blob[i].refs - Named(db, i) - 0
      BY <2>2, <2>3, <2>4 DEF Balance, Over, Due, Named
    <3>2. /\ job'.todo[i] \in Nat /\ Named(db', i) + job'.todo[i] = Named(db, i)
          /\ Named(db', i) \in Nat /\ db.blob[i].refs \in Int
      BY <2>2, <2>3, <2>4, OverIsInt, NamedIsUsed
    <3> QED  BY <3>1, <3>2
  <2>6. Accounts'
    BY <1>1, <2>1, <2>4, <2>5, EvenKeeps DEF InTransaction
  <2>7. Fulls'
    BY <1>1, <2>1, <2>2, <2>3, <2>4 DEF Fulls, Full, Doing, Live, InTransaction
  <2>8. Reported'
    BY <1>1, <2>1, ReportHolds
  <2> QED  BY <2>4, <2>6, <2>7, <2>8 DEF CountsInv, Mends
<1>3. CASE ReleaseOne
  <2>1. PICK i \in Ids :
          /\ job.kind = "releasing" /\ job.at = NoId /\ job.todo[i] > 0
          /\ db' = IF i \in Live(db) THEN Raise(db, i, -1) ELSE db
          /\ job' = [job EXCEPT !.at = i, !.todo[i] = @ - 1]
          /\ Touch /\ UNCHANGED <<crashes, trusted>>
    BY <1>3 DEF ReleaseOne
  <2>2. Sound(db, NoId, wrote) /\ db \in Stored /\ job \in Releasing /\ job.todo \in [Ids -> Nat]
    BY <1>1, <2>1, FreeIsSound, JobKinds DEF Types, Releasing
  <2>3. /\ job'.kind = "releasing" /\ job'.at = i
        /\ \A j \in Ids : job'.todo[j] = (IF j = i THEN job.todo[i] - 1 ELSE job.todo[j])
    BY <2>1, <2>2 DEF Releasing
  <2>4. trusted => i \in Live(db)
    <3>1. ASSUME trusted, i \notin Live(db) PROVE FALSE
      <4>1. Balance(i) >= 0 /\ Balance(i) = Over(db, i) - job.todo[i]
        BY <1>1, <2>1, <3>1 DEF Accounts, Fair, Balance, Due
      <4>2. Over(db, i) = 0 /\ job.todo[i] \in Nat
        BY <2>2, <3>1, AbsentIsUnnamed, OverIsInt
      <4> QED  BY <2>1, <4>1, <4>2
    <3> QED  BY <3>1
  <2>5. ASSUME trusted
        PROVE  /\ \A j \in Ids : Balance(j)' = Balance(j)
               /\ Live(db') = Live(db) /\ \A j \in Ids \ {i} : db'.blob[j].refs = db.blob[j].refs
    <3>1. /\ db' = [db EXCEPT !.blob[i].refs = db.blob[i].refs + (-1)]
          /\ db.blob[i].refs + (-1) \in Int /\ db.blob[i].refs \in Int
      <4>1. db.blob[i].refs \in Int
        BY <2>2, OverIsInt
      <4>2. db' = Raise(db, i, -1)
        BY <2>1, <2>4, <2>5
      <4> QED  BY <2>2, <4>1, <4>2, Raised
    <3>2. /\ db'.row = db.row /\ db'.pyramid = db.pyramid /\ Live(db') = Live(db)
          /\ \A j \in Ids : db'.blob[j].refs
                              = (IF j = i THEN db.blob[i].refs + (-1) ELSE db.blob[j].refs)
      BY <2>2, <2>4, <2>5, <3>1, CountsSound
    <3>3. ASSUME NEW j \in Ids PROVE Balance(j)' = Balance(j)
      <4>1. /\ Balance(j)' = db'.blob[j].refs - Named(db', j) - job'.todo[j]
            /\ Balance(j) = db.blob[j].refs - Named(db, j) - job.todo[j]
        BY <2>1, <2>3 DEF Balance, Over, Due, Named
      <4>2. /\ Named(db', j) = Named(db, j) /\ Named(db, j) \in Nat
            /\ db.blob[j].refs \in Int /\ job.todo[j] \in Nat
        BY <2>2, <3>2, SameNamed, OverIsInt
      <4> QED  BY <2>3, <3>1, <3>2, <4>1, <4>2
    <3> QED  BY <3>2, <3>3
  <2>6. Accounts'
    BY <1>1, <2>1, <2>3, <2>5, EvenKeeps DEF InTransaction
  <2>7. Fulls'
    <3>1. ASSUME trusted, Full(db, NoId) PROVE Full(db', i)
      BY <2>5, <3>1, NoIdIsNoId DEF Full, Live
    <3> QED  BY <1>1, <2>1, <2>3, <3>1 DEF Fulls, Doing, InTransaction
  <2>8. Reported'
    BY <1>1, <2>1, ReportHolds
  <2> QED  BY <2>3, <2>6, <2>7, <2>8 DEF CountsInv, Mends
<1>4. CASE ReleaseTwo
  <2> DEFINE i == job.at
             gone == i \in Live(db) /\ db.blob[i].refs <= 0
  <2>1. /\ job.kind = "releasing" /\ i # NoId
        /\ Touch /\ UNCHANGED <<crashes, trusted>>
        /\ IF gone /\ ~Deletable(db, i) THEN db' = db /\ job' = Idle
           ELSE db' = (IF gone THEN Drop(db, i) ELSE db) /\ job' = [job EXCEPT !.at = NoId]
    BY <1>4 DEF ReleaseTwo
  <2>2. /\ Sound(db, NoId, wrote) /\ db \in Stored /\ job \in Releasing /\ i \in Ids
        /\ job.todo \in [Ids -> Nat] /\ Doing = i
    BY <1>1, <2>1, FreeIsSound, JobKinds DEF Types, Releasing, Doing
  <2> HIDE DEF i
  <2>3. ASSUME trusted, gone PROVE db.blob[i].refs = 0 /\ Deletable(db, i)
    <3>1. Balance(i) >= 0 /\ Balance(i) = Over(db, i) - job.todo[i]
      BY <1>1, <2>1, <2>2, <2>3 DEF Accounts, Fair, Balance, Due
    <3>2. /\ Over(db, i) = db.blob[i].refs - Named(db, i) /\ job.todo[i] \in Nat
          /\ Named(db, i) \in Nat /\ db.blob[i].refs \in Int /\ db.blob[i].refs <= 0
      BY <2>2, <2>3, OverIsInt
    <3> HIDE DEF gone
    <3> QED  BY <3>1, <3>2 DEF Deletable
  <2>4. job'.kind = "releasing" \/ job'.kind = "idle"
    BY <2>1, <2>2 DEF Releasing, Idle
  <2>5. ASSUME trusted
        PROVE  /\ job'.kind = "releasing" /\ job'.at = NoId /\ job'.todo = job.todo
               /\ \A j \in Ids : Over(db', j) = Over(db, j)
               /\ Full(db, i) => Full(db', NoId)
    <3>1. /\ db' = (IF gone THEN Drop(db, i) ELSE db)
          /\ job' = [job EXCEPT !.at = NoId]
      BY <2>1, <2>3, <2>5
    <3>2. job'.kind = "releasing" /\ job'.at = NoId /\ job'.todo = job.todo
      BY <2>2, <3>1 DEF Releasing
    <3>3. CASE gone
      <4>1. db' = Drop(db, i) /\ db.blob[i].refs = 0 /\ Deletable(db, i)
        BY <2>3, <2>5, <3>1, <3>3
      <4>2. /\ db'.row = db.row /\ db'.pyramid = db.pyramid /\ Live(db') = Live(db) \ {i}
            /\ db'.blob[i].refs = 0 /\ \A j \in Ids \ {i} : db'.blob[j] = db.blob[j]
        BY <2>2, <4>1, DropsSound
      <4>3. \A j \in Ids : Over(db', j) = Over(db, j)
        BY <4>1, <4>2, SameNamed DEF Over
      <4>4. Full(db, i) => Full(db', NoId)
        BY <4>2 DEF Full, Live
      <4> QED  BY <3>2, <4>3, <4>4
    <3>4. CASE ~gone
      <4>1. db' = db
        BY <3>1, <3>4
      <4>2. i \in Live(db) => db.blob[i].refs > 0
        BY <2>2, <3>4, OverIsInt
      <4> HIDE DEF gone
      <4> QED  BY <3>2, <4>1, <4>2 DEF Full
    <3> QED  BY <3>3, <3>4
  <2>6. trusted => \A j \in Ids : Balance(j)' = Balance(j)
    BY <2>1, <2>5 DEF Balance, Due, Over, Named
  <2>7. Accounts'
    BY <1>1, <2>1, <2>4, <2>6, EvenKeeps DEF InTransaction
  <2>8. Fulls'
    BY <1>1, <2>1, <2>2, <2>5 DEF Fulls, Doing, InTransaction
  <2>9. Reported'
    BY <1>1, <2>1, ReportHolds
  <2> QED  BY <2>4, <2>7, <2>8, <2>9 DEF CountsInv, Mends
<1>5. CASE JobDone
  <2>1. /\ job.kind = "releasing" /\ job.todo = NoNames /\ job.at = NoId /\ job'.kind = "idle"
        /\ UNCHANGED <<db, report, crashes, trusted>>
    BY <1>5 DEF JobDone, Idle
  <2>2. \A i \in Ids : Balance(i)' = Balance(i)
    BY <2>1 DEF Balance, Due, NoNames, Over, Named
  <2>3. Accounts'
    BY <1>1, <2>1, <2>2, EvenKeeps DEF InTransaction
  <2>4. Fulls'
    BY <1>1, <2>1 DEF Fulls, Full, Doing, Live, InTransaction
  <2>5. Reported'
    BY <1>1, <2>1, ReportHolds DEF Committed, InTransaction
  <2> QED  BY <2>1, <2>3, <2>4, <2>5 DEF CountsInv, Mends
<1> QED  BY <1>2, <1>3, <1>4, <1>5 DEF Remove

LEMMA MaintainCounts ==
  ASSUME BlobsInv, CountsInv, Maintain
  PROVE  CountsInv'
<1>1. Types /\ Kept /\ Accounts /\ Fulls /\ Reported
  BY DEF BlobsInv, CountsInv
<1>2. CASE ClearPyramids
  <2>1. /\ Free /\ job.kind = "idle" /\ UNCHANGED <<db, report, crashes, trusted>>
        /\ job'.kind = "releasing" /\ job'.todo = NoNames /\ job'.at = NoId
    BY <1>1, <1>2, JobKinds DEF ClearPyramids
  <2>2. \A i \in Ids : Balance(i)' = Balance(i)
    BY <2>1 DEF Balance, Due, NoNames, Over, Named
  <2>3. Accounts'
    BY <1>1, <2>1, <2>2, EvenKeeps DEF InTransaction
  <2>4. Fulls'
    BY <1>1, <2>1 DEF Fulls, Full, Doing, Live, InTransaction
  <2>5. Reported'
    BY <1>1, <2>1, ReportHolds DEF Committed, InTransaction
  <2> QED  BY <2>1, <2>3, <2>4, <2>5 DEF CountsInv, Mends
<1>3. CASE Unlink
  <2>1. PICK c \in Columns :
          /\ job.kind = "releasing" /\ job.todo = NoNames /\ job.at = NoId /\ c \in job.sums
          /\ db' = [db EXCEPT !.pyramid[c] = NoId]
          /\ job' = [job EXCEPT !.todo[db.pyramid[c]] = 1, !.sums = @ \ {c}]
          /\ Touch /\ UNCHANGED <<crashes, trusted>>
    BY <1>3 DEF Unlink
  <2> DEFINE p == db.pyramid[c]
  <2>2. /\ Sound(db, NoId, wrote) /\ db \in Stored /\ job \in Releasing
        /\ p # NoId /\ p \in Ids
    BY <1>1, <2>1, FreeIsSound, JobKinds DEF Types, Kept, Stored
  <2>3. /\ db'.blob = db.blob
        /\ \A i \in Ids : Named(db', i) + (IF i = p THEN 1 ELSE 0) = Named(db, i)
    BY <2>1, <2>2, UnlinksSound
  <2>4. /\ job'.kind = "releasing" /\ job'.at = NoId
        /\ \A i \in Ids : job'.todo[i] = (IF i = p THEN 1 ELSE 0)
    BY <2>1, <2>2 DEF Releasing, NoNames
  <2> HIDE DEF p
  <2>5. ASSUME NEW i \in Ids PROVE Balance(i)' = Balance(i)
    <3>1. /\ Balance(i)' = db.blob[i].refs - Named(db', i) - job'.todo[i]
          /\ Balance(i) = db.blob[i].refs - Named(db, i) - 0
      BY <2>1, <2>3, <2>4 DEF Balance, Over, Due, NoNames, Named
    <3>2. Named(db', i) \in Nat /\ Named(db, i) \in Nat /\ db.blob[i].refs \in Int
      BY <2>2, OverIsInt, NamedIsUsed
    <3> QED  BY <2>3, <2>4, <3>1, <3>2
  <2>6. Accounts'
    BY <1>1, <2>1, <2>4, <2>5, EvenKeeps DEF InTransaction
  <2>7. Fulls'
    BY <1>1, <2>1, <2>3, <2>4 DEF Fulls, Full, Doing, Live, InTransaction
  <2>8. Reported'
    BY <1>1, <2>1, ReportHolds
  <2> QED  BY <2>4, <2>6, <2>7, <2>8 DEF CountsInv, Mends
<1> QED  BY <1>2, <1>3 DEF Maintain

LEMMA BuildCounts ==
  ASSUME BlobsInv, CountsInv, Build
  PROVE  CountsInv'
<1>1. Types /\ Kept /\ Accounts /\ Fulls /\ Reported /\ Mends
  BY DEF BlobsInv, CountsInv
<1>2. ASSUME NEW b \in Builders,
             (\E i \in Ids : BeginBuild(b, i)) \/ ReadChunk(b) \/ CancelBuild(b)
      PROVE  CountsInv'
  <2>1. UNCHANGED <<db, job, report, crashes, trusted>>
    BY <1>2 DEF BeginBuild, ReadChunk, CancelBuild
  <2> QED  BY <1>1, <2>1
           DEF CountsInv, Accounts, Fair, Fulls, Full, Reported, Tells, Mends, Balance, Over, Due,
               Doing, InTransaction, Committed, Live, Named, Uses, Wrong, Loose
<1>3. ASSUME NEW b \in Builders, FilePyramid(b) PROVE CountsInv'
  <2> DEFINE c == builder[b].column
             bytes == builder[b].read
             d == Finish([db EXCEPT !.blob[Rowid(db)] = [sum |-> PendingSum, refs |-> 0]],
                         Rowid(db), bytes)
             i == CHOOSE e \in IdOf(d, bytes) : TRUE
  <2>1. /\ Free /\ builder[b] # Idle /\ Len(bytes) = Chunks[c] /\ Rowid(db) \in Ids
        /\ db' = IF Refused(d, c, i) THEN db ELSE Link(d, c, i)
        /\ Touch /\ UNCHANGED <<job, crashes, trusted>>
    BY <1>3 DEF FilePyramid
  <2>2. c \in Columns /\ bytes \in Seq(Columns)
    BY <1>1, <2>1 DEF Types, BuildJobs
  <2>3. bytes \in Sums
    <3>1. bytes \in [1 .. Len(bytes) -> Columns]
      BY <2>2
    <3>2. bytes \in [1 .. Chunks[c] -> Columns]
      BY <2>1, <3>1
    <3> HIDE DEF c, bytes
    <3> QED  BY <2>2, <3>2 DEF Sums, Reductions
  <2>4. /\ Sound(db, NoId, wrote) /\ db \in Stored
        /\ job.kind = "idle" /\ ~InTransaction /\ ~InTransaction' /\ job'.kind = "idle"
    BY <1>1, <2>1, FreeIsSound, JobKinds DEF Types, InTransaction
  <2>5. trusted => \A k \in Ids : Over(db, k) >= 0
    <3>1. ASSUME trusted, NEW k \in Ids PROVE Over(db, k) >= 0
      <4>1. Balance(k) >= 0 /\ Balance(k) = Over(db, k) - 0
        BY <1>1, <2>4, <3>1 DEF Accounts, Fair, Balance, Due
      <4>2. Over(db, k) \in Int
        BY <2>4, OverIsInt
      <4> QED  BY <4>1, <4>2
    <3> QED  BY <3>1
  <2>6. trusted => (\A k \in Ids : Over(db', k) = Over(db, k)) /\ (Full(db, NoId) => Full(db', NoId))
    <3> HIDE DEF c, bytes
    <3> QED  BY <2>1, <2>2, <2>3, <2>4, <2>5, FiledIsEven
  <2> HIDE DEF c, bytes, d, i
  <2>7. trusted => \A k \in Ids : Balance(k)' = Balance(k)
    BY <2>4, <2>6 DEF Balance, Due, Over, Named
  <2>8. Accounts'
    BY <1>1, <2>1, <2>4, <2>7, EvenKeeps
  <2>9. Fulls'
    BY <1>1, <2>1, <2>4, <2>6 DEF Fulls, Doing
  <2>10. Reported'
    BY <1>1, <2>1, ReportHolds
  <2> QED  BY <2>4, <2>8, <2>9, <2>10 DEF CountsInv, Mends
<1> QED  BY <1>2, <1>3 DEF Build

\* A verification reads what is committed, a table at a time.
LEMMA VerifyCounts ==
  ASSUME BlobsInv, CountsInv, Verify
  PROVE  CountsInv'
<1>1. Types /\ Accounts /\ Fulls /\ Reported /\ Mends
  BY DEF BlobsInv, CountsInv
<1>2. UNCHANGED <<db, job, crashes, trusted>>
  BY DEF Verify, VerifyRows, VerifyPyramids, VerifyBlobs
<1>3. Accounts' /\ Fulls' /\ Mends'
  BY <1>1, <1>2, SMTT(60) DEF Accounts, Fair, Fulls, Full, Mends, Balance, Over, Due, Doing, InTransaction,
                    Live, Named
<1>4. Committed' = Committed
  BY <1>2 DEF Committed, InTransaction
<1>5. Reported'
  <2>1. CASE VerifyRows
    <3>1. /\ report'.kind = "verifying" /\ report'.at = "pyramids"
          /\ \A i \in Ids : report'.found[i] = Uses(Committed.row, Rows, i)
      BY <2>1 DEF VerifyRows, Uses
    <3> QED  BY <1>4, <3>1 DEF Reported, Tells
  <2>2. CASE VerifyPyramids
    <3> DEFINE found == [i \in Ids |-> report.found[i]
                           + Cardinality({c \in Columns : Committed.pyramid[c] = i})]
    <3>1. /\ report \in Reports /\ report.kind = "verifying" /\ report.at = "pyramids"
          /\ report' = [report EXCEPT !.at = "blobs", !.found = found]
      BY <1>1, <2>2 DEF VerifyPyramids, Types, Idle
    <3>2. ASSUME ~report.stale, NEW i \in Ids PROVE found[i] = Named(Committed, i)
      <4>1. report.found[i] = Uses(Committed.row, Rows, i)
        BY <1>1, <3>1, <3>2 DEF Reported, Tells, Idle, Reports
      <4> QED  BY <4>1, NamedIsUsed DEF Uses
    <3> HIDE DEF found
    <3>3. /\ report'.kind = "verifying" /\ report'.at = "blobs" /\ report'.stale = report.stale
          /\ report'.found = found
      BY <3>1 DEF Reports
    <3> QED  BY <1>4, <3>2, <3>3 DEF Reported, Tells
  <2>3. CASE VerifyBlobs
    <3>1. /\ report \in Reports /\ report # Idle /\ report.at = "blobs"
          /\ report' = [report EXCEPT !.kind = "verified", !.at = "end",
                          !.wrong = Wrong(Committed, report.found),
                          !.loose = Loose(Committed, report.found)]
      BY <1>1, <2>3 DEF VerifyBlobs, Types, Idle
    <3>2. /\ report'.kind = "verified" /\ report'.at = "end" /\ report'.stale = report.stale
          /\ report'.found = report.found
          /\ report'.wrong = Wrong(Committed, report.found)
          /\ report'.loose = Loose(Committed, report.found)
      BY <3>1 DEF Reports
    <3> QED  BY <1>1, <1>4, <3>1, <3>2 DEF Reported, Tells
  <2> QED  BY <2>1, <2>2, <2>3 DEF Verify
<1> QED  BY <1>3, <1>5 DEF CountsInv

\* A repair sets what the report found wrong, and deletes what it found unnamed.
LEMMA RepairCounts ==
  ASSUME BlobsInv, CountsInv, Repair
  PROVE  CountsInv'
<1>1. Types /\ Kept /\ Accounts /\ Fulls /\ Reported /\ Mends
  BY DEF BlobsInv, CountsInv
<1>2. CASE BeginRepair
  <2>1. /\ Free /\ job.kind = "idle" /\ ~InTransaction /\ report.kind = "verified"
        /\ trusted' = (trusted /\ ~report.stale) /\ UNCHANGED <<db, crashes>> /\ report' = Idle
        /\ job'.kind = "repairing" /\ job'.wrong = report.wrong /\ job'.loose = report.loose
        /\ job'.found = report.found
    BY <1>1, <1>2, JobKinds DEF BeginRepair, InTransaction
  <2>2. /\ Sound(db, NoId, wrote) /\ Committed = db /\ db \in Stored
        /\ report # Idle /\ report.at = "end"
    BY <1>1, <2>1, FreeIsSound DEF Reported, Types, Idle
  <2>3. Accounts'
    BY <1>1, <2>1 DEF Accounts, Fair, Balance, Over, Due, InTransaction, Named
  <2>4. Fulls'
    BY <1>1, <2>1 DEF Fulls, Full, Doing, Live, InTransaction
  <2>5. Mends'
    <3>1. ASSUME trusted, ~report.stale
          PROVE  /\ \A i \in Ids : report.found[i] = Named(db, i)
                 /\ \A i \in report.wrong : report.found[i] # 0
                 /\ \A i \in report.loose : report.found[i] = 0
                 /\ \A i \in Live(db) \ (report.wrong \cup report.loose) :
                      db.blob[i].refs = Named(db, i) /\ db.blob[i].refs > 0
      <4>1. /\ \A i \in Ids : report.found[i] = Named(db, i)
            /\ report.wrong = Wrong(db, report.found) /\ report.loose = Loose(db, report.found)
        BY <1>1, <2>2, <3>1 DEF Reported, Tells
      <4>2. ASSUME NEW i \in Live(db) PROVE i \in Ids /\ db.blob[i].sum # PendingSum
        <5>1. i \in Ids /\ i # NoId
          BY NoIdIsNoId DEF Live
        <5>2. db.blob[i].sum \in Sums
          BY <2>2, <5>1 DEF Sound
        <5> QED  BY <5>1, <5>2, NullsDiffer
      <4>3. \A i \in report.wrong : report.found[i] # 0
        BY <4>1 DEF Wrong
      <4>4. \A i \in report.loose : report.found[i] = 0
        BY <4>1, <4>2 DEF Loose
      <4>5. ASSUME NEW i \in Live(db) \ (report.wrong \cup report.loose)
            PROVE  db.blob[i].refs = Named(db, i) /\ db.blob[i].refs > 0
        <5>1. i \in Ids /\ report.found[i] # 0 /\ report.found[i] = db.blob[i].refs
          BY <4>1, <4>2, <4>5 DEF Wrong, Loose
        <5>2. Named(db, i) \in Nat
          BY NamedIsUsed
        <5> QED  BY <4>1, <5>1, <5>2
      <4> QED  BY <4>1, <4>3, <4>4, <4>5
    <3>2. trusted' => trusted /\ ~report.stale
      BY <2>1
    <3>3. \A i \in Ids : Named(db', i) = Named(db, i)
      BY <2>1
    <3>4. Live(db') = Live(db) /\ db' = db
      BY <2>1
    <3> QED  BY <2>1, <3>1, <3>2, <3>3, <3>4 DEF Mends
  <2> QED  BY <2>1, <2>3, <2>4, <2>5 DEF CountsInv, Reported
<1>3. CASE RepairCount
  <2>1. PICK i \in job.wrong :
          /\ job.kind = "repairing"
          /\ db' = IF i \in Live(db) THEN [db EXCEPT !.blob[i].refs = job.found[i]] ELSE db
          /\ job' = [job EXCEPT !.wrong = @ \ {i}]
          /\ Touch /\ UNCHANGED <<crashes, trusted>>
    BY <1>3 DEF RepairCount
  <2>2. /\ Sound(db, NoId, wrote) /\ db \in Stored /\ job \in Repairing
        /\ job.found[i] \in Nat /\ job.found[i] \in Int /\ i \in Ids
    BY <1>1, <2>1, FreeIsSound, JobKinds DEF Types, Repairing
  <2>3. /\ job'.kind = "repairing" /\ job'.wrong = job.wrong \ {i} /\ job'.loose = job.loose
        /\ job'.found = job.found
    BY <2>1, <2>2 DEF Repairing
  <2>4. /\ Live(db') = Live(db) /\ \A j \in Ids : Named(db', j) = Named(db, j)
        /\ i \in Live(db) => db'.blob[i].refs = job.found[i]
        /\ \A j \in Ids \ {i} : db'.blob[j].refs = db.blob[j].refs
        /\ i \notin Live(db) => db' = db
    <3>1. CASE i \in Live(db)
      <4>1. /\ db'.row = db.row /\ db'.pyramid = db.pyramid /\ Live(db') = Live(db)
            /\ \A j \in Ids : db'.blob[j].refs
                                = (IF j = i THEN job.found[i] ELSE db.blob[j].refs)
        BY <2>1, <2>2, <3>1, CountsSound
      <4> QED  BY <2>2, <3>1, <4>1, SameNamed
    <3>2. CASE i \notin Live(db)
      BY <2>1, <3>2
    <3> QED  BY <3>1, <3>2
  <2>5. ASSUME trusted
        PROVE  /\ \A j \in Ids : job.found[j] = Named(db, j)
               /\ \A j \in job.wrong : job.found[j] # 0
               /\ \A j \in job.loose : job.found[j] = 0
               /\ \A j \in Live(db) \ (job.wrong \cup job.loose) :
                    db.blob[j].refs = Named(db, j) /\ db.blob[j].refs > 0
    BY <1>1, <2>1, <2>5 DEF Mends
  <2>6. i \in Live(db) /\ trusted => db'.blob[i].refs = Named(db, i) /\ db'.blob[i].refs > 0
    <3>1. trusted => job.found[i] # 0 /\ job.found[i] = Named(db, i)
      BY <2>1, <2>2, <2>5
    <3> QED  BY <2>2, <2>4, <3>1
  <2>7. Accounts'
    <3>1. ASSUME trusted, NEW j \in Ids PROVE Fair(Balance(j)')
      <4>1. Fair(Balance(j)) /\ Balance(j) = Over(db, j) - 0 /\ Balance(j)' = Over(db', j) - 0
        BY <1>1, <2>1, <2>3, <3>1 DEF Accounts, Balance, Due, Over, Named
      <4>2. CASE j = i /\ i \in Live(db)
        <5>1. Over(db', j) = Named(db, j) - Named(db, j) /\ Named(db, j) \in Nat
          BY <2>4, <2>6, <3>1, <4>2, NamedIsUsed DEF Over
        <5>2. Balance(j)' = 0
          BY <4>1, <5>1
        <5> QED  BY <5>2 DEF Fair
      <4>3. CASE ~(j = i /\ i \in Live(db))
        <5>1. Over(db', j) = Over(db, j)
          BY <2>4, <4>3 DEF Over
        <5> QED  BY <4>1, <5>1
      <4> QED  BY <4>2, <4>3
    <3> QED  BY <2>1, <2>3, <3>1 DEF Accounts, Fair, InTransaction
  <2>8. Fulls'
    <3>1. ASSUME trusted, Full(db, NoId), NEW j \in Live(db') \ {NoId} PROVE db'.blob[j].refs > 0
      <4>1. j \in Live(db) /\ j \in Ids /\ j # NoId
        BY <2>4, <3>1 DEF Live
      <4>2. j = i => db'.blob[j].refs > 0
        BY <2>6, <3>1, <4>1
      <4>3. j # i => db'.blob[j].refs > 0
        BY <2>4, <3>1, <4>1 DEF Full
      <4> QED  BY <4>2, <4>3
    <3> QED  BY <1>1, <2>1, <2>3, <3>1 DEF Fulls, Full, Doing, InTransaction
  <2>9. Mends'
    <3>1. ASSUME trusted, NEW j \in Live(db') \ (job'.wrong \cup job'.loose)
          PROVE  db'.blob[j].refs = Named(db', j) /\ db'.blob[j].refs > 0
      <4>1. j \in Live(db) /\ j \in Ids /\ Named(db', j) = Named(db, j)
        BY <2>4, <3>1 DEF Live
      <4>2. CASE j = i
        BY <2>6, <3>1, <4>1, <4>2
      <4>3. CASE j # i
        BY <2>3, <2>4, <2>5, <3>1, <4>1, <4>3
      <4> QED  BY <4>2, <4>3
    <3>2. trusted => \A j \in Ids : job.found[j] = Named(db', j)
      BY <2>4, <2>5
    <3> QED  BY <2>1, <2>3, <2>5, <3>1, <3>2 DEF Mends, Named, Live
  <2>10. Reported'
    BY <1>1, <2>1, ReportHolds
  <2> QED  BY <2>7, <2>8, <2>9, <2>10 DEF CountsInv
<1>4. CASE RepairBlob
  <2>1. PICK i \in job.loose :
          /\ job.kind = "repairing" /\ job.wrong = {} /\ Touch /\ UNCHANGED <<crashes, trusted>>
          /\ IF i \in Live(db) /\ ~Deletable(db, i) THEN db' = db /\ job' = Idle
             ELSE db' = Drop(db, i) /\ job' = [job EXCEPT !.loose = @ \ {i}]
    BY <1>4 DEF RepairBlob
  <2>2. Sound(db, NoId, wrote) /\ db \in Stored /\ job \in Repairing /\ i \in Ids
    BY <1>1, <2>1, FreeIsSound, JobKinds DEF Types, Repairing
  <2>3. job'.kind = "repairing" \/ job'.kind = "idle"
    BY <2>1, <2>2 DEF Repairing, Idle
  <2>4. ASSUME trusted
        PROVE  /\ job'.kind = "repairing" /\ job'.loose = job.loose \ {i}
               /\ job'.wrong = {} /\ job'.found = job.found
               /\ \A j \in Ids : Named(db', j) = Named(db, j)
               /\ Live(db') = Live(db) \ {i} /\ Over(db', i) = 0
               /\ \A j \in Ids \ {i} : db'.blob[j] = db.blob[j]
               /\ \A j \in Ids : job.found[j] = Named(db, j)
               /\ \A j \in job.loose : job.found[j] = 0
               /\ \A j \in Live(db) \ job.loose :
                    db.blob[j].refs = Named(db, j) /\ db.blob[j].refs > 0
    <3>1. /\ \A j \in Ids : job.found[j] = Named(db, j)
          /\ \A j \in job.loose : job.found[j] = 0
          /\ \A j \in Live(db) \ job.loose : db.blob[j].refs = Named(db, j) /\ db.blob[j].refs > 0
      BY <1>1, <2>1, <2>4 DEF Mends
    <3>2. Deletable(db, i) /\ Named(db, i) = 0
      BY <2>1, <2>2, <3>1 DEF Deletable
    <3>3. db' = Drop(db, i) /\ job' = [job EXCEPT !.loose = @ \ {i}]
      BY <2>1, <3>2
    <3>4. /\ db'.row = db.row /\ db'.pyramid = db.pyramid /\ Live(db') = Live(db) \ {i}
          /\ db'.blob[i].refs = 0 /\ \A j \in Ids \ {i} : db'.blob[j] = db.blob[j]
      BY <2>2, <3>2, <3>3, DropsSound
    <3>5. \A j \in Ids : Named(db', j) = Named(db, j)
      BY <3>4, SameNamed
    <3>6. Over(db', i) = 0
      BY <2>2, <3>2, <3>4, <3>5 DEF Over
    <3>7. /\ job'.kind = "repairing" /\ job'.loose = job.loose \ {i} /\ job'.wrong = {}
          /\ job'.found = job.found
      BY <2>1, <2>2, <3>3 DEF Repairing
    <3> QED  BY <3>1, <3>4, <3>5, <3>6, <3>7
  <2>5. Accounts'
    <3>1. ASSUME trusted, NEW j \in Ids PROVE Fair(Balance(j)')
      <4>1. Fair(Balance(j)) /\ Balance(j) = Over(db, j) - 0 /\ Balance(j)' = Over(db', j) - 0
        BY <1>1, <2>1, <2>4, <3>1 DEF Accounts, Balance, Due, Over, Named
      <4>2. CASE j = i
        <5>1. Balance(j)' = 0
          BY <2>4, <3>1, <4>1, <4>2
        <5> QED  BY <5>1 DEF Fair
      <4>3. CASE j # i
        <5>1. Over(db', j) = Over(db, j)
          BY <2>4, <3>1, <4>3 DEF Over
        <5> QED  BY <4>1, <5>1
      <4> QED  BY <4>2, <4>3
    <3> QED  BY <2>1, <2>3, <3>1 DEF Accounts, Fair, InTransaction
  <2>6. Fulls'
    <3>1. ASSUME trusted, Full(db, NoId) PROVE Full(db', NoId)
      BY <2>4, <3>1 DEF Full, Live
    <3> QED  BY <1>1, <2>1, <2>3, <3>1 DEF Fulls, Doing, InTransaction
  <2>7. Mends'
    <3>1. ASSUME trusted, NEW j \in Live(db') \ (job'.wrong \cup job'.loose)
          PROVE  db'.blob[j].refs = Named(db', j) /\ db'.blob[j].refs > 0
      <4>1. j \in Live(db) \ job.loose /\ j \in Ids /\ j # i
        BY <2>4, <3>1 DEF Live
      <4> QED  BY <2>4, <3>1, <4>1
    <3>2. trusted => \A j \in Ids : job.found[j] = Named(db', j)
      BY <2>4
    <3> QED  BY <2>1, <2>4, <3>1, <3>2 DEF Mends, Named, Live
  <2>8. Reported'
    BY <1>1, <2>1, ReportHolds
  <2> QED  BY <2>5, <2>6, <2>7, <2>8 DEF CountsInv
<1>5. CASE RepairDone
  <2>1. /\ job.kind = "repairing" /\ job'.kind = "idle" /\ UNCHANGED <<db, report, crashes, trusted>>
    BY <1>5 DEF RepairDone, Idle
  <2>2. \A i \in Ids : Balance(i)' = Balance(i)
    BY <2>1 DEF Balance, Due, Over, Named
  <2>3. Accounts'
    BY <1>1, <2>1, <2>2, EvenKeeps DEF InTransaction
  <2>4. Fulls'
    BY <1>1, <2>1 DEF Fulls, Full, Doing, Live, InTransaction
  <2>5. Reported'
    BY <1>1, <2>1, ReportHolds DEF Committed, InTransaction
  <2> QED  BY <2>1, <2>3, <2>4, <2>5 DEF CountsInv, Mends
<1> QED  BY <1>2, <1>3, <1>4, <1>5 DEF Repair

\* What a job was still to release stays counted: too high, never too low.
LEMMA CrashCounts ==
  ASSUME BlobsInv, CountsInv, Crash
  PROVE  CountsInv'
<1>1. Types /\ Accounts
  BY DEF BlobsInv, CountsInv
<1>2. /\ job'.kind = "idle" /\ report' = Idle /\ trusted' = trusted
      /\ db' = Committed /\ crashes' = crashes + 1 /\ crashes \in Nat
  BY <1>1, BlobsAssumption DEF Crash, Idle, Types
<1>3. crashes' # 0
  BY <1>2
<1>4. ASSUME trusted, NEW i \in Ids PROVE Balance(i)' >= 0
  <2>1. Balance(i)' = Over(Committed, i) - 0
    BY <1>2 DEF Balance, Due, Over, Named
  <2>2. Over(Committed, i) \in Int
    BY CommittedIsSound, OverIsInt
  <2>3. Over(Committed, i) >= 0
    <3>1. CASE InTransaction
      BY <1>1, <1>4, <3>1 DEF Accounts, Fair, Committed
    <3>2. CASE ~InTransaction
      <4>1. /\ Balance(i) >= 0 /\ Balance(i) = Over(Committed, i) - Due(i)
        BY <1>1, <1>4, <3>2 DEF Accounts, Fair, Balance, Committed
      <4>2. Due(i) \in Nat
        BY <1>1, DueIsNat
      <4> QED  BY <2>2, <4>1, <4>2
    <3> QED  BY <3>1, <3>2
  <2> QED  BY <2>1, <2>2, <2>3
<1>5. Accounts'
  BY <1>2, <1>3, <1>4 DEF Accounts, Fair, InTransaction
<1> QED  BY <1>2, <1>3, <1>5 DEF CountsInv, Fulls, Reported, Mends

LEMMA CountsStep ==
  ASSUME BlobsInv, CountsInv, [BlobsNext]_blobVars
  PROVE  CountsInv'
<1>1. CASE UNCHANGED blobVars
  <2>1. UNCHANGED <<db, job, report, crashes, trusted>>
    BY <1>1 DEF blobVars
  <2>2. Accounts' /\ Fulls'
    BY <2>1 DEF CountsInv, Accounts, Fair, Fulls, Full, Balance, Over, Due, Doing, InTransaction,
                Live, Named
  <2>3. Reported'
    BY <2>1, ReportHolds DEF BlobsInv, CountsInv, Committed, InTransaction
  <2>4. Mends'
    BY <2>1 DEF CountsInv, Mends, Live, Named
  <2> QED  BY <2>2, <2>3, <2>4 DEF CountsInv
<1> QED  BY <1>1, StoreCounts, RemoveCounts, MaintainCounts, BuildCounts, VerifyCounts,
            RepairCounts, CrashCounts DEF BlobsNext

LEMMA CountsInvariant == BlobsSpec => [](BlobsInv /\ CountsInv)
<1>1. BlobsInit => BlobsInv /\ CountsInv
  BY BlobsInvInit, CountsInit
<1>2. BlobsInv /\ CountsInv /\ [BlobsNext]_blobVars => (BlobsInv /\ CountsInv)'
  BY BlobsInvStep, CountsStep
<1> QED  BY <1>1, <1>2, PTL DEF BlobsSpec

\* Whatever crashes interrupt, and as long as no report older than the tables was applied, a
\* count readers see is at least the number of rows and pyramids that name the blob.
THEOREM CountsKeepCover == BlobsSpec => []CountsCover
<1>1. ASSUME BlobsInv, CountsInv PROVE CountsCover
  <2>1. ASSUME trusted, NEW i \in Live(Committed)
        PROVE  Committed.blob[i].refs >= Named(Committed, i)
    <3>1. /\ i \in Ids /\ Committed.blob[i].refs \in Int /\ Named(Committed, i) \in Nat
          /\ Over(Committed, i) = Committed.blob[i].refs - Named(Committed, i)
      BY CommittedIsSound, <1>1, OverIsInt DEF Live
    <3>2. Over(Committed, i) >= 0
      <4>1. CASE InTransaction
        BY <1>1, <2>1, <3>1, <4>1 DEF CountsInv, Accounts, Fair, Committed
      <4>2. CASE ~InTransaction
        <5>1. Balance(i) >= 0 /\ Balance(i) = Over(Committed, i) - Due(i)
          BY <1>1, <2>1, <3>1, <4>2 DEF CountsInv, Accounts, Fair, Balance, Committed
        <5>2. Due(i) \in Nat /\ Over(Committed, i) \in Int
          BY <1>1, <3>1, DueIsNat DEF BlobsInv
        <5> QED  BY <5>1, <5>2
      <4> QED  BY <4>1, <4>2
    <3> QED  BY <3>1, <3>2
  <2> QED  BY <2>1 DEF CountsCover
<1>2. BlobsInv /\ CountsInv => CountsCover
  BY <1>1
<1>3. BlobsSpec => [](BlobsInv /\ CountsInv)
  BY CountsInvariant
<1> QED  BY <1>2, <1>3, PTL

\* Without a crash nothing leaks: between jobs every count is exact, and what nothing names
\* is gone.
THEOREM NothingEverLeaks == BlobsSpec => []NothingLeaks
<1>1. ASSUME BlobsInv, CountsInv PROVE NothingLeaks
  <2>1. ASSUME Free, crashes = 0, trusted, NEW i \in Live(db)
        PROVE  db.blob[i].refs = Named(db, i) /\ db.blob[i].refs > 0
    <3>1. db \in Stored /\ i \in Ids /\ job.kind = "idle" /\ NoId \notin Ids
      BY <1>1, <2>1, JobKinds, NoIdIsNoId DEF BlobsInv, Types, Live
    <3>2. Balance(i) = 0 /\ Balance(i) = Over(db, i) - 0
      BY <1>1, <2>1, <3>1 DEF CountsInv, Accounts, Fair, Balance, Due
    <3>3. db.blob[i].refs > 0
      BY <1>1, <2>1, <3>1 DEF CountsInv, Fulls, Full, Doing
    <3>4. /\ Over(db, i) = db.blob[i].refs - Named(db, i) /\ Over(db, i) \in Int
          /\ db.blob[i].refs \in Int /\ Named(db, i) \in Nat
      BY <3>1, OverIsInt
    <3>5. Over(db, i) = 0
      BY <3>2, <3>4
    <3>6. db.blob[i].refs = Named(db, i)
      BY <3>4, <3>5
    <3> QED  BY <3>3, <3>6
  <2> QED  BY <2>1 DEF NothingLeaks
<1>2. BlobsInv /\ CountsInv => NothingLeaks
  BY <1>1
<1>3. BlobsSpec => [](BlobsInv /\ CountsInv)
  BY CountsInvariant
<1> QED  BY <1>2, <1>3, PTL

\* The invariants of the blob store that the library run checks, together.
THEOREM BlobsStayKept == BlobsSpec => []BlobsAreKept
<1>1. BlobsTypeOK /\ RowsReadBack /\ CountsCover /\ NothingLeaks => BlobsAreKept
  BY DEF BlobsAreKept
<1> QED  BY <1>1, BlobsAreTyped, RowsKeepTheirContent, CountsKeepCover, NothingEverLeaks, PTL

\* verify followed by repair_references, with nothing written from the first read of the one to
\* the start of the other, leaves exact counts and no blob that nothing names, whatever
\* crashes left behind.
THEOREM RepairsHeal == BlobsSpec => RepairHeals
<1>1. ASSUME BlobsInv, CountsInv, [BlobsNext]_blobVars PROVE [Heals]_blobVars
  <2>1. SUFFICES ASSUME job.kind = "repairing", job' = Idle, trusted, crashes' = crashes, BlobsNext
                 PROVE  \A i \in Live(db') : db'.blob[i].refs = Named(db', i) /\ db'.blob[i].refs > 0
    BY <1>1 DEF Heals
  <2>2. /\ crashes \in Nat /\ job \in Repairing
        /\ \A i \in Ids : job.found[i] = Named(db, i)
        /\ \A i \in job.loose : job.found[i] = 0
        /\ \A i \in Live(db) \ (job.wrong \cup job.loose) :
             db.blob[i].refs = Named(db, i) /\ db.blob[i].refs > 0
    BY <1>1, <2>1, JobKinds, BlobsAssumption DEF BlobsInv, Types, CountsInv, Mends
  <2>3. ~Crash
    <3>1. Crash => crashes' = crashes + 1
      BY DEF Crash
    <3>2. crashes \in Nat /\ crashes' = crashes
      BY <2>1, <2>2
    <3> QED  BY <3>1, <3>2
  <2>4. ~Store /\ ~Remove /\ ~Build /\ ~Maintain /\ ~Verify
    <3>1. job' # job /\ job # Idle
      BY <2>1, <2>2 DEF Idle, Repairing
    <3>2. ~Store /\ ~Remove
      BY <2>1, <3>1 DEF Store, Remove, BeginStore, BeginColumn, EndColumn, Commit, Rollback,
           InTransaction, DeleteOwner, ReleaseOne, ReleaseTwo, JobDone, Free
    <3>3. Build \/ Verify => job' = job
      BY DEF Build, Verify, BeginBuild, ReadChunk, FilePyramid, CancelBuild, VerifyRows,
             VerifyPyramids, VerifyBlobs
    <3>4. Maintain => Free \/ job.kind = "releasing"
      BY DEF Maintain, ClearPyramids, Unlink
    <3> QED  BY <2>1, <3>1, <3>2, <3>3, <3>4 DEF Free
  <2>5. ~BeginRepair /\ ~RepairCount
    BY <2>1, <2>2 DEF BeginRepair, RepairCount, Free, Idle, Repairing
  <2>6. ~RepairBlob
    <3>1. ASSUME RepairBlob PROVE FALSE
      <4>1. PICK i \in job.loose :
              IF i \in Live(db) /\ ~Deletable(db, i) THEN job' = Idle
              ELSE job' = [job EXCEPT !.loose = @ \ {i}]
        BY <3>1 DEF RepairBlob
      <4>2. Deletable(db, i)
        BY <2>2, <4>1 DEF Repairing, Deletable
      <4>3. job' = [job EXCEPT !.loose = @ \ {i}]
        BY <4>1, <4>2
      <4> QED  BY <2>1, <2>2, <4>3 DEF Repairing, Idle
    <3> QED  BY <3>1
  <2>7. RepairDone
    BY <2>1, <2>3, <2>4, <2>5, <2>6 DEF BlobsNext, Repair
  <2> QED  BY <2>2, <2>7 DEF RepairDone, Live, Named
<1>2. BlobsInv /\ CountsInv /\ [BlobsNext]_blobVars => [Heals]_blobVars
  BY <1>1
<1>3. BlobsSpec => [](BlobsInv /\ CountsInv)
  BY CountsInvariant
<1> QED  BY <1>2, <1>3, PTL DEF BlobsSpec, RepairHeals

-----------------------------------------------------------------------------
(* The catalogue *)

\* A table is finite and keyed by its ids; the fields of pulses by group and ordinal.
Keyed(S) == /\ IsFiniteSet(S) /\ \A r \in S : r.id \in Nat \ {0}
            /\ \A r, q \in S : r.id = q.id => r = q
FieldsKeyed == /\ IsFiniteSet(fields)
               /\ \A f, h \in fields : f.group = h.group /\ f.ordinal = h.ordinal => f = h
TablesKeyed == Keyed(trains) /\ Keyed(recordsGroups) /\ Keyed(signals) /\ FieldsKeyed
OneToa == \A g \in recordsGroups : g.toa = {} \/ \E c \in RecordContents : g.toa = {c}

\* The columns whose contents are at c.
SignalsAt(c) == {s \in signals : s.blob = c}
ToasAt(c) == {g \in recordsGroups : c \in g.toa}
FieldsAt(c) == {f \in fields : f.blob = c}
ColumnsCounted ==
  /\ count \in [RecordContents -> Int]
  /\ \A c \in RecordContents :
       count[c] = Cardinality(SignalsAt(c)) + Cardinality(ToasAt(c)) + Cardinality(FieldsAt(c))

\* The edit that is going on is of a signal that is there.
EditHeld ==
  \/ edit = Records!NoEdit
  \/ /\ edit = [id |-> edit.id, cleared |-> edit.cleared, left |-> edit.left]
     /\ edit.id \in Records!IdsOf(signals) /\ \A m \in edit.left : m.signal = edit.id

RecordsInv == TablesKeyed /\ OneToa /\ ColumnsCounted /\ EditHeld /\ Records!CatalogTypeOK

-----------------------------------------------------------------------------
\* A finite set of numbers that is not empty has a largest.
LEMMA LargestExists ==
  ASSUME NEW I \in SUBSET Nat, IsFiniteSet(I), I # {}
  PROVE  \E m \in I : \A k \in I : k <= m
<1> DEFINE Bad(S) == S \in SUBSET Nat /\ IsFiniteSet(S) /\ S # {} /\ ~\E m \in S : \A k \in S : k <= m
           B == {n \in Nat : \E S \in SUBSET Nat : Bad(S) /\ Cardinality(S) = n}
<1>1. SUFFICES ASSUME Bad(I) PROVE FALSE
  OBVIOUS
<1>2. B # {} /\ B \in SUBSET Nat
  BY <1>1, FS_CardinalityType
<1>3. PICK n \in B : \A m \in B : n <= m
  BY <1>2, LeastExists
<1>4. PICK S \in SUBSET Nat : Bad(S) /\ Cardinality(S) = n
  BY <1>3
<1>5. PICK x \in S : TRUE
  BY <1>4
<1> DEFINE R == S \ {x}
<1>6. IsFiniteSet(R) /\ Cardinality(R) = n - 1 /\ R \in SUBSET Nat /\ n \in Nat
  BY <1>3, <1>4, <1>5, FS_RemoveElement
<1>7. n - 1 \notin B
  BY <1>3, <1>6
<1>8. Cardinality(R) \in Nat
  BY <1>6, FS_CardinalityType
<1>9. ~Bad(R)
  BY <1>6, <1>7, <1>8
<1>10. CASE R = {}
  <2>1. S = {x}
    BY <1>10
  <2> QED  BY <1>4, <1>5, <2>1
<1>11. CASE R # {}
  <2>1. PICK y \in R : \A k \in R : k <= y
    BY <1>6, <1>9, <1>11
  <2>2. \A k \in S : k = x \/ k \in R
    OBVIOUS
  <2>3. CASE x <= y
    BY <1>4, <2>1, <2>2, <2>3
  <2>4. CASE ~(x <= y)
    <3>1. \A k \in S : k <= x
      BY <1>4, <1>5, <2>1, <2>2, <2>4
    <3> QED  BY <1>4, <1>5, <3>1
  <2> QED  BY <2>3, <2>4
<1> QED  BY <1>10, <1>11

\* An id that is given out is one above all that there are.
LEMMA NextIdIsNew ==
  ASSUME NEW S, Keyed(S)
  PROVE  Records!NextId(S) \in Nat \ {0} /\ \A r \in S : r.id # Records!NextId(S)
<1>1. CASE S = {}
  BY <1>1 DEF Records!NextId
<1>2. CASE S # {}
  <2> DEFINE I == Records!IdsOf(S)
  <2>1. I = {r.id : r \in S}
    BY DEF Records!IdsOf
  <2>2. IsFiniteSet(I) /\ I \in SUBSET Nat /\ I # {}
    <3>1. IsFiniteSet({r.id : r \in S})
      <4>1. PICK f : f = [r \in S |-> r.id]
        OBVIOUS
      <4>2. f \in Surjection(S, {r.id : r \in S})
        BY <4>1 DEF Surjection
      <4> QED  BY <4>2, FS_Surjection DEF Keyed
    <3> QED  BY <1>2, <2>1, <3>1 DEF Keyed
  <2>3. PICK m \in I : \A k \in I : k <= m
    BY <2>2, LargestExists
  <2>4. PICK h : h = CHOOSE i \in I : \A j \in I : j <= i
    OBVIOUS
  <2>5. h \in I /\ \A j \in I : j <= h
    BY <2>3, <2>4
  <2>6. Records!NextId(S) = 1 + h
    BY <1>2, <2>4 DEF Records!NextId
  <2> HIDE DEF I
  <2>7. \A r \in S : r.id \in I
    BY <2>1
  <2> QED  BY <2>2, <2>5, <2>6, <2>7
<1> QED  BY <1>1, <1>2

LEMMA OneRowMore ==
  ASSUME NEW S, Keyed(S), NEW x, x.id = Records!NextId(S)
  PROVE  Keyed(S \cup {x}) /\ x \notin S
<1>1. x.id \in Nat \ {0} /\ \A r \in S : r.id # x.id
  BY NextIdIsNew
<1>2. IsFiniteSet(S \cup {x})
  BY FS_AddElement DEF Keyed
<1> QED  BY <1>1, <1>2 DEF Keyed

LEMMA FewerRows ==
  ASSUME NEW S, Keyed(S), NEW T \in SUBSET S
  PROVE  Keyed(T)
<1>1. IsFiniteSet(T)
  BY FS_Subset DEF Keyed
<1> QED  BY <1>1 DEF Keyed

\* A set that is renamed has as many members as before.
LEMMA Renamed ==
  ASSUME NEW S, NEW T, IsFiniteSet(S), NEW f \in [S -> T],
         \A x, y \in S : f[x] = f[y] => x = y, \A t \in T : \E x \in S : f[x] = t
  PROVE  IsFiniteSet(T) /\ Cardinality(T) = Cardinality(S)
<1>1. f \in Bijection(S, T)
  BY DEF Bijection, Injection, Surjection, IsInjective
<1> QED  BY <1>1, FS_Bijection DEF ExistsBijection

LEMMA Apart ==
  ASSUME NEW S, NEW T, IsFiniteSet(S), IsFiniteSet(T), S \cap T = {}
  PROVE  IsFiniteSet(S \cup T) /\ Cardinality(S \cup T) = Cardinality(S) + Cardinality(T)
<1>1. Cardinality(S \cap T) = 0
  BY FS_EmptySet
<1>2. IsFiniteSet(S \cup T) /\ Cardinality(S \cup T) = Cardinality(S) + Cardinality(T) - Cardinality(S \cap T)
  BY FS_Union
<1>3. Cardinality(S) \in Nat /\ Cardinality(T) \in Nat
  BY FS_CardinalityType
<1> QED  BY <1>1, <1>2, <1>3

LEMMA TakenOut ==
  ASSUME NEW S, NEW T \in SUBSET S, IsFiniteSet(S)
  PROVE  IsFiniteSet(S \ T) /\ Cardinality(S \ T) = Cardinality(S) - Cardinality(T)
<1>1. S \cap T = T
  OBVIOUS
<1> QED  BY <1>1, FS_Difference

LEMMA OneOrNone ==
  ASSUME NEW P, NEW a, NEW S, S = IF P THEN {a} ELSE {}
  PROVE  IsFiniteSet(S) /\ Cardinality(S) = IF P THEN 1 ELSE 0
<1>1. CASE P
  <2>1. S = {a}
    BY <1>1
  <2>2. IsFiniteSet({a}) /\ Cardinality({a}) = 1
    BY FS_Singleton
  <2> QED  BY <1>1, <2>1, <2>2
<1>2. CASE ~P
  <2>1. S = {}
    BY <1>2
  <2>2. IsFiniteSet({}) /\ Cardinality({}) = 0
    BY FS_EmptySet
  <2> QED  BY <1>2, <2>1, <2>2
<1> QED  BY <1>1, <1>2

LEMMA CountIsCount == \A S : Records!Cardinality(S) = Cardinality(S)
BY DEF Records!Cardinality, Cardinality

LEMMA ColumnsFinite ==
  ASSUME TablesKeyed, NEW c
  PROVE  /\ IsFiniteSet(SignalsAt(c)) /\ IsFiniteSet(ToasAt(c)) /\ IsFiniteSet(FieldsAt(c))
         /\ Cardinality(SignalsAt(c)) \in Nat /\ Cardinality(ToasAt(c)) \in Nat
         /\ Cardinality(FieldsAt(c)) \in Nat
<1>1. IsFiniteSet(signals) /\ IsFiniteSet(recordsGroups) /\ IsFiniteSet(fields)
  BY DEF TablesKeyed, Keyed, FieldsKeyed
<1>2. /\ SignalsAt(c) \in SUBSET signals /\ ToasAt(c) \in SUBSET recordsGroups
      /\ FieldsAt(c) \in SUBSET fields
  BY DEF SignalsAt, ToasAt, FieldsAt
<1>3. IsFiniteSet(SignalsAt(c)) /\ IsFiniteSet(ToasAt(c)) /\ IsFiniteSet(FieldsAt(c))
  BY <1>1, <1>2, FS_Subset
<1> QED  BY <1>3, FS_CardinalityType

LEMMA RecordsAtFirst == Records!CatalogInit => RecordsInv
<1> SUFFICES ASSUME Records!CatalogInit PROVE RecordsInv
  OBVIOUS
<1>1. TablesKeyed /\ OneToa /\ EditHeld /\ Records!CatalogTypeOK
  BY FS_EmptySet DEF Records!CatalogInit, TablesKeyed, Keyed, FieldsKeyed, OneToa, EditHeld, Records!CatalogTypeOK
<1>2. \A c \in RecordContents : SignalsAt(c) = {} /\ ToasAt(c) = {} /\ FieldsAt(c) = {}
  BY DEF Records!CatalogInit, SignalsAt, ToasAt, FieldsAt
<1>3. ColumnsCounted
  BY <1>2, FS_EmptySet DEF Records!CatalogInit, ColumnsCounted
<1> QED  BY <1>1, <1>3 DEF RecordsInv

-----------------------------------------------------------------------------
LEMMA SameRows ==
  ASSUME TablesKeyed, OneToa, ColumnsCounted,
         UNCHANGED <<trains, recordsGroups, signals, fields, count>>
  PROVE  TablesKeyed' /\ OneToa' /\ ColumnsCounted'
<1>1. \A c : SignalsAt(c)' = SignalsAt(c) /\ ToasAt(c)' = ToasAt(c) /\ FieldsAt(c)' = FieldsAt(c)
  BY DEF SignalsAt, ToasAt, FieldsAt
<1> QED  BY <1>1 DEF TablesKeyed, FieldsKeyed, OneToa, ColumnsCounted

\* A dataset or a train more; a group of signals more, without any.
LEMMA InsertDatasetKeeps ==
  ASSUME RecordsInv, Records!InsertDataset
  PROVE  RecordsInv'
<1>1. PICK x : datasets' = datasets \cup {x}
  BY DEF Records!InsertDataset
<1>2. UNCHANGED <<trains, recordsGroups, signals, fields, count, tags, tagged, mirror, edit>>
  BY DEF Records!InsertDataset
<1>3. TablesKeyed' /\ OneToa' /\ ColumnsCounted'
  BY <1>2, SameRows DEF RecordsInv
<1>4. EditHeld' /\ Records!CatalogTypeOK'
  BY <1>1, <1>2 DEF RecordsInv, EditHeld, Records!CatalogTypeOK, Records!IdsOf
<1> QED  BY <1>3, <1>4 DEF RecordsInv

LEMMA InsertTrainKeeps ==
  ASSUME RecordsInv, NEW d, Records!InsertTrain(d)
  PROVE  RecordsInv'
<1>1. PICK x : x = [id |-> Records!NextId(trains), dataset |-> d]
  OBVIOUS
<1>2. /\ x.id = Records!NextId(trains) /\ x.dataset = d /\ d \in Records!IdsOf(datasets)
      /\ trains' = trains \cup {x}
      /\ UNCHANGED <<datasets, recordsGroups, signals, fields, count, tags, tagged, mirror, edit>>
  BY <1>1 DEF Records!InsertTrain
<1>3. Keyed(trains')
  BY <1>2, OneRowMore DEF RecordsInv, TablesKeyed
<1>4. TablesKeyed'
  BY <1>2, <1>3 DEF RecordsInv, TablesKeyed, FieldsKeyed
<1>5. \A c : SignalsAt(c)' = SignalsAt(c) /\ ToasAt(c)' = ToasAt(c) /\ FieldsAt(c)' = FieldsAt(c)
  BY <1>2 DEF SignalsAt, ToasAt, FieldsAt
<1>6. OneToa' /\ ColumnsCounted' /\ EditHeld'
  BY <1>2, <1>5 DEF RecordsInv, OneToa, ColumnsCounted, EditHeld
<1>7. Records!CatalogTypeOK'
  BY <1>2 DEF RecordsInv, Records!CatalogTypeOK, Records!IdsOf
<1> QED  BY <1>4, <1>6, <1>7 DEF RecordsInv

LEMMA InsertGroupKeeps ==
  ASSUME RecordsInv, NEW t, Records!InsertGroup(t)
  PROVE  RecordsInv'
<1>1. PICK x : x = [id |-> Records!NextId(recordsGroups), train |-> t, toa |-> {}]
  OBVIOUS
<1>2. /\ x.id = Records!NextId(recordsGroups) /\ x.train = t /\ x.toa = {} /\ t \in Records!IdsOf(trains)
      /\ recordsGroups' = recordsGroups \cup {x}
      /\ UNCHANGED <<datasets, trains, signals, fields, count, tags, tagged, mirror, edit>>
  BY <1>1 DEF Records!InsertGroup
<1>3. Keyed(recordsGroups')
  BY <1>2, OneRowMore DEF RecordsInv, TablesKeyed
<1>4. TablesKeyed'
  BY <1>2, <1>3 DEF RecordsInv, TablesKeyed, FieldsKeyed
<1>5. \A c : SignalsAt(c)' = SignalsAt(c) /\ ToasAt(c)' = ToasAt(c) /\ FieldsAt(c)' = FieldsAt(c)
  BY <1>2 DEF SignalsAt, ToasAt, FieldsAt
<1>6. OneToa' /\ ColumnsCounted' /\ EditHeld'
  BY <1>2, <1>5 DEF RecordsInv, OneToa, ColumnsCounted, EditHeld
<1>7. Records!CatalogTypeOK'
  BY <1>2 DEF RecordsInv, Records!CatalogTypeOK, Records!IdsOf
<1> QED  BY <1>4, <1>6, <1>7 DEF RecordsInv

\* A signal more: its column is counted, and the old mirror of its id is gone.
LEMMA InsertSignalKeeps ==
  ASSUME RecordsInv, NEW g, NEW k \in RecordContents, NEW a, Records!InsertSignal(g, k, a)
  PROVE  RecordsInv'
<1>1. PICK x : x = [id |-> Records!NextId(signals), group |-> g.id, blob |-> k, attributes |-> a]
  OBVIOUS
<1>2. /\ x.id = Records!NextId(signals) /\ x.group = g.id /\ x.blob = k /\ g \in recordsGroups
      /\ signals' = signals \cup {x} /\ edit = Records!NoEdit
      /\ mirror' = Records!Cleared(x.id) \cup Records!MirrorRows(x.id, a)
      /\ count' = [count EXCEPT ![k] = @ + 1]
      /\ UNCHANGED <<datasets, trains, recordsGroups, fields, tags, tagged, edit>>
  BY <1>1 DEF Records!InsertSignal, Records!AtRest
<1>3. Keyed(signals') /\ x \notin signals
  BY <1>2, OneRowMore DEF RecordsInv, TablesKeyed
<1>4. TablesKeyed' /\ OneToa' /\ EditHeld'
  BY <1>2, <1>3 DEF RecordsInv, TablesKeyed, FieldsKeyed, OneToa, EditHeld
<1>5. \A c : ToasAt(c)' = ToasAt(c) /\ FieldsAt(c)' = FieldsAt(c)
  BY <1>2 DEF ToasAt, FieldsAt
<1>6. \A c : SignalsAt(c)' = IF c = k THEN SignalsAt(c) \cup {x} ELSE SignalsAt(c)
  BY <1>2 DEF SignalsAt
<1>7. \A c : x \notin SignalsAt(c)
  BY <1>3 DEF SignalsAt
<1>8. ColumnsCounted'
  <2>1. count \in [RecordContents -> Int] /\ count' \in [RecordContents -> Int]
    BY <1>2 DEF RecordsInv, ColumnsCounted
  <2>2. ASSUME NEW c \in RecordContents
        PROVE  count'[c] = Cardinality(SignalsAt(c)') + Cardinality(ToasAt(c)') + Cardinality(FieldsAt(c)')
    <3>1. count[c] = Cardinality(SignalsAt(c)) + Cardinality(ToasAt(c)) + Cardinality(FieldsAt(c))
      BY DEF RecordsInv, ColumnsCounted
    <3>2. Cardinality(SignalsAt(c)') = Cardinality(SignalsAt(c)) + IF c = k THEN 1 ELSE 0
      BY <1>6, <1>7, ColumnsFinite, FS_AddElement DEF RecordsInv
    <3>3. count'[c] = count[c] + IF c = k THEN 1 ELSE 0
      BY <1>2, <2>1
    <3>4. Cardinality(SignalsAt(c)) \in Nat /\ Cardinality(ToasAt(c)) \in Nat /\ Cardinality(FieldsAt(c)) \in Nat
      BY ColumnsFinite DEF RecordsInv
    <3> QED  BY <1>5, <3>1, <3>2, <3>3, <3>4
  <2> QED  BY <2>1, <2>2 DEF ColumnsCounted
<1>9. \A m \in mirror' : m.signal = x.id \/ m \in mirror
  BY <1>2 DEF Records!Cleared, Records!MirrorRows
<1>10. Records!CatalogTypeOK'
  BY <1>2, <1>9 DEF RecordsInv, Records!CatalogTypeOK, Records!IdsOf
<1> QED  BY <1>4, <1>8, <1>10 DEF RecordsInv

LEMMA DeleteSignalKeeps ==
  ASSUME RecordsInv, NEW s, Records!DeleteSignal(s)
  PROVE  RecordsInv'
<1>1. /\ s \in signals /\ signals' = signals \ {s} /\ edit = Records!NoEdit
      /\ tagged' = {p \in tagged : p[1] \notin Records!IdsOf({s})}
      /\ mirror' = {m \in mirror : m.signal \notin Records!IdsOf({s})}
      /\ count' = [count EXCEPT ![s.blob] = @ - 1]
      /\ UNCHANGED <<datasets, trains, recordsGroups, fields, tags, edit>>
  BY DEF Records!DeleteSignal, Records!DropSignals, Records!AtRest
<1>2. Keyed(signals')
  BY <1>1, FewerRows DEF RecordsInv, TablesKeyed
<1>3. TablesKeyed' /\ OneToa' /\ EditHeld'
  BY <1>1, <1>2 DEF RecordsInv, TablesKeyed, FieldsKeyed, OneToa, EditHeld
<1>4. \A c : ToasAt(c)' = ToasAt(c) /\ FieldsAt(c)' = FieldsAt(c)
  BY <1>1 DEF ToasAt, FieldsAt
<1>5. \A c : SignalsAt(c)' = IF c = s.blob THEN SignalsAt(c) \ {s} ELSE SignalsAt(c)
  BY <1>1 DEF SignalsAt
<1>6. s \in SignalsAt(s.blob)
  BY <1>1 DEF SignalsAt
<1>7. ColumnsCounted'
  <2>1. count \in [RecordContents -> Int] /\ count' \in [RecordContents -> Int]
    <3>1. PICK k : k = s.blob
      OBVIOUS
    <3>2. count' = [count EXCEPT ![k] = count[k] - 1] /\ count \in [RecordContents -> Int]
      BY <1>1, <3>1 DEF RecordsInv, ColumnsCounted
    <3>3. CASE k \in RecordContents
      BY <3>2, <3>3
    <3>4. CASE k \notin RecordContents
      BY <3>2, <3>4
    <3> QED  BY <3>2, <3>3, <3>4
  <2>2. ASSUME NEW c \in RecordContents
        PROVE  count'[c] = Cardinality(SignalsAt(c)') + Cardinality(ToasAt(c)') + Cardinality(FieldsAt(c)')
    <3>1. count[c] = Cardinality(SignalsAt(c)) + Cardinality(ToasAt(c)) + Cardinality(FieldsAt(c))
      BY DEF RecordsInv, ColumnsCounted
    <3>2. Cardinality(SignalsAt(c)') = Cardinality(SignalsAt(c)) - IF c = s.blob THEN 1 ELSE 0
      <4>1. c = s.blob => Cardinality(SignalsAt(c) \ {s}) = Cardinality(SignalsAt(c)) - 1
        BY <1>6, ColumnsFinite, FS_RemoveElement DEF RecordsInv
      <4> QED  BY <1>5, <4>1, ColumnsFinite DEF RecordsInv
    <3>3. count'[c] = count[c] - IF c = s.blob THEN 1 ELSE 0
      BY <1>1, <2>1
    <3>4. Cardinality(SignalsAt(c)) \in Nat /\ Cardinality(ToasAt(c)) \in Nat /\ Cardinality(FieldsAt(c)) \in Nat
      BY ColumnsFinite DEF RecordsInv
    <3> QED  BY <1>4, <3>1, <3>2, <3>3, <3>4
  <2> QED  BY <2>1, <2>2 DEF ColumnsCounted
<1>8. Records!CatalogTypeOK'
  BY <1>1 DEF RecordsInv, Records!CatalogTypeOK, Records!IdsOf
<1> QED  BY <1>3, <1>7, <1>8 DEF RecordsInv

\* Tags touch no row.
LEMMA TagsKeep ==
  ASSUME RecordsInv,
         \/ \E s, t : Records!TagSignal(s, t) \/ Records!UntagSignal(s, t)
         \/ \E t : Records!DeleteTag(t)
  PROVE  RecordsInv'
<1>1. UNCHANGED <<datasets, trains, recordsGroups, signals, fields, count, mirror, edit>>
  BY DEF Records!TagSignal, Records!UntagSignal, Records!DeleteTag, Records!rows
<1>2. TablesKeyed' /\ OneToa' /\ ColumnsCounted'
  BY <1>1, SameRows DEF RecordsInv
<1>3. EditHeld'
  BY <1>1 DEF RecordsInv, EditHeld
<1>4. \A p \in tagged' : p[1] \in Records!IdsOf(signals) /\ p[2] \in tags'
  <2>1. \A p \in tagged : p[1] \in Records!IdsOf(signals) /\ p[2] \in tags
    BY DEF RecordsInv, Records!CatalogTypeOK
  <2>2. ASSUME NEW s, NEW t, Records!TagSignal(s, t) PROVE \A p \in tagged' : p[1] \in Records!IdsOf(signals) /\ p[2] \in tags'
    <3>1. CASE s \in Records!IdsOf(signals)
      BY <2>1, <2>2, <3>1 DEF Records!TagSignal
    <3>2. CASE s \notin Records!IdsOf(signals)
      BY <2>1, <2>2, <3>2 DEF Records!TagSignal
    <3> QED  BY <3>1, <3>2
  <2>3. ASSUME NEW s, NEW t, Records!UntagSignal(s, t) PROVE \A p \in tagged' : p[1] \in Records!IdsOf(signals) /\ p[2] \in tags'
    BY <2>1, <2>3 DEF Records!UntagSignal
  <2>4. ASSUME NEW t, Records!DeleteTag(t) PROVE \A p \in tagged' : p[1] \in Records!IdsOf(signals) /\ p[2] \in tags'
    BY <2>1, <2>4 DEF Records!DeleteTag
  <2> QED  BY <2>2, <2>3, <2>4
<1>5. Records!CatalogTypeOK'
  BY <1>1, <1>4 DEF RecordsInv, Records!CatalogTypeOK
<1> QED  BY <1>2, <1>3, <1>5 DEF RecordsInv

-----------------------------------------------------------------------------
\* The columns under groups that go, of each kind.
SignalsGone(gs, c) == {s \in signals : s.group \in gs /\ s.blob = c}
ToasGone(gs, c) == {g \in recordsGroups : g.id \in gs /\ c \in g.toa}
FieldsGone(gs, c) == {f \in fields : f.group \in gs /\ f.blob = c}
Gone(gs, c) == {b \in Records!BlobsUnder(gs) : b[Len(b)] = c}

\* What is given back is as many as the columns that go.
LEMMA GivenBack ==
  ASSUME TablesKeyed, NEW gs, NEW c
  PROVE  Cardinality(Gone(gs, c))
           = Cardinality(SignalsGone(gs, c)) + Cardinality(ToasGone(gs, c)) + Cardinality(FieldsGone(gs, c))
<1> DEFINE S == SignalsGone(gs, c)
           T == ToasGone(gs, c)
           F == FieldsGone(gs, c)
           A == {<<"signal", s.id, s.blob>> : s \in S}
           B == {<<"toa", g.id, c>> : g \in T}
           C == {<<"field", f.ordinal, f.group, f.blob>> : f \in F}
<1>1. IsFiniteSet(S) /\ IsFiniteSet(T) /\ IsFiniteSet(F)
  <2>1. S \in SUBSET SignalsAt(c) /\ T \in SUBSET ToasAt(c) /\ F \in SUBSET FieldsAt(c)
    BY DEF SignalsGone, ToasGone, FieldsGone, SignalsAt, ToasAt, FieldsAt
  <2> QED  BY <2>1, ColumnsFinite, FS_Subset
<1>2. IsFiniteSet(A) /\ Cardinality(A) = Cardinality(S)
  <2>1. PICK f : f = [s \in S |-> <<"signal", s.id, s.blob>>]
    OBVIOUS
  <2>2. f \in [S -> A]
    BY <2>1
  <2>3. \A x, y \in S : f[x] = f[y] => x = y
    <3>1. \A x, y \in S : x.id = y.id => x = y
      BY DEF TablesKeyed, Keyed, SignalsGone
    <3>2. \A x, y \in S : f[x] = f[y] => x.id = y.id
      BY <2>1
    <3> QED  BY <3>1, <3>2
  <2>4. \A t \in A : \E x \in S : f[x] = t
    BY <2>1
  <2> HIDE DEF A, S
  <2> QED  BY <1>1, <2>2, <2>3, <2>4, Renamed
<1>3. IsFiniteSet(B) /\ Cardinality(B) = Cardinality(T)
  <2>1. PICK f : f = [g \in T |-> <<"toa", g.id, c>>]
    OBVIOUS
  <2>2. f \in [T -> B]
    BY <2>1
  <2>3. \A x, y \in T : f[x] = f[y] => x = y
    <3>1. \A x, y \in T : x.id = y.id => x = y
      BY DEF TablesKeyed, Keyed, ToasGone
    <3>2. \A x, y \in T : f[x] = f[y] => x.id = y.id
      BY <2>1
    <3> QED  BY <3>1, <3>2
  <2>4. \A t \in B : \E x \in T : f[x] = t
    BY <2>1
  <2> HIDE DEF B, T
  <2> QED  BY <1>1, <2>2, <2>3, <2>4, Renamed
<1>4. IsFiniteSet(C) /\ Cardinality(C) = Cardinality(F)
  <2>1. PICK f : f = [h \in F |-> <<"field", h.ordinal, h.group, h.blob>>]
    OBVIOUS
  <2>2. f \in [F -> C]
    BY <2>1
  <2>3. \A x, y \in F : f[x] = f[y] => x = y
    <3>1. \A x, y \in F : x.group = y.group /\ x.ordinal = y.ordinal => x = y
      BY DEF TablesKeyed, FieldsKeyed, FieldsGone
    <3>2. \A x, y \in F : f[x] = f[y] => x.group = y.group /\ x.ordinal = y.ordinal
      BY <2>1
    <3> QED  BY <3>1, <3>2
  <2>4. \A t \in C : \E x \in F : f[x] = t
    BY <2>1
  <2> HIDE DEF C, F
  <2> QED  BY <1>1, <2>2, <2>3, <2>4, Renamed
<1>5. Gone(gs, c) = A \cup B \cup C
  <2>1. \A b : b \in Records!BlobsUnder(gs) <=>
          \/ \E s \in signals : s.group \in gs /\ b = <<"signal", s.id, s.blob>>
          \/ \E g \in recordsGroups : g.id \in gs /\ \E k \in g.toa : b = <<"toa", g.id, k>>
          \/ \E f \in fields : f.group \in gs /\ b = <<"field", f.ordinal, f.group, f.blob>>
    <3>1. \A b : b \in {<<"signal", s.id, s.blob>> : s \in {x \in signals : x.group \in gs}}
            <=> \E s \in signals : s.group \in gs /\ b = <<"signal", s.id, s.blob>>
      OBVIOUS
    <3>2. \A b : b \in UNION {{<<"toa", g.id, k>> : k \in g.toa} : g \in {x \in recordsGroups : x.id \in gs}}
            <=> \E g \in recordsGroups : g.id \in gs /\ \E k \in g.toa : b = <<"toa", g.id, k>>
      <4> DEFINE O(g) == {<<"toa", g.id, k>> : k \in g.toa}
      <4>1. \A g, b : b \in O(g) <=> \E k \in g.toa : b = <<"toa", g.id, k>>
        OBVIOUS
      <4> HIDE DEF O
      <4>2. \A b : b \in UNION {O(g) : g \in {x \in recordsGroups : x.id \in gs}}
               <=> \E g \in recordsGroups : g.id \in gs /\ b \in O(g)
        OBVIOUS
      <4>3. \A b : b \in UNION {O(g) : g \in {x \in recordsGroups : x.id \in gs}}
               <=> \E g \in recordsGroups : g.id \in gs /\ \E k \in g.toa : b = <<"toa", g.id, k>>
        BY ONLY <4>1, <4>2, Zenon
      <4> QED  BY ONLY <4>3, Zenon DEF O
    <3>3. \A b : b \in {<<"field", f.ordinal, f.group, f.blob>> : f \in Records!FieldsUnder(gs)}
            <=> \E f \in fields : f.group \in gs /\ b = <<"field", f.ordinal, f.group, f.blob>>
      BY DEF Records!FieldsUnder
    <3>4. \A X, Y, Z, b : b \in (X \cup Y) \cup Z <=> b \in X \/ b \in Y \/ b \in Z
      OBVIOUS
    <3> DEFINE X == {<<"signal", s.id, s.blob>> : s \in {x \in signals : x.group \in gs}}
               Y == UNION {{<<"toa", g.id, k>> : k \in g.toa} : g \in {x \in recordsGroups : x.id \in gs}}
               Z == {<<"field", f.ordinal, f.group, f.blob>> : f \in Records!FieldsUnder(gs)}
    <3>5. Records!BlobsUnder(gs) = (X \cup Y) \cup Z
      BY DEF Records!BlobsUnder
    <3>6. \A b : b \in Records!BlobsUnder(gs) <=> b \in X \/ b \in Y \/ b \in Z
      BY ONLY <3>4, <3>5, Zenon
    <3> QED  BY ONLY <3>1, <3>2, <3>3, <3>6, Zenon
  <2>2. \A i, k : LET b == <<"signal", i, k>> IN b[Len(b)] = k
    OBVIOUS
  <2>3. \A i, k : LET b == <<"toa", i, k>> IN b[Len(b)] = k
    OBVIOUS
  <2>4. \A i, j, k : LET b == <<"field", i, j, k>> IN b[Len(b)] = k
    OBVIOUS
  <2>5. \A b : b \in A <=> \E s \in signals : s.group \in gs /\ s.blob = c /\ b = <<"signal", s.id, s.blob>>
    BY DEF SignalsGone
  <2>6. \A b : b \in B <=> \E g \in recordsGroups : g.id \in gs /\ c \in g.toa /\ b = <<"toa", g.id, c>>
    BY DEF ToasGone
  <2>7. \A b : b \in C <=> \E f \in fields : f.group \in gs /\ f.blob = c /\ b = <<"field", f.ordinal, f.group, f.blob>>
    BY DEF FieldsGone
  <2> HIDE DEF A, B, C
  <2>8. \A b : b \in Gone(gs, c) <=> b \in A \/ b \in B \/ b \in C
    <3> TAKE b
    <3>1. b \in Gone(gs, c) <=> b \in Records!BlobsUnder(gs) /\ b[Len(b)] = c
      BY DEF Gone
    <3>2. b \in A => b \in Gone(gs, c)
      BY <2>1, <2>2, <2>5, <3>1, SMTT(60)
    <3>3. ASSUME b \in B PROVE b \in Gone(gs, c)
      <4>1. PICK g \in recordsGroups : g.id \in gs /\ c \in g.toa /\ b = <<"toa", g.id, c>>
        BY <2>6, <3>3
      <4>2. b \in Records!BlobsUnder(gs)
        BY <2>1, <4>1, Zenon
      <4>3. b[Len(b)] = c
        BY <4>1
      <4> QED  BY <3>1, <4>2, <4>3
    <3>4. b \in C => b \in Gone(gs, c)
      BY <2>1, <2>4, <2>7, <3>1
    <3>5. ASSUME b \in Gone(gs, c) PROVE b \in A \/ b \in B \/ b \in C
      <4>1. CASE \E s \in signals : s.group \in gs /\ b = <<"signal", s.id, s.blob>>
        BY <2>2, <2>5, <3>1, <3>5, <4>1
      <4>2. CASE \E g \in recordsGroups : g.id \in gs /\ \E k \in g.toa : b = <<"toa", g.id, k>>
        BY <2>3, <2>6, <3>1, <3>5, <4>2
      <4>3. CASE \E f \in fields : f.group \in gs /\ b = <<"field", f.ordinal, f.group, f.blob>>
        BY <2>4, <2>7, <3>1, <3>5, <4>3
      <4> QED  BY <2>1, <3>1, <3>5, <4>1, <4>2, <4>3
    <3> QED  BY <3>2, <3>3, <3>4, <3>5
  <2> QED  BY <2>8
<1>6. A \cap B = {} /\ (A \cup B) \cap C = {}
  <2>1. \A b : (b \in A => b[1] = "signal") /\ (b \in B => b[1] = "toa") /\ (b \in C => b[1] = "field")
    OBVIOUS
  <2> HIDE DEF A, B, C
  <2> QED  BY <2>1
<1> HIDE DEF A, B, C, S, T, F
<1>7. IsFiniteSet(A \cup B) /\ Cardinality(A \cup B) = Cardinality(A) + Cardinality(B)
  BY <1>2, <1>3, <1>6, Apart
<1>8. Cardinality(A \cup B \cup C) = Cardinality(A \cup B) + Cardinality(C)
  BY <1>4, <1>6, <1>7, Apart
<1>9. Cardinality(Gone(gs, c)) = Cardinality(S) + Cardinality(T) + Cardinality(F)
  BY <1>2, <1>3, <1>4, <1>5, <1>7, <1>8
<1> QED  BY <1>9 DEF S, T, F

\* Groups go with what hangs from them, and what that counted is given back.
LEMMA DropKeeps ==
  ASSUME RecordsInv, NEW gs, Records!DropGroups(gs), edit = Records!NoEdit, edit' = edit, tags' = tags,
         trains' \subseteq trains,
         \A t \in trains' : t.dataset \in Records!IdsOf(datasets'),
         \A g \in recordsGroups : g.id \notin gs => g.train \in Records!IdsOf(trains')
  PROVE  RecordsInv'
<1>1. /\ recordsGroups' = {g \in recordsGroups : g.id \notin gs}
      /\ fields' = fields \ Records!FieldsUnder(gs)
      /\ signals' = signals \ Records!SignalsUnder(gs)
      /\ tagged' = {p \in tagged : p[1] \notin Records!IdsOf(Records!SignalsUnder(gs))}
      /\ mirror' = {m \in mirror : m.signal \notin Records!IdsOf(Records!SignalsUnder(gs))}
      /\ count' = [c \in RecordContents |-> count[c] - Cardinality(Gone(gs, c))]
  BY CountIsCount DEF Records!DropGroups, Records!DropSignals, Records!Released, Gone
<1>2. TablesKeyed
  BY DEF RecordsInv
<1>3. Keyed(trains') /\ Keyed(recordsGroups') /\ Keyed(signals')
  BY <1>1, <1>2, FewerRows DEF TablesKeyed
<1>4. IsFiniteSet(fields') /\ fields' \in SUBSET fields
  BY <1>1, <1>2, FS_Subset DEF TablesKeyed, FieldsKeyed
<1>5. TablesKeyed'
  BY <1>2, <1>3, <1>4 DEF TablesKeyed, FieldsKeyed
<1>6. OneToa' /\ EditHeld'
  BY <1>1 DEF RecordsInv, OneToa, EditHeld
<1>7. \A c : /\ SignalsAt(c)' = SignalsAt(c) \ SignalsGone(gs, c) /\ SignalsGone(gs, c) \in SUBSET SignalsAt(c)
             /\ ToasAt(c)' = ToasAt(c) \ ToasGone(gs, c) /\ ToasGone(gs, c) \in SUBSET ToasAt(c)
             /\ FieldsAt(c)' = FieldsAt(c) \ FieldsGone(gs, c) /\ FieldsGone(gs, c) \in SUBSET FieldsAt(c)
  BY <1>1 DEF SignalsAt, ToasAt, FieldsAt, SignalsGone, ToasGone, FieldsGone, Records!FieldsUnder, Records!SignalsUnder
<1>8. ColumnsCounted'
  <2>1. ASSUME NEW c \in RecordContents
        PROVE  /\ count'[c] \in Int
               /\ count'[c] = Cardinality(SignalsAt(c)') + Cardinality(ToasAt(c)') + Cardinality(FieldsAt(c)')
    <3>1. count[c] = Cardinality(SignalsAt(c)) + Cardinality(ToasAt(c)) + Cardinality(FieldsAt(c))
      BY DEF RecordsInv, ColumnsCounted
    <3>2. /\ IsFiniteSet(SignalsAt(c)) /\ IsFiniteSet(ToasAt(c)) /\ IsFiniteSet(FieldsAt(c))
          /\ Cardinality(SignalsAt(c)) \in Nat /\ Cardinality(ToasAt(c)) \in Nat /\ Cardinality(FieldsAt(c)) \in Nat
      BY <1>2, ColumnsFinite
    <3>3. /\ Cardinality(SignalsAt(c)') = Cardinality(SignalsAt(c)) - Cardinality(SignalsGone(gs, c))
          /\ Cardinality(ToasAt(c)') = Cardinality(ToasAt(c)) - Cardinality(ToasGone(gs, c))
          /\ Cardinality(FieldsAt(c)') = Cardinality(FieldsAt(c)) - Cardinality(FieldsGone(gs, c))
      BY <1>7, <3>2, TakenOut
    <3>4. /\ Cardinality(SignalsGone(gs, c)) \in Nat /\ Cardinality(ToasGone(gs, c)) \in Nat
          /\ Cardinality(FieldsGone(gs, c)) \in Nat
      BY <1>7, <3>2, FS_Subset, FS_CardinalityType
    <3>5. count'[c] = count[c] - (Cardinality(SignalsGone(gs, c)) + Cardinality(ToasGone(gs, c)) + Cardinality(FieldsGone(gs, c)))
      BY <1>1, <1>2, GivenBack
    <3> QED  BY <3>1, <3>2, <3>3, <3>4, <3>5
  <2>2. count' \in [RecordContents -> Int]
    BY <1>1, <2>1
  <2> QED  BY <2>1, <2>2 DEF ColumnsCounted
<1>9. Records!CatalogTypeOK'
  <2>0. Records!CatalogTypeOK
    BY DEF RecordsInv
  <2>1. \A s \in signals' : s.group \in Records!IdsOf(recordsGroups')
    BY <1>1, <2>0 DEF Records!CatalogTypeOK, Records!IdsOf, Records!SignalsUnder
  <2>2. \A f \in fields' : f.group \in Records!IdsOf(recordsGroups')
    BY <1>1, <2>0 DEF Records!CatalogTypeOK, Records!IdsOf, Records!FieldsUnder
  <2>3. \A g \in recordsGroups' : g.train \in Records!IdsOf(trains')
    BY <1>1
  <2>4. \A i \in Records!IdsOf(signals) : i \in Records!IdsOf(signals') \/ i \in Records!IdsOf(Records!SignalsUnder(gs))
    BY <1>1 DEF Records!IdsOf
  <2>5. \A p \in tagged' : p[1] \in Records!IdsOf(signals') /\ p[2] \in tags'
    BY <1>1, <2>0, <2>4 DEF Records!CatalogTypeOK
  <2>6. \A m \in mirror' : m.signal \in Records!IdsOf(signals')
    BY <1>1, <2>0, <2>4 DEF Records!CatalogTypeOK
  <2>7. \A t \in trains' : t.dataset \in Records!IdsOf(datasets')
    OBVIOUS
  <2> QED  BY <2>1, <2>2, <2>3, <2>5, <2>6, <2>7 DEF Records!CatalogTypeOK, Records!IdsOf
<1> QED  BY <1>5, <1>6, <1>8, <1>9 DEF RecordsInv

LEMMA DeleteTrainKeeps ==
  ASSUME RecordsInv, NEW t, Records!DeleteTrain(t)
  PROVE  RecordsInv'
<1>1. PICK gs : gs = {g.id : g \in {x \in recordsGroups : x.train = t}}
  OBVIOUS
<1>2. /\ Records!DropGroups(gs) /\ trains' = {r \in trains : r.id # t} /\ edit = Records!NoEdit
      /\ edit' = edit /\ tags' = tags /\ datasets' = datasets
  BY <1>1 DEF Records!DeleteTrain, Records!AtRest
<1>3. \A g \in recordsGroups : g.id \notin gs => g.train # t
  BY <1>1
<1>4. \A g \in recordsGroups : \E r \in trains : r.id = g.train
  BY DEF RecordsInv, Records!CatalogTypeOK, Records!IdsOf
<1>5. \A g \in recordsGroups : g.id \notin gs => g.train \in Records!IdsOf(trains')
  BY <1>2, <1>3, <1>4 DEF Records!IdsOf
<1>6. \A r \in trains' : r.dataset \in Records!IdsOf(datasets')
  BY <1>2 DEF RecordsInv, Records!CatalogTypeOK, Records!IdsOf
<1> QED  BY <1>2, <1>5, <1>6, DropKeeps

LEMMA DeleteDatasetKeeps ==
  ASSUME RecordsInv, NEW d, Records!DeleteDataset(d)
  PROVE  RecordsInv'
<1>1. PICK gs : gs = {g.id : g \in {x \in recordsGroups : Records!Named(trains, x.train).dataset = d}}
  OBVIOUS
<1>2. /\ Records!DropGroups(gs) /\ trains' = {r \in trains : r.dataset # d} /\ edit = Records!NoEdit
      /\ datasets' = {r \in datasets : r.id # d} /\ edit' = edit /\ tags' = tags
  BY <1>1 DEF Records!DeleteDataset, Records!AtRest
<1>3. \A g \in recordsGroups : g.id \notin gs => Records!Named(trains, g.train).dataset # d
  BY <1>1
<1>4. ASSUME NEW g \in recordsGroups
      PROVE  Records!Named(trains, g.train) \in trains /\ Records!Named(trains, g.train).id = g.train
  <2>1. \E r \in trains : r.id = g.train
    BY DEF RecordsInv, Records!CatalogTypeOK, Records!IdsOf
  <2> QED  BY <2>1 DEF Records!Named
<1>5. \A g \in recordsGroups : g.id \notin gs => g.train \in Records!IdsOf(trains')
  BY <1>2, <1>3, <1>4 DEF Records!IdsOf
<1>6. \A r \in trains' : r.dataset \in Records!IdsOf(datasets')
  <2>1. \A r \in trains : \E x \in datasets : x.id = r.dataset
    BY DEF RecordsInv, Records!CatalogTypeOK, Records!IdsOf
  <2> QED  BY <1>2, <2>1 DEF Records!IdsOf
<1> QED  BY <1>2, <1>5, <1>6, DropKeeps

-----------------------------------------------------------------------------
\* Another group of pulses: its column of arrival times and each of its fields.
LEMMA PulsesFinite ==
  ASSUME NEW p \in RecordPulses
  PROVE  /\ p.toa \in RecordContents /\ IsFiniteSet(DOMAIN p.fields) /\ 0 \notin DOMAIN p.fields
         /\ \A i \in DOMAIN p.fields : p.fields[i].content \in RecordContents
<1>1. /\ p.toa \in RecordContents /\ Len(p.fields) \in Nat /\ DOMAIN p.fields = 1 .. Len(p.fields)
      /\ \A i \in DOMAIN p.fields : p.fields[i].content \in RecordContents
  BY ContentsAssumed DEF Records!CatalogAssumption
<1>2. IsFiniteSet(DOMAIN p.fields)
  BY <1>1, FS_Interval
<1> QED  BY <1>1, <1>2

LEMMA InsertPulsesKeeps ==
  ASSUME RecordsInv, NEW t, NEW p \in RecordPulses, Records!InsertPulses(t, p)
  PROVE  RecordsInv'
<1>0. /\ p.toa \in RecordContents /\ IsFiniteSet(DOMAIN p.fields) /\ 0 \notin DOMAIN p.fields
      /\ \A i \in DOMAIN p.fields : p.fields[i].content \in RecordContents
  BY PulsesFinite
<1>1. PICK x : x = [id |-> Records!NextId(recordsGroups), train |-> t, toa |-> {p.toa}]
  OBVIOUS
<1>2. PICK h : h = [i \in DOMAIN p.fields |->
                     [group |-> x.id, ordinal |-> i, key |-> p.fields[i].key, blob |-> p.fields[i].content,
                      min |-> Records!Least(Records!Finite(p.fields[i].content)),
                      max |-> Records!Greatest(Records!Finite(p.fields[i].content))]]
  OBVIOUS
<1> DEFINE D == DOMAIN p.fields
           H == {h[i] : i \in D}
           columns == {<<0, p.toa>>} \cup {<<i, p.fields[i].content>> : i \in D}
<1>3. /\ x.id = Records!NextId(recordsGroups) /\ x.train = t /\ x.toa = {p.toa}
      /\ t \in Records!IdsOf(trains)
  BY <1>1 DEF Records!InsertPulses
<1>4. \A i \in D : h[i].group = x.id /\ h[i].ordinal = i /\ h[i].blob = p.fields[i].content
  BY <1>2
<1>5. /\ recordsGroups' = recordsGroups \cup {x} /\ fields' = fields \cup H /\ edit = Records!NoEdit
      /\ count' = [c \in RecordContents |-> count[c] + Records!Uses(columns, c)]
      /\ UNCHANGED <<datasets, trains, signals, tags, tagged, mirror, edit>>
  <2>1. H = {[group |-> Records!NextId(recordsGroups), ordinal |-> i, key |-> p.fields[i].key,
              blob |-> p.fields[i].content,
              min |-> Records!Least(Records!Finite(p.fields[i].content)),
              max |-> Records!Greatest(Records!Finite(p.fields[i].content))] : i \in D}
    BY <1>2, <1>3
  <2> HIDE DEF H
  <2> QED  BY <1>1, <2>1 DEF Records!InsertPulses, Records!AtRest
<1>6. Keyed(recordsGroups') /\ x \notin recordsGroups
  BY <1>3, <1>5, OneRowMore DEF RecordsInv, TablesKeyed
<1>7. \A g \in recordsGroups : g.id # x.id
  BY <1>3, NextIdIsNew DEF RecordsInv, TablesKeyed
<1>8. \A f \in fields : f.group # x.id
  BY <1>7 DEF RecordsInv, Records!CatalogTypeOK, Records!IdsOf
<1>9. IsFiniteSet(H)
  <2>1. h \in Surjection(D, H)
    BY <1>2 DEF Surjection
  <2> HIDE DEF H, D
  <2> QED  BY <1>0, <2>1, FS_Surjection DEF D
<1> HIDE DEF H
<1>10. \A f \in H : \E i \in D : f = h[i]
  BY DEF H
<1>11. FieldsKeyed'
  <2>1. IsFiniteSet(fields) /\ \A f, e \in fields : f.group = e.group /\ f.ordinal = e.ordinal => f = e
    BY DEF RecordsInv, TablesKeyed, FieldsKeyed
  <2>2. IsFiniteSet(fields')
    BY <1>5, <1>9, <2>1, FS_Union
  <2>3. \A f, e \in H : f.ordinal = e.ordinal => f = e
    BY <1>4, <1>10
  <2>4. \A f \in H : f.group = x.id
    BY <1>4, <1>10
  <2>5. \A f, e \in fields' : f.group = e.group /\ f.ordinal = e.ordinal => f = e
    BY <1>5, <1>8, <2>1, <2>3, <2>4
  <2> QED  BY <2>2, <2>5 DEF FieldsKeyed
<1>12. TablesKeyed'
  BY <1>5, <1>6, <1>11 DEF RecordsInv, TablesKeyed
<1>13. OneToa' /\ EditHeld'
  BY <1>0, <1>3, <1>5 DEF RecordsInv, OneToa, EditHeld
<1>14. Records!CatalogTypeOK'
  <2>1. Records!CatalogTypeOK
    BY DEF RecordsInv
  <2>2. \A f \in fields' : f \in fields \/ f.group = x.id
    BY <1>4, <1>5, <1>10
  <2> QED  BY <1>3, <1>5, <2>1, <2>2 DEF Records!CatalogTypeOK, Records!IdsOf
<1> DEFINE New(c) == {i \in D : p.fields[i].content = c}
<1>15. ASSUME NEW c \in RecordContents
       PROVE  /\ count'[c] \in Int
              /\ count'[c] = Cardinality(SignalsAt(c)') + Cardinality(ToasAt(c)') + Cardinality(FieldsAt(c)')
  <2> DEFINE T == IF p.toa = c THEN {x} ELSE {}
             F == {f \in H : f.blob = c}
             U == {u \in columns : u[2] = c}
             U0 == IF p.toa = c THEN {<<0, p.toa>>} ELSE {}
             U1 == {<<i, p.fields[i].content>> : i \in New(c)}
  <2>1. SignalsAt(c)' = SignalsAt(c) /\ ToasAt(c)' = ToasAt(c) \cup T /\ FieldsAt(c)' = FieldsAt(c) \cup F
    BY <1>3, <1>5 DEF SignalsAt, ToasAt, FieldsAt
  <2>2. ToasAt(c) \cap T = {} /\ FieldsAt(c) \cap F = {}
    BY <1>4, <1>6, <1>8, <1>10 DEF ToasAt, FieldsAt
  <2>3. IsFiniteSet(New(c)) /\ Cardinality(New(c)) \in Nat
    BY <1>0, FS_Subset, FS_CardinalityType
  <2>4. IsFiniteSet(F) /\ Cardinality(F) = Cardinality(New(c))
    <3>1. PICK e : e = [i \in New(c) |-> h[i]]
      OBVIOUS
    <3>2. e \in [New(c) -> F]
      BY <1>4, <3>1 DEF H
    <3>3. \A i, j \in New(c) : e[i] = e[j] => i = j
      BY <1>4, <3>1
    <3>4. \A f \in F : \E i \in New(c) : e[i] = f
      BY <1>4, <1>10, <3>1
    <3> HIDE DEF F, New
    <3> QED  BY <2>3, <3>2, <3>3, <3>4, Renamed
  <2>5. IsFiniteSet(U1) /\ Cardinality(U1) = Cardinality(New(c))
    <3>1. PICK e : e = [i \in New(c) |-> <<i, p.fields[i].content>>]
      OBVIOUS
    <3>2. e \in [New(c) -> U1]
      BY <3>1
    <3>3. \A i, j \in New(c) : e[i] = e[j] => i = j
      BY <3>1
    <3>4. \A u \in U1 : \E i \in New(c) : e[i] = u
      BY <3>1
    <3> HIDE DEF U1, New
    <3> QED  BY <2>3, <3>2, <3>3, <3>4, Renamed
  <2>6. U = U0 \cup U1
    <3>1. \A u : u \in U <=> u \in U0 \/ u \in U1
      <4>1. \A i, k : <<i, k>>[2] = k
        OBVIOUS
      <4> QED  BY <4>1
    <3> HIDE DEF U, U0, U1
    <3> QED  BY <3>1
  <2>7. U0 \cap U1 = {}
    <3>1. (\A u \in U0 : u[1] = 0) /\ \A u \in U1 : u[1] \in D
      OBVIOUS
    <3> HIDE DEF U0, U1
    <3> QED  BY <1>0, <3>1
  <2>8. IsFiniteSet(T) /\ IsFiniteSet(U0) /\ Cardinality(T) = Cardinality(U0) /\ Cardinality(T) \in Nat
    <3>1. T = (IF p.toa = c THEN {x} ELSE {}) /\ U0 = (IF p.toa = c THEN {<<0, p.toa>>} ELSE {})
      OBVIOUS
    <3> HIDE DEF T, U0
    <3>2. IsFiniteSet(T) /\ Cardinality(T) = IF p.toa = c THEN 1 ELSE 0
      BY <3>1, OneOrNone
    <3>3. IsFiniteSet(U0) /\ Cardinality(U0) = IF p.toa = c THEN 1 ELSE 0
      BY <3>1, OneOrNone
    <3> QED  BY <3>2, <3>3
  <2>9. Records!Uses(columns, c) = Cardinality(U)
    BY CountIsCount DEF Records!Uses
  <2> HIDE DEF T, F, U, U0, U1, New, columns
  <2>10. Cardinality(U) = Cardinality(U0) + Cardinality(U1)
    BY <2>5, <2>6, <2>7, <2>8, Apart
  <2>11. /\ IsFiniteSet(ToasAt(c)) /\ IsFiniteSet(FieldsAt(c))
         /\ Cardinality(SignalsAt(c)) \in Nat /\ Cardinality(ToasAt(c)) \in Nat /\ Cardinality(FieldsAt(c)) \in Nat
    BY ColumnsFinite DEF RecordsInv
  <2>12. Cardinality(ToasAt(c)') = Cardinality(ToasAt(c)) + Cardinality(T)
    BY <2>1, <2>2, <2>8, <2>11, Apart
  <2>13. Cardinality(FieldsAt(c)') = Cardinality(FieldsAt(c)) + Cardinality(F)
    BY <2>1, <2>2, <2>4, <2>11, Apart
  <2>14. count[c] = Cardinality(SignalsAt(c)) + Cardinality(ToasAt(c)) + Cardinality(FieldsAt(c))
    BY DEF RecordsInv, ColumnsCounted
  <2>15. count'[c] = count[c] + Cardinality(U)
    BY <1>5, <2>9
  <2> QED  BY <2>1, <2>3, <2>4, <2>5, <2>8, <2>10, <2>11, <2>12, <2>13, <2>14, <2>15
<1>16. count' \in [RecordContents -> Int]
  BY <1>5, <1>15
<1>17. ColumnsCounted'
  BY <1>15, <1>16 DEF ColumnsCounted
<1> QED  BY <1>12, <1>13, <1>14, <1>17 DEF RecordsInv

\* The row of a signal with other attributes has the id and the column it had.
LEMMA UpdateAttributesKeeps ==
  ASSUME RecordsInv, NEW s, NEW a, Records!UpdateAttributes(s, a)
  PROVE  RecordsInv'
<1>1. PICK x : x = [s EXCEPT !.attributes = a]
  OBVIOUS
<1> DEFINE R == signals \ {s}
<1>2. /\ s \in signals /\ signals' = R \cup {x}
      /\ edit' = [id |-> s.id, cleared |-> FALSE, left |-> Records!MirrorRows(s.id, a)]
      /\ UNCHANGED <<datasets, trains, recordsGroups, fields, count, tags, tagged, mirror>>
  BY <1>1 DEF Records!UpdateAttributes
<1>3. x.id = s.id /\ x.group = s.group /\ x.blob = s.blob
  BY <1>1
<1>4. Keyed(signals)
  BY DEF RecordsInv, TablesKeyed
<1>5. Keyed(signals') /\ x \notin R
  <2>1. IsFiniteSet(R)
    BY <1>4, FS_Subset DEF Keyed
  <2>2. \A r \in R : r.id # s.id
    BY <1>2, <1>4 DEF Keyed
  <2>3. x \notin R
    BY <1>3, <2>2
  <2>4. IsFiniteSet(signals')
    BY <1>2, <2>1, FS_AddElement
  <2>5. \A r \in signals' : r.id \in Nat \ {0}
    BY <1>2, <1>3, <1>4 DEF Keyed
  <2>6. \A r, q \in signals' : r.id = q.id => r = q
    BY <1>2, <1>3, <1>4, <2>2 DEF Keyed
  <2> QED  BY <2>3, <2>4, <2>5, <2>6 DEF Keyed
<1>6. TablesKeyed' /\ OneToa'
  BY <1>2, <1>5 DEF RecordsInv, TablesKeyed, FieldsKeyed, OneToa
<1>7. Records!IdsOf(signals') = Records!IdsOf(signals)
  <2>1. \A i : i \in Records!IdsOf(signals') <=> i \in Records!IdsOf(signals)
    BY <1>2, <1>3 DEF Records!IdsOf
  <2> QED  BY <2>1
<1>8. Records!CatalogTypeOK'
  <2>1. \A r \in signals' : r.group \in Records!IdsOf(recordsGroups)
    BY <1>2, <1>3 DEF RecordsInv, Records!CatalogTypeOK
  <2> QED  BY <1>2, <1>7, <2>1 DEF RecordsInv, Records!CatalogTypeOK
<1>9. EditHeld'
  <2>1. \A m \in Records!MirrorRows(s.id, a) : m.signal = s.id
    BY DEF Records!MirrorRows
  <2>2. s.id \in Records!IdsOf(signals')
    BY <1>2, <1>7 DEF Records!IdsOf
  <2> QED  BY <1>2, <2>1, <2>2 DEF EditHeld
<1>10. \A c : ToasAt(c)' = ToasAt(c) /\ FieldsAt(c)' = FieldsAt(c)
  BY <1>2 DEF ToasAt, FieldsAt
<1>11. ASSUME NEW c PROVE Cardinality(SignalsAt(c)') = Cardinality(SignalsAt(c))
  <2>1. IsFiniteSet(SignalsAt(c))
    BY ColumnsFinite DEF RecordsInv
  <2>2. CASE s.blob = c
    <3>1. SignalsAt(c)' = (SignalsAt(c) \ {s}) \cup {x} /\ s \in SignalsAt(c)
      BY <1>2, <1>3, <2>2 DEF SignalsAt
    <3>2. x \notin SignalsAt(c) \ {s}
      BY <1>5 DEF SignalsAt
    <3>3. IsFiniteSet(SignalsAt(c) \ {s}) /\ Cardinality(SignalsAt(c) \ {s}) = Cardinality(SignalsAt(c)) - 1
      BY <2>1, <3>1, FS_RemoveElement
    <3>4. Cardinality(SignalsAt(c)') = Cardinality(SignalsAt(c) \ {s}) + 1
      BY <3>1, <3>2, <3>3, FS_AddElement
    <3>5. Cardinality(SignalsAt(c)) \in Nat
      BY <2>1, FS_CardinalityType
    <3> QED  BY <3>3, <3>4, <3>5
  <2>3. CASE s.blob # c
    <3>1. SignalsAt(c)' = SignalsAt(c)
      BY <1>2, <1>3, <2>3 DEF SignalsAt
    <3> QED  BY <3>1
  <2> QED  BY <2>2, <2>3
<1>12. ColumnsCounted'
  BY <1>2, <1>10, <1>11 DEF RecordsInv, ColumnsCounted
<1> QED  BY <1>6, <1>8, <1>9, <1>12 DEF RecordsInv

\* The statements of the edit write the mirror of a signal that is there.
LEMMA ClearMirrorKeeps ==
  ASSUME RecordsInv, Records!ClearMirror
  PROVE  RecordsInv'
<1>1. /\ edit # Records!NoEdit /\ mirror' \subseteq mirror
      /\ edit' = IF edit.left = {} THEN Records!NoEdit ELSE [edit EXCEPT !.cleared = TRUE]
      /\ UNCHANGED <<datasets, trains, recordsGroups, signals, fields, count, tags, tagged>>
  BY DEF Records!ClearMirror, Records!AtRest, Records!rows, Records!Cleared
<1>2. TablesKeyed' /\ OneToa' /\ ColumnsCounted'
  BY <1>1, SameRows DEF RecordsInv
<1>3. PICK i, b, l : edit = [id |-> i, cleared |-> b, left |-> l]
                     /\ i \in Records!IdsOf(signals) /\ \A m \in l : m.signal = i
  BY <1>1, Zenon DEF RecordsInv, EditHeld
<1>4. edit' = Records!NoEdit \/ edit' = [id |-> i, cleared |-> TRUE, left |-> l]
  BY <1>1, <1>3
<1>5. EditHeld'
  BY <1>1, <1>3, <1>4 DEF EditHeld
<1>6. Records!CatalogTypeOK'
  BY <1>1 DEF RecordsInv, Records!CatalogTypeOK
<1> QED  BY <1>2, <1>5, <1>6 DEF RecordsInv

LEMMA FillMirrorKeeps ==
  ASSUME RecordsInv, edit # Records!NoEdit, NEW m, Records!FillMirror(m)
  PROVE  RecordsInv'
<1>1. /\ m \in edit.left /\ mirror' = mirror \cup {m}
      /\ edit' = IF edit.left = {m} THEN Records!NoEdit ELSE [edit EXCEPT !.left = edit.left \ {m}]
      /\ UNCHANGED <<datasets, trains, recordsGroups, signals, fields, count, tags, tagged>>
  BY DEF Records!FillMirror, Records!rows
<1>2. TablesKeyed' /\ OneToa' /\ ColumnsCounted'
  BY <1>1, SameRows DEF RecordsInv
<1>3. PICK i, b, l : edit = [id |-> i, cleared |-> b, left |-> l]
                     /\ i \in Records!IdsOf(signals) /\ \A r \in l : r.signal = i
  BY Zenon DEF RecordsInv, EditHeld
<1>4. edit' = Records!NoEdit \/ edit' = [id |-> i, cleared |-> b, left |-> l \ {m}]
  BY <1>1, <1>3
<1>5. EditHeld'
  BY <1>1, <1>3, <1>4 DEF EditHeld
<1>6. m.signal \in Records!IdsOf(signals)
  BY <1>1, <1>3
<1>7. Records!CatalogTypeOK'
  BY <1>1, <1>6 DEF RecordsInv, Records!CatalogTypeOK
<1> QED  BY <1>2, <1>5, <1>7 DEF RecordsInv

LEMMA RecordsStay ==
  ASSUME RecordsInv, Records!CatalogNext
  PROVE  RecordsInv'
<1>1. CASE Records!InsertDataset
  BY <1>1, InsertDatasetKeeps
<1>2. CASE Records!ClearMirror
  BY <1>2, ClearMirrorKeeps
<1>3. ASSUME NEW d, Records!InsertTrain(d) PROVE RecordsInv'
  BY <1>3, InsertTrainKeeps
<1>4. ASSUME NEW d, Records!DeleteDataset(d) PROVE RecordsInv'
  BY <1>4, DeleteDatasetKeeps
<1>5. ASSUME NEW t, Records!InsertGroup(t) PROVE RecordsInv'
  BY <1>5, InsertGroupKeeps
<1>6. ASSUME NEW t, Records!DeleteTrain(t) PROVE RecordsInv'
  BY <1>6, DeleteTrainKeeps
<1>7. ASSUME NEW t, NEW p \in RecordPulses, Records!InsertPulses(t, p) PROVE RecordsInv'
  BY <1>7, InsertPulsesKeeps
<1>8. ASSUME NEW g, NEW c \in RecordContents, NEW a, Records!InsertSignal(g, c, a) PROVE RecordsInv'
  BY <1>8, InsertSignalKeeps
<1>9. ASSUME NEW s, Records!DeleteSignal(s) PROVE RecordsInv'
  BY <1>9, DeleteSignalKeeps
<1>10. ASSUME NEW s, NEW a, Records!UpdateAttributes(s, a) PROVE RecordsInv'
  BY <1>10, UpdateAttributesKeeps
<1>11. ASSUME NEW s, NEW t, Records!TagSignal(s, t) \/ Records!UntagSignal(s, t) PROVE RecordsInv'
  BY <1>11, TagsKeep
<1>12. ASSUME NEW t, Records!DeleteTag(t) PROVE RecordsInv'
  BY <1>12, TagsKeep
<1>13. ASSUME NEW m, edit # Records!NoEdit, Records!FillMirror(m) PROVE RecordsInv'
  BY <1>13, FillMirrorKeeps
<1> QED
  BY <1>1, <1>2, <1>3, <1>4, <1>5, <1>6, <1>7, <1>8, <1>9, <1>10, <1>11, <1>12, <1>13, Zenon
  DEF Records!CatalogNext, Records!AtRest

LEMMA CountedExactly == RecordsInv => Records!BlobsCounted
<1> SUFFICES ASSUME RecordsInv, NEW c \in RecordContents
             PROVE  count[c] = Records!Cardinality({s \in signals : s.blob = c})
                               + Records!Cardinality({g \in recordsGroups : c \in g.toa})
                               + Records!Cardinality({f \in fields : f.blob = c})
  BY DEF Records!BlobsCounted
<1> QED  BY CountIsCount DEF RecordsInv, ColumnsCounted, SignalsAt, ToasAt, FieldsAt

-----------------------------------------------------------------------------
(* Files *)

LEMMA Appended ==
  ASSUME NEW S, NEW s \in Seq(S), NEW e, NEW t, t = Append(s, e)
  PROVE  /\ DOMAIN t = (DOMAIN s) \cup {Len(s) + 1} /\ Len(s) + 1 \notin DOMAIN s
         /\ \A i \in DOMAIN s : t[i] = s[i] /\ s[i] \in S
         /\ t[Len(s) + 1] = e /\ (e \in S => t \in Seq(S))
OBVIOUS

LEMMA Behead ==
  ASSUME NEW S, NEW s \in Seq(S), s # <<>>
  PROVE  /\ Head(s) = s[1] /\ s[1] \in S /\ 1 \in DOMAIN s /\ Tail(s) \in Seq(S)
         /\ \A i \in DOMAIN Tail(s) : i + 1 \in DOMAIN s /\ Tail(s)[i] = s[i + 1] /\ i + 1 # 1 /\ i \in Nat
         /\ \A i \in DOMAIN s : i = 1 \/ (i - 1 \in DOMAIN Tail(s) /\ Tail(s)[i - 1] = s[i])
OBVIOUS

LEMMA AppendedIs ==
  ASSUME NEW S, NEW s \in Seq(S), NEW e, NEW m, m = Len(s) + 1
  PROVE  Append(s, e) = [g \in 1..m |-> IF g = m THEN e ELSE s[g]]
<1>1. PICK t : t = Append(s, e)
  OBVIOUS
<1>2. PICK T : T = S \cup {e}
  OBVIOUS
<1>3. s \in Seq(T) /\ e \in T
  BY <1>2
<1>4. t \in Seq(T) /\ Len(t) = m /\ t[m] = e /\ \A g \in 1..Len(s) : t[g] = s[g]
  BY <1>1, <1>3
<1>5. t = [g \in 1..m |-> t[g]]
  BY <1>4
<1>6. \A g \in 1..m : t[g] = IF g = m THEN e ELSE s[g]
  BY <1>4
<1>7. t = [g \in 1..m |-> IF g = m THEN e ELSE s[g]]
  BY <1>5, <1>6
<1> QED  BY <1>1, <1>7

\* A row of pulses, a group that was inserted, and the block that is being read.
RowOf(a) == [1..a -> CsvCells]
GroupOf(a) == [values : [1..CsvGroupArity - 1 -> CsvCells], declared : Nat, rows : Seq(RowOf(a)), sound : BOOLEAN]
FullBlock(a) == [values : [1..CsvGroupArity -> CsvCells], declared : 0..CsvUnknown, rows : Seq(RowOf(a)), sound : BOOLEAN]
Framing == filesPhase \in {"rows", "close"}
FramesWell == filesPhase \in {"group", "rows", "close", "done"}
CsvTypes ==
  /\ mode \in Files!Modes /\ arity \in CsvArities /\ pass \in 1..2
  /\ filesPhase \in {"group", "rows", "close", "done", "failed", "cancelled"}
  /\ file \in Seq(Files!Lines) /\ read \in Seq(Files!Lines) /\ pending \in Files!Lines \cup {Files!NoLine}
  /\ filesGroups \in Seq(GroupOf(arity)) /\ store \in Seq(GroupOf(arity)) /\ first \in Seq(GroupOf(arity))
  /\ block \in FullBlock(arity) \cup {Files!NoBlock} /\ (Framing => block \in FullBlock(arity))
  /\ (Files!Known => Len(block.rows) <= block.declared)
  /\ (filesPhase = "rows" => pending = Files!NoLine)

\* What is stored of a cell is stored of that again; the same of a group's columns.
Settled(c) == Files!Stored(c) = c /\ CsvNumbers[c] # Files!Unreadable
RowsSettled(rs, a) == \A k \in 1..Len(rs) : \A i \in 1..a : Settled(rs[k][i])
GroupSettled(g, a) ==
  (\A i \in 1..CsvGroupArity - 1 : CsvForms[g.values[i]] = g.values[i]) /\ RowsSettled(g.rows, a)
AllSettled ==
  /\ (Framing => RowsSettled(block.rows, arity))
  /\ \A n \in 1..Len(filesGroups) : GroupSettled(filesGroups[n], arity)
  /\ \A n \in 1..Len(first) : GroupSettled(first[n], arity)

\* Strict mode lets a group through only if its row and its count are right.
Met(g) == g.sound /\ g.declared = Len(g.rows)
AllMet == mode = "strict" => /\ (Framing => block.sound)
                             /\ \A n \in 1..Len(filesGroups) : Met(filesGroups[n])

\* The lines before each group, and where they went: off[n] lines are those of n groups.
Offsets(off, gs) == /\ off \in [0..Len(gs) -> Nat] /\ off[0] = 0
                 /\ \A n \in 1..Len(gs) : off[n] = off[n - 1] + 1 + Len(gs[n].rows)
Copied(rs, at, lines, a) == \A k \in 1..Len(rs) :
  at + 1 + k <= Len(lines) /\ \A i \in 1..a : rs[k][i] = Files!Stored(lines[at + 1 + k].cells[i])
OnHold == IF pending = Files!NoLine THEN 0 ELSE 1
LinesAt(off) ==
  /\ Offsets(off, filesGroups)
  /\ \A n \in 1..Len(filesGroups) : Copied(filesGroups[n].rows, off[n - 1], read, arity)
  /\ filesPhase \in {"group", "done"} => off[Len(filesGroups)] + OnHold = Len(read)
  /\ Framing => /\ off[Len(filesGroups)] + 1 + Len(block.rows) + OnHold = Len(read)
                /\ Copied(block.rows, off[Len(filesGroups)], read, arity)
LinesInv == FramesWell => \E off : LinesAt(off)

\* A group of a file is shorter than the file.
Short(gs) == \A n \in 1..Len(gs) : Len(gs[n].rows) < CsvLines
AllShort == /\ Short(first)
            /\ pass = 1 => first = <<>> /\ file = <<>> /\ Short(filesGroups) /\ Len(read) <= CsvLines

\* What is left of an exported file when q lines of it were read.
Left(f, q, off, gs) ==
  /\ Len(f) = off[Len(gs)] - q
  /\ \A m \in 1..Len(gs) :
       /\ q <= off[m - 1] => f[off[m - 1] + 1 - q] = Files!GroupLine(gs[m])
       /\ \A i \in 1..Len(gs[m].rows) :
            q <= off[m - 1] + i => f[off[m - 1] + 1 + i - q] = Files!PulseLine(gs[m].rows[i])
AllWritable == \A n \in DOMAIN first : Files!Writable(first[n])
Same(g, h) == g.values = h.values /\ g.rows = h.rows
HalfSame(b, g) ==
  /\ \A i \in 1..CsvGroupArity - 1 : b.values[i] = g.values[i]
  /\ b.declared = Len(g.rows) /\ Len(b.rows) <= Len(g.rows)
  /\ \A k \in 1..Len(b.rows) : b.rows[k] = g.rows[k]
BackAt(off) ==
  /\ Offsets(off, first)
  /\ filesPhase = "group" => Left(file, off[Len(filesGroups)], off, first)
  /\ Framing => /\ Len(filesGroups) < Len(first) /\ HalfSame(block, first[Len(filesGroups) + 1])
                /\ Left(file, off[Len(filesGroups)] + 1 + Len(block.rows), off, first)
  /\ filesPhase = "close" => Len(block.rows) = block.declared
  /\ filesPhase = "done" => Len(filesGroups) = Len(first)
Back == pass = 2 /\ AllWritable
ReadBack ==
  Back => /\ pending = Files!NoLine /\ filesPhase # "failed"
          /\ Len(filesGroups) <= Len(first) /\ \A n \in 1..Len(filesGroups) : Same(filesGroups[n], first[n])
          /\ FramesWell => \E off : BackAt(off)

FilesInv == /\ Files!AllOrNothing /\ CsvTypes /\ AllSettled /\ AllMet /\ LinesInv /\ AllShort /\ ReadBack

\* NEW
LEMMA CellFacts ==
  /\ CsvGroupArity \in Nat /\ CsvGroupArity > 0 /\ \A a \in CsvArities : a \in Nat /\ a > 0
  /\ CsvUnknown \in Nat /\ CsvLines \in 0..CsvUnknown /\ CsvNumbers \in [CsvCells -> Int] /\ CsvForms \in [CsvCells -> CsvCells]
  /\ CsvEmpty \in CsvCells /\ CsvNumbers[CsvEmpty] = Files!Missing /\ CsvForms[CsvEmpty] = CsvEmpty
  /\ \A c \in CsvCells : CsvNumbers[CsvForms[c]] = CsvNumbers[c] /\ CsvForms[CsvForms[c]] = CsvForms[c]
  /\ \A n \in 0..CsvLines - 1 : \E c \in CsvCells : CsvNumbers[c] = n /\ CsvForms[c] = c
BY CellsAssumed DEF Files!CsvAssumption

\* What holds of 0 and of each next number up to N holds of all of them.
LEMMA UpToN ==
  ASSUME NEW S, NEW N \in Nat, 0 \in S, \A n \in 0..N - 1 : n \in S => n + 1 \in S
  PROVE  \A n \in 0..N : n \in S
<1> DEFINE T == {n \in 0..N : n \notin S}
<1>1. SUFFICES ASSUME T # {} PROVE FALSE
  OBVIOUS
<1>2. PICK x \in T : \A y \in T : x <= y
  <2>1. T \in SUBSET Nat
    OBVIOUS
  <2> HIDE DEF T
  <2> QED  BY <1>1, <2>1, LeastExists
<1>3. x # 0 /\ x - 1 \in 0..N - 1
  BY <1>2
<1>4. x - 1 \in S
  BY <1>2, <1>3
<1> QED  BY <1>2, <1>3, <1>4

LEMMA OffsetsAgree ==
  ASSUME NEW gs, Len(gs) \in Nat, NEW a, NEW b, Offsets(a, gs), Offsets(b, gs)
  PROVE  \A n \in 0..Len(gs) : a[n] = b[n]
<1> DEFINE S == {n \in 0..Len(gs) : a[n] = b[n]}
<1>1. 0 \in S
  BY DEF Offsets
<1>2. ASSUME NEW n \in 0..Len(gs) - 1, n \in S PROVE n + 1 \in S
  <2>1. n + 1 \in 1..Len(gs) /\ (n + 1) - 1 = n
    OBVIOUS
  <2> QED  BY <1>2, <2>1 DEF Offsets
<1>3. \A n \in 0..Len(gs) : n \in S
  BY <1>1, <1>2, UpToN
<1> QED  BY <1>3

LEMMA OffsetsGrow ==
  ASSUME NEW gs, Len(gs) \in Nat, NEW off, Offsets(off, gs), \A n \in 1..Len(gs) : Len(gs[n].rows) \in Nat
  PROVE  \A k \in 0..Len(gs) : off[k] \in Nat /\ \A m \in 0..k : off[m] \in Nat /\ off[m] + (k - m) <= off[k]
<1> DEFINE S == {k \in 0..Len(gs) : \A m \in 0..k : off[m] + (k - m) <= off[k]}
<1>1. \A k \in 0..Len(gs) : off[k] \in Nat
  BY DEF Offsets
<1>2. 0 \in S
  BY <1>1
<1>3. ASSUME NEW n \in 0..Len(gs) - 1, n \in S PROVE n + 1 \in S
  <2>1. off[n + 1] = off[n] + 1 + Len(gs[n + 1].rows) /\ Len(gs[n + 1].rows) \in Nat /\ n + 1 \in 0..Len(gs)
    BY DEF Offsets
  <2>2. ASSUME NEW m \in 0..n + 1 PROVE off[m] + (n + 1 - m) <= off[n + 1]
    <3>1. m = n + 1 \/ m \in 0..n
      OBVIOUS
    <3>2. off[m] \in Nat /\ off[n] \in Nat /\ off[n + 1] \in Nat
      BY <1>1
    <3>3. m \in 0..n => off[m] + (n - m) <= off[n]
      BY <1>3
    <3> QED  BY <2>1, <3>1, <3>2, <3>3, SMTT(60)
  <2> QED  BY <2>1, <2>2
<1>4. \A n \in 0..Len(gs) : n \in S
  BY <1>2, <1>3, UpToN
<1> QED  BY <1>1, <1>4

\* One group more: its lines come after the others'.
LongerBy(b, off, n, len) == (\A m \in 0..n : b[m] = off[m]) /\ b[n + 1] = off[n] + 1 + len

LEMMA OneGroupMore ==
  ASSUME NEW G, NEW gs \in Seq(G), NEW g, Len(g.rows) \in Nat, NEW t, t = Append(gs, g),
         NEW off, Offsets(off, gs)
  PROVE  \E b : Offsets(b, t) /\ LongerBy(b, off, Len(gs), Len(g.rows))
<1>1. /\ Len(gs) \in Nat /\ Len(t) = Len(gs) + 1 /\ t[Len(gs) + 1] = g
      /\ \A n \in 1..Len(gs) : t[n] = gs[n]
  BY Appended
<1> DEFINE N == Len(gs)
           b == [n \in 0..N + 1 |-> IF n = N + 1 THEN off[N] + 1 + Len(g.rows) ELSE off[n]]
<1>2. /\ off \in [0..N -> Nat] /\ off[0] = 0 /\ \A n \in 1..N : off[n] = off[n - 1] + 1 + Len(gs[n].rows)
  BY DEF Offsets
<1>3. N \in Nat
  BY <1>1
<1>4. /\ b \in [0..N + 1 -> Nat] /\ b[N + 1] = off[N] + 1 + Len(g.rows) /\ \A n \in 0..N : b[n] = off[n]
  BY <1>2, <1>3, SMTT(60)
<1> HIDE DEF b
<1>5. ASSUME NEW n \in 1..N + 1 PROVE b[n] = b[n - 1] + 1 + Len(t[n].rows)
  <2>1. CASE n = N + 1
    <3>1. n - 1 = N /\ N \in 0..N
      BY <1>3, <2>1
    <3> QED  BY <1>1, <1>4, <2>1, <3>1
  <2>2. CASE n \in 1..N
    <3>1. n \in 0..N /\ n - 1 \in 0..N
      BY <2>2, <1>3
    <3>2. b[n] = off[n] /\ b[n - 1] = off[n - 1] /\ t[n] = gs[n]
      BY <1>4, <3>1, <2>2, <1>1
    <3> QED  BY <1>2, <3>2, <2>2
  <2> QED  BY <2>1, <2>2, <1>3
<1>6. Offsets(b, t)
  BY <1>1, <1>2, <1>3, <1>4, <1>5 DEF Offsets
<1> QED  BY <1>4, <1>6 DEF LongerBy

\* The lines before a group, as the files themselves count them.
LEMMA RowsBeforeIs ==
  ASSUME NEW off, Offsets(off, filesGroups), Len(filesGroups) \in Nat
  PROVE  \A n \in 0..Len(filesGroups) : Files!RowsBefore(n) = off[n]
<1> DEFINE N == Len(filesGroups)
           Sum(f) == f = [k \in 0..N |-> IF k = 0 THEN 0 ELSE f[k - 1] + 1 + Len(filesGroups[k].rows)]
           R == CHOOSE f : Sum(f)
<1>1. Sum(off)
  <2>1. off = [k \in 0..N |-> off[k]]
    BY DEF Offsets
  <2>2. \A k \in 0..N : off[k] = IF k = 0 THEN 0 ELSE off[k - 1] + 1 + Len(filesGroups[k].rows)
    BY DEF Offsets
  <2> QED  BY <2>1, <2>2
<1>2. Sum(R)
  BY <1>1
<1>3. \A n \in 0..N : Files!RowsBefore(n) = R[n]
  BY DEF Files!RowsBefore
<1> HIDE DEF R
<1> DEFINE S == {n \in 0..N : R[n] = off[n]}
<1>4. \A k \in 0..N : R[k] = IF k = 0 THEN 0 ELSE R[k - 1] + 1 + Len(filesGroups[k].rows)
  BY <1>2
<1>5. 0 \in S
  BY <1>4 DEF Offsets
<1>6. ASSUME NEW n \in 0..N - 1, n \in S PROVE n + 1 \in S
  <2>1. n + 1 \in 1..N /\ (n + 1) - 1 = n
    OBVIOUS
  <2> QED  BY <1>4, <1>6, <2>1 DEF Offsets
<1>7. \A n \in 0..N : n \in S
  BY <1>5, <1>6, UpToN
<1> QED  BY <1>3, <1>7

LEMMA CellsOf ==
  ASSUME NEW l \in Files!Lines
  PROVE  /\ Len(l.cells) \in Nat /\ Len(l.cells) > 0 /\ l.cells \in [1..Len(l.cells) -> CsvCells]
         /\ l # Files!NoLine /\ l.bare \in BOOLEAN /\ l = [cells |-> l.cells, bare |-> l.bare]
<1>1. PICK k \in {CsvGroupArity} \cup CsvArities : l.cells \in [1..k -> CsvCells]
  BY DEF Files!Lines
<1>2. k \in Nat /\ k > 0
  BY CellFacts
<1>3. Len(l.cells) = k
  BY <1>1, <1>2
<1>4. Files!NoLine.cells = <<>>
  BY DEF Files!NoLine
<1>5. l.cells # <<>>
  BY <1>2, <1>3
<1>6. l.bare \in BOOLEAN /\ l = [cells |-> l.cells, bare |-> l.bare]
  BY DEF Files!Lines
<1> QED  BY <1>1, <1>2, <1>3, <1>4, <1>5, <1>6

LEMMA PaddedIs ==
  ASSUME NEW l \in Files!Lines
  PROVE  /\ Files!Padded(l.cells) \in [1..CsvGroupArity -> CsvCells]
         /\ Len(l.cells) = CsvGroupArity => Files!Padded(l.cells) = l.cells
<1>1. l.cells \in [1..Len(l.cells) -> CsvCells] /\ Len(l.cells) \in Nat
  BY CellsOf
<1>2. \A i \in DOMAIN l.cells : l.cells[i] \in CsvCells
  BY <1>1
<1>3. Files!Padded(l.cells) \in [1..CsvGroupArity -> CsvCells]
  BY <1>2, CellFacts DEF Files!Padded
<1>4. ASSUME Len(l.cells) = CsvGroupArity PROVE Files!Padded(l.cells) = l.cells
  BY <1>1, <1>4 DEF Files!Padded
<1> QED  BY <1>3, <1>4

\* The line that comes up, wherever it comes from.
LEMMA LineRead ==
  ASSUME CsvTypes, NEW l \in Files!Upcoming, Files!FromFile(l)
  PROVE  /\ l \in Files!Lines /\ file' \in Seq(Files!Lines) /\ read' \in Seq(Files!Lines)
         /\ pending # Files!NoLine => l = pending /\ read' = read
         /\ pending = Files!NoLine => read' = Append(read, l) /\ (pass = 1 => Len(read) < CsvLines)
         /\ pending = Files!NoLine /\ pass = 2 => file # <<>> /\ l = Head(file) /\ file' = Tail(file)
         /\ file = <<>> => file' = <<>>
<1>1. PICK L : L = Files!Lines
  OBVIOUS
<1>2. file \in Seq(L) /\ read \in Seq(L) /\ pending \in L \cup {Files!NoLine} /\ pass \in 1..2
  BY <1>1 DEF CsvTypes
<1>3. l \in L
  <2>1. file # <<>> => Head(file) \in L
    BY <1>2
  <2>2. Files!Quoted \subseteq L
    BY <1>1 DEF Files!Quoted
  <2> QED  BY <1>2, <2>1, <2>2 DEF Files!Upcoming
<1>4. file' \in Seq(L) /\ read' \in Seq(L)
  BY <1>2, <1>3 DEF Files!FromFile
<1>5. /\ pending # Files!NoLine => l = pending /\ read' = read
      /\ pending = Files!NoLine => read' = Append(read, l) /\ (pass = 1 => Len(read) < CsvLines)
  BY DEF Files!Upcoming, Files!FromFile
<1>6. pending = Files!NoLine /\ pass = 2 => file # <<>> /\ l = Head(file) /\ file' = Tail(file)
  BY DEF Files!Upcoming, Files!FromFile
<1>7. file = <<>> => file' = <<>>
  BY DEF Files!FromFile
<1> QED  BY <1>1, <1>3, <1>4, <1>5, <1>6, <1>7

LEMMA GroupTypes ==
  ASSUME CsvTypes
  PROVE  /\ arity \in Nat /\ arity > 0
         /\ Len(filesGroups) \in Nat /\ Len(first) \in Nat /\ Len(read) \in Nat /\ Len(file) \in Nat
         /\ \A n \in 1..Len(filesGroups) : filesGroups[n] \in GroupOf(arity)
         /\ \A n \in 1..Len(first) : first[n] \in GroupOf(arity)
         /\ \A g \in GroupOf(arity) : /\ Len(g.rows) \in Nat /\ g.rows \in Seq(RowOf(arity))
                                      /\ \A k \in 1..Len(g.rows) : g.rows[k] \in RowOf(arity)
                                      /\ g.values \in [1..CsvGroupArity - 1 -> CsvCells]
                                      /\ g.declared \in Nat
         /\ Framing => /\ Len(block.rows) \in Nat /\ block.rows \in Seq(RowOf(arity))
                       /\ \A k \in 1..Len(block.rows) : block.rows[k] \in RowOf(arity)
                       /\ block.values \in [1..CsvGroupArity -> CsvCells] /\ block.declared \in 0..CsvUnknown
<1>1. PICK R : R = RowOf(arity)
  OBVIOUS
<1>2. PICK G : G = GroupOf(arity)
  OBVIOUS
<1>3. filesGroups \in Seq(G) /\ first \in Seq(G) /\ arity \in CsvArities
  BY <1>2 DEF CsvTypes
<1>4. read \in Seq(Files!Lines) /\ file \in Seq(Files!Lines)
  BY DEF CsvTypes
<1>5. \A g \in G : g.rows \in Seq(R) /\ g.values \in [1..CsvGroupArity - 1 -> CsvCells] /\ g.declared \in Nat
  BY <1>1, <1>2 DEF GroupOf
<1>6. ASSUME Framing PROVE /\ block.rows \in Seq(R) /\ block.values \in [1..CsvGroupArity -> CsvCells]
                           /\ block.declared \in 0..CsvUnknown
  BY <1>1, <1>6 DEF CsvTypes, FullBlock
<1>7. \A s \in Seq(R) : Len(s) \in Nat /\ \A k \in 1..Len(s) : s[k] \in R
  OBVIOUS
<1>8. \A s \in Seq(G) : Len(s) \in Nat /\ \A k \in 1..Len(s) : s[k] \in G
  OBVIOUS
<1>9. Len(read) \in Nat /\ Len(file) \in Nat /\ arity \in Nat /\ arity > 0
  BY <1>3, <1>4, CellFacts
<1> QED  BY <1>1, <1>2, <1>3, <1>5, <1>6, <1>7, <1>8, <1>9

\* A row of pulses as it is stored.
LEMMA RowStored ==
  ASSUME CsvTypes, NEW l \in Files!Lines, Len(l.cells) = arity, NEW r, r = [i \in 1..arity |-> Files!Stored(l.cells[i])]
  PROVE  r \in RowOf(arity) /\ \A i \in 1..arity : r[i] = Files!Stored(l.cells[i])
<1>1. l.cells \in [1..arity -> CsvCells]
  BY CellsOf
<1>2. \A c \in CsvCells : Files!Stored(c) \in CsvCells
  BY CellFacts DEF Files!Stored
<1> QED  BY <1>1, <1>2 DEF RowOf

LEMMA TypesAtFirst == Files!CsvInit => CsvTypes
BY DEF Files!CsvInit, CsvTypes, Files!Known, Files!NoBlock, Files!NoLine, Framing

\* A group row read: its fields, and the pulses it declares.
LEMMA RowOpens ==
  ASSUME CsvTypes, NEW l \in Files!Upcoming, filesPhase = "group", Files!Taken(l),
         UNCHANGED <<mode, arity, pass, filesGroups, store, first>>,
         NEW sound \in BOOLEAN, NEW v, v = Files!Padded(l.cells),
         block' = [values |-> v, declared |-> Files!Declared(v[CsvGroupArity]), rows |-> <<>>, sound |-> sound],
         filesPhase' = "rows"
  PROVE  CsvTypes'
<1>1. l \in Files!Lines /\ file' \in Seq(Files!Lines) /\ read' \in Seq(Files!Lines)
  BY LineRead DEF Files!Taken
<1>2. v \in [1..CsvGroupArity -> CsvCells] /\ v[CsvGroupArity] \in CsvCells
  BY <1>1, PaddedIs, CellFacts
<1>3. Files!Declared(v[CsvGroupArity]) \in 0..CsvUnknown
  BY <1>2, CellFacts DEF Files!Declared
<1>4. <<>> \in Seq(RowOf(arity))
  OBVIOUS
<1>5. block' \in FullBlock(arity)
  BY <1>2, <1>3, <1>4 DEF FullBlock
<1>6. block'.rows = <<>> /\ block'.declared \in 0..CsvUnknown
  BY <1>3
<1>7. (Files!Known => Len(block.rows) <= block.declared)'
  BY <1>6
<1>8. pending' = Files!NoLine
  BY DEF Files!Taken
<1> QED  BY <1>1, <1>5, <1>7, <1>8 DEF CsvTypes, Framing

\* A pulse read is one more row of the block, which does not outgrow its count.
LEMMA RowJoins ==
  ASSUME CsvTypes, NEW l \in Files!Upcoming, filesPhase = "rows", Files!Wanting, Len(l.cells) = arity, Files!Taken(l),
         UNCHANGED <<mode, arity, pass, filesGroups, store, first, filesPhase>>,
         block' = [block EXCEPT !.rows = Append(@, [i \in 1..arity |-> Files!Stored(l.cells[i])])]
  PROVE  /\ CsvTypes' /\ block'.values = block.values /\ block'.declared = block.declared
         /\ block'.sound = block.sound
         /\ Len(block'.rows) = Len(block.rows) + 1
         /\ \A k \in 1..Len(block.rows) : block'.rows[k] = block.rows[k]
         /\ block'.rows[Len(block.rows) + 1] = [i \in 1..arity |-> Files!Stored(l.cells[i])]
<1>1. l \in Files!Lines /\ file' \in Seq(Files!Lines) /\ read' \in Seq(Files!Lines)
  BY LineRead DEF Files!Taken
<1>2. PICK r : r = [i \in 1..arity |-> Files!Stored(l.cells[i])]
  OBVIOUS
<1>3. PICK R : R = RowOf(arity)
  OBVIOUS
<1>4. r \in R
  BY <1>1, <1>2, <1>3, RowStored
<1>5. /\ block.rows \in Seq(R) /\ block.values \in [1..CsvGroupArity -> CsvCells]
      /\ block.declared \in 0..CsvUnknown /\ block.sound \in BOOLEAN
      /\ block = [values |-> block.values, declared |-> block.declared, rows |-> block.rows, sound |-> block.sound]
  BY <1>3 DEF CsvTypes, FullBlock, Framing
<1>6. PICK t : t = Append(block.rows, r)
  OBVIOUS
<1>7. t \in Seq(R) /\ Len(t) = Len(block.rows) + 1 /\ t[Len(block.rows) + 1] = r /\ Len(block.rows) \in Nat
      /\ \A k \in 1..Len(block.rows) : t[k] = block.rows[k]
  BY <1>4, <1>5, <1>6
<1>8. block' = [block EXCEPT !.rows = t]
  BY <1>2, <1>6
<1>9. /\ block'.values = block.values /\ block'.declared = block.declared /\ block'.sound = block.sound
      /\ block'.rows = t
  BY <1>5, <1>8
<1>10. block' \in FullBlock(arity)
  BY <1>3, <1>5, <1>7, <1>8 DEF FullBlock
<1>11. (Files!Known => Len(block.rows) <= block.declared)'
  <2>1. Files!Known => Len(block.rows) < block.declared
    BY DEF Files!Wanting
  <2> QED  BY <2>1, <1>5, <1>7, <1>9 DEF Files!Known
<1>12. pending' = Files!NoLine
  BY DEF Files!Taken
<1>13. CsvTypes'
  BY <1>1, <1>10, <1>11, <1>12 DEF CsvTypes, Framing
<1> QED  BY <1>2, <1>7, <1>9, <1>13

\* The group that a block becomes.
GroupIs(g) == /\ g \in GroupOf(arity) /\ g.rows = block.rows /\ g.sound = block.sound
              /\ g.values = [i \in 1..CsvGroupArity - 1 |-> CsvForms[block.values[i]]]
              /\ g.declared = IF Files!Known THEN block.declared ELSE Len(block.rows)
LEMMA BlockFiled ==
  ASSUME CsvTypes, Framing,
         NEW g, g = [values |-> [i \in 1..CsvGroupArity - 1 |-> CsvForms[block.values[i]]],
                     declared |-> IF Files!Known THEN block.declared ELSE Len(block.rows),
                     rows |-> block.rows, sound |-> block.sound]
  PROVE  GroupIs(g)
<1>1. PICK R : R = Seq(RowOf(arity))
  OBVIOUS
<1>2. /\ block.rows \in R /\ block.values \in [1..CsvGroupArity -> CsvCells]
      /\ block.declared \in 0..CsvUnknown /\ block.sound \in BOOLEAN
  BY <1>1 DEF CsvTypes, FullBlock
<1>3. PICK n : n = IF Files!Known THEN block.declared ELSE Len(block.rows)
  OBVIOUS
<1>4. n \in Nat
  BY <1>2, <1>3, GroupTypes
<1>5. PICK v : v = [i \in 1..CsvGroupArity - 1 |-> CsvForms[block.values[i]]]
  OBVIOUS
<1>6. v \in [1..CsvGroupArity - 1 -> CsvCells]
  BY <1>2, <1>5, CellFacts
<1>7. g = [values |-> v, declared |-> n, rows |-> block.rows, sound |-> block.sound]
  BY <1>3, <1>5
<1>8. g \in GroupOf(arity)
  BY <1>1, <1>2, <1>4, <1>6, <1>7 DEF GroupOf
<1> QED  BY <1>3, <1>5, <1>7, <1>8 DEF GroupIs

-----------------------------------------------------------------------------
\* What is written of a group: its row, whose count reads as it should, and its pulses.
LEMMA CellForIs ==
  ASSUME NEW n \in 0..CsvLines - 1
  PROVE  /\ Files!CellFor(n) \in CsvCells /\ CsvNumbers[Files!CellFor(n)] = n
         /\ CsvForms[Files!CellFor(n)] = Files!CellFor(n)
<1>1. \E c \in CsvCells : CsvNumbers[c] = n /\ CsvForms[c] = c
  BY CellFacts
<1> QED  BY <1>1 DEF Files!CellFor

LEMMA GroupLineIs ==
  ASSUME NEW g, g.values \in [1..CsvGroupArity - 1 -> CsvCells], Len(g.rows) \in 0..CsvLines - 1
  PROVE  /\ Files!GroupLine(g) \in Files!Lines /\ Len(Files!GroupLine(g).cells) = CsvGroupArity
         /\ \A i \in 1..CsvGroupArity - 1 : Files!GroupLine(g).cells[i] = g.values[i]
         /\ CsvNumbers[Files!GroupLine(g).cells[CsvGroupArity]] = Len(g.rows)
<1>1. PICK c : c = Files!CellFor(Len(g.rows))
  OBVIOUS
<1>2. c \in CsvCells /\ CsvNumbers[c] = Len(g.rows)
  BY <1>1, CellForIs
<1>3. PICK v : v = g.values
  OBVIOUS
<1>4. CsvGroupArity \in Nat /\ CsvGroupArity > 0
  BY CellFacts
<1>5. v \in Seq(CsvCells) /\ Len(v) = CsvGroupArity - 1
  BY <1>3, <1>4
<1>6. PICK t : t = Append(v, c)
  OBVIOUS
<1>7. t \in [1..CsvGroupArity -> CsvCells] /\ Len(t) = CsvGroupArity /\ t[CsvGroupArity] = c
      /\ \A i \in 1..CsvGroupArity - 1 : t[i] = v[i]
  <2>1. CsvGroupArity = Len(v) + 1 /\ 1..CsvGroupArity - 1 = 1..Len(v)
    BY <1>4, <1>5
  <2>2. t = [i \in 1..CsvGroupArity |-> IF i = CsvGroupArity THEN c ELSE v[i]]
    BY <1>5, <1>6, <2>1, AppendedIs
  <2>3. \A i \in 1..Len(v) : v[i] \in CsvCells
    BY <1>5
  <2>4. \A i \in 1..CsvGroupArity : i = CsvGroupArity \/ i \in 1..Len(v)
    BY <1>4, <2>1
  <2>5. t \in [1..CsvGroupArity -> CsvCells]
    BY <1>2, <2>2, <2>3, <2>4
  <2>6. Len(t) = CsvGroupArity
    BY <1>4, <2>5
  <2>7. CsvGroupArity \in 1..CsvGroupArity /\ \A i \in 1..CsvGroupArity - 1 : i \in 1..CsvGroupArity /\ i # CsvGroupArity
    BY <1>4
  <2> QED  BY <2>2, <2>5, <2>6, <2>7
<1>8. Files!GroupLine(g) = [cells |-> t, bare |-> TRUE]
  BY <1>1, <1>3, <1>6, Zenon DEF Files!GroupLine, Files!JoinRow, Files!NeedsQuoting
<1>9. t \in UNION {[1..k -> CsvCells] : k \in {CsvGroupArity} \cup CsvArities}
  BY <1>7
<1>10. Files!GroupLine(g) \in Files!Lines
  BY <1>8, <1>9 DEF Files!Lines
<1> QED  BY <1>2, <1>3, <1>7, <1>8, <1>10

LEMMA PulseLineIs ==
  ASSUME NEW a \in CsvArities, NEW r \in RowOf(a)
  PROVE  Files!PulseLine(r) \in Files!Lines /\ Files!PulseLine(r).cells = r /\ Len(r) = a
<1>1. r \in [1..a -> CsvCells] /\ a \in Nat
  BY CellFacts DEF RowOf
<1>2. r \in UNION {[1..k -> CsvCells] : k \in {CsvGroupArity} \cup CsvArities}
  BY <1>1
<1>3. Files!PulseLine(r) = [cells |-> r, bare |-> TRUE]
  BY DEF Files!PulseLine, Files!JoinRow, Files!NeedsQuoting
<1> QED  BY <1>1, <1>2, <1>3 DEF Files!Lines

LEMMA GroupWritten ==
  ASSUME NEW g, NEW S, g.rows \in Seq(S)
  PROVE  /\ Len(g.rows) \in Nat /\ Len(Files!WriteGroup(g)) = 1 + Len(g.rows)
         /\ DOMAIN Files!WriteGroup(g) = 1..1 + Len(g.rows)
         /\ Files!WriteGroup(g)[1] = Files!GroupLine(g)
         /\ \A k \in 1..Len(g.rows) : Files!WriteGroup(g)[1 + k] = Files!PulseLine(g.rows[k])
         /\ \A T : Files!GroupLine(g) \in T /\ (\A k \in 1..Len(g.rows) : Files!PulseLine(g.rows[k]) \in T)
                     => Files!WriteGroup(g) \in Seq(T)
<1>1. PICK n : n = Len(g.rows)
  OBVIOUS
<1>2. n \in Nat /\ DOMAIN g.rows = 1..n
  BY <1>1
<1>3. PICK h : h = Files!GroupLine(g)
  OBVIOUS
<1>4. PICK p : p = [i \in 1..n |-> Files!PulseLine(g.rows[i])]
  OBVIOUS
<1>5. PICK U : U = {h} \cup {p[i] : i \in 1..n}
  OBVIOUS
<1>6. p \in Seq(U) /\ Len(p) = n /\ <<h>> \in Seq(U)
  BY <1>2, <1>4, <1>5
<1>7. PICK w : w = <<h>> \o p
  OBVIOUS
<1>8. w \in Seq(U) /\ Len(w) = 1 + n /\ DOMAIN w = 1..1 + n /\ w[1] = h /\ \A k \in 1..n : w[1 + k] = p[k]
  BY <1>2, <1>6, <1>7
<1>9. Files!WriteGroup(g) = w
  BY <1>2, <1>3, <1>4, <1>7 DEF Files!WriteGroup
<1>10. ASSUME NEW T, h \in T, \A k \in 1..n : p[k] \in T PROVE w \in Seq(T)
  <2>1. U \subseteq T
    BY <1>5, <1>10
  <2> QED  BY <1>8, <2>1
<1>11. \A k \in 1..n : p[k] = Files!PulseLine(g.rows[k])
  BY <1>4
<1>12. Len(Files!WriteGroup(g)) = 1 + n /\ DOMAIN Files!WriteGroup(g) = 1..1 + n /\ Files!WriteGroup(g)[1] = h
       /\ \A k \in 1..n : Files!WriteGroup(g)[1 + k] = Files!PulseLine(g.rows[k])
  BY <1>8, <1>9, <1>11
<1>13. \A T : h \in T /\ (\A k \in 1..n : Files!PulseLine(g.rows[k]) \in T) => Files!WriteGroup(g) \in Seq(T)
  <2> TAKE T
  <2> HAVE h \in T /\ (\A k \in 1..n : Files!PulseLine(g.rows[k]) \in T)
  <2>1. \A k \in 1..n : p[k] \in T
    BY <1>11
  <2> QED  BY <1>9, <1>10, <2>1
<1> QED  BY <1>1, <1>2, <1>3, <1>12, <1>13

\* No line of a file that can be written is skipped.
LEMMA NoneSkipped ==
  ASSUME NEW g, NEW S, g.rows \in Seq(S), Files!Writable(g)
  PROVE  /\ ~Files!Skipped(Files!GroupLine(g))
         /\ \A k \in 1..Len(g.rows) : ~Files!Skipped(Files!PulseLine(g.rows[k]))
<1>1. \A i \in DOMAIN Files!WriteGroup(g) : ~Files!Skipped(Files!WriteGroup(g)[i])
  BY DEF Files!Writable
<1>2. Len(g.rows) \in Nat /\ DOMAIN Files!WriteGroup(g) = 1..1 + Len(g.rows)
  BY GroupWritten
<1>3. 1 \in DOMAIN Files!WriteGroup(g) /\ \A k \in 1..Len(g.rows) : 1 + k \in DOMAIN Files!WriteGroup(g)
  BY <1>2
<1>4. Files!WriteGroup(g)[1] = Files!GroupLine(g) /\ \A k \in 1..Len(g.rows) : Files!WriteGroup(g)[1 + k] = Files!PulseLine(g.rows[k])
  BY GroupWritten
<1> QED  BY <1>1, <1>3, <1>4

LEMMA InFile ==
  ASSUME NEW a \in Nat, NEW b \in Nat, NEW z \in Nat, NEW q \in Nat, NEW len \in Nat, NEW d \in Nat, NEW i \in 0..len,
         b = a + 1 + len, b + d <= z
  PROVE  /\ a + i < z
         /\ q + 1 <= a => a + 1 - (q + 1) \in 1..(z - q) - 1 /\ a + 1 - (q + 1) + 1 = a + 1 - q
         /\ q + 1 <= a + i => a + 1 + i - (q + 1) \in 1..(z - q) - 1 /\ a + 1 + i - (q + 1) + 1 = a + 1 + i - q
OBVIOUS

\* A line read is a line less to read.
LEMMA LeftShrinks ==
  ASSUME CsvTypes, NEW off, Offsets(off, first), NEW L, NEW f \in Seq(L), f # <<>>, NEW q \in Nat, Left(f, q, off, first)
  PROVE  Left(Tail(f), q + 1, off, first)
<1> DEFINE N == Len(first)
<1>1. N \in Nat /\ \A n \in 1..N : Len(first[n].rows) \in Nat
  BY GroupTypes
<1>2. \A k \in 0..N : off[k] \in Nat /\ \A m \in 0..k : off[m] \in Nat /\ off[m] + (k - m) <= off[k]
  BY <1>1, OffsetsGrow
<1>3. Len(f) = off[N] - q /\ Len(Tail(f)) = Len(f) - 1 /\ N \in 0..N
  BY <1>1 DEF Left
<1>4. \A i \in 1..Len(f) - 1 : Tail(f)[i] = f[i + 1]
  OBVIOUS
<1>5. ASSUME NEW m \in 1..N
      PROVE  /\ q + 1 <= off[m - 1] => Tail(f)[off[m - 1] + 1 - (q + 1)] = Files!GroupLine(first[m])
             /\ \A i \in 1..Len(first[m].rows) :
                  q + 1 <= off[m - 1] + i => Tail(f)[off[m - 1] + 1 + i - (q + 1)] = Files!PulseLine(first[m].rows[i])
  <2>1. m - 1 \in 0..N /\ m \in 0..N /\ off[m] = off[m - 1] + 1 + Len(first[m].rows)
    BY <1>1 DEF Offsets
  <2>2. off[m] + (N - m) <= off[N] /\ off[m] \in Nat /\ off[m - 1] \in Nat /\ off[N] \in Nat /\ Len(first[m].rows) \in Nat
    BY <1>1, <1>2, <2>1
  <2>5. /\ q + 1 <= off[m - 1] =>
             off[m - 1] + 1 - (q + 1) \in 1..(off[N] - q) - 1 /\ off[m - 1] + 1 - (q + 1) + 1 = off[m - 1] + 1 - q
        /\ \A i \in 0..Len(first[m].rows) : q + 1 <= off[m - 1] + i =>
          off[m - 1] + 1 + i - (q + 1) \in 1..(off[N] - q) - 1 /\ off[m - 1] + 1 + i - (q + 1) + 1 = off[m - 1] + 1 + i - q
    <3>1. PICK a, b, z, len, d : a = off[m - 1] /\ b = off[m] /\ z = off[N] /\ len = Len(first[m].rows) /\ d = N - m
      OBVIOUS
    <3>2. d \in Nat
      BY <1>1, <3>1
    <3>3. a \in Nat /\ b \in Nat /\ z \in Nat /\ len \in Nat
      BY <2>2, <3>1
    <3>4. b = a + 1 + len /\ b + d <= z
      BY <2>1, <2>2, <3>1, Zenon
    <3>6. 0 \in 0..len
      BY <3>3
    <3>7. q + 1 <= a => a + 1 - (q + 1) \in 1..(z - q) - 1 /\ a + 1 - (q + 1) + 1 = a + 1 - q
      BY <3>2, <3>3, <3>4, <3>6, InFile
    <3>5. \A i \in 0..len : q + 1 <= a + i =>
            a + 1 + i - (q + 1) \in 1..(z - q) - 1 /\ a + 1 + i - (q + 1) + 1 = a + 1 + i - q
      BY <3>2, <3>3, <3>4, InFile
    <3> QED  BY <3>1, <3>5, <3>7, Zenon
  <2>3. ASSUME q + 1 <= off[m - 1] PROVE Tail(f)[off[m - 1] + 1 - (q + 1)] = Files!GroupLine(first[m])
    <3>1. off[m - 1] + 1 - (q + 1) \in 1..Len(f) - 1 /\ off[m - 1] + 1 - (q + 1) + 1 = off[m - 1] + 1 - q
      BY <1>3, <2>3, <2>5
    <3>2. off[m - 1] + 1 - (q + 1) + 1 = off[m - 1] + 1 - q
      BY <3>1
    <3>3. q <= off[m - 1]
      BY <2>2, <2>3
    <3>4. f[off[m - 1] + 1 - q] = Files!GroupLine(first[m])
      BY <3>3 DEF Left
    <3> QED  BY <1>4, <3>1, <3>2, <3>4
  <2>4. ASSUME NEW i \in 1..Len(first[m].rows), q + 1 <= off[m - 1] + i
        PROVE  Tail(f)[off[m - 1] + 1 + i - (q + 1)] = Files!PulseLine(first[m].rows[i])
    <3>1. off[m - 1] + 1 + i - (q + 1) \in 1..Len(f) - 1
      <4>1. i \in 0..Len(first[m].rows)
        BY <2>2
      <4> QED  BY <1>3, <2>5, <2>4, <4>1
    <3>2. off[m - 1] + 1 + i - (q + 1) + 1 = off[m - 1] + 1 + i - q
      <4>1. i \in 0..Len(first[m].rows)
        BY <2>2
      <4> QED  BY <2>5, <2>4, <4>1
    <3>3. f[off[m - 1] + 1 + i - q] = Files!PulseLine(first[m].rows[i])
      <4>1. q <= off[m - 1] + i
        BY <2>2, <2>4
      <4> QED  BY <4>1 DEF Left
    <3> QED  BY <1>4, <3>1, <3>2, <3>3
  <2> QED  BY <2>3, <2>4
<1>6. Len(Tail(f)) = off[N] - (q + 1)
  BY <1>2, <1>3
<1> QED  BY <1>5, <1>6 DEF Left

\* Which line is next.
LEMMA GroupIsNext ==
  ASSUME CsvTypes, NEW off, Offsets(off, first), NEW L, NEW f \in Seq(L), NEW n \in 0..Len(first), Left(f, off[n], off, first)
  PROVE  /\ off[n] \in Nat /\ (n = Len(first) <=> f = <<>>)
         /\ n < Len(first) => Head(f) = Files!GroupLine(first[n + 1])
<1> DEFINE N == Len(first)
<1>1. N \in Nat /\ \A i \in 1..N : Len(first[i].rows) \in Nat
  BY GroupTypes
<1>2. off[n] \in Nat /\ off[N] \in Nat /\ off[n] + (N - n) <= off[N]
  BY <1>1, OffsetsGrow
<1>3. Len(f) = off[N] - off[n]
  BY DEF Left
<1>4. n = N <=> f = <<>>
  BY <1>1, <1>2, <1>3
<1>5. ASSUME n < N PROVE Head(f) = Files!GroupLine(first[n + 1])
  <2>1. n + 1 \in 1..N /\ (n + 1) - 1 = n /\ off[n] + 1 - off[n] = 1
    BY <1>1, <1>2, <1>5
  <2>2. f[1] = Files!GroupLine(first[n + 1])
    BY <1>2, <2>1, SMTT(60) DEF Left
  <2> QED  BY <1>1, <1>4, <1>5, <2>2
<1> QED  BY <1>2, <1>4, <1>5

LEMMA PulseIsNext ==
  ASSUME CsvTypes, NEW off, Offsets(off, first), NEW L, NEW f \in Seq(L), NEW n \in 0..Len(first) - 1,
         NEW k \in 0..Len(first[n + 1].rows) - 1, Left(f, off[n] + 1 + k, off, first)
  PROVE  f # <<>> /\ Head(f) = Files!PulseLine(first[n + 1].rows[k + 1])
<1> DEFINE N == Len(first)
<1>1. N \in Nat /\ \A i \in 1..N : Len(first[i].rows) \in Nat
  BY GroupTypes
<1>2. n + 1 \in 1..N /\ (n + 1) - 1 = n /\ n + 1 \in 0..N /\ n \in 0..N
  BY <1>1
<1>3. off[n] \in Nat /\ off[N] \in Nat /\ off[n + 1] \in Nat /\ off[n + 1] + (N - (n + 1)) <= off[N]
      /\ Len(first[n + 1].rows) \in Nat
  BY <1>1, <1>2, OffsetsGrow, SMTT(60)
<1>4. off[n + 1] = off[n] + 1 + Len(first[n + 1].rows)
  BY <1>2 DEF Offsets
<1>5. Len(f) = off[N] - (off[n] + 1 + k)
  BY DEF Left
<1>6. Len(f) > 0
  <2>1. PICK a, b, z, len, d :
          a = off[n] /\ b = off[n + 1] /\ z = off[N] /\ len = Len(first[n + 1].rows) /\ d = N - (n + 1)
    OBVIOUS
  <2>4. d \in Nat
    BY <1>1, <1>2, <2>1
  <2>5. a \in Nat /\ b \in Nat /\ z \in Nat /\ len \in Nat /\ k + 1 \in 0..len /\ k \in Nat
    BY <1>3, <2>1
  <2>2. b = a + 1 + len /\ b + d <= z /\ k + 1 \in 0..len /\ k \in Nat
    BY <1>3, <1>4, <2>1, <2>5, Zenon
  <2>3. a + (k + 1) < z /\ Len(f) = z - (a + 1 + k)
    BY <1>5, <2>1, <2>2, <2>4, <2>5, InFile
  <2> QED  BY <2>2, <2>3, <2>5
<1>7. k + 1 \in 1..Len(first[n + 1].rows) /\ off[n] + 1 + (k + 1) - (off[n] + 1 + k) = 1
  BY <1>3
<1>8. f[1] = Files!PulseLine(first[n + 1].rows[k + 1])
  <2>1. PICK m \in 1..N : m = n + 1
    BY <1>2
  <2>2. PICK i \in 1..Len(first[m].rows) : i = k + 1
    BY <1>7, <2>1
  <2>3. off[m - 1] = off[n] /\ off[n] + 1 + k <= off[m - 1] + i /\ off[m - 1] + 1 + i - (off[n] + 1 + k) = 1
    BY <1>2, <1>3, <1>7, <2>1, <2>2
  <2>4. f[off[m - 1] + 1 + i - (off[n] + 1 + k)] = Files!PulseLine(first[m].rows[i])
    BY <2>3 DEF Left
  <2> QED  BY <2>1, <2>2, <2>3, <2>4
<1> QED  BY <1>6, <1>8

Then(s, w) == s \o w
IsThen(t, s, w) == /\ Len(t) = Len(s) + Len(w)
                   /\ \A j \in 1..Len(s) : t[j] = s[j]
                   /\ \A j \in 1..Len(w) : t[Len(s) + j] = w[j]

LEMMA Joined ==
  ASSUME NEW L, NEW s \in Seq(L), NEW w \in Seq(L)
  PROVE  Then(s, w) \in Seq(L) /\ IsThen(Then(s, w), s, w)
BY DEF Then, IsThen

LEMMA IndexWithin ==
  ASSUME NEW N \in Nat, NEW n \in 0..N - 1
  PROVE  /\ n \in Nat /\ n + 1 \in 1..N /\ (n + 1) - 1 = n /\ n \in 0..N /\ n + 1 \in 0..N
         /\ \A m \in 1..n : m - 1 \in 0..n /\ m \in 0..n /\ m \in 1..N /\ n - m \in Nat
         /\ \A m \in 1..n + 1 : m = n + 1 \/ m \in 1..n
OBVIOUS

LEMMA OneLonger ==
  ASSUME NEW x \in Nat, NEW y \in Nat
  PROVE  /\ x + (1 + y) = x + 1 + y /\ 1 \in 1..1 + y
         /\ \A i \in 1..y : 1 + i \in 1..1 + y /\ x + (1 + i) = x + 1 + i
OBVIOUS

LEMMA WithinBefore ==
  ASSUME NEW a \in Nat, NEW b \in Nat, NEW c \in Nat, NEW len \in Nat, NEW d \in Nat, b = a + 1 + len, b + d <= c
  PROVE  a + 1 \in 1..c /\ \A i \in 1..len : a + 1 + i \in 1..c
OBVIOUS

\* The lines of the first n groups.
LinesOf(s, n, off, gs) ==
  /\ Len(s) = off[n]
  /\ \A m \in 1..n :
       /\ s[off[m - 1] + 1] = Files!GroupLine(gs[m])
       /\ \A i \in 1..Len(gs[m].rows) : s[off[m - 1] + 1 + i] = Files!PulseLine(gs[m].rows[i])

LEMMA OneMoreWritten ==
  ASSUME NEW gs, Len(gs) \in Nat, \A m \in 1..Len(gs) : Len(gs[m].rows) \in Nat,
         NEW off, Offsets(off, gs), NEW n \in 0..Len(gs) - 1,
         NEW L, NEW s \in Seq(L), LinesOf(s, n, off, gs), NEW w \in Seq(L),
         Len(w) = 1 + Len(gs[n + 1].rows), w[1] = Files!GroupLine(gs[n + 1]),
         \A i \in 1..Len(gs[n + 1].rows) : w[1 + i] = Files!PulseLine(gs[n + 1].rows[i])
  PROVE  Then(s, w) \in Seq(L) /\ LinesOf(Then(s, w), n + 1, off, gs)
<1> DEFINE N == Len(gs)
           t == Then(s, w)
<1>1. t \in Seq(L) /\ IsThen(t, s, w)
  BY Joined
<1> HIDE DEF t
<1>2. /\ t \in Seq(L) /\ Len(t) = off[n] + Len(w)
      /\ \A j \in 1..off[n] : t[j] = s[j]
      /\ \A j \in 1..Len(w) : t[off[n] + j] = w[j]
  <2>1. Len(s) = off[n]
    BY DEF LinesOf
  <2> QED  BY <1>1, <2>1, Zenon DEF IsThen
<1>3. n + 1 \in 1..N /\ (n + 1) - 1 = n /\ n \in 0..N /\ n + 1 \in 0..N
  BY IndexWithin
<1>4. off[n] \in Nat /\ off[n + 1] = off[n] + 1 + Len(gs[n + 1].rows) /\ Len(gs[n + 1].rows) \in Nat
  BY <1>3 DEF Offsets
<1>5. Len(t) = off[n + 1]
  <2>1. PICK x, y : x = off[n] /\ y = Len(gs[n + 1].rows)
    OBVIOUS
  <2>2. x + (1 + y) = x + 1 + y
    BY <1>4, <2>1, OneLonger
  <2> QED  BY <1>2, <1>4, <2>1, <2>2, Zenon
<1>6. ASSUME NEW m \in 1..n
      PROVE  /\ t[off[m - 1] + 1] = Files!GroupLine(gs[m])
             /\ \A i \in 1..Len(gs[m].rows) : t[off[m - 1] + 1 + i] = Files!PulseLine(gs[m].rows[i])
  <2>1. m - 1 \in 0..n /\ m \in 0..n /\ m \in 1..N /\ n - m \in Nat
    BY IndexWithin
  <2>2. off[m] = off[m - 1] + 1 + Len(gs[m].rows) /\ Len(gs[m].rows) \in Nat
    BY <2>1 DEF Offsets
  <2>3. off[m - 1] \in Nat /\ off[m] \in Nat /\ off[m] + (n - m) <= off[n]
    BY <1>3, <2>1, OffsetsGrow
  <2>4. PICK a, b, c, len, d : a = off[m - 1] /\ b = off[m] /\ c = off[n] /\ len = Len(gs[m].rows) /\ d = n - m
    OBVIOUS
  <2>5. a \in Nat /\ b \in Nat /\ c \in Nat /\ len \in Nat /\ b = a + 1 + len
    BY <1>4, <2>2, <2>3, <2>4
  <2>6. d \in Nat
    BY <2>1, <2>4
  <2>7. b + d <= c
    BY <2>3, <2>4, Zenon
  <2>8. a + 1 \in 1..c /\ \A i \in 1..len : a + 1 + i \in 1..c
    BY <2>5, <2>6, <2>7, WithinBefore, Zenon
  <2> QED  BY <1>2, <2>4, <2>8 DEF LinesOf
<1>7. /\ t[off[n] + 1] = Files!GroupLine(gs[n + 1])
      /\ \A i \in 1..Len(gs[n + 1].rows) : t[off[n] + 1 + i] = Files!PulseLine(gs[n + 1].rows[i])
  <2>1. 1 \in 1..Len(w) /\ \A i \in 1..Len(gs[n + 1].rows) : 1 + i \in 1..Len(w) /\ off[n] + (1 + i) = off[n] + 1 + i
    BY <1>4, OneLonger
  <2> QED  BY <1>2, <2>1
<1>8. ASSUME NEW m \in 1..n + 1
      PROVE  /\ t[off[m - 1] + 1] = Files!GroupLine(gs[m])
             /\ \A i \in 1..Len(gs[m].rows) : t[off[m - 1] + 1 + i] = Files!PulseLine(gs[m].rows[i])
  <2>1. CASE m = n + 1
    BY <1>3, <1>7, <2>1
  <2>2. CASE m \in 1..n
    BY <1>6, <2>2
  <2> QED  BY <2>1, <2>2, IndexWithin
<1>9. LinesOf(t, n + 1, off, gs)
  BY <1>5, <1>8 DEF LinesOf
<1> QED  BY <1>2, <1>9 DEF t

\* An exported file is the lines of its groups, one after the other.
Upto(u, n) == u = [k \in 0..n |-> IF k = 0 THEN <<>> ELSE u[k - 1] \o Files!WriteGroup(store[k])]

LEMMA SomeUpto ==
  ASSUME NEW N \in Nat
  PROVE  \E u : Upto(u, N)
<1> DEFINE S == {n \in 0..N : \E u : Upto(u, n)}
<1>1. 0 \in S
  <2>1. PICK u : u = [k \in 0..0 |-> <<>>]
    OBVIOUS
  <2>2. Upto(u, 0)
    BY <2>1 DEF Upto
  <2> QED  BY <2>2
<1>2. ASSUME NEW n \in 0..N - 1, n \in S PROVE n + 1 \in S
  <2>1. PICK u : Upto(u, n)
    BY <1>2
  <2>2. PICK v : v = [k \in 0..n + 1 |-> IF k = n + 1 THEN u[n] \o Files!WriteGroup(store[n + 1]) ELSE u[k]]
    OBVIOUS
  <2>3. n \in Nat
    OBVIOUS
  <2>4. \A k \in 0..n : u[k] = IF k = 0 THEN <<>> ELSE u[k - 1] \o Files!WriteGroup(store[k])
    BY <2>1 DEF Upto
  <2>5. \A k \in 0..n : v[k] = u[k]
    BY <2>2, <2>3
  <2>6. v[n + 1] = v[n] \o Files!WriteGroup(store[n + 1])
    BY <2>2, <2>3, <2>5
  <2>7. ASSUME NEW k \in 0..n + 1 PROVE v[k] = IF k = 0 THEN <<>> ELSE v[k - 1] \o Files!WriteGroup(store[k])
    <3>1. CASE k = n + 1
      <4>1. k # 0 /\ k - 1 = n
        BY <2>3, <3>1
      <4> QED  BY <2>6, <3>1, <4>1
    <3>2. CASE k \in 0..n
      <4>1. k # 0 => k - 1 \in 0..n
        BY <2>3, <3>2
      <4> QED  BY <2>4, <2>5, <3>2, <4>1
    <3> QED  BY <2>3, <3>1, <3>2
  <2>8. v = [k \in 0..n + 1 |-> v[k]]
    BY <2>2
  <2>9. Upto(v, n + 1)
    BY <2>7, <2>8 DEF Upto
  <2> QED  BY <2>9
<1>3. \A n \in 0..N : n \in S
  <2> HIDE DEF S
  <2> QED  BY <1>1, <1>2, UpToN
<1> QED  BY <1>3

LEMMA ExportIs ==
  ASSUME NEW a \in CsvArities, store \in Seq(GroupOf(a)), Short(store), NEW off, Offsets(off, store)
  PROVE  Files!Export \in Seq(Files!Lines) /\ Left(Files!Export, 0, off, store)
<1> DEFINE N == Len(store)
           U == CHOOSE u : Upto(u, N)
<1>1. PICK G : G = GroupOf(a)
  OBVIOUS
<1>2. N \in Nat /\ \A m \in 1..N : store[m] \in G
  BY <1>1
<1>3. \A g \in G : g.rows \in Seq(RowOf(a)) /\ g.values \in [1..CsvGroupArity - 1 -> CsvCells]
  BY <1>1 DEF GroupOf
<1>4. \A m \in 1..N : Len(store[m].rows) \in Nat /\ Len(store[m].rows) \in 0..CsvLines - 1
  <2>1. \A m \in 1..N : Len(store[m].rows) \in Nat /\ Len(store[m].rows) < CsvLines
    BY <1>2, <1>3 DEF Short
  <2> QED  BY <2>1, CellFacts
<1>5. Upto(U, N)
  BY <1>2, SomeUpto
<1>6. Files!Export = U[N]
  BY DEF Files!Export, Upto
<1> HIDE DEF U
<1>7. ASSUME NEW m \in 1..N
      PROVE  /\ Files!WriteGroup(store[m]) \in Seq(Files!Lines)
             /\ Len(Files!WriteGroup(store[m])) = 1 + Len(store[m].rows)
             /\ Files!WriteGroup(store[m])[1] = Files!GroupLine(store[m])
             /\ \A i \in 1..Len(store[m].rows) : Files!WriteGroup(store[m])[1 + i] = Files!PulseLine(store[m].rows[i])
  <2>1. PICK g : g = store[m]
    OBVIOUS
  <2>2. g.rows \in Seq(RowOf(a)) /\ g.values \in [1..CsvGroupArity - 1 -> CsvCells] /\ Len(g.rows) \in 0..CsvLines - 1
    BY <1>2, <1>3, <1>4, <2>1
  <2>3. Files!GroupLine(g) \in Files!Lines
    BY <2>2, GroupLineIs
  <2>4. \A k \in 1..Len(g.rows) : Files!PulseLine(g.rows[k]) \in Files!Lines
    <3>1. \A k \in 1..Len(g.rows) : g.rows[k] \in RowOf(a)
      <4>1. PICK R : R = RowOf(a)
        OBVIOUS
      <4>2. g.rows \in Seq(R)
        BY <2>2, <4>1
      <4>3. \A k \in 1..Len(g.rows) : g.rows[k] \in R
        BY <4>2
      <4> QED  BY <4>1, <4>3
    <3> QED  BY <3>1, PulseLineIs
  <2>5. /\ Files!WriteGroup(g) \in Seq(Files!Lines) /\ Len(Files!WriteGroup(g)) = 1 + Len(g.rows)
        /\ Files!WriteGroup(g)[1] = Files!GroupLine(g)
        /\ \A i \in 1..Len(g.rows) : Files!WriteGroup(g)[1 + i] = Files!PulseLine(g.rows[i])
    BY <2>2, <2>3, <2>4, GroupWritten
  <2> QED  BY <2>1, <2>5
<1>8. /\ U[0] = <<>>
      /\ \A k \in 1..N : U[k] = U[k - 1] \o Files!WriteGroup(store[k])
  BY <1>2, <1>5 DEF Upto
<1> DEFINE S == {n \in 0..N : U[n] \in Seq(Files!Lines) /\ LinesOf(U[n], n, off, store)}
<1>9. 0 \in S
  <2>1. off[0] = 0
    BY DEF Offsets
  <2>2. <<>> \in Seq(Files!Lines) /\ Len(<<>>) = 0 /\ 1..0 = {}
    OBVIOUS
  <2>3. LinesOf(U[0], 0, off, store)
    BY <1>8, <2>1, <2>2, Zenon DEF LinesOf
  <2>4. 0 \in 0..N
    BY <1>2
  <2>5. U[0] \in Seq(Files!Lines)
    BY <1>8, <2>2, Zenon
  <2> QED  BY <2>3, <2>4, <2>5
<1>10. ASSUME NEW n \in 0..N - 1, n \in S PROVE n + 1 \in S
  <2>1. n + 1 \in 1..N /\ (n + 1) - 1 = n /\ n + 1 \in 0..N
    BY <1>2
  <2>2. U[n + 1] = U[n] \o Files!WriteGroup(store[n + 1])
    BY <1>8, <2>1
  <2>3. U[n + 1] \in Seq(Files!Lines) /\ LinesOf(U[n + 1], n + 1, off, store)
    <3>1. PICK w : w = Files!WriteGroup(store[n + 1])
      OBVIOUS
    <3>2. U[n] \in Seq(Files!Lines) /\ LinesOf(U[n], n, off, store)
      BY <1>10
    <3>3. /\ w \in Seq(Files!Lines) /\ Len(w) = 1 + Len(store[n + 1].rows) /\ w[1] = Files!GroupLine(store[n + 1])
          /\ \A i \in 1..Len(store[n + 1].rows) : w[1 + i] = Files!PulseLine(store[n + 1].rows[i])
      BY <1>7, <2>1, <3>1, Zenon
    <3>4. \A m \in 1..N : Len(store[m].rows) \in Nat
      BY <1>4
    <3>5. Then(U[n], w) \in Seq(Files!Lines) /\ LinesOf(Then(U[n], w), n + 1, off, store)
      BY <1>2, <3>2, <3>3, <3>4, OneMoreWritten, Zenon
    <3> QED  BY <2>2, <3>1, <3>5, Zenon DEF Then
  <2> QED  BY <2>1, <2>3
<1>11. \A n \in 0..N : n \in S
  <2> HIDE DEF S
  <2> QED  BY <1>2, <1>9, <1>10, UpToN
<1>12. U[N] \in Seq(Files!Lines) /\ LinesOf(U[N], N, off, store)
  BY <1>2, <1>11
<1>13. Left(U[N], 0, off, store)
  <2>1. \A m \in 0..N : off[m] \in Nat
    BY DEF Offsets
  <2>2. \A m \in 1..N : m - 1 \in 0..N /\ off[m - 1] \in Nat /\ Len(store[m].rows) \in Nat
    BY <1>2, <1>4, <2>1
  <2>3. \A x \in Nat : x - 0 = x
    OBVIOUS
  <2>4. \A m \in 1..N : off[m - 1] + 1 - 0 = off[m - 1] + 1
    BY <2>2
  <2>5. \A m \in 1..N : \A i \in 1..Len(store[m].rows) : off[m - 1] + 1 + i - 0 = off[m - 1] + 1 + i
    BY <2>2
  <2>6. off[N] - 0 = off[N]
    BY <1>2, <2>1
  <2> QED  BY <1>12, <2>4, <2>5, <2>6 DEF Left, LinesOf
<1> QED  BY <1>6, <1>12, <1>13

-----------------------------------------------------------------------------
\* Reading an exported file again: the group row that is next, or the end.
LEMMA BackToGroup ==
  ASSUME FilesInv, Back, filesPhase = "group", NEW off, BackAt(off)
  PROVE  /\ off[Len(filesGroups)] \in Nat /\ (Len(filesGroups) = Len(first) <=> file = <<>>)
         /\ file # <<>> => /\ Len(filesGroups) + 1 \in 1..Len(first)
                           /\ Head(file) = Files!GroupLine(first[Len(filesGroups) + 1])
                           /\ ~Files!Skipped(Head(file))
<1> DEFINE n == Len(filesGroups)
<1>1. CsvTypes /\ n <= Len(first)
  BY DEF FilesInv, ReadBack
<1>2. n \in 0..Len(first) /\ Len(first) \in Nat
  BY <1>1, GroupTypes
<1>3. Offsets(off, first) /\ Left(file, off[n], off, first)
  BY DEF BackAt
<1>4. file \in Seq(Files!Lines)
  BY <1>1 DEF CsvTypes
<1>5. /\ off[n] \in Nat /\ (n = Len(first) <=> file = <<>>)
      /\ n < Len(first) => Head(file) = Files!GroupLine(first[n + 1])
  BY <1>1, <1>2, <1>3, <1>4, GroupIsNext
<1>6. ASSUME file # <<>> PROVE /\ n + 1 \in 1..Len(first) /\ Head(file) = Files!GroupLine(first[n + 1])
                               /\ ~Files!Skipped(Head(file))
  <2>1. n < Len(first) /\ n + 1 \in 1..Len(first)
    BY <1>2, <1>5, <1>6
  <2>2. first[n + 1].rows \in Seq(RowOf(arity))
    BY <1>1, <2>1, GroupTypes
  <2>3. first \in Seq(GroupOf(arity))
    BY <1>1 DEF CsvTypes
  <2>4. n + 1 \in DOMAIN first
    BY <2>1, <2>3
  <2>5. Files!Writable(first[n + 1])
    BY <2>4 DEF Back, AllWritable
  <2> QED  BY <1>5, <2>1, <2>2, <2>5, NoneSkipped
<1> QED  BY <1>5, <1>6

\* The row of a pulse that is next, in a group that has not all of them yet.
LEMMA BackToPulse ==
  ASSUME FilesInv, Back, filesPhase = "rows", NEW off, BackAt(off)
  PROVE  LET n == Len(filesGroups)
             g == first[n + 1]
             k == Len(block.rows)
         IN /\ n + 1 \in 1..Len(first) /\ n \in 0..Len(first) - 1 /\ block.declared = Len(g.rows) /\ Files!Known
            /\ off[n] \in Nat /\ k \in Nat
            /\ k = Len(g.rows) => file = <<>> \/ ~Files!Skipped(Head(file))
            /\ k < Len(g.rows) => /\ file # <<>> /\ Head(file) = Files!PulseLine(g.rows[k + 1])
                                  /\ k + 1 \in 1..Len(g.rows) /\ g.rows[k + 1] \in RowOf(arity)
                                  /\ ~Files!Skipped(Head(file))
<1> DEFINE n == Len(filesGroups)
           g == first[n + 1]
           k == Len(block.rows)
           q == off[n] + 1 + k
<1>1. CsvTypes /\ Framing
  BY DEF FilesInv, Framing
<1>2. /\ Offsets(off, first) /\ n < Len(first) /\ Left(file, q, off, first)
      /\ block.declared = Len(g.rows) /\ k <= Len(g.rows)
  BY <1>1 DEF BackAt, HalfSame
<1>3. n \in Nat /\ Len(first) \in Nat /\ k \in Nat /\ file \in Seq(Files!Lines)
  BY <1>1, GroupTypes DEF CsvTypes
<1>4. n + 1 \in 1..Len(first) /\ n \in 0..Len(first) - 1 /\ n \in 0..Len(first) /\ n + 1 \in 0..Len(first) /\ (n + 1) - 1 = n
  BY <1>2, <1>3
<1>5. /\ g \in GroupOf(arity) /\ g.rows \in Seq(RowOf(arity)) /\ Len(g.rows) \in Nat
      /\ \A i \in 1..Len(g.rows) : g.rows[i] \in RowOf(arity)
  BY <1>1, <1>4, GroupTypes
<1>6. Files!Known
  <2>1. Len(g.rows) < CsvLines
    BY <1>4 DEF FilesInv, AllShort, Short
  <2>2. CsvLines <= CsvUnknown /\ CsvLines \in Nat /\ CsvUnknown \in Nat
    BY CellFacts
  <2> QED  BY <1>2, <1>5, <2>1, <2>2 DEF Files!Known
<1>7. off[n] \in Nat /\ off[n + 1] \in Nat /\ off[n + 1] = off[n] + 1 + Len(g.rows)
  <2>1. off[n] \in Nat /\ off[n + 1] \in Nat
    BY <1>2, <1>4 DEF Offsets
  <2>2. off[n + 1] = off[(n + 1) - 1] + 1 + Len(first[n + 1].rows)
    BY <1>2, <1>4 DEF Offsets
  <2> QED  BY <1>4, <2>1, <2>2
<1>8. \A m \in 1..Len(first) : Files!Writable(first[m])
  <2>1. first \in Seq(GroupOf(arity))
    BY <1>1 DEF CsvTypes
  <2>2. \A m \in 1..Len(first) : m \in DOMAIN first
    BY <2>1
  <2> QED  BY <2>2 DEF Back, AllWritable
<1>9. ASSUME k = Len(g.rows), file # <<>> PROVE ~Files!Skipped(Head(file))
  <2>1. Left(file, off[n + 1], off, first)
    BY <1>2, <1>7, <1>9
  <2>2. /\ n + 1 = Len(first) <=> file = <<>>
        /\ n + 1 < Len(first) => Head(file) = Files!GroupLine(first[n + 1 + 1])
    BY <1>1, <1>2, <1>3, <1>4, <2>1, GroupIsNext
  <2>3. n + 1 < Len(first) /\ n + 1 + 1 \in 1..Len(first)
    BY <1>3, <1>4, <1>9, <2>2
  <2>4. first[n + 1 + 1].rows \in Seq(RowOf(arity)) /\ Files!Writable(first[n + 1 + 1])
    BY <1>1, <1>8, <2>3, GroupTypes
  <2> QED  BY <2>2, <2>3, <2>4, NoneSkipped
<1>10. ASSUME k < Len(g.rows) PROVE /\ file # <<>> /\ Head(file) = Files!PulseLine(g.rows[k + 1])
                                    /\ k + 1 \in 1..Len(g.rows) /\ g.rows[k + 1] \in RowOf(arity)
                                    /\ ~Files!Skipped(Head(file))
  <2>1. k \in 0..Len(g.rows) - 1 /\ k + 1 \in 1..Len(g.rows)
    BY <1>3, <1>5, <1>10
  <2>2. file # <<>> /\ Head(file) = Files!PulseLine(g.rows[k + 1])
    BY <1>1, <1>2, <1>3, <1>4, <2>1, PulseIsNext
  <2>3. Files!Writable(g)
    BY <1>4, <1>8
  <2>4. ~Files!Skipped(Head(file))
    BY <1>5, <2>1, <2>2, <2>3, NoneSkipped
  <2> QED  BY <1>5, <2>1, <2>2, <2>4
<1> QED  BY <1>2, <1>3, <1>4, <1>6, <1>7, <1>9, <1>10

\* What was copied stays copied as lines are read.
LEMMA CopiedStays ==
  ASSUME NEW L, NEW s \in Seq(L), NEW t, NEW e, t = s \/ t = Append(s, e), NEW rs, Len(rs) \in Nat, NEW at \in Nat, NEW a,
         Copied(rs, at, s, a)
  PROVE  Copied(rs, at, t, a)
<1>1. \A k \in 1..Len(s) : k <= Len(t) /\ t[k] = s[k]
  <2>1. CASE t = s
    BY <2>1
  <2>2. CASE t = Append(s, e)
    BY <2>2
  <2> QED  BY <2>1, <2>2
<1>2. ASSUME NEW k \in 1..Len(rs)
      PROVE  at + 1 + k <= Len(t) /\ \A i \in 1..a : rs[k][i] = Files!Stored(t[at + 1 + k].cells[i])
  <2>1. at + 1 + k <= Len(s) /\ \A i \in 1..a : rs[k][i] = Files!Stored(s[at + 1 + k].cells[i])
    BY DEF Copied
  <2>2. at + 1 + k \in 1..Len(s)
    BY <2>1
  <2> QED  BY <1>1, <2>1, <2>2
<1> QED  BY <1>2 DEF Copied

-----------------------------------------------------------------------------
LEMMA FilesTogether ==
  ASSUME Files!AllOrNothing', CsvTypes', AllSettled', AllMet', LinesInv', AllShort', ReadBack'
  PROVE  FilesInv'
BY DEF FilesInv

LEMMA FilesAtFirst == Files!CsvInit => FilesInv
<1> SUFFICES ASSUME Files!CsvInit PROVE FilesInv
  OBVIOUS
<1>1. /\ filesPhase = "group" /\ filesGroups = <<>> /\ store = <<>> /\ first = <<>> /\ read = <<>>
      /\ file = <<>> /\ pending = Files!NoLine /\ pass = 1
  BY DEF Files!CsvInit
<1>2. CsvTypes
  BY TypesAtFirst
<1>3. Files!AllOrNothing /\ ReadBack
  BY <1>1 DEF Files!AllOrNothing, ReadBack, Back
<1>4. AllSettled /\ AllMet
  BY <1>1 DEF AllSettled, AllMet, Framing
<1>5. LinesInv
  <2>1. PICK off : off = [n \in 0..0 |-> 0]
    OBVIOUS
  <2>2. off \in [0..0 -> Nat] /\ off[0] = 0 /\ Len(<<>>) = 0
    BY <2>1
  <2>3. LinesAt(off)
    BY <1>1, <2>2 DEF LinesAt, Offsets, OnHold, Framing
  <2> QED  BY <2>3 DEF LinesInv
<1>6. AllShort
  BY <1>1, CellFacts DEF AllShort, Short
<1> QED  BY <1>2, <1>3, <1>4, <1>5, <1>6 DEF FilesInv

LEMMA StaysBack ==
  ASSUME UNCHANGED <<pass, first>>
  PROVE  Back' = Back
BY DEF Back, AllWritable

\* An import that is refused: nothing of it is kept.
LEMMA RefusedKeeps ==
  ASSUME FilesInv, filesPhase \notin {"done"}, filesPhase' = "failed", ~Back,
         UNCHANGED <<mode, arity, pass, filesGroups, store, first, block>>,
         file' \in Seq(Files!Lines), read' \in Seq(Files!Lines), pending' \in Files!Lines \cup {Files!NoLine},
         pass = 1 => file' = <<>> /\ Len(read') <= CsvLines
  PROVE  FilesInv'
<1>1. CsvTypes'
  <2>1. ~Framing' /\ (filesPhase = "rows" => pending = Files!NoLine)' /\ Files!Known' = Files!Known
    BY DEF Framing, Files!Known
  <2>2. /\ mode' \in Files!Modes /\ arity' \in CsvArities /\ pass' \in 1..2
        /\ filesPhase' \in {"group", "rows", "close", "done", "failed", "cancelled"}
        /\ filesGroups' \in Seq(GroupOf(arity')) /\ store' \in Seq(GroupOf(arity')) /\ first' \in Seq(GroupOf(arity'))
        /\ block' \in FullBlock(arity') \cup {Files!NoBlock} /\ (Files!Known => Len(block.rows) <= block.declared)
    BY DEF FilesInv, CsvTypes
  <2> QED  BY <2>1, <2>2 DEF CsvTypes
<1>2. Files!AllOrNothing'
  BY DEF FilesInv, Files!AllOrNothing
<1>3. AllSettled' /\ AllMet'
  BY DEF FilesInv, AllSettled, AllMet, Framing
<1>4. LinesInv' /\ ReadBack'
  BY StaysBack DEF LinesInv, ReadBack, FramesWell
<1>5. AllShort'
  BY DEF FilesInv, AllShort
<1> QED  BY <1>1, <1>2, <1>3, <1>4, <1>5, FilesTogether

LEMMA SkipLineKeeps ==
  ASSUME FilesInv, Files!SkipLine
  PROVE  FilesInv'
<1>1. /\ filesPhase \in {"group", "rows"} /\ file # <<>> /\ Files!Skipped(Head(file)) /\ file' = Tail(file)
      /\ UNCHANGED <<mode, arity, pass, pending, block, filesPhase, filesGroups, store, first, read>>
  BY DEF Files!SkipLine
<1>2. pass = 2
  BY <1>1 DEF FilesInv, CsvTypes, AllShort
<1>3. ~Back
  <2>1. SUFFICES ASSUME Back PROVE FALSE
    OBVIOUS
  <2>2. PICK off : BackAt(off)
    BY <1>1, <2>1 DEF FilesInv, ReadBack, FramesWell
  <2>3. CASE filesPhase = "group"
    BY <1>1, <2>1, <2>2, <2>3, BackToGroup
  <2>4. CASE filesPhase = "rows"
    <3>1. PICK k, g : k = Len(block.rows) /\ g = first[Len(filesGroups) + 1]
      OBVIOUS
    <3>2. /\ k = Len(g.rows) => file = <<>> \/ ~Files!Skipped(Head(file))
          /\ k < Len(g.rows) => ~Files!Skipped(Head(file))
      BY <2>1, <2>2, <2>4, <3>1, BackToPulse
    <3>3. HalfSame(block, g)
      BY <2>2, <2>4, <3>1 DEF BackAt, Framing
    <3>4. k <= Len(g.rows) /\ k \in Nat /\ Len(g.rows) \in Nat
      <4>1. Len(filesGroups) + 1 \in 1..Len(first) /\ k \in Nat
        BY <2>1, <2>2, <2>4, <3>1, BackToPulse
      <4> QED  BY <3>1, <3>3, <4>1, GroupTypes DEF FilesInv, HalfSame
    <3> QED  BY <1>1, <3>2, <3>4
  <2> QED  BY <1>1, <2>3, <2>4
<1>4. CsvTypes'
  <2>1. file' \in Seq(Files!Lines)
    BY <1>1 DEF FilesInv, CsvTypes
  <2> QED  BY <1>1, <2>1 DEF FilesInv, CsvTypes, Framing, Files!Known
<1>5. Files!AllOrNothing' /\ AllSettled' /\ AllMet' /\ AllShort'
  BY <1>1, <1>2 DEF FilesInv, Files!AllOrNothing, AllSettled, AllMet, AllShort, Framing
<1>6. LinesInv'
  BY <1>1 DEF FilesInv, LinesInv, FramesWell, LinesAt, Framing, OnHold
<1>7. ReadBack'
  BY <1>1, <1>3, StaysBack DEF ReadBack
<1> QED  BY <1>4, <1>5, <1>6, <1>7, FilesTogether

\* What a line that is read does to the file and to what was read.
LEMMA ReadOne ==
  ASSUME FilesInv, NEW l \in Files!Upcoming, Files!FromFile(l)
  PROVE  /\ l \in Files!Lines /\ file' \in Seq(Files!Lines) /\ read' \in Seq(Files!Lines)
         /\ read' = read \/ read' = Append(read, l)
         /\ pending = Files!NoLine => Len(read') = Len(read) + 1 /\ read'[Len(read) + 1] = l
         /\ pending # Files!NoLine => read' = read
         /\ pass = 1 => file' = <<>> /\ Len(read') <= CsvLines
         /\ Back => pending = Files!NoLine /\ file # <<>> /\ l = Head(file) /\ file' = Tail(file)
<1>1. CsvTypes /\ AllShort /\ (Back => pending = Files!NoLine)
  BY DEF FilesInv, ReadBack
<1>2. /\ l \in Files!Lines /\ file' \in Seq(Files!Lines) /\ read' \in Seq(Files!Lines)
      /\ pending # Files!NoLine => read' = read
      /\ pending = Files!NoLine => read' = Append(read, l) /\ (pass = 1 => Len(read) < CsvLines)
      /\ pending = Files!NoLine /\ pass = 2 => file # <<>> /\ l = Head(file) /\ file' = Tail(file)
      /\ file = <<>> => file' = <<>>
  BY <1>1, LineRead
<1>3. pending = Files!NoLine => Len(read') = Len(read) + 1 /\ read'[Len(read) + 1] = l
  <2>1. PICK L : L = Files!Lines
    OBVIOUS
  <2>2. read \in Seq(L)
    BY <1>1, <2>1 DEF CsvTypes
  <2> QED  BY <1>2, <2>2, Appended
<1>4. Len(read) \in Nat /\ CsvLines \in Int
  BY <1>1, GroupTypes, CellFacts
<1>5. pass = 1 => file' = <<>> /\ Len(read') <= CsvLines
  BY <1>1, <1>2, <1>3, <1>4 DEF AllShort
<1>6. Back => pending = Files!NoLine /\ file # <<>> /\ l = Head(file) /\ file' = Tail(file)
  BY <1>1, <1>2 DEF Back
<1> QED  BY <1>2, <1>3, <1>5, <1>6

\* The groups keep their lines as more are read.
LEMMA GroupsCopied ==
  ASSUME FilesInv, NEW off, LinesAt(off), NEW e, read' = read \/ read' = Append(read, e),
         UNCHANGED <<filesGroups, arity>>
  PROVE  /\ Offsets(off, filesGroups') /\ \A n \in 1..Len(filesGroups') : Copied(filesGroups'[n].rows, off[n - 1], read', arity')
         /\ off[Len(filesGroups)] \in Nat
<1>1. CsvTypes /\ Offsets(off, filesGroups)
  BY DEF FilesInv, LinesAt
<1>2. Len(filesGroups) \in Nat /\ \A n \in 1..Len(filesGroups) : Len(filesGroups[n].rows) \in Nat
  BY <1>1, GroupTypes
<1>3. read \in Seq(Files!Lines)
  BY <1>1 DEF CsvTypes
<1>4. ASSUME NEW n \in 1..Len(filesGroups) PROVE Copied(filesGroups[n].rows, off[n - 1], read', arity)
  <2>1. Copied(filesGroups[n].rows, off[n - 1], read, arity)
    BY DEF LinesAt
  <2>2. n - 1 \in 0..Len(filesGroups)
    BY <1>2
  <2>3. off[n - 1] \in Nat
    BY <1>1, <2>2 DEF Offsets
  <2> QED  BY <1>2, <1>3, <2>1, <2>3, CopiedStays
<1>5. off[Len(filesGroups)] \in Nat
  BY <1>1, <1>2 DEF Offsets
<1> QED  BY <1>1, <1>4, <1>5

\* A group row: its pulses come next.
LEMMA OpensLines ==
  ASSUME FilesInv, filesPhase = "group", NEW l \in Files!Upcoming, Files!Taken(l),
         UNCHANGED <<arity, filesGroups>>, block'.rows = <<>>, filesPhase' = "rows"
  PROVE  LinesInv'
<1>1. PICK off : LinesAt(off)
  BY DEF FilesInv, LinesInv, FramesWell
<1>2. /\ read' = read \/ read' = Append(read, l)
      /\ pending = Files!NoLine => Len(read') = Len(read) + 1
      /\ pending # Files!NoLine => read' = read
  BY ReadOne DEF Files!Taken
<1>3. /\ Offsets(off, filesGroups') /\ \A n \in 1..Len(filesGroups') : Copied(filesGroups'[n].rows, off[n - 1], read', arity')
      /\ off[Len(filesGroups)] \in Nat
  BY <1>1, <1>2, GroupsCopied
<1>4. off[Len(filesGroups)] + OnHold = Len(read) /\ Len(read) \in Nat
  BY <1>1, GroupTypes DEF LinesAt, FilesInv
<1>5. pending' = Files!NoLine
  BY DEF Files!Taken
<1>6. Len(block'.rows) = 0 /\ OnHold' = 0
  BY <1>5 DEF OnHold
<1>7. off[Len(filesGroups)] + 1 = Len(read')
  BY <1>2, <1>3, <1>4 DEF OnHold
<1>8. off[Len(filesGroups')] + 1 + Len(block'.rows) + OnHold' = Len(read')
  BY <1>3, <1>6, <1>7
<1>9. Copied(block'.rows, off[Len(filesGroups')], read', arity')
  BY <1>6 DEF Copied
<1>10. LinesAt(off)'
  BY <1>3, <1>8, <1>9 DEF LinesAt, Framing
<1> QED  BY <1>10 DEF LinesInv

\* A group row of an exported file is whole and opens its group again.
LEMMA OpensBack ==
  ASSUME FilesInv, Back, filesPhase = "group", NEW l \in Files!Upcoming, Files!Taken(l)
  PROVE  /\ Len(l.cells) = CsvGroupArity /\ CsvNumbers[Files!Padded(l.cells)[CsvGroupArity]] >= 0
         /\ (UNCHANGED <<pass, first, filesGroups>> /\ filesPhase' = "rows" /\ block'.rows = <<>>
              /\ block'.values = Files!Padded(l.cells)
              /\ block'.declared = Files!Declared(Files!Padded(l.cells)[CsvGroupArity])) => ReadBack'
<1> DEFINE n == Len(filesGroups)
<1>1. PICK off : BackAt(off)
  BY DEF FilesInv, ReadBack, FramesWell
<1>2. pending' = Files!NoLine /\ file # <<>> /\ l = Head(file) /\ file' = Tail(file) /\ l \in Files!Lines
  BY ReadOne DEF Files!Taken
<1>3. off[n] \in Nat /\ n + 1 \in 1..Len(first) /\ l = Files!GroupLine(first[n + 1])
  BY <1>1, <1>2, BackToGroup
<1>4. PICK g : g = first[n + 1]
  OBVIOUS
<1>5. CsvTypes /\ n \in Nat /\ Len(first) \in Nat
  BY GroupTypes DEF FilesInv
<1>6. g.values \in [1..CsvGroupArity - 1 -> CsvCells] /\ Len(g.rows) \in Nat
  BY <1>3, <1>4, <1>5, GroupTypes
<1>7. Len(g.rows) < CsvLines /\ CsvLines \in Nat /\ CsvLines <= CsvUnknown /\ CsvUnknown \in Nat
  BY <1>3, <1>4, CellFacts DEF FilesInv, AllShort, Short
<1>8. Len(g.rows) \in 0..CsvLines - 1
  BY <1>6, <1>7
<1>9. /\ Len(l.cells) = CsvGroupArity /\ \A i \in 1..CsvGroupArity - 1 : l.cells[i] = g.values[i]
      /\ CsvNumbers[l.cells[CsvGroupArity]] = Len(g.rows)
  BY <1>3, <1>4, <1>6, <1>8, GroupLineIs
<1>10. Files!Padded(l.cells) = l.cells
  BY <1>2, <1>9, PaddedIs
<1>11. Files!Declared(l.cells[CsvGroupArity]) = Len(g.rows)
  <2>1. Len(g.rows) >= 0 /\ Len(g.rows) < CsvUnknown
    BY <1>6, <1>7
  <2> QED  BY <1>9, <2>1 DEF Files!Declared
<1>12. ASSUME UNCHANGED <<pass, first, filesGroups>>, filesPhase' = "rows", block'.rows = <<>>,
              block'.values = Files!Padded(l.cells),
              block'.declared = Files!Declared(Files!Padded(l.cells)[CsvGroupArity])
       PROVE  ReadBack'
  <2>1. HalfSame(block', g)
    <3>1. Len(block'.rows) = 0
      BY <1>12
    <3> QED  BY <1>6, <1>9, <1>10, <1>11, <1>12, <3>1 DEF HalfSame
  <2>2. Left(file', off[n] + 1, off, first)
    <3>1. file \in Seq(Files!Lines) /\ Offsets(off, first) /\ Left(file, off[n], off, first)
      BY <1>1, <1>5 DEF CsvTypes, BackAt
    <3> QED  BY <1>2, <1>3, <1>5, <3>1, LeftShrinks
  <2>3. off[n] + 1 + Len(block'.rows) = off[n] + 1
    BY <1>3, <1>12
  <2>4. BackAt(off)'
    <3>1. Offsets(off, first) /\ n < Len(first)
      BY <1>1, <1>3, <1>5 DEF BackAt
    <3> QED  BY <1>4, <1>12, <2>1, <2>2, <2>3, <3>1 DEF BackAt, Framing
  <2>5. /\ n <= Len(first) /\ \A m \in 1..n : Same(filesGroups[m], first[m])
    BY DEF FilesInv, ReadBack
  <2> QED  BY <1>2, <1>12, <2>4, <2>5 DEF ReadBack
<1> QED  BY <1>6, <1>9, <1>10, <1>12

LEMMA ReadGroupRowKeeps ==
  ASSUME FilesInv, Files!ReadGroupRow
  PROVE  FilesInv'
<1>1. PICK l \in Files!Upcoming :
        /\ filesPhase = "group" /\ Files!Taken(l)
        /\ LET values == Files!Padded(l.cells)
               count_ == values[CsvGroupArity]
               sound == Len(l.cells) = CsvGroupArity /\ CsvNumbers[count_] >= 0
           IN IF Files!Raised(~sound)
              THEN filesPhase' = "failed" /\ UNCHANGED block
              ELSE /\ block' = [values |-> values, declared |-> Files!Declared(count_), rows |-> <<>>, sound |-> sound]
                   /\ filesPhase' = "rows"
        /\ UNCHANGED <<mode, arity, pass, filesGroups, store, first>>
  BY Zenon DEF Files!ReadGroupRow, Files!CountIndex
<1>2. PICK v : v = Files!Padded(l.cells)
  OBVIOUS
<1>3. PICK s \in BOOLEAN : s = (Len(l.cells) = CsvGroupArity /\ CsvNumbers[v[CsvGroupArity]] >= 0)
  OBVIOUS
<1>4. IF Files!Raised(~s)
      THEN filesPhase' = "failed" /\ UNCHANGED block
      ELSE /\ block' = [values |-> v, declared |-> Files!Declared(v[CsvGroupArity]), rows |-> <<>>, sound |-> s]
           /\ filesPhase' = "rows"
  BY <1>1, <1>2, <1>3, Zenon
<1>5. /\ file' \in Seq(Files!Lines) /\ read' \in Seq(Files!Lines)
      /\ pass = 1 => file' = <<>> /\ Len(read') <= CsvLines
  BY <1>1, ReadOne DEF Files!Taken
<1>6. pending' = Files!NoLine
  BY <1>1 DEF Files!Taken
<1>7. CASE Files!Raised(~s)
  <2>1. ~Back
    <3>1. ~s
      BY <1>7 DEF Files!Raised
    <3> QED  BY <1>1, <1>2, <1>3, <3>1, OpensBack
  <2> QED  BY <1>1, <1>4, <1>5, <1>6, <1>7, <2>1, RefusedKeeps
<1>8. CASE ~Files!Raised(~s)
  <2>1. /\ block' = [values |-> v, declared |-> Files!Declared(v[CsvGroupArity]), rows |-> <<>>, sound |-> s]
        /\ filesPhase' = "rows" /\ mode' = mode
    BY <1>1, <1>4, <1>8
  <2>2. block'.rows = <<>> /\ block'.values = v /\ block'.declared = Files!Declared(v[CsvGroupArity]) /\ block'.sound = s
    BY <2>1
  <2>3. CsvTypes'
    BY <1>1, <1>2, <2>1, RowOpens DEF FilesInv
  <2>4. Files!AllOrNothing'
    BY <1>1, <2>1 DEF FilesInv, Files!AllOrNothing
  <2>5. AllSettled'
    <3>1. RowsSettled(block'.rows, arity')
      BY <2>2 DEF RowsSettled
    <3> QED  BY <1>1, <3>1 DEF FilesInv, AllSettled
  <2>6. AllMet'
    <3>1. mode = "strict" => s
      BY <1>8, Zenon DEF Files!Raised
    <3>2. mode' = "strict" => block'.sound
      BY <2>1, <2>2, <3>1, Zenon
    <3>3. mode = "strict" => \A n \in 1..Len(filesGroups) : Met(filesGroups[n])
      BY DEF FilesInv, AllMet
    <3>4. mode' = "strict" => \A n \in 1..Len(filesGroups') : Met(filesGroups'[n])
      BY <1>1, <3>3
    <3> QED  BY <3>2, <3>4, Zenon DEF AllMet
  <2>7. LinesInv'
    BY <1>1, <2>1, <2>2, OpensLines
  <2>8. AllShort'
    BY <1>1, <1>5 DEF FilesInv, AllShort
  <2>9. ReadBack'
    <3>1. CASE Back
      BY <1>1, <1>2, <2>1, <2>2, <3>1, OpensBack
    <3>2. CASE ~Back
      BY <1>1, <3>2, StaysBack DEF ReadBack
    <3> QED  BY <3>1, <3>2
  <2> QED  BY <2>3, <2>4, <2>5, <2>6, <2>7, <2>8, <2>9, FilesTogether
<1> QED  BY <1>7, <1>8

-----------------------------------------------------------------------------
\* A pulse that is stored is stored the same again.
LEMMA StoredIsSettled ==
  ASSUME NEW c \in CsvCells
  PROVE  Settled(Files!Stored(c))
BY CellFacts DEF Settled, Files!Stored, Files!Unreadable, Files!Missing

LEMMA JoinsLines ==
  ASSUME FilesInv, filesPhase = "rows", NEW l \in Files!Upcoming, Files!Taken(l),
         UNCHANGED <<arity, filesGroups, filesPhase>>,
         Len(block'.rows) = Len(block.rows) + 1, \A k \in 1..Len(block.rows) : block'.rows[k] = block.rows[k],
         \A i \in 1..arity : block'.rows[Len(block.rows) + 1][i] = Files!Stored(l.cells[i])
  PROVE  LinesInv'
<1> DEFINE k == Len(block.rows)
           N == Len(filesGroups)
<1>1. PICK off : LinesAt(off)
  BY DEF FilesInv, LinesInv, FramesWell
<1>2. pending = Files!NoLine /\ pending' = Files!NoLine
  BY DEF FilesInv, CsvTypes, Files!Taken
<1>3. /\ read' = Append(read, l) \/ read' = read
      /\ Len(read') = Len(read) + 1 /\ read'[Len(read) + 1] = l
  BY <1>2, ReadOne DEF Files!Taken
<1>4. /\ Offsets(off, filesGroups') /\ \A n \in 1..Len(filesGroups') : Copied(filesGroups'[n].rows, off[n - 1], read', arity')
      /\ off[N] \in Nat
  BY <1>1, <1>3, GroupsCopied
<1>5. CsvTypes /\ Framing
  BY DEF FilesInv, Framing
<1>6. k \in Nat /\ Len(read) \in Nat /\ read \in Seq(Files!Lines)
  BY <1>5, GroupTypes DEF CsvTypes
<1>7. off[N] + 1 + k + OnHold = Len(read) /\ Copied(block.rows, off[N], read, arity)
  BY <1>1, <1>5 DEF LinesAt
<1>8. OnHold = 0 /\ OnHold' = 0
  BY <1>2 DEF OnHold
<1>9. off[N] + 1 + k = Len(read)
  BY <1>4, <1>6, <1>7, <1>8
<1>10. off[N] + 1 + (k + 1) = Len(read) + 1
  <2>1. \A x \in Nat, y \in Nat : x + 1 + (y + 1) = (x + 1 + y) + 1
    OBVIOUS
  <2> QED  BY <1>4, <1>6, <1>9, <2>1, Zenon
<1>11. off[N] + 1 + Len(block'.rows) + OnHold' = Len(read')
  BY <1>3, <1>4, <1>6, <1>8, <1>10
<1>12. Copied(block.rows, off[N], read', arity)
  BY <1>3, <1>4, <1>6, <1>7, CopiedStays
<1>13. ASSUME NEW j \in 1..k + 1
       PROVE  off[N] + 1 + j <= Len(read') /\ \A i \in 1..arity : block'.rows[j][i] = Files!Stored(read'[off[N] + 1 + j].cells[i])
  <2>1. CASE j = k + 1
    <3>1. off[N] + 1 + j = Len(read) + 1
      BY <1>10, <2>1
    <3>2. off[N] + 1 + j <= Len(read') /\ read'[off[N] + 1 + j] = l
      BY <1>3, <1>6, <3>1
    <3> QED  BY <2>1, <3>2
  <2>2. CASE j \in 1..k
    BY <1>12, <2>2 DEF Copied
  <2> QED  BY <1>6, <2>1, <2>2
<1>14. Copied(block'.rows, off[N], read', arity)
  BY <1>13 DEF Copied
<1>15. LinesAt(off)'
  BY <1>4, <1>11, <1>14 DEF LinesAt, Framing
<1> QED  BY <1>15 DEF LinesInv

LEMMA JoinsBack ==
  ASSUME FilesInv, Back, filesPhase = "rows", Files!Wanting, NEW l \in Files!Upcoming, Files!FromFile(l)
  PROVE  LET g == first[Len(filesGroups) + 1]
             k == Len(block.rows)
         IN /\ l = Files!PulseLine(g.rows[k + 1]) /\ l.cells = g.rows[k + 1] /\ Len(l.cells) = arity
            /\ \A i \in 1..arity : Settled(l.cells[i]) /\ k + 1 \in 1..Len(g.rows)
            /\ file # <<>> /\ k < Len(g.rows) /\ k \in Nat /\ g.rows[k + 1] \in RowOf(arity)
<1> DEFINE n == Len(filesGroups)
           g == first[n + 1]
           k == Len(block.rows)
<1>1. PICK off : BackAt(off)
  BY DEF FilesInv, ReadBack, FramesWell
<1>2. CsvTypes
  BY DEF FilesInv
<1>3. /\ n + 1 \in 1..Len(first) /\ block.declared = Len(g.rows) /\ Files!Known /\ k \in Nat
      /\ k < Len(g.rows) => /\ Head(file) = Files!PulseLine(g.rows[k + 1]) /\ k + 1 \in 1..Len(g.rows)
                            /\ g.rows[k + 1] \in RowOf(arity)
  BY <1>1, BackToPulse
<1>4. k < Len(g.rows)
  BY <1>3 DEF Files!Wanting
<1>5. file # <<>> /\ l = Head(file)
  BY ReadOne
<1>6. arity \in CsvArities
  BY <1>2 DEF CsvTypes
<1>7. l = Files!PulseLine(g.rows[k + 1]) /\ l.cells = g.rows[k + 1] /\ Len(l.cells) = arity
  BY <1>3, <1>4, <1>5, <1>6, PulseLineIs
<1>8. \A i \in 1..arity : Settled(g.rows[k + 1][i])
  <2>1. GroupSettled(g, arity)
    BY <1>3 DEF FilesInv, AllSettled
  <2> QED  BY <1>3, <1>4, <2>1 DEF GroupSettled, RowsSettled
<1> QED  BY <1>3, <1>4, <1>5, <1>7, <1>8

\* The pulse that is read again is the one that was written.
LEMMA JoinsBackStays ==
  ASSUME FilesInv, Back, filesPhase = "rows", Files!Wanting, NEW l \in Files!Upcoming, Files!Taken(l),
         UNCHANGED <<arity, pass, first, filesGroups, filesPhase>>, CsvTypes',
         block'.values = block.values, block'.declared = block.declared,
         Len(block'.rows) = Len(block.rows) + 1, \A k \in 1..Len(block.rows) : block'.rows[k] = block.rows[k],
         block'.rows[Len(block.rows) + 1] = [i \in 1..arity |-> Files!Stored(l.cells[i])]
  PROVE  ReadBack'
<1> DEFINE n == Len(filesGroups)
           g == first[n + 1]
           k == Len(block.rows)
<1>1. PICK off : BackAt(off)
  BY DEF FilesInv, ReadBack, FramesWell
<1>2. pending' = Files!NoLine /\ file # <<>> /\ file' = Tail(file)
  BY ReadOne DEF Files!Taken
<1>3. /\ l.cells = g.rows[k + 1] /\ k + 1 \in 1..Len(g.rows) /\ k < Len(g.rows) /\ k \in Nat /\ g.rows[k + 1] \in RowOf(arity)
      /\ \A i \in 1..arity : Settled(l.cells[i])
  BY JoinsBack DEF Files!Taken
<1>4. /\ n + 1 \in 1..Len(first) /\ off[n] \in Nat
  BY <1>1, BackToPulse
<1>5. CsvTypes /\ Framing
  BY DEF FilesInv, Framing
<1>6. Len(first) \in Nat /\ n \in Nat /\ Len(g.rows) \in Nat
  BY <1>4, <1>5, GroupTypes
<1>7. /\ Offsets(off, first) /\ n < Len(first) /\ HalfSame(block, g) /\ Left(file, off[n] + 1 + k, off, first)
  BY <1>1, <1>5 DEF BackAt
<1>8. block'.rows[k + 1] = g.rows[k + 1]
  <2>1. \A i \in 1..arity : Files!Stored(l.cells[i]) = g.rows[k + 1][i]
    BY <1>3 DEF Settled
  <2>2. block'.rows[k + 1] = [i \in 1..arity |-> g.rows[k + 1][i]]
    BY <2>1
  <2> QED  BY <1>3, <2>2 DEF RowOf
<1>9. HalfSame(block', g)
  <2>1. \A j \in 1..k + 1 : block'.rows[j] = g.rows[j]
    <3> TAKE j \in 1..k + 1
    <3>1. j = k + 1 \/ j \in 1..k
      BY <1>3
    <3>2. ASSUME j \in 1..k PROVE block'.rows[j] = g.rows[j]
      BY <1>7, <3>2 DEF HalfSame
    <3> QED  BY <1>8, <3>1, <3>2
  <2>2. k + 1 <= Len(g.rows)
    BY <1>3
  <2> QED  BY <1>7, <2>1, <2>2 DEF HalfSame
<1>10. Left(file', off[n] + 1 + k + 1, off, first)
  <2>1. file \in Seq(Files!Lines)
    BY <1>5 DEF CsvTypes
  <2>2. off[n] + 1 + k \in Nat
    BY <1>3, <1>4
  <2> QED  BY <1>2, <1>5, <1>7, <2>1, <2>2, LeftShrinks
<1>11. off[n] + 1 + Len(block'.rows) = off[n] + 1 + k + 1
  BY <1>3, <1>4
<1>12. BackAt(off)'
  BY <1>7, <1>9, <1>10, <1>11 DEF BackAt, Framing
<1>13. n <= Len(first) /\ \A m \in 1..n : Same(filesGroups[m], first[m])
  BY DEF FilesInv, ReadBack
<1> QED  BY <1>2, <1>12, <1>13 DEF ReadBack

LEMMA ReadPulseKeeps ==
  ASSUME FilesInv, Files!ReadPulse
  PROVE  FilesInv'
<1>1. PICK l \in Files!Upcoming :
        /\ filesPhase = "rows" /\ Files!Wanting /\ ~Files!Skipped(l) /\ Len(l.cells) = arity /\ Files!Taken(l)
        /\ IF Files!Raised(CsvNumbers[l.cells[Files!TimeIndex]] = Files!Unreadable)
           THEN filesPhase' = "failed" /\ UNCHANGED block
           ELSE /\ block' = [block EXCEPT !.rows = Append(@, [i \in 1..arity |-> Files!Stored(l.cells[i])])]
                /\ UNCHANGED filesPhase
        /\ UNCHANGED <<mode, arity, pass, filesGroups, store, first>>
  BY Zenon DEF Files!ReadPulse
<1>2. /\ l \in Files!Lines /\ file' \in Seq(Files!Lines) /\ read' \in Seq(Files!Lines) /\ pending' = Files!NoLine
      /\ pass = 1 => file' = <<>> /\ Len(read') <= CsvLines
  BY <1>1, ReadOne DEF Files!Taken
<1>3. CsvTypes /\ arity \in Nat /\ arity > 0
  BY GroupTypes DEF FilesInv
<1>4. CASE Files!Raised(CsvNumbers[l.cells[Files!TimeIndex]] = Files!Unreadable)
  <2>1. filesPhase' = "failed" /\ UNCHANGED block
    BY <1>1, <1>4
  <2>2. CsvNumbers[l.cells[Files!TimeIndex]] = Files!Unreadable
    BY <1>4 DEF Files!Raised
  <2>3. ~Back
    <3>1. Back => \A i \in 1..arity : Settled(l.cells[i])
      BY <1>1, JoinsBack DEF Files!Taken
    <3>2. Files!TimeIndex \in 1..arity
      BY <1>3 DEF Files!TimeIndex
    <3> QED  BY <2>2, <3>1, <3>2 DEF Settled
  <2> QED  BY <1>1, <1>2, <2>1, <2>3, RefusedKeeps
<1>5. CASE ~Files!Raised(CsvNumbers[l.cells[Files!TimeIndex]] = Files!Unreadable)
  <2>1. /\ block' = [block EXCEPT !.rows = Append(@, [i \in 1..arity |-> Files!Stored(l.cells[i])])]
        /\ UNCHANGED <<filesPhase, mode, arity, pass, filesGroups, store, first>>
    BY <1>1, <1>5
  <2>2. /\ CsvTypes' /\ block'.values = block.values /\ block'.declared = block.declared
        /\ block'.sound = block.sound /\ Len(block'.rows) = Len(block.rows) + 1
        /\ \A k \in 1..Len(block.rows) : block'.rows[k] = block.rows[k]
        /\ block'.rows[Len(block.rows) + 1] = [i \in 1..arity |-> Files!Stored(l.cells[i])]
    BY <1>1, <1>3, <2>1, RowJoins
  <2>3. Files!AllOrNothing' /\ AllMet' /\ AllShort'
    BY <1>2, <2>1, <2>2 DEF FilesInv, Files!AllOrNothing, AllMet, AllShort, Framing
  <2>4. l.cells \in [1..arity -> CsvCells] /\ Framing /\ Len(block.rows) \in Nat
    BY <1>1, <1>2, <1>3, CellsOf, GroupTypes DEF Framing
  <2>5. AllSettled'
    <3>1. ASSUME NEW k \in 1..Len(block.rows) + 1, NEW i \in 1..arity PROVE Settled(block'.rows[k][i])
      <4>1. CASE k = Len(block.rows) + 1
        BY <2>2, <2>4, <4>1, StoredIsSettled
      <4>2. CASE k \in 1..Len(block.rows)
        BY <2>2, <2>4, <4>2 DEF FilesInv, AllSettled, RowsSettled
      <4> QED  BY <2>4, <4>1, <4>2
    <3>2. RowsSettled(block'.rows, arity')
      BY <2>1, <2>2, <3>1 DEF RowsSettled
    <3> QED  BY <2>1, <3>2 DEF FilesInv, AllSettled
  <2>6. LinesInv'
    <3>1. \A i \in 1..arity : block'.rows[Len(block.rows) + 1][i] = Files!Stored(l.cells[i])
      BY <2>2
    <3> QED  BY <1>1, <2>1, <2>2, <3>1, JoinsLines
  <2>7. ReadBack'
    <3>1. CASE Back
      BY <1>1, <2>1, <2>2, <3>1, JoinsBackStays
    <3>2. CASE ~Back
      BY <2>1, <3>2, StaysBack DEF ReadBack
    <3> QED  BY <3>1, <3>2
  <2> QED  BY <2>2, <2>3, <2>5, <2>6, <2>7, FilesTogether
<1> QED  BY <1>4, <1>5

\* A block that a step of the phase leaves as it is.
LEMMA BlockRests ==
  ASSUME FilesInv, filesPhase = "rows", filesPhase' = "close",
         UNCHANGED <<mode, arity, pass, file, pending, block, filesGroups, store, first, read>>,
         Back => Len(block.rows) = block.declared
  PROVE  FilesInv'
<1>1. CsvTypes' /\ Files!AllOrNothing'
  BY DEF FilesInv, CsvTypes, Files!AllOrNothing, Framing, Files!Known
<1>2. AllSettled' /\ AllMet' /\ AllShort'
  BY DEF FilesInv, AllSettled, AllMet, AllShort, Framing
<1>3. LinesInv'
  <2>1. PICK off : LinesAt(off)
    BY DEF FilesInv, LinesInv, FramesWell
  <2>2. LinesAt(off)'
    BY <2>1 DEF LinesAt, Framing, OnHold
  <2> QED  BY <2>2 DEF LinesInv
<1>4. ReadBack'
  <2>1. CASE Back
    <3>1. PICK off : BackAt(off)
      BY <2>1 DEF FilesInv, ReadBack, FramesWell
    <3>2. BackAt(off)'
      BY <2>1, <3>1 DEF BackAt, Framing
    <3>3. pending = Files!NoLine /\ Len(filesGroups) <= Len(first) /\ \A n \in 1..Len(filesGroups) : Same(filesGroups[n], first[n])
      BY <2>1 DEF FilesInv, ReadBack
    <3> QED  BY <3>2, <3>3 DEF ReadBack
  <2>2. CASE ~Back
    BY <2>2, StaysBack DEF ReadBack
  <2> QED  BY <2>1, <2>2
<1> QED  BY <1>1, <1>2, <1>3, <1>4, FilesTogether

LEMMA HandBackKeeps ==
  ASSUME FilesInv, Files!HandBack
  PROVE  FilesInv'
<1>1. PICK l \in Files!Upcoming :
        /\ filesPhase = "rows" /\ Files!Wanting /\ Len(l.cells) # arity /\ Files!FromFile(l) /\ pending' = l
        /\ filesPhase' = IF Files!Raised(Files!Known) THEN "failed" ELSE "close"
        /\ UNCHANGED <<mode, arity, pass, block, filesGroups, store, first>>
  BY Zenon DEF Files!HandBack, Files!Held
<1>2. ~Back
  BY <1>1, JoinsBack
<1>3. pending = Files!NoLine
  BY <1>1 DEF FilesInv, CsvTypes
<1>4. /\ l \in Files!Lines /\ file' \in Seq(Files!Lines) /\ read' \in Seq(Files!Lines)
      /\ read' = read \/ read' = Append(read, l)
      /\ Len(read') = Len(read) + 1
      /\ pass = 1 => file' = <<>> /\ Len(read') <= CsvLines
  BY <1>1, <1>3, ReadOne
<1>5. CASE filesPhase' = "failed"
  BY <1>1, <1>2, <1>4, <1>5, RefusedKeeps
<1>6. CASE filesPhase' = "close"
  <2>1. CsvTypes'
    BY <1>1, <1>4, <1>6 DEF FilesInv, CsvTypes, Framing, Files!Known
  <2>2. Files!AllOrNothing' /\ AllSettled' /\ AllMet' /\ AllShort'
    BY <1>1, <1>4, <1>6 DEF FilesInv, Files!AllOrNothing, AllSettled, AllMet, AllShort, Framing
  <2>3. LinesInv'
    <3>1. PICK off : LinesAt(off)
      BY <1>1 DEF FilesInv, LinesInv, FramesWell
    <3>2. /\ Offsets(off, filesGroups') /\ \A n \in 1..Len(filesGroups') : Copied(filesGroups'[n].rows, off[n - 1], read', arity')
          /\ off[Len(filesGroups)] \in Nat
      BY <1>1, <1>4, <3>1, GroupsCopied
    <3>3. CsvTypes /\ Framing
      BY <1>1 DEF FilesInv, Framing
    <3>4. Len(block.rows) \in Nat /\ Len(read) \in Nat /\ read \in Seq(Files!Lines)
      BY <3>3, GroupTypes DEF CsvTypes
    <3>5. off[Len(filesGroups)] + 1 + Len(block.rows) + OnHold = Len(read) /\ Copied(block.rows, off[Len(filesGroups)], read, arity)
      BY <3>1, <3>3 DEF LinesAt
    <3>6. OnHold = 0 /\ OnHold' = 1
      BY <1>1, <1>3, <1>4, CellsOf DEF OnHold
    <3>7. off[Len(filesGroups)] + 1 + Len(block.rows) + OnHold' = Len(read')
      <4>1. \A x \in Nat, y \in Nat : (x + 1 + y) + 0 = (x + 1 + y) /\ (x + 1 + y) + 1 = x + 1 + y + 1
        OBVIOUS
      <4>2. off[Len(filesGroups)] + 1 + Len(block.rows) = Len(read)
        BY <3>2, <3>4, <3>5, <3>6, <4>1, Zenon
      <4> QED  BY <1>4, <3>6, <4>2, Zenon
    <3>8. Copied(block.rows, off[Len(filesGroups)], read', arity)
      BY <1>4, <3>2, <3>4, <3>5, CopiedStays
    <3>9. LinesAt(off)'
      BY <1>1, <1>6, <3>2, <3>7, <3>8 DEF LinesAt, Framing
    <3> QED  BY <3>9 DEF LinesInv
  <2>4. ReadBack'
    BY <1>1, <1>2, StaysBack DEF ReadBack
  <2> QED  BY <2>1, <2>2, <2>3, <2>4, FilesTogether
<1> QED  BY <1>1, <1>5, <1>6

LEMMA EndOfFileKeeps ==
  ASSUME FilesInv, Files!EndOfFile
  PROVE  FilesInv'
<1>1. /\ filesPhase = "rows" /\ Files!Wanting /\ Files!AtEnd /\ filesPhase' \in {"failed", "close"}
      /\ UNCHANGED <<mode, arity, pass, file, pending, block, filesGroups, store, first, read>>
  BY DEF Files!EndOfFile
<1>2. ~Back
  <2>1. SUFFICES ASSUME Back PROVE FALSE
    OBVIOUS
  <2>2. file = <<>>
    BY <1>1, <2>1 DEF Back, Files!AtEnd
  <2>3. PICK off : BackAt(off)
    BY <1>1, <2>1 DEF FilesInv, ReadBack, FramesWell
  <2>4. PICK k, g : k = Len(block.rows) /\ g = first[Len(filesGroups) + 1]
    OBVIOUS
  <2>5. block.declared = Len(g.rows) /\ Files!Known /\ (k < Len(g.rows) => file # <<>>)
    BY <1>1, <2>1, <2>3, <2>4, BackToPulse
  <2> QED  BY <1>1, <2>2, <2>4, <2>5 DEF Files!Wanting
<1>3. CASE filesPhase' = "failed"
  <2>1. /\ file' \in Seq(Files!Lines) /\ read' \in Seq(Files!Lines) /\ pending' \in Files!Lines \cup {Files!NoLine}
        /\ pass = 1 => file' = <<>> /\ Len(read') <= CsvLines
    BY <1>1 DEF FilesInv, CsvTypes, AllShort
  <2> QED  BY <1>1, <1>2, <1>3, <2>1, RefusedKeeps
<1>4. CASE filesPhase' = "close"
  BY <1>1, <1>2, <1>4, BlockRests
<1> QED  BY <1>1, <1>3, <1>4

LEMMA EnoughKeeps ==
  ASSUME FilesInv, Files!Enough
  PROVE  FilesInv'
<1>1. /\ filesPhase = "rows" /\ ~Files!Wanting /\ filesPhase' = "close"
      /\ UNCHANGED <<mode, arity, pass, file, pending, block, filesGroups, store, first, read>>
  BY DEF Files!Enough
<1>2. Len(block.rows) = block.declared
  <2>1. Files!Known /\ ~(Len(block.rows) < block.declared)
    BY <1>1 DEF Files!Wanting
  <2>2. Len(block.rows) <= block.declared
    BY <2>1 DEF FilesInv, CsvTypes
  <2>3. Len(block.rows) \in Nat /\ block.declared \in 0..CsvUnknown
    BY <1>1, GroupTypes DEF FilesInv, Framing
  <2> QED  BY <2>1, <2>2, <2>3
<1> QED  BY <1>1, <1>2, BlockRests

LEMMA CancelKeeps ==
  ASSUME FilesInv, Files!Cancel
  PROVE  FilesInv'
<1>1. /\ filesPhase \in {"group", "rows"} /\ filesPhase' = "cancelled"
      /\ UNCHANGED <<mode, arity, pass, file, pending, block, filesGroups, store, first, read>>
  BY DEF Files!Cancel, Files!RolledBack
<1>2. CsvTypes'
  BY <1>1 DEF FilesInv, CsvTypes, Framing, Files!Known
<1>3. Files!AllOrNothing' /\ AllSettled' /\ AllMet' /\ AllShort' /\ LinesInv'
  BY <1>1 DEF FilesInv, Files!AllOrNothing, AllSettled, AllMet, AllShort, LinesInv, Framing, FramesWell
<1>4. ReadBack'
  BY <1>1, StaysBack DEF FilesInv, ReadBack, FramesWell
<1> QED  BY <1>2, <1>3, <1>4, FilesTogether

LEMMA CommitKeeps ==
  ASSUME FilesInv, Files!Commit
  PROVE  FilesInv'
<1>1. /\ filesPhase = "group" /\ Files!AtEnd /\ store' = store \o filesGroups /\ filesPhase' = "done"
      /\ UNCHANGED <<mode, arity, pass, file, pending, block, filesGroups, first, read>>
  BY DEF Files!Commit
<1>2. store' = filesGroups
  <2>1. PICK G : G = GroupOf(arity)
    OBVIOUS
  <2>2. store = <<>> /\ filesGroups \in Seq(G)
    BY <1>1, <2>1 DEF FilesInv, Files!AllOrNothing, CsvTypes
  <2> QED  BY <1>1, <2>2
<1>3. CsvTypes' /\ Files!AllOrNothing'
  BY <1>1, <1>2 DEF FilesInv, CsvTypes, Files!AllOrNothing, Framing, Files!Known
<1>4. AllSettled' /\ AllMet' /\ AllShort'
  BY <1>1 DEF FilesInv, AllSettled, AllMet, AllShort, Framing
<1>5. LinesInv'
  <2>1. PICK off : LinesAt(off)
    BY <1>1 DEF FilesInv, LinesInv, FramesWell
  <2>2. LinesAt(off)'
    BY <1>1, <2>1 DEF LinesAt, Framing, OnHold
  <2> QED  BY <2>2 DEF LinesInv
<1>6. ReadBack'
  <2>1. CASE Back
    <3>1. PICK off : BackAt(off)
      BY <1>1, <2>1 DEF FilesInv, ReadBack, FramesWell
    <3>2. file = <<>>
      BY <1>1, <2>1 DEF Files!AtEnd, Back
    <3>3. Len(filesGroups) = Len(first)
      BY <1>1, <2>1, <3>1, <3>2, BackToGroup
    <3>4. BackAt(off)'
      BY <1>1, <3>1, <3>3 DEF BackAt, Framing
    <3>5. pending = Files!NoLine /\ Len(filesGroups) <= Len(first) /\ \A n \in 1..Len(filesGroups) : Same(filesGroups[n], first[n])
      BY <2>1 DEF FilesInv, ReadBack
    <3> QED  BY <1>1, <3>4, <3>5 DEF ReadBack
  <2>2. CASE ~Back
    BY <1>1, <2>2, StaysBack DEF ReadBack
  <2> QED  BY <2>1, <2>2
<1> QED  BY <1>3, <1>4, <1>5, <1>6, FilesTogether

-----------------------------------------------------------------------------
\* The block becomes a group.
LEMMA FiledKeeps ==
  ASSUME FilesInv, filesPhase = "close", NEW g, GroupIs(g), filesGroups' = Append(filesGroups, g),
         ~Files!Raised(Files!Known /\ block.declared # Len(block.rows)),
         filesPhase' = "group", block' = Files!NoBlock,
         UNCHANGED <<mode, arity, pass, file, pending, store, first, read>>
  PROVE  FilesInv'
<1> DEFINE N == Len(filesGroups)
<1>1. CsvTypes /\ Framing
  BY DEF FilesInv, Framing
<1>2. PICK G : G = GroupOf(arity)
  OBVIOUS
<1>3. filesGroups \in Seq(G) /\ g \in G
  BY <1>1, <1>2 DEF CsvTypes, GroupIs
<1>4. /\ N \in Nat /\ filesGroups' \in Seq(G) /\ Len(filesGroups') = N + 1 /\ filesGroups'[N + 1] = g
      /\ \A n \in 1..N : filesGroups'[n] = filesGroups[n]
  BY <1>3
<1>5. \A n \in 1..N + 1 : n = N + 1 \/ n \in 1..N
  BY <1>4
<1>6. /\ g.rows = block.rows /\ g.sound = block.sound /\ g.values = [i \in 1..CsvGroupArity - 1 |-> CsvForms[block.values[i]]]
      /\ g.declared = IF Files!Known THEN block.declared ELSE Len(block.rows)
  BY DEF GroupIs
<1>7. Len(block.rows) \in Nat /\ Len(read) \in Nat /\ block.values \in [1..CsvGroupArity -> CsvCells]
  BY <1>1, GroupTypes
<1>8. PICK off : LinesAt(off)
  BY <1>1 DEF FilesInv, LinesInv, FramesWell, Framing
<1>9. /\ Offsets(off, filesGroups) /\ \A n \in 1..N : Copied(filesGroups[n].rows, off[n - 1], read, arity)
      /\ off[N] + 1 + Len(block.rows) + OnHold = Len(read) /\ Copied(block.rows, off[N], read, arity)
  BY <1>1, <1>8 DEF LinesAt
<1>10. CsvTypes'
  <2>1. block'.rows = <<>> /\ block'.declared = 0
    BY DEF Files!NoBlock
  <2>2. (Files!Known => Len(block.rows) <= block.declared)'
    BY <2>1
  <2> QED  BY <1>2, <1>4, <2>2 DEF FilesInv, CsvTypes, Framing
<1>11. Files!AllOrNothing'
  BY DEF FilesInv, Files!AllOrNothing
<1>12. AllSettled'
  <2>1. GroupSettled(g, arity)
    <3>1. RowsSettled(g.rows, arity)
      BY <1>1, <1>6 DEF FilesInv, AllSettled
    <3>2. \A i \in 1..CsvGroupArity - 1 : CsvForms[g.values[i]] = g.values[i]
      <4> TAKE i \in 1..CsvGroupArity - 1
      <4>1. i \in 1..CsvGroupArity
        BY CellFacts
      <4>2. block.values[i] \in CsvCells /\ g.values[i] = CsvForms[block.values[i]]
        BY <1>6, <1>7, <4>1
      <4> QED  BY <4>2, CellFacts
    <3> QED  BY <3>1, <3>2 DEF GroupSettled
  <2>2. \A n \in 1..N : GroupSettled(filesGroups[n], arity)
    BY DEF FilesInv, AllSettled
  <2>3. \A n \in 1..N + 1 : GroupSettled(filesGroups'[n], arity)
    BY <1>4, <1>5, <2>1, <2>2
  <2>4. \A n \in 1..Len(first) : GroupSettled(first[n], arity)
    BY DEF FilesInv, AllSettled
  <2> QED  BY <1>4, <2>3, <2>4 DEF AllSettled, Framing
<1>13. AllMet'
  <2>1. mode = "strict" => Met(g)
    <3>1. mode = "strict" => block.sound
      BY <1>1, Zenon DEF FilesInv, AllMet
    <3>2. mode = "strict" => ~(Files!Known /\ block.declared # Len(block.rows))
      BY Zenon DEF Files!Raised
    <3>3. mode = "strict" => g.declared = Len(g.rows)
      BY <1>6, <3>2
    <3>4. g.sound = block.sound
      BY <1>6
    <3> QED  BY <3>1, <3>3, <3>4, Zenon DEF Met
  <2>2. mode = "strict" => \A n \in 1..N : Met(filesGroups[n])
    BY DEF FilesInv, AllMet
  <2>3. mode = "strict" => \A n \in 1..N + 1 : Met(filesGroups'[n])
    BY <1>4, <1>5, <2>1, <2>2
  <2> QED  BY <1>4, <2>3 DEF AllMet, Framing
<1>14. PICK b : /\ Offsets(b, filesGroups') /\ \A n \in 0..N : b[n] = off[n]
                /\ b[N + 1] = off[N] + 1 + Len(block.rows)
  <2>1. Len(g.rows) \in Nat /\ Len(g.rows) = Len(block.rows)
    BY <1>6, <1>7
  <2>2. Offsets(off, filesGroups)
    BY <1>9
  <2>3. PICK t : t = filesGroups'
    OBVIOUS
  <2>4. t = Append(filesGroups, g)
    BY <2>3
  <2>5. PICK b : Offsets(b, t) /\ LongerBy(b, off, N, Len(g.rows))
    BY <1>3, <2>1, <2>2, <2>4, OneGroupMore
  <2> QED  BY <2>1, <2>3, <2>5, Zenon DEF LongerBy
<1>15. off[N] \in Nat
  BY <1>4, <1>9 DEF Offsets
<1>16. LinesInv'
  <2>1. OnHold' = OnHold
    BY DEF OnHold
  <2>2. b[N + 1] + OnHold = Len(read)
    BY <1>9, <1>14
  <2>3. ASSUME NEW n \in 1..N + 1 PROVE Copied(filesGroups'[n].rows, b[n - 1], read, arity)
    <3>1. CASE n = N + 1
      <4>1. n - 1 = N /\ N \in 0..N
        BY <1>4, <3>1
      <4> QED  BY <1>4, <1>6, <1>9, <1>14, <3>1, <4>1
    <3>2. CASE n \in 1..N
      <4>1. n - 1 \in 0..N
        BY <1>4, <3>2
      <4> QED  BY <1>4, <1>9, <1>14, <3>2, <4>1
    <3> QED  BY <1>5, <3>1, <3>2
  <2>4. LinesAt(b)'
    BY <1>4, <1>14, <2>1, <2>2, <2>3 DEF LinesAt, Framing
  <2> QED  BY <2>4 DEF LinesInv
<1>17. AllShort'
  <2>1. pass = 1 => Len(g.rows) < CsvLines
    <3>1. pass = 1 => Len(read) <= CsvLines
      BY DEF FilesInv, AllShort
    <3>2. OnHold \in Nat /\ CsvLines \in Int
      BY CellFacts DEF OnHold
    <3>3. Len(block.rows) < Len(read)
      BY <1>7, <1>9, <1>15, <3>2
    <3> QED  BY <1>6, <1>7, <3>1, <3>2, <3>3
  <2>2. pass = 1 => \A n \in 1..N : Len(filesGroups[n].rows) < CsvLines
    BY DEF FilesInv, AllShort, Short
  <2>3. pass = 1 => \A n \in 1..N + 1 : Len(filesGroups'[n].rows) < CsvLines
    BY <1>4, <1>5, <2>1, <2>2
  <2>4. Short(first) /\ (pass = 1 => first = <<>> /\ file = <<>> /\ Len(read) <= CsvLines)
    BY DEF FilesInv, AllShort
  <2> QED  BY <1>4, <2>3, <2>4 DEF AllShort, Short
<1>18. ReadBack'
  <2>1. CASE Back
    <3>1. PICK bk : BackAt(bk)
      BY <1>1, <2>1 DEF FilesInv, ReadBack, FramesWell, Framing
    <3>2. /\ Offsets(bk, first) /\ N < Len(first) /\ HalfSame(block, first[N + 1]) /\ Left(file, bk[N] + 1 + Len(block.rows), bk, first)
          /\ Len(block.rows) = block.declared
      BY <1>1, <3>1 DEF BackAt
    <3>3. PICK h : h = first[N + 1]
      OBVIOUS
    <3>4. N + 1 \in 1..Len(first) /\ (N + 1) - 1 = N
      BY <1>1, <1>4, <3>2, GroupTypes
    <3>5. h \in GroupOf(arity)
      BY <1>1, <3>3, <3>4, GroupTypes
    <3>6. /\ Len(h.rows) \in Nat /\ h.values \in [1..CsvGroupArity - 1 -> CsvCells] /\ h.rows \in Seq(RowOf(arity))
          /\ block.rows \in Seq(RowOf(arity))
      BY <1>1, <3>5, GroupTypes
    <3>7. g.rows = h.rows
      <4>1. Len(block.rows) = Len(h.rows) /\ \A k \in 1..Len(block.rows) : block.rows[k] = h.rows[k]
        BY <3>2, <3>3 DEF HalfSame
      <4>2. PICK R : R = RowOf(arity)
        OBVIOUS
      <4>3. block.rows \in Seq(R) /\ h.rows \in Seq(R)
        BY <3>6, <4>2
      <4>4. block.rows = h.rows
        BY <4>1, <4>3
      <4> QED  BY <1>6, <4>4
    <3>8. g.values = h.values
      <4>1. \A i \in 1..CsvGroupArity - 1 : block.values[i] = h.values[i]
        BY <3>2, <3>3 DEF HalfSame
      <4>2. \A i \in 1..CsvGroupArity - 1 : CsvForms[h.values[i]] = h.values[i]
        BY <3>3, <3>4 DEF FilesInv, AllSettled, GroupSettled
      <4>3. g.values = [i \in 1..CsvGroupArity - 1 |-> h.values[i]]
        BY <1>6, <4>1, <4>2
      <4> QED  BY <3>6, <4>3
    <3>9. Same(g, h)
      BY <3>7, <3>8 DEF Same
    <3>10. /\ pending = Files!NoLine /\ \A n \in 1..N : Same(filesGroups[n], first[n])
      BY <2>1 DEF FilesInv, ReadBack
    <3>11. \A n \in 1..N + 1 : Same(filesGroups'[n], first[n])
      BY <1>4, <1>5, <3>3, <3>9, <3>10
    <3>12. bk[N + 1] = bk[N] + 1 + Len(block.rows)
      <4>1. bk[N + 1] = bk[(N + 1) - 1] + 1 + Len(first[N + 1].rows)
        BY <3>2, <3>4 DEF Offsets
      <4> QED  BY <1>6, <3>3, <3>4, <3>7, <4>1
    <3>13. BackAt(bk)'
      <4>1. Left(file, bk[N + 1], bk, first)
        BY <3>2, <3>12
      <4> QED  BY <1>4, <3>2, <4>1 DEF BackAt, Framing
    <3>14. N + 1 <= Len(first)
      BY <3>4
    <3> QED  BY <1>4, <3>10, <3>11, <3>13, <3>14 DEF ReadBack
  <2>2. CASE ~Back
    BY <2>2, StaysBack DEF ReadBack
  <2> QED  BY <2>1, <2>2
<1> QED  BY <1>10, <1>11, <1>12, <1>13, <1>16, <1>17, <1>18, FilesTogether

LEMMA CloseBlockKeeps ==
  ASSUME FilesInv, Files!CloseBlock
  PROVE  FilesInv'
<1>1. CsvTypes /\ Framing /\ filesPhase = "close" /\ UNCHANGED <<mode, arity, pass, file, pending, store, first, read>>
  BY DEF Files!CloseBlock, FilesInv, Framing
<1>2. CASE Files!Raised(Files!Known /\ block.declared # Len(block.rows))
  <2>1. filesPhase' = "failed" /\ UNCHANGED <<block, filesGroups>>
    BY <1>2 DEF Files!CloseBlock
  <2>2. ~Back
    <3>1. block.declared # Len(block.rows)
      BY <1>2, Zenon DEF Files!Raised
    <3>2. Back => \E off : BackAt(off)
      BY <1>1 DEF FilesInv, ReadBack, FramesWell
    <3> QED  BY <1>1, <3>1, <3>2 DEF BackAt
  <2>3. /\ file' \in Seq(Files!Lines) /\ read' \in Seq(Files!Lines) /\ pending' \in Files!Lines \cup {Files!NoLine}
        /\ pass = 1 => file' = <<>> /\ Len(read') <= CsvLines
    BY <1>1 DEF FilesInv, CsvTypes, AllShort
  <2> QED  BY <1>1, <2>1, <2>2, <2>3, RefusedKeeps
<1>3. CASE ~Files!Raised(Files!Known /\ block.declared # Len(block.rows))
  <2>1. PICK g : /\ g = [values |-> [i \in 1..CsvGroupArity - 1 |-> CsvForms[block.values[i]]],
                         declared |-> IF Files!Known THEN block.declared ELSE Len(block.rows),
                         rows |-> block.rows, sound |-> block.sound]
                 /\ filesGroups' = Append(filesGroups, g) /\ filesPhase' = "group" /\ block' = Files!NoBlock
    BY <1>3, Zenon DEF Files!CloseBlock
  <2>2. GroupIs(g)
    BY <1>1, <2>1, BlockFiled
  <2> QED  BY <1>1, <1>3, <2>1, <2>2, FiledKeeps
<1> QED  BY <1>2, <1>3

\* What was committed is exported, and the file is there to be read from its start.
LEMMA ImportAgainKeeps ==
  ASSUME FilesInv, Files!ImportAgain
  PROVE  FilesInv'
<1>1. /\ filesPhase = "done" /\ pass = 1 /\ pass' = 2 /\ file' = Files!Export /\ first' = store
      /\ store' = <<>> /\ filesGroups' = <<>> /\ read' = <<>> /\ pending' = Files!NoLine
      /\ block' = Files!NoBlock /\ filesPhase' = "group" /\ UNCHANGED <<mode, arity>>
  BY DEF Files!ImportAgain
<1>2. CsvTypes /\ store = filesGroups
  BY <1>1 DEF FilesInv, Files!AllOrNothing
<1>3. PICK off : LinesAt(off)
  BY <1>1 DEF FilesInv, LinesInv, FramesWell
<1>4. Offsets(off, store) /\ Short(store) /\ arity \in CsvArities /\ store \in Seq(GroupOf(arity))
  BY <1>1, <1>2, <1>3 DEF LinesAt, FilesInv, AllShort, CsvTypes
<1>5. Files!Export \in Seq(Files!Lines) /\ Left(Files!Export, 0, off, store)
  BY <1>4, ExportIs
<1>6. block'.rows = <<>> /\ block'.declared = 0
  BY <1>1 DEF Files!NoBlock
<1>7. CsvTypes'
  <2>1. (Files!Known => Len(block.rows) <= block.declared)'
    BY <1>6
  <2> QED  BY <1>1, <1>2, <1>4, <1>5, <2>1 DEF CsvTypes, Framing
<1>8. Files!AllOrNothing'
  BY <1>1 DEF Files!AllOrNothing
<1>9. AllSettled' /\ AllMet'
  <2>1. \A n \in 1..Len(store) : GroupSettled(store[n], arity)
    BY <1>2 DEF FilesInv, AllSettled
  <2> QED  BY <1>1, <2>1 DEF AllSettled, AllMet, Framing
<1>10. LinesInv'
  <2>1. PICK z : z = [n \in 0..0 |-> 0]
    OBVIOUS
  <2>2. z \in [0..0 -> Nat] /\ z[0] = 0 /\ Len(<<>>) = 0
    BY <2>1
  <2>3. LinesAt(z)'
    BY <1>1, <2>2 DEF LinesAt, Offsets, OnHold, Framing
  <2> QED  BY <2>3 DEF LinesInv
<1>11. AllShort'
  BY <1>1, <1>4 DEF AllShort
<1>12. ReadBack'
  <2>1. off[0] = 0 /\ Len(<<>>) = 0
    BY <1>4 DEF Offsets
  <2>2. BackAt(off)'
    BY <1>1, <1>4, <1>5, <2>1 DEF BackAt, Framing
  <2>3. Len(filesGroups') <= Len(first') /\ 1..Len(filesGroups') = {}
    <3>1. Len(store) \in Nat
      BY <1>4
    <3> QED  BY <1>1, <3>1
  <2> QED  BY <1>1, <2>2, <2>3 DEF ReadBack
<1> QED  BY <1>7, <1>8, <1>9, <1>10, <1>11, <1>12, FilesTogether

LEMMA FilesStay ==
  ASSUME FilesInv, Files!CsvNext
  PROVE  FilesInv'
BY SkipLineKeeps, ReadGroupRowKeeps, ReadPulseKeeps, HandBackKeeps, EndOfFileKeeps, EnoughKeeps,
   CloseBlockKeeps, CancelKeeps, CommitKeeps, ImportAgainKeeps DEF Files!CsvNext

LEMMA FilesAtRest ==
  ASSUME FilesInv, UNCHANGED <<mode, arity, pass, file, pending, block, filesPhase, filesGroups, store, first, read>>
  PROVE  FilesInv'
<1>1. CsvTypes' /\ Files!AllOrNothing'
  BY DEF FilesInv, CsvTypes, Files!AllOrNothing, Framing, Files!Known
<1>2. AllSettled' /\ AllMet' /\ AllShort'
  BY DEF FilesInv, AllSettled, AllMet, AllShort, Framing
<1>3. LinesInv'
  BY DEF FilesInv, LinesInv, FramesWell, LinesAt, Framing, OnHold
<1>4. ReadBack'
  BY StaysBack DEF FilesInv, ReadBack, FramesWell, BackAt, Framing
<1> QED  BY <1>1, <1>2, <1>3, <1>4, FilesTogether

-----------------------------------------------------------------------------
LEMMA FilesHold ==
  ASSUME FilesInv
  PROVE  Files!CsvTypeOK /\ Files!LinesOnce /\ Files!StrictExact /\ Files!RoundTrip
<1>1. CsvTypes /\ Len(filesGroups) \in Nat /\ Len(first) \in Nat
  BY GroupTypes DEF FilesInv
<1>2. Files!CsvTypeOK
  <2>1. block \in FullBlock(arity) \cup {Files!NoBlock}
    BY <1>1 DEF CsvTypes
  <2>2. \A i \in DOMAIN block.rows : block.rows[i] \in [1..arity -> CsvCells]
    <3>1. CASE block \in FullBlock(arity)
      <4>1. block.rows \in Seq(RowOf(arity))
        BY <3>1 DEF FullBlock
      <4>2. PICK R : R = RowOf(arity)
        OBVIOUS
      <4>3. \A i \in DOMAIN block.rows : block.rows[i] \in R
        BY <4>1, <4>2
      <4> QED  BY <4>2, <4>3 DEF RowOf
    <3>2. CASE block = Files!NoBlock
      BY <3>2 DEF Files!NoBlock
    <3> QED  BY <2>1, <3>1, <3>2
  <2>3. block.declared \in 0..CsvUnknown
    BY <2>1, CellFacts DEF FullBlock, Files!NoBlock
  <2> QED  BY <1>1, <2>2, <2>3 DEF CsvTypes, Files!CsvTypeOK
<1>3. Files!LinesOnce
  <2>1. SUFFICES ASSUME filesPhase \in {"group", "done"}
                 PROVE  /\ Files!RowsBefore(Len(filesGroups)) + (IF pending = Files!NoLine THEN 0 ELSE 1) = Len(read)
                        /\ \A n \in DOMAIN filesGroups : \A k \in 1..Len(filesGroups[n].rows), i \in 1..arity :
                             filesGroups[n].rows[k][i] = Files!Stored(read[Files!RowsBefore(n - 1) + 1 + k].cells[i])
    BY Zenon DEF Files!LinesOnce
  <2>2. PICK off : LinesAt(off)
    BY <2>1 DEF FilesInv, LinesInv, FramesWell
  <2>3. \A n \in 0..Len(filesGroups) : Files!RowsBefore(n) = off[n]
    BY <1>1, <2>2, RowsBeforeIs DEF LinesAt
  <2>4. off[Len(filesGroups)] + OnHold = Len(read) /\ Len(filesGroups) \in 0..Len(filesGroups)
    BY <1>1, <2>1, <2>2 DEF LinesAt
  <2>5. Files!RowsBefore(Len(filesGroups)) + (IF pending = Files!NoLine THEN 0 ELSE 1) = Len(read)
    BY <2>3, <2>4 DEF OnHold
  <2>6. \A n \in DOMAIN filesGroups : n \in 1..Len(filesGroups) /\ n - 1 \in 0..Len(filesGroups)
    <3>1. PICK G : G = GroupOf(arity)
      OBVIOUS
    <3>2. filesGroups \in Seq(G)
      BY <1>1, <3>1 DEF CsvTypes
    <3> QED  BY <3>2
  <2>7. ASSUME NEW n \in DOMAIN filesGroups, NEW k \in 1..Len(filesGroups[n].rows), NEW i \in 1..arity
        PROVE  filesGroups[n].rows[k][i] = Files!Stored(read[Files!RowsBefore(n - 1) + 1 + k].cells[i])
    <3>1. Copied(filesGroups[n].rows, off[n - 1], read, arity)
      BY <2>2, <2>6 DEF LinesAt
    <3>2. filesGroups[n].rows[k][i] = Files!Stored(read[off[n - 1] + 1 + k].cells[i])
      BY <3>1 DEF Copied
    <3> QED  BY <2>3, <2>6, <3>2
  <2> QED  BY <2>5, <2>7
<1>4. \A n \in DOMAIN filesGroups : n \in 1..Len(filesGroups)
  <2>1. PICK G : G = GroupOf(arity)
    OBVIOUS
  <2>2. filesGroups \in Seq(G)
    BY <1>1, <2>1 DEF CsvTypes
  <2> QED  BY <2>2
<1>5. Files!StrictExact
  <2>1. mode = "strict" => \A n \in 1..Len(filesGroups) : Met(filesGroups[n])
    BY DEF FilesInv, AllMet
  <2> QED  BY <1>4, <2>1, Zenon DEF Met, Files!StrictExact
<1>6. Files!RoundTrip
  <2>1. SUFFICES ASSUME Files!Returned, \A n \in DOMAIN first : Files!Writable(first[n])
                 PROVE  filesPhase = "done" /\ Files!Data(store) = Files!Data(first)
    BY DEF Files!RoundTrip
  <2>2. Back /\ filesPhase = "done"
    BY <2>1 DEF Back, AllWritable, Files!Returned, FilesInv, ReadBack
  <2>3. PICK off : BackAt(off)
    BY <2>2 DEF FilesInv, ReadBack, FramesWell
  <2>4. Len(filesGroups) = Len(first) /\ \A n \in 1..Len(filesGroups) : Same(filesGroups[n], first[n])
    BY <2>2, <2>3 DEF BackAt, FilesInv, ReadBack
  <2>5. store = filesGroups
    BY <2>2 DEF FilesInv, Files!AllOrNothing
  <2>6. PICK G : G = GroupOf(arity)
    OBVIOUS
  <2>7. filesGroups \in Seq(G) /\ first \in Seq(G)
    BY <1>1, <2>6 DEF CsvTypes
  <2>8. DOMAIN filesGroups = 1..Len(first) /\ DOMAIN first = 1..Len(first)
    BY <2>4, <2>7
  <2>9. \A n \in 1..Len(first) : [values |-> filesGroups[n].values, rows |-> filesGroups[n].rows]
                               = [values |-> first[n].values, rows |-> first[n].rows]
    BY <2>4 DEF Same
  <2>10. Files!Data(filesGroups) = Files!Data(first)
    BY <2>8, <2>9 DEF Files!Data
  <2> QED  BY <2>2, <2>5, <2>10
<1> QED  BY <1>2, <1>3, <1>5, <1>6

-----------------------------------------------------------------------------
(* Generating *)

\* The signal of a rung, and the groups that n rungs of a request are kept in.
SignalAt(r, i) == [value |-> Gen!Rungs(r)[i], param |-> Gen!Applied(r, Gen!Rungs(r)[i])]
Own(r) == Gen!Ladder(r) \/ Gen!Train(r)
Filed(r, n) == IF Own(r) THEN [g \in 1..n |-> <<SignalAt(r, g)>>]
               ELSE <<[s \in 1..n |-> SignalAt(r, s)]>>
Work(j, r, c, n) == [job |-> j, request |-> r, checked |-> c, groups |-> Filed(r, n),
                     done |-> n, defs |-> Gen!Declared(r)]

\* Jobs are numbered as they are started.
JobTypes ==
  /\ genJob \in 0..GenJobs /\ shown \in Nat
  /\ cancel \in [Gen!Jobs -> {"unused", "clear", "set"}] /\ progress \in [Gen!Jobs -> Nat]
  /\ genQueue \in Seq([job : Gen!Jobs, request : GenRequests])
  /\ \A j \in Gen!Jobs : cancel[j] = "unused" => progress[j] = 0
JobsInTurn == \E n \in 0..GenJobs : \A j \in Gen!Jobs : cancel[j] # "unused" <=> j <= n

\* What the writer has of a job is the first rungs of its sweep.
WorkIsRungs ==
  \/ tx = Gen!Idle
  \/ \E j \in Gen!Jobs, r \in GenRequests, c \in BOOLEAN : \E n \in 0..Len(Gen!Rungs(r)) :
       tx = Work(j, r, c, n) /\ progress[j] = n /\ (c => n = Len(Gen!Rungs(r))) /\ Gen!Rungs(r) # <<>>

\* A job is queued, run and answered once each, in this order.
Answered(j) == (\E a \in answers : a.job = j) \/ \E d \in library : d.job = j
Untouched(j) == cancel[j] # "unused" /\ progress[j] = 0 /\ ~Answered(j)
QueuedOnce ==
  \A i \in DOMAIN genQueue :
    /\ Untouched(genQueue[i].job) /\ genQueue[i].job # tx.job
    /\ \A k \in DOMAIN genQueue : genQueue[k].job = genQueue[i].job => k = i
RunOnce == tx = Gen!Idle \/ (cancel[tx.job] # "unused" /\ ~Answered(tx.job))
AnsweredJobs ==
  /\ \A a \in answers : a.job \in Gen!Jobs /\ a.ok \in BOOLEAN /\ cancel[a.job] # "unused"
  /\ \A d \in library : d.job \in Gen!Jobs /\ cancel[d.job] # "unused"

\* A dataset of the library is all the rungs of its request.
LibraryIsWhole ==
  \A d \in library : \E r \in GenRequests :
    /\ d.request = r /\ d.groups = Filed(r, Len(Gen!Rungs(r))) /\ Gen!Rungs(r) # <<>>
    /\ Gen!Declared(r) \subseteq defs

GenInv == /\ JobTypes /\ JobsInTurn /\ WorkIsRungs /\ QueuedOnce /\ RunOnce /\ AnsweredJobs
          /\ LibraryIsWhole /\ Gen!GenerationTypeOK /\ Gen!FailedLeavesNothing

\* What divides, and what is left over.
LEMMA Divided ==
  ASSUME NEW m \in Int, NEW k \in Nat \ {0}
  PROVE  /\ m \div k \in Int /\ m % k \in 0..(k - 1)
         /\ m = k * (m \div k) + (m % k)
BY SMTT(30)

LEMMA Multiples ==
  ASSUME NEW m \in Int, NEW k \in Nat \ {0}
  PROVE  (k * m) % k = 0
<1> DEFINE q == (k * m) \div k
           r == (k * m) % k
           t == m - q
<1>1. k * m \in Int
  OBVIOUS
<1>2. q \in Int /\ r \in 0..(k - 1) /\ k * m = k * q + r
  BY <1>1, Divided
<1> HIDE DEF q, r
<1>3. t \in Int /\ k * t = r
  BY <1>2, SMTT(30)
<1> HIDE DEF t
<1>4. ~(t >= 1)
  <2>1. t >= 1 => k * t >= k
    BY <1>3, SMTT(30)
  <2> QED  BY <1>2, <1>3, <2>1
<1>5. ~(t <= -1)
  <2>1. t <= -1 => k * t <= -k
    BY <1>3, SMTT(30)
  <2> QED  BY <1>2, <1>3, <2>1
<1>6. t = 0
  BY <1>3, <1>4, <1>5
<1> QED  BY <1>2, <1>3, <1>6 DEF r

\* A quotient is not larger than that of more.
LEMMA QuotientGrows ==
  ASSUME NEW m \in Int, NEW d \in Int, NEW k \in Nat \ {0}, m <= d
  PROVE  m \div k <= d \div k
<1> DEFINE p == m \div k
           q == d \div k
<1>1. /\ p \in Int /\ q \in Int /\ m % k \in 0..(k - 1) /\ d % k \in 0..(k - 1)
      /\ m = k * p + (m % k) /\ d = k * q + (d % k)
  BY Divided
<1> HIDE DEF p, q
<1>2. SUFFICES ASSUME p >= q + 1 PROVE FALSE
  BY <1>1 DEF p, q
<1>3. k * p >= k * (q + 1)
  BY <1>1, <1>2, SMTT(30)
<1>4. k * (q + 1) = k * q + k
  BY <1>1, SMTT(30)
<1> QED  BY <1>1, <1>3, <1>4

LEMMA QuotientIsNat ==
  ASSUME NEW d \in Nat, NEW k \in Nat \ {0}
  PROVE  d \div k \in Nat
<1> DEFINE q == d \div k
<1>1. q \in Int /\ d % k \in 0..(k - 1) /\ d = k * q + (d % k)
  BY Divided
<1> HIDE DEF q
<1>2. q <= -1 => k * q <= -k
  BY <1>1, SMTT(30)
<1>3. q \in Nat
  BY <1>1, <1>2
<1> QED  BY <1>3 DEF q

\* Steps of k from 0 that do not pass d are the multiples up to d.
LEMMA StepsReach ==
  ASSUME NEW d \in Nat, NEW k \in Nat \ {0}, NEW v \in Int
  PROVE  (\E i \in 1..(d \div k + 1) : v = k * (i - 1)) <=> (v \in 0..d /\ v % k = 0)
<1>1. /\ d \div k \in Int /\ d % k \in 0..(k - 1) /\ d = k * (d \div k) + (d % k)
  BY Divided
<1>2. ASSUME NEW i \in 1..(d \div k + 1), v = k * (i - 1) PROVE v \in 0..d /\ v % k = 0
  <2>1. i - 1 \in Int /\ i - 1 >= 0 /\ i - 1 <= d \div k
    BY <1>1, <1>2
  <2>2. k * (i - 1) >= 0 /\ k * (i - 1) <= k * (d \div k)
    BY <1>1, <2>1, SMTT(30)
  <2>3. v % k = 0
    BY <1>2, <2>1, Multiples
  <2> QED  BY <1>1, <1>2, <2>2, <2>3
<1>3. ASSUME v \in 0..d, v % k = 0 PROVE \E i \in 1..(d \div k + 1) : v = k * (i - 1)
  <2>1. v \div k \in Int /\ v = k * (v \div k) + 0
    BY <1>3, Divided
  <2>2. v \div k <= d \div k
    BY <1>3, QuotientGrows
  <2>3. v \div k >= 0
    <3>1. v \div k <= -1 => k * (v \div k) <= -k
      BY <2>1, SMTT(30)
    <3> QED  BY <1>3, <2>1, <3>1
  <2> DEFINE i == v \div k + 1
  <2>4. i \in 1..(d \div k + 1) /\ i - 1 = v \div k
    BY <1>1, <2>1, <2>2, <2>3
  <2>5. v = k * (i - 1)
    BY <2>1, <2>4
  <2> QED  BY <2>4, <2>5
<1> QED  BY <1>2, <1>3

LEMMA RequestKinds ==
  ASSUME NEW r \in GenRequests
  PROVE  /\ GenRungs \in Nat /\ GenJobs \in Nat /\ r.ladder \in BOOLEAN
         /\ r.sweep.kind \in {"none", "groups", "range", "list"}
         /\ r.sweep.kind = "range" => r.sweep.start \in Int /\ r.sweep.stop \in Int /\ r.sweep.step \in Int
         /\ r.sweep.kind \in {"list", "groups"} => r.sweep.values \in Seq(Int)
<1>1. Gen!GenerationAssumption
  BY SweepsAssumed
<1> QED  BY <1>1 DEF Gen!GenerationAssumption

\* A value that n steps of k from a reach, and one between two ends that is whole steps of k
\* from a.
Reached(a, k, n, v) == \E i \in 1..n : v = a + k * (i - 1)
Within(a, b, k, v) == v \in (a..b) \cup (b..a) /\ (v - a) % k = 0

LEMMA RungsGoUp ==
  ASSUME NEW a \in Int, NEW b \in Int, NEW k \in Nat \ {0}, a <= b, NEW v \in Int,
         NEW n, n = (b - a) \div k + 1
  PROVE  Reached(a, k, n, v) <=> Within(a, b, k, v)
<1>1. b - a \in Nat /\ v - a \in Int
  OBVIOUS
<1>2. n \in Int
  BY <1>1, Divided
<1>3. (\E i \in 1..n : v - a = k * (i - 1)) <=> (v - a \in 0..(b - a) /\ (v - a) % k = 0)
  BY <1>1, StepsReach
<1>4. v - a \in 0..(b - a) <=> v \in (a..b) \cup (b..a)
  OBVIOUS
<1>5. \A i \in 1..n : v - a = k * (i - 1) <=> v = a + k * (i - 1)
  <2> TAKE i \in 1..n
  <2>1. k * (i - 1) \in Int
    BY <1>2
  <2> QED  BY <2>1
<1> QED  BY <1>3, <1>4, <1>5 DEF Reached, Within

LEMMA NegatedMultiples ==
  ASSUME NEW m \in Int, NEW k \in Nat \ {0}, m % k = 0
  PROVE  (-m) % k = 0
<1>1. m \div k \in Int /\ m = k * (m \div k) + 0
  BY Divided
<1>2. -m = k * (-(m \div k)) /\ -(m \div k) \in Int
  <2> DEFINE q == m \div k
  <2> HIDE DEF q
  <2>1. q \in Int /\ m = k * q + 0
    BY <1>1 DEF q
  <2>2. -m = k * (-q)
    BY <2>1, SMTT(30)
  <2> QED  BY <2>1, <2>2 DEF q
<1> QED  BY <1>2, Multiples

LEMMA RungsGoDown ==
  ASSUME NEW a \in Int, NEW b \in Int, NEW k \in Nat \ {0}, b <= a, NEW v \in Int,
         NEW n, n = (a - b) \div k + 1
  PROVE  Reached(a, -k, n, v) <=> Within(a, b, k, v)
<1>1. a - b \in Nat /\ v - a \in Int /\ a - v \in Int /\ -(a - v) = v - a /\ -(v - a) = a - v
  OBVIOUS
<1>2. n \in Int
  BY <1>1, Divided
<1>3. (\E i \in 1..n : a - v = k * (i - 1)) <=> (a - v \in 0..(a - b) /\ (a - v) % k = 0)
  BY <1>1, StepsReach
<1>4. (a - v) % k = 0 <=> (v - a) % k = 0
  BY <1>1, NegatedMultiples
<1>5. a - v \in 0..(a - b) <=> v \in (a..b) \cup (b..a)
  OBVIOUS
<1>6. \A i \in 1..n : a - v = k * (i - 1) <=> v = a + (-k) * (i - 1)
  <2> TAKE i \in 1..n
  <2>1. k * (i - 1) \in Int /\ (-k) * (i - 1) = -(k * (i - 1))
    BY <1>2, SMTT(30)
  <2> QED  BY <2>1
<1> QED  BY <1>3, <1>4, <1>5, <1>6 DEF Reached, Within

\* The values of a range are those between its ends that are whole steps from its start.
LEMMA RangeIsBetween ==
  ASSUME NEW a \in Int, NEW b \in Int, NEW s \in Int, Gen!Range(a, b, s) # <<>>
  PROVE  LET R == Gen!Range(a, b, s)
         IN /\ Len(R) \in Nat /\ DOMAIN R = 1..Len(R)
            /\ \A v : (\E i \in 1..Len(R) : v = R[i])
                        <=> (v \in (a..b) \cup (b..a) /\ (v - a) % Gen!AbsOf(s) = 0)
<1>1. s # 0 /\ (Gen!Sign(b - a) = Gen!Sign(s) \/ b = a)
  BY DEF Gen!Range
<1>2. PICK R : R = Gen!Range(a, b, s)
  OBVIOUS
<1>3. CASE s > 0
  <2>1. a <= b
    BY <1>1, <1>3 DEF Gen!Sign
  <2>2. Gen!AbsOf(s) = s /\ Gen!AbsOf(b - a) = b - a /\ s \in Nat \ {0}
    BY <1>3, <2>1 DEF Gen!AbsOf
  <2>3. PICK n : n = (b - a) \div s + 1
    OBVIOUS
  <2>4. R = [i \in 1..n |-> a + s * (i - 1)]
    BY <1>1, <1>2, <2>2, <2>3 DEF Gen!Range
  <2>5. n \in Int /\ n >= 1
    <3>1. b - a \in Nat
      BY <2>1
    <3>2. (b - a) \div s \in Nat
      BY <2>2, <3>1, QuotientIsNat
    <3> QED  BY <2>3, <3>2
  <2>6. Len(R) = n /\ DOMAIN R = 1..n
    BY <2>4, <2>5
  <2>7. \A v \in Int : (\E i \in 1..n : v = a + s * (i - 1))
                       <=> (v \in (a..b) \cup (b..a) /\ (v - a) % s = 0)
    <3> TAKE v \in Int
    <3>1. s \in Nat \ {0}
      BY <2>2
    <3>2. Reached(a, s, n, v) <=> Within(a, b, s, v)
      BY <2>1, <2>3, <3>1, RungsGoUp
    <3> QED  BY <3>2, Zenon DEF Reached, Within
  <2>8. \A i \in 1..n : a + s * (i - 1) \in Int
    <3> TAKE i \in 1..n
    <3>1. s * (i - 1) \in Int
      BY <2>5
    <3> QED  BY <3>1
  <2>9. \A v : (\E i \in 1..n : v = a + s * (i - 1)) <=> (v \in (a..b) \cup (b..a) /\ (v - a) % s = 0)
    <3>1. \A v : v \in (a..b) \cup (b..a) => v \in Int
      OBVIOUS
    <3> QED  BY <2>7, <2>8, <3>1, Zenon
  <2>10. \A v : (\E i \in 1..Len(R) : v = R[i]) <=> \E i \in 1..n : v = a + s * (i - 1)
    <3>1. \A i \in 1..n : R[i] = a + s * (i - 1)
      BY <2>4, Zenon
    <3> QED  BY <2>6, <3>1, Zenon
  <2>11. Len(R) \in Nat /\ DOMAIN R = 1..Len(R)
    BY <2>5, <2>6
  <2>12. \A v : (\E i \in 1..Len(R) : v = R[i]) <=> (v \in (a..b) \cup (b..a) /\ (v - a) % Gen!AbsOf(s) = 0)
    <3> TAKE v
    <3>1. Gen!AbsOf(s) = s
      BY <2>2
    <3> QED  BY <2>9, <2>10, <3>1, Zenon
  <2> QED  BY <1>2, <2>11, <2>12, Zenon
<1>4. CASE s < 0
  <2>1. b <= a
    BY <1>1, <1>4 DEF Gen!Sign
  <2>2. PICK k : k = -s
    OBVIOUS
  <2>3. Gen!AbsOf(s) = k /\ Gen!AbsOf(b - a) = a - b /\ k \in Nat \ {0} /\ s = -k
    BY <1>4, <2>1, <2>2 DEF Gen!AbsOf
  <2>4. PICK n : n = (a - b) \div k + 1
    OBVIOUS
  <2>5. R = [i \in 1..n |-> a + s * (i - 1)]
    BY <1>1, <1>2, <2>3, <2>4 DEF Gen!Range
  <2>6. n \in Int /\ n >= 1
    <3>1. a - b \in Nat
      BY <2>1
    <3>2. (a - b) \div k \in Nat
      BY <2>3, <3>1, QuotientIsNat
    <3> QED  BY <2>4, <3>2
  <2>7. Len(R) = n /\ DOMAIN R = 1..n
    BY <2>5, <2>6
  <2>8. \A v \in Int : (\E i \in 1..n : v = a + s * (i - 1))
                       <=> (v \in (a..b) \cup (b..a) /\ (v - a) % k = 0)
    <3> TAKE v \in Int
    <3>1. k \in Nat \ {0} /\ s = -k
      BY <2>3
    <3>2. Reached(a, -k, n, v) <=> Within(a, b, k, v)
      BY <2>1, <2>4, <3>1, RungsGoDown
    <3> QED  BY <3>1, <3>2, Zenon DEF Reached, Within
  <2>9. \A i \in 1..n : a + s * (i - 1) \in Int
    <3> TAKE i \in 1..n
    <3>1. s * (i - 1) \in Int
      BY <2>6
    <3> QED  BY <3>1
  <2>10. \A v : (\E i \in 1..n : v = a + s * (i - 1)) <=> (v \in (a..b) \cup (b..a) /\ (v - a) % k = 0)
    <3>1. \A v : v \in (a..b) \cup (b..a) => v \in Int
      OBVIOUS
    <3> QED  BY <2>8, <2>9, <3>1, Zenon
  <2>11. \A v : (\E i \in 1..Len(R) : v = R[i]) <=> \E i \in 1..n : v = a + s * (i - 1)
    <3>1. \A i \in 1..n : R[i] = a + s * (i - 1)
      BY <2>5, Zenon
    <3> QED  BY <2>7, <3>1, Zenon
  <2>12. Len(R) \in Nat /\ DOMAIN R = 1..Len(R)
    BY <2>6, <2>7
  <2>13. \A v : (\E i \in 1..Len(R) : v = R[i]) <=> (v \in (a..b) \cup (b..a) /\ (v - a) % Gen!AbsOf(s) = 0)
    <3> TAKE v
    <3>1. Gen!AbsOf(s) = k
      BY <2>3
    <3> QED  BY <2>10, <2>11, <3>1, Zenon
  <2> QED  BY <1>2, <2>12, <2>13, Zenon
<1> QED  BY <1>1, <1>3, <1>4

\* The rungs of a request are a sequence.
LEMMA RungsAreSeq ==
  ASSUME NEW r \in GenRequests
  PROVE  Len(Gen!Rungs(r)) \in Nat /\ DOMAIN Gen!Rungs(r) = 1..Len(Gen!Rungs(r))
<1>1. CASE r.sweep.kind = "range"
  <2>1. PICK a \in Int, b \in Int, s \in Int :
          a = r.sweep.start /\ b = r.sweep.stop /\ s = r.sweep.step
    BY <1>1, RequestKinds
  <2>2. Gen!Rungs(r) = Gen!Range(a, b, s)
    BY <1>1, <2>1 DEF Gen!Rungs, Gen!ValuesOf
  <2>3. CASE Gen!Range(a, b, s) = <<>>
    BY <2>2, <2>3
  <2>4. CASE Gen!Range(a, b, s) # <<>>
    BY <2>2, <2>4, RangeIsBetween
  <2> QED  BY <2>3, <2>4
<1>2. CASE r.sweep.kind = "none"
  <2>1. Gen!Rungs(r) = <<r.sweep.at>>
    BY <1>2 DEF Gen!Rungs, Gen!ValuesOf
  <2> QED  BY <2>1
<1>3. CASE r.sweep.kind \in {"list", "groups"}
  <2>1. r.sweep.values \in Seq(Int)
    BY <1>3, RequestKinds
  <2>2. Gen!Rungs(r) = r.sweep.values \/ Gen!Rungs(r) = <<>>
    BY <1>3 DEF Gen!Rungs, Gen!ValuesOf
  <2> QED  BY <2>1, <2>2
<1> QED  BY <1>1, <1>2, <1>3, RequestKinds

\* And those of a range are what the range stands for.
LEMMA RungsAreBetween ==
  ASSUME NEW r \in GenRequests, r.sweep.kind = "range", Gen!Rungs(r) # <<>>
  PROVE  \A v : (\E i \in 1..Len(Gen!Rungs(r)) : v = Gen!Rungs(r)[i]) <=> v \in Gen!Between(r.sweep)
<1>1. PICK a \in Int, b \in Int, s \in Int :
        a = r.sweep.start /\ b = r.sweep.stop /\ s = r.sweep.step
  BY RequestKinds
<1>2. Gen!Rungs(r) = Gen!Range(a, b, s)
  BY <1>1 DEF Gen!Rungs, Gen!ValuesOf
<1>3. \A v : v \in Gen!Between(r.sweep) <=> (v \in (a..b) \cup (b..a) /\ (v - a) % Gen!AbsOf(s) = 0)
  BY <1>1 DEF Gen!Between
<1>4. PICK R : R = Gen!Range(a, b, s)
  OBVIOUS
<1>5. \A v : (\E i \in 1..Len(R) : v = R[i]) <=> (v \in (a..b) \cup (b..a) /\ (v - a) % Gen!AbsOf(s) = 0)
  <2>1. Gen!Range(a, b, s) # <<>>
    BY <1>2
  <2>2. \A v : (\E i \in 1..Len(Gen!Range(a, b, s)) : v = Gen!Range(a, b, s)[i])
                <=> (v \in (a..b) \cup (b..a) /\ (v - a) % Gen!AbsOf(s) = 0)
    BY <2>1, RangeIsBetween
  <2> QED  BY <1>4, <2>2, Zenon
<1>6. R = Gen!Rungs(r)
  BY <1>2, <1>4
<1>7. \A v : (\E i \in 1..Len(R) : v = R[i]) <=> v \in Gen!Between(r.sweep)
  <2> TAKE v
  <2> QED  BY <1>3, <1>5, Zenon
<1> QED  BY <1>6, <1>7, Zenon

LEMMA WholeIsWhole ==
  ASSUME LibraryIsWhole
  PROVE  Gen!SweepsAreWhole
<1> SUFFICES ASSUME NEW d \in library
    PROVE  LET values == [g \in DOMAIN d.groups |-> [s \in DOMAIN d.groups[g] |-> d.groups[g][s].value]]
           IN /\ d.request.sweep.kind = "range" =>
                   UNION {{values[g][s] : s \in DOMAIN values[g]} : g \in DOMAIN values}
                     = Gen!Between(d.request.sweep)
              /\ IF Gen!Ladder(d.request) THEN \A g \in DOMAIN values : Len(values[g]) = 1
                 ELSE Gen!Train(d.request) \/ Len(values) = 1
  BY DEF Gen!SweepsAreWhole
<1>1. PICK r \in GenRequests : d.request = r /\ d.groups = Filed(r, Len(Gen!Rungs(r))) /\ Gen!Rungs(r) # <<>>
  BY DEF LibraryIsWhole
<1>2. PICK R : R = Gen!Rungs(r)
  OBVIOUS
<1>3. PICK n \in Nat : n = Len(R) /\ DOMAIN R = 1..n
  BY <1>2, RungsAreSeq
<1>4. PICK G : G = d.groups
  OBVIOUS
<1>5. PICK values : values = [g \in DOMAIN G |-> [s \in DOMAIN G[g] |-> G[g][s].value]]
  OBVIOUS
<1>6. CASE Own(r)
  <2>1. G = [g \in 1..n |-> <<SignalAt(r, g)>>]
    BY <1>1, <1>2, <1>3, <1>4, <1>6 DEF Filed
  <2>2. DOMAIN values = 1..n /\ \A g \in 1..n : DOMAIN values[g] = {1} /\ values[g][1] = R[g]
    BY <1>2, <1>5, <2>1 DEF SignalAt
  <2>3. \A g \in 1..n : values[g] = [s \in {1} |-> R[g]] /\ Len(values[g]) = 1
    <3> TAKE g \in 1..n
    <3>1. values[g] = [s \in DOMAIN G[g] |-> G[g][s].value]
      BY <1>5, <2>1
    <3>2. values[g] = [s \in 1..1 |-> values[g][s]]
      BY <2>2, <3>1
    <3> QED  BY <2>2, <3>2
  <2>4. \A v : v \in UNION {{values[g][s] : s \in DOMAIN values[g]} : g \in DOMAIN values}
                 <=> \E i \in 1..n : v = R[i]
    <3> TAKE v
    <3>1. ASSUME NEW g \in DOMAIN values, NEW s \in DOMAIN values[g], v = values[g][s]
          PROVE  \E i \in 1..n : v = R[i]
      BY <2>2, <3>1
    <3>2. ASSUME NEW i \in 1..n, v = R[i]
          PROVE  v \in UNION {{values[g][s] : s \in DOMAIN values[g]} : g \in DOMAIN values}
      <4>1. i \in DOMAIN values /\ 1 \in DOMAIN values[i] /\ v = values[i][1]
        BY <2>2, <3>2
      <4> QED  BY <4>1
    <3> QED  BY <3>1, <3>2
  <2>5. ASSUME r.sweep.kind = "range"
        PROVE  UNION {{values[g][s] : s \in DOMAIN values[g]} : g \in DOMAIN values} = Gen!Between(r.sweep)
    <3>1. \A v : (\E i \in 1..n : v = R[i]) <=> v \in Gen!Between(r.sweep)
      BY <1>1, <1>2, <1>3, <2>5, RungsAreBetween
    <3>2. \A v : v \in UNION {{values[g][s] : s \in DOMAIN values[g]} : g \in DOMAIN values}
                   <=> v \in Gen!Between(r.sweep)
      BY <2>4, <3>1, Zenon
    <3> QED  BY <3>2, Zenon
  <2>6. Gen!Ladder(r) \/ Gen!Train(r)
    BY <1>6 DEF Own
  <2> QED  BY <1>1, <1>4, <1>5, <2>2, <2>3, <2>5, <2>6
<1>7. CASE ~Own(r)
  <2>1. G = <<[s \in 1..n |-> SignalAt(r, s)]>>
    BY <1>1, <1>2, <1>3, <1>4, <1>7 DEF Filed
  <2>2. DOMAIN values = 1..1 /\ DOMAIN values[1] = 1..n /\ \A s \in 1..n : values[1][s] = R[s]
    BY <1>2, <1>5, <2>1 DEF SignalAt
  <2>3. Len(values) = 1
    BY <1>5, <2>1
  <2>4. \A v : v \in UNION {{values[g][s] : s \in DOMAIN values[g]} : g \in DOMAIN values}
                 <=> \E i \in 1..n : v = R[i]
    <3> TAKE v
    <3>1. ASSUME NEW g \in DOMAIN values, NEW s \in DOMAIN values[g], v = values[g][s]
          PROVE  \E i \in 1..n : v = R[i]
      BY <2>2, <3>1
    <3>2. ASSUME NEW i \in 1..n, v = R[i]
          PROVE  v \in UNION {{values[g][s] : s \in DOMAIN values[g]} : g \in DOMAIN values}
      <4>1. 1 \in DOMAIN values /\ i \in DOMAIN values[1] /\ v = values[1][i]
        BY <2>2, <3>2
      <4> QED  BY <4>1
    <3> QED  BY <3>1, <3>2
  <2>5. ASSUME r.sweep.kind = "range"
        PROVE  UNION {{values[g][s] : s \in DOMAIN values[g]} : g \in DOMAIN values} = Gen!Between(r.sweep)
    <3>1. \A v : (\E i \in 1..n : v = R[i]) <=> v \in Gen!Between(r.sweep)
      BY <1>1, <1>2, <1>3, <2>5, RungsAreBetween
    <3>2. \A v : v \in UNION {{values[g][s] : s \in DOMAIN values[g]} : g \in DOMAIN values}
                   <=> v \in Gen!Between(r.sweep)
      BY <2>4, <3>1, Zenon
    <3> QED  BY <3>2, Zenon
  <2>6. ~Gen!Ladder(r)
    BY <1>7 DEF Own
  <2> QED  BY <1>1, <1>4, <1>5, <2>3, <2>5, <2>6
<1> QED  BY <1>6, <1>7

LEMMA WholeIsDeclared ==
  ASSUME LibraryIsWhole
  PROVE  Gen!RungsAreDeclared
BY DEF LibraryIsWhole, Gen!RungsAreDeclared, Gen!Declared, Gen!Ladder

-----------------------------------------------------------------------------
\* What each step needs of the others is that jobs are numbered and never taken up again.
LEMMA WorkIsNoIdle ==
  ASSUME NEW j \in Gen!Jobs, NEW r, NEW c, NEW n
  PROVE  /\ Work(j, r, c, n) # Gen!Idle /\ Work(j, r, c, n).job = j
         /\ Work(j, r, c, n).request = r /\ Work(j, r, c, n).checked = c
         /\ Work(j, r, c, n).done = n /\ Work(j, r, c, n).defs = Gen!Declared(r)
         /\ Work(j, r, c, n).groups = Filed(r, n)
<1>1. Work(j, r, c, n).job = j /\ j # 0
  BY DEF Work, Gen!Jobs
<1>2. Gen!Idle.job = 0
  BY DEF Gen!Idle
<1> QED  BY <1>1, <1>2 DEF Work

LEMMA GenAtFirst == Gen!GenerationInit => GenInv
<1> SUFFICES ASSUME Gen!GenerationInit PROVE GenInv
  OBVIOUS
<1>0. GenJobs \in Nat
  BY SweepsAssumed DEF Gen!GenerationAssumption
<1>1. JobTypes
  BY <1>0 DEF Gen!GenerationInit, JobTypes
<1>2. JobsInTurn
  BY <1>0 DEF Gen!GenerationInit, JobsInTurn, Gen!Jobs
<1>3. WorkIsRungs /\ QueuedOnce /\ RunOnce /\ AnsweredJobs /\ LibraryIsWhole /\ Gen!FailedLeavesNothing
  BY DEF Gen!GenerationInit, WorkIsRungs, QueuedOnce, RunOnce, AnsweredJobs, LibraryIsWhole, Gen!FailedLeavesNothing
<1>4. Gen!GenerationTypeOK
  BY DEF Gen!GenerationInit, Gen!GenerationTypeOK, Gen!Outstanding
<1> QED  BY <1>1, <1>2, <1>3, <1>4 DEF GenInv

\* The next job is one above those that are used.
LEMMA NextJobIsUnused ==
  ASSUME JobTypes, JobsInTurn, Gen!Started < GenJobs
  PROVE  LET j == Gen!Started + 1
         IN /\ j \in Gen!Jobs /\ cancel[j] = "unused" /\ progress[j] = 0
            /\ \A k \in Gen!Jobs : cancel[k] # "unused" <=> k <= j - 1
<1>0. GenJobs \in Nat
  BY SweepsAssumed DEF Gen!GenerationAssumption
<1>1. PICK n \in 0..GenJobs : \A j \in Gen!Jobs : cancel[j] # "unused" <=> j <= n
  BY DEF JobsInTurn
<1>2. {j \in Gen!Jobs : cancel[j] # "unused"} = 1..n
  BY <1>0, <1>1 DEF Gen!Jobs
<1>3. Cardinality(1..n) = n
  BY <1>0, <1>1, FS_Interval
<1>4. \A S : Gen!Cardinality(S) = Cardinality(S)
  BY DEF Gen!Cardinality, Cardinality
<1>5. Gen!Started = n
  BY <1>2, <1>3, <1>4 DEF Gen!Started
<1>6. n + 1 \in Gen!Jobs /\ n \in Nat
  BY <1>0, <1>1, <1>5 DEF Gen!Jobs
<1> QED  BY <1>1, <1>5, <1>6 DEF JobTypes

LEMMA QueuedJobs ==
  ASSUME JobTypes
  PROVE  \A i \in DOMAIN genQueue : genQueue[i].job \in Gen!Jobs /\ genQueue[i].request \in GenRequests
<1>1. PICK S : S = [job : Gen!Jobs, request : GenRequests]
  OBVIOUS
<1>2. genQueue \in Seq(S) /\ \A x \in S : x.job \in Gen!Jobs /\ x.request \in GenRequests
  BY <1>1 DEF JobTypes
<1>3. \A i \in DOMAIN genQueue : genQueue[i] \in S
  BY <1>2
<1> QED  BY <1>2, <1>3

\* Every job of the queue is one that was not heard of.
LEMMA QueueIsFresh ==
  ASSUME \A i \in DOMAIN genQueue' : \A k : k = genQueue'[i].job =>
           /\ Untouched(k)' /\ k # tx'.job
           /\ \A m \in DOMAIN genQueue' : genQueue'[m].job = k => m = i
  PROVE  QueuedOnce'
<1>1. ASSUME NEW i \in DOMAIN genQueue'
      PROVE  /\ cancel'[genQueue'[i].job] # "unused" /\ progress'[genQueue'[i].job] = 0
             /\ ~(\E a \in answers' : a.job = genQueue'[i].job)
             /\ ~(\E d \in library' : d.job = genQueue'[i].job)
             /\ genQueue'[i].job # tx'.job
             /\ \A m \in DOMAIN genQueue' : genQueue'[m].job = genQueue'[i].job => m = i
  <2>1. PICK k : k = genQueue'[i].job
    OBVIOUS
  <2>2. Untouched(k)' /\ k # tx'.job /\ \A m \in DOMAIN genQueue' : genQueue'[m].job = k => m = i
    BY <2>1
  <2>3. /\ cancel'[k] # "unused" /\ progress'[k] = 0
        /\ ~(\E a \in answers' : a.job = k) /\ ~(\E d \in library' : d.job = k)
    BY <2>2 DEF Untouched, Answered
  <2> QED  BY <2>1, <2>2, <2>3
<1> QED  BY <1>1 DEF QueuedOnce, Untouched, Answered

\* One more answer is on its way.
LEMMA OneAnswerMore ==
  ASSUME NEW j, NEW ok, answers' = answers \cup {[job |-> j, ok |-> ok]}
  PROVE  /\ \A k : (\E a \in answers' : a.job = k) <=> (\E a \in answers : a.job = k) \/ k = j
         /\ \A a \in answers' : a \in answers \/ (a.job = j /\ a.ok = ok)
<1>1. PICK x : x = [job |-> j, ok |-> ok]
  OBVIOUS
<1>2. x.job = j /\ x.ok = ok /\ answers' = answers \cup {x}
  BY <1>1
<1> QED  BY <1>2

\* The screen's job is outstanding if it was before and the step keeps what is.
LEMMA StillOutstanding ==
  ASSUME Gen!GenerationTypeOK, JobTypes, genJob' = genJob, cancel' = cancel,
         genJob # 0 => shown' <= progress'[genJob],
         \A k \in Gen!Jobs : Gen!Outstanding(k) => Gen!Outstanding(k)',
         \A k \in Gen!Jobs : Gen!Outstanding(k)' => Gen!Outstanding(k) \/ cancel[k] # "unused"
  PROVE  Gen!GenerationTypeOK'
<1>1. PICK g : g = genJob
  OBVIOUS
<1>2. g # 0 => g \in Gen!Jobs
  BY <1>1, SweepsAssumed DEF JobTypes, Gen!Jobs, Gen!GenerationAssumption
<1>3. g # 0 => Gen!Outstanding(g)'
  BY <1>1, <1>2 DEF Gen!GenerationTypeOK
<1>4. genJob' # 0 => Gen!Outstanding(genJob)'
  BY <1>1, <1>3 DEF Gen!Outstanding
<1>5. \A k \in Gen!Jobs : Gen!Outstanding(k)' => cancel'[k] # "unused"
  BY DEF Gen!GenerationTypeOK
<1> QED  BY <1>4, <1>5 DEF Gen!GenerationTypeOK

LEMMA StartKeeps ==
  ASSUME GenInv, NEW r \in GenRequests, Gen!Start(r)
  PROVE  GenInv'
<1>0. GenJobs \in Nat
  BY SweepsAssumed DEF Gen!GenerationAssumption
<1> USE DEF GenInv
<1>1. PICK j \in Gen!Jobs :
        /\ cancel[j] = "unused" /\ progress[j] = 0
        /\ \A k \in Gen!Jobs : cancel[k] # "unused" <=> k <= j - 1
        /\ genJob' = j /\ shown' = 0 /\ cancel' = [cancel EXCEPT ![j] = "clear"]
        /\ genQueue' = Append(genQueue, [job |-> j, request |-> r])
  BY NextJobIsUnused DEF Gen!Start
<1>2. UNCHANGED <<completed, tx, progress, answers, library, defs>>
  BY DEF Gen!Start
<1>3. \A k \in Gen!Jobs : cancel'[k] = IF k = j THEN "clear" ELSE cancel[k]
  BY <1>1 DEF JobTypes
<1>4. /\ genQueue \in Seq([job : Gen!Jobs, request : GenRequests])
      /\ DOMAIN genQueue' = (DOMAIN genQueue) \cup {Len(genQueue) + 1}
      /\ Len(genQueue) + 1 \notin DOMAIN genQueue
      /\ \A i \in DOMAIN genQueue : genQueue'[i] = genQueue[i] /\ genQueue[i].job \in Gen!Jobs
      /\ genQueue'[Len(genQueue) + 1].job = j
  <2> DEFINE S == [job : Gen!Jobs, request : GenRequests]
             e == [job |-> j, request |-> r]
  <2>1. genQueue \in Seq(S)
    BY DEF JobTypes
  <2>2. \A x \in S : x.job \in Gen!Jobs
    OBVIOUS
  <2>3. e.job = j
    OBVIOUS
  <2> HIDE DEF S, e
  <2>4. genQueue' = Append(genQueue, e)
    BY <1>1 DEF e
  <2>5. /\ DOMAIN genQueue' = (DOMAIN genQueue) \cup {Len(genQueue) + 1}
        /\ Len(genQueue) + 1 \notin DOMAIN genQueue
        /\ \A i \in DOMAIN genQueue : genQueue'[i] = genQueue[i] /\ genQueue[i] \in S
        /\ genQueue'[Len(genQueue) + 1] = e
    BY <2>1, <2>4, Appended
  <2>6. genQueue \in Seq([job : Gen!Jobs, request : GenRequests])
    BY <2>1 DEF S
  <2> QED  BY <2>2, <2>3, <2>5, <2>6
<1>5. JobTypes'
  <2>1. genJob' \in 0..GenJobs /\ shown' \in Nat
    BY <1>0, <1>1 DEF Gen!Jobs
  <2>2. cancel' \in [Gen!Jobs -> {"unused", "clear", "set"}]
    BY <1>1 DEF JobTypes
  <2>3. genQueue' \in Seq([job : Gen!Jobs, request : GenRequests])
    BY <1>1 DEF JobTypes
  <2> QED  BY <1>2, <1>3, <2>1, <2>2, <2>3 DEF JobTypes
<1>6. JobsInTurn'
  <2>1. j \in 0..GenJobs
    BY <1>0 DEF Gen!Jobs
  <2>2. \A k \in Gen!Jobs : cancel'[k] # "unused" <=> k <= j
    BY <1>0, <1>1, <1>3 DEF Gen!Jobs
  <2> QED  BY <2>1, <2>2 DEF JobsInTurn
<1>7. WorkIsRungs'
  BY <1>2 DEF WorkIsRungs
<1>8. \A k : Answered(k)' <=> Answered(k)
  BY <1>2 DEF Answered
<1>9. ~Answered(j) /\ (tx # Gen!Idle => tx.job # j)
  BY <1>1 DEF Answered, AnsweredJobs, RunOnce
<1>10. tx.job # j
  <2>1. Gen!Idle.job = 0 /\ j # 0
    BY DEF Gen!Idle, Gen!Jobs
  <2> QED  BY <1>9, <2>1
<1>11. \A i \in DOMAIN genQueue : genQueue[i].job # j
  BY <1>1 DEF QueuedOnce, Untouched
<1>12. QueuedOnce'
  <2>1. \A i \in DOMAIN genQueue : cancel'[genQueue[i].job] # "unused"
    BY <1>3, <1>4 DEF QueuedOnce, Untouched
  <2>2. cancel'[j] # "unused"
    BY <1>3
  <2> QED  BY <1>1, <1>2, <1>4, <1>8, <1>9, <1>10, <1>11, <2>1, <2>2 DEF QueuedOnce, Untouched
<1>13. RunOnce' /\ AnsweredJobs'
  <2>1. \A k \in Gen!Jobs : cancel[k] # "unused" => cancel'[k] # "unused"
    BY <1>3
  <2>2. tx # Gen!Idle => tx.job \in Gen!Jobs
    BY WorkIsNoIdle DEF WorkIsRungs
  <2>3. RunOnce'
    BY <1>2, <1>8, <2>1, <2>2 DEF RunOnce
  <2>4. AnsweredJobs'
    BY <1>2, <2>1 DEF AnsweredJobs
  <2> QED  BY <2>3, <2>4
<1>14. LibraryIsWhole' /\ Gen!FailedLeavesNothing'
  BY <1>2 DEF LibraryIsWhole, Gen!FailedLeavesNothing
<1>15. Gen!GenerationTypeOK'
  <2>1. \A k \in Gen!Jobs : Gen!Outstanding(k)' => Gen!Outstanding(k) \/ k = j
    BY <1>1, <1>2, <1>4 DEF Gen!Outstanding
  <2>2. Gen!Outstanding(j)'
    BY <1>4 DEF Gen!Outstanding
  <2>3. \A k \in Gen!Jobs : Gen!Outstanding(k)' => cancel'[k] # "unused"
    BY <1>3, <2>1 DEF Gen!GenerationTypeOK
  <2> QED  BY <1>1, <1>2, <2>2, <2>3 DEF Gen!GenerationTypeOK
<1> QED  BY <1>5, <1>6, <1>7, <1>12, <1>13, <1>14, <1>15

\* Who is outstanding after a step that leaves the jobs where they are.
LEMMA ScreenKeeps ==
  ASSUME GenInv, Gen!Tick \/ Gen!Cancel \/ Gen!TakeCompleted
  PROVE  GenInv'
<1> USE DEF GenInv
<1>1. UNCHANGED <<genQueue, tx, progress, answers, library, defs>> /\ genJob' = genJob
  BY DEF Gen!Tick, Gen!Cancel, Gen!TakeCompleted, Gen!writer, Gen!screen
<1>2. cancel' \in [Gen!Jobs -> {"unused", "clear", "set"}] /\ \A j \in Gen!Jobs : cancel'[j] = "unused" <=> cancel[j] = "unused"
  <2>1. CASE cancel' = cancel
    BY <2>1 DEF JobTypes
  <2>2. CASE cancel' # cancel
    <3>1. genJob # 0 /\ cancel' = [cancel EXCEPT ![genJob] = "set"]
      BY <2>2 DEF Gen!Tick, Gen!Cancel, Gen!TakeCompleted
    <3>2. genJob \in Gen!Jobs /\ cancel[genJob] # "unused"
      <4>1. genJob \in Gen!Jobs
        BY <3>1, SweepsAssumed DEF JobTypes, Gen!Jobs, Gen!GenerationAssumption
      <4> QED  BY <3>1, <4>1 DEF Gen!GenerationTypeOK
    <3> QED  BY <3>1, <3>2 DEF JobTypes
  <2> QED  BY <2>1, <2>2
<1>3. shown' = shown \/ (shown' = progress[genJob] /\ genJob # 0)
  BY DEF Gen!Tick, Gen!Cancel, Gen!TakeCompleted, Gen!screen
<1>4. genJob \in 0..GenJobs /\ (genJob # 0 => genJob \in Gen!Jobs)
  BY SweepsAssumed DEF JobTypes, Gen!Jobs, Gen!GenerationAssumption
<1>5. shown' \in Nat
  BY <1>3, <1>4 DEF JobTypes
<1>6. JobTypes'
  BY <1>1, <1>2, <1>4, <1>5 DEF JobTypes
<1>7. JobsInTurn'
  BY <1>2 DEF JobsInTurn
<1>8. WorkIsRungs' /\ LibraryIsWhole' /\ Gen!FailedLeavesNothing'
  BY <1>1 DEF WorkIsRungs, LibraryIsWhole, Gen!FailedLeavesNothing
<1>9. \A k : Answered(k)' <=> Answered(k)
  BY <1>1 DEF Answered
<1>10. \A i \in DOMAIN genQueue : genQueue[i].job \in Gen!Jobs
  BY QueuedJobs
<1>11. QueuedOnce'
  BY <1>1, <1>2, <1>9, <1>10 DEF QueuedOnce, Untouched
<1>12. RunOnce'
  <2>1. tx # Gen!Idle => tx.job \in Gen!Jobs
    BY WorkIsNoIdle DEF WorkIsRungs
  <2> QED  BY <1>1, <1>2, <1>9, <2>1 DEF RunOnce
<1>13. AnsweredJobs'
  BY <1>1, <1>2 DEF AnsweredJobs
<1>14. Gen!GenerationTypeOK'
  <2>1. \A k \in Gen!Jobs : Gen!Outstanding(k)' <=> Gen!Outstanding(k)
    BY <1>1 DEF Gen!Outstanding
  <2>2. genJob # 0 => shown' <= progress[genJob]
    BY <1>3, <1>4 DEF JobTypes, Gen!GenerationTypeOK
  <2>3. genJob' # 0 => Gen!Outstanding(genJob)'
    <3>1. PICK g : g = genJob
      OBVIOUS
    <3>2. g # 0 => Gen!Outstanding(g)'
      BY <1>4, <2>1, <3>1 DEF Gen!GenerationTypeOK
    <3> QED  BY <1>1, <3>1, <3>2 DEF Gen!Outstanding
  <2>4. \A k \in Gen!Jobs : Gen!Outstanding(k)' => cancel'[k] # "unused"
    BY <1>2, <2>1 DEF Gen!GenerationTypeOK
  <2> QED  BY <1>1, <2>2, <2>3, <2>4 DEF Gen!GenerationTypeOK
<1> QED  BY <1>6, <1>7, <1>8, <1>11, <1>12, <1>13, <1>14

LEMMA GeneratedKeeps ==
  ASSUME GenInv, NEW a \in answers, Gen!Generated(a)
  PROVE  GenInv'
<1> USE DEF GenInv
<1>1. /\ answers' = answers \ {a} /\ genJob' = 0
      /\ UNCHANGED <<shown, genQueue, tx, cancel, progress, library, defs>>
  BY DEF Gen!Generated, Gen!writer
<1>2. JobTypes' /\ JobsInTurn' /\ WorkIsRungs' /\ LibraryIsWhole'
  <2>1. JobTypes'
    BY <1>1, SweepsAssumed DEF JobTypes, Gen!GenerationAssumption
  <2> QED  BY <1>1, <2>1 DEF JobsInTurn, WorkIsRungs, LibraryIsWhole
<1>3. \A k : Answered(k)' => Answered(k)
  BY <1>1 DEF Answered
<1>4. QueuedOnce' /\ RunOnce'
  BY <1>1, <1>3 DEF QueuedOnce, RunOnce, Untouched
<1>5. AnsweredJobs' /\ Gen!FailedLeavesNothing'
  BY <1>1 DEF AnsweredJobs, Gen!FailedLeavesNothing
<1>6. Gen!GenerationTypeOK'
  <2>1. \A k \in Gen!Jobs : Gen!Outstanding(k)' => Gen!Outstanding(k)
    BY <1>1 DEF Gen!Outstanding
  <2> QED  BY <1>1, <2>1 DEF Gen!GenerationTypeOK
<1> QED  BY <1>2, <1>4, <1>5, <1>6

\* A job of which nothing was heard is refused, or its transaction begun with nothing in it.
LEMMA BeginKeeps ==
  ASSUME GenInv, Gen!Begin
  PROVE  GenInv'
<1> USE DEF GenInv
<1>1. PICK h : /\ genQueue # <<>> /\ h = Head(genQueue) /\ genQueue' = Tail(genQueue) /\ tx = Gen!Idle
               /\ IF Gen!Refused(h.request)
                  THEN answers' = answers \cup {[job |-> h.job, ok |-> FALSE]} /\ tx' = tx
                  ELSE /\ answers' = answers
                       /\ tx' = [job |-> h.job, request |-> h.request, checked |-> FALSE,
                                 groups |-> IF Own(h.request) THEN <<>> ELSE <<<<>>>>,
                                 done |-> 0, defs |-> Gen!Declared(h.request)]
  BY DEF Gen!Begin, Gen!Answer, Own
<1>2. UNCHANGED <<genJob, shown, completed, cancel, progress, library, defs>>
  BY DEF Gen!Begin, Gen!screen
<1>3. PICK S : S = [job : Gen!Jobs, request : GenRequests]
  OBVIOUS
<1>4. genQueue \in Seq(S)
  BY <1>3 DEF JobTypes
<1>5. /\ h = genQueue[1] /\ h \in S /\ 1 \in DOMAIN genQueue /\ genQueue' \in Seq(S)
      /\ \A i \in DOMAIN genQueue' : i + 1 \in DOMAIN genQueue /\ genQueue'[i] = genQueue[i + 1] /\ i + 1 # 1 /\ i \in Nat
      /\ \A i \in DOMAIN genQueue : i = 1 \/ (i - 1 \in DOMAIN genQueue' /\ genQueue'[i - 1] = genQueue[i])
  BY <1>1, <1>4, Behead
<1>6. PICK j \in Gen!Jobs, r \in GenRequests : h.job = j /\ h.request = r
  BY <1>3, <1>5
<1>7. cancel[j] # "unused" /\ progress[j] = 0 /\ ~Answered(j)
  BY <1>5, <1>6 DEF QueuedOnce, Untouched
<1>8. \A i \in DOMAIN genQueue' : genQueue'[i].job # j
  BY <1>5, <1>6 DEF QueuedOnce, Untouched
<1>9. JobTypes' /\ JobsInTurn' /\ LibraryIsWhole'
  <2>1. genQueue' \in Seq([job : Gen!Jobs, request : GenRequests])
    BY <1>3, <1>5
  <2> QED  BY <1>2, <2>1 DEF JobTypes, JobsInTurn, LibraryIsWhole
<1>10. CASE Gen!Refused(r)
  <2>1. answers' = answers \cup {[job |-> j, ok |-> FALSE]} /\ tx' = Gen!Idle
    BY <1>1, <1>6, <1>10
  <2>2. \A k : Answered(k)' <=> Answered(k) \/ k = j
    BY <1>2, <2>1, OneAnswerMore DEF Answered
  <2>3. Gen!Idle.job = 0 /\ \A i \in DOMAIN genQueue' : genQueue'[i].job # 0
    <3>1. Gen!Idle.job = 0
      BY DEF Gen!Idle
    <3>3. \A i \in DOMAIN genQueue' : genQueue'[i].job \in 1..GenJobs
      <4>1. \A x \in S : x.job \in 1..GenJobs
        BY <1>3 DEF Gen!Jobs
      <4>2. \A i \in DOMAIN genQueue' : genQueue'[i] \in S
        BY <1>5
      <4> QED  BY <4>1, <4>2
    <3> QED  BY <3>1, <3>3
  <2>4. QueuedOnce'
    <3> SUFFICES ASSUME NEW i \in DOMAIN genQueue', NEW n, n = genQueue'[i].job
                 PROVE  /\ Untouched(n)' /\ n # tx'.job
                        /\ \A k \in DOMAIN genQueue' : genQueue'[k].job = n => k = i
      BY <1>2, <2>1 DEF QueuedOnce, Untouched
    <3>1. i + 1 \in DOMAIN genQueue /\ genQueue'[i] = genQueue[i + 1] /\ i \in Nat
      BY <1>5
    <3>2. \A k \in DOMAIN genQueue' : genQueue'[k].job = n => k = i
      <4> TAKE k \in DOMAIN genQueue'
      <4>1. k + 1 \in DOMAIN genQueue /\ genQueue'[k] = genQueue[k + 1] /\ k \in Nat
        BY <1>5
      <4>2. genQueue[k + 1].job = genQueue[i + 1].job => k + 1 = i + 1
        BY <3>1, <4>1 DEF QueuedOnce, Untouched
      <4> QED  BY <3>1, <4>1, <4>2
    <3>3. Untouched(n) /\ n # j
      BY <1>8, <3>1 DEF QueuedOnce
    <3>4. Untouched(n)'
      BY <1>2, <2>2, <3>3 DEF Untouched
    <3> QED  BY <2>1, <2>3, <3>1, <3>2, <3>3, <3>4
  <2>5. RunOnce' /\ WorkIsRungs'
    BY <2>1 DEF RunOnce, WorkIsRungs
  <2>6. AnsweredJobs'
    <3>1. \A a \in answers' : a \in answers \/ (a.job = j /\ a.ok = FALSE)
      BY <2>1, OneAnswerMore
    <3>2. \A a \in answers' : a.job \in Gen!Jobs /\ a.ok \in BOOLEAN /\ cancel[a.job] # "unused"
      BY <1>7, <3>1 DEF AnsweredJobs
    <3> QED  BY <1>2, <3>2 DEF AnsweredJobs
  <2>7. Gen!FailedLeavesNothing'
    <3>1. ~\E d \in library : d.job = j
      BY <1>7 DEF Answered
    <3> QED  BY <1>2, <2>1, <3>1 DEF Gen!FailedLeavesNothing
  <2>8. Gen!GenerationTypeOK'
    <3>1. \A k \in Gen!Jobs : Gen!Outstanding(k) => Gen!Outstanding(k)'
      <4> TAKE k \in Gen!Jobs
      <4>1. ASSUME NEW i \in DOMAIN genQueue, genQueue[i].job = k PROVE Gen!Outstanding(k)'
        <5>1. CASE i = 1
          <6>1. \E a \in answers' : a.job = k
            BY <1>5, <1>6, <2>1, <4>1, <5>1, OneAnswerMore
          <6> QED  BY <6>1 DEF Gen!Outstanding
        <5>2. CASE i # 1
          BY <1>5, <4>1, <5>2 DEF Gen!Outstanding
        <5> QED  BY <5>1, <5>2
      <4>2. ASSUME NEW a \in answers, a.job = k PROVE Gen!Outstanding(k)'
        BY <2>1, <4>2 DEF Gen!Outstanding
      <4> QED  BY <1>1, <4>1, <4>2 DEF Gen!Outstanding
    <3>2. \A k \in Gen!Jobs : Gen!Outstanding(k)' => Gen!Outstanding(k) \/ k = j
      BY <1>5, <2>1, OneAnswerMore DEF Gen!Outstanding
    <3>3. genJob # 0 => genJob \in Gen!Jobs
      BY SweepsAssumed DEF JobTypes, Gen!Jobs, Gen!GenerationAssumption
    <3> QED  BY <1>2, <1>7, <3>1, <3>2, <3>3 DEF Gen!GenerationTypeOK
  <2> QED  BY <1>9, <2>4, <2>5, <2>6, <2>7, <2>8
<1>11. CASE ~Gen!Refused(r)
  <2>0. Filed(r, 0) = IF Own(r) THEN <<>> ELSE <<<<>>>>
    BY DEF Filed
  <2>1. answers' = answers /\ tx' = Work(j, r, FALSE, 0)
    BY <1>1, <1>6, <1>11, <2>0 DEF Work
  <2>2. \A k : Answered(k)' <=> Answered(k)
    BY <1>2, <2>1 DEF Answered
  <2>3. tx' # Gen!Idle /\ tx'.job = j
    <3>1. PICK w : w = Work(j, r, FALSE, 0)
      OBVIOUS
    <3>2. w.job = j
      BY <3>1 DEF Work
    <3>3. Gen!Idle.job = 0 /\ j # 0
      BY DEF Gen!Idle, Gen!Jobs
    <3> QED  BY <2>1, <3>1, <3>2, <3>3
  <2>4. QueuedOnce'
    <3> SUFFICES ASSUME NEW i \in DOMAIN genQueue', NEW n, n = genQueue'[i].job
                 PROVE  /\ Untouched(n)' /\ n # tx'.job
                        /\ \A k \in DOMAIN genQueue' : genQueue'[k].job = n => k = i
      BY <1>2 DEF QueuedOnce, Untouched
    <3>1. i + 1 \in DOMAIN genQueue /\ genQueue'[i] = genQueue[i + 1] /\ i \in Nat
      BY <1>5
    <3>2. \A k \in DOMAIN genQueue' : genQueue'[k].job = n => k = i
      <4> TAKE k \in DOMAIN genQueue'
      <4>1. k + 1 \in DOMAIN genQueue /\ genQueue'[k] = genQueue[k + 1] /\ k \in Nat
        BY <1>5
      <4>2. genQueue[k + 1].job = genQueue[i + 1].job => k + 1 = i + 1
        BY <3>1, <4>1 DEF QueuedOnce, Untouched
      <4> QED  BY <3>1, <4>1, <4>2
    <3>3. Untouched(n) /\ n # j
      BY <1>8, <3>1 DEF QueuedOnce
    <3>4. Untouched(n)'
      BY <1>2, <2>2, <3>3 DEF Untouched
    <3> QED  BY <2>1, <2>3, <3>1, <3>2, <3>3, <3>4
  <2>5. RunOnce'
    BY <1>2, <1>7, <2>2, <2>3 DEF RunOnce
  <2>6. WorkIsRungs'
    <3>1. 0 \in 0..Len(Gen!Rungs(r))
      BY RungsAreSeq
    <3>2. Gen!Rungs(r) # <<>>
      BY <1>11 DEF Gen!Refused
    <3>3. progress'[j] = 0 /\ FALSE \in BOOLEAN
      BY <1>2, <1>7
    <3> QED  BY <2>1, <3>1, <3>2, <3>3 DEF WorkIsRungs
  <2>7. AnsweredJobs' /\ Gen!FailedLeavesNothing'
    BY <1>2, <2>1 DEF AnsweredJobs, Gen!FailedLeavesNothing
  <2>8. Gen!GenerationTypeOK'
    <3>1. \A k \in Gen!Jobs : Gen!Outstanding(k) => Gen!Outstanding(k)'
      <4> TAKE k \in Gen!Jobs
      <4>1. ASSUME NEW i \in DOMAIN genQueue, genQueue[i].job = k PROVE Gen!Outstanding(k)'
        <5>1. CASE i = 1
          BY <1>5, <1>6, <2>3, <4>1, <5>1 DEF Gen!Outstanding
        <5>2. CASE i # 1
          BY <1>5, <4>1, <5>2 DEF Gen!Outstanding
        <5> QED  BY <5>1, <5>2
      <4> QED  BY <1>1, <2>1, <4>1 DEF Gen!Outstanding
    <3>2. \A k \in Gen!Jobs : Gen!Outstanding(k)' => Gen!Outstanding(k) \/ k = j
      BY <1>5, <2>1, <2>3 DEF Gen!Outstanding
    <3>3. genJob # 0 => genJob \in Gen!Jobs
      BY SweepsAssumed DEF JobTypes, Gen!Jobs, Gen!GenerationAssumption
    <3> QED  BY <1>2, <1>7, <3>1, <3>2, <3>3 DEF Gen!GenerationTypeOK
  <2> QED  BY <1>9, <2>4, <2>5, <2>6, <2>7, <2>8
<1> QED  BY <1>10, <1>11

\* What the writer is at, once it is at something.
LEMMA AtWork ==
  ASSUME WorkIsRungs, tx # Gen!Idle
  PROVE  \E j \in Gen!Jobs, r \in GenRequests, c \in BOOLEAN, n \in Nat :
           /\ tx = Work(j, r, c, n) /\ n <= Len(Gen!Rungs(r)) /\ progress[j] = n
           /\ (c => n = Len(Gen!Rungs(r))) /\ Gen!Rungs(r) # <<>>
           /\ tx.job = j /\ tx.request = r /\ tx.checked = c /\ tx.done = n
           /\ tx.defs = Gen!Declared(r) /\ tx.groups = Filed(r, n)
<1>1. PICK j \in Gen!Jobs, r \in GenRequests, c \in BOOLEAN : \E n \in 0..Len(Gen!Rungs(r)) :
        tx = Work(j, r, c, n) /\ progress[j] = n /\ (c => n = Len(Gen!Rungs(r))) /\ Gen!Rungs(r) # <<>>
  BY DEF WorkIsRungs
<1>2. PICK n \in 0..Len(Gen!Rungs(r)) :
        tx = Work(j, r, c, n) /\ progress[j] = n /\ (c => n = Len(Gen!Rungs(r))) /\ Gen!Rungs(r) # <<>>
  BY <1>1
<1>3. n \in Nat /\ n <= Len(Gen!Rungs(r))
  BY <1>2, RungsAreSeq
<1> QED  BY <1>2, <1>3, WorkIsNoIdle

\* The next rung's signal goes into a group of its own, or into the one there is.
LEMMA OneRungMore ==
  ASSUME NEW r \in GenRequests, NEW n \in Nat
  PROVE  Filed(r, n + 1) = IF Own(r) THEN Append(Filed(r, n), <<SignalAt(r, n + 1)>>)
                           ELSE <<Append(Head(Filed(r, n)), SignalAt(r, n + 1))>>
<1>1. CASE Own(r)
  <2> DEFINE s == [g \in 1..n |-> <<SignalAt(r, g)>>]
             e == <<SignalAt(r, n + 1)>>
  <2>1. Len(s) = n /\ DOMAIN s = 1..n /\ s \in Seq({<<SignalAt(r, g)>> : g \in 1..n})
    OBVIOUS
  <2>2. Append(s, e) = [g \in 1..(n + 1) |-> IF g = n + 1 THEN e ELSE s[g]]
    <3> DEFINE m == n + 1
    <3>1. m = Len(s) + 1
      BY <2>1
    <3> HIDE DEF s, e, m
    <3>2. Append(s, e) = [g \in 1..m |-> IF g = m THEN e ELSE s[g]]
      BY <2>1, <3>1, AppendedIs
    <3> QED  BY <3>2 DEF m
  <2>3. \A g \in 1..(n + 1) : (IF g = n + 1 THEN e ELSE s[g]) = <<SignalAt(r, g)>>
    OBVIOUS
  <2>4. Append(s, e) = [g \in 1..(n + 1) |-> <<SignalAt(r, g)>>]
    BY <2>2, <2>3
  <2> QED  BY <1>1, <2>4 DEF Filed
<1>2. CASE ~Own(r)
  <2> DEFINE s == [g \in 1..n |-> SignalAt(r, g)]
             e == SignalAt(r, n + 1)
  <2>1. Len(s) = n /\ DOMAIN s = 1..n /\ s \in Seq({SignalAt(r, g) : g \in 1..n})
    OBVIOUS
  <2>2. Append(s, e) = [g \in 1..(n + 1) |-> IF g = n + 1 THEN e ELSE s[g]]
    <3> DEFINE m == n + 1
    <3>1. m = Len(s) + 1
      BY <2>1
    <3> HIDE DEF s, e, m
    <3>2. Append(s, e) = [g \in 1..m |-> IF g = m THEN e ELSE s[g]]
      BY <2>1, <3>1, AppendedIs
    <3> QED  BY <3>2 DEF m
  <2>3. \A g \in 1..(n + 1) : (IF g = n + 1 THEN e ELSE s[g]) = SignalAt(r, g)
    OBVIOUS
  <2>4. Append(s, e) = [g \in 1..(n + 1) |-> SignalAt(r, g)]
    BY <2>2, <2>3
  <2>5. Head(<<s>>) = s
    OBVIOUS
  <2> QED  BY <1>2, <2>4, <2>5 DEF Filed
<1> QED  BY <1>1, <1>2

\* The writer goes on with the job it has, and nothing else moves.
LEMMA WorkGoesOn ==
  ASSUME GenInv, NEW j \in Gen!Jobs, NEW r \in GenRequests, NEW c \in BOOLEAN, NEW n \in Nat,
         tx # Gen!Idle, tx.job = j, tx' = Work(j, r, c, n), n <= Len(Gen!Rungs(r)), Gen!Rungs(r) # <<>>,
         c => n = Len(Gen!Rungs(r)), progress[j] <= n, progress' = [progress EXCEPT ![j] = n],
         UNCHANGED <<genJob, shown, genQueue, cancel, answers, library, defs>>
  PROVE  GenInv'
<1> USE DEF GenInv
<1>1. progress' \in [Gen!Jobs -> Nat] /\ \A k \in Gen!Jobs : progress'[k] = IF k = j THEN n ELSE progress[k]
  BY DEF JobTypes
<1>2. cancel[j] # "unused" /\ ~Answered(j)
  BY DEF RunOnce
<1>3. JobTypes' /\ JobsInTurn' /\ AnsweredJobs' /\ LibraryIsWhole' /\ Gen!FailedLeavesNothing'
  BY <1>1, <1>2 DEF JobTypes, JobsInTurn, AnsweredJobs, LibraryIsWhole, Gen!FailedLeavesNothing
<1>4. \A k : Answered(k)' <=> Answered(k)
  BY DEF Answered
<1>5. tx' # Gen!Idle /\ tx'.job = j
  <2>1. PICK w : w = Work(j, r, c, n)
    OBVIOUS
  <2>2. w # Gen!Idle /\ w.job = j
    BY <2>1, WorkIsNoIdle
  <2> QED  BY <2>1, <2>2
<1>6. WorkIsRungs'
  <2>1. n \in 0..Len(Gen!Rungs(r))
    BY RungsAreSeq
  <2> QED  BY <1>1, <2>1 DEF WorkIsRungs
<1>7. RunOnce'
  BY <1>2, <1>4, <1>5 DEF RunOnce
<1>8. QueuedOnce'
  <2> SUFFICES ASSUME NEW i \in DOMAIN genQueue', NEW k, k = genQueue'[i].job
               PROVE  /\ Untouched(k)' /\ k # tx'.job
                      /\ \A m \in DOMAIN genQueue' : genQueue'[m].job = k => m = i
    BY QueueIsFresh
  <2>1. Untouched(k) /\ k # j /\ k \in Gen!Jobs /\ \A m \in DOMAIN genQueue' : genQueue'[m].job = k => m = i
    BY QueuedJobs DEF QueuedOnce
  <2> QED  BY <1>1, <1>4, <1>5, <2>1 DEF Untouched
<1>9. Gen!GenerationTypeOK'
  <2>1. \A k \in Gen!Jobs : Gen!Outstanding(k)' <=> Gen!Outstanding(k)
    BY <1>5 DEF Gen!Outstanding
  <2>2. genJob # 0 => shown' <= progress'[genJob]
    <3>1. PICK g : g = genJob
      OBVIOUS
    <3>2. g # 0 => g \in Gen!Jobs /\ shown <= progress[g] /\ shown \in Nat /\ progress[g] \in Nat
      BY <3>1, SweepsAssumed DEF JobTypes, Gen!Jobs, Gen!GenerationAssumption, Gen!GenerationTypeOK
    <3>3. g # 0 => shown <= progress'[g]
      BY <1>1, <3>2
    <3> QED  BY <3>1, <3>3
  <2> QED  BY <2>1, <2>2, StillOutstanding
<1> QED  BY <1>3, <1>6, <1>7, <1>8, <1>9

LEMMA RungKeeps ==
  ASSUME GenInv, Gen!Rung
  PROVE  GenInv'
<1>1. tx # Gen!Idle /\ WorkIsRungs
  BY DEF GenInv, Gen!Rung, Gen!Pending
<1>2. PICK j \in Gen!Jobs, r \in GenRequests, c \in BOOLEAN, n \in Nat :
           /\ tx = Work(j, r, c, n) /\ n <= Len(Gen!Rungs(r)) /\ progress[j] = n
           /\ (c => n = Len(Gen!Rungs(r))) /\ Gen!Rungs(r) # <<>>
           /\ tx.job = j /\ tx.request = r /\ tx.checked = c /\ tx.done = n
           /\ tx.defs = Gen!Declared(r) /\ tx.groups = Filed(r, n)
  BY <1>1, AtWork
<1>3. /\ n < Len(Gen!Rungs(r)) /\ progress' = [progress EXCEPT ![j] = n + 1]
      /\ tx' = [tx EXCEPT !.done = @ + 1,
                  !.groups = IF Own(r) THEN Append(@, <<SignalAt(r, n + 1)>>)
                             ELSE <<Append(Head(@), SignalAt(r, n + 1))>>]
      /\ UNCHANGED <<genJob, shown, genQueue, cancel, answers, library, defs>>
  BY <1>2 DEF Gen!Rung, Gen!Pending, Gen!Written, Gen!screen, Own, SignalAt
<1>4. n + 1 <= Len(Gen!Rungs(r)) /\ c = FALSE
  BY <1>2, <1>3, RungsAreSeq
<1>5. tx' = Work(j, r, c, n + 1)
  <2>1. PICK G : G = Filed(r, n + 1)
    OBVIOUS
  <2>2. G = IF Own(r) THEN Append(tx.groups, <<SignalAt(r, n + 1)>>)
            ELSE <<Append(Head(tx.groups), SignalAt(r, n + 1))>>
    BY <1>2, <2>1, OneRungMore
  <2>3. tx' = [tx EXCEPT !.done = n + 1, !.groups = G]
    BY <1>2, <1>3, <2>2
  <2>4. tx' = [job |-> j, request |-> r, checked |-> c, groups |-> G, done |-> n + 1, defs |-> Gen!Declared(r)]
    BY <1>2, <2>3 DEF Work
  <2> QED  BY <2>1, <2>4 DEF Work
<1>6. PICK m \in Nat : m = n + 1
  OBVIOUS
<1>7. progress[j] <= m /\ progress' = [progress EXCEPT ![j] = m] /\ (c => m = Len(Gen!Rungs(r)))
  BY <1>2, <1>3, <1>4, <1>6
<1>8. tx' = Work(j, r, c, m) /\ m <= Len(Gen!Rungs(r))
  BY <1>4, <1>5, <1>6
<1>9. UNCHANGED <<genJob, shown, genQueue, cancel, answers, library, defs>>
  BY <1>3
<1> QED  BY <1>1, <1>2, <1>7, <1>8, <1>9, WorkGoesOn

LEMMA LastCheckKeeps ==
  ASSUME GenInv, Gen!LastCheck
  PROVE  GenInv'
<1>1. tx # Gen!Idle /\ WorkIsRungs /\ JobTypes
  BY DEF GenInv, Gen!LastCheck
<1>2. PICK j \in Gen!Jobs, r \in GenRequests, c \in BOOLEAN, n \in Nat :
           /\ tx = Work(j, r, c, n) /\ n <= Len(Gen!Rungs(r)) /\ progress[j] = n
           /\ (c => n = Len(Gen!Rungs(r))) /\ Gen!Rungs(r) # <<>>
           /\ tx.job = j /\ tx.request = r /\ tx.checked = c /\ tx.done = n
           /\ tx.defs = Gen!Declared(r) /\ tx.groups = Filed(r, n)
  BY <1>1, AtWork
<1>3. /\ ~(n < Len(Gen!Rungs(r))) /\ tx' = [tx EXCEPT !.checked = TRUE]
      /\ UNCHANGED <<genJob, shown, genQueue, cancel, progress, answers, library, defs>>
  BY <1>1, <1>2 DEF Gen!LastCheck, Gen!Pending, Gen!screen
<1>4. n = Len(Gen!Rungs(r))
  BY <1>2, <1>3, RungsAreSeq
<1>5. tx' = Work(j, r, TRUE, n)
  BY <1>2, <1>3 DEF Work
<1>6. progress' = [progress EXCEPT ![j] = n] /\ progress[j] <= n
  BY <1>1, <1>2, <1>3 DEF JobTypes
<1> QED  BY <1>1, <1>2, <1>3, <1>4, <1>5, <1>6, WorkGoesOn

\* The writer is done with the job it has: its rows are there, or nothing is.
LEMMA WorkEnds ==
  ASSUME GenInv, tx # Gen!Idle, tx' = Gen!Idle, NEW ok \in BOOLEAN,
         answers' = answers \cup {[job |-> tx.job, ok |-> ok]},
         \/ ~ok /\ UNCHANGED <<library, defs>>
         \/ /\ ok /\ tx.checked /\ defs' = defs \cup tx.defs
            /\ library' = library \cup {[job |-> tx.job, request |-> tx.request, groups |-> tx.groups]},
         UNCHANGED <<genJob, shown, genQueue, cancel, progress>>
  PROVE  GenInv'
<1> USE DEF GenInv
<1>1. PICK j \in Gen!Jobs, r \in GenRequests, c \in BOOLEAN, n \in Nat :
           /\ tx = Work(j, r, c, n) /\ n <= Len(Gen!Rungs(r)) /\ progress[j] = n
           /\ (c => n = Len(Gen!Rungs(r))) /\ Gen!Rungs(r) # <<>>
           /\ tx.job = j /\ tx.request = r /\ tx.checked = c /\ tx.done = n
           /\ tx.defs = Gen!Declared(r) /\ tx.groups = Filed(r, n)
  BY AtWork
<1>2. PICK e : e = [job |-> j, request |-> r, groups |-> Filed(r, n)]
  OBVIOUS
<1>3. e.job = j /\ e.request = r /\ e.groups = Filed(r, n)
  BY <1>2
<1>4. /\ \A k : (\E a \in answers' : a.job = k) <=> (\E a \in answers : a.job = k) \/ k = j
      /\ \A a \in answers' : a \in answers \/ (a.job = j /\ a.ok = ok)
  <2>1. answers' = answers \cup {[job |-> j, ok |-> ok]}
    BY <1>1, Zenon
  <2>2. PICK x : x = [job |-> j, ok |-> ok]
    OBVIOUS
  <2>3. x.job = j /\ x.ok = ok /\ answers' = answers \cup {x}
    BY <2>1, <2>2, Zenon
  <2> QED  BY <2>3, Zenon
<1>5. \/ ~ok /\ UNCHANGED <<library, defs>>
      \/ ok /\ n = Len(Gen!Rungs(r)) /\ defs' = defs \cup Gen!Declared(r) /\ library' = library \cup {e}
  BY <1>1, <1>2
<1>6. cancel[j] # "unused" /\ ~Answered(j)
  BY <1>1 DEF RunOnce
<1>7. \A k : Answered(k)' <=> Answered(k) \/ k = j
  BY <1>3, <1>4, <1>5 DEF Answered
<1>8. JobTypes' /\ JobsInTurn' /\ WorkIsRungs' /\ RunOnce'
  BY DEF JobTypes, JobsInTurn, WorkIsRungs, RunOnce
<1>9. AnsweredJobs'
  <2>1. \A a \in answers' : a.job \in Gen!Jobs /\ a.ok \in BOOLEAN /\ cancel[a.job] # "unused"
    BY <1>4, <1>6 DEF AnsweredJobs
  <2>2. \A d \in library' : d.job \in Gen!Jobs /\ cancel[d.job] # "unused"
    BY <1>3, <1>5, <1>6 DEF AnsweredJobs
  <2> QED  BY <2>1, <2>2 DEF AnsweredJobs
<1>10. QueuedOnce'
  <2> SUFFICES ASSUME NEW i \in DOMAIN genQueue', NEW k, k = genQueue'[i].job
               PROVE  /\ Untouched(k)' /\ k # tx'.job
                      /\ \A m \in DOMAIN genQueue' : genQueue'[m].job = k => m = i
    BY QueueIsFresh
  <2>1. Untouched(k) /\ k # j /\ k \in Gen!Jobs /\ \A m \in DOMAIN genQueue' : genQueue'[m].job = k => m = i
    BY <1>1, QueuedJobs DEF QueuedOnce
  <2>2. k # Gen!Idle.job
    BY <2>1 DEF Gen!Idle, Gen!Jobs
  <2> QED  BY <1>7, <2>1, <2>2 DEF Untouched
<1>11. LibraryIsWhole'
  <2>1. defs \subseteq defs'
    BY <1>5
  <2>2. \A d \in library' : d \in library \/ (ok /\ d = e)
    BY <1>5
  <2>3. \A d \in library : \E q \in GenRequests :
          /\ d.request = q /\ d.groups = Filed(q, Len(Gen!Rungs(q))) /\ Gen!Rungs(q) # <<>>
          /\ Gen!Declared(q) \subseteq defs'
    BY <2>1 DEF LibraryIsWhole
  <2>4. ok => /\ e.request = r /\ e.groups = Filed(r, Len(Gen!Rungs(r))) /\ Gen!Rungs(r) # <<>>
              /\ Gen!Declared(r) \subseteq defs'
    BY <1>1, <1>3, <1>5
  <2> QED  BY <2>2, <2>3, <2>4 DEF LibraryIsWhole
<1>12. Gen!FailedLeavesNothing'
  <2>1. ASSUME NEW a \in answers' PROVE a.ok <=> \E d \in library' : d.job = a.job
    <3>1. CASE a \in answers /\ a.job # j
      BY <1>3, <1>5, <3>1 DEF Gen!FailedLeavesNothing
    <3>2. CASE a.job = j /\ a.ok = ok
      BY <1>3, <1>5, <1>6, <3>2 DEF Answered
    <3>3. a \in answers => a.job # j
      BY <1>6 DEF Answered
    <3> QED  BY <1>4, <2>1, <3>1, <3>2, <3>3
  <2> QED  BY <2>1 DEF Gen!FailedLeavesNothing
<1>13. Gen!GenerationTypeOK'
  <2>1. \A k \in Gen!Jobs : Gen!Outstanding(k)' <=> Gen!Outstanding(k)
    BY <1>1, <1>4 DEF Gen!Outstanding
  <2>2. genJob # 0 => shown' <= progress'[genJob]
    BY DEF Gen!GenerationTypeOK
  <2> QED  BY <2>1, <2>2, StillOutstanding
<1> QED  BY <1>8, <1>9, <1>10, <1>11, <1>12, <1>13

LEMMA GenAtRest ==
  ASSUME UNCHANGED <<genJob, shown, completed, genQueue, tx, cancel, progress, answers, library, defs>>
  PROVE  GenInv => GenInv'
<1>1. \A j, r, c, n : Work(j, r, c, n)' = Work(j, r, c, n)
  BY DEF Work, Filed, Own, SignalAt, Gen!Declared
<1> QED
  BY <1>1 DEF GenInv, JobTypes, JobsInTurn, WorkIsRungs, QueuedOnce, RunOnce, AnsweredJobs, LibraryIsWhole,
       Untouched, Answered, Gen!GenerationTypeOK, Gen!FailedLeavesNothing, Gen!Outstanding

LEMMA GenStays ==
  ASSUME GenInv, Gen!GenerationNext
  PROVE  GenInv'
<1>1. ASSUME NEW r \in GenRequests, Gen!Start(r) PROVE GenInv'
  BY <1>1, StartKeeps
<1>2. ASSUME NEW a \in answers, Gen!Generated(a) PROVE GenInv'
  BY <1>2, GeneratedKeeps
<1>3. CASE Gen!GiveUp \/ Gen!StoreFails
  <2>1. /\ tx # Gen!Idle /\ tx' = Gen!Idle /\ answers' = answers \cup {[job |-> tx.job, ok |-> FALSE]}
        /\ UNCHANGED <<genJob, shown, genQueue, cancel, progress, library, defs>>
    BY <1>3 DEF Gen!GiveUp, Gen!StoreFails, Gen!Rollback, Gen!Answer, Gen!screen
  <2> QED  BY <2>1, WorkEnds
<1>4. CASE Gen!Commit
  <2>1. /\ tx # Gen!Idle /\ tx' = Gen!Idle /\ answers' = answers \cup {[job |-> tx.job, ok |-> TRUE]}
        /\ tx.checked /\ defs' = defs \cup tx.defs
        /\ library' = library \cup {[job |-> tx.job, request |-> tx.request, groups |-> tx.groups]}
        /\ UNCHANGED <<genJob, shown, genQueue, cancel, progress>>
    BY <1>4 DEF Gen!Commit, Gen!Answer, Gen!screen
  <2> QED  BY <2>1, WorkEnds
<1> QED  BY <1>1, <1>2, <1>3, <1>4, ScreenKeeps, BeginKeeps, RungKeeps, LastCheckKeeps DEF Gen!GenerationNext

\* A job that is cancelled and has not passed its last check does not pass it, and commits nothing.
LEMMA CancelHeeds ==
  ASSUME WorkIsRungs, Gen!GenerationNext \/ UNCHANGED <<tx, library>>
  PROVE  Gen!CancelIsHeeded
<1> SUFFICES ASSUME NEW j \in Gen!Jobs, cancel[j] = "set", ~(tx # Gen!Idle /\ tx.job = j /\ tx.checked)
             PROVE  /\ ~(tx' # Gen!Idle /\ tx'.job = j /\ tx'.checked)
                    /\ \A d \in library' \ library : d.job # j
  BY DEF Gen!CancelIsHeeded
<1>1. CASE tx' = tx /\ library' = library
  BY <1>1
<1>2. CASE tx' = Gen!Idle /\ library' = library
  BY <1>2
<1>3. CASE Gen!Begin
  <2>1. library' = library
    BY <1>3 DEF Gen!Begin
  <2>2. tx' = tx \/ \E q, r, g, f :
          tx' = [job |-> q, request |-> r, checked |-> FALSE, groups |-> g, done |-> 0, defs |-> f]
    BY <1>3, Zenon DEF Gen!Begin
  <2>3. tx' = tx \/ ~tx'.checked
    BY <2>2
  <2> QED  BY <2>1, <2>3
<1>4. CASE Gen!Rung
  <2>1. PICK k \in Gen!Jobs, r \in GenRequests, c \in BOOLEAN, n \in Nat : tx = Work(k, r, c, n)
    BY <1>4, AtWork DEF Gen!Rung, Gen!Pending
  <2>2. library' = library /\ tx' = Gen!Written(Gen!Rungs(tx.request)[tx.done + 1], Gen!Applied(tx.request, Gen!Rungs(tx.request)[tx.done + 1]))
    BY <1>4 DEF Gen!Rung
  <2>3. tx'.job = tx.job /\ tx'.checked = tx.checked
    <3>1. \A v, p : LET w == Gen!Written(v, p) IN w.job = tx.job /\ w.checked = tx.checked
      <4> SUFFICES ASSUME NEW a, NEW b
                   PROVE  LET w == [tx EXCEPT !.done = a, !.groups = b] IN w.job = tx.job /\ w.checked = tx.checked
        BY DEF Gen!Written
      <4> QED  BY <2>1 DEF Work
    <3> QED  BY <2>2, <3>1
  <2>4. tx # Gen!Idle
    BY <1>4 DEF Gen!Rung, Gen!Pending
  <2> QED  BY <2>2, <2>3, <2>4
<1>5. CASE Gen!LastCheck
  <2>1. PICK k \in Gen!Jobs, r \in GenRequests, c \in BOOLEAN, n \in Nat : tx = Work(k, r, c, n)
    BY <1>5, AtWork DEF Gen!LastCheck
  <2>2. library' = library /\ tx' = [tx EXCEPT !.checked = TRUE] /\ cancel[tx.job] = "clear"
    BY <1>5 DEF Gen!LastCheck, Gen!MayCommit
  <2>3. tx'.job = tx.job /\ tx.job # j
    BY <2>1, <2>2 DEF Work
  <2> QED  BY <2>2, <2>3
<1>6. CASE Gen!Commit
  <2>1. /\ tx # Gen!Idle /\ tx.checked /\ tx' = Gen!Idle
        /\ library' = library \cup {[job |-> tx.job, request |-> tx.request, groups |-> tx.groups]}
    BY <1>6 DEF Gen!Commit
  <2>2. tx.job # j
    BY <2>1
  <2> QED  BY <2>1, <2>2
<1>7. ASSUME Gen!GenerationNext, ~Gen!Begin, ~Gen!Rung, ~Gen!LastCheck, ~Gen!Commit
      PROVE  (tx' = tx \/ tx' = Gen!Idle) /\ library' = library
  <2>1. ASSUME NEW r \in GenRequests, Gen!Start(r) PROVE tx' = tx /\ library' = library
    BY <2>1 DEF Gen!Start
  <2>2. ASSUME NEW a \in answers, Gen!Generated(a) PROVE tx' = tx /\ library' = library
    BY <2>2 DEF Gen!Generated, Gen!writer
  <2>3. Gen!Tick \/ Gen!Cancel \/ Gen!TakeCompleted => tx' = tx /\ library' = library
    BY DEF Gen!Tick, Gen!Cancel, Gen!TakeCompleted, Gen!writer
  <2>4. Gen!GiveUp \/ Gen!StoreFails => tx' = Gen!Idle /\ library' = library
    BY DEF Gen!GiveUp, Gen!StoreFails, Gen!Rollback
  <2> QED  BY <1>7, <2>1, <2>2, <2>3, <2>4 DEF Gen!GenerationNext
<1> QED  BY <1>1, <1>2, <1>3, <1>4, <1>5, <1>6, <1>7

-----------------------------------------------------------------------------
(* The library *)

\* A behaviour is of one part, and keeps the invariant of that part.
PartsInv ==
  /\ part = "file" => File!FileInv
  /\ part = "csv" => FilesInv
  /\ part = "catalog" => RecordsInv
  /\ part = "generation" => GenInv

LEMMA PartsAtFirst == LibraryInit => PartsInv
<1> SUFFICES ASSUME LibraryInit PROVE PartsInv
  OBVIOUS
<1>1. ASSUME part = "file" PROVE File!FileInv
  <2>1. File!LibInit
    BY <1>1 DEF LibraryInit
  <2> QED  BY <2>1, FileAssumed, File!FileInvAtFirst
<1>2. ASSUME part = "csv" PROVE FilesInv
  BY <1>2, FilesAtFirst DEF LibraryInit
<1>3. ASSUME part = "catalog" PROVE RecordsInv
  BY <1>3, RecordsAtFirst DEF LibraryInit
<1>4. ASSUME part = "generation" PROVE GenInv
  BY <1>4, GenAtFirst DEF LibraryInit
<1> QED  BY <1>1, <1>2, <1>3, <1>4 DEF PartsInv

\* Nothing that a part's invariant speaks of changes while the part rests.
LEMMA PartsAtRest ==
  ASSUME PartsInv, UNCHANGED LibraryVars
  PROVE  PartsInv'
<1>1. UNCHANGED <<part, FileVars, FilesVars, RecordsVars, GenVars>>
  BY DEF LibraryVars
<1>2. ASSUME part = "file" PROVE File!FileInv'
  <2>1. UNCHANGED File!libVars
    BY <1>1 DEF FileVars, File!libVars
  <2>2. File!FileInv
    BY <1>2 DEF PartsInv
  <2> QED  BY <2>1, <2>2, FileAssumed, File!FileInvStays
<1>3. FilesInv => FilesInv'
  BY <1>1, FilesAtRest, Zenon DEF FilesVars
<1>4. RecordsInv => RecordsInv'
  <2>1. UNCHANGED <<datasets, trains, recordsGroups, signals, fields, count, tags, tagged, mirror, edit>>
    BY <1>1 DEF RecordsVars
  <2>2. ASSUME RecordsInv PROVE TablesKeyed' /\ OneToa' /\ ColumnsCounted'
    BY <2>1, <2>2, SameRows DEF RecordsInv
  <2>3. ASSUME RecordsInv PROVE EditHeld' /\ Records!CatalogTypeOK'
    BY <2>1, <2>3 DEF RecordsInv, EditHeld, Records!CatalogTypeOK
  <2> QED  BY <2>2, <2>3 DEF RecordsInv
<1>5. GenInv => GenInv'
  BY <1>1, GenAtRest DEF GenVars
<1> QED  BY <1>1, <1>2, <1>3, <1>4, <1>5 DEF PartsInv

LEMMA PartsStay ==
  ASSUME PartsInv, LibraryNext
  PROVE  PartsInv'
<1>1. part' = part
  BY DEF LibraryNext
<1>2. ASSUME part = "file" PROVE File!FileInv'
  <2>1. File!LibNext /\ File!FileInv
    BY <1>2 DEF LibraryNext, PartsInv
  <2> QED  BY <2>1, FileAssumed, File!FileInvStays
<1>3. ASSUME part = "csv" PROVE FilesInv'
  BY <1>3, FilesStay DEF LibraryNext, PartsInv
<1>4. ASSUME part = "catalog" PROVE RecordsInv'
  BY <1>4, RecordsStay DEF LibraryNext, PartsInv
<1>5. ASSUME part = "generation" PROVE GenInv'
  BY <1>5, GenStays DEF LibraryNext, PartsInv
<1> QED  BY <1>1, <1>2, <1>3, <1>4, <1>5 DEF PartsInv

\* Each part keeps what its answers rest on: the file its schema and jobs, the catalogue its
\* ids and counts, an import its groups, the generator the jobs of its writer (db.rs,
\* library.rs, pulses.rs, sp-csv, generate.rs).
THEOREM PartsInvariant == LibrarySpec => []PartsInv
<1>1. LibraryInit => PartsInv
  BY PartsAtFirst
<1>2. PartsInv /\ [LibraryNext]_LibraryVars => PartsInv'
  BY PartsAtRest, PartsStay
<1> QED  BY <1>1, <1>2, PTL DEF LibrarySpec

\* What a caller, an import, a generation or the catalogue says was done is all done or not
\* at all, whatever is cancelled, refused or killed, for any files, sweeps and rows
\* (db.rs, sp-csv, generate.rs, pulses.rs, library.rs).
THEOREM NothingHalfDone == LibrarySpec => []AllOrNothing
<1>1. ASSUME PartsInv PROVE AllOrNothing
  <2>1. part = "file" => /\ File!LibTypeOK /\ File!VersionIsSchema
                         /\ File!AnswersAreTrue /\ File!Owed /\ File!OnlyCurrentIsWritten
    BY <1>1, FileAssumed, File!FileInvHolds DEF PartsInv
  <2>2. part = "csv" => Files!AllOrNothing
    BY <1>1 DEF PartsInv, FilesInv
  <2>3. part = "catalog" => Records!CatalogTypeOK /\ Records!BlobsCounted
    BY <1>1, CountedExactly DEF PartsInv, RecordsInv
  <2>4. GenInv => /\ Gen!GenerationTypeOK /\ Gen!SweepsAreWhole
                  /\ Gen!RungsAreDeclared /\ Gen!FailedLeavesNothing
    BY WholeIsWhole, WholeIsDeclared DEF GenInv
  <2>5. part = "generation" => /\ Gen!GenerationTypeOK /\ Gen!SweepsAreWhole
                               /\ Gen!RungsAreDeclared /\ Gen!FailedLeavesNothing
    BY <1>1, <2>4 DEF PartsInv
  <2> QED  BY <2>1, <2>2, <2>3, <2>5 DEF AllOrNothing
<1>2. PartsInv => AllOrNothing
  BY <1>1
<1> QED  BY <1>2, PartsInvariant, PTL

\* Every line of a file is a group, a pulse of the group before it, or on hold, and is read once;
\* strict mode lets through what is exact; and what was exported and is read again is what the
\* library had, for any file, cells, arities and counts, if no exported row reads as a comment
\* or as blank (framer.rs, ingest.rs, export.rs).
THEOREM FilesComeBack == LibrarySpec => []FilesReadBack
<1>1. PartsInv => FilesReadBack
  BY FilesHold DEF PartsInv, FilesReadBack
<1> QED  BY <1>1, PartsInvariant, PTL

\* A job cancelled before its last check adds nothing to the library, then or later, for any
\* requests and any number of jobs (generate.rs, screens/generate.rs).
THEOREM CancelsAreHeeded == LibrarySpec => CancelIsHeeded
<1>1. ASSUME PartsInv, [LibraryNext]_LibraryVars, part = "generation" PROVE Gen!CancelIsHeeded
  <2>1. WorkIsRungs
    BY <1>1 DEF PartsInv, GenInv
  <2>2. Gen!GenerationNext \/ UNCHANGED <<tx, library>>
    BY <1>1 DEF LibraryNext, LibraryVars, GenVars
  <2> QED  BY <2>1, <2>2, CancelHeeds
<1>2. PartsInv /\ [LibraryNext]_LibraryVars
        => [part = "generation" => Gen!CancelIsHeeded]_LibraryVars
  BY <1>1
<1> QED  BY <1>2, PartsInvariant, PTL DEF LibrarySpec, CancelIsHeeded

\* The library's runs are runs of the blob store, so that what holds of every run of the store
\* holds in the library (blobs.rs, verify.rs).
THEOREM LibrariesAreStores == LibrarySpec => BlobsSpec
<1>1. LibraryInit => BlobsInit
  BY DEF LibraryInit
<1>2. [LibraryNext]_LibraryVars => [BlobsNext]_blobVars
  <2>1. ASSUME LibraryNext PROVE Building \/ Mending \/ UNCHANGED blobVars
    BY <2>1 DEF LibraryNext
  <2> QED  BY <2>1 DEF LibraryVars, Building, Mending, BlobsNext
<1> QED  BY <1>1, <1>2, PTL DEF LibrarySpec, BlobsSpec
=============================================================================
