---------------------------- MODULE ProcessesProofs ----------------------------
(***************************************************************************)
(* Proofs about Processes, and Tasks and Paging under it: for pools and    *)
(* tables of every size.                                                   *)
(***************************************************************************)
EXTENDS Processes, FiniteSetTheorems, WellFoundedInduction, TLAPS

-----------------------------------------------------------------------------
(* Least and greatest elements *)

\* A set of natural numbers has a least element, found by Min.
LEMMA Least ==
    ASSUME NEW S \in SUBSET Nat, S # {}
    PROVE  /\ Min(S) \in S
           /\ \A n \in S : Min(S) <= n
<1> DEFINE UpTo(n) == {m \in S : m <= n}
           T == {UpTo(n) : n \in S}
<1>1. \A n \in S : UpTo(n) \in FiniteSubsetsOf(Nat)
  <2> SUFFICES ASSUME NEW n \in S PROVE IsFiniteSet(UpTo(n)) /\ UpTo(n) \subseteq Nat
    BY DEF FiniteSubsetsOf
  <2>1. UpTo(n) \in SUBSET Nat /\ n \in Nat /\ \A m \in UpTo(n) : m <= n
    OBVIOUS
  <2> HIDE DEF UpTo
  <2> QED BY <2>1, FS_BoundedSetOfNaturals
<1>2. T \subseteq FiniteSubsetsOf(Nat) /\ T # {}
  BY <1>1
<1>3. PICK x \in T : \A y \in T : ~ (<<y, x>> \in StrictSubsetOrdering(Nat))
  BY <1>2, FS_StrictSubsetOrderingWellFounded, WFMin
<1>4. PICK least \in S : x = UpTo(least)
  OBVIOUS
<1>5. ASSUME NEW n \in S PROVE least <= n
  <2> SUFFICES ASSUME n < least PROVE FALSE
    OBVIOUS
  <2>1. \A m \in S : m <= n => m <= least
    OBVIOUS
  <2>2. least <= least /\ ~ (least <= n)
    OBVIOUS
  <2>3. UpTo(n) \subseteq UpTo(least) /\ least \in UpTo(least) /\ least \notin UpTo(n)
    BY <2>1, <2>2
  <2>4. <<UpTo(n), UpTo(least)>> \in StrictSubsetOrdering(Nat)
    BY <2>3 DEF StrictSubsetOrdering
  <2> QED BY <2>4, <1>3, <1>4
<1> QED BY <1>5 DEF Min

\* A set of natural numbers with a bound has a greatest element, found by Max.
LEMMA Greatest ==
    ASSUME NEW S \in SUBSET Nat, S # {}, NEW bound \in Nat, \A n \in S : n <= bound
    PROVE  /\ Max(S) \in S
           /\ \A n \in S : n <= Max(S)
<1> DEFINE T == {n \in Nat : \A m \in S : m <= n}
<1>1. T \in SUBSET Nat /\ bound \in T
  OBVIOUS
<1>2. Min(T) \in T /\ \A n \in T : Min(T) <= n
  BY <1>1, Least
<1>3. Min(T) \in S
  <2> SUFFICES ASSUME Min(T) \notin S PROVE FALSE
    OBVIOUS
  <2>1. PICK s \in S : TRUE
    OBVIOUS
  <2>2. \A m \in S : m < Min(T)
    BY <1>2
  <2>3. Min(T) - 1 \in Nat
    BY <2>1, <2>2, <1>2
  <2>4. \A m \in S : m <= Min(T) - 1
    BY <2>2, <1>2
  <2>5. Min(T) - 1 \in T
    BY <2>3, <2>4
  <2> QED BY <2>5, <1>2
<1>4. \A m \in S : Min(T) >= m
  BY <1>2
<1> QED BY <1>3, <1>4 DEF Max

-----------------------------------------------------------------------------
(* What the heap answers to requests *)

\* The frames of the heap are numbers from 1 on, finitely many.
LEMMA PoolIsFinite ==
    /\ IsFiniteSet(Pool) /\ Pool \subseteq Nat \ {0} /\ Pool \subseteq Frames
    /\ NULL \in Frames /\ NULL \notin Pool
    /\ \A heap \in SUBSET Pool : IsFiniteSet(heap) /\ Cardinality(heap) \in Nat
<1> DEFINE top == (DirEntries - 1) * Entries - 1
<1>1. DirEntries \in Nat /\ Entries \in Nat /\ DirEntries >= 1 /\ Entries >= 1
  BY PagingAssumption
<1>2. (DirEntries - 1) * Entries \in Nat /\ (DirEntries - 1) * Entries <= DirEntries * Entries
  BY <1>1, SMTT(20)
<1>3. top \in Int /\ Pool \subseteq 1..top
  BY <1>2, PagingAssumption
<1>4. DirEntries * Entries \in Nat /\ DirEntries * Entries >= 1
  BY <1>1, SMTT(20)
<1>5. 1..top \subseteq Frames /\ NULL \in Frames
  BY <1>2, <1>4 DEF Frames, VirtualPages, NULL
<1> HIDE DEF top
<1>6. IsFiniteSet(1..top)
  BY <1>3, FS_Interval
<1>7. IsFiniteSet(Pool)
  BY <1>3, <1>6, FS_Subset
<1>8. ASSUME NEW heap \in SUBSET Pool
      PROVE  IsFiniteSet(heap) /\ Cardinality(heap) \in Nat
  BY <1>7, FS_Subset, FS_CardinalityType
<1> QED BY <1>3, <1>5, <1>7, <1>8 DEF NULL

\* The k-th request is answered as long as the heap has more than k frames, with
\* the frame that has k smaller ones in it.
LEMMA RequestAnswered ==
    ASSUME NEW heap \in SUBSET Pool, NEW k \in Nat, Cardinality(heap) > k
    PROVE  /\ Request(heap, k) \in heap
           /\ Cardinality({g \in heap : g < Request(heap, k)}) = k
<1> DEFINE Below(S, f) == {g \in S : g < f}
           T == {f \in heap : Cardinality(Below(heap, f)) >= k}
<1>1. IsFiniteSet(heap) /\ heap \subseteq Nat /\ Cardinality(heap) \in Nat
  BY PoolIsFinite
<1>2. ASSUME NEW S \in SUBSET heap, NEW f \in Nat
      PROVE  IsFiniteSet(Below(S, f)) /\ Cardinality(Below(S, f)) \in Nat
  BY PoolIsFinite
<1>3. PICK bound \in Nat : \A f \in Pool : f <= bound
  <2> DEFINE top == (DirEntries - 1) * Entries
  <2>1. DirEntries \in Nat /\ Entries \in Nat /\ DirEntries >= 1
    BY PagingAssumption
  <2>2. top \in Nat
    BY <2>1, SMTT(20)
  <2>3. Pool \subseteq 1..(top - 1)
    BY PagingAssumption
  <2> HIDE DEF top
  <2>4. \A f \in Pool : f <= top
    BY <2>2, <2>3
  <2> QED BY <2>2, <2>4
<1>4. ASSUME NEW S \in SUBSET heap, S # {}
      PROVE  /\ Max(S) \in S
             /\ \A f \in S : f <= Max(S)
             /\ Cardinality(Below(S, Max(S))) = Cardinality(S) - 1
  <2>1. S \in SUBSET Nat /\ \A f \in S : f <= bound
    BY <1>1, <1>3
  <2>2. Max(S) \in S /\ \A f \in S : f <= Max(S)
    BY <1>4, <2>1, Greatest
  <2>3. \A m, f \in Nat : f <= m /\ f # m <=> f < m
    OBVIOUS
  <2>4. Max(S) \in Nat /\ \A f \in S : f \in Nat /\ (f < Max(S) <=> f # Max(S))
    BY <2>1, <2>2, <2>3, Zenon
  <2>5. Below(S, Max(S)) = S \ {Max(S)}
    BY <2>4
  <2>6. IsFiniteSet(S) /\ Cardinality(S) \in Nat
    BY PoolIsFinite
  <2>7. Cardinality(S \ {Max(S)}) = Cardinality(S) - 1
    BY <2>2, <2>6, FS_RemoveElement
  <2> QED BY <2>2, <2>5, <2>7
<1>5. T # {}
  <2>1. heap # {}
    BY FS_EmptySet
  <2>2. Max(heap) \in heap /\ Cardinality(Below(heap, Max(heap))) = Cardinality(heap) - 1
    BY <1>4, <2>1
  <2>3. Cardinality(heap) - 1 >= k
    BY <1>1
  <2> QED BY <2>2, <2>3
<1>6. T \in SUBSET Nat
  BY <1>1
<1> DEFINE least == Min(T)
<1>7. least \in T /\ \A f \in T : least <= f
  <2> HIDE DEF T
  <2> QED BY <1>5, <1>6, Least
<1>8. least \in heap /\ least \in Nat /\ Cardinality(Below(heap, least)) >= k
  BY <1>7, <1>6
<1>9. \A f \in heap : Cardinality(Below(heap, f)) >= k => least <= f
  BY <1>7
<1> HIDE DEF least, T
<1>10. Cardinality(Below(heap, least)) <= k
  <2> SUFFICES ASSUME Cardinality(Below(heap, least)) > k PROVE FALSE
    BY <1>2, <1>8
  <2> DEFINE S == Below(heap, least)
             g == Max(S)
  <2>1. S \in SUBSET heap /\ \A f \in S : f < least
    OBVIOUS
  <2>2. \A f \in heap : f < least => f \in S
    OBVIOUS
  <2>3. IsFiniteSet(S) /\ Cardinality(S) \in Nat /\ Cardinality(S) > k
    BY <1>2, <1>8
  <2> HIDE DEF S
  <2>4. S # {}
    BY <2>3, FS_EmptySet
  <2>5. g \in S /\ (\A f \in S : f <= g) /\ Cardinality(Below(S, g)) = Cardinality(S) - 1
    BY <1>4, <2>1, <2>4
  <2> HIDE DEF g
  <2>6. g \in heap /\ g < least
    BY <2>1, <2>5
  <2>7. \A f \in heap : f < g => f < least
    BY <2>6, <1>1, <1>8
  <2>8. Below(S, g) = Below(heap, g)
    BY <2>1, <2>2, <2>7
  <2>9. Cardinality(S) - 1 >= k
    BY <2>3
  <2>10. Cardinality(Below(heap, g)) >= k
    BY <2>5, <2>8, <2>9
  <2>11. least <= g
    BY <2>6, <2>10, <1>9
  <2> QED BY <2>6, <2>11, <1>1, <1>8
<1>11. Cardinality(Below(heap, least)) = k
  <2>1. Cardinality(Below(heap, least)) \in Nat
    BY <1>2, <1>8
  <2> HIDE DEF Below
  <2> QED BY <2>1, <1>8, <1>10
<1>12. Request(heap, k) = CHOOSE f \in heap : Cardinality({g \in heap : g < f}) = k
  <2>1. ~ (Cardinality(heap) <= k)
    BY <1>1
  <2> QED BY <2>1 DEF Request
<1> QED BY <1>8, <1>11, <1>12

\* A request to a heap that has too few frames is answered with NULL.
LEMMA RequestRefused ==
    ASSUME NEW heap \in SUBSET Pool, NEW k \in Nat, Cardinality(heap) <= k
    PROVE  Request(heap, k) = NULL
BY DEF Request

\* Answers other than NULL are frames of the heap, and all different.
LEMMA RequestsDiffer ==
    ASSUME NEW heap \in SUBSET Pool, NEW k \in Nat
    PROVE  /\ Request(heap, k) \in heap \cup {NULL}
           /\ Request(heap, k) \in Frames
           /\ Request(heap, k) # NULL <=> k < Cardinality(heap)
           /\ Request(heap, k) # NULL <=> Request(heap, k) \in heap
           /\ \A j \in Nat :
                 /\ Request(heap, j) = Request(heap, k) /\ j # k => Request(heap, k) = NULL
                 /\ Request(heap, k) # NULL /\ j <= k => Request(heap, j) # NULL
<1>1. heap \subseteq Frames /\ NULL \in Frames /\ NULL \notin heap /\ Cardinality(heap) \in Nat
  BY PoolIsFinite
<1>2. \A j \in Nat : /\ Request(heap, j) \in heap \cup {NULL}
                     /\ Request(heap, j) # NULL <=> j < Cardinality(heap)
                     /\ Request(heap, j) # NULL => Cardinality({g \in heap : g < Request(heap, j)}) = j
  <2> TAKE j \in Nat
  <2>1. CASE Cardinality(heap) > j
    BY <2>1, <1>1, RequestAnswered
  <2>2. CASE Cardinality(heap) <= j
    BY <2>2, <1>1, RequestRefused
  <2> QED BY <2>1, <2>2, <1>1
<1>3. \A j \in Nat : Request(heap, j) = Request(heap, k) /\ j # k => Request(heap, k) = NULL
  BY <1>2
<1>4. \A j \in Nat : Request(heap, k) # NULL /\ j <= k => Request(heap, j) # NULL
  <2>1. \A j \in Nat : k < Cardinality(heap) /\ j <= k => j < Cardinality(heap)
    BY <1>1
  <2> QED BY <2>1, <1>2
<1> QED BY <1>1, <1>2, <1>3, <1>4

-----------------------------------------------------------------------------
(* What paging_new_4gb leaves in memory *)

Memory == [Frames -> [Index -> Word]]

\* Table i of a space, and what makes a space whole.
TableOf(m, chunk, i) == m[Directory(m, chunk)][i].frame

Whole(m, chunk) ==
    /\ paging_free_4gb(m, chunk) \subseteq Pool
    /\ chunk # Directory(m, chunk)
    /\ \A i \in Turns : TableOf(m, chunk, i) \notin {chunk, Directory(m, chunk)}
    /\ \A i, j \in Turns : TableOf(m, chunk, i) = TableOf(m, chunk, j) => i = j

\* The turns of the loop index the directory, and the entries of the tables map
\* the virtual pages, the last table none of the heap.
LEMMA Turning ==
    /\ Turns \subseteq Index /\ 0 \in Turns /\ 0 \in Index
    /\ Turns \in SUBSET Nat /\ DirEntries - 1 \in Turns /\ \A i \in Turns : i <= DirEntries - 1
    /\ DirEntries \in Nat /\ Entries \in Nat \ {0} /\ PageSize \in Nat \ {0}
    /\ \A i \in Turns, b \in Index : i * Entries + b \in Frames
    /\ \A b \in Index : (DirEntries - 1) * Entries + b \notin Pool
<1>1. DirEntries \in Nat /\ DirEntries >= 1 /\ Entries \in Nat /\ DirEntries <= Entries /\ Entries # 0
  BY PagingAssumption
<1>2. ASSUME NEW i \in Turns, NEW b \in Index
      PROVE  i * Entries + b \in Frames
  <2>1. i \in Nat /\ i <= DirEntries - 1 /\ b \in Nat /\ b <= Entries - 1
    BY <1>1, i \in Turns, b \in Index DEF Turns, Index
  <2>2. i * Entries \in Nat /\ i * Entries <= (DirEntries - 1) * Entries
    BY <2>1, <1>1, SMTT(20)
  <2>3. (DirEntries - 1) * Entries = DirEntries * Entries - Entries /\ DirEntries * Entries \in Nat
    BY <1>1, SMTT(20)
  <2>4. i * Entries + b \in 0..(DirEntries * Entries - 1)
    <3> DEFINE x == i * Entries
               y == DirEntries * Entries
    <3>1. x \in Nat /\ y \in Nat /\ x <= y - Entries
      BY <2>2, <2>3
    <3> HIDE DEF x, y
    <3>2. x + b \in 0..(y - 1)
      BY <3>1, <2>1, <1>1
    <3> QED BY <3>2 DEF x, y
  <2> QED BY <2>4 DEF Frames, VirtualPages
<1>3. ASSUME NEW b \in Index
      PROVE  (DirEntries - 1) * Entries + b \notin Pool
  <2> DEFINE x == (DirEntries - 1) * Entries
  <2>1. x \in Nat
    BY <1>1, SMTT(20)
  <2>2. Pool \subseteq 1..(x - 1)
    BY PagingAssumption
  <2>3. b \in Nat
    BY <1>1 DEF Index
  <2> HIDE DEF x
  <2>4. x + b \notin Pool
    BY <2>1, <2>2, <2>3
  <2> QED BY <2>4 DEF x
<1>4. /\ Turns \subseteq Index /\ 0 \in Turns /\ 0 \in Index
      /\ Turns \in SUBSET Nat /\ DirEntries - 1 \in Turns /\ \A i \in Turns : i <= DirEntries - 1
  BY <1>1 DEF Turns, Index
<1> QED BY <1>1, <1>2, <1>3, <1>4, PagingAssumption

\* The answers to paging_new_4gb: frames of the heap or NULL, all different as
\* long as they are not NULL, and none NULL when the chunk is not.
LEMMA Answers ==
    ASSUME NEW heap \in SUBSET Pool
    PROVE  /\ {DirectoryAsked(heap), ChunkAsked(heap)} \subseteq heap \cup {NULL}
           /\ \A i \in Turns : TableAsked(heap, i) \in heap \cup {NULL}
           /\ Taken(heap) \subseteq heap
           /\ {DirectoryAsked(heap), ChunkAsked(heap)} \subseteq Taken(heap) \cup {NULL}
           /\ \A i \in Turns : TableAsked(heap, i) \in Taken(heap) \cup {NULL}
           /\ \A f \in Taken(heap) : \/ f \in {DirectoryAsked(heap), ChunkAsked(heap)}
                                     \/ \E i \in Turns : f = TableAsked(heap, i)
           /\ DirectoryAsked(heap) # NULL => DirectoryAsked(heap) # ChunkAsked(heap)
           /\ \A i \in Turns :
                 /\ TableAsked(heap, i) # NULL => TableAsked(heap, i) # ChunkAsked(heap)
                 /\ DirectoryAsked(heap) # NULL => TableAsked(heap, i) # DirectoryAsked(heap)
                 /\ \A j \in Turns : /\ TableAsked(heap, i) = TableAsked(heap, j)
                                     /\ TableAsked(heap, i) # NULL
                                     => i = j
           /\ ChunkAsked(heap) # NULL => /\ DirectoryAsked(heap) # NULL
                                         /\ \A i \in Turns : TableAsked(heap, i) # NULL
           /\ DirectoryAsked(heap) = NULL => \A i \in Turns : TableAsked(heap, i) = NULL
           /\ DirectoryAsked(heap) = NULL <=> heap = {}
<1> DEFINE last == DirEntries + 1
<1>1. /\ 0 \in 0..last /\ last \in 0..last /\ last # 0
      /\ \A i \in Turns : i + 1 \in 0..last /\ i + 1 # 0 /\ i + 1 # last
      /\ \A i, j \in Turns : i + 1 = j + 1 => i = j
      /\ \A k \in 0..last : k = 0 \/ k = last \/ \E i \in Turns : k = i + 1
  <2>1. ASSUME NEW k \in 0..last, k # 0, k # last PROVE k - 1 \in Turns /\ k = (k - 1) + 1
    BY <2>1, Turning DEF Turns
  <2> QED BY <2>1, Turning DEF Turns
<1>2. 0..last \subseteq Nat
  OBVIOUS
<1> HIDE DEF last
<1>3. \A k \in 0..last : Request(heap, k) \in heap \cup {NULL}
  BY <1>2, RequestsDiffer
<1>4. \A j, k \in 0..last : Request(heap, j) = Request(heap, k) /\ j # k => Request(heap, k) = NULL
  BY <1>2, RequestsDiffer
<1>5. \A k \in 0..last : /\ Request(heap, last) # NULL => Request(heap, k) # NULL
                         /\ Request(heap, k) # NULL => Request(heap, 0) # NULL
  <2>1. \A k \in 0..last : k <= last /\ 0 <= k /\ k \in Nat
    BY Turning DEF last
  <2> QED BY <1>1, <1>2, <2>1, RequestsDiffer
<1>6. Request(heap, 0) = NULL <=> heap = {}
  <2>1. IsFiniteSet(heap) /\ Cardinality(heap) \in Nat
    BY PoolIsFinite
  <2>2. Request(heap, 0) # NULL <=> 0 < Cardinality(heap)
    BY RequestsDiffer
  <2> QED BY <2>1, <2>2, FS_EmptySet
<1>7. /\ DirectoryAsked(heap) = Request(heap, 0) /\ ChunkAsked(heap) = Request(heap, last)
      /\ \A i \in Turns : TableAsked(heap, i) = Request(heap, i + 1)
      /\ Taken(heap) = {Request(heap, k) : k \in 0..last} \ {NULL}
  BY DEF DirectoryAsked, ChunkAsked, TableAsked, Taken, last
<1>8. Taken(heap) \subseteq heap
  BY <1>3, <1>7
<1>9. ASSUME NEW f \in Taken(heap)
      PROVE  \/ f \in {DirectoryAsked(heap), ChunkAsked(heap)}
             \/ \E i \in Turns : f = TableAsked(heap, i)
  <2>1. PICK k \in 0..last : f = Request(heap, k)
    BY <1>7
  <2>2. CASE k = 0 \/ k = last
    BY <2>1, <2>2, <1>7
  <2>3. CASE \E i \in Turns : k = i + 1
    BY <2>1, <2>3, <1>7
  <2> QED BY <2>2, <2>3, <1>1
<1>10. /\ {DirectoryAsked(heap), ChunkAsked(heap)} \subseteq heap \cup {NULL}
       /\ \A i \in Turns : TableAsked(heap, i) \in heap \cup {NULL}
       /\ {DirectoryAsked(heap), ChunkAsked(heap)} \subseteq Taken(heap) \cup {NULL}
       /\ \A i \in Turns : TableAsked(heap, i) \in Taken(heap) \cup {NULL}
  BY <1>1, <1>3, <1>7
<1>11. DirectoryAsked(heap) # NULL => DirectoryAsked(heap) # ChunkAsked(heap)
  BY <1>1, <1>4, <1>7
<1>12. \A i \in Turns :
          /\ TableAsked(heap, i) # NULL => TableAsked(heap, i) # ChunkAsked(heap)
          /\ DirectoryAsked(heap) # NULL => TableAsked(heap, i) # DirectoryAsked(heap)
          /\ \A j \in Turns : /\ TableAsked(heap, i) = TableAsked(heap, j)
                              /\ TableAsked(heap, i) # NULL
                              => i = j
  BY <1>1, <1>4, <1>7
<1>13. /\ ChunkAsked(heap) # NULL => /\ DirectoryAsked(heap) # NULL
                                     /\ \A i \in Turns : TableAsked(heap, i) # NULL
       /\ DirectoryAsked(heap) = NULL => \A i \in Turns : TableAsked(heap, i) = NULL
  BY <1>1, <1>5, <1>7
<1> QED BY <1>6, <1>7, <1>8, <1>9, <1>10, <1>11, <1>12, <1>13

\* What paging_new_4gb writes is well formed, and it writes to page 0 and to what
\* it was given only.
LEMMA NewSpaceWritten ==
    ASSUME NEW heap \in SUBSET Pool, NEW m \in Memory, NEW flags \in SUBSET Flags
    PROVE  /\ paging_new_4gb(heap, m, flags) \in Memory
           /\ \A f \in Frames \ (Taken(heap) \cup {NULL}) :
                 paging_new_4gb(heap, m, flags)[f] = m[f]
           /\ ChunkAsked(heap) # NULL => paging_new_4gb(heap, m, flags)[NULL] = m[NULL]
<1> DEFINE directory == DirectoryAsked(heap)
           turnsOn(f) == {i \in Turns : TableAsked(heap, i) = f}
           written(f, b) ==
             IF f = ChunkAsked(heap) /\ b = 0
             THEN [frame |-> directory, flags |-> {}]
             ELSE IF f = directory /\ b \in Turns /\ \A i \in turnsOn(f) : i <= b
             THEN [frame |-> TableAsked(heap, b), flags |-> flags \cup {"W"}]
             ELSE IF turnsOn(f) # {} THEN TableEntry(Max(turnsOn(f)), b, flags)
             ELSE m[f][b]
           n == paging_new_4gb(heap, m, flags)
<1>1. n = [f \in Frames |-> [b \in Index |-> written(f, b)]]
  BY DEF paging_new_4gb
<1>2. heap \subseteq Frames /\ NULL \in Frames
  BY PoolIsFinite
<1>3. ASSUME NEW f \in Frames, NEW b \in Index
      PROVE  written(f, b) \in Word
  <2>1. [frame |-> directory, flags |-> {}] \in Word
    BY <1>2, Answers DEF Word
  <2>2. b \in Turns => [frame |-> TableAsked(heap, b), flags |-> flags \cup {"W"}] \in Word
    BY <1>2, Answers DEF Word, Flags
  <2>3. m[f][b] \in Word
    BY DEF Memory
  <2>4. turnsOn(f) # {} => TableEntry(Max(turnsOn(f)), b, flags) \in Word
    <3>1. turnsOn(f) \in SUBSET Nat /\ (\A i \in turnsOn(f) : i <= DirEntries - 1) /\ DirEntries - 1 \in Nat
      BY Turning
    <3>2. turnsOn(f) # {} => Max(turnsOn(f)) \in turnsOn(f)
      BY <3>1, Greatest
    <3>3. turnsOn(f) # {} => Max(turnsOn(f)) * Entries + b \in Frames
      BY <3>2, Turning
    <3> HIDE DEF turnsOn
    <3> QED BY <3>3 DEF TableEntry, Word
  <2> HIDE DEF directory, turnsOn
  <2> QED BY <2>1, <2>2, <2>3, <2>4
<1>4. n \in Memory
  <2> HIDE DEF n, written
  <2> QED BY <1>1, <1>3 DEF Memory
<1>5. ASSUME NEW f \in Frames, f # ChunkAsked(heap), f # directory, turnsOn(f) = {}
      PROVE  n[f] = m[f]
  <2>1. n[f] = [b \in Index |-> m[f][b]]
    BY <1>1, <1>5
  <2> QED BY <2>1 DEF Memory
<1>6. ASSUME NEW f \in Frames \ (Taken(heap) \cup {NULL}) PROVE n[f] = m[f]
  BY <1>5, Answers
<1>7. ASSUME ChunkAsked(heap) # NULL PROVE n[NULL] = m[NULL]
  BY <1>2, <1>5, <1>7, Answers
<1> QED BY <1>4, <1>6, <1>7

\* A space that gets its chunk is whole, made of what was taken, and its tables
\* map every page to itself.
LEMMA NewSpaceIsWhole ==
    ASSUME NEW heap \in SUBSET Pool, NEW m \in Memory, NEW flags \in SUBSET Flags,
           ChunkAsked(heap) # NULL,
           NEW n \in Memory,
           \A f \in Taken(heap) : n[f] = paging_new_4gb(heap, m, flags)[f]
    PROVE  /\ Directory(n, ChunkAsked(heap)) = DirectoryAsked(heap)
           /\ paging_free_4gb(n, ChunkAsked(heap)) = Taken(heap)
           /\ Whole(n, ChunkAsked(heap))
           /\ \A i \in Turns, b \in Index :
                 n[TableOf(n, ChunkAsked(heap), i)][b] = TableEntry(i, b, flags)
<1> DEFINE chunk == ChunkAsked(heap)
           directory == DirectoryAsked(heap)
           table(i) == TableAsked(heap, i)
           turnsOn(f) == {i \in Turns : table(i) = f}
           written(f, b) ==
             IF f = chunk /\ b = 0
             THEN [frame |-> directory, flags |-> {}]
             ELSE IF f = directory /\ b \in Turns /\ \A i \in turnsOn(f) : i <= b
             THEN [frame |-> table(b), flags |-> flags \cup {"W"}]
             ELSE IF turnsOn(f) # {} THEN TableEntry(Max(turnsOn(f)), b, flags)
             ELSE m[f][b]
<1>1. paging_new_4gb(heap, m, flags) = [f \in Frames |-> [b \in Index |-> written(f, b)]]
  BY DEF paging_new_4gb
<1>2. heap \subseteq Frames /\ heap \subseteq Pool /\ NULL \notin heap
  BY PoolIsFinite
<1>3. /\ chunk \in Taken(heap) /\ directory \in Taken(heap) /\ chunk # directory
      /\ \A i \in Turns : table(i) \in Taken(heap) \ {chunk, directory}
      /\ \A i, j \in Turns : table(i) = table(j) => i = j
      /\ Taken(heap) \subseteq Frames /\ Taken(heap) \subseteq Pool
      /\ \A f \in Taken(heap) : f \in {directory, chunk} \/ \E i \in Turns : f = table(i)
  BY <1>2, Answers
<1>4. \A f \in Taken(heap), b \in Index : n[f][b] = written(f, b)
  <2>1. Taken(heap) \subseteq Frames /\ \A f \in Taken(heap) : n[f] = paging_new_4gb(heap, m, flags)[f]
    BY <1>3
  <2> HIDE DEF written, chunk, directory, table
  <2> QED BY <1>1, <2>1
<1>5. Turns \subseteq Index /\ 0 \in Index
  BY Turning
<1>6. n[chunk][0] = [frame |-> directory, flags |-> {}]
  BY <1>3, <1>4, <1>5
<1>7. Directory(n, chunk) = directory
  BY <1>6 DEF Directory
<1>8. turnsOn(directory) = {}
  BY <1>3
<1>9. \A i \in Turns : TableOf(n, chunk, i) = table(i)
  <2> TAKE i \in Turns
  <2>1. n[directory][i] = [frame |-> table(i), flags |-> flags \cup {"W"}]
    BY <1>3, <1>4, <1>5, <1>8
  <2> QED BY <2>1, <1>7 DEF TableOf
<1>10. ASSUME NEW i \in Turns, NEW b \in Index
       PROVE  n[table(i)][b] = TableEntry(i, b, flags)
  <2>1. turnsOn(table(i)) = {i}
    BY <1>3
  <2>2. Max({i}) = i
    <3>1. i \in Nat /\ \A x \in {i} : i >= x
      BY Turning
    <3> QED BY <3>1 DEF Max
  <2> HIDE DEF turnsOn
  <2>3. written(table(i), b) = TableEntry(i, b, flags)
    BY <2>1, <2>2, <1>3
  <2> QED BY <2>3, <1>3, <1>4
<1>11. paging_free_4gb(n, chunk) = {table(i) : i \in Turns} \cup {directory, chunk}
  BY <1>7, <1>9 DEF paging_free_4gb, TableOf
<1>12. paging_free_4gb(n, chunk) = Taken(heap)
  BY <1>3, <1>11
<1> HIDE DEF chunk, directory, table
<1>13. Whole(n, chunk)
  BY <1>3, <1>7, <1>9, <1>12 DEF Whole
<1>14. \A i \in Turns, b \in Index : n[TableOf(n, chunk, i)][b] = TableEntry(i, b, flags)
  BY <1>9, <1>10
<1> QED BY <1>7, <1>12, <1>13, <1>14 DEF chunk, directory

\* When the chunk is not to be had, what was taken is found again through page 0,
\* and nothing else of the heap is.
LEMMA FailedSpaceIsFound ==
    ASSUME NEW heap \in SUBSET Pool, NEW m \in Memory, NEW flags \in SUBSET Flags,
           ChunkAsked(heap) = NULL,
           NEW n \in Memory,
           \A f \in Taken(heap) \cup {NULL} : n[f] = paging_new_4gb(heap, m, flags)[f]
    PROVE  /\ Taken(heap) \subseteq heap
           /\ paging_free_4gb(n, NULL) \cap Pool = Taken(heap)
<1> DEFINE directory == DirectoryAsked(heap)
           table(i) == TableAsked(heap, i)
           turnsOn(f) == {i \in Turns : table(i) = f}
           written(f, b) ==
             IF f = NULL /\ b = 0
             THEN [frame |-> directory, flags |-> {}]
             ELSE IF f = directory /\ b \in Turns /\ \A i \in turnsOn(f) : i <= b
             THEN [frame |-> table(b), flags |-> flags \cup {"W"}]
             ELSE IF turnsOn(f) # {} THEN TableEntry(Max(turnsOn(f)), b, flags)
             ELSE m[f][b]
<1>1. paging_new_4gb(heap, m, flags) = [f \in Frames |-> [b \in Index |-> written(f, b)]]
  BY DEF paging_new_4gb
<1>2. heap \subseteq Frames /\ heap \subseteq Pool /\ NULL \notin Pool /\ NULL \in Frames
  BY PoolIsFinite
<1>3. Turns \subseteq Index /\ 0 \in Index
  BY Turning
<1>4. \A f \in Taken(heap) \cup {NULL}, b \in Index : n[f][b] = written(f, b)
  <2>1. Taken(heap) \cup {NULL} \subseteq Frames
    BY <1>2, Answers
  <2> HIDE DEF written
  <2> QED BY <1>1, <2>1, SMTT(30)
<1>5. Directory(n, NULL) = directory
  <2>1. n[NULL][0] = [frame |-> directory, flags |-> {}]
    BY <1>3, <1>4
  <2> QED BY <2>1 DEF Directory
<1>6. paging_free_4gb(n, NULL) = {n[directory][i].frame : i \in Turns} \cup {directory, NULL}
  BY <1>5 DEF paging_free_4gb
<1>7. CASE directory # NULL
  <2>1. turnsOn(directory) = {} /\ directory \in Taken(heap)
    BY <1>7, Answers
  <2>2. ASSUME NEW i \in Turns PROVE n[directory][i].frame = table(i)
    <3>1. n[directory][i] = [frame |-> table(i), flags |-> flags \cup {"W"}]
      BY <1>3, <1>4, <1>7, <2>1
    <3> QED BY <3>1
  <2>3. paging_free_4gb(n, NULL) = {table(i) : i \in Turns} \cup {directory, NULL}
    BY <1>6, <2>2
  <2>4. /\ \A i \in Turns : table(i) \in Taken(heap) \cup {NULL}
        /\ \A f \in Taken(heap) : f \in {directory, NULL} \/ \E i \in Turns : f = table(i)
        /\ NULL \notin Taken(heap) /\ Taken(heap) \subseteq Pool
    BY <1>2, Answers
  <2> HIDE DEF directory, table
  <2> QED BY <1>2, <2>1, <2>3, <2>4, Answers
<1>8. CASE directory = NULL
  <2>1. \A i \in Turns : table(i) = NULL
    BY <1>8, Answers
  <2>2. Taken(heap) = {}
    BY <1>8, Answers
  <2>3. turnsOn(NULL) = Turns
    BY <2>1
  <2>4. Max(Turns) = DirEntries - 1
    <3>1. Max(Turns) \in Turns /\ \A i \in Turns : i <= Max(Turns)
      BY Turning, Greatest
    <3>2. \A x, y \in Nat : x <= y /\ y <= x => x = y
      OBVIOUS
    <3> QED BY <3>1, <3>2, Turning, Zenon
  <2>5. ASSUME NEW i \in Turns PROVE n[NULL][i].frame \notin Pool
    <3> HIDE DEF turnsOn
    <3>1. \/ written(NULL, i) = [frame |-> NULL, flags |-> {}]
          \/ written(NULL, i) = [frame |-> NULL, flags |-> flags \cup {"W"}]
          \/ written(NULL, i) = TableEntry(DirEntries - 1, i, flags)
      BY <2>1, <2>3, <2>4, <1>8
    <3>2. TableEntry(DirEntries - 1, i, flags).frame \notin Pool
      BY <1>3, Turning DEF TableEntry
    <3>3. n[NULL][i] = written(NULL, i)
      BY <1>3, <1>4
    <3> HIDE DEF written
    <3> QED BY <3>1, <3>2, <3>3, <1>2
  <2>6. paging_free_4gb(n, NULL) \cap Pool = {}
    BY <2>5, <1>2, <1>6, <1>8
  <2> QED BY <2>2, <2>6
<1> QED BY <1>7, <1>8

-----------------------------------------------------------------------------
(* Looking addresses up *)

\* Division with a remainder finds the factor and the remainder.
LEMMA Division ==
    ASSUME NEW d \in Nat \ {0}, NEW q \in Nat, NEW r \in Nat, r < d
    PROVE  (q * d + r) \div d = q /\ (q * d + r) % d = r
BY SMTT(20)

\* A page number splits into a table and an entry of the table.
LEMMA Splitting ==
    ASSUME NEW v \in VirtualPages
    PROVE  /\ v \in Nat /\ v \div Entries \in Turns /\ v % Entries \in Index
           /\ v = (v \div Entries) * Entries + (v % Entries)
<1>1. DirEntries \in Nat /\ Entries \in Nat \ {0}
  BY Turning
<1>2. v \in Nat /\ v < DirEntries * Entries
  <2>1. DirEntries * Entries \in Nat
    BY <1>1, SMTT(20)
  <2> DEFINE x == DirEntries * Entries
  <2> HIDE DEF x
  <2>2. \A w \in 0..(x - 1) : x \in Nat => w \in Nat /\ w < x
    OBVIOUS
  <2> QED BY <2>1, <2>2 DEF VirtualPages, x
<1>3. /\ v \div Entries \in Nat /\ v % Entries \in Nat /\ v % Entries < Entries
      /\ v = (v \div Entries) * Entries + (v % Entries)
  BY <1>1, <1>2, SMTT(20)
<1>4. v \div Entries < DirEntries
  <2> DEFINE q == v \div Entries
  <2>1. q \in Nat /\ q * Entries <= v
    <3>1. q * Entries \in Nat
      BY <1>1, <1>3, SMTT(20)
    <3> QED BY <1>2, <1>3, <3>1
  <2> HIDE DEF q
  <2>2. q * Entries < DirEntries * Entries
    <3>1. q * Entries \in Nat /\ DirEntries * Entries \in Nat
      BY <1>1, <2>1, SMTT(20)
    <3> QED BY <1>2, <2>1, <3>1
  <2>3. q < DirEntries
    BY <1>1, <2>1, <2>2, SMTT(20)
  <2> QED BY <2>3 DEF q
<1> QED BY <1>1, <1>2, <1>3, <1>4 DEF Turns, Index

\* The address of a page is looked up in its table at its entry.
LEMMA PageAddress ==
    ASSUME NEW v \in VirtualPages
    PROVE  /\ (v * PageSize) % PageSize = 0 /\ (v * PageSize) \div PageSize = v
           /\ (v * PageSize) \div (Entries * PageSize) = v \div Entries
           /\ TableIndex(v * PageSize) = v % Entries
<1> DEFINE i == v \div Entries
           b == v % Entries
<1>1. Entries \in Nat \ {0} /\ PageSize \in Nat \ {0}
  BY Turning
<1>2. v \in Nat /\ i \in Nat /\ b \in Nat /\ b < Entries /\ v = i * Entries + b
  BY Splitting, Turning DEF Turns, Index
<1>3. (v * PageSize) % PageSize = 0 /\ (v * PageSize) \div PageSize = v
  <2>1. v * PageSize + 0 = v * PageSize /\ v * PageSize \in Nat
    BY <1>1, <1>2, SMTT(20)
  <2>2. 0 < PageSize
    BY <1>1
  <2>3. (v * PageSize + 0) \div PageSize = v /\ (v * PageSize + 0) % PageSize = 0
    BY <1>1, <1>2, <2>2, Division
  <2> QED BY <2>1, <2>3
<1> HIDE DEF i, b
<1>4. /\ v * PageSize = i * (Entries * PageSize) + b * PageSize
      /\ b * PageSize \in Nat /\ b * PageSize < Entries * PageSize
      /\ Entries * PageSize \in Nat \ {0}
  BY <1>1, <1>2, SMTT(20)
<1>5. /\ (v * PageSize) \div (Entries * PageSize) = i
      /\ (v * PageSize) % (Entries * PageSize) = b * PageSize
  <2> DEFINE d == Entries * PageSize
             r == b * PageSize
  <2>1. d \in Nat \ {0} /\ r \in Nat /\ r < d
    BY <1>4
  <2> HIDE DEF d, r
  <2>2. (i * d + r) \div d = i /\ (i * d + r) % d = r
    BY <1>2, <2>1, Division
  <2> QED BY <1>4, <2>2 DEF d, r
<1>6. (b * PageSize) \div PageSize = b
  <2>1. b * PageSize + 0 = b * PageSize
    BY <1>4
  <2>2. 0 < PageSize
    BY <1>1
  <2>3. (b * PageSize + 0) \div PageSize = b
    BY <1>1, <1>2, <2>2, Division
  <2> QED BY <2>1, <2>3
<1> QED BY <1>3, <1>5, <1>6 DEF TableIndex, i, b

\* What a space is made of depends on its chunk and its directory only.
LEMMA SpaceKept ==
    ASSUME NEW m, NEW n, NEW chunk, Whole(m, chunk),
           n[chunk] = m[chunk], n[Directory(m, chunk)] = m[Directory(m, chunk)]
    PROVE  /\ Directory(n, chunk) = Directory(m, chunk)
           /\ \A i \in Turns : TableOf(n, chunk, i) = TableOf(m, chunk, i)
           /\ paging_free_4gb(n, chunk) = paging_free_4gb(m, chunk)
           /\ Whole(n, chunk)
<1>1. Directory(n, chunk) = Directory(m, chunk)
  BY DEF Directory
<1>2. \A i \in Turns : TableOf(n, chunk, i) = TableOf(m, chunk, i)
  BY <1>1 DEF TableOf
<1>3. paging_free_4gb(n, chunk) = paging_free_4gb(m, chunk)
  BY <1>1 DEF paging_free_4gb
<1> QED BY <1>1, <1>2, <1>3 DEF Whole

\* The parts of a whole space are different frames of the heap.
LEMMA SpaceParts ==
    ASSUME NEW m, NEW chunk, Whole(m, chunk)
    PROVE  /\ {chunk, Directory(m, chunk)} \subseteq paging_free_4gb(m, chunk)
           /\ \A i \in Turns : TableOf(m, chunk, i) \in paging_free_4gb(m, chunk)
           /\ paging_free_4gb(m, chunk) \subseteq Pool
           /\ paging_free_4gb(m, chunk) \subseteq Frames
           /\ Cardinality(paging_free_4gb(m, chunk)) = DirEntries + 2
<1>1. {chunk, Directory(m, chunk)} \subseteq paging_free_4gb(m, chunk)
  BY DEF paging_free_4gb
<1>2. \A i \in Turns : TableOf(m, chunk, i) \in paging_free_4gb(m, chunk)
  BY DEF paging_free_4gb, TableOf
<1>3. paging_free_4gb(m, chunk) \subseteq Pool /\ paging_free_4gb(m, chunk) \subseteq Frames
  BY PoolIsFinite DEF Whole
<1>4. Cardinality(paging_free_4gb(m, chunk)) = DirEntries + 2
  <2> DEFINE T == {TableOf(m, chunk, i) : i \in Turns}
             table == [i \in Turns |-> TableOf(m, chunk, i)]
  <2>1. paging_free_4gb(m, chunk) = (T \cup {Directory(m, chunk)}) \cup {chunk}
    BY DEF paging_free_4gb, TableOf
  <2>2. table \in Bijection(Turns, T)
    <3>1. table \in [Turns -> T] /\ \A t \in T : \E i \in Turns : table[i] = t
      OBVIOUS
    <3>2. \A i, j \in Turns : table[i] = table[j] => i = j
      BY DEF Whole
    <3> HIDE DEF table, T
    <3> QED BY <3>1, <3>2 DEF Bijection, Injection, Surjection, IsInjective
  <2>3. IsFiniteSet(Turns) /\ Cardinality(Turns) = DirEntries
    BY Turning, FS_Interval DEF Turns
  <2>4. ExistsBijection(Turns, T)
    BY <2>2 DEF ExistsBijection
  <2> HIDE DEF T, table
  <2>5. IsFiniteSet(T) /\ Cardinality(T) = DirEntries
    BY <2>3, <2>4, FS_Bijection
  <2>6. Directory(m, chunk) \notin T /\ chunk \notin T \cup {Directory(m, chunk)}
    BY DEF Whole, T
  <2>7. /\ IsFiniteSet(T \cup {Directory(m, chunk)})
        /\ Cardinality(T \cup {Directory(m, chunk)}) = DirEntries + 1
    BY <2>5, <2>6, FS_AddElement
  <2>8. Cardinality((T \cup {Directory(m, chunk)}) \cup {chunk}) = (DirEntries + 1) + 1
    BY <2>6, <2>7, FS_AddElement
  <2> QED BY <2>1, <2>8, Turning
<1> QED BY <1>1, <1>2, <1>3, <1>4

\* paging_set writes one entry of one table of the space.
LEMMA SetWritesOneEntry ==
    ASSUME NEW m \in Memory, NEW chunk, Whole(m, chunk), NEW v \in VirtualPages, NEW val \in Word,
           NEW n, n = paging_set(m, Directory(m, chunk), v * PageSize, val)
    PROVE  /\ n \in Memory
           /\ \A f \in Frames, b \in Index :
                 f # TableOf(m, chunk, v \div Entries) \/ b # v % Entries => n[f][b] = m[f][b]
           /\ \A f \in Frames : f # TableOf(m, chunk, v \div Entries) => n[f] = m[f]
<1> DEFINE table == TableOf(m, chunk, v \div Entries)
<1>1. n = [m EXCEPT ![table][v % Entries] = val]
  BY PageAddress DEF paging_set, Table, TableOf
<1>2. table \in Frames /\ v % Entries \in Index
  BY Splitting, SpaceParts
<1> HIDE DEF table
<1>3. n \in Memory
  BY <1>1, <1>2 DEF Memory
<1>4. \A f \in Frames, b \in Index : f # table \/ b # v % Entries => n[f][b] = m[f][b]
  BY <1>1, <1>2 DEF Memory
<1>5. \A f \in Frames : f # table => n[f] = m[f]
  BY <1>1, <1>2 DEF Memory
<1> QED BY <1>3, <1>4, <1>5 DEF table

-----------------------------------------------------------------------------
(* The invariant *)

\* Before kernel_main has its page nothing else is there, and there is a page.
Booting ==
    /\ kernel = NULL => testFrame = NULL /\ free = Pool
    /\ kernel # NULL /\ testFrame = NULL => free # {}
    /\ testFrame = NULL =>
         /\ order = <<>> /\ task_head = NULL /\ pages = {} /\ wild = {}
         /\ processes = <<>> /\ leaked = {}
         /\ ~ failed /\ ~ misled /\ ~ undefined

\* A task is in the list once.
Once == \A i, j \in DOMAIN order : order[i] = order[j] => i = j

\* Free frames and page 0 hold nothing that could be taken for a pointer.
Blank == ~ misled => \A f \in free \cup {NULL} : mem[f] = [b \in Index |-> Zero]

\* Every space is whole and apart from all else; no two tasks share one and none
\* has the kernel's.
Apart ==
    ~ misled =>
      /\ \A c \in chunks : Whole(mem, c) /\ FramesOf(c) \cap (free \cup Held) = {}
      /\ \A c, d \in chunks : c # d => FramesOf(c) \cap FramesOf(d) = {}
      /\ \A s, t \in tasks : page_directory(mem, s) = page_directory(mem, t) => s = t
      /\ \A t \in tasks : page_directory(mem, t) # kernel

\* The list is exact, and only its first task may lack a predecessor.
Linked ==
    ~ misled => /\ ListIsExact
                /\ \A i \in DOMAIN order : i # 1 => prev(mem, order[i]) # NULL

IInv == /\ TypeOK /\ Booting /\ Once /\ Blank /\ Apart /\ Linked
        /\ FramesAccounted /\ ProcessesHaveTasks

-----------------------------------------------------------------------------
(* What the invariant says of the frames *)

Disjoint(A, B, C, D, E, F) ==
    /\ A \cap (B \cup C \cup D \cup E \cup F) = {}
    /\ B \cap (C \cup D \cup E \cup F) = {}
    /\ C \cap (D \cup E \cup F) = {}
    /\ D \cap (E \cup F) = {}
    /\ E \cap F = {}

testFrames == {testFrame} \ {NULL}

AccountsIn(heap, A, B, C, D, E, F, inSpaces) ==
    /\ Pool = heap \cup (A \cup B \cup C \cup D \cup E \cup F) \cup inSpaces
    /\ heap \cap (A \cup B \cup C \cup D \cup E \cup F) = {}
    /\ Disjoint(A, B, C, D, E, F)

\* The six holders, taken out of their sequence.
LEMMA SixHolders ==
    ASSUME NEW A, NEW B, NEW C, NEW D, NEW E, NEW F,
           NEW s, s = <<A, B, C, D, E, F>>
    PROVE  /\ UNION Range(s) = A \cup B \cup C \cup D \cup E \cup F
           /\ (\A i, j \in DOMAIN s : i # j => s[i] \cap s[j] = {})
                <=> Disjoint(A, B, C, D, E, F)
<1>1. /\ DOMAIN s = {1, 2, 3, 4, 5, 6}
      /\ s[1] = A /\ s[2] = B /\ s[3] = C /\ s[4] = D /\ s[5] = E /\ s[6] = F
  OBVIOUS
<1>2. Range(s) = {A, B, C, D, E, F}
  BY <1>1 DEF Range
<1>3. UNION Range(s) = A \cup B \cup C \cup D \cup E \cup F
  BY <1>2
<1>4. ASSUME \A i, j \in DOMAIN s : i # j => s[i] \cap s[j] = {}
      PROVE  Disjoint(A, B, C, D, E, F)
  <2>1. /\ A \cap B = {} /\ A \cap C = {} /\ A \cap D = {} /\ A \cap E = {} /\ A \cap F = {}
        /\ B \cap C = {} /\ B \cap D = {} /\ B \cap E = {} /\ B \cap F = {}
        /\ C \cap D = {} /\ C \cap E = {} /\ C \cap F = {}
        /\ D \cap E = {} /\ D \cap F = {} /\ E \cap F = {}
    BY <1>1, <1>4
  <2> QED BY <2>1 DEF Disjoint
<1>5. ASSUME Disjoint(A, B, C, D, E, F)
      PROVE  \A i, j \in DOMAIN s : i # j => s[i] \cap s[j] = {}
  <2>1. /\ A \cap B = {} /\ A \cap C = {} /\ A \cap D = {} /\ A \cap E = {} /\ A \cap F = {}
        /\ B \cap C = {} /\ B \cap D = {} /\ B \cap E = {} /\ B \cap F = {}
        /\ C \cap D = {} /\ C \cap E = {} /\ C \cap F = {}
        /\ D \cap E = {} /\ D \cap F = {} /\ E \cap F = {}
    BY <1>5 DEF Disjoint
  <2>2. \A i \in DOMAIN s, j \in DOMAIN s : i # j => s[i] \cap s[j] = {}
    BY <1>1, <2>1
  <2> QED BY <2>2
<1> QED BY <1>3, <1>4, <1>5

\* Who holds frames, before a step.
LEMMA HeldIs == Held = tasks \cup pages \cup testFrames \cup processBlocks \cup processStacks \cup leaked
BY SixHolders DEF Held, Holders, testFrames

\* FramesAccounted, without the sequence of holders.
LEMMA Accounting ==
    FramesAccounted <=>
      (~ misled =>
         /\ AccountsIn(free, tasks, pages, testFrames, processBlocks, processStacks, leaked,
                       UNION {FramesOf(c) : c \in chunks})
         /\ wild # {} => failed)
<1>1. (\A i, j \in DOMAIN Holders : i # j => Holders[i] \cap Holders[j] = {})
        <=> Disjoint(tasks, pages, testFrames, processBlocks, processStacks, leaked)
  BY SixHolders DEF Holders, testFrames
<1> QED BY <1>1, HeldIs DEF FramesAccounted, AccountsIn

\* Who holds frames, after a step.
LEMMA HeldIsNext ==
    Held' = tasks' \cup pages' \cup testFrames' \cup processBlocks' \cup processStacks' \cup leaked'
<1>1. (Held = tasks \cup pages \cup testFrames \cup processBlocks \cup processStacks \cup leaked)'
  BY HeldIs, PTL
<1> QED BY <1>1

\* FramesAccounted after a step, without the sequence of holders.
LEMMA AccountingNext ==
    FramesAccounted' <=>
      (~ misled' =>
         /\ AccountsIn(free', tasks', pages', testFrames', processBlocks', processStacks', leaked',
                       UNION {FramesOf(c)' : c \in chunks'})
         /\ wild' # {} => failed')
<1>1. (FramesAccounted <=>
         (~ misled =>
            /\ AccountsIn(free, tasks, pages, testFrames, processBlocks, processStacks, leaked,
                          UNION {FramesOf(c) : c \in chunks})
            /\ wild # {} => failed))'
  BY Accounting, PTL
<1> QED BY <1>1

\* While nothing was misled: the tasks are frames in use, the spaces consist of
\* frames that neither are free nor held otherwise, and page 0 is none of them.
LEMMA InUse ==
    ASSUME IInv, ~ misled
    PROVE  /\ mem \in Memory /\ free \in SUBSET Pool /\ order \in Seq(Pool)
           /\ tasks \subseteq Held /\ Held \subseteq Pool /\ free \cap Held = {}
           /\ Pool \subseteq Frames /\ NULL \notin Pool /\ NULL \in Frames
           /\ kernel # NULL => kernel \in chunks
           /\ \A t \in tasks : page_directory(mem, t) \in chunks
           /\ \A c \in chunks :
                 /\ Whole(mem, c)
                 /\ {c, Directory(mem, c)} \subseteq FramesOf(c)
                 /\ \A i \in Turns : TableOf(mem, c, i) \in FramesOf(c)
                 /\ FramesOf(c) \subseteq Pool
                 /\ FramesOf(c) \cap (free \cup Held) = {}
<1>1. mem \in Memory /\ free \in SUBSET Pool /\ order \in Seq(Pool)
  BY DEF IInv, TypeOK, Memory
<1>2. tasks \subseteq Held
  BY HeldIs
<1>3. Held \subseteq Pool /\ free \cap Held = {}
  BY DEF IInv, FramesAccounted
<1>4. /\ kernel # NULL => kernel \in chunks
      /\ \A t \in tasks : page_directory(mem, t) \in chunks
  BY DEF chunks
<1>5. \A c \in chunks : Whole(mem, c) /\ FramesOf(c) \cap (free \cup Held) = {}
  BY DEF IInv, Apart
<1>6. \A c \in chunks : /\ {c, Directory(mem, c)} \subseteq FramesOf(c)
                        /\ \A i \in Turns : TableOf(mem, c, i) \in FramesOf(c)
                        /\ FramesOf(c) \subseteq Pool
  BY <1>5, SpaceParts DEF FramesOf
<1> QED BY <1>1, <1>2, <1>3, <1>4, <1>5, <1>6, PoolIsFinite

\* The chunks of the tasks and of the kernel, before and after a step that leaves
\* the tasks, their chunks and the directories as they are.
LEMMA Unmoved ==
    ASSUME IInv, ~ misled, order' = order, kernel' = kernel,
           \A t \in tasks : page_directory(mem', t) = page_directory(mem, t),
           \A c \in chunks : /\ mem'[c] = mem[c]
                             /\ mem'[Directory(mem, c)] = mem[Directory(mem, c)]
    PROVE  /\ tasks' = tasks /\ chunks' = chunks
           /\ \A c \in chunks : /\ FramesOf(c)' = FramesOf(c)
                                /\ Directory(mem', c) = Directory(mem, c)
                                /\ \A i \in Turns : TableOf(mem', c, i) = TableOf(mem, c, i)
           /\ UNION {FramesOf(c)' : c \in chunks'} = UNION {FramesOf(c) : c \in chunks}
           /\ free' \cup Held' \subseteq free \cup Held => Apart'
<1>1. tasks' = tasks
  BY DEF tasks
<1>2. chunks' = chunks
  BY <1>1 DEF chunks
<1>3. ASSUME NEW c \in chunks
      PROVE  /\ FramesOf(c)' = FramesOf(c) /\ Whole(mem', c)
             /\ Directory(mem', c) = Directory(mem, c)
             /\ \A i \in Turns : TableOf(mem', c, i) = TableOf(mem, c, i)
  BY InUse, SpaceKept DEF FramesOf
<1>4. UNION {FramesOf(c)' : c \in chunks'} = UNION {FramesOf(c) : c \in chunks}
  BY <1>2, <1>3
<1>5. ASSUME free' \cup Held' \subseteq free \cup Held PROVE Apart'
  <2>1. /\ \A c \in chunks : FramesOf(c) \cap (free \cup Held) = {}
        /\ \A c, d \in chunks : c # d => FramesOf(c) \cap FramesOf(d) = {}
        /\ \A s, t \in tasks : page_directory(mem, s) = page_directory(mem, t) => s = t
        /\ \A t \in tasks : page_directory(mem, t) # kernel
    BY DEF IInv, Apart
  <2>2. \A c \in chunks' : Whole(mem', c) /\ FramesOf(c)' \cap (free' \cup Held') = {}
    BY <1>2, <1>3, <1>5, <2>1
  <2>3. \A c, d \in chunks' : c # d => FramesOf(c)' \cap FramesOf(d)' = {}
    BY <1>2, <1>3, <2>1
  <2>4. /\ \A s, t \in tasks' : page_directory(mem', s) = page_directory(mem', t) => s = t
        /\ \A t \in tasks' : page_directory(mem', t) # kernel'
    BY <1>1, <2>1
  <2> QED BY <2>2, <2>3, <2>4 DEF Apart
<1> QED BY <1>1, <1>2, <1>3, <1>4, <1>5

\* The tasks of the list are those of the order.
LEMMA ListedTasks ==
    ASSUME TypeOK
    PROVE  /\ Len(order) \in Nat /\ DOMAIN order = 1..Len(order)
           /\ \A i \in DOMAIN order : order[i] \in tasks
           /\ \A t \in tasks : \E i \in DOMAIN order : order[i] = t
           /\ order = <<>> <=> tasks = {}
           /\ order # <<>> => /\ Len(order) \in DOMAIN order /\ 1 \in DOMAIN order
                              /\ Last(order) = order[Len(order)] /\ Head(order) = order[1]
                              /\ Last(order) \in tasks
<1>1. order \in Seq(Pool)
  BY DEF TypeOK
<1>2. Len(order) \in Nat /\ DOMAIN order = 1..Len(order)
  BY <1>1
<1>3. /\ \A i \in DOMAIN order : order[i] \in tasks
      /\ \A t \in tasks : \E i \in DOMAIN order : order[i] = t
  BY DEF tasks, Range
<1>4. order # <<>> => /\ Len(order) \in DOMAIN order /\ 1 \in DOMAIN order
                      /\ Last(order) = order[Len(order)] /\ Head(order) = order[1]
  BY <1>1 DEF Last
<1>5. order = <<>> => tasks = {}
  BY <1>1, <1>2, <1>3
<1> QED BY <1>2, <1>3, <1>4, <1>5

\* The list stays exact in a step that writes no task.
LEMMA LinksKept ==
    ASSUME IInv, ~ misled, order' = order, task_head' = task_head,
           order # <<>> => task_tail' = task_tail,
           \A t \in tasks : mem'[t] = mem[t]
    PROVE  Linked'
<1>1. ListIsExact /\ \A i \in DOMAIN order : i # 1 => prev(mem, order[i]) # NULL
  BY DEF IInv, Linked
<1>2. \A i \in DOMAIN order : /\ next(mem', order[i]) = next(mem, order[i])
                              /\ prev(mem', order[i]) = prev(mem, order[i])
  BY ListedTasks DEF IInv, next, prev
<1>3. ListIsExact'
  BY <1>1, <1>2 DEF ListIsExact
<1> QED BY <1>1, <1>2, <1>3 DEF Linked

\* Processes keep their blocks and their tasks as long as neither are freed.
LEMMA ProcessesKept ==
    ASSUME IInv, processes' = processes, free' \in SUBSET Pool,
           free' \cap (processBlocks \cup processStacks) = {},
           Owned \cap tasks \subseteq tasks', failed => failed'
    PROVE  ProcessesHaveTasks'
<1>1. ASSUME NEW slot \in DOMAIN processes
      PROVE  /\ MemoryOf(slot) \cap free' = {}
             /\ processes[slot].task \in tasks' \/ (processes[slot].task = ERROR /\ failed')
  <2>1. Pool \cap MemoryOf(slot) \subseteq processBlocks \cup processStacks
    BY DEF processBlocks, processStacks, MemoryOf
  <2>2. processes[slot].task \in tasks \/ (processes[slot].task = ERROR /\ failed)
    BY DEF IInv, ProcessesHaveTasks
  <2>3. processes[slot].task \in Owned
    BY DEF Owned
  <2> QED BY <2>1, <2>2, <2>3
<1>2. \A slot : MemoryOf(slot)' = MemoryOf(slot)
  BY DEF MemoryOf
<1> QED BY <1>1, <1>2 DEF IInv, ProcessesHaveTasks

-----------------------------------------------------------------------------
(* The kernel's space and page *)

\* The pool has room for the kernel's space and one page.
LEMMA KernelSpace ==
    ASSUME IInv, kernel_main_new
    PROVE  /\ mem \in Memory /\ free = Pool /\ chunks = {}
           /\ kernel' = ChunkAsked(Pool) /\ kernel' \in Pool
           /\ Taken(Pool) \subseteq Pool /\ free' = Pool \ Taken(Pool) /\ free' # {}
           /\ mem' \in Memory
           /\ \A f \in Frames \ Taken(Pool) : mem'[f] = mem[f]
           /\ Whole(mem', kernel') /\ paging_free_4gb(mem', kernel') = Taken(Pool)
           /\ \A i \in Turns, b \in Index :
                 mem'[TableOf(mem', kernel', i)][b] = TableEntry(i, b, KernelFlags)
<1>1. mem \in Memory /\ kernel = NULL /\ free = Pool /\ order = <<>>
  BY DEF IInv, TypeOK, Booting, kernel_main_new, Memory
<1>2. chunks = {}
  BY <1>1, ListedTasks DEF chunks, IInv
<1>3. /\ kernel' = ChunkAsked(Pool) /\ free' = Pool \ Taken(Pool)
      /\ mem' = paging_new_4gb(Pool, mem, KernelFlags)
  BY <1>1 DEF kernel_main_new
<1>4. KernelFlags \in SUBSET Flags
  BY DEF KernelFlags, Flags
<1>5. mem' \in Memory /\ \A f \in Frames \ (Taken(Pool) \cup {NULL}) : mem'[f] = mem[f]
  BY <1>1, <1>3, <1>4, NewSpaceWritten
<1>6. DirEntries \in Nat /\ Cardinality(Pool) \in Nat /\ Cardinality(Pool) > DirEntries + 2
  BY Turning, PoolIsFinite, PagingAssumption
<1>7. ChunkAsked(Pool) # NULL
  <2>1. DirEntries + 1 \in Nat /\ DirEntries + 1 < Cardinality(Pool)
    BY <1>6
  <2> QED BY <2>1, RequestsDiffer DEF ChunkAsked
<1>8. kernel' \in Pool
  BY <1>3, <1>7, Answers
<1>9. mem'[NULL] = mem[NULL]
  BY <1>1, <1>3, <1>4, <1>7, NewSpaceWritten
<1>10. /\ Whole(mem', kernel') /\ paging_free_4gb(mem', kernel') = Taken(Pool)
       /\ \A i \in Turns, b \in Index :
                 mem'[TableOf(mem', kernel', i)][b] = TableEntry(i, b, KernelFlags)
  BY <1>1, <1>3, <1>4, <1>5, <1>7, NewSpaceIsWhole
<1>11. Taken(Pool) \subseteq Pool
  BY Answers
<1>12. free' # {}
  <2> DEFINE spare == Request(Pool, DirEntries + 2)
  <2>1. DirEntries + 2 \in Nat /\ DirEntries + 2 < Cardinality(Pool)
    BY <1>6
  <2>2. spare # NULL /\ spare \in Pool
    BY <2>1, RequestsDiffer
  <2>3. \A k \in 0..(DirEntries + 1) : k \in Nat /\ k # DirEntries + 2
    BY <1>6
  <2>4. \A k \in 0..(DirEntries + 1) : Request(Pool, k) # spare
    BY <2>1, <2>2, <2>3, RequestsDiffer
  <2>5. spare \notin Taken(Pool)
    BY <2>4 DEF Taken
  <2> QED BY <1>3, <2>2, <2>5
<1> QED BY <1>1, <1>2, <1>3, <1>5, <1>8, <1>9, <1>10, <1>11, <1>12

\* The kernel's space is made.
LEMMA KernelSpaceKeepsIInv ==
    ASSUME IInv, kernel_main_new, UNCHANGED <<taskVars, processes, leaked>>
    PROVE  IInv'
<1>1. /\ kernel = NULL /\ UNCHANGED <<pages, testFrame, wild, taskVars, processes, leaked>>
  BY DEF kernel_main_new
<1>2. /\ testFrame = NULL /\ order = <<>> /\ task_head = NULL /\ pages = {} /\ wild = {}
      /\ processes = <<>> /\ leaked = {}
      /\ ~ failed /\ ~ misled /\ ~ undefined
  BY <1>1 DEF IInv, Booting
<1>3. TypeOK'
  BY <1>1, KernelSpace, PoolIsFinite DEF IInv, TypeOK, taskVars, Memory
<1>4. Booting'
  BY <1>1, <1>2, KernelSpace, PoolIsFinite DEF Booting, taskVars
<1>5. Once'
  BY <1>1 DEF IInv, Once, taskVars
<1>6. tasks' = {} /\ chunks' = {kernel'} /\ tasks = {}
  <2>1. tasks = {} /\ tasks' = {}
    BY <1>1, <1>2 DEF tasks, taskVars, Range
  <2> QED BY <2>1, KernelSpace, PoolIsFinite DEF chunks
<1>7. ASSUME NEW c \in chunks'
      PROVE  FramesOf(c)' = Taken(Pool) /\ Whole(mem', c)
  <2>1. c = kernel'
    BY <1>6
  <2>2. FramesOf(c)' = paging_free_4gb(mem', c)
    BY DEF FramesOf
  <2> QED BY <2>1, <2>2, KernelSpace
<1>8. Blank'
  BY <1>1, <1>2, KernelSpace, PoolIsFinite DEF IInv, Blank, taskVars
<1>9. /\ pages' = {} /\ testFrames' = {} /\ processBlocks' = {} /\ processStacks' = {}
      /\ leaked' = {}
  BY <1>1, <1>2 DEF testFrames, processBlocks, processStacks
<1>10. Held' = {}
  BY <1>6, <1>9, HeldIsNext
<1>11. Apart'
  BY <1>6, <1>7, <1>10, KernelSpace DEF Apart
<1>12. Linked'
  BY <1>1, <1>2 DEF Linked, ListIsExact, taskVars
<1>13. UNION {FramesOf(c)' : c \in chunks'} = Taken(Pool)
  BY <1>6, <1>7
<1>14. FramesAccounted'
  BY <1>1, <1>2, <1>6, <1>9, <1>13, KernelSpace, AccountingNext DEF AccountsIn, Disjoint
<1>15. ProcessesHaveTasks'
  BY <1>1, <1>2 DEF ProcessesHaveTasks
<1> QED BY <1>3, <1>4, <1>5, <1>8, <1>11, <1>12, <1>14, <1>15 DEF IInv

\* A mapping in a space leaves alone what makes the spaces, the tasks and what is
\* free.
LEMMA Mapped ==
    ASSUME IInv, ~ misled, NEW c \in chunks, NEW v \in VirtualPages, NEW val \in Word,
           mem' = paging_set(mem, Directory(mem, c), v * PageSize, val)
    PROVE  /\ mem' \in Memory
           /\ \A f \in Frames \ FramesOf(c) : mem'[f] = mem[f]
           /\ \A d \in chunks : /\ mem'[d] = mem[d]
                                /\ mem'[Directory(mem, d)] = mem[Directory(mem, d)]
           /\ \A t \in tasks : mem'[t] = mem[t]
           /\ \A f \in free \cup {NULL} : mem'[f] = mem[f]
           /\ \A f \in Frames, b \in Index :
                 f # TableOf(mem, c, v \div Entries) \/ b # v % Entries => mem'[f][b] = mem[f][b]
<1> DEFINE table == TableOf(mem, c, v \div Entries)
<1>1. mem \in Memory /\ Whole(mem, c)
  BY InUse
<1>2. /\ mem' \in Memory
      /\ \A f \in Frames, b \in Index : f # table \/ b # v % Entries => mem'[f][b] = mem[f][b]
      /\ \A f \in Frames : f # table => mem'[f] = mem[f]
  BY <1>1, SetWritesOneEntry
<1>3. v \div Entries \in Turns
  BY Splitting
<1>4. table \in FramesOf(c) /\ table # c /\ table # Directory(mem, c)
  BY <1>1, <1>3, InUse DEF Whole
<1> HIDE DEF table
<1>5. \A f \in Frames \ FramesOf(c) : mem'[f] = mem[f]
  BY <1>2, <1>4
<1>6. ASSUME NEW d \in chunks
      PROVE  mem'[d] = mem[d] /\ mem'[Directory(mem, d)] = mem[Directory(mem, d)]
  <2>1. {d, Directory(mem, d)} \subseteq FramesOf(d) /\ FramesOf(d) \subseteq Frames
    BY InUse
  <2>2. d # c => FramesOf(d) \cap FramesOf(c) = {}
    BY DEF IInv, Apart
  <2> QED BY <1>2, <1>4, <2>1, <2>2
<1>7. \A f \in tasks \cup free \cup {NULL} : f \in Frames \ FramesOf(c)
  BY InUse
<1> QED BY <1>2, <1>5, <1>6, <1>7 DEF table

\* The kernel's page is mapped.
LEMMA KernelPageKeepsIInv ==
    ASSUME IInv, kernel_main_set, ~ misled, UNCHANGED <<taskVars, processes, leaked>>
    PROVE  IInv'
<1>1. /\ kernel # NULL /\ testFrame = NULL /\ free # {}
      /\ UNCHANGED <<pages, kernel, wild, taskVars, processes, leaked>>
  BY DEF kernel_main_set, IInv, Booting
<1>2. /\ order = <<>> /\ task_head = NULL /\ pages = {} /\ wild = {}
      /\ processes = <<>> /\ leaked = {} /\ ~ failed /\ ~ misled /\ ~ undefined
  BY <1>1 DEF IInv, Booting
<1>3. free \in SUBSET Pool /\ free \subseteq Frames /\ NULL \notin free
  BY InUse
<1>4. testFrame' \in free /\ testFrame' # NULL
  <2>1. IsFiniteSet(free) /\ Cardinality(free) \in Nat /\ Cardinality(free) # 0
    BY <1>1, <1>3, PoolIsFinite, FS_EmptySet
  <2>2. 0 < Cardinality(free)
    BY <2>1
  <2>3. testFrame' = Request(free, 0)
    BY DEF kernel_main_set
  <2> QED BY <1>3, <2>2, <2>3, RequestsDiffer
<1>5. free' = free \ {testFrame'}
  BY DEF kernel_main_set
<1>6. PICK v \in VirtualPages : TestPage = v * PageSize
  BY PagingAssumption
<1>7. [frame |-> testFrame', flags |-> KernelFlags] \in Word
  BY <1>3, <1>4 DEF Word, KernelFlags, Flags
<1>8. mem' = paging_set(mem, Directory(mem, kernel), v * PageSize,
                        [frame |-> testFrame', flags |-> KernelFlags])
  BY <1>6 DEF kernel_main_set
<1>9. kernel \in chunks
  BY <1>1, InUse
<1>10. /\ mem' \in Memory
       /\ \A d \in chunks : /\ mem'[d] = mem[d]
                            /\ mem'[Directory(mem, d)] = mem[Directory(mem, d)]
       /\ \A t \in tasks : mem'[t] = mem[t]
       /\ \A f \in free \cup {NULL} : mem'[f] = mem[f]
  BY <1>7, <1>8, <1>9, Mapped
<1>11. order' = order /\ kernel' = kernel
  BY <1>1 DEF taskVars
<1>12. \A t \in tasks : page_directory(mem', t) = page_directory(mem, t)
  BY <1>10 DEF page_directory
<1>13. /\ tasks' = tasks
       /\ UNION {FramesOf(c)' : c \in chunks'} = UNION {FramesOf(c) : c \in chunks}
       /\ free' \cup Held' \subseteq free \cup Held => Apart'
  BY <1>10, <1>11, <1>12, Unmoved
<1>14. /\ pages' = pages /\ processBlocks' = processBlocks /\ processStacks' = processStacks
       /\ leaked' = leaked /\ testFrames = {} /\ testFrames' = {testFrame'}
  BY <1>1, <1>4 DEF testFrames, processBlocks, processStacks
<1>15. Apart'
  <2>1. free' \cup Held' \subseteq free \cup Held
    BY <1>4, <1>5, <1>13, <1>14, HeldIs, HeldIsNext
  <2> QED BY <1>13, <2>1
<1>16. FramesAccounted'
  <2>1. /\ AccountsIn(free, tasks, pages, testFrames, processBlocks, processStacks, leaked,
                      UNION {FramesOf(c) : c \in chunks})
        /\ wild # {} => failed
    BY <1>2, Accounting DEF IInv
  <2>2. AccountsIn(free', tasks', pages', testFrames', processBlocks', processStacks', leaked',
                   UNION {FramesOf(c) : c \in chunks})
    BY <1>4, <1>5, <1>13, <1>14, <2>1 DEF AccountsIn, Disjoint
  <2> QED BY <1>1, <1>2, <1>13, <2>2, AccountingNext
<1>17. TypeOK'
  BY <1>1, <1>3, <1>4, <1>5, <1>10 DEF IInv, TypeOK, taskVars, Memory
<1>18. Booting'
  BY <1>1, <1>4 DEF Booting
<1>19. Once' /\ Linked'
  BY <1>1, <1>2 DEF IInv, Once, Linked, ListIsExact, taskVars
<1>20. Blank'
  BY <1>2, <1>5, <1>10 DEF IInv, Blank
<1>21. ProcessesHaveTasks'
  BY <1>1, <1>2 DEF ProcessesHaveTasks
<1> QED BY <1>15, <1>16, <1>17, <1>18, <1>19, <1>20, <1>21 DEF IInv

-----------------------------------------------------------------------------
(* Mapping an image, and other pages of the kernel *)

\* process_map_binary maps nothing or one page of the task's space.
LEMMA BinaryMaps ==
    ASSUME IInv, NEW task \in tasks, NEW p \in pages, NEW size \in BinarySizes,
           process_map_binary(task, p * PageSize, size)
    PROVE  /\ page_directory(mem, task) \in chunks /\ ~ misled
           /\ UNCHANGED <<free, pages, kernel, testFrame, wild, taskVars, processes, leaked>>
           /\ \/ mem' = mem
              \/ \E v \in VirtualPages, val \in Word :
                    mem' = paging_set(mem, Directory(mem, page_directory(mem, task)),
                                      v * PageSize, val)
<1> DEFINE directory == Directory(mem, page_directory(mem, task))
           last == paging_align_address(p * PageSize + size)
           val == [frame |-> p, flags |-> {"P", "U", "W"}]
<1>1. ~ misled /\ UNCHANGED <<free, pages, kernel, testFrame, wild, taskVars, processes, leaked>>
  BY DEF process_map_binary, Running
<1>2. page_directory(mem, task) \in chunks
  BY DEF chunks
<1>3. p \in VirtualPages
  BY PoolIsFinite DEF IInv, TypeOK, Frames
<1>4. (p * PageSize) \div PageSize = p
  BY <1>3, PageAddress
<1>5. val \in Word
  BY <1>3 DEF Word, Flags, Frames
<1>6. PICK v \in VirtualPages : Program = v * PageSize
  BY ProcessesAssumption
<1>7. mem' = paging_map_to(mem, directory, Program, p * PageSize, last, {"P", "U", "W"})
  BY DEF process_map_binary
<1>8. mem' = mem \/ mem' = paging_set(mem, directory, v * PageSize, val)
  <2> HIDE DEF directory, last
  <2> QED BY <1>4, <1>6, <1>7 DEF paging_map_to
<1> QED BY <1>1, <1>2, <1>5, <1>8

\* An image is mapped in a task's space.
LEMMA BinaryKeepsIInv ==
    ASSUME IInv, NEW task \in tasks, NEW p \in pages, NEW size \in BinarySizes,
           process_map_binary(task, p * PageSize, size)
    PROVE  IInv'
<1>1. ~ misled /\ UNCHANGED <<free, pages, kernel, testFrame, wild, taskVars, processes, leaked>>
  BY BinaryMaps
<1>2. /\ mem' \in Memory
      /\ \A d \in chunks : /\ mem'[d] = mem[d]
                           /\ mem'[Directory(mem, d)] = mem[Directory(mem, d)]
      /\ \A t \in tasks : mem'[t] = mem[t]
      /\ \A f \in free \cup {NULL} : mem'[f] = mem[f]
  <2>1. CASE mem' = mem
    BY <1>1, <2>1, InUse
  <2>2. ASSUME NEW v \in VirtualPages, NEW val \in Word,
               mem' = paging_set(mem, Directory(mem, page_directory(mem, task)), v * PageSize, val)
        PROVE  <1>2!1 /\ <1>2!2 /\ <1>2!3 /\ <1>2!4
    BY <1>1, <2>2, BinaryMaps, Mapped
  <2> QED BY <2>1, <2>2, BinaryMaps
<1>3. order' = order /\ kernel' = kernel /\ misled' = misled /\ task_head' = task_head
      /\ task_tail' = task_tail /\ failed' = failed
  BY <1>1 DEF taskVars
<1>4. \A t \in tasks : page_directory(mem', t) = page_directory(mem, t)
  BY <1>2 DEF page_directory
<1>5. /\ tasks' = tasks
      /\ UNION {FramesOf(c)' : c \in chunks'} = UNION {FramesOf(c) : c \in chunks}
      /\ free' \cup Held' \subseteq free \cup Held => Apart'
  BY <1>1, <1>2, <1>3, <1>4, Unmoved
<1>6. /\ pages' = pages /\ processBlocks' = processBlocks /\ processStacks' = processStacks
      /\ leaked' = leaked /\ testFrames' = testFrames
  BY <1>1 DEF testFrames, processBlocks, processStacks
<1>7. Apart'
  BY <1>1, <1>5, <1>6, HeldIs, HeldIsNext
<1>8. FramesAccounted'
  BY <1>1, <1>3, <1>5, <1>6, Accounting, AccountingNext DEF IInv
<1>9. TypeOK' /\ Booting'
  BY <1>1, <1>2 DEF IInv, TypeOK, Booting, taskVars, Memory
<1>10. Once' /\ Blank'
  BY <1>1, <1>2, <1>3 DEF IInv, Once, Blank
<1>11. Linked'
  BY <1>1, <1>2, <1>3, LinksKept
<1>12. ProcessesHaveTasks'
  <2>1. processes' = processes /\ free' = free
    BY <1>1
  <2>2. free \cap (processBlocks \cup processStacks) = {}
    BY <1>1, InUse, HeldIs
  <2>3. free' \in SUBSET Pool
    BY <2>1 DEF IInv, TypeOK
  <2> QED BY <1>3, <1>5, <2>1, <2>2, <2>3, ProcessesKept
<1> QED BY <1>7, <1>8, <1>9, <1>10, <1>11, <1>12 DEF IInv

\* A page of the heap goes to another user in the kernel.
LEMMA AllocatedPageKeepsIInv ==
    ASSUME IInv, kzalloc_page, ~ misled, UNCHANGED <<taskVars, processes, leaked>>
    PROVE  IInv'
<1>1. /\ testFrame # NULL /\ Request(free, 0) # NULL
      /\ pages' = pages \cup {Request(free, 0)} /\ free' = free \ {Request(free, 0)}
      /\ UNCHANGED <<mem, kernel, testFrame, wild, taskVars, processes, leaked>>
  BY DEF kzalloc_page
<1>2. free \in SUBSET Pool
  BY InUse
<1> DEFINE page == Request(free, 0)
<1>3. page \in free
  BY <1>1, <1>2, RequestsDiffer
<1>4. order' = order /\ kernel' = kernel /\ misled' = misled /\ task_head' = task_head
      /\ task_tail' = task_tail /\ failed' = failed /\ undefined' = undefined
  BY <1>1 DEF taskVars
<1>5. /\ tasks' = tasks
      /\ UNION {FramesOf(c)' : c \in chunks'} = UNION {FramesOf(c) : c \in chunks}
      /\ free' \cup Held' \subseteq free \cup Held => Apart'
  BY <1>1, <1>4, Unmoved
<1>6. /\ processBlocks' = processBlocks /\ processStacks' = processStacks
      /\ leaked' = leaked /\ testFrames' = testFrames
  BY <1>1 DEF testFrames, processBlocks, processStacks
<1>7. Apart'
  <2>1. free' \cup Held' \subseteq free \cup Held
    BY <1>1, <1>3, <1>5, <1>6, HeldIs, HeldIsNext
  <2> QED BY <1>5, <2>1
<1> HIDE DEF page
<1>8. FramesAccounted'
  <2>1. /\ AccountsIn(free, tasks, pages, testFrames, processBlocks, processStacks, leaked,
                      UNION {FramesOf(c) : c \in chunks})
        /\ wild # {} => failed
    BY Accounting DEF IInv
  <2>2. free' = free \ {page} /\ pages' = pages \cup {page}
    BY <1>1 DEF page
  <2>3. AccountsIn(free', tasks', pages', testFrames', processBlocks', processStacks', leaked',
                   UNION {FramesOf(c) : c \in chunks})
    BY <1>3, <1>5, <1>6, <2>1, <2>2 DEF AccountsIn, Disjoint
  <2> QED BY <1>1, <1>4, <1>5, <2>1, <2>3, AccountingNext
<1>9. TypeOK'
  BY <1>1, <1>2, <1>3, <1>4 DEF IInv, TypeOK, page
<1>10. Booting'
  BY <1>1, <1>4 DEF IInv, Booting
<1>11. Once' /\ Blank'
  BY <1>1, <1>4 DEF IInv, Once, Blank
<1>12. Linked'
  BY <1>1, <1>4, LinksKept
<1>13. ProcessesHaveTasks'
  <2>1. free \cap (processBlocks \cup processStacks) = {}
    BY InUse, HeldIs
  <2>2. free' \in SUBSET Pool /\ free' \subseteq free
    BY <1>1, <1>2
  <2> QED BY <1>1, <1>4, <1>5, <2>1, <2>2, ProcessesKept
<1> QED BY <1>7, <1>8, <1>9, <1>10, <1>11, <1>12, <1>13 DEF IInv

\* What kfree frees holds nothing, and all other memory stays.
LEMMA Freeing ==
    ASSUME NEW m \in Memory, NEW heap \in SUBSET Pool, NEW S, kfree(heap, m, S)
    PROVE  /\ free' = heap \cup (S \cap Pool) /\ free' \in SUBSET Pool
           /\ wild' = wild \cup (S \ Pool)
           /\ mem' \in Memory
           /\ \A f \in free' \cup {NULL} : mem'[f] = [b \in Index |-> Zero]
           /\ \A f \in Frames : f \notin free' \cup {NULL} => mem'[f] = m[f]
<1>1. /\ free' = heap \cup (S \cap Pool) /\ free' \in SUBSET Pool
      /\ wild' = wild \cup (S \ Pool)
      /\ mem' = [f \in Frames |-> IF f \in free' \cup {NULL} THEN [b \in Index |-> Zero]
                                  ELSE m[f]]
  BY DEF kfree
<1>2. Zero \in Word
  BY PoolIsFinite DEF Zero, Word
<1>3. mem' \in Memory
  BY <1>1, <1>2 DEF Memory
<1>4. free' \cup {NULL} \subseteq Frames
  BY <1>1, PoolIsFinite
<1> QED BY <1>1, <1>3, <1>4

\* A page is given back by whoever had it.
LEMMA FreedPageKeepsIInv ==
    ASSUME IInv, NEW p \in pages, kfree_page(p), ~ misled, UNCHANGED <<taskVars, processes, leaked>>
    PROVE  IInv'
<1>1. /\ testFrame # NULL /\ kfree(free, mem, {p}) /\ pages' = pages \ {p}
      /\ UNCHANGED <<kernel, testFrame, taskVars, processes, leaked>>
  BY DEF kfree_page
<1>2. p \in Held /\ p \in Pool
  BY HeldIs, InUse
<1>3. /\ free' = free \cup {p} /\ free' \in SUBSET Pool /\ wild' = wild
      /\ mem' \in Memory
      /\ \A f \in free' \cup {NULL} : mem'[f] = [b \in Index |-> Zero]
      /\ \A f \in Frames : f \notin free' \cup {NULL} => mem'[f] = mem[f]
  <2>1. mem \in Memory /\ free \in SUBSET Pool
    BY InUse
  <2>2. free \cup ({p} \cap Pool) = free \cup {p} /\ wild \cup ({p} \ Pool) = wild
    BY <1>2
  <2>3. kfree(free, mem, {p})
    BY <1>1
  <2>4. /\ free' = free \cup ({p} \cap Pool) /\ free' \in SUBSET Pool
        /\ wild' = wild \cup ({p} \ Pool)
        /\ mem' \in Memory
        /\ \A f \in free' \cup {NULL} : mem'[f] = [b \in Index |-> Zero]
        /\ \A f \in Frames : f \notin free' \cup {NULL} => mem'[f] = mem[f]
    BY <2>1, <2>3, Freeing
  <2> QED BY <2>2, <2>4
<1>4. order' = order /\ kernel' = kernel /\ misled' = misled /\ task_head' = task_head
      /\ task_tail' = task_tail /\ failed' = failed /\ undefined' = undefined
  BY <1>1 DEF taskVars
<1>5. /\ AccountsIn(free, tasks, pages, testFrames, processBlocks, processStacks, leaked,
                    UNION {FramesOf(c) : c \in chunks})
      /\ wild # {} => failed
  BY Accounting DEF IInv
<1>6. \A t \in tasks : mem'[t] = mem[t]
  <2>1. \A t \in tasks : t \in Frames /\ t \notin free' \cup {NULL}
    BY <1>2, <1>3, <1>5, InUse DEF AccountsIn, Disjoint
  <2> QED BY <1>3, <2>1
<1>7. \A d \in chunks : /\ mem'[d] = mem[d]
                        /\ mem'[Directory(mem, d)] = mem[Directory(mem, d)]
  <2>1. \A d \in chunks : \A f \in FramesOf(d) : f \in Frames /\ f \notin free' \cup {NULL}
    BY <1>2, <1>3, InUse
  <2> QED BY <1>3, <2>1, InUse
<1>8. \A t \in tasks : page_directory(mem', t) = page_directory(mem, t)
  BY <1>6 DEF page_directory
<1>9. /\ tasks' = tasks
      /\ UNION {FramesOf(c)' : c \in chunks'} = UNION {FramesOf(c) : c \in chunks}
      /\ free' \cup Held' \subseteq free \cup Held => Apart'
  BY <1>4, <1>7, <1>8, Unmoved
<1>10. /\ processBlocks' = processBlocks /\ processStacks' = processStacks
       /\ leaked' = leaked /\ testFrames' = testFrames
  BY <1>1 DEF testFrames, processBlocks, processStacks
<1>11. Apart'
  <2>1. free' \cup Held' \subseteq free \cup Held
    BY <1>1, <1>2, <1>3, <1>9, <1>10, HeldIs, HeldIsNext
  <2> QED BY <1>9, <2>1
<1>12. FramesAccounted'
  <2>1. AccountsIn(free', tasks', pages', testFrames', processBlocks', processStacks', leaked',
                   UNION {FramesOf(c) : c \in chunks})
    BY <1>1, <1>3, <1>5, <1>9, <1>10 DEF AccountsIn, Disjoint
  <2> QED BY <1>3, <1>4, <1>5, <1>9, <2>1, AccountingNext
<1>13. TypeOK' /\ Booting'
  BY <1>1, <1>3, <1>4 DEF IInv, TypeOK, Booting, Memory
<1>14. Once' /\ Blank'
  BY <1>3, <1>4 DEF IInv, Once, Blank
<1>15. Linked'
  BY <1>4, <1>6, LinksKept
<1>16. ProcessesHaveTasks'
  <2>1. free' \cap (processBlocks \cup processStacks) = {}
    BY <1>3, <1>5 DEF AccountsIn, Disjoint
  <2> QED BY <1>1, <1>3, <1>4, <1>9, <2>1, ProcessesKept
<1> QED BY <1>11, <1>12, <1>13, <1>14, <1>15, <1>16 DEF IInv

-----------------------------------------------------------------------------
(* Making a task *)

Rest(heap) == heap \ {Request(heap, 0)}

\* Memory once task_new has its block and has asked for a space.
Written(heap) == [paging_new_4gb(Rest(heap), mem, TaskFlags)
                    EXCEPT ![Request(heap, 0)][0] = Pointer(ChunkAsked(Rest(heap)))]

\* The words of a task are different words.
LEMMA TaskWords == /\ {0, NextWord, PrevWord} \subseteq Index
                   /\ NextWord # 0 /\ PrevWord # 0 /\ NextWord # PrevWord
<1>1. Entries \in Nat /\ 0 \in Index
  BY Turning
<1>2. \A w \in 1..(Entries - 1) : w \in 0..(Entries - 1) /\ w # 0
  BY <1>1
<1> QED BY <1>1, <1>2, TasksAssumption DEF Index

\* What task_new has written then.
LEMMA BlockWritten ==
    ASSUME IInv, ~ misled, NEW heap \in SUBSET free, Request(heap, 0) # NULL
    PROVE  /\ Request(heap, 0) \in heap /\ Request(heap, 0) \notin Rest(heap)
           /\ Rest(heap) \in SUBSET Pool /\ Taken(Rest(heap)) \subseteq Rest(heap)
           /\ paging_new_4gb(Rest(heap), mem, TaskFlags) \in Memory
           /\ Written(heap) \in Memory
           /\ \A f \in Frames \ (Taken(Rest(heap)) \cup {Request(heap, 0), NULL}) :
                 Written(heap)[f] = mem[f]
           /\ \A f \in Taken(Rest(heap)) \cup {NULL} :
                 Written(heap)[f] = paging_new_4gb(Rest(heap), mem, TaskFlags)[f]
           /\ ChunkAsked(Rest(heap)) # NULL => Written(heap)[NULL] = mem[NULL]
           /\ Written(heap)[Request(heap, 0)][0] = Pointer(ChunkAsked(Rest(heap)))
           /\ \A b \in Index \ {0} : Written(heap)[Request(heap, 0)][b] = Zero
<1> DEFINE task == Request(heap, 0)
           n == paging_new_4gb(Rest(heap), mem, TaskFlags)
           chunk == ChunkAsked(Rest(heap))
<1>1. mem \in Memory /\ free \in SUBSET Pool /\ heap \in SUBSET Pool /\ NULL \notin Pool
      /\ Pool \subseteq Frames /\ NULL \in Frames
  BY InUse
<1>2. task \in heap /\ task \notin Rest(heap) /\ Rest(heap) \in SUBSET Pool
  BY <1>1, RequestsDiffer DEF Rest
<1>3. Taken(Rest(heap)) \subseteq Rest(heap) /\ chunk \in Rest(heap) \cup {NULL}
  BY <1>2, Answers
<1>4. TaskFlags \in SUBSET Flags
  BY DEF TaskFlags, Flags
<1>5. /\ n \in Memory
      /\ \A f \in Frames \ (Taken(Rest(heap)) \cup {NULL}) : n[f] = mem[f]
      /\ chunk # NULL => n[NULL] = mem[NULL]
  BY <1>1, <1>2, <1>4, NewSpaceWritten
<1>6. Written(heap) = [n EXCEPT ![task][0] = Pointer(chunk)]
  BY DEF Written
<1>7. task \in Frames /\ task # NULL /\ task \notin Taken(Rest(heap)) /\ 0 \in Index
  BY <1>1, <1>2, <1>3, TaskWords
<1>8. Pointer(chunk) \in Word
  BY <1>1, <1>2, <1>3 DEF Pointer, Word
<1>9. mem[task] = [b \in Index |-> Zero]
  BY <1>2 DEF IInv, Blank
<1> HIDE DEF task, n, chunk
<1>10. n[task] = mem[task]
  BY <1>5, <1>7
<1>11. /\ Written(heap) \in Memory
       /\ \A f \in Frames \ {task} : Written(heap)[f] = n[f]
       /\ Written(heap)[task][0] = Pointer(chunk)
       /\ \A b \in Index \ {0} : Written(heap)[task][b] = n[task][b]
  BY <1>5, <1>6, <1>7, <1>8 DEF Memory
<1>12. \A b \in Index \ {0} : Written(heap)[task][b] = Zero
  BY <1>9, <1>10, <1>11
<1>13. \A f \in Frames \ (Taken(Rest(heap)) \cup {task, NULL}) : Written(heap)[f] = mem[f]
  BY <1>5, <1>11
<1>14. \A f \in Taken(Rest(heap)) \cup {NULL} : Written(heap)[f] = n[f]
  BY <1>1, <1>2, <1>3, <1>7, <1>11
<1>15. chunk # NULL => Written(heap)[NULL] = mem[NULL]
  BY <1>5, <1>14
<1> QED BY <1>2, <1>3, <1>5, <1>11, <1>12, <1>13, <1>14, <1>15 DEF task, n, chunk

\* A task that fits gets a whole space, and is put at the end of the list.
LEMMA TaskMade ==
    ASSUME IInv, ~ misled, NEW heap \in SUBSET free, TaskFits(heap),
           mem' = task_list_append(Written(heap), Request(heap, 0))
    PROVE  /\ Request(heap, 0) # NULL
           /\ ChunkAsked(Rest(heap)) # NULL /\ ChunkAsked(Rest(heap)) \in Taken(Rest(heap))
           /\ mem' \in Memory
           /\ \A f \in Frames \ (Taken(Rest(heap)) \cup {Request(heap, 0)} \cup tasks) :
                 mem'[f] = mem[f]
           /\ \A f \in Taken(Rest(heap)) :
                 mem'[f] = paging_new_4gb(Rest(heap), mem, TaskFlags)[f]
           /\ mem'[Request(heap, 0)][0] = Pointer(ChunkAsked(Rest(heap)))
           /\ mem'[Request(heap, 0)][NextWord] = Zero
           /\ order # <<>> => mem'[Request(heap, 0)][PrevWord] = Pointer(Last(order))
           /\ \A t \in tasks :
                 /\ mem'[t][0] = mem[t][0] /\ mem'[t][PrevWord] = mem[t][PrevWord]
                 /\ mem'[t][NextWord] = IF t = Last(order) THEN Pointer(Request(heap, 0))
                                        ELSE mem[t][NextWord]
<1> DEFINE task == Request(heap, 0)
           rest == Rest(heap)
           chunk == ChunkAsked(rest)
           n == paging_new_4gb(rest, mem, TaskFlags)
           w == Written(heap)
<1>1. free \in SUBSET Pool /\ heap \in SUBSET Pool /\ free \cap tasks = {}
      /\ tasks \subseteq Frames /\ NULL \notin Pool /\ Pool \subseteq Frames /\ NULL \notin tasks
  BY InUse
<1>2. chunk # NULL
  BY DEF TaskFits, Rest
<1>3. task # NULL
  <2> SUFFICES ASSUME task = NULL PROVE FALSE
    OBVIOUS
  <2>1. heap = {}
    <3>1. IsFiniteSet(heap) /\ Cardinality(heap) \in Nat /\ ~ (0 < Cardinality(heap))
      BY <1>1, PoolIsFinite, RequestsDiffer
    <3> QED BY <3>1, FS_EmptySet
  <2>2. rest = {}
    BY <2>1 DEF Rest
  <2> QED BY <1>2, <2>2, Answers
<1>4. /\ task \in heap /\ task \notin rest /\ rest \in SUBSET Pool /\ Taken(rest) \subseteq rest
      /\ w \in Memory
      /\ \A f \in Frames \ (Taken(rest) \cup {task, NULL}) : w[f] = mem[f]
      /\ \A f \in Taken(rest) : w[f] = n[f]
      /\ w[NULL] = mem[NULL]
      /\ w[task][0] = Pointer(chunk)
      /\ \A b \in Index \ {0} : w[task][b] = Zero
  BY <1>2, <1>3, BlockWritten
<1>5. chunk \in Taken(rest) /\ rest \subseteq heap
  BY <1>2, <1>4, Answers DEF Rest
<1>6. task_head = IF order = <<>> THEN NULL ELSE Head(order)
  BY DEF IInv, Linked, ListIsExact
<1>7. order # <<>> => /\ task_head # NULL /\ task_tail = Last(order)
                      /\ Last(order) \in tasks
  BY <1>1, <1>6, ListedTasks DEF IInv, Linked, ListIsExact
<1>8. /\ {NextWord, PrevWord} \subseteq Index /\ 0 \in Index
      /\ NextWord # 0 /\ PrevWord # 0 /\ NextWord # PrevWord
  BY TaskWords
<1>9. \A t \in tasks : w[t] = mem[t] /\ t # task /\ t \in Frames /\ t \notin Taken(rest)
  BY <1>1, <1>4, <1>5
<1>10. task \in Frames /\ Pointer(task) \in Word /\ task \notin Taken(rest)
  BY <1>1, <1>4 DEF Pointer, Word
<1>11. CASE order = <<>>
  <2>1. mem' = w /\ tasks = {}
    BY <1>6, <1>11, ListedTasks DEF task_list_append, IInv
  <2>2. \A f \in Frames \ (Taken(rest) \cup {task} \cup tasks) : mem'[f] = mem[f]
    BY <1>4, <2>1
  <2> HIDE DEF task, rest, chunk, n, w
  <2> QED BY <1>2, <1>3, <1>4, <1>5, <1>8, <1>11, <2>1, <2>2 DEF task, rest, chunk, n
<1>12. CASE order # <<>>
  <2> DEFINE tail == Last(order)
  <2>1. mem' = [w EXCEPT ![tail][NextWord] = Pointer(task), ![task][PrevWord] = Pointer(tail)]
    BY <1>7, <1>12 DEF task_list_append
  <2>2. tail \in tasks /\ tail \in Frames /\ tail # task /\ Pointer(tail) \in Word
    BY <1>7, <1>9, <1>12 DEF Pointer, Word
  <2> HIDE DEF task, rest, chunk, n, w, tail
  <2>3. mem' \in Memory
    BY <1>4, <1>8, <1>10, <2>1, <2>2 DEF Memory
  <2>4. \A f \in Frames \ {tail, task} : mem'[f] = w[f]
    BY <1>4, <2>1, <2>2 DEF Memory
  <2>5. /\ \A b \in Index \ {NextWord} : mem'[tail][b] = w[tail][b]
        /\ mem'[tail][NextWord] = Pointer(task)
    BY <1>4, <1>8, <1>10, <2>1, <2>2 DEF Memory
  <2>6. /\ \A b \in Index \ {PrevWord} : mem'[task][b] = w[task][b]
        /\ mem'[task][PrevWord] = Pointer(tail)
    BY <1>4, <1>8, <1>10, <2>1, <2>2 DEF Memory
  <2>7. \A f \in Frames \ (Taken(rest) \cup {task} \cup tasks) : mem'[f] = mem[f]
    BY <1>4, <2>2, <2>4
  <2>8. \A f \in Taken(rest) : mem'[f] = n[f]
    BY <1>1, <1>4, <1>9, <1>10, <2>2, <2>4
  <2>9. mem'[task][0] = Pointer(chunk) /\ mem'[task][NextWord] = Zero
    BY <1>4, <1>8, <2>6
  <2>10. ASSUME NEW t \in tasks
         PROVE  /\ mem'[t][0] = mem[t][0] /\ mem'[t][PrevWord] = mem[t][PrevWord]
                /\ mem'[t][NextWord] = IF t = tail THEN Pointer(task) ELSE mem[t][NextWord]
    BY <1>8, <1>9, <2>4, <2>5
  <2> QED BY <1>2, <1>3, <1>5, <2>3, <2>6, <2>7, <2>8, <2>9, <2>10 DEF task, rest, chunk, n, tail
<1> QED BY <1>11, <1>12

\* A task_new that gets no space gives back all it took, and leaves memory and
\* the list as they were.
LEMMA TaskUndone ==
    ASSUME IInv, ~ misled, NEW heap \in SUBSET free, Request(heap, 0) # NULL, ~ TaskFits(heap),
           kfree(Rest(heap) \ Taken(Rest(heap)), Written(heap),
                 Freed(Written(heap), Request(heap, 0))),
           task_list_remove(Written(heap), Request(heap, 0))
    PROVE  /\ free' = heap /\ mem' \in Memory /\ wild' \subseteq Frames
           /\ \A f \in Frames : mem'[f] = mem[f]
           /\ task_head' = task_head /\ task_tail' \in Frames
           /\ order # <<>> => task_tail' = task_tail
<1> DEFINE task == Request(heap, 0)
           rest == Rest(heap)
           n == paging_new_4gb(rest, mem, TaskFlags)
           w == Written(heap)
           freed == Freed(w, task)
<1>1. /\ mem \in Memory /\ free \in SUBSET Pool /\ heap \in SUBSET Pool /\ free \cap tasks = {}
      /\ tasks \subseteq Frames /\ NULL \notin Pool /\ NULL \in Frames /\ Pool \subseteq Frames
  BY InUse
<1>2. ChunkAsked(rest) = NULL
  BY DEF TaskFits, Rest
<1>3. /\ task \in heap /\ task \notin rest /\ rest \in SUBSET Pool /\ Taken(rest) \subseteq rest
      /\ w \in Memory
      /\ \A f \in Frames \ (Taken(rest) \cup {task, NULL}) : w[f] = mem[f]
      /\ \A f \in Taken(rest) \cup {NULL} : w[f] = n[f]
      /\ w[task][0] = Pointer(NULL)
      /\ \A b \in Index \ {0} : w[task][b] = Zero
  BY <1>2, BlockWritten
<1>4. rest \cup {task} = heap
  BY <1>3 DEF Rest
<1>5. paging_free_4gb(w, NULL) \cap Pool = Taken(rest)
  <2>1. TaskFlags \in SUBSET Flags
    BY DEF TaskFlags, Flags
  <2> HIDE DEF rest, w
  <2> QED BY <1>1, <1>2, <1>3, <2>1, FailedSpaceIsFound
<1>6. page_directory(w, task) = NULL
  BY <1>3 DEF page_directory, Pointer
<1>7. freed = paging_free_4gb(w, NULL) \cup {task}
  BY <1>6 DEF Freed
<1>8. freed \cap Pool = Taken(rest) \cup {task}
  BY <1>1, <1>3, <1>5, <1>7
<1>9. freed \subseteq Frames
  <2>1. \A f \in Frames, b \in Index : w[f][b].frame \in Frames
    BY <1>3 DEF Memory, Word
  <2>2. Turns \subseteq Index /\ 0 \in Index
    BY Turning
  <2>3. Directory(w, NULL) \in Frames
    BY <1>1, <2>1, <2>2 DEF Directory
  <2>4. paging_free_4gb(w, NULL) \subseteq Frames
    BY <1>1, <2>1, <2>2, <2>3 DEF paging_free_4gb
  <2> QED BY <1>1, <1>3, <1>7, <2>4
<1>10. /\ free' = (rest \ Taken(rest)) \cup (freed \cap Pool)
       /\ wild' = wild \cup (freed \ Pool)
       /\ mem' \in Memory
       /\ \A f \in free' \cup {NULL} : mem'[f] = [b \in Index |-> Zero]
       /\ \A f \in Frames : f \notin free' \cup {NULL} => mem'[f] = w[f]
  <2>1. rest \ Taken(rest) \in SUBSET Pool
    BY <1>3
  <2>2. kfree(rest \ Taken(rest), w, freed)
    OBVIOUS
  <2> HIDE DEF rest, w, freed
  <2> QED BY <1>3, <2>1, <2>2, Freeing
<1>11. free' = heap
  BY <1>3, <1>4, <1>8, <1>10
<1>12. \A f \in Frames : mem'[f] = mem[f]
  <2> TAKE f \in Frames
  <2>1. CASE f \in heap \cup {NULL}
    <3>1. mem[f] = [b \in Index |-> Zero]
      BY <2>1 DEF IInv, Blank
    <3> QED BY <2>1, <3>1, <1>10, <1>11
  <2>2. CASE f \notin heap \cup {NULL}
    <3>1. mem'[f] = w[f]
      BY <2>2, <1>10, <1>11
    <3>2. w[f] = mem[f]
      BY <2>2, <1>3, <1>4
    <3> QED BY <3>1, <3>2
  <2> QED BY <2>1, <2>2
<1>13. wild' \subseteq Frames
  BY <1>9, <1>10 DEF IInv, TypeOK
<1>14. task_head' = task_head
  <2>1. task_head \in tasks \cup {NULL}
    BY ListedTasks DEF IInv, Linked, ListIsExact
  <2>2. task # task_head
    BY <1>1, <1>3, <2>1
  <2> QED BY <2>2 DEF task_list_remove
<1>15. task_tail' \in Frames
  <2>1. w[task][PrevWord] = Zero
    BY <1>3, TaskWords
  <2>2. prev(w, task) = NULL
    BY <2>1 DEF prev, Zero
  <2>3. task_tail \in Frames
    BY DEF IInv, TypeOK
  <2> QED BY <1>1, <2>2, <2>3 DEF task_list_remove
<1>16. ASSUME order # <<>> PROVE task_tail' = task_tail
  <2>1. task_tail \in tasks
    BY <1>16, ListedTasks DEF IInv, Linked, ListIsExact
  <2>2. task # task_tail
    BY <1>1, <1>3, <2>1
  <2> QED BY <2>2 DEF task_list_remove
<1> QED BY <1>10, <1>11, <1>12, <1>13, <1>14, <1>15, <1>16

\* What a load took of the heap before its task is a process's, a stack's, or lost.
Shares(heap, B, S, L) ==
    /\ B \cup S \cup L = free \ heap
    /\ B \cap S = {} /\ B \cap L = {} /\ S \cap L = {}
    /\ processBlocks' = processBlocks \cup B
    /\ processStacks' = processStacks \cup S
    /\ leaked' = leaked \cup L

\* A step that makes no task: the heap may lose blocks to processes, and nothing
\* else that matters changes.
LEMMA NoTaskMade ==
    ASSUME IInv, ~ misled, NEW heap \in SUBSET free, free' = heap,
           mem' \in Memory, \A f \in Frames : mem'[f] = mem[f],
           order' = order, task_head' = task_head, order # <<>> => task_tail' = task_tail,
           UNCHANGED <<pages, kernel, testFrame, misled>>,
           wild' = wild \/ failed', failed => failed',
           NEW B, NEW S, NEW L, Shares(heap, B, S, L)
    PROVE  /\ Once' /\ Blank' /\ Apart' /\ Linked' /\ FramesAccounted'
           /\ tasks' = tasks
<1>1. /\ mem \in Memory /\ Pool \subseteq Frames /\ tasks \subseteq Frames
      /\ free \subseteq Frames /\ NULL \in Frames
  BY InUse
<1>2. mem' = mem
  BY <1>1 DEF Memory
<1>3. \A t \in tasks : page_directory(mem', t) = page_directory(mem, t)
  BY <1>2
<1>4. /\ tasks' = tasks
      /\ UNION {FramesOf(c)' : c \in chunks'} = UNION {FramesOf(c) : c \in chunks}
      /\ free' \cup Held' \subseteq free \cup Held => Apart'
  BY <1>2, <1>3, Unmoved
<1>5. pages' = pages /\ testFrames' = testFrames
  BY DEF testFrames
<1>6. Apart'
  <2>1. free' \cup Held' \subseteq free \cup Held
    BY <1>4, <1>5, HeldIs, HeldIsNext DEF Shares
  <2> QED BY <1>4, <2>1
<1>7. FramesAccounted'
  <2>1. /\ AccountsIn(free, tasks, pages, testFrames, processBlocks, processStacks, leaked,
                      UNION {FramesOf(c) : c \in chunks})
        /\ wild # {} => failed
    BY Accounting DEF IInv
  <2>2. AccountsIn(free', tasks', pages', testFrames', processBlocks', processStacks', leaked',
                   UNION {FramesOf(c) : c \in chunks})
    BY <1>4, <1>5, <2>1 DEF Shares, AccountsIn, Disjoint
  <2> QED BY <1>4, <2>1, <2>2, AccountingNext
<1>8. Once' /\ Blank'
  BY <1>2 DEF IInv, Once, Blank
<1>9. Linked'
  BY <1>2, LinksKept
<1> QED BY <1>4, <1>6, <1>7, <1>8, <1>9

\* The space of a task that was made joins the others, which stay as they are.
LEMMA MadeSpaces ==
    ASSUME IInv, ~ misled, NEW heap \in SUBSET free, TaskFits(heap),
           mem' = task_list_append(Written(heap), Request(heap, 0)),
           order' = Append(order, Request(heap, 0)), kernel' = kernel
    PROVE  /\ tasks' = tasks \cup {Request(heap, 0)}
           /\ chunks' = chunks \cup {ChunkAsked(Rest(heap))}
           /\ ChunkAsked(Rest(heap)) \notin chunks
           /\ \A c \in chunks : FramesOf(c)' = FramesOf(c) /\ Whole(mem', c)
           /\ \A c \in chunks : \A f \in FramesOf(c) : mem'[f] = mem[f]
           /\ \A t \in tasks : page_directory(mem', t) = page_directory(mem, t)
           /\ page_directory(mem', Request(heap, 0)) = ChunkAsked(Rest(heap))
           /\ Whole(mem', ChunkAsked(Rest(heap)))
           /\ paging_free_4gb(mem', ChunkAsked(Rest(heap))) = Taken(Rest(heap))
           /\ \A i \in Turns, b \in Index :
                 mem'[TableOf(mem', ChunkAsked(Rest(heap)), i)][b] = TableEntry(i, b, TaskFlags)
<1> DEFINE task == Request(heap, 0)
           rest == Rest(heap)
           chunk == ChunkAsked(rest)
<1>1. /\ task # NULL /\ chunk # NULL /\ chunk \in Taken(rest)
      /\ mem' \in Memory
      /\ \A f \in Frames \ (Taken(rest) \cup {task} \cup tasks) : mem'[f] = mem[f]
      /\ \A f \in Taken(rest) : mem'[f] = paging_new_4gb(rest, mem, TaskFlags)[f]
      /\ mem'[task][0] = Pointer(chunk)
      /\ \A t \in tasks : mem'[t][0] = mem[t][0]
  BY TaskMade
<1>2. task \in heap /\ rest \in SUBSET Pool /\ Taken(rest) \subseteq rest /\ rest \subseteq heap
  BY <1>1, BlockWritten DEF Rest
<1>3. tasks' = tasks \cup {task}
  <2>1. order \in Seq(Pool) /\ task \in Pool
    BY <1>2, InUse
  <2> HIDE DEF task
  <2>2. /\ DOMAIN order' = DOMAIN order \cup {Len(order) + 1} /\ order'[Len(order) + 1] = task
        /\ \A i \in DOMAIN order : order'[i] = order[i]
    BY <2>1 DEF task
  <2> QED BY <2>2 DEF tasks, Range
<1>4. \A c \in chunks : \A f \in FramesOf(c) : mem'[f] = mem[f]
  <2>1. \A c \in chunks : FramesOf(c) \subseteq Frames /\ FramesOf(c) \cap (free \cup tasks) = {}
    BY InUse
  <2> QED BY <1>1, <1>2, <2>1
<1>5. \A c \in chunks : FramesOf(c)' = FramesOf(c) /\ Whole(mem', c)
  <2> TAKE c \in chunks
  <2>1. Whole(mem, c) /\ mem'[c] = mem[c] /\ mem'[Directory(mem, c)] = mem[Directory(mem, c)]
    BY <1>4, InUse
  <2> QED BY <2>1, SpaceKept DEF FramesOf
<1>6. /\ Whole(mem', chunk) /\ paging_free_4gb(mem', chunk) = Taken(rest)
      /\ \A i \in Turns, b \in Index :
            mem'[TableOf(mem', chunk, i)][b] = TableEntry(i, b, TaskFlags)
  <2>1. TaskFlags \in SUBSET Flags /\ mem \in Memory
    BY InUse DEF TaskFlags, Flags
  <2> HIDE DEF rest
  <2> QED BY <1>1, <1>2, <2>1, NewSpaceIsWhole
<1>7. \A t \in tasks : page_directory(mem', t) = page_directory(mem, t)
  BY <1>1 DEF page_directory
<1>8. page_directory(mem', task) = chunk
  BY <1>1 DEF page_directory, Pointer
<1>9. chunks' = chunks \cup {chunk}
  <2>1. chunks' = {page_directory(mem', t) : t \in tasks'} \cup ({kernel} \ {NULL})
    BY DEF chunks
  <2>2. {page_directory(mem', t) : t \in tasks'} = {page_directory(mem, t) : t \in tasks} \cup {chunk}
    BY <1>3, <1>7, <1>8
  <2> QED BY <2>1, <2>2 DEF chunks
<1>10. chunk \notin chunks
  <2>1. chunk \in free
    BY <1>1, <1>2
  <2>2. \A c \in chunks : c \in FramesOf(c) /\ FramesOf(c) \cap free = {}
    BY InUse
  <2> QED BY <2>1, <2>2
<1> QED BY <1>3, <1>4, <1>5, <1>6, <1>7, <1>8, <1>9, <1>10

\* A task that was made is the last of the list.
LEMMA MadeList ==
    ASSUME IInv, ~ misled, NEW heap \in SUBSET free, TaskFits(heap),
           mem' = task_list_append(Written(heap), Request(heap, 0)),
           order' = Append(order, Request(heap, 0)),
           task_head' = IF task_head = NULL THEN Request(heap, 0) ELSE task_head,
           task_tail' = Request(heap, 0)
    PROVE  Once' /\ Linked'
<1> DEFINE task == Request(heap, 0)
           len == Len(order)
<1>1. /\ task # NULL
      /\ mem'[task][NextWord] = Zero
      /\ order # <<>> => mem'[task][PrevWord] = Pointer(Last(order))
      /\ \A t \in tasks :
            /\ mem'[t][PrevWord] = mem[t][PrevWord]
            /\ mem'[t][NextWord] = IF t = Last(order) THEN Pointer(task) ELSE mem[t][NextWord]
  BY TaskMade
<1>2. task \in heap
  BY <1>1, BlockWritten
<1>3. order \in Seq(Pool) /\ task \in Pool /\ task \notin tasks /\ NULL \notin Pool /\ tasks \subseteq Pool
  BY <1>2, InUse
<1> HIDE DEF task
<1>4. /\ len \in Nat /\ DOMAIN order = 1..len
      /\ order' \in Seq(Pool) /\ Len(order') = len + 1
      /\ DOMAIN order' = DOMAIN order \cup {len + 1} /\ order'[len + 1] = task
      /\ \A i \in DOMAIN order : order'[i] = order[i] /\ i # len + 1
      /\ order' # <<>> /\ Last(order') = task /\ Head(order') = order'[1]
  BY <1>3 DEF task, Last
<1>5. \A i \in DOMAIN order : order[i] \in tasks /\ order[i] # task
  BY <1>3, ListedTasks DEF IInv
<1>6. Once'
  <2>1. \A i, j \in DOMAIN order : order[i] = order[j] => i = j
    BY DEF IInv, Once
  <2>2. \A i, j \in DOMAIN order' : order'[i] = order'[j] => i = j
    BY <1>4, <1>5, <2>1
  <2> QED BY <2>2 DEF Once
<1>7. /\ task_head = IF order = <<>> THEN NULL ELSE Head(order)
      /\ \A i \in DOMAIN order :
            next(mem, order[i]) = IF i = len THEN NULL ELSE order[i + 1]
      /\ \A i \in DOMAIN order : i # 1 => prev(mem, order[i]) # NULL
  BY DEF IInv, Linked, ListIsExact
<1>8. task_head' = Head(order')
  <2>1. CASE order = <<>>
    BY <1>4, <1>7, <2>1 DEF task
  <2>2. CASE order # <<>>
    <3>1. task_head = order[1] /\ 1 \in DOMAIN order
      BY <1>7, <2>2, ListedTasks DEF IInv
    <3>2. task_head # NULL
      BY <1>3, <1>5, <3>1
    <3> QED BY <1>4, <3>1, <3>2
  <2> QED BY <2>1, <2>2
<1>9. ASSUME NEW i \in DOMAIN order'
      PROVE  next(mem', order'[i]) = IF i = len + 1 THEN NULL ELSE order'[i + 1]
  <2>1. CASE i = len + 1
    BY <1>1, <1>4, <2>1 DEF next, Zero
  <2>2. CASE i \in DOMAIN order /\ i = len
    <3>1. order[i] \in tasks /\ order[i] = Last(order)
      BY <1>5, <2>2 DEF Last
    <3>2. mem'[order[i]][NextWord] = Pointer(task)
      BY <1>1, <3>1
    <3>3. order'[i] = order[i] /\ i # len + 1 /\ order'[i + 1] = task
      BY <1>4, <2>2
    <3>4. next(mem', order[i]) = task
      BY <3>2 DEF next, Pointer
    <3> QED BY <3>3, <3>4
  <2>3. CASE i \in DOMAIN order /\ i # len
    <3>1. len \in DOMAIN order /\ i + 1 \in DOMAIN order /\ i \in Nat
      BY <1>4, <2>3
    <3>2. order[i] \in tasks /\ order[i] # order[len]
      BY <1>5, <2>3, <3>1 DEF IInv, Once
    <3>3. mem'[order[i]][NextWord] = mem[order[i]][NextWord]
      BY <1>1, <3>2 DEF Last
    <3>4. next(mem', order[i]) = order[i + 1]
      BY <1>7, <2>3, <3>3 DEF next
    <3> QED BY <1>4, <2>3, <3>1, <3>4
  <2> QED BY <1>4, <2>1, <2>2, <2>3
<1>10. ListIsExact'
  BY <1>4, <1>8, <1>9 DEF ListIsExact, task
<1>11. ASSUME NEW i \in DOMAIN order', i # 1 PROVE prev(mem', order'[i]) # NULL
  <2>1. CASE i = len + 1
    <3>1. order # <<>> /\ Last(order) \in Pool
      BY <1>3, <1>4, <1>11, <2>1, ListedTasks DEF IInv
    <3> QED BY <1>1, <1>3, <1>4, <2>1, <3>1 DEF prev, Pointer
  <2>2. CASE i \in DOMAIN order
    <3>1. prev(mem', order[i]) = prev(mem, order[i])
      BY <1>1, <1>5, <2>2 DEF prev
    <3> QED BY <1>4, <1>7, <1>11, <2>2, <3>1
  <2> QED BY <1>4, <2>1, <2>2
<1> QED BY <1>6, <1>10, <1>11 DEF Linked

\* A task that was made, and the blocks of a process made with it, keep all of the
\* invariant but what is about the processes.
LEMMA TaskMadeKeeps ==
    ASSUME IInv, ~ misled, NEW heap \in SUBSET free, TaskFits(heap),
           mem' = task_list_append(Written(heap), Request(heap, 0)),
           free' = Rest(heap) \ Taken(Rest(heap)),
           order' = Append(order, Request(heap, 0)),
           task_head' = IF task_head = NULL THEN Request(heap, 0) ELSE task_head,
           task_tail' = Request(heap, 0),
           UNCHANGED <<pages, kernel, testFrame, misled, wild, failed>>,
           NEW B, NEW S, NEW L, Shares(heap, B, S, L)
    PROVE  /\ Once' /\ Blank' /\ Apart' /\ Linked' /\ FramesAccounted'
           /\ tasks' = tasks \cup {Request(heap, 0)}
<1> DEFINE task == Request(heap, 0)
           rest == Rest(heap)
           chunk == ChunkAsked(rest)
           spaces == UNION {FramesOf(c) : c \in chunks}
<1>1. /\ task # NULL /\ chunk \in Taken(rest) /\ mem' \in Memory
      /\ \A f \in Frames \ (Taken(rest) \cup {task} \cup tasks) : mem'[f] = mem[f]
  BY TaskMade
<1>2. task \in heap /\ task \notin rest /\ rest \in SUBSET Pool /\ Taken(rest) \subseteq rest
      /\ rest \cup {task} = heap
  BY <1>1, BlockWritten DEF Rest
<1>3. /\ tasks' = tasks \cup {task} /\ chunks' = chunks \cup {chunk} /\ chunk \notin chunks
      /\ \A c \in chunks : FramesOf(c)' = FramesOf(c) /\ Whole(mem', c)
      /\ \A t \in tasks : page_directory(mem', t) = page_directory(mem, t)
      /\ page_directory(mem', task) = chunk
      /\ Whole(mem', chunk) /\ paging_free_4gb(mem', chunk) = Taken(rest)
  BY MadeSpaces
<1>4. Once' /\ Linked'
  BY MadeList
<1>5. pages' = pages /\ testFrames' = testFrames
  BY DEF testFrames
<1>6. /\ AccountsIn(free, tasks, pages, testFrames, processBlocks, processStacks, leaked, spaces)
      /\ wild # {} => failed
  BY Accounting DEF IInv
<1>7. /\ free \in SUBSET Pool /\ Pool \subseteq Frames /\ NULL \in Frames /\ NULL \notin Pool
      /\ free \cap tasks = {} /\ tasks \subseteq Pool
      /\ \A c \in chunks : FramesOf(c) \cap (free \cup Held) = {}
  BY InUse
<1>8. \A c \in chunks' : \/ c \in chunks /\ FramesOf(c)' = FramesOf(c) /\ Whole(mem', c)
                         \/ c = chunk /\ FramesOf(c)' = Taken(rest) /\ Whole(mem', c)
  <2>1. \A c \in chunks' : FramesOf(c)' = paging_free_4gb(mem', c)
    BY DEF FramesOf
  <2> HIDE DEF chunk
  <2> QED BY <1>3, <2>1
<1> HIDE DEF task, rest, chunk, spaces
<1>9. free' = rest \ Taken(rest)
  BY DEF rest
<1>10. Held' = Held \cup {task} \cup (free \ heap)
  BY <1>3, <1>5, HeldIs, HeldIsNext DEF Shares
<1>11. Taken(rest) \cap (free' \cup Held') = {} /\ Taken(rest) \subseteq free
  <2>1. free \cap Held = {}
    BY InUse
  <2> QED BY <1>2, <1>9, <1>10, <2>1
<1>12. Blank'
  <2>1. \A f \in free' \cup {NULL} : /\ f \in free \cup {NULL}
                                     /\ f \in Frames \ (Taken(rest) \cup {task} \cup tasks)
    BY <1>1, <1>2, <1>7, <1>9 DEF task
  <2>2. \A f \in free' \cup {NULL} : mem'[f] = [b \in Index |-> Zero]
    BY <1>1, <2>1 DEF IInv, Blank
  <2> QED BY <2>2 DEF Blank
<1>13. Apart'
  <2>1. \A c \in chunks' : Whole(mem', c) /\ FramesOf(c)' \cap (free' \cup Held') = {}
    BY <1>2, <1>7, <1>8, <1>9, <1>10, <1>11
  <2>2. \A c, d \in chunks' : c # d => FramesOf(c)' \cap FramesOf(d)' = {}
    <3>1. \A c, d \in chunks : c # d => FramesOf(c) \cap FramesOf(d) = {}
      BY DEF IInv, Apart
    <3> QED BY <1>7, <1>8, <1>11, <3>1
  <2>3. \A s, t \in tasks' : page_directory(mem', s) = page_directory(mem', t) => s = t
    <3>1. \A s, t \in tasks : page_directory(mem, s) = page_directory(mem, t) => s = t
      BY DEF IInv, Apart
    <3>2. \A t \in tasks : page_directory(mem, t) # chunk
      BY <1>3, InUse
    <3> QED BY <1>3, <3>1, <3>2
  <2>4. \A t \in tasks' : page_directory(mem', t) # kernel'
    <3>1. \A t \in tasks : page_directory(mem, t) # kernel
      BY DEF IInv, Apart
    <3>2. chunk # kernel
      BY <1>1, <1>2, <1>3, <1>7, InUse
    <3> QED BY <1>3, <3>1, <3>2
  <2> QED BY <2>1, <2>2, <2>3, <2>4 DEF Apart
<1>14. UNION {FramesOf(c)' : c \in chunks'} = spaces \cup Taken(rest)
  <2>1. \E c \in chunks' : FramesOf(c)' = Taken(rest)
    BY <1>3, <1>8
  <2>2. \A c \in chunks : c \in chunks' /\ FramesOf(c)' = FramesOf(c)
    BY <1>3
  <2> QED BY <1>8, <2>1, <2>2 DEF spaces
<1>15. FramesAccounted'
  <2>1. AccountsIn(free', tasks', pages', testFrames', processBlocks', processStacks', leaked',
                   spaces \cup Taken(rest))
    BY <1>2, <1>3, <1>5, <1>6, <1>7, <1>9, <1>11 DEF Shares, AccountsIn, Disjoint
  <2> QED BY <1>6, <1>14, <2>1, AccountingNext
<1> QED BY <1>3, <1>4, <1>12, <1>13, <1>15 DEF task

\* The three ways task_new can go.
LEMMA NewTaskCases ==
    ASSUME NEW heap, task_new(heap)
    PROVE  /\ testFrame # NULL /\ ~ misled
           /\ UNCHANGED <<pages, kernel, testFrame, misled>>
           /\ \/ /\ TaskFits(heap)
                 /\ mem' = task_list_append(Written(heap), Request(heap, 0))
                 /\ free' = Rest(heap) \ Taken(Rest(heap))
                 /\ task_head' = IF task_head = NULL THEN Request(heap, 0) ELSE task_head
                 /\ task_tail' = Request(heap, 0)
                 /\ order' = Append(order, Request(heap, 0))
                 /\ UNCHANGED <<wild, failed>>
              \/ /\ Request(heap, 0) # NULL /\ ~ TaskFits(heap)
                 /\ kfree(Rest(heap) \ Taken(Rest(heap)), Written(heap),
                          Freed(Written(heap), Request(heap, 0)))
                 /\ task_list_remove(Written(heap), Request(heap, 0))
                 /\ failed' = TRUE
                 /\ UNCHANGED order
              \/ /\ Request(heap, 0) = NULL
                 /\ free' = heap /\ failed' = TRUE
                 /\ UNCHANGED <<mem, wild, task_head, task_tail, order>>
BY DEF task_new, FreesNoTask, Running, Written, Rest

\* Without a block for the task no space fits either.
LEMMA NoBlock ==
    ASSUME NEW heap \in SUBSET Pool, Request(heap, 0) = NULL
    PROVE  heap = {} /\ ~ TaskFits(heap)
<1>1. IsFiniteSet(heap) /\ Cardinality(heap) \in Nat /\ ~ (0 < Cardinality(heap))
  BY PoolIsFinite, RequestsDiffer
<1>2. heap = {}
  BY <1>1, FS_EmptySet
<1>3. Rest(heap) = {}
  BY <1>2 DEF Rest
<1>4. ChunkAsked(Rest(heap)) = NULL
  BY <1>3, Answers
<1> QED BY <1>2, <1>4 DEF TaskFits, Rest

\* What a task_new that finds its blocks in heap does to the rest of the state.
NewTaskKept(heap) ==
    /\ Once' /\ Blank' /\ Apart' /\ Linked' /\ FramesAccounted'
    /\ mem' \in Memory /\ free' \subseteq heap /\ order' \in Seq(Pool) /\ wild' \subseteq Frames
    /\ {task_head', task_tail'} \subseteq Frames
    /\ failed' \in BOOLEAN
    /\ testFrame # NULL /\ ~ misled /\ UNCHANGED <<pages, kernel, testFrame, misled>>
    /\ failed => failed'
    /\ tasks' = tasks \cup (IF TaskFits(heap) THEN {Request(heap, 0)} ELSE {})
    /\ TaskFits(heap) => Request(heap, 0) \in heap
    /\ ~ TaskFits(heap) => failed' /\ chunks' = chunks /\ \A f \in Frames : mem'[f] = mem[f]

\* A task_new, and the blocks of a process it is part of the making of, keep all of
\* the invariant but what is about the processes.
LEMMA NewTaskKeeps ==
    ASSUME IInv, NEW heap \in SUBSET free, task_new(heap),
           NEW B, NEW S, NEW L, Shares(heap, B, S, L)
    PROVE  NewTaskKept(heap)
<1> DEFINE task == Request(heap, 0)
<1>1. testFrame # NULL /\ ~ misled /\ UNCHANGED <<pages, kernel, testFrame, misled>>
  BY NewTaskCases
<1>2. /\ mem \in Memory /\ free \in SUBSET Pool /\ order \in Seq(Pool)
      /\ Pool \subseteq Frames /\ tasks \subseteq Pool
  BY <1>1, InUse
<1>3. /\ {task_head, task_tail} \subseteq Frames /\ wild \subseteq Frames
      /\ {failed, misled, undefined} \subseteq BOOLEAN
  BY DEF IInv, TypeOK
<1>4. CASE /\ TaskFits(heap)
           /\ mem' = task_list_append(Written(heap), task)
           /\ free' = Rest(heap) \ Taken(Rest(heap))
           /\ task_head' = IF task_head = NULL THEN task ELSE task_head
           /\ task_tail' = task
           /\ order' = Append(order, task)
           /\ UNCHANGED <<wild, failed>>
  <2>1. /\ Once' /\ Blank' /\ Apart' /\ Linked' /\ FramesAccounted'
        /\ tasks' = tasks \cup {task}
    BY <1>1, <1>4, TaskMadeKeeps
  <2>2. mem' \in Memory /\ task # NULL
    BY <1>1, <1>4, TaskMade
  <2>3. task \in heap
    BY <1>1, <2>2, BlockWritten
  <2>4. free' \subseteq heap
    BY <1>4 DEF Rest
  <2> HIDE DEF task
  <2>5. order' \in Seq(Pool) /\ {task_head', task_tail'} \subseteq Frames
    BY <1>2, <1>3, <1>4, <2>3
  <2> QED BY <1>1, <1>3, <1>4, <2>1, <2>2, <2>3, <2>4, <2>5 DEF task, NewTaskKept
<1>5. ASSUME ~ TaskFits(heap), free' = heap, mem' \in Memory, wild' \subseteq Frames,
             \A f \in Frames : mem'[f] = mem[f],
             task_head' = task_head, task_tail' \in Frames, order # <<>> => task_tail' = task_tail,
             order' = order, failed' = TRUE
      PROVE  NewTaskKept(heap)
  <2>1. /\ Once' /\ Blank' /\ Apart' /\ Linked' /\ FramesAccounted'
        /\ tasks' = tasks
    BY <1>1, <1>5, NoTaskMade
  <2>2. mem' = mem
    BY <1>2, <1>5 DEF Memory
  <2>3. chunks' = chunks
    BY <1>1, <2>1, <2>2 DEF chunks
  <2> QED BY <1>1, <1>2, <1>3, <1>5, <2>1, <2>3 DEF NewTaskKept
<1>6. CASE /\ task # NULL /\ ~ TaskFits(heap)
           /\ kfree(Rest(heap) \ Taken(Rest(heap)), Written(heap), Freed(Written(heap), task))
           /\ task_list_remove(Written(heap), task)
           /\ failed' = TRUE
           /\ UNCHANGED order
  BY <1>1, <1>3, <1>5, <1>6, TaskUndone
<1>7. CASE /\ task = NULL
           /\ free' = heap /\ failed' = TRUE
           /\ UNCHANGED <<mem, wild, task_head, task_tail, order>>
  <2>1. ~ TaskFits(heap)
    BY <1>2, <1>7, NoBlock
  <2> QED BY <1>2, <1>3, <1>5, <1>7, <2>1
<1> QED BY <1>4, <1>6, <1>7, NewTaskCases

\* A task is made, or is not.
LEMMA NewTaskKeepsIInv ==
    ASSUME IInv, task_new(free), undefined' \in BOOLEAN, UNCHANGED <<processes, leaked>>
    PROVE  NewTaskKept(free) /\ IInv'
<1>1. processBlocks' = processBlocks \cup {} /\ processStacks' = processStacks \cup {}
  BY DEF processBlocks, processStacks
<1>2. free \in SUBSET free /\ Shares(free, {}, {}, {})
  BY <1>1 DEF Shares
<1>3. NewTaskKept(free)
  BY <1>2, NewTaskKeeps
<1>4. TypeOK'
  BY <1>3 DEF NewTaskKept, IInv, TypeOK, Memory
<1>5. Booting'
  BY <1>3 DEF NewTaskKept, IInv, Booting
<1>6. ProcessesHaveTasks'
  <2>1. free \cap (processBlocks \cup processStacks) = {}
    BY <1>3, InUse, HeldIs DEF NewTaskKept
  <2>2. free \in SUBSET Pool
    BY DEF IInv, TypeOK
  <2> QED BY <1>3, <2>1, <2>2, ProcessesKept DEF NewTaskKept
<1> QED BY <1>3, <1>4, <1>5, <1>6 DEF NewTaskKept, IInv

-----------------------------------------------------------------------------
(* Loading a process *)

\* A slot that was empty is taken, and no other changes.
LEMMA SlotTaken ==
    ASSUME NEW slot, NEW process, slot \notin DOMAIN processes,
           processes' = WithProcess(slot, process)
    PROVE  /\ DOMAIN processes' = DOMAIN processes \cup {slot}
           /\ processes'[slot] = process
           /\ \A s \in DOMAIN processes : processes'[s] = processes[s] /\ s # slot
BY DEF WithProcess

\* The pool is an interval of frames.
LEMMA PoolBounds ==
    ASSUME NEW f \in Pool
    PROVE  /\ Max(Pool) \in Pool /\ Max(Pool) \in Nat /\ Min(Pool) \in Nat
           /\ f \in Nat /\ Min(Pool) <= f /\ f <= Max(Pool)
           /\ \A g \in Nat : f <= g /\ g <= Max(Pool) => g \in Pool
<1> DEFINE top == (DirEntries - 1) * Entries
<1>1. Pool \in SUBSET Nat /\ Pool # {} /\ f \in Nat
  BY PoolIsFinite
<1>2. top \in Nat /\ \A g \in Pool : g <= top
  <2>1. DirEntries \in Nat /\ Entries \in Nat /\ DirEntries >= 1
    BY PagingAssumption
  <2>2. top \in Nat
    BY <2>1, SMTT(20)
  <2>3. Pool \subseteq 1..(top - 1)
    BY PagingAssumption
  <2> HIDE DEF top
  <2> QED BY <2>2, <2>3
<1> HIDE DEF top
<1>3. Min(Pool) \in Pool /\ \A g \in Pool : Min(Pool) <= g
  BY <1>1, Least
<1>4. Max(Pool) \in Pool /\ \A g \in Pool : g <= Max(Pool)
  BY <1>1, <1>2, Greatest
<1>5. Max(Pool) \in Nat /\ Min(Pool) \in Nat
  BY <1>1, <1>3, <1>4
<1>6. Pool = Min(Pool) .. Max(Pool)
  BY ProcessesAssumption
<1>7. \A g \in Nat : f <= g /\ g <= Max(Pool) => g \in Pool
  BY <1>1, <1>3, <1>5, <1>6
<1> QED BY <1>1, <1>3, <1>4, <1>5, <1>7

\* A request that is granted takes free frames only, as far as it is within the
\* heap: what a run that is too short leaves wanting lies behind.
LEMMA RunGranted ==
    ASSUME NEW heap \in SUBSET Pool, NEW n \in Nat \ {0}, RequestRun(heap, n) # NULL
    PROVE  /\ RequestRun(heap, n) \in heap
           /\ Pool \cap Run(RequestRun(heap, n), n) \subseteq heap
<1> DEFINE f == Min(Starts(heap, n))
<1>1. heap \in SUBSET Nat
  BY PoolIsFinite
<1>2. Starts(heap, n) # {} /\ RequestRun(heap, n) = f
  BY DEF RequestRun
<1>3. Starts(heap, n) \subseteq heap
  BY DEF Starts, Fits, LastRun
<1>4. f \in Starts(heap, n)
  BY <1>1, <1>2, <1>3, Least
<1> HIDE DEF f
<1>5. f \in heap /\ f \in Pool
  BY <1>3, <1>4
<1>6. CASE f \in Fits(heap, n)
  BY <1>2, <1>5, <1>6 DEF Fits
<1>7. CASE f \in LastRun(heap)
  <2>1. f \in Nat /\ Max(Pool) \in Nat /\ \A g \in Pool : g \in Nat /\ g <= Max(Pool)
    BY <1>5, PoolBounds
  <2>2. f .. Max(Pool) \subseteq heap
    BY <1>7 DEF LastRun
  <2>3. Pool \cap Run(f, n) \subseteq f .. Max(Pool)
    BY <2>1 DEF Run
  <2> QED BY <1>2, <1>5, <2>2, <2>3
<1> QED BY <1>4, <1>6, <1>7 DEF Starts

\* Runs that share no frame of the heap share none behind it.
LEMMA RunsApart ==
    ASSUME NEW f \in Pool, NEW g \in Pool, NEW n \in Nat, NEW m \in Nat,
           Pool \cap Run(f, n) \cap Run(g, m) = {}
    PROVE  Run(f, n) \cap Run(g, m) = {}
<1> DEFINE last == Max(Pool)
<1>1. f \in Nat /\ g \in Nat /\ last \in Nat /\ f <= last /\ g <= last /\ last \in Pool
  BY PoolBounds
<1>2. \A x \in Nat : f <= x /\ x <= last => x \in Pool
  BY PoolBounds
<1> HIDE DEF last
<1> SUFFICES ASSUME NEW x \in Run(f, n), x \in Run(g, m) PROVE FALSE
  OBVIOUS
<1>3. /\ x \in Nat /\ f <= x /\ x <= f + n - 1 /\ g <= x /\ x <= g + m - 1
  BY <1>1 DEF Run
<1>4. x > last
  BY <1>1, <1>2, <1>3
<1>5. last \in Run(f, n) /\ last \in Run(g, m)
  BY <1>1, <1>3, <1>4 DEF Run
<1> QED BY <1>1, <1>5

\* What a load asks for, and what it leaves of the heap.
loadBlock == RequestRun(free, ProcessFrames)
loadOthers == free \ Run(loadBlock, ProcessFrames)
loadStack == RequestRun(loadOthers, StackFrames)
loadRest == loadOthers \ Run(loadStack, StackFrames)
loadTask == IF TaskFits(loadRest) THEN Request(loadRest, 0) ELSE ERROR
loadProcess == [block |-> loadBlock, stack |-> loadStack, task |-> loadTask]

blockFrames == Pool \cap Run(loadBlock, ProcessFrames)
stackFrames == Pool \cap Run(loadStack, StackFrames)

\* The ways a load can go in an empty slot: the stack is refused, the process is
\* entered, or the error number in place of its task is followed to nowhere.
LoadStops(slot) ==
    /\ slot \notin DOMAIN processes
    /\ loadBlock # NULL /\ loadStack = NULL
    /\ free' = loadOthers
    /\ leaked' = leaked \cup (free \ loadOthers)
    /\ UNCHANGED <<mem, pages, kernel, testFrame, wild, taskVars, processes>>

LoadEnters(slot) ==
    /\ slot \notin DOMAIN processes
    /\ loadBlock # NULL /\ loadStack # NULL
    /\ task_new(loadRest)
    /\ processes' = WithProcess(slot, loadProcess)
    /\ undefined' \in BOOLEAN
    /\ UNCHANGED leaked

LoadFaults(slot) ==
    /\ slot \notin DOMAIN processes
    /\ loadBlock # NULL /\ loadStack # NULL
    /\ task_new(loadRest)
    /\ ~ TaskFits(loadRest)
    /\ undefined' = TRUE
    /\ leaked' = leaked \cup (free \ loadRest)
    /\ UNCHANGED processes

LEMMA LoadCases ==
    ASSUME NEW slot, process_load_for_slot(slot)
    PROVE  /\ testFrame # NULL /\ ~ misled /\ ~ undefined
           /\ SlotIsTaken(slot) \/ LoadStops(slot) \/ LoadEnters(slot) \/ LoadFaults(slot)
BY DEF process_load_for_slot, Running, LoadStops, LoadEnters, LoadFaults, loadBlock, loadOthers,
       loadStack, loadRest, loadTask, loadProcess, FreesNoTask

\* The runs of a process and of its stack are apart, and what of them is the heap's
\* is what the load takes of it.
LEMMA LoadRuns ==
    ASSUME IInv, ~ misled, loadBlock # NULL, loadStack # NULL
    PROVE  /\ loadBlock \in Pool /\ loadStack \in Pool
           /\ loadRest \in SUBSET free /\ blockFrames \cup stackFrames = free \ loadRest
           /\ blockFrames \cap stackFrames = {}
           /\ Run(loadBlock, ProcessFrames) \cap Run(loadStack, StackFrames) = {}
<1>1. free \in SUBSET Pool /\ loadOthers \in SUBSET Pool
  BY InUse DEF loadOthers
<1>2. ProcessFrames \in Nat \ {0} /\ StackFrames \in Nat \ {0}
  BY ProcessesAssumption
<1>3. loadBlock \in free /\ blockFrames \subseteq free
  BY <1>1, <1>2, RunGranted DEF loadBlock, blockFrames
<1>4. loadStack \in loadOthers /\ stackFrames \subseteq loadOthers
  BY <1>1, <1>2, RunGranted DEF loadStack, stackFrames
<1>5. loadBlock \in Pool /\ loadStack \in Pool
  BY <1>1, <1>3, <1>4
<1>6. loadOthers = free \ blockFrames
  BY <1>1 DEF loadOthers, blockFrames
<1>7. loadRest = loadOthers \ stackFrames
  BY <1>1 DEF loadRest, stackFrames
<1>8. Pool \cap Run(loadBlock, ProcessFrames) \cap Run(loadStack, StackFrames) = {}
  BY <1>4, <1>6 DEF blockFrames, stackFrames
<1>9. Run(loadBlock, ProcessFrames) \cap Run(loadStack, StackFrames) = {}
  BY <1>2, <1>5, <1>8, RunsApart
<1> QED BY <1>3, <1>4, <1>5, <1>6, <1>7, <1>9

\* A load that finds its blocks takes them for its slot, with a task or without.
LEMMA LoadTakes ==
    ASSUME IInv, ~ misled, NEW slot \in Slots, LoadEnters(slot)
    PROVE  NewTaskKept(loadRest) /\ IInv'
<1>1. free \in SUBSET Pool /\ free \cap Held = {} /\ NULL \notin Pool /\ tasks \subseteq Pool
  BY InUse
<1>2. /\ loadBlock \in Pool /\ loadStack \in Pool
      /\ loadRest \in SUBSET free /\ blockFrames \cup stackFrames = free \ loadRest
      /\ blockFrames \cap stackFrames = {}
      /\ Run(loadBlock, ProcessFrames) \cap Run(loadStack, StackFrames) = {}
  BY LoadRuns DEF LoadEnters
<1>3. /\ DOMAIN processes' = DOMAIN processes \cup {slot}
      /\ processes'[slot] = loadProcess
      /\ \A s \in DOMAIN processes : processes'[s] = processes[s] /\ s # slot
  BY SlotTaken DEF LoadEnters
<1>4. /\ loadProcess.block = loadBlock /\ loadProcess.stack = loadStack
      /\ loadProcess.task = loadTask
  BY DEF loadProcess
<1>5. processBlocks' = processBlocks \cup blockFrames
  <2>1. ASSUME NEW x
        PROVE  x \in UNION {Run(processes'[s].block, ProcessFrames) : s \in DOMAIN processes'}
                 <=> \/ x \in UNION {Run(processes[s].block, ProcessFrames) : s \in DOMAIN processes}
                     \/ x \in Run(loadBlock, ProcessFrames)
    <3>1. (\E s \in DOMAIN processes' : x \in Run(processes'[s].block, ProcessFrames))
            <=> \/ \E s \in DOMAIN processes : x \in Run(processes[s].block, ProcessFrames)
                \/ x \in Run(loadBlock, ProcessFrames)
      BY <1>3, <1>4, ZenonT(60)
    <3> QED BY <3>1
  <2> QED BY <2>1 DEF processBlocks, blockFrames
<1>6. processStacks' = processStacks \cup stackFrames
  <2>1. ASSUME NEW x
        PROVE  x \in UNION {Run(processes'[s].stack, StackFrames) : s \in DOMAIN processes'}
                 <=> \/ x \in UNION {Run(processes[s].stack, StackFrames) : s \in DOMAIN processes}
                     \/ x \in Run(loadStack, StackFrames)
    <3>1. (\E s \in DOMAIN processes' : x \in Run(processes'[s].stack, StackFrames))
            <=> \/ \E s \in DOMAIN processes : x \in Run(processes[s].stack, StackFrames)
                \/ x \in Run(loadStack, StackFrames)
      BY <1>3, <1>4, ZenonT(60)
    <3> QED BY <3>1
  <2> QED BY <2>1 DEF processStacks, stackFrames
<1>7. NewTaskKept(loadRest)
  <2>1. Shares(loadRest, blockFrames, stackFrames, {})
    BY <1>2, <1>5, <1>6 DEF Shares, LoadEnters
  <2> QED BY <1>2, <2>1, NewTaskKeeps DEF LoadEnters
<1>8. /\ TaskFits(loadRest) => loadTask \in loadRest /\ tasks' = tasks \cup {loadTask}
      /\ ~ TaskFits(loadRest) => loadTask = ERROR /\ failed' /\ tasks' = tasks
  BY <1>7 DEF NewTaskKept, loadTask
<1>9. loadProcess \in Process
  BY <1>1, <1>2, <1>8 DEF Process, loadProcess
<1>10. TypeOK'
  <2>1. DOMAIN processes' \subseteq Slots /\ Range(processes') \subseteq Process
    <3>1. \A s \in DOMAIN processes : s \in Slots /\ processes[s] \in Process
      BY DEF IInv, TypeOK, Range
    <3>2. \A s \in DOMAIN processes' : s \in Slots /\ processes'[s] \in Process
      BY <1>3, <1>9, <3>1
    <3> QED BY <3>2 DEF Range
  <2>2. free' \subseteq Pool
    BY <1>1, <1>2, <1>7 DEF NewTaskKept
  <2>3. undefined' \in BOOLEAN /\ leaked' = leaked
    BY DEF LoadEnters
  <2> QED BY <1>7, <2>1, <2>2, <2>3 DEF NewTaskKept, IInv, TypeOK, Memory
<1>11. Booting'
  BY <1>7 DEF NewTaskKept, IInv, Booting
<1>12. ProcessesHaveTasks'
  <2> DEFINE loaded == Run(loadBlock, ProcessFrames) \cup Run(loadStack, StackFrames)
  <2>1. free' \subseteq loadRest /\ free' \subseteq Pool /\ free' \subseteq free
        /\ failed \in BOOLEAN /\ (failed => failed') /\ tasks \subseteq tasks'
    BY <1>1, <1>2, <1>7 DEF NewTaskKept, IInv, TypeOK
  <2>2. ERROR \notin Pool
    BY PoolIsFinite DEF ERROR
  <2>3. loaded \cap free' = {}
    BY <1>2, <2>1 DEF blockFrames, stackFrames
  <2>4. loadTask \in tasks' \/ (loadTask = ERROR /\ failed')
    BY <1>8
  <2>5. ASSUME NEW s \in DOMAIN processes
        PROVE  /\ MemoryOf(s) \cap free' = {} /\ MemoryOf(s) \cap loaded = {}
               /\ Run(processes[s].block, ProcessFrames)
                     \cap Run(processes[s].stack, StackFrames) = {}
               /\ processes[s].task \in tasks \/ (processes[s].task = ERROR /\ failed)
               /\ processes[s].task # loadTask \/ processes[s].task = ERROR
    <3>1. /\ MemoryOf(s) \cap free = {}
          /\ Run(processes[s].block, ProcessFrames)
                \cap Run(processes[s].stack, StackFrames) = {}
          /\ processes[s].task \in tasks \/ (processes[s].task = ERROR /\ failed)
      BY DEF IInv, ProcessesHaveTasks
    <3>2. processes[s].block \in Pool /\ processes[s].stack \in Pool
      <4>1. processes[s] \in Process
        BY DEF IInv, TypeOK, Range
      <4> QED BY <4>1 DEF Process
    <3>3. ProcessFrames \in Nat /\ StackFrames \in Nat
      BY ProcessesAssumption
    <3>4. blockFrames \subseteq free /\ stackFrames \subseteq free
      BY <1>2
    <3>5. /\ Run(processes[s].block, ProcessFrames) \cap Run(loadBlock, ProcessFrames) = {}
          /\ Run(processes[s].block, ProcessFrames) \cap Run(loadStack, StackFrames) = {}
      <4>1. /\ Pool \cap Run(processes[s].block, ProcessFrames) \cap Run(loadBlock, ProcessFrames) = {}
            /\ Pool \cap Run(processes[s].block, ProcessFrames) \cap Run(loadStack, StackFrames) = {}
        BY <3>1, <3>4 DEF MemoryOf, blockFrames, stackFrames
      <4>2. Run(processes[s].block, ProcessFrames) \cap Run(loadBlock, ProcessFrames) = {}
        BY <1>2, <3>2, <3>3, <4>1, RunsApart
      <4>3. Run(processes[s].block, ProcessFrames) \cap Run(loadStack, StackFrames) = {}
        BY <1>2, <3>2, <3>3, <4>1, RunsApart
      <4> QED BY <4>2, <4>3
    <3>6. /\ Run(processes[s].stack, StackFrames) \cap Run(loadBlock, ProcessFrames) = {}
          /\ Run(processes[s].stack, StackFrames) \cap Run(loadStack, StackFrames) = {}
      <4>1. /\ Pool \cap Run(processes[s].stack, StackFrames) \cap Run(loadBlock, ProcessFrames) = {}
            /\ Pool \cap Run(processes[s].stack, StackFrames) \cap Run(loadStack, StackFrames) = {}
        BY <3>1, <3>4 DEF MemoryOf, blockFrames, stackFrames
      <4>2. Run(processes[s].stack, StackFrames) \cap Run(loadBlock, ProcessFrames) = {}
        BY <1>2, <3>2, <3>3, <4>1, RunsApart
      <4>3. Run(processes[s].stack, StackFrames) \cap Run(loadStack, StackFrames) = {}
        BY <1>2, <3>2, <3>3, <4>1, RunsApart
      <4> QED BY <4>2, <4>3
    <3>7. TaskFits(loadRest) => loadTask \in Pool /\ loadTask \notin tasks
      BY <1>1, <1>2, <1>8, HeldIs
    <3>8. processes[s].task # loadTask \/ processes[s].task = ERROR
      BY <1>8, <3>1, <3>7
    <3> QED BY <2>1, <3>1, <3>5, <3>6, <3>8 DEF MemoryOf
  <2>6. \A s \in DOMAIN processes : MemoryOf(s)' = MemoryOf(s)
    BY <1>3 DEF MemoryOf
  <2>7. MemoryOf(slot)' = loaded
    BY <1>3, <1>4 DEF MemoryOf
  <2> HIDE DEF loaded
  <2>8. ASSUME NEW s \in DOMAIN processes'
        PROVE  /\ MemoryOf(s)' \cap free' = {}
               /\ Run(processes'[s].block, ProcessFrames)
                     \cap Run(processes'[s].stack, StackFrames) = {}
               /\ processes'[s].task \in tasks' \/ (processes'[s].task = ERROR /\ failed')
    <3>1. CASE s = slot
      BY <1>2, <1>3, <1>4, <2>3, <2>4, <2>7, <3>1
    <3>2. CASE s \in DOMAIN processes
      BY <1>3, <2>1, <2>5, <2>6, <3>2
    <3> QED BY <1>3, <3>1, <3>2
  <2>9. ASSUME NEW s \in DOMAIN processes', NEW t \in DOMAIN processes', s # t
        PROVE  /\ MemoryOf(s)' \cap MemoryOf(t)' = {}
               /\ processes'[s].task # processes'[t].task \/ processes'[s].task = ERROR
    <3>1. CASE s \in DOMAIN processes /\ t \in DOMAIN processes
      <4>1. /\ MemoryOf(s) \cap MemoryOf(t) = {}
            /\ processes[s].task # processes[t].task \/ processes[s].task = ERROR
        BY <2>9, <3>1 DEF IInv, ProcessesHaveTasks
      <4> QED BY <1>3, <2>6, <3>1, <4>1
    <3>2. CASE s = slot /\ t \in DOMAIN processes
      BY <1>3, <1>4, <2>5, <2>6, <2>7, <3>2
    <3>3. CASE s \in DOMAIN processes /\ t = slot
      BY <1>3, <1>4, <2>5, <2>6, <2>7, <3>3
    <3> QED BY <1>3, <2>9, <3>1, <3>2, <3>3
  <2> QED BY <2>8, <2>9 DEF ProcessesHaveTasks
<1> QED BY <1>7, <1>10, <1>11, <1>12 DEF NewTaskKept, IInv

\* A load that follows an error number to nowhere has lost what it took.
LEMMA LoadLoses ==
    ASSUME IInv, ~ misled, NEW slot \in Slots, LoadFaults(slot)
    PROVE  NewTaskKept(loadRest) /\ IInv'
<1>1. free \in SUBSET Pool /\ loadRest \in SUBSET free
  BY LoadRuns, InUse DEF LoadFaults
<1>2. processBlocks' = processBlocks \cup {} /\ processStacks' = processStacks \cup {}
  BY DEF LoadFaults, processBlocks, processStacks
<1>3. Shares(loadRest, {}, {}, free \ loadRest)
  BY <1>2 DEF Shares, LoadFaults
<1>4. NewTaskKept(loadRest)
  BY <1>1, <1>3, NewTaskKeeps DEF LoadFaults
<1>5. /\ processes' = processes /\ undefined' = TRUE /\ leaked' = leaked \cup (free \ loadRest)
      /\ free' \in SUBSET Pool /\ free' \subseteq free
  BY <1>1, <1>4 DEF LoadFaults, NewTaskKept
<1>6. TypeOK'
  BY <1>1, <1>4, <1>5 DEF NewTaskKept, IInv, TypeOK, Memory
<1>7. Booting'
  BY <1>4 DEF NewTaskKept, IInv, Booting
<1>8. ProcessesHaveTasks'
  <2>1. free' \cap (processBlocks \cup processStacks) = {}
    BY <1>5, InUse, HeldIs
  <2>2. Owned \cap tasks \subseteq tasks' /\ failed => failed'
    BY <1>4 DEF NewTaskKept
  <2> QED BY <1>4, <1>5, <2>1, <2>2, ProcessesKept DEF NewTaskKept
<1> QED BY <1>4, <1>6, <1>7, <1>8 DEF NewTaskKept, IInv

\* A load that is refused its stack has lost the frames of the process.
LEMMA LoadStopsKeepsIInv ==
    ASSUME IInv, testFrame # NULL, ~ misled, NEW slot, LoadStops(slot)
    PROVE  IInv'
<1>1. /\ free \in SUBSET Pool /\ loadOthers \in SUBSET free
      /\ free' = loadOthers /\ leaked' = leaked \cup (free \ loadOthers)
      /\ UNCHANGED <<mem, pages, kernel, testFrame, wild, taskVars, processes>>
  BY InUse DEF LoadStops, loadOthers
<1>2. order' = order /\ kernel' = kernel /\ misled' = misled /\ task_head' = task_head
      /\ task_tail' = task_tail /\ failed' = failed /\ undefined' = undefined
  BY <1>1 DEF taskVars
<1>3. /\ tasks' = tasks
      /\ UNION {FramesOf(c)' : c \in chunks'} = UNION {FramesOf(c) : c \in chunks}
      /\ free' \cup Held' \subseteq free \cup Held => Apart'
  BY <1>1, <1>2, Unmoved
<1>4. /\ processBlocks' = processBlocks /\ processStacks' = processStacks
      /\ pages' = pages /\ testFrames' = testFrames
  BY <1>1 DEF testFrames, processBlocks, processStacks
<1>5. Apart'
  <2>1. free' \cup Held' \subseteq free \cup Held
    BY <1>1, <1>3, <1>4, HeldIs, HeldIsNext
  <2> QED BY <1>3, <2>1
<1>6. FramesAccounted'
  <2>1. /\ AccountsIn(free, tasks, pages, testFrames, processBlocks, processStacks, leaked,
                      UNION {FramesOf(c) : c \in chunks})
        /\ wild # {} => failed
    BY Accounting DEF IInv
  <2>2. AccountsIn(free', tasks', pages', testFrames', processBlocks', processStacks', leaked',
                   UNION {FramesOf(c) : c \in chunks})
    BY <1>1, <1>3, <1>4, <2>1 DEF AccountsIn, Disjoint
  <2> QED BY <1>1, <1>2, <1>3, <2>1, <2>2, AccountingNext
<1>7. TypeOK' /\ Booting'
  BY <1>1, <1>2 DEF IInv, TypeOK, Booting
<1>8. Once' /\ Blank'
  BY <1>1, <1>2 DEF IInv, Once, Blank
<1>9. Linked'
  BY <1>1, <1>2, LinksKept
<1>10. ProcessesHaveTasks'
  <2>1. free \cap (processBlocks \cup processStacks) = {}
    BY InUse, HeldIs
  <2>2. free' \in SUBSET Pool /\ free' \cap (processBlocks \cup processStacks) = {}
    BY <1>1, <2>1
  <2> QED BY <1>1, <1>2, <1>3, <2>2, ProcessesKept
<1> QED BY <1>5, <1>6, <1>7, <1>8, <1>9, <1>10 DEF IInv

\* A slot that is taken keeps its process, and all else stays.
LEMMA TakenSlotKeepsIInv ==
    ASSUME IInv, testFrame # NULL, NEW slot, SlotIsTaken(slot)
    PROVE  IInv'
<1>1. /\ UNCHANGED <<mem, free, pages, kernel, testFrame, wild, task_head, task_tail, order,
                     failed, misled, processes, leaked>>
      /\ undefined' \in BOOLEAN
  BY DEF SlotIsTaken, pagingVars
<1>2. TypeOK' /\ Booting'
  BY <1>1 DEF IInv, TypeOK, Booting
<1>3. tasks' = tasks /\ chunks' = chunks /\ Held' = Held
  BY <1>1 DEF tasks, chunks, Held, Holders, processBlocks, processStacks
<1>4. Once' /\ Blank' /\ Linked'
  BY <1>1 DEF IInv, Once, Blank, Linked, ListIsExact
<1>5. Apart' /\ ProcessesHaveTasks'
  BY <1>1, <1>3 DEF IInv, Apart, ProcessesHaveTasks, FramesOf, MemoryOf
<1>6. FramesAccounted'
  <2>1. Holders' = Holders
    BY <1>1 DEF Holders, tasks, processBlocks, processStacks
  <2>2. \A c : FramesOf(c)' = FramesOf(c)
    BY <1>1 DEF FramesOf
  <2> QED BY <1>1, <1>3, <2>1, <2>2 DEF IInv, FramesAccounted
<1> QED BY <1>2, <1>4, <1>5, <1>6 DEF IInv

\* A load for any slot.
LEMMA LoadKeepsIInv ==
    ASSUME IInv, NEW slot \in Slots, process_load_for_slot(slot)
    PROVE  IInv'
BY LoadCases, TakenSlotKeepsIInv, LoadStopsKeepsIInv, LoadTakes, LoadLoses

\* While slots are empty, the first of them is found.
LEMMA FreeSlot ==
    ASSUME IInv, process_load
    PROVE  process_get_free_slot \in Slots
<1> DEFINE S == Slots \ DOMAIN processes
<1>1. DOMAIN processes \subseteq Slots /\ Slots \subseteq Nat
  BY ProcessesAssumption DEF IInv, TypeOK, Slots
<1>2. S \in SUBSET Nat /\ S # {}
  BY <1>1 DEF process_load
<1> HIDE DEF S
<1>3. Min(S) \in S
  BY <1>2, Least
<1> QED BY <1>3 DEF process_get_free_slot, S

\* A load for the first empty slot.
LEMMA FirstFreeSlotKeepsIInv ==
    ASSUME IInv, process_load
    PROVE  IInv'
BY FreeSlot, LoadKeepsIInv DEF process_load

-----------------------------------------------------------------------------
(* Freeing a task *)

\* A live task has one place among the others, and when it leaves they close up.
LEMMA Removed ==
    ASSUME IInv, NEW task \in tasks, order' = RemoveAt(order, Place(task))
    PROVE  /\ Place(task) \in DOMAIN order /\ order[Place(task)] = task
           /\ Len(order) \in Nat /\ DOMAIN order = 1..Len(order) /\ Place(task) \in Nat
           /\ order' \in Seq(Pool) /\ Len(order') = Len(order) - 1
           /\ DOMAIN order' = 1..(Len(order) - 1)
           /\ \A i \in DOMAIN order' :
                 order'[i] = IF i < Place(task) THEN order[i] ELSE order[i + 1]
           /\ tasks' = tasks \ {task}
           /\ Once'
<1> DEFINE p == Place(task)
           len == Len(order)
<1>1. /\ len \in Nat /\ DOMAIN order = 1..len /\ order \in Seq(Pool)
      /\ \A i \in DOMAIN order : order[i] \in tasks
      /\ \A t \in tasks : \E i \in DOMAIN order : order[i] = t
      /\ \A i, j \in DOMAIN order : order[i] = order[j] => i = j
  BY ListedTasks DEF IInv, TypeOK, Once
<1>2. p \in DOMAIN order /\ order[p] = task
  BY <1>1 DEF Place
<1>3. order' = SubSeq(order, 1, p - 1) \o SubSeq(order, p + 1, len)
  BY DEF RemoveAt
<1> HIDE DEF p
<1> HIDE DEF len
<1>4. p \in Nat /\ 1 <= p /\ p <= len
  BY <1>1, <1>2
<1> DEFINE front == SubSeq(order, 1, p - 1)
           back == SubSeq(order, p + 1, len)
<1>5. /\ front \in Seq(Pool) /\ Len(front) = p - 1
      /\ \A i \in 1..(p - 1) : front[i] = order[i]
  BY <1>1, <1>4 DEF len
<1>6. /\ back \in Seq(Pool) /\ Len(back) = len - p
      /\ \A i \in 1..(len - p) : back[i] = order[p + i]
  <2>1. /\ p + 1 \in 1..(len + 1) /\ len - (p + 1) + 1 = len - p
        /\ \A i \in 1..(len - p) : (p + 1) + i - 1 = p + i /\ p + i \in DOMAIN order
    BY <1>1, <1>4
  <2>2. back \in Seq(Pool)
    BY <1>1, <1>4
  <2>3. /\ Len(back) = len - p
        /\ \A i \in 1..(len - p) : back[i] = order[(p + 1) + i - 1]
    <3>1. CASE p = len
      BY <1>1, <1>4, <2>1, <3>1
    <3>2. CASE p # len
      <4>1. p + 1 \in 1..len
        BY <1>1, <1>4, <3>2
      <4> QED BY <1>1, <1>4, <2>1, <4>1
    <3> QED BY <3>1, <3>2
  <2> QED BY <2>1, <2>2, <2>3
<1>7. order' = front \o back
  BY <1>3
<1> HIDE DEF front
<1> HIDE DEF back
<1>8. /\ order' \in Seq(Pool) /\ Len(order') = len - 1 /\ DOMAIN order' = 1..(len - 1)
      /\ \A i \in 1..(len - 1) :
            order'[i] = IF i <= p - 1 THEN front[i] ELSE back[i - (p - 1)]
  BY <1>1, <1>4, <1>5, <1>6, <1>7
<1>9. ASSUME NEW i \in 1..(len - 1)
      PROVE  order'[i] = IF i < p THEN order[i] ELSE order[i + 1]
  <2>1. CASE i < p
    BY <1>1, <1>4, <1>5, <1>8, <2>1
  <2>2. CASE ~ (i < p)
    <3>1. i - (p - 1) \in 1..(len - p) /\ p + (i - (p - 1)) = i + 1 /\ ~ (i <= p - 1)
      BY <1>1, <1>4, <2>2
    <3> QED BY <1>6, <1>8, <2>2, <3>1
  <2> QED BY <2>1, <2>2
<1>10. tasks' = tasks \ {task}
  <2>1. ASSUME NEW t \in tasks' PROVE t \in tasks \ {task}
    <3>1. PICK i \in 1..(len - 1) : order'[i] = t
      BY <1>8, <2>1 DEF tasks, Range
    <3>2. i \in 1..len /\ i + 1 \in 1..len
      BY <1>1
    <3> QED BY <1>1, <1>2, <1>4, <1>9, <3>1, <3>2, SMTT(30)
  <2>2. ASSUME NEW t \in tasks, t # task PROVE t \in tasks'
    <3>1. PICK i \in 1..len : order[i] = t /\ i # p
      BY <1>1, <1>2, <2>2
    <3>2. CASE i < p
      <4>1. i \in 1..(len - 1) /\ order'[i] = t
        BY <1>1, <1>4, <1>9, <3>1, <3>2
      <4> QED BY <1>8, <4>1 DEF tasks, Range
    <3>3. CASE i > p
      <4>1. i - 1 \in 1..(len - 1) /\ ~ (i - 1 < p) /\ (i - 1) + 1 = i
        BY <1>1, <1>4, <3>3
      <4>2. order'[i - 1] = t
        BY <1>9, <3>1, <4>1
      <4> QED BY <1>8, <4>1, <4>2 DEF tasks, Range
    <3> QED BY <1>1, <1>4, <3>1, <3>2, <3>3
  <2> QED BY <2>1, <2>2
<1>11. Once'
  <2>1. ASSUME NEW i \in 1..(len - 1), NEW j \in 1..(len - 1), order'[i] = order'[j]
        PROVE  i = j
    <3>1. i \in 1..len /\ i + 1 \in 1..len /\ j \in 1..len /\ j + 1 \in 1..len
      BY <1>1
    <3>2. CASE i < p /\ j < p
      BY <1>1, <1>9, <2>1, <3>1, <3>2
    <3>3. CASE i < p /\ ~ (j < p)
      <4>1. order[i] = order[j + 1]
        BY <1>9, <2>1, <3>3
      <4> QED BY <1>1, <1>4, <3>1, <3>3, <4>1
    <3>4. CASE ~ (i < p) /\ j < p
      <4>1. order[i + 1] = order[j]
        BY <1>9, <2>1, <3>4
      <4> QED BY <1>1, <1>4, <3>1, <3>4, <4>1
    <3>5. CASE ~ (i < p) /\ ~ (j < p)
      <4>1. order[i + 1] = order[j + 1]
        BY <1>9, <2>1, <3>5
      <4> QED BY <1>1, <1>4, <3>1, <4>1
    <3> QED BY <3>2, <3>3, <3>4, <3>5
  <2> QED BY <1>8, <2>1 DEF Once
<1> QED BY <1>1, <1>2, <1>4, <1>8, <1>9, <1>10, <1>11 DEF p, len

\* The frames of a task are its own and those of its space. Freeing them writes
\* no other frame but, when a prev is followed, the next of the task it names:
\* the predecessor, as long as nothing is misled.
LEMMA TaskGone ==
    ASSUME IInv, NEW task \in tasks, task_free(task)
    PROVE  /\ ~ misled /\ testFrame # NULL /\ ~ undefined
           /\ page_directory(mem, task) \in chunks
           /\ order' = RemoveAt(order, Place(task))
           /\ UNCHANGED <<pages, kernel, testFrame, failed, undefined, wild>>
           /\ misled' \in BOOLEAN /\ {task_head', task_tail'} \subseteq Frames
           /\ free' = free \cup FramesOf(page_directory(mem, task)) \cup {task}
           /\ mem' \in Memory
           /\ \A f \in free' \cup {NULL} : mem'[f] = [b \in Index |-> Zero]
           /\ ~ misled' =>
                \A f \in Frames \ (free' \cup {NULL}) :
                  /\ Place(task) = 1 \/ f # order[Place(task) - 1] => mem'[f] = mem[f]
                  /\ \A b \in Index : b # NextWord => mem'[f][b] = mem[f][b]
                  /\ Place(task) # 1 /\ f = order[Place(task) - 1]
                       => mem'[f][NextWord] = mem[task][NextWord]
           /\ ~ misled' /\ Place(task) # 1 => prev(mem, task) = order[Place(task) - 1]
<1> DEFINE c == page_directory(mem, task)
           S == FramesOf(c) \cup {task}
           m == Unlinked(mem, task)
           p == Place(task)
<1>1. /\ ~ misled /\ testFrame # NULL /\ ~ undefined
      /\ kfree(free, m, S)
      /\ task_list_remove(mem, task)
      /\ order' = RemoveAt(order, p)
      /\ misled' = FollowsStalePrev(task)
      /\ UNCHANGED <<pages, kernel, testFrame, failed, undefined>>
  BY DEF task_free, Running, Freed, FramesOf
<1>2. /\ mem \in Memory /\ free \in SUBSET Pool /\ task \in Pool /\ task \in Frames
      /\ c \in chunks /\ FramesOf(c) \subseteq Pool /\ NULL \notin Pool
  BY <1>1, InUse
<1>3. /\ p \in DOMAIN order /\ order[p] = task /\ p \in Nat /\ DOMAIN order = 1..Len(order)
      /\ Len(order) \in Nat
  BY <1>1, Removed
<1>4. prev(mem, task) \in Frames /\ next(mem, task) \in Frames /\ mem[task][NextWord] \in Word
  BY <1>2, TaskWords DEF Memory, Word, prev, next
<1>5. m \in Memory
  <2>1. CASE prev(mem, task) = NULL
    BY <1>2, <2>1 DEF Unlinked
  <2>2. CASE prev(mem, task) # NULL
    <3>1. m = [mem EXCEPT ![prev(mem, task)][NextWord] = mem[task][NextWord]]
      BY <2>2 DEF Unlinked
    <3> HIDE DEF m
    <3> QED BY <1>2, <1>4, <3>1, TaskWords DEF Memory
  <2> QED BY <2>1, <2>2
<1>6. S \subseteq Pool
  BY <1>2
<1> HIDE DEF c
<1> HIDE DEF S
<1> HIDE DEF m
<1> HIDE DEF p
<1>7. /\ free' = free \cup (S \cap Pool) /\ wild' = wild \cup (S \ Pool)
      /\ mem' \in Memory
      /\ \A f \in free' \cup {NULL} : mem'[f] = [b \in Index |-> Zero]
      /\ \A f \in Frames : f \notin free' \cup {NULL} => mem'[f] = m[f]
  <2>1. kfree(free, m, S)
    BY <1>1
  <2> QED BY <1>2, <1>5, <2>1, Freeing
<1>8. free' = free \cup FramesOf(c) \cup {task} /\ wild' = wild
  BY <1>6, <1>7 DEF S
<1>9. misled' \in BOOLEAN
  BY <1>1 DEF FollowsStalePrev
<1>10. {task_head', task_tail'} \subseteq Frames
  BY <1>1, <1>4 DEF task_list_remove, IInv, TypeOK
<1>11. p # 1 => prev(mem, task) # NULL /\ p - 1 \in DOMAIN order /\ order[p - 1] \in Pool
  <2>1. \A i \in DOMAIN order : i # 1 => prev(mem, order[i]) # NULL
    BY <1>1 DEF IInv, Linked
  <2>2. p # 1 => p - 1 \in DOMAIN order
    BY <1>3
  <2>3. \A i \in DOMAIN order : order[i] \in Pool
    BY <1>1, InUse, ListedTasks DEF IInv
  <2> QED BY <1>3, <2>1, <2>2, <2>3
<1>12. ASSUME ~ misled'
       PROVE  /\ p # 1 => prev(mem, task) = order[p - 1]
              /\ p = 1 => prev(mem, task) \in free \cup {NULL}
  <2>1. ~ FollowsStalePrev(task)
    BY <1>1, <1>12
  <2>2. CASE p = 1
    BY <2>1, <2>2 DEF FollowsStalePrev, p
  <2>3. CASE p # 1
    <3>1. prev(mem, task) \in {NULL, order[p - 1]} \/ order[p - 1] = NULL
      BY <2>1, <2>3 DEF FollowsStalePrev, p
    <3> QED BY <1>2, <1>11, <2>3, <3>1
  <2> QED BY <2>2, <2>3
<1>13. ASSUME ~ misled', NEW f \in Frames \ (free' \cup {NULL})
       PROVE  /\ p = 1 \/ f # order[p - 1] => mem'[f] = mem[f]
              /\ \A b \in Index : b # NextWord => mem'[f][b] = mem[f][b]
              /\ p # 1 /\ f = order[p - 1] => mem'[f][NextWord] = mem[task][NextWord]
  <2>1. mem'[f] = m[f] /\ f \notin free /\ f # NULL
    BY <1>7
  <2>2. CASE prev(mem, task) = NULL
    BY <1>11, <2>1, <2>2 DEF m, Unlinked
  <2>3. CASE prev(mem, task) # NULL
    <3>1. m = [mem EXCEPT ![prev(mem, task)][NextWord] = mem[task][NextWord]]
      BY <2>3 DEF m, Unlinked
    <3>2. /\ f # prev(mem, task) => m[f] = mem[f]
          /\ \A b \in Index : b # NextWord => m[f][b] = mem[f][b]
          /\ f = prev(mem, task) => m[f][NextWord] = mem[task][NextWord]
      BY <1>2, <1>4, <3>1, TaskWords DEF Memory
    <3>3. p = 1 => f # prev(mem, task)
      BY <1>12, <1>13, <2>1
    <3>4. p # 1 => prev(mem, task) = order[p - 1]
      BY <1>12, <1>13
    <3> QED BY <2>1, <3>2, <3>3, <3>4
  <2> QED BY <2>2, <2>3
<1> QED BY <1>1, <1>2, <1>7, <1>8, <1>9, <1>10, <1>12, <1>13 DEF c, p

\* The space of a task that was freed goes with it, and the others stay as they
\* are.
LEMMA GoneSpaces ==
    ASSUME IInv, NEW task \in tasks, task_free(task), ~ misled'
    PROVE  /\ tasks' = tasks \ {task}
           /\ chunks' = chunks \ {page_directory(mem, task)}
           /\ \A t \in tasks' : /\ t \in Frames \ (free' \cup {NULL})
                                /\ page_directory(mem', t) = page_directory(mem, t)
           /\ \A d \in chunks' : /\ FramesOf(d)' = FramesOf(d) /\ Whole(mem', d)
                                 /\ \A f \in FramesOf(d) : mem'[f] = mem[f]
<1> DEFINE c == page_directory(mem, task)
<1>1. /\ ~ misled /\ kernel' = kernel /\ order' = RemoveAt(order, Place(task))
      /\ free' = free \cup FramesOf(c) \cup {task}
      /\ c \in chunks
  BY TaskGone
<1>2. /\ tasks' = tasks \ {task}
      /\ Place(task) # 1 => order[Place(task) - 1] \in tasks
  <2>1. /\ Place(task) \in DOMAIN order /\ Place(task) \in Nat /\ Len(order) \in Nat
        /\ DOMAIN order = 1..Len(order) /\ tasks' = tasks \ {task}
    BY <1>1, Removed
  <2>2. Place(task) # 1 => Place(task) - 1 \in DOMAIN order
    BY <2>1
  <2> QED BY <2>1, <2>2, ListedTasks DEF IInv
<1>3. /\ tasks \subseteq Held /\ Held \subseteq Pool /\ free \cap Held = {}
      /\ Pool \subseteq Frames /\ NULL \notin Pool
      /\ \A d \in chunks : /\ Whole(mem, d)
                           /\ {d, Directory(mem, d)} \subseteq FramesOf(d)
                           /\ FramesOf(d) \subseteq Pool
                           /\ FramesOf(d) \cap (free \cup Held) = {}
  BY <1>1, InUse
<1>4. /\ \A d, e \in chunks : d # e => FramesOf(d) \cap FramesOf(e) = {}
      /\ \A s, t \in tasks : page_directory(mem, s) = page_directory(mem, t) => s = t
      /\ \A t \in tasks : page_directory(mem, t) # kernel
  BY <1>1 DEF IInv, Apart
<1> HIDE DEF c
<1>5. ASSUME NEW t \in tasks, t # task
      PROVE  /\ t \in Frames \ (free' \cup {NULL})
             /\ page_directory(mem', t) = page_directory(mem, t)
  <2>1. t \in Frames \ (free' \cup {NULL})
    BY <1>1, <1>3, <1>5
  <2>2. mem'[t][0] = mem[t][0]
    BY <2>1, TaskGone, TaskWords
  <2> QED BY <2>1, <2>2 DEF page_directory
<1>6. chunks' = chunks \ {c}
  <2>1. chunks' = {page_directory(mem', t) : t \in tasks'} \cup ({kernel'} \ {NULL})
    BY DEF chunks
  <2>2. \A t \in tasks' : page_directory(mem', t) = page_directory(mem, t)
    BY <1>2, <1>5
  <2>3. chunks' = {page_directory(mem, t) : t \in tasks \ {task}} \cup ({kernel} \ {NULL})
    BY <1>1, <1>2, <2>1, <2>2
  <2>4. {page_directory(mem, t) : t \in tasks \ {task}}
          = {page_directory(mem, t) : t \in tasks} \ {c}
    BY <1>4 DEF c
  <2>5. c # kernel
    BY <1>4 DEF c
  <2> QED BY <2>3, <2>4, <2>5 DEF chunks
<1>7. ASSUME NEW d \in chunks, d # c
      PROVE  \A f \in FramesOf(d) : mem'[f] = mem[f]
  <2>1. TAKE f \in FramesOf(d)
  <2>2. f \in Frames \ (free' \cup {NULL}) /\ f \notin tasks
    BY <1>1, <1>3, <1>4, <1>7
  <2>3. Place(task) = 1 \/ f # order[Place(task) - 1]
    BY <1>2, <2>2
  <2> QED BY <2>2, <2>3, TaskGone
<1>8. ASSUME NEW d \in chunks, d # c
      PROVE  FramesOf(d)' = FramesOf(d) /\ Whole(mem', d)
  <2>1. mem'[d] = mem[d] /\ mem'[Directory(mem, d)] = mem[Directory(mem, d)]
    BY <1>3, <1>7, <1>8
  <2>2. Whole(mem, d)
    BY <1>3
  <2> QED BY <2>1, <2>2, SpaceKept DEF FramesOf
<1> QED BY <1>2, <1>5, <1>6, <1>7, <1>8 DEF c

\* The list closes up behind a task that was freed.
LEMMA GoneList ==
    ASSUME IInv, NEW task \in tasks, task_free(task), ~ misled'
    PROVE  Linked'
<1> DEFINE p == Place(task)
           len == Len(order)
<1>1. /\ ~ misled /\ order' = RemoveAt(order, p)
      /\ \A f \in Frames \ (free' \cup {NULL}) :
            /\ p = 1 \/ f # order[p - 1] => mem'[f] = mem[f]
            /\ \A b \in Index : b # NextWord => mem'[f][b] = mem[f][b]
            /\ p # 1 /\ f = order[p - 1] => mem'[f][NextWord] = mem[task][NextWord]
      /\ p # 1 => prev(mem, task) = order[p - 1]
  BY TaskGone
<1>2. /\ p \in DOMAIN order /\ order[p] = task /\ DOMAIN order = 1..len
      /\ len \in Nat /\ p \in Nat
      /\ Len(order') = len - 1 /\ DOMAIN order' = 1..(len - 1) /\ order' \in Seq(Pool)
      /\ \A i \in DOMAIN order' : order'[i] = IF i < p THEN order[i] ELSE order[i + 1]
  BY <1>1, Removed
<1>3. /\ \A i \in DOMAIN order : order[i] \in tasks
      /\ \A i, j \in DOMAIN order : order[i] = order[j] => i = j
  BY ListedTasks DEF IInv, Once
<1>4. \A t \in tasks \ {task} : t \in Frames \ (free' \cup {NULL})
  BY GoneSpaces
<1>5. /\ order # <<>> /\ task_head = order[1] /\ task_tail = order[len]
      /\ \A i \in DOMAIN order : next(mem, order[i]) = IF i = len THEN NULL ELSE order[i + 1]
      /\ \A i \in DOMAIN order : i # 1 => prev(mem, order[i]) # NULL
  <2>1. order # <<>>
    BY <1>2
  <2> QED BY <1>1, <2>1, ListedTasks DEF IInv, Linked, ListIsExact
<1>6. /\ task_head' = IF task = task_head THEN next(mem, task) ELSE task_head
      /\ task_tail' = IF task = task_tail THEN prev(mem, task) ELSE task_tail
  BY DEF task_free, task_list_remove
<1> HIDE DEF p
<1> HIDE DEF len
<1>7. /\ order' # <<>> <=> len # 1
      /\ order' # <<>> => Last(order') = order'[len - 1] /\ Head(order') = order'[1]
  BY <1>2 DEF Last
<1>8. task_head' = IF order' = <<>> THEN NULL ELSE Head(order')
  <2>1. p = 1 <=> task = task_head
    BY <1>2, <1>3, <1>5
  <2>2. CASE p = 1
    <3>1. task_head' = IF 1 = len THEN NULL ELSE order[1 + 1]
      BY <1>2, <1>5, <1>6, <2>1, <2>2
    <3>2. len # 1 => 1 \in DOMAIN order' /\ ~ (1 < p)
      BY <1>2, <2>2
    <3> QED BY <1>2, <1>7, <3>1, <3>2
  <2>3. CASE p # 1
    <3>1. task_head' = order[1]
      BY <1>5, <1>6, <2>1, <2>3
    <3>2. len # 1 /\ 1 \in DOMAIN order' /\ 1 < p
      BY <1>2, <2>3
    <3> QED BY <1>2, <1>7, <3>1, <3>2
  <2> QED BY <2>2, <2>3
<1>9. ASSUME NEW i \in DOMAIN order'
      PROVE  next(mem', order'[i]) = IF i = len - 1 THEN NULL ELSE order'[i + 1]
  <2>0. i \in Nat /\ i + 1 \in DOMAIN order /\ i \in DOMAIN order /\ 1 <= i
    BY <1>2
  <2>1. CASE i + 1 < p
    <3>1. order'[i] = order[i] /\ i + 1 \in DOMAIN order' /\ order'[i + 1] = order[i + 1]
      BY <1>2, <2>0, <2>1
    <3>2. i # p /\ p # 1 /\ p - 1 \in DOMAIN order /\ i # p - 1 /\ i # len /\ i # len - 1
      BY <1>2, <2>0, <2>1
    <3>3. order[i] \in tasks \ {task} /\ order[i] # order[p - 1]
      BY <1>2, <1>3, <2>0, <3>2
    <3>4. mem'[order[i]] = mem[order[i]]
      BY <1>1, <1>4, <3>3
    <3>5. next(mem', order[i]) = order[i + 1]
      BY <1>5, <2>0, <3>2, <3>4 DEF next
    <3> QED BY <3>1, <3>2, <3>5
  <2>2. CASE i + 1 = p
    <3>1. order'[i] = order[i] /\ i = p - 1 /\ p # 1 /\ i # p
      BY <1>2, <2>0, <2>2
    <3>2. order[i] \in tasks \ {task}
      BY <1>2, <1>3, <2>0, <3>1
    <3>3. mem'[order[i]][NextWord] = mem[task][NextWord]
      BY <1>1, <1>4, <3>1, <3>2
    <3>4. next(mem', order[i]) = next(mem, task)
      BY <3>3 DEF next
    <3>5. next(mem, task) = IF p = len THEN NULL ELSE order[p + 1]
      BY <1>2, <1>5
    <3>6. i # len - 1 => i + 1 \in DOMAIN order' /\ ~ (i + 1 < p) /\ (i + 1) + 1 = p + 1
      BY <1>2, <2>0, <2>2
    <3>7. i = len - 1 <=> p = len
      BY <1>2, <2>0, <2>2
    <3> QED BY <1>2, <3>1, <3>4, <3>5, <3>6, <3>7
  <2>3. CASE i + 1 > p
    <3>1. order'[i] = order[i + 1] /\ i + 1 # p /\ ~ (i < p)
      BY <1>2, <2>0, <2>3
    <3>2. order[i + 1] \in tasks \ {task} /\ (p # 1 => order[i + 1] # order[p - 1])
      <4>1. p # 1 => p - 1 \in DOMAIN order /\ i + 1 # p - 1
        BY <1>2, <2>0, <2>3
      <4> QED BY <1>2, <1>3, <2>0, <3>1, <4>1
    <3>3. mem'[order[i + 1]] = mem[order[i + 1]]
      BY <1>1, <1>4, <3>2
    <3>4. next(mem', order[i + 1]) = IF i + 1 = len THEN NULL ELSE order[(i + 1) + 1]
      BY <1>5, <2>0, <3>3 DEF next
    <3>5. i # len - 1 => i + 1 \in DOMAIN order' /\ ~ (i + 1 < p)
      BY <1>2, <2>0, <2>3
    <3>6. i = len - 1 <=> i + 1 = len
      BY <1>2, <2>0
    <3> QED BY <1>2, <3>1, <3>4, <3>5, <3>6
  <2> QED BY <1>2, <2>0, <2>1, <2>2, <2>3
<1>10. order' # <<>> => task_tail' = order'[len - 1]
  <2> SUFFICES ASSUME order' # <<>> PROVE task_tail' = order'[len - 1]
    OBVIOUS
  <2>0. len - 1 \in DOMAIN order' /\ len \in DOMAIN order
    BY <1>2, <1>7
  <2>1. p = len <=> task = task_tail
    BY <1>2, <1>3, <1>5, <2>0
  <2>2. CASE p = len
    <3>1. p # 1 /\ len - 1 < p
      BY <1>2, <1>7, <2>2
    <3>2. task_tail' = order[len - 1]
      BY <1>1, <1>6, <2>1, <2>2, <3>1
    <3> QED BY <1>2, <2>0, <3>1, <3>2
  <2>3. CASE p # len
    <3>1. task_tail' = order[len]
      BY <1>5, <1>6, <2>1, <2>3
    <3>2. ~ (len - 1 < p) /\ (len - 1) + 1 = len
      BY <1>2, <2>3
    <3> QED BY <1>2, <2>0, <3>1, <3>2
  <2> QED BY <2>2, <2>3
<1>11. ASSUME NEW i \in DOMAIN order', i # 1 PROVE prev(mem', order'[i]) # NULL
  <2>1. PICK j \in DOMAIN order : order'[i] = order[j] /\ j # 1 /\ j # p
    <3>1. i \in DOMAIN order /\ i + 1 \in DOMAIN order /\ i \in Nat /\ 1 <= i
      BY <1>2
    <3>2. CASE i < p
      BY <1>2, <1>11, <3>1, <3>2
    <3>3. CASE ~ (i < p)
      <4>1. i + 1 # 1 /\ i + 1 # p
        BY <1>2, <3>1, <3>3
      <4> QED BY <1>2, <3>1, <3>3, <4>1
    <3> QED BY <3>2, <3>3
  <2>2. order[j] \in tasks \ {task}
    BY <1>2, <1>3, <2>1
  <2>3. mem'[order[j]][PrevWord] = mem[order[j]][PrevWord]
    BY <1>1, <1>4, <2>2, TaskWords
  <2> QED BY <1>5, <2>1, <2>3 DEF prev
<1>12. ListIsExact'
  BY <1>2, <1>7, <1>8, <1>9, <1>10 DEF ListIsExact
<1> QED BY <1>11, <1>12 DEF Linked

\* A task that no process owns is freed.
LEMMA FreedTaskKeepsIInv ==
    ASSUME IInv, NEW task \in tasks \ Owned, task_free(task), UNCHANGED <<processes, leaked>>
    PROVE  IInv'
<1> DEFINE c == page_directory(mem, task)
<1>1. /\ ~ misled /\ testFrame # NULL /\ ~ undefined
      /\ c \in chunks
      /\ order' = RemoveAt(order, Place(task))
      /\ UNCHANGED <<pages, kernel, testFrame, failed, undefined, wild>>
      /\ misled' \in BOOLEAN /\ {task_head', task_tail'} \subseteq Frames
      /\ free' = free \cup FramesOf(c) \cup {task}
      /\ mem' \in Memory
      /\ \A f \in free' \cup {NULL} : mem'[f] = [b \in Index |-> Zero]
  BY TaskGone
<1>2. Once' /\ tasks' = tasks \ {task} /\ order' \in Seq(Pool)
  BY <1>1, Removed
<1>3. /\ AccountsIn(free, tasks, pages, testFrames, processBlocks, processStacks, leaked,
                    UNION {FramesOf(d) : d \in chunks})
      /\ wild # {} => failed
  BY <1>1, Accounting DEF IInv
<1>4. /\ processBlocks' = processBlocks /\ processStacks' = processStacks
      /\ leaked' = leaked /\ testFrames' = testFrames /\ pages' = pages
  BY <1>1 DEF testFrames, processBlocks, processStacks
<1>5. /\ free \in SUBSET Pool /\ FramesOf(c) \subseteq Pool /\ task \in Pool
      /\ \A d \in chunks : FramesOf(d) \cap (free \cup Held) = {}
      /\ \A d, e \in chunks : d # e => FramesOf(d) \cap FramesOf(e) = {}
  BY <1>1, InUse DEF IInv, Apart
<1> HIDE DEF c
<1>6. TypeOK'
  BY <1>1, <1>2, <1>5 DEF IInv, TypeOK, Memory
<1>7. Booting'
  BY <1>1 DEF IInv, Booting
<1>8. ProcessesHaveTasks'
  <2>1. free' \cap (processBlocks \cup processStacks) = {}
    BY <1>1, <1>3, <1>5, HeldIs DEF AccountsIn, Disjoint
  <2>2. Owned \cap tasks \subseteq tasks'
    BY <1>2
  <2>3. free' \in SUBSET Pool
    BY <1>6 DEF TypeOK
  <2> QED BY <1>1, <2>1, <2>2, <2>3, ProcessesKept
<1>9. Blank'
  BY <1>1 DEF Blank
<1>10. ASSUME ~ misled' PROVE Apart' /\ FramesAccounted' /\ Linked'
  <2>1. /\ chunks' = chunks \ {c}
        /\ \A t \in tasks' : page_directory(mem', t) = page_directory(mem, t)
        /\ \A d \in chunks' : FramesOf(d)' = FramesOf(d) /\ Whole(mem', d)
    BY <1>10, GoneSpaces DEF c
  <2>2. Held' = Held \ {task}
    BY <1>2, <1>3, <1>4, HeldIs, HeldIsNext DEF AccountsIn, Disjoint
  <2>3. Apart'
    <3>1. \A d \in chunks' : FramesOf(d)' \cap (free' \cup Held') = {}
      <4>1. ASSUME NEW d \in chunks' PROVE FramesOf(d) \cap (free' \cup Held') = {}
        <5>1. FramesOf(d) \cap (free \cup Held) = {} /\ FramesOf(d) \cap FramesOf(c) = {}
          BY <1>1, <1>5, <2>1
        <5>2. task \in Held
          BY HeldIs
        <5> QED BY <1>1, <2>2, <5>1, <5>2
      <4> QED BY <2>1, <4>1
    <3>2. \A d, e \in chunks' : d # e => FramesOf(d)' \cap FramesOf(e)' = {}
      <4>1. \A d \in chunks' : d \in chunks /\ FramesOf(d)' = FramesOf(d)
        BY <2>1
      <4> QED BY <1>5, <4>1
    <3>3. /\ \A s, t \in tasks' : page_directory(mem', s) = page_directory(mem', t) => s = t
          /\ \A t \in tasks' : page_directory(mem', t) # kernel'
      BY <1>1, <1>2, <2>1 DEF IInv, Apart
    <3> QED BY <2>1, <3>1, <3>2, <3>3 DEF Apart
  <2>4. FramesAccounted'
    <3> DEFINE inSpaces == UNION {FramesOf(d) : d \in chunks}
    <3>1. UNION {FramesOf(d)' : d \in chunks'} = inSpaces \ FramesOf(c)
      <4>1. ASSUME NEW f
            PROVE  f \in UNION {FramesOf(d)' : d \in chunks'} <=> f \in inSpaces \ FramesOf(c)
        <5>1. f \in UNION {FramesOf(d)' : d \in chunks'} <=> \E d \in chunks' : f \in FramesOf(d)'
          OBVIOUS
        <5>2. f \in UNION {FramesOf(d)' : d \in chunks'}
                <=> \E d \in chunks \ {c} : f \in FramesOf(d)
          BY <2>1, <5>1
        <5>3. f \in inSpaces <=> \E d \in chunks : f \in FramesOf(d)
          OBVIOUS
        <5> HIDE DEF inSpaces
        <5>4. \A d \in chunks \ {c} : f \in FramesOf(d) => f \notin FramesOf(c)
          BY <1>1, <1>5
        <5> QED BY <1>1, <5>2, <5>3, <5>4
      <4> QED BY <4>1
    <3>2. FramesOf(c) \subseteq inSpaces
      BY <1>1
    <3>3. FramesOf(c) \cap Held = {}
      BY <1>1, <1>5
    <3>4. AccountsIn(free, tasks, pages, testFrames, processBlocks, processStacks, leaked, inSpaces)
      BY <1>3
    <3> HIDE DEF inSpaces
    <3>5. AccountsIn(free', tasks', pages', testFrames', processBlocks', processStacks', leaked',
                     inSpaces \ FramesOf(c))
      BY <1>1, <1>2, <1>4, <1>5, <3>2, <3>3, <3>4, HeldIs DEF AccountsIn, Disjoint
    <3> QED BY <1>1, <1>3, <3>1, <3>5, AccountingNext
  <2>5. Linked'
    BY <1>10, GoneList
  <2> QED BY <2>3, <2>4, <2>5
<1>11. Apart' /\ FramesAccounted' /\ Linked'
  BY <1>10 DEF Apart, FramesAccounted, Linked
<1> QED BY <1>2, <1>6, <1>7, <1>8, <1>9, <1>11 DEF IInv

-----------------------------------------------------------------------------
(* The invariant holds *)

\* At first nothing is made and all is free.
LEMMA InitIInv == Init => IInv
<1> SUFFICES ASSUME Init PROVE IInv
  OBVIOUS
<1>1. /\ mem = [f \in Frames |-> [b \in Index |-> Zero]]
      /\ free = Pool /\ pages = {} /\ kernel = NULL /\ testFrame = NULL /\ wild = {}
      /\ task_head = NULL /\ task_tail = NULL /\ order = <<>>
      /\ failed = FALSE /\ misled = FALSE /\ undefined = FALSE
      /\ processes = <<>> /\ leaked = {}
  BY DEF Init, PagingInit, TasksInit
<1>2. /\ NULL \in Frames /\ Pool \subseteq Frames /\ NULL \notin Pool
  BY PoolIsFinite
<1>3. Zero \in Word
  BY <1>2 DEF Zero, Word
<1>4. tasks = {} /\ DOMAIN order = {} /\ DOMAIN processes = {}
  BY <1>1 DEF tasks, Range
<1>5. chunks = {} /\ processBlocks = {} /\ processStacks = {}
  BY <1>1, <1>4 DEF chunks, processBlocks, processStacks
<1>6. TypeOK
  <2>1. order \in Seq(Pool) /\ Range(processes) \subseteq Process
    BY <1>1, <1>4 DEF Range
  <2>2. mem \in [Frames -> [Index -> Word]]
    BY <1>1, <1>3
  <2> QED BY <1>1, <1>2, <1>4, <2>1, <2>2 DEF TypeOK
<1>7. Booting
  BY <1>1 DEF Booting
<1>8. Once /\ Blank
  BY <1>1, <1>2, <1>4 DEF Once, Blank
<1>9. Apart
  BY <1>4, <1>5 DEF Apart
<1>10. Linked
  BY <1>1, <1>4 DEF Linked, ListIsExact
<1>11. FramesAccounted
  <2>1. AccountsIn(free, tasks, pages, testFrames, processBlocks, processStacks, leaked,
                   UNION {FramesOf(c) : c \in chunks})
    BY <1>1, <1>4, <1>5 DEF AccountsIn, Disjoint, testFrames
  <2> QED BY <1>1, <2>1, Accounting
<1>12. ProcessesHaveTasks
  BY <1>4 DEF ProcessesHaveTasks
<1> QED BY <1>6, <1>7, <1>8, <1>9, <1>10, <1>11, <1>12 DEF IInv

\* A step that changes nothing keeps the invariant.
LEMMA StutterKeepsIInv ==
    ASSUME IInv, UNCHANGED vars
    PROVE  IInv'
<1>1. /\ UNCHANGED <<mem, free, pages, kernel, testFrame, wild>>
      /\ UNCHANGED <<task_head, task_tail, order, failed, misled, undefined>>
      /\ UNCHANGED <<processes, leaked>>
  BY DEF vars, pagingVars, taskVars
<1>2. TypeOK' /\ Booting' /\ Once' /\ Blank'
  BY <1>1 DEF IInv, TypeOK, Booting, Once, Blank
<1>3. tasks' = tasks /\ chunks' = chunks /\ \A c \in chunks : FramesOf(c)' = FramesOf(c)
  BY <1>1 DEF tasks, chunks, FramesOf
<1>4. Held' = Held /\ ProcessesHaveTasks' /\ Linked'
  <2>1. Held' = Held
    BY <1>1, <1>3 DEF Held, Holders, processBlocks, processStacks
  <2>2. ProcessesHaveTasks'
    BY <1>1, <1>3 DEF IInv, ProcessesHaveTasks, MemoryOf
  <2>3. Linked'
    BY <1>1, <1>3 DEF IInv, Linked, ListIsExact
  <2> QED BY <2>1, <2>2, <2>3
<1>5. Apart'
  BY <1>1, <1>3, <1>4 DEF IInv, Apart
<1>6. FramesAccounted'
  BY <1>1, <1>3, <1>4 DEF IInv, FramesAccounted, Holders, processBlocks, processStacks
<1> QED BY <1>2, <1>4, <1>5, <1>6 DEF IInv

\* Every step keeps the invariant.
LEMMA NextKeepsIInv == IInv /\ [Next]_vars => IInv'
<1> SUFFICES ASSUME IInv, [Next]_vars PROVE IInv'
  OBVIOUS
<1>1. CASE PagingNext /\ ~ undefined /\ ~ misled /\ UNCHANGED <<taskVars, processes, leaked>>
  <2>1. CASE kernel_main_new
    BY <1>1, <2>1, KernelSpaceKeepsIInv
  <2>2. CASE kernel_main_set
    BY <1>1, <2>2, KernelPageKeepsIInv
  <2>3. CASE kzalloc_page
    BY <1>1, <2>3, AllocatedPageKeepsIInv
  <2>4. ASSUME NEW p \in pages, kfree_page(p) PROVE IInv'
    BY <1>1, <2>4, FreedPageKeepsIInv
  <2> QED BY <1>1, <2>1, <2>2, <2>3, <2>4 DEF PagingNext
<1>2. CASE /\ task_new(free) /\ undefined' = FreesNoTask(free)
           /\ UNCHANGED <<processes, leaked>>
  <2>1. undefined' \in BOOLEAN
    BY <1>2 DEF FreesNoTask
  <2> QED BY <1>2, <2>1, NewTaskKeepsIInv
<1>3. ASSUME NEW task \in tasks \ Owned, task_free(task), UNCHANGED <<processes, leaked>>
      PROVE  IInv'
  BY <1>3, FreedTaskKeepsIInv
<1>4. CASE process_load
  BY <1>4, FirstFreeSlotKeepsIInv
<1>5. ASSUME NEW slot \in Slots, process_load_for_slot(slot) PROVE IInv'
  BY <1>5, LoadKeepsIInv
<1>6. ASSUME NEW task \in tasks, NEW p \in pages, NEW size \in BinarySizes,
             process_map_binary(task, p * PageSize, size)
      PROVE  IInv'
  BY <1>6, BinaryKeepsIInv
<1>7. CASE UNCHANGED vars
  BY <1>7, StutterKeepsIInv
<1> QED BY <1>1, <1>2, <1>3, <1>4, <1>5, <1>6, <1>7 DEF Next

\* The invariant of the whole holds in every state.
LEMMA AlwaysIInv == Spec => []IInv
<1> QED BY InitIInv, NextKeepsIInv, PTL DEF Spec

-----------------------------------------------------------------------------
(* What it says *)

\* Memory, the heap, the list and the slots keep their types, whatever becomes of
\* a stale pointer.
THEOREM TypeCorrect == Spec => []TypeOK
<1>1. IInv => TypeOK
  BY DEF IInv
<1> QED BY <1>1, AlwaysIInv, PTL

\* Until a task_free is misled, every address space that paging_new_4gb handed out
\* has a directory, a table per entry and a chunk, all different frames of the
\* heap that nobody else holds, and no two tasks share a space.
THEOREM SpacesStayWholeAndPrivate == Spec => []SpacesAreWholeAndPrivate
<1>1. IInv => SpacesAreWholeAndPrivate
  <2> SUFFICES ASSUME IInv, ~ misled
               PROVE  /\ \A c \in chunks :
                            /\ FramesOf(c) \subseteq Pool \ (free \cup Held)
                            /\ Cardinality(FramesOf(c)) = DirEntries + 2
                            /\ \A d \in chunks \ {c} : FramesOf(c) \cap FramesOf(d) = {}
                      /\ \A s, t \in tasks :
                            page_directory(mem, s) = page_directory(mem, t) => s = t
    BY DEF SpacesAreWholeAndPrivate
  <2>1. \A c \in chunks : /\ Whole(mem, c) /\ FramesOf(c) \subseteq Pool
                          /\ FramesOf(c) \cap (free \cup Held) = {}
    BY InUse
  <2>2. \A c \in chunks : Cardinality(FramesOf(c)) = DirEntries + 2
    BY <2>1, SpaceParts DEF FramesOf
  <2> QED BY <2>1, <2>2 DEF IInv, Apart
<1> QED BY <1>1, AlwaysIInv, PTL

\* Until a task_free is misled, every frame of the heap is free, in one space or
\* with one holder, through every task_new that runs out of memory half way and is
\* undone by way of page 0, and kfree is given other frames by such an undoing only.
THEOREM NoFrameLost == Spec => []FramesAccounted
<1>1. IInv => FramesAccounted
  BY DEF IInv
<1> QED BY <1>1, AlwaysIInv, PTL

\* The list that task_list_append and task_list_remove keep visits exactly the live
\* tasks until a task_free is misled, stale back pointers and all.
THEOREM ListIsExactUntilMisled == Spec => []ListHoldsUntilMisled
<1>1. IInv => ListHoldsUntilMisled
  BY DEF IInv, Linked, ListHoldsUntilMisled
<1> QED BY <1>1, AlwaysIInv, PTL

\* What process_load_for_slot put in a slot stays allocated and is nobody else's,
\* also where a process or a stack begins in the last free frames and goes on behind
\* the heap, and where a task_new that ran out of memory was not noticed.
THEOREM ProcessesKeepTheirTasks == Spec => []ProcessesHaveTasks
<1>1. IInv => ProcessesHaveTasks
  BY DEF IInv
<1> QED BY <1>1, AlwaysIInv, PTL

-----------------------------------------------------------------------------
(* The address spaces implement what is expected of them *)

\* A page is looked up in its table, at its entry.
LEMMA Lookup ==
    ASSUME NEW c, NEW v \in VirtualPages
    PROVE  Translate(c, v * PageSize) = mem[TableOf(mem, c, v \div Entries)][v % Entries]
BY PageAddress DEF Translate, Table, TableOf

\* It is so after a step as well.
LEMMA LookupNext ==
    ASSUME NEW c, NEW v \in VirtualPages
    PROVE  Translate(c, v * PageSize)' = mem'[TableOf(mem', c, v \div Entries)][v % Entries]
BY PageAddress DEF Translate, Table, TableOf

\* The maps that a set of chunks stands for, before and after a step.
LEMMA SpacesAre ==
    /\ DOMAIN Spaces = chunks /\ DOMAIN Spaces' = chunks'
    /\ \A c \in chunks : Spaces[c] = [v \in VirtualPages |-> Translate(c, v * PageSize)]
    /\ \A c \in chunks' : Spaces'[c] = [v \in VirtualPages |-> Translate(c, v * PageSize)']
BY DEF Spaces

\* A space whose frames stay as they are stands for the same map.
LEMMA SameMap ==
    ASSUME IInv, ~ misled, NEW c \in chunks, \A f \in FramesOf(c) : mem'[f] = mem[f], c \in chunks'
    PROVE  Spaces'[c] = Spaces[c]
<1>1. /\ Whole(mem, c) /\ {c, Directory(mem, c)} \subseteq FramesOf(c)
      /\ \A i \in Turns : TableOf(mem, c, i) \in FramesOf(c)
  BY InUse
<1>2. mem'[c] = mem[c] /\ mem'[Directory(mem, c)] = mem[Directory(mem, c)]
  BY <1>1
<1>3. \A i \in Turns : TableOf(mem', c, i) = TableOf(mem, c, i)
  BY <1>1, <1>2, SpaceKept
<1>4. ASSUME NEW v \in VirtualPages
      PROVE  Translate(c, v * PageSize)' = Translate(c, v * PageSize)
  <2>1. v \div Entries \in Turns
    BY Splitting
  <2>2. mem'[TableOf(mem', c, v \div Entries)] = mem[TableOf(mem, c, v \div Entries)]
    BY <1>1, <1>3, <2>1
  <2> QED BY <2>2, Lookup, LookupNext
<1>5. [v \in VirtualPages |-> Translate(c, v * PageSize)']
        = [v \in VirtualPages |-> Translate(c, v * PageSize)]
  BY <1>4
<1> QED BY <1>5, SpacesAre

\* A step that leaves alone every space is none for the maps.
LEMMA SpacesKept ==
    ASSUME IInv, ~ misled, chunks' = chunks,
           \A c \in chunks : \A f \in FramesOf(c) : mem'[f] = mem[f]
    PROVE  Spaces' = Spaces
<1>1. \A c \in chunks : Spaces'[c] = Spaces[c]
  BY SameMap
<1>2. /\ Spaces = [c \in chunks |-> [v \in VirtualPages |-> Translate(c, v * PageSize)]]
      /\ Spaces' = [c \in chunks |-> [v \in VirtualPages |-> Translate(c, v * PageSize)']]
  BY DEF Spaces
<1>3. \A c \in chunks : [v \in VirtualPages |-> Translate(c, v * PageSize)']
                          = [v \in VirtualPages |-> Translate(c, v * PageSize)]
  BY <1>1, SpacesAre
<1> QED BY <1>2, <1>3

\* A space that paging_new_4gb made is the identity, and leaves the others alone.
LEMMA SpaceCreated ==
    ASSUME IInv, ~ misled, NEW chunk, chunk \notin chunks, chunks' = chunks \cup {chunk},
           \A c \in chunks : \A f \in FramesOf(c) : mem'[f] = mem[f],
           NEW flags \in SUBSET Flags,
           \A i \in Turns, b \in Index :
              mem'[TableOf(mem', chunk, i)][b] = TableEntry(i, b, flags)
    PROVE  Abstract!Create
<1>1. \A c \in chunks : Spaces'[c] = Spaces[c]
  BY SameMap
<1>2. Abstract!Keeps(DOMAIN Spaces)
  BY <1>1, SpacesAre DEF Abstract!Keeps
<1>3. ASSUME NEW v \in VirtualPages
      PROVE  Translate(chunk, v * PageSize)' = [frame |-> v, flags |-> flags]
  <2>1. v \div Entries \in Turns /\ v % Entries \in Index
        /\ v = (v \div Entries) * Entries + (v % Entries)
    BY Splitting
  <2>2. mem'[TableOf(mem', chunk, v \div Entries)][v % Entries]
          = TableEntry(v \div Entries, v % Entries, flags)
    BY <2>1
  <2>3. TableEntry(v \div Entries, v % Entries, flags) = [frame |-> v, flags |-> flags]
    BY <2>1 DEF TableEntry
  <2> QED BY <2>2, <2>3, LookupNext
<1>4. Spaces'[chunk] = [v \in VirtualPages |-> Translate(chunk, v * PageSize)']
  BY SpacesAre
<1>5. Spaces'[chunk] = Abstract!Identity(flags)
  BY <1>3, <1>4 DEF Abstract!Identity
<1>6. /\ chunk \in DOMAIN Spaces' \ DOMAIN Spaces
      /\ DOMAIN Spaces' = DOMAIN Spaces \cup {chunk}
  BY SpacesAre
<1> QED BY <1>2, <1>5, <1>6 DEF Abstract!Create

\* A mapping in one space changes one page of it, and no other space.
LEMMA SpaceMapped ==
    ASSUME IInv, ~ misled, NEW c \in chunks, chunks' = chunks,
           NEW v \in VirtualPages, NEW val \in Word,
           mem' = paging_set(mem, Directory(mem, c), v * PageSize, val)
    PROVE  Abstract!Map
<1>1. /\ \A f \in Frames \ FramesOf(c) : mem'[f] = mem[f]
      /\ mem'[c] = mem[c] /\ mem'[Directory(mem, c)] = mem[Directory(mem, c)]
      /\ \A f \in Frames, b \in Index :
            f # TableOf(mem, c, v \div Entries) \/ b # v % Entries => mem'[f][b] = mem[f][b]
  BY Mapped
<1>2. /\ Pool \subseteq Frames
      /\ \A d \in chunks : Whole(mem, d) /\ FramesOf(d) \subseteq Pool
      /\ \A i \in Turns : TableOf(mem, c, i) \in FramesOf(c)
      /\ \A d, e \in chunks : d # e => FramesOf(d) \cap FramesOf(e) = {}
  BY InUse DEF IInv, Apart
<1>3. ASSUME NEW d \in chunks, d # c PROVE Spaces'[d] = Spaces[d]
  <2>1. \A f \in FramesOf(d) : mem'[f] = mem[f]
    BY <1>1, <1>2, <1>3
  <2> QED BY <2>1, SameMap
<1>4. \A i \in Turns : TableOf(mem', c, i) = TableOf(mem, c, i)
  BY <1>1, <1>2, SpaceKept
<1>5. ASSUME NEW w \in VirtualPages, w # v
      PROVE  Spaces'[c][w] = Spaces[c][w]
  <2>1. /\ v \div Entries \in Turns /\ v % Entries \in Index
        /\ v = (v \div Entries) * Entries + (v % Entries)
    BY Splitting
  <2>2. /\ w \div Entries \in Turns /\ w % Entries \in Index
        /\ w = (w \div Entries) * Entries + (w % Entries)
    BY Splitting
  <2>3. w \div Entries # v \div Entries \/ w % Entries # v % Entries
    BY <1>5, <2>1, <2>2
  <2>4. \A i, j \in Turns : TableOf(mem, c, i) = TableOf(mem, c, j) => i = j
    BY <1>2 DEF Whole
  <2>5. \/ TableOf(mem, c, w \div Entries) # TableOf(mem, c, v \div Entries)
        \/ w % Entries # v % Entries
    BY <2>1, <2>2, <2>3, <2>4
  <2>6. TableOf(mem, c, w \div Entries) \in Frames
    BY <1>2, <2>2
  <2>7. mem'[TableOf(mem, c, w \div Entries)][w % Entries]
          = mem[TableOf(mem, c, w \div Entries)][w % Entries]
    BY <1>1, <2>2, <2>5, <2>6
  <2>8. Translate(c, w * PageSize)' = Translate(c, w * PageSize)
    BY <1>4, <2>2, <2>7, Lookup, LookupNext
  <2> QED BY <2>8, SpacesAre
<1>6. Abstract!Keeps(DOMAIN Spaces \ {c})
  BY <1>3, SpacesAre DEF Abstract!Keeps
<1> QED BY <1>5, <1>6, SpacesAre DEF Abstract!Map

\* A space goes as a whole and leaves the others alone.
LEMMA SpaceDestroyed ==
    ASSUME IInv, ~ misled, NEW c \in chunks, chunks' = chunks \ {c},
           \A d \in chunks' : \A f \in FramesOf(d) : mem'[f] = mem[f]
    PROVE  Abstract!Destroy
<1>1. \A d \in chunks' : Spaces'[d] = Spaces[d]
  BY SameMap
<1>2. Abstract!Keeps(DOMAIN Spaces')
  BY <1>1, SpacesAre DEF Abstract!Keeps
<1> QED BY <1>2, SpacesAre DEF Abstract!Destroy

\* A task_new creates a space or does nothing to them.
LEMMA NewTaskImplements ==
    ASSUME IInv, NEW heap \in SUBSET free, task_new(heap), NewTaskKept(heap)
    PROVE  Abstract!Create \/ Spaces' = Spaces
<1>1. ~ misled /\ kernel' = kernel
  BY NewTaskCases
<1>2. CASE TaskFits(heap)
  <2>1. /\ mem' = task_list_append(Written(heap), Request(heap, 0))
        /\ order' = Append(order, Request(heap, 0))
    <3>1. Request(heap, 0) # NULL
      <4>1. heap \in SUBSET Pool
        BY DEF IInv, TypeOK
      <4> QED BY <1>2, <4>1, NoBlock
    <3> QED BY <1>2, <3>1, NewTaskCases
  <2> DEFINE chunk == ChunkAsked(Rest(heap))
  <2>2. /\ chunks' = chunks \cup {chunk} /\ chunk \notin chunks
        /\ \A c \in chunks : \A f \in FramesOf(c) : mem'[f] = mem[f]
        /\ \A i \in Turns, b \in Index :
              mem'[TableOf(mem', chunk, i)][b] = TableEntry(i, b, TaskFlags)
    BY <1>1, <1>2, <2>1, MadeSpaces
  <2>3. TaskFlags \in SUBSET Flags
    BY DEF TaskFlags, Flags
  <2> HIDE DEF chunk
  <2> QED BY <1>1, <2>2, <2>3, SpaceCreated
<1>3. CASE ~ TaskFits(heap)
  <2>1. chunks' = chunks /\ \A f \in Frames : mem'[f] = mem[f]
    BY <1>3 DEF NewTaskKept
  <2>2. \A c \in chunks : FramesOf(c) \subseteq Frames
    BY <1>1, InUse
  <2> QED BY <1>1, <2>1, <2>2, SpacesKept
<1> QED BY <1>2, <1>3

\* What a step of the kernel may do to the spaces.
AbstractStep == Abstract!Next \/ misled' \/ Spaces' = Spaces

\* What the kernel does for itself makes its space, maps its page, or leaves the
\* spaces alone.
LEMMA PagingImplements ==
    ASSUME IInv, PagingNext, ~ misled, UNCHANGED <<taskVars, processes, leaked>>
    PROVE  AbstractStep
<1>1. order' = order
  BY DEF taskVars
<1>2. CASE kernel_main_new
  <2>1. /\ chunks = {} /\ kernel' # NULL /\ testFrame = NULL
        /\ \A i \in Turns, b \in Index :
              mem'[TableOf(mem', kernel', i)][b] = TableEntry(i, b, KernelFlags)
    BY <1>2, KernelSpace, PoolIsFinite DEF kernel_main_new, IInv, Booting
  <2>2. tasks' = {}
    BY <1>1, <2>1 DEF IInv, Booting, tasks, Range
  <2>3. chunks' = chunks \cup {kernel'}
    BY <2>1, <2>2 DEF chunks
  <2>4. KernelFlags \in SUBSET Flags
    BY DEF KernelFlags, Flags
  <2>5. PICK chunk : chunk = kernel'
    OBVIOUS
  <2>6. /\ chunk \notin chunks /\ chunks' = chunks \cup {chunk}
        /\ \A c \in chunks : \A f \in FramesOf(c) : mem'[f] = mem[f]
        /\ \A i \in Turns, b \in Index :
              mem'[TableOf(mem', chunk, i)][b] = TableEntry(i, b, KernelFlags)
    BY <2>1, <2>3, <2>5
  <2>7. Abstract!Create
    BY <2>4, <2>6, SpaceCreated
  <2> QED BY <2>7 DEF AbstractStep, Abstract!Next
<1>3. CASE kernel_main_set
  <2>1. kernel \in chunks /\ kernel' = kernel /\ free # {}
    BY <1>3, InUse DEF kernel_main_set, IInv, Booting
  <2>2. PICK v \in VirtualPages : TestPage = v * PageSize
    BY PagingAssumption
  <2>3. testFrame' \in Frames
    <3>1. testFrame' = Request(free, 0) /\ free \in SUBSET Pool
      BY <1>3, InUse DEF kernel_main_set
    <3> QED BY <3>1, RequestsDiffer
  <2>4. [frame |-> testFrame', flags |-> KernelFlags] \in Word
    BY <2>3 DEF Word, KernelFlags, Flags
  <2>5. mem' = paging_set(mem, Directory(mem, kernel), v * PageSize,
                          [frame |-> testFrame', flags |-> KernelFlags])
    BY <1>3, <2>2 DEF kernel_main_set
  <2>6. \A d \in chunks : /\ mem'[d] = mem[d]
                          /\ mem'[Directory(mem, d)] = mem[Directory(mem, d)]
    BY <2>1, <2>4, <2>5, Mapped
  <2>7. \A t \in tasks : mem'[t] = mem[t]
    BY <2>1, <2>4, <2>5, Mapped
  <2>8. \A t \in tasks : page_directory(mem', t) = page_directory(mem, t)
    BY <2>7 DEF page_directory
  <2>9. chunks' = chunks
    BY <1>1, <2>1, <2>6, <2>8, Unmoved
  <2>10. Abstract!Map
    BY <2>1, <2>4, <2>5, <2>9, SpaceMapped
  <2> QED BY <2>10 DEF AbstractStep, Abstract!Next
<1>4. CASE kzalloc_page
  <2>1. mem' = mem /\ kernel' = kernel
    BY <1>4 DEF kzalloc_page
  <2>2. chunks' = chunks
    BY <1>1, <2>1 DEF chunks, tasks
  <2> QED BY <2>1, <2>2, SpacesKept DEF AbstractStep
<1>5. ASSUME NEW p \in pages, kfree_page(p) PROVE AbstractStep
  <2>1. kfree(free, mem, {p}) /\ kernel' = kernel
    BY <1>5 DEF kfree_page
  <2>2. mem \in Memory /\ free \in SUBSET Pool /\ p \in Held
    BY HeldIs, InUse
  <2>3. /\ free' = free \cup ({p} \cap Pool)
        /\ \A f \in Frames : f \notin free' \cup {NULL} => mem'[f] = mem[f]
    BY <2>1, <2>2, Freeing
  <2>4. \A t \in tasks : mem'[t] = mem[t]
    <3>1. p \notin tasks
      BY Accounting DEF IInv, AccountsIn, Disjoint
    <3> QED BY <2>3, <3>1, InUse
  <2>5. \A c \in chunks : \A f \in FramesOf(c) : mem'[f] = mem[f]
    BY <2>2, <2>3, InUse
  <2>6. \A t \in tasks : page_directory(mem', t) = page_directory(mem, t)
    BY <2>4 DEF page_directory
  <2>7. chunks' = chunks
    BY <1>1, <2>1, <2>6 DEF chunks, tasks
  <2> QED BY <2>5, <2>7, SpacesKept DEF AbstractStep
<1> QED BY <1>2, <1>3, <1>4, <1>5 DEF PagingNext

\* A load makes a space or leaves the spaces alone.
LEMMA LoadImplements ==
    ASSUME IInv, NEW slot \in Slots, process_load_for_slot(slot)
    PROVE  AbstractStep
<1>1. ~ misled
  BY LoadCases
<1>2. CASE UNCHANGED <<mem, kernel, order>>
  <2>1. chunks' = chunks /\ mem' = mem
    BY <1>2 DEF chunks, tasks
  <2> QED BY <1>1, <2>1, SpacesKept DEF AbstractStep
<1>3. CASE task_new(loadRest) /\ NewTaskKept(loadRest)
  <2>1. loadRest \in SUBSET free
    BY DEF loadRest, loadOthers
  <2>2. Abstract!Create \/ Spaces' = Spaces
    BY <1>3, <2>1, NewTaskImplements
  <2> QED BY <2>2 DEF AbstractStep, Abstract!Next
<1>4. LoadEnters(slot) => NewTaskKept(loadRest)
  BY <1>1, LoadTakes
<1>5. LoadFaults(slot) => NewTaskKept(loadRest)
  BY <1>1, LoadLoses
<1>6. /\ SlotIsTaken(slot) => UNCHANGED <<mem, kernel, order>>
      /\ LoadStops(slot) => UNCHANGED <<mem, kernel, order>>
      /\ LoadEnters(slot) \/ LoadFaults(slot) => task_new(loadRest)
  BY DEF SlotIsTaken, LoadStops, LoadEnters, LoadFaults, pagingVars, taskVars
<1> QED BY <1>2, <1>3, <1>4, <1>5, <1>6, LoadCases

\* Every step is one the specification of address spaces allows, or changes no
\* space, unless a task_free is misled.
LEMMA NextImplements == IInv /\ [Next]_vars => [Abstract!Next \/ misled']_Spaces
<1> SUFFICES ASSUME IInv, [Next]_vars PROVE AbstractStep
  BY DEF AbstractStep
<1>1. CASE PagingNext /\ ~ undefined /\ ~ misled /\ UNCHANGED <<taskVars, processes, leaked>>
  BY <1>1, PagingImplements
<1>2. CASE /\ task_new(free) /\ undefined' = FreesNoTask(free)
           /\ UNCHANGED <<processes, leaked>>
  <2>1. undefined' \in BOOLEAN
    BY <1>2 DEF FreesNoTask
  <2>2. NewTaskKept(free)
    BY <1>2, <2>1, NewTaskKeepsIInv
  <2>3. Abstract!Create \/ Spaces' = Spaces
    BY <1>2, <2>2, NewTaskImplements
  <2> QED BY <2>3 DEF AbstractStep, Abstract!Next
<1>3. ASSUME NEW task \in tasks, task_free(task) PROVE AbstractStep
  <2>1. CASE misled'
    BY <2>1 DEF AbstractStep
  <2>2. CASE ~ misled'
    <3>1. /\ ~ misled /\ page_directory(mem, task) \in chunks
          /\ chunks' = chunks \ {page_directory(mem, task)}
          /\ \A d \in chunks' : \A f \in FramesOf(d) : mem'[f] = mem[f]
      BY <1>3, <2>2, TaskGone, GoneSpaces
    <3>2. Abstract!Destroy
      BY <3>1, SpaceDestroyed
    <3> QED BY <3>2 DEF AbstractStep, Abstract!Next
  <2> QED BY <2>1, <2>2
<1>4. CASE process_load
  <2>1. process_get_free_slot \in Slots
    BY <1>4, FreeSlot
  <2> QED BY <1>4, <2>1, LoadImplements DEF process_load
<1>5. ASSUME NEW slot \in Slots, process_load_for_slot(slot) PROVE AbstractStep
  BY <1>5, LoadImplements
<1>6. ASSUME NEW task \in tasks, NEW p \in pages, NEW size \in BinarySizes,
             process_map_binary(task, p * PageSize, size)
      PROVE  AbstractStep
  <2> DEFINE c == page_directory(mem, task)
  <2>1. /\ c \in chunks /\ ~ misled
        /\ UNCHANGED <<free, pages, kernel, testFrame, wild, taskVars, processes, leaked>>
        /\ \/ mem' = mem
           \/ \E v \in VirtualPages, val \in Word :
                 mem' = paging_set(mem, Directory(mem, c), v * PageSize, val)
    BY <1>6, BinaryMaps
  <2>2. order' = order /\ kernel' = kernel
    BY <2>1 DEF taskVars
  <2>3. CASE mem' = mem
    <3>1. chunks' = chunks
      BY <2>2, <2>3 DEF chunks, tasks
    <3> QED BY <2>1, <2>3, <3>1, SpacesKept DEF AbstractStep
  <2>4. ASSUME NEW v \in VirtualPages, NEW val \in Word,
               mem' = paging_set(mem, Directory(mem, c), v * PageSize, val)
        PROVE  AbstractStep
    <3>0. c \in chunks /\ ~ misled
      BY <2>1
    <3> HIDE DEF c
    <3>1. /\ \A d \in chunks : /\ mem'[d] = mem[d]
                               /\ mem'[Directory(mem, d)] = mem[Directory(mem, d)]
          /\ \A t \in tasks : mem'[t] = mem[t]
      BY <2>4, <3>0, Mapped
    <3>2. \A t \in tasks : page_directory(mem', t) = page_directory(mem, t)
      BY <3>1 DEF page_directory
    <3>3. chunks' = chunks
      BY <2>2, <3>0, <3>1, <3>2, Unmoved
    <3>4. Abstract!Map
      BY <2>4, <3>0, <3>3, SpaceMapped
    <3> QED BY <3>4 DEF AbstractStep, Abstract!Next
  <2> QED BY <2>1, <2>3, <2>4
<1>7. CASE UNCHANGED vars
  <2>1. Spaces' = Spaces
    <3>1. mem' = mem /\ kernel' = kernel /\ order' = order
      BY <1>7 DEF vars, pagingVars, taskVars
    <3> QED BY <3>1 DEF Spaces, chunks, tasks, Translate, Table, Directory
  <2> QED BY <2>1 DEF AbstractStep
<1> QED BY <1>1, <1>2, <1>3, <1>4, <1>5, <1>6, <1>7 DEF Next

\* At first there are no spaces.
LEMMA InitImplements == Init => Abstract!Init
<1> SUFFICES ASSUME Init PROVE Spaces = <<>>
  BY DEF Abstract!Init
<1>1. kernel = NULL /\ tasks = {}
  BY DEF Init, PagingInit, TasksInit, tasks, Range
<1>2. chunks = {}
  BY <1>1 DEF chunks
<1> QED BY <1>2 DEF Spaces

\* Address spaces are isolated and keep their mappings: what paging_new_4gb,
\* paging_set and paging_free_4gb write to memory, read back through the
\* directories and tables, are maps each of which comes as the identity, changes
\* only at a page mapped in it and goes as a whole, until a task_free is misled.
THEOREM SpacesImplementMaps == Spec => AbstractSpec
<1> QED BY InitImplements, NextImplements, AlwaysIInv, PTL DEF Spec, AbstractSpec

===============================================================================
