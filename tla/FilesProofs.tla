------------------------------ MODULE FilesProofs ------------------------------
(***************************************************************************)
(* Opening and reading files for every disk, heap and table. A slot of the *)
(* table is taken only while it is empty and filled in the same call, and  *)
(* a slot in use is never NULL. What a search leaves of the heap tells     *)
(* what it found: an entry that could not be cloned leaves nothing, and    *)
(* then there is no descriptor either. What the search finds is what the   *)
(* format says, on a disk the format describes.                            *)
(***************************************************************************)
EXTENDS Files, Recursions, FiniteSetTheorems, SequenceTheorems, TLAPS

-----------------------------------------------------------------------------
(* The first and the last of some numbers *)

\* Min is the least element.
LEMMA MinIsLeast ==
    ASSUME NEW S \in SUBSET Nat, S # {}
    PROVE  Min(S) \in S /\ \A k \in S : Min(S) <= k
<1>1. \E m \in S : \A k \in S : m <= k
  BY LeastElement
<1> QED
  BY <1>1 DEF Min

\* Two numbers have one, too.
LEMMA MinOfTwo ==
    ASSUME NEW a \in Int, NEW b \in Int
    PROVE  Min({a, b}) = IF a <= b THEN a ELSE b
<1>1. \E m \in {a, b} : \A k \in {a, b} : m <= k
  OBVIOUS
<1>2. Min({a, b}) \in {a, b} /\ \A k \in {a, b} : Min({a, b}) <= k
  BY <1>1 DEF Min
<1> QED
  BY <1>2

\* The end mark of a directory is the first entry with no name, or there is none.
LEMMA EndMarkIsFirst ==
    ASSUME NEW d \in Disks
    PROVE  /\ Len(d.slots) \in Nat
           /\ EndMark(d.slots) \in 0..Len(d.slots)
           /\ \A i \in 1..(EndMark(d.slots) - 1) : d.slots[i].filename[1] # NUL
<1> DEFINE I == {i \in 1..Len(d.slots) : d.slots[i].filename[1] = NUL}
<1>1. Len(d.slots) \in Nat
  BY DisksAssumption
<1>2. EndMark(d.slots) = IF I # {} THEN Min(I) ELSE 0
  BY DEF EndMark, SelectInSeq
<1>3. CASE I = {}
  BY <1>1, <1>2, <1>3
<1>4. CASE I # {}
  <2>1. Min(I) \in I /\ \A k \in I : Min(I) <= k
    <3>1. I \in SUBSET Nat
      BY <1>1
    <3> HIDE DEF I
    <3> QED
      BY <1>4, <3>1, MinIsLeast
  <2>2. EndMark(d.slots) = Min(I)
    BY <1>2, <1>4
  <2>3. ASSUME NEW i \in 1..(Min(I) - 1) PROVE d.slots[i].filename[1] # NUL
    <3>1. i \in 1..Len(d.slots) /\ ~ Min(I) <= i
      BY <1>1, <2>1
    <3> QED
      BY <2>1, <3>1
  <2> HIDE DEF I
  <2>4. Min(I) \in 0..Len(d.slots)
    BY <1>1, <2>1 DEF I
  <2> QED
    BY <1>1, <2>2, <2>3, <2>4
<1> QED
  BY <1>3, <1>4

\* The items of a directory are not more than the entries before its end mark,
\* and as many when nothing was deleted.
LEMMA ItemsAreCounted ==
    ASSUME NEW d \in Disks
    PROVE  LET total == fat16_get_total_items_for_directory(d.slots)
               before == {i \in 1..(EndMark(d.slots) - 1) :
                             d.slots[i].filename[1] # DELETED}
           IN  /\ total \in Nat
               /\ EndMark(d.slots) = 0 => total = 0
               /\ EndMark(d.slots) # 0 => total <= EndMark(d.slots) - 1
               /\ before = 1..(EndMark(d.slots) - 1) /\ EndMark(d.slots) # 0
                     => total = EndMark(d.slots) - 1
<1> DEFINE last == EndMark(d.slots) - 1
           before == {i \in 1..last : d.slots[i].filename[1] # DELETED}
<1>1. last \in Int /\ last >= -1
  BY EndMarkIsFirst
<1> HIDE DEF last
<1>2. IsFiniteSet(1..last) /\ Cardinality(1..last) = IF 1 > last THEN 0 ELSE last
  BY <1>1, FS_Interval
<1>3. before \in SUBSET (1..last)
  OBVIOUS
<1>4. fat16_get_total_items_for_directory(d.slots) = Cardinality(before)
  BY DEF last, fat16_get_total_items_for_directory
<1>5. EndMark(d.slots) = last + 1
  BY EndMarkIsFirst DEF last
<1> HIDE DEF before
<1>6. IsFiniteSet(before) /\ Cardinality(before) <= Cardinality(1..last)
  BY <1>2, <1>3, FS_Subset
<1>7. Cardinality(before) \in Nat
  BY <1>6, FS_CardinalityType
<1>8. /\ Cardinality(before) \in Nat
      /\ EndMark(d.slots) = 0 => Cardinality(before) = 0
      /\ EndMark(d.slots) # 0 => Cardinality(before) <= last
      /\ before = 1..last /\ EndMark(d.slots) # 0 => Cardinality(before) = last
  BY <1>1, <1>2, <1>5, <1>6, <1>7
<1> QED
  BY <1>4, <1>8 DEF before, last

-----------------------------------------------------------------------------
(* What a search finds, and what it leaves of the heap *)

Results == [item : Int, left : Nat]

\* An item takes its blocks while there are any, and is without its entry only
\* when it leaves none.
LEMMA ItemFromHeap ==
    ASSUME NEW i \in Nat \ {0}, NEW heap \in Nat
    PROVE  LET r == fat16_new_fat_item(i, heap)
           IN  /\ r \in Results
               /\ r.left <= heap
               /\ r.item \in {NULL, Uncloned, i}
               /\ r.item = Uncloned => r.left = 0
BY DEF fat16_new_fat_item, fat16_load_fat_directory, Results, NULL, Uncloned

\* The search as a walk along the entries of the directory.
Walk(f, part, heap) ==
    LET total == fat16_get_total_items_for_directory(disk.slots)
    IN  /\ f \in [0..total -> Results]
        /\ f[0] = [item |-> NULL, left |-> heap]
        /\ \A i \in 1..total :
              f[i] = IF i \in Matches(disk.slots, part)
                     THEN fat16_new_fat_item(i, f[i - 1].left) ELSE f[i - 1]
        /\ fat16_find_item_in_directory(part, heap) = f[total]

\* Every search is one.
LEMMA SearchWalks ==
    ASSUME disk \in Disks, NEW part, NEW heap \in Nat
    PROVE  \E f : Walk(f, part, heap)
<1> DEFINE total == fat16_get_total_items_for_directory(disk.slots)
           first == [item |-> NULL, left |-> heap]
           Step(i, v) == IF i \in Matches(disk.slots, part)
                         THEN fat16_new_fat_item(i, v.left) ELSE v
           F == [i \in 1..total |-> [v \in Results |-> Step(i, v)]]
           Good(f) == f = [i \in 0..total |-> IF i = 0 THEN first ELSE Step(i, f[i - 1])]
           found == CHOOSE f : Good(f)
<1>1. total \in Nat
  BY ItemsAreCounted
<1>2. fat16_find_item_in_directory(part, heap) = found[total]
  BY DEF fat16_find_item_in_directory
<1>3. first \in Results
  BY DEF Results, NULL
<1>4. \A i \in 1..total : \A v \in Results : Step(i, v) \in Results
  BY <1>1, ItemFromHeap DEF Results
<1> HIDE DEF total, first, Step
<1>5. Recursive(0, total, Results, first, F)
  BY <1>1, <1>3, <1>4 DEF Recursive
<1>6. PICK f \in [0..total -> Results] :
             f[0] = first /\ \A i \in (0 + 1)..total : f[i] = F[i][f[i - 1]]
  <2> HIDE DEF F
  <2> QED
    BY <1>5, Recursion
<1>7. \A i \in 1..total : f[i] = Step(i, f[i - 1])
  <2> SUFFICES ASSUME NEW i \in 1..total PROVE f[i] = Step(i, f[i - 1])
    OBVIOUS
  <2>1. i - 1 \in 0..total /\ i \in (0 + 1)..total
    BY <1>1
  <2>2. f[i] = F[i][f[i - 1]]
    BY <1>6, <2>1
  <2>3. f[i - 1] \in Results
    BY <1>6, <2>1
  <2> QED
    BY <2>2, <2>3
<1>8. Good(f)
  BY <1>6, <1>7
<1>9. Good(found)
  <2> HIDE DEF Good
  <2> QED
    BY <1>8
<1> HIDE DEF found
<1>10. /\ found[0] = first
       /\ \A i \in 1..total : found[i] = Step(i, found[i - 1])
       /\ DOMAIN found = 0..total
  BY <1>1, <1>9
<1>11. 0..total \subseteq {i \in 0..total : found[i] \in Results}
  <2> DEFINE S == {i \in 0..total : found[i] \in Results}
  <2>1. 0 \in S
    BY <1>1, <1>3, <1>10
  <2>2. ASSUME NEW i \in 0..(total - 1), i \in S PROVE i + 1 \in S
    <3>1. i + 1 \in 1..total /\ (i + 1) - 1 = i
      BY <1>1
    <3> QED
      BY <1>4, <1>10, <2>2, <3>1
  <2>3. 0 \in Int /\ total \in Int
    BY <1>1
  <2> HIDE DEF S
  <2>4. 0..total \subseteq S
    BY <2>1, <2>2, <2>3, AllAlong
  <2> QED
    BY <2>4 DEF S
<1>12. found \in [0..total -> Results]
  BY <1>9, <1>11
<1> QED
  BY <1>2, <1>10, <1>12 DEF Walk, first, Step, total

\* What is found is an entry of that name, or one that left nothing.
LEMMA SearchFinds ==
    ASSUME disk \in Disks, NEW part, NEW heap \in Nat
    PROVE  LET r == fat16_find_item_in_directory(part, heap)
           IN  /\ r.left \in 0..heap
               /\ r.item \in Matches(disk.slots, part) \cup {NULL, Uncloned}
               /\ r.item = Uncloned => r.left = 0
<1> DEFINE total == fat16_get_total_items_for_directory(disk.slots)
           M == Matches(disk.slots, part)
           Fine(r) == /\ r.left \in 0..heap
                      /\ r.item \in M \cup {NULL, Uncloned}
                      /\ r.item = Uncloned => r.left = 0
<1>1. total \in Nat
  BY ItemsAreCounted
<1>2. PICK f : Walk(f, part, heap)
  BY SearchWalks
<1>3. /\ f[0] = [item |-> NULL, left |-> heap]
      /\ \A i \in 1..total :
            f[i] = IF i \in M THEN fat16_new_fat_item(i, f[i - 1].left) ELSE f[i - 1]
      /\ fat16_find_item_in_directory(part, heap) = f[total]
  BY <1>2 DEF Walk
<1> DEFINE S == {i \in 0..total : Fine(f[i])}
<1>4. 0 \in S
  BY <1>1, <1>3 DEF Uncloned, NULL
<1>5. ASSUME NEW i \in 0..(total - 1), i \in S PROVE i + 1 \in S
  <2>1. i + 1 \in 1..total /\ (i + 1) - 1 = i /\ i + 1 \in Nat \ {0}
    BY <1>1
  <2>2. Fine(f[i])
    BY <1>5
  <2>3. f[i].left \in Nat /\ f[i].left <= heap
    BY <2>2
  <2>4. CASE i + 1 \in M
    <3> DEFINE r == fat16_new_fat_item(i + 1, f[i].left)
    <3>1. f[i + 1] = r
      BY <1>3, <2>1, <2>4
    <3>2. /\ r \in Results
          /\ r.left <= f[i].left
          /\ r.item \in {NULL, Uncloned, i + 1}
          /\ r.item = Uncloned => r.left = 0
      BY <2>1, <2>3, ItemFromHeap
    <3> HIDE DEF r, M
    <3>3. Fine(r)
      BY <2>3, <2>4, <3>2 DEF Results
    <3> QED
      BY <1>1, <2>1, <3>1, <3>3
  <2>5. CASE i + 1 \notin M
    <3>1. f[i + 1] = f[i]
      BY <1>3, <2>1, <2>5
    <3> HIDE DEF Fine
    <3> QED
      BY <1>1, <2>1, <2>2, <3>1
  <2> QED
    BY <2>4, <2>5
<1>6. 0 \in Int /\ total \in Int
  BY <1>1
<1>7. total \in S
  <2> HIDE DEF S, total
  <2>1. 0..total \subseteq S
    BY <1>4, <1>5, <1>6, AllAlong
  <2> QED
    BY <1>1, <2>1
<1> QED
  BY <1>3, <1>7

\* The entries of a name are entries of the directory.
LEMMA MatchesAreEntries ==
    ASSUME NEW d \in Disks, NEW part
    PROVE  /\ Matches(d.slots, part) \subseteq 1..Len(d.slots)
           /\ IsFiniteSet(Matches(d.slots, part))
<1> DEFINE total == fat16_get_total_items_for_directory(d.slots)
<1>1. total \in Nat /\ total <= Len(d.slots) /\ Len(d.slots) \in Nat
  BY EndMarkIsFirst, ItemsAreCounted
<1>2. Matches(d.slots, part) \in SUBSET (1..total)
  BY DEF Matches
<1> HIDE DEF total
<1>3. IsFiniteSet(1..total)
  BY <1>1, FS_Interval
<1> QED
  BY <1>1, <1>2, <1>3, FS_Subset

-----------------------------------------------------------------------------
(* What the parser makes of a path, and of the heap *)

\* The parts of a path are some of what lies between its slashes, up to an empty one.
LEMMA PartsAreSome ==
    ASSUME NEW path \in Paths
    PROVE  /\ Parts(path) \in Seq(Range(path.parts))
           /\ Len(Parts(path)) \in 0..Len(path.parts)
<1> DEFINE ended == Append(path.parts, <<>>)
           I == {i \in 1..Len(ended) : ended[i] = <<>>}
           k == SelectInSeq(ended, LAMBDA part : part = <<>>)
<1>1. path.parts \in Seq(Range(path.parts)) /\ Len(path.parts) \in Nat
  BY PathsAssumption
<1>2. Len(ended) = Len(path.parts) + 1 /\ ended[Len(path.parts) + 1] = <<>>
  BY <1>1
<1> HIDE DEF ended
<1>3. k = IF I # {} THEN Min(I) ELSE 0
  BY DEF SelectInSeq
<1>4. Len(path.parts) + 1 \in I /\ I \in SUBSET Nat
  BY <1>1, <1>2
<1>5. I # {}
  BY <1>4
<1>6. Min(I) \in I
  <2> HIDE DEF I
  <2> QED
    BY <1>4, <1>5, MinIsLeast
<1>7. k \in 1..(Len(path.parts) + 1)
  <2> HIDE DEF k
  <2> QED
    BY <1>2, <1>3, <1>5, <1>6
<1> HIDE DEF k
<1>8. Parts(path) = SubSeq(path.parts, 1, k - 1)
  BY DEF Parts, k, ended
<1> QED
  BY <1>1, <1>7, <1>8

\* Unless it leaves nothing, the parser makes all parts of a path or none.
LEMMA ParserLeaves ==
    ASSUME NEW path \in Paths, NEW heap \in Nat
    PROVE  LET r == pathparser_parse(path, heap)
           IN  /\ r.left \in 0..heap
               /\ r.wild \in BOOLEAN
               /\ r.wild => r.left = 0
               /\ r.parts # <<>> /\ r.left > 0 => r.parts = Parts(path)
               /\ path.valid /\ heap > 1 + 2 * Len(Parts(path))
                     => /\ r.parts = Parts(path)
                        /\ r.left = heap - 1 - 2 * Len(Parts(path))
<1> DEFINE parts == Parts(path)
           whole == Min({Len(parts), (heap - 1) \div 2})
           r == pathparser_parse(path, heap)
<1>1. parts \in Seq(Range(path.parts)) /\ Len(parts) \in Nat
  BY PartsAreSome
<1> HIDE DEF parts, r
<1>2. SubSeq(parts, 1, Len(parts)) = parts
  BY <1>1
<1> SUFFICES /\ r.left \in 0..heap
             /\ r.wild \in BOOLEAN
             /\ r.wild => r.left = 0
             /\ r.parts # <<>> /\ r.left > 0 => r.parts = parts
             /\ path.valid /\ heap > 1 + 2 * Len(parts)
                   => r.parts = parts /\ r.left = heap - 1 - 2 * Len(parts)
  BY DEF parts, r
<1>3. CASE ~ path.valid \/ heap = 0
  <2>1. r = [parts |-> <<>>, left |-> heap, wild |-> FALSE]
    BY <1>3 DEF r, pathparser_parse
  <2>2. ~ (path.valid /\ heap > 1 + 2 * Len(parts))
    BY <1>1, <1>3
  <2> QED
    BY <2>1, <2>2
<1>4. CASE path.valid /\ heap # 0
  <2>1. (heap - 1) \div 2 \in Nat
    BY <1>4
  <2>2. whole = IF Len(parts) <= (heap - 1) \div 2 THEN Len(parts) ELSE (heap - 1) \div 2
    BY <1>1, <2>1, MinOfTwo
  <2> HIDE DEF whole
  <2>3. r = [parts |-> SubSeq(parts, 1, whole),
             left |-> IF whole = Len(parts) THEN heap - 1 - 2 * whole ELSE 0,
             wild |-> heap = 1 + 2 * Len(parts)]
    BY <1>4 DEF pathparser_parse, parts, whole, r
  <2>4. heap = 1 + 2 * Len(parts) => whole = Len(parts)
    BY <1>1, <1>4, <2>1, <2>2
  <2>5. heap > 1 + 2 * Len(parts) => whole = Len(parts)
    BY <1>1, <1>4, <2>1, <2>2
  <2>6. whole = Len(parts) => heap - 1 - 2 * whole \in 0..heap
    BY <1>1, <1>4, <2>1, <2>2
  <2>7. r.left \in 0..heap
    BY <2>3, <2>6
  <2>8. r.wild \in BOOLEAN /\ (r.wild => r.left = 0)
    <3>1. r.wild = (heap = 1 + 2 * Len(parts))
      BY <2>3, Zenon
    <3>2. heap = 1 + 2 * Len(parts) => r.left = 0
      <4>1. heap = 1 + 2 * Len(parts) => r.left = heap - 1 - 2 * Len(parts)
        BY <2>3, <2>4
      <4> QED
        BY <1>1, <4>1
    <3> QED
      BY <3>1, <3>2
  <2>9. r.left > 0 => r.parts = parts
    BY <1>2, <2>3
  <2>10. heap > 1 + 2 * Len(parts) => r.parts = parts /\ r.left = heap - 1 - 2 * Len(parts)
    BY <1>2, <2>3, <2>5
  <2> QED
    BY <2>7, <2>8, <2>9, <2>10
<1> QED
  BY <1>3, <1>4

-----------------------------------------------------------------------------
(* What opening comes to *)

\* A descriptor asked for while there is memory is for an entry the whole path
\* names: a path that lost its end, or an entry that was not cloned, left none.
LEMMA OpenFinds ==
    ASSUME disk \in Disks, NEW path \in Paths, NEW heap \in Nat
    PROVE  LET parsed == pathparser_parse(path, heap)
               opened == fat16_open(parsed.parts, parsed.left)
           IN  /\ opened.left \in 0..heap
               /\ opened.item \in (-1)..Len(disk.slots)
               /\ parsed.wild => opened.item = NULL
               /\ parsed.parts # <<>> /\ opened.item # NULL /\ opened.left > 0 =>
                     /\ parsed.parts = Parts(path)
                     /\ Len(Parts(path)) = 1
                     /\ opened.item \in Matches(disk.slots, Parts(path)[1])
<1> DEFINE parsed == pathparser_parse(path, heap)
           parts == parsed.parts
           left == parsed.left
           opened == fat16_open(parts, left)
           found == fat16_find_item_in_directory(parts[1], left - 1)
<1>1. /\ left \in 0..heap
      /\ parsed.wild => left = 0
      /\ parts # <<>> /\ left > 0 => parts = Parts(path)
  BY ParserLeaves
<1>2. Len(Parts(path)) \in Nat /\ (Parts(path) # <<>> => Len(Parts(path)) # 0)
  BY PartsAreSome
<1> HIDE DEF parsed, parts, left
<1>3. Len(disk.slots) \in Nat
  BY EndMarkIsFirst
<1> SUFFICES /\ opened.left \in 0..heap
             /\ opened.item \in (-1)..Len(disk.slots)
             /\ parsed.wild => opened.item = NULL
             /\ parts # <<>> /\ opened.item # NULL /\ opened.left > 0 =>
                   /\ parts = Parts(path)
                   /\ Len(Parts(path)) = 1
                   /\ opened.item \in Matches(disk.slots, Parts(path)[1])
  BY Zenon DEF parsed, parts, left
<1>4. CASE left = 0
  <2>1. opened.item = NULL /\ opened.left = 0
    BY <1>4 DEF fat16_open
  <2> HIDE DEF opened
  <2> QED
    BY <1>1, <1>3, <2>1 DEF NULL
<1>5. CASE left # 0
  <2>1. left - 1 \in Nat
    BY <1>1, <1>5
  <2>2. /\ found.left \in 0..(left - 1)
        /\ found.item \in Matches(disk.slots, parts[1]) \cup {NULL, Uncloned}
        /\ found.item = Uncloned => found.left = 0
    BY <2>1, SearchFinds
  <2>3. Matches(disk.slots, parts[1]) \subseteq 1..Len(disk.slots)
    BY MatchesAreEntries
  <2> HIDE DEF found
  <2>4. opened = IF Len(parts) > 1 THEN [found EXCEPT !.item = NULL] ELSE found
    BY <1>5 DEF fat16_open, fat16_get_directory_entry, found
  <2>5. found \in Results
    <3>1. PICK f : Walk(f, parts[1], left - 1)
      BY <2>1, SearchWalks
    <3>2. fat16_get_total_items_for_directory(disk.slots) \in Nat
      BY ItemsAreCounted
    <3> QED
      BY <3>1, <3>2 DEF Walk, found
  <2> HIDE DEF opened
  <2>6. opened.left = found.left /\ opened.item \in {found.item, NULL}
    BY <2>4, <2>5 DEF Results
  <2>7. opened.left \in 0..heap /\ opened.item \in (-1)..Len(disk.slots)
    BY <1>1, <1>3, <2>2, <2>3, <2>6 DEF NULL, Uncloned
  <2>8. ~ parsed.wild
    BY <1>1, <1>5
  <2>9. ASSUME parts # <<>>, opened.item # NULL, opened.left > 0
        PROVE  /\ parts = Parts(path)
               /\ Len(Parts(path)) = 1
               /\ opened.item \in Matches(disk.slots, Parts(path)[1])
    <3>1. parts = Parts(path)
      BY <1>1, <1>5, <2>9
    <3>2. ~ Len(parts) > 1
      BY <2>4, <2>5, <2>9 DEF Results
    <3>3. Len(Parts(path)) = 1
      <4>1. Parts(path) # <<>> /\ ~ Len(Parts(path)) > 1
        BY <2>9, <3>1, <3>2, Zenon
      <4>2. Len(Parts(path)) # 0
        BY <1>2, <4>1, Zenon
      <4>3. Len(Parts(path)) \in Nat /\ ~ Len(Parts(path)) > 1
        BY <1>2, <4>1, Zenon
      <4>4. \A n \in Nat : n # 0 /\ ~ n > 1 => n = 1
        OBVIOUS
      <4> QED
        BY <4>2, <4>3, <4>4, Zenon
    <3>4. found.item # Uncloned
      BY <2>2, <2>6, <2>9
    <3> QED
      BY <2>2, <2>6, <2>9, <3>1, <3>3, <3>4
  <2> QED
    BY <2>7, <2>8, <2>9
<1> QED
  BY <1>4, <1>5

-----------------------------------------------------------------------------
(* The invariant *)

\* What is not free is held by others or by the objects that stay, and others
\* hold something only after those were made.
Accounted == /\ free + others <= Blocks
             /\ others > 0 => Booted

IInv == TypeOK /\ Accounted /\ HandlesStayBound /\ StoredItemsAreWhole

\* The invariant holds before anything is opened.
LEMMA InitHolds == Init => IInv
<1> SUFFICES ASSUME Init PROVE IInv
  OBVIOUS
<1>1. Len(disk.slots) \in Nat
  BY EndMarkIsFirst DEF Init
<1>2. TypeOK
  <2>1. file_descriptors \in [1..MaxDescriptors -> (-1)..Len(disk.slots)]
    BY <1>1 DEF Init, NULL
  <2>2. free \in 0..Blocks /\ others \in 0..MaxOthers
    BY FilesAssumption DEF Init
  <2> QED
    BY <2>1, <2>2 DEF Init, TypeOK
<1>3. Accounted
  BY FilesAssumption DEF Init, Accounted
<1>4. HandlesStayBound
  BY DEF Init, HandlesStayBound
<1>5. StoredItemsAreWhole
  BY DEF Init, StoredItemsAreWhole, NULL, Uncloned
<1> QED
  BY <1>2, <1>3, <1>4, <1>5 DEF IInv

\* A call of fopen stores an entry the whole path names in an empty slot,
\* returns the number of an empty slot without storing anything, or does
\* neither; and the last, when it passed NULL to kfree.
LEMMA FopenDoes ==
    ASSUME IInv, NEW path \in Paths, NEW mode, fopen(path, mode)
    PROVE  /\ UNCHANGED <<disk, filesystem, others>>
           /\ free' \in 0..free
           /\ wild' \in BOOLEAN
           /\ \/ UNCHANGED <<file_descriptors, handles>>
              \/ /\ wild' = wild
                 /\ Len(Parts(path)) = 1
                 /\ \E slot \in FirstEmpty, item \in Matches(disk.slots, Parts(path)[1]) :
                       Bind(slot, item, path)
              \/ /\ wild' = wild
                 /\ \E slot \in FirstEmpty, item \in (-1)..Len(disk.slots) :
                       Starve(slot, item, path)
<1> DEFINE parsed == pathparser_parse(path, free)
           opened == fat16_open(parsed.parts, parsed.left)
<1>1. disk \in Disks /\ free \in Nat /\ wild \in BOOLEAN
  BY FilesAssumption DEF IInv, TypeOK
<1>2. /\ opened.left \in 0..free
      /\ opened.item \in (-1)..Len(disk.slots)
      /\ parsed.wild => opened.item = NULL
      /\ parsed.parts # <<>> /\ opened.item # NULL /\ opened.left > 0 =>
            /\ parsed.parts = Parts(path)
            /\ Len(Parts(path)) = 1
            /\ opened.item \in Matches(disk.slots, Parts(path)[1])
  BY <1>1, OpenFinds
<1>3. parsed.left \in 0..free /\ parsed.wild \in BOOLEAN
  BY <1>1, ParserLeaves
<1>4. /\ wild' = (wild \/ parsed.wild)
      /\ UNCHANGED <<disk, filesystem, others>>
      /\ \/ free' = parsed.left /\ UNCHANGED <<file_descriptors, handles>>
         \/ free' = opened.left /\ UNCHANGED <<file_descriptors, handles>>
         \/ /\ parsed.parts # <<>>
            /\ opened.item # NULL
            /\ opened.left > 0
            /\ free' = opened.left - 1
            /\ \E slot \in FirstEmpty : Bind(slot, opened.item, path)
         \/ /\ opened.item # NULL
            /\ free' = 0
            /\ \E slot \in FirstEmpty : Starve(slot, opened.item, path)
  BY DEF fopen, Accepted
<1> HIDE DEF parsed, opened
<1>5. wild' \in BOOLEAN
  BY <1>1, <1>3, <1>4, Zenon
<1>6. free' \in 0..free
  BY <1>1, <1>2, <1>3, <1>4
<1>7. opened.item # NULL => wild' = wild
  BY <1>1, <1>2, <1>3, <1>4, Zenon
<1> QED
  BY <1>2, <1>4, <1>5, <1>6, <1>7, Zenon

\* Storing a descriptor in an empty slot: no handle had that number, since
\* the slots of handles are not empty.
LEMMA BindKeeps ==
    ASSUME HandlesStayBound, DOMAIN file_descriptors = 1..MaxDescriptors,
           NEW slot \in FirstEmpty, NEW item, item # NULL, NEW path,
           Bind(slot, item, path)
    PROVE  HandlesStayBound'
<1>1. slot \in 1..MaxDescriptors /\ file_descriptors[slot] = NULL
  BY DEF FirstEmpty, Least, Empty
<1>2. \A h \in handles : ~ h.starved => h.fd # slot
  BY <1>1 DEF HandlesStayBound
<1> DEFINE new == [fd |-> slot, path |-> path, item |-> item, starved |-> FALSE]
<1>3. /\ handles' = handles \cup {new}
      /\ file_descriptors' = [file_descriptors EXCEPT ![slot] = item]
  BY DEF Bind
<1>4. file_descriptors'[slot] = item
  BY <1>1, <1>3
<1>5. ASSUME NEW h \in handles, ~ h.starved
      PROVE  h.fd \in 1..MaxDescriptors /\ h.item # NULL /\ file_descriptors'[h.fd] = h.item
  BY <1>2, <1>3, <1>5 DEF HandlesStayBound
<1> SUFFICES ASSUME NEW h \in handles', ~ h.starved
             PROVE  /\ h.fd \in 1..MaxDescriptors
                    /\ h.item # NULL
                    /\ file_descriptors'[h.fd] = h.item
                    /\ \A g \in handles' : ~ g.starved /\ g.fd = h.fd => g = h
  BY DEF HandlesStayBound
<1>6. CASE h \in handles
  <2>1. \A g \in handles : ~ g.starved /\ g.fd = h.fd => g = h
    BY <1>6 DEF HandlesStayBound
  <2>2. h.fd # new.fd
    BY <1>2, <1>6
  <2> QED
    BY <1>3, <1>5, <1>6, <2>1, <2>2
<1>7. CASE h = new
  <2>1. \A g \in handles : ~ g.starved => g.fd # h.fd
    BY <1>2, <1>7
  <2>2. h.fd = slot /\ h.item = item
    BY <1>7
  <2> QED
    BY <1>1, <1>3, <1>4, <1>7, <2>1, <2>2
<1> QED
  BY <1>3, <1>6, <1>7

\* A handle whose descriptor is missing is exempt, and takes no slot.
LEMMA StarveKeeps ==
    ASSUME HandlesStayBound, NEW slot, NEW item, NEW path, Starve(slot, item, path)
    PROVE  HandlesStayBound'
<1> DEFINE new == [fd |-> slot, path |-> path, item |-> item, starved |-> TRUE]
<1>1. handles' = handles \cup {new} /\ file_descriptors' = file_descriptors
  BY DEF Starve
<1>2. new.starved
  OBVIOUS
<1> QED
  BY <1>1, <1>2 DEF HandlesStayBound

\* fopen keeps the invariant.
LEMMA FopenKeeps ==
    ASSUME IInv, NEW path \in Paths, NEW mode, Booted, fopen(path, mode)
    PROVE  IInv'
<1>1. /\ UNCHANGED <<disk, filesystem, others>>
      /\ free' \in 0..free
      /\ wild' \in BOOLEAN
  BY FopenDoes
<1>2. /\ TypeOK /\ Accounted /\ HandlesStayBound /\ StoredItemsAreWhole
      /\ free \in 0..Blocks /\ others \in 0..MaxOthers
      /\ MaxOthers \in Nat /\ Blocks \in Nat
      /\ Len(disk.slots) \in Nat
  BY EndMarkIsFirst, FilesAssumption DEF IInv, TypeOK
<1>3. Accounted'
  <2>1. free' + others' <= free + others /\ free + others < Blocks /\ free' + others' \in Int
    <3>1. free' \in Int /\ free' <= free /\ others' = others
      BY <1>1, <1>2
    <3>2. free + others < Blocks
      BY DEF Booted
    <3>3. \A a, b, c \in Int : a <= b => a + c <= b + c /\ a + c \in Int
      OBVIOUS
    <3>4. free \in Int /\ others \in Int
      BY <1>2
    <3> QED
      BY <3>1, <3>2, <3>3, <3>4, Zenon
  <2>2. free' + others' < Blocks
    <3>1. \A a, b, c \in Int : a <= b /\ b < c => a < c
      OBVIOUS
    <3>2. free + others \in Int /\ Blocks \in Int
      BY <1>2
    <3> QED
      BY <2>1, <3>1, <3>2, Zenon
  <2> QED
    BY <1>2, <2>1, <2>2 DEF Accounted, Booted
<1>4. ASSUME UNCHANGED <<file_descriptors, handles>> PROVE IInv'
  <2>1. TypeOK'
    BY <1>1, <1>2, <1>4 DEF TypeOK
  <2>2. HandlesStayBound' /\ StoredItemsAreWhole'
    BY <1>2, <1>4 DEF HandlesStayBound, StoredItemsAreWhole
  <2> QED
    BY <1>3, <2>1, <2>2 DEF IInv
<1> HIDE DEF IInv
<1>5. ASSUME NEW slot \in FirstEmpty, NEW item \in Matches(disk.slots, Parts(path)[1]),
             Bind(slot, item, path)
      PROVE  IInv'
  <2>1. slot \in 1..MaxDescriptors
    BY DEF FirstEmpty, Least, Empty
  <2>2. item \in 1..Len(disk.slots)
    BY <1>2, MatchesAreEntries DEF TypeOK
  <2>3. /\ file_descriptors' = [file_descriptors EXCEPT ![slot] = item]
        /\ handles' = handles \cup
              {[fd |-> slot, path |-> path, item |-> item, starved |-> FALSE]}
    BY <1>5 DEF Bind
  <2>4. file_descriptors \in [1..MaxDescriptors -> (-1)..Len(disk.slots)]
    BY <1>2 DEF TypeOK
  <2>5. file_descriptors' \in [1..MaxDescriptors -> (-1)..Len(disk.slots)]
    BY <1>2, <2>1, <2>2, <2>3, <2>4
  <2>6. TypeOK'
    <3>1. free' \in 0..Blocks
      BY <1>1, <1>2
    <3>2. \A h \in handles' : /\ h.fd \in 1..MaxDescriptors
                             /\ h.path \in Paths
                             /\ h.starved \in BOOLEAN
      <4>1. \A h \in handles : /\ h.fd \in 1..MaxDescriptors
                              /\ h.path \in Paths
                              /\ h.starved \in BOOLEAN
        BY <1>2 DEF TypeOK
      <4>2. LET new == [fd |-> slot, path |-> path, item |-> item, starved |-> FALSE]
            IN  /\ new.fd \in 1..MaxDescriptors
                /\ new.path \in Paths
                /\ new.starved \in BOOLEAN
        BY <2>1
      <4> QED
        BY <2>3, <4>1, <4>2, Zenon
    <3> QED
      BY <1>1, <1>2, <2>5, <3>1, <3>2 DEF TypeOK
  <2>7. HandlesStayBound'
    BY <1>2, <1>5, <2>2, <2>4, BindKeeps DEF NULL
  <2>8. StoredItemsAreWhole'
    BY <1>2, <2>2, <2>3, <2>4 DEF StoredItemsAreWhole, Uncloned
  <2> QED
    BY <1>3, <2>6, <2>7, <2>8 DEF IInv
<1>6. ASSUME NEW slot \in FirstEmpty, NEW item, Starve(slot, item, path)
      PROVE  IInv'
  <2>1. slot \in 1..MaxDescriptors
    BY DEF FirstEmpty, Least, Empty
  <2>2. /\ UNCHANGED file_descriptors
        /\ handles' = handles \cup
              {[fd |-> slot, path |-> path, item |-> item, starved |-> TRUE]}
    BY <1>6 DEF Starve
  <2>3. TypeOK'
    <3>1. free' \in 0..Blocks
      BY <1>1, <1>2
    <3>2. \A h \in handles' : /\ h.fd \in 1..MaxDescriptors
                             /\ h.path \in Paths
                             /\ h.starved \in BOOLEAN
      <4>1. \A h \in handles : /\ h.fd \in 1..MaxDescriptors
                              /\ h.path \in Paths
                              /\ h.starved \in BOOLEAN
        BY <1>2 DEF TypeOK
      <4>2. LET new == [fd |-> slot, path |-> path, item |-> item, starved |-> TRUE]
            IN  /\ new.fd \in 1..MaxDescriptors
                /\ new.path \in Paths
                /\ new.starved \in BOOLEAN
        BY <2>1
      <4> QED
        BY <2>2, <4>1, <4>2, Zenon
    <3> QED
      BY <1>1, <1>2, <2>2, <3>1, <3>2 DEF TypeOK
  <2>4. HandlesStayBound'
    BY <1>2, <1>6, StarveKeeps
  <2>5. StoredItemsAreWhole'
    BY <1>2, <2>2 DEF StoredItemsAreWhole
  <2> QED
    BY <1>3, <2>3, <2>4, <2>5 DEF IInv
<1> QED
  BY FopenDoes, <1>4, <1>5, <1>6

\* Every step keeps it.
LEMMA NextKeeps == ASSUME IInv, [Next]_vars PROVE IInv'
<1>1. /\ TypeOK /\ Accounted /\ HandlesStayBound /\ StoredItemsAreWhole
      /\ free \in 0..Blocks /\ others \in 0..MaxOthers
      /\ Blocks \in Nat /\ Blocks >= 6 /\ MaxOthers \in Nat
  BY FilesAssumption DEF IInv, TypeOK
<1>2. ASSUME UNCHANGED <<disk, handles, file_descriptors, wild>>, filesystem' \in BOOLEAN,
             free' \in 0..Blocks, others' \in 0..MaxOthers, Accounted'
      PROVE  IInv'
  <2>1. TypeOK'
    BY <1>1, <1>2 DEF TypeOK
  <2>2. HandlesStayBound' /\ StoredItemsAreWhole'
    BY <1>1, <1>2 DEF HandlesStayBound, StoredItemsAreWhole
  <2> QED
    BY <1>2, <2>1, <2>2 DEF IInv
<1>3. filesystem \in BOOLEAN /\ disk.signature \in BOOLEAN
  BY <1>1, DisksAssumption DEF TypeOK
<1>4. CASE DiskInit
  <2>1. others = 0 /\ free = Blocks
    BY <1>1, <1>4 DEF DiskInit, Booted, Accounted
  <2>2. free' \in {Blocks - 5, Blocks - 3} /\ others' = 0
    BY <1>4, <2>1 DEF DiskInit
  <2>3. free' \in 0..Blocks /\ Accounted'
    <3>1. free' \in 0..Blocks
      BY <1>1, <2>2
    <3>2. free' + others' <= Blocks
      <4>1. \A a, b \in Int : a <= b => a + 0 <= b
        OBVIOUS
      <4>2. free' \in Int /\ free' <= Blocks /\ Blocks \in Int
        BY <1>1, <3>1
      <4>3. free' + 0 <= Blocks
        BY <4>1, <4>2, Zenon
      <4>4. others' = 0
        BY <2>2, Zenon
      <4> QED
        BY <4>3, <4>4, Zenon
    <3> QED
      BY <2>2, <3>1, <3>2 DEF Accounted
  <2> QED
    BY <1>1, <1>2, <1>3, <1>4, <2>2, <2>3 DEF DiskInit
<1>5. ASSUME NEW path \in Paths, NEW mode \in Modes, fopen(path, mode)
      PROVE  IInv'
  BY <1>5, FopenKeeps DEF fopen
<1>6. CASE kzalloc
  <2>1. free' = free - 1 /\ others' = others + 1 /\ free > 0 /\ others < MaxOthers /\ Booted
    BY <1>6 DEF kzalloc
  <2>2. free' \in 0..Blocks /\ others' \in 0..MaxOthers /\ Accounted'
    BY <1>1, <2>1 DEF Accounted, Booted
  <2> QED
    BY <1>2, <1>3, <1>6, <2>2 DEF kzalloc
<1>7. CASE kfree
  <2>1. free' = free + 1 /\ others' = others - 1 /\ others > 0
    BY <1>7 DEF kfree
  <2>2. free' \in 0..Blocks /\ others' \in 0..MaxOthers /\ Accounted'
    BY <1>1, <2>1 DEF Accounted, Booted
  <2> QED
    BY <1>2, <1>3, <1>7, <2>2 DEF kfree
<1>8. CASE UNCHANGED vars
  <2>1. Accounted'
    BY <1>1, <1>8 DEF vars, Accounted, Booted
  <2> QED
    BY <1>1, <1>2, <1>3, <1>8, <2>1 DEF vars
<1> QED
  BY <1>4, <1>5, <1>6, <1>7, <1>8 DEF Next

\* So it always holds.
THEOREM FilesInvariant == Spec => []IInv
<1>1. IInv /\ [Next]_vars => IInv'
  BY NextKeeps
<1> QED
  BY InitHolds, <1>1, PTL DEF Spec

\* The heap never has fewer than no blocks, an item is an entry of the disk,
\* and a number that is returned is one of the table.
THEOREM FilesTypeCorrect == Spec => []TypeOK
<1>1. IInv => TypeOK
  BY DEF IInv
<1> QED
  BY FilesInvariant, <1>1, PTL

\* Whatever fails, runs out of memory or is opened twice: a number whose
\* descriptor was stored stays the caller's own and keeps its entry.
THEOREM HandlesKeepTheirFiles == Spec => []HandlesStayBound
<1>1. IInv => HandlesStayBound
  BY DEF IInv
<1> QED
  BY FilesInvariant, <1>1, PTL

\* No item in the table lacks its entry, wherever the heap ran out: what is not
\* cloned left nothing, and then the descriptor was missing, too.
THEOREM FilesStayWhole == Spec => []StoredItemsAreWhole
<1>1. IInv => StoredItemsAreWhole
  BY DEF IInv
<1> QED
  BY FilesInvariant, <1>1, PTL

-----------------------------------------------------------------------------
(* Names *)

Padding == {NUL, SPACE}

\* An element that is not greater than any is the least.
LEMMA MinIs ==
    ASSUME NEW S \in SUBSET Nat, NEW m \in S, \A k \in S : m <= k
    PROVE  Min(S) = m
<1>1. Min(S) \in S /\ \A k \in S : Min(S) <= k
  BY DEF Min
<1>2. Min(S) <= m /\ m <= Min(S) /\ Min(S) \in Nat /\ m \in Nat
  BY <1>1
<1>3. \A a, b \in Nat : a <= b /\ b <= a => a = b
  OBVIOUS
<1> QED
  BY <1>2, <1>3

\* An element that is not less than any is the greatest.
LEMMA MaxIs ==
    ASSUME NEW S \in SUBSET Nat, NEW m \in S, \A k \in S : m >= k
    PROVE  Max(S) = m
<1>1. Max(S) \in S /\ \A k \in S : Max(S) >= k
  BY DEF Max
<1>2. Max(S) >= m /\ m >= Max(S) /\ Max(S) \in Nat /\ m \in Nat
  BY <1>1
<1>3. \A a, b \in Nat : a >= b /\ b >= a => a = b
  OBVIOUS
<1> QED
  BY <1>2, <1>3

\* A field is a name and then padding.
LEMMA FieldIsNameAndPadding ==
    ASSUME NEW field, NEW n \in Nat, IsField(field, n)
    PROVE  \E r \in 0..n : \A j \in 1..n : field[j] \in Padding <=> j > r
<1> DEFINE T == {k \in 1..(n + 1) : k = n + 1 \/ field[k] \in Padding}
<1>1. T \in SUBSET Nat /\ n + 1 \in T
  OBVIOUS
<1>2. PICK m \in T : \A k \in T : m <= k
  <2> HIDE DEF T
  <2> QED
    BY <1>1, LeastElement
<1>3. m - 1 \in 0..n /\ m \in 1..(n + 1)
  OBVIOUS
<1>4. ASSUME NEW j \in 1..n PROVE field[j] \in Padding <=> j > m - 1
  <2>1. ASSUME field[j] \in Padding PROVE j > m - 1
    BY <1>2, <1>3, <2>1
  <2>2. ASSUME j > m - 1 PROVE field[j] \in Padding
    <3>1. m \in 1..n /\ field[m] \in Padding /\ (m = j \/ m < j)
      BY <1>3, <2>2
    <3> QED
      BY <3>1 DEF IsField, Padding
  <2> QED
    BY <2>1, <2>2
<1> QED
  BY <1>3, <1>4

\* Without its padding it is the name.
LEMMA TrimmedIsTheName ==
    ASSUME NEW C, NEW field \in Seq(C), NEW r \in 0..Len(field),
           \A j \in 1..Len(field) : field[j] \in Padding <=> j > r
    PROVE  Trimmed(field) = SubSeq(field, 1, r)
<1> DEFINE I == {i \in 1..Len(field) : field[i] \notin {NUL, SPACE}}
           k == SelectLastInSeq(field, LAMBDA c : c \notin {NUL, SPACE})
<1>1. I = 1..r
  BY DEF Padding
<1>2. k = IF I # {} THEN Max(I) ELSE 0
  BY DEF SelectLastInSeq
<1> HIDE DEF I
<1>3. k = r
  <2>1. CASE r = 0
    BY <1>1, <1>2, <2>1
  <2>2. CASE r # 0
    <3>1. I \in SUBSET Nat /\ r \in I /\ \A i \in I : r >= i
      BY <1>1, <2>2
    <3>2. Max(I) = r
      BY <3>1, MaxIs
    <3> QED
      BY <1>2, <3>1, <3>2
  <2> QED
    BY <2>1, <2>2
<1> QED
  BY <1>3 DEF Trimmed

\* A string ends before its first space or NUL.
LEMMA StringEnds ==
    ASSUME NEW C, NEW in \in Seq(C), NEW k \in 1..Len(in), in[k] \in Padding,
           \A j \in 1..(k - 1) : in[j] \notin Padding
    PROVE  fat16_to_proper_string(in) = SubSeq(in, 1, k - 1)
<1> DEFINE I == {i \in 1..Len(in) : in[i] \in {NUL, SPACE}}
           first == SelectInSeq(in, LAMBDA c : c \in {NUL, SPACE})
<1>1. I \in SUBSET Nat /\ k \in I
  BY DEF Padding
<1>2. ASSUME NEW i \in I PROVE k <= i
  <2>1. i \in 1..Len(in) /\ in[i] \in Padding
    BY DEF Padding
  <2> QED
    BY <2>1
<1>3. first = IF I # {} THEN Min(I) ELSE 0
  BY DEF SelectInSeq
<1> HIDE DEF I
<1>4. first = k
  BY <1>1, <1>2, <1>3, MinIs
<1> QED
  BY <1>4 DEF fat16_to_proper_string

\* Whether a name is short depends on its first dot.
LEMMA ShortByFirstDot ==
    ASSUME NEW C, NEW part \in Seq(C), NEW k \in 1..(Len(part) + 1),
           k <= Len(part) => part[k] = DOT,
           \A j \in 1..(k - 1) : part[j] # DOT
    PROVE  IsShortName(part) => k - 1 <= NameLength /\ Len(part) - k <= ExtLength
<1> DEFINE dotted == Append(part, DOT)
           I == {i \in 1..Len(dotted) : dotted[i] = DOT}
           first == SelectInSeq(dotted, LAMBDA c : c = DOT)
<1>1. /\ Len(dotted) = Len(part) + 1
      /\ dotted[k] = DOT
      /\ \A j \in 1..(k - 1) : dotted[j] # DOT
  OBVIOUS
<1> HIDE DEF dotted
<1>2. I \in SUBSET Nat /\ k \in I /\ \A i \in I : k <= i
  BY <1>1
<1>3. first = IF I # {} THEN Min(I) ELSE 0
  BY DEF SelectInSeq
<1> HIDE DEF I
<1>4. first = k
  BY <1>2, <1>3, MinIs
<1> QED
  BY <1>4 DEF IsShortName, dotted

\* The bytes of an entry on a disk the format describes; a dot is none of them.
Formatted(item) == /\ IsField(item.filename, NameLength)
                   /\ IsField(item.ext, ExtLength)
                   /\ item.attribute # DOT

Bytes(item) == (Range(item.filename) \cup Range(item.ext) \cup {item.attribute, NUL}) \ {DOT}

After(item) == item.ext \o <<item.attribute, NUL>>

\* Where the extension ends as a string: with its field or before, or behind the
\* attribute, and then its field is full.
LEMMA ExtensionEnds ==
    ASSUME NEW item, Formatted(item)
    PROVE  LET after == After(item)
           IN  /\ after \in Seq(Bytes(item)) /\ Len(after) = ExtLength + 2
               /\ \E k \in 1..(ExtLength + 2) :
                     /\ after[k] \in Padding
                     /\ \A j \in 1..(k - 1) : after[j] \notin Padding
                     /\ fat16_to_proper_string(after) = SubSeq(after, 1, k - 1)
                     /\ k = 1 <=> item.ext[1] \in Padding
                     /\ \/ k <= ExtLength + 1 /\ Trimmed(item.ext) = SubSeq(after, 1, k - 1)
                        \/ /\ k = ExtLength + 2
                           /\ item.ext[ExtLength] \notin Padding /\ item.attribute \notin Padding
<1> DEFINE n == ExtLength
           ext == item.ext
           after == After(item)
           C == Bytes(item)
<1>1. n \in Nat /\ n # 0
  BY Fat16Assumption
<1>2. ext \in Seq(C) /\ Len(ext) = n
  <2>1. ext \in Seq(Range(ext) \ {DOT}) /\ Len(ext) = n
    BY DEF Formatted, IsField
  <2>2. Range(ext) \ {DOT} \subseteq C
    BY DEF Bytes
  <2> HIDE DEF C, ext, n
  <2> QED
    BY <2>1, <2>2
<1>3. item.attribute \in C /\ NUL \in C
  BY DEF Bytes, Formatted, NUL, DOT
<1>4. /\ after \in Seq(C) /\ Len(after) = n + 2
      /\ \A j \in 1..n : after[j] = ext[j]
      /\ after[n + 1] = item.attribute /\ after[n + 2] = NUL
  <2> HIDE DEF C, ext, n
  <2> QED
    <3> DEFINE end == <<item.attribute, NUL>>
    <3>1. end \in Seq(C) /\ Len(end) = 2 /\ end[1] = item.attribute /\ end[2] = NUL
      BY <1>3
    <3>2. after = ext \o end
      BY DEF After, ext
    <3> HIDE DEF end, after
    <3>3. /\ after \in Seq(C) /\ Len(after) = n + 2
          /\ \A i \in 1..(n + 2) : after[i] = IF i <= n THEN ext[i] ELSE end[i - n]
      <4>1. /\ ext \o end \in Seq(C) /\ Len(ext \o end) = Len(ext) + Len(end)
            /\ \A i \in 1..(Len(ext) + Len(end)) :
                  (ext \o end)[i] = IF i <= Len(ext) THEN ext[i] ELSE end[i - Len(ext)]
        BY <1>2, <3>1, ConcatProperties
      <4> QED
        BY <1>2, <3>1, <3>2, <4>1, Zenon
    <3>4. \A j \in 1..n : after[j] = ext[j]
      BY <1>1, <3>3
    <3>5. after[n + 1] = end[1] /\ after[n + 2] = end[2]
      <4>1. /\ n + 1 \in 1..(n + 2) /\ ~ n + 1 <= n /\ (n + 1) - n = 1
            /\ n + 2 \in 1..(n + 2) /\ ~ n + 2 <= n /\ (n + 2) - n = 2
        BY <1>1
      <4> QED
        BY <3>3, <4>1
    <3> QED
      BY <3>1, <3>3, <3>4, <3>5
<1>5. PICK r \in 0..n : \A j \in 1..n : ext[j] \in Padding <=> j > r
  BY <1>1, FieldIsNameAndPadding DEF Formatted
<1>6. Trimmed(ext) = SubSeq(ext, 1, r)
  <2> HIDE DEF C, ext, n
  <2> QED
    BY <1>2, <1>5, TrimmedIsTheName
<1> DEFINE k == IF r < n THEN r + 1 ELSE IF item.attribute \in Padding THEN n + 1 ELSE n + 2
<1> HIDE DEF n, ext, after, C
<1>7. NUL \in Padding
  BY DEF Padding
<1>8. k \in 1..(n + 2) /\ after[k] \in Padding /\ \A j \in 1..(k - 1) : after[j] \notin Padding
  <2>1. CASE r < n
    BY <1>1, <1>4, <1>5, <2>1
  <2>2. CASE ~ r < n
    <3>1. r = n
      BY <1>1, <2>2
    <3>2. \A j \in 1..n : after[j] \notin Padding
      BY <1>1, <1>4, <1>5, <3>1
    <3> QED
      BY <1>1, <1>4, <1>7, <2>2, <3>2
  <2> QED
    BY <2>1, <2>2
<1>9. k = 1 <=> ext[1] \in Padding
  BY <1>1, <1>5
<1>10. \/ k <= n + 1 /\ Trimmed(ext) = SubSeq(after, 1, k - 1)
       \/ k = n + 2 /\ ext[n] \notin Padding /\ item.attribute \notin Padding
  <2>1. CASE k = n + 2
    BY <1>1, <1>5, <2>1
  <2>2. CASE k # n + 2
    <3>1. k = r + 1 /\ k <= n + 1
      BY <1>1, <2>2
    <3>2. SubSeq(after, 1, r) = SubSeq(ext, 1, r)
      BY <1>1, <1>2, <1>4
    <3> QED
      BY <1>1, <1>6, <3>1, <3>2
  <2> QED
    BY <2>1, <2>2
<1> HIDE DEF k
<1>11. fat16_to_proper_string(after) = SubSeq(after, 1, k - 1)
  BY <1>4, <1>8, StringEnds
<1> QED
  BY <1>4, <1>8, <1>9, <1>10, <1>11 DEF n, ext, after, C

\* A prefix of a sequence.
LEMMA PrefixIs ==
    ASSUME NEW C, NEW s \in Seq(C), NEW k \in 0..Len(s)
    PROVE  /\ SubSeq(s, 1, k) \in Seq(C)
           /\ Len(SubSeq(s, 1, k)) = k
           /\ \A j \in 1..k : SubSeq(s, 1, k)[j] = s[j]
OBVIOUS

\* The name of an entry as the search has it is the one the format gives it, or
\* none the format knows: then a field is full, and its end was missed.
LEMMA NamesAgree ==
    ASSUME NEW item, Formatted(item)
    PROVE  LET full == fat16_get_full_relative_filename(item)
           IN  /\ item.filename[1] \notin Padding =>
                     1 \in DOMAIN full /\ full[1] = item.filename[1]
               /\ \/ full = FormatName(item)
                  \/ ~ IsShortName(full) /\ RunsOn(item)
<1> DEFINE n == NameLength
           m == ExtLength
           name == item.filename
           ext == item.ext
           after == After(item)
           C == Bytes(item)
           w == name \o after
           W == fat16_to_proper_string(w)
           full == fat16_get_full_relative_filename(item)
<1>1. n \in Nat /\ n # 0 /\ m \in Nat /\ m # 0
  BY Fat16Assumption
<1>2. name \in Seq(C) /\ Len(name) = n
  <2>1. name \in Seq(Range(name) \ {DOT}) /\ Len(name) = n
    BY DEF Formatted, IsField
  <2>2. Range(name) \ {DOT} \subseteq C
    BY DEF Bytes
  <2> HIDE DEF C, name, n
  <2> QED
    BY <2>1, <2>2
<1>3. DOT \notin C
  BY DEF Bytes
<1>4. PICK k \in 1..(m + 2) :
         /\ after[k] \in Padding
         /\ \A j \in 1..(k - 1) : after[j] \notin Padding
         /\ fat16_to_proper_string(after) = SubSeq(after, 1, k - 1)
         /\ k = 1 <=> ext[1] \in Padding
         /\ \/ k <= m + 1 /\ Trimmed(ext) = SubSeq(after, 1, k - 1)
            \/ k = m + 2 /\ ext[m] \notin Padding /\ item.attribute \notin Padding
  BY ExtensionEnds
<1>5. after \in Seq(C) /\ Len(after) = m + 2
  BY ExtensionEnds
<1>6. PICK r \in 0..n : \A j \in 1..n : name[j] \in Padding <=> j > r
  BY <1>1, FieldIsNameAndPadding DEF Formatted
<1> DEFINE E == SubSeq(after, 1, k - 1)
           rest == IF k = 1 THEN <<>> ELSE <<DOT>> \o E
<1>7. full = W \o rest
  <2>1. full = W \o (IF ext[1] \in Padding THEN <<>>
                     ELSE <<DOT>> \o fat16_to_proper_string(after))
    BY Zenon DEF fat16_get_full_relative_filename, After, Padding
  <2> QED
    BY <1>4, <2>1, Zenon
<1>8. FormatName(item) = Trimmed(name) \o
         (IF Trimmed(ext) = <<>> THEN <<>> ELSE <<DOT>> \o Trimmed(ext))
  BY DEF FormatName
<1> HIDE DEF n, m, name, ext, after, C, w, full
<1>9. E \in Seq(C) /\ Len(E) = k - 1
  <2>1. k - 1 \in 0..Len(after)
    BY <1>1, <1>5
  <2> QED
    BY <1>5, <2>1, PrefixIs
<1>10. Trimmed(name) = SubSeq(name, 1, r)
  BY <1>2, <1>6, TrimmedIsTheName
<1>11. /\ w \in Seq(C) /\ Len(w) = n + m + 2
       /\ \A j \in 1..n : w[j] = name[j]
       /\ \A j \in 1..(m + 2) : w[n + j] = after[j]
  <2>1. /\ w \in Seq(C) /\ Len(w) = Len(name) + Len(after)
        /\ \A j \in 1..(Len(name) + Len(after)) :
              w[j] = IF j <= Len(name) THEN name[j] ELSE after[j - Len(name)]
    BY <1>2, <1>5, ConcatProperties DEF w
  <2>2. \A j \in 1..n : w[j] = name[j]
    BY <1>1, <1>2, <1>5, <2>1
  <2>3. ASSUME NEW j \in 1..(m + 2) PROVE w[n + j] = after[j]
    <3>1. n + j \in 1..(n + (m + 2)) /\ ~ n + j <= n /\ (n + j) - n = j
      BY <1>1
    <3> QED
      BY <1>2, <1>5, <2>1, <3>1
  <2> QED
    BY <1>1, <1>2, <1>5, <2>1, <2>2, <2>3
<1> DEFINE end == IF r < n THEN r + 1 ELSE n + k
<1>12. /\ end \in 1..(n + m + 2) /\ w[end] \in Padding
       /\ \A j \in 1..(end - 1) : w[j] \notin Padding
  <2>1. CASE r < n
    BY <1>1, <1>6, <1>11, <2>1
  <2>2. CASE ~ r < n
    <3>1. r = n /\ end = n + k
      BY <1>1, <2>2
    <3>2. w[n + k] \in Padding
      BY <1>4, <1>11
    <3>3. ASSUME NEW j \in 1..(n + k - 1) PROVE w[j] \notin Padding
      <4>1. CASE j <= n
        BY <1>1, <1>6, <1>11, <3>1, <4>1
      <4>2. CASE ~ j <= n
        <5>1. j - n \in 1..(k - 1) /\ j - n \in 1..(m + 2) /\ n + (j - n) = j
          BY <1>1, <4>2
        <5> QED
          BY <1>4, <1>11, <5>1
      <4> QED
        BY <4>1, <4>2
    <3> QED
      BY <1>1, <3>1, <3>2, <3>3
  <2> QED
    BY <2>1, <2>2
<1> HIDE DEF E, rest
<1>13. /\ W = SubSeq(w, 1, end - 1) /\ W \in Seq(C) /\ Len(W) = end - 1
       /\ \A j \in 1..(end - 1) : W[j] = w[j]
  <2>1. end - 1 \in 0..Len(w) /\ end \in 1..Len(w)
    BY <1>1, <1>11, <1>12
  <2> HIDE DEF end
  <2>2. W = SubSeq(w, 1, end - 1)
    BY <1>11, <1>12, <2>1, StringEnds
  <2> QED
    BY <1>11, <2>1, <2>2, PrefixIs
<1> HIDE DEF W
<1>14. rest \in Seq(C \cup {DOT}) /\ (k # 1 => Len(rest) = k /\ rest[1] = DOT)
  <2>1. CASE k = 1
    BY <2>1 DEF rest
  <2>2. CASE k # 1
    <3>1. <<DOT>> \in Seq(C \cup {DOT}) /\ E \in Seq(C \cup {DOT})
      BY <1>9
    <3>2. rest = <<DOT>> \o E
      BY <2>2 DEF rest
    <3> QED
      BY <1>9, <3>1, <3>2
  <2> QED
    BY <2>1, <2>2
<1>15. W \in Seq(C \cup {DOT})
  BY <1>13
<1>16. /\ full \in Seq(C \cup {DOT}) /\ Len(full) = Len(W) + Len(rest)
       /\ \A j \in 1..(Len(W) + Len(rest)) :
             full[j] = IF j <= Len(W) THEN W[j] ELSE rest[j - Len(W)]
  BY <1>7, <1>14, <1>15, ConcatProperties
<1>17. name[1] \notin Padding => 1 \in DOMAIN full /\ full[1] = name[1]
  <2> SUFFICES ASSUME name[1] \notin Padding
               PROVE  1 \in DOMAIN full /\ full[1] = name[1]
    OBVIOUS
  <2>1. r # 0
    BY <1>1, <1>6
  <2>2. 1 \in 1..(end - 1)
    BY <1>1, <2>1
  <2>3. Len(rest) \in Nat /\ Len(W) \in Nat /\ 1 <= Len(W)
    BY <1>13, <1>14, <2>2
  <2>4. full[1] = W[1] /\ 1 \in DOMAIN full
    BY <1>16, <2>3
  <2> QED
    BY <1>1, <1>11, <1>13, <2>2, <2>4
<1>18. CASE (r < n \/ k = 1) /\ k <= m + 1
  <2>1. Trimmed(ext) = E
    BY <1>1, <1>4, <1>18 DEF E
  <2>2. Trimmed(ext) = <<>> <=> k = 1
    BY <1>9, <2>1
  <2>3. W = Trimmed(name)
    <3>1. end - 1 = r
      BY <1>1, <1>18
    <3>2. \A j \in 1..r : w[j] = name[j]
      BY <1>1, <1>11
    <3>3. SubSeq(w, 1, r) = SubSeq(name, 1, r)
      BY <1>1, <1>2, <1>11, <3>2
    <3> QED
      BY <1>10, <1>13, <3>1, <3>3
  <2>4. full = FormatName(item)
    BY <1>7, <1>8, <2>1, <2>2, <2>3, Zenon DEF rest
  <2> QED
    BY <1>17, <2>4 DEF full, name
<1>19. CASE k # 1 /\ (~ r < n \/ k = m + 2)
  <2> DEFINE dot == Len(W) + 1
  <2>1. /\ Len(W) \in Nat /\ Len(rest) = k /\ rest[1] = DOT
        /\ Len(full) = Len(W) + k
    <3>1. Len(W) \in Nat
      BY <1>13
    <3>2. Len(rest) = k /\ rest[1] = DOT
      BY <1>14, <1>19
    <3> QED
      BY <1>16, <3>1, <3>2
  <2>2. dot \in 1..(Len(full) + 1) /\ full[dot] = DOT
    <3>1. dot \in 1..(Len(W) + Len(rest)) /\ ~ dot <= Len(W) /\ dot - Len(W) = 1
      BY <2>1
    <3> QED
      BY <1>16, <2>1, <3>1
  <2>3. ASSUME NEW j \in 1..(dot - 1) PROVE full[j] # DOT
    <3>1. j \in 1..(Len(W) + Len(rest)) /\ j <= Len(W) /\ j \in 1..Len(W)
      BY <2>1
    <3>2. full[j] = W[j] /\ W[j] \in C
      BY <1>13, <1>16, <3>1
    <3> QED
      BY <1>3, <3>2
  <2>4. IsShortName(full) => dot - 1 <= NameLength /\ Len(full) - dot <= ExtLength
    BY <1>16, <2>2, <2>3, ShortByFirstDot
  <2>5. ~ (dot - 1 <= n /\ Len(full) - dot <= m)
    <3>1. dot - 1 = end - 1 /\ Len(full) - dot = k - 1
      BY <1>13, <2>1
    <3> QED
      BY <1>1, <1>19, <3>1
  <2>6. ~ IsShortName(full)
    BY <2>4, <2>5 DEF n, m
  <2>7. RunsOn(item)
    <3>1. \/ name[n] \notin Padding /\ ext[1] \notin Padding
          \/ ext[m] \notin Padding /\ item.attribute \notin Padding
      BY <1>1, <1>4, <1>6, <1>19
    <3> QED
      BY <3>1 DEF RunsOn, Padding, name, ext, n, m
  <2> QED
    BY <1>17, <2>6, <2>7 DEF full, name
<1> QED
  BY <1>1, <1>18, <1>19

\* The items of a formatted directory are formatted.
LEMMA ItemsAreFormatted ==
    ASSUME DisksAreFormatted, NEW d \in Disks, NEW i \in 1..Len(d.slots)
    PROVE  Formatted(d.slots[i])
<1>1. d.slots \in Seq(Range(d.slots))
  BY DisksAssumption
<1>2. d.slots[i] \in Range(d.slots)
  BY <1>1
<1> QED
  BY <1>2 DEF DisksAreFormatted, Formatted

\* Where entries are looked for: before the end mark, and in the root directory.
LEMMA EntriesAreBefore ==
    ASSUME NEW d \in Disks, NEW i \in Nat \ {0}
    PROVE  i \in 1..Min({EndMark(d.slots) - 1, RootDirEntries}) <=>
              i <= EndMark(d.slots) - 1 /\ i <= RootDirEntries
<1>1. EndMark(d.slots) - 1 \in Int /\ RootDirEntries \in Int
  BY EndMarkIsFirst, Fat16Assumption
<1>2. Min({EndMark(d.slots) - 1, RootDirEntries}) =
         IF EndMark(d.slots) - 1 <= RootDirEntries THEN EndMark(d.slots) - 1
         ELSE RootDirEntries
  BY <1>1, MinOfTwo
<1> QED
  BY <1>1, <1>2

\* The entries of a name are finitely many.
LEMMA EntriesAreSome ==
    ASSUME NEW d \in Disks, NEW part
    PROVE  IsFiniteSet(Entries(d.slots, part))
<1> DEFINE bound == Min({EndMark(d.slots) - 1, RootDirEntries})
<1>1. bound \in Int
  <2>1. EndMark(d.slots) - 1 \in Int /\ RootDirEntries \in Int
    BY EndMarkIsFirst, Fat16Assumption
  <2> QED
    BY <2>1, MinOfTwo
<1>2. Entries(d.slots, part) \in SUBSET (1..bound)
  BY DEF Entries
<1> HIDE DEF bound
<1>3. IsFiniteSet(1..bound)
  BY <1>1, FS_Interval
<1> QED
  BY <1>2, <1>3, FS_Subset

\* What is found under a short name is a live entry of that name.
LEMMA MatchesAreLive ==
    ASSUME DisksAreFormatted, NEW d \in Disks,
           NEW C, NEW part \in Seq(C), DELETED \notin Range(part), IsShortName(part)
    PROVE  Matches(d.slots, part) \subseteq Entries(d.slots, part)
<1> SUFFICES ASSUME NEW i \in Matches(d.slots, part)
             PROVE  i \in Entries(d.slots, part)
  OBVIOUS
<1> DEFINE total == fat16_get_total_items_for_directory(d.slots)
           item == d.slots[i]
           full == fat16_get_full_relative_filename(item)
<1>1. i \in 1..total /\ i <= RootDirEntries /\ full = part
  BY DEF Matches
<1>2. i \in 1..Len(d.slots)
  BY MatchesAreEntries
<1>3. /\ total \in Nat
      /\ EndMark(d.slots) \in Nat
      /\ EndMark(d.slots) = 0 => total = 0
      /\ EndMark(d.slots) # 0 => total <= EndMark(d.slots) - 1
      /\ \A j \in 1..(EndMark(d.slots) - 1) : d.slots[j].filename[1] # NUL
  BY ItemsAreCounted, EndMarkIsFirst
<1> HIDE DEF total
<1>4. i \in Nat \ {0} /\ i \in 1..(EndMark(d.slots) - 1)
  BY <1>1, <1>3
<1>5. i \in 1..Min({EndMark(d.slots) - 1, RootDirEntries})
  BY <1>1, <1>4, EntriesAreBefore
<1>6. /\ item.filename[1] \notin Padding =>
            1 \in DOMAIN full /\ full[1] = item.filename[1]
      /\ full = FormatName(item) \/ ~ IsShortName(full)
  BY <1>2, ItemsAreFormatted, NamesAgree
<1>7. item.filename[1] # DELETED
  <2>1. CASE item.filename[1] \in Padding
    BY <2>1 DEF Padding, NUL, SPACE, DELETED
  <2>2. CASE item.filename[1] \notin Padding
    <3>1. 1 \in DOMAIN part /\ part[1] = item.filename[1]
      BY <1>1, <1>6, <2>2
    <3>2. part[1] \in Range(part)
      BY <3>1, Zenon DEF Range
    <3> QED
      BY <3>1, <3>2
  <2> QED
    BY <2>1, <2>2
<1>8. FormatName(item) = part
  BY <1>1, <1>6
<1> QED
  BY <1>5, <1>7, <1>8 DEF Entries

\* The parts of paths are text.
LEMMA PartsAreText ==
    ASSUME PathsAreText, NEW path \in Paths, NEW part \in Range(Parts(path))
    PROVE  part \in Seq(Range(part)) /\ DELETED \notin Range(part)
<1>1. Parts(path) \in Seq(Range(path.parts))
  BY PartsAreSome
<1>2. part \in Range(path.parts)
  <2>1. PICK j \in DOMAIN Parts(path) : part = Parts(path)[j]
    BY DEF Range
  <2>2. DOMAIN Parts(path) = 1..Len(Parts(path))
    BY <1>1
  <2> QED
    BY <1>1, <2>1, <2>2, ElementOfSeq
<1> QED
  BY <1>2, PathsAssumption DEF PathsAreText

\* On disks the format describes, the search agrees with the directory.
LEMMA SearchAgrees ==
    ASSUME DisksAreFormatted, PathsAreText, disk \in Disks
    PROVE  LookupAgrees
<1> SUFFICES ASSUME NEW path \in Paths, NEW part \in Range(Parts(path)), IsShortName(part),
                    NEW i \in Entries(disk.slots, part) \cap Safe(disk.slots)
             PROVE  i \in Matches(disk.slots, part)
  BY PartsAreText, MatchesAreLive DEF LookupAgrees
<1> DEFINE total == fat16_get_total_items_for_directory(disk.slots)
           last == EndMark(disk.slots) - 1
           item == disk.slots[i]
           before == {j \in 1..last : disk.slots[j].filename[1] # DELETED}
           deleted == {j \in 1..last : disk.slots[j].filename[1] = DELETED}
<1>1. i \in 1..Min({last, RootDirEntries}) /\ FormatName(item) = part
  BY DEF Entries
<1>2. Min({last, RootDirEntries}) \in Int
  <2>1. last \in Int /\ RootDirEntries \in Int
    BY EndMarkIsFirst, Fat16Assumption
  <2> HIDE DEF last
  <2> QED
    BY <2>1, MinOfTwo
<1>3. i \in Nat \ {0}
  BY <1>1, <1>2
<1>4. i <= last /\ i <= RootDirEntries
  BY <1>1, <1>3, EntriesAreBefore
<1>5. last \in Int /\ last <= Len(disk.slots) /\ Len(disk.slots) \in Nat
  BY EndMarkIsFirst
<1>6. i <= last - Cardinality(deleted) /\ ~ RunsOn(item)
  BY DEF Safe
<1>7. total = last - Cardinality(deleted)
  <2> HIDE DEF last
  <2>1. IsFiniteSet(1..last) /\ Cardinality(1..last) = last
    BY <1>3, <1>4, <1>5, FS_Interval
  <2>2. deleted \in SUBSET (1..last) /\ before = (1..last) \ deleted
        /\ (1..last) \cap deleted = deleted
    OBVIOUS
  <2> HIDE DEF before, deleted
  <2>3. Cardinality(before) = Cardinality(1..last) - Cardinality((1..last) \cap deleted)
    BY <2>1, <2>2, FS_Difference
  <2>4. total = Cardinality(before)
    BY DEF fat16_get_total_items_for_directory, last, before
  <2> QED
    BY <2>1, <2>2, <2>3, <2>4
<1> HIDE DEF total, deleted
<1>8. total \in Nat
  BY ItemsAreCounted DEF total
<1>9. i \in 1..total /\ i \in 1..Len(disk.slots)
  BY <1>3, <1>4, <1>5, <1>6, <1>7, <1>8
<1>10. fat16_get_full_relative_filename(item) = part
  BY <1>1, <1>6, <1>9, ItemsAreFormatted, NamesAgree
<1> QED
  BY <1>4, <1>9, <1>10 DEF Matches, total

\* On disks the format describes, what a search finds under a short name is a
\* live entry of that name; and it loses none but those of which a field runs on
\* and, at the end of the directory, as many as were deleted.
THEOREM LookupFollowsFormat ==
    ASSUME DisksAreFormatted, PathsAreText PROVE Spec => []LookupAgrees
<1>1. IInv => LookupAgrees
  BY SearchAgrees DEF IInv, TypeOK
<1> QED
  BY FilesInvariant, <1>1, PTL

-----------------------------------------------------------------------------
(* Opening succeeds *)

\* More entries take more blocks.
LEMMA TakenGrows ==
    ASSUME NEW S, IsFiniteSet(S), NEW T \in SUBSET S
    PROVE  Taken(T) \in Nat /\ Taken(S) \in Nat /\ Taken(T) <= Taken(S)
<1> DEFINE Dirs(U) == {i \in U : disk.slots[i].attribute = SUBDIRECTORY}
<1>1. Dirs(S) \in SUBSET S /\ Dirs(T) \in SUBSET Dirs(S)
  OBVIOUS
<1> HIDE DEF Dirs
<1>2. /\ IsFiniteSet(T) /\ Cardinality(T) <= Cardinality(S)
      /\ IsFiniteSet(Dirs(S))
  BY <1>1, FS_Subset
<1>3. IsFiniteSet(Dirs(T)) /\ Cardinality(Dirs(T)) <= Cardinality(Dirs(S))
  BY <1>1, <1>2, FS_Subset
<1>4. /\ Cardinality(S) \in Nat /\ Cardinality(T) \in Nat
      /\ Cardinality(Dirs(S)) \in Nat /\ Cardinality(Dirs(T)) \in Nat
  BY <1>2, <1>3, FS_CardinalityType
<1>5. /\ Taken(S) = 2 * Cardinality(S) + 2 * Cardinality(Dirs(S))
      /\ Taken(T) = 2 * Cardinality(T) + 2 * Cardinality(Dirs(T))
  BY DEF Taken, Dirs
<1> QED
  BY <1>2, <1>3, <1>4, <1>5

\* What one entry takes.
LEMMA TakenByOne ==
    ASSUME NEW S, IsFiniteSet(S), NEW x, x \notin S
    PROVE  Taken(S \cup {x}) =
              Taken(S) + IF disk.slots[x].attribute = SUBDIRECTORY THEN 4 ELSE 2
<1> DEFINE Dirs(U) == {i \in U : disk.slots[i].attribute = SUBDIRECTORY}
           dir == disk.slots[x].attribute = SUBDIRECTORY
<1>1. /\ Dirs(S) \in SUBSET S
      /\ x \notin Dirs(S)
      /\ Dirs(S \cup {x}) = IF dir THEN Dirs(S) \cup {x} ELSE Dirs(S)
  OBVIOUS
<1> HIDE DEF Dirs, dir
<1>2. IsFiniteSet(Dirs(S))
  BY <1>1, FS_Subset
<1>3. Cardinality(S \cup {x}) = Cardinality(S) + 1
  BY FS_AddElement
<1>4. Cardinality(Dirs(S) \cup {x}) = Cardinality(Dirs(S)) + 1
  BY <1>1, <1>2, FS_AddElement
<1>5. Cardinality(S) \in Nat /\ Cardinality(Dirs(S)) \in Nat
  BY <1>2, FS_CardinalityType
<1>6. /\ Taken(S) = 2 * Cardinality(S) + 2 * Cardinality(Dirs(S))
      /\ Taken(S \cup {x}) = 2 * Cardinality(S \cup {x}) + 2 * Cardinality(Dirs(S \cup {x}))
  BY DEF Taken, Dirs
<1>7. Taken(S \cup {x}) = Taken(S) + IF dir THEN 4 ELSE 2
  BY <1>1, <1>3, <1>4, <1>5, <1>6
<1> QED
  BY <1>7 DEF dir

\* An item takes what its entry takes at most, while that leaves something.
LEMMA ItemWithRoom ==
    ASSUME NEW i, NEW heap \in Nat,
           heap > IF disk.slots[i].attribute = SUBDIRECTORY THEN 4 ELSE 2
    PROVE  LET r == fat16_new_fat_item(i, heap)
           IN  /\ r.item = i
               /\ r.left \in Nat
               /\ r.left >= heap - IF disk.slots[i].attribute = SUBDIRECTORY THEN 4 ELSE 2
BY DEF fat16_new_fat_item, fat16_load_fat_directory

\* With a block more than what the search takes, it finds an entry if there is one.
LEMMA SearchHasRoom ==
    ASSUME disk \in Disks, NEW part, NEW heap \in Nat,
           heap > Taken(Matches(disk.slots, part)), Matches(disk.slots, part) # {}
    PROVE  LET r == fat16_find_item_in_directory(part, heap)
           IN  r.item \in Matches(disk.slots, part) /\ r.left > 0
<1> DEFINE total == fat16_get_total_items_for_directory(disk.slots)
           M == Matches(disk.slots, part)
           Up(i) == M \cap (1..i)
           Cost(i) == IF disk.slots[i].attribute = SUBDIRECTORY THEN 4 ELSE 2
<1>1. total \in Nat /\ M \in SUBSET (1..total) /\ IsFiniteSet(M)
  BY ItemsAreCounted, MatchesAreEntries DEF Matches
<1>2. PICK f : Walk(f, part, heap)
  BY SearchWalks
<1>3. /\ f[0] = [item |-> NULL, left |-> heap]
      /\ \A i \in 1..total :
            f[i] = IF i \in M THEN fat16_new_fat_item(i, f[i - 1].left) ELSE f[i - 1]
      /\ fat16_find_item_in_directory(part, heap) = f[total]
  BY <1>2 DEF Walk
<1>4. heap > Taken(M) /\ M # {}
  OBVIOUS
<1> HIDE DEF total, M
<1>5. \A i : Up(i) \in SUBSET M /\ IsFiniteSet(Up(i))
  <2> SUFFICES ASSUME NEW i PROVE Up(i) \in SUBSET M /\ IsFiniteSet(Up(i))
    OBVIOUS
  <2>1. Up(i) \in SUBSET M
    OBVIOUS
  <2> HIDE DEF Up
  <2> QED
    BY <1>1, <2>1, FS_Subset
<1>6. \A i : Taken(Up(i)) \in Nat /\ Taken(M) \in Nat /\ Taken(Up(i)) <= Taken(M)
  <2> HIDE DEF Up
  <2> QED
    BY <1>1, <1>5, TakenGrows
<1>7. \A i \in Nat : /\ i + 1 \in M => /\ Up(i + 1) = Up(i) \cup {i + 1}
                                       /\ i + 1 \notin Up(i)
                     /\ i + 1 \notin M => Up(i + 1) = Up(i)
  <2> SUFFICES ASSUME NEW i \in Nat
               PROVE  /\ i + 1 \in M => /\ Up(i + 1) = Up(i) \cup {i + 1}
                                        /\ i + 1 \notin Up(i)
                      /\ i + 1 \notin M => Up(i + 1) = Up(i)
    OBVIOUS
  <2>1. 1..(i + 1) = (1..i) \cup {i + 1} /\ i + 1 \notin 1..i
    OBVIOUS
  <2> QED
    BY <2>1
<1>8. Up(0) = {} /\ Up(total) = M
  <2>1. 1..0 = {}
    OBVIOUS
  <2>2. M \cap (1..total) = M
    BY <1>1
  <2> QED
    BY <2>1, <2>2
<1>9. Taken(Up(0)) = 0
  <2>1. /\ Up(0) = {}
        /\ {i \in Up(0) : disk.slots[i].attribute = SUBDIRECTORY} = {}
    BY <1>8
  <2> HIDE DEF Up
  <2>2. Taken(Up(0)) = 2 * Cardinality({}) + 2 * Cardinality({})
    BY <2>1, Zenon DEF Taken
  <2> QED
    BY <2>2, FS_EmptySet
<1> DEFINE Fine(i) == /\ f[i].left \in Nat
                      /\ f[i].left >= heap - Taken(Up(i))
                      /\ Up(i) # {} => f[i].item \in M
           S == {i \in 0..total : Fine(i)}
<1>10. 0 \in S
  <2> HIDE DEF Up
  <2> QED
    BY <1>1, <1>3, <1>8, <1>9
<1>11. ASSUME NEW i \in 0..(total - 1), i \in S PROVE i + 1 \in S
  <2>1. i + 1 \in 1..total /\ (i + 1) - 1 = i /\ i \in Nat
    BY <1>1
  <2>2. Fine(i)
    BY <1>11
  <2> HIDE DEF Up
  <2>3. CASE i + 1 \in M
    <3> DEFINE r == fat16_new_fat_item(i + 1, f[i].left)
    <3>1. f[i + 1] = r
      BY <1>3, <2>1, <2>3
    <3>2. Up(i + 1) = Up(i) \cup {i + 1} /\ i + 1 \notin Up(i)
      BY <1>7, <2>1, <2>3
    <3>3. Taken(Up(i + 1)) = Taken(Up(i)) + Cost(i + 1)
      BY <1>5, <3>2, TakenByOne
    <3>4. Taken(Up(i + 1)) <= Taken(M) /\ Taken(Up(i)) \in Nat /\ Taken(M) \in Nat
      BY <1>6
    <3>5. f[i].left \in Nat /\ f[i].left > Cost(i + 1)
      BY <1>4, <2>2, <3>3, <3>4
    <3>6. r.item = i + 1 /\ r.left \in Nat /\ r.left >= f[i].left - Cost(i + 1)
      BY <3>5, ItemWithRoom
    <3> HIDE DEF r
    <3>7. Fine(i + 1)
      BY <2>2, <2>3, <3>1, <3>3, <3>4, <3>6
    <3> QED
      BY <1>1, <2>1, <3>7
  <2>4. CASE i + 1 \notin M
    <3>1. f[i + 1] = f[i] /\ Up(i + 1) = Up(i)
      BY <1>3, <1>7, <2>1, <2>4
    <3> QED
      BY <1>1, <2>1, <2>2, <3>1
  <2> QED
    BY <2>3, <2>4
<1>12. 0 \in Int /\ total \in Int
  BY <1>1
<1>13. total \in S
  <2> HIDE DEF S
  <2>1. 0..total \subseteq S
    BY <1>10, <1>11, <1>12, AllAlong
  <2> QED
    BY <1>1, <2>1
<1>14. /\ f[total].left \in Nat /\ f[total].left >= heap - Taken(M)
       /\ f[total].item \in M
  <2> HIDE DEF Up
  <2> QED
    BY <1>4, <1>8, <1>13
<1>15. f[total].left > 0
  <2>1. Taken(M) \in Nat
    BY <1>6
  <2> QED
    BY <1>4, <1>14, <2>1
<1> QED
  BY <1>3, <1>14, <1>15, Zenon DEF M

\* An empty slot is found when there is one.
LEMMA SlotIsFound ==
    ASSUME Empty # {}
    PROVE  FirstEmpty # {} /\ FirstEmpty \subseteq Empty
<1>1. Empty \in SUBSET Nat
  BY FilesAssumption DEF Empty
<1>2. \E m \in Empty : \A k \in Empty : m <= k
  BY <1>1, LeastElement
<1> QED
  BY <1>2 DEF FirstEmpty, Least

\* With enough memory the descriptor is stored.
LEMMA FopenStores ==
    ASSUME DisksAreFormatted, PathsAreText,
           IInv, NEW path \in Paths, CanOpen(path), fopen(path, "r")
    PROVE  \E h \in handles' : /\ h.path = path /\ ~ h.starved
                               /\ \A g \in handles : ~ g.starved => g.fd # h.fd
<1> DEFINE M == Matches(disk.slots, Parts(path)[1])
           parsed == pathparser_parse(path, free)
           opened == fat16_open(parsed.parts, parsed.left)
<1>1. /\ disk \in Disks /\ free \in Nat
      /\ DOMAIN file_descriptors = 1..MaxDescriptors
      /\ HandlesStayBound
  BY FilesAssumption DEF IInv, TypeOK
<1>2. /\ path.valid /\ path.drive = 0 /\ filesystem
      /\ Empty # {} /\ Len(Parts(path)) = 1
      /\ M # {} /\ free >= 5 + Taken(M)
  <2> DEFINE E == Entries(disk.slots, Parts(path)[1])
  <2>1. /\ path.valid /\ path.drive = 0 /\ filesystem
        /\ Empty # {} /\ Len(Parts(path)) = 1 /\ IsShortName(Parts(path)[1])
        /\ E \cap Safe(disk.slots) # {} /\ free >= 5 + Taken(E)
    BY DEF CanOpen
  <2>2. Parts(path)[1] \in Range(Parts(path))
    BY <2>1, PartsAreSome DEF Range
  <2>3. M \subseteq E /\ E \cap Safe(disk.slots) \subseteq M
    BY <1>1, <2>1, <2>2, SearchAgrees DEF LookupAgrees
  <2>4. IsFiniteSet(E)
    BY <1>1, EntriesAreSome
  <2> HIDE DEF E, M
  <2>5. Taken(M) \in Nat /\ Taken(E) \in Nat /\ Taken(M) <= Taken(E)
    BY <2>3, <2>4, TakenGrows
  <2> QED
    BY <1>1, <2>1, <2>3, <2>5
<1>3. Taken(M) \in Nat
  BY <1>1, MatchesAreEntries, TakenGrows
<1> HIDE DEF M
<1>4. free > 1 + 2 * Len(Parts(path))
  BY <1>1, <1>2, <1>3
<1>5. parsed.parts = Parts(path) /\ parsed.left = free - 1 - 2 * Len(Parts(path))
  BY <1>1, <1>2, <1>4, ParserLeaves
<1>6. parsed.left = free - 3
  BY <1>1, <1>2, <1>5
<1>7. parsed.parts # <<>>
  <2>1. Len(<<>>) # 1
    OBVIOUS
  <2> QED
    BY <1>2, <1>5, <2>1, Zenon
<1> DEFINE found == fat16_find_item_in_directory(Parts(path)[1], free - 4)
<1>8. opened = found
  <2>1. parsed.left # 0 /\ parsed.left - 1 = free - 4
    BY <1>1, <1>2, <1>3, <1>6
  <2>2. ~ Len(Parts(path)) > 1
    BY <1>2
  <2> HIDE DEF parsed
  <2> QED
    BY <1>5, <2>1, <2>2 DEF fat16_open, fat16_get_directory_entry
<1>9. found.item \in M /\ found.left > 0
  <2>1. free - 4 \in Nat /\ free - 4 > Taken(M)
    BY <1>1, <1>2, <1>3
  <2> QED
    BY <1>1, <1>2, <2>1, SearchHasRoom DEF M
<1>10. opened.item # NULL
  <2>1. M \subseteq 1..Len(disk.slots)
    BY <1>1, MatchesAreEntries DEF M
  <2>2. found.item \in 1..Len(disk.slots) /\ Len(disk.slots) \in Nat
    BY <1>1, <1>9, <2>1, EndMarkIsFirst
  <2> QED
    BY <1>8, <2>2 DEF NULL
<1>11. opened.left # 0
  BY <1>8, <1>9
<1>12. FirstEmpty # {} /\ FirstEmpty \subseteq Empty
  BY <1>2, SlotIsFound
<1> HIDE DEF parsed, opened
<1>13. Accepted(path, parsed.parts, "r")
  BY <1>2, <1>7 DEF Accepted
<1>14. \E slot \in FirstEmpty : Bind(slot, opened.item, path)
  BY <1>10, <1>11, <1>12, <1>13, Zenon DEF fopen, parsed, opened
<1>15. PICK slot \in FirstEmpty : Bind(slot, opened.item, path)
  BY <1>14
<1> DEFINE h == [fd |-> slot, path |-> path, item |-> opened.item, starved |-> FALSE]
<1>16. h \in handles' /\ h.path = path /\ ~ h.starved /\ h.fd = slot
  BY <1>15 DEF Bind
<1>17. \A g \in handles : ~ g.starved => g.fd # slot
  BY <1>1, <1>12 DEF HandlesStayBound, Empty
<1> HIDE DEF h
<1> QED
  BY <1>16, <1>17

\* On disks the format describes, while there is a slot and memory, opening what the
\* directory shows opens it under a number of its own, unless the search loses it to
\* deleted entries or to a field that runs on; and a call that passed NULL to kfree
\* returns none.
THEOREM OpeningSucceeds ==
    ASSUME DisksAreFormatted, PathsAreText PROVE Spec => OpenSucceeds
<1>1. ASSUME IInv, Next
      PROVE  /\ \A path \in Paths : CanOpen(path) /\ fopen(path, "r") =>
                   \E h \in handles' : /\ h.path = path /\ ~ h.starved
                                       /\ \A g \in handles : ~ g.starved => g.fd # h.fd
             /\ wild' # wild => handles' = handles
  <2>1. wild' # wild => handles' = handles
    <3>1. CASE DiskInit \/ kzalloc \/ kfree
      BY <3>1 DEF DiskInit, kzalloc, kfree
    <3>2. ASSUME NEW path \in Paths, NEW mode \in Modes, fopen(path, mode)
          PROVE  wild' # wild => handles' = handles
      BY <1>1, <3>2, FopenDoes
    <3> QED
      BY <1>1, <3>1, <3>2 DEF Next
  <2> QED
    BY <1>1, <2>1, FopenStores
<1>2. IInv /\ [Next]_vars =>
        [/\ \A path \in Paths : CanOpen(path) /\ fopen(path, "r") =>
               \E h \in handles' : /\ h.path = path /\ ~ h.starved
                                   /\ \A g \in handles : ~ g.starved => g.fd # h.fd
         /\ wild' # wild => handles' = handles]_vars
  BY <1>1
<1> QED
  BY FilesInvariant, <1>2, PTL DEF Spec, OpenSucceeds

-----------------------------------------------------------------------------
(* The files implement what callers of fopen expect *)

\* No number is in use, nothing is opened at first.
LEMMA FilesStartMaps == Init => Abstract!Init
BY DEF Init, Abstract!Init

\* Storing a descriptor opens an entry the path leads to, under a fresh number.
LEMMA BindMaps ==
    ASSUME DisksAreFormatted, PathsAreText, IInv, UNCHANGED disk,
           NEW path \in Paths, Len(Parts(path)) = 1,
           NEW slot \in FirstEmpty, NEW item \in Matches(disk.slots, Parts(path)[1]),
           Bind(slot, item, path)
    PROVE  Abstract!Next
<1> DEFINE open == {[path |-> Parts(h.path), fd |-> h.fd, entry |-> h.item] :
                       h \in {g \in handles : ~ g.starved}}
           directory == [parts \in {Parts(q) : q \in Paths} |-> Leads(parts)]
           h == [fd |-> slot, path |-> path, item |-> item, starved |-> FALSE]
           o == [path |-> Parts(path), fd |-> slot, entry |-> item]
<1>1. handles' = handles \cup {h}
  BY DEF Bind
<1>2. {g \in handles' : ~ g.starved} = {g \in handles : ~ g.starved} \cup {h}
  BY <1>1
<1>3. open' = open \cup {o}
  <2> DEFINE F(g) == [path |-> Parts(g.path), fd |-> g.fd, entry |-> g.item]
             live == {g \in handles : ~ g.starved}
  <2>1. open' = {F(g) : g \in live \cup {h}}
    BY <1>2
  <2>2. open = {F(g) : g \in live} /\ o = F(h)
    OBVIOUS
  <2> HIDE DEF F, live, open, o, h
  <2>3. {F(g) : g \in live \cup {h}} = {F(g) : g \in live} \cup {F(h)}
    OBVIOUS
  <2> QED
    BY <2>1, <2>2, <2>3, Zenon
<1>4. slot \in 1..MaxDescriptors /\ file_descriptors[slot] = NULL
  BY DEF FirstEmpty, Least, Empty
<1>5. \A p \in open : p.fd # o.fd
  BY <1>4 DEF IInv, HandlesStayBound
<1>6. item \in Leads(Parts(path))
  <2>1. Parts(path)[1] \in Range(Parts(path))
    BY PartsAreSome DEF Range
  <2>2. disk \in Disks
    BY DEF IInv, TypeOK
  <2>3. IsShortName(Parts(path)[1]) => item \in Entries(disk.slots, Parts(path)[1])
    BY <2>1, <2>2, PartsAreText, MatchesAreLive
  <2> QED
    BY <2>3 DEF Leads
<1>7. o.entry \in directory[o.path]
  BY <1>6
<1>8. UNCHANGED directory
  BY DEF Leads
<1>9. Abstract!Open(o)
  BY <1>3, <1>4, <1>5, <1>7, <1>8 DEF Abstract!Open
<1>10. o \in open'
  BY <1>3
<1> QED
  BY <1>9, <1>10 DEF Abstract!Next

\* Every step opens an entry or changes nothing the callers see: a number that
\* is returned without a descriptor is not theirs.
LEMMA StepMaps ==
    ASSUME DisksAreFormatted, PathsAreText, IInv, [Next]_vars
    PROVE  Abstract!Next \/ UNCHANGED <<disk, {g \in handles : ~ g.starved}>>
<1>1. ASSUME UNCHANGED <<disk, handles>>
      PROVE  UNCHANGED <<disk, {g \in handles : ~ g.starved}>>
  BY <1>1
<1>2. CASE UNCHANGED vars
  BY <1>1, <1>2 DEF vars
<1>3. CASE DiskInit \/ kzalloc \/ kfree
  BY <1>1, <1>3 DEF DiskInit, kzalloc, kfree
<1>4. ASSUME NEW path \in Paths, NEW mode \in Modes, fopen(path, mode)
      PROVE  Abstract!Next \/ UNCHANGED <<disk, {g \in handles : ~ g.starved}>>
  <2>1. UNCHANGED disk
    BY <1>4, FopenDoes
  <2>2. CASE UNCHANGED <<file_descriptors, handles>>
    BY <1>1, <2>1, <2>2
  <2>3. ASSUME Len(Parts(path)) = 1,
               NEW slot \in FirstEmpty, NEW item \in Matches(disk.slots, Parts(path)[1]),
               Bind(slot, item, path)
        PROVE  Abstract!Next
    BY <2>1, <2>3, BindMaps
  <2>4. ASSUME NEW slot, NEW item, Starve(slot, item, path)
        PROVE  UNCHANGED <<disk, {g \in handles : ~ g.starved}>>
    <3> DEFINE h == [fd |-> slot, path |-> path, item |-> item, starved |-> TRUE]
    <3>1. handles' = handles \cup {h} /\ h.starved
      BY <2>4 DEF Starve
    <3> HIDE DEF h
    <3> QED
      BY <2>1, <3>1
  <2> QED
    BY <1>4, <2>2, <2>3, <2>4, FopenDoes
<1> QED
  BY <1>2, <1>3, <1>4 DEF Next

\* On disks the format describes, files are what callers expect: a number that
\* stands for something is nobody else's, and stands for an entry the whole path
\* leads to. No path that lost its end when memory ran out opens anything.
THEOREM FilesImplementOpenFiles ==
    ASSUME DisksAreFormatted, PathsAreText PROVE Spec => AbstractSpec
<1>1. IInv /\ [Next]_vars =>
         [Abstract!Next]_<<[parts \in {Parts(path) : path \in Paths} |-> Leads(parts)],
                           {[path |-> Parts(h.path), fd |-> h.fd, entry |-> h.item] :
                               h \in {g \in handles : ~ g.starved}}>>
  <2> SUFFICES ASSUME IInv, [Next]_vars,
                      UNCHANGED <<disk, {g \in handles : ~ g.starved}>>
               PROVE  UNCHANGED
                        <<[parts \in {Parts(path) : path \in Paths} |-> Leads(parts)],
                          {[path |-> Parts(h.path), fd |-> h.fd, entry |-> h.item] :
                              h \in {g \in handles : ~ g.starved}}>>
    BY StepMaps
  <2> QED
    BY DEF Leads
<1> QED
  BY FilesInvariant, FilesStartMaps, <1>1, PTL DEF Spec, AbstractSpec, Abstract!Spec

-----------------------------------------------------------------------------
(* Reading *)

\* A multiple of a number leaves no rest, and a number below it itself.
LEMMA Multiples ==
    ASSUME NEW n \in Nat \ {0}
    PROVE  /\ \A x \in Int : (x * n) % n = 0
           /\ \A x \in Int : x % n = 0 => (x \div n) * n = x
           /\ \A x \in 0..(n - 1) : x % n = x /\ x \div n = 0
<1>1. ASSUME NEW x \in Int PROVE (x * n) % n = 0
  BY SMTT(30)
<1>2. ASSUME NEW x \in Int, x % n = 0 PROVE (x \div n) * n = x
  BY <1>2, SMTT(30)
<1>3. ASSUME NEW x \in 0..(n - 1) PROVE x % n = x /\ x \div n = 0
  BY SMTT(30)
<1> QED
  BY <1>1, <1>2, <1>3

\* A cluster has bytes.
LEMMA ClustersHaveBytes ==
    ClusterBytes \in Nat \ {0} /\ SectorSize \in Nat \ {0}
BY Fat16Assumption DEF ClusterBytes

\* Up to a cluster's worth of bytes the first cluster is used.
LEMMA FirstClusterIsUsed ==
    ASSUME NEW volume, NEW cluster, NEW offset \in 0..(ClusterBytes - 1)
    PROVE  fat16_get_cluster_for_offset(volume, cluster, offset) = cluster
<1> DEFINE next(c) == IF c < 0 THEN c
                      ELSE IF fat16_get_fat_entry(volume, c) \in NoCluster THEN EIO
                      ELSE fat16_get_fat_entry(volume, c)
           Good(f) == f = [i \in 0..0 |-> IF i = 0 THEN cluster ELSE next(f[i - 1])]
           ahead == CHOOSE f : Good(f)
<1>1. offset \div ClusterBytes = 0
  BY ClustersHaveBytes, Multiples
<1>2. fat16_get_cluster_for_offset(volume, cluster, offset) = ahead[0]
  BY <1>1, Zenon DEF fat16_get_cluster_for_offset
<1> HIDE DEF next
<1>3. Good([i \in 0..0 |-> cluster])
  OBVIOUS
<1>4. Good(ahead)
  <2> HIDE DEF Good
  <2> QED
    BY <1>3
<1> HIDE DEF ahead
<1> QED
  BY <1>2, <1>4

\* The bytes of a stretch of the disk.
Stretch(start, total) == [j \in 1..total |-> start + j - 1]

\* Sector after sector from the start of one, a piece is a stretch of the cluster.
LEMMA PieceIsAStretch ==
    ASSUME NEW volume, NEW cluster \in Nat, NEW at \in 0..(ClusterBytes - 1),
           at % SectorSize = 0, NEW total \in Nat
    PROVE  Piece(volume, cluster, at, total) =
              [res |-> 0, bytes |-> Stretch(ClusterStart(cluster) + at, total)]
<1> DEFINE pos == fat16_cluster_to_sector(cluster) * SectorSize + (at % ClusterBytes)
           size == RootDirEntries * ItemSize
           before == FatCopies * SectorsPerFat + ReservedSectors
           behind == (cluster - 2) * SectorsPerCluster
<1>1. at \in Nat /\ at % ClusterBytes = at
  BY ClustersHaveBytes, Multiples
<1>2. /\ SectorSize \in Nat \ {0} /\ size \in Int /\ before \in Int /\ behind \in Int
      /\ size % SectorSize = 0
  BY Fat16Assumption
<1>3. (size \div SectorSize) * SectorSize = size /\ size \div SectorSize \in Int
  <2> HIDE DEF size
  <2> QED
    BY <1>2, Multiples
<1>4. fat16_cluster_to_sector(cluster) = before + (size \div SectorSize) + behind
  BY DEF fat16_cluster_to_sector, EndingSector, RootSector
<1>5. ClusterStart(cluster) = before * SectorSize + size + behind * SectorSize
  BY Fat16Assumption DEF ClusterStart
<1> DEFINE sector == fat16_cluster_to_sector(cluster)
<1>6. sector \in Int /\ sector * SectorSize = ClusterStart(cluster)
  <2> HIDE DEF size, before, behind
  <2> QED
    BY <1>2, <1>3, <1>4, <1>5, SMTT(30)
<1>7. (at \div SectorSize) * SectorSize = at /\ at \div SectorSize \in Int
  BY <1>1, <1>2, Multiples
<1> HIDE DEF sector
<1>8. pos = (sector + (at \div SectorSize)) * SectorSize
  <2>1. pos = sector * SectorSize + at
    BY <1>1, Zenon DEF sector
  <2>2. \A a, b, n \in Int : (a + b) * n = a * n + b * n
    BY SMTT(30)
  <2>3. SectorSize \in Int
    BY <1>2
  <2>4. (sector + (at \div SectorSize)) * SectorSize
           = sector * SectorSize + (at \div SectorSize) * SectorSize
    BY <1>6, <1>7, <2>2, <2>3, Zenon
  <2> QED
    BY <1>7, <2>1, <2>4, Zenon
<1>9. pos % SectorSize = 0
  <2>1. sector + (at \div SectorSize) \in Int
    BY <1>6, <1>7
  <2> HIDE DEF pos
  <2> QED
    BY <1>2, <1>8, <2>1, Multiples
<1>10. pos = ClusterStart(cluster) + at
  BY <1>1, <1>6 DEF sector
<1> HIDE DEF pos
<1>11. ASSUME NEW j \in 1..total PROVE (pos % SectorSize) + ((j - 1) % SectorSize) < SectorSize
  BY <1>2, <1>9
<1>12. diskstreamer_read(pos, total) = Stretch(pos, total)
  BY <1>11 DEF diskstreamer_read, Stretch
<1>13. fat16_get_cluster_for_offset(volume, cluster, at) = cluster
  BY FirstClusterIsUsed
<1>14. ~ cluster < 0
  OBVIOUS
<1> QED
  BY <1>10, <1>12, <1>13, <1>14, Zenon DEF Piece, pos

\* Two stretches that follow each other are one.
LEMMA StretchesJoin ==
    ASSUME NEW start \in Int, NEW a \in Nat, NEW b \in Nat
    PROVE  /\ Stretch(start, a) \o Stretch(start + a, b) = Stretch(start, a + b)
           /\ <<>> \o Stretch(start, a) = Stretch(start, a)
<1> DEFINE s == Stretch(start, a)
           t == Stretch(start + a, b)
           u == Stretch(start, a + b)
<1>1. /\ s \in Seq(Int) /\ Len(s) = a /\ \A j \in 1..a : s[j] = start + j - 1
      /\ t \in Seq(Int) /\ Len(t) = b /\ \A j \in 1..b : t[j] = start + a + j - 1
      /\ u \in Seq(Int) /\ Len(u) = a + b /\ \A j \in 1..(a + b) : u[j] = start + j - 1
  BY DEF Stretch
<1> HIDE DEF s, t, u
<1>2. /\ s \o t \in Seq(Int) /\ Len(s \o t) = a + b
      /\ \A j \in 1..(a + b) : (s \o t)[j] = IF j <= a THEN s[j] ELSE t[j - a]
  <2>1. /\ s \o t \in Seq(Int) /\ Len(s \o t) = Len(s) + Len(t)
        /\ \A j \in 1..(Len(s) + Len(t)) :
              (s \o t)[j] = IF j <= Len(s) THEN s[j] ELSE t[j - Len(s)]
    BY <1>1, ConcatProperties
  <2> QED
    BY <1>1, <2>1, Zenon
<1>3. \A j \in 1..(a + b) : (s \o t)[j] = u[j]
  <2> SUFFICES ASSUME NEW j \in 1..(a + b) PROVE (s \o t)[j] = u[j]
    OBVIOUS
  <2>1. CASE j <= a
    BY <1>1, <1>2, <2>1
  <2>2. CASE ~ j <= a
    <3>1. j - a \in 1..b /\ start + a + (j - a) - 1 = start + j - 1
      BY <2>2
    <3> QED
      BY <1>1, <1>2, <2>2, <3>1
  <2> QED
    BY <2>1, <2>2
<1>4. s \o t = u
  BY <1>1, <1>2, <1>3, SeqEqual
<1>5. <<>> \o s = s
  BY <1>1, ConcatEmptySeq
<1> QED
  BY <1>4, <1>5 DEF s, t, u

\* Where a cluster starts is a number.
LEMMA ClusterStartIsInt ==
    ASSUME NEW cluster \in Nat
    PROVE  ClusterStart(cluster) \in Int
BY Fat16Assumption DEF ClusterStart

\* A call for no more than a cluster has is one piece.
LEMMA CallIsOnePiece ==
    ASSUME NEW volume, NEW cluster \in Nat, NEW offset \in 0..(ClusterBytes - 1),
           offset % SectorSize = 0, NEW total \in 1..ClusterBytes
    PROVE  fat16_read_internal(volume, cluster, offset, total) =
              [res |-> 0, bytes |-> Stretch(ClusterStart(cluster) + offset, total)]
<1> DEFINE pieces == (total + ClusterBytes - 1) \div ClusterBytes
           Next1(k, v) == LET done == (k - 1) * ClusterBytes
                          IN  With(v, Piece(volume, cluster, offset + done,
                                            Min({ClusterBytes, total - done})))
           Good(f) == f = [k \in 0..pieces |-> IF k = 0 THEN Nothing ELSE Next1(k, f[k - 1])]
           read == CHOOSE f : Good(f)
           result == [res |-> 0, bytes |-> Stretch(ClusterStart(cluster) + offset, total)]
<1>1. ClusterBytes \in Nat \ {0} /\ offset \in Nat /\ total \in Nat \ {0}
  BY ClustersHaveBytes
<1>2. pieces = 1
  <2>1. \A n \in Nat \ {0} : \A x \in 1..n : (x + n - 1) \div n = 1
    BY SMTT(30)
  <2> QED
    BY <1>1, <2>1
<1>3. fat16_read_internal(volume, cluster, offset, total) = read[pieces]
  BY Zenon DEF fat16_read_internal
<1>4. Next1(1, Nothing) = result
  <2>1. (1 - 1) * ClusterBytes = 0 /\ offset + 0 = offset /\ total - 0 = total
    BY <1>1
  <2>2. Min({ClusterBytes, total}) = total
    BY <1>1, MinOfTwo
  <2>3. Piece(volume, cluster, offset, total) = result
    BY <1>1, PieceIsAStretch
  <2>4. Next1(1, Nothing) = With(Nothing, result)
    BY <2>1, <2>2, <2>3, Zenon
  <2>5. <<>> \o result.bytes = result.bytes
    BY <1>1, StretchesJoin, ClusterStartIsInt
  <2> HIDE DEF Next1
  <2> QED
    BY <2>4, <2>5 DEF With, Nothing
<1> HIDE DEF Next1, pieces, result
<1>5. Good([k \in 0..1 |-> IF k = 0 THEN Nothing ELSE result])
  <2>1. \A k \in 0..1 : k # 0 => k = 1 /\ k - 1 = 0 /\ 0 \in 0..1
    OBVIOUS
  <2> QED
    BY <1>2, <1>4, <2>1
<1>6. Good(read)
  <2> HIDE DEF Good
  <2> QED
    BY <1>5
<1> HIDE DEF read
<1>7. read[0] = Nothing /\ read[1] = Next1(1, read[0])
  <2>1. 0 \in 0..1 /\ 1 \in 0..1 /\ 1 # 0 /\ 1 - 1 = 0
    OBVIOUS
  <2> QED
    BY <1>2, <1>6, <2>1
<1> QED
  BY <1>2, <1>3, <1>4, <1>7 DEF result

\* What two reads deliver that succeed, one behind the other.
LEMMA SuccessesJoin ==
    ASSUME NEW a, NEW b
    PROVE  With([res |-> 0, bytes |-> a], [res |-> 0, bytes |-> b]) =
              [res |-> 0, bytes |-> a \o b]
BY DEF With

\* One call, or two of whole sectors, deliver the beginning of the file.
LEMMA ReadIsAStretch ==
    ASSUME NEW volume, NEW item, item.cluster \in Nat,
           NEW size \in 1..ClusterBytes, NEW nmemb \in 1..2,
           size * nmemb <= ClusterBytes, nmemb = 1 \/ size % SectorSize = 0
    PROVE  fat16_read(volume, item, size, nmemb).bytes =
              Stretch(ClusterStart(item.cluster), size * nmemb)
<1> DEFINE cluster == item.cluster
           start == ClusterStart(cluster)
           Call(i) == fat16_read_internal(volume, cluster, (i - 1) * size, size)
           Good(f) == f = [i \in 0..nmemb |-> IF i = 0 THEN Nothing
                                              ELSE With(f[i - 1], Call(i))]
           read == CHOOSE f : Good(f)
           one == [res |-> 0, bytes |-> Stretch(start, size)]
           two == [res |-> 0, bytes |-> Stretch(start, size + size)]
<1>1. ClusterBytes \in Nat \ {0} /\ SectorSize \in Nat \ {0} /\ size \in Nat \ {0}
  BY ClustersHaveBytes
<1>2. start \in Int /\ cluster \in Nat
  BY ClusterStartIsInt
<1>3. fat16_read(volume, item, size, nmemb) = read[nmemb]
  BY Zenon DEF fat16_read
<1>4. Call(1) = one
  <2>1. 0 \in 0..(ClusterBytes - 1) /\ 0 % SectorSize = 0 /\ (1 - 1) * size = 0
    BY <1>1, Multiples
  <2>2. start + 0 = start
    BY <1>2
  <2>3. fat16_read_internal(volume, cluster, 0, size) =
           [res |-> 0, bytes |-> Stretch(start + 0, size)]
    BY <1>2, <2>1, CallIsOnePiece
  <2> QED
    BY <2>1, <2>2, <2>3, Zenon
<1>5. nmemb = 2 => Call(2) = [res |-> 0, bytes |-> Stretch(start + size, size)]
  <2> SUFFICES ASSUME nmemb = 2
               PROVE  Call(2) = [res |-> 0, bytes |-> Stretch(start + size, size)]
    OBVIOUS
  <2>1. size \in 0..(ClusterBytes - 1) /\ (2 - 1) * size = size /\ size % SectorSize = 0
    BY <1>1
  <2>2. fat16_read_internal(volume, cluster, size, size) =
           [res |-> 0, bytes |-> Stretch(start + size, size)]
    BY <1>2, <2>1, CallIsOnePiece
  <2> QED
    BY <2>1, <2>2, Zenon
<1> HIDE DEF Call, start, cluster
<1>6. With(Nothing, one) = one
  <2>1. <<>> \o Stretch(start, size) = Stretch(start, size)
    BY <1>1, <1>2, StretchesJoin
  <2> QED
    BY <2>1, SuccessesJoin, Zenon DEF Nothing
<1>7. nmemb = 2 => With(one, Call(2)) = two
  <2>1. Stretch(start, size) \o Stretch(start + size, size) = Stretch(start, size + size)
    BY <1>1, <1>2, StretchesJoin
  <2> QED
    <3> DEFINE more == [res |-> 0, bytes |-> Stretch(start + size, size)]
    <3>1. With(one, more) = two
      BY <2>1, SuccessesJoin, Zenon
    <3> QED
      BY <1>5, <3>1, Zenon
<1> HIDE DEF one, two
<1>8. Good([i \in 0..nmemb |-> IF i = 0 THEN Nothing ELSE IF i = 1 THEN one ELSE two])
  <2>1. CASE nmemb = 1
    <3>1. \A i \in 0..1 : i # 0 => i = 1 /\ i - 1 = 0 /\ 0 \in 0..1
      OBVIOUS
    <3> QED
      BY <1>4, <1>6, <2>1, <3>1
  <2>2. CASE nmemb = 2
    <3>1. \A i \in 0..2 : /\ i = 0 \/ i = 1 \/ i = 2
                          /\ 0 \in 0..2 /\ 1 \in 0..2 /\ 1 - 1 = 0 /\ 2 - 1 = 1
      OBVIOUS
    <3> QED
      BY <1>4, <1>6, <1>7, <2>2, <3>1
  <2> QED
    BY <2>1, <2>2
<1>9. Good(read)
  <2> HIDE DEF Good
  <2> QED
    BY <1>8
<1> HIDE DEF read
<1>10. read[1] = one
  <2>1. 0 \in 0..nmemb /\ 1 \in 0..nmemb /\ 1 # 0 /\ 1 - 1 = 0
    OBVIOUS
  <2>2. read[0] = Nothing /\ read[1] = With(read[0], Call(1))
    BY <1>9, <2>1
  <2> QED
    BY <1>4, <1>6, <2>2, Zenon
<1>11. nmemb = 2 => read[2] = two
  <2> SUFFICES ASSUME nmemb = 2 PROVE read[2] = two
    OBVIOUS
  <2>1. 2 \in 0..nmemb /\ 2 # 0 /\ 2 - 1 = 1
    OBVIOUS
  <2>2. read[2] = With(read[1], Call(2))
    BY <1>9, <2>1
  <2> QED
    BY <1>7, <1>10, <2>2, Zenon
<1>12. CASE nmemb = 1
  <2>1. size * nmemb = size
    BY <1>1, <1>12
  <2> QED
    BY <1>3, <1>10, <1>12, <2>1 DEF one, start, cluster
<1>13. CASE nmemb = 2
  <2>1. size * nmemb = size + size
    BY <1>1, <1>13
  <2> QED
    BY <1>3, <1>11, <1>13, <2>1 DEF two, start, cluster
<1> QED
  BY <1>12, <1>13

\* A read in one piece, or two of whole sectors, delivers the bytes of the file's
\* first cluster in order; a number that stands for nothing, and the last one of
\* the table, deliver none.
THEOREM ReadsAreExact == Spec => []ReadIsExact
<1>1. ASSUME IInv PROVE ReadIsExact
  <2> SUFFICES ASSUME NEW fd \in 1..MaxDescriptors, NEW size \in 1..ClusterBytes,
                      NEW nmemb \in 1..2
               PROVE  LET read == fread(size, nmemb, fd)
                          start == ClusterStart(disk.slots[file_descriptors[fd]].cluster)
                      IN  IF file_descriptors[fd] = NULL \/ fd = MaxDescriptors
                          THEN read = [res |-> EIO, bytes |-> <<>>]
                          ELSE /\ size * nmemb <= ClusterBytes
                               /\ nmemb = 1 \/ size % SectorSize = 0
                               => read.bytes = [j \in 1..(size * nmemb) |-> start + j - 1]
    BY Zenon DEF ReadIsExact
  <2>1. size # 0 /\ nmemb # 0
    BY ClustersHaveBytes
  <2>2. fd \in Nat /\ fd > 0 /\ MaxDescriptors \in Nat /\ (fd >= MaxDescriptors <=> fd = MaxDescriptors)
    BY FilesAssumption
  <2>3. CASE file_descriptors[fd] = NULL \/ fd = MaxDescriptors
    <3>1. file_get_descriptor(fd) = NULL
      BY <2>2, <2>3 DEF file_get_descriptor
    <3> QED
      BY <2>3, <3>1, Zenon DEF fread
  <2>4. CASE ~ (file_descriptors[fd] = NULL \/ fd = MaxDescriptors)
    <3> DEFINE e == file_descriptors[fd]
    <3>1. disk \in Disks /\ e \in (-1)..Len(disk.slots) /\ e # Uncloned /\ e # NULL
      BY <1>1, <2>4 DEF IInv, TypeOK, StoredItemsAreWhole
    <3>2. e \in 1..Len(disk.slots)
      BY <3>1, EndMarkIsFirst DEF NULL, Uncloned
    <3>3. disk.slots[e].cluster \in Nat
      <4>1. disk.slots \in Seq(Range(disk.slots))
        BY <3>1, DisksAssumption
      <4>2. disk.slots[e] \in Range(disk.slots)
        BY <3>2, <4>1
      <4> QED
        BY <3>1, <4>2, DisksAssumption
    <3>4. file_get_descriptor(fd) = e
      BY <2>2, <2>4 DEF file_get_descriptor
    <3>5. fread(size, nmemb, fd) = fat16_read(disk, disk.slots[e], size, nmemb)
      BY <2>1, <3>1, <3>4, Zenon DEF fread
    <3>6. size * nmemb <= ClusterBytes /\ (nmemb = 1 \/ size % SectorSize = 0)
             => fread(size, nmemb, fd).bytes =
                   Stretch(ClusterStart(disk.slots[e].cluster), size * nmemb)
      BY <3>3, <3>5, ReadIsAStretch
    <3> QED
      BY <2>4, <3>6, Zenon DEF Stretch
  <2> QED
    BY <2>3, <2>4
<1> QED
  BY FilesInvariant, <1>1, PTL

================================================================================
