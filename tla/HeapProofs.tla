------------------------------ MODULE HeapProofs ------------------------------
(***************************************************************************)
(* The heap for every number of blocks, block size, word and set of sizes. *)
(* The inductive invariant is what the callers hold against what the table *)
(* says: extents are disjoint and every entry carries exactly the flags of *)
(* the extent it belongs to.                                               *)
(***************************************************************************)
EXTENDS Heap, Recursions, TLAPS

IInv == TypeOK /\ NoOverlap /\ TableIsExact

-----------------------------------------------------------------------------
(* Sizes and addresses *)

\* A request is for some number of blocks, wrapped or not.
LEMMA BlocksForNat ==
    ASSUME NEW size \in Nat
    PROVE  BlocksFor(size) \in Nat
<1>1. size % BlockSize \in Nat /\ size % BlockSize <= size
  BY HeapAssumption
<1>2. heap_align_value_to_upper(size) \in Nat
  BY <1>1, HeapAssumption DEF heap_align_value_to_upper
<1> QED
  BY <1>2, HeapAssumption DEF BlocksFor

\* The address of a block leads back to the block, and is never NULL.
LEMMA AddressRoundTrip ==
    ASSUME NEW b \in Nat
    PROVE  /\ heap_block_to_address(b) \in Nat \ {NULL}
           /\ heap_address_to_block(heap_block_to_address(b)) = b
<1>1. b * BlockSize \in Nat
  BY HeapAssumption
<1>2. (b * BlockSize) \div BlockSize = b
  BY HeapAssumption, SMTT(20)
<1>3. (PoolStart + b * BlockSize) - PoolStart = b * BlockSize
  BY <1>1, HeapAssumption
<1> QED
  BY <1>1, <1>2, <1>3, HeapAssumption
  DEF heap_block_to_address, heap_address_to_block, NULL

-----------------------------------------------------------------------------
(* The table and the extents *)

\* The entry of a block of a live extent is the one written for that extent.
LEMMA EntryOfLive ==
    ASSUME IInv, NEW e \in live, NEW i \in Blocks, i \in BlocksOf(e)
    PROVE  entries[i] = TakenEntry(i, e)
BY DEF IInv, TypeOK, NoOverlap, TableIsExact

\* A block without the TAKEN flag is in no live extent.
LEMMA NotTakenIsFree ==
    ASSUME IInv, NEW i \in Blocks, "TAKEN" \notin entries[i]
    PROVE  \A e \in live : i \notin BlocksOf(e)
BY EntryOfLive DEF TakenEntry

\* What the scan answers is a block from which no live extent is met, neither
\* in the pool nor past its end.
LEMMA StartBlockIsFree ==
    ASSUME IInv, NEW n \in Nat, NEW bs \in Blocks, heap_get_start_block(n, bs)
    PROVE  /\ \A e \in live : bs \notin BlocksOf(e)
           /\ n > 0 => \A e \in live, i \in bs..(bs + n - 1) : i \notin BlocksOf(e)
<1>0. bs # ENOMEM
  BY HeapAssumption DEF Blocks, ENOMEM
<1>1. CASE n > 0 /\ bs \in Fits(n)
  <2>1. \A i \in bs..(bs + n - 1) : i \in Blocks /\ "TAKEN" \notin entries[i]
    BY <1>1, HeapAssumption DEF Fits, IsFreeRun, Blocks
  <2>2. bs \in bs..(bs + n - 1)
    BY <1>1, HeapAssumption DEF Blocks
  <2> QED
    BY <2>1, <2>2, NotTakenIsFree
<1>2. CASE bs \in LastRun
  <2>1. \A i \in bs..(TotalBlocks - 1) : i \in Blocks /\ "TAKEN" \notin entries[i]
    BY <1>2, HeapAssumption DEF LastRun, IsFreeRun, Blocks
  <2>2. /\ bs \in bs..(TotalBlocks - 1)
        /\ TotalBlocks - 1 \in bs..(TotalBlocks - 1)
    BY HeapAssumption DEF Blocks
  <2>3. ASSUME NEW e \in live, NEW i \in Nat, i >= bs, i \in BlocksOf(e)
        PROVE  FALSE
    <3>1. CASE i < TotalBlocks
      BY <3>1, <2>1, <2>3, NotTakenIsFree, HeapAssumption DEF Blocks
    <3>2. CASE i >= TotalBlocks
      <4>1. e.start \in Nat /\ e.len \in Nat /\ e.start < TotalBlocks
        BY HeapAssumption DEF IInv, TypeOK, Blocks
      <4>2. TotalBlocks - 1 \in BlocksOf(e)
        BY <4>1, <3>2, <2>3, HeapAssumption DEF BlocksOf
      <4> QED
        BY <4>2, <2>1, <2>2, NotTakenIsFree
    <3> QED
      BY <3>1, <3>2, HeapAssumption
  <2> QED
    BY <2>3 DEF Blocks
<1> QED
  BY <1>0, <1>1, <1>2 DEF heap_get_start_block, Least

\* The chain of HAS_NEXT flags from the start of a live extent is the extent,
\* as far as the table reaches: releasing it stops where it ends.
LEMMA ChainIsExtent ==
    ASSUME IInv, NEW e \in live
    PROVE  ChainFrom(e.start) = BlocksOf(e) \cap Blocks
<1>1. /\ e.start \in Blocks
      /\ e.len \in Nat \ {0}
  BY DEF IInv, TypeOK
<1>2. ASSUME NEW i \in Blocks, i \in BlocksOf(e)
      PROVE  i \in ChainFrom(e.start)
  <2>1. \A k \in e.start..(i - 1) :
           k \in Blocks /\ k \in BlocksOf(e) /\ k < e.start + e.len - 1
    BY <1>1, <1>2, HeapAssumption DEF Blocks, BlocksOf
  <2>2. \A k \in e.start..(i - 1) : "HAS_NEXT" \in entries[k]
    BY <2>1, EntryOfLive DEF TakenEntry
  <2> QED
    BY <2>2, <1>1, <1>2, HeapAssumption DEF ChainFrom, BlocksOf, Blocks
<1>3. ASSUME NEW i \in ChainFrom(e.start), i \notin BlocksOf(e)
      PROVE  FALSE
  <2> DEFINE last == e.start + e.len - 1
  <2>1. /\ i \in Blocks /\ i > last
        /\ last \in Blocks /\ last \in BlocksOf(e) /\ last \in e.start..(i - 1)
    BY <1>1, <1>3, HeapAssumption DEF ChainFrom, BlocksOf, Blocks
  <2>2. "HAS_NEXT" \notin entries[last]
    BY <2>1, <1>1, EntryOfLive DEF TakenEntry
  <2> QED
    BY <2>1, <2>2, <1>3 DEF ChainFrom
<1> QED
  BY <1>2, <1>3 DEF ChainFrom
-----------------------------------------------------------------------------
(* The invariant *)

\* The invariant holds of an empty heap.
LEMMA InitIInv == Init => IInv
BY HeapAssumption DEF Init, IInv, TypeOK, NoOverlap, TableIsExact, Blocks, NULL

\* Marking the blocks of a free extent makes the table exact for one more
\* extent.
LEMMA TakenKeepsIInv ==
    ASSUME IInv, NEW n \in Nat \ {0}, NEW bs \in Blocks,
           heap_get_start_block(n, bs),
           NEW e, e = [start |-> bs, len |-> n],
           heap_mark_blocks_taken(e),
           live' = live \cup {e}, asked' \in Nat, granted' \in Nat
    PROVE  IInv'
<1>1. /\ e \in [start : Blocks, len : Nat \ {0}]
      /\ BlocksOf(e) = bs..(bs + n - 1)
      /\ bs \in Nat
  BY HeapAssumption DEF BlocksOf, Blocks
<1>2. \A f \in live : BlocksOf(e) \cap BlocksOf(f) = {}
  BY <1>1, StartBlockIsFree
<1>3. TypeOK'
  <2>1. \A i : TakenEntry(i, e) \subseteq Flags
    BY DEF TakenEntry, Flags
  <2>2. entries' \in [Blocks -> SUBSET Flags]
    BY <2>1 DEF heap_mark_blocks_taken, IInv, TypeOK
  <2>3. clobbered' \subseteq Nat
    <3>1. BlocksOf(e) \subseteq Nat
      BY <1>1
    <3> QED
      BY <3>1 DEF heap_mark_blocks_taken, IInv, TypeOK
  <2> QED
    BY <2>2, <2>3, <1>1 DEF IInv, TypeOK
<1>4. NoOverlap'
  BY <1>2 DEF IInv, NoOverlap, BlocksOf
<1>5. TableIsExact'
  <2> SUFFICES ASSUME NEW i \in Blocks
               PROVE  \/ \E f \in live' : i \in BlocksOf(f) /\ entries'[i] = TakenEntry(i, f)
                      \/ (\A f \in live' : i \notin BlocksOf(f)) /\ entries'[i] = {}
    BY DEF TableIsExact, BlocksOf, TakenEntry
  <2>1. CASE i \in BlocksOf(e)
    BY <2>1 DEF heap_mark_blocks_taken
  <2>2. CASE i \notin BlocksOf(e)
    BY <2>2 DEF heap_mark_blocks_taken, IInv, TableIsExact
  <2> QED
    BY <2>1, <2>2
<1> QED
  BY <1>3, <1>4, <1>5 DEF IInv

\* A request, granted or refused, keeps it.
LEMMA MallocKeepsIInv ==
    ASSUME IInv, NEW size \in Sizes, kmalloc(size)
    PROVE  IInv'
<1> DEFINE n == BlocksFor(size)
<1>1. n \in Nat
  BY BlocksForNat, HeapAssumption
<1>2. PICK bs \in Blocks \cup {ENOMEM} :
         /\ heap_get_start_block(n, bs)
         /\ \/ /\ bs = ENOMEM
               /\ granted' = NULL
               /\ UNCHANGED <<entries, clobbered, live>>
            \/ /\ bs # ENOMEM
               /\ n = 0
               /\ granted' = heap_block_to_address(bs)
               /\ UNCHANGED <<entries, clobbered, live>>
            \/ /\ bs # ENOMEM
               /\ n > 0
               /\ granted' = heap_block_to_address(bs)
               /\ heap_mark_blocks_taken([start |-> bs, len |-> n])
               /\ live' = live \cup {[start |-> bs, len |-> n]}
  BY DEF kmalloc
<1>3. asked' = n
  BY DEF kmalloc
<1>4. granted' \in Nat
  BY <1>2, AddressRoundTrip, HeapAssumption DEF Blocks, NULL
<1>5. CASE UNCHANGED <<entries, clobbered, live>>
  BY <1>1, <1>3, <1>4, <1>5
  DEF IInv, TypeOK, NoOverlap, TableIsExact, BlocksOf, TakenEntry
<1>6. CASE /\ bs # ENOMEM
           /\ n > 0
           /\ heap_mark_blocks_taken([start |-> bs, len |-> n])
           /\ live' = live \cup {[start |-> bs, len |-> n]}
  BY <1>1, <1>2, <1>3, <1>4, <1>6, TakenKeepsIInv
<1> QED
  BY <1>2, <1>5, <1>6

\* A release keeps it.
LEMMA FreeKeepsIInv ==
    ASSUME IInv, NEW e \in live, kfree(e)
    PROVE  IInv'
<1>1. heap_mark_blocks_free(e.start)
  BY AddressRoundTrip, HeapAssumption DEF kfree, IInv, TypeOK, Blocks
<1>2. live' = live \ {e}
  BY DEF kfree
<1>3. TypeOK'
  BY <1>1, <1>2 DEF kfree, heap_mark_blocks_free, IInv, TypeOK
<1>4. NoOverlap'
  BY <1>2 DEF IInv, NoOverlap, BlocksOf
<1>5. TableIsExact'
  <2> SUFFICES ASSUME NEW i \in Blocks
               PROVE  \/ \E f \in live' : i \in BlocksOf(f) /\ entries'[i] = TakenEntry(i, f)
                      \/ (\A f \in live' : i \notin BlocksOf(f)) /\ entries'[i] = {}
    BY DEF TableIsExact, BlocksOf, TakenEntry
  <2>1. entries'[i] = IF i \in BlocksOf(e) THEN {} ELSE entries[i]
    BY <1>1, ChainIsExtent DEF heap_mark_blocks_free
  <2>2. CASE i \in BlocksOf(e)
    BY <2>1, <2>2, <1>2 DEF IInv, NoOverlap
  <2>3. CASE i \notin BlocksOf(e)
    BY <2>1, <2>3, <1>2 DEF IInv, TableIsExact
  <2> QED
    BY <2>2, <2>3
<1> QED
  BY <1>3, <1>4, <1>5 DEF IInv

\* So does every step.
LEMMA StepKeepsIInv == IInv /\ [Next]_vars => IInv'
<1> SUFFICES ASSUME IInv, [Next]_vars
             PROVE  IInv'
  OBVIOUS
<1>1. CASE \E size \in Sizes : kmalloc(size)
  BY <1>1, MallocKeepsIInv
<1>2. CASE \E e \in live : kfree(e)
  BY <1>2, FreeKeepsIInv
<1>3. CASE UNCHANGED vars
  BY <1>3 DEF vars, IInv, TypeOK, NoOverlap, TableIsExact, BlocksOf, TakenEntry
<1> QED
  BY <1>1, <1>2, <1>3 DEF Next

\* In every reachable state the extents are disjoint and the table is exact.
THEOREM HeapInvariant == Spec => []IInv
BY InitIInv, StepKeepsIInv, PTL DEF Spec

\* Every variable of the heap stays in its type.
THEOREM HeapTypeCorrect == Spec => []TypeOK
<1>1. IInv => TypeOK
  BY DEF IInv
<1> QED
  BY <1>1, HeapInvariant, PTL

\* kmalloc never hands out a block that is still held, for every pool.
THEOREM HeapNoOverlap == Spec => []NoOverlap
<1>1. IInv => NoOverlap
  BY DEF IInv
<1> QED
  BY <1>1, HeapInvariant, PTL

\* The table describes the live extents exactly: nothing leaks, no release
\* follows HAS_NEXT into another extent.
THEOREM HeapTableIsExact == Spec => []TableIsExact
<1>1. IInv => TableIsExact
  BY DEF IInv
<1> QED
  BY <1>1, HeapInvariant, PTL

\* At most one extent at a time lies across the end of the pool.
THEOREM HeapLoneOverrun == Spec => []LoneOverrun
<1>1. IInv => LoneOverrun
  <2> SUFFICES ASSUME IInv, NEW e \in live, NEW f \in live,
                      e.start + e.len > TotalBlocks,
                      f.start + f.len > TotalBlocks
               PROVE  e = f
    BY DEF LoneOverrun
  <2>1. /\ e.start \in Blocks /\ e.len \in Nat
        /\ f.start \in Blocks /\ f.len \in Nat
    BY DEF IInv, TypeOK
  <2>2. TotalBlocks - 1 \in BlocksOf(e) /\ TotalBlocks - 1 \in BlocksOf(f)
    BY <2>1, HeapAssumption DEF Blocks, BlocksOf
  <2> QED
    BY <2>2 DEF IInv, NoOverlap
<1> QED
  BY <1>1, HeapInvariant, PTL

-----------------------------------------------------------------------------
(* The heap implements the allocator *)

\* The initial states of the heap are initial states of the allocator.
LEMMA InitImplements == Init => Abstract!Init
BY DEF Init, Abstract!Init

\* A block is free for the callers exactly when its entry is free.
LEMMA FreeMeansUnmarked ==
    ASSUME IInv, NEW i \in Blocks, Abstract!IsFree(i)
    PROVE  "TAKEN" \notin entries[i]
BY DEF Abstract!IsFree, Abstract!BlocksOf, BlocksOf, IInv, TableIsExact

\* Every answer of kmalloc is one the allocator may give.
LEMMA MallocImplements ==
    ASSUME IInv, NEW size \in Sizes, kmalloc(size)
    PROVE  Abstract!Next
<1> DEFINE n == BlocksFor(size)
<1>1. n \in Nat
  BY BlocksForNat, HeapAssumption
<1>2. PICK bs \in Blocks \cup {ENOMEM} :
         /\ heap_get_start_block(n, bs)
         /\ \/ /\ bs = ENOMEM
               /\ granted' = NULL
               /\ UNCHANGED <<entries, clobbered, live>>
            \/ /\ bs # ENOMEM
               /\ n = 0
               /\ granted' = heap_block_to_address(bs)
               /\ UNCHANGED <<entries, clobbered, live>>
            \/ /\ bs # ENOMEM
               /\ n > 0
               /\ granted' = heap_block_to_address(bs)
               /\ heap_mark_blocks_taken([start |-> bs, len |-> n])
               /\ live' = live \cup {[start |-> bs, len |-> n]}
  BY DEF kmalloc
<1>3. asked' = n
  BY DEF kmalloc
<1>4. bs # ENOMEM => /\ bs \in Blocks
                     /\ heap_block_to_address(bs) # NULL
                     /\ heap_address_to_block(heap_block_to_address(bs)) = bs
                     /\ Abstract!IsFree(bs)
                     /\ n > 0 => \A i \in bs..(bs + n - 1) : Abstract!IsFree(i)
  BY <1>1, <1>2, AddressRoundTrip, StartBlockIsFree, HeapAssumption
  DEF Blocks, Abstract!IsFree, Abstract!BlocksOf, BlocksOf
<1>5. CASE bs = ENOMEM
  <2>1. Fits(n) = {} \/ n = 0
    BY <1>1, <1>2, <1>5, HeapAssumption
    DEF heap_get_start_block, Least, Blocks, Fits, ENOMEM
  <2>2. n > 0 => ~ Abstract!HasRoom(n)
    <3> SUFFICES ASSUME n > 0, NEW s \in 0..(TotalBlocks - 1),
                        s + n <= TotalBlocks,
                        \A b \in s..(s + n - 1) : Abstract!IsFree(b)
                 PROVE  FALSE
      BY DEF Abstract!HasRoom
    <3>1. \A b \in s..(s + n - 1) : b \in Blocks
      BY <1>1, HeapAssumption DEF Blocks
    <3>2. \A b \in s..(s + n - 1) : "TAKEN" \notin entries[b]
      BY <3>1, FreeMeansUnmarked
    <3> QED
      BY <2>1, <3>2 DEF Fits, IsFreeRun, Blocks
  <2>3. Abstract!Refuse
    BY <1>1, <1>2, <1>3, <1>5, <2>2 DEF Abstract!Refuse
  <2> QED
    BY <2>3 DEF Abstract!Next
<1>6. CASE bs # ENOMEM /\ n = 0
  BY <1>2, <1>3, <1>4, <1>6 DEF Abstract!Next, Abstract!GrantNothing
<1>7. CASE bs # ENOMEM /\ n > 0
  <2> DEFINE e == [start |-> bs, len |-> n]
  <2>1. Abstract!BlocksOf(e) = bs..(bs + n - 1)
    BY DEF Abstract!BlocksOf
  <2>2. bs \in bs..(bs + n - 1)
    BY <1>1, <1>4, <1>7, HeapAssumption DEF Blocks
  <2>3. e \notin live
    BY <2>1, <2>2, <1>4, <1>7 DEF Abstract!IsFree
  <2>4. \A b \in Abstract!BlocksOf(e) : Abstract!IsFree(b)
    BY <2>1, <1>4, <1>7
  <2>5. live' = live \cup {e} /\ asked' = e.len /\ e.len > 0
    BY <1>1, <1>2, <1>3, <1>7
  <2>6. (IF granted = NULL THEN ENOMEM ELSE heap_address_to_block(granted))' = e.start
    BY <1>2, <1>4, <1>7
  <2>7. Abstract!Grant
    BY <2>3, <2>4, <2>5, <2>6 DEF Abstract!Grant
  <2> QED
    BY <2>7 DEF Abstract!Next
<1> QED
  BY <1>1, <1>5, <1>6, <1>7

\* The heap's steps are the allocator's: for every pool and every mix of
\* requests and releases, kmalloc and kfree keep the allocator's promise.
THEOREM HeapImplementsAllocator == Spec => AbstractSpec
<1>1. IInv /\ [Next]_vars => [Abstract!Next]_Abstract!avars
  <2> SUFFICES ASSUME IInv, [Next]_vars
               PROVE  [Abstract!Next]_Abstract!avars
    OBVIOUS
  <2>1. CASE \E size \in Sizes : kmalloc(size)
    BY <2>1, MallocImplements
  <2>2. CASE \E e \in live : kfree(e)
    BY <2>2 DEF kfree, Abstract!Next, Abstract!Release
  <2>3. CASE UNCHANGED vars
    BY <2>3 DEF vars, Abstract!avars
  <2> QED
    BY <2>1, <2>2, <2>3 DEF Next
<1> QED
  BY <1>1, InitImplements, HeapInvariant, PTL DEF Spec, AbstractSpec, Abstract!Spec

-----------------------------------------------------------------------------
(* The scan *)

\* What the loop has found when it has seen the blocks before k: either the
\* first run of n, or no such run, and the free run that reaches up to k.
Found(n, acc) == n > 0 /\ acc.bc = n /\ Least(acc.bs, Fits(n))

Seen(n, k, acc) ==
    /\ acc.bc \in 0..k
    /\ \A i \in (k - acc.bc)..(k - 1) : "TAKEN" \notin entries[i]
    /\ acc.bc < k => "TAKEN" \in entries[k - acc.bc - 1]
    /\ acc.bs = IF acc.bc = 0 THEN ENOMEM ELSE k - acc.bc
    /\ n > 0 => acc.bc < n /\ \A s \in Fits(n) : s + n > k

\* One turn of the loop.
LEMMA ScanStepSees ==
    ASSUME NEW n \in Nat, NEW k \in Blocks, NEW acc, Found(n, acc) \/ Seen(n, k, acc)
    PROVE  Found(n, ScanStep(acc, k, n)) \/ Seen(n, k + 1, ScanStep(acc, k, n))
<1> DEFINE new == ScanStep(acc, k, n)
<1>0. k \in Nat /\ k < TotalBlocks /\ TotalBlocks \in Nat \ {0}
  BY HeapAssumption DEF Blocks
<1>1. CASE Found(n, acc)
  <2>1. new = acc
    BY <1>1 DEF Found, ScanStep
  <2> QED
    BY <1>1, <2>1
<1>2. CASE Seen(n, k, acc) /\ "TAKEN" \in entries[k]
  <2>1. new = [bc |-> 0, bs |-> ENOMEM]
    BY <1>2 DEF Seen, ScanStep
  <2>2. ASSUME n > 0, NEW s \in Fits(n) PROVE s + n > k + 1
    <3>1. s \in Nat /\ s + n > k /\ \A i \in s..(s + n - 1) : "TAKEN" \notin entries[i]
      BY <1>2, <2>2 DEF Seen, Fits, IsFreeRun, Blocks
    <3>2. ~ k \in s..(s + n - 1)
      BY <1>2, <3>1
    <3> QED
      BY <1>0, <2>2, <3>1, <3>2
  <2>3. Seen(n, k + 1, new)
    BY <1>0, <1>2, <2>1, <2>2 DEF Seen
  <2> QED
    BY <2>3
<1>3. CASE Seen(n, k, acc) /\ "TAKEN" \notin entries[k]
  <2>0. acc.bc \in 0..k /\ (n > 0 => acc.bc < n)
    BY <1>3 DEF Seen
  <2>1. new.bc = acc.bc + 1 /\ new.bs = k - acc.bc
    <3>1. ~ (n > 0 /\ acc.bc = n)
      BY <2>0
    <3>2. new = [bc |-> acc.bc + 1, bs |-> IF acc.bs = ENOMEM THEN k ELSE acc.bs]
      BY <1>3, <3>1 DEF ScanStep
    <3>3. (IF acc.bs = ENOMEM THEN k ELSE acc.bs) = k - acc.bc
      BY <1>0, <1>3 DEF Seen, ENOMEM
    <3> QED
      BY <3>2, <3>3
  <2> HIDE DEF new
  <2>2. \A i \in (k - acc.bc)..k : "TAKEN" \notin entries[i]
    BY <1>0, <1>3, <2>0 DEF Seen
  <2>3. CASE n > 0 /\ acc.bc + 1 = n
    <3>1. k - acc.bc \in Fits(n)
      <4>1. k - acc.bc \in Blocks /\ (k - acc.bc) + n = k + 1
        BY <1>0, <2>0, <2>3 DEF Blocks
      <4> QED
        BY <1>0, <2>2, <4>1 DEF Fits, IsFreeRun
    <3>2. ASSUME NEW s \in Fits(n) PROVE k - acc.bc <= s
      BY <1>0, <1>3, <2>0, <2>3 DEF Seen, Fits, Blocks
    <3> QED
      BY <2>1, <2>3, <3>1, <3>2 DEF Found, Least, new
  <2>4. CASE ~ (n > 0 /\ acc.bc + 1 = n)
    <3>1. ASSUME n > 0, NEW s \in Fits(n) PROVE s + n > k + 1
      <4>1. s \in Nat /\ s + n > k /\ acc.bc + 1 < n
        BY <1>3, <2>0, <2>4, <3>1 DEF Seen, Fits, Blocks
      <4>2. s + n = k + 1 => acc.bc < k /\ k - acc.bc - 1 \in s..(s + n - 1)
        BY <1>0, <2>0, <4>1
      <4>3. \A i \in s..(s + n - 1) : "TAKEN" \notin entries[i]
        BY DEF Fits, IsFreeRun
      <4>4. acc.bc < k => "TAKEN" \in entries[k - acc.bc - 1]
        BY <1>3 DEF Seen
      <4> QED
        BY <1>0, <4>1, <4>2, <4>3, <4>4
    <3>2. (k + 1) - new.bc = k - acc.bc /\ new.bc \in 1..(k + 1)
      BY <1>0, <2>0, <2>1
    <3>3. new.bc < k + 1 => "TAKEN" \in entries[(k + 1) - new.bc - 1]
      BY <1>0, <1>3, <2>0, <2>1 DEF Seen
    <3>4. n > 0 => new.bc < n
      BY <2>0, <2>1, <2>4
    <3>5. (k + 1) - 1 = k
      BY <1>0
    <3>6. \A i \in ((k + 1) - new.bc)..((k + 1) - 1) : "TAKEN" \notin entries[i]
      BY <2>2, <3>2, <3>5
    <3>7. new.bs = IF new.bc = 0 THEN ENOMEM ELSE (k + 1) - new.bc
      <4>1. new.bc # 0
        BY <1>0, <3>2
      <4> QED
        BY <2>1, <3>2, <4>1
    <3>8. new.bc \in 0..(k + 1)
      BY <1>0, <3>2
    <3>9. Seen(n, k + 1, new)
      BY <3>1, <3>3, <3>4, <3>6, <3>7, <3>8 DEF Seen
    <3> QED
      BY <3>9 DEF new
  <2> QED
    BY <2>3, <2>4
<1> QED
  BY <1>1, <1>2, <1>3

\* The answer of the loop, when it ends.
LEMMA ScanAnswers ==
    ASSUME NEW n \in Nat
    PROVE  \E acc : acc.bs = ScanFor(n) /\ (Found(n, acc) \/ Seen(n, TotalBlocks, acc))
<1> DEFINE V == [bc : Nat, bs : Int]
           a == [bc |-> 0, bs |-> ENOMEM]
           F == [i \in 1..TotalBlocks |-> [acc \in V |-> ScanStep(acc, i - 1, n)]]
           Good(f) == f = [i \in 0..TotalBlocks |->
                              IF i = 0 THEN a ELSE ScanStep(f[i - 1], i - 1, n)]
           after == CHOOSE f : Good(f)
<1>0. TotalBlocks \in Nat \ {0} /\ a \in V
  BY HeapAssumption DEF ENOMEM
<1>1. Recursive(0, TotalBlocks, V, a, F)
  <2>1. \A i \in (0 + 1)..TotalBlocks : \A acc \in V : F[i][acc] \in V
    BY <1>0 DEF ScanStep, ENOMEM
  <2> HIDE DEF F, V, a
  <2> QED
    BY <1>0, <2>1 DEF Recursive
<1>2. PICK f \in [0..TotalBlocks -> V] :
         f[0] = a /\ \A i \in (0 + 1)..TotalBlocks : f[i] = F[i][f[i - 1]]
  <2> HIDE DEF F, V, a
  <2> QED
    BY <1>1, Recursion
<1>3. Good(f)
  <2>1. ASSUME NEW i \in 0..TotalBlocks, i # 0
        PROVE  F[i][f[i - 1]] = ScanStep(f[i - 1], i - 1, n) /\ i \in (0 + 1)..TotalBlocks
    <3>1. f[i - 1] \in V /\ i \in 1..TotalBlocks
      BY <1>0, <2>1
    <3> HIDE DEF V
    <3> QED
      BY <3>1
  <2> HIDE DEF F
  <2> QED
    BY <1>2, <2>1
<1>4. Good(after)
  <2> HIDE DEF Good
  <2> QED
    BY <1>3
<1>5. ScanFor(n) = after[TotalBlocks].bs
  BY DEF ScanFor
<1> HIDE DEF after
<1> DEFINE S == {i \in 0..TotalBlocks : Found(n, after[i]) \/ Seen(n, i, after[i])}
<1>6. 0 \in S
  <2>1. after[0] = a
    BY <1>0, <1>4
  <2>2. ASSUME NEW s \in Fits(n), n > 0 PROVE s + n > 0
    BY <2>2 DEF Fits, Blocks
  <2>3. Seen(n, 0, after[0])
    BY <2>1, <2>2 DEF Seen
  <2> QED
    BY <1>0, <2>3
<1>7. ASSUME NEW i \in 0..(TotalBlocks - 1), i \in S PROVE i + 1 \in S
  <2>1. i + 1 \in 0..TotalBlocks /\ i + 1 # 0 /\ (i + 1) - 1 = i /\ i \in Blocks
    BY <1>0 DEF Blocks
  <2>2. after[i + 1] = ScanStep(after[i], i, n)
    BY <1>4, <2>1
  <2>3. Found(n, after[i + 1]) \/ Seen(n, i + 1, after[i + 1])
    BY <1>7, <2>1, <2>2, ScanStepSees
  <2> QED
    BY <2>1, <2>3
<1>8. 0..TotalBlocks \subseteq S
  <2>1. 0 \in Int /\ TotalBlocks \in Int
    BY <1>0
  <2> HIDE DEF S
  <2> QED
    BY <1>6, <1>7, <2>1, AllAlong
<1> QED
  BY <1>0, <1>5, <1>8

\* The loop stops at the first run that is long enough, or else ends with the
\* start of the free run at the end of the table.
LEMMA ScanAgrees ==
    ASSUME NEW n \in Nat, NEW bs \in Blocks \cup {ENOMEM}
    PROVE  heap_get_start_block(n, bs) <=> bs = ScanFor(n)
<1>0. TotalBlocks \in Nat \ {0} /\ \A b \in Blocks : b \in Nat /\ b # ENOMEM
  BY HeapAssumption DEF Blocks, ENOMEM
<1>1. PICK acc : acc.bs = ScanFor(n) /\ (Found(n, acc) \/ Seen(n, TotalBlocks, acc))
  BY ScanAnswers
<1>2. ASSUME NEW S \in SUBSET Blocks, NEW s, Least(s, S) PROVE Least(bs, S) <=> bs = s
  BY <1>0, <1>2 DEF Least
<1>3. Fits(n) \in SUBSET Blocks /\ LastRun \in SUBSET Blocks
  BY DEF Fits, LastRun
<1>4. CASE Found(n, acc)
  <2>1. n > 0 /\ Least(acc.bs, Fits(n)) /\ Fits(n) # {}
    BY <1>4 DEF Found, Least
  <2>2. Least(bs, Fits(n)) <=> bs = acc.bs
    BY <1>2, <1>3, <2>1
  <2> QED
    BY <1>1, <2>1, <2>2 DEF heap_get_start_block
<1>5. CASE Seen(n, TotalBlocks, acc)
  <2>1. ~ (n > 0 /\ Fits(n) # {})
    <3> SUFFICES ASSUME n > 0, NEW s \in Fits(n) PROVE FALSE
      OBVIOUS
    <3>1. s + n <= TotalBlocks /\ s \in Nat
      BY <1>0 DEF Fits
    <3>2. s + n > TotalBlocks
      BY <1>5 DEF Seen
    <3> QED
      BY <1>0, <3>1, <3>2
  <2>2. CASE acc.bc = 0
    <3>1. "TAKEN" \in entries[TotalBlocks - 1] /\ acc.bs = ENOMEM
      <4>1. acc.bc < TotalBlocks => "TAKEN" \in entries[TotalBlocks - acc.bc - 1]
        BY <1>5 DEF Seen
      <4> QED
        BY <1>0, <1>5, <2>2, <4>1 DEF Seen
    <3>2. LastRun = {}
      <4> SUFFICES ASSUME NEW s \in LastRun PROVE FALSE
        OBVIOUS
      <4>1. TotalBlocks - 1 \in s..(TotalBlocks - 1)
        BY <1>0 DEF LastRun, Blocks
      <4> QED
        BY <3>1, <4>1 DEF LastRun, IsFreeRun
    <3> QED
      BY <1>1, <2>1, <3>1, <3>2 DEF heap_get_start_block
  <2>3. CASE acc.bc # 0
    <3>1. acc.bc \in 1..TotalBlocks /\ acc.bs = TotalBlocks - acc.bc
      BY <1>5, <2>3 DEF Seen
    <3>2. acc.bs \in LastRun
      <4>1. acc.bs \in Blocks
        BY <1>0, <3>1 DEF Blocks
      <4> QED
        BY <1>5, <3>1, <4>1 DEF Seen, LastRun, IsFreeRun
    <3>3. ASSUME NEW s \in LastRun PROVE acc.bs <= s
      <4>1. s \in Nat /\ \A i \in s..(TotalBlocks - 1) : "TAKEN" \notin entries[i]
        BY <1>0 DEF LastRun, IsFreeRun
      <4>2. acc.bc < TotalBlocks => "TAKEN" \in entries[TotalBlocks - acc.bc - 1]
        BY <1>5 DEF Seen
      <4>3. s < acc.bs => acc.bc < TotalBlocks /\ TotalBlocks - acc.bc - 1 \in s..(TotalBlocks - 1)
        BY <1>0, <3>1, <4>1
      <4> QED
        BY <1>0, <3>1, <4>1, <4>2, <4>3
    <3>4. Least(bs, LastRun) <=> bs = acc.bs
      BY <1>2, <1>3, <3>2, <3>3 DEF Least
    <3> QED
      BY <1>1, <2>1, <3>2, <3>4 DEF heap_get_start_block
  <2> QED
    BY <2>2, <2>3
<1> QED
  BY <1>1, <1>4, <1>5

\* For every table and every length the answer kmalloc works with is the one
\* of the C loop: first fit, or the last free run when nothing is long enough.
THEOREM HeapScanIsFirstFit == Spec => []ScanIsFirstFit
<1>1. ScanIsFirstFit
  BY HeapAssumption, ScanAgrees DEF ScanIsFirstFit
<1> QED
  BY <1>1, PTL

-----------------------------------------------------------------------------
(* Requests for one block *)

\* The blocks nobody holds.
FreeBlocks == {b \in Blocks : \A e \in live : b \notin BlocksOf(e)}

\* Those are the blocks without the TAKEN flag, where a run of one block fits.
LEMMA FreeBlocksFit == ASSUME IInv PROVE Fits(1) = FreeBlocks /\ LastRun \subseteq FreeBlocks
<1>1. ASSUME NEW b \in Blocks PROVE "TAKEN" \notin entries[b] <=> b \in FreeBlocks
  <2>1. "TAKEN" \notin entries[b] => b \in FreeBlocks
    BY NotTakenIsFree DEF FreeBlocks
  <2>2. b \in FreeBlocks => entries[b] = {}
    BY DEF FreeBlocks, IInv, TableIsExact
  <2> QED
    BY <2>1, <2>2
<1>2. ASSUME NEW b \in Blocks
      PROVE  /\ b + 1 <= TotalBlocks /\ b..(b + 1 - 1) = {b}
             /\ b \in b..(TotalBlocks - 1)
  BY HeapAssumption DEF Blocks
<1>3. ASSUME NEW b \in Blocks PROVE b \in Fits(1) <=> b \in FreeBlocks
  BY <1>1, <1>2 DEF Fits, IsFreeRun
<1>4. ASSUME NEW b \in LastRun PROVE b \in FreeBlocks
  BY <1>1, <1>2 DEF LastRun, IsFreeRun
<1> QED
  BY <1>3, <1>4 DEF Fits, FreeBlocks

\* A request for one block gets the first block that nobody holds.
LEMMA OneBlockIsFirstFree ==
    ASSUME IInv, NEW size, BlocksFor(size) = 1, kmalloc(size)
    PROVE  \/ FreeBlocks = {} /\ granted' = NULL /\ FreeBlocks' = FreeBlocks
           \/ \E b \in Blocks : /\ Least(b, FreeBlocks)
                                /\ granted' = heap_block_to_address(b)
                                /\ FreeBlocks' = FreeBlocks \ {b}
<1>1. PICK bs \in Blocks \cup {ENOMEM} :
         /\ heap_get_start_block(1, bs)
         /\ \/ bs = ENOMEM /\ granted' = NULL /\ live' = live
            \/ /\ bs # ENOMEM
               /\ granted' = heap_block_to_address(bs)
               /\ live' = live \cup {[start |-> bs, len |-> 1]}
  BY DEF kmalloc
<1>2. \/ FreeBlocks = {} /\ bs = ENOMEM
      \/ FreeBlocks # {} /\ Least(bs, FreeBlocks) /\ bs \in Blocks /\ bs # ENOMEM
  <2>1. Fits(1) = FreeBlocks /\ (FreeBlocks = {} => LastRun = {})
    BY FreeBlocksFit
  <2>2. ENOMEM \notin Blocks
    BY HeapAssumption DEF ENOMEM, Blocks
  <2> QED
    BY <1>1, <2>1, <2>2 DEF heap_get_start_block, Least, FreeBlocks
<1>3. CASE bs = ENOMEM
  BY <1>1, <1>2, <1>3 DEF FreeBlocks
<1>4. CASE bs # ENOMEM
  <2>1. BlocksOf([start |-> bs, len |-> 1]) = {bs}
    BY <1>2, <1>4, HeapAssumption DEF BlocksOf, Blocks
  <2>2. FreeBlocks' = FreeBlocks \ {bs}
    BY <1>1, <1>4, <2>1 DEF FreeBlocks
  <2> QED
    BY <1>1, <1>2, <1>4, <2>2
<1> QED
  BY <1>3, <1>4

\* What was held by itself alone is free again, and nothing else.
LEMMA OneBlockIsGivenBack ==
    ASSUME IInv, NEW e \in live, e.len = 1, kfree(e)
    PROVE  FreeBlocks' = FreeBlocks \cup {e.start}
<1>1. e.start \in Blocks /\ BlocksOf(e) = {e.start}
  <2>1. e.start \in Blocks
    BY DEF IInv, TypeOK
  <2> QED
    BY <2>1, HeapAssumption DEF BlocksOf, Blocks
<1>2. live' = live \ {e}
  BY DEF kfree
<1>3. \A f \in live : f # e => e.start \notin BlocksOf(f)
  BY <1>1 DEF IInv, NoOverlap
<1> QED
  BY <1>1, <1>2, <1>3 DEF FreeBlocks

\* To who asks for single blocks, as paging does, the heap is its set of free
\* blocks: kmalloc takes the first of them, kfree puts the block back, and NULL
\* means that there is none, whatever else is held.
THEOREM HeapServesPages ==
    Spec => [][/\ \A size \in Sizes : BlocksFor(size) = 1 /\ kmalloc(size) =>
                     \/ FreeBlocks = {} /\ granted' = NULL /\ FreeBlocks' = FreeBlocks
                     \/ \E b \in Blocks : /\ Least(b, FreeBlocks)
                                          /\ granted' = heap_block_to_address(b)
                                          /\ FreeBlocks' = FreeBlocks \ {b}
               /\ \A e \in live : e.len = 1 /\ kfree(e) =>
                     FreeBlocks' = FreeBlocks \cup {e.start}]_vars
<1>1. IInv => /\ \A size \in Sizes : BlocksFor(size) = 1 /\ kmalloc(size) =>
                     \/ FreeBlocks = {} /\ granted' = NULL /\ FreeBlocks' = FreeBlocks
                     \/ \E b \in Blocks : /\ Least(b, FreeBlocks)
                                          /\ granted' = heap_block_to_address(b)
                                          /\ FreeBlocks' = FreeBlocks \ {b}
              /\ \A e \in live : e.len = 1 /\ kfree(e) =>
                     FreeBlocks' = FreeBlocks \cup {e.start}
  BY OneBlockIsFirstFree, OneBlockIsGivenBack
<1> QED
  BY <1>1, HeapInvariant, PTL

===============================================================================
