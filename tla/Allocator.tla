------------------------------ MODULE Allocator ------------------------------
(***************************************************************************)
(* What the rest of the kernel expects of kmalloc and kfree: memory is     *)
(* granted in extents of whole blocks, no block is in two extents at once, *)
(* and a request is refused only when no free run of the pool can hold it. *)
(* Where an extent lies, and how free blocks are remembered, is left open. *)
(***************************************************************************)
EXTENDS Integers

CONSTANTS PoolBlocks,   \* the number of blocks of the pool, at least one
          Refused       \* the outcome of a request that got no memory, no block

VARIABLES live,         \* the extents handed out and not yet released
          asked,        \* the number of blocks of the last request
          granted       \* its outcome: the first block, or Refused

avars == <<live, asked, granted>>

\* The blocks of an extent.
BlocksOf(e) == e.start .. (e.start + e.len - 1)

\* A block that no extent holds.
IsFree(b) == \A e \in live : b \notin BlocksOf(e)

\* Some run of n free blocks lies inside the pool.
HasRoom(n) == \E s \in 0..(PoolBlocks - 1) :
                 /\ s + n <= PoolBlocks
                 /\ \A b \in s..(s + n - 1) : IsFree(b)

-----------------------------------------------------------------------------

Init == /\ live = {}
        /\ asked = 0
        /\ granted = Refused

\* An extent of free blocks, as long as was asked, joins the live ones.
Grant == \E e \in live' :
            /\ e \notin live
            /\ e.len > 0
            /\ \A b \in BlocksOf(e) : IsFree(b)
            /\ live' = live \cup {e}
            /\ asked' = e.len
            /\ granted' = e.start

\* A request for no block is answered with a free block, and holds nothing.
GrantNothing == /\ asked' = 0
                /\ IsFree(granted')
                /\ UNCHANGED live

\* A request is refused: the pool has no room for it.
Refuse == /\ asked' > 0 => ~ HasRoom(asked')
          /\ granted' = Refused
          /\ UNCHANGED live

Release == /\ \E e \in live : live' = live \ {e}
           /\ UNCHANGED <<asked, granted>>

Next == Grant \/ GrantNothing \/ Refuse \/ Release

Spec == Init /\ [][Next]_avars
=============================================================================
