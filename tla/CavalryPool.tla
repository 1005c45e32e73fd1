---------------------------- MODULE CavalryPool ----------------------------
(***************************************************************************)
(* The Cavalry buffer pool in contiguous mode, the pool of hwvdecv2 and of *)
(* ambacompositor (src/src/mm/gst_amba_cavalry_bufferpool.c).  start()     *)
(* allocates one slab and an array of blocks; alloc_buffer() wraps the     *)
(* first free block in a memory and notes the pair in a hash table keyed   *)
(* by the address of the memory; free_buffer() looks the block up again.   *)
(* GstBufferPool, the parent class, is external: it queues the buffers     *)
(* that come back, counts those that are out, and calls stop() when the    *)
(* last of them has come back to a pool that was deactivated.              *)
(*                                                                         *)
(* A buffer of the pool has one memory, so it is named by the address of   *)
(* that memory; an address is used again once its memory is gone.          *)
(***************************************************************************)
EXTENDS Integers, FiniteSets

CONSTANTS
  Mems,        \* the addresses a wrapped GstMemory can have
  Configs,     \* the <<min, max>> pairs an element may ask for
  DefaultMax,  \* 8 in the code: max_buffers when the element asks for none
  MaxBlocks,   \* bounds max_buffers
  MaxStarts,   \* bounds the number of slabs ever allocated
  None

ASSUME PoolAssumption ==
  /\ IsFiniteSet(Mems)
  /\ Configs \subseteq Nat \X Nat
  /\ DefaultMax \in Nat /\ DefaultMax >= 2
  /\ MaxBlocks \in Nat /\ DefaultMax <= MaxBlocks
  /\ \A c \in Configs : c[2] <= MaxBlocks
  /\ MaxStarts \in Nat
  /\ None \notin (1 .. MaxStarts) \X Nat

Slabs  == 1 .. MaxStarts
Idx    == 0 .. MaxBlocks - 1
Blocks == Slabs \X Idx

VARIABLES
  min, max,    \* what the parent class keeps of the configuration
  max_buffers, \* the pool's own copy; 0 before set_config()
  active,      \* GstBufferPool: accepts acquire
  cur_buffers, \* GstBufferPool: the buffers it counts
  started,     \* GstBufferPool: start() succeeded, stop() not yet called
  slab,        \* contiguous_mem and blocks; 0 is NULL
  starts,      \* number of slabs allocated so far
  freed,       \* slabs whose memory and block array were freed
  in_use,      \* the blocks whose in_use is TRUE
  map,         \* memory_to_block_map
  block,       \* the block a memory wraps
  st,          \* where the buffer of a memory is
  shared       \* memories somebody else holds a reference to

cfgVars  == <<min, max, max_buffers>>
slabVars == <<slab, starts, freed>>
bufVars  == <<in_use, map, block, st, shared>>
vars == <<cfgVars, active, started, cur_buffers, slabVars, bufVars>>

(* "gone": the address is free.  "queued": in the parent's queue.  "out":  *)
(* with an element.  "freeing": do_free_buffer() has begun.  "cleaned":    *)
(* its block is free again, its entry in the table not yet removed.        *)
(* "kept": the buffer is gone, its memory is still referenced.             *)
States == {"gone", "queued", "out", "freeing", "cleaned", "kept"}

(* Types; the pool has no more blocks than the largest configuration asks. *)
TypeOK ==
  /\ min \in Nat /\ max \in Nat /\ max_buffers \in 0 .. MaxBlocks
  /\ active \in BOOLEAN /\ started \in BOOLEAN /\ cur_buffers \in Int
  /\ slab \in 0 .. starts /\ starts \in 0 .. MaxStarts /\ freed \subseteq Slabs
  /\ in_use \subseteq Blocks
  /\ map \in [Mems -> Blocks \cup {None}]
  /\ block \in [Mems -> Blocks \cup {None}]
  /\ st \in [Mems -> States] /\ shared \subseteq Mems

Init ==
  /\ min = 0 /\ max = 0 /\ max_buffers = 0 /\ active = FALSE /\ started = FALSE
  /\ cur_buffers = 0
  /\ slab = 0 /\ starts = 0 /\ freed = {} /\ in_use = {} /\ shared = {}
  /\ map = [m \in Mems |-> None] /\ block = [m \in Mems |-> None]
  /\ st = [m \in Mems |-> "gone"]

In(S)       == {m \in Mems : st[m] \in S}
Outstanding == In({"out", "freeing", "cleaned"})
----------------------------------------------------------------------------
(* set_config(): a pool without a limit gets DefaultMax blocks, one with a *)
(* limit at least 2.  The corrected numbers reach the parent class only    *)
(* when min does not exceed max: gst_buffer_pool_config_set_params()       *)
(* refuses the others.  It sets cur_buffers to 0 also when a start that    *)
(* failed left buffers in the queue; the count is below 0 when they go.    *)
Blocked(c)    == IF c[2] = 0 THEN DefaultMax ELSE IF c[2] < 2 THEN 2 ELSE c[2]
AtLeastOne(c) == IF c[1] = 0 THEN 1 ELSE c[1]

SetConfig(c) ==
  /\ ~active /\ ~started /\ Outstanding = {}
  /\ max_buffers' = Blocked(c)
  /\ IF AtLeastOne(c) <= Blocked(c)
     THEN min' = AtLeastOne(c) /\ max' = Blocked(c)
     ELSE min' = c[1] /\ max' = c[2]
  /\ cur_buffers' = 0
  /\ UNCHANGED <<active, started, slabVars, bufVars>>

(* A mutant: the table keeps the entry an address already has.             *)
BugWrapped(new) ==
  /\ in_use' = in_use \cup {new[m] : m \in DOMAIN new}
  /\ block'  = [m \in Mems |-> IF m \in DOMAIN new THEN new[m] ELSE block[m]]
  /\ map'    = [m \in Mems |-> IF m \in DOMAIN new /\ map[m] = None
                               THEN new[m] ELSE map[m]]

(* alloc_contiguous_memory(): each address in the domain of new becomes a  *)
(* memory that wraps a block, marked in use and entered in the table.      *)
Wrapped(new) ==
  /\ in_use' = in_use \cup {new[m] : m \in DOMAIN new}
  /\ block'  = [m \in Mems |-> IF m \in DOMAIN new THEN new[m] ELSE block[m]]
  /\ map'    = [m \in Mems |-> IF m \in DOMAIN new THEN new[m] ELSE map[m]]

FirstFree(i) ==
  /\ i < max_buffers /\ <<slab, i>> \notin in_use
  /\ \A j \in Idx : j < i => <<slab, j>> \in in_use

(* start() and the parent's start(), which fills the queue with min        *)
(* buffers under the lock of the pool: blocks 0, 1, ... of a new slab.     *)
(* When it runs out of blocks or reaches max, start fails and the slab and *)
(* the buffers made so far stay; the next start allocates another slab.    *)
Room == IF max = 0 \/ max_buffers <= max - cur_buffers
        THEN max_buffers ELSE max - cur_buffers

Start ==
  LET s  == starts + 1
      n  == IF min <= Room THEN min ELSE Room
      Is == 0 .. n - 1
  IN /\ max_buffers > 0 /\ ~active /\ ~started /\ starts < MaxStarts
     /\ slab' = s /\ starts' = s /\ cur_buffers' = cur_buffers + Cardinality(Is)
     /\ \E made \in SUBSET In({"gone"}) : \E new \in [made -> {s} \X Is] :
          /\ \A x, y \in made : new[x] = new[y] => x = y
          /\ \A i \in Is : \E m \in made : new[m] = <<s, i>>
          /\ Wrapped(new)
          /\ st' = [m \in Mems |-> IF m \in made THEN "queued" ELSE st[m]]
     /\ active' = (n = min) /\ started' = (n = min)
     /\ UNCHANGED <<cfgVars, freed, shared>>

(* set_active(TRUE) on a pool that waits for its last buffers to stop.     *)
Reactivate ==
  /\ ~active /\ started /\ active' = TRUE
  /\ UNCHANGED <<cfgVars, started, cur_buffers, slabVars, bufVars>>

(* alloc_buffer() for an acquire that finds the queue empty.  An acquire   *)
(* with no free block fails and changes nothing; at max it waits.          *)
AllocBuffer(m, i) ==
  /\ active /\ In({"queued"}) = {} /\ st[m] = "gone"
  /\ max = 0 \/ cur_buffers < max
  /\ cur_buffers' = cur_buffers + 1
  /\ FirstFree(i)
  /\ Wrapped([x \in {m} |-> <<slab, i>>])
  /\ st' = [st EXCEPT ![m] = "out"]
  /\ UNCHANGED <<cfgVars, active, started, slabVars, shared>>

AcquireQueued(m) ==
  /\ active /\ st[m] = "queued"
  /\ st' = [st EXCEPT ![m] = "out"]
  /\ UNCHANGED <<cfgVars, active, started, cur_buffers, slabVars, in_use, map, block, shared>>
----------------------------------------------------------------------------
(* Every buffer to its place; a memory that is gone wraps nothing.         *)
Place(to) ==
  /\ st' = to
  /\ block' = [m \in Mems |-> IF to[m] = "gone" THEN None ELSE block[m]]

(* stop(): the slab and the blocks are freed first, then the parent frees  *)
(* its queue; free_buffer() finds contiguous_mem NULL and leaves the map   *)
(* as it is.                                                               *)
Stop(rest) ==
  /\ started' = FALSE /\ slab' = 0
  /\ cur_buffers' = cur_buffers - Cardinality({m \in Mems : rest[m] = "queued"})
  /\ freed' = freed \cup {slab}
  /\ in_use' = in_use \ ({slab} \X Idx)
  /\ Place([m \in Mems |-> IF rest[m] = "queued" THEN "gone" ELSE rest[m]])

Stay(rest) == Place(rest) /\ UNCHANGED <<started, cur_buffers, slab, freed, in_use>>

(* The end of gst_buffer_pool_release_buffer(): the last buffer to come    *)
(* back to an inactive pool stops it.                                      *)
CameBack(m, to) ==
  LET rest == [st EXCEPT ![m] = to]
  IN IF ~active /\ started /\ Outstanding = {m} THEN Stop(rest) ELSE Stay(rest)

Deactivate ==
  /\ active /\ active' = FALSE
  /\ IF Outstanding = {} THEN Stop(st) ELSE Stay(st)
  /\ UNCHANGED <<cfgVars, starts, map, shared>>

(* A buffer that is the only owner of its memory goes back to the queue.   *)
Release(m) ==
  /\ st[m] = "out" /\ m \notin shared
  /\ CameBack(m, "queued")
  /\ UNCHANGED <<cfgVars, active, starts, map, shared>>

(* The others are freed, first of all leaving the count of buffers.        *)
Discard(m) ==
  /\ st[m] = "out" /\ m \in shared
  /\ st' = [st EXCEPT ![m] = "freeing"] /\ cur_buffers' = cur_buffers - 1
  /\ UNCHANGED <<cfgVars, active, started, slabVars, in_use, map, block, shared>>

(* A mutant: the block is looked up after the entry was removed.           *)
BugCleanBlock(m) ==
  /\ st[m] = "freeing"
  /\ st' = [st EXCEPT ![m] = "cleaned"] /\ map' = [map EXCEPT ![m] = None]
  /\ in_use' = in_use \ {map'[m]}
  /\ UNCHANGED <<cfgVars, active, started, cur_buffers, slabVars, block, shared>>

(* handle_contiguous_memory_cleanup() up to the unlock of blocks_lock.     *)
CleanBlock(m) ==
  /\ st[m] = "freeing"
  /\ in_use' = IF slab = 0 THEN in_use ELSE in_use \ {map[m]}
  /\ st' = [st EXCEPT ![m] = "cleaned"]
  /\ UNCHANGED <<cfgVars, active, started, cur_buffers, slabVars, map, block, shared>>

(* Its entry is removed and the buffer freed, its memory with it unless    *)
(* somebody shares it.                                                     *)
FreeBuffer(m) ==
  /\ st[m] = "cleaned"
  /\ map' = [map EXCEPT ![m] = None]
  /\ CameBack(m, IF m \in shared THEN "kept" ELSE "gone")
  /\ UNCHANGED <<cfgVars, active, starts, shared>>

(* A downstream element takes, or gives up, a reference to the memory.     *)
Share(m) ==
  /\ st[m] = "out" /\ m \notin shared /\ shared' = shared \cup {m}
  /\ UNCHANGED <<cfgVars, active, started, cur_buffers, slabVars, in_use, map, block, st>>

Unshare(m) ==
  /\ m \in shared /\ shared' = shared \ {m}
  /\ Place([st EXCEPT ![m] = IF @ = "kept" THEN "gone" ELSE @])
  /\ UNCHANGED <<cfgVars, active, started, cur_buffers, slabVars, in_use, map>>

Next ==
  \/ \E c \in Configs : SetConfig(c)
  \/ Start \/ Reactivate \/ Deactivate
  \/ \E m \in Mems :
       \/ \E i \in Idx : AllocBuffer(m, i)
       \/ AcquireQueued(m) \/ Release(m) \/ Discard(m) \/ CleanBlock(m)
       \/ FreeBuffer(m) \/ Share(m) \/ Unshare(m)

Spec == Init /\ [][Next]_vars
----------------------------------------------------------------------------
Owners == In({"queued", "out", "freeing"})

(* The ledger of the blocks: a block of the slab is marked in use exactly  *)
(* when one buffer that has not been cleaned up wraps it, and no two       *)
(* buffers wrap the same block.  A block marked twice tears frames; one    *)
(* that stays marked is lost until the next start                          *)
(* (alloc_contiguous_memory, handle_contiguous_memory_cleanup).            *)
BlockLedger ==
  /\ slab # 0 => \A i \in Idx :
       <<slab, i>> \in in_use <=> \E m \in Owners : block[m] = <<slab, i>>
  /\ \A m, n \in Owners : block[m] = block[n] => m = n

(* The table keyed by address is right for every buffer of the pool,       *)
(* although stop() leaves entries of dead memories in it and addresses are *)
(* used again: cleanup marks the buffer's own block, in an array that was  *)
(* not freed, and the slab is there as long as a buffer is out.            *)
LookupSound ==
  \A m \in Owners :
    /\ map[m] = block[m] /\ block[m] # None
    /\ block[m][1] \notin freed
    /\ st[m] # "queued" => slab # 0
============================================================================
