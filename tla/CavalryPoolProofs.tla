------------------------- MODULE CavalryPoolProofs -------------------------
(***************************************************************************)
(* Type correctness, the ledger of the blocks and the soundness of the     *)
(* address table of CavalryPool, for every set of addresses, every         *)
(* configuration and any number of starts.                                 *)
(***************************************************************************)
EXTENDS CavalryPool, FiniteSetTheorems, TLAPS

(* The slab in use was not freed, and buffers are out only while the pool  *)
(* is started: stop() waits for the last one.                              *)
SlabInv ==
  /\ slab \notin freed
  /\ freed \subseteq 1 .. starts
  /\ started => slab # 0
  /\ active => started
  /\ Outstanding # {} => started

(* Every buffer that was not cleaned up has its block, marked and mapped.  *)
OwnerInv ==
  \A m \in Owners :
    /\ block[m] \in in_use /\ map[m] = block[m]
    /\ block[m][1] \notin freed

(* No two of them share it.                                                *)
DistinctInv == \A m, n \in Owners : block[m] = block[n] => m = n

(* A marked block is one of a slab allocated so far, and in the slab in    *)
(* use a buffer wraps it.                                                  *)
MarkedInv ==
  \A b \in in_use :
    /\ b[1] <= starts
    /\ b[1] = slab => \E m \in Owners : block[m] = b

Inv == TypeOK /\ SlabInv /\ OwnerInv /\ DistinctInv /\ MarkedInv

\* The pool that was never started meets every part of the invariant.
THEOREM InvInit == Init => Inv
<1> SUFFICES ASSUME Init PROVE Inv OBVIOUS
<1>1. Owners = {} /\ Outstanding = {}
  <2>1. \A m \in Mems : st[m] = "gone" BY DEF Init
  <2>2. \A m : m \notin Owners /\ m \notin Outstanding
    BY <2>1 DEF Owners, Outstanding, In
  <2>3. QED BY <2>2
<1>2. TypeOK
  <2>1. /\ map \in [Mems -> Blocks \cup {None}] /\ block \in [Mems -> Blocks \cup {None}]
        /\ st \in [Mems -> States]
    BY DEF Init, States
  <2>2. /\ slab \in 0 .. starts /\ starts \in 0 .. MaxStarts
        /\ max_buffers \in 0 .. MaxBlocks /\ min \in Nat /\ max \in Nat
        /\ cur_buffers \in Int
    BY PoolAssumption DEF Init
  <2>3. QED BY <2>1, <2>2 DEF Init, TypeOK
<1>3. SlabInv BY <1>1 DEF Init, SlabInv
<1>4. OwnerInv /\ DistinctInv /\ MarkedInv
  BY <1>1 DEF Init, OwnerInv, DistinctInv, MarkedInv
<1>5. QED BY <1>2, <1>3, <1>4 DEF Inv

\* start() never asks for more blocks than the slab has.
LEMMA RoomBound == ASSUME TypeOK PROVE Room \in Int /\ Room <= max_buffers
<1>1. max \in Nat /\ max_buffers \in Nat /\ cur_buffers \in Int
  BY PoolAssumption DEF TypeOK
<1>2. QED BY <1>1 DEF Room

\* A buffer that changes hands among the places of an owner, or was never
\* one, leaves the ledger alone.
LEMMA SameOwners ==
  ASSUME Inv, Owners' = Owners, TypeOK', SlabInv',
         UNCHANGED <<slab, starts, freed, in_use, map>>,
         \A m \in Owners : block'[m] = block[m]
  PROVE  Inv'
<1>1. OwnerInv' BY DEF Inv, OwnerInv
<1>2. DistinctInv' BY DEF Inv, DistinctInv
<1>3. MarkedInv' BY DEF Inv, MarkedInv
<1>4. QED BY <1>1, <1>2, <1>3 DEF Inv

\* stop() and what is left when the last buffer has come back.
LEMMA StopStep ==
  ASSUME Inv, NEW rest \in [Mems -> States], started, active' = FALSE,
         Stop(rest), UNCHANGED <<cfgVars, starts>>,
         shared' \in SUBSET Mems, map' \in [Mems -> Blocks \cup {None}],
         \A m \in Mems : rest[m] \in {"gone", "queued", "kept"}
  PROVE  Inv'
<1>1. st' \in [Mems -> {"gone", "kept"}] BY DEF Stop, Place, States
<1>2. Owners' = {} /\ Outstanding' = {}
  <2>1. \A m \in Mems : st'[m] \notin {"queued", "out", "freeing", "cleaned"} BY <1>1
  <2>2. \A m : m \notin Owners' /\ m \notin Outstanding'
    BY <2>1 DEF Owners, Outstanding, In
  <2>3. QED BY <2>2
<1>3. slab \in Slabs /\ slab <= starts BY PoolAssumption DEF Inv, SlabInv, TypeOK, Slabs
<1>4. TypeOK'
  <2>1. st' \in [Mems -> States] BY <1>1 DEF States
  <2>2. block' \in [Mems -> Blocks \cup {None}]
    <3>1. \A m \in Mems : block[m] \in Blocks \cup {None} BY DEF Inv, TypeOK
    <3>2. QED BY <3>1 DEF Stop, Place
  <2>3. /\ in_use' \subseteq Blocks /\ freed' \subseteq Slabs
        /\ slab' \in 0 .. starts' /\ starts' \in 0 .. MaxStarts
    BY <1>3, PoolAssumption DEF Inv, TypeOK, Stop
  <2>4. min' \in Nat /\ max' \in Nat /\ max_buffers' \in 0 .. MaxBlocks
    BY DEF Inv, TypeOK, cfgVars
  <2>5. started' \in BOOLEAN BY DEF Stop
  <2>6. cur_buffers' \in Int
    <3> DEFINE queued == {m \in Mems : rest[m] = "queued"}
    <3>1. IsFiniteSet(Mems) /\ queued \subseteq Mems BY PoolAssumption
    <3>2. IsFiniteSet(queued) BY ONLY <3>1, FS_Subset, Zenon
    <3>3. Cardinality(queued) \in Nat BY ONLY <3>2, FS_CardinalityType, Zenon
    <3>4. cur_buffers' = cur_buffers - Cardinality(queued) BY DEF Stop
    <3> HIDE DEF queued
    <3>5. QED BY <3>3, <3>4 DEF Inv, TypeOK
  <2>7. QED BY <2>1, <2>2, <2>3, <2>4, <2>5, <2>6 DEF TypeOK
<1>5. SlabInv'
  BY <1>2, <1>3, PoolAssumption DEF Inv, SlabInv, Stop, TypeOK, Slabs
<1>6. OwnerInv' /\ DistinctInv' BY <1>2 DEF OwnerInv, DistinctInv
<1>7. MarkedInv'
  BY <1>3 DEF Inv, MarkedInv, Stop, TypeOK, Blocks, Slabs
<1>8. QED BY <1>4, <1>5, <1>6, <1>7 DEF Inv

\* A buffer that comes back, to the queue or to be freed.
LEMMA CameBackStep ==
  ASSUME Inv, NEW m \in Mems, NEW to \in {"queued", "gone", "kept"},
         CameBack(m, to), UNCHANGED <<cfgVars, active, starts, shared>>,
         \/ st[m] = "out" /\ to = "queued" /\ map' = map
         \/ st[m] = "cleaned" /\ to # "queued" /\ map' = [map EXCEPT ![m] = None]
  PROVE  Inv'
<1> DEFINE rest == [st EXCEPT ![m] = to]
<1>0. /\ rest \in [Mems -> States] /\ shared' \in SUBSET Mems
      /\ map' \in [Mems -> Blocks \cup {None}]
  BY DEF Inv, TypeOK, States
<1>1. CASE ~active /\ started /\ Outstanding = {m}
  <2>1. Stop(rest) BY <1>1 DEF CameBack
  <2>2. \A x \in Mems : rest[x] \in {"gone", "queued", "kept"}
    <3> SUFFICES ASSUME NEW x \in Mems, x # m PROVE st[x] \in {"gone", "queued", "kept"}
      BY DEF Inv, TypeOK
    <3> QED BY <1>1 DEF Outstanding, In, Inv, TypeOK, States
  <2>3. active' = FALSE BY <1>1 DEF Inv, TypeOK
  <2>4. QED BY <1>0, <1>1, <2>1, <2>2, <2>3, StopStep
<1>2. CASE ~(~active /\ started /\ Outstanding = {m})
  <2>1. Stay(rest) BY <1>2 DEF CameBack
  <2>2. Owners' = Owners BY <2>1, <1>0 DEF Stay, Place, Owners, In, Inv, TypeOK
  <2>3. TypeOK' BY <1>0, <2>1 DEF Inv, TypeOK, Stay, Place, cfgVars
  <2>4. SlabInv'
    <3>1. Outstanding' \subseteq Outstanding
      BY <2>1, <1>0 DEF Stay, Place, Outstanding, In, Inv, TypeOK
    <3>2. QED BY <2>1, <3>1 DEF Inv, SlabInv, Stay
  <2>5. \A x \in Owners : block'[x] = block[x] /\ map'[x] = map[x]
    BY <2>1 DEF Stay, Place, Owners, In, Inv, TypeOK
  <2>6. OwnerInv' BY <2>1, <2>2, <2>5 DEF Inv, OwnerInv, Stay
  <2>7. DistinctInv' BY <2>2, <2>5 DEF Inv, DistinctInv
  <2>8. MarkedInv' BY <2>1, <2>2, <2>5 DEF Inv, MarkedInv, Stay
  <2>9. QED BY <2>3, <2>4, <2>6, <2>7, <2>8 DEF Inv
<1>3. QED BY <1>1, <1>2

\* Memories at free addresses that wrap free blocks of a slab not freed: what
\* start() and alloc_buffer() have in common.
LEMMA WrappedStep ==
  ASSUME Inv, NEW made \in SUBSET In({"gone"}), NEW s \in Slabs, s \notin freed,
         NEW new \in [made -> {s} \X Idx], NEW to \in {"queued", "out"},
         \A x \in made : new[x] \notin in_use,
         \A x, y \in made : new[x] = new[y] => x = y,
         Wrapped(new), st' = [m \in Mems |-> IF m \in made THEN to ELSE st[m]],
         slab' = s, slab = s \/ s = starts + 1,
         starts' = IF slab = s THEN starts ELSE s,
         active' \in BOOLEAN, started' \in BOOLEAN, active' => started',
         Outstanding' # {} => started', cur_buffers' \in Int,
         UNCHANGED <<cfgVars, freed, shared>>
  PROVE  Inv'
<1>1. Owners' = Owners \cup made /\ Owners \cap made = {}
  <2>1. made \subseteq Mems /\ \A m \in made : st[m] = "gone" BY DEF In
  <2>2. \A m \in Mems : st'[m] = IF m \in made THEN to ELSE st[m] OBVIOUS
  <2>3. QED BY <2>1, <2>2 DEF Owners, In
<1>2. /\ \A m \in made : block'[m] = new[m] /\ map'[m] = new[m]
      /\ \A m \in Mems \ made : block'[m] = block[m] /\ map'[m] = map[m]
      /\ DOMAIN new = made /\ made \subseteq Mems
  BY DEF Wrapped, In
<1>3. in_use' = in_use \cup {new[m] : m \in made} BY <1>2 DEF Wrapped
<1>4. \A m \in made : new[m] \in Blocks /\ new[m][1] = s BY DEF Blocks
<1>5. TypeOK'
  <2>1. st' \in [Mems -> States] BY DEF Inv, TypeOK, States
  <2>2. block' \in [Mems -> Blocks \cup {None}] /\ map' \in [Mems -> Blocks \cup {None}]
    <3>1. \A m \in Mems : block[m] \in Blocks \cup {None} /\ map[m] \in Blocks \cup {None}
      BY DEF Inv, TypeOK
    <3>2. QED BY <1>2, <1>4, <3>1 DEF Wrapped
  <2>3. in_use' \subseteq Blocks BY <1>3, <1>4 DEF Inv, TypeOK
  <2>4. slab' \in 0 .. starts' /\ starts' \in 0 .. MaxStarts
    BY PoolAssumption DEF Inv, TypeOK, Slabs
  <2>5. min' \in Nat /\ max' \in Nat /\ max_buffers' \in 0 .. MaxBlocks
    BY DEF Inv, TypeOK, cfgVars
  <2>6. freed' \subseteq Slabs /\ shared' \subseteq Mems BY DEF Inv, TypeOK
  <2>7. QED BY <2>1, <2>2, <2>3, <2>4, <2>5, <2>6 DEF TypeOK
<1>6. SlabInv'
  <2>1. starts \in Nat /\ s \in Nat /\ s # 0 BY PoolAssumption DEF Inv, TypeOK, Slabs
  <2>2. freed \subseteq 1 .. starts' BY <2>1 DEF Inv, SlabInv
  <2>3. QED BY <2>1, <2>2 DEF SlabInv
<1>7. OwnerInv'
  <2> SUFFICES ASSUME NEW m \in Owners'
               PROVE  /\ block'[m] \in in_use' /\ map'[m] = block'[m]
                      /\ block'[m][1] \notin freed'
    BY DEF OwnerInv
  <2>1. CASE m \in made BY <2>1, <1>2, <1>3, <1>4
  <2>2. CASE m \notin made
    <3>1. m \in Owners /\ m \in Mems \ made BY <2>2, <1>1 DEF Owners, In
    <3>2. QED BY <3>1, <1>2, <1>3 DEF Inv, OwnerInv
  <2>3. QED BY <2>1, <2>2
<1>8. DistinctInv'
  <2> SUFFICES ASSUME NEW m \in Owners', NEW n \in Owners', block'[m] = block'[n]
               PROVE  m = n
    BY DEF DistinctInv
  <2>1. \A x \in Owners' : x \notin made =>
          x \in Owners /\ block'[x] = block[x] /\ block[x] \in in_use
    BY <1>1, <1>2 DEF Owners, In, Inv, OwnerInv
  <2>2. \A x \in made : block'[x] \notin in_use BY <1>2
  <2>3. CASE m \in made /\ n \in made BY <2>3, <1>2
  <2>4. CASE m \notin made /\ n \notin made BY <2>1, <2>4 DEF Inv, DistinctInv
  <2>5. QED BY <2>1, <2>2, <2>3, <2>4
<1>9. MarkedInv'
  <2> SUFFICES ASSUME NEW b \in in_use'
               PROVE  /\ b[1] <= starts'
                      /\ b[1] = slab' => \E m \in Owners' : block'[m] = b
    BY DEF MarkedInv
  <2>1. CASE b \in {new[m] : m \in made}
    <3>1. PICK m \in made : b = new[m] BY <2>1
    <3>2. b[1] = s /\ m \in Owners' /\ block'[m] = b BY <3>1, <1>1, <1>2, <1>4
    <3>3. s <= starts' BY PoolAssumption DEF Inv, TypeOK, Slabs
    <3>4. QED BY <3>2, <3>3
  <2>2. CASE b \in in_use
    <3>1. b[1] <= starts /\ b[1] \in Slabs BY <2>2 DEF Inv, MarkedInv, TypeOK, Blocks
    <3>2. b[1] <= starts' BY <3>1, PoolAssumption DEF Slabs, Inv, TypeOK
    <3>3. CASE b[1] = s
      <4>1. slab = s BY <3>1, <3>3, PoolAssumption DEF Inv, TypeOK, Slabs
      <4>2. PICK m \in Owners : block[m] = b BY <2>2, <3>3, <4>1 DEF Inv, MarkedInv
      <4>3. m \in Owners' /\ block'[m] = b
        BY <4>2, <1>1, <1>2 DEF Owners, In
      <4>4. QED BY <3>2, <4>3
    <3>4. QED BY <3>2, <3>3
  <2>3. QED BY <2>1, <2>2, <1>3
<1>10. QED BY <1>5, <1>6, <1>7, <1>8, <1>9 DEF Inv

LEMMA StartStep == ASSUME Inv, Start PROVE Inv'
<1> DEFINE s  == starts + 1
           n  == IF min <= Room THEN min ELSE Room
           Is == 0 .. n - 1
<1>1. PICK made \in SUBSET In({"gone"}) : \E new \in [made -> {s} \X Is] :
        /\ \A x, y \in made : new[x] = new[y] => x = y
        /\ \A i \in Is : \E m \in made : new[m] = <<s, i>>
        /\ Wrapped(new)
        /\ st' = [m \in Mems |-> IF m \in made THEN "queued" ELSE st[m]]
  BY DEF Start
<1>2. PICK new \in [made -> {s} \X Is] :
        /\ \A x, y \in made : new[x] = new[y] => x = y
        /\ Wrapped(new)
        /\ st' = [m \in Mems |-> IF m \in made THEN "queued" ELSE st[m]]
  BY <1>1
<1>3. Is \subseteq Idx
  <2>1. Room \in Int /\ Room <= max_buffers BY RoomBound DEF Inv
  <2>2. min \in Nat /\ max_buffers \in Nat /\ max_buffers <= MaxBlocks /\ MaxBlocks \in Nat
    BY PoolAssumption DEF Inv, TypeOK
  <2>3. n \in Int /\ n <= MaxBlocks BY <2>1, <2>2
  <2>4. QED BY <2>2, <2>3 DEF Idx
<1>4. s \in Slabs /\ s \notin freed
  BY PoolAssumption DEF Inv, TypeOK, SlabInv, Start, Slabs
<1>5. new \in [made -> {s} \X Idx] BY <1>3
<1>6. \A x \in made : new[x] \notin in_use
  <2>1. \A b \in in_use : b[1] # s
    BY PoolAssumption DEF Inv, MarkedInv, TypeOK, Blocks, Slabs
  <2>2. QED BY <2>1, <1>5
<1>7. /\ slab' = s /\ starts' = s /\ slab # s
      /\ active' = (n = min) /\ started' = (n = min)
      /\ UNCHANGED <<cfgVars, freed, shared>> /\ ~started
  BY PoolAssumption DEF Start, Inv, TypeOK
<1>8. Outstanding' = {}
  <2>1. Outstanding = {} BY <1>7 DEF Inv, SlabInv
  <2>2. \A m \in Mems : st'[m] = IF m \in made THEN "queued" ELSE st[m] BY <1>2
  <2>3. QED BY <2>1, <2>2 DEF Outstanding, In
<1>9. cur_buffers' \in Int
  <2>1. 0 \in Int /\ n - 1 \in Int BY RoomBound DEF Inv, TypeOK
  <2>2. IsFiniteSet(0 .. (n - 1)) BY ONLY <2>1, FS_Interval, Zenon
  <2>3. Cardinality(Is) \in Nat BY ONLY <2>2, FS_CardinalityType, Zenon
  <2>4. cur_buffers' = cur_buffers + Cardinality(Is) BY DEF Start
  <2> HIDE DEF Is
  <2>5. QED BY <2>3, <2>4 DEF Inv, TypeOK
<1>10. QED BY <1>2, <1>4, <1>5, <1>6, <1>7, <1>8, <1>9, WrappedStep

LEMMA AllocStep ==
  ASSUME Inv, NEW m \in Mems, NEW i \in Idx, AllocBuffer(m, i)
  PROVE  Inv'
<1> DEFINE new == [x \in {m} |-> <<slab, i>>]
<1>1. slab \in Slabs /\ slab \notin freed /\ started
  BY PoolAssumption DEF AllocBuffer, Inv, SlabInv, TypeOK, Slabs
<1>2. /\ {m} \in SUBSET In({"gone"}) /\ new \in [{m} -> {slab} \X Idx]
      /\ \A x \in {m} : new[x] \notin in_use
      /\ \A x, y \in {m} : new[x] = new[y] => x = y
  BY DEF AllocBuffer, FirstFree, In
<1>3. st' = [x \in Mems |-> IF x \in {m} THEN "out" ELSE st[x]]
  BY DEF AllocBuffer, Inv, TypeOK
<1>4. /\ Wrapped(new) /\ slab' = slab /\ starts' = starts
      /\ UNCHANGED <<active, started>> /\ UNCHANGED <<cfgVars, freed, shared>>
  BY DEF AllocBuffer, slabVars
<1>5. active' \in BOOLEAN /\ started' \in BOOLEAN /\ (active' => started') /\ started'
  BY <1>1, <1>4 DEF Inv, TypeOK, SlabInv
<1>6. cur_buffers' \in Int BY DEF AllocBuffer, Inv, TypeOK
<1>7. QED BY <1>1, <1>2, <1>3, <1>4, <1>5, <1>6, WrappedStep

\* The block of a buffer that is freed: nobody else wraps it.
LEMMA CleanStep == ASSUME Inv, NEW m \in Mems, CleanBlock(m) PROVE Inv'
<1>1. /\ m \in Owners /\ map[m] = block[m] /\ block[m] \in in_use
      /\ m \in Outstanding /\ started /\ slab # 0
  BY DEF CleanBlock, Owners, Outstanding, In, Inv, OwnerInv, SlabInv
<1>2. in_use' = in_use \ {block[m]} /\ block' = block /\ map' = map
  BY <1>1 DEF CleanBlock
<1>3. Owners' = Owners \ {m} /\ Outstanding' = Outstanding
  <2>1. \A x \in Mems : st'[x] = IF x = m THEN "cleaned" ELSE st[x]
    BY DEF CleanBlock, Inv, TypeOK
  <2>2. QED BY <2>1 DEF Owners, Outstanding, In, CleanBlock
<1>4. TypeOK' BY <1>2 DEF CleanBlock, Inv, TypeOK, cfgVars, slabVars, States
<1>5. SlabInv' BY <1>3 DEF CleanBlock, Inv, SlabInv, slabVars
<1>6. \A x \in Owners' : x \in Owners /\ block[x] # block[m]
  BY <1>1, <1>3 DEF Inv, DistinctInv
<1>7. OwnerInv' BY <1>2, <1>6 DEF Inv, OwnerInv, CleanBlock, slabVars
<1>8. DistinctInv' BY <1>2, <1>6 DEF Inv, DistinctInv
<1>9. MarkedInv'
  <2> SUFFICES ASSUME NEW b \in in_use'
               PROVE  /\ b[1] <= starts'
                      /\ b[1] = slab' => \E x \in Owners' : block'[x] = b
    BY DEF MarkedInv
  <2>1. b \in in_use /\ b # block[m] BY <1>2
  <2>2. QED BY <2>1, <1>2, <1>3 DEF Inv, MarkedInv, CleanBlock, slabVars
<1>10. QED BY <1>4, <1>5, <1>7, <1>8, <1>9 DEF Inv

LEMMA DeactivateStep == ASSUME Inv, Deactivate PROVE Inv'
<1>1. active' = FALSE /\ started BY DEF Deactivate, Inv, SlabInv
<1>2. UNCHANGED <<cfgVars, starts, map, shared>> BY DEF Deactivate
<1>3. CASE Outstanding = {}
  <2>1. Stop(st) BY <1>3 DEF Deactivate
  <2>2. \A x \in Mems : st[x] \in {"gone", "queued", "kept"}
    <3> SUFFICES ASSUME NEW x \in Mems PROVE st[x] \in {"gone", "queued", "kept"}
      OBVIOUS
    <3>1. st[x] \in States /\ x \notin Outstanding BY <1>3 DEF Inv, TypeOK
    <3>2. QED BY <3>1 DEF Outstanding, In, States
  <2>3. st \in [Mems -> States] /\ shared' \in SUBSET Mems
        /\ map' \in [Mems -> Blocks \cup {None}]
    BY <1>2 DEF Inv, TypeOK
  <2>4. QED BY <1>1, <1>2, <2>1, <2>2, <2>3, StopStep
<1>4. CASE Outstanding # {}
  <2>1. Stay(st) BY <1>4 DEF Deactivate
  <2>2. Owners' = Owners /\ Outstanding' = Outstanding
    BY <2>1 DEF Stay, Place, Owners, Outstanding, In
  <2>3. TypeOK' BY <1>1, <1>2, <2>1 DEF Inv, TypeOK, Stay, Place, cfgVars
  <2>4. SlabInv' BY <1>1, <1>2, <2>1, <2>2 DEF Inv, SlabInv, Stay
  <2>5. \A x \in Owners : block'[x] = block[x]
    BY <2>1 DEF Stay, Place, Owners, In
  <2>6. QED BY <1>2, <2>1, <2>2, <2>3, <2>4, <2>5, SameOwners DEF Stay
<1>5. QED BY <1>3, <1>4

\* A buffer that moves between the places where it owns its block, or a memory
\* whose buffer is gone.
LEMMA MoveStep ==
  ASSUME Inv, NEW m \in Mems, NEW to \in {"out", "freeing"},
         st' = [st EXCEPT ![m] = to], st[m] \in {"queued", "out"}, started,
         cur_buffers' \in Int,
         UNCHANGED <<cfgVars, active, started, slabVars, in_use, map, block, shared>>
  PROVE  Inv'
<1>1. \A x \in Mems : st'[x] = IF x = m THEN to ELSE st[x] BY DEF Inv, TypeOK
<1>2. Owners' = Owners BY <1>1 DEF Owners, In
<1>3. TypeOK' BY DEF Inv, TypeOK, cfgVars, slabVars, States
<1>4. SlabInv' BY DEF Inv, SlabInv, slabVars
<1>5. QED BY <1>2, <1>3, <1>4, SameOwners DEF slabVars

LEMMA ShareStep ==
  ASSUME Inv, NEW m \in Mems, Share(m) \/ Unshare(m)
  PROVE  Inv'
<1>1. \A x \in Mems : st'[x] = st[x] \/ (st[x] = "kept" /\ st'[x] = "gone")
  BY DEF Share, Unshare, Place, Inv, TypeOK
<1>2. Owners' = Owners /\ Outstanding' = Outstanding
  BY <1>1 DEF Owners, Outstanding, In
<1>3. TypeOK'
  <2>1. st' \in [Mems -> States] BY DEF Share, Unshare, Place, Inv, TypeOK, States
  <2>2. block' \in [Mems -> Blocks \cup {None}]
    <3>1. \A x \in Mems : block[x] \in Blocks \cup {None} BY DEF Inv, TypeOK
    <3>2. CASE Share(m) BY <3>2 DEF Share, Inv, TypeOK
    <3>3. CASE Unshare(m) BY <3>1, <3>3 DEF Unshare, Place
    <3>4. QED BY <3>2, <3>3
  <2>3. shared' \subseteq Mems BY DEF Share, Unshare, Inv, TypeOK
  <2>4. QED
    BY <2>1, <2>2, <2>3 DEF Share, Unshare, Inv, TypeOK, cfgVars, slabVars
<1>4. SlabInv'
  <2>1. UNCHANGED <<active, started, slab, starts, freed>>
    BY DEF Share, Unshare, slabVars
  <2>2. QED BY <1>2, <2>1 DEF Inv, SlabInv
<1>5. \A x \in Owners : block'[x] = block[x]
  BY <1>2 DEF Share, Unshare, Place, Owners, In, Inv, TypeOK
<1>6. QED
  BY <1>2, <1>3, <1>4, <1>5, SameOwners DEF Share, Unshare, slabVars

\* Every action of the pool preserves the invariant.
LEMMA InvNext == Inv /\ [Next]_vars => Inv'
<1> SUFFICES ASSUME Inv, [Next]_vars PROVE Inv' OBVIOUS
<1>1. ASSUME NEW c \in Configs, SetConfig(c) PROVE Inv'
  <2>1. c \in Nat \X Nat /\ c[2] <= MaxBlocks BY PoolAssumption
  <2>2. /\ min' \in Nat /\ max' \in Nat /\ max_buffers' \in 0 .. MaxBlocks
        /\ cur_buffers' \in Int
    BY <1>1, <2>1, PoolAssumption DEF SetConfig, AtLeastOne, Blocked
  <2>3. UNCHANGED <<active, started, slab, starts, freed, in_use, map, block, st, shared>>
    BY <1>1 DEF SetConfig, slabVars, bufVars
  <2>4. TypeOK' BY <2>2, <2>3 DEF Inv, TypeOK
  <2>5. Owners' = Owners /\ Outstanding' = Outstanding
    BY <2>3 DEF Owners, Outstanding, In
  <2>6. SlabInv' BY <2>3, <2>5 DEF Inv, SlabInv
  <2>7. QED BY <2>3, <2>4, <2>5, <2>6, SameOwners
<1>2. CASE Start BY <1>2, StartStep
<1>3. CASE Reactivate
  <2>1. UNCHANGED <<cfgVars, started, slab, starts, freed, in_use, map, block, st, shared>>
    BY <1>3 DEF Reactivate, slabVars, bufVars
  <2>2. Owners' = Owners /\ Outstanding' = Outstanding
    BY <2>1 DEF Owners, Outstanding, In
  <2>3. TypeOK' BY <1>3, <2>1 DEF Reactivate, Inv, TypeOK, cfgVars
  <2>4. SlabInv' BY <1>3, <2>1, <2>2 DEF Reactivate, Inv, SlabInv
  <2>5. QED BY <2>1, <2>2, <2>3, <2>4, SameOwners
<1>4. CASE Deactivate BY <1>4, DeactivateStep
<1>5. ASSUME NEW m \in Mems, NEW i \in Idx, AllocBuffer(m, i) PROVE Inv'
  BY <1>5, AllocStep
<1>6. ASSUME NEW m \in Mems, AcquireQueued(m) PROVE Inv'
  <2>1. started /\ cur_buffers' \in Int
    BY <1>6 DEF AcquireQueued, Inv, SlabInv, TypeOK
  <2>2. QED BY <1>6, <2>1, MoveStep DEF AcquireQueued
<1>7. ASSUME NEW m \in Mems, Release(m) PROVE Inv'
  BY <1>7, CameBackStep DEF Release
<1>8. ASSUME NEW m \in Mems, Discard(m) PROVE Inv'
  <2>1. started BY <1>8 DEF Discard, Inv, SlabInv, Outstanding, In
  <2>2. cur_buffers' \in Int BY <1>8 DEF Discard, Inv, TypeOK
  <2>3. QED BY <1>8, <2>1, <2>2, MoveStep DEF Discard
<1>9. ASSUME NEW m \in Mems, CleanBlock(m) PROVE Inv' BY <1>9, CleanStep
<1>10. ASSUME NEW m \in Mems, FreeBuffer(m) PROVE Inv'
  <2> DEFINE to == IF m \in shared THEN "kept" ELSE "gone"
  <2>1. to \in {"queued", "gone", "kept"} /\ to # "queued" OBVIOUS
  <2>2. QED BY <1>10, <2>1, CameBackStep DEF FreeBuffer
<1>11. ASSUME NEW m \in Mems, Share(m) \/ Unshare(m) PROVE Inv'
  BY <1>11, ShareStep
<1>12. CASE UNCHANGED vars
  <2>1. UNCHANGED <<cfgVars, active, started, cur_buffers, slab, starts, freed,
                    in_use, map, block, st, shared>>
    BY <1>12 DEF vars, slabVars, bufVars
  <2>2. Owners' = Owners /\ Outstanding' = Outstanding
    BY <2>1 DEF Owners, Outstanding, In
  <2>3. TypeOK' BY <2>1 DEF Inv, TypeOK, cfgVars
  <2>4. SlabInv' BY <2>1, <2>2 DEF Inv, SlabInv
  <2>5. QED BY <2>1, <2>2, <2>3, <2>4, SameOwners
<1>13. QED
  BY <1>1, <1>2, <1>3, <1>4, <1>5, <1>6, <1>7, <1>8, <1>9, <1>10, <1>11, <1>12
  DEF Next

LEMMA InvAlways == Spec => []Inv
<1>1. Init => Inv BY InvInit
<1>2. QED BY <1>1, InvNext, PTL DEF Spec

\* The variables of the pool keep their types, whatever configurations are asked
\* for and however often the pool is started.
THEOREM PoolTypeCorrect == Spec => []TypeOK
<1>1. Inv => TypeOK BY DEF Inv
<1>2. QED BY <1>1, InvAlways, PTL

\* Through every interleaving of acquire, release, discard and stop, a block is
\* marked in use exactly when one buffer wraps it, and never two do.
THEOREM BlocksAccounted == Spec => []BlockLedger
<1>1. Inv => BlockLedger
  <2> SUFFICES ASSUME Inv PROVE BlockLedger OBVIOUS
  <2>1. ASSUME slab # 0, NEW i \in Idx
        PROVE  <<slab, i>> \in in_use <=> \E m \in Owners : block[m] = <<slab, i>>
    BY <2>1 DEF Inv, MarkedInv, OwnerInv
  <2>2. QED BY <2>1 DEF Inv, DistinctInv, BlockLedger
<1>2. QED BY <1>1, InvAlways, PTL

\* The cleanup of a buffer never goes through a stale entry of the table, never
\* into an array that was freed, and never runs without a slab.
THEOREM LookupsSound == Spec => []LookupSound
<1>1. Inv => LookupSound
  <2> SUFFICES ASSUME Inv, NEW m \in Owners
               PROVE  /\ map[m] = block[m] /\ block[m] # None
                      /\ block[m][1] \notin freed
                      /\ st[m] # "queued" => slab # 0
    BY DEF LookupSound
  <2>1. map[m] = block[m] /\ block[m] \in Blocks /\ block[m][1] \notin freed
    BY DEF Inv, OwnerInv, TypeOK
  <2>2. block[m] # None BY <2>1, PoolAssumption DEF Blocks, Slabs, Idx
  <2>3. st[m] # "queued" => m \in Outstanding BY DEF Owners, Outstanding, In
  <2>4. QED BY <2>1, <2>2, <2>3 DEF Inv, SlabInv
<1>2. QED BY <1>1, InvAlways, PTL
=============================================================================
