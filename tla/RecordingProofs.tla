--------------------------- MODULE RecordingProofs ---------------------------
(***************************************************************************)
(* The two ends of the recording path, for every set of streams or tracks  *)
(* and every bound: ambavencdemux, which hands out the encoded samples,    *)
(* and amba_event_recorder, which keeps and writes them.                   *)
(*                                                                         *)
(* ambavencdemux: types, that a flush is final, and that nothing passes    *)
(* before PLAYING.  DemuxInv is the type invariant with what the three     *)
(* threads rely on: the element is blocked in PAUSED, a buffer on its way  *)
(* to the pad has seen PLAYING, and during a flush every pad either        *)
(* refuses data or is synchronised.                                        *)
(*                                                                         *)
(* amba_event_recorder: types and limits of the caches, and that a file    *)
(* has the samples of its window, each once, in order, from a keyframe on  *)
(* and not beyond the end.  RecorderInv relates, track by track, cache and *)
(* file: what is marked written is in the file, what is not and is still   *)
(* to be written comes after all that is in the file (Ahead), and an empty *)
(* file has its first keyframe still in the cache (StartsKeyed).  The      *)
(* handlers are functions of recorder states, so that most lemmas are of   *)
(* such a function: RecOK of its argument gives RecOK of its result.       *)
(***************************************************************************)
EXTENDS EventRecorder, VencDemux, FiniteSetTheorems, WellFoundedInduction,
        SequenceTheorems, TLAPS

-----------------------------------------------------------------------------
(* ambavencdemux.                                                          *)

BlockedInv ==
  /\ state \in {"paused", "stopping"} => blocked
  /\ state = "playing" /\ pc # "idle" => opened

OpenedInv ==
  /\ pc = "clock" => opened
  /\ pc = "push" => opened \/ segment[cur] = "undefined"

FlushInv ==
  /\ flush # "none" => flushing
  /\ flush = "started" =>
       /\ \A s \in pads \ padFlush : segment[s] = "time"
       /\ pc = "push" => cur \in padFlush

DemuxInv == DemuxTypeOK /\ BlockedInv /\ OpenedInv /\ FlushInv

(* The element as created: READY, no pads, nothing under way.              *)
LEMMA DemuxStarts == DemuxInit => DemuxInv
<1> SUFFICES ASSUME DemuxInit PROVE DemuxInv
  OBVIOUS
<1>1. 0 \in 0 .. MaxArrivals /\ 0 \in 0 .. MaxFlushes /\ 0 \in 0 .. MaxStarts
  BY VencDemuxAssumption
<1>2. DemuxTypeOK
  BY <1>1 DEF DemuxInit, DemuxTypeOK
<1>3. QED
  BY <1>2 DEF DemuxInit, DemuxInv, BlockedInv, OpenedInv, FlushInv

(* The steps of chain().                                                   *)
LEMMA ChainStep ==
  ASSUME DemuxInv, \/ \E s \in Streams : Arrive(s)
              \/ Reject \/ Route \/ DumpFails \/ Sync \/ Wake \/ ClockDone \/ Push
  PROVE  DemuxInv'
<1> USE VencDemuxAssumption
<1>1. CASE \E s \in Streams : Arrive(s)
  <2>1. PICK s \in Streams : Arrive(s)
    BY <1>1
  <2>2. buffers' \in 0 .. MaxArrivals
    BY <2>1 DEF DemuxInv, DemuxTypeOK, Arrive
  <2>3. DemuxTypeOK'
    BY <2>1, <2>2 DEF DemuxInv, DemuxTypeOK, Arrive, padVars
  <2>4. QED
    BY <2>1, <2>3 DEF DemuxInv, DemuxTypeOK, BlockedInv, OpenedInv, FlushInv, Arrive, padVars
<1>2. CASE Reject
  BY <1>2 DEF DemuxInv, DemuxTypeOK, BlockedInv, OpenedInv, FlushInv, Reject, Drop, padVars, counts
<1>3. CASE Route
  BY <1>3 DEF DemuxInv, DemuxTypeOK, BlockedInv, OpenedInv, FlushInv, Route, counts
<1>4. CASE DumpFails
  BY <1>4 DEF DemuxInv, DemuxTypeOK, BlockedInv, OpenedInv, FlushInv, DumpFails, Drop, padVars, counts
<1>5. CASE Sync
  <2>1. DemuxTypeOK'
    <3>1. /\ pc = "routed" /\ pc' \in {"idle", "blocked", "clock", "push"}
          /\ clock' = IF pc' = "clock" THEN "armed" ELSE clock
          /\ woken' \in {woken, FALSE} /\ fate' \in {fate, "dropped"}
          /\ UNCHANGED <<state, flushing, blocked, pads, padFlush, segment, cur, flush,
                         opened, buffers, flushes, starts>>
      BY <1>5 DEF Sync, WaitTurn, Drop, padVars, counts
    <3>2. /\ pc' \in {"idle", "start", "routed", "blocked", "clock", "push"}
          /\ woken' \in BOOLEAN /\ clock' \in {"none", "armed", "unscheduled"}
          /\ fate' \in {"none", "pushed", "dropped", "refused"}
          /\ cur \in pads /\ (clock' = "none" <=> pc' # "clock") /\ state # "ready"
      BY <3>1 DEF DemuxInv, DemuxTypeOK
    <3>3. QED BY <3>1, <3>2 DEF DemuxInv, DemuxTypeOK
  <2>2. BlockedInv' /\ OpenedInv'
    BY <1>5 DEF DemuxInv, DemuxTypeOK, BlockedInv, OpenedInv, Sync, WaitTurn, Drop, padVars, counts
  <2>3. FlushInv'
    BY <1>5 DEF DemuxInv, DemuxTypeOK, FlushInv, Sync, WaitTurn, Drop, padVars, counts
  <2>4. QED BY <2>1, <2>2, <2>3 DEF DemuxInv
<1>6. CASE Wake
  BY <1>6 DEF DemuxInv, DemuxTypeOK, BlockedInv, OpenedInv, FlushInv, Wake, WaitTurn, Drop, padVars, counts
<1>7. CASE ClockDone
  BY <1>7 DEF DemuxInv, DemuxTypeOK, BlockedInv, OpenedInv, FlushInv, ClockDone, Drop, padVars, counts
<1>8. CASE Push
  BY <1>8 DEF DemuxInv, DemuxTypeOK, BlockedInv, OpenedInv, FlushInv, Push, padVars, counts
<1>9. QED
  BY <1>1, <1>2, <1>3, <1>4, <1>5, <1>6, <1>7, <1>8

(* Flush events, whatever chain() is doing.                                *)
LEMMA FlushStep ==
  ASSUME DemuxInv, FlushStart \/ FlushForward \/ FlushStop
  PROVE  DemuxInv'
<1> USE VencDemuxAssumption
<1>1. CASE FlushStart
  BY <1>1 DEF DemuxInv, DemuxTypeOK, BlockedInv, OpenedInv, FlushInv, FlushStart, Signal,
              Unschedule, padVars, chainVars
<1>2. CASE FlushForward
  BY <1>2 DEF DemuxInv, DemuxTypeOK, BlockedInv, OpenedInv, FlushInv, FlushForward, chainVars, counts
<1>3. CASE FlushStop
  BY <1>3 DEF DemuxInv, DemuxTypeOK, BlockedInv, OpenedInv, FlushInv, FlushStop, chainVars, counts
<1>4. QED
  BY <1>1, <1>2, <1>3

(* State changes, whatever chain() is doing.                               *)
LEMMA StateStep ==
  ASSUME DemuxInv, \/ ReadyToPaused \/ PausedToPlaying \/ PlayingToPaused
              \/ PausedToReady \/ PausedToReadyDone
  PROVE  DemuxInv'
<1> USE VencDemuxAssumption
<1>1. CASE ReadyToPaused
  <2>1. starts' \in 0 .. MaxStarts
    BY <1>1 DEF DemuxInv, DemuxTypeOK, ReadyToPaused
  <2>2. DemuxTypeOK'
    BY <1>1, <2>1 DEF DemuxInv, DemuxTypeOK, ReadyToPaused, padVars, chainVars
  <2>3. QED
    BY <1>1, <2>2 DEF DemuxInv, DemuxTypeOK, BlockedInv, OpenedInv, FlushInv, ReadyToPaused, padVars, chainVars
<1>2. CASE PausedToPlaying
  BY <1>2 DEF DemuxInv, DemuxTypeOK, BlockedInv, OpenedInv, FlushInv, PausedToPlaying, Signal,
              padVars, chainVars, counts
<1>3. CASE PlayingToPaused
  BY <1>3 DEF DemuxInv, DemuxTypeOK, BlockedInv, OpenedInv, FlushInv, PlayingToPaused, padVars,
              chainVars, counts
<1>4. CASE PausedToReady
  BY <1>4 DEF DemuxInv, DemuxTypeOK, BlockedInv, OpenedInv, FlushInv, PausedToReady, chainVars, counts
<1>5. CASE PausedToReadyDone
  BY <1>5 DEF DemuxInv, DemuxTypeOK, BlockedInv, OpenedInv, FlushInv, PausedToReadyDone, Signal,
              Unschedule, chainVars, counts
<1>6. QED
  BY <1>1, <1>2, <1>3, <1>4, <1>5

LEMMA DemuxStep == DemuxInv /\ [DemuxNext]_demuxVars => DemuxInv'
<1> SUFFICES ASSUME DemuxInv, [DemuxNext]_demuxVars PROVE DemuxInv'
  OBVIOUS
<1>1. CASE UNCHANGED demuxVars
  BY <1>1 DEF DemuxInv, DemuxTypeOK, BlockedInv, OpenedInv, FlushInv, demuxVars, padVars, chainVars, counts
<1>2. CASE DemuxNext
  BY <1>2, ChainStep, FlushStep, StateStep DEF DemuxNext
<1>3. QED
  BY <1>1, <1>2

(* The invariant holds in every behaviour.                                 *)
THEOREM DemuxInvariance == DemuxSpec => []DemuxInv
  BY DemuxStarts, DemuxStep, PTL DEF DemuxSpec

(* Types; no clock id outlives the wait it was made for, and no pad is     *)
(* left when the element is READY.                                         *)
THEOREM DemuxTypeCorrect == DemuxSpec => []DemuxTypeOK
<1>1. DemuxInv => DemuxTypeOK
  BY DEF DemuxInv
<1>2. QED
  BY DemuxInvariance, <1>1, PTL

(* Only the last step of chain() delivers a buffer.                        *)
LEMMA DeliveredByPush ==
  ASSUME DemuxNext, Delivered
  PROVE  Push /\ cur \notin padFlush
  BY DEF DemuxNext, Delivered, Arrive, Reject, Route, DumpFails, Sync, Wake, WaitTurn,
         ClockDone, Push, Drop, FlushStart, FlushForward, FlushStop, ReadyToPaused,
         PausedToPlaying, PlayingToPaused, PausedToReady, PausedToReadyDone, chainVars

(* Once FLUSH_START has gone through no buffer comes out until FLUSH_STOP, *)
(* on pads created during the flush as on the others.                      *)
THEOREM FlushFinal == DemuxSpec => FlushIsFinal
<1>1. DemuxInv /\ [DemuxNext]_demuxVars => [flush = "started" => ~Delivered]_demuxVars
  BY DeliveredByPush DEF DemuxInv, FlushInv, Push
<1>2. QED
  BY DemuxInvariance, <1>1, PTL DEF DemuxSpec, FlushIsFinal

(* No buffer passes an element that was not PLAYING since the buffer came  *)
(* in, except on a pad that was flushed.                                   *)
THEOREM NothingBeforePlaying == DemuxSpec => PausedHolds
<1>1. DemuxInv /\ [DemuxNext]_demuxVars => [Delivered => opened \/ segment[cur] = "undefined"]_demuxVars
  BY DeliveredByPush DEF DemuxInv, OpenedInv, Push
<1>2. QED
  BY DemuxInvariance, <1>1, PTL DEF DemuxSpec, PausedHolds
-----------------------------------------------------------------------------
(* amba_event_recorder.                                                    *)

(* Induction.  The library's induction theorems take an operator; these    *)
(* take a set.                                                             *)

LEMMA Least == ASSUME NEW T \in SUBSET Nat, T # {} PROVE \E x \in T : \A y \in T : x <= y
<1> DEFINE Below(n) == 0 .. n - 1
           F == {Below(n) : n \in T}
           R == StrictSubsetOrdering(Nat)
<1>1. \A n \in Nat : Below(n) \in FiniteSubsetsOf(Nat)
  <2> SUFFICES ASSUME NEW n \in Nat PROVE IsFiniteSet(0 .. n - 1)
    BY DEF FiniteSubsetsOf
  <2>1. QED BY FS_Interval
<1>2. F \subseteq FiniteSubsetsOf(Nat) /\ F # {}
  BY <1>1
<1>3. IsWellFoundedOn(R, FiniteSubsetsOf(Nat))
  BY FS_StrictSubsetOrderingWellFounded
<1>4. PICK B \in F : \A C \in F : <<C, B>> \notin R
  <2> HIDE DEF F, R
  <2>1. QED BY <1>2, <1>3, WFMin
<1>5. PICK x \in T : B = Below(x)
  OBVIOUS
<1>6. ASSUME NEW y \in T, y < x PROVE FALSE
  <2>1. Below(y) \in SUBSET Nat /\ Below(x) \in SUBSET Nat
    OBVIOUS
  <2>2. Below(y) \subseteq Below(x) /\ Below(x) # Below(y)
    <3>1. y \in Below(x) /\ y \notin Below(y)
      BY <1>6
    <3>2. QED BY <3>1, <1>6
  <2>3. <<Below(y), Below(x)>> \in R
    BY <2>1, <2>2 DEF StrictSubsetOrdering
  <2>4. QED BY <1>4, <1>5, <2>3
<1>7. QED BY <1>6

LEMMA Induction ==
  ASSUME NEW S, 0 \in S, \A n \in Nat : n \in S => n + 1 \in S
  PROVE  Nat \subseteq S
<1> SUFFICES ASSUME Nat \ S # {} PROVE FALSE
  OBVIOUS
<1>1. PICK x \in Nat \ S : \A y \in Nat \ S : x <= y
  BY Least
<1>2. x # 0 /\ x - 1 \in Nat /\ x - 1 \in S
  BY <1>1
<1>3. QED BY <1>2

LEMMA MinOf ==
  ASSUME NEW I \in SUBSET Nat, I # {}
  PROVE  Min(I) \in I /\ \A y \in I : Min(I) <= y
BY Least DEF Min

LEMMA MaxOf ==
  ASSUME NEW n \in Nat, NEW I \in SUBSET (1 .. n), I # {}
  PROVE  Max(I) \in I /\ \A y \in I : y <= Max(I)
<1>1. PICK D : D = {n - x : x \in I}
  OBVIOUS
<1>2. D \in SUBSET Nat /\ D # {}
  <2>1. \A x \in I : n - x \in Nat
    OBVIOUS
  <2>2. QED BY <1>1, <2>1
<1>3. PICK d \in D : \A y \in D : d <= y
  BY <1>2, Least
<1>4. PICK x \in I : d = n - x
  BY <1>1
<1>5. \A y \in I : n - y \in D
  BY <1>1
<1>6. \A y \in I : x >= y
  BY <1>3, <1>4, <1>5
<1>7. QED BY <1>6 DEF Max

LEMMA IsSeq ==
  ASSUME NEW S, NEW n \in Nat, NEW f \in [1 .. n -> S]
  PROVE  f \in Seq(S) /\ Len(f) = n
<1>1. f \in Seq(S)
  BY SeqDef
<1>2. QED BY <1>1, LenProperties

(* The loops.  hop is where prune_limits goes on when i is over a limit.   *)

LEMMA Hops ==
  ASSUME NEW n \in Nat, NEW over \in SUBSET (1 .. n), NEW hop \in [over -> Int],
         \A i \in over : hop[i] \in i + 1 .. n + 1
  PROVE  \E f : /\ f = [i \in 1 .. n + 1 |-> f[i]]
                /\ \A i \in 1 .. n + 1 : f[i] = IF i \notin over THEN i ELSE f[hop[i]]
<1> DEFINE Step(f, i) == f[i] = (IF i \notin over THEN i ELSE f[hop[i]])
           T == {k \in Nat : k <= n => \E f : /\ f = [i \in n + 1 - k .. n + 1 |-> f[i]]
                                              /\ \A i \in n + 1 - k .. n + 1 : Step(f, i)}
<1>1. 0 \in T
  <2>1. PICK f : f = [i \in n + 1 - 0 .. n + 1 |-> n + 1]
    OBVIOUS
  <2>2. f = [i \in n + 1 - 0 .. n + 1 |-> f[i]] /\ \A i \in n + 1 - 0 .. n + 1 : Step(f, i)
    BY <2>1
  <2>3. QED BY <2>2
<1>2. ASSUME NEW k \in Nat, k \in T PROVE k + 1 \in T
  <2>1. SUFFICES ASSUME k + 1 <= n
                 PROVE  \E f : /\ f = [i \in n + 1 - (k + 1) .. n + 1 |-> f[i]]
                               /\ \A i \in n + 1 - (k + 1) .. n + 1 : Step(f, i)
    OBVIOUS
  <2>2. PICK f : \A i \in n + 1 - k .. n + 1 : Step(f, i)
    BY <1>2, <2>1
  <2>3. PICK m \in 1 .. n : m = n - k
    BY <2>1
  <2>4. PICK g : g = [i \in m .. n + 1 |-> IF i # m THEN f[i] ELSE IF m \in over THEN f[hop[m]] ELSE m]
    OBVIOUS
  <2>5. \A i \in m + 1 .. n + 1 : g[i] = f[i] /\ Step(f, i)
    BY <2>2, <2>3, <2>4
  <2>6. ASSUME NEW i \in m .. n + 1 PROVE Step(g, i)
    <3>1. CASE i = m
      <4>1. m \in over => hop[m] \in m + 1 .. n + 1
        OBVIOUS
      <4>2. QED BY <2>4, <2>5, <3>1, <4>1
    <3>2. CASE i # m
      <4>1. i \in m + 1 .. n + 1
        BY <3>2
      <4>2. i \in over => hop[i] \in m + 1 .. n + 1
        BY <4>1, i # n + 1 => i \in 1 .. n
      <4>3. QED BY <2>5, <4>1, <4>2
    <3>3. QED BY <3>1, <3>2
  <2>7. n + 1 - (k + 1) = m /\ g = [i \in m .. n + 1 |-> g[i]]
    BY <2>3, <2>4
  <2>8. QED BY <2>6, <2>7
<1>3. n \in T
  <2> HIDE DEF T
  <2>1. QED BY <1>1, <1>2, Induction
<1>4. n + 1 - n = 1
  OBVIOUS
<1>5. QED BY <1>3, <1>4

LEMMA HopsEnd ==
  ASSUME NEW n \in Nat, NEW over \in SUBSET (1 .. n), NEW hop \in [over -> Int],
         \A i \in over : hop[i] \in i + 1 .. n + 1,
         NEW f, \A i \in 1 .. n + 1 : f[i] = IF i \notin over THEN i ELSE f[hop[i]]
  PROVE  f[1] \in 1 .. n + 1 /\ f[1] \notin over
<1> DEFINE Good(k) == \A i \in n + 1 - k .. n + 1 : f[i] \in 1 .. n + 1 /\ f[i] \notin over
           T == {k \in Nat : k <= n => Good(k)}
<1>0. \A i \in 1 .. n + 1 : f[i] = IF i \notin over THEN i ELSE f[hop[i]]
  OBVIOUS
<1>1. 0 \in T
  BY <1>0
<1>2. ASSUME NEW k \in Nat, k \in T PROVE k + 1 \in T
  <2> HIDE DEF Good
  <2>1. SUFFICES ASSUME k + 1 <= n PROVE Good(k + 1)
    OBVIOUS
  <2>2. Good(k)
    BY <1>2, <2>1
  <2> USE DEF Good
  <2>3. SUFFICES ASSUME NEW i \in n + 1 - (k + 1) .. n + 1
                 PROVE  f[i] \in 1 .. n + 1 /\ f[i] \notin over
    OBVIOUS
  <2>4. CASE i \in n + 1 - k .. n + 1
    BY <2>2, <2>4
  <2>5. CASE i = n - k
    <3>1. i \in 1 .. n
      BY <2>1, <2>5
    <3>2. i \in over => hop[i] \in n + 1 - k .. n + 1
      BY <2>5, <3>1
    <3>3. CASE i \in over
      <4>1. f[i] = f[hop[i]]
        BY <1>0, <3>1, <3>3
      <4>2. QED BY <2>2, <3>2, <3>3, <4>1
    <3>4. CASE i \notin over
      BY <1>0, <3>1, <3>4
    <3>5. QED BY <3>3, <3>4
  <2>6. QED BY <2>1, <2>4, <2>5
<1>3. n \in T
  <2> HIDE DEF T
  <2>1. QED BY <1>1, <1>2, Induction
<1>4. QED BY <1>3

(* f[i] is what the loop over s has picked after the i-th sample.           *)
IsLoop(f, s, p) ==
  /\ f = [i \in 0 .. Len(s) |-> f[i]]
  /\ \A i \in 0 .. Len(s) : f[i] = IF i = 0 THEN <<>>
                                  ELSE IF i \in p THEN Append(f[i - 1], s[i]) ELSE f[i - 1]

LEMMA Loop ==
  ASSUME NEW S, NEW s \in Seq(S), NEW p \in SUBSET (1 .. Len(s))
  PROVE  \E f : IsLoop(f, s, p)
<1> DEFINE n == Len(s)
           Step(f, i) == f[i] = (IF i = 0 THEN <<>>
                                 ELSE IF i \in p THEN Append(f[i - 1], s[i]) ELSE f[i - 1])
           T == {k \in Nat : k <= n => \E f : /\ f = [i \in 0 .. k |-> f[i]]
                                              /\ \A i \in 0 .. k : Step(f, i)}
<1>1. 0 \in T
  <2>1. PICK f : f = [i \in 0 .. 0 |-> <<>>]
    OBVIOUS
  <2>2. f = [i \in 0 .. 0 |-> f[i]] /\ \A i \in 0 .. 0 : Step(f, i)
    BY <2>1
  <2>3. QED BY <2>2
<1>2. ASSUME NEW k \in Nat, k \in T PROVE k + 1 \in T
  <2>1. SUFFICES ASSUME k + 1 <= n
                 PROVE  \E f : /\ f = [i \in 0 .. k + 1 |-> f[i]]
                               /\ \A i \in 0 .. k + 1 : Step(f, i)
    OBVIOUS
  <2>2. PICK f : \A i \in 0 .. k : Step(f, i)
    BY <1>2, <2>1
  <2>4. PICK g : g = [i \in 0 .. k + 1 |-> IF i # k + 1 THEN f[i]
                                           ELSE IF k + 1 \in p THEN Append(f[k], s[k + 1]) ELSE f[k]]
    OBVIOUS
  <2>5. \A i \in 0 .. k : g[i] = f[i] /\ Step(f, i)
    BY <2>2, <2>4
  <2>6. ASSUME NEW i \in 0 .. k + 1 PROVE Step(g, i)
    <3>1. CASE i = k + 1
      BY <2>4, <2>5, <3>1
    <3>2. CASE i # k + 1
      <4>1. i \in 0 .. k /\ (i # 0 => i - 1 \in 0 .. k)
        BY <3>2
      <4>2. QED BY <2>5, <4>1
    <3>3. QED BY <3>1, <3>2
  <2>7. g = [i \in 0 .. k + 1 |-> g[i]]
    BY <2>4
  <2>8. QED BY <2>6, <2>7
<1>3. n \in T
  <2> HIDE DEF T
  <2>1. QED BY <1>1, <1>2, Induction
<1>4. QED BY <1>3 DEF IsLoop

(* q has the elements of s, up to the k-th, that p picks, in their order.  *)
Picks(q, s, p, k) ==
  \E g \in [1 .. Len(q) -> 1 .. k] :
    /\ \A a, b \in 1 .. Len(q) : a < b => g[a] < g[b]
    /\ \A a \in 1 .. Len(q) : g[a] \in p /\ q[a] = s[g[a]]
    /\ \A i \in 1 .. k : i \in p => \E a \in 1 .. Len(q) : g[a] = i

LEMMA PickNext ==
  ASSUME NEW S, NEW s \in Seq(S), NEW p \in SUBSET (1 .. Len(s)),
         NEW k \in Nat, k + 1 <= Len(s), NEW q \in Seq(S), Picks(q, s, p, k)
  PROVE  IF k + 1 \in p THEN Picks(Append(q, s[k + 1]), s, p, k + 1) ELSE Picks(q, s, p, k + 1)
<1>1. PICK g \in [1 .. Len(q) -> 1 .. k] :
        /\ \A a, b \in 1 .. Len(q) : a < b => g[a] < g[b]
        /\ \A a \in 1 .. Len(q) : g[a] \in p /\ q[a] = s[g[a]]
        /\ \A i \in 1 .. k : i \in p => \E a \in 1 .. Len(q) : g[a] = i
  BY DEF Picks
<1>2. k + 1 \in 1 .. Len(s)
  OBVIOUS
<1>3. CASE k + 1 \in p
  <2>1. PICK r : r = Append(q, s[k + 1])
    OBVIOUS
  <2>2. /\ Len(r) = Len(q) + 1 /\ r[Len(q) + 1] = s[k + 1] /\ Len(q) \in Nat
        /\ \A a \in 1 .. Len(q) : r[a] = q[a]
    BY <1>2, <2>1
  <2>3. PICK h : h = [a \in 1 .. Len(r) |-> IF a = Len(r) THEN k + 1 ELSE g[a]]
    OBVIOUS
  <2>4. \A a \in 1 .. Len(q) : a \in 1 .. Len(r) /\ a # Len(r) /\ h[a] = g[a] /\ g[a] \in 1 .. k
    <3>1. ASSUME NEW a \in 1 .. Len(q) PROVE a \in 1 .. Len(r) /\ a # Len(r)
      BY <2>2
    <3>2. QED BY <2>3, <3>1
  <2>5. Len(r) \in 1 .. Len(r) /\ h[Len(r)] = k + 1
    BY <2>2, <2>3
  <2>6. \A a \in 1 .. Len(r) : a = Len(r) \/ a \in 1 .. Len(q)
    BY <2>2
  <2>7. h \in [1 .. Len(r) -> 1 .. k + 1]
    BY <2>3, <2>4, <2>6
  <2>8. \A a, b \in 1 .. Len(r) : a < b => h[a] < h[b]
    <3>1. SUFFICES ASSUME NEW a \in 1 .. Len(r), NEW b \in 1 .. Len(r), a < b
                   PROVE  h[a] < h[b]
      OBVIOUS
    <3>2. a \in 1 .. Len(q)
      BY <2>2, <3>1
    <3>3. CASE b = Len(r)
      <4>1. h[b] = k + 1 /\ h[a] \in 1 .. k
        BY <2>4, <2>5, <3>2, <3>3
      <4>2. k \in Nat
        OBVIOUS
      <4>3. QED BY ONLY <4>1, <4>2
    <3>4. CASE b \in 1 .. Len(q)
      BY <1>1, <2>4, <3>1, <3>2, <3>4
    <3>5. QED BY <2>6, <3>3, <3>4
  <2>9. \A a \in 1 .. Len(r) : h[a] \in p /\ r[a] = s[h[a]]
    BY <1>1, <1>3, <2>2, <2>4, <2>5, <2>6
  <2>10. \A i \in 1 .. k + 1 : i \in p => \E a \in 1 .. Len(r) : h[a] = i
    <3>1. SUFFICES ASSUME NEW i \in 1 .. k + 1, i \in p PROVE \E a \in 1 .. Len(r) : h[a] = i
      OBVIOUS
    <3>2. CASE i = k + 1
      BY <2>5, <3>2
    <3>3. CASE i \in 1 .. k
      BY <1>1, <2>4, <3>1, <3>3
    <3>4. QED BY <3>2, <3>3
  <2>11. Picks(r, s, p, k + 1)
    BY <2>7, <2>8, <2>9, <2>10, Zenon DEF Picks
  <2>12. QED BY <1>3, <2>1, <2>11
<1>4. CASE k + 1 \notin p
  <2>1. g \in [1 .. Len(q) -> 1 .. k + 1]
    OBVIOUS
  <2>2. \A i \in 1 .. k + 1 : i \in p => i \in 1 .. k
    BY <1>4
  <2>3. \A i \in 1 .. k + 1 : i \in p => \E a \in 1 .. Len(q) : g[a] = i
    BY <1>1, <2>2
  <2>4. Picks(q, s, p, k + 1)
    BY <1>1, <2>1, <2>3, Zenon DEF Picks
  <2>5. QED BY <1>4, <2>4
<1>5. QED BY <1>2, <1>3, <1>4

LEMMA LoopPicks ==
  ASSUME NEW S, NEW s \in Seq(S), NEW p \in SUBSET (1 .. Len(s)), NEW f, IsLoop(f, s, p)
  PROVE  f[Len(s)] \in Seq(S) /\ Picks(f[Len(s)], s, p, Len(s))
<1> DEFINE Good(k) == f[k] \in Seq(S) /\ Picks(f[k], s, p, k)
           T == {k \in Nat : k <= Len(s) => Good(k)}
<1>1. /\ f[0] = <<>>
      /\ \A i \in 1 .. Len(s) : f[i] = IF i \in p THEN Append(f[i - 1], s[i]) ELSE f[i - 1]
  BY DEF IsLoop
<1>2. Good(0)
  <2>1. f[0] \in Seq(S) /\ Len(f[0]) = 0
    BY <1>1
  <2>2. PICK g : g = [a \in 1 .. 0 |-> 0]
    OBVIOUS
  <2>3. \A i \in 1 .. 0 : FALSE
    OBVIOUS
  <2>4. g \in [1 .. Len(f[0]) -> 1 .. 0]
    BY <2>1, <2>2, <2>3
  <2>5. Picks(f[0], s, p, 0)
    BY <2>1, <2>3, <2>4 DEF Picks
  <2>6. QED BY <2>1, <2>5
<1>3. ASSUME NEW k \in Nat, k + 1 <= Len(s), Good(k) PROVE Good(k + 1)
  <2>1. k + 1 \in 1 .. Len(s) /\ (k + 1) - 1 = k /\ s[k + 1] \in S
    BY <1>3
  <2>2. f[k + 1] = IF k + 1 \in p THEN Append(f[k], s[k + 1]) ELSE f[k]
    BY <1>1, <2>1
  <2>3. PICK q : q = f[k]
    OBVIOUS
  <2>4. q \in Seq(S) /\ Picks(q, s, p, k)
    BY <1>3, <2>3
  <2>5. IF k + 1 \in p THEN Picks(Append(q, s[k + 1]), s, p, k + 1) ELSE Picks(q, s, p, k + 1)
    BY <1>3, <2>4, PickNext
  <2>6. CASE k + 1 \in p
    <3>1. f[k + 1] = Append(q, s[k + 1])
      BY <2>2, <2>3, <2>6
    <3>2. Append(q, s[k + 1]) \in Seq(S)
      BY ONLY <2>1, <2>4
    <3>3. QED BY <2>5, <2>6, <3>1, <3>2
  <2>7. CASE k + 1 \notin p
    <3>1. f[k + 1] = q
      BY <2>2, <2>3, <2>7
    <3>2. QED BY <2>4, <2>5, <2>7, <3>1
  <2>8. QED BY <2>6, <2>7
<1>4. Len(s) \in T
  <2> HIDE DEF Good
  <2>1. 0 \in T /\ \A k \in Nat : k \in T => k + 1 \in T
    BY <1>2, <1>3
  <2> HIDE DEF T
  <2>2. Nat \subseteq T
    BY <2>1, Induction
  <2>3. QED BY <2>2
<1>5. QED BY <1>4

(* A cache after samples were dropped at its head.                         *)
TailOf(d, s) == \E k \in 1 .. Len(s) + 1 : d = DropUntil(s, k)

LEMMA Dropped ==
  ASSUME NEW S, NEW s \in Seq(S), NEW d, NEW k \in 1 .. Len(s) + 1, d = DropUntil(s, k)
  PROVE  /\ d \in Seq(S) /\ Len(d) = Len(s) - k + 1 /\ TailOf(d, s)
         /\ \A i \in 1 .. Len(d) : i + k - 1 \in k .. Len(s) /\ d[i] = s[i + k - 1]
         /\ \A i \in k .. Len(s) : i - k + 1 \in 1 .. Len(d) /\ d[i - k + 1] = s[i]
<1>1. /\ d \in Seq(S) /\ Len(d) = Len(s) - k + 1
      /\ \A i \in 1 .. Len(s) - k + 1 : d[i] = s[i + k - 1]
  BY DEF DropUntil
<1>2. \A i \in 1 .. Len(d) : i + k - 1 \in k .. Len(s) /\ d[i] = s[i + k - 1]
  BY <1>1
<1>3. ASSUME NEW i \in k .. Len(s) PROVE i - k + 1 \in 1 .. Len(d) /\ d[i - k + 1] = s[i]
  <2>1. i - k + 1 \in 1 .. Len(d) /\ (i - k + 1) + k - 1 = i
    BY <1>1
  <2>2. QED BY <1>2, <2>1
<1>4. QED BY <1>1, <1>2, <1>3 DEF TailOf

LEMMA DroppedLen ==
  ASSUME NEW S, NEW s \in Seq(S), NEW k \in 1 .. Len(s) + 1
  PROVE  Len(DropUntil(s, k)) = Len(s) - k + 1
BY Dropped

LEMMA TailRefl == ASSUME NEW S, NEW s \in Seq(S) PROVE TailOf(s, s)
<1>1. 1 \in 1 .. Len(s) + 1
  OBVIOUS
<1>2. DropUntil(s, 1) = s
  BY DEF DropUntil
<1>3. QED BY <1>1, <1>2 DEF TailOf

LEMMA TailTrans ==
  ASSUME NEW S, NEW s \in Seq(S), NEW d, NEW e, TailOf(d, s), TailOf(e, d)
  PROVE  TailOf(e, s)
<1>0. s \in Seq(S)
  OBVIOUS
<1>1. PICK k \in 1 .. Len(s) + 1 : d = DropUntil(s, k)
  BY DEF TailOf
<1>2. /\ d \in Seq(S) /\ Len(d) = Len(s) - k + 1
      /\ \A i \in 1 .. Len(d) : i + k - 1 \in k .. Len(s) /\ d[i] = s[i + k - 1]
  <2>1. d \in Seq(S) BY <1>1, Dropped
  <2>2. Len(d) = Len(s) - k + 1 BY <1>1, Dropped
  <2>3. \A i \in 1 .. Len(d) : i + k - 1 \in k .. Len(s) /\ d[i] = s[i + k - 1]
    BY <1>1, Dropped
  <2>4. QED BY <2>1, <2>2, <2>3
<1>3. PICK m \in 1 .. Len(d) + 1 : e = DropUntil(d, m)
  BY DEF TailOf
<1>4. /\ e \in Seq(S) /\ Len(e) = Len(d) - m + 1
      /\ \A i \in 1 .. Len(e) : i + m - 1 \in m .. Len(d) /\ e[i] = d[i + m - 1]
  <2>1. d \in Seq(S) /\ m \in 1 .. Len(d) + 1 /\ e = DropUntil(d, m)
    BY <1>2, <1>3
  <2>2. e \in Seq(S) BY ONLY <2>1, Dropped
  <2>3. Len(e) = Len(d) - m + 1
    <3>1. Len(DropUntil(d, m)) = Len(d) - m + 1
      BY ONLY <2>1, DroppedLen
    <3>2. QED BY ONLY <2>1, <3>1
  <2>4. \A i \in 1 .. Len(e) : i + m - 1 \in m .. Len(d) /\ e[i] = d[i + m - 1]
    BY ONLY <2>1, Dropped
  <2>5. QED BY ONLY <2>2, <2>3, <2>4
<1>5. PICK j \in 1 .. Len(s) + 1 : j = k + m - 1
  BY <1>2
<1>6. PICK x : x = DropUntil(s, j)
  OBVIOUS
<1>7. /\ x \in Seq(S) /\ Len(x) = Len(s) - j + 1
      /\ \A i \in 1 .. Len(x) : i + j - 1 \in j .. Len(s) /\ x[i] = s[i + j - 1]
  BY <1>6, Dropped
<1>8. Len(x) = Len(e)
  BY <1>2, <1>4, <1>5, <1>7
<1>9. ASSUME NEW i \in 1 .. Len(e) PROVE x[i] = e[i]
  <2>1. i + m - 1 \in 1 .. Len(d) /\ (i + m - 1) + k - 1 = i + j - 1
    BY <1>4, <1>5
  <2>2. QED BY <1>2, <1>4, <1>7, <1>8, <2>1
<1>10. x = e
  BY <1>4, <1>7, <1>8, <1>9
<1>11. QED BY <1>5, <1>6, <1>10 DEF TailOf

LEMMA NoTimeIsNat == NoTime \in Nat /\ MaxSamples \in Nat
BY EventRecorderAssumption DEF NoTime

LEMMA SampleFields ==
  ASSUME NEW x \in Samples
  PROVE  /\ x.rt \in Nat /\ x.rt <= NoTime /\ x.serial \in Nat /\ x.serial <= MaxSamples
         /\ x.key \in BOOLEAN /\ x.written \in BOOLEAN
BY NoTimeIsNat DEF Samples, Time

(* The limits of a cache.                                                  *)

LEMMA FitsEmpty == Fits(<<>>)
<1>1. {i \in DOMAIN <<>> : IsKey(<<>>[i])} = {} /\ Len(<<>>) = 0
  OBVIOUS
<1>2. Bytes(<<>>) = 0
  BY <1>1, FS_EmptySet DEF Bytes
<1>3. QED BY <1>1, <1>2, EventRecorderAssumption DEF Fits

\* c is within the limits when s is.
Lighter(c, s) == Fits(s) => Fits(c)

\* It is when c is a tail of s, but for what is written.
LEMMA TailLighter ==
  ASSUME NEW s \in Seq(Samples), NEW c \in Seq(Samples), NEW k \in 1 .. Len(s) + 1,
         Len(c) = Len(s) - k + 1,
         \A i \in 1 .. Len(c) : c[i].key = s[i + k - 1].key
  PROVE  Lighter(c, s)
<1>1. PICK n \in Nat, m \in Nat : n = Len(s) /\ m = Len(c)
  OBVIOUS
<1>2. m = n - k + 1 /\ k \in 1 .. n + 1 /\ m <= n
  BY <1>1
<1>3. PICK I, J : I = {i \in 1 .. m : c[i].key} /\ J = {i \in 1 .. n : s[i].key}
  OBVIOUS
<1>4. Bytes(c) = m + Cardinality(I) /\ Bytes(s) = n + Cardinality(J)
  <2>1. DOMAIN c = 1 .. m /\ DOMAIN s = 1 .. n
    BY <1>1
  <2>2. QED BY <1>1, <1>3, <2>1 DEF Bytes, IsKey
<1>5. IsFiniteSet(I) /\ IsFiniteSet(J)
  <2>1. IsFiniteSet(1 .. m) /\ IsFiniteSet(1 .. n)
    <3>1. ASSUME NEW a \in Nat PROVE IsFiniteSet(1 .. a)
      <4>1. 1 \in Int /\ a \in Int
        OBVIOUS
      <4>2. QED BY ONLY <4>1, FS_Interval, Zenon
    <3>2. QED BY ONLY <3>1, n \in Nat, m \in Nat
  <2>2. I \subseteq 1 .. m /\ J \subseteq 1 .. n
    BY <1>3
  <2>3. QED BY ONLY <2>1, <2>2, FS_Subset
<1>6. PICK h : h = [i \in I |-> i + k - 1]
  OBVIOUS
<1>7. h \in [I -> J] /\ \A i, j \in I : h[i] = h[j] => i = j
  <2>1. ASSUME NEW i \in I PROVE i \in Nat /\ i + k - 1 \in J /\ h[i] = i + k - 1
    <3>1. i \in 1 .. m /\ c[i].key /\ c[i].key = s[i + k - 1].key
      BY <1>1, <1>3
    <3>2. i + k - 1 \in 1 .. n
      BY <1>2, <3>1
    <3>3. QED BY <1>3, <1>6, <3>1, <3>2
  <2>2. QED BY <1>2, <1>6, <2>1
<1>8. Cardinality(I) <= Cardinality(J)
  <2>1. h \in Injection(I, J)
    BY <1>7 DEF Injection, IsInjective
  <2>2. QED BY ONLY <1>5, <2>1, FS_Injection
<1>9. Cardinality(I) \in Nat /\ Cardinality(J) \in Nat
  BY <1>5, FS_CardinalityType
<1>10. Bytes(c) <= Bytes(s) /\ Bytes(c) \in Nat /\ Bytes(s) \in Nat
  BY ONLY <1>2, <1>4, <1>8, <1>9, n \in Nat, m \in Nat
<1>11. Len(c) <= Len(s)
  BY ONLY <1>1, <1>2
<1>12. PICK a \in Nat, b \in Nat : a = Bytes(c) /\ b = Bytes(s) /\ a <= b
  BY ONLY <1>10
<1>13. ASSUME Fits(s) PROVE Fits(c)
  <2>1. MaxBuffers > 0 => m <= MaxBuffers
    BY <1>1, <1>2, <1>13, EventRecorderAssumption DEF Fits
  <2>2. MaxBytes > 0 => a <= MaxBytes
    BY ONLY <1>12, <1>13, EventRecorderAssumption, a \in Nat, b \in Nat DEF Fits
  <2>3. QED BY ONLY <1>1, <1>12, <2>1, <2>2 DEF Fits
<1>14. QED BY <1>13 DEF Lighter

\* Only the keys count.
LEMMA SameLighter ==
  ASSUME NEW s \in Seq(Samples), NEW c \in Seq(Samples), Len(c) = Len(s),
         \A i \in 1 .. Len(s) : c[i].key = s[i].key
  PROVE  Lighter(c, s)
<1>1. 1 \in 1 .. Len(s) + 1 /\ Len(c) = Len(s) - 1 + 1
  OBVIOUS
<1>2. \A i \in 1 .. Len(c) : c[i].key = s[i + 1 - 1].key
  OBVIOUS
<1>3. QED BY ONLY <1>1, <1>2, s \in Seq(Samples), c \in Seq(Samples), TailLighter

(* What the element's own pruning leaves.                                  *)

LEMMA IdleGopDrops ==
  ASSUME NEW s \in Seq(Samples)
  PROVE  TailOf(PruneIdleGop(s), s)
<1> DEFINE I == {i \in 1 .. Len(s) : s[i].key}
<1>1. SelectInSeq(s, IsKey) = IF I # {} THEN Min(I) ELSE 0
  BY DEF SelectInSeq, IsKey
<1>2. I # {} => Min(I) \in I
  <2>1. I \in SUBSET Nat
    OBVIOUS
  <2> HIDE DEF I
  <2>2. QED BY <2>1, MinOf
<1>3. Greater(SelectInSeq(s, IsKey), 1) \in 1 .. Len(s) + 1
  BY <1>1, <1>2 DEF Greater
<1>4. QED BY <1>3 DEF PruneIdleGop, TailOf

LEMMA LimitsDrop ==
  ASSUME NEW s \in Seq(Samples), NEW rt \in Time
  PROVE  \E k \in 1 .. Len(s) + 1 :
           /\ PruneLimits(s, rt) = DropUntil(s, k)
           /\ Fits(DropUntil(s, k))
<1> USE EventRecorderAssumption
<1> DEFINE n == Len(s)
           Over(i) == /\ i <= n
                      /\ (IsValid(rt) /\ s[i].rt < Minus(rt, MaxCache)) \/ ~Fits(DropUntil(s, i))
           First(i) == SelectInSubSeq(s, i, n, IsKey)
           Next2(i) == LET Later(x) == x.key /\ x.rt > s[First(i)].rt
                       IN  IF First(i) = 0 THEN 0 ELSE SelectInSubSeq(s, First(i), n, Later)
<1>1. n \in Nat
  OBVIOUS
<1>2. ASSUME NEW i \in 1 .. n PROVE Next2(i) \in {0} \cup (i + 1 .. n)
  <2> DEFINE I == {j \in i .. n : s[j].key}
  <2>1. First(i) = IF I # {} THEN Min(I) ELSE 0
    BY DEF SelectInSubSeq, IsKey
  <2>2. I \in SUBSET Nat
    OBVIOUS
  <2>3. First(i) = 0 \/ First(i) \in i .. n
    <3>1. I \subseteq i .. n
      OBVIOUS
    <3> HIDE DEF I
    <3>2. QED BY <2>1, <2>2, <3>1, MinOf
  <2>4. CASE First(i) = 0
    BY <2>4
  <2>5. CASE First(i) # 0
    <3>1. PICK a \in i .. n : a = First(i)
      BY <2>3, <2>5
    <3> DEFINE J == {j \in a .. n : s[j].key /\ s[j].rt > s[a].rt}
    <3>2. Next2(i) = IF J # {} THEN Min(J) ELSE 0
      BY <3>1, <2>5 DEF SelectInSubSeq
    <3>3. J \in SUBSET Nat /\ a \notin J /\ J \subseteq a .. n
      <4>1. s[a] \in Samples
        BY <3>1
      <4>2. ~(s[a].rt > s[a].rt)
        BY <4>1, SampleFields
      <4>3. QED BY <3>1, <4>2
    <3>4. J # {} => Min(J) \in i + 1 .. n
      <4> HIDE DEF J
      <4>1. J # {} => Min(J) \in J
        BY <3>3, MinOf
      <4>2. ASSUME NEW b \in J PROVE b \in i + 1 .. n
        BY <3>1, <3>3
      <4>3. QED BY <4>1, <4>2
    <3>5. QED BY <3>2, <3>4
  <2>6. QED BY <2>4, <2>5
<1> DEFINE Hop(i) == IF Next2(i) # 0 THEN Next2(i) ELSE i + 1
<1>3. \A i \in 1 .. n : Hop(i) \in i + 1 .. n + 1
  <2> HIDE DEF Next2
  <2>1. QED BY <1>1, <1>2
<1>4. /\ \A i \in 1 .. n + 1 : Over(i) \in BOOLEAN
      /\ ~Over(n + 1)
  BY <1>1
<1>5. PICK over : over = {i \in 1 .. n : Over(i)}
  OBVIOUS
<1>6. PICK hop : hop = [i \in over |-> Hop(i)]
  OBVIOUS
<1>7. over \in SUBSET (1 .. n) /\ \A i \in 1 .. n + 1 : i \in over <=> Over(i)
  <2> HIDE DEF Over
  <2>1. \A i \in 1 .. n + 1 : i = n + 1 \/ i \in 1 .. n
    BY <1>1
  <2>2. QED BY <1>1, <1>4, <1>5, <2>1
<1>8. hop \in [over -> Int] /\ \A i \in over : hop[i] \in i + 1 .. n + 1 /\ hop[i] = Hop(i)
  <2> HIDE DEF Over, Hop, n
  <2>1. ASSUME NEW i \in over PROVE hop[i] \in i + 1 .. n + 1 /\ hop[i] = Hop(i) /\ Hop(i) \in Int
    BY <1>1, <1>3, <1>6, <1>7
  <2>2. QED BY <1>6, <2>1
<1>9. PICK f : /\ f = [i \in 1 .. n + 1 |-> IF ~Over(i) THEN i ELSE f[Hop(i)]]
               /\ PruneLimits(s, rt) = DropUntil(s, f[1])
  <2>1. \E g : /\ g = [i \in 1 .. n + 1 |-> g[i]]
               /\ \A i \in 1 .. n + 1 : g[i] = IF i \notin over THEN i ELSE g[hop[i]]
    <3> HIDE DEF Over, Hop, n
    <3>1. \A i \in over : hop[i] \in i + 1 .. n + 1
      BY <1>8
    <3>2. over \in SUBSET (1 .. n) /\ hop \in [over -> Int]
      BY <1>7, <1>8
    <3>3. QED BY ONLY <1>1, <3>1, <3>2, Hops
  <2>2. PICK g : /\ g = [i \in 1 .. n + 1 |-> g[i]]
                 /\ \A i \in 1 .. n + 1 : g[i] = IF i \notin over THEN i ELSE g[hop[i]]
    BY <2>1
  <2>3. \A i \in 1 .. n + 1 : g[i] = IF ~Over(i) THEN i ELSE g[Hop(i)]
    <3> HIDE DEF Over, Hop, n
    <3>1. QED BY <1>7, <1>8, <2>2
  <2>4. g = [i \in 1 .. n + 1 |-> IF ~Over(i) THEN i ELSE g[Hop(i)]]
    <3> HIDE DEF Over, Hop, n
    <3>1. QED BY <2>2, <2>3
  <2>5. \E f : f = [i \in 1 .. n + 1 |-> IF ~Over(i) THEN i ELSE f[Hop(i)]]
    BY <2>4
  <2>6. QED BY <2>5 DEF PruneLimits
<1>10. f[1] \in 1 .. n + 1 /\ ~Over(f[1])
  <2> HIDE DEF Over, Hop, n
  <2>1. \A i \in 1 .. n + 1 : f[i] = IF i \notin over THEN i ELSE f[hop[i]]
    BY <1>7, <1>8, <1>9
  <2>2. \A i \in over : hop[i] \in i + 1 .. n + 1
    BY <1>8
  <2>3. f[1] \in 1 .. n + 1 /\ f[1] \notin over
    <3>1. over \in SUBSET (1 .. n) /\ hop \in [over -> Int]
      BY <1>7, <1>8
    <3>0. PICK x : x = f
      OBVIOUS
    <3>2. PICK m \in Nat : m = n
      BY <1>1
    <3>3. /\ over \in SUBSET (1 .. m) /\ hop \in [over -> Int]
          /\ \A i \in over : hop[i] \in i + 1 .. m + 1
          /\ \A i \in 1 .. m + 1 : x[i] = IF i \notin over THEN i ELSE x[hop[i]]
      BY ONLY <2>1, <2>2, <3>0, <3>1, <3>2
    <3>4. x[1] \in 1 .. m + 1 /\ x[1] \notin over
      BY ONLY m \in Nat, <3>3, HopsEnd
    <3>5. QED BY ONLY <3>0, <3>2, <3>4
  <2>4. QED BY <1>7, <2>3
<1>11. Fits(DropUntil(s, f[1]))
  <2>1. PICK m \in 1 .. n + 1 : m = f[1] /\ ~Over(m)
    <3> HIDE DEF Over, n
    <3>1. QED BY <1>10
  <2>2. CASE m <= n
    BY <2>1, <2>2
  <2>3. CASE m = n + 1
    <3>1. DropUntil(s, m) = <<>>
      BY <1>1, <2>3 DEF DropUntil
    <3>2. QED BY <2>1, <3>1, FitsEmpty
  <2>4. QED BY <1>1, <2>1, <2>2, <2>3
<1>12. QED BY <1>9, <1>10, <1>11

LEMMA ActiveDrops ==
  ASSUME NEW t, NEW s \in Seq(Samples), NEW retain, NEW rt
  PROVE  \E k \in 1 .. Len(s) + 1 : /\ PruneActive(t, s, retain, rt) = DropUntil(s, k)
                                    /\ \A i \in 1 .. k - 1 : s[i].written
<1> DEFINE retainNs == (IF retain < 0 THEN MaxCache ELSE retain) + GopMargin(t, s)
           minKeep  == IF retainNs > 0 THEN Minus(rt, retainNs) ELSE 0
           Keep(x)  == ~x.written \/ x.rt >= minKeep
           I == {i \in 1 .. Len(s) : Keep(s[i])}
<1>1. PruneActive(t, s, retain, rt) = IF I = {} \/ Min(I) = 0 THEN <<>> ELSE DropUntil(s, Min(I))
  BY DEF PruneActive, SelectInSeq
<1>2. I \in SUBSET Nat /\ I \subseteq 1 .. Len(s)
  OBVIOUS
<1>3. \A i \in 1 .. Len(s) : i \notin I => s[i].written
  OBVIOUS
<1> HIDE DEF I
<1>4. CASE I # {}
  <2>1. Min(I) \in I /\ \A y \in I : Min(I) <= y
    BY <1>2, <1>4, MinOf
  <2>2. PICK m \in 1 .. Len(s) : m = Min(I)
    BY <1>2, <2>1
  <2>3. ASSUME NEW i \in 1 .. m - 1 PROVE i \in 1 .. Len(s) /\ i \notin I
    BY <2>1, <2>2
  <2>4. m \in 1 .. Len(s) + 1 /\ m # 0 /\ \A i \in 1 .. m - 1 : s[i].written
    BY <1>3, <2>3
  <2>5. QED BY <1>1, <1>4, <2>2, <2>4
<1>5. CASE I = {}
  <2>1. DropUntil(s, Len(s) + 1) = <<>>
    BY DEF DropUntil
  <2>2. Len(s) + 1 \in 1 .. Len(s) + 1 /\ \A i \in 1 .. (Len(s) + 1) - 1 : s[i].written
    BY <1>3, <1>5
  <2>3. QED BY <1>1, <1>5, <2>1, <2>2
<1>6. QED BY <1>4, <1>5

(* What the push of a track leaves in its cache and appends to its file.   *)

Marked(r, t, upto, s) ==
  [i \in DOMAIN s |-> [s[i] EXCEPT !.written = @ \/ Pending(r, t, upto, s[i])]]

PushedAs(r, t, upto, s, q) ==
  PushTrack(r, t, upto) =
    IF q = <<>> THEN [cache |-> s, file |-> r.file[t]]
    ELSE [cache |-> PruneActive(t, Marked(r, t, upto, s), r.window.retain, upto),
          file  |-> r.file[t] \o q]

LEMMA LoopPushed ==
  ASSUME NEW r, NEW t, NEW upto, NEW s \in Seq(Samples), s = r.cache[t],
         NEW P, P = {i \in 1 .. Len(s) : Pending(r, t, upto, s[i])}
  PROVE  \E q \in Seq(Samples) :
           /\ Picks(q, s, P, Len(s))
           /\ PushedAs(r, t, upto, s, q)
<1> DEFINE IsPushed(x) == Pending(r, t, upto, x)
<1>1. P \in SUBSET (1 .. Len(s)) /\ \A i \in 1 .. Len(s) : i \in P <=> IsPushed(s[i])
  OBVIOUS
<1>2. PICK f : f = [i \in 0 .. Len(s) |->
                 IF i = 0 THEN <<>>
                 ELSE IF IsPushed(s[i]) THEN Append(f[i - 1], s[i]) ELSE f[i - 1]]
               /\ Pushed(s, IsPushed) = f[Len(s)]
  <2>1. PICK g : IsLoop(g, s, P)
    <3>1. s \in Seq(Samples) /\ P \in SUBSET (1 .. Len(s))
      BY <1>1
    <3>2. QED BY ONLY <3>1, Loop
  <2> HIDE DEF IsPushed
  <2>2. \A i \in 0 .. Len(s) :
          g[i] = IF i = 0 THEN <<>>
                 ELSE IF IsPushed(s[i]) THEN Append(g[i - 1], s[i]) ELSE g[i - 1]
    <3>1. \A i \in 0 .. Len(s) : i = 0 \/ i \in 1 .. Len(s)
      OBVIOUS
    <3>2. QED BY <1>1, <2>1, <3>1 DEF IsLoop
  <2>3. g = [i \in 0 .. Len(s) |->
                 IF i = 0 THEN <<>>
                 ELSE IF IsPushed(s[i]) THEN Append(g[i - 1], s[i]) ELSE g[i - 1]]
    BY <2>1, <2>2 DEF IsLoop
  <2>4. \E f : f = [i \in 0 .. Len(s) |->
                 IF i = 0 THEN <<>>
                 ELSE IF IsPushed(s[i]) THEN Append(f[i - 1], s[i]) ELSE f[i - 1]]
    BY <2>3
  <2>5. QED BY <2>4 DEF Pushed
<1>3. PICK q : q = f[Len(s)]
  OBVIOUS
<1>4. q \in Seq(Samples) /\ Picks(q, s, P, Len(s))
  <2> HIDE DEF IsPushed
  <2>1. IsLoop(f, s, P)
    <3>1. \A i \in 0 .. Len(s) : i = 0 \/ i \in 1 .. Len(s)
      OBVIOUS
    <3>2. QED BY <1>1, <1>2, <3>1 DEF IsLoop
  <2>2. s \in Seq(Samples) /\ P \in SUBSET (1 .. Len(s))
    BY <1>1
  <2>3. f[Len(s)] \in Seq(Samples) /\ Picks(f[Len(s)], s, P, Len(s))
    BY ONLY <2>1, <2>2, LoopPicks
  <2>4. QED BY <1>3, <2>3
<1>5. Pushed(r.cache[t], IsPushed) = q
  BY <1>2, <1>3
<1>6. PushedAs(r, t, upto, s, q)
  BY <1>5 DEF PushTrack, PushedAs, Marked
<1>7. QED BY <1>4, <1>6

(* c and g are the cache s and the file f of a track after a push: the     *)
(* samples P, s[h[a]] the a-th of them, are written, and the first k - 1    *)
(* samples, all of them written, are dropped.                              *)
Pushes(s, f, c, g, P, k, q, h) ==
  /\ c \in Seq(Samples) /\ Len(c) = Len(s) - k + 1
  /\ \A i \in 1 .. Len(c) : LET x == s[i + k - 1] IN
       /\ i + k - 1 \in 1 .. Len(s)
       /\ c[i].rt = x.rt /\ c[i].serial = x.serial /\ c[i].key = x.key
       /\ c[i].written <=> x.written \/ i + k - 1 \in P
  /\ \A i \in 1 .. k - 1 : s[i].written \/ i \in P
  /\ q \in Seq(Samples) /\ g = f \o q
  /\ h \in [1 .. Len(q) -> 1 .. Len(s)]
  /\ \A a, b \in 1 .. Len(q) : a < b => h[a] < h[b]
  /\ \A a \in 1 .. Len(q) : h[a] \in P /\ q[a] = s[h[a]]
  /\ \A i \in 1 .. Len(s) : i \in P => \E a \in 1 .. Len(q) : h[a] = i

PushResult(r, t, upto, s, P, k, q, h) ==
  LET p == PushTrack(r, t, upto) IN
  \/ Pushes(s, r.file[t], p.cache, p.file, P, k, q, h)
  \/ q = <<>> /\ p.cache = s /\ p.file = r.file[t] /\ P = {}

LEMMA PushShape ==
  ASSUME NEW r, NEW t, NEW upto, NEW s \in Seq(Samples), s = r.cache[t],
         NEW P, P = {i \in 1 .. Len(s) : Pending(r, t, upto, s[i])}
  PROVE  \E k \in 1 .. Len(s) + 1 : \E q, h : PushResult(r, t, upto, s, P, k, q, h)
<1> DEFINE IsPushed(x) == Pending(r, t, upto, x)
           marked == Marked(r, t, upto, s)
<1>1. PICK q \in Seq(Samples) :
        /\ Picks(q, s, P, Len(s))
        /\ PushedAs(r, t, upto, s, q)
  BY LoopPushed
<1>2. PICK h \in [1 .. Len(q) -> 1 .. Len(s)] :
        /\ \A a, b \in 1 .. Len(q) : a < b => h[a] < h[b]
        /\ \A a \in 1 .. Len(q) : h[a] \in P /\ q[a] = s[h[a]]
        /\ \A i \in 1 .. Len(s) : i \in P => \E a \in 1 .. Len(q) : h[a] = i
  BY <1>1 DEF Picks
<1> HIDE DEF IsPushed
<1>3. /\ \A i \in 1 .. Len(s) : i \in P <=> IsPushed(s[i])
      /\ P \subseteq 1 .. Len(s)
  BY DEF IsPushed
<1>4. /\ marked \in Seq(Samples) /\ Len(marked) = Len(s)
      /\ \A i \in 1 .. Len(s) : /\ marked[i].rt = s[i].rt /\ marked[i].serial = s[i].serial
                                /\ marked[i].key = s[i].key
                                /\ marked[i].written <=> s[i].written \/ i \in P
  <2>1. DOMAIN s = 1 .. Len(s) /\ Len(s) \in Nat
    OBVIOUS
  <2>2. ASSUME NEW i \in 1 .. Len(s)
        PROVE  /\ marked[i] \in Samples
               /\ marked[i].rt = s[i].rt /\ marked[i].serial = s[i].serial
               /\ marked[i].key = s[i].key
               /\ marked[i].written <=> s[i].written \/ i \in P
    <3>1. PICK x \in Samples : x = s[i]
      OBVIOUS
    <3>2. PICK w \in BOOLEAN : w <=> x.written \/ IsPushed(x)
      OBVIOUS
    <3>3. marked[i] = [x EXCEPT !.written = x.written \/ IsPushed(x)]
      BY <2>1, <3>1 DEF Marked, IsPushed
    <3>4. (x.written \/ IsPushed(x)) = w
      BY <3>2, Zenon
    <3>5. marked[i] = [x EXCEPT !.written = w]
      BY <3>3, <3>4
    <3> HIDE DEF marked
    <3>6. /\ marked[i] \in Samples /\ marked[i].rt = x.rt /\ marked[i].serial = x.serial
          /\ marked[i].key = x.key /\ marked[i].written = w
      BY <3>5 DEF Samples
    <3>7. QED BY <1>3, <3>1, <3>2, <3>6
  <2>3. marked = [i \in 1 .. Len(s) |-> marked[i]]
    BY <2>1 DEF Marked
  <2> HIDE DEF marked
  <2>4. marked \in Seq(Samples)
    <3>1. \A i \in 1 .. Len(s) : marked[i] \in Samples
      BY <2>2
    <3>2. marked \in [1 .. Len(s) -> Samples]
      BY <2>3, <3>1
    <3>3. QED BY <2>1, <3>2, IsSeq
  <2>5. Len(marked) = Len(s)
    BY <2>1, <2>3, <2>4
  <2>6. QED BY <2>2, <2>4, <2>5
<1>5. CASE q = <<>>
  <2>1. P = {}
    BY <1>2, <1>3, <1>5
  <2>2. PushTrack(r, t, upto).cache = s /\ PushTrack(r, t, upto).file = r.file[t]
    BY <1>1, <1>5 DEF PushedAs
  <2>3. 1 \in 1 .. Len(s) + 1
    OBVIOUS
  <2>4. QED BY <1>5, <2>1, <2>2, <2>3 DEF PushResult
<1>6. CASE q # <<>>
  <2>1. /\ PushTrack(r, t, upto).cache = PruneActive(t, marked, r.window.retain, upto)
        /\ PushTrack(r, t, upto).file = r.file[t] \o q
    BY <1>1, <1>6 DEF PushedAs
  <2> HIDE DEF marked
  <2>2. PICK k \in 1 .. Len(marked) + 1 :
          /\ PruneActive(t, marked, r.window.retain, upto) = DropUntil(marked, k)
          /\ \A i \in 1 .. k - 1 : marked[i].written
    BY <1>4, ActiveDrops
  <2>3. PICK d : d = DropUntil(marked, k)
    OBVIOUS
  <2>4. /\ d \in Seq(Samples) /\ Len(d) = Len(marked) - k + 1
        /\ \A i \in 1 .. Len(d) : i + k - 1 \in k .. Len(marked) /\ d[i] = marked[i + k - 1]
    <3>1. marked \in Seq(Samples)
      BY <1>4
    <3>2. QED BY <2>2, <2>3, <3>1, Dropped
  <2>5. k \in 1 .. Len(s) + 1 /\ Len(s) \in Nat
    BY <1>4, <2>2
  <2>6. \A i \in 1 .. Len(d) : LET x == s[i + k - 1] IN
          /\ i + k - 1 \in 1 .. Len(s)
          /\ d[i].rt = x.rt /\ d[i].serial = x.serial /\ d[i].key = x.key
          /\ d[i].written <=> x.written \/ i + k - 1 \in P
    <3>1. SUFFICES ASSUME NEW i \in 1 .. Len(d), NEW j, j = i + k - 1
                   PROVE  /\ j \in 1 .. Len(s)
                          /\ d[i].rt = s[j].rt /\ d[i].serial = s[j].serial /\ d[i].key = s[j].key
                          /\ d[i].written <=> s[j].written \/ j \in P
      OBVIOUS
    <3>2. j \in 1 .. Len(s) /\ d[i] = marked[j]
      BY <1>4, <2>4, <2>5, <3>1
    <3>3. QED BY <1>4, <3>2
  <2>7. \A i \in 1 .. k - 1 : s[i].written \/ i \in P
    BY <1>4, <2>2, <2>5
  <2>8. Pushes(s, r.file[t], d, r.file[t] \o q, P, k, q, h)
    BY <1>1, <1>2, <1>4, <2>4, <2>6, <2>7 DEF Pushes
  <2>9. QED BY <2>1, <2>2, <2>3, <2>5, <2>8 DEF PushResult
<1>7. QED BY <1>5, <1>6

(* The invariant, track by track: s is the cache of t, f its part of the   *)
(* file and l its last running time; no serial is above n.                 *)

CacheOK(s, l, n) ==
  /\ s \in Seq(Samples)
  /\ \A i \in 1 .. Len(s) : s[i].rt # NoTime /\ s[i].serial <= n
  /\ \A i, j \in 1 .. Len(s) : i < j => s[i].rt <= s[j].rt /\ s[i].serial < s[j].serial
  /\ Len(s) > 0 => l = s[Len(s)].rt

FileOK(f, n) == f \in Seq(Samples) /\ \A a \in 1 .. Len(f) : f[a].serial <= n

Has(f, x) == \E a \in 1 .. Len(f) : f[a].serial = x.serial

Recorded(s, f) == \A i \in 1 .. Len(s) : s[i].written => Has(f, s[i])

InOrder(f) == \A a, b \in 1 .. Len(f) : a < b => f[a].serial < f[b].serial

Ahead(r, t, s, f) ==
  \A i \in 1 .. Len(s) : FromStart(r, t, s[i]) /\ ~s[i].written =>
    \A a \in 1 .. Len(f) : f[a].serial < s[i].serial

StartsKeyed(w, s, f) ==
  IF Len(f) > 0 THEN f[1].key
  ELSE w.open => \E i \in 1 .. Len(s) : s[i].key /\ s[i].serial = w.serial /\ ~s[i].written

TrackOK(r, t, s, f, l, n) ==
  /\ CacheOK(s, l, n) /\ FileOK(f, n)
  /\ Len(s) > 0 => t \in r.caps
  /\ r.window.active /\ ~r.writer.open => Len(f) = 0
  /\ r.writer.open => Recorded(s, f)
  /\ ~switched => InOrder(f)
  /\ r.writer.open /\ ~switched => Ahead(r, t, s, f)
  /\ AlignStart /\ r.keyed /\ ~switched /\ t = primary => StartsKeyed(r.writer, s, f)

(* g is f and then q.                                                      *)
Joined(f, q, g) ==
  /\ g \in Seq(Samples) /\ Len(g) = Len(f) + Len(q)
  /\ \A a \in 1 .. Len(f) : a \in 1 .. Len(g) /\ g[a] = f[a]
  /\ \A b \in 1 .. Len(q) : Len(f) + b \in 1 .. Len(g) /\ g[Len(f) + b] = q[b]
  /\ \A a \in 1 .. Len(g) : a \in 1 .. Len(f) \/ \E b \in 1 .. Len(q) : a = Len(f) + b

LEMMA Concat ==
  ASSUME NEW f \in Seq(Samples), NEW q \in Seq(Samples), NEW g, g = f \o q
  PROVE  Joined(f, q, g)
<1>1. /\ g \in Seq(Samples) /\ Len(g) = Len(f) + Len(q)
      /\ \A i \in 1 .. Len(f) + Len(q) : g[i] = IF i <= Len(f) THEN f[i] ELSE q[i - Len(f)]
  BY ConcatProperties
<1>2. Len(f) \in Nat /\ Len(q) \in Nat
  OBVIOUS
<1>3. \A b \in 1 .. Len(q) : Len(f) + b \in 1 .. Len(g) /\ g[Len(f) + b] = q[b]
  <2>1. SUFFICES ASSUME NEW b \in 1 .. Len(q), NEW a, a = Len(f) + b
                 PROVE  a \in 1 .. Len(g) /\ g[a] = q[b]
    OBVIOUS
  <2>2. a \in 1 .. Len(f) + Len(q) /\ ~(a <= Len(f)) /\ a - Len(f) = b
    BY <1>2, <2>1
  <2>3. QED BY <1>1, <2>2
<1>4. ASSUME NEW a \in 1 .. Len(g)
      PROVE  a \in 1 .. Len(f) \/ \E b \in 1 .. Len(q) : a = Len(f) + b
  <2>1. CASE a > Len(f)
    <3>1. a - Len(f) \in 1 .. Len(q) /\ a = Len(f) + (a - Len(f))
      BY <1>1, <1>2, <2>1
    <3>2. QED BY <3>1
  <2>2. QED BY <1>2, <2>1
<1>5. QED BY <1>1, <1>2, <1>3, <1>4 DEF Joined

LEMMA CacheFields ==
  ASSUME NEW s \in Seq(Samples)
  PROVE  /\ Len(s) \in Nat
         /\ \A i \in 1 .. Len(s) : /\ s[i].rt \in Nat /\ s[i].serial \in Nat /\ s[i].rt <= NoTime
                                   /\ s[i].serial <= MaxSamples /\ s[i] \in Samples
<1>1. \A i \in 1 .. Len(s) : s[i] \in Samples
  OBVIOUS
<1>2. QED BY <1>1, SampleFields

\* Every sample of the cache s is still in the cache c, or it is in the file g.
Survives(s, c, g) ==
  \A i \in 1 .. Len(s) :
    \/ Has(g, s[i])
    \/ \E j \in 1 .. Len(c) : c[j].serial = s[i].serial /\ c[j].rt = s[i].rt

LEMMA PushedCache ==
  ASSUME NEW s, NEW f, NEW c, NEW g, NEW P, NEW k \in 1 .. Len(s) + 1, NEW q, NEW h,
         NEW l, NEW n \in Nat, CacheOK(s, l, n), FileOK(f, n), Recorded(s, f),
         Pushes(s, f, c, g, P, k, q, h)
  PROVE  /\ CacheOK(c, l, n) /\ FileOK(g, n) /\ Lighter(c, s) /\ Recorded(c, g)
         /\ \A i \in 1 .. Len(s) : s[i].written \/ i \in P => Has(g, s[i])
         /\ Survives(s, c, g)
<1>1. /\ s \in Seq(Samples) /\ c \in Seq(Samples) /\ f \in Seq(Samples) /\ q \in Seq(Samples)
      /\ g = f \o q
  BY DEF CacheOK, FileOK, Pushes
<1>2. Len(s) \in Nat /\ Len(c) \in Nat /\ Len(f) \in Nat /\ Len(q) \in Nat
  BY <1>1
<1>3. Len(c) = Len(s) - k + 1 /\ Len(c) <= Len(s)
  BY <1>2 DEF Pushes
<1>4. \A i \in 1 .. Len(c) :
        /\ i + k - 1 \in 1 .. Len(s)
        /\ c[i].rt = s[i + k - 1].rt /\ c[i].serial = s[i + k - 1].serial
        /\ c[i].written <=> s[i + k - 1].written \/ i + k - 1 \in P
  BY DEF Pushes
<1>5. CacheOK(c, l, n)
  <2>1. \A i \in 1 .. Len(s) : s[i].rt # NoTime /\ s[i].serial <= n
    BY DEF CacheOK
  <2>2. \A i, j \in 1 .. Len(s) : i < j => s[i].rt <= s[j].rt /\ s[i].serial < s[j].serial
    BY DEF CacheOK
  <2>3. \A i \in 1 .. Len(c) : c[i].rt # NoTime /\ c[i].serial <= n
    BY <1>4, <2>1
  <2>4. ASSUME NEW i \in 1 .. Len(c), NEW j \in 1 .. Len(c), i < j
        PROVE  c[i].rt <= c[j].rt /\ c[i].serial < c[j].serial
    <3>1. i + k - 1 < j + k - 1
      BY <2>4
    <3>2. QED BY <1>4, <2>2, <3>1
  <2>5. ASSUME Len(c) > 0 PROVE l = c[Len(c)].rt
    <3>1. Len(c) \in 1 .. Len(c) /\ Len(c) + k - 1 = Len(s) /\ Len(s) > 0
      BY <1>2, <1>3, <2>5
    <3>2. QED BY <1>4, <3>1 DEF CacheOK
  <2>6. QED BY <1>1, <2>3, <2>4, <2>5 DEF CacheOK
<1>6. /\ g \in Seq(Samples) /\ Len(g) = Len(f) + Len(q)
      /\ \A a \in 1 .. Len(f) : a \in 1 .. Len(g) /\ g[a] = f[a]
      /\ \A b \in 1 .. Len(q) : Len(f) + b \in 1 .. Len(g) /\ g[Len(f) + b] = q[b]
      /\ \A a \in 1 .. Len(g) : a \in 1 .. Len(f) \/ \E b \in 1 .. Len(q) : a = Len(f) + b
  <2>1. Joined(f, q, g)
    BY <1>1, Concat
  <2>2. QED BY <2>1 DEF Joined
<1>7. \A b \in 1 .. Len(q) : h[b] \in 1 .. Len(s) /\ h[b] \in P /\ q[b] = s[h[b]]
  BY DEF Pushes
<1>8. FileOK(g, n)
  <2>1. ASSUME NEW a \in 1 .. Len(g) PROVE g[a].serial <= n
    <3>1. CASE a \in 1 .. Len(f)
      BY <1>6, <3>1 DEF FileOK
    <3>2. CASE \E b \in 1 .. Len(q) : a = Len(f) + b
      <4>1. PICK b \in 1 .. Len(q) : a = Len(f) + b
        BY <3>2
      <4>2. g[a] = s[h[b]] /\ h[b] \in 1 .. Len(s)
        BY <1>6, <1>7, <4>1
      <4>3. QED BY <4>2 DEF CacheOK
    <3>3. QED BY <1>6, <3>1, <3>2
  <2>2. QED BY <1>6, <2>1 DEF FileOK
<1>9. ASSUME NEW i \in 1 .. Len(s), s[i].written \/ i \in P PROVE Has(g, s[i])
  <2>1. CASE s[i].written
    <3>1. PICK a \in 1 .. Len(f) : f[a].serial = s[i].serial
      BY <2>1 DEF Recorded, Has
    <3>2. QED BY <1>6, <3>1 DEF Has
  <2>2. CASE i \in P
    <3>1. PICK b \in 1 .. Len(q) : h[b] = i
      BY <2>2 DEF Pushes
    <3>2. PICK a \in 1 .. Len(g) : a = Len(f) + b
      BY <1>6
    <3>3. g[a] = s[i]
      BY <1>6, <1>7, <3>1, <3>2
    <3>4. g[a].serial = s[i].serial
      BY ONLY <3>3
    <3>5. QED BY ONLY <3>4, a \in 1 .. Len(g) DEF Has
  <2>3. QED BY <1>9, <2>1, <2>2
<1>10. Recorded(c, g)
  <2>1. SUFFICES ASSUME NEW i \in 1 .. Len(c), c[i].written, NEW j, j = i + k - 1
                 PROVE  Has(g, c[i])
    BY DEF Recorded
  <2>2. j \in 1 .. Len(s) /\ Has(g, s[j]) /\ c[i].serial = s[j].serial
    BY <1>4, <1>9, <2>1
  <2>3. QED BY <2>2 DEF Has
<1>11. ASSUME NEW i \in 1 .. Len(s)
       PROVE  \/ Has(g, s[i])
              \/ \E j \in 1 .. Len(c) : c[j].serial = s[i].serial /\ c[j].rt = s[i].rt
  <2>1. CASE i < k
    <3>1. i \in 1 .. k - 1
      BY <2>1
    <3>2. s[i].written \/ i \in P
      BY <3>1 DEF Pushes
    <3>3. QED BY <1>9, <3>2
  <2>2. CASE i >= k
    <3>1. i - k + 1 \in 1 .. Len(c) /\ (i - k + 1) + k - 1 = i
      BY <1>2, <1>3, <2>2
    <3>2. QED BY <1>4, <3>1
  <2>3. QED BY <2>1, <2>2
<1>12. Lighter(c, s)
  <2>1. \A i \in 1 .. Len(c) : c[i].key = s[i + k - 1].key
    BY DEF Pushes
  <2>2. QED BY ONLY <1>1, <1>3, <2>1, k \in 1 .. Len(s) + 1, TailLighter
<1>13. QED BY <1>5, <1>8, <1>9, <1>10, <1>11, <1>12 DEF Survives

LEMMA PushedOrder ==
  ASSUME NEW r, NEW t, NEW upto \in Nat,
         NEW s, NEW f, NEW c, NEW g, NEW P, NEW k \in 1 .. Len(s) + 1, NEW q, NEW h,
         NEW l, NEW n \in Nat, CacheOK(s, l, n), FileOK(f, n),
         P = {i \in 1 .. Len(s) : Pending(r, t, upto, s[i])},
         InOrder(f), Ahead(r, t, s, f), Pushes(s, f, c, g, P, k, q, h)
  PROVE  InOrder(g) /\ Ahead(r, t, c, g)
<1>1. /\ s \in Seq(Samples) /\ c \in Seq(Samples) /\ f \in Seq(Samples) /\ q \in Seq(Samples)
      /\ g = f \o q
  BY DEF CacheOK, FileOK, Pushes
<1>2. Len(s) \in Nat /\ Len(c) \in Nat /\ Len(f) \in Nat /\ Len(q) \in Nat
  BY <1>1
<1>3. \A i \in 1 .. Len(c) :
        /\ i + k - 1 \in 1 .. Len(s)
        /\ c[i].rt = s[i + k - 1].rt /\ c[i].serial = s[i + k - 1].serial
        /\ c[i].written <=> s[i + k - 1].written \/ i + k - 1 \in P
  BY DEF Pushes
<1>4. /\ g \in Seq(Samples) /\ Len(g) = Len(f) + Len(q)
      /\ \A a \in 1 .. Len(f) : a \in 1 .. Len(g) /\ g[a] = f[a]
      /\ \A b \in 1 .. Len(q) : Len(f) + b \in 1 .. Len(g) /\ g[Len(f) + b] = q[b]
      /\ \A a \in 1 .. Len(g) : a \in 1 .. Len(f) \/ \E b \in 1 .. Len(q) : a = Len(f) + b
  <2>1. Joined(f, q, g)
    BY <1>1, Concat
  <2>2. QED BY <2>1 DEF Joined
<1>5. \A b \in 1 .. Len(q) : h[b] \in 1 .. Len(s) /\ h[b] \in P /\ q[b] = s[h[b]]
  BY DEF Pushes
<1>6. \A a, b \in 1 .. Len(q) : a < b => h[a] < h[b]
  BY DEF Pushes
<1>7. \A i, j \in 1 .. Len(s) : i < j => s[i].rt <= s[j].rt /\ s[i].serial < s[j].serial
  BY DEF CacheOK
<1>8. \A i \in 1 .. Len(s) : /\ s[i].rt \in Nat /\ s[i].serial \in Nat
                             /\ i \in P => /\ FromStart(r, t, s[i]) /\ ~s[i].written
                                           /\ s[i].rt <= upto
  BY <1>1, CacheFields DEF Pending
<1>9. \A b \in 1 .. Len(q), a \in 1 .. Len(f) : f[a].serial < q[b].serial
  BY <1>5, <1>8 DEF Ahead
<1>10. InOrder(g)
  <2>1. SUFFICES ASSUME NEW a \in 1 .. Len(g), NEW b \in 1 .. Len(g), a < b
                 PROVE  g[a].serial < g[b].serial
    BY DEF InOrder
  <2>2. CASE b \in 1 .. Len(f)
    <3>1. a \in 1 .. Len(f)
      BY <1>2, <2>1, <2>2
    <3>2. QED BY <1>4, <2>1, <2>2, <3>1 DEF InOrder
  <2>3. CASE \E x \in 1 .. Len(q) : b = Len(f) + x
    <3>1. PICK x \in 1 .. Len(q) : b = Len(f) + x
      BY <2>3
    <3>2. g[b] = q[x]
      BY <1>4, <3>1
    <3>3. CASE a \in 1 .. Len(f)
      BY <1>4, <1>9, <3>2, <3>3
    <3>4. CASE \E y \in 1 .. Len(q) : a = Len(f) + y
      <4>1. PICK y \in 1 .. Len(q) : a = Len(f) + y
        BY <3>4
      <4>2. g[a] = q[y] /\ y < x
        BY <1>2, <1>4, <2>1, <3>1, <4>1
      <4>3. h[y] < h[x] /\ q[y] = s[h[y]] /\ q[x] = s[h[x]]
        BY <1>5, <1>6, <4>2
      <4>4. h[y] \in 1 .. Len(s) /\ h[x] \in 1 .. Len(s)
        BY <1>5
      <4>5. q[y].serial < q[x].serial
        BY ONLY <1>7, <4>3, <4>4
      <4>6. QED BY <3>2, <4>2, <4>5
    <3>5. QED BY <1>4, <3>3, <3>4
  <2>4. QED BY <1>4, <2>2, <2>3
<1>11. Ahead(r, t, c, g)
  <2>1. SUFFICES ASSUME NEW i \in 1 .. Len(c), FromStart(r, t, c[i]), ~c[i].written,
                        NEW a \in 1 .. Len(g)
                 PROVE  g[a].serial < c[i].serial
    BY DEF Ahead
  <2>2. PICK j \in 1 .. Len(s) : j = i + k - 1
    BY <1>3
  <2>3. c[i].rt = s[j].rt /\ c[i].serial = s[j].serial /\ ~s[j].written /\ j \notin P
    BY <1>3, <2>1, <2>2
  <2>4. FromStart(r, t, s[j])
    BY <2>1, <2>3 DEF FromStart
  <2>5. ~(s[j].rt <= upto)
    BY <2>3, <2>4 DEF Pending
  <2>6. CASE a \in 1 .. Len(f)
    BY <1>4, <2>3, <2>4, <2>6 DEF Ahead
  <2>7. CASE \E b \in 1 .. Len(q) : a = Len(f) + b
    <3>1. PICK b \in 1 .. Len(q) : a = Len(f) + b
      BY <2>7
    <3>2. g[a] = s[h[b]] /\ h[b] \in 1 .. Len(s) /\ h[b] \in P
      BY <1>4, <1>5, <3>1
    <3>3. PICK m \in 1 .. Len(s) : m = h[b]
      BY <3>2
    <3>4. s[m].rt <= upto /\ s[m].rt \in Nat /\ s[j].rt \in Nat
      BY <1>8, <3>2, <3>3
    <3>5. m < j
      <4>1. upto \in Nat
        OBVIOUS
      <4>2. ~(s[j].rt <= s[m].rt)
        <5>1. PICK y \in Nat, z \in Nat : y = s[j].rt /\ z = s[m].rt
          BY ONLY <3>4
        <5>2. z <= upto /\ ~(y <= upto)
          BY ONLY <2>5, <3>4, <5>1
        <5>3. ~(y <= z)
          BY ONLY <4>1, <5>2, y \in Nat, z \in Nat
        <5>4. QED BY ONLY <5>1, <5>3
      <4>3. m # j /\ ~(j < m)
        <5>1. m # j
          <6>1. SUFFICES ASSUME m = j PROVE FALSE
            OBVIOUS
          <6>2. ~(s[m].rt <= s[m].rt)
            BY ONLY <4>2, <6>1
          <6>3. QED BY ONLY <3>4, <6>2
        <5>2. j < m => s[j].rt <= s[m].rt
          BY <1>7
        <5>3. QED BY ONLY <4>2, <5>1, <5>2
      <4>4. QED BY <4>3
    <3>6. QED BY <1>7, <2>3, <3>2, <3>3, <3>5
  <2>8. QED BY <1>4, <2>6, <2>7
<1>12. QED BY <1>10, <1>11

LEMMA PushedKey ==
  ASSUME NEW r, NEW upto \in Nat,
         NEW s, NEW f, NEW c, NEW g, NEW P, NEW k \in 1 .. Len(s) + 1, NEW q, NEW h,
         NEW l, NEW n \in Nat, CacheOK(s, l, n), FileOK(f, n),
         P = {i \in 1 .. Len(s) : Pending(r, primary, upto, s[i])},
         r.writer.open, StartsKeyed(r.writer, s, f), Pushes(s, f, c, g, P, k, q, h)
  PROVE  StartsKeyed(r.writer, c, g)
<1>1. /\ s \in Seq(Samples) /\ c \in Seq(Samples) /\ f \in Seq(Samples) /\ q \in Seq(Samples)
      /\ g = f \o q
  BY DEF CacheOK, FileOK, Pushes
<1>2. Len(s) \in Nat /\ Len(c) \in Nat /\ Len(f) \in Nat /\ Len(q) \in Nat /\ Len(g) = Len(f) + Len(q)
  BY <1>1
<1>3. /\ \A a \in 1 .. Len(f) : g[a] = f[a]
      /\ \A b \in 1 .. Len(q) : g[Len(f) + b] = q[b]
  <2>1. Joined(f, q, g)
    BY <1>1, Concat
  <2>2. QED BY <2>1 DEF Joined
<1>4. CASE Len(f) > 0
  BY <1>2, <1>3, <1>4 DEF StartsKeyed
<1>5. CASE Len(f) = 0
  <2>1. PICK i \in 1 .. Len(s) : s[i].key /\ s[i].serial = r.writer.serial /\ ~s[i].written
    BY <1>5 DEF StartsKeyed
  <2>2. CASE Len(q) > 0
    <3>1. g[1] = q[1] /\ 1 \in 1 .. Len(q) /\ Len(g) > 0
      BY <1>2, <1>3, <1>5, <2>2
    <3>2. h[1] \in 1 .. Len(s) /\ h[1] \in P /\ q[1] = s[h[1]]
      BY <3>1 DEF Pushes
    <3>3. PICK m \in 1 .. Len(s) : m = h[1] /\ m \in P
      BY <3>2
    <3>4. FromStart(r, primary, s[m]) /\ s[m].rt <= upto
      BY <3>3 DEF Pending
    <3>5. /\ s[i].serial \in Nat /\ s[i].serial <= MaxSamples /\ s[i].rt \in Nat
          /\ s[m].serial \in Nat /\ s[m].rt \in Nat
      BY <1>1, CacheFields
    <3>6. r.writer.serial # NoSerial
      BY <2>1, <3>5, NoTimeIsNat DEF NoSerial
    <3>7. s[i].serial <= s[m].serial /\ FromStart(r, primary, s[i])
      BY <2>1, <3>4, <3>5, <3>6 DEF FromStart
    <3>8. i <= m
      BY <3>5, <3>7 DEF CacheOK
    <3>9. s[i].rt <= s[m].rt
      BY <3>5, <3>8 DEF CacheOK
    <3>10. i \in P
      BY <2>1, <3>4, <3>5, <3>7, <3>9 DEF Pending
    <3>11. PICK b \in 1 .. Len(q) : h[b] = i
      BY <3>10 DEF Pushes
    <3>12. b = 1
      <4>1. ~(1 < b)
        <5>1. 1 < b => h[1] < h[b]
          BY <3>1 DEF Pushes
        <5>2. ~(m < i) /\ m = h[1]
          BY ONLY <3>3, <3>8, m \in 1 .. Len(s), i \in 1 .. Len(s), <1>2
        <5>3. QED BY ONLY <3>11, <5>1, <5>2
      <4>2. QED BY <4>1
    <3>13. g[1].key
      BY <2>1, <3>1, <3>2, <3>11, <3>12
    <3>14. QED BY <3>1, <3>13 DEF StartsKeyed
  <2>3. CASE Len(q) = 0
    <3>1. i \notin P
      BY <2>3 DEF Pushes
    <3>2. i >= k
      <4>1. ~(i \in 1 .. k - 1)
        BY <2>1, <3>1 DEF Pushes
      <4>2. QED BY <4>1
    <3>3. PICK j \in 1 .. Len(c) : j + k - 1 = i
      <4>1. Len(c) = Len(s) - k + 1
        BY DEF Pushes
      <4>2. i - k + 1 \in 1 .. Len(c) /\ (i - k + 1) + k - 1 = i
        BY <1>2, <3>2, <4>1
      <4>3. QED BY <4>2
    <3>4. c[j].key = s[i].key /\ c[j].serial = s[i].serial /\ (c[j].written <=> s[i].written \/ i \in P)
      BY <3>3 DEF Pushes
    <3>5. c[j].key /\ c[j].serial = r.writer.serial /\ ~c[j].written
      BY <2>1, <3>1, <3>4, Zenon
    <3>6. Len(g) = 0
      BY <1>2, <1>5, <2>3
    <3>7. QED BY <3>5, <3>6 DEF StartsKeyed
  <2>4. QED BY <1>2, <2>2, <2>3
<1>6. QED BY <1>2, <1>4, <1>5

\* g is the file f and samples that are not after upto.
AddedUntil(f, g, upto) ==
  /\ \A a \in 1 .. Len(f) : a \in 1 .. Len(g) /\ g[a] = f[a]
  /\ \A a \in 1 .. Len(g) : a \in 1 .. Len(f) \/ g[a].rt <= upto

LEMMA PushedUntil ==
  ASSUME NEW r, NEW t, NEW upto,
         NEW s, NEW f \in Seq(Samples), NEW c, NEW g, NEW P, NEW k, NEW q, NEW h,
         P = {i \in 1 .. Len(s) : Pending(r, t, upto, s[i])},
         Pushes(s, f, c, g, P, k, q, h)
  PROVE  AddedUntil(f, g, upto)
<1>1. q \in Seq(Samples) /\ g = f \o q
  BY DEF Pushes
<1>2. /\ \A a \in 1 .. Len(f) : a \in 1 .. Len(g) /\ g[a] = f[a]
      /\ \A b \in 1 .. Len(q) : g[Len(f) + b] = q[b]
      /\ \A a \in 1 .. Len(g) : a \in 1 .. Len(f) \/ \E b \in 1 .. Len(q) : a = Len(f) + b
  <2>1. Joined(f, q, g)
    BY <1>1, Concat
  <2>2. QED BY <2>1 DEF Joined
<1>3. \A b \in 1 .. Len(q) : q[b].rt <= upto
  <2>1. SUFFICES ASSUME NEW b \in 1 .. Len(q) PROVE q[b].rt <= upto
    OBVIOUS
  <2>2. h[b] \in P /\ q[b] = s[h[b]]
    BY DEF Pushes
  <2>3. PICK i \in P : q[b] = s[i]
    BY <2>2
  <2>4. Pending(r, t, upto, s[i])
    OBVIOUS
  <2>5. QED BY <2>3, <2>4 DEF Pending
<1>4. SUFFICES ASSUME NEW a \in 1 .. Len(g), a \notin 1 .. Len(f) PROVE g[a].rt <= upto
  BY <1>2 DEF AddedUntil
<1>5. PICK b \in 1 .. Len(q) : a = Len(f) + b
  BY <1>2, <1>4
<1>6. QED BY <1>2, <1>3, <1>5

PushedOK(r, t, upto, s, f, c, g, l, n) ==
  /\ TrackOK(r, t, c, g, l, n) /\ Lighter(c, s)
  /\ \A i \in 1 .. Len(s) : s[i].written \/ Pending(r, t, upto, s[i]) => Has(g, s[i])
  /\ Survives(s, c, g) /\ AddedUntil(f, g, upto)

LEMMA PushTrackOK ==
  ASSUME NEW r, NEW t, NEW upto \in Nat, NEW n \in Nat, NEW l, NEW s, NEW f,
         s = r.cache[t], f = r.file[t], r.writer.open, TrackOK(r, t, s, f, l, n),
         NEW c, NEW g, c = PushTrack(r, t, upto).cache, g = PushTrack(r, t, upto).file
  PROVE  PushedOK(r, t, upto, s, f, c, g, l, n)
<1>1. CacheOK(s, l, n) /\ FileOK(f, n) /\ Recorded(s, f)
  BY DEF TrackOK
<1>2. s \in Seq(Samples) /\ f \in Seq(Samples) /\ Len(s) \in Nat
  BY <1>1 DEF CacheOK, FileOK
<1>3. PICK P : P = {i \in 1 .. Len(s) : Pending(r, t, upto, s[i])}
  OBVIOUS
<1>4. \A i \in 1 .. Len(s) : i \in P <=> Pending(r, t, upto, s[i])
  BY <1>3
<1>5. PICK k \in 1 .. Len(s) + 1 : \E q, h :
        \/ Pushes(s, f, c, g, P, k, q, h)
        \/ q = <<>> /\ c = s /\ g = f /\ P = {}
  <2>1. s = r.cache[t] /\ f = r.file[t]
    OBVIOUS
  <2>2. PICK k \in 1 .. Len(s) + 1 : \E q, h : PushResult(r, t, upto, s, P, k, q, h)
    BY ONLY <1>2, <1>3, <2>1, PushShape
  <2>3. c = PushTrack(r, t, upto).cache /\ g = PushTrack(r, t, upto).file
    OBVIOUS
  <2>4. QED BY ONLY <2>1, <2>2, <2>3 DEF PushResult
<1>9. PICK q, h :
        \/ Pushes(s, f, c, g, P, k, q, h)
        \/ q = <<>> /\ c = s /\ g = f /\ P = {}
  BY <1>5
<1>6. CASE Pushes(s, f, c, g, P, k, q, h)
  <2>1. /\ CacheOK(c, l, n) /\ FileOK(g, n) /\ Lighter(c, s) /\ Recorded(c, g)
        /\ \A i \in 1 .. Len(s) : s[i].written \/ i \in P => Has(g, s[i])
        /\ Survives(s, c, g)
    <3>1. k \in 1 .. Len(s) + 1 /\ n \in Nat
      OBVIOUS
    <3>2. QED BY ONLY <1>1, <1>6, <3>1, PushedCache
  <2>2. Survives(s, c, g)
    BY <2>1
  <2>3. AddedUntil(f, g, upto)
    BY <1>2, <1>3, <1>6, PushedUntil
  <2>4. \A i \in 1 .. Len(s) : s[i].written \/ Pending(r, t, upto, s[i]) => Has(g, s[i])
    BY <1>4, <2>1
  <2>5. ~switched => InOrder(g) /\ Ahead(r, t, c, g)
    <3>1. ~switched => InOrder(f) /\ Ahead(r, t, s, f)
      BY DEF TrackOK
    <3>2. QED BY <1>1, <1>3, <1>6, <3>1, PushedOrder
  <2>6. AlignStart /\ r.keyed /\ ~switched /\ t = primary => StartsKeyed(r.writer, c, g)
    <3>1. SUFFICES ASSUME AlignStart, r.keyed, ~switched, t = primary
                   PROVE  StartsKeyed(r.writer, c, g)
      OBVIOUS
    <3>2. StartsKeyed(r.writer, s, f)
      BY <3>1 DEF TrackOK
    <3>3. P = {i \in 1 .. Len(s) : Pending(r, primary, upto, s[i])}
      BY <1>3, <3>1
    <3>4. QED BY <1>1, <1>6, <3>2, <3>3, PushedKey
  <2>7. Len(c) > 0 => t \in r.caps
    <3>1. Len(c) = Len(s) - k + 1 /\ k >= 1 /\ k \in Nat
      BY <1>2, <1>6 DEF Pushes
    <3>2. Len(c) > 0 => Len(s) > 0
      BY ONLY <1>2, <3>1
    <3>3. QED BY <3>2 DEF TrackOK
  <2>8. TrackOK(r, t, c, g, l, n)
    BY <2>1, <2>5, <2>6, <2>7 DEF TrackOK
  <2>9. QED BY <2>1, <2>2, <2>3, <2>4, <2>8 DEF PushedOK
<1>7. CASE q = <<>> /\ c = s /\ g = f /\ P = {}
  <2>1. \A i \in 1 .. Len(s) : s[i].written \/ Pending(r, t, upto, s[i]) => Has(g, s[i])
    BY <1>1, <1>4, <1>7 DEF Recorded
  <2>2. Survives(s, c, g)
    BY <1>7 DEF Survives
  <2>3. AddedUntil(f, g, upto)
    BY <1>7 DEF AddedUntil
  <2>4. QED BY <1>2, <1>7, <2>1, <2>2, <2>3 DEF PushedOK, Lighter
<1>8. QED BY <1>6, <1>7, <1>9

(* The invariant of a recorder state r, n the last serial.                 *)

Windows == [active : BOOLEAN, start : Time, end : Time, retain : Pres \cup {0, All}]
Writers == [open : BOOLEAN, rt : Time, serial : 1 .. NoSerial, linked : SUBSET Tracks]
Recs == [cache : [Tracks -> Seq(Samples)], last : [Tracks -> Time], caps : SUBSET Tracks,
         window : Windows, writer : Writers, fatal : BOOLEAN,
         file : [Tracks -> Seq(Samples)], keyed : BOOLEAN]

RecOK(r, n) ==
  /\ r \in Recs /\ r.caps \subseteq tracks
  /\ r.writer.open => r.window.active /\ r.writer.linked \subseteq r.caps
  /\ \A t \in Tracks : TrackOK(r, t, r.cache[t], r.file[t], r.last[t], n)

LEMMA TrackSame ==
  ASSUME NEW r, NEW p, NEW t, NEW s, NEW f, NEW l, NEW n, TrackOK(r, t, s, f, l, n),
         p.window.active = r.window.active, p.keyed = r.keyed, r.caps \subseteq p.caps,
         p.writer.open = r.writer.open, p.writer.rt = r.writer.rt,
         p.writer.serial = r.writer.serial
  PROVE  TrackOK(p, t, s, f, l, n)
<1>1. Ahead(r, t, s, f) => Ahead(p, t, s, f)
  BY DEF Ahead, FromStart
<1>2. StartsKeyed(r.writer, s, f) => StartsKeyed(p.writer, s, f)
  BY DEF StartsKeyed
<1>3. QED BY <1>1, <1>2 DEF TrackOK

\* p is r with other caches and files.
OnlyTracks(r, p) ==
  /\ p.last = r.last /\ p.caps = r.caps /\ p.window = r.window /\ p.writer = r.writer
  /\ p.fatal = r.fatal /\ p.keyed = r.keyed

\* The tracks that push.
Pushing(r) == {t \in r.writer.linked : IsValid(r.last[t])}

\* p is r after the push.
PushedAll(r, p, upto) ==
  /\ OnlyTracks(r, p)
  /\ p.cache = [t \in Tracks |->
       IF t \in Pushing(r) THEN PushTrack(r, t, Lesser(upto, r.last[t])).cache ELSE r.cache[t]]
  /\ p.file  = [t \in Tracks |->
       IF t \in Pushing(r) THEN PushTrack(r, t, Lesser(upto, r.last[t])).file ELSE r.file[t]]
  /\ p.cache \in [Tracks -> Seq(Samples)] /\ p.file \in [Tracks -> Seq(Samples)] => p \in Recs

LEMMA PendingFields ==
  ASSUME NEW r \in Recs, NEW upto, r.writer.open, NEW p, p = PushPending(r, upto)
  PROVE  PushedAll(r, p, upto)
<1> DEFINE pushed == [t \in Pushing(r) |-> PushTrack(r, t, Lesser(upto, r.last[t]))]
           C == [t \in Tracks |-> IF t \in DOMAIN pushed THEN pushed[t].cache ELSE r.cache[t]]
           F == [t \in Tracks |-> IF t \in DOMAIN pushed THEN pushed[t].file ELSE r.file[t]]
<1>1. p = [r EXCEPT !.cache = C, !.file = F]
  BY DEF PushPending, Pushing
<1>2. /\ C = [t \in Tracks |->
              IF t \in Pushing(r) THEN PushTrack(r, t, Lesser(upto, r.last[t])).cache ELSE r.cache[t]]
      /\ F = [t \in Tracks |->
              IF t \in Pushing(r) THEN PushTrack(r, t, Lesser(upto, r.last[t])).file ELSE r.file[t]]
  OBVIOUS
<1> HIDE DEF C, F
<1>3. p.cache = C /\ p.file = F /\ OnlyTracks(r, p)
  BY <1>1 DEF Recs, OnlyTracks
<1>4. p.cache \in [Tracks -> Seq(Samples)] /\ p.file \in [Tracks -> Seq(Samples)] => p \in Recs
  BY <1>1, <1>3 DEF Recs
<1>5. QED BY <1>2, <1>3, <1>4 DEF PushedAll

LEMMA RecTypes ==
  ASSUME NEW r \in Recs
  PROVE  /\ r.cache \in [Tracks -> Seq(Samples)] /\ r.last \in [Tracks -> Time]
         /\ r.caps \in SUBSET Tracks /\ r.window \in Windows /\ r.writer \in Writers
         /\ r.fatal \in BOOLEAN /\ r.file \in [Tracks -> Seq(Samples)] /\ r.keyed \in BOOLEAN
BY DEF Recs

LEMMA TimeIsNat == ASSUME NEW x \in Time PROVE x \in Nat /\ x <= NoTime
BY NoTimeIsNat DEF Time

\* What a push does to a track.
PushedTrack(r, p, t, upto) ==
  LET s == r.cache[t] f == r.file[t] c == p.cache[t] g == p.file[t] IN
  /\ Lighter(c, s) /\ AddedUntil(f, g, upto)
  /\ r.writer.open => /\ Survives(s, c, g)
                      /\ \A i \in 1 .. Len(s) : s[i].written => Has(g, s[i])
  /\ r.writer.open /\ t \in Pushing(r) =>
       \A i \in 1 .. Len(s) : FromStart(r, t, s[i]) /\ s[i].rt <= upto => Has(g, s[i])

LEMMA PushedTrackOK ==
  ASSUME NEW r, NEW n \in Nat, RecOK(r, n), NEW upto \in Nat, r.writer.open,
         NEW p, p = PushPending(r, upto), NEW t \in Tracks
  PROVE  /\ TrackOK(p, t, p.cache[t], p.file[t], p.last[t], n) /\ PushedTrack(r, p, t, upto)
<1>1. r \in Recs
  BY DEF RecOK
<1>2. /\ OnlyTracks(r, p)
      /\ p.cache = [x \in Tracks |->
              IF x \in Pushing(r) THEN PushTrack(r, x, Lesser(upto, r.last[x])).cache ELSE r.cache[x]]
      /\ p.file  = [x \in Tracks |->
              IF x \in Pushing(r) THEN PushTrack(r, x, Lesser(upto, r.last[x])).file ELSE r.file[x]]
  <2>1. PushedAll(r, p, upto)
    BY <1>1, PendingFields
  <2>2. QED BY ONLY <2>1 DEF PushedAll
<1>3. PICK s, f, l : s = r.cache[t] /\ f = r.file[t] /\ l = r.last[t]
  OBVIOUS
<1>4. TrackOK(r, t, s, f, l, n)
  BY <1>3 DEF RecOK
<1>5. l \in Nat /\ l <= NoTime /\ Len(s) \in Nat
  <2>1. l \in Time
    BY <1>1, <1>3 DEF Recs
  <2>2. s \in Seq(Samples)
    BY <1>4 DEF TrackOK, CacheOK
  <2>3. QED BY <2>1, <2>2, TimeIsNat
<1>6. /\ p.last[t] = l /\ p.window.active = r.window.active /\ p.writer = r.writer
      /\ p.keyed = r.keyed /\ r.caps \subseteq p.caps
  BY <1>2, <1>3 DEF OnlyTracks
<1>7. CASE t \in Pushing(r)
  <2>1. PICK u \in Nat : u = Lesser(upto, l) /\ u <= upto
    BY <1>5 DEF Lesser
  <2>2. PICK c, g : c = PushTrack(r, t, u).cache /\ g = PushTrack(r, t, u).file
    OBVIOUS
  <2>3. p.cache[t] = c /\ p.file[t] = g
    BY <1>2, <1>3, <1>7, <2>1, <2>2
  <2>4. /\ TrackOK(r, t, c, g, l, n) /\ Lighter(c, s)
        /\ \A i \in 1 .. Len(s) : s[i].written \/ Pending(r, t, u, s[i]) => Has(g, s[i])
        /\ Survives(s, c, g) /\ AddedUntil(f, g, u)
    <3>1. u \in Nat /\ n \in Nat /\ r.writer.open /\ s = r.cache[t] /\ f = r.file[t]
      BY <1>3
    <3>2. PushedOK(r, t, u, s, f, c, g, l, n)
      BY ONLY <1>4, <2>2, <3>1, PushTrackOK
    <3>3. QED BY <3>2 DEF PushedOK
  <2>5. TrackOK(p, t, c, g, l, n)
    BY <1>6, <2>4, TrackSame
  <2>6. AddedUntil(f, g, upto)
    <3>1. g \in Seq(Samples)
      BY <2>4 DEF TrackOK, FileOK
    <3>2. \A a \in 1 .. Len(g) : g[a].rt \in Nat
      BY <3>1, CacheFields
    <3>3. QED BY <2>1, <2>4, <3>2 DEF AddedUntil
  <2>7. ASSUME NEW i \in 1 .. Len(s), FromStart(r, t, s[i]), s[i].rt <= upto PROVE Has(g, s[i])
    <3>1. s[i].rt <= l /\ s[i].rt \in Nat
      <4>1. CacheOK(s, l, n)
        BY <1>4 DEF TrackOK
      <4>2. Len(s) \in 1 .. Len(s) /\ l = s[Len(s)].rt
        BY <1>5, <4>1 DEF CacheOK
      <4>3. s[i].rt <= s[Len(s)].rt
        <5>1. CASE i = Len(s)
          BY <1>5, <4>2, <5>1
        <5>2. CASE i < Len(s)
          BY <4>1, <4>2, <5>2 DEF CacheOK
        <5>3. QED BY <1>5, <5>1, <5>2
      <4>4. s[i].rt \in Nat
        BY <4>1, CacheFields DEF CacheOK
      <4>5. QED BY <4>2, <4>3, <4>4
    <3>2. s[i].rt <= u
      BY <1>5, <2>1, <2>7, <3>1 DEF Lesser
    <3>3. s[i].written \/ Pending(r, t, u, s[i])
      BY <2>7, <3>2 DEF Pending
    <3>4. QED BY <2>4, <3>3
  <2>8. PushedTrack(r, p, t, upto)
    BY <1>3, <2>3, <2>4, <2>6, <2>7 DEF PushedTrack
  <2>9. QED BY <1>6, <2>3, <2>5, <2>8
<1>8. CASE t \notin Pushing(r)
  <2>1. p.cache[t] = s /\ p.file[t] = f
    BY <1>2, <1>3, <1>8
  <2>2. TrackOK(p, t, s, f, l, n)
    BY <1>4, <1>6, TrackSame
  <2>3. \A i \in 1 .. Len(s) : s[i].written => Has(f, s[i])
    BY <1>4 DEF TrackOK, Recorded
  <2>4. PushedTrack(r, p, t, upto)
    BY <1>3, <1>5, <1>8, <2>1, <2>3 DEF PushedTrack, AddedUntil, Survives, Lighter
  <2>5. QED BY <1>6, <2>1, <2>2, <2>4
<1>9. QED BY <1>7, <1>8

LEMMA PushPendingOK ==
  ASSUME NEW r, NEW n \in Nat, RecOK(r, n), NEW upto \in Nat, NEW p, p = PushPending(r, upto)
  PROVE  /\ RecOK(p, n) /\ OnlyTracks(r, p) /\ \A t \in Tracks : PushedTrack(r, p, t, upto)
<1>1. r \in Recs
  BY DEF RecOK
<1>2. CASE ~r.writer.open
  <2>1. p = r
    BY <1>2 DEF PushPending
  <2>2. QED BY <1>2, <2>1 DEF PushedTrack, OnlyTracks, AddedUntil, Lighter
<1>3. CASE r.writer.open
  <2>1. \A t \in Tracks : TrackOK(p, t, p.cache[t], p.file[t], p.last[t], n) /\ PushedTrack(r, p, t, upto)
    BY <1>3, PushedTrackOK
  <2>2. /\ OnlyTracks(r, p)
        /\ p.cache = [t \in Tracks |->
              IF t \in Pushing(r) THEN PushTrack(r, t, Lesser(upto, r.last[t])).cache ELSE r.cache[t]]
        /\ p.file  = [t \in Tracks |->
              IF t \in Pushing(r) THEN PushTrack(r, t, Lesser(upto, r.last[t])).file ELSE r.file[t]]
        /\ p.cache \in [Tracks -> Seq(Samples)] /\ p.file \in [Tracks -> Seq(Samples)] => p \in Recs
    <3>1. PushedAll(r, p, upto)
      BY ONLY <1>1, <1>3, upto \in Nat, p = PushPending(r, upto), PendingFields
    <3>2. QED BY ONLY <3>1 DEF PushedAll
  <2>3. p \in Recs
    <3>1. \A t \in Tracks : p.cache[t] \in Seq(Samples) /\ p.file[t] \in Seq(Samples)
      BY <2>1 DEF TrackOK, CacheOK, FileOK
    <3>2. p.cache = [t \in Tracks |-> p.cache[t]] /\ p.file = [t \in Tracks |-> p.file[t]]
      BY <2>2
    <3>3. p.cache \in [Tracks -> Seq(Samples)] /\ p.file \in [Tracks -> Seq(Samples)]
      BY <3>1, <3>2
    <3>4. QED BY <2>2, <3>3
  <2>4. /\ p.caps \subseteq tracks
        /\ p.writer.open => p.window.active /\ p.writer.linked \subseteq p.caps
    BY <2>2 DEF RecOK, OnlyTracks
  <2>5. QED BY <2>1, <2>2, <2>3, <2>4 DEF RecOK
<1>4. QED BY <1>2, <1>3

LEMMA ResetOK ==
  ASSUME NEW s \in Seq(Samples), NEW c, c = ResetWritten(s)
  PROVE  /\ c \in Seq(Samples) /\ Len(c) = Len(s)
         /\ \A i \in 1 .. Len(s) : /\ c[i].rt = s[i].rt /\ c[i].serial = s[i].serial
                                   /\ c[i].key = s[i].key /\ ~c[i].written
<1>1. DOMAIN s = 1 .. Len(s) /\ Len(s) \in Nat
  OBVIOUS
<1>2. c = [i \in 1 .. Len(s) |-> [s[i] EXCEPT !.written = FALSE]]
  BY <1>1 DEF ResetWritten
<1>3. ASSUME NEW i \in 1 .. Len(s)
      PROVE  /\ c[i] \in Samples /\ c[i].rt = s[i].rt /\ c[i].serial = s[i].serial
             /\ c[i].key = s[i].key /\ ~c[i].written
  <2>1. PICK x \in Samples : x = s[i]
    OBVIOUS
  <2>2. c[i] = [x EXCEPT !.written = FALSE]
    BY <1>2, <2>1
  <2>3. QED BY <2>1, <2>2 DEF Samples
<1>4. c \in [1 .. Len(s) -> Samples]
  BY <1>2, <1>3
<1>5. QED BY <1>1, <1>3, <1>4, IsSeq

\* Where the file starts: at a keyframe if there is one in time.
LEMMA StartOK ==
  ASSUME NEW r \in Recs, primary \in Tracks, NEW s, s = r.cache[primary]
  PROVE  /\ SelectStart(r).rt \in Time /\ SelectStart(r).serial \in 1 .. NoSerial
         /\ AlignStart /\ (\E i \in 1 .. Len(s) : s[i].key /\ s[i].rt <= r.window.start) =>
              \E i \in 1 .. Len(s) : s[i].key /\ s[i].serial = SelectStart(r).serial
<1> DEFINE BeforeStart(x) == x.key /\ x.rt <= r.window.start
           InWindow(x) == x.rt >= r.window.start
           I == {i \in 1 .. Len(s) : BeforeStart(s[i])}
           J == {i \in 1 .. Len(s) : InWindow(s[i])}
           key  == IF AlignStart THEN SelectLastInSeq(s, BeforeStart) ELSE 0
           from == IF key # 0 THEN key ELSE SelectInSeq(s, InWindow)
<1>1. s \in Seq(Samples) /\ Len(s) \in Nat /\ r.window.start \in Time
  BY DEF Recs, Windows
<1>2. SelectStart(r) = IF from = 0 THEN [rt |-> r.window.start, serial |-> NoSerial]
                       ELSE [rt |-> s[from].rt, serial |-> s[from].serial]
  BY DEF SelectStart
<1>3. /\ I \in SUBSET (1 .. Len(s)) /\ J \in SUBSET Nat /\ J \subseteq 1 .. Len(s)
      /\ I # {} <=> \E i \in 1 .. Len(s) : s[i].key /\ s[i].rt <= r.window.start
      /\ \A i \in I : s[i].key
  OBVIOUS
<1>4. key = IF AlignStart /\ I # {} THEN Max(I) ELSE 0
  BY DEF SelectLastInSeq
<1>5. from = IF key # 0 THEN key ELSE IF J # {} THEN Min(J) ELSE 0
  BY DEF SelectInSeq
<1> HIDE DEF I, J, key, from
<1>6. I # {} => Max(I) \in I
  BY <1>1, <1>3, MaxOf
<1>7. J # {} => Min(J) \in J
  BY <1>3, MinOf
<1>8. from = 0 \/ from \in 1 .. Len(s)
  BY <1>3, <1>4, <1>5, <1>6, <1>7
<1>9. from # 0 => s[from] \in Samples
  BY <1>1, <1>8
<1>10. NoSerial \in 1 .. NoSerial /\ \A x \in Samples : x.serial \in 1 .. NoSerial /\ x.rt \in Time
  BY NoTimeIsNat DEF NoSerial, Samples
<1>11. SelectStart(r).rt \in Time /\ SelectStart(r).serial \in 1 .. NoSerial
  <2>1. CASE from = 0
    BY <1>1, <1>2, <1>10, <2>1
  <2>2. CASE from # 0
    BY <1>2, <1>9, <1>10, <2>2
  <2>3. QED BY <2>1, <2>2
<1>12. ASSUME AlignStart, \E i \in 1 .. Len(s) : s[i].key /\ s[i].rt <= r.window.start
       PROVE  \E i \in 1 .. Len(s) : s[i].key /\ s[i].serial = SelectStart(r).serial
  <2>1. PICK m \in 1 .. Len(s) : m = Max(I) /\ m \in I
    BY <1>3, <1>6, <1>12
  <2>2. key = m /\ m # 0
    BY <1>3, <1>4, <1>12, <2>1
  <2>3. from = m
    BY <1>5, <2>2
  <2>4. SelectStart(r).serial = s[m].serial
    BY <1>2, <2>2, <2>3
  <2>5. QED BY <1>3, <2>1, <2>4
<1>13. QED BY <1>11, <1>12

OutcomeSet == {"ok", "failed", "fatal"}

\* What open_writer leaves alone.
Opened(r, p) ==
  /\ p.last = r.last /\ p.caps = r.caps /\ p.window = r.window /\ p.file = r.file
  /\ \A t \in Tracks : Lighter(p.cache[t], r.cache[t])
  /\ r.writer.open => p = r

LEMMA OpenFields ==
  ASSUME NEW r \in Recs, NEW outcome \in OutcomeSet, NEW p, p = OpenWriter(r, outcome),
         ~(r.writer.open \/ r.fatal \/ ~HasPrimary \/ primary \notin r.caps)
  PROVE  /\ p \in Recs
         /\ p.last = r.last /\ p.caps = r.caps /\ p.window = r.window /\ p.file = r.file
         /\ \A t \in Tracks : p.cache[t] = ResetWritten(r.cache[t])
         /\ p.writer = IF outcome # "ok" THEN r.writer
                       ELSE [open |-> TRUE, rt |-> SelectStart(r).rt,
                             serial |-> SelectStart(r).serial, linked |-> r.caps]
         /\ p.keyed => \E i \in 1 .. Len(r.cache[primary]) :
                          r.cache[primary][i].key /\ r.cache[primary][i].rt <= r.window.start
<1> DEFINE KeyBefore(x) == x.key /\ x.rt <= r.window.start
           C == [t \in Tracks |-> ResetWritten(r.cache[t])]
           start == SelectStart(r)
           W == IF outcome # "ok" THEN r.writer
                ELSE [open |-> TRUE, rt |-> start.rt, serial |-> start.serial, linked |-> r.caps]
           K == SelectInSeq(r.cache[primary], KeyBefore) # 0
           F == outcome = "fatal"
<1>1. p = [r EXCEPT !.cache = C, !.fatal = F, !.writer = W, !.keyed = K]
  BY DEF OpenWriter
<1>2. primary \in Tracks /\ r.caps \in SUBSET Tracks
  BY DEF Recs
<1>3. W \in Writers
  <2>1. start.rt \in Time /\ start.serial \in 1 .. NoSerial
    BY <1>2, StartOK
  <2>2. r.writer \in Writers
    BY DEF Recs
  <2> HIDE DEF start
  <2>3. QED BY <1>2, <2>1, <2>2 DEF Writers
<1>4. C \in [Tracks -> Seq(Samples)]
  <2>1. \A t \in Tracks : r.cache[t] \in Seq(Samples)
    BY DEF Recs
  <2>2. \A t \in Tracks : ResetWritten(r.cache[t]) \in Seq(Samples)
    BY <2>1, ResetOK
  <2>3. QED BY <2>2
<1>5. F \in BOOLEAN /\ K \in BOOLEAN
  OBVIOUS
<1>6. K => \E i \in 1 .. Len(r.cache[primary]) :
             r.cache[primary][i].key /\ r.cache[primary][i].rt <= r.window.start
  BY DEF SelectInSeq
<1>7. \A t \in Tracks : C[t] = ResetWritten(r.cache[t])
  OBVIOUS
<1>8. W = IF outcome # "ok" THEN r.writer
                       ELSE [open |-> TRUE, rt |-> SelectStart(r).rt,
                             serial |-> SelectStart(r).serial, linked |-> r.caps]
  OBVIOUS
<1> HIDE DEF C, W, K, F, start
<1>9. /\ p.last = r.last /\ p.caps = r.caps /\ p.window = r.window /\ p.file = r.file
      /\ p.cache = C /\ p.writer = W /\ p.keyed = K /\ p.fatal = F
  BY <1>1 DEF Recs
<1>10. p \in Recs
  BY <1>1, <1>3, <1>4, <1>5 DEF Recs
<1>11. QED BY <1>6, <1>7, <1>8, <1>9, <1>10

LEMMA OpenWriterOK ==
  ASSUME NEW r, NEW n \in Nat, RecOK(r, n), r.window.active,
         NEW outcome \in OutcomeSet, NEW p, p = OpenWriter(r, outcome)
  PROVE  RecOK(p, n) /\ Opened(r, p)
<1>1. r \in Recs
  BY DEF RecOK
<1>2. CASE r.writer.open \/ r.fatal \/ ~HasPrimary \/ primary \notin r.caps
  <2>1. p = r
    BY <1>2 DEF OpenWriter
  <2>2. QED BY <2>1 DEF Opened, Lighter
<1>3. CASE ~(r.writer.open \/ r.fatal \/ ~HasPrimary \/ primary \notin r.caps)
  <2>1. /\ p \in Recs
        /\ p.last = r.last /\ p.caps = r.caps /\ p.window = r.window /\ p.file = r.file
        /\ \A t \in Tracks : p.cache[t] = ResetWritten(r.cache[t])
        /\ p.writer = IF outcome # "ok" THEN r.writer
                       ELSE [open |-> TRUE, rt |-> SelectStart(r).rt,
                             serial |-> SelectStart(r).serial, linked |-> r.caps]
        /\ p.keyed => \E i \in 1 .. Len(r.cache[primary]) :
                          r.cache[primary][i].key /\ r.cache[primary][i].rt <= r.window.start
    BY <1>1, <1>3, OpenFields
  <2>2. /\ p.writer.open => outcome = "ok" /\ p.writer.linked = r.caps
                            /\ p.writer.serial = SelectStart(r).serial
        /\ r.caps \subseteq tracks /\ primary \in Tracks
    BY <1>1, <1>3, <2>1 DEF RecOK, Recs
  <2>3. \A t \in Tracks : Lighter(p.cache[t], r.cache[t])
    <3>1. \A t \in Tracks : r.cache[t] \in Seq(Samples)
      BY <1>1 DEF Recs
    <3>2. ASSUME NEW t \in Tracks PROVE Lighter(ResetWritten(r.cache[t]), r.cache[t])
      <4>1. PICK x \in Seq(Samples) : x = r.cache[t]
        BY <3>1
      <4>2. PICK y : y = ResetWritten(x)
        OBVIOUS
      <4>3. Lighter(y, x)
        BY <4>2, ResetOK, SameLighter
      <4>4. QED BY <4>1, <4>2, <4>3
    <3>3. QED BY <2>1, <3>2
  <2>4. ASSUME NEW t \in Tracks
        PROVE  TrackOK(p, t, p.cache[t], p.file[t], p.last[t], n)
    <3>1. PICK s, f, l, c : s = r.cache[t] /\ f = r.file[t] /\ l = r.last[t] /\ c = p.cache[t]
      OBVIOUS
    <3>2. TrackOK(r, t, s, f, l, n)
      BY <3>1 DEF RecOK
    <3>3. CacheOK(s, l, n) /\ FileOK(f, n) /\ (Len(s) > 0 => t \in r.caps) /\ Len(f) = 0
      BY <1>3, <3>2 DEF TrackOK
    <3>4. s \in Seq(Samples) /\ Len(s) \in Nat
      BY <3>3 DEF CacheOK
    <3>5. /\ c \in Seq(Samples) /\ Len(c) = Len(s)
          /\ \A i \in 1 .. Len(s) : /\ c[i].rt = s[i].rt /\ c[i].serial = s[i].serial
                                    /\ c[i].key = s[i].key /\ ~c[i].written
      BY <2>1, <3>1, <3>4, ResetOK
    <3>6. CacheOK(c, l, n)
      <4>1. Len(s) > 0 => Len(s) \in 1 .. Len(s)
        BY <3>4
      <4>2. QED BY <3>3, <3>5, <4>1 DEF CacheOK
    <3>7. Recorded(c, f) /\ InOrder(f) /\ Ahead(p, t, c, f)
      BY <3>3, <3>5 DEF Recorded, InOrder, Ahead
    <3>8. ASSUME AlignStart, p.keyed, t = primary PROVE StartsKeyed(p.writer, c, f)
      <4>1. SUFFICES ASSUME p.writer.open
                     PROVE  \E i \in 1 .. Len(c) : /\ c[i].key /\ c[i].serial = p.writer.serial
                                                   /\ ~c[i].written
        BY <3>3 DEF StartsKeyed
      <4>2. \E i \in 1 .. Len(s) : s[i].key /\ s[i].rt <= r.window.start
        BY <2>1, <3>1, <3>8
      <4>3. PICK i \in 1 .. Len(s) : s[i].key /\ s[i].serial = SelectStart(r).serial
        <5>1. s = r.cache[primary]
          BY <3>1, <3>8
        <5>2. QED BY <1>1, <2>2, <3>8, <4>2, <5>1, StartOK
      <4>4. QED BY <2>2, <3>5, <4>1, <4>3
    <3>9. TrackOK(p, t, c, f, l, n)
      BY <2>1, <3>3, <3>5, <3>6, <3>7, <3>8 DEF TrackOK
    <3>10. QED BY <2>1, <3>1, <3>9
  <2>5. p.writer.open => p.window.active /\ p.writer.linked \subseteq p.caps
    BY <2>1, <2>2
  <2>6. RecOK(p, n)
    BY <2>1, <2>2, <2>4, <2>5 DEF RecOK
  <2>7. Opened(r, p)
    BY <1>3, <2>1, <2>3 DEF Opened
  <2>8. QED BY <2>6, <2>7
<1>4. QED BY <1>2, <1>3

LEMMA LastOf ==
  ASSUME NEW s, NEW l, NEW n, CacheOK(s, l, n), NEW i \in 1 .. Len(s)
  PROVE  s[i].rt <= l /\ s[i].rt \in Nat /\ l # NoTime
<1>1. s \in Seq(Samples) /\ Len(s) \in Nat
  BY DEF CacheOK
<1>2. Len(s) \in 1 .. Len(s) /\ l = s[Len(s)].rt /\ s[Len(s)].rt # NoTime
  BY <1>1 DEF CacheOK
<1>3. s[i].rt \in Nat /\ s[Len(s)].rt \in Nat
  BY <1>1, <1>2, CacheFields
<1>4. s[i].rt <= s[Len(s)].rt
  <2>1. CASE i = Len(s)
    BY <1>3, <2>1
  <2>2. CASE i < Len(s)
    BY <1>2, <2>2 DEF CacheOK
  <2>3. QED BY <1>1, <2>1, <2>2
<1>5. QED BY <1>2, <1>3, <1>4

(* Dropping samples.                                                       *)

LEMMA TailOK ==
  ASSUME NEW r, NEW t, NEW s, NEW f, NEW l, NEW n \in Nat, TrackOK(r, t, s, f, l, n),
         t # primary \/ ~r.writer.open, NEW c, TailOf(c, s)
  PROVE  TrackOK(r, t, c, f, l, n) /\ Lighter(c, s) /\ Len(c) \in Nat
<1>1. CacheOK(s, l, n) /\ s \in Seq(Samples) /\ Len(s) \in Nat
  BY DEF TrackOK, CacheOK
<1>2. PICK k \in 1 .. Len(s) + 1 : c = DropUntil(s, k)
  BY DEF TailOf
<1>3. /\ c \in Seq(Samples) /\ Len(c) = Len(s) - k + 1
      /\ \A i \in 1 .. Len(c) : i + k - 1 \in k .. Len(s) /\ c[i] = s[i + k - 1]
  BY <1>1, <1>2, Dropped
<1>4. Len(c) <= Len(s) /\ Len(c) \in Nat /\ \A i \in 1 .. Len(c) : i + k - 1 \in 1 .. Len(s)
  BY <1>1, <1>3
<1>5. CacheOK(c, l, n)
  <2>1. \A i \in 1 .. Len(c) : c[i].rt # NoTime /\ c[i].serial <= n
    BY <1>1, <1>3, <1>4 DEF CacheOK
  <2>2. ASSUME NEW i \in 1 .. Len(c), NEW j \in 1 .. Len(c), i < j
        PROVE  c[i].rt <= c[j].rt /\ c[i].serial < c[j].serial
    <3>1. i + k - 1 < j + k - 1
      BY <2>2
    <3>2. QED BY <1>1, <1>3, <1>4, <3>1 DEF CacheOK
  <2>3. ASSUME Len(c) > 0 PROVE l = c[Len(c)].rt
    <3>1. Len(c) \in 1 .. Len(c) /\ Len(c) + k - 1 = Len(s) /\ Len(s) > 0
      BY <1>1, <1>3, <2>3
    <3>2. QED BY <1>1, <1>3, <3>1 DEF CacheOK
  <2>4. QED BY <1>3, <2>1, <2>2, <2>3 DEF CacheOK
<1>6. Recorded(s, f) => Recorded(c, f)
  BY <1>3, <1>4 DEF Recorded
<1>7. Ahead(r, t, s, f) => Ahead(r, t, c, f)
  BY <1>3, <1>4 DEF Ahead
<1>8. Len(c) > 0 => Len(s) > 0
  BY <1>1, <1>4
<1>9. t = primary /\ StartsKeyed(r.writer, s, f) => StartsKeyed(r.writer, c, f)
  BY DEF StartsKeyed
<1>10. Lighter(c, s)
  BY <1>1, <1>3, TailLighter
<1>11. QED BY <1>4, <1>5, <1>6, <1>7, <1>8, <1>9, <1>10 DEF TrackOK

LEMMA LimitsOK ==
  ASSUME NEW s \in Seq(Samples), NEW rt \in Time
  PROVE  TailOf(PruneLimits(s, rt), s) /\ Fits(PruneLimits(s, rt))
<1>1. PICK k \in 1 .. Len(s) + 1 :
           /\ PruneLimits(s, rt) = DropUntil(s, k)
           /\ Fits(DropUntil(s, k))
  BY LimitsDrop
<1>2. QED BY <1>1 DEF TailOf

LEMMA GopLimitsOK ==
  ASSUME NEW s \in Seq(Samples), NEW rt \in Time, NEW d, d = PruneLimits(PruneIdleGop(s), rt)
  PROVE  TailOf(d, s) /\ Fits(d)
<1>1. PICK e : e = PruneIdleGop(s)
  OBVIOUS
<1>2. TailOf(e, s)
  BY <1>1, IdleGopDrops
<1>3. e \in Seq(Samples)
  <2>1. PICK k \in 1 .. Len(s) + 1 : e = DropUntil(s, k)
    BY <1>2 DEF TailOf
  <2>2. QED BY <2>1, Dropped
<1>4. TailOf(d, e) /\ Fits(d)
  BY <1>1, <1>3, LimitsOK
<1>5. QED BY <1>2, <1>4, TailTrans

(* Closing.                                                                *)

Ctx == tracks \subseteq Tracks /\ primary \in Tracks /\ now \in Time

\* What the push before a close does.
Drained(r, p) ==
  /\ \A t \in Tracks : /\ Lighter(p.cache[t], r.cache[t])
                       /\ AddedUntil(r.file[t], p.file[t], r.window.end)
  /\ r.writer.open =>
       LET s == r.cache[primary] IN
       /\ Survives(s, p.cache[primary], p.file[primary])
       /\ primary \in r.writer.linked =>
            \A i \in 1 .. Len(s) : FromStart(r, primary, s[i]) /\ s[i].rt <= r.window.end =>
              Has(p.file[primary], s[i])

LEMMA DrainOK ==
  ASSUME NEW r, NEW n \in Nat, RecOK(r, n), Ctx, NEW p, p = Drain(r)
  PROVE  RecOK(p, n) /\ OnlyTracks(r, p) /\ Drained(r, p)
<1>1. r \in Recs /\ r.window.end \in Time /\ r.last \in [Tracks -> Time]
  BY DEF RecOK, Recs, Windows
<1>2. CASE HasPrimary
  <2>1. PICK upto \in Nat : /\ upto = Lesser(r.window.end, r.last[primary])
                            /\ upto <= r.window.end
    <3>1. r.last[primary] \in Nat /\ r.window.end \in Nat
      BY <1>1, TimeIsNat DEF Ctx
    <3>2. QED BY <3>1 DEF Lesser
  <2>2. p = PushPending(r, upto)
    BY <1>2, <2>1 DEF Drain, PrimaryLast
  <2>3. RecOK(p, n) /\ OnlyTracks(r, p) /\ \A t \in Tracks : PushedTrack(r, p, t, upto)
    BY <2>2, PushPendingOK
  <2>4. ASSUME NEW t \in Tracks
        PROVE  /\ Lighter(p.cache[t], r.cache[t])
               /\ AddedUntil(r.file[t], p.file[t], r.window.end)
    <3>1. AddedUntil(r.file[t], p.file[t], upto) /\ Lighter(p.cache[t], r.cache[t])
      BY <2>3 DEF PushedTrack
    <3>2. p.file[t] \in Seq(Samples)
      BY <2>3 DEF RecOK, Recs
    <3>3. \A a \in 1 .. Len(p.file[t]) : p.file[t][a].rt \in Nat
      BY <3>2, CacheFields
    <3>4. r.window.end \in Nat
      BY <1>1, TimeIsNat
    <3>5. QED BY <2>1, <3>1, <3>3, <3>4 DEF AddedUntil
  <2>5. ASSUME r.writer.open
        PROVE  /\ Survives(r.cache[primary], p.cache[primary], p.file[primary])
               /\ primary \in r.writer.linked =>
                    \A i \in 1 .. Len(r.cache[primary]) :
                       FromStart(r, primary, r.cache[primary][i]) /\ r.cache[primary][i].rt <= r.window.end =>
                         Has(p.file[primary], r.cache[primary][i])
    <3>1. PICK s, l : s = r.cache[primary] /\ l = r.last[primary]
      OBVIOUS
    <3>2. PushedTrack(r, p, primary, upto) /\ TrackOK(r, primary, s, r.file[primary], l, n)
      BY <2>3, <3>1 DEF Ctx, RecOK
    <3>3. Survives(s, p.cache[primary], p.file[primary])
      BY <2>5, <3>1, <3>2 DEF PushedTrack
    <3>4. ASSUME primary \in r.writer.linked, NEW i \in 1 .. Len(s),
                 FromStart(r, primary, s[i]), s[i].rt <= r.window.end
          PROVE  Has(p.file[primary], s[i])
      <4>1. CacheOK(s, l, n)
        BY <3>2 DEF TrackOK
      <4>2. s[i].rt <= l /\ s[i].rt \in Nat /\ l # NoTime
        BY <4>1, LastOf
      <4>3. primary \in Pushing(r)
        BY <3>1, <3>4, <4>2 DEF Pushing, IsValid
      <4>4. s[i].rt <= upto
        BY <2>1, <3>1, <3>4, <4>2 DEF Lesser
      <4>5. QED BY <2>5, <3>1, <3>2, <3>4, <4>3, <4>4 DEF PushedTrack
    <3>5. QED BY <3>1, <3>3, <3>4
  <2>6. QED BY <2>3, <2>4, <2>5 DEF Drained
<1>3. CASE ~HasPrimary
  <2>1. p = r
    BY <1>3 DEF Drain
  <2>2. \A t \in Tracks : AddedUntil(r.file[t], r.file[t], r.window.end)
    BY DEF AddedUntil
  <2>3. r.writer.open => primary \notin r.writer.linked
    BY <1>3 DEF RecOK, HasPrimary
  <2>4. Survives(r.cache[primary], r.cache[primary], r.file[primary])
    BY DEF Survives
  <2>5. QED BY <2>1, <2>2, <2>3, <2>4 DEF Drained, OnlyTracks, Lighter
<1>4. QED BY <1>2, <1>3

LEMMA LesserTime ==
  ASSUME NEW a \in Time, NEW b \in Time
  PROVE  Lesser(a, b) \in Time /\ Lesser(a, b) <= a /\ Lesser(a, b) <= b
BY NoTimeIsNat DEF Lesser, Time

LEMMA FinalEndIsTime ==
  ASSUME NEW r, r \in Recs, Ctx, NEW closeRt \in Time
  PROVE  FinalEnd(r, closeRt) \in Time
<1>1. NoTime \in Time /\ now \in Time /\ r.window.start \in Time
  BY NoTimeIsNat DEF Ctx, Recs, Windows, Time
<1>2. PrimaryLast(r) \in Time
  BY <1>1 DEF PrimaryLast, Ctx, Recs
<1>3. QED BY <1>1, <1>2 DEF FinalEnd

\* The window of r is cut to end.
CutTo(r, p, end) ==
  /\ p.window = [r.window EXCEPT !.end = end]
  /\ p.cache = r.cache /\ p.file = r.file /\ p.last = r.last /\ p.caps = r.caps
  /\ p.writer = r.writer

LEMMA CutOK ==
  ASSUME NEW r, NEW n \in Nat, RecOK(r, n), NEW end \in Time,
         NEW p, p = [r EXCEPT !.window.end = end]
  PROVE  RecOK(p, n) /\ CutTo(r, p, end)
<1>1. r \in Recs /\ r.window \in Windows
  BY DEF RecOK, Recs
<1>2. PICK w : w = [r.window EXCEPT !.end = end]
  OBVIOUS
<1>3. w \in Windows /\ w.active = r.window.active
  BY <1>1, <1>2 DEF Windows
<1>4. p = [r EXCEPT !.window = w]
  BY <1>1, <1>2 DEF Recs
<1>5. /\ p.window = w /\ p.cache = r.cache /\ p.file = r.file /\ p.last = r.last
      /\ p.caps = r.caps /\ p.writer = r.writer /\ p.keyed = r.keyed
  BY <1>1, <1>4 DEF Recs
<1>6. p \in Recs
  BY <1>1, <1>3, <1>4 DEF Recs
<1>7. \A t \in Tracks : TrackOK(p, t, r.cache[t], r.file[t], r.last[t], n)
  <2>1. p.window.active = r.window.active /\ r.caps \subseteq p.caps
    BY <1>3, <1>5
  <2>2. \A t \in Tracks : TrackOK(r, t, r.cache[t], r.file[t], r.last[t], n)
    BY DEF RecOK
  <2>3. QED BY <1>5, <2>1, <2>2, TrackSame
<1>8. r.writer.open => p.window.active
  BY <1>3, <1>5 DEF RecOK
<1>9. RecOK(p, n)
  BY <1>5, <1>6, <1>7, <1>8 DEF RecOK
<1>10. QED BY <1>2, <1>5, <1>9 DEF CutTo

\* p is r with the window closed, and nothing else.
OnlyClosed(r, p) ==
  /\ ~p.window.active /\ p.window.end = r.window.end /\ ~p.writer.open
  /\ p.cache = r.cache /\ p.file = r.file /\ p.last = r.last /\ p.caps = r.caps

LEMMA ClosedOK ==
  ASSUME NEW r, NEW n \in Nat, RecOK(r, n), NEW p,
         p = [r EXCEPT !.window.active = FALSE, !.window.retain = 0, !.writer = Closed]
  PROVE  RecOK(p, n) /\ OnlyClosed(r, p)
<1>1. r \in Recs /\ r.window \in Windows
  BY DEF RecOK, Recs
<1>2. PICK w : w = [r.window EXCEPT !.active = FALSE, !.retain = 0]
  OBVIOUS
<1>3. w \in Windows /\ ~w.active /\ w.end = r.window.end
  BY <1>1, <1>2 DEF Windows
<1>4. p = [r EXCEPT !.window = w, !.writer = Closed]
  BY <1>1, <1>2 DEF Recs
<1>5. /\ p.window = w /\ p.cache = r.cache /\ p.file = r.file /\ p.last = r.last
      /\ p.caps = r.caps /\ p.writer = Closed /\ p.keyed = r.keyed
  BY <1>1, <1>4 DEF Recs
<1>6. Closed \in Writers /\ ~Closed.open
  BY NoTimeIsNat DEF Closed, Writers, Time, NoSerial
<1>7. p \in Recs
  BY <1>1, <1>3, <1>4, <1>6 DEF Recs
<1>8. ASSUME NEW t \in Tracks
      PROVE  TrackOK(p, t, r.cache[t], r.file[t], r.last[t], n)
  <2>1. TrackOK(r, t, r.cache[t], r.file[t], r.last[t], n)
    BY DEF RecOK
  <2>2. FileOK(r.file[t], n)
    BY <2>1 DEF TrackOK
  <2>3. StartsKeyed(r.writer, r.cache[t], r.file[t]) => StartsKeyed(p.writer, r.cache[t], r.file[t])
    BY <1>5, <1>6 DEF StartsKeyed
  <2>4. ~p.window.active /\ ~p.writer.open
    BY <1>3, <1>5, <1>6
  <2>5. QED BY <1>5, <2>1, <2>3, <2>4 DEF TrackOK
<1>9. RecOK(p, n)
  BY <1>3, <1>5, <1>6, <1>7, <1>8 DEF RecOK
<1>10. QED BY <1>3, <1>5, <1>6, <1>9 DEF OnlyClosed

\* The cache of one track is pruned to c.
Pruned(r, p, t, c) ==
  /\ OnlyTracks(r, p) /\ p.file = r.file /\ p.cache[t] = c
  /\ \A x \in Tracks : /\ x # t => p.cache[x] = r.cache[x]
                       /\ Lighter(p.cache[x], r.cache[x])

LEMMA PrunedOK ==
  ASSUME NEW r, NEW n \in Nat, RecOK(r, n), NEW t \in Tracks, t # primary \/ ~r.writer.open,
         NEW c, TailOf(c, r.cache[t]), NEW p, p = [r EXCEPT !.cache[t] = c]
  PROVE  RecOK(p, n) /\ Pruned(r, p, t, c)
<1>1. r \in Recs /\ r.cache \in [Tracks -> Seq(Samples)]
  BY DEF RecOK, Recs
<1>2. PICK C : C = [r.cache EXCEPT ![t] = c]
  OBVIOUS
<1>3. p = [r EXCEPT !.cache = C]
  BY <1>1, <1>2 DEF Recs
<1>4. p.cache = C /\ p.file = r.file /\ OnlyTracks(r, p)
  BY <1>1, <1>3 DEF Recs, OnlyTracks
<1>5. C[t] = c /\ \A x \in Tracks : x # t => C[x] = r.cache[x]
  BY <1>1, <1>2
<1>6. \A x \in Tracks : TrackOK(r, x, r.cache[x], r.file[x], r.last[x], n)
  BY DEF RecOK
<1>7. TrackOK(r, t, c, r.file[t], r.last[t], n) /\ Lighter(c, r.cache[t])
  BY <1>6, TailOK
<1>8. \A x \in Tracks : TrackOK(r, x, C[x], r.file[x], r.last[x], n)
  BY <1>5, <1>6, <1>7
<1>9. \A x \in Tracks : TrackOK(p, x, p.cache[x], p.file[x], p.last[x], n)
  <2>1. /\ p.window.active = r.window.active /\ p.writer = r.writer
        /\ p.keyed = r.keyed /\ r.caps \subseteq p.caps /\ p.last = r.last
    BY <1>4 DEF OnlyTracks
  <2>2. QED BY <1>4, <1>8, <2>1, TrackSame
<1>10. p \in Recs
  <2>1. c \in Seq(Samples)
    BY <1>7 DEF TrackOK, CacheOK
  <2>2. C \in [Tracks -> Seq(Samples)]
    BY <1>1, <1>2, <2>1
  <2>3. QED BY <1>1, <1>3, <2>2 DEF Recs
<1>11. RecOK(p, n)
  BY <1>4, <1>9, <1>10 DEF RecOK, OnlyTracks
<1>12. \A x \in Tracks : Lighter(p.cache[x], r.cache[x])
  BY <1>4, <1>5, <1>7 DEF Lighter
<1>13. QED BY <1>4, <1>5, <1>11, <1>12 DEF Pruned

\* What a close does.
Closes(r, p) ==
  /\ ~p.window.active /\ ~p.writer.open /\ p.window.end <= r.window.end
  /\ p.last = r.last /\ p.caps = r.caps
  /\ \A t \in Tracks : /\ Lighter(p.cache[t], r.cache[t])
                       /\ AddedUntil(r.file[t], p.file[t], p.window.end)
  /\ primary \in tracks => Fits(p.cache[primary])
  /\ r.writer.open /\ primary \in r.writer.linked =>
       LET s == r.cache[primary] IN
       \A i \in 1 .. Len(s) : FromStart(r, primary, s[i]) /\ s[i].rt <= p.window.end =>
         Has(p.file[primary], s[i])

LEMMA CloseWindowOK ==
  ASSUME NEW r, NEW n \in Nat, RecOK(r, n), Ctx, r.window.active, NEW closeRt \in Time,
         NEW p, p = CloseWindow(r, closeRt)
  PROVE  /\ RecOK(p, n) /\ Closes(r, p) /\ p.window.end = Lesser(r.window.end, FinalEnd(r, closeRt))
<1>0. r \in Recs /\ r.window.end \in Time
  BY DEF RecOK, Recs, Windows
<1>1. PICK end \in Time : end = FinalEnd(r, closeRt)
  BY <1>0, FinalEndIsTime
<1>2. PICK e \in Time : e = Lesser(r.window.end, end) /\ e <= r.window.end
  BY <1>0, <1>1, LesserTime
<1>3. PICK cut : cut = [r EXCEPT !.window.end = e]
  OBVIOUS
<1>4. PICK s : s = Drain(cut)
  OBVIOUS
<1>5. PICK closed : closed = [s EXCEPT !.window.active = FALSE, !.window.retain = 0, !.writer = Closed]
  OBVIOUS
<1>6. p = IF HasPrimary
          THEN [closed EXCEPT !.cache[primary] = PruneLimits(PruneIdleGop(closed.cache[primary]), end)]
          ELSE closed
  BY <1>1, <1>2, <1>3, <1>4, <1>5 DEF CloseWindow
<1>7. /\ RecOK(cut, n) /\ cut.window = [r.window EXCEPT !.end = e]
      /\ cut.cache = r.cache /\ cut.file = r.file /\ cut.last = r.last /\ cut.caps = r.caps
      /\ cut.writer = r.writer
  <2>1. RecOK(cut, n) /\ CutTo(r, cut, e)
    BY <1>3, CutOK
  <2>2. QED BY <2>1 DEF CutTo
<1>8. cut.window.end = e
  BY <1>0, <1>7 DEF RecOK, Recs, Windows
<1>9. RecOK(s, n) /\ OnlyTracks(cut, s) /\ Drained(cut, s)
  BY <1>4, <1>7, DrainOK
<1>10. /\ RecOK(closed, n) /\ ~closed.window.active /\ closed.window.end = s.window.end
       /\ ~closed.writer.open
       /\ closed.cache = s.cache /\ closed.file = s.file /\ closed.last = s.last /\ closed.caps = s.caps
  <2>1. RecOK(closed, n) /\ OnlyClosed(s, closed)
    BY ONLY n \in Nat, <1>5, <1>9, ClosedOK
  <2>2. QED BY ONLY <2>1 DEF OnlyClosed
<1>11. /\ closed.window.end = e /\ closed.last = r.last /\ closed.caps = r.caps
  BY <1>7, <1>8, <1>9, <1>10 DEF OnlyTracks
<1>12. \A t \in Tracks : /\ Lighter(closed.cache[t], r.cache[t])
                         /\ AddedUntil(r.file[t], closed.file[t], e)
  BY <1>7, <1>8, <1>9, <1>10 DEF Drained
<1>13. ASSUME r.writer.open, primary \in r.writer.linked, NEW i \in 1 .. Len(r.cache[primary]),
              FromStart(r, primary, r.cache[primary][i]), r.cache[primary][i].rt <= e
       PROVE  Has(closed.file[primary], r.cache[primary][i])
  <2>1. FromStart(cut, primary, r.cache[primary][i])
    BY <1>7, <1>13 DEF FromStart
  <2>2. QED BY <1>7, <1>8, <1>9, <1>10, <1>13, <2>1 DEF Drained
<1>14. CASE HasPrimary
  <2>1. PICK c : c = PruneLimits(PruneIdleGop(closed.cache[primary]), end)
    OBVIOUS
  <2>2. closed.cache[primary] \in Seq(Samples) /\ primary \in Tracks
    BY <1>10 DEF RecOK, Recs, Ctx
  <2>3. TailOf(c, closed.cache[primary]) /\ Fits(c)
    BY <2>1, <2>2, GopLimitsOK
  <2>4. p = [closed EXCEPT !.cache[primary] = c]
    BY <1>6, <1>14, <2>1
  <2>5. /\ RecOK(p, n) /\ OnlyTracks(closed, p) /\ p.file = closed.file
        /\ p.cache[primary] = c /\ \A x \in Tracks : Lighter(p.cache[x], closed.cache[x])
    <3>1. RecOK(p, n) /\ Pruned(closed, p, primary, c)
      BY <1>10, <2>2, <2>3, <2>4, PrunedOK
    <3>2. QED BY <3>1 DEF Pruned
  <2>6. \A x \in Tracks : Lighter(p.cache[x], r.cache[x])
    <3>0. \A x \in Tracks : /\ Lighter(p.cache[x], closed.cache[x])
                            /\ Lighter(closed.cache[x], r.cache[x])
      BY ONLY <1>12, <2>5
    <3>1. QED BY ONLY <3>0 DEF Lighter
  <2>7. /\ ~p.window.active /\ ~p.writer.open /\ p.window.end = e /\ p.last = r.last
        /\ p.caps = r.caps
    BY <1>10, <1>11, <2>5 DEF OnlyTracks
  <2>8. Closes(r, p)
    BY <1>2, <1>12, <1>13, <2>3, <2>5, <2>6, <2>7 DEF Closes
  <2>9. QED BY <1>1, <1>2, <2>5, <2>7, <2>8
<1>15. CASE ~HasPrimary
  <2>1. p = closed
    BY <1>6, <1>15
  <2>2. Closes(r, p)
    BY <1>2, <1>10, <1>11, <1>12, <1>13, <1>15, <2>1 DEF Closes, HasPrimary
  <2>3. QED BY <1>1, <1>2, <1>10, <1>11, <2>1, <2>2
<1>16. QED BY <1>14, <1>15

LEMMA AddedTrans ==
  ASSUME NEW f, NEW g \in Seq(Samples), NEW h, NEW u \in Nat, NEW v \in Nat, u <= v,
         AddedUntil(f, g, u), AddedUntil(g, h, v)
  PROVE  AddedUntil(f, h, v)
<1>1. \A a \in 1 .. Len(g) : g[a].rt \in Nat
  BY CacheFields
<1>2. \A a \in 1 .. Len(f) : a \in 1 .. Len(h) /\ h[a] = f[a]
  BY DEF AddedUntil
<1>3. ASSUME NEW a \in 1 .. Len(h), a \notin 1 .. Len(f) PROVE h[a].rt <= v
  <2>1. CASE a \in 1 .. Len(g)
    <3>1. g[a].rt <= u /\ h[a] = g[a]
      BY <1>3, <2>1 DEF AddedUntil
    <3>2. g[a].rt \in Nat
      BY <1>1, <2>1
    <3>3. QED BY <3>1, <3>2
  <2>2. CASE a \notin 1 .. Len(g)
    BY <2>2 DEF AddedUntil
  <2>3. QED BY <2>1, <2>2
<1>4. QED BY <1>2, <1>3 DEF AddedUntil

LEMMA HasMore ==
  ASSUME NEW f, NEW g, NEW u, NEW x, AddedUntil(f, g, u), Has(f, x)
  PROVE  Has(g, x)
BY DEF AddedUntil, Has

\* A sample of the primary track that belongs to the window of p is in its file
\* when it has left the cache or the writer is closed.
Keeps(r, p) ==
  LET s == r.cache[primary] IN
  r.writer.open /\ primary \in r.writer.linked =>
    \A i \in 1 .. Len(s) :
      /\ FromStart(r, primary, s[i]) /\ s[i].rt <= p.window.end
      /\ ~p.writer.open \/ ~Has(p.cache[primary], s[i])
      => Has(p.file[primary], s[i])

\* What a push, and a close after it, do.
Handled(r, p) ==
  /\ p.last = r.last /\ p.caps = r.caps /\ p.window.end = r.window.end
  /\ \A t \in Tracks : /\ Lighter(p.cache[t], r.cache[t])
                       /\ AddedUntil(r.file[t], p.file[t], p.window.end)
  /\ ~p.window.active /\ primary \in tracks => Fits(p.cache[primary])
  /\ Keeps(r, p)

\* q is r after a push that is not after its end.
Before(r, q) ==
  /\ OnlyTracks(r, q)
  /\ \A t \in Tracks : /\ Lighter(q.cache[t], r.cache[t])
                       /\ AddedUntil(r.file[t], q.file[t], r.window.end)
  /\ r.writer.open => Survives(r.cache[primary], q.cache[primary], q.file[primary])

LEMMA MaybeCloseOK ==
  ASSUME NEW r, NEW q, NEW n \in Nat, RecOK(r, n), RecOK(q, n), Before(r, q), Ctx, q.window.active,
         NEW rt \in Time, NEW p, p = MaybeClose(q, rt)
  PROVE  RecOK(p, n) /\ Handled(r, p)
<1>1. q \in Recs /\ q.window.end \in Time /\ r \in Recs
  BY DEF RecOK, Recs, Windows
<1>2. PICK s, c, f : s = r.cache[primary] /\ c = q.cache[primary] /\ f = q.file[primary]
  OBVIOUS
<1>3. /\ q.window.end = r.window.end /\ q.last = r.last /\ q.caps = r.caps /\ q.writer = r.writer
      /\ q.window = r.window
  BY DEF Before, OnlyTracks
<1>4. CASE ~(IsValid(rt) /\ IsValid(q.window.end) /\ rt > q.window.end)
  <2>1. p = q
    BY <1>4 DEF MaybeClose
  <2>2. Keeps(r, p)
    <3>1. SUFFICES ASSUME r.writer.open, NEW i \in 1 .. Len(s), ~Has(c, s[i])
                   PROVE  Has(f, s[i])
      BY <1>2, <1>3, <2>1 DEF Keeps
    <3>2. QED BY <1>2, <3>1 DEF Before, Survives, Has
  <2>3. QED BY <1>3, <2>1, <2>2 DEF Before, Handled
<1>5. CASE IsValid(rt) /\ IsValid(q.window.end) /\ rt > q.window.end
  <2>1. p = CloseWindow(q, rt)
    BY <1>5 DEF MaybeClose
  <2>2. /\ RecOK(p, n) /\ Closes(q, p)
        /\ p.window.end = Lesser(q.window.end, FinalEnd(q, rt))
    BY <2>1, CloseWindowOK
  <2>3. p.window.end = q.window.end
    <3>1. FinalEnd(q, rt) = rt
      BY <1>5 DEF FinalEnd
    <3>2. rt \in Nat /\ q.window.end \in Nat
      BY <1>1, TimeIsNat
    <3>3. QED BY <1>5, <2>2, <3>1, <3>2 DEF Lesser
  <2>4. ASSUME NEW t \in Tracks
        PROVE  /\ Lighter(p.cache[t], r.cache[t])
               /\ AddedUntil(r.file[t], p.file[t], p.window.end)
    <3>1. /\ Lighter(p.cache[t], q.cache[t]) /\ AddedUntil(q.file[t], p.file[t], q.window.end)
          /\ Lighter(q.cache[t], r.cache[t]) /\ AddedUntil(r.file[t], q.file[t], q.window.end)
      BY <1>3, <2>2, <2>3 DEF Closes, Before
    <3>2. q.file[t] \in Seq(Samples)
      BY <1>1 DEF Recs
    <3>4. q.window.end \in Nat /\ q.window.end <= q.window.end
      BY <1>1, TimeIsNat
    <3>5. AddedUntil(r.file[t], p.file[t], q.window.end)
      BY <3>1, <3>2, <3>4, AddedTrans
    <3>6. Lighter(p.cache[t], r.cache[t])
      BY ONLY <3>1 DEF Lighter
    <3>7. QED BY <2>3, <3>5, <3>6
  <2>5. Keeps(r, p)
    <3>1. SUFFICES ASSUME r.writer.open, primary \in r.writer.linked, NEW i \in 1 .. Len(s),
                          FromStart(r, primary, s[i]), s[i].rt <= p.window.end
                   PROVE  Has(p.file[primary], s[i])
      BY <1>2 DEF Keeps
    <3>2. AddedUntil(f, p.file[primary], p.window.end)
      BY <1>2, <2>2 DEF Closes, Ctx
    <3>3. CASE Has(f, s[i])
      BY <3>2, <3>3, HasMore
    <3>4. CASE \E j \in 1 .. Len(c) : c[j].serial = s[i].serial /\ c[j].rt = s[i].rt
      <4>1. PICK j \in 1 .. Len(c) : c[j].serial = s[i].serial /\ c[j].rt = s[i].rt
        BY <3>4
      <4>2. FromStart(q, primary, c[j])
        BY <1>3, <3>1, <4>1 DEF FromStart
      <4>3. Has(p.file[primary], c[j])
        BY <1>2, <1>3, <2>2, <3>1, <4>1, <4>2 DEF Closes
      <4>4. QED BY <4>1, <4>3 DEF Has
    <3>5. QED BY <1>2, <3>1, <3>3, <3>4 DEF Before, Survives
  <2>6. /\ p.last = r.last /\ p.caps = r.caps /\ p.window.end = r.window.end
        /\ primary \in tracks => Fits(p.cache[primary])
    BY <1>3, <2>2, <2>3 DEF Closes
  <2>7. Handled(r, p)
    BY <2>4, <2>5, <2>6 DEF Handled
  <2>8. QED BY <2>2, <2>7
<1>6. QED BY <1>4, <1>5

\* A push up to a time that is not after the end of the window.
LEMMA PushBefore ==
  ASSUME NEW r, NEW n \in Nat, RecOK(r, n), primary \in Tracks, NEW upto \in Time, upto <= r.window.end,
         NEW p, p = PushPending(r, upto)
  PROVE  RecOK(p, n) /\ Before(r, p)
<1>1. upto \in Nat /\ r.window.end \in Nat
  BY TimeIsNat DEF RecOK, Recs, Windows
<1>2. RecOK(p, n) /\ OnlyTracks(r, p) /\ \A t \in Tracks : PushedTrack(r, p, t, upto)
  BY <1>1, PushPendingOK
<1>3. ASSUME NEW t \in Tracks
      PROVE  AddedUntil(r.file[t], p.file[t], r.window.end) /\ Lighter(p.cache[t], r.cache[t])
  <2>1. AddedUntil(r.file[t], p.file[t], upto) /\ Lighter(p.cache[t], r.cache[t])
    BY <1>2 DEF PushedTrack
  <2>2. p.file[t] \in Seq(Samples)
    BY <1>2 DEF RecOK, Recs
  <2>3. \A a \in 1 .. Len(p.file[t]) : p.file[t][a].rt \in Nat
    BY <2>2, CacheFields
  <2>4. ASSUME NEW a \in 1 .. Len(p.file[t]), p.file[t][a].rt <= upto
        PROVE  p.file[t][a].rt <= r.window.end
    <3>1. PICK y \in Nat, e \in Nat : y = p.file[t][a].rt /\ e = r.window.end
      BY <1>1, <2>3
    <3>2. y <= upto /\ upto <= e
      BY ONLY <2>4, <3>1, upto <= r.window.end
    <3>3. y <= e
      BY ONLY <1>1, <3>2, y \in Nat, e \in Nat
    <3>4. QED BY ONLY <3>1, <3>3
  <2>5. AddedUntil(r.file[t], p.file[t], r.window.end)
    BY <2>1, <2>4 DEF AddedUntil
  <2>6. QED BY <2>1, <2>5
<1>4. r.writer.open => Survives(r.cache[primary], p.cache[primary], p.file[primary])
  BY <1>2 DEF PushedTrack
<1>5. QED BY <1>2, <1>3, <1>4 DEF Before

LEMMA OpenedHandled ==
  ASSUME NEW r, NEW o, NEW p, Opened(r, o), Handled(o, p)
  PROVE  Handled(r, p)
<1>1. Keeps(r, p)
  <2>1. CASE r.writer.open
    BY <2>1 DEF Opened, Handled
  <2>2. CASE ~r.writer.open
    BY <2>2 DEF Keeps
  <2>3. QED BY <2>1, <2>2
<1>2. QED BY <1>1 DEF Opened, Handled, Lighter

LEMMA ProgressOK ==
  ASSUME NEW r, NEW n \in Nat, RecOK(r, n), Ctx, r.window.active, NEW t \in Tracks, NEW rt \in Time,
         NEW outcome \in OutcomeSet, NEW p, p = Progress(r, t, rt, outcome)
  PROVE  /\ RecOK(p, n) /\ Handled(r, p)
         /\ t # primary => Fits(p.cache[t])
<1>1. PICK o : o = OpenWriter(r, outcome)
  OBVIOUS
<1>2. RecOK(o, n) /\ Opened(r, o)
  BY <1>1, OpenWriterOK
<1>3. o.window = r.window /\ o.window.active /\ o \in Recs /\ o.window.end \in Time
  BY <1>2 DEF Opened, RecOK, Recs, Windows
<1>4. CASE t = primary
  <2>1. PICK upto \in Time : upto = Lesser(rt, o.window.end) /\ upto <= o.window.end
    BY <1>3, LesserTime
  <2>2. PICK q : q = PushPending(o, upto)
    OBVIOUS
  <2>3. RecOK(q, n) /\ Before(o, q)
    BY <1>2, <2>1, <2>2, PushBefore DEF Ctx
  <2>4. q.window.active
    BY <1>3, <2>3 DEF Before, OnlyTracks
  <2>5. p = MaybeClose(q, rt)
    BY <1>1, <1>4, <2>1, <2>2 DEF Progress
  <2>6. RecOK(p, n) /\ Handled(o, p)
    BY <1>2, <2>3, <2>4, <2>5, MaybeCloseOK
  <2>7. QED BY <1>2, <1>4, <2>6, OpenedHandled
<1>5. CASE t # primary
  <2>1. PICK c : c = PruneLimits(o.cache[t], rt)
    OBVIOUS
  <2>2. p = [o EXCEPT !.cache[t] = c]
    BY <1>1, <1>5, <2>1 DEF Progress
  <2>3. o.cache[t] \in Seq(Samples)
    BY <1>3 DEF Recs
  <2>4. TailOf(c, o.cache[t]) /\ Fits(c)
    BY <2>1, <2>3, LimitsOK
  <2>5. RecOK(p, n) /\ Pruned(o, p, t, c)
    BY <1>2, <1>5, <2>2, <2>4, PrunedOK
  <2>6. Handled(o, p)
    <3>1. /\ p.last = o.last /\ p.caps = o.caps /\ p.window = o.window /\ p.file = o.file
          /\ p.writer = o.writer /\ p.cache[primary] = o.cache[primary]
          /\ \A x \in Tracks : Lighter(p.cache[x], o.cache[x])
      BY <1>5, <2>5 DEF Pruned, OnlyTracks, Ctx
    <3>2. Keeps(o, p)
      BY <3>1 DEF Keeps, Has
    <3>3. \A x \in Tracks : AddedUntil(o.file[x], p.file[x], p.window.end)
      BY <3>1 DEF AddedUntil
    <3>4. p.window.active
      BY <1>3, <3>1
    <3>5. QED BY <3>1, <3>2, <3>3, <3>4 DEF Handled
  <2>7. QED BY <1>2, <2>4, <2>5, <2>6, OpenedHandled DEF Pruned
<1>6. QED BY <1>4, <1>5

(* A new sample.                                                           *)

LEMMA AppendSeq ==
  ASSUME NEW s \in Seq(Samples), NEW x \in Samples, NEW c, c = Append(s, x)
  PROVE  /\ c \in Seq(Samples) /\ Len(c) = Len(s) + 1 /\ Len(s) \in Nat /\ c[Len(s) + 1] = x
         /\ \A i \in 1 .. Len(s) : i \in 1 .. Len(c) /\ c[i] = s[i]
         /\ \A i \in 1 .. Len(c) : i \in 1 .. Len(s) \/ i = Len(s) + 1
<1>1. c \in Seq(Samples) /\ Len(c) = Len(s) + 1 /\ Len(s) \in Nat
  OBVIOUS
<1>2. c[Len(s) + 1] = x /\ \A i \in 1 .. Len(s) : c[i] = s[i]
  OBVIOUS
<1>3. QED BY <1>1, <1>2

LEMMA AppendCacheOK ==
  ASSUME NEW r, NEW p, NEW t, NEW s, NEW f, NEW l, NEW n \in Nat, TrackOK(r, t, s, f, l, n),
         NEW x \in Samples, x.serial = n + 1, ~x.written, x.rt # NoTime,
         l # NoTime => x.rt >= l,
         p.window.active = r.window.active, p.writer = r.writer, p.keyed = r.keyed, t \in p.caps,
         NEW c, c = Append(s, x)
  PROVE  TrackOK(p, t, c, f, x.rt, n + 1)
<1>1. CacheOK(s, l, n) /\ FileOK(f, n) /\ s \in Seq(Samples)
  BY DEF TrackOK, CacheOK
<1>2. /\ c \in Seq(Samples) /\ Len(c) = Len(s) + 1 /\ Len(s) \in Nat /\ c[Len(s) + 1] = x
      /\ \A i \in 1 .. Len(s) : i \in 1 .. Len(c) /\ c[i] = s[i]
      /\ \A i \in 1 .. Len(c) : i \in 1 .. Len(s) \/ i = Len(s) + 1
  BY <1>1, AppendSeq
<1>3. x.rt \in Nat /\ x.serial \in Nat
  BY SampleFields
<1>4. \A i \in 1 .. Len(s) : s[i].rt <= x.rt /\ s[i].serial <= n /\ s[i].serial \in Nat
  <2>1. SUFFICES ASSUME NEW i \in 1 .. Len(s)
                 PROVE  s[i].rt <= x.rt /\ s[i].serial <= n /\ s[i].serial \in Nat
    OBVIOUS
  <2>2. s[i].rt <= l /\ s[i].rt \in Nat /\ l # NoTime
    BY <1>1, LastOf
  <2>3. Len(s) \in 1 .. Len(s) /\ l = s[Len(s)].rt
    BY <1>1, <1>2 DEF CacheOK
  <2>4. l \in Nat
    BY <1>1, <2>3, CacheFields
  <2>5. s[i].rt <= x.rt
    BY <1>3, <2>2, <2>4
  <2>6. QED BY <1>1, <2>5, CacheFields DEF CacheOK
<1>5. CacheOK(c, x.rt, n + 1)
  <2>1. ASSUME NEW i \in 1 .. Len(c) PROVE c[i].rt # NoTime /\ c[i].serial <= n + 1
    <3>1. CASE i = Len(s) + 1
      BY <1>2, <1>3, <3>1
    <3>2. CASE i \in 1 .. Len(s)
      <4>1. s[i].rt # NoTime /\ s[i].serial <= n /\ s[i].serial \in Nat
        BY <1>1, <1>4, <3>2 DEF CacheOK
      <4>2. s[i].serial <= n + 1
        BY <4>1
      <4>3. QED BY <1>2, <3>2, <4>1, <4>2
    <3>3. QED BY <1>2, <3>1, <3>2
  <2>2. ASSUME NEW i \in 1 .. Len(c), NEW j \in 1 .. Len(c), i < j
        PROVE  c[i].rt <= c[j].rt /\ c[i].serial < c[j].serial
    <3>1. i \in 1 .. Len(s)
      BY <1>2, <2>2
    <3>2. CASE j = Len(s) + 1
      BY <1>2, <1>4, <3>1, <3>2
    <3>3. CASE j \in 1 .. Len(s)
      BY <1>1, <1>2, <2>2, <3>1, <3>3 DEF CacheOK
    <3>4. QED BY <1>2, <3>2, <3>3
  <2>3. QED BY <1>2, <2>1, <2>2 DEF CacheOK
<1>6. FileOK(f, n + 1)
  <2>1. \A a \in 1 .. Len(f) : f[a].serial \in Nat
    BY <1>1, CacheFields DEF FileOK
  <2>2. QED BY <1>1, <2>1 DEF FileOK
<1>7. Recorded(s, f) => Recorded(c, f)
  BY <1>2 DEF Recorded
<1>8. Ahead(r, t, s, f) => Ahead(p, t, c, f)
  <2>1. SUFFICES ASSUME Ahead(r, t, s, f), NEW i \in 1 .. Len(c), FromStart(p, t, c[i]), ~c[i].written,
                        NEW a \in 1 .. Len(f)
                 PROVE  f[a].serial < c[i].serial
    BY DEF Ahead
  <2>2. CASE i = Len(s) + 1
    <3>1. f[a].serial <= n /\ f[a].serial \in Nat
      BY <1>1, CacheFields DEF FileOK
    <3>2. QED BY <1>2, <2>2, <3>1
  <2>3. CASE i \in 1 .. Len(s)
    <3>1. FromStart(r, t, s[i]) /\ ~s[i].written
      BY <1>2, <2>1, <2>3 DEF FromStart
    <3>2. QED BY <1>2, <2>1, <2>3, <3>1 DEF Ahead
  <2>4. QED BY <1>2, <2>2, <2>3
<1>9. StartsKeyed(r.writer, s, f) => StartsKeyed(p.writer, c, f)
  BY <1>2 DEF StartsKeyed
<1>10. QED BY <1>5, <1>6, <1>7, <1>8, <1>9 DEF TrackOK

LEMMA NextSerial ==
  ASSUME NEW r, NEW t, NEW s, NEW f, NEW l, NEW n \in Nat, TrackOK(r, t, s, f, l, n)
  PROVE  TrackOK(r, t, s, f, l, n + 1)
<1>1. CacheOK(s, l, n) /\ FileOK(f, n)
  BY DEF TrackOK
<1>2. CacheOK(s, l, n + 1)
  <2>1. \A i \in 1 .. Len(s) : s[i].serial \in Nat
    BY <1>1, CacheFields DEF CacheOK
  <2>2. QED BY <1>1, <2>1 DEF CacheOK
<1>3. FileOK(f, n + 1)
  <2>1. \A a \in 1 .. Len(f) : f[a].serial \in Nat
    BY <1>1, CacheFields DEF FileOK
  <2>2. QED BY <1>1, <2>1 DEF FileOK
<1>4. QED BY <1>2, <1>3 DEF TrackOK

Appends(r, p, t, x) ==
  /\ p.window = r.window /\ p.writer = r.writer /\ p.file = r.file
  /\ p.cache = [r.cache EXCEPT ![t] = Append(r.cache[t], x)]

LEMMA AppendOK ==
  ASSUME NEW r, NEW n \in Nat, RecOK(r, n), NEW t \in tracks, t \in Tracks,
         NEW x \in Samples, x.serial = n + 1, ~x.written, x.rt # NoTime,
         r.last[t] # NoTime => x.rt >= r.last[t],
         NEW p, p = Cached(r, t, x)
  PROVE  RecOK(p, n + 1) /\ Appends(r, p, t, x)
<1>1. /\ r \in Recs /\ r.cache \in [Tracks -> Seq(Samples)] /\ r.last \in [Tracks -> Time]
      /\ r.caps \in SUBSET Tracks
  BY DEF RecOK, Recs
<1>2. PICK C, L, K : /\ C = [r.cache EXCEPT ![t] = Append(r.cache[t], x)]
                     /\ L = [r.last EXCEPT ![t] = x.rt] /\ K = r.caps \cup {t}
  OBVIOUS
<1>3. p = [r EXCEPT !.last = L, !.caps = K, !.cache = C]
  BY <1>1, <1>2 DEF Recs, Cached
<1>4. /\ p.cache = C /\ p.last = L /\ p.caps = K /\ p.window = r.window /\ p.writer = r.writer
      /\ p.file = r.file /\ p.keyed = r.keyed
  BY <1>1, <1>3 DEF Recs
<1>5. C \in [Tracks -> Seq(Samples)] /\ L \in [Tracks -> Time] /\ K \in SUBSET Tracks
  <2>1. Append(r.cache[t], x) \in Seq(Samples)
    BY <1>1
  <2>2. x.rt \in Time
    BY DEF Samples
  <2>3. QED BY <1>1, <1>2, <2>1, <2>2
<1>6. p \in Recs
  BY <1>1, <1>3, <1>5 DEF Recs
<1>7. ASSUME NEW u \in Tracks
      PROVE  TrackOK(p, u, p.cache[u], p.file[u], p.last[u], n + 1)
  <2>1. TrackOK(r, u, r.cache[u], r.file[u], r.last[u], n)
    BY DEF RecOK
  <2>2. p.window.active = r.window.active /\ r.caps \subseteq p.caps
    BY <1>2, <1>4
  <2>3. CASE u = t
    <3>1. p.cache[u] = Append(r.cache[u], x) /\ p.last[u] = x.rt /\ u \in p.caps
      BY <1>1, <1>2, <1>4, <2>3
    <3>2. PICK c : c = Append(r.cache[u], x)
      OBVIOUS
    <3>3. TrackOK(p, u, c, r.file[u], x.rt, n + 1)
      <4>1. PICK s, f, l : s = r.cache[u] /\ f = r.file[u] /\ l = r.last[u]
        OBVIOUS
      <4>2. /\ x.serial = n + 1 /\ ~x.written /\ x.rt # NoTime /\ (l # NoTime => x.rt >= l)
            /\ n \in Nat /\ x \in Samples
        BY <2>3, <4>1
      <4>3. /\ p.window.active = r.window.active /\ p.writer = r.writer /\ p.keyed = r.keyed
            /\ u \in p.caps /\ c = Append(s, x) /\ TrackOK(r, u, s, f, l, n)
        BY <1>4, <2>1, <2>2, <3>1, <3>2, <4>1
      <4>4. TrackOK(p, u, c, f, x.rt, n + 1)
        BY ONLY <4>2, <4>3, AppendCacheOK
      <4>5. QED BY <4>1, <4>4
    <3>4. QED BY <1>4, <3>1, <3>2, <3>3
  <2>4. CASE u # t
    <3>1. p.cache[u] = r.cache[u] /\ p.last[u] = r.last[u]
      BY <1>1, <1>2, <1>4, <2>4
    <3>2. TrackOK(p, u, r.cache[u], r.file[u], r.last[u], n)
      BY <1>4, <2>1, <2>2, TrackSame
    <3>3. TrackOK(p, u, r.cache[u], r.file[u], r.last[u], n + 1)
      BY <3>2, NextSerial
    <3>4. QED BY <1>4, <3>1, <3>3
  <2>5. QED BY <2>3, <2>4
<1>8. K \subseteq tracks
  BY <1>2 DEF RecOK
<1>9. RecOK(p, n + 1)
  BY <1>2, <1>4, <1>6, <1>7, <1>8 DEF RecOK
<1>10. QED BY <1>2, <1>4, <1>9 DEF Appends

(* The inductive invariant.                                                *)

Rest ==
  /\ tracks \subseteq Tracks /\ primary \in Tracks /\ serial \in 0 .. MaxSamples
  /\ upstream_eos \in BOOLEAN /\ disposing \in BOOLEAN /\ stuck \in BOOLEAN
  /\ switched \in BOOLEAN
  /\ now \in 0 .. MaxClock \cup {NoTime}
  /\ triggers \in 0 .. MaxTriggers /\ ops \in 0 .. MaxOps

Bounded(r) ==
  \A t \in Tracks : t # primary \/ ~r.window.active => switched \/ Fits(r.cache[t])

Within(r) == \A t \in Tracks : \A a \in 1 .. Len(r.file[t]) : r.file[t][a].rt <= r.window.end

RecorderInv ==
  /\ Rest
  /\ RecOK(State, serial)
  /\ Bounded(State)
  /\ upstream_eos \/ disposing \/ Within(State)

LEMMA StateFields ==
  /\ State.cache = cache /\ State.last = last /\ State.caps = caps /\ State.window = window
  /\ State.writer = writer /\ State.fatal = fatal_error /\ State.file = file /\ State.keyed = keyed
BY DEF State

LEMMA InvTypes ==
  ASSUME RecorderInv
  PROVE  /\ Ctx /\ State \in Recs /\ serial \in Nat /\ last \in [Tracks -> Time]
         /\ cache \in [Tracks -> Seq(Samples)] /\ file \in [Tracks -> Seq(Samples)]
         /\ window \in Windows /\ writer \in Writers /\ caps \subseteq tracks
         /\ window.start \in Time /\ window.end \in Nat /\ window.end \in Time
<1>1. State \in Recs /\ caps \subseteq tracks
  BY StateFields DEF RecorderInv, RecOK
<1>2. /\ last \in [Tracks -> Time] /\ cache \in [Tracks -> Seq(Samples)]
      /\ file \in [Tracks -> Seq(Samples)] /\ window \in Windows /\ writer \in Writers
  BY <1>1, RecTypes, StateFields
<1>3. window.start \in Time /\ window.end \in Time
  BY <1>2 DEF Windows
<1>4. now \in Time
  BY NoTimeIsNat, EventRecorderAssumption DEF RecorderInv, Rest, Time
<1>5. serial \in Nat
  BY NoTimeIsNat DEF RecorderInv, Rest
<1>6. QED BY <1>1, <1>2, <1>3, <1>4, <1>5, TimeIsNat DEF RecorderInv, Rest, Ctx

LEMMA InvImplies == ASSUME RecorderInv PROVE CacheBounded /\ FileWithinWindow
<1>0. /\ Ctx /\ serial \in Nat /\ last \in [Tracks -> Time]
      /\ cache \in [Tracks -> Seq(Samples)] /\ file \in [Tracks -> Seq(Samples)]
      /\ window \in Windows /\ writer \in Writers /\ caps \subseteq tracks
  BY InvTypes
<1>1. ASSUME NEW t \in Tracks
      PROVE  /\ \A i \in DOMAIN cache[t] : cache[t][i] \in Samples
             /\ \A i, j \in DOMAIN cache[t] : i < j =>
                  /\ cache[t][i].rt <= cache[t][j].rt
                  /\ cache[t][i].serial < cache[t][j].serial
             /\ cache[t] # <<>> => t \in caps /\ last[t] = Last(cache[t]).rt
  <2>1. TrackOK(State, t, cache[t], file[t], last[t], serial)
    BY StateFields DEF RecorderInv, RecOK
  <2>2. PICK s : s = cache[t]
    OBVIOUS
  <2>3. CacheOK(s, last[t], serial) /\ s \in Seq(Samples) /\ (Len(s) > 0 => t \in caps)
    BY <2>1, <2>2, StateFields DEF TrackOK, CacheOK
  <2>4. DOMAIN s = 1 .. Len(s) /\ (s # <<>> => Len(s) > 0)
    BY <2>3
  <2>5. QED BY <2>2, <2>3, <2>4 DEF CacheOK, Last
<1>2. writer.open => window.active /\ writer.linked \subseteq caps
  BY StateFields DEF RecorderInv, RecOK
<1>3. fatal_error \in BOOLEAN /\ keyed \in BOOLEAN
  BY InvTypes, RecTypes, StateFields
<1>4. TypeOK
  <2>1. /\ window \in [active : BOOLEAN, start : Time, end : Time, retain : Pres \cup {0, All}]
        /\ writer \in [open : BOOLEAN, rt : Time, serial : 1 .. NoSerial, linked : SUBSET Tracks]
    BY <1>0 DEF Windows, Writers
  <2>2. DOMAIN file = Tracks
    BY <1>0
  <2>3. QED BY <1>0, <1>1, <1>2, <1>3, <2>1, <2>2 DEF TypeOK, RecorderInv, Rest
<1>5. CacheBounded
  BY <1>4, StateFields DEF CacheBounded, RecorderInv, Bounded
<1>6. FileWithinWindow
  <2>1. ASSUME NEW t \in Tracks PROVE DOMAIN file[t] = 1 .. Len(file[t])
    BY <1>0
  <2>2. QED BY <2>1, StateFields DEF FileWithinWindow, RecorderInv, Within
<1>7. QED BY <1>5, <1>6

LEMMA InvOrder == ASSUME RecorderInv PROVE WrittenOnceInOrder /\ KeyframeFirst
<1>1. ASSUME NEW t \in Tracks
      PROVE  /\ TrackOK(State, t, cache[t], file[t], last[t], serial)
             /\ DOMAIN file[t] = 1 .. Len(file[t]) /\ Len(file[t]) \in Nat
             /\ file[t] # <<>> => Len(file[t]) > 0 /\ Head(file[t]) = file[t][1]
  <2>1. TrackOK(State, t, cache[t], file[t], last[t], serial)
    BY StateFields DEF RecorderInv, RecOK
  <2>2. file[t] \in Seq(Samples)
    BY InvTypes
  <2>3. QED BY <2>1, <2>2
<1>2. WrittenOnceInOrder
  <2>1. SUFFICES ASSUME ~switched, NEW t \in Tracks
                 PROVE  \A i, j \in DOMAIN file[t] : i < j => file[t][i].serial < file[t][j].serial
    BY DEF WrittenOnceInOrder
  <2>2. InOrder(file[t])
    BY <1>1, <2>1 DEF TrackOK
  <2>3. QED BY <1>1, <2>2 DEF InOrder
<1>3. KeyframeFirst
  <2>1. SUFFICES ASSUME AlignStart, keyed, ~switched, NEW t \in Tracks, t = primary, file[t] # <<>>
                 PROVE  Head(file[t]).key
    BY DEF KeyframeFirst
  <2>2. StartsKeyed(State.writer, cache[t], file[t])
    BY <1>1, <2>1, StateFields DEF TrackOK
  <2>3. QED BY <1>1, <2>1, <2>2 DEF StartsKeyed
<1>4. QED BY <1>2, <1>3

LEMMA InvInit == ASSUME Init PROVE RecorderInv
<1> USE NoTimeIsNat, EventRecorderAssumption
<1>1. Rest
  <2>1. MaxSamples \in Nat /\ MaxTriggers \in Nat /\ MaxOps \in Nat
    OBVIOUS
  <2>2. serial = 0 /\ triggers = 0 /\ ops = 0 /\ now = NoTime /\ tracks = {FirstPrimary}
        /\ primary = FirstPrimary
    BY DEF Init
  <2>3. upstream_eos \in BOOLEAN /\ disposing \in BOOLEAN /\ stuck \in BOOLEAN /\ switched \in BOOLEAN
    BY DEF Init
  <2>4. QED BY <2>1, <2>2, <2>3 DEF Rest
<1>2. window \in Windows /\ Closed \in Writers /\ window.end = NoTime /\ ~window.active /\ ~Closed.open
  BY DEF Init, Windows, Writers, Closed, Time, NoSerial
<1>3. State \in Recs
  <2>1. <<>> \in Seq(Samples)
    OBVIOUS
  <2>2. /\ cache \in [Tracks -> Seq(Samples)] /\ file \in [Tracks -> Seq(Samples)]
        /\ last \in [Tracks -> Time] /\ caps \in SUBSET Tracks
    BY <2>1 DEF Init, Time
  <2>3. writer \in Writers /\ fatal_error \in BOOLEAN /\ keyed \in BOOLEAN
    BY <1>2 DEF Init
  <2>4. QED BY <1>2, <2>2, <2>3 DEF State, Recs
<1>4. ASSUME NEW t \in Tracks PROVE TrackOK(State, t, cache[t], file[t], last[t], serial)
  <2>1. cache[t] = <<>> /\ file[t] = <<>> /\ Len(<<>>) = 0 /\ <<>> \in Seq(Samples)
    BY DEF Init
  <2>2. ~State.window.active /\ ~State.writer.open /\ ~State.keyed
    BY <1>2, StateFields DEF Init
  <2>3. QED BY <2>1, <2>2 DEF TrackOK, CacheOK, FileOK, Recorded, InOrder, Ahead, StartsKeyed
<1>5. RecOK(State, serial)
  <2>1. State.caps \subseteq tracks /\ ~State.writer.open
    BY <1>2, StateFields DEF Init
  <2>2. QED BY <1>3, <1>4, <2>1, StateFields DEF RecOK
<1>6. Bounded(State) /\ Within(State)
  <2>1. \A t \in Tracks : cache[t] = <<>> /\ Len(file[t]) = 0
    BY DEF Init
  <2>2. QED BY <2>1, FitsEmpty, StateFields DEF Bounded, Within
<1>7. QED BY <1>1, <1>5, <1>6 DEF RecorderInv

\* The action of RecordedBeforeDropped.
RecordedStep ==
  writer.open /\ primary \in writer.linked =>
    \A i \in DOMAIN cache[primary] : LET x == cache[primary][i] IN
      /\ FromStart(State, primary, x) /\ x.rt <= window'.end
      /\ ~writer'.open \/ x.serial \notin {y.serial : y \in ToSet(cache'[primary])}
      => x.serial \in {y.serial : y \in ToSet(file'[primary])}

LEMMA TrackPrime ==
  ASSUME NEW r, NEW t, NEW s, NEW f, NEW l, NEW n, TrackOK(r, t, s, f, l, n),
         UNCHANGED <<primary, switched>>
  PROVE  TrackOK(r, t, s, f, l, n)'
<1>1. Ahead(r, t, s, f) => Ahead(r, t, s, f)'
  BY DEF Ahead, FromStart
<1>2. QED BY <1>1 DEF TrackOK

LEMMA RecPrime ==
  ASSUME NEW r, NEW n, RecOK(r, n), UNCHANGED <<primary, switched>>, r.caps \subseteq tracks'
  PROVE  RecOK(r, n)'
<1>1. \A t \in Tracks : TrackOK(r, t, r.cache[t], r.file[t], r.last[t], n)'
  <2>1. \A t \in Tracks : TrackOK(r, t, r.cache[t], r.file[t], r.last[t], n)
    BY DEF RecOK
  <2>2. QED BY <2>1, TrackPrime
<1>2. QED BY <1>1 DEF RecOK

\* A recorder state that satisfies the invariant is stored.
LEMMA NextInv ==
  ASSUME NEW p, NEW n, State' = p, serial' = n, UNCHANGED <<primary, switched>>, p.caps \subseteq tracks',
         Rest', RecOK(p, n), Bounded(p), upstream_eos' \/ disposing' \/ Within(p)
  PROVE  RecorderInv'
<1>1. RecOK(p, n)'
  BY RecPrime
<1>2. RecOK(State, serial)'
  BY <1>1
<1>3. Bounded(p)'
  BY DEF Bounded
<1>4. Bounded(State)'
  BY <1>3
<1>5. upstream_eos' \/ disposing' \/ Within(State)'
  <2>1. Within(p) => Within(p)'
    BY DEF Within
  <2>2. Within(p)' => Within(State)'
    OBVIOUS
  <2>3. QED BY <2>1, <2>2
<1>6. QED BY <1>2, <1>4, <1>5 DEF RecorderInv

LEMMA StoreIs ==
  ASSUME NEW p \in Recs, Store(p)
  PROVE  State' = p /\ switched' = switched
BY DEF Store, State, Recs

LEMMA StoreInv ==
  ASSUME NEW p, NEW n, Store(p), serial' = n, UNCHANGED <<tracks, primary>>,
         Rest', RecOK(p, n), Bounded(p), upstream_eos' \/ disposing' \/ Within(p)
  PROVE  RecorderInv'
<1>1. p \in Recs /\ p.caps \subseteq tracks'
  BY DEF RecOK
<1>2. State' = p /\ switched' = switched
  BY <1>1, StoreIs
<1>3. QED BY <1>1, <1>2, NextInv

LEMMA InSerials ==
  ASSUME NEW f \in Seq(Samples), NEW x
  PROVE  Has(f, x) <=> x.serial \in {y.serial : y \in ToSet(f)}
<1>1. DOMAIN f = 1 .. Len(f)
  OBVIOUS
<1>2. QED BY <1>1 DEF Has, ToSet

LEMMA KeepsRecorded ==
  ASSUME RecorderInv, NEW p \in Recs, Store(p), Keeps(State, p)
  PROVE  RecordedStep
<1>1. /\ cache' = p.cache /\ file' = p.file /\ window' = p.window /\ writer' = p.writer
  BY DEF Store
<1>2. /\ cache[primary] \in Seq(Samples) /\ p.cache[primary] \in Seq(Samples)
      /\ p.file[primary] \in Seq(Samples) /\ DOMAIN cache[primary] = 1 .. Len(cache[primary])
  <2>1. primary \in Tracks /\ cache \in [Tracks -> Seq(Samples)]
    BY InvTypes DEF Ctx
  <2>2. QED BY <2>1 DEF Recs
<1>3. SUFFICES ASSUME writer.open, primary \in writer.linked, NEW i \in 1 .. Len(cache[primary]),
                      NEW x, x = cache[primary][i],
                      FromStart(State, primary, x), x.rt <= p.window.end,
                      ~p.writer.open \/ x.serial \notin {y.serial : y \in ToSet(p.cache[primary])}
               PROVE  x.serial \in {y.serial : y \in ToSet(p.file[primary])}
  BY <1>1, <1>2 DEF RecordedStep
<1>4. ~p.writer.open \/ ~Has(p.cache[primary], x)
  BY <1>2, <1>3, InSerials
<1>5. Has(p.file[primary], x)
  BY <1>3, <1>4, StateFields DEF Keeps
<1>6. QED BY <1>2, <1>5, InSerials

LEMMA IdleRecorded == ASSUME ~writer.open PROVE RecordedStep
BY DEF RecordedStep

LEMMA SameRecorded ==
  ASSUME RecorderInv, cache' = cache, writer'.open = writer.open
  PROVE  RecordedStep
<1>1. \A i \in DOMAIN cache[primary] :
         cache[primary][i].serial \in {y.serial : y \in ToSet(cache[primary])}
  BY DEF ToSet
<1>2. QED BY <1>1 DEF RecordedStep

(* The handlers on recorder states.                                        *)

LEMMA NoCacheFits ==
  ASSUME NEW r, NEW n, RecOK(r, n), NEW t \in Tracks, t \notin tracks
  PROVE  Fits(r.cache[t])
<1>1. r.cache[t] \in Seq(Samples)
  BY DEF RecOK, Recs
<1>2. Len(r.cache[t]) > 0 => t \in r.caps
  BY DEF RecOK, TrackOK
<1>3. r.cache[t] = <<>>
  BY <1>1, <1>2 DEF RecOK
<1>4. QED BY <1>3, FitsEmpty

LEMMA HandledBounded ==
  ASSUME NEW r, NEW p, NEW n, RecOK(p, n), Bounded(r), Handled(r, p),
         r.window.active, primary \in Tracks
  PROVE  Bounded(p)
<1>1. SUFFICES ASSUME NEW t \in Tracks, t # primary \/ ~p.window.active, ~switched
               PROVE  Fits(p.cache[t])
  BY DEF Bounded
<1>2. CASE t # primary
  BY <1>1, <1>2 DEF Bounded, Handled, Lighter
<1>3. CASE t = primary /\ primary \in tracks
  BY <1>1, <1>3 DEF Handled
<1>4. CASE t = primary /\ primary \notin tracks
  BY <1>4, NoCacheFits
<1>5. QED BY <1>2, <1>3, <1>4

LEMMA AddedWithin ==
  ASSUME NEW r, NEW p, NEW e \in Nat, Within(r), r.window.end = e, p.window.end = e,
         \A t \in Tracks : AddedUntil(r.file[t], p.file[t], e)
  PROVE  Within(p)
BY DEF Within, AddedUntil

LEMMA NormalizeOK ==
  ASSUME NEW lastRt \in Time, NEW bufferRt \in Time, NEW clockRt \in Time,
         NEW rt, rt = Normalize(lastRt, bufferRt, clockRt)
  PROVE  rt < NoTime => rt \in Time /\ rt # NoTime /\ (lastRt # NoTime => rt >= lastRt)
<1>1. NoTime \in Nat /\ 0 # NoTime
  BY NoTimeIsNat, EventRecorderAssumption DEF NoTime
<1>2. QED BY <1>1 DEF Normalize, IsValid, Greater, Time

LEMMA BufferTimeIsTime ==
  ASSUME RecorderInv, NEW t \in Tracks, NEW bufferRt \in BufferTimes(t)
  PROVE  bufferRt \in Time
<1>1. last[t] \in Nat
  BY InvTypes, TimeIsNat
<1>2. Horizon \in Nat /\ Horizon <= NoTime /\ NoTime \in Nat
  BY EventRecorderAssumption, NoTimeIsNat DEF NoTime
<1>3. bufferRt \in Nat
  BY <1>1, <1>2 DEF BufferTimes, Minus
<1>4. bufferRt <= Horizon \/ bufferRt = NoTime
  BY DEF BufferTimes
<1>5. QED BY <1>2, <1>3, <1>4 DEF Time

\* The state after a sample was appended keeps what the state before it kept.
LEMMA KeepsBefore ==
  ASSUME RecorderInv, NEW r, NEW p, NEW t \in Tracks, NEW x, Keeps(r, p), r.writer = writer,
         r.cache = [cache EXCEPT ![t] = Append(cache[t], x)], x \in Samples
  PROVE  Keeps(State, p)
<1>1. PICK s, c : s = cache[primary] /\ c = r.cache[primary]
  OBVIOUS
<1>2. s \in Seq(Samples) /\ cache \in [Tracks -> Seq(Samples)] /\ primary \in Tracks
  BY <1>1, InvTypes DEF Ctx
<1>3. \A i \in 1 .. Len(s) : i \in 1 .. Len(c) /\ c[i] = s[i]
  <2>1. c = Append(s, x) \/ c = s
    BY <1>1, <1>2
  <2>2. CASE c = s
    BY <2>2
  <2>3. CASE c = Append(s, x)
    <3>1. s \in Seq(Samples) /\ x \in Samples
      BY <1>2
    <3>2. QED BY ONLY <2>3, <3>1, AppendSeq
  <2>4. QED BY <2>1, <2>2, <2>3
<1>4. SUFFICES ASSUME writer.open, primary \in writer.linked, NEW i \in 1 .. Len(s),
                      FromStart(State, primary, s[i]), s[i].rt <= p.window.end,
                      ~p.writer.open \/ ~Has(p.cache[primary], s[i])
               PROVE  Has(p.file[primary], s[i])
  BY <1>1, StateFields DEF Keeps
<1>5. FromStart(r, primary, c[i]) /\ i \in 1 .. Len(c) /\ c[i] = s[i]
  BY <1>3, <1>4, StateFields DEF FromStart
<1>6. QED BY <1>1, <1>4, <1>5 DEF Keeps

LEMMA AllOutcomes == ASSUME NEW o \in Outcomes PROVE o \in OutcomeSet /\ FaultCost(o) \in {0, 1}
                                                    /\ (ops = MaxOps => FaultCost(o) = 0)
<1>1. ops = MaxOps /\ MaxOps \in Nat => ~(ops < MaxOps)
  OBVIOUS
<1>2. MaxOps \in Nat
  BY EventRecorderAssumption
<1>3. QED BY <1>1, <1>2 DEF Outcomes, OutcomeSet, FaultCost

LEMMA OpsOK ==
  ASSUME RecorderInv, NEW o \in Outcomes, ops' = ops + FaultCost(o)
  PROVE  ops' \in 0 .. MaxOps
<1>1. MaxOps \in Nat /\ ops \in 0 .. MaxOps
  BY EventRecorderAssumption DEF RecorderInv, Rest
<1>2. QED BY <1>1, AllOutcomes

LEMMA RecCache ==
  ASSUME NEW r, NEW n, RecOK(r, n), NEW t \in Tracks
  PROVE  r.cache[t] \in Seq(Samples)
BY DEF RecOK, Recs

LEMMA NewSample ==
  ASSUME RecorderInv, serial < MaxSamples, NEW rt \in Time, NEW key \in BOOLEAN,
         NEW x, x = [rt |-> rt, serial |-> serial + 1, key |-> key, written |-> FALSE]
  PROVE  x \in Samples /\ x.serial = serial + 1 /\ ~x.written /\ x.rt = rt
<1>1. serial + 1 \in 1 .. MaxSamples
  BY InvTypes, NoTimeIsNat
<1>2. QED BY <1>1 DEF Samples

LEMMA SampleTime ==
  ASSUME RecorderInv, NEW t \in Tracks, NEW bufferRt \in BufferTimes(t),
         NEW rt, rt = Normalize(last[t], bufferRt, now), rt < NoTime
  PROVE  rt \in Time /\ rt # NoTime /\ (last[t] # NoTime => rt >= last[t])
<1>1. last[t] \in Time /\ now \in Time /\ bufferRt \in Time
  BY InvTypes, BufferTimeIsTime DEF Ctx
<1>2. QED BY <1>1, NormalizeOK

\* The result of process_sample, r the state after the sample was put in the cache.
Processed(r, t, rt, outcome) ==
  IF window.active THEN Progress(r, t, rt, outcome)
  ELSE [r EXCEPT !.cache[t] = PruneLimits(PruneIdleGop(r.cache[t]), rt)]

\* p may be stored after a step that only changes the recorder state.
Storable(p, n) ==
  /\ RecOK(p, n) /\ Bounded(p) /\ Keeps(State, p)
  /\ upstream_eos \/ disposing \/ Within(p)

\* A new sample, whether or not a window is open.
LEMMA SampleOK ==
  ASSUME RecorderInv, NEW t \in Tracks, t \in tracks, NEW outcome \in OutcomeSet,
         NEW rt \in Time, rt # NoTime, last[t] # NoTime => rt >= last[t],
         NEW x \in Samples, x.serial = serial + 1, ~x.written, x.rt = rt,
         NEW r, r = Cached(State, t, x),
         NEW p, p = Processed(r, t, rt, outcome)
  PROVE  Storable(p, serial + 1)
<1>0. /\ Ctx /\ State \in Recs /\ serial \in Nat /\ last \in [Tracks -> Time]
      /\ cache \in [Tracks -> Seq(Samples)] /\ window.end \in Nat /\ t \in Tracks
      /\ RecOK(State, serial)
  BY InvTypes DEF RecorderInv, Ctx
<1>1. rt \in Time /\ rt # NoTime /\ (last[t] # NoTime => rt >= last[t])
  OBVIOUS
<1>2. /\ x \in Samples /\ x.serial = serial + 1 /\ ~x.written /\ x.rt = rt
  OBVIOUS
<1>3. /\ RecOK(r, serial + 1) /\ r.window = window /\ r.writer = writer /\ r.file = file
      /\ r.cache = [cache EXCEPT ![t] = Append(cache[t], x)]
  <2>1. r = Cached(State, t, x)
    OBVIOUS
  <2>2. /\ RecOK(r, serial + 1) /\ r.window = State.window /\ r.writer = State.writer
        /\ r.file = State.file
        /\ r.cache = [State.cache EXCEPT ![t] = Append(State.cache[t], x)]
    <3>1. /\ RecOK(State, serial) /\ serial \in Nat /\ t \in tracks /\ t \in Tracks /\ x \in Samples
          /\ x.serial = serial + 1 /\ ~x.written /\ x.rt # NoTime
          /\ State.last[t] # NoTime => x.rt >= State.last[t]
      BY <1>0, <1>1, <1>2, StateFields
    <3>2. PICK S, k : S = State /\ k = serial
      OBVIOUS
    <3>3. /\ RecOK(S, k) /\ k \in Nat /\ t \in tracks /\ t \in Tracks /\ x \in Samples
          /\ x.serial = k + 1 /\ ~x.written /\ x.rt # NoTime
          /\ (S.last[t] # NoTime => x.rt >= S.last[t])
          /\ r = Cached(S, t, x)
      BY ONLY <2>1, <3>1, <3>2
    <3>4. RecOK(r, k + 1) /\ Appends(S, r, t, x)
      BY ONLY <3>3, AppendOK
    <3>5. QED BY ONLY <3>2, <3>4 DEF Appends
  <2>3. QED BY <2>2, StateFields
<1>4. \A u \in Tracks : u # t => r.cache[u] = cache[u]
  BY <1>0, <1>3
<1>5. serial + 1 \in Nat
  BY <1>0
<1>6. CASE window.active
  <2>1. p = Progress(r, t, rt, outcome) /\ r.window.active
    BY <1>3, <1>6 DEF Processed
  <2>2. /\ RecOK(p, serial + 1) /\ Handled(r, p)
        /\ t # primary => Fits(p.cache[t])
    <3>1. /\ serial + 1 \in Nat /\ RecOK(r, serial + 1) /\ Ctx /\ r.window.active /\ t \in Tracks
          /\ rt \in Time /\ outcome \in OutcomeSet /\ p = Progress(r, t, rt, outcome)
      BY <1>0, <1>1, <1>3, <1>5, <2>1
    <3>2. QED BY ONLY <3>1, ProgressOK
  <2>3. Bounded(p)
    <3>1. SUFFICES ASSUME NEW u \in Tracks, u # primary \/ ~p.window.active, ~switched
                   PROVE  Fits(p.cache[u])
      BY DEF Bounded
    <3>2. CASE u # primary /\ u = t
      BY <2>2, <3>1, <3>2
    <3>3. CASE u # primary /\ u # t
      <4>1. Fits(cache[u])
        BY <3>1, <3>3, StateFields DEF RecorderInv, Bounded
      <4>2. Lighter(p.cache[u], cache[u])
        BY <1>4, <2>2, <3>3 DEF Handled
      <4>3. QED BY <4>1, <4>2 DEF Lighter
    <3>4. CASE u = primary
      <4>1. CASE primary \in tracks
        BY <2>2, <3>1, <3>4, <4>1 DEF Handled
      <4>2. CASE primary \notin tracks
        BY <2>2, <3>4, <4>2, NoCacheFits
      <4>3. QED BY <4>1, <4>2
    <3>5. QED BY <3>2, <3>3, <3>4
  <2>4. Keeps(State, p)
    <3>1. /\ Keeps(r, p) /\ r.writer = writer /\ t \in Tracks /\ x \in Samples /\ RecorderInv
          /\ r.cache = [cache EXCEPT ![t] = Append(cache[t], x)]
      BY <1>0, <1>2, <1>3, <2>2 DEF Handled
    <3>2. QED BY ONLY <3>1, KeepsBefore
  <2>5. upstream_eos \/ disposing \/ Within(p)
    <3>1. SUFFICES ASSUME Within(State) PROVE Within(p)
      BY DEF RecorderInv
    <3>2. p.window.end = window.end /\ \A u \in Tracks : AddedUntil(file[u], p.file[u], window.end)
      BY <1>3, <2>2 DEF Handled
    <3>3. /\ Within(State) /\ State.window.end = window.end /\ window.end \in Nat
          /\ p.window.end = window.end
          /\ \A u \in Tracks : AddedUntil(State.file[u], p.file[u], window.end)
      BY ONLY <1>0, <3>1, <3>2, StateFields
    <3>4. QED BY ONLY <3>3, AddedWithin
  <2>6. QED BY <2>2, <2>3, <2>4, <2>5 DEF Storable
<1>7. CASE ~window.active
  <2>1. ~writer.open /\ ~r.writer.open
    BY <1>0, <1>3, <1>7, StateFields DEF RecOK
  <2>2. PICK c : c = PruneLimits(PruneIdleGop(r.cache[t]), rt)
    OBVIOUS
  <2>3. r.cache[t] \in Seq(Samples)
    BY ONLY <1>0, <1>3, RecCache
  <2>4. TailOf(c, r.cache[t]) /\ Fits(c)
    BY <1>1, <2>2, <2>3, GopLimitsOK
  <2>5. p = [r EXCEPT !.cache[t] = c]
    BY <1>7, <2>2 DEF Processed
  <2>6. RecOK(p, serial + 1) /\ Pruned(r, p, t, c)
    <3>1. /\ RecOK(r, serial + 1) /\ serial + 1 \in Nat /\ t \in Tracks /\ ~r.writer.open
          /\ TailOf(c, r.cache[t]) /\ p = [r EXCEPT !.cache[t] = c]
      BY <1>0, <1>3, <1>5, <2>1, <2>4, <2>5
    <3>2. QED BY ONLY <3>1, PrunedOK
  <2>7. Bounded(p)
    <3>1. SUFFICES ASSUME NEW u \in Tracks, ~switched
                   PROVE  Fits(p.cache[u])
      BY DEF Bounded
    <3>2. CASE u = t
      BY <2>4, <2>6, <3>1, <3>2 DEF Pruned
    <3>3. CASE u # t
      <4>1. p.cache[u] = cache[u]
        BY <1>4, <2>6, <3>3 DEF Pruned
      <4>2. QED BY <1>7, <3>1, <4>1, StateFields DEF RecorderInv, Bounded
    <3>4. QED BY <3>2, <3>3
  <2>8. Keeps(State, p)
    BY <2>1, StateFields DEF Keeps
  <2>9. upstream_eos \/ disposing \/ Within(p)
    <3>1. p.file = file /\ p.window = window
      BY <1>3, <2>6 DEF Pruned, OnlyTracks
    <3>2. Within(State) => Within(p)
      BY <3>1, StateFields DEF Within
    <3>3. QED BY <3>2 DEF RecorderInv
  <2>10. QED BY <2>6, <2>7, <2>8, <2>9 DEF Storable
<1>8. QED BY <1>6, <1>7

(* Each action keeps the invariant and loses no sample of the window.      *)

Safe == RecorderInv' /\ RecordedStep

\* The variables a handler leaves alone but for those of Store.
LEMMA StoreSafe ==
  ASSUME RecorderInv, NEW p, NEW n \in 0 .. MaxSamples, Store(p), serial' = n,
         UNCHANGED <<tracks, primary, stuck, now>>,
         upstream_eos' \in BOOLEAN, disposing' \in BOOLEAN,
         triggers' \in 0 .. MaxTriggers, ops' \in 0 .. MaxOps,
         RecOK(p, n), Bounded(p), upstream_eos' \/ disposing' \/ Within(p), Keeps(State, p)
  PROVE  Safe
<1>1. p \in Recs
  BY DEF RecOK
<1>2. switched' = switched
  BY DEF Store
<1>3. Rest'
  BY <1>2 DEF RecorderInv, Rest
<1>4. RecorderInv'
  BY ONLY <1>3, StoreInv, Store(p), serial' = n, UNCHANGED <<tracks, primary, stuck, now>>,
          RecOK(p, n), Bounded(p), upstream_eos' \/ disposing' \/ Within(p)
<1>5. RecordedStep
  BY <1>1, KeepsRecorded
<1>6. QED BY <1>4, <1>5 DEF Safe

LEMMA KeepsItself == ASSUME RecorderInv PROVE Keeps(State, State)
BY StateFields DEF Keeps, Has, RecorderInv, RecOK

LEMMA InvBounds ==
  ASSUME RecorderInv
  PROVE  /\ serial \in 0 .. MaxSamples /\ triggers \in 0 .. MaxTriggers /\ ops \in 0 .. MaxOps
         /\ upstream_eos \in BOOLEAN /\ disposing \in BOOLEAN /\ RecOK(State, serial)
         /\ Bounded(State) /\ (upstream_eos \/ disposing \/ Within(State))
BY DEF RecorderInv, Rest

LEMMA ProcessSampleSafe == ASSUME RecorderInv, NEW t \in Tracks, ProcessSample(t) PROVE Safe
<1>1. /\ UNCHANGED <<tracks, primary, stuck, now>> /\ t \in tracks /\ serial < MaxSamples
      /\ upstream_eos' = upstream_eos /\ disposing' = disposing /\ triggers' = triggers
  BY DEF ProcessSample
<1>2. /\ upstream_eos' \in BOOLEAN /\ disposing' \in BOOLEAN /\ triggers' \in 0 .. MaxTriggers
  BY <1>1, InvBounds
<1>3. CASE fatal_error /\ Store(State) /\ UNCHANGED <<serial, ops>>
  <2>1. /\ Store(State) /\ serial' = serial /\ ops' \in 0 .. MaxOps
        /\ upstream_eos' \/ disposing' \/ Within(State)
    BY <1>1, <1>3, InvBounds
  <2>2. QED BY <1>1, <1>2, <2>1, InvBounds, KeepsItself, StoreSafe
<1>4. CASE ~(fatal_error /\ Store(State) /\ UNCHANGED <<serial, ops>>)
  <2>1. PICK bufferRt \in BufferTimes(t), key \in KeyFlags(t), outcome \in Outcomes :
          LET rt == Normalize(last[t], bufferRt, now)
              sample == [rt |-> rt, serial |-> serial + 1, key |-> key, written |-> FALSE]
              r == Cached(State, t, sample)
          IN  /\ rt < NoTime
              /\ serial' = serial + 1
              /\ ops' = ops + FaultCost(outcome)
              /\ Store(IF window.active THEN Progress(r, t, rt, outcome)
                       ELSE [r EXCEPT !.cache[t] = PruneLimits(PruneIdleGop(@), rt)])
    BY <1>4 DEF ProcessSample
  <2>2. PICK rt : rt = Normalize(last[t], bufferRt, now)
    OBVIOUS
  <2>3. PICK x : x = [rt |-> rt, serial |-> serial + 1, key |-> key, written |-> FALSE]
    OBVIOUS
  <2>4. PICK r : r = Cached(State, t, x)
    OBVIOUS
  <2>5. PICK p : p = Processed(r, t, rt, outcome)
    OBVIOUS
  <2>6. Store(p) /\ serial' = serial + 1 /\ ops' = ops + FaultCost(outcome) /\ rt < NoTime
    BY ONLY <2>1, <2>2, <2>3, <2>4, <2>5 DEF Processed
  <2>7. key \in BOOLEAN
    <3>1. KeyFlags(t) \subseteq BOOLEAN
      BY DEF KeyFlags
    <3>2. QED BY <3>1
  <2>8. ops' \in 0 .. MaxOps
    BY ONLY RecorderInv, outcome \in Outcomes, <2>6, OpsOK
  <2>9. outcome \in OutcomeSet
    BY AllOutcomes
  <2>10. Storable(p, serial + 1)
    <3>1. rt \in Time /\ rt # NoTime /\ (last[t] # NoTime => rt >= last[t])
      BY <2>2, <2>6, SampleTime
    <3>2. x \in Samples /\ x.serial = serial + 1 /\ ~x.written /\ x.rt = rt
      BY <1>1, <2>3, <2>7, <3>1, NewSample
    <3>3. QED BY ONLY RecorderInv, t \in Tracks, <1>1, <2>4, <2>5, <2>9, <3>1, <3>2, SampleOK
  <2>11. serial + 1 \in 0 .. MaxSamples
    BY <1>1, InvBounds, EventRecorderAssumption
  <2>12. upstream_eos' \/ disposing' \/ Within(p)
    BY <1>1, <2>10 DEF Storable
  <2>13. QED BY ONLY RecorderInv, <1>1, <1>2, <2>6, <2>8, <2>10, <2>11, <2>12, StoreSafe DEF Storable
<1>5. QED BY <1>3, <1>4

LEMMA ClosesSafe ==
  ASSUME RecorderInv, NEW p, NEW closeRt \in Time, window.active, p = CloseWindow(State, closeRt)
  PROVE  RecOK(p, serial) /\ Bounded(p) /\ Keeps(State, p)
<1>1. RecOK(State, serial) /\ serial \in Nat /\ Ctx /\ State.window.active
  BY InvBounds, InvTypes, StateFields
<1>2. RecOK(p, serial) /\ Closes(State, p)
  BY <1>1, CloseWindowOK
<1>3. Bounded(p)
  <2>1. SUFFICES ASSUME NEW t \in Tracks, ~switched
                 PROVE  Fits(p.cache[t])
    BY DEF Bounded
  <2>2. CASE t # primary
    <3>1. Fits(State.cache[t])
      BY <2>1, <2>2, InvBounds DEF Bounded
    <3>2. Lighter(p.cache[t], State.cache[t])
      BY <1>2 DEF Closes
    <3>3. QED BY <3>1, <3>2 DEF Lighter
  <2>3. CASE t = primary /\ t \in tracks
    BY <1>2, <2>3 DEF Closes
  <2>4. CASE t \notin tracks
    BY <1>2, <2>4, NoCacheFits
  <2>5. QED BY <2>2, <2>3, <2>4
<1>4. Keeps(State, p)
  BY <1>2 DEF Closes, Keeps
<1>5. QED BY <1>2, <1>3, <1>4

LEMMA OnEosSafe == ASSUME RecorderInv, NEW t \in Tracks, OnEos(t) PROVE Safe
<1>1. PICK p : p = CloseWindow(State, last[t])
  OBVIOUS
<1>2. /\ UNCHANGED <<tracks, primary, stuck, now>> /\ Store(p) /\ serial' = serial
      /\ upstream_eos' = TRUE /\ disposing' = disposing /\ triggers' = triggers /\ ops' = ops
  BY <1>1 DEF OnEos
<1>3. RecOK(p, serial) /\ Bounded(p) /\ Keeps(State, p)
  <2>1. CASE window.active
    <3>1. last[t] \in Time
      BY InvTypes
    <3>2. QED BY <1>1, <2>1, <3>1, ClosesSafe
  <2>2. CASE ~window.active
    <3>1. p = State
      BY <1>1, <2>2, StateFields DEF CloseWindow
    <3>2. QED BY <3>1, InvBounds, KeepsItself
  <2>3. QED BY <2>1, <2>2
<1>4. QED BY <1>2, <1>3, InvBounds, StoreSafe

LEMMA DisposeSafe == ASSUME RecorderInv, Dispose PROVE Safe
<1>1. PICK p : p = IF writer.open THEN CloseWindow(State, NoTime) ELSE State
  OBVIOUS
<1>2. /\ UNCHANGED <<tracks, primary, stuck, now>> /\ Store(p) /\ serial' = serial
      /\ upstream_eos' = upstream_eos /\ disposing' = TRUE /\ triggers' = triggers /\ ops' = ops
  BY <1>1 DEF Dispose
<1>3. RecOK(p, serial) /\ Bounded(p) /\ Keeps(State, p)
  <2>1. CASE writer.open
    <3>1. NoTime \in Time /\ window.active
      BY <2>1, InvBounds, StateFields, NoTimeIsNat DEF RecOK, Time
    <3>2. p = CloseWindow(State, NoTime)
      BY <1>1, <2>1
    <3>3. QED BY <3>1, <3>2, ClosesSafe
  <2>2. CASE ~writer.open
    <3>1. p = State
      BY <1>1, <2>2
    <3>2. QED BY <3>1, InvBounds, KeepsItself
  <2>3. QED BY <2>1, <2>2
<1>4. QED BY <1>2, <1>3, InvBounds, StoreSafe

LEMMA CloseTimerSafe == ASSUME RecorderInv, CloseTimer PROVE Safe
<1>1. PICK r : r = IF window.active THEN Drain(State) ELSE State
  OBVIOUS
<1>2. PICK p : p = IF window.active THEN MaybeClose(r, now) ELSE r
  OBVIOUS
<1>3. /\ UNCHANGED <<tracks, primary, stuck, now>> /\ Store(p) /\ serial' = serial
      /\ upstream_eos' = upstream_eos /\ disposing' = disposing /\ triggers' = triggers /\ ops' = ops
  BY <1>1, <1>2 DEF CloseTimer
<1>4. RecOK(p, serial) /\ Bounded(p) /\ Keeps(State, p) /\ (upstream_eos \/ disposing \/ Within(p))
  <2>0. RecOK(State, serial) /\ serial \in Nat /\ Ctx /\ primary \in Tracks
    BY InvBounds, InvTypes DEF Ctx
  <2>1. CASE window.active
    <3>1. r = Drain(State) /\ p = MaybeClose(r, now) /\ State.window.active /\ now \in Time
      BY <1>1, <1>2, <2>0, <2>1, StateFields DEF Ctx
    <3>2. RecOK(r, serial) /\ OnlyTracks(State, r) /\ Drained(State, r)
      BY <2>0, <3>1, DrainOK
    <3>3. Before(State, r) /\ r.window.active
      BY <3>1, <3>2 DEF Before, Drained, OnlyTracks
    <3>4. RecOK(p, serial) /\ Handled(State, p)
      BY ONLY <2>0, <3>1, <3>2, <3>3, MaybeCloseOK
    <3>5. Bounded(p)
      BY <2>0, <3>1, <3>4, InvBounds, HandledBounded
    <3>6. Within(State) => Within(p)
      <4>1. /\ State.window.end \in Nat /\ p.window.end = State.window.end
            /\ \A t \in Tracks : AddedUntil(State.file[t], p.file[t], State.window.end)
        BY <3>4, InvTypes, StateFields DEF Handled
      <4>2. QED BY ONLY <4>1, AddedWithin
    <3>7. QED BY <3>4, <3>5, <3>6, InvBounds DEF Handled
  <2>2. CASE ~window.active
    <3>1. p = State
      BY <1>1, <1>2, <2>2
    <3>2. QED BY <3>1, InvBounds, KeepsItself
  <2>3. QED BY <2>1, <2>2
<1>5. QED BY <1>3, <1>4, InvBounds, StoreSafe

LEMMA StateSame ==
  ASSUME UNCHANGED <<cache, last, caps, window, writer, fatal_error, file, keyed>>
  PROVE  State' = State
BY DEF State

\* Nothing that State or the invariant of a track depends on changes.
LEMMA IdleSafe ==
  ASSUME RecorderInv, UNCHANGED <<cache, last, caps, serial, window, writer, fatal_error, file, keyed,
                           primary, switched, upstream_eos, disposing>>,
         Rest', tracks \subseteq tracks'
  PROVE  Safe
<1>1. State' = State
  BY StateSame
<1>2. State.caps \subseteq tracks'
  BY InvTypes, StateFields
<1>3. RecorderInv'
  BY <1>1, <1>2, InvBounds, NextInv
<1>4. QED BY <1>3, SameRecorded DEF Safe

LEMMA RequestPadSafe == ASSUME RecorderInv, NEW t \in Tracks, RequestPad(t) PROVE Safe
<1>1. /\ UNCHANGED <<cache, last, caps, serial, window, writer, fatal_error, file, keyed, primary,
                     switched, upstream_eos, disposing, stuck, now, triggers, ops>>
      /\ tracks' = tracks \cup {t}
  BY DEF RequestPad, fileVars, stopVars
<1>2. Rest'
  BY <1>1 DEF RecorderInv, Rest
<1>3. QED BY <1>1, <1>2, IdleSafe

LEMMA AppsrcFailsSafe == ASSUME RecorderInv, NEW t \in Tracks, AppsrcFails(t) PROVE Safe
<1>1. /\ UNCHANGED <<tracks, cache, last, caps, serial, window, fatal_error, file, keyed, primary,
                     switched, upstream_eos, disposing, stuck, now, triggers>>
      /\ ops < MaxOps /\ ops' = ops + 1 /\ writer' = [writer EXCEPT !.linked = writer.linked \ {t}]
  BY DEF AppsrcFails, trackVars, fileVars, stopVars
<1>2. PICK w : w = [writer EXCEPT !.linked = writer.linked \ {t}]
  OBVIOUS
<1>3. /\ w \in Writers /\ w.open = writer.open /\ w.rt = writer.rt /\ w.serial = writer.serial
      /\ w.linked \subseteq writer.linked
  <2>1. writer \in Writers
    BY InvTypes
  <2>2. QED BY <1>2, <2>1 DEF Writers
<1>4. PICK p : p = [State EXCEPT !.writer = w]
  OBVIOUS
<1>5. State' = p
  BY <1>1, <1>2, <1>4 DEF State
<1>6. /\ p.cache = cache /\ p.last = last /\ p.caps = caps /\ p.window = window /\ p.writer = w
      /\ p.file = file /\ p.keyed = keyed
  BY <1>4 DEF State
<1>7. p \in Recs
  BY <1>3, <1>4, InvTypes DEF Recs
<1>8. ASSUME NEW u \in Tracks PROVE TrackOK(p, u, p.cache[u], p.file[u], p.last[u], serial)
  <2>1. TrackOK(State, u, State.cache[u], State.file[u], State.last[u], serial)
    BY InvBounds DEF RecOK
  <2>2. QED BY <1>3, <1>6, <2>1, TrackSame, StateFields
<1>9. RecOK(p, serial) /\ p.caps \subseteq tracks'
  <2>1. /\ writer.open => window.active /\ writer.linked \subseteq caps
        /\ caps \subseteq tracks
    BY InvBounds, StateFields DEF RecOK
  <2>2. QED BY <1>1, <1>3, <1>6, <1>7, <1>8, <2>1 DEF RecOK
<1>10. Bounded(p) /\ (Within(State) => Within(p))
  BY <1>6, InvBounds, StateFields DEF Bounded, Within
<1>11. ops' \in 0 .. MaxOps
  BY <1>1, InvBounds, EventRecorderAssumption
<1>12. Rest'
  BY <1>1, <1>11 DEF RecorderInv, Rest
<1>13. RecorderInv'
  BY <1>1, <1>5, <1>9, <1>10, <1>12, InvBounds, NextInv
<1>14. QED BY <1>1, <1>2, <1>3, <1>13, SameRecorded DEF Safe

LEMMA TickSafe == ASSUME RecorderInv, Tick PROVE Safe
<1>1. /\ UNCHANGED <<cache, last, caps, serial, window, writer, fatal_error, file, keyed, primary,
                     switched, upstream_eos, disposing, stuck, tracks, triggers, ops>>
      /\ now # MaxClock /\ now' = IF IsValid(now) THEN now + 1 ELSE 0
  BY DEF Tick, trackVars, fileVars, stopVars
<1>2. now' \in 0 .. MaxClock
  <2>1. MaxClock \in Nat /\ now \in 0 .. MaxClock \cup {NoTime}
    BY EventRecorderAssumption DEF RecorderInv, Rest
  <2>2. QED BY <1>1, <2>1 DEF IsValid
<1>3. Rest'
  BY <1>1, <1>2 DEF RecorderInv, Rest
<1>4. QED BY <1>1, <1>3, IdleSafe

LEMMA StutterSafe == ASSUME RecorderInv, UNCHANGED vars PROVE Safe
<1>1. UNCHANGED <<cache, last, caps, serial, window, writer, fatal_error, file, keyed, primary,
                  switched, upstream_eos, disposing, stuck, tracks, triggers, ops, now>>
  BY DEF vars, trackVars, fileVars, stopVars
<1>2. Rest'
  BY <1>1 DEF RecorderInv, Rest
<1>3. QED BY <1>1, <1>2, IdleSafe

LEMMA NewPrerollSafe == ASSUME RecorderInv, NEW t \in Tracks, NewPreroll(t) PROVE Safe
<1>1. /\ UNCHANGED <<tracks, cache, last, serial, window, writer, fatal_error, file, keyed, primary,
                     switched, upstream_eos, disposing, stuck, now, triggers, ops>>
      /\ caps' = caps \cup {t} /\ t \in tracks
  BY DEF NewPreroll, fileVars, stopVars
<1>2. PICK p : p = [State EXCEPT !.caps = caps \cup {t}]
  OBVIOUS
<1>3. State' = p
  BY <1>1, <1>2 DEF State
<1>4. /\ p.cache = cache /\ p.last = last /\ p.caps = caps \cup {t} /\ p.window = window
      /\ p.writer = writer /\ p.file = file /\ p.keyed = keyed
  BY <1>2 DEF State
<1>5. p \in Recs
  <2>1. caps \cup {t} \in SUBSET Tracks /\ State \in Recs
    BY InvTypes DEF Ctx
  <2>2. QED BY <1>2, <2>1 DEF Recs
<1>6. RecOK(p, serial)
  <2>1. ASSUME NEW u \in Tracks PROVE TrackOK(p, u, p.cache[u], p.file[u], p.last[u], serial)
    <3>1. TrackOK(State, u, State.cache[u], State.file[u], State.last[u], serial)
      BY InvBounds DEF RecOK
    <3>2. QED BY <1>4, <3>1, TrackSame, StateFields
  <2>2. /\ writer.open => window.active /\ writer.linked \subseteq caps
        /\ caps \subseteq tracks
    BY InvBounds, StateFields DEF RecOK
  <2>3. QED BY <1>1, <1>4, <1>5, <2>1, <2>2 DEF RecOK
<1>7. Bounded(p) /\ (upstream_eos' \/ disposing' \/ Within(p))
  <2>1. Bounded(p)
    BY <1>4, InvBounds, StateFields DEF Bounded
  <2>2. Within(State) => Within(p)
    BY <1>4, StateFields DEF Within
  <2>3. QED BY <1>1, <2>1, <2>2, InvBounds
<1>8. Rest'
  BY <1>1 DEF RecorderInv, Rest
<1>9. p.caps \subseteq tracks'
  BY <1>1, <1>6 DEF RecOK
<1>10. RecorderInv'
  BY <1>1, <1>3, <1>6, <1>7, <1>8, <1>9, NextInv
<1>11. QED BY <1>1, <1>10, SameRecorded DEF Safe

\* Another primary track: what the file of the window promises ends with it.
LEMMA SetPrimarySafe == ASSUME RecorderInv, NEW t \in Tracks, SetPrimary(t) PROVE Safe
<1>1. /\ UNCHANGED <<tracks, cache, last, caps, serial, window, writer, fatal_error, file,
                     upstream_eos, disposing, stuck, now, triggers>>
      /\ primary' = t /\ switched' = (switched \/ window.active) /\ keyed' = FALSE
      /\ ops < MaxOps /\ ops' = ops + 1
  BY DEF SetPrimary, trackVars, stopVars
<1>2. PICK p : p = State'
  OBVIOUS
<1>3. /\ p.cache = cache /\ p.last = last /\ p.caps = caps /\ p.window = window
      /\ p.writer = writer /\ p.file = file /\ p.keyed = FALSE
      /\ p = [cache |-> cache, last |-> last, caps |-> caps, window |-> window,
              writer |-> writer, fatal |-> fatal_error, file |-> file, keyed |-> FALSE]
  <2>1. State' = [cache |-> cache, last |-> last, caps |-> caps, window |-> window,
                  writer |-> writer, fatal |-> fatal_error, file |-> file, keyed |-> FALSE]
    BY <1>1 DEF State
  <2>2. p = [cache |-> cache, last |-> last, caps |-> caps, window |-> window,
             writer |-> writer, fatal |-> fatal_error, file |-> file, keyed |-> FALSE]
    BY ONLY <1>2, <2>1
  <2>3. QED BY ONLY <2>2
<1>4. p \in Recs
  <2>1. State \in Recs
    BY InvTypes
  <2>2. /\ cache \in [Tracks -> Seq(Samples)] /\ last \in [Tracks -> Time] /\ caps \in SUBSET Tracks
        /\ window \in Windows /\ writer \in Writers /\ fatal_error \in BOOLEAN
        /\ file \in [Tracks -> Seq(Samples)]
    BY <2>1, RecTypes, StateFields
  <2>3. QED BY <1>3, <2>2 DEF Recs
<1>5. /\ writer.open => window.active /\ writer.linked \subseteq caps
      /\ caps \subseteq tracks
  BY InvBounds, StateFields DEF RecOK
<1>6. ASSUME NEW u \in Tracks PROVE TrackOK(p, u, cache[u], file[u], last[u], serial)'
  <2>1. TrackOK(State, u, cache[u], file[u], last[u], serial)
    BY InvBounds, StateFields DEF RecOK
  <2>2. /\ CacheOK(cache[u], last[u], serial) /\ FileOK(file[u], serial)
        /\ Len(cache[u]) > 0 => u \in caps
        /\ window.active /\ ~writer.open => Len(file[u]) = 0
        /\ writer.open => Recorded(cache[u], file[u])
        /\ ~switched => InOrder(file[u])
    BY <2>1, StateFields DEF TrackOK
  <2>3. switched \in BOOLEAN /\ window.active \in BOOLEAN
    BY InvTypes DEF RecorderInv, Rest, Windows
  <2>4. ~switched' => ~switched /\ ~writer.open
    BY <1>1, <1>5, <2>3
  <2>5. /\ CacheOK(cache[u], last[u], serial)' /\ FileOK(file[u], serial)'
        /\ Recorded(cache[u], file[u]) => Recorded(cache[u], file[u])'
        /\ InOrder(file[u]) => InOrder(file[u])'
    BY <1>1, <2>2
  <2>6. QED BY <1>1, <1>3, <2>2, <2>4, <2>5 DEF TrackOK
<1>7. RecOK(p, serial)'
  <2>1. p.caps \subseteq tracks'
    BY <1>1, <1>3, <1>5
  <2>2. \A u \in Tracks : TrackOK(p, u, p.cache[u], p.file[u], p.last[u], serial)'
    BY <1>1, <1>3, <1>6
  <2>3. QED BY <1>3, <1>4, <1>5, <2>1, <2>2 DEF RecOK
<1>8. RecOK(State, serial)'
  BY <1>2, <1>7
<1>9. Bounded(State)'
  <2>1. \A u \in Tracks : u # primary \/ ~window.active => switched \/ Fits(cache[u])
    BY InvBounds, StateFields DEF Bounded
  <2>2. /\ State'.cache = cache /\ State'.window = window
    BY <1>2, <1>3
  <2>3. QED BY <1>1, <2>1, <2>2 DEF Bounded
<1>10. upstream_eos' \/ disposing' \/ Within(State)'
  <2>1. State'.file = file /\ State'.window = window
    BY <1>2, <1>3
  <2>2. Within(State) => Within(State)'
    BY <2>1, StateFields DEF Within
  <2>3. QED BY <1>1, <2>2, InvBounds
<1>11. ops' \in 0 .. MaxOps
  BY <1>1, InvBounds, EventRecorderAssumption
<1>12. Rest'
  <2>1. switched' \in BOOLEAN
    BY <1>1
  <2>2. QED BY <1>1, <1>11, <2>1 DEF RecorderInv, Rest
<1>13. RecorderInv'
  BY <1>8, <1>9, <1>10, <1>12 DEF RecorderInv
<1>14. QED BY <1>1, <1>13, SameRecorded DEF Safe

\* A pad is released while no window is open; its cache goes with it.
LEMMA ReleasePadSafe == ASSUME RecorderInv, NEW t \in Tracks, ReleasePad(t) PROVE Safe
<1>1. /\ UNCHANGED <<serial, window, writer, fatal_error, file, keyed, primary,
                     switched, upstream_eos, disposing, now, triggers>>
      /\ ops < MaxOps /\ ops' = ops + 1 /\ ~window.active
  BY DEF ReleasePad, fileVars, stopVars
<1>2. ops' \in 0 .. MaxOps
  BY <1>1, InvBounds, EventRecorderAssumption
<1>3. CASE stuck' = TRUE /\ UNCHANGED <<tracks, cache, last, caps>>
  <2>1. Rest'
    BY <1>1, <1>2, <1>3 DEF RecorderInv, Rest
  <2>2. QED BY <1>1, <1>3, <2>1, IdleSafe
<1>4. CASE /\ tracks' = tracks \ {t}
           /\ cache' = [cache EXCEPT ![t] = <<>>]
           /\ last' = [last EXCEPT ![t] = NoTime] /\ caps' = caps \ {t}
           /\ UNCHANGED stuck
  <2>0. /\ cache \in [Tracks -> Seq(Samples)] /\ last \in [Tracks -> Time] /\ caps \subseteq tracks
        /\ tracks \subseteq Tracks /\ State \in Recs
    BY InvTypes DEF Ctx
  <2>1. PICK C, L, K : C = cache' /\ L = last' /\ K = caps'
    OBVIOUS
  <2>2. /\ C \in [Tracks -> Seq(Samples)] /\ L \in [Tracks -> Time] /\ K \in SUBSET Tracks
        /\ C[t] = <<>> /\ \A u \in Tracks : u # t => C[u] = cache[u] /\ L[u] = last[u]
        /\ K = caps \ {t} /\ K \subseteq tracks' /\ K \subseteq tracks
    <3>1. <<>> \in Seq(Samples) /\ NoTime \in Time
      BY NoTimeIsNat DEF Time
    <3>2. QED BY <1>4, <2>0, <2>1, <3>1
  <2>3. PICK p : p = [State EXCEPT !.cache = C, !.last = L, !.caps = K]
    OBVIOUS
  <2>4. State' = p
    BY <1>1, <2>1, <2>3 DEF State
  <2>5. /\ p.cache = C /\ p.last = L /\ p.caps = K /\ p.window = window /\ p.writer = writer
        /\ p.file = file /\ p.keyed = keyed
    BY <2>3 DEF State
  <2>6. p \in Recs
    BY <2>0, <2>2, <2>3 DEF Recs
  <2>7. ~writer.open
    BY <1>1, InvBounds, StateFields DEF RecOK
  <2>8. ASSUME NEW u \in Tracks PROVE TrackOK(p, u, C[u], file[u], L[u], serial)
    <3>1. TrackOK(State, u, cache[u], file[u], last[u], serial)
      BY InvBounds, StateFields DEF RecOK
    <3>2. /\ FileOK(file[u], serial)
          /\ ~switched => InOrder(file[u])
          /\ CacheOK(cache[u], last[u], serial) /\ (Len(cache[u]) > 0 => u \in caps)
          /\ AlignStart /\ keyed /\ ~switched /\ u = primary => StartsKeyed(writer, cache[u], file[u])
      BY <3>1, StateFields DEF TrackOK
    <3>3. CASE u = t
      <4>1. Len(C[u]) = 0 /\ C[u] \in Seq(Samples)
        BY <2>2, <3>3
      <4>2. CacheOK(C[u], L[u], serial)
        BY <4>1 DEF CacheOK
      <4>3. AlignStart /\ keyed /\ ~switched /\ u = primary => StartsKeyed(writer, C[u], file[u])
        BY <2>7, <3>2 DEF StartsKeyed
      <4>4. QED BY <1>1, <2>5, <2>7, <3>2, <4>1, <4>2, <4>3 DEF TrackOK
    <3>4. CASE u # t
      <4>1. C[u] = cache[u] /\ L[u] = last[u]
        BY <2>2, <3>4
      <4>2. Len(C[u]) > 0 => u \in K
        BY <2>2, <3>2, <3>4, <4>1
      <4>3. QED BY <1>1, <2>5, <2>7, <3>2, <4>1, <4>2 DEF TrackOK
    <3>5. QED BY <3>3, <3>4
  <2>9. RecOK(p, serial)
    BY <2>2, <2>5, <2>6, <2>7, <2>8 DEF RecOK
  <2>10. Bounded(p)
    <3>1. SUFFICES ASSUME NEW u \in Tracks, ~switched
                   PROVE  Fits(C[u])
      BY <2>5 DEF Bounded
    <3>2. Fits(cache[u])
      BY <1>1, <3>1, InvBounds, StateFields DEF Bounded
    <3>3. QED BY <2>2, <3>2, FitsEmpty
  <2>11. Within(State) => Within(p)
    BY <2>5, StateFields DEF Within
  <2>12. upstream_eos' \/ disposing' \/ Within(p)
    BY <1>1, <2>11, InvBounds
  <2>13. Rest'
    BY <1>1, <1>2, <1>4 DEF RecorderInv, Rest
  <2>14. p.caps \subseteq tracks'
    BY <2>2, <2>5
  <2>15. RecorderInv'
    BY <1>1, <2>4, <2>9, <2>10, <2>12, <2>13, <2>14, NextInv
  <2>16. QED BY <2>7, <2>15, IdleRecorded DEF Safe
<1>5. QED BY <1>3, <1>4 DEF ReleasePad

LEMMA EventOK ==
  ASSUME RecorderInv, NEW ts \in 0 .. MaxEvent \cup {NoTime}, NEW event, event = EventTime(ts),
         event <= MaxEvent
  PROVE  event \in Time /\ \A post \in Posts : event + post \in Time
<1>1. /\ MaxEvent \in Nat /\ Posts \subseteq Nat /\ MaxEvent < NoTime /\ NoTime \in Nat
      /\ \A post \in Posts : MaxEvent + post < NoTime
  <2>1. MaxEvent + 0 < NoTime
    BY EventRecorderAssumption
  <2>2. QED BY <2>1, EventRecorderAssumption, NoTimeIsNat
<1>2. event \in Nat
  <2>1. now \in Nat /\ PrimaryLast(State) \in Nat /\ NoTime \in Nat
    <3>1. now \in Time /\ last \in [Tracks -> Time] /\ primary \in Tracks
      BY InvTypes DEF Ctx
    <3>2. last[primary] \in Time /\ NoTime \in Time
      BY <1>1, <3>1 DEF Time
    <3>3. PrimaryLast(State) \in Time
      BY <3>2, StateFields DEF PrimaryLast
    <3>4. QED BY <1>1, <3>1, <3>3, TimeIsNat
  <2>2. IsValid(ts) => ts \in Nat
    BY <1>1 DEF IsValid
  <2>3. QED BY <2>1, <2>2 DEF EventTime
<1>3. QED BY <1>1, <1>2 DEF Time

LEMMA ExtendOK ==
  ASSUME RecorderInv, NEW event \in Time, NEW pre \in Pres \cup {All}, NEW post \in Posts \cup {All},
         \A x \in Posts : event + x \in Time, NEW w, w = ExtendWindow(event, pre, post)
  PROVE  w \in Windows /\ w.active = window.active /\ window.end <= w.end
<1>1. /\ window \in Windows /\ NoTime \in Nat /\ All = -1 /\ Pres \subseteq Nat /\ Posts \subseteq Nat
  BY InvTypes, NoTimeIsNat, EventRecorderAssumption DEF All
<1>2. PICK keep, end : /\ keep = (IF pre < 0 \/ window.retain < 0 THEN All ELSE Greater(window.retain, pre))
                       /\ end = (IF post < 0 \/ ~IsValid(window.end) THEN NoTime
                                 ELSE Greater(window.end, event + post))
  OBVIOUS
<1>3. w = [window EXCEPT !.retain = keep, !.end = end]
  BY <1>1, <1>2 DEF ExtendWindow, Windows
<1>4. keep \in Pres \cup {0, All}
  <2>1. window.retain \in Pres \cup {0, All}
    BY <1>1 DEF Windows
  <2>2. QED BY <1>1, <1>2, <2>1 DEF Greater
<1>5. end \in Time /\ window.end <= end
  <2>1. window.end \in 0 .. NoTime
    BY <1>1 DEF Windows, Time
  <2>2. CASE post < 0 \/ ~IsValid(window.end)
    BY <1>1, <1>2, <2>1, <2>2 DEF Time
  <2>3. CASE ~(post < 0 \/ ~IsValid(window.end))
    <3>1. post \in Posts
      BY <1>1, <2>3
    <3>2. event + post \in 0 .. NoTime
      BY <3>1 DEF Time
    <3>3. end = Greater(window.end, event + post)
      BY <1>2, <2>3
    <3>4. QED BY <1>1, <2>1, <3>2, <3>3 DEF Greater, Time
  <2>4. QED BY <2>2, <2>3
<1>6. QED BY <1>1, <1>3, <1>4, <1>5 DEF Windows

LEMMA NewWindowOK ==
  ASSUME RecorderInv, NEW event \in Time, NEW pre \in Pres \cup {All}, NEW post \in Posts \cup {All},
         \A x \in Posts : event + x \in Time, NEW w, w = NewWindow(event, pre, post)
  PROVE  w \in Windows /\ w.active
<1>1. /\ NoTime \in Nat /\ All = -1 /\ Pres \subseteq Nat /\ Posts \subseteq Nat
      /\ cache \in [Tracks -> Seq(Samples)] /\ primary \in Tracks
  BY InvTypes, NoTimeIsNat, EventRecorderAssumption DEF All, Ctx
<1>2. PICK start, end : /\ start = (IF pre < 0 /\ HasPrimary /\ cache[primary] # <<>>
                                    THEN Head(cache[primary]).rt ELSE Minus(event, Greater(pre, 0)))
                        /\ end = (IF post < 0 THEN NoTime ELSE event + post)
  OBVIOUS
<1>3. w = [active |-> TRUE, retain |-> pre, start |-> start, end |-> end]
  BY <1>2 DEF NewWindow
<1>4. start \in Time
  <2>1. CASE pre < 0 /\ HasPrimary /\ cache[primary] # <<>>
    <3>1. cache[primary] \in Seq(Samples)
      BY <1>1
    <3>2. Head(cache[primary]) \in Samples
      BY <2>1, <3>1
    <3>3. QED BY <1>2, <2>1, <3>2 DEF Samples
  <2>2. CASE ~(pre < 0 /\ HasPrimary /\ cache[primary] # <<>>)
    <3>1. pre \in Int /\ event \in 0 .. NoTime
      BY <1>1 DEF Time
    <3>2. Greater(pre, 0) \in Nat
      BY <3>1 DEF Greater
    <3>3. Minus(event, Greater(pre, 0)) \in 0 .. NoTime
      BY <1>1, <3>1, <3>2 DEF Minus
    <3>4. QED BY <1>2, <2>2, <3>3 DEF Time
  <2>3. QED BY <2>1, <2>2
<1>5. end \in Time
  <2>1. CASE post < 0
    BY <1>1, <1>2, <2>1 DEF Time
  <2>2. CASE ~(post < 0)
    BY <1>1, <1>2, <2>2
  <2>3. QED BY <2>1, <2>2
<1>6. QED BY <1>3, <1>4, <1>5 DEF Windows

LEMMA ExtendedSafe ==
  ASSUME RecorderInv, NEW w \in Windows, w.active = window.active, window.end <= w.end,
         NEW p, p = [State EXCEPT !.window = w]
  PROVE  Storable(p, serial)
<1>1. State \in Recs /\ RecOK(State, serial) /\ window.end \in Nat
  BY InvTypes, InvBounds
<1>2. /\ p.cache = cache /\ p.last = last /\ p.caps = caps /\ p.window = w
      /\ p.writer = writer /\ p.file = file /\ p.keyed = keyed
  BY DEF State
<1>3. p \in Recs
  BY <1>1 DEF Recs
<1>4. ASSUME NEW u \in Tracks PROVE TrackOK(p, u, p.cache[u], p.file[u], p.last[u], serial)
  <2>1. TrackOK(State, u, State.cache[u], State.file[u], State.last[u], serial)
    BY <1>1 DEF RecOK
  <2>2. QED BY <1>2, <2>1, TrackSame, StateFields
<1>5. /\ writer.open => window.active /\ writer.linked \subseteq caps
      /\ caps \subseteq tracks
  BY <1>1, StateFields DEF RecOK
<1>6. RecOK(p, serial)
  BY <1>2, <1>3, <1>4, <1>5 DEF RecOK
<1>7. Bounded(p)
  BY <1>2, InvBounds, StateFields DEF Bounded
<1>8. Within(State) => Within(p)
  <2>1. SUFFICES ASSUME Within(State), NEW t \in Tracks, NEW a \in 1 .. Len(file[t])
                 PROVE  file[t][a].rt <= w.end
    BY <1>2 DEF Within
  <2>2. file[t] \in Seq(Samples)
    BY InvTypes
  <2>3. file[t][a].rt \in Nat /\ file[t][a].rt <= window.end
    BY <2>1, <2>2, CacheFields, StateFields DEF Within
  <2>4. w.end \in Nat
    BY TimeIsNat DEF Windows
  <2>5. QED BY <1>1, <2>3, <2>4
<1>9. Keeps(State, p)
  BY <1>2, StateFields DEF Keeps, Has
<1>10. QED BY <1>6, <1>7, <1>8, <1>9, InvBounds DEF Storable

\* What a trigger does when no window is open; r is before the writer is opened.
LEMMA OpenedSafe ==
  ASSUME RecorderInv, ~window.active, NEW w \in Windows, w.active, NEW outcome \in OutcomeSet,
         NEW r, r = [State EXCEPT !.window = w, !.file = [t \in Tracks |-> <<>>]],
         NEW p, p = PushPending(OpenWriter(r, outcome), Lesser(r.window.end, PrimaryLast(r)))
  PROVE  Storable(p, serial)
<1>1. /\ State \in Recs /\ RecOK(State, serial) /\ serial \in Nat /\ primary \in Tracks
      /\ last \in [Tracks -> Time]
  BY InvTypes, InvBounds DEF Ctx
<1>2. PICK F : F = [t \in Tracks |-> <<>>]
  OBVIOUS
<1>3. F \in [Tracks -> Seq(Samples)] /\ \A t \in Tracks : F[t] = <<>> /\ Len(F[t]) = 0
  <2>1. <<>> \in Seq(Samples) /\ Len(<<>>) = 0
    OBVIOUS
  <2>2. QED BY <1>2, <2>1
<1>4. /\ r.cache = cache /\ r.last = last /\ r.caps = caps /\ r.window = w
      /\ r.writer = writer /\ r.file = F /\ r.keyed = keyed
  BY <1>2 DEF State
<1>5. r \in Recs
  BY <1>1, <1>2, <1>3 DEF Recs
<1>6. ~writer.open /\ caps \subseteq tracks
  BY <1>1, StateFields DEF RecOK
<1>7. ASSUME NEW u \in Tracks PROVE TrackOK(r, u, cache[u], F[u], last[u], serial)
  <2>1. CacheOK(cache[u], last[u], serial) /\ (Len(cache[u]) > 0 => u \in caps)
    BY <1>1, StateFields DEF RecOK, TrackOK
  <2>2. FileOK(F[u], serial) /\ InOrder(F[u]) /\ StartsKeyed(writer, cache[u], F[u])
    BY <1>3, <1>6 DEF FileOK, InOrder, StartsKeyed
  <2>3. QED BY <1>3, <1>4, <1>6, <2>1, <2>2 DEF TrackOK
<1>8. RecOK(r, serial)
  BY <1>4, <1>5, <1>6, <1>7 DEF RecOK
<1>9. PICK o : o = OpenWriter(r, outcome)
  OBVIOUS
<1>10. RecOK(o, serial) /\ Opened(r, o) /\ o.window = w /\ o.file = F
  <2>1. RecOK(o, serial) /\ Opened(r, o)
    <3>1. r.window.active
      BY <1>4
    <3>2. QED BY ONLY <1>1, <1>8, <1>9, <3>1, outcome \in OutcomeSet, OpenWriterOK
  <2>2. QED BY <1>4, <2>1 DEF Opened
<1>11. PICK upto \in Time : upto = Lesser(r.window.end, PrimaryLast(r)) /\ upto <= w.end
  <2>1. PrimaryLast(r) \in Time /\ w.end \in Time
    <3>1. last[primary] \in Time /\ NoTime \in Time
      BY <1>1, NoTimeIsNat DEF Time
    <3>2. QED BY <1>4, <3>1 DEF PrimaryLast, Windows
  <2>2. QED BY <1>4, <2>1, LesserTime
<1>12. p = PushPending(o, upto)
  BY ONLY <1>9, <1>11, p = PushPending(OpenWriter(r, outcome), Lesser(r.window.end, PrimaryLast(r)))
<1>13. RecOK(p, serial) /\ Before(o, p)
  <2>1. upto <= o.window.end
    BY <1>10, <1>11
  <2>2. QED BY ONLY <1>1, <1>10, <1>11, <1>12, <2>1, PushBefore
<1>14. p.window = w
  BY <1>10, <1>13 DEF Before, OnlyTracks
<1>15. Bounded(p)
  <2>1. SUFFICES ASSUME NEW u \in Tracks, ~switched
                 PROVE  Fits(p.cache[u])
    BY DEF Bounded
  <2>2. Fits(cache[u])
    BY <2>1, InvBounds, StateFields DEF Bounded
  <2>3. Lighter(p.cache[u], o.cache[u]) /\ Lighter(o.cache[u], cache[u])
    BY <1>4, <1>10, <1>13 DEF Before, Opened
  <2>4. QED BY <2>2, <2>3 DEF Lighter
<1>16. Within(p)
  <2>1. SUFFICES ASSUME NEW u \in Tracks, NEW a \in 1 .. Len(p.file[u])
                 PROVE  p.file[u][a].rt <= w.end
    BY <1>14 DEF Within
  <2>2. AddedUntil(F[u], p.file[u], w.end)
    BY <1>10, <1>13 DEF Before
  <2>3. a \notin 1 .. Len(F[u])
    BY <1>3
  <2>4. QED BY <2>2, <2>3 DEF AddedUntil
<1>17. Keeps(State, p)
  BY <1>6, StateFields DEF Keeps
<1>18. QED BY <1>13, <1>15, <1>16, <1>17 DEF Storable

LEMMA TriggerSafe ==
  ASSUME RecorderInv, NEW ts \in 0 .. MaxEvent \cup {NoTime}, NEW pre \in Pres \cup {All},
         NEW post \in Posts \cup {All}, Trigger(ts, pre, post)
  PROVE  Safe
<1>1. PICK event : event = EventTime(ts)
  OBVIOUS
<1>2. /\ UNCHANGED <<tracks, primary, stuck, now>> /\ serial' = serial
      /\ upstream_eos' = upstream_eos /\ disposing' = disposing
      /\ event <= MaxEvent /\ triggers < MaxTriggers /\ triggers' = triggers + 1
  BY <1>1 DEF Trigger
<1>3. event \in Time /\ \A x \in Posts : event + x \in Time
  BY <1>1, <1>2, EventOK
<1>4. triggers' \in 0 .. MaxTriggers
  BY <1>2, InvBounds, EventRecorderAssumption
<1>5. CASE window.active
  <2>1. PICK w : w = ExtendWindow(event, pre, post)
    OBVIOUS
  <2>2. PICK p : p = [State EXCEPT !.window = w]
    OBVIOUS
  <2>3. Store(p) /\ ops' = ops
    BY <1>1, <1>5, <2>1, <2>2 DEF Trigger
  <2>4. w \in Windows /\ w.active = window.active /\ window.end <= w.end
    BY <1>3, <2>1, ExtendOK
  <2>5. Storable(p, serial)
    BY <2>2, <2>4, ExtendedSafe
  <2>6. upstream_eos' \/ disposing' \/ Within(p)
    BY <1>2, <2>5 DEF Storable
  <2>7. QED BY <1>2, <1>4, <2>3, <2>5, <2>6, InvBounds, StoreSafe DEF Storable
<1>6. CASE ~window.active
  <2>1. PICK w : w = NewWindow(event, pre, post)
    OBVIOUS
  <2>2. PICK r : r = [State EXCEPT !.window = w, !.file = [t \in Tracks |-> <<>>]]
    OBVIOUS
  <2>3. PICK outcome \in Outcomes :
          /\ ops' = ops + FaultCost(outcome)
          /\ Store(PushPending(OpenWriter(r, outcome), Lesser(r.window.end, PrimaryLast(r))))
    BY <1>1, <1>6, <2>1, <2>2 DEF Trigger
  <2>4. PICK p : p = PushPending(OpenWriter(r, outcome), Lesser(r.window.end, PrimaryLast(r)))
    OBVIOUS
  <2>5. Store(p)
    BY ONLY <2>3, <2>4
  <2>6. w \in Windows /\ w.active
    BY <1>3, <2>1, NewWindowOK
  <2>7. Storable(p, serial)
    <3>1. outcome \in OutcomeSet
      BY AllOutcomes
    <3>2. QED BY <1>6, <2>2, <2>4, <2>6, <3>1, OpenedSafe
  <2>8. upstream_eos' \/ disposing' \/ Within(p)
    BY <1>2, <2>7 DEF Storable
  <2>9. ops' \in 0 .. MaxOps
    BY <2>3, OpsOK
  <2>10. QED BY <1>2, <1>4, <2>5, <2>7, <2>8, <2>9, InvBounds, StoreSafe DEF Storable
<1>7. QED BY <1>5, <1>6

LEMMA NextSafe == ASSUME RecorderInv, [Next]_vars PROVE Safe
<1>1. ASSUME NEW t \in Tracks, NewPreroll(t) PROVE Safe
  BY <1>1, NewPrerollSafe
<1>2. ASSUME NEW t \in Tracks, ProcessSample(t) PROVE Safe
  BY <1>2, ProcessSampleSafe
<1>3. ASSUME NEW t \in Tracks, OnEos(t) PROVE Safe
  BY <1>3, OnEosSafe
<1>4. ASSUME NEW t \in Tracks, SetPrimary(t) PROVE Safe
  BY <1>4, SetPrimarySafe
<1>5. ASSUME NEW t \in Tracks, RequestPad(t) PROVE Safe
  BY <1>5, RequestPadSafe
<1>6. ASSUME NEW t \in Tracks, ReleasePad(t) PROVE Safe
  BY <1>6, ReleasePadSafe
<1>7. ASSUME NEW ts \in 0 .. MaxEvent \cup {NoTime}, NEW pre \in Pres \cup {All},
             NEW post \in Posts \cup {All}, Trigger(ts, pre, post)
      PROVE  Safe
  BY <1>7, TriggerSafe
<1>8. CASE CloseTimer
  BY <1>8, CloseTimerSafe
<1>9. CASE Dispose
  BY <1>9, DisposeSafe
<1>10. CASE Tick
  BY <1>10, TickSafe
<1>11. CASE UNCHANGED vars
  BY <1>11, StutterSafe
<1>12. ASSUME NEW t \in Tracks, AppsrcFails(t) PROVE Safe
  BY <1>12, AppsrcFailsSafe
<1>13. QED BY <1>1, <1>2, <1>3, <1>4, <1>5, <1>6, <1>7, <1>8, <1>9, <1>10, <1>11, <1>12 DEF Next

\* The invariant holds in every behaviour: each track by itself (RecOK), the limits of
\* the caches (Bounded) and the end of the window (Within).
THEOREM EventRecorderInvariance == Spec => []RecorderInv
<1>1. Init => RecorderInv
  BY InvInit
<1>2. RecorderInv /\ [Next]_vars => RecorderInv'
  BY NextSafe DEF Safe
<1>3. QED BY <1>1, <1>2, PTL DEF Spec

\* Types; outside a window every ring keeps its limit, and inside one the rings of all
\* tracks but the primary, whichever handler touched them last.
THEOREM CachesKeepTheirLimit == Spec => []CacheBounded
<1>1. RecorderInv => CacheBounded
  BY InvImplies
<1>2. QED BY <1>1, EventRecorderInvariance, PTL

\* A file has each sample once and in the order of arrival, however often its window was
\* extended and whichever handler pushed it, unless the primary track was changed.
THEOREM EachSampleOnceInOrder == Spec => []WrittenOnceInOrder
<1>1. RecorderInv => WrittenOnceInOrder
  BY InvOrder
<1>2. QED BY <1>1, EventRecorderInvariance, PTL

\* With align-start-keyframe a file starts at a keyframe when one at or before the start
\* of the window was in the cache.
THEOREM FilesStartAtKeyframes == Spec => []KeyframeFirst
<1>1. RecorderInv => KeyframeFirst
  BY InvOrder
<1>2. QED BY <1>1, EventRecorderInvariance, PTL

\* Nothing after the end of the window is in its file, until an EOS or dispose moves the
\* end back.
THEOREM NothingAfterTheEnd == Spec => []FileWithinWindow
<1>1. RecorderInv => FileWithinWindow
  BY InvImplies
<1>2. QED BY <1>1, EventRecorderInvariance, PTL

\* A sample of the primary track that belongs to the window is written before it leaves
\* the cache and before the window is closed.
THEOREM NoSampleOfTheWindowIsLost == Spec => RecordedBeforeDropped
<1>1. RecorderInv /\ [Next]_vars => RecordedStep
  BY NextSafe DEF Safe
<1>2. QED BY <1>1, EventRecorderInvariance, PTL DEF Spec, RecordedBeforeDropped, RecordedStep
=============================================================================
