----------------------------- MODULE IavDecoder -----------------------------
(***************************************************************************)
(* The process-wide IAV context and the hardware decoders that share it:   *)
(*   common/iav_ctx.c                    acquire / release, use count      *)
(*   common/decoder_common.c             enter / leave of the decode mode  *)
(*   elements/hwvdec/gstambahwvdec.c     first version of the element (V1) *)
(*   elements/hwvdecv2/gstambahwvdecv2*.c     second version (V2)          *)
(*                                                                         *)
(* The context holds one decode mode for everybody (decode_mode_entered,   *)
(* mModeConfig.num_decoder) and one bit-stream buffer (BSB) that the       *)
(* elements divide by num_decoder.  V2 serialises entering the mode with a *)
(* mutex; V1 takes no lock.  f_enter_mode() writes the number of decoders  *)
(* the driver really has (DriverMax) over the one it was given.            *)
(*                                                                         *)
(* An element is driven by the application (construction, state changes,   *)
(* finalize) and by its streaming thread (set_format, frames, flush); the  *)
(* base class stops the thread before stop().  Dump-only mode and          *)
(* auto_map_bsb (always 0 in iav_al.c) are left out, and so is a driver    *)
(* that reports no decoder at all (V2 then divides by its own property,    *)
(* V1 by zero): DriverMax is at least what was asked for.                  *)
(***************************************************************************)
EXTENDS Integers, FiniteSets

CONSTANTS
    V1, V2,          \* the elements of each version
    DecId,           \* dec-id of each element
    NumDecoders,     \* num-decoders / decoder-number, the same on every element
    DriverMax,       \* num_decoder after a successful f_enter_mode
    BsbSize,         \* size of the decoders' bit-stream buffer, in aligned units
    MaxStarts,       \* bound: starts of each element
    NoOne            \* not an element

Elements == V1 \cup V2

ASSUME DecoderAssumption ==
    /\ IsFiniteSet(Elements)
    /\ V1 \cap V2 = {} /\ NoOne \notin Elements
    /\ NumDecoders \in Nat \ {0} /\ DriverMax \in Nat /\ DriverMax >= NumDecoders
    /\ BsbSize \in Nat /\ BsbSize >= DriverMax
    /\ DecId \in [Elements -> Nat]
    /\ \A e, f \in Elements : DecId[e] = DecId[f] => e = f
    /\ MaxStarts \in [Elements -> Nat]

VARIABLES
    isSetup, usedNum,        \* gs_iav_ctx_is_setup, used_num
    entered,                 \* who set decode_mode_entered, or NoOne while it is 0
    exitBit,                 \* exit_decode_mode, a bit field of width 1
    numDecoder,              \* mModeConfig.num_decoder
    modeLock,                \* holder of hwvdecv2_dec_mode_mutex
    drvMode, drvDec,         \* the driver: in decode mode; state of each decoder
    life, starts,            \* per element: life cycle, starts so far
    holds,                   \* its iav_ctx is not NULL
    pc,                      \* where set_format() stands
    region,                  \* its part of the BSB: <<offset, size>>
    ready, created,          \* b_setup_ctx_done / iav_pipeline_ready, is_decoder_created
    raced                    \* history: the mode was configured while it was in use or
                             \* an element divided the buffer, and one of the two
                             \* elements does not take the mutex

ctxVars == <<isSetup, usedNum>>
modeVars == <<entered, exitBit, numDecoder, modeLock, drvMode, raced>>
elemVars == <<life, starts, holds, pc, region, ready, created, drvDec>>
vars == <<ctxVars, modeVars, elemVars>>

NoRegion == <<0, 0>>

\* Types; num_decoder is only ever what an element or the driver wrote.
TypeOK ==
    /\ isSetup \in BOOLEAN /\ usedNum \in Nat
    /\ entered \in Elements \cup {NoOne} /\ exitBit \in {0, 1}
    /\ numDecoder \in {0, NumDecoders, DriverMax}
    /\ modeLock \in V2 \cup {NoOne}
    /\ drvMode \in BOOLEAN /\ raced \in BOOLEAN
    /\ drvDec \in [Elements -> {"none", "running", "stopped"}]
    /\ life \in [Elements -> {"new", "ready", "running", "gone"}]
    /\ starts \in [Elements -> Nat] /\ \A e \in Elements : starts[e] <= MaxStarts[e]
    /\ holds \in [Elements -> BOOLEAN]
    /\ pc \in [Elements -> {"idle", "lock", "config", "enter", "divide"}]
    /\ region \in [Elements -> (0 .. BsbSize) \X (0 .. BsbSize)]
    /\ ready \in [Elements -> BOOLEAN] /\ created \in [Elements -> BOOLEAN]

Init ==
    /\ isSetup = FALSE /\ usedNum = 0
    /\ entered = NoOne /\ exitBit = 0 /\ numDecoder = 0 /\ modeLock = NoOne
    /\ drvMode = FALSE /\ raced = FALSE
    /\ drvDec = [e \in Elements |-> "none"]
    /\ life = [e \in Elements |-> "new"]
    /\ starts = [e \in Elements |-> 0]
    /\ holds = [e \in Elements |-> FALSE]
    /\ pc = [e \in Elements |-> "idle"]
    /\ region = [e \in Elements |-> NoRegion]
    /\ ready = [e \in Elements |-> FALSE]
    /\ created = [e \in Elements |-> FALSE]

-----------------------------------------------------------------------------
(* The context. *)

BugAcquire ==
    /\ isSetup' = TRUE
    /\ usedNum' = IF isSetup THEN usedNum ELSE 1

\* acquire_iav_ctx(1) that succeeds: one more user, or set up for the first.
Acquire ==
    /\ isSetup' = TRUE
    /\ usedNum' = IF isSetup THEN usedNum + 1 ELSE 1

\* release_iav_ctx(1): one user less; with no user left the call cleans up.
Release ==
    IF isSetup /\ usedNum > 0
    THEN usedNum' = usedNum - 1 /\ UNCHANGED isSetup
    ELSE isSetup' = FALSE /\ UNCHANGED usedNum

-----------------------------------------------------------------------------
(* Life cycle of an element. *)

\* Construction; V1 acquires the context here.
Create(e) ==
    /\ life[e] = "new"
    /\ life' = [life EXCEPT ![e] = "ready"]
    /\ \/ e \in V1 /\ Acquire /\ holds' = [holds EXCEPT ![e] = TRUE]
       \/ e \in V2 /\ UNCHANGED <<ctxVars, holds>>
    /\ UNCHANGED <<modeVars, starts, pc, region, ready, created, drvDec>>

\* start(): V2 acquires at every start, also when it holds the context already.
Start(e) ==
    /\ life[e] = "ready" /\ starts[e] < MaxStarts[e]
    /\ life' = [life EXCEPT ![e] = "running"]
    /\ starts' = [starts EXCEPT ![e] = @ + 1]
    /\ \/ e \in V1 /\ UNCHANGED <<ctxVars, holds>>
       \/ e \in V2 /\ Acquire /\ holds' = [holds EXCEPT ![e] = TRUE]
    /\ UNCHANGED <<modeVars, pc, region, ready, created, drvDec>>

\* start() of V2 fails when the context cannot be set up.
StartFails(e) ==
    /\ life[e] = "ready" /\ starts[e] < MaxStarts[e] /\ e \in V2 /\ ~isSetup
    /\ starts' = [starts EXCEPT ![e] = @ + 1]
    /\ holds' = [holds EXCEPT ![e] = FALSE]
    /\ UNCHANGED <<ctxVars, modeVars, life, pc, region, ready, created, drvDec>>

\* shutdown_decoder() of V2 and the destroy loop of V1: stop and destroy.
Shutdown(e) ==
    /\ drvDec' = [drvDec EXCEPT ![e] = IF created[e] THEN "none" ELSE @]
    /\ created' = [created EXCEPT ![e] = FALSE]

\* stop(): V2 destroys its decoder, V1 only stops it.  Neither forgets its
\* region, that it was set up, or the context.
Stop(e) ==
    /\ life[e] = "running" /\ pc[e] = "idle"
    /\ life' = [life EXCEPT ![e] = "ready"]
    /\ \/ /\ e \in V1
          /\ drvDec' = [drvDec EXCEPT ![e] =
                          IF created[e] /\ @ = "running" THEN "stopped" ELSE @]
          /\ UNCHANGED created
       \/ e \in V2 /\ Shutdown(e)
    /\ UNCHANGED <<ctxVars, modeVars, starts, holds, pc, region, ready>>

\* leave_decode_mode(): decrementing the 1-bit exit_decode_mode toggles it, so
\* only every second call leaves the mode, whoever else decodes.  When the driver
\* refuses, the mode stays entered and the bit toggled.
LeaveDecodeMode(e) ==
    \/ /\ entered # NoOne /\ exitBit = 1
       /\ entered' = NoOne /\ exitBit' = 0 /\ drvMode' = FALSE
       /\ drvDec' = [f \in Elements |-> "none"]
       /\ created' = [created EXCEPT ![e] = FALSE]
    \/ /\ Shutdown(e)
       /\ exitBit' = IF entered = NoOne THEN exitBit ELSE 1 - exitBit
       /\ UNCHANGED <<entered, drvMode>>

\* finalize(): the decoder goes and the context is released once.
Finalize(e) ==
    /\ life[e] = "ready"
    /\ life' = [life EXCEPT ![e] = "gone"]
    /\ \/ e \in V1 /\ LeaveDecodeMode(e) /\ Release
       \/ e \in V2 /\ holds[e] /\ Shutdown(e) /\ Release
                   /\ UNCHANGED <<entered, exitBit, drvMode>>
       \/ e \in V2 /\ ~holds[e]
                   /\ UNCHANGED <<ctxVars, entered, exitBit, drvMode, drvDec, created>>
    /\ holds' = [holds EXCEPT ![e] = FALSE]
    /\ UNCHANGED <<numDecoder, modeLock, raced, starts, pc, region, ready>>

-----------------------------------------------------------------------------
(* set_format(): enter the decode mode or attach to it, then take a region. *)

Streaming(e) == life[e] = "running" /\ pc[e] = "idle"

Goto(e, p) == pc' = [pc EXCEPT ![e] = p]

\* setup_context() of V1, once per element: without any lock, see whether the
\* mode is entered.
V1SetFormat(e) ==
    /\ e \in V1 /\ Streaming(e) /\ ~ready[e]
    /\ Goto(e, IF entered = NoOne THEN "config" ELSE "divide")
    /\ UNCHANGED <<ctxVars, modeVars, life, starts, holds, region, ready, created, drvDec>>

\* The mode admits the element: num-decoders and dec-id are within it.
Admits(e, n) == NumDecoders <= n /\ DecId[e] < n

\* gst_ambahwvdecv2_iav_prepare(): when the mode is entered and admits the element
\* nothing more is done - no region is computed, whoever entered the mode.
PrepareSkips(e) ==
    /\ e \in V2 /\ Streaming(e) /\ entered # NoOne /\ Admits(e, numDecoder)
    /\ ready' = [ready EXCEPT ![e] = TRUE]
    /\ UNCHANGED <<ctxVars, modeVars, life, starts, holds, pc, region, created, drvDec>>

\* Otherwise the decoder is shut down and the mutex is asked for.
Prepare(e) ==
    /\ e \in V2 /\ Streaming(e) /\ ~(entered # NoOne /\ Admits(e, numDecoder))
    /\ Shutdown(e)
    /\ Goto(e, "lock")
    /\ UNCHANGED <<ctxVars, modeVars, life, starts, holds, region, ready>>

BugLock(e) ==
    /\ pc[e] = "lock" /\ modeLock = NoOne
    /\ modeLock' = IF entered = NoOne /\ DecId[e] < NumDecoders THEN NoOne ELSE modeLock
    /\ Goto(e, IF entered # NoOne
                 THEN IF Admits(e, numDecoder) THEN "divide" ELSE "idle"
                 ELSE IF DecId[e] < NumDecoders THEN "config" ELSE "idle")
    /\ UNCHANGED <<ctxVars, entered, exitBit, numDecoder, drvMode, raced,
                   life, starts, holds, region, ready, created, drvDec>>

\* enter_or_attach_decode_mode() with the mutex: look again whether the mode is
\* entered.  A dec-id outside the mode is an error and releases the mutex.
Lock(e) ==
    LET next == IF entered # NoOne
                THEN IF Admits(e, numDecoder) THEN "divide" ELSE "idle"
                ELSE IF DecId[e] < NumDecoders THEN "config" ELSE "idle"
    IN /\ pc[e] = "lock" /\ modeLock = NoOne
       /\ Goto(e, next)
       /\ modeLock' = IF next = "idle" THEN NoOne ELSE e
       /\ UNCHANGED <<ctxVars, entered, exitBit, numDecoder, drvMode, raced,
                      life, starts, holds, region, ready, created, drvDec>>

\* History: f relies on num_decoder, and the mutex does not keep e out.
DependsOnMode(f) == f = entered \/ pc[f] = "divide"
Unserialized(e, f) == e \in V1 \/ f \in V1

\* The mode's configuration is filled in.  For V1 the check above may be stale.
Configure(e) ==
    /\ pc[e] = "config"
    /\ numDecoder' = NumDecoders
    /\ raced' = (raced \/ \E f \in Elements : Unserialized(e, f) /\ DependsOnMode(f))
    /\ Goto(e, "enter")
    /\ UNCHANGED <<ctxVars, entered, exitBit, modeLock, drvMode,
                   life, starts, holds, region, ready, created, drvDec>>

\* f_enter_mode(): the driver's number replaces the configured one.
Enter(e) ==
    /\ pc[e] = "enter"
    /\ drvMode' = TRUE /\ entered' = e /\ numDecoder' = DriverMax
    /\ Goto(e, "divide")
    /\ UNCHANGED <<ctxVars, exitBit, modeLock, raced,
                   life, starts, holds, region, ready, created, drvDec>>

Unlock(e) == modeLock' = IF modeLock = e THEN NoOne ELSE modeLock

EnterFails(e) ==
    /\ pc[e] = "enter"
    /\ Goto(e, "idle") /\ Unlock(e)
    /\ UNCHANGED <<ctxVars, entered, exitBit, numDecoder, drvMode, raced,
                   life, starts, holds, region, ready, created, drvDec>>

\* setup_bsb_offsets() of V2: the last decoder gets what the division leaves.
V2Region(id, n) ==
    LET per == BsbSize \div n
    IN <<id * per, IF id < n - 1 THEN per ELSE BsbSize - id * per>>

\* setup_context() of V1: equal parts, for the first n decoders.
V1Region(id, n) ==
    LET per == BsbSize \div n
    IN IF id < n THEN <<id * per, per>> ELSE NoRegion

\* The region is computed from num_decoder as it is now; set_format() is done.
Divide(e) ==
    /\ pc[e] = "divide" /\ (e \in V1 \/ DecId[e] < numDecoder)
    /\ region' = [region EXCEPT ![e] = IF e \in V1 THEN V1Region(DecId[e], numDecoder)
                                                   ELSE V2Region(DecId[e], numDecoder)]
    /\ ready' = [ready EXCEPT ![e] = TRUE]
    /\ Goto(e, "idle") /\ Unlock(e)
    /\ UNCHANGED <<ctxVars, entered, exitBit, numDecoder, drvMode, raced,
                   life, starts, holds, created, drvDec>>

\* setup_bsb_offsets() checks the dec-id once more: a V1 element may have changed
\* num_decoder since.
DivideFails(e) ==
    /\ pc[e] = "divide" /\ e \in V2 /\ DecId[e] >= numDecoder
    /\ Goto(e, "idle") /\ Unlock(e)
    /\ UNCHANGED <<ctxVars, entered, exitBit, numDecoder, drvMode, raced,
                   life, starts, holds, region, ready, created, drvDec>>

-----------------------------------------------------------------------------
(* Frames. *)

\* An SPS creates and starts the decoder; V2 refuses without a region, and the
\* driver without decode mode.
Sps(e) ==
    /\ Streaming(e) /\ ~created[e]
    /\ e \in V1 \/ region[e] # NoRegion
    /\ drvMode /\ drvDec[e] = "none"
    /\ created' = [created EXCEPT ![e] = TRUE]
    /\ drvDec' = [drvDec EXCEPT ![e] = "running"]
    /\ UNCHANGED <<ctxVars, modeVars, life, starts, holds, pc, region, ready>>

\* flush(): stop and start again what the driver still knows.
Flush(e) ==
    /\ Streaming(e) /\ created[e] /\ drvDec[e] # "none"
    /\ drvDec' = [drvDec EXCEPT ![e] = "running"]
    /\ UNCHANGED <<ctxVars, modeVars, life, starts, holds, pc, region, ready, created>>

-----------------------------------------------------------------------------

Next ==
    \E e \in Elements :
        \/ Create(e) \/ Start(e) \/ StartFails(e) \/ Stop(e) \/ Finalize(e)
        \/ V1SetFormat(e) \/ PrepareSkips(e) \/ Prepare(e) \/ Lock(e)
        \/ Configure(e) \/ Enter(e) \/ EnterFails(e) \/ Divide(e) \/ DivideFails(e)
        \/ Sps(e) \/ Flush(e)

Spec == Init /\ [][Next]_vars

-----------------------------------------------------------------------------
(* Properties. *)

Holders == {e \in Elements : holds[e]}

\* The shared context is never closed under an element that keeps a pointer to
\* it, whatever the order in which elements of both versions start, restart and
\* go: every holder is counted (acquire_iav_ctx, release_iav_ctx).
HeldContextIsUp ==
    /\ TypeOK
    /\ Cardinality(Holders) <= usedNum
    /\ Holders # {} => isSetup

Disjoint(r, s) == r[1] + r[2] <= s[1] \/ s[1] + s[2] <= r[1]

\* Two decoders the driver runs never share a part of the bit-stream buffer:
\* all of them divided it by the same num_decoder, the one f_enter_mode wrote,
\* also when several amba_hwvdecv2 negotiate at once.  The exception is a V1
\* element whose unlocked check went stale before it, or somebody it did not
\* exclude, filled in the mode.
RegionsDisjoint ==
    ~raced => \A e, f \in Elements :
                 (e # f /\ drvDec[e] # "none" /\ drvDec[f] # "none")
                     => Disjoint(region[e], region[f])

\* An amba_hwvdecv2 whose prepare() succeeded can create its decoder: it has its
\* part of the bit-stream buffer (comment on prepare(): only an element whose
\* decode mode "is already ours" skips the rest).
PreparedHasRegion ==
    \A e \in V2 : ready[e] => region[e] # NoRegion
=============================================================================
