--------------------------- MODULE AmShMemProofs ---------------------------
(***************************************************************************)
(* Proofs about AmShMem for every value of its constants.                  *)
(*                                                                         *)
(* First what holds in any configuration: types, the reference counts of   *)
(* the buffers, what stop() leaves, and the slots given as qdata.  Then    *)
(* that lending is safe: no block is overwritten while its frame is lent,  *)
(* and a FreeFrame releases the buffer it names, when buffer_index is the  *)
(* block index or the qdata slot, one thread at a time publishes a         *)
(* FreeFrame, and neither element is flushed or stopped (Calm).  Under the *)
(* same conditions the ledger of lent frames is kept, a history as deep as *)
(* the pool loses nothing, and the transport implements FrameLoan: each    *)
(* step of sink, source and topics passes one block on as FrameLoan        *)
(* allows, or changes nobody's possession.                                 *)
(***************************************************************************)
EXTENDS AmShMemLoan, FiniteSetTheorems, TLAPS

---------------------------------------------------------------------------
(* Any configuration: types, reference counts, stop() *)

\* What render() relies on between its steps.
RenderOK ==
  /\ rpc \in {"publish", "hold", "return"} => rmsg \in Msgs
  /\ rpc \in {"hold", "return"} => rmsg.slot \in Slots
  /\ rpc \in {"publish", "hold"} => rmsg.blk \notin HeldBlocks

\* What is left to do, and what is done, when stop() joins its thread.
StopOK ==
  /\ sinkState # "run" => /\ rpc \in {"idle", "error"}
                          /\ \A s \in Slots : held[s] = None
  /\ sinkState = "stopped" => ffThread = "exited"

IInv == TypeOK /\ RenderOK /\ RefBalance /\ StopOK

\* The slot of a message is an index of held_buffers[] or a block index.
LEMMA SlotForType ==
  ASSUME TypeOK, NEW b \in Blocks
  PROVE  /\ SlotFor(b) \in Indexes
         /\ SlotPolicy # "block" => SlotFor(b) \in Slots
<1>1. pool_slot_counter % PoolMax \in Slots
  BY ParamAssumption DEF TypeOK, SinkTypeOK, Slots
<1>2. CASE AssignsSlot(b)
  BY <1>1, <1>2, ParamAssumption DEF SlotFor, AssignsSlot, Indexes
<1>3. CASE ~AssignsSlot(b)
  BY <1>3, ParamAssumption DEF SlotFor, AssignsSlot, Indexes, TypeOK, SinkTypeOK
<1>4. QED BY <1>2, <1>3

\* A history of Depth samples stays one.
LEMMA KeepLastType ==
  ASSUME NEW S, NEW q \in Seq(S), NEW m \in S, Len(q) <= Depth
  PROVE  KeepLast(q, m) \in Seq(S) /\ Len(KeepLast(q, m)) <= Depth
BY ParamAssumption DEF KeepLast, Room

LEMMA ZeroFFType == MaxFrames > 0 => ZeroFF \in FFs
BY ParamAssumption DEF ZeroFF, FFs, Frames, Indexes, Slots

LEMMA InitIInv == Init => IInv
BY ParamAssumption DEF Init, IInv, TypeOK, SinkTypeOK, DdsTypeOK, SrcTypeOK,
   HistoryTypeOK, RenderOK, RefBalance, StopOK, InRender, HeldBlocks, Slots, Blocks,
   Frames, Stages, Msgs, FFs

---------------------------------------------------------------------------
(* One lemma per action that render() or a reference count depends on. *)

LEMMA RenderFillIInv ==
  ASSUME IInv, NEW b \in Blocks, RenderFill(b)
  PROVE  IInv'
<1> USE ParamAssumption, NoneAssumption DEF IInv
<1>1. SlotFor(b) \in Indexes /\ (SlotPolicy # "block" => SlotFor(b) \in Slots)
  BY SlotForType
<1>2. frame_id_seq \in Frames
  BY DEF RenderFill, TypeOK, SinkTypeOK, Frames
<1>3. rmsg' \in Msgs /\ rmsg'.blk = b
  BY <1>1, <1>2 DEF RenderFill, Msgs
<1>4. b \notin HeldBlocks
  BY DEF RenderFill, RefBalance, InRender
<1>5. TypeOK'
  <2>1. SinkTypeOK'
    BY <1>1, <1>2, <1>3 DEF RenderFill, TypeOK, SinkTypeOK
  <2>2. DdsTypeOK' /\ SrcTypeOK'
    BY DEF RenderFill, TypeOK, DdsTypeOK, SrcTypeOK, amVars, ffVars, srcVars
  <2>3. HistoryTypeOK'
    BY DEF RenderFill, TypeOK, HistoryTypeOK, budgets, Move, Stages
  <2>4. QED BY <2>1, <2>2, <2>3 DEF TypeOK
<1>6. RenderOK'
  BY <1>3, <1>4 DEF RenderFill, RenderOK, HeldBlocks
<1>7. RefBalance'
  BY <1>3, <1>4 DEF RenderFill, RefBalance, InRender, HeldBlocks, TypeOK, SinkTypeOK
<1>8. StopOK'
  BY DEF RenderFill, StopOK
<1>9. QED BY <1>5, <1>6, <1>7, <1>8

LEMMA RenderFailsIInv ==
  ASSUME IInv, RenderFails
  PROVE  IInv'
<1> USE ParamAssumption DEF IInv
<1>1. rmsg \in Msgs /\ rmsg.blk \in Blocks /\ refs[rmsg.blk] = 1
  BY DEF RenderFails, RenderOK, RefBalance, InRender, Msgs
<1>2. RefBalance'
  BY <1>1 DEF RenderFails, RenderOK, RefBalance, InRender, HeldBlocks, Unref
<1>3. TypeOK'
  <2>1. SinkTypeOK'
    BY <1>1 DEF RenderFails, TypeOK, SinkTypeOK, Unref
  <2>2. DdsTypeOK' /\ SrcTypeOK'
    BY DEF RenderFails, TypeOK, DdsTypeOK, SrcTypeOK, amVars, ffVars, srcVars
  <2>3. HistoryTypeOK'
    BY DEF RenderFails, TypeOK, HistoryTypeOK, Move, Stages
  <2>4. QED BY <2>1, <2>2, <2>3 DEF TypeOK
<1>4. RenderOK' /\ StopOK'
  BY DEF RenderFails, RenderOK, StopOK
<1>5. QED BY <1>2, <1>3, <1>4

LEMMA RenderPublishIInv ==
  ASSUME IInv, RenderPublish
  PROVE  IInv'
<1> USE ParamAssumption DEF IInv
<1>1. /\ rmsg \in Msgs /\ rmsg.blk \in Blocks /\ rmsg.slot \in Indexes
      /\ refs[rmsg.blk] = 1
  BY DEF RenderPublish, RenderOK, RefBalance, InRender, Msgs
<1>2. RefBalance'
  BY <1>1 DEF RenderPublish, RenderOK, RefBalance, InRender, HeldBlocks, Unref
<1>3. TypeOK'
  <2>1. SinkTypeOK'
    BY <1>1 DEF RenderPublish, TypeOK, SinkTypeOK, Unref
  <2>2. DdsTypeOK'
    BY <1>1, KeepLastType DEF RenderPublish, TypeOK, DdsTypeOK, ffVars
  <2>3. SrcTypeOK'
    BY DEF RenderPublish, TypeOK, SrcTypeOK, srcVars
  <2>4. HistoryTypeOK'
    BY DEF RenderPublish, TypeOK, HistoryTypeOK, budgets, Move, Stages
  <2>5. QED BY <2>1, <2>2, <2>3, <2>4 DEF TypeOK
<1>4. RenderOK'
  BY <1>1 DEF RenderPublish, RenderOK, Slots, Indexes, Blocks, HeldBlocks
<1>5. StopOK'
  BY DEF RenderPublish, StopOK
<1>6. QED BY <1>2, <1>3, <1>4, <1>5

LEMMA RenderHoldIInv ==
  ASSUME IInv, RenderHold
  PROVE  IInv'
<1> USE ParamAssumption, NoneAssumption DEF IInv
<1>1. /\ rmsg \in Msgs /\ rmsg.blk \in Blocks /\ rmsg.slot \in Slots
      /\ rmsg.blk \notin HeldBlocks /\ refs[rmsg.blk] = 1
  BY DEF RenderHold, RenderOK, RefBalance, InRender, Msgs
<1>2. \A b \in Blocks \ {rmsg.blk} :
        refs[b] = IF b \in HeldBlocks THEN 1 ELSE 0
  BY <1>1 DEF RenderHold, RefBalance, InRender
<1>3. ASSUME NEW b \in Blocks
      PROVE  b \in HeldBlocks' <=> b = rmsg.blk \/ (b \in HeldBlocks /\ b # held[rmsg.slot])
  <2>1. /\ b # None /\ held \in [Slots -> Blocks \cup {None}]
        /\ held' = [held EXCEPT ![rmsg.slot] = rmsg.blk]
        /\ \A s, t \in Slots : s # t /\ held[s] # None => held[s] # held[t]
    BY DEF RenderHold, RefBalance, TypeOK, SinkTypeOK, Blocks
  <2>2. QED BY <1>1, <2>1 DEF HeldBlocks
<1>4. /\ held' = [held EXCEPT ![rmsg.slot] = rmsg.blk]
      /\ rpc' = "return" /\ rmsg' = rmsg
      /\ \A b \in Blocks : refs'[b] = IF b = rmsg.blk THEN 2
                                      ELSE IF b = held[rmsg.slot] THEN 0 ELSE refs[b]
  <2>1. held[rmsg.slot] \in Blocks => held[rmsg.slot] \in HeldBlocks
    BY <1>1, NoneAssumption DEF HeldBlocks, Blocks
  <2>2. ASSUME NEW b \in Blocks
        PROVE  refs'[b] = IF b = rmsg.blk THEN 2
                          ELSE IF b = held[rmsg.slot] THEN 0 ELSE refs[b]
    <3>0. refs' = [Unref({held[rmsg.slot]}) EXCEPT ![rmsg.blk] = @ + 1]
      BY DEF RenderHold
    <3>1. CASE b = rmsg.blk
      <4>1. held[rmsg.slot] # rmsg.blk
        BY <1>1, <2>1
      <4>2. Unref({held[rmsg.slot]})[rmsg.blk] = 1
        BY <1>1, <4>1 DEF Unref
      <4>3. QED BY <1>1, <3>0, <3>1, <4>2 DEF Unref
    <3>2. CASE b # rmsg.blk
      BY <1>1, <1>2, <2>1, <3>2 DEF RenderHold, Unref
    <3>3. QED BY <3>1, <3>2
  <2>3. QED BY <2>2 DEF RenderHold
<1>5. RefBalance'
  <2>1. \A s, t \in Slots : s # t /\ held'[s] # None => held'[s] # held'[t]
    BY <1>1, <1>4 DEF RefBalance, HeldBlocks, TypeOK, SinkTypeOK
  <2>2. ASSUME NEW b \in Blocks
        PROVE  refs'[b] = (IF InRender(b)' THEN 1 ELSE 0) + (IF b \in HeldBlocks' THEN 1 ELSE 0)
    BY <1>1, <1>2, <1>3, <1>4, <2>2 DEF InRender
  <2>3. QED BY <2>1, <2>2 DEF RefBalance
<1>6. TypeOK'
  <2>1. SinkTypeOK'
    <3>1. refs' \in [Blocks -> Nat]
      <4>1. \A b \in Blocks : refs'[b] \in Nat
        BY <1>4 DEF TypeOK, SinkTypeOK
      <4>2. QED BY <4>1 DEF RenderHold, Unref
    <3>2. QED BY <1>1, <1>4, <3>1 DEF RenderHold, TypeOK, SinkTypeOK
  <2>2. DdsTypeOK' /\ SrcTypeOK' /\ HistoryTypeOK'
    BY DEF RenderHold, TypeOK, DdsTypeOK, SrcTypeOK, HistoryTypeOK, amVars, ffVars,
           srcVars, budgets
  <2>3. QED BY <2>1, <2>2 DEF TypeOK
<1>7. RenderOK' /\ StopOK'
  BY <1>1 DEF RenderHold, RenderOK, StopOK
<1>8. QED BY <1>5, <1>6, <1>7

LEMMA RenderReturnIInv ==
  ASSUME IInv, RenderReturn
  PROVE  IInv'
<1> USE ParamAssumption DEF IInv
<1>1. rmsg \in Msgs /\ rmsg.blk \in Blocks /\ refs[rmsg.blk] \in {1, 2}
  BY DEF RenderReturn, RenderOK, RefBalance, InRender, Msgs
<1>2. RefBalance'
  BY <1>1 DEF RenderReturn, RefBalance, InRender, HeldBlocks, Unref
<1>3. TypeOK'
  <2>1. SinkTypeOK'
    BY <1>1 DEF RenderReturn, TypeOK, SinkTypeOK, Unref
  <2>2. DdsTypeOK' /\ SrcTypeOK' /\ HistoryTypeOK'
    BY DEF RenderReturn, TypeOK, DdsTypeOK, SrcTypeOK, HistoryTypeOK, amVars, ffVars,
           srcVars, budgets
  <2>3. QED BY <2>1, <2>2 DEF TypeOK
<1>4. RenderOK' /\ StopOK'
  BY DEF RenderReturn, RenderOK, StopOK
<1>5. QED BY <1>2, <1>3, <1>4

LEMMA FreeFrameUnrefIInv ==
  ASSUME IInv, NEW m \in FFs, FreeFrameUnref(m)
  PROVE  IInv'
<1> USE ParamAssumption, NoneAssumption DEF IInv
<1>1. m.slot \in Nat
  BY DEF FFs, Indexes, Slots, Blocks
<1>2. DdsTypeOK' /\ SrcTypeOK' /\ HistoryTypeOK'
  BY DEF FreeFrameUnref, TypeOK, DdsTypeOK, SrcTypeOK, HistoryTypeOK, amVars, ffVars,
         srcVars, budgets, Move, Stages
<1>3. CASE m.slot < PoolMax /\ held[m.slot] # None
  <2>1. m.slot \in Slots /\ held[m.slot] \in Blocks /\ held[m.slot] \in HeldBlocks
    BY <1>1, <1>3 DEF TypeOK, SinkTypeOK, Slots, HeldBlocks
  <2>2. ASSUME NEW b \in Blocks
        PROVE  b \in HeldBlocks' <=> b \in HeldBlocks /\ b # held[m.slot]
    <3>1. held' = [held EXCEPT ![m.slot] = None]
      BY <1>3 DEF FreeFrameUnref
    <3>2. \A s \in Slots : s # m.slot => held[s] # held[m.slot]
      BY <1>3, <2>1 DEF RefBalance
    <3>3. b # None
      BY DEF Blocks
    <3>4. b \in HeldBlocks' <=> \E s \in Slots : held'[s] = b
      BY <3>3 DEF HeldBlocks
    <3>5. b \in HeldBlocks <=> \E s \in Slots : held[s] = b
      BY <3>3 DEF HeldBlocks
    <3>6. QED BY <2>1, <3>1, <3>2, <3>3, <3>4, <3>5 DEF TypeOK, SinkTypeOK
  <2>3. refs[held[m.slot]] \in {1, 2}
    BY <2>1 DEF RefBalance
  <2>4. RefBalance'
    BY <1>3, <2>1, <2>2, <2>3 DEF FreeFrameUnref, RefBalance, InRender, Unref, TypeOK, SinkTypeOK
  <2>5. SinkTypeOK'
    BY <1>3, <2>1, <2>3 DEF FreeFrameUnref, TypeOK, SinkTypeOK, Unref
  <2>6. RenderOK' /\ StopOK'
    BY <1>3, <2>1, <2>2 DEF FreeFrameUnref, RenderOK, StopOK, HeldBlocks, TypeOK, SinkTypeOK, Msgs
  <2>7. QED BY <1>2, <2>4, <2>5, <2>6 DEF TypeOK
<1>4. CASE ~(m.slot < PoolMax /\ held[m.slot] # None)
  BY <1>2, <1>4 DEF FreeFrameUnref, RefBalance, InRender, HeldBlocks, RenderOK, StopOK,
     TypeOK, SinkTypeOK
<1>5. QED BY <1>3, <1>4

---------------------------------------------------------------------------
(* Actions that leave render() and held_buffers[] alone *)

LEMMA SinkUnchanged ==
  ASSUME IInv, UNCHANGED sinkVars, unrefs' \in [FFs -> Nat]
  PROVE  SinkTypeOK' /\ RenderOK' /\ RefBalance' /\ StopOK'
BY DEF IInv, sinkVars, TypeOK, SinkTypeOK, RenderOK, RefBalance, StopOK, InRender,
   HeldBlocks

LEMMA FreeFrameTakeIInv ==
  ASSUME IInv, FreeFrameTake
  PROVE  IInv'
<1> USE ParamAssumption DEF IInv
<1>1. Head(ffq) \in FFs /\ Tail(ffq) \in Seq(FFs) /\ Len(Tail(ffq)) <= Len(ffq)
  BY DEF FreeFrameTake, TypeOK, DdsTypeOK
<1>2. unrefs' \in [FFs -> Nat]
  BY <1>1 DEF FreeFrameTake, TypeOK, SinkTypeOK
<1>3. SinkTypeOK' /\ RenderOK' /\ RefBalance' /\ StopOK'
  BY <1>2, SinkUnchanged DEF FreeFrameTake
<1>4. DdsTypeOK'
  BY <1>1 DEF FreeFrameTake, TypeOK, DdsTypeOK, amVars
<1>5. SrcTypeOK' /\ HistoryTypeOK'
  BY DEF FreeFrameTake, TypeOK, SrcTypeOK, HistoryTypeOK, srcVars, budgets, Move, Stages
<1>6. QED BY <1>3, <1>4, <1>5 DEF TypeOK

LEMMA SrcStepIInv ==
  ASSUME IInv, SrcTake \/ SrcWrap \/ SrcWrapFails \/ AmExpire
  PROVE  IInv'
<1> USE ParamAssumption DEF IInv
<1>1. UNCHANGED <<sinkVars, unrefs>> /\ UNCHANGED ffVars
  BY DEF SrcTake, SrcWrap, SrcWrapFails, AmExpire
<1>2. SinkTypeOK' /\ RenderOK' /\ RefBalance' /\ StopOK'
  BY <1>1, SinkUnchanged DEF TypeOK, SinkTypeOK
<1>3. amq # <<>> => /\ Head(amq) \in Msgs
                    /\ Tail(amq) \in Seq(Msgs) /\ Len(Tail(amq)) <= Len(amq)
  BY DEF TypeOK, DdsTypeOK
<1>4. DdsTypeOK'
  <2>1. CASE SrcTake \/ AmExpire
    <3>1. amq' = Tail(amq) /\ amq # <<>> /\ UNCHANGED amLast
      BY <2>1 DEF SrcTake, AmExpire
    <3>2. amq' \in Seq(Msgs) /\ Len(amq') <= Depth
      BY <1>3, <3>1 DEF TypeOK, DdsTypeOK
    <3>3. QED BY <1>1, <3>1, <3>2 DEF TypeOK, DdsTypeOK, ffVars
  <2>2. CASE SrcWrap \/ SrcWrapFails
    BY <2>2 DEF SrcWrap, SrcWrapFails, TypeOK, DdsTypeOK, amVars, ffVars
  <2>3. QED BY <2>1, <2>2
<1>5. SrcTypeOK'
  BY <1>3, NoneAssumption DEF SrcTake, SrcWrap, SrcWrapFails, AmExpire, TypeOK,
     SrcTypeOK, srcVars, Loans
<1>6. HistoryTypeOK'
  BY DEF SrcTake, SrcWrap, SrcWrapFails, AmExpire, TypeOK, HistoryTypeOK, budgets, Move,
     Stages
<1>7. QED BY <1>2, <1>4, <1>5, <1>6 DEF TypeOK

LEMMA ReleaseIInv ==
  ASSUME IInv, NEW l \in using, Release(l)
  PROVE  IInv'
<1> USE ParamAssumption DEF IInv
<1>1. SinkTypeOK' /\ RenderOK' /\ RefBalance' /\ StopOK'
  BY SinkUnchanged DEF Release, TypeOK, SinkTypeOK
<1>2. [loan |-> l, phase |-> "queued"] \in Jobs
  BY DEF TypeOK, SrcTypeOK, Jobs
<1>3. SrcTypeOK'
  BY <1>2 DEF Release, TypeOK, SrcTypeOK
<1>4. DdsTypeOK' /\ HistoryTypeOK'
  BY DEF Release, TypeOK, DdsTypeOK, HistoryTypeOK, amVars, ffVars, budgets, Move, Stages
<1>5. QED BY <1>1, <1>3, <1>4 DEF TypeOK

\* Whoever publishes a FreeFrame has a frame to name, so the message that was
\* cleared names one, too.
LEMMA JobType ==
  ASSUME SrcTypeOK, NEW j \in rel
  PROVE  /\ j \in Jobs /\ FreeFrame(j.loan) \in FFs /\ fm \in FFs
         /\ \A p \in {"zeroed", "filled"} : SetPhase(j, p) \in SUBSET Jobs
<1>1. j \in Jobs /\ j.loan.msg \in Msgs
  BY DEF SrcTypeOK, Jobs, Loans
<1>2. FreeFrame(j.loan) \in FFs
  BY <1>1 DEF FreeFrame, FFs, Msgs
<1>3. MaxFrames > 0
  BY <1>1, ParamAssumption DEF Msgs, Frames
<1>4. fm \in FFs
  BY <1>3, ZeroFFType DEF SrcTypeOK
<1>5. \A p \in {"zeroed", "filled"} : [j EXCEPT !.phase = p] \in Jobs
  BY <1>1 DEF Jobs
<1>6. QED BY <1>1, <1>2, <1>4, <1>5 DEF SetPhase, SrcTypeOK

LEMMA PublishIInv ==
  ASSUME IInv, NEW j \in rel, PublishZero(j) \/ PublishFill(j) \/ PublishWrite(j)
  PROVE  IInv'
<1> USE ParamAssumption DEF IInv
<1>1. /\ FreeFrame(j.loan) \in FFs /\ fm \in FFs
      /\ \A p \in {"zeroed", "filled"} : SetPhase(j, p) \in SUBSET Jobs
  BY JobType DEF TypeOK
<1>2. SinkTypeOK' /\ RenderOK' /\ RefBalance' /\ StopOK'
  BY SinkUnchanged DEF PublishZero, PublishFill, PublishWrite, TypeOK, SinkTypeOK
<1>3. DdsTypeOK'
  <2>1. KeepLast(ffq, fm) \in Seq(FFs) /\ Len(KeepLast(ffq, fm)) <= Depth
    BY <1>1, KeepLastType DEF TypeOK, DdsTypeOK
  <2>2. /\ UNCHANGED amVars
        /\ ffq' \in {ffq, KeepLast(ffq, fm)} /\ ffLast' \in {ffLast, fm}
    BY DEF PublishZero, PublishFill, PublishWrite, ffVars
  <2>3. QED BY <1>1, <2>1, <2>2 DEF TypeOK, DdsTypeOK, amVars
<1>4. SrcTypeOK'
  BY <1>1 DEF PublishZero, PublishFill, PublishWrite, TypeOK, SrcTypeOK
<1>5. HistoryTypeOK'
  BY DEF PublishZero, PublishFill, PublishWrite, TypeOK, HistoryTypeOK, budgets, Move,
     Stages
<1>6. QED BY <1>2, <1>3, <1>4, <1>5 DEF TypeOK

---------------------------------------------------------------------------
(* Flush, stop and start *)

\* clear_held: nothing is held, each held buffer has lost one reference.
LEMMA ClearHeld ==
  ASSUME IInv, held' = [s \in Slots |-> None], refs' = Unref(HeldBlocks)
  PROVE  /\ held' \in [Slots -> Blocks \cup {None}] /\ HeldBlocks' = {}
         /\ refs' \in [Blocks -> Nat]
         /\ \A b \in Blocks : refs'[b] = IF InRender(b) THEN 1 ELSE 0
<1>1. \A b \in Blocks : refs'[b] = IF InRender(b) THEN 1 ELSE 0
  BY DEF IInv, RefBalance, Unref
<1>2. QED BY <1>1 DEF HeldBlocks, Unref

LEMMA FlushStartIInv ==
  ASSUME IInv, FlushStart
  PROVE  IInv'
<1> USE ParamAssumption DEF IInv
<1>1. /\ held' \in [Slots -> Blocks \cup {None}] /\ HeldBlocks' = {}
      /\ held' = [s \in Slots |-> None]
      /\ refs' \in [Blocks -> Nat]
      /\ \A b \in Blocks : refs'[b] = IF InRender(b) THEN 1 ELSE 0
  BY ClearHeld DEF FlushStart
<1>2. SinkTypeOK'
  BY <1>1 DEF FlushStart, TypeOK, SinkTypeOK
<1>3. DdsTypeOK' /\ SrcTypeOK' /\ HistoryTypeOK'
  BY DEF FlushStart, TypeOK, DdsTypeOK, SrcTypeOK, HistoryTypeOK, amVars, ffVars, srcVars
<1>4. RenderOK' /\ StopOK'
  BY <1>1 DEF FlushStart, RenderOK, StopOK
<1>5. RefBalance'
  BY <1>1 DEF FlushStart, RefBalance, InRender
<1>6. QED BY <1>2, <1>3, <1>4, <1>5 DEF TypeOK

LEMMA SinkStopIInv ==
  ASSUME IInv, SinkStop
  PROVE  IInv'
<1> USE ParamAssumption DEF IInv
<1>1. /\ held' \in [Slots -> Blocks \cup {None}] /\ HeldBlocks' = {}
      /\ held' = [s \in Slots |-> None]
      /\ refs' \in [Blocks -> Nat]
      /\ \A b \in Blocks : refs'[b] = IF InRender(b) THEN 1 ELSE 0
  BY ClearHeld DEF SinkStop
<1>2. SinkTypeOK'
  BY <1>1 DEF SinkStop, TypeOK, SinkTypeOK
<1>3. DdsTypeOK' /\ SrcTypeOK' /\ HistoryTypeOK'
  BY DEF SinkStop, TypeOK, DdsTypeOK, SrcTypeOK, HistoryTypeOK, amVars, ffVars, srcVars
<1>4. RenderOK' /\ StopOK'
  BY <1>1 DEF SinkStop, RenderOK, StopOK
<1>5. RefBalance'
  BY <1>1 DEF SinkStop, RefBalance, InRender
<1>6. QED BY <1>2, <1>3, <1>4, <1>5 DEF TypeOK

LEMMA SinkJoinIInv ==
  ASSUME IInv, FreeFrameThreadExit \/ SinkStopped \/ SinkStart
  PROVE  IInv'
<1> USE ParamAssumption DEF IInv
<1>1. SinkTypeOK'
  BY DEF FreeFrameThreadExit, SinkStopped, SinkStart, TypeOK, SinkTypeOK
<1>2. ffLast # None => <<ffLast>> \in Seq(FFs) /\ Len(<<ffLast>>) = 1
  BY DEF TypeOK, DdsTypeOK
<1>3. DdsTypeOK'
  <2>1. /\ UNCHANGED <<amq, ffLast>> /\ amLast' \in {amLast, None}
        /\ \/ ffq' \in {ffq, <<>>}
           \/ ffLast # None /\ ffq' = <<ffLast>>
    BY DEF FreeFrameThreadExit, SinkStopped, SinkStart, amVars, ffVars
  <2>2. ffq' \in Seq(FFs) /\ Len(ffq') <= Depth
    <3>1. CASE ffq' = <<ffLast>> /\ ffLast # None
      BY <1>2, <3>1
    <3>2. CASE ffq' = ffq
      BY <3>2 DEF TypeOK, DdsTypeOK
    <3>3. CASE ffq' = <<>>
      BY <3>3
    <3>4. QED BY <2>1, <3>1, <3>2, <3>3
  <2>3. QED BY <2>1, <2>2 DEF TypeOK, DdsTypeOK
<1>4. SrcTypeOK'
  BY DEF FreeFrameThreadExit, SinkStopped, SinkStart, TypeOK, SrcTypeOK, srcVars
<1>5. HistoryTypeOK'
  BY DEF FreeFrameThreadExit, SinkStopped, SinkStart, TypeOK, HistoryTypeOK, budgets,
     Stages
<1>6. RenderOK' /\ StopOK'
  BY DEF FreeFrameThreadExit, SinkStopped, SinkStart, RenderOK, StopOK
<1>7. RefBalance'
  BY DEF FreeFrameThreadExit, SinkStopped, SinkStart, RefBalance, InRender, HeldBlocks,
     StopOK
<1>8. QED BY <1>1, <1>3, <1>4, <1>5, <1>6, <1>7 DEF TypeOK

LEMMA SrcLifeIInv ==
  ASSUME IInv, SrcStop \/ SrcStart
  PROVE  IInv'
<1> USE ParamAssumption DEF IInv
<1>1. SinkTypeOK' /\ RenderOK' /\ RefBalance' /\ StopOK'
  BY SinkUnchanged DEF SrcStop, SrcStart, TypeOK, SinkTypeOK
<1>2. amLast # None => <<amLast>> \in Seq(Msgs) /\ Len(<<amLast>>) = 1
  BY DEF TypeOK, DdsTypeOK
<1>3. DdsTypeOK'
  <2>1. /\ UNCHANGED <<amLast, ffq>> /\ ffLast' \in {ffLast, None}
        /\ \/ amq' = <<>>
           \/ amLast # None /\ amq' = <<amLast>>
    BY DEF SrcStop, SrcStart, ffVars
  <2>2. amq' \in Seq(Msgs) /\ Len(amq') <= Depth
    <3>1. CASE amq' = <<amLast>> /\ amLast # None
      BY <1>2, <3>1
    <3>2. CASE amq' = <<>>
      BY <3>2
    <3>3. QED BY <2>1, <3>1, <3>2
  <2>3. QED BY <2>1, <2>2 DEF TypeOK, DdsTypeOK
<1>4. SrcTypeOK'
  <2>1. gen < MaxSrcStops
    BY DEF SrcStop, SrcStart, TypeOK, SrcTypeOK
  <2>2. QED BY <2>1 DEF SrcStop, SrcStart, TypeOK, SrcTypeOK
<1>5. HistoryTypeOK'
  BY DEF SrcStop, SrcStart, TypeOK, HistoryTypeOK, budgets, Move, AtStage, Stages
<1>6. QED BY <1>1, <1>3, <1>4, <1>5 DEF TypeOK

---------------------------------------------------------------------------
(* The theorems *)

LEMMA NextIInv ==
  ASSUME IInv, [Next]_vars
  PROVE  IInv'
<1>1. CASE Streaming
  BY <1>1, RenderFillIInv, RenderFailsIInv, RenderPublishIInv, RenderHoldIInv,
     RenderReturnIInv DEF Streaming
<1>2. CASE FreeFrameThread
  BY <1>2, FreeFrameTakeIInv, SinkJoinIInv DEF FreeFrameThread
<1>3. CASE SinkJob
  BY <1>3, FreeFrameUnrefIInv DEF SinkJob
<1>4. CASE SrcStreaming \/ AmExpire
  BY <1>4, SrcStepIInv DEF SrcStreaming
<1>5. CASE Downstream
  BY <1>5, ReleaseIInv DEF Downstream
<1>6. CASE Publisher
  BY <1>6, PublishIInv DEF Publisher
<1>7. CASE Application
  BY <1>7, FlushStartIInv, SinkStopIInv, SinkJoinIInv, SrcLifeIInv DEF Application
<1>8. CASE UNCHANGED vars
  BY <1>8 DEF vars, sinkVars, amVars, ffVars, srcVars, budgets, IInv, TypeOK, SinkTypeOK,
     DdsTypeOK, SrcTypeOK, HistoryTypeOK, RenderOK, RefBalance, StopOK, InRender,
     HeldBlocks
<1>9. QED BY <1>1, <1>2, <1>3, <1>4, <1>5, <1>6, <1>7, <1>8 DEF Next

\* The inductive invariant: types, what render() relies on between its steps, the
\* reference counts, and what stop() has done.
THEOREM Invariance == Spec => []IInv
<1>1. Init => IInv
  BY InitIInv
<1>2. IInv /\ [Next]_vars => IInv'
  BY NextIInv
<1>3. QED BY <1>1, <1>2, PTL DEF Spec

\* Every variable keeps its type; a reference count never goes below zero and a
\* reader cache never outgrows its KEEP_LAST history.
THEOREM TypeCorrect == Spec => []TypeOK
<1>1. IInv => TypeOK
  BY DEF IInv
<1>2. QED BY <1>1, Invariance, PTL

\* Whatever the pool size, the slot policy and the order of render(), FreeFrame
\* jobs, flushes and stops: gst_buffer_ref and gst_buffer_unref balance.
THEOREM RefsBalance == Spec => []RefBalance
<1>1. IInv => RefBalance
  BY DEF IInv
<1>2. QED BY <1>1, Invariance, PTL

\* A stopped sink keeps no buffer and runs no FreeFrame thread, even if
\* freeframe_unref_async jobs are still pending.
THEOREM StopReleases == Spec => []StopReleasesAll
<1>1. IInv => StopReleasesAll
  <2>1. SUFFICES ASSUME IInv, sinkState = "stopped", NEW b \in Blocks
                 PROVE  ffThread = "exited" /\ refs[b] = 0
    BY ParamAssumption DEF StopReleasesAll, Blocks, IInv, StopOK
  <2>2. b \notin HeldBlocks /\ ~InRender(b)
    BY <2>1 DEF IInv, StopOK, InRender, HeldBlocks
  <2>3. QED BY <2>1, <2>2 DEF IInv, RefBalance, StopOK
<1>2. QED BY <1>1, Invariance, PTL


---------------------------------------------------------------------------
(* Slots kept as qdata *)

\* Blocks whose GstBuffer has been given a slot.
Assigned == {b \in Blocks : qslot[b] # None}

\* The counter is the number of slots given, and a slot is a count it has passed.
SlotInv ==
  /\ pool_slot_counter = Cardinality(Assigned)
  /\ \A b \in Assigned : qslot[b] < pool_slot_counter
  /\ SlotsDistinct

LEMMA BlocksFinite == IsFiniteSet(Blocks) /\ Cardinality(Blocks) = NumBlocks
<1>1. 0 \in Int /\ NumBlocks - 1 \in Int
  BY ParamAssumption
<1>2. /\ IsFiniteSet(0 .. NumBlocks - 1)
      /\ Cardinality(0 .. NumBlocks - 1)
           = IF 0 > NumBlocks - 1 THEN 0 ELSE (NumBlocks - 1) - 0 + 1
  BY ONLY <1>1, FS_Interval
<1>3. QED BY <1>2, ParamAssumption DEF Blocks

LEMMA NextSlotInv ==
  ASSUME SlotPolicy # "staged", NumBlocks <= PoolMax, MaxFlushes = 0,
         IInv, SlotInv, [Next]_vars
  PROVE  SlotInv'
<1> USE ParamAssumption
<1>1. ASSUME NEW b \in Blocks, RenderFill(b), AssignsSlot(b)
      PROVE  SlotInv'
  <2>1. /\ qslot \in [Blocks -> Slots \cup {None}] /\ pool_slot_counter \in Nat
        /\ qslot[b] = None
        /\ qslot' = [qslot EXCEPT ![b] = pool_slot_counter % PoolMax]
        /\ pool_slot_counter' = pool_slot_counter + 1
    BY <1>1 DEF RenderFill, AssignsSlot, SlotFor, IInv, TypeOK, SinkTypeOK
  <2>2. Assigned \subseteq Blocks \ {b}
    BY <2>1 DEF Assigned
  <2>3. IsFiniteSet(Blocks \ {b}) /\ Cardinality(Blocks \ {b}) = NumBlocks - 1
    BY BlocksFinite, FS_RemoveElement
  <2>4. IsFiniteSet(Assigned) /\ Cardinality(Assigned) <= NumBlocks - 1
    BY <2>2, <2>3, FS_Subset
  <2>5. pool_slot_counter < PoolMax /\ pool_slot_counter % PoolMax = pool_slot_counter
    BY <2>1, <2>4 DEF SlotInv
  <2>6. qslot' = [qslot EXCEPT ![b] = pool_slot_counter]
    BY <2>1, <2>5
  <2>7. Assigned' = Assigned \cup {b}
    BY <2>1, <2>6 DEF Assigned
  <2>8. Cardinality(Assigned') = pool_slot_counter'
    BY <2>1, <2>2, <2>4, <2>7, FS_AddElement DEF SlotInv
  <2>9. \A c \in Assigned' : qslot'[c] < pool_slot_counter'
    BY <2>1, <2>6, <2>7 DEF SlotInv, Assigned, Slots
  <2>10. SlotsDistinct'
    BY <2>1, <2>6 DEF SlotInv, SlotsDistinct, Assigned, Slots
  <2>11. QED BY <2>8, <2>9, <2>10 DEF SlotInv
<1>2. CASE UNCHANGED <<qslot, pool_slot_counter>>
  BY <1>2 DEF SlotInv, Assigned, SlotsDistinct
<1>3. ASSUME NEW b \in Blocks, RenderFill(b), ~AssignsSlot(b)
      PROVE  UNCHANGED <<qslot, pool_slot_counter>>
  BY <1>3 DEF RenderFill, AssignsSlot, SlotFor, IInv, TypeOK, SinkTypeOK
<1>4. ~FlushStart
  BY DEF FlushStart, IInv, TypeOK, HistoryTypeOK
<1>5. CASE \/ RenderFails \/ RenderPublish \/ RenderHold \/ RenderReturn
           \/ FreeFrameThread \/ SinkJob \/ SrcStreaming \/ Downstream \/ Publisher
           \/ SinkStop \/ SinkStopped \/ SinkStart \/ SrcStop \/ SrcStart \/ AmExpire
           \/ UNCHANGED vars
  <2>1. UNCHANGED <<qslot, pool_slot_counter>>
    BY <1>5 DEF RenderFails, RenderPublish, RenderHold, RenderReturn, FreeFrameThread,
       FreeFrameTake, FreeFrameThreadExit, SinkJob, FreeFrameUnref, SrcStreaming, SrcTake,
       SrcWrap, SrcWrapFails, Downstream, Release, Publisher, PublishZero, PublishFill,
       PublishWrite, SinkStop, SinkStopped, SinkStart, SrcStop, SrcStart, AmExpire, vars,
       sinkVars
  <2>2. QED BY <1>2, <2>1
<1>6. QED BY <1>1, <1>2, <1>3, <1>4, <1>5 DEF Next, Streaming, Application

\* Slots are given one by one, and there are enough of them.
LEMMA SlotInvariance ==
  ASSUME SlotPolicy # "staged", NumBlocks <= PoolMax, MaxFlushes = 0
  PROVE  Spec => []SlotInv
<1>1. Init => SlotInv
  <2>1. Init => Assigned = {}
    BY DEF Init, Assigned
  <2>2. QED BY <2>1, FS_EmptySet DEF Init, SlotInv, SlotsDistinct
<1>2. IInv /\ SlotInv /\ [Next]_vars => SlotInv'
  BY NextSlotInv
<1>3. QED BY <1>1, <1>2, Invariance, PTL DEF Spec

\* Without flushes, a pool of no more buffers than held_buffers[] has slots never gives
\* two of its buffers the same one, however often the sink stops and starts.
THEOREM SlotsDiffer ==
  ASSUME SlotPolicy # "staged", NumBlocks <= PoolMax, MaxFlushes = 0
  PROVE  Spec => []SlotsDistinct
<1>1. SlotInv => SlotsDistinct
  BY DEF SlotInv
<1>2. QED BY <1>1, SlotInvariance, PTL

---------------------------------------------------------------------------
(* Lending: the inductive invariant *)


Calm ==
  /\ SlotPolicy \in {"block", "qdata"} /\ NumBlocks <= PoolMax
  /\ ~ConcurrentRelease
  /\ MaxFlushes = 0 /\ MaxSinkStops = 0 /\ MaxSrcStops = 0

\* The slot of a block that has one.
SlotOf(b) == IF SlotPolicy = "block" THEN b ELSE qslot[b]

\* Frame f is in block b, and b is held in its slot s or about to be.
Lent(f, b, s) ==
  /\ b \in Blocks /\ f \in Frames /\ content[b] = f
  /\ s \in Slots /\ s = SlotOf(b)
  /\ held[s] = b \/ (rpc = "hold" /\ rmsg.blk = b)

LentMsg(m, st) == Lent(m.frame, m.blk, m.slot) /\ stage[m.frame] = st
LentFF(m, st)  == (\E b \in Blocks : Lent(m.frame, b, m.slot)) /\ stage[m.frame] = st

\* Nobody stops or flushes.
Running ==
  /\ sinkState = "run" /\ ffThread = "run" /\ srcState # "stopped" /\ gen = 0

\* Frame numbers are fresh, so a frame is in one block at most.
FreshFrames ==
  /\ \A b \in Blocks : content[b] # None => content[b] < frame_id_seq
  /\ \A b, c \in Blocks : content[b] # None /\ content[b] = content[c] => b = c

\* A slot holds the block it was given to.
OwnSlot ==
  /\ \A s \in Slots : held[s] # None => SlotOf(held[s]) = s
  /\ rpc \in {"publish", "hold", "return"} =>
       /\ rmsg.slot = SlotOf(rmsg.blk) /\ content[rmsg.blk] = rmsg.frame
       /\ rpc = "publish" => stage[rmsg.frame] = "sink"

Elems(q) == {q[i] : i \in 1 .. Len(q)}
DistinctFrames(q) == \A i, j \in 1 .. Len(q) : q[i].frame = q[j].frame => i = j

\* Every sample on its way to the source or in it, and every FreeFrame on its way
\* back, stands for a lent frame, and only one of them does.
AmqLent   == DistinctFrames(amq) /\ \A m \in Elems(amq) : LentMsg(m, "am")
SmsgLent  == smsg # None => LentMsg(smsg, "src")
UsingLent == \A l \in using : LentMsg(l.msg, "using")
RelLent ==
  /\ \A j \in rel : LentMsg(j.loan.msg, "rel")
  /\ \A j, k \in rel : j.loan = k.loan => j = k
  /\ \A j, k \in Publishing : j = k
  /\ \A j \in rel : j.phase = "filled" => fm = FreeFrame(j.loan)
FfqLent   == DistinctFrames(ffq) /\ \A m \in Elems(ffq) : LentFF(m, "ff")
UnrefLent == \A m \in FFs : unrefs[m] > 0 => unrefs[m] = 1 /\ LentFF(m, "unref")

LInv == /\ Running /\ FreshFrames /\ OwnSlot
        /\ AmqLent /\ SmsgLent /\ UsingLent /\ RelLent /\ FfqLent /\ UnrefLent

---------------------------------------------------------------------------
(* Queues *)

\* What KEEP_LAST keeps is the new sample and what it does not overwrite.
LEMMA KeepLastElems ==
  ASSUME NEW S, NEW q \in Seq(S), NEW m \in S, Len(q) <= Depth, DistinctFrames(q),
         \A x \in Elems(q) : x.frame # m.frame
  PROVE  /\ DistinctFrames(KeepLast(q, m))
         /\ \A x \in Elems(KeepLast(q, m)) :
              x = m \/ (x \in Elems(q) /\ x.frame \notin Overwritten(q))
<1> USE ParamAssumption
<1>1. CASE Room(q)
  <2>1. KeepLast(q, m) = Append(q, m) /\ Overwritten(q) = {}
    BY <1>1 DEF KeepLast, Overwritten
  <2>2. /\ Len(Append(q, m)) = Len(q) + 1
        /\ Append(q, m)[Len(q) + 1] = m
        /\ \A i \in 1 .. Len(q) : Append(q, m)[i] = q[i] /\ q[i] \in Elems(q)
    BY DEF Elems
  <2>3. QED BY <2>1, <2>2 DEF DistinctFrames, Elems
<1>2. CASE ~Room(q)
  <2>1. /\ KeepLast(q, m) = Append(Tail(q), m)
        /\ Len(q) > 0 /\ Overwritten(q) = {q[1].frame}
    BY <1>2 DEF KeepLast, Overwritten, Room
  <2>2. Tail(q) \in Seq(S) /\ Len(Tail(q)) = Len(q) - 1
    BY <2>1
  <2>3. /\ Len(Append(Tail(q), m)) = Len(q)
        /\ Append(Tail(q), m)[Len(q)] = m
        /\ \A i \in 1 .. Len(q) - 1 : Append(Tail(q), m)[i] = q[i + 1]
    BY <2>1, <2>2
  <2>4. \A i \in 1 .. Len(q) - 1 : q[i + 1] \in Elems(q) /\ q[i + 1].frame # q[1].frame
    BY <2>1 DEF Elems, DistinctFrames
  <2>5. \A x \in Elems(Append(Tail(q), m)) :
           x = m \/ (x \in Elems(q) /\ x.frame # q[1].frame)
    BY <2>1, <2>3, <2>4 DEF Elems
  <2>6. DistinctFrames(Append(Tail(q), m))
    BY <2>1, <2>3, <2>4 DEF DistinctFrames
  <2>7. QED BY <2>1, <2>5, <2>6
<1>3. QED BY <1>1, <1>2

LEMMA TailElems ==
  ASSUME NEW S, NEW q \in Seq(S), q # <<>>, DistinctFrames(q)
  PROVE  /\ Head(q) \in Elems(q) /\ DistinctFrames(Tail(q))
         /\ \A x \in Elems(Tail(q)) : x \in Elems(q) /\ x.frame # Head(q).frame
<1>1. Len(q) > 0 /\ Head(q) = q[1]
  OBVIOUS
<1>2. Len(Tail(q)) = Len(q) - 1 /\ \A i \in 1 .. Len(q) - 1 : Tail(q)[i] = q[i + 1]
  BY <1>1
<1>3. \A i \in 1 .. Len(q) - 1 : q[i + 1] \in Elems(q) /\ q[i + 1].frame # q[1].frame
  BY <1>1 DEF Elems, DistinctFrames
<1>4. QED BY <1>1, <1>2, <1>3 DEF DistinctFrames, Elems

---------------------------------------------------------------------------
(* Places *)

\* Two samples that stand for the same frame are equal.
LEMMA SameFrame ==
  ASSUME FreshFrames,
         NEW f, NEW b, NEW c, NEW s, NEW t, Lent(f, b, s), Lent(f, c, t)
  PROVE  b = c /\ s = t
BY ParamAssumption DEF FreshFrames, Lent, Frames

\* A place none of whose frames is moved, and whose loans are kept, is as it was.
LEMMA PlacesKept ==
  ASSUME LInv, NEW T,
         \A f \in Frames, b \in Blocks, s \in Slots :
           Lent(f, b, s) /\ stage[f] \in T => Lent(f, b, s)' /\ stage'[f] = stage[f]
  PROVE  /\ "am" \in T /\ UNCHANGED amq => AmqLent'
         /\ "src" \in T /\ UNCHANGED smsg => SmsgLent'
         /\ "using" \in T /\ UNCHANGED using => UsingLent'
         /\ "rel" \in T /\ UNCHANGED <<rel, fm>> => RelLent'
         /\ "ff" \in T /\ UNCHANGED ffq => FfqLent'
         /\ "unref" \in T /\ UNCHANGED unrefs => UnrefLent'
<1>1. ASSUME NEW m, NEW st \in T, LentMsg(m, st)
      PROVE  LentMsg(m, st)'
  BY <1>1 DEF LentMsg, Lent
<1>2. ASSUME NEW m, NEW st \in T, LentFF(m, st)
      PROVE  LentFF(m, st)'
  BY <1>2 DEF LentFF, Lent
<1>3. QED BY <1>1, <1>2 DEF LInv, AmqLent, SmsgLent, UsingLent, RelLent, FfqLent, UnrefLent,
     DistinctFrames, Elems, Publishing

\* No two blocks share a slot, frames are numbers, and the application does nothing.
LEMMA CalmFacts ==
  ASSUME Calm, IInv, SlotInv, LInv
  PROVE  /\ \A b \in Blocks : b # None /\ SlotOf(b) \in Slots \cup {None}
         /\ \A b, c \in Blocks : SlotOf(b) \in Slots /\ SlotOf(b) = SlotOf(c) => b = c
         /\ \A s \in Slots : s # None /\ s < PoolMax
         /\ \A f \in Frames : f \in Nat /\ f # None
         /\ ~ConcurrentRelease /\ ~Application /\ ~FreeFrameThreadExit
<1>1. ~Application /\ ~FreeFrameThreadExit
  BY ParamAssumption DEF Calm, IInv, TypeOK, SrcTypeOK, HistoryTypeOK, LInv, Running,
     Application, FlushStart, SinkStop, SinkStopped, SinkStart, SrcStop, SrcStart,
     FreeFrameThreadExit
<1>2. \A s \in Slots : s # None /\ s < PoolMax
  BY ParamAssumption DEF Slots
<1>3. \A b \in Blocks : b # None /\ SlotOf(b) \in Slots \cup {None}
  BY ParamAssumption DEF Calm, SlotOf, Blocks, Slots, IInv, TypeOK, SinkTypeOK
<1>4. \A b, c \in Blocks : SlotOf(b) \in Slots /\ SlotOf(b) = SlotOf(c) => b = c
  BY <1>2 DEF SlotOf, SlotInv, SlotsDistinct
<1>5. QED BY <1>1, <1>2, <1>3, <1>4, ParamAssumption DEF Calm, Frames

---------------------------------------------------------------------------
(* render() *)

LEMMA RenderFillLInv ==
  ASSUME Calm, IInv, SlotInv, LInv, NEW c \in Blocks, RenderFill(c)
  PROVE  LInv'
<1> USE ParamAssumption, NoneAssumption, CalmFacts
<1>1. /\ frame_id_seq \in Frames /\ rpc = "idle" /\ rpc' = "publish"
      /\ frame_id_seq' = frame_id_seq + 1
      /\ rmsg' = [frame |-> frame_id_seq, blk |-> c, slot |-> SlotFor(c)]
      /\ content' = [content EXCEPT ![c] = frame_id_seq]
      /\ stage' = Move({frame_id_seq}, "sink")
      /\ UNCHANGED <<sinkState, ffThread, held, unrefs, amVars, ffVars, srcVars>>
  BY DEF RenderFill, Frames, IInv, TypeOK, SinkTypeOK
<1>s. /\ SlotOf(c)' = SlotFor(c)
      /\ \A b \in Blocks : SlotOf(b) \in Slots => SlotOf(b)' = SlotOf(b)
  BY DEF RenderFill, SlotOf, SlotFor, AssignsSlot, Calm, IInv, TypeOK, SinkTypeOK
<1>2. \A s \in Slots : held[s] # c
  BY DEF RenderFill, IInv, RefBalance, InRender, HeldBlocks
<1>3. \A b \in Blocks : /\ content'[b] = IF b = c THEN frame_id_seq ELSE content[b]
                        /\ content[b] \in Frames \cup {None}
                        /\ content[b] # frame_id_seq
  BY <1>1 DEF IInv, TypeOK, SinkTypeOK, LInv, FreshFrames, Frames
<1>4. \A f \in Frames, b \in Blocks, s \in Slots :
        Lent(f, b, s) /\ stage[f] \in Stages => Lent(f, b, s)' /\ stage'[f] = stage[f]
  BY <1>1, <1>2, <1>3, <1>s DEF Lent, Move
<1>5. AmqLent' /\ SmsgLent' /\ UsingLent' /\ RelLent' /\ FfqLent' /\ UnrefLent'
  BY <1>1, <1>4, PlacesKept DEF Stages, amVars, ffVars, srcVars
<1>6. Running'
  BY <1>1 DEF LInv, Running, srcVars
<1>7. FreshFrames'
  BY <1>1, <1>3 DEF LInv, FreshFrames, IInv, TypeOK, SinkTypeOK, Frames
<1>8. OwnSlot'
  BY <1>1, <1>3, <1>s DEF LInv, OwnSlot, Move, IInv, TypeOK, SinkTypeOK
<1>9. QED BY <1>5, <1>6, <1>7, <1>8 DEF LInv

LEMMA RenderFailsLInv ==
  ASSUME Calm, IInv, SlotInv, LInv, RenderFails
  PROVE  LInv'
<1>1. /\ rpc = "publish" /\ rpc' = "error" /\ stage[rmsg.frame] = "sink"
      /\ stage' = Move({rmsg.frame}, "lost")
      /\ UNCHANGED <<sinkState, ffThread, qslot, frame_id_seq, rmsg, held, content, unrefs,
                     amVars, ffVars, srcVars>>
  BY DEF RenderFails, LInv, OwnSlot
<1>2. \A f \in Frames, b \in Blocks, s \in Slots :
        Lent(f, b, s) /\ stage[f] \in Stages \ {"sink"} => Lent(f, b, s)' /\ stage'[f] = stage[f]
  BY <1>1 DEF Lent, Move, SlotOf
<1>3. AmqLent' /\ SmsgLent' /\ UsingLent' /\ RelLent' /\ FfqLent' /\ UnrefLent'
  BY <1>1, <1>2, PlacesKept DEF Stages, amVars, ffVars, srcVars
<1>4. Running' /\ FreshFrames' /\ OwnSlot'
  BY <1>1 DEF LInv, Running, FreshFrames, OwnSlot, srcVars, SlotOf
<1>5. QED BY <1>3, <1>4 DEF LInv

LEMMA RenderPublishLInv ==
  ASSUME Calm, IInv, SlotInv, LInv, RenderPublish
  PROVE  LInv'
<1> USE ParamAssumption, CalmFacts
<1>1. /\ rpc = "publish" /\ rmsg \in Msgs /\ rmsg.slot = SlotOf(rmsg.blk)
      /\ rmsg.slot \in Slots
      /\ rmsg.frame \in Frames /\ rmsg.blk \in Blocks
      /\ content[rmsg.blk] = rmsg.frame /\ stage[rmsg.frame] = "sink"
  BY DEF RenderPublish, IInv, RenderOK, LInv, OwnSlot, Msgs, Indexes
<1>2. /\ rpc' = "hold"
      /\ amq' = KeepLast(amq, rmsg)
      /\ stage' = [Move(Overwritten(amq), "lost") EXCEPT ![rmsg.frame] = "am"]
      /\ UNCHANGED <<sinkState, ffThread, qslot, frame_id_seq, rmsg, held, content, unrefs,
                     ffVars, srcVars>>
  BY <1>1 DEF RenderPublish, LInv, Running
<1>3. /\ amq \in Seq(Msgs) /\ Len(amq) <= Depth
      /\ \A m \in Elems(amq) : m.frame # rmsg.frame
  BY <1>1 DEF IInv, TypeOK, DdsTypeOK, LInv, AmqLent, LentMsg
<1>4. /\ DistinctFrames(amq')
      /\ \A m \in Elems(amq') :
           m = rmsg \/ (m \in Elems(amq) /\ m.frame \notin Overwritten(amq))
  BY <1>1, <1>2, <1>3, KeepLastElems DEF LInv, AmqLent
<1>5. \A f \in Overwritten(amq) : stage[f] = "am"
  <2>1. amq # <<>> /\ Len(amq) > 0 => Head(amq) \in Elems(amq)
    BY <1>3, TailElems DEF LInv, AmqLent
  <2>2. ~Room(amq) => amq # <<>> /\ Len(amq) > 0
    BY <1>3 DEF Room
  <2>3. QED BY <2>1, <2>2 DEF Overwritten, LInv, AmqLent, LentMsg
<1>6. \A f \in Frames, b \in Blocks, s \in Slots :
        Lent(f, b, s) => /\ Lent(f, b, s)'
                         /\ f \notin Overwritten(amq) /\ f # rmsg.frame
                              => stage'[f] = stage[f]
  BY <1>1, <1>2 DEF Lent, Move, SlotOf
<1>7. SmsgLent' /\ UsingLent' /\ RelLent' /\ FfqLent' /\ UnrefLent'
  <2>1. \A f \in Frames, b \in Blocks, s \in Slots :
          Lent(f, b, s) /\ stage[f] \in Stages \ {"am", "sink"}
            => Lent(f, b, s)' /\ stage'[f] = stage[f]
    BY <1>1, <1>5, <1>6
  <2>2. QED BY <1>2, <2>1, PlacesKept DEF Stages, ffVars, srcVars
<1>8. AmqLent'
  <2>1. LentMsg(rmsg, "am")'
    <3>1. stage'[rmsg.frame] = "am"
      BY <1>1, <1>2 DEF Move
    <3>2. QED BY <1>1, <1>2, <3>1 DEF LentMsg, Lent, SlotOf
  <2>2. \A m \in Elems(amq) : m.frame \notin Overwritten(amq) => LentMsg(m, "am")'
    BY <1>3, <1>6 DEF LInv, AmqLent, LentMsg, Lent
  <2>3. QED BY <1>2, <1>4, <2>1, <2>2 DEF AmqLent
<1>9. Running' /\ FreshFrames' /\ OwnSlot'
  BY <1>1, <1>2 DEF LInv, Running, FreshFrames, OwnSlot, srcVars, SlotOf
<1>10. QED BY <1>7, <1>8, <1>9 DEF LInv

LEMMA RenderHoldLInv ==
  ASSUME Calm, IInv, SlotInv, LInv, RenderHold \/ RenderReturn
  PROVE  LInv'
<1> USE ParamAssumption, CalmFacts
<1>1. /\ rpc \in {"hold", "return"} /\ rpc' \in {"return", "idle"}
      /\ rmsg.blk \in Blocks /\ rmsg.slot = SlotOf(rmsg.blk)
      /\ rpc = "hold" => rmsg.slot \in Slots
      /\ held' = IF rpc = "hold" THEN [held EXCEPT ![rmsg.slot] = rmsg.blk] ELSE held
      /\ UNCHANGED <<sinkState, ffThread, qslot, frame_id_seq, rmsg, content, unrefs, amVars,
                     ffVars, srcVars, stage>>
  BY DEF RenderHold, RenderReturn, IInv, RenderOK, LInv, OwnSlot, Msgs
<1>2. \A f \in Frames, b \in Blocks, s \in Slots :
        Lent(f, b, s) /\ stage[f] \in Stages => Lent(f, b, s)' /\ stage'[f] = stage[f]
  BY <1>1 DEF Lent, IInv, TypeOK, SinkTypeOK, SlotOf
<1>3. AmqLent' /\ SmsgLent' /\ UsingLent' /\ RelLent' /\ FfqLent' /\ UnrefLent'
  BY <1>1, <1>2, PlacesKept DEF Stages, amVars, ffVars, srcVars
<1>4. Running' /\ FreshFrames'
  BY <1>1 DEF LInv, Running, FreshFrames, srcVars
<1>5. OwnSlot'
  BY <1>1 DEF LInv, OwnSlot, IInv, TypeOK, SinkTypeOK, SlotOf
<1>6. QED BY <1>3, <1>4, <1>5 DEF LInv

---------------------------------------------------------------------------
(* FreeFrame thread and its jobs *)

LEMMA FreeFrameTakeLInv ==
  ASSUME Calm, IInv, SlotInv, LInv, FreeFrameTake
  PROVE  LInv'
<1> USE ParamAssumption, CalmFacts
<1>h. PICK h : h = Head(ffq)
  OBVIOUS
<1>1. /\ ffq \in Seq(FFs) /\ ffq # <<>> /\ DistinctFrames(ffq)
      /\ ffq' = Tail(ffq)
      /\ unrefs' = [unrefs EXCEPT ![h] = @ + 1]
      /\ stage' = Move({h.frame}, "unref")
      /\ UNCHANGED <<sinkVars, amVars, srcVars>>
  BY <1>h DEF FreeFrameTake, IInv, TypeOK, DdsTypeOK, LInv, FfqLent
<1>2. /\ h \in Elems(ffq) /\ DistinctFrames(ffq')
      /\ \A m \in Elems(ffq') : m \in Elems(ffq) /\ m.frame # h.frame
  BY <1>h, <1>1, TailElems
<1>3. h \in FFs /\ LentFF(h, "ff")
  BY <1>h, <1>1, <1>2 DEF LInv, FfqLent
<1>4. \A f \in Frames, b \in Blocks, s \in Slots :
        Lent(f, b, s) => Lent(f, b, s)' /\ (f # h.frame => stage'[f] = stage[f])
  BY <1>1 DEF Lent, Move, sinkVars, SlotOf
<1>5. AmqLent' /\ SmsgLent' /\ UsingLent' /\ RelLent'
  <2>1. \A f \in Frames, b \in Blocks, s \in Slots :
          Lent(f, b, s) /\ stage[f] \in Stages \ {"ff", "unref"}
            => Lent(f, b, s)' /\ stage'[f] = stage[f]
    BY <1>3, <1>4 DEF LentFF
  <2>2. QED BY <1>1, <2>1, PlacesKept DEF Stages, amVars, srcVars
<1>6. FfqLent'
  <2>1. \A m \in Elems(ffq') : LentFF(m, "ff")'
    BY <1>2, <1>4 DEF LInv, FfqLent, LentFF, Lent
  <2>2. QED BY <1>2, <2>1 DEF FfqLent
<1>7. UnrefLent'
  <2>1. \A m \in FFs : unrefs[m] \in Nat
    BY DEF IInv, TypeOK, SinkTypeOK
  <2>2. \A m \in FFs : unrefs[m] > 0 => m.frame # h.frame
    BY <1>3 DEF LInv, UnrefLent, LentFF
  <2>3. unrefs[h] = 0
    BY <1>3, <2>1, <2>2
  <2>4. LentFF(h, "unref")'
    <3>1. stage'[h.frame] = "unref"
      BY <1>1, <1>3 DEF LentFF, Lent, Move
    <3>2. QED BY <1>3, <1>4, <3>1 DEF LentFF, Lent
  <2>5. \A m \in FFs : unrefs'[m] = IF m = h THEN 1 ELSE unrefs[m]
    BY <1>1, <1>3, <2>3 DEF IInv, TypeOK, SinkTypeOK
  <2>6. \A m \in FFs : unrefs[m] > 0 => unrefs[m] = 1 /\ LentFF(m, "unref")'
    BY <1>4, <2>2 DEF LInv, UnrefLent, LentFF, Lent
  <2>7. QED BY <2>4, <2>5, <2>6 DEF UnrefLent
<1>8. Running' /\ FreshFrames'
  BY <1>1 DEF LInv, Running, FreshFrames, sinkVars, srcVars
<1>9. OwnSlot'
  <2>1. rpc = "publish" => rmsg.frame # h.frame
    BY <1>3 DEF LInv, OwnSlot, LentFF
  <2>2. rpc = "publish" => rmsg.frame \in Frames
    BY DEF IInv, RenderOK, Msgs
  <2>3. QED BY <1>1, <2>1, <2>2 DEF LInv, OwnSlot, sinkVars, Move, SlotOf
<1>10. QED BY <1>5, <1>6, <1>7, <1>8, <1>9 DEF LInv

\* The job clears the slot of the frame it was queued for: nobody else has a loan
\* in that block.
LEMMA FreeFrameUnrefLInv ==
  ASSUME Calm, IInv, SlotInv, LInv, NEW m \in FFs, FreeFrameUnref(m)
  PROVE  LInv'
<1> USE ParamAssumption, CalmFacts
<1>1. LentFF(m, "unref") /\ unrefs[m] = 1 /\ m.slot \in Slots /\ m.frame \in Frames
  BY DEF FreeFrameUnref, LInv, UnrefLent, LentFF, Lent
<1>2. /\ unrefs' = [unrefs EXCEPT ![m] = @ - 1]
      /\ held' = IF held[m.slot] # None THEN [held EXCEPT ![m.slot] = None] ELSE held
      /\ \E to \in {"done", "early"} : stage' = Move({m.frame}, to)
      /\ UNCHANGED <<sinkState, ffThread, qslot, frame_id_seq, rpc, rmsg, content, amVars,
                     ffVars, srcVars>>
  BY <1>1 DEF FreeFrameUnref
<1>3. \A f \in Frames, b \in Blocks, s \in Slots :
        Lent(f, b, s) /\ f # m.frame => Lent(f, b, s)' /\ stage'[f] = stage[f]
  <2>1. SUFFICES ASSUME NEW f \in Frames, NEW b \in Blocks, NEW s \in Slots,
                        Lent(f, b, s), f # m.frame
                 PROVE  Lent(f, b, s)' /\ stage'[f] = stage[f]
    OBVIOUS
  <2>2. PICK c \in Blocks : Lent(m.frame, c, m.slot)
    BY <1>1 DEF LentFF
  <2>3. s # m.slot
    BY <2>1, <2>2 DEF Lent
  <2>4. QED BY <1>1, <1>2, <2>1, <2>3 DEF Lent, Move, IInv, TypeOK, SinkTypeOK, SlotOf
<1>4. AmqLent' /\ SmsgLent' /\ UsingLent' /\ RelLent' /\ FfqLent'
  <2>1. \A f \in Frames, b \in Blocks, s \in Slots :
          Lent(f, b, s) /\ stage[f] \in Stages \ {"unref"}
            => Lent(f, b, s)' /\ stage'[f] = stage[f]
    BY <1>1, <1>3 DEF LentFF
  <2>2. QED BY <1>2, <2>1, PlacesKept DEF Stages, amVars, ffVars, srcVars
<1>5. UnrefLent'
  <2>1. \A n \in FFs : unrefs'[n] = IF n = m THEN 0 ELSE unrefs[n]
    BY <1>1, <1>2 DEF IInv, TypeOK, SinkTypeOK
  <2>2. ASSUME NEW n \in FFs, n # m, unrefs[n] > 0
        PROVE  unrefs[n] = 1 /\ LentFF(n, "unref")'
    <3>1. unrefs[n] = 1 /\ LentFF(n, "unref")
      BY <2>2 DEF LInv, UnrefLent
    <3>2. n.frame # m.frame
      <4>1. n.frame = m.frame => n.slot = m.slot
        BY <1>1, <3>1, SameFrame DEF LentFF, LInv
      <4>2. /\ n = [frame |-> n.frame, slot |-> n.slot]
            /\ m = [frame |-> m.frame, slot |-> m.slot]
        BY DEF FFs
      <4>3. QED BY <2>2, <4>1, <4>2
    <3>3. QED BY <1>3, <3>1, <3>2 DEF LentFF, Lent
  <2>3. QED BY <2>1, <2>2 DEF UnrefLent
<1>6. Running' /\ FreshFrames'
  BY <1>2 DEF LInv, Running, FreshFrames, srcVars
<1>7. OwnSlot'
  <2>1. \A s \in Slots : held'[s] \in {held[s], None}
    BY <1>1, <1>2 DEF LInv, OwnSlot, IInv, TypeOK, SinkTypeOK
  <2>2. rpc = "publish" => rmsg.frame # m.frame /\ rmsg.frame \in Frames
    BY <1>1 DEF LInv, OwnSlot, LentFF, IInv, RenderOK, Msgs
  <2>3. QED BY <1>2, <2>1, <2>2 DEF LInv, OwnSlot, Move, SlotOf
<1>8. QED BY <1>4, <1>5, <1>6, <1>7 DEF LInv

---------------------------------------------------------------------------
(* The source *)

\* A sample leaves the reader cache: it is taken, or its lifespan ends.
LEMMA SrcTakeLInv ==
  ASSUME Calm, IInv, SlotInv, LInv, SrcTake \/ AmExpire
  PROVE  LInv'
<1> USE ParamAssumption, NoneAssumption, CalmFacts
<1>h. PICK h : h = Head(amq)
  OBVIOUS
<1>1. /\ amq # <<>> /\ amq' = Tail(amq) /\ amq \in Seq(Msgs) /\ DistinctFrames(amq)
      /\ UNCHANGED <<sinkVars, unrefs, ffVars, srcState, using, rel, fm, gen>>
      /\ \/ smsg' = h /\ smsg = None /\ stage' = Move({h.frame}, "src")
         \/ smsg' = smsg /\ stage' = Move({h.frame}, "lost")
  BY <1>h DEF SrcTake, AmExpire, srcVars, LInv, AmqLent, IInv, TypeOK, DdsTypeOK
<1>2. /\ h \in Elems(amq) /\ DistinctFrames(amq')
      /\ \A m \in Elems(amq') : m \in Elems(amq) /\ m.frame # h.frame
  BY <1>h, <1>1, TailElems
<1>3. LentMsg(h, "am") /\ h.frame \in Frames
  BY <1>2 DEF LInv, AmqLent, LentMsg, Lent
<1>4. \A f \in Frames, b \in Blocks, s \in Slots :
        Lent(f, b, s) => Lent(f, b, s)' /\ (f # h.frame => stage'[f] = stage[f])
  BY <1>1 DEF Lent, Move, sinkVars, SlotOf
<1>5. UsingLent' /\ RelLent' /\ FfqLent' /\ UnrefLent'
  <2>1. \A f \in Frames, b \in Blocks, s \in Slots :
          Lent(f, b, s) /\ stage[f] \in {"using", "rel", "ff", "unref"}
            => Lent(f, b, s)' /\ stage'[f] = stage[f]
    BY <1>3, <1>4 DEF LentMsg
  <2>2. QED BY <1>1, <2>1, PlacesKept DEF ffVars
<1>6. AmqLent'
  <2>1. \A m \in Elems(amq') : LentMsg(m, "am")'
    BY <1>2, <1>4 DEF LInv, AmqLent, LentMsg, Lent
  <2>2. QED BY <1>2, <2>1 DEF AmqLent
<1>7. SmsgLent'
  <2>1. CASE smsg' = h /\ stage' = Move({h.frame}, "src")
    <3>1. stage'[h.frame] = "src"
      BY <1>3, <2>1 DEF Move
    <3>2. LentMsg(h, "src")'
      BY <1>3, <1>4, <3>1 DEF LentMsg, Lent
    <3>3. QED BY <2>1, <3>2 DEF SmsgLent
  <2>2. CASE smsg' = smsg
    BY <1>3, <1>4, <2>2 DEF LInv, SmsgLent, LentMsg, Lent
  <2>3. QED BY <1>1, <2>1, <2>2
<1>8. Running' /\ FreshFrames'
  BY <1>1 DEF LInv, Running, FreshFrames, sinkVars
<1>9. OwnSlot'
  <2>1. rpc = "publish" => rmsg.frame # h.frame /\ rmsg.frame \in Frames
    BY <1>3 DEF LInv, OwnSlot, LentMsg, IInv, RenderOK, Msgs
  <2>2. QED BY <1>1, <2>1 DEF LInv, OwnSlot, sinkVars, Move, SlotOf
<1>10. QED BY <1>5, <1>6, <1>7, <1>8, <1>9 DEF LInv

\* create() wraps the memory of its sample, or fails to.
LEMMA SrcWrapLInv ==
  ASSUME Calm, IInv, SlotInv, LInv, SrcWrap \/ SrcWrapFails
  PROVE  LInv'
<1> USE ParamAssumption, NoneAssumption, CalmFacts
<1>h. PICK h : h = smsg
  OBVIOUS
<1>1. /\ smsg # None /\ smsg' = None /\ srcState' # "stopped"
      /\ UNCHANGED <<sinkVars, unrefs, amVars, ffVars, rel, fm, gen>>
      /\ \/ /\ using' = using \cup {[msg |-> h, gen |-> gen]}
            /\ stage' = Move({h.frame}, "using")
         \/ using' = using /\ stage' = Move({h.frame}, "lost")
  BY <1>h DEF SrcWrap, SrcWrapFails
<1>2. LentMsg(h, "src") /\ h.frame \in Frames
  BY <1>h, <1>1 DEF LInv, SmsgLent, LentMsg, Lent
<1>3. \A f \in Frames, b \in Blocks, s \in Slots :
        Lent(f, b, s) => Lent(f, b, s)' /\ (f # h.frame => stage'[f] = stage[f])
  BY <1>1 DEF Lent, Move, sinkVars, SlotOf
<1>4. AmqLent' /\ RelLent' /\ FfqLent' /\ UnrefLent'
  <2>1. \A f \in Frames, b \in Blocks, s \in Slots :
          Lent(f, b, s) /\ stage[f] \in {"am", "rel", "ff", "unref"}
            => Lent(f, b, s)' /\ stage'[f] = stage[f]
    BY <1>2, <1>3 DEF LentMsg
  <2>2. QED BY <1>1, <2>1, PlacesKept DEF amVars, ffVars
<1>5. SmsgLent'
  BY <1>1 DEF SmsgLent
<1>6. UsingLent'
  <2>1. \A l \in using : LentMsg(l.msg, "using")'
    BY <1>2, <1>3 DEF LInv, UsingLent, LentMsg, Lent
  <2>2. CASE /\ using' = using \cup {[msg |-> h, gen |-> gen]}
             /\ stage' = Move({h.frame}, "using")
    <3>1. stage'[h.frame] = "using"
      BY <1>2, <2>2 DEF Move
    <3>2. LentMsg(h, "using")'
      BY <1>2, <1>3, <3>1 DEF LentMsg, Lent
    <3>3. QED BY <2>1, <2>2, <3>2 DEF UsingLent
  <2>3. CASE using' = using
    BY <2>1, <2>3 DEF UsingLent
  <2>4. QED BY <1>1, <2>2, <2>3
<1>7. Running' /\ FreshFrames'
  BY <1>1 DEF LInv, Running, FreshFrames, sinkVars
<1>8. OwnSlot'
  <2>1. rpc = "publish" => rmsg.frame # h.frame /\ rmsg.frame \in Frames
    BY <1>2 DEF LInv, OwnSlot, LentMsg, IInv, RenderOK, Msgs
  <2>2. QED BY <1>1, <2>1 DEF LInv, OwnSlot, sinkVars, Move, SlotOf
<1>9. QED BY <1>4, <1>5, <1>6, <1>7, <1>8 DEF LInv

\* Downstream drops its last reference to a buffer.
LEMMA ReleaseLInv ==
  ASSUME Calm, IInv, SlotInv, LInv, NEW l \in using, Release(l)
  PROVE  LInv'
<1> USE ParamAssumption, NoneAssumption, CalmFacts
<1> DEFINE job == [loan |-> l, phase |-> "queued"]
<1>1. /\ using' = using \ {l} /\ rel' = rel \cup {job}
      /\ stage' = Move({l.msg.frame}, "rel")
      /\ UNCHANGED <<sinkVars, unrefs, amVars, ffVars, srcState, smsg, fm, gen>>
  BY DEF Release
<1>2. LentMsg(l.msg, "using") /\ l.msg.frame \in Frames
  BY DEF LInv, UsingLent, LentMsg, Lent
<1>3. \A f \in Frames, b \in Blocks, s \in Slots :
        Lent(f, b, s) => Lent(f, b, s)' /\ (f # l.msg.frame => stage'[f] = stage[f])
  BY <1>1 DEF Lent, Move, sinkVars, SlotOf
<1>4. AmqLent' /\ SmsgLent' /\ FfqLent' /\ UnrefLent'
  <2>1. \A f \in Frames, b \in Blocks, s \in Slots :
          Lent(f, b, s) /\ stage[f] \in {"am", "src", "ff", "unref"}
            => Lent(f, b, s)' /\ stage'[f] = stage[f]
    BY <1>2, <1>3 DEF LentMsg
  <2>2. QED BY <1>1, <2>1, PlacesKept DEF amVars, ffVars
<1>5. UsingLent'
  <2>1. ASSUME NEW k \in using, k # l
        PROVE  LentMsg(k.msg, "using") /\ k.msg.frame # l.msg.frame
    <3>1. LentMsg(k.msg, "using")
      BY DEF LInv, UsingLent
    <3>2. k.msg.frame = l.msg.frame => k.msg.blk = l.msg.blk /\ k.msg.slot = l.msg.slot
      BY <1>2, <3>1, SameFrame DEF LentMsg, LInv
    <3>3. /\ k = [msg |-> k.msg, gen |-> 0] /\ l = [msg |-> l.msg, gen |-> 0]
          /\ k.msg \in Msgs /\ l.msg \in Msgs
      BY DEF Calm, Loans, IInv, TypeOK, SrcTypeOK
    <3>4. /\ k.msg = [frame |-> k.msg.frame, blk |-> k.msg.blk, slot |-> k.msg.slot]
          /\ l.msg = [frame |-> l.msg.frame, blk |-> l.msg.blk, slot |-> l.msg.slot]
      BY <3>3 DEF Msgs
    <3>5. QED BY <2>1, <3>1, <3>2, <3>3, <3>4
  <2>2. ASSUME NEW k \in using'
        PROVE  LentMsg(k.msg, "using")'
    <3>1. k \in using /\ k # l
      BY <1>1
    <3>2. LentMsg(k.msg, "using") /\ k.msg.frame # l.msg.frame
      BY <2>1, <3>1
    <3>3. Lent(k.msg.frame, k.msg.blk, k.msg.slot)' /\ stage'[k.msg.frame] = stage[k.msg.frame]
      BY <1>3, <3>2 DEF LentMsg, Lent
    <3>4. QED BY <3>2, <3>3 DEF LentMsg
  <2>3. QED BY <2>2 DEF UsingLent
<1>6. RelLent'
  <2>1. \A j \in rel : j.loan.msg.frame # l.msg.frame /\ j.loan # l
    BY <1>2 DEF LInv, RelLent, LentMsg
  <2>2. \A j \in rel : LentMsg(j.loan.msg, "rel")'
    BY <1>3, <2>1 DEF LInv, RelLent, LentMsg, Lent
  <2>3. LentMsg(l.msg, "rel")'
    <3>1. stage'[l.msg.frame] = "rel"
      BY <1>1, <1>2 DEF Move, LentMsg, Lent
    <3>2. QED BY <1>2, <1>3, <3>1 DEF LentMsg, Lent
  <2>4. Publishing' = Publishing
    BY <1>1 DEF Publishing
  <2>5. QED BY <1>1, <2>1, <2>2, <2>3, <2>4 DEF LInv, RelLent, FreeFrame
<1>7. Running' /\ FreshFrames'
  BY <1>1 DEF LInv, Running, FreshFrames, sinkVars
<1>8. OwnSlot'
  <2>1. rpc = "publish" => rmsg.frame # l.msg.frame /\ rmsg.frame \in Frames
    BY <1>2 DEF LInv, OwnSlot, LentMsg, IInv, RenderOK, Msgs
  <2>2. QED BY <1>1, <2>1 DEF LInv, OwnSlot, sinkVars, Move, SlotOf
<1>9. QED BY <1>4, <1>5, <1>6, <1>7, <1>8 DEF LInv

\* Two releases in progress never name the same frame.
LEMMA JobFrames ==
  ASSUME Calm, IInv, SlotInv, LInv, NEW j \in rel, NEW k \in rel,
         k.loan.msg.frame = j.loan.msg.frame
  PROVE  k = j
<1>1. LentMsg(j.loan.msg, "rel") /\ LentMsg(k.loan.msg, "rel")
  BY DEF LInv, RelLent
<1>2. k.loan.msg.blk = j.loan.msg.blk /\ k.loan.msg.slot = j.loan.msg.slot
  BY <1>1, SameFrame DEF LentMsg, LInv
<1>3. /\ k.loan = [msg |-> k.loan.msg, gen |-> 0] /\ j.loan = [msg |-> j.loan.msg, gen |-> 0]
      /\ k.loan.msg \in Msgs /\ j.loan.msg \in Msgs
  BY DEF Calm, Jobs, Loans, IInv, TypeOK, SrcTypeOK
<1>4. /\ k.loan.msg = [frame |-> k.loan.msg.frame, blk |-> k.loan.msg.blk, slot |-> k.loan.msg.slot]
      /\ j.loan.msg = [frame |-> j.loan.msg.frame, blk |-> j.loan.msg.blk, slot |-> j.loan.msg.slot]
  BY <1>3 DEF Msgs
<1>5. k.loan = j.loan
  BY <1>2, <1>3, <1>4
<1>6. QED BY <1>5 DEF LInv, RelLent

\* One thread at a time clears and fills the shared message.
LEMMA PublishPhaseLInv ==
  ASSUME Calm, IInv, SlotInv, LInv, NEW j \in rel, PublishZero(j) \/ PublishFill(j)
  PROVE  LInv'
<1> USE ParamAssumption, NoneAssumption, CalmFacts
<1>1. /\ UNCHANGED <<sinkVars, unrefs, amVars, ffVars, srcState, smsg, using, gen, stage>>
      /\ \/ j.phase = "queued" /\ Publishing = {} /\ rel' = SetPhase(j, "zeroed")
         \/ /\ j.phase = "zeroed" /\ rel' = SetPhase(j, "filled")
            /\ fm' = FreeFrame(j.loan)
  BY DEF PublishZero, PublishFill
<1>2. \A f \in Frames, b \in Blocks, s \in Slots :
        Lent(f, b, s) => Lent(f, b, s)' /\ stage'[f] = stage[f]
  BY <1>1 DEF Lent, sinkVars, SlotOf
<1>3. AmqLent' /\ SmsgLent' /\ UsingLent' /\ FfqLent' /\ UnrefLent'
  <2>1. \A f \in Frames, b \in Blocks, s \in Slots :
          Lent(f, b, s) /\ stage[f] \in {"am", "src", "using", "ff", "unref"}
            => Lent(f, b, s)' /\ stage'[f] = stage[f]
    BY <1>2
  <2>2. QED BY <1>1, <2>1, PlacesKept DEF amVars, ffVars
<1>4. PICK p \in {"zeroed", "filled"} :
        /\ rel' = SetPhase(j, p)
        /\ p = "filled" => fm' = FreeFrame(j.loan)
        /\ Publishing \subseteq {j}
  <2>1. \A k, i \in Publishing : k = i
    BY DEF LInv, RelLent
  <2>2. j.phase = "zeroed" => j \in Publishing
    BY DEF Publishing
  <2>3. QED BY <1>1, <2>1, <2>2
<1>5. j \in Jobs /\ \A k \in rel : k \in Jobs
  BY DEF IInv, TypeOK, SrcTypeOK
<1>6. PICK n : n = [j EXCEPT !.phase = p]
  OBVIOUS
<1>7. /\ rel' = (rel \ {j}) \cup {n}
      /\ n.loan = j.loan /\ n.phase = p
  BY <1>4, <1>5, <1>6 DEF SetPhase, Jobs
<1>8. \A k \in rel : k # j => k.phase = "queued" /\ k.loan # j.loan
  BY <1>4 DEF Publishing, LInv, RelLent
<1>9. RelLent'
  <2>1. \A k \in rel' : LentMsg(k.loan.msg, "rel")'
    <3>1. \A k \in rel : LentMsg(k.loan.msg, "rel")'
      BY <1>2 DEF LInv, RelLent, LentMsg, Lent
    <3>2. QED BY <1>7, <3>1
  <2>2. \A k, i \in rel' : k.loan = i.loan => k = i
    BY <1>7, <1>8 DEF LInv, RelLent
  <2>3. Publishing' = {k \in rel' : k.phase # "queued"}
    BY DEF Publishing
  <2>4. \A k, i \in Publishing' : k = i
    BY <1>7, <1>8, <2>3
  <2>5. \A k \in rel' : k.phase = "filled" => fm' = FreeFrame(k.loan)
    BY <1>4, <1>7, <1>8 DEF FreeFrame
  <2>6. QED BY <2>1, <2>2, <2>4, <2>5 DEF RelLent, FreeFrame
<1>10. Running' /\ FreshFrames' /\ OwnSlot'
  BY <1>1 DEF LInv, Running, FreshFrames, OwnSlot, sinkVars, SlotOf
<1>11. QED BY <1>3, <1>9, <1>10 DEF LInv

\* The FreeFrame goes out, the reader cache may drop an older one.
LEMMA PublishWriteLInv ==
  ASSUME Calm, IInv, SlotInv, LInv, NEW j \in rel, PublishWrite(j)
  PROVE  LInv'
<1> USE ParamAssumption, NoneAssumption, CalmFacts
<1>1. /\ j.phase = "filled" /\ rel' = rel \ {j}
      /\ ffq' = KeepLast(ffq, fm)
      /\ stage' = [Move(Overwritten(ffq), "unfreed") EXCEPT ![j.loan.msg.frame] = "ff"]
      /\ UNCHANGED <<sinkVars, unrefs, amVars, srcState, smsg, using, fm, gen>>
  BY DEF PublishWrite, LInv, Running
<1>2. PICK h : h = j.loan.msg
  OBVIOUS
<1>3. /\ LentMsg(h, "rel") /\ h.frame \in Frames
      /\ fm.frame = h.frame /\ fm.slot = h.slot
  BY <1>1, <1>2 DEF LInv, RelLent, LentMsg, Lent, FreeFrame
<1>4. fm \in FFs
  <2>1. h \in Msgs
    BY <1>2 DEF IInv, TypeOK, SrcTypeOK, Jobs, Loans
  <2>2. fm = [frame |-> h.frame, slot |-> h.slot]
    BY <1>1, <1>2 DEF LInv, RelLent, FreeFrame
  <2>3. QED BY <2>1, <2>2 DEF Msgs, FFs
<1>5. /\ ffq \in Seq(FFs) /\ Len(ffq) <= Depth /\ DistinctFrames(ffq)
      /\ \A x \in Elems(ffq) : LentFF(x, "ff")
  BY DEF IInv, TypeOK, DdsTypeOK, LInv, FfqLent
<1>6. \A x \in Elems(ffq) : x.frame # fm.frame
  BY <1>3, <1>5 DEF LentFF, LentMsg
<1>7. /\ DistinctFrames(ffq')
      /\ \A x \in Elems(ffq') :
           x = fm \/ (x \in Elems(ffq) /\ x.frame \notin Overwritten(ffq))
  BY <1>1, <1>4, <1>5, <1>6, KeepLastElems
<1>8. \A f \in Overwritten(ffq) : stage[f] = "ff"
  <2>1. ffq # <<>> => Head(ffq) \in Elems(ffq)
    BY <1>5, TailElems
  <2>2. ~Room(ffq) => ffq # <<>>
    BY <1>5 DEF Room
  <2>3. QED BY <1>5, <2>1, <2>2 DEF Overwritten, LentFF
<1>9. \A f \in Frames : /\ f = h.frame => stage'[f] = "ff"
                        /\ f # h.frame /\ f \notin Overwritten(ffq) => stage'[f] = stage[f]
  BY <1>1, <1>2 DEF Move
<1>10. \A f \in Frames, b \in Blocks, s \in Slots : Lent(f, b, s) => Lent(f, b, s)'
  BY <1>1 DEF Lent, sinkVars, SlotOf
<1>11. AmqLent' /\ SmsgLent' /\ UsingLent' /\ UnrefLent'
  <2>1. \A f \in Frames, b \in Blocks, s \in Slots :
          Lent(f, b, s) /\ stage[f] \in {"am", "src", "using", "unref"}
            => Lent(f, b, s)' /\ stage'[f] = stage[f]
    BY <1>3, <1>8, <1>9, <1>10 DEF LentMsg
  <2>2. QED BY <1>1, <2>1, PlacesKept DEF amVars
<1>12. RelLent'
  <2>1. ASSUME NEW k \in rel'
        PROVE  LentMsg(k.loan.msg, "rel")'
    <3>1. k \in rel /\ k # j
      BY <1>1
    <3>2. LentMsg(k.loan.msg, "rel") /\ k.loan.msg.frame # h.frame
      BY <1>2, <3>1, JobFrames DEF LInv, RelLent
    <3>3. Lent(k.loan.msg.frame, k.loan.msg.blk, k.loan.msg.slot)' /\ stage'[k.loan.msg.frame] = "rel"
      BY <1>8, <1>9, <1>10, <3>2 DEF LentMsg, Lent
    <3>4. QED BY <3>2, <3>3 DEF LentMsg
  <2>2. /\ \A k, i \in rel' : k.loan = i.loan => k = i
        /\ \A k \in rel' : k.phase = "filled" => fm' = FreeFrame(k.loan)
    BY <1>1 DEF LInv, RelLent
  <2>3. \A k, i \in Publishing' : k = i
    BY <1>1 DEF LInv, RelLent, Publishing
  <2>4. QED BY <2>1, <2>2, <2>3 DEF RelLent, FreeFrame
<1>13. FfqLent'
  <2>1. LentFF(fm, "ff")'
    BY <1>1, <1>3, <1>9, <1>10 DEF LentFF, LentMsg, Lent
  <2>2. ASSUME NEW x \in Elems(ffq), x.frame \notin Overwritten(ffq)
        PROVE  LentFF(x, "ff")'
    <3>1. LentFF(x, "ff") /\ x.frame # h.frame
      BY <1>3, <1>5, <1>6
    <3>2. (\E b \in Blocks : Lent(x.frame, b, x.slot))' /\ stage'[x.frame] = "ff"
      BY <1>9, <1>10, <2>2, <3>1 DEF LentFF, Lent
    <3>3. QED BY <3>2 DEF LentFF
  <2>3. ASSUME NEW x \in Elems(ffq') PROVE LentFF(x, "ff")'
    <3>1. CASE x = fm
      BY <1>1, <2>1, <3>1 DEF LentFF, Lent
    <3>2. CASE x \in Elems(ffq) /\ x.frame \notin Overwritten(ffq)
      BY <2>2, <3>2
    <3>3. QED BY <1>7, <3>1, <3>2
  <2>4. QED BY <1>7, <2>3 DEF FfqLent, DistinctFrames, Elems
<1>14. Running' /\ FreshFrames'
  BY <1>1 DEF LInv, Running, FreshFrames, sinkVars
<1>15. OwnSlot'
  <2>1. rpc = "publish" => /\ rmsg.frame # h.frame /\ rmsg.frame \in Frames
                           /\ rmsg.frame \notin Overwritten(ffq)
    BY <1>3, <1>8 DEF LInv, OwnSlot, LentMsg, IInv, RenderOK, Msgs
  <2>2. QED BY <1>1, <1>9, <2>1 DEF LInv, OwnSlot, sinkVars, SlotOf
<1>16. QED BY <1>11, <1>12, <1>13, <1>14, <1>15 DEF LInv

---------------------------------------------------------------------------
(* The theorems *)

LEMMA InitLInv ==
  ASSUME Calm, Init
  PROVE  LInv
BY ParamAssumption DEF Init, LInv, Running, FreshFrames, OwnSlot, AmqLent, SmsgLent, UsingLent,
   RelLent, FfqLent, UnrefLent, DistinctFrames, Elems, Publishing

LEMMA NextLInv ==
  ASSUME Calm, IInv, SlotInv, LInv, [Next]_vars
  PROVE  LInv'
<1>1. CASE Streaming
  BY <1>1, RenderFillLInv, RenderFailsLInv, RenderPublishLInv, RenderHoldLInv DEF Streaming
<1>2. CASE FreeFrameThread
  BY <1>2, FreeFrameTakeLInv, CalmFacts DEF FreeFrameThread
<1>3. CASE SinkJob
  BY <1>3, FreeFrameUnrefLInv DEF SinkJob
<1>4. CASE SrcStreaming \/ AmExpire
  BY <1>4, SrcTakeLInv, SrcWrapLInv DEF SrcStreaming
<1>5. CASE Downstream
  BY <1>5, ReleaseLInv DEF Downstream
<1>6. CASE Publisher
  BY <1>6, PublishPhaseLInv, PublishWriteLInv DEF Publisher
<1>7. CASE Application
  BY <1>7, CalmFacts
<1>8. CASE UNCHANGED vars
  <2>1. UNCHANGED <<sinkVars, unrefs, amq, ffq, srcVars, stage>>
    BY <1>8 DEF vars, amVars, ffVars
  <2>2. \A f \in Frames, b \in Blocks, s \in Slots :
          Lent(f, b, s) /\ stage[f] \in Stages => Lent(f, b, s)' /\ stage'[f] = stage[f]
    BY <2>1 DEF Lent, sinkVars, SlotOf
  <2>3. /\ "am" \in Stages /\ "src" \in Stages /\ "using" \in Stages
        /\ "rel" \in Stages /\ "ff" \in Stages /\ "unref" \in Stages
    BY DEF Stages
  <2>4. /\ AmqLent' /\ SmsgLent' /\ UsingLent' /\ RelLent' /\ FfqLent' /\ UnrefLent'
    BY <2>1, <2>2, <2>3, PlacesKept DEF srcVars
  <2>5. Running' /\ FreshFrames' /\ OwnSlot'
    BY <2>1 DEF LInv, Running, FreshFrames, OwnSlot, sinkVars, srcVars, SlotOf
  <2>6. QED BY <2>4, <2>5 DEF LInv
<1>9. QED BY <1>1, <1>2, <1>3, <1>4, <1>5, <1>6, <1>7, <1>8 DEF Next

\* The inductive invariant of lending: every frame on its way through the two
\* topics, the source and the jobs is in a held block of its own, and nowhere else.
THEOREM LendInvariance == ASSUME Calm PROVE Spec => [](IInv /\ SlotInv /\ LInv)
<1>1. Init => LInv
  BY InitLInv
<1>2. IInv /\ SlotInv /\ LInv /\ [Next]_vars => LInv'
  BY NextLInv
<1>3. Spec => []SlotInv
  BY SlotInvariance DEF Calm
<1>4. QED BY <1>1, <1>2, <1>3, Invariance, PTL DEF Spec

\* Zero copy is safe for every pool, history and number of frames, with dds_write
\* and mapping failures and expired samples anywhere: what downstream of the
\* source reads, or will be given to read, is not overwritten.
THEOREM NeverTorn == ASSUME Calm PROVE Spec => []NoTornRead
<1>1. LInv => NoTornRead
  BY DEF LInv, NoTornRead, AmqLent, SmsgLent, UsingLent, Elems, LentMsg, Lent
<1>2. QED BY <1>1, LendInvariance, PTL

\* A block leaves held_buffers[] only when the FreeFrame of its frame has come back.
THEOREM HeldLongEnough == ASSUME Calm PROVE Spec => HeldUntilFreeFrame
<1>1. ASSUME IInv, SlotInv, LInv, [Next]_vars, NEW s \in Slots, held[s] # None, held'[s] # held[s]
      PROVE  stage[content[held[s]]] = "unref"
  <2>1. CASE RenderHold
    <3>1. /\ rpc = "hold" /\ held' = [held EXCEPT ![rmsg.slot] = rmsg.blk]
          /\ SlotOf(held[s]) = s /\ rmsg.slot = SlotOf(rmsg.blk)
          /\ rmsg.blk \notin HeldBlocks /\ rmsg.blk \in Blocks
          /\ held \in [Slots -> Blocks \cup {None}]
      BY <1>1, <2>1 DEF RenderHold, LInv, OwnSlot, IInv, RenderOK, TypeOK, SinkTypeOK, Msgs
    <3>2. s = rmsg.slot /\ held[s] \in Blocks
      BY <1>1, <3>1
    <3>3. held[s] = rmsg.blk
      BY <1>1, <3>1, <3>2, CalmFacts
    <3>4. QED BY <1>1, <3>1, <3>3 DEF HeldBlocks
  <2>2. ASSUME NEW m \in FFs, FreeFrameUnref(m)
        PROVE  stage[content[held[s]]] = "unref"
    <3>1. unrefs[m] > 0 /\ held' \in {held, [held EXCEPT ![m.slot] = None]}
      BY <2>2 DEF FreeFrameUnref
    <3>2. LentFF(m, "unref") /\ held[s] \in Blocks /\ SlotOf(held[s]) = s
      BY <1>1, <3>1 DEF LInv, UnrefLent, OwnSlot, IInv, TypeOK, SinkTypeOK
    <3>3. s = m.slot
      BY <1>1, <3>1 DEF IInv, TypeOK, SinkTypeOK
    <3>4. PICK b \in Blocks : Lent(m.frame, b, s)
      BY <3>2, <3>3 DEF LentFF
    <3>5. b = held[s]
      BY <1>1, <3>2, <3>4, CalmFacts DEF Lent
    <3>6. QED BY <3>2, <3>4, <3>5 DEF LentFF, Lent
  <2>3. CASE \/ \E b \in Blocks : RenderFill(b)
             \/ RenderFails \/ RenderPublish \/ RenderReturn
    BY <1>1, <2>3 DEF RenderFill, RenderFails, RenderPublish, RenderReturn
  <2>4. CASE \/ FreeFrameTake \/ SrcStreaming \/ Downstream \/ Publisher \/ AmExpire
             \/ UNCHANGED vars
    <3>1. UNCHANGED sinkVars
      BY <2>4 DEF FreeFrameTake, SrcStreaming, SrcTake, SrcWrap, SrcWrapFails, Downstream,
         Release, Publisher, PublishZero, PublishFill, PublishWrite, AmExpire, vars
    <3>2. QED BY <1>1, <3>1 DEF sinkVars
  <2>5. QED
    BY <1>1, <2>1, <2>2, <2>3, <2>4, CalmFacts DEF Next, Streaming, FreeFrameThread, SinkJob
<1>2. IInv /\ SlotInv /\ LInv /\ [Next]_vars =>
        [\A s \in Slots : held[s] # None /\ held'[s] # held[s]
           => stage[content[held[s]]] = "unref"]_vars
  BY <1>1
<1>3. QED BY <1>2, LendInvariance, PTL DEF Spec, HeldUntilFreeFrame

\* A FreeFrame job that releases a buffer releases the buffer of the frame it names.
THEOREM FreeFrameReleasesItsFrame == ASSUME Calm PROVE Spec => FreeFrameMatches
<1>1. ASSUME IInv, SlotInv, LInv, NEW m \in FFs, FreeFrameUnref(m), stage'[m.frame] = "done"
      PROVE  content[held[m.slot]] = m.frame
  <2>1. LentFF(m, "unref") /\ m.frame \in Frames /\ m.slot \in Slots
    BY <1>1 DEF LInv, UnrefLent, FreeFrameUnref, LentFF, Lent
  <2>2. held[m.slot] # None
    BY <1>1, <2>1 DEF FreeFrameUnref, Move
  <2>3. held[m.slot] \in Blocks /\ SlotOf(held[m.slot]) = m.slot
    BY <1>1, <2>1, <2>2 DEF LInv, OwnSlot, IInv, TypeOK, SinkTypeOK
  <2>4. PICK b \in Blocks : Lent(m.frame, b, m.slot)
    BY <2>1 DEF LentFF
  <2>5. b = held[m.slot]
    BY <1>1, <2>3, <2>4, CalmFacts DEF Lent
  <2>6. QED BY <2>4, <2>5 DEF Lent
<1>2. IInv /\ SlotInv /\ LInv /\ [Next]_vars =>
        [\A m \in FFs : FreeFrameUnref(m) /\ stage'[m.frame] = "done"
           => content[held[m.slot]] = m.frame]_vars
  BY <1>1
<1>3. QED BY <1>2, LendInvariance, PTL DEF Spec, FreeFrameMatches

---------------------------------------------------------------------------
(* The ledger *)


\* The converse of LInv: a place has every frame whose stage names it.
FramesOf(L) == {l.msg.frame : l \in L}
AmKnown    == AtStage("am") \subseteq FramesIn(amq)
SrcKnown   == AtStage("src") \subseteq (IF smsg = None THEN {} ELSE {smsg.frame})
UsingKnown == AtStage("using") \subseteq FramesOf(using)
RelKnown   == AtStage("rel") \subseteq FramesOf({j.loan : j \in rel})
FfKnown    == AtStage("ff") \subseteq FramesIn(ffq)
UnrefKnown == AtStage("unref") \subseteq {m.frame : m \in {n \in FFs : unrefs[n] > 0}}

Known == AmKnown /\ SrcKnown /\ UsingKnown /\ RelKnown /\ FfKnown /\ UnrefKnown

\* A place that is as it was still has every frame, when no frame has moved to it.
LEMMA KnownKept ==
  ASSUME Known, NEW T, \A f \in Frames : stage'[f] \in T => stage'[f] = stage[f]
  PROVE  /\ "am" \in T /\ UNCHANGED amq => AmKnown'
         /\ "src" \in T /\ UNCHANGED smsg => SrcKnown'
         /\ "using" \in T /\ UNCHANGED using => UsingKnown'
         /\ "rel" \in T /\ UNCHANGED rel => RelKnown'
         /\ "ff" \in T /\ UNCHANGED ffq => FfKnown'
         /\ "unref" \in T /\ UNCHANGED unrefs => UnrefKnown'
<1>1. \A st \in T : AtStage(st)' \subseteq AtStage(st)
  BY DEF AtStage
<1>2. "am" \in T /\ UNCHANGED amq => AmKnown'
  BY <1>1 DEF Known, AmKnown, FramesIn
<1>3. "src" \in T /\ UNCHANGED smsg => SrcKnown'
  BY <1>1 DEF Known, SrcKnown
<1>4. "using" \in T /\ UNCHANGED using => UsingKnown'
  BY <1>1 DEF Known, UsingKnown, FramesOf
<1>5. "rel" \in T /\ UNCHANGED rel => RelKnown'
  BY <1>1 DEF Known, RelKnown, FramesOf
<1>6. "ff" \in T /\ UNCHANGED ffq => FfKnown'
  BY <1>1 DEF Known, FfKnown, FramesIn
<1>7. "unref" \in T /\ UNCHANGED unrefs => UnrefKnown'
  BY <1>1 DEF Known, UnrefKnown
<1>8. QED BY <1>2, <1>3, <1>4, <1>5, <1>6, <1>7

\* The frames of a reader cache after a new sample, and after its oldest is taken.
LEMMA KeepLastFrames ==
  ASSUME NEW S, NEW q \in Seq(S), NEW m \in S, Len(q) <= Depth
  PROVE  /\ m.frame \in FramesIn(KeepLast(q, m))
         /\ FramesIn(q) \ Overwritten(q) \subseteq FramesIn(KeepLast(q, m))
<1> USE ParamAssumption
<1>1. CASE Room(q)
  <2>1. KeepLast(q, m) = Append(q, m) /\ Overwritten(q) = {}
    BY <1>1 DEF KeepLast, Overwritten
  <2>2. /\ Len(Append(q, m)) = Len(q) + 1 /\ Append(q, m)[Len(q) + 1] = m
        /\ \A i \in 1 .. Len(q) : Append(q, m)[i] = q[i]
    OBVIOUS
  <2>3. QED BY <2>1, <2>2 DEF FramesIn
<1>2. CASE ~Room(q)
  <2>1. /\ KeepLast(q, m) = Append(Tail(q), m)
        /\ Len(q) > 0 /\ Overwritten(q) = {q[1].frame}
    BY <1>2 DEF KeepLast, Overwritten, Room
  <2>2. Tail(q) \in Seq(S) /\ Len(Tail(q)) = Len(q) - 1
    BY <2>1
  <2>3. /\ Len(Append(Tail(q), m)) = Len(q) /\ Append(Tail(q), m)[Len(q)] = m
        /\ \A i \in 1 .. Len(q) - 1 : Append(Tail(q), m)[i] = q[i + 1]
    BY <2>1, <2>2
  <2>4. \A i \in 1 .. Len(q) : i = 1 \/ (i - 1 \in 1 .. Len(q) - 1 /\ (i - 1) + 1 = i)
    OBVIOUS
  <2>5. \A i \in 1 .. Len(q) : i = 1 \/ q[i].frame \in FramesIn(Append(Tail(q), m))
    <3>1. SUFFICES ASSUME NEW i \in 1 .. Len(q), i # 1
                   PROVE  q[i].frame \in FramesIn(Append(Tail(q), m))
      OBVIOUS
    <3>2. Append(Tail(q), m)[i - 1] = q[i]
      BY <2>3, <2>4, <3>1
    <3>3. i - 1 \in 1 .. Len(Append(Tail(q), m))
      BY <2>3, <3>1
    <3>4. QED BY <3>2, <3>3 DEF FramesIn
  <2>6. m.frame \in FramesIn(Append(Tail(q), m))
    BY <2>1, <2>3 DEF FramesIn
  <2>7. QED BY <2>1, <2>5, <2>6 DEF FramesIn
<1>3. QED BY <1>1, <1>2

LEMMA TailFrames ==
  ASSUME NEW S, NEW q \in Seq(S), q # <<>>
  PROVE  FramesIn(q) \ {Head(q).frame} \subseteq FramesIn(Tail(q))
<1>1. Len(q) > 0 /\ Head(q) = q[1]
  OBVIOUS
<1>2. Len(Tail(q)) = Len(q) - 1 /\ \A i \in 1 .. Len(q) - 1 : Tail(q)[i] = q[i + 1]
  BY <1>1
<1>3. SUFFICES ASSUME NEW i \in 1 .. Len(q), i # 1
               PROVE  q[i].frame \in FramesIn(Tail(q))
  BY <1>1 DEF FramesIn
<1>4. i - 1 \in 1 .. Len(q) - 1 /\ Tail(q)[i - 1] = q[i]
  BY <1>2, <1>3
<1>5. QED BY <1>2, <1>4 DEF FramesIn

LEMMA InitKnown == Init => Known
BY DEF Init, Known, AmKnown, SrcKnown, UsingKnown, RelKnown, FfKnown, UnrefKnown, AtStage

LEMMA NextKnown ==
  ASSUME Calm, IInv, SlotInv, LInv, Known, [Next]_vars
  PROVE  Known'
<1> USE ParamAssumption, NoneAssumption
<1> stage \in [Frames -> Stages]
  BY DEF IInv, TypeOK, HistoryTypeOK
<1>1. CASE \/ \E b \in Blocks : RenderFill(b)
           \/ RenderFails \/ RenderHold \/ RenderReturn
           \/ \E m \in FFs : FreeFrameUnref(m)
  <2>1. \A f \in Frames : stage'[f] \in {"am", "src", "using", "rel", "ff", "unref"}
                            => stage'[f] = stage[f]
    <3>1. \A b \in Blocks : RenderFill(b) => stage' = Move({frame_id_seq}, "sink")
      BY DEF RenderFill
    <3>2. RenderFails => stage' = Move({rmsg.frame}, "lost")
      BY DEF RenderFails
    <3>3. RenderHold \/ RenderReturn => stage' = stage
      BY DEF RenderHold, RenderReturn
    <3>4. \A m \in FFs : FreeFrameUnref(m) =>
            stage' = Move({m.frame}, "done") \/ stage' = Move({m.frame}, "early")
      BY DEF FreeFrameUnref
    <3>5. QED BY <1>1, <3>1, <3>2, <3>3, <3>4 DEF Move
  <2>2. UNCHANGED <<amq, smsg, using, rel, ffq>>
    BY <1>1 DEF RenderFill, RenderFails, RenderHold, RenderReturn, FreeFrameUnref, amVars,
       ffVars, srcVars
  <2>3. UnrefKnown'
    <3>1. CASE UNCHANGED unrefs
      BY <2>1, <3>1, KnownKept
    <3>2. ASSUME NEW m \in FFs, FreeFrameUnref(m)
          PROVE  UnrefKnown'
      <4>1. /\ unrefs' = [unrefs EXCEPT ![m] = @ - 1] /\ unrefs \in [FFs -> Nat]
            /\ unrefs[m] > 0
            /\ \E to \in {"done", "early"} : stage' = Move({m.frame}, to)
        BY <3>2 DEF FreeFrameUnref, IInv, TypeOK, SinkTypeOK
      <4>2. AtStage("unref")' \subseteq AtStage("unref") \ {m.frame}
        BY <4>1 DEF AtStage, Move
      <4>3. \A n \in FFs : n # m => unrefs'[n] = unrefs[n]
        BY <4>1
      <4>4. QED BY <4>2, <4>3 DEF Known, UnrefKnown
    <3>3. QED BY <1>1, <3>1, <3>2 DEF RenderFill, RenderFails, RenderHold, RenderReturn
  <2>4. QED BY <2>1, <2>2, <2>3, KnownKept DEF Known
<1>2. CASE RenderPublish
  <2>1. /\ rmsg \in Msgs /\ rmsg.frame \in Frames
        /\ amq' = KeepLast(amq, rmsg) /\ amq \in Seq(Msgs) /\ Len(amq) <= Depth
        /\ stage' = [Move(Overwritten(amq), "lost") EXCEPT ![rmsg.frame] = "am"]
        /\ UNCHANGED <<smsg, using, rel, ffq, unrefs>>
    BY <1>2 DEF RenderPublish, IInv, RenderOK, TypeOK, DdsTypeOK, LInv, Running, Msgs,
       ffVars, srcVars
  <2>2. \A f \in Frames : /\ f = rmsg.frame => stage'[f] = "am"
                          /\ f # rmsg.frame /\ f \in Overwritten(amq) => stage'[f] = "lost"
                          /\ f # rmsg.frame /\ f \notin Overwritten(amq) => stage'[f] = stage[f]
    BY <2>1 DEF Move
  <2>3. AmKnown'
    <3>1. /\ rmsg.frame \in FramesIn(amq')
          /\ FramesIn(amq) \ Overwritten(amq) \subseteq FramesIn(amq')
      BY <2>1, KeepLastFrames
    <3>2. \A f \in Frames : stage'[f] = "am" => f \in FramesIn(amq')
      BY <2>2, <3>1 DEF Known, AmKnown, AtStage
    <3>3. QED BY <3>2 DEF AmKnown, AtStage, FramesIn
  <2>4. \A f \in Frames : stage'[f] \in {"src", "using", "rel", "ff", "unref"}
                            => stage'[f] = stage[f]
    BY <2>2
  <2>5. QED BY <2>1, <2>3, <2>4, KnownKept DEF Known
<1>3. CASE FreeFrameTake
  <2>1. PICK h : h = Head(ffq)
    OBVIOUS
  <2>2. /\ ffq \in Seq(FFs) /\ ffq # <<>> /\ ffq' = Tail(ffq)
        /\ unrefs' = [unrefs EXCEPT ![h] = @ + 1] /\ unrefs \in [FFs -> Nat]
        /\ stage' = Move({h.frame}, "unref")
        /\ UNCHANGED <<amq, smsg, using, rel>>
    BY <1>3, <2>1 DEF FreeFrameTake, IInv, TypeOK, DdsTypeOK, SinkTypeOK, amVars, srcVars
  <2>3. h \in FFs
    BY <2>1, <2>2
  <2>4. \A f \in Frames : /\ f = h.frame => stage'[f] = "unref"
                          /\ f # h.frame => stage'[f] = stage[f]
    BY <2>2 DEF Move
  <2>5. FfKnown'
    <3>1. FramesIn(ffq) \ {h.frame} \subseteq FramesIn(ffq')
      BY <2>1, <2>2, TailFrames
    <3>2. \A f \in Frames : stage'[f] = "ff" => f \in FramesIn(ffq')
      BY <2>4, <3>1 DEF Known, FfKnown, AtStage
    <3>3. QED BY <3>2 DEF FfKnown, AtStage, FramesIn
  <2>6. UnrefKnown'
    <3>1. \A n \in FFs : unrefs[n] > 0 => unrefs'[n] > 0
      BY <2>2, <2>3
    <3>2. unrefs'[h] > 0
      BY <2>2, <2>3
    <3>3. \A f \in Frames : stage'[f] = "unref"
            => f \in {m.frame : m \in {n \in FFs : unrefs'[n] > 0}}
      BY <2>3, <2>4, <3>1, <3>2 DEF Known, UnrefKnown, AtStage
    <3>4. QED BY <3>3 DEF UnrefKnown, AtStage
  <2>7. \A f \in Frames : stage'[f] \in {"am", "src", "using", "rel"} => stage'[f] = stage[f]
    BY <2>4
  <2>8. QED BY <2>2, <2>5, <2>6, <2>7, KnownKept DEF Known
<1>4. CASE SrcTake \/ AmExpire
  <2>1. PICK h : h = Head(amq)
    OBVIOUS
  <2>2. /\ amq \in Seq(Msgs) /\ amq # <<>> /\ amq' = Tail(amq)
        /\ UNCHANGED <<using, rel, ffq, unrefs>>
        /\ \/ smsg = None /\ smsg' = h /\ stage' = Move({h.frame}, "src")
           \/ smsg' = smsg /\ stage' = Move({h.frame}, "lost")
    BY <1>4, <2>1 DEF SrcTake, AmExpire, IInv, TypeOK, DdsTypeOK, ffVars, srcVars
  <2>3. h \in Msgs /\ h # None
    BY <2>1, <2>2
  <2>4. \A f \in Frames : /\ f = h.frame => stage'[f] \in {"src", "lost"}
                          /\ f # h.frame => stage'[f] = stage[f]
    BY <2>2 DEF Move
  <2>5. AmKnown'
    <3>1. FramesIn(amq) \ {h.frame} \subseteq FramesIn(amq')
      BY <2>1, <2>2, TailFrames
    <3>2. \A f \in Frames : stage'[f] = "am" => f \in FramesIn(amq')
      BY <2>4, <3>1 DEF Known, AmKnown, AtStage
    <3>3. QED BY <3>2 DEF AmKnown, AtStage, FramesIn
  <2>6. SrcKnown'
    <3>1. CASE smsg = None /\ smsg' = h
      <4>1. \A f \in Frames : stage'[f] = "src" => f = h.frame
        BY <2>4, <3>1 DEF Known, SrcKnown, AtStage
      <4>2. QED BY <2>3, <3>1, <4>1 DEF SrcKnown, AtStage
    <3>2. CASE smsg' = smsg /\ stage' = Move({h.frame}, "lost")
      <4>1. \A f \in Frames : stage'[f] = "src" => stage[f] = "src"
        BY <3>2 DEF Move
      <4>2. QED BY <3>2, <4>1 DEF Known, SrcKnown, AtStage
    <3>3. QED BY <2>2, <3>1, <3>2
  <2>7. \A f \in Frames : stage'[f] \in {"using", "rel", "ff", "unref"}
                            => stage'[f] = stage[f]
    BY <2>4
  <2>8. QED BY <2>2, <2>5, <2>6, <2>7, KnownKept DEF Known
<1>5. CASE SrcWrap \/ SrcWrapFails
  <2>1. PICK n : n = [msg |-> smsg, gen |-> gen]
    OBVIOUS
  <2>2. /\ smsg # None /\ smsg' = None
        /\ UNCHANGED <<amq, rel, ffq, unrefs>>
        /\ \/ using' = using \cup {n} /\ stage' = Move({smsg.frame}, "using")
           \/ using' = using /\ stage' = Move({smsg.frame}, "lost")
    BY <1>5, <2>1 DEF SrcWrap, SrcWrapFails, amVars, ffVars
  <2>3. \A f \in Frames : /\ f = smsg.frame => stage'[f] \in {"using", "lost"}
                          /\ f # smsg.frame => stage'[f] = stage[f]
    BY <2>2 DEF Move
  <2>4. SrcKnown'
    <3>1. \A f \in Frames : stage'[f] # "src"
      BY <2>2, <2>3 DEF Known, SrcKnown, AtStage
    <3>2. QED BY <3>1 DEF SrcKnown, AtStage
  <2>5. UsingKnown'
    <3>1. n.msg.frame = smsg.frame
      BY <2>1
    <3>2. CASE using' = using \cup {n}
      <4>1. FramesOf(using)' = FramesOf(using) \cup {smsg.frame}
        BY <3>1, <3>2 DEF FramesOf
      <4>2. QED BY <2>3, <4>1 DEF Known, UsingKnown, AtStage
    <3>3. CASE using' = using /\ stage' = Move({smsg.frame}, "lost")
      <4>1. \A f \in Frames : stage'[f] = "using" => stage[f] = "using"
        BY <3>3 DEF Move
      <4>2. QED BY <3>3, <4>1 DEF Known, UsingKnown, AtStage, FramesOf
    <3>4. QED BY <2>2, <3>2, <3>3
  <2>6. \A f \in Frames : stage'[f] \in {"am", "rel", "ff", "unref"} => stage'[f] = stage[f]
    BY <2>3
  <2>7. QED BY <2>2, <2>4, <2>5, <2>6, KnownKept DEF Known
<1>6. ASSUME NEW l \in using, Release(l)
      PROVE  Known'
  <2>1. PICK n : n = [loan |-> l, phase |-> "queued"]
    OBVIOUS
  <2>2. /\ using' = using \ {l} /\ rel' = rel \cup {n} /\ n.loan = l
        /\ stage' = Move({l.msg.frame}, "rel")
        /\ UNCHANGED <<amq, ffq, smsg, unrefs>>
    BY <1>6, <2>1 DEF Release, amVars, ffVars
  <2>3. \A f \in Frames : /\ f = l.msg.frame => stage'[f] = "rel"
                          /\ f # l.msg.frame => stage'[f] = stage[f]
    BY <2>2 DEF Move
  <2>4. UsingKnown'
    <3>1. FramesOf(using) \ {l.msg.frame} \subseteq FramesOf(using)'
      BY <2>2 DEF FramesOf
    <3>2. QED BY <2>3, <3>1 DEF Known, UsingKnown, AtStage
  <2>5. RelKnown'
    <3>1. {j.loan : j \in rel'} = {j.loan : j \in rel} \cup {l}
      BY <2>2
    <3>2. FramesOf({j.loan : j \in rel'}) = FramesOf({j.loan : j \in rel}) \cup {l.msg.frame}
      BY <3>1 DEF FramesOf
    <3>3. \A f \in Frames : stage'[f] = "rel" => f \in FramesOf({j.loan : j \in rel'})
      BY <2>3, <3>2 DEF Known, RelKnown, AtStage
    <3>4. QED BY <3>3 DEF RelKnown, AtStage, FramesOf
  <2>6. \A f \in Frames : stage'[f] \in {"am", "src", "ff", "unref"} => stage'[f] = stage[f]
    BY <2>3
  <2>7. QED BY <2>2, <2>4, <2>5, <2>6, KnownKept DEF Known
<1>7. ASSUME NEW j \in rel, PublishZero(j) \/ PublishFill(j)
      PROVE  Known'
  <2>1. PICK p \in {"zeroed", "filled"} :
          /\ rel' = SetPhase(j, p)
          /\ UNCHANGED <<amq, ffq, smsg, using, unrefs, stage>>
    BY <1>7 DEF PublishZero, PublishFill, amVars, ffVars
  <2>2. j \in Jobs
    BY DEF IInv, TypeOK, SrcTypeOK
  <2>3. PICK n : n = [j EXCEPT !.phase = p]
    OBVIOUS
  <2>4. rel' = (rel \ {j}) \cup {n} /\ n.loan = j.loan
    BY <2>1, <2>2, <2>3 DEF SetPhase, Jobs
  <2>5. {k.loan : k \in rel'} = {k.loan : k \in rel}
    BY <2>4
  <2>6. RelKnown'
    BY <2>1, <2>5 DEF Known, RelKnown, AtStage, FramesOf
  <2>7. \A f \in Frames : stage'[f] \in Stages => stage'[f] = stage[f]
    BY <2>1
  <2>8. QED BY <2>1, <2>6, <2>7, KnownKept DEF Known, Stages
<1>8. ASSUME NEW j \in rel, PublishWrite(j)
      PROVE  Known'
  <2>1. /\ rel' = rel \ {j} /\ fm = FreeFrame(j.loan)
        /\ ffq' = KeepLast(ffq, fm) /\ ffq \in Seq(FFs) /\ Len(ffq) <= Depth
        /\ stage' = [Move(Overwritten(ffq), "unfreed") EXCEPT ![j.loan.msg.frame] = "ff"]
        /\ UNCHANGED <<amq, smsg, using, unrefs>>
    BY <1>8 DEF PublishWrite, IInv, TypeOK, DdsTypeOK, LInv, Running, RelLent, amVars
  <2>2. j.loan.msg \in Msgs
    BY DEF IInv, TypeOK, SrcTypeOK, Jobs, Loans
  <2>3. fm \in FFs /\ fm.frame = j.loan.msg.frame
    BY <2>1, <2>2 DEF FreeFrame, FFs, Msgs
  <2>4. \A f \in Frames : /\ f = fm.frame => stage'[f] = "ff"
                          /\ f # fm.frame /\ f \in Overwritten(ffq) => stage'[f] = "unfreed"
                          /\ f # fm.frame /\ f \notin Overwritten(ffq) => stage'[f] = stage[f]
    BY <2>1, <2>3 DEF Move
  <2>5. FfKnown'
    <3>1. /\ fm.frame \in FramesIn(ffq')
          /\ FramesIn(ffq) \ Overwritten(ffq) \subseteq FramesIn(ffq')
      BY <2>1, <2>3, KeepLastFrames
    <3>2. \A f \in Frames : stage'[f] = "ff" => f \in FramesIn(ffq')
      BY <2>4, <3>1 DEF Known, FfKnown, AtStage
    <3>3. QED BY <3>2 DEF FfKnown, AtStage, FramesIn
  <2>6. RelKnown'
    <3>1. \A f \in Frames : stage'[f] = "rel" => stage[f] = "rel" /\ f # fm.frame
      BY <2>4
    <3>2. \A k \in rel : k # j => k \in rel'
      BY <2>1
    <3>3. \A f \in Frames : stage'[f] = "rel" => \E k \in rel' : f = k.loan.msg.frame
      BY <2>3, <3>1, <3>2 DEF Known, RelKnown, AtStage, FramesOf
    <3>4. QED BY <3>3 DEF RelKnown, AtStage, FramesOf
  <2>7. \A f \in Frames : stage'[f] \in {"am", "src", "using", "unref"} => stage'[f] = stage[f]
    BY <2>4
  <2>8. QED BY <2>1, <2>5, <2>6, <2>7, KnownKept DEF Known
<1>9. CASE UNCHANGED vars
  BY <1>9 DEF vars, amVars, ffVars, srcVars, Known, AmKnown, SrcKnown, UsingKnown, RelKnown,
     FfKnown, UnrefKnown, AtStage, FramesIn, FramesOf
<1>10. QED
  BY <1>1, <1>2, <1>3, <1>4, <1>5, <1>6, <1>7, <1>8, <1>9, CalmFacts DEF Next, Streaming,
     FreeFrameThread, SinkJob, SrcStreaming, Downstream, Publisher

---------------------------------------------------------------------------
(* Once in the ledger *)

\* A set with one member at most, which has one exactly when the condition holds.
LEMMA CardAtMostOne ==
  ASSUME NEW S, NEW c \in BOOLEAN, \A x, y \in S : x = y, c <=> \E x \in S : TRUE
  PROVE  Cardinality(S) = IF c THEN 1 ELSE 0
<1>1. CASE c
  <2>1. PICK x \in S : TRUE
    BY <1>1
  <2>2. S = {x}
    BY <2>1
  <2>3. QED BY <1>1, <2>2, FS_Singleton
<1>2. CASE ~c
  BY <1>2, FS_EmptySet
<1>3. QED BY <1>1, <1>2

LEMMA CountOnce ==
  ASSUME Calm, IInv, SlotInv, LInv, Known, NEW f \in Frames
  PROVE  /\ Cardinality({i \in 1 .. Len(amq) : amq[i].frame = f})
              = IF stage[f] = "am" THEN 1 ELSE 0
         /\ (smsg # None /\ smsg.frame = f) <=> stage[f] = "src"
         /\ Cardinality({l \in using : l.msg.frame = f})
              = IF stage[f] = "using" THEN 1 ELSE 0
         /\ Cardinality({j \in rel : j.loan.msg.frame = f})
              = IF stage[f] = "rel" THEN 1 ELSE 0
         /\ Cardinality({i \in 1 .. Len(ffq) : ffq[i].frame = f})
              = IF stage[f] = "ff" THEN 1 ELSE 0
         /\ Cardinality({m \in FFs : m.frame = f /\ unrefs[m] = 1})
              = IF stage[f] = "unref" THEN 1 ELSE 0
<1> DEFINE A == {i \in 1 .. Len(amq) : amq[i].frame = f}
           U == {l \in using : l.msg.frame = f}
           R == {j \in rel : j.loan.msg.frame = f}
           F == {i \in 1 .. Len(ffq) : ffq[i].frame = f}
           N == {m \in FFs : m.frame = f /\ unrefs[m] = 1}
<1>1. Cardinality(A) = IF stage[f] = "am" THEN 1 ELSE 0
  <2>1. \A i, k \in A : i = k
    BY DEF LInv, AmqLent, DistinctFrames
  <2>2. stage[f] = "am" <=> \E i \in A : TRUE
    <3>1. \A i \in A : stage[f] = "am"
      BY DEF LInv, AmqLent, Elems, LentMsg
    <3>2. stage[f] = "am" => \E i \in 1 .. Len(amq) : amq[i].frame = f
      BY DEF Known, AmKnown, AtStage, FramesIn
    <3>3. QED BY <3>1, <3>2
  <2> HIDE DEF A
  <2>3. QED BY <2>1, <2>2, CardAtMostOne
<1>2. (smsg # None /\ smsg.frame = f) <=> stage[f] = "src"
  BY DEF Known, SrcKnown, AtStage, LInv, SmsgLent, LentMsg
<1>3. Cardinality(U) = IF stage[f] = "using" THEN 1 ELSE 0
  <2>1. \A k, l \in U : k = l
    <3>1. SUFFICES ASSUME NEW k \in U, NEW l \in U PROVE k = l
      OBVIOUS
    <3>2. /\ k \in using /\ l \in using /\ k.msg.frame = f /\ l.msg.frame = f
          /\ LentMsg(k.msg, "using") /\ LentMsg(l.msg, "using")
      BY DEF LInv, UsingLent
    <3>3. k.msg.blk = l.msg.blk /\ k.msg.slot = l.msg.slot
      BY <3>2, SameFrame DEF LentMsg, LInv
    <3>4. /\ k = [msg |-> k.msg, gen |-> 0] /\ l = [msg |-> l.msg, gen |-> 0]
          /\ k.msg \in Msgs /\ l.msg \in Msgs
      BY <3>2 DEF Calm, Loans, IInv, TypeOK, SrcTypeOK
    <3>5. /\ k.msg = [frame |-> k.msg.frame, blk |-> k.msg.blk, slot |-> k.msg.slot]
          /\ l.msg = [frame |-> l.msg.frame, blk |-> l.msg.blk, slot |-> l.msg.slot]
      BY <3>4 DEF Msgs
    <3>6. QED BY <3>2, <3>3, <3>4, <3>5
  <2>2. stage[f] = "using" <=> \E l \in U : TRUE
    BY DEF LInv, UsingLent, LentMsg, Known, UsingKnown, AtStage, FramesOf
  <2> HIDE DEF U
  <2>3. QED BY <2>1, <2>2, CardAtMostOne
<1>4. Cardinality(R) = IF stage[f] = "rel" THEN 1 ELSE 0
  <2>1. \A j, k \in R : j = k
    BY JobFrames
  <2>2. stage[f] = "rel" <=> \E j \in R : TRUE
    BY DEF LInv, RelLent, LentMsg, Known, RelKnown, AtStage, FramesOf
  <2> HIDE DEF R
  <2>3. QED BY <2>1, <2>2, CardAtMostOne
<1>5. Cardinality(F) = IF stage[f] = "ff" THEN 1 ELSE 0
  <2>1. \A i, k \in F : i = k
    BY DEF LInv, FfqLent, DistinctFrames
  <2>2. stage[f] = "ff" <=> \E i \in F : TRUE
    <3>1. \A i \in F : stage[f] = "ff"
      BY DEF LInv, FfqLent, Elems, LentFF
    <3>2. stage[f] = "ff" => \E i \in 1 .. Len(ffq) : ffq[i].frame = f
      BY DEF Known, FfKnown, AtStage, FramesIn
    <3>3. QED BY <3>1, <3>2
  <2> HIDE DEF F
  <2>3. QED BY <2>1, <2>2, CardAtMostOne
<1>6. Cardinality(N) = IF stage[f] = "unref" THEN 1 ELSE 0
  <2>1. \A m, n \in N : m = n
    <3>1. SUFFICES ASSUME NEW m \in N, NEW n \in N PROVE m = n
      OBVIOUS
    <3>2. m.frame = f /\ n.frame = f /\ LentFF(m, "unref") /\ LentFF(n, "unref")
      BY DEF LInv, UnrefLent
    <3>3. m.slot = n.slot
      BY <3>2, SameFrame DEF LentFF, LInv
    <3>4. m = [frame |-> m.frame, slot |-> m.slot] /\ n = [frame |-> n.frame, slot |-> n.slot]
      BY DEF FFs
    <3>5. QED BY <3>2, <3>3, <3>4
  <2>2. stage[f] = "unref" <=> \E m \in N : TRUE
    <3>1. \A m \in FFs : unrefs[m] > 0 <=> unrefs[m] = 1
      BY DEF LInv, UnrefLent, IInv, TypeOK, SinkTypeOK
    <3>2. QED BY <3>1 DEF LInv, UnrefLent, LentFF, Known, UnrefKnown, AtStage
  <2> HIDE DEF N
  <2>3. QED BY <2>1, <2>2, CardAtMostOne
<1>7. QED BY <1>1, <1>2, <1>3, <1>4, <1>5, <1>6

\* A lent frame is in the one place its stage names, once, and a frame that is not
\* lent is in none: no sample or FreeFrame is duplicated, made up or dropped
\* unnoticed by the history of any topic or by any of the two elements.
THEOREM LedgerKept == ASSUME Calm PROVE Spec => []LedgerOK
<1>1. ASSUME IInv, SlotInv, LInv, Known
      PROVE  LedgerOK
  <2>1. SUFFICES
          ASSUME NEW f \in Frames
          PROVE  /\ Cardinality({i \in 1 .. Len(amq) : amq[i].frame = f})
                      + (IF smsg # None /\ smsg.frame = f THEN 1 ELSE 0)
                      + Cardinality({l \in using : l.msg.frame = f})
                      + Cardinality({j \in rel : j.loan.msg.frame = f})
                      + Cardinality({i \in 1 .. Len(ffq) : ffq[i].frame = f})
                      + Cardinality({m \in FFs : m.frame = f /\ unrefs[m] = 1})
                    = (IF stage[f] \in {"am", "src", "using", "rel", "ff", "unref"}
                         THEN 1 ELSE 0)
                 /\ stage[f] = "am"    => f \in FramesIn(amq)
                 /\ stage[f] = "using" => \E l \in using : l.msg.frame = f
                 /\ stage[f] = "ff"    => f \in FramesIn(ffq)
                 /\ stage[f] = "unref" => \E m \in FFs : m.frame = f /\ unrefs[m] = 1
    BY DEF LedgerOK
  <2>2. /\ stage[f] = "am"    => f \in FramesIn(amq)
        /\ stage[f] = "using" => \E l \in using : l.msg.frame = f
        /\ stage[f] = "ff"    => f \in FramesIn(ffq)
    BY <1>1 DEF Known, AmKnown, UsingKnown, FfKnown, AtStage, FramesOf
  <2>3. stage[f] = "unref" => \E m \in FFs : m.frame = f /\ unrefs[m] = 1
    BY <1>1 DEF Known, UnrefKnown, AtStage, LInv, UnrefLent
  <2>4. QED BY <1>1, <2>2, <2>3, CountOnce
<1>2. QED
  BY <1>1, InitKnown, NextKnown, LendInvariance, PTL DEF Spec

---------------------------------------------------------------------------
(* A history as deep as the pool *)

\* Samples that are in different blocks, none of them in b, are fewer than the blocks.
LEMMA FewerThanBlocks ==
  ASSUME NEW n \in Nat, NEW b \in Blocks, NEW g \in [1 .. n -> Blocks \ {b}],
         \A i, j \in 1 .. n : g[i] = g[j] => i = j
  PROVE  n < NumBlocks
<1>1. /\ IsFiniteSet(Blocks) /\ Cardinality(Blocks) = NumBlocks
      /\ IsFiniteSet(1 .. n) /\ Cardinality(1 .. n) = n
  <2>1. 1 \in Int /\ n \in Int
    OBVIOUS
  <2>2. /\ IsFiniteSet(1 .. n)
        /\ Cardinality(1 .. n) = IF 1 > n THEN 0 ELSE n - 1 + 1
    BY ONLY <2>1, FS_Interval
  <2>3. QED BY <2>2, BlocksFinite
<1>2. IsFiniteSet(Blocks \ {b}) /\ Cardinality(Blocks \ {b}) = NumBlocks - 1
  BY <1>1, FS_RemoveElement
<1>3. ~(Cardinality(Blocks \ {b}) < Cardinality(1 .. n))
  BY <1>1, <1>2, FS_PigeonHole
<1>4. QED BY <1>1, <1>2, <1>3, ParamAssumption

LEMMA NextNotLost ==
  ASSUME Calm, MaxFaults = 0, NumBlocks <= Depth, IInv, SlotInv, LInv, NoSampleLost, [Next]_vars
  PROVE  NoSampleLost'
<1> USE ParamAssumption, NoneAssumption
<1> stage \in [Frames -> Stages]
  BY DEF IInv, TypeOK, HistoryTypeOK
<1>1. CASE RenderPublish
  <2>1. /\ rmsg.frame \in Frames /\ rmsg.blk \in Blocks
        /\ content[rmsg.blk] = rmsg.frame /\ stage[rmsg.frame] = "sink"
        /\ amq \in Seq(Msgs) /\ Len(amq) \in Nat
        /\ stage' = [Move(Overwritten(amq), "lost") EXCEPT ![rmsg.frame] = "am"]
    BY <1>1, CalmFacts DEF RenderPublish, IInv, RenderOK, TypeOK, DdsTypeOK, LInv, OwnSlot,
       Running, Msgs
  <2>2. \A i \in 1 .. Len(amq) : LentMsg(amq[i], "am")
    BY DEF LInv, AmqLent, Elems
  <2>3. PICK g : g = [i \in 1 .. Len(amq) |-> amq[i].blk]
    OBVIOUS
  <2>4. g \in [1 .. Len(amq) -> Blocks \ {rmsg.blk}]
    BY <2>1, <2>2, <2>3 DEF LentMsg, Lent
  <2>5. \A i, j \in 1 .. Len(amq) : g[i] = g[j] => i = j
    BY <2>2, <2>3 DEF LentMsg, Lent, LInv, AmqLent, DistinctFrames
  <2>6. Len(amq) < NumBlocks
    BY <2>1, <2>4, <2>5, FewerThanBlocks
  <2>7. Overwritten(amq) = {}
    BY <2>1, <2>6 DEF Overwritten, Room
  <2>8. QED BY <2>1, <2>7 DEF NoSampleLost, Move
<1>2. ASSUME NEW j \in rel, PublishWrite(j)
      PROVE  NoSampleLost'
  <2>1. /\ LentMsg(j.loan.msg, "rel")
        /\ ffq \in Seq(FFs) /\ Len(ffq) \in Nat
        /\ stage' = [Move(Overwritten(ffq), "unfreed") EXCEPT ![j.loan.msg.frame] = "ff"]
    BY <1>2 DEF PublishWrite, IInv, TypeOK, DdsTypeOK, LInv, RelLent, Running
  <2>2. \A i \in 1 .. Len(ffq) : LentFF(ffq[i], "ff")
    BY DEF LInv, FfqLent, Elems
  <2>3. PICK g : g = [i \in 1 .. Len(ffq) |->
                       CHOOSE b \in Blocks : Lent(ffq[i].frame, b, ffq[i].slot)]
    OBVIOUS
  <2>l. \A i \in 1 .. Len(ffq) :
          /\ g[i] \in Blocks /\ Lent(ffq[i].frame, g[i], ffq[i].slot)
          /\ stage[ffq[i].frame] = "ff"
    BY <2>2, <2>3 DEF LentFF
  <2>4. /\ j.loan.msg.blk \in Blocks
        /\ g \in [1 .. Len(ffq) -> Blocks \ {j.loan.msg.blk}]
    <3>1. j.loan.msg.blk \in Blocks /\ content[j.loan.msg.blk] = j.loan.msg.frame
      BY <2>1 DEF LentMsg, Lent
    <3>2. ASSUME NEW i \in 1 .. Len(ffq) PROVE g[i] # j.loan.msg.blk
      <4>1. content[g[i]] = ffq[i].frame /\ stage[ffq[i].frame] = "ff"
        BY <2>l DEF Lent
      <4>2. stage[j.loan.msg.frame] # "ff"
        BY <2>1 DEF LentMsg
      <4>3. QED BY <3>1, <4>1, <4>2
    <3>3. QED BY <2>3, <2>l, <3>1, <3>2
  <2>5. \A i, k \in 1 .. Len(ffq) : g[i] = g[k] => i = k
    BY <2>l DEF Lent, LInv, FfqLent, DistinctFrames
  <2>6. Len(ffq) < NumBlocks
    BY <2>1, <2>4, <2>5, FewerThanBlocks
  <2>7. Overwritten(ffq) = {}
    BY <2>1, <2>6 DEF Overwritten, Room
  <2>8. QED BY <2>1, <2>7 DEF NoSampleLost, Move
<1>3. ~RenderFails /\ ~SrcWrapFails /\ ~AmExpire
  BY DEF RenderFails, SrcWrapFails, AmExpire, IInv, TypeOK, HistoryTypeOK
<1>4. ASSUME NEW F, NEW to \in Stages \ {"lost", "unfreed"}, stage' = Move(F, to)
      PROVE  NoSampleLost'
  BY <1>4 DEF NoSampleLost, Move
<1>5. CASE \/ \E b \in Blocks : RenderFill(b)
           \/ \E m \in FFs : FreeFrameUnref(m)
           \/ FreeFrameTake \/ SrcTake \/ SrcWrap \/ \E l \in using : Release(l)
  <2>1. \A b \in Blocks : RenderFill(b) => stage' = Move({frame_id_seq}, "sink")
    BY DEF RenderFill
  <2>2. \A m \in FFs : FreeFrameUnref(m) =>
          stage' = Move({m.frame}, "done") \/ stage' = Move({m.frame}, "early")
    BY DEF FreeFrameUnref
  <2>3. /\ FreeFrameTake => stage' = Move({Head(ffq).frame}, "unref")
        /\ SrcTake => stage' = Move({Head(amq).frame}, "src")
        /\ SrcWrap => stage' = Move({smsg.frame}, "using")
        /\ \A l \in using : Release(l) => stage' = Move({l.msg.frame}, "rel")
    BY DEF FreeFrameTake, SrcTake, SrcWrap, Release
  <2>4. QED BY <1>4, <1>5, <2>1, <2>2, <2>3 DEF Stages
<1>6. CASE \/ RenderHold \/ RenderReturn \/ UNCHANGED vars
           \/ \E j \in rel : PublishZero(j) \/ PublishFill(j)
  BY <1>6 DEF RenderHold, RenderReturn, PublishZero, PublishFill, vars, NoSampleLost
<1>7. QED
  BY <1>1, <1>2, <1>3, <1>5, <1>6, CalmFacts DEF Next, Streaming, FreeFrameThread, SinkJob,
     SrcStreaming, Downstream, Publisher

\* KEEP_LAST never overwrites a sample nobody has taken when each topic keeps as many
\* samples as the pool has blocks, whatever the source and the jobs do with the
\* frames and in whatever order they come back.
THEOREM NothingOverwritten ==
  ASSUME Calm, MaxFaults = 0, NumBlocks <= Depth
  PROVE  Spec => []NoSampleLost
<1>1. Init => NoSampleLost
  BY DEF Init, NoSampleLost
<1>2. IInv /\ SlotInv /\ LInv /\ NoSampleLost /\ [Next]_vars => NoSampleLost'
  BY NextNotLost
<1>3. QED
  BY <1>1, <1>2, LendInvariance, PTL DEF Spec

---------------------------------------------------------------------------
(* The refinement of FrameLoan *)

\* What LInv does not say of a block on its way back: a referenced block has a
\* frame, and a buffer that left its slot before render() returned has been
\* given back.
BackInv ==
  /\ \A b \in Blocks : refs[b] # 0 => content[b] \in Frames
  /\ rpc = "return" /\ rmsg.blk \notin HeldBlocks => stage[rmsg.frame] = "done"

---------------------------------------------------------------------------
(* References *)

\* A block is referenced by the render() in progress and by the slot it was given.
LEMMA RefsOf ==
  ASSUME Calm, IInv, SlotInv, LInv, NEW b \in Blocks
  PROVE  /\ refs[b] = (IF InRender(b) THEN 1 ELSE 0) + (IF b \in HeldBlocks THEN 1 ELSE 0)
         /\ \A s \in Slots : s = SlotOf(b) /\ held[s] # None => held[s] = b
         /\ rpc \in {"publish", "hold"} /\ rmsg.blk = b => b \notin HeldBlocks
<1>1. \A s \in Slots : s = SlotOf(b) /\ held[s] # None => held[s] = b
  BY CalmFacts DEF LInv, OwnSlot, IInv, TypeOK, SinkTypeOK
<1>2. QED BY <1>1 DEF IInv, RefBalance, RenderOK

\* A frame on its way is in the one block that has it, which is referenced and
\* not being published.
LEMMA LentBlock ==
  ASSUME Calm, IInv, SlotInv, LInv, NEW f, NEW b, NEW s, Lent(f, b, s)
  PROVE  /\ b \in Blocks /\ f \in Frames /\ content[b] = f /\ refs[b] # 0
         /\ ~(rpc = "publish" /\ rmsg.blk = b)
         /\ \A c \in Blocks : content[c] = f => c = b
<1>1. b \in Blocks /\ f \in Frames /\ content[b] = f /\ f # None
  BY CalmFacts DEF Lent
<1>2. refs[b] # 0 /\ ~(rpc = "publish" /\ rmsg.blk = b)
  <2>1. CASE b \in HeldBlocks
    BY <1>1, <2>1, RefsOf
  <2>2. CASE rpc = "hold" /\ rmsg.blk = b
    BY <1>1, <2>2, RefsOf DEF InRender
  <2>3. held[s] = b => b \in HeldBlocks
    BY <1>1, CalmFacts DEF Lent, HeldBlocks
  <2>4. QED BY <2>1, <2>2, <2>3 DEF Lent
<1>3. QED BY <1>1, <1>2 DEF LInv, FreshFrames

---------------------------------------------------------------------------
(* Steps that pass nothing on: the two topics, create() and the publisher *)

\* A frame stays with the borrower, or away from it, and what is done is done.
Stays(f) == /\ stage[f] \in WithBorrower <=> stage'[f] \in WithBorrower
            /\ stage[f] = "done" => stage'[f] = "done"

LEMMA Quiet ==
  ASSUME IInv, BackInv, UNCHANGED <<rpc, rmsg, refs, content, held>>,
         \A f \in Frames : Stays(f)
  PROVE  UNCHANGED Loan!vars /\ BackInv'
<1>1. \A b \in Blocks : refs[b] # 0 => Stays(content[b])
  BY DEF BackInv
<1>2. ownerBar' = ownerBar
  BY <1>1 DEF ownerBar, Stays
<1>3. rpc = "return" => rmsg.frame \in Frames
  BY DEF IInv, RenderOK, Msgs
<1>4. BackInv'
  BY <1>3 DEF BackInv, Stays, HeldBlocks
<1>5. QED BY <1>2, <1>4 DEF Loan!vars

\* The stage of one frame moves within its side.
LEMMA MoveOne ==
  ASSUME IInv, BackInv, UNCHANGED <<rpc, rmsg, refs, content, held>>,
         NEW f \in Frames, NEW to, stage' = Move({f}, to), stage[f] # "done",
         stage[f] \in WithBorrower <=> to \in WithBorrower
  PROVE  UNCHANGED Loan!vars /\ BackInv'
<1>1. \A g \in Frames : Stays(g)
  BY DEF Move, Stays
<1>2. QED BY <1>1, Quiet

LEMMA FreeFrameTakeQuiet ==
  ASSUME Calm, IInv, SlotInv, LInv, BackInv, FreeFrameTake
  PROVE  UNCHANGED Loan!vars /\ BackInv'
<1>h. PICK h : h = Head(ffq)
  OBVIOUS
<1>1. ffq \in Seq(FFs) /\ ffq # <<>> /\ DistinctFrames(ffq)
  BY DEF FreeFrameTake, IInv, TypeOK, DdsTypeOK, LInv, FfqLent
<1>2. LentFF(h, "ff")
  BY <1>h, <1>1, TailElems DEF LInv, FfqLent
<1>3. QED BY <1>h, <1>2, MoveOne DEF FreeFrameTake, sinkVars, LentFF, Lent, WithBorrower

LEMMA SrcTakeQuiet ==
  ASSUME Calm, IInv, SlotInv, LInv, BackInv, SrcTake \/ AmExpire
  PROVE  UNCHANGED Loan!vars /\ BackInv'
<1>h. PICK h : h = Head(amq)
  OBVIOUS
<1>1. amq \in Seq(Msgs) /\ amq # <<>> /\ DistinctFrames(amq)
  BY DEF SrcTake, AmExpire, IInv, TypeOK, DdsTypeOK, LInv, AmqLent
<1>2. LentMsg(h, "am")
  BY <1>h, <1>1, TailElems DEF LInv, AmqLent
<1>3. QED
  BY <1>h, <1>2, MoveOne DEF SrcTake, AmExpire, sinkVars, LentMsg, Lent, WithBorrower

LEMMA SrcWrapQuiet ==
  ASSUME Calm, IInv, SlotInv, LInv, BackInv, SrcWrap \/ SrcWrapFails
  PROVE  UNCHANGED Loan!vars /\ BackInv'
<1>h. PICK h : h = smsg
  OBVIOUS
<1>1. LentMsg(h, "src")
  BY <1>h DEF SrcWrap, SrcWrapFails, LInv, SmsgLent
<1>2. QED
  BY <1>h, <1>1, MoveOne DEF SrcWrap, SrcWrapFails, sinkVars, LentMsg, Lent, WithBorrower

\* The publisher's frame goes to the topic, an older FreeFrame may be overwritten.
LEMMA PublisherQuiet ==
  ASSUME Calm, IInv, SlotInv, LInv, BackInv, Publisher
  PROVE  UNCHANGED Loan!vars /\ BackInv'
<1>1. CASE \E j \in rel : PublishZero(j) \/ PublishFill(j)
  <2>1. UNCHANGED sinkVars /\ UNCHANGED stage
    BY <1>1 DEF PublishZero, PublishFill
  <2>2. QED BY <2>1, Quiet DEF sinkVars, Stays
<1>2. CASE \E j \in rel : PublishWrite(j)
  <2>1. PICK j \in rel : PublishWrite(j)
    BY <1>2
  <2>2. LentMsg(j.loan.msg, "rel")
    BY DEF LInv, RelLent
  <2>3. /\ stage' = [Move(Overwritten(ffq), "unfreed") EXCEPT ![j.loan.msg.frame] = "ff"]
        /\ UNCHANGED sinkVars
    BY <2>1 DEF PublishWrite, LInv, Running
  <2>4. \A f \in Overwritten(ffq) : stage[f] = "ff"
    <3>1. ffq \in Seq(FFs) /\ Len(ffq) <= Depth /\ DistinctFrames(ffq)
      BY DEF IInv, TypeOK, DdsTypeOK, LInv, FfqLent
    <3>2. ~Room(ffq) => ffq # <<>>
      BY <3>1, ParamAssumption DEF Room
    <3>3. ffq # <<>> => Head(ffq) \in Elems(ffq)
      BY <3>1, TailElems
    <3>4. QED BY <3>2, <3>3 DEF Overwritten, LInv, FfqLent, LentFF
  <2>5. \A f \in Frames : Stays(f)
    BY <2>2, <2>3, <2>4 DEF Stays, Move, LentMsg, WithBorrower
  <2>6. QED BY <2>3, <2>5, Quiet DEF sinkVars
<1>3. QED BY <1>1, <1>2 DEF Publisher

---------------------------------------------------------------------------
(* Steps that pass a block on *)

\* Downstream has stopped reading.
LEMMA ReleaseGivesBack ==
  ASSUME Calm, IInv, SlotInv, LInv, BackInv, NEW l \in using, Release(l)
  PROVE  Loan!GiveBack(l.msg.blk) /\ l.msg.blk \in Blocks /\ BackInv'
<1>b. PICK b : b = l.msg.blk
  OBVIOUS
<1>f. PICK f : f = l.msg.frame
  OBVIOUS
<1>1. Lent(f, b, l.msg.slot) /\ stage[f] = "using"
  BY <1>b, <1>f DEF LInv, UsingLent, LentMsg
<1>2. UNCHANGED <<rpc, rmsg, refs, content, held>> /\ stage' = Move({f}, "rel")
  BY <1>f DEF Release, sinkVars
<1>3. /\ b \in Blocks /\ f \in Frames /\ content[b] = f /\ refs[b] # 0
      /\ ~(rpc = "publish" /\ rmsg.blk = b)
      /\ \A c \in Blocks : content[c] = f => c = b
  BY <1>1, LentBlock
<1>4. \A g \in Frames : stage'[g] = IF g = f THEN "rel" ELSE stage[g]
  BY <1>2 DEF Move
<1>5. ownerBar[b] = "borrower"
  BY <1>1, <1>3 DEF ownerBar, WithBorrower
<1>6. \A c \in Blocks : ownerBar'[c] = IF c = b THEN "back" ELSE ownerBar[c]
  BY <1>2, <1>3, <1>4 DEF ownerBar, WithBorrower, BackInv
<1>7. ownerBar' = [ownerBar EXCEPT ![b] = "back"]
  BY <1>6 DEF ownerBar
<1>8. BackInv'
  <2>1. rpc = "return" => rmsg.frame \in Frames
    BY DEF IInv, RenderOK, Msgs
  <2>2. QED BY <1>1, <1>2, <1>4, <2>1 DEF BackInv, HeldBlocks
<1>9. QED BY <1>b, <1>2, <1>3, <1>5, <1>7, <1>8 DEF Loan!GiveBack, Loan!Pass

\* The FreeFrame job frees the block, unless render() still has its reference to
\* the buffer or has not put it into its slot yet.
LEMMA UnrefReclaims ==
  ASSUME Calm, IInv, SlotInv, LInv, BackInv, NEW m \in FFs, FreeFrameUnref(m)
  PROVE  /\ UNCHANGED Loan!vars \/ \E b \in Blocks : Loan!Reclaim(b)
         /\ BackInv'
<1>f. PICK f : f = m.frame
  OBVIOUS
<1>u. LentFF(m, "unref")
  BY DEF FreeFrameUnref, LInv, UnrefLent
<1>b. PICK b \in Blocks : Lent(f, b, m.slot)
  BY <1>f, <1>u DEF LentFF
<1>1. Lent(f, b, m.slot) /\ stage[f] = "unref"
  BY <1>b, <1>f, <1>u DEF LentFF
<1>2. /\ b \in Blocks /\ f \in Frames /\ content[b] = f /\ refs[b] # 0
      /\ ~(rpc = "publish" /\ rmsg.blk = b)
      /\ \A c \in Blocks : content[c] = f => c = b
  BY <1>1, LentBlock
<1>3. CASE held[m.slot] = None
  <2>1. UNCHANGED <<rpc, rmsg, refs, content, held>> /\ stage' = Move({f}, "early")
    BY <1>f, <1>3 DEF FreeFrameUnref
  <2>2. QED BY <1>1, <1>2, <2>1, MoveOne DEF WithBorrower
<1>4. CASE held[m.slot] # None
  <2>1. /\ m.slot \in Slots /\ m.slot < PoolMax /\ held[m.slot] = b /\ b # None
        /\ b \in HeldBlocks /\ refs[b] = (IF InRender(b) THEN 2 ELSE 1)
    <3>1. m.slot \in Slots /\ held[m.slot] = b
      BY <1>1, <1>4, RefsOf DEF Lent
    <3>2. b \in HeldBlocks
      BY <3>1, CalmFacts DEF HeldBlocks
    <3>3. QED BY <3>1, <3>2, RefsOf, CalmFacts
  <2>2. /\ held' = [held EXCEPT ![m.slot] = None] /\ refs' = Unref({b})
        /\ stage' = Move({f}, "done") /\ UNCHANGED <<rpc, rmsg, content>>
    BY <1>f, <2>1 DEF FreeFrameUnref
  <2>3. /\ \A g \in Frames : stage'[g] = IF g = f THEN "done" ELSE stage[g]
        /\ \A c \in Blocks : refs'[c] = IF c = b THEN refs[b] - 1 ELSE refs[c]
    BY <2>2 DEF Move, Unref
  <2>h. HeldBlocks \ {b} \subseteq HeldBlocks'
    BY <2>1, <2>2 DEF HeldBlocks, IInv, TypeOK, SinkTypeOK
  <2>4. BackInv'
    <3>1. \A c \in Blocks : refs'[c] # 0 => content'[c] \in Frames
      BY <1>2, <2>2, <2>3 DEF BackInv
    <3>2. ASSUME rpc = "return", rmsg.blk \notin HeldBlocks'
          PROVE  stage'[rmsg.frame] = "done"
      <4>1. rmsg.frame \in Frames /\ rmsg.blk \in Blocks /\ content[rmsg.blk] = rmsg.frame
        BY <3>2 DEF IInv, RenderOK, Msgs, LInv, OwnSlot
      <4>2. CASE rmsg.blk = b
        BY <1>2, <2>3, <4>1, <4>2
      <4>3. CASE rmsg.blk # b
        <5>1. rmsg.blk \notin HeldBlocks
          BY <2>h, <3>2, <4>3
        <5>2. QED BY <2>3, <3>2, <4>1, <5>1 DEF BackInv
      <4>4. QED BY <4>2, <4>3
    <3>3. QED BY <2>2, <3>1, <3>2 DEF BackInv
  <2>5. ownerBar[b] = "back"
    BY <1>1, <1>2 DEF ownerBar, WithBorrower
  <2>6. \A c \in Blocks : c # b => ownerBar'[c] = ownerBar[c]
    BY <1>2, <2>2, <2>3 DEF ownerBar, BackInv
  <2>7. CASE InRender(b)
    <3>1. ownerBar'[b] = "back"
      <4>1. refs'[b] = 1 /\ stage'[content'[b]] = "done"
        <5>1. refs[b] = 2 /\ refs'[b] = refs[b] - 1
          BY <1>2, <2>1, <2>3, <2>7
        <5>2. content'[b] = f /\ stage'[f] = "done"
          BY <1>2, <2>2, <2>3
        <5>3. QED BY <5>1, <5>2
      <4>2. QED BY <1>2, <2>2, <4>1 DEF ownerBar, WithBorrower
    <3>2. ownerBar' = ownerBar
      BY <2>5, <2>6, <3>1 DEF ownerBar
    <3>3. QED BY <2>2, <2>4, <3>2 DEF Loan!vars
  <2>8. CASE ~InRender(b)
    <3>1. refs'[b] = 0 /\ ownerBar'[b] = "free"
      BY <1>2, <2>1, <2>3, <2>8 DEF ownerBar
    <3>2. ownerBar' = [ownerBar EXCEPT ![b] = "free"]
      BY <2>6, <3>1 DEF ownerBar
    <3>3. QED BY <1>2, <2>2, <2>4, <2>5, <3>2 DEF Loan!Reclaim, Loan!Pass
  <2>9. QED BY <2>7, <2>8
<1>5. QED BY <1>3, <1>4

---------------------------------------------------------------------------
(* render() *)

\* Upstream writes into a block nobody has, and the frame is in no other block.
LEMMA FillWrites ==
  ASSUME Calm, IInv, SlotInv, LInv, BackInv, NEW b \in Blocks, RenderFill(b)
  PROVE  Loan!Write(b) /\ BackInv'
<1>1. /\ frame_id_seq \in Frames /\ rpc = "idle" /\ rpc' = "publish" /\ rmsg'.blk = b
      /\ refs[b] = 0 /\ refs' = [refs EXCEPT ![b] = 1]
      /\ content' = [content EXCEPT ![b] = frame_id_seq]
      /\ stage' = Move({frame_id_seq}, "sink")
  BY ParamAssumption DEF RenderFill, Frames, IInv, TypeOK, SinkTypeOK
<1>2. \A c \in Blocks : content[c] # frame_id_seq
  BY <1>1, CalmFacts DEF IInv, TypeOK, SinkTypeOK, LInv, FreshFrames
<1>3. /\ \A g \in Frames : g # frame_id_seq => stage'[g] = stage[g]
      /\ \A c \in Blocks : /\ refs'[c] = IF c = b THEN 1 ELSE refs[c]
                           /\ content'[c] = IF c = b THEN frame_id_seq ELSE content[c]
  BY <1>1 DEF Move, IInv, TypeOK, SinkTypeOK
<1>4. ownerBar[b] = "free"
  BY <1>1 DEF ownerBar
<1>5. \A c \in Blocks : ownerBar'[c] = IF c = b THEN "producer" ELSE ownerBar[c]
  BY <1>1, <1>2, <1>3 DEF ownerBar, BackInv
<1>6. ownerBar' = [ownerBar EXCEPT ![b] = "producer"]
  BY <1>5 DEF ownerBar
<1>7. BackInv'
  BY <1>1, <1>3 DEF BackInv
<1>8. QED BY <1>1, <1>2, <1>4, <1>6, <1>7 DEF Loan!Write, Loan!Pass

\* A sample that could not be published leaves its block free.
LEMMA FailsCancels ==
  ASSUME Calm, IInv, SlotInv, LInv, BackInv, RenderFails
  PROVE  \E b \in Blocks : Loan!Cancel(b) /\ BackInv'
<1>b. PICK b : b = rmsg.blk
  OBVIOUS
<1>1. /\ rpc = "publish" /\ rpc' = "error" /\ refs' = Unref({b})
      /\ stage' = Move({rmsg.frame}, "lost") /\ UNCHANGED <<rmsg, held, content>>
  BY <1>b DEF RenderFails
<1>2. b \in Blocks /\ rmsg.frame \in Frames /\ content[b] = rmsg.frame
  BY <1>b, <1>1 DEF IInv, RenderOK, Msgs, LInv, OwnSlot
<1>3. refs[b] = 1
  BY <1>b, <1>1, <1>2, RefsOf DEF InRender
<1>4. \A c \in Blocks : content[c] = rmsg.frame => c = b
  BY <1>2, CalmFacts DEF LInv, FreshFrames
<1>5. /\ \A g \in Frames : g # rmsg.frame => stage'[g] = stage[g]
      /\ \A c \in Blocks : refs'[c] = IF c = b THEN 0 ELSE refs[c]
  BY <1>1, <1>3 DEF Move, Unref
<1>6. ownerBar[b] = "producer"
  BY <1>b, <1>1, <1>2, <1>3 DEF ownerBar
<1>7. \A c \in Blocks : ownerBar'[c] = IF c = b THEN "free" ELSE ownerBar[c]
  BY <1>b, <1>1, <1>4, <1>5 DEF ownerBar, BackInv
<1>8. ownerBar' = [ownerBar EXCEPT ![b] = "free"]
  BY <1>7 DEF ownerBar
<1>9. BackInv'
  BY <1>1, <1>5 DEF BackInv
<1>10. QED BY <1>1, <1>2, <1>6, <1>8, <1>9 DEF Loan!Cancel, Loan!Pass

\* dds_write hands the frame over; the sample it overwrites stays where it was.
LEMMA PublishLends ==
  ASSUME Calm, IInv, SlotInv, LInv, BackInv, RenderPublish
  PROVE  \E b \in Blocks : Loan!Lend(b) /\ BackInv'
<1>b. PICK b : b = rmsg.blk
  OBVIOUS
<1>1. /\ rpc = "publish" /\ b \in Blocks /\ rmsg.frame \in Frames
      /\ rmsg.slot \in Slots /\ content[b] = rmsg.frame /\ stage[rmsg.frame] = "sink"
  BY <1>b, CalmFacts DEF RenderPublish, IInv, RenderOK, Msgs, Indexes, LInv, OwnSlot
<1>2. /\ rpc' = "hold" /\ UNCHANGED <<rmsg, refs, held, content>>
      /\ stage' = [Move(Overwritten(amq), "lost") EXCEPT ![rmsg.frame] = "am"]
  BY <1>1, CalmFacts DEF RenderPublish, LInv, Running
<1>3. \A f \in Overwritten(amq) : stage[f] = "am"
  <2>1. amq \in Seq(Msgs) /\ Len(amq) <= Depth /\ DistinctFrames(amq)
    BY DEF IInv, TypeOK, DdsTypeOK, LInv, AmqLent
  <2>2. ~Room(amq) => amq # <<>>
    BY <2>1, ParamAssumption DEF Room
  <2>3. amq # <<>> => Head(amq) \in Elems(amq)
    BY <2>1, TailElems
  <2>4. QED BY <2>2, <2>3 DEF Overwritten, LInv, AmqLent, LentMsg
<1>4. refs[b] = 1
  BY <1>b, <1>1, RefsOf DEF InRender
<1>5. \A c \in Blocks : content[c] = rmsg.frame => c = b
  BY <1>1, CalmFacts DEF LInv, FreshFrames
<1>6. \A g \in Frames : /\ g = rmsg.frame => stage'[g] = "am"
                        /\ g # rmsg.frame => Stays(g)
  BY <1>1, <1>2, <1>3 DEF Move, Stays, WithBorrower
<1>7. ownerBar[b] = "producer"
  BY <1>b, <1>1, <1>4 DEF ownerBar
<1>8. \A c \in Blocks : ownerBar'[c] = IF c = b THEN "borrower" ELSE ownerBar[c]
  BY <1>b, <1>1, <1>2, <1>4, <1>5, <1>6 DEF ownerBar, BackInv, Stays, WithBorrower
<1>9. ownerBar' = [ownerBar EXCEPT ![b] = "borrower"]
  BY ZenonT(40), <1>8 DEF ownerBar
<1>10. BackInv'
  BY <1>2 DEF BackInv
<1>11. QED BY <1>1, <1>2, <1>7, <1>9, <1>10 DEF Loan!Lend, Loan!Pass

\* Holding the buffer changes nobody's possession.
LEMMA HoldKeeps ==
  ASSUME Calm, IInv, SlotInv, LInv, BackInv, RenderHold
  PROVE  UNCHANGED Loan!vars /\ BackInv'
<1>b. PICK b : b = rmsg.blk
  OBVIOUS
<1>1. /\ rpc = "hold" /\ b \in Blocks /\ b # None
      /\ rmsg.slot \in Slots /\ rmsg.slot = SlotOf(b) /\ content[b] \in Frames
  BY <1>b, CalmFacts DEF RenderHold, IInv, RenderOK, Msgs, LInv, OwnSlot
<1>2. b \notin HeldBlocks /\ held[rmsg.slot] = None /\ refs[b] = 1 /\ None \notin Blocks
  <2>1. b \notin HeldBlocks /\ refs[b] = 1 /\ None \notin Blocks
    BY <1>b, <1>1, RefsOf, CalmFacts DEF InRender
  <2>2. held[rmsg.slot] # None => held[rmsg.slot] = b
    BY <1>1, RefsOf
  <2>3. QED BY <1>1, <2>1, <2>2 DEF HeldBlocks
<1>3. /\ held' = [held EXCEPT ![rmsg.slot] = b] /\ rpc' = "return"
      /\ refs' = [Unref({None}) EXCEPT ![b] = @ + 1]
      /\ UNCHANGED <<rmsg, content, stage>>
  BY <1>b, <1>1, <1>2 DEF RenderHold
<1>4. \A c \in Blocks : refs'[c] = IF c = b THEN 2 ELSE refs[c]
  BY <1>2, <1>3 DEF Unref
<1>5. ownerBar' = ownerBar
  BY <1>1, <1>2, <1>3, <1>4 DEF ownerBar
<1>6. BackInv'
  <2>1. held'[rmsg.slot] = b
    BY <1>1, <1>3 DEF IInv, TypeOK, SinkTypeOK
  <2>2. b \in HeldBlocks'
    BY <1>1, <2>1 DEF HeldBlocks
  <2>3. QED BY <1>b, <1>1, <1>3, <1>4, <2>2 DEF BackInv
<1>7. QED BY <1>3, <1>5, <1>6 DEF Loan!vars

\* render() returns: the block is free at once if its FreeFrame was quicker.
LEMMA ReturnReclaims ==
  ASSUME Calm, IInv, SlotInv, LInv, BackInv, RenderReturn
  PROVE  /\ UNCHANGED Loan!vars \/ \E b \in Blocks : Loan!Reclaim(b)
         /\ BackInv'
<1>b. PICK b : b = rmsg.blk
  OBVIOUS
<1>1. /\ rpc = "return" /\ rpc' = "idle" /\ refs' = Unref({b})
      /\ UNCHANGED <<rmsg, held, content, stage>>
  BY <1>b DEF RenderReturn
<1>2. b \in Blocks /\ content[b] = rmsg.frame
  BY <1>b, <1>1 DEF IInv, RenderOK, Msgs, LInv, OwnSlot
<1>3. refs[b] = IF b \in HeldBlocks THEN 2 ELSE 1
  BY <1>b, <1>1, <1>2, RefsOf DEF InRender
<1>4. \A c \in Blocks : refs'[c] = IF c = b THEN refs[b] - 1 ELSE refs[c]
  BY <1>1 DEF Unref
<1>5. BackInv'
  BY <1>1, <1>2, <1>3, <1>4 DEF BackInv
<1>6. CASE b \in HeldBlocks
  <2>1. ownerBar' = ownerBar
    BY <1>1, <1>3, <1>4, <1>6 DEF ownerBar
  <2>2. QED BY <1>1, <1>5, <2>1 DEF Loan!vars
<1>7. CASE b \notin HeldBlocks
  <2>1. stage[content[b]] = "done"
    BY <1>b, <1>1, <1>2, <1>7 DEF BackInv
  <2>2. ownerBar[b] = "back"
    BY <1>1, <1>2, <1>3, <1>7, <2>1 DEF ownerBar, WithBorrower
  <2>3. \A c \in Blocks : ownerBar'[c] = IF c = b THEN "free" ELSE ownerBar[c]
    BY <1>1, <1>3, <1>4, <1>7 DEF ownerBar
  <2>4. ownerBar' = [ownerBar EXCEPT ![b] = "free"]
    BY <2>3 DEF ownerBar
  <2>5. QED BY <1>1, <1>2, <1>5, <2>2, <2>4 DEF Loan!Reclaim, Loan!Pass
<1>8. QED BY <1>3, <1>6, <1>7

---------------------------------------------------------------------------
(* The theorem *)

LEMMA LoanInit ==
  ASSUME Init
  PROVE  Loan!Init /\ BackInv
BY DEF Init, Loan!Init, ownerBar, BackInv

LEMMA LoanStep ==
  ASSUME Calm, IInv, SlotInv, LInv, BackInv, [Next]_vars
  PROVE  [Loan!Next]_(Loan!vars) /\ BackInv'
<1>1. CASE Streaming
  BY <1>1, FillWrites, FailsCancels, PublishLends, HoldKeeps, ReturnReclaims
  DEF Streaming, Loan!Next
<1>2. CASE FreeFrameThread
  BY <1>2, FreeFrameTakeQuiet, CalmFacts DEF FreeFrameThread
<1>3. CASE SinkJob
  BY <1>3, UnrefReclaims DEF SinkJob, Loan!Next
<1>4. CASE SrcStreaming \/ AmExpire
  BY <1>4, SrcTakeQuiet, SrcWrapQuiet DEF SrcStreaming
<1>5. CASE Downstream
  BY <1>5, ReleaseGivesBack DEF Downstream, Loan!Next
<1>6. CASE Publisher
  BY <1>6, PublisherQuiet
<1>7. CASE Application
  BY <1>7, CalmFacts
<1>8. CASE UNCHANGED vars
  <2>1. UNCHANGED sinkVars /\ UNCHANGED stage
    BY <1>8 DEF vars
  <2>2. QED BY <2>1, Quiet DEF sinkVars, Stays
<1>9. QED BY <1>1, <1>2, <1>3, <1>4, <1>5, <1>6, <1>7, <1>8 DEF Next

\* Lending as a whole: under Calm, what sink, source and the two topics do is
\* what FrameLoan allows.  A block is written only while nobody has it, is handed
\* over once, and is free again only after downstream of the source has dropped it.
THEOREM LendingImplementsLoan == ASSUME Calm PROVE Spec => ImplementsFrameLoan
<1>1. Init => Loan!Init /\ BackInv
  BY LoanInit
<1>2. IInv /\ SlotInv /\ LInv /\ BackInv /\ [Next]_vars => [Loan!Next]_(Loan!vars) /\ BackInv'
  BY LoanStep
<1>3. QED
  BY <1>1, <1>2, LendInvariance, PTL DEF Spec, ImplementsFrameLoan, Loan!Spec
=============================================================================
