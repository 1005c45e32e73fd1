------------------------------ MODULE AmShMem ------------------------------
(***************************************************************************)
(* Zero-copy video transport between two processes: amshmem_sink lends     *)
(* the blocks of a Cavalry pool to amshmem_src by publishing AmShMem_Msg   *)
(* samples over CycloneDDS and takes them back when a FreeFrame_Msg        *)
(* arrives.                                                                *)
(*                                                                         *)
(* Actors: the upstream element with the sink's streaming thread, the      *)
(* sink's FreeFrame thread, the thread pool that runs the sink's           *)
(* gst_element_call_async jobs, the source's streaming thread, the         *)
(* downstream threads that drop the source's buffers with the pool that    *)
(* runs the source's asynchronous jobs, and the application (flush, start, *)
(* stop).  The two DDS topics are reader caches with the KEEP_LAST history *)
(* and the TRANSIENT_LOCAL sample that the QoS of the code asks for.       *)
(***************************************************************************)
EXTENDS Naturals, Sequences, FiniteSets

CONSTANTS
  NumBlocks,         \* blocks of the upstream pool, or of staging memory
  PoolMax,           \* GST_AMSHMEM_POOL_MAX_BUFFERS: length of held_buffers[]
  SlotPolicy,        \* where buffer_index comes from: "block", "qdata", "staged"
  Depth,             \* KEEP_LAST depth of both topics (10 in the code)
  SrcPoolMax,        \* GstBuffers the source can have downstream at a time
  ConcurrentRelease, \* may two threads publish a FreeFrame at the same time?
  MaxFrames,         \* bound: frames the upstream element produces
  MaxFlushes,        \* bound: FLUSH_START events
  MaxSinkStops,      \* bound: stop/start cycles of the sink
  MaxSrcStops,       \* bound: stop/start cycles of the source
  MaxFaults,         \* bound: failed calls and samples whose lifespan ends
  None

ASSUME ParamAssumption ==
  /\ NumBlocks \in Nat \ {0} /\ PoolMax \in Nat \ {0} /\ Depth \in Nat \ {0}
  /\ SlotPolicy \in {"block", "qdata", "staged"}
  /\ SrcPoolMax \in Nat \ {0}
  /\ ConcurrentRelease \in BOOLEAN
  /\ MaxFrames \in Nat /\ MaxFlushes \in Nat /\ MaxSinkStops \in Nat
  /\ MaxSrcStops \in Nat /\ MaxFaults \in Nat
  /\ None \notin Nat

Blocks == 0 .. NumBlocks - 1
Slots  == 0 .. PoolMax - 1
Frames == 0 .. MaxFrames - 1
Indexes == Slots \cup Blocks         \* values buffer_index can take

\* AmShMem_Msg: frame_id, the memory it points at, buffer_index.
Msgs == [frame : Frames, blk : Blocks, slot : Indexes]
\* FreeFrame_Msg: the fields the sink could tell a frame by.
FFs == [frame : Frames, slot : Indexes]
\* A GstBuffer of the source: the sample it wraps and the start() that took it.
Loans == [msg : Msgs, gen : 0 .. MaxSrcStops]
ASSUME NoneAssumption == None \notin Msgs \cup FFs

Jobs == [loan : Loans, phase : {"queued", "zeroed", "filled"}]

VARIABLES
  sinkState,     \* "run", "stopping" (stop() before the join), "stopped"
  ffThread,      \* the FreeFrame thread: "run" or "exited"
  frame_id_seq, pool_slot_counter,
  qslot,         \* the slot kept as qdata on the GstBuffer of a block
  rpc,           \* render(): "idle", "publish", "hold", "return", "error"
  rmsg,          \* amshmem_pub.am_shmem_msg
  held,          \* held_buffers[]
  refs,          \* references to the GstBuffer of a block (0: block is free)
  content,       \* the frame last written into a block
  unrefs,        \* pending freeframe_unref_async jobs, counted per FreeFrame
  amq, amLast,   \* AmShMem topic: the source's reader cache, retained sample
  ffq, ffLast,   \* FreeFrame topic: the sink's reader cache, retained sample
  srcState,      \* "run", "error" (create() returned an error), "stopped"
  smsg,          \* msg_copy of the create() in progress
  using,         \* loans wrapped in a GstBuffer that downstream can read
  rel,           \* loans whose FreeFrame is being published
  fm,            \* free_frame_pub.free_frame_msg, shared by all releases
  gen,           \* start() calls of the source so far
  flushes, sinkStops, faults,
  stage          \* history: where the ledger says the loan of a frame is

sinkVars == <<sinkState, ffThread, frame_id_seq, pool_slot_counter, qslot,
              rpc, rmsg, held, refs, content>>
amVars  == <<amq, amLast>>
ffVars  == <<ffq, ffLast>>
srcVars == <<srcState, smsg, using, rel, fm, gen>>
budgets == <<flushes, sinkStops, faults>>
vars == <<sinkVars, unrefs, amVars, ffVars, srcVars, budgets, stage>>

Stages == {"none", "sink", "am", "kept", "src", "using", "rel", "ff",
            "unref", "done", "early", "lost", "unfreed"}

---------------------------------------------------------------------------
(* Helpers *)

\* A KEEP_LAST reader cache drops its oldest sample when a new one finds it full.
Room(q) == Len(q) < Depth
KeepLast(q, m) == IF Room(q) THEN Append(q, m) ELSE Append(Tail(q), m)

\* The frame that KeepLast(q, m) drops.
Overwritten(q) == IF Room(q) THEN {} ELSE {Head(q).frame}

\* The slot of fill_am_shmem_msg_from_buffer: the block index of the Cavalry
\* meta, or the qdata slot, which is assigned when the GstBuffer is first seen.
\* A staged buffer is a new GstBuffer each time.
AssignsSlot(b) == \/ SlotPolicy = "staged"
                  \/ SlotPolicy = "qdata" /\ qslot[b] = None
\* Variants named Bug... are seeded faults; the runs must tell them from the code.
\* Modulo one less than the length of held_buffers[].
BugSlotFor(b) == IF AssignsSlot(b) THEN pool_slot_counter % (PoolMax - 1)
                 ELSE IF SlotPolicy = "block" THEN b ELSE qslot[b]
SlotFor(b) == IF AssignsSlot(b) THEN pool_slot_counter % PoolMax
              ELSE IF SlotPolicy = "block" THEN b ELSE qslot[b]

\* References after gst_buffer_unref of every buffer of the set S.
Unref(S) == [b \in Blocks |-> IF b \in S THEN refs[b] - 1 ELSE refs[b]]

HeldBlocks == {held[s] : s \in Slots} \ {None}

AtStage(st) == {f \in Frames : stage[f] = st}
Move(F, to) == [f \in Frames |-> IF f \in F THEN to ELSE stage[f]]

\* buffer_index off by one.
BugFreeFrame(l) == [frame |-> l.msg.frame, slot |-> (l.msg.slot + 1) % PoolMax]
FreeFrame(l) == [frame |-> l.msg.frame, slot |-> l.msg.slot]
ZeroFF == [frame |-> 0, slot |-> 0]          \* memset (fm, 0, ...)

FramesIn(q) == {q[i].frame : i \in 1 .. Len(q)}

---------------------------------------------------------------------------
Init ==
  /\ sinkState = "run" /\ ffThread = "run"
  /\ frame_id_seq = 0 /\ pool_slot_counter = 0
  /\ qslot = [b \in Blocks |-> None]
  /\ rpc = "idle" /\ rmsg = None
  /\ held = [s \in Slots |-> None]
  /\ refs = [b \in Blocks |-> 0]
  /\ content = [b \in Blocks |-> None]
  /\ unrefs = [m \in FFs |-> 0]
  /\ amq = <<>> /\ amLast = None /\ ffq = <<>> /\ ffLast = None
  /\ srcState = "run" /\ smsg = None /\ using = {} /\ rel = {}
  /\ fm = ZeroFF /\ gen = 0
  /\ flushes = 0 /\ sinkStops = 0 /\ faults = 0
  /\ stage = [f \in Frames |-> "none"]

---------------------------------------------------------------------------
(* amshmem_sink, streaming thread *)

\* Upstream takes a free block, writes a frame into it and pushes it (or the
\* sink stages a software frame into freshly allocated memory);
\* render() fills the message and numbers the frame.
RenderFill(b) ==
  /\ sinkState = "run" /\ rpc = "idle"
  /\ frame_id_seq < MaxFrames
  /\ refs[b] = 0
  /\ rmsg' = [frame |-> frame_id_seq, blk |-> b, slot |-> SlotFor(b)]
  /\ rpc' = "publish"
  /\ frame_id_seq' = frame_id_seq + 1
  /\ pool_slot_counter' = pool_slot_counter + (IF AssignsSlot(b) THEN 1 ELSE 0)
  /\ qslot' = IF SlotPolicy = "block" THEN qslot
                                      ELSE [qslot EXCEPT ![b] = SlotFor(b)]
  /\ refs' = [refs EXCEPT ![b] = 1]
  /\ content' = [content EXCEPT ![b] = frame_id_seq]
  /\ stage' = Move({frame_id_seq}, "sink")
  /\ UNCHANGED <<sinkState, ffThread, held, unrefs, amVars, ffVars, srcVars,
                 budgets>>

\* fill_am_shmem_msg_from_buffer or dds_write fails: GST_FLOW_ERROR.
RenderFails ==
  /\ rpc = "publish" /\ faults < MaxFaults
  /\ faults' = faults + 1
  /\ rpc' = "error"
  /\ refs' = Unref({rmsg.blk})
  /\ stage' = Move({rmsg.frame}, "lost")
  /\ UNCHANGED <<sinkState, ffThread, frame_id_seq, pool_slot_counter, qslot,
                 rmsg, held, content, unrefs, amVars, ffVars, srcVars, flushes,
                 sinkStops>>

\* run_publisher: the sample reaches the reader cache of a started source, or
\* is only retained for a late joiner.  The range of buffer_index is tested
\* after the sample is out.
RenderPublish ==
  /\ rpc = "publish"
  /\ amLast' = rmsg
  /\ IF srcState # "stopped"
       THEN /\ amq' = KeepLast(amq, rmsg)
            /\ stage' = [Move(Overwritten(amq), "lost")
                           EXCEPT ![rmsg.frame] = "am"]
       ELSE /\ amq' = amq
            /\ stage' = [Move(AtStage("kept"), "lost") EXCEPT ![rmsg.frame] = "kept"]
  /\ IF rmsg.slot < PoolMax
       THEN rpc' = "hold" /\ refs' = refs
       ELSE rpc' = "error" /\ refs' = Unref({rmsg.blk})
  /\ UNCHANGED <<sinkState, ffThread, frame_id_seq, pool_slot_counter, qslot,
                 rmsg, held, content, unrefs, ffVars, srcVars, budgets>>

\* The buffer is held without a reference of its own.
BugRenderHold ==
  /\ rpc = "hold"
  /\ held' = [held EXCEPT ![rmsg.slot] = rmsg.blk]
  /\ refs' = Unref({held[rmsg.slot]})
  /\ rpc' = "return"
  /\ UNCHANGED <<sinkState, ffThread, frame_id_seq, pool_slot_counter, qslot,
                 rmsg, content, unrefs, amVars, ffVars, srcVars, budgets, stage>>

\* gst_buffer_ref (work), then under held_lock: drop what the slot held, keep work.
RenderHold ==
  /\ rpc = "hold"
  /\ held' = [held EXCEPT ![rmsg.slot] = rmsg.blk]
  /\ refs' = [Unref({held[rmsg.slot]}) EXCEPT ![rmsg.blk] = @ + 1]
  /\ rpc' = "return"
  /\ UNCHANGED <<sinkState, ffThread, frame_id_seq, pool_slot_counter, qslot,
                 rmsg, content, unrefs, amVars, ffVars, srcVars, budgets, stage>>

\* render() returns: the reference of the caller (or of staging) is dropped.
RenderReturn ==
  /\ rpc = "return"
  /\ rpc' = "idle"
  /\ refs' = Unref({rmsg.blk})
  /\ UNCHANGED <<sinkState, ffThread, frame_id_seq, pool_slot_counter, qslot,
                 rmsg, held, content, unrefs, amVars, ffVars, srcVars, budgets,
                 stage>>

---------------------------------------------------------------------------
(* amshmem_sink, FreeFrame thread and its asynchronous jobs *)

\* The sample is taken, the job is never queued.
BugFreeFrameTake ==
  /\ ffThread = "run" /\ ffq # <<>>
  /\ ffq' = Tail(ffq)
  /\ UNCHANGED <<sinkVars, unrefs, amVars, ffLast, srcVars, budgets, stage>>

\* waitset, dds_take of one sample, gst_element_call_async.
FreeFrameTake ==
  /\ ffThread = "run" /\ ffq # <<>>
  /\ ffq' = Tail(ffq)
  /\ unrefs' = [unrefs EXCEPT ![Head(ffq)] = @ + 1]
  /\ stage' = Move({Head(ffq).frame}, "unref")
  /\ UNCHANGED <<sinkVars, amVars, ffLast, srcVars, budgets>>

\* The slot is not cleared after the unref.
BugFreeFrameUnref(m) ==
  /\ unrefs[m] > 0
  /\ unrefs' = [unrefs EXCEPT ![m] = @ - 1]
  /\ m.slot < PoolMax /\ held[m.slot] # None
  /\ refs' = Unref({held[m.slot]})
  /\ stage' = Move({m.frame}, "done")
  /\ UNCHANGED <<sinkState, ffThread, frame_id_seq, pool_slot_counter, qslot,
                 rpc, rmsg, held, content, amVars, ffVars, srcVars, budgets>>

\* freeframe_unref_async: the jobs run in any order and look at buffer_index only.
FreeFrameUnref(m) ==
  /\ unrefs[m] > 0
  /\ unrefs' = [unrefs EXCEPT ![m] = @ - 1]
  /\ IF m.slot < PoolMax /\ held[m.slot] # None
       THEN /\ held' = [held EXCEPT ![m.slot] = None]
            /\ refs' = Unref({held[m.slot]})
            /\ stage' = Move({m.frame}, "done")
       ELSE /\ UNCHANGED <<held, refs>>
            /\ stage' = Move({m.frame}, "early")
  /\ UNCHANGED <<sinkState, ffThread, frame_id_seq, pool_slot_counter, qslot,
                 rpc, rmsg, content, amVars, ffVars, srcVars, budgets>>

---------------------------------------------------------------------------
(* amshmem_src *)

\* dds_read in place of dds_take: the sample stays in the cache.
BugSrcTake ==
  /\ srcState = "run" /\ smsg = None /\ amq # <<>>
  /\ smsg' = Head(amq)
  /\ stage' = Move({Head(amq).frame}, "src")
  /\ UNCHANGED <<sinkVars, unrefs, amVars, ffVars, srcState, using, rel, fm, gen,
                 budgets>>

\* create(): take one sample.
SrcTake ==
  /\ srcState = "run" /\ smsg = None /\ amq # <<>>
  /\ smsg' = Head(amq)
  /\ amq' = Tail(amq)
  /\ stage' = Move({Head(amq).frame}, "src")
  /\ UNCHANGED <<sinkVars, unrefs, amLast, ffVars, srcState, using, rel, fm, gen,
                 budgets>>

\* create(): wrap the memory in a GstBuffer and push it.
SrcWrap ==
  /\ srcState = "run" /\ smsg # None
  /\ Cardinality(using) + Cardinality(rel) < SrcPoolMax
  /\ using' = using \cup {[msg |-> smsg, gen |-> gen]}
  /\ smsg' = None
  /\ stage' = Move({smsg.frame}, "using")
  /\ UNCHANGED <<sinkVars, unrefs, amVars, ffVars, srcState, rel, fm, gen,
                 budgets>>

\* create(): the mapping fails or the frame is out of the mapped pool.
SrcWrapFails ==
  /\ srcState = "run" /\ smsg # None /\ faults < MaxFaults
  /\ faults' = faults + 1
  /\ srcState' = "error"
  /\ smsg' = None
  /\ stage' = Move({smsg.frame}, "lost")
  /\ UNCHANGED <<sinkVars, unrefs, amVars, ffVars, using, rel, fm, gen, flushes,
                 sinkStops>>

\* The last reference to a GstBuffer of the source goes: its memory is not read
\* any more; the qdata notify or release_buffer starts to publish.
Release(l) ==
  /\ l \in using
  /\ using' = using \ {l}
  /\ rel' = rel \cup {[loan |-> l, phase |-> "queued"]}
  /\ stage' = Move({l.msg.frame}, "rel")
  /\ UNCHANGED <<sinkVars, unrefs, amVars, ffVars, srcState, smsg, fm, gen,
                 budgets>>

Publishing == {j \in rel : j.phase # "queued"}

SetPhase(j, p) == (rel \ {j}) \cup {[j EXCEPT !.phase = p]}

\* memset of the shared message.
PublishZero(j) ==
  /\ j \in rel /\ j.phase = "queued"
  /\ ConcurrentRelease \/ Publishing = {}
  /\ fm' = ZeroFF
  /\ rel' = SetPhase(j, "zeroed")
  /\ UNCHANGED <<sinkVars, unrefs, amVars, ffVars, srcState, smsg, using, gen,
                 budgets, stage>>

\* Its fields are assigned.
PublishFill(j) ==
  /\ j \in rel /\ j.phase = "zeroed"
  /\ fm' = FreeFrame(j.loan)
  /\ rel' = SetPhase(j, "filled")
  /\ UNCHANGED <<sinkVars, unrefs, amVars, ffVars, srcState, smsg, using, gen,
                 budgets, stage>>

\* dds_write of whatever the shared message is by now.  Without a writer the
\* write fails, without a reader the sample is only retained.
PublishWrite(j) ==
  /\ j \in rel /\ j.phase = "filled"
  /\ rel' = rel \ {j}
  /\ IF srcState = "stopped"
       THEN UNCHANGED ffVars /\ stage' = Move({j.loan.msg.frame}, "unfreed")
       ELSE /\ ffLast' = fm
            /\ IF sinkState # "stopped"
                 THEN /\ ffq' = KeepLast(ffq, fm)
                      /\ stage' = [Move(Overwritten(ffq), "unfreed")
                                     EXCEPT ![j.loan.msg.frame] = "ff"]
                 ELSE /\ ffq' = ffq
                      /\ stage' = Move({j.loan.msg.frame}, "unfreed")
  /\ UNCHANGED <<sinkVars, unrefs, amVars, srcState, smsg, using, fm, gen,
                 budgets>>

---------------------------------------------------------------------------
(* The application, and time *)

\* FLUSH_START comes out of band, between any two steps of render().
FlushStart ==
  /\ sinkState = "run" /\ flushes < MaxFlushes
  /\ flushes' = flushes + 1
  /\ held' = [s \in Slots |-> None]
  /\ refs' = Unref(HeldBlocks)
  /\ pool_slot_counter' = 0
  /\ UNCHANGED <<sinkState, ffThread, frame_id_seq, qslot, rpc, rmsg, content,
                 unrefs, amVars, ffVars, srcVars, sinkStops, faults, stage>>

\* clear_held forgets the buffers without gst_buffer_unref.
BugSinkStop ==
  /\ sinkState = "run" /\ rpc \in {"idle", "error"}
  /\ sinkStops < MaxSinkStops
  /\ sinkStops' = sinkStops + 1
  /\ sinkState' = "stopping"
  /\ held' = [s \in Slots |-> None]
  /\ UNCHANGED <<ffThread, frame_id_seq, pool_slot_counter, qslot, rpc, rmsg,
                 refs, content, unrefs, amVars, ffVars, srcVars, flushes, faults,
                 stage>>

\* stop(), after the streaming thread has ended: clear_held, thread_run = FALSE.
SinkStop ==
  /\ sinkState = "run" /\ rpc \in {"idle", "error"}
  /\ sinkStops < MaxSinkStops
  /\ sinkStops' = sinkStops + 1
  /\ sinkState' = "stopping"
  /\ held' = [s \in Slots |-> None]
  /\ refs' = Unref(HeldBlocks)
  /\ UNCHANGED <<ffThread, frame_id_seq, pool_slot_counter, qslot, rpc, rmsg,
                 content, unrefs, amVars, ffVars, srcVars, flushes, faults, stage>>

\* The FreeFrame thread sees thread_run at the top of its loop.
FreeFrameThreadExit ==
  /\ sinkState = "stopping" /\ ffThread = "run"
  /\ ffThread' = "exited"
  /\ UNCHANGED <<sinkState, frame_id_seq, pool_slot_counter, qslot, rpc, rmsg,
                 held, refs, content, unrefs, amVars, ffVars, srcVars, budgets,
                 stage>>

\* stop() after the join: reader and writer are deleted with what they keep.
SinkStopped ==
  /\ sinkState = "stopping" /\ ffThread = "exited"
  /\ sinkState' = "stopped"
  /\ ffq' = <<>> /\ amLast' = None
  /\ stage' = [f \in Frames |-> IF stage[f] = "ff" THEN "unfreed"
                                ELSE IF stage[f] = "kept" THEN "lost"
                                ELSE stage[f]]
  /\ UNCHANGED <<ffThread, frame_id_seq, pool_slot_counter, qslot, rpc, rmsg,
                 held, refs, content, unrefs, amq, ffLast, srcVars, budgets>>

\* start(): a new reader gets the retained FreeFrame unless its lifespan is
\* over; the counters go on.
SinkStart ==
  /\ sinkState = "stopped"
  /\ sinkState' = "run" /\ ffThread' = "run" /\ rpc' = "idle"
  /\ ffq' \in {<<>>} \cup (IF ffLast = None THEN {} ELSE {<<ffLast>>})
  /\ UNCHANGED <<frame_id_seq, pool_slot_counter, qslot, rmsg, held, refs,
                 content, unrefs, amVars, ffLast, srcVars, budgets, stage>>

\* stop(): create() has returned, a sample it had taken is dropped; reader and
\* writer are deleted while downstream may still keep buffers.
SrcStop ==
  /\ srcState \in {"run", "error"} /\ gen < MaxSrcStops
  /\ srcState' = "stopped"
  /\ smsg' = None /\ amq' = <<>> /\ ffLast' = None
  /\ stage' = Move({f \in Frames : \/ f \in FramesIn(amq)
                                   \/ smsg # None /\ f = smsg.frame}, "lost")
  /\ UNCHANGED <<sinkVars, unrefs, amLast, ffq, using, rel, fm, gen, budgets>>

\* start(): a new reader gets the retained AmShMem sample, read before or not,
\* unless its lifespan is over.
SrcStart ==
  /\ srcState = "stopped"
  /\ srcState' = "run" /\ gen' = gen + 1
  /\ amq' \in {<<>>} \cup (IF amLast = None THEN {} ELSE {<<amLast>>})
  /\ stage' = Move(AtStage("kept"),
                   IF amq' = <<>> THEN "lost" ELSE "am")
  /\ UNCHANGED <<sinkVars, unrefs, amLast, ffVars, smsg, using, rel, fm,
                 budgets>>

\* The lifespan (3 s) of the oldest AmShMem sample ends before it is taken.
AmExpire ==
  /\ amq # <<>> /\ faults < MaxFaults
  /\ faults' = faults + 1
  /\ amq' = Tail(amq)
  /\ stage' = Move({Head(amq).frame}, "lost")
  /\ UNCHANGED <<sinkVars, unrefs, amLast, ffVars, srcVars, flushes, sinkStops>>

---------------------------------------------------------------------------
Streaming == \/ \E b \in Blocks : RenderFill(b)
             \/ RenderFails \/ RenderPublish \/ RenderHold \/ RenderReturn
FreeFrameThread == FreeFrameTake \/ FreeFrameThreadExit
SinkJob == \E m \in FFs : FreeFrameUnref(m)
SrcStreaming == SrcTake \/ SrcWrap \/ SrcWrapFails
Downstream == \E l \in using : Release(l)
Publisher == \E j \in rel : PublishZero(j) \/ PublishFill(j) \/ PublishWrite(j)
Application == FlushStart \/ SinkStop \/ SinkStopped \/ SinkStart \/ SrcStop \/ SrcStart

Next == \/ Streaming \/ FreeFrameThread \/ SinkJob \/ SrcStreaming
        \/ Downstream \/ Publisher \/ Application \/ AmExpire

Spec == Init /\ [][Next]_vars

\* The threads run: render() is not preempted for ever, the waitset loops poll
\* every 30 ms, the thread pools run their jobs, stop() joins.  Downstream drops
\* every buffer at last: a source is live, so nothing else makes sense of it.
Fairness ==
  /\ WF_vars(RenderPublish \/ RenderHold \/ RenderReturn)
  /\ WF_vars(FreeFrameTake)
  /\ \A m \in FFs : WF_vars(FreeFrameUnref(m))
  /\ WF_vars(SrcTake \/ SrcWrap)
  /\ \A l \in Loans : WF_vars(Release(l))
  /\ WF_vars(Publisher)

FairSpec == Spec /\ Fairness

---------------------------------------------------------------------------
(* Invariants of every configuration *)

\* Every variable has its type, reference counts and pending jobs are never
\* negative, and a reader cache never outgrows its history.
SinkTypeOK ==
  /\ sinkState \in {"run", "stopping", "stopped"}
  /\ ffThread \in {"run", "exited"}
  /\ frame_id_seq \in 0 .. MaxFrames
  /\ pool_slot_counter \in Nat
  /\ qslot \in [Blocks -> Slots \cup {None}]
  /\ rpc \in {"idle", "publish", "hold", "return", "error"}
  /\ rmsg \in Msgs \cup {None}
  /\ held \in [Slots -> Blocks \cup {None}]
  /\ refs \in [Blocks -> Nat]
  /\ content \in [Blocks -> Frames \cup {None}]
  /\ unrefs \in [FFs -> Nat]

DdsTypeOK ==
  /\ amq \in Seq(Msgs) /\ Len(amq) <= Depth
  /\ amLast \in Msgs \cup {None}
  /\ ffq \in Seq(FFs) /\ Len(ffq) <= Depth
  /\ ffLast \in FFs \cup {None}

SrcTypeOK ==
  /\ srcState \in {"run", "error", "stopped"}
  /\ smsg \in Msgs \cup {None}
  /\ using \in SUBSET Loans /\ rel \in SUBSET Jobs
  /\ fm \in FFs \cup {ZeroFF}
  /\ gen \in 0 .. MaxSrcStops /\ (srcState = "stopped" => gen < MaxSrcStops)

HistoryTypeOK ==
  /\ flushes \in 0 .. MaxFlushes /\ sinkStops \in 0 .. MaxSinkStops
  /\ faults \in 0 .. MaxFaults
  /\ stage \in [Frames -> Stages]

TypeOK == SinkTypeOK /\ DdsTypeOK /\ SrcTypeOK /\ HistoryTypeOK

InRender(b) == rpc \in {"publish", "hold", "return"} /\ rmsg.blk = b

\* gst_buffer_ref and gst_buffer_unref balance over render, FreeFrame, flush and
\* stop in any order: the references of a block are those of the render() in
\* progress and of the one slot that holds it, so no block is freed twice and
\* none is kept without an owner.
RefBalance ==
  /\ \A s, t \in Slots : s # t /\ held[s] # None => held[s] # held[t]
  /\ \A b \in Blocks :
       refs[b] = (IF InRender(b) THEN 1 ELSE 0) + (IF b \in HeldBlocks THEN 1 ELSE 0)

\* Between stop() and start() no reference is left, whatever jobs are pending,
\* and the FreeFrame thread, which uses the deleted reader, is gone.
StopReleasesAll ==
  sinkState = "stopped" => /\ ffThread = "exited"
                           /\ \A b \in Blocks : refs[b] = 0

---------------------------------------------------------------------------
(* What lending promises; these depend on the configuration *)

\* Zero copy is safe: a block that downstream of the source can read, or will
\* be given to read, still has the frame that was published in it.
NoTornRead ==
  /\ \A l \in using : content[l.msg.blk] = l.msg.frame
  /\ \A i \in 1 .. Len(amq) : content[amq[i].blk] = amq[i].frame
  /\ smsg # None => content[smsg.blk] = smsg.frame

\* The ledger: a lent frame is in one place, the one its stage names, and there
\* once; no FreeFrame is lost, repeated or made up.
LedgerOK ==
  \A f \in Frames :
    LET places == Cardinality({i \in 1 .. Len(amq) : amq[i].frame = f})
                  + (IF smsg # None /\ smsg.frame = f THEN 1 ELSE 0)
                  + Cardinality({l \in using : l.msg.frame = f})
                  + Cardinality({j \in rel : j.loan.msg.frame = f})
                  + Cardinality({i \in 1 .. Len(ffq) : ffq[i].frame = f})
                  + Cardinality({m \in FFs : m.frame = f /\ unrefs[m] = 1})
    IN /\ places = IF stage[f] \in {"am", "src", "using", "rel", "ff", "unref"}
                     THEN 1 ELSE 0
       /\ stage[f] = "am"    => f \in FramesIn(amq)
       /\ stage[f] = "using" => \E l \in using : l.msg.frame = f
       /\ stage[f] = "ff"    => f \in FramesIn(ffq)
       /\ stage[f] = "unref" => \E m \in FFs : m.frame = f /\ unrefs[m] = 1

\* held_buffers[] keeps a buffer until the FreeFrame of its frame is handled
\* ("holds buffer refs until FreeFrame", gstamshmemsink.c:476).
HeldUntilFreeFrame ==
  [][\A s \in Slots : held[s] # None /\ held'[s] # held[s]
        => stage[content[held[s]]] = "unref"]_vars

\* A FreeFrame releases the frame it names ("so buffer_index stays in range and
\* FreeFrame matches", gstamshmemcommonslot.c:57).
FreeFrameMatches ==
  [][\A m \in FFs : FreeFrameUnref(m) /\ stage'[m.frame] = "done"
        => content[held[m.slot]] = m.frame]_vars

\* What is written to the topic is the FreeFrame of the buffer that was dropped
\* ("FreeFrame_Msg is published when the GstBuffer is finally unreffed",
\* gstamshmemsrc.h:35).  The code does not keep this when two are dropped at a time
\* (README, "Known disagreements").
FreeFrameFaithful ==
  [][\A j \in rel : PublishWrite(j) /\ srcState # "stopped"
        => ffLast' = FreeFrame(j.loan)]_vars

\* A history as deep as the pool is enough: without faults no sample of either
\* topic is overwritten before it is taken.
NoSampleLost == \A f \in Frames : stage[f] \notin {"lost", "unfreed"}

\* A FreeFrame is not handled before render() has put its buffer into
\* held_buffers[]: else the buffer stays held for good.  The code does not keep
\* this (README, "Known disagreements").
NoOrphanHold ==
  \A s \in Slots : held[s] # None => stage[content[held[s]]] # "early"

\* Two buffers of the upstream pool never get the same slot.
SlotsDistinct ==
  \A b, c \in Blocks : b # c /\ qslot[b] # None => qslot[b] # qslot[c]

\* What nobody answers for: the sample of f, or its FreeFrame, was overwritten
\* or could not be sent, or create() has failed and takes no further sample.
Dropped(f) == stage[f] \in {"lost", "unfreed"} \/ srcState = "error"

\* Backpressure ends: a lent frame comes back to the sink, unless it is dropped on
\* the way or its FreeFrame was handled too early, which releases nothing.
LentFramesReturn ==
  \A f \in Frames : stage[f] = "am" ~> stage[f] \in {"done", "early"} \/ Dropped(f)
============================================================================
