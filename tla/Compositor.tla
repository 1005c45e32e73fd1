----------------------------- MODULE Compositor -----------------------------
(***************************************************************************)
(* ambacompositor and its frame synchroniser: gstambacompositor.c and      *)
(* gstambaframesync.c of src/src/elements/amba_compositor.  N streams of   *)
(* shared-memory frames, each frame with the frame_id its decoder gave it, *)
(* are composed into one picture per frame_id.                             *)
(*                                                                         *)
(* GstAggregator, the parent class, is external.  Its source pad task      *)
(* calls aggregate() when every sink pad has a buffer or is at EOS: the    *)
(* element has no get_next_time(), so no timeout ever calls it earlier.    *)
(* A pad holds one buffer; upstream waits with the next.  When aggregate() *)
(* fails, or the element stops, the pads drop what they hold and refuse    *)
(* more.  The frames wrap memory of another process, which gets each back  *)
(* when the last reference goes: inputs is the set of those that have one. *)
(***************************************************************************)
EXTENDS Naturals, Sequences, FiniteSets

CONSTANTS
  N,          \* number of streams, grid-cols * grid-rows
  MaxDepth,   \* sync-queue-depth
  PoolMax,    \* buffers of the output pool
  IdMod,      \* frame_id is a 32-bit number: 2^32 in the code
  MaxFrames,  \* bounds the buffers of a stream
  MaxFaults,  \* bounds what goes wrong upstream
  MaxStarts,  \* bounds the times the element is started
  None

Streams == 1 .. N

ASSUME CompositorAssumption ==
  /\ N \in Nat \ {0} /\ MaxDepth \in Nat \ {0} /\ PoolMax \in Nat \ {0}
  /\ IdMod \in Nat \ {0} /\ MaxFrames \in Nat /\ MaxFaults \in Nat
  /\ MaxStarts \in Nat

(* "noid": the frame_id cannot be read; "invalid": not the format, size or *)
(* stream of the pad.                                                      *)
Frames == [s : Streams, n : 1 .. MaxFrames, id : 0 .. IdMod - 1,
           kind : {"ok", "noid", "invalid"}]

ASSUME NoneIsNoFrame == None \notin Frames

VARIABLES
  state,   \* "ready", "run", "error" or "eos" (the task has ended), "stopping"
  starts,
  pad,     \* the buffer a sink pad holds, or None
  eos,     \* pads at EOS
  queue,   \* the queues of GstAmBaFrameSync
  pc,      \* where aggregate() is: "idle", "acquire", "blit" or "push"
  inbufs,  \* the buffers collect() handed out
  outs,    \* buffers of the output pool that are not in it
  inputs,  \* the input buffers that still have a reference
  sent, next, faults  \* upstream: buffers sent, next frame_id, mishaps so far

taskVars == <<state, starts, pc, outs>>
upVars   == <<sent, next, faults>>
vars == <<taskVars, pad, eos, queue, inbufs, inputs, upVars>>

(* Types; no queue is deeper than sync-queue-depth, and the output pool    *)
(* lends no more buffers than it has.                                      *)
TypeOK ==
  /\ state \in {"ready", "run", "error", "eos", "stopping"}
  /\ starts \in 0 .. MaxStarts
  /\ pad \in [Streams -> Frames \cup {None}] /\ eos \subseteq Streams
  /\ queue \in [Streams -> Seq(Frames)]
  /\ \A i \in Streams : Len(queue[i]) <= MaxDepth
  /\ pc \in {"idle", "acquire", "blit", "push"}
  /\ inbufs \in [Streams -> Frames \cup {None}]
  /\ outs \in 0 .. PoolMax /\ inputs \subseteq Frames
  /\ sent \in [Streams -> 0 .. MaxFrames] /\ next \in [Streams -> 0 .. IdMod - 1]
  /\ faults \in 0 .. MaxFaults

Empty    == [i \in Streams |-> <<>>]
Nothing  == [i \in Streams |-> None]
Refs(f)  == {f[i] : i \in Streams} \ {None}
Queued(q) == UNION {{q[i][j] : j \in DOMAIN q[i]} : i \in Streams}

Init ==
  /\ state = "ready" /\ starts = 0 /\ pc = "idle" /\ outs = 0
  /\ pad = Nothing /\ eos = {} /\ queue = Empty /\ inbufs = Nothing
  /\ inputs = {} /\ faults = 0
  /\ sent = [i \in Streams |-> 0] /\ next = [i \in Streams |-> 0]
----------------------------------------------------------------------------
(* Upstream.  A decoder numbers its frames one after the other, the other  *)
(* decoders the same frames with the same numbers.                         *)
Arrive(i, kind) ==
  LET b == [s |-> i, n |-> sent[i] + 1, id |-> next[i], kind |-> kind]
  IN /\ state = "run" /\ i \notin eos /\ pad[i] = None /\ sent[i] < MaxFrames
     /\ kind # "ok" => faults < MaxFaults
     /\ faults' = IF kind = "ok" THEN faults ELSE faults + 1
     /\ pad' = [pad EXCEPT ![i] = b] /\ inputs' = inputs \cup {b}
     /\ sent' = [sent EXCEPT ![i] = @ + 1]
     /\ next' = [next EXCEPT ![i] = (@ + 1) % IdMod]
     /\ UNCHANGED <<taskVars, eos, queue, inbufs>>

(* A frame is lost on the way, or a decoder starts to count again.         *)
Mishap(i) ==
  /\ faults < MaxFaults /\ faults' = faults + 1
  /\ \/ next' = [next EXCEPT ![i] = (@ + 1) % IdMod]
     \/ next' = [next EXCEPT ![i] = 0]
  /\ UNCHANGED <<taskVars, pad, eos, queue, inbufs, inputs, sent>>

Eos(i) ==
  /\ state = "run" /\ pad[i] = None /\ i \notin eos /\ eos' = eos \cup {i}
  /\ UNCHANGED <<taskVars, pad, queue, inbufs, inputs, upVars>>
----------------------------------------------------------------------------
(* start(): a new synchroniser and a new output pool.  When the pool fails *)
(* the synchroniser is freed again and nothing has changed.                *)
Start ==
  /\ state = "ready" /\ starts < MaxStarts
  /\ state' = "run" /\ starts' = starts + 1 /\ eos' = {}
  /\ queue' = Empty /\ outs' = 0
  /\ UNCHANGED <<pc, pad, inbufs, inputs, upVars>>

(* aggregate() returns an error: the task ends and the pads are flushed.   *)
(* gone are the buffers that aggregate() unreferences itself.              *)
Fail(gone) ==
  /\ state' = (IF state = "stopping" THEN state ELSE "error")
  /\ pc' = "idle" /\ pad' = Nothing
  /\ inputs' = inputs \ (gone \cup Refs(pad))

Ready == \A i \in Streams : pad[i] # None \/ i \in eos

(* EOS on all the pads: what still waits in the queues is dropped.         *)
AllEos ==
  /\ state = "run" /\ pc = "idle" /\ eos = Streams
  /\ state' = "eos" /\ queue' = Empty /\ inputs' = inputs \ Queued(queue)
  /\ UNCHANGED <<starts, pc, outs, pad, eos, inbufs, upVars>>

SomeEos ==
  /\ state = "run" /\ pc = "idle" /\ Ready /\ eos # {} /\ eos # Streams
  /\ Fail({}) /\ UNCHANGED <<starts, outs, eos, queue, inbufs, upVars>>

(* collect(), the first loop: one buffer of every pad to its queue, until  *)
(* a queue is full or a frame_id is missing or does not grow.  The order   *)
(* is only checked against a buffer that still waits.                      *)
Refused(i) ==
  \/ Len(queue[i]) >= MaxDepth
  \/ pad[i].kind = "noid"
  \/ queue[i] # <<>> /\ pad[i].id <= queue[i][Len(queue[i])].id

Pulled(I) == [i \in Streams |-> IF i \in I THEN Append(queue[i], pad[i]) ELSE queue[i]]

CollectRefused(i) ==
  /\ state = "run" /\ pc = "idle" /\ Ready /\ eos = {}
  /\ Refused(i) /\ \A j \in 1 .. i - 1 : ~Refused(j)
  /\ queue' = Pulled(1 .. i - 1)
  /\ state' = "error" /\ pad' = Nothing
  /\ inputs' = inputs \ {pad[j] : j \in i .. N}
  /\ UNCHANGED <<starts, pc, outs, eos, inbufs, upVars>>

(* collect(), the second part: the heads are compared, and none of them is *)
(* dropped when they differ.                                               *)
BugMatch(q) == \A i \in 1 .. N - 1 : q[i][1].id = q[1][1].id  \* a mutant: not the last
Match(q) == \A i \in Streams : q[i][1].id = q[1][1].id

CollectMismatch ==
  /\ state = "run" /\ pc = "idle" /\ Ready /\ eos = {}
  /\ \A i \in Streams : ~Refused(i)
  /\ queue' = Pulled(Streams) /\ ~Match(queue') /\ pad' = Nothing
  /\ state' = IF \E i \in Streams : Len(queue'[i]) >= MaxDepth THEN "error" ELSE "run"
  /\ UNCHANGED <<starts, pc, outs, eos, inbufs, inputs, upVars>>

(* The heads match: collect() hands them out, and aggregate() validates    *)
(* them before it asks the pool for a buffer.                              *)
CollectMatch ==
  LET q == Pulled(Streams)
      bufs == [i \in Streams |-> q[i][1]]
  IN /\ state = "run" /\ pc = "idle" /\ Ready /\ eos = {}
     /\ \A i \in Streams : ~Refused(i)
     /\ Match(q) /\ queue' = [i \in Streams |-> Tail(q[i])] /\ pad' = Nothing
     /\ IF \A i \in Streams : bufs[i].kind = "ok"
        THEN pc' = "acquire" /\ inbufs' = bufs /\ UNCHANGED <<state, inputs>>
        ELSE state' = "error" /\ inputs' = inputs \ Refs(bufs) /\ UNCHANGED <<pc, inbufs>>
     /\ UNCHANGED <<starts, outs, eos, upVars>>

(* gst_buffer_pool_acquire_buffer() waits while downstream has them all;   *)
(* stop() deactivates the pool only after the task has ended.              *)
Acquire ==
  /\ pc = "acquire" /\ outs < PoolMax /\ outs' = outs + 1 /\ pc' = "blit"
  /\ UNCHANGED <<state, starts, pad, eos, queue, inbufs, inputs, upVars>>

(* A mutant: the inputs are forgotten on this path.                        *)
BugAcquireFails ==
  /\ pc = "acquire" /\ faults < MaxFaults /\ faults' = faults + 1
  /\ Fail({}) /\ inbufs' = Nothing
  /\ UNCHANGED <<starts, outs, eos, queue, sent, next>>

(* The pool can refuse: a block is not yet free though a buffer was.       *)
AcquireFails ==
  /\ pc = "acquire" /\ faults < MaxFaults /\ faults' = faults + 1
  /\ Fail(Refs(inbufs)) /\ inbufs' = Nothing
  /\ UNCHANGED <<starts, outs, eos, queue, sent, next>>

(* The inputs are given back before the picture is pushed.                 *)
Blit ==
  /\ pc = "blit" /\ pc' = "push" /\ inputs' = inputs \ Refs(inbufs)
  /\ inbufs' = Nothing
  /\ UNCHANGED <<state, starts, outs, pad, eos, queue, upVars>>

BlitFails ==
  /\ pc = "blit" /\ faults < MaxFaults /\ faults' = faults + 1
  /\ Fail(Refs(inbufs)) /\ inbufs' = Nothing /\ outs' = outs - 1
  /\ UNCHANGED <<starts, eos, queue, sent, next>>

(* finish_buffer(): downstream keeps the picture, or refuses it.           *)
Push ==
  /\ pc = "push" /\ state = "run" /\ pc' = "idle"
  /\ UNCHANGED <<state, starts, outs, pad, eos, queue, inbufs, inputs, upVars>>

(* BugPushRefused, a mutant: a refused picture is composed again.          *)
BugPushRefused ==
  /\ pc = "push" /\ (state = "stopping" \/ faults < MaxFaults)
  /\ faults' = IF state = "stopping" THEN faults ELSE faults + 1
  /\ pc' = "acquire" /\ outs' = outs - 1
  /\ UNCHANGED <<state, starts, pad, eos, queue, inbufs, inputs, sent, next>>

PushRefused ==
  /\ pc = "push" /\ (state = "stopping" \/ faults < MaxFaults)
  /\ faults' = IF state = "stopping" THEN faults ELSE faults + 1
  /\ Fail({}) /\ outs' = outs - 1
  /\ UNCHANGED <<starts, eos, queue, inbufs, sent, next>>

(* Downstream gives a picture back.                                        *)
Recycle ==
  /\ outs > (IF pc \in {"blit", "push"} THEN 1 ELSE 0) /\ outs' = outs - 1
  /\ UNCHANGED <<state, starts, pc, pad, eos, queue, inbufs, inputs, upVars>>
----------------------------------------------------------------------------
(* PAUSED to READY: the parent flushes the pads and waits for its task,    *)
(* which may be inside aggregate(); then stop() frees the synchroniser     *)
(* with its queues and deactivates the pool.                               *)
BeginStop ==
  /\ state \in {"run", "error", "eos"} /\ state' = "stopping"
  /\ pad' = Nothing /\ inputs' = inputs \ Refs(pad)
  /\ UNCHANGED <<starts, pc, outs, eos, queue, inbufs, upVars>>

Stop ==
  /\ state = "stopping" /\ pc = "idle" /\ state' = "ready"
  /\ queue' = Empty /\ inputs' = inputs \ Queued(queue) /\ outs' = 0
  /\ UNCHANGED <<starts, pc, pad, eos, inbufs, upVars>>

Collect == CollectMismatch \/ CollectMatch \/ \E i \in Streams : CollectRefused(i)
Aggregate ==
  \/ AllEos \/ SomeEos \/ Collect \/ Acquire \/ AcquireFails
  \/ Blit \/ BlitFails \/ Push \/ PushRefused

Next ==
  \/ \E i \in Streams :
       \/ \E kind \in {"ok", "noid", "invalid"} : Arrive(i, kind)
       \/ Mishap(i) \/ Eos(i)
  \/ Start \/ Aggregate \/ Recycle \/ BeginStop \/ Stop

Spec == Init /\ [][Next]_vars

(* The task runs, the thread that stops the element runs, and downstream   *)
(* gives its pictures back; nothing makes upstream send or fail.           *)
FairSpec ==
  Spec /\ WF_vars(Aggregate) /\ WF_vars(Stop) /\ WF_vars(Recycle)
----------------------------------------------------------------------------
(* Every shared-memory frame handed to the element is given back once:     *)
(* whichever way collect(), aggregate() or the streams end, the frames     *)
(* with a reference are those of the pads, the queues and the picture that *)
(* is being made, and a stopped element has none.  A frame that is not     *)
(* given back is a buffer the decoder never gets again.                    *)
InputsAccounted ==
  /\ inputs = Refs(pad) \cup Queued(queue) \cup Refs(inbufs)
  /\ state = "ready" => inputs = {} /\ pad = Nothing /\ queue = Empty

(* Frames wait in the queues only when their heads differ: a complete set  *)
(* of heads is never left waiting for the next buffer, so that EOS drops   *)
(* none, and the streams stay in step, so that only the heads can match.   *)
(* What is composed is one frame of every stream, all with one frame_id.   *)
NoMatchLeftWaiting ==
  /\ state = "run" =>
       /\ \A i \in Streams : Len(queue[i]) = Len(queue[1])
       /\ queue[1] # <<>> => ~Match(queue)
  /\ pc \in {"acquire", "blit"} =>
       \A i \in Streams : inbufs[i] # None /\ inbufs[i].s = i /\ inbufs[i].id = inbufs[1].id

(* stop() returns, also when the task waits for a buffer of the output     *)
(* pool, which nothing wakes but a buffer that comes back: the task is     *)
(* joined before the pool is deactivated.                                  *)
StopReturns == state = "stopping" ~> state = "ready"

(* The documentation of sync-queue-depth: buffers are held "while waiting  *)
(* for matching frame_id (no drop until full)".  A frame_id that has       *)
(* arrived on every stream is composed, unless the streams end first.  The *)
(* code does not keep this (README, "Known disagreements").                *)
Arrived(id) == \A i \in Streams : \E j \in DOMAIN queue[i] : queue[i][j].id = id

WaitEndsInMatch ==
  \A id \in 0 .. IdMod - 1 :
    (state = "run" /\ Arrived(id)) ~>
      \/ inbufs[1] # None /\ inbufs[1].id = id
      \/ eos # {} \/ state \in {"stopping", "ready"}
============================================================================
