# cooper-gst-plugin: formal specification

The repository is a set of GStreamer 1.x elements for Ambarella SoCs: capture,
encoding, decoding, overlays, machine learning, recording, and transports that
share video memory between processes.  Paths below are relative to the
repository; `E/` stands for `src/elements/`, `M/` for `src/modified_elements/`.

Most elements wrap a driver: one streaming thread, one ioctl at a time.  This
project models the parts where several threads, processes or elements meet:

- the zero-copy video transport `amshmem_sink` / `amshmem_src` over CycloneDDS,
  with its pool handshake over a Unix socket;
- its sibling `munixfdsink` / `munixfdsrc` over a Unix socket;
- the Cavalry buffer pool under both the decoder and the compositor;
- the compositor with its frame synchroniser;
- the demultiplexer of encoded streams;
- the process-wide IAV context that the hardware decoders share;
- the two recorders: the event recorder and the modified `splitmuxsink`.

With the hardware-independent helpers (`src/platform_al/platform_os.c`, wrappers
of pthread calls) and the queue in the SEI decoder, which one thread uses, these
are all the sources in `src/src` that wait on a condition variable, start a
thread or pass data through a queue of their own.

## 1. Inventory

### 1.1 The zero-copy transport

| Part | State | Operations | Interacts with |
|---|---|---|---|
| `amshmem_sink` (`E/amshmem_sink/gstamshmemsink.c`) | `held_buffers[]` (16 slots, under `held_lock`), `frame_id_seq`, `pool_slot_counter`, `thread_run`, `scm_pool_announced` | `start`, `stop`, `render`, `event` (FLUSH_START), the FreeFrame thread, `freeframe_unref_async` | upstream pool, DDS, the pool handshake |
| slot assignment (`E/amshmem_sink/gstamshmemcommonslot.c`) | a slot as qdata on a GstBuffer | `gst_amshmem_buffer_get_or_assign_slot` | called by `render` |
| `amshmem_src` (`E/amshmem_src/gstamshmemsrc.c`) | mapped pool, `shm_ready`, the qdata of each buffer, one shared `free_frame_msg` | `start`, `stop`, `create`, `phys_free_job_qdata_free`, `phys_freeframe_publish` | DDS, downstream, the pool handshake |
| source buffer pool (`E/amshmem_src/gstamshmemsrcbufferpool.c`) | the AmShMem_Msg each buffer wraps | `release_buffer` | downstream threads, DDS |
| DDS (`src/cyclonedds`) | one reader cache per topic, the retained sample | `init_publisher`, `run_publisher`, `init_subscriber`, `dds_take` | both elements |
| pool handshake (`E/amshmem_sink/gst_amshmem_scm.c`) | `pool_fd`, `pool_bytes`, `pool_set`, `stop`, the listening socket | `server_start`, `server_stop`, `server_set_pool`, `scm_server_thread`, `client_recv_pool` | `render`, `create`, `start`/`stop` of both |
| physical mapping (`E/amshmem_sink/gst_amshmem_phys_mmap.c`) | a mapping per buffer | `wrap_nv12` and its unmap | `create` |

A frame goes round like this.  Upstream writes into a free block of its pool and
pushes the GstBuffer.  `render()` fills an `AmShMem_Msg` (frame number, address,
`buffer_index`), publishes it, and puts the buffer into
`held_buffers[buffer_index]` with a reference, so that the pool cannot reuse the
block.  `create()` takes the sample, maps the memory and pushes a GstBuffer that
wraps it.  When the last reference to that goes, a `FreeFrame_Msg` with the same
`buffer_index` is published; the sink's FreeFrame thread takes it and queues a
job that clears the slot and drops the reference.

What is hard here:

- `render()` publishes before it holds; the answer can come back in between.
- The FreeFrame names a slot and nobody compares its frame number, so
  everything depends on slots not being reused too early.
- Jobs of `gst_element_call_async` run in any order, also after flush or stop.
- `FLUSH_START` is out of band; `stop()` must leave nothing behind.
- DDS keeps the last 10 samples and drops older ones; the array has 16 slots.
- A late joiner is given a retained sample, perhaps of an earlier session.
- Several threads release buffers of the source, which has one message object.
- In `POOL_OFFSET` mode the source cannot read until the handshake has given it
  the pool; `create()` and both `stop()`s wait for threads that wait for others.

What makes it correct:

- memory that a source can read, or will read, is not overwritten (`NoTornRead`);
- references balance in every order of events (`RefBalance`), and nothing is
  left after `stop()` (`StopReleasesAll`);
- a buffer is held until its own FreeFrame (`HeldUntilFreeFrame`,
  `FreeFrameMatches`), and not for ever (`LentFramesReturn`);
- no loan is lost, repeated or made up (`LedgerOK`, `NoSampleLost`);
- descriptor and size belong to one pool (`SizeMatchesFd`), an accepted connection
  is served or closed before the next one (`ServedOnce`), and nobody waits for ever
  (`SinkStopReturns`, `SrcStopReturns`);
- as a whole: a block is free, the producer's, the borrower's or on its way
  back, and goes round in that order only (`ImplementsFrameLoan`).

### 1.2 The other modelled components

**`munixfdsink` and `munixfdsrc`** (`M/unixfd`).  State: the table of clients with
the buffers each of them keeps referenced, `caps`, `wait_for_connection`, `unlock`,
a service thread with its own main loop; in the source, a context per buffer that
counts the memories with a weak reference.  Operations: `start`, `stop`, `render`,
`event`, `unlock`, `unlock_stop` and the service thread's callbacks in the sink;
`create`, the weak-reference callback and the state changes in the source.  Hard:
clients come, go and fail in the middle of a send, which is done with the object
lock held; the source sends a release with its own object lock held, which `create()`
needs as well; a release races the close of its socket; `wait-for-connection` races
`unlock()`; a command may be left half read.  Correct when a buffer is referenced
once per client that has it (`OneReferencePerLoan`), caps come before buffers
(`CapsBeforeBuffer`), only a client's own failure ends its connection
(`HealthyClientStays`), a release does not wait for its socket (`ReleaseNeverBlocks`),
buffers come back (`BuffersReturn`) and nobody waits for ever in `render()`
(`ClientWakesRender`, `UnlockEndsWait`).

**Event recorder** (`E/amba_event_recorder`).  State: a cache of encoded samples per
track, the recording window, the writer pipeline with an appsrc per track, a 100 ms
timer.  Operations: samples, EOS, triggers, request pads, the primary-pad property,
the timer, dispose.  Hard: the cache is pruned by age, number, bytes and GOP while a
window keeps more of it; a trigger extends a window while buffers of it are on
their way; the clock may end it.  Correct when a file starts at a keyframe
(`KeyframeFirst`), has each sample of its window once and in order
(`WrittenOnceInOrder`, `RecordedBeforeDropped`) and no other (`FileWithinWindow`),
and the cache keeps its limits (`CacheBounded`).

**Cavalry buffer pool** (`src/mm/gst_amba_cavalry_bufferpool.c`).  State: one slab, its
blocks with `in_use`, a table from memory address to block.  GstBufferPool, the
parent class, queues buffers and counts those outside.  Hard: `stop()` frees the
slab before the parent has freed the buffers; the table keeps entries of dead
memories whose addresses are used again; a block is marked free later than the
parent counts the buffer as gone.  Correct when every block in use has one owner
(`BlockLedger`) and a lookup finds the right, living block (`LookupSound`).

**Compositor and frame synchroniser** (`E/amba_compositor`).  State: a queue per stream,
the pads of GstAggregator, the input buffers `aggregate()` has taken, the output
pool.  Hard: five ways to fail after references were taken; heads that differ; a
task that waits for an output buffer while the element stops.  Correct when every
input is accounted for (`InputsAccounted`), a complete set is never left waiting
(`NoMatchLeftWaiting`) and `stop()` returns (`StopReturns`).

**vencdemux** (`E/vencdemux`).  State: a source pad and a segment per stream, `blocked`,
`flushing`, `clock_id`.  Three threads meet: `chain()`, which waits for PLAYING or for
the clock, the application's state changes, and upstream's flush.  Correct when
nothing follows a flush (`FlushIsFinal`), nothing passes before PLAYING
(`PausedHolds`), and every wait ends (`WaitEnds`, `StopReturns`).

**IAV context and decoders** (`src/common/iav_ctx.c`, `src/common/decoder_common.c`,
`E/hwvdec`, `E/hwvdecv2`).  State: a use count and a set-up flag for the process, one
decode mode with a number of decoders, one bit-stream buffer that the elements
divide by that number, and per element how far it has come.  Hard: two versions of
the element, of which one takes no lock; acquire and release in any order; the
driver overwrites the number the elements divide by.  Correct when the context is
up for whoever holds it (`HeldContextIsUp`) and no two decoders have a common part of
the buffer (`RegionsDisjoint`).

**splitmuxsink** (`M/splitmuxsink`).  State: per stream an input thread, a queue and an
output thread; the GOP that is being collected, a queue of output commands, the
file that is being written.  Hard: all threads wait for each other through full
queues, two condition variables and a muxer that waits for every pad; where a file
ends is known only after the B frames.  Correct when the code's assertions hold
(`AssertionsHold`), the files are a partition of the input at keyframes
(`FilesPartitionInput`), a recording ends (`RecordingEnds`) and so does a stop
(`StopReturns`).

How they meet: the decoder and the compositor take their buffers from the Cavalry
pool, whose blocks the transport lends (a block without references is the pool's:
`BlockLedger` for the pool, `RefBalance` for the transport); vencdemux feeds the two
recorders.  The modules are not composed further than `AmShMem` with `FrameLoan`,
because these interfaces are GStreamer's own: a buffer, a reference, an event.

### 1.3 Not modelled

The implementation has about 105,000 lines, and the map of `PROJECT.json` names
about 7,200 of them.  The rest has no state that several actors share:

- `src/iav_al` (the largest part, 10,400 lines) turns calls into ioctls of a closed driver
  and fills its parameter structures; `src/platform_al` wraps the operating system;
- cameras, encoders' capture, overlays, display, video sinks, drawing, image
  conversion, scaling: one thread that asks the driver for a frame or writes its
  tables, and pixel work;
- machine learning: numerical work around vendor libraries;
- AAC, SEI, codec parsers, bit-stream helpers: formats;
- the ring and direct memories, the hardware clock, the file muxer, EFR and HEIC
  sinks: no protocol beyond their base classes;
- `filesink` and `alsasrc` are upstream elements with small changes to I/O;
- Lua and DDS profiles, build files and samples are data.

What could be wrong there is arithmetic, parameters and driver behaviour; a model of
it would restate the code.  Of the modelled files, what is left out is properties,
caps, geometry, naming, dumping and logging; `PROJECT.json` says for each component
what else.

## 2. Modules

| Module | What it is |
|---|---|
| `AmShMem` | the zero-copy transport: sink, source, both topics, flush, stop and start |
| `FrameLoan` | the abstract specification: what lending a frame promises |
| `AmShMemLoan` | `AmShMem` implements `FrameLoan` (refinement mapping) |
| `AmShMemScm` | the pool handshake |
| `UnixFd` | munixfdsink with several munixfdsrc |
| `CavalryPool` | the buffer pool in contiguous mode |
| `Compositor` | ambacompositor with its frame synchroniser |
| `VencDemux` | ambavencdemux |
| `IavDecoder` | the IAV context, the decode mode and both decoder elements |
| `EventRecorder` | the event recorder |
| `SplitMux` | splitmuxsink |
| `MCUnixFd`, `MCCavalryPool`, `MCIavDecoder`, `MCSplitMux` | values of constants that a `.cfg` cannot write, symmetry |
| `AmShMemProofs` | `AmShMem`: references, types and slots in every configuration; lending, the ledger and the refinement of `FrameLoan` without flush and stop |
| `AmShMemScmProofs`, `UnixFdProofs`, `CavalryPoolProofs`, `CompositorProofs`, `IavDecoderProofs`, `SplitMuxProofs` | proofs about the module of that name |
| `RecordingProofs` | `VencDemux` and `EventRecorder`, one after the other; the names that both would define have the prefix `Demux` or `demux` in `VencDemux` |

Definitions named `Bug...` are seeded faults, next to what they change: each
property of each passing run is violated when one of them takes the place of the
definition it is a variant of.

### 2.1 `AmShMem`

State and code:

| Variable | In the code |
|---|---|
| `held` | `held_buffers[]`, a slot has the block of its buffer, or None |
| `refs` | reference count of the GstBuffer of a block that the transport can see: the caller of `render()`, the slot |
| `content` | the frame written last into a block |
| `qslot`, `pool_slot_counter` | the slot in the qdata of a GstBuffer, `pool_slot_counter` |
| `rpc`, `rmsg` | where `render()` is, `amshmem_pub.am_shmem_msg` |
| `unrefs` | jobs of `freeframe_unref_async` not run yet |
| `amq`, `amLast`, `ffq`, `ffLast` | reader cache and retained sample of each topic |
| `smsg`, `using`, `rel`, `fm` | `msg_copy` in `create()`; the buffers downstream has; the releases in progress and how far each is; the one `free_frame_msg` |
| `sinkState`, `ffThread`, `srcState`, `gen` | element state, the thread `stop()` joins, which `start()` a loan is of |
| `flushes`, `sinkStops`, `faults` | bounds |
| `stage` | history only: the ledger, where the loan of a frame should be |

`render()` has four steps, split where another thread can see the difference:
fill the message (`RenderFill`), publish it (`RenderPublish`), hold the buffer
(`RenderHold`, atomic in the code under `held_lock`), return (`RenderReturn`,
the caller's reference goes); `RenderFails` is its error exit.  Taking a free
block and writing the frame is upstream's part and is merged into `RenderFill`,
since a block without references is the pool's to give.  `SlotPolicy` is the
choice in `fill_am_shmem_msg_from_buffer`: the block index of the Cavalry meta
("block"), the slot kept as qdata on the buffers of a hardware pool ("qdata"),
or a slot per staged software buffer ("staged").

A release has three steps, `PublishZero`, `PublishFill`, `PublishWrite`, because
`memset`, the assignments and `dds_write` work on one shared object.
`ConcurrentRelease` says whether two threads may be in them at a time.  The code
has no lock there, so only the application can keep them apart (one downstream
thread, one worker in the pool of asynchronous jobs).  With two releases at a time the
message that is published may be the other's (section 5), and a loan may never end.

Assumptions: one sink and one source per topic; a `DDS_FATAL` is a failed call;
RELIABLE delivery, so a sample is lost only when it is overwritten or its
lifespan (3 s) ends; all samples are one DDS instance, so KEEP_LAST counts all of
them; the last-sample reference of GstBaseSink is not modelled; the caller of
`render()` unrefs when it returns.

### 2.2 `FrameLoan` and `AmShMemLoan`

`FrameLoan` knows who has a block: nobody, the producer, the borrower, or the way
back.  Only a free block is written, only the borrower gives back, only then is
the block free.  `AmShMemLoan` maps `owner` to the references, the program
counter of `render()` and the ledger.  A frame whose sample is lost stays with a
borrower that never gives it back: the code never does more for it.

### 2.3 `AmShMemScm`

| Variable | In the code |
|---|---|
| `stop`, `listening`, `pool_set` | fields of `GstAmShMemScmServer`; `pool_set` is descriptor and size, each by the pool it belongs to |
| `spc`, `peer`, `offer` | program counter of `scm_server_thread`, the connection, the locals `pfd_send`, `sz_send` |
| `srv`, `announced`, `published`, `upstream` | the sink: server state, `scm_pool_announced`, the retained sample, the pool upstream allocates from |
| `el`, `th`, `cpc`, `shm_ready`, `shm_mmap`, `got`, `conn`, `sample` | each source: element state, its handshake thread, `create()`, what it mapped, what it received, its connection, the next sample |

The condition variable is modelled as it is used: a thread in `"wait"` goes on
only when `Broadcast` is called.  `scm_server_stop` does not call it.  Killing a
source (`SrcCrash`) makes the server's next send to it fail.  A `sendmsg` to a
dead peer is an error return; the module assumes that SIGPIPE does not end the
process.  `peer` and `offer` are locals of the loop's body and end with it.  A pool
of upstream is new with a buffer of it, in `Announce` or `Publish`.  The server sends
descriptor and size in two steps, with an announcement or a crash in between; the
source has nothing to do between the two, so that their receipt is one step.

### 2.4 `UnixFd`

| Variable | In the code |
|---|---|
| `sink`, `svc`, `loop` | element state, the service thread that `start()` creates, its main loop |
| `caps`, `wait_for_connection`, `unlock`, `eos` | fields of `GstMUnixFdSink`; `eos` is set once EOS has been received |
| `mode`, `want` | what the base class is doing, and the change that called `unlock()` |
| `rpc`, `cmd`, `todo` | the streaming thread; what it sends to which clients still, with the object lock held |
| `link`, `held` | a connection as the sink sees it, `client->buffers` |
| `src`, `create`, `msg`, `broken`, `ncaps`, `mems` | a source, its `create()`, the command whose header it has read, whether the stream is out of step, its caps, `BufferContext.n_memory` |
| `releasing` | the buffer whose RELEASE_BUFFER the source is sending, with its object lock held |
| `down`, `up` | the two directions of the socket, `Cap` commands each |

One action per command that is sent to one client, so that clients fail between two of
them; a send blocks on a full socket, and with it everybody who needs the object lock,
as in the code. The same goes for the source: `MemoryWeakRef` takes the object lock
and `ReleaseSent` sends, when the socket has room, and gives it up; meanwhile neither
another memory is released nor a buffer wrapped (`SrcUnlocked`). A client is one
session from connect to close. A source in PAUSED does not read. The socket carries
whole commands; a source that is stopped between header and payload leaves a payload
where a header is expected (`broken`).

### 2.5 `EventRecorder`

`priv->lock` makes each handler one step, and the module has one action for each:
`ProcessSample`, `OnEos`, `Trigger`, `CloseTimer`, `RequestPad`, `ReleasePad`, `SetPrimary`,
`Dispose`.  Opening the writer, pushing what is pending, pruning and closing are
operators on a record of the state, applied in the order of the code.  `cache` is
`cached_buffers` with the `written` flags; `window` and `writer` are the fields of
those names; `file`, `keyed` and `switched` are history: `keyed` says that the primary track
had a keyframe to start from when the file was opened, and is forgotten when another
track becomes primary.  The muxer behind the appsrcs is external and takes what it is
given, except that an appsrc may fail between two handlers (`AppsrcFails`): a push to it
then writes nothing.  Times are in units of which GOP and cache constants are small
multiples, and a running time that does not advance is moved by one unit, as the code
moves it by a millisecond.  For the limit in bytes a keyframe has two and any other
sample has one.

### 2.6 `CavalryPool`

`in_use` and `block` are `blocks[]`; `map` is `memory_to_block_map`, keyed by the address of
a memory, and keeps its entry when the memory dies in a way the pool does not see;
`st` says where the buffer of an address is, from allocation to the three steps of
`free_buffer()` (the parent counts it as gone, the block is marked, the entry is
removed).  `starts` numbers the slabs so that an old one can be told from a new one.
Acquire, release, discard, activation and the moment `stop()` is called are the
parent's and external; so is `cur_buffers`, the number of buffers the parent counts,
which its `set_config()` sets to 0 whatever is left over, and which can be negative
afterwards.

### 2.7 `Compositor`

`pad`, `eos` and the rules when `aggregate()` is called are GstAggregator's and external.
`queue` is `GstAmBaFrameSync`; `pc` splits `aggregate()` where it waits or can fail:
collecting, acquiring an output buffer, the blit, the push.  `inputs` are the input
buffers that still have a reference; each error path drops what the code drops.
`frame_id` wraps at `IdMod`.  A fault upstream loses a frame, or makes its id unreadable
or its format wrong.

### 2.8 `VencDemux`

`chain()` is split at its two waits: `blocked_cond` (`pc = "blocked"`, with `woken` for a
signal since the wait began) and the clock (`"clock"`).  `PausedToReady` is the parent's
`change_state()`, which makes the pads inactive and waits for `chain()`;
`PausedToReadyDone` is the rest of the handler.  `flush` says how far upstream's flush
has come; FLUSH_STOP waits for `chain()`.

### 2.9 `IavDecoder`

`isSetup` and `usedNum` are the statics of `iav_ctx.c`; `entered`, `exitBit`,
`numDecoder` are the fields of the context that `decoder_common.c` writes; `modeLock`
is `hwvdecv2_dec_mode_mutex`; `drvMode` and `drvDec` are the driver's side.
`set_format()` is split at `Lock`, `Configure`, `Enter`, `Unlock`, `Divide`, between
which other elements run; version 1 goes from `V1SetFormat` to `Configure` without the
lock. Failures of the driver (`EnterFails`, `DivideFails`, `StartFails`) follow the
code's clean-up, and the driver may refuse to leave the mode (`LeaveDecodeMode`),
which then stays entered. A driver that reports no decoder at all is left out.

### 2.10 `SplitMux`

A thread at a pc of `Locked` holds `splitmux->lock` and nobody else moves; all others
wait on one of the two conditions (`wait`, `gopwait`, `cmdwait`), are woken by its
broadcast, or are outside. `collect` is the input side, `output` the output side with
`out_cmd_q`, `queue` the queues with `max-size-buffers`, which the code enlarges in
the overrun callback: that counts and grows under the lock (`Overrun`), and reads
(`ReadLimit`) and sets (`SetLimit`) the limit of its own queue after it has given up
the lock, so that `grow_blocked_queues()` may come in between. `Split` (split-now and
split-after) sets its flags without the lock, at any moment. The muxer is external:
one buffer per pad, the earliest is taken when every pad has one or is at EOS. An
output thread takes an item and runs the pad probe in one step. Two simplifications:
the event of `Unblock` is queued in the step that gives up the lock, not after it; and
an output thread that is told to flush ends with its buffer, which the code still
passes to the muxer of an element that is stopping and whose files no property looks
at any more. `input` is chosen at the start: what upstream will send.

## 3. Runs

| Run | Properties | Bounds |
|---|---|---|
| `Lend` | `NoTornRead`, `LedgerOK`, `SlotsDistinct`, `HeldUntilFreeFrame`, `ImplementsFrameLoan`, `LentFramesReturn`: samples are overwritten, a call fails, slots are kept on the buffers, one thread releases at a time | 3 blocks, history of 2 (shorter than the pool, as 10 is shorter than 16), 1 fault, 4 frames; 199,000 states |
| `Lifecycle` | `RefBalance`, `StopReleasesAll`: flush, stop and restart of both elements, late jobs, retained samples, concurrent releases | 2 blocks and 1 slot (index 1 is out of range), history of 1, one flush, stop and fault each |
| `Handshake` | `SizeMatchesFd`, `ServedOnce`, `SinkStopReturns`, `SrcStopReturns` (and with it the end of the wait in `create()`) | 2 sources and 2 starts of sources, so that two connect at once or one connects twice; a start and stop of the sink, a flush, 2 pools, 1 source dies; 286,000 states |
| `UnixFd` | `OneReferencePerLoan`, `CapsBeforeBuffer`, `ReleaseNeverBlocks`, `HealthyClientStays`, `BuffersReturn`, `ClientWakesRender`, `UnlockEndsWait` | 2 clients, a buffer of two memories and one without any, sockets of 2 commands, 2 caps, 2 frames, 2 events, state changes or faults; 274,000 states |
| `UnixFdTight` | `BuffersReturn` where both sockets fill up | 1 client, 4 buffers, sockets of 1 command, 5 frames, 1 caps, 2 events, state changes or faults; 64,000 states |
| `EventRecorder` | `CacheBounded`, `WrittenOnceInOrder`, `KeyframeFirst`, `FileWithinWindow`, `RecordedBeforeDropped` | a video and an audio track, 3 samples of times 0 to 2 with keyframes anywhere, cache of 2 samples and 3 bytes, 2 triggers, one change of pads or property or failing appsrc; 628,000 states |
| `CavalryPool` | `BlockLedger`, `LookupSound` | 4 addresses (symmetric), up to 3 blocks, 3 starts, 3 configurations |
| `Compositor` | `InputsAccounted`, `NoMatchLeftWaiting`, `StopReturns` | 3 streams of 3 frames, queues of 2, 2 output buffers, ids modulo 3, 2 faults, 2 starts |
| `VencDemux` | `FlushIsFinal`, `PausedHolds`, `WaitEnds` | 2 streams, 3 buffers, 2 flushes, 2 starts |
| `IavDecoder` | `HeldContextIsUp`, `RegionsDisjoint` | 2 elements of version 1 and 3 of version 2, one of which only the driver's number of decoders admits; 2.7 million states |
| `SplitMux` | `AssertionsHold`, `FilesPartitionInput`, `RecordingEnds`, `StopReturns` | 4 inputs, with and without B frames and audio, queues of 1, a limit of two GOPs, a split request; 367,000 states |
| `DemuxStop` | `StopReturns` of `VencDemux` is violated (section 5) | 2 streams, 2 buffers, 1 flush |

The numbers are the smallest that let each case happen.  Two loans at a time are
needed to confuse slots or messages, three to fill a queue of two and have one on
the way; two clients to serve the wrong one or to hold one up by the other; one
reuse of a block, an address or a slab to read something stale; three streams so
that two of them can agree against the third; two starts for what a session leaves
behind; a queue of one buffer so that every thread has to wait for every other.
Slots are 16 and the history 10 in the code, `frame_id` has 32 bits; what matters is
whether slots and history are larger than the number of loans, and that ids wrap.  In
`Lend` the slots are as many as the loans and the history is shorter, in `Lifecycle` both
are exceeded, and in `Compositor` the ids wrap.  A socket of `munixfd` holds some hundred
commands and a pool a few buffers, so the socket does not fill up with releases:
`UnixFd` has that case, `UnixFdTight` the other one, in which sink and source wait for
each other.  `Handshake` starts the sink once; that its safety properties also hold
across restarts is a theorem (section 4).

All counters are cut off by `Max...` constants, and elements really stop: every run
ends in states without successors.  So deadlock is not checked, and the waiting that
matters is stated as liveness.  `TypeOK` of a module is part of an invariant of its
run or is proved (section 4).

### Fairness

`AmShMem`: weak fairness of the rest of `render()` once it has a buffer (a thread
is not preempted for ever), of the FreeFrame thread and of `create()` (both poll a
waitset every 30 ms), of each asynchronous job (the thread pool runs what it is
given), of the publisher, and of `Release` (downstream drops its buffers: this one
is an assumption about the application).  Upstream, faults, flush, stop and start
are not fair.  `LentFramesReturn` excepts what nobody answers for (`Dropped`: the sample
or its FreeFrame was lost, or `create()` has failed and takes no more) and the FreeFrame
that came before its buffer was held.

`AmShMemScm`: weak fairness of each process: the sink with its server thread, and each
source with its handshake and streaming threads, goes on while one of its threads, or
the `stop()` it is in, can.  The application and upstream owe nothing: that is why the liveness properties except
the state `Unannounced`, a server that waits for a pool no buffer ever brought.
`scm_server_stop` does not wake it, so its join then waits for ever.

`UnixFd`: the streaming thread, the service thread, each source that reads, and the
rest of a state change.  `BuffersReturn` has two exceptions: a source that does not read
(`Deaf`) holds up everybody; and with more buffers than a socket holds commands, sink and
source may each hold a lock and wait for the other to read (`MutualBlock`).

`Compositor`: the aggregate task, the stop once begun, and downstream, which gives
pictures back; nothing makes upstream send.

`VencDemux`: `chain()` where it does not wait, its wake-up once it was signalled
(`g_cond_signal` wakes a waiter), a flush once begun, the rest of a state change.
Spurious wake-ups happen but are not owed.

`SplitMux`: each thread, the muxer and the end of a file while the sink is not stopped,
and the stop once it was asked for.  A thread that waits is not enabled, so none of
this assumes that a wait ends.  Upstream sends its whole input.

`Lifecycle`, `EventRecorder`, `CavalryPool` and `IavDecoder` are about safety only.

## 4. Proofs

Each theorem holds for all values of the constants that meet the named `ASSUME`s of
its module: counts are naturals, sets that the code indexes are not empty, `None` is
none of the values it stands beside.

`AmShMemProofs` proves, for all values of the constants (any number of blocks,
slots, samples, flushes, stops, faults and any slot policy):

- `TypeCorrect`: `Spec => []TypeOK`;
- `RefsBalance`: `Spec => []RefBalance`;
- `StopReleases`: `Spec => []StopReleasesAll`.

`RefBalance` alone is not inductive: `RenderHold` may add a second reference
only because the block in `rmsg` is in no slot yet, and `SinkStart` is harmless
only because a stopped sink has no `render()` in progress.  The inductive
invariant `IInv` adds the first (`RenderOK`) and the second (`StopOK`) to types
and balance.  There is one lemma per action or group of actions that touch the
same conjuncts; actions that leave the sink alone share `SinkUnchanged`.
`Invariance` is `Spec => []IInv`, and the theorems follow from it.

It goes on to `SlotsDiffer`: `Spec => []SlotsDistinct` for slots that are not staged, a
pool not larger than `held_buffers[]` and no flush.  The slot counter then never
wraps before every buffer has its slot (`SlotInv`: the assigned slots are those the
counter has passed, one each).

The rest of the module proves what `Lend` checks but for liveness, for any number of
blocks, slots, samples and faults and any history, under the constant assumption
`Calm`: `buffer_index` is the Cavalry block index or the slot kept in the qdata, the
pool is not larger than `held_buffers[]`, one thread at a time publishes a FreeFrame,
and neither element is flushed or stopped.  Failed writes, failed mappings, samples
whose lifespan ends, and overwritten samples of either topic are included.  Section 5
shows what the assumptions keep out: slots of staged frames and after a flush, and two
publishers.  A stop drops held buffers of frames that are still lent, by design, so
that these properties cannot hold across one.  The run is an instance of `Calm`, so the
assumptions can be met together.

- `NeverTorn`: `Spec => []NoTornRead`;
- `HeldLongEnough`: `Spec => HeldUntilFreeFrame`;
- `FreeFrameReleasesItsFrame`: `Spec => FreeFrameMatches` (which no run has: the
  proof says more);
- `LedgerKept`: `Spec => []LedgerOK`;
- `NothingOverwritten`: `Spec => []NoSampleLost` (which no run has: in `Lend` samples are
  lost), if there are no faults and each topic keeps as many samples as the pool has
  blocks;
- `LendingImplementsLoan`: `Spec => ImplementsFrameLoan`.

`NoTornRead` says nothing of the way back, so it is not inductive: a wrong or
repeated FreeFrame would free a block that is still read.  `LInv` follows a frame
all the way round: a sample in the cache, in `create()`, downstream, being
published, in the FreeFrame cache or in a job stands for a frame that is still in
its block (`content`), the block is held in its slot or about to be (`Lent`, `OwnSlot`),
and the frame is at that place only (`DistinctFrames` for the caches, `stage` for the
rest).  A new frame cannot disturb it, since the block that `RenderFill` takes has no
reference and so, by `IInv`, is in no slot, and no other block has its slot, by
`SlotInv`.  `PlacesKept` says that a step which moves no frame of a place keeps that
place's conjunct; each action's lemma treats only the places that it changes.

`LInv` says that what is in a place is a frame of that stage.  The ledger needs the
converse, `Known`: a frame whose stage names a place is in it, so that nothing
disappears unnoticed.  Then each place has one frame or none by its stage, and the sum
of the ledger is one or zero.  `NothingOverwritten` is a count: the frames in a topic's
cache are lent, lent frames are in different blocks, and the block of the frame that
is being published is one more, so that a topic is never full when a sample is added.

For the refinement one lemma per action says which step of `FrameLoan` it is, or that
nobody's possession changes.  It also needs to know what a block is whose frame is no
longer lent but that has a reference: `BackInv` says that a buffer which left its slot
before `render()` returned was given back, so that the return, and not the FreeFrame
job, is then the step `Reclaim`.

`AmShMemScmProofs` proves `SizesMatch` and `EachServedOnce` for any number of sources,
pools, restarts and crashes.  `SizeMatchesFd` is about two messages with a possible
announcement between them; the invariant says that the server sends both from one
local copy (`OfferInv`) to the one connection it serves (`ServeInv`, `ConnInv`), and
which thread may be where (`ThreadInv`).  `ServedOnce` is the part of it that another
source would suffer from: no connection is left accepted and open while the server goes
on to the next one.

`UnixFdProofs` proves `UnixFdTypes`, `CapsComeFirst` (`CapsBeforeBuffer`),
`OneCopyPerReference` (`OneReferencePerLoan`) and `NobodyIsDropped` (the action
property `HealthyClientStays`), for any clients, buffers, caps, sockets and faults.
None of them is inductive, because each is about one end of a socket and depends on
what is in it. `CapsInv` follows the caps in force along the commands on their way
(`InForce`): a reader that has come to a buffer has the caps that were sent before it,
and one that has read everything has the sink's, unless they are about to be sent to
it. `LoanInv` has a reference for each copy and a copy for each reference: on its way,
half read, wrapped or on its way back, once (`SentOnce`, `GivenOnce`) and in one place
(`OnePlace`). `RenderInv` is why a copy that is sent is new: whoever is still to be
served does not hold the buffer. From `LoanInv` a RELEASE_BUFFER names a buffer that
is held, so the sink has no reason to drop its client. `ReleasesFit`
(`ReleaseNeverBlocks`) is a count: what is on its way back, with the release that is
being sent (`Back`), is all different buffers, so a socket that holds as many commands
as the pool has buffers has room for it.

`CavalryPoolProofs` proves `PoolTypeCorrect`, `BlocksAccounted` and `LookupsSound`.  The
ledger depends on the slab (`SlabInv`: a slab lives as long as a buffer is out), on
the owners of a block (`OwnerInv`, `DistinctInv`) and on who has marked it
(`MarkedInv`): the table may have stale entries, but not for an address in use.

`CompositorProofs` proves `CompositorTypeCorrect`, `StreamsInStep` (`NoMatchLeftWaiting`
for any number of streams), `QueuesNeverServe` and `FramesAccounted`.

`QueuesNeverServe` says that a frame that waited in a queue is never part of a picture.
`collect()` removes heads only when all match, and all streams are pushed together, so
once the heads differ they differ until the next start.  That a lost frame ends the
composition is thus a theorem; section 5 says what the documentation promises.

`FramesAccounted` is `InputsAccounted`: the references alive are those of the pads, of
the queues and of the picture in hand, each in one of them, along every error path.
They are apart because of the order of arrival (`Counted`): of one stream, the picture
in hand is older than the queue, the queue older than the pad, and the pad no newer
than what was sent.  `InHand` says when there is a picture in hand at all.

`RecordingProofs` proves `DemuxTypeCorrect`, `FlushFinal` and `NothingBeforePlaying`
of `VencDemux` from an invariant that says where `chain()` can stand given `blocked`
(`BlockedInv`), whether the element was ever PLAYING since the buffer came in
(`OpenedInv`), and what `flushing` means at each pc (`FlushInv`).

Its larger part is the event recorder: `CachesKeepTheirLimit` (`CacheBounded`),
`EachSampleOnceInOrder` (`WrittenOnceInOrder`), `FilesStartAtKeyframes`
(`KeyframeFirst`), `NothingAfterTheEnd` (`FileWithinWindow`) and
`NoSampleOfTheWindowIsLost` (the action property `RecordedBeforeDropped`), for any
tracks, any limits of the cache, any triggers, and pads that come, go and become
primary at any moment. The file is written from the cache, and the cache is pruned by
four rules and by marks in it, so that none of the five is inductive. `RecorderInv`
relates the two track by track (`TrackOK`):

- the cache is sorted by time and by serial, and ends with the last sample (`CacheOK`);
- a sample that is marked as written is in the file (`Recorded`);
- a sample that is not marked and belongs to the window comes after everything in the
  file (`Ahead`): this is why an extension of the window, or a second handler, continues
  the file and does not repeat it;
- while the file is empty, the keyframe it will start at is still in the cache, unmarked
  (`StartsKeyed`): pruning a window never reaches it.

To these it adds the limits (`Bounded`) and the end of the window (`Within`).  The handlers
are functions on recorder states, applied one after the other, so most lemmas say of one
function that `RecOK` of its argument gives `RecOK` of its result; the handlers are then
their compositions.  `NoSampleOfTheWindowIsLost` follows from what each function keeps:
a sample that was in the cache is there still or is in the file (`Survives`, `Keeps`).

What `Pushed` and `PruneLimits` compute for a cache of any length is an induction over
data.  It is avoided by the least element of a set of positions: if the loop went wrong
somewhere there would be a first such position, and the definition at that position
and its neighbour contradict it (`Least`; `Loop` and `LoopPicks` for `Pushed`, `Hops` and
`HopsEnd` for `PruneLimits`).

The assumption on constants says that no running time reaches GST_CLOCK_TIME_NONE, the
largest 64-bit value.  Writing the proof showed that `KeyframeFirst` was false with two
video tracks, in behaviours no run has: the primary track changes after a window was
closed, and the property then speaks of a file in which that track was not the primary
one.  So `SetPrimary` now resets the history variable `keyed`.

`IavDecoderProofs` proves `ContextOutlivesHolders` and `BufferDivided` for any number of
elements of both versions and any size of the buffer.  `CountInv` makes `used_num` the
number of holders; `MutexInv` says who can be between `Lock` and `Unlock`; `NumberInv` and
`ModeInv` say that everybody who divides the buffer divides it by one number.  The
parts are `size * id` with `size = BsbSize \div number`, and distinct ids below the number
give disjoint parts (`RegionsInOrder`, by arithmetic on integers).  Writing the proof
showed a case that needs three elements of version 1: two are finalized, the mode is
left under the third while it divides the buffer.  The history variable `raced` now
counts it among the races of the unlocked version, and an instance with three such
elements agrees.

`SplitMuxProofs` proves `NoAssertionFails`: `Spec => []AssertionsHold`, for any streams,
any input in which the reference stream has a buffer, any times, queue sizes and
thresholds, and with split requests, a stop or a file that cannot be opened at any
moment.  `AssertionsHold` speaks of one thread when it stands at an assertion.  It holds
because of what the other threads cannot have done meanwhile: one has the lock at a
time (`OneLocked`); the element waits for a GOP only while the reference stream is at
EOS or is itself held up by that GOP, whose end it has then seen (`GopInv`); so the
head of the list of GOPs is there for whoever comes to take it, and only at EOS is the
last one given away.  `PcInv` says what each pc of an input thread implies.  `OutputInv`
has the types of the output side, which shares the queues and `collect` with it.

`FilesPartition` is `Spec => []FilesPartitionInput`: each stream is in the files once and in
order, all of it when the recording has ended, and every file but the first starts at a
keyframe of the reference stream where all other streams are cut, too.  A buffer passes
two threads, a queue and the muxer before it is in a file, and where it is cut was
decided two hand-overs earlier, so none of this is inductive.  The argument has three
layers, each an invariant that takes the one before it for granted:

- the flow of a stream (`FlowInv`): what is in the files, in the hand of the output
  thread, in the queue and in the hand of the input thread are its buffers from the
  first on, one after the other.  Since the queue also holds EOS and what unblocks
  another stream, the position after each item is given by a function (`Run`), as it
  is for the files (`FileRun`).  `FlowInvariance` and `StreamsInOrder` need no more than
  the type of the input, and hold after a stop and a failed open, too.  Times are exact
  until a stop (`Live`), which takes away the limit in the middle of what the threads do;
- the GOPs (`GopsInv`): `pending_input_gops` are the GOPs of the last buffers of the
  reference stream without a gap, and the limit in every command, and the one the
  output threads obey, is the start of a GOP, or no limit after all streams are at EOS
  (`GopsInvariance`).  A GOP that is taken from the list has all of its B frames, as the
  DTS has passed the PTS of the keyframe after it (`NextIsCut`);
- the output threads (`OutInv`): nothing at or after the limit is written (`ThreadOK`); a
  stream that has sent its EOS to the muxer has written all that is before the limit;
  when the muxer has all of them the file ends, at a cut (`SwitchOK`), and the limit stays
  there until the next file is open.  A stopped sink gives itself no limit and no command
  again (`Stopped`).  What was before a cut when a file ended is what the files before the
  next one hold for ever (`CutInv`).

The theorem has a hypothesis, `Regular`: the reference stream comes in the order of its
DTS, and its GOPs do not overlap in PTS. B frames of an open GOP, shown before their
keyframe, are allowed. `splitmuxsink` does not check it, and without it the property is
false: TLC finds a violation for one GOP that is shown into the next (PTS/DTS 0/0, 3/1,
keyframe 2/2, keyframe 4/4) and for a DTS that goes back (0/0, keyframe 3/3, 2/1,
keyframe 5/5), both with an audio buffer at 2: the cut is inside a GOP, or is known
before a frame that belongs in front of it. `MCSplitMux` has the hypothesis as an
assumption on its inputs, so that the run and the theorem are about the same ones.
`FlowInv`, `GopsInv`, `OutInv` and `CutInv` held in TLC, on the inputs of the run,
before they were proved.

How the concatenation of files, a fold, continues the numbers of a stream is an induction
over its length, and that `RunTime` is the highest PTS so far one over positions.  The
module gets both from the well-foundedness of strict inclusion: a set of naturals that
is not empty has a least element (`Least`), and so a property given by a set is there for
all naturals (`Induction`), with no operator as a parameter.

Every safety invariant that a run checks now has a theorem.  Only model-checked are the
liveness properties: the prover has no rule for fairness or ENABLED.

## 5. Known disagreements

Where the code does something else than its documentation, comments or tests say,
or than one would expect, and the model follows the code.  The first is a run; the
others are stated as properties that no run has, or are excluded by a condition, and
can be reproduced as described.

- **vencdemux, READY from PAUSED** (run `DemuxStop`).  The handler sets `flushing`,
  unschedules the clock ("unlock clock wait", `gstambavencdemux.c:1113`) and signals
  `blocked_cond` after the parent's `change_state()` (line 1096), which waits for the
  `chain()` that these should wake.
- **FreeFrame before hold** (`NoOrphanHold`).  `render()` publishes before it holds; a
  job that runs in between finds no buffer, and the buffer stays held until its slot
  is used again.  `LentFramesReturn` calls this stage "early".
- **Staged frames** (`HeldUntilFreeFrame` with `SlotPolicy = "staged"`).  A software frame is
  staged into new memory, so no pool limits the loans; the slot counter wraps and
  `render()` releases a frame that is still lent.
- **Two releases at a time** (`FreeFrameFaithful`, an action property, with
  `ConcurrentRelease = TRUE`).  All releases fill one `free_frame_msg` without a lock
  (`gstamshmemsrc.c:457`, `gstamshmemsrcbufferpool.c:211`); a second one clears or overwrites
  it between the assignments and the `dds_write` of the first, and what is published is
  the other's or no frame's.  With one release at a time the property holds by
  construction, so that it is neither run nor proved; with two it is false, and the
  theorems about lending assume one.
- **Flush with qdata slots** (`SlotsDistinct` with `MaxFlushes = 1`).  FLUSH_START resets
  the slot counter, the buffers keep their slots, and two buffers get the same.
- **Pool announced once** (`OffsetInMappedPool`).  After upstream changes its pool, a
  source reads offsets of the new pool in the mapping of the old one.
- **munixfd, both sockets full** (`MutualBlock`, the exception of `BuffersReturn`).  The sink
  sends with its object lock held, which its service thread needs to read a release;
  the source releases with its object lock held (`gstmunixfdsrc.c:109`), which `create()`
  needs to go on reading.  If more buffers are under way than the sockets hold commands,
  both wait for ever: `UnixFdTight` gets there, and without the exception violates
  `BuffersReturn`.
- **Event recorder, pre-roll** (`PreRollKept`).  While a window is written the cache is
  pruned to the window's pre-roll and not back to the keyframe before it, so that a
  trigger right after it may have nothing to start from.
- **Event recorder, end of a window** (`PrimaryDrivesEnd`).  The documentation says that the
  primary-pad track "drives running time, window end detection"
  (`gstambaeventrecorder.c:36`), but the clock timer and the EOS of any track end it too.
- **Event recorder, release of a pad**.  `release_pad()` stops the pad's queue with
  `priv->lock` held (`gstambaeventrecorder.c:2147`), and the thread it joins takes that
  lock for every sample: the variable `stuck` shows it.
- **Compositor** (`WaitEndsInMatch`).  Buffers are held "while waiting for matching
  frame_id (no drop until full)" (`gstambacompositor.c:647`), but only heads are
  compared and never dropped: after one lost frame nothing matches any more
  (`QueuesNeverServe`).
- **hwvdecv2, second element** (`PreparedHasRegion`).  `prepare()` skips, without the lock,
  an element whose mode "is already ours" (`gstambahwvdecv2_iav.c:575`), and with it the
  step that gives the element its part of the buffer.  To see it: `V1 = {}`, `V2 = {c, d}`,
  `DecId <- MCTwoIds`, `MaxStarts <- MCTwoStarts`, `NumDecoders = DriverMax = 2`, `BsbSize = 4`.
- **hwvdec (version 1) takes no lock**.  Its check of `decode_mode_entered`
  (`decoder_common.c:192`) and its `leave_decode_mode()` race with elements that enter or
  divide; `RegionsDisjoint` excepts these cases (`raced`).
- **splitmuxsink, max-size-time** (`WithinTimeLimit`).  A FINISH_FRAGMENT command that comes
  before the muxer has taken anything of the file is ignored
  (`gstmsplitmuxsink.c:1445`), and two fragments become one file, longer than
  max-size-time.  Adding `INVARIANT WithinTimeLimit` to `SplitMux.cfg` gives a
  counterexample.
- **splitmuxsink, stop** (exception of its `StopReturns`).  `start_next_fragment()` gives up
  the lock (line 2331) and then sets the state to AWAITING_COMMAND although a stop may
  have set STOPPED; the EOS message of a file (line 2437) sets START_NEXT_FILE likewise.
- **splitmuxsink, by reading only**: a FLUSH of the reference pad while a GOP is being
  collected meets `g_assert (!ctx->is_reference)`; `in_eos` is not reset when the element is
  used again.

## 6. What is left

In the order of what it would add:

1. `SplitMux`: asynchronous finalization, FLUSH and GAP events, pads that come and go;
2. the rings of pictures and bit-stream data inside a decoder's region, if the
   driver's side of them is ever documented.
