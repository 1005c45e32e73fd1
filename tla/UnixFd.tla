------------------------------- MODULE UnixFd -------------------------------
(***************************************************************************)
(* munixfdsink lends each GstBuffer it renders to every connected          *)
(* munixfdsrc: it sends the descriptors of the buffer and keeps one        *)
(* reference for each client until that client sends RELEASE_BUFFER or is  *)
(* gone.  The source wraps the descriptors, puts a weak reference on each  *)
(* memory and releases the buffer when the last of them is freed.          *)
(*                                                                         *)
(* Actors: the application (state changes, wait-for-connection), the       *)
(* sink's streaming thread, its service thread, and for each source its    *)
(* streaming thread in create() and the threads downstream that free       *)
(* memories.  GST_OBJECT_LOCK of the sink is held in the states "send",    *)
(* that of a source while it is releasing a buffer: a socket that is full  *)
(* keeps both waiting with their locks held.                               *)
(***************************************************************************)
EXTENDS Naturals, Sequences, FiniteSets

CONSTANTS
  Clients,     \* sessions of munixfdsrc elements, from start() to stop()
  Buffers,     \* the GstBuffers of the upstream pool
  NumMems,     \* n_memory of each buffer
  Cap,         \* messages a socket holds in one direction
  MaxCaps,     \* bound: different caps
  MaxFrames,   \* bound: buffers rendered
  MaxOps,      \* bound: events, state changes and faults
  None

ASSUME UnixFdAssumption ==
  /\ IsFiniteSet(Buffers) /\ Cap \in Nat \ {0} /\ NumMems \in [Buffers -> Nat]
  /\ MaxCaps \in Nat /\ MaxFrames \in Nat /\ MaxOps \in Nat

Caps == 0 .. MaxCaps      \* 0: no caps event yet, sent as the string "NULL"
Commands == [t : {"buffer"}, b : Buffers, caps : Caps] \cup [t : {"caps"}, caps : Caps] \cup [t : {"eos"}]

ASSUME NoneAssumption == None \notin Buffers \cup Clients \cup Commands

VARIABLES
  sink,     \* the sink: "off", "on", "quit" (stop() joins the thread)
  svc,      \* its service thread: "none", "new", "run"
  loop,     \* is_running of its main loop
  caps, wait_for_connection, unlock,    \* fields of GstMUnixFdSink
  mode,     \* of the base class: "playing", "paused", "flushing"
  want,     \* the mode a state change is after, having called unlock(); or None
  rpc,      \* streaming thread: "idle", "render", "wait", "woken", "preroll",
            \* "send"
  cmd, todo,   \* what it sends and the clients not yet served
  eos,      \* EOS has been received
  link,     \* sink's side of a connection: "none", "backlog", "open", "closed"
  held,     \* client->buffers
  src,      \* a source: "none", "run", "paused", "gone"
  create,   \* its create(): "header", "payload", "release", "eos", "error"
  msg,      \* the command whose header it has read
  broken,   \* a payload is left in the socket where a header is expected
  ncaps,    \* the caps it has set
  mems,     \* BufferContext.n_memory, by id; 0 when there is no context
  releasing,   \* the buffer of the RELEASE_BUFFER it is sending, or None
  down, up, \* the two directions of its socket
  frames, ops

sinkVars   == <<sink, svc, loop, wait_for_connection>>
baseVars   == <<unlock, mode, want>>
renderVars == <<rpc, cmd, todo, eos, caps>>
connVars   == <<link, held>>
srcVars    == <<src, create, msg, broken, ncaps, mems, releasing>>
sockets    == <<down, up>>
vars == <<sinkVars, baseVars, renderVars, connVars, srcVars, sockets, frames, ops>>

Init ==
  /\ sink = "off" /\ svc = "none" /\ loop = FALSE
  /\ caps = 0 /\ wait_for_connection \in BOOLEAN /\ unlock = FALSE
  /\ mode = "flushing" /\ want = None
  /\ rpc = "idle" /\ cmd = None /\ todo = {} /\ eos = FALSE
  /\ link = [c \in Clients |-> "none"] /\ held = [c \in Clients |-> {}]
  /\ src = [c \in Clients |-> "none"] /\ create = [c \in Clients |-> "header"]
  /\ msg = [c \in Clients |-> None] /\ broken = [c \in Clients |-> FALSE]
  /\ ncaps = [c \in Clients |-> 0]
  /\ mems = [c \in Clients |-> [b \in Buffers |-> 0]]
  /\ releasing = [c \in Clients |-> None]
  /\ down = [c \in Clients |-> <<>>] /\ up = [c \in Clients |-> <<>>]
  /\ frames = 0 /\ ops = 0

Op == ops < MaxOps /\ ops' = ops + 1

\* The clients of the hash table, and whether the OBJECT_LOCK is free.
Connected == {c \in Clients : link[c] = "open"}
Unlocked == rpc # "send"

\* render() runs with the PREROLL_LOCK of the base class.
PrerollLocked == \/ rpc \in {"render", "wait", "woken"}
                 \/ rpc = "send" /\ cmd.t = "buffer"

\* g_hash_table_remove (clients): the references are dropped, the socket closed.
Remove(C) == /\ link' = [c \in Clients |-> IF c \in C THEN "closed" ELSE link[c]]
             /\ held' = [c \in Clients |-> IF c \in C THEN {} ELSE held[c]]

\* No signal.
BugSignal == UNCHANGED rpc

\* g_cond_signal (wait_for_connection_cond).
Signal == rpc' = IF rpc = "wait" THEN "woken" ELSE rpc

---------------------------------------------------------------------------
(* munixfdsink: application *)

Start ==
  /\ sink = "off"
  /\ sink' = "on" /\ svc' = "new"
  /\ UNCHANGED <<loop, wait_for_connection, baseVars, renderVars, connVars,
                 srcVars, sockets, frames, ops>>

\* g_main_loop_quit: has no effect on a loop that does not run yet.
Stop ==
  /\ sink = "on" /\ mode = "flushing" /\ rpc = "idle" /\ want = None /\ Op
  /\ sink' = "quit" /\ loop' = FALSE
  /\ UNCHANGED <<svc, wait_for_connection, baseVars, renderVars, connVars,
                 srcVars, sockets, frames>>

\* The service thread is joined: listening socket, caps and clients go.
Stopped ==
  /\ sink = "quit" /\ svc = "none"
  /\ sink' = "off" /\ caps' = 0
  /\ Remove({c \in Clients : link[c] \in {"backlog", "open"}})
  /\ UNCHANGED <<svc, loop, wait_for_connection, baseVars, rpc, cmd, todo, eos,
                 srcVars, sockets, frames, ops>>

\* PAUSED to PLAYING, or FLUSH_STOP.
Play ==
  /\ sink = "on" /\ mode # "playing" /\ want = None
  /\ mode = "flushing" => rpc = "idle"
  /\ mode' = "playing" /\ eos' = (eos /\ mode = "paused")
  /\ UNCHANGED <<sinkVars, unlock, want, rpc, cmd, todo, caps, connVars, srcVars,
                 sockets, frames, ops>>

\* unlock(), called before the base class asks for the PREROLL_LOCK.
Unlock ==
  /\ sink = "on" /\ mode # "flushing" /\ want = None /\ Unlocked /\ Op
  /\ want' \in {"paused", "flushing"} \ {mode}
  /\ unlock' = TRUE /\ Signal
  /\ UNCHANGED <<sinkVars, mode, cmd, todo, eos, caps, connVars, srcVars,
                 sockets, frames>>

\* The base class has the PREROLL_LOCK: unlock_stop() and the new mode.
UnlockStop ==
  /\ want # None /\ ~PrerollLocked /\ Unlocked
  /\ unlock' = FALSE /\ mode' = want /\ want' = None
  /\ UNCHANGED <<sinkVars, renderVars, connVars, srcVars, sockets, frames, ops>>

\* wait-for-connection is switched off.
SetNoWait ==
  /\ wait_for_connection /\ Unlocked
  /\ wait_for_connection' = FALSE /\ Signal
  /\ UNCHANGED <<sink, svc, loop, baseVars, cmd, todo, eos, caps, connVars,
                 srcVars, sockets, frames, ops>>

---------------------------------------------------------------------------
(* munixfdsink: streaming thread *)

\* render() gets a buffer nobody else has; the base class lets it in while
\* PLAYING.
Render ==
  /\ rpc = "idle" /\ sink = "on" /\ mode = "playing" /\ ~eos /\ caps # 0
  /\ frames < MaxFrames /\ frames' = frames + 1
  /\ \E b \in Buffers :
       /\ \A c \in Clients : b \notin held[c]
       /\ cmd' = [t |-> "buffer", b |-> b, caps |-> caps]
  /\ rpc' = "render"
  /\ UNCHANGED <<sinkVars, baseVars, todo, eos, caps, connVars, srcVars, sockets,
                 ops>>

\* send_command_to_all goes on with C; when nobody is left, the lock is released
\* and the base class drops its reference to the buffer.
Serve(C, command) == /\ todo' = C
                     /\ rpc' = IF C = {} THEN "idle" ELSE "send"
                     /\ cmd' = IF C = {} THEN None ELSE command

\* The head of the wait loop, with the OBJECT_LOCK.
RenderWait ==
  /\ rpc = "render"
  /\ IF wait_for_connection /\ Connected = {}
     THEN rpc' = "wait" /\ UNCHANGED <<cmd, todo>>
     ELSE Serve(Connected, cmd)
  /\ UNCHANGED <<sinkVars, baseVars, eos, caps, connVars, srcVars, sockets,
                 frames, ops>>

\* unlock is not looked at.
BugRenderWoken ==
  /\ rpc = "woken" /\ rpc' = "render"
  /\ UNCHANGED <<sinkVars, baseVars, cmd, todo, eos, caps, connVars, srcVars,
                 sockets, frames, ops>>

\* After the wait: wait_preroll() when unlock() was called.
RenderWoken ==
  /\ rpc = "woken"
  /\ rpc' = IF unlock THEN "preroll" ELSE "render"
  /\ UNCHANGED <<sinkVars, baseVars, cmd, todo, eos, caps, connVars, srcVars,
                 sockets, frames, ops>>

\* gst_base_sink_wait_preroll returns: OK in PLAYING, else FLUSHING.
RenderPreroll ==
  /\ rpc = "preroll" /\ want = None /\ mode # "paused"
  /\ IF mode = "playing" THEN rpc' = "render" /\ cmd' = cmd
                         ELSE rpc' = "idle" /\ cmd' = None
  /\ UNCHANGED <<sinkVars, baseVars, todo, eos, caps, connVars, srcVars, sockets,
                 frames, ops>>

\* The buffer is only referenced for the first client.
BugKeep(c) == IF cmd.t = "buffer" /\ \A d \in Clients : cmd.b \notin held[d]
              THEN {cmd.b} ELSE {}

\* What send_command_to_all adds to client->buffers.
Keep(c) == IF cmd.t = "buffer" THEN {cmd.b} ELSE {}

\* Room for one more command in the socket.
Room(c) == Len(down[c]) < Cap

\* send_command_to_all, one client: it blocks on a full socket and fails on
\* one whose other end is closed.
SendTo(c) ==
  /\ rpc = "send" /\ c \in todo
  /\ Serve(todo \ {c}, cmd)
  /\ IF src[c] = "gone"
     THEN Remove({c}) /\ UNCHANGED down
     ELSE /\ Room(c)
          /\ down' = [down EXCEPT ![c] = Append(@, cmd)]
          /\ held' = [held EXCEPT ![c] = @ \cup Keep(c)]
          /\ UNCHANGED link
  /\ UNCHANGED <<sinkVars, baseVars, eos, caps, srcVars, up, frames, ops>>

\* event(): CAPS.
CapsEvent ==
  /\ rpc = "idle" /\ sink = "on" /\ mode # "flushing" /\ ~eos /\ Op
  /\ caps' \in Caps \ {0, caps}
  /\ Serve(Connected, [t |-> "caps", caps |-> caps'])
  /\ UNCHANGED <<sinkVars, baseVars, eos, connVars, srcVars, sockets, frames>>

\* event(): EOS; the pad takes no buffers after it.
EosEvent ==
  /\ rpc = "idle" /\ sink = "on" /\ mode # "flushing" /\ ~eos /\ Op
  /\ eos' = TRUE
  /\ Serve(Connected, [t |-> "eos"])
  /\ UNCHANGED <<sinkVars, baseVars, caps, connVars, srcVars, sockets, frames>>

---------------------------------------------------------------------------
(* munixfdsink: service thread *)

SvcRun ==
  /\ svc = "new" /\ svc' = "run" /\ loop' = TRUE
  /\ UNCHANGED <<sink, wait_for_connection, baseVars, renderVars, connVars,
                 srcVars, sockets, frames, ops>>

SvcExit ==
  /\ svc = "run" /\ ~loop /\ svc' = "none"
  /\ UNCHANGED <<sink, loop, wait_for_connection, baseVars, renderVars, connVars,
                 srcVars, sockets, frames, ops>>

\* A new client is not sent the caps.
BugWelcome == <<>>

Welcome == <<[t |-> "caps", caps |-> caps]>>

\* new_client_cb: accept, insert, send the caps, all under the lock.
NewClient(c) ==
  /\ svc = "run" /\ link[c] = "backlog" /\ Unlocked
  /\ IF src[c] = "gone"
     THEN link' = [link EXCEPT ![c] = "closed"] /\ UNCHANGED down
     ELSE /\ link' = [link EXCEPT ![c] = "open"]
          /\ down' = [down EXCEPT ![c] = Welcome]
  /\ Signal
  /\ UNCHANGED <<sinkVars, baseVars, cmd, todo, eos, caps, held, srcVars, up,
                 frames, ops>>

\* incoming_command_cb: RELEASE_BUFFER of an id the client holds; any other id
\* costs it its connection.
IncomingRelease(c) ==
  /\ svc = "run" /\ link[c] = "open" /\ Unlocked /\ up[c] # <<>>
  /\ up' = [up EXCEPT ![c] = Tail(@)]
  /\ IF Head(up[c]) \in held[c]
     THEN held' = [held EXCEPT ![c] = @ \ {Head(up[c])}] /\ UNCHANGED link
     ELSE Remove({c})
  /\ UNCHANGED <<sinkVars, baseVars, renderVars, srcVars, down, frames, ops>>

\* The peer's end is closed and everything it sent has been read.
IncomingClosed(c) ==
  /\ svc = "run" /\ link[c] = "open" /\ Unlocked
  /\ src[c] = "gone" /\ up[c] = <<>>
  /\ Remove({c})
  /\ UNCHANGED <<sinkVars, baseVars, renderVars, srcVars, sockets, frames, ops>>

---------------------------------------------------------------------------
(* munixfdsrc *)

\* start() connects; accept() comes later.
SrcStart(c) ==
  /\ src[c] = "none" /\ sink # "off"
  /\ src' = [src EXCEPT ![c] = "run"]
  /\ link' = [link EXCEPT ![c] = "backlog"]
  /\ UNCHANGED <<sinkVars, baseVars, renderVars, held, create, msg, broken, ncaps, mems,
                 releasing, sockets, frames, ops>>

\* gst_unix_fd_receive_command reads the header.
ReadHeader(c) ==
  /\ src[c] = "run" /\ create[c] = "header" /\ ~broken[c] /\ down[c] # <<>>
  /\ msg' = [msg EXCEPT ![c] = Head(down[c])]
  /\ down' = [down EXCEPT ![c] = Tail(@)]
  /\ create' = [create EXCEPT ![c] = "payload"]
  /\ UNCHANGED <<sinkVars, baseVars, renderVars, connVars, src, broken, ncaps, mems,
                 releasing, up, frames, ops>>

\* Nothing left to read on a connection the sink has closed.
ReadFails(c) ==
  /\ src[c] = "run" /\ create[c] = "header" /\ down[c] = <<>> /\ link[c] = "closed"
  /\ create' = [create EXCEPT ![c] = "error"]
  /\ UNCHANGED <<sinkVars, baseVars, renderVars, connVars, src, msg, broken,
                 ncaps, mems, releasing, sockets, frames, ops>>

\* The bytes of a payload are read as a header: of an unknown command, which
\* is ignored with as many bytes as it asks for, or the read fails.
ReadBroken(c) ==
  /\ src[c] = "run" /\ create[c] = "header" /\ broken[c] /\ down[c] # <<>>
  /\ \/ down' = [down EXCEPT ![c] = Tail(@)] /\ UNCHANGED create
     \/ create' = [create EXCEPT ![c] = "error"] /\ UNCHANGED down
  /\ UNCHANGED <<sinkVars, baseVars, renderVars, connVars, src, msg, broken,
                 ncaps, mems, releasing, up, frames, ops>>

\* Room for one more RELEASE_BUFFER in the socket.
ReleaseRoom(c) == Len(up[c]) < Cap

\* GST_OBJECT_LOCK of the source is free.
SrcUnlocked(c) == releasing[c] = None

\* release_buffer returns and the lock is given up: it blocks on a full socket,
\* unlock() does not cancel it, and on a closed connection the command is lost.
ReleaseSent(c) ==
  /\ src[c] \in {"run", "paused"} /\ releasing[c] # None
  /\ IF link[c] = "closed"
     THEN UNCHANGED up
     ELSE ReleaseRoom(c) /\ up' = [up EXCEPT ![c] = Append(@, releasing[c])]
  /\ releasing' = [releasing EXCEPT ![c] = None]
  /\ create' = [create EXCEPT ![c] = IF @ = "release" THEN "header" ELSE @]
  /\ UNCHANGED <<sinkVars, baseVars, renderVars, connVars, src, msg, broken, ncaps,
                 mems, down, frames, ops>>

\* Buffers without memories are forgotten.
BugNoMemories(b) == FALSE

NoMemories(b) == NumMems[b] = 0

\* create() wraps a NEW_BUFFER under the lock and is called again for the next;
\* a buffer without memories it releases at once.
Wrap(c) ==
  /\ src[c] = "run" /\ create[c] = "payload" /\ msg[c].t = "buffer" /\ SrcUnlocked(c)
  /\ mems' = [mems EXCEPT ![c][msg[c].b] = NumMems[msg[c].b]]
  /\ IF NoMemories(msg[c].b)
     THEN /\ releasing' = [releasing EXCEPT ![c] = msg[c].b]
          /\ create' = [create EXCEPT ![c] = "release"]
     ELSE create' = [create EXCEPT ![c] = "header"] /\ UNCHANGED releasing
  /\ msg' = [msg EXCEPT ![c] = None]
  /\ UNCHANGED <<sinkVars, baseVars, renderVars, connVars, src, broken, ncaps,
                 sockets, frames, ops>>

\* A NEW_BUFFER with the wrong number of descriptors, type or metas.
WrapFails(c) ==
  /\ src[c] = "run" /\ create[c] = "payload" /\ msg[c].t = "buffer" /\ Op
  /\ create' = [create EXCEPT ![c] = "error"] /\ msg' = [msg EXCEPT ![c] = None]
  /\ UNCHANGED <<sinkVars, baseVars, renderVars, connVars, src, broken, ncaps, mems,
                 releasing, sockets, frames>>

SetCaps(c) ==
  /\ src[c] = "run" /\ create[c] = "payload" /\ msg[c].t = "caps"
  /\ ncaps' = [ncaps EXCEPT ![c] = msg[c].caps]
  /\ create' = [create EXCEPT ![c] = "header"] /\ msg' = [msg EXCEPT ![c] = None]
  /\ UNCHANGED <<sinkVars, baseVars, renderVars, connVars, src, broken, mems,
                 releasing, sockets, frames, ops>>

ReceiveEos(c) ==
  /\ src[c] = "run" /\ create[c] = "payload" /\ msg[c].t = "eos"
  /\ create' = [create EXCEPT ![c] = "eos"] /\ msg' = [msg EXCEPT ![c] = None]
  /\ UNCHANGED <<sinkVars, baseVars, renderVars, connVars, src, broken, ncaps, mems,
                 releasing, sockets, frames, ops>>

\* unlock() cancels the reads, also the one between header and payload (EOS has
\* no payload), but no wait for the lock.
SrcUnlock(c) ==
  /\ src[c] = "run" /\ Op
  /\ src' = [src EXCEPT ![c] = "paused"]
  /\ \/ /\ create[c] = "payload"
        /\ broken' = [broken EXCEPT ![c] = @ \/ msg[c].t # "eos"]
        /\ create' = [create EXCEPT ![c] = IF msg[c].t = "eos" THEN "eos" ELSE "header"]
        /\ msg' = [msg EXCEPT ![c] = None]
     \/ /\ create[c] = "payload" => msg[c].t = "buffer" /\ ~SrcUnlocked(c)
        /\ UNCHANGED <<broken, create, msg>>
  /\ UNCHANGED <<sinkVars, baseVars, renderVars, connVars, ncaps, mems, releasing, sockets,
                 frames>>

SrcUnlockStop(c) ==
  /\ src[c] = "paused"
  /\ src' = [src EXCEPT ![c] = "run"]
  /\ UNCHANGED <<sinkVars, baseVars, renderVars, connVars, create, msg, broken,
                 ncaps, mems, releasing, sockets, frames, ops>>

\* The buffer is released with the first of its memories.
BugLastMemory(c, b) == TRUE

\* The memory that is being freed is the last one of b.
LastMemory(c, b) == mems[c][b] = 1

\* Downstream frees a memory: memory_weak_ref_cb takes the lock and keeps it
\* while it releases the buffer.
MemoryWeakRef(c, b) ==
  /\ src[c] \in {"run", "paused"} /\ mems[c][b] > 0 /\ SrcUnlocked(c)
  /\ mems' = [mems EXCEPT ![c][b] = @ - 1]
  /\ IF LastMemory(c, b) THEN releasing' = [releasing EXCEPT ![c] = b]
                         ELSE UNCHANGED releasing
  /\ UNCHANGED <<sinkVars, baseVars, renderVars, connVars, src, create, msg,
                 broken, ncaps, sockets, frames, ops>>

\* stop(), which has to wait for the lock, or the death of the process, which
\* has not: contexts and socket go.
SrcStop(c) ==
  /\ src[c] \in {"run", "paused"} /\ Op
  /\ src' = [src EXCEPT ![c] = "gone"]
  /\ mems' = [mems EXCEPT ![c] = [b \in Buffers |-> 0]]
  /\ releasing' = [releasing EXCEPT ![c] = None]
  /\ msg' = [msg EXCEPT ![c] = None] /\ create' = [create EXCEPT ![c] = "header"]
  /\ down' = [down EXCEPT ![c] = <<>>]
  /\ UNCHANGED <<sinkVars, baseVars, renderVars, connVars, broken, ncaps, up,
                 frames>>

---------------------------------------------------------------------------

Application == Start \/ Stop \/ Stopped \/ Play \/ Unlock \/ UnlockStop \/ SetNoWait
Streaming == \/ Render \/ RenderWait \/ RenderWoken \/ RenderPreroll
             \/ CapsEvent \/ EosEvent \/ \E c \in Clients : SendTo(c)
Service == \/ SvcRun \/ SvcExit
           \/ \E c \in Clients : NewClient(c) \/ IncomingRelease(c) \/ IncomingClosed(c)
Create(c) == \/ ReadHeader(c) \/ ReadFails(c) \/ ReadBroken(c) \/ Wrap(c)
             \/ SetCaps(c) \/ ReceiveEos(c)
Source(c) == \/ SrcStart(c) \/ Create(c) \/ WrapFails(c) \/ SrcUnlock(c)
             \/ SrcUnlockStop(c) \/ SrcStop(c)
             \/ ReleaseSent(c) \/ \E b \in Buffers : MemoryWeakRef(c, b)

Next == Application \/ Streaming \/ Service \/ \E c \in Clients : Source(c)

Spec == Init /\ [][Next]_vars

\* The scheduler runs every thread and downstream frees what it was given.
\* Nothing makes the application act on its own, a paused source resume or one
\* whose task has ended stop.
Rendering == \/ RenderWait \/ RenderWoken \/ RenderPreroll
             \/ \E c \in Clients : SendTo(c)
Reading(c) == Create(c) \/ ReleaseSent(c) \/ \E b \in Buffers : MemoryWeakRef(c, b)

Fairness == /\ WF_vars(UnlockStop \/ Stopped)
            /\ WF_vars(Rendering)
            /\ WF_vars(Service)
            /\ \A c \in Clients : WF_vars(Reading(c))

FairSpec == Spec /\ Fairness

---------------------------------------------------------------------------
(* Properties *)

\* Types; no socket holds more than it can.
TypeOK ==
  /\ sink \in {"off", "on", "quit"} /\ svc \in {"none", "new", "run"}
  /\ loop \in BOOLEAN /\ wait_for_connection \in BOOLEAN /\ unlock \in BOOLEAN
  /\ caps \in Caps /\ eos \in BOOLEAN
  /\ mode \in {"playing", "paused", "flushing"}
  /\ want \in {None, "paused", "flushing"}
  /\ rpc \in {"idle", "render", "wait", "woken", "preroll", "send"}
  /\ cmd \in Commands \cup {None} /\ todo \subseteq Clients
  /\ link \in [Clients -> {"none", "backlog", "open", "closed"}]
  /\ held \in [Clients -> SUBSET Buffers]
  /\ src \in [Clients -> {"none", "run", "paused", "gone"}]
  /\ create \in [Clients -> {"header", "payload", "release", "eos", "error"}]
  /\ msg \in [Clients -> Commands \cup {None}] /\ broken \in [Clients -> BOOLEAN]
  /\ ncaps \in [Clients -> Caps] /\ mems \in [Clients -> [Buffers -> Nat]]
  /\ releasing \in [Clients -> Buffers \cup {None}]
  /\ down \in [Clients -> Seq(Commands)] /\ up \in [Clients -> Seq(Buffers)]
  /\ \A c \in Clients : Len(down[c]) <= Cap /\ Len(up[c]) <= Cap
  /\ frames \in 0 .. MaxFrames /\ ops \in 0 .. MaxOps

\* Where a loan of b to c can be: sent, half read, wrapped, or given back.
Places(c, b) ==
  Cardinality({i \in DOMAIN down[c] : down[c][i].t = "buffer" /\ down[c][i].b = b})
  + Cardinality({i \in DOMAIN up[c] : up[c][i] = b})
  + (IF msg[c] # None /\ msg[c].t = "buffer" /\ msg[c].b = b THEN 1 ELSE 0)
  + (IF mems[c][b] > 0 THEN 1 ELSE 0)
  + (IF releasing[c] = b THEN 1 ELSE 0)

\* The reference that the sink keeps for a client stands for exactly one copy of
\* the buffer on that connection: nothing is released twice, nothing is read
\* without a reference, and a reference without a copy exists only when create()
\* failed or was cancelled in the middle of a command.
OneReferencePerLoan ==
  TypeOK /\ \A c \in Connected, b \in Buffers : src[c] \in {"run", "paused"} =>
    /\ Places(c, b) <= IF b \in held[c] THEN 1 ELSE 0
    /\ b \in held[c] /\ Places(c, b) = 0 => broken[c] \/ create[c] = "error"

\* A buffer reaches a source after the caps that were in force when it was sent,
\* whenever the source connected.
CapsBeforeBuffer ==
  \A c \in Clients : create[c] = "payload" /\ msg[c].t = "buffer" =>
    ncaps[c] = msg[c].caps

\* A source that follows the protocol is not disconnected, whatever happens to
\* the others; only stop() of the sink ends its connection.
HealthyClientStays ==
  [][\A c \in Clients : link[c] = "open" /\ link'[c] = "closed" =>
       src[c] = "gone" \/ sink = "quit"]_vars

\* A source that has stopped to read from its socket, for now or for good.
Deaf(c) == src[c] = "paused" \/ (src[c] = "run" /\ create[c] \in {"eos", "error"})
           \/ broken[c]

\* No source waits in release_buffer, with its lock, for a sink that still reads
\* its socket, as long as the upstream pool has no more buffers than a socket
\* holds commands: the releases under way are of different buffers.
ReleaseNeverBlocks ==
  Cardinality(Buffers) <= Cap =>
    \A c \in Connected : src[c] # "gone" /\ releasing[c] # None => ReleaseRoom(c)

\* Sink and source wait for each other: the sink's streaming thread holds the
\* lock that the service thread needs to read a release, create() the buffer
\* whose lock a release is blocked under, and both sockets are full.
MutualBlock ==
  \E c \in Clients :
    /\ rpc = "send" /\ c \in todo /\ ~Room(c)
    /\ releasing[c] # None /\ ~ReleaseRoom(c)
    /\ create[c] = "release" \/ (create[c] = "payload" /\ msg[c].t = "buffer")

\* Backpressure ends: as long as all sources read, every buffer that was lent
\* comes back to upstream, because each client has released it or is gone,
\* unless a pool that is larger than the sockets leads to the mutual block.  A
\* source that does not read fills its socket and then holds up all of them.
BuffersReturn ==
  \A b \in Buffers :
    (\E c \in Clients : b \in held[c]) ~>
      \/ \A c \in Clients : b \notin held[c]
      \/ \E c \in Clients : Deaf(c)
      \/ Cardinality(Buffers) > Cap /\ MutualBlock

\* A render() that waits for a connection goes on once a source has connected,
\* unless the source is gone before it is accepted.
ClientWakesRender ==
  rpc = "wait" /\ (\E c \in Clients : link[c] = "backlog") ~>
    rpc # "wait" \/ \E c \in Clients : src[c] = "gone"

\* A state change gets render() out of that wait, provided it was waiting
\* already when unlock() was called.
UnlockEndsWait == rpc = "woken" /\ want # None ~> want = None
============================================================================
