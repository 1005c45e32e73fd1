----------------------------- MODULE AmShMemScm -----------------------------
(***************************************************************************)
(* The handshake of POOL_OFFSET mode: amshmem_sink runs a server thread    *)
(* that hands the file descriptor of the upstream pool (SCM_RIGHTS) and    *)
(* then its size to every amshmem_src that connects; the source maps the   *)
(* pool and reads frames at the offsets that AmShMem_Msg names.            *)
(*                                                                         *)
(* Actors: the application that starts and stops the elements, the sink's  *)
(* streaming thread, the server thread, and for each source its            *)
(* amshmem-scm-cli thread and its streaming thread in create().            *)
(***************************************************************************)
EXTENDS Naturals, FiniteSets

CONSTANTS
  Clients,        \* the amshmem_src elements
  MaxSinkStarts,  \* bound: start() calls of the sink
  MaxSrcStarts,   \* bound: start() calls of all sources
  MaxFlushes,     \* bound: FLUSH_START events of the sink
  MaxPools,       \* bound: pools the upstream element allocates in turn
  MaxCrashes,     \* bound: source processes that die
  None

ASSUME ScmAssumption ==
  /\ MaxSinkStarts \in Nat /\ MaxSrcStarts \in Nat /\ MaxFlushes \in Nat
  /\ MaxPools \in Nat \ {0} /\ MaxCrashes \in Nat
  /\ IsFiniteSet(Clients) /\ None \notin Clients \cup Nat

Pools == 1 .. MaxPools
Offers == [fd : Pools, bytes : Pools]    \* pool_fd and pool_bytes, each by its pool

ASSUME NoneIsNoOffer == None \notin Offers

VARIABLES
  srv,         \* the sink's server: "none", "up", "stopping" (in g_thread_join)
  stop, listening, pool_set,     \* fields of GstAmShMemScmServer; pool_set
               \* is the Offer, or None
  spc,         \* server thread: "none", "loop", "check", "wait", "send",
               \* "size", "exit"
  peer, offer, \* the connection it serves; pfd_send and sz_send
  announced,   \* scm_pool_announced
  upstream,    \* the pool the upstream element allocates from now
  el,          \* a source: "null", "run", "leaving", "joining", "dead"
  conn,        \* its connection: "no", "backlog", "accepted", "fd", "size",
               \* "closed"
  got,         \* what it received: the Offer, or None
  th,          \* its amshmem-scm-cli thread: "none", "connect", "recv",
               \* "done"
  shm_ready, shm_mmap,
  cpc,         \* its create(): "out", "wait_shm", "sample", "error"
  sample,      \* the newest AmShMem sample it has not taken: a pool, or None
  published,   \* the sample retained for late joiners: a pool, or None
  sinkStarts, srcStarts, flushes, crashes

serverVars == <<stop, listening, pool_set, spc, peer, offer>>
sinkVars   == <<srv, announced, upstream, published>>
threadVars == <<got, th, shm_ready, shm_mmap>>
budgets    == <<sinkStarts, srcStarts, flushes, crashes>>
vars == <<serverVars, sinkVars, el, conn, threadVars, cpc, sample, budgets>>

Init ==
  /\ srv = "none" /\ stop = FALSE /\ listening = FALSE /\ pool_set = None
  /\ spc = "none" /\ peer = None /\ offer = None
  /\ announced = FALSE /\ upstream = 1 /\ published = None
  /\ el = [c \in Clients |-> "null"] /\ conn = [c \in Clients |-> "no"]
  /\ got = [c \in Clients |-> None] /\ th = [c \in Clients |-> "none"]
  /\ shm_ready = [c \in Clients |-> FALSE]
  /\ shm_mmap = [c \in Clients |-> None]
  /\ cpc = [c \in Clients |-> "out"] /\ sample = [c \in Clients |-> None]
  /\ sinkStarts = 0 /\ srcStarts = 0 /\ flushes = 0 /\ crashes = 0

---------------------------------------------------------------------------
(* amshmem_sink: application and streaming thread *)

\* start(): scm_server_new and scm_server_start.
SinkStart ==
  /\ srv = "none" /\ sinkStarts < MaxSinkStarts
  /\ sinkStarts' = sinkStarts + 1
  /\ srv' = "up" /\ stop' = FALSE /\ listening' = TRUE /\ pool_set' = None
  /\ spc' = "loop" /\ announced' = FALSE
  /\ UNCHANGED <<peer, offer, upstream, published, el, conn, threadVars, cpc,
                 sample, srcStarts, flushes, crashes>>

\* Variants named Bug... are seeded faults; the runs must tell them from the code.
\* No g_cond_broadcast.
BugBroadcast == spc' = spc

\* The condition variable is signalled here and nowhere else.
Broadcast == spc' = IF spc = "wait" THEN "check" ELSE spc

\* render() of the first buffer after start() or FLUSH_START: set_pool.  External:
\* upstream may allocate any buffer from a new pool (a caps change).
Announce ==
  /\ srv = "up" /\ ~announced
  /\ upstream' \in upstream .. MaxPools
  /\ pool_set' = [fd |-> upstream', bytes |-> upstream']
  /\ Broadcast
  /\ announced' = TRUE
  /\ UNCHANGED <<srv, stop, listening, peer, offer, published, el, conn,
                 threadVars, cpc, sample, budgets>>

\* render() goes on to publish an offset into the pool of its buffer.
Publish ==
  /\ srv = "up" /\ announced
  /\ upstream' \in upstream .. MaxPools
  /\ sample' = [c \in Clients |->
                  IF el[c] \in {"run", "leaving"} THEN upstream' ELSE sample[c]]
  /\ published' = upstream'
  /\ UNCHANGED <<serverVars, srv, announced, el, conn, threadVars, cpc, budgets>>

FlushStart ==
  /\ srv = "up" /\ flushes < MaxFlushes
  /\ flushes' = flushes + 1
  /\ announced' = FALSE
  /\ UNCHANGED <<serverVars, srv, upstream, published, el, conn, threadVars, cpc,
                 sample, sinkStarts, srcStarts, crashes>>

\* Closing the listening socket resets the connections nobody accepted.
ResetBacklog ==
  conn' = [c \in Clients |-> IF conn[c] = "backlog" THEN "closed" ELSE conn[c]]

\* stop(), after the streaming thread: scm_server_stop up to the join.
SinkStop ==
  /\ srv = "up"
  /\ srv' = "stopping" /\ stop' = TRUE /\ listening' = FALSE
  /\ ResetBacklog
  /\ UNCHANGED <<pool_set, spc, peer, offer, announced, upstream, published, el,
                 threadVars, cpc, sample, budgets>>

\* g_thread_join returns; the server, with its pool, and the DDS writer are freed.
SinkStopped ==
  /\ srv = "stopping" /\ spc = "exit"
  /\ srv' = "none" /\ spc' = "none" /\ pool_set' = None /\ published' = None
  /\ UNCHANGED <<stop, listening, peer, offer, announced, upstream, el, conn,
                 threadVars, cpc, sample, budgets>>

---------------------------------------------------------------------------
(* scm_server_thread *)

ServerExit ==
  /\ spc = "loop" /\ stop
  /\ spc' = "exit"
  /\ UNCHANGED <<stop, listening, pool_set, peer, offer, sinkVars, el, conn,
                 threadVars, cpc, sample, budgets>>

ServerAccept(c) ==
  /\ spc = "loop" /\ listening /\ conn[c] = "backlog"
  /\ conn' = [conn EXCEPT ![c] = "accepted"]
  /\ peer' = c
  /\ spc' = "check"
  /\ UNCHANGED <<stop, listening, pool_set, offer, sinkVars, el, threadVars, cpc,
                 sample, budgets>>

\* Under the lock: wait for the pool, or read descriptor and size together.
ServerCheck ==
  /\ spc = "check"
  /\ spc' = IF pool_set = None /\ ~stop THEN "wait" ELSE "send"
  /\ offer' = IF stop THEN None ELSE pool_set
  /\ UNCHANGED <<stop, listening, pool_set, peer, sinkVars, el, conn, threadVars,
                 cpc, sample, budgets>>

\* A connection that is not served is not closed.
BugServerSend ==
  /\ spc = "send"
  /\ IF stop \/ offer = None \/ el[peer] = "dead"
       THEN spc' = "loop" /\ peer' = None /\ offer' = None /\ UNCHANGED <<conn, got>>
       ELSE /\ spc' = "size" /\ UNCHANGED <<peer, offer>>
            /\ conn' = [conn EXCEPT ![peer] = "fd"]
            /\ got' = [got EXCEPT ![peer] = offer]
  /\ UNCHANGED <<stop, listening, pool_set, sinkVars, el, th, shm_ready, shm_mmap,
                 cpc, sample, budgets>>

\* After the unlock, stop is read again; a peer that died makes sendmsg fail.
\* peer and offer are locals of the loop's body.
ServerSend ==
  /\ spc = "send"
  /\ IF stop \/ offer = None \/ el[peer] = "dead"
       THEN /\ spc' = "loop" /\ peer' = None /\ offer' = None
            /\ conn' = [conn EXCEPT ![peer] = "closed"]
            /\ UNCHANGED got
       ELSE /\ spc' = "size" /\ UNCHANGED <<peer, offer>>
            /\ conn' = [conn EXCEPT ![peer] = "fd"]
            /\ got' = [got EXCEPT ![peer] = offer]
  /\ UNCHANGED <<stop, listening, pool_set, sinkVars, el, th, shm_ready, shm_mmap,
                 cpc, sample, budgets>>

\* pool_bytes read after the unlock.
BugSizeToSend == pool_set.bytes

\* write of the size that was read under the lock, close.
SizeToSend == offer.bytes
ServerSize ==
  /\ spc = "size"
  /\ spc' = "loop" /\ peer' = None /\ offer' = None
  /\ IF el[peer] = "dead"
       THEN UNCHANGED got /\ conn' = [conn EXCEPT ![peer] = "closed"]
       ELSE /\ conn' = [conn EXCEPT ![peer] = "size"]
            /\ got' = [got EXCEPT ![peer].bytes = SizeToSend]
  /\ UNCHANGED <<stop, listening, pool_set, sinkVars, el, th, shm_ready, shm_mmap,
                 cpc, sample, budgets>>

---------------------------------------------------------------------------
(* amshmem_src *)

\* start(): a new reader may be given the retained sample; the thread is spawned.
SrcStart(c) ==
  /\ el[c] = "null" /\ srcStarts < MaxSrcStarts
  /\ srcStarts' = srcStarts + 1
  /\ el' = [el EXCEPT ![c] = "run"]
  /\ th' = [th EXCEPT ![c] = "connect"]
  /\ shm_ready' = [shm_ready EXCEPT ![c] = FALSE]
  /\ shm_mmap' = [shm_mmap EXCEPT ![c] = None]
  /\ \E m \in {None, published} : sample' = [sample EXCEPT ![c] = m]
  /\ UNCHANGED <<serverVars, sinkVars, conn, got, cpc, sinkStarts, flushes,
                 crashes>>

\* connect() needs a listening socket; a failure is reported like a result.
Connect(c) ==
  /\ th[c] = "connect"
  /\ IF listening
       THEN /\ conn' = [conn EXCEPT ![c] = "backlog"]
            /\ got' = [got EXCEPT ![c] = None]
            /\ th' = [th EXCEPT ![c] = "recv"]
            /\ UNCHANGED shm_ready
       ELSE /\ th' = [th EXCEPT ![c] = "done"]
            /\ shm_ready' = [shm_ready EXCEPT ![c] = TRUE]
            /\ UNCHANGED <<conn, got>>
  /\ UNCHANGED <<serverVars, sinkVars, el, shm_mmap, cpc, sample, budgets>>

\* recvmsg returns the descriptor and recv the size; the pool is mapped, create()
\* woken.
RecvSize(c) ==
  /\ th[c] = "recv" /\ conn[c] = "size"
  /\ th' = [th EXCEPT ![c] = "done"]
  /\ shm_mmap' = [shm_mmap EXCEPT ![c] = got[c]]
  /\ shm_ready' = [shm_ready EXCEPT ![c] = TRUE]
  /\ conn' = [conn EXCEPT ![c] = "no"] /\ got' = [got EXCEPT ![c] = None]
  /\ UNCHANGED <<serverVars, sinkVars, el, cpc, sample, budgets>>

\* A failure is not reported to create().
BugRecvFails(c) ==
  /\ th[c] = "recv" /\ conn[c] = "closed"
  /\ th' = [th EXCEPT ![c] = "done"]
  /\ conn' = [conn EXCEPT ![c] = "no"]
  /\ UNCHANGED <<serverVars, sinkVars, el, got, shm_ready, shm_mmap, cpc, sample,
                 budgets>>

\* recvmsg returns without a descriptor: shm_thread_failed.
RecvFails(c) ==
  /\ th[c] = "recv" /\ conn[c] = "closed"
  /\ th' = [th EXCEPT ![c] = "done"]
  /\ shm_ready' = [shm_ready EXCEPT ![c] = TRUE]
  /\ conn' = [conn EXCEPT ![c] = "no"]
  /\ UNCHANGED <<serverVars, sinkVars, el, got, shm_mmap, cpc, sample, budgets>>

\* create() up to its loop: g_cond_wait for shm_ready, which nothing interrupts.
Create(c) ==
  /\ el[c] \in {"run", "leaving"}
  /\ \/ el[c] = "run" /\ cpc[c] = "out"
     \/ cpc[c] = "wait_shm" /\ shm_ready[c]
  /\ cpc' = [cpc EXCEPT ![c] = IF ~shm_ready[c] THEN "wait_shm"
                               ELSE IF shm_mmap[c] = None THEN "error"
                               ELSE "sample"]
  /\ UNCHANGED <<serverVars, sinkVars, el, conn, threadVars, sample, budgets>>

\* create() takes a sample, wraps the memory at its offset and returns.
Wrap(c) ==
  /\ cpc[c] = "sample" /\ sample[c] # None
  /\ sample' = [sample EXCEPT ![c] = None]
  /\ cpc' = [cpc EXCEPT ![c] = "out"]
  /\ UNCHANGED <<serverVars, sinkVars, el, conn, threadVars, budgets>>

\* The application asks for READY; create() must return first ...
SrcLeave(c) ==
  /\ el[c] = "run"
  /\ el' = [el EXCEPT ![c] = "leaving"]
  /\ UNCHANGED <<serverVars, sinkVars, conn, threadVars, cpc, sample, budgets>>

CreateReturned(c) == cpc[c] # "wait_shm"

\* ... then stop() is called ...
SrcStop(c) ==
  /\ el[c] = "leaving" /\ CreateReturned(c)
  /\ el' = [el EXCEPT ![c] = "joining"]
  /\ cpc' = [cpc EXCEPT ![c] = "out"] /\ sample' = [sample EXCEPT ![c] = None]
  /\ UNCHANGED <<serverVars, sinkVars, conn, threadVars, budgets>>

\* ... joins the amshmem-scm-cli thread, and unmaps the pool.
SrcStopped(c) ==
  /\ el[c] = "joining" /\ th[c] = "done"
  /\ el' = [el EXCEPT ![c] = "null"]
  /\ th' = [th EXCEPT ![c] = "none"]
  /\ shm_mmap' = [shm_mmap EXCEPT ![c] = None]
  /\ shm_ready' = [shm_ready EXCEPT ![c] = FALSE]
  /\ UNCHANGED <<serverVars, sinkVars, conn, got, cpc, sample, budgets>>

\* The process of a source dies; what it had sent to the server stays there.
SrcCrash(c) ==
  /\ el[c] \notin {"null", "dead"} /\ crashes < MaxCrashes
  /\ crashes' = crashes + 1
  /\ el' = [el EXCEPT ![c] = "dead"]
  /\ th' = [th EXCEPT ![c] = "none"] /\ got' = [got EXCEPT ![c] = None]
  /\ shm_ready' = [shm_ready EXCEPT ![c] = FALSE]
  /\ shm_mmap' = [shm_mmap EXCEPT ![c] = None]
  /\ cpc' = [cpc EXCEPT ![c] = "out"] /\ sample' = [sample EXCEPT ![c] = None]
  /\ UNCHANGED <<serverVars, sinkVars, conn, sinkStarts, srcStarts, flushes>>

---------------------------------------------------------------------------
Server == \/ ServerExit \/ \E c \in Clients : ServerAccept(c)
          \/ ServerCheck \/ ServerSend \/ ServerSize
CliThread(c) == Connect(c) \/ RecvSize(c) \/ RecvFails(c)
Streaming(c) == Create(c) \/ Wrap(c)

Next == \/ SinkStart \/ Announce \/ Publish \/ FlushStart
        \/ SinkStop \/ SinkStopped \/ Server
        \/ \E c \in Clients : \/ SrcStart(c) \/ CliThread(c) \/ Streaming(c)
                              \/ SrcLeave(c) \/ SrcStop(c) \/ SrcStopped(c)
                              \/ SrcCrash(c)

Spec == Init /\ [][Next]_vars

\* A process goes on as long as one of its threads can, or the stop() it is in;
\* neither the application nor upstream owes us a step.
SourceGoesOn(c) == CliThread(c) \/ Streaming(c) \/ SrcStop(c) \/ SrcStopped(c)
Fairness ==
  /\ WF_vars(Server \/ SinkStopped)
  /\ \A c \in Clients : WF_vars(SourceGoesOn(c))

FairSpec == Spec /\ Fairness

---------------------------------------------------------------------------
\* Every variable has its type, and a size is only sent after a descriptor.
TypeOK ==
  /\ srv \in {"none", "up", "stopping"}
  /\ stop \in BOOLEAN /\ listening \in BOOLEAN /\ announced \in BOOLEAN
  /\ pool_set \in Offers \cup {None} /\ offer \in Offers \cup {None}
  /\ spc \in {"none", "loop", "check", "wait", "send", "size", "exit"}
  /\ spc = "size" => offer \in Offers
  /\ peer \in Clients \cup {None}
  /\ upstream \in Pools /\ published \in Pools \cup {None}
  /\ el \in [Clients -> {"null", "run", "leaving", "joining", "dead"}]
  /\ conn \in [Clients -> {"no", "backlog", "accepted", "fd", "size", "closed"}]
  /\ got \in [Clients -> Offers \cup {None}]
  /\ th \in [Clients -> {"none", "connect", "recv", "done"}]
  /\ shm_ready \in [Clients -> BOOLEAN]
  /\ shm_mmap \in [Clients -> Offers \cup {None}]
  /\ cpc \in [Clients -> {"out", "wait_shm", "sample", "error"}]
  /\ sample \in [Clients -> Pools \cup {None}]
  /\ sinkStarts \in 0 .. MaxSinkStarts /\ srcStarts \in 0 .. MaxSrcStarts
  /\ flushes \in 0 .. MaxFlushes /\ crashes \in 0 .. MaxCrashes

\* The size a source maps is the size of the pool whose descriptor it got, even
\* if the pool is announced again between the two messages.
SizeMatchesFd ==
  \A c \in Clients : shm_mmap[c] # None => shm_mmap[c].fd = shm_mmap[c].bytes

\* One connection at a time, and none forgotten: a connection that was accepted
\* and has not been answered or closed is the one the server is at work on, also
\* when other sources connect, die or stop and the sink is restarted meanwhile.
ServedOnce ==
  /\ TypeOK
  /\ \A c \in Clients : conn[c] \in {"accepted", "fd"}
       => peer = c /\ spc \in {"check", "wait", "send", "size"}

\* An offset is read in the pool it points into ("byte offsets from mmap base of
\* the pool fd", gstamshmemtypes.h:63).  The code does not keep this (README, "Known
\* disagreements").
OffsetInMappedPool ==
  \A c \in Clients : cpc[c] = "sample" /\ sample[c] # None
     => shm_mmap[c].fd = sample[c]

\* The pool a source waits for; it comes with a buffer, and without one nothing
\* signals the condition variable.
Unannounced == spc = "wait" /\ pool_set = None

\* stop() of the sink returns, unless a source is connected and no buffer was
\* ever rendered.
SinkStopReturns == srv = "stopping" ~> (srv = "none" \/ Unannounced)

\* stop() of a source returns once a pool is known or the server is gone, and so
\* does the create() it has to wait for, which nothing interrupts.  As the
\* application may ask for READY at any moment, create() gets past the handshake
\* also when it does not.
SrcStopReturns ==
  \A c \in Clients : el[c] = "leaving" ~> (el[c] \in {"null", "dead"} \/ Unannounced)
============================================================================
