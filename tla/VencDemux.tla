----------------------------- MODULE VencDemux -----------------------------
(***************************************************************************)
(* ambavencdemux, src/src/elements/vencdemux/gstambavencdemux.c: the       *)
(* encoded buffers of all streams come in on one sink pad and leave on one *)
(* source pad per stream, each at its time on the pipeline's clock.        *)
(*                                                                         *)
(* Three threads meet here.  The streaming thread runs chain(), which may  *)
(* wait on blocked_cond or on the clock.  The application changes the      *)
(* state.  Upstream flushes from a thread of its own: FLUSH_START overtakes*)
(* the data, FLUSH_STOP waits for chain() to return.  What the base class  *)
(* does with the pads is external: a flushing or inactive sink pad refuses *)
(* buffers, FLUSH_START is forwarded to the source pads one has, and going *)
(* to READY makes the pads inactive and waits for chain().                 *)
(***************************************************************************)
EXTENDS Naturals

CONSTANTS
  Streams,     \* indices of src_pads[]
  MaxArrivals,  \* bounds the buffers that come in
  MaxFlushes,  \* bounds the flushes of upstream
  MaxStarts    \* bounds the times the element leaves READY

ASSUME VencDemuxAssumption ==
  /\ MaxArrivals \in Nat /\ MaxFlushes \in Nat /\ MaxStarts \in Nat
  /\ Streams # {}

VARIABLES
  state,     \* "ready", "paused", "playing" or "stopping": going to READY
  flushing, blocked,
  pads,      \* streams that have a source pad
  padFlush,  \* source pads that refuse data: flushing, or inactive
  segment,   \* format of segment[]: "none", "time" or "undefined"
  pc,        \* chain(): "idle", "start", "routed", "blocked", "clock", "push"
  cur,       \* stream of the buffer in chain()
  woken,     \* blocked_cond was signalled since chain() began to wait
  clock,     \* clock_id: "none", "armed" or "unscheduled"
  fate,      \* of the last buffer: "none" yet, "pushed", "dropped", "refused"
  flush,     \* of upstream: "none", "forward" to the pads, or "started"
  opened,    \* the element was PLAYING at some time since the buffer came in
  buffers, flushes, starts   \* what the bounds count

padVars   == <<pads, padFlush, segment>>
chainVars == <<pc, cur, fate>>
counts    == <<buffers, flushes, starts>>
demuxVars == <<state, flushing, blocked, padVars, chainVars, woken, clock, flush,
               opened, counts>>

(* Types; no clock id outlives the wait it was made for, and no pad is     *)
(* left when the element is READY.                                         *)
DemuxTypeOK ==
  /\ state \in {"ready", "paused", "playing", "stopping"}
  /\ flushing \in BOOLEAN /\ blocked \in BOOLEAN
  /\ pads \subseteq Streams /\ padFlush \subseteq pads
  /\ segment \in [Streams -> {"none", "time", "undefined"}]
  /\ \A s \in pads : segment[s] # "none"
  /\ pc \in {"idle", "start", "routed", "blocked", "clock", "push"}
  /\ cur \in Streams /\ (pc \notin {"idle", "start"} => cur \in pads)
  /\ woken \in BOOLEAN /\ clock \in {"none", "armed", "unscheduled"}
  /\ (clock = "none" <=> pc # "clock")
  /\ fate \in {"none", "pushed", "dropped", "refused"}
  /\ flush \in {"none", "forward", "started"} /\ opened \in BOOLEAN
  /\ buffers \in 0 .. MaxArrivals /\ flushes \in 0 .. MaxFlushes
  /\ starts \in 0 .. MaxStarts
  /\ (state = "ready" => pc = "idle" /\ pads = {})

DemuxInit ==
  /\ state = "ready" /\ flushing = FALSE /\ blocked = FALSE
  /\ pads = {} /\ padFlush = {} /\ segment = [s \in Streams |-> "none"]
  /\ pc = "idle" /\ cur \in Streams /\ woken = FALSE /\ clock = "none"
  /\ fate = "none" /\ flush = "none" /\ opened = FALSE
  /\ buffers = 0 /\ flushes = 0 /\ starts = 0
----------------------------------------------------------------------------
(* chain() and do_sync()                                                    *)

Drop == pc' = "idle" /\ fate' = "dropped" /\ UNCHANGED cur

Arrive(s) ==
  /\ pc = "idle" /\ state \in {"paused", "playing"} /\ flush = "none"
  /\ buffers < MaxArrivals /\ buffers' = buffers + 1
  /\ pc' = "start" /\ cur' = s /\ fate' = "none" /\ opened' = (state = "playing")
  /\ UNCHANGED <<state, flushing, blocked, padVars, woken, clock, flush, flushes,
                 starts>>

(* No meta, a field missing in it, or a stream index out of range.         *)
Reject ==
  /\ pc = "start" /\ Drop
  /\ UNCHANGED <<state, flushing, blocked, padVars, woken, clock, flush, opened,
                 counts>>

(* The first buffer of a stream creates its pad, active, with a segment of *)
(* its own; the segment of a pad of an earlier session is overwritten.     *)
Route ==
  /\ pc = "start" /\ pc' = "routed" /\ pads' = pads \cup {cur}
  /\ segment' = [segment EXCEPT ![cur] = IF cur \in pads THEN @ ELSE "time"]
  /\ UNCHANGED <<state, flushing, blocked, padFlush, cur, fate, woken, clock,
                 flush, opened, counts>>

(* The HEIC dump of the buffer cannot be written.                          *)
DumpFails ==
  /\ pc = "routed" /\ Drop
  /\ UNCHANGED <<state, flushing, blocked, padVars, woken, clock, flush, opened,
                 counts>>

(* The waiting part of do_sync(), under the object lock; a pipeline may    *)
(* run without a clock.                                                    *)
WaitTurn ==
  /\ woken' = FALSE
  /\ \/ flushing /\ Drop /\ UNCHANGED clock
     \/ ~flushing /\ blocked /\ pc' = "blocked" /\ UNCHANGED <<cur, fate, clock>>
     \/ /\ ~flushing /\ ~blocked /\ UNCHANGED <<cur, fate>>
        /\ \/ pc' = "clock" /\ clock' = "armed"
           \/ pc' = "push" /\ UNCHANGED clock

Sync ==
  /\ pc = "routed"
  /\ \/ segment[cur] = "time" /\ WaitTurn
     \/ segment[cur] # "time" /\ pc' = "push" /\ UNCHANGED <<cur, fate, woken, clock>>
  /\ UNCHANGED <<state, flushing, blocked, padVars, flush, opened, counts>>

(* g_cond_wait() returns, signalled or not.                                *)
Wake ==
  /\ pc = "blocked" /\ WaitTurn
  /\ UNCHANGED <<state, flushing, blocked, padVars, flush, opened, counts>>

(* The time has come, or the wait was unscheduled.                         *)
ClockDone ==
  /\ pc = "clock" /\ clock' = "none"
  /\ \/ (clock = "unscheduled" \/ flushing) /\ Drop
     \/ /\ clock # "unscheduled" /\ ~flushing /\ pc' = "push"
        /\ UNCHANGED <<cur, fate>>
  /\ UNCHANGED <<state, flushing, blocked, padVars, woken, flush, opened, counts>>

(* The pad may be linked or not; a linked one may refuse.  The buffer of a *)
(* refused push is unreferenced here although the push has taken it.       *)
Push ==
  /\ pc = "push" /\ pc' = "idle"
  /\ \/ fate' = "pushed" /\ cur \notin padFlush
     \/ fate' \in {"refused", "dropped"}
  /\ UNCHANGED <<state, flushing, blocked, padVars, cur, woken, clock, flush,
                 opened, counts>>

Chain == Reject \/ Route \/ DumpFails \/ Sync \/ ClockDone \/ Push
----------------------------------------------------------------------------
(* Events of upstream                                                       *)

BugSignal == woken' = woken
Signal == woken' = (woken \/ pc = "blocked")

Unschedule == clock' = IF clock = "armed" THEN "unscheduled" ELSE clock

BugFlushStart ==
  /\ flush = "none" /\ state \in {"paused", "playing"} /\ flushes < MaxFlushes
  /\ flush' = "forward" /\ flushes' = flushes + 1
  /\ Signal /\ Unschedule
  /\ UNCHANGED <<state, flushing, blocked, padVars, chainVars, opened, buffers,
                 starts>>
(* FLUSH_START: the sink pad refuses buffers from now on, and chain() is   *)
(* told to give up the one it has.                                         *)
FlushStart ==
  /\ flush = "none" /\ state \in {"paused", "playing"} /\ flushes < MaxFlushes
  /\ flush' = "forward" /\ flushes' = flushes + 1
  /\ flushing' = TRUE /\ Signal /\ Unschedule
  /\ UNCHANGED <<state, blocked, padVars, chainVars, opened, buffers, starts>>

(* gst_pad_event_default(): the event is pushed on the pads there are now. *)
FlushForward ==
  /\ flush = "forward" /\ flush' = "started" /\ padFlush' = pads
  /\ UNCHANGED <<state, flushing, blocked, pads, segment, chainVars, woken, clock,
                 opened, counts>>

(* FLUSH_STOP waits for chain().  Every segment loses its format, and the  *)
(* SEGMENT event that follows is pushed on without being stored: nothing   *)
(* is synchronised on these pads from now on.  A sink pad that is inactive *)
(* by now refuses the event.                                               *)
FlushStop ==
  /\ flush = "started" /\ pc = "idle" /\ flush' = "none"
  /\ \/ /\ state \in {"paused", "playing"} /\ flushing' = FALSE /\ padFlush' = {}
        /\ segment' = [s \in Streams |->
                         IF segment[s] = "none" THEN "none" ELSE "undefined"]
     \/ state \notin {"paused", "playing"} /\ UNCHANGED <<flushing, padFlush, segment>>
  /\ UNCHANGED <<state, blocked, pads, chainVars, woken, clock, opened, counts>>
----------------------------------------------------------------------------
(* change_state()                                                           *)

BugReadyToPaused ==
  /\ state = "ready" /\ flush = "none" /\ starts < MaxStarts
  /\ state' = "paused" /\ starts' = starts + 1
  /\ flushing' = FALSE
  /\ UNCHANGED <<blocked, padVars, chainVars, woken, clock, flush, opened, buffers,
                 flushes>>
(* Upstream has ended its flush before the pipeline starts again.          *)
ReadyToPaused ==
  /\ state = "ready" /\ flush = "none" /\ starts < MaxStarts
  /\ state' = "paused" /\ starts' = starts + 1
  /\ flushing' = FALSE /\ blocked' = TRUE
  /\ UNCHANGED <<padVars, chainVars, woken, clock, flush, opened, buffers, flushes>>

PausedToPlaying ==
  /\ state = "paused" /\ state' = "playing"
  /\ blocked' = FALSE /\ opened' = TRUE /\ Signal
  /\ UNCHANGED <<flushing, padVars, chainVars, clock, flush, counts>>

PlayingToPaused ==
  /\ state = "playing" /\ state' = "paused" /\ blocked' = TRUE
  /\ UNCHANGED <<flushing, padVars, chainVars, woken, clock, flush, opened, counts>>

(* The parent's change_state() makes the pads inactive ...                 *)
PausedToReady ==
  /\ state = "paused" /\ state' = "stopping" /\ padFlush' = pads
  /\ UNCHANGED <<flushing, blocked, pads, segment, chainVars, woken, clock, flush,
                 opened, counts>>

(* ... and waits for chain(); only then the element removes its pads and   *)
(* tells a chain() that can no longer be there to give up.                 *)
PausedToReadyDone ==
  /\ state = "stopping" /\ pc = "idle" /\ state' = "ready"
  /\ pads' = {} /\ padFlush' = {} /\ flushing' = TRUE /\ blocked' = FALSE
  /\ Signal /\ Unschedule
  /\ UNCHANGED <<segment, chainVars, flush, opened, counts>>
----------------------------------------------------------------------------
DemuxNext ==
  \/ \E s \in Streams : Arrive(s)
  \/ Reject \/ Route \/ DumpFails \/ Sync \/ Wake \/ ClockDone \/ Push
  \/ FlushStart \/ FlushForward \/ FlushStop
  \/ ReadyToPaused \/ PausedToPlaying \/ PlayingToPaused
  \/ PausedToReady \/ PausedToReadyDone

DemuxSpec == DemuxInit /\ [][DemuxNext]_demuxVars

(* chain() goes on: the clock reaches every time stamp, downstream takes or*)
(* refuses a buffer.  A waiting chain() runs again once it was signalled.  *)
(* Upstream and the application owe nothing, but a state change that can   *)
(* end does.                                                               *)
FairSpec ==
  /\ DemuxSpec /\ WF_demuxVars(Chain) /\ WF_demuxVars(woken /\ Wake)
  /\ WF_demuxVars(FlushForward) /\ WF_demuxVars(PausedToReadyDone)
----------------------------------------------------------------------------
Delivered == fate # "pushed" /\ fate' = "pushed"

(* When FLUSH_START has gone through, no buffer of before the flush comes  *)
(* out: existing pads refuse it, and on a pad that chain() creates during  *)
(* the flush do_sync() drops it (lines 774, 782 and 834).                  *)
FlushIsFinal == [][flush = "started" => ~Delivered]_demuxVars

(* A buffer comes out only when the element was PLAYING at some time since *)
(* the buffer came in, whatever wakes chain() (line 779): except on a pad  *)
(* that was flushed, where nothing is synchronised any more (line 685).    *)
PausedHolds == [][Delivered => opened \/ segment[cur] = "undefined"]_demuxVars

(* A chain() that waits is let go: by a flush from either wait, also in    *)
(* PAUSED (line 672), because the FLUSH_STOP that follows waits for it;    *)
(* and by PLAYING (line 1088), unless the element leaves PLAYING again     *)
(* first.                                                                  *)
WaitEnds ==
  /\ (flushing /\ pc = "blocked") ~> (pc = "idle")
  /\ (pc = "blocked" /\ state = "playing") ~> (pc # "blocked" \/ state # "playing")

(* READY is reached (lines 1096 and 1111-1117).  The code does not         *)
(* guarantee it: a chain() that waits for PLAYING is told to give up only  *)
(* after the parent's change_state() has waited for it.                    *)
StopReturns == (state = "stopping") ~> (state = "ready")
============================================================================
