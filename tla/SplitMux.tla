------------------------------ MODULE SplitMux ------------------------------
(***************************************************************************)
(* splitmuxsink cuts its streams into files.  Each stream has a queue, a   *)
(* thread of the upstream that fills it (handle_mq_input) and a thread     *)
(* that takes items to the muxer (handle_mq_output).  The input side       *)
(* collects one GOP of the reference stream and what the others have for   *)
(* the same time, and then sends commands to the output side: release this *)
(* GOP, or finish the file first.  The output threads of a file that ends  *)
(* each send EOS to the muxer; when it has drained, the one of the         *)
(* reference stream opens the next file.                                   *)
(*                                                                         *)
(* A thread that is at a pc of Locked holds splitmux->lock, and nobody     *)
(* else moves.  The muxer is external: one buffer per pad, the earliest is *)
(* taken once every pad has one or is at EOS.  Times are running times.    *)
(* Variants named Bug... are seeded faults, for the runs to find.          *)
(***************************************************************************)
EXTENDS Integers, Sequences, SequencesExt, FiniteSetsExt

CONSTANTS
  Streams, Ref,   \* contexts, reference_ctx
  Inputs,         \* what upstream may send: per stream a sequence of buffers
  Threshold,      \* threshold_time, 0 for none
  QueueSize,      \* max-size-buffers of the queues at the start
  Disturbed,      \* bound: inputs with split requests, a stop, and files that
                  \* cannot be opened
  MaxRequests     \* bound: split requests

NoTime == -1       \* GST_CLOCK_STIME_NONE, less than all others
MaxTime == 1000    \* G_MAXINT64
Times == 0 .. MaxTime - 1

ASSUME SplitMuxAssumption ==
  /\ Ref \in Streams
  /\ Inputs \subseteq [Streams -> Seq([pts : Times, dts : Times, key : BOOLEAN])]
  /\ \A input \in Inputs : input[Ref] # <<>>
  /\ Threshold \in Nat /\ QueueSize \in Nat \ {0}
  /\ Disturbed \subseteq Inputs /\ MaxRequests \in Nat

VARIABLES
  input,     \* the one of Inputs that this behaviour is about
  in,        \* input threads: pc, buffers received, in_running_time, DTS and
             \* keyframe of the buffer in hand, in_eos, need_unblock
  collect,   \* input side of the element: input_state, max_in_running_time and
             \* its DTS, fragment_start_time, pending_input_gops, whether
             \* fragment_reference_bytes > 0, and the split requests
  queue,     \* per stream: items, max-size-buffers, what handle_q_overrun has read
             \* of it, length of queued_bufs
  out,       \* output threads: pc, item, out_running_time, out_eos, EOS on srcpad
  output,    \* output side: output_state, max_out_running_time, out_cmd_q,
             \* muxed_out_bytes > 0, ready_for_output, queued_keyframes
  mux,       \* muxer pads: the buffer there (0 if none), EOS
  files,     \* history: per file and stream the buffers that the muxer got
  drained,   \* the sink has posted EOS for the current file
  ended,     \* the EOS of the recording has been passed on
  async_pending, stop, failed, requests

vars == <<input, in, collect, queue, out, output, mux, files, drained, ended,
          async_pending, stop, failed, requests>>

Lesser(a, b)  == IF a <= b THEN a ELSE b
Greater(a, b) == IF a >= b THEN a ELSE b

Locked == {"loop", "check", "collect", "pass", "out", "command"}
Free == \A s \in Streams : in[s].pc \notin Locked /\ out[s].pc \notin Locked

Init ==
  /\ input \in Inputs
  /\ in = [s \in Streams |-> [pc |-> "idle", n |-> 0, rt |-> NoTime, dts |-> NoTime,
                              key |-> FALSE, eos |-> FALSE, unblock |-> FALSE]]
  /\ collect = [state |-> "collecting", max |-> NoTime, maxDts |-> NoTime,
                start |-> NoTime, gops |-> <<>>, ref |-> FALSE,
                splitNext |-> FALSE, splitAfter |-> FALSE, splitAt |-> <<>>]
  /\ queue = [s \in Streams |-> [items |-> <<>>, limit |-> QueueSize, seen |-> QueueSize,
                                 queued |-> 0]]
  /\ out = [s \in Streams |-> [pc |-> "idle", item |-> <<>>, rt |-> NoTime,
                               eos |-> FALSE, padEos |-> FALSE]]
  /\ output = [state |-> "next_file", max |-> NoTime, cmds |-> <<>>, muxed |-> FALSE,
               ready |-> FALSE, keys |-> 0]
  /\ mux = [s \in Streams |-> [buf |-> 0, eos |-> FALSE]]
  /\ files = <<>> /\ drained = FALSE /\ ended = FALSE
  /\ async_pending = TRUE /\ stop = "no" /\ failed = FALSE /\ requests = 0

WakeInput(f) ==
  [s \in Streams |-> [f[s] EXCEPT !.pc = CASE @ = "wait" -> "woken"
                                          [] @ = "gopwait" -> "gopwoken"
                                          [] OTHER -> @]]
WakeOutput(f) ==
  [s \in Streams |-> [f[s] EXCEPT !.pc = CASE @ = "wait" -> "woken"
                                          [] @ = "cmdwait" -> "cmdwoken"
                                          [] OTHER -> @]]
At(f, s, pc) == [f EXCEPT ![s].pc = pc]

-----------------------------------------------------------------------------
(* Input threads.                                                          *)

Gops == collect.gops
HasNext == Len(Gops) > 1
muxVars == <<mux, files, drained, ended, async_pending>>
outputVars == <<out, output, muxVars>>
appVars == <<input, stop, failed, requests>>

\* The first buffer of the reference stream starts the first file; each
\* keyframe starts a GOP.  A GOP starts at its earliest PTS.
Tracked(b, dts) ==
  LET first == collect.start = NoTime \/ collect.start > b.pts
      gop == [start |-> b.pts, pts |-> b.pts, bytes |-> FALSE, ref |-> FALSE]
  IN  [collect EXCEPT
         !.start  = IF first THEN b.pts ELSE @,
         !.max    = IF first THEN Greater(@, b.pts) ELSE @,
         !.maxDts = IF first /\ @ = NoTime THEN dts ELSE @,
         !.gops   = IF Gops = <<>> \/ b.key THEN Append(@, gop)
                    ELSE [Gops EXCEPT ![Len(Gops)].start = Lesser(@, b.pts)]]

Arrive(s) ==
  /\ Free /\ in[s].pc = "idle" /\ in[s].n < Len(input[s])
  /\ \/ /\ collect.state = "stopped"
        /\ in' = At(in, s, "done") /\ UNCHANGED collect
     \/ LET b == input[s][in[s].n + 1]
            dts == Lesser(b.pts, b.dts)
        IN  /\ collect.state # "stopped"
            /\ in' = [in EXCEPT ![s] = [in[s] EXCEPT
                        !.pc = "loop", !.n = @ + 1, !.rt = Greater(@, b.pts),
                        !.dts = dts, !.key = FALSE]]
            /\ collect' = IF s = Ref THEN Tracked(b, dts) ELSE collect
  /\ UNCHANGED <<queue, outputVars, appVars>>

\* The reference stream passes its buffers on until it is known where the next GOP
\* starts; this buffer then waits for the GOP before it to be collected.
CollectReference(s) ==
  LET grown == [collect EXCEPT !.max = Greater(@, in[s].rt),
                               !.maxDts = Greater(@, in[s].dts)]
      known == HasNext /\ in[s].dts >= Gops[2].pts
  IN
  /\ s = Ref /\ in[s].pc = "loop" /\ collect.state = "collecting"
  /\ collect' = IF known THEN [grown EXCEPT !.state = "waiting"] ELSE grown
  /\ in' = WakeInput([in EXCEPT ![s].pc = IF known THEN "check" ELSE "pass",
                                ![s].key = HasNext /\ input[s][in[s].n].key])
  /\ UNCHANGED <<queue, outputVars, appVars>>

\* The others follow it up to the time it has reached.
CollectOther(s) ==
  /\ s # Ref /\ in[s].pc = "loop"
  /\ collect.state \in {"collecting", "waiting"}
  /\ in' = At(in, s, IF in[s].rt < collect.max THEN "pass"
                     ELSE IF collect.state = "waiting" THEN "check" ELSE "wait")
  /\ UNCHANGED <<collect, queue, outputVars, appVars>>

PassUncollected(s) ==
  /\ in[s].pc = "loop" /\ collect.state \in {"finishing", "stopped"}
  /\ in' = At(in, s, "pass")
  /\ UNCHANGED <<collect, queue, outputVars, appVars>>

\* Where a thread goes on after check_completed_gop.
Checked(s) == IF in[s].eos THEN "queue" ELSE IF s = Ref THEN "pass" ELSE "loop"

\* need_unblock: an event through the queue takes the output thread of a stream
\* that has nothing else to send past the end of the GOP.
Unblock(s) ==
  /\ in[s].pc = "check"
  /\ \/ /\ in[s].unblock
        /\ queue' = [queue EXCEPT ![s].items =
                        Append(@, [kind |-> "unblock", rt |-> collect.max])]
        /\ in' = At(in, s, "unblocked")
     \/ ~in[s].unblock /\ in' = At(in, s, "collect") /\ UNCHANGED queue
  /\ UNCHANGED <<collect, outputVars, appVars>>

AfterUnblock(s) ==
  /\ Free /\ in[s].pc = "unblocked"
  /\ in' = WakeInput([in EXCEPT ![s].unblock = FALSE,
             ![s].pc = IF collect.state = "waiting" THEN "collect" ELSE Checked(s)])
  /\ UNCHANGED <<collect, queue, outputVars, appVars>>

NextStart == IF HasNext THEN Gops[2].start ELSE collect.max
BugNewMaxOut == IF HasNext /\ ~in[Ref].eos THEN Gops[2].pts ELSE MaxTime
NewMaxOut == IF HasNext /\ ~in[Ref].eos THEN Gops[2].start ELSE MaxTime
DtsPassed == HasNext /\ ~in[Ref].eos => collect.maxDts >= Gops[2].pts
Complete ==
  DtsPassed /\ \A s \in Streams : in[s].rt >= NextStart \/ in[s].eos

\* A file is finished before the GOP that would make it too long, or at a request,
\* but not when it has nothing of the reference stream.
SplitAtReached == collect.splitAt # <<>> /\ Head(Gops).start >= Head(collect.splitAt)
NeedNewFragment(time) ==
  /\ collect.ref
  /\ collect.splitNext \/ SplitAtReached \/ (Threshold > 0 /\ time > Threshold)

\* handle_gathered_gop
GopGathered ==
  LET gop   == Head(Gops)
      split == NeedNewFragment(Greater(NextStart, collect.start) - collect.start)
      Later(t) == t > gop.start
      later == SelectInSeq(collect.splitAt, Later)
  IN
  /\ collect' = [collect EXCEPT
       !.state = IF NewMaxOut # MaxTime THEN "collecting" ELSE "finishing",
       !.start = IF split THEN gop.start ELSE @,
       !.ref   = (@ /\ ~split) \/ gop.ref,
       !.gops  = Tail(@),
       !.splitNext  = (@ /\ ~split) \/ collect.splitAfter,
       !.splitAfter = FALSE,
       !.splitAt = IF ~collect.ref \/ collect.splitNext THEN @
                   ELSE IF later = 0 THEN <<>> ELSE SubSeq(@, later, Len(@))]
  /\ output' = [output EXCEPT
       !.cmds = @ \o (IF split THEN << [kind |-> "finish"] >> ELSE <<>>)
                  \o (IF gop.bytes THEN << [kind |-> "release", max |-> NewMaxOut] >>
                      ELSE <<>>)]
  /\ out' = IF split \/ gop.bytes THEN WakeOutput(out) ELSE out

CollectGop(s) ==
  /\ in[s].pc = "collect"
  /\ \/ /\ Complete /\ GopGathered
        /\ in' = WakeInput([t \in Streams |-> [in[t] EXCEPT
                   !.unblock = TRUE, !.pc = IF t = s THEN Checked(s) ELSE @]])
     \/ /\ ~Complete
        /\ in' = At(in, s, IF DtsPassed /\ ~in[s].eos /\ in[s].rt >= NextStart
                           THEN "gopwait" ELSE Checked(s))
        /\ UNCHANGED <<collect, out, output>>
  /\ UNCHANGED <<queue, muxVars, appVars>>

BugWakeIn(s) ==
  /\ Free /\ in[s].pc \in {"woken", "gopwoken"}
  /\ in' = At(in, s, IF in[s].pc = "woken" THEN "loop" ELSE "collect")
  /\ UNCHANGED <<collect, queue, outputVars, appVars>>
WakeIn(s) ==
  /\ Free
  /\ \/ in[s].pc = "woken" /\ in' = At(in, s, "loop")
     \/ /\ in[s].pc = "gopwoken"
        /\ in' = At(in, s, IF collect.state = "waiting" THEN "collect"
                           ELSE Checked(s))
  /\ UNCHANGED <<collect, queue, outputVars, appVars>>

\* The buffer is accounted to the last GOP and goes into the queue.
Pass(s) ==
  /\ in[s].pc = "pass" /\ in' = At(in, s, "queue")
  /\ queue' = [queue EXCEPT ![s].queued = @ + 1]
  /\ output' = [output EXCEPT !.keys = IF in[s].key THEN @ + 1 ELSE @]
  /\ collect' = IF collect.state \in {"finishing", "stopped"} THEN collect
                ELSE LET gop == [Last(Gops) EXCEPT !.bytes = TRUE, !.ref = @ \/ s = Ref]
                     IN  [collect EXCEPT !.gops[Len(Gops)] = gop]
  /\ UNCHANGED <<out, muxVars, appVars>>

InputEos(s) ==
  /\ Free /\ in[s].pc = "idle" /\ in[s].n = Len(input[s])
  /\ LET atEos == [in EXCEPT ![s].eos = TRUE]
         checks == s = Ref \/ (collect.state = "waiting" /\ Gops # <<>>)
         next == At(atEos, s, IF checks THEN "check" ELSE "queue")
     IN  \/ /\ collect.state = "stopped"
            /\ in' = At(atEos, s, "done") /\ UNCHANGED collect
         \/ /\ collect.state # "stopped"
            /\ in' = IF s = Ref THEN WakeInput(next) ELSE next
            /\ collect' = IF s = Ref THEN [collect EXCEPT !.state = "waiting"]
                          ELSE collect
  /\ UNCHANGED <<queue, outputVars, appVars>>

-----------------------------------------------------------------------------
(* Queues.  Only buffers count.                                            *)

IsBuffer(item) == item.kind = "buffer"
Full(s) == Len(SelectSeq(queue[s].items, IsBuffer)) >= queue[s].limit

Enqueue(s) ==
  /\ Free /\ in[s].pc \in {"queue", "full"} /\ (in[s].eos \/ ~Full(s))
  /\ queue' = [queue EXCEPT ![s].items = Append(@,
       IF in[s].eos THEN [kind |-> "eos"]
       ELSE [kind |-> "buffer", n |-> in[s].n, rt |-> in[s].rt,
             key |-> in[s].key])]
  /\ in' = At(in, s, IF in[s].eos THEN "done" ELSE "idle")
  /\ UNCHANGED <<collect, outputVars, appVars>>

\* A full queue asks once whether it may grow.
MayGrow(s) ==
  \/ output.keys < 2 \/ output.cmds = <<>>
  \/ \E t \in Streams \ {s} : queue[t].queued = 0
BugOverrun(s) ==
  /\ Free /\ in[s].pc = "queue" /\ ~in[s].eos /\ Full(s)
  /\ in' = At(in, s, IF output.keys < 1 THEN "grow" ELSE "full")
  /\ UNCHANGED <<collect, queue, outputVars, appVars>>
Overrun(s) ==
  /\ Free /\ in[s].pc = "queue" /\ ~in[s].eos /\ Full(s)
  /\ in' = At(in, s, IF MayGrow(s) THEN "grow" ELSE "full")
  /\ UNCHANGED <<collect, queue, outputVars, appVars>>

\* It then grows by one what it reads, without the lock: what grow_blocked_queues
\* sets between the two is lost.
ReadLimit(s) ==
  /\ Free /\ in[s].pc = "grow" /\ in' = At(in, s, "set")
  /\ queue' = [queue EXCEPT ![s].seen = queue[s].limit]
  /\ UNCHANGED <<collect, outputVars, appVars>>

SetLimit(s) ==
  /\ Free /\ in[s].pc = "set" /\ in' = At(in, s, "full")
  /\ queue' = [queue EXCEPT ![s].limit = queue[s].seen + 1]
  /\ UNCHANGED <<collect, outputVars, appVars>>

\* grow_blocked_queues
Grown ==
  [s \in Streams |-> [queue[s] EXCEPT !.limit = Greater(@, queue[s].queued + 1)]]

\* An empty queue says so once.
Underrun(s) ==
  /\ Free /\ out[s].pc = "idle" /\ queue[s].items = <<>>
  /\ queue' = Grown /\ out' = At(out, s, "starved")
  /\ UNCHANGED <<in, collect, output, muxVars, appVars>>

-----------------------------------------------------------------------------
(* Output threads.                                                         *)

\* The queue hands an item to the probe of its source pad, and nothing that others
\* could see lies between the two.  When nothing is left of queued_bufs, or the
\* element has stopped, the thread ends.
Probe(s) ==
  LET item == Head(queue[s].items)
      taken == [out EXCEPT ![s].item = item, ![s].padEos = @ \/ item.kind = "eos"]
      rest == [queue EXCEPT ![s].items = Tail(@)]
      popped(k) == k - (IF s = Ref /\ item.key /\ k > 0 THEN 1 ELSE 0)
      stopped == output.state = "stopped"
  IN
  /\ Free /\ out[s].pc \in {"idle", "starved"} /\ queue[s].items # <<>>
  /\ \/ /\ item.kind = "buffer" /\ queue[s].queued = 0
        /\ out' = At(taken, s, "done") /\ queue' = rest /\ UNCHANGED output
     \/ /\ item.kind = "buffer" /\ queue[s].queued > 0
        /\ queue' = [rest EXCEPT ![s].queued = @ - 1]
        /\ output' = [output EXCEPT !.keys = popped(@)]
        /\ out' = [taken EXCEPT ![s].rt = item.rt, ![s].pc = "out"]
     \/ /\ item.kind = "unblock" /\ queue' = rest /\ UNCHANGED output
        /\ out' = [taken EXCEPT ![s].rt = IF stopped THEN @ ELSE item.rt,
                              ![s].pc = IF stopped \/ s = Ref THEN "idle" ELSE "out"]
     \/ /\ item.kind = "eos" /\ queue' = rest
        /\ LET next == [taken EXCEPT ![s].eos = @ \/ ~stopped,
                                   ![s].pc = IF stopped THEN "done" ELSE "out"]
               ends == s = Ref /\ ~stopped
           IN  /\ out' = IF ends THEN WakeOutput(next) ELSE next
               /\ output' = IF ends THEN [output EXCEPT !.state = "ending_stream"]
                            ELSE output
  /\ UNCHANGED <<in, collect, muxVars, appVars>>

\* complete_or_wait_on_out.  The reference stream opens the first file.
CanOutput(s) == s = Ref \/ output.ready
InTime(s) == output.max # NoTime /\ out[s].rt < output.max
AtLimit(s, state) ==
  out[s].pc = "out" /\ output.state = state /\ CanOutput(s) /\ ~InTime(s)

Flushed(s) ==
  /\ out[s].pc = "out" /\ output.state = "stopped"
  /\ out' = At(out, s, "done")
  /\ UNCHANGED <<in, collect, queue, output, muxVars, appVars>>

Sent(s) == IF out[s].item.kind = "unblock" THEN "idle" ELSE "push"
Send(s) ==
  /\ out[s].pc = "out" /\ output.state # "stopped"
  /\ CanOutput(s) /\ (InTime(s) \/ (output.state = "ending_stream" /\ out[s].eos))
  /\ out' = At(out, s, Sent(s))
  /\ output' = [output EXCEPT !.muxed = @ \/ out[s].item.kind = "buffer"]
  /\ UNCHANGED <<in, collect, queue, muxVars, appVars>>

GopIsOut(s) ==
  /\ AtLimit(s, "output_gop")
  /\ output' = [output EXCEPT !.state = "awaiting"] /\ out' = WakeOutput(out)
  /\ UNCHANGED <<in, collect, queue, muxVars, appVars>>

\* send_eos, to the muxer
EndFile(s) ==
  /\ AtLimit(s, "ending_file") \/ AtLimit(s, "ending_stream")
  /\ ~out[s].eos
  /\ out' = [out EXCEPT ![s].eos = TRUE, ![s].pc = "send_eos"]
  /\ UNCHANGED <<in, collect, queue, output, muxVars, appVars>>

SendEos(s) ==
  /\ Free /\ out[s].pc = "send_eos"
  /\ mux' = [mux EXCEPT ![s].eos = TRUE] /\ out' = At(out, s, "out")
  /\ UNCHANGED <<in, collect, queue, output, files, drained, ended,
                 async_pending, appVars>>

Sleep(s) ==
  /\ out[s].pc = "out" /\ output.state # "stopped"
  /\ \/ ~CanOutput(s)
     \/ AtLimit(s, "ending_file") /\ out[s].eos
     \/ AtLimit(s, "next_file") /\ s # Ref
  /\ out' = At(out, s, "wait")
  /\ UNCHANGED <<in, collect, queue, output, muxVars, appVars>>

Command(s) ==
  /\ out[s].pc = "command" \/ AtLimit(s, "awaiting")
  /\ \/ /\ output.cmds = <<>>
        /\ out' = At(out, s, "cmdwait") /\ UNCHANGED <<queue, output>>
     \/ /\ output.cmds # <<>>
        /\ queue' = IF Len(output.cmds) = 1 THEN Grown ELSE queue
        /\ LET cmd == Head(output.cmds)
               popped == [output EXCEPT !.cmds = Tail(@)]
           IN  output' = IF cmd.kind = "release"
                         THEN [popped EXCEPT !.max = Greater(@, cmd.max),
                                             !.state = "output_gop"]
                         ELSE [popped EXCEPT
                                 !.state = IF output.muxed THEN "ending_file" ELSE @]
        /\ out' = WakeOutput(At(out, s, IF output'.state = "awaiting" THEN "command"
                                       ELSE "out"))
  /\ UNCHANGED <<in, collect, muxVars, appVars>>

WakeOut(s) ==
  /\ Free
  /\ \/ out[s].pc = "woken" /\ out' = At(out, s, "out")
     \/ /\ out[s].pc = "cmdwoken"
        /\ out' = At(out, s, IF output.state = "awaiting" THEN "command" ELSE "out")
  /\ UNCHANGED <<in, collect, queue, output, muxVars, appVars>>

-----------------------------------------------------------------------------
(* start_next_fragment, in the output thread of the reference stream.      *)

SwitchFile(s) ==
  /\ AtLimit(s, "next_file") /\ s = Ref
  /\ out' = At(out, s, "switch")
  /\ UNCHANGED <<in, collect, queue, output, muxVars, appVars>>

\* With the state lock: the muxer is reset and gets a new file, which may fail.
OpenFile(s) ==
  /\ Free /\ out[s].pc = "switch"
  /\ \/ /\ stop # "no"
        /\ out' = At(out, s, "done")
        /\ UNCHANGED <<output, mux, files, drained, failed>>
     \/ /\ stop = "no"
        /\ mux' = [t \in Streams |-> [buf |-> 0, eos |-> FALSE]]
        /\ files' = Append(files, [t \in Streams |-> <<>>]) /\ drained' = FALSE
        /\ output' = [output EXCEPT !.muxed = FALSE]
        /\ \/ out' = At(out, s, "opened") /\ UNCHANGED failed
           \/ input \in Disturbed /\ failed' = TRUE /\ out' = At(out, s, "done")
  /\ UNCHANGED <<in, collect, queue, ended, async_pending, input, stop, requests>>

\* restart_context sends the sticky events of each pad again, EOS among them.
Restart(s) ==
  /\ mux' = [t \in Streams |-> [mux[t] EXCEPT !.eos = @ \/ out[t].padEos]]
  /\ out' = WakeOutput([t \in Streams |-> [out[t] EXCEPT
               !.eos = out[t].padEos, !.pc = IF t = s THEN "out" ELSE @]])
  /\ output' = [output EXCEPT !.ready = TRUE, !.state = "awaiting"]

\* do_async_done gives the lock away to post its message.
StartFile(s) ==
  /\ Free
  /\ \/ /\ out[s].pc = "opened" /\ async_pending
        /\ async_pending' = FALSE /\ out' = At(out, s, "async_done")
        /\ UNCHANGED <<mux, output>>
     \/ /\ out[s].pc = "opened" /\ ~async_pending /\ Restart(s)
        /\ UNCHANGED async_pending
     \/ /\ out[s].pc = "async_done" /\ Restart(s) /\ UNCHANGED async_pending
  /\ UNCHANGED <<in, collect, queue, files, drained, ended, appVars>>

-----------------------------------------------------------------------------
(* External: the muxer.                                                    *)

Push(s) ==
  /\ Free /\ out[s].pc = "push"
  /\ \/ /\ out[s].item.kind = "buffer" /\ mux[s].buf = 0
        /\ mux' = [mux EXCEPT ![s].buf = out[s].item.n]
        /\ files' = [files EXCEPT ![Len(files)][s] = Append(@, out[s].item.n)]
        /\ out' = At(out, s, "idle")
     \/ /\ out[s].item.kind = "eos"
        /\ mux' = [mux EXCEPT ![s].eos = TRUE] /\ out' = At(out, s, "done")
        /\ UNCHANGED files
  /\ UNCHANGED <<in, collect, queue, output, drained, ended, async_pending, appVars>>

Waiting == {s \in Streams : mux[s].buf # 0}
MuxerReady == Free /\ \A s \in Streams : mux[s].buf # 0 \/ mux[s].eos
Mux ==
  /\ MuxerReady
  /\ \E s \in Waiting :
       /\ \A t \in Waiting : input[s][mux[s].buf].dts <= input[t][mux[t].buf].dts
       /\ mux' = [mux EXCEPT ![s].buf = 0]
  /\ UNCHANGED <<in, collect, queue, out, output, files, drained, ended,
                 async_pending, appVars>>

\* bus_handler: EOS of the sink
FileEnds ==
  /\ MuxerReady /\ Waiting = {} /\ ~drained /\ drained' = TRUE
  /\ \/ /\ output.state = "ending_stream"
        /\ ended' = TRUE /\ UNCHANGED <<out, output>>
     \/ /\ output.state # "ending_stream"
        /\ output' = [output EXCEPT !.state = "next_file"] /\ out' = WakeOutput(out)
        /\ UNCHANGED ended
  /\ UNCHANGED <<in, collect, queue, mux, files, async_pending, appVars>>

-----------------------------------------------------------------------------
(* The application.                                                        *)

\* split-now and split-after set a flag without the lock, split-at-running-time
\* adds a time with it.  A flag set while a GOP is handled counts as set before.
Split ==
  /\ stop = "no" /\ input \in Disturbed
  /\ requests < MaxRequests /\ requests' = requests + 1
  /\ \/ collect' = [collect EXCEPT !.splitNext = TRUE]
     \/ collect' = [collect EXCEPT !.splitAfter = TRUE]
     \/ Free /\ \E t \in {b.pts : b \in ToSet(input[Ref])} :
          collect' = [collect EXCEPT !.splitAt = Append(@, t)]
  /\ UNCHANGED <<in, queue, outputVars, input, stop, failed>>

\* change_state to READY: first shutdown, under the state lock, then all else
Shutdown ==
  /\ stop = "no" /\ input \in Disturbed /\ Free /\ out[Ref].pc # "opened"
  /\ stop' = "shutdown"
  /\ collect' = [collect EXCEPT !.splitNext = FALSE, !.splitAfter = FALSE]
  /\ UNCHANGED <<in, queue, outputVars, input, failed, requests>>

\* reset: all threads are woken and everything collected is forgotten.
Reset ==
  /\ collect' = [state |-> "stopped", max |-> NoTime, maxDts |-> NoTime,
                 start |-> NoTime, gops |-> <<>>, ref |-> FALSE,
                 splitNext |-> FALSE, splitAfter |-> FALSE, splitAt |-> <<>>]
  /\ output' = [state |-> "stopped", max |-> NoTime, cmds |-> <<>>, muxed |-> FALSE,
                ready |-> FALSE, keys |-> 0]
  /\ queue' = [s \in Streams |-> [queue[s] EXCEPT !.queued = 0]]
  /\ out' = WakeOutput([s \in Streams |-> [out[s] EXCEPT !.rt = NoTime]])
Forgotten == [s \in Streams |-> [in[s] EXCEPT !.rt = NoTime]]

BugStop ==
  /\ stop = "shutdown" /\ Free /\ stop' = "stopped" /\ Reset /\ in' = Forgotten
  /\ UNCHANGED <<muxVars, input, failed, requests>>
Stop ==
  /\ stop = "shutdown" /\ Free /\ stop' = "stopped"
  /\ Reset /\ in' = WakeInput(Forgotten)
  /\ UNCHANGED <<muxVars, input, failed, requests>>

\* The state change of the queues and the muxer ends whoever waits in them.
Deactivate(s) ==
  /\ stop = "stopped" /\ Free
  /\ \/ /\ in[s].pc \in {"idle", "queue", "full"} /\ in' = At(in, s, "done")
        /\ UNCHANGED out
     \/ /\ out[s].pc \in {"idle", "starved", "push"} /\ out' = At(out, s, "done")
        /\ UNCHANGED in
  /\ UNCHANGED <<collect, queue, output, muxVars, appVars>>

Input(s) ==
  \/ Arrive(s) \/ CollectReference(s) \/ CollectOther(s) \/ PassUncollected(s)
  \/ Unblock(s) \/ AfterUnblock(s) \/ CollectGop(s) \/ WakeIn(s) \/ Pass(s)
  \/ InputEos(s) \/ Enqueue(s) \/ Overrun(s) \/ ReadLimit(s) \/ SetLimit(s)

Output(s) ==
  \/ Underrun(s) \/ Probe(s) \/ Flushed(s) \/ Send(s) \/ GopIsOut(s)
  \/ EndFile(s) \/ SendEos(s) \/ Sleep(s) \/ Command(s) \/ WakeOut(s)
  \/ SwitchFile(s) \/ OpenFile(s) \/ StartFile(s) \/ Push(s)

Next ==
  \/ \E s \in Streams : Input(s) \/ Output(s) \/ Deactivate(s)
  \/ Mux \/ FileEnds \/ Split \/ Shutdown \/ Stop

Fairness ==
  /\ \A s \in Streams :
       WF_vars(Input(s)) /\ WF_vars(Output(s)) /\ WF_vars(Deactivate(s))
  /\ WF_vars(Mux) /\ WF_vars(stop # "stopped" /\ FileEnds) /\ WF_vars(Stop)

Spec == Init /\ [][Next]_vars /\ Fairness
-----------------------------------------------------------------------------
(* Properties.                                                             *)

TypeOK ==
  /\ input \in Inputs
  /\ \A s \in Streams :
       /\ in[s].n \in 0 .. Len(input[s]) /\ queue[s].limit >= QueueSize
       /\ queue[s].queued >= 0 /\ mux[s].buf \in 0 .. Len(input[s])
  /\ collect.state \in {"collecting", "waiting", "finishing", "stopped"}
  /\ output.state \in {"next_file", "awaiting", "output_gop", "ending_file",
                       "ending_stream", "stopped"}
  /\ stop \in {"no", "shutdown", "stopped"}

\* The assertions of the code: a buffer of the reference stream is never handled
\* while a GOP is being collected, nobody looks at a GOP that is not there, and a
\* buffer always has one to be counted in.
AssertionsHold ==
  TypeOK /\ \A s \in Streams :
    /\ in[s].pc = "loop" /\ s = Ref => collect.state # "waiting"
    /\ in[s].pc = "loop" /\ s = Ref /\ collect.state = "collecting" => Gops # <<>>
    /\ in[s].pc = "collect" => Gops # <<>>
    /\ in[s].pc = "pass" /\ collect.state \in {"collecting", "waiting"} => Gops # <<>>

RunTime(s, n) == Max({input[s][i].pts : i \in 1 .. n})
Keys(ns) == {n \in ns : input[Ref][n].key}
GopOf(n) == {i \in n .. Len(input[Ref]) : Keys((n + 1) .. i) = {}}
GopStart(n) == Min({input[Ref][i].pts : i \in GopOf(n)})
Cut(k) == GopStart(Head(files[k][Ref]))

\* What the cuts take for granted: the reference stream comes in the order of its
\* DTS, and its GOPs do not overlap in PTS (B frames of an open GOP, shown before its
\* keyframe, are after the GOP before it).
Dts(b) == Lesser(b.pts, b.dts)
RegularStream(v) ==
  \A i, j \in 1 .. Len(v) : i < j =>
    /\ Dts(v[i]) <= Dts(v[j])
    /\ (\E k \in i + 1 .. j : v[k].key) => v[i].pts < v[j].pts
Regular == \A v \in Inputs : RegularStream(v[Ref])

\* The files hold each stream once and in order, all of it when the recording has
\* ended, and each file but the first starts at a keyframe of the reference
\* stream, where all other streams are cut, too.
FilesPartitionInput ==
  /\ \A s \in Streams :
       LET all == FlattenSeq([k \in DOMAIN files |-> files[k][s]]) IN
       /\ \A i \in DOMAIN all : all[i] = i
       /\ ended => Len(all) = Len(input[s])
  /\ \A k \in 2 .. Len(files) : files[k][Ref] # <<>> =>
       /\ input[Ref][Head(files[k][Ref])].key
       /\ \A s \in Streams :
            /\ \A n \in ToSet(files[k - 1][s]) : RunTime(s, n) < Cut(k)
            /\ \A n \in ToSet(files[k][s]) : RunTime(s, n) >= Cut(k)

\* A file of more than one GOP is not longer than max-size-time.  It does not hold
\* (README, "Known disagreements").
WithinTimeLimit ==
  \A k \in DOMAIN files :
    LET keys == Keys(ToSet(files[k][Ref]))
        after == Keys((Max(keys) + 1) .. Len(input[Ref]))
        end == IF after # {} THEN GopStart(Min(after))
               ELSE RunTime(Ref, Len(input[Ref]))
    IN  Threshold > 0 /\ Cardinality(keys) > 1 => end - Cut(k) <= Threshold

\* Every recording ends: no order in which the streams arrive makes the queues, the
\* threads that wait for each other and the muxer stand still.
RecordingEnds == <>(ended \/ stop # "no" \/ failed)

\* Stopping the element ends all threads, unless one of them or the muxer has set
\* the state again (README, "Known disagreements").
StopReturns ==
  stop = "stopped" ~> \/ output.state # "stopped"
                      \/ \A s \in Streams : in[s].pc = "done" /\ out[s].pc = "done"
=============================================================================
