-------------------------- MODULE CompositorProofs --------------------------
(***************************************************************************)
(* Types, the streams in step and the account of the input frames of       *)
(* Compositor, for any number of streams, any depth and any pool.          *)
(***************************************************************************)
EXTENDS Compositor, TLAPS

(* Every frame stays with its stream.                                      *)
OwnStream ==
  \A i \in Streams :
    /\ pad[i] # None => pad[i].s = i
    /\ \A j \in DOMAIN queue[i] : queue[i][j].s = i

(* aggregate() runs, or is being waited for; it has a picture in hand from *)
(* acquire to push.                                                        *)
TaskInv ==
  /\ pc # "idle" => state \in {"run", "stopping"}
  /\ pc \in {"blit", "push"} => outs >= 1

StepInv == TypeOK /\ OwnStream /\ TaskInv /\ NoMatchLeftWaiting

\* The element that was never started has nothing queued and nothing in hand.
THEOREM StepInit == Init => StepInv
<1> SUFFICES ASSUME Init PROVE StepInv OBVIOUS
<1>1. \A i \in Streams : pad[i] = None /\ inbufs[i] = None /\ queue[i] = <<>>
  BY DEF Init, Nothing, Empty
<1>2. TypeOK
  <2>1. /\ pad \in [Streams -> Frames \cup {None}] /\ inbufs \in [Streams -> Frames \cup {None}]
        /\ queue \in [Streams -> Seq(Frames)]
    BY DEF Init, Nothing, Empty
  <2>2. \A i \in Streams : Len(queue[i]) <= MaxDepth BY <1>1, CompositorAssumption
  <2>3. /\ sent \in [Streams -> 0 .. MaxFrames] /\ next \in [Streams -> 0 .. IdMod - 1]
        /\ starts \in 0 .. MaxStarts /\ outs \in 0 .. PoolMax /\ faults \in 0 .. MaxFaults
    BY CompositorAssumption DEF Init
  <2>4. QED BY <2>1, <2>2, <2>3 DEF Init, TypeOK
<1>3. OwnStream BY <1>1 DEF OwnStream
<1>4. TaskInv /\ NoMatchLeftWaiting BY DEF Init, TaskInv, NoMatchLeftWaiting
<1>5. QED BY <1>2, <1>3, <1>4 DEF StepInv

LEMMA OneInStreams == 1 \in Streams
BY CompositorAssumption DEF Streams

\* A buffer appended to the queue of its stream.
LEMMA PulledFacts ==
  ASSUME StepInv, NEW I \in SUBSET Streams, \A i \in I : pad[i] # None /\ ~Refused(i)
  PROVE  /\ Pulled(I) \in [Streams -> Seq(Frames)]
         /\ \A i \in Streams :
              /\ Len(Pulled(I)[i]) = Len(queue[i]) + (IF i \in I THEN 1 ELSE 0)
              /\ Len(Pulled(I)[i]) <= MaxDepth
              /\ \A j \in DOMAIN Pulled(I)[i] : Pulled(I)[i][j].s = i
              /\ queue[i] # <<>> => Pulled(I)[i][1] = queue[i][1]
<1> SUFFICES ASSUME NEW i \in Streams
             PROVE  /\ Pulled(I)[i] \in Seq(Frames)
                    /\ Len(Pulled(I)[i]) = Len(queue[i]) + (IF i \in I THEN 1 ELSE 0)
                    /\ Len(Pulled(I)[i]) <= MaxDepth
                    /\ \A j \in DOMAIN Pulled(I)[i] : Pulled(I)[i][j].s = i
                    /\ queue[i] # <<>> => Pulled(I)[i][1] = queue[i][1]
  BY DEF Pulled
<1>1. /\ queue[i] \in Seq(Frames) /\ Len(queue[i]) <= MaxDepth
      /\ \A j \in DOMAIN queue[i] : queue[i][j].s = i
  BY DEF StepInv, TypeOK, OwnStream
<1>2. CASE i \in I
  <2>1. pad[i] \in Frames /\ pad[i].s = i /\ Len(queue[i]) < MaxDepth
    BY <1>1, <1>2, CompositorAssumption DEF StepInv, TypeOK, OwnStream, Refused
  <2>2. Pulled(I)[i] = Append(queue[i], pad[i]) BY <1>2 DEF Pulled
  <2>3. QED BY <1>1, <1>2, <2>1, <2>2, CompositorAssumption
<1>3. CASE i \notin I
  <2>1. Pulled(I)[i] = queue[i] BY <1>3 DEF Pulled
  <2>2. QED BY <1>1, <1>3, <2>1
<1>4. QED BY <1>2, <1>3

\* Steps that touch no queue and no input buffer of the task.
LEMMA QuietStep ==
  ASSUME StepInv, UNCHANGED <<queue, inbufs>>, TypeOK', OwnStream', TaskInv',
         state' = "run" => state = "run",
         pc' \in {"acquire", "blit"} => pc \in {"acquire", "blit"}
  PROVE  StepInv'
BY DEF StepInv, NoMatchLeftWaiting, Match

\* Upstream: a buffer of its own stream on a pad.
LEMMA UpstreamStep ==
  ASSUME StepInv, NEW i \in Streams,
         \/ \E kind \in {"ok", "noid", "invalid"} : Arrive(i, kind)
         \/ Mishap(i) \/ Eos(i)
  PROVE  StepInv'
<1>1. /\ UNCHANGED <<state, starts, pc, outs, queue, inbufs>>
  BY DEF Arrive, Mishap, Eos, taskVars
<1>2. /\ sent' \in [Streams -> 0 .. MaxFrames] /\ next' \in [Streams -> 0 .. IdMod - 1]
      /\ faults' \in 0 .. MaxFaults /\ eos' \subseteq Streams /\ inputs' \subseteq Frames
      /\ pad' \in [Streams -> Frames \cup {None}]
      /\ \A k \in Streams : pad'[k] # None => pad'[k].s = k
  <2>0. /\ \A k \in Streams : sent[k] \in 0 .. MaxFrames /\ next[k] \in 0 .. IdMod - 1
        /\ \A k \in Streams : pad[k] # None => pad[k].s = k
        /\ (next[i] + 1) % IdMod \in 0 .. IdMod - 1 /\ 0 \in 0 .. IdMod - 1
    BY CompositorAssumption DEF StepInv, TypeOK, OwnStream
  <2>1. CASE Mishap(i)
    <3>1. next' \in [Streams -> 0 .. IdMod - 1]
      BY <2>0, <2>1 DEF Mishap, StepInv, TypeOK
    <3>2. faults' \in 0 .. MaxFaults
      BY <2>1, CompositorAssumption DEF Mishap, StepInv, TypeOK
    <3>3. UNCHANGED <<sent, eos, inputs, pad>> BY <2>1 DEF Mishap
    <3>4. QED BY <2>0, <3>1, <3>2, <3>3 DEF StepInv, TypeOK
  <2>2. CASE Eos(i) BY <2>0, <2>2 DEF Eos, StepInv, TypeOK, upVars
  <2>3. ASSUME NEW kind \in {"ok", "noid", "invalid"}, Arrive(i, kind)
        PROVE  /\ sent' \in [Streams -> 0 .. MaxFrames]
               /\ next' \in [Streams -> 0 .. IdMod - 1]
               /\ faults' \in 0 .. MaxFaults /\ eos' \subseteq Streams
               /\ inputs' \subseteq Frames
               /\ pad' \in [Streams -> Frames \cup {None}]
               /\ \A k \in Streams : pad'[k] # None => pad'[k].s = k
    <3> DEFINE b == [s |-> i, n |-> sent[i] + 1, id |-> next[i], kind |-> kind]
    <3>1. b \in Frames /\ b # None
      <4>1. sent[i] + 1 \in 1 .. MaxFrames BY <2>0, <2>3, CompositorAssumption DEF Arrive
      <4>2. b \in Frames BY <2>0, <4>1 DEF Frames
      <4>3. QED BY <4>2, NoneIsNoFrame
    <3>2. pad' = [pad EXCEPT ![i] = b] /\ inputs' = inputs \cup {b} BY <2>3 DEF Arrive
    <3>3. faults' \in 0 .. MaxFaults /\ sent' \in [Streams -> 0 .. MaxFrames]
      BY <2>0, <2>3, CompositorAssumption DEF Arrive, StepInv, TypeOK
    <3>4. next' \in [Streams -> 0 .. IdMod - 1] /\ eos' = eos
      BY <2>0, <2>3 DEF Arrive, StepInv, TypeOK
    <3>5. QED BY <2>0, <3>1, <3>2, <3>3, <3>4 DEF StepInv, TypeOK
  <2>4. QED BY <2>1, <2>2, <2>3
<1>3. TypeOK' BY <1>1, <1>2 DEF StepInv, TypeOK
<1>4. OwnStream' BY <1>1, <1>2 DEF StepInv, OwnStream
<1>5. TaskInv' BY <1>1 DEF StepInv, TaskInv
<1>6. QED BY <1>1, <1>3, <1>4, <1>5, QuietStep

\* The steps that empty the pads, the queues or both and end the task, or start
\* the element again.
LEMMA NothingFacts ==
  /\ Nothing \in [Streams -> Frames \cup {None}]
  /\ Empty \in [Streams -> Seq(Frames)]
  /\ \A i \in Streams : Nothing[i] = None /\ Empty[i] = <<>> /\ Len(Empty[i]) = 0
BY DEF Nothing, Empty

LEMMA EndStep ==
  ASSUME StepInv, pad' \in {pad, Nothing},
         queue' \in [Streams -> Seq(Frames)],
         \A i \in Streams : Len(queue'[i]) <= MaxDepth /\ \A j \in DOMAIN queue'[i] : queue'[i][j].s = i,
         state' \in {"ready", "error", "eos", "stopping"} \/ (state' = "run" /\ queue' = Empty),
         pc' # "idle" => /\ pc' = pc /\ state' = "stopping"
                         /\ inbufs' = inbufs /\ outs' = outs,
         pc' \in {"idle", "acquire", "blit", "push"},
         inbufs' \in {inbufs, Nothing}, outs' \in 0 .. PoolMax,
         starts' \in 0 .. MaxStarts, eos' \subseteq Streams, inputs' \subseteq inputs,
         faults' \in 0 .. MaxFaults, UNCHANGED <<sent, next>>
  PROVE  StepInv'
<1>1. TypeOK' BY NothingFacts DEF StepInv, TypeOK
<1>2. OwnStream' BY NothingFacts DEF StepInv, OwnStream
<1>3. TaskInv' BY DEF StepInv, TaskInv
<1>4. NoMatchLeftWaiting'
  <2>1. state' = "run" => /\ \A i \in Streams : Len(queue'[i]) = Len(queue'[1])
                          /\ queue'[1] = <<>>
    BY NothingFacts, OneInStreams
  <2>2. pc' \in {"acquire", "blit"} => pc = pc' /\ inbufs' = inbufs OBVIOUS
  <2>3. QED BY <2>1, <2>2 DEF StepInv, NoMatchLeftWaiting
<1>5. QED BY <1>1, <1>2, <1>3, <1>4 DEF StepInv

LEMMA StopStartStep ==
  ASSUME StepInv, Start \/ AllEos \/ SomeEos \/ BeginStop \/ Stop
  PROVE  StepInv'
<1>0. /\ \A i \in Streams : /\ Len(queue[i]) <= MaxDepth /\ Len(queue[i]) \in Nat
                            /\ \A j \in DOMAIN queue[i] : queue[i][j].s = i
      /\ \A i \in Streams : 0 <= MaxDepth /\ DOMAIN Empty[i] = {}
      /\ 0 \in 0 .. PoolMax /\ starts \in 0 .. MaxStarts /\ MaxStarts \in Nat
      /\ queue \in [Streams -> Seq(Frames)] /\ eos \subseteq Streams
      /\ outs \in 0 .. PoolMax /\ faults \in 0 .. MaxFaults
      /\ pc \in {"idle", "acquire", "blit", "push"}
  BY CompositorAssumption, NothingFacts DEF StepInv, TypeOK, OwnStream
<1>1. CASE Start
  <2>1. pc = "idle" BY <1>1 DEF Start, StepInv, TaskInv, TypeOK
  <2>2. QED BY <1>0, <1>1, <2>1, NothingFacts, EndStep DEF Start, upVars
<1>2. CASE AllEos BY <1>0, <1>2, NothingFacts, EndStep DEF AllEos, upVars
<1>3. CASE SomeEos BY <1>0, <1>3, NothingFacts, EndStep DEF SomeEos, Fail, upVars
<1>4. CASE BeginStop BY <1>0, <1>4, NothingFacts, EndStep DEF BeginStop, upVars
<1>5. CASE Stop BY <1>0, <1>5, NothingFacts, EndStep DEF Stop, upVars
<1>6. QED BY <1>1, <1>2, <1>3, <1>4, <1>5

\* The buffer collect() hands out for every stream: the pads' own when nothing
\* waited, and something only waits under heads that differ.
LEMMA MatchFacts ==
  ASSUME StepInv, CollectMatch
  PROVE  \A i \in Streams : /\ queue[i] = <<>> /\ Pulled(Streams)[i] = <<pad[i]>>
                            /\ pad[i] \in Frames /\ pad[i].s = i
                            /\ pad[i].id = pad[1].id
<1> DEFINE q == Pulled(Streams)
<1>1. \A i \in Streams : pad[i] # None /\ ~Refused(i) /\ pad[i] \in Frames /\ pad[i].s = i
  BY DEF CollectMatch, Ready, StepInv, TypeOK, OwnStream
<1>2. Match(q) /\ state = "run" BY DEF CollectMatch
<1>3. \A i \in Streams : Len(queue[i]) = Len(queue[1]) /\ queue[i] \in Seq(Frames)
  BY <1>2 DEF StepInv, NoMatchLeftWaiting, TypeOK
<1>4. queue[1] = <<>>
  <2> SUFFICES ASSUME queue[1] # <<>> PROVE FALSE OBVIOUS
  <2>1. \A i \in Streams : queue[i] # <<>> BY <1>3, OneInStreams
  <2>2. \A i \in Streams : q[i][1] = queue[i][1] BY <1>1, <2>1, PulledFacts
  <2>3. Match(queue) BY <1>2, <2>2, OneInStreams DEF Match
  <2>4. QED BY <1>2, <2>3 DEF StepInv, NoMatchLeftWaiting
<1>5. \A i \in Streams : queue[i] = <<>> BY <1>3, <1>4, OneInStreams
<1>6. \A i \in Streams : q[i] = <<pad[i]>>
  <2> SUFFICES ASSUME NEW i \in Streams PROVE q[i] = <<pad[i]>> OBVIOUS
  <2>1. q[i] = Append(<<>>, pad[i]) BY <1>5 DEF Pulled
  <2>2. QED BY <2>1, <1>1
<1>7. QED BY <1>1, <1>2, <1>5, <1>6, OneInStreams DEF Match

LEMMA CollectStep == ASSUME StepInv, Collect PROVE StepInv'
<1>1. ASSUME NEW i \in Streams, CollectRefused(i) PROVE StepInv'
  <2>1. 1 .. i - 1 \in SUBSET Streams /\ i .. N \subseteq Streams
    BY CompositorAssumption DEF Streams
  <2>2. \A j \in 1 .. i - 1 : pad[j] # None /\ ~Refused(j)
    BY <1>1, <2>1 DEF CollectRefused, Ready
  <2>3. /\ Pulled(1 .. i - 1) \in [Streams -> Seq(Frames)]
        /\ \A k \in Streams : /\ Len(Pulled(1 .. i - 1)[k]) <= MaxDepth
                              /\ \A j \in DOMAIN Pulled(1 .. i - 1)[k] : Pulled(1 .. i - 1)[k][j].s = k
    BY <2>1, <2>2, PulledFacts
  <2>4. /\ starts \in 0 .. MaxStarts /\ outs \in 0 .. PoolMax /\ eos \subseteq Streams
        /\ faults \in 0 .. MaxFaults
    BY DEF StepInv, TypeOK
  <2>5. QED BY <1>1, <2>3, <2>4, EndStep DEF CollectRefused, upVars
<1>2. CASE CollectMismatch
  <2>1. \A j \in Streams : pad[j] # None /\ ~Refused(j) BY <1>2 DEF CollectMismatch, Ready
  <2>2. /\ queue' \in [Streams -> Seq(Frames)]
        /\ \A k \in Streams : /\ Len(queue'[k]) <= MaxDepth
                              /\ Len(queue'[k]) = Len(queue[k]) + 1
                              /\ \A j \in DOMAIN queue'[k] : queue'[k][j].s = k
    BY <1>2, <2>1, PulledFacts DEF CollectMismatch
  <2>3. pad' = Nothing /\ pc' = "idle" /\ pc = "idle" /\ ~Match(queue') /\ state = "run"
        /\ UNCHANGED <<starts, outs, eos, inbufs, inputs, sent, next, faults>>
        /\ state' \in {"run", "error"}
    BY <1>2 DEF CollectMismatch, upVars
  <2>4. TypeOK' BY <2>2, <2>3, NothingFacts DEF StepInv, TypeOK
  <2>5. OwnStream' BY <2>2, <2>3, NothingFacts DEF OwnStream
  <2>6. TaskInv' BY <2>3 DEF TaskInv
  <2>7. NoMatchLeftWaiting'
    <3>1. \A k \in Streams : Len(queue'[k]) = Len(queue'[1])
      BY <2>2, <2>3, OneInStreams DEF StepInv, NoMatchLeftWaiting, TypeOK
    <3>2. QED BY <2>3, <3>1 DEF NoMatchLeftWaiting, Match
  <2>8. QED BY <2>4, <2>5, <2>6, <2>7 DEF StepInv
<1>3. CASE CollectMatch
  <2>1. \A i \in Streams : Pulled(Streams)[i] = <<pad[i]>> /\ pad[i] \in Frames
                           /\ pad[i].s = i /\ pad[i].id = pad[1].id
    BY <1>3, MatchFacts
  <2>2. queue' = Empty
    <3>1. queue' = [i \in Streams |-> Tail(Pulled(Streams)[i])] BY <1>3 DEF CollectMatch
    <3>2. ASSUME NEW i \in Streams PROVE Tail(Pulled(Streams)[i]) = <<>>
      <4>1. Pulled(Streams)[i] = <<pad[i]>> BY <2>1
      <4>2. Tail(<<pad[i]>>) = <<>> OBVIOUS
      <4>3. QED BY <4>1, <4>2
    <3>3. QED BY <3>1, <3>2 DEF Empty
  <2>3. /\ pad' = Nothing /\ pc = "idle" /\ UNCHANGED <<starts, outs, eos, sent, next, faults>>
        /\ inputs' \subseteq inputs /\ state = "run"
    BY <1>3 DEF CollectMatch, upVars
  <2>4. \/ pc' = "acquire" /\ state' = "run" /\ inbufs' = [i \in Streams |-> pad[i]]
        \/ state' = "error" /\ pc' = "idle" /\ inbufs' = inbufs
    BY <1>3, <2>1, <2>3 DEF CollectMatch
  <2>5. inbufs' \in [Streams -> Frames \cup {None}] BY <2>1, <2>4 DEF StepInv, TypeOK
  <2>6. TypeOK'
    BY <2>2, <2>3, <2>4, <2>5, NothingFacts, CompositorAssumption DEF StepInv, TypeOK
  <2>7. OwnStream' BY <2>2, <2>3, NothingFacts DEF OwnStream
  <2>8. TaskInv' BY <2>4 DEF TaskInv
  <2>9. NoMatchLeftWaiting'
    <3>1. \A i \in Streams : Len(queue'[i]) = 0 /\ queue'[i] = <<>> BY <2>2, NothingFacts
    <3>2. \A i \in Streams : pad[i] # None BY <2>1, NoneIsNoFrame
    <3>3. pc' \in {"acquire", "blit"} =>
            \A i \in Streams : inbufs'[i] # None /\ inbufs'[i].s = i /\ inbufs'[i].id = inbufs'[1].id
      BY <2>1, <2>4, <3>2, OneInStreams
    <3>4. QED BY <3>1, <3>3, OneInStreams DEF NoMatchLeftWaiting
  <2>10. QED BY <2>6, <2>7, <2>8, <2>9 DEF StepInv
<1>4. QED BY <1>1, <1>2, <1>3 DEF Collect

\* The rest of aggregate(), and downstream.
LEMMA PictureStep ==
  ASSUME StepInv,
         Acquire \/ AcquireFails \/ Blit \/ BlitFails \/ Push \/ PushRefused \/ Recycle
  PROVE  StepInv'
<1>0. /\ outs \in Nat /\ outs <= PoolMax /\ PoolMax \in Nat /\ faults \in Nat /\ faults <= MaxFaults
      /\ MaxFaults \in Nat
      /\ starts \in 0 .. MaxStarts /\ eos \subseteq Streams
      /\ queue \in [Streams -> Seq(Frames)]
      /\ \A i \in Streams : Len(queue[i]) <= MaxDepth /\ \A j \in DOMAIN queue[i] : queue[i][j].s = i
      /\ pc \in {"blit", "push"} => outs >= 1
      /\ pc # "idle" => state \in {"run", "stopping"}
  BY CompositorAssumption DEF StepInv, TypeOK, OwnStream, TaskInv
<1>1. CASE Acquire
  <2>1. TypeOK' BY <1>0, <1>1 DEF Acquire, StepInv, TypeOK, upVars
  <2>2. OwnStream' BY <1>1 DEF Acquire, StepInv, OwnStream
  <2>3. TaskInv' BY <1>0, <1>1 DEF Acquire, TaskInv
  <2>4. QED BY <1>1, <2>1, <2>2, <2>3, QuietStep DEF Acquire
<1>2. CASE Blit
  <2>1. TypeOK' BY <1>0, <1>2, NothingFacts DEF Blit, StepInv, TypeOK, upVars
  <2>2. OwnStream' BY <1>2 DEF Blit, StepInv, OwnStream
  <2>3. TaskInv' BY <1>0, <1>2 DEF Blit, TaskInv
  <2>4. NoMatchLeftWaiting' BY <1>2 DEF Blit, StepInv, NoMatchLeftWaiting, Match
  <2>5. QED BY <2>1, <2>2, <2>3, <2>4 DEF StepInv
<1>3. CASE Push
  <2>1. TypeOK' BY <1>3 DEF Push, StepInv, TypeOK, upVars
  <2>2. OwnStream' BY <1>3 DEF Push, StepInv, OwnStream
  <2>3. TaskInv' BY <1>3 DEF Push, TaskInv
  <2>4. QED BY <1>3, <2>1, <2>2, <2>3, QuietStep DEF Push
<1>4. CASE Recycle
  <2>1. outs' \in 0 .. PoolMax /\ (pc \in {"blit", "push"} => outs' >= 1)
    BY <1>0, <1>4 DEF Recycle
  <2>2. TypeOK' BY <1>4, <2>1 DEF Recycle, StepInv, TypeOK, upVars
  <2>3. OwnStream' BY <1>4 DEF Recycle, StepInv, OwnStream
  <2>4. TaskInv' BY <1>0, <1>4, <2>1 DEF Recycle, TaskInv
  <2>5. QED BY <1>4, <2>2, <2>3, <2>4, QuietStep DEF Recycle
<1>5. CASE AcquireFails \/ BlitFails \/ PushRefused
  <2>1. /\ state' \in {"error", "stopping"} /\ pc' = "idle" /\ pad' = Nothing
        /\ inputs' \subseteq inputs
    BY <1>5 DEF AcquireFails, BlitFails, PushRefused, Fail
  <2>2. /\ UNCHANGED <<starts, eos, queue, sent, next>> /\ inbufs' \in {inbufs, Nothing}
    BY <1>5 DEF AcquireFails, BlitFails, PushRefused
  <2>3. faults' \in 0 .. MaxFaults
    BY <1>0, <1>5 DEF AcquireFails, BlitFails, PushRefused
  <2>4. outs' \in 0 .. PoolMax
    BY <1>0, <1>5 DEF AcquireFails, BlitFails, PushRefused
  <2>5. QED BY <1>0, <2>1, <2>2, <2>3, <2>4, EndStep
<1>6. QED BY <1>1, <1>2, <1>3, <1>4, <1>5

LEMMA StepNext == StepInv /\ [Next]_vars => StepInv'
<1> SUFFICES ASSUME StepInv, [Next]_vars PROVE StepInv' OBVIOUS
<1>1. CASE UNCHANGED vars
  <2>1. UNCHANGED <<state, starts, pc, outs, pad, eos, queue, inbufs, inputs, sent, next, faults>>
    BY <1>1 DEF vars, taskVars, upVars
  <2>2. TypeOK' /\ OwnStream' /\ TaskInv' BY <2>1 DEF StepInv, TypeOK, OwnStream, TaskInv
  <2>3. QED BY <2>1, <2>2, QuietStep
<1>2. CASE Next
  BY <1>2, UpstreamStep, StopStartStep, CollectStep, PictureStep DEF Next, Aggregate
<1>3. QED BY <1>1, <1>2

LEMMA StepAlways == Spec => []StepInv
<1>1. QED BY StepInit, StepNext, PTL DEF Spec

\* The queues never outgrow sync-queue-depth and the output pool never lends
\* more buffers than it has, for any number of streams and any upstream.
THEOREM CompositorTypeCorrect == Spec => []TypeOK
<1>1. StepInv => TypeOK BY DEF StepInv
<1>2. QED BY <1>1, StepAlways, PTL

\* Whatever arrives on any number of streams, frames are left waiting only under
\* heads that differ, and a picture is made of one frame of each stream with the
\* same frame_id.
THEOREM StreamsInStep == Spec => []NoMatchLeftWaiting
<1>1. StepInv => NoMatchLeftWaiting BY DEF StepInv
<1>2. QED BY <1>1, StepAlways, PTL

\* A frame that waited in a queue is never part of a picture: once the heads
\* differ the element composes nothing more until it is started again, however
\* deep the queues are.
MismatchIsFinal == [][CollectMatch => \A i \in Streams : queue[i] = <<>>]_vars

THEOREM QueuesNeverServe == Spec => MismatchIsFinal
<1>1. StepInv /\ [Next]_vars => [CollectMatch => \A i \in Streams : queue[i] = <<>>]_vars
  BY MatchFacts
<1>2. QED BY <1>1, StepAlways, PTL DEF Spec, MismatchIsFinal
-----------------------------------------------------------------------------
(* The account of the input frames.  A frame is told from the others of    *)
(* its stream by its number: the picture in hand is older than what waits  *)
(* in the queue, and that is older than the buffer of the pad.             *)
Counted ==
  \A i \in Streams :
    /\ pad[i] # None => pad[i].n <= sent[i]
    /\ \A j \in DOMAIN queue[i] : /\ queue[i][j].n <= sent[i]
                                  /\ pad[i] # None => queue[i][j].n < pad[i].n
    /\ inbufs[i] # None =>
         /\ inbufs[i].s = i /\ inbufs[i].n <= sent[i]
         /\ pad[i] # None => inbufs[i].n < pad[i].n
         /\ \A j \in DOMAIN queue[i] : inbufs[i].n < queue[i][j].n

(* A picture is in hand from collect() to the blit only, and the pads are  *)
(* empty once the element is being stopped.                                *)
InHand ==
  /\ pc \in {"idle", "push"} => inbufs = Nothing
  /\ state \in {"ready", "stopping"} => pad = Nothing

AccountInv == StepInv /\ Counted /\ InHand /\ InputsAccounted

LEMMA RefsFact ==
  ASSUME NEW f, NEW x
  PROVE  x \in Refs(f) <=> x # None /\ \E i \in Streams : x = f[i]
BY DEF Refs

LEMMA QueuedFact ==
  ASSUME NEW q, NEW x
  PROVE  x \in Queued(q) <=> \E i \in Streams : \E j \in DOMAIN q[i] : x = q[i][j]
BY DEF Queued

LEMMA EmptyRefs == Refs(Nothing) = {} /\ Queued(Empty) = {}
<1>1. Refs(Nothing) = {} BY RefsFact, NothingFacts
<1>2. \A i \in Streams : DOMAIN Empty[i] = {} BY NothingFacts
<1>3. Queued(Empty) = {} BY <1>2, QueuedFact
<1>4. QED BY <1>1, <1>3

LEMMA AccountInit == Init => AccountInv
<1> SUFFICES ASSUME Init PROVE AccountInv OBVIOUS
<1>1. /\ pad = Nothing /\ queue = Empty /\ inbufs = Nothing /\ inputs = {}
      /\ \A i \in Streams : DOMAIN Empty[i] = {}
  BY NothingFacts DEF Init
<1>2. Counted BY <1>1, NothingFacts DEF Counted
<1>3. InHand BY <1>1 DEF InHand
<1>4. InputsAccounted BY <1>1, EmptyRefs DEF InputsAccounted
<1>5. QED BY <1>2, <1>3, <1>4, StepInit DEF AccountInv

\* No frame is at two places.
LEMMA Apart ==
  ASSUME StepInv, Counted
  PROVE  /\ Refs(pad) \cap Queued(queue) = {}
         /\ Refs(pad) \cap Refs(inbufs) = {}
         /\ Refs(inbufs) \cap Queued(queue) = {}
<1>1. /\ \A i \in Streams : pad[i] # None => pad[i].n \in Nat /\ pad[i].s = i
      /\ \A i \in Streams : inbufs[i] # None => inbufs[i].n \in Nat /\ inbufs[i].s = i
      /\ \A i \in Streams : \A j \in DOMAIN queue[i] :
           queue[i][j].n \in Nat /\ queue[i][j].s = i
  <2>1. \A b \in Frames : b.n \in Nat BY CompositorAssumption DEF Frames
  <2>2. \A i \in Streams : \A j \in DOMAIN queue[i] : queue[i][j] \in Frames
    BY DEF StepInv, TypeOK
  <2>3. \A i \in Streams : /\ pad[i] # None => pad[i] \in Frames
                           /\ inbufs[i] # None => inbufs[i] \in Frames
    BY DEF StepInv, TypeOK
  <2>4. QED BY <2>1, <2>2, <2>3 DEF StepInv, OwnStream, Counted
<1>2. ASSUME NEW x \in Refs(pad), x \in Queued(queue) PROVE FALSE
  <2>1. PICK i \in Streams : x = pad[i] /\ x # None BY <1>2, RefsFact
  <2>2. PICK k \in Streams : \E j \in DOMAIN queue[k] : x = queue[k][j] BY <1>2, QueuedFact
  <2>3. PICK j \in DOMAIN queue[k] : x = queue[k][j] BY <2>2
  <2>4. i = k
    <3>1. pad[i].s = i BY <1>1, <2>1
    <3>2. queue[k][j].s = k BY <1>1
    <3>3. QED BY <2>1, <2>3, <3>1, <3>2
  <2>5. queue[i][j].n < pad[i].n BY <2>1, <2>3, <2>4 DEF Counted
  <2>6. pad[i].n \in Nat /\ pad[i].n < pad[i].n
    <3>1. queue[i][j] = pad[i] BY <2>1, <2>3, <2>4
    <3>2. pad[i].n \in Nat BY <1>1, <2>1
    <3>3. QED BY <2>5, <3>1, <3>2
  <2>7. QED BY <2>6
<1>3. ASSUME NEW x \in Refs(pad), x \in Refs(inbufs) PROVE FALSE
  <2>1. PICK i \in Streams : x = pad[i] /\ x # None BY <1>3, RefsFact
  <2>2. PICK k \in Streams : x = inbufs[k] BY <1>3, RefsFact
  <2>3. i = k
    <3>1. pad[i].s = i BY <1>1, <2>1
    <3>2. inbufs[k].s = k BY <1>1, <2>1, <2>2
    <3>3. QED BY <2>1, <2>2, <3>1, <3>2
  <2>4. inbufs[i].n < pad[i].n BY <2>1, <2>2, <2>3 DEF Counted
  <2>5. pad[i].n \in Nat /\ pad[i].n < pad[i].n
    <3>1. inbufs[i] = pad[i] BY <2>1, <2>2, <2>3
    <3>2. pad[i].n \in Nat BY <1>1, <2>1
    <3>3. QED BY <2>4, <3>1, <3>2
  <2>6. QED BY <2>5
<1>4. ASSUME NEW x \in Refs(inbufs), x \in Queued(queue) PROVE FALSE
  <2>1. PICK i \in Streams : x = inbufs[i] /\ x # None BY <1>4, RefsFact
  <2>2. PICK k \in Streams : \E j \in DOMAIN queue[k] : x = queue[k][j] BY <1>4, QueuedFact
  <2>3. PICK j \in DOMAIN queue[k] : x = queue[k][j] BY <2>2
  <2>4. i = k
    <3>1. inbufs[i].s = i BY <1>1, <2>1
    <3>2. queue[k][j].s = k BY <1>1
    <3>3. QED BY <2>1, <2>3, <3>1, <3>2
  <2>5. inbufs[i].n < queue[i][j].n BY <2>1, <2>3, <2>4 DEF Counted
  <2>6. inbufs[i].n \in Nat /\ inbufs[i].n < inbufs[i].n
    <3>1. queue[i][j] = inbufs[i] BY <2>1, <2>3, <2>4
    <3>2. inbufs[i].n \in Nat BY <1>1, <2>1
    <3>3. QED BY <2>5, <3>1, <3>2
  <2>7. QED BY <2>6
<1>5. QED BY <1>2, <1>3, <1>4

\* Places that are emptied keep their order.
LEMMA CountedEmptied ==
  ASSUME Counted, sent' = sent, pad' \in {pad, Nothing}, queue' \in {queue, Empty},
         inbufs' \in {inbufs, Nothing}
  PROVE  Counted'
<1>1. /\ \A i \in Streams : pad'[i] # None => pad'[i] = pad[i]
      /\ \A i \in Streams : inbufs'[i] # None => inbufs'[i] = inbufs[i]
      /\ \A i \in Streams : \A j \in DOMAIN queue'[i] :
           j \in DOMAIN queue[i] /\ queue'[i][j] = queue[i][j]
  <2>1. \A i \in Streams : DOMAIN Empty[i] = {} BY NothingFacts
  <2>2. QED BY <2>1, NothingFacts
<1>2. \A i \in Streams : pad'[i] # None => pad[i] # None /\ pad'[i] = pad[i]
  BY <1>1
<1>3. \A i \in Streams : inbufs'[i] # None => inbufs[i] # None /\ inbufs'[i] = inbufs[i]
  BY <1>1
<1>4. QED BY <1>1, <1>2, <1>3 DEF Counted

\* A step that empties places accounts for what it takes from them.
LEMMA EmptiedStep ==
  ASSUME AccountInv, sent' = sent, pad' \in {pad, Nothing}, queue' \in {queue, Empty},
         inbufs' \in {inbufs, Nothing},
         inputs' = inputs \ ((IF pad' = pad THEN {} ELSE Refs(pad))
                             \cup (IF queue' = queue THEN {} ELSE Queued(queue))
                             \cup (IF inbufs' = inbufs THEN {} ELSE Refs(inbufs)))
  PROVE  /\ Counted'
         /\ inputs' = Refs(pad') \cup Queued(queue') \cup Refs(inbufs')
<1>1. Counted' BY CountedEmptied DEF AccountInv
<1>2. inputs = Refs(pad) \cup Queued(queue) \cup Refs(inbufs)
  BY DEF AccountInv, InputsAccounted
<1>3. /\ Refs(pad) \cap Queued(queue) = {}
      /\ Refs(pad) \cap Refs(inbufs) = {}
      /\ Refs(inbufs) \cap Queued(queue) = {}
  BY Apart DEF AccountInv
<1>4. /\ Refs(pad') = IF pad' = pad THEN Refs(pad) ELSE {}
      /\ Queued(queue') = IF queue' = queue THEN Queued(queue) ELSE {}
      /\ Refs(inbufs') = IF inbufs' = inbufs THEN Refs(inbufs) ELSE {}
  BY EmptyRefs
<1>5. QED BY <1>1, <1>2, <1>3, <1>4

\* A frame comes in: it is newer than all of its stream.
LEMMA ArriveAccount ==
  ASSUME AccountInv, StepInv', NEW i \in Streams, NEW kind \in {"ok", "noid", "invalid"},
         Arrive(i, kind)
  PROVE  AccountInv'
<1> DEFINE b == [s |-> i, n |-> sent[i] + 1, id |-> next[i], kind |-> kind]
<1>1. /\ pad' = [pad EXCEPT ![i] = b] /\ inputs' = inputs \cup {b} /\ pad[i] = None
      /\ sent' = [sent EXCEPT ![i] = @ + 1] /\ state = "run"
      /\ UNCHANGED <<state, pc, queue, inbufs>>
  BY DEF Arrive, taskVars
<1>2. /\ \A k \in Streams : sent[k] \in Nat
      /\ pad \in [Streams -> Frames \cup {None}] /\ sent \in [Streams -> 0 .. MaxFrames]
      /\ \A k \in Streams : pad[k] # None => pad[k].n \in Nat
      /\ \A k \in Streams : inbufs[k] # None => inbufs[k].n \in Nat
      /\ \A k \in Streams : \A j \in DOMAIN queue[k] : queue[k][j].n \in Nat
  <2>1. \A x \in Frames : x.n \in Nat BY CompositorAssumption DEF Frames
  <2>2. \A k \in Streams : \A j \in DOMAIN queue[k] : queue[k][j] \in Frames
    <3>1. TypeOK BY DEF AccountInv, StepInv
    <3>2. \A k \in Streams : queue[k] \in Seq(Frames) BY <3>1 DEF TypeOK
    <3>3. QED BY <3>2
  <2>3. QED BY <2>1, <2>2, CompositorAssumption DEF AccountInv, StepInv, TypeOK
<1>3. b # None
  <2>1. pad'[i] = b /\ pad'[i] \in Frames \cup {None} BY <1>1, <1>2 DEF StepInv, TypeOK
  <2>2. b.n = sent[i] + 1 OBVIOUS
  <2>3. sent[i] + 1 \in 1 .. MaxFrames
    BY <1>2, CompositorAssumption DEF Arrive
  <2>4. next[i] \in 0 .. IdMod - 1 BY DEF AccountInv, StepInv, TypeOK
  <2>5. b \in Frames BY <2>3, <2>4 DEF Frames
  <2>6. QED BY <2>5, NoneIsNoFrame
<1>4. Counted'
  <2> SUFFICES ASSUME NEW k \in Streams
               PROVE  /\ pad'[k] # None => pad'[k].n <= sent'[k]
                      /\ \A j \in DOMAIN queue[k] :
                           /\ queue[k][j].n <= sent'[k]
                           /\ pad'[k] # None => queue[k][j].n < pad'[k].n
                      /\ inbufs[k] # None =>
                           /\ inbufs[k].s = k /\ inbufs[k].n <= sent'[k]
                           /\ pad'[k] # None => inbufs[k].n < pad'[k].n
                           /\ \A j \in DOMAIN queue[k] : inbufs[k].n < queue[k][j].n
    BY <1>1 DEF Counted
  <2>1. CASE k = i
    <3>1. pad'[k] = b /\ sent'[k] = sent[k] + 1 /\ b.n = sent[k] + 1 BY <1>1, <1>2, <2>1
    <3>2. QED BY <1>2, <3>1 DEF AccountInv, Counted
  <2>2. CASE k # i
    <3>1. pad'[k] = pad[k] /\ sent'[k] = sent[k] BY <1>1, <1>2, <2>2
    <3>2. QED BY <3>1 DEF AccountInv, Counted
  <2>3. QED BY <2>1, <2>2
<1>5. InHand' BY <1>1 DEF AccountInv, InHand
<1>6. InputsAccounted'
  <2>1. Refs(pad') = Refs(pad) \cup {b}
    <3>1. ASSUME NEW x PROVE x \in Refs(pad') <=> x \in Refs(pad) \cup {b}
      <4>1. \A k \in Streams : pad'[k] = IF k = i THEN b ELSE pad[k] BY <1>1, <1>2
      <4>0. pad[i] = None BY <1>1
      <4> HIDE DEF b
      <4>2. x \in Refs(pad') <=> x # None /\ \E k \in Streams : x = pad'[k] BY DEF Refs
      <4>3. x \in Refs(pad) <=> x # None /\ \E k \in Streams : x = pad[k] BY DEF Refs
      <4>4. CASE x = b BY <1>3, <4>1, <4>2, <4>4
      <4>5. CASE x # b
        <5>1. ASSUME x # None, NEW k \in Streams, x = pad'[k] PROVE x = pad[k]
          BY <4>1, <4>5, <5>1
        <5>2. ASSUME x # None, NEW k \in Streams, x = pad[k] PROVE x = pad'[k]
          BY <4>0, <4>1, <5>2
        <5>3. QED BY <4>2, <4>3, <4>5, <5>1, <5>2
      <4>6. QED BY <4>4, <4>5
    <3>2. QED BY <3>1
  <2>2. QED BY <1>1, <2>1 DEF AccountInv, InputsAccounted
<1>7. QED BY <1>4, <1>5, <1>6 DEF AccountInv

\* What collect() appends to the queues are the buffers of the pads.
LEMMA PulledQueued ==
  ASSUME StepInv, NEW I \in SUBSET Streams, \A i \in I : pad[i] # None
  PROVE  Queued(Pulled(I)) = Queued(queue) \cup {pad[i] : i \in I}
<1>1. ASSUME NEW k \in Streams
      PROVE  {Pulled(I)[k][j] : j \in DOMAIN Pulled(I)[k]}
             = {queue[k][j] : j \in DOMAIN queue[k]} \cup (IF k \in I THEN {pad[k]} ELSE {})
  <2>1. queue[k] \in Seq(Frames) BY DEF StepInv, TypeOK
  <2>2. CASE k \notin I
    <3>1. Pulled(I)[k] = queue[k] BY <2>2 DEF Pulled
    <3>2. QED BY <2>2, <3>1
  <2>3. CASE k \in I
    <3>1. Pulled(I)[k] = Append(queue[k], pad[k]) BY <2>3 DEF Pulled
    <3>2. pad[k] \in Frames BY <2>3 DEF StepInv, TypeOK
    <3>3. /\ DOMAIN Append(queue[k], pad[k]) = 1 .. Len(queue[k]) + 1
          /\ DOMAIN queue[k] = 1 .. Len(queue[k]) /\ Len(queue[k]) \in Nat
          /\ \A j \in 1 .. Len(queue[k]) : Append(queue[k], pad[k])[j] = queue[k][j]
          /\ Append(queue[k], pad[k])[Len(queue[k]) + 1] = pad[k]
      BY <2>1, <3>2
    <3>4. 1 .. Len(queue[k]) + 1 = (1 .. Len(queue[k])) \cup {Len(queue[k]) + 1}
      BY <3>3
    <3>5. QED BY <2>3, <3>1, <3>3, <3>4
  <2>4. QED BY <2>2, <2>3
<1>2. ASSUME NEW x
      PROVE  x \in Queued(Pulled(I)) <=> x \in Queued(queue) \cup {pad[i] : i \in I}
  <2>1. x \in Queued(Pulled(I)) <=>
          \E k \in Streams : x \in {Pulled(I)[k][j] : j \in DOMAIN Pulled(I)[k]}
    BY DEF Queued
  <2>2. x \in Queued(queue) <=> \E k \in Streams : x \in {queue[k][j] : j \in DOMAIN queue[k]}
    BY DEF Queued
  <2>3. QED BY <1>1, <2>1, <2>2
<1>3. QED BY <1>2

LEMMA EndAccount ==
  ASSUME AccountInv, StepInv', Start \/ AllEos \/ SomeEos \/ BeginStop \/ Stop
  PROVE  AccountInv'
<1>1. /\ sent' = sent /\ pad' \in {pad, Nothing} /\ queue' \in {queue, Empty}
      /\ inbufs' = inbufs /\ pc' = pc
      /\ inputs' = inputs \ ((IF pad' = pad THEN {} ELSE Refs(pad))
                             \cup (IF queue' = queue THEN {} ELSE Queued(queue)))
  <2>1. CASE Start
    <3>1. queue = Empty BY <2>1 DEF Start, AccountInv, InputsAccounted
    <3>2. QED BY <2>1, <3>1 DEF Start, upVars
  <2>2. CASE AllEos BY <2>2, EmptyRefs DEF AllEos, upVars
  <2>3. CASE SomeEos
    <3>1. pc = "idle" /\ pc' = "idle" BY <2>3 DEF SomeEos, Fail
    <3>2. QED BY <2>3, <3>1, EmptyRefs DEF SomeEos, Fail, upVars
  <2>4. CASE BeginStop BY <2>4, EmptyRefs DEF BeginStop, upVars
  <2>5. CASE Stop BY <2>5, EmptyRefs DEF Stop, upVars
  <2>6. QED BY <2>1, <2>2, <2>3, <2>4, <2>5
<1>2. /\ Counted'
      /\ inputs' = Refs(pad') \cup Queued(queue') \cup Refs(inbufs')
  BY <1>1, EmptiedStep
<1>3. InHand'
  <2>1. state' = "stopping" => pad' = Nothing
    BY DEF Start, AllEos, SomeEos, BeginStop, Stop, Fail
  <2>2. state' = "ready" => pad' = Nothing
    BY DEF Start, AllEos, SomeEos, BeginStop, Stop, Fail, AccountInv, InHand
  <2>3. QED BY <1>1, <2>1, <2>2 DEF AccountInv, InHand
<1>4. state' = "ready" => inputs' = {} /\ pad' = Nothing /\ queue' = Empty
  <2> SUFFICES ASSUME state' = "ready" PROVE inputs' = {} /\ pad' = Nothing /\ queue' = Empty
    OBVIOUS
  <2>1. Stop BY DEF Start, AllEos, SomeEos, BeginStop, Fail
  <2>2. queue' = Empty /\ pc = "idle" /\ pad' = Nothing BY <1>3, <2>1 DEF Stop, InHand
  <2>3. inbufs' = Nothing BY <1>1, <2>2 DEF AccountInv, InHand
  <2>4. QED BY <1>2, <2>2, <2>3, EmptyRefs
<1>5. QED BY <1>2, <1>3, <1>4 DEF AccountInv, InputsAccounted

\* The task with a picture in hand, and downstream.
LEMMA PictureAccount ==
  ASSUME AccountInv, StepInv',
         Acquire \/ AcquireFails \/ Blit \/ BlitFails \/ Push \/ PushRefused \/ Recycle
  PROVE  AccountInv'
<1>1. /\ sent' = sent /\ pad' \in {pad, Nothing} /\ queue' = queue
      /\ inbufs' \in {inbufs, Nothing}
      /\ inputs' = inputs \ ((IF pad' = pad THEN {} ELSE Refs(pad))
                             \cup (IF inbufs' = inbufs THEN {} ELSE Refs(inbufs)))
  <2>1. CASE Acquire \/ Push \/ Recycle
    BY <2>1 DEF Acquire, Push, Recycle, upVars
  <2>2. CASE Blit BY <2>2, EmptyRefs DEF Blit, upVars
  <2>3. CASE AcquireFails BY <2>3, EmptyRefs DEF AcquireFails, Fail
  <2>4. CASE BlitFails BY <2>4, EmptyRefs DEF BlitFails, Fail
  <2>5. CASE PushRefused BY <2>5, EmptyRefs DEF PushRefused, Fail
  <2>6. QED BY <2>1, <2>2, <2>3, <2>4, <2>5
<1>2. /\ Counted'
      /\ inputs' = Refs(pad') \cup Queued(queue') \cup Refs(inbufs')
  BY <1>1, EmptiedStep
<1>3. (InHand' /\ state' # "ready") \/ Recycle
  <2>1. CASE Acquire BY <2>1 DEF Acquire, AccountInv, InHand, StepInv, TaskInv
  <2>2. CASE Blit BY <2>2 DEF Blit, AccountInv, InHand, StepInv, TaskInv
  <2>3. CASE Push BY <2>3 DEF Push, AccountInv, InHand, StepInv, TaskInv
  <2>4. CASE AcquireFails \/ BlitFails \/ PushRefused
    <3>1. pad' = Nothing /\ state' \in {"error", "stopping"}
      BY <2>4 DEF AcquireFails, BlitFails, PushRefused, Fail
    <3>2. pc' = "idle" /\ inbufs' = Nothing
      BY <2>4 DEF AcquireFails, BlitFails, PushRefused, Fail, AccountInv, InHand
    <3>3. QED BY <3>1, <3>2 DEF InHand
  <2>5. QED BY <2>1, <2>2, <2>3, <2>4
<1>4. InHand' /\ (state' = "ready" => inputs' = {} /\ pad' = Nothing /\ queue' = Empty)
  BY <1>1, <1>3 DEF Recycle, AccountInv, InHand, InputsAccounted
<1>5. QED BY <1>2, <1>4 DEF AccountInv, InputsAccounted

\* collect(): the buffers of the pads go to the queues or to the picture.
LEMMA CollectAccount == ASSUME AccountInv, StepInv', Collect PROVE AccountInv'
<1>0. /\ pc = "idle" /\ inbufs = Nothing /\ eos = {} /\ state = "run"
      /\ \A i \in Streams : pad[i] # None
      /\ pad' = Nothing /\ sent' = sent /\ state' # "ready" /\ state' # "stopping"
  BY DEF Collect, CollectMismatch, CollectMatch, CollectRefused, Ready, upVars,
         AccountInv, InHand
<1>1. /\ inputs = Refs(pad) \cup Queued(queue)
      /\ Refs(pad) = {pad[i] : i \in Streams} /\ Refs(pad') = {}
      /\ Refs(pad) \cap Queued(queue) = {}
  <2>1. Refs(pad) = {pad[i] : i \in Streams} BY <1>0 DEF Refs
  <2>2. QED BY <1>0, <2>1, EmptyRefs, Apart DEF AccountInv, InputsAccounted
<1>2. ASSUME NEW I \in SUBSET Streams, queue' = Pulled(I), inbufs' = inbufs
      PROVE  Counted'
  <2>1. \A k \in Streams : /\ pad[k].n <= sent[k] /\ pad'[k] = None /\ inbufs'[k] = None
                           /\ \A j \in DOMAIN queue[k] : queue[k][j].n <= sent[k]
    BY <1>0, <1>2, NothingFacts DEF AccountInv, Counted
  <2>2. ASSUME NEW k \in Streams, NEW j \in DOMAIN queue'[k]
        PROVE  queue'[k][j].n <= sent[k]
    <3>1. queue[k] \in Seq(Frames) /\ pad[k] \in Frames
      BY <1>0 DEF AccountInv, StepInv, TypeOK
    <3>2. queue'[k] = IF k \in I THEN Append(queue[k], pad[k]) ELSE queue[k]
      BY <1>2 DEF Pulled
    <3>3. CASE k \notin I BY <2>1, <3>2, <3>3
    <3>4. CASE k \in I
      <4>1. j \in 1 .. Len(queue[k]) + 1 BY <3>1, <3>2, <3>4
      <4>2. queue'[k][j] = IF j = Len(queue[k]) + 1 THEN pad[k] ELSE queue[k][j]
        BY <3>1, <3>2, <3>4, <4>1
      <4>3. j # Len(queue[k]) + 1 => j \in DOMAIN queue[k] BY <3>1, <4>1
      <4>4. QED BY <2>1, <4>2, <4>3
    <3>5. QED BY <3>3, <3>4
  <2>3. QED BY <1>0, <2>1, <2>2 DEF Counted
<1>3. ASSUME NEW i \in Streams, CollectRefused(i) PROVE AccountInv'
  <2>1. /\ queue' = Pulled(1 .. i - 1) /\ inbufs' = inbufs /\ pc' = "idle"
        /\ inputs' = inputs \ {pad[j] : j \in i .. N}
    BY <1>0, <1>3 DEF CollectRefused
  <2>2. i \in 1 .. N /\ N \in Nat BY CompositorAssumption DEF Streams
  <2>3. 1 .. i - 1 \in SUBSET Streams /\ i .. N \subseteq Streams
        /\ Streams = (1 .. i - 1) \cup (i .. N)
        /\ \A j \in 1 .. i - 1, k \in i .. N : j # k
    BY <2>2 DEF Streams
  <2>4. Queued(queue') = Queued(queue) \cup {pad[j] : j \in 1 .. i - 1}
    BY <1>0, <2>1, <2>3, PulledQueued DEF AccountInv
  <2>5. {pad[j] : j \in Streams} = {pad[j] : j \in 1 .. i - 1} \cup {pad[j] : j \in i .. N}
    BY <2>3
  <2>6. {pad[j] : j \in 1 .. i - 1} \cap {pad[j] : j \in i .. N} = {}
    <3>1. \A j, k \in Streams : pad[j] = pad[k] => j = k
      <4>1. \A j \in Streams : pad[j].s = j
        BY <1>0 DEF AccountInv, StepInv, OwnStream
      <4>2. QED BY <4>1
    <3>2. QED BY <2>3, <3>1
  <2>7. inputs' = Refs(pad') \cup Queued(queue') \cup Refs(inbufs')
    <3>1. Refs(inbufs') = {} BY <1>0, <2>1, EmptyRefs
    <3>2. QED BY <1>1, <2>1, <2>4, <2>5, <2>6, <3>1
  <2>8. Counted' BY <1>2, <2>1, <2>3
  <2>9. InHand' BY <1>0, <2>1 DEF InHand
  <2>10. QED BY <1>0, <2>7, <2>8, <2>9 DEF AccountInv, InputsAccounted
<1>4. CASE CollectMismatch
  <2>1. queue' = Pulled(Streams) /\ inbufs' = inbufs /\ inputs' = inputs /\ pc' = "idle"
    BY <1>0, <1>4 DEF CollectMismatch
  <2>2. Queued(queue') = Queued(queue) \cup {pad[j] : j \in Streams}
    BY <1>0, <2>1, PulledQueued DEF AccountInv
  <2>3. inputs' = Refs(pad') \cup Queued(queue') \cup Refs(inbufs')
    <3>1. Refs(inbufs') = {} BY <1>0, <2>1, EmptyRefs
    <3>2. QED BY <1>1, <2>1, <2>2, <3>1
  <2>4. Counted' BY <1>2, <2>1
  <2>5. InHand' BY <1>0, <2>1 DEF InHand
  <2>6. QED BY <1>0, <2>3, <2>4, <2>5 DEF AccountInv, InputsAccounted
<1>5. CASE CollectMatch
  <2>1. /\ \A i \in Streams : queue[i] = <<>> /\ Pulled(Streams)[i] = <<pad[i]>>
                              /\ pad[i] \in Frames /\ pad[i].s = i
    BY <1>5, MatchFacts DEF AccountInv
  <2>2. queue' = Empty
    <3>1. queue' = [i \in Streams |-> Tail(Pulled(Streams)[i])] BY <1>5 DEF CollectMatch
    <3>2. ASSUME NEW i \in Streams PROVE Tail(Pulled(Streams)[i]) = <<>>
      <4>1. Pulled(Streams)[i] = <<pad[i]>> BY <2>1
      <4>2. Tail(<<pad[i]>>) = <<>> OBVIOUS
      <4>3. QED BY <4>1, <4>2
    <3>3. QED BY <3>1, <3>2 DEF Empty
  <2>3. Queued(queue) = {} /\ Queued(queue') = {}
    <3>1. \A i \in Streams : DOMAIN queue[i] = {}
      <4>1. DOMAIN <<>> = {} OBVIOUS
      <4>2. QED BY <2>1, <4>1
    <3>2. Queued(queue) = {} BY <3>1, QueuedFact
    <3>3. Queued(queue') = {} BY <2>2, EmptyRefs
    <3>4. QED BY <3>2, <3>3
  <2> DEFINE bufs == [i \in Streams |-> Pulled(Streams)[i][1]]
  <2>4. bufs = [i \in Streams |-> pad[i]] /\ Refs(bufs) = Refs(pad)
    <3>1. \A i \in Streams : Pulled(Streams)[i][1] = pad[i] BY <2>1
    <3>2. bufs = [i \in Streams |-> pad[i]] BY <3>1
    <3>3. QED BY <3>2 DEF Refs
  <2>5. \/ inbufs' = bufs /\ inputs' = inputs /\ pc' = "acquire"
        \/ inputs' = inputs \ Refs(bufs) /\ inbufs' = inbufs /\ pc' = "idle"
    BY <1>0, <1>5 DEF CollectMatch
  <2>6. inputs' = Refs(pad') \cup Queued(queue') \cup Refs(inbufs')
    <3>1. Refs(inbufs) = {} BY <1>0, EmptyRefs
    <3> HIDE DEF bufs
    <3>2. QED BY <1>1, <2>3, <2>4, <2>5, <3>1
  <2>7. Counted'
    <3>1. \A k \in Streams : DOMAIN queue'[k] = {} /\ pad'[k] = None
      <4>1. DOMAIN <<>> = {} OBVIOUS
      <4>2. QED BY <1>0, <2>2, <4>1, NothingFacts
    <3>2. \A k \in Streams : inbufs'[k] # None => inbufs'[k] = pad[k]
      BY <1>0, <2>4, <2>5, NothingFacts
    <3>3. \A k \in Streams : pad[k].s = k /\ pad[k].n <= sent[k]
      BY <1>0, <2>1 DEF AccountInv, Counted
    <3>4. QED BY <1>0, <3>1, <3>2, <3>3 DEF Counted
  <2>8. InHand' BY <1>0, <2>5 DEF InHand
  <2>9. QED BY <1>0, <2>6, <2>7, <2>8 DEF AccountInv, InputsAccounted
<1>6. QED BY <1>3, <1>4, <1>5 DEF Collect

LEMMA AccountNext == AccountInv /\ [Next]_vars => AccountInv'
<1> SUFFICES ASSUME AccountInv, [Next]_vars PROVE AccountInv' OBVIOUS
<1>0. StepInv' BY StepNext DEF AccountInv
<1>1. ASSUME UNCHANGED <<state, pc, pad, queue, inbufs, inputs, sent>> PROVE AccountInv'
  <2>1. Counted' BY <1>1 DEF AccountInv, Counted
  <2>2. InHand' BY <1>1 DEF AccountInv, InHand
  <2>3. Queued(queue') = Queued(queue) /\ Refs(pad') = Refs(pad) /\ Refs(inbufs') = Refs(inbufs)
    BY <1>1
  <2>4. InputsAccounted' BY <1>1, <2>3 DEF AccountInv, InputsAccounted
  <2>5. QED BY <1>0, <2>1, <2>2, <2>4 DEF AccountInv
<1>2. CASE UNCHANGED vars BY <1>1, <1>2 DEF vars, taskVars, upVars
<1>3. ASSUME NEW i \in Streams, Mishap(i) \/ Eos(i) PROVE AccountInv'
  BY <1>1, <1>3 DEF Mishap, Eos, taskVars, upVars
<1>4. CASE Next
  BY <1>0, <1>3, <1>4, ArriveAccount, EndAccount, CollectAccount, PictureAccount
     DEF Next, Aggregate
<1>5. QED BY <1>2, <1>4

\* Every frame of any number of streams that was handed to the element is given
\* back once, on every path through collect(), aggregate() and stop().
THEOREM FramesAccounted == Spec => []InputsAccounted
<1>1. AccountInv => InputsAccounted BY DEF AccountInv
<1>2. QED BY <1>1, AccountInit, AccountNext, PTL DEF Spec
=============================================================================
