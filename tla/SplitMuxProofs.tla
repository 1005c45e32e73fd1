--------------------------- MODULE SplitMuxProofs ---------------------------
(***************************************************************************)
(* splitmuxsink's assertions hold, and its files partition the input, for  *)
(* any number of streams, queue size and threshold, with split requests,   *)
(* stops and files that cannot be opened at any time.                      *)
(*                                                                         *)
(* IInv says how the input threads share the GOPs.  One of them has the    *)
(* lock at a time.  The element waits for a GOP only while the reference   *)
(* stream is at EOS or is held up by that GOP, whose end it has then seen; *)
(* only at EOS is the last GOP given away.                                 *)
(*                                                                         *)
(* The files rest on three more, each on the one before it: FlowInv (each  *)
(* stream passes threads, queue and muxer once and in order), GopsInv (the *)
(* limit of the output is where a GOP of the reference starts), and OutInv *)
(* with CutInv (a file ends when all streams have reached the limit).      *)
(***************************************************************************)
EXTENDS SplitMux, TLAPS, FiniteSetTheorems, WellFoundedInduction, SequenceTheorems

InPcs == {"idle", "loop", "check", "unblocked", "collect", "pass", "queue", "grow",
          "set", "full", "wait", "woken", "gopwait", "gopwoken", "done"}

(* The shape of the state, and the types the argument needs.               *)
InOK ==
  /\ DOMAIN in = Streams
  /\ \A s \in Streams :
       /\ DOMAIN in[s] = {"pc", "n", "rt", "dts", "key", "eos", "unblock"}
       /\ in[s].pc \in InPcs /\ in[s].n \in 0 .. Len(input[s])
       /\ in[s].rt \in Times \cup {NoTime} /\ in[s].dts \in Times \cup {NoTime}
       /\ in[s].key \in BOOLEAN /\ in[s].eos \in BOOLEAN

GopType == [start : Times, pts : Times, bytes : BOOLEAN, ref : BOOLEAN]

CollectOK ==
  /\ DOMAIN collect = {"state", "max", "maxDts", "start", "gops", "ref", "splitNext",
                       "splitAfter", "splitAt"}
  /\ collect.state \in {"collecting", "waiting", "finishing", "stopped"}
  /\ collect.max \in Times \cup {NoTime} /\ collect.maxDts \in Times \cup {NoTime}
  /\ collect.gops \in Seq(GopType)

Items(s) == [kind : {"eos"}] \cup [kind : {"unblock"}, rt : Times \cup {NoTime}]
            \cup [kind : {"buffer"}, n : 0 .. Len(input[s]), rt : Times \cup {NoTime},
                  key : BOOLEAN]

QueueGood(q) ==
  /\ DOMAIN q = Streams
  /\ \A s \in Streams :
       /\ DOMAIN q[s] = {"items", "limit", "seen", "queued"}
       /\ q[s].items \in Seq(Items(s)) /\ q[s].limit \in Nat
       /\ q[s].limit >= QueueSize /\ q[s].queued \in Nat
       /\ q[s].seen \in Nat /\ q[s].seen >= QueueSize
QueueOK == QueueGood(queue)

(* An output thread has an item once it has left its queue.                *)
Rest == {"idle", "starved", "done"}
OutGood(f) ==
  /\ DOMAIN f = Streams
  /\ \A s \in Streams :
       /\ DOMAIN f[s] = {"pc", "item", "rt", "eos", "padEos"}
       /\ f[s].pc \notin Rest => f[s].item \in Items(s)
OutOK == OutGood(out)

OutputOK ==
  /\ DOMAIN output = {"state", "max", "cmds", "muxed", "ready", "keys"}
  /\ output.state \in {"next_file", "awaiting", "output_gop", "ending_file",
                       "ending_stream", "stopped"}

MuxOK ==
  /\ DOMAIN mux = Streams
  /\ \A s \in Streams : /\ DOMAIN mux[s] = {"buf", "eos"}
                        /\ mux[s].buf \in 0 .. Len(input[s])

(* One thread has the lock.                                                *)
OneLocked == \A s, t \in Streams : in[s].pc \in Locked /\ in[t].pc \in Locked => s = t

(* Where the threads are while a GOP is waited for, and at EOS.            *)
Held == {"check", "unblocked", "collect", "gopwait", "gopwoken"}
PcOf(s) ==
  /\ in[s].eos => in[s].pc \in {"check", "unblocked", "collect", "queue", "done"}
  /\ in[s].pc \in {"check", "collect"} => collect.state = "waiting"
  /\ in[s].pc = "pass" => collect.state \in {"finishing", "stopped"} \/ in[Ref].n > 0
PcInv == /\ in[Ref].n = 0 => in[Ref].pc \in {"idle", "done"} /\ ~in[Ref].eos
         /\ \A s \in Streams : PcOf(s)

(* The GOPs: there is one as soon as the reference stream has begun, none  *)
(* starts after the running time it has reached, and the one that is       *)
(* waited for has a successor, unless the stream has ended.                *)
GopInv ==
  /\ in[Ref].n = 0 => collect.state \in {"collecting", "stopped"} /\ collect.max = NoTime
  /\ in[Ref].n > 0 /\ collect.state \in {"collecting", "waiting"} => Gops # <<>>
  /\ \A i \in 1 .. Len(Gops) : Gops[i].start <= in[Ref].rt
  /\ collect.state = "finishing" => in[Ref].eos
  /\ collect.state = "waiting" /\ ~in[Ref].eos =>
       /\ in[Ref].pc \in Held
       /\ HasNext /\ collect.maxDts >= Gops[2].pts

(* The side of the input threads, and that of the output threads.          *)
InputInv == /\ input \in Inputs /\ stop \in {"no", "shutdown", "stopped"}
            /\ InOK /\ CollectOK /\ OneLocked /\ PcInv /\ GopInv
OutputInv == QueueOK /\ OutOK /\ OutputOK /\ MuxOK

IInv == InputInv /\ OutputInv

-----------------------------------------------------------------------------
(* What the helpers do to the threads.                                     *)

InFields == {"pc", "n", "rt", "dts", "key", "eos", "unblock"}
Records(f) == DOMAIN f = Streams /\ \A s \in Streams : DOMAIN f[s] = InFields
SameData(x, y) == /\ x.n = y.n /\ x.rt = y.rt /\ x.dts = y.dts /\ x.key = y.key
                  /\ x.eos = y.eos

LEMMA TimeRange ==
  ASSUME NEW x \in Times \cup {NoTime}
  PROVE  x \in Int /\ NoTime <= x /\ x < MaxTime
BY DEF Times, NoTime, MaxTime

LEMMA TimeValue ==
  ASSUME NEW x \in Times
  PROVE  x \in Nat /\ x # NoTime /\ x # MaxTime /\ NoTime < x
BY DEF Times, NoTime, MaxTime

LEMMA AtKept ==
  ASSUME NEW f, Records(f), NEW s \in Streams, NEW p
  PROVE  /\ Records(At(f, s, p)) /\ At(f, s, p)[s].pc = p
         /\ \A t \in Streams : /\ SameData(At(f, s, p)[t], f[t])
                               /\ t # s => At(f, s, p)[t] = f[t]
BY DEF At, Records, InFields, SameData

LEMMA WakeKept ==
  ASSUME NEW f, Records(f)
  PROVE  /\ Records(WakeInput(f))
         /\ \A t \in Streams :
              /\ SameData(WakeInput(f)[t], f[t])
              /\ WakeInput(f)[t].pc = CASE f[t].pc = "wait" -> "woken"
                                         [] f[t].pc = "gopwait" -> "gopwoken"
                                         [] OTHER -> f[t].pc
BY DEF WakeInput, Records, InFields, SameData

-----------------------------------------------------------------------------
(* A step of one input thread: the others have not got the lock and are at *)
(* most woken up.                                                          *)

Alone(s) == \A t \in Streams \ {s} : in[t].pc \notin Locked
Woken(p, q) == \/ q = p
               \/ p = "wait" /\ q = "woken"
               \/ p = "gopwait" /\ q = "gopwoken"
Others(s) == \A t \in Streams \ {s} : /\ SameData(in'[t], in[t])
                                      /\ Woken(in[t].pc, in'[t].pc)

LEMMA Lone ==
  ASSUME InputInv, NEW s \in Streams, Free \/ in[s].pc \in Locked
  PROVE  Alone(s)
BY DEF InputInv, OneLocked, Free, Alone

LEMMA Counted ==
  ASSUME InputInv
  PROVE  /\ input[Ref] # <<>>
         /\ \A s \in Streams :
              /\ input[s] \in Seq([pts : Times, dts : Times, key : BOOLEAN])
              /\ Len(input[s]) \in Nat /\ in[s].n \in Nat /\ in[s].n <= Len(input[s])
<1>1. input \in [Streams -> Seq([pts : Times, dts : Times, key : BOOLEAN])]
  BY SplitMuxAssumption DEF InputInv
<1>2. input[Ref] # <<>>
  BY SplitMuxAssumption DEF InputInv
<1>3. ASSUME NEW s \in Streams
      PROVE  /\ input[s] \in Seq([pts : Times, dts : Times, key : BOOLEAN])
             /\ Len(input[s]) \in Nat /\ in[s].n \in Nat /\ in[s].n <= Len(input[s])
  <2>1. PICK S : S = [pts : Times, dts : Times, key : BOOLEAN]
    OBVIOUS
  <2>2. input[s] \in Seq(S)
    BY <1>1, <2>1
  <2>3. Len(input[s]) \in Nat
    BY <2>2
  <2>4. in[s].n \in 0 .. Len(input[s])
    BY DEF InputInv, InOK
  <2>5. QED BY <2>1, <2>2, <2>3, <2>4
<1>4. QED BY <1>2, <1>3

LEMMA InKept ==
  ASSUME InputInv, NEW s \in Streams, Records(in'), Others(s), UNCHANGED input,
         in'[s].pc \in InPcs, in'[s].n \in 0 .. Len(input[s]),
         in'[s].rt \in Times \cup {NoTime}, in'[s].dts \in Times \cup {NoTime},
         in'[s].key \in BOOLEAN, in'[s].eos \in BOOLEAN
  PROVE  InOK'
BY DEF InputInv, InOK, Records, InFields, Others, SameData, Woken, InPcs

LEMMA PcKept ==
  ASSUME InputInv, NEW s \in Streams, Alone(s), Others(s), PcOf(s)',
         s = Ref /\ in'[s].n = 0 => in'[s].pc \in {"idle", "done"} /\ ~in'[s].eos
  PROVE  OneLocked' /\ PcInv'
<1>1. \A t \in Streams \ {s} : in'[t].pc \notin Locked
  BY DEF Alone, Others, Woken, Locked
<1>2. \A t \in Streams \ {s} : PcOf(t)'
  BY <1>1 DEF InputInv, PcInv, PcOf, Others, SameData, Woken, Locked
<1>3. in'[Ref].n = 0 => in'[Ref].pc \in {"idle", "done"} /\ ~in'[Ref].eos
  BY SplitMuxAssumption DEF InputInv, PcInv, Others, SameData, Woken
<1>4. QED BY <1>1, <1>2, <1>3 DEF OneLocked, PcInv

LEMMA GopKept ==
  ASSUME InputInv, NEW s \in Streams, s # Ref, Others(s), UNCHANGED collect
  PROVE  GopInv'
BY SplitMuxAssumption
   DEF InputInv, GopInv, Others, SameData, Woken, Held, Gops, HasNext

LEMMA Stepped ==
  ASSUME Records(in), NEW s \in Streams, NEW f, Records(f),
         \A t \in Streams \ {s} : SameData(f[t], in[t]) /\ f[t].pc = in[t].pc,
         in' = f \/ in' = WakeInput(f), f[s].pc \notin {"wait", "gopwait"}
  PROVE  Records(in') /\ Others(s) /\ SameData(in'[s], f[s]) /\ in'[s].pc = f[s].pc
<1>1. CASE in' = f
  BY <1>1 DEF Others, Woken, SameData
<1>2. CASE in' = WakeInput(f)
  <2>1. /\ Records(in')
        /\ \A t \in Streams :
             /\ SameData(in'[t], f[t])
             /\ in'[t].pc = CASE f[t].pc = "wait" -> "woken"
                              [] f[t].pc = "gopwait" -> "gopwoken"
                              [] OTHER -> f[t].pc
    BY <1>2, WakeKept
  <2>2. QED BY <1>2, <2>1 DEF Others, SameData, Woken
<1>3. QED BY <1>1, <1>2

LEMMA Moved ==
  ASSUME InputInv, NEW s \in Streams, NEW f, Records(f), UNCHANGED input,
         \A t \in Streams : SameData(f[t], in[t]) /\ (t # s => f[t].pc = in[t].pc),
         f[s].pc \in InPcs,
         in' = f \/ in' = WakeInput(f), f[s].pc \notin {"wait", "gopwait"}
  PROVE  InOK' /\ Others(s) /\ SameData(in'[s], in[s]) /\ in'[s].pc = f[s].pc
<1>1. Records(in)
  BY DEF InputInv, InOK, Records, InFields
<1>2. Records(in') /\ Others(s) /\ SameData(in'[s], f[s]) /\ in'[s].pc = f[s].pc
  BY <1>1, Stepped
<1>3. QED BY <1>2, InKept DEF InputInv, InOK, SameData

LEMMA MovedTo ==
  ASSUME InputInv, NEW s \in Streams, NEW p \in InPcs, UNCHANGED input,
         in' = At(in, s, p)
  PROVE  InOK' /\ Others(s) /\ SameData(in'[s], in[s]) /\ in'[s].pc = p
<1>1. Records(in)
  BY DEF InputInv, InOK, Records, InFields
<1>2. /\ Records(in') /\ in'[s].pc = p
      /\ \A t \in Streams : SameData(in'[t], in[t]) /\ (t # s => in'[t] = in[t])
  BY <1>1, AtKept
<1>3. Others(s)
  BY <1>2 DEF Others, Woken
<1>4. QED BY <1>2, <1>3, InKept DEF InputInv, InOK, SameData

(* A step of s that leaves the GOPs alone.                                 *)
LEMMA PlainStep ==
  ASSUME InputInv, NEW s \in Streams, UNCHANGED <<input, stop, collect>>,
         InOK', Alone(s), Others(s), SameData(in'[s], in[s]), PcOf(s)',
         s = Ref /\ in[s].n = 0 => in'[s].pc = "done",
         s = Ref /\ collect.state = "waiting" /\ ~in[s].eos => in'[s].pc \in Held
  PROVE  InputInv'
<1>1. OneLocked' /\ PcInv'
  BY PcKept DEF SameData, InputInv, PcInv
<1>2. GopInv'
  <2>1. CASE s # Ref
    BY <2>1, GopKept
  <2>2. CASE s = Ref
    BY <2>2 DEF InputInv, GopInv, Gops, HasNext, SameData
  <2>3. QED BY <2>1, <2>2
<1>3. QED BY <1>1, <1>2 DEF InputInv, CollectOK

LEMMA StepCollectOther == ASSUME InputInv, NEW s \in Streams, CollectOther(s) PROVE InputInv'
<1> USE DEF outputVars, muxVars, appVars
<1>1. PICK p \in {"pass", "check", "wait"} :
        /\ in' = At(in, s, p) /\ (p = "check" => collect.state = "waiting")
        /\ p = "pass" => in[s].rt < collect.max
  BY DEF CollectOther
<1>2. Alone(s) /\ in[s].pc = "loop"
  BY Lone DEF CollectOther, Locked
<1>3. UNCHANGED <<input, stop, collect>> /\ s # Ref /\ ~in[s].eos
  BY DEF CollectOther, InputInv, PcInv, PcOf
<1>4. p \in InPcs
  BY DEF InPcs
<1>5. InOK' /\ Others(s) /\ SameData(in'[s], in[s]) /\ in'[s].pc = p
  BY <1>1, <1>3, <1>4, MovedTo
<1>6. p = "pass" => in[Ref].n > 0
  <2>1. in[s].rt \in Int /\ in[s].rt >= NoTime
    <3>1. in[s].rt \in Times \cup {NoTime}
      BY DEF InputInv, InOK
    <3>2. QED BY <3>1, TimeRange
  <2>2. in[Ref].n = 0 => collect.max = NoTime
    BY DEF InputInv, GopInv
  <2>3. in[Ref].n \in Nat
    BY Counted, SplitMuxAssumption
  <2>4. QED BY <1>1, <2>1, <2>2, <2>3 DEF NoTime
<1>7. in'[Ref].n = in[Ref].n
  BY <1>3, <1>5, SplitMuxAssumption DEF Others, SameData
<1>8. PcOf(s)'
  BY <1>1, <1>3, <1>5, <1>6, <1>7 DEF PcOf, SameData
<1>9. QED BY <1>2, <1>3, <1>5, <1>8, PlainStep

LEMMA StepPassUncollected == ASSUME InputInv, NEW s \in Streams, PassUncollected(s) PROVE InputInv'
<1> USE DEF outputVars, muxVars, appVars
<1>1. PICK p \in {"pass"} :
        in' = At(in, s, p) /\ collect.state \in {"finishing", "stopped"}
  BY DEF PassUncollected
<1>2. Alone(s) /\ in[s].pc = "loop"
  BY Lone DEF PassUncollected, Locked
<1>3. UNCHANGED <<input, stop, collect>>
  BY DEF PassUncollected
<1>4. p \in InPcs
  BY <1>1 DEF InPcs
<1>5. InOK' /\ Others(s) /\ SameData(in'[s], in[s]) /\ in'[s].pc = p
  BY <1>1, <1>3, <1>4, MovedTo
<1>6. ~in[s].eos /\ (s = Ref => in[s].n # 0)
  BY <1>1, <1>2, SplitMuxAssumption DEF InputInv, PcInv, PcOf, GopInv, Held
<1>7. in'[Ref].n = in[Ref].n /\ in[Ref].n \in Nat
  BY <1>5, Counted, SplitMuxAssumption DEF Others, SameData
<1>8. PcOf(s)'
  BY <1>1, <1>2, <1>3, <1>5, <1>6, <1>7 DEF PcOf, SameData
<1>9. QED BY <1>1, <1>2, <1>3, <1>5, <1>6, <1>8, PlainStep DEF Held

LEMMA StepUnblock == ASSUME InputInv, NEW s \in Streams, Unblock(s) PROVE InputInv'
<1> USE DEF outputVars, muxVars, appVars
<1>1. PICK p \in {"unblocked", "collect"} : in' = At(in, s, p)
  BY DEF Unblock
<1>2. Alone(s) /\ in[s].pc = "check"
  BY Lone DEF Unblock, Locked
<1>3. UNCHANGED <<input, stop, collect>>
  BY DEF Unblock
<1>4. p \in InPcs
  BY <1>1 DEF InPcs
<1>5. InOK' /\ Others(s) /\ SameData(in'[s], in[s]) /\ in'[s].pc = p
  BY <1>1, <1>3, <1>4, MovedTo
<1>6. (s = Ref => in[s].n # 0) /\ collect.state = "waiting"
  BY <1>1, <1>2, SplitMuxAssumption DEF InputInv, PcInv, PcOf, GopInv, Held
<1>7. in'[Ref].n = in[Ref].n /\ in[Ref].n \in Nat
  BY <1>5, Counted, SplitMuxAssumption DEF Others, SameData
<1>8. PcOf(s)'
  BY <1>1, <1>2, <1>3, <1>5, <1>6, <1>7 DEF PcOf, SameData
<1>9. QED BY <1>1, <1>2, <1>3, <1>5, <1>6, <1>8, PlainStep DEF Held

LEMMA StepEnqueue == ASSUME InputInv, NEW s \in Streams, Enqueue(s) PROVE InputInv'
<1> USE DEF outputVars, muxVars, appVars
<1>1. PICK p \in {"idle", "done"} :
        in' = At(in, s, p) /\ (p = "idle" => ~in[s].eos)
  BY DEF Enqueue
<1>2. Alone(s) /\ in[s].pc \in {"queue", "full"}
  BY Lone DEF Enqueue, Locked
<1>3. UNCHANGED <<input, stop, collect>>
  BY DEF Enqueue
<1>4. p \in InPcs
  BY <1>1 DEF InPcs
<1>5. InOK' /\ Others(s) /\ SameData(in'[s], in[s]) /\ in'[s].pc = p
  BY <1>1, <1>3, <1>4, MovedTo
<1>6. s = Ref => in[s].n # 0 /\ (collect.state = "waiting" => in[s].eos)
  BY <1>1, <1>2, SplitMuxAssumption DEF InputInv, PcInv, PcOf, GopInv, Held
<1>7. in'[Ref].n = in[Ref].n /\ in[Ref].n \in Nat
  BY <1>5, Counted, SplitMuxAssumption DEF Others, SameData
<1>8. PcOf(s)'
  BY <1>1, <1>2, <1>3, <1>5, <1>6, <1>7 DEF PcOf, SameData
<1>9. QED BY <1>1, <1>2, <1>3, <1>5, <1>6, <1>8, PlainStep DEF Held

(* The three steps of handle_q_overrun.                                     *)
LEMMA StepOverrun ==
  ASSUME InputInv, NEW s \in Streams, Overrun(s) \/ ReadLimit(s) \/ SetLimit(s)
  PROVE  InputInv'
<1> USE DEF outputVars, muxVars, appVars
<1>1. PICK p \in {"grow", "set", "full"} : in' = At(in, s, p) /\ ~in[s].eos
  BY DEF Overrun, ReadLimit, SetLimit, InputInv, PcInv, PcOf
<1>2. Alone(s) /\ in[s].pc \in {"queue", "grow", "set"}
  BY Lone DEF Overrun, ReadLimit, SetLimit, Locked
<1>3. UNCHANGED <<input, stop, collect>>
  BY DEF Overrun, ReadLimit, SetLimit
<1>4. p \in InPcs
  BY <1>1 DEF InPcs
<1>5. InOK' /\ Others(s) /\ SameData(in'[s], in[s]) /\ in'[s].pc = p
  BY <1>1, <1>3, <1>4, MovedTo
<1>6. s = Ref => in[s].n # 0 /\ (collect.state = "waiting" => in[s].eos)
  BY <1>1, <1>2, SplitMuxAssumption DEF InputInv, PcInv, PcOf, GopInv, Held
<1>7. in'[Ref].n = in[Ref].n /\ in[Ref].n \in Nat
  BY <1>5, Counted, SplitMuxAssumption DEF Others, SameData
<1>8. PcOf(s)'
  BY <1>1, <1>2, <1>3, <1>5, <1>6, <1>7 DEF PcOf, SameData
<1>9. QED BY <1>1, <1>2, <1>3, <1>5, <1>6, <1>8, PlainStep DEF Held

LEMMA StepWakeIn == ASSUME InputInv, NEW s \in Streams, WakeIn(s) PROVE InputInv'
<1> USE DEF outputVars, muxVars, appVars
<1>1. PICK p \in {"loop", "collect", "pass"} :
        /\ in' = At(in, s, p) /\ in[s].pc \in {"woken", "gopwoken"} /\ ~in[s].eos
        /\ p = "loop" => in[s].pc = "woken" \/ s # Ref
        /\ p = "collect" => collect.state = "waiting"
        /\ p = "pass" => s = Ref /\ collect.state # "waiting"
  <2>1. in[s].pc \in {"woken", "gopwoken"} => ~in[s].eos
    BY DEF InputInv, PcInv, PcOf
  <2>2. QED BY <2>1 DEF WakeIn, Checked
<1>2. Alone(s)
  BY Lone DEF WakeIn, Locked
<1>3. UNCHANGED <<input, stop, collect>>
  BY DEF WakeIn
<1>4. p \in InPcs
  BY <1>1 DEF InPcs
<1>5. InOK' /\ Others(s) /\ SameData(in'[s], in[s]) /\ in'[s].pc = p
  BY <1>1, <1>3, <1>4, MovedTo
<1>6. (s = Ref => in[s].n # 0 /\ (collect.state = "waiting" /\ ~in[s].eos => p = "collect"))
  BY <1>1, <1>2, SplitMuxAssumption DEF InputInv, PcInv, PcOf, GopInv, Held
<1>7. in'[Ref].n = in[Ref].n /\ in[Ref].n \in Nat
  BY <1>5, Counted, SplitMuxAssumption DEF Others, SameData
<1>8. PcOf(s)'
  BY <1>1, <1>2, <1>3, <1>5, <1>6, <1>7 DEF PcOf, SameData
<1>9. QED BY <1>1, <1>2, <1>3, <1>5, <1>6, <1>8, PlainStep DEF Held

LEMMA StepAfterUnblock == ASSUME InputInv, NEW s \in Streams, AfterUnblock(s) PROVE InputInv'
<1> USE DEF outputVars, muxVars, appVars
<1>1. PICK p : p = IF collect.state = "waiting" THEN "collect" ELSE Checked(s)
  OBVIOUS
<1>2. /\ Alone(s) /\ in[s].pc = "unblocked" /\ (s = Ref => in[s].n # 0)
      /\ p \in {"collect", "queue", "pass", "loop"}
      /\ p = "pass" => s = Ref
      /\ p \in {"pass", "loop"} => ~in[s].eos
      /\ p = "collect" <=> collect.state = "waiting"
  BY <1>1, Lone DEF AfterUnblock, Checked, InputInv, PcInv
<1>3. UNCHANGED <<input, stop, collect>>
  BY DEF AfterUnblock
<1>4. PICK f : f = [in EXCEPT ![s].unblock = FALSE, ![s].pc = p]
  OBVIOUS
<1>5. /\ Records(f) /\ f[s].pc = p
      /\ \A t \in Streams : SameData(f[t], in[t]) /\ (t # s => f[t].pc = in[t].pc)
  BY <1>4 DEF InputInv, InOK, Records, InFields, SameData
<1>6. in' = WakeInput(f)
  BY <1>1, <1>4 DEF AfterUnblock
<1>7. p \in InPcs /\ p \notin {"wait", "gopwait"}
  BY <1>2 DEF InPcs
<1>8. InOK' /\ Others(s) /\ SameData(in'[s], in[s]) /\ in'[s].pc = p
  BY <1>3, <1>5, <1>6, <1>7, Moved
<1>9. in'[Ref].n = in[Ref].n /\ in[Ref].n \in Nat
  BY <1>8, Counted, SplitMuxAssumption DEF Others, SameData
<1>10. PcOf(s)'
  BY <1>2, <1>3, <1>8, <1>9 DEF PcOf, SameData
<1>11. QED BY <1>2, <1>3, <1>8, <1>10, PlainStep DEF Held

LEMMA StepCollectReference ==
  ASSUME InputInv, NEW s \in Streams, CollectReference(s) PROVE InputInv'
<1> USE DEF outputVars, muxVars, appVars
<1>1. PICK known \in BOOLEAN : known = (HasNext /\ in[s].dts >= Gops[2].pts)
  OBVIOUS
<1>2. PICK p : p = IF known THEN "check" ELSE "pass"
  OBVIOUS
<1>3. /\ s = Ref /\ Alone(s) /\ in[s].pc = "loop" /\ in[s].n # 0 /\ ~in[s].eos
      /\ collect.state = "collecting"
  BY Lone DEF CollectReference, Locked, InputInv, PcInv, PcOf
<1>4. /\ collect'.state = (IF known THEN "waiting" ELSE "collecting")
      /\ DOMAIN collect' = DOMAIN collect /\ collect'.gops = collect.gops
      /\ collect'.max = Greater(collect.max, in[s].rt)
      /\ collect'.maxDts = Greater(collect.maxDts, in[s].dts)
  BY <1>1, <1>3 DEF CollectReference, InputInv, CollectOK
<1>5. UNCHANGED <<input, stop>>
  BY DEF CollectReference
<1>6. PICK k \in BOOLEAN : k = (HasNext /\ input[s][in[s].n].key)
  OBVIOUS
<1>7. PICK f : f = [in EXCEPT ![s].pc = p, ![s].key = k]
  OBVIOUS
<1>8. in' = WakeInput(f)
  BY <1>1, <1>2, <1>6, <1>7 DEF CollectReference
<1>9. Records(in)
  BY DEF InputInv, InOK, Records, InFields
<1>10. /\ Records(f) /\ f[s].pc = p /\ f[s].key = k
       /\ f[s].n = in[s].n /\ f[s].rt = in[s].rt /\ f[s].dts = in[s].dts /\ f[s].eos = in[s].eos
       /\ \A t \in Streams \ {s} : SameData(f[t], in[t]) /\ f[t].pc = in[t].pc
  BY <1>7, <1>9 DEF Records, InFields, SameData
<1>11. Records(in') /\ Others(s) /\ SameData(in'[s], f[s]) /\ in'[s].pc = p
  BY <1>2, <1>8, <1>9, <1>10, Stepped
<1>12. InOK'
  BY <1>2, <1>5, <1>10, <1>11, InKept DEF InputInv, InOK, SameData, InPcs
<1>13. CollectOK'
  BY <1>4, <1>3 DEF InputInv, InOK, CollectOK, Greater
<1>14. in'[Ref].n = in[Ref].n /\ in[Ref].n \in Nat /\ in'[Ref].eos = in[Ref].eos
       /\ in'[Ref].rt = in[Ref].rt
  BY <1>3, <1>10, <1>11, Counted DEF SameData
<1>15. PcOf(s)'
  BY <1>2, <1>3, <1>4, <1>11, <1>14 DEF PcOf
<1>16. OneLocked' /\ PcInv'
  BY <1>3, <1>11, <1>14, <1>15, PcKept
<1>17. known => collect'.maxDts >= Gops[2].pts
  <2>1. SUFFICES ASSUME known PROVE Greater(collect.maxDts, in[s].dts) >= Gops[2].pts
    BY <1>4
  <2>2. in[s].dts \in Int /\ collect.maxDts \in Int
    BY TimeRange DEF InputInv, InOK, CollectOK
  <2>3. Gops[2].pts \in Int
    <3>1. Gops \in Seq(GopType) /\ Len(Gops) > 1
      BY <1>1, <2>1 DEF InputInv, CollectOK, Gops, HasNext
    <3>2. Gops[2] \in GopType
      BY <3>1
    <3>3. QED BY <3>2, TimeRange DEF GopType
  <2>4. in[s].dts >= Gops[2].pts
    BY <1>1, <2>1
  <2>5. QED BY <2>2, <2>3, <2>4 DEF Greater
<1>18. Gops' = Gops
  BY <1>4 DEF Gops
<1>19. GopInv'
  BY <1>1, <1>2, <1>3, <1>4, <1>11, <1>14, <1>17, <1>18 DEF InputInv, GopInv, HasNext, Held
<1>20. QED BY <1>5, <1>12, <1>13, <1>16, <1>19 DEF InputInv

LEMMA GopField ==
  ASSUME NEW g \in Seq(GopType), NEW i \in 1 .. Len(g)
  PROVE  g[i] \in GopType /\ g[i].start \in Times /\ g[i].pts \in Times
<1>1. g[i] \in GopType
  OBVIOUS
<1>2. QED BY <1>1 DEF GopType

LEMMA Replaced ==
  ASSUME NEW S, NEW g \in Seq(S), NEW k \in 1 .. Len(g), NEW y \in S,
         NEW h, h = [g EXCEPT ![k] = y]
  PROVE  /\ h \in Seq(S) /\ Len(h) = Len(g)
         /\ \A i \in 1 .. Len(g) : h[i] = IF i = k THEN y ELSE g[i]
OBVIOUS

(* What Tracked and Pass do to the GOPs.                                   *)
LEMMA GopAppended ==
  ASSUME NEW g \in Seq(GopType), NEW x \in GopType, NEW r,
         \A i \in 1 .. Len(g) : g[i].start <= r, x.start <= r
  PROVE  /\ Append(g, x) \in Seq(GopType) /\ Append(g, x) # <<>>
         /\ \A i \in 1 .. Len(Append(g, x)) : Append(g, x)[i].start <= r
OBVIOUS

LEMMA GopStartLowered ==
  ASSUME NEW g \in Seq(GopType), g # <<>>, NEW t \in Times, NEW r \in Times, t <= r,
         \A i \in 1 .. Len(g) : g[i].start <= r,
         NEW h, h = [g EXCEPT ![Len(g)].start = Lesser(@, t)]
  PROVE  /\ h \in Seq(GopType) /\ h # <<>>
         /\ \A i \in 1 .. Len(h) : h[i].start <= r
<1>1. Len(g) \in 1 .. Len(g) /\ g[Len(g)] \in GopType
  OBVIOUS
<1>2. PICK v : v = Lesser(g[Len(g)].start, t)
  OBVIOUS
<1>3. v \in Times /\ v <= r
  BY <1>1, <1>2 DEF Lesser, GopType
<1>4. PICK y : y = [g[Len(g)] EXCEPT !.start = v]
  OBVIOUS
<1>5. y \in GopType /\ y.start = v
  BY <1>1, <1>3, <1>4 DEF GopType
<1>6. h = [g EXCEPT ![Len(g)] = y]
  BY <1>2, <1>4
<1>7. /\ h \in Seq(GopType) /\ Len(h) = Len(g)
      /\ \A i \in 1 .. Len(g) : h[i] = IF i = Len(g) THEN y ELSE g[i]
  BY <1>1, <1>5, <1>6, Replaced
<1>8. h # <<>>
  BY <1>1, <1>7
<1>9. QED BY <1>1, <1>3, <1>5, <1>7, <1>8

LEMMA GopCounted ==
  ASSUME NEW g \in Seq(GopType), g # <<>>, NEW y \in GopType,
         y.start = g[Len(g)].start, y.pts = g[Len(g)].pts,
         NEW h, h = [g EXCEPT ![Len(g)] = y]
  PROVE  /\ h \in Seq(GopType) /\ Len(h) = Len(g)
         /\ \A i \in 1 .. Len(g) : h[i].start = g[i].start /\ h[i].pts = g[i].pts
<1>1. Len(g) \in 1 .. Len(g)
  OBVIOUS
<1>2. /\ h \in Seq(GopType) /\ Len(h) = Len(g)
      /\ \A i \in 1 .. Len(g) : h[i] = IF i = Len(g) THEN y ELSE g[i]
  BY <1>1, Replaced
<1>3. QED BY <1>2

LEMMA GopDropped ==
  ASSUME NEW g \in Seq(GopType), g # <<>>
  PROVE  /\ Tail(g) \in Seq(GopType) /\ Len(Tail(g)) = Len(g) - 1
         /\ Len(g) > 1 => Tail(g) # <<>>
         /\ \A i \in 1 .. Len(Tail(g)) : Tail(g)[i] = g[i + 1] /\ i + 1 \in 1 .. Len(g)
         /\ Head(g) = g[1] /\ g[1] \in GopType
OBVIOUS

LEMMA StepPass == ASSUME InputInv, NEW s \in Streams, Pass(s) PROVE InputInv'
<1> USE DEF outputVars, muxVars, appVars
<1>1. /\ Alone(s) /\ in[s].pc = "pass" /\ ~in[s].eos
      /\ s = Ref => in[s].n # 0 /\ (collect.state = "waiting" => in[s].eos)
  BY Lone, SplitMuxAssumption DEF Pass, Locked, InputInv, PcInv, PcOf, GopInv, Held
<1>2. UNCHANGED <<input, stop>> /\ in' = At(in, s, "queue")
  BY DEF Pass
<1>3. InOK' /\ Others(s) /\ SameData(in'[s], in[s]) /\ in'[s].pc = "queue"
  BY <1>2, MovedTo DEF InPcs
<1>4. /\ in'[Ref].n = in[Ref].n /\ in[Ref].n \in Nat /\ in'[Ref].eos = in[Ref].eos
      /\ in'[Ref].rt = in[Ref].rt /\ (s # Ref => Woken(in[Ref].pc, in'[Ref].pc))
  BY <1>3, Counted, SplitMuxAssumption DEF Others, SameData
<1>5. CASE collect.state \in {"finishing", "stopped"}
  <2>1. UNCHANGED collect
    BY <1>5 DEF Pass
  <2>2. PcOf(s)'
    BY <1>1, <1>3 DEF PcOf, SameData
  <2>3. QED BY <1>1, <1>2, <1>3, <1>5, <2>1, <2>2, PlainStep
<1>6. CASE collect.state \in {"collecting", "waiting"}
  <2>1. PICK g : g = collect.gops
    OBVIOUS
  <2>2. g \in Seq(GopType) /\ g # <<>> /\ \A i \in 1 .. Len(g) : g[i].start <= in[Ref].rt
    BY <1>1, <1>4, <1>6, <2>1 DEF InputInv, CollectOK, GopInv, PcInv, PcOf, Gops
  <2>3. Len(g) \in 1 .. Len(g) /\ g[Len(g)] \in GopType
    BY <2>2
  <2>4. PICK y : y = [g[Len(g)] EXCEPT !.bytes = TRUE, !.ref = @ \/ s = Ref]
    OBVIOUS
  <2>5. PICK v \in BOOLEAN : v = (g[Len(g)].ref \/ s = Ref)
    OBVIOUS
  <2>6. y = [g[Len(g)] EXCEPT !.bytes = TRUE, !.ref = v]
    BY <2>3, <2>4, <2>5 DEF GopType
  <2>7. y \in GopType /\ y.start = g[Len(g)].start /\ y.pts = g[Len(g)].pts
    BY <2>3, <2>6 DEF GopType
  <2>8. PICK h : h = [g EXCEPT ![Len(g)] = y]
    OBVIOUS
  <2>9. /\ h \in Seq(GopType) /\ Len(h) = Len(g)
        /\ \A i \in 1 .. Len(g) : h[i].start = g[i].start /\ h[i].pts = g[i].pts
    BY <2>2, <2>7, <2>8, GopCounted
  <2>10. collect' = [collect EXCEPT !.gops[Len(Gops)] =
                      [Gops[Len(Gops)] EXCEPT !.bytes = TRUE, !.ref = @ \/ s = Ref]]
    BY <1>6 DEF Pass, Last
  <2>11. collect' = [collect EXCEPT !.gops = h]
    BY <2>1, <2>4, <2>8, <2>10 DEF Gops
  <2>12. CollectOK' /\ collect'.state = collect.state /\ collect'.gops = h
         /\ collect'.max = collect.max /\ collect'.maxDts = collect.maxDts
    BY <2>9, <2>11 DEF InputInv, CollectOK
  <2>13. PcOf(s)'
    BY <1>1, <1>3 DEF PcOf, SameData
  <2>14. OneLocked' /\ PcInv'
    BY <1>1, <1>3, <2>13, PcKept DEF SameData
  <2>15. GopInv'
    <3>1. \A i \in 1 .. Len(Gops') : Gops'[i].start <= in'[Ref].rt
      BY <1>4, <2>2, <2>9, <2>12 DEF Gops
    <3>2. Gops' # <<>>
      BY <2>2, <2>9, <2>12 DEF Gops
    <3>3. collect.state = "waiting" /\ ~in[Ref].eos => s # Ref /\ in'[Ref].pc \in Held
      BY <1>1, <1>4 DEF InputInv, GopInv, Woken, Held
    <3>4. collect.state = "waiting" /\ ~in[Ref].eos =>
            HasNext' /\ collect'.maxDts >= Gops'[2].pts
      BY <2>1, <2>2, <2>9, <2>12 DEF InputInv, GopInv, Gops, HasNext
    <3>5. QED BY <1>4, <2>12, <3>1, <3>2, <3>3, <3>4 DEF InputInv, GopInv
  <2>16. QED BY <1>2, <1>3, <2>12, <2>14, <2>15 DEF InputInv
<1>7. QED BY <1>5, <1>6 DEF InputInv, CollectOK

LEMMA StepArrive == ASSUME InputInv, NEW s \in Streams, Arrive(s) PROVE InputInv'
<1> USE DEF outputVars, muxVars, appVars
<1>1. Alone(s) /\ in[s].pc = "idle" /\ in[s].n < Len(input[s]) /\ UNCHANGED <<input, stop>>
  BY Lone DEF Arrive
<1>2. ~in[s].eos /\ (s = Ref => collect.state \in {"collecting", "stopped"})
  BY <1>1 DEF InputInv, CollectOK, PcInv, PcOf, GopInv, Held
<1>3. CASE collect.state = "stopped" /\ in' = At(in, s, "done") /\ UNCHANGED collect
  <2>1. InOK' /\ Others(s) /\ SameData(in'[s], in[s]) /\ in'[s].pc = "done"
    BY <1>1, <1>3, MovedTo DEF InPcs
  <2>2. PcOf(s)'
    BY <2>1 DEF PcOf
  <2>3. QED BY <1>1, <1>3, <2>1, <2>2, PlainStep
<1>4. CASE collect.state # "stopped"
  <2>1. PICK b : b = input[s][in[s].n + 1]
    OBVIOUS
  <2>2. PICK dts : dts = Lesser(b.pts, b.dts)
    OBVIOUS
  <2>3. b \in [pts : Times, dts : Times, key : BOOLEAN] /\ in[s].n + 1 \in 0 .. Len(input[s])
        /\ in[s].n \in Nat
    <3>1. PICK S : S = [pts : Times, dts : Times, key : BOOLEAN]
      OBVIOUS
    <3>2. input[s] \in Seq(S) /\ in[s].n \in Nat /\ in[s].n < Len(input[s])
          /\ Len(input[s]) \in Nat
      BY <1>1, <3>1, Counted
    <3>3. in[s].n + 1 \in 1 .. Len(input[s])
      BY <3>2
    <3>4. input[s][in[s].n + 1] \in S
      BY <3>2, <3>3
    <3>5. QED BY <2>1, <3>1, <3>2, <3>3, <3>4
  <2>4. b.pts \in Times /\ dts \in Times
    BY <2>2, <2>3 DEF Lesser
  <2>5. PICK rt : rt = Greater(in[s].rt, b.pts)
    OBVIOUS
  <2>6. rt \in Times /\ b.pts <= rt /\ in[s].rt <= rt
    <3>1. in[s].rt \in Times \cup {NoTime}
      BY DEF InputInv, InOK
    <3>2. /\ in[s].rt \in Int /\ NoTime <= in[s].rt
          /\ b.pts \in Int /\ NoTime < b.pts
      BY <2>4, <3>1, TimeRange, TimeValue
    <3>3. CASE in[s].rt >= b.pts
      BY <2>4, <2>5, <3>1, <3>2, <3>3 DEF Greater, NoTime
    <3>4. CASE in[s].rt < b.pts
      BY <2>4, <2>5, <3>2, <3>4 DEF Greater
    <3>5. QED BY <3>2, <3>3, <3>4
  <2>7. in' = [in EXCEPT ![s] = [in[s] EXCEPT !.pc = "loop", !.n = @ + 1,
                 !.rt = Greater(@, b.pts), !.dts = dts, !.key = FALSE]]
    BY <1>4, <2>1, <2>2 DEF Arrive
  <2>8. Records(in)
    BY DEF InputInv, InOK, Records, InFields
  <2>9. /\ Records(in') /\ in'[s].pc = "loop" /\ in'[s].n = in[s].n + 1
        /\ in'[s].rt = rt /\ in'[s].dts = dts /\ in'[s].key = FALSE /\ in'[s].eos = in[s].eos
        /\ \A t \in Streams \ {s} : in'[t] = in[t]
    BY <2>5, <2>7, <2>8 DEF Records, InFields
  <2>10. Others(s)
    BY <2>9 DEF Others, SameData, Woken
  <2>11. InOK'
    <3>1. /\ in'[s].pc \in InPcs /\ in'[s].n \in 0 .. Len(input[s])
          /\ in'[s].rt \in Times \cup {NoTime} /\ in'[s].dts \in Times \cup {NoTime}
      BY <2>3, <2>4, <2>6, <2>9 DEF InPcs
    <3>2. in'[s].key \in BOOLEAN /\ in'[s].eos \in BOOLEAN
      BY <2>9 DEF InputInv, InOK
    <3>3. UNCHANGED input /\ Records(in')
      BY <1>1, <2>9
    <3>4. QED BY <2>10, <3>1, <3>2, <3>3, InKept
  <2>12. PcOf(s)'
    BY <1>2, <2>9 DEF PcOf
  <2>13. OneLocked' /\ PcInv'
    <3>1. in'[s].n # 0
      BY <2>3, <2>9
    <3>2. QED BY <1>1, <2>10, <2>12, <3>1, PcKept
  <2>14. CASE s # Ref
    <3>1. UNCHANGED collect
      BY <1>4, <2>14 DEF Arrive
    <3>2. QED BY <1>1, <2>10, <2>11, <2>13, <2>14, <3>1, GopKept DEF InputInv, CollectOK
  <2>15. CASE s = Ref
    <3>1. collect' = Tracked(b, dts) /\ collect.state = "collecting"
      BY <1>2, <1>4, <2>1, <2>2, <2>15 DEF Arrive
    <3>2. PICK h : h = [Gops EXCEPT ![Len(Gops)].start = Lesser(@, b.pts)]
      OBVIOUS
    <3>3. PICK x : x = [start |-> b.pts, pts |-> b.pts, bytes |-> FALSE, ref |-> FALSE]
      OBVIOUS
    <3>4. /\ DOMAIN collect' = DOMAIN collect /\ collect'.state = "collecting"
          /\ collect'.max \in {collect.max, Greater(collect.max, b.pts)}
          /\ collect'.maxDts \in {collect.maxDts, dts}
          /\ \/ collect'.gops = Append(Gops, x)
             \/ Gops # <<>> /\ collect'.gops = h
      <4>1. PICK first \in BOOLEAN : first = (collect.start = NoTime \/ collect.start > b.pts)
        OBVIOUS
      <4>2. PICK g : g = IF Gops = <<>> \/ b.key THEN Append(Gops, x) ELSE h
        OBVIOUS
      <4>3. collect' = [collect EXCEPT
              !.start = IF first THEN b.pts ELSE @,
              !.max = IF first THEN Greater(@, b.pts) ELSE @,
              !.maxDts = IF first /\ @ = NoTime THEN dts ELSE @,
              !.gops = g]
        BY <3>1, <3>2, <3>3, <4>1, <4>2 DEF Tracked, Gops
      <4>4. /\ DOMAIN collect' = DOMAIN collect /\ collect'.state = "collecting"
            /\ collect'.max = IF first THEN Greater(collect.max, b.pts) ELSE collect.max
            /\ collect'.maxDts \in {collect.maxDts, dts} /\ collect'.gops = g
        BY <3>1, <4>3 DEF InputInv, CollectOK
      <4>5. QED BY <4>2, <4>4
    <3>5. Gops \in Seq(GopType) /\ \A i \in 1 .. Len(Gops) : Gops[i].start <= rt
      <4>1. Gops \in Seq(GopType) /\ \A i \in 1 .. Len(Gops) : Gops[i].start <= in[Ref].rt
        BY DEF InputInv, CollectOK, GopInv, Gops
      <4>2. \A i \in 1 .. Len(Gops) : Gops[i].start \in Times
        BY <4>1, GopField
      <4>3. in[Ref].rt \in Int /\ rt \in Int
        BY <2>6, <2>15, TimeRange DEF InputInv, InOK
      <4>4. ASSUME NEW i \in 1 .. Len(Gops) PROVE Gops[i].start <= rt
        <5>1. Gops[i].start \in Int /\ Gops[i].start <= in[Ref].rt
          BY <4>1, <4>2, TimeRange
        <5>2. QED BY <2>6, <2>15, <4>3, <5>1
      <4>5. QED BY <4>1, <4>4
    <3>6. x \in GopType /\ x.start <= rt
      BY <2>4, <2>6, <3>3 DEF GopType
    <3>7. /\ collect'.gops \in Seq(GopType) /\ collect'.gops # <<>>
          /\ \A i \in 1 .. Len(collect'.gops) : collect'.gops[i].start <= rt
      <4>1. CASE collect'.gops = Append(Gops, x)
        BY <3>5, <3>6, <4>1, GopAppended
      <4>2. CASE Gops # <<>> /\ collect'.gops = h
        BY <2>4, <2>6, <3>2, <3>5, <4>2, GopStartLowered
      <4>3. QED BY <3>4, <4>1, <4>2
    <3>8. CollectOK'
      BY <2>4, <3>4, <3>7 DEF InputInv, CollectOK, Greater
    <3>9. GopInv'
      BY <2>3, <2>9, <2>15, <3>4, <3>7 DEF GopInv, Gops
    <3>10. QED BY <1>1, <2>11, <2>13, <3>8, <3>9 DEF InputInv
  <2>16. QED BY <2>14, <2>15
<1>5. QED BY <1>3, <1>4 DEF Arrive

LEMMA StepInputEos == ASSUME InputInv, NEW s \in Streams, InputEos(s) PROVE InputInv'
<1> USE DEF outputVars, muxVars, appVars
<1>1. Alone(s) /\ in[s].pc = "idle" /\ in[s].n = Len(input[s]) /\ UNCHANGED <<input, stop>>
  BY Lone DEF InputEos
<1>2. ~in[s].eos /\ (s = Ref => collect.state \in {"collecting", "stopped"})
  BY <1>1 DEF InputInv, CollectOK, PcInv, PcOf, GopInv, Held
<1>3. s = Ref => in[s].n \in Nat /\ in[s].n > 0
  <2>1. input[Ref] # <<>> /\ input[Ref] \in Seq([pts : Times, dts : Times, key : BOOLEAN])
        /\ in[Ref].n \in Nat
    BY Counted, SplitMuxAssumption
  <2>2. PICK S : S = [pts : Times, dts : Times, key : BOOLEAN]
    OBVIOUS
  <2>3. input[Ref] \in Seq(S)
    BY <2>1, <2>2
  <2>4. Len(input[Ref]) # 0
    BY <2>1, <2>3
  <2>5. QED BY <1>1, <2>1, <2>4
<1>4. PICK p : p = IF collect.state = "stopped" THEN "done"
                   ELSE IF s = Ref \/ (collect.state = "waiting" /\ Gops # <<>>) THEN "check"
                   ELSE "queue"
  OBVIOUS
<1>5. PICK f : f = At([in EXCEPT ![s].eos = TRUE], s, p)
  OBVIOUS
<1>6. in' = f \/ in' = WakeInput(f)
  BY <1>4, <1>5 DEF InputEos
<1>7. Records(in)
  BY DEF InputInv, InOK, Records, InFields
<1>8. /\ Records(f) /\ f[s].pc = p /\ f[s].eos = TRUE
      /\ f[s].n = in[s].n /\ f[s].rt = in[s].rt /\ f[s].dts = in[s].dts /\ f[s].key = in[s].key
      /\ \A t \in Streams \ {s} : SameData(f[t], in[t]) /\ f[t].pc = in[t].pc
  BY <1>5, <1>7 DEF At, Records, InFields, SameData
<1>9. p \in InPcs /\ p \notin {"wait", "gopwait"}
  BY <1>4 DEF InPcs
<1>10. Records(in') /\ Others(s) /\ SameData(in'[s], f[s]) /\ in'[s].pc = p
  BY <1>6, <1>7, <1>8, <1>9, Stepped
<1>11. InOK'
  <2>1. /\ in'[s].pc \in InPcs /\ in'[s].n \in 0 .. Len(input[s])
        /\ in'[s].rt \in Times \cup {NoTime} /\ in'[s].dts \in Times \cup {NoTime}
        /\ in'[s].key \in BOOLEAN /\ in'[s].eos \in BOOLEAN
    BY ZenonT(40), <1>8, <1>9, <1>10 DEF InputInv, InOK, SameData
  <2>2. UNCHANGED input
    BY <1>1
  <2>3. QED BY <1>10, <2>1, <2>2, InKept
<1>12. CASE s # Ref
  <2>1. UNCHANGED collect
    BY <1>12 DEF InputEos
  <2>2. PcOf(s)'
    BY <1>4, <1>8, <1>10, <1>12, <2>1 DEF PcOf, SameData
  <2>3. OneLocked' /\ PcInv'
    BY <1>1, <1>10, <1>12, <2>2, PcKept
  <2>4. QED BY <1>1, <1>10, <1>11, <1>12, <2>1, <2>3, GopKept DEF InputInv, CollectOK
<1>13. CASE s = Ref
  <2>1. /\ in'[Ref].n = in[Ref].n /\ in'[Ref].rt = in[Ref].rt /\ in'[Ref].eos /\ in'[Ref].pc = p
    BY <1>8, <1>10, <1>13 DEF SameData
  <2>2. /\ DOMAIN collect' = DOMAIN collect /\ collect'.gops = collect.gops
        /\ collect'.max = collect.max /\ collect'.maxDts = collect.maxDts
        /\ collect'.state = IF collect.state = "stopped" THEN "stopped" ELSE "waiting"
    BY <1>13 DEF InputEos, InputInv, CollectOK
  <2>3. CollectOK'
    BY <2>2 DEF InputInv, CollectOK
  <2>4. PcOf(s)'
    BY <1>2, <1>4, <1>13, <2>1, <2>2 DEF PcOf
  <2>5. OneLocked' /\ PcInv'
    BY <1>1, <1>3, <1>10, <1>13, <2>1, <2>4, PcKept
  <2>6. GopInv'
    BY <1>2, <1>3, <1>13, <2>1, <2>2 DEF InputInv, GopInv, Gops
  <2>7. QED BY <1>1, <1>11, <2>3, <2>5, <2>6 DEF InputInv
<1>14. QED BY <1>12, <1>13

LEMMA StepCollectGop == ASSUME InputInv, NEW s \in Streams, CollectGop(s) PROVE InputInv'
<1> USE DEF outputVars, muxVars, appVars
<1>1. /\ Alone(s) /\ in[s].pc = "collect" /\ UNCHANGED <<input, stop>>
      /\ collect.state = "waiting" /\ in[Ref].n # 0 /\ Gops # <<>>
  <2>1. in[s].pc = "collect" /\ UNCHANGED <<input, stop>>
    BY DEF CollectGop
  <2>2. Alone(s)
    BY <2>1, Lone DEF Locked
  <2>3. collect.state = "waiting"
    BY <2>1 DEF InputInv, PcInv, PcOf
  <2>4. in[Ref].n # 0 /\ in[Ref].n \in Nat
    BY <2>3, Counted, SplitMuxAssumption DEF InputInv, GopInv
  <2>5. Gops # <<>>
    BY <2>3, <2>4 DEF InputInv, GopInv
  <2>6. QED BY <2>1, <2>2, <2>3, <2>4, <2>5
<1>2. PICK p : p = Checked(s)
  OBVIOUS
<1>3. /\ p \in {"queue", "pass", "loop"} /\ (p = "pass" => s = Ref)
      /\ p \in {"pass", "loop"} => ~in[s].eos
  BY <1>2 DEF Checked
<1>4. in[Ref].n \in Nat /\ in[Ref].n > 0
  BY <1>1, Counted, SplitMuxAssumption
<1>5. Gops \in Seq(GopType) /\ \A i \in 1 .. Len(Gops) : Gops[i].start <= in[Ref].rt
  BY DEF InputInv, CollectOK, GopInv, Gops
<1>6. ~in[Ref].eos => HasNext /\ collect.maxDts >= Gops[2].pts
  BY <1>1 DEF InputInv, GopInv
<1>7. CASE Complete /\ GopGathered /\ in' = WakeInput([t \in Streams |-> [in[t] EXCEPT
                   !.unblock = TRUE, !.pc = IF t = s THEN Checked(s) ELSE @]])
  <2>1. PICK f : f = [t \in Streams |-> [in[t] EXCEPT
                       !.unblock = TRUE, !.pc = IF t = s THEN p ELSE @]]
    OBVIOUS
  <2>2. /\ Records(f) /\ f[s].pc = p
        /\ \A t \in Streams : SameData(f[t], in[t]) /\ (t # s => f[t].pc = in[t].pc)
    BY <2>1 DEF InputInv, InOK, Records, InFields, SameData
  <2>3. in' = WakeInput(f) /\ p \in InPcs /\ p \notin {"wait", "gopwait"}
    BY <1>2, <1>3, <1>7, <2>1 DEF InPcs
  <2>4. InOK' /\ Others(s) /\ SameData(in'[s], in[s]) /\ in'[s].pc = p
    BY <1>1, <2>2, <2>3, Moved
  <2>5. /\ in'[Ref].n = in[Ref].n /\ in'[Ref].rt = in[Ref].rt /\ in'[Ref].eos = in[Ref].eos
    BY <2>4, SplitMuxAssumption DEF Others, SameData
  <2>6. /\ DOMAIN collect' = DOMAIN collect /\ collect'.gops = Tail(Gops)
        /\ collect'.state = IF NewMaxOut # MaxTime THEN "collecting" ELSE "finishing"
        /\ collect'.max = collect.max /\ collect'.maxDts = collect.maxDts
    BY <1>7 DEF GopGathered, InputInv, CollectOK, Gops
  <2>7. NewMaxOut # MaxTime <=> HasNext /\ ~in[Ref].eos
    <3>1. HasNext => Gops[2].start # MaxTime
      BY <1>5, GopField, TimeValue DEF HasNext
    <3>2. QED BY <3>1 DEF NewMaxOut
  <2>8. Tail(Gops) \in Seq(GopType) /\ (HasNext => Tail(Gops) # <<>>)
        /\ \A i \in 1 .. Len(Tail(Gops)) : Tail(Gops)[i].start <= in[Ref].rt
    <3>1. /\ Tail(Gops) \in Seq(GopType) /\ Len(Tail(Gops)) = Len(Gops) - 1
          /\ \A i \in 1 .. Len(Tail(Gops)) :
               Tail(Gops)[i] = Gops[i + 1] /\ i + 1 \in 1 .. Len(Gops)
      BY <1>1, <1>5, GopDropped
    <3>2. HasNext => Tail(Gops) # <<>>
      BY <1>1, <1>5, GopDropped DEF HasNext
    <3>3. QED BY <1>5, <3>1, <3>2
  <2>9. CollectOK'
    BY <2>6, <2>8 DEF InputInv, CollectOK
  <2>10. PcOf(s)'
    BY <1>3, <1>4, <2>4, <2>5 DEF PcOf, SameData
  <2>11. OneLocked' /\ PcInv'
    BY <1>1, <2>4, <2>5, <2>10, PcKept
  <2>12. GopInv'
    BY <1>1, <1>6, <2>5, <2>6, <2>7, <2>8 DEF GopInv, Gops
  <2>13. QED BY <1>1, <2>4, <2>9, <2>11, <2>12 DEF InputInv
<1>8. CASE UNCHANGED collect
           /\ in' = At(in, s, IF DtsPassed /\ ~in[s].eos /\ in[s].rt >= NextStart
                              THEN "gopwait" ELSE Checked(s))
  <2>1. PICK q : q = IF DtsPassed /\ ~in[s].eos /\ in[s].rt >= NextStart
                     THEN "gopwait" ELSE p
    OBVIOUS
  <2>2. in' = At(in, s, q) /\ q \in InPcs
    BY <1>2, <1>3, <1>8, <2>1 DEF InPcs
  <2>3. InOK' /\ Others(s) /\ SameData(in'[s], in[s]) /\ in'[s].pc = q
    BY <1>1, <2>2, MovedTo
  <2>4. in'[Ref].n = in[Ref].n
    BY <2>3, SplitMuxAssumption DEF Others, SameData
  <2>5. q \in {"queue", "pass", "loop", "gopwait"} /\ (q # "queue" => ~in[s].eos)
    BY <1>3, <2>1
  <2>6. PcOf(s)'
    BY <1>4, <2>3, <2>4, <2>5 DEF PcOf, SameData
  <2>7. s = Ref /\ ~in[s].eos => q = "gopwait"
    <3>1. SUFFICES ASSUME s = Ref, ~in[Ref].eos PROVE DtsPassed /\ in[Ref].rt >= NextStart
      BY <2>1
    <3>2. HasNext /\ NextStart = Gops[2].start /\ 2 \in 1 .. Len(Gops)
      BY <1>5, <1>6, <3>1 DEF NextStart, HasNext
    <3>3. Gops[2].start <= in[Ref].rt
      BY <1>5, <3>2
    <3>4. Gops[2].start \in Int /\ in[Ref].rt \in Int
      BY <1>5, <3>2, GopField, TimeRange, SplitMuxAssumption DEF InputInv, InOK
    <3>5. QED BY <1>6, <3>1, <3>2, <3>3, <3>4 DEF DtsPassed
  <2>8. QED BY <1>1, <1>8, <2>3, <2>6, <2>7, PlainStep DEF Held
<1>9. QED BY <1>7, <1>8 DEF CollectGop

(* The steps of the application.                                           *)
LEMMA StepApplication == ASSUME InputInv, Split \/ Shutdown PROVE InputInv'
<1> USE DEF outputVars, muxVars
<1>1. UNCHANGED <<input, in>> /\ stop' \in {stop, "shutdown"}
  BY DEF Split, Shutdown
<1>2. /\ DOMAIN collect' = DOMAIN collect /\ collect'.state = collect.state
      /\ collect'.max = collect.max /\ collect'.maxDts = collect.maxDts
      /\ collect'.gops = collect.gops
  BY DEF Split, Shutdown, InputInv, CollectOK
<1>3. InOK' /\ OneLocked'
  BY <1>1 DEF InputInv, InOK, OneLocked
<1>4. PcInv' /\ GopInv' /\ CollectOK'
  BY <1>1, <1>2 DEF InputInv, PcInv, PcOf, GopInv, CollectOK, Gops, HasNext
<1>5. QED BY <1>1, <1>3, <1>4 DEF InputInv

LEMMA StepStop == ASSUME InputInv, Stop PROVE InputInv'
<1>1. Records(in)
  BY DEF InputInv, InOK, Records, InFields
<1>2. Records(Forgotten) /\ \A t \in Streams :
        /\ Forgotten[t].pc = in[t].pc /\ Forgotten[t].rt = NoTime /\ Forgotten[t].n = in[t].n
        /\ Forgotten[t].dts = in[t].dts /\ Forgotten[t].key = in[t].key
        /\ Forgotten[t].eos = in[t].eos
  BY <1>1 DEF Forgotten, Records, InFields
<1>3. UNCHANGED input /\ stop' = "stopped" /\ Free /\ in' = WakeInput(Forgotten)
  BY DEF Stop, muxVars
<1>4. Records(in') /\ \A t \in Streams :
        /\ SameData(in'[t], Forgotten[t]) /\ Woken(in[t].pc, in'[t].pc)
  <2>1. /\ Records(in')
        /\ \A t \in Streams :
             /\ SameData(in'[t], Forgotten[t])
             /\ in'[t].pc = CASE Forgotten[t].pc = "wait" -> "woken"
                              [] Forgotten[t].pc = "gopwait" -> "gopwoken"
                              [] OTHER -> Forgotten[t].pc
    BY <1>2, <1>3, WakeKept
  <2>2. QED BY <1>2, <2>1 DEF Woken
<1>5. /\ DOMAIN collect' = {"state", "max", "maxDts", "start", "gops", "ref", "splitNext",
                            "splitAfter", "splitAt"}
      /\ collect'.state = "stopped" /\ collect'.gops = <<>> /\ collect'.max = NoTime
      /\ collect'.maxDts = NoTime
  BY DEF Stop, Reset
<1>6. InOK'
  BY <1>2, <1>3, <1>4 DEF InputInv, InOK, Records, InFields, SameData, Woken, InPcs
<1>7. OneLocked' /\ PcInv'
  <2>1. \A t \in Streams : in'[t].pc \notin Locked
    BY <1>3, <1>4 DEF Free, Woken, Locked
  <2>2. \A t \in Streams : PcOf(t)'
    BY <1>2, <1>4, <2>1 DEF InputInv, PcInv, PcOf, Locked, SameData, Woken
  <2>3. in'[Ref].n = 0 => in'[Ref].pc \in {"idle", "done"} /\ ~in'[Ref].eos
    BY <1>2, <1>4, SplitMuxAssumption DEF InputInv, PcInv, SameData, Woken
  <2>4. QED BY <2>1, <2>2, <2>3 DEF OneLocked, PcInv
<1>8. GopInv' /\ CollectOK'
  BY <1>5 DEF GopInv, CollectOK, Gops
<1>9. QED BY <1>3, <1>6, <1>7, <1>8 DEF InputInv

LEMMA StepDeactivate == ASSUME InputInv, NEW s \in Streams, Deactivate(s) PROVE InputInv'
<1> USE DEF outputVars, muxVars, appVars
<1>1. Alone(s) /\ UNCHANGED <<input, stop, collect>>
  BY Lone DEF Deactivate
<1>2. CASE in[s].pc \in {"idle", "queue", "full"} /\ in' = At(in, s, "done")
  <2>1. InOK' /\ Others(s) /\ SameData(in'[s], in[s]) /\ in'[s].pc = "done"
    BY <1>1, <1>2, MovedTo DEF InPcs
  <2>2. PcOf(s)' /\ ~(s = Ref /\ collect.state = "waiting" /\ ~in[s].eos)
    BY <1>2, <2>1 DEF PcOf, InputInv, GopInv, Held
  <2>3. QED BY <1>1, <2>1, <2>2, PlainStep
<1>3. CASE UNCHANGED in
  BY <1>1, <1>3 DEF InputInv, InOK, CollectOK, OneLocked, PcInv, PcOf, GopInv, Gops, HasNext
<1>4. QED BY <1>2, <1>3 DEF Deactivate

LEMMA StepUnseen ==
  ASSUME InputInv, UNCHANGED <<input, in, collect, stop>>
  PROVE  InputInv'
BY DEF InputInv, InOK, CollectOK, OneLocked, PcInv, PcOf, GopInv, Gops, HasNext

LEMMA InputStep == ASSUME InputInv, [Next]_vars PROVE InputInv'
<1> USE DEF outputVars, muxVars, appVars
<1>1. ASSUME NEW s \in Streams, Input(s) PROVE InputInv'
  BY <1>1, StepArrive, StepCollectReference, StepCollectOther, StepPassUncollected, StepUnblock,
     StepAfterUnblock, StepCollectGop, StepWakeIn, StepPass, StepInputEos, StepEnqueue,
     StepOverrun DEF Input
<1>2. ASSUME NEW s \in Streams, Output(s) PROVE InputInv'
  <2>1. UNCHANGED <<input, in, collect, stop>>
    BY <1>2 DEF Output, Underrun, Probe, Flushed, Send, GopIsOut, EndFile, SendEos, Sleep, Command,
       WakeOut, SwitchFile, OpenFile, StartFile, Push
  <2>2. QED BY <2>1, StepUnseen
<1>3. CASE Mux \/ FileEnds \/ UNCHANGED vars
  <2>1. UNCHANGED <<input, in, collect, stop>>
    BY <1>3 DEF Mux, FileEnds, vars
  <2>2. QED BY <2>1, StepUnseen
<1>4. QED BY <1>1, <1>2, <1>3, StepApplication, StepStop, StepDeactivate DEF Next

-----------------------------------------------------------------------------
(* The output side: queues, output threads and the pads of the muxer.      *)

LEMMA OutMoved ==
  ASSUME NEW f, OutGood(f), NEW s \in Streams, NEW p, p \in Rest \/ f[s].pc \notin Rest
  PROVE  OutGood(At(f, s, p))
BY DEF At, OutGood

LEMMA OutWoken ==
  ASSUME NEW f, OutGood(f)
  PROVE  OutGood(WakeOutput(f))
BY DEF WakeOutput, OutGood, Rest

LEMMA QueueGrown == ASSUME QueueOK PROVE QueueGood(Grown)
<1>1. ASSUME NEW s \in Streams
      PROVE  /\ DOMAIN Grown[s] = {"items", "limit", "seen", "queued"}
             /\ Grown[s].items \in Seq(Items(s)) /\ Grown[s].limit \in Nat
             /\ Grown[s].limit >= QueueSize /\ Grown[s].queued \in Nat
             /\ Grown[s].seen \in Nat /\ Grown[s].seen >= QueueSize
  <2>1. /\ DOMAIN queue[s] = {"items", "limit", "seen", "queued"}
        /\ queue[s].items \in Seq(Items(s)) /\ queue[s].limit \in Nat
        /\ queue[s].limit >= QueueSize /\ queue[s].queued \in Nat
        /\ queue[s].seen \in Nat /\ queue[s].seen >= QueueSize
    BY DEF QueueOK, QueueGood
  <2>2. PICK n : n = Greater(queue[s].limit, queue[s].queued + 1)
    OBVIOUS
  <2>3. n \in Nat /\ n >= QueueSize
    BY <2>1, <2>2, SplitMuxAssumption DEF Greater
  <2>4. Grown[s] = [queue[s] EXCEPT !.limit = n]
    BY <2>2 DEF Grown
  <2>5. QED BY <2>1, <2>3, <2>4
<1>2. QED BY <1>1 DEF QueueGood, Grown

LEMMA QueueAppended ==
  ASSUME QueueOK, NEW s \in Streams, NEW x \in Items(s),
         queue' = [queue EXCEPT ![s].items = Append(@, x)]
  PROVE  QueueGood(queue')
<1>1. Append(queue[s].items, x) \in Seq(Items(s))
  BY DEF QueueOK, QueueGood
<1>2. QED BY <1>1 DEF QueueOK, QueueGood

LEMMA QueueNumbers ==
  ASSUME QueueOK, NEW s \in Streams, NEW n \in Nat, n >= QueueSize, NEW m \in Nat,
         \/ queue' = [queue EXCEPT ![s].limit = n]
         \/ queue' = [queue EXCEPT ![s].seen = n]
         \/ queue' = [queue EXCEPT ![s].queued = m]
  PROVE  QueueGood(queue')
BY DEF QueueOK, QueueGood

LEMMA QueueTaken ==
  ASSUME QueueOK, NEW s \in Streams, queue[s].items # <<>>,
         NEW q, q = [queue EXCEPT ![s].items = Tail(@)]
  PROVE  QueueGood(q) /\ Head(queue[s].items) \in Items(s)
<1>1. PICK S : S = Items(s)
  OBVIOUS
<1>2. queue[s].items \in Seq(S)
  BY <1>1 DEF QueueOK, QueueGood
<1>3. Tail(queue[s].items) \in Seq(S) /\ Head(queue[s].items) \in S
  BY <1>2
<1>4. QED BY <1>1, <1>3 DEF QueueOK, QueueGood

(* What the other half does to the output side.                            *)
LEMMA OutputInput ==
  ASSUME InputInv, OutputInv, NEW s \in Streams, Input(s) PROVE OutputInv'
<1> USE DEF outputVars, muxVars, appVars
<1>1. UNCHANGED <<input, mux>> /\ MuxOK'
  BY DEF Input, Arrive, CollectReference, CollectOther, PassUncollected, Unblock, AfterUnblock,
     CollectGop, WakeIn, Pass, InputEos, Enqueue, Overrun, ReadLimit, SetLimit, OutputInv, MuxOK
<1>2. Items(s)' = Items(s)
  BY <1>1 DEF Items
<1>3. OutputOK' /\ OutGood(out')
  <2>1. CASE CollectGop(s)
    <3>1. OutGood(out) /\ OutGood(WakeOutput(out)) /\ OutputOK
      BY OutWoken DEF OutputInv, OutOK
    <3>2. out' \in {out, WakeOutput(out)}
      BY <2>1 DEF CollectGop, GopGathered
    <3>3. UNCHANGED output \/ \E c : output' = [output EXCEPT !.cmds = c]
      BY <2>1 DEF CollectGop, GopGathered
    <3>4. OutputOK'
      BY <3>1, <3>3 DEF OutputOK
    <3>5. QED BY <3>1, <3>2, <3>4
  <2>2. CASE Pass(s)
    BY <2>2 DEF Pass, OutputInv, OutputOK, OutOK
  <2>3. CASE ~CollectGop(s) /\ ~Pass(s)
    <3>1. UNCHANGED <<out, output>>
      BY <2>3 DEF Input, Arrive, CollectReference, CollectOther, PassUncollected, Unblock,
         AfterUnblock, WakeIn, InputEos, Enqueue, Overrun, ReadLimit, SetLimit
    <3>2. QED BY <3>1 DEF OutputInv, OutputOK, OutOK
  <2>4. QED BY <2>1, <2>2, <2>3
<1>4. QueueGood(queue')
  <2> USE DEF OutputInv
  <2>1. CASE Unblock(s)
    <3>1. [kind |-> "unblock", rt |-> collect.max] \in Items(s)
      BY DEF InputInv, CollectOK, Items
    <3>2. QED BY <2>1, <3>1, QueueAppended DEF Unblock, QueueOK
  <2>2. CASE Enqueue(s)
    <3>1. PICK x : x = IF in[s].eos THEN [kind |-> "eos"]
                       ELSE [kind |-> "buffer", n |-> in[s].n, rt |-> in[s].rt,
                             key |-> in[s].key]
      OBVIOUS
    <3>2. x \in Items(s)
      BY <3>1 DEF InputInv, InOK, Items
    <3>3. queue' = [queue EXCEPT ![s].items = Append(@, x)]
      BY <2>2, <3>1 DEF Enqueue
    <3>4. QED BY <3>2, <3>3, QueueAppended
  <2>3. CASE ReadLimit(s) \/ SetLimit(s)
    <3>1. /\ queue[s].limit \in Nat /\ queue[s].limit >= QueueSize
          /\ queue[s].seen \in Nat /\ queue[s].seen >= QueueSize
      BY DEF QueueOK, QueueGood
    <3>2. queue[s].seen + 1 \in Nat /\ queue[s].seen + 1 >= QueueSize
      BY <3>1, SplitMuxAssumption
    <3>3. \/ queue' = [queue EXCEPT ![s].seen = queue[s].limit]
          \/ queue' = [queue EXCEPT ![s].limit = queue[s].seen + 1]
      BY <2>3 DEF ReadLimit, SetLimit
    <3>4. QED BY <3>1, <3>2, <3>3, QueueNumbers
  <2>4. CASE Pass(s)
    <3>1. queue[s].queued + 1 \in Nat /\ queue[s].limit \in Nat /\ queue[s].limit >= QueueSize
      BY DEF QueueOK, QueueGood
    <3>2. QED BY <2>4, <3>1, QueueNumbers DEF Pass
  <2>5. CASE UNCHANGED queue
    BY <2>5 DEF QueueOK
  <2>6. QED
    BY <2>1, <2>2, <2>3, <2>4, <2>5 DEF Input, Arrive, CollectReference, CollectOther,
       PassUncollected, AfterUnblock, CollectGop, WakeIn, InputEos, Overrun
<1>5. \A t \in Streams : Items(t)' = Items(t)
  BY <1>1 DEF Items
<1>6. OutOK' /\ QueueOK'
  BY <1>3, <1>4, <1>5 DEF OutOK, OutGood, QueueOK, QueueGood
<1>7. QED BY <1>1, <1>3, <1>6 DEF OutputInv

(* What an output thread does to each part.                                *)
LEMMA OutputQueue == ASSUME OutputInv, NEW s \in Streams, Output(s) PROVE QueueGood(queue')
<1> USE DEF outputVars, muxVars, appVars
<1>1. QueueGood(queue) /\ QueueGood(Grown)
  BY QueueGrown DEF OutputInv, QueueOK
<1>2. CASE Probe(s)
  <2>1. queue[s].items # <<>>
    BY <1>2 DEF Probe
  <2>2. PICK q : q = [queue EXCEPT ![s].items = Tail(@)]
    OBVIOUS
  <2>3. QueueGood(q) /\ q[s].queued = queue[s].queued
    BY <1>1, <2>1, <2>2, QueueTaken DEF QueueOK, QueueGood
  <2>4. \/ queue' = q
        \/ queue[s].queued > 0 /\ queue' = [q EXCEPT ![s].queued = @ - 1]
    BY <1>2, <2>2 DEF Probe
  <2>5. queue[s].queued > 0 => queue[s].queued - 1 \in Nat
    BY <1>1 DEF QueueGood
  <2>6. CASE queue' = q
    BY <2>3, <2>6
  <2>7. CASE queue[s].queued > 0 /\ queue' = [q EXCEPT ![s].queued = @ - 1]
    <3>1. q[s].queued - 1 \in Nat
      BY <2>3, <2>5, <2>7
    <3>2. /\ DOMAIN queue' = Streams
          /\ \A t \in Streams \ {s} : queue'[t] = q[t]
          /\ DOMAIN queue'[s] = DOMAIN q[s] /\ queue'[s].queued = q[s].queued - 1
          /\ queue'[s].items = q[s].items /\ queue'[s].limit = q[s].limit
          /\ queue'[s].seen = q[s].seen
      BY <2>3, <2>7 DEF QueueGood
    <3>3. ASSUME NEW t \in Streams
          PROVE  /\ DOMAIN queue'[t] = {"items", "limit", "seen", "queued"}
                 /\ queue'[t].items \in Seq(Items(t)) /\ queue'[t].limit \in Nat
                 /\ queue'[t].limit >= QueueSize /\ queue'[t].queued \in Nat
                 /\ queue'[t].seen \in Nat /\ queue'[t].seen >= QueueSize
      BY <2>3, <3>1, <3>2 DEF QueueGood
    <3>4. QED BY <3>2, <3>3 DEF QueueGood
  <2>8. QED BY <2>4, <2>6, <2>7
<1>3. queue' \in {queue, Grown} \/ Probe(s)
  BY DEF Output, Underrun, Flushed, Send, GopIsOut, EndFile, SendEos, Sleep, Command,
     WakeOut, SwitchFile, OpenFile, StartFile, Push
<1>4. QED BY <1>1, <1>2, <1>3

LEMMA OutputState == ASSUME OutputInv, NEW s \in Streams, Output(s) PROVE OutputOK'
<1> USE DEF outputVars, muxVars, appVars
<1>1. OutputOK
  BY DEF OutputInv
<1>2. CASE Probe(s)
  <2>1. \/ UNCHANGED output
        \/ \E k : output' = [output EXCEPT !.keys = k]
        \/ output' = [output EXCEPT !.state = "ending_stream"]
    BY <1>2 DEF Probe
  <2>2. QED BY <1>1, <2>1 DEF OutputOK
<1>3. CASE Send(s)
  BY <1>1, <1>3 DEF Send, OutputOK
<1>4. CASE GopIsOut(s)
  BY <1>1, <1>4 DEF GopIsOut, OutputOK
<1>5. CASE Command(s)
  <2>1. PICK c : c = [output EXCEPT !.cmds = Tail(@)]
    OBVIOUS
  <2>2. DOMAIN c = DOMAIN output /\ c.state = output.state
    BY <1>1, <2>1 DEF OutputOK
  <2>3. \/ UNCHANGED output
        \/ \E m : output' = [c EXCEPT !.max = m, !.state = "output_gop"]
        \/ output' = [c EXCEPT !.state = IF output.muxed THEN "ending_file" ELSE @]
    BY <1>5, <2>1 DEF Command
  <2>4. QED BY <1>1, <2>2, <2>3 DEF OutputOK
<1>6. CASE OpenFile(s)
  BY <1>1, <1>6 DEF OpenFile, OutputOK
<1>7. CASE StartFile(s)
  BY <1>1, <1>7 DEF StartFile, Restart, OutputOK
<1>8. CASE UNCHANGED output
  BY <1>1, <1>8 DEF OutputOK
<1>9. QED
  BY <1>2, <1>3, <1>4, <1>5, <1>6, <1>7, <1>8 DEF Output, Underrun, Flushed, EndFile, SendEos,
     Sleep, WakeOut, SwitchFile, Push

LEMMA OutputMux == ASSUME InputInv, OutputInv, NEW s \in Streams, Output(s) PROVE MuxOK'
<1> USE DEF outputVars, muxVars, appVars
<1>1. MuxOK /\ OutOK /\ UNCHANGED input
  BY DEF OutputInv, Output, Underrun, Probe, Flushed, Send, GopIsOut, EndFile, SendEos, Sleep,
     Command, WakeOut, SwitchFile, OpenFile, StartFile, Push
<1>2. CASE SendEos(s)
  BY <1>1, <1>2 DEF SendEos, MuxOK
<1>3. CASE OpenFile(s)
  BY <1>1, <1>3, Counted DEF OpenFile, MuxOK
<1>4. CASE StartFile(s)
  <2>1. UNCHANGED mux \/ mux' = [t \in Streams |-> [mux[t] EXCEPT !.eos = @ \/ out[t].padEos]]
    BY <1>4 DEF StartFile, Restart
  <2>2. CASE mux' = [t \in Streams |-> [mux[t] EXCEPT !.eos = @ \/ out[t].padEos]]
    <3>1. ASSUME NEW t \in Streams
          PROVE  DOMAIN mux'[t] = {"buf", "eos"} /\ mux'[t].buf = mux[t].buf
      <4>1. PICK v : v = (mux[t].eos \/ out[t].padEos)
        OBVIOUS
      <4>2. mux'[t] = [mux[t] EXCEPT !.eos = v]
        BY <2>2, <4>1, Zenon
      <4>3. QED BY <1>1, <4>2 DEF MuxOK
    <3>2. DOMAIN mux' = Streams
      BY <2>2
    <3>3. QED BY <1>1, <3>1, <3>2 DEF MuxOK
  <2>3. QED BY <1>1, <2>1, <2>2 DEF MuxOK
<1>5. CASE Push(s)
  <2>1. out[s].item \in Items(s)
    BY <1>1, <1>5 DEF Push, OutOK, OutGood, Rest
  <2>2. out[s].item.kind = "buffer" => out[s].item.n \in 0 .. Len(input[s])
    BY <2>1 DEF Items
  <2>3. QED BY <1>1, <1>5, <2>2 DEF Push, MuxOK
<1>6. CASE UNCHANGED mux
  BY <1>1, <1>6 DEF MuxOK
<1>7. QED
  BY <1>2, <1>3, <1>4, <1>5, <1>6 DEF Output, Underrun, Probe, Flushed, Send, GopIsOut, EndFile,
     Sleep, Command, WakeOut, SwitchFile

LEMMA OutputThreads == ASSUME OutputInv, NEW s \in Streams, Output(s) PROVE OutGood(out')
<1> USE DEF outputVars, muxVars, appVars
<1>1. OutGood(out) /\ OutGood(WakeOutput(out)) /\ QueueOK
  BY OutWoken DEF OutputInv, OutOK
<1>2. CASE Probe(s)
  <2>1. PICK item : item = Head(queue[s].items)
    OBVIOUS
  <2>2. item \in Items(s)
    BY <1>1, <1>2, <2>1, QueueTaken DEF Probe
  <2>3. PICK f : f = [out EXCEPT ![s].item = Head(queue[s].items),
                                ![s].padEos = @ \/ Head(queue[s].items).kind = "eos"]
    OBVIOUS
  <2>4. /\ DOMAIN f = Streams /\ DOMAIN f[s] = {"pc", "item", "rt", "eos", "padEos"}
        /\ f[s].item = item /\ \A t \in Streams \ {s} : f[t] = out[t]
    BY <1>1, <2>1, <2>3 DEF OutGood
  <2>5. \A q, r : OutGood([f EXCEPT ![s].rt = r, ![s].pc = q])
    BY <1>1, <2>2, <2>4 DEF OutGood
  <2>6. \A q, e : OutGood([f EXCEPT ![s].eos = e, ![s].pc = q])
    BY <1>1, <2>2, <2>4 DEF OutGood
  <2>7. OutGood(At(f, s, "done"))
    BY <1>1, <2>2, <2>4 DEF OutGood, At, Rest
  <2>8. PICK next : next = [f EXCEPT ![s].eos = @ \/ ~(output.state = "stopped"),
                              ![s].pc = IF output.state = "stopped" THEN "done" ELSE "out"]
    OBVIOUS
  <2>9. \/ out' = At(f, s, "done")
        \/ out' = [f EXCEPT ![s].rt = Head(queue[s].items).rt, ![s].pc = "out"]
        \/ out' = [f EXCEPT
                     ![s].rt = IF output.state = "stopped" THEN @ ELSE Head(queue[s].items).rt,
                     ![s].pc = IF output.state = "stopped" \/ s = Ref THEN "idle" ELSE "out"]
        \/ out' = next
        \/ out' = WakeOutput(next)
    BY <1>2, <2>3, <2>8 DEF Probe
  <2>10. OutGood(next) /\ OutGood(WakeOutput(next))
    BY <2>6, <2>8, OutWoken
  <2>11. /\ OutGood([f EXCEPT ![s].rt = Head(queue[s].items).rt, ![s].pc = "out"])
         /\ OutGood([f EXCEPT
              ![s].rt = IF output.state = "stopped" THEN @ ELSE Head(queue[s].items).rt,
              ![s].pc = IF output.state = "stopped" \/ s = Ref THEN "idle" ELSE "out"])
    BY <2>5
  <2>12. QED BY <2>7, <2>9, <2>10, <2>11, Zenon
<1>3. CASE EndFile(s)
  BY <1>1, <1>3 DEF EndFile, AtLimit, OutGood, Rest
<1>4. CASE Command(s)
  <2>1. OutGood(At(out, s, "cmdwait")) /\ OutGood(At(out, s, "command"))
        /\ OutGood(At(out, s, "out"))
    BY <1>1, <1>4, OutMoved DEF Command, AtLimit, Rest
  <2>2. OutGood(WakeOutput(At(out, s, "command"))) /\ OutGood(WakeOutput(At(out, s, "out")))
    BY <2>1, OutWoken
  <2>3. out' \in {At(out, s, "cmdwait"), WakeOutput(At(out, s, "command")),
                  WakeOutput(At(out, s, "out"))}
    BY <1>4 DEF Command
  <2>4. QED BY <2>1, <2>2, <2>3
<1>5. CASE StartFile(s)
  <2>1. PICK f : f = [t \in Streams |-> [out[t] EXCEPT
                        !.eos = out[t].padEos, !.pc = IF t = s THEN "out" ELSE @]]
    OBVIOUS
  <2>2. out[s].pc \in {"opened", "async_done"}
    BY <1>5 DEF StartFile
  <2>3. OutGood(f)
    BY <1>1, <2>1, <2>2 DEF OutGood, Rest
  <2>4. out' = At(out, s, "async_done") \/ out' = WakeOutput(f)
    BY <1>5, <2>1 DEF StartFile, Restart
  <2>5. OutGood(At(out, s, "async_done"))
    BY <1>1, <2>2, OutMoved DEF Rest
  <2>6. QED BY <2>3, <2>4, <2>5, OutWoken
<1>6. CASE GopIsOut(s)
  BY <1>1, <1>6 DEF GopIsOut
<1>7. CASE Underrun(s) \/ Flushed(s) \/ Send(s) \/ SendEos(s) \/ Sleep(s) \/ WakeOut(s)
           \/ SwitchFile(s) \/ OpenFile(s) \/ Push(s)
  <2>1. \E p : /\ out' = At(out, s, p)
               /\ p \in {"starved", "done", "idle"} \/ out[s].pc \notin Rest
    BY <1>7 DEF Underrun, Flushed, Send, Sent, SendEos, Sleep, AtLimit, WakeOut, SwitchFile,
       OpenFile, Push, Rest
  <2>2. QED BY <1>1, <2>1, OutMoved DEF Rest
<1>8. QED BY <1>2, <1>3, <1>4, <1>5, <1>6, <1>7 DEF Output

LEMMA OutputStep == ASSUME InputInv, OutputInv, [Next]_vars PROVE OutputInv'
<1> USE DEF outputVars, muxVars, appVars
<1>1. UNCHANGED input
  <2>1. ASSUME NEW s \in Streams, Input(s) PROVE UNCHANGED input
    BY <2>1 DEF Input, Arrive, CollectReference, CollectOther, PassUncollected, Unblock,
       AfterUnblock, CollectGop, WakeIn, Pass, InputEos, Enqueue, Overrun, ReadLimit, SetLimit
  <2>2. ASSUME NEW s \in Streams, Output(s) PROVE UNCHANGED input
    BY <2>2 DEF Output, Underrun, Probe, Flushed, Send, GopIsOut, EndFile, SendEos, Sleep,
       Command, WakeOut, SwitchFile, OpenFile, StartFile, Push
  <2>3. ASSUME NEW s \in Streams, Deactivate(s) PROVE UNCHANGED input
    BY <2>3 DEF Deactivate
  <2>4. CASE Mux \/ FileEnds \/ Split \/ Shutdown \/ Stop \/ UNCHANGED vars
    BY <2>4 DEF Mux, FileEnds, Split, Shutdown, Stop, vars
  <2>5. QED BY <2>1, <2>2, <2>3, <2>4 DEF Next
<1>2. \A t \in Streams : Items(t)' = Items(t)
  BY <1>1 DEF Items
<1>3. QueueGood(queue') /\ OutGood(out') /\ OutputOK' /\ MuxOK' => OutputInv'
  BY <1>2 DEF OutputInv, QueueOK, OutOK, QueueGood, OutGood
<1>4. QueueGood(queue) /\ OutGood(out) /\ OutGood(WakeOutput(out)) /\ OutputOK /\ MuxOK
  BY OutWoken DEF OutputInv, QueueOK, OutOK
<1>5. ASSUME NEW s \in Streams, Output(s) PROVE OutputInv'
  BY <1>3, <1>5, OutputQueue, OutputState, OutputMux, OutputThreads
<1>6. ASSUME NEW s \in Streams, Deactivate(s) PROVE OutputInv'
  <2>1. OutGood(At(out, s, "done"))
    BY <1>4, OutMoved DEF Rest
  <2>2. out' \in {out, At(out, s, "done")} /\ UNCHANGED <<queue, output, mux>>
    BY <1>6 DEF Deactivate
  <2>3. QED BY <1>1, <1>3, <1>4, <2>1, <2>2 DEF OutputOK, MuxOK
<1>7. CASE Mux
  <2>1. MuxOK'
    BY <1>1, <1>4, <1>7, Counted DEF Mux, Waiting, MuxOK
  <2>2. UNCHANGED <<queue, out, output>>
    BY <1>7 DEF Mux
  <2>3. QED BY <1>3, <1>4, <2>1, <2>2 DEF OutputOK
<1>8. CASE FileEnds
  <2>1. /\ out' \in {out, WakeOutput(out)} /\ UNCHANGED <<queue, mux>>
        /\ output' \in {output, [output EXCEPT !.state = "next_file"]}
    BY <1>8 DEF FileEnds
  <2>2. OutputOK'
    BY <1>4, <2>1 DEF OutputOK
  <2>3. QED BY <1>1, <1>3, <1>4, <2>1, <2>2 DEF MuxOK
<1>9. CASE Stop
  <2>1. OutputOK' /\ MuxOK'
    BY <1>1, <1>4, <1>9 DEF Stop, Reset, OutputOK, MuxOK
  <2>2. queue' = [s \in Streams |-> [queue[s] EXCEPT !.queued = 0]]
    BY <1>9 DEF Stop, Reset
  <2>3. QueueGood(queue')
    BY <1>4, <2>2 DEF QueueGood
  <2>4. PICK f : f = [s \in Streams |-> [out[s] EXCEPT !.rt = NoTime]]
    OBVIOUS
  <2>5. OutGood(f)
    BY <1>4, <2>4 DEF OutGood
  <2>6. out' = WakeOutput(f)
    BY <1>9, <2>4 DEF Stop, Reset
  <2>7. QED BY <1>3, <2>1, <2>3, <2>5, <2>6, OutWoken
<1>10. CASE Split \/ Shutdown \/ UNCHANGED vars
  <2>1. UNCHANGED <<queue, out, output, mux>>
    BY <1>10 DEF Split, Shutdown, vars
  <2>2. QED BY <1>1, <1>3, <1>4, <2>1 DEF OutputOK, MuxOK
<1>11. QED BY <1>5, <1>6, <1>7, <1>8, <1>9, <1>10, OutputInput DEF Next

LEMMA InvInit == Init => IInv
<1> SUFFICES ASSUME Init PROVE IInv
  OBVIOUS
<1> USE DEF Init
<1>1. \A s \in Streams : Len(input[s]) \in Nat
  <2>1. PICK S : S = [pts : Times, dts : Times, key : BOOLEAN]
    OBVIOUS
  <2>2. input \in [Streams -> Seq(S)]
    BY <2>1, SplitMuxAssumption
  <2>3. QED BY <2>2
<1>2. InOK
  <2>1. ASSUME NEW s \in Streams
        PROVE  /\ DOMAIN in[s] = {"pc", "n", "rt", "dts", "key", "eos", "unblock"}
               /\ in[s].pc = "idle" /\ in[s].n = 0 /\ in[s].rt = NoTime
               /\ in[s].dts = NoTime /\ in[s].key = FALSE /\ in[s].eos = FALSE
    OBVIOUS
  <2>2. ASSUME NEW s \in Streams PROVE 0 \in 0 .. Len(input[s])
    <3>1. PICK k \in Nat : k = Len(input[s])
      BY <1>1
    <3>2. QED BY <3>1
  <2>3. DOMAIN in = Streams
    OBVIOUS
  <2> HIDE DEF Init
  <2>4. QED BY <2>1, <2>2, <2>3 DEF InOK, InPcs
<1>3. CollectOK
  <2>1. <<>> \in Seq(GopType)
    OBVIOUS
  <2>2. collect.gops = <<>> /\ collect.max = NoTime /\ collect.maxDts = NoTime
        /\ collect.state = "collecting"
        /\ DOMAIN collect = {"state", "max", "maxDts", "start", "gops", "ref", "splitNext",
                             "splitAfter", "splitAt"}
    OBVIOUS
  <2>3. QED BY <2>1, <2>2 DEF CollectOK
<1>4. OneLocked /\ PcInv /\ GopInv
  BY SplitMuxAssumption DEF OneLocked, Locked, PcInv, PcOf, GopInv, Gops
<1>5. QueueOK
  <2>1. \A s \in Streams : <<>> \in Seq(Items(s))
    OBVIOUS
  <2>2. ASSUME NEW s \in Streams
        PROVE  /\ DOMAIN queue[s] = {"items", "limit", "seen", "queued"} /\ queue[s].items = <<>>
               /\ queue[s].limit = QueueSize /\ queue[s].queued = 0
               /\ queue[s].seen = QueueSize
    OBVIOUS
  <2>3. DOMAIN queue = Streams /\ QueueSize \in Nat
    BY SplitMuxAssumption
  <2> HIDE DEF Init
  <2>4. \A s \in Streams : queue[s].items \in Seq(Items(s))
    BY <2>1, <2>2
  <2>5. \A s \in Streams : /\ queue[s].limit \in Nat /\ queue[s].limit >= QueueSize
                           /\ queue[s].queued \in Nat
                           /\ queue[s].seen \in Nat /\ queue[s].seen >= QueueSize
    BY <2>2, <2>3
  <2>6. \A s \in Streams : DOMAIN queue[s] = {"items", "limit", "seen", "queued"}
    BY <2>2
  <2>7. QED BY <2>3, <2>4, <2>5, <2>6, Zenon DEF QueueOK, QueueGood
<1>6. OutOK /\ OutputOK /\ MuxOK
  BY <1>1 DEF OutOK, OutGood, Rest, OutputOK, MuxOK
<1>7. QED BY <1>2, <1>3, <1>4, <1>5, <1>6 DEF IInv, InputInv, OutputInv

(* In every reachable state the input threads share the lock and the GOPs  *)
(* as IInv says.                                                           *)
THEOREM SplitMuxInvariance == Spec => []IInv
<1>1. IInv /\ [Next]_vars => IInv'
  BY InputStep, OutputStep DEF IInv
<1>2. QED BY InvInit, <1>1, PTL DEF Spec

(* g_assert (ctx->is_reference == FALSE) for a stream that waits for the   *)
(* GOP of the reference, and the queue of GOPs whose head                  *)
(* handle_gathered_gop and mq_stream_buf_update take without a test: a     *)
(* thread that comes to collect a GOP finds one, and a buffer that is      *)
(* counted finds the GOP it is counted in.  For any number of streams,     *)
(* with any times, split requests, and a stop at any moment.               *)
THEOREM NoAssertionFails == Spec => []AssertionsHold
<1>1. IInv => TypeOK
  BY DEF IInv, InputInv, OutputInv, InOK, CollectOK, QueueOK, QueueGood, OutputOK, MuxOK, TypeOK
<1>2. ASSUME IInv, NEW s \in Streams
      PROVE  /\ in[s].pc = "loop" /\ s = Ref => collect.state # "waiting"
             /\ in[s].pc = "loop" /\ s = Ref /\ collect.state = "collecting" => Gops # <<>>
             /\ in[s].pc = "collect" => Gops # <<>>
             /\ in[s].pc = "pass" /\ collect.state \in {"collecting", "waiting"} => Gops # <<>>
  <2>1. /\ PcInv /\ GopInv /\ PcOf(s) /\ in[Ref].n \in Nat
    BY <1>2, Counted, SplitMuxAssumption DEF IInv, InputInv, PcInv
  <2>2. in[s].pc = "loop" => ~in[s].eos
    BY <2>1 DEF PcOf
  <2>3. in[s].pc = "loop" /\ s = Ref => collect.state # "waiting" /\ in[Ref].n > 0
    BY <2>1, <2>2 DEF PcInv, GopInv, Held
  <2>4. in[s].pc = "collect" => collect.state = "waiting" /\ in[Ref].n > 0
    BY <2>1 DEF PcOf, GopInv
  <2>5. QED BY <2>1, <2>3, <2>4 DEF PcOf, GopInv
<1>3. IInv => AssertionsHold
  BY <1>1, <1>2 DEF AssertionsHold
<1>4. QED BY SplitMuxInvariance, <1>3, PTL

-----------------------------------------------------------------------------
(* Numbers: the least and the greatest of a set, and induction over a set  *)
(* of naturals, from the well-foundedness of strict inclusion.             *)

LEMMA Least == ASSUME NEW T \in SUBSET Nat, T # {} PROVE \E x \in T : \A y \in T : x <= y
<1> DEFINE Below(n) == 0 .. n - 1
           F == {Below(n) : n \in T}
           R == StrictSubsetOrdering(Nat)
<1>1. \A n \in Nat : Below(n) \in FiniteSubsetsOf(Nat)
  <2> SUFFICES ASSUME NEW n \in Nat PROVE IsFiniteSet(0 .. n - 1)
    BY DEF FiniteSubsetsOf
  <2>1. QED BY FS_Interval
<1>2. F \subseteq FiniteSubsetsOf(Nat) /\ F # {}
  BY <1>1
<1>3. IsWellFoundedOn(R, FiniteSubsetsOf(Nat))
  BY FS_StrictSubsetOrderingWellFounded
<1>4. PICK B \in F : \A C \in F : <<C, B>> \notin R
  <2> HIDE DEF F, R
  <2>1. QED BY <1>2, <1>3, WFMin
<1>5. PICK x \in T : B = Below(x)
  OBVIOUS
<1>6. ASSUME NEW y \in T, y < x PROVE FALSE
  <2>1. Below(y) \in SUBSET Nat /\ Below(x) \in SUBSET Nat
    OBVIOUS
  <2>2. Below(y) \subseteq Below(x) /\ Below(x) # Below(y)
    <3>1. y \in Below(x) /\ y \notin Below(y)
      BY <1>6
    <3>2. QED BY <3>1, <1>6
  <2>3. <<Below(y), Below(x)>> \in R
    BY <2>1, <2>2 DEF StrictSubsetOrdering
  <2>4. QED BY <1>4, <1>5, <2>3
<1>7. QED BY <1>6

LEMMA Induction ==
  ASSUME NEW S, 0 \in S, \A n \in Nat : n \in S => n + 1 \in S
  PROVE  Nat \subseteq S
<1> SUFFICES ASSUME Nat \ S # {} PROVE FALSE
  OBVIOUS
<1>1. PICK x \in Nat \ S : \A y \in Nat \ S : x <= y
  BY Least
<1>2. x # 0 /\ x - 1 \in Nat /\ x - 1 \in S
  BY <1>1
<1>3. QED BY <1>2

LEMMA MinOf ==
  ASSUME NEW I \in SUBSET Nat, I # {}
  PROVE  Min(I) \in I /\ \A y \in I : Min(I) <= y
BY Least DEF Min

LEMMA MaxOf ==
  ASSUME NEW n \in Nat, NEW I \in SUBSET (0 .. n), I # {}
  PROVE  Max(I) \in I /\ \A y \in I : y <= Max(I)
<1>1. PICK D : D = {n - x : x \in I}
  OBVIOUS
<1>2. D \in SUBSET Nat /\ D # {}
  <2>1. \A x \in I : n - x \in Nat
    OBVIOUS
  <2>2. QED BY <1>1, <2>1
<1>3. PICK d \in D : \A y \in D : d <= y
  BY <1>2, Least
<1>4. PICK x \in I : d = n - x
  BY <1>1
<1>5. \A y \in I : n - y \in D
  BY <1>1
<1>6. \A y \in I : x >= y
  BY <1>3, <1>4, <1>5
<1>7. QED BY <1>6 DEF Max

(* The times of a stream: its running time is the highest PTS so far.      *)
Buffers(s) == 1 .. Len(input[s])

LEMMA BufferType ==
  ASSUME InputInv, NEW s \in Streams, NEW n \in Buffers(s)
  PROVE  input[s][n].pts \in Times /\ input[s][n].dts \in Times /\ input[s][n].key \in BOOLEAN
<1>1. PICK S : S = [pts : Times, dts : Times, key : BOOLEAN]
  OBVIOUS
<1>2. input[s] \in Seq(S)
  BY <1>1, Counted
<1>3. input[s][n] \in S
  BY <1>2 DEF Buffers
<1>4. QED BY <1>1, <1>3

LEMMA RunTimeOf ==
  ASSUME InputInv, NEW s \in Streams, NEW n \in Buffers(s)
  PROVE  /\ RunTime(s, n) \in Times
         /\ \A i \in 1 .. n : input[s][i].pts <= RunTime(s, n)
         /\ \E i \in 1 .. n : RunTime(s, n) = input[s][i].pts
<1>1. n \in Nat /\ n > 0 /\ 1 .. n \subseteq Buffers(s)
  BY Counted DEF Buffers
<1>2. PICK I : I = {input[s][i].pts : i \in 1 .. n}
  OBVIOUS
<1>3. I \subseteq Times /\ I # {}
  <2>1. \A i \in 1 .. n : input[s][i].pts \in Times
    BY <1>1, BufferType
  <2>2. 1 \in 1 .. n
    BY <1>1
  <2>3. QED BY <1>2, <2>1, <2>2
<1>4. Max(I) \in I /\ \A y \in I : y <= Max(I)
  <2>1. MaxTime - 1 \in Nat /\ I \in SUBSET (0 .. MaxTime - 1)
    BY <1>3 DEF Times, MaxTime
  <2>2. QED BY <1>3, <2>1, MaxOf
<1>5. RunTime(s, n) = Max(I)
  BY <1>2 DEF RunTime
<1>6. QED BY <1>2, <1>3, <1>4, <1>5

LEMMA RunTimeMono ==
  ASSUME InputInv, NEW s \in Streams, NEW n \in Buffers(s), NEW m \in Buffers(s), m <= n
  PROVE  RunTime(s, m) <= RunTime(s, n)
<1>1. PICK i \in 1 .. m : RunTime(s, m) = input[s][i].pts
  BY RunTimeOf
<1>2. i \in 1 .. n
  BY Counted DEF Buffers
<1>3. QED BY <1>1, <1>2, RunTimeOf

Reached(s, n) == IF n = 0 THEN NoTime ELSE RunTime(s, n)

LEMMA ReachedStep ==
  ASSUME InputInv, NEW s \in Streams, NEW n \in Nat, n + 1 \in Buffers(s)
  PROVE  Reached(s, n + 1) = Greater(Reached(s, n), input[s][n + 1].pts)
<1>1. PICK p : p = input[s][n + 1].pts
  OBVIOUS
<1>2. /\ RunTime(s, n + 1) \in Times /\ p <= RunTime(s, n + 1)
      /\ \E i \in 1 .. n + 1 : RunTime(s, n + 1) = input[s][i].pts
  BY <1>1, RunTimeOf
<1>3. p \in Times
  BY <1>1, BufferType
<1>4. CASE n = 0
  <2>1. RunTime(s, 1) = p
    BY <1>1, <1>2, <1>4
  <2>2. QED BY <1>1, <1>3, <1>4, <2>1 DEF Reached, Greater, NoTime, Times
<1>5. CASE n # 0
  <2>1. n \in Buffers(s)
    BY <1>5, Counted DEF Buffers
  <2>2. /\ RunTime(s, n) \in Times /\ RunTime(s, n) <= RunTime(s, n + 1)
        /\ \A i \in 1 .. n : input[s][i].pts <= RunTime(s, n)
    BY <2>1, RunTimeOf, RunTimeMono
  <2>3. PICK i \in 1 .. n + 1 : RunTime(s, n + 1) = input[s][i].pts
    BY <1>2
  <2>4. RunTime(s, n + 1) = p \/ RunTime(s, n + 1) <= RunTime(s, n)
    BY <1>1, <2>2, <2>3
  <2>5. Reached(s, n + 1) = RunTime(s, n + 1) /\ Reached(s, n) = RunTime(s, n)
    BY <1>5 DEF Reached
  <2>6. QED BY <1>1, <1>2, <1>3, <2>2, <2>4, <2>5 DEF Greater, Times
<1>6. QED BY <1>4, <1>5

-----------------------------------------------------------------------------
(* The flow of a stream: file, output thread, queue and input thread hold  *)
(* its buffers one after the other.  Live, while the sink is not stopped,  *)
(* times are exact, too.                                                   *)

(* No limit is lifted and no time is lost while the sink is not stopped.   *)
Live == stop # "stopped"

(* An item x is proper after the buffers 1 to n (n included if it is       *)
(* one): it is the n-th buffer, with its running time; EOS comes last;     *)
(* and what makes another stream flush its GOP has no later time than any  *)
(* buffer that is still to come.                                           *)
Count(x) == IF x.kind = "buffer" THEN 1 ELSE 0
Fits(s, x, n) == /\ x.kind = "buffer" => x.n = n
                 /\ x.kind = "eos" => n = Len(input[s])
Timed(s, x, n) ==
  /\ x.kind = "buffer" => x.rt = RunTime(s, x.n)
  /\ x.kind = "unblock" /\ s # Ref =>
       \A m \in Buffers(s) : m > n => x.rt <= RunTime(s, m)
Proper(s, x, n) == Fits(s, x, n) /\ (Live => Timed(s, x, n))

(* The items q take a stream from its a-th buffer to its z-th.             *)
Run(s, a, q, z) ==
  \E f \in [0 .. Len(q) -> Nat] :
    /\ f[0] = a /\ f[Len(q)] = z
    /\ \A i \in 1 .. Len(q) : f[i] = f[i - 1] + Count(q[i]) /\ Proper(s, q[i], f[i])

(* Buffers that a thread has taken off its pad or its queue.               *)
Holding(s) == IF out[s].pc \notin Rest /\ out[s].item.kind = "buffer" THEN 1 ELSE 0
Fetched(s) == IF in[s].pc # "idle" /\ ~in[s].eos THEN 1 ELSE 0

(* With c buffers in the files, the queue goes on where the output thread  *)
(* is, and leads to where the input thread is.                             *)
QueueFlow(s, c) ==
  \E z \in Nat : /\ Run(s, c + Holding(s), queue[s].items, z)
                 /\ in[s].pc # "done" => z = in[s].n - Fetched(s)

OutFlow(s, c) ==
  /\ out[s].pc # "done" => QueueFlow(s, c)
  /\ out[s].pc \notin Rest =>
       /\ Proper(s, out[s].item, c + Count(out[s].item))
       /\ out[s].item.kind = "eos" => out[s].eos /\ out[s].padEos
       /\ Live /\ out[s].item.kind # "eos" => out[s].rt = out[s].item.rt
       /\ out[s].pc = "push" \/ s = Ref => out[s].item.kind # "unblock"
  /\ out[s].padEos => c = Len(input[s])

(* The k-th file holds the buffers b[k - 1] + 1 to b[k].                   *)
FileRun(s, b) ==
  /\ b[0] = 0
  /\ \A k \in 1 .. Len(files) :
       /\ b[k] = b[k - 1] + Len(files[k][s])
       /\ \A j \in 1 .. Len(files[k][s]) : files[k][s][j] = b[k - 1] + j

FlowOf(s) == \E b \in [0 .. Len(files) -> Nat] :
               FileRun(s, b) /\ b[Len(files)] <= Len(input[s]) /\ OutFlow(s, b[Len(files)])

(* An input thread is where its pad is, and lets another stream pass the   *)
(* limit only when the reference has a later GOP.                          *)
InFlow(s) ==
  /\ in[s].eos => in[s].n = Len(input[s])
  /\ Live => /\ in[s].rt = Reached(s, in[s].n)
             /\ in[s].pc = "check" /\ s # Ref /\ ~in[s].eos => in[s].rt >= collect.max

FilesOK == files \in Seq([Streams -> Seq(Nat)])

(* Before the first file is open nothing is sent.                          *)
Empty == files = <<>> =>
  /\ output.state \in {"next_file", "stopped"} /\ output.max = NoTime
  /\ \A s \in Streams : /\ out[s].pc \notin {"push", "send_eos", "command", "opened", "async_done"}
                        /\ ~mux[s].eos

(* No buffer is lost, repeated or overtaken on its way into the files.     *)
FlowInv == FilesOK /\ Empty /\ \A s \in Streams : FlowOf(s) /\ InFlow(s)

LEMMA RunAppended ==
  ASSUME NEW S, NEW q \in Seq(S), NEW s, NEW a, NEW z \in Nat, NEW x, x \in S, Run(s, a, q, z),
         NEW y \in Nat, y = z + Count(x), Proper(s, x, y)
  PROVE  Run(s, a, Append(q, x), y)
<1>1. PICK f \in [0 .. Len(q) -> Nat] :
        /\ f[0] = a /\ f[Len(q)] = z
        /\ \A i \in 1 .. Len(q) : f[i] = f[i - 1] + Count(q[i]) /\ Proper(s, q[i], f[i])
  BY DEF Run
<1>2. PICK r : r = Append(q, x)
  OBVIOUS
<1>3. PICK n \in Nat : n = Len(q)
  OBVIOUS
<1>4. Len(r) = n + 1 /\ r[n + 1] = x /\ \A i \in 1 .. n : r[i] = q[i]
  BY <1>2, <1>3
<1>5. PICK g : g = [i \in 0 .. n + 1 |-> IF i = n + 1 THEN y ELSE f[i]]
  OBVIOUS
<1>6. g \in [0 .. n + 1 -> Nat] /\ g[0] = a /\ g[n + 1] = y /\ \A i \in 0 .. n : g[i] = f[i]
  BY <1>1, <1>3, <1>5
<1>7. ASSUME NEW i \in 1 .. n + 1
      PROVE  g[i] = g[i - 1] + Count(r[i]) /\ Proper(s, r[i], g[i])
  <2>1. CASE i = n + 1
    BY <1>1, <1>3, <1>4, <1>6, <2>1
  <2>2. CASE i # n + 1
    <3>1. i \in 1 .. n /\ i - 1 \in 0 .. n /\ i \in 0 .. n
      BY <2>2
    <3>2. QED BY <1>1, <1>3, <1>4, <1>6, <3>1
  <2>3. QED BY <2>1, <2>2
<1>8. Run(s, a, r, y)
  BY <1>4, <1>6, <1>7 DEF Run
<1>9. QED BY <1>2, <1>8

LEMMA RunTaken ==
  ASSUME NEW S, NEW q \in Seq(S), q # <<>>, NEW s, NEW a, NEW z, Run(s, a, q, z)
  PROVE  /\ Proper(s, Head(q), a + Count(Head(q)))
         /\ Run(s, a + Count(Head(q)), Tail(q), z)
         /\ a \in Nat
<1>1. PICK f \in [0 .. Len(q) -> Nat] :
        /\ f[0] = a /\ f[Len(q)] = z
        /\ \A i \in 1 .. Len(q) : f[i] = f[i - 1] + Count(q[i]) /\ Proper(s, q[i], f[i])
  BY DEF Run
<1>2. PICK r : r = Tail(q)
  OBVIOUS
<1>3. PICK n \in Nat : n = Len(q) - 1
  OBVIOUS
<1>4. Len(q) = n + 1 /\ Len(r) = n /\ Head(q) = q[1] /\ \A i \in 1 .. n : r[i] = q[i + 1]
  BY <1>2, <1>3
<1>5. f[1] = a + Count(q[1]) /\ Proper(s, q[1], f[1]) /\ a \in Nat
  <2>1. 1 \in 1 .. Len(q) /\ 0 \in 0 .. Len(q)
    BY <1>4
  <2>2. QED BY <1>1, <2>1
<1>6. PICK g : g = [i \in 0 .. n |-> f[i + 1]]
  OBVIOUS
<1>7. g \in [0 .. n -> Nat] /\ g[0] = f[1] /\ g[n] = z
  BY <1>1, <1>4, <1>6
<1>8. ASSUME NEW i \in 1 .. n
      PROVE  g[i] = g[i - 1] + Count(r[i]) /\ Proper(s, r[i], g[i])
  <2>1. i + 1 \in 1 .. Len(q) /\ i \in 0 .. n /\ i - 1 \in 0 .. n
    BY <1>4
  <2>2. g[i] = f[i + 1] /\ g[i - 1] = f[i]
    BY <1>6, <2>1
  <2>3. f[i + 1] = f[i] + Count(q[i + 1]) /\ Proper(s, q[i + 1], f[i + 1])
    BY <1>1, <2>1
  <2>4. QED BY <1>4, <2>2, <2>3
<1>9. Run(s, f[1], r, z)
  BY <1>4, <1>7, <1>8 DEF Run
<1>10. QED BY <1>2, <1>4, <1>5, <1>9

LEMMA ProperKept ==
  ASSUME UNCHANGED input, Live' => Live, NEW s, NEW x, NEW n, Proper(s, x, n)
  PROVE  Proper(s, x, n)'
BY DEF Proper, Fits, Timed, RunTime, Buffers

LEMMA RunKept ==
  ASSUME UNCHANGED input, Live' => Live, NEW s, NEW a, NEW q, NEW z, Run(s, a, q, z)
  PROVE  Run(s, a, q, z)'
<1>1. PICK f \in [0 .. Len(q) -> Nat] :
        /\ f[0] = a /\ f[Len(q)] = z
        /\ \A i \in 1 .. Len(q) : f[i] = f[i - 1] + Count(q[i]) /\ Proper(s, q[i], f[i])
  BY DEF Run
<1>2. \A i \in 1 .. Len(q) : Proper(s, q[i], f[i])'
  BY <1>1, ProperKept
<1>3. QED BY <1>1, <1>2 DEF Run

(* A step that leaves the files and the queue of t alone.                  *)
InMove(t) ==
  /\ in'[t].n = in[t].n /\ in'[t].eos = in[t].eos
  /\ in'[t].pc # "done" => in[t].pc # "done" /\ (in'[t].pc = "idle" <=> in[t].pc = "idle")
OutMove(t) ==
  /\ out'[t].padEos = out[t].padEos
  /\ out'[t].pc # "done" => out[t].pc # "done" /\ Holding(t)' = Holding(t)
  /\ out'[t].pc \notin Rest =>
       /\ out[t].pc \notin Rest /\ out'[t].item = out[t].item
       /\ Live' => out'[t].rt = out[t].rt
       /\ out[t].item.kind = "eos" /\ out[t].eos /\ out[t].padEos => out'[t].eos
       /\ out'[t].pc = "push" /\ out[t].pc # "push" => out[t].item.kind # "unblock"

FilesSame(t) == /\ Len(files') = Len(files)
                /\ \A k \in 1 .. Len(files) : files'[k][t] = files[k][t]

LEMMA OutFlowStep ==
  ASSUME UNCHANGED input, Live' => Live, NEW t \in Streams, OutMove(t), NEW c \in Nat, OutFlow(t, c),
         ASSUME QueueFlow(t, c), out'[t].pc # "done" PROVE QueueFlow(t, c)'
  PROVE  OutFlow(t, c)'
<1>1. ASSUME out'[t].pc # "done" PROVE QueueFlow(t, c)'
  BY <1>1 DEF OutMove, OutFlow
<1>2. ASSUME out'[t].pc \notin Rest
      PROVE  /\ Proper(t, out[t].item, c + Count(out[t].item))'
             /\ out'[t].item.kind = "eos" => out'[t].eos /\ out'[t].padEos
             /\ Live' /\ out'[t].item.kind # "eos" => out'[t].rt = out'[t].item.rt
             /\ out'[t].pc = "push" \/ t = Ref => out'[t].item.kind # "unblock"
  <2>1. PICK x : x = out[t].item
    OBVIOUS
  <2>2. Proper(t, x, c + Count(x))
    BY <1>2, <2>1 DEF OutMove, OutFlow
  <2>3. Proper(t, x, c + Count(x))'
    BY <2>2, ProperKept
  <2>4. out'[t].item = x
    BY <1>2, <2>1 DEF OutMove
  <2>5. Proper(t, out[t].item, c + Count(out[t].item))'
    BY <2>3, <2>4 DEF Proper, Fits, Timed, Count
  <2>6. QED BY <1>2, <2>5 DEF OutMove, OutFlow
<1>3. out'[t].padEos => c = Len(input'[t])
  BY DEF OutMove, OutFlow
<1>4. QED BY <1>1, <1>2, <1>3 DEF OutFlow

LEMMA OutFlowKept ==
  ASSUME UNCHANGED input, Live' => Live, NEW t \in Streams, InMove(t), OutMove(t),
         queue'[t].items = queue[t].items, NEW c \in Nat, OutFlow(t, c)
  PROVE  OutFlow(t, c)'
<1>1. ASSUME QueueFlow(t, c), out'[t].pc # "done" PROVE QueueFlow(t, c)'
  <2>1. PICK z \in Nat : /\ Run(t, c + Holding(t), queue[t].items, z)
                         /\ in[t].pc # "done" => z = in[t].n - Fetched(t)
    BY <1>1 DEF QueueFlow
  <2>2. PICK a : a = c + Holding(t)
    OBVIOUS
  <2>3. PICK q : q = queue[t].items
    OBVIOUS
  <2>4. Run(t, a, q, z)
    BY <2>1, <2>2, <2>3
  <2>5. Run(t, a, q, z)'
    BY <2>4, RunKept
  <2>6. Holding(t)' = Holding(t)
    BY <1>1 DEF OutMove
  <2>7. Run(t, c + Holding(t), queue[t].items, z)'
    BY <2>2, <2>3, <2>5, <2>6 DEF Run
  <2>8. in'[t].pc # "done" => z = in'[t].n - Fetched(t)'
    BY <2>1 DEF InMove, Fetched
  <2>9. QED BY <2>7, <2>8 DEF QueueFlow
<1>2. QED BY <1>1, OutFlowStep

LEMMA FlowStep ==
  ASSUME UNCHANGED input, NEW t \in Streams, FilesSame(t), FilesOK, FlowOf(t),
         ASSUME NEW c \in Nat, OutFlow(t, c) PROVE OutFlow(t, c)'
  PROVE  FlowOf(t)'
<1>1. PICK b \in [0 .. Len(files) -> Nat] :
        FileRun(t, b) /\ b[Len(files)] <= Len(input[t]) /\ OutFlow(t, b[Len(files)])
  BY DEF FlowOf
<1>2. PICK c \in Nat : c = b[Len(files)]
  BY DEF FilesOK
<1>3. OutFlow(t, c)'
  BY <1>1, <1>2
<1>4. FileRun(t, b)' /\ c <= Len(input'[t]) /\ Len(files') = Len(files)
  BY <1>1, <1>2 DEF FileRun, FilesSame
<1>5. QED BY <1>2, <1>3, <1>4 DEF FlowOf

LEMMA FlowKept ==
  ASSUME UNCHANGED input, Live' => Live, NEW t \in Streams, FilesSame(t), FilesOK,
         InMove(t), OutMove(t), queue'[t].items = queue[t].items, FlowOf(t)
  PROVE  FlowOf(t)'
BY OutFlowKept, FlowStep

LEMMA FlowQueued ==
  ASSUME UNCHANGED <<input, files, stop>>, NEW t \in Streams, FilesOK, OutMove(t), FlowOf(t),
         ASSUME NEW c \in Nat, QueueFlow(t, c), out'[t].pc # "done" PROVE QueueFlow(t, c)'
  PROVE  FlowOf(t)'
<1>1. ASSUME NEW c \in Nat, OutFlow(t, c) PROVE OutFlow(t, c)'
  <2>1. Live' = Live
    BY DEF Live
  <2>2. QED BY <1>1, <2>1, OutFlowStep
<1>2. QED BY <1>1, FlowStep DEF FilesSame

-----------------------------------------------------------------------------
(* Input threads and the flow.                                             *)

SameTimes(x, y) == x.n = y.n /\ x.rt = y.rt /\ x.eos = y.eos
InStep(s) ==
  \A t \in Streams : /\ InMove(t) /\ SameTimes(in'[t], in[t])
                     /\ t # s /\ in'[t].pc = "check" => in[t].pc = "check"

LEMMA InMoves ==
  ASSUME Records(in), NEW s \in Streams, NEW f, Records(f), in' = f \/ in' = WakeInput(f),
         \A t \in Streams : SameTimes(f[t], in[t]) /\ (t # s => f[t].pc = in[t].pc),
         f[s].pc # "done" => in[s].pc # "done" /\ (f[s].pc = "idle" <=> in[s].pc = "idle")
  PROVE  InStep(s) /\ (in'[s].pc = "check" => f[s].pc = "check")
<1>1. CASE in' = f
  BY <1>1 DEF InStep, InMove, SameTimes
<1>2. CASE in' = WakeInput(f)
  <2>1. \A t \in Streams :
             /\ SameData(in'[t], f[t])
             /\ in'[t].pc = CASE f[t].pc = "wait" -> "woken"
                              [] f[t].pc = "gopwait" -> "gopwoken"
                              [] OTHER -> f[t].pc
    BY <1>2, WakeKept
  <2>2. QED BY <2>1 DEF InStep, InMove, SameTimes, SameData
<1>3. QED BY <1>1, <1>2

LEMMA InMovedTo ==
  ASSUME Records(in), NEW s \in Streams, NEW p, in' = At(in, s, p),
         p # "done" => in[s].pc # "done" /\ (p = "idle" <=> in[s].pc = "idle")
  PROVE  InStep(s) /\ in'[s].pc = p
<1>1. PICK f : f = At(in, s, p)
  OBVIOUS
<1>2. /\ Records(f) /\ f[s].pc = p
      /\ \A t \in Streams : SameTimes(f[t], in[t]) /\ (t # s => f[t].pc = in[t].pc)
  BY <1>1, AtKept DEF SameData, SameTimes
<1>3. in' = f
  BY <1>1
<1>4. QED BY <1>2, <1>3, InMoves

(* The steps of an input thread that fetch nothing and enqueue no buffer.  *)
Fetches(s) == \/ Arrive(s) /\ collect.state # "stopped"
              \/ InputEos(s) \/ Enqueue(s)

LEMMA InputStays ==
  ASSUME IInv, NEW s \in Streams, Input(s), ~Fetches(s)
  PROVE  InStep(s) /\ (in'[s].pc = "check" => s = Ref \/ CollectOther(s))
<1>1. Records(in) /\ in[s].pc \in InPcs
  BY DEF IInv, InputInv, InOK, Records, InFields
<1>2. CASE \E p \in {"loop", "pass", "wait", "queue", "unblocked", "collect",
                      "grow", "set", "full", "gopwait"} :
             in' = At(in, s, p) /\ in[s].pc \notin {"idle", "done"}
  BY <1>1, <1>2, InMovedTo
<1>3. CASE CollectReference(s)
  <2>1. PICK p, k : in' = WakeInput([in EXCEPT ![s].pc = p, ![s].key = k]) /\ p \in {"check", "pass"}
    BY <1>3 DEF CollectReference
  <2>2. PICK f : f = [in EXCEPT ![s].pc = p, ![s].key = k]
    OBVIOUS
  <2>3. Records(f) /\ f[s].pc = p /\ in' = WakeInput(f) /\ in[s].pc = "loop"
        /\ \A t \in Streams : SameTimes(f[t], in[t]) /\ (t # s => f[t].pc = in[t].pc)
    BY <1>1, <1>3, <2>1, <2>2 DEF Records, InFields, SameTimes, CollectReference
  <2>4. QED BY <1>1, <1>3, <2>1, <2>3, InMoves DEF CollectReference
<1>4. CASE AfterUnblock(s)
  <2>1. PICK p : in' = WakeInput([in EXCEPT ![s].unblock = FALSE, ![s].pc = p])
                 /\ p \in {"collect", "queue", "pass", "loop"}
    BY <1>4 DEF AfterUnblock, Checked
  <2>2. PICK f : f = [in EXCEPT ![s].unblock = FALSE, ![s].pc = p]
    OBVIOUS
  <2>3. Records(f) /\ f[s].pc = p /\ in' = WakeInput(f) /\ in[s].pc = "unblocked"
        /\ \A t \in Streams : SameTimes(f[t], in[t]) /\ (t # s => f[t].pc = in[t].pc)
    BY <1>1, <1>4, <2>1, <2>2 DEF Records, InFields, SameTimes, AfterUnblock
  <2>4. QED BY <1>1, <2>1, <2>3, InMoves
<1>5. CASE CollectGop(s)
  <2>1. PICK p : p = Checked(s)
    OBVIOUS
  <2>2. PICK f : f = [t \in Streams |-> [in[t] EXCEPT
                   !.unblock = TRUE, !.pc = IF t = s THEN p ELSE @]]
    OBVIOUS
  <2>3. p \in {"queue", "pass", "loop"} /\ in[s].pc = "collect"
    BY <1>5, <2>1 DEF Checked, CollectGop
  <2>4. Records(f) /\ f[s].pc = p
        /\ \A t \in Streams : SameTimes(f[t], in[t]) /\ (t # s => f[t].pc = in[t].pc)
    BY <1>1, <2>2 DEF Records, InFields, SameTimes
  <2>5. in' = WakeInput(f) \/ in' = At(in, s, "gopwait") \/ in' = At(in, s, p)
    BY <1>5, <2>1, <2>2 DEF CollectGop
  <2>6. CASE in' = WakeInput(f)
    BY <1>1, <2>3, <2>4, <2>6, InMoves
  <2>7. QED BY <1>1, <2>3, <2>5, <2>6, InMovedTo
<1>6. CASE Arrive(s)
  <2>1. in' = At(in, s, "done")
    BY <1>6 DEF Arrive, Fetches
  <2>2. QED BY <1>1, <2>1, InMovedTo
<1>7. CASE PassUncollected(s) \/ Unblock(s) \/ WakeIn(s) \/ Pass(s)
           \/ Overrun(s) \/ ReadLimit(s) \/ SetLimit(s)
  BY <1>2, <1>7 DEF PassUncollected, Unblock, WakeIn, Checked, Pass, Overrun, ReadLimit, SetLimit
<1>9. CASE CollectOther(s)
  BY <1>1, <1>9, InMovedTo DEF CollectOther
<1>8. QED BY <1>3, <1>4, <1>5, <1>6, <1>7, <1>9 DEF Input, Fetches

(* What no step of an input thread changes.                                *)
WokenOut(f) == out' = f \/ out' = WakeOutput(f)

LEMMA InputShape ==
  ASSUME IInv, NEW s \in Streams, Input(s)
  PROVE  /\ UNCHANGED <<input, stop, files, mux, drained, ended>>
         /\ output'.state = output.state /\ output'.max = output.max
         /\ output'.muxed = output.muxed
         /\ WokenOut(out)
<1> USE DEF outputVars, muxVars, appVars
<1>1. UNCHANGED <<input, stop, files, mux, drained, ended>>
  BY DEF Input, Arrive, CollectReference, CollectOther, PassUncollected, Unblock, AfterUnblock,
     CollectGop, WakeIn, Pass, InputEos, Enqueue, Overrun, ReadLimit, SetLimit
<1>2. CASE CollectGop(s)
  <2>1. out' \in {out, WakeOutput(out)}
    BY <1>2 DEF CollectGop, GopGathered
  <2>2. UNCHANGED output \/ \E c : output' = [output EXCEPT !.cmds = c]
    BY <1>2 DEF CollectGop, GopGathered
  <2>3. QED BY <1>1, <2>1, <2>2 DEF WokenOut, IInv, OutputInv, OutputOK
<1>3. CASE Pass(s)
  <2>1. UNCHANGED out /\ \E k : output' = [output EXCEPT !.keys = k]
    BY <1>3 DEF Pass
  <2>2. QED BY <1>1, <2>1 DEF WokenOut, IInv, OutputInv, OutputOK
<1>4. CASE ~CollectGop(s) /\ ~Pass(s)
  <2>1. UNCHANGED <<out, output>>
    BY <1>4 DEF Input, Arrive, CollectReference, CollectOther, PassUncollected, Unblock,
       AfterUnblock, WakeIn, InputEos, Enqueue, Overrun, ReadLimit, SetLimit
  <2>2. QED BY <1>1, <2>1 DEF WokenOut
<1>5. QED BY <1>2, <1>3, <1>4

LEMMA WakeOutKept ==
  ASSUME NEW f, OutGood(f)
  PROVE  \A t \in Streams :
           LET g == WakeOutput(f) IN
           /\ g[t].item = f[t].item /\ g[t].rt = f[t].rt
           /\ g[t].eos = f[t].eos /\ g[t].padEos = f[t].padEos
           /\ g[t].pc = CASE f[t].pc = "wait" -> "woken"
                          [] f[t].pc = "cmdwait" -> "cmdwoken"
                          [] OTHER -> f[t].pc
BY DEF WakeOutput, OutGood

OutSame(x, y) == x.item = y.item /\ x.rt = y.rt /\ x.eos = y.eos /\ x.padEos = y.padEos
OutWoke(p, q) == \/ q = p
                 \/ p = "wait" /\ q = "woken"
                 \/ p = "cmdwait" /\ q = "cmdwoken"

LEMMA OutStays ==
  ASSUME OutGood(out), WokenOut(out)
  PROVE  \A t \in Streams : OutSame(out'[t], out[t]) /\ OutWoke(out[t].pc, out'[t].pc)
BY WakeOutKept DEF WokenOut, OutSame, OutWoke

LEMMA OutStayed ==
  ASSUME NEW t \in Streams, OutSame(out'[t], out[t]), OutWoke(out[t].pc, out'[t].pc)
  PROVE  OutMove(t)
BY DEF OutMove, OutSame, OutWoke, Holding, Rest

LEMMA OutMovedTo ==
  ASSUME OutGood(out), NEW s \in Streams, NEW p, WokenOut(At(out, s, p)),
         p \notin {"wait", "cmdwait"} \/ out' = At(out, s, p)
  PROVE  /\ OutSame(out'[s], out[s]) /\ out'[s].pc = p
         /\ \A t \in Streams \ {s} : OutSame(out'[t], out[t]) /\ OutWoke(out[t].pc, out'[t].pc)
<1>1. PICK f : f = At(out, s, p)
  OBVIOUS
<1>2. /\ OutSame(f[s], out[s]) /\ f[s].pc = p
      /\ \A t \in Streams \ {s} : OutSame(f[t], out[t]) /\ f[t].pc = out[t].pc
  BY <1>1 DEF At, OutGood, OutSame
<1>3. CASE out' = f
  BY <1>2, <1>3 DEF OutSame, OutWoke
<1>4. CASE out' = WakeOutput(f)
  <2>1. DOMAIN f = Streams /\ \A t \in Streams : DOMAIN f[t] = {"pc", "item", "rt", "eos", "padEos"}
    BY <1>1 DEF At, OutGood
  <2>3. \A t \in Streams :
           /\ OutSame(out'[t], f[t])
           /\ out'[t].pc = CASE f[t].pc = "wait" -> "woken"
                             [] f[t].pc = "cmdwait" -> "cmdwoken"
                             [] OTHER -> f[t].pc
    BY <1>4, <2>1 DEF WakeOutput, OutSame
  <2>4. QED BY <1>1, <1>2, <1>4, <2>3 DEF OutSame, OutWoke
<1>5. QED BY <1>1, <1>3, <1>4 DEF WokenOut

LEMMA InFlowKept ==
  ASSUME UNCHANGED input, Live' => Live, NEW t \in Streams, InMove(t), SameTimes(in'[t], in[t]),
         InFlow(t),
         in'[t].pc = "check" /\ t # Ref /\ ~in[t].eos => in'[t].rt >= collect'.max
  PROVE  InFlow(t)'
<1>1. Reached(t, in[t].n)' = Reached(t, in[t].n)
  BY DEF SameTimes, Reached, RunTime
<1>2. QED BY <1>1 DEF InFlow, SameTimes

LEMMA FlowEnqueue ==
  ASSUME IInv, FlowInv, NEW s \in Streams, Enqueue(s), OutMove(s), UNCHANGED <<input, files, stop>>
  PROVE  FlowOf(s)' /\ InFlow(s)'
<1>1. PICK x : x = IF in[s].eos THEN [kind |-> "eos"]
                   ELSE [kind |-> "buffer", n |-> in[s].n, rt |-> in[s].rt, key |-> in[s].key]
  OBVIOUS
<1>2. in[s].n \in Nat /\ x \in Items(s) /\ queue[s].items \in Seq(Items(s))
      /\ in[s].pc \in {"queue", "full"}
  BY <1>1, Counted DEF Enqueue, IInv, InputInv, InOK, Items, OutputInv, QueueOK, QueueGood
<1>3. queue'[s].items = Append(queue[s].items, x)
  BY <1>1 DEF Enqueue, IInv, OutputInv, QueueOK, QueueGood
<1>4. /\ in'[s].n = in[s].n /\ in'[s].rt = in[s].rt /\ in'[s].eos = in[s].eos
      /\ in'[s].pc = IF in[s].eos THEN "done" ELSE "idle"
  BY DEF Enqueue, At, IInv, InputInv, InOK
<1>5. InFlow(s)
  BY DEF FlowInv
<1>6. Live' = Live
  BY DEF Live
<1>7. ASSUME NEW c \in Nat, QueueFlow(s, c), out'[s].pc # "done" PROVE QueueFlow(s, c)'
  <2>1. PICK z \in Nat : Run(s, c + Holding(s), queue[s].items, z) /\ z = in[s].n - Fetched(s)
    BY <1>2, <1>7 DEF QueueFlow
  <2>2. PICK y \in Nat : y = z + Count(x)
    BY DEF Count
  <2>3. y = in[s].n /\ Proper(s, x, y)
    <3>1. CASE in[s].eos
      BY <1>1, <1>2, <1>5, <2>1, <2>2, <3>1 DEF Fetched, Count, InFlow, Proper, Fits, Timed
    <3>2. CASE ~in[s].eos
      <4>1. z = in[s].n - 1 /\ y = in[s].n /\ in[s].n # 0
        BY <1>1, <1>2, <2>1, <2>2, <3>2 DEF Fetched, Count
      <4>2. Live => in[s].rt = RunTime(s, in[s].n)
        BY <1>5, <4>1 DEF InFlow, Reached
      <4>3. QED BY <1>1, <3>2, <4>1, <4>2 DEF Proper, Fits, Timed
    <3>3. QED BY <3>1, <3>2
  <2>4. PICK a : a = c + Holding(s)
    OBVIOUS
  <2>5. PICK q : q = Append(queue[s].items, x)
    OBVIOUS
  <2>6. Run(s, a, q, y)
    BY <1>2, <2>1, <2>2, <2>3, <2>4, <2>5, RunAppended
  <2>7. Run(s, a, q, y)'
    BY <1>6, <2>6, RunKept
  <2>8. Holding(s)' = Holding(s)
    BY <1>7 DEF OutMove
  <2>9. Run(s, c + Holding(s), queue[s].items, y)'
    BY <1>3, <2>4, <2>5, <2>7, <2>8 DEF Run
  <2>10. in'[s].pc # "done" => y = in'[s].n - Fetched(s)'
    BY <1>2, <1>4, <2>3 DEF Fetched
  <2>11. QED BY <2>9, <2>10 DEF QueueFlow
<1>8. FlowOf(s)'
  BY <1>7, FlowQueued DEF FlowInv
<1>9. InFlow(s)'
  BY <1>4, <1>5, <1>6 DEF InFlow, Reached, RunTime
<1>10. QED BY <1>8, <1>9

LEMMA FlowUnblock ==
  ASSUME IInv, FlowInv, NEW s \in Streams, in[s].pc = "check", in'[s].pc = "unblocked",
         in'[s].n = in[s].n, in'[s].eos = in[s].eos, in[s].n <= Len(input[s]),
         queue'[s].items = Append(queue[s].items, [kind |-> "unblock", rt |-> collect.max]),
         OutMove(s), UNCHANGED <<input, files, stop>>
  PROVE  FlowOf(s)'
<1>1. PICK x : x = [kind |-> "unblock", rt |-> collect.max]
  OBVIOUS
<1>2. in[s].n \in Nat /\ x \in Items(s) /\ queue[s].items \in Seq(Items(s))
  BY <1>1, Counted DEF IInv, InputInv, CollectOK, InOK, Items, OutputInv, QueueOK, QueueGood
<1>3. InFlow(s)
  BY DEF FlowInv
<1>4. Live' = Live
  BY DEF Live
<1>5. ASSUME NEW c \in Nat, QueueFlow(s, c), out'[s].pc # "done" PROVE QueueFlow(s, c)'
  <2>1. PICK z \in Nat : Run(s, c + Holding(s), queue[s].items, z) /\ z = in[s].n - Fetched(s)
    BY <1>2, <1>5 DEF QueueFlow
  <2>2. z = z + Count(x)
    BY <1>1 DEF Count
  <2>3. ASSUME Live, s # Ref, NEW m \in Buffers(s), m > z PROVE collect.max <= RunTime(s, m)
    <3>1. ~in[s].eos
      BY <2>1, <2>3, <1>2, <1>3 DEF Fetched, InFlow, Buffers
    <3>2. z = in[s].n - 1 /\ in[s].n # 0 /\ m >= in[s].n /\ in[s].n \in Buffers(s)
      BY <1>2, <2>1, <2>3, <3>1 DEF Fetched, Buffers
    <3>3. RunTime(s, in[s].n) <= RunTime(s, m)
      BY <3>2, RunTimeMono DEF IInv
    <3>4. RunTime(s, in[s].n) = in[s].rt /\ in[s].rt >= collect.max
      BY <1>3, <2>3, <3>1, <3>2 DEF InFlow, Reached
    <3>5. RunTime(s, in[s].n) \in Int /\ RunTime(s, m) \in Int /\ collect.max \in Int
      BY <3>2, RunTimeOf, TimeRange DEF IInv, InputInv, CollectOK
    <3>6. QED BY <3>3, <3>4, <3>5
  <2>4. Proper(s, x, z)
    BY <1>1, <2>3 DEF Proper, Fits, Timed
  <2>5. PICK a : a = c + Holding(s)
    OBVIOUS
  <2>6. PICK q : q = Append(queue[s].items, x)
    OBVIOUS
  <2>7. Run(s, a, q, z)
    BY <1>2, <2>1, <2>2, <2>4, <2>5, <2>6, RunAppended
  <2>8. Run(s, a, q, z)'
    BY <1>4, <2>7, RunKept
  <2>9. Holding(s)' = Holding(s)
    BY <1>5 DEF OutMove
  <2>10. Run(s, c + Holding(s), queue[s].items, z)'
    <3>1. queue'[s].items = q
      BY <1>1, <2>6
    <3>2. QED BY <2>5, <2>8, <2>9, <3>1 DEF Run
  <2>11. z = in'[s].n - Fetched(s)'
    BY <2>1 DEF Fetched
  <2>12. QED BY <2>10, <2>11 DEF QueueFlow
<1>6. QED BY <1>5, FlowQueued DEF FlowInv

(* A buffer arrives, or the end of the stream.                             *)
LEMMA FlowFetched ==
  ASSUME IInv, FlowInv, NEW s \in Streams, in[s].pc = "idle",
         \/ in'[s].pc # "idle" /\ in'[s].n = in[s].n + 1 /\ ~in'[s].eos /\ ~in[s].eos
         \/ in'[s].n = in[s].n /\ in'[s].eos,
         queue'[s].items = queue[s].items,
         OutMove(s), UNCHANGED <<input, files, stop>>
  PROVE  FlowOf(s)'
<1>1. Live' = Live
  BY DEF Live
<1>2. ASSUME NEW c \in Nat, QueueFlow(s, c), out'[s].pc # "done" PROVE QueueFlow(s, c)'
  <2>1. PICK z \in Nat : Run(s, c + Holding(s), queue[s].items, z) /\ z = in[s].n
    BY <1>2, Counted DEF QueueFlow, Fetched, IInv
  <2>2. PICK a : a = c + Holding(s)
    OBVIOUS
  <2>3. PICK q : q = queue[s].items
    OBVIOUS
  <2>4. Run(s, a, q, z)
    BY <2>1, <2>2, <2>3
  <2>5. Run(s, a, q, z)'
    BY <1>1, <2>4, RunKept
  <2>6. Holding(s)' = Holding(s)
    BY <1>2 DEF OutMove
  <2>7. Run(s, c + Holding(s), queue[s].items, z)'
    BY <2>2, <2>3, <2>5, <2>6 DEF Run
  <2>8. in'[s].pc # "done" => z = in'[s].n - Fetched(s)'
    BY <2>1 DEF Fetched
  <2>9. QED BY <2>7, <2>8 DEF QueueFlow
<1>3. QED BY <1>2, FlowQueued DEF FlowInv

(* What no step of an input thread disturbs.                               *)
LEMMA EmptyKept ==
  ASSUME OutGood(out), WokenOut(out), Empty, UNCHANGED <<files, mux>>,
         output'.state = output.state, output'.max = output.max
  PROVE  Empty'
<1>1. \A t \in Streams : OutWoke(out[t].pc, out'[t].pc)
  BY OutStays
<1>2. QED BY <1>1 DEF Empty, OutWoke

LEMMA FlowInput == ASSUME IInv, FlowInv, NEW s \in Streams, Input(s) PROVE FlowInv'
<1> USE DEF outputVars, muxVars, appVars
<1>1. /\ UNCHANGED <<input, stop, files, mux, drained, ended>>
      /\ output'.state = output.state /\ output'.max = output.max
      /\ WokenOut(out)
  BY InputShape
<1>2. OutGood(out) /\ Records(in) /\ Live' = Live
  BY <1>1 DEF IInv, OutputInv, OutOK, InputInv, InOK, Records, InFields, Live
<1>3. \A t \in Streams : OutMove(t)
  BY <1>1, <1>2, OutStays, OutStayed
<1>4. FilesOK' /\ Empty'
  BY <1>1, <1>2, EmptyKept DEF FlowInv, FilesOK
<1>5. Alone(s)
  <2>1. Free \/ in[s].pc \in Locked
    BY DEF Input, Arrive, CollectReference, CollectOther, PassUncollected, Unblock, AfterUnblock,
       CollectGop, WakeIn, Pass, InputEos, Enqueue, Overrun, ReadLimit, SetLimit, Locked
  <2>2. QED BY <2>1, Lone DEF IInv
<1>6. ASSUME NEW t \in Streams, InMove(t), SameTimes(in'[t], in[t]),
             in'[t].pc = "check" => t # s /\ in[t].pc = "check"
      PROVE  InFlow(t)'
  <2>1. in'[t].pc # "check"
    BY <1>5, <1>6 DEF Alone, Locked
  <2>2. QED BY <1>1, <1>2, <1>6, <2>1, InFlowKept DEF FlowInv, FilesSame
<1>7. ASSUME ~Fetches(s) PROVE FlowInv'
  <2>1. InStep(s)
    BY <1>7, InputStays
  <2>2. ASSUME NEW t \in Streams PROVE InFlow(t)'
    <3>1. InMove(t) /\ SameTimes(in'[t], in[t]) /\ (t # s /\ in'[t].pc = "check" => in[t].pc = "check")
      BY <2>1 DEF InStep
    <3>2. CASE t = s /\ in'[s].pc = "check" /\ s # Ref
      <4>1. CollectOther(s)
        BY <1>7, <3>2, InputStays
      <4>2. in[s].rt >= collect.max /\ UNCHANGED collect
        <5>1. \E p \in {"pass", "check", "wait"} :
                in' = At(in, s, p) /\ (p = "check" => ~(in[s].rt < collect.max))
          BY <4>1 DEF CollectOther
        <5>2. PICK p \in {"pass", "check", "wait"} :
                in' = At(in, s, p) /\ (p = "check" => ~(in[s].rt < collect.max))
          BY <5>1
        <5>3. p = "check"
          BY <1>2, <3>2, <5>2, AtKept
        <5>4. in[s].rt \in Int /\ collect.max \in Int
          BY TimeRange DEF IInv, InputInv, InOK, CollectOK
        <5>5. UNCHANGED collect
          BY <4>1 DEF CollectOther
        <5>6. QED BY <5>2, <5>3, <5>4, <5>5
      <4>3. in'[t].rt >= collect'.max
        BY <3>1, <3>2, <4>2 DEF SameTimes
      <4>4. QED BY <1>1, <1>2, <3>1, <4>3, InFlowKept DEF FlowInv, FilesSame
    <3>3. CASE ~(in'[t].pc = "check" /\ t # Ref) /\ t = s
      BY <1>1, <1>2, <3>1, <3>3, InFlowKept DEF FlowInv, FilesSame
    <3>4. CASE t # s
      BY <1>6, <3>1, <3>4
    <3>5. QED BY <3>2, <3>3, <3>4
  <2>3. ASSUME NEW t \in Streams, queue'[t].items = queue[t].items PROVE FlowOf(t)'
    BY <1>1, <1>2, <1>3, <2>1, <2>3, FlowKept DEF FlowInv, FilesSame, InStep
  <2>4. CASE ~Unblock(s)
    <3>1. \A t \in Streams : queue'[t].items = queue[t].items
      <4>1. CASE Pass(s)
        BY <4>1 DEF Pass, IInv, OutputInv, QueueOK, QueueGood
      <4>2. CASE Overrun(s) \/ ReadLimit(s) \/ SetLimit(s)
        <5>1. QueueGood(queue)
          BY DEF IInv, OutputInv, QueueOK
        <5>2. CASE Overrun(s)
          BY <5>2 DEF Overrun
        <5>3. CASE ReadLimit(s)
          <6>1. queue' = [queue EXCEPT ![s].seen = queue[s].limit]
            BY <5>3 DEF ReadLimit
          <6>2. QED BY <5>1, <6>1 DEF QueueGood
        <5>4. CASE SetLimit(s)
          <6>1. queue' = [queue EXCEPT ![s].limit = queue[s].seen + 1]
            BY <5>4 DEF SetLimit
          <6>2. QED BY <5>1, <6>1 DEF QueueGood
        <5>5. QED BY <4>2, <5>2, <5>3, <5>4
      <4>3. CASE ~Pass(s) /\ ~(Overrun(s) \/ ReadLimit(s) \/ SetLimit(s))
        BY <1>7, <2>4, <4>3 DEF Input, Fetches, Arrive, CollectReference, CollectOther,
           PassUncollected, AfterUnblock, CollectGop, WakeIn
      <4>4. QED BY <4>1, <4>2, <4>3
    <3>2. QED BY <1>4, <2>2, <2>3, <3>1 DEF FlowInv
  <2>5. CASE Unblock(s)
    <3>1. CASE UNCHANGED queue
      BY <1>4, <2>2, <2>3, <3>1 DEF FlowInv
    <3>2. CASE /\ in[s].pc = "check" /\ in' = At(in, s, "unblocked")
               /\ queue' = [queue EXCEPT ![s].items =
                               Append(@, [kind |-> "unblock", rt |-> collect.max])]
      <4>1. /\ queue'[s].items = Append(queue[s].items, [kind |-> "unblock", rt |-> collect.max])
            /\ \A t \in Streams \ {s} : queue'[t].items = queue[t].items
        BY <3>2 DEF IInv, OutputInv, QueueOK, QueueGood
      <4>2. in'[s].pc = "unblocked" /\ in'[s].n = in[s].n /\ in'[s].eos = in[s].eos
        BY <1>2, <3>2, AtKept DEF SameData
      <4>3. in[s].n <= Len(input[s])
        BY Counted DEF IInv
      <4>4. FlowOf(s)'
        BY <1>1, <1>3, <3>2, <4>1, <4>2, <4>3, FlowUnblock
      <4>5. QED BY <1>4, <2>2, <2>3, <4>1, <4>4 DEF FlowInv
    <3>3. QED BY <2>5, <3>1, <3>2 DEF Unblock
  <2>6. QED BY <2>4, <2>5
<1>8. ASSUME FlowOf(s)', InFlow(s)',
             \A t \in Streams \ {s} : /\ InMove(t) /\ SameTimes(in'[t], in[t])
                                      /\ in'[t].pc = "check" => in[t].pc = "check"
                                      /\ queue'[t].items = queue[t].items
      PROVE  FlowInv'
  <2>1. ASSUME NEW t \in Streams \ {s} PROVE FlowOf(t)' /\ InFlow(t)'
    <3>1. FlowOf(t)'
      BY <1>1, <1>2, <1>3, <1>8, FlowKept DEF FlowInv, FilesSame
    <3>2. QED BY <1>6, <1>8, <3>1
  <2>2. QED BY <1>4, <1>8, <2>1 DEF FlowInv
<1>9. CASE Enqueue(s)
  <2>1. FlowOf(s)' /\ InFlow(s)'
    BY <1>1, <1>3, <1>9, FlowEnqueue
  <2>2. \A t \in Streams \ {s} : in'[t] = in[t] /\ queue'[t] = queue[t]
    BY <1>9 DEF Enqueue, At, IInv, InputInv, InOK, OutputInv, QueueOK, QueueGood
  <2>3. QED BY <1>8, <2>1, <2>2 DEF InMove, SameTimes
<1>10. CASE Arrive(s) /\ collect.state # "stopped"
  <2>1. PICK b : b = input[s][in[s].n + 1]
    OBVIOUS
  <2>2. PICK dts : dts = Lesser(b.pts, b.dts)
    OBVIOUS
  <2>3. in' = [in EXCEPT ![s] = [in[s] EXCEPT !.pc = "loop", !.n = @ + 1,
                 !.rt = Greater(@, b.pts), !.dts = dts, !.key = FALSE]]
    BY <1>10, <2>1, <2>2 DEF Arrive
  <2>4. /\ in'[s].pc = "loop" /\ in'[s].n = in[s].n + 1 /\ in'[s].eos = in[s].eos
        /\ in'[s].rt = Greater(in[s].rt, b.pts) /\ \A t \in Streams \ {s} : in'[t] = in[t]
    BY <1>2, <2>3 DEF Records, InFields
  <2>5. /\ in[s].pc = "idle" /\ ~in[s].eos /\ UNCHANGED queue
        /\ in[s].n \in Nat /\ in[s].n + 1 \in Buffers(s)
    BY <1>10, Counted DEF Arrive, IInv, InputInv, PcInv, PcOf, Buffers
  <2>6. FlowOf(s)'
    BY <1>1, <1>3, <2>4, <2>5, FlowFetched
  <2>7. InFlow(s)'
    <3>1. Live => in'[s].rt = Reached(s, in'[s].n)
      BY <2>1, <2>4, <2>5, ReachedStep DEF FlowInv, InFlow, IInv
    <3>2. Reached(s, in'[s].n) = Reached(s, in[s].n)'
      BY <1>1 DEF Reached, RunTime
    <3>3. QED BY <1>2, <2>4, <2>5, <3>1, <3>2 DEF InFlow
  <2>8. QED BY <1>8, <2>4, <2>5, <2>6, <2>7 DEF InMove, SameTimes
<1>11. CASE InputEos(s)
  <2>1. PICK p : p = IF collect.state = "stopped" THEN "done"
                     ELSE IF s = Ref \/ (collect.state = "waiting" /\ Gops # <<>>) THEN "check"
                     ELSE "queue"
    OBVIOUS
  <2>2. PICK f : f = At([in EXCEPT ![s].eos = TRUE], s, p)
    OBVIOUS
  <2>3. in' = f \/ in' = WakeInput(f)
    BY <1>11, <2>1, <2>2 DEF InputEos
  <2>4. /\ Records(f) /\ f[s].pc = p /\ f[s].eos = TRUE
        /\ f[s].n = in[s].n /\ f[s].rt = in[s].rt
        /\ \A t \in Streams \ {s} : SameData(f[t], in[t]) /\ f[t].pc = in[t].pc
    BY <1>2, <2>2 DEF At, Records, InFields, SameData
  <2>5. p \notin {"wait", "gopwait"}
    BY <2>1
  <2>6. Others(s) /\ SameData(in'[s], f[s])
    BY <1>2, <2>3, <2>4, <2>5, Stepped
  <2>7. /\ in[s].pc = "idle" /\ in[s].n = Len(input[s]) /\ UNCHANGED queue
        /\ in'[s].n = in[s].n /\ in'[s].eos /\ in'[s].rt = in[s].rt
    BY <1>11, <2>4, <2>6, Zenon DEF InputEos, SameData
  <2>8. FlowOf(s)'
    BY <1>1, <1>3, <2>7, FlowFetched
  <2>9. InFlow(s)'
    BY <1>1, <1>2, <2>7 DEF FlowInv, InFlow, Reached, RunTime
  <2>10. QED BY <1>8, <2>6, <2>7, <2>8, <2>9 DEF Others, InMove, SameTimes, SameData, Woken
<1>12. QED BY <1>7, <1>9, <1>10, <1>11 DEF Fetches

-----------------------------------------------------------------------------
(* Output threads and the flow.                                            *)

LEMMA OutputShape ==
  ASSUME NEW s \in Streams, Output(s)
  PROVE  /\ UNCHANGED <<in, collect, input, stop>>
         /\ Probe(s) \/ queue' = queue \/ queue' = Grown
         /\ OpenFile(s) \/ Push(s) \/ UNCHANGED files
BY DEF Output, Underrun, Probe, Flushed, Send, GopIsOut, EndFile, SendEos, Sleep, Command,
   WakeOut, SwitchFile, OpenFile, StartFile, Push, outputVars, muxVars, appVars

LEMMA OutPlain ==
  ASSUME IInv, NEW s \in Streams, Output(s), ~Probe(s), ~Push(s)
  PROVE  \A t \in Streams : OutMove(t)
<1>1. OutGood(out)
  BY DEF IInv, OutputInv, OutOK
<1>2. CASE EndFile(s)
  BY <1>1, <1>2 DEF EndFile, AtLimit, OutGood, OutMove, Holding, Rest
<1>3. CASE StartFile(s)
  <2>1. out[s].pc \in {"opened", "async_done"}
    BY <1>3 DEF StartFile
  <2>2. PICK f : f = [t \in Streams |-> [out[t] EXCEPT
                        !.eos = out[t].padEos, !.pc = IF t = s THEN "out" ELSE @]]
    OBVIOUS
  <2>3. OutGood(f)
    BY <1>1, <2>1, <2>2 DEF OutGood, Rest
  <2>4. \A t \in Streams : /\ f[t].item = out[t].item /\ f[t].rt = out[t].rt
                           /\ f[t].eos = out[t].padEos /\ f[t].padEos = out[t].padEos
                           /\ f[t].pc = IF t = s THEN "out" ELSE out[t].pc
    BY <1>1, <2>2 DEF OutGood
  <2>5. CASE out' = WakeOutput(f)
    BY <2>1, <2>3, <2>4, <2>5, WakeOutKept DEF OutMove, Holding, Rest
  <2>6. CASE out' = At(out, s, "async_done")
    BY <1>1, <2>1, <2>6, OutMovedTo DEF WokenOut, OutMove, OutSame, OutWoke, Holding, Rest
  <2>7. QED BY <1>3, <2>2, <2>5, <2>6 DEF StartFile, Restart
<1>4. CASE GopIsOut(s)
  BY <1>1, <1>4, OutStays, OutStayed DEF GopIsOut, WokenOut
<1>5. ASSUME NEW p, WokenOut(At(out, s, p)),
             p \notin {"wait", "cmdwait"} \/ out' = At(out, s, p),
             p = "push" => out[s].pc # "done" /\ out[s].item.kind # "unblock",
             \/ p = "done"
             \/ p \in Rest /\ out[s].pc # "done" /\ Holding(s) = 0
             \/ p \notin Rest /\ out[s].pc \notin Rest
      PROVE  \A t \in Streams : OutMove(t)
  <2>1. /\ OutSame(out'[s], out[s]) /\ out'[s].pc = p
        /\ \A t \in Streams \ {s} : OutSame(out'[t], out[t]) /\ OutWoke(out[t].pc, out'[t].pc)
    BY <1>1, <1>5, OutMovedTo
  <2>2. OutMove(s)
    BY <1>5, <2>1 DEF OutMove, OutSame, Holding, Rest
  <2>3. QED BY <2>1, <2>2, OutStayed
<1>6. CASE Send(s)
  <2>1. out' = At(out, s, Sent(s)) /\ out[s].pc = "out"
    BY <1>6 DEF Send
  <2>2. CASE out[s].item.kind = "unblock"
    <3>1. out' = At(out, s, "idle") /\ Holding(s) = 0
      BY <2>1, <2>2 DEF Sent, Holding
    <3>2. QED BY <1>5, <2>1, <3>1 DEF Rest, WokenOut
  <2>3. CASE out[s].item.kind # "unblock"
    <3>1. out' = At(out, s, "push")
      BY <2>1, <2>3 DEF Sent
    <3>2. QED BY <1>5, <2>1, <2>3, <3>1 DEF Rest, WokenOut
  <2>4. QED BY <2>2, <2>3
<1>7. CASE Command(s)
  <2>1. out[s].pc \notin Rest
    BY <1>7 DEF Command, AtLimit, Rest
  <2>2. \/ out' = At(out, s, "cmdwait")
        \/ WokenOut(At(out, s, "command")) \/ WokenOut(At(out, s, "out"))
    BY <1>7 DEF Command, WokenOut
  <2>3. QED BY <1>5, <2>1, <2>2 DEF Rest, WokenOut
<1>8. CASE Underrun(s)
  <2>1. out' = At(out, s, "starved") /\ out[s].pc = "idle" /\ Holding(s) = 0
    BY <1>8 DEF Underrun, Holding, Rest
  <2>2. QED BY <1>5, <2>1 DEF Rest, WokenOut
<1>9. CASE Flushed(s) \/ OpenFile(s)
  <2>1. \E p \in {"done", "opened"} : out' = At(out, s, p) /\ out[s].pc \notin Rest
    BY <1>9 DEF Flushed, OpenFile, Rest
  <2>2. QED BY <1>5, <2>1 DEF Rest, WokenOut
<1>10. CASE SendEos(s) \/ Sleep(s) \/ WakeOut(s) \/ SwitchFile(s)
  <2>1. \E p \in {"out", "wait", "command", "switch"} :
           out' = At(out, s, p) /\ out[s].pc \notin Rest
    BY <1>10 DEF SendEos, Sleep, WakeOut, SwitchFile, AtLimit, Rest
  <2>2. QED BY <1>5, <2>1 DEF Rest, WokenOut
<1>11. QED BY <1>2, <1>3, <1>4, <1>6, <1>7, <1>8, <1>9, <1>10 DEF Output

(* What the probe does.                                                    *)
Probed(s, x) ==
  /\ out[s].pc \in {"idle", "starved"} /\ queue[s].items # <<>> /\ x = Head(queue[s].items)
  /\ x.kind \in {"buffer", "unblock", "eos"}
  /\ out'[s].item = x /\ out'[s].pc \in {"out", "idle", "done"}
  /\ out'[s].pc = "idle" => x.kind = "unblock"
  /\ out'[s].padEos => out[s].padEos \/ x.kind = "eos"
  /\ out[s].padEos \/ x.kind = "eos" => out'[s].padEos
  /\ out'[s].pc = "out" => /\ x.kind # "eos" => out'[s].rt = x.rt
                           /\ x.kind = "eos" => out'[s].eos
                           /\ s = Ref => x.kind # "unblock"
  /\ \A t \in Streams \ {s} : OutSame(out'[t], out[t]) /\ OutWoke(out[t].pc, out'[t].pc)
  /\ queue'[s].items = Tail(queue[s].items)
  /\ \A t \in Streams \ {s} : queue'[t].items = queue[t].items

LEMMA ProbeOut == ASSUME IInv, NEW s \in Streams, Probe(s)
                  PROVE  \E x \in Items(s) : Probed(s, x)
<1>1. OutGood(out) /\ QueueOK
  BY DEF IInv, OutputInv, OutOK
<1>2. PICK x : x = Head(queue[s].items)
  OBVIOUS
<1>3. /\ out[s].pc \in {"idle", "starved"} /\ queue[s].items # <<>>
      /\ x \in Items(s) /\ x.kind \in {"buffer", "unblock", "eos"}
  <2>1. out[s].pc \in {"idle", "starved"} /\ queue[s].items # <<>>
    BY DEF Probe
  <2>2. x \in Items(s)
    BY <1>1, <1>2, <2>1, QueueTaken
  <2>3. QED BY <2>1, <2>2 DEF Items
<1>4. PICK stopped \in BOOLEAN : stopped = (output.state = "stopped")
  OBVIOUS
<1>5. PICK v \in BOOLEAN : v = (out[s].padEos \/ x.kind = "eos")
  OBVIOUS
<1>6. PICK e \in BOOLEAN : e = (out[s].eos \/ ~stopped)
  OBVIOUS
<1>7. PICK f : f = [out EXCEPT ![s].item = x, ![s].padEos = v]
  OBVIOUS
<1>8. f = [out EXCEPT ![s].item = Head(queue[s].items),
                     ![s].padEos = @ \/ Head(queue[s].items).kind = "eos"]
  BY <1>2, <1>5, <1>7
<1>9. PICK g : g = [f EXCEPT ![s].eos = e, ![s].pc = IF stopped THEN "done" ELSE "out"]
  OBVIOUS
<1>10. g = [f EXCEPT ![s].eos = @ \/ ~(output.state = "stopped"),
                    ![s].pc = IF output.state = "stopped" THEN "done" ELSE "out"]
  <2>1. f[s].eos = out[s].eos
    BY <1>1, <1>7 DEF OutGood
  <2>2. QED BY <1>4, <1>6, <1>9, <2>1
<1>11. /\ DOMAIN f = Streams /\ \A t \in Streams : DOMAIN f[t] = {"pc", "item", "rt", "eos", "padEos"}
       /\ f[s].item = x /\ f[s].padEos = v /\ f[s].rt = out[s].rt /\ f[s].pc = out[s].pc
       /\ \A t \in Streams \ {s} : f[t] = out[t]
  BY <1>1, <1>7 DEF OutGood
<1>12. \/ x.kind = "buffer" /\ out' = At(f, s, "done")
       \/ x.kind = "buffer" /\ out' = [f EXCEPT ![s].rt = x.rt, ![s].pc = "out"]
       \/ /\ x.kind = "unblock"
          /\ out' = [f EXCEPT ![s].rt = IF stopped THEN @ ELSE x.rt,
                             ![s].pc = IF stopped \/ s = Ref THEN "idle" ELSE "out"]
       \/ x.kind = "eos" /\ (out' = g \/ out' = WakeOutput(g))
  <2>1. PICK h : h = [f EXCEPT ![s].eos = @ \/ ~(output.state = "stopped"),
                              ![s].pc = IF output.state = "stopped" THEN "done" ELSE "out"]
    OBVIOUS
  <2>2. \/ x.kind = "buffer" /\ out' = At(f, s, "done")
        \/ x.kind = "buffer" /\ out' = [f EXCEPT ![s].rt = x.rt, ![s].pc = "out"]
        \/ /\ x.kind = "unblock"
           /\ out' = [f EXCEPT
                ![s].rt = IF output.state = "stopped" THEN @ ELSE x.rt,
                ![s].pc = IF output.state = "stopped" \/ s = Ref THEN "idle" ELSE "out"]
        \/ x.kind = "eos" /\ (out' = h \/ out' = WakeOutput(h))
    BY <1>2, <1>8, <2>1, Zenon DEF Probe
  <2>3. g = h
    BY <1>10, <2>1
  <2>4. QED BY <1>4, <2>2, <2>3
<1>13. \/ queue' = [queue EXCEPT ![s].items = Tail(@)]
       \/ \E k : queue' = [[queue EXCEPT ![s].items = Tail(@)] EXCEPT ![s].queued = k]
  BY DEF Probe
<1>14. /\ queue'[s].items = Tail(queue[s].items)
       /\ \A t \in Streams \ {s} : queue'[t].items = queue[t].items
  BY <1>1, <1>13 DEF QueueOK, QueueGood
<1>15. /\ out'[s].item = x /\ out'[s].pc \in {"out", "idle", "done"} /\ out'[s].padEos = v
       /\ out'[s].pc = "idle" => x.kind = "unblock"
       /\ out'[s].pc = "out" => /\ x.kind # "eos" => out'[s].rt = x.rt
                                /\ x.kind = "eos" => out'[s].eos
                                /\ s = Ref => x.kind # "unblock"
       /\ \A t \in Streams \ {s} : OutSame(out'[t], out[t]) /\ OutWoke(out[t].pc, out'[t].pc)
  <2>1. CASE x.kind = "buffer"
    BY <1>11, <1>12, <2>1 DEF At, OutSame, OutWoke
  <2>2. CASE x.kind = "unblock"
    BY <1>11, <1>12, <2>2 DEF OutSame, OutWoke
  <2>3. CASE x.kind = "eos"
    <3>1. /\ DOMAIN g = Streams /\ \A t \in Streams : DOMAIN g[t] = {"pc", "item", "rt", "eos", "padEos"}
          /\ g[s].item = x /\ g[s].padEos = v /\ g[s].eos = e
          /\ g[s].pc = (IF stopped THEN "done" ELSE "out")
          /\ \A t \in Streams \ {s} : g[t] = out[t]
      BY <1>9, <1>11
    <3>2. ~stopped => e
      BY <1>6
    <3>3. CASE out' = g
      BY <2>3, <3>1, <3>2, <3>3 DEF OutSame, OutWoke
    <3>4. CASE out' = WakeOutput(g)
      <4>1. \A t \in Streams :
              /\ out'[t].item = g[t].item /\ out'[t].rt = g[t].rt
              /\ out'[t].eos = g[t].eos /\ out'[t].padEos = g[t].padEos
              /\ out'[t].pc = CASE g[t].pc = "wait" -> "woken"
                                [] g[t].pc = "cmdwait" -> "cmdwoken"
                                [] OTHER -> g[t].pc
        BY <3>1, <3>4 DEF WakeOutput
      <4>2. QED BY <2>3, <3>1, <3>2, <4>1 DEF OutSame, OutWoke
    <3>5. QED BY <1>12, <2>3, <3>3, <3>4
  <2>4. QED BY <1>3, <2>1, <2>2, <2>3
<1>16. QED BY <1>2, <1>3, <1>5, <1>14, <1>15 DEF Probed

LEMMA FlowProbe ==
  ASSUME IInv, FlowInv, NEW s \in Streams, NEW x \in Items(s), Probed(s, x),
         UNCHANGED <<input, stop, files, in>>
  PROVE  FlowOf(s)' /\ (x.kind = "eos" => \E b \in [0 .. Len(files) -> Nat] :
                          FileRun(s, b) /\ b[Len(files)] = Len(input[s]))
<1>1. PICK b \in [0 .. Len(files) -> Nat] :
        FileRun(s, b) /\ b[Len(files)] <= Len(input[s]) /\ OutFlow(s, b[Len(files)])
  BY DEF FlowInv, FlowOf
<1>2. PICK c \in Nat : c = b[Len(files)]
  BY <1>1 DEF FlowInv, FilesOK
<1>3. Live' = Live
  BY DEF Live
<1>4. Holding(s) = 0 /\ out[s].pc # "done"
  BY DEF Probed, Holding, Rest
<1>5. PICK z \in Nat : /\ Run(s, c, queue[s].items, z)
                       /\ in[s].pc # "done" => z = in[s].n - Fetched(s)
  <2>1. c + 0 = c
    OBVIOUS
  <2>2. QED BY <1>1, <1>2, <1>4, <2>1 DEF OutFlow, QueueFlow
<1>6. PICK S : S = Items(s)
  OBVIOUS
<1>7. queue[s].items \in Seq(S) /\ queue[s].items # <<>> /\ x = Head(queue[s].items)
  BY <1>6 DEF Probed, IInv, OutputInv, QueueOK, QueueGood
<1>8. PICK y \in Nat : y = c + Count(x)
  BY DEF Count
<1>9. Proper(s, x, y) /\ Run(s, y, Tail(queue[s].items), z)
  BY <1>5, <1>7, <1>8, RunTaken
<1>10. Proper(s, x, y)'
  BY <1>3, <1>9, ProperKept
<1>11. ASSUME out'[s].pc # "done" PROVE QueueFlow(s, c)'
  <2>1. c + Holding(s)' = y
    BY <1>8, <1>11 DEF Probed, Holding, Count, Rest
  <2>2. PICK q : q = Tail(queue[s].items)
    OBVIOUS
  <2>3. Run(s, y, q, z)'
    BY <1>3, <1>9, <2>2, RunKept
  <2>4. queue'[s].items = q
    BY <2>2 DEF Probed
  <2>5. Run(s, c + Holding(s), queue[s].items, z)'
    BY <2>1, <2>3, <2>4 DEF Run
  <2>6. QED BY <1>5, <2>5 DEF QueueFlow, Fetched
<1>12. ASSUME out'[s].pc \notin Rest
       PROVE  /\ Proper(s, out[s].item, c + Count(out[s].item))'
              /\ out'[s].item.kind = "eos" => out'[s].eos /\ out'[s].padEos
              /\ Live' /\ out'[s].item.kind # "eos" => out'[s].rt = out'[s].item.rt
              /\ out'[s].pc = "push" \/ s = Ref => out'[s].item.kind # "unblock"
  <2>1. out'[s].pc = "out" /\ out'[s].item = x
    BY <1>12 DEF Probed, Rest
  <2>2. Proper(s, out[s].item, c + Count(out[s].item))'
    BY <1>8, <1>10, <2>1 DEF Proper, Fits, Timed, Count
  <2>3. QED BY <2>1, <2>2 DEF Probed
<1>13. x.kind = "eos" => c = Len(input[s])
  BY <1>8, <1>9 DEF Proper, Fits, Count
<1>14. out'[s].padEos => c = Len(input'[s])
  BY <1>1, <1>2, <1>13 DEF Probed, OutFlow
<1>15. OutFlow(s, c)'
  BY <1>11, <1>12, <1>14 DEF OutFlow
<1>16. FileRun(s, b)' /\ c <= Len(input'[s]) /\ Len(files') = Len(files)
  BY <1>1, <1>2 DEF FileRun
<1>17. FlowOf(s)'
  BY <1>2, <1>15, <1>16 DEF FlowOf
<1>18. QED BY <1>1, <1>2, <1>13, <1>17

(* A buffer goes into the current file.                                    *)
Pushes(s) ==
  /\ out[s].pc = "push" /\ out[s].item.kind = "buffer" /\ files # <<>>
  /\ files' = [files EXCEPT ![Len(files)][s] = Append(@, out[s].item.n)]
  /\ out' = At(out, s, "idle")

LEMMA FilesPushed ==
  ASSUME IInv, FilesOK, NEW s \in Streams, Pushes(s)
  PROVE  /\ FilesOK' /\ Len(files') = Len(files)
         /\ \A t \in Streams : FilesSame(t) \/ t = s
         /\ \A k \in 1 .. Len(files) : k # Len(files) => files'[k][s] = files[k][s]
         /\ files'[Len(files)][s] = Append(files[Len(files)][s], out[s].item.n)
         /\ Len(files) \in 1 .. Len(files)
<1>1. PICK S : S = [Streams -> Seq(Nat)]
  OBVIOUS
<1>2. files \in Seq(S) /\ files # <<>>
  BY <1>1 DEF FilesOK, Pushes
<1>3. PICK L \in 1 .. Len(files) : L = Len(files)
  BY <1>2
<1>4. out[s].item \in Items(s)
  BY DEF Pushes, IInv, OutputInv, OutOK, OutGood, Rest
<1>5. out[s].item.n \in Nat
  <2>1. out[s].item.n \in 0 .. Len(input[s])
    BY <1>4 DEF Pushes, Items
  <2>2. QED BY <2>1, Counted DEF IInv
<1>6. files[L] \in S
  BY <1>2
<1>7. PICK y : y = [files[L] EXCEPT ![s] = Append(@, out[s].item.n)]
  OBVIOUS
<1>8. y \in S /\ y[s] = Append(files[L][s], out[s].item.n) /\ \A t \in Streams \ {s} : y[t] = files[L][t]
  BY <1>1, <1>5, <1>6, <1>7
<1>9. files' = [files EXCEPT ![L] = y]
  BY <1>3, <1>7 DEF Pushes
<1>10. /\ files' \in Seq(S) /\ Len(files') = Len(files)
       /\ \A i \in 1 .. Len(files) : files'[i] = IF i = L THEN y ELSE files[i]
  BY <1>2, <1>8, <1>9, Replaced
<1>11. QED BY <1>1, <1>3, <1>8, <1>10 DEF FilesOK, FilesSame

LEMMA CountedOn ==
  ASSUME NEW r \in Seq(Nat), NEW p \in Nat, NEW c \in Nat, c = p + Len(r),
         \A j \in 1 .. Len(r) : r[j] = p + j
  PROVE  /\ Len(Append(r, c + 1)) = Len(r) + 1
         /\ \A j \in 1 .. Len(r) + 1 : Append(r, c + 1)[j] = p + j
OBVIOUS

LEMMA FlowPush ==
  ASSUME IInv, FlowInv, NEW s \in Streams, Pushes(s),
         UNCHANGED <<input, stop, in, queue>>
  PROVE  FlowOf(s)'
<1>1. PICK b \in [0 .. Len(files) -> Nat] :
        FileRun(s, b) /\ b[Len(files)] <= Len(input[s]) /\ OutFlow(s, b[Len(files)])
  BY DEF FlowInv, FlowOf
<1>2. PICK L \in Nat : L = Len(files)
  BY DEF FlowInv, FilesOK
<1>3. /\ FilesOK' /\ Len(files') = L /\ L \in 1 .. L
      /\ \A k \in 1 .. L : k # L => files'[k][s] = files[k][s]
      /\ files'[L][s] = Append(files[L][s], out[s].item.n)
  BY <1>2, FilesPushed DEF FlowInv
<1>4. PICK c \in Nat : c = b[L]
  BY <1>1, <1>2
<1>5. PICK x \in Items(s) : x = out[s].item
  BY DEF Pushes, IInv, OutputInv, OutOK, OutGood, Rest
<1>6. x.n = c + 1 /\ x.n <= Len(input[s]) /\ Holding(s) = 1 /\ Len(input[s]) \in Nat
      /\ out[s].pc # "done"
  <2>1. Proper(s, x, c + Count(x)) /\ x.kind = "buffer"
    BY <1>1, <1>2, <1>4, <1>5 DEF Pushes, OutFlow, Rest
  <2>2. x.n = c + 1
    BY <2>1 DEF Proper, Fits, Count
  <2>3. x.n \in 0 .. Len(input[s]) /\ Len(input[s]) \in Nat
    BY <2>1, Counted DEF Items, IInv
  <2>4. Holding(s) = 1 /\ out[s].pc # "done"
    BY DEF Pushes, Holding, Rest
  <2>5. QED BY <2>2, <2>3, <2>4
<1>7. out'[s].pc = "idle" /\ out'[s].padEos = out[s].padEos
  BY DEF Pushes, At, IInv, OutputInv, OutOK, OutGood
<1>8. QueueFlow(s, c + 1)'
  <2>1. PICK z \in Nat : /\ Run(s, c + 1, queue[s].items, z)
                         /\ in[s].pc # "done" => z = in[s].n - Fetched(s)
    BY <1>1, <1>2, <1>4, <1>6 DEF OutFlow, QueueFlow
  <2>2. PICK a \in Nat : a = c + 1
    OBVIOUS
  <2>3. PICK q : q = queue[s].items
    OBVIOUS
  <2>4. Run(s, a, q, z)'
    BY <2>1, <2>2, <2>3, RunKept DEF Live
  <2>5. a + Holding(s)' = a /\ queue'[s].items = q
    BY <1>7, <2>3 DEF Holding, Rest
  <2>6. Run(s, a + Holding(s), queue[s].items, z)'
    BY <2>4, <2>5 DEF Run
  <2>7. Fetched(s)' = Fetched(s)
    BY DEF Fetched
  <2>8. QueueFlow(s, a)'
    BY <2>1, <2>6, <2>7 DEF QueueFlow
  <2>9. QED BY <2>2, <2>8 DEF QueueFlow
<1>9. ~out[s].padEos
  BY <1>1, <1>2, <1>4, <1>6 DEF OutFlow
<1>10. OutFlow(s, c + 1)'
  BY <1>7, <1>8, <1>9 DEF OutFlow, Rest
<1>11. PICK d : d = [b EXCEPT ![L] = c + 1]
  OBVIOUS
<1>12. /\ d \in [0 .. L -> Nat] /\ d[L] = c + 1 /\ d[0] = 0
       /\ \A k \in 0 .. L : k # L => d[k] = b[k]
  BY <1>1, <1>2, <1>3, <1>11 DEF FileRun
<1>13. FileRun(s, d)'
  <2>1. ASSUME NEW k \in 1 .. L
        PROVE  /\ d[k] = d[k - 1] + Len(files'[k][s])
               /\ \A j \in 1 .. Len(files'[k][s]) : files'[k][s][j] = d[k - 1] + j
    <3>1. /\ b[k] = b[k - 1] + Len(files[k][s])
          /\ \A j \in 1 .. Len(files[k][s]) : files[k][s][j] = b[k - 1] + j
      BY <1>1, <1>2 DEF FileRun
    <3>2. k - 1 \in 0 .. L /\ k - 1 # L /\ k \in 0 .. L
      OBVIOUS
    <3>3. CASE k # L
      BY <1>3, <1>12, <3>1, <3>2, <3>3
    <3>4. CASE k = L
      <4>1. PICK r \in Seq(Nat) : r = files[k][s]
        BY <1>2 DEF FlowInv, FilesOK
      <4>2. files'[k][s] = Append(r, c + 1) /\ b[k - 1] \in Nat
        BY <1>1, <1>2, <1>3, <1>5, <1>6, <3>2, <3>4, <4>1
      <4>3. PICK p \in Nat : p = b[k - 1]
        BY <4>2
      <4>4. c = p + Len(r) /\ d[k] = c + 1 /\ d[k - 1] = p
        BY <1>4, <1>12, <3>1, <3>2, <3>4, <4>1, <4>3
      <4>5. \A j \in 1 .. Len(r) : r[j] = p + j
        BY <3>1, <4>1, <4>3
      <4>6. /\ Len(Append(r, c + 1)) = Len(r) + 1
            /\ \A j \in 1 .. Len(r) + 1 : Append(r, c + 1)[j] = p + j
        BY <4>1, <4>3, <4>4, <4>5, CountedOn
      <4>7. QED BY <4>2, <4>4, <4>6
    <3>5. QED BY <3>3, <3>4
  <2>2. QED BY <1>3, <1>12, <2>1 DEF FileRun
<1>14. QED BY <1>3, <1>6, <1>10, <1>12, <1>13 DEF FlowOf

(* A new file is open.                                                     *)
LEMMA FlowOpened ==
  ASSUME IInv, FlowInv, UNCHANGED <<input, stop, in, queue>>,
         files' = Append(files, [t \in Streams |-> <<>>]),
         NEW t \in Streams, OutMove(t)
  PROVE  FlowOf(t)'
<1>1. PICK b \in [0 .. Len(files) -> Nat] :
        FileRun(t, b) /\ b[Len(files)] <= Len(input[t]) /\ OutFlow(t, b[Len(files)])
  BY DEF FlowInv, FlowOf
<1>2. PICK L \in Nat : L = Len(files)
  BY DEF FlowInv, FilesOK
<1>3. PICK c \in Nat : c = b[L]
  BY <1>1, <1>2
<1>4. Len(files') = L + 1 /\ files'[L + 1][t] = <<>> /\ \A k \in 1 .. L : files'[k] = files[k]
  <2>1. PICK S : S = [Streams -> Seq(Nat)]
    OBVIOUS
  <2>2. PICK y : y = [u \in Streams |-> <<>>]
    OBVIOUS
  <2>3. files \in Seq(S) /\ files' = Append(files, y) /\ y \in S
    BY <2>1, <2>2 DEF FlowInv, FilesOK
  <2>4. QED BY <1>2, <2>2, <2>3
<1>5. OutFlow(t, c)'
  <2>1. InMove(t)
    BY DEF InMove
  <2>2. QED BY <1>1, <1>2, <1>3, <2>1, OutFlowKept DEF Live
<1>6. PICK d : d = [k \in 0 .. L + 1 |-> IF k = L + 1 THEN c ELSE b[k]]
  OBVIOUS
<1>7. d \in [0 .. L + 1 -> Nat] /\ d[L + 1] = c /\ \A k \in 0 .. L : d[k] = b[k]
  BY <1>1, <1>2, <1>6
<1>8. FileRun(t, d)'
  <2>1. ASSUME NEW k \in 1 .. L + 1
        PROVE  /\ d[k] = d[k - 1] + Len(files'[k][t])
               /\ \A j \in 1 .. Len(files'[k][t]) : files'[k][t][j] = d[k - 1] + j
    <3>1. CASE k = L + 1
      <4>1. d[k - 1] = c /\ L \in 0 .. L
        BY <1>3, <1>7, <3>1
      <4>2. QED BY <1>4, <1>7, <3>1, <4>1
    <3>2. CASE k # L + 1
      <4>1. k \in 1 .. L /\ k - 1 \in 0 .. L /\ k \in 0 .. L
        BY <3>2
      <4>2. QED BY <1>1, <1>2, <1>4, <1>7, <4>1 DEF FileRun
    <3>3. QED BY <3>1, <3>2
  <2>2. d[0] = 0
    BY <1>1, <1>7 DEF FileRun
  <2>3. QED BY <1>4, <2>1, <2>2 DEF FileRun
<1>9. c <= Len(input'[t])
  BY <1>1, <1>2, <1>3
<1>10. QED BY <1>4, <1>5, <1>7, <1>8, <1>9 DEF FlowOf

LEMMA ProbeOutput ==
  ASSUME IInv, NEW s \in Streams, Probe(s), NEW x, x = Head(queue[s].items)
  PROVE  /\ output'.max = output.max /\ output'.cmds = output.cmds /\ output'.muxed = output.muxed
         /\ output'.ready = output.ready
         /\ \/ output'.state = output.state
            \/ /\ output'.state = "ending_stream" /\ s = Ref /\ x.kind = "eos"
               /\ output.state # "stopped"
         /\ s = Ref /\ x.kind = "eos" /\ output.state # "stopped" =>
              output'.state = "ending_stream"
<1>1. DOMAIN output = {"state", "max", "cmds", "muxed", "ready", "keys"}
  BY DEF IInv, OutputInv, OutputOK
<1>2. CASE x.kind = "buffer"
  <2>1. UNCHANGED output \/ \E k : output' = [output EXCEPT !.keys = k]
    BY <1>2 DEF Probe
  <2>2. QED BY <1>1, <1>2, <2>1
<1>3. CASE x.kind = "unblock"
  BY <1>3 DEF Probe
<1>4. CASE x.kind = "eos"
  <2>1. output' = IF s = Ref /\ ~(output.state = "stopped")
                  THEN [output EXCEPT !.state = "ending_stream"] ELSE output
    BY <1>4 DEF Probe
  <2>2. QED BY <1>1, <1>4, <2>1
<1>5. QED BY <1>2, <1>3, <1>4 DEF Probe

LEMMA ProbeUnseen ==
  ASSUME NEW s \in Streams, Probe(s)
  PROVE  UNCHANGED <<in, collect, mux, files, drained, ended, async_pending, input, stop, failed, requests>>
BY DEF Probe, muxVars, appVars

LEMMA EmptyOutput ==
  ASSUME IInv, FlowInv, NEW s \in Streams, Output(s)
  PROVE  Empty'
<1> USE DEF outputVars, muxVars, appVars
<1> SUFFICES ASSUME files' = <<>>
             PROVE  /\ output'.state \in {"next_file", "stopped"} /\ output'.max = NoTime
                    /\ \A t \in Streams :
                         /\ out'[t].pc \notin {"push", "send_eos", "command", "opened", "async_done"}
                         /\ ~mux'[t].eos
  BY DEF Empty
<1>1. OutGood(out) /\ FilesOK /\ Empty
  BY DEF IInv, OutputInv, OutOK, FlowInv
<1>2. files = <<>>
  <2>1. CASE OpenFile(s) /\ files' = Append(files, [t \in Streams |-> <<>>])
    <3>1. PICK y : y = [t \in Streams |-> <<>>]
      OBVIOUS
    <3>2. PICK S : S = [Streams -> Seq(Nat)]
      OBVIOUS
    <3>3. y \in S /\ files \in Seq(S) /\ files' = Append(files, y)
      BY <1>1, <2>1, <3>1, <3>2 DEF FilesOK
    <3>4. Append(files, y) # <<>>
      BY <3>3, AppendProperties
    <3>5. QED BY <3>3, <3>4
  <2>2. CASE Push(s) /\ out[s].item.kind = "buffer" /\ files # <<>>
    <3>1. Pushes(s)
      BY <2>2 DEF Push, Pushes
    <3>2. Len(files') = Len(files) /\ Len(files) \in 1 .. Len(files) /\ FilesOK'
      BY <1>1, <3>1, FilesPushed
    <3>3. QED BY <3>2
  <2>3. CASE UNCHANGED files
    BY <2>3
  <2>4. QED BY <2>1, <2>2, <2>3, OutputShape DEF OpenFile, Push
<1>3. /\ output.state \in {"next_file", "stopped"} /\ output.max = NoTime
      /\ \A t \in Streams :
           /\ out[t].pc \notin {"push", "send_eos", "command", "opened", "async_done"}
           /\ ~mux[t].eos
  BY <1>1, <1>2 DEF Empty
<1>4. ASSUME NEW p \in {"starved", "done", "wait", "out", "switch"}, out' = At(out, s, p),
             UNCHANGED <<output, mux>>
      PROVE  /\ output'.state \in {"next_file", "stopped"} /\ output'.max = NoTime
             /\ \A t \in Streams :
                  /\ out'[t].pc \notin {"push", "send_eos", "command", "opened", "async_done"}
                  /\ ~mux'[t].eos
  BY <1>1, <1>3, <1>4 DEF At, OutGood
<1>5. CASE Underrun(s) \/ Flushed(s) \/ Sleep(s) \/ SwitchFile(s)
  BY <1>4, <1>5 DEF Underrun, Flushed, Sleep, SwitchFile
<1>6. CASE WakeOut(s)
  BY <1>3, <1>4, <1>6 DEF WakeOut
<1>7. CASE OpenFile(s)
  <2>1. files' # Append(files, [t \in Streams |-> <<>>])
    BY <1>1, <1>2
  <2>2. QED BY <1>4, <1>7, <2>1 DEF OpenFile
<1>8. ~(Send(s) \/ GopIsOut(s) \/ EndFile(s) \/ SendEos(s) \/ Command(s) \/ StartFile(s) \/ Push(s))
  BY <1>3 DEF Send, InTime, GopIsOut, EndFile, SendEos, Command, StartFile, Push, AtLimit
<1>9. CASE Probe(s)
  <2>1. PICK x \in Items(s) : Probed(s, x)
    BY <1>9, ProbeOut
  <2>2. UNCHANGED <<in, mux, files, input, stop>>
    BY <1>9, ProbeUnseen
  <2>3. ASSUME s = Ref, x.kind = "eos" PROVE FALSE
    <3>1. PICK b \in [0 .. Len(files) -> Nat] : FileRun(s, b) /\ b[Len(files)] = Len(input[s])
      BY <2>1, <2>2, <2>3, FlowProbe
    <3>2. Len(files) = 0
      BY <1>2
    <3>3. Len(input[Ref]) = 0
      BY <2>3, <3>1, <3>2 DEF FileRun
    <3>4. PICK S : S = [pts : Times, dts : Times, key : BOOLEAN]
      OBVIOUS
    <3>5. input[Ref] \in Seq(S) /\ input[Ref] # <<>>
      BY <3>4, Counted, SplitMuxAssumption DEF IInv
    <3>6. QED BY <3>3, <3>5
  <2>4. output'.state = output.state /\ output'.max = output.max
    BY <1>9, <2>1, <2>3, ProbeOutput DEF Probed
  <2>5. QED BY <1>3, <2>1, <2>2, <2>4 DEF Probed, OutWoke
<1>10. QED BY <1>5, <1>6, <1>7, <1>8, <1>9 DEF Output

LEMMA FlowOutput == ASSUME IInv, FlowInv, NEW s \in Streams, Output(s) PROVE FlowInv'
<1>1. UNCHANGED <<in, collect, input, stop>> /\ Empty' /\ Live' = Live
  BY OutputShape, EmptyOutput DEF Live
<1>2. \A t \in Streams : InFlow(t)' /\ InMove(t)
  BY <1>1 DEF FlowInv, InFlow, Reached, RunTime, InMove
<1>3. \A t \in Streams : Grown[t].items = queue[t].items
  BY DEF Grown, IInv, OutputInv, QueueOK, QueueGood
<1>4. CASE Probe(s)
  <2>1. PICK x \in Items(s) : Probed(s, x)
    BY <1>4, ProbeOut
  <2>2. UNCHANGED files
    BY <1>4, ProbeUnseen
  <2>3. FlowOf(s)'
    BY <1>1, <2>1, <2>2, FlowProbe
  <2>4. ASSUME NEW t \in Streams \ {s} PROVE FlowOf(t)'
    <3>1. OutMove(t) /\ queue'[t].items = queue[t].items
      BY <2>1, OutStayed DEF Probed
    <3>2. QED BY <1>1, <1>2, <2>2, <3>1, FlowKept DEF FlowInv, FilesSame
  <2>5. QED BY <1>1, <1>2, <2>2, <2>3, <2>4 DEF FlowInv, FilesOK
<1>5. CASE Push(s) /\ out[s].item.kind = "buffer"
  <2>1. Pushes(s) /\ UNCHANGED queue
    BY <1>5 DEF Push, Pushes, FlowInv, Empty
  <2>2. FlowOf(s)'
    BY <1>1, <2>1, FlowPush
  <2>3. ASSUME NEW t \in Streams \ {s} PROVE FlowOf(t)'
    <3>1. OutMove(t)
      BY <2>1 DEF Pushes, At, IInv, OutputInv, OutOK, OutGood, OutMove, Holding
    <3>2. FilesSame(t)
      BY <2>1, FilesPushed DEF FlowInv
    <3>3. QED BY <1>1, <1>2, <2>1, <3>1, <3>2, FlowKept DEF FlowInv
  <2>4. FilesOK'
    BY <2>1, FilesPushed DEF FlowInv
  <2>5. QED BY <1>1, <1>2, <2>2, <2>3, <2>4 DEF FlowInv
<1>6. CASE Push(s) /\ out[s].item.kind # "buffer"
  <2>1. UNCHANGED <<queue, files>> /\ out' = At(out, s, "done")
    BY <1>6 DEF Push
  <2>2. ASSUME NEW t \in Streams PROVE FlowOf(t)'
    <3>1. OutMove(t)
      BY <2>1 DEF At, IInv, OutputInv, OutOK, OutGood, OutMove, Holding, Rest
    <3>2. QED BY <1>1, <1>2, <2>1, <3>1, FlowKept DEF FlowInv, FilesSame
  <2>3. QED BY <1>1, <1>2, <2>1, <2>2 DEF FlowInv, FilesOK
<1>7. CASE ~Probe(s) /\ ~Push(s)
  <2>1. \A t \in Streams : OutMove(t)
    BY <1>7, OutPlain
  <2>2. \A t \in Streams : queue'[t].items = queue[t].items
    BY <1>3, <1>7, OutputShape
  <2>3. CASE OpenFile(s) /\ files' = Append(files, [t \in Streams |-> <<>>])
    <3>1. UNCHANGED queue
      BY <2>3 DEF OpenFile
    <3>2. FilesOK'
      <4>1. PICK y : y = [t \in Streams |-> <<>>]
        OBVIOUS
      <4>2. PICK S : S = [Streams -> Seq(Nat)]
        OBVIOUS
      <4>3. y \in S /\ files \in Seq(S) /\ files' = Append(files, y)
        BY <2>3, <4>1, <4>2 DEF FlowInv, FilesOK
      <4>4. QED BY <4>2, <4>3 DEF FilesOK
    <3>3. \A t \in Streams : FlowOf(t)'
      BY <1>1, <2>1, <2>3, <3>1, FlowOpened
    <3>4. QED BY <1>1, <1>2, <3>2, <3>3 DEF FlowInv
  <2>4. CASE UNCHANGED files
    <3>1. \A t \in Streams : FlowOf(t)'
      BY <1>1, <1>2, <2>1, <2>2, <2>4, FlowKept DEF FlowInv, FilesSame
    <3>2. QED BY <1>1, <1>2, <2>4, <3>1 DEF FlowInv, FilesOK
  <2>5. QED BY <1>7, <2>3, <2>4, OutputShape DEF OpenFile
<1>8. QED BY <1>4, <1>5, <1>6, <1>7

LEMMA FlowStop == ASSUME IInv, FlowInv, Stop PROVE FlowInv'
<1> USE DEF muxVars
<1>1. UNCHANGED <<input, files, mux>> /\ ~Live'
  BY DEF Stop, Live
<1>2. PICK g : g = [s \in Streams |-> [out[s] EXCEPT !.rt = NoTime]]
  OBVIOUS
<1>3. OutGood(g) /\ out' = WakeOutput(g)
  BY <1>2 DEF IInv, OutputInv, OutOK, OutGood, Stop, Reset
<1>4. \A t \in Streams : /\ g[t].pc = out[t].pc /\ g[t].item = out[t].item
                         /\ g[t].eos = out[t].eos /\ g[t].padEos = out[t].padEos
  BY <1>2 DEF IInv, OutputInv, OutOK, OutGood
<1>5. \A t \in Streams : /\ out'[t].item = out[t].item /\ OutWoke(out[t].pc, out'[t].pc)
                         /\ out'[t].eos = out[t].eos /\ out'[t].padEos = out[t].padEos
  BY <1>3, <1>4, WakeOutKept DEF OutWoke
<1>6. \A t \in Streams : OutMove(t)
  BY <1>1, <1>5 DEF OutMove, OutWoke, Holding, Rest
<1>7. Records(Forgotten) /\ in' = WakeInput(Forgotten)
  BY DEF Stop, Forgotten, IInv, InputInv, InOK, Records, InFields
<1>8. \A t \in Streams : SameData(in'[t], Forgotten[t]) /\ Woken(in[t].pc, in'[t].pc)
  <2>1. \A t \in Streams : Forgotten[t].pc = in[t].pc
    BY DEF Forgotten, IInv, InputInv, InOK
  <2>2. QED BY <1>7, <2>1, WakeKept DEF Woken
<1>9. \A t \in Streams : in'[t].n = in[t].n /\ in'[t].eos = in[t].eos
  <2>1. \A t \in Streams : Forgotten[t].n = in[t].n /\ Forgotten[t].eos = in[t].eos
    BY DEF Forgotten, IInv, InputInv, InOK
  <2>2. QED BY <1>8, <2>1 DEF SameData
<1>10. \A t \in Streams : InMove(t)
  BY <1>8, <1>9 DEF InMove, Woken
<1>11. \A t \in Streams : queue'[t].items = queue[t].items
  BY DEF Stop, Reset, IInv, OutputInv, QueueOK, QueueGood
<1>12. \A t \in Streams : FlowOf(t)'
  BY <1>1, <1>6, <1>10, <1>11, FlowKept DEF FlowInv, FilesSame
<1>13. \A t \in Streams : InFlow(t)'
  BY <1>1, <1>9 DEF FlowInv, InFlow
<1>14. Empty'
  <2>1. output'.state = "stopped" /\ output'.max = NoTime
    BY DEF Stop, Reset
  <2>2. QED BY <1>1, <1>5, <2>1 DEF FlowInv, Empty, OutWoke
<1>15. QED BY <1>1, <1>12, <1>13, <1>14 DEF FlowInv, FilesOK

LEMMA FlowNext == ASSUME IInv, FlowInv, [Next]_vars PROVE FlowInv'
<1> USE DEF outputVars, muxVars, appVars
<1>1. OutGood(out) /\ Records(in)
  BY DEF IInv, OutputInv, OutOK, InputInv, InOK, Records, InFields
<1>2. ASSUME UNCHANGED <<input, files>>, Live' = Live, Empty', collect'.max = collect.max,
             \A t \in Streams : /\ InMove(t) /\ OutMove(t) /\ SameTimes(in'[t], in[t])
                                /\ in'[t].pc \in {in[t].pc, "done"}
                                /\ queue'[t].items = queue[t].items
      PROVE  FlowInv'
  <2>1. \A t \in Streams : FlowOf(t)'
    BY <1>2, FlowKept DEF FlowInv, FilesSame
  <2>2. \A t \in Streams : InFlow(t)'
    BY <1>2, InFlowKept DEF FlowInv, InFlow, SameTimes
  <2>3. QED BY <1>2, <2>1, <2>2 DEF FlowInv, FilesOK
<1>3. \A t \in Streams : /\ UNCHANGED in => InMove(t) /\ SameTimes(in'[t], in[t])
                         /\ WokenOut(out) => OutMove(t)
  BY <1>1, OutStays, OutStayed DEF InMove, SameTimes
<1>4. ASSUME NEW s \in Streams, Deactivate(s) PROVE FlowInv'
  <2>1. UNCHANGED <<input, files, mux, output, collect, queue>> /\ Live' = Live
    BY <1>4 DEF Deactivate, Live
  <2>2. in' = in \/ in' = At(in, s, "done")
    BY <1>4 DEF Deactivate
  <2>3. out' = out \/ out' = At(out, s, "done")
    BY <1>4 DEF Deactivate
  <2>4. \A t \in Streams : /\ InMove(t) /\ SameTimes(in'[t], in[t])
                           /\ in'[t].pc \in {in[t].pc, "done"}
    BY <1>1, <2>2, AtKept DEF InMove, SameTimes, SameData
  <2>5. \A t \in Streams : /\ OutMove(t) /\ out'[t].pc \in {out[t].pc, "done"}
    BY <1>1, <2>3 DEF OutMove, At, OutGood, Holding, Rest
  <2>6. Empty'
    BY <2>1, <2>5 DEF FlowInv, Empty
  <2>7. QED BY <1>2, <2>1, <2>4, <2>5, <2>6
<1>5. CASE Mux
  <2>1. UNCHANGED <<input, files, in, out, output, collect, queue>> /\ Live' = Live
    BY <1>5 DEF Mux, Live
  <2>2. \A t \in Streams : mux'[t].eos = mux[t].eos
    BY <1>5 DEF Mux, Waiting, IInv, OutputInv, MuxOK
  <2>3. Empty'
    BY <2>1, <2>2 DEF FlowInv, Empty
  <2>4. QED BY <1>2, <1>3, <2>1, <2>3 DEF WokenOut
<1>6. CASE FileEnds
  <2>1. UNCHANGED <<input, files, in, collect, queue, mux>> /\ Live' = Live /\ WokenOut(out)
    BY <1>6 DEF FileEnds, Live, WokenOut
  <2>2. mux[Ref].eos
    BY <1>6, SplitMuxAssumption DEF FileEnds, MuxerReady, Waiting
  <2>3. files # <<>>
    BY <2>2, SplitMuxAssumption DEF FlowInv, Empty
  <2>4. Empty'
    BY <2>1, <2>3 DEF Empty
  <2>5. QED BY <1>2, <1>3, <2>1, <2>4
<1>7. CASE Split \/ Shutdown
  <2>1. UNCHANGED <<input, files, in, out, output, queue, mux>> /\ Live' = Live
    BY <1>7 DEF Split, Shutdown, Live
  <2>2. collect'.max = collect.max
    BY <1>7 DEF Split, Shutdown, IInv, InputInv, CollectOK
  <2>3. Empty'
    BY <2>1 DEF FlowInv, Empty
  <2>4. QED BY <1>2, <1>3, <2>1, <2>2, <2>3 DEF WokenOut
<1>8. CASE UNCHANGED vars
  <2>1. UNCHANGED <<input, files, in, out, output, queue, mux, collect>> /\ Live' = Live
    BY <1>8 DEF vars, Live
  <2>2. Empty'
    BY <2>1 DEF FlowInv, Empty
  <2>3. QED BY <1>2, <1>3, <2>1, <2>2 DEF WokenOut
<1>9. QED BY <1>4, <1>5, <1>6, <1>7, <1>8, FlowInput, FlowOutput, FlowStop DEF Next

LEMMA FlowInit == Init => FlowInv
<1> SUFFICES ASSUME Init PROVE FlowInv
  OBVIOUS
<1>1. IInv
  BY InvInit
<1>2. FilesOK /\ files = <<>> /\ Len(files) = 0
  BY DEF Init, FilesOK
<1>3. Empty
  BY DEF Init, Empty
<1>4. ASSUME NEW s \in Streams PROVE FlowOf(s) /\ InFlow(s)
  <2>1. /\ in[s].pc = "idle" /\ in[s].n = 0 /\ in[s].rt = NoTime /\ ~in[s].eos
        /\ queue[s].items = <<>> /\ out[s].pc = "idle" /\ ~out[s].padEos
    BY DEF Init
  <2>2. Len(input[s]) \in Nat
    BY <1>1, Counted DEF IInv
  <2>3. PICK b : b = [i \in 0 .. 0 |-> 0]
    OBVIOUS
  <2>4. b \in [0 .. 0 -> Nat] /\ b[0] = 0
    BY <2>3
  <2>5. Run(s, 0, <<>>, 0)
    BY <2>4 DEF Run
  <2>6. QueueFlow(s, 0)
    <3>1. Holding(s) = 0 /\ Fetched(s) = 0 /\ 0 + 0 = 0 /\ 0 - 0 = 0
      BY <2>1 DEF Holding, Fetched, Rest
    <3>2. QED BY <2>1, <2>5, <3>1 DEF QueueFlow
  <2>7. OutFlow(s, 0)
    BY <2>1, <2>6 DEF OutFlow, Rest
  <2>8. FlowOf(s)
    BY <1>2, <2>2, <2>4, <2>7 DEF FlowOf, FileRun
  <2>9. InFlow(s)
    BY <2>1 DEF InFlow, Reached
  <2>10. QED BY <2>8, <2>9
<1>5. QED BY <1>2, <1>3, <1>4 DEF FlowInv

(* From the pad probe of the input (handle_mq_input) through the           *)
(* multiqueue and its output probe (handle_mq_output) to the muxer, each   *)
(* stream keeps its order and its times: with any queue limits, with       *)
(* threads woken at any moment and a stop or a failed open between any     *)
(* two steps.                                                              *)
THEOREM FlowInvariance == Spec => []FlowInv
<1>1. IInv /\ FlowInv /\ [Next]_vars => FlowInv'
  BY FlowNext
<1>2. QED BY SplitMuxInvariance, FlowInit, <1>1, PTL DEF Spec

-----------------------------------------------------------------------------
(* What the files hold of a stream, one after the other.                   *)

Numbers(m) == [j \in 1 .. m |-> j]

LEMMA NumbersType == ASSUME NEW m \in Nat PROVE Numbers(m) \in Seq(Nat) /\ Len(Numbers(m)) = m
<1>1. Numbers(m) \in [1 .. m -> Nat]
  BY DEF Numbers
<1>2. Numbers(m) \in Seq(Nat)
  BY <1>1, SeqDef
<1>3. QED BY <1>1, <1>2, LenProperties

LEMMA NumbersOn ==
  ASSUME NEW m \in Nat, NEW q \in Seq(Nat), \A j \in 1 .. Len(q) : q[j] = m + j
  PROVE  Numbers(m) \o q = Numbers(m + Len(q))
<1>1. PICK r \in Seq(Nat) : r = Numbers(m) /\ Len(r) = m /\ \A j \in 1 .. m : r[j] = j
  BY NumbersType DEF Numbers
<1>2. PICK n \in Nat : n = m + Len(q)
  OBVIOUS
<1>3. /\ r \o q \in Seq(Nat) /\ Len(r \o q) = n
      /\ \A j \in 1 .. n : (r \o q)[j] = IF j <= m THEN r[j] ELSE q[j - m]
  BY <1>1, <1>2, ConcatProperties
<1>4. \A j \in 1 .. n : (r \o q)[j] = j
  <2> SUFFICES ASSUME NEW j \in 1 .. n PROVE (r \o q)[j] = j
    OBVIOUS
  <2>1. CASE j <= m
    <3>1. j \in 1 .. m
      BY <2>1
    <3>2. QED BY <1>1, <1>3, <2>1, <3>1
  <2>2. CASE ~(j <= m)
    <3>1. j - m \in 1 .. Len(q) /\ m + (j - m) = j
      BY <1>2, <2>2
    <3>2. QED BY <1>3, <2>2, <3>1
  <2>3. QED BY <2>1, <2>2
<1>5. r \o q = [j \in 1 .. n |-> (r \o q)[j]]
  BY <1>3, LenProperties, SeqDef
<1>6. QED BY <1>1, <1>2, <1>4, <1>5 DEF Numbers

LEMMA Emptied == ASSUME NEW S, NEW q \in Seq(S), Len(q) = 0 PROVE q = <<>>
BY EmptySeq

(* Sequences that count on from each other are one that counts.            *)
LEMMA Flattened ==
  ASSUME NEW q \in Seq(Seq(Nat)), NEW b \in [0 .. Len(q) -> Nat], b[0] = 0,
         \A k \in 1 .. Len(q) : /\ b[k] = b[k - 1] + Len(q[k])
                                /\ \A j \in 1 .. Len(q[k]) : q[k][j] = b[k - 1] + j
  PROVE  FlattenSeq(q) = Numbers(b[Len(q)])
<1>1. PICK n \in Nat : n = Len(q)
  OBVIOUS
<1>2. CASE n = 0
  <2>1. q = <<>>
    BY <1>1, <1>2, Emptied
  <2>10. FlattenSeq(q) = q
    BY <1>1, <1>2 DEF FlattenSeq
  <2>2. Numbers(0) = <<>>
    <3>1. Numbers(0) \in Seq(Nat) /\ Len(Numbers(0)) = 0
      BY NumbersType
    <3>2. QED BY <3>1
  <2>3. QED BY <1>1, <1>2, <2>1, <2>2, <2>10
<1>3. CASE n # 0
  <2>1. PICK g : g = [i \in 1 .. n |-> Numbers(b[i])]
    OBVIOUS
  <2>2. ASSUME NEW i \in 1 .. n
        PROVE  g[i] = IF i = 1 THEN q[i] ELSE g[i - 1] \o q[i]
    <3>1. /\ q[i] \in Seq(Nat) /\ b[i] = b[i - 1] + Len(q[i])
          /\ b[i - 1] \in Nat /\ \A j \in 1 .. Len(q[i]) : q[i][j] = b[i - 1] + j
      <4>1. i - 1 \in 0 .. n
        OBVIOUS
      <4>2. b[i - 1] \in Nat
        BY <1>1, <4>1
      <4>3. PICK S : S = Seq(Nat)
        OBVIOUS
      <4>4. q \in Seq(S)
        BY <4>3
      <4>5. q[i] \in S
        BY <1>1, <4>4
      <4>6. i \in 1 .. Len(q)
        BY <1>1
      <4>7. QED BY <4>2, <4>3, <4>5, <4>6
    <3>2. Numbers(b[i - 1]) \o q[i] = Numbers(b[i])
      BY <3>1, NumbersOn
    <3>3. CASE i = 1
      <4>1. Numbers(0) = <<>>
        <5>1. Numbers(0) \in Seq(Nat) /\ Len(Numbers(0)) = 0
          BY NumbersType
        <5>2. QED BY <5>1
      <4>2. b[i - 1] = 0
        BY <3>3
      <4>3. <<>> \o q[i] = q[i]
        BY <3>1
      <4>4. QED BY <2>1, <3>2, <3>3, <4>1, <4>2, <4>3
    <3>4. CASE i # 1
      <4>1. i - 1 \in 1 .. n
        BY <3>4
      <4>2. QED BY <2>1, <3>2, <3>4, <4>1
    <3>5. QED BY <3>3, <3>4
  <2>3. g = [i \in 1 .. Len(q) |-> IF i = 1 THEN q[i] ELSE g[i - 1] \o q[i]]
    BY <1>1, <2>1, <2>2
  <2>4. \E f : f = [i \in 1 .. Len(q) |-> IF i = 1 THEN q[i] ELSE f[i - 1] \o q[i]]
    BY <2>3
  <2>5. PICK f : /\ f = [i \in 1 .. Len(q) |-> IF i = 1 THEN q[i] ELSE f[i - 1] \o q[i]]
                 /\ FlattenSeq(q) = f[Len(q)]
    BY <1>1, <1>3, <2>4 DEF FlattenSeq
  <2>6. \A i \in 1 .. n : f[i] = IF i = 1 THEN q[i] ELSE f[i - 1] \o q[i]
    BY <1>1, <2>5
  <2>7. PICK T : T = {k \in Nat : k + 1 <= n => f[k + 1] = g[k + 1]}
    OBVIOUS
  <2>8. 0 \in T
    BY <1>3, <2>2, <2>6, <2>7
  <2>9. ASSUME NEW k \in Nat, k \in T PROVE k + 1 \in T
    <3>1. SUFFICES ASSUME k + 1 + 1 <= n PROVE f[k + 1 + 1] = g[k + 1 + 1]
      BY <2>7
    <3>2. PICK i \in 1 .. n : i = k + 1 + 1
      BY <3>1
    <3>3. f[i - 1] = g[i - 1] /\ i # 1
      BY <2>7, <2>9, <3>1, <3>2
    <3>4. QED BY <2>2, <2>6, <3>2, <3>3
  <2>10. n - 1 \in T
    <3>1. Nat \subseteq T
      BY <2>8, <2>9, Induction
    <3>2. QED BY <1>3, <3>1
  <2>11. f[n] = g[n]
    BY <1>3, <2>7, <2>10
  <2>12. n \in 1 .. n
    BY <1>3
  <2>13. g[n] = Numbers(b[n])
    BY <2>1, <2>12
  <2>14. QED BY <1>1, <2>5, <2>11, <2>13
<1>4. QED BY <1>2, <1>3

(* The buffers of a stream in the files, one file after the other.         *)
StreamOf(s) == FlattenSeq([k \in DOMAIN files |-> files[k][s]])

LEMMA StreamFlattened ==
  ASSUME FilesOK, NEW s \in Streams, NEW b \in [0 .. Len(files) -> Nat], FileRun(s, b)
  PROVE  StreamOf(s) = Numbers(b[Len(files)])
<1>1. PICK n \in Nat : n = Len(files)
  BY DEF FilesOK
<1>2. PICK q : q = [k \in DOMAIN files |-> files[k][s]]
  OBVIOUS
<1>3. PICK S : S = [Streams -> Seq(Nat)]
  OBVIOUS
<1>4. files \in Seq(S)
  BY <1>3 DEF FilesOK
<1>5. DOMAIN files = 1 .. n /\ \A k \in 1 .. n : files[k] \in S
  BY <1>1, <1>4
<1>6. \A k \in 1 .. n : files[k][s] \in Seq(Nat)
  BY <1>3, <1>5
<1>7. PICK T : T = Seq(Nat)
  OBVIOUS
<1>8. q \in [1 .. n -> T]
  BY <1>2, <1>5, <1>6, <1>7
<1>9. q \in Seq(T) /\ Len(q) = n
  <2>1. q \in Seq(T)
    BY <1>8, SeqDef
  <2>2. QED BY <1>8, <2>1, LenProperties
<1>10. q \in Seq(Seq(Nat))
  BY <1>7, <1>9
<1>11. \A k \in 1 .. n : q[k] = files[k][s]
  BY <1>2, <1>5
<1>12. b \in [0 .. Len(q) -> Nat] /\ b[0] = 0
  BY <1>1, <1>9 DEF FileRun
<1>13. \A k \in 1 .. Len(q) : /\ b[k] = b[k - 1] + Len(q[k])
                              /\ \A j \in 1 .. Len(q[k]) : q[k][j] = b[k - 1] + j
  BY <1>1, <1>9, <1>11 DEF FileRun
<1>14. FlattenSeq(q) = Numbers(b[Len(q)])
  BY ONLY <1>10, <1>12, <1>13, Flattened
<1>15. QED BY <1>1, <1>2, <1>9, <1>14 DEF StreamOf

LEMMA StreamCounts ==
  ASSUME FilesOK, NEW s \in Streams, NEW b \in [0 .. Len(files) -> Nat], FileRun(s, b)
  PROVE  /\ Len(StreamOf(s)) = b[Len(files)]
         /\ \A i \in DOMAIN StreamOf(s) : StreamOf(s)[i] = i
<1>1. PICK m \in Nat : m = b[Len(files)]
  BY DEF FilesOK
<1>2. StreamOf(s) = Numbers(m)
  BY <1>1, StreamFlattened
<1>3. Len(Numbers(m)) = m
  BY NumbersType
<1>4. QED BY <1>1, <1>2, <1>3 DEF Numbers

(* In order.                                                               *)
FilesInOrder == \A s \in Streams : \A i \in DOMAIN StreamOf(s) : StreamOf(s)[i] = i

(* The files hold each stream once and in order, from its first buffer     *)
(* on, whatever the times of the input are: no buffer of a file that is    *)
(* closed appears again in the next one and none is skipped where the      *)
(* files change, also when the sink is stopped.                            *)
THEOREM StreamsInOrder == Spec => []FilesInOrder
<1>1. FlowInv => FilesInOrder
  <2> SUFFICES ASSUME FlowInv, NEW s \in Streams
               PROVE  \A i \in DOMAIN StreamOf(s) : StreamOf(s)[i] = i
    BY DEF FilesInOrder
  <2>1. PICK b \in [0 .. Len(files) -> Nat] : FileRun(s, b)
    BY DEF FlowInv, FlowOf
  <2>2. QED BY <2>1, StreamCounts DEF FlowInv
<1>2. QED BY <1>1, FlowInvariance, PTL

-----------------------------------------------------------------------------
(* The GOPs of the reference stream, the cuts between them and the         *)
(* commands.                                                               *)

(* A time where files may be cut: the lowest PTS of a GOP but the first.   *)
Keyframe(g) == g \in 2 .. Len(input[Ref]) /\ input[Ref][g].key
IsCut(t) == \E g \in Buffers(Ref) : Keyframe(g) /\ t = GopStart(g)

(* x is the GOP of the buffers a to z, as far as they have come.           *)
IsGop(x, a, z) ==
  /\ a \in Buffers(Ref) /\ a <= z
  /\ \A n \in a + 1 .. z : ~input[Ref][n].key
  /\ x.pts = input[Ref][a].pts
  /\ \A n \in a .. z : x.start <= input[Ref][n].pts
  /\ \E n \in a .. z : x.start = input[Ref][n].pts
(* The GOPs q are those of the last buffers up to the m-th, without a      *)
(* gap.                                                                    *)
GopsRun(q, m) ==
  \E g \in [1 .. Len(q) + 1 -> 1 .. m + 1] :
    /\ g[Len(q) + 1] = m + 1
    /\ \A i \in 1 .. Len(q) : /\ IsGop(q[i], g[i], g[i + 1] - 1)
                              /\ i > 1 => input[Ref][g[i]].key

(* A command of the queue releases the streams up to a cut; only the last  *)
(* one, sent when all streams are at EOS, releases all.                    *)
Commands == [kind : {"finish"}] \cup [kind : {"release"}, max : Times \cup {MaxTime}]
Released(t, last) == \/ IsCut(t)
                     \/ t = MaxTime /\ last /\ collect.state = "finishing"
CmdsInv ==
  /\ output.cmds \in Seq(Commands)
  /\ \A j \in 1 .. Len(output.cmds) :
       output.cmds[j].kind = "release" => Released(output.cmds[j].max, j = Len(output.cmds))
  /\ output.max = NoTime \/ Released(output.max, output.cmds = <<>>)
DtsInv ==
  /\ in[Ref].n > 0 => in[Ref].dts = Dts(input[Ref][in[Ref].n])
  /\ collect.maxDts # NoTime => \E n \in 1 .. in[Ref].n : collect.maxDts = Dts(input[Ref][n])
(* What check_completed_gop knows of the reference stream while the sink   *)
(* is not stopped.                                                         *)
GopsInv ==
  Live => /\ DtsInv /\ CmdsInv
          /\ collect.state \in {"collecting", "waiting"} => GopsRun(Gops, in[Ref].n)

LEMMA GopMembers ==
  ASSUME NEW g, NEW i
  PROVE  i \in GopOf(g) <=> i \in g .. Len(input[Ref]) /\ \A n \in g + 1 .. i : ~input[Ref][n].key
BY DEF GopOf, Keys

LEMMA GopStartOf ==
  ASSUME InputInv, NEW g \in Buffers(Ref)
  PROVE  /\ GopStart(g) \in Times /\ g \in GopOf(g)
         /\ \A i \in GopOf(g) : GopStart(g) <= input[Ref][i].pts
         /\ \E i \in GopOf(g) : GopStart(g) = input[Ref][i].pts
<1> USE SplitMuxAssumption
<1>1. Len(input[Ref]) \in Nat /\ g \in Nat /\ g >= 1 /\ g <= Len(input[Ref])
  BY Counted DEF Buffers
<1>2. g \in GopOf(g) /\ GopOf(g) \subseteq Buffers(Ref)
  <2>1. g \in g .. Len(input[Ref]) /\ \A n \in g + 1 .. g : ~input[Ref][n].key
    BY <1>1
  <2>2. g .. Len(input[Ref]) \subseteq 1 .. Len(input[Ref])
    BY <1>1
  <2>3. GopOf(g) \subseteq g .. Len(input[Ref])
    BY GopMembers
  <2>4. QED BY <2>1, <2>2, <2>3, GopMembers DEF Buffers
<1>3. PICK I : I = {input[Ref][i].pts : i \in GopOf(g)}
  OBVIOUS
<1>4. I \subseteq Times /\ I # {}
  BY <1>2, <1>3, BufferType
<1>5. I \in SUBSET Nat
  BY <1>4 DEF Times
<1>6. Min(I) \in I /\ \A y \in I : Min(I) <= y
  BY <1>4, <1>5, MinOf
<1>7. GopStart(g) = Min(I)
  BY <1>3 DEF GopStart
<1>8. QED BY <1>2, <1>3, <1>4, <1>6, <1>7

LEMMA RefRegular == ASSUME InputInv, Regular PROVE RegularStream(input[Ref])
BY DEF InputInv, Regular

(* A cut parts the reference stream before its keyframe.                   *)
LEMMA CutParts ==
  ASSUME InputInv, Regular, NEW g \in Buffers(Ref), Keyframe(g), NEW n \in Buffers(Ref)
  PROVE  RunTime(Ref, n) < GopStart(g) <=> n < g
<1> USE SplitMuxAssumption
<1>1. Len(input[Ref]) \in Nat /\ g \in Nat /\ n \in Nat /\ n >= 1 /\ g <= Len(input[Ref])
  BY Counted DEF Buffers
<1>2. RunTime(Ref, n) \in Nat /\ GopStart(g) \in Nat
  BY RunTimeOf, GopStartOf DEF Times
<1>3. ASSUME n < g PROVE RunTime(Ref, n) < GopStart(g)
  <2>1. PICK i \in 1 .. n : RunTime(Ref, n) = input[Ref][i].pts
    BY RunTimeOf
  <2>2. PICK j \in GopOf(g) : GopStart(g) = input[Ref][j].pts
    BY GopStartOf
  <2>3. j \in g .. Len(input[Ref])
    BY <2>2, GopMembers
  <2>4. /\ i \in 1 .. Len(input[Ref]) /\ j \in 1 .. Len(input[Ref]) /\ i < j
        /\ g \in i + 1 .. j
    BY <1>1, <1>3, <2>1, <2>3
  <2>5. input[Ref][i].pts < input[Ref][j].pts
    BY <2>4, RefRegular DEF RegularStream, Keyframe
  <2>6. QED BY <2>1, <2>2, <2>5
<1>4. ASSUME ~(n < g) PROVE ~(RunTime(Ref, n) < GopStart(g))
  <2>1. g \in 1 .. n
    BY <1>1, <1>4 DEF Buffers
  <2>2. input[Ref][g].pts <= RunTime(Ref, n)
    BY <2>1, RunTimeOf
  <2>3. GopStart(g) <= input[Ref][g].pts /\ input[Ref][g].pts \in Nat
    BY GopStartOf, BufferType DEF Times
  <2>4. QED BY <1>2, <2>2, <2>3
<1>5. QED BY <1>3, <1>4

(* What happens to the GOPs: one more, one more buffer, one less.          *)
LEMMA GopNew ==
  ASSUME NEW S, NEW q \in Seq(S), NEW x \in S, NEW m \in Nat, GopsRun(q, m), IsGop(x, m + 1, m + 1),
         q = <<>> \/ input[Ref][m + 1].key
  PROVE  GopsRun(Append(q, x), m + 1)
<1>1. PICK n \in Nat : n = Len(q)
  OBVIOUS
<1>2. PICK r : r = Append(q, x)
  OBVIOUS
<1>3. Len(r) = n + 1 /\ r[n + 1] = x /\ \A i \in 1 .. n : r[i] = q[i]
  BY <1>1, <1>2
<1>4. PICK g \in [1 .. n + 1 -> 1 .. m + 1] :
        /\ g[n + 1] = m + 1
        /\ \A i \in 1 .. n : /\ IsGop(q[i], g[i], g[i + 1] - 1)
                             /\ i > 1 => input[Ref][g[i]].key
  BY <1>1 DEF GopsRun
<1>5. PICK h : h = [i \in 1 .. n + 2 |-> IF i = n + 2 THEN m + 2 ELSE g[i]]
  OBVIOUS
<1>6. /\ h \in [1 .. n + 2 -> 1 .. m + 2] /\ h[n + 2] = m + 2
      /\ \A i \in 1 .. n + 1 : h[i] = g[i]
  BY <1>4, <1>5
<1>7. ASSUME NEW i \in 1 .. n + 1
      PROVE  IsGop(r[i], h[i], h[i + 1] - 1) /\ (i > 1 => input[Ref][h[i]].key)
  <2>1. CASE i = n + 1
    <3>1. r[i] = x /\ h[i] = m + 1 /\ h[i + 1] - 1 = m + 1
      BY <1>3, <1>4, <1>6, <2>1
    <3>2. i > 1 => q # <<>>
      BY <1>1, <2>1
    <3>3. QED BY <3>1, <3>2
  <2>2. CASE i # n + 1
    <3>1. i \in 1 .. n /\ i \in 1 .. n + 1 /\ i + 1 \in 1 .. n + 1
      BY <2>2
    <3>2. QED BY <1>3, <1>4, <1>6, <3>1
  <2>3. QED BY <2>1, <2>2
<1>8. GopsRun(r, m + 1)
  <2>1. Len(r) + 1 = n + 2 /\ m + 1 + 1 = m + 2
    BY <1>3
  <2>2. QED BY <1>3, <1>6, <1>7, <2>1 DEF GopsRun
<1>9. QED BY <1>2, <1>8

LEMMA GopGrown ==
  ASSUME NEW S, NEW q \in Seq(S), q # <<>>, NEW y \in S, NEW m \in Nat, GopsRun(q, m),
         ASSUME NEW a, IsGop(q[Len(q)], a, m) PROVE IsGop(y, a, m + 1),
         NEW r, r = [q EXCEPT ![Len(q)] = y]
  PROVE  GopsRun(r, m + 1)
<1>1. PICK n \in Nat : n = Len(q) /\ n \in 1 .. n
  OBVIOUS
<1>2. Len(r) = n /\ r[n] = y /\ \A i \in 1 .. n : i # n => r[i] = q[i]
  BY <1>1
<1>3. PICK g \in [1 .. n + 1 -> 1 .. m + 1] :
        /\ g[n + 1] = m + 1
        /\ \A i \in 1 .. n : /\ IsGop(q[i], g[i], g[i + 1] - 1)
                             /\ i > 1 => input[Ref][g[i]].key
  BY <1>1 DEF GopsRun
<1>4. PICK h : h = [i \in 1 .. n + 1 |-> IF i = n + 1 THEN m + 2 ELSE g[i]]
  OBVIOUS
<1>5. /\ h \in [1 .. n + 1 -> 1 .. m + 2] /\ h[n + 1] = m + 2
      /\ \A i \in 1 .. n : h[i] = g[i]
  BY <1>3, <1>4
<1>6. ASSUME NEW i \in 1 .. n
      PROVE  IsGop(r[i], h[i], h[i + 1] - 1) /\ (i > 1 => input[Ref][h[i]].key)
  <2>1. CASE i = n
    <3>1. IsGop(q[n], g[n], g[n + 1] - 1) /\ g[n + 1] - 1 = m
      BY <1>1, <1>3
    <3>2. IsGop(y, g[n], m + 1)
      BY <1>1, <3>1
    <3>3. r[i] = y /\ h[i] = g[n] /\ h[i + 1] - 1 = m + 1
      BY <1>2, <1>5, <2>1
    <3>4. QED BY <1>3, <1>5, <2>1, <3>2, <3>3
  <2>2. CASE i # n
    <3>1. i \in 1 .. n /\ i + 1 \in 1 .. n
      BY <2>2
    <3>2. QED BY <1>2, <1>3, <1>5, <2>2, <3>1
  <2>3. QED BY <2>1, <2>2
<1>7. QED
  <2>1. m + 1 + 1 = m + 2
    OBVIOUS
  <2>2. QED BY <1>2, <1>5, <1>6, <2>1 DEF GopsRun

LEMMA GopSameTimes ==
  ASSUME NEW q, NEW r, Len(r) = Len(q), Len(q) \in Nat, NEW m,
         \A i \in 1 .. Len(q) : r[i].start = q[i].start /\ r[i].pts = q[i].pts, GopsRun(q, m)
  PROVE  GopsRun(r, m)
<1>1. PICK g \in [1 .. Len(q) + 1 -> 1 .. m + 1] :
        /\ g[Len(q) + 1] = m + 1
        /\ \A i \in 1 .. Len(q) : /\ IsGop(q[i], g[i], g[i + 1] - 1)
                                  /\ i > 1 => input[Ref][g[i]].key
  BY DEF GopsRun
<1>2. ASSUME NEW i \in 1 .. Len(q) PROVE IsGop(r[i], g[i], g[i + 1] - 1)
  <2>1. IsGop(q[i], g[i], g[i + 1] - 1) /\ r[i].start = q[i].start /\ r[i].pts = q[i].pts
    BY <1>1
  <2>2. QED BY <2>1 DEF IsGop
<1>3. QED BY <1>1, <1>2 DEF GopsRun

LEMMA GopTaken ==
  ASSUME NEW S, NEW q \in Seq(S), q # <<>>, NEW m \in Nat, GopsRun(q, m)
  PROVE  GopsRun(Tail(q), m)
<1>1. PICK n \in Nat : n + 1 = Len(q)
  OBVIOUS
<1>2. PICK r : r = Tail(q)
  OBVIOUS
<1>3. Len(r) = n /\ \A i \in 1 .. n : r[i] = q[i + 1]
  BY <1>1, <1>2
<1>4. PICK g \in [1 .. Len(q) + 1 -> 1 .. m + 1] :
        /\ g[Len(q) + 1] = m + 1
        /\ \A i \in 1 .. Len(q) : /\ IsGop(q[i], g[i], g[i + 1] - 1)
                                  /\ i > 1 => input[Ref][g[i]].key
  BY DEF GopsRun
<1>5. PICK h : h = [i \in 1 .. n + 1 |-> g[i + 1]]
  OBVIOUS
<1>6. h \in [1 .. n + 1 -> 1 .. m + 1] /\ h[n + 1] = m + 1 /\ \A i \in 1 .. n + 1 : h[i] = g[i + 1]
  <2>1. \A i \in 1 .. n + 1 : i + 1 \in 1 .. Len(q) + 1
    BY <1>1
  <2>2. h \in [1 .. n + 1 -> 1 .. m + 1]
    BY <1>4, <1>5, <2>1
  <2>3. n + 1 \in 1 .. n + 1 /\ n + 1 + 1 = Len(q) + 1
    BY <1>1
  <2>4. QED BY <1>4, <1>5, <2>2, <2>3
<1>7. ASSUME NEW i \in 1 .. n
      PROVE  IsGop(r[i], h[i], h[i + 1] - 1) /\ (i > 1 => input[Ref][h[i]].key)
  <2>1. i + 1 \in 1 .. Len(q) /\ i \in 1 .. n + 1 /\ i + 1 \in 1 .. n + 1 /\ i + 1 > 1
    BY <1>1
  <2>2. QED BY <1>3, <1>4, <1>6, <2>1
<1>8. QED BY <1>2, <1>3, <1>6, <1>7 DEF GopsRun

(* The GOP after the one that is gathered is known: where it starts the    *)
(* streams are cut.                                                        *)
LEMMA NextIsCut ==
  ASSUME InputInv, Regular, DtsInv, GopsRun(Gops, in[Ref].n), HasNext,
         collect.maxDts >= Gops[2].pts
  PROVE  IsCut(Gops[2].start)
<1> USE SplitMuxAssumption
<1>1. PICK m \in Nat : m = in[Ref].n /\ m <= Len(input[Ref]) /\ Len(input[Ref]) \in Nat
  BY Counted
<1>2. PICK q \in Seq(GopType) : q = Gops
  BY DEF InputInv, CollectOK, Gops
<1>3. Len(q) > 1 /\ Len(q) \in Nat
  BY <1>2 DEF HasNext
<1>4. PICK g \in [1 .. Len(q) + 1 -> 1 .. m + 1] :
        /\ g[Len(q) + 1] = m + 1
        /\ \A i \in 1 .. Len(q) : /\ IsGop(q[i], g[i], g[i + 1] - 1)
                                  /\ i > 1 => input[Ref][g[i]].key
  BY <1>1, <1>2 DEF GopsRun
<1>5. PICK a \in Nat : a = g[2]
  <2>1. 2 \in 1 .. Len(q) + 1
    BY <1>3
  <2>2. g[2] \in 1 .. m + 1
    BY <1>4, <2>1
  <2>3. QED BY <2>2
<1>6. PICK z \in Int : z + 1 = g[3] /\ z <= m
  <2>1. 3 \in 1 .. Len(q) + 1
    BY <1>3
  <2>2. PICK k \in 1 .. m + 1 : k = g[3]
    BY <1>4, <2>1
  <2>3. k - 1 \in Int /\ k - 1 + 1 = k /\ k - 1 <= m
    BY <1>1
  <2>4. QED BY <2>2, <2>3
<1>7. PICK x : x = q[2]
  OBVIOUS
<1>8. IsGop(x, a, z) /\ input[Ref][a].key
  <2>1. 2 \in 1 .. Len(q) /\ 2 > 1 /\ 2 + 1 = 3 /\ g[3] - 1 = z
    BY <1>3, <1>6
  <2>2. QED BY <1>4, <1>5, <1>7, <2>1
<1>9. a \in Buffers(Ref) /\ a >= 2
  <2>1. 1 \in 1 .. Len(q) /\ 1 + 1 = 2
    BY <1>3
  <2>2. IsGop(q[1], g[1], g[1 + 1] - 1)
    BY <1>4, <2>1
  <2>3. IsGop(q[1], g[1], a - 1)
    BY <1>5, <2>1, <2>2
  <2>4. PICK e \in Buffers(Ref) : e <= a - 1
    BY <2>3 DEF IsGop
  <2>5. QED BY <1>8, <2>4 DEF IsGop, Buffers
<1>10. Keyframe(a)
  BY <1>8, <1>9 DEF Keyframe, Buffers
<1>11. x \in GopType /\ x.start \in Nat /\ x.pts \in Nat
  <2>1. 2 \in 1 .. Len(q)
    BY <1>3
  <2>2. QED BY <1>7, <2>1, GopField DEF Times
<1>12. GopStart(a) \in Nat /\ \A i \in Buffers(Ref) : input[Ref][i].pts \in Nat
  BY <1>9, GopStartOf, BufferType DEF Times
<1>13. ASSUME NEW i \in GopOf(a) PROVE x.start <= input[Ref][i].pts
  <2>1. i \in a .. Len(input[Ref]) /\ i \in Buffers(Ref) /\ \A n \in a + 1 .. i : ~input[Ref][n].key
    BY <1>9, GopMembers DEF Buffers
  <2>2. CASE i <= z
    BY <1>8, <2>1, <2>2 DEF IsGop
  <2>3. CASE i > z
    <3>1. z = m
      <4>1. CASE Len(q) > 2
        <5>1. 3 \in 1 .. Len(q) /\ 3 > 1
          BY <1>3, <4>1
        <5>2. input[Ref][z + 1].key
          BY <1>4, <1>6, <5>1
        <5>3. z + 1 \in a + 1 .. i
          BY <1>8, <2>1, <2>3 DEF IsGop
        <5>4. QED BY <2>1, <5>2, <5>3
      <4>2. CASE Len(q) = 2
        <5>1. g[3] = m + 1
          BY <1>4, <4>2
        <5>2. QED BY <1>6, <5>1
      <4>3. PICK l \in Nat : l = Len(q) /\ l > 1
        BY <1>3
      <4>4. l = 2 \/ l > 2
        BY <4>3
      <4>5. QED BY <4>1, <4>2, <4>3, <4>4
    <3>2. collect.maxDts # NoTime
      BY <1>2, <1>7, <1>11 DEF NoTime
    <3>3. PICK k \in 1 .. m : collect.maxDts = Dts(input[Ref][k])
      BY <1>1, <3>2 DEF DtsInv
    <3>4. k \in Buffers(Ref) /\ k < i
      BY <1>1, <2>1, <2>3, <3>1 DEF Buffers
    <3>5. Dts(input[Ref][k]) <= Dts(input[Ref][i])
      BY <2>1, <3>4, RefRegular DEF RegularStream, Buffers
    <3>6. Dts(input[Ref][i]) <= input[Ref][i].pts
      <4>1. input[Ref][i].pts \in Nat /\ input[Ref][i].dts \in Nat
        BY <2>1, BufferType DEF Times
      <4>2. QED BY <4>1 DEF Dts, Lesser
    <3>7. x.pts <= Dts(input[Ref][k])
      BY <1>2, <1>7, <3>3
    <3>8. x.start <= x.pts
      <4>1. a \in a .. z
        BY <1>8 DEF IsGop
      <4>2. QED BY <1>8, <4>1 DEF IsGop
    <3>9. Dts(input[Ref][k]) \in Int /\ Dts(input[Ref][i]) \in Int /\ input[Ref][i].pts \in Int
      BY <2>1, <3>4, BufferType DEF Times, Dts, Lesser
    <3>10. QED BY <1>11, <3>5, <3>6, <3>7, <3>8, <3>9
  <2>4. QED BY <1>6, <2>1, <2>2, <2>3
<1>14. PICK j \in GopOf(a) : x.start = input[Ref][j].pts
  <2>1. PICK j \in a .. z : x.start = input[Ref][j].pts
    BY <1>8 DEF IsGop
  <2>2. j \in a .. Len(input[Ref]) /\ \A n \in a + 1 .. j : n \in a + 1 .. z
    BY <1>1, <1>6
  <2>3. j \in GopOf(a)
    BY <1>8, <2>2, GopMembers DEF IsGop
  <2>4. QED BY <2>1, <2>3
<1>15. PICK i \in GopOf(a) : GopStart(a) = input[Ref][i].pts
  BY <1>9, GopStartOf
<1>16. GopStart(a) <= input[Ref][j].pts
  BY <1>9, GopStartOf
<1>17. x.start <= GopStart(a)
  BY <1>13, <1>15
<1>18. x.start = GopStart(a)
  BY <1>11, <1>12, <1>14, <1>16, <1>17
<1>19. QED BY <1>2, <1>7, <1>9, <1>10, <1>18 DEF IsCut

LEMMA CutKept == ASSUME UNCHANGED input, NEW t PROVE IsCut(t)' <=> IsCut(t)
BY DEF IsCut, Keyframe, GopStart, GopOf, Keys, Buffers

LEMMA CutTime == ASSUME InputInv, NEW t, IsCut(t) PROVE t \in Times /\ t \in Int /\ t # NoTime /\ t # MaxTime
BY GopStartOf, TimeValue DEF IsCut

LEMMA GopsRunKept == ASSUME UNCHANGED input, NEW q, NEW m, GopsRun(q, m) PROVE GopsRun(q, m)'
<1>1. PICK g \in [1 .. Len(q) + 1 -> 1 .. m + 1] :
        /\ g[Len(q) + 1] = m + 1
        /\ \A i \in 1 .. Len(q) : /\ IsGop(q[i], g[i], g[i + 1] - 1)
                                  /\ i > 1 => input[Ref][g[i]].key
  BY DEF GopsRun
<1>2. ASSUME NEW x, NEW a, NEW z, IsGop(x, a, z) PROVE IsGop(x, a, z)'
  BY <1>2 DEF IsGop, Buffers
<1>3. \A i \in 1 .. Len(q) : IsGop(q[i], g[i], g[i + 1] - 1)' /\ (i > 1 => input'[Ref][g[i]].key)
  BY <1>1, <1>2
<1>4. QED BY <1>1, <1>3 DEF GopsRun

LEMMA DtsKept ==
  ASSUME UNCHANGED input, DtsInv, in'[Ref].n = in[Ref].n, in'[Ref].dts = in[Ref].dts,
         collect'.maxDts = collect.maxDts
  PROVE  DtsInv'
BY DEF DtsInv

LEMMA CmdsKept ==
  ASSUME UNCHANGED input, CmdsInv, collect'.state = collect.state \/ collect.state # "finishing",
         output'.cmds = output.cmds, output'.max = output.max
  PROVE  CmdsInv'
<1>1. \A t : IsCut(t)' <=> IsCut(t)
  BY CutKept
<1>2. \A t, last : Released(t, last) => Released(t, last)'
  BY <1>1 DEF Released
<1>3. QED BY <1>2 DEF CmdsInv

LEMMA RunOfGopsKept ==
  ASSUME UNCHANGED input, GopsRun(Gops, in[Ref].n), in'[Ref].n = in[Ref].n,
         collect'.gops = collect.gops
  PROVE  GopsRun(Gops, in[Ref].n)'
<1>1. PICK q : q = collect.gops
  OBVIOUS
<1>2. PICK m : m = in[Ref].n
  OBVIOUS
<1>3. GopsRun(q, m)'
  BY <1>1, <1>2, GopsRunKept DEF Gops
<1>4. QED BY <1>1, <1>2, <1>3 DEF GopsRun, Gops

LEMMA GopsKept ==
  ASSUME UNCHANGED input, GopsInv, Live' => Live,
         in'[Ref].n = in[Ref].n, in'[Ref].dts = in[Ref].dts, collect'.state = collect.state,
         collect'.maxDts = collect.maxDts, collect'.gops = collect.gops,
         output'.cmds = output.cmds, output'.max = output.max
  PROVE  GopsInv'
BY DtsKept, CmdsKept, RunOfGopsKept DEF GopsInv

RefSame == in'[Ref].n = in[Ref].n /\ in'[Ref].dts = in[Ref].dts

LEMMA RefMoved ==
  ASSUME NEW f, Records(f), in' = f \/ in' = WakeInput(f),
         f[Ref].n = in[Ref].n, f[Ref].dts = in[Ref].dts
  PROVE  RefSame
BY WakeKept, SplitMuxAssumption DEF RefSame, SameData

LEMMA RefMovedTo ==
  ASSUME Records(in), NEW s \in Streams, NEW p, in' = At(in, s, p)
  PROVE  RefSame
BY AtKept, SplitMuxAssumption DEF RefSame, SameData

(* Only what arrives of the reference stream changes what is known of it.  *)
LEMMA RefStays ==
  ASSUME IInv, NEW s \in Streams, Input(s), s = Ref /\ Arrive(s) => collect.state = "stopped"
  PROVE  RefSame
<1>1. Records(in)
  BY DEF IInv, InputInv, InOK, Records, InFields
<1>2. CASE Arrive(s)
  <2>1. CASE in' = At(in, s, "done")
    BY <1>1, <2>1, RefMovedTo
  <2>2. CASE s # Ref /\ in' # At(in, s, "done")
    BY <1>1, <1>2, <2>2, SplitMuxAssumption DEF Arrive, Records, RefSame
  <2>3. QED BY <1>2, <2>1, <2>2 DEF Arrive
<1>3. CASE \/ CollectOther(s) \/ PassUncollected(s) \/ Unblock(s) \/ WakeIn(s) \/ Pass(s)
           \/ Enqueue(s) \/ Overrun(s) \/ ReadLimit(s) \/ SetLimit(s)
  <2>1. \E p : in' = At(in, s, p)
    BY <1>3 DEF CollectOther, PassUncollected, Unblock, WakeIn, Pass, Enqueue,
       Overrun, ReadLimit, SetLimit
  <2>2. QED BY <1>1, <2>1, RefMovedTo
<1>4. CASE CollectReference(s)
  <2>1. PICK p, k : in' = WakeInput([in EXCEPT ![s].pc = p, ![s].key = k])
    BY <1>4 DEF CollectReference
  <2>2. PICK f : f = [in EXCEPT ![s].pc = p, ![s].key = k]
    OBVIOUS
  <2>3. Records(f) /\ f[Ref].n = in[Ref].n /\ f[Ref].dts = in[Ref].dts
    BY <1>1, <2>2, SplitMuxAssumption DEF Records, InFields
  <2>4. QED BY <2>1, <2>2, <2>3, RefMoved
<1>5. CASE AfterUnblock(s)
  <2>1. PICK p : in' = WakeInput([in EXCEPT ![s].unblock = FALSE, ![s].pc = p])
    BY <1>5 DEF AfterUnblock
  <2>2. PICK f : f = [in EXCEPT ![s].unblock = FALSE, ![s].pc = p]
    OBVIOUS
  <2>3. Records(f) /\ f[Ref].n = in[Ref].n /\ f[Ref].dts = in[Ref].dts
    BY <1>1, <2>2, SplitMuxAssumption DEF Records, InFields
  <2>4. QED BY <2>1, <2>2, <2>3, RefMoved
<1>6. CASE CollectGop(s)
  <2>1. CASE \E p : in' = At(in, s, p)
    BY <1>1, <2>1, RefMovedTo
  <2>2. CASE in' = WakeInput([t \in Streams |-> [in[t] EXCEPT
                     !.unblock = TRUE, !.pc = IF t = s THEN Checked(s) ELSE @]])
    <3>1. PICK f : f = [t \in Streams |-> [in[t] EXCEPT
                     !.unblock = TRUE, !.pc = IF t = s THEN Checked(s) ELSE @]]
      OBVIOUS
    <3>2. Records(f) /\ f[Ref].n = in[Ref].n /\ f[Ref].dts = in[Ref].dts
      BY <1>1, <3>1, SplitMuxAssumption DEF Records, InFields
    <3>3. QED BY <2>2, <3>1, <3>2, RefMoved
  <2>3. QED BY <1>6, <2>1, <2>2 DEF CollectGop
<1>7. CASE InputEos(s)
  <2>1. PICK p : \/ in' = At([in EXCEPT ![s].eos = TRUE], s, p)
                 \/ in' = WakeInput(At([in EXCEPT ![s].eos = TRUE], s, p))
    BY <1>7 DEF InputEos
  <2>2. PICK f : f = At([in EXCEPT ![s].eos = TRUE], s, p)
    OBVIOUS
  <2>3. Records(f) /\ f[Ref].n = in[Ref].n /\ f[Ref].dts = in[Ref].dts
    BY <1>1, <2>2, SplitMuxAssumption DEF At, Records, InFields
  <2>4. QED BY <2>1, <2>2, <2>3, RefMoved
<1>8. QED BY <1>2, <1>3, <1>4, <1>5, <1>6, <1>7 DEF Input

LEMMA GopsPassed == ASSUME IInv, GopsInv, NEW s \in Streams, Pass(s) PROVE GopsInv'
<1> USE DEF outputVars, muxVars, appVars
<1>1. RefSame /\ UNCHANGED <<input, stop>>
  BY RefStays DEF Pass, Input, Arrive, Locked
<1>2. output'.cmds = output.cmds /\ output'.max = output.max /\ Live' = Live
  BY DEF Pass, Live
<1>3. CASE collect.state \in {"finishing", "stopped"}
  BY <1>1, <1>2, <1>3, GopsKept DEF Pass, RefSame
<1>4. CASE collect.state \in {"collecting", "waiting"}
  <2>1. PICK g : g = collect.gops
    OBVIOUS
  <2>2. g \in Seq(GopType) /\ g # <<>>
    <3>1. in[s].pc = "pass" /\ in[Ref].n \in Nat
      BY Counted, SplitMuxAssumption DEF Pass, IInv
    <3>2. QED BY <1>4, <2>1, <3>1 DEF IInv, InputInv, CollectOK, GopInv, PcInv, PcOf, Gops
  <2>3. Len(g) \in 1 .. Len(g) /\ g[Len(g)] \in GopType
    BY <2>2
  <2>4. PICK y : y = [g[Len(g)] EXCEPT !.bytes = TRUE, !.ref = @ \/ s = Ref]
    OBVIOUS
  <2>5. PICK v \in BOOLEAN : v = (g[Len(g)].ref \/ s = Ref)
    OBVIOUS
  <2>6. y = [g[Len(g)] EXCEPT !.bytes = TRUE, !.ref = v]
    BY <2>3, <2>4, <2>5 DEF GopType
  <2>7. y \in GopType /\ y.start = g[Len(g)].start /\ y.pts = g[Len(g)].pts
    BY <2>3, <2>6 DEF GopType
  <2>8. PICK h : h = [g EXCEPT ![Len(g)] = y]
    OBVIOUS
  <2>9. /\ h \in Seq(GopType) /\ Len(h) = Len(g)
        /\ \A i \in 1 .. Len(g) : h[i].start = g[i].start /\ h[i].pts = g[i].pts
    BY <2>2, <2>7, <2>8, GopCounted
  <2>10. collect' = [collect EXCEPT !.gops[Len(Gops)] =
                      [Gops[Len(Gops)] EXCEPT !.bytes = TRUE, !.ref = @ \/ s = Ref]]
    BY <1>4 DEF Pass, Last
  <2>11. collect' = [collect EXCEPT !.gops = h]
    BY <2>1, <2>4, <2>8, <2>10 DEF Gops
  <2>12. collect'.state = collect.state /\ collect'.gops = h /\ collect'.maxDts = collect.maxDts
    BY <2>9, <2>11 DEF IInv, InputInv, CollectOK
  <2>13. DtsInv /\ CmdsInv => DtsInv' /\ CmdsInv'
    BY <1>1, <1>2, <2>12, DtsKept, CmdsKept DEF RefSame
  <2>14. ASSUME GopsRun(Gops, in[Ref].n) PROVE GopsRun(Gops, in[Ref].n)'
    <3>1. PICK m : m = in[Ref].n
      OBVIOUS
    <3>2. GopsRun(g, m)
      BY <2>1, <2>14, <3>1 DEF Gops
    <3>3. GopsRun(h, m)
      BY <2>2, <2>9, <3>2, GopSameTimes
    <3>4. GopsRun(h, m)'
      BY <1>1, <3>3, GopsRunKept
    <3>5. QED BY <1>1, <2>12, <3>1, <3>4 DEF GopsRun, Gops, RefSame
  <2>15. QED BY <1>2, <1>4, <2>12, <2>13, <2>14 DEF GopsInv
<1>5. QED BY <1>3, <1>4 DEF IInv, InputInv, CollectOK

LEMMA GopsFollowed ==
  ASSUME IInv, GopsInv, NEW s \in Streams, CollectReference(s)
  PROVE  GopsInv'
<1> USE DEF outputVars, muxVars, appVars
<1>1. RefSame /\ UNCHANGED <<input, stop, output>> /\ s = Ref /\ collect.state = "collecting"
  <2>1. Input(s) /\ ~Arrive(s)
    BY DEF CollectReference, Input, Arrive
  <2>2. QED BY <2>1, RefStays DEF CollectReference
<1>2. /\ collect'.state \in {"waiting", "collecting"} /\ collect'.gops = collect.gops
      /\ collect'.maxDts = Greater(collect.maxDts, in[Ref].dts)
  BY <1>1 DEF CollectReference, IInv, InputInv, CollectOK
<1>3. CmdsInv => CmdsInv'
  BY <1>1, CmdsKept
<1>4. GopsRun(Gops, in[Ref].n) => GopsRun(Gops, in[Ref].n)'
  BY <1>1, <1>2, RunOfGopsKept DEF RefSame
<1>5. ASSUME DtsInv PROVE DtsInv'
  <2>1. in[Ref].n > 0 /\ in[Ref].n \in Nat
    <3>1. in[Ref].n \in Nat
      BY Counted, SplitMuxAssumption DEF IInv
    <3>2. in[Ref].n # 0
      BY <1>1 DEF CollectReference, IInv, InputInv, PcInv
    <3>3. QED BY <3>1, <3>2
  <2>2. collect'.maxDts \in {collect.maxDts, in[Ref].dts}
    BY <1>2 DEF Greater
  <2>3. \E n \in 1 .. in[Ref].n : in[Ref].dts = Dts(input[Ref][n])
    BY <1>5, <2>1 DEF DtsInv
  <2>4. collect'.maxDts # NoTime => \E n \in 1 .. in[Ref].n : collect'.maxDts = Dts(input[Ref][n])
    BY <1>5, <2>2, <2>3 DEF DtsInv
  <2>5. QED BY <1>1, <1>5, <2>4 DEF DtsInv, RefSame
<1>6. QED BY <1>1, <1>2, <1>3, <1>4, <1>5 DEF GopsInv, Live

LEMMA GopsAtEos ==
  ASSUME IInv, GopsInv, NEW s \in Streams, InputEos(s)
  PROVE  GopsInv'
<1> USE DEF outputVars, muxVars, appVars
<1>1. RefSame /\ UNCHANGED <<input, stop, output>>
  <2>1. in[s].n = Len(input[s]) /\ in[s].n \in Nat
    BY Counted DEF InputEos, IInv
  <2>2. Input(s) /\ ~Arrive(s)
    BY <2>1 DEF Input, Arrive
  <2>3. QED BY <2>2, RefStays DEF InputEos
<1>2. CASE UNCHANGED collect
  BY <1>1, <1>2, GopsKept DEF RefSame, Live
<1>3. CASE s = Ref /\ collect' = [collect EXCEPT !.state = "waiting"]
  <2>1. /\ collect'.state = "waiting" /\ collect'.gops = collect.gops
        /\ collect'.maxDts = collect.maxDts
    BY <1>3 DEF IInv, InputInv, CollectOK
  <2>2. collect.state \in {"collecting", "waiting", "stopped"}
    <3>1. in[Ref].pc = "idle"
      BY <1>3 DEF InputEos
    <3>2. QED BY <3>1, SplitMuxAssumption DEF IInv, InputInv, CollectOK, GopInv, PcInv, PcOf
  <2>3. CASE collect.state = "stopped"
    BY <1>3, <2>1, <2>3 DEF InputEos
  <2>4. CASE collect.state # "stopped"
    BY <1>1, <2>1, <2>2, <2>4, DtsKept, CmdsKept, RunOfGopsKept DEF GopsInv, RefSame, Live
  <2>5. QED BY <2>3, <2>4
<1>4. QED BY <1>2, <1>3 DEF InputEos

LEMMA GopsArrived ==
  ASSUME IInv, GopsInv, NEW s \in Streams, Arrive(s)
  PROVE  GopsInv'
<1> USE DEF outputVars, muxVars, appVars
<1> USE SplitMuxAssumption
<1>1. UNCHANGED <<input, stop, output>>
  BY DEF Arrive
<1>2. CASE s # Ref \/ collect.state = "stopped"
  <2>1. RefSame /\ UNCHANGED collect
    BY <1>2, RefStays DEF Arrive, Input
  <2>2. QED BY <1>1, <2>1, GopsKept DEF RefSame, Live
<1>3. CASE s = Ref /\ collect.state # "stopped"
  <2>1. PICK m \in Nat : m = in[Ref].n /\ m + 1 \in Buffers(Ref)
    <3>1. in[Ref].n \in Nat /\ in[Ref].n < Len(input[Ref]) /\ Len(input[Ref]) \in Nat
      BY <1>3, Counted DEF IInv, Arrive
    <3>2. QED BY <3>1 DEF Buffers
  <2>2. PICK b : b = input[Ref][m + 1]
    OBVIOUS
  <2>3. PICK dts : dts = Dts(b)
    OBVIOUS
  <2>4. b.pts \in Times /\ b.dts \in Times
    BY <2>1, <2>2, BufferType DEF IInv
  <2>5. in' = [in EXCEPT ![Ref] = [in[Ref] EXCEPT !.pc = "loop", !.n = @ + 1,
                 !.rt = Greater(@, b.pts), !.dts = dts, !.key = FALSE]]
        /\ collect' = Tracked(b, dts)
    BY <1>3, <2>1, <2>2, <2>3 DEF Arrive, Dts
  <2>6. in'[Ref].n = m + 1 /\ in'[Ref].dts = dts
    BY <2>1, <2>5 DEF IInv, InputInv, InOK
  <2>7. PICK h : h = [Gops EXCEPT ![Len(Gops)].start = Lesser(@, b.pts)]
    OBVIOUS
  <2>8. PICK x : x = [start |-> b.pts, pts |-> b.pts, bytes |-> FALSE, ref |-> FALSE]
    OBVIOUS
  <2>9. /\ collect'.state = collect.state
        /\ collect'.maxDts \in {collect.maxDts, dts}
        /\ collect'.gops = IF Gops = <<>> \/ b.key THEN Append(Gops, x) ELSE h
    <3>1. PICK first \in BOOLEAN : first = (collect.start = NoTime \/ collect.start > b.pts)
      OBVIOUS
    <3>2. PICK g : g = IF Gops = <<>> \/ b.key THEN Append(Gops, x) ELSE h
      OBVIOUS
    <3>3. collect' = [collect EXCEPT
            !.start = IF first THEN b.pts ELSE @,
            !.max = IF first THEN Greater(@, b.pts) ELSE @,
            !.maxDts = IF first /\ @ = NoTime THEN dts ELSE @,
            !.gops = g]
      BY <2>5, <2>7, <2>8, <3>1, <3>2 DEF Tracked, Gops
    <3>4. /\ collect'.state = collect.state /\ collect'.maxDts \in {collect.maxDts, dts}
          /\ collect'.gops = g
      BY <3>3 DEF IInv, InputInv, CollectOK
    <3>5. QED BY <3>2, <3>4
  <2>10. CmdsInv => CmdsInv'
    BY <1>1, <2>9, CmdsKept
  <2>11. ASSUME DtsInv PROVE DtsInv'
    <3>1. \A n \in 1 .. m : n \in 1 .. m + 1
      OBVIOUS
    <3>2. m + 1 \in 1 .. m + 1 /\ m + 1 > 0
      OBVIOUS
    <3>3. dts = Dts(input[Ref][m + 1])
      BY <2>2, <2>3
    <3>4. collect.maxDts # NoTime => \E n \in 1 .. m + 1 : collect.maxDts = Dts(input[Ref][n])
      BY <2>1, <2>11, <3>1 DEF DtsInv
    <3>5. collect'.maxDts # NoTime => \E n \in 1 .. m + 1 : collect'.maxDts = Dts(input[Ref][n])
      BY <2>9, <3>2, <3>3, <3>4
    <3>6. QED BY <1>1, <2>6, <3>3, <3>5 DEF DtsInv
  <2>12. Gops \in Seq(GopType) /\ x \in GopType
    BY <2>4, <2>8 DEF IInv, InputInv, CollectOK, Gops, GopType
  <2>13. ASSUME GopsRun(Gops, m) PROVE GopsRun(collect'.gops, m + 1)
    <3>1. CASE Gops = <<>> \/ b.key
      <4>1. m + 1 \in m + 1 .. m + 1 /\ \A n \in m + 1 .. m + 1 : n = m + 1
        OBVIOUS
      <4>2. \A n \in (m + 1) + 1 .. m + 1 : FALSE
        OBVIOUS
      <4>3. b.pts <= b.pts
        BY <2>4 DEF Times
      <4>4. IsGop(x, m + 1, m + 1)
        BY <2>1, <2>2, <2>8, <4>1, <4>2, <4>3 DEF IsGop
      <4>5. GopsRun(Append(Gops, x), m + 1)
        BY <2>2, <2>12, <2>13, <3>1, <4>4, GopNew
      <4>6. QED BY <2>9, <3>1, <4>5
    <3>2. CASE ~(Gops = <<>> \/ b.key)
      <4>1. PICK q \in Seq(GopType) : q = Gops /\ q # <<>>
        BY <2>12, <3>2
      <4>2. PICK o \in GopType : o = q[Len(q)]
        BY <4>1
      <4>3. PICK v \in Times : v = Lesser(o.start, b.pts)
        BY <2>4 DEF Lesser, GopType
      <4>4. PICK y : y = [o EXCEPT !.start = v]
        OBVIOUS
      <4>5. y \in GopType /\ y.start = v /\ y.pts = o.pts
        BY <4>4 DEF GopType
      <4>6. h = [q EXCEPT ![Len(q)] = y]
        BY <2>7, <4>1, <4>2, <4>3, <4>4
      <4>7. ASSUME NEW a, IsGop(o, a, m) PROVE IsGop(y, a, m + 1)
        <5>1. a \in Nat /\ a <= m
          BY <4>7 DEF IsGop, Buffers
        <5>2. ASSUME NEW n \in a + 1 .. m + 1 PROVE ~input[Ref][n].key
          <6>1. n \in a + 1 .. m \/ n = m + 1
            BY <5>1
          <6>2. QED BY <2>2, <3>2, <4>7, <6>1 DEF IsGop
        <5>3. o.start \in Nat /\ b.pts \in Nat /\ v <= o.start /\ v <= b.pts /\ v \in {o.start, b.pts}
          BY <2>4, <4>3 DEF GopType, Times, Lesser
        <5>4. ASSUME NEW n \in a .. m + 1 PROVE v <= input[Ref][n].pts
          <6>1. n \in a .. m \/ n = m + 1
            BY <5>1
          <6>2. CASE n \in a .. m
            <7>1. o.start <= input[Ref][n].pts
              BY <4>7, <6>2 DEF IsGop
            <7>2. n \in Buffers(Ref)
              BY <2>1, <4>7, <6>2 DEF IsGop, Buffers
            <7>3. input[Ref][n].pts \in Nat
              BY <7>2, BufferType DEF IInv, Times
            <7>4. QED BY <5>3, <7>1, <7>3
          <6>3. QED BY <2>2, <5>3, <6>1, <6>2
        <5>5. \E n \in a .. m + 1 : v = input[Ref][n].pts
          <6>1. PICK n \in a .. m : o.start = input[Ref][n].pts
            BY <4>7 DEF IsGop
          <6>2. n \in a .. m + 1 /\ m + 1 \in a .. m + 1
            BY <5>1
          <6>3. QED BY <2>2, <5>3, <6>1, <6>2
        <5>6. a \in Buffers(Ref) /\ a <= m + 1 /\ y.pts = input[Ref][a].pts
          BY <4>5, <4>7, <5>1 DEF IsGop
        <5>7. QED BY <4>5, <5>2, <5>4, <5>5, <5>6 DEF IsGop
      <4>8. ASSUME NEW a, IsGop(q[Len(q)], a, m) PROVE IsGop(y, a, m + 1)
        BY <4>2, <4>7, <4>8
      <4>9. GopsRun(q, m)
        BY <2>13, <4>1
      <4>10. GopsRun(h, m + 1)
        BY <4>1, <4>5, <4>6, <4>8, <4>9, GopGrown
      <4>11. QED BY <2>9, <3>2, <4>10
    <3>3. QED BY <3>1, <3>2
  <2>14. ASSUME GopsRun(Gops, in[Ref].n) PROVE GopsRun(Gops, in[Ref].n)'
    <3>1. PICK q : q = collect'.gops
      OBVIOUS
    <3>2. GopsRun(q, m + 1)
      BY <2>1, <2>13, <2>14, <3>1
    <3>3. GopsRun(q, m + 1)'
      BY <1>1, <3>2, GopsRunKept
    <3>4. QED BY <2>6, <3>1, <3>3 DEF GopsRun, Gops
  <2>15. QED BY <1>1, <2>9, <2>10, <2>11, <2>14 DEF GopsInv, Live
<1>4. QED BY <1>2, <1>3

(* Commands that are sent while more GOPs are to come release up to a cut. *)
AllCuts(q) == /\ q \in Seq(Commands)
              /\ \A j \in 1 .. Len(q) : q[j].kind = "release" => IsCut(q[j].max)

LEMMA CommandAdded ==
  ASSUME NEW q, AllCuts(q), NEW c \in Commands,
         NEW r, r = Append(q, c)
  PROVE  /\ r \in Seq(Commands)
         /\ \A j \in 1 .. Len(r) : r[j].kind = "release" =>
              \/ IsCut(r[j].max)
              \/ c.kind = "release" /\ r[j].max = c.max /\ j = Len(r)
<1>2. q \in Seq(Commands)
  BY DEF AllCuts
<1>3. /\ r \in Seq(Commands) /\ Len(r) = Len(q) + 1 /\ r[Len(q) + 1] = c
      /\ \A j \in 1 .. Len(q) : r[j] = q[j]
  <2>1. PICK S : S = Commands
    OBVIOUS
  <2>2. q \in Seq(S) /\ c \in S
    BY <1>2, <2>1
  <2>3. /\ r \in Seq(S) /\ Len(r) = Len(q) + 1 /\ r[Len(q) + 1] = c
        /\ \A j \in 1 .. Len(q) : r[j] = q[j]
    BY <2>2, AppendProperties
  <2>4. QED BY <2>1, <2>3
<1>4. PICK n \in Nat : n = Len(q)
  BY <1>2
<1>5. ASSUME NEW j \in 1 .. n + 1, r[j].kind = "release"
      PROVE  IsCut(r[j].max) \/ (c.kind = "release" /\ r[j].max = c.max /\ j = n + 1)
  <2>1. CASE j = n + 1
    BY <1>3, <1>4, <1>5, <2>1
  <2>2. CASE j # n + 1
    <3>1. j \in 1 .. n
      BY <2>2
    <3>2. QED BY <1>3, <1>4, <1>5, <3>1 DEF AllCuts
  <2>3. QED BY <2>1, <2>2
<1>6. QED BY <1>3, <1>4, <1>5

LEMMA CommandsQueued ==
  ASSUME NEW q, AllCuts(q), NEW c \in Commands, c.kind # "release", NEW d \in Commands,
         NEW o, o = q \/ o = Append(q, c), NEW r, r = o \/ r = Append(o, d)
  PROVE  /\ r \in Seq(Commands)
         /\ \A j \in 1 .. Len(r) : r[j].kind = "release" =>
              IsCut(r[j].max) \/ (r[j].max = d.max /\ j = Len(r))
<1>1. AllCuts(o)
  <2>1. CASE o = Append(q, c)
    <3>1. /\ o \in Seq(Commands)
          /\ \A j \in 1 .. Len(o) : o[j].kind = "release" =>
               \/ IsCut(o[j].max)
               \/ c.kind = "release" /\ o[j].max = c.max /\ j = Len(o)
      BY <2>1, CommandAdded
    <3>2. QED BY <3>1 DEF AllCuts
  <2>2. QED BY <2>1
<1>2. CASE r = Append(o, d)
  <2>1. r \in Seq(Commands)
    BY <1>1, <1>2, CommandAdded
  <2>2. \A j \in 1 .. Len(r) : r[j].kind = "release" =>
             \/ IsCut(r[j].max)
             \/ d.kind = "release" /\ r[j].max = d.max /\ j = Len(r)
    BY <1>1, <1>2, CommandAdded
  <2>3. QED BY <2>1, <2>2
<1>3. QED BY <1>1, <1>2 DEF AllCuts

LEMMA GopsGathered ==
  ASSUME Regular, IInv, GopsInv, NEW s \in Streams, CollectGop(s)
  PROVE  GopsInv'
<1> USE DEF outputVars, muxVars, appVars
<1> USE SplitMuxAssumption
<1>1. UNCHANGED <<input, stop>> /\ in[s].pc = "collect" /\ Live' = Live
  BY DEF CollectGop, Live
<1>2. RefSame
  BY <1>1, RefStays DEF Input, Arrive
<1>3. collect.state = "waiting" /\ Gops \in Seq(GopType) /\ Gops # <<>>
  <2>1. collect.state = "waiting"
    BY <1>1 DEF IInv, InputInv, PcInv, PcOf
  <2>2. in[Ref].n # 0 /\ in[Ref].n \in Nat
    BY <2>1, Counted DEF IInv, InputInv, GopInv
  <2>3. QED BY <2>1, <2>2 DEF IInv, InputInv, GopInv, CollectOK, Gops
<1>4. CASE UNCHANGED <<collect, output>>
  BY <1>1, <1>2, <1>4, GopsKept DEF RefSame
<1>5. CASE Complete /\ GopGathered
  <2>1. SUFFICES ASSUME Live PROVE GopsInv'
    BY <1>1 DEF GopsInv
  <2>2. DtsInv /\ CmdsInv /\ GopsRun(Gops, in[Ref].n)
    BY <1>3, <2>1 DEF GopsInv
  <2>3. PICK t : t = NewMaxOut
    OBVIOUS
  <2>4. IsCut(t) \/ (t = MaxTime /\ NewMaxOut = MaxTime)
    <3>1. CASE HasNext /\ ~in[Ref].eos
      <4>1. collect.maxDts >= Gops[2].pts
        BY <1>5, <3>1 DEF Complete, DtsPassed
      <4>2. IsCut(Gops[2].start)
        BY <2>2, <3>1, <4>1, NextIsCut DEF IInv
      <4>3. QED BY <2>3, <3>1, <4>2 DEF NewMaxOut
    <3>2. CASE ~(HasNext /\ ~in[Ref].eos)
      BY <2>3, <3>2 DEF NewMaxOut
    <3>3. QED BY <3>1, <3>2
  <2>5. t \in Times \cup {MaxTime} /\ (t = MaxTime \/ IsCut(t))
    BY <2>4, CutTime DEF IInv
  <2>6. /\ collect'.state = IF t # MaxTime THEN "collecting" ELSE "finishing"
        /\ collect'.gops = Tail(Gops) /\ collect'.maxDts = collect.maxDts
    BY <1>5, <2>3 DEF GopGathered, IInv, InputInv, CollectOK, Gops
  <2>7. PICK finish \in BOOLEAN :
          finish = NeedNewFragment(Greater(NextStart, collect.start) - collect.start)
    BY DEF NeedNewFragment
  <2>8. PICK release \in BOOLEAN : release = Head(Gops).bytes
    <3>1. Head(Gops) \in GopType
      BY <1>3
    <3>2. QED BY <3>1 DEF GopType
  <2>9. /\ output'.max = output.max
        /\ output'.cmds = output.cmds
              \o (IF finish THEN << [kind |-> "finish"] >> ELSE <<>>)
              \o (IF release THEN << [kind |-> "release", max |-> t] >> ELSE <<>>)
    BY <1>5, <2>3, <2>7, <2>8 DEF GopGathered, IInv, OutputInv, OutputOK
  <2>10. AllCuts(output.cmds) /\ (output.max = NoTime \/ IsCut(output.max))
    BY <1>3, <2>2 DEF CmdsInv, AllCuts, Released
  <2>11. PICK q : q = output.cmds
    OBVIOUS
  <2>12. PICK r : r = output'.cmds
    OBVIOUS
  <2>13. /\ r \in Seq(Commands)
         /\ \A j \in 1 .. Len(r) : r[j].kind = "release" =>
              IsCut(r[j].max) \/ (r[j].max = t /\ j = Len(r))
    <3>1. PICK c : c = [kind |-> "finish"]
      OBVIOUS
    <3>2. PICK d : d = [kind |-> "release", max |-> t]
      OBVIOUS
    <3>3. c \in Commands /\ c.kind # "release" /\ d \in Commands /\ d.max = t
      BY <2>5, <3>1, <3>2 DEF Commands
    <3>4. PICK S : S = Commands
      OBVIOUS
    <3>5. q \in Seq(S) /\ c \in S /\ d \in S
      BY <2>10, <2>11, <3>3, <3>4 DEF AllCuts
    <3>6. r = q \o (IF finish THEN <<c>> ELSE <<>>) \o (IF release THEN <<d>> ELSE <<>>)
      BY <2>9, <2>11, <2>12, <3>1, <3>2
    <3>7. PICK o : o = IF finish THEN Append(q, c) ELSE q
      OBVIOUS
    <3>8. o \in Seq(S) /\ o = q \o (IF finish THEN <<c>> ELSE <<>>)
      <4>1. q \o <<c>> = Append(q, c) /\ q \o <<>> = q /\ Append(q, c) \in Seq(S)
        BY <3>5
      <4>2. QED BY <3>5, <3>7, <4>1
    <3>9. o \o <<d>> = Append(o, d) /\ o \o <<>> = o
      BY <3>5, <3>8
    <3>10. r = IF release THEN Append(o, d) ELSE o
      BY <3>6, <3>8, <3>9
    <3>11. AllCuts(q) /\ (o = q \/ o = Append(q, c)) /\ (r = o \/ r = Append(o, d))
      BY <2>10, <2>11, <3>7, <3>10
    <3>12. /\ r \in Seq(Commands)
           /\ \A j \in 1 .. Len(r) : r[j].kind = "release" =>
                IsCut(r[j].max) \/ (r[j].max = d.max /\ j = Len(r))
      BY ONLY <3>3, <3>11, CommandsQueued
    <3>13. QED BY <3>3, <3>12
  <2>14. \A x : IsCut(x)' <=> IsCut(x)
    BY <1>1, CutKept
  <2>15. CmdsInv'
    <3>1. \A j \in 1 .. Len(r) : r[j].kind = "release" => Released(r[j].max, j = Len(r))'
      BY <2>5, <2>6, <2>13, <2>14 DEF Released
    <3>2. output'.max = NoTime \/ Released(output.max, output.cmds = <<>>)'
      BY <2>9, <2>10, <2>14 DEF Released
    <3>3. QED BY <2>12, <2>13, <3>1, <3>2 DEF CmdsInv, Released
  <2>16. DtsInv'
    BY <1>1, <1>2, <2>2, <2>6, DtsKept DEF RefSame
  <2>17. GopsRun(Gops, in[Ref].n)'
    <3>1. PICK m \in Nat : m = in[Ref].n
      BY Counted DEF IInv
    <3>2. PICK g : g = Tail(Gops)
      OBVIOUS
    <3>3. GopsRun(g, m)
      BY <1>3, <2>2, <3>1, <3>2, GopTaken
    <3>4. GopsRun(g, m)'
      BY <1>1, <3>3, GopsRunKept
    <3>5. QED BY <1>2, <2>6, <3>1, <3>2, <3>4 DEF GopsRun, Gops, RefSame
  <2>18. QED BY <2>15, <2>16, <2>17 DEF GopsInv
<1>6. QED BY <1>4, <1>5 DEF CollectGop

LEMMA CommandTaken ==
  ASSUME NEW S, NEW q \in Seq(S), q # <<>>, NEW r, r = Tail(q)
  PROVE  /\ r \in Seq(S) /\ Len(r) = Len(q) - 1 /\ Head(q) = q[1] /\ Head(q) \in S
         /\ Len(q) \in Nat /\ 1 \in 1 .. Len(q) /\ (r = <<>> <=> Len(q) = 1)
         /\ \A j \in 1 .. Len(r) : /\ j + 1 \in 1 .. Len(q) /\ r[j] = q[j + 1]
                                   /\ j = Len(r) <=> j + 1 = Len(q)
<1>1. Len(q) \in Nat /\ Len(q) # 0
  OBVIOUS
<1>2. /\ r \in Seq(S) /\ Len(r) = Len(q) - 1 /\ Head(q) = q[1] /\ Head(q) \in S
      /\ \A j \in 1 .. Len(r) : r[j] = q[j + 1]
  OBVIOUS
<1>3. r = <<>> <=> Len(q) = 1
  BY <1>1, <1>2
<1>4. QED BY <1>1, <1>2, <1>3

LEMMA GopsCommand ==
  ASSUME IInv, GopsInv, NEW s \in Streams, Command(s)
  PROVE  GopsInv'
<1> USE DEF muxVars, appVars
<1>1. UNCHANGED <<input, in, collect, stop>>
  BY DEF Command
<1>2. CASE output.cmds = <<>>
  BY <1>1, <1>2, GopsKept DEF Command, Live
<1>3. CASE output.cmds # <<>>
  <2>1. SUFFICES ASSUME Live PROVE GopsInv'
    BY <1>1 DEF GopsInv, Live
  <2>2. DtsInv /\ CmdsInv
    BY <2>1 DEF GopsInv
  <2>3. PICK S : S = Commands
    OBVIOUS
  <2>4. PICK q \in Seq(S) : q = output.cmds
    BY <2>2, <2>3 DEF CmdsInv
  <2>5. PICK r : r = Tail(q)
    OBVIOUS
  <2>6. /\ r \in Seq(S) /\ Len(r) = Len(q) - 1 /\ Head(q) = q[1] /\ Head(q) \in S
        /\ Len(q) \in Nat /\ 1 \in 1 .. Len(q) /\ (r = <<>> <=> Len(q) = 1)
        /\ \A j \in 1 .. Len(r) : /\ j + 1 \in 1 .. Len(q) /\ r[j] = q[j + 1]
                                  /\ j = Len(r) <=> j + 1 = Len(q)
    BY <1>3, <2>4, <2>5, CommandTaken
  <2>7. PICK cmd : cmd = q[1]
    OBVIOUS
  <2>8. output'.cmds = r /\ output'.max = (IF cmd.kind = "release" THEN Greater(output.max, cmd.max) ELSE output.max)
    <3>1. PICK popped : popped = [output EXCEPT !.cmds = r]
      OBVIOUS
    <3>2. /\ DOMAIN popped = DOMAIN output /\ popped.cmds = r /\ popped.max = output.max
          /\ DOMAIN output = {"state", "max", "cmds", "muxed", "ready", "keys"}
      BY <3>1 DEF IInv, OutputInv, OutputOK
    <3>3. \/ /\ cmd.kind = "release"
             /\ output' = [popped EXCEPT !.max = Greater(output.max, cmd.max),
                                         !.state = "output_gop"]
          \/ /\ cmd.kind # "release"
             /\ \E x : output' = [popped EXCEPT !.state = x]
      BY <1>3, <2>4, <2>5, <2>6, <2>7, <3>1, <3>2 DEF Command
    <3>4. QED BY <3>2, <3>3
  <2>9. cmd.kind = "release" => Released(cmd.max, Len(q) = 1)
    BY <2>2, <2>4, <2>6, <2>7 DEF CmdsInv
  <2>10. output.max = NoTime \/ IsCut(output.max)
    BY <1>3, <2>2 DEF CmdsInv, Released
  <2>11. cmd.kind = "release" => Greater(output.max, cmd.max) \in {output.max, cmd.max}
                                 /\ (cmd.max = MaxTime => Greater(output.max, cmd.max) = MaxTime)
    <3>1. output.max = NoTime \/ output.max \in Times
      BY <2>10, CutTime DEF IInv
    <3>2. cmd.kind = "release" => cmd.max \in Times \/ cmd.max = MaxTime
      BY <2>9, CutTime DEF IInv, Released
    <3>3. PICK a \in Int : a = output.max /\ a < MaxTime
      <4>1. output.max \in Times \cup {NoTime}
        BY <3>1
      <4>2. output.max \in Int /\ output.max < MaxTime
        BY <4>1, TimeRange
      <4>3. QED BY <4>2
    <3>4. Greater(a, cmd.max) \in {a, cmd.max}
      BY DEF Greater
    <3>5. Greater(a, MaxTime) = MaxTime
      BY <3>3 DEF Greater, MaxTime
    <3>6. QED BY <3>3, <3>4, <3>5
  <2>12. \A x : IsCut(x)' <=> IsCut(x)
    BY <1>1, CutKept
  <2>13. output'.max = NoTime \/ IsCut(output'.max)
         \/ (output'.max = MaxTime /\ r = <<>> /\ collect.state = "finishing")
    BY <2>6, <2>8, <2>9, <2>10, <2>11 DEF Released
  <2>14. \A j \in 1 .. Len(r) : r[j].kind = "release" =>
            IsCut(r[j].max) \/ (r[j].max = MaxTime /\ j = Len(r) /\ collect.state = "finishing")
    BY <2>2, <2>4, <2>6 DEF CmdsInv, Released
  <2>15. CmdsInv'
    <3>1. output'.cmds \in Seq(Commands)
      BY <2>3, <2>6, <2>8
    <3>2. output'.max = NoTime \/ Released(output.max, output.cmds = <<>>)'
      BY <1>1, <2>8, <2>12, <2>13 DEF Released
    <3>3. \A j \in 1 .. Len(r) : r[j].kind = "release" => Released(r[j].max, j = Len(r))'
      BY <1>1, <2>12, <2>14 DEF Released
    <3>4. QED BY <2>8, <3>1, <3>2, <3>3 DEF CmdsInv, Released
  <2>16. DtsInv'
    BY <1>1, <2>2, DtsKept
  <2>17. GopsRun(Gops, in[Ref].n) => GopsRun(Gops, in[Ref].n)'
    BY <1>1, RunOfGopsKept
  <2>18. QED BY <1>1, <2>1, <2>15, <2>16, <2>17 DEF GopsInv
<1>4. QED BY <1>2, <1>3

LEMMA OutputCommands ==
  ASSUME IInv, NEW s \in Streams, Output(s), ~Command(s)
  PROVE  output'.cmds = output.cmds /\ output'.max = output.max
<1>1. CASE Probe(s)
  BY <1>1, ProbeOutput
<1>2. CASE ~Probe(s)
  BY <1>2 DEF Output, Underrun, Flushed, Send, GopIsOut, EndFile, SendEos, Sleep, WakeOut,
     SwitchFile, OpenFile, StartFile, Restart, Push, IInv, OutputInv, OutputOK
<1>3. QED BY <1>1, <1>2

LEMMA GopsNext == ASSUME Regular, IInv, GopsInv, [Next]_vars PROVE GopsInv'
<1> USE DEF outputVars, muxVars, appVars
<1>1. ASSUME UNCHANGED input, Live' = Live, RefSame, collect'.state = collect.state,
             collect'.maxDts = collect.maxDts, collect'.gops = collect.gops,
             output'.cmds = output.cmds, output'.max = output.max
      PROVE  GopsInv'
  BY <1>1, GopsKept DEF RefSame
<1>2. ASSUME NEW s \in Streams, Input(s) PROVE GopsInv'
  <2>1. CASE Arrive(s)
    BY <2>1, GopsArrived
  <2>2. CASE CollectReference(s)
    BY <2>2, GopsFollowed
  <2>3. CASE CollectGop(s)
    BY <2>3, GopsGathered
  <2>4. CASE Pass(s)
    BY <2>4, GopsPassed
  <2>5. CASE InputEos(s)
    BY <2>5, GopsAtEos
  <2>6. CASE \/ CollectOther(s) \/ PassUncollected(s) \/ Unblock(s) \/ AfterUnblock(s)
             \/ WakeIn(s) \/ Enqueue(s) \/ Overrun(s) \/ ReadLimit(s) \/ SetLimit(s)
    <3>1. UNCHANGED <<input, stop, collect, output>>
      BY <2>6 DEF CollectOther, PassUncollected, Unblock, AfterUnblock, WakeIn,
         Enqueue, Overrun, ReadLimit, SetLimit
    <3>2. ~Arrive(s)
      BY <2>6 DEF CollectOther, PassUncollected, Unblock, AfterUnblock, WakeIn,
         Enqueue, Overrun, ReadLimit, SetLimit, Arrive
    <3>3. RefSame
      BY <1>2, <3>2, RefStays
    <3>4. QED BY <1>1, <3>1, <3>3 DEF Live
  <2>7. QED BY <1>2, <2>1, <2>2, <2>3, <2>4, <2>5, <2>6 DEF Input
<1>3. ASSUME NEW s \in Streams, Output(s) PROVE GopsInv'
  <2>1. CASE Command(s)
    BY <2>1, GopsCommand
  <2>2. CASE ~Command(s)
    <3>1. UNCHANGED <<in, collect, input, stop>>
      BY <1>3, OutputShape
    <3>2. QED BY <1>1, <1>3, <2>2, <3>1, OutputCommands DEF RefSame, Live
  <2>3. QED BY <2>1, <2>2
<1>4. ASSUME NEW s \in Streams, Deactivate(s) PROVE GopsInv'
  <2>1. UNCHANGED <<collect, output, input, stop>>
    BY <1>4 DEF Deactivate
  <2>2. RefSame
    <3>1. Records(in)
      BY DEF IInv, InputInv, InOK, Records, InFields
    <3>2. in' = in \/ in' = At(in, s, "done")
      BY <1>4 DEF Deactivate
    <3>3. QED BY <3>1, <3>2, RefMovedTo DEF RefSame
  <2>3. QED BY <1>1, <2>1, <2>2 DEF Live
<1>5. CASE Mux \/ FileEnds
  BY <1>1, <1>5 DEF Mux, FileEnds, Live, RefSame, IInv, OutputInv, OutputOK
<1>6. CASE Split \/ Shutdown
  <2>1. UNCHANGED <<in, output, input>> /\ Live' = Live
    BY <1>6 DEF Split, Shutdown, Live
  <2>2. /\ collect'.state = collect.state /\ collect'.maxDts = collect.maxDts
        /\ collect'.gops = collect.gops
    BY <1>6 DEF Split, Shutdown, IInv, InputInv, CollectOK
  <2>3. QED BY <1>1, <2>1, <2>2 DEF RefSame
<1>7. CASE Stop
  BY <1>7 DEF Stop, GopsInv, Live
<1>8. CASE UNCHANGED vars
  BY <1>1, <1>8 DEF vars, Live, RefSame
<1>9. QED BY <1>2, <1>3, <1>4, <1>5, <1>6, <1>7, <1>8 DEF Next

LEMMA GopsInit == Init => GopsInv
<1> SUFFICES ASSUME Init PROVE GopsInv
  OBVIOUS
<1> USE SplitMuxAssumption
<1>1. in[Ref].n = 0 /\ in[Ref].dts = NoTime /\ collect.maxDts = NoTime /\ Gops = <<>>
      /\ output.cmds = <<>> /\ output.max = NoTime
  BY DEF Init, Gops
<1>2. DtsInv
  BY <1>1 DEF DtsInv
<1>3. CmdsInv
  <2>1. <<>> \in Seq(Commands) /\ Len(<<>>) = 0
    OBVIOUS
  <2>2. QED BY <1>1, <2>1 DEF CmdsInv
<1>4. GopsRun(Gops, in[Ref].n)
  <2>1. PICK g : g = [i \in 1 .. 1 |-> 1]
    OBVIOUS
  <2>2. g \in [1 .. 1 -> 1 .. 1] /\ g[1] = 1
    BY <2>1
  <2>3. Len(<<>>) = 0
    OBVIOUS
  <2>4. QED BY <1>1, <2>2, <2>3 DEF GopsRun
<1>5. QED BY <1>2, <1>3, <1>4 DEF GopsInv

(* check_completed_gop lets the output threads go up to a cut and nowhere  *)
(* else: the limit in every command that handle_gathered_gop sends, and    *)
(* the one the output threads obey, is the start of a GOP of the           *)
(* reference, or no limit at all once the reference has ended.  It needs   *)
(* the DTS in order, since a GOP is complete when the DTS has passed the   *)
(* PTS of the next keyframe (max_in_running_time_dts).                     *)
THEOREM GopsInvariance == ASSUME Regular PROVE Spec => []GopsInv
<1>1. IInv /\ GopsInv /\ [Next]_vars => GopsInv'
  BY GopsNext
<1>2. QED BY SplitMuxInvariance, GopsInit, <1>1, PTL DEF Spec

-----------------------------------------------------------------------------
(* The output threads at a cut.                                            *)

(* Buffer n of a stream is in the first k files; a stream is at the cut    *)
(* when it has written just what is before the limit.                      *)
UpTo(s, n, k) == \E i \in 1 .. k : \E j \in 1 .. Len(files[i][s]) : files[i][s][j] = n
Written(s, n) == UpTo(s, n, Len(files))
AtCut(s) == \A n \in Buffers(s) : Written(s, n) <=> RunTime(s, n) < output.max
Opening == out[Ref].pc \in {"opened", "async_done"}
Switching == {"switch", "opened", "async_done"}

(* Nothing at or after the limit is written; a stream that has sent EOS    *)
(* to the muxer is at the cut, and all are before the next file begins.    *)
ThreadOK(s) ==
  /\ \A n \in Buffers(s) : Written(s, n) => RunTime(s, n) < output.max
  /\ out[s].pc = "push" /\ out[s].item.kind = "buffer" => RunTime(s, out[s].item.n) < output.max
  /\ mux[s].eos \/ out[s].pc = "send_eos" =>
       AtCut(s) /\ (output.state \in {"ending_file", "next_file"} \/ out[s].padEos)
  /\ mux[s].eos => out[s].eos
  /\ out[s].pc = "send_eos" => out[s].eos /\ ~mux[s].eos /\ output.state = "ending_file"
  /\ out[s].pc = "command" => output.state = "awaiting"
  /\ output.state = "next_file" => AtCut(s)
  /\ Opening /\ mux[s].eos => out[s].padEos
(* A file is ended at a cut, or because all streams are at EOS.            *)
SwitchOK ==
  /\ output.state = "ending_file" => IsCut(output.max)
  /\ output.state = "next_file" /\ files # <<>> /\ ~Opening /\ out[Ref].pc # "done" => IsCut(output.max)
  /\ out[Ref].padEos => output.state = "ending_stream"
  /\ output.state = "ending_stream" => output.max = MaxTime
  /\ output.muxed => output.max # NoTime
  /\ output.state # "stopped"
  /\ out[Ref].pc \in Switching => output.state = "next_file"
(* A stopped sink has no limit to obey and no command to follow: no        *)
(* thread of it comes to a file again.                                     *)
Stopped ==
  /\ output.max = NoTime /\ output.cmds = <<>> /\ collect.state = "stopped"
  /\ \/ output.state = "stopped" \/ drained
     \/ output.state = "awaiting" /\ out[Ref].pc \in {"out", "command", "cmdwait", "cmdwoken"}
(* The first k - 1 files hold just what is before some cut.                *)
CutInv ==
  \A k \in 2 .. Len(files) : \E g \in Buffers(Ref) :
    Keyframe(g) /\ \A s \in Streams : \A n \in Buffers(s) :
                     UpTo(s, n, k - 1) <=> RunTime(s, n) < GopStart(g)

LEMMA UpToStep ==
  ASSUME NEW s, NEW n, NEW k \in Nat
  PROVE  UpTo(s, n, k + 1) <=> \/ UpTo(s, n, k)
                               \/ \E j \in 1 .. Len(files[k + 1][s]) : files[k + 1][s][j] = n
<1>1. \A i : i \in 1 .. k + 1 <=> i \in 1 .. k \/ i = k + 1
  OBVIOUS
<1>2. QED BY <1>1 DEF UpTo

LEMMA UpToCount ==
  ASSUME FilesOK, NEW s \in Streams, NEW b \in [0 .. Len(files) -> Nat], FileRun(s, b),
         NEW k \in 0 .. Len(files), NEW n \in Nat
  PROVE  UpTo(s, n, k) <=> n \in 1 .. b[k]
<1>1. PICK l \in Nat : l = Len(files)
  BY DEF FilesOK
<1>2. PICK T : T = {i \in Nat : i <= l => (UpTo(s, n, i) <=> n \in 1 .. b[i])}
  OBVIOUS
<1>3. 0 \in T
  <2>1. ~UpTo(s, n, 0)
    BY DEF UpTo
  <2>2. b[0] = 0 /\ ~(n \in 1 .. 0)
    BY DEF FileRun
  <2>3. QED BY <1>2, <2>1, <2>2
<1>4. ASSUME NEW i \in Nat, i \in T PROVE i + 1 \in T
  <2>1. SUFFICES ASSUME i + 1 <= l PROVE UpTo(s, n, i + 1) <=> n \in 1 .. b[i + 1]
    BY <1>2
  <2>2. UpTo(s, n, i) <=> n \in 1 .. b[i]
    BY <1>2, <1>4, <2>1
  <2>3. i + 1 \in 1 .. l /\ i \in 0 .. l /\ i + 1 - 1 = i
    BY <2>1
  <2>4. PICK r \in Seq(Nat) : r = files[i + 1][s]
    <3>1. PICK S : S = [Streams -> Seq(Nat)]
      OBVIOUS
    <3>2. files \in Seq(S)
      BY <3>1 DEF FilesOK
    <3>3. files[i + 1] \in S
      BY <1>1, <2>3, <3>2
    <3>4. QED BY <3>1, <3>3
  <2>5. PICK o \in Nat : o = Len(r)
    BY <2>4
  <2>6. b[i + 1] = b[i] + o /\ \A j \in 1 .. o : r[j] = b[i] + j
    BY <1>1, <2>3, <2>4, <2>5 DEF FileRun
  <2>7. b[i] \in Nat
    BY <1>1, <2>3
  <2>8. (\E j \in 1 .. o : r[j] = n) <=> n \in b[i] + 1 .. b[i] + o
    <3>1. ASSUME n \in b[i] + 1 .. b[i] + o PROVE \E j \in 1 .. o : r[j] = n
      <4>1. n - b[i] \in 1 .. o /\ b[i] + (n - b[i]) = n
        BY <2>7, <3>1
      <4>2. QED BY <2>6, <4>1
    <3>2. ASSUME NEW j \in 1 .. o, r[j] = n PROVE n \in b[i] + 1 .. b[i] + o
      BY <2>6, <2>7, <3>2
    <3>3. QED BY <3>1, <3>2
  <2>9. UpTo(s, n, i + 1) <=> UpTo(s, n, i) \/ n \in b[i] + 1 .. b[i] + o
    <3>1. UpTo(s, n, i + 1) <=> \/ UpTo(s, n, i)
                               \/ \E j \in 1 .. Len(files[i + 1][s]) : files[i + 1][s][j] = n
      BY UpToStep
    <3>2. QED BY <2>4, <2>5, <2>8, <3>1
  <2>10. n \in 1 .. b[i] + o <=> n \in 1 .. b[i] \/ n \in b[i] + 1 .. b[i] + o
    BY <2>7
  <2>11. QED BY <2>2, <2>6, <2>9, <2>10
<1>5. Nat \subseteq T
  BY <1>3, <1>4, Induction
<1>6. k \in T /\ k <= l
  BY <1>1, <1>5
<1>7. QED BY <1>2, <1>6

(* How far a stream has come.                                              *)
LEMMA Progress ==
  ASSUME IInv, FlowInv, NEW s \in Streams
  PROVE  \E c \in Nat : /\ c <= Len(input[s]) /\ OutFlow(s, c)
                        /\ \A n \in Nat : Written(s, n) <=> n \in 1 .. c
<1>1. PICK b \in [0 .. Len(files) -> Nat] :
        FileRun(s, b) /\ b[Len(files)] <= Len(input[s]) /\ OutFlow(s, b[Len(files)])
  BY DEF FlowInv, FlowOf
<1>2. FilesOK /\ Len(files) \in Nat
  BY DEF FlowInv, FilesOK
<1>3. Len(files) \in 0 .. Len(files)
  BY <1>2
<1>4. PICK c \in Nat : c = b[Len(files)]
  BY <1>3
<1>5. \A n \in Nat : Written(s, n) <=> n \in 1 .. c
  BY <1>1, <1>2, <1>3, <1>4, UpToCount DEF Written
<1>6. QED BY <1>1, <1>4, <1>5

LEMMA WrittenSame ==
  ASSUME FilesOK, NEW s \in Streams, FilesSame(s), NEW n
  PROVE  Written(s, n)' <=> Written(s, n)
<1>1. PICK l \in Nat : l = Len(files)
  BY DEF FilesOK
<1>2. Len(files') = l /\ \A k \in 1 .. l : files'[k][s] = files[k][s]
  BY <1>1 DEF FilesSame
<1>3. QED BY <1>1, <1>2 DEF Written, UpTo

LEMMA WrittenOpened ==
  ASSUME FilesOK, files' = Append(files, [t \in Streams |-> <<>>]), NEW s \in Streams, NEW n
  PROVE  /\ Written(s, n)' <=> Written(s, n)
         /\ \A k \in 1 .. Len(files) : UpTo(s, n, k)' <=> UpTo(s, n, k)
<1>1. PICK l \in Nat : l = Len(files)
  BY DEF FilesOK
<1>2. PICK S : S = [Streams -> Seq(Nat)]
  OBVIOUS
<1>3. PICK x : x = [t \in Streams |-> <<>>]
  OBVIOUS
<1>4. files \in Seq(S) /\ x \in S
  BY <1>2, <1>3 DEF FilesOK
<1>5. Len(files') = l + 1 /\ files'[l + 1] = x /\ \A k \in 1 .. l : files'[k] = files[k]
  BY <1>1, <1>3, <1>4
<1>6. Len(x[s]) = 0
  BY <1>3
<1>7. ASSUME NEW k \in 1 .. l PROVE UpTo(s, n, k)' <=> UpTo(s, n, k)
  <2>1. \A i \in 1 .. k : i \in 1 .. l
    OBVIOUS
  <2>2. QED BY <1>5, <2>1 DEF UpTo
<1>8. Written(s, n)' <=> \E i \in 1 .. l + 1 : \E j \in 1 .. Len(files'[i][s]) : files'[i][s][j] = n
  BY <1>5 DEF Written, UpTo
<1>9. Written(s, n) <=> \E i \in 1 .. l : \E j \in 1 .. Len(files[i][s]) : files[i][s][j] = n
  BY <1>1 DEF Written, UpTo
<1>10. ASSUME NEW i \in 1 .. l + 1, NEW j \in 1 .. Len(files'[i][s])
       PROVE  i \in 1 .. l
  <2>1. CASE i = l + 1
    BY <1>5, <1>6, <2>1
  <2>2. QED BY <2>1
<1>11. \A i \in 1 .. l : i \in 1 .. l + 1 /\ files'[i] = files[i]
  BY <1>5
<1>12. Written(s, n)' <=> Written(s, n)
  BY <1>8, <1>9, <1>10, <1>11
<1>13. QED BY <1>1, <1>7, <1>12

LEMMA WrittenPushed ==
  ASSUME IInv, FilesOK, NEW s \in Streams, Pushes(s), NEW n
  PROVE  Written(s, n)' <=> Written(s, n) \/ n = out[s].item.n
<1>1. /\ Len(files') = Len(files)
      /\ \A k \in 1 .. Len(files) : k # Len(files) => files'[k][s] = files[k][s]
      /\ files'[Len(files)][s] = Append(files[Len(files)][s], out[s].item.n)
      /\ Len(files) \in 1 .. Len(files)
  BY FilesPushed
<1>2. PICK l \in Nat : l = Len(files) /\ l \in 1 .. l
  BY <1>1 DEF FilesOK
<1>3. PICK r \in Seq(Nat) : r = files[l][s]
  <2>1. PICK S : S = [Streams -> Seq(Nat)]
    OBVIOUS
  <2>2. files \in Seq(S)
    BY <2>1 DEF FilesOK
  <2>3. files[l] \in S
    BY <1>2, <2>2
  <2>4. QED BY <2>1, <2>3
<1>4. PICK x : x = out[s].item.n
  OBVIOUS
<1>5. PICK q : q = Append(r, x)
  OBVIOUS
<1>6. Len(q) = Len(r) + 1 /\ q[Len(r) + 1] = x /\ \A j \in 1 .. Len(r) : q[j] = r[j]
  BY <1>3, <1>5
<1>7. (\E j \in 1 .. Len(q) : q[j] = n) <=> (\E j \in 1 .. Len(r) : r[j] = n) \/ n = x
  <2>1. \A j : j \in 1 .. Len(q) <=> j \in 1 .. Len(r) \/ j = Len(r) + 1
    BY <1>3, <1>6
  <2>2. QED BY <1>6, <2>1
<1>8. files'[l][s] = q /\ \A k \in 1 .. l : k # l => files'[k][s] = files[k][s]
  BY <1>1, <1>2, <1>3, <1>4, <1>5
<1>9. Written(s, n) <=> \/ \E i \in 1 .. l : i # l /\ \E j \in 1 .. Len(files[i][s]) : files[i][s][j] = n
                        \/ \E j \in 1 .. Len(r) : r[j] = n
  BY <1>2, <1>3 DEF Written, UpTo
<1>10. Written(s, n)' <=>
          \/ \E i \in 1 .. l : i # l /\ \E j \in 1 .. Len(files[i][s]) : files[i][s][j] = n
          \/ \E j \in 1 .. Len(q) : q[j] = n
  BY <1>1, <1>2, <1>8 DEF Written, UpTo
<1>11. QED BY <1>4, <1>7, <1>9, <1>10

(* An output thread moves to p; the others are at most woken up.           *)
OutTo(s, p) ==
  /\ OutSame(out'[s], out[s]) /\ out'[s].pc = p
  /\ \A t \in Streams \ {s} : OutSame(out'[t], out[t]) /\ OutWoke(out[t].pc, out'[t].pc)

LEMMA OutGoes ==
  ASSUME OutGood(out), NEW s \in Streams, NEW p, WokenOut(At(out, s, p)),
         p \notin {"wait", "cmdwait"} \/ out' = At(out, s, p)
  PROVE  OutTo(s, p)
BY OutMovedTo DEF OutTo

LEMMA Restarted ==
  ASSUME OutGood(out), NEW s \in Streams, Restart(s)
  PROVE  /\ out'[s].pc = "out"
         /\ \A t \in Streams : /\ out'[t].item = out[t].item /\ out'[t].rt = out[t].rt
                               /\ out'[t].padEos = out[t].padEos /\ out'[t].eos = out[t].padEos
                               /\ t # s => OutWoke(out[t].pc, out'[t].pc)
<1>1. PICK f : f = [t \in Streams |-> [out[t] EXCEPT
               !.eos = out[t].padEos, !.pc = IF t = s THEN "out" ELSE @]]
  OBVIOUS
<1>2. out' = WakeOutput(f)
  BY <1>1 DEF Restart
<1>3. /\ DOMAIN f = Streams
      /\ \A t \in Streams : /\ DOMAIN f[t] = DOMAIN out[t]
                            /\ f[t].item = out[t].item /\ f[t].rt = out[t].rt
                            /\ f[t].padEos = out[t].padEos /\ f[t].eos = out[t].padEos
                            /\ f[t].pc = IF t = s THEN "out" ELSE out[t].pc
  BY <1>1 DEF OutGood
<1>4. \A t \in Streams : DOMAIN f[t] = {"pc", "item", "rt", "eos", "padEos"}
  BY <1>3 DEF OutGood
<1>5. \A t \in Streams : /\ out'[t].item = f[t].item /\ out'[t].rt = f[t].rt
                         /\ out'[t].padEos = f[t].padEos /\ out'[t].eos = f[t].eos
                         /\ OutWoke(f[t].pc, out'[t].pc)
  BY <1>2, <1>3, <1>4 DEF WakeOutput, OutWoke
<1>6. QED BY <1>3, <1>5 DEF OutWoke

LEMMA OutputOthers ==
  ASSUME IInv, NEW s \in Streams, Output(s)
  PROVE  /\ Free \/ out[s].pc \in Locked
         /\ \A t \in Streams \ {s} :
              /\ out'[t].item = out[t].item /\ out'[t].rt = out[t].rt
              /\ out'[t].padEos = out[t].padEos /\ OutWoke(out[t].pc, out'[t].pc)
         /\ out'[s].pc \in Switching => SwitchFile(s) \/ out[s].pc \in Switching
<1>1. OutGood(out)
  BY DEF IInv, OutputInv, OutOK
<1>2. Free \/ out[s].pc \in Locked
  BY DEF Output, Underrun, Probe, Flushed, Send, GopIsOut, EndFile, SendEos, Sleep, Command,
     WakeOut, SwitchFile, OpenFile, StartFile, Push, AtLimit, Locked
<1>3. ASSUME NEW p, WokenOut(At(out, s, p)),
             p \notin {"wait", "cmdwait"} \/ out' = At(out, s, p),
             p \in Switching => SwitchFile(s) \/ out[s].pc \in Switching
      PROVE  /\ \A t \in Streams \ {s} :
                  /\ out'[t].item = out[t].item /\ out'[t].rt = out[t].rt
                  /\ out'[t].padEos = out[t].padEos /\ OutWoke(out[t].pc, out'[t].pc)
             /\ out'[s].pc \in Switching => SwitchFile(s) \/ out[s].pc \in Switching
  BY <1>1, <1>3, OutGoes DEF OutTo, OutSame
<1>4. CASE Underrun(s) \/ Flushed(s) \/ Send(s) \/ SendEos(s) \/ Sleep(s) \/ WakeOut(s) \/ Push(s)
  <2>1. \E p : out' = At(out, s, p) /\ p \notin Switching
    BY <1>4 DEF Underrun, Flushed, Send, Sent, SendEos, Sleep, WakeOut, Push, Switching
  <2>2. QED BY <1>2, <1>3, <2>1 DEF WokenOut
<1>5. CASE SwitchFile(s) \/ OpenFile(s)
  <2>1. \E p : out' = At(out, s, p) /\ (p \in Switching => SwitchFile(s) \/ out[s].pc \in Switching)
    BY <1>5 DEF SwitchFile, OpenFile, Switching
  <2>2. QED BY <1>2, <1>3, <2>1 DEF WokenOut
<1>6. CASE GopIsOut(s)
  <2>1. WokenOut(out) /\ out[s].pc = "out"
    BY <1>6 DEF GopIsOut, WokenOut, AtLimit
  <2>2. \A t \in Streams : OutSame(out'[t], out[t]) /\ OutWoke(out[t].pc, out'[t].pc)
    BY <1>1, <2>1, OutStays
  <2>3. QED BY <1>2, <2>1, <2>2 DEF OutSame, OutWoke, Switching
<1>7. CASE Command(s)
  <2>1. \E p \in {"cmdwait", "command", "out"} :
          WokenOut(At(out, s, p)) /\ (p = "cmdwait" => out' = At(out, s, p))
    BY <1>7 DEF Command, WokenOut
  <2>2. QED BY <1>2, <1>3, <2>1 DEF Switching
<1>8. CASE StartFile(s)
  <2>1. CASE out' = At(out, s, "async_done")
    BY <1>2, <1>3, <1>8, <2>1 DEF WokenOut, StartFile, Switching
  <2>2. CASE Restart(s)
    BY <1>1, <1>2, <2>2, Restarted DEF Switching
  <2>3. QED BY <1>8, <2>1, <2>2 DEF StartFile
<1>9. CASE EndFile(s)
  BY <1>1, <1>2, <1>9 DEF EndFile, OutGood, OutWoke, Switching
<1>10. CASE Probe(s)
  <2>1. \E x \in Items(s) : Probed(s, x)
    BY <1>10, ProbeOut
  <2>2. QED BY <1>2, <2>1 DEF Probed, OutSame, Switching
<1>11. QED BY <1>4, <1>5, <1>6, <1>7, <1>8, <1>9, <1>10 DEF Output

(* Only the thread of the reference changes files, and one thread at a     *)
(* time has the lock of the output.                                        *)
OneOut ==
  /\ \A s \in Streams : out[s].pc \in Switching => s = Ref
  /\ \A s, t \in Streams : out[s].pc \in Locked /\ out[t].pc \in Locked => s = t

LEMMA OneKept ==
  ASSUME OneOut, \A t \in Streams : OutWoke(out[t].pc, out'[t].pc) \/ out'[t].pc = "done"
  PROVE  OneOut'
BY DEF OneOut, OutWoke, Switching, Locked

LEMMA OneNext == ASSUME IInv, OneOut, [Next]_vars PROVE OneOut'
<1>1. OutGood(out)
  BY DEF IInv, OutputInv, OutOK
<1>2. ASSUME NEW s \in Streams, Output(s) PROVE OneOut'
  <2>1. /\ Free \/ out[s].pc \in Locked
        /\ \A t \in Streams \ {s} : OutWoke(out[t].pc, out'[t].pc)
        /\ out'[s].pc \in Switching => s = Ref
    BY <1>2, OutputOthers DEF SwitchFile, OneOut
  <2>2. \A t \in Streams \ {s} : out[t].pc \notin Locked
    BY <2>1 DEF Free, OneOut
  <2>3. \A t \in Streams \ {s} : out'[t].pc \notin Locked /\ (out'[t].pc \in Switching => t = Ref)
    BY <2>1, <2>2 DEF OutWoke, Locked, OneOut, Switching
  <2>4. QED BY <2>1, <2>3 DEF OneOut
<1>3. CASE WokenOut(out)
  BY <1>1, <1>3, OutStays, OneKept
<1>4. ASSUME NEW s \in Streams, Input(s) PROVE OneOut'
  BY <1>3, <1>4, InputShape
<1>5. ASSUME NEW s \in Streams, Deactivate(s) PROVE OneOut'
  <2>1. WokenOut(out) \/ out' = At(out, s, "done")
    BY <1>5 DEF Deactivate, WokenOut
  <2>2. CASE out' = At(out, s, "done")
    <3>1. OutTo(s, "done")
      BY <1>1, <2>2, OutGoes DEF WokenOut
    <3>2. QED BY <3>1, OneKept DEF OutTo
  <2>3. QED BY <1>3, <2>1, <2>2
<1>6. CASE Mux \/ FileEnds \/ Split \/ Shutdown \/ UNCHANGED vars
  BY <1>3, <1>6 DEF Mux, FileEnds, Split, Shutdown, vars, outputVars, WokenOut
<1>7. CASE Stop
  <2>1. PICK f : f = [s \in Streams |-> [out[s] EXCEPT !.rt = NoTime]]
    OBVIOUS
  <2>2. out' = WakeOutput(f) /\ \A t \in Streams : f[t].pc = out[t].pc /\ "pc" \in DOMAIN f[t]
    BY <1>1, <1>7, <2>1 DEF Stop, Reset, OutGood
  <2>3. \A t \in Streams : OutWoke(out[t].pc, out'[t].pc)
    BY <2>2 DEF WakeOutput, OutWoke
  <2>4. QED BY <2>3, OneKept
<1>8. QED BY <1>2, <1>4, <1>5, <1>6, <1>7 DEF Next

LiveOK == SwitchOK /\ \A s \in Streams : ThreadOK(s)

LEMMA CutsKept ==
  ASSUME UNCHANGED <<input, files>>, output'.max = output.max
  PROVE  /\ IsCut(output.max)' <=> IsCut(output.max)
         /\ \A t \in Streams : /\ AtCut(t)' <=> AtCut(t)
                               /\ Buffers(t)' = Buffers(t)
                               /\ \A n : /\ Written(t, n)' <=> Written(t, n)
                                         /\ RunTime(t, n)' = RunTime(t, n)
<1>1. \A t \in Streams : /\ Buffers(t)' = Buffers(t)
                         /\ \A n : /\ Written(t, n)' <=> Written(t, n)
                                   /\ RunTime(t, n)' = RunTime(t, n)
  BY DEF Buffers, Written, UpTo, RunTime
<1>2. \A t \in Streams : AtCut(t)' <=> AtCut(t)
  BY <1>1 DEF AtCut
<1>3. PICK x : x = output.max
  OBVIOUS
<1>4. IsCut(x)' <=> IsCut(x)
  BY CutKept
<1>5. IsCut(output.max)' <=> IsCut(output.max)
  BY <1>3, <1>4 DEF IsCut
<1>6. QED BY <1>1, <1>2, <1>5

(* A step that neither ends a file nor begins one.                         *)
QuietAt(t) ==
  /\ mux'[t].eos = mux[t].eos
  /\ out[t].eos => out'[t].eos
  /\ out[t].padEos => out'[t].padEos
  /\ t = Ref /\ out'[t].padEos => out[t].padEos
  /\ out'[t].pc = "push" /\ out'[t].item.kind = "buffer" =>
       out[t].item.kind = "buffer" /\ RunTime(t, out'[t].item.n) < output.max
  /\ out'[t].pc = "send_eos" => out[t].pc = "send_eos"
  /\ out'[t].pc = "command" => output'.state = "awaiting"
  /\ t = Ref /\ out'[t].pc \in {"opened", "async_done"} => out[t].pc \in {"opened", "async_done"}
  /\ t = Ref /\ out[t].pc \in {"opened", "async_done", "done"} =>
       out'[t].pc \in {"opened", "async_done", "done"}
  /\ t = Ref /\ out'[t].pc \in Switching => out[t].pc \in Switching \/ output.state = "next_file"

LEMMA Quiet ==
  ASSUME LiveOK, UNCHANGED <<input, files>>, output'.max = output.max,
         \/ output'.state = output.state
         \/ output.state = "output_gop" /\ output'.state = "awaiting",
         output'.muxed => output.muxed \/ output.max # NoTime,
         \A t \in Streams : QuietAt(t)
  PROVE  LiveOK'
<1> USE SplitMuxAssumption
<1>1. ASSUME NEW t \in Streams PROVE ThreadOK(t)'
  <2>1. ThreadOK(t) /\ QuietAt(t) /\ QuietAt(Ref)
    BY DEF LiveOK
  <2>2. /\ AtCut(t)' <=> AtCut(t)
        /\ Buffers(t)' = Buffers(t)
        /\ \A n : (Written(t, n)' <=> Written(t, n)) /\ RunTime(t, n)' = RunTime(t, n)
    BY CutsKept
  <2>3. \A n \in Buffers(t)' : Written(t, n)' => RunTime(t, n)' < output'.max
    BY <2>1, <2>2 DEF ThreadOK
  <2>4. out'[t].pc = "push" /\ out'[t].item.kind = "buffer" => RunTime(t, out[t].item.n)' < output'.max
    <3>1. PICK n : n = out'[t].item.n
      OBVIOUS
    <3>2. RunTime(t, n)' = RunTime(t, n)
      BY <2>2
    <3>3. RunTime(t, out[t].item.n)' = RunTime(t, n)'
      BY <3>1 DEF RunTime
    <3>4. QED BY <2>1, <3>1, <3>2, <3>3 DEF QuietAt
  <2>5. /\ mux'[t].eos \/ out'[t].pc = "send_eos" =>
             AtCut(t)' /\ (output'.state \in {"ending_file", "next_file"} \/ out'[t].padEos)
        /\ mux'[t].eos => out'[t].eos
        /\ out'[t].pc = "send_eos" => out'[t].eos /\ ~mux'[t].eos /\ output'.state = "ending_file"
    BY <2>1, <2>2 DEF ThreadOK, QuietAt
  <2>6. /\ out'[t].pc = "command" => output'.state = "awaiting"
        /\ output'.state = "next_file" => AtCut(t)'
        /\ Opening' /\ mux'[t].eos => out'[t].padEos
    BY <2>1, <2>2 DEF ThreadOK, QuietAt, Opening
  <2>7. QED BY <2>3, <2>4, <2>5, <2>6 DEF ThreadOK
<1>2. SwitchOK'
  <2>1. SwitchOK /\ QuietAt(Ref)
    BY DEF LiveOK
  <2>2. IsCut(output.max)' <=> IsCut(output.max)
    BY CutsKept
  <2>3. QED BY <2>1, <2>2 DEF SwitchOK, QuietAt, Opening, Switching
<1>3. QED BY <1>1, <1>2 DEF LiveOK

(* The states between two steps of the output threads.                     *)
LEMMA QuietWoken ==
  ASSUME LiveOK, UNCHANGED <<input, files>>, output'.max = output.max,
         \/ output'.state = output.state
         \/ output.state = "output_gop" /\ output'.state = "awaiting",
         output'.muxed => output.muxed, \A t \in Streams : mux'[t].eos = mux[t].eos,
         NEW T \in SUBSET Streams,
         \A t \in Streams \ T : OutSame(out'[t], out[t]) /\ OutWoke(out[t].pc, out'[t].pc),
         \A t \in T : QuietAt(t)
  PROVE  LiveOK'
<1>1. ASSUME NEW t \in Streams \ T PROVE QuietAt(t)
  <2>1. OutSame(out'[t], out[t]) /\ OutWoke(out[t].pc, out'[t].pc) /\ mux'[t].eos = mux[t].eos
    OBVIOUS
  <2>2. ThreadOK(t)
    BY DEF LiveOK
  <2>3. CASE out'[t].pc = out[t].pc
    BY <2>1, <2>2, <2>3 DEF QuietAt, OutSame, ThreadOK, Switching
  <2>4. CASE out[t].pc \in {"wait", "cmdwait"} /\ out'[t].pc \in {"woken", "cmdwoken"}
    BY <2>1, <2>4 DEF QuietAt, OutSame, Switching
  <2>5. QED BY <2>1, <2>3, <2>4 DEF OutWoke
<1>2. \A t \in Streams : QuietAt(t)
  BY <1>1
<1>3. QED BY <1>2, Quiet

-----------------------------------------------------------------------------
(* What an output thread may do at a cut, step by step.                    *)

(* What an output thread has in hand comes right after what is written.    *)
LEMMA HeldBuffer ==
  ASSUME IInv, FlowInv, Live, NEW s \in Streams, out[s].pc \notin Rest, out[s].item.kind = "buffer"
  PROVE  /\ out[s].item.n \in Buffers(s) /\ out[s].rt = RunTime(s, out[s].item.n)
         /\ \A m \in Buffers(s) : Written(s, m) <=> m < out[s].item.n
<1>1. PICK c \in Nat : /\ c <= Len(input[s]) /\ OutFlow(s, c)
                       /\ \A n \in Nat : Written(s, n) <=> n \in 1 .. c
  BY Progress
<1>2. PICK x : x = out[s].item
  OBVIOUS
<1>3. x \in Items(s)
  BY <1>2 DEF IInv, OutputInv, OutOK, OutGood
<1>4. /\ x.n = c + 1 /\ x.rt = RunTime(s, x.n) /\ out[s].rt = x.rt
  <2>1. Proper(s, x, c + 1)
    BY <1>1, <1>2 DEF OutFlow, Count
  <2>2. QED BY <1>1, <1>2, <2>1 DEF OutFlow, Proper, Fits, Timed
<1>5. Len(input[s]) \in Nat
  BY Counted DEF IInv
<1>6. x.n \in 0 .. Len(input[s])
  BY <1>2, <1>3 DEF Items
<1>7. x.n \in Buffers(s)
  BY <1>4, <1>5, <1>6 DEF Buffers
<1>8. ASSUME NEW m \in Buffers(s) PROVE Written(s, m) <=> m < x.n
  BY <1>1, <1>4, <1>5 DEF Buffers
<1>9. QED BY <1>2, <1>4, <1>7, <1>8

LEMMA HeldOther ==
  ASSUME IInv, FlowInv, Live, NEW s \in Streams, out[s].pc \notin Rest, out[s].item.kind # "buffer"
  PROVE  \/ /\ out[s].item.kind = "eos" /\ out[s].eos /\ out[s].padEos
         \/ /\ out[s].item.kind = "unblock" /\ s # Ref /\ out[s].pc # "push"
            /\ out[s].rt \in Times \cup {NoTime}
            /\ \A m \in Buffers(s) : ~Written(s, m) => out[s].rt <= RunTime(s, m)
<1>1. PICK c \in Nat : /\ c <= Len(input[s]) /\ OutFlow(s, c)
                       /\ \A n \in Nat : Written(s, n) <=> n \in 1 .. c
  BY Progress
<1>2. PICK x : x = out[s].item
  OBVIOUS
<1>3. x \in Items(s)
  BY <1>2 DEF IInv, OutputInv, OutOK, OutGood
<1>4. CASE x.kind = "eos"
  BY <1>1, <1>2, <1>4 DEF OutFlow
<1>5. CASE x.kind = "unblock"
  <2>1. Proper(s, x, c + 0)
    BY <1>1, <1>2, <1>5 DEF OutFlow, Count
  <2>2. /\ s # Ref /\ out[s].pc # "push" /\ out[s].rt = x.rt
    BY <1>1, <1>2, <1>5 DEF OutFlow
  <2>3. c + 0 = c
    OBVIOUS
  <2>4. \A m \in Buffers(s) : m > c => x.rt <= RunTime(s, m)
    BY <1>5, <2>1, <2>2, <2>3 DEF Proper, Timed
  <2>5. x.rt \in Times \cup {NoTime}
    BY <1>3, <1>5 DEF Items
  <2>6. Len(input[s]) \in Nat
    BY Counted DEF IInv
  <2>7. \A m \in Buffers(s) : ~Written(s, m) => m > c
    BY <1>1, <2>6 DEF Buffers
  <2>8. QED BY <1>2, <1>5, <2>2, <2>4, <2>5, <2>7
<1>6. x.kind \in {"buffer", "eos", "unblock"}
  BY <1>3 DEF Items
<1>7. QED BY <1>2, <1>4, <1>5, <1>6

LEMMA AllAtEos ==
  ASSUME IInv, FlowInv, NEW s \in Streams, out[s].padEos, NEW n \in Buffers(s)
  PROVE  Written(s, n)
<1>1. PICK c \in Nat : /\ c <= Len(input[s]) /\ OutFlow(s, c)
                       /\ \A m \in Nat : Written(s, m) <=> m \in 1 .. c
  BY Progress
<1>2. c = Len(input[s])
  BY <1>1 DEF OutFlow
<1>3. n \in 1 .. c /\ n \in Nat
  BY <1>2 DEF Buffers
<1>4. QED BY <1>1, <1>3

LEMMA LiveUnseen ==
  ASSUME IInv, LiveOK, UNCHANGED <<input, files>>, WokenOut(out), output'.state = output.state,
         output'.max = output.max, output'.muxed = output.muxed,
         \A t \in Streams : mux'[t].eos = mux[t].eos
  PROVE  LiveOK'
<1>1. OutGood(out)
  BY DEF IInv, OutputInv, OutOK
<1>2. \A t \in Streams : OutSame(out'[t], out[t]) /\ OutWoke(out[t].pc, out'[t].pc)
  BY <1>1, OutStays
<1>3. PICK T : T = {}
  OBVIOUS
<1>4. T \in SUBSET Streams /\ (\A t \in T : QuietAt(t))
      /\ \A t \in Streams \ T : OutSame(out'[t], out[t]) /\ OutWoke(out[t].pc, out'[t].pc)
  BY <1>2, <1>3
<1>5. QED BY <1>4, QuietWoken

LEMMA LiveMoved ==
  ASSUME IInv, LiveOK, UNCHANGED <<input, files, mux>>, output'.max = output.max,
         \/ output'.state = output.state
         \/ output.state = "output_gop" /\ output'.state = "awaiting",
         output'.muxed => output.muxed \/ output.max # NoTime,
         NEW s \in Streams, NEW p, OutTo(s, p), out[s].pc # "done",
         p = "push" /\ out[s].item.kind = "buffer" => RunTime(s, out[s].item.n) < output.max,
         p # "send_eos", p = "command" => output'.state = "awaiting",
         p \in {"opened", "async_done"} => out[s].pc \in {"opened", "async_done"},
         out[s].pc \in {"opened", "async_done"} => p \in {"opened", "async_done"},
         p \in Switching => out[s].pc \in Switching \/ output.state = "next_file"
  PROVE  LiveOK'
<1>1. QuietAt(s)
  BY DEF OutTo, OutSame, QuietAt
<1>2. ASSUME NEW t \in Streams \ {s} PROVE QuietAt(t)
  <2>1. OutSame(out'[t], out[t]) /\ OutWoke(out[t].pc, out'[t].pc) /\ mux'[t].eos = mux[t].eos
    BY DEF OutTo
  <2>2. ThreadOK(t)
    BY DEF LiveOK
  <2>3. CASE out'[t].pc = out[t].pc
    BY <2>1, <2>2, <2>3 DEF QuietAt, OutSame, ThreadOK, Switching
  <2>4. CASE out[t].pc \in {"wait", "cmdwait"} /\ out'[t].pc \in {"woken", "cmdwoken"}
    BY <2>1, <2>4 DEF QuietAt, OutSame, Switching
  <2>5. QED BY <2>1, <2>3, <2>4 DEF OutWoke
<1>3. \A t \in Streams : QuietAt(t)
  BY <1>1, <1>2
<1>4. QED BY <1>3, Quiet

LEMMA ProbeEos ==
  ASSUME IInv, NEW s \in Streams, Probe(s), NEW x \in Items(s), Probed(s, x), x.kind # "eos"
  PROVE  out'[s].eos = out[s].eos
<1>1. OutGood(out) /\ x = Head(queue[s].items)
  BY DEF IInv, OutputInv, OutOK, Probed
<1>2. PICK v \in BOOLEAN : v = (out[s].padEos \/ x.kind = "eos")
  OBVIOUS
<1>3. PICK f : f = [out EXCEPT ![s].item = x, ![s].padEos = v]
  OBVIOUS
<1>4. f = [out EXCEPT ![s].item = Head(queue[s].items),
                     ![s].padEos = @ \/ Head(queue[s].items).kind = "eos"]
  BY <1>1, <1>2, <1>3
<1>5. /\ DOMAIN f = Streams /\ \A t \in Streams : DOMAIN f[t] = {"pc", "item", "rt", "eos", "padEos"}
      /\ f[s].eos = out[s].eos
  BY <1>1, <1>3 DEF OutGood
<1>6. CASE x.kind = "buffer"
  <2>1. out' = At(f, s, "done") \/ \E r : out' = [f EXCEPT ![s].rt = r, ![s].pc = "out"]
    BY <1>1, <1>4, <1>6 DEF Probe
  <2>2. QED BY <1>5, <2>1 DEF At
<1>7. CASE x.kind = "unblock"
  <2>1. \E r, p : out' = [f EXCEPT ![s].rt = r, ![s].pc = p]
    <3>1. PICK p : p = IF output.state = "stopped" \/ s = Ref THEN "idle" ELSE "out"
      OBVIOUS
    <3>2. PICK r : r = IF output.state = "stopped" THEN f[s].rt ELSE x.rt
      OBVIOUS
    <3>3. out' = [f EXCEPT ![s].rt = r, ![s].pc = p]
      <4>1. out' = [f EXCEPT
                ![s].rt = IF output.state = "stopped" THEN @ ELSE x.rt,
                ![s].pc = IF output.state = "stopped" \/ s = Ref THEN "idle" ELSE "out"]
        BY <1>1, <1>4, <1>7 DEF Probe
      <4>2. QED BY <1>5, <3>1, <3>2, <4>1
    <3>4. QED BY <3>3
  <2>2. QED BY <1>5, <2>1
<1>8. QED BY <1>6, <1>7 DEF Probed

LEMMA ProbeAtEos ==
  ASSUME IInv, NEW s \in Streams, Probe(s), NEW x \in Items(s), Probed(s, x), x.kind = "eos",
         output.state # "stopped"
  PROVE  out'[s].pc = "out" /\ out'[s].eos
<1>1. x = Head(queue[s].items)
  BY DEF Probed
<1>2. PICK f : f = [out EXCEPT ![s].item = Head(queue[s].items),
                              ![s].padEos = @ \/ Head(queue[s].items).kind = "eos"]
  OBVIOUS
<1>3. PICK h : h = [f EXCEPT ![s].eos = @ \/ ~(output.state = "stopped"),
                            ![s].pc = IF output.state = "stopped" THEN "done" ELSE "out"]
  OBVIOUS
<1>4. out' = h \/ out' = WakeOutput(h)
  BY <1>1, <1>2, <1>3 DEF Probe
<1>5. DOMAIN f = Streams /\ DOMAIN f[s] = {"pc", "item", "rt", "eos", "padEos"}
  BY <1>2 DEF IInv, OutputInv, OutOK, OutGood
<1>6. h[s].pc = "out" /\ DOMAIN h[s] = {"pc", "item", "rt", "eos", "padEos"}
  BY <1>3, <1>5
<1>7. out'[s].pc # "done"
  BY <1>4, <1>6 DEF WakeOutput
<1>8. QED BY <1>7 DEF Probed

LEMMA LiveProbe ==
  ASSUME IInv, FlowInv, LiveOK, NEW s \in Streams, Probe(s),
         NEW x \in Items(s), Probed(s, x), s # Ref \/ x.kind # "eos"
  PROVE  LiveOK'
<1>1. x = Head(queue[s].items) /\ UNCHANGED <<input, files, mux>>
  BY ProbeUnseen DEF Probed
<1>2. output'.max = output.max /\ output'.muxed = output.muxed /\ output'.state = output.state
  BY <1>1, ProbeOutput
<1>3. output.state # "stopped"
  BY DEF LiveOK, SwitchOK
<1>4. out[s].eos => out'[s].eos
  <2>1. CASE x.kind # "eos"
    BY <2>1, ProbeEos
  <2>2. CASE x.kind = "eos"
    <3>1. out'[s].pc = "out" /\ out'[s].eos
      BY <1>3, <2>2, ProbeAtEos
    <3>2. QED BY <3>1
  <2>3. QED BY <2>1, <2>2
<1>5. QuietAt(s)
  BY <1>1, <1>4 DEF Probed, QuietAt, Switching
<1>6. PICK T : T = {s}
  OBVIOUS
<1>7. /\ T \in SUBSET Streams /\ \A t \in T : QuietAt(t)
      /\ \A t \in Streams \ T : OutSame(out'[t], out[t]) /\ OutWoke(out[t].pc, out'[t].pc)
  BY <1>5, <1>6 DEF Probed
<1>8. QED BY <1>1, <1>2, <1>7, QuietWoken

LEMMA LiveSend == ASSUME IInv, FlowInv, Live, LiveOK, NEW s \in Streams, Send(s) PROVE LiveOK'
<1>1. OutGood(out)
  BY DEF IInv, OutputInv, OutOK
<1>2. /\ out[s].pc = "out" /\ out' = At(out, s, Sent(s)) /\ UNCHANGED <<input, files, mux>>
      /\ InTime(s) \/ output.state = "ending_stream"
  BY DEF Send, muxVars, appVars
<1>3. /\ output'.state = output.state /\ output'.max = output.max
      /\ output'.muxed => output.muxed \/ out[s].item.kind = "buffer"
  <2>1. PICK v \in BOOLEAN : v = (output.muxed \/ out[s].item.kind = "buffer")
    OBVIOUS
  <2>2. output' = [output EXCEPT !.muxed = v]
    BY <2>1 DEF Send
  <2>3. QED BY <2>1, <2>2 DEF IInv, OutputInv, OutputOK
<1>4. output.state = "ending_stream" => output.max = MaxTime
  BY DEF LiveOK, SwitchOK
<1>5. output.max # NoTime
  BY <1>2, <1>4 DEF InTime, MaxTime, NoTime
<1>6. ASSUME out[s].item.kind = "buffer" PROVE RunTime(s, out[s].item.n) < output.max
  <2>1. out[s].item.n \in Buffers(s) /\ out[s].rt = RunTime(s, out[s].item.n)
    BY <1>2, <1>6, HeldBuffer DEF Rest
  <2>2. RunTime(s, out[s].item.n) \in Times
    BY <2>1, RunTimeOf DEF IInv
  <2>3. RunTime(s, out[s].item.n) < MaxTime
    BY <2>2, TimeRange
  <2>4. QED BY <1>2, <1>4, <2>1, <2>3 DEF InTime
<1>7. PICK p \in {"idle", "push"} : p = Sent(s)
  BY DEF Sent
<1>8. OutTo(s, p)
  BY <1>1, <1>2, <1>7, OutGoes DEF WokenOut
<1>9. QED BY <1>2, <1>3, <1>5, <1>6, <1>8, LiveMoved DEF Switching

LEMMA LivePlain ==
  ASSUME IInv, LiveOK, NEW s \in Streams,
         \/ Underrun(s) \/ Sleep(s) \/ WakeOut(s) \/ SwitchFile(s) \/ GopIsOut(s) \/ Flushed(s)
         \/ Command(s) /\ output.cmds = <<>>
         \/ StartFile(s) /\ out' = At(out, s, "async_done")
  PROVE  LiveOK'
<1> USE DEF muxVars, appVars
<1>1. OutGood(out)
  BY DEF IInv, OutputInv, OutOK
<1>2. ASSUME NEW p, out' = At(out, s, p), p \notin {"push", "send_eos"}, out[s].pc # "done",
             UNCHANGED <<input, files, mux, output>>,
             p = "command" => output.state = "awaiting",
             p \in {"opened", "async_done"} => out[s].pc \in {"opened", "async_done"},
             out[s].pc \in {"opened", "async_done"} => p \in {"opened", "async_done"},
             p \in Switching => out[s].pc \in Switching \/ output.state = "next_file"
      PROVE  LiveOK'
  <2>1. OutTo(s, p)
    BY <1>1, <1>2, OutGoes DEF WokenOut
  <2>2. output'.max = output.max /\ output'.state = output.state /\ output'.muxed = output.muxed
    BY <1>2
  <2>3. QED BY <1>2, <2>1, <2>2, LiveMoved
<1>3. CASE Underrun(s)
  BY <1>2, <1>3 DEF Underrun, Switching
<1>4. CASE Sleep(s)
  BY <1>2, <1>4 DEF Sleep, Switching
<1>5. CASE WakeOut(s)
  BY <1>2, <1>5 DEF WakeOut, Switching
<1>6. CASE SwitchFile(s)
  BY <1>2, <1>6 DEF SwitchFile, AtLimit, Switching
<1>7. CASE Command(s) /\ output.cmds = <<>>
  <2>1. out' = At(out, s, "cmdwait") /\ UNCHANGED <<input, files, mux, output>>
    BY <1>7 DEF Command
  <2>2. out[s].pc \in {"command", "out"}
    BY <1>7 DEF Command, AtLimit
  <2>3. QED BY <1>2, <2>1, <2>2 DEF Switching
<1>8. CASE StartFile(s) /\ out' = At(out, s, "async_done")
  <2>1. out[s].pc \in {"opened", "async_done"} /\ UNCHANGED <<input, files>>
    BY <1>8 DEF StartFile
  <2>2. CASE UNCHANGED <<mux, output>>
    BY <1>2, <1>8, <2>1, <2>2 DEF Switching
  <2>3. CASE Restart(s)
    BY <1>1, <1>8, <2>3, Restarted DEF At, OutGood
  <2>4. QED BY <1>8, <2>2, <2>3 DEF StartFile
<1>9. CASE GopIsOut(s)
  <2>1. out[s].pc = "out" /\ output.state = "output_gop" /\ UNCHANGED <<input, files, mux>>
    BY <1>9 DEF GopIsOut, AtLimit
  <2>2. \A t \in Streams : OutSame(out'[t], out[t]) /\ OutWoke(out[t].pc, out'[t].pc)
    BY <1>1, <1>9, OutStays DEF GopIsOut, WokenOut
  <2>3. out'[s].pc = "out"
    BY <2>1, <2>2 DEF OutWoke
  <2>4. OutTo(s, "out")
    BY <2>2, <2>3 DEF OutTo
  <2>5. output'.max = output.max /\ output'.state = "awaiting" /\ output'.muxed = output.muxed
    BY <1>9 DEF GopIsOut, IInv, OutputInv, OutputOK
  <2>6. QED BY <2>1, <2>4, <2>5, LiveMoved DEF Switching
<1>10. ~Flushed(s)
  BY DEF Flushed, LiveOK, SwitchOK
<1>11. QED BY <1>3, <1>4, <1>5, <1>6, <1>7, <1>8, <1>9, <1>10

(* What a thread has to show when neither the files nor the limit change.  *)
LEMMA ThreadMoved ==
  ASSUME UNCHANGED <<input, files>>, output'.max = output.max, NEW t \in Streams, ThreadOK(t),
         out'[t].pc = "push" /\ out'[t].item.kind = "buffer" =>
           RunTime(t, out'[t].item.n) < output.max,
         mux'[t].eos \/ out'[t].pc = "send_eos" =>
           AtCut(t) /\ (output'.state \in {"ending_file", "next_file"} \/ out'[t].padEos),
         mux'[t].eos => out'[t].eos,
         out'[t].pc = "send_eos" => out'[t].eos /\ ~mux'[t].eos /\ output'.state = "ending_file",
         out'[t].pc = "command" => output'.state = "awaiting",
         output'.state = "next_file" => AtCut(t),
         Opening' /\ mux'[t].eos => out'[t].padEos
  PROVE  ThreadOK(t)'
<1>1. /\ AtCut(t)' <=> AtCut(t)
      /\ Buffers(t)' = Buffers(t)
      /\ \A n : (Written(t, n)' <=> Written(t, n)) /\ RunTime(t, n)' = RunTime(t, n)
  BY CutsKept
<1>2. \A n \in Buffers(t)' : Written(t, n)' => RunTime(t, n)' < output'.max
  BY <1>1 DEF ThreadOK
<1>3. out'[t].pc = "push" /\ out'[t].item.kind = "buffer" => RunTime(t, out[t].item.n)' < output'.max
  <2>1. PICK n : n = out'[t].item.n
    OBVIOUS
  <2>2. RunTime(t, n)' = RunTime(t, n)
    BY <1>1
  <2>3. RunTime(t, out[t].item.n)' = RunTime(t, n)'
    BY <2>1 DEF RunTime
  <2>4. QED BY <2>1, <2>2, <2>3
<1>4. QED BY <1>1, <1>2, <1>3 DEF ThreadOK

LEMMA ThreadStays ==
  ASSUME UNCHANGED <<input, files>>, output'.max = output.max, NEW t \in Streams, ThreadOK(t),
         OutSame(out'[t], out[t]), OutWoke(out[t].pc, out'[t].pc), mux'[t].eos = mux[t].eos,
         out[t].pc \in {"send_eos", "command"} => output'.state = output.state,
         mux[t].eos => output'.state \in {"ending_file", "next_file"} \/ out[t].padEos,
         output'.state = "next_file" => AtCut(t),
         Opening' /\ mux[t].eos => out[t].padEos
  PROVE  ThreadOK(t)'
<1>1. CASE out'[t].pc = out[t].pc
  <2>1. out'[t].pc = "push" /\ out'[t].item.kind = "buffer" =>
           RunTime(t, out'[t].item.n) < output.max
    BY <1>1 DEF ThreadOK, OutSame
  <2>2. /\ mux'[t].eos \/ out'[t].pc = "send_eos" =>
             AtCut(t) /\ (output'.state \in {"ending_file", "next_file"} \/ out'[t].padEos)
        /\ mux'[t].eos => out'[t].eos
        /\ out'[t].pc = "send_eos" => out'[t].eos /\ ~mux'[t].eos /\ output'.state = "ending_file"
        /\ out'[t].pc = "command" => output'.state = "awaiting"
    BY <1>1 DEF ThreadOK, OutSame
  <2>3. Opening' /\ mux'[t].eos => out'[t].padEos
    BY DEF OutSame
  <2>4. QED BY <2>1, <2>2, <2>3, ThreadMoved
<1>2. CASE out'[t].pc \in {"woken", "cmdwoken"}
  <2>1. /\ mux'[t].eos => AtCut(t) /\ (output'.state \in {"ending_file", "next_file"} \/ out'[t].padEos)
        /\ mux'[t].eos => out'[t].eos
    BY DEF ThreadOK, OutSame
  <2>2. Opening' /\ mux'[t].eos => out'[t].padEos
    BY DEF OutSame
  <2>3. QED BY <1>2, <2>1, <2>2, ThreadMoved
<1>3. QED BY <1>1, <1>2 DEF OutWoke

(* A thread that ends the file has written all that is before the cut.     *)
LEMMA EndsAtCut ==
  ASSUME IInv, FlowInv, Live, LiveOK, NEW s \in Streams, EndFile(s)
  PROVE  output.state = "ending_file" /\ AtCut(s)
<1>1. out[s].pc = "out" /\ ~InTime(s) /\ ~out[s].eos /\ out[s].pc \notin Rest
      /\ output.state \in {"ending_file", "ending_stream"}
  BY DEF EndFile, AtLimit, Rest
<1>2. SwitchOK /\ ThreadOK(s) /\ InputInv
  BY DEF LiveOK, IInv
<1>3. /\ out[s].rt \in Times \cup {NoTime}
      /\ \A m \in Buffers(s) : ~Written(s, m) => out[s].rt <= RunTime(s, m)
  <2>1. CASE out[s].item.kind = "buffer"
    <3>1. PICK k \in Buffers(s) : k = out[s].item.n /\ out[s].rt = RunTime(s, k)
                                  /\ \A m \in Buffers(s) : Written(s, m) <=> m < k
      BY <1>1, <2>1, HeldBuffer
    <3>2. RunTime(s, k) \in Times
      BY <1>2, RunTimeOf
    <3>3. ASSUME NEW m \in Buffers(s), ~Written(s, m) PROVE RunTime(s, k) <= RunTime(s, m)
      <4>1. k <= m
        BY <1>2, <3>1, <3>3, Counted DEF Buffers
      <4>2. QED BY <1>2, <4>1, RunTimeMono
    <3>4. QED BY <3>1, <3>2, <3>3
  <2>2. CASE out[s].item.kind # "buffer"
    BY <1>1, <2>2, HeldOther
  <2>3. QED BY <2>1, <2>2
<1>4. out[s].rt \in Int /\ out[s].rt < MaxTime
  BY <1>3, TimeRange
<1>5. output.state = "ending_file"
  <2>1. MaxTime # NoTime
    BY DEF MaxTime, NoTime
  <2>2. output.state # "ending_stream"
    BY <1>1, <1>2, <1>4, <2>1 DEF SwitchOK, InTime
  <2>3. QED BY <1>1, <2>2
<1>6. output.max \in Int /\ output.max # NoTime
  BY <1>2, <1>5, CutTime DEF SwitchOK
<1>7. output.max <= out[s].rt
  BY <1>1, <1>4, <1>6 DEF InTime
<1>8. ASSUME NEW m \in Buffers(s) PROVE Written(s, m) <=> RunTime(s, m) < output.max
  <2>1. RunTime(s, m) \in Int
    BY <1>2, RunTimeOf, TimeRange
  <2>2. CASE Written(s, m)
    BY <1>2, <2>2 DEF ThreadOK
  <2>3. CASE ~Written(s, m)
    BY <1>3, <1>4, <1>6, <1>7, <2>1, <2>3
  <2>4. QED BY <2>2, <2>3
<1>9. QED BY <1>5, <1>8 DEF AtCut

LEMMA LiveEndFile ==
  ASSUME IInv, FlowInv, Live, LiveOK, NEW s \in Streams, EndFile(s)
  PROVE  LiveOK'
<1> USE DEF muxVars, appVars
<1>1. output.state = "ending_file" /\ AtCut(s)
  BY EndsAtCut
<1>2. /\ out' = [out EXCEPT ![s].eos = TRUE, ![s].pc = "send_eos"] /\ ~out[s].eos /\ out[s].pc = "out"
      /\ UNCHANGED <<input, files, mux, output>>
  BY DEF EndFile, AtLimit
<1>3. OutGood(out)
  BY DEF IInv, OutputInv, OutOK
<1>4. /\ out'[s].eos = TRUE /\ out'[s].pc = "send_eos" /\ out'[s].padEos = out[s].padEos
      /\ \A t \in Streams \ {s} : out'[t] = out[t]
  BY <1>2, <1>3 DEF OutGood
<1>5. output'.max = output.max /\ output'.state = output.state
  BY <1>2
<1>6. SwitchOK /\ \A t \in Streams : ThreadOK(t)
  BY DEF LiveOK
<1>7. ~Opening'
  BY <1>1, <1>4, <1>6, SplitMuxAssumption DEF Opening, SwitchOK, Switching
<1>8. ThreadOK(s)'
  <2>1. ~mux'[s].eos
    BY <1>2, <1>6 DEF ThreadOK
  <2>2. QED BY <1>1, <1>2, <1>4, <1>5, <1>6, <2>1, ThreadMoved
<1>9. ASSUME NEW t \in Streams \ {s} PROVE ThreadOK(t)'
  <2>1. OutSame(out'[t], out[t]) /\ OutWoke(out[t].pc, out'[t].pc) /\ mux'[t].eos = mux[t].eos
    BY <1>2, <1>4 DEF OutSame, OutWoke
  <2>2. QED BY <1>1, <1>2, <1>5, <1>6, <1>7, <2>1, ThreadStays
<1>10. SwitchOK'
  <2>1. IsCut(output.max)' <=> IsCut(output.max)
    BY <1>2, <1>5, CutsKept
  <2>2. out'[Ref].padEos = out[Ref].padEos /\ out'[Ref].pc \notin Switching
    BY <1>1, <1>4, <1>6, SplitMuxAssumption DEF SwitchOK, Switching
  <2>3. QED BY <1>1, <1>2, <1>6, <2>1, <2>2 DEF SwitchOK
<1>11. QED BY <1>8, <1>9, <1>10 DEF LiveOK

LEMMA LiveSendEos ==
  ASSUME IInv, LiveOK, NEW s \in Streams, SendEos(s)
  PROVE  LiveOK'
<1> USE DEF muxVars, appVars
<1>1. /\ out[s].pc = "send_eos" /\ out' = At(out, s, "out") /\ mux' = [mux EXCEPT ![s].eos = TRUE]
      /\ UNCHANGED <<input, files, output>>
  BY DEF SendEos
<1>2. OutGood(out) /\ MuxOK
  BY DEF IInv, OutputInv, OutOK
<1>3. OutTo(s, "out")
  BY <1>1, <1>2, OutGoes DEF WokenOut
<1>4. output'.max = output.max /\ output'.state = output.state
  BY <1>1
<1>5. SwitchOK /\ \A t \in Streams : ThreadOK(t)
  BY DEF LiveOK
<1>6. AtCut(s) /\ output.state = "ending_file" /\ out[s].eos
  BY <1>1, <1>5 DEF ThreadOK
<1>7. out'[Ref].padEos = out[Ref].padEos /\ out'[Ref].pc \notin Switching
  BY <1>3, <1>5, <1>6, SplitMuxAssumption DEF SwitchOK, Switching, OutTo, OutSame, OutWoke
<1>8. ~Opening'
  BY <1>7 DEF Opening, Switching
<1>9. ThreadOK(s)'
  <2>1. out'[s].pc = "out" /\ out'[s].eos
    BY <1>3, <1>6 DEF OutTo, OutSame
  <2>2. QED BY <1>1, <1>4, <1>5, <1>6, <1>8, <2>1, ThreadMoved
<1>10. ASSUME NEW t \in Streams \ {s} PROVE ThreadOK(t)'
  <2>1. OutSame(out'[t], out[t]) /\ OutWoke(out[t].pc, out'[t].pc) /\ mux'[t].eos = mux[t].eos
    BY <1>1, <1>2, <1>3 DEF OutTo, MuxOK
  <2>2. QED BY <1>1, <1>4, <1>5, <1>6, <1>8, <2>1, ThreadStays
<1>11. SwitchOK'
  <2>1. IsCut(output.max)' <=> IsCut(output.max)
    BY <1>1, <1>4, CutsKept
  <2>2. QED BY <1>1, <1>5, <1>6, <1>7, <2>1 DEF SwitchOK
<1>12. QED BY <1>9, <1>10, <1>11 DEF LiveOK

LEMMA CommandDone ==
  ASSUME IInv, GopsInv, Live, NEW s \in Streams, Command(s), output.cmds # <<>>
  PROVE  /\ UNCHANGED <<input, files, mux, stop>>
         /\ \E p \in {"out", "command"} : OutTo(s, p) /\ (p = "command" <=> output'.state = "awaiting")
         /\ output'.muxed = output.muxed
         /\ output.max = NoTime \/ IsCut(output.max)
         /\ \/ /\ output'.state = "output_gop" /\ output.max \in Int /\ output'.max \in Int
               /\ output.max <= output'.max /\ output'.max # NoTime
            \/ /\ output'.max = output.max
               /\ output'.state = IF output.muxed THEN "ending_file" ELSE output.state
<1> USE DEF muxVars, appVars
<1>1. UNCHANGED <<input, files, mux, stop>> /\ OutGood(out) /\ CmdsInv /\ InputInv
  BY DEF Command, IInv, OutputInv, OutOK, GopsInv
<1>2. \E p \in {"out", "command"} : OutTo(s, p) /\ (p = "command" <=> output'.state = "awaiting")
  <2>1. PICK p \in {"out", "command"} : p = IF output'.state = "awaiting" THEN "command" ELSE "out"
    OBVIOUS
  <2>2. out' = WakeOutput(At(out, s, p))
    BY <2>1 DEF Command
  <2>3. OutTo(s, p)
    BY <1>1, <2>2, OutGoes DEF WokenOut
  <2>4. QED BY <2>1, <2>3
<1>3. PICK S : S = Commands
  OBVIOUS
<1>4. PICK q \in Seq(S) : q = output.cmds
  BY <1>1, <1>3 DEF CmdsInv
<1>5. PICK r : r = Tail(q)
  OBVIOUS
<1>6. Head(q) = q[1] /\ Head(q) \in S /\ 1 \in 1 .. Len(q)
  BY <1>4, <1>5, CommandTaken
<1>7. PICK cmd : cmd = q[1]
  OBVIOUS
<1>8. cmd.kind = "release" => cmd.max \in Int /\ cmd.max > NoTime
  <2>1. SUFFICES ASSUME cmd.kind = "release" PROVE cmd.max \in Int /\ cmd.max > NoTime
    OBVIOUS
  <2>2. IsCut(cmd.max) \/ cmd.max = MaxTime
    BY <1>1, <1>4, <1>6, <1>7, <2>1 DEF CmdsInv, Released
  <2>3. MaxTime \in Int /\ MaxTime > NoTime
    BY DEF MaxTime, NoTime
  <2>4. IsCut(cmd.max) => cmd.max \in Times
    BY <1>1, CutTime
  <2>5. QED BY <2>2, <2>3, <2>4, TimeValue DEF Times, NoTime
<1>9. output.max = NoTime \/ IsCut(output.max)
  BY <1>1 DEF CmdsInv, Released
<1>10. output.max \in Int
  BY <1>1, <1>9, CutTime DEF NoTime
<1>11. PICK popped : popped = [output EXCEPT !.cmds = r]
  OBVIOUS
<1>12. /\ DOMAIN popped = {"state", "max", "cmds", "muxed", "ready", "keys"} /\ popped.cmds = r
       /\ popped.max = output.max /\ popped.muxed = output.muxed /\ popped.state = output.state
  BY <1>11 DEF IInv, OutputInv, OutputOK
<1>13. \/ /\ cmd.kind = "release"
          /\ output' = [popped EXCEPT !.max = Greater(output.max, cmd.max), !.state = "output_gop"]
       \/ /\ cmd.kind # "release"
          /\ output' = [popped EXCEPT !.state = IF output.muxed THEN "ending_file" ELSE output.state]
  BY <1>4, <1>5, <1>6, <1>7, <1>11, <1>12 DEF Command
<1>14. CASE cmd.kind = "release"
  <2>1. PICK m : m = Greater(output.max, cmd.max)
    OBVIOUS
  <2>2. m \in Int /\ output.max <= m /\ m # NoTime
    BY <1>8, <1>10, <1>14, <2>1 DEF Greater, NoTime
  <2>3. output' = [popped EXCEPT !.max = m, !.state = "output_gop"]
    BY <1>13, <1>14, <2>1
  <2>4. output'.max = m /\ output'.state = "output_gop" /\ output'.muxed = output.muxed
    BY <1>12, <2>3
  <2>5. QED BY <1>1, <1>2, <1>9, <1>10, <2>2, <2>4
<1>15. CASE cmd.kind # "release"
  <2>1. PICK x : x = IF output.muxed THEN "ending_file" ELSE output.state
    OBVIOUS
  <2>2. output' = [popped EXCEPT !.state = x]
    BY <1>13, <1>15, <2>1
  <2>3. output'.max = output.max /\ output'.state = x /\ output'.muxed = output.muxed
    BY <1>12, <2>2
  <2>4. QED BY <1>1, <1>2, <1>9, <2>1, <2>3
<1>16. QED BY <1>14, <1>15

(* The limit is raised.                                                    *)
LEMMA LimitRaised ==
  ASSUME IInv, FlowInv, Live, LiveOK, UNCHANGED <<input, files>>, NEW t \in Streams,
         mux'[t].eos = mux[t].eos, OutSame(out'[t], out[t]), output.max \in Int,
         output'.max \in Int, output.max <= output'.max, output.state = "awaiting",
         out'[t].pc \in {"send_eos", "push"} => out'[t].pc = out[t].pc,
         out'[t].pc # "command", output'.state # "next_file", ~Opening'
  PROVE  ThreadOK(t)'
<1>1. ThreadOK(t) /\ InputInv
  BY DEF LiveOK, IInv
<1>2. /\ Buffers(t)' = Buffers(t)
      /\ \A n : (Written(t, n)' <=> Written(t, n)) /\ RunTime(t, n)' = RunTime(t, n)
  BY DEF Buffers, Written, UpTo, RunTime
<1>3. \A n \in Buffers(t) : RunTime(t, n) \in Int
  BY <1>1, RunTimeOf, TimeRange
<1>4. \A n \in Buffers(t)' : Written(t, n)' => RunTime(t, n)' < output'.max
  BY <1>1, <1>2, <1>3 DEF ThreadOK
<1>5. ASSUME out'[t].pc = "push", out'[t].item.kind = "buffer"
      PROVE  RunTime(t, out[t].item.n)' < output'.max
  <2>1. PICK n : n = out[t].item.n
    OBVIOUS
  <2>2. RunTime(t, n) < output.max
    BY <1>1, <1>5, <2>1 DEF OutSame, ThreadOK
  <2>3. RunTime(t, n) \in Int
    <3>1. n \in Buffers(t)
      BY <1>5, <2>1, HeldBuffer DEF OutSame, Rest
    <3>2. QED BY <1>3, <3>1
  <2>4. RunTime(t, out[t].item.n)' = RunTime(t, n)'
    BY <2>1 DEF OutSame, RunTime
  <2>5. QED BY <1>2, <2>2, <2>3, <2>4
<1>6. out'[t].pc # "send_eos"
  BY <1>1 DEF ThreadOK
<1>7. ASSUME mux'[t].eos PROVE out'[t].eos /\ out'[t].padEos /\ AtCut(t)'
  <2>1. out'[t].eos /\ out'[t].padEos /\ out[t].padEos /\ AtCut(t)
    BY <1>1, <1>7 DEF ThreadOK, OutSame
  <2>2. \A n \in Buffers(t) : Written(t, n)
    BY <2>1, AllAtEos
  <2>3. \A n \in Buffers(t)' : Written(t, n)' /\ RunTime(t, n)' < output'.max
    BY <1>2, <1>4, <2>2
  <2>4. QED BY <2>1, <2>3 DEF AtCut
<1>8. QED BY <1>4, <1>5, <1>6, <1>7 DEF ThreadOK

LEMMA LiveCommand ==
  ASSUME IInv, FlowInv, GopsInv, Live, OneOut, LiveOK, NEW s \in Streams, Command(s),
         output.cmds # <<>>
  PROVE  LiveOK'
<1>1. /\ UNCHANGED <<input, files, mux, stop>>
      /\ output'.muxed = output.muxed
      /\ output.max = NoTime \/ IsCut(output.max)
      /\ \/ /\ output'.state = "output_gop" /\ output.max \in Int /\ output'.max \in Int
            /\ output.max <= output'.max /\ output'.max # NoTime
         \/ /\ output'.max = output.max
            /\ output'.state = IF output.muxed THEN "ending_file" ELSE output.state
  BY CommandDone
<1>2. PICK p \in {"out", "command"} : OutTo(s, p) /\ (p = "command" <=> output'.state = "awaiting")
  BY CommandDone
<1>3. SwitchOK /\ \A t \in Streams : ThreadOK(t)
  BY DEF LiveOK
<1>4. output.state = "awaiting" /\ out[s].pc \in Locked
  BY <1>3 DEF Command, AtLimit, ThreadOK, Locked
<1>5. \A t \in Streams \ {s} : out[t].pc # "command"
  BY <1>4 DEF OneOut, Locked
<1>6. \A t \in Streams : /\ OutSame(out'[t], out[t]) /\ mux'[t].eos = mux[t].eos
                         /\ out'[t].pc \in {"send_eos", "push"} => out'[t].pc = out[t].pc
                         /\ out'[t].pc = "command" => t = s
  BY <1>1, <1>2, <1>5 DEF OutTo, OutWoke
<1>7. ~out'[Ref].padEos /\ out'[Ref].pc \notin Switching
  BY <1>2, <1>3, <1>4, <1>6, SplitMuxAssumption DEF SwitchOK, OutTo, OutSame, OutWoke, Switching
<1>8. ~Opening' /\ output'.state \in {"output_gop", "ending_file", "awaiting"}
  BY <1>1, <1>4, <1>7 DEF Opening, Switching
<1>9. ASSUME NEW t \in Streams PROVE ThreadOK(t)'
  <2>1. CASE output'.state = "output_gop"
    <3>1. output.max \in Int /\ output'.max \in Int /\ output.max <= output'.max
      BY <1>1, <1>4, <2>1
    <3>2. out'[t].pc # "command"
      BY <1>2, <1>6, <2>1 DEF OutTo
    <3>3. QED BY <1>1, <1>4, <1>6, <1>8, <2>1, <3>1, <3>2, LimitRaised
  <2>2. CASE output'.state # "output_gop"
    <3>1. output'.max = output.max
      BY <1>1, <2>2
    <3>2. out'[t].pc = "push" /\ out'[t].item.kind = "buffer" =>
            RunTime(t, out'[t].item.n) < output.max
      BY <1>3, <1>6 DEF ThreadOK, OutSame
    <3>3. out'[t].pc # "send_eos"
      BY <1>3, <1>4, <1>6 DEF ThreadOK
    <3>4. mux'[t].eos => AtCut(t) /\ out'[t].padEos /\ out'[t].eos
      BY <1>3, <1>4, <1>6 DEF ThreadOK, OutSame
    <3>5. out'[t].pc = "command" => output'.state = "awaiting"
      BY <1>2, <1>6 DEF OutTo
    <3>6. QED BY <1>1, <1>3, <1>8, <3>1, <3>2, <3>3, <3>4, <3>5, ThreadMoved
  <2>3. QED BY <2>1, <2>2
<1>10. SwitchOK'
  <2>1. ASSUME output'.state = "ending_file" PROVE IsCut(output.max)'
    <3>1. output'.max = output.max /\ output.muxed
      BY <1>1, <1>4, <2>1
    <3>2. IsCut(output.max)
      BY <1>1, <1>3, <3>1 DEF SwitchOK
    <3>3. QED BY <1>1, <3>1, <3>2, CutsKept
  <2>2. output'.muxed => output'.max # NoTime
    BY <1>1, <1>3 DEF SwitchOK
  <2>3. QED BY <1>7, <1>8, <2>1, <2>2 DEF SwitchOK
<1>11. QED BY <1>9, <1>10 DEF LiveOK

(* When the reference stream ends, the last GOP has been let go.           *)
LEMMA EosHasNoCut ==
  ASSUME Regular, IInv, GopsInv, Live, LiveOK, \A n \in Buffers(Ref) : Written(Ref, n)
  PROVE  output.max = MaxTime /\ ~IsCut(output.max) /\ files # <<>>
<1> USE SplitMuxAssumption
<1>1. PICK N \in Nat : N = Len(input[Ref]) /\ N >= 1 /\ N \in Buffers(Ref)
  <2>1. PICK S : S = [pts : Times, dts : Times, key : BOOLEAN]
    OBVIOUS
  <2>2. input[Ref] \in Seq(S) /\ input[Ref] # <<>>
    BY <2>1, Counted DEF IInv, InputInv
  <2>3. Len(input[Ref]) \in Nat /\ Len(input[Ref]) # 0
    BY <2>2
  <2>4. QED BY <2>3 DEF Buffers
<1>2. Written(Ref, N) /\ RunTime(Ref, N) < output.max /\ RunTime(Ref, N) \in Times
  BY <1>1, RunTimeOf DEF LiveOK, ThreadOK, IInv
<1>3. files # <<>>
  BY <1>2 DEF Written, UpTo
<1>4. ~IsCut(output.max)
  <2>1. SUFFICES ASSUME NEW g \in Buffers(Ref), Keyframe(g), output.max = GopStart(g) PROVE FALSE
    BY DEF IsCut
  <2>2. N < g
    BY <1>1, <1>2, <2>1, CutParts DEF IInv
  <2>3. QED BY <1>1, <2>2 DEF Buffers
<1>5. output.max # NoTime
  BY <1>2 DEF Times, NoTime
<1>6. output.max = MaxTime
  BY <1>4, <1>5 DEF GopsInv, CmdsInv, Released
<1>7. QED BY <1>3, <1>4, <1>6

LEMMA LiveEos ==
  ASSUME Regular, IInv, FlowInv, GopsInv, Live, LiveOK, Probe(Ref),
         NEW x \in Items(Ref), Probed(Ref, x), x.kind = "eos"
  PROVE  LiveOK'
<1> USE SplitMuxAssumption
<1>1. x = Head(queue[Ref].items) /\ UNCHANGED <<input, files, mux, stop, in>> /\ Free
  BY ProbeUnseen DEF Probed, Probe
<1>2. SwitchOK /\ \A t \in Streams : ThreadOK(t)
  BY DEF LiveOK
<1>3. output'.max = output.max /\ output'.muxed = output.muxed /\ output'.state = "ending_stream"
  BY <1>1, <1>2, ProbeOutput DEF SwitchOK
<1>4. out'[Ref].pc = "out" /\ out'[Ref].eos /\ out'[Ref].padEos
  BY <1>2, ProbeAtEos DEF Probed, SwitchOK
<1>5. \A n \in Buffers(Ref) : Written(Ref, n)
  <2>1. PICK b \in [0 .. Len(files) -> Nat] : FileRun(Ref, b) /\ b[Len(files)] = Len(input[Ref])
    BY <1>1, FlowProbe
  <2>2. FilesOK /\ Len(files) \in 0 .. Len(files)
    BY DEF FlowInv, FilesOK
  <2>3. ASSUME NEW n \in Buffers(Ref) PROVE Written(Ref, n)
    <3>1. n \in Nat /\ n \in 1 .. b[Len(files)]
      BY <2>1 DEF Buffers
    <3>2. QED BY <2>1, <2>2, <3>1, UpToCount DEF Written
  <2>4. QED BY <2>3
<1>6. output.max = MaxTime /\ ~IsCut(output.max) /\ files # <<>>
  BY <1>5, EosHasNoCut
<1>7. output.state \notin {"ending_file", "next_file"}
  BY <1>2, <1>6 DEF SwitchOK, Probed, Opening
<1>8. ~Opening'
  BY <1>4 DEF Opening
<1>9. ThreadOK(Ref)'
  BY <1>1, <1>2, <1>3, <1>4, <1>8, ThreadMoved DEF ThreadOK
<1>10. ASSUME NEW t \in Streams \ {Ref} PROVE ThreadOK(t)'
  <2>1. OutSame(out'[t], out[t]) /\ OutWoke(out[t].pc, out'[t].pc) /\ mux'[t].eos = mux[t].eos
    BY <1>1 DEF Probed
  <2>2. out[t].pc \notin {"send_eos", "command"}
    BY <1>1, <1>2, <1>7 DEF Free, Locked, ThreadOK
  <2>3. mux[t].eos => out[t].padEos
    BY <1>2, <1>7 DEF ThreadOK
  <2>4. QED BY <1>1, <1>2, <1>3, <1>8, <2>1, <2>2, <2>3, ThreadStays
<1>11. SwitchOK'
  BY <1>2, <1>3, <1>4, <1>6 DEF SwitchOK, Switching
<1>12. QED BY <1>9, <1>10, <1>11 DEF LiveOK

(* The muxer has the EOS of all streams: they are all at the cut.          *)
LEMMA LiveFileEnds ==
  ASSUME IInv, FlowInv, LiveOK, OneOut, FileEnds, output.state # "ending_stream"
  PROVE  LiveOK'
<1> USE SplitMuxAssumption
<1>1. /\ UNCHANGED <<input, files, mux>> /\ output' = [output EXCEPT !.state = "next_file"]
      /\ out' = WakeOutput(out) /\ MuxerReady /\ Waiting = {}
  BY DEF FileEnds, appVars
<1>2. output'.max = output.max /\ output'.state = "next_file" /\ output'.muxed = output.muxed
  BY <1>1 DEF IInv, OutputInv, OutputOK
<1>3. \A t \in Streams : mux[t].eos
  BY <1>1 DEF MuxerReady, Waiting
<1>4. SwitchOK /\ \A t \in Streams : ThreadOK(t)
  BY DEF LiveOK
<1>5. ~out[Ref].padEos
  BY <1>4 DEF SwitchOK
<1>6. output.state \in {"ending_file", "next_file"} /\ out[Ref].pc \notin {"opened", "async_done"}
  BY <1>3, <1>4, <1>5 DEF ThreadOK, Opening
<1>7. \A t \in Streams : OutSame(out'[t], out[t]) /\ OutWoke(out[t].pc, out'[t].pc)
  BY <1>1, OutStays DEF IInv, OutputInv, OutOK, WokenOut
<1>8. ~Opening'
  BY <1>6, <1>7 DEF Opening, OutWoke
<1>9. ASSUME NEW t \in Streams PROVE ThreadOK(t)'
  <2>1. AtCut(t) /\ out[t].pc # "send_eos"
    BY <1>3, <1>4 DEF ThreadOK
  <2>2. out[t].pc # "command"
    BY <1>4, <1>6 DEF ThreadOK
  <2>3. QED BY <1>1, <1>2, <1>4, <1>7, <1>8, <2>1, <2>2, ThreadStays
<1>10. files # <<>>
  BY <1>3 DEF FlowInv, Empty
<1>11. SwitchOK'
  <2>1. out'[Ref].padEos = out[Ref].padEos
    BY <1>7 DEF OutSame
  <2>2. IsCut(output.max) \/ out[Ref].pc = "done"
    BY <1>4, <1>6, <1>10 DEF SwitchOK, Opening
  <2>3. IsCut(output.max)' <=> IsCut(output.max)
    BY <1>1, <1>2, CutsKept
  <2>4. out[Ref].pc = "done" => out'[Ref].pc = "done"
    BY <1>7 DEF OutWoke
  <2>5. QED BY <1>2, <1>4, <1>5, <2>1, <2>2, <2>3, <2>4 DEF SwitchOK
<1>12. QED BY <1>9, <1>11 DEF LiveOK

(* The pads of the new file are at EOS if their streams are.               *)
LEMMA LiveRestart ==
  ASSUME IInv, FlowInv, LiveOK, OneOut, NEW s \in Streams, StartFile(s), Restart(s)
  PROVE  LiveOK'
<1> USE SplitMuxAssumption
<1>1. /\ UNCHANGED <<input, files>> /\ out[s].pc \in {"opened", "async_done"} /\ Free
  BY DEF StartFile, appVars
<1>2. s = Ref
  BY <1>1 DEF OneOut, Switching
<1>3. output'.max = output.max /\ output'.state = "awaiting" /\ output'.muxed = output.muxed
  BY DEF Restart, IInv, OutputInv, OutputOK
<1>4. \A t \in Streams : mux'[t].eos = (mux[t].eos \/ out[t].padEos)
  BY DEF Restart, IInv, OutputInv, MuxOK
<1>5. /\ out'[s].pc = "out"
      /\ \A t \in Streams : /\ out'[t].item = out[t].item /\ out'[t].rt = out[t].rt
                            /\ out'[t].padEos = out[t].padEos /\ out'[t].eos = out[t].padEos
                            /\ t # s => OutWoke(out[t].pc, out'[t].pc)
  BY Restarted DEF IInv, OutputInv, OutOK
<1>6. SwitchOK /\ \A t \in Streams : ThreadOK(t)
  BY DEF LiveOK
<1>7. output.state = "next_file" /\ Opening
  BY <1>1, <1>2, <1>6 DEF SwitchOK, Opening, Switching
<1>8. ~out[Ref].padEos
  BY <1>6, <1>7 DEF SwitchOK
<1>9. ~Opening'
  BY <1>2, <1>5 DEF Opening
<1>10. ASSUME NEW t \in Streams PROVE ThreadOK(t)'
  <2>1. AtCut(t) /\ (mux[t].eos => out[t].padEos)
    BY <1>6, <1>7 DEF ThreadOK
  <2>2. out[t].pc \notin {"send_eos", "command"}
    BY <1>6, <1>7 DEF ThreadOK
  <2>3. out'[t].pc \notin {"send_eos", "command"}
    BY <1>5, <2>2 DEF OutWoke
  <2>4. out'[t].pc = "push" => out[t].pc = "push"
    BY <1>5 DEF OutWoke
  <2>5. out'[t].pc = "push" /\ out'[t].item.kind = "buffer" => RunTime(t, out'[t].item.n) < output.max
    BY <1>5, <1>6, <2>4 DEF ThreadOK
  <2>6. mux'[t].eos => out'[t].eos /\ out'[t].padEos
    BY <1>4, <1>5, <2>1
  <2>7. QED BY <1>1, <1>3, <1>6, <1>9, <2>1, <2>3, <2>5, <2>6, ThreadMoved
<1>11. SwitchOK'
  BY <1>2, <1>3, <1>5, <1>6, <1>8 DEF SwitchOK, Switching
<1>12. QED BY <1>10, <1>11 DEF LiveOK

LEMMA LiveOpenFile ==
  ASSUME IInv, FlowInv, LiveOK, OneOut, NEW s \in Streams, OpenFile(s)
  PROVE  LiveOK'
<1> USE SplitMuxAssumption DEF muxVars, appVars
<1>1. out[s].pc = "switch" /\ UNCHANGED input /\ OutGood(out) /\ FilesOK
  BY DEF OpenFile, IInv, OutputInv, OutOK, FlowInv
<1>2. s = Ref
  BY <1>1 DEF OneOut, Switching
<1>3. SwitchOK /\ \A t \in Streams : ThreadOK(t)
  BY DEF LiveOK
<1>4. output.state = "next_file" /\ ~out[Ref].padEos
  BY <1>1, <1>2, <1>3 DEF SwitchOK, Switching
<1>5. CASE stop # "no"
  <2>1. out' = At(out, s, "done") /\ UNCHANGED <<output, mux, files>>
    BY <1>5 DEF OpenFile
  <2>2. OutTo(s, "done")
    BY <1>1, <2>1, OutGoes DEF WokenOut
  <2>3. output'.max = output.max /\ output'.state = output.state /\ output'.muxed = output.muxed
    BY <2>1
  <2>4. QED BY <1>1, <2>1, <2>2, <2>3, LiveMoved DEF Switching
<1>6. CASE stop = "no"
  <2>1. /\ mux' = [t \in Streams |-> [buf |-> 0, eos |-> FALSE]]
        /\ files' = Append(files, [t \in Streams |-> <<>>])
        /\ output' = [output EXCEPT !.muxed = FALSE]
    BY <1>6 DEF OpenFile
  <2>2. PICK p \in {"opened", "done"} : out' = At(out, s, p)
    BY <1>6 DEF OpenFile
  <2>3. OutTo(s, p)
    BY <1>1, <2>2, OutGoes DEF WokenOut
  <2>4. output'.max = output.max /\ output'.state = "next_file" /\ output'.muxed = FALSE
    BY <1>4, <2>1 DEF IInv, OutputInv, OutputOK
  <2>5. ASSUME NEW t \in Streams PROVE ThreadOK(t)'
    <3>1. ThreadOK(t) /\ AtCut(t)
      BY <1>3, <1>4 DEF ThreadOK
    <3>2. Buffers(t)' = Buffers(t) /\ \A n : RunTime(t, n)' = RunTime(t, n)
      BY <1>1 DEF Buffers, RunTime
    <3>3. \A n : Written(t, n)' <=> Written(t, n)
      BY <1>1, <2>1, WrittenOpened
    <3>4. AtCut(t)' /\ \A n \in Buffers(t)' : Written(t, n)' => RunTime(t, n)' < output'.max
      BY <2>4, <3>1, <3>2, <3>3 DEF AtCut
    <3>5. OutSame(out'[t], out[t]) /\ (OutWoke(out[t].pc, out'[t].pc) \/ out'[t].pc \in {"opened", "done"})
      BY <2>3 DEF OutTo
    <3>6. out'[t].pc = "push" => out[t].pc = "push"
      BY <3>5 DEF OutWoke
    <3>7. ASSUME out'[t].pc = "push", out'[t].item.kind = "buffer"
          PROVE  RunTime(t, out[t].item.n)' < output'.max
      <4>1. PICK n : n = out[t].item.n
        OBVIOUS
      <4>2. RunTime(t, out[t].item.n)' = RunTime(t, n)'
        BY <3>5, <4>1 DEF OutSame, RunTime
      <4>3. RunTime(t, n) < output.max
        BY <3>1, <3>5, <3>6, <3>7, <4>1 DEF OutSame, ThreadOK
      <4>4. QED BY <2>4, <3>2, <4>2, <4>3
    <3>8. out'[t].pc \notin {"send_eos", "command"}
      BY <1>4, <3>1, <3>5 DEF OutWoke, ThreadOK
    <3>9. ~mux'[t].eos
      BY <2>1
    <3>10. QED BY <3>4, <3>7, <3>8, <3>9 DEF ThreadOK
  <2>6. SwitchOK'
    <3>1. out'[Ref].pc = p /\ ~out'[Ref].padEos
      BY <1>2, <1>4, <2>3 DEF OutTo, OutSame
    <3>2. QED BY <2>4, <3>1 DEF SwitchOK, Opening
  <2>7. QED BY <2>5, <2>6 DEF LiveOK
<1>7. QED BY <1>5, <1>6

LEMMA LivePushEos ==
  ASSUME IInv, FlowInv, Live, LiveOK, NEW s \in Streams, Push(s), out[s].item.kind # "buffer"
  PROVE  LiveOK'
<1> USE SplitMuxAssumption DEF muxVars, appVars
<1>1. /\ out[s].pc = "push" /\ UNCHANGED <<input, output, files>> /\ OutGood(out) /\ MuxOK
      /\ mux' = [mux EXCEPT ![s].eos = TRUE] /\ out' = At(out, s, "done")
  BY DEF Push, IInv, OutputInv, OutOK
<1>2. SwitchOK /\ \A t \in Streams : ThreadOK(t)
  BY DEF LiveOK
<1>3. output'.max = output.max /\ output'.state = output.state /\ output'.muxed = output.muxed
  BY <1>1
<1>4. OutTo(s, "done")
  BY <1>1, OutGoes DEF WokenOut
<1>5. out[s].eos /\ out[s].padEos
  BY <1>1, HeldOther DEF Rest
<1>6. AtCut(s)
  <2>1. \A n \in Buffers(s) : Written(s, n)
    BY <1>5, AllAtEos
  <2>2. QED BY <1>2, <2>1 DEF AtCut, ThreadOK
<1>7. Opening' => Opening /\ s # Ref
  BY <1>4 DEF OutTo, OutWoke, Opening
<1>8. ThreadOK(s)'
  <2>1. out'[s].pc = "done" /\ out'[s].eos /\ out'[s].padEos
    BY <1>4, <1>5 DEF OutTo, OutSame
  <2>2. QED BY <1>1, <1>2, <1>3, <1>6, <2>1, ThreadMoved
<1>9. ASSUME NEW t \in Streams \ {s} PROVE ThreadOK(t)'
  <2>1. OutSame(out'[t], out[t]) /\ OutWoke(out[t].pc, out'[t].pc) /\ mux'[t].eos = mux[t].eos
    BY <1>1, <1>4 DEF OutTo, MuxOK
  <2>2. ThreadOK(t)
    BY <1>2
  <2>3. /\ mux[t].eos => output'.state \in {"ending_file", "next_file"} \/ out[t].padEos
        /\ output'.state = "next_file" => AtCut(t)
        /\ Opening' /\ mux[t].eos => out[t].padEos
    BY <1>3, <1>7, <2>2 DEF ThreadOK
  <2>4. QED BY <1>1, <1>3, <2>1, <2>2, <2>3, ThreadStays
<1>10. SwitchOK'
  <2>1. IsCut(output.max)' <=> IsCut(output.max)
    BY <1>1, <1>3, CutsKept
  <2>2. out'[Ref].padEos = out[Ref].padEos
    BY <1>4 DEF OutTo, OutSame
  <2>3. out'[Ref].pc = "done" \/ OutWoke(out[Ref].pc, out'[Ref].pc)
    BY <1>4 DEF OutTo
  <2>4. QED BY <1>1, <1>2, <1>3, <2>1, <2>2, <2>3 DEF SwitchOK, Opening, OutWoke, Switching
<1>11. QED BY <1>8, <1>9, <1>10 DEF LiveOK

LEMMA LivePushBuffer ==
  ASSUME IInv, FlowInv, Live, LiveOK, NEW s \in Streams, Push(s), out[s].item.kind = "buffer"
  PROVE  LiveOK'
<1> USE SplitMuxAssumption DEF muxVars, appVars
<1>1. /\ out[s].pc = "push" /\ UNCHANGED <<input, output>> /\ OutGood(out) /\ FilesOK /\ MuxOK
      /\ InputInv
  BY DEF Push, IInv, OutputInv, OutOK, FlowInv
<1>2. SwitchOK /\ \A t \in Streams : ThreadOK(t)
  BY DEF LiveOK
<1>3. files # <<>> /\ Pushes(s)
  BY <1>1 DEF FlowInv, Empty, Push, Pushes
<1>4. output'.max = output.max /\ output'.state = output.state /\ output'.muxed = output.muxed
  BY <1>1
<1>5. OutTo(s, "idle")
  BY <1>1, <1>3, OutGoes DEF WokenOut, Pushes
<1>6. PICK k \in Buffers(s) : /\ k = out[s].item.n
                              /\ \A m \in Buffers(s) : Written(s, m) <=> m < k
  BY <1>1, HeldBuffer DEF Rest
<1>7. RunTime(s, k) < output.max /\ ~Written(s, k)
  <2>1. ~(k < k)
    BY <1>1, Counted DEF Buffers
  <2>2. QED BY <1>1, <1>2, <1>6, <2>1 DEF ThreadOK
<1>8. ~AtCut(s)
  BY <1>7 DEF AtCut
<1>9. output.state # "next_file" /\ ~mux[s].eos
  BY <1>2, <1>8 DEF ThreadOK
<1>10. out[Ref].pc \notin Switching
  BY <1>2, <1>9 DEF SwitchOK
<1>11. ~Opening' /\ out'[Ref].pc \notin Switching
  BY <1>5, <1>10 DEF OutTo, OutWoke, Opening, Switching
<1>12. \A t \in Streams : mux'[t].eos = mux[t].eos
  BY <1>1, <1>3 DEF Push, MuxOK
<1>13. \A t \in Streams : Buffers(t)' = Buffers(t) /\ \A n : RunTime(t, n)' = RunTime(t, n)
  BY <1>1 DEF Buffers, RunTime
<1>14. ThreadOK(s)'
  <2>1. \A n : Written(s, n)' <=> Written(s, n) \/ n = k
    <3>1. IInv /\ FilesOK
      BY <1>1
    <3>2. QED BY <1>3, <1>6, <3>1, WrittenPushed
  <2>2. \A n \in Buffers(s)' : Written(s, n)' => RunTime(s, n)' < output'.max
    BY <1>2, <1>4, <1>7, <1>13, <2>1 DEF ThreadOK
  <2>3. out'[s].pc = "idle" /\ ~mux'[s].eos
    BY <1>5, <1>9, <1>12 DEF OutTo
  <2>4. QED BY <1>4, <1>9, <2>2, <2>3 DEF ThreadOK
<1>15. ASSUME NEW t \in Streams \ {s} PROVE ThreadOK(t)'
  <2>1. OutSame(out'[t], out[t]) /\ OutWoke(out[t].pc, out'[t].pc) /\ ThreadOK(t)
    BY <1>2, <1>5 DEF OutTo
  <2>2. FilesSame(t)
    BY <1>1, <1>3, FilesPushed
  <2>3. \A n : Written(t, n)' <=> Written(t, n)
    BY <1>1, <2>2, WrittenSame
  <2>4. AtCut(t)' <=> AtCut(t)
    BY <1>4, <1>13, <2>3 DEF AtCut
  <2>5. \A n \in Buffers(t)' : Written(t, n)' => RunTime(t, n)' < output'.max
    BY <1>4, <1>13, <2>1, <2>3 DEF ThreadOK
  <2>6. ASSUME out'[t].pc = "push", out'[t].item.kind = "buffer"
        PROVE  RunTime(t, out[t].item.n)' < output'.max
    <3>1. PICK n : n = out[t].item.n
      OBVIOUS
    <3>2. RunTime(t, out[t].item.n)' = RunTime(t, n)'
      BY <2>1, <3>1 DEF OutSame, RunTime
    <3>3. RunTime(t, n) < output.max
      BY <2>1, <2>6, <3>1 DEF OutSame, OutWoke, ThreadOK
    <3>4. QED BY <1>4, <1>13, <3>2, <3>3
  <2>7. QED BY <1>4, <1>9, <1>11, <1>12, <2>1, <2>4, <2>5, <2>6 DEF ThreadOK, OutSame, OutWoke
<1>16. SwitchOK'
  <2>1. PICK m : m = output.max
    OBVIOUS
  <2>2. IsCut(m)' <=> IsCut(m)
    BY <1>1, CutKept
  <2>3. IsCut(output.max)' <=> IsCut(output.max)
    BY <1>4, <2>1, <2>2 DEF IsCut
  <2>4. out'[Ref].padEos = out[Ref].padEos
    BY <1>5 DEF OutTo, OutSame
  <2>5. QED BY <1>2, <1>4, <1>9, <1>11, <2>3, <2>4 DEF SwitchOK
<1>17. QED BY <1>14, <1>15, <1>16 DEF LiveOK

LEMMA LiveOutput ==
  ASSUME Regular, IInv, FlowInv, GopsInv, OneOut, Live, LiveOK, NEW s \in Streams, Output(s)
  PROVE  LiveOK'
<1>1. CASE Probe(s)
  <2>1. PICK x \in Items(s) : Probed(s, x)
    BY <1>1, ProbeOut
  <2>2. CASE s = Ref /\ x.kind = "eos"
    BY <1>1, <2>1, <2>2, LiveEos
  <2>3. CASE s # Ref \/ x.kind # "eos"
    BY <1>1, <2>1, <2>3, LiveProbe
  <2>4. QED BY <2>2, <2>3
<1>2. CASE Command(s)
  <2>1. CASE output.cmds = <<>>
    BY <1>2, <2>1, LivePlain
  <2>2. CASE output.cmds # <<>>
    BY <1>2, <2>2, LiveCommand
  <2>3. QED BY <2>1, <2>2
<1>3. CASE StartFile(s)
  <2>1. CASE Restart(s)
    BY <1>3, <2>1, LiveRestart
  <2>2. CASE out' = At(out, s, "async_done")
    BY <1>3, <2>2, LivePlain
  <2>3. QED BY <1>3, <2>1, <2>2 DEF StartFile
<1>4. CASE Push(s)
  BY <1>4, LivePushEos, LivePushBuffer
<1>5. CASE Send(s)
  BY <1>5, LiveSend
<1>6. CASE EndFile(s)
  BY <1>6, LiveEndFile
<1>7. CASE SendEos(s)
  BY <1>7, LiveSendEos
<1>8. CASE OpenFile(s)
  BY <1>8, LiveOpenFile
<1>9. CASE Underrun(s) \/ Sleep(s) \/ WakeOut(s) \/ SwitchFile(s) \/ GopIsOut(s) \/ Flushed(s)
  BY <1>9, LivePlain
<1>10. QED BY <1>1, <1>2, <1>3, <1>4, <1>5, <1>6, <1>7, <1>8, <1>9 DEF Output

LEMMA LiveNext ==
  ASSUME Regular, IInv, FlowInv, GopsInv, OneOut, Live, LiveOK, [Next]_vars, Live'
  PROVE  LiveOK'
<1> USE DEF outputVars, muxVars, appVars
<1>1. ASSUME UNCHANGED <<input, files>>, WokenOut(out), output'.state = output.state,
             output'.max = output.max, output'.muxed = output.muxed,
             \A t \in Streams : mux'[t].eos = mux[t].eos
      PROVE  LiveOK'
  BY <1>1, LiveUnseen
<1>2. ASSUME NEW s \in Streams, Input(s) PROVE LiveOK'
  BY <1>1, <1>2, InputShape
<1>3. ASSUME NEW s \in Streams, Output(s) PROVE LiveOK'
  BY <1>3, LiveOutput
<1>4. ASSUME NEW s \in Streams, Deactivate(s) PROVE LiveOK'
  BY <1>4 DEF Deactivate, Live
<1>5. CASE Mux
  <2>1. \A t \in Streams : mux'[t].eos = mux[t].eos
    BY <1>5 DEF Mux, IInv, OutputInv, MuxOK
  <2>2. QED BY <1>1, <1>5, <2>1 DEF Mux, WokenOut
<1>6. CASE FileEnds
  <2>1. CASE output.state # "ending_stream"
    BY <1>6, <2>1, LiveFileEnds
  <2>2. CASE output.state = "ending_stream"
    BY <1>1, <1>6, <2>2 DEF FileEnds, WokenOut
  <2>3. QED BY <2>1, <2>2
<1>7. CASE Split \/ Shutdown
  BY <1>1, <1>7 DEF Split, Shutdown, WokenOut
<1>8. CASE Stop
  BY <1>8 DEF Stop, Live
<1>9. CASE UNCHANGED vars
  BY <1>1, <1>9 DEF vars, WokenOut
<1>10. QED BY <1>2, <1>3, <1>4, <1>5, <1>6, <1>7, <1>8, <1>9 DEF Next

(* The files only grow.                                                    *)
LEMMA FilesNext ==
  ASSUME IInv, FlowInv, [Next]_vars
  PROVE  \/ UNCHANGED files
         \/ \E s \in Streams : OpenFile(s) /\ files' = Append(files, [t \in Streams |-> <<>>])
         \/ \E s \in Streams : Push(s) /\ Pushes(s)
<1> USE DEF outputVars, muxVars, appVars
<1>1. ASSUME NEW s \in Streams, Output(s)
      PROVE  \/ UNCHANGED files
             \/ OpenFile(s) /\ files' = Append(files, [t \in Streams |-> <<>>])
             \/ Push(s) /\ Pushes(s)
  <2>1. CASE OpenFile(s)
    BY <2>1 DEF OpenFile
  <2>2. CASE Push(s)
    <3>1. files # <<>>
      BY <2>2 DEF Push, FlowInv, Empty
    <3>2. QED BY <2>2, <3>1 DEF Push, Pushes
  <2>3. QED BY <1>1, <2>1, <2>2, OutputShape
<1>2. ASSUME NEW s \in Streams, Input(s) PROVE UNCHANGED files
  BY <1>2, InputShape
<1>3. QED BY <1>1, <1>2 DEF Next, Deactivate, Mux, FileEnds, Split, Shutdown, Stop, vars

LEMMA WrittenGrows ==
  ASSUME IInv, FlowInv, [Next]_vars, NEW s \in Streams, NEW n, Written(s, n)
  PROVE  Written(s, n)'
<1>1. FilesOK
  BY DEF FlowInv
<1>2. CASE UNCHANGED files
  BY <1>2 DEF Written, UpTo
<1>3. CASE files' = Append(files, [t \in Streams |-> <<>>])
  BY <1>1, <1>3, WrittenOpened
<1>4. ASSUME NEW u \in Streams, Pushes(u) PROVE Written(s, n)'
  <2>1. CASE u = s
    BY <1>1, <1>4, <2>1, WrittenPushed
  <2>2. CASE u # s
    <3>1. FilesSame(s)
      BY <1>1, <1>4, <2>2, FilesPushed
    <3>2. QED BY <1>1, <3>1, WrittenSame
  <2>3. QED BY <2>1, <2>2
<1>5. QED BY <1>2, <1>3, <1>4, FilesNext

-----------------------------------------------------------------------------
(* After a stop no command is left, and no file is begun.                  *)

Stopping == {"out", "command", "cmdwait", "cmdwoken"}

LEMMA StoppedInput ==
  ASSUME IInv, Stopped, NEW s \in Streams, Input(s)
  PROVE  output'.cmds = <<>> /\ collect'.state = "stopped"
<1> USE DEF outputVars, muxVars, appVars
<1>1. collect.state = "stopped" /\ output.cmds = <<>> /\ in[s].pc # "collect"
  BY DEF Stopped, IInv, InputInv, PcInv, PcOf
<1>2. UNCHANGED output \/ \E k : output' = [output EXCEPT !.keys = k]
  BY <1>1 DEF Input, Arrive, CollectReference, CollectOther, PassUncollected, Unblock, AfterUnblock,
     CollectGop, WakeIn, Pass, InputEos, Enqueue, Overrun, ReadLimit, SetLimit
<1>3. output'.cmds = <<>>
  BY <1>1, <1>2 DEF IInv, OutputInv, OutputOK
<1>4. UNCHANGED collect
  BY <1>1 DEF Input, Arrive, CollectReference, CollectOther, PassUncollected, Unblock, AfterUnblock,
     CollectGop, WakeIn, Pass, InputEos, Enqueue, Overrun, ReadLimit, SetLimit
<1>5. QED BY <1>1, <1>3, <1>4

LEMMA StoppedOutput ==
  ASSUME IInv, Stopped, OneOut, ~Live, NEW s \in Streams, Output(s)
  PROVE  Stopped'
<1> USE SplitMuxAssumption DEF outputVars, muxVars, appVars
<1>1. /\ output.max = NoTime /\ output.cmds = <<>> /\ collect.state = "stopped" /\ stop # "no"
      /\ OutGood(out) /\ \A t \in Streams : ~InTime(t)
  BY DEF Stopped, Live, IInv, OutputInv, OutOK, InTime
<1>2. UNCHANGED collect
  BY OutputShape
<1>3. output'.max = NoTime /\ output'.cmds = <<>>
  <2>1. Command(s) => UNCHANGED output
    BY <1>1 DEF Command
  <2>2. QED BY <1>1, <2>1, OutputCommands
<1>4. SUFFICES \/ output'.state = "stopped" \/ drained'
               \/ output'.state = "awaiting" /\ out'[Ref].pc \in Stopping
  BY <1>1, <1>2, <1>3 DEF Stopped, Stopping
<1>5. drained' = drained
  BY <1>1 DEF Output, Underrun, Probe, Flushed, Send, GopIsOut, EndFile, SendEos, Sleep, Command,
     WakeOut, SwitchFile, OpenFile, StartFile, Push
<1>6. CASE StartFile(s) /\ Restart(s)
  <2>1. s = Ref
    BY <1>6 DEF StartFile, OneOut, Switching
  <2>2. output'.state = "awaiting"
    BY <1>6 DEF Restart, IInv, OutputInv, OutputOK
  <2>3. out'[s].pc = "out"
    BY <1>1, <1>6, Restarted
  <2>4. QED BY <2>1, <2>2, <2>3 DEF Stopping
<1>7. CASE drained
  BY <1>5, <1>7
<1>8. CASE ~(StartFile(s) /\ Restart(s)) /\ output.state = "stopped"
  <2>1. output'.state = "stopped"
    <3>1. CASE Probe(s)
      BY <1>8, <3>1, ProbeOutput
    <3>2. CASE Send(s) \/ GopIsOut(s)
      BY <1>8, <3>2 DEF Send, GopIsOut, AtLimit
    <3>3. CASE UNCHANGED output
      BY <1>8, <3>3
    <3>4. QED BY <1>1, <1>8, <3>1, <3>2, <3>3
          DEF Output, Underrun, Flushed, EndFile, SendEos, Sleep, Command, WakeOut, SwitchFile,
              OpenFile, StartFile, Push
  <2>2. QED BY <2>1
<1>9. CASE ~(StartFile(s) /\ Restart(s)) /\ ~drained /\ output.state = "awaiting"
           /\ out[Ref].pc \in Stopping
  <2>1. CASE s = Ref
    <3>1. CanOutput(s)
      BY <2>1 DEF CanOutput
    <3>2. Command(s) \/ WakeOut(s)
      BY <1>1, <1>9, <2>1, <3>1 DEF Stopping, Output, Underrun, Probe, Flushed, Send, GopIsOut,
         EndFile, SendEos, Sleep, SwitchFile, OpenFile, StartFile, Push, AtLimit
    <3>3. UNCHANGED output /\ \E p \in Stopping : out' = At(out, s, p)
      BY <1>1, <1>9, <3>2 DEF Command, WakeOut, Stopping
    <3>4. out'[s].pc \in Stopping
      BY <1>1, <3>3 DEF At, OutGood
    <3>5. QED BY <1>9, <2>1, <3>3, <3>4
  <2>2. CASE s # Ref
    <3>1. out'[Ref].pc \in Stopping
      BY <1>9, <2>2, OutputOthers DEF OutWoke, Stopping
    <3>2. output'.state = "awaiting"
      <4>1. CASE Probe(s)
        BY <1>9, <2>2, <4>1, ProbeOutput
      <4>2. CASE Send(s) \/ GopIsOut(s)
        BY <1>1, <1>9, <4>2 DEF Send, GopIsOut, AtLimit
      <4>3. CASE UNCHANGED output
        BY <1>9, <4>3
      <4>4. QED BY <1>1, <1>9, <4>1, <4>2, <4>3
            DEF Output, Underrun, Flushed, EndFile, SendEos, Sleep, Command, WakeOut, SwitchFile,
                OpenFile, StartFile, Push
    <3>3. QED BY <3>1, <3>2
  <2>3. QED BY <2>1, <2>2
<1>10. QED BY <1>6, <1>7, <1>8, <1>9 DEF Stopped, Stopping

LEMMA StoppedNext ==
  ASSUME IInv, OneOut, ~Live => Stopped, [Next]_vars, ~Live'
  PROVE  Stopped'
<1> USE SplitMuxAssumption DEF outputVars, muxVars, appVars
<1>1. CASE Stop
  BY <1>1 DEF Stop, Reset, Stopped
<1>2. CASE ~Stop
  <2>1. stop = "stopped" /\ ~Live /\ Stopped /\ ~Split /\ ~Shutdown /\ OutGood(out)
    <3>1. stop' = stop \/ Shutdown
      BY <1>2, InputShape, OutputShape DEF Next, Deactivate, Mux, FileEnds, Split, vars
    <3>2. Shutdown => stop' # "stopped"
      BY DEF Shutdown
    <3>3. QED BY <3>1, <3>2 DEF Live, Split, Shutdown, IInv, OutputInv, OutOK
  <2>2. ASSUME WokenOut(out), output'.state = output.state, output'.max = output.max,
               output'.cmds = <<>>, collect'.state = "stopped", UNCHANGED drained
        PROVE  Stopped'
    <3>1. OutWoke(out[Ref].pc, out'[Ref].pc)
      BY <2>1, <2>2, OutStays
    <3>2. QED BY <2>1, <2>2, <3>1 DEF Stopped, OutWoke
  <2>3. ASSUME NEW s \in Streams, Input(s) PROVE Stopped'
    BY <2>1, <2>2, <2>3, InputShape, StoppedInput
  <2>4. ASSUME NEW s \in Streams, Output(s) PROVE Stopped'
    BY <2>1, <2>4, StoppedOutput
  <2>5. ASSUME NEW s \in Streams, Deactivate(s) PROVE Stopped'
    <3>1. UNCHANGED <<output, collect, drained>>
      BY <2>5 DEF Deactivate
    <3>2. UNCHANGED out \/ (out[s].pc \in {"idle", "starved", "push"} /\ out' = At(out, s, "done"))
      BY <2>5 DEF Deactivate
    <3>3. out[Ref].pc \in Stopping => out'[Ref].pc = out[Ref].pc
      BY <2>1, <3>2 DEF At, OutGood, Stopping
    <3>4. QED BY <2>1, <3>1, <3>3 DEF Stopped, Stopping
  <2>6. CASE Mux \/ UNCHANGED vars
    BY <2>1, <2>2, <2>6 DEF Mux, vars, WokenOut, Stopped
  <2>7. CASE FileEnds
    <3>1. UNCHANGED collect /\ drained' /\ (UNCHANGED output \/ output' = [output EXCEPT !.state = "next_file"])
      BY <2>7 DEF FileEnds
    <3>2. QED BY <2>1, <3>1 DEF Stopped, IInv, OutputInv, OutputOK
  <2>8. QED BY <1>2, <2>1, <2>3, <2>4, <2>5, <2>6, <2>7 DEF Next
<1>3. QED BY <1>1, <1>2

-----------------------------------------------------------------------------
(* All of it, along every step.                                            *)

(* What the output threads need: one at a time changes files, all obey     *)
(* the limit, and when the recording has ended everything is written.      *)
AllWritten == \A s \in Streams : \A n \in Buffers(s) : Written(s, n)
OutInv == /\ OneOut
          /\ Live => LiveOK
          /\ ~Live => Stopped
          /\ ended => AllWritten

LEMMA InputKept == ASSUME IInv, [Next]_vars PROVE UNCHANGED input
BY InputShape, OutputShape DEF Next, Deactivate, Mux, FileEnds, Split, Shutdown, Stop, vars,
   outputVars, muxVars, appVars

LEMMA EndedNext ==
  ASSUME IInv, FlowInv, OutInv, [Next]_vars, ended'
  PROVE  AllWritten'
<1> USE DEF outputVars, muxVars, appVars
<1>1. ASSUME AllWritten PROVE AllWritten'
  <2>1. \A s \in Streams : \A n \in Buffers(s) : Written(s, n)'
    BY <1>1, WrittenGrows DEF AllWritten
  <2>2. \A s \in Streams : Buffers(s)' = Buffers(s)
    BY InputKept DEF Buffers
  <2>3. QED BY <2>1, <2>2 DEF AllWritten
<1>2. ended' = ended \/ (FileEnds /\ output.state = "ending_stream")
  <2>1. ASSUME NEW s \in Streams, Output(s) PROVE ended' = ended
    <3>1. CASE Probe(s)
      BY <3>1, ProbeUnseen
    <3>2. CASE Command(s) \/ StartFile(s) \/ OpenFile(s)
      BY <3>2 DEF Command, StartFile, OpenFile
    <3>3. QED BY <2>1, <3>1, <3>2 DEF Output, Underrun, Flushed, Send, GopIsOut, EndFile, SendEos,
                                      Sleep, WakeOut, SwitchFile, Push
  <2>2. \A s \in Streams : Input(s) => ended' = ended
    BY InputShape
  <2>3. \A s \in Streams : Deactivate(s) => ended' = ended
    BY DEF Deactivate
  <2>4. FileEnds => ended' = ended \/ output.state = "ending_stream"
    BY DEF FileEnds
  <2>5. Mux \/ Split \/ Shutdown \/ Stop \/ UNCHANGED vars => ended' = ended
    BY DEF Mux, Split, Shutdown, Stop, vars
  <2>6. QED BY <2>1, <2>2, <2>3, <2>4, <2>5 DEF Next
<1>3. ASSUME FileEnds, output.state = "ending_stream" PROVE AllWritten
  <2>1. Live
    BY <1>3 DEF OutInv, Stopped, FileEnds
  <2>2. \A s \in Streams : mux[s].eos /\ ThreadOK(s)
    BY <1>3, <2>1 DEF FileEnds, MuxerReady, Waiting, OutInv, LiveOK
  <2>3. \A s \in Streams : out[s].padEos
    BY <1>3, <2>2 DEF ThreadOK
  <2>4. QED BY <2>3, AllAtEos DEF AllWritten
<1>4. CASE ended
  BY <1>1, <1>4 DEF OutInv
<1>5. CASE ~ended
  BY <1>1, <1>2, <1>3, <1>5
<1>6. QED BY <1>4, <1>5

LEMMA OutNext ==
  ASSUME Regular, IInv, FlowInv, GopsInv, OutInv, [Next]_vars
  PROVE  OutInv'
<1>1. OneOut'
  BY OneNext DEF OutInv
<1>2. ASSUME Live' PROVE LiveOK'
  <2>1. Live
    <3>1. stop' = stop \/ stop' = "stopped" \/ stop = "no"
      BY InputShape, OutputShape DEF Next, Deactivate, Mux, FileEnds, Split, Shutdown, Stop, vars,
         outputVars, muxVars, appVars
    <3>2. QED BY <1>2, <3>1 DEF Live
  <2>2. QED BY <1>2, <2>1, LiveNext DEF OutInv
<1>3. ASSUME ~Live' PROVE Stopped'
  BY <1>3, StoppedNext DEF OutInv
<1>4. ended' => AllWritten'
  BY EndedNext
<1>5. QED BY <1>1, <1>2, <1>3, <1>4 DEF OutInv

LEMMA OutInit == Init => OutInv
<1> SUFFICES ASSUME Init PROVE OutInv
  OBVIOUS
<1> USE SplitMuxAssumption
<1>1. IInv
  BY InvInit
<1>2. /\ \A s \in Streams : /\ out[s].pc = "idle" /\ ~out[s].padEos
                            /\ ~mux[s].eos
      /\ output.state = "next_file" /\ output.max = NoTime /\ ~output.muxed
      /\ files = <<>> /\ ~ended /\ stop = "no"
  BY DEF Init
<1>3. OneOut
  BY <1>2 DEF OneOut, Switching, Locked
<1>4. SwitchOK
  BY <1>2 DEF SwitchOK, Switching
<1>5. ASSUME NEW s \in Streams PROVE ThreadOK(s)
  <2>1. \A n \in Buffers(s) : ~Written(s, n)
    BY <1>2 DEF Written, UpTo
  <2>2. \A n \in Buffers(s) : ~(RunTime(s, n) < output.max)
    <3>1. SUFFICES ASSUME NEW n \in Buffers(s) PROVE ~(RunTime(s, n) < NoTime)
      BY <1>2
    <3>2. RunTime(s, n) \in Times
      BY <1>1, RunTimeOf DEF IInv
    <3>3. QED BY <3>2 DEF Times, NoTime
  <2>3. QED BY <1>2, <2>1, <2>2 DEF ThreadOK, AtCut
<1>6. QED BY <1>2, <1>3, <1>4, <1>5 DEF OutInv, Live, LiveOK

(* The cuts.                                                               *)
LEMMA CutNext ==
  ASSUME IInv, FlowInv, OutInv, CutInv, [Next]_vars
  PROVE  CutInv'
<1>1. UNCHANGED input /\ FilesOK
  BY InputKept DEF FlowInv
<1>2. /\ \A s \in Streams : Buffers(s)' = Buffers(s) /\ \A n : RunTime(s, n)' = RunTime(s, n)
      /\ \A g : /\ GopStart(g)' = GopStart(g)
                /\ Keyframe(g)' <=> Keyframe(g)
  BY <1>1 DEF Buffers, RunTime, GopStart, GopOf, Keys, Keyframe
<1>3. PICK l \in Nat : l = Len(files)
  BY <1>1 DEF FilesOK
<1>4. ASSUME NEW k \in 2 .. l,
             \A s \in Streams : \A n : UpTo(s, n, k - 1)' <=> UpTo(s, n, k - 1)
      PROVE  \E g \in Buffers(Ref)' :
               Keyframe(g)' /\ \A s \in Streams : \A n \in Buffers(s)' :
                                 UpTo(s, n, k - 1)' <=> RunTime(s, n)' < GopStart(g)'
  <2>1. PICK g \in Buffers(Ref) :
          Keyframe(g) /\ \A s \in Streams : \A n \in Buffers(s) :
                           UpTo(s, n, k - 1) <=> RunTime(s, n) < GopStart(g)
    BY <1>3 DEF CutInv
  <2>2. Ref \in Streams
    BY SplitMuxAssumption
  <2>3. QED BY <1>2, <1>4, <2>1, <2>2
<1>5. CASE UNCHANGED files
  <2>1. \A k \in 2 .. l : \A s \in Streams : \A n : UpTo(s, n, k - 1)' <=> UpTo(s, n, k - 1)
    BY <1>5 DEF UpTo
  <2>2. Len(files') = l
    BY <1>3, <1>5
  <2>3. QED BY <1>4, <2>1, <2>2 DEF CutInv
<1>6. ASSUME NEW u \in Streams, Pushes(u) PROVE CutInv'
  <2>1. /\ Len(files') = l /\ \A t \in Streams : FilesSame(t) \/ t = u
        /\ \A k \in 1 .. l : k # l => files'[k][u] = files[k][u]
    BY <1>1, <1>3, <1>6, FilesPushed
  <2>2. \A k \in 1 .. l : k # l => \A s \in Streams : files'[k][s] = files[k][s]
    BY <1>3, <2>1 DEF FilesSame
  <2>3. ASSUME NEW k \in 2 .. l, NEW s \in Streams, NEW n
        PROVE  UpTo(s, n, k - 1)' <=> UpTo(s, n, k - 1)
    <3>1. \A i \in 1 .. k - 1 : i \in 1 .. l /\ i # l
      OBVIOUS
    <3>2. QED BY <2>2, <3>1 DEF UpTo
  <2>4. QED BY <1>4, <2>1, <2>3 DEF CutInv
<1>7. ASSUME NEW u \in Streams, OpenFile(u), files' = Append(files, [t \in Streams |-> <<>>])
      PROVE  CutInv'
  <2>1. Len(files') = l + 1
    BY <1>3, <1>7
  <2>2. ASSUME NEW k \in 1 .. l, NEW s \in Streams, NEW n
        PROVE  UpTo(s, n, k)' <=> UpTo(s, n, k)
    BY <1>1, <1>3, <1>7, <2>2, WrittenOpened
  <2>3. ASSUME NEW k \in 2 .. l, NEW s \in Streams, NEW n
        PROVE  UpTo(s, n, k - 1)' <=> UpTo(s, n, k - 1)
    <3>1. k - 1 \in 1 .. l
      OBVIOUS
    <3>2. QED BY <2>2, <3>1
  <2>4. ASSUME l + 1 \in 2 .. l + 1
        PROVE  \E g \in Buffers(Ref)' :
                 Keyframe(g)' /\ \A s \in Streams : \A n \in Buffers(s)' :
                                   UpTo(s, n, l + 1 - 1)' <=> RunTime(s, n)' < GopStart(g)'
    <3>1. l \in 1 .. l /\ l + 1 - 1 = l /\ files # <<>>
      BY <1>3, <2>4
    <3>2. stop = "no" /\ out[u].pc = "switch"
      <4>1. files' # files
        BY <1>3, <2>1
      <4>2. QED BY <1>7, <4>1 DEF OpenFile
    <3>3. u = Ref /\ LiveOK
      BY <3>2 DEF OutInv, OneOut, Switching, Live
    <3>4. IsCut(output.max) /\ \A s \in Streams : AtCut(s)
      BY <3>1, <3>2, <3>3 DEF LiveOK, SwitchOK, ThreadOK, Switching, Opening
    <3>5. PICK g \in Buffers(Ref) : Keyframe(g) /\ output.max = GopStart(g)
      BY <3>4 DEF IsCut
    <3>6. \A s \in Streams : \A n \in Buffers(s) : UpTo(s, n, l) <=> RunTime(s, n) < GopStart(g)
      BY <1>3, <3>4, <3>5 DEF AtCut, Written
    <3>7. \A s \in Streams : \A n \in Buffers(s) : UpTo(s, n, l)' <=> RunTime(s, n) < GopStart(g)
      BY <2>2, <3>1, <3>6
    <3>8. QED BY <1>2, <3>1, <3>5, <3>7, SplitMuxAssumption
  <2>5. \A k \in 2 .. l + 1 : k \in 2 .. l \/ k = l + 1
    OBVIOUS
  <2>6. QED BY <1>4, <2>1, <2>3, <2>4, <2>5 DEF CutInv
<1>8. QED BY <1>5, <1>6, <1>7, FilesNext

-----------------------------------------------------------------------------
(* The files are a partition of what came in.                              *)

LEMMA FileMembers ==
  ASSUME IInv, FlowInv, NEW s \in Streams, NEW k \in 1 .. Len(files), NEW n \in ToSet(files[k][s])
  PROVE  n \in Buffers(s) /\ UpTo(s, n, k) /\ ~UpTo(s, n, k - 1)
<1>1. PICK b \in [0 .. Len(files) -> Nat] : FileRun(s, b) /\ b[Len(files)] <= Len(input[s])
  BY DEF FlowInv, FlowOf
<1>2. PICK l \in Nat : l = Len(files) /\ k \in 1 .. l /\ k - 1 \in 0 .. l /\ l \in 0 .. l
  BY DEF FlowInv, FilesOK
<1>3. PICK r \in Seq(Nat) : r = files[k][s]
  <2>1. PICK S : S = [Streams -> Seq(Nat)]
    OBVIOUS
  <2>2. files \in Seq(S)
    BY <2>1 DEF FlowInv, FilesOK
  <2>3. files[k] \in S
    BY <2>2
  <2>4. QED BY <2>1, <2>3
<1>4. PICK j \in 1 .. Len(r) : n = r[j]
  BY <1>3 DEF ToSet
<1>5. n = b[k - 1] + j
  BY <1>1, <1>2, <1>3, <1>4 DEF FileRun
<1>6. b[k - 1] \in Nat /\ n \in Nat
  <2>1. k - 1 \in 0 .. Len(files)
    BY <1>2
  <2>2. PICK p \in Nat : p = b[k - 1]
    BY <2>1
  <2>3. j \in Nat
    OBVIOUS
  <2>4. QED BY <1>5, <2>2, <2>3
<1>7. ~UpTo(s, n, k - 1)
  <2>1. ~(n \in 1 .. b[k - 1])
    BY <1>5, <1>6
  <2>2. FilesOK
    BY DEF FlowInv
  <2>3. QED BY <1>1, <1>2, <1>6, <2>1, <2>2, UpToCount
<1>8. UpTo(s, n, k) /\ Written(s, n)
  <2>1. k \in 1 .. k /\ k \in 1 .. l
    BY <1>2
  <2>2. QED BY <1>2, <1>3, <1>4, <2>1 DEF UpTo, Written
<1>9. n \in 1 .. b[l]
  <2>1. FilesOK
    BY DEF FlowInv
  <2>2. QED BY <1>1, <1>2, <1>6, <1>8, <2>1, UpToCount DEF Written
<1>10. n \in Buffers(s)
  <2>1. Len(input[s]) \in Nat /\ b[l] \in Nat /\ b[l] <= Len(input[s])
    BY <1>1, <1>2, Counted DEF IInv
  <2>2. QED BY <1>9, <2>1 DEF Buffers
<1>11. QED BY <1>7, <1>8, <1>10

(* The first buffer of a file is the keyframe of the cut before it.        *)
LEMMA FileStarts ==
  ASSUME Regular, IInv, FlowInv, NEW k \in 2 .. Len(files), files[k][Ref] # <<>>,
         NEW g \in Buffers(Ref), Keyframe(g),
         \A n \in Buffers(Ref) : UpTo(Ref, n, k - 1) <=> RunTime(Ref, n) < GopStart(g)
  PROVE  Head(files[k][Ref]) = g
<1> USE SplitMuxAssumption
<1>1. PICK b \in [0 .. Len(files) -> Nat] : FileRun(Ref, b) /\ b[Len(files)] <= Len(input[Ref])
  BY DEF FlowInv, FlowOf
<1>2. PICK l \in Nat : l = Len(files) /\ k \in 1 .. l /\ k - 1 \in 0 .. l
  BY DEF FlowInv, FilesOK
<1>3. PICK r \in Seq(Nat) : r = files[k][Ref]
  <2>1. PICK S : S = [Streams -> Seq(Nat)]
    OBVIOUS
  <2>2. files \in Seq(S)
    BY <2>1 DEF FlowInv, FilesOK
  <2>3. files[k] \in S
    BY <1>2, <2>2
  <2>4. QED BY <2>1, <2>3
<1>4. PICK h : h = Head(r)
  OBVIOUS
<1>5. 1 \in 1 .. Len(r) /\ h = r[1]
  BY <1>3, <1>4
<1>6. PICK p \in Nat : p = b[k - 1]
  BY <1>1, <1>2
<1>7. h = p + 1
  BY <1>1, <1>2, <1>3, <1>5, <1>6 DEF FileRun
<1>8. h \in ToSet(files[k][Ref])
  BY <1>3, <1>5 DEF ToSet
<1>9. h \in Buffers(Ref) /\ ~UpTo(Ref, h, k - 1)
  BY <1>2, <1>8, FileMembers
<1>10. \A n \in Buffers(Ref) : UpTo(Ref, n, k - 1) <=> n < g
  BY CutParts DEF IInv
<1>11. g \in Nat /\ g >= 1 /\ ~(h < g) /\ ~UpTo(Ref, g, k - 1)
  BY <1>9, <1>10, Counted DEF IInv, Buffers
<1>12. ~(g \in 1 .. p)
  <2>1. FilesOK
    BY DEF FlowInv
  <2>2. QED BY <1>1, <1>2, <1>6, <1>11, <2>1, UpToCount
<1>13. QED BY <1>3, <1>4, <1>7, <1>11, <1>12

(* The invariants say that the files partition the input.                  *)
LEMMA PartitionOf == ASSUME Regular, IInv, FlowInv, OutInv, CutInv PROVE FilesPartitionInput
<1> USE SplitMuxAssumption
<1>1. ASSUME NEW s \in Streams
      PROVE  /\ \A i \in DOMAIN StreamOf(s) : StreamOf(s)[i] = i
             /\ ended => Len(StreamOf(s)) = Len(input[s])
  <2>1. PICK b \in [0 .. Len(files) -> Nat] : FileRun(s, b) /\ b[Len(files)] <= Len(input[s])
    BY DEF FlowInv, FlowOf
  <2>2. FilesOK
    BY DEF FlowInv
  <2>3. /\ Len(StreamOf(s)) = b[Len(files)]
        /\ \A i \in DOMAIN StreamOf(s) : StreamOf(s)[i] = i
    BY <2>1, <2>2, StreamCounts
  <2>4. ASSUME ended PROVE b[Len(files)] = Len(input[s])
    <3>1. Len(files) \in 0 .. Len(files)
      BY <2>2 DEF FilesOK
    <3>2. PICK c \in Nat : c = b[Len(files)]
      BY <3>1
    <3>3. PICK m \in Nat : m = Len(input[s])
      BY Counted DEF IInv
    <3>4. m \in 1 .. m => Written(s, m)
      BY <2>4, <3>3 DEF OutInv, AllWritten, Buffers
    <3>5. m \in 1 .. m => m \in 1 .. c
      BY <2>1, <2>2, <3>1, <3>2, <3>4, UpToCount DEF Written
    <3>6. c <= m
      BY <2>1, <3>2, <3>3
    <3>7. QED BY <3>2, <3>3, <3>5, <3>6
  <2>5. QED BY <2>3, <2>4
<1>2. ASSUME NEW k \in 2 .. Len(files), files[k][Ref] # <<>>
      PROVE  /\ input[Ref][Head(files[k][Ref])].key
             /\ \A s \in Streams :
                  /\ \A n \in ToSet(files[k - 1][s]) : RunTime(s, n) < Cut(k)
                  /\ \A n \in ToSet(files[k][s]) : RunTime(s, n) >= Cut(k)
  <2>1. PICK g \in Buffers(Ref) :
          Keyframe(g) /\ \A s \in Streams : \A n \in Buffers(s) :
                           UpTo(s, n, k - 1) <=> RunTime(s, n) < GopStart(g)
    BY DEF CutInv
  <2>2. Head(files[k][Ref]) = g
    BY <1>2, <2>1, FileStarts
  <2>3. Cut(k) = GopStart(g)
    BY <2>2 DEF Cut
  <2>4. k \in 1 .. Len(files) /\ k - 1 \in 1 .. Len(files)
    BY DEF FlowInv, FilesOK
  <2>5. \A s \in Streams : \A n \in ToSet(files[k - 1][s]) : RunTime(s, n) < Cut(k)
    BY <2>1, <2>3, <2>4, FileMembers
  <2>6. ASSUME NEW s \in Streams, NEW n \in ToSet(files[k][s]) PROVE RunTime(s, n) >= Cut(k)
    <3>1. n \in Buffers(s) /\ ~UpTo(s, n, k - 1)
      BY <2>4, FileMembers
    <3>2. RunTime(s, n) \in Times /\ GopStart(g) \in Times
      BY <3>1, RunTimeOf, GopStartOf DEF IInv
    <3>3. QED BY <2>1, <2>3, <3>1, <3>2 DEF Times
  <2>7. QED BY <2>1, <2>2, <2>5, <2>6 DEF Keyframe
<1>3. QED BY <1>1, <1>2 DEF FilesPartitionInput, StreamOf

(* The files partition the recording: each stream is there once and in     *)
(* order, all of it when the recording has ended, and every file but the   *)
(* first starts at a keyframe of the reference stream                      *)
(* (start_next_fragment), where all other streams are cut, too.  For any   *)
(* number of streams and any input whose reference stream has its DTS in   *)
(* order and GOPs that do not overlap in PTS; other inputs are cut inside  *)
(* a GOP.                                                                  *)
THEOREM FilesPartition == ASSUME Regular PROVE Spec => []FilesPartitionInput
<1>1. Init => OutInv /\ CutInv
  <2>1. Init => CutInv
    BY DEF Init, CutInv
  <2>2. QED BY <2>1, OutInit
<1>2. IInv /\ FlowInv /\ GopsInv /\ OutInv /\ CutInv /\ [Next]_vars => OutInv' /\ CutInv'
  BY OutNext, CutNext
<1>3. IInv /\ FlowInv /\ OutInv /\ CutInv => FilesPartitionInput
  BY PartitionOf
<1>4. Spec => [](IInv /\ FlowInv /\ GopsInv)
  BY SplitMuxInvariance, FlowInvariance, GopsInvariance, PTL
<1>5. QED BY <1>1, <1>2, <1>3, <1>4, PTL DEF Spec
=============================================================================
