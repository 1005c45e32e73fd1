---------------------------- MODULE EventRecorder ----------------------------
(***************************************************************************)
(* amba_event_recorder keeps the last encoded samples of each track.  A    *)
(* trigger opens a window [start, end] in running time, or extends the one *)
(* that is open; the samples of the window, those cached before the        *)
(* trigger included, go to one file.  The window ends when the primary     *)
(* track or the clock has passed its end, or at the first EOS.             *)
(*                                                                         *)
(* Actors: one streaming thread per track, the application (triggers, pads,*)
(* the primary-pad property), a GLib timer.  priv->lock makes each handler *)
(* one step.  The callback of a sample also takes it before, to look up its *)
(* track; nothing depends on the time between but release_pad, which joins *)
(* the streaming thread while it holds the lock.                           *)
(***************************************************************************)
EXTENDS Integers, Sequences, FiniteSets, SequencesExt, FiniteSetsExt

CONSTANTS
  Tracks,         \* names of request pads
  Video,          \* those called sink_video_...
  FirstPrimary,   \* the primary-pad property at the start
  MaxCache, MaxBuffers, MaxBytes,   \* max_cache_ms; the others 0 for none
  AlignStart,     \* align_start_keyframe
  Pres, Posts,    \* finite pre- and post-rolls of triggers
  GopDefault, GopMin, GopMax,   \* constants of the GOP estimate
  Gop,            \* a keyframe every Gop samples of a video track; 0: anywhere
  Horizon, MaxEvent,   \* bounds: running time; time of an event
  MaxClock, MaxSamples, MaxTriggers, MaxOps   \* clock; numbers of the rest

NoTime == 3 * (Horizon + MaxCache)   \* GST_CLOCK_TIME_NONE, the largest value

\* No running time the bounds admit reaches GST_CLOCK_TIME_NONE.
ASSUME EventRecorderAssumption ==
  /\ Video \subseteq Tracks /\ FirstPrimary \in Tracks
  /\ MaxCache \in Nat \ {0} /\ MaxBuffers \in Nat /\ MaxBytes \in Nat
  /\ AlignStart \in BOOLEAN
  /\ Pres \subseteq Nat /\ Posts \subseteq Nat
  /\ {GopDefault, GopMin, GopMax} \subseteq Nat \ {0} /\ GopMin <= GopMax
  /\ {Gop, Horizon, MaxEvent, MaxClock, MaxSamples, MaxTriggers, MaxOps} \subseteq Nat
  /\ MaxClock < NoTime /\ \A post \in Posts \cup {0} : MaxEvent + post < NoTime

NoSerial == MaxSamples + 1           \* INVALID_BUFFER_SERIAL, likewise
All      == -1                       \* roll: the whole cache, until EOS
Time == 0 .. NoTime

Samples == [rt : Time, serial : 1 .. MaxSamples, key : BOOLEAN, written : BOOLEAN]

VARIABLES
  tracks,      \* keys of track_contexts
  primary,     \* primary_pad_name
  cache,       \* cached_buffers of each track
  last,        \* last_running_time of each track
  caps,        \* tracks whose input_caps are set
  serial,      \* next_buffer_serial
  window,      \* window_active, window_start, window_end, active_retain_pre_ms
  writer,      \* writer_pipeline, writer_start_rt, writer_start_serial, and the
               \* tracks that have a writer_appsrc that takes buffers
  upstream_eos, fatal_error, disposing,
  stuck,       \* release_pad holds priv->lock and waits for a thread that
               \* waits for priv->lock
  now,         \* running time of the clock, NoTime while there is none
  triggers, ops,
  file,        \* history: what was pushed to the writer of the last file
  keyed,       \* history: a keyframe of the primary track at or before its start
               \* was cached
  switched     \* history: primary-pad changed during a window

trackVars == <<tracks, cache, last, caps, serial>>
fileVars  == <<file, keyed, switched>>
stopVars  == <<upstream_eos, fatal_error, disposing>>
vars == <<trackVars, primary, window, writer, stopVars, stuck, now,
          triggers, ops, fileVars>>

Closed == [open |-> FALSE, rt |-> NoTime, serial |-> NoSerial, linked |-> {}]

\* Types; the cached samples of a track are in the order of their times and
\* serials, and only an active window has a writer.
TypeOK ==
  /\ tracks \subseteq Tracks /\ primary \in Tracks
  /\ \A t \in Tracks :
       /\ \A i \in DOMAIN cache[t] : cache[t][i] \in Samples
       /\ \A i, j \in DOMAIN cache[t] : i < j =>
            /\ cache[t][i].rt <= cache[t][j].rt
            /\ cache[t][i].serial < cache[t][j].serial
       /\ cache[t] # <<>> => t \in caps /\ last[t] = Last(cache[t]).rt
  /\ last \in [Tracks -> Time] /\ caps \subseteq tracks
  /\ serial \in 0 .. MaxSamples
  /\ window \in [active : BOOLEAN, start : Time, end : Time, retain : Pres \cup {0, All}]
  /\ writer \in [open : BOOLEAN, rt : Time, serial : 1 .. NoSerial, linked : SUBSET Tracks]
  /\ writer.open => window.active /\ writer.linked \subseteq caps
  /\ upstream_eos \in BOOLEAN /\ fatal_error \in BOOLEAN /\ disposing \in BOOLEAN
  /\ stuck \in BOOLEAN
  /\ now \in 0 .. MaxClock \cup {NoTime}
  /\ triggers \in 0 .. MaxTriggers /\ ops \in 0 .. MaxOps
  /\ DOMAIN file = Tracks /\ keyed \in BOOLEAN /\ switched \in BOOLEAN

Init ==
  /\ tracks = {FirstPrimary} /\ primary = FirstPrimary
  /\ cache = [t \in Tracks |-> <<>>] /\ last = [t \in Tracks |-> NoTime]
  /\ caps = {} /\ serial = 0
  /\ window = [active |-> FALSE, start |-> NoTime, end |-> NoTime, retain |-> 0]
  /\ writer = Closed
  /\ upstream_eos = FALSE /\ fatal_error = FALSE /\ disposing = FALSE
  /\ stuck = FALSE
  /\ now = NoTime /\ triggers = 0 /\ ops = 0
  /\ file = [t \in Tracks |-> <<>>] /\ keyed = FALSE /\ switched = FALSE

-----------------------------------------------------------------------------
(* The cache of a track.                                                   *)

IsValid(t) == t # NoTime
Lesser(a, b)  == IF a <= b THEN a ELSE b
Greater(a, b) == IF a >= b THEN a ELSE b
Minus(a, b) == IF a > b THEN a - b ELSE 0
DropUntil(s, i) == SubSeq(s, i, Len(s))
IsKey(s) == s.key

Normalize(lastRt, bufferRt, clockRt) ==
  LET rt == IF IsValid(bufferRt) THEN bufferRt
            ELSE IF IsValid(clockRt) THEN clockRt
            ELSE IF IsValid(lastRt) THEN lastRt + 1 ELSE 0
  IN  IF IsValid(lastRt) THEN Greater(rt, lastRt) ELSE rt

PruneIdleGop(s) == DropUntil(s, Greater(SelectInSeq(s, IsKey), 1))

\* The size of a sample is one, that of a keyframe two.
Bytes(s) == Len(s) + Cardinality({i \in DOMAIN s : IsKey(s[i])})
Fits(s) == /\ MaxBuffers > 0 => Len(s) <= MaxBuffers
           /\ MaxBytes > 0 => Bytes(s) <= MaxBytes

\* Where the cache starts once whole GOPs, then single samples, are dropped
\* until no limit is exceeded.
BugPruneLimits(s, rt) ==
  LET minRt == Minus(rt, MaxCache)
      Old(x) == ~IsValid(rt) \/ x.rt >= minRt
  IN  DropUntil(s, Greater(SelectInSeq(s, Old), 1))
PruneLimits(s, rt) ==
  LET minRt == Minus(rt, MaxCache)
      Over(i) == /\ i <= Len(s)
                 /\ (IsValid(rt) /\ s[i].rt < minRt) \/ ~Fits(DropUntil(s, i))
      NextGop(i) ==
        LET first == SelectInSubSeq(s, i, Len(s), IsKey)
            Later(x) == x.key /\ x.rt > s[first].rt
        IN  IF first = 0 THEN 0 ELSE SelectInSubSeq(s, first, Len(s), Later)
      start[i \in 1 .. Len(s) + 1] ==
        IF ~Over(i) THEN i
        ELSE start[IF NextGop(i) # 0 THEN NextGop(i) ELSE i + 1]
  IN  DropUntil(s, start[1])

\* The distance of the last two keyframes.
EstimateGop(s) ==
  LET latest == SelectLastInSeq(s, IsKey)
      prev   == SelectLastInSubSeq(s, 1, latest - 1, IsKey)
      delta  == IF latest = 0 \/ prev = 0 THEN 0 ELSE s[latest].rt - s[prev].rt
  IN  IF s = <<>> THEN GopDefault
      ELSE Greater(GopMin, Lesser(GopMax, IF delta = 0 THEN GopDefault ELSE delta))

GopMargin(t, s) == IF AlignStart /\ t \in Video THEN EstimateGop(s) ELSE 0

PruneActive(t, s, retain, rt) ==
  LET retainNs == (IF retain < 0 THEN MaxCache ELSE retain) + GopMargin(t, s)
      minKeep  == IF retainNs > 0 THEN Minus(rt, retainNs) ELSE 0
      Kept(x)  == ~x.written \/ x.rt >= minKeep
      first    == SelectInSeq(s, Kept)
  IN  IF first = 0 THEN <<>> ELSE DropUntil(s, first)

BugResetWritten(s) == s
ResetWritten(s) == [i \in DOMAIN s |-> [s[i] EXCEPT !.written = FALSE]]
-----------------------------------------------------------------------------
(* The writer.  A handler works on a recorder state, a record of the       *)
(* fields it may change, and one action stores the result.                 *)

State == [cache |-> cache, last |-> last, caps |-> caps, window |-> window,
          writer |-> writer, fatal |-> fatal_error,
          file |-> file, keyed |-> keyed]

Store(r) ==
  /\ cache' = r.cache /\ last' = r.last /\ caps' = r.caps
  /\ window' = r.window /\ writer' = r.writer /\ fatal_error' = r.fatal
  /\ file' = r.file /\ keyed' = r.keyed /\ UNCHANGED switched

HasPrimary == primary \in tracks
PrimaryLast(r) == IF HasPrimary THEN r.last[primary] ELSE NoTime

\* The sample of the primary track the file starts with: the last keyframe at
\* or before the start of the window, or else the first sample after it.
SelectStart(r) ==
  LET s == r.cache[primary]
      BeforeStart(x) == x.key /\ x.rt <= r.window.start
      InWindow(x) == x.rt >= r.window.start
      key  == IF AlignStart THEN SelectLastInSeq(s, BeforeStart) ELSE 0
      from == IF key # 0 THEN key ELSE SelectInSeq(s, InWindow)
  IN  IF from = 0 THEN [rt |-> r.window.start, serial |-> NoSerial]
      ELSE [rt |-> s[from].rt, serial |-> s[from].serial]

\* The possible results of open_writer: "ok", "failed" (no element, no link to
\* the sink, no state change), "fatal" (the primary track has no place in the mux).
Outcomes == IF ops < MaxOps THEN {"ok", "failed", "fatal"} ELSE {"ok"}
FaultCost(o) == IF o = "ok" THEN 0 ELSE 1

OpenWriter(r, outcome) ==
  LET start == SelectStart(r)
      KeyBefore(x) == x.key /\ x.rt <= r.window.start
  IN  IF r.writer.open \/ r.fatal \/ ~HasPrimary \/ primary \notin r.caps THEN r
      ELSE [r EXCEPT
              !.cache  = [t \in Tracks |-> ResetWritten(@[t])],
              !.fatal  = outcome = "fatal",
              !.writer = IF outcome # "ok" THEN @
                         ELSE [open |-> TRUE, rt |-> start.rt, serial |-> start.serial,
                               linked |-> r.caps],
              !.keyed  = SelectInSeq(r.cache[primary], KeyBefore) # 0]

\* Whether a sample of a track is one for the file.
BugFromStart(r, t, x) == x.rt >= r.writer.rt
FromStart(r, t, x) ==
  IF t = primary /\ r.writer.serial # NoSerial
  THEN x.serial >= r.writer.serial ELSE x.rt >= r.writer.rt

Pending(r, t, upto, x) == FromStart(r, t, x) /\ x.rt <= upto /\ ~x.written

\* The samples the loop over a cache pushes (push_one_unlocked), in order.
Pushed(s, IsPushed(_)) ==
  LET upTo[i \in 0 .. Len(s)] ==
        IF i = 0 THEN <<>>
        ELSE IF IsPushed(s[i]) THEN Append(upTo[i - 1], s[i]) ELSE upTo[i - 1]
  IN  upTo[Len(s)]

BugPushTrack(r, t, upto) ==
  LET IsPushed(x) == Pending(r, t, upto, x)
  IN  [cache |-> r.cache[t], file |-> r.file[t] \o Pushed(r.cache[t], IsPushed)]
PushTrack(r, t, upto) ==
  LET IsPushed(x) == Pending(r, t, upto, x)
      pushed == Pushed(r.cache[t], IsPushed)
      marked == [i \in DOMAIN r.cache[t] |-> LET x == r.cache[t][i] IN
                   [x EXCEPT !.written = @ \/ IsPushed(x)]]
  IN  IF pushed = <<>> THEN [cache |-> r.cache[t], file |-> r.file[t]]
      ELSE [cache |-> PruneActive(t, marked, r.window.retain, upto),
            file  |-> r.file[t] \o pushed]

PushPending(r, upto) ==
  LET pushed == [t \in {t \in r.writer.linked : IsValid(r.last[t])} |->
                   PushTrack(r, t, Lesser(upto, r.last[t]))]
  IN  IF ~r.writer.open THEN r
      ELSE [r EXCEPT
              !.cache = [t \in Tracks |-> IF t \in DOMAIN pushed THEN pushed[t].cache ELSE @[t]],
              !.file  = [t \in Tracks |-> IF t \in DOMAIN pushed THEN pushed[t].file ELSE @[t]]]
-----------------------------------------------------------------------------
(* Windows.                                                                *)

FinalEnd(r, closeRt) ==
  IF IsValid(closeRt) THEN closeRt
  ELSE IF IsValid(PrimaryLast(r)) THEN PrimaryLast(r)
  ELSE IF IsValid(now) THEN now ELSE r.window.start

\* The push before the close; afterwards nothing of this window is written.
Drain(r) ==
  IF HasPrimary THEN PushPending(r, Lesser(r.window.end, PrimaryLast(r))) ELSE r

CloseWindow(r, closeRt) ==
  LET end == FinalEnd(r, closeRt)
      cut == [r EXCEPT !.window.end = Lesser(@, end)]
      s   == Drain(cut)
      closed == [s EXCEPT !.window.active = FALSE, !.window.retain = 0, !.writer = Closed]
  IN  IF ~r.window.active THEN r
      ELSE IF HasPrimary
      THEN [closed EXCEPT !.cache[primary] = PruneLimits(PruneIdleGop(@), end)]
      ELSE closed

MaybeClose(r, rt) ==
  IF IsValid(rt) /\ IsValid(r.window.end) /\ rt > r.window.end
  THEN CloseWindow(r, rt) ELSE r
-----------------------------------------------------------------------------
(* Handlers.                                                               *)

Unlocked == ~stuck /\ ~disposing

\* Timestamps of the next buffer: the next time unit or, when Gop is 0, also an
\* earlier one, which counts as the last one, or none.
BufferTimes(t) ==
  LET next == IF IsValid(last[t]) THEN last[t] + 1 ELSE 0
      any  == {Minus(next, 2), next, NoTime}
  IN  {ts \in IF Gop = 0 THEN any ELSE {next} : ts <= Horizon \/ ts = NoTime}

KeyFlags(t) ==
  IF t \notin Video THEN {TRUE} ELSE IF Gop = 0 THEN BOOLEAN ELSE {serial % Gop = 0}

\* new-preroll: only the caps are kept; the same caps again change nothing
NewPreroll(t) ==
  /\ Unlocked /\ t \in tracks \ caps
  /\ caps' = caps \cup {t}
  /\ UNCHANGED <<tracks, cache, last, serial, primary, window, writer, stopVars,
                 stuck, now, triggers, ops, fileVars>>

\* A sample is put at the end of the cache of its track.
Cached(r, t, sample) ==
  [r EXCEPT !.last[t] = sample.rt, !.caps = r.caps \cup {t},
            !.cache[t] = Append(r.cache[t], sample)]

\* A window that is open gets its writer; the primary track drives it.
BugProgress(r, t, rt, outcome) ==
  LET opened == OpenWriter(r, outcome)
      pushed == PushPending(opened, rt)
  IN  IF t = primary THEN MaybeClose(pushed, rt)
      ELSE [opened EXCEPT !.cache[t] = PruneLimits(@, rt)]
Progress(r, t, rt, outcome) ==
  LET opened == OpenWriter(r, outcome)
      pushed == PushPending(opened, Lesser(rt, opened.window.end))
  IN  IF t = primary THEN MaybeClose(pushed, rt)
      ELSE [opened EXCEPT !.cache[t] = PruneLimits(@, rt)]

ProcessSample(t) ==
  /\ Unlocked /\ t \in tracks /\ serial < MaxSamples
  /\ UNCHANGED <<tracks, primary, upstream_eos, disposing, stuck, now, triggers>>
  /\ \/ fatal_error /\ Store(State) /\ UNCHANGED <<serial, ops>>
     \/ \E bufferRt \in BufferTimes(t), key \in KeyFlags(t), outcome \in Outcomes :
          LET rt == Normalize(last[t], bufferRt, now)
              sample == [rt |-> rt, serial |-> serial + 1, key |-> key, written |-> FALSE]
              r == Cached(State, t, sample)
          IN  /\ ~fatal_error /\ rt < NoTime
              /\ serial' = serial + 1
              /\ ops' = ops + FaultCost(outcome)
              /\ outcome # "ok" => OpenWriter(r, "ok") # r /\ window.active
              /\ Store(IF window.active THEN Progress(r, t, rt, outcome)
                       ELSE [r EXCEPT !.cache[t] = PruneLimits(PruneIdleGop(@), rt)])

OnEos(t) ==
  /\ Unlocked /\ t \in tracks
  /\ upstream_eos' = TRUE
  /\ Store(CloseWindow(State, last[t]))
  /\ UNCHANGED <<tracks, serial, primary, disposing, stuck, now, triggers, ops>>

CloseTimer ==
  LET r == IF window.active THEN Drain(State) ELSE State IN
  /\ Unlocked
  /\ Store(IF window.active THEN MaybeClose(r, now) ELSE r)
  /\ UNCHANGED <<tracks, serial, primary, upstream_eos, disposing, stuck,
                 now, triggers, ops>>

EventTime(ts) ==
  IF IsValid(ts) THEN ts
  ELSE IF IsValid(now) THEN now
  ELSE IF IsValid(PrimaryLast(State)) THEN PrimaryLast(State) ELSE 0

NewWindow(event, pre, post) ==
  LET hasCache == HasPrimary /\ cache[primary] # <<>> IN
  [active |-> TRUE, retain |-> pre,
   start  |-> IF pre < 0 /\ hasCache THEN Head(cache[primary]).rt
              ELSE Minus(event, Greater(pre, 0)),
   end    |-> IF post < 0 THEN NoTime ELSE event + post]

ExtendWindow(event, pre, post) ==
  [window EXCEPT
     !.retain = IF pre < 0 \/ @ < 0 THEN All ELSE Greater(@, pre),
     !.end    = IF post < 0 \/ ~IsValid(@) THEN NoTime ELSE Greater(@, event + post)]

Trigger(ts, pre, post) ==
  LET event == EventTime(ts)
      r == IF window.active
           THEN [State EXCEPT !.window = ExtendWindow(event, pre, post)]
           ELSE [State EXCEPT !.window = NewWindow(event, pre, post),
                              !.file = [t \in Tracks |-> <<>>]]
  IN
  /\ Unlocked /\ ~fatal_error /\ ~upstream_eos
  /\ triggers < MaxTriggers /\ event <= MaxEvent
  /\ triggers' = triggers + 1
  /\ \/ window.active /\ Store(r) /\ UNCHANGED ops
     \/ /\ ~window.active
        /\ \E outcome \in Outcomes :
             LET opened == OpenWriter(r, outcome) IN
             /\ outcome # "ok" => OpenWriter(r, "ok") # r
             /\ ops' = ops + FaultCost(outcome)
             /\ Store(PushPending(opened, Lesser(r.window.end, PrimaryLast(r))))
  /\ UNCHANGED <<tracks, serial, primary, upstream_eos, disposing, stuck, now>>

SetPrimary(t) ==
  /\ Unlocked /\ t # primary /\ ops < MaxOps
  /\ primary' = t /\ ops' = ops + 1
  /\ switched' = (switched \/ window.active) /\ keyed' = FALSE
  /\ UNCHANGED <<trackVars, window, writer, stopVars, stuck, now, triggers, file>>

RequestPad(t) ==
  /\ Unlocked /\ t \notin tracks
  /\ tracks' = tracks \cup {t}
  /\ UNCHANGED <<cache, last, caps, serial, primary, window, writer, stopVars, stuck,
                 now, triggers, ops, fileVars>>

\* release_pad sets the states of queue and appsink to NULL, which waits for a
\* callback of the track that is in progress and may be waiting for the lock.
ReleasePad(t) ==
  /\ Unlocked /\ ops < MaxOps /\ ops' = ops + 1
  /\ t \in tracks \ {primary} /\ ~window.active
  /\ \/ /\ tracks' = tracks \ {t}
        /\ cache' = [cache EXCEPT ![t] = <<>>]
        /\ last' = [last EXCEPT ![t] = NoTime] /\ caps' = caps \ {t}
        /\ UNCHANGED stuck
     \/ stuck' = TRUE /\ UNCHANGED <<tracks, cache, last, caps>>
  /\ UNCHANGED <<serial, primary, window, writer, stopVars, now, triggers, fileVars>>

\* The streaming threads have ended.
Dispose ==
  /\ Unlocked
  /\ disposing' = TRUE
  /\ Store(IF writer.open THEN CloseWindow(State, NoTime) ELSE State)
  /\ UNCHANGED <<tracks, serial, primary, upstream_eos, stuck, now, triggers, ops>>

\* External: between two handlers the appsrc of a track stops to take buffers, since
\* its writer has failed; push_one_unlocked then returns FALSE, with nothing written.
AppsrcFails(t) ==
  /\ ~disposing /\ ops < MaxOps /\ ops' = ops + 1
  /\ t \in writer.linked
  /\ writer' = [writer EXCEPT !.linked = @ \ {t}]
  /\ UNCHANGED <<trackVars, primary, window, stopVars, stuck, now, triggers, fileVars>>

\* External: the pipeline selects a clock and its time goes on.
Tick ==
  /\ ~disposing /\ now # MaxClock
  /\ now' = IF IsValid(now) THEN now + 1 ELSE 0
  /\ UNCHANGED <<trackVars, primary, window, writer, stopVars, stuck,
                 triggers, ops, fileVars>>

Next ==
  \/ \E t \in Tracks : \/ NewPreroll(t) \/ ProcessSample(t) \/ OnEos(t)
                       \/ SetPrimary(t) \/ RequestPad(t) \/ ReleasePad(t) \/ AppsrcFails(t)
  \/ \E ts \in 0 .. MaxEvent \cup {NoTime}, pre \in Pres \cup {All},
        post \in Posts \cup {All} : Trigger(ts, pre, post)
  \/ CloseTimer \/ Dispose \/ Tick

Spec == Init /\ [][Next]_vars
-----------------------------------------------------------------------------
(* Properties.                                                             *)

\* A file has each sample once and in the order of arrival, however often its
\* window was extended and whichever handler pushed it.  Changing primary-pad
\* while a file is written changes where its tracks start, and is excepted.
WrittenOnceInOrder ==
  switched \/ \A t \in Tracks : \A i, j \in DOMAIN file[t] :
                i < j => file[t][i].serial < file[t][j].serial

\* With align-start-keyframe a file starts at a keyframe when one at or before
\* the start of the window was in the cache, also when a sample before it has the
\* same running time.
KeyframeFirst ==
  AlignStart /\ keyed /\ ~switched =>
    \A t \in Tracks \cap {primary} : file[t] # <<>> => Head(file[t]).key

\* Nothing after the end of the window is in its file, so that the end which
\* window-closed reports is that of the file.  Only an EOS (of a slower track) and
\* dispose (before the first primary sample) move the end back before what was
\* written.
FileWithinWindow ==
  upstream_eos \/ disposing \/
    \A t \in Tracks : \A i \in DOMAIN file[t] : file[t][i].rt <= window.end

\* No sample of the primary track that belongs to the window leaves the cache,
\* and no window is closed, before that sample was written.
RecordedBeforeDropped ==
  [][writer.open /\ primary \in writer.linked =>
       \A i \in DOMAIN cache[primary] : LET x == cache[primary][i] IN
         /\ FromStart(State, primary, x) /\ x.rt <= window'.end
         /\ ~writer'.open \/ x.serial \notin {y.serial : y \in ToSet(cache'[primary])}
         => x.serial \in {y.serial : y \in ToSet(file'[primary])}]_vars

\* Types; outside a window every ring keeps its limit, and inside one the rings of all
\* tracks but the primary, whichever handler touched them last.  A track that was
\* primary in a window is pruned with its next sample.
CacheBounded ==
  TypeOK /\ \A t \in Tracks :
    t # primary \/ ~window.active => switched \/ Fits(cache[t])

\* While a window is written, the primary track stays cached back to a keyframe
\* that a trigger right after it could start from.  The code does not keep this
\* (README, "Known disagreements").
PreRollKept ==
  LET want == Minus(last[primary], window.retain)
      OldKey(x) == x.key /\ x.rt <= want
  IN  writer.open /\ primary \in tracks /\ IsValid(last[primary]) /\ AlignStart
      /\ window.retain >= 0 /\ last[primary] >= window.retain
      => SelectInSeq(cache[primary], OldKey) # 0

\* "The primary-pad track drives window end detection."  The code does not keep
\* this (README, "Known disagreements").
PrimaryDrivesEnd ==
  [][window.active /\ ~window'.active /\ ~disposing' =>
       \/ last'[primary] > window'.end
       \/ last'[primary] = window'.end /\ upstream_eos']_vars
=============================================================================
