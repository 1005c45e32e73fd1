---------------------------- MODULE UnixFdProofs ----------------------------
(***************************************************************************)
(* What holds of munixfdsink and munixfdsrc for every set of clients and   *)
(* buffers, every size of the sockets and every bound: types, the caps     *)
(* each buffer is read under, the reference behind each loan, and that the *)
(* sink drops no client that follows the protocol.                         *)
(*                                                                         *)
(* The inductive invariant has a part for each party.  RenderInv: what the *)
(* streaming thread is about to send, and that nobody it has still to      *)
(* serve holds that buffer.  LinkInv, ReadInv: a connection that is not    *)
(* open yet, or any more, holds nothing, and create() has a command        *)
(* exactly between header and payload.  CapsInv: along the commands that   *)
(* are on their way to a source, each buffer comes under its own caps.     *)
(* LoanInv: a buffer that is held for a client is in exactly one place.    *)
(***************************************************************************)
EXTENDS UnixFd, FiniteSetTheorems, TLAPS

Reads(c) == src[c] \in {"run", "paused"}

RenderInv ==
  /\ sink # "on" => rpc = "idle"
  /\ rpc = "idle" <=> cmd = None
  /\ rpc # "send" => todo = {} /\ (rpc # "idle" => cmd.t = "buffer")
  /\ todo \subseteq Connected
  /\ rpc # "idle" /\ cmd.t \in {"buffer", "caps"} => cmd.caps = caps
  /\ rpc # "idle" /\ cmd.t = "buffer" =>
       \A c \in Clients : rpc # "send" \/ c \in todo => cmd.b \notin held[c]

LinkInv == \A c \in Clients :
  /\ src[c] = "none" <=> link[c] = "none"
  /\ link[c] # "open" => held[c] = {}
  /\ link[c] \in {"none", "backlog"} =>
       /\ down[c] = <<>> /\ up[c] = <<>> /\ msg[c] = None /\ releasing[c] = None
       /\ \A b \in Buffers : mems[c][b] = 0

ReadInv == \A c \in Clients :
  /\ create[c] = "payload" <=> msg[c] # None
  /\ broken[c] \/ src[c] = "gone" => msg[c] = None

(* v is the caps in force before the i-th command of the queue q for a     *)
(* reader that starts with the caps base.                                  *)
InForce(q, i, base, v) ==
  \/ \E j \in 1 .. i - 1 : /\ q[j].t = "caps" /\ q[j].caps = v
                           /\ \A k \in j + 1 .. i - 1 : q[k].t # "caps"
  \/ v = base /\ \A k \in 1 .. i - 1 : q[k].t # "caps"

(* The caps of a source once it is done with the command it has begun.     *)
Base(c) == IF msg[c] # None /\ msg[c].t = "caps" THEN msg[c].caps ELSE ncaps[c]

CapsOf(c) == Reads(c) /\ ~broken[c] =>
  /\ msg[c] # None /\ msg[c].t = "buffer" => msg[c].caps = ncaps[c]
  /\ \A i \in 1 .. Len(down[c]) :
       down[c][i].t = "buffer" => InForce(down[c], i, Base(c), down[c][i].caps)
  /\ link[c] = "open" => \/ c \in todo /\ cmd.t = "caps"
                         \/ InForce(down[c], Len(down[c]) + 1, Base(c), caps)

CapsInv == \A c \in Clients : CapsOf(c)

(* Whether b has been sent, or given back, in the queue q of a socket; and  *)
(* whether nothing is in it twice.                                         *)
IsSent(q, i, b) == q[i].t = "buffer" /\ q[i].b = b
Sent(q, b)  == \E i \in 1 .. Len(q) : IsSent(q, i, b)
SentOnce(q) == \A b \in Buffers : \A i, j \in 1 .. Len(q) :
                 IsSent(q, i, b) /\ IsSent(q, j, b) => i = j
Given(q, b)  == \E i \in 1 .. Len(q) : q[i] = b
GivenOnce(q) == \A i, j \in 1 .. Len(q) : q[i] = q[j] => i = j

(* What a source has given back and the sink has not read: the release     *)
(* that is being sent comes last.                                          *)
Back(c) == IF releasing[c] = None THEN up[c] ELSE Append(up[c], releasing[c])

(* The places where a loan can be.                                         *)
OnTheWay(c, b)  == Sent(down[c], b)
HalfRead(c, b)  == msg[c] # None /\ msg[c].t = "buffer" /\ msg[c].b = b
Wrapped(c, b)   == mems[c][b] > 0
GivenBack(c, b) == Given(Back(c), b)

OnePlace(c, b) ==
  /\ OnTheWay(c, b) => ~HalfRead(c, b) /\ ~Wrapped(c, b) /\ ~GivenBack(c, b)
  /\ HalfRead(c, b) => ~Wrapped(c, b) /\ ~GivenBack(c, b)
  /\ Wrapped(c, b) => ~GivenBack(c, b)

Somewhere(c, b) == OnTheWay(c, b) \/ HalfRead(c, b) \/ Wrapped(c, b) \/ GivenBack(c, b)

Lost(c) == broken[c] \/ create[c] = "error"

Loan(c) ==
  /\ SentOnce(down[c]) /\ GivenOnce(Back(c))
  /\ \A b \in Buffers : /\ OnePlace(c, b)
                        /\ Somewhere(c, b) => b \in held[c]
                        /\ b \in held[c] => Somewhere(c, b) \/ Lost(c)

LoanInv == \A c \in Connected : Reads(c) => Loan(c)

(* The type invariant: the fields, and the two directions of each socket.  *)
FieldsOK ==
  /\ sink \in {"off", "on", "quit"} /\ svc \in {"none", "new", "run"}
  /\ loop \in BOOLEAN /\ wait_for_connection \in BOOLEAN /\ unlock \in BOOLEAN
  /\ caps \in Caps /\ eos \in BOOLEAN
  /\ mode \in {"playing", "paused", "flushing"}
  /\ want \in {None, "paused", "flushing"}
  /\ rpc \in {"idle", "render", "wait", "woken", "preroll", "send"}
  /\ cmd \in Commands \cup {None} /\ todo \subseteq Clients
  /\ link \in [Clients -> {"none", "backlog", "open", "closed"}]
  /\ held \in [Clients -> SUBSET Buffers]
  /\ src \in [Clients -> {"none", "run", "paused", "gone"}]
  /\ create \in [Clients -> {"header", "payload", "release", "eos", "error"}]
  /\ msg \in [Clients -> Commands \cup {None}] /\ broken \in [Clients -> BOOLEAN]
  /\ ncaps \in [Clients -> Caps] /\ mems \in [Clients -> [Buffers -> Nat]]
  /\ releasing \in [Clients -> Buffers \cup {None}]
  /\ frames \in 0 .. MaxFrames /\ ops \in 0 .. MaxOps

DownOK == /\ down \in [Clients -> Seq(Commands)]
          /\ \A c \in Clients : Len(down[c]) <= Cap
UpOK == /\ up \in [Clients -> Seq(Buffers)]
        /\ \A c \in Clients : Len(up[c]) <= Cap

Control == FieldsOK /\ DownOK /\ UpOK /\ RenderInv /\ LinkInv /\ ReadInv

IInv == Control /\ CapsInv /\ LoanInv

---------------------------------------------------------------------------
(* The control part, action by action.                                     *)

LEMMA ControlInit == Init => Control
<1> SUFFICES ASSUME Init PROVE Control
  OBVIOUS
<1>1. 0 \in 0 .. MaxFrames /\ 0 \in 0 .. MaxOps /\ 0 \in Caps
  BY UnixFdAssumption DEF Caps
<1>2. FieldsOK
  BY <1>1, UnixFdAssumption DEF Init, FieldsOK
<1>3. DownOK /\ UpOK
  <2>1. <<>> \in Seq(Commands) /\ <<>> \in Seq(Buffers) /\ Len(<<>>) <= Cap
    BY UnixFdAssumption
  <2>2. QED BY <2>1 DEF Init, DownOK, UpOK
<1>4. QED
  BY <1>2, <1>3 DEF Init, Control, RenderInv, LinkInv, ReadInv, Connected

LEMMA OpCounted == ASSUME FieldsOK, Op PROVE ops' \in 0 .. MaxOps
  BY UnixFdAssumption DEF FieldsOK, Op

LEMMA TailKept ==
  ASSUME NEW S, NEW q \in Seq(S), q # <<>>
  PROVE  /\ Tail(q) \in Seq(S) /\ Len(Tail(q)) = Len(q) - 1 /\ Head(q) \in S
         /\ Head(q) = q[1] /\ \A i \in 1 .. Len(q) - 1 : Tail(q)[i] = q[i + 1]
  OBVIOUS

LEMMA SocketsKept == ASSUME Control
                     PROVE  /\ UNCHANGED down => DownOK'
                            /\ UNCHANGED up => UpOK'
  BY DEF Control, DownOK, UpOK

LEMMA ControlApplication == ASSUME Control, Application PROVE Control'
<1> USE UnixFdAssumption, NoneAssumption DEF FieldsOK, RenderInv, LinkInv, ReadInv,
        Connected, sinkVars, baseVars, renderVars, connVars, srcVars, sockets
<1>1. FieldsOK /\ RenderInv /\ LinkInv /\ ReadInv
  BY DEF Control
<1>2. DownOK' /\ UpOK'
  BY SocketsKept DEF Application, Start, Stop, Stopped, Play, Unlock, UnlockStop, SetNoWait
<1>3. SUFFICES FieldsOK' /\ RenderInv' /\ LinkInv' /\ ReadInv'
  BY <1>2 DEF Control
<1>4. CASE Start
  BY <1>1, <1>4 DEF Start
<1>5. CASE Stop
  <2>1. ops' \in 0 .. MaxOps
    BY <1>1, <1>5, OpCounted DEF Stop
  <2>2. QED BY <1>1, <1>5, <2>1 DEF Stop
<1>6. CASE Stopped
  BY <1>1, <1>6 DEF Stopped, Remove, Caps
<1>7. CASE Play
  BY <1>1, <1>7 DEF Play
<1>8. CASE Unlock
  <2>1. ops' \in 0 .. MaxOps
    BY <1>1, <1>8, OpCounted DEF Unlock
  <2>2. QED BY <1>1, <1>8, <2>1 DEF Unlock, Signal, Unlocked
<1>9. CASE UnlockStop
  BY ZenonT(40), <1>1, <1>9 DEF UnlockStop, Unlocked
<1>10. CASE SetNoWait
  <2>1. /\ rpc' \in {"idle", "render", "wait", "woken", "preroll"} /\ rpc # "send"
        /\ rpc' = "idle" <=> rpc = "idle"
    BY <1>1, <1>10 DEF SetNoWait, Signal, Unlocked
  <2>2. FieldsOK'
    BY ZenonT(40), <1>1, <1>10, <2>1 DEF SetNoWait
  <2>3. RenderInv'
    BY <1>1, <1>10, <2>1 DEF SetNoWait
  <2>4. LinkInv' /\ ReadInv'
    BY <1>1, <1>10 DEF SetNoWait
  <2>5. QED BY <2>2, <2>3, <2>4
<1>11. QED
  BY <1>4, <1>5, <1>6, <1>7, <1>8, <1>9, <1>10 DEF Application

LEMMA ControlStreaming == ASSUME Control, Streaming PROVE Control'
<1> USE UnixFdAssumption, NoneAssumption DEF FieldsOK, RenderInv, LinkInv, ReadInv,
        Connected, sinkVars, baseVars, renderVars, connVars, srcVars, sockets
<1>1. FieldsOK /\ RenderInv /\ LinkInv /\ ReadInv
  BY DEF Control
<1>2. SUFFICES DownOK' /\ UpOK' /\ FieldsOK' /\ RenderInv' /\ LinkInv' /\ ReadInv'
  BY DEF Control
<1>3. CASE Render
  <2>1. PICK b \in Buffers : /\ \A c \in Clients : b \notin held[c]
                             /\ cmd' = [t |-> "buffer", b |-> b, caps |-> caps]
    BY <1>3 DEF Render
  <2>2. cmd' \in Commands /\ frames' \in 0 .. MaxFrames
    BY <1>1, <1>3, <2>1 DEF Render, Commands
  <2>3. FieldsOK' /\ RenderInv' /\ LinkInv' /\ ReadInv'
    BY <1>1, <1>3, <2>1, <2>2 DEF Render
  <2>4. QED BY <1>3, <2>3, SocketsKept DEF Render
<1>4. CASE RenderWait
  <2>1. FieldsOK' /\ RenderInv' /\ LinkInv' /\ ReadInv'
    BY <1>1, <1>4 DEF RenderWait, Serve
  <2>2. QED BY <1>4, <2>1, SocketsKept DEF RenderWait
<1>5. CASE RenderWoken
  <2>1. FieldsOK' /\ RenderInv' /\ LinkInv' /\ ReadInv'
    BY <1>1, <1>5 DEF RenderWoken
  <2>2. QED BY <1>5, <2>1, SocketsKept DEF RenderWoken
<1>6. CASE RenderPreroll
  <2>1. FieldsOK' /\ RenderInv' /\ LinkInv' /\ ReadInv'
    BY <1>1, <1>6 DEF RenderPreroll
  <2>2. QED BY <1>6, <2>1, SocketsKept DEF RenderPreroll
<1>7. CASE CapsEvent
  <2>1. ops' \in 0 .. MaxOps /\ caps' \in Caps
    BY <1>1, <1>7, OpCounted DEF CapsEvent
  <2>2. [t |-> "caps", caps |-> caps'] \in Commands
    BY <2>1 DEF Commands
  <2>3. FieldsOK' /\ RenderInv' /\ LinkInv' /\ ReadInv'
    BY <1>1, <1>7, <2>1, <2>2 DEF CapsEvent, Serve
  <2>4. QED BY <1>7, <2>3, SocketsKept DEF CapsEvent
<1>8. CASE EosEvent
  <2>1. ops' \in 0 .. MaxOps
    BY <1>1, <1>8, OpCounted DEF EosEvent
  <2>2. [t |-> "eos"] \in Commands
    BY DEF Commands
  <2>3. FieldsOK' /\ RenderInv' /\ LinkInv' /\ ReadInv'
    BY <1>1, <1>8, <2>1, <2>2 DEF EosEvent, Serve
  <2>4. QED BY <1>8, <2>3, SocketsKept DEF EosEvent
<1>9. ASSUME NEW c \in Clients, SendTo(c)
      PROVE  DownOK' /\ UpOK' /\ FieldsOK' /\ RenderInv' /\ LinkInv' /\ ReadInv'
  <2>1. cmd \in Commands /\ Keep(c) \subseteq Buffers
    BY <1>1, <1>9 DEF SendTo, Commands, Keep
  <2>2. CASE src[c] = "gone"
    <3>1. FieldsOK'
      <4>1. /\ link' \in [Clients -> {"none", "backlog", "open", "closed"}]
            /\ held' \in [Clients -> SUBSET Buffers]
        <5>1. Remove({c})
          BY <1>9, <2>2 DEF SendTo
        <5>2. QED BY <1>1, <5>1 DEF Remove
      <4>2. QED BY <1>1, <1>9, <2>1, <4>1 DEF SendTo, Serve
    <3>2. RenderInv'
      BY <1>1, <1>9, <2>1, <2>2 DEF SendTo, Serve, Remove
    <3>3. LinkInv' /\ ReadInv'
      BY <1>1, <1>9, <2>1, <2>2 DEF SendTo, Remove
    <3>4. QED BY <1>9, <2>2, <3>1, <3>2, <3>3, SocketsKept DEF SendTo
  <2>3. CASE src[c] # "gone"
    <3>1. /\ Room(c) /\ UNCHANGED link
          /\ down' = [down EXCEPT ![c] = Append(@, cmd)]
          /\ held' = [held EXCEPT ![c] = @ \cup Keep(c)]
      BY <1>9, <2>3 DEF SendTo
    <3>2. DownOK'
      <4>1. Append(down[c], cmd) \in Seq(Commands) /\ Len(Append(down[c], cmd)) <= Cap
        BY <2>1, <3>1 DEF Room, Control, DownOK
      <4>2. QED BY <3>1, <4>1 DEF Control, DownOK
    <3>3. FieldsOK'
      BY <1>1, <1>9, <2>1, <3>1 DEF SendTo, Serve
    <3>4. RenderInv'
      BY <1>1, <1>9, <2>1, <3>1 DEF SendTo, Serve, Keep
    <3>5. LinkInv' /\ ReadInv'
      BY <1>1, <1>9, <2>1, <3>1 DEF SendTo
    <3>6. UpOK'
      BY <1>9, SocketsKept DEF SendTo
    <3>7. QED BY <3>2, <3>3, <3>4, <3>5, <3>6
  <2>4. QED BY <2>2, <2>3
<1>10. QED
  BY <1>3, <1>4, <1>5, <1>6, <1>7, <1>8, <1>9 DEF Streaming

LEMMA ControlService == ASSUME Control, Service PROVE Control'
<1> USE UnixFdAssumption, NoneAssumption DEF FieldsOK, RenderInv, LinkInv, ReadInv,
        Connected, sinkVars, baseVars, renderVars, connVars, srcVars, sockets
<1>1. FieldsOK /\ RenderInv /\ LinkInv /\ ReadInv
  BY DEF Control
<1>2. SUFFICES DownOK' /\ UpOK' /\ FieldsOK' /\ RenderInv' /\ LinkInv' /\ ReadInv'
  BY DEF Control
<1>3. CASE SvcRun
  <2>1. FieldsOK' /\ RenderInv' /\ LinkInv' /\ ReadInv'
    BY <1>1, <1>3 DEF SvcRun
  <2>2. QED BY <1>3, <2>1, SocketsKept DEF SvcRun
<1>8. CASE SvcExit
  <2>1. FieldsOK' /\ RenderInv' /\ LinkInv' /\ ReadInv'
    BY <1>1, <1>8 DEF SvcExit
  <2>2. QED BY <1>8, <2>1, SocketsKept DEF SvcExit
<1>4. ASSUME NEW c \in Clients, NewClient(c)
      PROVE  DownOK' /\ UpOK' /\ FieldsOK' /\ RenderInv' /\ LinkInv' /\ ReadInv'
  <2>1. /\ rpc' \in {"idle", "render", "wait", "woken", "preroll"} /\ rpc # "send"
        /\ rpc' = "idle" <=> rpc = "idle"
    BY <1>1, <1>4 DEF NewClient, Signal, Unlocked
  <2>2. \E x \in {"open", "closed"} : link' = [link EXCEPT ![c] = x]
    BY <1>4 DEF NewClient
  <2>3. FieldsOK'
    BY <1>1, <1>4, <2>1, <2>2 DEF NewClient
  <2>4. RenderInv'
    BY <1>1, <1>4, <2>1, <2>2 DEF NewClient
  <2>5. LinkInv' /\ ReadInv'
    <3>1. /\ link'[c] \in {"open", "closed"} /\ link[c] = "backlog"
          /\ \A d \in Clients \ {c} : link'[d] = link[d] /\ down'[d] = down[d]
      BY <1>1, <1>4 DEF NewClient, Control, DownOK
    <3>2. LinkInv'
      BY <1>1, <1>4, <3>1 DEF NewClient
    <3>3. ReadInv'
      BY <1>1, <1>4 DEF NewClient
    <3>4. QED BY <3>2, <3>3
  <2>6. DownOK'
    <3>1. Welcome \in Seq(Commands) /\ Len(Welcome) <= Cap
      BY <1>1 DEF Welcome, Commands
    <3>2. CASE UNCHANGED down
      BY <3>2, SocketsKept
    <3>3. CASE down' = [down EXCEPT ![c] = Welcome]
      BY <3>1, <3>3 DEF Control, DownOK
    <3>4. QED BY <1>4, <3>2, <3>3 DEF NewClient
  <2>7. QED BY <1>4, <2>3, <2>4, <2>5, <2>6, SocketsKept DEF NewClient
<1>5. ASSUME NEW c \in Clients, IncomingRelease(c)
      PROVE  DownOK' /\ UpOK' /\ FieldsOK' /\ RenderInv' /\ LinkInv' /\ ReadInv'
  <2>1. \/ held' = [held EXCEPT ![c] = @ \ {Head(up[c])}] /\ UNCHANGED link
        \/ Remove({c})
    BY <1>5 DEF IncomingRelease
  <2>2. /\ link' \in [Clients -> {"none", "backlog", "open", "closed"}]
        /\ held' \in [Clients -> SUBSET Buffers]
        /\ \A d \in Clients : held'[d] \subseteq held[d]
    <3>1. CASE held' = [held EXCEPT ![c] = @ \ {Head(up[c])}] /\ UNCHANGED link
      BY <1>1, <3>1
    <3>2. CASE Remove({c})
      BY <1>1, <3>2 DEF Remove
    <3>3. QED BY <2>1, <3>1, <3>2
  <2>7. FieldsOK'
    BY <1>1, <1>5, <2>2 DEF IncomingRelease
  <2>3. RenderInv'
    BY <1>1, <1>5, <2>1, <2>2 DEF IncomingRelease, Unlocked
  <2>4. LinkInv' /\ ReadInv'
    <3>1. /\ link[c] = "open" /\ link'[c] \in {"open", "closed"}
          /\ link'[c] = "closed" => held'[c] = {}
          /\ \A d \in Clients \ {c} : /\ link'[d] = link[d] /\ held'[d] = held[d]
                                       /\ up'[d] = up[d]
      BY <1>1, <1>5, <2>1 DEF IncomingRelease, Remove, Control, UpOK
    <3>2. LinkInv'
      BY <1>1, <1>5, <3>1 DEF IncomingRelease
    <3>3. ReadInv'
      BY <1>1, <1>5 DEF IncomingRelease
    <3>4. QED BY <3>2, <3>3
  <2>5. UpOK'
    <3>1. Tail(up[c]) \in Seq(Buffers) /\ Len(Tail(up[c])) <= Cap
      BY <1>5, TailKept DEF IncomingRelease, Control, UpOK
    <3>2. QED BY <1>5, <3>1 DEF IncomingRelease, Control, UpOK
  <2>6. QED BY <1>5, <2>7, <2>3, <2>4, <2>5, SocketsKept DEF IncomingRelease
<1>6. ASSUME NEW c \in Clients, IncomingClosed(c)
      PROVE  DownOK' /\ UpOK' /\ FieldsOK' /\ RenderInv' /\ LinkInv' /\ ReadInv'
  <2>1. FieldsOK' /\ RenderInv'
    BY <1>1, <1>6 DEF IncomingClosed, Remove, Unlocked
  <2>2. LinkInv' /\ ReadInv'
    BY <1>1, <1>6 DEF IncomingClosed, Remove
  <2>3. QED BY <1>6, <2>1, <2>2, SocketsKept DEF IncomingClosed
<1>7. QED
  BY <1>3, <1>4, <1>5, <1>6, <1>8 DEF Service

LEMMA ControlSource == ASSUME Control, NEW c \in Clients, Source(c) PROVE Control'
<1> USE UnixFdAssumption, NoneAssumption DEF FieldsOK, RenderInv, LinkInv, ReadInv,
        Connected, sinkVars, baseVars, renderVars, connVars, srcVars, sockets
<1>1. FieldsOK /\ RenderInv /\ LinkInv /\ ReadInv
  BY DEF Control
<1>2. SUFFICES DownOK' /\ UpOK' /\ FieldsOK' /\ RenderInv' /\ LinkInv' /\ ReadInv'
  BY DEF Control
<1>3. CASE SrcStart(c)
  <2>1. FieldsOK' /\ RenderInv'
    BY <1>1, <1>3 DEF SrcStart
  <2>2. LinkInv' /\ ReadInv'
    BY <1>1, <1>3 DEF SrcStart
  <2>3. QED BY <1>3, <2>1, <2>2, SocketsKept DEF SrcStart
<1>4. CASE ReadHeader(c)
  <2>1. /\ Tail(down[c]) \in Seq(Commands) /\ Len(Tail(down[c])) <= Cap
        /\ Head(down[c]) \in Commands
    BY <1>4, TailKept DEF ReadHeader, Control, DownOK
  <2>2. DownOK'
    BY <1>4, <2>1 DEF ReadHeader, Control, DownOK
  <2>3. FieldsOK' /\ RenderInv'
    BY <1>1, <1>4, <2>1 DEF ReadHeader
  <2>4. LinkInv' /\ ReadInv'
    BY <1>1, <1>4, <2>1 DEF ReadHeader, Control, DownOK
  <2>5. QED BY <1>4, <2>2, <2>3, <2>4, SocketsKept DEF ReadHeader
<1>5. CASE ReadFails(c)
  <2>1. FieldsOK' /\ RenderInv' /\ LinkInv' /\ ReadInv'
    BY <1>1, <1>5 DEF ReadFails
  <2>2. QED BY <1>5, <2>1, SocketsKept DEF ReadFails
<1>6. CASE ReadBroken(c)
  <2>1. Tail(down[c]) \in Seq(Commands) /\ Len(Tail(down[c])) <= Cap
    BY <1>6, TailKept DEF ReadBroken, Control, DownOK
  <2>0. create' \in {create, [create EXCEPT ![c] = "error"]}
    BY <1>6 DEF ReadBroken
  <2>2. DownOK'
    <3>1. CASE UNCHANGED down
      BY <3>1, SocketsKept
    <3>2. CASE down' = [down EXCEPT ![c] = Tail(@)]
      BY <2>1, <3>2 DEF Control, DownOK
    <3>3. QED BY <1>6, <3>1, <3>2 DEF ReadBroken
  <2>3. FieldsOK' /\ RenderInv'
    <3>1. create' \in [Clients -> {"header", "payload", "release", "eos", "error"}]
      BY <1>1, <2>0
    <3>2. QED BY <1>1, <1>6, <3>1 DEF ReadBroken
  <2>4. LinkInv' /\ ReadInv'
    BY <1>1, <1>6 DEF ReadBroken, Control, DownOK
  <2>5. QED BY <1>6, <2>2, <2>3, <2>4, SocketsKept DEF ReadBroken
<1>7. CASE Wrap(c)
  <2>1. msg[c] \in Commands /\ msg[c].t = "buffer" /\ msg[c].b \in Buffers
    BY <1>1, <1>7 DEF Wrap, Commands
  <2>2. FieldsOK' /\ RenderInv'
    <3>1. /\ NumMems[msg[c].b] \in Nat
          /\ \E x \in {"header", "release"} : create' = [create EXCEPT ![c] = x]
          /\ \E x \in Buffers : releasing' \in {releasing, [releasing EXCEPT ![c] = x]}
      BY <1>7, <2>1 DEF Wrap
    <3>2. /\ create' \in [Clients -> {"header", "payload", "release", "eos", "error"}]
          /\ releasing' \in [Clients -> Buffers \cup {None}]
      BY <1>1, <3>1
    <3>3. mems' \in [Clients -> [Buffers -> Nat]]
      BY <1>1, <1>7, <3>1 DEF Wrap
    <3>4. msg' \in [Clients -> Commands \cup {None}]
      BY <1>1, <1>7 DEF Wrap
    <3>5. QED BY <1>1, <1>7, <3>2, <3>3, <3>4 DEF Wrap
  <2>3. /\ create'[c] # "payload" /\ msg'[c] = None /\ link[c] \notin {"none", "backlog"}
        /\ \A d \in Clients \ {c} : /\ create'[d] = create[d] /\ msg'[d] = msg[d]
                                     /\ mems'[d] = mems[d] /\ releasing'[d] = releasing[d]
    BY <1>1, <1>7, <2>1 DEF Wrap
  <2>4. LinkInv'
    BY <1>1, <1>7, <2>3 DEF Wrap
  <2>5. ReadInv'
    BY <1>1, <1>7, <2>3 DEF Wrap
  <2>6. QED BY <1>7, <2>2, <2>4, <2>5, SocketsKept DEF Wrap
<1>16. CASE ReleaseSent(c)
  <2>1. releasing[c] \in Buffers
    BY <1>1, <1>16 DEF ReleaseSent
  <2>2. UpOK' /\ \A d \in Clients \ {c} : up'[d] = up[d]
    <3>1. CASE UNCHANGED up
      BY <3>1, SocketsKept
    <3>2. CASE ReleaseRoom(c) /\ up' = [up EXCEPT ![c] = Append(@, releasing[c])]
      <4>1. /\ Append(up[c], releasing[c]) \in Seq(Buffers)
            /\ Len(Append(up[c], releasing[c])) <= Cap
        BY <2>1, <3>2 DEF Control, UpOK, ReleaseRoom
      <4>2. QED BY <3>2, <4>1 DEF Control, UpOK
    <3>3. QED BY <1>16, <3>1, <3>2 DEF ReleaseSent
  <2>3. FieldsOK' /\ RenderInv'
    BY <1>1, <1>16 DEF ReleaseSent
  <2>4. /\ create'[c] = "payload" <=> create[c] = "payload"
        /\ link[c] \notin {"none", "backlog"} /\ releasing'[c] = None
        /\ \A d \in Clients \ {c} : create'[d] = create[d] /\ releasing'[d] = releasing[d]
    BY <1>1, <1>16 DEF ReleaseSent
  <2>5. LinkInv'
    BY <1>1, <1>16, <2>2, <2>4 DEF ReleaseSent
  <2>6. ReadInv'
    BY <1>1, <1>16, <2>4 DEF ReleaseSent
  <2>7. QED BY <1>16, <2>2, <2>3, <2>5, <2>6, SocketsKept DEF ReleaseSent
<1>8. CASE SetCaps(c)
  <2>1. msg[c] \in Commands /\ msg[c].t = "caps" /\ msg[c].caps \in Caps
    BY <1>1, <1>8 DEF SetCaps, Commands
  <2>2. FieldsOK' /\ RenderInv' /\ LinkInv' /\ ReadInv'
    BY <1>1, <1>8, <2>1 DEF SetCaps
  <2>3. QED BY <1>8, <2>2, SocketsKept DEF SetCaps
<1>9. CASE ReceiveEos(c)
  <2>1. FieldsOK' /\ RenderInv' /\ LinkInv' /\ ReadInv'
    BY <1>1, <1>9 DEF ReceiveEos
  <2>2. QED BY <1>9, <2>1, SocketsKept DEF ReceiveEos
<1>10. CASE WrapFails(c)
  <2>1. ops' \in 0 .. MaxOps
    BY <1>1, <1>10, OpCounted DEF WrapFails
  <2>2. FieldsOK' /\ RenderInv' /\ LinkInv' /\ ReadInv'
    BY <1>1, <1>10, <2>1 DEF WrapFails
  <2>3. QED BY <1>10, <2>2, SocketsKept DEF WrapFails
<1>11. CASE SrcUnlock(c)
  <2>1. ops' \in 0 .. MaxOps
    BY <1>1, <1>11, OpCounted DEF SrcUnlock
  <2>2. FieldsOK' /\ RenderInv'
    <3>1. CASE create[c] = "payload" /\ ~UNCHANGED msg
      <4>1. /\ create' \in [Clients -> {"header", "payload", "release", "eos", "error"}]
            /\ msg' \in [Clients -> Commands \cup {None}]
        <5>1. /\ \E x \in {"header", "eos"} : create' = [create EXCEPT ![c] = x]
              /\ msg' = [msg EXCEPT ![c] = None]
          BY <1>11, <3>1 DEF SrcUnlock
        <5>2. QED BY <1>1, <5>1
      <4>2. broken' \in [Clients -> BOOLEAN]
        <5>1. PICK x \in BOOLEAN : broken' = [broken EXCEPT ![c] = x]
          BY <1>11, <3>1 DEF SrcUnlock
        <5>2. QED BY <1>1, <5>1
      <4>3. /\ src' = [src EXCEPT ![c] = "paused"]
            /\ UNCHANGED <<sinkVars, baseVars, renderVars, connVars, ncaps, mems, releasing, frames>>
        BY <1>11 DEF SrcUnlock
      <4>4. QED BY <1>1, <2>1, <4>1, <4>2, <4>3
    <3>2. CASE UNCHANGED <<broken, create, msg>>
      BY <1>1, <1>11, <2>1, <3>2 DEF SrcUnlock
    <3>3. create[c] = "payload" => msg[c] # None
      BY <1>1
    <3>4. UNCHANGED <<broken, create, msg>> \/ (create[c] = "payload" /\ msg'[c] = None)
      BY <1>1, <1>11 DEF SrcUnlock
    <3>5. QED BY <3>1, <3>2, <3>3, <3>4
  <2>3. LinkInv' /\ ReadInv'
    BY <1>1, <1>11 DEF SrcUnlock
  <2>4. QED BY <1>11, <2>2, <2>3, SocketsKept DEF SrcUnlock
<1>12. CASE SrcUnlockStop(c)
  <2>1. FieldsOK' /\ RenderInv' /\ LinkInv' /\ ReadInv'
    BY <1>1, <1>12 DEF SrcUnlockStop
  <2>2. QED BY <1>12, <2>1, SocketsKept DEF SrcUnlockStop
<1>13. ASSUME NEW b \in Buffers, MemoryWeakRef(c, b)
       PROVE  DownOK' /\ UpOK' /\ FieldsOK' /\ RenderInv' /\ LinkInv' /\ ReadInv'
  <2>1. mems[c][b] - 1 \in Nat /\ mems[c][b] # 0
    BY <1>1, <1>13 DEF MemoryWeakRef
  <2>2. FieldsOK' /\ RenderInv'
    <3>1. releasing' = [releasing EXCEPT ![c] = b] \/ UNCHANGED releasing
      BY <1>13 DEF MemoryWeakRef
    <3>2. releasing' \in [Clients -> Buffers \cup {None}]
      <4>1. CASE releasing' = [releasing EXCEPT ![c] = b]
        BY <1>1, <4>1
      <4>2. CASE UNCHANGED releasing
        BY <1>1, <4>2
      <4>3. QED BY <3>1, <4>1, <4>2
    <3>3. mems' \in [Clients -> [Buffers -> Nat]]
      BY <1>1, <1>13, <2>1 DEF MemoryWeakRef
    <3>4. QED BY <1>1, <1>13, <3>2, <3>3 DEF MemoryWeakRef
  <2>3. /\ link[c] \notin {"none", "backlog"}
        /\ \A d \in Clients \ {c} : mems'[d] = mems[d] /\ releasing'[d] = releasing[d]
    BY <1>1, <1>13, <2>1 DEF MemoryWeakRef
  <2>4. LinkInv'
    BY <1>1, <1>13, <2>3 DEF MemoryWeakRef
  <2>5. ReadInv'
    BY <1>1, <1>13 DEF MemoryWeakRef
  <2>6. QED BY <1>13, <2>2, <2>4, <2>5, SocketsKept DEF MemoryWeakRef
<1>14. CASE SrcStop(c)
  <2>1. ops' \in 0 .. MaxOps /\ [b \in Buffers |-> 0] \in [Buffers -> Nat]
    BY <1>1, <1>14, OpCounted DEF SrcStop
  <2>2. DownOK'
    BY <1>14 DEF SrcStop, Control, DownOK
  <2>3. FieldsOK' /\ RenderInv'
    BY <1>1, <1>14, <2>1 DEF SrcStop
  <2>4. LinkInv' /\ ReadInv'
    BY <1>1, <1>14 DEF SrcStop, Control, DownOK
  <2>5. QED BY <1>14, <2>2, <2>3, <2>4, SocketsKept DEF SrcStop
<1>15. QED
  BY <1>3, <1>4, <1>5, <1>6, <1>7, <1>8, <1>9, <1>10, <1>11, <1>12, <1>13, <1>14, <1>16
     DEF Source, Create

LEMMA ControlStep == ASSUME Control, [Next]_vars PROVE Control'
<1>1. CASE UNCHANGED vars
  BY <1>1 DEF Control, FieldsOK, DownOK, UpOK, RenderInv, LinkInv, ReadInv, Connected, vars,
              sinkVars, baseVars, renderVars, connVars, srcVars, sockets
<1>2. QED
  BY <1>1, ControlApplication, ControlStreaming, ControlService, ControlSource DEF Next

---------------------------------------------------------------------------
(* The caps along a queue of commands.                                     *)

LEMMA InForceAppended ==
  ASSUME NEW q \in Seq(Commands), NEW e \in Commands, NEW base, NEW v
  PROVE  /\ \A i \in 1 .. Len(q) + 1 :
              InForce(q, i, base, v) => InForce(Append(q, e), i, base, v)
         /\ e.t = "caps" /\ e.caps = v => InForce(Append(q, e), Len(q) + 2, base, v)
         /\ e.t # "caps" /\ InForce(q, Len(q) + 1, base, v)
              => InForce(Append(q, e), Len(q) + 2, base, v)
<1> DEFINE r == Append(q, e)
<1>1. /\ Len(q) \in Nat /\ r[Len(q) + 1] = e /\ Len(r) = Len(q) + 1
      /\ \A i \in 1 .. Len(q) : r[i] = q[i]
  OBVIOUS
<1> HIDE DEF r
<1>2. ASSUME NEW i \in 1 .. Len(q) + 1, InForce(q, i, base, v) PROVE InForce(r, i, base, v)
  <2>1. \A k \in 1 .. i - 1 : k \in 1 .. Len(q) /\ r[k] = q[k]
    BY <1>1
  <2>2. CASE \E j \in 1 .. i - 1 : /\ q[j].t = "caps" /\ q[j].caps = v
                                  /\ \A k \in j + 1 .. i - 1 : q[k].t # "caps"
    <3>1. PICK j \in 1 .. i - 1 : /\ q[j].t = "caps" /\ q[j].caps = v
                                 /\ \A k \in j + 1 .. i - 1 : q[k].t # "caps"
      BY <2>2
    <3>2. /\ r[j].t = "caps" /\ r[j].caps = v
          /\ \A k \in j + 1 .. i - 1 : k \in 1 .. i - 1 /\ r[k].t # "caps"
      BY <2>1, <3>1
    <3>3. QED BY <3>1, <3>2 DEF InForce
  <2>3. CASE v = base /\ \A k \in 1 .. i - 1 : q[k].t # "caps"
    BY <2>1, <2>3 DEF InForce
  <2>4. QED BY <1>2, <2>2, <2>3 DEF InForce
<1>3. ASSUME e.t = "caps", e.caps = v PROVE InForce(r, Len(q) + 2, base, v)
  BY <1>1, <1>3 DEF InForce
<1>4. ASSUME e.t # "caps", InForce(q, Len(q) + 1, base, v)
      PROVE  InForce(r, Len(q) + 2, base, v)
  <2>1. CASE \E j \in 1 .. Len(q) : /\ q[j].t = "caps" /\ q[j].caps = v
                                   /\ \A k \in j + 1 .. Len(q) : q[k].t # "caps"
    <3>1. PICK j \in 1 .. Len(q) : /\ q[j].t = "caps" /\ q[j].caps = v
                                  /\ \A k \in j + 1 .. Len(q) : q[k].t # "caps"
      BY <2>1
    <3>2. \A k \in j + 1 .. Len(q) + 1 : r[k].t # "caps"
      BY <1>1, <1>4, <3>1
    <3>3. r[j].t = "caps" /\ r[j].caps = v /\ j \in 1 .. Len(q) + 1
      BY <1>1, <3>1
    <3>4. QED BY <1>1, <3>2, <3>3 DEF InForce
  <2>2. CASE v = base /\ \A k \in 1 .. Len(q) : q[k].t # "caps"
    <3>1. \A k \in 1 .. Len(q) + 1 : r[k].t # "caps"
      BY <1>1, <1>4, <2>2
    <3>2. QED BY <1>1, <2>2, <3>1 DEF InForce
  <2>3. QED BY <1>1, <1>4, <2>1, <2>2 DEF InForce
<1>5. QED BY <1>2, <1>3, <1>4 DEF r

LEMMA InForceTail ==
  ASSUME NEW q \in Seq(Commands), q # <<>>, NEW base, NEW v, NEW i \in 1 .. Len(q),
         InForce(q, i + 1, base, v)
  PROVE  InForce(Tail(q), i, IF q[1].t = "caps" THEN q[1].caps ELSE base, v)
<1> DEFINE r == Tail(q)
           new == IF q[1].t = "caps" THEN q[1].caps ELSE base
<1>1. Len(q) \in Nat /\ \A k \in 1 .. Len(q) - 1 : r[k] = q[k + 1]
  BY TailKept
<1> HIDE DEF r
<1>2. CASE \E j \in 1 .. i : /\ q[j].t = "caps" /\ q[j].caps = v
                            /\ \A k \in j + 1 .. i : q[k].t # "caps"
  <2>1. PICK j \in 1 .. i : /\ q[j].t = "caps" /\ q[j].caps = v
                           /\ \A k \in j + 1 .. i : q[k].t # "caps"
    BY <1>2
  <2>2. \A k \in j .. i - 1 : k \in 1 .. Len(q) - 1 /\ r[k].t # "caps"
    BY <1>1, <2>1
  <2>3. CASE j = 1
    BY <2>1, <2>2, <2>3 DEF InForce
  <2>4. CASE j # 1
    <3>1. j - 1 \in 1 .. i - 1 /\ r[j - 1] = q[j]
      BY <1>1, <2>4
    <3>2. \A k \in (j - 1) + 1 .. i - 1 : r[k].t # "caps"
      BY <2>2
    <3>3. QED BY <2>1, <3>1, <3>2 DEF InForce
  <2>5. QED BY <2>3, <2>4
<1>3. CASE v = base /\ \A k \in 1 .. i : q[k].t # "caps"
  <2>1. \A k \in 1 .. i - 1 : r[k].t # "caps"
    BY <1>1, <1>3
  <2>2. new = base
    BY <1>3
  <2>3. QED BY <1>3, <2>1, <2>2 DEF InForce
<1>4. QED BY <1>2, <1>3 DEF InForce, r

(* What a client needs in order to read the same caps after a step.        *)
LEMMA CapsKept ==
  ASSUME NEW d \in Clients, CapsOf(d),
         Reads(d)' => Reads(d) /\ (broken[d] => broken'[d]),
         down'[d] = down[d], Reads(d)' /\ ~broken'[d] => Base(d)' = Base(d),
         msg'[d] = None \/ (msg'[d] = msg[d] /\ ncaps'[d] = ncaps[d]),
         link'[d] = "open" =>
           /\ link[d] = "open" /\ caps' = caps
           /\ d \in todo /\ cmd.t = "caps" => d \in todo' /\ cmd'.t = "caps"
  PROVE  CapsOf(d)'
<1>1. SUFFICES ASSUME Reads(d)', ~broken'[d] PROVE CapsOf(d)'
  BY DEF CapsOf
<1>2. Base(d)' = Base(d) /\ Reads(d) /\ ~broken[d]
  BY <1>1
<1>3. \A i \in 1 .. Len(down'[d]) :
        down'[d][i].t = "buffer" => InForce(down'[d], i, Base(d)', down'[d][i].caps)
  BY <1>2 DEF CapsOf
<1>4. msg'[d] # None /\ msg'[d].t = "buffer" => msg'[d].caps = ncaps'[d]
  BY <1>2 DEF CapsOf
<1>5. link'[d] = "open" => \/ d \in todo' /\ cmd'.t = "caps"
                          \/ InForce(down'[d], Len(down'[d]) + 1, Base(d)', caps')
  BY <1>2 DEF CapsOf
<1>6. QED BY <1>3, <1>4, <1>5 DEF CapsOf

(* A step of one source leaves the others, and what the sink does, alone.  *)
LEMMA SourceOthers ==
  ASSUME Control, NEW c \in Clients, Source(c), NEW d \in Clients
  PROVE  /\ UNCHANGED <<caps, todo, cmd, rpc, held>>
         /\ d # c => /\ src'[d] = src[d] /\ create'[d] = create[d] /\ msg'[d] = msg[d]
                     /\ broken'[d] = broken[d] /\ ncaps'[d] = ncaps[d] /\ mems'[d] = mems[d]
                     /\ releasing'[d] = releasing[d] /\ down'[d] = down[d]
                     /\ up'[d] = up[d] /\ link'[d] = link[d]
<1> USE DEF srcVars, sockets, renderVars, connVars
<1>1. /\ link \in [Clients -> {"none", "backlog", "open", "closed"}]
      /\ src \in [Clients -> {"none", "run", "paused", "gone"}]
      /\ create \in [Clients -> {"header", "payload", "release", "eos", "error"}]
      /\ msg \in [Clients -> Commands \cup {None}] /\ broken \in [Clients -> BOOLEAN]
      /\ ncaps \in [Clients -> Caps] /\ mems \in [Clients -> [Buffers -> Nat]]
      /\ releasing \in [Clients -> Buffers \cup {None}]
      /\ down \in [Clients -> Seq(Commands)] /\ up \in [Clients -> Seq(Buffers)]
  BY DEF Control, FieldsOK, DownOK, UpOK
<1> DEFINE Others == /\ UNCHANGED <<caps, todo, cmd, rpc, held>>
                     /\ d # c => /\ src'[d] = src[d] /\ create'[d] = create[d] /\ msg'[d] = msg[d]
                                 /\ broken'[d] = broken[d] /\ ncaps'[d] = ncaps[d]
                                 /\ mems'[d] = mems[d] /\ releasing'[d] = releasing[d]
                                 /\ down'[d] = down[d]
                                 /\ up'[d] = up[d] /\ link'[d] = link[d]
<1>2. CASE SrcStart(c)
  BY <1>1, <1>2 DEF SrcStart
<1>3. CASE ReadHeader(c)
  BY <1>1, <1>3 DEF ReadHeader
<1>4. CASE ReadFails(c)
  BY <1>1, <1>4 DEF ReadFails
<1>5. CASE ReadBroken(c)
  BY <1>1, <1>5 DEF ReadBroken
<1>6. CASE Wrap(c)
  BY <1>1, <1>6 DEF Wrap
<1>7. CASE SetCaps(c)
  BY <1>1, <1>7 DEF SetCaps
<1>8. CASE ReceiveEos(c)
  BY <1>1, <1>8 DEF ReceiveEos
<1>9. CASE WrapFails(c)
  BY <1>1, <1>9 DEF WrapFails
<1>10. CASE SrcUnlock(c)
  BY <1>1, <1>10 DEF SrcUnlock
<1>11. CASE SrcUnlockStop(c)
  BY <1>1, <1>11 DEF SrcUnlockStop
<1>12. CASE SrcStop(c)
  BY <1>1, <1>12 DEF SrcStop
<1>13. ASSUME NEW b \in Buffers, MemoryWeakRef(c, b) PROVE Others
  BY <1>1, <1>13 DEF MemoryWeakRef
<1>15. CASE ReleaseSent(c)
  BY <1>1, <1>15 DEF ReleaseSent
<1>14. QED
  BY <1>2, <1>3, <1>4, <1>5, <1>6, <1>7, <1>8, <1>9, <1>10, <1>11, <1>12, <1>13, <1>15
     DEF Source, Create

LEMMA CapsSource ==
  ASSUME Control, CapsInv, NEW c \in Clients, Source(c)
  PROVE  CapsInv'
<1> USE NoneAssumption
<1>1. SUFFICES ASSUME NEW d \in Clients PROVE CapsOf(d)'
  BY DEF CapsInv
<1>2. CapsOf(d) /\ CapsOf(c)
  BY DEF CapsInv
<1>3. CASE d # c
  BY <1>2, <1>3, SourceOthers, CapsKept DEF Reads, Base
<1>17. SUFFICES CapsOf(c)'
  BY <1>3
<1>4. UNCHANGED <<caps, todo, cmd>>
  BY SourceOthers
<1>5. ASSUME UNCHANGED down, msg'[c] = None \/ (msg'[c] = msg[c] /\ ncaps'[c] = ncaps[c]),
             link'[c] = link[c], Reads(c)' => Reads(c) /\ (broken[c] => broken'[c]),
             Reads(c)' /\ ~broken'[c] => Base(c)' = Base(c)
      PROVE  CapsOf(c)'
  BY <1>2, <1>4, <1>5, CapsKept
<1>6. /\ src \in [Clients -> {"none", "run", "paused", "gone"}]
      /\ create \in [Clients -> {"header", "payload", "release", "eos", "error"}]
      /\ msg \in [Clients -> Commands \cup {None}] /\ broken \in [Clients -> BOOLEAN]
      /\ ncaps \in [Clients -> Caps] /\ link \in [Clients -> {"none", "backlog", "open", "closed"}]
      /\ down \in [Clients -> Seq(Commands)]
  BY DEF Control, FieldsOK, DownOK
<1> USE DEF srcVars, sockets, renderVars, connVars
<1>7. CASE SrcStart(c)
  <2>1. link[c] = "none" /\ down[c] = <<>> /\ msg[c] = None
    BY <1>7 DEF SrcStart, Control, LinkInv
  <2>2. link'[c] = "backlog" /\ down'[c] = <<>> /\ msg'[c] = None
    BY <1>6, <1>7, <2>1 DEF SrcStart
  <2>3. QED BY <2>2 DEF CapsOf
<1>8. CASE ReadHeader(c)
  <2> DEFINE q == down[c]
  <2>1. /\ q \in Seq(Commands) /\ q # <<>> /\ down'[c] = Tail(q) /\ msg'[c] = q[1]
        /\ msg[c] = None /\ ~broken[c] /\ Reads(c) /\ UNCHANGED <<link, ncaps>>
        /\ q[1] \in Commands /\ Len(q) \in Nat \ {0}
        /\ Len(Tail(q)) = Len(q) - 1 /\ \A i \in 1 .. Len(q) - 1 : Tail(q)[i] = q[i + 1]
    <3>1. q \in Seq(Commands) /\ q # <<>>
      BY <1>6, <1>8 DEF ReadHeader
    <3>2. create[c] = "header" /\ msg[c] = None
      BY <1>8 DEF ReadHeader, Control, ReadInv
    <3>3. /\ Head(q) = q[1] /\ q[1] \in Commands /\ Len(q) \in Nat \ {0}
          /\ Len(Tail(q)) = Len(q) - 1 /\ \A i \in 1 .. Len(q) - 1 : Tail(q)[i] = q[i + 1]
      BY <3>1, TailKept
    <3>4. QED BY <1>6, <1>8, <3>1, <3>2, <3>3 DEF ReadHeader, Reads
  <2>2. Base(c) = ncaps[c] /\ Base(c)' = IF q[1].t = "caps" THEN q[1].caps ELSE Base(c)
    BY <2>1 DEF Base
  <2> HIDE DEF q
  <2>3. /\ \A i \in 1 .. Len(q) : q[i].t = "buffer" => InForce(q, i, Base(c), q[i].caps)
        /\ link[c] = "open" => \/ c \in todo /\ cmd.t = "caps"
                               \/ InForce(q, Len(q) + 1, Base(c), caps)
    BY <1>2, <2>1 DEF CapsOf, q
  <2>4. \A i \in 1 .. Len(q) - 1 :
          Tail(q)[i].t = "buffer" => InForce(Tail(q), i, Base(c)', Tail(q)[i].caps)
    <3>1. SUFFICES ASSUME NEW i \in 1 .. Len(q) - 1, q[i + 1].t = "buffer"
                   PROVE  InForce(Tail(q), i, Base(c)', q[i + 1].caps)
      BY <2>1
    <3>2. InForce(q, i + 1, Base(c), q[i + 1].caps) /\ i \in 1 .. Len(q)
      BY <2>1, <2>3, <3>1
    <3>3. QED BY <2>1, <2>2, <3>2, InForceTail
  <2>5. InForce(q, Len(q) + 1, Base(c), caps) => InForce(Tail(q), Len(q), Base(c)', caps)
    BY <2>1, <2>2, InForceTail
  <2>6. msg'[c].t = "buffer" => msg'[c].caps = ncaps'[c]
    <3>1. InForce(q, 1, Base(c), q[1].caps) => q[1].caps = Base(c)
      BY DEF InForce
    <3>2. QED BY <2>1, <2>2, <2>3, <3>1
  <2>7. /\ down'[c] = Tail(q) /\ Len(Tail(q)) + 1 = Len(q) /\ caps' = caps
        /\ link'[c] = link[c] /\ todo' = todo /\ cmd' = cmd
    BY <1>4, <2>1
  <2>8. \A i \in 1 .. Len(down'[c]) :
          down'[c][i].t = "buffer" => InForce(down'[c], i, Base(c)', down'[c][i].caps)
    BY <2>1, <2>4, <2>7
  <2>9. link'[c] = "open" => \/ c \in todo' /\ cmd'.t = "caps"
                            \/ InForce(down'[c], Len(down'[c]) + 1, Base(c)', caps')
    BY <2>3, <2>5, <2>7
  <2>10. QED BY <2>6, <2>8, <2>9 DEF CapsOf
<1>9. CASE ReadBroken(c)
  BY <1>9 DEF ReadBroken, CapsOf
<1>10. CASE ReadFails(c)
  BY <1>5, <1>10 DEF ReadFails, Reads, Base
<1>11. CASE Wrap(c) \/ WrapFails(c) \/ ReceiveEos(c)
  <2>1. /\ UNCHANGED <<down, ncaps, link, broken, src>> /\ msg'[c] = None
        /\ msg[c].t # "caps"
    BY <1>6, <1>11 DEF Wrap, WrapFails, ReceiveEos
  <2>2. QED BY <1>5, <2>1 DEF Reads, Base
<1>12. CASE SetCaps(c)
  <2>1. /\ UNCHANGED <<down, link, broken, src>> /\ msg'[c] = None /\ msg[c].t = "caps"
        /\ ncaps'[c] = msg[c].caps /\ msg[c] # None
    BY <1>6, <1>12 DEF SetCaps, Control, ReadInv
  <2>2. QED BY <1>5, <2>1 DEF Reads, Base
<1>13. CASE SrcUnlock(c)
  <2>1. CASE create[c] = "payload" /\ msg'[c] = None
    <3>1. /\ UNCHANGED <<down, ncaps, link>> /\ Reads(c)
          /\ ~broken'[c] => ~broken[c] /\ msg[c].t = "eos"
      BY <1>6, <1>13, <2>1 DEF SrcUnlock, Reads, Control, ReadInv
    <3>2. broken[c] => broken'[c]
      BY <1>6, <1>13 DEF SrcUnlock
    <3>3. QED BY <1>5, <2>1, <3>1, <3>2 DEF Reads, Base
  <2>2. CASE UNCHANGED <<msg, broken>>
    <3>1. UNCHANGED <<down, ncaps, link, msg, broken>> /\ Reads(c)
      BY <1>13, <2>2 DEF SrcUnlock, Reads
    <3>2. QED BY <1>5, <3>1 DEF Reads, Base
  <2>3. QED BY <1>6, <1>13, <2>1, <2>2 DEF SrcUnlock
<1>14. CASE SrcUnlockStop(c)
  BY <1>5, <1>14 DEF SrcUnlockStop, Reads, Base
<1>15. CASE SrcStop(c)
  BY <1>6, <1>15 DEF SrcStop, CapsOf, Reads
<1>16. ASSUME NEW b \in Buffers, MemoryWeakRef(c, b) PROVE CapsOf(c)'
  BY <1>5, <1>16 DEF MemoryWeakRef, Reads, Base
<1>19. CASE ReleaseSent(c)
  BY <1>5, <1>19 DEF ReleaseSent, Reads, Base
<1>18. QED
  BY <1>7, <1>8, <1>9, <1>10, <1>11, <1>12, <1>13, <1>14, <1>15, <1>16, <1>19 DEF Source, Create

LEMMA CapsApplication == ASSUME Control, CapsInv, Application PROVE CapsInv'
<1> USE DEF srcVars, sockets, renderVars, connVars
<1>1. SUFFICES ASSUME NEW d \in Clients PROVE CapsOf(d)'
  BY DEF CapsInv
<1>2. CapsOf(d) /\ link \in [Clients -> {"none", "backlog", "open", "closed"}]
  BY DEF CapsInv, Control, FieldsOK
<1>3. UNCHANGED <<src, msg, broken, ncaps, down>>
  BY DEF Application, Start, Stop, Stopped, Play, Unlock, UnlockStop, SetNoWait
<1>4. Base(d)' = Base(d) /\ (Reads(d)' <=> Reads(d))
  BY <1>3 DEF Base, Reads
<1>5. CASE Start \/ Stop \/ Play \/ Unlock \/ UnlockStop \/ SetNoWait
  <2>1. UNCHANGED <<link, caps, todo, cmd>>
    BY <1>5 DEF Start, Stop, Play, Unlock, UnlockStop, SetNoWait
  <2>2. QED BY <1>2, <1>3, <1>4, <2>1, CapsKept
<1>6. CASE Stopped
  <2>1. link'[d] # "open"
    BY <1>2, <1>6 DEF Stopped, Remove
  <2>2. QED BY <1>2, <1>3, <1>4, <2>1, CapsKept
<1>7. QED BY <1>5, <1>6 DEF Application

LEMMA CapsStreaming == ASSUME Control, CapsInv, Streaming PROVE CapsInv'
<1> USE NoneAssumption DEF srcVars, sockets, renderVars, connVars
<1>1. SUFFICES ASSUME NEW d \in Clients PROVE CapsOf(d)'
  BY DEF CapsInv
<1>2. /\ CapsOf(d) /\ RenderInv
      /\ link \in [Clients -> {"none", "backlog", "open", "closed"}]
      /\ down \in [Clients -> Seq(Commands)]
  BY DEF CapsInv, Control, FieldsOK, DownOK
<1>3. UNCHANGED <<src, msg, broken, ncaps>>
  BY DEF Streaming, Render, RenderWait, RenderWoken, RenderPreroll, CapsEvent, EosEvent, SendTo
<1>4. Base(d)' = Base(d) /\ (Reads(d)' <=> Reads(d))
  BY <1>3 DEF Base, Reads
<1>5. CASE Render \/ RenderWait \/ RenderWoken \/ RenderPreroll \/ EosEvent
  <2>1. UNCHANGED <<link, caps, down>> /\ todo = {}
    BY <1>2, <1>5 DEF Render, RenderWait, RenderWoken, RenderPreroll, EosEvent, RenderInv
  <2>2. QED BY <1>2, <1>3, <1>4, <2>1, CapsKept
<1>6. CASE CapsEvent
  <2>1. /\ UNCHANGED <<link, down>> /\ todo' = Connected
        /\ todo' # {} => cmd' = [t |-> "caps", caps |-> caps']
    BY <1>6 DEF CapsEvent, Serve
  <2>2. link'[d] = "open" => d \in todo' /\ cmd'.t = "caps"
    BY <2>1 DEF Connected
  <2>3. QED BY <1>2, <1>3, <1>4, <2>1, <2>2 DEF CapsOf
<1>7. ASSUME NEW c \in Clients, SendTo(c) PROVE CapsOf(d)'
  <2>1. /\ rpc = "send" /\ c \in todo /\ todo' = todo \ {c} /\ UNCHANGED caps
        /\ todo' # {} => cmd' = cmd
    BY <1>7 DEF SendTo, Serve
  <2>2. CASE d # c
    <3>1. link'[d] = link[d] /\ down'[d] = down[d]
      BY <1>2, <1>7, <2>2 DEF SendTo, Remove
    <3>2. d \in todo /\ cmd.t = "caps" => d \in todo' /\ cmd'.t = "caps"
      BY <2>1, <2>2
    <3>3. QED BY <1>2, <1>3, <1>4, <2>1, <3>1, <3>2, CapsKept
  <2>3. CASE d = c /\ src[c] = "gone"
    BY <1>3, <2>3 DEF CapsOf, Reads
  <2>4. CASE d = c /\ src[c] # "gone"
    <3> DEFINE q == down[d]
    <3>1. /\ UNCHANGED link /\ link[d] = "open" /\ down'[d] = Append(q, cmd)
          /\ q \in Seq(Commands) /\ cmd \in Commands
      BY <1>2, <1>7, <2>1, <2>4 DEF SendTo, RenderInv, Connected, Control, FieldsOK
    <3>2. cmd.t \in {"buffer", "caps"} => cmd.caps = caps
      BY <1>2, <2>1 DEF RenderInv
    <3>3. CASE ~(Reads(d) /\ ~broken[d])
      BY <1>3, <1>4, <3>3 DEF CapsOf
    <3>4. CASE Reads(d) /\ ~broken[d]
      <4> DEFINE r == Append(q, cmd)
      <4>1. /\ Len(q) \in Nat /\ Len(r) = Len(q) + 1 /\ r[Len(q) + 1] = cmd
            /\ \A i \in 1 .. Len(q) : r[i] = q[i]
        BY <3>1
      <4>2. \A i \in 1 .. Len(q) : q[i].t = "buffer" => InForce(q, i, Base(d), q[i].caps)
        BY <1>2, <3>4 DEF CapsOf
      <4>3. cmd.t = "caps" \/ InForce(q, Len(q) + 1, Base(d), caps)
        BY <1>2, <3>1, <3>4 DEF CapsOf
      <4> HIDE DEF q
      <4>4. ASSUME NEW i \in 1 .. Len(q) PROVE r[i].t = "buffer" => InForce(r, i, Base(d), r[i].caps)
        <5>1. r[i] = q[i] /\ i \in 1 .. Len(q) + 1
          BY <4>1
        <5>2. InForce(q, i, Base(d), q[i].caps) => InForce(r, i, Base(d), q[i].caps)
          BY <3>1, <5>1, InForceAppended
        <5> HIDE DEF r
        <5>3. QED BY <4>2, <5>1, <5>2
      <4>5. cmd.t = "buffer" => InForce(r, Len(q) + 1, Base(d), cmd.caps)
        BY <3>1, <3>2, <4>1, <4>3, InForceAppended
      <4>6. InForce(r, Len(q) + 2, Base(d), caps)
        <5>1. CASE cmd.t = "caps"
          BY <3>1, <3>2, <5>1, InForceAppended
        <5>2. CASE cmd.t # "caps"
          BY <3>1, <4>3, <5>2, InForceAppended
        <5>3. QED BY <5>1, <5>2
      <4> HIDE DEF r
      <4>7. \A i \in 1 .. Len(r) : r[i].t = "buffer" => InForce(r, i, Base(d), r[i].caps)
        BY <4>1, <4>4, <4>5
      <4>8. InForce(r, Len(r) + 1, Base(d), caps)
        BY <4>1, <4>6
      <4>9. down'[d] = r
        BY <3>1 DEF r
      <4>10. msg[d] # None /\ msg[d].t = "buffer" => msg[d].caps = ncaps[d]
        BY <1>2, <3>4 DEF CapsOf
      <4>11. QED BY <1>3, <1>4, <2>1, <4>7, <4>8, <4>9, <4>10 DEF CapsOf
    <3>5. QED BY <3>3, <3>4
  <2>5. QED BY <2>2, <2>3, <2>4
<1>8. QED BY <1>5, <1>6, <1>7 DEF Streaming

LEMMA CapsService == ASSUME Control, CapsInv, Service PROVE CapsInv'
<1> USE DEF srcVars, sockets, renderVars, connVars
<1>1. SUFFICES ASSUME NEW d \in Clients PROVE CapsOf(d)'
  BY DEF CapsInv
<1>2. /\ CapsOf(d) /\ RenderInv
      /\ link \in [Clients -> {"none", "backlog", "open", "closed"}]
      /\ down \in [Clients -> Seq(Commands)]
  BY DEF CapsInv, Control, FieldsOK, DownOK
<1>3. UNCHANGED <<src, msg, broken, ncaps, todo, cmd, caps>>
  BY DEF Service, SvcRun, SvcExit, NewClient, IncomingRelease, IncomingClosed
<1>4. Base(d)' = Base(d) /\ (Reads(d)' <=> Reads(d))
  BY <1>3 DEF Base, Reads
<1>5. ASSUME link'[d] = link[d] \/ link'[d] # "open", down'[d] = down[d] PROVE CapsOf(d)'
  BY <1>2, <1>3, <1>4, <1>5, CapsKept
<1>6. CASE SvcRun \/ SvcExit
  BY <1>5, <1>6 DEF SvcRun, SvcExit
<1>7. ASSUME NEW c \in Clients, IncomingRelease(c) \/ IncomingClosed(c) PROVE CapsOf(d)'
  BY <1>2, <1>5, <1>7 DEF IncomingRelease, IncomingClosed, Remove
<1>8. ASSUME NEW c \in Clients, NewClient(c) PROVE CapsOf(d)'
  <2>1. CASE d # c \/ src[c] = "gone"
    BY <1>2, <1>5, <1>8, <2>1 DEF NewClient
  <2>2. CASE d = c /\ src[c] # "gone"
    <3>1. down'[d] = Welcome /\ msg[d] = None
      BY <1>2, <1>8, <2>2 DEF NewClient, Control, LinkInv
    <3>2. /\ Len(down'[d]) = 1 /\ down'[d][1].t = "caps" /\ down'[d][1].caps = caps
      BY <3>1 DEF Welcome
    <3>3. InForce(down'[d], 2, Base(d)', caps)
      BY <3>2 DEF InForce
    <3>4. QED BY <1>3, <3>1, <3>2, <3>3 DEF CapsOf
  <2>3. QED BY <2>1, <2>2
<1>9. QED BY <1>6, <1>7, <1>8 DEF Service

LEMMA CapsStep == ASSUME Control, CapsInv, [Next]_vars PROVE CapsInv'
<1>1. CASE UNCHANGED vars
  <2>1. SUFFICES ASSUME NEW d \in Clients PROVE CapsOf(d)'
    BY DEF CapsInv
  <2>2. UNCHANGED <<src, msg, broken, ncaps, todo, cmd, caps, link, down>> /\ CapsOf(d)
    BY <1>1 DEF vars, srcVars, sockets, renderVars, connVars, CapsInv
  <2>3. QED BY <2>2, CapsKept DEF Reads, Base
<1>2. QED
  BY <1>1, CapsApplication, CapsStreaming, CapsService, CapsSource DEF Next

---------------------------------------------------------------------------
(* The loans.  What appending to a socket and reading from it does.        *)

LEMMA SentAppended ==
  ASSUME NEW q \in Seq(Commands), NEW e \in Commands
  PROVE  /\ \A b \in Buffers :
              Sent(Append(q, e), b) <=> Sent(q, b) \/ (e.t = "buffer" /\ e.b = b)
         /\ SentOnce(q) /\ (e.t = "buffer" => ~Sent(q, e.b)) => SentOnce(Append(q, e))
<1> DEFINE r == Append(q, e)
<1>1. /\ Len(q) \in Nat /\ r[Len(q) + 1] = e /\ Len(r) = Len(q) + 1
      /\ \A i \in 1 .. Len(q) : r[i] = q[i]
  OBVIOUS
<1> HIDE DEF r
<1>2. ASSUME NEW b \in Buffers
      PROVE  Sent(r, b) <=> Sent(q, b) \/ (e.t = "buffer" /\ e.b = b)
  <2>1. \A i \in 1 .. Len(q) + 1 : i = Len(q) + 1 \/ i \in 1 .. Len(q)
    BY <1>1
  <2>2. QED BY <1>1, <2>1 DEF Sent, IsSent
<1>3. ASSUME SentOnce(q), e.t = "buffer" => ~Sent(q, e.b) PROVE SentOnce(r)
  <2>1. \A i \in 1 .. Len(r) : i = Len(q) + 1 \/ i \in 1 .. Len(q)
    BY <1>1
  <2>2. QED BY <1>1, <1>3, <2>1 DEF Sent, SentOnce, IsSent
<1>4. QED BY <1>2, <1>3 DEF r

LEMMA SentTail ==
  ASSUME NEW q \in Seq(Commands), q # <<>>, SentOnce(q)
  PROVE  /\ \A b \in Buffers : /\ Sent(q, b) <=> IsSent(q, 1, b) \/ Sent(Tail(q), b)
                               /\ ~(IsSent(q, 1, b) /\ Sent(Tail(q), b))
         /\ SentOnce(Tail(q))
<1> DEFINE r == Tail(q)
<1>1. /\ Len(q) \in Nat \ {0} /\ Len(r) = Len(q) - 1
      /\ \A i \in 1 .. Len(q) - 1 : i + 1 \in 1 .. Len(q) /\ i + 1 # 1 /\ r[i] = q[i + 1]
  BY TailKept
<1>2. \A i \in 1 .. Len(q) : i = 1 \/ (i - 1 \in 1 .. Len(q) - 1 /\ r[i - 1] = q[i])
  BY <1>1
<1> HIDE DEF r
<1>3. 1 \in 1 .. Len(q)
  BY <1>1
<1>4. ASSUME NEW b \in Buffers PROVE Sent(q, b) <=> IsSent(q, 1, b) \/ Sent(r, b)
  BY ZenonT(40), <1>1, <1>2, <1>3 DEF Sent, IsSent
<1>5. ASSUME NEW b \in Buffers PROVE ~(IsSent(q, 1, b) /\ Sent(r, b))
  BY <1>1, <1>3 DEF Sent, SentOnce, IsSent
<1>6. SentOnce(r)
  <2>1. SUFFICES ASSUME NEW b \in Buffers, NEW i \in 1 .. Len(r), NEW j \in 1 .. Len(r),
                        IsSent(r, i, b), IsSent(r, j, b)
                 PROVE  i = j
    BY DEF SentOnce
  <2>2. IsSent(q, i + 1, b) /\ IsSent(q, j + 1, b) /\ i + 1 \in 1 .. Len(q) /\ j + 1 \in 1 .. Len(q)
    BY <1>1, <2>1 DEF IsSent
  <2>3. i + 1 = j + 1
    BY <2>2 DEF SentOnce
  <2>4. QED BY <1>1, <2>3
<1>7. QED BY <1>4, <1>5, <1>6 DEF r

LEMMA GivenAppended ==
  ASSUME NEW q \in Seq(Buffers), NEW e \in Buffers
  PROVE  /\ \A b \in Buffers : Given(Append(q, e), b) <=> Given(q, b) \/ e = b
         /\ GivenOnce(q) /\ ~Given(q, e) => GivenOnce(Append(q, e))
<1> DEFINE r == Append(q, e)
<1>1. /\ Len(q) \in Nat /\ r[Len(q) + 1] = e /\ Len(r) = Len(q) + 1
      /\ \A i \in 1 .. Len(q) : r[i] = q[i]
  OBVIOUS
<1> HIDE DEF r
<1>2. \A i \in 1 .. Len(r) : i = Len(q) + 1 \/ i \in 1 .. Len(q)
  BY <1>1
<1>3. ASSUME NEW b \in Buffers PROVE Given(r, b) <=> Given(q, b) \/ e = b
  BY <1>1, <1>2 DEF Given
<1>4. ASSUME GivenOnce(q), ~Given(q, e) PROVE GivenOnce(r)
  BY <1>1, <1>2, <1>4 DEF Given, GivenOnce
<1>5. QED BY <1>3, <1>4 DEF r

LEMMA GivenTail ==
  ASSUME NEW q \in Seq(Buffers), q # <<>>, GivenOnce(q)
  PROVE  /\ \A b \in Buffers : /\ Given(q, b) <=> q[1] = b \/ Given(Tail(q), b)
                               /\ ~(q[1] = b /\ Given(Tail(q), b))
         /\ GivenOnce(Tail(q))
<1> DEFINE r == Tail(q)
<1>1. /\ Len(q) \in Nat \ {0} /\ Len(r) = Len(q) - 1
      /\ \A i \in 1 .. Len(q) - 1 : i + 1 \in 1 .. Len(q) /\ i + 1 # 1 /\ r[i] = q[i + 1]
  BY TailKept
<1>2. \A i \in 1 .. Len(q) : i = 1 \/ (i - 1 \in 1 .. Len(q) - 1 /\ r[i - 1] = q[i])
  BY <1>1
<1> HIDE DEF r
<1>3. 1 \in 1 .. Len(q)
  BY <1>1
<1>4. ASSUME NEW b \in Buffers PROVE Given(q, b) <=> q[1] = b \/ Given(r, b)
  BY <1>1, <1>2, <1>3 DEF Given
<1>5. ASSUME NEW b \in Buffers PROVE ~(q[1] = b /\ Given(r, b))
  BY <1>1, <1>3 DEF Given, GivenOnce
<1>6. GivenOnce(r)
  <2>1. SUFFICES ASSUME NEW i \in 1 .. Len(r), NEW j \in 1 .. Len(r), r[i] = r[j]
                 PROVE  i = j
    BY DEF GivenOnce
  <2>2. q[i + 1] = q[j + 1] /\ i + 1 \in 1 .. Len(q) /\ j + 1 \in 1 .. Len(q)
    BY <1>1, <2>1
  <2>3. i + 1 = j + 1
    BY <2>2 DEF GivenOnce
  <2>4. QED BY <1>1, <2>3
<1>7. QED BY <1>4, <1>5, <1>6 DEF r

LEMMA SeqEqual ==
  ASSUME NEW x \in Seq(Buffers), NEW y \in Seq(Buffers), Len(x) = Len(y),
         \A i \in 1 .. Len(x) : x[i] = y[i]
  PROVE  x = y
OBVIOUS

LEMMA AppendTail ==
  ASSUME NEW q \in Seq(Buffers), q # <<>>, NEW e \in Buffers
  PROVE  /\ Append(q, e) \in Seq(Buffers) /\ Append(q, e) # <<>>
         /\ Append(Tail(q), e) = Tail(Append(q, e)) /\ Head(q) = Append(q, e)[1]
<1> DEFINE x == Append(Tail(q), e)
           y == Tail(Append(q, e))
<1>1. /\ Len(q) \in Nat \ {0} /\ Tail(q) \in Seq(Buffers) /\ Len(Tail(q)) = Len(q) - 1
      /\ \A i \in 1 .. Len(q) - 1 : Tail(q)[i] = q[i + 1]
  BY TailKept
<1>2. /\ Append(q, e) \in Seq(Buffers) /\ Append(q, e) # <<>> /\ Head(q) = Append(q, e)[1]
  OBVIOUS
<1>3. /\ x \in Seq(Buffers) /\ Len(x) = Len(q) /\ x[Len(q)] = e
      /\ \A i \in 1 .. Len(q) - 1 : x[i] = q[i + 1]
  BY <1>1
<1>4. /\ y \in Seq(Buffers) /\ Len(y) = Len(q)
      /\ \A i \in 1 .. Len(q) : y[i] = Append(q, e)[i + 1]
  BY <1>2, TailKept
<1>5. y[Len(q)] = e /\ \A i \in 1 .. Len(q) - 1 : y[i] = q[i + 1]
  BY <1>1, <1>4
<1> HIDE DEF x, y
<1>6. \A i \in 1 .. Len(q) : x[i] = y[i]
  BY <1>1, <1>3, <1>5
<1>7. x = y
  BY <1>3, <1>4, <1>6, SeqEqual
<1>8. QED BY <1>2, <1>7 DEF x, y

(* A step that leaves the loans of a client alone.                         *)
LEMMA LoanKept ==
  ASSUME NEW d \in Clients, Loan(d), down'[d] = down[d], up'[d] = up[d], mems'[d] = mems[d],
         releasing'[d] = releasing[d], held'[d] = held[d], \A b \in Buffers : HalfRead(d, b)' <=> HalfRead(d, b),
         Lost(d) => Lost(d)'
  PROVE  Loan(d)'
<1>1. SentOnce(down'[d]) /\ GivenOnce(Back(d)')
  BY DEF Loan, Back
<1>2. ASSUME NEW b \in Buffers
      PROVE  /\ OnePlace(d, b)' /\ (Somewhere(d, b)' => b \in held'[d])
             /\ b \in held'[d] => Somewhere(d, b)' \/ Lost(d)'
  <2>1. /\ OnTheWay(d, b)' <=> OnTheWay(d, b)
        /\ Wrapped(d, b)' <=> Wrapped(d, b)
        /\ GivenBack(d, b)' <=> GivenBack(d, b)
    BY DEF OnTheWay, Wrapped, GivenBack, Back
  <2>2. QED BY <2>1 DEF Loan, OnePlace, Somewhere
<1>3. QED BY <1>1, <1>2 DEF Loan

LEMMA LoanSource ==
  ASSUME Control, LoanInv, NEW c \in Clients, Source(c)
  PROVE  LoanInv'
<1> USE NoneAssumption DEF srcVars, sockets, renderVars, connVars
<1>1. SUFFICES ASSUME NEW d \in Clients, link'[d] = "open", Reads(d)' PROVE Loan(d)'
  BY DEF LoanInv, Connected
<1>2. CASE d # c
  <2>1. Loan(d)
    BY <1>1, <1>2, SourceOthers DEF LoanInv, Connected, Reads
  <2>2. QED BY <1>2, <2>1, SourceOthers, LoanKept DEF HalfRead, Lost
<1>3. SUFFICES ASSUME link'[c] = "open", Reads(c)' PROVE Loan(c)'
  BY <1>1, <1>2
<1>4. /\ src \in [Clients -> {"none", "run", "paused", "gone"}]
      /\ create \in [Clients -> {"header", "payload", "release", "eos", "error"}]
      /\ msg \in [Clients -> Commands \cup {None}] /\ broken \in [Clients -> BOOLEAN]
      /\ mems \in [Clients -> [Buffers -> Nat]]
      /\ releasing \in [Clients -> Buffers \cup {None}]
      /\ link \in [Clients -> {"none", "backlog", "open", "closed"}]
      /\ down \in [Clients -> Seq(Commands)] /\ up \in [Clients -> Seq(Buffers)]
  BY DEF Control, FieldsOK, DownOK, UpOK
<1>5. UNCHANGED held
  BY SourceOthers
<1>6. CASE SrcStart(c) \/ SrcStop(c)
  BY <1>3, <1>4, <1>6 DEF SrcStart, SrcStop, Reads
<1>7. SUFFICES ASSUME ~SrcStart(c), ~SrcStop(c) PROVE Loan(c)'
  BY <1>6
<1>8. Loan(c) /\ (create[c] = "payload" <=> msg[c] # None)
  <2>1. Reads(c) /\ link[c] = "open"
    BY <1>3, <1>4, <1>7 DEF Source, Create, ReadHeader, ReadFails, ReadBroken, Wrap, SetCaps, ReceiveEos,
          WrapFails, SrcUnlock, SrcUnlockStop, MemoryWeakRef, ReleaseSent, Reads
  <2>2. QED BY <2>1 DEF LoanInv, Connected, Control, ReadInv
<1>9. CASE ReadHeader(c)
  <2> DEFINE q == down[c]
  <2>1. q \in Seq(Commands) /\ q # <<>> /\ SentOnce(q)
    BY <1>4, <1>8, <1>9 DEF ReadHeader, Loan
  <2>2. /\ down'[c] = Tail(q) /\ msg'[c] = q[1] /\ msg[c] = None /\ q[1] # None
        /\ UNCHANGED <<up, releasing, mems, broken>> /\ create[c] # "error"
    <3>1. Head(q) = q[1] /\ q[1] \in Commands
      BY <2>1, TailKept
    <3>2. QED BY <1>4, <1>8, <1>9, <3>1 DEF ReadHeader
  <2>3. \A b \in Buffers : /\ OnTheWay(c, b) <=> HalfRead(c, b)' \/ OnTheWay(c, b)'
                           /\ ~(HalfRead(c, b)' /\ OnTheWay(c, b)')
                           /\ ~HalfRead(c, b)
                           /\ Wrapped(c, b)' <=> Wrapped(c, b)
                           /\ GivenBack(c, b)' <=> GivenBack(c, b)
    BY <2>1, <2>2, SentTail DEF OnTheWay, HalfRead, Wrapped, GivenBack, Back, IsSent
  <2>4. SentOnce(down'[c]) /\ GivenOnce(Back(c)')
    BY <1>8, <2>1, <2>2, SentTail DEF Loan, Back
  <2>5. Lost(c) => Lost(c)'
    BY <2>2 DEF Lost
  <2>6. QED BY <1>5, <1>8, <2>3, <2>4, <2>5 DEF Loan, OnePlace, Somewhere
<1>10. CASE ReadFails(c)
  <2>1. UNCHANGED <<down, up, releasing, mems, msg, broken>> /\ create'[c] = "error"
    BY <1>4, <1>10 DEF ReadFails
  <2>2. QED BY <1>5, <1>8, <2>1, LoanKept DEF HalfRead, Lost
<1>11. CASE ReadBroken(c)
  <2>1. UNCHANGED <<up, releasing, mems, msg, broken>> /\ broken[c] /\ down[c] # <<>>
    BY <1>11 DEF ReadBroken
  <2>2. CASE UNCHANGED down
    BY <1>5, <1>8, <2>1, <2>2, LoanKept DEF HalfRead, Lost
  <2>3. CASE down' = [down EXCEPT ![c] = Tail(@)]
    <3> DEFINE q == down[c]
    <3>1. q \in Seq(Commands) /\ q # <<>> /\ SentOnce(q) /\ down'[c] = Tail(q)
      BY <1>4, <1>8, <2>1, <2>3 DEF Loan
    <3>2. \A b \in Buffers : /\ OnTheWay(c, b)' => OnTheWay(c, b)
                             /\ HalfRead(c, b)' <=> HalfRead(c, b)
                             /\ Wrapped(c, b)' <=> Wrapped(c, b)
                             /\ GivenBack(c, b)' <=> GivenBack(c, b)
      BY <2>1, <3>1, SentTail DEF OnTheWay, HalfRead, Wrapped, GivenBack, Back
    <3>3. SentOnce(down'[c]) /\ GivenOnce(Back(c)')
      BY <1>8, <2>1, <3>1, SentTail DEF Loan, Back
    <3>4. QED BY <1>5, <1>8, <2>1, <3>2, <3>3 DEF Loan, OnePlace, Somewhere, Lost
  <2>4. QED BY <1>11, <2>2, <2>3 DEF ReadBroken
<1>12. CASE Wrap(c)
  <2>1. PICK w \in Buffers : w = msg[c].b
    BY <1>4, <1>8, <1>12 DEF Wrap, Commands
  <2>2. /\ msg[c] # None /\ msg[c].t = "buffer" /\ msg'[c] = None
        /\ UNCHANGED <<down, up, broken>> /\ create[c] # "error" /\ NumMems[w] \in Nat
        /\ releasing[c] = None
    BY <1>4, <1>8, <1>12, UnixFdAssumption DEF Wrap, SrcUnlocked
  <2>3. mems'[c][w] = NumMems[w] /\ \A b \in Buffers \ {w} : mems'[c][b] = mems[c][b]
    BY <1>4, <1>12, <2>1 DEF Wrap
  <2>4. \A b \in Buffers : /\ OnTheWay(c, b)' <=> OnTheWay(c, b)
                           /\ HalfRead(c, b) <=> b = w
                           /\ ~HalfRead(c, b)'
                           /\ b # w => (Wrapped(c, b)' <=> Wrapped(c, b))
    BY <2>1, <2>2, <2>3 DEF OnTheWay, HalfRead, Wrapped
  <2>5. Lost(c) => Lost(c)'
    BY <2>2 DEF Lost
  <2>6. CASE NumMems[w] # 0
    <3>1. Back(c)' = Back(c)
      BY <1>12, <2>1, <2>6 DEF Wrap, NoMemories, Back
    <3>2. Wrapped(c, w)'
      BY <2>2, <2>3, <2>6 DEF Wrapped
    <3>3. \A b \in Buffers : GivenBack(c, b)' <=> GivenBack(c, b)
      BY <3>1 DEF GivenBack
    <3>4. SentOnce(down'[c]) /\ GivenOnce(Back(c)')
      BY <1>8, <2>2, <3>1 DEF Loan
    <3>5. ASSUME NEW b \in Buffers
          PROVE  /\ OnePlace(c, b)' /\ (Somewhere(c, b)' => b \in held'[c])
                 /\ b \in held'[c] => Somewhere(c, b)' \/ Lost(c)'
      BY <1>5, <1>8, <2>4, <2>5, <3>2, <3>3 DEF Loan, OnePlace, Somewhere
    <3>6. QED BY <3>4, <3>5 DEF Loan
  <2>7. CASE NumMems[w] = 0
    <3>1. Back(c) = up[c] /\ Back(c)' = Append(up[c], w)
      <4>1. releasing'[c] = w /\ w # None
        BY <1>4, <1>12, <2>1, <2>7 DEF Wrap, NoMemories
      <4>2. QED BY <2>2, <4>1 DEF Back
    <3>2. ~Wrapped(c, w)'
      BY <2>3, <2>7 DEF Wrapped
    <3>3. /\ up[c] \in Seq(Buffers) /\ GivenOnce(up[c]) /\ ~Given(up[c], w)
      BY <1>4, <1>8, <2>4, <3>1 DEF Loan, OnePlace, GivenBack
    <3>4. \A b \in Buffers : GivenBack(c, b)' <=> GivenBack(c, b) \/ b = w
      BY <3>1, <3>3, GivenAppended DEF GivenBack
    <3>5. SentOnce(down'[c]) /\ GivenOnce(Back(c)')
      BY <1>8, <2>2, <3>1, <3>3, GivenAppended DEF Loan
    <3>6. ASSUME NEW b \in Buffers
          PROVE  /\ OnePlace(c, b)' /\ (Somewhere(c, b)' => b \in held'[c])
                 /\ b \in held'[c] => Somewhere(c, b)' \/ Lost(c)'
      BY <1>5, <1>8, <2>4, <2>5, <3>2, <3>4 DEF Loan, OnePlace, Somewhere
    <3>7. QED BY <3>5, <3>6 DEF Loan
  <2>8. QED BY <2>6, <2>7
<1>13. CASE WrapFails(c)
  <2>1. UNCHANGED <<down, up, releasing, mems, broken>> /\ create'[c] = "error" /\ msg'[c] = None
    BY <1>4, <1>13 DEF WrapFails
  <2>2. \A b \in Buffers : /\ OnTheWay(c, b)' <=> OnTheWay(c, b)
                           /\ ~HalfRead(c, b)'
                           /\ Wrapped(c, b)' <=> Wrapped(c, b)
                           /\ GivenBack(c, b)' <=> GivenBack(c, b)
    BY <2>1 DEF OnTheWay, HalfRead, Wrapped, GivenBack, Back
  <2>3. SentOnce(down'[c]) /\ GivenOnce(Back(c)')
    BY <1>8, <2>1 DEF Loan, Back
  <2>4. QED BY <1>5, <1>8, <2>1, <2>2, <2>3 DEF Loan, OnePlace, Somewhere, Lost
<1>14. CASE SetCaps(c) \/ ReceiveEos(c)
  <2>1. /\ UNCHANGED <<down, up, releasing, mems, broken>> /\ create[c] # "error"
        /\ msg'[c] = None /\ msg[c].t # "buffer"
    BY <1>4, <1>14 DEF SetCaps, ReceiveEos
  <2>2. QED BY <1>5, <1>8, <2>1, LoanKept DEF HalfRead, Lost
<1>15. CASE SrcUnlock(c)
  <2>1. CASE UNCHANGED <<broken, create, msg>>
    <3>1. UNCHANGED <<down, up, releasing, mems, broken, create, msg>>
      BY <1>15, <2>1 DEF SrcUnlock
    <3>2. QED BY <1>5, <1>8, <3>1, LoanKept DEF HalfRead, Lost
  <2>2. CASE create[c] = "payload" /\ msg'[c] = None
    <3>1. /\ UNCHANGED <<down, up, releasing, mems>> /\ msg'[c] = None
          /\ broken'[c] = (broken[c] \/ msg[c].t # "eos")
      BY <1>4, <1>8, <1>15, <2>2 DEF SrcUnlock
    <3>2. CASE msg[c].t = "eos"
      <4>1. Lost(c) => Lost(c)'
        BY <2>2, <3>1, <3>2 DEF Lost
      <4>2. QED BY <1>5, <1>8, <3>1, <3>2, <4>1, LoanKept DEF HalfRead
    <3>3. CASE msg[c].t # "eos"
      <4>1. \A b \in Buffers : /\ OnTheWay(c, b)' <=> OnTheWay(c, b)
                               /\ ~HalfRead(c, b)'
                               /\ Wrapped(c, b)' <=> Wrapped(c, b)
                               /\ GivenBack(c, b)' <=> GivenBack(c, b)
        BY <3>1 DEF OnTheWay, HalfRead, Wrapped, GivenBack, Back
      <4>2. SentOnce(down'[c]) /\ GivenOnce(Back(c)') /\ Lost(c)'
        BY <1>8, <3>1, <3>3 DEF Loan, Lost, Back
      <4>3. QED BY <1>5, <1>8, <4>1, <4>2 DEF Loan, OnePlace, Somewhere
    <3>4. QED BY <3>2, <3>3
  <2>3. QED BY <1>4, <1>15, <2>1, <2>2 DEF SrcUnlock
<1>16. CASE SrcUnlockStop(c)
  BY <1>5, <1>8, <1>16, LoanKept DEF SrcUnlockStop, HalfRead, Lost
<1>17. ASSUME NEW w \in Buffers, MemoryWeakRef(c, w) PROVE Loan(c)'
  <2>1. /\ UNCHANGED <<down, up, broken, create, msg>> /\ releasing[c] = None /\ mems[c][w] > 0 /\ mems[c][w] \in Nat
        /\ mems'[c][w] = mems[c][w] - 1 /\ \A b \in Buffers \ {w} : mems'[c][b] = mems[c][b]
    BY <1>4, <1>17 DEF MemoryWeakRef, SrcUnlocked
  <2>2. \A b \in Buffers : /\ OnTheWay(c, b)' <=> OnTheWay(c, b)
                           /\ HalfRead(c, b)' <=> HalfRead(c, b)
                           /\ b # w => (Wrapped(c, b)' <=> Wrapped(c, b))
    BY <2>1 DEF OnTheWay, HalfRead, Wrapped
  <2>3. Wrapped(c, w) /\ (Lost(c) => Lost(c)')
    BY <2>1 DEF Wrapped, Lost
  <2>4. CASE mems[c][w] # 1
    <3>1. Back(c)' = Back(c) /\ Wrapped(c, w)'
      <4>1. Back(c)' = Back(c)
        BY <1>17, <2>4 DEF MemoryWeakRef, LastMemory, Back
      <4>2. mems'[c][w] > 0
        BY <2>1, <2>4
      <4>3. QED BY <4>1, <4>2 DEF Wrapped
    <3>2. \A b \in Buffers : GivenBack(c, b)' <=> GivenBack(c, b)
      BY <3>1 DEF GivenBack
    <3>3. SentOnce(down'[c]) /\ GivenOnce(Back(c)')
      BY <1>8, <2>1, <3>1 DEF Loan
    <3>4. \A b \in Buffers : Wrapped(c, b)' <=> Wrapped(c, b)
      BY <2>2, <2>3, <3>1
    <3>5. QED BY <1>5, <1>8, <2>2, <2>3, <3>2, <3>3, <3>4 DEF Loan, OnePlace, Somewhere
  <2>5. CASE mems[c][w] = 1
    <3>1. Back(c) = up[c] /\ Back(c)' = Append(up[c], w) /\ ~Wrapped(c, w)'
      <4>1. releasing'[c] = w
        BY <1>4, <1>17, <2>5 DEF MemoryWeakRef, LastMemory
      <4>2. Back(c) = up[c] /\ Back(c)' = Append(up[c], w)
        BY <2>1, <4>1 DEF Back
      <4>3. mems'[c][w] = 0
        BY <2>1, <2>5
      <4>4. QED BY <4>2, <4>3 DEF Wrapped
    <3>2. /\ up[c] \in Seq(Buffers) /\ GivenOnce(up[c]) /\ ~Given(up[c], w)
      BY <1>4, <1>8, <2>3, <3>1 DEF Loan, OnePlace, GivenBack
    <3>3. \A b \in Buffers : GivenBack(c, b)' <=> GivenBack(c, b) \/ b = w
      BY <3>1, <3>2, GivenAppended DEF GivenBack
    <3>4. SentOnce(down'[c]) /\ GivenOnce(Back(c)')
      BY <1>8, <2>1, <3>1, <3>2, GivenAppended DEF Loan
    <3>5. \A b \in Buffers : Wrapped(c, b)' <=> Wrapped(c, b) /\ b # w
      BY <2>2, <3>1
    <3>6. ASSUME NEW b \in Buffers
          PROVE  /\ OnePlace(c, b)' /\ (Somewhere(c, b)' => b \in held'[c])
                 /\ b \in held'[c] => Somewhere(c, b)' \/ Lost(c)'
      <4>1. CASE b = w
        BY <1>5, <1>8, <2>2, <2>3, <3>3, <3>5, <4>1 DEF Loan, OnePlace, Somewhere
      <4>2. CASE b # w
        BY <1>5, <1>8, <2>2, <2>3, <3>3, <3>5, <4>2 DEF Loan, OnePlace, Somewhere
      <4>3. QED BY <4>1, <4>2
    <3>7. QED BY <3>4, <3>6 DEF Loan
  <2>6. QED BY <2>4, <2>5
<1>19. CASE ReleaseSent(c)
  <2>1. /\ UNCHANGED <<down, mems, msg, broken>> /\ releasing[c] # None
        /\ create[c] # "error" \/ create'[c] = "error"
        /\ up'[c] = Append(up[c], releasing[c]) /\ releasing'[c] = None
    BY <1>3, <1>4, <1>19 DEF ReleaseSent
  <2>2. Back(c)' = Back(c)
    BY <2>1 DEF Back
  <2>3. SentOnce(down'[c]) /\ GivenOnce(Back(c)')
    BY <1>8, <2>1, <2>2 DEF Loan
  <2>4. \A b \in Buffers : /\ OnTheWay(c, b)' <=> OnTheWay(c, b)
                           /\ HalfRead(c, b)' <=> HalfRead(c, b)
                           /\ Wrapped(c, b)' <=> Wrapped(c, b)
                           /\ GivenBack(c, b)' <=> GivenBack(c, b)
    BY <2>1, <2>2 DEF OnTheWay, HalfRead, Wrapped, GivenBack
  <2>5. Lost(c) => Lost(c)'
    BY <2>1 DEF Lost
  <2>6. QED BY <1>5, <1>8, <2>3, <2>4, <2>5 DEF Loan, OnePlace, Somewhere
<1>18. QED
  BY <1>7, <1>9, <1>10, <1>11, <1>12, <1>13, <1>14, <1>15, <1>16, <1>17, <1>19 DEF Source, Create

LEMMA LoanSink ==
  ASSUME Control, LoanInv, Application \/ Streaming \/ Service
  PROVE  LoanInv'
<1> USE NoneAssumption DEF srcVars, sockets, renderVars, connVars
<1>1. SUFFICES ASSUME NEW d \in Clients, link'[d] = "open", Reads(d)' PROVE Loan(d)'
  BY DEF LoanInv, Connected
<1>2. /\ link \in [Clients -> {"none", "backlog", "open", "closed"}]
      /\ held \in [Clients -> SUBSET Buffers]
      /\ down \in [Clients -> Seq(Commands)] /\ up \in [Clients -> Seq(Buffers)]
      /\ releasing \in [Clients -> Buffers \cup {None}] /\ RenderInv /\ LinkInv
  BY DEF Control, FieldsOK, DownOK, UpOK
<1>3. UNCHANGED <<src, create, msg, broken, mems, releasing>>
  BY DEF Application, Start, Stop, Stopped, Play, Unlock, UnlockStop, SetNoWait, Streaming, Render,
         RenderWait, RenderWoken, RenderPreroll, CapsEvent, EosEvent, SendTo, Service, SvcRun,
         SvcExit, NewClient, IncomingRelease, IncomingClosed
<1>4. ASSUME link[d] = "open" PROVE Loan(d)
  BY <1>1, <1>3, <1>4 DEF LoanInv, Connected, Reads
<1>5. ASSUME link'[d] = link[d], held'[d] = held[d], down'[d] = down[d], up'[d] = up[d]
      PROVE  Loan(d)'
  BY <1>1, <1>3, <1>4, <1>5, LoanKept DEF HalfRead, Lost
<1>6. CASE Application
  <2>1. CASE Stopped
    BY <1>1, <1>2, <1>5, <2>1 DEF Stopped, Remove
  <2>2. CASE Start \/ Stop \/ Play \/ Unlock \/ UnlockStop \/ SetNoWait
    BY <1>5, <2>2 DEF Start, Stop, Play, Unlock, UnlockStop, SetNoWait
  <2>3. QED BY <1>6, <2>1, <2>2 DEF Application
<1>7. CASE \/ Render \/ RenderWait \/ RenderWoken \/ RenderPreroll
           \/ CapsEvent \/ EosEvent \/ SvcRun \/ SvcExit
  BY <1>5, <1>7 DEF Render, RenderWait, RenderWoken, RenderPreroll, CapsEvent, EosEvent, SvcRun, SvcExit
<1>8. ASSUME NEW c \in Clients, SendTo(c) PROVE Loan(d)'
  <2>1. CASE d # c
    BY <1>2, <1>5, <1>8, <2>1 DEF SendTo, Remove
  <2>2. CASE d = c
    <3>1. src[d] # "gone"
      BY <1>1, <1>3 DEF Reads
    <3>2. /\ UNCHANGED <<link, up>> /\ down'[d] = Append(down[d], cmd)
          /\ held'[d] = held[d] \cup Keep(d) /\ cmd \in Commands /\ link[d] = "open"
      BY <1>1, <1>2, <1>8, <2>2, <3>1 DEF SendTo, RenderInv, Connected, Control, FieldsOK
    <3>3. cmd.t = "buffer" => cmd.b \notin held[d] /\ cmd.b \in Buffers
      BY <1>2, <1>8, <2>2, <3>2 DEF SendTo, RenderInv, Commands
    <3>4. Loan(d) /\ SentOnce(down[d])
      BY <1>4, <3>2 DEF Loan
    <3>5. cmd.t = "buffer" => ~Somewhere(d, cmd.b)
      BY <3>3, <3>4 DEF Loan
    <3>6. \A b \in Buffers : /\ OnTheWay(d, b)' <=> OnTheWay(d, b) \/ b \in Keep(d)
                             /\ HalfRead(d, b)' <=> HalfRead(d, b)
                             /\ Wrapped(d, b)' <=> Wrapped(d, b)
                             /\ GivenBack(d, b)' <=> GivenBack(d, b)
      BY <1>2, <1>3, <3>2, SentAppended DEF OnTheWay, HalfRead, Wrapped, GivenBack, Back, Keep
    <3>7. SentOnce(down'[d]) /\ GivenOnce(Back(d)')
      BY <1>2, <1>3, <3>2, <3>4, <3>5, SentAppended DEF Loan, Somewhere, OnTheWay, Back
    <3>8. \A b \in Keep(d) : ~Somewhere(d, b)
      BY <3>5 DEF Keep
    <3>9. Lost(d)' <=> Lost(d)
      BY <1>3 DEF Lost
    <3>10. QED BY <3>2, <3>4, <3>6, <3>7, <3>8, <3>9 DEF Loan, OnePlace, Somewhere
  <2>3. QED BY <2>1, <2>2
<1>9. ASSUME NEW c \in Clients, NewClient(c) PROVE Loan(d)'
  <2>1. CASE d # c
    BY <1>2, <1>5, <1>9, <2>1 DEF NewClient
  <2>2. CASE d = c
    <3>1. /\ down'[d] = Welcome /\ up'[d] = <<>> /\ msg'[d] = None /\ held'[d] = {}
          /\ releasing'[d] = None
          /\ \A b \in Buffers : mems'[d][b] = 0
      BY <1>1, <1>2, <1>3, <1>9, <2>2 DEF NewClient, LinkInv
    <3>2. Len(down'[d]) = 1 /\ down'[d][1].t = "caps" /\ Len(up'[d]) = 0
      BY <3>1 DEF Welcome
    <3>3. \A b \in Buffers : ~Somewhere(d, b)'
      BY <3>1, <3>2 DEF Somewhere, OnTheWay, Sent, IsSent, HalfRead, Wrapped, GivenBack, Back, Given
    <3>4. SentOnce(down'[d]) /\ GivenOnce(Back(d)')
      BY <3>1, <3>2 DEF SentOnce, IsSent, GivenOnce, Back
    <3>5. QED BY <3>1, <3>3, <3>4 DEF Loan, OnePlace, Somewhere
  <2>3. QED BY <2>1, <2>2
<1>10. ASSUME NEW c \in Clients, IncomingRelease(c) PROVE Loan(d)'
  <2>1. CASE d # c
    BY <1>2, <1>5, <1>10, <2>1 DEF IncomingRelease, Remove
  <2>2. CASE d = c
    <3> DEFINE q == Back(d)
    <3>1. /\ link[d] = "open" /\ q \in Seq(Buffers) /\ q # <<>> /\ Back(d)' = Tail(q)
          /\ UNCHANGED down /\ Head(up[d]) = q[1]
      <4>1. /\ link[d] = "open" /\ up[d] \in Seq(Buffers) /\ up[d] # <<>>
            /\ up'[d] = Tail(up[d]) /\ UNCHANGED <<down, releasing>>
        BY <1>2, <1>3, <1>10, <2>2 DEF IncomingRelease
      <4>2. CASE releasing[d] = None
        <5>1. q = up[d] /\ Back(d)' = Tail(up[d])
          BY <4>1, <4>2 DEF Back
        <5>2. QED BY <4>1, <5>1, TailKept
      <4>3. CASE releasing[d] # None
        <5>1. PICK r \in Buffers : r = releasing[d]
          BY <1>2, <4>3
        <5>2. q = Append(up[d], r) /\ Back(d)' = Append(Tail(up[d]), r)
          BY <4>1, <4>3, <5>1 DEF Back
        <5>3. QED BY <4>1, <5>1, <5>2, AppendTail
      <4>4. QED BY <4>2, <4>3
    <3>2. q[1] \in Buffers
      BY <3>1, TailKept
    <3>3. held'[d] = held[d] \ {q[1]}
      BY <1>1, <1>2, <1>10, <2>2, <3>1 DEF IncomingRelease, Remove
    <3>4. Loan(d) /\ GivenOnce(q)
      BY <1>4, <3>1 DEF Loan
    <3>5. \A b \in Buffers : /\ GivenBack(d, b) <=> q[1] = b \/ GivenBack(d, b)'
                             /\ ~(q[1] = b /\ GivenBack(d, b)')
                             /\ OnTheWay(d, b)' <=> OnTheWay(d, b)
                             /\ HalfRead(d, b)' <=> HalfRead(d, b)
                             /\ Wrapped(d, b)' <=> Wrapped(d, b)
      BY <1>3, <3>1, <3>4, GivenTail DEF OnTheWay, HalfRead, Wrapped, GivenBack
    <3>6. SentOnce(down'[d]) /\ GivenOnce(Back(d)')
      BY <3>1, <3>4, GivenTail DEF Loan
    <3>7. Lost(d)' <=> Lost(d)
      BY <1>3 DEF Lost
    <3> HIDE DEF q
    <3>8. QED BY <3>3, <3>4, <3>5, <3>6, <3>7 DEF Loan, OnePlace, Somewhere
  <2>3. QED BY <2>1, <2>2
<1>11. ASSUME NEW c \in Clients, IncomingClosed(c) PROVE Loan(d)'
  BY <1>1, <1>2, <1>5, <1>11 DEF IncomingClosed, Remove
<1>12. QED
  BY <1>6, <1>7, <1>8, <1>9, <1>10, <1>11 DEF Streaming, Service

LEMMA LoanStep == ASSUME Control, LoanInv, [Next]_vars PROVE LoanInv'
<1>1. CASE UNCHANGED vars
  <2>1. SUFFICES ASSUME NEW d \in Clients, link'[d] = "open", Reads(d)' PROVE Loan(d)'
    BY DEF LoanInv, Connected
  <2>2. UNCHANGED <<src, create, msg, broken, mems, releasing, held, down, up, link>>
    BY <1>1 DEF vars, srcVars, sockets, connVars
  <2>3. Loan(d)
    BY <2>1, <2>2 DEF LoanInv, Connected, Reads
  <2>4. QED BY <2>2, <2>3, LoanKept DEF HalfRead, Lost
<1>2. QED
  BY <1>1, LoanSink, LoanSource DEF Next

---------------------------------------------------------------------------
(* The invariant, and what follows from it.                                *)

LEMMA InvInit == Init => IInv
<1> SUFFICES ASSUME Init PROVE IInv
  OBVIOUS
<1>1. Control
  BY ControlInit
<1>2. CapsInv /\ LoanInv
  BY DEF Init, CapsInv, CapsOf, LoanInv, Connected, Reads
<1>3. QED BY <1>1, <1>2 DEF IInv

(* In every reachable state the parts of the invariant hold: the control   *)
(* of the sink and of every source, the caps along the sockets and the     *)
(* places of the loans.                                                    *)
THEOREM UnixFdInvariance == Spec => []IInv
<1>1. IInv /\ [Next]_vars => IInv'
  BY ControlStep, CapsStep, LoanStep DEF IInv
<1>2. QED
  BY InvInit, <1>1, PTL DEF Spec

(* Every field has its type, and no socket ever holds more than it can.    *)
THEOREM UnixFdTypes == Spec => []TypeOK
<1>1. IInv => TypeOK
  BY DEF IInv, Control, FieldsOK, DownOK, UpOK, TypeOK
<1>2. QED BY UnixFdInvariance, <1>1, PTL

(* munixfdsrc wraps a buffer under the caps that were in force when        *)
(* munixfdsink sent it: for any number of sources, caps events in any      *)
(* order with frames, and sources that connect at any time.                *)
THEOREM CapsComeFirst == Spec => []CapsBeforeBuffer
<1>1. IInv => CapsBeforeBuffer
  <2>1. SUFFICES ASSUME IInv, NEW c \in Clients, create[c] = "payload", msg[c].t = "buffer"
                 PROVE  ncaps[c] = msg[c].caps
    BY DEF CapsBeforeBuffer
  <2>2. msg[c] # None /\ ~broken[c] /\ Reads(c)
    BY <2>1 DEF IInv, Control, FieldsOK, LinkInv, ReadInv, Reads
  <2>3. QED BY <2>1, <2>2 DEF IInv, CapsInv, CapsOf
<1>2. QED BY UnixFdInvariance, <1>1, PTL

LEMMA CardinalityOne ==
  ASSUME NEW S, \A x, y \in S : x = y
  PROVE  Cardinality(S) = IF \E x \in S : TRUE THEN 1 ELSE 0
<1>1. CASE \E x \in S : TRUE
  <2>1. PICK x \in S : S = {x}
    BY <1>1
  <2>2. QED BY <2>1, FS_Singleton
<1>2. CASE S = {}
  BY <1>2, FS_EmptySet
<1>3. QED BY <1>1, <1>2

LEMMA GivenPrefix ==
  ASSUME NEW q \in Seq(Buffers), NEW e \in Buffers \cup {None}, NEW r,
         r = IF e = None THEN q ELSE Append(q, e), GivenOnce(r)
  PROVE  GivenOnce(q) /\ (e # None => ~Given(q, e))
<1>1. CASE e = None
  BY <1>1
<1>2. CASE e # None
  <2>1. /\ Len(q) \in Nat /\ r[Len(q) + 1] = e /\ Len(r) = Len(q) + 1
        /\ \A i \in 1 .. Len(q) : r[i] = q[i]
    BY <1>2
  <2>2. QED BY <1>2, <2>1 DEF GivenOnce, Given
<1>3. QED BY <1>1, <1>2

(* Each reference that munixfdsink keeps for a connected client stands for *)
(* one copy of the buffer on that connection, which is on its way, half    *)
(* read, wrapped or on its way back; no copy is without a reference, and a *)
(* reference without a copy exists only where create() has failed or was   *)
(* cancelled in the middle of a command.                                   *)
THEOREM OneCopyPerReference == Spec => []OneReferencePerLoan
<1>1. IInv => TypeOK
  BY DEF IInv, Control, FieldsOK, DownOK, UpOK, TypeOK
<1>2. ASSUME IInv, NEW c \in Connected, NEW b \in Buffers, src[c] \in {"run", "paused"}
      PROVE  /\ Places(c, b) <= IF b \in held[c] THEN 1 ELSE 0
             /\ b \in held[c] /\ Places(c, b) = 0 => broken[c] \/ create[c] = "error"
  <2> DEFINE D == {i \in DOMAIN down[c] : down[c][i].t = "buffer" /\ down[c][i].b = b}
             U == {i \in DOMAIN up[c] : up[c][i] = b}
  <2>1. c \in Clients /\ Loan(c)
    BY <1>2 DEF IInv, LoanInv, Connected, Reads
  <2>2. /\ up[c] \in Seq(Buffers) /\ releasing[c] \in Buffers \cup {None}
        /\ DOMAIN down[c] = 1 .. Len(down[c]) /\ DOMAIN up[c] = 1 .. Len(up[c])
    BY <1>2, <2>1 DEF IInv, Control, FieldsOK, DownOK, UpOK
  <2>3. (\A x, y \in D : x = y) /\ (OnTheWay(c, b) <=> \E x \in D : TRUE)
    BY <2>1, <2>2 DEF Loan, SentOnce, IsSent, OnTheWay, Sent
  <2>4. /\ \A x, y \in U : x = y
        /\ GivenBack(c, b) <=> (\E x \in U : TRUE) \/ releasing[c] = b
        /\ ~((\E x \in U : TRUE) /\ releasing[c] = b)
    <3>1. GivenOnce(up[c]) /\ (releasing[c] # None => ~Given(up[c], releasing[c]))
      BY <2>1, <2>2, GivenPrefix DEF Loan, Back
    <3>2. GivenBack(c, b) <=> Given(up[c], b) \/ releasing[c] = b
      BY <2>2, GivenAppended, NoneAssumption DEF GivenBack, Back
    <3>3. Given(up[c], b) <=> \E x \in U : TRUE
      BY <2>2 DEF Given
    <3>4. \A x, y \in U : x = y
      BY <2>2, <3>1 DEF GivenOnce
    <3>5. QED BY <3>1, <3>2, <3>3, <3>4, NoneAssumption
  <2>5. Places(c, b) = Cardinality(D) + Cardinality(U)
                       + (IF HalfRead(c, b) THEN 1 ELSE 0) + (IF Wrapped(c, b) THEN 1 ELSE 0)
                       + (IF releasing[c] = b THEN 1 ELSE 0)
    BY DEF Places, HalfRead, Wrapped
  <2> HIDE DEF D, U
  <2>6. /\ Cardinality(D) = IF OnTheWay(c, b) THEN 1 ELSE 0
        /\ Cardinality(U) = IF \E x \in U : TRUE THEN 1 ELSE 0
    BY <2>3, <2>4, CardinalityOne
  <2>7. /\ OnePlace(c, b) /\ (Somewhere(c, b) => b \in held[c])
        /\ b \in held[c] => Somewhere(c, b) \/ Lost(c)
    BY <2>1 DEF Loan
  <2>10. Cardinality(U) + (IF releasing[c] = b THEN 1 ELSE 0) = IF GivenBack(c, b) THEN 1 ELSE 0
    BY <2>4, <2>6
  <2>8. /\ Somewhere(c, b) => Places(c, b) = 1
        /\ ~Somewhere(c, b) => Places(c, b) = 0
    BY <2>5, <2>6, <2>7, <2>10 DEF OnePlace, Somewhere
  <2>9. QED BY <2>7, <2>8 DEF Lost
<1>3. IInv => OneReferencePerLoan
  BY <1>1, <1>2 DEF OneReferencePerLoan
<1>4. QED BY UnixFdInvariance, <1>3, PTL

(* A source never waits in release_buffer(), under its lock, for a sink    *)
(* that still reads from it when the upstream pool has no more buffers     *)
(* than a socket holds commands: what it has given back is all different.  *)
(* This is why sink and source cannot block each other then.               *)
THEOREM ReleasesFit == Spec => []ReleaseNeverBlocks
<1>1. ASSUME IInv, Cardinality(Buffers) <= Cap, NEW c \in Connected, src[c] # "gone",
             releasing[c] # None
      PROVE  ReleaseRoom(c)
  <2>1. /\ c \in Clients /\ link[c] = "open" /\ Reads(c)
        /\ up[c] \in Seq(Buffers) /\ releasing[c] \in Buffers
    BY <1>1 DEF IInv, Control, FieldsOK, UpOK, LinkInv, Connected, Reads
  <2>2. GivenOnce(Back(c)) /\ Back(c) = Append(up[c], releasing[c])
    BY <1>1, <2>1 DEF IInv, LoanInv, Loan, Back
  <2> DEFINE q == Append(up[c], releasing[c])
             n == Len(up[c]) + 1
  <2>3. q \in [1 .. n -> Buffers] /\ Len(q) = n /\ Len(up[c]) \in Nat
    <3>1. PICK r \in Seq(Buffers), e \in Buffers : r = up[c] /\ e = releasing[c]
      BY <2>1
    <3>2. Append(r, e) \in Seq(Buffers) /\ Len(Append(r, e)) = Len(r) + 1 /\ Len(r) \in Nat
      OBVIOUS
    <3>3. PICK s \in Seq(Buffers) : s = Append(r, e)
      BY <3>2
    <3>4. s \in [1 .. Len(s) -> Buffers]
      OBVIOUS
    <3>5. QED BY <3>1, <3>2, <3>3, <3>4
  <2>4. q \in Injection(1 .. n, Buffers)
    BY <2>2, <2>3 DEF GivenOnce, Injection, IsInjective
  <2>5. Cardinality(1 .. n) <= Cardinality(Buffers) /\ Cardinality(1 .. n) = n
    <3>1. Cardinality(1 .. n) <= Cardinality(Buffers)
      BY <2>4, FS_Injection, UnixFdAssumption
    <3>2. Cardinality(1 .. n) = n
      BY <2>3, FS_Interval
    <3>3. QED BY <3>1, <3>2
  <2>6. Cardinality(Buffers) \in Nat
    BY UnixFdAssumption, FS_CardinalityType
  <2>7. QED BY <1>1, <2>3, <2>5, <2>6, UnixFdAssumption DEF ReleaseRoom
<1>2. IInv => ReleaseNeverBlocks
  BY <1>1 DEF ReleaseNeverBlocks
<1>3. QED BY UnixFdInvariance, <1>2, PTL

(* munixfdsink ends a connection only when it stops itself or when the     *)
(* source has closed its end: a RELEASE_BUFFER of a source always names a  *)
(* buffer it still holds.                                                  *)
THEOREM NobodyIsDropped == Spec => HealthyClientStays
<1> DEFINE A == \A c \in Clients : link[c] = "open" /\ link'[c] = "closed" =>
                  src[c] = "gone" \/ sink = "quit"
<1>1. IInv /\ [Next]_vars => [A]_vars
  <2>1. SUFFICES ASSUME IInv, [Next]_vars, NEW d \in Clients, link[d] = "open",
                        link'[d] = "closed", src[d] # "gone", sink # "quit"
                 PROVE  FALSE
    OBVIOUS
  <2> USE DEF connVars, srcVars, sockets, renderVars
  <2>2. /\ link \in [Clients -> {"none", "backlog", "open", "closed"}]
        /\ src \in [Clients -> {"none", "run", "paused", "gone"}]
        /\ up \in [Clients -> Seq(Buffers)] /\ LinkInv
        /\ releasing \in [Clients -> Buffers \cup {None}]
    BY <2>1 DEF IInv, Control, FieldsOK, UpOK
  <2>3. Loan(d)
    BY <2>1, <2>2 DEF IInv, LoanInv, Connected, Reads, LinkInv
  <2>4. CASE UNCHANGED vars
    BY <2>1, <2>4 DEF vars
  <2>5. CASE Application
    BY <2>1, <2>2, <2>5 DEF Application, Start, Stop, Stopped, Play, Unlock, UnlockStop, SetNoWait
  <2>6. CASE Streaming
    <3>1. \/ UNCHANGED link
          \/ \E c \in Clients : SendTo(c) /\ src[c] = "gone"
      BY <2>6 DEF Streaming, Render, RenderWait, RenderWoken, RenderPreroll, CapsEvent, EosEvent, SendTo
    <3>2. QED BY <2>1, <2>2, <3>1 DEF SendTo, Remove
  <2>7. ASSUME NEW c \in Clients, IncomingRelease(c) PROVE FALSE
    <3>1. c = d /\ up[d] # <<>>
      BY <2>1, <2>2, <2>7 DEF IncomingRelease, Remove
    <3>2. Head(up[d]) = up[d][1] /\ up[d][1] \in Buffers /\ 1 \in 1 .. Len(up[d])
      <4>1. up[d] \in Seq(Buffers)
        BY <2>2
      <4>2. QED BY <3>1, <4>1
    <3>3. Head(up[d]) \in held[d]
      <4>1. 1 \in 1 .. Len(Back(d)) /\ Back(d)[1] = up[d][1]
        <5>1. CASE releasing[d] = None
          BY <3>2, <5>1 DEF Back
        <5>2. CASE releasing[d] # None
          <6>1. PICK r \in Buffers : r = releasing[d]
            BY <2>1, <2>2, <5>2
          <6>2. up[d] \in Seq(Buffers)
            BY <2>2
          <6>3. 1 \in 1 .. Len(Append(up[d], r)) /\ Append(up[d], r)[1] = up[d][1]
            BY <3>2, <6>2
          <6>4. QED BY <5>2, <6>1, <6>3 DEF Back
        <5>3. QED BY <5>1, <5>2
      <4>2. QED BY <2>3, <3>2, <4>1 DEF Loan, Somewhere, GivenBack, Given
    <3>4. QED BY <2>1, <2>7, <3>1, <3>3 DEF IncomingRelease
  <2>8. ASSUME NEW c \in Clients, NewClient(c) \/ IncomingClosed(c) PROVE FALSE
    BY <2>1, <2>2, <2>8 DEF NewClient, IncomingClosed, Remove
  <2>9. CASE Service
    BY <2>1, <2>7, <2>8, <2>9 DEF Service, SvcRun, SvcExit
  <2>10. ASSUME NEW c \in Clients, Source(c) PROVE FALSE
    <3>1. CASE SrcStart(c)
      BY <2>1, <2>2, <3>1 DEF SrcStart
    <3>2. CASE ~SrcStart(c)
      BY <2>1, <2>10, <3>2 DEF Source, Create, ReadHeader, ReadFails, ReadBroken, Wrap, SetCaps,
         ReceiveEos, WrapFails, SrcUnlock, SrcUnlockStop, SrcStop, MemoryWeakRef, ReleaseSent
    <3>3. QED BY <3>1, <3>2
  <2>11. QED BY <2>1, <2>4, <2>5, <2>6, <2>9, <2>10 DEF Next
<1>2. QED
  BY UnixFdInvariance, <1>1, PTL DEF Spec, HealthyClientStays
=============================================================================
