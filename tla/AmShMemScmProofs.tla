------------------------- MODULE AmShMemScmProofs -------------------------
(***************************************************************************)
(* The pool handshake for any finite set of sources: types, no accepted    *)
(* connection forgotten, and descriptor and size of one pool.              *)
(***************************************************************************)
EXTENDS AmShMemScm, TLAPS

Serving == {"check", "wait", "send", "size"}

(* The server thread exists as long as the server does.                    *)
ThreadInv == srv = "none" <=> spc = "none"

(* The connection that is served is peer's, and has come as far as the     *)
(* thread; in the step before the size, a live peer has what was offered.  *)
ServeInv ==
  /\ \A c \in Clients : conn[c] \in {"accepted", "fd"} => peer = c /\ spc \in Serving
  /\ spc \in {"check", "wait", "send"} => peer \in Clients /\ conn[peer] = "accepted"
  /\ spc = "size" => /\ peer \in Clients /\ conn[peer] = "fd"
                     /\ offer \in Offers
                     /\ el[peer] # "dead" => got[peer] = offer

(* A source whose thread does not talk to the server has no connection; a  *)
(* dead one has no thread.                                                 *)
ConnInv ==
  \A c \in Clients :
    /\ el[c] = "dead" => th[c] = "none"
    /\ el[c] = "null" => th[c] = "none"
    /\ el[c] # "dead" /\ th[c] \in {"none", "connect", "done"} => conn[c] = "no"

(* Nobody has a descriptor of one pool and the size of another.            *)
Whole(x) == x # None => x.fd = x.bytes
OfferInv ==
  /\ Whole(pool_set) /\ Whole(offer)
  /\ \A c \in Clients : Whole(got[c]) /\ Whole(shm_mmap[c])

Inv == TypeOK /\ ThreadInv /\ ServeInv /\ ConnInv /\ OfferInv

-----------------------------------------------------------------------------

\* No server, no connection and no source yet: the parts of the invariant hold.
THEOREM InvInit == Init => Inv
<1> SUFFICES ASSUME Init PROVE Inv OBVIOUS
<1>1. TypeOK
  <2>1. 1 \in Pools /\ 0 \in 0 .. MaxSinkStarts /\ 0 \in 0 .. MaxSrcStarts
        /\ 0 \in 0 .. MaxFlushes /\ 0 \in 0 .. MaxCrashes
    BY ScmAssumption DEF Pools
  <2>2. QED BY <2>1 DEF Init, TypeOK
<1>2. ThreadInv /\ ServeInv /\ ConnInv /\ OfferInv
  BY DEF Init, ThreadInv, ServeInv, ConnInv, OfferInv, Whole
<1>3. QED BY <1>1, <1>2 DEF Inv

LEMMA TypeStep ==
  ASSUME Inv, Next
  PROVE  TypeOK'
<1>0. /\ TypeOK /\ None \notin Clients /\ upstream \in Pools
      /\ MaxPools \in Nat /\ MaxSinkStarts \in Nat /\ MaxSrcStarts \in Nat
      /\ MaxFlushes \in Nat /\ MaxCrashes \in Nat
  BY ScmAssumption DEF Inv, TypeOK
<1> USE <1>0 DEF TypeOK, serverVars, sinkVars, threadVars, budgets
<1>1. CASE SinkStart
  <2>1. sinkStarts' \in 0 .. MaxSinkStarts BY <1>1 DEF SinkStart
  <2>2. QED BY <1>1, <2>1 DEF SinkStart
<1>2. CASE Announce
  <2>1. upstream' \in Pools BY <1>2 DEF Announce, Pools
  <2>2. pool_set' \in Offers BY <1>2, <2>1 DEF Announce, Offers
  <2>3. QED BY <1>2, <2>1, <2>2 DEF Announce, Broadcast
<1>3. CASE Publish
  <2>1. upstream' \in Pools BY <1>3 DEF Publish, Pools
  <2>2. QED BY <1>3, <2>1 DEF Publish
<1>4. CASE FlushStart
  <2>1. flushes' \in 0 .. MaxFlushes BY <1>4 DEF FlushStart
  <2>2. QED BY <1>4, <2>1 DEF FlushStart
<1>5. CASE SinkStop BY <1>5 DEF SinkStop, ResetBacklog
<1>6. CASE SinkStopped BY <1>6 DEF SinkStopped
<1>7. CASE ServerExit BY <1>7 DEF ServerExit
<1>8. ASSUME NEW c \in Clients, ServerAccept(c) PROVE TypeOK'
  BY <1>8 DEF ServerAccept
<1>9. CASE ServerCheck BY <1>9 DEF ServerCheck
<1>10. CASE ServerSend
  <2>1. CASE stop \/ offer = None \/ el[peer] = "dead"
    BY <1>10, <2>1 DEF ServerSend
  <2>2. CASE ~(stop \/ offer = None \/ el[peer] = "dead")
    BY <1>10, <2>2 DEF ServerSend
  <2>3. QED BY <2>1, <2>2
<1>11. CASE ServerSize
  <2>1. CASE el[peer] = "dead" BY <1>11, <2>1 DEF ServerSize
  <2>2. CASE el[peer] # "dead"
    <3>1. /\ peer \in Clients /\ got[peer] \in Offers /\ offer.bytes \in Pools
          /\ got' = [got EXCEPT ![peer].bytes = offer.bytes]
      BY <1>11, <2>2 DEF Inv, ServeInv, ServerSize, SizeToSend, Offers
    <3>2. [got[peer] EXCEPT !.bytes = offer.bytes] \in Offers BY <3>1 DEF Offers
    <3>3. got' \in [Clients -> Offers \cup {None}] BY <3>1, <3>2
    <3>4. QED BY <1>11, <2>2, <3>3 DEF ServerSize
  <2>3. QED BY <2>1, <2>2
<1>12. ASSUME NEW c \in Clients, SrcStart(c) PROVE TypeOK'
  BY <1>12 DEF SrcStart
<1>13. ASSUME NEW c \in Clients, CliThread(c) PROVE TypeOK'
  <2>1. CASE Connect(c)
    <3>1. CASE listening
      <4>1. /\ conn' = [conn EXCEPT ![c] = "backlog"] /\ got' = [got EXCEPT ![c] = None]
            /\ th' = [th EXCEPT ![c] = "recv"]
            /\ UNCHANGED <<serverVars, sinkVars, el, shm_ready, shm_mmap, cpc, sample, budgets>>
        BY <2>1, <3>1 DEF Connect
      <4>2. QED BY <4>1
    <3>2. CASE ~listening
      <4>1. /\ th' = [th EXCEPT ![c] = "done"] /\ shm_ready' = [shm_ready EXCEPT ![c] = TRUE]
            /\ UNCHANGED <<serverVars, sinkVars, el, conn, got, shm_mmap, cpc, sample, budgets>>
        BY <2>1, <3>2 DEF Connect
      <4>2. QED BY <4>1
    <3>3. QED BY <3>1, <3>2
  <2>2. CASE RecvSize(c) BY <2>2 DEF RecvSize
  <2>3. CASE RecvFails(c) BY <2>3 DEF RecvFails
  <2>4. QED BY <1>13, <2>1, <2>2, <2>3 DEF CliThread
<1>14. ASSUME NEW c \in Clients, Streaming(c) PROVE TypeOK'
  BY <1>14 DEF Streaming, Create, Wrap
<1>15. ASSUME NEW c \in Clients, SrcLeave(c) \/ SrcStop(c) \/ SrcStopped(c) PROVE TypeOK'
  <2>1. CASE SrcLeave(c) BY <2>1 DEF SrcLeave
  <2>2. CASE SrcStop(c) BY <2>2 DEF SrcStop
  <2>3. CASE SrcStopped(c) BY <2>3 DEF SrcStopped
  <2>4. QED BY <1>15, <2>1, <2>2, <2>3
<1>16. ASSUME NEW c \in Clients, SrcCrash(c) PROVE TypeOK'
  BY <1>16 DEF SrcCrash
<1>17. QED
  BY <1>1, <1>2, <1>3, <1>4, <1>5, <1>6, <1>7, <1>8, <1>9, <1>10, <1>11, <1>12,
     <1>13, <1>14, <1>15, <1>16
  DEF Next, Server

\* The server thread and its connection.
LEMMA ServeStep ==
  ASSUME Inv, Next
  PROVE  ThreadInv' /\ ServeInv'
<1>0. /\ ThreadInv /\ ServeInv /\ None \notin Clients
      /\ conn \in [Clients -> {"no", "backlog", "accepted", "fd", "size", "closed"}]
      /\ got \in [Clients -> Offers \cup {None}] /\ offer \in Offers \cup {None}
      /\ srv \in {"none", "up", "stopping"}
      /\ spc \in {"none", "loop", "check", "wait", "send", "size", "exit"}
  BY ScmAssumption DEF Inv, TypeOK
<1> USE <1>0 DEF ThreadInv, ServeInv, Serving, serverVars, sinkVars, threadVars, budgets
<1>1. CASE SinkStart BY <1>1 DEF SinkStart
<1>2. CASE Announce BY <1>2 DEF Announce, Broadcast
<1>3. CASE Publish \/ FlushStart BY <1>3 DEF Publish, FlushStart
<1>4. CASE SinkStop BY <1>4 DEF SinkStop, ResetBacklog
<1>5. CASE SinkStopped BY <1>5 DEF SinkStopped
<1>6. CASE ServerExit BY <1>6 DEF ServerExit
<1>7. ASSUME NEW c \in Clients, ServerAccept(c) PROVE ThreadInv' /\ ServeInv'
  BY <1>7 DEF ServerAccept
<1>8. CASE ServerCheck BY <1>8 DEF ServerCheck
<1>9. CASE ServerSend
  <2>1. peer \in Clients /\ conn[peer] = "accepted" /\ spc = "send"
    BY <1>9 DEF ServerSend
  <2>2. CASE stop \/ offer = None \/ el[peer] = "dead"
    BY <1>9, <2>1, <2>2 DEF ServerSend
  <2>3. CASE ~(stop \/ offer = None \/ el[peer] = "dead")
    BY <1>9, <2>1, <2>3 DEF ServerSend
  <2>4. QED BY <2>2, <2>3
<1>10. CASE ServerSize
  <2>1. /\ spc = "size" /\ spc' = "loop" /\ UNCHANGED srv
        /\ \/ conn' = [conn EXCEPT ![peer] = "closed"]
           \/ conn' = [conn EXCEPT ![peer] = "size"]
    BY <1>10 DEF ServerSize
  <2>2. QED BY <2>1
<1>11. ASSUME NEW c \in Clients, CliThread(c) PROVE ThreadInv' /\ ServeInv'
  <2>1. CASE Connect(c)
    <3>1. conn[c] = "no"
      BY <2>1 DEF Inv, ConnInv, Connect
    <3>2. QED BY <2>1, <3>1 DEF Connect
  <2>2. CASE RecvSize(c) BY <2>2 DEF RecvSize
  <2>3. CASE RecvFails(c) BY <2>3 DEF RecvFails
  <2>4. QED BY <1>11, <2>1, <2>2, <2>3 DEF CliThread
<1>12. ASSUME NEW c \in Clients,
              \/ SrcStart(c) \/ Streaming(c) \/ SrcLeave(c) \/ SrcStop(c)
              \/ SrcStopped(c) \/ SrcCrash(c)
       PROVE  ThreadInv' /\ ServeInv'
  <2>0. el \in [Clients -> {"null", "run", "leaving", "joining", "dead"}]
    BY DEF Inv, TypeOK
  <2>1. /\ UNCHANGED <<srv, spc, peer, offer, conn>>
        /\ \A d \in Clients : el'[d] # "dead" => el[d] # "dead" /\ got'[d] = got[d]
    BY <1>12, <2>0 DEF SrcStart, Streaming, Create, Wrap, SrcLeave, SrcStop, SrcStopped, SrcCrash
  <2>2. QED BY <2>1
<1>13. QED
  BY <1>1, <1>2, <1>3, <1>4, <1>5, <1>6, <1>7, <1>8, <1>9, <1>10, <1>11, <1>12
  DEF Next, Server

\* What a source relies on.
LEMMA ConnStep ==
  ASSUME Inv, Next
  PROVE  ConnInv'
<1>0. /\ ConnInv /\ ServeInv
      /\ conn \in [Clients -> {"no", "backlog", "accepted", "fd", "size", "closed"}]
      /\ el \in [Clients -> {"null", "run", "leaving", "joining", "dead"}]
      /\ th \in [Clients -> {"none", "connect", "recv", "done"}]
  BY DEF Inv, TypeOK
<1> USE <1>0 DEF ConnInv, serverVars, sinkVars, threadVars, budgets
<1>1. CASE SinkStart \/ Announce \/ Publish \/ FlushStart \/ SinkStopped
           \/ ServerExit \/ ServerCheck
  <2>1. UNCHANGED <<conn, el, th>>
    BY <1>1 DEF SinkStart, Announce, Publish, FlushStart, SinkStopped,
       ServerExit, ServerCheck
  <2>2. QED BY <2>1
<1>2. CASE SinkStop BY <1>2 DEF SinkStop, ResetBacklog
<1>3. ASSUME NEW c \in Clients, ServerAccept(c) PROVE ConnInv'
  BY <1>3 DEF ServerAccept
<1>4. CASE ServerSend
  <2>1. /\ conn[peer] = "accepted" /\ UNCHANGED <<el, th>>
        /\ \/ conn' = [conn EXCEPT ![peer] = "closed"]
           \/ conn' = [conn EXCEPT ![peer] = "fd"]
    BY <1>4 DEF ServerSend, ServeInv
  <2>2. QED BY <2>1
<1>5. CASE ServerSize
  <2>1. /\ conn[peer] = "fd" /\ UNCHANGED <<el, th>>
        /\ \/ conn' = [conn EXCEPT ![peer] = "closed"]
           \/ conn' = [conn EXCEPT ![peer] = "size"]
    BY <1>5 DEF ServerSize, ServeInv
  <2>2. QED BY <2>1
<1>6. ASSUME NEW c \in Clients, SrcStart(c) PROVE ConnInv'
  BY <1>6 DEF SrcStart
<1>7. ASSUME NEW c \in Clients, CliThread(c) PROVE ConnInv'
  BY <1>7 DEF CliThread, Connect, RecvSize, RecvFails
<1>8. ASSUME NEW c \in Clients, Streaming(c) PROVE ConnInv'
  BY <1>8 DEF Streaming, Create, Wrap
<1>9. ASSUME NEW c \in Clients, SrcLeave(c) \/ SrcStop(c) \/ SrcStopped(c) PROVE ConnInv'
  BY <1>9 DEF SrcLeave, SrcStop, SrcStopped
<1>10. ASSUME NEW c \in Clients, SrcCrash(c) PROVE ConnInv'
  BY <1>10 DEF SrcCrash
<1>11. QED
  BY <1>1, <1>2, <1>3, <1>4, <1>5, <1>6, <1>7, <1>8, <1>9, <1>10 DEF Next, Server

\* Offers.
LEMMA OfferStep ==
  ASSUME Inv, Next
  PROVE  OfferInv'
<1>0. /\ OfferInv /\ None \notin Offers /\ pool_set \in Offers \cup {None}
      /\ got \in [Clients -> Offers \cup {None}] /\ offer \in Offers \cup {None}
      /\ shm_mmap \in [Clients -> Offers \cup {None}]
  BY NoneIsNoOffer DEF Inv, TypeOK
<1> USE <1>0 DEF OfferInv, Whole, serverVars, sinkVars, threadVars, budgets
<1>1. CASE SinkStart BY <1>1 DEF SinkStart
<1>2. CASE Announce BY <1>2 DEF Announce
<1>3. CASE Publish \/ FlushStart \/ SinkStop \/ SinkStopped \/ ServerExit
  <2>1. UNCHANGED <<offer, got, shm_mmap>> /\ (pool_set' = pool_set \/ pool_set' = None)
    BY <1>3 DEF Publish, FlushStart, SinkStop, SinkStopped, ServerExit
  <2>2. QED BY <2>1
<1>4. ASSUME NEW c \in Clients, ServerAccept(c) PROVE OfferInv'
  BY <1>4 DEF ServerAccept
<1>5. CASE ServerCheck BY <1>5 DEF ServerCheck
<1>6. CASE ServerSend
  <2>1. /\ UNCHANGED <<pool_set, shm_mmap>> /\ offer' \in {offer, None}
        /\ got' = got \/ got' = [got EXCEPT ![peer] = offer]
    BY <1>6 DEF ServerSend
  <2>2. QED BY <2>1
<1>7. CASE ServerSize
  <2>1. UNCHANGED <<pool_set, shm_mmap>> /\ offer' = None BY <1>7 DEF ServerSize
  <2>2. peer \in Clients /\ offer \in Offers /\ (el[peer] # "dead" => got[peer] = offer)
    BY <1>7 DEF Inv, ServeInv, ServerSize
  <2>3. \/ got' = got
        \/ el[peer] # "dead" /\ got' = [got EXCEPT ![peer].bytes = offer.bytes]
    BY <1>7 DEF ServerSize, SizeToSend
  <2>4. [offer EXCEPT !.bytes = offer.bytes] = offer BY <2>2 DEF Offers
  <2>5. \A c \in Clients : got'[c] = got[c] BY <2>2, <2>3, <2>4
  <2>6. QED BY <2>1, <2>5
<1>8. ASSUME NEW c \in Clients, CliThread(c) PROVE OfferInv'
  <2>1. CASE Connect(c) BY <2>1 DEF Connect
  <2>2. CASE RecvFails(c) BY <2>2 DEF RecvFails
  <2>3. CASE RecvSize(c)
    <3>1. /\ UNCHANGED <<pool_set, offer>> /\ shm_mmap' = [shm_mmap EXCEPT ![c] = got[c]]
          /\ got' = [got EXCEPT ![c] = None]
      BY <2>3 DEF RecvSize
    <3>2. QED BY <3>1
  <2>4. QED BY <1>8, <2>1, <2>2, <2>3 DEF CliThread
<1>9. ASSUME NEW c \in Clients,
             \/ SrcStart(c) \/ Streaming(c) \/ SrcLeave(c) \/ SrcStop(c)
             \/ SrcStopped(c) \/ SrcCrash(c)
      PROVE  OfferInv'
  <2>1. /\ UNCHANGED <<pool_set, offer>>
        /\ got' = got \/ got' = [got EXCEPT ![c] = None]
        /\ shm_mmap' = shm_mmap \/ shm_mmap' = [shm_mmap EXCEPT ![c] = None]
    BY <1>9 DEF SrcStart, Streaming, Create, Wrap, SrcLeave, SrcStop, SrcStopped, SrcCrash
  <2>2. QED BY <2>1
<1>10. QED
  BY <1>1, <1>2, <1>3, <1>4, <1>5, <1>6, <1>7, <1>8, <1>9 DEF Next, Server

\* Every step of a server, source or thread keeps the invariant.
THEOREM InvStep == Inv /\ [Next]_vars => Inv'
<1> SUFFICES ASSUME Inv, [Next]_vars PROVE Inv' OBVIOUS
<1>1. CASE Next BY <1>1, TypeStep, ServeStep, ConnStep, OfferStep DEF Inv
<1>2. CASE UNCHANGED vars
  BY <1>2 DEF Inv, TypeOK, ThreadInv, ServeInv, Serving, ConnInv, OfferInv, Whole, vars,
     serverVars, sinkVars, threadVars, budgets
<1>3. QED BY <1>1, <1>2

-----------------------------------------------------------------------------
(* The theorems. *)

\* The inductive invariant: types, the thread and its connection, what a source
\* without a conversation has, and whole offers.
THEOREM HandshakeInvariance == Spec => []Inv
<1>1. QED BY InvInit, InvStep, PTL DEF Spec

\* The size a source maps is that of the pool whose descriptor it got, for any
\* number of sources, announcements, flushes, restarts and crashes.
THEOREM SizesMatch == Spec => []SizeMatchesFd
<1>1. Inv => SizeMatchesFd BY DEF Inv, OfferInv, Whole, SizeMatchesFd
<1>2. QED BY <1>1, HandshakeInvariance, PTL

\* An accepted connection that was neither answered nor closed is the one the
\* server thread is at work on (scm_server_thread), for any number of sources.
THEOREM EachServedOnce == Spec => []ServedOnce
<1>1. Inv => ServedOnce BY DEF Inv, ServeInv, Serving, ServedOnce
<1>2. QED BY <1>1, HandshakeInvariance, PTL
=============================================================================
