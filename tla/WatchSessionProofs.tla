------------------------- MODULE WatchSessionProofs -------------------------
(* Proofs about WatchSession, for any set of keys, any number of            *)
(* subscriptions and any capacity of the events channel.                    *)
EXTENDS WatchSession, TLAPS

(* The WaitGroup counts the streams that run, and the reader that has       *)
(* waited for it finds none: only the reader starts streams.                *)
WaitGroupInv ==
    /\ \A g \in Streams : spc[g] # "off" <=> g \in live
    /\ \A g \in Streams : g > nsub => spc[g] = "off" /\ ~cancelled[g]
    /\ rpc \in {"report", "close", "done"} => live = {}
    /\ closed => rpc = "done"

(* Whoever is inside stop holds the mutex, and its key is registered to a   *)
(* stream it has cancelled; the reader about to add found its key free.     *)
MutexInv ==
    /\ \A g \in Streams : spc[g] = "stopping" =>
          lock = g /\ watchers[skey[g]] # None /\ cancelled[watchers[skey[g]]]
    /\ rpc = "stopping" =>
          lock = Reader /\ watchers[rkey] # None /\ cancelled[watchers[rkey]]
    /\ rpc = "add" => watchers[rkey] = None /\ nsub < MaxSubs

(* The inductive invariant.                                                 *)
IInv == TypeOK /\ WaitGroupInv /\ MutexInv /\ NoOrphan /\ RegisteredAlive /\ StopsBalance

USE DEF Streams, Reader, Free, None

(* Every initial state satisfies the invariant.                             *)
LEMMA InitInv == Init => IInv
<1> SUFFICES ASSUME Init PROVE IInv
    OBVIOUS
<1> USE KeysAssumption, MaxSubsAssumption, CapAssumption DEF Init
<1>1. (CHOOSE k \in Keys : TRUE) \in Keys
    OBVIOUS
<1>2. TypeOK
  <2>1. /\ skey \in [Streams -> Keys] /\ spc \in [Streams -> StreamPoints]
        /\ rkey \in Keys
    BY <1>1 DEF StreamPoints
  <2>2. /\ watchers \in [Keys -> {None} \cup Streams]
        /\ cancelled \in [Streams -> BOOLEAN]
        /\ source \in [Streams -> {"open", "closed"}]
        /\ adds \in [Keys -> Nat] /\ stops \in [Keys -> Nat]
    OBVIOUS
  <2>3. /\ conn \in {"open", "lost"}
        /\ reqctx \in BOOLEAN /\ sctx \in BOOLEAN /\ misuse \in BOOLEAN
        /\ closed \in BOOLEAN /\ drainer \in BOOLEAN
    OBVIOUS
  <2>4. /\ lock \in {Free, Reader} \cup Streams
        /\ nsub \in 0..MaxSubs /\ live \in SUBSET Streams /\ qlen \in 0..Cap
        /\ rpc \in ReaderPoints /\ hpc \in HandlerPoints
    BY DEF ReaderPoints, HandlerPoints
  <2> QED BY <2>1, <2>2, <2>3, <2>4 DEF TypeOK
<1>3. WaitGroupInv /\ MutexInv /\ NoOrphan /\ RegisteredAlive /\ StopsBalance
    BY DEF WaitGroupInv, MutexInv, NoOrphan, RegisteredAlive, StopsBalance
<1> QED BY <1>2, <1>3 DEF IInv

LEMMA AddInv == IInv /\ add => IInv'
<1> SUFFICES ASSUME IInv, add PROVE IInv'
    OBVIOUS
<1> USE MaxSubsAssumption, CapAssumption DEF IInv, add, chanVars, envVars
<1>1. TypeOK'
    BY DEF TypeOK, MutexInv, StreamPoints, ReaderPoints
<1>2. WaitGroupInv'
    BY DEF TypeOK, MutexInv, WaitGroupInv
<1>3. MutexInv'
    BY DEF TypeOK, MutexInv, WaitGroupInv
<1>4. NoOrphan'
    BY DEF TypeOK, MutexInv, WaitGroupInv, NoOrphan, Cancelled
<1>5. RegisteredAlive'
    BY DEF TypeOK, MutexInv, WaitGroupInv, RegisteredAlive
<1>6. StopsBalance'
    BY DEF TypeOK, MutexInv, StopsBalance
<1> QED BY <1>1, <1>2, <1>3, <1>4, <1>5, <1>6

(* A step that leaves the session's variables and the control points of the *)
(* streams alone, and takes the reader neither into stop nor to add, keeps  *)
(* the invariant if it keeps the types: a context once done stays done.     *)
LEMMA FrameInv ==
    ASSUME IInv, TypeOK', UNCHANGED <<sessionVars, spc, cancelled>>, sctx => sctx',
           UNCHANGED <<rpc, rkey>> \/ rpc' \notin {"stopping", "add"},
           rpc' \in {"report", "close", "done"} => live = {},
           closed' => rpc' = "done"
    PROVE  IInv'
<1> USE DEF sessionVars
<1>1. WaitGroupInv'
    BY DEF IInv, WaitGroupInv
<1>2. MutexInv'
    BY DEF IInv, MutexInv
<1>3. NoOrphan'
    BY DEF IInv, NoOrphan, Cancelled
<1>4. RegisteredAlive' /\ StopsBalance'
    BY DEF IInv, RegisteredAlive, StopsBalance
<1> QED BY <1>1, <1>2, <1>3, <1>4 DEF IInv

(* The handler, the drainer and the peer.                                   *)
LEMMA HandlerInv == IInv /\ (handler \/ drain \/ disconnect) => IInv'
<1> SUFFICES ASSUME IInv, handler \/ drain \/ disconnect PROVE IInv'
    OBVIOUS
<1> USE DEF handler, drain, disconnect, handlerReceives, handlerPings, handlerWrites,
            handlerWriteFails, handlerSeesClosed, closeCancels, closeWaits, closeWakes,
            handlerReturns, chanVars, envVars
<1>1. UNCHANGED HandlerLocal /\ (sctx => sctx') /\ closed' = closed
    OBVIOUS
<1>2. /\ hpc' \in HandlerPoints /\ conn' \in {"open", "lost"} /\ qlen' \in 0..Cap
    BY CapAssumption DEF IInv, TypeOK, HandlerPoints
<1>3. reqctx' \in BOOLEAN /\ sctx' \in BOOLEAN /\ drainer' \in BOOLEAN
    BY DEF IInv, TypeOK
<1>4. misuse' \in BOOLEAN
    BY Zenon DEF IInv, TypeOK
<1>5. TypeOK'
    BY <1>1, <1>2, <1>3, <1>4 DEF IInv, TypeOK, HandlerLocal, sessionVars, streamVars
<1>6. /\ rpc' \in {"report", "close", "done"} => live = {}
      /\ closed' => rpc' = "done"
    BY <1>1 DEF IInv, WaitGroupInv, HandlerLocal
<1> QED BY <1>1, <1>5, <1>6, FrameInv DEF HandlerLocal, streamVars

(* The steps of the reader that touch no watcher.                           *)
LEMMA ReadInv ==
    ASSUME IInv,
           \/ message \/ readFails \/ readerSendsErr
           \/ readerCancels \/ readerWaits \/ readerReports \/ readerCloses
    PROVE  IInv'
<1> USE DEF message, readSubscribe, readStop, readGarbage, readFails, readerSendsErr,
            readerCancels, readerWaits, readerReports, readerCloses, Send
<1>1. UNCHANGED <<sessionVars, streamVars, conn, reqctx, misuse, hpc, drainer>>
    BY DEF envVars
<1>2. sctx' \in BOOLEAN /\ (sctx => sctx')
    BY DEF IInv, TypeOK, envVars
<1>3. closed' \in BOOLEAN /\ qlen' \in 0..Cap
  <2>1. closed' \in BOOLEAN
    BY DEF IInv, TypeOK, chanVars
  <2>2. qlen' \in 0..Cap
    BY CapAssumption DEF IInv, TypeOK, chanVars
  <2> QED BY <2>1, <2>2
<1>4. rpc' \in ReaderPoints /\ rkey' \in Keys
    BY DEF IInv, TypeOK, ReaderPoints
<1>5. TypeOK'
    BY <1>1, <1>2, <1>3, <1>4 DEF IInv, TypeOK, sessionVars, streamVars
<1>6. rpc' \notin {"stopping", "add"}
    OBVIOUS
<1>7. /\ rpc' \in {"report", "close", "done"} => live = {}
      /\ closed' => rpc' = "done"
    BY DEF IInv, WaitGroupInv, chanVars
<1> QED BY <1>1, <1>2, <1>5, <1>6, <1>7, FrameInv DEF streamVars

(* The reader looks its key up.                                             *)
LEMMA CheckInv == IInv /\ readerChecks => IInv'
<1> SUFFICES ASSUME IInv, readerChecks PROVE IInv'
    OBVIOUS
<1> USE DEF IInv, readerChecks, sessionVars, streamVars, chanVars, envVars
<1>1. TypeOK'
    BY DEF TypeOK, ReaderPoints
<1>2. WaitGroupInv'
    BY DEF WaitGroupInv
<1>3. MutexInv'
    BY MaxSubsAssumption DEF MutexInv, TypeOK
<1>4. NoOrphan' /\ RegisteredAlive' /\ StopsBalance'
    BY DEF NoOrphan, Cancelled, RegisteredAlive, StopsBalance
<1> QED BY <1>1, <1>2, <1>3, <1>4

(* The reader handles a stop message.                                       *)
LEMMA ReaderStopInv == IInv /\ readerStop => IInv'
<1> SUFFICES ASSUME IInv, readerStop PROVE IInv'
    OBVIOUS
<1> USE DEF readerStop, readerStops, sessionVars, streamVars, chanVars, envVars
<1>1. CASE rpc = "stop" /\ stopLocks(Reader, rkey)
  <2> USE <1>1 DEF stopLocks
  <2>1. TypeOK'
    BY DEF IInv, TypeOK, ReaderPoints, stopNothing
  <2>2. WaitGroupInv' /\ MutexInv'
    BY DEF IInv, TypeOK, WaitGroupInv, MutexInv, RegisteredAlive, stopNothing
  <2>3. NoOrphan' /\ RegisteredAlive' /\ StopsBalance'
    BY DEF IInv, TypeOK, NoOrphan, Cancelled, RegisteredAlive, StopsBalance, stopNothing
  <2> QED BY <2>1, <2>2, <2>3 DEF IInv
<1>2. CASE rpc = "stop" /\ stopNothing(rkey)
  <2> USE <1>2 DEF stopNothing, stopLocks
  <2>1. TypeOK'
    BY DEF IInv, TypeOK, ReaderPoints
  <2> QED BY <2>1, FrameInv DEF IInv, WaitGroupInv
<1>3. CASE rpc = "stopping" /\ stopSends(Reader, rkey)
  <2> USE <1>3 DEF stopSends, Send
  <2>1. TypeOK'
    <3>1. qlen' \in 0..Cap /\ stops' \in [Keys -> Nat]
      BY CapAssumption DEF IInv, TypeOK
    <3>2. watchers' \in [Keys -> {None} \cup Streams]
      BY DEF IInv, TypeOK
    <3> QED BY <3>1, <3>2 DEF IInv, TypeOK, ReaderPoints
  <2>2. WaitGroupInv' /\ MutexInv'
    BY DEF IInv, TypeOK, WaitGroupInv, MutexInv
  <2>3. NoOrphan'
    <3> SUFFICES ASSUME NEW h \in live',
                        spc'[h] \notin {"stop", "stopping", "wgdone"}
                 PROVE  Cancelled(h)' \/ watchers'[skey'[h]] = h
      BY DEF NoOrphan
    <3>1. h \in Streams /\ (Cancelled(h) \/ watchers[skey[h]] = h)
      BY DEF IInv, TypeOK, NoOrphan
    <3>2. CASE Cancelled(h)
      BY <3>2 DEF Cancelled
    <3>3. CASE watchers[skey[h]] = h /\ skey[h] # rkey
      BY <3>1, <3>3 DEF IInv, TypeOK
    <3>4. CASE watchers[skey[h]] = h /\ skey[h] = rkey
      BY <3>4 DEF IInv, MutexInv, Cancelled
    <3> QED BY <3>1, <3>2, <3>3, <3>4
  <2>4. RegisteredAlive' /\ StopsBalance'
    BY DEF IInv, TypeOK, MutexInv, RegisteredAlive, StopsBalance
  <2> QED BY <2>1, <2>2, <2>3, <2>4 DEF IInv
<1> QED BY <1>1, <1>2, <1>3

(* A stream that moves on without having begun to leave.                    *)
LEMMA MoveInv ==
    ASSUME IInv, TypeOK', NEW g \in Streams, NEW point \in StreamPoints,
           MoveTo(g, point),
           spc[g] \in {"open", "err", "start", "nilwait", "range", "errevent"},
           point \notin {"off", "stopping", "wgdone"},
           UNCHANGED <<sessionVars, cancelled, sctx, closed, rpc, rkey>>
    PROVE  IInv'
<1> USE DEF IInv, MoveTo, sessionVars
<1>1. WaitGroupInv'
    BY DEF TypeOK, WaitGroupInv
<1>2. MutexInv'
    BY DEF TypeOK, MutexInv
<1>3. NoOrphan'
    BY DEF TypeOK, NoOrphan, Cancelled
<1>4. RegisteredAlive' /\ StopsBalance'
    BY DEF TypeOK, RegisteredAlive, StopsBalance
<1> QED BY <1>1, <1>2, <1>3, <1>4

(* The body of stream.                                                      *)
LEMMA StreamBodyInv ==
    ASSUME IInv, NEW g \in Streams, UNCHANGED <<envVars, rpc, rkey, hpc, drainer>>,
           \/ streamOpens(g) \/ streamRefused(g) \/ streamSendsErr(g)
           \/ streamStarts(g) \/ streamNilEnds(g)
           \/ streamTooSlow(g) \/ streamErrEvent(g)
           \/ streamSendsErrEvent(g) \/ streamEnds(g)
    PROVE  IInv'
<1> USE DEF streamOpens, streamRefused, streamSendsErr, streamStarts, streamNilEnds,
            streamTooSlow, streamErrEvent, streamSendsErrEvent, streamEnds, Send
<1>1. /\ UNCHANGED <<sessionVars, cancelled, source, closed>>
      /\ spc[g] \in {"open", "err", "start", "nilwait", "range", "errevent"}
    BY DEF chanVars
<1>2. qlen' \in 0..Cap
    BY CapAssumption DEF IInv, TypeOK, chanVars
<1>3. PICK point \in {"err", "start", "nilwait", "range", "errevent", "stop"} : MoveTo(g, point)
    OBVIOUS
<1>4. TypeOK'
    BY <1>1, <1>2, <1>3 DEF IInv, TypeOK, MoveTo, StreamPoints, sessionVars, envVars
<1>5. point \in StreamPoints /\ point \notin {"off", "stopping", "wgdone"}
    BY <1>3 DEF StreamPoints
<1> QED BY <1>1, <1>3, <1>4, <1>5, MoveInv DEF envVars

(* An event copied, or a store's channel closed.                            *)
LEMMA EventInv ==
    ASSUME IInv, NEW g \in Streams, UNCHANGED <<envVars, rpc, rkey, hpc, drainer>>,
           streamEvent(g) \/ storeCloses(g)
    PROVE  IInv'
<1> USE DEF streamEvent, storeCloses, Send, streamVars
<1>1. UNCHANGED <<sessionVars, spc, cancelled, closed>>
    BY DEF chanVars
<1>2. qlen' \in 0..Cap
    BY CapAssumption DEF IInv, TypeOK, chanVars
<1>3. source' \in [Streams -> {"open", "closed"}]
    BY DEF IInv, TypeOK
<1>4. TypeOK'
    BY <1>1, <1>2, <1>3 DEF IInv, TypeOK, sessionVars, envVars
<1>5. /\ rpc' \in {"report", "close", "done"} => live = {}
      /\ closed' => rpc' = "done"
    BY <1>1 DEF IInv, WaitGroupInv
<1> QED BY <1>1, <1>4, <1>5, FrameInv DEF envVars

(* The deferred stop of a stream.                                           *)
LEMMA StreamStopInv ==
    ASSUME IInv, NEW g \in Streams, UNCHANGED <<envVars, rpc, rkey, hpc, drainer>>,
           streamStopLocks(g) \/ streamStopNothing(g) \/ streamStopSends(g)
    PROVE  IInv'
<1> USE DEF MoveTo, sessionVars, streamVars, chanVars, envVars
<1>1. CASE streamStopLocks(g)
  <2> USE <1>1 DEF streamStopLocks, stopLocks
  <2>1. TypeOK'
    BY DEF IInv, TypeOK, StreamPoints
  <2>2. WaitGroupInv' /\ MutexInv'
    <3> DEFINE w == watchers[skey[g]]
    <3>1. /\ w \in Streams /\ w \in live /\ w # None
          /\ cancelled' = [cancelled EXCEPT ![w] = TRUE]
          /\ lock = Free /\ lock' = g /\ spc[g] = "stop"
          /\ spc' = [spc EXCEPT ![g] = "stopping"]
          /\ UNCHANGED <<watchers, skey, nsub, live, rpc, rkey, closed>>
      BY DEF IInv, TypeOK, RegisteredAlive
    <3> HIDE DEF w
    <3>2. WaitGroupInv'
      BY <3>1 DEF IInv, TypeOK, WaitGroupInv
    <3>3. \A h \in Streams : spc'[h] = "stopping" => h = g
      BY <3>1 DEF IInv, TypeOK, MutexInv
    <3>4. rpc # "stopping"
      BY <3>1 DEF IInv, MutexInv
    <3>5. watchers'[skey'[g]] = w /\ cancelled'[w]
      BY <3>1 DEF w, IInv, TypeOK
    <3>6. MutexInv'
      BY <3>1, <3>3, <3>4, <3>5 DEF IInv, TypeOK, MutexInv
    <3> QED BY <3>2, <3>6
  <2>3. NoOrphan' /\ RegisteredAlive' /\ StopsBalance'
    BY DEF IInv, TypeOK, NoOrphan, Cancelled, RegisteredAlive, StopsBalance
  <2> QED BY <2>1, <2>2, <2>3 DEF IInv
<1>2. CASE streamStopNothing(g)
  <2> USE <1>2 DEF streamStopNothing, stopNothing
  <2>1. TypeOK'
    BY DEF IInv, TypeOK, StreamPoints
  <2>2. WaitGroupInv' /\ MutexInv'
    <3>1. WaitGroupInv'
      BY DEF IInv, TypeOK, WaitGroupInv
    <3>2. MutexInv'
      BY DEF IInv, TypeOK, MutexInv
    <3> QED BY <3>1, <3>2
  <2>3. NoOrphan' /\ RegisteredAlive' /\ StopsBalance'
    BY DEF IInv, TypeOK, NoOrphan, Cancelled, RegisteredAlive, StopsBalance
  <2> QED BY <2>1, <2>2, <2>3 DEF IInv
<1>3. CASE streamStopSends(g)
  <2> USE <1>3 DEF streamStopSends, stopSends, Send
  <2>1. TypeOK'
    <3>1. qlen' \in 0..Cap /\ stops' \in [Keys -> Nat]
      BY CapAssumption DEF IInv, TypeOK
    <3>2. /\ watchers' \in [Keys -> {None} \cup Streams]
          /\ spc' \in [Streams -> StreamPoints]
      BY DEF IInv, TypeOK, StreamPoints
    <3> QED BY <3>1, <3>2 DEF IInv, TypeOK
  <2>2. WaitGroupInv' /\ MutexInv'
    <3>1. WaitGroupInv'
      BY DEF IInv, TypeOK, WaitGroupInv
    <3>2. MutexInv'
      BY DEF IInv, TypeOK, MutexInv
    <3> QED BY <3>1, <3>2
  <2>3. NoOrphan'
    <3> SUFFICES ASSUME NEW h \in live',
                        spc'[h] \notin {"stop", "stopping", "wgdone"}
                 PROVE  Cancelled(h)' \/ watchers'[skey'[h]] = h
      BY DEF NoOrphan
    <3>1. h \in Streams /\ (Cancelled(h) \/ watchers[skey[h]] = h)
      BY DEF IInv, TypeOK, NoOrphan
    <3>2. CASE Cancelled(h)
      BY <3>2 DEF Cancelled
    <3>3. CASE watchers[skey[h]] = h /\ skey[h] # skey[g]
      BY <3>1, <3>3 DEF IInv, TypeOK
    <3>4. CASE watchers[skey[h]] = h /\ skey[h] = skey[g]
      BY <3>4 DEF IInv, MutexInv, Cancelled
    <3> QED BY <3>1, <3>2, <3>3, <3>4
  <2>4. RegisteredAlive' /\ StopsBalance'
    BY DEF IInv, TypeOK, MutexInv, RegisteredAlive, StopsBalance
  <2> QED BY <2>1, <2>2, <2>3, <2>4 DEF IInv
<1> QED BY <1>1, <1>2, <1>3

(* A stream leaves the WaitGroup.                                           *)
LEMMA DoneInv == \A g \in Streams : IInv /\ wgDone(g) => IInv'
<1> SUFFICES ASSUME NEW g \in Streams, IInv, wgDone(g) PROVE IInv'
    OBVIOUS
<1> USE DEF wgDone, MoveTo, chanVars, envVars
<1>1. TypeOK'
    BY DEF IInv, TypeOK, StreamPoints, HandlerPoints
<1>2. WaitGroupInv' /\ MutexInv'
    BY DEF IInv, TypeOK, WaitGroupInv, MutexInv
<1>3. NoOrphan' /\ RegisteredAlive' /\ StopsBalance'
    BY DEF IInv, TypeOK, NoOrphan, Cancelled, RegisteredAlive, StopsBalance
<1> QED BY <1>1, <1>2, <1>3 DEF IInv

(* Every step keeps the invariant.                                          *)
LEMMA NextInv == IInv /\ [Next]_vars => IInv'
<1> SUFFICES ASSUME IInv, [Next]_vars PROVE IInv'
    OBVIOUS
<1>1. CASE reader \/ message
    BY <1>1, AddInv, ReadInv, CheckInv, ReaderStopInv DEF reader
<1>2. CASE handler \/ drain \/ disconnect
    BY <1>2, HandlerInv
<1>3. ASSUME NEW g \in Streams, stream(g) PROVE IInv'
    BY <1>3, StreamBodyInv, EventInv, StreamStopInv, DoneInv DEF stream, streamStep
<1>4. ASSUME NEW g \in Streams, storeCloses(g) PROVE IInv'
    BY <1>4, EventInv DEF storeCloses
<1>5. CASE UNCHANGED vars
    BY <1>5, FrameInv
       DEF vars, sessionVars, streamVars, chanVars, envVars, IInv, WaitGroupInv, TypeOK
<1> QED BY <1>1, <1>2, <1>3, <1>4, <1>5 DEF Next, Running, Terminated

(* In every reachable state the invariant holds.                            *)
THEOREM Invariance == Spec => []IInv
<1> QED BY InitInv, NextInv, PTL DEF Spec

(* The types of the session's state (watcher.go, handler.go).               *)
THEOREM TypeCorrect == Spec => []TypeOK
<1>1. IInv => TypeOK
    BY DEF IInv
<1> QED BY <1>1, Invariance, PTL

(* No goroutine can send on the events channel once it is closed            *)
(* (watcher.go 131, 146): Go would panic.                                   *)
THEOREM NeverSendsOnClosed == Spec => []NoSendOnClosed
<1>1. IInv => NoSendOnClosed
    BY DEF IInv, WaitGroupInv, NoSendOnClosed
<1> QED BY <1>1, Invariance, PTL

(* Every running stream that has not begun to leave can be cancelled        *)
(* (watcher.go 40-56).                                                      *)
THEOREM StreamsRegistered == Spec => []NoOrphan
<1>1. IInv => NoOrphan
    BY DEF IInv
<1> QED BY <1>1, Invariance, PTL

(* Every registered key belongs to a running stream of that key, which will *)
(* remove it (watcher.go 24-56).                                            *)
THEOREM KeysRemoved == Spec => []RegisteredAlive
<1>1. IInv => RegisteredAlive
    BY DEF IInv
<1> QED BY <1>1, Invariance, PTL

(* Every watch started is announced as stopped once, or still registered    *)
(* (watcher.go 24-38, 45).                                                  *)
THEOREM StopsAnnounced == Spec => []StopsBalance
<1>1. IInv => StopsBalance
    BY DEF IInv
<1> QED BY <1>1, Invariance, PTL
=============================================================================
