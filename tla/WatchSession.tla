---------------------------- MODULE WatchSession ----------------------------
(***************************************************************************)
(* pkg/subscribe: one websocket connection on which a client subscribes to  *)
(* any number of resources.  Four kinds of goroutine share the connection:  *)
(*                                                                          *)
(*   the handler  receives from the events channel and writes to the        *)
(*                socket (handler.go, handler);                             *)
(*   the reader   reads the client's subscribe and stop messages, and       *)
(*                closes the events channel (watcher.go, Watch and watch);  *)
(*   a stream     per subscription copies a store's watch channel into the  *)
(*                events channel (watcher.go, add and stream);              *)
(*   the drainer  is left behind by a handler that returns.                 *)
(*                                                                          *)
(* Data abstraction: of the events only their number in the channel is      *)
(* kept; a subscription is its key; the WaitGroup is the set of streams     *)
(* that have not called Done.                                               *)
(***************************************************************************)
EXTENDS Integers

CONSTANTS
    Keys,      \* subscription keys (Subscribe.key)
    NilKeys,   \* keys whose store may have no watch: Watch returns a nil channel
    MaxSubs,   \* subscriptions of one connection (bound of the model)
    Cap        \* capacity of the events channel, 100 in the code

ASSUME KeysAssumption == Keys # {} /\ NilKeys \subseteq Keys
ASSUME MaxSubsAssumption == MaxSubs \in Nat
ASSUME CapAssumption == Cap \in Nat \ {0}

VARIABLES
    conn,       \* the websocket: "open", or "lost" for both ends
    reqctx,     \* the request's context is done
    sctx,       \* s.ctx is done
    lock,       \* holder of s.Mutex, Free when unlocked
    watchers,   \* s.watchers: the stream whose cancel is stored, per key
    nsub,       \* number of streams started so far
    live,       \* s.wg: streams that have not called Done
    skey,       \* key of each stream
    spc,        \* control point of each stream
    cancelled,  \* the stream's own context was cancelled
    source,     \* the store's channel for the stream: "open" or "closed"
    qlen,       \* events in the events channel
    closed,     \* the events channel is closed
    rpc, rkey,  \* reader: control point and key of the message being handled
    hpc,        \* handler: control point
    drainer,    \* the drain goroutine runs
    misuse,     \* the WaitGroup panicked
    adds, stops \* per key: watches registered, resource.stop events sent

sessionVars == <<lock, watchers, nsub, live, skey, adds, stops>>
streamVars == <<spc, cancelled, source>>
chanVars == <<qlen, closed>>
envVars == <<conn, reqctx, sctx, misuse>>
vars == <<sessionVars, streamVars, chanVars, envVars, rpc, rkey, hpc, drainer>>

Streams == 1..MaxSubs
Reader == 0
Free == -1
None == 0

Init ==
    /\ conn = "open" /\ reqctx = FALSE /\ sctx = FALSE /\ misuse = FALSE
    /\ lock = Free
    /\ watchers = [k \in Keys |-> None]
    /\ nsub = 0 /\ live = {}
    /\ skey = [g \in Streams |-> CHOOSE k \in Keys : TRUE]
    /\ spc = [g \in Streams |-> "off"]
    /\ cancelled = [g \in Streams |-> FALSE]
    /\ source = [g \in Streams |-> "open"]
    /\ qlen = 0 /\ closed = FALSE
    /\ rpc = "read" /\ rkey = (CHOOSE k \in Keys : TRUE)
    /\ hpc = "select" /\ drainer = FALSE
    /\ adds = [k \in Keys |-> 0] /\ stops = [k \in Keys |-> 0]

(* A send on the events channel.  A sender at a full channel blocks; one at *)
(* a closed channel panics, which NoSendOnClosed excludes.                  *)
Send == ~closed /\ qlen < Cap /\ qlen' = qlen + 1 /\ UNCHANGED closed

Cancelled(g) == cancelled[g] \/ sctx

-----------------------------------------------------------------------------
(* stop(sub, resp) run by process p for key k.  It sends resource.stop while*)
(* it holds the lock, so it is two steps when the key is registered.        *)
stopLocks(p, k) ==
    /\ lock = Free
    /\ watchers[k] # None
    /\ lock' = p
    /\ cancelled' = [cancelled EXCEPT ![watchers[k]] = TRUE]

(* Seeded fault: the key is not deleted.                                    *)
stopSends_KeepsKey(p, k) ==
    /\ lock = p
    /\ Send
    /\ stops' = [stops EXCEPT ![k] = @ + 1]
    /\ lock' = Free
    /\ UNCHANGED watchers

stopSends(p, k) ==
    /\ lock = p
    /\ Send
    /\ watchers' = [watchers EXCEPT ![k] = None]
    /\ stops' = [stops EXCEPT ![k] = @ + 1]
    /\ lock' = Free

stopNothing(k) ==
    /\ lock = Free
    /\ watchers[k] = None

-----------------------------------------------------------------------------
(* The reader: watch(conn, resp).                                           *)
readSubscribe ==
    /\ rpc = "read" /\ conn = "open"
    /\ \E k \in Keys : rkey' = k
    /\ rpc' = "check"
    /\ UNCHANGED <<sessionVars, streamVars, chanVars, envVars, hpc, drainer>>

readStop ==
    /\ rpc = "read" /\ conn = "open"
    /\ \E k \in Keys : rkey' = k
    /\ rpc' = "stop"
    /\ UNCHANGED <<sessionVars, streamVars, chanVars, envVars, hpc, drainer>>

readGarbage ==
    /\ rpc = "read" /\ conn = "open"
    /\ rpc' = "badmsg"
    /\ UNCHANGED <<rkey, sessionVars, streamVars, chanVars, envVars, hpc, drainer>>

(* Seeded fault: a read error is treated like a bad message.                *)
readFails_Continues ==
    /\ rpc = "read" /\ conn = "lost"
    /\ UNCHANGED vars

readFails ==
    /\ rpc = "read" /\ conn = "lost"
    /\ rpc' = "leave"
    /\ UNCHANGED <<rkey, sessionVars, streamVars, chanVars, envVars, hpc, drainer>>

readerSendsErr ==
    /\ rpc = "badmsg"
    /\ Send
    /\ rpc' = "read"
    /\ UNCHANGED <<rkey, sessionVars, streamVars, envVars, hpc, drainer>>

readerStops ==
    \/ /\ rpc = "stop"
       /\ stopLocks(Reader, rkey)
       /\ rpc' = "stopping"
       /\ UNCHANGED <<watchers, nsub, live, skey, adds, stops, spc, source, chanVars>>
    \/ /\ rpc = "stop"
       /\ stopNothing(rkey)
       /\ rpc' = "read"
       /\ UNCHANGED <<sessionVars, streamVars, chanVars>>
    \/ /\ rpc = "stopping"
       /\ stopSends(Reader, rkey)
       /\ rpc' = "read"
       /\ UNCHANGED <<nsub, live, skey, adds, streamVars>>

readerStop ==
    /\ readerStops
    /\ UNCHANGED <<rkey, envVars, hpc, drainer>>

(* Seeded fault: a key that is already watched is added again.              *)
readerChecks_Never ==
    /\ rpc = "check"
    /\ lock = Free
    /\ rpc' = IF nsub < MaxSubs THEN "add" ELSE "read"
    /\ UNCHANGED <<rkey, sessionVars, streamVars, chanVars, envVars, hpc, drainer>>

(* Lock, look the key up, Unlock; add is called after the unlock.           *)
readerChecks ==
    /\ rpc = "check"
    /\ lock = Free
    /\ rpc' = IF watchers[rkey] = None /\ nsub < MaxSubs THEN "add" ELSE "read"
    /\ UNCHANGED <<rkey, sessionVars, streamVars, chanVars, envVars, hpc, drainer>>

(* add: the cancel function is stored, wg.Add(1), the stream started.  A    *)
(* WaitGroup whose waiter has been released but has not yet run panics.     *)
add ==
    /\ rpc = "add"
    /\ lock = Free
    /\ LET g == nsub + 1
       IN  /\ nsub' = g
           /\ watchers' = [watchers EXCEPT ![rkey] = g]
           /\ live' = live \cup {g}
           /\ skey' = [skey EXCEPT ![g] = rkey]
           /\ spc' = [spc EXCEPT ![g] = "open"]
    /\ adds' = [adds EXCEPT ![rkey] = @ + 1]
    /\ rpc' = "read"
    /\ UNCHANGED <<rkey, lock, stops, cancelled, source, chanVars, envVars, hpc, drainer>>

(* The deferred cancel and wg.Wait of watch, then Watch's sendErr and       *)
(* close(result).                                                           *)
readerCancels ==
    /\ rpc = "leave"
    /\ sctx' = TRUE
    /\ rpc' = "wait"
    /\ UNCHANGED <<rkey, conn, reqctx, misuse, sessionVars, streamVars, chanVars, hpc, drainer>>

(* Seeded fault: watch does not wait for its streams.                       *)
readerWaits_Skipped ==
    /\ rpc = "wait"
    /\ rpc' = "report"
    /\ UNCHANGED <<rkey, sessionVars, streamVars, chanVars, envVars, hpc, drainer>>

readerWaits ==
    /\ rpc = "wait"
    /\ live = {}
    /\ rpc' = "report"
    /\ UNCHANGED <<rkey, sessionVars, streamVars, chanVars, envVars, hpc, drainer>>

readerReports ==
    /\ rpc = "report"
    /\ Send
    /\ rpc' = "close"
    /\ UNCHANGED <<rkey, sessionVars, streamVars, envVars, hpc, drainer>>

readerCloses ==
    /\ rpc = "close"
    /\ closed' = TRUE
    /\ rpc' = "done"
    /\ UNCHANGED <<rkey, qlen, sessionVars, streamVars, envVars, hpc, drainer>>

reader ==
    \/ readFails \/ readerSendsErr \/ readerStop \/ readerChecks \/ add
    \/ readerCancels \/ readerWaits \/ readerReports \/ readerCloses

message == readSubscribe \/ readStop \/ readGarbage

-----------------------------------------------------------------------------
(* A stream g: the goroutine of add around stream(ctx, sub, result).        *)
MoveTo(g, point) == spc' = [spc EXCEPT ![g] = point]

(* The schema lookup, CanWatch and Store.Watch, any of which may fail.      *)
streamOpens(g) ==
    /\ spc[g] = "open"
    /\ MoveTo(g, "start")
    /\ UNCHANGED <<cancelled, source, sessionVars, chanVars>>

streamRefused(g) ==
    /\ spc[g] = "open"
    /\ MoveTo(g, "err")
    /\ UNCHANGED <<cancelled, source, sessionVars, chanVars>>

streamSendsErr(g) ==
    /\ spc[g] = "err"
    /\ Send
    /\ MoveTo(g, "stop")
    /\ UNCHANGED <<cancelled, source, sessionVars>>

(* resource.start, then either the wait of a nil channel or the range loop. *)
streamStarts(g) ==
    /\ spc[g] = "start"
    /\ Send
    /\ \/ MoveTo(g, "range")
       \/ skey[g] \in NilKeys /\ MoveTo(g, "nilwait")
    /\ UNCHANGED <<cancelled, source, sessionVars>>

(* A nil channel: the stream waits for s.apiOp.Context(), the request's,    *)
(* not for its own context.                                                 *)
streamNilEnds(g) ==
    /\ spc[g] = "nilwait"
    /\ reqctx
    /\ MoveTo(g, "stop")
    /\ UNCHANGED <<cancelled, source, sessionVars, chanVars>>

streamEvent(g) ==
    /\ spc[g] = "range" /\ source[g] = "open"
    /\ Send
    /\ UNCHANGED <<streamVars, sessionVars>>

(* Seeded fault: a full channel is written to all the same.                 *)
streamTooSlow_Overfills(g) ==
    /\ spc[g] = "range" /\ source[g] = "open"
    /\ qlen = Cap
    /\ qlen' = qlen + 1
    /\ UNCHANGED <<closed, streamVars, sessionVars>>

(* The channel is full: the stream gives up, and a goroutine drains c.      *)
streamTooSlow(g) ==
    /\ spc[g] = "range" /\ source[g] = "open"
    /\ qlen = Cap
    /\ MoveTo(g, "stop")
    /\ UNCHANGED <<cancelled, source, sessionVars, chanVars>>

streamErrEvent(g) ==
    /\ spc[g] = "range" /\ source[g] = "open"
    /\ MoveTo(g, "errevent")
    /\ UNCHANGED <<cancelled, source, sessionVars, chanVars>>

streamSendsErrEvent(g) ==
    /\ spc[g] = "errevent"
    /\ Send
    /\ MoveTo(g, "range")
    /\ UNCHANGED <<cancelled, source, sessionVars>>

(* Seeded fault: the stream ends without its deferred stop.                 *)
streamEnds_NoStop(g) ==
    /\ spc[g] = "range" /\ source[g] = "closed"
    /\ MoveTo(g, "wgdone")
    /\ UNCHANGED <<cancelled, source, sessionVars, chanVars>>

streamEnds(g) ==
    /\ spc[g] = "range" /\ source[g] = "closed"
    /\ MoveTo(g, "stop")
    /\ UNCHANGED <<cancelled, source, sessionVars, chanVars>>

(* The deferred s.stop(sub, resp).  It looks the key up again, so it may    *)
(* find the cancel function of a later subscription to the same key.        *)
streamStopLocks(g) ==
    /\ spc[g] = "stop"
    /\ stopLocks(g, skey[g])
    /\ MoveTo(g, "stopping")
    /\ UNCHANGED <<source, watchers, nsub, live, skey, adds, stops, chanVars>>

streamStopNothing(g) ==
    /\ spc[g] = "stop"
    /\ stopNothing(skey[g])
    /\ MoveTo(g, "wgdone")
    /\ UNCHANGED <<cancelled, source, sessionVars, chanVars>>

streamStopSends(g) ==
    /\ spc[g] = "stopping"
    /\ stopSends(g, skey[g])
    /\ MoveTo(g, "wgdone")
    /\ UNCHANGED <<cancelled, source, nsub, live, skey, adds>>

streamStep(g) ==
    /\ \/ streamOpens(g) \/ streamRefused(g) \/ streamSendsErr(g)
       \/ streamStarts(g) \/ streamNilEnds(g)
       \/ streamEvent(g) \/ streamTooSlow(g)
       \/ streamErrEvent(g) \/ streamSendsErrEvent(g) \/ streamEnds(g)
       \/ streamStopLocks(g) \/ streamStopNothing(g) \/ streamStopSends(g)
    /\ UNCHANGED <<envVars, rpc, rkey, hpc, drainer>>

(* wg.Done: the last one releases a handler that waits in Close.            *)
wgDone(g) ==
    /\ spc[g] = "wgdone"
    /\ live' = live \ {g}
    /\ MoveTo(g, "off")
    /\ hpc' = IF hpc = "waiting" /\ live' = {} THEN "woken" ELSE hpc
    /\ UNCHANGED <<lock, watchers, nsub, skey, adds, stops, cancelled, source,
                   chanVars, envVars, rpc, rkey, drainer>>

stream(g) == streamStep(g) \/ wgDone(g)

(* The store closes the channel of a watch: whenever it likes, and surely   *)
(* once the context of the watch is cancelled (see Fairness).               *)
storeCloses(g) ==
    /\ spc[g] \in {"range", "errevent"} /\ source[g] = "open"
    /\ source' = [source EXCEPT ![g] = "closed"]
    /\ UNCHANGED <<spc, cancelled, sessionVars, chanVars, envVars, rpc, rkey, hpc, drainer>>

-----------------------------------------------------------------------------
(* The handler: its select loop, writeData, and its deferred calls.         *)
HandlerLocal == <<sessionVars, streamVars, rpc, rkey>>

handlerReceives ==
    /\ hpc = "select" /\ qlen > 0
    /\ qlen' = qlen - 1
    /\ hpc' = "write"
    /\ UNCHANGED <<closed, envVars, drainer, HandlerLocal>>

handlerPings ==
    /\ hpc = "select"
    /\ hpc' = "write"
    /\ UNCHANGED <<chanVars, envVars, drainer, HandlerLocal>>

handlerWrites ==
    /\ hpc = "write"
    /\ hpc' = "select"
    /\ UNCHANGED <<chanVars, envVars, drainer, HandlerLocal>>

(* A write error, or events closed: the handler returns.  The deferred      *)
(* calls start with the drainer.                                            *)
handlerWriteFails ==
    /\ hpc = "write"
    /\ hpc' = "close" /\ drainer' = TRUE
    /\ UNCHANGED <<chanVars, envVars, HandlerLocal>>

handlerSeesClosed ==
    /\ hpc = "select" /\ closed /\ qlen = 0
    /\ hpc' = "close" /\ drainer' = TRUE
    /\ UNCHANGED <<chanVars, envVars, HandlerLocal>>

(* Seeded fault: Close waits for the streams without cancelling them.       *)
closeCancels_Forgotten ==
    /\ hpc = "close"
    /\ hpc' = "closing"
    /\ UNCHANGED <<envVars, chanVars, drainer, HandlerLocal>>

(* watches.Close(): s.cancel(), then s.wg.Wait().                           *)
closeCancels ==
    /\ hpc = "close"
    /\ sctx' = TRUE
    /\ hpc' = "closing"
    /\ UNCHANGED <<conn, reqctx, misuse, chanVars, drainer, HandlerLocal>>

closeWaits ==
    /\ hpc = "closing"
    /\ hpc' = IF live = {} THEN "closed" ELSE "waiting"
    /\ UNCHANGED <<chanVars, envVars, drainer, HandlerLocal>>

(* Back in Wait, a released waiter panics when the counter is in use again. *)
closeWakes ==
    /\ hpc = "woken"
    /\ hpc' = "closed"
    /\ misuse' = (live # {})
    /\ UNCHANGED <<conn, reqctx, sctx, chanVars, drainer, HandlerLocal>>

(* c.Close(), and ServeHTTP returns: the request's context ends.            *)
handlerReturns ==
    /\ hpc = "closed"
    /\ conn' = "lost" /\ reqctx' = TRUE
    /\ hpc' = "returned"
    /\ UNCHANGED <<sctx, misuse, chanVars, drainer, HandlerLocal>>

handler ==
    \/ handlerReceives \/ handlerPings \/ handlerWrites \/ handlerWriteFails
    \/ handlerSeesClosed \/ closeCancels \/ closeWaits \/ closeWakes \/ handlerReturns

drain ==
    /\ drainer /\ qlen > 0
    /\ qlen' = qlen - 1
    /\ UNCHANGED <<closed, envVars, hpc, drainer, HandlerLocal>>

(* The peer goes away.                                                      *)
disconnect ==
    /\ conn = "open"
    /\ conn' = "lost"
    /\ UNCHANGED <<reqctx, sctx, misuse, chanVars, hpc, drainer, HandlerLocal>>

-----------------------------------------------------------------------------
Running ==
    \/ reader \/ message \/ handler \/ drain \/ disconnect
    \/ \E g \in Streams : stream(g) \/ storeCloses(g)

Ended == hpc = "returned" /\ rpc = "done" /\ live = {} /\ qlen = 0

Terminated == (Ended \/ misuse) /\ UNCHANGED vars

Next == (~misuse /\ Running) \/ Terminated

(* Every goroutine that can run is scheduled; a goroutine that wants the    *)
(* mutex gets it (Go's mutex is starvation free), as does one that wants    *)
(* the channel (its waiters are served in order), hence SF for streams and  *)
(* the reader; the handler's select picks a ready event in the end; a write *)
(* to a lost connection fails in the end; a store closes the channel of a   *)
(* watch whose context is done.  Nothing obliges the peer to send a message *)
(* or to go away, or a store to end a watch.                                *)
Fairness ==
    /\ SF_vars(~misuse /\ reader)
    /\ \A g \in Streams : SF_vars(~misuse /\ stream(g))
    /\ \A g \in Streams : WF_vars(~misuse /\ Cancelled(g) /\ storeCloses(g))
    /\ WF_vars(~misuse /\ handler)
    /\ SF_vars(~misuse /\ (handlerReceives \/ handlerSeesClosed))
    /\ SF_vars(~misuse /\ conn = "lost" /\ handlerWriteFails)
    /\ WF_vars(~misuse /\ drain)

Spec == Init /\ [][Next]_vars /\ Fairness

-----------------------------------------------------------------------------
StreamPoints ==
    {"off", "open", "err", "start", "nilwait", "range", "errevent", "stop",
     "stopping", "wgdone"}

ReaderPoints ==
    {"read", "check", "add", "stop", "stopping", "badmsg", "leave", "wait",
     "report", "close", "done"}

HandlerPoints ==
    {"select", "write", "close", "closing", "waiting", "woken", "closed", "returned"}

(* Types of the session's, the goroutines' and the channel's variables.     *)
TypeOK ==
    /\ conn \in {"open", "lost"}
    /\ reqctx \in BOOLEAN /\ sctx \in BOOLEAN /\ misuse \in BOOLEAN
    /\ lock \in {Free, Reader} \cup Streams
    /\ watchers \in [Keys -> {None} \cup Streams]
    /\ nsub \in 0..MaxSubs /\ live \in SUBSET Streams
    /\ skey \in [Streams -> Keys] /\ spc \in [Streams -> StreamPoints]
    /\ cancelled \in [Streams -> BOOLEAN]
    /\ source \in [Streams -> {"open", "closed"}]
    /\ qlen \in 0..Cap /\ closed \in BOOLEAN
    /\ rpc \in ReaderPoints /\ rkey \in Keys
    /\ hpc \in HandlerPoints /\ drainer \in BOOLEAN
    /\ adds \in [Keys -> Nat] /\ stops \in [Keys -> Nat]

(* Nothing can send on the events channel once it is closed: every stream   *)
(* has finished, its deferred stop included, when Watch's goroutine closes  *)
(* the channel (watcher.go 131, 146, 49-50).                                *)
NoSendOnClosed ==
    closed => /\ rpc = "done"
              /\ \A g \in Streams : spc[g] = "off"

(* A stream that has not begun to leave can still be cancelled: its cancel  *)
(* function is registered under its key, or was called, or the session is   *)
(* over (watcher.go 44-45, 165-170).                                        *)
NoOrphan ==
    \A g \in live :
        spc[g] \notin {"stop", "stopping", "wgdone"} =>
            Cancelled(g) \/ watchers[skey[g]] = g

(* A key in s.watchers belongs to a stream that will still remove it: a     *)
(* dead entry would make the client's later subscriptions to the key no-ops *)
(* (watcher.go 37, 50, 166-168).                                            *)
RegisteredAlive ==
    \A k \in Keys : watchers[k] # None =>
        /\ watchers[k] \in live
        /\ skey[watchers[k]] = k
        /\ spc[watchers[k]] # "wgdone"

(* The client is told of the end of each watch exactly once: for a key,     *)
(* resource.stop events and the registered watch add up to the watches      *)
(* started (watcher.go 24-38, 45).                                          *)
StopsBalance ==
    \A k \in Keys : adds[k] = stops[k] + (IF watchers[k] = None THEN 0 ELSE 1)

NilWaits == \E g \in Streams : spc[g] = "nilwait"

(* A connection that is lost is cleaned up: events is closed and drained,   *)
(* every stream ends and the handler returns (watcher.go 140-147,           *)
(* handler.go 50-64), unless a stream waits at a nil channel.               *)
SessionEnds == (conn = "lost") ~> (Ended \/ misuse \/ NilWaits)

(* A handler that leaves its loop returns, whatever the peer does and       *)
(* wherever the reader and the streams are (handler.go 53, watcher.go 140), *)
(* unless a stream waits at a nil channel.                                  *)
HandlerReturns == (hpc = "close") ~> (hpc = "returned" \/ misuse \/ NilWaits)

(* handler.go 59: "Ensure that events gets fully consumed": after the       *)
(* handler has left, events is received from until it is closed and empty.  *)
EventsFullyConsumed == (hpc = "close") ~> ((closed /\ qlen = 0) \/ misuse)
=============================================================================
