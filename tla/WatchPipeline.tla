---------------------------- MODULE WatchPipeline ----------------------------
(***************************************************************************)
(* One watch from the subscriber down to Kubernetes: WatchRefresh.Watch,    *)
(* partition.Store.Watch, byNameOrNamespaceStore.Watch, and the proxy       *)
(* store's Watch, WatchNames, watch and listAndWatch.  The goroutines are   *)
(*                                                                          *)
(*   the poller       of WatchRefresh, which looks for a change of access;  *)
(*   the closer       of partition.Store.Watch;                             *)
(* and, for each partition,                                                 *)
(*   the copier       that opens the partition's watch and copies it;       *)
(*   the lister       that runs listAndWatch and closes its channel;        *)
(*   the stopper      that stops the Kubernetes watch with the context;     *)
(*   the filter       of WatchNames, for partitions that are names.         *)
(*                                                                          *)
(* All channels are unbuffered: a send and its receive are one step that    *)
(* moves the event from one goroutine's hand into the next one's.  Contexts *)
(* are nested session > refresh > partition; `cancelled` has the ones whose *)
(* own cancel was called.  Events are abstracted to their number and to     *)
(* what the code asks of them: an object with a granted name, an object     *)
(* with another name, an error with a Status, any other error.  An event    *)
(* that is received while the Kubernetes watch is being stopped is taken to *)
(* be received before.                                                      *)
(***************************************************************************)
EXTENDS Naturals, Sequences

CONSTANTS
    Partitions,     \* all partitions a subscription may have
    Kind,           \* "pass", "all" or "names", for each partition
    NS,             \* Namespace of each partition
    SubNS,          \* namespace of the subscription (apiOp.Namespace before)
    Subscriptions,  \* sets of partitions rbacPartitioner.All may return
    MaxEvents,      \* events of each Kubernetes watch (bound of the model)
    MaxChanges      \* changes of the user's access (bound of the model)

ASSUME PartitionsAssumption ==
    /\ \A ps \in Subscriptions : ps \subseteq Partitions
    /\ \A p \in Partitions : Kind[p] \in {"pass", "all", "names"}
(* A passthrough is a watch's only partition (rbac_store.go 85-88).         *)
ASSUME PassthroughAssumption ==
    \A ps \in Subscriptions : \A p \in ps : Kind[p] = "pass" => ps = {p}
ASSUME BoundsAssumption == MaxEvents \in [Partitions -> Nat] /\ MaxChanges \in Nat

VARIABLES
    parts,      \* the partitions of this subscription
    hasUser,    \* the request's context has a user
    caller,     \* WatchRefresh.Watch and the watches below it
    access,     \* the ID of the user's access set: its number of changes
    as,         \* as.ID of WatchRefresh
    poller,
    cancelled,  \* contexts whose cancel was called
    closer, response,
    namespace,  \* apiOp.Namespace of the request all copiers share
    nsUsed,     \* namespace each copier asked its client for
    copier, lister, filter, stopper, watcher,
    atCopier, atLister, atFilter,  \* the event each of them holds, or None
    consumer,   \* whoever receives for the session: its stream, or the
                \* goroutine a stream with a slow client leaves behind
    taken,      \* events a Kubernetes watch has produced
    owed,       \* history: those of them the subscriber may see
    got         \* events the subscriber has received

callVars == <<parts, hasUser, caller, access, as, poller>>
ctxVars == <<cancelled, closer, response, consumer>>
nsVars == <<namespace, nsUsed>>
handVars == <<atCopier, atLister, atFilter>>
goVars == <<copier, lister, filter, stopper, watcher, handVars>>
logVars == <<taken, owed, got>>
vars == <<callVars, ctxVars, nsVars, goVars, logVars>>

EventKinds == {"granted", "other", "status", "junk"}
Event == UNION {[n : 0..MaxEvents[p], kind : EventKinds] : p \in Partitions}
(* Without a filter on names, an object is like any other.                  *)
Kinds(p) == IF Kind[p] = "names" THEN EventKinds ELSE EventKinds \ {"other"}
None == [n |-> 0, kind |-> "none"]
Unused == "unused"

SessionDone == "session" \in cancelled
RefreshDone == cancelled \cap {"session", "refresh"} # {}
PartitionDone == cancelled # {}

(* What the subscriber of a partition sees: WatchNames lets only objects    *)
(* with one of its names pass; listAndWatch leaves out errors it cannot     *)
(* read.                                                                    *)
Visible(p, e) ==
    IF Kind[p] = "names" THEN e.kind = "granted" ELSE e.kind # "junk"

Init ==
    /\ parts \in Subscriptions
    /\ hasUser \in BOOLEAN
    /\ caller = "schemas"
    /\ access = 0 /\ as = 0
    /\ poller = "off"
    /\ cancelled = {}
    /\ closer = "off" /\ response = "none"
    /\ namespace = SubNS
    /\ nsUsed = [p \in Partitions |-> Unused]
    /\ copier = [p \in Partitions |-> "off"]
    /\ lister = [p \in Partitions |-> "off"]
    /\ filter = [p \in Partitions |-> "off"]
    /\ stopper = [p \in Partitions |-> "off"]
    /\ watcher = [p \in Partitions |-> "none"]
    /\ atCopier = [p \in Partitions |-> None]
    /\ atLister = [p \in Partitions |-> None]
    /\ atFilter = [p \in Partitions |-> None]
    /\ consumer = "reading"
    /\ taken = [p \in Partitions |-> 0]
    /\ owed = [p \in Partitions |-> <<>>]
    /\ got = [p \in Partitions |-> <<>>]

-----------------------------------------------------------------------------
(* WatchRefresh.Watch.  The partitions follow from the schema the stream    *)
(* looked up before; the access the poller compares with is read now.       *)
refreshWatch ==
    /\ caller = "schemas"
    /\ caller' = "watch"
    /\ as' = access
    /\ poller' = IF hasUser THEN "sleep" ELSE "off"
    /\ UNCHANGED <<parts, hasUser, access, ctxVars, nsVars, goVars, logVars>>

(* Seeded fault: the goroutine polls once.                                  *)
pollTick_Once ==
    /\ poller = "sleep"
    /\ ~RefreshDone
    /\ cancelled' = IF as # access THEN cancelled \cup {"refresh"} ELSE cancelled
    /\ poller' = "done"
    /\ UNCHANGED <<parts, hasUser, caller, access, as, closer, response, consumer,
                   nsVars, goVars, logVars>>

(* The timer fires, AccessFor is asked again, and its answer has another    *)
(* ID; a poll that finds the same one goes back to sleep and is no step.    *)
pollTick ==
    /\ poller = "sleep"
    /\ ~RefreshDone
    /\ as # access
    /\ cancelled' = cancelled \cup {"refresh"}
    /\ poller' = "done"
    /\ UNCHANGED <<parts, hasUser, caller, access, as, closer, response, consumer,
                   nsVars, goVars, logVars>>

pollEnds ==
    /\ poller = "sleep"
    /\ RefreshDone
    /\ poller' = "done"
    /\ UNCHANGED <<parts, hasUser, caller, access, as, ctxVars, nsVars, goVars, logVars>>

(* partition.Store.Watch: a copier per partition, and the closer.           *)
partitionWatch ==
    /\ caller = "watch"
    /\ caller' = "returned"
    /\ copier' = [p \in Partitions |-> IF p \in parts THEN "ns" ELSE "off"]
    /\ closer' = "wait"
    /\ response' = "open"
    /\ UNCHANGED <<parts, hasUser, access, as, poller, cancelled, consumer, nsVars,
                   lister, filter, stopper, watcher, handVars, logVars>>

(* Seeded fault: the closer does not wait for the copiers.                  *)
close_NoWait ==
    /\ closer = "wait"
    /\ PartitionDone
    /\ closer' = "done"
    /\ response' = "closed"
    /\ cancelled' = cancelled \cup {"partition"}
    /\ UNCHANGED <<callVars, consumer, nsVars, goVars, logVars>>

(* The closer: <-ctx.Done(), eg.Wait(), cancel(), close(response).          *)
close ==
    /\ closer = "wait"
    /\ PartitionDone
    /\ \A p \in parts : copier[p] = "done"
    /\ closer' = "done"
    /\ response' = "closed"
    /\ cancelled' = cancelled \cup {"partition"}
    /\ UNCHANGED <<callVars, consumer, nsVars, goVars, logVars>>

-----------------------------------------------------------------------------
(* The copier of partition p.                                               *)

(* Seeded fault: names are watched in the namespace of the subscription.    *)
setNamespace_AllOnly(p) ==
    /\ copier[p] = "ns"
    /\ copier' = [copier EXCEPT ![p] = "client"]
    /\ namespace' = IF Kind[p] = "all" THEN NS[p] ELSE namespace
    /\ UNCHANGED <<callVars, ctxVars, nsUsed, lister, filter, stopper, watcher, handVars, logVars>>

(* byNameOrNamespaceStore.Watch writes to the request all copiers share.    *)
setNamespace(p) ==
    /\ copier[p] = "ns"
    /\ copier' = [copier EXCEPT ![p] = "client"]
    /\ namespace' = IF Kind[p] = "pass" THEN namespace ELSE NS[p]
    /\ UNCHANGED <<callVars, ctxVars, nsUsed, lister, filter, stopper, watcher, handVars, logVars>>

(* Store.Watch or Store.WatchNames: the client is made for the namespace    *)
(* the request has by now; the goroutines of watch and WatchNames start.    *)
openWatch(p) ==
    /\ copier[p] = "client"
    /\ nsUsed' = [nsUsed EXCEPT ![p] = namespace]
    /\ copier' = [copier EXCEPT ![p] = "range"]
    /\ lister' = [lister EXCEPT ![p] = "watch"]
    /\ filter' = [filter EXCEPT ![p] = IF Kind[p] = "names" THEN "range" ELSE "off"]
    /\ UNCHANGED <<callVars, ctxVars, namespace, stopper, watcher, handVars, logVars>>

(* No client: the copier returns the error to its errgroup, which nobody    *)
(* asks for it, and cancels the watch.                                      *)
openFails(p) ==
    /\ copier[p] = "client"
    /\ copier' = [copier EXCEPT ![p] = "done"]
    /\ cancelled' = cancelled \cup {"partition"}
    /\ UNCHANGED <<callVars, closer, response, consumer, nsVars,
                   lister, filter, stopper, watcher, handVars, logVars>>

(* The end of the channel the copier ranges over.                           *)
SourceClosed(p) == IF Kind[p] = "names" THEN filter[p] = "done" ELSE lister[p] = "done"

(* Seeded fault: the end of one partition does not end the watch.           *)
copierEnds_NoCancel(p) ==
    /\ copier[p] = "range"
    /\ SourceClosed(p)
    /\ copier' = [copier EXCEPT ![p] = "done"]
    /\ UNCHANGED <<callVars, ctxVars, nsVars, lister, filter, stopper, watcher, handVars, logVars>>

copierEnds(p) ==
    /\ copier[p] = "range"
    /\ SourceClosed(p)
    /\ copier' = [copier EXCEPT ![p] = "done"]
    /\ cancelled' = cancelled \cup {"partition"}
    /\ UNCHANGED <<callVars, closer, response, consumer, nsVars,
                   lister, filter, stopper, watcher, handVars, logVars>>

(* response <- i.  It is received by the stream, or by the goroutine that a *)
(* stream with a slow client leaves behind to drain the channel.            *)
receive(p) ==
    /\ copier[p] = "send"
    /\ got' = [got EXCEPT ![p] = Append(@, atCopier[p])]
    /\ atCopier' = [atCopier EXCEPT ![p] = None]
    /\ copier' = [copier EXCEPT ![p] = "range"]
    /\ UNCHANGED <<callVars, ctxVars, nsVars, lister, filter, stopper, watcher,
                   atLister, atFilter, taken, owed>>

-----------------------------------------------------------------------------
(* The lister of partition p: listAndWatch, then close(result).             *)
k8sWatch(p) ==
    /\ lister[p] = "watch"
    /\ ~PartitionDone
    /\ lister' = [lister EXCEPT ![p] = "range"]
    /\ stopper' = [stopper EXCEPT ![p] = "wait"]
    /\ watcher' = [watcher EXCEPT ![p] = "open"]
    /\ UNCHANGED <<callVars, ctxVars, nsVars, copier, filter, handVars, logVars>>

(* The request is refused, or its context is done: returnErr.               *)
k8sWatchFails(p) ==
    LET e == [n |-> 0, kind |-> "status"] IN
    /\ lister[p] = "watch"
    /\ lister' = [lister EXCEPT ![p] = "sendLast"]
    /\ atLister' = [atLister EXCEPT ![p] = e]
    /\ owed' = [owed EXCEPT ![p] = IF Visible(p, e) THEN Append(@, e) ELSE @]
    /\ UNCHANGED <<callVars, ctxVars, nsVars, copier, filter, stopper, watcher,
                   atCopier, atFilter, taken, got>>

(* An event of the Kubernetes watch; an error without a Status is skipped,  *)
(* an error with one is passed on and does not end the watch.               *)
takeEvent(p) ==
    /\ lister[p] = "range"
    /\ watcher[p] = "open"
    /\ taken[p] < MaxEvents[p]
    /\ taken' = [taken EXCEPT ![p] = @ + 1]
    /\ \E k \in Kinds(p) :
        LET e == [n |-> taken'[p], kind |-> k] IN
        /\ owed' = [owed EXCEPT ![p] = IF Visible(p, e) THEN Append(@, e) ELSE @]
        /\ IF k = "junk" THEN UNCHANGED <<lister, atLister>>
           ELSE /\ lister' = [lister EXCEPT ![p] = "send"]
                /\ atLister' = [atLister EXCEPT ![p] = e]
    /\ UNCHANGED <<callVars, ctxVars, nsVars, copier, filter, stopper, watcher,
                   atCopier, atFilter, got>>

(* The result channel of the Kubernetes watch is closed.  The deferred Stop *)
(* and the errgroup's context end the stopper.                              *)
listerEnds(p) ==
    /\ lister[p] = "range"
    /\ watcher[p] = "closed"
    /\ lister' = [lister EXCEPT ![p] = "done"]
    /\ UNCHANGED <<callVars, ctxVars, nsVars, copier, filter, stopper, watcher, handVars, logVars>>

(* Seeded fault: listAndWatch goes on after a refused request.              *)
AfterSend_NoReturn(p) == "range"

(* result <- event: to the filter, or to the copier.                        *)
AfterSend(p) == IF lister[p] = "sendLast" THEN "done" ELSE "range"

listerSends(p) ==
    /\ lister[p] \in {"send", "sendLast"}
    /\ IF Kind[p] = "names"
       THEN /\ filter[p] = "range"
            /\ IF atLister[p].kind = "granted"
               THEN /\ filter' = [filter EXCEPT ![p] = "send"]
                    /\ atFilter' = [atFilter EXCEPT ![p] = atLister[p]]
               ELSE UNCHANGED <<filter, atFilter>>
            /\ UNCHANGED <<copier, atCopier>>
       ELSE /\ copier[p] = "range"
            /\ copier' = [copier EXCEPT ![p] = "send"]
            /\ atCopier' = [atCopier EXCEPT ![p] = atLister[p]]
            /\ UNCHANGED <<filter, atFilter>>
    /\ lister' = [lister EXCEPT ![p] = AfterSend(p)]
    /\ atLister' = [atLister EXCEPT ![p] = None]
    /\ UNCHANGED <<callVars, ctxVars, nsVars, stopper, watcher, logVars>>

(* The filter of WatchNames.                                                *)
filterSends(p) ==
    /\ filter[p] = "send" /\ copier[p] = "range"
    /\ filter' = [filter EXCEPT ![p] = "range"]
    /\ copier' = [copier EXCEPT ![p] = "send"]
    /\ atFilter' = [atFilter EXCEPT ![p] = None]
    /\ atCopier' = [atCopier EXCEPT ![p] = atFilter[p]]
    /\ UNCHANGED <<callVars, ctxVars, nsVars, lister, stopper, watcher, atLister, logVars>>

filterEnds(p) ==
    /\ filter[p] = "range" /\ lister[p] = "done"
    /\ filter' = [filter EXCEPT ![p] = "done"]
    /\ UNCHANGED <<callVars, ctxVars, nsVars, copier, lister, stopper, watcher, handVars, logVars>>

(* Seeded fault: nothing stops the Kubernetes watch with the context.       *)
stop_OnlyAtEnd(p) ==
    /\ stopper[p] = "wait"
    /\ lister[p] = "done"
    /\ stopper' = [stopper EXCEPT ![p] = "done"]
    /\ watcher' = [watcher EXCEPT ![p] = "closed"]
    /\ UNCHANGED <<callVars, ctxVars, nsVars, copier, lister, filter, handVars, logVars>>

(* The stopper: the errgroup's context is done with the request's, or when  *)
(* the loop over the events has returned.                                   *)
stop(p) ==
    /\ stopper[p] = "wait"
    /\ PartitionDone \/ lister[p] = "done"
    /\ stopper' = [stopper EXCEPT ![p] = "done"]
    /\ watcher' = [watcher EXCEPT ![p] = "closed"]
    /\ UNCHANGED <<callVars, ctxVars, nsVars, copier, lister, filter, handVars, logVars>>

-----------------------------------------------------------------------------
(* The environment.                                                         *)

(* TimeoutSeconds are over, or the connection to Kubernetes is lost.        *)
watchTimesOut(p) ==
    /\ watcher[p] = "open"
    /\ watcher' = [watcher EXCEPT ![p] = "closed"]
    /\ UNCHANGED <<callVars, ctxVars, nsVars, copier, lister, filter, stopper, handVars, logVars>>

(* A change after the end of the refresh context is seen by nobody.         *)
accessChanges ==
    /\ hasUser /\ ~RefreshDone
    /\ access < MaxChanges
    /\ access' = access + 1
    /\ UNCHANGED <<parts, hasUser, caller, as, poller, ctxVars, nsVars, goVars, logVars>>

(* The client unsubscribes, goes away or is too slow.                       *)
sessionCancels ==
    /\ ~SessionDone
    /\ cancelled' = cancelled \cup {"session"}
    /\ UNCHANGED <<callVars, closer, response, consumer, nsVars, goVars, logVars>>

(* The stream sees the channel closed.                                      *)
consumerEnds ==
    /\ response = "closed"
    /\ consumer = "reading"
    /\ consumer' = "over"
    /\ UNCHANGED <<callVars, cancelled, closer, response, nsVars, goVars, logVars>>

(* The deferred stop of the stream.                                         *)
deferredStop ==
    /\ consumer # "reading"
    /\ sessionCancels

Poller == pollTick \/ pollEnds
Caller == refreshWatch \/ partitionWatch
Copier(p) == setNamespace(p) \/ openWatch(p) \/ openFails(p) \/ copierEnds(p) \/ receive(p)
Lister(p) == k8sWatch(p) \/ k8sWatchFails(p) \/ listerEnds(p) \/ listerSends(p)
Filter(p) == filterSends(p) \/ filterEnds(p)

Ended ==
    /\ consumer = "over" /\ SessionDone
    /\ closer = "done" /\ poller # "sleep"
    /\ \A p \in parts : /\ copier[p] = "done"
                        /\ lister[p] \in {"off", "done"}
                        /\ filter[p] \in {"off", "done"}
                        /\ stopper[p] \in {"off", "done"}

Next ==
    \/ Poller \/ Caller \/ close
    \/ \E p \in parts :
        Copier(p) \/ Lister(p) \/ Filter(p) \/ takeEvent(p) \/ stop(p) \/ watchTimesOut(p)
    \/ accessChanges \/ sessionCancels \/ consumerEnds
    \/ Ended /\ UNCHANGED vars

(* The scheduler runs what can run; timers fire; a call to Kubernetes       *)
(* returns; the subscriber receives until the channel is closed, and its    *)
(* deferred stop runs.  No event, timeout, change or cancellation is owed.  *)
Fairness ==
    /\ WF_vars(Poller) /\ WF_vars(Caller) /\ WF_vars(close)
    /\ WF_vars(consumerEnds) /\ WF_vars(deferredStop)
    /\ \A p \in Partitions :
        /\ WF_vars(p \in parts /\ Copier(p)) /\ WF_vars(p \in parts /\ Lister(p))
        /\ WF_vars(p \in parts /\ Filter(p)) /\ WF_vars(p \in parts /\ stop(p))

Spec == Init /\ [][Next]_vars /\ Fairness

-----------------------------------------------------------------------------
(* Types; a goroutine that is about to send holds an event, and a lister    *)
(* ranges only over a watch that Kubernetes has granted.                    *)
TypeOK ==
    /\ parts \in Subscriptions /\ hasUser \in BOOLEAN
    /\ caller \in {"schemas", "watch", "returned"}
    /\ access \in 0..MaxChanges /\ as \in 0..MaxChanges
    /\ poller \in {"off", "sleep", "done"}
    /\ cancelled \subseteq {"session", "refresh", "partition"}
    /\ closer \in {"off", "wait", "done"}
    /\ response \in {"none", "open", "closed"}
    /\ consumer \in {"reading", "over"}
    /\ copier \in [Partitions -> {"off", "ns", "client", "range", "send", "done"}]
    /\ lister \in [Partitions -> {"off", "watch", "range", "send", "sendLast", "done"}]
    /\ filter \in [Partitions -> {"off", "range", "send", "done"}]
    /\ stopper \in [Partitions -> {"off", "wait", "done"}]
    /\ watcher \in [Partitions -> {"none", "open", "closed"}]
    /\ \A p \in Partitions :
        /\ copier[p] = "send" <=> atCopier[p] # None
        /\ filter[p] = "send" <=> atFilter[p] # None
        /\ lister[p] \in {"send", "sendLast"} <=> atLister[p] # None
    /\ \A p \in Partitions : lister[p] = "range" => watcher[p] # "none"
    /\ \A p \in Partitions : taken[p] \in 0..MaxEvents[p]

(* The pipeline is a StoreWatch: whatever the copiers, listers and filters  *)
(* do at the same time, a partition's events arrive in their order, none is *)
(* lost, repeated or shown although its name is not granted, and response   *)
(* is closed after the last of them and nothing is sent on it afterwards    *)
(* (store.go, Watch; proxy_store.go).                                       *)
Promise == INSTANCE StoreWatch WITH
    Sources <- Partitions, Events <- Event,
    done <- PartitionDone, open <- response # "closed"

IsStoreWatch == Promise!Safe

(* The copiers share apiOp and race for its Namespace (rbac_store.go,       *)
(* byNameOrNamespaceStore.Watch).  What is left of the intent: the watch of *)
(* every partition is opened in the namespace of a partition of the watch,  *)
(* hence in its own if it is the only one, as for a watch of one object;    *)
(* only a passthrough is opened in the namespace of the subscription.       *)
WatchedNamespaces ==
    \A p \in parts :
        nsUsed[p] # Unused =>
            IF Kind[p] = "pass" THEN nsUsed[p] = SubNS
            ELSE \E q \in parts : nsUsed[p] = NS[q]

(* A cancelled watch is closed, the liveness StoreWatch promises; and a     *)
(* partition whose watch ends, for whatever reason, ends the whole watch,   *)
(* so that no client goes on without one of its namespaces (store.go, the   *)
(* deferred cancel).                                                        *)
EndsTogether ==
    /\ Promise!Closes
    /\ (\E p \in parts : copier[p] = "done") ~> (response = "closed")

(* A session that gives the watch up leaves no goroutine behind: copiers,   *)
(* listers, filters, stoppers, closer and poller all end.                   *)
NothingLeaks == SessionDone ~> Ended

(* A user whose access changes after the watch has begun, and stays         *)
(* changed, is not served by it for ever (watch_refresh.go).                *)
AccessChangeEnds == <>[](caller # "schemas" /\ as # access) => <>(response = "closed")
=============================================================================
