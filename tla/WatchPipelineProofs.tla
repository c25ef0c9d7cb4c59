------------------------- MODULE WatchPipelineProofs -------------------------
(***************************************************************************)
(* WatchPipeline for any partitions, any number of events and any number of *)
(* changes of access: its types, the namespaces its watches are opened in,  *)
(* and that it implements the safety of StoreWatch.  The refinement needs   *)
(* to know where the events are that were taken and not yet received: the   *)
(* copier, the filter and the lister of a partition hold them, in this      *)
(* order, and nothing is held behind a goroutine that has ended.            *)
(***************************************************************************)
EXTENDS WatchPipeline, TLAPS

(* What the goroutines of a partition may hold.                             *)
Held == Event \cup {None}

(* The namespaces a watch may be opened in.                                 *)
Names == {NS[p] : p \in Partitions} \cup {SubNS, Unused}

Types ==
    /\ TypeOK
    /\ atCopier \in [Partitions -> Held]
    /\ atLister \in [Partitions -> Held]
    /\ atFilter \in [Partitions -> Held]
    /\ taken \in [Partitions -> Nat]
    /\ owed \in [Partitions -> Seq(Event)]
    /\ got \in [Partitions -> Seq(Event)]
    /\ nsUsed \in [Partitions -> Names] /\ namespace \in Names

(* How far the goroutines of a partition are, relative to each other.       *)
Order(p) ==
    /\ p \notin parts => copier[p] = "off"
    /\ copier[p] \in {"off", "ns", "client"} => lister[p] = "off" /\ filter[p] = "off"
    /\ copier[p] = "done" => lister[p] \in {"off", "done"} /\ filter[p] \in {"off", "done"}
    /\ Kind[p] # "names" => filter[p] = "off"
    /\ filter[p] = "done" => lister[p] = "done"
    /\ lister[p] = "send" => watcher[p] # "none"

(* The response is open until the last copier is done.                      *)
ResponseInv ==
    /\ caller # "returned" => response = "none" /\ closer = "off"
    /\ caller # "returned" => \A p \in Partitions : copier[p] = "off"
    /\ closer = "wait" => response = "open"
    /\ response = "closed" => \A p \in parts : copier[p] = "done"

(* The events of partition p under way: in front, in the copier's hand; in  *)
(* the filter's; and in the lister's, if the subscriber may see it.  The    *)
(* arguments are where the three are, what they hold, what is owed and what *)
(* was received.                                                            *)
InCopier(c) == IF c = "send" THEN 1 ELSE 0
InFilter(f) == IF f = "send" THEN 1 ELSE 0
InLister(p, l, al) == IF l \in {"send", "sendLast"} /\ Visible(p, al) THEN 1 ELSE 0

Lined(p, c, f, l, ac, af, al, o, g) ==
    /\ Len(o) = Len(g) + InCopier(c) + InFilter(f) + InLister(p, l, al)
    /\ \A i \in 1..Len(g) : g[i] = o[i]
    /\ c = "send" => ac = o[Len(g) + 1]
    /\ f = "send" => af = o[Len(g) + InCopier(c) + 1]
    /\ InLister(p, l, al) = 1 => al = o[Len(o)]
    /\ l \in {"send", "sendLast"} /\ Kind[p] # "names" => Visible(p, al)

Queue(p) == Lined(p, copier[p], filter[p], lister[p],
                  atCopier[p], atFilter[p], atLister[p], owed[p], got[p])

(* The namespace the copiers share, once one of them has written it.        *)
NamespaceInv ==
    \A p \in parts :
        /\ Kind[p] = "pass" => namespace = SubNS
        /\ Kind[p] # "pass" /\ copier[p] \notin {"off", "ns"} =>
            \E q \in parts : namespace = NS[q]

IInv ==
    /\ Types
    /\ ResponseInv
    /\ NamespaceInv /\ WatchedNamespaces
    /\ \A p \in Partitions : Order(p) /\ Queue(p)

-----------------------------------------------------------------------------
(* What each step of the pipeline does to the events under way.             *)

(* The copier's event is received.                                          *)
LEMMA LinedReceive ==
    ASSUME NEW p, NEW f, NEW l, NEW ac \in Event, NEW af, NEW al,
           NEW o \in Seq(Event), NEW g \in Seq(Event),
           Lined(p, "send", f, l, ac, af, al, o, g)
    PROVE  Lined(p, "range", f, l, None, af, al, o, Append(g, ac))
<1>1. /\ Len(Append(g, ac)) = Len(g) + 1
      /\ \A i \in 1..Len(g) : Append(g, ac)[i] = g[i]
      /\ Append(g, ac)[Len(g) + 1] = ac
  OBVIOUS
<1> QED BY <1>1 DEF Lined, InCopier, InFilter, InLister

(* The lister hands its event to the copier, where there is no filter.      *)
LEMMA LinedCopy ==
    ASSUME NEW p, Kind[p] # "names", NEW l \in {"send", "sendLast"}, NEW m \in {"range", "done"},
           NEW f, f # "send", NEW ac, NEW af, NEW al,
           NEW o \in Seq(Event), NEW g \in Seq(Event),
           Lined(p, "range", f, l, ac, af, al, o, g)
    PROVE  Lined(p, "send", f, m, al, af, None, o, g)
BY DEF Lined, InCopier, InFilter, InLister

(* The filter keeps an event whose name is not granted.                     *)
LEMMA LinedFilter ==
    ASSUME NEW p, Kind[p] = "names", NEW l \in {"send", "sendLast"}, NEW m \in {"range", "done"},
           NEW c, NEW ac, NEW af, NEW al,
           NEW o \in Seq(Event), NEW g \in Seq(Event),
           Lined(p, c, "range", l, ac, af, al, o, g)
    PROVE  /\ al.kind = "granted" => Lined(p, c, "send", m, ac, al, None, o, g)
           /\ al.kind # "granted" => Lined(p, c, "range", m, ac, af, None, o, g)
<1>1. Visible(p, al) <=> al.kind = "granted"
  BY DEF Visible
<1>2. InLister(p, m, None) = 0
  BY DEF InLister
<1>3. InLister(p, l, al) = (IF al.kind = "granted" THEN 1 ELSE 0)
  BY <1>1 DEF InLister
<1>4. InCopier(c) \in {0, 1} /\ Len(g) \in Nat
  BY DEF InCopier
<1>5. CASE al.kind = "granted"
  BY <1>2, <1>3, <1>4, <1>5 DEF Lined, InFilter
<1>6. CASE al.kind # "granted"
  BY <1>2, <1>3, <1>4, <1>6 DEF Lined, InFilter
<1> QED BY <1>5, <1>6

(* The filter hands its event to the copier.                                *)
LEMMA LinedPass ==
    ASSUME NEW p, NEW l, NEW ac, NEW af, NEW al,
           NEW o \in Seq(Event), NEW g \in Seq(Event),
           Lined(p, "range", "send", l, ac, af, al, o, g)
    PROVE  Lined(p, "send", "range", l, af, None, al, o, g)
BY DEF Lined, InCopier, InFilter, InLister

(* An event is taken and, unless it is left out, held by the lister.        *)
LEMMA LinedTake ==
    ASSUME NEW p, NEW c, NEW f, NEW l, l \notin {"send", "sendLast"},
           NEW m \in {"send", "sendLast"}, NEW ac, NEW af, NEW al, NEW e \in Event,
           NEW o \in Seq(Event), NEW g \in Seq(Event),
           Lined(p, c, f, l, ac, af, al, o, g),
           Kind[p] # "names" => Visible(p, e)
    PROVE  Lined(p, c, f, m, ac, af, e, IF Visible(p, e) THEN Append(o, e) ELSE o, g)
<1>1. /\ Len(Append(o, e)) = Len(o) + 1
      /\ \A i \in 1..Len(o) : Append(o, e)[i] = o[i]
      /\ Append(o, e)[Len(o) + 1] = e
  OBVIOUS
<1>2. InLister(p, l, al) = 0 /\ InLister(p, m, e) = (IF Visible(p, e) THEN 1 ELSE 0)
  BY DEF InLister
<1>3. /\ Len(o) = Len(g) + InCopier(c) + InFilter(f)
      /\ InCopier(c) \in {0, 1} /\ InFilter(f) \in {0, 1} /\ Len(g) \in Nat
      /\ c = "send" => InCopier(c) = 1
      /\ f = "send" => InFilter(f) = 1
  BY <1>2 DEF InCopier, InFilter, Lined
<1>4. CASE Visible(p, e)
  BY <1>1, <1>2, <1>3, <1>4 DEF Lined
<1>5. CASE ~Visible(p, e)
  BY <1>2, <1>5 DEF Lined
<1> QED BY <1>4, <1>5

(* A goroutine that does not send changes nothing about them.               *)
LEMMA LinedMove ==
    ASSUME NEW p, NEW c, NEW f, NEW l, NEW c2, NEW f2, NEW l2, NEW ac, NEW af, NEW al,
           NEW o, NEW g, Lined(p, c, f, l, ac, af, al, o, g),
           c = "send" <=> c2 = "send", f = "send" <=> f2 = "send",
           l2 = l \/ (l \notin {"send", "sendLast"} /\ l2 \notin {"send", "sendLast"})
    PROVE  Lined(p, c2, f2, l2, ac, af, al, o, g)
BY DEF Lined, InCopier, InFilter, InLister

-----------------------------------------------------------------------------
(* The steps.                                                              *)

(* The partitions of a subscription are partitions.                         *)
LEMMA PartsKnown == ASSUME Types PROVE parts \subseteq Partitions
BY PartitionsAssumption DEF Types, TypeOK

(* Only the closer closes the response, and only after the last copier.     *)
LEMMA ResponseStep == IInv /\ [Next]_vars => ResponseInv'
<1> SUFFICES ASSUME IInv, [Next]_vars PROVE ResponseInv'
  OBVIOUS
<1> USE DEF IInv, Types, TypeOK, ResponseInv
<1> USE DEF callVars, ctxVars, nsVars, goVars, handVars, logVars
<1>1. CASE refreshWatch
  BY <1>1 DEF refreshWatch, Order
<1>2. CASE pollTick
  BY <1>2 DEF pollTick, Order
<1>3. CASE pollEnds
  BY <1>3 DEF pollEnds, Order
<1>4. CASE partitionWatch
  BY <1>4 DEF partitionWatch, Order
<1>5. CASE close
  BY <1>5 DEF close, Order
<1>6. CASE accessChanges
  BY <1>6 DEF accessChanges, Order
<1>7. CASE sessionCancels
  BY <1>7 DEF sessionCancels, Order
<1>8. CASE consumerEnds
  BY <1>8 DEF consumerEnds, Order
<1>9. ASSUME NEW p \in parts, setNamespace(p) PROVE ResponseInv'
  BY <1>9, PartsKnown DEF setNamespace, Order
<1>10. ASSUME NEW p \in parts, openWatch(p) PROVE ResponseInv'
  BY <1>10, PartsKnown DEF openWatch, Order
<1>11. ASSUME NEW p \in parts, openFails(p) PROVE ResponseInv'
  BY <1>11, PartsKnown DEF openFails, Order
<1>12. ASSUME NEW p \in parts, copierEnds(p) PROVE ResponseInv'
  BY <1>12, PartsKnown DEF copierEnds, Order
<1>13. ASSUME NEW p \in parts, receive(p) PROVE ResponseInv'
  BY <1>13, PartsKnown DEF receive, Order
<1>14. ASSUME NEW p \in parts, k8sWatch(p) PROVE ResponseInv'
  BY <1>14, PartsKnown DEF k8sWatch, Order
<1>15. ASSUME NEW p \in parts, k8sWatchFails(p) PROVE ResponseInv'
  BY <1>15, PartsKnown DEF k8sWatchFails, Order
<1>16. ASSUME NEW p \in parts, listerEnds(p) PROVE ResponseInv'
  BY <1>16, PartsKnown DEF listerEnds, Order
<1>17. ASSUME NEW p \in parts, listerSends(p) PROVE ResponseInv'
  BY <1>17, PartsKnown DEF listerSends, Order
<1>18. ASSUME NEW p \in parts, filterSends(p) PROVE ResponseInv'
  BY <1>18, PartsKnown DEF filterSends, Order
<1>19. ASSUME NEW p \in parts, filterEnds(p) PROVE ResponseInv'
  BY <1>19, PartsKnown DEF filterEnds, Order
<1>20. ASSUME NEW p \in parts, takeEvent(p) PROVE ResponseInv'
  BY <1>20, PartsKnown DEF takeEvent, Order
<1>21. ASSUME NEW p \in parts, stop(p) PROVE ResponseInv'
  BY <1>21, PartsKnown DEF stop, Order
<1>22. ASSUME NEW p \in parts, watchTimesOut(p) PROVE ResponseInv'
  BY <1>22, PartsKnown DEF watchTimesOut, Order
<1>23. CASE UNCHANGED vars
  BY <1>23 DEF vars, Order
<1> QED
  BY <1>1, <1>2, <1>3, <1>4, <1>5, <1>6, <1>7, <1>8, <1>9, <1>10, <1>11, <1>12,
     <1>13, <1>14, <1>15, <1>16, <1>17, <1>18, <1>19, <1>20, <1>21, <1>22, <1>23
     DEF Next, Poller, Caller, Copier, Lister, Filter, Ended

(* No goroutine of a partition ends before the one it receives from.        *)
LEMMA OrderStep == IInv /\ [Next]_vars => \A q \in Partitions : Order(q)'
<1> SUFFICES ASSUME IInv, [Next]_vars, NEW q \in Partitions PROVE Order(q)'
  OBVIOUS
<1> USE DEF IInv, Types, TypeOK, Order
<1> USE DEF callVars, ctxVars, nsVars, goVars, handVars, logVars
<1>1. CASE refreshWatch
  BY <1>1 DEF refreshWatch, SourceClosed, AfterSend, ResponseInv
<1>2. CASE pollTick
  BY <1>2 DEF pollTick, SourceClosed, AfterSend, ResponseInv
<1>3. CASE pollEnds
  BY <1>3 DEF pollEnds, SourceClosed, AfterSend, ResponseInv
<1>4. CASE partitionWatch
  BY <1>4 DEF partitionWatch, SourceClosed, AfterSend, ResponseInv
<1>5. CASE close
  BY <1>5 DEF close, SourceClosed, AfterSend, ResponseInv
<1>6. CASE accessChanges
  BY <1>6 DEF accessChanges, SourceClosed, AfterSend, ResponseInv
<1>7. CASE sessionCancels
  BY <1>7 DEF sessionCancels, SourceClosed, AfterSend, ResponseInv
<1>8. CASE consumerEnds
  BY <1>8 DEF consumerEnds, SourceClosed, AfterSend, ResponseInv
<1>9. ASSUME NEW p \in parts, setNamespace(p) PROVE Order(q)'
  BY <1>9, PartsKnown DEF setNamespace, SourceClosed, AfterSend, ResponseInv
<1>10. ASSUME NEW p \in parts, openWatch(p) PROVE Order(q)'
  BY <1>10, PartsKnown DEF openWatch, SourceClosed, AfterSend, ResponseInv
<1>11. ASSUME NEW p \in parts, openFails(p) PROVE Order(q)'
  BY <1>11, PartsKnown DEF openFails, SourceClosed, AfterSend, ResponseInv
<1>12. ASSUME NEW p \in parts, copierEnds(p) PROVE Order(q)'
  BY <1>12, PartsKnown DEF copierEnds, SourceClosed, AfterSend, ResponseInv
<1>13. ASSUME NEW p \in parts, receive(p) PROVE Order(q)'
  BY <1>13, PartsKnown DEF receive, SourceClosed, AfterSend, ResponseInv
<1>14. ASSUME NEW p \in parts, k8sWatch(p) PROVE Order(q)'
  BY <1>14, PartsKnown DEF k8sWatch, SourceClosed, AfterSend, ResponseInv
<1>15. ASSUME NEW p \in parts, k8sWatchFails(p) PROVE Order(q)'
  BY <1>15, PartsKnown DEF k8sWatchFails, SourceClosed, AfterSend, ResponseInv
<1>16. ASSUME NEW p \in parts, listerEnds(p) PROVE Order(q)'
  BY <1>16, PartsKnown DEF listerEnds, SourceClosed, AfterSend, ResponseInv
<1>17. ASSUME NEW p \in parts, listerSends(p) PROVE Order(q)'
  BY <1>17, PartsKnown DEF listerSends, SourceClosed, AfterSend, ResponseInv
<1>18. ASSUME NEW p \in parts, filterSends(p) PROVE Order(q)'
  BY <1>18, PartsKnown DEF filterSends, SourceClosed, AfterSend, ResponseInv
<1>19. ASSUME NEW p \in parts, filterEnds(p) PROVE Order(q)'
  BY <1>19, PartsKnown DEF filterEnds, SourceClosed, AfterSend, ResponseInv
<1>20. ASSUME NEW p \in parts, takeEvent(p) PROVE Order(q)'
  BY <1>20, PartsKnown DEF takeEvent, SourceClosed, AfterSend, ResponseInv
<1>21. ASSUME NEW p \in parts, stop(p) PROVE Order(q)'
  BY <1>21, PartsKnown DEF stop, SourceClosed, AfterSend, ResponseInv
<1>22. ASSUME NEW p \in parts, watchTimesOut(p) PROVE Order(q)'
  BY <1>22, PartsKnown DEF watchTimesOut, SourceClosed, AfterSend, ResponseInv
<1>23. CASE UNCHANGED vars
  BY <1>23 DEF vars, SourceClosed, AfterSend, ResponseInv
<1> QED
  BY <1>1, <1>2, <1>3, <1>4, <1>5, <1>6, <1>7, <1>8, <1>9, <1>10, <1>11, <1>12,
     <1>13, <1>14, <1>15, <1>16, <1>17, <1>18, <1>19, <1>20, <1>21, <1>22, <1>23
     DEF Next, Poller, Caller, Copier, Lister, Filter, Ended

(* Steps that leave the namespaces alone and let no copier pass its write.   *)
LEMMA NamespaceFrame ==
    ASSUME IInv, UNCHANGED <<parts, namespace, nsUsed>>,
           \A q \in parts : copier'[q] \notin {"off", "ns"} => copier[q] \notin {"off", "ns"}
    PROVE  NamespaceInv' /\ WatchedNamespaces'
BY DEF IInv, NamespaceInv, WatchedNamespaces

(* The race for the request's Namespace is one among the watch's own.       *)
LEMMA NamespaceStep == IInv /\ [Next]_vars => NamespaceInv' /\ WatchedNamespaces'
<1> SUFFICES ASSUME IInv, [Next]_vars PROVE NamespaceInv' /\ WatchedNamespaces'
  OBVIOUS
<1>0. parts \subseteq Partitions /\ 
      copier \in [Partitions -> {"off", "ns", "client", "range", "send", "done"}]
  BY PartsKnown DEF IInv, Types, TypeOK
<1> USE DEF callVars, ctxVars, nsVars, goVars, handVars, logVars
<1>1. CASE refreshWatch
  BY <1>1, <1>0, NamespaceFrame DEF refreshWatch
<1>2. CASE pollTick
  BY <1>2, <1>0, NamespaceFrame DEF pollTick
<1>3. CASE pollEnds
  BY <1>3, <1>0, NamespaceFrame DEF pollEnds
<1>4. CASE partitionWatch
  BY <1>4, <1>0, NamespaceFrame DEF partitionWatch, callVars, nsVars
<1>5. CASE close
  BY <1>5, <1>0, NamespaceFrame DEF close
<1>6. CASE accessChanges
  BY <1>6, <1>0, NamespaceFrame DEF accessChanges
<1>7. CASE sessionCancels
  BY <1>7, <1>0, NamespaceFrame DEF sessionCancels
<1>8. CASE consumerEnds
  BY <1>8, <1>0, NamespaceFrame DEF consumerEnds
<1>9. ASSUME NEW p \in parts, setNamespace(p) PROVE NamespaceInv' /\ WatchedNamespaces'
  <2>1. WatchedNamespaces'
    BY <1>9 DEF IInv, WatchedNamespaces, setNamespace, callVars
  <2>2. UNCHANGED parts /\ parts \in Subscriptions
    BY <1>9 DEF IInv, Types, TypeOK, setNamespace, callVars
  <2>3. CASE Kind[p] = "pass"
    <3>1. parts = {p} /\ UNCHANGED namespace
      BY <1>9, <2>2, <2>3, PassthroughAssumption DEF setNamespace
    <3> QED BY <2>1, <2>2, <2>3, <3>1 DEF IInv, NamespaceInv
  <2>4. CASE Kind[p] # "pass"
    <3>1. namespace' = NS[p]
      BY <1>9, <2>4 DEF setNamespace
    <3>2. \A q \in parts : Kind[q] # "pass"
      BY <2>2, <2>4, PassthroughAssumption
    <3> QED BY <2>1, <2>2, <3>1, <3>2 DEF NamespaceInv
  <2> QED BY <2>3, <2>4
<1>10. ASSUME NEW p \in parts, openWatch(p) PROVE NamespaceInv' /\ WatchedNamespaces'
  <2>1. UNCHANGED <<parts, namespace>>
    BY <1>10 DEF openWatch, callVars
  <2>2. \A q \in parts : copier'[q] \notin {"off", "ns"} => copier[q] \notin {"off", "ns"}
    BY <1>10, <1>0 DEF openWatch
  <2>3. NamespaceInv'
    BY <2>1, <2>2 DEF IInv, NamespaceInv
  <2>4. ASSUME NEW q \in parts
        PROVE  nsUsed'[q] = nsUsed[q] \/ (q = p /\ nsUsed'[q] = namespace)
    BY <1>10, <1>0 DEF openWatch, IInv, Types
  <2>5. copier[p] = "client"
    BY <1>10 DEF openWatch
  <2>6. WatchedNamespaces'
    BY <2>1, <2>4, <2>5 DEF IInv, NamespaceInv, WatchedNamespaces
  <2> QED BY <2>3, <2>6
<1>11. ASSUME NEW p \in parts, openFails(p) PROVE NamespaceInv' /\ WatchedNamespaces'
  BY <1>11, PartsKnown, <1>0, NamespaceFrame DEF openFails
<1>12. ASSUME NEW p \in parts, copierEnds(p) PROVE NamespaceInv' /\ WatchedNamespaces'
  BY <1>12, PartsKnown, <1>0, NamespaceFrame DEF copierEnds
<1>13. ASSUME NEW p \in parts, receive(p) PROVE NamespaceInv' /\ WatchedNamespaces'
  BY <1>13, PartsKnown, <1>0, NamespaceFrame DEF receive
<1>14. ASSUME NEW p \in parts, k8sWatch(p) PROVE NamespaceInv' /\ WatchedNamespaces'
  BY <1>14, PartsKnown, <1>0, NamespaceFrame DEF k8sWatch
<1>15. ASSUME NEW p \in parts, k8sWatchFails(p) PROVE NamespaceInv' /\ WatchedNamespaces'
  BY <1>15, PartsKnown, <1>0, NamespaceFrame DEF k8sWatchFails
<1>16. ASSUME NEW p \in parts, listerEnds(p) PROVE NamespaceInv' /\ WatchedNamespaces'
  BY <1>16, PartsKnown, <1>0, NamespaceFrame DEF listerEnds
<1>17. ASSUME NEW p \in parts, listerSends(p) PROVE NamespaceInv' /\ WatchedNamespaces'
  BY <1>17, PartsKnown, <1>0, NamespaceFrame DEF listerSends
<1>18. ASSUME NEW p \in parts, filterSends(p) PROVE NamespaceInv' /\ WatchedNamespaces'
  BY <1>18, PartsKnown, <1>0, NamespaceFrame DEF filterSends
<1>19. ASSUME NEW p \in parts, filterEnds(p) PROVE NamespaceInv' /\ WatchedNamespaces'
  BY <1>19, PartsKnown, <1>0, NamespaceFrame DEF filterEnds
<1>20. ASSUME NEW p \in parts, takeEvent(p) PROVE NamespaceInv' /\ WatchedNamespaces'
  BY <1>20, PartsKnown, <1>0, NamespaceFrame DEF takeEvent
<1>21. ASSUME NEW p \in parts, stop(p) PROVE NamespaceInv' /\ WatchedNamespaces'
  BY <1>21, PartsKnown, <1>0, NamespaceFrame DEF stop
<1>22. ASSUME NEW p \in parts, watchTimesOut(p) PROVE NamespaceInv' /\ WatchedNamespaces'
  BY <1>22, PartsKnown, <1>0, NamespaceFrame DEF watchTimesOut
<1>23. CASE UNCHANGED vars
  BY <1>23, <1>0, NamespaceFrame DEF vars
<1> QED
  BY <1>1, <1>2, <1>3, <1>4, <1>5, <1>6, <1>7, <1>8, <1>9, <1>10, <1>11, <1>12,
     <1>13, <1>14, <1>15, <1>16, <1>17, <1>18, <1>19, <1>20, <1>21, <1>22, <1>23
     DEF Next, Poller, Caller, Copier, Lister, Filter, Ended

(* Every step keeps the types; a goroutine that sends holds an event.       *)
LEMMA TypeStep == IInv /\ [Next]_vars => TypeOK'
<1> SUFFICES ASSUME IInv, [Next]_vars PROVE TypeOK'
  OBVIOUS
<1> USE BoundsAssumption DEF IInv, Types, TypeOK
<1> USE DEF callVars, ctxVars, nsVars, goVars, handVars, logVars
<1>1. CASE refreshWatch
  BY <1>1 DEF refreshWatch, AfterSend
<1>2. CASE pollTick
  BY <1>2 DEF pollTick, AfterSend
<1>3. CASE pollEnds
  BY <1>3 DEF pollEnds, AfterSend
<1>4. CASE partitionWatch
  <2>1. copier' \in [Partitions -> {"off", "ns", "client", "range", "send", "done"}]
    BY <1>4 DEF partitionWatch
  <2>2. \A p \in Partitions : copier[p] # "send" /\ copier'[p] # "send"
    BY <1>4 DEF partitionWatch, ResponseInv
  <2> QED BY <1>4, <2>1, <2>2 DEF partitionWatch, nsVars, handVars, logVars
<1>5. CASE close
  BY <1>5 DEF close, AfterSend
<1>6. CASE accessChanges
  <2>1. access' \in 0..MaxChanges
    BY <1>6 DEF accessChanges
  <2> QED BY <1>6, <2>1 DEF accessChanges, ctxVars, nsVars, goVars, handVars, logVars
<1>7. CASE sessionCancels
  BY <1>7 DEF sessionCancels, AfterSend
<1>8. CASE consumerEnds
  BY <1>8 DEF consumerEnds, AfterSend
<1>9. ASSUME NEW p \in parts, setNamespace(p) PROVE TypeOK'
  BY <1>9, PartsKnown DEF setNamespace, AfterSend
<1>10. ASSUME NEW p \in parts, openWatch(p) PROVE TypeOK'
  <2>1. /\ copier' \in [Partitions -> {"off", "ns", "client", "range", "send", "done"}]
        /\ lister' \in [Partitions -> {"off", "watch", "range", "send", "sendLast", "done"}]
        /\ filter' \in [Partitions -> {"off", "range", "send", "done"}]
    BY <1>10 DEF openWatch
  <2>2. lister[p] = "off" /\ filter[p] = "off"
    BY <1>10, PartsKnown DEF openWatch, Order
  <2>3. \A q \in Partitions :
            /\ copier'[q] = "send" <=> copier[q] = "send"
            /\ filter'[q] = "send" <=> filter[q] = "send"
            /\ lister'[q] \in {"send", "sendLast"} <=> lister[q] \in {"send", "sendLast"}
            /\ lister'[q] = "range" <=> lister[q] = "range"
    BY <1>10, <2>2 DEF openWatch
  <2>4. \A q \in Partitions :
            /\ copier'[q] = "send" <=> atCopier'[q] # None
            /\ filter'[q] = "send" <=> atFilter'[q] # None
            /\ lister'[q] \in {"send", "sendLast"} <=> atLister'[q] # None
            /\ lister'[q] = "range" => watcher'[q] # "none"
    BY <1>10, <2>3 DEF openWatch, handVars
  <2> QED BY <1>10, <2>1, <2>4 DEF openWatch, callVars, ctxVars, handVars, logVars
<1>11. ASSUME NEW p \in parts, openFails(p) PROVE TypeOK'
  BY <1>11, PartsKnown DEF openFails, AfterSend
<1>12. ASSUME NEW p \in parts, copierEnds(p) PROVE TypeOK'
  BY <1>12, PartsKnown DEF copierEnds, AfterSend
<1>13. ASSUME NEW p \in parts, receive(p) PROVE TypeOK'
  BY <1>13, PartsKnown DEF receive, AfterSend
<1>14. ASSUME NEW p \in parts, k8sWatch(p) PROVE TypeOK'
  BY <1>14, PartsKnown DEF k8sWatch, AfterSend
<1>15. ASSUME NEW p \in parts, k8sWatchFails(p) PROVE TypeOK'
  <2>1. [n |-> 0, kind |-> "status"] # None
    BY DEF None
  <2>2. lister' \in [Partitions -> {"off", "watch", "range", "send", "sendLast", "done"}]
    BY <1>15 DEF k8sWatchFails
  <2>3. \A q \in Partitions :
            /\ copier'[q] = "send" <=> atCopier'[q] # None
            /\ filter'[q] = "send" <=> atFilter'[q] # None
            /\ lister'[q] \in {"send", "sendLast"} <=> atLister'[q] # None
            /\ lister'[q] = "range" => watcher'[q] # "none"
    BY <1>15, <2>1 DEF k8sWatchFails
  <2> QED BY <1>15, <2>2, <2>3 DEF k8sWatchFails, callVars, ctxVars
<1>16. ASSUME NEW p \in parts, listerEnds(p) PROVE TypeOK'
  BY <1>16, PartsKnown DEF listerEnds, AfterSend
<1>17. ASSUME NEW p \in parts, listerSends(p) PROVE TypeOK'
  <2>1. /\ copier' \in [Partitions -> {"off", "ns", "client", "range", "send", "done"}]
        /\ lister' \in [Partitions -> {"off", "watch", "range", "send", "sendLast", "done"}]
        /\ filter' \in [Partitions -> {"off", "range", "send", "done"}]
    <3>1. lister' \in [Partitions -> {"off", "watch", "range", "send", "sendLast", "done"}]
      BY <1>17 DEF listerSends, AfterSend
    <3>2. copier' = copier \/ copier' = [copier EXCEPT ![p] = "send"]
      BY <1>17 DEF listerSends
    <3>3. filter' = filter \/ filter' = [filter EXCEPT ![p] = "send"]
      BY <1>17 DEF listerSends
    <3> QED BY <3>1, <3>2, <3>3
  <2>2. p \in Partitions /\ atLister[p] # None
    BY <1>17, PartsKnown DEF listerSends
  <2>3. \A q \in Partitions :
            /\ copier'[q] = "send" <=> atCopier'[q] # None
            /\ filter'[q] = "send" <=> atFilter'[q] # None
            /\ lister'[q] \in {"send", "sendLast"} <=> atLister'[q] # None
            /\ lister'[q] = "range" => watcher'[q] # "none"
    BY <1>17, <2>2 DEF listerSends, AfterSend, Order
  <2> QED BY <1>17, <2>1, <2>3 DEF listerSends, callVars, ctxVars, logVars
<1>18. ASSUME NEW p \in parts, filterSends(p) PROVE TypeOK'
  BY <1>18, PartsKnown DEF filterSends, AfterSend
<1>19. ASSUME NEW p \in parts, filterEnds(p) PROVE TypeOK'
  BY <1>19, PartsKnown DEF filterEnds, AfterSend
<1>20. ASSUME NEW p \in parts, takeEvent(p) PROVE TypeOK'
  <2>0. p \in Partitions
    BY PartsKnown
  <2>1. PICK k \in Kinds(p) : takeEvent(p)!5!(k)
    BY <1>20 DEF takeEvent
  <2>2. [n |-> taken'[p], kind |-> k] # None
    BY DEF None, Kinds, EventKinds
  <2>3. lister' \in [Partitions -> {"off", "watch", "range", "send", "sendLast", "done"}]
    BY <2>1
  <2>4. \A q \in Partitions :
            /\ copier'[q] = "send" <=> atCopier'[q] # None
            /\ filter'[q] = "send" <=> atFilter'[q] # None
            /\ lister'[q] \in {"send", "sendLast"} <=> atLister'[q] # None
            /\ lister'[q] = "range" => watcher'[q] # "none"
    BY <1>20, <2>0, <2>1, <2>2 DEF takeEvent
  <2>5. \A q \in Partitions : taken'[q] \in 0..MaxEvents[q]
    BY <1>20, <2>0 DEF takeEvent
  <2> QED BY <1>20, <2>3, <2>4, <2>5 DEF takeEvent, callVars, ctxVars
<1>21. ASSUME NEW p \in parts, stop(p) PROVE TypeOK'
  BY <1>21, PartsKnown DEF stop, AfterSend
<1>22. ASSUME NEW p \in parts, watchTimesOut(p) PROVE TypeOK'
  BY <1>22, PartsKnown DEF watchTimesOut, AfterSend
<1>23. CASE UNCHANGED vars
  BY <1>23 DEF vars, AfterSend
<1> QED
  BY <1>1, <1>2, <1>3, <1>4, <1>5, <1>6, <1>7, <1>8, <1>9, <1>10, <1>11, <1>12,
     <1>13, <1>14, <1>15, <1>16, <1>17, <1>18, <1>19, <1>20, <1>21, <1>22, <1>23
     DEF Next, Poller, Caller, Copier, Lister, Filter, Ended

(* What is taken from a Kubernetes watch is an event.                       *)
LEMMA EventTypes ==
    ASSUME NEW p \in Partitions, NEW i \in 0..MaxEvents[p], NEW k \in EventKinds
    PROVE  [n |-> i, kind |-> k] \in Event
BY DEF Event

(* The same for what the proofs know of the types beyond TypeOK.            *)
LEMMA TypesStep == IInv /\ [Next]_vars => Types'
<1> SUFFICES ASSUME IInv, [Next]_vars, TypeOK' PROVE Types'
  BY TypeStep
<1> USE DEF IInv, Types
<1> USE DEF callVars, ctxVars, nsVars, goVars, handVars, logVars
<1>1. CASE refreshWatch
  BY <1>1 DEF refreshWatch, AfterSend, Held
<1>2. CASE pollTick
  BY <1>2 DEF pollTick, AfterSend, Held
<1>3. CASE pollEnds
  BY <1>3 DEF pollEnds, AfterSend, Held
<1>4. CASE partitionWatch
  BY <1>4 DEF partitionWatch, AfterSend, Held
<1>5. CASE close
  BY <1>5 DEF close, AfterSend, Held
<1>6. CASE accessChanges
  BY <1>6 DEF accessChanges, AfterSend, Held
<1>7. CASE sessionCancels
  BY <1>7 DEF sessionCancels, AfterSend, Held
<1>8. CASE consumerEnds
  BY <1>8 DEF consumerEnds, AfterSend, Held
<1>9. ASSUME NEW p \in parts, setNamespace(p) PROVE Types'
  <2>1. namespace' \in Names
    BY <1>9, PartsKnown DEF setNamespace, Names
  <2> QED BY <1>9, <2>1 DEF setNamespace, handVars, logVars
<1>10. ASSUME NEW p \in parts, openWatch(p) PROVE Types'
  BY <1>10, PartsKnown DEF openWatch, AfterSend, Held
<1>11. ASSUME NEW p \in parts, openFails(p) PROVE Types'
  BY <1>11, PartsKnown DEF openFails, AfterSend, Held
<1>12. ASSUME NEW p \in parts, copierEnds(p) PROVE Types'
  BY <1>12, PartsKnown DEF copierEnds, AfterSend, Held
<1>13. ASSUME NEW p \in parts, receive(p) PROVE Types'
  <2>1. atCopier[p] \in Event /\ p \in Partitions
    BY <1>13, PartsKnown DEF receive, Held, TypeOK
  <2>2. got' \in [Partitions -> Seq(Event)] /\ atCopier' \in [Partitions -> Held]
    BY <1>13, <2>1 DEF receive, Held
  <2> QED BY <1>13, <2>2 DEF receive, nsVars
<1>14. ASSUME NEW p \in parts, k8sWatch(p) PROVE Types'
  BY <1>14, PartsKnown DEF k8sWatch, AfterSend, Held
<1>15. ASSUME NEW p \in parts, k8sWatchFails(p) PROVE Types'
  <2> DEFINE e == [n |-> 0, kind |-> "status"]
  <2>1. p \in Partitions /\ 0 \in 0..MaxEvents[p]
    BY PartsKnown, BoundsAssumption
  <2>2. e \in Event
    BY <2>1, EventTypes DEF EventKinds
  <2>3. owed' \in [Partitions -> Seq(Event)]
    <3>1. (IF Visible(p, e) THEN Append(owed[p], e) ELSE owed[p]) \in Seq(Event)
      BY <2>1, <2>2
    <3> QED BY <1>15, <3>1 DEF k8sWatchFails
  <2>4. atLister' \in [Partitions -> Held]
    BY <1>15, <2>2 DEF k8sWatchFails, Held
  <2> QED BY <1>15, <2>3, <2>4 DEF k8sWatchFails, nsVars
<1>16. ASSUME NEW p \in parts, listerEnds(p) PROVE Types'
  BY <1>16, PartsKnown DEF listerEnds, AfterSend, Held
<1>17. ASSUME NEW p \in parts, listerSends(p) PROVE Types'
  BY <1>17, PartsKnown DEF listerSends, AfterSend, Held
<1>18. ASSUME NEW p \in parts, filterSends(p) PROVE Types'
  BY <1>18, PartsKnown DEF filterSends, AfterSend, Held
<1>19. ASSUME NEW p \in parts, filterEnds(p) PROVE Types'
  BY <1>19, PartsKnown DEF filterEnds, AfterSend, Held
<1>20. ASSUME NEW p \in parts, takeEvent(p) PROVE Types'
  <2>0. p \in Partitions
    BY PartsKnown
  <2>1. PICK k \in Kinds(p) : takeEvent(p)!5!(k)
    BY <1>20 DEF takeEvent
  <2> DEFINE e == [n |-> taken'[p], kind |-> k]
  <2>2. taken' \in [Partitions -> Nat] /\ taken'[p] \in 0..MaxEvents[p]
    BY <1>20, <2>0, BoundsAssumption DEF takeEvent, TypeOK
  <2>3. e \in Event
    BY <2>0, <2>2, EventTypes DEF Kinds
  <2>4. owed' \in [Partitions -> Seq(Event)]
    <3>1. (IF Visible(p, e) THEN Append(owed[p], e) ELSE owed[p]) \in Seq(Event)
      BY <2>0, <2>3
    <3> QED BY <2>1, <3>1
  <2>5. atLister' \in [Partitions -> Held]
    BY <2>1, <2>3 DEF Held
  <2> QED BY <1>20, <2>2, <2>4, <2>5 DEF takeEvent, nsVars
<1>21. ASSUME NEW p \in parts, stop(p) PROVE Types'
  BY <1>21, PartsKnown DEF stop, AfterSend, Held
<1>22. ASSUME NEW p \in parts, watchTimesOut(p) PROVE Types'
  BY <1>22, PartsKnown DEF watchTimesOut, AfterSend, Held
<1>23. CASE UNCHANGED vars
  BY <1>23 DEF vars, AfterSend, Held
<1> QED
  BY <1>1, <1>2, <1>3, <1>4, <1>5, <1>6, <1>7, <1>8, <1>9, <1>10, <1>11, <1>12,
     <1>13, <1>14, <1>15, <1>16, <1>17, <1>18, <1>19, <1>20, <1>21, <1>22, <1>23
     DEF Next, Poller, Caller, Copier, Lister, Filter, Ended

(* A partition that a step leaves alone.                                     *)
LEMMA QueueFrame ==
    ASSUME NEW q, Queue(q),
           copier'[q] = copier[q], lister'[q] = lister[q], filter'[q] = filter[q],
           atCopier'[q] = atCopier[q], atLister'[q] = atLister[q],
           atFilter'[q] = atFilter[q], owed'[q] = owed[q], got'[q] = got[q]
    PROVE  Queue(q)'
BY DEF Queue

(* No step loses, repeats or reorders what is under way.                    *)
LEMMA QueueStep == IInv /\ [Next]_vars => \A q \in Partitions : Queue(q)'
<1> SUFFICES ASSUME IInv, [Next]_vars, NEW q \in Partitions PROVE Queue(q)'
  OBVIOUS
<1>t. /\ Queue(q) /\ Order(q) /\ parts \subseteq Partitions
      /\ copier \in [Partitions -> {"off", "ns", "client", "range", "send", "done"}]
      /\ lister \in [Partitions -> {"off", "watch", "range", "send", "sendLast", "done"}]
      /\ filter \in [Partitions -> {"off", "range", "send", "done"}]
      /\ atCopier \in [Partitions -> Held] /\ atLister \in [Partitions -> Held]
      /\ atFilter \in [Partitions -> Held]
      /\ owed \in [Partitions -> Seq(Event)] /\ got \in [Partitions -> Seq(Event)]
  BY PartsKnown DEF IInv, Types, TypeOK
<1>1. CASE refreshWatch
  BY <1>1, <1>t, QueueFrame DEF refreshWatch, goVars, handVars, logVars
<1>2. CASE pollTick
  BY <1>2, <1>t, QueueFrame DEF pollTick, goVars, handVars, logVars
<1>3. CASE pollEnds
  BY <1>3, <1>t, QueueFrame DEF pollEnds, goVars, handVars, logVars
<1>4. CASE partitionWatch
  <2>1. copier[q] # "send" /\ copier'[q] # "send"
    BY <1>4 DEF partitionWatch, IInv, ResponseInv
  <2> QED BY <1>t, <2>1, <1>4, LinedMove DEF partitionWatch, logVars, handVars, Queue
<1>5. CASE close
  BY <1>5, <1>t, QueueFrame DEF close, goVars, handVars, logVars
<1>6. CASE accessChanges
  BY <1>6, <1>t, QueueFrame DEF accessChanges, goVars, handVars, logVars
<1>7. CASE sessionCancels
  BY <1>7, <1>t, QueueFrame DEF sessionCancels, goVars, handVars, logVars
<1>8. CASE consumerEnds
  BY <1>8, <1>t, QueueFrame DEF consumerEnds, goVars, handVars, logVars
<1>9. ASSUME NEW p \in parts, setNamespace(p) PROVE Queue(q)'
  <2>1. CASE q # p
    BY <1>t, <2>1, <1>9, QueueFrame DEF setNamespace, logVars, handVars
  <2>2. CASE q = p
    <3>1. /\ copier[p] = "send" <=> copier'[p] = "send"
          /\ filter[p] = "send" <=> filter'[p] = "send"
          /\ \/ lister'[p] = lister[p]
             \/ /\ lister[p] \notin {"send", "sendLast"}
                /\ lister'[p] \notin {"send", "sendLast"}
      BY <1>t, <2>2, <1>9 DEF setNamespace, Order
    <3>2. Lined(p, copier'[p], filter'[p], lister'[p],
                atCopier[p], atFilter[p], atLister[p], owed[p], got[p])
      BY <1>t, <2>2, <3>1, LinedMove DEF Queue
    <3> QED BY <2>2, <3>2, <1>9 DEF setNamespace, Queue, logVars, handVars
  <2> QED BY <2>1, <2>2
<1>10. ASSUME NEW p \in parts, openWatch(p) PROVE Queue(q)'
  <2>1. CASE q # p
    BY <1>t, <2>1, <1>10, QueueFrame DEF openWatch, logVars, handVars
  <2>2. CASE q = p
    <3>1. /\ copier[p] = "send" <=> copier'[p] = "send"
          /\ filter[p] = "send" <=> filter'[p] = "send"
          /\ \/ lister'[p] = lister[p]
             \/ /\ lister[p] \notin {"send", "sendLast"}
                /\ lister'[p] \notin {"send", "sendLast"}
      BY <1>t, <2>2, <1>10 DEF openWatch, Order
    <3>2. Lined(p, copier'[p], filter'[p], lister'[p],
                atCopier[p], atFilter[p], atLister[p], owed[p], got[p])
      BY <1>t, <2>2, <3>1, LinedMove DEF Queue
    <3> QED BY <2>2, <3>2, <1>10 DEF openWatch, Queue, logVars, handVars
  <2> QED BY <2>1, <2>2
<1>11. ASSUME NEW p \in parts, openFails(p) PROVE Queue(q)'
  <2>1. CASE q # p
    BY <1>t, <2>1, <1>11, QueueFrame DEF openFails, logVars, handVars
  <2>2. CASE q = p
    <3>1. /\ copier[p] = "send" <=> copier'[p] = "send"
          /\ filter[p] = "send" <=> filter'[p] = "send"
          /\ \/ lister'[p] = lister[p]
             \/ /\ lister[p] \notin {"send", "sendLast"}
                /\ lister'[p] \notin {"send", "sendLast"}
      BY <1>t, <2>2, <1>11 DEF openFails, Order
    <3>2. Lined(p, copier'[p], filter'[p], lister'[p],
                atCopier[p], atFilter[p], atLister[p], owed[p], got[p])
      BY <1>t, <2>2, <3>1, LinedMove DEF Queue
    <3> QED BY <2>2, <3>2, <1>11 DEF openFails, Queue, logVars, handVars
  <2> QED BY <2>1, <2>2
<1>12. ASSUME NEW p \in parts, copierEnds(p) PROVE Queue(q)'
  <2>1. CASE q # p
    BY <1>t, <2>1, <1>12, QueueFrame DEF copierEnds, logVars, handVars
  <2>2. CASE q = p
    <3>1. /\ copier[p] = "send" <=> copier'[p] = "send"
          /\ filter[p] = "send" <=> filter'[p] = "send"
          /\ \/ lister'[p] = lister[p]
             \/ /\ lister[p] \notin {"send", "sendLast"}
                /\ lister'[p] \notin {"send", "sendLast"}
      BY <1>t, <2>2, <1>12 DEF copierEnds, Order
    <3>2. Lined(p, copier'[p], filter'[p], lister'[p],
                atCopier[p], atFilter[p], atLister[p], owed[p], got[p])
      BY <1>t, <2>2, <3>1, LinedMove DEF Queue
    <3> QED BY <2>2, <3>2, <1>12 DEF copierEnds, Queue, logVars, handVars
  <2> QED BY <2>1, <2>2
<1>13. ASSUME NEW p \in parts, receive(p) PROVE Queue(q)'
  <2>1. CASE q # p
    BY <1>t, <2>1, <1>13, QueueFrame DEF receive
  <2>2. CASE q = p
    <3>1. atCopier[p] \in Event
      BY <1>t, <1>13 DEF receive, IInv, Types, TypeOK, Held
    <3>2. Lined(p, "range", filter[p], lister[p], None, atFilter[p], atLister[p],
                owed[p], Append(got[p], atCopier[p]))
      BY <1>t, <2>2, <3>1, <1>13, LinedReceive DEF receive, Queue
    <3> QED BY <1>t, <2>2, <3>2, <1>13 DEF receive, Queue
  <2> QED BY <2>1, <2>2
<1>14. ASSUME NEW p \in parts, k8sWatch(p) PROVE Queue(q)'
  <2>1. CASE q # p
    BY <1>t, <2>1, <1>14, QueueFrame DEF k8sWatch, logVars, handVars
  <2>2. CASE q = p
    <3>1. /\ copier[p] = "send" <=> copier'[p] = "send"
          /\ filter[p] = "send" <=> filter'[p] = "send"
          /\ \/ lister'[p] = lister[p]
             \/ /\ lister[p] \notin {"send", "sendLast"}
                /\ lister'[p] \notin {"send", "sendLast"}
      BY <1>t, <2>2, <1>14 DEF k8sWatch, Order
    <3>2. Lined(p, copier'[p], filter'[p], lister'[p],
                atCopier[p], atFilter[p], atLister[p], owed[p], got[p])
      BY <1>t, <2>2, <3>1, LinedMove DEF Queue
    <3> QED BY <2>2, <3>2, <1>14 DEF k8sWatch, Queue, logVars, handVars
  <2> QED BY <2>1, <2>2
<1>15. ASSUME NEW p \in parts, k8sWatchFails(p) PROVE Queue(q)'
  <2> DEFINE e == [n |-> 0, kind |-> "status"]
  <2>1. CASE q # p
    BY <1>t, <2>1, <1>15, QueueFrame DEF k8sWatchFails
  <2>2. CASE q = p
    <3>1. e \in Event /\ (Kind[p] # "names" => Visible(p, e))
      <4>1. 0 \in 0..MaxEvents[p]
        BY <2>2, BoundsAssumption
      <4> QED BY <2>2, <4>1, EventTypes DEF EventKinds, Visible
    <3>2. Lined(p, copier[p], filter[p], "sendLast", atCopier[p], atFilter[p], e,
                IF Visible(p, e) THEN Append(owed[p], e) ELSE owed[p], got[p])
      <4>1. lister[p] \notin {"send", "sendLast"}
        BY <1>15 DEF k8sWatchFails
      <4>2. Lined(p, copier[p], filter[p], lister[p], atCopier[p], atFilter[p],
                  atLister[p], owed[p], got[p])
        BY <1>t, <2>2 DEF Queue
      <4> QED BY <1>t, <2>2, <3>1, <4>1, <4>2, LinedTake
    <3> QED BY <1>t, <2>2, <3>2, <1>15 DEF k8sWatchFails, Queue
  <2> QED BY <2>1, <2>2
<1>16. ASSUME NEW p \in parts, listerEnds(p) PROVE Queue(q)'
  <2>1. CASE q # p
    BY <1>t, <2>1, <1>16, QueueFrame DEF listerEnds, logVars, handVars
  <2>2. CASE q = p
    <3>1. /\ copier[p] = "send" <=> copier'[p] = "send"
          /\ filter[p] = "send" <=> filter'[p] = "send"
          /\ \/ lister'[p] = lister[p]
             \/ /\ lister[p] \notin {"send", "sendLast"}
                /\ lister'[p] \notin {"send", "sendLast"}
      BY <1>t, <2>2, <1>16 DEF listerEnds, Order
    <3>2. Lined(p, copier'[p], filter'[p], lister'[p],
                atCopier[p], atFilter[p], atLister[p], owed[p], got[p])
      BY <1>t, <2>2, <3>1, LinedMove DEF Queue
    <3> QED BY <2>2, <3>2, <1>16 DEF listerEnds, Queue, logVars, handVars
  <2> QED BY <2>1, <2>2
<1>17. ASSUME NEW p \in parts, listerSends(p) PROVE Queue(q)'
  <2>1. CASE q # p
    BY <1>t, <2>1, <1>17, QueueFrame DEF listerSends, logVars
  <2>2. CASE q = p
    <3>1. AfterSend(p) \in {"range", "done"} /\ lister[p] \in {"send", "sendLast"}
      BY <1>17 DEF AfterSend, listerSends
    <3>2. CASE Kind[p] # "names"
      <4>1. filter[p] # "send" /\ copier[p] = "range"
        BY <1>t, <2>2, <3>2, <1>17 DEF Order, listerSends
      <4>2. Lined(p, "send", filter[p], AfterSend(p), atLister[p], atFilter[p], None,
                  owed[p], got[p])
        BY <1>t, <2>2, <3>1, <3>2, <4>1, LinedCopy DEF Queue
      <4> QED BY <1>t, <2>2, <3>2, <4>2, <1>17 DEF listerSends, Queue, logVars
    <3>3. CASE Kind[p] = "names"
      <4>1. filter[p] = "range"
        BY <3>3, <1>17 DEF listerSends
      <4>2. /\ atLister[p].kind = "granted" =>
                Lined(p, copier[p], "send", AfterSend(p), atCopier[p], atLister[p], None,
                      owed[p], got[p])
            /\ atLister[p].kind # "granted" =>
                Lined(p, copier[p], "range", AfterSend(p), atCopier[p], atFilter[p], None,
                      owed[p], got[p])
        BY <1>t, <2>2, <3>1, <3>3, <4>1, LinedFilter DEF Queue
      <4> QED BY <1>t, <2>2, <3>3, <4>1, <4>2, <1>17 DEF listerSends, Queue, logVars
    <3> QED BY <3>2, <3>3
  <2> QED BY <2>1, <2>2
<1>18. ASSUME NEW p \in parts, filterSends(p) PROVE Queue(q)'
  <2>1. CASE q # p
    BY <1>t, <2>1, <1>18, QueueFrame DEF filterSends, logVars
  <2>2. CASE q = p
    <3>1. Lined(p, "send", "range", lister[p], atFilter[p], None, atLister[p],
                owed[p], got[p])
      BY <1>t, <2>2, <1>18, LinedPass DEF filterSends, Queue
    <3> QED BY <1>t, <2>2, <3>1, <1>18 DEF filterSends, Queue, logVars
  <2> QED BY <2>1, <2>2
<1>19. ASSUME NEW p \in parts, filterEnds(p) PROVE Queue(q)'
  <2>1. CASE q # p
    BY <1>t, <2>1, <1>19, QueueFrame DEF filterEnds, logVars, handVars
  <2>2. CASE q = p
    <3>1. /\ copier[p] = "send" <=> copier'[p] = "send"
          /\ filter[p] = "send" <=> filter'[p] = "send"
          /\ \/ lister'[p] = lister[p]
             \/ /\ lister[p] \notin {"send", "sendLast"}
                /\ lister'[p] \notin {"send", "sendLast"}
      BY <1>t, <2>2, <1>19 DEF filterEnds, Order
    <3>2. Lined(p, copier'[p], filter'[p], lister'[p],
                atCopier[p], atFilter[p], atLister[p], owed[p], got[p])
      BY <1>t, <2>2, <3>1, LinedMove DEF Queue
    <3> QED BY <2>2, <3>2, <1>19 DEF filterEnds, Queue, logVars, handVars
  <2> QED BY <2>1, <2>2
<1>20. ASSUME NEW p \in parts, takeEvent(p) PROVE Queue(q)'
  <2>1. CASE q # p
    BY <1>t, <2>1, <1>20, QueueFrame DEF takeEvent
  <2>2. CASE q = p
    <3>1. PICK k \in Kinds(p) : takeEvent(p)!5!(k)
      BY <1>20 DEF takeEvent
    <3> DEFINE e == [n |-> taken'[p], kind |-> k]
    <3>2. CASE k = "junk"
      <4>1. ~Visible(p, e)
        BY <3>2 DEF Visible
      <4> QED BY <1>t, <2>2, <3>1, <3>2, <4>1, <1>20, QueueFrame DEF takeEvent
    <3>3. CASE k # "junk"
      <4>1. taken'[p] \in 0..MaxEvents[p]
        <5>1. taken[p] \in Nat /\ MaxEvents[p] \in Nat /\ p \in DOMAIN taken
          BY <2>2, BoundsAssumption DEF IInv, Types
        <5> QED BY <5>1, <1>20 DEF takeEvent
      <4>2. e \in Event /\ (Kind[p] # "names" => Visible(p, e))
        BY <2>2, <3>3, <4>1, EventTypes DEF Visible, Kinds
      <4>3. Lined(p, copier[p], filter[p], "send", atCopier[p], atFilter[p], e,
                  IF Visible(p, e) THEN Append(owed[p], e) ELSE owed[p], got[p])
        <5>1. lister[p] \notin {"send", "sendLast"}
          BY <1>20 DEF takeEvent
        <5>2. Lined(p, copier[p], filter[p], lister[p], atCopier[p], atFilter[p],
                    atLister[p], owed[p], got[p])
          BY <1>t, <2>2 DEF Queue
        <5> QED BY <1>t, <2>2, <4>2, <5>1, <5>2, LinedTake
      <4> QED BY <1>t, <2>2, <3>1, <3>3, <4>3, <1>20 DEF takeEvent, Queue
    <3> QED BY <3>2, <3>3
  <2> QED BY <2>1, <2>2
<1>21. ASSUME NEW p \in parts, stop(p) PROVE Queue(q)'
  BY <1>21, PartsKnown, <1>t, QueueFrame DEF stop, goVars, handVars, logVars
<1>22. ASSUME NEW p \in parts, watchTimesOut(p) PROVE Queue(q)'
  BY <1>22, PartsKnown, <1>t, QueueFrame DEF watchTimesOut, goVars, handVars, logVars
<1>23. CASE UNCHANGED vars
  BY <1>23, <1>t, QueueFrame DEF vars, goVars, handVars, logVars
<1> QED
  BY <1>1, <1>2, <1>3, <1>4, <1>5, <1>6, <1>7, <1>8, <1>9, <1>10, <1>11, <1>12,
     <1>13, <1>14, <1>15, <1>16, <1>17, <1>18, <1>19, <1>20, <1>21, <1>22, <1>23
     DEF Next, Poller, Caller, Copier, Lister, Filter, Ended

(* Together: the invariant is inductive.                                    *)
LEMMA InductiveStep == IInv /\ [Next]_vars => IInv'
<1> SUFFICES ASSUME IInv, [Next]_vars PROVE IInv'
  OBVIOUS
<1>1. (\A q \in Partitions : Order(q)') /\ (\A q \in Partitions : Queue(q)')
  BY OrderStep, QueueStep
<1> QED BY <1>1, TypesStep, ResponseStep, NamespaceStep DEF IInv

(* It holds of a watch that has not begun.                                  *)
LEMMA InitHolds == Init => IInv
<1> SUFFICES ASSUME Init PROVE IInv
  OBVIOUS
<1>1. TypeOK
  BY BoundsAssumption DEF Init, TypeOK
<1>2. Types
  BY <1>1 DEF Init, Types, Held, Names
<1>3. ResponseInv /\ NamespaceInv /\ WatchedNamespaces
  BY <1>2, PartsKnown DEF Init, ResponseInv, NamespaceInv, WatchedNamespaces
<1>4. ASSUME NEW p \in Partitions PROVE Order(p) /\ Queue(p)
  BY DEF Init, Order, Queue, Lined, InCopier, InFilter, InLister
<1> QED BY <1>2, <1>3, <1>4 DEF IInv

(* The invariant holds in every reachable state, for any subscriptions, any *)
(* number of events and any number of changes of access.                    *)
THEOREM Invariance == Spec => []IInv
BY InitHolds, InductiveStep, PTL DEF Spec

(* The types are kept: a goroutine that is about to send holds an event.    *)
THEOREM TypeCorrect == Spec => []TypeOK
<1>1. IInv => TypeOK
  BY DEF IInv, Types
<1> QED BY <1>1, Invariance, PTL

(* Although all copiers write to the one request, each partition is watched *)
(* in a namespace of the watch (rbac_store.go, byNameOrNamespaceStore.Watch).*)
THEOREM NamespacesWatched == Spec => []WatchedNamespaces
<1>1. IInv => WatchedNamespaces
  BY DEF IInv
<1> QED BY <1>1, Invariance, PTL

-----------------------------------------------------------------------------
(* The refinement: what a step of the pipeline is to the subscriber.        *)

(* A watch that has not begun owes nothing.                                 *)
LEMMA PromiseInit == Init => Promise!Init
BY DEF Init, Promise!Init, PartitionDone

(* Steps inside the pipeline are none of StoreWatch; a cancellation is its  *)
(* GiveUp.                                                                  *)
LEMMA InsideStep ==
    ASSUME UNCHANGED <<owed, got, response>>,
           UNCHANGED cancelled \/ \E ctx : cancelled' = cancelled \cup {ctx}
    PROVE  Promise!Next \/ UNCHANGED Promise!vars
<1>1. CASE UNCHANGED cancelled
  BY <1>1 DEF Promise!vars, PartitionDone
<1>2. CASE \E ctx : cancelled' = cancelled \cup {ctx}
  <2>1. PartitionDone'
    BY <1>2 DEF PartitionDone
  <2> QED BY <2>1 DEF Promise!Next, Promise!GiveUp
<1> QED BY <1>1, <1>2

(* An event that is received is the next one owed.                          *)
LEMMA ReceiveDelivers ==
    ASSUME IInv, NEW p \in parts, receive(p)
    PROVE  Promise!Deliver(p)
<1>1. p \in Partitions /\ Queue(p) /\ copier[p] = "send"
  BY PartsKnown DEF IInv, receive
<1>2. response # "closed"
  BY <1>1 DEF IInv, ResponseInv
<1>3. owed[p] \in Seq(Event) /\ got[p] \in Seq(Event)
  BY <1>1 DEF IInv, Types
<1>4. Len(got[p]) < Len(owed[p]) /\ atCopier[p] = owed[p][Len(got[p]) + 1]
  <2>1. /\ InCopier(copier[p]) = 1
        /\ InFilter(filter[p]) \in {0, 1}
        /\ InLister(p, lister[p], atLister[p]) \in {0, 1}
    BY <1>1 DEF InCopier, InFilter, InLister
  <2> QED BY <1>1, <1>3, <2>1 DEF Queue, Lined
<1>5. got' = [got EXCEPT ![p] = Append(@, owed[p][Len(@) + 1])]
  BY <1>4 DEF receive
<1>6. UNCHANGED <<owed, PartitionDone, response # "closed">>
  BY DEF receive, ctxVars, PartitionDone
<1> QED BY <1>2, <1>4, <1>5, <1>6 DEF Promise!Deliver

(* The response is closed when all that is owed was received.               *)
LEMMA CloseCloses ==
    ASSUME IInv, close
    PROVE  Promise!Close
<1>1. ASSUME NEW p \in Partitions PROVE got[p] = owed[p]
  <2>1. copier[p] \in {"off", "done"} /\ lister[p] \in {"off", "done"}
        /\ filter[p] \in {"off", "done"}
    BY DEF close, IInv, Order
  <2>2. /\ owed[p] \in Seq(Event) /\ got[p] \in Seq(Event)
        /\ Len(owed[p]) = Len(got[p])
        /\ \A i \in 1..Len(got[p]) : got[p][i] = owed[p][i]
    <3>1. /\ owed[p] \in Seq(Event) /\ got[p] \in Seq(Event)
          /\ Queue(p)
      BY DEF IInv, Types
    <3>2. /\ InCopier(copier[p]) = 0 /\ InFilter(filter[p]) = 0
          /\ InLister(p, lister[p], atLister[p]) = 0
      BY <2>1 DEF InCopier, InFilter, InLister
    <3> QED BY <3>1, <3>2 DEF Queue, Lined
  <2> QED BY <2>2
<1>2. got = owed
  BY <1>1 DEF IInv, Types
<1>3. response # "closed" /\ PartitionDone /\ response' = "closed" /\ PartitionDone'
  BY DEF close, IInv, ResponseInv, PartitionDone
<1> QED BY <1>2, <1>3 DEF Promise!Close, close, logVars

(* An event the subscriber may see is owed from the moment it is taken.     *)
LEMMA OwedTakes ==
    ASSUME IInv, NEW p \in parts, lister[p] \in {"watch", "range"}, NEW e \in Event,
           owed' = [owed EXCEPT ![p] = IF Visible(p, e) THEN Append(@, e) ELSE @],
           UNCHANGED <<got, cancelled, response>>
    PROVE  Promise!Next \/ UNCHANGED Promise!vars
<1>1. p \in Partitions /\ copier[p] # "done"
  BY PartsKnown DEF IInv, Order
<1>2. response # "closed"
  BY <1>1 DEF IInv, ResponseInv
<1>3. UNCHANGED <<PartitionDone, response # "closed">>
  BY DEF PartitionDone
<1>4. CASE Visible(p, e)
  <2>1. Promise!Take(p)
    BY <1>2, <1>3, <1>4 DEF Promise!Take
  <2> QED BY <1>1, <2>1 DEF Promise!Next
<1>5. CASE ~Visible(p, e)
  BY <1>1, <1>3, <1>5 DEF Promise!vars, IInv, Types
<1> QED BY <1>4, <1>5

(* Every step is a step of StoreWatch or none.                              *)
LEMMA PromiseStep == IInv /\ [Next]_vars => Promise!Next \/ UNCHANGED Promise!vars
<1> SUFFICES ASSUME IInv, [Next]_vars PROVE Promise!Next \/ UNCHANGED Promise!vars
  OBVIOUS
<1>p. parts \subseteq Partitions
  BY PartsKnown DEF IInv
<1>1. CASE refreshWatch
  BY <1>1, InsideStep DEF refreshWatch, ctxVars, logVars
<1>2. CASE pollTick
  BY <1>2, InsideStep DEF pollTick, ctxVars, logVars
<1>3. CASE pollEnds
  BY <1>3, InsideStep DEF pollEnds, ctxVars, logVars
<1>4. CASE partitionWatch
  <2>1. response # "closed" /\ response' # "closed"
    BY <1>4 DEF partitionWatch, IInv, ResponseInv
  <2> QED BY <2>1, <1>4 DEF Promise!vars, partitionWatch, logVars, PartitionDone
<1>5. CASE close
  BY <1>5, CloseCloses DEF Promise!Next
<1>6. CASE accessChanges
  BY <1>6, InsideStep DEF accessChanges, ctxVars, logVars
<1>7. CASE sessionCancels
  BY <1>7, InsideStep DEF sessionCancels, ctxVars, logVars
<1>8. CASE consumerEnds
  BY <1>8, InsideStep DEF consumerEnds, ctxVars, logVars
<1>9. ASSUME NEW p \in parts, setNamespace(p) PROVE Promise!Next \/ UNCHANGED Promise!vars
  BY <1>9, PartsKnown, InsideStep DEF setNamespace, ctxVars, logVars
<1>10. ASSUME NEW p \in parts, openWatch(p) PROVE Promise!Next \/ UNCHANGED Promise!vars
  BY <1>10, PartsKnown, InsideStep DEF openWatch, ctxVars, logVars
<1>11. ASSUME NEW p \in parts, openFails(p) PROVE Promise!Next \/ UNCHANGED Promise!vars
  BY <1>11, PartsKnown, InsideStep DEF openFails, ctxVars, logVars
<1>12. ASSUME NEW p \in parts, copierEnds(p) PROVE Promise!Next \/ UNCHANGED Promise!vars
  BY <1>12, PartsKnown, InsideStep DEF copierEnds, ctxVars, logVars
<1>13. ASSUME NEW p \in parts, receive(p) PROVE Promise!Next \/ UNCHANGED Promise!vars
  BY <1>p, <1>13, ReceiveDelivers DEF Promise!Next
<1>14. ASSUME NEW p \in parts, k8sWatch(p) PROVE Promise!Next \/ UNCHANGED Promise!vars
  BY <1>14, PartsKnown, InsideStep DEF k8sWatch, ctxVars, logVars
<1>15. ASSUME NEW p \in parts, k8sWatchFails(p) PROVE Promise!Next \/ UNCHANGED Promise!vars
  <2> DEFINE e == [n |-> 0, kind |-> "status"]
  <2>1. e \in Event
    <3>1. 0 \in 0..MaxEvents[p]
      BY <1>p, BoundsAssumption
    <3> QED BY <1>p, <3>1, EventTypes DEF EventKinds
  <2> QED BY <2>1, <1>15, OwedTakes DEF k8sWatchFails, ctxVars
<1>16. ASSUME NEW p \in parts, listerEnds(p) PROVE Promise!Next \/ UNCHANGED Promise!vars
  BY <1>16, PartsKnown, InsideStep DEF listerEnds, ctxVars, logVars
<1>17. ASSUME NEW p \in parts, listerSends(p) PROVE Promise!Next \/ UNCHANGED Promise!vars
  BY <1>17, PartsKnown, InsideStep DEF listerSends, ctxVars, logVars
<1>18. ASSUME NEW p \in parts, filterSends(p) PROVE Promise!Next \/ UNCHANGED Promise!vars
  BY <1>18, PartsKnown, InsideStep DEF filterSends, ctxVars, logVars
<1>19. ASSUME NEW p \in parts, filterEnds(p) PROVE Promise!Next \/ UNCHANGED Promise!vars
  BY <1>19, PartsKnown, InsideStep DEF filterEnds, ctxVars, logVars
<1>20. ASSUME NEW p \in parts, takeEvent(p) PROVE Promise!Next \/ UNCHANGED Promise!vars
  <2>1. PICK k \in Kinds(p) : takeEvent(p)!5!(k)
    BY <1>20 DEF takeEvent
  <2>2. taken'[p] \in 0..MaxEvents[p]
    BY <1>p, <1>20, TypeStep DEF TypeOK, takeEvent, callVars
  <2>3. [n |-> taken'[p], kind |-> k] \in Event
    BY <1>p, <2>2, EventTypes DEF Kinds
  <2> QED BY <2>1, <2>3, <1>20, OwedTakes DEF takeEvent, ctxVars
<1>21. ASSUME NEW p \in parts, stop(p) PROVE Promise!Next \/ UNCHANGED Promise!vars
  BY <1>21, PartsKnown, InsideStep DEF stop, ctxVars, logVars
<1>22. ASSUME NEW p \in parts, watchTimesOut(p) PROVE Promise!Next \/ UNCHANGED Promise!vars
  BY <1>22, PartsKnown, InsideStep DEF watchTimesOut, ctxVars, logVars
<1>23. CASE UNCHANGED vars
  BY <1>23, InsideStep DEF vars, ctxVars, logVars
<1> QED
  BY <1>1, <1>2, <1>3, <1>4, <1>5, <1>6, <1>7, <1>8, <1>9, <1>10, <1>11, <1>12,
     <1>13, <1>14, <1>15, <1>16, <1>17, <1>18, <1>19, <1>20, <1>21, <1>22, <1>23
     DEF Next, Poller, Caller, Copier, Lister, Filter, Ended

(* The pipeline implements StoreWatch's safety, for any subscriptions and   *)
(* any number of events: per partition the events arrive in order, none     *)
(* lost, repeated or hidden wrongly, and response is closed after the last. *)
THEOREM Refinement == Spec => IsStoreWatch
<1>1. IInv /\ [Next]_vars => [Promise!Next]_(Promise!vars)
  BY PromiseStep
<1> QED BY <1>1, PromiseInit, Invariance, PTL DEF Spec, IsStoreWatch, Promise!Safe
=============================================================================
