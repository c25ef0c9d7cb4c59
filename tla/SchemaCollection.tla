-------------------------- MODULE SchemaCollection --------------------------
(***************************************************************************)
(* How a change of the cluster's API reaches the users: the controller that *)
(* refreshes the schemas (pkg/controllers/schema/schemas.go), the           *)
(* collection that holds them and caches each user's share                  *)
(* (pkg/schema/collection.go, factory.go), and a client's watch of its      *)
(* schemas (pkg/resources/schemas/template.go).                             *)
(*                                                                          *)
(* Data abstraction: a schema is a discovered type [id, kind, preferred,    *)
(* listable]: its versioned ID, the unversioned ID it is served under, the  *)
(* versioned ID of the type to be preferred to it (its own if none), and    *)
(* whether it can be listed and watched.  An access set is its ID, and      *)
(* Allows says which kinds it has methods for.  The critical sections of    *)
(* the collection's lock do not block and are one step each.                *)
(***************************************************************************)
EXTENDS Naturals, FiniteSets

CONSTANTS
    Types,        \* the types discovery may report
    Denied,       \* list-watchable types the server itself may not list
    Templated,    \* IDs that templates are registered for
    AccessIDs, Allows,
    Requests,     \* requests under way (bound of the model)
    Notifiers,    \* goroutines of the schema watch: "onSchema", "onUser"
    MaxChanges,   \* API changes (bound of the model)
    MaxFailures,  \* failures of discovery or of a Start (bound of the model)
    MaxGrants     \* changes of the watching user's access (bound of the model)

ASSUME TypesAssumption ==
    IsFiniteSet(Types) /\ Denied \subseteq Types /\ AccessIDs # {}
ASSUME CallersAssumption ==
    Notifiers \subseteq {"onSchema", "onUser"} /\ Requests \cap Notifiers = {}
ASSUME AllowsAssumption == Allows \in [AccessIDs -> SUBSET {t.kind : t \in Types}]
ASSUME BoundsAssumption ==
    MaxChanges \in Nat /\ MaxFailures \in Nat /\ MaxGrants \in Nat

VARIABLES
    world,      \* what discovery would report
    events,     \* APIService events not yet handled
    changes,
    toSync,     \* handler.toSync
    lock,       \* handler's mutex is held
    refresher,  \* goroutines of queueRefresh: control point and what they found
    failures,
    stale,      \* history: the last refresh failed, wholly or for a group
    schemas,    \* c.schemas
    running,    \* c.running
    found,      \* history: what the last refresh discovered
    cache,      \* c.cache: set of [access, types, clean]
    caller,     \* goroutines inside Schemas
    raced,      \* history: a cached answer was added after a later Reset
    signal,     \* a schema change waits in the watch's subscription
    dropped,    \* history: a notification met a busy broadcaster
    subscribed, \* the watch has its subscription
    watcher,    \* the goroutines of the watch: control point and their copy
    view,       \* the schemas the client knows of
    userAccess, \* access set of the watching user
    seenAccess, \* the one userChangeNotify compares it with
    grants

controllerVars == <<toSync, lock, refresher, failures, stale>>
collectionVars == <<schemas, running, found, cache, caller, raced>>
watchVars == <<signal, dropped, subscribed, watcher, view, userAccess,
               seenAccess, grants>>
worldVars == <<world, events, changes>>
vars == <<worldVars, controllerVars, collectionVars, watchVars>>

(* One goroutine for each event; the callers of Schemas are the requests    *)
(* and the two goroutines of the schema watch.                              *)
Refreshers == 1..MaxChanges
Callers == Requests \cup Notifiers

FirstAccess == CHOOSE a \in AccessIDs : TRUE

Off == [pc |-> "off", types |-> {}]
Idle == [pc |-> "idle", access |-> FirstAccess, types |-> {}, clean |-> TRUE]

Init ==
    /\ world = {} /\ events = 0 /\ changes = 0
    /\ toSync = FALSE /\ lock = FALSE /\ failures = 0 /\ stale = FALSE
    /\ refresher = [g \in Refreshers |-> Off]
    /\ schemas = {} /\ running = {} /\ found = {} /\ cache = {} /\ raced = FALSE
    /\ caller = [c \in Callers |-> Idle]
    /\ signal = FALSE /\ dropped = FALSE /\ subscribed = FALSE
    /\ watcher = [n \in Notifiers |-> [pc |-> "new", types |-> {}]] /\ view = {}
    /\ userAccess = FirstAccess /\ seenAccess = FirstAccess /\ grants = 0

-----------------------------------------------------------------------------
(* The cluster's API changes, and an APIService with it: a type goes, or    *)
(* comes, in place of the one of its versioned ID if there is one.          *)
changeAPI(t) ==
    /\ changes < MaxChanges
    /\ world' = IF t \in world THEN world \ {t}
                ELSE {u \in world : u.id # t.id} \cup {t}
    /\ events' = events + 1 /\ changes' = changes + 1
    /\ UNCHANGED <<controllerVars, collectionVars, watchVars>>

(* OnChangeAPIService, queueRefresh                                         *)
queueRefresh ==
    /\ events > 0
    /\ events' = events - 1
    /\ toSync' = TRUE
    /\ \E g \in Refreshers :
         /\ refresher[g].pc = "off" /\ \A h \in 1..(g - 1) : refresher[h].pc # "off"
         /\ refresher' = [refresher EXCEPT ![g].pc = "asleep"]
    /\ UNCHANGED <<world, changes, lock, failures, stale, collectionVars, watchVars>>

(* refreshAll: the lock, and needToSync, which clears the flag first.       *)
needToSync(g) ==
    /\ refresher[g].pc = "asleep" /\ ~lock
    /\ IF toSync
       THEN lock' = TRUE /\ refresher' = [refresher EXCEPT ![g].pc = "discover"]
       ELSE UNCHANGED lock /\ refresher' = [refresher EXCEPT ![g].pc = "gone"]
    /\ toSync' = FALSE
    /\ UNCHANGED <<worldVars, failures, stale, collectionVars, watchVars>>

(* converter.ToSchemas: what discovery reports now.  A group that cannot be *)
(* read is logged, and its types are missing.                               *)
discover(g) ==
    /\ refresher[g].pc = "discover"
    /\ \E missing \in SUBSET world :
         /\ failures + Cardinality(missing) <= MaxFailures
         /\ failures' = failures + Cardinality(missing)
         /\ stale' = (missing # {})
         /\ refresher' = [refresher EXCEPT ![g] =
                            [pc |-> "reset", types |-> world \ missing]]
    /\ UNCHANGED <<worldVars, toSync, lock, collectionVars, watchVars>>

(* Discovery, an access review or the columns fail; the lock is released.   *)
discoverFails(g) ==
    /\ refresher[g].pc = "discover" /\ failures < MaxFailures
    /\ failures' = failures + 1 /\ stale' = TRUE
    /\ lock' = FALSE
    /\ refresher' = [refresher EXCEPT ![g].pc = "failed"]
    /\ UNCHANGED <<worldVars, toSync, collectionVars, watchVars>>

(* The error is logged and the flag set again, but nothing retries.         *)
refreshFailed(g) ==
    /\ refresher[g].pc = "failed"
    /\ toSync' = TRUE
    /\ refresher' = [refresher EXCEPT ![g].pc = "gone"]
    /\ UNCHANGED <<worldVars, lock, failures, stale, collectionVars, watchVars>>

(* Seeded fault: the preferred type is looked for under the type's own ID.  *)
preferredTypeExists_Own(t, S) == FALSE

preferredTypeExists(t, S) ==
    t.preferred # t.id /\ \E p \in S : p.id = t.preferred

(* The types refreshAll keeps, before two of one ID replace each other.     *)
Kept(S) ==
    {t \in S : t.listable => ~preferredTypeExists(t, S) /\ t \notin Denied}

Kinds(S) == {t.kind : t \in S}

(* Seeded fault: the schemas stay under their versioned IDs.                *)
FilteredSchemas_Both(S) == {Kept(S)}

(* filteredSchemas: one type for each ID; which one, the map's order says.  *)
FilteredSchemas(S) ==
    {F \in SUBSET Kept(S) :
        \A k \in Kinds(Kept(S)) : \E t \in F : {u \in F : u.kind = k} = {t}}

(* Seeded fault: a template is not stopped when its schema goes.            *)
startStopTemplate_NeverStops(S) ==
    /\ running' = running \cup (Templated \cap Kinds(S))
    /\ UNCHANGED failures

(* startStopTemplate: what is started now, unless its Start fails, and what *)
(* has no schema any more is stopped.                                       *)
startStopTemplate(S) ==
    \E bad \in SUBSET ((Templated \cap Kinds(S)) \ running) :
        /\ failures + Cardinality(bad) <= MaxFailures
        /\ failures' = failures + Cardinality(bad)
        /\ running' = (running \cup ((Templated \cap Kinds(S)) \ bad)) \cap Kinds(S)

(* Seeded fault: the cache of schemas is not emptied.                       *)
Cleared_Not(S) == S

Cleared(S) == {}

(* The write section of Reset.                                              *)
Reset(g) ==
    /\ refresher[g].pc = "reset"
    /\ \E F \in FilteredSchemas(refresher[g].types) :
         /\ startStopTemplate(F)
         /\ schemas' = F
    /\ found' = refresher[g].types
    /\ cache' = Cleared(cache)
    /\ caller' = [c \in Callers |-> IF caller[c].pc = "add"
                                    THEN [caller[c] EXCEPT !.clean = FALSE] ELSE caller[c]]
    /\ refresher' = [refresher EXCEPT ![g].pc = "notify"]
    /\ UNCHANGED <<worldVars, toSync, lock, stale, raced, watchVars>>

(* Seeded fault: the flag is cleared when the refresh is over.              *)
notify_ClearsFlag(g) ==
    /\ refresher[g].pc = "notify"
    /\ lock' = FALSE /\ toSync' = FALSE
    /\ refresher' = [refresher EXCEPT ![g] = [pc |-> "gone", types |-> {}]]
    /\ signal' = subscribed
    /\ UNCHANGED <<worldVars, failures, stale, collectionVars, dropped, subscribed,
                   watcher, view, userAccess, seenAccess, grants>>

(* The notifier: a send to the broadcaster, dropped if it is not ready; and *)
(* the end of refreshAll.                                                   *)
notify(g) ==
    /\ refresher[g].pc = "notify"
    /\ lock' = FALSE
    /\ refresher' = [refresher EXCEPT ![g] = [pc |-> "gone", types |-> {}]]
    /\ \/ signal' = subscribed /\ UNCHANGED dropped
       \/ dropped' = TRUE /\ UNCHANGED signal
    /\ UNCHANGED <<worldVars, toSync, failures, stale, collectionVars, subscribed,
                   watcher, view, userAccess, seenAccess, grants>>

refreshAll(g) ==
    \/ needToSync(g) \/ discover(g) \/ discoverFails(g) \/ refreshFailed(g)
    \/ Reset(g) \/ notify(g)

-----------------------------------------------------------------------------
Visible(access) == {t \in schemas : t.kind \in Allows[access]}

Cached(access) == {e \in cache : e.access = access}

(* Schemas(user), called by c for an access set: from the cache, or not.    *)
Schemas(c, access) ==
    /\ caller[c].pc = "idle"
    /\ caller' = [caller EXCEPT ![c] =
         IF Cached(access) # {}
         THEN LET e == CHOOSE e \in Cached(access) : TRUE
              IN  [pc |-> "done", access |-> access, types |-> e.types, clean |-> e.clean]
         ELSE [pc |-> "miss", access |-> access, types |-> {}, clean |-> TRUE]]
    /\ UNCHANGED <<schemas, running, found, cache, raced>>

schemasForSubject(c) ==
    /\ caller[c].pc = "miss"
    /\ caller' = [caller EXCEPT ![c].pc = "add", ![c].types = Visible(caller[c].access)]
    /\ UNCHANGED <<schemas, running, found, cache, raced>>

cacheAdd(c) ==
    /\ caller[c].pc = "add"
    /\ cache' = (cache \ Cached(caller[c].access)) \cup
                {[access |-> caller[c].access, types |-> caller[c].types,
                  clean |-> caller[c].clean]}
    /\ raced' = (raced \/ ~caller[c].clean)
    /\ caller' = [caller EXCEPT ![c] = IF c \in Requests THEN Idle ELSE [@ EXCEPT !.pc = "done"]]
    /\ UNCHANGED <<schemas, running, found>>

(* An entry's day is over, or it is evicted.                                *)
expire(e) ==
    /\ cache' = cache \ {e}
    /\ UNCHANGED <<worldVars, controllerVars, schemas, running, found, caller, raced, watchVars>>

collectionStep(c) ==
    /\ schemasForSubject(c) \/ cacheAdd(c)
    /\ UNCHANGED <<worldVars, controllerVars, watchVars>>

(* A request asks for the schemas of its user; one that the cache answers   *)
(* changes nothing.                                                         *)
request(c) ==
    /\ \E access \in AccessIDs : Cached(access) = {} /\ Schemas(c, access)
    /\ UNCHANGED <<worldVars, controllerVars, watchVars>>

-----------------------------------------------------------------------------
(* The schema watch: two goroutines, each with a copy of its own, that send *)
(* the differences to what they read before.                                *)
grantUser ==
    /\ grants < MaxGrants
    /\ grants' = grants + 1
    /\ userAccess' \in AccessIDs \ {userAccess}
    /\ UNCHANGED <<worldVars, controllerVars, collectionVars, signal, dropped,
                   subscribed, watcher, view, seenAccess>>

(* Seeded fault: the goroutine subscribes after its first Schemas.          *)
SubscribesAt_Late(point) == point = "first"

(* The goroutine subscribes before its first Schemas.                       *)
SubscribesAt(point) == point = "new"

WatchStep(n, new) ==
    /\ watcher' = [watcher EXCEPT ![n] = new]
    /\ UNCHANGED <<worldVars, controllerVars, dropped, userAccess, grants>>

(* The watch begins; the first Schemas is called.                           *)
watchBegins(n) ==
    /\ watcher[n].pc = "new"
    /\ subscribed' = (subscribed \/ (n = "onSchema" /\ SubscribesAt("new")))
    /\ WatchStep(n, [watcher[n] EXCEPT !.pc = "first"])
    /\ Schemas(n, userAccess)
    /\ UNCHANGED <<signal, view, seenAccess>>

Answered(n, point) == watcher[n].pc = point /\ caller[n].pc = "done"

TakeAnswer(n) ==
    /\ caller' = [caller EXCEPT ![n] = Idle]
    /\ UNCHANGED <<schemas, running, found, cache, raced>>

(* The first copy.  The client is taken to know the one that schema changes *)
(* are compared with.  userChangeNotify asks for the access set only now.   *)
watchFirst(n) ==
    /\ Answered(n, "first")
    /\ WatchStep(n, [pc |-> "loop", types |-> caller[n].types])
    /\ TakeAnswer(n)
    /\ IF n = "onSchema"
       THEN /\ view' = caller[n].types
            /\ subscribed' = (subscribed \/ SubscribesAt("first"))
            /\ UNCHANGED seenAccess
       ELSE seenAccess' = userAccess /\ UNCHANGED <<view, subscribed>>
    /\ UNCHANGED signal

(* A schema change is received.                                             *)
watchSignalled ==
    /\ "onSchema" \in Notifiers /\ watcher["onSchema"].pc = "loop" /\ signal
    /\ signal' = FALSE
    /\ WatchStep("onSchema", [watcher["onSchema"] EXCEPT !.pc = "send"])
    /\ Schemas("onSchema", userAccess)
    /\ UNCHANGED <<subscribed, view, seenAccess>>

(* userChangeNotify, every two seconds: the access set has another ID.      *)
userChangeNotify ==
    /\ "onUser" \in Notifiers /\ watcher["onUser"].pc = "loop" /\ seenAccess # userAccess
    /\ seenAccess' = userAccess
    /\ WatchStep("onUser", [watcher["onUser"] EXCEPT !.pc = "send"])
    /\ Schemas("onUser", userAccess)
    /\ UNCHANGED <<signal, subscribed, view>>

(* The client's view after the create, change and remove events between two *)
(* copies.  The sends of one goroutine are one step: those of the other may *)
(* come between, which only matters to a user whose access changes.         *)
Told(v, before, after) ==
    LET sent == after \ before
        removed == Kinds(before) \ Kinds(after)
    IN  {t \in v : t.kind \notin Kinds(sent) \cup removed} \cup sent

sendSchemas(n) ==
    /\ Answered(n, "send")
    /\ view' = Told(view, watcher[n].types, caller[n].types)
    /\ WatchStep(n, [pc |-> "loop", types |-> caller[n].types])
    /\ TakeAnswer(n)
    /\ UNCHANGED <<signal, subscribed, seenAccess>>

watch(n) == watchBegins(n) \/ watchFirst(n) \/ sendSchemas(n)

-----------------------------------------------------------------------------
Next ==
    \/ \E t \in Types : changeAPI(t)
    \/ queueRefresh
    \/ \E g \in Refreshers : refreshAll(g)
    \/ \E c \in Callers : collectionStep(c)
    \/ \E c \in Requests : request(c)
    \/ \E e \in cache : expire(e)
    \/ grantUser
    \/ \E n \in Notifiers : watch(n)
    \/ watchSignalled
    \/ userChangeNotify

(* Goroutines run and the mutex is fair; the router delivers every event; a *)
(* watch that is open goes on.  Nobody has to change the API or a user.     *)
Fairness ==
    /\ WF_vars(queueRefresh)
    /\ \A g \in Refreshers : SF_vars(refreshAll(g))
    /\ \A c \in Notifiers : WF_vars(collectionStep(c)) /\ WF_vars(watch(c))
    /\ WF_vars(watchSignalled) /\ WF_vars(userChangeNotify)

Spec == Init /\ [][Next]_vars /\ Fairness

-----------------------------------------------------------------------------
CallerState ==
    [pc : {"idle", "miss", "add", "done"}, access : AccessIDs, types : SUBSET Types,
     clean : BOOLEAN]

(* Types, and one schema for each ID: two versions of a type are not both   *)
(* served (schemas.go 146-166).                                             *)
TypeOK ==
    /\ world \subseteq Types /\ events \in Nat /\ changes \in 0..MaxChanges
    /\ toSync \in BOOLEAN /\ lock \in BOOLEAN /\ stale \in BOOLEAN
    /\ \A g \in Refreshers : refresher[g].types \subseteq Types
    /\ schemas \subseteq Types
    /\ \A t, u \in schemas : t.kind = u.kind => t = u
    /\ running \subseteq Templated /\ found \subseteq Types
    /\ cache \subseteq [access : AccessIDs, types : SUBSET Types, clean : BOOLEAN]
    /\ caller \in [Callers -> CallerState]
    /\ view \subseteq Types /\ failures \in 0..MaxFailures

(* Only one goroutine at a time is between needToSync and the end of        *)
(* refreshAll, and so in Reset, whose templates are started and stopped     *)
(* without a second look (schemas.go 134-175, collection.go 129-154): what  *)
(* runs has a schema, and what has a schema and a template runs, up to the  *)
(* starts that failed.                                                      *)
TemplatesFollow ==
    /\ running \subseteq Kinds(schemas)
    /\ Cardinality((Templated \cap Kinds(schemas)) \ running) <= failures

(* A kind is served in its preferred version whenever discovery reported    *)
(* that version and the server may list it, although the schemas of several *)
(* versions are filtered in the random order of a map and renamed meanwhile *)
(* (schemas.go 146-166, 177-197).                                           *)
PreferredServed ==
    \A p \in found \ Denied :
        (\A t \in found : t.kind = p.kind => t.listable /\ t.preferred = p.id)
            => p \in schemas

(* A cached answer of Schemas, unless its computation overlapped a Reset,   *)
(* is what would be computed now: Reset leaves nothing old behind           *)
(* (factory.go 24-39, collection.go 101-109).                               *)
CacheFresh ==
    \A e \in cache : e.clean => e.types = Visible(e.access)

(* A change of the API is served in the end, unless a refresh failed: an    *)
(* event that comes while a refresh is under way is not lost (schemas.go    *)
(* 68-78, 218-221).                                                         *)
RefreshFollows ==
    <>[](stale \/ found = world)

(* A client that watches schemas is told of every change of the API, unless *)
(* a refresh failed, the notification was dropped, or a cached answer that  *)
(* overlapped a Reset was served; stated for a user whose access does not   *)
(* change (template.go 60-74, 91-132, 157-170).                             *)
WatchFollows ==
    <>[](stale \/ dropped \/ raced \/ grants > 0 \/ view = Visible(userAccess))
=============================================================================
