# A TLA+ development for brent

Brent serves a Kubernetes cluster as a REST and websocket API. For every user it
computes what the user may do (access control), gives the user a copy of the API
schemas with the methods that follow from it, and answers lists by splitting
them into *partitions* (namespaces, or named objects of a namespace) that are
listed concurrently. Clients follow changes over one websocket on which they
subscribe to any number of resources.

The modules here model the parts of this whose behaviour is decided by
interleavings, by failures in the middle of something, or by long sequences of
calls. `PROJECT.json` relates every definition to the lines it models and lists
the runs, the hazards and the theorems.

## Inventory

| Component | State | Operations | Interacts with |
|---|---|---|---|
| Partitioned list (`stores/partition`) | per request: remaining capacity, saved list state, revision, semaphore, a chain of turn channels | `List`, `feeder`, a worker per partition; `Store.List`, `Store.Watch` | asks the RBAC partitioner for partitions and their stores; the client carries the continue token |
| Watch session (`subscribe`) | map from key to cancel function, WaitGroup, mutex, events channel of 100 | `Watch`, `watch`, `add`, `stop`, `stream`, `Close`; `handler` | store watches feed it; the websocket is its input and output |
| Access sets (`accesscontrol/access_set.go`) | map from verb, group and resource to accesses | `Add`, `Merge`, `Grants`, `AccessListFor`, `Granted`, `Namespaces` | filled by the policy rule index, read by the schema factory |
| Access store (`access_store.go`, `policy_rule_index.go`, `role_revision_index.go`) | cache of 50 access sets, revision of every role | `AccessFor`, `CacheKey`, `get`, `onClusterRoleChanged` | reads informer caches; called by every request and by the watch refresh |
| RBAC partitioner and proxy store (`stores/proxy`) | none of its own; per watch, goroutines and unbuffered channels | `All`, `Lookup`, `List`, `ByNames`, `ByID`, `Create`, `Update`, `Delete`, `Watch`, `WatchNames`, `listAndWatch`, `WatchRefresh.Watch` | reads the accesses on the schema; calls Kubernetes as the user or as administrator; polls the access store |
| Schema collection and factory (`schema`) | schemas, templates, running templates, notifiers, cache of schemas by access set | `Reset`, `OnChange`, `Schemas`, `schemasForSubject` | reset by the controller, read by every request |
| Schema controller (`controllers/schema`) | flag `toSync`, mutex | `queueRefresh`, `refreshAll` | discovery in, `Reset` out |
| Schema watch (`resources/schemas`) | old schemas per goroutine | `Watch`, `sendSchemas`, `userChangeNotify` | access store, collection |
| Request pipeline (`auth`, `server/handler`, `parse`, `handlers`, `client`, `proxy`, `writer`) | one request; the objects in Kubernetes | authenticate, fetch schemas, parse, validate, check access, handle, write; the reverse proxy | schemas, stores, Kubernetes |

What is hard: the workers of a list share variables with no lock and rely on the
order of their turns; a token must be exact over pages, failures and retries;
four kinds of goroutine share a watch session, a bounded channel and a mutex
held over a send; the access cache is keyed by values read before the ones it
stores; the schema cache is filled after the lock that protected its input was
released; a watch of several partitions is four goroutines for each of them, any
of which may end first; a request is checked with schemas older than its call to
Kubernetes, and its client edits an object others change meanwhile.

Properties that make the components correct:

* a list delivers every object once and in order, and ends;
* a watch session never writes to a closed channel, can cancel every stream it
  has, tells the client of every end, and cleans up when the client goes;
* an access set answers what the RBAC rules say, and a list made with the
  administrator's client shows nothing else;
* a cached access set is the one its user would be given;
* a store's watch passes every event on in order, closes its channel once and
  leaves nothing behind;
* a request is answered once, with a status that tells whether its change was
  made, and makes no change its user has no right to.

## Modules

`ParallelLister` models `parallel.go`, and `Store.List` with a client that pages
through a list and repeats a failed page. The feeder and each worker are
processes, with one action between two points at which another goroutine can be
seen to run: `feederCheck`, `feederLaunch`, `feederAcquireFails`, `feederClose`;
`workerList` and `workerListFails` (the call of the Lister), `workerTurnCut` and
`workerTurn` (after `waitForTurn`), `workerSendAll` and `workerAccount` (a batch
that fits), `workerSendPart` and `workerSave` (one that does not), `workerExit`
(the deferred calls) and `workerReport` (the errgroup learns of an error, after
the deferred calls). Objects are pairs of partition and position, a Kubernetes
token is a position. The Lister returns at most `Chunk` objects, so a partition
may need several rounds. Partitions and their contents do not change during a
behaviour.

`WatchSession` models one connection: the reader, the streams, the handler and
the drainer it leaves behind. Sending on the bounded channel blocks, the mutex is
explicit because `stop` holds it over a send, and the panic of a reused
`WaitGroup` is an outcome (`misuse`). Of events only their number in the channel
is kept. A store may close a watch at any time; a key in `NilKeys` belongs to a
store without a watch (`stores/empty`), for which `Watch` returns a nil channel.

`AccessSet` models `access_set.go` and the loops that fill a set: the rules of
one subject after the other. Which bindings a subject has is arbitrary.

`RBACPartitions` extends it by the way from an access set to the objects of a
list: the accesses recorded on a schema (`factory.go`), `Granted`,
`isPassthrough`, and what a partition lists. Lists made with the user's client
are authorised by the API server; the ones of `ByNames` are made as administrator
and filtered by name.

`AccessStore` models `AccessFor` step by step: bindings and revisions are read one
after the other into a key, the cache is asked, then bindings and roles are read
and the result is added. Between any two steps the informers and the revision
handler, which follows the informers, may change what is read. Access is
abstracted to the roles and revisions it was built from. A variable of history,
`clean`, remembers whether anything changed while an answer or an entry was made.

`SchemaCollection` models the way of a change of the API to the users: the events,
`queueRefresh` and its sleeping goroutines, `refreshAll` under its mutex with the
filter of versions, `Reset` with the templates it starts and stops, the notifier,
`Schemas` in three steps (cache, computation under the read lock, addition to the
cache after it), and the two goroutines of a schema watch, each with a copy of
its own. A schema is abstracted to its versioned ID, the ID it is served under,
the version preferred to it and whether it can be listed; discovery reports one
type for each versioned ID, and the API may replace it; an access set is an ID
and the kinds it allows. History variables: `found`, what the last refresh
discovered; `stale`, whether the last refresh failed or missed a group; `dropped`
and `raced`, whether a notification was lost or an answer cached after a later
`Reset`. The client is taken to know the first copy of the goroutine that follows
schema changes, and to apply every event it is sent.

`StoreWatch` is what whoever calls a store's `Watch` relies on, a stream of
`WatchSession` among them: per source, the events the subscriber may see, in
order and without a gap; a channel that is closed only after the watch was given
up and everything was handed over; nothing afterwards (`Safe`); and a close in the
end (`Closes`).

`WatchPipeline` models one watch from `WatchRefresh.Watch` through
`partition.Store.Watch` and `byNameOrNamespaceStore.Watch` to `listAndWatch` and
the Kubernetes watch, and is shown to implement `StoreWatch` with the partitions
as sources. Its processes are the poller, the closer and, for each partition, the
copier, the lister, the stopper and the filter of `WatchNames`. Channels are
unbuffered, so a send and its receive are one step (`listerSends`, `filterSends`,
`receive`) that moves an event from hand to hand: `atLister`, `atFilter` and
`atCopier` are what the goroutines of a partition hold. The three nested contexts are
the set `cancelled`. `setNamespace` and `openWatch` are two steps, because the
copiers write and read the namespace of one request without a lock. The history
`owed` has the events taken from Kubernetes that the subscriber may see.

`RequestPipeline` models requests on Kubernetes objects by several clients at
once, from the authentication filter to the answer, and the reverse proxy beside
it. A request meets shared state when its schemas are fetched (`common`), in its
call to Kubernetes (`k8sGet`, `k8sList`, `k8sCreate`, `k8sUpdate`, `k8sPatch`,
`k8sDelete`) and, after a delete, in a lookup (`k8sLookup`); these are actions, and
what lies between them is computed by operators named after the functions, in the
order of the code (`BeforeHandler`, `Handler`). `refuse`, `handlerRefuses` and
`serveCustom` are the ends without a call, `commonFails` and `commonNoURL` the
errors of `common`, `k8sFails` a call whose answer is lost, before or after its
effect. An object is a version and its fields, of which `spec` stands for what
clients edit and `type` for the reserved names; `moveToUnderscore` and
`moveFromUnderscore` are modelled as they work. Kubernetes is external: it
authorises each call, gives versions and refuses an update of an old one.

The `MC*` modules give the constants their values; operators named
`<definition>_<fault>` are seeded faults, one for each property, with which the
property fails. The `*Proofs` modules hold the theorems about the module they are
named after, see Proofs.

## Runs

| Run | Checks | Bounds |
|---|---|---|
| `ParallelLister` | types, turns exclude each other, pages within limit, delivered prefix, exact tokens, completeness, every page ends | 3 partitions of at most 3 objects, limits 2 and 3, chunks of 2, one Lister error, one client that goes away |
| `ParallelLister_Order`, `ParallelLister_Revision` | two comments of the code that do not hold, see Findings | as above or smaller |
| `WatchSession` | types, no send on closed, no orphan stream, no dead key, stops balance, clean-up after a lost connection, the handler returns | 1 key whose store may be without a watch, 2 subscriptions, channel of 1 |
| `WatchSession_NilChannel` | a comment that does not hold, see Findings | 1 key without a watch |
| `RBACPartitions` | grants, the whole-cluster question, partitions sound and complete | user and one group with at most 2 of 15 bindings each; 2 namespaces, a namespaced and a cluster-wide resource; all requests |
| `AccessStore` | types and capacity, answers made undisturbed are right, answers become right once nothing changes | 2 callers, 2 users (one in a group that starts bound), 1 role, cache of 2, 2 changes |
| `SchemaCollection` | types and one schema per ID, templates follow the schemas, preferred versions, fresh cache, no event lost | 4 types (3 versions of one), 2 changes of the API, 1 failure, 2 requests, 2 access sets |
| `SchemaCollection_Watch` | a watching client is told of every change | 2 types, 2 changes, 1 change of access, both goroutines |
| `WatchPipeline` | types, namespaces of the watches, the refinement of `StoreWatch` (its safety as `IsStoreWatch`, its close as part of `EndsTogether`), partitions end together, no goroutine is left, a change of access ends the watch | subscriptions with no partition, a passthrough, one object, two namespaces (one of them by names); 3 events of a single partition, 1 of each of two; 1 change of access |
| `RequestPipeline` | types and stored fields, one answer, truthful status, rights, CSRF token, no lost update, only edited fields change | 2 clients with 2 requests each (the second of one client is any of about 60 kinds), 2 objects, with and without auth middleware, 1 revocation, 1 failing call |
| `AccessStore_RoleBindings` | a RoleBinding counts: it does not, see Findings | 1 caller, 2 changes |

Why the bounds suffice: three partitions are needed for a worker whose
predecessor is waiting too, chunks smaller than a partition for a second round,
limits on both sides of the chunk for pages that end inside and between chunks.
Two subscriptions, possibly to the same key, are the stream that leaves and the
one that takes its place; a channel of 1 is full all the time, where 100
would hardly ever be. Bindings act on a decision one by one or in pairs (a name
and a namespace, a get and a list). With the group bound from the start, two
changes are a role and its deletion, the shortest way to a stale entry that is
found again. Two
callers have the same power as more over one cache entry: one writes what the
other finds. Two changes of the API are a refresh under way and an event that
comes meanwhile; three versions give a preferred one, one it replaces, and one
that is kept beside it. Three events fill the hands of lister, filter and copier
at once, and two partitions are the one that ends and the one that must end with
it. Two requests of each of two clients are a read and an edit against another
read and edit, or against a delete and a new object; that the first of them is a
usual one loses nothing, because a request leaves only the object its client has
seen and the state of Kubernetes behind.

Deadlock is not checked for `WatchSession` and `WatchSession_NilChannel`: a
connection with a stream that waits for ever is what the latter shows; nor for
the runs of `SchemaCollection`, where nothing happens when the API is quiet.

### Fairness

*ParallelLister*: the feeder and each worker are weakly fair, since the Go
scheduler runs what can run and a Lister call returns. Clients owe nothing.
*WatchSession*: streams and reader are strongly fair, because Go's mutex is
starvation free and a channel serves its waiting senders in order; the handler's
`select` takes a ready event in the end, and a write to a lost connection fails in
the end; a store closes the channel of a watch whose context is done. The peer
owes nothing. *AccessStore*: callers go on, the router handles every changed
role, and an entry expires after its day (all have the same lifetime, so the
first added expires first). *SchemaCollection*: the router delivers every
APIService event, the goroutines of a refresh get the mutex in the end, and the
goroutines of an open watch go on; no change of the API or of a user is owed,
and no entry has to expire. *WatchPipeline*: every goroutine goes on when it can,
timers fire, a call to Kubernetes returns, and the subscriber receives until the
channel is closed and then runs its deferred stop: the stream of `WatchSession`
ranges over the channel, and leaves a goroutine behind that drains it when it
returns early. No event, timeout, change of access or cancellation is owed.
*RequestPipeline* is safety only.

### What the runs say about the code

`TurnExclusive` and `PageWithinLimit` hold until a Lister fails or the request is
cancelled, and only then; see Findings. `CompleteUnlessFull` is stated around a
gap: when a page comes out exactly full the feeder stops without a token, and the
client takes the list for complete. `PartitionsComplete` leaves out a constraint
together with a requested namespace, which `isPassthrough` forgets, and objects
named by a cluster-wide binding, which `ByNames` treats as invalid.
`FreshWhenClean` is about answers and entries made while nothing changed: an entry
made while roles or bindings change may not belong to its key, and is served to
anyone with that key until it expires. `Converges` says that this ends.
`CacheFresh` leaves out the answers that were computed before a `Reset` and added
after it: they stay for a day. `RefreshFollows` leaves out a failed refresh, since
the flag it sets again is read by nobody until the next event. `WatchFollows`
leaves out dropped notifications, and users whose access changes: a type that one
goroutine announced and the other never saw is not removed by the other.
`SessionEnds` and `HandlerReturns` leave out a session in which a stream waits
without a channel (`NilWaits`), the subject of finding 3. `WatchedNamespaces` says
what is left of the intent where copiers race for the namespace of their request:
with two partitions both may watch the same namespace. `AccessChangeEnds` counts
changes from the moment `WatchRefresh` reads the access, which is after the
partitions were computed from the schema. `AnsweredOnce` leaves out a failure of
`Schemas`, after which `common` goes on, and `StatusTruthful` the errors of
`common`, which are sent with status 200, and a delete with parameters that cannot
be decoded, which does nothing and is answered with 200.

## Findings

1. `ParallelLister_Revision`: `parallel.go:129` shadows `state`, so the revision
   set by the first partition reaches no other; every partition of a first page
   takes all three tickets, and they are listed one after the other, each at its
   own revision.
2. `ParallelLister_Order`: a failing worker gives its turn away before the
   context is cancelled, and a cancelled context lets everyone through; later
   partitions are then inserted before earlier ones, and two workers may use
   `capacity` at once (`panicked` in the model).
3. `WatchSession_NilChannel`: `watcher.go:91` waits for the request's context.
   Handler and stream wait for each other after a write error.
4. `AccessStore_RoleBindings`: `policy_rule_index.go:48` registers the index of
   RoleBindings under the other key; listing them always fails, and RoleBindings
   grant nothing. Namespaced accesses therefore reach `AccessSet` and
   `RBACPartitions` only from an `AccessSetLookup` supplied by the embedding
   program (`server.go:46`); these modules do not depend on where they come from.

Met while modelling, without a run of their own: a token whose partition is gone
restarts at the first one; the deferred `stop` of an old stream may cancel a new
subscription to its key; `wg.Add` may run while `Close` waits; `p.err = eg.Wait()`
replaces an error of `Acquire`; `Namespaces()` ignores rules with the verb `*`. In the request pipeline: after a
failure of `Schemas` a request whose path has a name or namespace panics
(`handlers.go:22`); a PATCH has no object to take a namespace from
(`update.go:21`, `proxy_store.go:450`), so objects in a namespace cannot be patched;
a PUT takes name and namespace from the body and not from the path
(`proxy_store.go:450`, `502`); a new object without a name gets `generatedName`
instead of `generateName` (`proxy_store.go:418`); which requests have a body is
decided by the HTTP method, and what is done by the overridden one
(`read_input.go:24`); a list with parameters that cannot be decoded is empty
(`proxy_store.go:250`); a condition on the error handler is inverted
(`parse.go:112`); after a delete the lookup may show an object somebody has created
anew.

## Proofs

Every invariant and every safety property that a passing run checks is also proved,
for all values of the constants that the named assumptions allow.

**`ParallelListerProofs`**: any number and sizes of partitions, any limits and
chunk, any concurrency of at least 3, any number of failures and of requests that
the client abandons. Two inductive invariants:

* `IInv` gives `TypeCorrect`, `TurnsExclude` and `PagesWithinLimit`.
  `TurnExclusive` is not inductive: that a worker has its turn says nothing about
  its predecessors unless one knows that a closed `next` means that *all* workers
  before it are done. `IInv` adds where the feeder is (`FeederInv`), that a worker
  past its turn has only finished predecessors (`TurnInv`), that batches and
  cursors are intervals (`CursorInv`), and the account of objects sent against
  `capacity` (`AccountInv`).
* `PageInv` gives `PrefixesDelivered`, `TokensExact` and `CompleteWhenFinished`.
  What was delivered says nothing about what a worker in the middle of a round
  will send, so the invariant assigns to each partition a position, `Reached`,
  read off the control point of its worker: its cursor, the start of its batch,
  the end of it once sent, the cut, or what the saved state says. `SentInv` says
  that delivered and sent objects are in order and exactly those before the
  positions (`Covers`), and that a partition is begun only when the ones before it
  are finished (`Frontier`). That the position of a worker that sends is where
  its batch starts needs the token to point inside the list it was cut from
  (`TokenInv`, `ValidToken`), an offset to be met only before anything was sent
  (`RoundInv`), a batch to be what its List call returned (`BatchInv`), a saved
  state to name a worker that is done (`SavedInv`), and the feeder to stop early
  only when the limit is used up (`LaunchedInv`). The argument is then that each
  send appends an interval at the only position that may move (`CoversAppend`),
  and that no other step moves a position.

**`WatchSessionProofs`**: any keys, any number of subscriptions, any capacity. Types,
no send on the closed channel, streams that stay cancellable (`StreamsRegistered`),
keys that are removed (`KeysRemoved`), one stop for each watch. The invariant adds
that the WaitGroup counts exactly the streams that run (`WaitGroupInv`) and who
holds the mutex at which point (`MutexInv`): without it a key could change between
the two steps of `stop`.

**`AccessSetProofs`**: any rules, any number of bindings and groups. `Grants` answers
exactly what the bindings allow (`GrantsCorrect`), and the whole-cluster question is
answered yes only when everything is allowed (`AllCorrect`). The types of access
sets are proved there too and not checked by a run. `GrantsExact` says what a set
answers, not what it holds; the invariant says that under every key it holds the
accesses of the bindings read, and lemmas relate the eight lookups to the wildcards
of a rule.

**`RBACPartitionsProofs`** takes that invariant over: the steps are those of
`AccessSet`, and partitions are a function of the set. `SoundPartitions`: what is
listed with the administrator's client is allowed to the user and within the
request. `CompletePartitions`: nothing listable is missed, and the partitions
listed as the user are authorised. The lemmas follow the code: from rules to the
accesses recorded on a schema, to `Granted`, to the partitions.

**`AccessStoreProofs`**: any callers, users, groups, roles and bindings, any capacity.
`FreshAnswers` proves `FreshWhenClean`. What a call has read half of is neither its
key nor its access, so the invariant says that the bindings hashed so far and those
that remain to be listed or hashed are together the user's (`KeySoFar`, and
`AccessSoFar` for the rules), and of an entry that its key alone determines its
access (`EntryOK`): this is what lets another user's call be answered from it.

**`SchemaCollectionProofs`**: any finite set of types, any numbers of goroutines,
requests and failures. The invariant adds that whoever refreshes holds the mutex
(`LockInv`, with `RefreshExclusive`), that each goroutine's copy of discovery has one
type for each versioned ID (`DiscoveryInv`), and that an answer under way to the cache
is that of the present schemas unless a `Reset` came between (`CacheInv`).
`TemplatesRun` counts templates that failed to start; `PreferredVersions` needs
lemmas about the filter of versions, whatever order the map is walked in.

**`WatchPipelineProofs`**: any partitions, subscriptions and events. `Refinement` shows
step by step that the pipeline implements `StoreWatch!Safe`, with types and
`NamespacesWatched`. The invariant says which events of a partition are in whose
hand (`Queue`): those owed are those received, followed by the copier's, the filter's
and the lister's, if the subscriber may see the latter. `Order` has which goroutine
of a partition may have ended before which, without which a lister could leave an
event behind in an ended filter; `ResponseInv` that the response is open until
the last copier is done, and `NamespaceInv` what the copiers may find in the
namespace they share.

**`RequestPipelineProofs`**: any clients, users, requests, objects and fields. The
status tells the truth, every request is answered once, changes are made as their
user and with the token, no update is lost and only edited fields change. The
invariant says of each control point what was applied and answered there (`ClientOK`),
and that what a client has seen of a version is still what Kubernetes has under that
version (`SeenOK`). `OnlyTheEdit` rests on the lemma `RoundTrip`: moving fields to
underscores and back is the identity for fields as Kubernetes has them.

The assumptions are the ones named in the modules. Bounds are naturals; the wildcard
is no name; "" is no namespace (`NoNamespaceAssumption`); the concurrency is at least
the three tickets a worker may take; there are finitely many types; a passthrough is
the only partition of its watch, since `All` returns nothing else with it
(`PassthroughAssumption`, `rbac_store.go:85`). `NativeAssumption` says that no field
of an object in Kubernetes starts with an underscore. `RequestsAssumption` names a
bound: of the requests to the reverse proxy only deletes are modelled.

Only model-checked is what needs fairness, which is out of the prover's reach:
`PageCloses`, `SessionEnds`, `HandlerReturns`, `Converges`, `RefreshFollows`,
`WatchFollows`, `EndsTogether` (with `StoreWatch!Closes`), `NothingLeaks` and
`AccessChangeEnds`. The proofs about order avoid counting: properties are stated
with positions and intervals, because what a recursive definition or a cardinality
computes would need induction over data.

## Plan

Done: `ParallelLister`, `WatchSession`, `AccessSet`, `RBACPartitions`,
`AccessStore`, `SchemaCollection`, `StoreWatch`, `WatchPipeline`, `RequestPipeline`,
and the proofs of every safety property. To come:

1. Safety facts the liveness properties rest on, as theorems: while a list is not
   closed some goroutine can go on, tickets add up to the concurrency.
2. What holds of a list after a failure: an error is reported whenever something
   was not sent.
3. The flag of the schema controller: an event that no refresh has discovered has a
   goroutine that will.

## Not modelled

Schema conversion (beyond the groups that discovery cannot read), formatters,
summaries, writers (beyond that they answer), URL building, types and attributes
are data transformations without state: what they compute is best tested on
examples. Server assembly, command line, the construction of clients and of the
webhook's configuration are wiring. Of the proxy store the conversion of tables is
left out; of the request pipeline the response formats, request modifiers and
handlers that an embedding program supplies, and the requests to stores of fixed
data (API root, API groups, schemas), which change nothing.
