----------------------- MODULE SchemaCollectionProofs -----------------------
(***************************************************************************)
(* Proofs about SchemaCollection, for any types and templates, any number   *)
(* of changes of the API, of failures, of requests and of goroutines.       *)
(*                                                                          *)
(* The state is only as good as the refresh that made it: the invariant     *)
(* follows what discovery found through the goroutine that holds the mutex  *)
(* into the schemas, the templates and the answers that are cached.         *)
(***************************************************************************)
EXTENDS SchemaCollection, FiniteSetTheorems, TLAPS

Refreshing(pc) == pc \in {"discover", "reset", "notify"}

(* One goroutine at a time is between needToSync and the end of refreshAll: *)
(* nobody else calls Reset (schemas.go 134-175).                            *)
OneRefresh ==
    \A g, h \in Refreshers :
        Refreshing(refresher[g].pc) /\ Refreshing(refresher[h].pc) => g = h

RefresherState ==
    [pc : {"off", "asleep", "discover", "reset", "notify", "failed", "gone"},
     types : SUBSET Types]

WatcherState == [pc : {"new", "first", "loop", "send"}, types : SUBSET Types]

StateTypes ==
    /\ TypeOK
    /\ refresher \in [Refreshers -> RefresherState]
    /\ watcher \in [Notifiers -> WatcherState]
    /\ userAccess \in AccessIDs

(* What is refreshing holds the mutex.                                      *)
LockInv == OneRefresh /\ \A g \in Refreshers : Refreshing(refresher[g].pc) => lock

(* Discovery reports one type for each versioned ID.                        *)
OneOfEachID(S) == \A t, u \in S : t.id = u.id => t = u

DiscoveryInv ==
    /\ OneOfEachID(world)
    /\ \A g \in Refreshers : OneOfEachID(refresher[g].types)

Served == TemplatesFollow /\ PreferredServed

(* An answer that is about to be cached is that of the present schemas, if  *)
(* there was no Reset since it was computed.                                *)
CacheInv ==
    /\ CacheFresh
    /\ \A c \in Callers :
         caller[c].pc = "add" /\ caller[c].clean => caller[c].types = Visible(caller[c].access)

IInv == StateTypes /\ LockInv /\ DiscoveryInv /\ Served /\ CacheInv

-----------------------------------------------------------------------------
(* Lemmas about the operators.                                              *)

LEMMA FiniteSubset ==
    ASSUME NEW S \in SUBSET Types
    PROVE  IsFiniteSet(S) /\ Cardinality(S) \in Nat
BY FS_Subset, FS_CardinalityType, TypesAssumption

(* There are finitely many kinds.                                           *)
LEMMA FiniteKinds ==
    ASSUME NEW S \in SUBSET Types, NEW bad \in SUBSET Kinds(S)
    PROVE  IsFiniteSet(bad) /\ Cardinality(bad) \in Nat
<1> DEFINE f == [t \in S |-> t.kind]
<1>1. f \in Surjection(S, Kinds(S))
  BY DEF Surjection, Kinds
<1>2. IsFiniteSet(Kinds(S))
  <2> HIDE DEF f
  <2> QED BY <1>1, FiniteSubset, FS_Surjection
<1> QED BY <1>2, FS_Subset, FS_CardinalityType

(* A preferred version that may be listed is kept, and replaces all others. *)
LEMMA PreferredKept ==
    ASSUME NEW S \in SUBSET Types, OneOfEachID(S), NEW F \in FilteredSchemas(S),
           NEW p \in S \ Denied,
           \A t \in S : t.kind = p.kind => t.listable /\ t.preferred = p.id
    PROVE  p \in F
<1>1. p \in Kept(S)
  BY DEF Kept, preferredTypeExists
<1>2. ASSUME NEW t \in Kept(S), t.kind = p.kind PROVE t = p
  <2>1. t \in S /\ t.listable /\ t.preferred = p.id
    BY <1>2 DEF Kept
  <2>2. ~preferredTypeExists(t, S)
    BY <1>2, <2>1 DEF Kept
  <2>3. t.id = p.id
    BY <2>1, <2>2 DEF preferredTypeExists
  <2> QED BY <2>1, <2>3 DEF OneOfEachID
<1>3. PICK t \in F : {u \in F : u.kind = p.kind} = {t}
  BY <1>1 DEF FilteredSchemas, Kinds
<1>4. t.kind = p.kind /\ t \in Kept(S)
  BY <1>3 DEF FilteredSchemas
<1> QED BY <1>2, <1>4

LEMMA FilteredTypes ==
    ASSUME NEW S \in SUBSET Types, NEW F \in FilteredSchemas(S)
    PROVE  F \in SUBSET Types /\ \A t, u \in F : t.kind = u.kind => t = u
<1>1. F \subseteq Kept(S)
  BY DEF FilteredSchemas
<1>2. F \subseteq Types
  BY <1>1 DEF Kept
<1>3. ASSUME NEW t \in F, NEW u \in F, t.kind = u.kind PROVE t = u
  <2>1. t.kind \in Kinds(Kept(S))
    BY <1>1 DEF Kinds
  <2>2. PICK x \in F : {v \in F : v.kind = t.kind} = {x}
    BY <2>1 DEF FilteredSchemas
  <2> QED BY <2>2, <1>3
<1> QED BY <1>2, <1>3

(* The answer of a caller that finds one in the cache is an entry.          *)
LEMMA CachedEntry ==
    ASSUME NEW access, Cached(access) # {}
    PROVE  LET e == CHOOSE e \in Cached(access) : TRUE IN e \in cache
BY DEF Cached

LEMMA FirstAccessType == FirstAccess \in AccessIDs
BY TypesAssumption DEF FirstAccess

LEMMA IdleType == Idle \in CallerState /\ Idle.pc = "idle"
BY FirstAccessType DEF Idle, CallerState

-----------------------------------------------------------------------------
(* Types.                                                                   *)

LEMMA InitTypes == Init => StateTypes
<1> SUFFICES ASSUME Init PROVE StateTypes
  OBVIOUS
<1>1. caller \in [Callers -> CallerState]
  BY IdleType DEF Init
<1>2. refresher \in [Refreshers -> RefresherState]
  BY DEF Init, Off, RefresherState
<1>3. watcher \in [Notifiers -> WatcherState]
  BY DEF Init, WatcherState
<1>4. \A g \in Refreshers : refresher[g].types \subseteq Types
  BY DEF Init, Off
<1>5. /\ events \in Nat /\ changes \in 0..MaxChanges /\ failures \in 0..MaxFailures
  BY BoundsAssumption DEF Init
<1>6. /\ world \subseteq Types
      /\ toSync \in BOOLEAN /\ lock \in BOOLEAN /\ stale \in BOOLEAN
  BY DEF Init
<1>7. /\ schemas \subseteq Types /\ \A t, u \in schemas : t.kind = u.kind => t = u
      /\ running \subseteq Templated /\ found \subseteq Types /\ view \subseteq Types
      /\ cache \subseteq [access : AccessIDs, types : SUBSET Types, clean : BOOLEAN]
  BY DEF Init
<1>8. userAccess \in AccessIDs
  BY FirstAccessType DEF Init
<1> QED BY <1>1, <1>2, <1>3, <1>4, <1>5, <1>6, <1>7, <1>8 DEF StateTypes, TypeOK

(* A call of Schemas, or a step of one, keeps the types.                    *)
LEMMA SchemasTypes ==
    ASSUME StateTypes, NEW c \in Callers, NEW access \in AccessIDs, Schemas(c, access)
    PROVE  /\ caller' \in [Callers -> CallerState]
           /\ UNCHANGED <<schemas, running, found, cache>>
<1>1. CASE Cached(access) # {}
  <2> DEFINE e == CHOOSE e \in Cached(access) : TRUE
             new == [pc |-> "done", access |-> access, types |-> e.types, clean |-> e.clean]
  <2>1. e \in cache
    BY <1>1, CachedEntry
  <2> HIDE DEF e
  <2>2. new \in CallerState
    BY <2>1 DEF StateTypes, TypeOK, CallerState
  <2>3. caller' = [caller EXCEPT ![c] = new]
    BY <1>1 DEF Schemas, e
  <2> HIDE DEF new
  <2> QED BY <2>2, <2>3 DEF Schemas, StateTypes, TypeOK
<1>2. CASE Cached(access) = {}
  <2> DEFINE new == [pc |-> "miss", access |-> access, types |-> {}, clean |-> TRUE]
  <2>1. new \in CallerState
    BY DEF CallerState
  <2>2. caller' = [caller EXCEPT ![c] = new]
    BY <1>2 DEF Schemas
  <2> HIDE DEF new
  <2> QED BY <2>1, <2>2 DEF Schemas, StateTypes, TypeOK
<1> QED BY <1>1, <1>2

LEMMA TakeAnswerTypes ==
    ASSUME StateTypes, NEW n \in Notifiers, TakeAnswer(n)
    PROVE  /\ caller' \in [Callers -> CallerState]
           /\ UNCHANGED <<schemas, running, found, cache>>
<1>1. caller' = [caller EXCEPT ![n] = Idle]
  BY DEF TakeAnswer
<1> QED BY <1>1, IdleType DEF StateTypes, TypeOK, TakeAnswer, Callers

LEMMA WatchStepTypes ==
    ASSUME StateTypes, NEW n \in Notifiers, NEW new \in WatcherState, WatchStep(n, new)
    PROVE  /\ watcher' \in [Notifiers -> WatcherState]
           /\ UNCHANGED <<worldVars, controllerVars, userAccess>>
BY DEF WatchStep, StateTypes

(* A goroutine of a refresh goes on.                                        *)
LEMMA RefresherTypes ==
    ASSUME StateTypes, NEW g \in Refreshers, NEW new \in RefresherState,
           refresher' = [refresher EXCEPT ![g] = new]
    PROVE  /\ refresher' \in [Refreshers -> RefresherState]
           /\ \A h \in Refreshers : refresher'[h].types \subseteq Types
<1>1. refresher' \in [Refreshers -> RefresherState]
  BY DEF StateTypes
<1>2. \A h \in Refreshers : refresher'[h] \in RefresherState
  BY <1>1
<1> QED BY <1>1, <1>2 DEF RefresherState

LEMMA RefresherPcTypes ==
    ASSUME StateTypes, NEW g \in Refreshers,
           NEW pc \in {"off", "asleep", "discover", "reset", "notify", "failed", "gone"},
           refresher' = [refresher EXCEPT ![g].pc = pc]
    PROVE  /\ refresher' \in [Refreshers -> RefresherState]
           /\ \A h \in Refreshers : refresher'[h].types \subseteq Types
<1>1. refresher[g] \in RefresherState
  BY DEF StateTypes
<1>2. [refresher[g] EXCEPT !.pc = pc] \in RefresherState
  BY <1>1 DEF RefresherState
<1>3. refresher' = [refresher EXCEPT ![g] = [refresher[g] EXCEPT !.pc = pc]]
  OBVIOUS
<1> QED BY <1>2, <1>3, RefresherTypes

LEMMA NextTypes ==
    ASSUME StateTypes, [Next]_vars
    PROVE  StateTypes'
<1> USE DEF worldVars, controllerVars, collectionVars, watchVars
<1>1. ASSUME NEW t \in Types, changeAPI(t) PROVE StateTypes'
  <2>1. world' \subseteq Types
    BY <1>1 DEF changeAPI, StateTypes, TypeOK
  <2>2. changes' \in 0..MaxChanges /\ events' \in Nat
    BY <1>1, BoundsAssumption DEF changeAPI, StateTypes, TypeOK
  <2> QED BY <1>1, <2>1, <2>2 DEF changeAPI, StateTypes, TypeOK
<1>2. CASE queueRefresh
  <2>1. PICK g \in Refreshers : refresher' = [refresher EXCEPT ![g].pc = "asleep"]
    BY <1>2 DEF queueRefresh
  <2>2. /\ refresher' \in [Refreshers -> RefresherState]
        /\ \A h \in Refreshers : refresher'[h].types \subseteq Types
    BY <2>1, RefresherPcTypes
  <2> QED BY <1>2, <2>2 DEF queueRefresh, StateTypes, TypeOK
<1>3. ASSUME NEW g \in Refreshers, needToSync(g) PROVE StateTypes'
  <2>1. /\ refresher' \in [Refreshers -> RefresherState]
        /\ \A h \in Refreshers : refresher'[h].types \subseteq Types
    BY <1>3, RefresherPcTypes DEF needToSync
  <2> QED BY <1>3, <2>1 DEF needToSync, StateTypes, TypeOK
<1>4. ASSUME NEW g \in Refreshers, discover(g) PROVE StateTypes'
  <2>1. PICK missing \in SUBSET world :
          /\ failures + Cardinality(missing) <= MaxFailures
          /\ failures' = failures + Cardinality(missing)
          /\ stale' = (missing # {})
          /\ refresher' = [refresher EXCEPT ![g] =
                             [pc |-> "reset", types |-> world \ missing]]
    BY <1>4 DEF discover
  <2>2. missing \in SUBSET Types /\ world \in SUBSET Types
    BY DEF StateTypes, TypeOK
  <2>3. Cardinality(missing) \in Nat
    BY <2>2, FiniteSubset
  <2>4. [pc |-> "reset", types |-> world \ missing] \in RefresherState
    BY <2>2 DEF RefresherState
  <2>5. /\ refresher' \in [Refreshers -> RefresherState]
        /\ \A h \in Refreshers : refresher'[h].types \subseteq Types
    BY <2>1, <2>4, RefresherTypes
  <2>6. failures' \in 0..MaxFailures
    BY <2>1, <2>3, BoundsAssumption DEF StateTypes, TypeOK
  <2> QED BY <1>4, <2>1, <2>5, <2>6 DEF discover, StateTypes, TypeOK
<1>5. ASSUME NEW g \in Refreshers, discoverFails(g) PROVE StateTypes'
  <2>1. /\ refresher' \in [Refreshers -> RefresherState]
        /\ \A h \in Refreshers : refresher'[h].types \subseteq Types
    BY <1>5, RefresherPcTypes DEF discoverFails
  <2>2. failures' \in 0..MaxFailures
    BY <1>5, BoundsAssumption DEF discoverFails, StateTypes, TypeOK
  <2> QED BY <1>5, <2>1, <2>2 DEF discoverFails, StateTypes, TypeOK
<1>6. ASSUME NEW g \in Refreshers, refreshFailed(g) PROVE StateTypes'
  <2>1. /\ refresher' \in [Refreshers -> RefresherState]
        /\ \A h \in Refreshers : refresher'[h].types \subseteq Types
    BY <1>6, RefresherPcTypes DEF refreshFailed
  <2> QED BY <1>6, <2>1 DEF refreshFailed, StateTypes, TypeOK
<1>7. ASSUME NEW g \in Refreshers, Reset(g) PROVE StateTypes'
  <2>1. refresher[g].types \in SUBSET Types
    BY DEF StateTypes, TypeOK
  <2>2. PICK F \in FilteredSchemas(refresher[g].types) : startStopTemplate(F) /\ schemas' = F
    BY <1>7 DEF Reset
  <2>3. F \in SUBSET Types /\ \A t, u \in F : t.kind = u.kind => t = u
    BY <2>1, FilteredTypes
  <2>4. PICK bad \in SUBSET ((Templated \cap Kinds(F)) \ running) :
          /\ failures + Cardinality(bad) <= MaxFailures
          /\ failures' = failures + Cardinality(bad)
          /\ running' = (running \cup ((Templated \cap Kinds(F)) \ bad)) \cap Kinds(F)
    BY <2>2 DEF startStopTemplate
  <2>5. failures' \in 0..MaxFailures
    <3>1. bad \in SUBSET Kinds(F)
      BY <2>4
    <3>2. Cardinality(bad) \in Nat
      BY <2>3, <3>1, FiniteKinds
    <3> QED BY <2>4, <3>2, BoundsAssumption DEF StateTypes, TypeOK
  <2>6. running' \subseteq Templated
    BY <2>4 DEF StateTypes, TypeOK
  <2>7. /\ refresher' \in [Refreshers -> RefresherState]
        /\ \A h \in Refreshers : refresher'[h].types \subseteq Types
    BY <1>7, RefresherPcTypes DEF Reset
  <2>8. caller' \in [Callers -> CallerState]
    <3>1. ASSUME NEW c \in Callers PROVE [caller[c] EXCEPT !.clean = FALSE] \in CallerState
      BY DEF StateTypes, TypeOK, CallerState
    <3> QED BY <1>7, <3>1 DEF Reset, StateTypes, TypeOK
  <2> QED BY <1>7, <2>1, <2>2, <2>3, <2>5, <2>6, <2>7, <2>8
          DEF Reset, Cleared, StateTypes, TypeOK
<1>8. ASSUME NEW g \in Refreshers, notify(g) PROVE StateTypes'
  <2>1. [pc |-> "gone", types |-> {}] \in RefresherState
    BY DEF RefresherState
  <2>2. /\ refresher' \in [Refreshers -> RefresherState]
        /\ \A h \in Refreshers : refresher'[h].types \subseteq Types
    BY <1>8, <2>1, RefresherTypes DEF notify
  <2> QED BY <1>8, <2>2 DEF notify, StateTypes, TypeOK
<1>9. ASSUME NEW c \in Callers, schemasForSubject(c), UNCHANGED <<worldVars, controllerVars, watchVars>>
      PROVE  StateTypes'
  <2>1. caller[c] \in CallerState
    BY DEF StateTypes, TypeOK
  <2>2. [caller[c] EXCEPT !.pc = "add", !.types = Visible(caller[c].access)] \in CallerState
    BY <2>1 DEF CallerState, Visible, StateTypes, TypeOK
  <2>3. caller' = [caller EXCEPT ![c] =
                     [caller[c] EXCEPT !.pc = "add", !.types = Visible(caller[c].access)]]
    BY <1>9 DEF schemasForSubject, StateTypes, TypeOK
  <2>4. caller' \in [Callers -> CallerState]
    BY <2>2, <2>3 DEF StateTypes, TypeOK
  <2> QED BY <1>9, <2>4 DEF schemasForSubject, StateTypes, TypeOK
<1>10. ASSUME NEW c \in Callers, cacheAdd(c), UNCHANGED <<worldVars, controllerVars, watchVars>>
       PROVE  StateTypes'
  <2>1. caller[c] \in CallerState
    BY DEF StateTypes, TypeOK
  <2>2. [caller[c] EXCEPT !.pc = "done"] \in CallerState
    BY <2>1 DEF CallerState
  <2>3. caller' \in [Callers -> CallerState]
    BY <1>10, <2>2, IdleType DEF cacheAdd, StateTypes, TypeOK
  <2>4. cache' \subseteq [access : AccessIDs, types : SUBSET Types, clean : BOOLEAN]
    BY <1>10, <2>1 DEF cacheAdd, CallerState, StateTypes, TypeOK
  <2> QED BY <1>10, <2>3, <2>4 DEF cacheAdd, StateTypes, TypeOK
<1>11. ASSUME NEW c \in Requests, request(c) PROVE StateTypes'
  <2>1. PICK access \in AccessIDs : Schemas(c, access)
    BY <1>11 DEF request
  <2>2. /\ caller' \in [Callers -> CallerState]
        /\ UNCHANGED <<schemas, running, found, cache>>
    BY <2>1, SchemasTypes DEF Callers
  <2> QED BY <1>11, <2>2 DEF request, StateTypes, TypeOK
<1>12. ASSUME NEW e \in cache, expire(e) PROVE StateTypes'
  BY <1>12 DEF expire, StateTypes, TypeOK
<1>13. CASE grantUser
  BY <1>13 DEF grantUser, StateTypes, TypeOK
<1>14. ASSUME NEW n \in Notifiers, watchBegins(n) PROVE StateTypes'
  <2>1. [watcher[n] EXCEPT !.pc = "first"] \in WatcherState
    BY DEF WatcherState, StateTypes
  <2>2. /\ watcher' \in [Notifiers -> WatcherState]
        /\ UNCHANGED <<worldVars, controllerVars, userAccess>>
    BY <1>14, <2>1, WatchStepTypes DEF watchBegins
  <2>3. /\ caller' \in [Callers -> CallerState]
        /\ UNCHANGED <<schemas, running, found, cache>>
    BY <1>14, SchemasTypes DEF watchBegins, Callers, StateTypes
  <2> QED BY <1>14, <2>2, <2>3 DEF watchBegins, StateTypes, TypeOK
<1>15. ASSUME NEW n \in Notifiers, watchFirst(n) PROVE StateTypes'
  <2>1. caller[n].types \in SUBSET Types
    BY DEF Callers, CallerState, StateTypes, TypeOK
  <2>2. [pc |-> "loop", types |-> caller[n].types] \in WatcherState
    BY <2>1 DEF WatcherState
  <2>3. /\ watcher' \in [Notifiers -> WatcherState]
        /\ UNCHANGED <<worldVars, controllerVars, userAccess>>
    BY <1>15, <2>2, WatchStepTypes DEF watchFirst
  <2>4. /\ caller' \in [Callers -> CallerState]
        /\ UNCHANGED <<schemas, running, found, cache>>
    BY <1>15, TakeAnswerTypes DEF watchFirst
  <2> QED BY <1>15, <2>1, <2>3, <2>4 DEF watchFirst, StateTypes, TypeOK
<1>16. ASSUME NEW n \in Notifiers, sendSchemas(n) PROVE StateTypes'
  <2>1. caller[n].types \in SUBSET Types
    BY DEF Callers, CallerState, StateTypes, TypeOK
  <2>2. [pc |-> "loop", types |-> caller[n].types] \in WatcherState
    BY <2>1 DEF WatcherState
  <2>3. /\ watcher' \in [Notifiers -> WatcherState]
        /\ UNCHANGED <<worldVars, controllerVars, userAccess>>
    BY <1>16, <2>2, WatchStepTypes DEF sendSchemas
  <2>4. /\ caller' \in [Callers -> CallerState]
        /\ UNCHANGED <<schemas, running, found, cache>>
    BY <1>16, TakeAnswerTypes DEF sendSchemas
  <2>5. view' \subseteq Types
    BY <1>16, <2>1 DEF sendSchemas, Told, StateTypes, TypeOK
  <2> QED BY <1>16, <2>3, <2>4, <2>5 DEF sendSchemas, StateTypes, TypeOK
<1>17. CASE watchSignalled
  <2>1. [watcher["onSchema"] EXCEPT !.pc = "send"] \in WatcherState /\ "onSchema" \in Notifiers
    BY <1>17 DEF watchSignalled, WatcherState, StateTypes
  <2>2. /\ watcher' \in [Notifiers -> WatcherState]
        /\ UNCHANGED <<worldVars, controllerVars, userAccess>>
    BY <1>17, <2>1, WatchStepTypes DEF watchSignalled
  <2>3. /\ caller' \in [Callers -> CallerState]
        /\ UNCHANGED <<schemas, running, found, cache>>
    BY <1>17, <2>1, SchemasTypes DEF watchSignalled, Callers, StateTypes
  <2> QED BY <1>17, <2>2, <2>3 DEF watchSignalled, StateTypes, TypeOK
<1>18. CASE userChangeNotify
  <2>1. [watcher["onUser"] EXCEPT !.pc = "send"] \in WatcherState /\ "onUser" \in Notifiers
    BY <1>18 DEF userChangeNotify, WatcherState, StateTypes
  <2>2. /\ watcher' \in [Notifiers -> WatcherState]
        /\ UNCHANGED <<worldVars, controllerVars, userAccess>>
    BY <1>18, <2>1, WatchStepTypes DEF userChangeNotify
  <2>3. /\ caller' \in [Callers -> CallerState]
        /\ UNCHANGED <<schemas, running, found, cache>>
    BY <1>18, <2>1, SchemasTypes DEF userChangeNotify, Callers, StateTypes
  <2> QED BY <1>18, <2>2, <2>3 DEF userChangeNotify, StateTypes, TypeOK
<1>19. CASE UNCHANGED vars
  BY <1>19 DEF vars, StateTypes, TypeOK
<1> QED
  BY <1>1, <1>2, <1>3, <1>4, <1>5, <1>6, <1>7, <1>8, <1>9, <1>10, <1>11, <1>12, <1>13,
     <1>14, <1>15, <1>16, <1>17, <1>18, <1>19
  DEF Next, refreshAll, collectionStep, watch

-----------------------------------------------------------------------------
(* Which steps change what.                                                 *)

LEMMA ControllerFrame ==
    ASSUME [Next]_vars
    PROVE  \/ queueRefresh
           \/ \E g \in Refreshers : refreshAll(g)
           \/ \E t \in Types : changeAPI(t)
           \/ UNCHANGED <<worldVars, controllerVars>>
<1>1. ASSUME NEW n \in Notifiers, watch(n) PROVE UNCHANGED <<worldVars, controllerVars>>
  BY <1>1 DEF watch, watchBegins, watchFirst, sendSchemas, WatchStep
<1>2. CASE watchSignalled \/ userChangeNotify
  BY <1>2 DEF watchSignalled, userChangeNotify, WatchStep
<1>3. CASE grantUser \/ UNCHANGED vars
  BY <1>3 DEF grantUser, vars
<1>4. ASSUME NEW e \in cache, expire(e) PROVE UNCHANGED <<worldVars, controllerVars>>
  BY <1>4 DEF expire
<1>5. ASSUME NEW c \in Requests, request(c) PROVE UNCHANGED <<worldVars, controllerVars>>
  BY <1>5 DEF request
<1>6. ASSUME NEW c \in Callers, collectionStep(c) PROVE UNCHANGED <<worldVars, controllerVars>>
  BY <1>6 DEF collectionStep
<1> QED BY <1>1, <1>2, <1>3, <1>4, <1>5, <1>6 DEF Next

(* A call of Schemas and its steps leave the schemas alone, and so does     *)
(* every step of a refresh but Reset.                                       *)
LEMMA CollectionFrame ==
    ASSUME [Next]_vars
    PROVE  \/ \E g \in Refreshers : Reset(g)
           \/ UNCHANGED <<schemas, running, found>>
<1> USE DEF worldVars, controllerVars, collectionVars
<1>1. ASSUME NEW n \in Notifiers, watch(n) PROVE UNCHANGED <<schemas, running, found>>
  BY <1>1 DEF watch, watchBegins, watchFirst, sendSchemas, Schemas, TakeAnswer
<1>2. CASE watchSignalled \/ userChangeNotify
  BY <1>2 DEF watchSignalled, userChangeNotify, Schemas
<1>3. CASE grantUser \/ UNCHANGED vars
  BY <1>3 DEF grantUser, vars
<1>4. ASSUME NEW e \in cache, expire(e) PROVE UNCHANGED <<schemas, running, found>>
  BY <1>4 DEF expire
<1>5. ASSUME NEW c \in Requests, request(c) PROVE UNCHANGED <<schemas, running, found>>
  BY <1>5 DEF request, Schemas
<1>6. ASSUME NEW c \in Callers, collectionStep(c) PROVE UNCHANGED <<schemas, running, found>>
  BY <1>6 DEF collectionStep, schemasForSubject, cacheAdd
<1>7. ASSUME NEW g \in Refreshers, refreshAll(g)
      PROVE  Reset(g) \/ UNCHANGED <<schemas, running, found>>
  BY <1>7 DEF refreshAll, needToSync, discover, discoverFails, refreshFailed, notify
<1>8. CASE queueRefresh \/ \E t \in Types : changeAPI(t)
  BY <1>8 DEF queueRefresh, changeAPI
<1> QED BY <1>1, <1>2, <1>3, <1>4, <1>5, <1>6, <1>7, <1>8 DEF Next

(* Failures are only counted up.                                            *)
LEMMA FailuresGrow ==
    ASSUME StateTypes, [Next]_vars, ~ \E g \in Refreshers : Reset(g)
    PROVE  failures' >= failures
<1>1. failures \in Nat /\ world \in SUBSET Types
  BY BoundsAssumption DEF StateTypes, TypeOK
<1>2. ASSUME NEW g \in Refreshers, discover(g) PROVE failures' >= failures
  <2>1. PICK missing \in SUBSET world : failures' = failures + Cardinality(missing)
    BY <1>2 DEF discover
  <2>2. Cardinality(missing) \in Nat
    BY <1>1, FiniteSubset
  <2> QED BY <1>1, <2>1, <2>2
<1>3. ASSUME NEW g \in Refreshers, discoverFails(g) PROVE failures' >= failures
  BY <1>1, <1>3 DEF discoverFails
<1>4. ASSUME NEW g \in Refreshers, needToSync(g) \/ refreshFailed(g) \/ notify(g)
      PROVE  failures' >= failures
  BY <1>1, <1>4 DEF needToSync, refreshFailed, notify
<1>5. CASE queueRefresh \/ (\E t \in Types : changeAPI(t)) \/ UNCHANGED <<worldVars, controllerVars>>
  BY <1>1, <1>5 DEF queueRefresh, changeAPI, controllerVars
<1> QED BY <1>2, <1>3, <1>4, <1>5, ControllerFrame DEF refreshAll

-----------------------------------------------------------------------------
(* The mutex and what discovery reports.                                    *)

LEMMA NextLock ==
    ASSUME StateTypes, LockInv, [Next]_vars
    PROVE  LockInv'
<1> USE DEF LockInv, OneRefresh, Refreshing
<1>1. refresher \in [Refreshers -> RefresherState]
  BY DEF StateTypes
<1>2. CASE queueRefresh
  BY <1>1, <1>2 DEF queueRefresh
<1>3. ASSUME NEW g \in Refreshers, needToSync(g) PROVE LockInv'
  <2>1. \A h \in Refreshers : ~Refreshing(refresher[h].pc)
    BY <1>3 DEF needToSync
  <2>2. PICK pc : refresher' = [refresher EXCEPT ![g].pc = pc] /\ (Refreshing(pc) => lock')
    <3>1. CASE toSync
      <4>1. refresher' = [refresher EXCEPT ![g].pc = "discover"] /\ lock'
        BY <1>3, <3>1, Zenon DEF needToSync
      <4> QED BY <4>1
    <3>2. CASE ~toSync
      <4>1. refresher' = [refresher EXCEPT ![g].pc = "gone"]
        BY <1>3, <3>2, Zenon DEF needToSync
      <4>2. ~Refreshing("gone")
        OBVIOUS
      <4> HIDE DEF Refreshing
      <4> QED BY <4>1, <4>2, Zenon
    <3> QED BY <3>1, <3>2
  <2>3. \A h \in Refreshers : refresher'[h].pc = IF h = g THEN pc ELSE refresher[h].pc
    BY <1>1, <2>2 DEF RefresherState
  <2> QED BY <2>1, <2>2, <2>3
<1>4. ASSUME NEW g \in Refreshers, discover(g) PROVE LockInv'
  <2>1. PICK S : refresher' = [refresher EXCEPT ![g] = [pc |-> "reset", types |-> S]]
    BY <1>4 DEF discover
  <2>2. \A h \in Refreshers : refresher'[h].pc = IF h = g THEN "reset" ELSE refresher[h].pc
    BY <1>1, <2>1
  <2> QED BY <1>4, <2>2 DEF discover
<1>5. ASSUME NEW g \in Refreshers, discoverFails(g) PROVE LockInv'
  BY <1>1, <1>5 DEF discoverFails
<1>6. ASSUME NEW g \in Refreshers, refreshFailed(g) PROVE LockInv'
  BY <1>1, <1>6 DEF refreshFailed
<1>7. ASSUME NEW g \in Refreshers, Reset(g) PROVE LockInv'
  BY <1>1, <1>7 DEF Reset
<1>8. ASSUME NEW g \in Refreshers, notify(g) PROVE LockInv'
  <2>1. \A h \in Refreshers : refresher'[h].pc = IF h = g THEN "gone" ELSE refresher[h].pc
    BY <1>1, <1>8 DEF notify
  <2> QED BY <1>8, <2>1 DEF notify
<1>9. CASE (\E t \in Types : changeAPI(t)) \/ UNCHANGED <<worldVars, controllerVars>>
  BY <1>9 DEF changeAPI, controllerVars
<1> QED BY <1>2, <1>3, <1>4, <1>5, <1>6, <1>7, <1>8, <1>9, ControllerFrame DEF refreshAll

LEMMA NextDiscovery ==
    ASSUME StateTypes, DiscoveryInv, [Next]_vars
    PROVE  DiscoveryInv'
<1> USE DEF DiscoveryInv, OneOfEachID
<1>1. refresher \in [Refreshers -> RefresherState]
  BY DEF StateTypes
<1>2. ASSUME NEW t \in Types, changeAPI(t) PROVE DiscoveryInv'
  BY <1>2 DEF changeAPI, controllerVars
<1>3. ASSUME NEW g \in Refreshers, discover(g) PROVE DiscoveryInv'
  <2>1. PICK missing \in SUBSET world :
          refresher' = [refresher EXCEPT ![g] = [pc |-> "reset", types |-> world \ missing]]
    BY <1>3 DEF discover
  <2>2. \A h \in Refreshers :
          refresher'[h].types = IF h = g THEN world \ missing ELSE refresher[h].types
    BY <1>1, <2>1
  <2> QED BY <1>3, <2>2 DEF discover, worldVars
<1>4. ASSUME NEW g \in Refreshers, notify(g) PROVE DiscoveryInv'
  <2>1. \A h \in Refreshers : refresher'[h].types = IF h = g THEN {} ELSE refresher[h].types
    BY <1>1, <1>4 DEF notify
  <2> QED BY <1>4, <2>1 DEF notify, worldVars
<1>5. ASSUME UNCHANGED world, NEW g \in Refreshers, NEW pc,
             refresher' = [refresher EXCEPT ![g].pc = pc]
      PROVE  DiscoveryInv'
  <2>1. \A h \in Refreshers : refresher'[h].types = refresher[h].types
    BY <1>1, <1>5 DEF RefresherState
  <2> QED BY <1>5, <2>1
<1>6. CASE queueRefresh
  <2>1. PICK g \in Refreshers : refresher' = [refresher EXCEPT ![g].pc = "asleep"]
    BY <1>6 DEF queueRefresh
  <2> QED BY <1>5, <1>6, <2>1 DEF queueRefresh
<1>7. ASSUME NEW g \in Refreshers,
             needToSync(g) \/ discoverFails(g) \/ refreshFailed(g) \/ Reset(g)
      PROVE  DiscoveryInv'
  BY <1>5, <1>7 DEF needToSync, discoverFails, refreshFailed, Reset, worldVars
<1>8. CASE UNCHANGED <<worldVars, controllerVars>>
  BY <1>8 DEF worldVars, controllerVars
<1> QED BY <1>2, <1>3, <1>4, <1>6, <1>7, <1>8, ControllerFrame DEF refreshAll

-----------------------------------------------------------------------------
(* What is served, and the templates that run.                              *)

LEMMA NextServed ==
    ASSUME StateTypes, DiscoveryInv, Served, [Next]_vars
    PROVE  Served'
<1>1. ASSUME NEW g \in Refreshers, Reset(g) PROVE Served'
  <2>1. refresher[g].types \in SUBSET Types /\ OneOfEachID(refresher[g].types)
    BY DEF StateTypes, TypeOK, DiscoveryInv
  <2>2. PICK F \in FilteredSchemas(refresher[g].types) : startStopTemplate(F) /\ schemas' = F
    BY <1>1 DEF Reset
  <2>3. found' = refresher[g].types
    BY <1>1 DEF Reset
  <2>4. PreferredServed'
    <3>1. SUFFICES ASSUME NEW p \in found' \ Denied,
                          \A t \in found' : t.kind = p.kind => t.listable /\ t.preferred = p.id
                   PROVE  p \in schemas'
      BY DEF PreferredServed
    <3> QED BY <2>1, <2>2, <2>3, <3>1, PreferredKept
  <2>5. PICK bad \in SUBSET ((Templated \cap Kinds(F)) \ running) :
          /\ failures' = failures + Cardinality(bad)
          /\ running' = (running \cup ((Templated \cap Kinds(F)) \ bad)) \cap Kinds(F)
    BY <2>2 DEF startStopTemplate
  <2>6. (Templated \cap Kinds(F)) \ running' = bad
    BY <2>5
  <2>7. Cardinality(bad) <= failures'
    <3>1. bad \in SUBSET Kinds(F) /\ F \in SUBSET Types
      BY <2>1, <2>2, <2>5, FilteredTypes
    <3>2. Cardinality(bad) \in Nat
      BY <3>1, FiniteKinds
    <3> QED BY <2>5, <3>2, BoundsAssumption DEF StateTypes, TypeOK
  <2>8. TemplatesFollow'
    <3>1. Kinds(schemas)' = Kinds(F)
      BY <2>2 DEF Kinds
    <3> QED BY <2>5, <2>6, <2>7, <3>1 DEF TemplatesFollow
  <2> QED BY <2>4, <2>8 DEF Served
<1>2. CASE ~ \E g \in Refreshers : Reset(g)
  <2>1. UNCHANGED <<schemas, running, found>>
    BY <1>2, CollectionFrame
  <2>2. PreferredServed'
    BY <2>1 DEF Served, PreferredServed
  <2>3. Kinds(schemas)' = Kinds(schemas)
    BY <2>1 DEF Kinds
  <2>4. Cardinality((Templated \cap Kinds(schemas)) \ running) \in Nat
    <3>1. (Templated \cap Kinds(schemas)) \ running \in SUBSET Kinds(schemas)
      OBVIOUS
    <3>2. schemas \in SUBSET Types
      BY DEF StateTypes, TypeOK
    <3> QED BY <3>1, <3>2, FiniteKinds
  <2>5. failures' >= failures /\ failures \in Nat /\ failures' \in Nat
    BY <1>2, FailuresGrow, NextTypes, BoundsAssumption DEF StateTypes, TypeOK
  <2>6. TemplatesFollow'
    BY <2>1, <2>3, <2>4, <2>5 DEF Served, TemplatesFollow
  <2> QED BY <2>2, <2>6 DEF Served
<1> QED BY <1>1, <1>2

-----------------------------------------------------------------------------
(* The cached answers.                                                      *)

(* A caller that does not come to "add" by this step disturbs nothing.      *)
LEMMA CallerElsewhere ==
    ASSUME StateTypes, CacheInv, UNCHANGED schemas, cache' \subseteq cache,
           NEW c \in Callers, NEW new, new.pc # "add",
           caller' = [caller EXCEPT ![c] = new]
    PROVE  CacheInv'
<1>1. \A a : Visible(a)' = Visible(a)
  BY DEF Visible
<1>2. \A e \in cache' : e.clean => e.types = Visible(e.access)
  BY DEF CacheInv, CacheFresh
<1>3. CacheFresh'
  BY <1>1, <1>2 DEF CacheFresh
<1>4. \A d \in Callers : d # c => caller'[d] = caller[d]
  BY DEF StateTypes, TypeOK
<1>5. caller'[c] = new
  BY DEF StateTypes, TypeOK
<1> QED BY <1>1, <1>3, <1>4, <1>5 DEF CacheInv

LEMMA SchemasCache ==
    ASSUME StateTypes, CacheInv, NEW c \in Callers, NEW access, Schemas(c, access)
    PROVE  CacheInv'
<1>1. PICK new : new.pc # "add" /\ caller' = [caller EXCEPT ![c] = new]
  <2>1. CASE Cached(access) # {}
    <3> DEFINE e == CHOOSE e \in Cached(access) : TRUE
               new == [pc |-> "done", access |-> access, types |-> e.types, clean |-> e.clean]
    <3> new.pc # "add"
      OBVIOUS
    <3> caller' = [caller EXCEPT ![c] = new]
      BY <2>1 DEF Schemas
    <3> HIDE DEF new
    <3> QED OBVIOUS
  <2>2. CASE Cached(access) = {}
    <3> DEFINE new == [pc |-> "miss", access |-> access, types |-> {}, clean |-> TRUE]
    <3> new.pc # "add"
      OBVIOUS
    <3> caller' = [caller EXCEPT ![c] = new]
      BY <2>2 DEF Schemas
    <3> HIDE DEF new
    <3> QED OBVIOUS
  <2> QED BY <2>1, <2>2
<1> QED BY <1>1, CallerElsewhere DEF Schemas

LEMMA TakeAnswerCache ==
    ASSUME StateTypes, CacheInv, NEW n \in Notifiers, TakeAnswer(n)
    PROVE  CacheInv'
BY CallerElsewhere, IdleType DEF TakeAnswer, Callers

LEMMA NextCache ==
    ASSUME StateTypes, CacheInv, [Next]_vars
    PROVE  CacheInv'
<1>1. ASSUME NEW g \in Refreshers, Reset(g) PROVE CacheInv'
  <2>1. CacheFresh'
    BY <1>1 DEF Reset, Cleared, CacheFresh
  <2>2. ASSUME NEW c \in Callers, caller'[c].pc = "add" PROVE caller'[c].clean = FALSE
    <3>1. caller[c] \in CallerState
      BY DEF StateTypes, TypeOK
    <3>2. CASE caller[c].pc = "add"
      <4>1. caller'[c] = [caller[c] EXCEPT !.clean = FALSE]
        BY <1>1, <3>2 DEF Reset
      <4> QED BY <3>1, <4>1 DEF CallerState
    <3>3. CASE caller[c].pc # "add"
      BY <1>1, <2>2, <3>3 DEF Reset
    <3> QED BY <3>2, <3>3
  <2> QED BY <2>1, <2>2 DEF CacheInv
<1>2. ASSUME NEW c \in Callers, schemasForSubject(c) PROVE CacheInv'
  <2>1. \A a : Visible(a)' = Visible(a)
    BY <1>2 DEF Visible, schemasForSubject
  <2>2. CacheFresh'
    BY <1>2, <2>1 DEF schemasForSubject, CacheInv, CacheFresh
  <2>3. caller[c] \in CallerState
    BY DEF StateTypes, TypeOK
  <2>4. caller'[c].types = Visible(caller'[c].access)
    BY <1>2, <2>3 DEF schemasForSubject, CallerState, StateTypes, TypeOK
  <2>5. \A d \in Callers : d # c => caller'[d] = caller[d]
    BY <1>2 DEF schemasForSubject, StateTypes, TypeOK
  <2> QED BY <2>1, <2>2, <2>4, <2>5 DEF CacheInv
<1>3. ASSUME NEW c \in Callers, cacheAdd(c) PROVE CacheInv'
  <2>1. \A a : Visible(a)' = Visible(a)
    BY <1>3 DEF Visible, cacheAdd
  <2>2. ASSUME NEW e \in cache', e.clean PROVE e.types = Visible(e.access)
    <3>1. CASE e \in cache
      BY <2>2, <3>1 DEF CacheInv, CacheFresh
    <3>2. CASE e = [access |-> caller[c].access, types |-> caller[c].types,
                    clean |-> caller[c].clean]
      BY <1>3, <2>2, <3>2 DEF cacheAdd, CacheInv
    <3> QED BY <1>3, <3>1, <3>2 DEF cacheAdd
  <2>3. CacheFresh'
    BY <2>1, <2>2 DEF CacheFresh
  <2>4. \A d \in Callers : d # c => caller'[d] = caller[d]
    BY <1>3 DEF cacheAdd, StateTypes, TypeOK
  <2>5. caller'[c].pc # "add"
    <3>1. caller[c] \in CallerState
      BY DEF StateTypes, TypeOK
    <3>2. [caller[c] EXCEPT !.pc = "done"].pc # "add"
      BY <3>1 DEF CallerState
    <3> QED BY <1>3, <3>2, IdleType DEF cacheAdd, StateTypes, TypeOK
  <2> QED BY <2>1, <2>3, <2>4, <2>5 DEF CacheInv
<1>4. CASE UNCHANGED <<schemas, caller>> /\ cache' \subseteq cache
  BY <1>4 DEF CacheInv, CacheFresh, Visible
<1>5. ASSUME NEW n \in Notifiers, watch(n) PROVE CacheInv'
  BY <1>5, SchemasCache, TakeAnswerCache
  DEF watch, watchBegins, watchFirst, sendSchemas, Callers
<1>6. CASE watchSignalled \/ userChangeNotify
  BY <1>6, SchemasCache DEF watchSignalled, userChangeNotify, Callers
<1>7. ASSUME NEW c \in Requests, request(c) PROVE CacheInv'
  BY <1>7, SchemasCache DEF request, Callers
<1>8. ASSUME NEW g \in Refreshers, refreshAll(g) PROVE CacheInv'
  BY <1>1, <1>4, <1>8
  DEF refreshAll, needToSync, discover, discoverFails, refreshFailed, notify, collectionVars
<1>9. CASE queueRefresh \/ (\E t \in Types : changeAPI(t)) \/ grantUser \/ UNCHANGED vars
  BY <1>4, <1>9 DEF queueRefresh, changeAPI, grantUser, vars, collectionVars
<1>10. ASSUME NEW e \in cache, expire(e) PROVE CacheInv'
  BY <1>4, <1>10 DEF expire
<1> QED BY <1>2, <1>3, <1>5, <1>6, <1>7, <1>8, <1>9, <1>10 DEF Next, collectionStep

-----------------------------------------------------------------------------
LEMMA InitInv == Init => IInv
<1> SUFFICES ASSUME Init PROVE IInv
  OBVIOUS
<1>1. StateTypes
  BY InitTypes
<1>2. \A g \in Refreshers : refresher[g] = Off
  BY DEF Init
<1>3. LockInv
  BY <1>2 DEF LockInv, OneRefresh, Refreshing, Off
<1>4. DiscoveryInv
  BY <1>2 DEF DiscoveryInv, OneOfEachID, Off, Init
<1>5. PreferredServed
  BY DEF Init, PreferredServed
<1>6. TemplatesFollow
  <2>1. (Templated \cap Kinds(schemas)) \ running = {}
    BY DEF Init, Kinds
  <2>2. Cardinality((Templated \cap Kinds(schemas)) \ running) <= failures
    <3>1. Cardinality({}) = 0 /\ failures = 0
      BY FS_EmptySet DEF Init
    <3> QED BY <2>1, <3>1
  <2>3. running \subseteq Kinds(schemas)
    BY DEF Init
  <2> QED BY <2>2, <2>3 DEF TemplatesFollow
<1>7. CacheInv
  BY IdleType DEF Init, CacheInv, CacheFresh
<1> QED BY <1>1, <1>3, <1>4, <1>5, <1>6, <1>7 DEF IInv, Served

(* The invariant holds in every reachable state.                            *)
THEOREM Invariance == Spec => []IInv
<1>1. IInv /\ [Next]_vars => IInv'
  BY NextTypes, NextLock, NextDiscovery, NextServed, NextCache DEF IInv
<1> QED BY InitInv, <1>1, PTL DEF Spec

(* Types, and no two versions of a kind are served at once, whatever the    *)
(* order of the map (schemas.go 146-166).                                   *)
THEOREM TypeCorrect == Spec => []TypeOK
<1>1. IInv => TypeOK
  BY DEF IInv, StateTypes
<1> QED BY <1>1, Invariance, PTL

(* However many refreshes are queued, one at a time discovers and resets    *)
(* (schemas.go 134-175).                                                    *)
THEOREM RefreshExclusive == Spec => []OneRefresh
<1>1. IInv => OneRefresh
  BY DEF IInv, LockInv
<1> QED BY <1>1, Invariance, PTL

(* No template runs without a schema, and those that do not run although    *)
(* they have one are at most as many as the failures (collection.go         *)
(* 117-154).                                                                *)
THEOREM TemplatesRun == Spec => []TemplatesFollow
<1>1. IInv => TemplatesFollow
  BY DEF IInv, Served
<1> QED BY <1>1, Invariance, PTL

(* A kind is served in its preferred version when that was discovered and   *)
(* may be listed, in whatever order the versions are filtered (schemas.go   *)
(* 146-197).                                                                *)
THEOREM PreferredVersions == Spec => []PreferredServed
<1>1. IInv => PreferredServed
  BY DEF IInv, Served
<1> QED BY <1>1, Invariance, PTL

(* A cached answer whose computation no Reset overlapped is what would be   *)
(* computed now (factory.go 24-39, collection.go 101-109).                  *)
THEOREM FreshCache == Spec => []CacheFresh
<1>1. IInv => CacheFresh
  BY DEF IInv, CacheInv
<1> QED BY <1>1, Invariance, PTL
=============================================================================
