--------------------------- MODULE ParallelLister ---------------------------
(***************************************************************************)
(* pkg/stores/partition/parallel.go: a list over N partitions, cut into     *)
(* pages of a client-chosen limit, and the client that pages through it     *)
(* with continue tokens (pkg/stores/partition/store.go, List).              *)
(*                                                                          *)
(* One goroutine (the feeder) walks the partitions and launches a worker    *)
(* per partition through a weighted semaphore.  Workers list concurrently   *)
(* and hand their batches over in partition order: worker i waits until     *)
(* the channel of worker i-1 is closed.  capacity, p.state and p.revision   *)
(* are shared without a lock; the turn is what protects them.               *)
(*                                                                          *)
(* Data abstraction: object k of partition i is <<i, k>>; a partition name  *)
(* is its index, 0 standing for ""; a Kubernetes continue token is the      *)
(* number of objects before it, 0 standing for ""; of a revision only       *)
(* "not empty" is kept (the field pinned).                                  *)
(***************************************************************************)
EXTENDS Integers, Sequences

CONSTANTS
    N,            \* number of partitions
    MaxSize,      \* most objects in a partition
    Limits,       \* limits a client may ask for (after getLimit)
    Chunk,        \* most objects the store returns for one List call
    Concurrency,  \* ParallelPartitionLister.Concurrency
    MaxFailures,  \* Lister errors in a behaviour (bound of the model)
    MaxCancels    \* requests the client abandons (bound of the model)

ASSUME NAssumption == N \in Nat \ {0}
ASSUME SizeAssumption == MaxSize \in Nat /\ Chunk \in Nat \ {0}
ASSUME LimitsAssumption == Limits \subseteq Nat \ {0} /\ Limits # {}
ASSUME ConcurrencyAssumption == Concurrency \in Nat /\ Concurrency >= 3
ASSUME BoundsAssumption == MaxFailures \in Nat /\ MaxCancels \in Nat

VARIABLES
    size,       \* objects in each partition
    client,     \* "idle" between two pages, "busy" in store.List, "finished"
    resume,     \* the continue token of the next page
    delivered,  \* objects of the pages the client has received
    st,         \* feeder's outer variable state
    limit,      \* feeder's parameter limit
    capacity,   \* shared: what is left of the limit
    pstate,     \* shared: p.state
    revision,   \* shared: p.revision # ""
    perr,       \* shared: p.err # nil
    out,        \* what the current page has received from result
    fpc, idx,   \* feeder: control point and loop variable i
    free,       \* free tickets of the semaphore
    done,       \* the errgroup's context is cancelled
    gone,       \* the request's own context is cancelled
    egerr,      \* the errgroup holds an error
    pc,         \* control point of each worker
    tickets,    \* tickets each worker holds
    loc,        \* each worker's local copy of state
    batch,      \* the list each worker got from its last Lister call
    panicked,   \* a slice expression was out of range
    failures, cancels

pageVars == <<st, limit, capacity, pstate, revision, perr, out>>
feederVars == <<fpc, idx>>
workerVars == <<pc, tickets, loc, batch>>
ctxVars == <<done, gone, egerr, free>>
clientVars == <<size, client, resume, delivered>>
boundVars == <<panicked, failures, cancels>>
vars == <<pageVars, feederVars, workerVars, ctxVars, clientVars, boundVars>>

Parts == 1..N

Minimum(a, b) == IF a <= b THEN a ELSE b

(* listState.  The zero value is what List starts with when there is no     *)
(* token, and is also how "p.state == nil" is told apart: a saved state     *)
(* always names a partition.                                                *)
listState(pinned, part, cont, offset, lim) ==
    [pinned |-> pinned, part |-> part, cont |-> cont, offset |-> offset, limit |-> lim]

NoState == listState(FALSE, 0, 0, 0, 0)

Objects == {o \in Parts \X (1..MaxSize) : o[2] <= size[o[1]]}

Before(a, b) == a[1] < b[1] \/ (a[1] = b[1] /\ a[2] < b[2])

(* Objects from+1 .. to of partition i, as one batch.                       *)
Interval(i, from, to) == [k \in 1..(to - from) |-> <<i, from + k>>]

indexOrZero(name) == IF name = 0 THEN 1 ELSE name

first == indexOrZero(st.part)

-----------------------------------------------------------------------------
Init ==
    /\ size \in [Parts -> 0..MaxSize]
    /\ client = "idle" /\ resume = NoState /\ delivered = <<>>
    /\ st = NoState /\ limit \in Limits /\ capacity = limit
    /\ pstate = NoState /\ revision = FALSE /\ perr = FALSE /\ out = <<>>
    /\ fpc = "closed" /\ idx = 1
    /\ free = Concurrency /\ done = FALSE /\ gone = FALSE /\ egerr = FALSE
    /\ pc = [i \in Parts |-> "idle"]
    /\ tickets = [i \in Parts |-> 0]
    /\ loc = [i \in Parts |-> NoState]
    /\ batch = [i \in Parts |-> [from |-> 0, to |-> 0, next |-> 0]]
    /\ panicked = FALSE /\ failures = 0 /\ cancels = 0

(* List: a fresh ParallelPartitionLister for the request, the token decoded *)
(* into state, its limit preferred to the request's, and the feeder started.*)
List ==
    /\ client = "idle"
    /\ \E asked \in Limits :
          /\ limit' = IF resume.limit > 0 THEN resume.limit ELSE asked
          /\ capacity' = limit'
    /\ client' = "busy"
    /\ st' = resume
    /\ pstate' = NoState /\ revision' = FALSE /\ perr' = FALSE /\ out' = <<>>
    /\ fpc' = "loop" /\ idx' = indexOrZero(resume.part)
    /\ free' = Concurrency /\ done' = FALSE /\ gone' = FALSE /\ egerr' = FALSE
    /\ pc' = [i \in Parts |-> "idle"]
    /\ tickets' = [i \in Parts |-> 0]
    /\ loc' = [i \in Parts |-> NoState]
    /\ batch' = [i \in Parts |-> [from |-> 0, to |-> 0, next |-> 0]]
    /\ UNCHANGED <<size, resume, delivered, boundVars>>

(* Seeded fault: the loop runs one partition too far.                       *)
FeederStops_OnePast == idx > N + 1 \/ capacity <= 0 \/ done

(* Seeded fault: the last partition is never launched.                      *)
FeederStops_OffByOne == idx >= N \/ capacity <= 0 \/ done

(* The feeder's loop condition and its first test.                          *)
FeederStops == idx > N \/ capacity <= 0 \/ done

feederCheck ==
    /\ fpc = "loop"
    /\ fpc' = IF FeederStops THEN "wait" ELSE "acquire"
    /\ UNCHANGED <<idx, pageVars, workerVars, ctxVars, clientVars, boundVars>>

(* The outer state is never assigned: the copy made for the worker shadows  *)
(* it.  Its Revision is therefore the token's for every partition.          *)
Tickets == IF st.pinned THEN 1 ELSE 3

(* sem.Acquire succeeds whenever the tickets are free, a cancelled context  *)
(* notwithstanding; then the worker starts.                                 *)
feederLaunch ==
    /\ fpc = "acquire"
    /\ free >= Tickets
    /\ free' = free - Tickets
    /\ tickets' = [tickets EXCEPT ![idx] = Tickets]
    /\ loc' = [loc EXCEPT ![idx] = st]
    /\ pc' = [pc EXCEPT ![idx] = "list"]
    /\ fpc' = "loop" /\ idx' = idx + 1
    /\ UNCHANGED <<batch, done, gone, egerr, pageVars, clientVars, boundVars>>

feederAcquireFails ==
    /\ fpc = "acquire"
    /\ free < Tickets /\ done
    /\ perr' = TRUE
    /\ fpc' = "wait"
    /\ UNCHANGED <<idx, st, limit, capacity, pstate, revision, out, workerVars,
                   ctxVars, clientVars, boundVars>>

(* p.err = eg.Wait(), which replaces an error of Acquire, then the deferred *)
(* second Wait and close(result).                                           *)
feederClose ==
    /\ fpc = "wait"
    /\ \A i \in Parts : pc[i] \in {"idle", "done"}
    /\ perr' = egerr
    /\ fpc' = "closed"
    /\ UNCHANGED <<idx, st, limit, capacity, pstate, revision, out, workerVars,
                   ctxVars, clientVars, boundVars>>

-----------------------------------------------------------------------------
(* The Lister of partition i from cont: store.List, outside this package.   *)
Lister(i, cont, lim) ==
    LET to == Minimum(size[i], cont + Minimum(lim, Chunk))
    IN  [from |-> cont, to |-> to, next |-> IF to < size[i] THEN to ELSE 0]

workerCont(i) == IF loc[i].part = i THEN loc[i].cont ELSE 0

workerList(i) ==
    /\ pc[i] = "list"
    /\ batch' = [batch EXCEPT ![i] = Lister(i, workerCont(i), limit)]
    /\ pc' = [pc EXCEPT ![i] = "turn"]
    /\ UNCHANGED <<tickets, loc, pageVars, feederVars, ctxVars, clientVars, boundVars>>

workerListFails(i) ==
    /\ pc[i] = "list"
    /\ done \/ failures < MaxFailures
    /\ failures' = IF done THEN failures ELSE failures + 1
    /\ pc' = [pc EXCEPT ![i] = "failing"]
    /\ UNCHANGED <<tickets, loc, batch, panicked, cancels, pageVars, feederVars,
                   ctxVars, clientVars>>

NextClosed(i) == pc[i] \in {"failed", "done"}

(* Seeded fault: no turn is awaited.                                        *)
waitForTurn_Skipped(i) == TRUE

(* The turn of the first worker launched is nil; that of another is the     *)
(* next of its predecessor.                                                 *)
waitForTurn(i) ==
    done \/ \A j \in Parts : (i # first /\ j = i - 1) => NextClosed(j)

(* Seeded fault: the offset of the token is ignored.                        *)
Trimmed_IgnoresOffset(i) == batch[i]

(* The batch without what the token's Offset says was already sent.         *)
Trimmed(i) ==
    LET b == batch[i]
        o == loc[i].offset
    IN  IF loc[i].part = i /\ 0 < o /\ o < b.to - b.from
        THEN [b EXCEPT !.from = b.from + o] ELSE b

BatchLen(i) == batch[i].to - batch[i].from

(* Seeded fault: a worker that finds the page cut lists again.              *)
workerTurnCut_ListsAgain(i) ==
    /\ pc[i] = "turn"
    /\ waitForTurn(i)
    /\ pstate # NoState
    /\ pc' = [pc EXCEPT ![i] = "list"]
    /\ UNCHANGED <<tickets, loc, batch, pageVars, feederVars, ctxVars, clientVars, boundVars>>

(* The worker has its turn: it leaves if the page is already cut, otherwise *)
(* it sets the revisions, trims, and compares the batch with capacity.      *)
workerTurnCut(i) ==
    /\ pc[i] = "turn"
    /\ waitForTurn(i)
    /\ pstate # NoState
    /\ pc' = [pc EXCEPT ![i] = "exit"]
    /\ UNCHANGED <<tickets, loc, batch, pageVars, feederVars, ctxVars, clientVars, boundVars>>

(* Seeded fault: the batch is compared with the limit, not with what is     *)
(* left of it.                                                              *)
workerTurn_AgainstLimit(i) ==
    /\ pc[i] = "turn"
    /\ waitForTurn(i)
    /\ pstate = NoState
    /\ loc' = [loc EXCEPT ![i].pinned = TRUE]
    /\ revision' = TRUE
    /\ batch' = [batch EXCEPT ![i] = Trimmed(i)]
    /\ pc' = [pc EXCEPT ![i] = IF Trimmed(i).to - Trimmed(i).from > limit
                                 THEN "overflow" ELSE "fits"]
    /\ UNCHANGED <<tickets, st, limit, capacity, pstate, perr, out, feederVars,
                   ctxVars, clientVars, boundVars>>

workerTurn(i) ==
    /\ pc[i] = "turn"
    /\ waitForTurn(i)
    /\ pstate = NoState
    /\ loc' = [loc EXCEPT ![i].pinned = TRUE]
    /\ revision' = TRUE
    /\ batch' = [batch EXCEPT ![i] = Trimmed(i)]
    /\ pc' = [pc EXCEPT ![i] = IF Trimmed(i).to - Trimmed(i).from > capacity
                                 THEN "overflow" ELSE "fits"]
    /\ UNCHANGED <<tickets, st, limit, capacity, pstate, perr, out, feederVars,
                   ctxVars, clientVars, boundVars>>

(* result <- list.Objects                                                   *)
workerSendAll(i) ==
    /\ pc[i] = "fits"
    /\ out' = out \o Interval(i, batch[i].from, batch[i].to)
    /\ pc' = [pc EXCEPT ![i] = "account"]
    /\ UNCHANGED <<tickets, loc, batch, st, limit, capacity, pstate, revision, perr,
                   feederVars, ctxVars, clientVars, boundVars>>

(* capacity -= len(list.Objects), then return or the next round.            *)
workerAccount(i) ==
    /\ pc[i] = "account"
    /\ capacity' = capacity - BatchLen(i)
    /\ IF batch[i].next = 0
       THEN /\ pc' = [pc EXCEPT ![i] = "exit"]
            /\ UNCHANGED loc
       ELSE /\ pc' = [pc EXCEPT ![i] = "list"]
            /\ loc' = [loc EXCEPT ![i] = listState(@.pinned, i, batch[i].next, 0, @.limit)]
    /\ UNCHANGED <<tickets, batch, st, limit, pstate, revision, perr, out,
                   feederVars, ctxVars, clientVars, boundVars>>

(* result <- list.Objects[:capacity]: a negative capacity panics, and an    *)
(* unrecovered panic in a goroutine ends the process.                       *)
workerSendPart(i) ==
    /\ pc[i] = "overflow"
    /\ IF capacity < 0
       THEN /\ panicked' = TRUE
            /\ UNCHANGED <<out, pc>>
       ELSE /\ out' = out \o Interval(i, batch[i].from, batch[i].from + capacity)
            /\ pc' = [pc EXCEPT ![i] = "save"]
            /\ UNCHANGED panicked
    /\ UNCHANGED <<tickets, loc, batch, st, limit, capacity, pstate, revision, perr,
                   failures, cancels, feederVars, ctxVars, clientVars>>

(* Seeded fault: capacity is cleared before the state is saved.             *)
workerSave_ClearsFirst(i) ==
    /\ pc[i] = "save"
    /\ pstate' = listState(TRUE, i, workerCont(i), 0, limit)
    /\ capacity' = 0
    /\ pc' = [pc EXCEPT ![i] = "exit"]
    /\ UNCHANGED <<tickets, loc, batch, st, limit, revision, perr, out,
                   feederVars, ctxVars, clientVars, boundVars>>

workerSave(i) ==
    /\ pc[i] = "save"
    /\ pstate' = listState(TRUE, i, workerCont(i), capacity, limit)
    /\ capacity' = 0
    /\ pc' = [pc EXCEPT ![i] = "exit"]
    /\ UNCHANGED <<tickets, loc, batch, st, limit, revision, perr, out,
                   feederVars, ctxVars, clientVars, boundVars>>

(* The deferred close(next) and sem.Release(tickets).                       *)
workerExit(i) ==
    /\ pc[i] \in {"exit", "failing"}
    /\ pc' = [pc EXCEPT ![i] = IF pc[i] = "exit" THEN "done" ELSE "failed"]
    /\ free' = free + tickets[i]
    /\ tickets' = [tickets EXCEPT ![i] = 0]
    /\ UNCHANGED <<loc, batch, done, gone, egerr, pageVars, feederVars, clientVars, boundVars>>

(* The errgroup records the error, and cancels, only after the worker's     *)
(* deferred calls have run.                                                 *)
workerReport(i) ==
    /\ pc[i] = "failed"
    /\ egerr' = TRUE
    /\ done' = TRUE
    /\ pc' = [pc EXCEPT ![i] = "done"]
    /\ UNCHANGED <<tickets, loc, batch, free, gone, pageVars, feederVars, clientVars, boundVars>>

worker(i) ==
    \/ workerList(i) \/ workerListFails(i)
    \/ workerTurnCut(i) \/ workerTurn(i)
    \/ workerSendAll(i) \/ workerAccount(i)
    \/ workerSendPart(i) \/ workerSave(i)
    \/ workerExit(i) \/ workerReport(i)

feeder == feederCheck \/ feederLaunch \/ feederAcquireFails \/ feederClose

-----------------------------------------------------------------------------
(* The client drops the connection: net/http cancels the request's context. *)
Abandon ==
    /\ client = "busy" /\ ~gone
    /\ fpc # "closed"
    /\ cancels < MaxCancels
    /\ cancels' = cancels + 1
    /\ gone' = TRUE /\ done' = TRUE
    /\ UNCHANGED <<free, egerr, panicked, failures, pageVars, feederVars, workerVars, clientVars>>

(* store.List returns.  An error, or a client that has gone, delivers       *)
(* nothing: the client may repeat the request with the token it had.        *)
ReturnPage ==
    /\ client = "busy" /\ fpc = "closed"
    /\ IF perr \/ gone
       THEN client' = "idle" /\ UNCHANGED <<resume, delivered>>
       ELSE /\ delivered' = delivered \o out
            /\ resume' = pstate
            /\ client' = IF pstate = NoState THEN "finished" ELSE "idle"
    /\ UNCHANGED <<size, pageVars, feederVars, workerVars, ctxVars, boundVars>>

Code == feeder \/ \E i \in Parts : worker(i)

Running == Code \/ List \/ Abandon \/ ReturnPage

Terminated == (client = "finished" \/ panicked) /\ UNCHANGED vars

Next == (~panicked /\ Running) \/ Terminated

(* The Go scheduler runs every goroutine that can run, and a Lister call    *)
(* returns: the feeder and each worker are fair.  Nothing obliges a client  *)
(* to ask for a page or to drop one.                                        *)
Fairness ==
    /\ WF_vars(~panicked /\ feeder)
    /\ \A i \in Parts : WF_vars(~panicked /\ worker(i))

Spec == Init /\ [][Next]_vars /\ Fairness

-----------------------------------------------------------------------------
(* Neither the request nor a Lister has failed in the current page.         *)
Clean == ~done /\ \A i \in Parts : pc[i] \notin {"failing", "failed"}

(* Control points at which a worker reads or writes capacity and p.state.   *)
Holding(i) == pc[i] \in {"fits", "account", "overflow", "save"}

In(o, s) == \E k \in 1..Len(s) : s[k] = o

(* s is the beginning of the full list: its objects are in partition order, *)
(* each once, and every object before one of them is there.                 *)
InOrder(s) ==
    /\ \A k, l \in 1..Len(s) : k < l => Before(s[k], s[l])
    /\ \A k \in 1..Len(s) :
         /\ s[k] \in Objects
         /\ \A o \in Objects : Before(o, s[k]) => In(o, s)

ListStates == [pinned : BOOLEAN, part : 0..N, cont : Nat, offset : Int, limit : Nat]

Batches == [from : Nat, to : Nat, next : Nat]

WorkerPoints ==
    {"idle", "list", "turn", "fits", "account", "overflow", "save", "exit",
     "failing", "failed", "done"}

(* Types of the feeder's, the workers' and the client's variables.          *)
TypeOK ==
    /\ size \in [Parts -> 0..MaxSize]
    /\ client \in {"idle", "busy", "finished"}
    /\ resume \in ListStates /\ st \in ListStates /\ pstate \in ListStates
    /\ limit \in Nat \ {0} /\ capacity \in Int
    /\ revision \in BOOLEAN /\ perr \in BOOLEAN /\ panicked \in BOOLEAN
    /\ fpc \in {"loop", "acquire", "wait", "closed"} /\ idx \in 1..(N + 1)
    /\ free \in Nat
    /\ out \in Seq(Parts \X Nat) /\ delivered \in Seq(Parts \X Nat)
    /\ done \in BOOLEAN /\ gone \in BOOLEAN /\ egerr \in BOOLEAN
    /\ pc \in [Parts -> WorkerPoints]
    /\ tickets \in [Parts -> 0..3]
    /\ loc \in [Parts -> ListStates]
    /\ batch \in [Parts -> Batches]
    /\ failures \in Nat /\ cancels \in Nat

(* The chain of turn channels is a mutual exclusion: until something fails  *)
(* at most one worker is between waitForTurn and its return, the stretch    *)
(* that uses capacity and p.state without a lock (parallel.go 144-183).     *)
TurnExclusive ==
    Clean => \A i, j \in Parts : Holding(i) /\ Holding(j) => i = j

(* A page never exceeds its limit and capacity never goes below zero, so    *)
(* list.Objects[:capacity] is in range (parallel.go 161-175), until         *)
(* something fails.                                                         *)
PageWithinLimit ==
    Clean => capacity >= 0 /\ Len(out) <= limit /\ ~panicked

(* Across pages, retries and concurrent workers the client receives the     *)
(* beginning of the full list: nothing twice, nothing skipped, nothing out  *)
(* of order (parallel.go feeder, store.go List 98-104).                     *)
PrefixDelivered ==
    /\ InOrder(delivered)
    /\ Clean /\ client = "busy" => InOrder(delivered \o out)

(* A continue token names exactly the first object that was not delivered   *)
(* (parallel.go 164-170, read back at 66-72, 136-138 and 157-159).          *)
TokenExact ==
    resume # NoState =>
        LET o == <<resume.part, resume.cont + resume.offset + 1>>
        IN  o \in Objects /\ \A x \in Objects : Before(x, o) <=> In(x, delivered)

(* A client that gets no token has everything, unless its last page came    *)
(* out exactly full: the feeder stops at capacity <= 0 without a token      *)
(* (parallel.go 105, 161, 176).                                             *)
CompleteUnlessFull ==
    client = "finished" => (\A o \in Objects : In(o, delivered)) \/ Len(out) = limit

(* Every page ends: the result channel is closed whatever fails or is       *)
(* cancelled (parallel.go 96-102, 188), unless a worker panics.             *)
PageCloses == (fpc = "loop") ~> (fpc = "closed" \/ panicked)

(* parallel.go 116: "setup a linked list of channel to control insertion    *)
(* order": objects reach the result in partition order.                     *)
InsertionOrder ==
    \A k \in 1..(Len(out) - 1) : Before(out[k], out[k + 1])

(* parallel.go 120: "don't have a revision yet so grab all tickets to set a *)
(* revision": once the first partition has set it, the others are listed at *)
(* that revision.                                                           *)
RevisionPinned ==
    \A i \in Parts : i > first /\ pc[i] = "list" => loc[i].pinned
=============================================================================
