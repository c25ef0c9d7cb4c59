------------------------ MODULE ParallelListerProofs ------------------------
(* Proofs about ParallelLister, for any number and size of partitions, any  *)
(* limits, page sizes of the store and number of failures.                  *)
EXTENDS ParallelLister, SequenceTheorems, TLAPS

(* Cursors never pass the end of their partition.                           *)
CursorOK(s) == s.part # 0 => s.cont <= size[s.part]

CursorInv ==
    /\ CursorOK(resume) /\ CursorOK(st) /\ CursorOK(pstate)
    /\ \A i \in Parts : CursorOK(loc[i])
    /\ \A i \in Parts : /\ batch[i].from <= batch[i].to
                        /\ batch[i].next <= size[i]

(* The feeder launches partitions in order, from the first one.             *)
FeederInv ==
    /\ fpc = "acquire" => idx <= N
    /\ first <= idx
    /\ \A i \in Parts : i >= idx \/ i < first => pc[i] = "idle"

(* Control points only a worker that has had its turn is at.                *)
Passed(i) == pc[i] \in {"fits", "account", "overflow", "save", "exit", "done"}

(* Until something fails, the workers before one that has had its turn have *)
(* finished.                                                                *)
TurnInv ==
    Clean => \A i, j \in Parts : Passed(i) /\ first <= j /\ j < i => pc[j] = "done"

(* Until something fails, what has been sent and what is left add up to the *)
(* limit, up to the worker that is between its send and its update.         *)
AccountInv ==
    Clean =>
      /\ capacity >= 0 /\ ~panicked
      /\ pstate # NoState => Len(out) = limit /\ capacity = 0
      /\ \A i \in Parts :
           /\ Holding(i) => pstate = NoState
           /\ pc[i] \in {"fits", "overflow"} => Len(out) + capacity = limit
           /\ pc[i] = "fits" => BatchLen(i) <= capacity
           /\ pc[i] = "overflow" => capacity < BatchLen(i)
           /\ pc[i] = "account" =>
                BatchLen(i) <= capacity /\ Len(out) + capacity = limit + BatchLen(i)
           /\ pc[i] = "save" => Len(out) = limit
      /\ (pstate = NoState /\ \A i \in Parts : pc[i] \notin {"account", "save"}) =>
           Len(out) + capacity = limit

(* The inductive invariant.                                                 *)
IInv == TypeOK /\ CursorInv /\ FeederInv /\ TurnInv /\ AccountInv

USE NAssumption, SizeAssumption, LimitsAssumption, ConcurrencyAssumption, BoundsAssumption
    DEF Parts

(* A batch holds as many objects as its bounds say.                         *)
LEMMA IntervalSeq ==
    ASSUME NEW i \in Parts, NEW from \in Nat, NEW to \in Nat, from <= to
    PROVE  /\ Interval(i, from, to) \in Seq(Parts \X Nat)
           /\ Len(Interval(i, from, to)) = to - from
BY DEF Interval

(* Concatenation of two pages or batches.                                   *)
LEMMA ConcatSeq ==
    ASSUME NEW S, NEW s \in Seq(S), NEW t \in Seq(S)
    PROVE  s \o t \in Seq(S) /\ Len(s \o t) = Len(s) + Len(t)
OBVIOUS

(* What a Lister call returns from a cursor inside its partition.           *)
LEMMA ListerOK ==
    ASSUME NEW i \in Parts, NEW c \in Nat, NEW l \in Nat, size[i] \in Nat, c <= size[i]
    PROVE  /\ Lister(i, c, l) \in Batches
           /\ Lister(i, c, l).from <= Lister(i, c, l).to
           /\ Lister(i, c, l).next <= size[i]
BY DEF Lister, Minimum, Batches

(* The empty list state is one.                                             *)
LEMMA NoStateType == NoState \in ListStates
BY DEF NoState, listState, ListStates

(* Every initial state satisfies the invariant.                             *)
LEMMA InitInv == Init => IInv
<1> SUFFICES ASSUME Init PROVE IInv
    OBVIOUS
<1> USE DEF Init
<1>1. TypeOK
  <2>1. batch \in [Parts -> Batches] /\ loc \in [Parts -> ListStates]
    BY NoStateType DEF Batches
  <2>2. pc \in [Parts -> WorkerPoints] /\ tickets \in [Parts -> 0..3]
    BY DEF WorkerPoints
  <2>3. out \in Seq(Parts \X Nat) /\ delivered \in Seq(Parts \X Nat)
    OBVIOUS
  <2>4. limit \in Nat \ {0} /\ capacity \in Int /\ idx \in 1..(N + 1) /\ free \in Nat
    OBVIOUS
  <2>5. resume \in ListStates /\ st \in ListStates /\ pstate \in ListStates
    BY NoStateType
  <2>6. size \in [Parts -> 0..MaxSize] /\ failures \in Nat /\ cancels \in Nat
    OBVIOUS
  <2> QED BY <2>1, <2>2, <2>3, <2>4, <2>5, <2>6 DEF TypeOK
<1>2. CursorInv
    BY DEF CursorInv, CursorOK, NoState, listState
<1>3. FeederInv
    BY DEF FeederInv, first, indexOrZero, NoState, listState
<1>4. TurnInv /\ AccountInv
    BY DEF TurnInv, Passed, AccountInv, Holding
<1> QED BY <1>1, <1>2, <1>3, <1>4 DEF IInv

(* A page starts.                                                           *)
LEMMA ListInv == IInv /\ List /\ ~panicked => IInv'
<1> SUFFICES ASSUME IInv, List, ~panicked PROVE IInv'
    OBVIOUS
<1> USE DEF List, boundVars
<1>0. resume \in ListStates
    BY DEF IInv, TypeOK
<1>1. TypeOK'
  <2>1. batch' \in [Parts -> Batches] /\ loc' \in [Parts -> ListStates]
    BY NoStateType DEF Batches
  <2>2. pc' \in [Parts -> WorkerPoints] /\ tickets' \in [Parts -> 0..3]
    BY DEF WorkerPoints
  <2>3. limit' \in Nat \ {0} /\ capacity' \in Int /\ idx' \in 1..(N + 1)
    BY <1>0 DEF ListStates, indexOrZero
  <2>4. /\ out' \in Seq(Parts \X Nat) /\ free' \in Nat
        /\ st' \in ListStates /\ pstate' \in ListStates
    BY <1>0, NoStateType
  <2>5. /\ client' \in {"idle", "busy", "finished"}
        /\ fpc' \in {"loop", "acquire", "wait", "closed"}
        /\ revision' \in BOOLEAN /\ perr' \in BOOLEAN
        /\ done' \in BOOLEAN /\ gone' \in BOOLEAN /\ egerr' \in BOOLEAN
    OBVIOUS
  <2>6. UNCHANGED <<size, resume, delivered, panicked, failures, cancels>>
    OBVIOUS
  <2> HIDE DEF List
  <2> QED BY <2>1, <2>2, <2>3, <2>4, <2>5, <2>6 DEF IInv, TypeOK
<1>2. CursorInv'
    BY DEF IInv, TypeOK, CursorInv, CursorOK, NoState, listState
<1>3. FeederInv'
    BY <1>0 DEF FeederInv, first, indexOrZero
<1>4. TurnInv'
    BY DEF TurnInv, Passed
<1>5. AccountInv'
    BY <1>1 DEF AccountInv, Holding, TypeOK
<1> QED BY <1>1, <1>2, <1>3, <1>4, <1>5 DEF IInv

(* The feeder's steps that launch nothing, and those of the client.         *)
LEMMA ControlInv ==
    ASSUME IInv, feederCheck \/ feederAcquireFails \/ feederClose \/ Abandon \/ ReturnPage
    PROVE  IInv'
<1> USE DEF feederCheck, feederAcquireFails, feederClose, Abandon, ReturnPage,
            pageVars, feederVars, workerVars, ctxVars, clientVars, boundVars
<1>1. /\ UNCHANGED <<size, st, limit, capacity, pstate, out, idx, pc, loc, batch, panicked,
                     tickets, free, failures, revision>>
      /\ done => done'
    BY DEF IInv, TypeOK
<1>2. TypeOK'
  <2>1. perr' \in BOOLEAN /\ done' \in BOOLEAN /\ gone' \in BOOLEAN /\ egerr' \in BOOLEAN
    BY DEF IInv, TypeOK
  <2>2. fpc' \in {"loop", "acquire", "wait", "closed"} /\ cancels' \in Nat
    BY DEF IInv, TypeOK
  <2>3. client' \in {"idle", "busy", "finished"} /\ resume' \in ListStates
    BY DEF IInv, TypeOK
  <2>4. delivered' = delivered \/ delivered' = delivered \o out
    OBVIOUS
  <2>5. delivered' \in Seq(Parts \X Nat)
    <3>1. delivered \in Seq(Parts \X Nat) /\ out \in Seq(Parts \X Nat)
      BY DEF IInv, TypeOK
    <3>2. delivered \o out \in Seq(Parts \X Nat)
      BY <3>1, ConcatSeq, Zenon
    <3> QED BY <2>4, <3>1, <3>2
  <2> HIDE DEF feederCheck, feederAcquireFails, feederClose, Abandon, ReturnPage
  <2> QED BY <1>1, <2>1, <2>2, <2>3, <2>5 DEF IInv, TypeOK
<1>3. CursorInv'
    BY <1>1 DEF IInv, CursorInv, CursorOK
<1>4. FeederInv'
    BY <1>1 DEF IInv, TypeOK, FeederInv, first, FeederStops
<1>5. TurnInv'
    BY <1>1 DEF IInv, TurnInv, Clean, Passed, first
<1>6. AccountInv'
    BY <1>1 DEF IInv, AccountInv, Clean, Holding, BatchLen
<1> QED BY <1>2, <1>3, <1>4, <1>5, <1>6 DEF IInv

(* The feeder launches a worker.                                            *)
LEMMA LaunchInv == IInv /\ feederLaunch => IInv'
<1> SUFFICES ASSUME IInv, feederLaunch PROVE IInv'
    OBVIOUS
<1> USE DEF feederLaunch, pageVars, clientVars, boundVars
<1>0. idx \in Parts /\ pc[idx] = "idle" /\ Tickets \in 1..3
    BY DEF IInv, TypeOK, FeederInv, Tickets
<1>1. TypeOK'
  <2>1. free' \in Nat /\ tickets' \in [Parts -> 0..3]
    BY <1>0 DEF IInv, TypeOK
  <2>2. loc' \in [Parts -> ListStates] /\ pc' \in [Parts -> WorkerPoints]
    BY <1>0 DEF IInv, TypeOK, WorkerPoints
  <2>3. idx' \in 1..(N + 1) /\ fpc' \in {"loop", "acquire", "wait", "closed"}
    BY <1>0
  <2> QED BY <2>1, <2>2, <2>3 DEF IInv, TypeOK
<1>2. CursorInv'
    BY <1>0 DEF IInv, TypeOK, CursorInv, CursorOK
<1>3. FeederInv'
  <2>1. first' = first /\ first \in Nat
    BY DEF first, indexOrZero, IInv, TypeOK, ListStates
  <2>2. first <= idx /\ \A i \in Parts : i >= idx \/ i < first => pc[i] = "idle"
    BY DEF IInv, FeederInv
  <2>3. \A i \in Parts : i >= idx' \/ i < first => pc'[i] = "idle"
    BY <1>0, <2>1, <2>2 DEF IInv, TypeOK
  <2> QED BY <1>0, <2>1, <2>2, <2>3 DEF FeederInv
<1>4. TurnInv'
    BY <1>0 DEF IInv, TypeOK, TurnInv, Clean, Passed, first
<1>5. AccountInv'
    BY <1>0 DEF IInv, TypeOK, AccountInv, Clean, Holding, BatchLen
<1> QED BY <1>1, <1>2, <1>3, <1>4, <1>5 DEF IInv

(* Until something fails, a worker that is given its turn is the first or   *)
(* follows a worker that has finished, and so have all before it.           *)
LEMMA TurnGiven ==
    ASSUME IInv, Clean, NEW i \in Parts, waitForTurn(i), NEW j \in Parts, first <= j, j < i
    PROVE  pc[j] = "done"
<1>1. first \in Nat /\ i # first
  <2>1. st.part \in 0..N
    BY DEF IInv, TypeOK, ListStates
  <2>2. first \in Nat
    BY <2>1 DEF first, indexOrZero
  <2> QED BY <2>2
<1>2. i - 1 \in Parts /\ first <= i - 1
    BY <1>1
<1>3. pc[i - 1] = "done"
    BY <1>1, <1>2 DEF waitForTurn, NextClosed, Clean
<1>4. CASE j = i - 1
    BY <1>3, <1>4
<1>5. CASE j < i - 1
    BY <1>2, <1>3, <1>5 DEF IInv, TurnInv, Passed
<1> QED BY <1>4, <1>5

(* A worker that lists, fails or leaves.                                    *)
LEMMA OutsideInv ==
    ASSUME IInv, NEW i \in Parts,
           \/ workerList(i) \/ workerListFails(i) \/ workerTurnCut(i)
           \/ workerExit(i) \/ workerReport(i)
    PROVE  IInv'
<1> USE DEF workerList, workerListFails, workerTurnCut, workerExit, workerReport,
            pageVars, feederVars, workerVars, ctxVars, clientVars, boundVars
<1>0. PICK point \in {"turn", "failing", "exit", "done", "failed"} :
          pc' = [pc EXCEPT ![i] = point]
    OBVIOUS
<1>1. /\ pc[i] \in {"list", "turn", "exit", "failing", "failed"}
      /\ UNCHANGED <<size, st, limit, capacity, pstate, revision, perr, out, fpc, idx, loc,
                     panicked, client, resume, delivered, gone, cancels>>
      /\ done => done'
    OBVIOUS
<1>2. TypeOK' /\ CursorInv'
  <2>1. CASE workerList(i)
    <3>0. /\ workerCont(i) \in Nat /\ limit \in Nat /\ size[i] \in Nat
          /\ workerCont(i) <= size[i]
      <4> HIDE DEF workerList, workerListFails, workerTurnCut, workerExit, workerReport
      <4>0. loc[i] \in ListStates /\ limit \in Nat /\ size[i] \in 0..MaxSize
        BY DEF IInv, TypeOK
      <4>1. loc[i].cont \in Nat /\ limit \in Nat /\ size[i] \in Nat
        BY <4>0 DEF ListStates
      <4>2. loc[i].part = i => loc[i].cont <= size[i]
        BY DEF IInv, CursorInv, CursorOK
      <4> QED BY <4>1, <4>2 DEF workerCont
    <3>1. Lister(i, workerCont(i), limit) \in Batches
      BY <3>0, ListerOK
    <3>2. /\ Lister(i, workerCont(i), limit).from <= Lister(i, workerCont(i), limit).to
          /\ Lister(i, workerCont(i), limit).next <= size[i]
      BY <3>0, ListerOK
    <3>3. TypeOK'
      BY <2>1, <3>1 DEF IInv, TypeOK, WorkerPoints
    <3>4. CursorInv'
      BY <2>1, <3>2 DEF IInv, TypeOK, CursorInv, CursorOK
    <3> QED BY <3>3, <3>4
  <2>2. CASE ~workerList(i)
    <3>1. batch' = batch
      BY <2>2
    <3>2. /\ tickets' \in [Parts -> 0..3] /\ free' \in Nat /\ failures' \in Nat
      <4>1. tickets[i] \in 0..3 /\ free \in Nat /\ failures \in Nat
        BY DEF IInv, TypeOK
      <4>2. free' \in Nat
        BY <2>2, <4>1
      <4>3. failures' \in Nat
        BY <2>2, <4>1
      <4>4. tickets' = tickets \/ tickets' = [tickets EXCEPT ![i] = 0]
        BY <2>2
      <4> HIDE DEF workerList, workerListFails, workerTurnCut, workerExit, workerReport
      <4>5. tickets \in [Parts -> 0..3]
        BY DEF IInv, TypeOK
      <4>6. tickets' \in [Parts -> 0..3]
        BY <4>4, <4>5
      <4> QED BY <4>2, <4>3, <4>6
    <3>3. done' \in BOOLEAN /\ egerr' \in BOOLEAN
      BY <2>2 DEF IInv, TypeOK
    <3>4. pc' \in [Parts -> WorkerPoints]
      BY <1>0 DEF IInv, TypeOK, WorkerPoints
    <3> HIDE DEF workerList, workerListFails, workerTurnCut, workerExit, workerReport
    <3>5. TypeOK'
      BY <1>1, <3>1, <3>2, <3>3, <3>4 DEF IInv, TypeOK
    <3> QED BY <1>1, <3>1, <3>5 DEF IInv, CursorInv, CursorOK
  <2> QED BY <2>1, <2>2
<1>3. FeederInv'
    BY <1>0, <1>1 DEF IInv, TypeOK, FeederInv, first
<1>4. ASSUME Clean' PROVE Clean /\ point \in {"turn", "exit", "done"} /\ pc[i] # "failed"
    BY <1>0, <1>1, <1>4 DEF IInv, TypeOK, Clean
<1>5. TurnInv'
  <2> SUFFICES ASSUME Clean', NEW m \in Parts, NEW j \in Parts,
                      Passed(m)', first <= j, j < m
               PROVE  pc'[j] = "done"
    BY <1>1 DEF TurnInv, first
  <2>1. \A a, b \in Parts : Passed(a) /\ first <= b /\ b < a => pc[b] = "done"
    BY <1>4 DEF IInv, TurnInv
  <2>2. CASE m # i
    BY <1>0, <1>1, <2>1, <2>2 DEF IInv, TypeOK, Passed
  <2>3. CASE m = i /\ pc[i] = "exit"
    BY <1>0, <2>1, <2>3 DEF IInv, TypeOK, Passed
  <2>4. CASE m = i /\ pc[i] = "turn" /\ waitForTurn(i)
    <3> HIDE DEF workerList, workerListFails, workerTurnCut, workerExit, workerReport
    <3>1. pc[j] = "done"
      BY <1>4, <2>1, <2>4, TurnGiven
    <3> QED BY <1>0, <2>4, <3>1 DEF IInv, TypeOK
  <2>5. CASE m = i /\ pc[i] = "list"
    BY <1>0, <2>5 DEF IInv, TypeOK, Passed
  <2> QED BY <1>1, <1>4, <2>2, <2>3, <2>4, <2>5 DEF Clean
<1>6. AccountInv'
  <2> SUFFICES ASSUME Clean' PROVE AccountInv'
    BY DEF AccountInv
  <2>1. Clean
    BY <1>4
  <2>2. \A j \in Parts : pc'[j] \in {"fits", "account", "overflow", "save"} =>
            j # i /\ pc'[j] = pc[j]
    BY <1>0 DEF IInv, TypeOK
  <2>3. \A j \in Parts : pc[j] \in {"fits", "account", "overflow", "save"} =>
            pc'[j] = pc[j] /\ batch'[j] = batch[j]
    BY <1>0, <1>1 DEF IInv, TypeOK
  <2> HIDE DEF workerList, workerListFails, workerTurnCut, workerExit, workerReport
  <2> QED BY <1>1, <2>1, <2>2, <2>3 DEF IInv, AccountInv, Holding, BatchLen
<1> QED BY <1>2, <1>3, <1>5, <1>6 DEF IInv

(* Until something fails, nobody else is in the protected stretch when a    *)
(* worker is given its turn or is in it.                                    *)
LEMMA Alone ==
    ASSUME IInv, Clean, NEW i \in Parts, NEW j \in Parts, j # i, pc[i] # "idle",
           Holding(i) \/ (pc[i] = "turn" /\ waitForTurn(i))
    PROVE  ~Holding(j)
<1> SUFFICES ASSUME Holding(j) PROVE FALSE
    OBVIOUS
<1>1. first <= i /\ first <= j /\ first \in Nat
  <2>1. st.part \in 0..N
    BY DEF IInv, TypeOK, ListStates
  <2>2. first \in Nat
    BY <2>1 DEF first, indexOrZero
  <2> QED BY <2>2 DEF IInv, FeederInv, Holding
<1>2. CASE i < j
    BY <1>1, <1>2 DEF IInv, TurnInv, Passed, Holding
<1>3. CASE j < i /\ Holding(i)
    BY <1>1, <1>3 DEF IInv, TurnInv, Passed, Holding
<1>4. CASE j < i /\ waitForTurn(i)
    BY <1>1, <1>4, TurnGiven DEF Holding
<1> QED BY <1>2, <1>3, <1>4

(* A worker takes its turn.                                                 *)
LEMMA TakeTurnInv == \A i \in Parts : IInv /\ workerTurn(i) => IInv'
<1> SUFFICES ASSUME NEW i \in Parts, IInv, workerTurn(i) PROVE IInv'
    OBVIOUS
<1> USE DEF workerTurn, feederVars, ctxVars, clientVars, boundVars
<1>1. /\ batch[i] \in Batches /\ loc[i] \in ListStates
      /\ Trimmed(i) \in Batches /\ Trimmed(i).from <= Trimmed(i).to
      /\ Trimmed(i).next <= size[i]
  <2>1. batch[i] \in Batches /\ loc[i] \in ListStates /\ size[i] \in Nat
    BY DEF IInv, TypeOK
  <2>2. batch[i].from <= batch[i].to /\ batch[i].next <= size[i]
    BY DEF IInv, CursorInv
  <2>3. /\ Trimmed(i) \in Batches /\ Trimmed(i).from <= Trimmed(i).to
        /\ Trimmed(i).next <= size[i]
    BY <2>1, <2>2 DEF Trimmed, Batches, ListStates
  <2> QED BY <2>1, <2>3
<1>2. PICK point \in {"overflow", "fits"} :
        /\ pc' = [pc EXCEPT ![i] = point]
        /\ point = "overflow" <=> Trimmed(i).to - Trimmed(i).from > capacity
    OBVIOUS
<1>3. TypeOK'
  <2>1. pc' \in [Parts -> WorkerPoints]
    BY <1>2 DEF IInv, TypeOK, WorkerPoints
  <2>2. batch' \in [Parts -> Batches]
    BY <1>1 DEF IInv, TypeOK
  <2>3. loc' \in [Parts -> ListStates]
    <3>1. [loc[i] EXCEPT !.pinned = TRUE] \in ListStates
      BY <1>1 DEF ListStates
    <3>2. loc' = [loc EXCEPT ![i] = [loc[i] EXCEPT !.pinned = TRUE]]
      BY DEF IInv, TypeOK
    <3> QED BY <3>1, <3>2 DEF IInv, TypeOK
  <2> QED BY <2>1, <2>2, <2>3 DEF IInv, TypeOK
<1>4. CursorInv'
  <2>1. \A j \in Parts : loc'[j].part = loc[j].part /\ loc'[j].cont = loc[j].cont
    BY DEF IInv, TypeOK, ListStates
  <2>2. \A j \in Parts : batch'[j].from <= batch'[j].to /\ batch'[j].next <= size[j]
    BY <1>1 DEF IInv, TypeOK, CursorInv
  <2> QED BY <2>1, <2>2 DEF IInv, CursorInv, CursorOK
<1>5. FeederInv'
    BY <1>2 DEF IInv, TypeOK, FeederInv, first
<1>6. Clean' => Clean
    BY <1>2 DEF IInv, TypeOK, Clean
<1> HIDE DEF workerTurn
<1>7. pc[i] = "turn" /\ waitForTurn(i) /\ pstate = NoState
      /\ UNCHANGED <<st, limit, capacity, pstate, out, panicked>>
      /\ batch' = [batch EXCEPT ![i] = Trimmed(i)]
    BY DEF workerTurn
<1>8. TurnInv'
  <2> SUFFICES ASSUME Clean', NEW m \in Parts, NEW j \in Parts,
                      Passed(m)', first <= j, j < m
               PROVE  pc'[j] = "done"
    BY <1>7 DEF TurnInv, first
  <2>1. \A a, b \in Parts : Passed(a) /\ first <= b /\ b < a => pc[b] = "done"
    BY <1>6 DEF IInv, TurnInv
  <2>2. CASE m # i
    BY <1>2, <1>7, <2>1, <2>2 DEF IInv, TypeOK, Passed
  <2>3. CASE m = i
    <3>1. pc[j] = "done"
      BY <1>6, <1>7, <2>3, TurnGiven
    <3> QED BY <1>2, <2>3, <3>1 DEF IInv, TypeOK
  <2> QED BY <2>2, <2>3
<1>9. AccountInv'
  <2> SUFFICES ASSUME Clean' PROVE AccountInv'
    BY DEF AccountInv
  <2>1. \A j \in Parts : j # i => ~Holding(j)
    BY <1>6, <1>7, Alone
  <2>2. \A j \in Parts : ~Holding(j)
    BY <1>7, <2>1 DEF Holding
  <2>3. capacity >= 0 /\ ~panicked /\ Len(out) + capacity = limit
    BY <1>6, <1>7, <2>2 DEF IInv, AccountInv, Holding
  <2>4. \A j \in Parts : Holding(j)' => j = i /\ pc'[j] = point
    BY <1>2, <2>2 DEF IInv, TypeOK, Holding
  <2>5. BatchLen(i)' = Trimmed(i).to - Trimmed(i).from
    BY <1>7 DEF BatchLen, IInv, TypeOK
  <2>6. Trimmed(i).to \in Nat /\ Trimmed(i).from \in Nat /\ capacity \in Int
    BY <1>1 DEF Batches, IInv, TypeOK
  <2>7. /\ point = "fits" => BatchLen(i)' <= capacity
        /\ point = "overflow" => capacity < BatchLen(i)'
    BY <1>2, <2>5, <2>6
  <2> QED BY <1>2, <1>7, <2>3, <2>4, <2>7 DEF AccountInv, Holding
<1> QED BY <1>3, <1>4, <1>5, <1>8, <1>9 DEF IInv

(* What the steps of the protected stretch leave to the invariant: worker i *)
(* stays in the order of turns, and the others are outside the stretch.     *)
LEMMA InsideInv ==
    ASSUME IInv, TypeOK', CursorInv', NEW i \in Parts, Holding(i),
           NEW point \in {"account", "save", "exit", "list"},
           pc' = [pc EXCEPT ![i] = point],
           UNCHANGED <<st, fpc, idx, done>>
    PROVE  /\ FeederInv' /\ TurnInv' /\ (Clean' => Clean)
           /\ Clean => \A j \in Parts : j # i => ~Holding(j) /\ ~Holding(j)'
<1>1. FeederInv'
    BY DEF IInv, TypeOK, FeederInv, first, Holding
<1>2. Clean' => Clean
    BY DEF IInv, TypeOK, Clean, Holding
<1>3. ASSUME Clean PROVE \A j \in Parts : j # i => ~Holding(j)
    BY <1>3, Alone DEF Holding
<1>4. \A j \in Parts : j # i => pc'[j] = pc[j]
    BY DEF IInv, TypeOK
<1>5. TurnInv'
    BY <1>2, <1>4 DEF IInv, TypeOK, TurnInv, Passed, Holding, first
<1> QED BY <1>1, <1>2, <1>3, <1>4, <1>5 DEF Holding

(* A worker sends a whole batch.                                            *)
LEMMA SendAllInv == \A i \in Parts : IInv /\ workerSendAll(i) => IInv'
<1> SUFFICES ASSUME NEW i \in Parts, IInv, workerSendAll(i) PROVE IInv'
    OBVIOUS
<1> USE DEF workerSendAll, feederVars, ctxVars, clientVars, boundVars
<1>1. /\ batch[i].from \in Nat /\ batch[i].to \in Nat
      /\ batch[i].from <= batch[i].to /\ out \in Seq(Parts \X Nat)
  <2>1. batch[i] \in Batches /\ out \in Seq(Parts \X Nat)
    BY DEF IInv, TypeOK
  <2>2. batch[i].from <= batch[i].to
    BY DEF IInv, CursorInv
  <2> QED BY <2>1, <2>2 DEF Batches
<1>2. out' \in Seq(Parts \X Nat) /\ Len(out') = Len(out) + BatchLen(i)
  <2> DEFINE b == Interval(i, batch[i].from, batch[i].to)
  <2>1. b \in Seq(Parts \X Nat) /\ Len(b) = BatchLen(i)
    BY <1>1, IntervalSeq DEF BatchLen
  <2>2. out' = out \o b
    OBVIOUS
  <2> HIDE DEF b
  <2>3. out \o b \in Seq(Parts \X Nat) /\ Len(out \o b) = Len(out) + Len(b)
    BY <1>1, <2>1, ConcatSeq, Zenon
  <2> QED BY <2>1, <2>2, <2>3
<1>3. TypeOK' /\ CursorInv'
    BY <1>2 DEF IInv, TypeOK, WorkerPoints, CursorInv, CursorOK
<1>4. Holding(i)
    BY DEF Holding
<1>5. /\ FeederInv' /\ TurnInv' /\ (Clean' => Clean)
      /\ Clean => \A j \in Parts : j # i => ~Holding(j) /\ ~Holding(j)'
    BY <1>3, <1>4, InsideInv
<1>6. AccountInv'
  <2> SUFFICES ASSUME Clean' PROVE AccountInv'
    BY DEF AccountInv
  <2>1. /\ capacity >= 0 /\ ~panicked /\ pstate = NoState
        /\ Len(out) + capacity = limit /\ BatchLen(i) <= capacity
    BY <1>4, <1>5 DEF IInv, AccountInv
  <2>2. /\ pc'[i] = "account" /\ BatchLen(i)' = BatchLen(i)
        /\ UNCHANGED <<capacity, limit, panicked, pstate>>
    BY DEF IInv, TypeOK, BatchLen
  <2>3. Len(out') + capacity = limit + BatchLen(i)
    <3>1. BatchLen(i) \in Int /\ Len(out) \in Nat /\ capacity \in Int /\ limit \in Nat
      BY <1>1 DEF BatchLen, IInv, TypeOK
    <3> QED BY <1>2, <2>1, <3>1
  <2>4. \A j \in Parts : j # i => ~Holding(j)'
    BY <1>5
  <2> QED BY <2>1, <2>2, <2>3, <2>4 DEF AccountInv, Holding
<1> QED BY <1>3, <1>5, <1>6 DEF IInv

(* A worker subtracts its batch and goes on or leaves.                      *)
LEMMA SubtractInv == \A i \in Parts : IInv /\ workerAccount(i) => IInv'
<1> SUFFICES ASSUME NEW i \in Parts, IInv, workerAccount(i) PROVE IInv'
    OBVIOUS
<1> USE DEF workerAccount, feederVars, ctxVars, clientVars, boundVars
<1>1. /\ batch[i].from \in Nat /\ batch[i].to \in Nat /\ batch[i].next \in Nat
      /\ batch[i].from <= batch[i].to /\ batch[i].next <= size[i]
      /\ loc[i] \in ListStates /\ capacity \in Int
  <2>1. batch[i] \in Batches /\ loc[i] \in ListStates /\ capacity \in Int
    BY DEF IInv, TypeOK
  <2>2. batch[i].from <= batch[i].to /\ batch[i].next <= size[i]
    BY DEF IInv, CursorInv
  <2> QED BY <2>1, <2>2 DEF Batches
<1>2. PICK point \in {"exit", "list"} : pc' = [pc EXCEPT ![i] = point]
    OBVIOUS
<1>3. TypeOK' /\ CursorInv'
  <2> DEFINE l == listState(loc[i].pinned, i, batch[i].next, 0, loc[i].limit)
  <2>1. loc' = loc \/ loc' = [loc EXCEPT ![i] = l]
    BY DEF IInv, TypeOK
  <2>2. l \in ListStates /\ l.part = i /\ l.cont = batch[i].next
    BY <1>1 DEF ListStates, listState
  <2> HIDE DEF l
  <2>3. capacity' \in Int
    BY <1>1 DEF BatchLen
  <2>4. pc' \in [Parts -> WorkerPoints]
    BY <1>2 DEF IInv, TypeOK, WorkerPoints
  <2>5. loc' \in [Parts -> ListStates]
    <3>1. loc \in [Parts -> ListStates]
      BY DEF IInv, TypeOK
    <3> QED BY <2>1, <2>2, <3>1
  <2>6. \A j \in Parts : CursorOK(loc'[j])
    BY <1>1, <2>1, <2>2 DEF IInv, TypeOK, CursorInv, CursorOK
  <2>7. TypeOK'
    BY <2>3, <2>4, <2>5 DEF IInv, TypeOK
  <2> QED BY <2>6, <2>7 DEF IInv, CursorInv, CursorOK
<1>4. Holding(i)
    BY DEF Holding
<1>5. /\ FeederInv' /\ TurnInv' /\ (Clean' => Clean)
      /\ Clean => \A j \in Parts : j # i => ~Holding(j) /\ ~Holding(j)'
    BY <1>2, <1>3, <1>4, InsideInv
<1>6. AccountInv'
  <2> SUFFICES ASSUME Clean' PROVE AccountInv'
    BY DEF AccountInv
  <2>1. /\ ~panicked /\ pstate = NoState /\ BatchLen(i) <= capacity
        /\ Len(out) + capacity = limit + BatchLen(i)
    BY <1>4, <1>5 DEF IInv, AccountInv
  <2>2. UNCHANGED <<out, limit, panicked, pstate>> /\ capacity' = capacity - BatchLen(i)
    OBVIOUS
  <2>3. Len(out) + capacity' = limit /\ capacity' >= 0
    <3>1. BatchLen(i) \in Int /\ Len(out) \in Nat /\ capacity \in Int /\ limit \in Nat
      BY <1>1 DEF BatchLen, IInv, TypeOK
    <3> HIDE DEF workerAccount
    <3> QED BY <2>1, <2>2, <3>1
  <2>4. \A j \in Parts : ~Holding(j)'
    BY <1>2, <1>5 DEF Holding, IInv, TypeOK
  <2> QED BY <2>1, <2>2, <2>3, <2>4 DEF AccountInv, Holding
<1> QED BY <1>3, <1>5, <1>6 DEF IInv

(* A worker sends the part of its batch that fits.                          *)
LEMMA SendPartInv == \A i \in Parts : IInv /\ workerSendPart(i) => IInv'
<1> SUFFICES ASSUME NEW i \in Parts, IInv, workerSendPart(i) PROVE IInv'
    OBVIOUS
<1> USE DEF workerSendPart, feederVars, ctxVars, clientVars
<1>1. /\ batch[i].from \in Nat /\ capacity \in Int /\ out \in Seq(Parts \X Nat)
      /\ UNCHANGED <<capacity, limit, pstate, st, fpc, idx, done, batch, loc, size, resume>>
  <2>1. batch[i] \in Batches /\ capacity \in Int /\ out \in Seq(Parts \X Nat)
    BY DEF IInv, TypeOK
  <2> QED BY <2>1 DEF Batches
<1>2. Holding(i)
    BY DEF Holding
<1>3. CASE capacity < 0
  <2>1. ~Clean
    BY <1>1, <1>3 DEF IInv, AccountInv
  <2>2. TypeOK' /\ CursorInv' /\ FeederInv'
    BY <1>3 DEF IInv, TypeOK, CursorInv, CursorOK, FeederInv, first
  <2>3. ~Clean'
    BY <1>1, <1>3, <2>1 DEF Clean
  <2> QED BY <2>2, <2>3 DEF IInv, TurnInv, AccountInv
<1>4. CASE ~(capacity < 0)
  <2>1. out' \in Seq(Parts \X Nat) /\ Len(out') = Len(out) + capacity
    <3> DEFINE b == Interval(i, batch[i].from, batch[i].from + capacity)
    <3>0. /\ batch[i].from + capacity \in Nat /\ batch[i].from <= batch[i].from + capacity
          /\ (batch[i].from + capacity) - batch[i].from = capacity
      BY <1>1, <1>4
    <3>1. b \in Seq(Parts \X Nat) /\ Len(b) = capacity
      BY <1>1, <3>0, IntervalSeq
    <3>2. out' = out \o b
      BY <1>4
    <3> HIDE DEF b
    <3>3. out \o b \in Seq(Parts \X Nat) /\ Len(out \o b) = Len(out) + Len(b)
      BY <1>1, <3>1, ConcatSeq, Zenon
    <3> QED BY <3>1, <3>2, <3>3
  <2>2. TypeOK' /\ CursorInv'
    <3>1. pc' \in [Parts -> WorkerPoints] /\ panicked' = panicked
      BY <1>4 DEF IInv, TypeOK, WorkerPoints
    <3>2. TypeOK'
      BY <1>4, <2>1, <3>1 DEF IInv, TypeOK
    <3> QED BY <1>1, <3>2 DEF IInv, CursorInv, CursorOK
  <2>3. /\ FeederInv' /\ TurnInv' /\ (Clean' => Clean)
        /\ Clean => \A j \in Parts : j # i => ~Holding(j) /\ ~Holding(j)'
    BY <1>1, <1>2, <1>4, <2>2, InsideInv
  <2>4. AccountInv'
    <3> SUFFICES ASSUME Clean' PROVE AccountInv'
      BY DEF AccountInv
    <3>1. capacity >= 0 /\ ~panicked /\ pstate = NoState /\ Len(out) + capacity = limit
      BY <1>2, <2>3 DEF IInv, AccountInv
    <3>2. pc'[i] = "save" /\ panicked' = panicked
      BY <1>4 DEF IInv, TypeOK
    <3>3. \A j \in Parts : j # i => ~Holding(j)'
      BY <2>3
    <3> QED BY <1>1, <2>1, <3>1, <3>2, <3>3 DEF AccountInv, Holding
  <2> QED BY <2>2, <2>3, <2>4 DEF IInv
<1> QED BY <1>3, <1>4

(* A worker saves the state of the cut page.                                *)
LEMMA SaveInv == \A i \in Parts : IInv /\ workerSave(i) => IInv'
<1> SUFFICES ASSUME NEW i \in Parts, IInv, workerSave(i) PROVE IInv'
    OBVIOUS
<1> USE DEF workerSave, feederVars, ctxVars, clientVars, boundVars
<1>1. workerCont(i) \in Nat /\ workerCont(i) <= size[i] /\ size[i] \in Nat
  <2>1. loc[i] \in ListStates /\ size[i] \in 0..MaxSize
    BY DEF IInv, TypeOK
  <2>2. loc[i].part = i => loc[i].cont <= size[i]
    BY DEF IInv, CursorInv, CursorOK
  <2> QED BY <2>1, <2>2 DEF workerCont, ListStates
<1>2. /\ pstate' \in ListStates /\ pstate'.part = i /\ pstate'.cont <= size[i]
      /\ pstate' # NoState
  <2>1. capacity \in Int /\ limit \in Nat
    BY DEF IInv, TypeOK
  <2> QED BY <1>1, <2>1 DEF listState, NoState, ListStates
<1>3. TypeOK' /\ CursorInv'
  <2>1. pc' \in [Parts -> WorkerPoints] /\ capacity' \in Int
    BY DEF IInv, TypeOK, WorkerPoints
  <2>2. UNCHANGED <<size, loc, batch, resume, st>>
    OBVIOUS
  <2>3. TypeOK'
    BY <1>2, <2>1 DEF IInv, TypeOK
  <2>4. CursorOK(pstate)'
    BY <1>2, <2>2 DEF CursorOK
  <2> QED BY <2>2, <2>3, <2>4 DEF IInv, CursorInv, CursorOK
<1>4. Holding(i)
    BY DEF Holding
<1>5. /\ FeederInv' /\ TurnInv' /\ (Clean' => Clean)
      /\ Clean => \A j \in Parts : j # i => ~Holding(j) /\ ~Holding(j)'
    BY <1>3, <1>4, InsideInv
<1>6. AccountInv'
  <2> SUFFICES ASSUME Clean' PROVE AccountInv'
    BY DEF AccountInv
  <2>1. ~panicked /\ Len(out) = limit
    BY <1>4, <1>5 DEF IInv, AccountInv
  <2>2. UNCHANGED <<out, limit, panicked>> /\ capacity' = 0
    OBVIOUS
  <2>3. \A j \in Parts : ~Holding(j)'
    BY <1>5 DEF Holding, IInv, TypeOK
  <2> HIDE DEF workerSave
  <2>4. pstate' # NoState
    BY <1>2
  <2>5. \A j \in Parts : pc'[j] \notin {"fits", "account", "overflow", "save"}
    BY <2>3 DEF Holding
  <2> QED BY <2>1, <2>2, <2>4, <2>5 DEF AccountInv, Holding
<1> QED BY <1>3, <1>5, <1>6 DEF IInv

(* Every step keeps the invariant.                                          *)
LEMMA NextInv == IInv /\ [Next]_vars => IInv'
<1> SUFFICES ASSUME IInv, [Next]_vars PROVE IInv'
    OBVIOUS
<1>1. CASE ~panicked /\ (feeder \/ List \/ Abandon \/ ReturnPage)
    BY <1>1, ControlInv, LaunchInv, ListInv DEF feeder
<1>2. ASSUME NEW i \in Parts, worker(i) PROVE IInv'
    BY <1>2, OutsideInv, TakeTurnInv, SendAllInv, SubtractInv, SendPartInv, SaveInv DEF worker
<1>3. CASE UNCHANGED vars
  <2> USE <1>3 DEF vars, pageVars, feederVars, workerVars, ctxVars, clientVars, boundVars
  <2>1. TypeOK' /\ CursorInv'
    BY DEF IInv, TypeOK, CursorInv, CursorOK
  <2>2. FeederInv' /\ TurnInv'
    BY DEF IInv, FeederInv, TurnInv, Clean, Passed, first
  <2>3. AccountInv'
    BY DEF IInv, AccountInv, Clean, Holding, BatchLen
  <2> QED BY <2>1, <2>2, <2>3 DEF IInv
<1> QED BY <1>1, <1>2, <1>3 DEF Next, Running, Code, Terminated

(* In every reachable state the invariant holds.                            *)
THEOREM Invariance == Spec => []IInv
<1> QED BY InitInv, NextInv, PTL DEF Spec

(* The types of the lister's state (parallel.go 17-24, 80-94).              *)
THEOREM TypeCorrect == Spec => []TypeOK
<1>1. IInv => TypeOK
    BY DEF IInv
<1> QED BY <1>1, Invariance, PTL

(* The turns make the protected stretch exclusive (parallel.go 144-183).    *)
THEOREM TurnsExclude == Spec => []TurnExclusive
<1>1. IInv => TurnExclusive
    BY Alone DEF TurnExclusive, Holding
<1> QED BY <1>1, Invariance, PTL

(* Until something fails a page never exceeds its limit, and the slice of   *)
(* parallel.go 162 is in range.                                             *)
THEOREM PagesWithinLimit == Spec => []PageWithinLimit
<1>1. IInv => PageWithinLimit
  <2> SUFFICES ASSUME IInv, Clean PROVE capacity >= 0 /\ Len(out) <= limit /\ ~panicked
    BY DEF PageWithinLimit
  <2>1. capacity >= 0 /\ ~panicked
    BY DEF IInv, AccountInv
  <2>2. capacity \in Int /\ limit \in Nat /\ Len(out) \in Nat
    BY DEF IInv, TypeOK
  <2>3. CASE pstate # NoState
    BY <2>2, <2>3 DEF IInv, AccountInv
  <2>4. ASSUME NEW i \in Parts, pc[i] \in {"account", "save"} PROVE Len(out) <= limit
    <3>1. CASE pc[i] = "save"
      BY <2>2, <3>1 DEF IInv, AccountInv
    <3>2. CASE pc[i] = "account"
      <4>1. BatchLen(i) <= capacity /\ Len(out) + capacity = limit + BatchLen(i)
        BY <3>2 DEF IInv, AccountInv
      <4>2. batch[i] \in Batches
        BY DEF IInv, TypeOK
      <4>3. BatchLen(i) \in Int
        BY <4>2 DEF BatchLen, Batches
      <4> QED BY <2>2, <4>1, <4>3
    <3> QED BY <2>4, <3>1, <3>2
  <2>5. CASE pstate = NoState /\ \A i \in Parts : pc[i] \notin {"account", "save"}
    BY <2>1, <2>2, <2>5 DEF IInv, AccountInv
  <2> QED BY <2>1, <2>3, <2>4, <2>5
<1> QED BY <1>1, Invariance, PTL

(***************************************************************************)
(* The order of what is delivered.                                          *)
(***************************************************************************)
(* How many objects of partition i are before a list state.                 *)
Entry(i, s) == IF s.part = i THEN s.cont + s.offset ELSE 0

(* How many objects of each partition are before a token.                   *)
Start(s) == [i \in Parts |-> IF i < indexOrZero(s.part) THEN size[i] ELSE Entry(i, s)]

ListLen(i, cont, lim) == Lister(i, cont, lim).to - cont

(* A token that points at an object of the list it was cut from.            *)
ValidToken(s) ==
    /\ s.part \in Parts /\ s.limit > 0
    /\ s.offset \in Nat /\ s.offset < ListLen(s.part, s.cont, s.limit)

(* How many objects of partition i have been sent, in this page or before.  *)
Reached(i) ==
    CASE pc[i] = "idle" -> IF i < first THEN size[i] ELSE Entry(i, st)
      [] pc[i] \in {"fits", "overflow"} -> batch[i].from
      [] pc[i] = "account" -> batch[i].to
      [] pc[i] = "save" -> batch[i].from + capacity
      [] pc[i] \in {"exit", "done"} ->
           IF pstate = NoState \/ i < pstate.part THEN size[i] ELSE Entry(i, pstate)
      [] OTHER -> Entry(i, loc[i])

reached == [i \in Parts |-> Reached(i)]

(* s is in order and holds the first r[i] objects of each partition i.      *)
Covers(s, r) ==
    /\ \A k, l \in 1..Len(s) : k < l => Before(s[k], s[l])
    /\ \A k \in 1..Len(s) : \E i \in Parts : \E n \in 1..r[i] : s[k] = <<i, n>>
    /\ \A i \in Parts : \A n \in 1..r[i] : In(<<i, n>>, s)

(* A partition is begun only when the ones before it are finished.          *)
Frontier(r) ==
    /\ \A i \in Parts : r[i] \in 0..size[i]
    /\ \A i, j \in Parts : i < j /\ r[j] > 0 => r[i] = size[i]

(* The elements of a concatenation.                                         *)
LEMMA ConcatElements ==
    ASSUME NEW S, NEW s \in Seq(S), NEW t \in Seq(S)
    PROVE  /\ Len(s \o t) = Len(s) + Len(t)
           /\ \A k \in 1..Len(s) : (s \o t)[k] = s[k]
           /\ \A k \in 1..Len(t) : (s \o t)[Len(s) + k] = t[k]
OBVIOUS

(* Sending the next objects of a partition when nothing of a later one has  *)
(* been sent.                                                               *)
LEMMA CoversAppend ==
    ASSUME NEW s \in Seq(Parts \X Nat), NEW r \in [Parts -> Nat],
           NEW i \in Parts, NEW c \in Nat, NEW to \in Nat, r[i] = c, c <= to, Covers(s, r),
           c < to => \A j \in Parts : i < j => r[j] = 0
    PROVE  Covers(s \o Interval(i, c, to), [r EXCEPT ![i] = to])
<1> DEFINE t == Interval(i, c, to)
           u == s \o t
           q == [r EXCEPT ![i] = to]
           last == Len(s)
           more == to - c
<1>1. t \in Seq(Parts \X Nat) /\ Len(t) = more
    BY IntervalSeq
<1>2. \A k \in 1..more : t[k] = <<i, c + k>>
    BY DEF Interval
<1>3. /\ Len(u) = last + Len(t)
      /\ \A k \in 1..last : u[k] = s[k]
      /\ \A k \in 1..Len(t) : u[last + k] = t[k]
  <2> DEFINE S == Parts \X Nat
  <2>1. s \in Seq(S) /\ t \in Seq(S)
    BY <1>1
  <2> HIDE DEF t, S
  <2> QED BY <2>1, ConcatElements
<1>4. q[i] = to /\ \A j \in Parts : j # i => q[j] = r[j]
    OBVIOUS
<1>5. last \in Nat /\ more \in Nat /\ i \in Nat
    OBVIOUS
<1>6. more > 0 => c < to
    OBVIOUS
<1>7. \A k \in 1..more : c < c + k /\ c + k <= to
    OBVIOUS
<1>8. \A n \in Nat : c < n /\ n <= to => n - c \in 1..more /\ c + (n - c) = n
    OBVIOUS
<1> HIDE DEF t, u, q, last, more
<1>9. Len(u) = last + more /\ \A k \in 1..more : u[last + k] = <<i, c + k>>
    BY <1>1, <1>2, <1>3
<1>10. \A k \in 1..last : \E a \in Parts : \E n \in 1..r[a] : u[k] = <<a, n>>
    BY <1>3 DEF Covers, last
<1>11. ASSUME NEW k \in 1..(last + more), k \notin 1..last
       PROVE  k - last \in 1..more /\ k = last + (k - last)
    BY <1>5, <1>11
<1>12. ASSUME NEW k \in 1..(last + more), NEW l \in 1..(last + more), k < l
       PROVE  Before(u[k], u[l])
  <2>1. CASE l \in 1..last
    <3>1. k \in 1..last
      BY <1>12, <2>1, <1>5
    <3>2. u[k] = s[k] /\ u[l] = s[l]
      BY <1>3, <2>1, <3>1
    <3>3. Before(s[k], s[l])
      BY <1>12, <2>1, <3>1 DEF Covers, last
    <3> QED BY <3>2, <3>3
  <2>2. CASE l \notin 1..last
    <3>1. PICK m \in 1..more : l = last + m
      BY <1>11, <2>2
    <3>2. u[l] = <<i, c + m>> /\ c < c + m /\ c < to /\ c + m \in Nat
      BY <1>5, <1>6, <1>7, <1>9, <3>1
    <3>3. CASE k \in 1..last
      <4>1. PICK a \in Parts : \E n \in 1..r[a] : u[k] = <<a, n>>
        BY <1>10, <3>3
      <4>2. PICK n \in 1..r[a] : u[k] = <<a, n>>
        BY <4>1
      <4>3. a \in Nat /\ n \in Nat /\ 1 <= n /\ n <= r[a]
        OBVIOUS
      <4>4. i < a => r[a] = 0
        BY <3>2
      <4>5. a <= i
        BY <1>5, <4>3, <4>4
      <4>6. a = i => n < c + m
        BY <3>2, <4>3
      <4>7. a < i \/ (a = i /\ n < c + m)
        BY <1>5, <4>3, <4>5, <4>6
      <4> QED BY <3>2, <4>2, <4>7 DEF Before
    <3>4. CASE k \notin 1..last
      <4>1. PICK p \in 1..more : k = last + p
        BY <1>11, <3>4
      <4>2. u[k] = <<i, c + p>>
        BY <1>9, <4>1
      <4>3. c + p < c + m
        BY <1>5, <1>12, <3>1, <4>1
      <4> QED BY <3>2, <4>2, <4>3 DEF Before
    <3> QED BY <3>3, <3>4
  <2> QED BY <2>1, <2>2
<1>13. ASSUME NEW k \in 1..(last + more)
       PROVE  \E a \in Parts : \E n \in 1..q[a] : u[k] = <<a, n>>
  <2>1. CASE k \in 1..last
    <3>1. PICK a \in Parts : \E n \in 1..r[a] : u[k] = <<a, n>>
      BY <1>10, <2>1
    <3>2. PICK n \in 1..r[a] : u[k] = <<a, n>>
      BY <3>1
    <3>3. n \in 1..q[a]
      BY <1>4
    <3> QED BY <3>2, <3>3
  <2>2. CASE k \notin 1..last
    <3>1. PICK m \in 1..more : k = last + m
      BY <1>11, <2>2
    <3>2. u[k] = <<i, c + m>> /\ c + m \in 1..to
      BY <1>7, <1>9, <3>1
    <3>3. c + m \in 1..q[i]
      BY <1>4, <3>2
    <3> QED BY <3>2, <3>3
  <2> QED BY <2>1, <2>2
<1>14. ASSUME NEW j \in Parts, NEW n \in 1..q[j] PROVE \E k \in 1..(last + more) : u[k] = <<j, n>>
  <2>1. CASE n \in 1..r[j]
    <3>1. PICK k \in 1..last : s[k] = <<j, n>>
      BY <2>1 DEF Covers, In, last
    <3>2. u[k] = <<j, n>>
      BY <1>3, <3>1
    <3>3. k \in 1..(last + more)
      BY <1>5
    <3> QED BY <3>2, <3>3
  <2>2. CASE n \notin 1..r[j]
    <3>1. j = i
      BY <1>4, <2>2
    <3>2. n \in Nat /\ n <= to
      BY <1>4, <3>1
    <3>3. c < n
      BY <2>2, <3>1, <3>2
    <3>4. PICK m \in 1..more : n = c + m
      BY <1>8, <3>2, <3>3
    <3>5. u[last + m] = <<j, n>> /\ last + m \in 1..(last + more)
      BY <1>5, <1>9, <3>1, <3>4
    <3> QED BY <3>5
  <2> QED BY <2>1, <2>2
<1>15. Covers(u, q)
  <2>1. \A k, l \in 1..Len(u) : k < l => Before(u[k], u[l])
    BY <1>9, <1>12
  <2>2. \A k \in 1..Len(u) : \E a \in Parts : \E n \in 1..q[a] : u[k] = <<a, n>>
    BY <1>9, <1>13
  <2>3. \A j \in Parts : \A n \in 1..q[j] : \E k \in 1..Len(u) : u[k] = <<j, n>>
    BY <1>9, <1>14
  <2> QED BY <2>1, <2>2, <2>3, Zenon DEF Covers, In
<1> QED BY <1>15 DEF t, u, q

(* What a sequence that covers positions holds.                             *)
LEMMA CoversIn ==
    ASSUME NEW s \in Seq(Parts \X Nat), NEW r \in [Parts -> Nat], Covers(s, r),
           NEW i \in Parts, NEW n \in Nat \ {0}
    PROVE  In(<<i, n>>, s) <=> n <= r[i]
<1>1. ASSUME n <= r[i] PROVE In(<<i, n>>, s)
  <2>1. n \in 1..r[i]
    BY <1>1
  <2> QED BY <2>1 DEF Covers
<1>2. ASSUME In(<<i, n>>, s) PROVE n <= r[i]
  <2>1. PICK k \in 1..Len(s) : s[k] = <<i, n>>
    BY <1>2 DEF In
  <2>2. PICK a \in Parts : \E m \in 1..r[a] : s[k] = <<a, m>>
    BY DEF Covers
  <2>3. PICK m \in 1..r[a] : s[k] = <<a, m>>
    BY <2>2
  <2>4. a = i /\ m = n
    BY <2>1, <2>3
  <2> QED BY <2>4
<1> QED BY <1>1, <1>2

(* A sequence that covers a frontier is the beginning of the full list.     *)
LEMMA CoversInOrder ==
    ASSUME size \in [Parts -> 0..MaxSize], NEW s \in Seq(Parts \X Nat),
           NEW r \in [Parts -> Nat], Covers(s, r), Frontier(r)
    PROVE  InOrder(s)
<1>1. \A i \in Parts : size[i] \in Nat /\ size[i] <= MaxSize /\ r[i] <= size[i]
    BY DEF Frontier
<1>2. ASSUME NEW k \in 1..Len(s)
      PROVE  /\ s[k] \in Objects
             /\ \A o \in Objects : Before(o, s[k]) => In(o, s)
  <2>1. PICK i \in Parts : \E n \in 1..r[i] : s[k] = <<i, n>>
    BY DEF Covers
  <2>2. PICK n \in 1..r[i] : s[k] = <<i, n>>
    BY <2>1
  <2>3. n \in Nat /\ 1 <= n /\ n <= r[i] /\ r[i] \in Nat
    OBVIOUS
  <2>4. n \in 1..MaxSize /\ n <= size[i]
    <3>1. size[i] \in Nat /\ size[i] <= MaxSize /\ r[i] <= size[i]
      BY <1>1
    <3> QED BY <2>3, <3>1
  <2>5. s[k] \in Objects
    <3>1. <<i, n>> \in Parts \X (1..MaxSize) /\ <<i, n>>[1] = i /\ <<i, n>>[2] = n
      BY <2>4
    <3> QED BY <2>2, <2>4, <3>1, Zenon DEF Objects
  <2>6. ASSUME NEW o \in Objects, Before(o, s[k]) PROVE In(o, s)
    <3>1. PICK j \in Parts, m \in 1..MaxSize : o = <<j, m>> /\ m <= size[j]
      BY DEF Objects
    <3>2. j < i \/ (j = i /\ m < n)
      BY <2>2, <2>6, <3>1 DEF Before
    <3>3. m <= r[j]
      <4>1. CASE j < i
        <5>1. r[i] > 0
          BY <2>3
        <5>2. r[j] = size[j]
          BY <4>1, <5>1 DEF Frontier
        <5> QED BY <3>1, <5>2
      <4>2. CASE j = i /\ m < n
        BY <2>3, <4>2
      <4> QED BY <3>2, <4>1, <4>2
    <3>4. m \in Nat \ {0}
      OBVIOUS
    <3>5. In(<<j, m>>, s)
      BY <3>3, <3>4, CoversIn
    <3> QED BY <3>1, <3>5
  <2> QED BY <2>5, <2>6
<1> QED BY <1>2 DEF InOrder, Covers

(* Neither the request nor a Lister has failed, and the page is not over.   *)
Good == Clean /\ client = "busy"

(* The client waits for a page exactly while one is being made.             *)
ClientInv ==
    /\ client # "busy" => fpc = "closed"
    /\ fpc = "closed" => \A i \in Parts : pc[i] \in {"idle", "done"}
    /\ client = "busy" =>
         /\ st = resume
         /\ resume # NoState => limit = resume.limit
         /\ done <=> gone \/ egerr
         /\ fpc = "closed" => perr = egerr
    /\ client = "finished" => resume = NoState /\ InOrder(delivered)

(* A token points at an object, and everything before it was delivered.     *)
TokenInv ==
    /\ resume # NoState => ValidToken(resume)
    /\ client # "finished" => Covers(delivered, Start(resume))

(* The feeder stops early only when the limit is used up.                   *)
LaunchedInv ==
    Good =>
      /\ \A i \in Parts : first <= i /\ i < idx => pc[i] # "idle"
      /\ idx = first => capacity = limit /\ pstate = NoState
      /\ fpc \in {"wait", "closed"} => idx > N \/ capacity <= 0

(* A worker whose cursor is in its own partition is the only one at work    *)
(* among those before it; an offset is met only before anything is sent.    *)
RoundInv ==
    Good => \A i \in Parts : pc[i] \in {"list", "turn"} /\ loc[i].part = i =>
      /\ pstate = NoState
      /\ loc[i].offset \in Nat
      /\ loc[i].offset > 0 =>
           i = first /\ capacity = limit /\ loc[i].offset < ListLen(i, loc[i].cont, limit)
      /\ \A j \in Parts : first <= j /\ j < i => pc[j] = "done"

(* What a batch is, from the List call to the cut.                          *)
BatchInv ==
    Good => \A i \in Parts :
      /\ pc[i] \in {"turn", "overflow", "save"} =>
           batch[i] = Lister(i, workerCont(i), limit)
      /\ Holding(i) =>
           /\ batch[i].to <= size[i] /\ (batch[i].to = 0 => size[i] = 0)
           /\ batch[i].next = IF batch[i].to < size[i] THEN batch[i].to ELSE 0
      /\ pc[i] = "save" => 0 <= capacity /\ capacity < BatchLen(i)

(* The state a cut page saved.                                              *)
SavedInv ==
    Good /\ pstate # NoState =>
      /\ ValidToken(pstate) /\ pstate.limit = limit
      /\ pc[pstate.part] \in {"exit", "done"}

(* What was delivered and sent is what the workers have reached.            *)
SentInv == Good => Covers(delivered \o out, reached) /\ Frontier(reached)

PageInv ==
    /\ ClientInv /\ TokenInv /\ LaunchedInv /\ RoundInv /\ BatchInv /\ SavedInv /\ SentInv
    /\ CompleteUnlessFull

(* The types the proofs below use.                                          *)
LEMMA Shapes ==
    ASSUME IInv
    PROVE  /\ first \in Parts /\ limit \in Nat \ {0} /\ capacity \in Int /\ idx \in 1..(N + 1)
           /\ size \in [Parts -> 0..MaxSize] /\ st \in ListStates
           /\ resume \in ListStates /\ pstate \in ListStates
           /\ \A i \in Parts :
                /\ loc[i] \in ListStates /\ batch[i] \in Batches
                /\ size[i] \in Nat /\ workerCont(i) \in Nat /\ workerCont(i) <= size[i]
                /\ loc[i].part = i => loc[i].cont <= size[i]
                /\ batch[i].from \in Nat /\ batch[i].to \in Nat /\ batch[i].from <= batch[i].to
                /\ batch[i].next \in Nat
                /\ pc[i] # "idle" => first <= i /\ i < idx
<1>1. /\ limit \in Nat \ {0} /\ capacity \in Int /\ idx \in 1..(N + 1)
      /\ size \in [Parts -> 0..MaxSize] /\ st \in ListStates
      /\ resume \in ListStates /\ pstate \in ListStates
      /\ loc \in [Parts -> ListStates] /\ batch \in [Parts -> Batches]
    BY DEF IInv, TypeOK
<1>2. st.part \in 0..N
    BY <1>1 DEF ListStates
<1>3. first \in Parts
    BY <1>2 DEF first, indexOrZero
<1>4. ASSUME NEW i \in Parts
      PROVE  /\ loc[i] \in ListStates /\ batch[i] \in Batches
             /\ size[i] \in Nat /\ workerCont(i) \in Nat /\ workerCont(i) <= size[i]
             /\ loc[i].part = i => loc[i].cont <= size[i]
             /\ batch[i].from \in Nat /\ batch[i].to \in Nat /\ batch[i].from <= batch[i].to
             /\ batch[i].next \in Nat
             /\ pc[i] # "idle" => first <= i /\ i < idx
  <2>1. loc[i] \in ListStates /\ batch[i] \in Batches /\ size[i] \in Nat
    BY <1>1
  <2>2. loc[i].part = i => loc[i].cont <= size[i]
    BY DEF IInv, CursorInv, CursorOK
  <2>3. workerCont(i) \in Nat /\ workerCont(i) <= size[i]
    BY <2>1, <2>2 DEF workerCont, ListStates
  <2>4. batch[i].from \in Nat /\ batch[i].to \in Nat /\ batch[i].next \in Nat
    BY <2>1 DEF Batches
  <2>5. batch[i].from <= batch[i].to
    BY DEF IInv, CursorInv
  <2>6. pc[i] # "idle" => ~(i >= idx) /\ ~(i < first)
    BY DEF IInv, FeederInv
  <2>7. pc[i] # "idle" => first <= i /\ i < idx
    BY <1>1, <1>3, <2>6
  <2> QED BY <2>1, <2>2, <2>3, <2>4, <2>5, <2>7
<1> QED BY <1>1, <1>3, <1>4

(* What was sent is a sequence of objects.                                  *)
LEMMA SentType ==
    ASSUME IInv
    PROVE  delivered \o out \in Seq(Parts \X Nat)
<1> DEFINE S == Parts \X Nat
<1>1. delivered \in Seq(S) /\ out \in Seq(S)
    BY DEF IInv, TypeOK
<1> HIDE DEF S
<1>2. delivered \o out \in Seq(S)
    BY <1>1, ConcatSeq
<1> QED BY <1>2 DEF S

(* The positions are numbers of objects.                                    *)
LEMMA ReachedType ==
    ASSUME IInv, Frontier(reached)
    PROVE  reached \in [Parts -> Nat]
<1>1. \A i \in Parts : reached[i] \in 0..size[i] /\ size[i] \in Nat
    BY Shapes DEF Frontier
<1>2. reached = [i \in Parts |-> reached[i]]
    BY DEF reached
<1> HIDE DEF reached
<1> QED BY <1>1, <1>2

(* What a Lister call returns.                                              *)
LEMMA ListerFacts ==
    ASSUME NEW i \in Parts, NEW c \in Nat, NEW l \in Nat \ {0}, size[i] \in Nat, c <= size[i]
    PROVE  /\ Lister(i, c, l).from = c
           /\ Lister(i, c, l).to \in Nat /\ c <= Lister(i, c, l).to
           /\ Lister(i, c, l).to <= size[i] /\ Lister(i, c, l).to - c <= l
           /\ Lister(i, c, l).next =
                IF Lister(i, c, l).to < size[i] THEN Lister(i, c, l).to ELSE 0
           /\ ListLen(i, c, l) = Lister(i, c, l).to - c
           /\ Lister(i, c, l).to = 0 => size[i] = 0
BY DEF Lister, Minimum, ListLen

(* Where a token points is inside its partition.                            *)
LEMMA TokenInside ==
    ASSUME size \in [Parts -> 0..MaxSize], NEW s \in ListStates, ValidToken(s), CursorOK(s)
    PROVE  /\ s.part \in Parts /\ s.cont \in Nat /\ s.offset \in Nat
           /\ s.cont + s.offset < size[s.part]
<1>1. /\ s.part \in Parts /\ s.part # 0 /\ s.cont \in Nat /\ s.offset \in Nat /\ s.limit \in Nat \ {0}
      /\ s.offset < ListLen(s.part, s.cont, s.limit)
    BY DEF ValidToken, ListStates
<1>2. s.cont <= size[s.part] /\ size[s.part] \in Nat
    BY <1>1 DEF CursorOK
<1>3. /\ Lister(s.part, s.cont, s.limit).to <= size[s.part]
      /\ Lister(s.part, s.cont, s.limit).to \in Nat
      /\ ListLen(s.part, s.cont, s.limit) = Lister(s.part, s.cont, s.limit).to - s.cont
    BY <1>1, <1>2, ListerFacts
<1> QED BY <1>1, <1>2, <1>3

(* The positions of a token are a frontier.                                 *)
LEMMA StartFrontier ==
    ASSUME size \in [Parts -> 0..MaxSize], NEW s \in ListStates, CursorOK(s),
           s # NoState => ValidToken(s)
    PROVE  /\ Start(s) \in [Parts -> Nat] /\ Frontier(Start(s))
<1>1. CASE s = NoState
  <2>1. Start(s) = [i \in Parts |-> 0]
    BY <1>1 DEF Start, Entry, NoState, listState, indexOrZero
  <2> QED BY <2>1 DEF Frontier
<1>2. CASE s # NoState
  <2> DEFINE p == s.part
             o == s.cont + s.offset
  <2>1. p \in Parts /\ o \in Nat /\ o < size[p] /\ indexOrZero(s.part) = p
    BY <1>2, TokenInside DEF indexOrZero
  <2>2. Start(s) = [i \in Parts |-> IF i < p THEN size[i] ELSE IF p = i THEN o ELSE 0]
    BY <2>1 DEF Start, Entry
  <2> HIDE DEF p, o
  <2>3. \A i \in Parts : size[i] \in Nat
    OBVIOUS
  <2> DEFINE r == Start(s)
  <2>4. \A i \in Parts : /\ i < p => r[i] = size[i]
                         /\ i = p => r[i] = o
                         /\ i > p => r[i] = 0
    BY <2>1, <2>2
  <2>5. r \in [Parts -> Nat]
    BY <2>1, <2>2, <2>3
  <2> HIDE DEF r
  <2>6. \A i \in Parts : r[i] \in 0..size[i]
    BY <2>1, <2>3, <2>4
  <2>7. \A i, j \in Parts : i < j /\ r[j] > 0 => r[i] = size[i]
    BY <2>1, <2>4
  <2>8. Frontier(r)
    BY <2>6, <2>7 DEF Frontier
  <2> QED BY <2>5, <2>8 DEF r
<1> QED BY <1>1, <1>2

(* Where each control point has got to.                                     *)
LEMMA ReachedAt ==
    \A i \in Parts :
      /\ pc[i] = "idle" => Reached(i) = IF i < first THEN size[i] ELSE Entry(i, st)
      /\ pc[i] \in {"list", "turn", "failing", "failed"} => Reached(i) = Entry(i, loc[i])
      /\ pc[i] \in {"fits", "overflow"} => Reached(i) = batch[i].from
      /\ pc[i] = "account" => Reached(i) = batch[i].to
      /\ pc[i] = "save" => Reached(i) = batch[i].from + capacity
      /\ pc[i] \in {"exit", "done"} =>
           Reached(i) = IF pstate = NoState \/ i < pstate.part THEN size[i] ELSE Entry(i, pstate)
<1> SUFFICES ASSUME NEW i \in Parts
             PROVE
      /\ pc[i] = "idle" => Reached(i) = IF i < first THEN size[i] ELSE Entry(i, st)
      /\ pc[i] \in {"list", "turn", "failing", "failed"} => Reached(i) = Entry(i, loc[i])
      /\ pc[i] \in {"fits", "overflow"} => Reached(i) = batch[i].from
      /\ pc[i] = "account" => Reached(i) = batch[i].to
      /\ pc[i] = "save" => Reached(i) = batch[i].from + capacity
      /\ pc[i] \in {"exit", "done"} =>
           Reached(i) = IF pstate = NoState \/ i < pstate.part THEN size[i] ELSE Entry(i, pstate)
    OBVIOUS
<1> QED BY DEF Reached

(* What no step of a worker changes.                                        *)
LEMMA WorkerFrame ==
    ASSUME IInv, NEW i \in Parts, worker(i)
    PROVE  /\ UNCHANGED <<size, st, limit, resume, delivered, client, gone, perr, fpc, idx>>
           /\ first' = first
           /\ pc[i] \notin {"idle", "done"}
           /\ \A j \in Parts : j # i =>
                pc'[j] = pc[j] /\ loc'[j] = loc[j] /\ batch'[j] = batch[j]
           /\ done => done'
           /\ (done <=> gone \/ egerr) => (done' <=> gone \/ egerr')
<1>0. /\ pc \in [Parts -> WorkerPoints] /\ loc \in [Parts -> ListStates]
      /\ batch \in [Parts -> Batches]
    BY DEF IInv, TypeOK
<1>1. UNCHANGED <<size, st, limit, resume, delivered, client, gone, perr, fpc, idx>>
    BY DEF worker, workerList, workerListFails, workerTurnCut, workerTurn, workerSendAll,
           workerAccount, workerSendPart, workerSave, workerExit, workerReport,
           pageVars, feederVars, ctxVars, clientVars, boundVars
<1>2. first' = first
    BY <1>1 DEF first
<1>3. pc[i] \notin {"idle", "done"}
    BY DEF worker, workerList, workerListFails, workerTurnCut, workerTurn, workerSendAll,
           workerAccount, workerSendPart, workerSave, workerExit, workerReport
<1>4. ASSUME NEW j \in Parts, j # i
      PROVE  pc'[j] = pc[j] /\ loc'[j] = loc[j] /\ batch'[j] = batch[j]
    BY <1>0, <1>4
       DEF worker, workerList, workerListFails, workerTurnCut, workerTurn, workerSendAll,
           workerAccount, workerSendPart, workerSave, workerExit, workerReport
<1>5. (done => done') /\ ((done <=> gone \/ egerr) => (done' <=> gone \/ egerr'))
  <2>1. UNCHANGED <<done, egerr>> \/ (done' /\ egerr')
    BY DEF worker, workerList, workerListFails, workerTurnCut, workerTurn, workerSendAll,
           workerAccount, workerSendPart, workerSave, workerExit, workerReport, ctxVars
  <2>2. done \in BOOLEAN /\ done' \in BOOLEAN
    BY <2>1 DEF IInv, TypeOK
  <2> QED BY <2>1, <2>2
<1> QED BY <1>1, <1>2, <1>3, <1>4, <1>5

(* The steps of a worker after which nothing has failed.                    *)
LEMMA WorkerGood ==
    ASSUME IInv, NEW i \in Parts, worker(i), Good'
    PROVE  /\ Good
           /\ \/ workerList(i) \/ workerTurnCut(i) \/ workerTurn(i)
              \/ workerSendAll(i) \/ workerAccount(i)
              \/ workerSendPart(i) /\ 0 <= capacity
              \/ workerSave(i)
              \/ workerExit(i) /\ pc[i] = "exit"
<1>1. pc \in [Parts -> WorkerPoints] /\ capacity \in Int
    BY DEF IInv, TypeOK
<1>2. ~done' /\ \A j \in Parts : pc'[j] \notin {"failing", "failed"}
    BY DEF Good, Clean
<1>3. ~workerListFails(i) /\ ~workerReport(i)
    BY <1>1, <1>2 DEF workerListFails, workerReport
<1>4. workerExit(i) => pc[i] = "exit"
    BY <1>1, <1>2 DEF workerExit
<1>5. pc[i] \notin {"failing", "failed"}
    BY <1>3, <1>4 DEF worker, workerList, workerTurnCut, workerTurn, workerSendAll,
           workerAccount, workerSendPart, workerSave
<1>6. Good
    BY <1>2, <1>5, WorkerFrame DEF Good, Clean
<1>7. 0 <= capacity
    BY <1>1, <1>6 DEF IInv, AccountInv, Good
<1> QED BY <1>3, <1>4, <1>6, <1>7 DEF worker

(* A step of a worker is none of the client's business.                     *)
LEMMA WorkerClient ==
    ASSUME IInv, PageInv, NEW i \in Parts, worker(i)
    PROVE  ClientInv' /\ TokenInv' /\ CompleteUnlessFull'
<1>1. /\ UNCHANGED <<size, st, limit, resume, delivered, client, gone, perr, fpc>>
      /\ pc[i] \notin {"idle", "done"}
      /\ (done <=> gone \/ egerr) => (done' <=> gone \/ egerr')
    BY WorkerFrame
<1>2. fpc # "closed" /\ client = "busy"
    BY <1>1 DEF PageInv, ClientInv
<1>3. ClientInv'
    BY <1>1, <1>2 DEF PageInv, ClientInv
<1>4. TokenInv'
    BY <1>1 DEF PageInv, TokenInv, ValidToken, ListLen, Lister, Start
<1>5. CompleteUnlessFull'
    BY <1>1, <1>2 DEF CompleteUnlessFull
<1> QED BY <1>3, <1>4, <1>5

(* A worker takes nothing back from the feeder.                             *)
LEMMA WorkerLaunched ==
    ASSUME IInv, PageInv, NEW i \in Parts, worker(i)
    PROVE  LaunchedInv'
<1> SUFFICES ASSUME Good' PROVE LaunchedInv'
    BY DEF LaunchedInv
<1>1. /\ UNCHANGED <<fpc, idx, limit>> /\ first' = first
      /\ pc[i] \notin {"idle", "done"}
      /\ \A j \in Parts : j # i => pc'[j] = pc[j]
    BY WorkerFrame
<1>2. Good
    BY WorkerGood
<1>3. first \in Parts /\ idx \in 1..(N + 1) /\ first <= i /\ i < idx /\ capacity \in Int
    BY <1>1, Shapes
<1>4. idx # first
    BY <1>3
<1>5. pc'[i] # "idle"
    BY DEF IInv, TypeOK, worker, workerList, workerListFails, workerTurnCut, workerTurn,
           workerSendAll, workerAccount, workerSendPart, workerSave, workerExit, workerReport
<1>6. capacity <= 0 => capacity' <= 0
  <2>1. batch[i].from \in Nat /\ batch[i].to \in Nat /\ batch[i].from <= batch[i].to
    BY Shapes
  <2>2. BatchLen(i) \in Nat
    BY <2>1 DEF BatchLen
  <2>3. capacity' \in {capacity, capacity - BatchLen(i), 0}
    BY DEF worker, workerList, workerListFails, workerTurnCut, workerTurn,
           workerSendAll, workerAccount, workerSendPart, workerSave, workerExit, workerReport, pageVars
  <2> QED BY <1>3, <2>2, <2>3
<1>7. /\ \A j \in Parts : first <= j /\ j < idx => pc[j] # "idle"
      /\ fpc \in {"wait", "closed"} => idx > N \/ capacity <= 0
    BY <1>2 DEF PageInv, LaunchedInv
<1>8. \A j \in Parts : first <= j /\ j < idx => pc'[j] # "idle"
    BY <1>1, <1>5, <1>7
<1>9. fpc \in {"wait", "closed"} => idx > N \/ capacity' <= 0
    BY <1>6, <1>7
<1> QED BY <1>1, <1>4, <1>8, <1>9 DEF LaunchedInv

(* While a worker is in the protected stretch, no other one has its cursor  *)
(* in its own partition.                                                    *)
LEMMA OthersFresh ==
    ASSUME IInv, PageInv, Good, NEW i \in Parts, Holding(i), NEW j \in Parts, j # i,
           pc[j] \in {"list", "turn"}
    PROVE  loc[j].part # j
<1> SUFFICES ASSUME loc[j].part = j PROVE FALSE
    OBVIOUS
<1>1. first \in Parts /\ first <= i /\ first <= j
    BY Shapes DEF Holding
<1>2. CASE i < j
  <2>1. pc[i] = "done"
    BY <1>1, <1>2 DEF PageInv, RoundInv
  <2> QED BY <2>1 DEF Holding
<1>3. CASE j < i
  <2>1. pc[j] = "done"
    BY <1>1, <1>3 DEF IInv, TurnInv, Passed, Holding, Good
  <2> QED BY <2>1
<1> QED BY <1>2, <1>3

(* Neither does a step of a worker disturb another's round, and its own     *)
(* begins where the invariant says.                                         *)
LEMMA WorkerRound ==
    ASSUME IInv, PageInv, NEW i \in Parts, worker(i)
    PROVE  RoundInv'
<1> SUFFICES ASSUME Good', NEW j \in Parts, pc'[j] \in {"list", "turn"}, loc'[j].part = j
             PROVE  /\ pstate' = NoState
                    /\ loc'[j].offset \in Nat
                    /\ loc'[j].offset > 0 =>
                         /\ j = first' /\ capacity' = limit'
                         /\ loc'[j].offset < ListLen(j, loc[j].cont, limit)'
                    /\ \A m \in Parts : first' <= m /\ m < j => pc'[m] = "done"
    BY DEF RoundInv
<1>1. /\ UNCHANGED <<size, limit>> /\ first' = first
      /\ pc[i] \notin {"idle", "done"}
      /\ \A m \in Parts : m # i => pc'[m] = pc[m] /\ loc'[m] = loc[m]
    BY WorkerFrame
<1>2. Good
    BY WorkerGood
<1>3. \A m \in Parts : pc[m] = "done" => pc'[m] = "done"
    BY <1>1
<1>4. CASE j # i \/ workerList(i)
  <2>1. pc[j] \in {"list", "turn"} /\ loc'[j] = loc[j] /\ loc[j].part = j
    BY <1>1, <1>4 DEF workerList
  <2>2. /\ pstate = NoState /\ loc[j].offset \in Nat
        /\ loc[j].offset > 0 =>
             j = first /\ capacity = limit /\ loc[j].offset < ListLen(j, loc[j].cont, limit)
        /\ \A m \in Parts : first <= m /\ m < j => pc[m] = "done"
    BY <1>2, <2>1 DEF PageInv, RoundInv
  <2>3. ~Holding(i)
    BY <1>2, <1>4, <2>1, OthersFresh DEF workerList, Holding
  <2>4. pstate' = pstate /\ capacity' = capacity
    BY <2>3 DEF Holding, worker, workerList, workerListFails, workerTurnCut, workerTurn,
           workerSendAll, workerAccount, workerSendPart, workerSave, workerExit, workerReport, pageVars
  <2>5. ListLen(j, loc[j].cont, limit)' = ListLen(j, loc[j].cont, limit)
    BY <1>1, <2>1 DEF ListLen, Lister
  <2> QED BY <1>1, <1>3, <2>1, <2>2, <2>4, <2>5
<1>5. CASE j = i /\ ~workerList(i)
  <2>1. workerAccount(i) /\ pc[i] = "account"
    BY <1>5, WorkerGood DEF workerTurnCut, workerTurn, workerSendAll, workerAccount,
           workerSendPart, workerSave, workerExit, IInv, TypeOK
  <2>2. loc'[i].offset = 0 /\ pstate' = pstate
    <3> DEFINE s == listState(loc[i].pinned, i, batch[i].next, 0, loc[i].limit)
    <3>1. pstate' = pstate /\ (loc' = [loc EXCEPT ![i] = s] \/ pc' = [pc EXCEPT ![i] = "exit"])
      BY <2>1 DEF workerAccount
    <3>2. s.offset = 0
      BY DEF listState
    <3> HIDE DEF s
    <3>3. loc' = [loc EXCEPT ![i] = s]
      BY <1>5, <3>1 DEF IInv, TypeOK
    <3>4. loc \in [Parts -> ListStates]
      BY DEF IInv, TypeOK
    <3>5. loc'[i] = s
      BY <3>3, <3>4
    <3> QED BY <3>1, <3>2, <3>5
  <2>3. pstate = NoState
    BY <1>2, <2>1 DEF IInv, AccountInv, Holding, Good
  <2>4. \A m \in Parts : first <= m /\ m < i => pc[m] = "done"
    BY <1>2, <2>1 DEF IInv, TurnInv, Passed, Good
  <2> QED BY <1>1, <1>3, <1>5, <2>2, <2>3, <2>4
<1> QED BY <1>4, <1>5

(* What is saved points at the first object not sent.                       *)
LEMMA WorkerSaved ==
    ASSUME IInv, PageInv, NEW i \in Parts, worker(i)
    PROVE  SavedInv'
<1> SUFFICES ASSUME Good', pstate' # NoState
             PROVE  /\ ValidToken(pstate)' /\ pstate'.limit = limit'
                    /\ pc'[pstate'.part] \in {"exit", "done"}
    BY DEF SavedInv
<1>1. /\ UNCHANGED <<size, limit>>
      /\ pc[i] \notin {"idle", "done"}
      /\ \A m \in Parts : m # i => pc'[m] = pc[m]
    BY WorkerFrame
<1>2. Good
    BY WorkerGood
<1>3. CASE workerSave(i)
  <2>1. /\ pstate' = listState(TRUE, i, workerCont(i), capacity, limit)
        /\ pc'[i] = "exit" /\ pc[i] = "save"
    BY <1>3 DEF workerSave, IInv, TypeOK
  <2>2. /\ batch[i] = Lister(i, workerCont(i), limit)
        /\ 0 <= capacity /\ capacity < BatchLen(i)
    BY <1>2, <2>1 DEF PageInv, BatchInv
  <2>3. capacity \in Nat /\ capacity < ListLen(i, workerCont(i), limit)
    <3>1. /\ workerCont(i) \in Nat /\ limit \in Nat \ {0} /\ size[i] \in Nat
          /\ workerCont(i) <= size[i] /\ capacity \in Int
      BY Shapes
    <3>2. /\ batch[i].from = workerCont(i)
          /\ ListLen(i, workerCont(i), limit) = batch[i].to - workerCont(i)
      BY <2>2, <3>1, ListerFacts
    <3> QED BY <2>2, <3>1, <3>2 DEF BatchLen
  <2>4. limit > 0
    BY Shapes
  <2>5. /\ pstate'.part = i /\ pstate'.cont = workerCont(i)
        /\ pstate'.offset = capacity /\ pstate'.limit = limit
    BY <2>1 DEF listState
  <2> QED BY <1>1, <2>1, <2>3, <2>4, <2>5 DEF ValidToken, ListLen, Lister
<1>4. CASE ~workerSave(i)
  <2>1. pstate' = pstate
    BY <1>4 DEF worker, workerList, workerListFails, workerTurnCut, workerTurn,
           workerSendAll, workerAccount, workerSendPart, workerExit, workerReport, pageVars
  <2>2. /\ ValidToken(pstate) /\ pstate.limit = limit
        /\ pc[pstate.part] \in {"exit", "done"}
    BY <1>2, <2>1 DEF PageInv, SavedInv
  <2>3. ValidToken(pstate)'
    BY <1>1, <2>1, <2>2 DEF ValidToken, ListLen, Lister
  <2>4. pstate.part \in Parts
    BY <2>2 DEF ValidToken
  <2>5. pc'[pstate.part] \in {"exit", "done"}
    <3>1. CASE pstate.part # i
      BY <1>1, <2>2, <2>4, <3>1
    <3>2. CASE pstate.part = i
      <4>1. pc[i] = "exit"
        BY <1>1, <2>2, <3>2
      <4>2. workerExit(i)
        BY <4>1 DEF worker, workerList, workerListFails, workerTurnCut, workerTurn,
             workerSendAll, workerAccount, workerSendPart, workerSave, workerReport
      <4> QED BY <3>2, <4>1, <4>2 DEF workerExit, IInv, TypeOK
    <3> QED BY <3>1, <3>2
  <2> QED BY <1>1, <2>1, <2>2, <2>3, <2>5
<1> QED BY <1>3, <1>4

(* The batch of a worker that takes its turn begins where the page has got  *)
(* to, and one that is cut was not trimmed.                                 *)
LEMMA TrimFacts ==
    ASSUME IInv, PageInv, Good, NEW i \in Parts, workerTurn(i)
    PROVE  /\ batch[i] = Lister(i, workerCont(i), limit)
           /\ batch'[i] = Trimmed(i) /\ pc'[i] \in {"fits", "overflow"}
           /\ Trimmed(i).to = batch[i].to /\ Trimmed(i).next = batch[i].next
           /\ Trimmed(i).from = Entry(i, loc[i])
           /\ pc'[i] = "overflow" => Trimmed(i) = batch[i]
           /\ loc'[i].part = loc[i].part /\ loc'[i].cont = loc[i].cont
<1>1. /\ pc[i] = "turn" /\ batch'[i] = Trimmed(i)
      /\ pc'[i] = IF Trimmed(i).to - Trimmed(i).from > capacity THEN "overflow" ELSE "fits"
    BY DEF workerTurn, IInv, TypeOK
<1>2. loc'[i].part = loc[i].part /\ loc'[i].cont = loc[i].cont
  <2>1. loc' = [loc EXCEPT ![i] = [loc[i] EXCEPT !.pinned = TRUE]] /\ loc \in [Parts -> ListStates]
    BY DEF workerTurn, IInv, TypeOK
  <2>2. loc[i] \in ListStates
    BY <2>1
  <2>3. loc'[i] = [loc[i] EXCEPT !.pinned = TRUE]
    BY <2>1
  <2> QED BY <2>2, <2>3 DEF ListStates
<1>3. batch[i] = Lister(i, workerCont(i), limit)
    BY <1>1 DEF PageInv, BatchInv
<1>4. /\ workerCont(i) \in Nat /\ limit \in Nat \ {0} /\ size[i] \in Nat
      /\ workerCont(i) <= size[i] /\ capacity \in Int
      /\ batch[i] \in Batches /\ loc[i] \in ListStates
      /\ batch[i].from \in Nat /\ batch[i].to \in Nat
    BY Shapes
<1>5. /\ batch[i].from = workerCont(i) /\ batch[i].to - workerCont(i) <= limit
      /\ ListLen(i, workerCont(i), limit) = batch[i].to - workerCont(i)
    BY <1>3, <1>4, ListerFacts
<1>6. CASE loc[i].part = i /\ loc[i].offset > 0
  <2>1. /\ loc[i].offset \in Nat /\ capacity = limit
        /\ loc[i].offset < ListLen(i, loc[i].cont, limit)
    BY <1>1, <1>6 DEF PageInv, RoundInv
  <2>2. workerCont(i) = loc[i].cont
    BY <1>6 DEF workerCont
  <2>3. 0 < loc[i].offset /\ loc[i].offset < batch[i].to - batch[i].from
    BY <1>5, <1>6, <2>1, <2>2
  <2>4. Trimmed(i) = [batch[i] EXCEPT !.from = batch[i].from + loc[i].offset]
    BY <1>6, <2>3 DEF Trimmed
  <2>5. /\ Trimmed(i).to = batch[i].to /\ Trimmed(i).next = batch[i].next
        /\ Trimmed(i).from = batch[i].from + loc[i].offset
    BY <1>4, <2>4 DEF Batches
  <2>6. ~(Trimmed(i).to - Trimmed(i).from > capacity)
    BY <1>4, <1>5, <2>1, <2>5
  <2>7. Trimmed(i).from = Entry(i, loc[i])
    BY <1>5, <1>6, <2>2, <2>5 DEF Entry
  <2>8. pc'[i] = "fits"
    BY <1>1, <2>6
  <2> QED BY <1>1, <1>2, <1>3, <2>5, <2>7, <2>8
<1>7. CASE ~(loc[i].part = i /\ loc[i].offset > 0)
  <2>1. loc[i].offset \in Int
    BY <1>4 DEF ListStates
  <2>2. Trimmed(i) = batch[i]
    BY <1>7, <2>1 DEF Trimmed
  <2>3. loc[i].part = i => loc[i].offset = 0
    BY <1>1, <1>7 DEF PageInv, RoundInv
  <2>4. batch[i].from = Entry(i, loc[i])
    <3>1. CASE loc[i].part = i
      BY <1>4, <1>5, <2>3, <3>1 DEF Entry, workerCont
    <3>2. CASE loc[i].part # i
      BY <1>5, <3>2 DEF Entry, workerCont
    <3> QED BY <3>1, <3>2
  <2>5. pc'[i] \in {"fits", "overflow"}
    BY <1>1
  <2> QED BY <1>1, <1>2, <1>3, <2>2, <2>4, <2>5
<1> QED BY <1>6, <1>7

(* A batch stays what its List call returned.                               *)
LEMMA WorkerBatch ==
    ASSUME IInv, PageInv, NEW i \in Parts, worker(i)
    PROVE  BatchInv'
<1> SUFFICES ASSUME Good', NEW j \in Parts
             PROVE  /\ pc'[j] \in {"turn", "overflow", "save"} =>
                         batch'[j] = Lister(j, workerCont(j), limit)'
                    /\ Holding(j)' =>
                         /\ batch'[j].to <= size'[j] /\ (batch'[j].to = 0 => size'[j] = 0)
                         /\ batch'[j].next = IF batch'[j].to < size'[j] THEN batch'[j].to ELSE 0
                    /\ pc'[j] = "save" => 0 <= capacity' /\ capacity' < BatchLen(j)'
    BY DEF BatchInv
<1>1. /\ UNCHANGED <<size, limit>>
      /\ pc[i] \notin {"idle", "done"}
      /\ \A m \in Parts : m # i => pc'[m] = pc[m] /\ loc'[m] = loc[m] /\ batch'[m] = batch[m]
    BY WorkerFrame
<1>2. Good
    BY WorkerGood
<1>3. /\ pc[j] \in {"turn", "overflow", "save"} => batch[j] = Lister(j, workerCont(j), limit)
      /\ Holding(j) =>
           /\ batch[j].to <= size[j] /\ (batch[j].to = 0 => size[j] = 0)
           /\ batch[j].next = IF batch[j].to < size[j] THEN batch[j].to ELSE 0
      /\ pc[j] = "save" => 0 <= capacity /\ capacity < BatchLen(j)
    BY <1>2 DEF PageInv, BatchInv
<1>4. CASE j # i
  <2>1. pc'[j] = pc[j] /\ loc'[j] = loc[j] /\ batch'[j] = batch[j]
    BY <1>1, <1>4
  <2>2. Lister(j, workerCont(j), limit)' = Lister(j, workerCont(j), limit)
    BY <1>1, <2>1 DEF Lister, workerCont
  <2>3. BatchLen(j)' = BatchLen(j) /\ Holding(j)' = Holding(j)
    BY <2>1 DEF BatchLen, Holding
  <2>4. pc[j] = "save" => capacity' = capacity
    <3>1. pc[j] = "save" => ~Holding(i)
      BY <1>2, <1>4, Alone DEF Holding, Good
    <3>2. ~Holding(i) => capacity' = capacity
      BY DEF Holding, worker, workerList, workerListFails, workerTurnCut, workerTurn,
           workerSendAll, workerAccount, workerSendPart, workerSave, workerExit, workerReport, pageVars
    <3> QED BY <3>1, <3>2
  <2> QED BY <1>1, <1>3, <2>1, <2>2, <2>3, <2>4
<1>5. CASE j = i
  <2>0. /\ workerCont(i) \in Nat /\ limit \in Nat \ {0} /\ size[i] \in Nat
        /\ workerCont(i) <= size[i]
    BY Shapes
  <2>1. CASE workerList(i)
    <3>1. /\ batch'[i] = Lister(i, workerCont(i), limit) /\ pc'[i] = "turn" /\ loc'[i] = loc[i]
      BY <2>1 DEF workerList, IInv, TypeOK
    <3>2. Lister(i, workerCont(i), limit)' = Lister(i, workerCont(i), limit)
      BY <1>1, <3>1 DEF Lister, workerCont
    <3> QED BY <1>5, <3>1, <3>2 DEF Holding
  <2>2. CASE workerTurn(i)
    <3>1. /\ batch[i] = Lister(i, workerCont(i), limit)
          /\ batch'[i] = Trimmed(i) /\ pc'[i] \in {"fits", "overflow"}
          /\ Trimmed(i).to = batch[i].to /\ Trimmed(i).next = batch[i].next
          /\ pc'[i] = "overflow" => Trimmed(i) = batch[i]
          /\ loc'[i].part = loc[i].part /\ loc'[i].cont = loc[i].cont
      BY <1>2, <2>2, TrimFacts
    <3>2. Lister(i, workerCont(i), limit)' = Lister(i, workerCont(i), limit)
      BY <1>1, <3>1 DEF Lister, workerCont
    <3>3. /\ batch[i].to <= size[i] /\ (batch[i].to = 0 => size[i] = 0)
          /\ batch[i].next = IF batch[i].to < size[i] THEN batch[i].to ELSE 0
      BY <2>0, <3>1, ListerFacts
    <3> QED BY <1>1, <1>5, <3>1, <3>2, <3>3
  <2>3. CASE workerSendAll(i)
    <3>1. Holding(i) /\ pc'[i] = "account" /\ batch'[i] = batch[i]
      BY <2>3 DEF workerSendAll, Holding, IInv, TypeOK
    <3> QED BY <1>1, <1>3, <1>5, <3>1
  <2>4. CASE workerSendPart(i) /\ 0 <= capacity
    <3>0. capacity \in Int
      BY Shapes
    <3>1. /\ pc[i] = "overflow" /\ pc'[i] = "save" /\ batch'[i] = batch[i] /\ loc'[i] = loc[i]
          /\ capacity' = capacity
      BY <2>4, <3>0 DEF workerSendPart, IInv, TypeOK
    <3>2. capacity < BatchLen(i)
      BY <1>2, <3>1 DEF IInv, AccountInv, Good
    <3>3. BatchLen(i)' = BatchLen(i) /\ Holding(i)
      BY <3>1 DEF BatchLen, Holding
    <3>4. Lister(i, workerCont(i), limit)' = Lister(i, workerCont(i), limit)
      BY <1>1, <3>1 DEF Lister, workerCont
    <3> QED BY <1>1, <1>3, <1>5, <2>4, <3>1, <3>2, <3>3, <3>4
  <2>5. CASE workerTurnCut(i) \/ workerAccount(i) \/ workerSave(i) \/ workerExit(i)
    <3>1. pc'[i] \in {"exit", "list", "done", "failed"}
      BY <2>5 DEF workerTurnCut, workerAccount, workerSave, workerExit, IInv, TypeOK
    <3> QED BY <1>5, <3>1 DEF Holding
  <2> QED BY <2>1, <2>2, <2>3, <2>4, <2>5, WorkerGood
<1> QED BY <1>4, <1>5

(* Before a worker that has its turn everything has been sent.              *)
LEMMA Behind ==
    ASSUME IInv, Clean, pstate = NoState, NEW i \in Parts, Holding(i),
           NEW j \in Parts, j < i
    PROVE  Reached(j) = size[j]
<1>1. first \in Parts
    BY Shapes
<1>2. CASE j < first
  <2>1. pc[j] = "idle"
    BY <1>2 DEF IInv, FeederInv
  <2> QED BY <1>2, <2>1, ReachedAt
<1>3. CASE first <= j
  <2>1. pc[j] = "done"
    BY <1>3 DEF IInv, TurnInv, Passed, Holding
  <2> QED BY <2>1, ReachedAt
<1> QED BY <1>1, <1>2, <1>3

(* A worker that sends moves its own position and keeps the order.          *)
LEMMA SendMoves ==
    ASSUME IInv, PageInv, Good, NEW i \in Parts, pc[i] \in {"fits", "overflow"},
           NEW to \in Nat, batch[i].from <= to, to <= batch[i].to
    PROVE  /\ Covers((delivered \o out) \o Interval(i, batch[i].from, to), [reached EXCEPT ![i] = to])
           /\ Frontier([reached EXCEPT ![i] = to])
<1> DEFINE s == delivered \o out
           r == reached
           c == batch[i].from
           q == [r EXCEPT ![i] = to]
<1>0. Holding(i) /\ pstate = NoState
    BY DEF Holding, IInv, AccountInv, Good
<1>1. s \in Seq(Parts \X Nat)
    BY SentType
<1>2. Covers(s, r) /\ Frontier(r)
    BY DEF PageInv, SentInv
<1>3. /\ c \in Nat /\ \A j \in Parts : size[j] \in Nat
    BY Shapes
<1>4. r[i] = c
    BY ReachedAt DEF reached
<1>5. \A j \in Parts : r[j] \in 0..size[j]
    BY <1>2 DEF Frontier
<1>6. r \in [Parts -> Nat]
    BY <1>2, ReachedType
<1>7. \A j \in Parts : j < i => r[j] = size[j]
  <2> SUFFICES ASSUME NEW j \in Parts, j < i PROVE Reached(j) = size[j]
    BY DEF reached
  <2> QED BY <1>0, Behind DEF Good
<1>8. to <= size[i]
  <2>1. batch[i].to <= size[i] /\ batch[i].to \in Nat
    BY <1>0, Shapes DEF PageInv, BatchInv
  <2> QED BY <1>3, <2>1
<1> HIDE DEF s, r, c
<1>10. r[i] < size[i] => \A j \in Parts : i < j => r[j] = 0
  <2> SUFFICES ASSUME r[i] < size[i], NEW j \in Parts, i < j PROVE r[j] = 0
    OBVIOUS
  <2>1. r[i] # size[i]
    BY <1>3, <1>5
  <2>2. ~(r[j] > 0)
    BY <1>2, <2>1 DEF Frontier
  <2>3. r[j] \in 0..size[j] /\ size[j] \in Nat
    BY <1>3, <1>5
  <2> QED BY <2>2, <2>3
<1>11. c <= to
    BY DEF c
<1>12. c < to => \A j \in Parts : i < j => r[j] = 0
    BY <1>3, <1>4, <1>8, <1>10
<1>13. Covers(s \o Interval(i, c, to), q)
    BY <1>1, <1>2, <1>3, <1>4, <1>6, <1>11, <1>12, CoversAppend
<1>14. q[i] = to /\ \A j \in Parts : j # i => q[j] = r[j]
    BY <1>6
<1> HIDE DEF q
<1>15. \A j \in Parts : q[j] \in 0..size[j]
    BY <1>3, <1>5, <1>8, <1>14
<1>16. ASSUME NEW j \in Parts, NEW k \in Parts, j < k, q[k] > 0 PROVE q[j] = size[j]
  <2>1. CASE k = i
    BY <1>7, <1>14, <1>16, <2>1
  <2>2. CASE k # i
    <3>1. r[k] > 0
      BY <1>14, <1>16, <2>2
    <3>2. r[j] = size[j]
      BY <1>2, <1>16, <3>1 DEF Frontier
    <3>3. CASE j # i
      BY <1>14, <3>2, <3>3
    <3>4. CASE j = i
      BY <1>3, <1>4, <1>8, <1>11, <1>14, <3>2, <3>4
    <3> QED BY <3>3, <3>4
  <2> QED BY <2>1, <2>2
<1>17. Frontier(q)
    BY <1>15, <1>16 DEF Frontier
<1> QED BY <1>13, <1>17 DEF s, r, c, q

(* A step that sends nothing and moves no position keeps the order.         *)
LEMMA NothingSent ==
    ASSUME PageInv, Good, UNCHANGED <<size, delivered, out>>,
           \A j \in Parts : Reached(j)' = Reached(j)
    PROVE  SentInv'
<1>1. reached' = reached
    BY DEF reached
<1>2. Covers(delivered \o out, reached) /\ Frontier(reached)
    BY DEF PageInv, SentInv
<1>3. Frontier(reached)'
    BY <1>1, <1>2 DEF Frontier
<1>4. Covers(delivered \o out, reached)'
    BY <1>1, <1>2
<1> QED BY <1>3, <1>4 DEF SentInv

(* The position of a worker whose state does not change.                    *)
LEMMA OthersStay ==
    ASSUME UNCHANGED <<size, st, pstate>>, first' = first, NEW j \in Parts,
           pc'[j] = pc[j], loc'[j] = loc[j], batch'[j] = batch[j],
           pc[j] = "save" => capacity' = capacity
    PROVE  Reached(j)' = Reached(j)
BY DEF Reached, Entry

(* What a worker sends is next in order.                                    *)
LEMMA WorkerSent ==
    ASSUME IInv, PageInv, NEW i \in Parts, worker(i)
    PROVE  SentInv'
<1> SUFFICES ASSUME Good' PROVE SentInv'
    BY DEF SentInv
<1>1. /\ UNCHANGED <<size, st, limit, delivered>> /\ first' = first
      /\ \A m \in Parts : m # i => pc'[m] = pc[m] /\ loc'[m] = loc[m] /\ batch'[m] = batch[m]
    BY WorkerFrame
<1>2. Good /\ Clean
    BY WorkerGood DEF Good
<1>3. ASSUME ~workerSave(i), NEW j \in Parts, j # i PROVE Reached(j)' = Reached(j)
  <2>1. pstate' = pstate
    BY <1>3 DEF worker, workerList, workerListFails, workerTurnCut, workerTurn,
           workerSendAll, workerAccount, workerSendPart, workerExit, workerReport, pageVars
  <2>2. pc[j] = "save" => ~Holding(i)
    BY <1>2, <1>3, Alone DEF Holding
  <2>3. ~Holding(i) => capacity' = capacity
    BY DEF Holding, worker, workerList, workerListFails, workerTurnCut, workerTurn,
           workerSendAll, workerAccount, workerSendPart, workerSave, workerExit, workerReport, pageVars
  <2> QED BY <1>1, <1>3, <2>1, <2>2, <2>3, OthersStay
<1>4. CASE workerList(i)
  <2>1. /\ pc[i] = "list" /\ pc'[i] = "turn" /\ loc'[i] = loc[i] /\ out' = out
    BY <1>4 DEF workerList, pageVars, IInv, TypeOK
  <2>2. Reached(i)' = Reached(i)
    BY <2>1 DEF Reached, Entry
  <2>3. ~workerSave(i)
    BY <2>1 DEF workerSave
  <2> QED BY <1>1, <1>2, <1>3, <2>1, <2>2, <2>3, NothingSent
<1>5. CASE workerTurnCut(i)
  <2>1. /\ pc[i] = "turn" /\ pc'[i] = "exit" /\ waitForTurn(i) /\ pstate # NoState
        /\ out' = out /\ pstate' = pstate
    BY <1>5 DEF workerTurnCut, pageVars, IInv, TypeOK
  <2>2. loc[i].part # i
    BY <1>2, <2>1 DEF PageInv, RoundInv
  <2>3. Reached(i) = 0
    BY <2>1, <2>2, ReachedAt DEF Entry
  <2>4. pstate.part \in Parts /\ pc[pstate.part] \in {"exit", "done"}
    BY <1>2, <2>1 DEF PageInv, SavedInv, ValidToken
  <2>5. ~(i < pstate.part)
    <3> SUFFICES ASSUME i < pstate.part PROVE FALSE
      OBVIOUS
    <3>1. first <= i
      BY <2>1, Shapes
    <3>2. pc[i] = "done"
      BY <1>2, <2>4, <3>1 DEF IInv, TurnInv, Passed
    <3> QED BY <2>1, <3>2
  <2>6. pstate.part # i
    BY <2>1, <2>4
  <2>7. Reached(i)' = 0
    BY <1>1, <2>1, <2>5, <2>6 DEF Reached, Entry
  <2>8. ~workerSave(i)
    BY <2>1 DEF workerSave
  <2> QED BY <1>1, <1>2, <1>3, <2>1, <2>3, <2>7, <2>8, NothingSent
<1>6. CASE workerTurn(i)
  <2>1. pc[i] = "turn" /\ out' = out
    BY <1>6 DEF workerTurn
  <2>2. /\ batch'[i] = Trimmed(i) /\ pc'[i] \in {"fits", "overflow"}
        /\ Trimmed(i).from = Entry(i, loc[i])
    BY <1>2, <1>6, TrimFacts
  <2>3. Reached(i) = Entry(i, loc[i])
    BY <2>1, ReachedAt
  <2>4. Reached(i)' = batch'[i].from
    BY <2>2 DEF Reached
  <2>5. ~workerSave(i)
    BY <2>1 DEF workerSave
  <2> QED BY <1>1, <1>2, <1>3, <2>1, <2>2, <2>3, <2>4, <2>5, NothingSent
<1>7. ASSUME NEW to \in Nat, batch[i].from <= to, to <= batch[i].to,
             pc[i] \in {"fits", "overflow"},
             out' = out \o Interval(i, batch[i].from, to),
             Reached(i)' = to, ~workerSave(i)
      PROVE  SentInv'
  <2> DEFINE S == Parts \X Nat
             b == Interval(i, batch[i].from, to)
  <2>1. delivered \in Seq(S) /\ out \in Seq(S) /\ b \in Seq(S)
    <3>1. delivered \in Seq(S) /\ out \in Seq(S)
      BY DEF IInv, TypeOK
    <3>2. batch[i].from \in Nat
      BY Shapes
    <3> QED BY <1>7, <3>1, <3>2, IntervalSeq
  <2>2. /\ Covers((delivered \o out) \o b, [reached EXCEPT ![i] = to])
        /\ Frontier([reached EXCEPT ![i] = to])
    BY <1>2, <1>7, SendMoves
  <2>3. reached' = [reached EXCEPT ![i] = to]
    BY <1>3, <1>7 DEF reached
  <2> HIDE DEF S, b
  <2>4. delivered \o (out \o b) = (delivered \o out) \o b
    BY <2>1, ConcatAssociative
  <2>5. delivered' \o out' = (delivered \o out) \o b
    BY <1>1, <1>7, <2>4 DEF b
  <2>6. Covers(delivered' \o out', reached')
    BY <2>2, <2>3, <2>5
  <2>7. Frontier(reached)'
    BY <1>1, <2>2, <2>3 DEF Frontier
  <2> QED BY <2>6, <2>7 DEF SentInv
<1>8. CASE workerSendAll(i)
  <2>1. /\ pc[i] = "fits" /\ pc'[i] = "account" /\ batch'[i] = batch[i]
        /\ out' = out \o Interval(i, batch[i].from, batch[i].to)
    BY <1>8 DEF workerSendAll, IInv, TypeOK
  <2>2. batch[i].to \in Nat /\ batch[i].from <= batch[i].to
    BY Shapes
  <2>3. Reached(i)' = batch[i].to
    BY <2>1 DEF Reached
  <2>4. ~workerSave(i)
    BY <2>1 DEF workerSave
  <2>5. batch[i].to <= batch[i].to
    BY <2>2
  <2> QED BY <1>7, <2>1, <2>2, <2>3, <2>4, <2>5
<1>9. CASE workerSendPart(i) /\ 0 <= capacity
  <2>0. capacity \in Int /\ batch[i].to \in Nat /\ batch[i].from \in Nat
    BY Shapes
  <2>1. /\ pc[i] = "overflow" /\ pc'[i] = "save" /\ batch'[i] = batch[i]
        /\ capacity' = capacity
        /\ out' = out \o Interval(i, batch[i].from, batch[i].from + capacity)
    BY <1>9, <2>0 DEF workerSendPart, IInv, TypeOK
  <2>2. capacity < BatchLen(i)
    BY <1>2, <2>1 DEF IInv, AccountInv
  <2>3. /\ batch[i].from + capacity \in Nat /\ batch[i].from <= batch[i].from + capacity
        /\ batch[i].from + capacity <= batch[i].to
    BY <1>9, <2>0, <2>2 DEF BatchLen
  <2>4. Reached(i)' = batch[i].from + capacity
    BY <2>1 DEF Reached
  <2>5. ~workerSave(i)
    BY <2>1 DEF workerSave
  <2> QED BY <1>7, <2>1, <2>3, <2>4, <2>5
<1>10. CASE workerAccount(i)
  <2> DEFINE s == listState(loc[i].pinned, i, batch[i].next, 0, loc[i].limit)
  <2>1. /\ pc[i] = "account" /\ out' = out /\ pstate' = pstate
        /\ \/ batch[i].next = 0 /\ pc' = [pc EXCEPT ![i] = "exit"]
           \/ batch[i].next # 0 /\ pc' = [pc EXCEPT ![i] = "list"] /\ loc' = [loc EXCEPT ![i] = s]
    BY <1>10 DEF workerAccount
  <2>2. s.part = i /\ s.cont + s.offset = batch[i].next
    <3>1. batch[i].next \in Nat
      BY Shapes
    <3> QED BY <3>1 DEF listState
  <2> HIDE DEF s
  <2>3. Holding(i) /\ pstate = NoState
    BY <1>2, <2>1 DEF Holding, IInv, AccountInv
  <2>4. /\ batch[i].to <= size[i] /\ (batch[i].to = 0 => size[i] = 0)
        /\ batch[i].next = IF batch[i].to < size[i] THEN batch[i].to ELSE 0
    BY <1>2, <2>3 DEF PageInv, BatchInv
  <2>5. Reached(i) = batch[i].to /\ batch[i].to \in Nat /\ size[i] \in Nat
    BY <2>1, ReachedAt, Shapes
  <2>6. CASE batch[i].next = 0
    <3>1. pc'[i] = "exit"
      BY <2>1, <2>6 DEF IInv, TypeOK
    <3>2. Reached(i)' = size[i]
      BY <1>1, <2>1, <2>3, <3>1 DEF Reached
    <3>3. batch[i].to = size[i]
      BY <2>4, <2>5, <2>6
    <3> QED BY <2>5, <3>2, <3>3, <1>1, <1>2, <1>3, <2>1, NothingSent DEF workerSave
  <2>7. CASE batch[i].next # 0
    <3>1. pc'[i] = "list" /\ loc'[i] = s
      BY <2>1, <2>7 DEF IInv, TypeOK
    <3>2. Reached(i)' = batch[i].next
      BY <2>2, <3>1 DEF Reached, Entry
    <3>3. batch[i].next = batch[i].to
      BY <2>4, <2>5, <2>7
    <3> QED BY <2>5, <3>2, <3>3, <1>1, <1>2, <1>3, <2>1, NothingSent DEF workerSave
  <2> QED BY <2>6, <2>7
<1>11. CASE workerSave(i)
  <2>1. /\ pc[i] = "save" /\ pc'[i] = "exit" /\ out' = out
        /\ pstate' = listState(TRUE, i, workerCont(i), capacity, limit)
    BY <1>11 DEF workerSave, IInv, TypeOK
  <2>2. Holding(i) /\ pstate = NoState
    BY <1>2, <2>1 DEF Holding, IInv, AccountInv
  <2>3. /\ pstate'.part = i /\ pstate'.cont + pstate'.offset = workerCont(i) + capacity
        /\ pstate' # NoState
    <3>1. pstate'.part = i /\ pstate'.cont = workerCont(i) /\ pstate'.offset = capacity
      BY <2>1 DEF listState
    <3>2. NoState.part = 0
      BY DEF NoState, listState
    <3> QED BY <3>1, <3>2
  <2>4. Reached(i)' = workerCont(i) + capacity
    <3>1. Entry(i, pstate') = workerCont(i) + capacity
      BY <2>3 DEF Entry
    <3>2. ~(i < pstate'.part)
      BY <2>3
    <3>3. Reached(i)' = Entry(i, pstate')
      BY <2>1, <2>3, <3>2 DEF Reached
    <3> QED BY <3>1, <3>3
  <2>5. Reached(i) = batch[i].from + capacity
    BY <2>1, ReachedAt
  <2>6. batch[i].from = workerCont(i)
    <3>1. batch[i] = Lister(i, workerCont(i), limit)
      BY <1>2, <2>1 DEF PageInv, BatchInv
    <3> QED BY <3>1, Shapes, ListerFacts
  <2>7. ASSUME NEW j \in Parts, j # i PROVE Reached(j)' = Reached(j)
    <3>1. pc[j] # "save"
      BY <1>2, <2>2, <2>7, Alone DEF Holding
    <3>2. pc'[j] = pc[j] /\ loc'[j] = loc[j] /\ batch'[j] = batch[j]
      BY <1>1, <2>7
    <3>3. CASE pc[j] \in {"exit", "done"}
      <4>1. ~(i < j)
        <5> SUFFICES ASSUME i < j PROVE FALSE
          OBVIOUS
        <5>1. first <= i
          BY <2>1, Shapes
        <5>2. pc[i] = "done"
          BY <1>2, <3>3, <5>1 DEF IInv, TurnInv, Passed
        <5> QED BY <2>1, <5>2
      <4>2. j < i
        BY <2>7, <4>1
      <4>3. Reached(j) = size[j]
        BY <2>2, <3>3, ReachedAt
      <4>4. Reached(j)' = size[j]
        BY <1>1, <2>3, <3>2, <3>3, <4>2 DEF Reached
      <4> QED BY <4>3, <4>4
    <3>4. CASE pc[j] \notin {"exit", "done"}
      BY <1>1, <3>1, <3>2, <3>4 DEF Reached, Entry
    <3> QED BY <3>3, <3>4
  <2> QED BY <1>1, <1>2, <2>1, <2>4, <2>5, <2>6, <2>7, NothingSent
<1>12. CASE workerExit(i) /\ pc[i] = "exit"
  <2>1. pc'[i] = "done" /\ out' = out /\ pstate' = pstate
    BY <1>12 DEF workerExit, pageVars, IInv, TypeOK
  <2>2. Reached(i)' = Reached(i)
    BY <1>1, <1>12, <2>1 DEF Reached, Entry
  <2>3. ~workerSave(i)
    BY <1>12 DEF workerSave
  <2> QED BY <1>1, <1>2, <1>3, <2>1, <2>2, <2>3, NothingSent
<1> QED BY <1>4, <1>5, <1>6, <1>8, <1>9, <1>10, <1>11, <1>12, WorkerGood

(* Every step of a worker keeps the order.                                  *)
LEMMA WorkerPage ==
    ASSUME IInv, PageInv, NEW i \in Parts, worker(i)
    PROVE  PageInv'
BY WorkerClient, WorkerLaunched, WorkerRound, WorkerBatch, WorkerSaved, WorkerSent DEF PageInv

(* Nothing delivered and the first page not begun.                          *)
LEMMA InitPage == Init => PageInv
<1> SUFFICES ASSUME Init PROVE PageInv
    OBVIOUS
<1> USE DEF Init
<1>1. ~Good
    BY DEF Good
<1>2. ClientInv
    BY DEF ClientInv
<1>3. Start(resume) = [i \in Parts |-> 0]
    BY DEF Start, Entry, NoState, listState, indexOrZero
<1>4. Covers(delivered, Start(resume))
    BY <1>3 DEF Covers
<1>5. TokenInv
    BY <1>4 DEF TokenInv
<1>6. CompleteUnlessFull
    BY DEF CompleteUnlessFull
<1> QED BY <1>1, <1>2, <1>5, <1>6 DEF PageInv, LaunchedInv, RoundInv, BatchInv, SavedInv, SentInv

(* A page begins where the token says.                                      *)
LEMMA ListPage ==
    ASSUME IInv, PageInv, List
    PROVE  PageInv'
<1>1. /\ client = "idle" /\ client' = "busy" /\ st' = resume
      /\ UNCHANGED <<size, resume, delivered>>
      /\ capacity' = limit' /\ pstate' = NoState /\ out' = <<>> /\ fpc' = "loop"
      /\ idx' = indexOrZero(resume.part)
      /\ done' = FALSE /\ gone' = FALSE /\ egerr' = FALSE
      /\ \A i \in Parts : pc'[i] = "idle"
    BY DEF List
<1>2. resume # NoState => ValidToken(resume)
    BY DEF PageInv, TokenInv
<1>3. resume # NoState => limit' = resume.limit
  <2>1. resume # NoState => resume.limit > 0
    BY <1>2 DEF ValidToken
  <2> QED BY <2>1 DEF List
<1>4. first' = idx'
    BY <1>1 DEF first
<1>5. ClientInv'
    BY <1>1, <1>3 DEF ClientInv
<1>6. Covers(delivered, Start(resume))
    BY <1>1 DEF PageInv, TokenInv
<1>7. ValidToken(resume)' = ValidToken(resume) /\ Start(resume)' = Start(resume)
    BY <1>1 DEF ValidToken, ListLen, Lister, Start
<1>8. TokenInv'
    BY <1>1, <1>2, <1>6, <1>7 DEF TokenInv
<1>9. resume \in ListStates /\ idx' \in Int
    BY Shapes DEF ListStates, indexOrZero, List
<1>10. LaunchedInv'
    BY <1>1, <1>4, <1>9 DEF LaunchedInv
<1>11. RoundInv' /\ BatchInv' /\ SavedInv' /\ CompleteUnlessFull'
    BY <1>1 DEF RoundInv, BatchInv, SavedInv, Holding, CompleteUnlessFull
<1>12. Frontier(Start(resume))
    BY <1>2, <1>9, Shapes, StartFrontier DEF IInv, CursorInv
<1>13. reached' = Start(resume)
  <2>1. \A i \in Parts : Reached(i)' =
            IF i < indexOrZero(resume.part) THEN size[i] ELSE Entry(i, resume)
    BY <1>1, <1>4 DEF Reached
  <2> QED BY <2>1 DEF reached, Start
<1>14. delivered' \o out' = delivered
    BY <1>1 DEF IInv, TypeOK
<1>15. Frontier(reached)'
    BY <1>1, <1>12, <1>13 DEF Frontier
<1>16. SentInv'
    BY <1>6, <1>13, <1>14, <1>15 DEF SentInv
<1> QED BY <1>5, <1>8, <1>10, <1>11, <1>16 DEF PageInv

(* A launched worker begins where the page did.                             *)
LEMMA LaunchPage ==
    ASSUME IInv, PageInv, feederLaunch
    PROVE  PageInv'
<1>0. /\ pc \in [Parts -> WorkerPoints] /\ loc \in [Parts -> ListStates]
      /\ idx \in Parts /\ pc[idx] = "idle"
  <2>1. pc \in [Parts -> WorkerPoints] /\ loc \in [Parts -> ListStates] /\ idx \in 1..(N + 1)
    BY DEF IInv, TypeOK
  <2>2. idx \in Parts
    BY <2>1 DEF feederLaunch, IInv, FeederInv
  <2>3. pc[idx] = "idle"
    BY <2>1, <2>2 DEF IInv, FeederInv
  <2> QED BY <2>1, <2>2, <2>3
<1>1. /\ fpc = "acquire" /\ fpc' = "loop" /\ idx' = idx + 1
      /\ UNCHANGED <<size, client, resume, delivered, st, limit, capacity, pstate, out,
                     done, gone, egerr, batch, perr>>
      /\ pc'[idx] = "list" /\ loc'[idx] = st
      /\ \A j \in Parts : j # idx => pc'[j] = pc[j] /\ loc'[j] = loc[j]
    BY <1>0 DEF feederLaunch, pageVars, clientVars
<1>2. first' = first /\ first \in Parts /\ first <= idx
  <2>1. first' = first
    BY <1>1 DEF first
  <2> QED BY <2>1, Shapes DEF IInv, FeederInv
<1>3. client = "busy"
    BY <1>1 DEF PageInv, ClientInv
<1>4. ClientInv'
    BY <1>1, <1>3 DEF PageInv, ClientInv
<1>5. TokenInv'
    BY <1>1 DEF PageInv, TokenInv, ValidToken, ListLen, Lister, Start
<1>6. CompleteUnlessFull'
    BY <1>1, <1>3 DEF CompleteUnlessFull
<1>7. Good' => Good
    BY <1>0, <1>1 DEF Good, Clean
<1>8. ASSUME Good' PROVE LaunchedInv'
  <2>1. idx' # first' /\ fpc' = "loop"
    BY <1>0, <1>1, <1>2
  <2>2. \A j \in Parts : first <= j /\ j < idx => pc[j] # "idle"
    BY <1>7, <1>8 DEF PageInv, LaunchedInv
  <2>3. \A j \in Parts : first <= j /\ j < idx' => pc'[j] # "idle"
    BY <1>0, <1>1, <2>2
  <2> QED BY <1>2, <2>1, <2>3 DEF LaunchedInv
<1>9. ASSUME Good', NEW j \in Parts, pc'[j] \in {"list", "turn"}, loc'[j].part = j
      PROVE  /\ pstate' = NoState
             /\ loc'[j].offset \in Nat
             /\ loc'[j].offset > 0 =>
                  /\ j = first' /\ capacity' = limit'
                  /\ loc'[j].offset < ListLen(j, loc[j].cont, limit)'
             /\ \A m \in Parts : first' <= m /\ m < j => pc'[m] = "done"
  <2>1. Good
    BY <1>7, <1>9
  <2>2. \A m \in Parts : pc[m] = "done" => pc'[m] = "done"
    BY <1>0, <1>1
  <2>3. CASE j # idx
    <3>1. /\ pstate = NoState /\ loc[j].offset \in Nat
          /\ loc[j].offset > 0 =>
               j = first /\ capacity = limit /\ loc[j].offset < ListLen(j, loc[j].cont, limit)
          /\ \A m \in Parts : first <= m /\ m < j => pc[m] = "done"
      BY <1>1, <1>9, <2>1, <2>3 DEF PageInv, RoundInv
    <3>2. loc'[j] = loc[j]
      BY <1>1, <2>3
    <3>3. ListLen(j, loc[j].cont, limit)' = ListLen(j, loc[j].cont, limit)
      BY <1>1, <3>2 DEF ListLen, Lister
    <3> QED BY <1>1, <1>2, <2>2, <3>1, <3>2, <3>3
  <2>4. CASE j = idx
    <3>1. loc'[j] = st /\ st.part = idx /\ st = resume
      BY <1>1, <1>3, <1>9, <2>4 DEF PageInv, ClientInv
    <3>2. first = idx
      BY <1>0, <3>1 DEF first, indexOrZero
    <3>3. st # NoState
      BY <1>0, <3>1 DEF NoState, listState
    <3>4. /\ st.offset \in Nat /\ limit = st.limit
          /\ st.offset < ListLen(j, st.cont, limit)
      BY <1>3, <2>4, <3>1, <3>3 DEF PageInv, ClientInv, TokenInv, ValidToken
    <3>5. capacity = limit /\ pstate = NoState
      BY <2>1, <3>2 DEF PageInv, LaunchedInv
    <3>6. ListLen(j, loc[j].cont, limit)' = ListLen(j, st.cont, limit)
      BY <1>1, <3>1 DEF ListLen, Lister
    <3>7. \A m \in Parts : ~(first <= m /\ m < j)
      BY <1>2, <2>4, <3>2
    <3> QED BY <1>1, <1>2, <2>4, <3>1, <3>2, <3>4, <3>5, <3>6, <3>7
  <2> QED BY <2>3, <2>4
<1>10. RoundInv'
    BY <1>9 DEF RoundInv
<1>11. ASSUME Good', NEW j \in Parts
       PROVE  /\ pc'[j] \in {"turn", "overflow", "save"} =>
                   batch'[j] = Lister(j, workerCont(j), limit)'
              /\ Holding(j)' =>
                   /\ batch'[j].to <= size'[j] /\ (batch'[j].to = 0 => size'[j] = 0)
                   /\ batch'[j].next = IF batch'[j].to < size'[j] THEN batch'[j].to ELSE 0
              /\ pc'[j] = "save" => 0 <= capacity' /\ capacity' < BatchLen(j)'
  <2>1. CASE j # idx
    <3>1. pc'[j] = pc[j] /\ loc'[j] = loc[j] /\ batch'[j] = batch[j]
      BY <1>1, <2>1
    <3>2. Lister(j, workerCont(j), limit)' = Lister(j, workerCont(j), limit)
      BY <1>1, <3>1 DEF Lister, workerCont
    <3>3. BatchLen(j)' = BatchLen(j) /\ Holding(j)' = Holding(j)
      BY <3>1 DEF BatchLen, Holding
    <3> QED BY <1>1, <1>7, <1>11, <3>1, <3>2, <3>3 DEF PageInv, BatchInv
  <2>2. CASE j = idx
    BY <1>1, <2>2 DEF Holding
  <2> QED BY <2>1, <2>2
<1>12. BatchInv'
    BY <1>11 DEF BatchInv
<1>13. ASSUME Good', pstate' # NoState
       PROVE  /\ ValidToken(pstate)' /\ pstate'.limit = limit'
              /\ pc'[pstate'.part] \in {"exit", "done"}
  <2>1. /\ ValidToken(pstate) /\ pstate.limit = limit
        /\ pc[pstate.part] \in {"exit", "done"}
    BY <1>1, <1>7, <1>13 DEF PageInv, SavedInv
  <2>2. ValidToken(pstate)'
    BY <1>1, <2>1 DEF ValidToken, ListLen, Lister
  <2>3. pstate.part \in Parts /\ pstate.part # idx
    BY <1>0, <2>1 DEF ValidToken
  <2> QED BY <1>1, <2>1, <2>2, <2>3
<1>14. SavedInv'
    BY <1>13 DEF SavedInv
<1>15. SentInv'
  <2> SUFFICES ASSUME Good' PROVE SentInv'
    BY DEF SentInv
  <2>1. ASSUME NEW j \in Parts PROVE Reached(j)' = Reached(j)
    <3>1. CASE j # idx
      <4>1. pc'[j] = pc[j] /\ loc'[j] = loc[j] /\ batch'[j] = batch[j]
        BY <1>1, <3>1
      <4> QED BY <1>1, <1>2, <4>1, OthersStay
    <3>2. CASE j = idx
      <4>1. Reached(j)' = Entry(j, st)
        BY <1>1, <3>2 DEF Reached
      <4>2. ~(j < first)
        BY <1>2, <3>2
      <4>3. Reached(j) = Entry(j, st)
        BY <1>0, <3>2, <4>2, ReachedAt
      <4> QED BY <4>1, <4>3
    <3> QED BY <3>1, <3>2
  <2> QED BY <1>1, <1>7, <2>1, NothingSent
<1> QED BY <1>4, <1>5, <1>6, <1>8, <1>10, <1>12, <1>14, <1>15 DEF PageInv, LaunchedInv

(* Steps that leave the page and its workers as they are.                   *)
LEMMA QuietPage ==
    ASSUME PageInv, Good' => Good,
           UNCHANGED <<size, resume, delivered, st, limit, capacity, pstate, out, idx,
                       pc, loc, batch>>
    PROVE  RoundInv' /\ BatchInv' /\ SavedInv' /\ SentInv'
<1>1. first' = first
    BY DEF first
<1>2. RoundInv'
    BY <1>1 DEF PageInv, RoundInv, ListLen, Lister
<1>3. BatchInv'
    BY DEF PageInv, BatchInv, Holding, BatchLen, Lister, workerCont
<1>4. SavedInv'
    BY DEF PageInv, SavedInv, ValidToken, ListLen, Lister
<1>5. SentInv'
  <2> SUFFICES ASSUME Good' PROVE SentInv'
    BY DEF SentInv
  <2>1. \A j \in Parts : Reached(j)' = Reached(j)
    BY <1>1, OthersStay
  <2> QED BY <2>1, NothingSent
<1> QED BY <1>2, <1>3, <1>4, <1>5

(* The feeder's steps that launch nothing, and a client that leaves.        *)
LEMMA ControlPage ==
    ASSUME IInv, PageInv, feederCheck \/ feederAcquireFails \/ feederClose \/ Abandon
    PROVE  PageInv'
<1>1. UNCHANGED <<size, client, resume, delivered, st, limit, capacity, pstate, out, idx,
                  pc, loc, batch>>
    BY DEF feederCheck, feederAcquireFails, feederClose, Abandon,
           pageVars, feederVars, workerVars, ctxVars, clientVars
<1>2. fpc # "closed" /\ client = "busy"
    BY DEF feederCheck, feederAcquireFails, feederClose, Abandon, PageInv, ClientInv
<1>3. done => done'
    BY DEF feederCheck, feederAcquireFails, feederClose, Abandon, ctxVars
<1>4. Good' => Good
    BY <1>1, <1>3 DEF Good, Clean
<1>5. TokenInv' /\ CompleteUnlessFull'
    BY <1>1, <1>2 DEF PageInv, TokenInv, ValidToken, ListLen, Lister, Start, CompleteUnlessFull
<1>6. /\ fpc' = "closed" => feederClose
      /\ feederClose => /\ fpc = "wait" /\ perr' = egerr'
                        /\ \A i \in Parts : pc[i] \in {"idle", "done"}
    BY <1>2 DEF feederCheck, feederAcquireFails, feederClose, Abandon, feederVars, ctxVars
<1>7. done' <=> gone' \/ egerr'
  <2>1. done <=> gone \/ egerr
    BY <1>2 DEF PageInv, ClientInv
  <2>2. UNCHANGED <<done, gone, egerr>> \/ (done' /\ gone')
    BY DEF feederCheck, feederAcquireFails, feederClose, Abandon, ctxVars
  <2> QED BY <2>1, <2>2
<1>8. ClientInv'
    BY <1>1, <1>2, <1>6, <1>7 DEF PageInv, ClientInv
<1>9. LaunchedInv'
  <2> SUFFICES ASSUME Good' PROVE LaunchedInv'
    BY DEF LaunchedInv
  <2>1. first' = first
    BY <1>1 DEF first
  <2>2. ~done
    BY <1>4 DEF Good, Clean
  <2>3. fpc' \in {"wait", "closed"} => idx > N \/ capacity <= 0
    <3>1. CASE feederCheck
      BY <2>2, <3>1 DEF feederCheck, FeederStops
    <3>2. CASE feederClose
      BY <1>4, <1>6, <3>2 DEF PageInv, LaunchedInv
    <3>3. CASE feederAcquireFails
      BY <2>2, <3>3 DEF feederAcquireFails
    <3>4. CASE Abandon
      <4>1. done'
        BY <3>4 DEF Abandon
      <4> QED BY <4>1 DEF Good, Clean
    <3> QED BY <3>1, <3>2, <3>3, <3>4
  <2> QED BY <1>1, <1>4, <2>1, <2>3 DEF PageInv, LaunchedInv
<1> QED BY <1>1, <1>4, <1>5, <1>8, <1>9, QuietPage DEF PageInv

(* When a page ends well, the positions are those of the token it leaves,   *)
(* or the ends of all partitions unless the limit is used up.               *)
LEMMA PageEnd ==
    ASSUME IInv, PageInv, Good, fpc = "closed"
    PROVE  /\ pstate # NoState => reached = Start(pstate)
           /\ pstate = NoState => Len(out) = limit \/ \A i \in Parts : reached[i] = size[i]
<1>1. \A i \in Parts : pc[i] \in {"idle", "done"}
    BY DEF PageInv, ClientInv
<1>2. /\ \A i \in Parts : first <= i /\ i < idx => pc[i] = "done"
      /\ idx > N \/ capacity <= 0
    BY <1>1 DEF PageInv, LaunchedInv
<1>3. /\ \A i \in Parts : pc[i] # "idle" => first <= i /\ i < idx
      /\ first \in Parts /\ idx \in 1..(N + 1) /\ first <= idx
    BY Shapes DEF IInv, FeederInv
<1>4. ASSUME pstate # NoState, NEW i \in Parts
      PROVE  Reached(i) = IF i < indexOrZero(pstate.part) THEN size[i] ELSE Entry(i, pstate)
  <2>1. pstate.part \in Parts /\ pc[pstate.part] \in {"exit", "done"}
    BY <1>4 DEF PageInv, SavedInv, ValidToken
  <2>2. first <= pstate.part /\ pstate.part < idx /\ indexOrZero(pstate.part) = pstate.part
    BY <1>3, <2>1 DEF indexOrZero
  <2>3. CASE pc[i] = "done"
    BY <1>4, <2>2, <2>3, ReachedAt
  <2>4. CASE pc[i] = "idle" /\ i < first
    <3>1. i < pstate.part
      BY <1>3, <2>1, <2>2, <2>4
    <3> QED BY <2>2, <2>4, <3>1, ReachedAt
  <2>5. CASE pc[i] = "idle" /\ ~(i < first)
    <3>1. ~(i < idx)
      BY <1>2, <1>3, <2>5
    <3>2. pstate.part < i
      BY <1>3, <2>1, <2>2, <3>1
    <3>3. Entry(i, pstate) = 0 /\ ~(i < pstate.part)
      BY <2>1, <3>2 DEF Entry
    <3>4. st.part # i
      <4>1. st.part = i => first = i
        BY DEF first, indexOrZero
      <4> QED BY <1>3, <2>1, <2>2, <3>2, <4>1
    <3>5. Reached(i) = 0
      BY <2>5, <3>4, ReachedAt DEF Entry
    <3> QED BY <2>2, <3>3, <3>5
  <2> QED BY <1>1, <2>3, <2>4, <2>5
<1>5. ASSUME pstate = NoState, ~(Len(out) = limit), NEW i \in Parts
      PROVE  Reached(i) = size[i]
  <2>1. capacity # 0 /\ capacity >= 0 /\ capacity \in Int
    <3>1. capacity \in Int /\ limit \in Nat /\ Len(out) \in Nat
      BY DEF IInv, TypeOK
    <3>2. Len(out) + capacity = limit /\ capacity >= 0
      BY <1>1, <1>5 DEF IInv, AccountInv, Good
    <3> QED BY <1>5, <3>1, <3>2
  <2>2. idx > N
    BY <1>2, <2>1
  <2>3. CASE pc[i] = "done"
    BY <1>5, <2>3, ReachedAt
  <2>4. CASE pc[i] = "idle"
    <3>1. i < first
      BY <1>2, <1>3, <2>2, <2>4
    <3> QED BY <2>4, <3>1, ReachedAt
  <2> QED BY <1>1, <2>3, <2>4
<1>6. pstate # NoState => reached = Start(pstate)
    BY <1>4 DEF reached, Start
<1>7. pstate = NoState => Len(out) = limit \/ \A i \in Parts : reached[i] = size[i]
    BY <1>5 DEF reached
<1> QED BY <1>6, <1>7

(* The page is delivered, with the token it leaves, or nothing is.          *)
LEMMA ReturnedPage ==
    ASSUME IInv, PageInv, ReturnPage
    PROVE  PageInv'
<1>1. /\ client = "busy" /\ fpc = "closed" /\ client' # "busy"
      /\ UNCHANGED <<size, st, limit, capacity, pstate, out, perr, fpc, idx, pc, loc, batch,
                     done, gone, egerr>>
    BY DEF ReturnPage, pageVars, feederVars, workerVars, ctxVars
<1>2. LaunchedInv' /\ RoundInv' /\ BatchInv' /\ SavedInv' /\ SentInv'
    BY <1>1 DEF Good, LaunchedInv, RoundInv, BatchInv, SavedInv, SentInv
<1>3. \A i \in Parts : pc[i] \in {"idle", "done"}
    BY <1>1 DEF PageInv, ClientInv
<1>4. CASE perr \/ gone
  <2>1. client' = "idle" /\ UNCHANGED <<resume, delivered>>
    BY <1>4 DEF ReturnPage
  <2>2. TokenInv'
    BY <1>1, <2>1 DEF PageInv, TokenInv, ValidToken, ListLen, Lister, Start
  <2>3. ClientInv' /\ CompleteUnlessFull'
    BY <1>1, <1>3, <2>1 DEF ClientInv, CompleteUnlessFull
  <2> QED BY <1>2, <2>2, <2>3 DEF PageInv
<1>5. CASE ~(perr \/ gone)
  <2>1. /\ delivered' = delivered \o out /\ resume' = pstate
        /\ client' = IF pstate = NoState THEN "finished" ELSE "idle"
    BY <1>5 DEF ReturnPage
  <2>2. Good
    <3>1. ~done
      BY <1>1, <1>5 DEF PageInv, ClientInv
    <3> QED BY <1>1, <1>3, <3>1 DEF Good, Clean
  <2>3. Covers(delivered \o out, reached) /\ Frontier(reached)
    BY <2>2 DEF PageInv, SentInv
  <2>4. delivered \o out \in Seq(Parts \X Nat)
    BY SentType
  <2>5. size \in [Parts -> 0..MaxSize] /\ \A i \in Parts : size[i] \in Nat
    BY Shapes
  <2>6. reached \in [Parts -> Nat]
    BY <2>3, ReachedType
  <2>7. CASE pstate # NoState
    <3>1. reached = Start(pstate) /\ ValidToken(pstate)
      BY <1>1, <2>2, <2>7, PageEnd DEF PageInv, SavedInv
    <3>2. ValidToken(resume)' = ValidToken(pstate) /\ Start(resume)' = Start(pstate)
      BY <1>1, <2>1 DEF ValidToken, ListLen, Lister, Start
    <3>3. TokenInv'
      BY <2>1, <2>3, <3>1, <3>2 DEF TokenInv
    <3>4. ClientInv' /\ CompleteUnlessFull'
      BY <1>1, <1>3, <2>1, <2>7 DEF ClientInv, CompleteUnlessFull
    <3> QED BY <1>2, <3>3, <3>4 DEF PageInv
  <2>8. CASE pstate = NoState
    <3>1. client' = "finished" /\ resume' = NoState
      BY <2>1, <2>8
    <3>2. InOrder(delivered \o out)
      BY <2>3, <2>4, <2>5, <2>6, CoversInOrder
    <3>3. Objects' = Objects
      BY <1>1 DEF Objects
    <3>4. InOrder(delivered)'
      BY <2>1, <3>2, <3>3 DEF InOrder
    <3>5. ClientInv'
      BY <1>1, <1>3, <3>1, <3>4 DEF ClientInv
    <3>6. TokenInv'
      BY <3>1 DEF TokenInv
    <3>7. ASSUME ~(Len(out) = limit), NEW o \in Objects PROVE In(o, delivered \o out)
      <4>1. PICK j \in Parts, n \in 1..MaxSize : o = <<j, n>> /\ n <= size[j]
        BY DEF Objects
      <4>2. reached[j] = size[j]
        BY <1>1, <2>2, <2>8, <3>7, PageEnd
      <4>3. n \in Nat \ {0} /\ n <= reached[j]
        BY <4>1, <4>2
      <4>4. In(<<j, n>>, delivered \o out)
        BY <2>3, <2>4, <2>6, <4>3, CoversIn
      <4> QED BY <4>1, <4>4
    <3>8. CompleteUnlessFull'
      BY <1>1, <2>1, <3>3, <3>7 DEF CompleteUnlessFull
    <3> QED BY <1>2, <3>5, <3>6, <3>8 DEF PageInv
  <2> QED BY <2>7, <2>8
<1> QED BY <1>4, <1>5

(* Every step keeps the order.                                              *)
LEMMA NextPage == IInv /\ PageInv /\ [Next]_vars => PageInv'
<1> SUFFICES ASSUME IInv, PageInv, [Next]_vars PROVE PageInv'
    OBVIOUS
<1>1. CASE feeder \/ List \/ Abandon \/ ReturnPage
    BY <1>1, ControlPage, LaunchPage, ListPage, ReturnedPage DEF feeder
<1>2. ASSUME NEW i \in Parts, worker(i) PROVE PageInv'
    BY <1>2, WorkerPage
<1>3. CASE UNCHANGED vars
  <2>1. UNCHANGED <<size, client, resume, delivered, st, limit, capacity, pstate, out, idx,
                    fpc, perr, done, gone, egerr, pc, loc, batch>>
    BY <1>3 DEF vars, pageVars, feederVars, workerVars, ctxVars, clientVars
  <2>2. (Good' => Good) /\ first' = first /\ Objects' = Objects
    BY <2>1 DEF Good, Clean, first, Objects
  <2>3. ClientInv'
    BY <2>1, <2>2 DEF PageInv, ClientInv, InOrder
  <2>4. TokenInv' /\ CompleteUnlessFull'
    BY <2>1, <2>2 DEF PageInv, TokenInv, ValidToken, ListLen, Lister, Start, CompleteUnlessFull
  <2>5. LaunchedInv'
    BY <2>1, <2>2 DEF PageInv, LaunchedInv
  <2> QED BY <2>1, <2>2, <2>3, <2>4, <2>5, QuietPage DEF PageInv
<1> QED BY <1>1, <1>2, <1>3 DEF Next, Running, Code, Terminated

(* In every reachable state what was delivered and sent is in order.        *)
THEOREM OrderInvariance == Spec => []PageInv
<1> QED BY InitPage, NextPage, Invariance, PTL DEF Spec

(* The positions of the next token are a frontier that was delivered.       *)
LEMMA Delivered ==
    ASSUME IInv, PageInv, client # "finished"
    PROVE  /\ delivered \in Seq(Parts \X Nat) /\ Start(resume) \in [Parts -> Nat]
           /\ Covers(delivered, Start(resume)) /\ Frontier(Start(resume))
<1>1. Covers(delivered, Start(resume)) /\ (resume # NoState => ValidToken(resume))
    BY DEF PageInv, TokenInv
<1>2. delivered \in Seq(Parts \X Nat)
    BY DEF IInv, TypeOK
<1>3. size \in [Parts -> 0..MaxSize] /\ resume \in ListStates /\ CursorOK(resume)
    BY Shapes DEF IInv, CursorInv
<1> QED BY <1>1, <1>2, <1>3, StartFrontier

(* Across pages, failures and retries the client receives the beginning of  *)
(* the full list (parallel.go 80-188, store.go List).                       *)
THEOREM PrefixesDelivered == Spec => []PrefixDelivered
<1>1. IInv /\ PageInv => PrefixDelivered
  <2> SUFFICES ASSUME IInv, PageInv PROVE PrefixDelivered
    OBVIOUS
  <2>0. size \in [Parts -> 0..MaxSize] /\ \A i \in Parts : size[i] \in Nat
    BY Shapes
  <2>1. InOrder(delivered)
    <3>1. CASE client = "finished"
      BY <3>1 DEF PageInv, ClientInv
    <3>2. CASE client # "finished"
      BY <2>0, <3>2, Delivered, CoversInOrder
    <3> QED BY <3>1, <3>2
  <2>2. ASSUME Good PROVE InOrder(delivered \o out)
    <3>1. Covers(delivered \o out, reached) /\ Frontier(reached)
      BY <2>2 DEF PageInv, SentInv
    <3>2. delivered \o out \in Seq(Parts \X Nat)
      BY SentType
    <3>3. reached \in [Parts -> Nat]
      BY <3>1, ReachedType
    <3> QED BY <2>0, <3>1, <3>2, <3>3, CoversInOrder
  <2> QED BY <2>1, <2>2 DEF PrefixDelivered, Good
<1> QED BY <1>1, Invariance, OrderInvariance, PTL

(* A continue token names exactly the first object that was not delivered   *)
(* (parallel.go 66-72, 136-138, 157-170).                                   *)
THEOREM TokensExact == Spec => []TokenExact
<1>1. IInv /\ PageInv => TokenExact
  <2> SUFFICES ASSUME IInv, PageInv, resume # NoState
               PROVE  LET o == <<resume.part, resume.cont + resume.offset + 1>>
                      IN  o \in Objects /\ \A x \in Objects : Before(x, o) <=> In(x, delivered)
    BY DEF TokenExact
  <2> DEFINE p == resume.part
             m == resume.cont + resume.offset
             r == Start(resume)
  <2>1. /\ delivered \in Seq(Parts \X Nat) /\ r \in [Parts -> Nat]
        /\ Covers(delivered, r)
    BY Delivered DEF PageInv, ClientInv
  <2>2. p \in Parts /\ m \in Nat /\ m < size[p]
    <3>1. ValidToken(resume)
      BY DEF PageInv, TokenInv
    <3>2. size \in [Parts -> 0..MaxSize] /\ resume \in ListStates /\ CursorOK(resume)
      BY Shapes DEF IInv, CursorInv
    <3>3. /\ p \in Parts /\ resume.cont \in Nat /\ resume.offset \in Nat
          /\ m < size[p]
      BY <3>1, <3>2, TokenInside
    <3> QED BY <3>3
  <2>3. \A i \in Parts : /\ i < p => r[i] = size[i]
                         /\ i = p => r[i] = m
                         /\ i > p => r[i] = 0
    <3>1. indexOrZero(resume.part) = p
      BY <2>2 DEF indexOrZero
    <3>2. r = [i \in Parts |-> IF i < p THEN size[i] ELSE IF p = i THEN m ELSE 0]
      BY <3>1 DEF Start, Entry
    <3> HIDE DEF p, m, r
    <3> QED BY <2>2, <3>2
  <2>4. \A i \in Parts : size[i] \in 0..MaxSize
    BY Shapes
  <2> HIDE DEF p, m, r
  <2>5. <<p, m + 1>> \in Objects
    <3>1. m + 1 \in 1..MaxSize /\ m + 1 <= size[p]
      BY <2>2, <2>4
    <3>2. <<p, m + 1>> \in Parts \X (1..MaxSize) /\ <<p, m + 1>>[1] = p /\ <<p, m + 1>>[2] = m + 1
      BY <2>2, <3>1
    <3> QED BY <3>1, <3>2, Zenon DEF Objects
  <2>6. ASSUME NEW x \in Objects PROVE Before(x, <<p, m + 1>>) <=> In(x, delivered)
    <3>1. PICK i \in Parts, n \in 1..MaxSize : x = <<i, n>> /\ n <= size[i]
      BY DEF Objects
    <3>2. In(<<i, n>>, delivered) <=> n <= r[i]
      <4>1. n \in Nat \ {0}
        OBVIOUS
      <4> QED BY <2>1, <4>1, CoversIn
    <3>3. Before(<<i, n>>, <<p, m + 1>>) <=> i < p \/ (i = p /\ n < m + 1)
      BY DEF Before
    <3>4. n <= r[i] <=> i < p \/ (i = p /\ n < m + 1)
      <4>1. CASE i < p
        BY <2>3, <3>1, <4>1
      <4>2. CASE i = p
        BY <2>2, <2>3, <4>2
      <4>3. CASE i > p
        BY <2>2, <2>3, <4>3
      <4> QED BY <2>2, <4>1, <4>2, <4>3
    <3> QED BY <3>1, <3>2, <3>3, <3>4
  <2> QED BY <2>5, <2>6 DEF p, m
<1> QED BY <1>1, Invariance, OrderInvariance, PTL

(* A client that gets no token has everything, unless its last page came    *)
(* out exactly full (parallel.go 105, 161, 176).                            *)
THEOREM CompleteWhenFinished == Spec => []CompleteUnlessFull
<1>1. PageInv => CompleteUnlessFull
    BY DEF PageInv
<1> QED BY <1>1, OrderInvariance, PTL
=============================================================================
