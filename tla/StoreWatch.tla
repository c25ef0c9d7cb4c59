----------------------------- MODULE StoreWatch -----------------------------
(***************************************************************************)
(* What a store promises to whoever calls its Watch (types.Store, Watch):   *)
(* a channel that carries, for each source of the watch, the events the     *)
(* subscriber may see, in the order of the source and without a gap; that   *)
(* is closed only after the watch was given up and everything taken from a  *)
(* source was handed over; that carries nothing afterwards; and that is     *)
(* closed in the end once the watch was given up.  This is what a stream of *)
(* WatchSession relies on: it leaves its loop only when the channel closes. *)
(***************************************************************************)
EXTENDS Naturals, Sequences

CONSTANTS Sources, Events

VARIABLES
    owed,  \* per source: events taken from it that the subscriber may see
    got,   \* per source: events the subscriber has received
    done,  \* the watch was given up
    open   \* the channel is open

vars == <<owed, got, done, open>>

Init ==
    /\ owed = [s \in Sources |-> <<>>]
    /\ got = [s \in Sources |-> <<>>]
    /\ done = FALSE
    /\ open = TRUE

Take(s) ==
    /\ open
    /\ \E e \in Events : owed' = [owed EXCEPT ![s] = Append(@, e)]
    /\ UNCHANGED <<got, done, open>>

Deliver(s) ==
    /\ open
    /\ Len(got[s]) < Len(owed[s])
    /\ got' = [got EXCEPT ![s] = Append(@, owed[s][Len(@) + 1])]
    /\ UNCHANGED <<owed, done, open>>

GiveUp ==
    /\ done' = TRUE
    /\ UNCHANGED <<owed, got, open>>

Close ==
    /\ done /\ open
    /\ got = owed
    /\ open' = FALSE
    /\ UNCHANGED <<owed, got, done>>

Next == GiveUp \/ Close \/ \E s \in Sources : Take(s) \/ Deliver(s)

Safe == Init /\ [][Next]_vars

Closes == done ~> ~open

Spec == Safe /\ Closes
=============================================================================
