----------------------------- MODULE LeasedQueue -----------------------------
(***************************************************************************)
(* What a leased queue promises, without workers, leases or tokens: every  *)
(* item is delivered at least once before it is acknowledged, failures are *)
(* counted one at a time up to the item's own limit, and an item that is   *)
(* done or dead stays so.                                                  *)
(***************************************************************************)
EXTENDS Naturals

CONSTANT Items

VARIABLES
    phase,      \* absent, waiting, done or dead
    tries,      \* failed deliveries recorded
    limit,      \* failed deliveries after which the item is dead
    delivered   \* every consumer has seen the item

vars == <<phase, tries, limit, delivered>>

TypeOK ==
    /\ phase \in [Items -> {"absent", "waiting", "done", "dead"}]
    /\ tries \in [Items -> Nat]
    /\ limit \in [Items -> Nat]
    /\ delivered \in [Items -> BOOLEAN]

Init ==
    /\ phase = [i \in Items |-> "absent"]
    /\ tries = [i \in Items |-> 0]
    /\ limit = [i \in Items |-> 0]
    /\ delivered = [i \in Items |-> FALSE]

Submit(i) ==
    /\ phase[i] = "absent"
    /\ phase' = [phase EXCEPT ![i] = "waiting"]
    /\ limit'[i] \in Nat \ {0}
    /\ limit' = [limit EXCEPT ![i] = limit'[i]]
    /\ UNCHANGED <<tries, delivered>>

\* Consumers may see an item at any time once it is there, and again.
Deliver(i) ==
    /\ phase[i] # "absent"
    /\ delivered' = [delivered EXCEPT ![i] = TRUE]
    /\ UNCHANGED <<phase, tries, limit>>

Complete(i) ==
    /\ phase[i] = "waiting"
    /\ delivered[i]
    /\ phase' = [phase EXCEPT ![i] = "done"]
    /\ UNCHANGED <<tries, limit, delivered>>

Retry(i) ==
    /\ phase[i] = "waiting"
    /\ tries[i] + 1 < limit[i]
    /\ tries' = [tries EXCEPT ![i] = @ + 1]
    /\ UNCHANGED <<phase, limit, delivered>>

GiveUp(i) ==
    /\ phase[i] = "waiting"
    /\ tries[i] + 1 = limit[i]
    /\ tries' = [tries EXCEPT ![i] = @ + 1]
    /\ phase' = [phase EXCEPT ![i] = "dead"]
    /\ UNCHANGED <<limit, delivered>>

Next ==
    \E i \in Items : Submit(i) \/ Deliver(i) \/ Complete(i) \/ Retry(i) \/ GiveUp(i)

Spec == Init /\ [][Next]_vars

\* What the phase of an item says: one that is done was delivered, one that is dead
\* has used up its deliveries, and one that waits has some left.
PhaseTells ==
    \A i \in Items :
        /\ phase[i] = "absent" => tries[i] = 0
        /\ phase[i] = "waiting" => tries[i] < limit[i]
        /\ phase[i] = "done" => delivered[i]
        /\ phase[i] = "dead" => tries[i] = limit[i]

\* Every item that was submitted is settled in the end.
Settles == \A i \in Items : phase[i] = "waiting" ~> phase[i] \in {"done", "dead"}
=============================================================================
