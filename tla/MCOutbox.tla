------------------------------ MODULE MCOutbox ------------------------------
(* Small instances of Outbox for TLC. *)
EXTENDS Outbox, TLC

CONSTANTS m1, m2, h1, h2

\* One message with two handlers, and two attempts; WithMaxAttempts(0) is refused.
OneMessage == {m1}
OneMessageHandlers == [m \in OneMessage |-> <<h1, h2>>]
OneMessageCalls ==
    {[id |-> m1, occurred_at |-> 0, process_after |-> 0, max_attempts |-> n] : n \in {0, 2}}

\* Two messages, claimed in one batch; the later one has no handler at all.
TwoMessages == {m1, m2}
TwoMessagesHandlers == [m \in TwoMessages |-> IF m = m1 THEN <<h1>> ELSE <<>>]
TwoMessagesCalls ==
    {[id |-> m1, occurred_at |-> 0, process_after |-> 0, max_attempts |-> 1],
     [id |-> m2, occurred_at |-> 1, process_after |-> 0, max_attempts |-> 1]}

RelaySymmetry == Permutations(Relays)
=============================================================================
