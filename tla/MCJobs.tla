------------------------------- MODULE MCJobs -------------------------------
(* Small instances of Jobs for TLC. *)
EXTENDS Jobs, TLC

CONSTANTS j1, j2

\* One job, enqueued with the default or with a given number of attempts.
OneJob == {j1}
OneJobCalls == {[id |-> j1, run_at |-> 0, max_attempts |-> m] : m \in {-1, 1}}

\* Two jobs due at once; the first may be retried, the second may not.
TwoJobs == {j1, j2}
TwoJobsCalls ==
    {[id |-> j1, run_at |-> 0, max_attempts |-> 0],
     [id |-> j2, run_at |-> 0, max_attempts |-> 1]}

WorkerSymmetry == Permutations(Workers)
=============================================================================
