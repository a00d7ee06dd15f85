--------------------------------- MODULE Tx ---------------------------------
(***************************************************************************)
(* DB.WithTransaction (postgres/tx.go): a callback is run in a transaction *)
(* which is retried on some SQLSTATEs; within the callback, WithTransaction *)
(* with its context runs another callback in a savepoint, to any depth.    *)
(*                                                                         *)
(* A callback is arbitrary code: it executes statements, nests, swallows   *)
(* errors or returns them.  The context of a nested call may be cancelled  *)
(* (a timeout of its own) while the one around it is live.  pgx does not   *)
(* send a statement under a context that is done, and closes a connection  *)
(* whose statement is interrupted, which rolls everything back.            *)
(***************************************************************************)
EXTENDS Integers, Sequences, FiniteSets

CONSTANTS
    MaxAttempts,  \* RetryConfig.MaxAttempts
    MaxDepth,     \* bound: nested calls
    MaxWrites     \* bound: statements of all callbacks that write

ASSUME TxAssumption ==
    /\ MaxAttempts \in Int
    /\ MaxDepth \in Nat \ {0}
    /\ MaxWrites \in Nat

VARIABLES
    pc,         \* loop, callback, sleep or returned
    attempt,
    stack,      \* the transaction and its savepoints: what each has written,
                \* and whether its context is done
    connection, \* idle, ok, aborted (waiting for a rollback) or closed
    written,    \* history: the statements that have written
    committed,  \* what is in the database
    result,     \* what WithTransaction returned
    ctxDone,    \* the context given to it is done
    lost,       \* history: the answer to a COMMIT was lost
    undone      \* history: what nested calls that returned an error had
                \* written, with whether their context was done

txVars == <<pc, attempt, stack, connection, written, committed, result, ctxDone,
            lost, undone>>

Errors == {"retryable", "other", "context"}

TxInit ==
    /\ pc = "loop"
    /\ attempt = 1
    /\ stack = <<>>
    /\ connection = "idle"
    /\ written = {}
    /\ committed = {}
    /\ result = "none"
    /\ ctxDone = FALSE
    /\ lost = FALSE
    /\ undone = {}

Depth == Len(stack)
Top == stack[Depth]

\* pgx sends a statement at the current level.
Usable == connection = "ok" /\ ~Top.done

-----------------------------------------------------------------------------
(* The retry loop.                                                         *)

Return(res) == pc' = "returned" /\ result' = res /\ UNCHANGED attempt

\* A non-positive MaxAttempts means one attempt.
Attempts == IF MaxAttempts <= 0 THEN 1 ELSE MaxAttempts

\* Faulty: whatever went wrong is tried again.
RetryAnything(e) == TRUE

IsRetryable(e) == e = "retryable"

\* runInTx has returned the error e.
AttemptFailed(e) ==
    \/ ~IsRetryable(e) /\ Return(e)
    \/ IsRetryable(e) /\ attempt = Attempts /\ Return("exceeded")
    \/ IsRetryable(e) /\ attempt < Attempts /\ pc' = "sleep" /\ UNCHANGED <<attempt, result>>

\* The transaction is over; the connection goes back to the pool.
Close == stack' = <<>> /\ connection' = "idle"

Begin ==
    /\ pc = "loop"
    /\ ~ctxDone
    /\ pc' = "callback"
    /\ stack' = <<[writes |-> {}, done |-> FALSE]>>
    /\ connection' = "ok"
    /\ UNCHANGED <<attempt, written, committed, result, ctxDone, lost, undone>>

BeginFails(e) ==
    /\ pc = "loop"
    /\ ~ctxDone
    /\ AttemptFailed(e)
    /\ UNCHANGED <<stack, connection, written, committed, ctxDone, lost, undone>>

\* The context is done before an attempt, or while the loop waits for the next.
GiveUp ==
    /\ pc \in {"loop", "sleep"}
    /\ ctxDone
    /\ Return("context")
    /\ UNCHANGED <<stack, connection, written, committed, ctxDone, lost, undone>>

\* The backoff is over; select may pick the timer though the context is done.
Wake ==
    /\ pc = "sleep"
    /\ pc' = "loop"
    /\ attempt' = attempt + 1
    /\ UNCHANGED <<stack, connection, written, committed, result, ctxDone, lost, undone>>

-----------------------------------------------------------------------------
(* The callbacks.                                                          *)

Statement ==
    /\ pc = "callback"
    /\ Usable
    /\ Cardinality(written) < MaxWrites
    /\ LET w == [attempt |-> attempt, number |-> Cardinality(written) + 1]
       IN  /\ written' = written \cup {w}
           /\ stack' = [stack EXCEPT ![Depth].writes = @ \cup {w}]
    /\ UNCHANGED <<pc, attempt, connection, committed, result, ctxDone, lost, undone>>

\* The server refuses a statement; or the connection breaks, or the context of
\* the statement ends while it is executed.
StatementFails ==
    /\ pc = "callback"
    /\ Usable
    /\ connection' \in {"aborted", "closed"}
    /\ UNCHANGED <<pc, attempt, stack, written, committed, result, ctxDone, lost, undone>>

\* A context ends, and with it those derived from it.
Expire(i) ==
    /\ i \in 1..Depth
    /\ ~stack[i].done
    /\ stack' = [k \in 1..Depth |-> IF k < i THEN stack[k] ELSE [stack[k] EXCEPT !.done = TRUE]]
    /\ ctxDone' = (ctxDone \/ i = 1)
    /\ UNCHANGED <<pc, attempt, connection, written, committed, result, lost, undone>>

ExpireIdle ==
    /\ pc \in {"loop", "sleep"}
    /\ ~ctxDone
    /\ ctxDone' = TRUE
    /\ UNCHANGED <<pc, attempt, stack, connection, written, committed, result, lost, undone>>

\* WithTransaction under the ambient transaction: SAVEPOINT.
Nest ==
    /\ pc = "callback"
    /\ Usable
    /\ Depth < MaxDepth
    /\ stack' = Append(stack, [writes |-> {}, done |-> FALSE])
    /\ UNCHANGED <<pc, attempt, connection, written, committed, result, ctxDone,
                   lost, undone>>

\* The level below takes over what the savepoint has written.
Merge ==
    stack' = [SubSeq(stack, 1, Depth - 1) EXCEPT ![Depth - 1].writes = @ \cup Top.writes]

\* The writes of the level on top belong to a nested call that fails.
Undone == undone' = undone \cup {[write |-> w, done |-> Top.done] : w \in Top.writes}

\* The nested callback returns nil and RELEASE SAVEPOINT is executed.
NestedCommits ==
    /\ pc = "callback"
    /\ Depth > 1
    /\ Usable
    /\ Merge
    /\ UNCHANGED <<pc, attempt, connection, written, committed, result, ctxDone, lost, undone>>

\* It returns nil, but RELEASE fails, or is not sent.  pgx then regards the
\* savepoint as closed, and the deferred Rollback does nothing.
NestedCommitFails ==
    /\ pc = "callback"
    /\ Depth > 1
    /\ ~Usable
    /\ Merge
    /\ Undone
    /\ UNCHANGED <<pc, attempt, connection, written, committed, result, ctxDone, lost>>

\* Faulty: the savepoint is left as it is.
RollbackNever == Merge /\ UNCHANGED connection

\* nested.Rollback(ctx): ROLLBACK TO SAVEPOINT, unless the context is done.
RollbackNested ==
    IF Top.done \/ connection = "closed"
    THEN Merge /\ UNCHANGED connection
    ELSE stack' = SubSeq(stack, 1, Depth - 1) /\ connection' = "ok"

\* The nested callback returns an error, or panics and its caller recovers.
NestedFails ==
    /\ pc = "callback"
    /\ Depth > 1
    /\ RollbackNested
    /\ Undone
    /\ UNCHANGED <<pc, attempt, written, committed, result, ctxDone, lost>>

\* The outermost callback returns an error, one it has seen or one of its own:
\* rolled back.
CallbackFails(e) ==
    /\ pc = "callback"
    /\ Depth = 1
    /\ AttemptFailed(e)
    /\ Close
    /\ UNCHANGED <<written, committed, ctxDone, lost, undone>>

\* It panics: the deferred Rollback is executed and the panic goes on.
CallbackPanics ==
    /\ pc = "callback"
    /\ Depth = 1
    /\ Return("panic")
    /\ Close
    /\ UNCHANGED <<written, committed, ctxDone, lost, undone>>

\* It returns nil and the transaction is committed.
Commit ==
    /\ pc = "callback"
    /\ Depth = 1
    /\ Usable
    /\ committed' = committed \cup Top.writes
    /\ Return("nil")
    /\ Close
    /\ UNCHANGED <<written, ctxDone, lost, undone>>

\* How a COMMIT that is not executed fails: refused by the server, answered by
\* ROLLBACK as the transaction is aborted, or not sent.
CommitErrors ==
    IF Usable THEN {"retryable", "other"} ELSE {IF Top.done THEN "context" ELSE "other"}

\* Faulty: the error of Commit is not looked at.
CommitFailsUnseen(e) ==
    /\ pc = "callback"
    /\ Depth = 1
    /\ e \in CommitErrors
    /\ Return("nil")
    /\ Close
    /\ UNCHANGED <<written, committed, ctxDone, lost, undone>>

\* It returns nil, but COMMIT fails: rolled back.
CommitFails(e) ==
    /\ pc = "callback"
    /\ Depth = 1
    /\ e \in CommitErrors
    /\ AttemptFailed(e)
    /\ Close
    /\ UNCHANGED <<written, committed, ctxDone, lost, undone>>

\* COMMIT is sent and executed, or not; no answer comes.  That is not an error
\* of the server's, hence not retryable.
CommitLost(e) ==
    /\ pc = "callback"
    /\ Depth = 1
    /\ Usable
    /\ e \in {"other", "context"}
    /\ committed' \in {committed, committed \cup Top.writes}
    /\ lost' = TRUE
    /\ AttemptFailed(e)
    /\ Close
    /\ UNCHANGED <<written, ctxDone, undone>>

TxNext ==
    \/ Begin
    \/ GiveUp
    \/ Wake
    \/ Statement
    \/ \E i \in 1..MaxDepth : Expire(i)
    \/ ExpireIdle
    \/ Nest
    \/ NestedCommits
    \/ NestedCommitFails
    \/ Commit
    \/ StatementFails
    \/ NestedFails
    \/ CallbackPanics
    \/ \E e \in Errors : BeginFails(e) \/ CallbackFails(e) \/ CommitFails(e) \/ CommitLost(e)

TxSpec == TxInit /\ [][TxNext]_txVars

-----------------------------------------------------------------------------
(* Properties.                                                             *)

\* What is committed was written by one attempt, though the callback may have
\* run several times.
OneAttemptCommitted == \A v, w \in committed : v.attempt = w.attempt

\* The result can be relied upon: after nil all the last attempt wrote is
\* committed, but for nested calls that failed; after an error nothing is, unless
\* the answer to COMMIT was lost.
ResultHonest ==
    /\ result = "nil" =>
        \A w \in written :
            w.attempt = attempt => w \in committed \/ w \in {u.write : u \in undone}
    /\ result \notin {"none", "nil"} => committed = {} \/ lost

\* A nested call that returned an error under a live context has left nothing
\* behind, even if the callback around it went on and committed.  (Under a context
\* that is done the savepoint is not rolled back, and its writes may be committed
\* by the call around it.)
NestedUndone ==
    \A u \in undone : ~u.done => u.write \notin committed
=============================================================================
