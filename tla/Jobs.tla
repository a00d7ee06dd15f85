-------------------------------- MODULE Jobs --------------------------------
(***************************************************************************)
(* The durable job queue of package jobs: the table devengine_jobs, the    *)
(* workers that poll it (jobs/worker.go) and the administrative operations *)
(* on permanently failed jobs (jobs/repository.go).                        *)
(*                                                                         *)
(* A worker claims a batch with one UPDATE that leases the rows and stamps *)
(* them with a fresh claim token, runs the handlers one after the other    *)
(* while a goroutine renews the lease of the job being handled, and        *)
(* records each outcome with a statement guarded by the claim token.       *)
(*                                                                         *)
(* Every SQL statement is atomic.  A statement whose caller gave up on it  *)
(* (its context was cancelled, its connection broke, its process died) may *)
(* still reach the server: it is then in `orphans' and is executed at some *)
(* later moment, on another connection than the statements that follow it. *)
(*                                                                         *)
(* Time is relative: run_at and locked_until hold the time left, and Tick  *)
(* lets one unit pass.  A NULL locked_until and one in the past admit the  *)
(* same statements, so both are 0.                                         *)
(***************************************************************************)
EXTENDS Integers, FiniteSets

CONSTANTS
    Jobs,                \* primary keys of devengine_jobs
    Unhandled,           \* the jobs whose name has no registered handler
    Workers,             \* worker processes polling the table
    Tokens,              \* claim prefixes (UUIDs)
    BatchSize,           \* WorkerConfig.BatchSize
    LeaseDuration,       \* WorkerConfig.LeaseDuration, in ticks
    Calls,               \* the calls of Enqueue producers make
    Delays,              \* RunAt of a requeued job, from now
    Backoffs,            \* the waits backoff() may return, in ticks
    DefaultMaxAttempts,  \* what Enqueue uses for a non-positive MaxAttempts
    MaxAge,              \* bound: how long overdue run_at still tells jobs apart
    MaxFaults,           \* bound: shutdowns, crashes and lost statements
    Infinity,            \* 'infinity'::timestamptz
    NULL,                \* SQL NULL
    NoRow                \* there is no row with this primary key

Row == [run_at : Int, attempt : Nat, max_attempts : Nat,
        locked_until : Nat \cup {Infinity}, claim_token : Tokens \cup {NULL}]

\* jobRow: what RETURNING hands to the worker; claim_token is prefix[w].
JobRow == [id : Jobs, attempt : Nat, max_attempts : Nat]

Statement == [kind : {"renew", "delete", "fail", "retry"}, id : Jobs,
              claim_token : Tokens, attempt : Nat, delay : Nat]

ASSUME ConstantsAssumption ==
    /\ Unhandled \subseteq Jobs
    /\ BatchSize \in Nat \ {0}
    /\ LeaseDuration \in Nat \ {0}
    /\ Calls \subseteq [id : Jobs, run_at : Nat, max_attempts : Int]
    /\ Delays \subseteq Nat
    /\ Backoffs \subseteq Nat
    /\ DefaultMaxAttempts \in Nat \ {0}
    /\ MaxAge \in Nat
    /\ MaxFaults \in Nat

ASSUME NullsAssumption ==
    /\ Infinity \notin Nat
    /\ NULL \notin Tokens
    /\ NoRow \notin Row
    /\ NoRow \notin JobRow

VARIABLES
    job,        \* the table: a Row or NoRow for every primary key
    pc,         \* where each worker is: poll, handle, record, exited
    prefix,     \* claimPrefix of the batch being processed
    batch,      \* rows of the batch whose turn has not come
    cur,        \* the row being handled or recorded
    result,     \* what the handler of cur returned
    renewal,    \* the renewal goroutine: off, waiting, sent or gone
    cancelled,  \* handlerCtx has been cancelled
    ctxDone,    \* the context given to Run has been cancelled
    orphans,    \* statements nobody waits for that may still be executed
    faults,     \* disturbances left
    succeeded   \* history: jobs a handler completed since they were (re)queued

workerVars == <<pc, prefix, batch, cur, result, renewal, cancelled, ctxDone>>
vars == <<job, workerVars, orphans, faults, succeeded>>

TypeOK ==
    /\ job \in [Jobs -> Row \cup {NoRow}]
    /\ pc \in [Workers -> {"poll", "handle", "record", "exited"}]
    /\ prefix \in [Workers -> Tokens \cup {NULL}]
    /\ batch \in [Workers -> SUBSET JobRow]
    /\ cur \in [Workers -> JobRow \cup {NoRow}]
    /\ result \in [Workers -> {"ok", "err"}]
    /\ renewal \in [Workers -> {"off", "waiting", "sent", "gone"}]
    /\ cancelled \in [Workers -> BOOLEAN]
    /\ ctxDone \in [Workers -> BOOLEAN]
    /\ orphans \in SUBSET Statement
    /\ faults \in Nat
    /\ succeeded \in SUBSET Jobs

Init ==
    /\ job = [j \in Jobs |-> NoRow]
    /\ pc = [w \in Workers |-> "poll"]
    /\ prefix = [w \in Workers |-> NULL]
    /\ batch = [w \in Workers |-> {}]
    /\ cur = [w \in Workers |-> NoRow]
    /\ result = [w \in Workers |-> "ok"]
    /\ renewal = [w \in Workers |-> "off"]
    /\ cancelled = [w \in Workers |-> FALSE]
    /\ ctxDone = [w \in Workers |-> FALSE]
    /\ orphans = {}
    /\ faults = MaxFaults
    /\ succeeded = {}

-----------------------------------------------------------------------------
(* The statements.                                                         *)

Exists(j) == job[j] # NoRow
Unexpired(until) == until # 0
Failed(j) == Exists(j) /\ job[j].locked_until = Infinity

\* Faulty: the WHERE clause forgets the claim token.
MatchesById(s) ==
    Exists(s.id) /\ (s.kind = "renew" => Unexpired(job[s.id].locked_until))

\* The WHERE clause: id and claim_token, and for a renewal an unexpired lease.
Matches(s) ==
    /\ Exists(s.id)
    /\ job[s.id].claim_token = s.claim_token
    /\ s.kind = "renew" => Unexpired(job[s.id].locked_until)

\* The row is free again, with a new attempt count and due time.
Released(r, attempt, delay) ==
    [r EXCEPT !.attempt = attempt, !.run_at = delay,
              !.locked_until = 0, !.claim_token = NULL]

\* The row s leaves behind when it matches r.
Effect(s, r) ==
    CASE s.kind = "renew"  -> [r EXCEPT !.locked_until = LeaseDuration]
      [] s.kind = "delete" -> NoRow
      [] s.kind = "fail"   -> [r EXCEPT !.attempt = s.attempt,
                                        !.locked_until = Infinity]
      [] s.kind = "retry"  -> Released(r, s.attempt, s.delay)

Exec(s) ==
    job' = IF Matches(s) THEN [job EXCEPT ![s.id] = Effect(s, @)] ELSE job

RenewStmt(w) ==
    [kind |-> "renew", id |-> cur[w].id, claim_token |-> prefix[w],
     attempt |-> 0, delay |-> 0]

\* The statement that records the outcome of cur[w] with attempt count n, as
\* failed if `exhausted'; d is the backoff.
OutcomeOf(w, n, exhausted, d) ==
    [kind |-> CASE result[w] = "ok" -> "delete"
                [] result[w] # "ok" /\ exhausted -> "fail"
                [] OTHER -> "retry",
     id |-> cur[w].id, claim_token |-> prefix[w], attempt |-> n, delay |-> d]

\* Faulty: gives up one attempt early; does not count the attempt.
OutcomeEarly(w, d) ==
    OutcomeOf(w, cur[w].attempt + 1, cur[w].attempt + 2 >= cur[w].max_attempts, d)
OutcomeUncounted(w, d) ==
    OutcomeOf(w, cur[w].attempt, cur[w].attempt + 1 >= cur[w].max_attempts, d)

OutcomeStmt(w, d) ==
    LET nextAttempt == cur[w].attempt + 1 IN
    OutcomeOf(w, nextAttempt, nextAttempt >= cur[w].max_attempts, d)

\* The statements worker w has sent, or is about to send, and waits for.
InFlight(w) ==
    CASE renewal[w] = "sent" -> {RenewStmt(w)}
      [] pc[w] = "record" /\ ~ctxDone[w] -> {OutcomeStmt(w, d) : d \in Backoffs}
      [] OTHER -> {}

\* w stops waiting: its statement is lost, or will be executed later.
Abandon(w) == orphans' \in {orphans} \cup {orphans \cup {s} : s \in InFlight(w)}

-----------------------------------------------------------------------------
(* Enqueueing and administration.                                          *)

\* Faulty: MaxAttempts is stored as given.
NewRowAsGiven(call) ==
    [run_at |-> call.run_at, attempt |-> 0, max_attempts |-> call.max_attempts,
     locked_until |-> 0, claim_token |-> NULL]

\* The row Enqueue inserts.
NewRow(call) ==
    [run_at |-> call.run_at, attempt |-> 0,
     max_attempts |-> IF call.max_attempts <= 0 THEN DefaultMaxAttempts
                      ELSE call.max_attempts,
     locked_until |-> 0, claim_token |-> NULL]

\* Enqueue, in a transaction that commits.  A duplicate id is an error.
Enqueue(call) ==
    /\ ~Exists(call.id)
    /\ job' = [job EXCEPT ![call.id] = NewRow(call)]
    /\ succeeded' = succeeded \ {call.id}
    /\ UNCHANGED <<workerVars, orphans, faults>>

RequeueFailed(j, delay) ==
    /\ Failed(j)
    /\ job' = [job EXCEPT ![j] = Released(@, 0, delay)]
    /\ succeeded' = succeeded \ {j}
    /\ UNCHANGED <<workerVars, orphans, faults>>

DiscardFailed(j) ==
    /\ Failed(j)
    /\ job' = [job EXCEPT ![j] = NoRow]
    /\ UNCHANGED <<workerVars, orphans, faults, succeeded>>

-----------------------------------------------------------------------------
(* A worker.                                                               *)

\* Faulty: the claim overlooks leases.
ClaimableLeased(j) == Exists(j) /\ job[j].run_at <= 0 /\ ~Failed(j)

Claimable(j) ==
    /\ Exists(j)
    /\ job[j].run_at <= 0
    /\ ~Unexpired(job[j].locked_until)

\* Rows another statement may be holding a lock on; SKIP LOCKED passes them by.
Contended == {s.id : s \in UNION {InFlight(w) : w \in Workers} \cup orphans}

\* ORDER BY run_at LIMIT BatchSize over the claimable rows that are not skipped.
ClaimSets ==
    LET Due == {j \in Jobs : Claimable(j)} IN
    {S \in SUBSET Due :
        \E skipped \in SUBSET (Due \cap Contended) :
            LET Rows == Due \ skipped IN
            /\ S \subseteq Rows
            /\ Cardinality(S) = BatchSize \/ (S = Rows /\ Cardinality(S) < BatchSize)
            /\ \A j \in S, k \in Rows \ S : job[j].run_at <= job[k].run_at}

\* A claim prefix is a new UUID.  One that no row, worker or statement holds
\* any longer cannot be told from a new one, which keeps Tokens finite.
LivePrefixes ==
    {job[j].claim_token : j \in {k \in Jobs : Exists(k)}}
        \cup {prefix[w] : w \in Workers} \cup {s.claim_token : s \in orphans}

\* Faulty: the prefix is a constant of the program.
FixedPrefix == CHOOSE p \in Tokens : TRUE

FreshPrefix == CHOOSE p \in Tokens : p \notin LivePrefixes

Stamp(S, p) ==
    job' = [j \in Jobs |-> IF j \in S
                           THEN [job[j] EXCEPT !.locked_until = LeaseDuration,
                                               !.claim_token = p]
                           ELSE job[j]]

Returned(S) ==
    {[id |-> j, attempt |-> job[j].attempt, max_attempts |-> job[j].max_attempts] :
        j \in S}

\* Worker w turns to row r of its batch, with rest still to come.  The contexts
\* startLeaseRenewal derives are dead from the start under a cancelled parent.
Take(w, r, rest) ==
    /\ pc' = [pc EXCEPT ![w] = "handle"]
    /\ cur' = [cur EXCEPT ![w] = r]
    /\ batch' = [batch EXCEPT ![w] = rest]
    /\ renewal' = [renewal EXCEPT ![w] = IF ctxDone[w] THEN "gone" ELSE "waiting"]
    /\ cancelled' = [cancelled EXCEPT ![w] = ctxDone[w]]

\* The worker is at p with nothing claimed.
Idle(w, p) ==
    /\ pc' = [pc EXCEPT ![w] = p]
    /\ cur' = [cur EXCEPT ![w] = NoRow]
    /\ batch' = [batch EXCEPT ![w] = {}]
    /\ prefix' = [prefix EXCEPT ![w] = NULL]
    /\ result' = [result EXCEPT ![w] = "ok"]
    /\ renewal' = [renewal EXCEPT ![w] = "off"]
    /\ cancelled' = [cancelled EXCEPT ![w] = FALSE]

\* The claim succeeds and the first row is taken up, in whatever order
\* RETURNING gives.  (A claim that finds no row, or whose context was cancelled
\* before it was sent, changes nothing and the worker keeps polling.)
Claim(w) ==
    /\ pc[w] = "poll"
    /\ ~ctxDone[w]
    /\ Tokens \ LivePrefixes # {}
    /\ \E S \in ClaimSets : \E r \in Returned(S) :
        /\ Stamp(S, FreshPrefix)
        /\ Take(w, r, Returned(S) \ {r})
    /\ prefix' = [prefix EXCEPT ![w] = FreshPrefix]
    /\ UNCHANGED <<result, ctxDone, orphans, faults, succeeded>>

\* The claim is executed, but its rows do not reach the worker (the query or
\* the scan fails): the jobs stay leased under a token nobody holds.
ClaimLost(w) ==
    /\ pc[w] = "poll"
    /\ ~ctxDone[w]
    /\ faults > 0
    /\ Tokens \ LivePrefixes # {}
    /\ \E S \in ClaimSets \ {{}} : Stamp(S, FreshPrefix)
    /\ faults' = faults - 1
    /\ UNCHANGED <<workerVars, orphans, succeeded>>

\* The renewal ticker fires.
RenewSend(w) ==
    /\ renewal[w] = "waiting"
    /\ renewal' = [renewal EXCEPT ![w] = "sent"]
    /\ UNCHANGED <<job, pc, prefix, batch, cur, result, cancelled, ctxDone,
                   orphans, faults, succeeded>>

\* Faulty: the goroutine ends and the handler goes on.
OwnershipLostSilently(w) ==
    /\ renewal' = [renewal EXCEPT ![w] = "gone"]
    /\ UNCHANGED cancelled

\* Another worker has the job: cancelHandler, and the goroutine ends.
OwnershipLost(w) ==
    /\ renewal' = [renewal EXCEPT ![w] = "gone"]
    /\ cancelled' = [cancelled EXCEPT ![w] = TRUE]

\* The renewal is executed; if it touched no row, ownership is lost.
RenewReply(w) ==
    /\ renewal[w] = "sent"
    /\ Exec(RenewStmt(w))
    /\ \/ /\ Matches(RenewStmt(w))
          /\ renewal' = [renewal EXCEPT ![w] = "waiting"]
          /\ UNCHANGED cancelled
       \/ /\ ~Matches(RenewStmt(w))
          /\ OwnershipLost(w)
    /\ UNCHANGED <<pc, prefix, batch, cur, result, ctxDone, orphans, faults, succeeded>>

\* The renewal fails; the goroutine waits for its next tick.
RenewError(w) ==
    /\ renewal[w] = "sent"
    /\ faults > 0
    /\ renewal' = [renewal EXCEPT ![w] = "waiting"]
    /\ Abandon(w)
    /\ faults' = faults - 1
    /\ UNCHANGED <<job, pc, prefix, batch, cur, result, cancelled, ctxDone, succeeded>>

\* Faulty: waits for a goroutine that signals `done' only when told to stop.
StopRenewalHangs(w) ==
    /\ renewal[w] # "gone"
    /\ renewal' = [renewal EXCEPT ![w] = "off"]
    /\ UNCHANGED <<orphans, faults>>

\* stop(): cancels the context of a renewal that is under way, and waits for
\* the goroutine to end, but not for the server to finish with the statement.
StopRenewal(w) ==
    /\ renewal' = [renewal EXCEPT ![w] = "off"]
    /\ \/ UNCHANGED <<orphans, faults>>
       \/ /\ renewal[w] = "sent"
          /\ faults > 0
          /\ orphans' = orphans \cup {RenewStmt(w)}
          /\ faults' = faults - 1

\* The handler returns, fails or panics, or there is none.
HandlerReturn(w, res) ==
    /\ pc[w] = "handle"
    /\ cur[w].id \in Unhandled => res = "err"
    /\ pc' = [pc EXCEPT ![w] = "record"]
    /\ result' = [result EXCEPT ![w] = res]
    /\ StopRenewal(w)
    /\ succeeded' = IF res = "ok" THEN succeeded \cup {cur[w].id} ELSE succeeded
    /\ UNCHANGED <<job, prefix, batch, cur, cancelled, ctxDone>>

\* After an outcome: the next row of the batch, or back to polling.
Advance(w) ==
    \/ /\ \E r \in batch[w] : Take(w, r, batch[w] \ {r})
       /\ result' = [result EXCEPT ![w] = "ok"]
       /\ UNCHANGED prefix
    \/ /\ batch[w] = {}
       /\ Idle(w, "poll")

\* The outcome is executed; zero rows means the claim was lost, which is only
\* logged.  Under a cancelled context the statement is not sent at all.
Record(w) ==
    /\ pc[w] = "record"
    /\ IF ctxDone[w] THEN UNCHANGED job
       ELSE \E d \in Backoffs : Exec(OutcomeStmt(w, d))
    /\ Advance(w)
    /\ UNCHANGED <<ctxDone, orphans, faults, succeeded>>

\* The statement that records the outcome fails; the error is only logged.
RecordError(w) ==
    /\ pc[w] = "record"
    /\ ~ctxDone[w]
    /\ faults > 0
    /\ Abandon(w)
    /\ Advance(w)
    /\ faults' = faults - 1
    /\ UNCHANGED <<job, ctxDone, succeeded>>

\* Run returns: polling, with its context cancelled.
Exit(w) ==
    /\ pc[w] = "poll"
    /\ ctxDone[w]
    /\ Idle(w, "exited")
    /\ UNCHANGED <<job, ctxDone, orphans, faults, succeeded>>

-----------------------------------------------------------------------------
(* The environment.                                                        *)

\* The context of Run is cancelled, and with it the handler's, the renewal's
\* and whatever statement is under way.
Cancel(w) ==
    /\ pc[w] # "exited"
    /\ ~ctxDone[w]
    /\ faults > 0
    /\ ctxDone' = [ctxDone EXCEPT ![w] = TRUE]
    /\ cancelled' = [cancelled EXCEPT ![w] = pc[w] \in {"handle", "record"}]
    /\ renewal' = [renewal EXCEPT ![w] = IF pc[w] = "handle" THEN "gone" ELSE "off"]
    /\ Abandon(w)
    /\ faults' = faults - 1
    /\ UNCHANGED <<job, pc, prefix, batch, cur, result, succeeded>>

\* The process dies at any point.
Crash(w) ==
    /\ pc[w] # "exited"
    /\ faults > 0
    /\ Idle(w, "exited")
    /\ Abandon(w)
    /\ faults' = faults - 1
    /\ UNCHANGED <<job, ctxDone, succeeded>>

\* A new process takes the place of one that exited or died.
Restart(w) ==
    /\ pc[w] = "exited"
    /\ Idle(w, "poll")
    /\ ctxDone' = [ctxDone EXCEPT ![w] = FALSE]
    /\ UNCHANGED <<job, orphans, faults, succeeded>>

\* The server executes a statement nobody waits for.
OrphanLands(s) ==
    /\ s \in orphans
    /\ Exec(s)
    /\ orphans' = orphans \ {s}
    /\ UNCHANGED <<workerVars, faults, succeeded>>

Aged(r) ==
    IF r = NoRow THEN r
    ELSE [r EXCEPT !.run_at = IF @ > -MaxAge THEN @ - 1 ELSE @,
                   !.locked_until = IF @ \in {0, Infinity} THEN @ ELSE @ - 1]

Tick ==
    /\ \E j \in Jobs : Aged(job[j]) # job[j]
    /\ job' = [j \in Jobs |-> Aged(job[j])]
    /\ UNCHANGED <<workerVars, orphans, faults, succeeded>>

WorkerStep(w) ==
    \/ Claim(w)
    \/ RenewSend(w)
    \/ RenewReply(w)
    \/ \E res \in {"ok", "err"} : HandlerReturn(w, res)
    \/ Record(w)
    \/ Exit(w)

Disturbance(w) ==
    \/ ClaimLost(w)
    \/ RenewError(w)
    \/ RecordError(w)
    \/ Cancel(w)
    \/ Crash(w)

Admin ==
    \/ \E call \in Calls : Enqueue(call)
    \/ \E j \in Jobs, d \in Delays : RequeueFailed(j, d)
    \/ \E j \in Jobs : DiscardFailed(j)

Next ==
    \/ \E w \in Workers : WorkerStep(w) \/ Disturbance(w) \/ Restart(w)
    \/ \E s \in orphans : OrphanLands(s)
    \/ Admin
    \/ Tick

Spec == Init /\ [][Next]_vars

-----------------------------------------------------------------------------
(* Safety.                                                                 *)

\* The rows worker w has claimed and may still write to.  Once its context is
\* cancelled in "record", the outcome has been abandoned or will not be sent.
Held(w) ==
    batch[w] \cup (IF pc[w] = "handle" \/ (pc[w] = "record" /\ ~ctxDone[w])
                   THEN {cur[w]} ELSE {})

\* Worker w holds row r under the claim token that is in the table.
Current(w, r) == Exists(r.id) /\ job[r.id].claim_token = prefix[w]
Owns(w, j) == \E r \in Held(w) : r.id = j /\ Current(w, r)

\* At most one worker can renew a job's lease or persist an outcome for it
\* (jobs/worker.go: "only the holder of the current claim token can renew or
\* persist an outcome"), however many workers are running its handler.
SingleOwner ==
    \A j \in Jobs, v, w \in Workers : Owns(v, j) /\ Owns(w, j) => v = w

\* The attempt count a worker read when it claimed is still the one in the
\* table when it writes that count plus one, whatever happened in between: no
\* delivery is forgotten, and max_attempts is compared with the right number.
SnapshotFresh ==
    \A w \in Workers : \A r \in Held(w) :
        Current(w, r) => /\ job[r.id].attempt = r.attempt
                         /\ job[r.id].max_attempts = r.max_attempts

\* A job is parked as permanently failed only once its attempts are used up.
FailedExhausted ==
    \A j \in Jobs : Failed(j) => job[j].attempt >= job[j].max_attempts

\* attempt counts recorded failures one by one; only RequeueFailed resets it.
AttemptStep ==
    [][\A j \in Jobs : Exists(j) /\ Exists(j)' =>
            \/ job'[j].attempt \in {job[j].attempt, job[j].attempt + 1}
            \/ Failed(j) /\ job'[j].attempt = 0]_vars

\* A row disappears only after a handler completed the job since it was last
\* enqueued or requeued, or because an operator discarded a failed job: a late
\* DELETE of an earlier delivery never removes work that was not done.
AckedOnlyAfterSuccess ==
    [][\A j \in Jobs : Exists(j) /\ ~Exists(j)' => j \in succeeded \/ Failed(j)]_vars

\* A job under an unexpired lease is not taken from the worker that claimed it,
\* neither by a claim nor by a late statement of another worker, nor by an
\* operator: it stays its own until it moves on or the lease runs out.
LeaseRespected ==
    [][\A w \in Workers : \A r \in Held(w) :
            /\ Current(w, r)
            /\ Unexpired(job[r.id].locked_until)
            => Current(w, r)' \/ r \notin Held(w)']_vars

\* "RequeueFailed makes a permanently failed job eligible for delivery again"
\* (jobs/repository.go): nothing else does.
FailedIsPermanent ==
    [][\A j \in Jobs : Failed(j) /\ ~Failed(j)' =>
            \/ ~Exists(j)'
            \/ \E d \in Delays : RequeueFailed(j, d)]_vars

-----------------------------------------------------------------------------
(* Liveness, for a backlog that is already in the table and nothing added. *)

BacklogInit ==
    /\ job \in [Jobs -> {NewRow(call) : call \in Calls}]
    /\ \A j \in Jobs : \E call \in Calls : call.id = j /\ job[j] = NewRow(call)
    /\ pc = [w \in Workers |-> "poll"]
    /\ prefix = [w \in Workers |-> NULL]
    /\ batch = [w \in Workers |-> {}]
    /\ cur = [w \in Workers |-> NoRow]
    /\ result = [w \in Workers |-> "ok"]
    /\ renewal = [w \in Workers |-> "off"]
    /\ cancelled = [w \in Workers |-> FALSE]
    /\ ctxDone = [w \in Workers |-> FALSE]
    /\ orphans = {}
    /\ faults = MaxFaults
    /\ succeeded = {}

\* leaseRenewalInterval is shorter than the lease: as long as a renewal is
\* answered in the time that is left, the lease of the job being handled does
\* not run out under a live renewal goroutine.  Jobs waiting for their turn in a
\* batch are not renewed, and theirs may.
RenewedInTime(w) ==
    pc[w] \in {"handle", "record"} /\ ~ctxDone[w] /\ renewal[w] # "gone"
        => (Current(w, cur[w]) => job[cur[w].id].locked_until # 1)
PromptTick == (\A w \in Workers : RenewedInTime(w)) /\ Tick

BacklogNext ==
    \/ \E w \in Workers : WorkerStep(w) \/ Disturbance(w) \/ Restart(w)
    \/ \E s \in orphans : OrphanLands(s)
    \/ PromptTick

\* Workers are scheduled, the database answers, time passes and the supervisor
\* restarts a worker that is gone.
WorkersFair ==
    /\ \A w \in Workers :
        /\ WF_vars(Claim(w))
        /\ WF_vars(RenewSend(w))
        /\ WF_vars(RenewReply(w))
        /\ WF_vars(Record(w))
        /\ WF_vars(Exit(w))
        /\ WF_vars(Restart(w))
    /\ WF_vars(PromptTick)

HandlersReturn ==
    \A w \in Workers : WF_vars(\E res \in {"ok", "err"} : HandlerReturn(w, res))

\* Handlers may hang.
BacklogSpec == BacklogInit /\ [][BacklogNext]_vars /\ WorkersFair

Settled(j) == ~Exists(j) \/ Failed(j)

\* Every job of the backlog is eventually completed or parked as failed, even
\* when workers stop or die, statements are lost and leases run out in a batch.
BacklogSettles == HandlersReturn => \A j \in Jobs : ~Settled(j) ~> Settled(j)

\* A worker told to stop gets through its batch and returns from Run.
ShutdownCompletes ==
    HandlersReturn => \A w \in Workers : ctxDone[w] ~> pc[w] = "exited"

\* A handler whose job was taken over by another worker has its context
\* cancelled, even if it never returns by itself.
LostLeaseCancels ==
    \A w \in Workers :
        pc[w] = "handle" /\ ~Current(w, cur[w]) ~> cancelled[w] \/ pc[w] # "handle"
=============================================================================
