----------------------------- MODULE JobsProofs -----------------------------
(***************************************************************************)
(* Proofs about Jobs for any number of jobs, workers, attempts and faults. *)
(***************************************************************************)
EXTENDS Jobs, TLAPS

-----------------------------------------------------------------------------
(* The inductive invariant.                                                *)

Active(w) == pc[w] \in {"handle", "record"}

\* What the program counter says about the rest of a worker's state.
WorkerShape ==
    \A w \in Workers :
        /\ Active(w) => prefix[w] \in Tokens /\ cur[w] \in JobRow
        /\ ~Active(w) => batch[w] = {}
        /\ renewal[w] # "off" => pc[w] = "handle"

\* Two workers never hold the same claim prefix.
PrefixesDistinct ==
    \A v, w \in Workers : prefix[v] = prefix[w] /\ prefix[v] # NULL => v = w

\* A worker holds a job once.
HeldOnce ==
    \A w \in Workers :
        /\ \A r, q \in batch[w] : r.id = q.id => r = q
        /\ Active(w) => \A r \in batch[w] : r.id # cur[w].id

\* A worker that abandoned the outcome of a job is through with that job.
OutcomesReleased ==
    \A s \in orphans : s.kind # "renew" =>
        \A w \in Workers : prefix[w] = s.claim_token =>
            \A r \in Held(w) : r.id # s.id

\* A claim of a job yields one outcome at most.
OutcomesUnique ==
    \A s, t \in orphans :
        /\ s.kind # "renew" /\ t.kind # "renew"
        /\ s.id = t.id /\ s.claim_token = t.claim_token
        => s = t

\* Statement s carries the claim token that is in the table.
Hits(s) == Exists(s.id) /\ job[s.id].claim_token = s.claim_token

\* Worker w is about to send an outcome.
Settling(w) == pc[w] = "record" /\ ~ctxDone[w]

\* An abandoned outcome that can still take effect was computed from the row.
OrphansFresh ==
    \A s \in orphans : s.kind # "renew" /\ Hits(s) =>
        /\ s.attempt = job[s.id].attempt + 1
        /\ s.kind = "fail" => s.attempt >= job[s.id].max_attempts

\* A DELETE that can still take effect acknowledges a completed job.
DeletesEarned ==
    /\ \A s \in orphans : s.kind = "delete" /\ Hits(s) => s.id \in succeeded
    /\ \A w \in Workers :
        Settling(w) /\ result[w] = "ok" /\ Current(w, cur[w])
            => cur[w].id \in succeeded

\* The job of a claim that is still good is not parked as failed.
HeldNotFailed ==
    \A w \in Workers : \A r \in Held(w) : Current(w, r) => ~Failed(r.id)

Typed == TypeOK /\ WorkerShape

Links ==
    /\ PrefixesDistinct
    /\ OutcomesReleased
    /\ OutcomesUnique
    /\ OrphansFresh
    /\ SnapshotFresh
    /\ HeldNotFailed
    /\ DeletesEarned

JobsInv == Typed /\ HeldOnce /\ FailedExhausted /\ Links

-----------------------------------------------------------------------------
(* Types.                                                                  *)

LEMMA ReleasedRow ==
    ASSUME NEW r \in Row, NEW a \in Nat, NEW d \in Int
    PROVE  /\ Released(r, a, d) \in Row
           /\ Released(r, a, d).attempt = a
           /\ Released(r, a, d).max_attempts = r.max_attempts
           /\ Released(r, a, d).locked_until = 0
           /\ Released(r, a, d).claim_token = NULL
<1>. DEFINE q == [r EXCEPT !.attempt = a, !.run_at = d]
<1>1. q \in Row
    BY DEF Row
<1>2. [q EXCEPT !.locked_until = 0, !.claim_token = NULL] \in Row
    BY <1>1 DEF Row
<1>3. Released(r, a, d) = [q EXCEPT !.locked_until = 0, !.claim_token = NULL]
    BY DEF Released
<1>4. /\ Released(r, a, d).attempt = a
      /\ Released(r, a, d).max_attempts = r.max_attempts
      /\ Released(r, a, d).locked_until = 0
      /\ Released(r, a, d).claim_token = NULL
    BY DEF Released, Row
<1>. QED BY <1>2, <1>3, <1>4

\* A matched row stays well typed, or goes.
LEMMA EffectType ==
    ASSUME NEW s \in Statement, NEW r \in Row
    PROVE  Effect(s, r) \in Row \cup {NoRow}
<1>1. CASE s.kind = "renew"
    <2>1. Effect(s, r) = [r EXCEPT !.locked_until = LeaseDuration]
        BY <1>1 DEF Effect
    <2>. QED BY <2>1, ConstantsAssumption DEF Row
<1>2. CASE s.kind = "delete"
    BY <1>2 DEF Effect
<1>3. CASE s.kind = "fail"
    <2>1. Effect(s, r) = [r EXCEPT !.attempt = s.attempt, !.locked_until = Infinity]
        BY <1>3 DEF Effect
    <2>. QED BY <2>1 DEF Row, Statement
<1>4. CASE s.kind = "retry"
    <2>1. Effect(s, r) = Released(r, s.attempt, s.delay)
        BY <1>4 DEF Effect
    <2>2. s.attempt \in Nat /\ s.delay \in Int
        BY DEF Statement
    <2>. QED BY <2>1, <2>2, ReleasedRow
<1>. QED BY <1>1, <1>2, <1>3, <1>4 DEF Statement

\* What a statement does to the table is well typed.
LEMMA ExecType ==
    ASSUME TypeOK, NEW s \in Statement, Exec(s)
    PROVE  job' \in [Jobs -> Row \cup {NoRow}]
<1>1. CASE ~Matches(s)
    BY <1>1 DEF Exec, TypeOK
<1>2. CASE Matches(s)
    <2>1. job[s.id] \in Row /\ s.id \in Jobs
        BY <1>2 DEF Matches, Exists, TypeOK, Statement
    <2>2. Effect(s, job[s.id]) \in Row \cup {NoRow}
        BY <2>1, EffectType
    <2>. QED BY <1>2, <2>1, <2>2 DEF Exec, TypeOK
<1>. QED BY <1>1, <1>2

\* The statements a worker waits for are well typed.
LEMMA RenewType ==
    ASSUME Typed, NEW w \in Workers, renewal[w] = "sent"
    PROVE  RenewStmt(w) \in Statement
BY DEF Typed, TypeOK, WorkerShape, Active, RenewStmt, Statement, JobRow

LEMMA OutcomeType ==
    ASSUME Typed, NEW w \in Workers, pc[w] = "record", NEW d \in Backoffs
    PROVE  OutcomeStmt(w, d) \in Statement
BY ConstantsAssumption
DEF Typed, TypeOK, WorkerShape, Active, OutcomeStmt, OutcomeOf, Statement, JobRow

LEMMA InFlightType ==
    ASSUME Typed, NEW w \in Workers
    PROVE  InFlight(w) \subseteq Statement
BY RenewType, OutcomeType DEF InFlight

LEMMA AbandonType ==
    ASSUME Typed, NEW w \in Workers, Abandon(w)
    PROVE  orphans' \in SUBSET Statement
BY InFlightType DEF Abandon, Typed, TypeOK

\* A claim leaves well-typed rows and returns well-typed snapshots.
LEMMA ClaimType ==
    ASSUME TypeOK, NEW S \in ClaimSets, NEW p \in Tokens, Stamp(S, p)
    PROVE  /\ job' \in [Jobs -> Row \cup {NoRow}]
           /\ Returned(S) \subseteq JobRow
<1>1. S \subseteq Jobs /\ \A j \in S : job[j] \in Row
    BY DEF ClaimSets, Claimable, Exists, TypeOK
<1>2. \A j \in S : [job[j] EXCEPT !.locked_until = LeaseDuration, !.claim_token = p] \in Row
    BY <1>1, ConstantsAssumption DEF Row
<1>3. job' \in [Jobs -> Row \cup {NoRow}]
    BY <1>2 DEF Stamp, TypeOK
<1>4. Returned(S) \subseteq JobRow
    BY <1>1 DEF Returned, JobRow, Row
<1>. QED BY <1>3, <1>4

\* Time passing leaves a row well typed and touches nothing but its times.
LEMMA AgedRow ==
    ASSUME NEW r \in Row
    PROVE  /\ Aged(r) \in Row
           /\ Aged(r).attempt = r.attempt /\ Aged(r).max_attempts = r.max_attempts
           /\ Aged(r).claim_token = r.claim_token
           /\ Aged(r).locked_until = Infinity <=> r.locked_until = Infinity
<1>. DEFINE run == IF r.run_at > -MaxAge THEN r.run_at - 1 ELSE r.run_at
            until == IF r.locked_until \in {0, Infinity} THEN r.locked_until
                     ELSE r.locked_until - 1
<1>1. run \in Int
    BY ConstantsAssumption DEF Row
<1>2. until \in Nat \cup {Infinity} /\ (until = Infinity <=> r.locked_until = Infinity)
    BY NullsAssumption DEF Row
<1>3. Aged(r) = [r EXCEPT !.run_at = run, !.locked_until = until]
    BY NullsAssumption DEF Aged, Row
<1>. HIDE DEF run, until
<1>. QED BY <1>1, <1>2, <1>3 DEF Row

LEMMA FreshToken ==
    ASSUME Tokens \ LivePrefixes # {}
    PROVE  FreshPrefix \in Tokens /\ FreshPrefix \notin LivePrefixes
BY DEF FreshPrefix

\* Type correctness, together with the shape it needs, is inductive.
LEMMA TypedInit == Init => Typed
BY ConstantsAssumption, NullsAssumption
DEF Init, Typed, TypeOK, WorkerShape, Active

\* The part of Typed that is about the workers' own state.
WorkersTyped ==
    /\ pc \in [Workers -> {"poll", "handle", "record", "exited"}]
    /\ prefix \in [Workers -> Tokens \cup {NULL}]
    /\ batch \in [Workers -> SUBSET JobRow]
    /\ cur \in [Workers -> JobRow \cup {NoRow}]
    /\ result \in [Workers -> {"ok", "err"}]
    /\ renewal \in [Workers -> {"off", "waiting", "sent", "gone"}]
    /\ cancelled \in [Workers -> BOOLEAN]
    /\ WorkerShape

LEMMA IdleTyped ==
    ASSUME Typed, NEW w \in Workers, NEW p \in {"poll", "exited"}, Idle(w, p)
    PROVE  WorkersTyped'
BY DEF Typed, TypeOK, WorkersTyped, WorkerShape, Active, Idle

LEMMA AdvanceTyped ==
    ASSUME Typed, NEW w \in Workers, pc[w] = "record", Advance(w)
    PROVE  WorkersTyped'
<1>1. CASE batch[w] = {} /\ Idle(w, "poll")
    BY <1>1, IdleTyped
<1>2. ASSUME NEW r \in batch[w], Take(w, r, batch[w] \ {r}),
             result' = [result EXCEPT ![w] = "ok"], prefix' = prefix
      PROVE  WorkersTyped'
    BY <1>2 DEF Typed, TypeOK, WorkersTyped, WorkerShape, Active, Take
<1>. QED BY <1>1, <1>2 DEF Advance

LEMMA TypedNext ==
    ASSUME Typed, [Next]_vars
    PROVE  Typed'
<1>a. /\ WorkersTyped
      /\ job \in [Jobs -> Row \cup {NoRow}]
      /\ ctxDone \in [Workers -> BOOLEAN]
      /\ orphans \in SUBSET Statement
      /\ faults \in Nat
      /\ succeeded \in SUBSET Jobs
    BY DEF Typed, TypeOK, WorkersTyped
<1>b. ASSUME WorkersTyped',
             job' \in [Jobs -> Row \cup {NoRow}],
             ctxDone' \in [Workers -> BOOLEAN],
             orphans' \in SUBSET Statement,
             faults' \in Nat,
             succeeded' \in SUBSET Jobs
      PROVE  Typed'
    BY <1>b DEF Typed, TypeOK, WorkersTyped
<1>. USE <1>a, <1>b
<1>1. ASSUME NEW w \in Workers, Claim(w)
      PROVE  Typed'
    <2>1. PICK S \in ClaimSets : \E r \in Returned(S) :
                /\ Stamp(S, FreshPrefix)
                /\ Take(w, r, Returned(S) \ {r})
        BY <1>1 DEF Claim
    <2>2. PICK r \in Returned(S) : Take(w, r, Returned(S) \ {r})
        BY <2>1
    <2>3. FreshPrefix \in Tokens
        BY <1>1, FreshToken DEF Claim
    <2>4. job' \in [Jobs -> Row \cup {NoRow}] /\ Returned(S) \subseteq JobRow
        BY <2>1, <2>3, ClaimType DEF Typed
    <2>5. WorkersTyped'
        BY <1>1, <2>2, <2>3, <2>4
        DEF Claim, Take, WorkersTyped, WorkerShape, Active
    <2>. QED BY <1>1, <2>4, <2>5 DEF Claim
<1>2. ASSUME NEW w \in Workers, ClaimLost(w)
      PROVE  Typed'
    <2>1. PICK S \in ClaimSets : Stamp(S, FreshPrefix)
        BY <1>2 DEF ClaimLost
    <2>2. FreshPrefix \in Tokens
        BY <1>2, FreshToken DEF ClaimLost
    <2>3. job' \in [Jobs -> Row \cup {NoRow}]
        BY <2>1, <2>2, ClaimType DEF Typed
    <2>. QED BY <1>2, <2>3 DEF ClaimLost, workerVars, WorkersTyped, WorkerShape, Active
<1>3. ASSUME NEW w \in Workers, RenewSend(w)
      PROVE  Typed'
    BY <1>3 DEF RenewSend, WorkersTyped, WorkerShape, Active
<1>4. ASSUME NEW w \in Workers, RenewReply(w)
      PROVE  Typed'
    <2>1. RenewStmt(w) \in Statement
        BY <1>4, RenewType DEF RenewReply
    <2>2. job' \in [Jobs -> Row \cup {NoRow}]
        BY <1>4, <2>1, ExecType DEF RenewReply, Typed
    <2>. QED BY <1>4, <2>2 DEF RenewReply, OwnershipLost, WorkersTyped, WorkerShape, Active
<1>5. ASSUME NEW w \in Workers, RenewError(w)
      PROVE  Typed'
    BY <1>5, AbandonType DEF RenewError, WorkersTyped, WorkerShape, Active
<1>6. ASSUME NEW w \in Workers, NEW res \in {"ok", "err"}, HandlerReturn(w, res)
      PROVE  Typed'
    <2>1. renewal[w] = "sent" => RenewStmt(w) \in Statement
        BY RenewType
    <2>2. cur[w].id \in Jobs
        BY <1>6 DEF HandlerReturn, Typed, WorkerShape, Active, JobRow
    <2>3. WorkersTyped'
        BY <1>6 DEF HandlerReturn, StopRenewal, WorkersTyped, WorkerShape, Active
    <2>. QED BY <1>6, <2>1, <2>2, <2>3 DEF HandlerReturn, StopRenewal
<1>7. ASSUME NEW w \in Workers, Record(w)
      PROVE  Typed'
    <2>1. WorkersTyped'
        BY <1>7, AdvanceTyped DEF Record
    <2>2. CASE ctxDone[w]
        BY <1>7, <2>1, <2>2 DEF Record
    <2>3. CASE ~ctxDone[w]
        <3>1. PICK d \in Backoffs : Exec(OutcomeStmt(w, d))
            BY <1>7, <2>3 DEF Record
        <3>2. OutcomeStmt(w, d) \in Statement
            BY <1>7, OutcomeType DEF Record
        <3>3. job' \in [Jobs -> Row \cup {NoRow}]
            BY <3>1, <3>2, ExecType DEF Typed
        <3>. QED BY <1>7, <2>1, <3>3 DEF Record
    <2>. QED BY <2>2, <2>3
<1>8. ASSUME NEW w \in Workers, RecordError(w)
      PROVE  Typed'
    BY <1>8, AdvanceTyped, AbandonType DEF RecordError
<1>9. ASSUME NEW w \in Workers, Exit(w)
      PROVE  Typed'
    BY <1>9, IdleTyped DEF Exit
<1>10. ASSUME NEW w \in Workers, Cancel(w)
       PROVE  Typed'
    <2>1. WorkersTyped'
        BY <1>10 DEF Cancel, WorkersTyped, WorkerShape, Active
    <2>. QED BY <1>10, <2>1, AbandonType DEF Cancel
<1>11. ASSUME NEW w \in Workers, Crash(w)
       PROVE  Typed'
    BY <1>11, IdleTyped, AbandonType DEF Crash
<1>12. ASSUME NEW w \in Workers, Restart(w)
       PROVE  Typed'
    BY <1>12, IdleTyped DEF Restart
<1>13. ASSUME NEW s \in orphans, OrphanLands(s)
       PROVE  Typed'
    <2>1. job' \in [Jobs -> Row \cup {NoRow}]
        BY <1>13, ExecType DEF OrphanLands, Typed
    <2>. QED BY <1>13, <2>1 DEF OrphanLands, workerVars, WorkersTyped, WorkerShape, Active
<1>14. ASSUME NEW call \in Calls, Enqueue(call)
       PROVE  Typed'
    <2>1. NewRow(call) \in Row /\ call.id \in Jobs
        BY ConstantsAssumption DEF NewRow, Row
    <2>. QED BY <1>14, <2>1 DEF Enqueue, workerVars, WorkersTyped, WorkerShape, Active
<1>15. ASSUME NEW j \in Jobs, NEW d \in Delays, RequeueFailed(j, d)
       PROVE  Typed'
    <2>1. job[j] \in Row /\ d \in Int
        BY <1>15, ConstantsAssumption DEF RequeueFailed, Failed, Exists
    <2>2. Released(job[j], 0, d) \in Row
        BY <2>1, ReleasedRow
    <2>3. job' \in [Jobs -> Row \cup {NoRow}]
        BY <1>15, <2>2 DEF RequeueFailed
    <2>. QED BY <1>15, <2>3 DEF RequeueFailed, workerVars, WorkersTyped, WorkerShape, Active
<1>16. ASSUME NEW j \in Jobs, DiscardFailed(j)
       PROVE  Typed'
    BY <1>16 DEF DiscardFailed, workerVars, WorkersTyped, WorkerShape, Active
<1>17. CASE Tick
    <2>1. \A r \in Row : Aged(r) \in Row
        BY AgedRow
    <2>2. Aged(NoRow) = NoRow
        BY DEF Aged
    <2>3. job' \in [Jobs -> Row \cup {NoRow}]
        BY <1>17, <2>1, <2>2 DEF Tick
    <2>. QED BY <1>17, <2>3 DEF Tick, workerVars, WorkersTyped, WorkerShape, Active
<1>18. CASE UNCHANGED vars
    BY <1>18 DEF vars, workerVars, WorkersTyped, WorkerShape, Active
<1>. QED
    BY <1>1, <1>2, <1>3, <1>4, <1>5, <1>6, <1>7, <1>8, <1>9, <1>10, <1>11, <1>12,
       <1>13, <1>14, <1>15, <1>16, <1>17, <1>18
    DEF Next, WorkerStep, Disturbance, Admin

\* Type correctness: every reachable state of the queue and its workers is
\* well typed, whatever is lost, late or repeated.
THEOREM TypeCorrect == Spec => []TypeOK
<1>1. Typed => TypeOK
    BY DEF Typed
<1>. QED BY TypedInit, TypedNext, <1>1, PTL DEF Spec

-----------------------------------------------------------------------------
(* How a step may change who holds what, and the table.                    *)

\* No worker holds more than before, and none turns to recording.
Shrinks ==
    \A v \in Workers :
        /\ Held(v)' \subseteq Held(v)
        /\ prefix'[v] \in {prefix[v], NULL}
        /\ Held(v)' # {} => prefix'[v] = prefix[v]
        /\ Settling(v)' => /\ Settling(v)
                           /\ result'[v] = result[v]
                           /\ cur'[v] = cur[v]

\* The row keeps what claims refer to.
Kept(j) ==
    /\ Exists(j) /\ Exists(j)'
    /\ job'[j].attempt = job[j].attempt
    /\ job'[j].max_attempts = job[j].max_attempts
    /\ job'[j].claim_token = job[j].claim_token
    /\ Failed(j)' => Failed(j)

\* After the step, nobody can write to the row under the token it then has.
Loose(j) ==
    Exists(j)' =>
        /\ \A w \in Workers : \A r \in Held(w)' :
            r.id = j => prefix'[w] # job'[j].claim_token
        /\ \A s \in orphans' :
            s.kind # "renew" /\ s.id = j => s.claim_token # job'[j].claim_token

\* Outcome s may be abandoned: it is its claim's only one, and was rightly
\* computed from the row.
Justified(s) ==
    /\ \A w \in Workers : prefix'[w] = s.claim_token =>
            \A r \in Held(w)' : r.id # s.id
    /\ \A t \in orphans' : t.kind # "renew" /\ t.id = s.id
                            /\ t.claim_token = s.claim_token => s = t
    /\ Hits(s)' => /\ s.attempt = job'[s.id].attempt + 1
                   /\ s.kind = "fail" => s.attempt >= job'[s.id].max_attempts
                   /\ s.kind = "delete" => s.id \in succeeded'

LEMMA HeldTyped ==
    ASSUME Typed, NEW w \in Workers, NEW r \in Held(w)
    PROVE  r \in JobRow /\ prefix[w] \in Tokens /\ prefix[w] # NULL
BY NullsAssumption DEF Typed, TypeOK, WorkerShape, Active, Held

LEMMA SettlingHolds ==
    ASSUME NEW w \in Workers, Settling(w)
    PROVE  cur[w] \in Held(w)
BY DEF Settling, Held

\* A row nobody has a token for is loose.
LEMMA FreedLoose ==
    ASSUME Typed', NEW j \in Jobs, Exists(j)' => job'[j].claim_token = NULL
    PROVE  Loose(j)
<1>1. ASSUME NEW w \in Workers, NEW r \in Held(w)'
      PROVE  prefix'[w] # NULL
    BY NullsAssumption DEF Typed, TypeOK, WorkerShape, Active, Held
<1>2. \A s \in orphans' : s.claim_token # NULL
    BY NullsAssumption DEF Typed, TypeOK, Statement
<1>. QED BY <1>1, <1>2 DEF Loose

\* The links between the table, the workers and the abandoned statements
\* survive a step in which no worker gains a row, every row is kept or loose,
\* and what is abandoned is justified.
LEMMA LinkStep ==
    ASSUME Typed, Typed', Links, Shrinks,
           \A s \in orphans' : s \in orphans \/ s.kind = "renew" \/ Justified(s),
           \A j \in Jobs : Kept(j) \/ Loose(j),
           \A j \in Jobs : j \in succeeded /\ ~Loose(j) => j \in succeeded'
    PROVE  Links'
<1>1. PrefixesDistinct'
    BY DEF Links, PrefixesDistinct, Shrinks
<1>2. OutcomesReleased'
    <2>1. SUFFICES ASSUME NEW s \in orphans', s.kind # "renew", NEW w \in Workers,
                          prefix'[w] = s.claim_token, NEW r \in Held(w)'
                   PROVE  r.id # s.id
        BY DEF OutcomesReleased
    <2>2. prefix'[w] = prefix[w] /\ r \in Held(w)
        BY DEF Shrinks
    <2>3. CASE s \in orphans
        BY <2>1, <2>2, <2>3 DEF Links, OutcomesReleased
    <2>4. CASE Justified(s)
        BY <2>1, <2>4 DEF Justified
    <2>. QED BY <2>1, <2>3, <2>4
<1>3. OutcomesUnique'
    BY DEF Links, OutcomesUnique, Justified
<1>4. ASSUME NEW s \in orphans', s \in orphans, s.kind # "renew", Hits(s)'
      PROVE  Kept(s.id) /\ Hits(s) /\ s.id \in Jobs /\ ~Loose(s.id)
    <2>1. s.id \in Jobs
        BY DEF Typed, TypeOK, Statement
    <2>2. ~Loose(s.id)
        BY <1>4, <2>1 DEF Hits, Loose
    <2>. QED BY <1>4, <2>1, <2>2 DEF Hits, Kept
<1>5. OrphansFresh'
    BY <1>4 DEF Links, OrphansFresh, Kept, Justified
<1>6. ASSUME NEW w \in Workers, NEW r \in Held(w)', Current(w, r)'
      PROVE  /\ Kept(r.id) /\ Current(w, r) /\ r.id \in Jobs /\ r \in Held(w)
             /\ ~Loose(r.id)
    <2>1. r \in Held(w) /\ prefix'[w] = prefix[w]
        BY DEF Shrinks
    <2>2. r.id \in Jobs
        BY <2>1, HeldTyped DEF JobRow
    <2>3. ~Loose(r.id)
        BY <1>6 DEF Current, Loose
    <2>. QED BY <1>6, <2>1, <2>2, <2>3 DEF Current, Kept
<1>7. SnapshotFresh' /\ HeldNotFailed'
    BY <1>6 DEF Links, SnapshotFresh, HeldNotFailed, Kept
<1>8. DeletesEarned'
    <2>1. ASSUME NEW s \in orphans', s.kind = "delete", Hits(s)'
          PROVE  s.id \in succeeded'
        BY <1>4, <2>1 DEF Links, DeletesEarned, Justified
    <2>2. ASSUME NEW w \in Workers, Settling(w)', result'[w] = "ok", Current(w, cur[w])'
          PROVE  cur'[w].id \in succeeded'
        <3>1. Settling(w) /\ result[w] = "ok" /\ cur'[w] = cur[w]
            BY <2>2 DEF Shrinks
        <3>2. cur'[w] \in Held(w)'
            BY <2>2 DEF Settling, Held
        <3>3. Current(w, cur[w]) /\ ~Loose(cur[w].id) /\ cur[w].id \in Jobs
            BY <1>6, <2>2, <3>1, <3>2
        <3>. QED BY <3>1, <3>3 DEF Links, DeletesEarned
    <2>. QED BY <2>1, <2>2 DEF DeletesEarned
<1>. QED BY <1>1, <1>2, <1>3, <1>5, <1>7, <1>8 DEF Links

\* The same for a step that is a statement reaching the server.
LEMMA ExecStep ==
    ASSUME Typed, Typed', Links, Shrinks, orphans' \subseteq orphans,
           succeeded' = succeeded, NEW s \in Statement, Exec(s),
           s.kind # "renew" =>
                /\ \A w \in Workers : prefix'[w] = s.claim_token =>
                        \A r \in Held(w)' : r.id # s.id
                /\ \A t \in orphans' : t.kind # "renew" /\ t.id = s.id
                                        => t.claim_token # s.claim_token
    PROVE  Links'
<1>1. s.id \in Jobs
    BY DEF Statement
<1>2. ASSUME NEW j \in Jobs, ~Matches(s) \/ j # s.id
      PROVE  job'[j] = job[j]
    BY <1>2 DEF Exec, Typed, TypeOK
<1>3. ASSUME NEW j \in Jobs, job'[j] = job[j]
      PROVE  Kept(j) \/ Loose(j)
    BY <1>3 DEF Kept, Loose, Exists, Failed
<1>4. ASSUME Matches(s)
      PROVE  Kept(s.id) \/ Loose(s.id)
    <2>1. job'[s.id] = Effect(s, job[s.id]) /\ job[s.id] \in Row /\ Exists(s.id)
        BY <1>1, <1>4 DEF Exec, Typed, TypeOK, Matches, Exists
    <2>2. CASE s.kind = "renew"
        <3>1. job'[s.id] = [job[s.id] EXCEPT !.locked_until = LeaseDuration]
            BY <2>1, <2>2 DEF Effect
        <3>2. job'[s.id] \in Row
            BY <2>1, <3>1, ConstantsAssumption DEF Row
        <3>3. job'[s.id].locked_until # Infinity
            BY <2>1, <3>1, ConstantsAssumption, NullsAssumption DEF Row
        <3>. QED BY <2>1, <3>1, <3>2, <3>3, NullsAssumption DEF Kept, Exists, Failed, Row
    <2>3. CASE s.kind = "delete"
        BY <2>1, <2>3 DEF Effect, Loose, Exists
    <2>4. CASE s.kind = "fail"
        <3>1. job'[s.id].claim_token = s.claim_token
            BY <1>4, <2>1, <2>4 DEF Effect, Row, Matches
        <3>. QED BY <2>4, <3>1 DEF Loose
    <2>5. CASE s.kind = "retry"
        <3>1. job'[s.id] = Released(job[s.id], s.attempt, s.delay)
            BY <2>1, <2>5 DEF Effect
        <3>2. \A r \in Row : Released(r, s.attempt, s.delay).claim_token = NULL
            BY DEF Released, Row
        <3>3. job'[s.id].claim_token = NULL
            BY <2>1, <3>1, <3>2
        <3>. QED BY <1>1, <3>3, FreedLoose
    <2>. QED BY <2>2, <2>3, <2>4, <2>5 DEF Statement
<1>5. \A j \in Jobs : Kept(j) \/ Loose(j)
    BY <1>1, <1>2, <1>3, <1>4
<1>. QED BY <1>5, LinkStep

-----------------------------------------------------------------------------
(* What the workers' moves do to what they hold.                           *)

\* Nothing the holdings depend on changes.
LEMMA SameHoldings ==
    ASSUME UNCHANGED <<pc, prefix, batch, cur, result, ctxDone>>
    PROVE  Shrinks /\ (HeldOnce => HeldOnce')
BY DEF Shrinks, Held, Settling, HeldOnce, Active

LEMMA IdleShrinks ==
    ASSUME Typed, NEW w \in Workers, NEW p \in {"poll", "exited"}, Idle(w, p),
           \A v \in Workers : v # w => ctxDone'[v] = ctxDone[v]
    PROVE  Shrinks /\ (HeldOnce => HeldOnce') /\ Held(w)' = {}
<1>1. Held(w)' = {} /\ ~Settling(w)' /\ prefix'[w] = NULL
    BY DEF Typed, TypeOK, Idle, Held, Settling
<1>2. ASSUME NEW v \in Workers, v # w
      PROVE  /\ Held(v)' = Held(v) /\ prefix'[v] = prefix[v]
             /\ Settling(v)' = Settling(v)
             /\ result'[v] = result[v] /\ cur'[v] = cur[v]
    BY <1>2 DEF Typed, TypeOK, Idle, Held, Settling
<1>3. Shrinks
    BY <1>1, <1>2 DEF Shrinks
<1>4. HeldOnce => HeldOnce'
    BY DEF Typed, TypeOK, Idle, HeldOnce, Active
<1>. QED BY <1>1, <1>3, <1>4

LEMMA AdvanceShrinks ==
    ASSUME Typed, NEW w \in Workers, pc[w] = "record", Advance(w), ctxDone' = ctxDone
    PROVE  Shrinks /\ (HeldOnce => HeldOnce') /\ Held(w)' = batch[w]
<1>1. CASE batch[w] = {} /\ Idle(w, "poll")
    BY <1>1, IdleShrinks
<1>2. ASSUME NEW r \in batch[w], Take(w, r, batch[w] \ {r}),
             result' = [result EXCEPT ![w] = "ok"], prefix' = prefix
      PROVE  Shrinks /\ (HeldOnce => HeldOnce') /\ Held(w)' = batch[w]
    <2>1. Held(w)' = batch[w] /\ ~Settling(w)' /\ batch[w] \subseteq Held(w)
        BY <1>2 DEF Typed, TypeOK, Take, Held, Settling
    <2>2. ASSUME NEW v \in Workers, v # w
          PROVE  /\ Held(v)' = Held(v)
                 /\ Settling(v)' = Settling(v)
                 /\ result'[v] = result[v] /\ cur'[v] = cur[v]
        BY <1>2, <2>2 DEF Typed, TypeOK, Take, Held, Settling
    <2>3. Shrinks
        BY <1>2, <2>1, <2>2 DEF Shrinks
    <2>4. HeldOnce => HeldOnce'
        BY <1>2 DEF Typed, TypeOK, Take, HeldOnce, Active
    <2>. QED BY <2>1, <2>3, <2>4
<1>. QED BY <1>1, <1>2 DEF Advance

-----------------------------------------------------------------------------
(* The outcome a worker is about to send.                                  *)

LEMMA OutcomeFacts ==
    ASSUME JobsInv, NEW w \in Workers, Settling(w), NEW d \in Backoffs,
           NEW s, s = OutcomeStmt(w, d)
    PROVE  /\ s \in Statement
           /\ s.kind # "renew" /\ s.id = cur[w].id /\ s.claim_token = prefix[w]
           /\ Hits(s) => /\ s.attempt = job[s.id].attempt + 1
                         /\ s.kind = "fail" => s.attempt >= job[s.id].max_attempts
                         /\ s.kind = "delete" => s.id \in succeeded
           /\ \A t \in orphans : t.kind # "renew" /\ t.id = s.id
                                    => t.claim_token # s.claim_token
           /\ \A v \in Workers : prefix[v] = s.claim_token => v = w
           /\ \A r \in batch[w] : r.id # s.id
<1>1. pc[w] = "record" /\ cur[w] \in JobRow /\ prefix[w] \in Tokens /\ prefix[w] # NULL
    BY NullsAssumption DEF JobsInv, Typed, WorkerShape, Active, Settling
<1>2. s \in Statement
    BY <1>1, OutcomeType DEF JobsInv
<1>3. s.kind # "renew" /\ s.id = cur[w].id /\ s.claim_token = prefix[w]
    BY DEF OutcomeStmt, OutcomeOf
<1>4. s.attempt = cur[w].attempt + 1 /\ (s.kind = "delete" <=> result[w] = "ok")
    BY DEF OutcomeStmt, OutcomeOf
<1>5. s.kind = "fail" => s.attempt >= cur[w].max_attempts
    BY DEF OutcomeStmt, OutcomeOf
<1>6. cur[w] \in Held(w)
    BY SettlingHolds
<1>7. Hits(s) => Current(w, cur[w])
    BY <1>3 DEF Hits, Current
<1>8. Hits(s) => /\ s.attempt = job[s.id].attempt + 1
                 /\ s.kind = "fail" => s.attempt >= job[s.id].max_attempts
                 /\ s.kind = "delete" => s.id \in succeeded
    BY <1>3, <1>4, <1>5, <1>6, <1>7 DEF JobsInv, Links, SnapshotFresh, DeletesEarned
<1>9. \A t \in orphans : t.kind # "renew" /\ t.id = s.id => t.claim_token # s.claim_token
    BY <1>3, <1>6 DEF JobsInv, Links, OutcomesReleased
<1>10. \A v \in Workers : prefix[v] = s.claim_token => v = w
    BY <1>1, <1>3 DEF JobsInv, Links, PrefixesDistinct
<1>11. \A r \in batch[w] : r.id # s.id
    BY <1>1, <1>3 DEF JobsInv, HeldOnce, Active
<1>. QED BY <1>2, <1>3, <1>8, <1>9, <1>10, <1>11

\* Abandoning what is in flight, in a step after which w no longer holds cur.
LEMMA AbandonJustified ==
    ASSUME JobsInv, NEW w \in Workers, Abandon(w), Shrinks, job' = job,
           succeeded' = succeeded,
           Settling(w) => Held(w)' \subseteq batch[w]
    PROVE  \A s \in orphans' : s \in orphans \/ s.kind = "renew" \/ Justified(s)
<1>1. SUFFICES ASSUME NEW s \in orphans', s \notin orphans, s.kind # "renew"
               PROVE  Justified(s)
    OBVIOUS
<1>2. s \in InFlight(w) /\ orphans' = orphans \cup {s}
    BY <1>1 DEF Abandon
<1>3. PICK d \in Backoffs : Settling(w) /\ s = OutcomeStmt(w, d)
    BY <1>1, <1>2 DEF InFlight, Settling, RenewStmt
<1>4. \A v \in Workers : prefix'[v] = s.claim_token => \A r \in Held(v)' : r.id # s.id
    <2>1. SUFFICES ASSUME NEW v \in Workers, prefix'[v] = s.claim_token,
                          NEW r \in Held(v)'
                   PROVE  r.id # s.id
        OBVIOUS
    <2>2. prefix[v] = s.claim_token
        BY <2>1 DEF Shrinks
    <2>3. v = w
        BY <1>3, <2>2, OutcomeFacts
    <2>. QED BY <1>3, <2>1, <2>3, OutcomeFacts
<1>5. \A t \in orphans' : t.kind # "renew" /\ t.id = s.id
                            /\ t.claim_token = s.claim_token => s = t
    BY <1>2, <1>3, OutcomeFacts
<1>6. Hits(s)' = Hits(s)
    BY DEF Hits, Exists
<1>. QED BY <1>3, <1>4, <1>5, <1>6, OutcomeFacts DEF Justified

\* A statement parks a job as failed only with its attempts used up.
LEMMA ExecExhausted ==
    ASSUME Typed, FailedExhausted, NEW s \in Statement, Exec(s),
           s.kind = "fail" /\ Hits(s) => s.attempt >= job[s.id].max_attempts
    PROVE  FailedExhausted'
<1>1. s.id \in Jobs
    BY DEF Statement
<1>2. ASSUME NEW j \in Jobs, ~Matches(s) \/ j # s.id
      PROVE  job'[j] = job[j]
    BY <1>2 DEF Exec, Typed, TypeOK
<1>3. ASSUME Matches(s), Failed(s.id)'
      PROVE  job'[s.id].attempt >= job'[s.id].max_attempts
    <2>1. job'[s.id] = Effect(s, job[s.id]) /\ job[s.id] \in Row
        BY <1>1, <1>3 DEF Exec, Typed, TypeOK, Matches, Exists
    <2>2. CASE s.kind = "renew"
        <3>1. job'[s.id].locked_until = LeaseDuration
            BY <2>1, <2>2 DEF Effect, Row
        <3>. QED BY <1>3, <3>1, ConstantsAssumption, NullsAssumption DEF Failed
    <2>3. CASE s.kind = "delete"
        BY <1>3, <2>1, <2>3 DEF Effect, Failed, Exists
    <2>4. CASE s.kind = "fail"
        <3>1. /\ job'[s.id].attempt = s.attempt
              /\ job'[s.id].max_attempts = job[s.id].max_attempts
            BY <2>1, <2>4 DEF Effect, Row
        <3>. QED BY <1>3, <2>4, <3>1 DEF Matches, Hits
    <2>5. CASE s.kind = "retry"
        <3>1. \A r \in Row : Released(r, s.attempt, s.delay).locked_until = 0
            BY DEF Released, Row
        <3>2. job'[s.id].locked_until = 0
            BY <2>1, <2>5, <3>1 DEF Effect
        <3>. QED BY <1>3, <3>2, NullsAssumption DEF Failed
    <2>. QED BY <2>2, <2>3, <2>4, <2>5 DEF Statement
<1>. QED BY <1>1, <1>2, <1>3 DEF FailedExhausted, Failed, Exists

\* A step that leaves the table alone.
LEMMA SameTable ==
    ASSUME job' = job
    PROVE  /\ \A j \in Jobs : Kept(j) \/ Loose(j)
           /\ FailedExhausted => FailedExhausted'
BY DEF Kept, Loose, Exists, FailedExhausted, Failed

-----------------------------------------------------------------------------
(* The actions.                                                            *)

\* A claim stamps rows with a token that nobody else has.
LEMMA StampedRows ==
    ASSUME Typed, NEW S \in ClaimSets, NEW p \in Tokens, Stamp(S, p)
    PROVE  /\ S \subseteq Jobs
           /\ \A j \in Jobs \ S : job'[j] = job[j]
           /\ \A j \in S : /\ Exists(j) /\ Exists(j)'
                           /\ job'[j].claim_token = p
                           /\ job'[j].attempt = job[j].attempt
                           /\ job'[j].max_attempts = job[j].max_attempts
                           /\ ~Failed(j)'
<1>1. S \subseteq Jobs /\ \A j \in S : job[j] \in Row /\ Exists(j)
    BY DEF ClaimSets, Claimable, Exists, Typed, TypeOK
<1>2. \A j \in Jobs \ S : job'[j] = job[j]
    BY DEF Stamp
<1>3. ASSUME NEW j \in S
      PROVE  /\ job'[j] \in Row
             /\ job'[j].claim_token = p
             /\ job'[j].attempt = job[j].attempt
             /\ job'[j].max_attempts = job[j].max_attempts
             /\ job'[j].locked_until = LeaseDuration
    <2>1. job'[j] = [job[j] EXCEPT !.locked_until = LeaseDuration, !.claim_token = p]
        BY <1>1 DEF Stamp
    <2>. QED BY <1>1, <2>1, ConstantsAssumption DEF Row
<1>. QED BY <1>1, <1>2, <1>3, ConstantsAssumption, NullsAssumption DEF Exists, Failed

LEMMA StampExhausted ==
    ASSUME Typed, FailedExhausted, NEW S \in ClaimSets, NEW p \in Tokens, Stamp(S, p)
    PROVE  FailedExhausted'
BY StampedRows DEF FailedExhausted, Failed, Exists

LEMMA ClaimInv ==
    ASSUME JobsInv, Typed', NEW w \in Workers, Claim(w)
    PROVE  JobsInv'
<1>. DEFINE p == FreshPrefix
<1>1. PICK S \in ClaimSets : \E r \in Returned(S) :
            Stamp(S, p) /\ Take(w, r, Returned(S) \ {r})
    BY DEF Claim
<1>2. PICK q \in Returned(S) : Take(w, q, Returned(S) \ {q})
    BY <1>1
<1>3. p \in Tokens /\ p \notin LivePrefixes /\ p # NULL
    BY FreshToken, NullsAssumption DEF Claim
<1>. HIDE DEF p
<1>4. /\ S \subseteq Jobs
      /\ \A j \in Jobs \ S : job'[j] = job[j]
      /\ \A j \in S : /\ Exists(j) /\ Exists(j)'
                      /\ job'[j].claim_token = p
                      /\ job'[j].attempt = job[j].attempt
                      /\ job'[j].max_attempts = job[j].max_attempts
                      /\ ~Failed(j)'
    BY <1>1, <1>3, StampedRows DEF JobsInv
<1>5. FailedExhausted'
    BY <1>1, <1>3, StampExhausted DEF JobsInv
<1>6. prefix' = [prefix EXCEPT ![w] = p] /\ orphans' = orphans /\ succeeded' = succeeded
      /\ ctxDone' = ctxDone /\ result' = result
    BY DEF Claim, p
<1>7. /\ \A v \in Workers : prefix[v] # p
      /\ \A s \in orphans : s.claim_token # p
    BY <1>3 DEF LivePrefixes
<1>8. /\ Held(w)' = Returned(S) /\ ~Settling(w)' /\ prefix'[w] = p
      /\ \A v \in Workers \ {w} : /\ Held(v)' = Held(v) /\ prefix'[v] = prefix[v]
                                  /\ Settling(v)' = Settling(v)
                                  /\ cur'[v] = cur[v]
    BY <1>2, <1>6 DEF Take, Held, Settling, JobsInv, Typed, TypeOK
<1>9. HeldOnce'
    BY <1>2 DEF JobsInv, HeldOnce, Active, Take, Returned, Typed, TypeOK
<1>10. PrefixesDistinct'
    BY <1>3, <1>7, <1>8 DEF JobsInv, Links, PrefixesDistinct
<1>11. OutcomesReleased'
    BY <1>6, <1>7, <1>8 DEF JobsInv, Links, OutcomesReleased
<1>12. OutcomesUnique'
    BY <1>6 DEF JobsInv, Links, OutcomesUnique
<1>13. ASSUME NEW s \in orphans, Hits(s)'
       PROVE  Hits(s) /\ job'[s.id] = job[s.id]
    <2>1. s.id \in Jobs
        BY DEF JobsInv, Typed, TypeOK, Statement
    <2>. QED BY <1>4, <1>7, <1>13, <2>1 DEF Hits, Exists
<1>14. OrphansFresh'
    BY <1>6, <1>13 DEF JobsInv, Links, OrphansFresh
<1>15. ASSUME NEW v \in Workers \ {w}, NEW r \in Held(v), Current(v, r)'
       PROVE  Current(v, r) /\ job'[r.id] = job[r.id]
    <2>1. r.id \in Jobs
        BY HeldTyped DEF JobsInv, JobRow
    <2>. QED BY <1>4, <1>7, <1>8, <1>15, <2>1 DEF Current, Exists
<1>16. SnapshotFresh'
    <2>1. ASSUME NEW v \in Workers \ {w}, NEW r \in Held(v)', Current(v, r)'
          PROVE  job'[r.id].attempt = r.attempt /\ job'[r.id].max_attempts = r.max_attempts
        BY <1>8, <1>15, <2>1 DEF JobsInv, Links, SnapshotFresh
    <2>2. ASSUME NEW r \in Held(w)'
          PROVE  job'[r.id].attempt = r.attempt /\ job'[r.id].max_attempts = r.max_attempts
        BY <1>4, <1>8 DEF Returned
    <2>. QED BY <2>1, <2>2 DEF SnapshotFresh
<1>17. HeldNotFailed'
    <2>1. ASSUME NEW v \in Workers \ {w}, NEW r \in Held(v)', Current(v, r)'
          PROVE  ~Failed(r.id)'
        BY <1>8, <1>15, <2>1 DEF JobsInv, Links, HeldNotFailed, Failed, Exists
    <2>2. ASSUME NEW r \in Held(w)'
          PROVE  ~Failed(r.id)'
        BY <1>4, <1>8 DEF Returned
    <2>. QED BY <2>1, <2>2 DEF HeldNotFailed
<1>18. DeletesEarned'
    <2>1. ASSUME NEW s \in orphans', s.kind = "delete", Hits(s)'
          PROVE  s.id \in succeeded'
        BY <1>6, <1>13, <2>1 DEF JobsInv, Links, DeletesEarned
    <2>2. ASSUME NEW v \in Workers, Settling(v)', result'[v] = "ok", Current(v, cur[v])'
          PROVE  cur'[v].id \in succeeded'
        <3>1. v # w /\ Settling(v) /\ cur'[v] = cur[v]
            BY <1>8, <2>2
        <3>2. cur[v] \in Held(v)
            BY <3>1, SettlingHolds
        <3>3. Current(v, cur[v])
            BY <1>15, <2>2, <3>1, <3>2
        <3>. QED BY <1>6, <2>2, <3>1, <3>3 DEF JobsInv, Links, DeletesEarned
    <2>. QED BY <2>1, <2>2 DEF DeletesEarned
<1>. QED
    BY <1>5, <1>9, <1>10, <1>11, <1>12, <1>14, <1>16, <1>17, <1>18 DEF JobsInv, Links

LEMMA ClaimLostInv ==
    ASSUME JobsInv, Typed', NEW w \in Workers, ClaimLost(w)
    PROVE  JobsInv'
<1>1. PICK S \in ClaimSets : Stamp(S, FreshPrefix)
    BY DEF ClaimLost
<1>2. FreshPrefix \in Tokens /\ FreshPrefix \notin LivePrefixes
    BY FreshToken DEF ClaimLost
<1>3. UNCHANGED <<pc, prefix, batch, cur, result, ctxDone, orphans, succeeded>>
    BY DEF ClaimLost, workerVars
<1>4. Shrinks /\ HeldOnce'
    BY <1>3, SameHoldings DEF JobsInv
<1>5. ASSUME NEW j \in Jobs
      PROVE  Kept(j) \/ Loose(j)
    <2>1. CASE j \notin S
        BY <1>1, <1>2, <2>1, StampedRows DEF JobsInv, Kept, Loose, Exists, Failed
    <2>2. CASE j \in S
        <3>1. job'[j].claim_token = FreshPrefix
            BY <1>1, <1>2, <2>2, StampedRows DEF JobsInv
        <3>2. /\ \A v \in Workers : prefix'[v] # FreshPrefix
              /\ \A s \in orphans' : s.claim_token # FreshPrefix
            BY <1>2, <1>3 DEF LivePrefixes
        <3>. QED BY <3>1, <3>2 DEF Loose
    <2>. QED BY <2>1, <2>2
<1>6. Links'
    BY <1>3, <1>4, <1>5, LinkStep DEF JobsInv
<1>7. FailedExhausted'
    BY <1>1, <1>2, StampExhausted DEF JobsInv
<1>. QED BY <1>4, <1>6, <1>7 DEF JobsInv

LEMMA RenewInv ==
    ASSUME JobsInv, Typed', NEW w \in Workers,
           RenewSend(w) \/ RenewReply(w) \/ RenewError(w)
    PROVE  JobsInv'
<1>1. UNCHANGED <<pc, prefix, batch, cur, result, ctxDone, succeeded>>
    BY DEF RenewSend, RenewReply, RenewError
<1>2. Shrinks /\ HeldOnce'
    BY <1>1, SameHoldings DEF JobsInv
<1>3. CASE RenewSend(w)
    <2>1. job' = job /\ orphans' = orphans
        BY <1>3 DEF RenewSend
    <2>. QED BY <1>1, <1>2, <2>1, SameTable, LinkStep DEF JobsInv
<1>4. CASE RenewReply(w)
    <2>1. RenewStmt(w) \in Statement /\ RenewStmt(w).kind = "renew"
        BY <1>4, RenewType DEF RenewReply, JobsInv, RenewStmt
    <2>2. Exec(RenewStmt(w)) /\ orphans' = orphans
        BY <1>4 DEF RenewReply
    <2>3. FailedExhausted'
        BY <2>1, <2>2, ExecExhausted DEF JobsInv
    <2>4. Links'
        BY <1>1, <1>2, <2>1, <2>2, ExecStep DEF JobsInv
    <2>. QED BY <1>2, <2>3, <2>4 DEF JobsInv
<1>5. CASE RenewError(w)
    <2>1. job' = job /\ Abandon(w) /\ renewal[w] = "sent"
        BY <1>5 DEF RenewError
    <2>2. ~Settling(w)
        BY <2>1 DEF JobsInv, Typed, WorkerShape, Settling
    <2>3. \A s \in orphans' : s \in orphans \/ s.kind = "renew" \/ Justified(s)
        BY <1>1, <1>2, <2>1, <2>2, AbandonJustified
    <2>. QED BY <1>1, <1>2, <2>1, <2>3, SameTable, LinkStep DEF JobsInv
<1>. QED BY <1>3, <1>4, <1>5

LEMMA HandlerReturnInv ==
    ASSUME JobsInv, Typed', NEW w \in Workers, NEW res \in {"ok", "err"},
           HandlerReturn(w, res)
    PROVE  JobsInv'
<1>1. /\ UNCHANGED <<job, prefix, batch, cur, ctxDone>>
      /\ pc[w] = "handle" /\ pc' = [pc EXCEPT ![w] = "record"]
      /\ result' = [result EXCEPT ![w] = res]
      /\ succeeded' = IF res = "ok" THEN succeeded \cup {cur[w].id} ELSE succeeded
    BY DEF HandlerReturn
<1>2. \A s \in orphans' : s \in orphans \/ s.kind = "renew"
    BY DEF HandlerReturn, StopRenewal, RenewStmt
<1>3. /\ \A v \in Workers : Held(v)' \subseteq Held(v)
      /\ \A v \in Workers \ {w} : Settling(v)' = Settling(v) /\ result'[v] = result[v]
    BY <1>1 DEF Held, Settling, JobsInv, Typed, TypeOK
<1>4. HeldOnce'
    BY <1>1 DEF JobsInv, HeldOnce, Active, Typed, TypeOK
<1>5. PrefixesDistinct'
    BY <1>1 DEF JobsInv, Links, PrefixesDistinct
<1>6. OutcomesReleased'
    BY <1>1, <1>2, <1>3 DEF JobsInv, Links, OutcomesReleased
<1>7. OutcomesUnique'
    BY <1>2 DEF JobsInv, Links, OutcomesUnique
<1>8. OrphansFresh'
    BY <1>1, <1>2 DEF JobsInv, Links, OrphansFresh, Hits, Exists
<1>9. SnapshotFresh' /\ HeldNotFailed'
    BY <1>1, <1>3
    DEF JobsInv, Links, SnapshotFresh, HeldNotFailed, Current, Exists, Failed
<1>10. DeletesEarned'
    <2>1. ASSUME NEW s \in orphans', s.kind = "delete", Hits(s)'
          PROVE  s.id \in succeeded'
        BY <1>1, <1>2, <2>1 DEF JobsInv, Links, DeletesEarned, Hits, Exists
    <2>2. ASSUME NEW v \in Workers, Settling(v)', result'[v] = "ok", Current(v, cur[v])'
          PROVE  cur'[v].id \in succeeded'
        <3>1. CASE v = w
            BY <1>1, <2>2, <3>1 DEF JobsInv, Typed, TypeOK
        <3>2. CASE v # w
            BY <1>1, <1>3, <2>2, <3>2 DEF JobsInv, Links, DeletesEarned, Current, Exists
        <3>. QED BY <3>1, <3>2
    <2>. QED BY <2>1, <2>2 DEF DeletesEarned
<1>11. FailedExhausted'
    BY <1>1, SameTable DEF JobsInv
<1>. QED
    BY <1>4, <1>5, <1>6, <1>7, <1>8, <1>9, <1>10, <1>11 DEF JobsInv, Links

LEMMA RecordInv ==
    ASSUME JobsInv, Typed', NEW w \in Workers, Record(w)
    PROVE  JobsInv'
<1>1. /\ pc[w] = "record" /\ Advance(w)
      /\ ctxDone' = ctxDone /\ orphans' = orphans /\ succeeded' = succeeded
    BY DEF Record
<1>2. Shrinks /\ HeldOnce' /\ Held(w)' = batch[w]
    BY <1>1, AdvanceShrinks DEF JobsInv
<1>3. CASE ctxDone[w]
    <2>1. job' = job
        BY <1>3 DEF Record
    <2>. QED BY <1>1, <1>2, <2>1, SameTable, LinkStep DEF JobsInv
<1>4. CASE ~ctxDone[w]
    <2>1. PICK d \in Backoffs : Exec(OutcomeStmt(w, d))
        BY <1>4 DEF Record
    <2>. DEFINE s == OutcomeStmt(w, d)
    <2>2. Settling(w)
        BY <1>1, <1>4 DEF Settling
    <2>3. /\ s \in Statement
          /\ s.kind # "renew"
          /\ Hits(s) => (s.kind = "fail" => s.attempt >= job[s.id].max_attempts)
          /\ \A t \in orphans : t.kind # "renew" /\ t.id = s.id
                                    => t.claim_token # s.claim_token
          /\ \A v \in Workers : prefix[v] = s.claim_token => v = w
          /\ \A r \in batch[w] : r.id # s.id
        BY <2>2, OutcomeFacts
    <2>. HIDE DEF s
    <2>4. \A v \in Workers : prefix'[v] = s.claim_token =>
                \A r \in Held(v)' : r.id # s.id
        BY <1>2, <2>3 DEF Shrinks
    <2>5. Exec(s)
        BY <2>1 DEF s
    <2>6. Links'
        BY <1>1, <1>2, <2>3, <2>4, <2>5, ExecStep DEF JobsInv
    <2>7. FailedExhausted'
        BY <2>3, <2>5, ExecExhausted DEF JobsInv
    <2>. QED BY <1>2, <2>6, <2>7 DEF JobsInv
<1>. QED BY <1>3, <1>4

LEMMA RecordErrorInv ==
    ASSUME JobsInv, Typed', NEW w \in Workers, RecordError(w)
    PROVE  JobsInv'
<1>1. /\ pc[w] = "record" /\ Advance(w) /\ Abandon(w)
      /\ ctxDone' = ctxDone /\ job' = job /\ succeeded' = succeeded
    BY DEF RecordError
<1>2. Shrinks /\ HeldOnce' /\ Held(w)' = batch[w]
    BY <1>1, AdvanceShrinks DEF JobsInv
<1>3. \A s \in orphans' : s \in orphans \/ s.kind = "renew" \/ Justified(s)
    BY <1>1, <1>2, AbandonJustified
<1>. QED BY <1>1, <1>2, <1>3, SameTable, LinkStep DEF JobsInv

\* Exit, Crash and Restart leave the worker with nothing.
LEMMA LeaveInv ==
    ASSUME JobsInv, Typed', NEW w \in Workers, Exit(w) \/ Crash(w) \/ Restart(w)
    PROVE  JobsInv'
<1>1. /\ job' = job /\ succeeded' = succeeded
      /\ \E p \in {"poll", "exited"} : Idle(w, p)
      /\ \A v \in Workers : v # w => ctxDone'[v] = ctxDone[v]
    BY DEF Exit, Crash, Restart, JobsInv, Typed, TypeOK
<1>2. Shrinks /\ HeldOnce' /\ Held(w)' = {}
    BY <1>1, IdleShrinks DEF JobsInv
<1>3. \A s \in orphans' : s \in orphans \/ s.kind = "renew" \/ Justified(s)
    <2>1. CASE Crash(w)
        BY <1>1, <1>2, <2>1, AbandonJustified DEF Crash
    <2>2. CASE Exit(w) \/ Restart(w)
        BY <2>2 DEF Exit, Restart
    <2>. QED BY <2>1, <2>2
<1>. QED BY <1>1, <1>2, <1>3, SameTable, LinkStep DEF JobsInv

LEMMA CancelInv ==
    ASSUME JobsInv, Typed', NEW w \in Workers, Cancel(w)
    PROVE  JobsInv'
<1>1. /\ UNCHANGED <<job, pc, prefix, batch, cur, result, succeeded>>
      /\ ctxDone' = [ctxDone EXCEPT ![w] = TRUE] /\ Abandon(w)
    BY DEF Cancel
<1>2. ctxDone'[w] /\ \A v \in Workers : v # w => ctxDone'[v] = ctxDone[v]
    BY <1>1 DEF JobsInv, Typed, TypeOK
<1>3. Shrinks
    BY <1>1, <1>2 DEF Shrinks, Held, Settling
<1>4. HeldOnce'
    BY <1>1 DEF JobsInv, HeldOnce, Active
<1>5. Settling(w) => Held(w)' \subseteq batch[w]
    BY <1>1, <1>2 DEF Settling, Held
<1>6. \A s \in orphans' : s \in orphans \/ s.kind = "renew" \/ Justified(s)
    BY <1>1, <1>3, <1>5, AbandonJustified
<1>. QED BY <1>1, <1>3, <1>4, <1>6, SameTable, LinkStep DEF JobsInv

LEMMA OrphanLandsInv ==
    ASSUME JobsInv, Typed', NEW s \in orphans, OrphanLands(s)
    PROVE  JobsInv'
<1>1. /\ UNCHANGED <<pc, prefix, batch, cur, result, ctxDone, succeeded>>
      /\ Exec(s) /\ orphans' = orphans \ {s}
    BY DEF OrphanLands, workerVars
<1>2. Shrinks /\ HeldOnce' /\ s \in Statement
    BY <1>1, SameHoldings DEF JobsInv, Typed, TypeOK
<1>3. ASSUME s.kind # "renew"
      PROVE  /\ \A v \in Workers : prefix'[v] = s.claim_token =>
                    \A r \in Held(v)' : r.id # s.id
             /\ \A t \in orphans' : t.kind # "renew" /\ t.id = s.id
                                        => t.claim_token # s.claim_token
    <2>1. \A v \in Workers : prefix'[v] = s.claim_token =>
                    \A r \in Held(v)' : r.id # s.id
        BY <1>1, <1>2, <1>3 DEF JobsInv, Links, OutcomesReleased, Shrinks
    <2>2. \A t \in orphans' : t.kind # "renew" /\ t.id = s.id
                                        => t.claim_token # s.claim_token
        BY <1>1, <1>3 DEF JobsInv, Links, OutcomesUnique
    <2>. QED BY <2>1, <2>2
<1>4. Links'
    BY <1>1, <1>2, <1>3, ExecStep DEF JobsInv
<1>5. FailedExhausted'
    BY <1>1, <1>2, ExecExhausted DEF JobsInv, Links, OrphansFresh
<1>. QED BY <1>2, <1>4, <1>5 DEF JobsInv

\* Operators and producers only touch rows that no claim refers to.
LEMMA AdminInv ==
    ASSUME JobsInv, Typed', Admin
    PROVE  JobsInv'
<1>1. UNCHANGED <<pc, prefix, batch, cur, result, ctxDone, orphans>>
    BY DEF Admin, Enqueue, RequeueFailed, DiscardFailed, workerVars
<1>2. Shrinks /\ HeldOnce'
    BY <1>1, SameHoldings DEF JobsInv
<1>3. PICK k \in Jobs :
            /\ Exists(k)' => job'[k].claim_token = NULL /\ ~Failed(k)'
            /\ \A j \in Jobs \ {k} : job'[j] = job[j]
            /\ succeeded \ {k} \subseteq succeeded'
    <2>1. ASSUME NEW call \in Calls, Enqueue(call)
          PROVE  /\ call.id \in Jobs
                 /\ job'[call.id].claim_token = NULL /\ ~Failed(call.id)'
                 /\ \A j \in Jobs \ {call.id} : job'[j] = job[j]
                 /\ succeeded \ {call.id} \subseteq succeeded'
        BY <2>1, ConstantsAssumption, NullsAssumption
        DEF Enqueue, NewRow, Failed, JobsInv, Typed, TypeOK
    <2>2. ASSUME NEW j \in Jobs, NEW d \in Delays, RequeueFailed(j, d)
          PROVE  /\ job'[j].claim_token = NULL /\ ~Failed(j)'
                 /\ \A i \in Jobs \ {j} : job'[i] = job[i]
                 /\ succeeded \ {j} \subseteq succeeded'
        <3>1. \A r \in Row : /\ Released(r, 0, d).claim_token = NULL
                             /\ Released(r, 0, d).locked_until = 0
            BY DEF Released, Row
        <3>2. job[j] \in Row /\ job'[j] = Released(job[j], 0, d)
            BY <2>2 DEF RequeueFailed, Failed, Exists, JobsInv, Typed, TypeOK
        <3>. QED BY <2>2, <3>1, <3>2, NullsAssumption
                 DEF RequeueFailed, Failed, JobsInv, Typed, TypeOK
    <2>3. ASSUME NEW j \in Jobs, DiscardFailed(j)
          PROVE  /\ ~Exists(j)'
                 /\ \A i \in Jobs \ {j} : job'[i] = job[i]
                 /\ succeeded' = succeeded
        BY <2>3 DEF DiscardFailed, Exists, JobsInv, Typed, TypeOK
    <2>. QED BY <2>1, <2>2, <2>3 DEF Admin
<1>4. Loose(k)
    BY <1>3, FreedLoose
<1>5. \A j \in Jobs : Kept(j) \/ Loose(j)
    BY <1>3, <1>4 DEF Kept, Loose, Exists, Failed
<1>6. \A j \in Jobs : j \in succeeded /\ ~Loose(j) => j \in succeeded'
    BY <1>3, <1>4
<1>7. Links'
    BY <1>1, <1>2, <1>5, <1>6, LinkStep DEF JobsInv
<1>8. FailedExhausted'
    BY <1>3 DEF JobsInv, FailedExhausted, Failed, Exists
<1>. QED BY <1>2, <1>7, <1>8 DEF JobsInv

LEMMA TickInv ==
    ASSUME JobsInv, Typed', Tick
    PROVE  JobsInv'
<1>1. UNCHANGED <<pc, prefix, batch, cur, result, ctxDone, orphans, succeeded>>
    BY DEF Tick, workerVars
<1>2. Shrinks /\ HeldOnce'
    BY <1>1, SameHoldings DEF JobsInv
<1>3. ASSUME NEW r \in Row
      PROVE  /\ Aged(r) \in Row
             /\ Aged(r).attempt = r.attempt /\ Aged(r).max_attempts = r.max_attempts
             /\ Aged(r).claim_token = r.claim_token
             /\ Aged(r).locked_until = Infinity <=> r.locked_until = Infinity
    BY AgedRow
<1>4. ASSUME NEW j \in Jobs, Exists(j)'
      PROVE  /\ Exists(j) /\ job[j] \in Row /\ job'[j] = Aged(job[j])
    BY <1>4 DEF Tick, Exists, Aged, JobsInv, Typed, TypeOK
<1>5. ASSUME NEW j \in Jobs
      PROVE  Kept(j) \/ Loose(j)
    BY <1>3, <1>4 DEF Kept, Loose, Failed
<1>6. Links'
    BY <1>1, <1>2, <1>5, LinkStep DEF JobsInv
<1>7. FailedExhausted'
    BY <1>3, <1>4 DEF JobsInv, FailedExhausted, Failed
<1>. QED BY <1>2, <1>6, <1>7 DEF JobsInv

-----------------------------------------------------------------------------
(* The invariant and what follows from it.                                 *)

LEMMA JobsInvInit == Init => JobsInv
<1>1. Init => HeldOnce /\ FailedExhausted
    BY DEF Init, HeldOnce, Active, FailedExhausted, Failed, Exists
<1>2. Init => Links
    BY DEF Init, Links, PrefixesDistinct, OutcomesReleased, OutcomesUnique, OrphansFresh,
           SnapshotFresh, HeldNotFailed, DeletesEarned, Held, Settling
<1>. QED BY <1>1, <1>2, TypedInit DEF JobsInv

LEMMA JobsInvNext ==
    ASSUME JobsInv, [Next]_vars
    PROVE  JobsInv'
<1>1. Typed'
    BY TypedNext DEF JobsInv
<1>2. CASE UNCHANGED vars
    <2>1. Shrinks /\ HeldOnce' /\ job' = job /\ orphans' = orphans /\ succeeded' = succeeded
        BY <1>2, SameHoldings DEF vars, workerVars, JobsInv
    <2>. QED BY <1>1, <2>1, SameTable, LinkStep DEF JobsInv
<1>3. ASSUME NEW w \in Workers, WorkerStep(w)
      PROVE  JobsInv'
    BY <1>1, <1>3, ClaimInv, RenewInv, HandlerReturnInv, RecordInv, LeaveInv
    DEF WorkerStep
<1>4. ASSUME NEW w \in Workers, Disturbance(w) \/ Restart(w)
      PROVE  JobsInv'
    BY <1>1, <1>4, ClaimLostInv, RenewInv, RecordErrorInv, CancelInv, LeaveInv
    DEF Disturbance
<1>5. ASSUME NEW s \in orphans, OrphanLands(s)
      PROVE  JobsInv'
    BY <1>1, <1>5, OrphanLandsInv
<1>6. CASE Admin
    BY <1>1, <1>6, AdminInv
<1>7. CASE Tick
    BY <1>1, <1>7, TickInv
<1>. QED BY <1>2, <1>3, <1>4, <1>5, <1>6, <1>7 DEF Next

\* Every reachable state satisfies the inductive invariant.
THEOREM Invariance == Spec => []JobsInv
BY JobsInvInit, JobsInvNext, PTL DEF Spec

LEMMA OneOwner == JobsInv => SingleOwner
<1>1. SUFFICES ASSUME JobsInv, NEW j \in Jobs, NEW v \in Workers, NEW w \in Workers,
                      Owns(v, j), Owns(w, j)
               PROVE  v = w
    BY DEF SingleOwner
<1>2. prefix[v] = job[j].claim_token /\ prefix[w] = job[j].claim_token
    BY <1>1 DEF Owns, Current
<1>3. prefix[v] # NULL
    BY <1>1, HeldTyped DEF Owns, JobsInv
<1>. QED BY <1>1, <1>2, <1>3 DEF JobsInv, Links, PrefixesDistinct

\* Mutual exclusion of claims (jobs/worker.go, the claim and the guarded
\* outcome): at most one worker can write to a job at any time.
THEOREM SingleOwnerHolds == Spec => []SingleOwner
BY OneOwner, Invariance, PTL

\* No lost update of the attempt counter: what the owner read is what is there.
THEOREM SnapshotFreshHolds == Spec => []SnapshotFresh
<1>1. JobsInv => SnapshotFresh
    BY DEF JobsInv, Links
<1>. QED BY <1>1, Invariance, PTL

\* Only jobs whose attempts are used up are parked as failed.
THEOREM FailedExhaustedHolds == Spec => []FailedExhausted
<1>1. JobsInv => FailedExhausted
    BY DEF JobsInv
<1>. QED BY <1>1, Invariance, PTL

-----------------------------------------------------------------------------
(* Action properties.                                                      *)

\* What one step may do to the row of job j.
RowStep(j) ==
    /\ Exists(j) /\ Exists(j)' =>
            \/ job'[j].attempt \in {job[j].attempt, job[j].attempt + 1}
            \/ Failed(j) /\ job'[j].attempt = 0
    /\ Exists(j) /\ ~Exists(j)' => j \in succeeded \/ Failed(j)

LEMMA SameRowStep ==
    ASSUME NEW j \in Jobs, job'[j] = job[j]
    PROVE  RowStep(j)
BY DEF RowStep, Exists

LEMMA ExecRowStep ==
    ASSUME Typed, NEW s \in Statement, Exec(s),
           s.kind # "renew" /\ Hits(s) =>
                /\ s.attempt = job[s.id].attempt + 1
                /\ s.kind = "delete" => s.id \in succeeded
    PROVE  \A j \in Jobs : RowStep(j)
<1>1. s.id \in Jobs
    BY DEF Statement
<1>2. ASSUME NEW j \in Jobs, ~Matches(s) \/ j # s.id
      PROVE  job'[j] = job[j]
    BY <1>2 DEF Exec, Typed, TypeOK
<1>3. ASSUME Matches(s)
      PROVE  RowStep(s.id)
    <2>1. job'[s.id] = Effect(s, job[s.id]) /\ job[s.id] \in Row
        BY <1>1, <1>3 DEF Exec, Typed, TypeOK, Matches, Exists
    <2>2. Hits(s)
        BY <1>3 DEF Matches, Hits
    <2>3. CASE s.kind = "renew"
        <3>1. /\ job'[s.id] \in Row
              /\ job'[s.id].attempt = job[s.id].attempt
            BY <2>1, <2>3, ConstantsAssumption DEF Effect, Row
        <3>. QED BY <3>1, NullsAssumption DEF RowStep, Exists
    <2>4. CASE s.kind = "delete"
        BY <2>1, <2>2, <2>4 DEF Effect, RowStep, Exists
    <2>5. CASE s.kind = "fail"
        <3>1. Effect(s, job[s.id]) \in Row
            BY <2>1, <2>5 DEF Effect, Row, Statement
        <3>2. job'[s.id].attempt = s.attempt
            BY <2>1, <2>5 DEF Effect, Row
        <3>. QED BY <2>1, <2>2, <2>5, <3>1, <3>2, NullsAssumption DEF RowStep, Exists
    <2>6. CASE s.kind = "retry"
        <3>1. s.attempt \in Nat /\ s.delay \in Int
            BY DEF Statement
        <3>2. \A r \in Row : /\ Released(r, s.attempt, s.delay) \in Row
                             /\ Released(r, s.attempt, s.delay).attempt = s.attempt
            BY <3>1, ReleasedRow
        <3>3. job'[s.id] \in Row /\ job'[s.id].attempt = s.attempt
            BY <2>1, <2>6, <3>2 DEF Effect
        <3>. QED BY <2>2, <2>6, <3>3, NullsAssumption DEF RowStep, Exists
    <2>. QED BY <2>3, <2>4, <2>5, <2>6 DEF Statement
<1>. QED BY <1>1, <1>2, <1>3, SameRowStep

LEMMA AdminRowStep ==
    ASSUME Typed, Admin
    PROVE  \A j \in Jobs : RowStep(j)
<1>1. ASSUME NEW call \in Calls, Enqueue(call), NEW j \in Jobs
      PROVE  RowStep(j)
    <2>1. CASE j = call.id
        BY <1>1, <2>1 DEF Enqueue, RowStep
    <2>2. CASE j # call.id
        BY <1>1, <2>2, SameRowStep DEF Enqueue, Typed, TypeOK
    <2>. QED BY <2>1, <2>2
<1>2. ASSUME NEW k \in Jobs, NEW d \in Delays, RequeueFailed(k, d), NEW j \in Jobs
      PROVE  RowStep(j)
    <2>1. CASE j = k
        <3>1. d \in Int /\ job[k] \in Row
            BY <1>2, ConstantsAssumption DEF RequeueFailed, Failed, Exists, Typed, TypeOK
        <3>2. \A r \in Row : Released(r, 0, d).attempt = 0
            BY <3>1, ReleasedRow
        <3>3. job'[k].attempt = 0 /\ Failed(k)
            BY <1>2, <3>1, <3>2 DEF RequeueFailed, Typed, TypeOK
        <3>. QED BY <2>1, <3>3 DEF RowStep
    <2>2. CASE j # k
        BY <1>2, <2>2, SameRowStep DEF RequeueFailed, Typed, TypeOK
    <2>. QED BY <2>1, <2>2
<1>3. ASSUME NEW k \in Jobs, DiscardFailed(k), NEW j \in Jobs
      PROVE  RowStep(j)
    <2>1. CASE j = k
        BY <1>3, <2>1 DEF DiscardFailed, RowStep, Exists, Typed, TypeOK
    <2>2. CASE j # k
        BY <1>3, <2>2, SameRowStep DEF DiscardFailed, Typed, TypeOK
    <2>. QED BY <2>1, <2>2
<1>. QED BY <1>1, <1>2, <1>3 DEF Admin

LEMMA StampRowStep ==
    ASSUME Typed, NEW S \in ClaimSets, NEW p \in Tokens, Stamp(S, p)
    PROVE  \A j \in Jobs : RowStep(j)
BY StampedRows, SameRowStep DEF RowStep

LEMMA NextRowStep ==
    ASSUME JobsInv, [Next]_vars
    PROVE  \A j \in Jobs : RowStep(j)
<1>1. CASE job' = job
    BY <1>1, SameRowStep
<1>2. ASSUME NEW w \in Workers, Claim(w) \/ ClaimLost(w)
      PROVE  \A j \in Jobs : RowStep(j)
    <2>1. /\ \E S \in ClaimSets : Stamp(S, FreshPrefix)
          /\ FreshPrefix \in Tokens
        BY <1>2, FreshToken DEF Claim, ClaimLost
    <2>. QED BY <2>1, StampRowStep DEF JobsInv
<1>3. ASSUME NEW w \in Workers, RenewReply(w)
      PROVE  \A j \in Jobs : RowStep(j)
    <2>1. RenewStmt(w) \in Statement /\ RenewStmt(w).kind = "renew"
        BY <1>3, RenewType DEF RenewReply, JobsInv, RenewStmt
    <2>. QED BY <1>3, <2>1, ExecRowStep DEF RenewReply, JobsInv
<1>4. ASSUME NEW w \in Workers, Record(w), ~ctxDone[w]
      PROVE  \A j \in Jobs : RowStep(j)
    <2>1. PICK d \in Backoffs : Exec(OutcomeStmt(w, d))
        BY <1>4 DEF Record
    <2>. DEFINE s == OutcomeStmt(w, d)
    <2>2. Settling(w)
        BY <1>4 DEF Record, Settling
    <2>3. /\ s \in Statement
          /\ Hits(s) => /\ s.attempt = job[s.id].attempt + 1
                        /\ s.kind = "delete" => s.id \in succeeded
        BY <2>2, OutcomeFacts
    <2>4. Exec(s)
        BY <2>1
    <2>. HIDE DEF s
    <2>. QED BY <2>3, <2>4, ExecRowStep DEF JobsInv
<1>5. ASSUME NEW s \in orphans, OrphanLands(s)
      PROVE  \A j \in Jobs : RowStep(j)
    <2>1. s \in Statement /\ Exec(s)
        BY <1>5 DEF OrphanLands, JobsInv, Typed, TypeOK
    <2>2. s.kind # "renew" /\ Hits(s) =>
                /\ s.attempt = job[s.id].attempt + 1
                /\ s.kind = "delete" => s.id \in succeeded
        BY DEF JobsInv, Links, OrphansFresh, DeletesEarned
    <2>. QED BY <2>1, <2>2, ExecRowStep DEF JobsInv
<1>6. CASE Admin
    BY <1>6, AdminRowStep DEF JobsInv
<1>7. CASE Tick
    <2>1. ASSUME NEW j \in Jobs, Exists(j)
          PROVE  Exists(j)' /\ job'[j].attempt = job[j].attempt
        <3>1. job[j] \in Row /\ job'[j] = Aged(job[j])
            BY <1>7, <2>1 DEF Tick, Exists, JobsInv, Typed, TypeOK
        <3>. QED BY <3>1, AgedRow, NullsAssumption DEF Exists
    <2>. QED BY <2>1 DEF RowStep
<1>. QED
    BY <1>1, <1>2, <1>3, <1>4, <1>5, <1>6, <1>7
    DEF Next, WorkerStep, Disturbance, vars, RenewSend, RenewError, HandlerReturn,
        Record, RecordError, Exit, Cancel, Crash, Restart

\* attempt counts recorded failures one by one, for every interleaving of
\* workers, late statements and operators.
THEOREM AttemptStepHolds == Spec => AttemptStep
<1>1. JobsInv /\ [Next]_vars =>
        [\A j \in Jobs : Exists(j) /\ Exists(j)' =>
            \/ job'[j].attempt \in {job[j].attempt, job[j].attempt + 1}
            \/ Failed(j) /\ job'[j].attempt = 0]_vars
    BY NextRowStep DEF RowStep
<1>. QED BY <1>1, Invariance, PTL DEF Spec, AttemptStep

\* A job leaves the table only completed, or discarded by an operator.
THEOREM AckedOnlyAfterSuccessHolds == Spec => AckedOnlyAfterSuccess
<1>1. JobsInv /\ [Next]_vars =>
        [\A j \in Jobs : Exists(j) /\ ~Exists(j)' => j \in succeeded \/ Failed(j)]_vars
    BY NextRowStep DEF RowStep
<1>. QED BY <1>1, Invariance, PTL DEF Spec, AckedOnlyAfterSuccess

-----------------------------------------------------------------------------
(* Leases.                                                                 *)

\* A worker that holds something before and after a step does so under the same
\* claim prefix.
LEMMA SamePrefix ==
    ASSUME JobsInv, [Next]_vars, NEW w \in Workers, Held(w) # {}, Held(w)' # {}
    PROVE  prefix'[w] = prefix[w]
<1>1. CASE prefix' = prefix
    BY <1>1
<1>2. ASSUME NEW v \in Workers, Claim(v)
      PROVE  prefix'[w] = prefix[w]
    <2>1. prefix' = [prefix EXCEPT ![v] = FreshPrefix] /\ pc[v] = "poll"
        BY <1>2 DEF Claim
    <2>2. Held(v) = {}
        BY <2>1 DEF JobsInv, Typed, WorkerShape, Active, Held
    <2>3. w # v
        BY <2>2
    <2>. QED BY <2>1, <2>3 DEF JobsInv, Typed, TypeOK
<1>3. ASSUME NEW v \in Workers, NEW p \in {"poll", "exited"}, Idle(v, p)
      PROVE  prefix'[w] = prefix[w]
    <2>1. Held(v)' = {}
        BY <1>3 DEF Idle, Held, JobsInv, Typed, TypeOK
    <2>2. w # v
        BY <2>1
    <2>. QED BY <1>3, <2>2 DEF Idle, JobsInv, Typed, TypeOK
<1>4. ASSUME NEW v \in Workers, Record(v) \/ RecordError(v)
      PROVE  prefix'[w] = prefix[w]
    <2>1. Idle(v, "poll") \/ prefix' = prefix
        BY <1>4 DEF Record, RecordError, Advance
    <2>. QED BY <1>3, <2>1
<1>5. ASSUME NEW v \in Workers, Exit(v) \/ Crash(v) \/ Restart(v)
      PROVE  prefix'[w] = prefix[w]
    <2>1. Idle(v, "poll") \/ Idle(v, "exited")
        BY <1>5 DEF Exit, Crash, Restart
    <2>. QED BY <1>3, <2>1
<1>. QED
    BY <1>1, <1>2, <1>4, <1>5
    DEF Next, WorkerStep, Disturbance, Admin, vars, workerVars, ClaimLost, RenewSend,
        RenewReply, RenewError, HandlerReturn, Cancel, OrphanLands, Enqueue,
        RequeueFailed, DiscardFailed, Tick

\* The row is there after the step, with the claim token it had.
TokenKept(j) == Exists(j)' /\ job'[j].claim_token = job[j].claim_token

\* Only an outcome takes the token from a row whose claim it carries.
LEMMA ExecToken ==
    ASSUME Typed, NEW s \in Statement, Exec(s), NEW j \in Jobs, Exists(j)
    PROVE  TokenKept(j) \/ (s.kind # "renew" /\ s.id = j /\ Hits(s))
<1>1. CASE ~Matches(s) \/ j # s.id
    <2>1. job'[j] = job[j]
        BY <1>1 DEF Exec, Typed, TypeOK
    <2>. QED BY <2>1 DEF TokenKept, Exists
<1>2. CASE Matches(s) /\ j = s.id /\ s.kind = "renew"
    <2>1. job'[j] = [job[j] EXCEPT !.locked_until = LeaseDuration] /\ job[j] \in Row
        BY <1>2 DEF Exec, Effect, Exists, Typed, TypeOK
    <2>2. job'[j] \in Row /\ job'[j].claim_token = job[j].claim_token
        BY <2>1, ConstantsAssumption DEF Row
    <2>. QED BY <2>2, NullsAssumption DEF TokenKept, Exists
<1>3. CASE Matches(s) /\ j = s.id /\ s.kind # "renew"
    BY <1>3 DEF Matches, Hits
<1>. QED BY <1>1, <1>2, <1>3

\* A row that a worker holds under an unexpired lease keeps its token until the
\* worker lets go of it.
LEMMA LeasedRow ==
    ASSUME JobsInv, [Next]_vars, NEW w \in Workers, NEW r \in Held(w), Current(w, r),
           Unexpired(job[r.id].locked_until)
    PROVE  TokenKept(r.id) \/ r \notin Held(w)'
<1>1. /\ r.id \in Jobs /\ Exists(r.id) /\ ~Failed(r.id)
      /\ job[r.id].claim_token = prefix[w] /\ prefix[w] # NULL
    BY HeldTyped DEF JobsInv, Links, HeldNotFailed, Current, JobRow
<1>2. CASE job' = job
    BY <1>1, <1>2 DEF TokenKept, Exists
<1>3. ASSUME NEW v \in Workers, Claim(v) \/ ClaimLost(v)
      PROVE  TokenKept(r.id)
    <2>1. PICK S \in ClaimSets : Stamp(S, FreshPrefix)
        BY <1>3 DEF Claim, ClaimLost
    <2>2. r.id \notin S
        BY DEF ClaimSets, Claimable
    <2>3. job'[r.id] = job[r.id]
        BY <1>1, <2>1, <2>2 DEF Stamp
    <2>. QED BY <1>1, <2>3 DEF TokenKept, Exists
<1>4. ASSUME NEW v \in Workers, RenewReply(v)
      PROVE  TokenKept(r.id)
    <2>1. RenewStmt(v) \in Statement /\ RenewStmt(v).kind = "renew" /\ Exec(RenewStmt(v))
        BY <1>4, RenewType DEF RenewReply, JobsInv, RenewStmt
    <2>. QED BY <1>1, <2>1, ExecToken DEF JobsInv
<1>5. ASSUME NEW v \in Workers, Record(v), ~ctxDone[v]
      PROVE  TokenKept(r.id) \/ r \notin Held(w)'
    <2>1. PICK d \in Backoffs : Exec(OutcomeStmt(v, d))
        BY <1>5 DEF Record
    <2>. DEFINE s == OutcomeStmt(v, d)
    <2>2. Settling(v) /\ pc[v] = "record" /\ Advance(v) /\ ctxDone' = ctxDone
        BY <1>5 DEF Record, Settling
    <2>3. /\ s \in Statement /\ Exec(s)
          /\ s.claim_token = prefix[v]
          /\ \A u \in Workers : prefix[u] = s.claim_token => u = v
          /\ \A q \in batch[v] : q.id # s.id
        BY <2>1, <2>2, OutcomeFacts
    <2>. HIDE DEF s
    <2>4. CASE s.id = r.id /\ Hits(s)
        <3>1. w = v
            BY <1>1, <2>3, <2>4 DEF Hits
        <3>2. Held(w)' = batch[w]
            BY <2>2, <3>1, AdvanceShrinks DEF JobsInv
        <3>. QED BY <2>3, <2>4, <3>1, <3>2
    <2>. QED BY <1>1, <2>3, <2>4, ExecToken DEF JobsInv
<1>6. ASSUME NEW s \in orphans, OrphanLands(s)
      PROVE  TokenKept(r.id)
    <2>1. s \in Statement /\ Exec(s)
        BY <1>6 DEF OrphanLands, JobsInv, Typed, TypeOK
    <2>2. ~(s.kind # "renew" /\ s.id = r.id /\ Hits(s))
        BY <1>1 DEF JobsInv, Links, OutcomesReleased, Hits
    <2>. QED BY <1>1, <2>1, <2>2, ExecToken DEF JobsInv
<1>7. CASE Admin
    <2>1. job'[r.id] = job[r.id]
        BY <1>1, <1>7
        DEF Admin, Enqueue, RequeueFailed, DiscardFailed, JobsInv, Typed, TypeOK
    <2>. QED BY <1>1, <2>1 DEF TokenKept, Exists
<1>8. CASE Tick
    <2>1. job[r.id] \in Row /\ job'[r.id] = Aged(job[r.id])
        BY <1>1, <1>8 DEF Tick, Exists, JobsInv, Typed, TypeOK
    <2>2. Aged(job[r.id]) \in Row /\ Aged(job[r.id]).claim_token = job[r.id].claim_token
        BY <2>1, AgedRow
    <2>. QED BY <2>1, <2>2, NullsAssumption DEF TokenKept, Exists
<1>. QED
    BY <1>2, <1>3, <1>4, <1>5, <1>6, <1>7, <1>8
    DEF Next, WorkerStep, Disturbance, vars, RenewSend, RenewError, HandlerReturn,
        Record, RecordError, Exit, Cancel, Crash, Restart

LEMMA LeaseStep ==
    ASSUME JobsInv, [Next]_vars, NEW w \in Workers, NEW r \in Held(w), Current(w, r),
           Unexpired(job[r.id].locked_until), r \in Held(w)'
    PROVE  Exists(r.id)' /\ job'[r.id].claim_token = prefix'[w]
<1>1. TokenKept(r.id)
    BY LeasedRow
<1>2. prefix'[w] = prefix[w]
    BY SamePrefix
<1>. QED BY <1>1, <1>2 DEF TokenKept, Current

\* An unexpired lease is exclusive (the claim and the guarded statements of
\* jobs/worker.go): no claim, no late statement and no operator takes the job from
\* the worker that holds it.
THEOREM LeaseRespectedHolds == Spec => LeaseRespected
<1>1. JobsInv /\ [Next]_vars =>
        [\A w \in Workers : \A r \in Held(w) :
            /\ Current(w, r)
            /\ Unexpired(job[r.id].locked_until)
            => Current(w, r)' \/ r \notin Held(w)']_vars
    BY LeaseStep DEF Current
<1>. QED BY <1>1, Invariance, PTL DEF Spec, LeaseRespected

\* The invariant does not need an empty table: it holds as well when workers start
\* on a backlog.
LEMMA BacklogInvariance == BacklogInit /\ [][BacklogNext]_vars => []JobsInv
<1>1. BacklogInit => JobsInv
    <2>1. SUFFICES ASSUME BacklogInit PROVE JobsInv
        OBVIOUS
    <2>2. \A call \in Calls : /\ NewRow(call) \in Row
                              /\ NewRow(call).locked_until # Infinity
        BY ConstantsAssumption, NullsAssumption DEF NewRow, Row
    <2>3. job \in [Jobs -> Row] /\ \A j \in Jobs : ~Failed(j)
        BY <2>1, <2>2 DEF BacklogInit, Failed
    <2>4. Typed
        BY <2>1, <2>3, ConstantsAssumption DEF BacklogInit, Typed, TypeOK, WorkerShape, Active
    <2>5. HeldOnce /\ FailedExhausted
        BY <2>1, <2>3 DEF BacklogInit, HeldOnce, Active, FailedExhausted
    <2>6. Links
        BY <2>1
        DEF BacklogInit, Links, PrefixesDistinct, OutcomesReleased, OutcomesUnique,
            OrphansFresh, SnapshotFresh, HeldNotFailed, DeletesEarned, Held, Settling
    <2>. QED BY <2>4, <2>5, <2>6 DEF JobsInv
<1>2. [BacklogNext]_vars => [Next]_vars
    BY DEF BacklogNext, Next, PromptTick
<1>. QED BY <1>1, <1>2, JobsInvNext, PTL

\* What is promised of a backlog, where jobs are neither added nor administered:
\* every job has one owner at most, and leases are respected.
THEOREM BacklogSafe == BacklogSpec => []SingleOwner /\ LeaseRespected
<1>1. JobsInv => SingleOwner
    BY OneOwner
<1>2. [BacklogNext]_vars => [Next]_vars
    BY DEF BacklogNext, Next, PromptTick
<1>3. JobsInv /\ [Next]_vars =>
        [\A w \in Workers : \A r \in Held(w) :
            /\ Current(w, r)
            /\ Unexpired(job[r.id].locked_until)
            => Current(w, r)' \/ r \notin Held(w)']_vars
    BY LeaseStep DEF Current
<1>. QED BY <1>1, <1>2, <1>3, BacklogInvariance, PTL DEF BacklogSpec, LeaseRespected
=============================================================================
