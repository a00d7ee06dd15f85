------------------------------- MODULE Outbox -------------------------------
(***************************************************************************)
(* The transactional outbox of package outbox: the table outbox_messages   *)
(* and the relays that deliver its messages to the handlers registered for *)
(* the event type (outbox/outbox.go).                                      *)
(*                                                                         *)
(* The relay leases, renews and settles messages the way the jobs worker   *)
(* does, with three differences: a message has several handlers, settled   *)
(* messages stay in the table, and stopping the renewal waits for a        *)
(* renewal that is under way instead of abandoning it.                     *)
(*                                                                         *)
(* Statements and time are modelled as in Jobs: a statement is atomic, one *)
(* that its caller gave up on may be executed later (`orphans'), and       *)
(* process_after and locked_until hold the time left, 0 once it has come.  *)
(***************************************************************************)
EXTENDS Integers, FiniteSets, Sequences

CONSTANTS
    Messages,            \* primary keys of outbox_messages
    Handlers,
    HandlersFor,         \* Registry.HandlersFor, frozen when the relay starts
    Relays,              \* relay processes
    Tokens,              \* claim prefixes (UUIDs)
    BatchSize,           \* RelayConfig.BatchSize
    LeaseDuration,       \* RelayConfig.LeaseDuration, in ticks
    Calls,               \* the calls of Enqueue producers make
    Backoffs,            \* the waits backoff() may return, in ticks
    MaxFaults,           \* bound: shutdowns, crashes and lost statements
    NULL,                \* SQL NULL
    NoRow                \* there is no row with this primary key

Row == [processed : BOOLEAN, failed : BOOLEAN, occurred_at : Nat,
        process_after : Nat, attempt : Nat, max_attempts : Nat \ {0},
        locked_until : Nat, claim_token : Tokens \cup {NULL}]

\* outboxRow: what RETURNING hands to the relay; claim_token is prefix[w].
OutboxRow == [id : Messages, attempt : Nat, max_attempts : Nat]

Statement == [kind : {"renew", "processed", "failed", "retry"}, id : Messages,
              claim_token : Tokens, attempt : Nat, delay : Nat]

ASSUME ConstantsAssumption ==
    /\ HandlersFor \in [Messages -> Seq(Handlers)]
    /\ BatchSize \in Nat \ {0}
    /\ LeaseDuration \in Nat \ {0}
    /\ Calls \subseteq [id : Messages, occurred_at : Nat, process_after : Nat,
                        max_attempts : Int]
    /\ Backoffs \subseteq Nat
    /\ MaxFaults \in Nat

ASSUME NullsAssumption == NULL \notin Tokens /\ NoRow \notin Row /\ NoRow \notin OutboxRow

VARIABLES
    msg,        \* the table: a Row or NoRow for every primary key
    pc,         \* where each relay is: poll, deliver, record, exited
    prefix,     \* claimPrefix of the batch being processed
    batch,      \* rows of the batch whose turn has not come
    cur,        \* the row being delivered or recorded
    called,     \* how many handlers of cur have returned
    result,     \* whether one of them failed, or there is none
    renewal,    \* the renewal goroutine: off, waiting, sent or gone
    cancelled,  \* handlerCtx has been cancelled
    ctxDone,    \* the context given to Run has been cancelled
    orphans,    \* statements nobody waits for that may still be executed
    faults,     \* disturbances left
    got         \* history: the handlers that completed each message

relayVars == <<pc, prefix, batch, cur, called, result, renewal, cancelled, ctxDone>>
vars == <<msg, relayVars, orphans, faults, got>>

TypeOK ==
    /\ msg \in [Messages -> Row \cup {NoRow}]
    /\ pc \in [Relays -> {"poll", "deliver", "record", "exited"}]
    /\ prefix \in [Relays -> Tokens \cup {NULL}]
    /\ batch \in [Relays -> SUBSET OutboxRow]
    /\ cur \in [Relays -> OutboxRow \cup {NoRow}]
    /\ called \in [Relays -> Nat]
    /\ result \in [Relays -> {"ok", "err"}]
    /\ renewal \in [Relays -> {"off", "waiting", "sent", "gone"}]
    /\ cancelled \in [Relays -> BOOLEAN]
    /\ ctxDone \in [Relays -> BOOLEAN]
    /\ orphans \in SUBSET Statement
    /\ faults \in Nat
    /\ got \in [Messages -> SUBSET Handlers]

RelaysInit ==
    /\ pc = [w \in Relays |-> "poll"]
    /\ prefix = [w \in Relays |-> NULL]
    /\ batch = [w \in Relays |-> {}]
    /\ cur = [w \in Relays |-> NoRow]
    /\ called = [w \in Relays |-> 0]
    /\ result = [w \in Relays |-> "ok"]
    /\ renewal = [w \in Relays |-> "off"]
    /\ cancelled = [w \in Relays |-> FALSE]
    /\ ctxDone = [w \in Relays |-> FALSE]
    /\ orphans = {}
    /\ faults = MaxFaults
    /\ got = [m \in Messages |-> {}]

Init == RelaysInit /\ msg = [m \in Messages |-> NoRow]

-----------------------------------------------------------------------------
(* The statements.                                                         *)

Exists(m) == msg[m] # NoRow

\* Faulty: the WHERE clause forgets the claim token.
MatchesById(s) == Exists(s.id) /\ (s.kind = "renew" => msg[s.id].locked_until > 0)

\* The WHERE clause: id and claim_token, and for a renewal an unexpired lease.
Matches(s) ==
    /\ Exists(s.id)
    /\ msg[s.id].claim_token = s.claim_token
    /\ s.kind = "renew" => msg[s.id].locked_until > 0

\* The row s leaves behind when it matches r.
Effect(s, r) ==
    CASE s.kind = "renew"     -> [r EXCEPT !.process_after = LeaseDuration,
                                           !.locked_until = LeaseDuration]
      [] s.kind = "processed" -> [r EXCEPT !.processed = TRUE]
      [] s.kind = "failed"    -> [r EXCEPT !.failed = TRUE, !.attempt = s.attempt]
      [] s.kind = "retry"     -> [r EXCEPT !.attempt = s.attempt,
                                           !.process_after = s.delay,
                                           !.locked_until = 0,
                                           !.claim_token = NULL]

Exec(s) ==
    msg' = IF Matches(s) THEN [msg EXCEPT ![s.id] = Effect(s, @)] ELSE msg

RenewStmt(w) ==
    [kind |-> "renew", id |-> cur[w].id, claim_token |-> prefix[w],
     attempt |-> 0, delay |-> 0]

\* The statement that records the outcome of cur[w]; d is the backoff.
OutcomeStmt(w, d) ==
    LET nextAttempt == cur[w].attempt + 1 IN
    [kind |-> CASE result[w] = "ok" -> "processed"
                [] result[w] # "ok" /\ nextAttempt >= cur[w].max_attempts -> "failed"
                [] OTHER -> "retry",
     id |-> cur[w].id, claim_token |-> prefix[w],
     attempt |-> nextAttempt, delay |-> d]

\* The statements relay w has sent, or is about to send, and waits for.
InFlight(w) ==
    CASE renewal[w] = "sent" -> {RenewStmt(w)}
      [] pc[w] = "record" /\ ~ctxDone[w] -> {OutcomeStmt(w, d) : d \in Backoffs}
      [] OTHER -> {}

\* w stops waiting: its statement is lost, or will be executed later.
Abandon(w) == orphans' \in {orphans} \cup {orphans \cup {s} : s \in InFlight(w)}

-----------------------------------------------------------------------------
(* Enqueueing and a relay.                                                 *)

NewRow(call) ==
    [processed |-> FALSE, failed |-> FALSE, occurred_at |-> call.occurred_at,
     process_after |-> call.process_after, attempt |-> 0,
     max_attempts |-> call.max_attempts, locked_until |-> 0, claim_token |-> NULL]

\* Faulty: WithMaxAttempts accepts any number.
EnqueueUnchecked(call) ==
    /\ ~Exists(call.id)
    /\ msg' = [msg EXCEPT ![call.id] = NewRow(call)]
    /\ UNCHANGED <<relayVars, orphans, faults, got>>

\* Enqueue, in a transaction that commits.  A duplicate id and a non-positive
\* number of attempts are errors.
Enqueue(call) ==
    /\ call.max_attempts > 0
    /\ ~Exists(call.id)
    /\ msg' = [msg EXCEPT ![call.id] = NewRow(call)]
    /\ UNCHANGED <<relayVars, orphans, faults, got>>

\* Faulty: a lease that ran out is not taken over.
ClaimableUnclaimed(m) ==
    /\ Exists(m)
    /\ msg[m].claim_token = NULL
    /\ msg[m].process_after = 0

Claimable(m) ==
    /\ Exists(m)
    /\ ~msg[m].processed
    /\ ~msg[m].failed
    /\ msg[m].process_after = 0
    /\ msg[m].locked_until = 0

\* Rows another statement may be holding a lock on; SKIP LOCKED passes them by.
Contended == {s.id : s \in UNION {InFlight(w) : w \in Relays} \cup orphans}

\* ORDER BY occurred_at LIMIT BatchSize over the rows that are not skipped.
ClaimSets ==
    LET Due == {m \in Messages : Claimable(m)} IN
    {S \in SUBSET Due :
        \E skipped \in SUBSET (Due \cap Contended) :
            LET Rows == Due \ skipped IN
            /\ S \subseteq Rows
            /\ Cardinality(S) = BatchSize \/ (S = Rows /\ Cardinality(S) < BatchSize)
            /\ \A m \in S, n \in Rows \ S : msg[m].occurred_at <= msg[n].occurred_at}

\* A claim prefix is a new UUID; one that nobody holds any longer is as good.
LivePrefixes ==
    {msg[m].claim_token : m \in {n \in Messages : Exists(n)}}
        \cup {prefix[w] : w \in Relays} \cup {s.claim_token : s \in orphans}
FreshPrefix == CHOOSE p \in Tokens : p \notin LivePrefixes

Stamp(S, p) ==
    msg' = [m \in Messages |-> IF m \in S
                               THEN [msg[m] EXCEPT !.process_after = LeaseDuration,
                                                   !.locked_until = LeaseDuration,
                                                   !.claim_token = p]
                               ELSE msg[m]]

Returned(S) ==
    {[id |-> m, attempt |-> msg[m].attempt, max_attempts |-> msg[m].max_attempts] :
        m \in S}

\* Relay w turns to row r of its batch, with rest still to come.
Take(w, r, rest) ==
    /\ pc' = [pc EXCEPT ![w] = "deliver"]
    /\ cur' = [cur EXCEPT ![w] = r]
    /\ batch' = [batch EXCEPT ![w] = rest]
    /\ called' = [called EXCEPT ![w] = 0]
    /\ result' = [result EXCEPT ![w] = IF HandlersFor[r.id] = <<>> THEN "err" ELSE "ok"]
    /\ renewal' = [renewal EXCEPT ![w] = IF ctxDone[w] THEN "gone" ELSE "waiting"]
    /\ cancelled' = [cancelled EXCEPT ![w] = ctxDone[w]]

\* The relay is at p with nothing claimed.
Idle(w, p) ==
    /\ pc' = [pc EXCEPT ![w] = p]
    /\ cur' = [cur EXCEPT ![w] = NoRow]
    /\ batch' = [batch EXCEPT ![w] = {}]
    /\ prefix' = [prefix EXCEPT ![w] = NULL]
    /\ called' = [called EXCEPT ![w] = 0]
    /\ result' = [result EXCEPT ![w] = "ok"]
    /\ renewal' = [renewal EXCEPT ![w] = "off"]
    /\ cancelled' = [cancelled EXCEPT ![w] = FALSE]

Claim(w) ==
    /\ pc[w] = "poll"
    /\ ~ctxDone[w]
    /\ Tokens \ LivePrefixes # {}
    /\ \E S \in ClaimSets : \E r \in Returned(S) :
        /\ Stamp(S, FreshPrefix)
        /\ Take(w, r, Returned(S) \ {r})
    /\ prefix' = [prefix EXCEPT ![w] = FreshPrefix]
    /\ UNCHANGED <<ctxDone, orphans, faults, got>>

\* The claim is executed, but its rows do not reach the relay.
ClaimLost(w) ==
    /\ pc[w] = "poll"
    /\ ~ctxDone[w]
    /\ faults > 0
    /\ Tokens \ LivePrefixes # {}
    /\ \E S \in ClaimSets \ {{}} : Stamp(S, FreshPrefix)
    /\ faults' = faults - 1
    /\ UNCHANGED <<relayVars, orphans, got>>

RenewSend(w) ==
    /\ renewal[w] = "waiting"
    /\ renewal' = [renewal EXCEPT ![w] = "sent"]
    /\ UNCHANGED <<msg, pc, prefix, batch, cur, called, result, cancelled, ctxDone,
                   orphans, faults, got>>

\* Faulty: the goroutine ends and the handlers go on.
OwnershipLostSilently(w) ==
    /\ renewal' = [renewal EXCEPT ![w] = "gone"]
    /\ UNCHANGED cancelled

OwnershipLost(w) ==
    /\ renewal' = [renewal EXCEPT ![w] = "gone"]
    /\ cancelled' = [cancelled EXCEPT ![w] = TRUE]

\* The renewal is executed; if it touched no row, ownership is lost.
RenewReply(w) ==
    /\ renewal[w] = "sent"
    /\ Exec(RenewStmt(w))
    /\ \/ /\ Matches(RenewStmt(w))
          /\ renewal' = [renewal EXCEPT ![w] = "waiting"]
          /\ UNCHANGED cancelled
       \/ /\ ~Matches(RenewStmt(w))
          /\ OwnershipLost(w)
    /\ UNCHANGED <<pc, prefix, batch, cur, called, result, ctxDone, orphans, faults, got>>

\* The renewal fails; the goroutine waits for its next tick.
RenewError(w) ==
    /\ renewal[w] = "sent"
    /\ faults > 0
    /\ renewal' = [renewal EXCEPT ![w] = "waiting"]
    /\ Abandon(w)
    /\ faults' = faults - 1
    /\ UNCHANGED <<msg, pc, prefix, batch, cur, called, result, cancelled, ctxDone, got>>

\* The next handler of the message returns, fails or panics.
HandlerCalled(w, res, verdict) ==
    /\ pc[w] = "deliver"
    /\ called[w] < Len(HandlersFor[cur[w].id])
    /\ called' = [called EXCEPT ![w] = @ + 1]
    /\ got' = IF res = "ok"
              THEN [got EXCEPT ![cur[w].id] = @ \cup {HandlersFor[cur[w].id][called[w] + 1]}]
              ELSE got
    /\ result' = [result EXCEPT ![w] = verdict]
    /\ UNCHANGED <<msg, pc, prefix, batch, cur, renewal, cancelled, ctxDone,
                   orphans, faults>>

\* Faulty: the error of the last handler is the error of the delivery.
CallHandlerLastError(w, res) == HandlerCalled(w, res, res)

\* One error fails the delivery; the handlers after it are called all the same.
CallHandler(w, res) == HandlerCalled(w, res, IF res = "ok" THEN result[w] ELSE "err")

\* Every handler has been called and stop() returns.
Stopped(w) ==
    /\ pc[w] = "deliver"
    /\ called[w] = Len(HandlersFor[cur[w].id])
    /\ pc' = [pc EXCEPT ![w] = "record"]
    /\ renewal' = [renewal EXCEPT ![w] = "off"]
    /\ UNCHANGED <<msg, prefix, batch, cur, called, result, cancelled, ctxDone,
                   faults, got>>

\* Faulty: gives up on the renewal that is under way, as package jobs does.
StopRenewalAbandons(w) == Stopped(w) /\ Abandon(w)

\* Faulty: waits for a goroutine that signals `done' only when told to stop.
StopRenewalHangs(w) == renewal[w] = "waiting" /\ Stopped(w) /\ UNCHANGED orphans

\* stop() waits for a renewal that is under way.
StopRenewal(w) == renewal[w] # "sent" /\ Stopped(w) /\ UNCHANGED orphans

\* After an outcome: the next row of the batch, or back to polling.
Advance(w) ==
    \/ /\ \E r \in batch[w] : Take(w, r, batch[w] \ {r})
       /\ UNCHANGED prefix
    \/ /\ batch[w] = {}
       /\ Idle(w, "poll")

\* The outcome is executed; zero rows means the claim was lost, which is only
\* logged.  Under a cancelled context the statement is not sent at all.
Record(w) ==
    /\ pc[w] = "record"
    /\ IF ctxDone[w] THEN UNCHANGED msg
       ELSE \E d \in Backoffs : Exec(OutcomeStmt(w, d))
    /\ Advance(w)
    /\ UNCHANGED <<ctxDone, orphans, faults, got>>

\* The statement that records the outcome fails; the error is only logged.
RecordError(w) ==
    /\ pc[w] = "record"
    /\ ~ctxDone[w]
    /\ faults > 0
    /\ Abandon(w)
    /\ Advance(w)
    /\ faults' = faults - 1
    /\ UNCHANGED <<msg, ctxDone, got>>

\* Run returns: polling, with its context cancelled.
Exit(w) ==
    /\ pc[w] = "poll"
    /\ ctxDone[w]
    /\ Idle(w, "exited")
    /\ UNCHANGED <<msg, ctxDone, orphans, faults, got>>

-----------------------------------------------------------------------------
(* The environment.                                                        *)

\* The context of Run is cancelled, and with it the handlers' and whatever
\* statement is under way ("the parent still bounds the query").
Cancel(w) ==
    /\ pc[w] # "exited"
    /\ ~ctxDone[w]
    /\ faults > 0
    /\ ctxDone' = [ctxDone EXCEPT ![w] = TRUE]
    /\ cancelled' = [cancelled EXCEPT ![w] = pc[w] \in {"deliver", "record"}]
    /\ renewal' = [renewal EXCEPT ![w] = IF pc[w] = "deliver" THEN "gone" ELSE "off"]
    /\ Abandon(w)
    /\ faults' = faults - 1
    /\ UNCHANGED <<msg, pc, prefix, batch, cur, called, result, got>>

\* The process dies at any point.
Crash(w) ==
    /\ pc[w] # "exited"
    /\ faults > 0
    /\ Idle(w, "exited")
    /\ Abandon(w)
    /\ faults' = faults - 1
    /\ UNCHANGED <<msg, ctxDone, got>>

\* A new process takes the place of one that exited or died.
Restart(w) ==
    /\ pc[w] = "exited"
    /\ Idle(w, "poll")
    /\ ctxDone' = [ctxDone EXCEPT ![w] = FALSE]
    /\ UNCHANGED <<msg, orphans, faults, got>>

\* The server executes a statement nobody waits for.
OrphanLands(s) ==
    /\ s \in orphans
    /\ Exec(s)
    /\ orphans' = orphans \ {s}
    /\ UNCHANGED <<relayVars, faults, got>>

Aged(r) ==
    IF r = NoRow THEN r
    ELSE [r EXCEPT !.process_after = IF @ = 0 THEN 0 ELSE @ - 1,
                   !.locked_until = IF @ = 0 THEN 0 ELSE @ - 1]

Tick ==
    /\ \E m \in Messages : Aged(msg[m]) # msg[m]
    /\ msg' = [m \in Messages |-> Aged(msg[m])]
    /\ UNCHANGED <<relayVars, orphans, faults, got>>

RelayStep(w) ==
    \/ Claim(w)
    \/ RenewSend(w)
    \/ RenewReply(w)
    \/ \E res \in {"ok", "err"} : CallHandler(w, res)
    \/ StopRenewal(w)
    \/ Record(w)
    \/ Exit(w)

Disturbance(w) ==
    \/ ClaimLost(w)
    \/ RenewError(w)
    \/ RecordError(w)
    \/ Cancel(w)
    \/ Crash(w)

Next ==
    \/ \E w \in Relays : RelayStep(w) \/ Disturbance(w) \/ Restart(w)
    \/ \E s \in orphans : OrphanLands(s)
    \/ \E call \in Calls : Enqueue(call)
    \/ Tick

Spec == Init /\ [][Next]_vars

-----------------------------------------------------------------------------
(* Safety.                                                                 *)

\* The outbox as a leased queue.  A message is delivered once every handler
\* registered for it has completed it, in one delivery or over several.
Phase(m) ==
    CASE ~Exists(m) -> "absent"
      [] Exists(m) /\ msg[m].processed -> "done"
      [] Exists(m) /\ msg[m].failed /\ ~msg[m].processed -> "dead"
      [] OTHER -> "waiting"

Delivered(m) ==
    /\ HandlersFor[m] # <<>>
    /\ \A i \in 1..Len(HandlersFor[m]) : HandlersFor[m][i] \in got[m]

LQ == INSTANCE LeasedQueue WITH
        Items <- Messages,
        phase <- [m \in Messages |-> Phase(m)],
        tries <- [m \in Messages |-> IF Exists(m) THEN msg[m].attempt ELSE 0],
        limit <- [m \in Messages |-> IF Exists(m) THEN msg[m].max_attempts ELSE 0],
        delivered <- [m \in Messages |-> Delivered(m)]

\* Whatever relays, leases, crashes and late statements do, the outbox behaves
\* as a leased queue: processed_at is set only after every handler completed
\* the message, failures are counted one by one up to max_attempts, and a
\* message once processed or failed stays as it is.
ImplementsLeasedQueue == LQ!Spec

\* Relay w holds row r under the claim token that is in the table.
Current(w, r) == Exists(r.id) /\ msg[r.id].claim_token = prefix[w]

Held(w) ==
    batch[w] \cup (IF pc[w] = "deliver" \/ (pc[w] = "record" /\ ~ctxDone[w])
                   THEN {cur[w]} ELSE {})

\* The attempt count the relay compares with max_attempts, and will write back
\* plus one, is still the one in the table as long as its claim is.
SnapshotFresh ==
    \A w \in Relays : \A r \in Held(w) :
        Current(w, r) => /\ msg[r.id].attempt = r.attempt
                         /\ msg[r.id].max_attempts = r.max_attempts
                         /\ ~msg[r.id].processed
                         /\ ~msg[r.id].failed

\* No renewal changes a lease once stop has returned ("allowing the lease to
\* change after stop returns", startLeaseRenewal), as long as no statement was
\* lost and no relay stopped or died: a lease grows only by a claim, or by the
\* renewal of a relay that is still delivering the message.
LeaseStillAfterStop ==
    [][\A m \in Messages :
            /\ faults = MaxFaults
            /\ Exists(m)
            /\ msg'[m].locked_until > msg[m].locked_until
            => \/ Claimable(m)
               \/ \E w \in Relays : pc[w] = "deliver" /\ cur[w].id = m /\ Current(w, cur[w])]_vars

-----------------------------------------------------------------------------
(* Liveness, for messages that are already in the table and nothing added. *)

BacklogInit ==
    /\ RelaysInit
    /\ msg \in [Messages -> {NewRow(call) : call \in Calls}]
    /\ \A m \in Messages : \E call \in Calls : call.id = m /\ call.max_attempts > 0 /\ msg[m] = NewRow(call)

\* leaseRenewalInterval is shorter than the lease: as long as a renewal is
\* answered in the time that is left, the lease of the message being delivered
\* does not run out under a live renewal goroutine.
RenewedInTime(w) ==
    pc[w] \in {"deliver", "record"} /\ ~ctxDone[w] /\ renewal[w] # "gone"
        => (Current(w, cur[w]) => msg[cur[w].id].locked_until # 1)
PromptTick == (\A w \in Relays : RenewedInTime(w)) /\ Tick

BacklogNext ==
    \/ \E w \in Relays : RelayStep(w) \/ Disturbance(w) \/ Restart(w)
    \/ \E s \in orphans : OrphanLands(s)
    \/ PromptTick

\* Relays are scheduled, the database answers, time passes and the supervisor
\* restarts a relay that is gone.  StopRenewal is fair in the strong sense: when
\* the ticker and renewalCtx.Done() are both ready, select picks at random.
RelaysFair ==
    /\ \A w \in Relays :
        /\ WF_vars(Claim(w))
        /\ WF_vars(RenewSend(w))
        /\ WF_vars(RenewReply(w))
        /\ SF_vars(StopRenewal(w))
        /\ WF_vars(Record(w))
        /\ WF_vars(Exit(w))
        /\ WF_vars(Restart(w))
    /\ WF_vars(PromptTick)

HandlersReturn ==
    \A w \in Relays : WF_vars(\E res \in {"ok", "err"} : CallHandler(w, res))

\* Handlers may hang.
BacklogSpec == BacklogInit /\ [][BacklogNext]_vars /\ RelaysFair

\* Every message is eventually processed or given up, even when relays stop or
\* die, statements are lost and leases run out in a batch.
BacklogSettles == HandlersReturn => LQ!Settles

\* A relay told to stop gets through its batch and returns from Run.
ShutdownCompletes ==
    HandlersReturn => \A w \in Relays : ctxDone[w] ~> pc[w] = "exited"

\* The handlers of a message that another relay has taken over have their
\* context cancelled, even if they never return by themselves.
LostLeaseCancels ==
    \A w \in Relays :
        pc[w] = "deliver" /\ ~Current(w, cur[w]) ~> cancelled[w] \/ pc[w] # "deliver"
=============================================================================
