---------------------------- MODULE OutboxProofs ----------------------------
(***************************************************************************)
(* Proofs about Outbox for any number of messages, handlers, relays,       *)
(* attempts and faults: its invariants, that no renewal outlives stop,     *)
(* that the outbox implements LeasedQueue, that a lease has one holder who *)
(* is left alone, and the same for relays that start on a backlog.         *)
(*                                                                         *)
(* The argument is the one of JobsProofs (a claim token is held by one     *)
(* relay, an outcome is computed from the row it will hit), with two       *)
(* differences: a settled message keeps its row and its claim token, and   *)
(* what makes a "processed" statement right is a history of handler calls  *)
(* that may span several deliveries.                                       *)
(***************************************************************************)
EXTENDS Outbox, SequenceTheorems, TLAPS

-----------------------------------------------------------------------------
(* The inductive invariant.                                                *)

Active(w) == pc[w] \in {"deliver", "record"}

\* What the program counter says about the rest of a relay's state.
RelayShape ==
    \A w \in Relays :
        /\ Active(w) => prefix[w] \in Tokens /\ cur[w] \in OutboxRow
        /\ ~Active(w) => batch[w] = {}
        /\ renewal[w] # "off" => pc[w] = "deliver"

Typed == TypeOK /\ RelayShape

\* A disturbance is paid for: without one no statement is abandoned.
FaultsSpent ==
    /\ faults <= MaxFaults
    /\ faults = MaxFaults => orphans = {}

\* The message is in the table and not settled.
Open(m) == Exists(m) /\ ~msg[m].processed /\ ~msg[m].failed

\* An unsettled message has an attempt left.
OpenBelowLimit == \A m \in Messages : Open(m) => msg[m].attempt < msg[m].max_attempts

\* The first n handlers of message m have completed it.
CompletedUpTo(m, n) == \A i \in 1..n : HandlersFor[m][i] \in got[m]

\* A delivery that has not failed so far has been completed by every handler
\* called so far, and it is recorded once they all were called.
Delivery(w) ==
    /\ \A r \in batch[w] : Exists(r.id)
    /\ Active(w) => /\ Exists(cur[w].id)
                    /\ called[w] <= Len(HandlersFor[cur[w].id])
    /\ Active(w) /\ result[w] = "ok" => /\ HandlersFor[cur[w].id] # <<>>
                                        /\ CompletedUpTo(cur[w].id, called[w])
    /\ pc[w] = "record" => called[w] = Len(HandlersFor[cur[w].id])

Deliveries == \A w \in Relays : Delivery(w)

\* A relay holds a message once.
HeldOnce ==
    \A w \in Relays :
        /\ \A r, q \in batch[w] : r.id = q.id => r = q
        /\ Active(w) => \A r \in batch[w] : r.id # cur[w].id

\* Two relays never hold the same claim prefix.
PrefixesDistinct ==
    \A v, w \in Relays : prefix[v] = prefix[w] /\ prefix[v] # NULL => v = w

\* A relay that abandoned the outcome of a message is through with it.
OutcomesReleased ==
    \A s \in orphans : s.kind # "renew" =>
        \A w \in Relays : prefix[w] = s.claim_token =>
            \A r \in Held(w) : r.id # s.id

\* A claim of a message yields one outcome at most.
OutcomesUnique ==
    \A s, t \in orphans :
        /\ s.kind # "renew" /\ t.kind # "renew"
        /\ s.id = t.id /\ s.claim_token = t.claim_token
        => s = t

\* Statement s carries the claim token that is in the table.
Hits(s) == Exists(s.id) /\ msg[s.id].claim_token = s.claim_token

\* Outcome s is the right one for the row as it is.
Right(s) ==
    /\ Open(s.id)
    /\ s.attempt = msg[s.id].attempt + 1
    /\ s.kind = "processed" => Delivered(s.id)
    /\ s.kind = "failed" => s.attempt >= msg[s.id].max_attempts
    /\ s.kind = "retry" => s.attempt < msg[s.id].max_attempts

\* An abandoned outcome that can still take effect is right.
OrphansRight == \A s \in orphans : s.kind # "renew" /\ Hits(s) => Right(s)

Links ==
    /\ PrefixesDistinct
    /\ OutcomesReleased
    /\ OutcomesUnique
    /\ OrphansRight
    /\ SnapshotFresh

OutboxInv ==
    /\ Typed
    /\ FaultsSpent
    /\ OpenBelowLimit
    /\ Deliveries
    /\ HeldOnce
    /\ Links

-----------------------------------------------------------------------------
(* Types.                                                                  *)

\* A matched row stays well typed, and what each kind of statement changes.
LEMMA EffectRow ==
    ASSUME NEW s \in Statement, NEW r \in Row
    PROVE  /\ Effect(s, r) \in Row
           /\ Effect(s, r).max_attempts = r.max_attempts
           /\ s.kind = "renew" => /\ Effect(s, r).attempt = r.attempt
                                  /\ Effect(s, r).processed = r.processed
                                  /\ Effect(s, r).failed = r.failed
                                  /\ Effect(s, r).claim_token = r.claim_token
           /\ s.kind = "processed" => /\ Effect(s, r).attempt = r.attempt
                                      /\ Effect(s, r).processed
                                      /\ Effect(s, r).failed = r.failed
                                      /\ Effect(s, r).claim_token = r.claim_token
           /\ s.kind = "failed" => /\ Effect(s, r).attempt = s.attempt
                                   /\ Effect(s, r).processed = r.processed
                                   /\ Effect(s, r).failed
                                   /\ Effect(s, r).claim_token = r.claim_token
           /\ s.kind = "retry" => /\ Effect(s, r).attempt = s.attempt
                                  /\ Effect(s, r).processed = r.processed
                                  /\ Effect(s, r).failed = r.failed
                                  /\ Effect(s, r).claim_token = NULL
           /\ s.kind # "renew" => Effect(s, r).locked_until \in {0, r.locked_until}
<1>1. CASE s.kind = "renew"
    <2>1. Effect(s, r) = [r EXCEPT !.process_after = LeaseDuration,
                                   !.locked_until = LeaseDuration]
        BY <1>1 DEF Effect
    <2>. QED BY <1>1, <2>1, ConstantsAssumption DEF Row
<1>2. CASE s.kind = "processed"
    <2>1. Effect(s, r) = [r EXCEPT !.processed = TRUE]
        BY <1>2 DEF Effect
    <2>. QED BY <1>2, <2>1 DEF Row
<1>3. CASE s.kind = "failed"
    <2>1. Effect(s, r) = [r EXCEPT !.failed = TRUE, !.attempt = s.attempt]
        BY <1>3 DEF Effect
    <2>. QED BY <1>3, <2>1 DEF Row, Statement
<1>4. CASE s.kind = "retry"
    <2>1. Effect(s, r) = [r EXCEPT !.attempt = s.attempt, !.process_after = s.delay,
                                   !.locked_until = 0, !.claim_token = NULL]
        BY <1>4 DEF Effect
    <2>2. s.attempt \in Nat /\ s.delay \in Nat
        BY DEF Statement
    <2>. DEFINE q == [r EXCEPT !.attempt = s.attempt, !.process_after = s.delay]
    <2>3. q \in Row
        BY <2>2 DEF Row
    <2>4. [q EXCEPT !.locked_until = 0, !.claim_token = NULL] \in Row
        BY <2>3 DEF Row
    <2>5. Effect(s, r) \in Row
        BY <2>1, <2>4
    <2>6. /\ Effect(s, r).attempt = s.attempt
          /\ Effect(s, r).max_attempts = r.max_attempts
          /\ Effect(s, r).processed = r.processed
          /\ Effect(s, r).failed = r.failed
          /\ Effect(s, r).claim_token = NULL
          /\ Effect(s, r).locked_until = 0
        BY <2>1 DEF Row
    <2>. QED BY <1>4, <2>5, <2>6
<1>. QED BY <1>1, <1>2, <1>3, <1>4 DEF Statement

\* What a statement does to the table is well typed.
LEMMA ExecType ==
    ASSUME TypeOK, NEW s \in Statement, Exec(s)
    PROVE  msg' \in [Messages -> Row \cup {NoRow}]
<1>1. CASE ~Matches(s)
    BY <1>1 DEF Exec, TypeOK
<1>2. CASE Matches(s)
    <2>1. msg[s.id] \in Row /\ s.id \in Messages
        BY <1>2 DEF Matches, Exists, TypeOK, Statement
    <2>2. Effect(s, msg[s.id]) \in Row
        BY <2>1, EffectRow
    <2>. QED BY <1>2, <2>1, <2>2 DEF Exec, TypeOK
<1>. QED BY <1>1, <1>2

\* The statements a relay waits for are well typed.
LEMMA RenewType ==
    ASSUME Typed, NEW w \in Relays, renewal[w] = "sent"
    PROVE  RenewStmt(w) \in Statement
BY DEF Typed, TypeOK, RelayShape, Active, RenewStmt, Statement, OutboxRow

LEMMA OutcomeType ==
    ASSUME Typed, NEW w \in Relays, pc[w] = "record", NEW d \in Backoffs
    PROVE  OutcomeStmt(w, d) \in Statement
BY ConstantsAssumption
DEF Typed, TypeOK, RelayShape, Active, OutcomeStmt, Statement, OutboxRow

LEMMA InFlightType ==
    ASSUME Typed, NEW w \in Relays
    PROVE  InFlight(w) \subseteq Statement
BY RenewType, OutcomeType DEF InFlight

LEMMA AbandonType ==
    ASSUME Typed, NEW w \in Relays, Abandon(w)
    PROVE  orphans' \in SUBSET Statement
BY InFlightType DEF Abandon, Typed, TypeOK

\* A claim leases rows that are open and returns what is in them.
LEMMA StampedRows ==
    ASSUME TypeOK, NEW S \in ClaimSets, NEW p \in Tokens, Stamp(S, p)
    PROVE  /\ S \subseteq Messages
           /\ msg' \in [Messages -> Row \cup {NoRow}]
           /\ Returned(S) \subseteq OutboxRow
           /\ \A m \in Messages \ S : msg'[m] = msg[m]
           /\ \A m \in S : /\ Claimable(m) /\ Exists(m) /\ Exists(m)'
                           /\ msg'[m].claim_token = p
                           /\ msg'[m].attempt = msg[m].attempt
                           /\ msg'[m].max_attempts = msg[m].max_attempts
                           /\ msg'[m].processed = msg[m].processed
                           /\ msg'[m].failed = msg[m].failed
<1>1. S \subseteq Messages /\ \A m \in S : msg[m] \in Row /\ Exists(m) /\ Claimable(m)
    BY DEF ClaimSets, Claimable, Exists, TypeOK
<1>2. \A m \in Messages \ S : msg'[m] = msg[m]
    BY DEF Stamp
<1>3. ASSUME NEW m \in S
      PROVE  /\ msg'[m] \in Row
             /\ msg'[m].claim_token = p
             /\ msg'[m].attempt = msg[m].attempt
             /\ msg'[m].max_attempts = msg[m].max_attempts
             /\ msg'[m].processed = msg[m].processed
             /\ msg'[m].failed = msg[m].failed
    <2>1. msg'[m] = [msg[m] EXCEPT !.process_after = LeaseDuration,
                                   !.locked_until = LeaseDuration, !.claim_token = p]
        BY <1>1 DEF Stamp
    <2>2. msg[m] \in Row /\ LeaseDuration \in Nat
        BY <1>1, ConstantsAssumption
    <2>. QED BY <2>1, <2>2 DEF Row
<1>4. msg' \in [Messages -> Row \cup {NoRow}]
    <2>1. msg' = [m \in Messages |-> msg'[m]]
        BY DEF Stamp
    <2>2. \A m \in Messages : msg'[m] \in Row \cup {NoRow}
        BY <1>2, <1>3 DEF TypeOK
    <2>. QED BY <2>1, <2>2
<1>5. Returned(S) \subseteq OutboxRow
    BY <1>1 DEF Returned, OutboxRow, Row
<1>. QED BY <1>1, <1>2, <1>3, <1>4, <1>5, NullsAssumption DEF Exists

\* Time passing leaves a row well typed and touches nothing but its times,
\* which never grow.
LEMMA AgedRow ==
    ASSUME NEW r \in Row
    PROVE  /\ Aged(r) \in Row
           /\ Aged(r).attempt = r.attempt /\ Aged(r).max_attempts = r.max_attempts
           /\ Aged(r).processed = r.processed /\ Aged(r).failed = r.failed
           /\ Aged(r).claim_token = r.claim_token
           /\ Aged(r).locked_until <= r.locked_until
<1>. DEFINE after == IF r.process_after = 0 THEN 0 ELSE r.process_after - 1
            until == IF r.locked_until = 0 THEN 0 ELSE r.locked_until - 1
<1>1. after \in Nat /\ until \in Nat /\ until <= r.locked_until
    BY DEF Row
<1>2. Aged(r) = [r EXCEPT !.process_after = after, !.locked_until = until]
    BY NullsAssumption DEF Aged, Row
<1>. HIDE DEF after, until
<1>. QED BY <1>1, <1>2 DEF Row

LEMMA FreshToken ==
    ASSUME Tokens \ LivePrefixes # {}
    PROVE  FreshPrefix \in Tokens /\ FreshPrefix \notin LivePrefixes
BY DEF FreshPrefix

\* Enqueue inserts a well-typed row with all its attempts to come.
LEMMA NewRowType ==
    ASSUME NEW call \in Calls, call.max_attempts > 0
    PROVE  NewRow(call) \in Row /\ call.id \in Messages
BY ConstantsAssumption DEF NewRow, Row

\* Type correctness, together with the shape it needs, is inductive.
LEMMA TypedInit == Init => Typed
BY ConstantsAssumption, NullsAssumption
DEF Init, RelaysInit, Typed, TypeOK, RelayShape, Active

\* The part of Typed that is about the relays' own state.
RelaysTyped ==
    /\ pc \in [Relays -> {"poll", "deliver", "record", "exited"}]
    /\ prefix \in [Relays -> Tokens \cup {NULL}]
    /\ batch \in [Relays -> SUBSET OutboxRow]
    /\ cur \in [Relays -> OutboxRow \cup {NoRow}]
    /\ called \in [Relays -> Nat]
    /\ result \in [Relays -> {"ok", "err"}]
    /\ renewal \in [Relays -> {"off", "waiting", "sent", "gone"}]
    /\ cancelled \in [Relays -> BOOLEAN]
    /\ RelayShape

LEMMA IdleTyped ==
    ASSUME Typed, NEW w \in Relays, NEW p \in {"poll", "exited"}, Idle(w, p)
    PROVE  RelaysTyped'
BY DEF Typed, TypeOK, RelaysTyped, RelayShape, Active, Idle

LEMMA AdvanceTyped ==
    ASSUME Typed, NEW w \in Relays, pc[w] = "record", Advance(w)
    PROVE  RelaysTyped'
<1>1. CASE batch[w] = {} /\ Idle(w, "poll")
    BY <1>1, IdleTyped
<1>2. ASSUME NEW r \in batch[w], Take(w, r, batch[w] \ {r}), prefix' = prefix
      PROVE  RelaysTyped'
    BY <1>2 DEF Typed, TypeOK, RelaysTyped, RelayShape, Active, Take
<1>. QED BY <1>1, <1>2 DEF Advance

LEMMA TypedNext ==
    ASSUME Typed, [Next]_vars
    PROVE  Typed'
<1>a. /\ RelaysTyped
      /\ msg \in [Messages -> Row \cup {NoRow}]
      /\ ctxDone \in [Relays -> BOOLEAN]
      /\ orphans \in SUBSET Statement
      /\ faults \in Nat
      /\ got \in [Messages -> SUBSET Handlers]
    BY DEF Typed, TypeOK, RelaysTyped
<1>b. ASSUME RelaysTyped',
             msg' \in [Messages -> Row \cup {NoRow}],
             ctxDone' \in [Relays -> BOOLEAN],
             orphans' \in SUBSET Statement,
             faults' \in Nat,
             got' \in [Messages -> SUBSET Handlers]
      PROVE  Typed'
    BY <1>b DEF Typed, TypeOK, RelaysTyped
<1>. USE <1>a, <1>b
<1>1. ASSUME NEW w \in Relays, Claim(w)
      PROVE  Typed'
    <2>1. PICK S \in ClaimSets : \E r \in Returned(S) :
                /\ Stamp(S, FreshPrefix)
                /\ Take(w, r, Returned(S) \ {r})
        BY <1>1 DEF Claim
    <2>2. PICK r \in Returned(S) : Take(w, r, Returned(S) \ {r})
        BY <2>1
    <2>3. FreshPrefix \in Tokens
        BY <1>1, FreshToken DEF Claim
    <2>4. msg' \in [Messages -> Row \cup {NoRow}] /\ Returned(S) \subseteq OutboxRow
        BY <2>1, <2>3, StampedRows DEF Typed
    <2>5. RelaysTyped'
        BY <1>1, <2>2, <2>3, <2>4
        DEF Claim, Take, RelaysTyped, RelayShape, Active
    <2>. QED BY <1>1, <2>4, <2>5 DEF Claim
<1>2. ASSUME NEW w \in Relays, ClaimLost(w)
      PROVE  Typed'
    <2>1. PICK S \in ClaimSets : Stamp(S, FreshPrefix)
        BY <1>2 DEF ClaimLost
    <2>2. FreshPrefix \in Tokens
        BY <1>2, FreshToken DEF ClaimLost
    <2>3. msg' \in [Messages -> Row \cup {NoRow}]
        BY <2>1, <2>2, StampedRows DEF Typed
    <2>. QED BY <1>2, <2>3 DEF ClaimLost, relayVars, RelaysTyped, RelayShape, Active
<1>3. ASSUME NEW w \in Relays, RenewSend(w)
      PROVE  Typed'
    BY <1>3 DEF RenewSend, RelaysTyped, RelayShape, Active
<1>4. ASSUME NEW w \in Relays, RenewReply(w)
      PROVE  Typed'
    <2>1. RenewStmt(w) \in Statement
        BY <1>4, RenewType DEF RenewReply
    <2>2. msg' \in [Messages -> Row \cup {NoRow}]
        BY <1>4, <2>1, ExecType DEF RenewReply, Typed
    <2>. QED BY <1>4, <2>2 DEF RenewReply, OwnershipLost, RelaysTyped, RelayShape, Active
<1>5. ASSUME NEW w \in Relays, RenewError(w)
      PROVE  Typed'
    BY <1>5, AbandonType DEF RenewError, RelaysTyped, RelayShape, Active
<1>6. ASSUME NEW w \in Relays, NEW res \in {"ok", "err"}, CallHandler(w, res)
      PROVE  Typed'
    <2>. DEFINE m == cur[w].id
    <2>1. pc[w] = "deliver" /\ called[w] \in Nat /\ called[w] < Len(HandlersFor[m])
        BY <1>6 DEF CallHandler, HandlerCalled, RelaysTyped
    <2>2. m \in Messages
        BY <2>1 DEF RelaysTyped, RelayShape, Active, OutboxRow
    <2>3. HandlersFor[m] \in Seq(Handlers)
        BY <2>2, ConstantsAssumption
    <2>. HIDE DEF m
    <2>4. HandlersFor[m][called[w] + 1] \in Handlers
        BY <2>1, <2>3, ElementOfSeq
    <2>5. got' \in [Messages -> SUBSET Handlers]
        BY <1>6, <2>4 DEF CallHandler, HandlerCalled, m
    <2>6. RelaysTyped'
        BY <1>6 DEF CallHandler, HandlerCalled, RelaysTyped, RelayShape, Active
    <2>. QED BY <1>6, <2>5, <2>6 DEF CallHandler, HandlerCalled
<1>7. ASSUME NEW w \in Relays, StopRenewal(w)
      PROVE  Typed'
    BY <1>7 DEF StopRenewal, Stopped, RelaysTyped, RelayShape, Active
<1>8. ASSUME NEW w \in Relays, Record(w)
      PROVE  Typed'
    <2>1. RelaysTyped'
        BY <1>8, AdvanceTyped DEF Record
    <2>2. CASE ctxDone[w]
        BY <1>8, <2>1, <2>2 DEF Record
    <2>3. CASE ~ctxDone[w]
        <3>1. PICK d \in Backoffs : Exec(OutcomeStmt(w, d))
            BY <1>8, <2>3 DEF Record
        <3>2. OutcomeStmt(w, d) \in Statement
            BY <1>8, OutcomeType DEF Record
        <3>3. msg' \in [Messages -> Row \cup {NoRow}]
            BY <3>1, <3>2, ExecType DEF Typed
        <3>. QED BY <1>8, <2>1, <3>3 DEF Record
    <2>. QED BY <2>2, <2>3
<1>9. ASSUME NEW w \in Relays, RecordError(w)
      PROVE  Typed'
    BY <1>9, AdvanceTyped, AbandonType DEF RecordError
<1>10. ASSUME NEW w \in Relays, Exit(w)
       PROVE  Typed'
    BY <1>10, IdleTyped DEF Exit
<1>11. ASSUME NEW w \in Relays, Cancel(w)
       PROVE  Typed'
    <2>1. RelaysTyped'
        BY <1>11 DEF Cancel, RelaysTyped, RelayShape, Active
    <2>. QED BY <1>11, <2>1, AbandonType DEF Cancel
<1>12. ASSUME NEW w \in Relays, Crash(w)
       PROVE  Typed'
    BY <1>12, IdleTyped, AbandonType DEF Crash
<1>13. ASSUME NEW w \in Relays, Restart(w)
       PROVE  Typed'
    BY <1>13, IdleTyped DEF Restart
<1>14. ASSUME NEW s \in orphans, OrphanLands(s)
       PROVE  Typed'
    <2>1. msg' \in [Messages -> Row \cup {NoRow}]
        BY <1>14, ExecType DEF OrphanLands, Typed
    <2>. QED BY <1>14, <2>1 DEF OrphanLands, relayVars, RelaysTyped, RelayShape, Active
<1>15. ASSUME NEW call \in Calls, Enqueue(call)
       PROVE  Typed'
    <2>1. NewRow(call) \in Row /\ call.id \in Messages
        BY <1>15, NewRowType DEF Enqueue
    <2>. QED BY <1>15, <2>1 DEF Enqueue, relayVars, RelaysTyped, RelayShape, Active
<1>16. CASE Tick
    <2>1. \A r \in Row : Aged(r) \in Row
        BY AgedRow
    <2>2. Aged(NoRow) = NoRow
        BY DEF Aged
    <2>3. msg' \in [Messages -> Row \cup {NoRow}]
        BY <1>16, <2>1, <2>2 DEF Tick
    <2>. QED BY <1>16, <2>3 DEF Tick, relayVars, RelaysTyped, RelayShape, Active
<1>17. CASE UNCHANGED vars
    BY <1>17 DEF vars, relayVars, RelaysTyped, RelayShape, Active
<1>. QED
    BY <1>1, <1>2, <1>3, <1>4, <1>5, <1>6, <1>7, <1>8, <1>9, <1>10, <1>11, <1>12,
       <1>13, <1>14, <1>15, <1>16, <1>17
    DEF Next, RelayStep, Disturbance

\* Type correctness: every reachable state of the outbox and its relays is
\* well typed, whatever is lost, late or repeated.
THEOREM OutboxTypeCorrect == Spec => []TypeOK
<1>1. Typed => TypeOK
    BY DEF Typed
<1>. QED BY TypedInit, TypedNext, <1>1, PTL DEF Spec

-----------------------------------------------------------------------------
(* How a step may change who holds what, and the table.                    *)

\* No relay holds more than before.
Shrinks ==
    \A v \in Relays :
        /\ Held(v)' \subseteq Held(v)
        /\ prefix'[v] \in {prefix[v], NULL}
        /\ Held(v)' # {} => prefix'[v] = prefix[v]

\* The row keeps what the leased queue sees of it.
Same(m) ==
    /\ Exists(m) <=> Exists(m)'
    /\ Exists(m) => /\ msg'[m].attempt = msg[m].attempt
                    /\ msg'[m].max_attempts = msg[m].max_attempts
                    /\ msg'[m].processed = msg[m].processed
                    /\ msg'[m].failed = msg[m].failed

\* The row keeps what claims refer to.
Kept(m) == Exists(m) /\ Same(m) /\ msg'[m].claim_token = msg[m].claim_token

\* After the step, nobody can settle the row under the token it then has.
Loose(m) ==
    Exists(m)' =>
        /\ \A w \in Relays : \A r \in Held(w)' :
            r.id = m => prefix'[w] # msg'[m].claim_token
        /\ \A s \in orphans' :
            s.kind # "renew" /\ s.id = m => s.claim_token # msg'[m].claim_token

\* Outcome s may be abandoned: it is its claim's only one, and right.
Justified(s) ==
    /\ \A w \in Relays : prefix'[w] = s.claim_token =>
            \A r \in Held(w)' : r.id # s.id
    /\ \A t \in orphans' : t.kind # "renew" /\ t.id = s.id
                            /\ t.claim_token = s.claim_token => s = t
    /\ Hits(s)' => Right(s)'

\* Relay w is about to send an outcome.
Settling(w) == pc[w] = "record" /\ ~ctxDone[w]

\* What was delivered stays delivered.
Remembered == \A m \in Messages : Delivered(m) => Delivered(m)'

LEMMA HeldTyped ==
    ASSUME Typed, NEW w \in Relays, NEW r \in Held(w)
    PROVE  r \in OutboxRow /\ prefix[w] \in Tokens /\ prefix[w] # NULL
BY NullsAssumption DEF Typed, TypeOK, RelayShape, Active, Held

LEMMA SettlingHolds ==
    ASSUME NEW w \in Relays, Settling(w)
    PROVE  cur[w] \in Held(w)
BY DEF Settling, Held

LEMMA SameGot ==
    ASSUME got' = got
    PROVE  Remembered
BY DEF Remembered, Delivered

\* A row nobody has a token for is loose.
LEMMA FreedLoose ==
    ASSUME Typed', NEW m \in Messages, Exists(m)' => msg'[m].claim_token = NULL
    PROVE  Loose(m)
<1>1. ASSUME NEW w \in Relays, NEW r \in Held(w)'
      PROVE  prefix'[w] # NULL
    BY NullsAssumption DEF Typed, TypeOK, RelayShape, Active, Held
<1>2. \A s \in orphans' : s.claim_token # NULL
    BY NullsAssumption DEF Typed, TypeOK, Statement
<1>. QED BY <1>1, <1>2 DEF Loose

\* A right outcome stays right as long as the row is kept.
LEMMA RightKept ==
    ASSUME NEW s, s.id \in Messages, Kept(s.id), Right(s), Remembered
    PROVE  Right(s)'
BY DEF Right, Kept, Same, Open, Remembered

\* The links between the table, the relays and the abandoned statements
\* survive a step in which no relay gains a row, every row is kept or loose,
\* and what is abandoned is justified.
LEMMA LinkStep ==
    ASSUME Typed, Typed', Links, Shrinks, Remembered,
           \A s \in orphans' : s \in orphans \/ s.kind = "renew" \/ Justified(s),
           \A m \in Messages : Kept(m) \/ Loose(m)
    PROVE  Links'
<1>1. PrefixesDistinct'
    BY DEF Links, PrefixesDistinct, Shrinks
<1>2. OutcomesReleased'
    <2>1. SUFFICES ASSUME NEW s \in orphans', s.kind # "renew", NEW w \in Relays,
                          prefix'[w] = s.claim_token, NEW r \in Held(w)'
                   PROVE  r.id # s.id
        BY DEF OutcomesReleased
    <2>2. prefix'[w] = prefix[w] /\ r \in Held(w)
        BY DEF Shrinks
    <2>3. CASE s \in orphans
        BY <2>1, <2>2, <2>3 DEF Links, OutcomesReleased
    <2>4. CASE Justified(s)
        BY <2>1, <2>4 DEF Justified
    <2>. QED BY <2>1, <2>3, <2>4
<1>3. OutcomesUnique'
    BY DEF Links, OutcomesUnique, Justified
<1>4. ASSUME NEW s \in orphans', s \in orphans, s.kind # "renew", Hits(s)'
      PROVE  Kept(s.id) /\ Hits(s) /\ s.id \in Messages
    <2>1. s.id \in Messages
        BY DEF Typed, TypeOK, Statement
    <2>2. ~Loose(s.id)
        BY <1>4, <2>1 DEF Hits, Loose
    <2>. QED BY <1>4, <2>1, <2>2 DEF Hits, Kept
<1>5. ASSUME NEW s \in orphans', s.kind # "renew", Hits(s)'
      PROVE  Right(s)'
    <2>1. CASE s \in orphans
        <3>1. Kept(s.id) /\ Right(s) /\ s.id \in Messages
            BY <1>4, <1>5, <2>1 DEF Links, OrphansRight
        <3>. QED BY <3>1, RightKept
    <2>2. CASE Justified(s)
        BY <1>5, <2>2 DEF Justified
    <2>. QED BY <1>5, <2>1, <2>2
<1>6. OrphansRight'
    BY <1>5 DEF OrphansRight
<1>7. ASSUME NEW w \in Relays, NEW r \in Held(w)', Current(w, r)'
      PROVE  Kept(r.id) /\ Current(w, r) /\ r.id \in Messages /\ r \in Held(w)
    <2>1. r \in Held(w) /\ prefix'[w] = prefix[w]
        BY DEF Shrinks
    <2>2. r.id \in Messages
        BY <2>1, HeldTyped DEF OutboxRow
    <2>3. ~Loose(r.id)
        BY <1>7 DEF Current, Loose
    <2>. QED BY <1>7, <2>1, <2>2, <2>3 DEF Current, Kept
<1>8. SnapshotFresh'
    BY <1>7 DEF Links, SnapshotFresh, Kept, Same
<1>. QED BY <1>1, <1>2, <1>3, <1>6, <1>8 DEF Links

\* A row that is not touched is kept or loose.
LEMMA Untouched ==
    ASSUME NEW m \in Messages, msg'[m] = msg[m]
    PROVE  Same(m) /\ (Kept(m) \/ Loose(m))
BY DEF Kept, Same, Loose, Exists

LEMMA SameTable ==
    ASSUME msg' = msg
    PROVE  \A m \in Messages : Same(m) /\ (Kept(m) \/ Loose(m))
BY DEF Kept, Same, Loose, Exists

\* The same for a step that is a statement reaching the server.
LEMMA ExecStep ==
    ASSUME Typed, Typed', Links, Shrinks, Remembered, orphans' \subseteq orphans,
           NEW s \in Statement, Exec(s),
           s.kind # "renew" =>
                /\ \A w \in Relays : prefix'[w] = s.claim_token =>
                        \A r \in Held(w)' : r.id # s.id
                /\ \A t \in orphans' : t.kind # "renew" /\ t.id = s.id
                                        => t.claim_token # s.claim_token
    PROVE  Links'
<1>1. s.id \in Messages
    BY DEF Statement
<1>2. ASSUME NEW m \in Messages, ~Matches(s) \/ m # s.id
      PROVE  msg'[m] = msg[m]
    BY <1>2 DEF Exec, Typed, TypeOK
<1>3. ASSUME Matches(s)
      PROVE  Kept(s.id) \/ Loose(s.id)
    <2>1. /\ msg'[s.id] = Effect(s, msg[s.id]) /\ msg[s.id] \in Row /\ Exists(s.id)
          /\ msg[s.id].claim_token = s.claim_token
        BY <1>1, <1>3 DEF Exec, Typed, TypeOK, Matches, Exists
    <2>2. CASE s.kind = "renew"
        <3>1. /\ msg'[s.id] \in Row
              /\ msg'[s.id].max_attempts = msg[s.id].max_attempts
              /\ msg'[s.id].attempt = msg[s.id].attempt
              /\ msg'[s.id].processed = msg[s.id].processed
              /\ msg'[s.id].failed = msg[s.id].failed
              /\ msg'[s.id].claim_token = msg[s.id].claim_token
            BY <2>1, <2>2, EffectRow
        <3>. QED BY <2>1, <3>1, NullsAssumption DEF Kept, Same, Exists
    <2>3. CASE s.kind \in {"processed", "failed"}
        <3>1. msg'[s.id].claim_token = s.claim_token
            BY <2>1, <2>3, EffectRow
        <3>. QED BY <2>3, <3>1 DEF Loose
    <2>4. CASE s.kind = "retry"
        <3>1. msg'[s.id].claim_token = NULL
            BY <2>1, <2>4, EffectRow
        <3>. QED BY <1>1, <3>1, FreedLoose
    <2>. QED BY <2>2, <2>3, <2>4 DEF Statement
<1>4. \A m \in Messages : Kept(m) \/ Loose(m)
    BY <1>1, <1>2, <1>3, Untouched
<1>. QED BY <1>4, LinkStep

-----------------------------------------------------------------------------
(* What the relays' moves do to what they hold.                            *)

\* Nothing the holdings depend on changes.
LEMMA SameHoldings ==
    ASSUME UNCHANGED <<pc, prefix, batch, cur, ctxDone>>
    PROVE  Shrinks /\ (HeldOnce => HeldOnce')
BY DEF Shrinks, Held, HeldOnce, Active

LEMMA IdleShrinks ==
    ASSUME Typed, NEW w \in Relays, NEW p \in {"poll", "exited"}, Idle(w, p),
           \A v \in Relays : v # w => ctxDone'[v] = ctxDone[v]
    PROVE  Shrinks /\ (HeldOnce => HeldOnce') /\ Held(w)' = {}
<1>1. Held(w)' = {} /\ prefix'[w] = NULL
    BY DEF Typed, TypeOK, Idle, Held
<1>2. ASSUME NEW v \in Relays, v # w
      PROVE  Held(v)' = Held(v) /\ prefix'[v] = prefix[v]
    BY <1>2 DEF Typed, TypeOK, Idle, Held
<1>3. Shrinks
    BY <1>1, <1>2 DEF Shrinks
<1>4. HeldOnce => HeldOnce'
    BY DEF Typed, TypeOK, Idle, HeldOnce, Active
<1>. QED BY <1>1, <1>3, <1>4

LEMMA AdvanceShrinks ==
    ASSUME Typed, NEW w \in Relays, pc[w] = "record", Advance(w), ctxDone' = ctxDone
    PROVE  Shrinks /\ (HeldOnce => HeldOnce') /\ Held(w)' = batch[w]
<1>1. CASE batch[w] = {} /\ Idle(w, "poll")
    BY <1>1, IdleShrinks
<1>2. ASSUME NEW r \in batch[w], Take(w, r, batch[w] \ {r}), prefix' = prefix
      PROVE  Shrinks /\ (HeldOnce => HeldOnce') /\ Held(w)' = batch[w]
    <2>1. Held(w)' = batch[w] /\ batch[w] \subseteq Held(w)
        BY <1>2 DEF Typed, TypeOK, Take, Held
    <2>2. ASSUME NEW v \in Relays, v # w
          PROVE  Held(v)' = Held(v)
        BY <1>2, <2>2 DEF Typed, TypeOK, Take, Held
    <2>3. Shrinks
        BY <1>2, <2>1, <2>2 DEF Shrinks
    <2>4. HeldOnce => HeldOnce'
        BY <1>2 DEF Typed, TypeOK, Take, HeldOnce, Active
    <2>. QED BY <2>1, <2>3, <2>4
<1>. QED BY <1>1, <1>2 DEF Advance

-----------------------------------------------------------------------------
(* The outcome a relay is about to send.                                   *)

\* It is the only one of its claim, and if it takes effect it is right: the
\* relay decides from a snapshot that is fresh, and calls a message processed
\* after every handler completed it.
LEMMA OutcomeFacts ==
    ASSUME OutboxInv, NEW w \in Relays, Settling(w), NEW d \in Backoffs,
           NEW s, s = OutcomeStmt(w, d)
    PROVE  /\ s \in Statement
           /\ s.kind # "renew" /\ s.id = cur[w].id /\ s.claim_token = prefix[w]
           /\ Hits(s) => Right(s)
           /\ \A t \in orphans : t.kind # "renew" /\ t.id = s.id
                                    => t.claim_token # s.claim_token
           /\ \A v \in Relays : prefix[v] = s.claim_token => v = w
           /\ \A r \in batch[w] : r.id # s.id
<1>1. pc[w] = "record" /\ cur[w] \in OutboxRow /\ prefix[w] \in Tokens /\ prefix[w] # NULL
    BY NullsAssumption DEF OutboxInv, Typed, RelayShape, Active, Settling
<1>2. s \in Statement
    BY <1>1, OutcomeType DEF OutboxInv
<1>3. s.kind # "renew" /\ s.id = cur[w].id /\ s.claim_token = prefix[w]
    BY DEF OutcomeStmt
<1>4. s.attempt = cur[w].attempt + 1 /\ (s.kind = "processed" <=> result[w] = "ok")
    BY DEF OutcomeStmt
<1>5. /\ s.kind = "failed" => s.attempt >= cur[w].max_attempts
      /\ s.kind = "retry" => ~(s.attempt >= cur[w].max_attempts)
    BY DEF OutcomeStmt
<1>6. cur[w] \in Held(w)
    BY SettlingHolds
<1>7. Hits(s) => Current(w, cur[w])
    BY <1>3 DEF Hits, Current
<1>8. s.kind = "processed" => Delivered(s.id)
    <2>1. SUFFICES ASSUME result[w] = "ok" PROVE Delivered(cur[w].id)
        BY <1>3, <1>4
    <2>2. /\ HandlersFor[cur[w].id] # <<>>
          /\ CompletedUpTo(cur[w].id, Len(HandlersFor[cur[w].id]))
        BY <1>1, <2>1 DEF OutboxInv, Deliveries, Delivery, Active
    <2>. QED BY <2>2 DEF Delivered, CompletedUpTo
<1>9. ASSUME Hits(s)
      PROVE  Right(s)
    <2>1. /\ msg[s.id].attempt = cur[w].attempt
          /\ msg[s.id].max_attempts = cur[w].max_attempts
          /\ ~msg[s.id].processed /\ ~msg[s.id].failed
        BY <1>3, <1>6, <1>7, <1>9 DEF OutboxInv, Links, SnapshotFresh
    <2>2. Open(s.id)
        BY <1>9, <2>1 DEF Open, Hits
    <2>3. s.attempt \in Nat /\ cur[w].max_attempts \in Nat
        BY <1>1, <1>2 DEF Statement, OutboxRow
    <2>. QED BY <1>4, <1>5, <1>8, <2>1, <2>2, <2>3 DEF Right
<1>10. \A t \in orphans : t.kind # "renew" /\ t.id = s.id => t.claim_token # s.claim_token
    BY <1>3, <1>6 DEF OutboxInv, Links, OutcomesReleased
<1>11. \A v \in Relays : prefix[v] = s.claim_token => v = w
    BY <1>1, <1>3 DEF OutboxInv, Links, PrefixesDistinct
<1>12. \A r \in batch[w] : r.id # s.id
    BY <1>1, <1>3 DEF OutboxInv, HeldOnce, Active
<1>. QED BY <1>2, <1>3, <1>9, <1>10, <1>11, <1>12

\* Abandoning what is in flight, in a step after which w no longer holds cur.
LEMMA AbandonJustified ==
    ASSUME OutboxInv, NEW w \in Relays, Abandon(w), Shrinks, msg' = msg, got' = got,
           Settling(w) => Held(w)' \subseteq batch[w]
    PROVE  \A s \in orphans' : s \in orphans \/ s.kind = "renew" \/ Justified(s)
<1>1. SUFFICES ASSUME NEW s \in orphans', s \notin orphans, s.kind # "renew"
               PROVE  Justified(s)
    OBVIOUS
<1>2. s \in InFlight(w) /\ orphans' = orphans \cup {s}
    BY <1>1 DEF Abandon
<1>3. PICK d \in Backoffs : Settling(w) /\ s = OutcomeStmt(w, d)
    BY <1>1, <1>2 DEF InFlight, Settling, RenewStmt
<1>4. \A v \in Relays : prefix'[v] = s.claim_token => \A r \in Held(v)' : r.id # s.id
    <2>1. SUFFICES ASSUME NEW v \in Relays, prefix'[v] = s.claim_token,
                          NEW r \in Held(v)'
                   PROVE  r.id # s.id
        OBVIOUS
    <2>2. prefix[v] = s.claim_token
        BY <2>1 DEF Shrinks
    <2>3. v = w
        BY <1>3, <2>2, OutcomeFacts
    <2>. QED BY <1>3, <2>1, <2>3, OutcomeFacts
<1>5. \A t \in orphans' : t.kind # "renew" /\ t.id = s.id
                            /\ t.claim_token = s.claim_token => s = t
    BY <1>2, <1>3, OutcomeFacts
<1>6. Hits(s)' => Right(s)'
    <2>1. Hits(s) => Right(s)
        BY <1>3, OutcomeFacts
    <2>. QED BY <2>1 DEF Hits, Right, Open, Exists, Delivered
<1>. QED BY <1>4, <1>5, <1>6 DEF Justified

-----------------------------------------------------------------------------
(* What one step does to the table, as the leased queue sees it.           *)

\* The ways in which the row of message m may change.
Submitted(m) ==
    /\ ~Exists(m) /\ Open(m)'
    /\ msg'[m].attempt = 0
    /\ msg'[m].max_attempts \in Nat \ {0}

Completed(m) ==
    /\ Open(m) /\ Exists(m)' /\ Delivered(m)
    /\ msg'[m].processed
    /\ msg'[m].attempt = msg[m].attempt
    /\ msg'[m].max_attempts = msg[m].max_attempts

Retried(m) ==
    /\ Open(m) /\ Open(m)'
    /\ msg[m].attempt + 1 < msg[m].max_attempts
    /\ msg'[m].attempt = msg[m].attempt + 1
    /\ msg'[m].max_attempts = msg[m].max_attempts

GivenUp(m) ==
    /\ Open(m) /\ Exists(m)' /\ msg'[m].failed /\ ~msg'[m].processed
    /\ msg[m].attempt + 1 = msg[m].max_attempts
    /\ msg'[m].attempt = msg[m].attempt + 1
    /\ msg'[m].max_attempts = msg[m].max_attempts

RowStep(m) == Submitted(m) \/ Completed(m) \/ Retried(m) \/ GivenUp(m)

\* At most one row changes, in one of these ways.
TableStep ==
    \/ \A m \in Messages : Same(m)
    \/ \E m \in Messages : RowStep(m) /\ \A n \in Messages \ {m} : Same(n)

\* A statement that takes effect only where it is right.
LEMMA ExecTable ==
    ASSUME Typed, OpenBelowLimit, NEW s \in Statement, Exec(s),
           s.kind # "renew" /\ Hits(s) => Right(s)
    PROVE  TableStep
<1>1. s.id \in Messages
    BY DEF Statement
<1>2. ASSUME NEW m \in Messages, ~Matches(s) \/ m # s.id
      PROVE  Same(m)
    <2>1. msg'[m] = msg[m]
        BY <1>2 DEF Exec, Typed, TypeOK
    <2>. QED BY <2>1, Untouched
<1>3. CASE ~Matches(s)
    BY <1>2, <1>3 DEF TableStep
<1>4. CASE Matches(s)
    <2>. DEFINE r == msg[s.id]
                q == msg'[s.id]
    <2>1. q = Effect(s, r) /\ r \in Row
        BY <1>1, <1>4 DEF Exec, Typed, TypeOK, Matches, Exists
    <2>2. Hits(s)
        BY <1>4 DEF Matches, Hits
    <2>3. /\ q \in Row /\ q.max_attempts = r.max_attempts
          /\ s.kind = "renew" => /\ q.attempt = r.attempt
                                 /\ q.processed = r.processed /\ q.failed = r.failed
          /\ s.kind = "processed" => q.attempt = r.attempt /\ q.processed
          /\ s.kind = "failed" => /\ q.attempt = s.attempt
                                  /\ q.processed = r.processed /\ q.failed
          /\ s.kind = "retry" => /\ q.attempt = s.attempt
                                 /\ q.processed = r.processed /\ q.failed = r.failed
        BY <2>1, EffectRow
    <2>4. Exists(s.id) /\ Exists(s.id)'
        BY <1>4, <2>3, NullsAssumption DEF Matches, Exists
    <2>5. r.attempt \in Nat /\ r.max_attempts \in Nat
        BY <2>1 DEF Row
    <2>6. CASE s.kind = "renew"
        <3>1. Same(s.id)
            BY <2>3, <2>4, <2>6 DEF Same
        <3>. QED BY <1>2, <3>1 DEF TableStep
    <2>7. CASE s.kind # "renew"
        <3>1. Right(s)
            BY <2>2, <2>7
        <3>2. Open(s.id) /\ s.attempt = r.attempt + 1 /\ r.attempt < r.max_attempts
            BY <1>1, <3>1 DEF Right, OpenBelowLimit
        <3>3. ASSUME s.kind = "processed"
              PROVE  RowStep(s.id)
            BY <2>3, <2>4, <3>1, <3>2, <3>3 DEF RowStep, Completed, Right
        <3>4. ASSUME s.kind = "failed"
              PROVE  RowStep(s.id)
            <4>1. r.attempt + 1 = r.max_attempts
                BY <2>5, <3>1, <3>2, <3>4 DEF Right
            <4>2. q.failed /\ ~q.processed
                BY <2>3, <3>2, <3>4 DEF Open
            <4>. QED BY <2>3, <2>4, <3>2, <3>4, <4>1, <4>2 DEF RowStep, GivenUp
        <3>5. ASSUME s.kind = "retry"
              PROVE  RowStep(s.id)
            <4>1. r.attempt + 1 < r.max_attempts
                BY <3>1, <3>2, <3>5 DEF Right
            <4>2. Open(s.id)'
                BY <2>3, <2>4, <3>2, <3>5 DEF Open
            <4>. QED BY <2>3, <3>2, <3>5, <4>1, <4>2 DEF RowStep, Retried
        <3>6. RowStep(s.id)
            BY <2>7, <3>3, <3>4, <3>5 DEF Statement
        <3>. QED BY <1>1, <1>2, <3>6 DEF TableStep
    <2>. QED BY <2>6, <2>7
<1>. QED BY <1>3, <1>4

LEMMA NextTable ==
    ASSUME OutboxInv, [Next]_vars
    PROVE  TableStep
<1>1. CASE msg' = msg
    BY <1>1, SameTable DEF TableStep
<1>2. ASSUME NEW w \in Relays, Claim(w) \/ ClaimLost(w)
      PROVE  TableStep
    <2>1. /\ \E S \in ClaimSets : Stamp(S, FreshPrefix)
          /\ FreshPrefix \in Tokens
        BY <1>2, FreshToken DEF Claim, ClaimLost
    <2>2. \A m \in Messages : Same(m)
        BY <2>1, StampedRows, Untouched DEF OutboxInv, Typed, Same
    <2>. QED BY <2>2 DEF TableStep
<1>3. ASSUME NEW w \in Relays, RenewReply(w)
      PROVE  TableStep
    <2>1. RenewStmt(w) \in Statement /\ RenewStmt(w).kind = "renew"
        BY <1>3, RenewType DEF RenewReply, OutboxInv, RenewStmt
    <2>. QED BY <1>3, <2>1, ExecTable DEF RenewReply, OutboxInv
<1>4. ASSUME NEW w \in Relays, Record(w), ~ctxDone[w]
      PROVE  TableStep
    <2>1. PICK d \in Backoffs : Exec(OutcomeStmt(w, d))
        BY <1>4 DEF Record
    <2>. DEFINE s == OutcomeStmt(w, d)
    <2>2. Settling(w)
        BY <1>4 DEF Record, Settling
    <2>3. s \in Statement /\ (Hits(s) => Right(s))
        BY <2>2, OutcomeFacts
    <2>4. Exec(s)
        BY <2>1
    <2>. HIDE DEF s
    <2>. QED BY <2>3, <2>4, ExecTable DEF OutboxInv
<1>5. ASSUME NEW s \in orphans, OrphanLands(s)
      PROVE  TableStep
    <2>1. s \in Statement /\ Exec(s)
        BY <1>5 DEF OrphanLands, OutboxInv, Typed, TypeOK
    <2>2. s.kind # "renew" /\ Hits(s) => Right(s)
        BY DEF OutboxInv, Links, OrphansRight
    <2>. QED BY <2>1, <2>2, ExecTable DEF OutboxInv
<1>6. ASSUME NEW call \in Calls, Enqueue(call)
      PROVE  TableStep
    <2>1. NewRow(call) \in Row /\ call.id \in Messages
        BY <1>6, NewRowType DEF Enqueue
    <2>2. ~Exists(call.id) /\ msg'[call.id] = NewRow(call)
        BY <1>6, <2>1 DEF Enqueue, OutboxInv, Typed, TypeOK
    <2>3. Submitted(call.id)
        <3>1. /\ ~NewRow(call).processed /\ ~NewRow(call).failed
              /\ NewRow(call).attempt = 0
            BY DEF NewRow
        <3>2. NewRow(call) # NoRow /\ NewRow(call).max_attempts \in Nat \ {0}
            BY <2>1, NullsAssumption DEF Row
        <3>. QED BY <2>2, <3>1, <3>2 DEF Submitted, Open, Exists
    <2>4. \A n \in Messages \ {call.id} : Same(n)
        BY <1>6, Untouched DEF Enqueue, OutboxInv, Typed, TypeOK
    <2>. QED BY <2>1, <2>3, <2>4 DEF TableStep, RowStep
<1>7. CASE Tick
    <2>1. ASSUME NEW m \in Messages
          PROVE  Same(m)
        <3>1. msg'[m] = Aged(msg[m]) /\ msg[m] \in Row \cup {NoRow}
            BY <1>7 DEF Tick, OutboxInv, Typed, TypeOK
        <3>2. CASE msg[m] = NoRow
            BY <3>1, <3>2 DEF Aged, Same, Exists
        <3>3. CASE msg[m] \in Row
            BY <3>1, <3>3, AgedRow, NullsAssumption DEF Same, Exists
        <3>. QED BY <3>1, <3>2, <3>3
    <2>. QED BY <2>1 DEF TableStep
<1>. QED
    BY <1>1, <1>2, <1>3, <1>4, <1>5, <1>6, <1>7
    DEF Next, RelayStep, Disturbance, vars, RenewSend, RenewError, CallHandler,
        HandlerCalled, StopRenewal, Stopped, Record, RecordError, Exit, Cancel, Crash,
        Restart

\* Messages stay in the table.
LEMMA TableStays ==
    ASSUME TableStep, NEW m \in Messages, Exists(m)
    PROVE  Exists(m)'
BY DEF TableStep, RowStep, Same, Submitted, Completed, Retried, GivenUp, Open

\* An attempt is left as long as the message is not settled.
LEMMA TableBelowLimit ==
    ASSUME Typed, Typed', OpenBelowLimit, TableStep
    PROVE  OpenBelowLimit'
<1>1. SUFFICES ASSUME NEW m \in Messages, Open(m)'
               PROVE  msg'[m].attempt < msg'[m].max_attempts
    BY DEF OpenBelowLimit
<1>2. CASE Same(m)
    BY <1>1, <1>2 DEF Same, OpenBelowLimit, Open
<1>3. CASE RowStep(m)
    <2>1. ~Completed(m) /\ ~GivenUp(m)
        BY <1>1 DEF Completed, GivenUp, Open
    <2>2. CASE Submitted(m)
        BY <2>2 DEF Submitted
    <2>3. CASE Retried(m)
        BY <2>3 DEF Retried
    <2>. QED BY <1>3, <2>1, <2>2, <2>3 DEF RowStep
<1>. QED BY <1>2, <1>3 DEF TableStep

-----------------------------------------------------------------------------
(* Handler calls and faults.                                               *)

\* The step leaves the delivery of relay v alone.
LEMMA SameDelivery ==
    ASSUME NEW v \in Relays, Delivery(v),
           batch'[v] = batch[v], pc'[v] = pc[v], cur'[v] = cur[v],
           called'[v] = called[v], result'[v] = result[v],
           \A r \in batch[v] : msg'[r.id] # NoRow,
           Active(v) => /\ msg'[cur[v].id] # NoRow
                        /\ got[cur[v].id] \subseteq got'[cur[v].id]
    PROVE  Delivery(v)'
BY DEF Delivery, Active, CompletedUpTo, Exists

\* Turning to a row starts a delivery in which no handler was called.
LEMMA TakeDelivery ==
    ASSUME Typed, NEW w \in Relays, NEW r \in OutboxRow, NEW rest, Take(w, r, rest),
           msg'[r.id] # NoRow, \A q \in rest : msg'[q.id] # NoRow
    PROVE  Delivery(w)'
<1>1. /\ pc'[w] = "deliver" /\ cur'[w] = r /\ batch'[w] = rest /\ called'[w] = 0
      /\ result'[w] = IF HandlersFor[r.id] = <<>> THEN "err" ELSE "ok"
    BY DEF Take, Typed, TypeOK
<1>2. Len(HandlersFor[r.id]) \in Nat
    <2>1. HandlersFor[r.id] \in Seq(Handlers)
        BY ConstantsAssumption DEF OutboxRow
    <2>. QED BY <2>1, LenProperties
<1>. QED BY <1>1, <1>2 DEF Delivery, Active, CompletedUpTo, Exists

LEMMA IdleDelivery ==
    ASSUME Typed, NEW w \in Relays, NEW p \in {"poll", "exited"}, Idle(w, p)
    PROVE  Delivery(w)'
<1>1. pc'[w] = p /\ batch'[w] = {}
    BY DEF Idle, Typed, TypeOK
<1>. QED BY <1>1 DEF Delivery, Active

\* Handlers are called one after the other, and what they completed is not
\* forgotten, whatever the other relays do.
LEMMA DeliveriesNext ==
    ASSUME Typed, Deliveries, TableStep, [Next]_vars
    PROVE  Deliveries'
<1>1. ASSUME NEW v \in Relays
      PROVE  /\ \A r \in batch[v] : msg'[r.id] # NoRow
             /\ Active(v) => msg'[cur[v].id] # NoRow
             /\ batch[v] \subseteq OutboxRow
             /\ Active(v) => cur[v] \in OutboxRow
    <2>1. \A m \in Messages : Exists(m) => msg'[m] # NoRow
        BY TableStays DEF Exists
    <2>2. batch[v] \subseteq OutboxRow /\ (Active(v) => cur[v] \in OutboxRow)
        BY DEF Typed, TypeOK, RelayShape
    <2>. QED BY <2>1, <2>2 DEF Deliveries, Delivery, OutboxRow
<1>2. ASSUME NEW v \in Relays, got' = got,
             batch'[v] = batch[v], pc'[v] = pc[v], cur'[v] = cur[v],
             called'[v] = called[v], result'[v] = result[v]
      PROVE  Delivery(v)'
    BY <1>1, <1>2, SameDelivery DEF Deliveries
<1>3. ASSUME NEW w \in Relays, NEW p \in {"poll", "exited"}, Idle(w, p), got' = got
      PROVE  Deliveries'
    <2>1. ASSUME NEW v \in Relays, v # w
          PROVE  Delivery(v)'
        BY <1>2, <1>3, <2>1 DEF Idle, Typed, TypeOK
    <2>. QED BY <1>3, <2>1, IdleDelivery DEF Deliveries
<1>4. ASSUME NEW w \in Relays, NEW r \in OutboxRow, NEW rest, Take(w, r, rest),
             msg'[r.id] # NoRow, \A q \in rest : msg'[q.id] # NoRow, got' = got
      PROVE  Deliveries'
    <2>1. ASSUME NEW v \in Relays, v # w
          PROVE  Delivery(v)'
        BY <1>2, <1>4, <2>1 DEF Take, Typed, TypeOK
    <2>. QED BY <1>4, <2>1, TakeDelivery DEF Deliveries
<1>5. ASSUME NEW w \in Relays, Claim(w)
      PROVE  Deliveries'
    <2>1. PICK S \in ClaimSets : \E r \in Returned(S) :
                Stamp(S, FreshPrefix) /\ Take(w, r, Returned(S) \ {r})
        BY <1>5 DEF Claim
    <2>2. PICK r \in Returned(S) : Take(w, r, Returned(S) \ {r})
        BY <2>1
    <2>3. FreshPrefix \in Tokens
        BY <1>5, FreshToken DEF Claim
    <2>4. Returned(S) \subseteq OutboxRow /\ \A m \in S : msg'[m] # NoRow
        BY <2>1, <2>3, StampedRows DEF Typed, Exists
    <2>5. \A q \in Returned(S) : msg'[q.id] # NoRow
        BY <2>4 DEF Returned
    <2>6. got' = got
        BY <1>5 DEF Claim
    <2>. QED BY <1>4, <2>2, <2>4, <2>5, <2>6
<1>6. ASSUME NEW w \in Relays, Record(w) \/ RecordError(w)
      PROVE  Deliveries'
    <2>1. pc[w] = "record" /\ Advance(w) /\ got' = got
        BY <1>6 DEF Record, RecordError
    <2>2. CASE Idle(w, "poll")
        BY <1>3, <2>1, <2>2
    <2>3. ASSUME NEW r \in batch[w], Take(w, r, batch[w] \ {r})
          PROVE  Deliveries'
        <3>1. r \in OutboxRow /\ \A q \in batch[w] : msg'[q.id] # NoRow
            BY <1>1
        <3>2. /\ msg'[r.id] # NoRow
              /\ \A q \in batch[w] \ {r} : msg'[q.id] # NoRow
            BY <3>1
        <3>. QED BY <1>4, <2>1, <2>3, <3>1, <3>2
    <2>. QED BY <2>1, <2>2, <2>3 DEF Advance
<1>7. ASSUME NEW w \in Relays, Exit(w) \/ Crash(w) \/ Restart(w)
      PROVE  Deliveries'
    BY <1>3, <1>7 DEF Exit, Crash, Restart
<1>8. ASSUME NEW w \in Relays, NEW res \in {"ok", "err"}, CallHandler(w, res)
      PROVE  Deliveries'
    <2>. DEFINE m == cur[w].id
                n == called[w]
                h == HandlersFor[m][n + 1]
    <2>1. /\ pc[w] = "deliver" /\ n < Len(HandlersFor[m])
          /\ UNCHANGED <<msg, pc, batch, cur>>
          /\ called' = [called EXCEPT ![w] = n + 1]
          /\ got' = IF res = "ok" THEN [got EXCEPT ![m] = @ \cup {h}] ELSE got
          /\ result' = [result EXCEPT ![w] = IF res = "ok" THEN result[w] ELSE "err"]
        BY <1>8 DEF CallHandler, HandlerCalled
    <2>2. m \in Messages /\ n \in Nat
        BY <2>1 DEF Typed, TypeOK, RelayShape, Active, OutboxRow
    <2>3. Len(HandlersFor[m]) \in Nat
        <3>1. HandlersFor[m] \in Seq(Handlers)
            BY <2>2, ConstantsAssumption
        <3>. QED BY <3>1, LenProperties
    <2>4. \A k \in Messages : got[k] \subseteq got'[k]
        BY <2>1, <2>2 DEF Typed, TypeOK
    <2>5. ASSUME NEW v \in Relays, v # w
          PROVE  Delivery(v)'
        <3>1. called'[v] = called[v] /\ result'[v] = result[v]
            BY <2>1, <2>5 DEF Typed, TypeOK
        <3>2. Active(v) => got[cur[v].id] \subseteq got'[cur[v].id]
            BY <1>1, <2>4 DEF OutboxRow
        <3>. QED BY <1>1, <2>1, <3>1, <3>2, SameDelivery DEF Deliveries
    <2>6. Delivery(w)'
        <3>1. called'[w] = n + 1 /\ (result'[w] = "ok" => result[w] = "ok" /\ res = "ok")
            BY <2>1 DEF Typed, TypeOK
        <3>2. Delivery(w) /\ Active(w)
            BY <2>1 DEF Deliveries, Active
        <3>3. ASSUME result'[w] = "ok"
              PROVE  CompletedUpTo(m, called[w])'
            <4>1. CompletedUpTo(m, n) /\ h \in got'[m]
                BY <2>1, <2>2, <3>1, <3>2, <3>3 DEF Delivery, Typed, TypeOK
            <4>2. \A i \in 1..(n + 1) : i \in 1..n \/ i = n + 1
                BY <2>2
            <4>3. \A i \in 1..(n + 1) : HandlersFor[m][i] \in got'[m]
                BY <2>2, <2>4, <4>1, <4>2 DEF CompletedUpTo
            <4>. QED BY <2>1, <3>1, <4>3 DEF CompletedUpTo
        <3>4. n + 1 <= Len(HandlersFor[m])
            BY <2>1, <2>2, <2>3
        <3>. QED BY <2>1, <3>1, <3>2, <3>3, <3>4 DEF Delivery, Active, Exists
    <2>. QED BY <2>5, <2>6 DEF Deliveries
<1>9. ASSUME NEW w \in Relays, StopRenewal(w)
      PROVE  Deliveries'
    <2>1. /\ pc[w] = "deliver" /\ called[w] = Len(HandlersFor[cur[w].id])
          /\ pc' = [pc EXCEPT ![w] = "record"]
          /\ UNCHANGED <<msg, batch, cur, called, result, got>>
        BY <1>9 DEF StopRenewal, Stopped
    <2>2. ASSUME NEW v \in Relays, v # w
          PROVE  Delivery(v)'
        BY <1>2, <2>1, <2>2 DEF Typed, TypeOK
    <2>3. Delivery(w)'
        BY <2>1 DEF Deliveries, Delivery, Active, Exists, CompletedUpTo, Typed, TypeOK
    <2>. QED BY <2>2, <2>3 DEF Deliveries
<1>10. CASE UNCHANGED <<pc, batch, cur, called, result, got>>
    BY <1>2, <1>10 DEF Deliveries
<1>11. ASSUME NEW w \in Relays,
              \/ ClaimLost(w) \/ RenewSend(w) \/ RenewReply(w) \/ RenewError(w)
              \/ Cancel(w)
       PROVE  Deliveries'
    BY <1>10, <1>11 DEF ClaimLost, RenewSend, RenewReply, RenewError, Cancel, relayVars
<1>12. CASE \/ \E s \in orphans : OrphanLands(s)
            \/ \E call \in Calls : Enqueue(call)
            \/ Tick
            \/ UNCHANGED vars
    BY <1>10, <1>12 DEF OrphanLands, Enqueue, Tick, vars, relayVars
<1>. QED
    BY <1>5, <1>6, <1>7, <1>8, <1>9, <1>11, <1>12 DEF Next, RelayStep, Disturbance

\* A statement is abandoned only in a step that costs a fault.
LEMMA FaultsNext ==
    ASSUME Typed, FaultsSpent, [Next]_vars
    PROVE  FaultsSpent'
<1>1. CASE faults' = faults /\ orphans' \subseteq orphans
    BY <1>1 DEF FaultsSpent
<1>2. CASE faults > 0 /\ faults' = faults - 1
    BY <1>2, ConstantsAssumption DEF FaultsSpent, Typed, TypeOK
<1>. QED
    BY <1>1, <1>2
    DEF Next, RelayStep, Disturbance, Claim, ClaimLost, RenewSend, RenewReply,
        RenewError, CallHandler, HandlerCalled, StopRenewal, Stopped, Record,
        RecordError, Exit, Cancel, Crash, Restart, OrphanLands, Enqueue, Tick, vars

-----------------------------------------------------------------------------
(* The actions, and the links between claims, table and statements.        *)

LEMMA ClaimLinks ==
    ASSUME OutboxInv, Typed', NEW w \in Relays, Claim(w)
    PROVE  HeldOnce' /\ Links'
<1>. DEFINE p == FreshPrefix
<1>1. PICK S \in ClaimSets : \E r \in Returned(S) :
            Stamp(S, p) /\ Take(w, r, Returned(S) \ {r})
    BY DEF Claim
<1>2. PICK q \in Returned(S) : Take(w, q, Returned(S) \ {q})
    BY <1>1
<1>3. p \in Tokens /\ p \notin LivePrefixes /\ p # NULL
    BY FreshToken, NullsAssumption DEF Claim
<1>. HIDE DEF p
<1>4. /\ S \subseteq Messages
      /\ \A m \in Messages \ S : msg'[m] = msg[m]
      /\ \A m \in S : /\ Claimable(m)
                      /\ msg'[m].claim_token = p
                      /\ msg'[m].attempt = msg[m].attempt
                      /\ msg'[m].max_attempts = msg[m].max_attempts
                      /\ msg'[m].processed = msg[m].processed
                      /\ msg'[m].failed = msg[m].failed
    BY <1>1, <1>3, StampedRows DEF OutboxInv, Typed
<1>5. prefix' = [prefix EXCEPT ![w] = p] /\ orphans' = orphans /\ got' = got
      /\ ctxDone' = ctxDone
    BY DEF Claim, p
<1>6. /\ \A v \in Relays : prefix[v] # p
      /\ \A s \in orphans : s.claim_token # p
    BY <1>3 DEF LivePrefixes
<1>7. /\ Held(w)' = Returned(S) /\ prefix'[w] = p
      /\ \A v \in Relays \ {w} : Held(v)' = Held(v) /\ prefix'[v] = prefix[v]
    BY <1>2, <1>5 DEF Take, Held, OutboxInv, Typed, TypeOK
<1>8. HeldOnce'
    BY <1>2 DEF OutboxInv, HeldOnce, Active, Take, Returned, Typed, TypeOK
<1>9. PrefixesDistinct'
    BY <1>3, <1>6, <1>7 DEF OutboxInv, Links, PrefixesDistinct
<1>10. OutcomesReleased'
    BY <1>5, <1>6, <1>7 DEF OutboxInv, Links, OutcomesReleased
<1>11. OutcomesUnique'
    BY <1>5 DEF OutboxInv, Links, OutcomesUnique
<1>12. OrphansRight'
    <2>1. SUFFICES ASSUME NEW s \in orphans, s.kind # "renew", Hits(s)'
                   PROVE  Right(s)'
        BY <1>5 DEF OrphansRight
    <2>2. s.id \in Messages
        BY DEF OutboxInv, Typed, TypeOK, Statement
    <2>3. Hits(s) /\ msg'[s.id] = msg[s.id]
        BY <1>4, <1>6, <2>1, <2>2 DEF Hits, Exists
    <2>4. Right(s) /\ Kept(s.id)
        BY <2>1, <2>3 DEF OutboxInv, Links, OrphansRight, Kept, Same, Hits, Exists
    <2>. QED BY <1>5, <2>2, <2>4, RightKept, SameGot
<1>13. SnapshotFresh'
    <2>1. ASSUME NEW v \in Relays \ {w}, NEW r \in Held(v)', Current(v, r)'
          PROVE  /\ msg'[r.id].attempt = r.attempt
                 /\ msg'[r.id].max_attempts = r.max_attempts
                 /\ ~msg'[r.id].processed /\ ~msg'[r.id].failed
        <3>1. r \in Held(v) /\ r.id \in Messages /\ prefix'[v] = prefix[v]
            BY <1>7, HeldTyped DEF OutboxInv, OutboxRow
        <3>2. Current(v, r) /\ msg'[r.id] = msg[r.id]
            BY <1>4, <1>6, <2>1, <3>1 DEF Current, Exists
        <3>. QED BY <3>1, <3>2 DEF OutboxInv, Links, SnapshotFresh
    <2>2. ASSUME NEW r \in Held(w)'
          PROVE  /\ msg'[r.id].attempt = r.attempt
                 /\ msg'[r.id].max_attempts = r.max_attempts
                 /\ ~msg'[r.id].processed /\ ~msg'[r.id].failed
        <3>1. PICK m \in S : r = [id |-> m, attempt |-> msg[m].attempt,
                                  max_attempts |-> msg[m].max_attempts]
            BY <1>7 DEF Returned
        <3>. QED BY <1>4, <3>1 DEF Claimable
    <2>. QED BY <2>1, <2>2 DEF SnapshotFresh
<1>. QED BY <1>8, <1>9, <1>10, <1>11, <1>12, <1>13 DEF Links

LEMMA ClaimLostLinks ==
    ASSUME OutboxInv, Typed', NEW w \in Relays, ClaimLost(w)
    PROVE  HeldOnce' /\ Links'
<1>1. PICK S \in ClaimSets : Stamp(S, FreshPrefix)
    BY DEF ClaimLost
<1>2. FreshPrefix \in Tokens /\ FreshPrefix \notin LivePrefixes
    BY FreshToken DEF ClaimLost
<1>3. UNCHANGED <<pc, prefix, batch, cur, ctxDone, orphans, got>>
    BY DEF ClaimLost, relayVars
<1>4. Shrinks /\ HeldOnce'
    BY <1>3, SameHoldings DEF OutboxInv
<1>5. ASSUME NEW m \in Messages
      PROVE  Kept(m) \/ Loose(m)
    <2>1. CASE m \notin S
        BY <1>1, <1>2, <2>1, StampedRows, Untouched DEF OutboxInv, Typed
    <2>2. CASE m \in S
        <3>1. msg'[m].claim_token = FreshPrefix
            BY <1>1, <1>2, <2>2, StampedRows DEF OutboxInv, Typed
        <3>2. /\ \A v \in Relays : prefix'[v] # FreshPrefix
              /\ \A s \in orphans' : s.claim_token # FreshPrefix
            BY <1>2, <1>3 DEF LivePrefixes
        <3>. QED BY <3>1, <3>2 DEF Loose
    <2>. QED BY <2>1, <2>2
<1>. QED BY <1>3, <1>4, <1>5, SameGot, LinkStep DEF OutboxInv

LEMMA RenewLinks ==
    ASSUME OutboxInv, Typed', NEW w \in Relays,
           RenewSend(w) \/ RenewReply(w) \/ RenewError(w)
    PROVE  HeldOnce' /\ Links'
<1>1. UNCHANGED <<pc, prefix, batch, cur, ctxDone, got>>
    BY DEF RenewSend, RenewReply, RenewError
<1>2. Shrinks /\ HeldOnce' /\ Remembered
    BY <1>1, SameHoldings, SameGot DEF OutboxInv
<1>3. CASE RenewSend(w)
    <2>1. msg' = msg /\ orphans' = orphans
        BY <1>3 DEF RenewSend
    <2>. QED BY <1>2, <2>1, SameTable, LinkStep DEF OutboxInv
<1>4. CASE RenewReply(w)
    <2>1. RenewStmt(w) \in Statement /\ RenewStmt(w).kind = "renew"
        BY <1>4, RenewType DEF RenewReply, OutboxInv, RenewStmt
    <2>2. Exec(RenewStmt(w)) /\ orphans' = orphans
        BY <1>4 DEF RenewReply
    <2>. QED BY <1>2, <2>1, <2>2, ExecStep DEF OutboxInv
<1>5. CASE RenewError(w)
    <2>1. msg' = msg /\ Abandon(w) /\ renewal[w] = "sent"
        BY <1>5 DEF RenewError
    <2>2. ~Settling(w)
        BY <2>1 DEF OutboxInv, Typed, RelayShape, Settling
    <2>3. \A s \in orphans' : s \in orphans \/ s.kind = "renew" \/ Justified(s)
        BY <1>1, <1>2, <2>1, <2>2, AbandonJustified
    <2>. QED BY <1>2, <2>1, <2>3, SameTable, LinkStep DEF OutboxInv
<1>. QED BY <1>3, <1>4, <1>5

\* Calling the handlers and stopping the renewal leave table, claims and
\* statements alone; only what was delivered grows.
LEMMA DeliverLinks ==
    ASSUME OutboxInv, Typed', NEW w \in Relays,
           StopRenewal(w) \/ \E res \in {"ok", "err"} : CallHandler(w, res)
    PROVE  HeldOnce' /\ Links'
<1>1. /\ UNCHANGED <<msg, prefix, batch, cur, ctxDone, orphans>>
      /\ pc[w] = "deliver" /\ pc' \in {pc, [pc EXCEPT ![w] = "record"]}
    BY DEF StopRenewal, Stopped, CallHandler, HandlerCalled
<1>2. \A v \in Relays : Held(v)' \subseteq Held(v)
    BY <1>1 DEF Held, OutboxInv, Typed, TypeOK
<1>3. Shrinks
    BY <1>1, <1>2 DEF Shrinks
<1>4. HeldOnce'
    BY <1>1 DEF OutboxInv, HeldOnce, Active, Typed, TypeOK
<1>5. Remembered
    <2>1. CASE got' = got
        BY <2>1, SameGot
    <2>2. ASSUME NEW res \in {"ok", "err"}, CallHandler(w, res)
          PROVE  \A m \in Messages : got[m] \subseteq got'[m]
        BY <2>2 DEF CallHandler, HandlerCalled, OutboxInv, Typed, TypeOK
    <2>3. CASE \A m \in Messages : got[m] \subseteq got'[m]
        BY <2>3 DEF Remembered, Delivered
    <2>. QED BY <2>1, <2>2, <2>3 DEF StopRenewal, Stopped
<1>. QED BY <1>1, <1>3, <1>4, <1>5, SameTable, LinkStep DEF OutboxInv

LEMMA RecordLinks ==
    ASSUME OutboxInv, Typed', NEW w \in Relays, Record(w)
    PROVE  HeldOnce' /\ Links'
<1>1. /\ pc[w] = "record" /\ Advance(w)
      /\ ctxDone' = ctxDone /\ orphans' = orphans /\ got' = got
    BY DEF Record
<1>2. Shrinks /\ HeldOnce' /\ Held(w)' = batch[w] /\ Remembered
    BY <1>1, AdvanceShrinks, SameGot DEF OutboxInv
<1>3. CASE ctxDone[w]
    <2>1. msg' = msg
        BY <1>3 DEF Record
    <2>. QED BY <1>1, <1>2, <2>1, SameTable, LinkStep DEF OutboxInv
<1>4. CASE ~ctxDone[w]
    <2>1. PICK d \in Backoffs : Exec(OutcomeStmt(w, d))
        BY <1>4 DEF Record
    <2>. DEFINE s == OutcomeStmt(w, d)
    <2>2. Settling(w)
        BY <1>1, <1>4 DEF Settling
    <2>3. /\ s \in Statement
          /\ \A t \in orphans : t.kind # "renew" /\ t.id = s.id
                                    => t.claim_token # s.claim_token
          /\ \A v \in Relays : prefix[v] = s.claim_token => v = w
          /\ \A r \in batch[w] : r.id # s.id
        BY <2>2, OutcomeFacts
    <2>4. Exec(s)
        BY <2>1
    <2>. HIDE DEF s
    <2>5. \A v \in Relays : prefix'[v] = s.claim_token =>
                \A r \in Held(v)' : r.id # s.id
        BY <1>2, <2>3 DEF Shrinks
    <2>. QED BY <1>1, <1>2, <2>3, <2>4, <2>5, ExecStep DEF OutboxInv
<1>. QED BY <1>3, <1>4

LEMMA RecordErrorLinks ==
    ASSUME OutboxInv, Typed', NEW w \in Relays, RecordError(w)
    PROVE  HeldOnce' /\ Links'
<1>1. /\ pc[w] = "record" /\ Advance(w) /\ Abandon(w)
      /\ ctxDone' = ctxDone /\ msg' = msg /\ got' = got
    BY DEF RecordError
<1>2. Shrinks /\ HeldOnce' /\ Held(w)' = batch[w]
    BY <1>1, AdvanceShrinks DEF OutboxInv
<1>3. \A s \in orphans' : s \in orphans \/ s.kind = "renew" \/ Justified(s)
    BY <1>1, <1>2, AbandonJustified
<1>. QED BY <1>1, <1>2, <1>3, SameTable, SameGot, LinkStep DEF OutboxInv

\* Exit, Crash and Restart leave the relay with nothing.
LEMMA LeaveLinks ==
    ASSUME OutboxInv, Typed', NEW w \in Relays, Exit(w) \/ Crash(w) \/ Restart(w)
    PROVE  HeldOnce' /\ Links'
<1>1. /\ msg' = msg /\ got' = got
      /\ \E p \in {"poll", "exited"} : Idle(w, p)
      /\ \A v \in Relays : v # w => ctxDone'[v] = ctxDone[v]
    BY DEF Exit, Crash, Restart, OutboxInv, Typed, TypeOK
<1>2. Shrinks /\ HeldOnce' /\ Held(w)' = {}
    BY <1>1, IdleShrinks DEF OutboxInv
<1>3. \A s \in orphans' : s \in orphans \/ s.kind = "renew" \/ Justified(s)
    <2>1. CASE Crash(w)
        BY <1>1, <1>2, <2>1, AbandonJustified DEF Crash
    <2>2. CASE Exit(w) \/ Restart(w)
        BY <2>2 DEF Exit, Restart
    <2>. QED BY <2>1, <2>2
<1>. QED BY <1>1, <1>2, <1>3, SameTable, SameGot, LinkStep DEF OutboxInv

LEMMA CancelLinks ==
    ASSUME OutboxInv, Typed', NEW w \in Relays, Cancel(w)
    PROVE  HeldOnce' /\ Links'
<1>1. /\ UNCHANGED <<msg, pc, prefix, batch, cur, got>>
      /\ ctxDone' = [ctxDone EXCEPT ![w] = TRUE] /\ Abandon(w)
    BY DEF Cancel
<1>2. ctxDone'[w] /\ \A v \in Relays : v # w => ctxDone'[v] = ctxDone[v]
    BY <1>1 DEF OutboxInv, Typed, TypeOK
<1>3. Shrinks
    BY <1>1, <1>2 DEF Shrinks, Held
<1>4. HeldOnce'
    BY <1>1 DEF OutboxInv, HeldOnce, Active
<1>5. Settling(w) => Held(w)' \subseteq batch[w]
    BY <1>1, <1>2 DEF Settling, Held
<1>6. \A s \in orphans' : s \in orphans \/ s.kind = "renew" \/ Justified(s)
    BY <1>1, <1>3, <1>5, AbandonJustified
<1>. QED BY <1>1, <1>3, <1>4, <1>6, SameTable, SameGot, LinkStep DEF OutboxInv

LEMMA OrphanLandsLinks ==
    ASSUME OutboxInv, Typed', NEW s \in orphans, OrphanLands(s)
    PROVE  HeldOnce' /\ Links'
<1>1. /\ UNCHANGED <<pc, prefix, batch, cur, ctxDone, got>>
      /\ Exec(s) /\ orphans' = orphans \ {s}
    BY DEF OrphanLands, relayVars
<1>2. Shrinks /\ HeldOnce' /\ s \in Statement /\ Remembered
    BY <1>1, SameHoldings, SameGot DEF OutboxInv, Typed, TypeOK
<1>3. ASSUME s.kind # "renew"
      PROVE  /\ \A v \in Relays : prefix'[v] = s.claim_token =>
                    \A r \in Held(v)' : r.id # s.id
             /\ \A t \in orphans' : t.kind # "renew" /\ t.id = s.id
                                        => t.claim_token # s.claim_token
    <2>1. \A v \in Relays : prefix'[v] = s.claim_token =>
                    \A r \in Held(v)' : r.id # s.id
        BY <1>1, <1>2, <1>3 DEF OutboxInv, Links, OutcomesReleased, Shrinks
    <2>2. \A t \in orphans' : t.kind # "renew" /\ t.id = s.id
                                        => t.claim_token # s.claim_token
        BY <1>1, <1>3 DEF OutboxInv, Links, OutcomesUnique
    <2>. QED BY <2>1, <2>2
<1>. QED BY <1>1, <1>2, <1>3, ExecStep DEF OutboxInv

\* Producers add rows that no claim refers to, and time passing changes none.
LEMMA OutsideLinks ==
    ASSUME OutboxInv, Typed', Tick \/ \E call \in Calls : Enqueue(call)
    PROVE  HeldOnce' /\ Links'
<1>1. UNCHANGED <<pc, prefix, batch, cur, ctxDone, orphans, got>>
    BY DEF Tick, Enqueue, relayVars
<1>2. Shrinks /\ HeldOnce' /\ Remembered
    BY <1>1, SameHoldings, SameGot DEF OutboxInv
<1>3. ASSUME NEW m \in Messages, Tick
      PROVE  Kept(m) \/ Loose(m)
    <2>1. msg'[m] = Aged(msg[m]) /\ msg[m] \in Row \cup {NoRow}
        BY <1>3 DEF Tick, OutboxInv, Typed, TypeOK
    <2>2. CASE msg[m] = NoRow
        BY <2>1, <2>2 DEF Aged, Loose, Exists
    <2>3. CASE msg[m] \in Row
        BY <2>1, <2>3, AgedRow, NullsAssumption DEF Kept, Same, Exists
    <2>. QED BY <2>1, <2>2, <2>3
<1>4. ASSUME NEW m \in Messages, NEW call \in Calls, Enqueue(call)
      PROVE  Kept(m) \/ Loose(m)
    <2>1. CASE m = call.id
        <3>1. msg'[m] = NewRow(call)
            BY <1>4, <2>1 DEF Enqueue, OutboxInv, Typed, TypeOK
        <3>. QED BY <3>1, FreedLoose DEF NewRow
    <2>2. CASE m # call.id
        BY <1>4, <2>2, Untouched DEF Enqueue, OutboxInv, Typed, TypeOK
    <2>. QED BY <2>1, <2>2
<1>. QED BY <1>1, <1>2, <1>3, <1>4, LinkStep DEF OutboxInv

-----------------------------------------------------------------------------
(* The invariant and what follows from it.                                 *)

LEMMA OutboxInvInit == Init => OutboxInv
<1>1. Init => FaultsSpent /\ OpenBelowLimit /\ Deliveries /\ HeldOnce
    BY ConstantsAssumption
    DEF Init, RelaysInit, FaultsSpent, OpenBelowLimit, Open, Exists, Deliveries, Delivery,
        HeldOnce, Active
<1>2. Init => Links
    BY DEF Init, RelaysInit, Links, PrefixesDistinct, OutcomesReleased, OutcomesUnique,
           OrphansRight, SnapshotFresh, Held
<1>. QED BY <1>1, <1>2, TypedInit DEF OutboxInv

LEMMA OutboxInvNext ==
    ASSUME OutboxInv, [Next]_vars
    PROVE  OutboxInv'
<1>1. Typed' /\ TableStep
    BY TypedNext, NextTable DEF OutboxInv
<1>2. FaultsSpent' /\ Deliveries' /\ OpenBelowLimit'
    BY <1>1, FaultsNext, DeliveriesNext, TableBelowLimit DEF OutboxInv
<1>3. CASE UNCHANGED vars
    <2>1. /\ Shrinks /\ HeldOnce' /\ Remembered /\ orphans' = orphans
          /\ \A m \in Messages : Kept(m) \/ Loose(m)
        BY <1>3, SameHoldings, SameGot, SameTable DEF vars, relayVars, OutboxInv
    <2>. QED BY <1>1, <1>2, <2>1, LinkStep DEF OutboxInv
<1>4. ASSUME NEW w \in Relays, RelayStep(w) \/ Disturbance(w) \/ Restart(w)
      PROVE  HeldOnce' /\ Links'
    BY <1>1, <1>4, ClaimLinks, ClaimLostLinks, RenewLinks, DeliverLinks, RecordLinks,
       RecordErrorLinks, LeaveLinks, CancelLinks
    DEF RelayStep, Disturbance
<1>5. ASSUME NEW s \in orphans, OrphanLands(s)
      PROVE  HeldOnce' /\ Links'
    BY <1>1, <1>5, OrphanLandsLinks
<1>6. CASE Tick \/ \E call \in Calls : Enqueue(call)
    BY <1>1, <1>2, <1>6, OutsideLinks DEF OutboxInv
<1>. QED BY <1>1, <1>2, <1>3, <1>4, <1>5, <1>6 DEF Next, OutboxInv

\* Every reachable state satisfies the inductive invariant.
THEOREM OutboxInvariance == Spec => []OutboxInv
BY OutboxInvInit, OutboxInvNext, PTL DEF Spec

\* The attempt count and limit a relay decides by (processBatch in
\* outbox/outbox.go) are those of the row for as long as its claim is good, and
\* a message held under a good claim is not settled.
THEOREM OutboxSnapshotFresh == Spec => []SnapshotFresh
<1>1. OutboxInv => SnapshotFresh
    BY DEF OutboxInv, Links
<1>. QED BY <1>1, OutboxInvariance, PTL

-----------------------------------------------------------------------------
(* No lease changes after stop.                                            *)

\* The lease of message m does not grow, or it is claimed, or it is renewed by
\* a relay that is delivering it.
LeaseStill(m) ==
    /\ faults = MaxFaults
    /\ Exists(m)
    /\ msg'[m].locked_until > msg[m].locked_until
    => \/ Claimable(m)
       \/ \E w \in Relays : pc[w] = "deliver" /\ cur[w].id = m /\ Current(w, cur[w])

LEMMA NextLeaseStill ==
    ASSUME OutboxInv, [Next]_vars, NEW m \in Messages
    PROVE  LeaseStill(m)
<1>1. SUFFICES ASSUME faults = MaxFaults, Exists(m),
                      msg'[m].locked_until > msg[m].locked_until
               PROVE  \/ Claimable(m)
                      \/ \E w \in Relays : /\ pc[w] = "deliver" /\ cur[w].id = m
                                           /\ Current(w, cur[w])
    BY DEF LeaseStill
<1>2. msg[m] \in Row /\ msg[m].locked_until \in Nat
    BY <1>1 DEF OutboxInv, Typed, TypeOK, Exists, Row
<1>3. msg'[m] # msg[m] /\ orphans = {}
    BY <1>1, <1>2 DEF OutboxInv, FaultsSpent
<1>4. ASSUME NEW w \in Relays, Claim(w) \/ ClaimLost(w)
      PROVE  Claimable(m)
    <2>1. /\ \E S \in ClaimSets : Stamp(S, FreshPrefix)
          /\ FreshPrefix \in Tokens
        BY <1>4, FreshToken DEF Claim, ClaimLost
    <2>. QED BY <1>3, <2>1, StampedRows DEF OutboxInv, Typed
<1>5. ASSUME NEW w \in Relays, RenewReply(w)
      PROVE  pc[w] = "deliver" /\ cur[w].id = m /\ Current(w, cur[w])
    <2>1. pc[w] = "deliver"
        BY <1>5 DEF RenewReply, OutboxInv, Typed, RelayShape
    <2>2. Matches(RenewStmt(w)) /\ RenewStmt(w).id = m
        BY <1>3, <1>5 DEF RenewReply, Exec, OutboxInv, Typed, TypeOK
    <2>3. RenewStmt(w).id = cur[w].id /\ RenewStmt(w).claim_token = prefix[w]
        BY DEF RenewStmt
    <2>. QED BY <2>1, <2>2, <2>3 DEF Matches, Current
<1>6. ASSUME NEW w \in Relays, Record(w)
      PROVE  FALSE
    <2>1. ~ctxDone[w] /\ pc[w] = "record"
        BY <1>3, <1>6 DEF Record
    <2>2. PICK d \in Backoffs : Exec(OutcomeStmt(w, d))
        BY <1>6, <2>1 DEF Record
    <2>. DEFINE s == OutcomeStmt(w, d)
    <2>3. s \in Statement /\ s.kind # "renew"
        BY <2>1, OutcomeFacts DEF Settling
    <2>4. Exec(s)
        BY <2>2
    <2>. HIDE DEF s
    <2>5. msg'[m] = Effect(s, msg[m])
        BY <1>3, <2>4 DEF Exec, OutboxInv, Typed, TypeOK
    <2>6. msg'[m].locked_until \in {0, msg[m].locked_until}
        BY <1>2, <2>3, <2>5, EffectRow
    <2>. QED BY <1>1, <1>2, <2>6
<1>7. ASSUME NEW call \in Calls, Enqueue(call)
      PROVE  FALSE
    BY <1>1, <1>3, <1>7 DEF Enqueue, OutboxInv, Typed, TypeOK
<1>8. CASE Tick
    <2>1. msg'[m] = Aged(msg[m])
        BY <1>8 DEF Tick
    <2>2. /\ Aged(msg[m]) \in Row
          /\ Aged(msg[m]).locked_until <= msg[m].locked_until
        BY <1>2, AgedRow
    <2>3. Aged(msg[m]).locked_until \in Nat
        BY <2>2 DEF Row
    <2>. QED BY <1>1, <1>2, <2>1, <2>2, <2>3
<1>. QED
    BY <1>3, <1>4, <1>5, <1>6, <1>7, <1>8
    DEF Next, RelayStep, Disturbance, vars, RenewSend, RenewError, CallHandler,
        HandlerCalled, StopRenewal, Stopped, RecordError, Exit, Cancel, Crash, Restart

\* As long as nothing is disturbed, no renewal changes a lease after stop has
\* returned (startLeaseRenewal in outbox/outbox.go).
THEOREM LeaseStillAfterStopHolds == Spec => LeaseStillAfterStop
<1>1. OutboxInv /\ [Next]_vars => [\A m \in Messages : LeaseStill(m)]_vars
    BY NextLeaseStill
<1>2. OutboxInv /\ [Next]_vars =>
        [\A m \in Messages :
            /\ faults = MaxFaults
            /\ Exists(m)
            /\ msg'[m].locked_until > msg[m].locked_until
            => \/ Claimable(m)
               \/ \E w \in Relays : pc[w] = "deliver" /\ cur[w].id = m
                                        /\ Current(w, cur[w])]_vars
    BY <1>1 DEF LeaseStill
<1>. QED BY <1>2, OutboxInvariance, PTL DEF Spec, LeaseStillAfterStop

-----------------------------------------------------------------------------
(* The outbox is a leased queue.                                           *)

\* What the leased queue sees of message m does not change.
SameItem(m) ==
    /\ Phase(m)' = Phase(m)
    /\ Exists(m)' = Exists(m)
    /\ Exists(m) => /\ msg'[m].attempt = msg[m].attempt
                    /\ msg'[m].max_attempts = msg[m].max_attempts

LEMMA SamePhase ==
    ASSUME NEW m \in Messages, Same(m)
    PROVE  SameItem(m)
BY DEF SameItem, Same, Phase, Exists

LEMMA InitQueue == Init => LQ!Init
<1>1. SUFFICES ASSUME Init PROVE LQ!Init
    OBVIOUS
<1>2. \A m \in Messages : ~Exists(m) /\ Phase(m) = "absent"
    BY <1>1 DEF Init, Phase, Exists
<1>3. ASSUME NEW m \in Messages
      PROVE  Delivered(m) = FALSE
    <2>1. HandlersFor[m] \in Seq(Handlers) /\ got[m] = {}
        BY <1>1, ConstantsAssumption DEF Init, RelaysInit
    <2>2. CASE HandlersFor[m] = <<>>
        BY <2>2 DEF Delivered
    <2>3. CASE HandlersFor[m] # <<>>
        <3>1. 1 \in 1..Len(HandlersFor[m])
            BY <2>1, <2>3, EmptySeq, LenProperties
        <3>. QED BY <2>1, <3>1 DEF Delivered
    <2>. QED BY <2>2, <2>3
<1>. QED BY <1>2, <1>3 DEF LQ!Init

\* A step that changes no row is a delivery or a stutter of the queue.
LEMMA HandlerQueue ==
    ASSUME OutboxInv, [Next]_vars, \A m \in Messages : Same(m)
    PROVE  LQ!Next \/ UNCHANGED LQ!vars
<1>1. \A m \in Messages : SameItem(m)
    BY SamePhase
<1>2. CASE got' = got
    <2>1. \A m \in Messages : Delivered(m)' = Delivered(m)
        BY <1>2 DEF Delivered
    <2>. QED BY <1>1, <2>1 DEF SameItem, LQ!vars
<1>3. CASE got' # got
    <2>1. PICK w \in Relays : \E res \in {"ok", "err"} : CallHandler(w, res)
        BY <1>3
        DEF Next, RelayStep, Disturbance, Claim, ClaimLost, RenewSend, RenewReply,
            RenewError, StopRenewal, Stopped, Record, RecordError, Exit, Cancel, Crash,
            Restart, OrphanLands, Enqueue, Tick, vars
    <2>2. pc[w] = "deliver" /\ \E h : got' = [got EXCEPT ![cur[w].id] = @ \cup {h}]
        BY <1>3, <2>1 DEF CallHandler, HandlerCalled
    <2>3. PICK i \in Messages : /\ Exists(i)
                                /\ \E h : got' = [got EXCEPT ![i] = @ \cup {h}]
        BY <2>2 DEF OutboxInv, Deliveries, Delivery, Active, Typed, RelayShape, OutboxRow
    <2>4. /\ \A m \in Messages \ {i} : got'[m] = got[m]
          /\ got[i] \subseteq got'[i]
        BY <2>3 DEF OutboxInv, Typed, TypeOK
    <2>5. \A m \in Messages \ {i} : Delivered(m)' = Delivered(m)
        BY <2>4 DEF Delivered
    <2>6. Delivered(i) => Delivered(i)'
        BY <2>4 DEF Delivered
    <2>7. CASE Delivered(i)' = Delivered(i)
        <3>1. \A m \in Messages : Delivered(m)' = Delivered(m)
            BY <2>5, <2>7
        <3>. QED BY <1>1, <3>1 DEF SameItem, LQ!vars
    <2>8. CASE Delivered(i)' # Delivered(i)
        <3>1. Delivered(i)' = TRUE
            BY <2>6, <2>8 DEF Delivered
        <3>2. Phase(i) # "absent"
            BY <2>3 DEF Phase
        <3>3. LQ!Deliver(i)
            BY <1>1, <2>3, <2>5, <3>1, <3>2 DEF SameItem, LQ!Deliver
        <3>. QED BY <2>3, <3>3 DEF LQ!Next
    <2>. QED BY <2>7, <2>8
<1>. QED BY <1>2, <1>3

\* A row that changes is submitted, completed, retried or given up.
LEMMA RowQueue ==
    ASSUME NEW i \in Messages, RowStep(i), \A n \in Messages \ {i} : Same(n), got' = got
    PROVE  LQ!Next
<1>1. \A n \in Messages \ {i} : SameItem(n)
    BY SamePhase
<1>2. \A m \in Messages : Delivered(m)' = Delivered(m)
    BY DEF Delivered
<1>3. CASE Submitted(i)
    <2>1. Phase(i) = "absent" /\ Phase(i)' = "waiting" /\ ~Exists(i) /\ Exists(i)'
        BY <1>3 DEF Submitted, Phase, Open
    <2>2. LQ!Submit(i)
        BY <1>1, <1>2, <1>3, <2>1 DEF Submitted, SameItem, LQ!Submit
    <2>. QED BY <2>2 DEF LQ!Next
<1>4. CASE Completed(i)
    <2>1. Phase(i) = "waiting" /\ Phase(i)' = "done" /\ Exists(i) /\ Exists(i)'
        BY <1>4 DEF Completed, Phase, Open
    <2>2. LQ!Complete(i)
        BY <1>1, <1>2, <1>4, <2>1 DEF Completed, SameItem, LQ!Complete
    <2>. QED BY <2>2 DEF LQ!Next
<1>5. CASE Retried(i)
    <2>1. Phase(i) = "waiting" /\ Phase(i)' = "waiting" /\ Exists(i) /\ Exists(i)'
        BY <1>5 DEF Retried, Phase, Open
    <2>2. LQ!Retry(i)
        BY <1>1, <1>2, <1>5, <2>1 DEF Retried, SameItem, LQ!Retry
    <2>. QED BY <2>2 DEF LQ!Next
<1>6. CASE GivenUp(i)
    <2>1. Phase(i) = "waiting" /\ Phase(i)' = "dead" /\ Exists(i) /\ Exists(i)'
        BY <1>6 DEF GivenUp, Phase, Open
    <2>2. LQ!GiveUp(i)
        BY <1>1, <1>2, <1>6, <2>1 DEF GivenUp, SameItem, LQ!GiveUp
    <2>. QED BY <2>2 DEF LQ!Next
<1>. QED BY <1>3, <1>4, <1>5, <1>6 DEF RowStep

\* Every step of the outbox is a step of the leased queue, or none.
LEMMA NextQueue ==
    ASSUME OutboxInv, [Next]_vars
    PROVE  LQ!Next \/ UNCHANGED LQ!vars
<1>1. TableStep
    BY NextTable
<1>2. CASE \A m \in Messages : Same(m)
    BY <1>2, HandlerQueue
<1>3. CASE msg' = msg
    BY <1>3, SameTable, HandlerQueue
<1>4. got' = got \/ msg' = msg
    BY DEF Next, RelayStep, Disturbance, Claim, ClaimLost, RenewSend, RenewReply,
           RenewError, CallHandler, HandlerCalled, StopRenewal, Stopped, Record,
           RecordError, Exit, Cancel, Crash, Restart, OrphanLands, Enqueue, Tick, vars
<1>5. CASE got' = got /\ \E i \in Messages : RowStep(i) /\ \A n \in Messages \ {i} : Same(n)
    BY <1>5, RowQueue
<1>. QED BY <1>1, <1>2, <1>3, <1>4, <1>5 DEF TableStep

\* The outbox implements the leased queue, whatever relays, leases, crashes and
\* late statements do: processed_at is set only after every handler completed
\* the message, failures are counted one by one up to max_attempts, and a
\* message once processed or failed stays as it is (outbox/outbox.go, the
\* statements guarded by claim_token).
THEOREM ImplementsLeasedQueueHolds == Spec => ImplementsLeasedQueue
<1>1. OutboxInv /\ [Next]_vars => [LQ!Next]_(LQ!vars)
    BY NextQueue
<1>. QED BY <1>1, InitQueue, OutboxInvariance, PTL DEF Spec, ImplementsLeasedQueue, LQ!Spec

-----------------------------------------------------------------------------
(* What the phase of a message tells.                                      *)

LEMMA QueueTyped == OutboxInv => LQ!TypeOK
<1>1. SUFFICES ASSUME OutboxInv PROVE LQ!TypeOK
    OBVIOUS
<1>2. ASSUME NEW m \in Messages
      PROVE  /\ Phase(m) \in {"absent", "waiting", "done", "dead"}
             /\ (IF Exists(m) THEN msg[m].attempt ELSE 0) \in Nat
             /\ (IF Exists(m) THEN msg[m].max_attempts ELSE 0) \in Nat
             /\ Delivered(m) \in BOOLEAN
    BY <1>1 DEF Phase, Delivered, Exists, OutboxInv, Typed, TypeOK, Row
<1>. QED BY <1>2 DEF LQ!TypeOK

\* A step of the leased queue keeps what its phases tell.
LEMMA QueuePhases ==
    ASSUME LQ!TypeOK, LQ!PhaseTells, LQ!Next
    PROVE  LQ!PhaseTells'
<1>1. PICK i \in Messages : LQ!Submit(i) \/ LQ!Deliver(i) \/ LQ!Complete(i)
                                \/ LQ!Retry(i) \/ LQ!GiveUp(i)
    BY DEF LQ!Next
<1>2. CASE LQ!Submit(i)
    <2>1. PICK p, q, t, l, k, d :
            /\ p = [m \in Messages |-> Phase(m)] /\ q = [m \in Messages |-> Phase(m)']
            /\ t = [m \in Messages |-> IF Exists(m) THEN msg[m].attempt ELSE 0]
            /\ l = [m \in Messages |-> IF Exists(m) THEN msg[m].max_attempts ELSE 0]
            /\ k = [m \in Messages |-> IF Exists(m)' THEN msg'[m].max_attempts ELSE 0]
            /\ d = [m \in Messages |-> Delivered(m)]
        OBVIOUS
    <2>2. /\ q = [p EXCEPT ![i] = "waiting"] /\ p[i] = "absent"
          /\ k[i] \in Nat \ {0} /\ k = [l EXCEPT ![i] = k[i]]
          /\ t = [m \in Messages |-> IF Exists(m)' THEN msg'[m].attempt ELSE 0]
          /\ d = [m \in Messages |-> Delivered(m)']
        BY <1>2, <2>1 DEF LQ!Submit
    <2>3. \A m \in Messages : /\ p[m] = "absent" => t[m] = 0
                              /\ p[m] = "waiting" => t[m] < l[m]
                              /\ p[m] = "done" => d[m]
                              /\ p[m] = "dead" => t[m] = l[m]
        BY <2>1 DEF LQ!PhaseTells
    <2>4. \A m \in Messages : /\ q[m] = "absent" => t[m] = 0
                              /\ q[m] = "waiting" => t[m] < k[m]
                              /\ q[m] = "done" => d[m]
                              /\ q[m] = "dead" => t[m] = k[m]
        <3>1. p = [m \in Messages |-> p[m]] /\ l = [m \in Messages |-> l[m]]
            BY <2>1
        <3>. QED BY <2>2, <2>3, <3>1
    <2>. QED BY <2>1, <2>2, <2>4 DEF LQ!PhaseTells
<1>3. CASE LQ!Deliver(i)
    BY <1>3, ZenonT(60) DEF LQ!TypeOK, LQ!PhaseTells, LQ!Deliver
<1>4. CASE LQ!Complete(i)
    BY <1>4, ZenonT(60) DEF LQ!TypeOK, LQ!PhaseTells, LQ!Complete
<1>5. CASE LQ!Retry(i)
    BY <1>5, ZenonT(60) DEF LQ!TypeOK, LQ!PhaseTells, LQ!Retry
<1>6. CASE LQ!GiveUp(i)
    BY <1>6, ZenonT(60) DEF LQ!TypeOK, LQ!PhaseTells, LQ!GiveUp
<1>. QED BY <1>1, <1>2, <1>3, <1>4, <1>5, <1>6

LEMMA PhasesStep ==
    ASSUME OutboxInv, LQ!PhaseTells, [Next]_vars
    PROVE  LQ!PhaseTells'
<1>1. LQ!TypeOK /\ (LQ!Next \/ UNCHANGED LQ!vars)
    BY QueueTyped, NextQueue
<1>2. CASE UNCHANGED LQ!vars
    BY <1>2 DEF LQ!vars, LQ!PhaseTells
<1>. QED BY <1>1, <1>2, QueuePhases

\* What the columns of a message tell is true (outbox/outbox.go): one with
\* processed_at was completed by every handler registered for its type, one with
\* failed_at has had as many failed deliveries as it may have, and one with
\* neither will be tried again.
THEOREM PhasesTrue == Spec => []LQ!PhaseTells
<1>1. Init => LQ!PhaseTells
    <2>1. LQ!Init => LQ!PhaseTells
        BY DEF LQ!Init, LQ!PhaseTells
    <2>. QED BY <2>1, InitQueue
<1>2. OutboxInv /\ LQ!PhaseTells /\ [Next]_vars => LQ!PhaseTells'
    BY PhasesStep
<1>. QED BY <1>1, <1>2, OutboxInvariance, PTL DEF Spec

-----------------------------------------------------------------------------
(* Leases.                                                                 *)

\* Two relays never hold a message under the token that is in the table.
SingleRelay ==
    \A v, w \in Relays : \A r \in Held(v), q \in Held(w) :
        r.id = q.id /\ Current(v, r) /\ Current(w, q) => v = w

LEMMA OneRelay == OutboxInv => SingleRelay
<1>1. SUFFICES ASSUME OutboxInv, NEW v \in Relays, NEW w \in Relays,
                      NEW r \in Held(v), NEW q \in Held(w),
                      r.id = q.id, Current(v, r), Current(w, q)
               PROVE  v = w
    BY DEF SingleRelay
<1>2. prefix[v] = prefix[w] /\ prefix[v] # NULL
    BY <1>1, HeldTyped DEF Current, OutboxInv
<1>. QED BY <1>1, <1>2 DEF OutboxInv, Links, PrefixesDistinct

\* At most one relay can renew a message or record what became of it, for any
\* number of relays (claim and the guarded statements of outbox/outbox.go).
THEOREM SingleRelayHolds == Spec => []SingleRelay
BY OneRelay, OutboxInvariance, PTL

\* A relay that holds something before and after a step does so under the same
\* claim prefix.
LEMMA SamePrefix ==
    ASSUME OutboxInv, [Next]_vars, NEW w \in Relays, Held(w) # {}, Held(w)' # {}
    PROVE  prefix'[w] = prefix[w]
<1>1. CASE prefix' = prefix
    BY <1>1
<1>2. ASSUME NEW v \in Relays, Claim(v)
      PROVE  prefix'[w] = prefix[w]
    <2>1. prefix' = [prefix EXCEPT ![v] = FreshPrefix] /\ pc[v] = "poll"
        BY <1>2 DEF Claim
    <2>2. Held(v) = {}
        BY <2>1 DEF OutboxInv, Typed, RelayShape, Active, Held
    <2>3. w # v
        BY <2>2
    <2>. QED BY <2>1, <2>3 DEF OutboxInv, Typed, TypeOK
<1>3. ASSUME NEW v \in Relays, NEW p \in {"poll", "exited"}, Idle(v, p)
      PROVE  prefix'[w] = prefix[w]
    <2>1. Held(v)' = {}
        BY <1>3 DEF Idle, Held, OutboxInv, Typed, TypeOK
    <2>2. w # v
        BY <2>1
    <2>. QED BY <1>3, <2>2 DEF Idle, OutboxInv, Typed, TypeOK
<1>4. ASSUME NEW v \in Relays, Record(v) \/ RecordError(v)
      PROVE  prefix'[w] = prefix[w]
    <2>1. Idle(v, "poll") \/ prefix' = prefix
        BY <1>4 DEF Record, RecordError, Advance
    <2>. QED BY <1>3, <2>1
<1>5. ASSUME NEW v \in Relays, Exit(v) \/ Crash(v) \/ Restart(v)
      PROVE  prefix'[w] = prefix[w]
    <2>1. Idle(v, "poll") \/ Idle(v, "exited")
        BY <1>5 DEF Exit, Crash, Restart
    <2>. QED BY <1>3, <2>1
<1>. QED
    BY <1>1, <1>2, <1>4, <1>5
    DEF Next, RelayStep, Disturbance, vars, relayVars, ClaimLost, RenewSend, RenewReply,
        RenewError, CallHandler, HandlerCalled, StopRenewal, Stopped, Cancel,
        OrphanLands, Enqueue, Tick

\* The row is there after the step, with the claim token it had.
TokenKept(m) == Exists(m)' /\ msg'[m].claim_token = msg[m].claim_token

\* Only an outcome takes the token from a row whose claim it carries.
LEMMA ExecToken ==
    ASSUME Typed, NEW s \in Statement, Exec(s), NEW m \in Messages, Exists(m)
    PROVE  TokenKept(m) \/ (s.kind # "renew" /\ s.id = m /\ Hits(s))
<1>1. CASE ~Matches(s) \/ m # s.id
    <2>1. msg'[m] = msg[m]
        BY <1>1 DEF Exec, Typed, TypeOK
    <2>. QED BY <2>1 DEF TokenKept, Exists
<1>2. CASE Matches(s) /\ m = s.id /\ s.kind = "renew"
    <2>1. msg'[m] = Effect(s, msg[m]) /\ msg[m] \in Row
        BY <1>2 DEF Exec, Exists, Typed, TypeOK
    <2>2. msg'[m] \in Row /\ msg'[m].claim_token = msg[m].claim_token
        BY <1>2, <2>1, EffectRow
    <2>. QED BY <2>2, NullsAssumption DEF TokenKept, Exists
<1>3. CASE Matches(s) /\ m = s.id /\ s.kind # "renew"
    BY <1>3 DEF Matches, Hits
<1>. QED BY <1>1, <1>2, <1>3

\* A message that a relay holds under an unexpired lease keeps its token until the
\* relay lets go of it.
LEMMA LeasedRow ==
    ASSUME OutboxInv, [Next]_vars, NEW w \in Relays, NEW r \in Held(w), Current(w, r),
           msg[r.id].locked_until > 0
    PROVE  TokenKept(r.id) \/ r \notin Held(w)'
<1>1. /\ r.id \in Messages /\ Exists(r.id)
      /\ msg[r.id].claim_token = prefix[w] /\ prefix[w] # NULL
    BY HeldTyped DEF OutboxInv, Current, OutboxRow
<1>2. CASE msg' = msg
    BY <1>1, <1>2 DEF TokenKept, Exists
<1>3. ASSUME NEW v \in Relays, Claim(v) \/ ClaimLost(v)
      PROVE  TokenKept(r.id)
    <2>1. PICK S \in ClaimSets : Stamp(S, FreshPrefix)
        BY <1>3 DEF Claim, ClaimLost
    <2>2. r.id \notin S
        BY DEF ClaimSets, Claimable
    <2>3. msg'[r.id] = msg[r.id]
        BY <1>1, <2>1, <2>2 DEF Stamp
    <2>. QED BY <1>1, <2>3 DEF TokenKept, Exists
<1>4. ASSUME NEW v \in Relays, RenewReply(v)
      PROVE  TokenKept(r.id)
    <2>1. RenewStmt(v) \in Statement /\ RenewStmt(v).kind = "renew" /\ Exec(RenewStmt(v))
        BY <1>4, RenewType DEF RenewReply, OutboxInv, RenewStmt
    <2>. QED BY <1>1, <2>1, ExecToken DEF OutboxInv
<1>5. ASSUME NEW v \in Relays, Record(v), ~ctxDone[v]
      PROVE  TokenKept(r.id) \/ r \notin Held(w)'
    <2>1. PICK d \in Backoffs : Exec(OutcomeStmt(v, d))
        BY <1>5 DEF Record
    <2>. DEFINE s == OutcomeStmt(v, d)
    <2>2. Settling(v) /\ pc[v] = "record" /\ Advance(v) /\ ctxDone' = ctxDone
        BY <1>5 DEF Record, Settling
    <2>3. /\ s \in Statement /\ Exec(s)
          /\ s.claim_token = prefix[v]
          /\ \A u \in Relays : prefix[u] = s.claim_token => u = v
          /\ \A q \in batch[v] : q.id # s.id
        BY <2>1, <2>2, OutcomeFacts
    <2>. HIDE DEF s
    <2>4. CASE s.id = r.id /\ Hits(s)
        <3>1. w = v
            BY <1>1, <2>3, <2>4 DEF Hits
        <3>2. Held(w)' = batch[w]
            BY <2>2, <3>1, AdvanceShrinks DEF OutboxInv
        <3>. QED BY <2>3, <2>4, <3>1, <3>2
    <2>. QED BY <1>1, <2>3, <2>4, ExecToken DEF OutboxInv
<1>6. ASSUME NEW s \in orphans, OrphanLands(s)
      PROVE  TokenKept(r.id)
    <2>1. s \in Statement /\ Exec(s)
        BY <1>6 DEF OrphanLands, OutboxInv, Typed, TypeOK
    <2>2. ~(s.kind # "renew" /\ s.id = r.id /\ Hits(s))
        BY <1>1 DEF OutboxInv, Links, OutcomesReleased, Hits
    <2>. QED BY <1>1, <2>1, <2>2, ExecToken DEF OutboxInv
<1>7. ASSUME NEW call \in Calls, Enqueue(call)
      PROVE  TokenKept(r.id)
    <2>1. msg'[r.id] = msg[r.id]
        BY <1>1, <1>7 DEF Enqueue, OutboxInv, Typed, TypeOK
    <2>. QED BY <1>1, <2>1 DEF TokenKept, Exists
<1>8. CASE Tick
    <2>1. msg[r.id] \in Row /\ msg'[r.id] = Aged(msg[r.id])
        BY <1>1, <1>8 DEF Tick, Exists, OutboxInv, Typed, TypeOK
    <2>2. Aged(msg[r.id]) \in Row /\ Aged(msg[r.id]).claim_token = msg[r.id].claim_token
        BY <2>1, AgedRow
    <2>. QED BY <2>1, <2>2, NullsAssumption DEF TokenKept, Exists
<1>. QED
    BY <1>2, <1>3, <1>4, <1>5, <1>6, <1>7, <1>8
    DEF Next, RelayStep, Disturbance, vars, RenewSend, RenewError, CallHandler,
        HandlerCalled, StopRenewal, Stopped, Record, RecordError, Exit, Cancel, Crash,
        Restart

LEMMA LeaseStep ==
    ASSUME OutboxInv, [Next]_vars, NEW w \in Relays, NEW r \in Held(w), Current(w, r),
           msg[r.id].locked_until > 0, r \in Held(w)'
    PROVE  Exists(r.id)' /\ msg'[r.id].claim_token = prefix'[w]
<1>1. TokenKept(r.id)
    BY LeasedRow
<1>2. prefix'[w] = prefix[w]
    BY SamePrefix
<1>. QED BY <1>1, <1>2 DEF TokenKept, Current

\* A relay whose lease of a message has not run out loses its claim only by letting
\* go of the message.
LeaseRespected ==
    [][\A w \in Relays : \A r \in Held(w) :
            /\ Current(w, r)
            /\ msg[r.id].locked_until > 0
            => Current(w, r)' \/ r \notin Held(w)']_vars

\* An unexpired lease is exclusive (claim and the guarded statements of
\* outbox/outbox.go): no other relay and no late statement takes the message from
\* the relay that holds it.
THEOREM LeaseRespectedHolds == Spec => LeaseRespected
<1>1. OutboxInv /\ [Next]_vars =>
        [\A w \in Relays : \A r \in Held(w) :
            /\ Current(w, r)
            /\ msg[r.id].locked_until > 0
            => Current(w, r)' \/ r \notin Held(w)']_vars
    BY LeaseStep DEF Current
<1>. QED BY <1>1, OutboxInvariance, PTL DEF Spec, LeaseRespected

-----------------------------------------------------------------------------
(* A backlog.                                                              *)

\* The invariant does not need an empty table.
LEMMA BacklogInvInit == BacklogInit => OutboxInv /\ LQ!PhaseTells
<1>1. SUFFICES ASSUME BacklogInit PROVE OutboxInv /\ LQ!PhaseTells
    OBVIOUS
<1>2. ASSUME NEW m \in Messages
      PROVE  /\ msg[m] \in Row /\ Exists(m) /\ Phase(m) = "waiting"
             /\ msg[m].attempt < msg[m].max_attempts
    <2>1. PICK call \in Calls : call.max_attempts > 0 /\ msg[m] = NewRow(call)
        BY <1>1 DEF BacklogInit
    <2>2. NewRow(call) \in Row
        BY <2>1, ConstantsAssumption DEF NewRow, Row
    <2>3. msg[m].attempt = 0 /\ ~msg[m].processed /\ ~msg[m].failed
        BY <2>1 DEF NewRow
    <2>4. msg[m] \in Row /\ Exists(m)
        BY <2>1, <2>2, NullsAssumption DEF Exists
    <2>5. Phase(m) = "waiting"
        BY <2>3, <2>4 DEF Phase
    <2>6. msg[m].max_attempts \in Nat \ {0}
        BY <2>4 DEF Row
    <2>. QED BY <2>3, <2>4, <2>5, <2>6
<1>3. msg \in [Messages -> Row]
    BY <1>1, <1>2 DEF BacklogInit
<1>4. Typed
    BY <1>1, <1>3, ConstantsAssumption
    DEF BacklogInit, RelaysInit, Typed, TypeOK, RelayShape, Active
<1>5. FaultsSpent /\ OpenBelowLimit /\ Deliveries /\ HeldOnce
    BY <1>1, <1>2, ConstantsAssumption
    DEF BacklogInit, RelaysInit, FaultsSpent, OpenBelowLimit, Deliveries, Delivery,
        HeldOnce, Active
<1>6. Links
    BY <1>1
    DEF BacklogInit, RelaysInit, Links, PrefixesDistinct, OutcomesReleased,
        OutcomesUnique, OrphansRight, SnapshotFresh, Held
<1>7. LQ!PhaseTells
    BY <1>2 DEF LQ!PhaseTells
<1>. QED BY <1>4, <1>5, <1>6, <1>7 DEF OutboxInv

\* What is promised of a backlog, the specification under which the run checks
\* liveness: relays that start on a full table keep the snapshots, leases and
\* phases as they should be, and take steps of the leased queue only.
THEOREM OutboxBacklogSafe ==
    BacklogSpec => /\ []SnapshotFresh /\ []SingleRelay /\ []LQ!PhaseTells
                   /\ LeaseRespected
                   /\ [][LQ!Next]_(LQ!vars)
<1>1. [BacklogNext]_vars => [Next]_vars
    BY DEF BacklogNext, Next, PromptTick
<1>2. OutboxInv => SnapshotFresh /\ SingleRelay
    BY OneRelay DEF OutboxInv, Links
<1>3. OutboxInv /\ [Next]_vars => [LQ!Next]_(LQ!vars)
    BY NextQueue
<1>4. OutboxInv /\ [Next]_vars =>
        [\A w \in Relays : \A r \in Held(w) :
            /\ Current(w, r)
            /\ msg[r.id].locked_until > 0
            => Current(w, r)' \/ r \notin Held(w)']_vars
    BY LeaseStep DEF Current
<1>5. OutboxInv /\ LQ!PhaseTells /\ [Next]_vars => OutboxInv' /\ LQ!PhaseTells'
    BY OutboxInvNext, PhasesStep
<1>6. BacklogSpec => [](OutboxInv /\ LQ!PhaseTells)
    BY <1>1, <1>5, BacklogInvInit, PTL DEF BacklogSpec
<1>. QED BY <1>1, <1>2, <1>3, <1>4, <1>6, PTL DEF BacklogSpec, LeaseRespected
=============================================================================
