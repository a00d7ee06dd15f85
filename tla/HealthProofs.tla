---------------------------- MODULE HealthProofs ----------------------------
(***************************************************************************)
(* Proofs about Health for any sets of checks and requests, and any number *)
(* of registrations.                                                       *)
(***************************************************************************)
EXTENDS Health, TLAPS

-----------------------------------------------------------------------------
(* The inductive invariant.                                                *)

\* A probe belongs to a request being served, or answered, and to a check that
\* this request has seen.
ProbesSeen ==
    \A p \in Probes : probe[p] # "off" =>
        /\ request[p[1]] # "idle"
        /\ snapshot[p[1]][p[2]] # Absent

\* A check that returned has left its outcome behind, and no other has.
OutcomesReturned ==
    \A p \in Probes : outcome[p] # Absent <=> exec[p] \in {"returned", "gone"}

\* A probe says "ok" only of the check it has started itself.
AnswersEarned ==
    \A p \in Probes : answer[p] = "ok" => outcome[p] = "ok"

\* A check is started by its probe, once.
ExecsLaunched ==
    \A p \in Probes : probe[p] \in {"off", "new"} => exec[p] = "off"

Links == ProbesSeen /\ OutcomesReturned /\ AnswersEarned /\ ExecsLaunched

HealthInv == HealthTypeOK /\ Links /\ SingleFlight /\ ResultsOfRegistered /\ ReadyMeansChecked

-----------------------------------------------------------------------------
(* Types and links.                                                        *)

\* The parts of a probe.
LEMMA ProbeParts ==
    ASSUME NEW p \in Probes
    PROVE  p[1] \in Requests /\ p[2] \in Names /\ p = <<p[1], p[2]>>
BY DEF Probes

\* Two probes differ in their request or in their check.
LEMMA ProbeOf ==
    ASSUME NEW r \in Requests, NEW n \in Names
    PROVE  <<r, n>> \in Probes /\ <<r, n>>[1] = r /\ <<r, n>>[2] = n
BY DEF Probes

\* Every step keeps the types of the variables.
LEMMA TypeStep ==
    ASSUME HealthTypeOK, ProbesSeen, OutcomesReturned, [HealthNext]_healthVars
    PROVE  HealthTypeOK'
<1>. USE DEF HealthTypeOK
<1>1. ASSUME NEW n \in Names, RemoveCheck(n)
      PROVE  HealthTypeOK'
    BY <1>1 DEF RemoveCheck, requestVars
<1>2. ASSUME NEW n \in Names, NEW c \in Criticalities, Add(n, c)
      PROVE  HealthTypeOK'
    BY <1>2 DEF Add, requestVars, Entry
<1>3. ASSUME NEW r \in Requests, Serve(r)
      PROVE  HealthTypeOK'
    BY <1>3 DEF Serve, registryVars, ProbesSeen
<1>4. ASSUME NEW r \in Requests, Respond(r)
      PROVE  HealthTypeOK'
    BY <1>4 DEF Respond, registryVars
<1>5. ASSUME NEW p \in Probes, Busy(p)
      PROVE  HealthTypeOK'
    BY <1>5, HealthAssumption DEF Busy, SendAnswer, registryVars
<1>6. ASSUME NEW p \in Probes, Launch(p)
      PROVE  HealthTypeOK'
    BY <1>6, ProbeParts DEF Launch
<1>7. ASSUME NEW p \in Probes, Receive(p)
      PROVE  HealthTypeOK'
    BY <1>7, HealthAssumption DEF Receive, SendAnswer, registryVars
<1>8. ASSUME NEW p \in Probes, Timeout(p)
      PROVE  HealthTypeOK'
    BY <1>8, HealthAssumption DEF Timeout, SendAnswer, registryVars
<1>9. ASSUME NEW p \in Probes, Collect(p)
      PROVE  HealthTypeOK'
    <2>1. snapshot[p[1]][p[2]] \in Entry /\ p[2] \in Names /\ answer[p] \in {"ok", "error", "busy"}
        BY <1>9, ProbeParts DEF Collect, ProbesSeen
    <2>2. [status |-> answer[p], generation |-> snapshot[p[1]][p[2]].generation] \in Result
        BY <2>1 DEF Entry, Result
    <2>3. lastResults' \in [Names -> Result \cup {Absent}]
        BY <1>9, <2>1, <2>2 DEF Collect, RecordResult
    <2>. QED BY <1>9, <2>3 DEF Collect
<1>10. ASSUME NEW p \in Probes, CheckClears(p)
       PROVE  HealthTypeOK'
    BY <1>10 DEF CheckClears, requestVars
<1>11. ASSUME NEW p \in Probes, NEW v \in {"ok", "error"}, CheckReturns(p, v)
       PROVE  HealthTypeOK'
    BY <1>11 DEF CheckReturns, registryVars, requestVars
<1>12. CASE UNCHANGED healthVars
    BY <1>12 DEF healthVars, registryVars, requestVars
<1>. QED
    BY <1>1, <1>2, <1>3, <1>4, <1>5, <1>6, <1>7, <1>8, <1>9, <1>10, <1>11, <1>12
    DEF HealthNext, ProbeStep

\* Every step keeps what relates a probe to its request and to its check.
LEMMA LinksStep ==
    ASSUME HealthTypeOK, Links, [HealthNext]_healthVars
    PROVE  Links'
<1>. USE DEF HealthTypeOK, Links, ProbesSeen, OutcomesReturned, AnswersEarned, ExecsLaunched
<1>1. ASSUME NEW n \in Names, RemoveCheck(n) \/ \E c \in Criticalities : Add(n, c)
      PROVE  Links'
    BY <1>1 DEF RemoveCheck, Add, requestVars
<1>2. ASSUME NEW r \in Requests, Serve(r)
      PROVE  Links'
    BY <1>2, ProbeParts DEF Serve, registryVars
<1>3. ASSUME NEW r \in Requests, Respond(r)
      PROVE  Links'
    BY <1>3, ProbeParts DEF Respond, registryVars
<1>4. ASSUME NEW p \in Probes, Busy(p) \/ Timeout(p) \/ Receive(p)
      PROVE  Links'
    BY <1>4 DEF Busy, Timeout, Receive, SendAnswer, registryVars
<1>5. ASSUME NEW p \in Probes, Launch(p)
      PROVE  Links'
    BY <1>5 DEF Launch
<1>6. ASSUME NEW p \in Probes, Collect(p)
      PROVE  Links'
    BY <1>6 DEF Collect
<1>7. ASSUME NEW p \in Probes, CheckClears(p)
      PROVE  Links'
    BY <1>7 DEF CheckClears, requestVars
<1>8. ASSUME NEW p \in Probes, NEW v \in {"ok", "error"}, CheckReturns(p, v)
      PROVE  Links'
    BY <1>8, HealthAssumption DEF CheckReturns, registryVars, requestVars
<1>9. CASE UNCHANGED healthVars
    BY <1>9 DEF healthVars, registryVars, requestVars
<1>. QED
    BY <1>1, <1>2, <1>3, <1>4, <1>5, <1>6, <1>7, <1>8, <1>9 DEF HealthNext, ProbeStep

-----------------------------------------------------------------------------
(* The properties.                                                         *)

\* The flag of a name goes up with the only check of that name, and comes down
\* with it.
LEMMA SingleFlightStep ==
    ASSUME HealthTypeOK, Links, SingleFlight, [HealthNext]_healthVars
    PROVE  SingleFlight'
<1>. DEFINE Live == {q \in Probes : exec[q] \in {"running", "returned"}}
<1>1. CASE UNCHANGED <<running, exec>>
    BY <1>1 DEF SingleFlight
<1>2. ASSUME NEW p \in Probes, Launch(p)
      PROVE  SingleFlight'
    <2>1. exec' = [exec EXCEPT ![p] = "running"] /\ running' = running \cup {p[2]}
        BY <1>2 DEF Launch
    <2>2. \A q \in Live : q[2] # p[2]
        BY <1>2 DEF Launch, SingleFlight
    <2>3. Live' = Live \cup {p}
        BY <2>1 DEF HealthTypeOK
    <2>4. \A q, r \in Live' : q[2] = r[2] => q = r
        BY <2>2, <2>3 DEF SingleFlight
    <2>5. running' = {q[2] : q \in Live'}
        BY <2>1, <2>3 DEF SingleFlight
    <2>. QED BY <2>4, <2>5 DEF SingleFlight
<1>3. ASSUME NEW p \in Probes, CheckClears(p)
      PROVE  SingleFlight'
    <2>1. exec' = [exec EXCEPT ![p] = "gone"] /\ running' = running \ {p[2]} /\ p \in Live
        BY <1>3 DEF CheckClears
    <2>2. Live' = Live \ {p}
        BY <2>1 DEF HealthTypeOK
    <2>3. \A q, r \in Live' : q[2] = r[2] => q = r
        BY <2>2 DEF SingleFlight
    <2>4. running' = {q[2] : q \in Live'}
        BY <2>1, <2>2 DEF SingleFlight
    <2>. QED BY <2>3, <2>4 DEF SingleFlight
<1>4. ASSUME NEW p \in Probes, NEW v \in {"ok", "error"}, CheckReturns(p, v)
      PROVE  SingleFlight'
    <2>1. Live' = Live /\ running' = running
        BY <1>4 DEF CheckReturns, registryVars, HealthTypeOK
    <2>. QED BY <2>1 DEF SingleFlight
<1>5. ASSUME NEW n \in Names, RemoveCheck(n) \/ \E c \in Criticalities : Add(n, c)
      PROVE  SingleFlight'
    BY <1>1, <1>5 DEF RemoveCheck, Add
<1>6. ASSUME NEW r \in Requests, Serve(r) \/ Respond(r)
      PROVE  SingleFlight'
    BY <1>1, <1>6 DEF Serve, Respond, registryVars
<1>7. ASSUME NEW p \in Probes, Busy(p) \/ Receive(p) \/ Timeout(p) \/ Collect(p)
      PROVE  SingleFlight'
    BY <1>1, <1>7 DEF Busy, Receive, Timeout, Collect, registryVars
<1>8. CASE UNCHANGED healthVars
    BY <1>1, <1>8 DEF healthVars, registryVars
<1>. QED
    BY <1>2, <1>3, <1>4, <1>5, <1>6, <1>7, <1>8 DEF HealthNext, ProbeStep

\* A result is forgotten with its check, and kept only for a check that is the
\* one which was probed.
LEMMA ResultsStep ==
    ASSUME HealthTypeOK, Links, ResultsOfRegistered, [HealthNext]_healthVars
    PROVE  ResultsOfRegistered'
<1>. USE DEF ResultsOfRegistered, HealthTypeOK
<1>1. CASE UNCHANGED <<checks, lastResults>>
    BY <1>1
<1>2. ASSUME NEW n \in Names, RemoveCheck(n) \/ \E c \in Criticalities : Add(n, c)
      PROVE  ResultsOfRegistered'
    BY <1>2 DEF RemoveCheck, Add
<1>3. ASSUME NEW p \in Probes, Collect(p)
      PROVE  ResultsOfRegistered'
    BY <1>3, ProbeParts DEF Collect, RecordResult, Recordable
<1>4. ASSUME NEW r \in Requests, Serve(r) \/ Respond(r)
      PROVE  ResultsOfRegistered'
    BY <1>1, <1>4 DEF Serve, Respond, registryVars
<1>5. ASSUME NEW p \in Probes,
             Busy(p) \/ Receive(p) \/ Timeout(p) \/ Launch(p) \/ CheckClears(p)
                \/ \E v \in {"ok", "error"} : CheckReturns(p, v)
      PROVE  ResultsOfRegistered'
    BY <1>1, <1>5 DEF Busy, Receive, Timeout, Launch, CheckClears, CheckReturns, registryVars
<1>6. CASE UNCHANGED healthVars
    BY <1>1, <1>6 DEF healthVars, registryVars
<1>. QED
    BY <1>2, <1>3, <1>4, <1>5, <1>6 DEF HealthNext, ProbeStep

\* What a request that was answered has seen does not change, and neither does
\* the outcome of a check that has returned.
LEMMA ReadyStep ==
    ASSUME HealthTypeOK, Links, ReadyMeansChecked, [HealthNext]_healthVars
    PROVE  ReadyMeansChecked'
<1>. USE DEF ReadyMeansChecked, HealthTypeOK, Probed
<1>1. CASE UNCHANGED <<request, snapshot, exec, outcome>>
    BY <1>1
<1>2. ASSUME NEW r \in Requests, Serve(r)
      PROVE  ReadyMeansChecked'
    BY <1>2 DEF Serve
<1>3. ASSUME NEW r \in Requests, Respond(r)
      PROVE  ReadyMeansChecked'
    <2>1. \A q \in Requests \ {r} : request'[q] = request[q]
        BY <1>3 DEF Respond
    <2>2. ASSUME Ready(r), NEW n \in Probed(r), snapshot[r][n].criticality = "critical"
          PROVE  exec[<<r, n>>] \in {"returned", "gone"} /\ outcome[<<r, n>>] = "ok"
        <3>1. answer[<<r, n>>] = "ok" /\ <<r, n>> \in Probes
            BY <2>2, ProbeOf DEF Ready
        <3>2. outcome[<<r, n>>] = "ok"
            BY <3>1 DEF Links, AnswersEarned
        <3>. QED BY <3>1, <3>2, HealthAssumption DEF Links, OutcomesReturned
    <2>3. request'[r] = "ready" => Ready(r)
        BY <1>3 DEF Respond
    <2>. QED BY <1>3, <2>1, <2>2, <2>3 DEF Respond
<1>4. ASSUME NEW p \in Probes, Launch(p)
      PROVE  ReadyMeansChecked'
    BY <1>4, ProbeOf DEF Launch, Links, ExecsLaunched
<1>5. ASSUME NEW p \in Probes, CheckClears(p)
      PROVE  ReadyMeansChecked'
    BY <1>5, ProbeOf DEF CheckClears, requestVars
<1>6. ASSUME NEW p \in Probes, NEW v \in {"ok", "error"}, CheckReturns(p, v)
      PROVE  ReadyMeansChecked'
    BY <1>6, ProbeOf DEF CheckReturns, requestVars
<1>7. ASSUME NEW n \in Names, RemoveCheck(n) \/ \E c \in Criticalities : Add(n, c)
      PROVE  ReadyMeansChecked'
    BY <1>1, <1>7 DEF RemoveCheck, Add, requestVars
<1>8. ASSUME NEW p \in Probes, Busy(p) \/ Receive(p) \/ Timeout(p) \/ Collect(p)
      PROVE  ReadyMeansChecked'
    BY <1>1, <1>8 DEF Busy, Receive, Timeout, Collect
<1>9. CASE UNCHANGED healthVars
    BY <1>1, <1>9 DEF healthVars, requestVars
<1>. QED
    BY <1>2, <1>3, <1>4, <1>5, <1>6, <1>7, <1>8, <1>9 DEF HealthNext, ProbeStep

-----------------------------------------------------------------------------
(* Theorems.                                                               *)

\* Before the first check is added nothing has been probed or answered.
LEMMA InitInv == HealthInit => HealthInv
<1>. SUFFICES ASSUME HealthInit PROVE HealthInv
    OBVIOUS
<1>1. HealthTypeOK
    BY DEF HealthInit, HealthTypeOK
<1>2. Links
    BY HealthAssumption
    DEF HealthInit, Links, ProbesSeen, OutcomesReturned, AnswersEarned, ExecsLaunched
<1>3. SingleFlight
    BY DEF HealthInit, SingleFlight
<1>4. ResultsOfRegistered /\ ReadyMeansChecked
    BY DEF HealthInit, ResultsOfRegistered, ReadyMeansChecked
<1>. QED BY <1>1, <1>2, <1>3, <1>4 DEF HealthInv

\* The registry and its requests keep to the inductive invariant, whatever checks
\* hang, time out, or are replaced while they run.
THEOREM HealthInvariance == HealthSpec => []HealthInv
<1>1. HealthInv /\ [HealthNext]_healthVars => HealthInv'
    BY TypeStep, LinksStep, SingleFlightStep, ResultsStep, ReadyStep DEF HealthInv, Links
<1>. QED BY <1>1, InitInv, PTL DEF HealthSpec

\* The variables that model Registry and its requests (health/registry.go) keep
\* their types.
THEOREM HealthTypeCorrect == HealthSpec => []HealthTypeOK
BY HealthInvariance, PTL DEF HealthInv

\* A check is never run twice at the same time, and its flag in Registry.running
\* is up exactly while its goroutine is there.
THEOREM SingleFlightHolds == HealthSpec => []SingleFlight
BY HealthInvariance, PTL DEF HealthInv

\* Snapshot never shows the result of a check that was removed or replaced.
THEOREM ResultsOfRegisteredHolds == HealthSpec => []ResultsOfRegistered
BY HealthInvariance, PTL DEF HealthInv

\* A request is answered "ready" only if every critical check it saw was run for
\* this very request and succeeded.
THEOREM ReadyMeansCheckedHolds == HealthSpec => []ReadyMeansChecked
BY HealthInvariance, PTL DEF HealthInv
=============================================================================
