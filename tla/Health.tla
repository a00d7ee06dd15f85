------------------------------- MODULE Health -------------------------------
(***************************************************************************)
(* The readiness registry of package health (health/registry.go).  Checks  *)
(* are added and removed while readiness requests are served.  A request   *)
(* takes a snapshot of the checks and starts a goroutine for each, its     *)
(* probe; the probe starts the check in a goroutine of its own unless one  *)
(* is running under that name, waits for it or for the timeout, and sends  *)
(* its result to the request, which records it and answers.                *)
(*                                                                         *)
(* A check may take forever and ignore its context.  Timeouts are choices. *)
(***************************************************************************)
EXTENDS Naturals, FiniteSets

CONSTANTS
    Names,            \* names of checks
    Requests,         \* readiness requests
    MaxGeneration,    \* bound: how many times a check is added
    Absent

Criticalities == {"critical", "informational"}
Entry == [criticality : Criticalities, generation : Nat]

\* A CheckResult; generation is that of the check which was probed.
Result == [status : {"ok", "error", "busy"}, generation : Nat]

ASSUME HealthAssumption ==
    /\ MaxGeneration \in Nat
    /\ Absent \notin Entry \cup Result \cup {"ok", "error", "busy"}

VARIABLES
    checks,          \* Registry.checks
    nextGeneration,
    running,         \* Registry.running
    lastResults,     \* Registry.lastResults
    request,         \* each request: idle, serving, ready or not_ready
    snapshot,        \* the checks it saw
    probe,           \* each of its probes: off, new, waiting, sent, collected
    answer,          \* what the probe found
    exec,            \* the probe's check: off, running, returned, gone
    outcome          \* what the check returned, in resultCh

Probes == Requests \X Names
registryVars == <<checks, nextGeneration, running, lastResults>>
requestVars == <<request, snapshot, probe, answer>>
healthVars == <<registryVars, requestVars, exec, outcome>>

HealthTypeOK ==
    /\ checks \in [Names -> Entry \cup {Absent}]
    /\ nextGeneration \in Nat
    /\ running \subseteq Names
    /\ lastResults \in [Names -> Result \cup {Absent}]
    /\ request \in [Requests -> {"idle", "serving", "ready", "not_ready"}]
    /\ snapshot \in [Requests -> [Names -> Entry \cup {Absent}]]
    /\ probe \in [Probes -> {"off", "new", "waiting", "sent", "collected"}]
    /\ answer \in [Probes -> {"ok", "error", "busy", Absent}]
    /\ exec \in [Probes -> {"off", "running", "returned", "gone"}]
    /\ outcome \in [Probes -> {"ok", "error", Absent}]
    /\ \A p \in Probes : answer[p] = Absent <=> probe[p] \in {"off", "new", "waiting"}

HealthInit ==
    /\ checks = [n \in Names |-> Absent]
    /\ nextGeneration = 0
    /\ running = {}
    /\ lastResults = [n \in Names |-> Absent]
    /\ request = [r \in Requests |-> "idle"]
    /\ snapshot = [r \in Requests |-> [n \in Names |-> Absent]]
    /\ probe = [p \in Probes |-> "off"]
    /\ answer = [p \in Probes |-> Absent]
    /\ exec = [p \in Probes |-> "off"]
    /\ outcome = [p \in Probes |-> Absent]

-----------------------------------------------------------------------------
(* The registry.                                                           *)

\* AddWithCriticality: replaces a check of that name, and forgets its result.
Add(n, c) ==
    /\ nextGeneration < MaxGeneration
    /\ nextGeneration' = nextGeneration + 1
    /\ checks' = [checks EXCEPT ![n] = [criticality |-> c, generation |-> nextGeneration']]
    /\ lastResults' = [lastResults EXCEPT ![n] = Absent]
    /\ UNCHANGED <<running, requestVars, exec, outcome>>

RemoveCheck(n) ==
    /\ checks[n] # Absent
    /\ checks' = [checks EXCEPT ![n] = Absent]
    /\ lastResults' = [lastResults EXCEPT ![n] = Absent]
    /\ UNCHANGED <<nextGeneration, running, requestVars, exec, outcome>>

\* Faulty: any result under the name of a registered check is kept.
RecordableByName(n, e) == checks[n] # Absent

\* A result is kept only if the check that was probed is still registered.
Recordable(n, e) == checks[n] # Absent /\ checks[n].generation = e.generation

RecordResult(n, e, status) ==
    lastResults' = IF Recordable(n, e)
                   THEN [lastResults EXCEPT ![n] = [status |-> status,
                                                    generation |-> e.generation]]
                   ELSE lastResults

-----------------------------------------------------------------------------
(* A request.                                                              *)

Serve(r) ==
    /\ request[r] = "idle"
    /\ request' = [request EXCEPT ![r] = "serving"]
    /\ snapshot' = [snapshot EXCEPT ![r] = checks]
    /\ probe' = [p \in Probes |-> IF p[1] = r /\ checks[p[2]] # Absent THEN "new" ELSE probe[p]]
    /\ UNCHANGED <<registryVars, answer, exec, outcome>>

\* SendAnswer(p, v): the probe sends its result and ends.
SendAnswer(p, v) ==
    /\ probe' = [probe EXCEPT ![p] = "sent"]
    /\ answer' = [answer EXCEPT ![p] = v]

\* A check of that name is running, whichever request or registration started
\* it: "check already running".
Busy(p) ==
    /\ probe[p] = "new"
    /\ p[2] \in running
    /\ SendAnswer(p, "busy")
    /\ UNCHANGED <<registryVars, request, snapshot, exec, outcome>>

Launch(p) ==
    /\ probe[p] = "new"
    /\ p[2] \notin running
    /\ running' = running \cup {p[2]}
    /\ probe' = [probe EXCEPT ![p] = "waiting"]
    /\ exec' = [exec EXCEPT ![p] = "running"]
    /\ UNCHANGED <<checks, nextGeneration, lastResults, request, snapshot, answer, outcome>>

\* The check returns, or panics, which counts as an error; its result is in
\* resultCh before the deferred function clears the flag.
CheckReturns(p, v) ==
    /\ exec[p] = "running"
    /\ exec' = [exec EXCEPT ![p] = "returned"]
    /\ outcome' = [outcome EXCEPT ![p] = v]
    /\ UNCHANGED <<registryVars, requestVars>>

\* Faulty: a check that did not succeed leaves the flag behind.
CheckClearsOnSuccess(p) ==
    /\ exec[p] = "returned"
    /\ exec' = [exec EXCEPT ![p] = "gone"]
    /\ running' = IF outcome[p] = "ok" THEN running \ {p[2]} ELSE running
    /\ UNCHANGED <<checks, nextGeneration, lastResults, requestVars, outcome>>

\* The deferred delete(r.running, name).
CheckClears(p) ==
    /\ exec[p] = "returned"
    /\ exec' = [exec EXCEPT ![p] = "gone"]
    /\ running' = running \ {p[2]}
    /\ UNCHANGED <<checks, nextGeneration, lastResults, requestVars, outcome>>

Receive(p) ==
    /\ probe[p] = "waiting"
    /\ outcome[p] # Absent
    /\ SendAnswer(p, outcome[p])
    /\ UNCHANGED <<registryVars, request, snapshot, exec, outcome>>

\* Faulty: a timeout also lets the next check start.
TimeoutClears(p) ==
    /\ probe[p] = "waiting"
    /\ SendAnswer(p, "error")
    /\ running' = running \ {p[2]}
    /\ UNCHANGED <<checks, nextGeneration, lastResults, request, snapshot, exec, outcome>>

\* ctx.Done(): the timeout, or the client has gone.  The check goes on.
Timeout(p) ==
    /\ probe[p] = "waiting"
    /\ SendAnswer(p, "error")
    /\ UNCHANGED <<registryVars, request, snapshot, exec, outcome>>

\* The request receives the result of one of its probes and records it.
Collect(p) ==
    /\ probe[p] = "sent"
    /\ probe' = [probe EXCEPT ![p] = "collected"]
    /\ RecordResult(p[2], snapshot[p[1]][p[2]], answer[p])
    /\ UNCHANGED <<checks, nextGeneration, running, request, snapshot, answer, exec, outcome>>

Probed(r) == {n \in Names : snapshot[r][n] # Absent}

\* Faulty: a check that could not be run does not count against readiness.
ReadyUnlessError(r) ==
    \A n \in Probed(r) : snapshot[r][n].criticality = "critical" => answer[<<r, n>>] # "error"

\* 200 unless a critical check did not come out ok.
Ready(r) ==
    \A n \in Probed(r) : snapshot[r][n].criticality = "critical" => answer[<<r, n>>] = "ok"

Respond(r) ==
    /\ request[r] = "serving"
    /\ \A n \in Probed(r) : probe[<<r, n>>] = "collected"
    /\ request' = [request EXCEPT ![r] = IF Ready(r) THEN "ready" ELSE "not_ready"]
    /\ UNCHANGED <<registryVars, snapshot, probe, answer, exec, outcome>>

ProbeStep(p) == Busy(p) \/ Launch(p) \/ Receive(p) \/ Timeout(p) \/ Collect(p)

HealthNext ==
    \/ \E n \in Names : RemoveCheck(n) \/ \E c \in Criticalities : Add(n, c)
    \/ \E r \in Requests : Serve(r) \/ Respond(r)
    \/ \E p \in Probes :
        ProbeStep(p) \/ CheckClears(p) \/ \E v \in {"ok", "error"} : CheckReturns(p, v)

\* Goroutines are scheduled and timeouts expire; checks may hang.
HealthFairness ==
    /\ \A p \in Probes : WF_healthVars(ProbeStep(p)) /\ WF_healthVars(CheckClears(p))
    /\ \A r \in Requests : WF_healthVars(Respond(r))

HealthSpec == HealthInit /\ [][HealthNext]_healthVars /\ HealthFairness

-----------------------------------------------------------------------------
(* Properties.                                                             *)

\* However many requests come, a check is never run twice at the same time,
\* stuck and replaced checks included, and the flag of a name is up exactly
\* while a check's goroutine is there that will take it down.
SingleFlight ==
    /\ \A p, q \in Probes :
        /\ exec[p] \in {"running", "returned"}
        /\ exec[q] \in {"running", "returned"}
        /\ p[2] = q[2]
        => p = q
    /\ running = {p[2] : p \in {q \in Probes : exec[q] \in {"running", "returned"}}}

\* Snapshot never shows the result of a check that has been removed or
\* replaced, though requests that probed it are still being answered.
ResultsOfRegistered ==
    \A n \in Names : lastResults[n] # Absent =>
        checks[n] # Absent /\ checks[n].generation = lastResults[n].generation

\* "Ready" is answered only when every critical check of the snapshot was run
\* by this very request and succeeded: neither an earlier run nor one that is
\* still going counts.
ReadyMeansChecked ==
    \A r \in Requests : request[r] = "ready" =>
        \A n \in Probed(r) : snapshot[r][n].criticality = "critical" =>
            exec[<<r, n>>] \in {"returned", "gone"} /\ outcome[<<r, n>>] = "ok"

\* A request is answered even if checks hang, and a name whose check has
\* returned, or panicked, can be checked again: as a request is served once and
\* starts a check once, there is always a later state in which nobody waits and
\* only checks that run hold a flag.
ProbesEnd ==
    []<>(/\ \A r \in Requests : request[r] # "serving"
         /\ \A n \in running : \E p \in Probes : p[2] = n /\ exec[p] = "running")

\* TestCooperativeCheckRunsAgain: one request after the other runs the check
\* again.  With no other request being served, "check already running" is said
\* only of a check that is still running.
BusyMeansRunning ==
    [][\A p \in Probes :
            /\ answer[p] # "busy"
            /\ answer'[p] = "busy"
            /\ \A r \in Requests \ {p[1]} : request[r] # "serving"
            => \E q \in Probes : q[2] = p[2] /\ exec[q] = "running"]_healthVars
=============================================================================
