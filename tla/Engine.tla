------------------------------- MODULE Engine -------------------------------
(***************************************************************************)
(* The life of an engine (engine/engine.go): modules and workers are       *)
(* registered, possibly from several goroutines, until Run starts; Run     *)
(* starts the workers and the HTTP server, waits for the first reason to   *)
(* stop, shuts the server down, waits a bounded time for the workers and   *)
(* returns one error for what happened.                                    *)
(*                                                                         *)
(* Timeouts are choices: Shutdown and waitForWorkers may run into theirs   *)
(* at any time, and do so in the end if nothing else releases them.        *)
(***************************************************************************)
EXTENDS Naturals, Sequences, SequencesExt

CONSTANTS
    Callers,        \* goroutines that register modules
    Modules,
    Workers,        \* worker names
    ModuleWorkers,  \* the workers a module passes to AddWorker
    Profiles,       \* the profiles an engine may have
    Nobody

ASSUME EngineAssumption ==
    /\ ModuleWorkers \in [Modules -> Seq(Workers)]
    /\ Profiles \subseteq {"http+worker", "http-only", "worker-only"}
    /\ Nobody \notin Modules \cup Workers \cup {"http"}
    /\ Workers \cap {"http", "cause", "shutdown"} = {}

VARIABLES
    profile,
    started,     \* Engine.started
    registered,  \* Engine.registered: names reserved or registered
    modules,     \* Engine.modules
    workers,     \* Engine.workers
    calling,     \* the module whose Register a caller is in
    step,        \* how far that module has come: enter, added, failed
    phase,          \* Run: new, select, shutdown, wait, drain, returned
    waiting,     \* index of the worker waitForWorkers is waiting for
    runErr,      \* the errors joined in runErr
    named,       \* the workers the error of waitForWorkers names
    runCtx,      \* live, or cancelled without or with a cause of its own
    work,        \* each worker's goroutine: off, running, failed, sent, done
    server,      \* the server's goroutine: off, serving, failed, sent, closed
    errCh,
    failure      \* history: the worker, or the server, whose failure cancelled runCtx

regVars == <<registered, modules, workers, calling, step>>
runVars == <<phase, waiting, runErr, named>>
engineVars == <<profile, started, regVars, runVars, runCtx, work, server, errCh, failure>>

Sources == Workers \cup {"http"}
RunErrors == Sources \cup {"cause", "shutdown"}

EngineTypeOK ==
    /\ profile \in Profiles
    /\ started \in BOOLEAN
    /\ registered \subseteq Modules
    /\ modules \in Seq(Modules)
    /\ workers \in Seq(Workers)
    /\ calling \in [Callers -> Modules \cup {Nobody}]
    /\ step \in [Callers -> {"enter", "added", "failed"}]
    /\ phase \in {"new", "select", "shutdown", "wait", "drain", "returned"}
    /\ waiting \in Nat
    /\ runErr \subseteq RunErrors
    /\ named \subseteq Workers
    /\ runCtx \in {"live", "canceled", "cause"}
    /\ work \in [Workers -> {"off", "running", "failed", "sent", "done"}]
    /\ server \in {"off", "serving", "failed", "sent", "closed"}
    /\ errCh \in Seq(Sources)
    /\ failure \in Sources \cup {Nobody}

EngineInit ==
    /\ profile \in Profiles
    /\ started = FALSE
    /\ registered = {}
    /\ modules = <<>>
    /\ workers = <<>>
    /\ calling = [c \in Callers |-> Nobody]
    /\ step = [c \in Callers |-> "enter"]
    /\ phase = "new"
    /\ waiting = 1
    /\ runErr = {}
    /\ named = {}
    /\ runCtx = "live"
    /\ work = [w \in Workers |-> "off"]
    /\ server = "off"
    /\ errCh = <<>>
    /\ failure = Nobody

-----------------------------------------------------------------------------
(* Registration.                                                           *)

\* Faulty: the name is not reserved while the module registers.
ReserveLater(m) == UNCHANGED registered
Reserve(m) == registered' = registered \cup {m}

\* Register(m) up to the call of the module's own Register.  After start, and
\* for a name that is taken, it returns an error and changes nothing.
Register(c, m) ==
    /\ calling[c] = Nobody
    /\ ~started
    /\ m \notin registered
    /\ Reserve(m)
    /\ calling' = [calling EXCEPT ![c] = m]
    /\ UNCHANGED <<profile, started, modules, workers, step, runVars, runCtx, work,
                   server, errCh, failure>>

\* The workers of ws that AddWorker appends before it meets a duplicate.
Accepted(ws) ==
    LET Fits(n) == /\ \A i \in 1..n : ~Contains(workers, ws[i])
                   /\ \A i, j \in 1..n : ws[i] = ws[j] => i = j
    IN SubSeq(ws, 1, CHOOSE n \in 0..Len(ws) :
                        Fits(n) /\ \A k \in 0..Len(ws) : Fits(k) => k <= n)

\* AddWorker(ws): what it appends, nothing once the engine has started.
Addable(ws) == IF started THEN <<>> ELSE Accepted(ws)

AddWorker(w) ==
    /\ Addable(<<w>>) # <<>>
    /\ workers' = workers \o Addable(<<w>>)
    /\ UNCHANGED <<profile, started, registered, modules, calling, step, runVars,
                   runCtx, work, server, errCh, failure>>

\* The module's Register calls AddWorker; the workers before a duplicate stay.
ModuleAddsWorkers(c) ==
    /\ calling[c] # Nobody
    /\ step[c] = "enter"
    /\ LET ws == ModuleWorkers[calling[c]] IN
        /\ workers' = workers \o Addable(ws)
        /\ step' = [step EXCEPT ![c] = IF Addable(ws) = ws THEN "added" ELSE "failed"]
    /\ UNCHANGED <<profile, started, registered, modules, calling, runVars, runCtx,
                   work, server, errCh, failure>>

\* The caller is back from Register.
Leave(c) ==
    /\ calling' = [calling EXCEPT ![c] = Nobody]
    /\ step' = [step EXCEPT ![c] = "enter"]

\* The module's Register returns an error, AddWorker's or its own, before or after
\* it has added workers, and the name is free again.
ModuleFails(c) ==
    /\ calling[c] # Nobody
    /\ registered' = registered \ {calling[c]}
    /\ Leave(c)
    /\ UNCHANGED <<profile, started, modules, workers, runVars, runCtx, work,
                   server, errCh, failure>>

ModuleRegistered(c) ==
    /\ calling[c] # Nobody
    /\ step[c] = "added"
    /\ modules' = Append(modules, calling[c])
    /\ Leave(c)
    /\ UNCHANGED <<profile, started, registered, workers, runVars, runCtx, work,
                   server, errCh, failure>>

-----------------------------------------------------------------------------
(* The goroutines Run starts.                                              *)

\* Faulty: one error is enough.
OneError == 1

\* The capacity of errCh.
Capacity == Len(workers) + 1

SendError(source) ==
    errCh' = IF Len(errCh) < Capacity THEN Append(errCh, source) ELSE errCh

CancelRun(cause) == runCtx' = IF runCtx = "live" THEN cause ELSE runCtx

\* worker.Run returns.  context.Canceled is never a failure, a return without
\* an error is one before shutdown.
WorkerReturns(w, err) ==
    /\ work[w] = "running"
    /\ LET failed == err = "error" \/ (err = "nil" /\ runCtx = "live") IN
       work' = [work EXCEPT ![w] = IF failed THEN "failed" ELSE "done"]
    /\ UNCHANGED <<profile, started, regVars, runVars, runCtx, server, errCh, failure>>

WorkerReports(w) ==
    /\ work[w] = "failed"
    /\ SendError(w)
    /\ work' = [work EXCEPT ![w] = "sent"]
    /\ UNCHANGED <<profile, started, regVars, runVars, runCtx, server, failure>>

\* cancel(), on a failure; the goroutine then ends and closes its done channel.
StopOthers(source) ==
    /\ CancelRun("canceled")
    /\ failure' = IF runCtx = "live" THEN source ELSE failure

WorkerStopsRun(w) ==
    /\ work[w] = "sent"
    /\ StopOthers(w)
    /\ work' = [work EXCEPT ![w] = "done"]
    /\ UNCHANGED <<profile, started, regVars, runVars, server, errCh>>

\* ListenAndServe fails, unless Shutdown has closed the server.
ServerFails ==
    /\ server = "serving"
    /\ server' = "failed"
    /\ UNCHANGED <<profile, started, regVars, runVars, runCtx, work, errCh, failure>>

ServerReports ==
    /\ server = "failed"
    /\ SendError("http")
    /\ server' = "sent"
    /\ UNCHANGED <<profile, started, regVars, runVars, runCtx, work, failure>>

ServerStopsRun ==
    /\ server = "sent"
    /\ StopOthers("http")
    /\ server' = "closed"
    /\ UNCHANGED <<profile, started, regVars, runVars, work, errCh>>

\* A signal arrives or the caller's context ends; what context.Cause makes of
\* it is context.Canceled or an error of its own (a deadline, for one).
Interrupt(cause) ==
    /\ phase \notin {"new", "returned"}
    /\ runCtx = "live"
    /\ CancelRun(cause)
    /\ UNCHANGED <<profile, started, regVars, runVars, work, server, errCh, failure>>

-----------------------------------------------------------------------------
(* Run.                                                                    *)

Start ==
    /\ ~started
    /\ started' = TRUE
    /\ phase' = "select"
    /\ work' = [w \in Workers |->
                    IF profile # "http-only" /\ Contains(workers, w) THEN "running" ELSE "off"]
    /\ server' = IF profile # "worker-only" THEN "serving" ELSE "off"
    /\ UNCHANGED <<profile, regVars, waiting, runErr, named, runCtx, errCh, failure>>

SelectDone ==
    /\ phase = "select"
    /\ runCtx # "live"
    /\ runErr' = IF runCtx = "cause" THEN {"cause"} ELSE {}
    /\ phase' = "shutdown"
    /\ UNCHANGED <<profile, started, regVars, waiting, named, runCtx, work, server,
                   errCh, failure>>

SelectError ==
    /\ phase = "select"
    /\ errCh # <<>>
    /\ runErr' = {Head(errCh)}
    /\ errCh' = Tail(errCh)
    /\ phase' = "shutdown"
    /\ UNCHANGED <<profile, started, regVars, waiting, named, runCtx, work, server, failure>>

\* cancel(), before the workers are waited for.
StopWorkers == CancelRun("canceled")

\* server.Shutdown returns, in time or not; without a server it is not called.
Shutdown(inTime) ==
    /\ phase = "shutdown"
    /\ server = "off" => inTime
    /\ runErr' = IF ~inTime /\ runErr = {} THEN {"shutdown"} ELSE runErr
    /\ server' = IF server = "serving" THEN "closed" ELSE server
    /\ StopWorkers
    /\ phase' = "wait"
    /\ UNCHANGED <<profile, started, regVars, waiting, named, work, errCh, failure>>

\* The runningWorkers of this Run, in order.
RunningWorkers == IF profile = "http-only" THEN <<>> ELSE workers

Finished(w) == work[w] = "done"

\* waitForWorkers moves on to the next worker, or is through.
WaitNext ==
    /\ phase = "wait"
    /\ IF waiting <= Len(RunningWorkers)
       THEN /\ Finished(RunningWorkers[waiting])
            /\ waiting' = waiting + 1
            /\ UNCHANGED phase
       ELSE phase' = "drain" /\ UNCHANGED waiting
    /\ UNCHANGED <<profile, started, regVars, runErr, named, runCtx, work, server,
                   errCh, failure>>

\* Faulty: only the worker being waited for is named.
Awaited == {RunningWorkers[waiting]}

UnfinishedWorkerNames == {w \in Range(RunningWorkers) : ~Finished(w)}

\* Faulty: the workers are waited for however long they take.
NoTimeout == FALSE

\* waitForWorkers runs into its timeout.
WaitTimeout ==
    /\ phase = "wait"
    /\ waiting <= Len(RunningWorkers)
    /\ named' = UnfinishedWorkerNames
    /\ phase' = "drain"
    /\ UNCHANGED <<profile, started, regVars, waiting, runErr, runCtx, work, server,
                   errCh, failure>>

\* Faulty: an error that is still in the channel is overlooked.
DrainNot ==
    /\ phase = "drain"
    /\ phase' = "returned"
    /\ UNCHANGED <<profile, started, regVars, waiting, runErr, named, runCtx, work, server,
                   errCh, failure>>

\* Run returns, with an error from the channel if it has none so far.
Drain ==
    /\ phase = "drain"
    /\ phase' = "returned"
    /\ IF runErr = {} /\ named = {} /\ errCh # <<>>
       THEN runErr' = {Head(errCh)} /\ errCh' = Tail(errCh)
       ELSE UNCHANGED <<runErr, errCh>>
    /\ UNCHANGED <<profile, started, regVars, waiting, named, runCtx, work, server, failure>>

Registration ==
    \/ \E c \in Callers :
        \/ \E m \in Modules : Register(c, m)
        \/ ModuleAddsWorkers(c)
        \/ ModuleFails(c)
        \/ ModuleRegistered(c)
    \/ \E w \in Workers : AddWorker(w)

WorkerGoroutine(w) == WorkerReports(w) \/ WorkerStopsRun(w)
ServerGoroutine == ServerReports \/ ServerStopsRun

Run ==
    \/ SelectDone
    \/ SelectError
    \/ \E inTime \in BOOLEAN : Shutdown(inTime)
    \/ WaitNext
    \/ WaitTimeout
    \/ Drain

EngineNext ==
    \/ Registration
    \/ Start
    \/ Run
    \/ \E w \in Workers :
        \/ \E err \in {"nil", "canceled", "error"} : WorkerReturns(w, err)
        \/ WorkerGoroutine(w)
    \/ ServerFails
    \/ ServerGoroutine
    \/ \E cause \in {"canceled", "cause"} : Interrupt(cause)

\* Goroutines are scheduled and timers fire.  Nothing obliges a worker to
\* return or the server to fail, and nobody need interrupt the engine.
EngineFairness ==
    /\ WF_engineVars(Run)
    /\ \A w \in Workers : WF_engineVars(WorkerGoroutine(w))
    /\ WF_engineVars(ServerGoroutine)

EngineSpec == EngineInit /\ [][EngineNext]_engineVars /\ EngineFairness

-----------------------------------------------------------------------------
(* Properties.                                                             *)

\* A module's Register runs, and its name is entered, at most once at a time
\* and once in all, even when several goroutines register the same module.
ModulesDistinct ==
    /\ IsInjective(modules)
    /\ \A c, d \in Callers : calling[c] = calling[d] /\ calling[c] # Nobody => c = d
    /\ \A c \in Callers : ~Contains(modules, calling[c])

\* errCh has room for every goroutine's error: no failure falls to the default
\* case of the select and is forgotten.
NoReportDropped ==
    /\ \A w \in Workers : work[w] = "failed" => Len(errCh) < Capacity
    /\ server = "failed" => Len(errCh) < Capacity

\* When Run returns nil every worker it started is done, and the run did not
\* end because of a failure.
CleanReturn ==
    phase = "returned" /\ runErr = {} /\ named = {} =>
        /\ \A w \in Range(RunningWorkers) : Finished(w)
        /\ failure = Nobody

\* A worker that Run leaves behind is named in the error it returns.
UnfinishedNamed ==
    phase = "returned" => \A w \in Range(RunningWorkers) : Finished(w) \/ w \in named

\* Once the context is done, or a worker or the server has failed, Run returns,
\* whatever workers and connections do; a worker that is left has been told.
RunReturns ==
    (runCtx # "live" \/ server = "failed" \/ \E w \in Workers : work[w] = "failed")
        ~> (phase = "returned" /\ runCtx # "live")

\* "expected worker error, got %v" (engine/run_test.go): when the failure of
\* a worker is what stopped the run, the error that Run returns is a failure's.
FailureReturned ==
    phase = "returned" /\ failure \in Workers => runErr \cap Sources # {}

\* "returning before shutdown is an unexpected worker exit" (README.md): no worker's
\* goroutine has ended with the run going on as if nothing had happened.
ExitNoticed ==
    \A w \in Workers : work[w] = "done" => runCtx # "live"
=============================================================================
