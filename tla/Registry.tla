------------------------------ MODULE Registry ------------------------------
(***************************************************************************)
(* The registries of handlers (events/events.go, jobs/jobs.go) with those  *)
(* who use them.  Goroutines of the application register while relays that *)
(* share the registry start, freeze it and deliver; a job is run by the    *)
(* handler its name has at that moment.                                    *)
(*                                                                         *)
(* An event handler is a record: its form decides how Go compares it, type *)
(* is what EventType returns (a name, with blanks around it or not), code  *)
(* the function and captured the variables it closes over.                 *)
(***************************************************************************)
EXTENDS Naturals, Sequences, SequencesExt

CONSTANTS
    EventTypes,      \* types of events without blanks, and "*"
    EventHandlers,   \* the handlers that may be given to events.Register
    EventRelays,     \* relays that share the registry
    MaxAccepted,     \* bound: registrations of either kind that are accepted
    JobNames,
    JobHandlers,
    NoHandler

HandlerForms == {"comparable", "HandlerFunc", "uncomparable", "nil"}

ASSUME RegistryAssumption ==
    /\ "*" \in EventTypes /\ "" \notin EventTypes
    /\ \A h \in EventHandlers : h.form \in HandlerForms /\ h.type.name \in EventTypes \cup {""}
    /\ NoHandler \notin JobHandlers

VARIABLES
    eventHandlers,  \* Registry.handlers of package events
    frozen,
    accepted,       \* history: the handlers Register returned nil for
    relaying,       \* each relay: whether it runs, the type of the event it
                    \* delivers, the handlers to call and those called
    deliveries,     \* history: deliveries that were completed
    jobHandlers,    \* Registry.handlers of package jobs
    jobCalls,       \* history: the calls of its Register and Replace that succeeded
    jobRuns         \* history: jobs that were run, by whom and after how many calls

eventVars == <<eventHandlers, frozen, accepted, relaying, deliveries>>
jobVars == <<jobHandlers, jobCalls, jobRuns>>
registryVars == <<eventVars, jobVars>>

Stopped == [at |-> "new", type |-> "", left |-> <<>>, called |-> <<>>]

RegistryInit ==
    /\ eventHandlers = [t \in EventTypes |-> <<>>]
    /\ frozen = FALSE
    /\ accepted = <<>>
    /\ relaying = [r \in EventRelays |-> Stopped]
    /\ deliveries = {}
    /\ jobHandlers = [n \in JobNames |-> NoHandler]
    /\ jobCalls = <<>>
    /\ jobRuns = {}

-----------------------------------------------------------------------------
(* Registration of event handlers.                                         *)

TrimSpace(t) == t.name

\* Comparable handlers are the same if they are equal, two HandlerFunc if their
\* types, as written, and the code of their functions are; a struct with fields
\* that cannot be compared is never the same as another, not even as itself.
SameHandler(a, b) ==
    /\ a.form = b.form
    /\ \/ a.form = "comparable" /\ a = b
       \/ a.form = "HandlerFunc" /\ a.type = b.type /\ a.code = b.code

Duplicate(h) == \E g \in Range(eventHandlers[TrimSpace(h.type)]) : SameHandler(g, h)

\* Register returns nil.  Otherwise it returns an error and does nothing.
RegisterEvent(h) ==
    /\ h.form # "nil"
    /\ TrimSpace(h.type) # ""
    /\ ~frozen
    /\ ~Duplicate(h)
    /\ Len(accepted) < MaxAccepted
    /\ eventHandlers' = [eventHandlers EXCEPT ![TrimSpace(h.type)] = Append(@, h)]
    /\ accepted' = Append(accepted, h)
    /\ UNCHANGED <<frozen, relaying, deliveries, jobVars>>

-----------------------------------------------------------------------------
(* The relays.                                                             *)

\* Faulty: the registry stays open.
FreezeNot == UNCHANGED frozen

Freeze == frozen' = TRUE

\* Relay.Run freezes the registry before anything else.
RelayStarts(r) ==
    /\ relaying[r].at = "new"
    /\ Freeze
    /\ relaying' = [relaying EXCEPT ![r].at = "running"]
    /\ UNCHANGED <<eventHandlers, accepted, deliveries, jobVars>>

\* The handlers of the type, then those of all types.
HandlersFor(t) == eventHandlers[t] \o (IF t = "*" THEN <<>> ELSE eventHandlers["*"])

\* deliver asks for the handlers, whether or not the event was delivered before.
DeliverStarts(r, t) ==
    /\ relaying[r].at = "running"
    /\ relaying' = [relaying EXCEPT ![r] = [at |-> "delivering", type |-> t,
                                            left |-> HandlersFor(t), called |-> <<>>]]
    /\ UNCHANGED <<eventHandlers, frozen, accepted, deliveries, jobVars>>

\* callEventHandler: it returns, with or without an error, or panics; the next one
\* is called in any case.
CallEventHandler(r) ==
    /\ relaying[r].at = "delivering"
    /\ relaying[r].left # <<>>
    /\ relaying' = [relaying EXCEPT ![r].left = Tail(@),
                                    ![r].called = Append(@, Head(relaying[r].left))]
    /\ UNCHANGED <<eventHandlers, frozen, accepted, deliveries, jobVars>>

DeliverEnds(r) ==
    /\ relaying[r].at = "delivering"
    /\ relaying[r].left = <<>>
    /\ relaying' = [relaying EXCEPT ![r] = [Stopped EXCEPT !.at = "running"]]
    /\ deliveries' = deliveries \cup {[type |-> relaying[r].type, called |-> relaying[r].called]}
    /\ UNCHANGED <<eventHandlers, frozen, accepted, jobVars>>

\* Run returns as its context is done; the registry remains frozen.
RelayStops(r) ==
    /\ relaying[r].at = "running"
    /\ relaying' = [relaying EXCEPT ![r].at = "stopped"]
    /\ UNCHANGED <<eventHandlers, frozen, accepted, deliveries, jobVars>>

-----------------------------------------------------------------------------
(* Job handlers.  The registry is never frozen.                            *)

JobCall(op, n, h) ==
    /\ Len(jobCalls) < MaxAccepted
    /\ jobHandlers' = [jobHandlers EXCEPT ![n] = h]
    /\ jobCalls' = Append(jobCalls, [op |-> op, name |-> n, handler |-> h])
    /\ UNCHANGED <<eventVars, jobRuns>>

\* Register and Replace return nil: a new name, or a known one.
RegisterJob(n, h) == jobHandlers[n] = NoHandler /\ JobCall("Register", n, h)
ReplaceJob(n, h) == jobHandlers[n] # NoHandler /\ JobCall("Replace", n, h)

\* The worker looks the handler up and calls it; a job without one fails.
RunJob(n) ==
    /\ jobRuns' = jobRuns \cup {[name |-> n, handler |-> jobHandlers[n],
                                 after |-> Len(jobCalls)]}
    /\ UNCHANGED <<eventVars, jobHandlers, jobCalls>>

EventNext ==
    \/ \E h \in EventHandlers : RegisterEvent(h)
    \/ \E r \in EventRelays :
        \/ RelayStarts(r)
        \/ \E t \in EventTypes : DeliverStarts(r, t)
        \/ CallEventHandler(r)
        \/ DeliverEnds(r)
        \/ RelayStops(r)

JobNext ==
    \E n \in JobNames :
        \/ RunJob(n)
        \/ \E h \in JobHandlers : RegisterJob(n, h) \/ ReplaceJob(n, h)

RegistrySpec == RegistryInit /\ [][EventNext \/ JobNext]_registryVars

-----------------------------------------------------------------------------
(* Properties.                                                             *)

TypeOf(i) == TrimSpace(accepted[i].type)

\* The registrations that are entitled to events of a type, and in which order.
Entitled(t) == {i \in DOMAIN accepted : TypeOf(i) \in {t, "*"}}
Before(i, j) == IF TypeOf(i) = TypeOf(j) THEN i < j ELSE TypeOf(j) = "*"

\* h is the handler of the last of the first n calls for a name, if there is one.
LastCall(name, h, n) ==
    LET calls == {i \in 1..n : jobCalls[i].name = name}
    IN  \/ calls = {} /\ h = NoHandler
        \/ \E i \in calls : h = jobCalls[i].handler /\ \A j \in calls : j <= i

\* Who is called is who was registered.  A handler that events.Register accepted
\* gets every event of its type: each delivery, of any relay, calls one by one the
\* handlers accepted for the type and then those for "*", in the order they were
\* registered, so that no delivery was made before a registration, and a redelivery
\* calls whom the delivery called; nobody is called twice ("registering the same
\* handler instance or HandlerFunc twice is rejected", events/events.go:83) but
\* handlers that cannot be compared.  A job is run by the handler of the last call
\* for its name, and Replace, and only Replace, takes the place of another: "startup
\* configuration cannot be overwritten silently" (jobs/jobs.go:89).
AcceptedHandlersRun ==
    /\ \A d \in deliveries :
        /\ \E f \in Bijection(DOMAIN d.called, Entitled(d.type)) :
            \A k, l \in DOMAIN d.called :
                d.called[k] = accepted[f[k]] /\ (k < l => Before(f[k], f[l]))
        /\ \A k, l \in DOMAIN d.called :
            d.called[k] = d.called[l] /\ k # l => d.called[k].form = "uncomparable"
    /\ \A run \in jobRuns : LastCall(run.name, run.handler, run.after)
    /\ \A i \in DOMAIN jobCalls :
        jobCalls[i].op = "Replace" <=> \E j \in 1..(i - 1) : jobCalls[j].name = jobCalls[i].name
=============================================================================
