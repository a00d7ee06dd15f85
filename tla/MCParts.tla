------------------------------ MODULE MCParts ------------------------------
(***************************************************************************)
(* The parts of the library that share no state with another, side by      *)
(* side for TLC: the run of an engine, transactions, schema snapshots, the *)
(* registries of handlers, mail and client addresses.  Every behaviour is  *)
(* one of some part, with the others at rest; a property of a part is      *)
(* checked in its behaviours and holds trivially in those of the others.   *)
(***************************************************************************)
EXTENDS Engine, Tx, Schema, Registry, Mail, ClientIP

CONSTANTS a, b, m1, w1, w2

VARIABLE part  \* the part that is at work

vars == <<part, engineVars, txVars, schemaVars, registryVars, mailVars, clientVars>>

-----------------------------------------------------------------------------
(* Engine: one module, which brings both workers; they may also be added   *)
(* on their own.                                                           *)

MCModuleWorkers == [m \in {m1} |-> <<w1, w2>>]

-----------------------------------------------------------------------------
(* Schema: an ordinary and an ignored table; columns that differ in one    *)
(* field each; enums whose labels differ in order, number and in a comma   *)
(* within a label.                                                         *)

MCColumnDefs ==
    {[type |-> a, nullable |-> FALSE, default |-> None],
     [type |-> b, nullable |-> FALSE, default |-> None],
     [type |-> a, nullable |-> TRUE, default |-> None],
     [type |-> a, nullable |-> FALSE, default |-> b]}

MCLabelLists == {<< <<a>>, <<b>> >>, << <<b>>, <<a>> >>, << <<a, b>> >>}

EmptyCatalogue ==
    [columns |-> {}, indexes |-> {}, constraints |-> {}, enums |-> {}, sequences |-> {}]

\* Nothing at all, and one object of each kind.
MCCatalogues ==
    {EmptyCatalogue,
     [columns |-> {[table |-> "orders", name |-> "id",
                    def |-> [type |-> a, nullable |-> FALSE, default |-> None]]},
      indexes |-> {[table |-> "orders", name |-> "pkey", def |-> a]},
      constraints |-> {[table |-> "orders", name |-> "pkey", def |-> a]},
      enums |-> {[name |-> "status", labels |-> << <<a>>, <<b>> >>]},
      sequences |-> {[name |-> "seq", def |-> a]}]}

-----------------------------------------------------------------------------
(* Registry: handlers of each form, a function under a type with and       *)
(* without blanks, and two closures of the same code.                      *)

Handler(form, name, blanks, captured) ==
    [form |-> form, type |-> [name |-> name, blanks |-> blanks], code |-> "f", captured |-> captured]

MCEventHandlers ==
    {Handler("comparable", "created", FALSE, 1), Handler("comparable", "*", FALSE, 1),
     Handler("HandlerFunc", "created", FALSE, 1), Handler("HandlerFunc", "created", FALSE, 2),
     Handler("HandlerFunc", "created", TRUE, 1), Handler("HandlerFunc", "", TRUE, 1),
     Handler("uncomparable", "created", FALSE, 1), Handler("nil", "created", FALSE, 1)}

-----------------------------------------------------------------------------
(* ClientIP: every text as the only hop, in each header and way of writing  *)
(* it; chains of up to four hops on one line or two; a header of lower      *)
(* priority that says something else; trusted and untrusted peers.          *)

Hop(text, quoted, params) == [text |-> text, quoted |-> quoted, params |-> params]
Bare(text) == Hop(text, FALSE, "none")

NoLines == [h \in SupportedHeaders |-> <<>>]
Lines(header, lines) == [NoLines EXCEPT ![header] = lines]

\* What the proxy nearest to the service may have added, and a hop before it.
Near == {Bare("proxy"), Bare("proxyMapped"), Bare("client"), Bare("other")}
Forms == {Hop(t, q, p) : t \in Texts, q \in BOOLEAN, p \in DOMAIN Parameters}

OneHop == {<< <<hop>> >> : hop \in Forms}
TwoHops == {<< <<hop, near>> >> : hop \in Forms, near \in Near}
TwoLines == {<< <<hop>>, <<near>> >> : hop \in Forms, near \in Near}
Chains == {<< <<p, q, r>> >> : p, q, r \in Near} \cup {<< <<p, q>>, <<r>> >> : p, q, r \in Near}
TooLong == {<< <<p, p>>, <<q, q>> >> : p, q \in Near}
EmptyLine == {<< <<>> >>} \cup {<< <<hop>>, <<>> >> : hop \in Near}

AllLines == OneHop \cup TwoHops \cup TwoLines \cup Chains \cup TooLong \cup EmptyLine

Request(peer, cidrs, priority, lines) ==
    [peer |-> peer, cidrs |-> cidrs, priority |-> priority, lines |-> lines]

Proxies == << {"proxy"} >>

MCClientRequests ==
    {Request("proxyPort", Proxies, <<h>>, Lines(h, l)) : h \in SupportedHeaders, l \in AllLines}
        \cup {Request(peer, Proxies, <<"X-Real-IP", "Forwarded", "X-Forwarded-For">>,
                      [Lines("Forwarded", l) EXCEPT !["X-Forwarded-For"] = << <<Bare("other")>> >>]) :
                peer \in {"proxy", "client", "v6Port", "malformed", "unspecified"},
                l \in OneHop \cup EmptyLine}
        \cup {Request(peer, << {"proxy", "client"}, {"v6"} >>, <<"X-Forwarded-For">>,
                      Lines("X-Forwarded-For", l)) : peer \in {"proxyMapped", "v6Port"}, l \in Chains}
        \cup {Request("proxy", cidrs, priority, Lines("X-Real-IP", << <<Bare("client")>> >>)) :
                cidrs \in {<<>>, Proxies, Proxies \o Proxies},
                priority \in {<<>>, <<"X-Real-IP">>, <<"X-Real-IP", "X-Real-IP">>, <<"Via">>}}

-----------------------------------------------------------------------------
Init ==
    /\ part \in {"engine", "tx", "schema", "events", "jobs", "mail", "clientip"}
    /\ EngineInit /\ (part # "engine" => profile = "http+worker")
    /\ TxInit
    /\ SchemaInit /\ (part # "schema" => db = EmptyCatalogue)
    /\ RegistryInit
    /\ MailInit
    /\ ClientInit

Next ==
    /\ UNCHANGED part
    /\ \/ /\ part = "engine" /\ EngineNext
          /\ UNCHANGED <<txVars, schemaVars, registryVars, mailVars, clientVars>>
       \/ /\ part = "tx" /\ TxNext
          /\ UNCHANGED <<engineVars, schemaVars, registryVars, mailVars, clientVars>>
       \/ /\ part = "schema" /\ SchemaNext
          /\ UNCHANGED <<engineVars, txVars, registryVars, mailVars, clientVars>>
       \/ /\ part = "events" /\ EventNext
          /\ UNCHANGED <<engineVars, txVars, schemaVars, mailVars, clientVars>>
       \/ /\ part = "jobs" /\ JobNext
          /\ UNCHANGED <<engineVars, txVars, schemaVars, mailVars, clientVars>>
       \/ /\ part = "mail" /\ MailNext
          /\ UNCHANGED <<engineVars, txVars, schemaVars, registryVars, clientVars>>
       \/ /\ part = "clientip" /\ ClientNext
          /\ UNCHANGED <<engineVars, txVars, schemaVars, registryVars, mailVars>>

Spec == Init /\ [][Next]_vars /\ EngineFairness /\ MailFairness
=============================================================================
