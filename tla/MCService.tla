----------------------------- MODULE MCService -----------------------------
(***************************************************************************)
(* What a service relies on to start, side by side for TLC: its migrations  *)
(* and its readiness checks, which share no state.  Every behaviour is one  *)
(* of either part, with the other at rest; a property of a part is checked  *)
(* in its behaviours and holds trivially in those of the other.             *)
(***************************************************************************)
EXTENDS Health, Migrate

CONSTANTS r1, r2, r3, r4, c1, c2

VARIABLE part  \* the part that is at work

vars == <<part, healthVars, migrateVars>>

\* The sources are that of the engine, that of the application and, in
\* one release, that of the application once more.
EngineFile(version) ==
    [position |-> 1, source |-> "engine", version |-> version, name |-> "b", checksum |-> c1]
AppFile(position, checksum) ==
    [position |-> position, source |-> "app", version |-> 1000, name |-> "a", checksum |-> checksum]

\* Two releases, the later with one more migration of the engine; a release in
\* which a migration of the application was edited; and one that has the same file
\* in two sources.
MCFiles ==
    [r \in {r1, r2, r3, r4} |->
        CASE r = r1 -> {EngineFile(1), AppFile(2, c1)}
          [] r = r2 -> {EngineFile(1), EngineFile(2), AppFile(2, c1)}
          [] r = r3 -> {EngineFile(1), AppFile(2, c2)}
          [] r = r4 -> {AppFile(2, c1), AppFile(3, c1)}]

-----------------------------------------------------------------------------
Init ==
    /\ part \in {"health", "migrate"}
    /\ HealthInit
    /\ MigrateInit

Next ==
    /\ UNCHANGED part
    /\ \/ part = "health" /\ HealthNext /\ UNCHANGED migrateVars
       \/ part = "migrate" /\ MigrateNext /\ UNCHANGED healthVars

Spec == Init /\ [][Next]_vars /\ HealthFairness /\ MigrateFairness
=============================================================================
