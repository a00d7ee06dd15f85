------------------------------- MODULE Migrate -------------------------------
(***************************************************************************)
(* The migration runner of package migrate (migrate/migrate.go).  Several  *)
(* processes, perhaps of different releases, call Apply on one database.   *)
(* Apply takes an advisory lock on a connection of its own, and applies    *)
(* each migration that the metadata table does not know in a transaction   *)
(* that also records it.                                                   *)
(*                                                                         *)
(* A process or its connection may be lost at any time.  The server then   *)
(* finishes the session in its own time: it may still execute a COMMIT     *)
(* that had been sent, rolls back otherwise, and releases the lock.        *)
(***************************************************************************)
EXTENDS Naturals, FiniteSets, Sequences, SequencesExt

CONSTANTS
    Runners,     \* processes that call Apply
    Versions,
    Checksums,
    Files,       \* the files in Runner.Sources of each process
    MaxFaults,   \* bound: failed statements and lost sessions
    Nothing

EngineMinVersion == 1
EngineMaxVersion == 999
AppMinVersion == 1000

\* A file, told from others by the Source that has it, by its position in
\* Runner.Sources, and its name.
Migration == [position : Nat, source : {"engine", "app"}, version : Versions,
              name : STRING, checksum : Checksums]

ASSUME MigrateAssumption ==
    /\ Versions \subseteq Nat
    /\ \A r \in Runners : Files[r] \subseteq Migration /\ IsFiniteSet(Files[r])
    /\ MaxFaults \in Nat
    /\ Nothing \notin Checksums \cup Runners

VARIABLES
    lock,     \* the process whose session holds the advisory lock
    rows,     \* the metadata table: the checksum recorded for each version
    effects,  \* history: the versions whose SQL has been committed, in order
    stage,    \* each process: idle, lock, load, inspect, exec, record, commit,
              \* unlock, or lost: its session is without a client
    todo,     \* the migrations Apply has not come to
    sent,     \* the lost session had sent its COMMIT
    result,   \* what the last Apply returned
    faults    \* disturbances left

migrateVars == <<lock, rows, effects, stage, todo, sent, result, faults>>

MigrateTypeOK ==
    /\ lock \in Runners \cup {Nothing}
    /\ rows \in [Versions -> Checksums \cup {Nothing}]
    /\ effects \in Seq(Versions)
    /\ stage \in [Runners -> {"idle", "lock", "load", "inspect", "exec", "record",
                           "commit", "unlock", "lost"}]
    /\ todo \in [Runners -> SUBSET Migration]
    /\ sent \in [Runners -> SUBSET Migration]
    /\ result \in [Runners -> {"none", "ok", "error"}]
    /\ faults \in Nat

MigrateInit ==
    /\ lock = Nothing
    /\ rows = [v \in Versions |-> Nothing]
    /\ effects = <<>>
    /\ stage = [r \in Runners |-> "idle"]
    /\ todo = [r \in Runners |-> {}]
    /\ sent = [r \in Runners |-> {}]
    /\ result = [r \in Runners |-> "none"]
    /\ faults = MaxFaults

-----------------------------------------------------------------------------
(* The files.                                                              *)

ValidVersion(m) ==
    \/ m.source = "engine" /\ m.version \in EngineMinVersion..EngineMaxVersion
    \/ m.source = "app" /\ m.version >= AppMinVersion

\* loadSources succeeds: versions are in their owner's range, and no two files,
\* be they the same file in two sources, have one in common.
Loads(r) ==
    /\ \A m \in Files[r] : ValidVersion(m)
    /\ \A m, n \in Files[r] : m.version = n.version => m = n

\* Faulty: the files are sorted the wrong way round.
FirstReversed(r) == CHOOSE m \in todo[r] : \A n \in todo[r] : m.version >= n.version

\* The migration of lowest version Apply has not come to.
First(r) == CHOOSE m \in todo[r] : \A n \in todo[r] : m.version <= n.version

-----------------------------------------------------------------------------
(* Apply.                                                                  *)

Goto(r, p) == stage' = [stage EXCEPT ![r] = p]

\* Apply acquires a connection.
Apply(r) ==
    /\ stage[r] = "idle"
    /\ Goto(r, "lock")
    /\ result' = [result EXCEPT ![r] = "none"]
    /\ UNCHANGED <<lock, rows, effects, todo, sent, faults>>

\* Faulty: the lock is not waited for.
TakeLockAnyway(r) == lock' = IF lock = Nothing THEN r ELSE lock

\* pg_advisory_lock.
TakeLock(r) == lock = Nothing /\ lock' = r

Lock(r) ==
    /\ stage[r] = "lock"
    /\ TakeLock(r)
    /\ Goto(r, "load")
    /\ UNCHANGED <<rows, effects, todo, sent, result, faults>>

\* Apply is on its way out with the given result.
Finish(r, res) ==
    /\ Goto(r, "unlock")
    /\ result' = [result EXCEPT ![r] = res]
    /\ todo' = [todo EXCEPT ![r] = {}]

\* CREATE TABLE IF NOT EXISTS, then loadSources.
Load(r) ==
    /\ stage[r] = "load"
    /\ \/ /\ Loads(r)
          /\ Goto(r, "inspect")
          /\ todo' = [todo EXCEPT ![r] = Files[r]]
          /\ UNCHANGED result
       \/ /\ ~Loads(r)
          /\ Finish(r, "error")
    /\ UNCHANGED <<lock, rows, effects, sent, faults>>

\* Faulty: a version that is there is taken to be the same.
UnchangedAlways(m) == TRUE

\* The recorded checksum is that of the file.
Unchanged(m) == rows[m.version] = m.checksum

\* applyOne looks the migration up: already applied, changed, or to be run.
Inspect(r) ==
    /\ stage[r] = "inspect"
    /\ todo[r] # {}
    /\ LET m == First(r) IN
        \/ /\ rows[m.version] = Nothing
           /\ Goto(r, "exec")
           /\ UNCHANGED <<todo, result>>
        \/ /\ rows[m.version] # Nothing
           /\ Unchanged(m)
           /\ todo' = [todo EXCEPT ![r] = @ \ {m}]
           /\ UNCHANGED <<stage, result>>
        \/ /\ rows[m.version] # Nothing
           /\ ~Unchanged(m)
           /\ Finish(r, "error")
    /\ UNCHANGED <<lock, rows, effects, sent, faults>>

Complete(r) ==
    /\ stage[r] = "inspect"
    /\ todo[r] = {}
    /\ Finish(r, "ok")
    /\ UNCHANGED <<lock, rows, effects, sent, faults>>

\* BEGIN and the SQL of the migration.
ExecSQL(r) ==
    /\ stage[r] = "exec"
    /\ Goto(r, "record")
    /\ UNCHANGED <<lock, rows, effects, todo, sent, result, faults>>

\* Another session has an uncommitted row for the version: INSERT waits for it.
Blocked(r, v) ==
    \E q \in Runners \ {r} :
        \/ stage[q] = "commit" /\ First(q).version = v
        \/ \E m \in sent[q] : m.version = v

\* Faulty: the INSERT is executed on the connection, not in the transaction.
RecordOutside(r) ==
    /\ stage[r] = "record"
    /\ rows' = [rows EXCEPT ![First(r).version] = First(r).checksum]
    /\ Goto(r, "commit")
    /\ UNCHANGED <<lock, effects, todo, sent, result, faults>>

\* INSERT into the metadata table.  version is its primary key: the statement
\* would fail if another session had committed it meanwhile.
Record(r) ==
    /\ stage[r] = "record"
    /\ ~Blocked(r, First(r).version)
    /\ IF rows[First(r).version] = Nothing
       THEN Goto(r, "commit") /\ UNCHANGED <<todo, result>>
       ELSE Finish(r, "error")
    /\ UNCHANGED <<lock, rows, effects, sent, faults>>

\* The transaction of m takes effect.
Committed(m) ==
    /\ rows' = [rows EXCEPT ![m.version] = m.checksum]
    /\ effects' = Append(effects, m.version)

Commit(r) ==
    /\ stage[r] = "commit"
    /\ Committed(First(r))
    /\ todo' = [todo EXCEPT ![r] = @ \ {First(r)}]
    /\ Goto(r, "inspect")
    /\ UNCHANGED <<lock, sent, result, faults>>

\* Faulty: the lock is given up on success only.
ReleaseOnSuccess(r) == lock' = IF lock = r /\ result[r] = "ok" THEN Nothing ELSE lock

\* pg_advisory_unlock, deferred.
Release(r) == lock' = IF lock = r THEN Nothing ELSE lock

Unlock(r) ==
    /\ stage[r] = "unlock"
    /\ Release(r)
    /\ Goto(r, "idle")
    /\ UNCHANGED <<rows, effects, todo, sent, result, faults>>

\* A statement fails; an open transaction is rolled back.
Fails(r) ==
    /\ stage[r] \in {"load", "inspect", "exec", "record", "commit"}
    /\ faults > 0
    /\ Finish(r, "error")
    /\ faults' = faults - 1
    /\ UNCHANGED <<lock, rows, effects, sent>>

\* The process dies, or its context is cancelled, which closes the connection:
\* neither the rollback nor the unlock reaches the server.
Lose(r) ==
    /\ stage[r] # "idle"
    /\ stage[r] # "lost"
    /\ faults > 0
    /\ Goto(r, "lost")
    /\ sent' = [sent EXCEPT ![r] = IF stage[r] = "commit" THEN {First(r)} ELSE {}]
    /\ todo' = [todo EXCEPT ![r] = {}]
    /\ result' = [result EXCEPT ![r] = "error"]
    /\ faults' = faults - 1
    /\ UNCHANGED <<lock, rows, effects>>

\* What becomes of the transaction of a lost session.
SessionEffects(r) ==
    \/ UNCHANGED <<rows, effects>>
    \/ \E m \in sent[r] : Committed(m)

\* The server notices that the client is gone.
SessionEnds(r) ==
    /\ stage[r] = "lost"
    /\ SessionEffects(r)
    /\ lock' = IF lock = r THEN Nothing ELSE lock
    /\ sent' = [sent EXCEPT ![r] = {}]
    /\ Goto(r, "idle")
    /\ UNCHANGED <<todo, result, faults>>

Step(r) ==
    \/ Load(r)
    \/ Inspect(r)
    \/ Complete(r)
    \/ ExecSQL(r)
    \/ Record(r)
    \/ Commit(r)
    \/ Unlock(r)
    \/ SessionEnds(r)

MigrateNext == \E r \in Runners : Apply(r) \/ Lock(r) \/ Step(r) \/ Fails(r) \/ Lose(r)

\* Statements are answered and sessions end.  PostgreSQL grants a lock in the
\* order it was asked for, so whoever waits for it gets it.
MigrateFairness == \A r \in Runners : WF_migrateVars(Step(r)) /\ SF_migrateVars(Lock(r))

MigrateSpec == MigrateInit /\ [][MigrateNext]_migrateVars /\ MigrateFairness

-----------------------------------------------------------------------------
(* Status.                                                                 *)

Drift(m) == rows[m.version] # m.checksum

\* What Status returns, if the files load: one SELECT, without the lock, on the
\* rows that are committed.  A missing metadata table is one without rows.
Status(r) ==
    {[version |-> m.version, applied |-> rows[m.version] # Nothing,
      drift |-> rows[m.version] # Nothing /\ Drift(m)] : m \in Files[r]}

-----------------------------------------------------------------------------
(* Properties.                                                             *)

Applied(m) == rows[m.version] = m.checksum

\* However many processes apply the migrations, and whatever happens to them,
\* the SQL of each version is committed at most once, and exactly when the
\* metadata table says so.
AppliedOnce ==
    /\ IsInjective(effects)
    /\ Range(effects) = {v \in Versions : rows[v] # Nothing}

\* "applies all pending migrations in version order", "a failure at version N
\* does not roll back previously applied migrations": a version is added only
\* by a process all of whose earlier versions are there, unchanged.
AppliedInOrder ==
    [][\A v \in Versions : rows[v] = Nothing /\ rows'[v] # Nothing =>
            \E r \in Runners :
                /\ Loads(r)
                /\ \E m \in Files[r] : m.version = v /\ m.checksum = rows'[v]
                /\ \A m \in Files[r] : m.version < v => Applied(m)]_migrateVars

\* An Apply that succeeded leaves every migration of its release applied, in the
\* very version of the file it has, and Status says so ever after, whoever applies
\* what meanwhile.
SuccessComplete ==
    \A r \in Runners : result[r] = "ok" =>
        /\ Loads(r)
        /\ \A m \in Files[r] : Applied(m)
        /\ \A s \in Status(r) : s.applied /\ ~s.drift

\* Processes that start together do not make each other fail: without a fault an
\* Apply fails only because of its own files, or of one that was applied in another
\* version, and then Status reports the drift.
FailureExplained ==
    \A r \in Runners : result[r] = "error" =>
        \/ faults < MaxFaults
        \/ ~Loads(r)
        \/ \E s \in Status(r) : s.drift

\* Every Apply comes to an end, though others may fail or die with the lock.
ApplyEnds == \A r \in Runners : stage[r] = "lock" ~> stage[r] = "idle"
=============================================================================
