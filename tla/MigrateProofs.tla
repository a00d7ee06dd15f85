---------------------------- MODULE MigrateProofs ----------------------------
(***************************************************************************)
(* Proofs about Migrate for any number of processes, releases, migrations  *)
(* and faults.                                                             *)
(***************************************************************************)
EXTENDS Migrate, SequenceTheorems, WellFoundedInduction, TLAPS

-----------------------------------------------------------------------------
(* The inductive invariant.                                                *)

\* Apply goes through the migrations.
Walking(r) == stage[r] \in {"inspect", "exec", "record", "commit"}

\* Only the holder of the lock is past it, and only its session can have a
\* COMMIT on its way.
LockHeld ==
    \A r \in Runners :
        /\ Walking(r) \/ stage[r] \in {"load", "unlock"} => lock = r
        /\ sent[r] # {} => stage[r] = "lost" /\ lock = r
        /\ todo[r] # {} => Walking(r)

\* Migration m of r is the next: its version is not there, and all before it are.
NextInOrder(r, m) ==
    /\ Loads(r)
    /\ m \in Files[r]
    /\ rows[m.version] = Nothing
    /\ \A n \in Files[r] : n.version < m.version => Applied(n)

\* What Apply has done is applied, and what it is doing is next.
ProgressOf(r) ==
    /\ Walking(r) =>
        /\ Loads(r)
        /\ todo[r] \subseteq Files[r]
        /\ \A m \in Files[r] \ todo[r] : Applied(m)
    /\ stage[r] \in {"exec", "record", "commit"} =>
        todo[r] # {} /\ rows[First(r).version] = Nothing
    /\ \A m \in sent[r] : NextInOrder(r, m)

Progress == \A r \in Runners : ProgressOf(r)

FaultsBounded == faults <= MaxFaults

MigrateInv ==
    /\ MigrateTypeOK
    /\ FaultsBounded
    /\ LockHeld
    /\ Progress
    /\ AppliedOnce
    /\ SuccessComplete
    /\ FailureExplained

-----------------------------------------------------------------------------
(* Operators.                                                              *)

\* Of migrations that are left there is one of lowest version.
LEMMA FirstIsLeast ==
    ASSUME MigrateTypeOK, NEW r \in Runners, todo[r] # {}
    PROVE  /\ First(r) \in todo[r]
           /\ First(r) \in Migration
           /\ \A n \in todo[r] : First(r).version <= n.version
<1>. DEFINE S == {m.version : m \in todo[r]}
            Less == {ss \in Nat \X Nat : ss[1] < ss[2]}
<1>1. todo[r] \subseteq Migration /\ S \subseteq Nat /\ S # {}
    <2>1. todo[r] \subseteq Migration
        BY DEF MigrateTypeOK
    <2>2. \A m \in Migration : m.version \in Nat
        BY MigrateAssumption DEF Migration
    <2>. QED BY <2>1, <2>2
<1>2. PICK x \in S : \A y \in S : ~(<<y, x>> \in Less)
    <2>1. IsWellFoundedOn(Less, Nat)
        BY NatLessThanWellFounded DEF OpToRel
    <2>. HIDE DEF S, Less
    <2>. QED BY <1>1, <2>1, WFMin
<1>3. \A y \in S : ~(y < x)
    BY <1>1, <1>2
<1>4. PICK m \in todo[r] : m.version = x
    OBVIOUS
<1>5. \A n \in todo[r] : m.version <= n.version
    BY <1>1, <1>3, <1>4, SMTT(40)
<1>. QED BY <1>1, <1>4, <1>5 DEF First

\* What Status says about a release, in terms of the table.
StatusSays ==
    \A r \in Runners :
        /\ (\A m \in Files[r] : Applied(m)) => \A s \in Status(r) : s.applied /\ ~s.drift
        /\ (\E s \in Status(r) : s.drift)
                <=> \E m \in Files[r] : rows[m.version] # Nothing /\ rows[m.version] # m.checksum

\* Status reports a migration as applied if it is, and drift if another is.
LEMMA StatusOf == StatusSays
<1>. SUFFICES ASSUME NEW r \in Runners
              PROVE  StatusSays!(r)
    BY DEF StatusSays
<1>. DEFINE Line(m) == [version |-> m.version, applied |-> rows[m.version] # Nothing,
                        drift |-> rows[m.version] # Nothing /\ Drift(m)]
<1>1. \A m \in Files[r] : m.checksum # Nothing
    BY MigrateAssumption DEF Migration
<1>2. Status(r) = {Line(m) : m \in Files[r]}
    BY DEF Status
<1>3. \A m \in Files[r] :
        /\ Line(m).applied <=> rows[m.version] # Nothing
        /\ Line(m).drift <=> rows[m.version] # Nothing /\ rows[m.version] # m.checksum
    BY DEF Drift
<1>. HIDE DEF Line
<1>. QED BY <1>1, <1>2, <1>3 DEF Applied

\* A transaction that takes effect adds its version at the end of the history.
LEMMA CommittedOnce ==
    ASSUME MigrateTypeOK, AppliedOnce, NEW m \in Migration, rows[m.version] = Nothing, Committed(m)
    PROVE  /\ effects' \in Seq(Versions)
           /\ rows' \in [Versions -> Checksums \cup {Nothing}]
           /\ AppliedOnce'
<1>1. m.version \in Versions /\ m.checksum \in Checksums
    BY DEF Migration
<1>2. m.version \notin Range(effects)
    BY <1>1 DEF AppliedOnce
<1>3. /\ effects' = Append(effects, m.version)
      /\ rows' = [rows EXCEPT ![m.version] = m.checksum]
    BY DEF Committed
<1>4. rows' \in [Versions -> Checksums \cup {Nothing}]
    BY <1>1, <1>3 DEF MigrateTypeOK
<1>5. /\ effects' \in Seq(Versions)
      /\ DOMAIN effects' = 1..(Len(effects) + 1)
      /\ \A i \in 1..Len(effects) : effects'[i] = effects[i]
      /\ effects'[Len(effects) + 1] = m.version
      /\ Len(effects) \in Nat
      /\ DOMAIN effects = 1..Len(effects)
    BY <1>1, <1>3, AppendProperties, LenProperties DEF MigrateTypeOK
<1>6. IsInjective(effects')
    BY <1>2, <1>5 DEF IsInjective, AppliedOnce, Range
<1>7. Range(effects') = Range(effects) \cup {m.version}
    BY <1>5 DEF Range
<1>8. {v \in Versions : rows'[v] # Nothing} = {v \in Versions : rows[v] # Nothing} \cup {m.version}
    BY <1>1, <1>3, MigrateAssumption DEF MigrateTypeOK
<1>. QED BY <1>4, <1>5, <1>6, <1>7, <1>8 DEF AppliedOnce

-----------------------------------------------------------------------------
(* What a step does to the table.                                          *)

\* A transaction takes effect only if its migration is the next one of a process
\* whose session holds the lock.
LEMMA RowsStep ==
    ASSUME MigrateTypeOK, LockHeld, Progress, [MigrateNext]_migrateVars
    PROVE  \/ UNCHANGED <<rows, effects>>
           \/ \E r \in Runners, m \in Migration :
                lock = r /\ NextInOrder(r, m) /\ Committed(m)
<1>1. ASSUME NEW r \in Runners, Commit(r)
      PROVE  lock = r /\ First(r) \in Migration /\ NextInOrder(r, First(r)) /\ Committed(First(r))
    <2>1. stage[r] = "commit" /\ Walking(r) /\ lock = r /\ todo[r] # {} /\ Committed(First(r))
        BY <1>1 DEF Commit, Walking, LockHeld, Progress, ProgressOf
    <2>2. /\ First(r) \in todo[r]
          /\ First(r) \in Migration
          /\ \A n \in todo[r] : First(r).version <= n.version
        BY <2>1, FirstIsLeast
    <2>3. /\ Loads(r)
          /\ todo[r] \subseteq Files[r]
          /\ \A m \in Files[r] \ todo[r] : Applied(m)
          /\ rows[First(r).version] = Nothing
        BY <2>1 DEF Progress, ProgressOf
    <2>4. \A n \in Migration : n.version \in Nat
        BY MigrateAssumption DEF Migration
    <2>5. \A n \in Files[r] : n.version < First(r).version => n \notin todo[r]
        BY <2>2, <2>4, MigrateAssumption
    <2>. QED BY <2>1, <2>2, <2>3, <2>5 DEF NextInOrder
<1>2. ASSUME NEW r \in Runners, SessionEnds(r)
      PROVE  \/ UNCHANGED <<rows, effects>>
             \/ \E m \in Migration : lock = r /\ NextInOrder(r, m) /\ Committed(m)
    BY <1>2 DEF SessionEnds, SessionEffects, LockHeld, Progress, ProgressOf, MigrateTypeOK
<1>3. ASSUME NEW r \in Runners,
             Apply(r) \/ Lock(r) \/ Load(r) \/ Inspect(r) \/ Complete(r) \/ ExecSQL(r)
                \/ Record(r) \/ Unlock(r) \/ Fails(r) \/ Lose(r)
      PROVE  UNCHANGED <<rows, effects>>
    BY <1>3 DEF Apply, Lock, Load, Inspect, Complete, ExecSQL, Record, Unlock, Fails, Lose
<1>4. CASE UNCHANGED migrateVars
    BY <1>4 DEF migrateVars
<1>. QED BY <1>1, <1>2, <1>3, <1>4 DEF MigrateNext, Step

\* What is in the table stays there as it is.
LEMMA RowsKept ==
    ASSUME MigrateTypeOK, LockHeld, Progress, [MigrateNext]_migrateVars
    PROVE  \A m \in Migration : rows[m.version] # Nothing => rows'[m.version] = rows[m.version]
<1>1. CASE UNCHANGED <<rows, effects>>
    BY <1>1
<1>2. CASE \E r \in Runners, n \in Migration : NextInOrder(r, n) /\ Committed(n)
    <2>1. PICK n \in Migration : rows[n.version] = Nothing /\ Committed(n)
        BY <1>2 DEF NextInOrder
    <2>. QED BY <2>1 DEF Committed, MigrateTypeOK, Migration
<1>. QED BY <1>1, <1>2, RowsStep

-----------------------------------------------------------------------------
(* Every step keeps the invariant.                                         *)

\* The types of the variables.
LEMMA TypeStep ==
    ASSUME MigrateInv, [MigrateNext]_migrateVars
    PROVE  MigrateTypeOK' /\ AppliedOnce'
<1>. USE DEF MigrateInv, Goto, Finish
<1>1. rows' \in [Versions -> Checksums \cup {Nothing}] /\ effects' \in Seq(Versions) /\ AppliedOnce'
    <2>1. CASE UNCHANGED <<rows, effects>>
        BY <2>1 DEF MigrateTypeOK, AppliedOnce
    <2>2. ASSUME NEW r \in Runners, NEW m \in Migration, NextInOrder(r, m), Committed(m)
          PROVE  rows' \in [Versions -> Checksums \cup {Nothing}] /\ effects' \in Seq(Versions)
                    /\ AppliedOnce'
        BY <2>2, CommittedOnce DEF NextInOrder
    <2>. QED BY <2>1, <2>2, RowsStep
<1>2. /\ lock' \in Runners \cup {Nothing}
      /\ stage' \in [Runners -> {"idle", "lock", "load", "inspect", "exec", "record",
                              "commit", "unlock", "lost"}]
      /\ result' \in [Runners -> {"none", "ok", "error"}]
      /\ faults' \in Nat
      /\ todo' \in [Runners -> SUBSET Migration]
      /\ sent' \in [Runners -> SUBSET Migration]
    <2>. USE DEF MigrateTypeOK
    <2>1. ASSUME NEW r \in Runners, Apply(r) \/ Lock(r) \/ Unlock(r)
          PROVE  <1>2!:
        BY <2>1 DEF Apply, Lock, TakeLock, Unlock, Release
    <2>2. ASSUME NEW r \in Runners, Load(r)
          PROVE  <1>2!:
        BY <2>2, MigrateAssumption DEF Load
    <2>3. ASSUME NEW r \in Runners, Inspect(r) \/ Complete(r)
          PROVE  <1>2!:
        BY <2>3 DEF Inspect, Complete
    <2>4. ASSUME NEW r \in Runners, ExecSQL(r) \/ Record(r) \/ Commit(r)
          PROVE  <1>2!:
        BY <2>4 DEF ExecSQL, Record, Commit
    <2>5. ASSUME NEW r \in Runners, SessionEnds(r)
          PROVE  <1>2!:
        BY <2>5 DEF SessionEnds
    <2>6. ASSUME NEW r \in Runners, Fails(r)
          PROVE  <1>2!:
        BY <2>6 DEF Fails
    <2>7. ASSUME NEW r \in Runners, Lose(r)
          PROVE  <1>2!:
        <3>1. stage[r] = "commit" => {First(r)} \subseteq Migration
            BY FirstIsLeast DEF Progress, ProgressOf
        <3>. QED BY <2>7, <3>1 DEF Lose
    <2>8. CASE UNCHANGED migrateVars
        BY <2>8 DEF migrateVars
    <2>. QED BY <2>1, <2>2, <2>3, <2>4, <2>5, <2>6, <2>7, <2>8 DEF MigrateNext, Step
<1>. QED BY <1>1, <1>2 DEF MigrateTypeOK

\* The lock, which is taken first and given up last.
LEMMA LockStep ==
    ASSUME MigrateInv, [MigrateNext]_migrateVars
    PROVE  LockHeld'
<1>. USE DEF MigrateInv, MigrateTypeOK, LockHeld, Walking, Goto, Finish
<1>1. ASSUME NEW r \in Runners, Apply(r)
      PROVE  LockHeld'
    BY <1>1 DEF Apply
<1>2. ASSUME NEW r \in Runners, Lock(r)
      PROVE  LockHeld'
    BY <1>2, MigrateAssumption DEF Lock, TakeLock
<1>3. ASSUME NEW r \in Runners, Load(r)
      PROVE  LockHeld'
    BY <1>3 DEF Load
<1>4. ASSUME NEW r \in Runners, Inspect(r) \/ Complete(r)
      PROVE  LockHeld'
    BY <1>4 DEF Inspect, Complete
<1>5. ASSUME NEW r \in Runners, ExecSQL(r) \/ Record(r) \/ Commit(r)
      PROVE  LockHeld'
    BY <1>5 DEF ExecSQL, Record, Commit
<1>6. ASSUME NEW r \in Runners, Unlock(r)
      PROVE  LockHeld'
    BY <1>6 DEF Unlock, Release
<1>7. ASSUME NEW r \in Runners, SessionEnds(r)
      PROVE  LockHeld'
    BY <1>7 DEF SessionEnds
<1>8. ASSUME NEW r \in Runners, Fails(r)
      PROVE  LockHeld'
    BY <1>8 DEF Fails
<1>9. ASSUME NEW r \in Runners, Lose(r)
      PROVE  LockHeld'
    BY <1>9 DEF Lose
<1>10. CASE UNCHANGED migrateVars
    BY <1>10 DEF migrateVars
<1>. QED
    BY <1>1, <1>2, <1>3, <1>4, <1>5, <1>6, <1>7, <1>8, <1>9, <1>10 DEF MigrateNext, Step

\* A process that does not move loses nothing by what another does: the table
\* is changed by the holder of the lock only.
LEMMA OthersProgress ==
    ASSUME MigrateInv, NEW q \in Runners,
           stage'[q] = stage[q], todo'[q] = todo[q], sent'[q] = sent[q],
           rows' = rows \/ lock # q
    PROVE  ProgressOf(q)'
<1>1. First(q)' = First(q)
    BY DEF First
<1>2. CASE rows' = rows
    BY <1>1, <1>2 DEF MigrateInv, Progress, ProgressOf, Walking, Applied, NextInOrder, Loads
<1>3. CASE lock # q
    <2>1. ~Walking(q) /\ sent[q] = {}
        BY <1>3 DEF MigrateInv, LockHeld
    <2>. QED BY <2>1 DEF ProgressOf, Walking
<1>. QED BY <1>2, <1>3

\* What Apply has done, and is doing.
LEMMA ProgressStep ==
    ASSUME MigrateInv, [MigrateNext]_migrateVars
    PROVE  Progress'
<1>. USE DEF MigrateInv, MigrateTypeOK, Goto, Finish
<1>1. ASSUME NEW r \in Runners,
             Apply(r) \/ Lock(r) \/ Complete(r) \/ Unlock(r) \/ Fails(r)
      PROVE  Progress'
    <2>1. \A q \in Runners \ {r} : ProgressOf(q)'
        BY <1>1, OthersProgress DEF Apply, Lock, Complete, Unlock, Fails
    <2>2. ProgressOf(r)'
        <3>1. stage'[r] \in {"lock", "load", "unlock", "idle"} /\ sent'[r] = {}
            BY <1>1 DEF Apply, Lock, Complete, Unlock, Fails, LockHeld
        <3>. QED BY <3>1 DEF ProgressOf, Walking
    <2>. QED BY <2>1, <2>2 DEF Progress
<1>2. ASSUME NEW r \in Runners, Load(r)
      PROVE  Progress'
    <2>1. \A q \in Runners \ {r} : ProgressOf(q)'
        BY <1>2, OthersProgress DEF Load
    <2>2. ProgressOf(r)'
        <3>1. sent'[r] = {}
            BY <1>2 DEF Load, LockHeld
        <3>2. stage'[r] = "unlock" \/ (stage'[r] = "inspect" /\ Loads(r) /\ todo'[r] = Files[r])
            BY <1>2 DEF Load
        <3>. QED BY <3>1, <3>2 DEF ProgressOf, Walking, Loads
    <2>. QED BY <2>1, <2>2 DEF Progress
<1>3. ASSUME NEW r \in Runners, Inspect(r)
      PROVE  Progress'
    <2>1. \A q \in Runners \ {r} : ProgressOf(q)'
        BY <1>3, OthersProgress DEF Inspect
    <2>2. ProgressOf(r)'
        <3>1. sent'[r] = {} /\ rows' = rows /\ Walking(r) /\ todo[r] # {}
            BY <1>3 DEF Inspect, LockHeld, Walking
        <3>2. /\ Loads(r)
              /\ todo[r] \subseteq Files[r]
              /\ \A m \in Files[r] \ todo[r] : Applied(m)
            BY <3>1 DEF Progress, ProgressOf
        <3>3. CASE rows[First(r).version] = Nothing
            <4>1. stage'[r] = "exec" /\ todo'[r] = todo[r]
                BY <1>3, <3>3 DEF Inspect
            <4>2. First(r)' = First(r)
                BY <4>1 DEF First
            <4>. QED BY <3>1, <3>2, <3>3, <4>1, <4>2 DEF ProgressOf, Loads, Applied
        <3>4. CASE rows[First(r).version] # Nothing /\ Unchanged(First(r))
            <4>1. stage'[r] = "inspect" /\ todo'[r] = todo[r] \ {First(r)}
                BY <1>3, <3>4 DEF Inspect
            <4>2. Applied(First(r))
                BY <3>4 DEF Applied, Unchanged
            <4>. QED BY <3>1, <3>2, <4>1, <4>2 DEF ProgressOf, Loads, Applied
        <3>5. CASE rows[First(r).version] # Nothing /\ ~Unchanged(First(r))
            <4>1. stage'[r] = "unlock"
                BY <1>3, <3>5 DEF Inspect
            <4>. QED BY <3>1, <4>1 DEF ProgressOf, Walking
        <3>. QED BY <3>3, <3>4, <3>5
    <2>. QED BY <2>1, <2>2 DEF Progress
<1>4. ASSUME NEW r \in Runners, ExecSQL(r) \/ Record(r)
      PROVE  Progress'
    <2>1. \A q \in Runners \ {r} : ProgressOf(q)'
        BY <1>4, OthersProgress DEF ExecSQL, Record
    <2>2. ProgressOf(r)'
        <3>1. sent'[r] = {} /\ rows' = rows /\ Walking(r) /\ stage[r] \in {"exec", "record"}
            BY <1>4 DEF ExecSQL, Record, LockHeld, Walking
        <3>2. CASE stage'[r] = "unlock"
            BY <3>1, <3>2 DEF ProgressOf, Walking
        <3>3. CASE stage'[r] # "unlock"
            <4>1. stage'[r] \in {"record", "commit"} /\ todo'[r] = todo[r]
                BY <1>4, <3>3 DEF ExecSQL, Record
            <4>2. First(r)' = First(r)
                BY <4>1 DEF First
            <4>. QED BY <3>1, <4>1, <4>2 DEF Progress, ProgressOf, Walking, Loads, Applied
        <3>. QED BY <3>2, <3>3
    <2>. QED BY <2>1, <2>2 DEF Progress
<1>5. ASSUME NEW r \in Runners, Commit(r)
      PROVE  Progress'
    <2>1. stage[r] = "commit" /\ lock = r /\ Walking(r) /\ sent[r] = {}
        BY <1>5 DEF Commit, LockHeld, Walking
    <2>2. \A q \in Runners \ {r} : ProgressOf(q)'
        BY <1>5, <2>1, OthersProgress DEF Commit
    <2>3. ProgressOf(r)'
        <3>1. /\ stage'[r] = "inspect"
              /\ todo'[r] = todo[r] \ {First(r)}
              /\ rows' = [rows EXCEPT ![First(r).version] = First(r).checksum]
              /\ sent' = sent
            BY <1>5 DEF Commit, Committed
        <3>2. /\ Loads(r)
              /\ todo[r] \subseteq Files[r]
              /\ \A m \in Files[r] \ todo[r] : Applied(m)
              /\ rows[First(r).version] = Nothing
              /\ todo[r] # {}
            BY <2>1 DEF Progress, ProgressOf
        <3>3. First(r) \in Migration
            BY <3>2, FirstIsLeast
        <3>4. First(r).version \in Versions /\ rows'[First(r).version] = First(r).checksum
            BY <3>1, <3>3 DEF Migration
        <3>5. \A m \in Files[r] : m \in Migration
            BY MigrateAssumption
        <3>6. \A m \in Files[r] \ todo[r] : rows'[m.version] = m.checksum
            BY <1>5, <3>2, <3>5, RowsKept, MigrateAssumption
            DEF Applied, MigrateNext, Step, Migration
        <3>. QED BY <2>1, <3>1, <3>2, <3>4, <3>6 DEF ProgressOf, Loads, Applied
    <2>. QED BY <2>2, <2>3 DEF Progress
<1>6. ASSUME NEW r \in Runners, SessionEnds(r)
      PROVE  Progress'
    <2>1. \A q \in Runners \ {r} : ProgressOf(q)'
        BY <1>6, OthersProgress DEF SessionEnds, SessionEffects, LockHeld
    <2>2. ProgressOf(r)'
        BY <1>6 DEF SessionEnds, ProgressOf, Walking
    <2>. QED BY <2>1, <2>2 DEF Progress
<1>7. ASSUME NEW r \in Runners, Lose(r)
      PROVE  Progress'
    <2>1. \A q \in Runners \ {r} : ProgressOf(q)'
        BY <1>7, OthersProgress DEF Lose
    <2>2. ProgressOf(r)'
        <3>1. ~Walking(r)' /\ rows' = rows /\ stage'[r] = "lost"
            BY <1>7 DEF Lose, Walking
        <3>2. ASSUME NEW m \in sent'[r]
              PROVE  NextInOrder(r, m)
            <4>1. stage[r] = "commit" /\ m = First(r) /\ Walking(r)
                BY <1>7, <3>2 DEF Lose, Walking
            <4>2. /\ Loads(r)
                  /\ todo[r] \subseteq Files[r]
                  /\ \A n \in Files[r] \ todo[r] : Applied(n)
                  /\ rows[m.version] = Nothing
                  /\ todo[r] # {}
                BY <4>1 DEF Progress, ProgressOf
            <4>3. m \in todo[r] /\ \A n \in todo[r] : m.version <= n.version
                BY <4>1, <4>2, FirstIsLeast
            <4>4. \A n \in Files[r] : n.version \in Nat
                BY MigrateAssumption DEF Migration
            <4>. QED BY <4>2, <4>3, <4>4 DEF NextInOrder
        <3>. QED BY <3>1, <3>2 DEF ProgressOf, NextInOrder, Loads, Applied
    <2>. QED BY <2>1, <2>2 DEF Progress
<1>8. CASE UNCHANGED migrateVars
    BY <1>8, OthersProgress DEF migrateVars, Progress
<1>. QED
    BY <1>1, <1>2, <1>3, <1>4, <1>5, <1>6, <1>7, <1>8 DEF MigrateNext, Step

\* An Apply that succeeded stays right, whoever comes after it.
LEMMA SuccessStep ==
    ASSUME MigrateInv, [MigrateNext]_migrateVars
    PROVE  SuccessComplete'
<1>. USE DEF Goto, Finish
<1>1. ASSUME NEW r \in Runners, result'[r] = "ok"
      PROVE  Loads(r) /\ \A m \in Files[r] : rows'[m.version] = m.checksum
    <2>1. CASE result[r] = "ok"
        <3>1. Loads(r) /\ \A m \in Files[r] : rows[m.version] = m.checksum
            BY <2>1 DEF MigrateInv, SuccessComplete, Applied
        <3>2. \A m \in Files[r] : m \in Migration /\ m.checksum # Nothing
            BY MigrateAssumption DEF Migration
        <3>. QED BY <3>1, <3>2, RowsKept DEF MigrateInv
    <2>2. CASE result[r] # "ok"
        <3>1. Complete(r)
            BY <1>1, <2>2
            DEF MigrateInv, MigrateTypeOK, MigrateNext, Step, migrateVars, Apply, Lock, Load, Inspect, Complete, ExecSQL,
                Record, Commit, Unlock, SessionEnds, Fails, Lose
        <3>2. stage[r] = "inspect" /\ todo[r] = {} /\ rows' = rows
            BY <3>1 DEF Complete
        <3>. QED BY <3>2 DEF MigrateInv, Progress, ProgressOf, Walking, Applied
    <2>. QED BY <2>1, <2>2
<1>2. StatusSays'
    BY StatusOf, PTL
<1>. QED BY <1>1, <1>2 DEF SuccessComplete, StatusSays, Loads, Applied

\* A failure has its reason in a fault, in the files or in the table.
LEMMA FailureStep ==
    ASSUME MigrateInv, [MigrateNext]_migrateVars
    PROVE  FailureExplained' /\ FaultsBounded'
<1>. DEFINE Drifts(r) == \E m \in Files[r] : rows[m.version] # Nothing /\ rows[m.version] # m.checksum
<1>. USE DEF Goto, Finish
<1>1. faults' <= faults /\ faults \in Nat /\ faults' \in Nat /\ FaultsBounded'
    <2>1. faults' = faults \/ (faults > 0 /\ faults' = faults - 1)
        BY DEF MigrateNext, Step, migrateVars, Apply, Lock, Load, Inspect, Complete, ExecSQL, Record, Commit,
               Unlock, SessionEnds, Fails, Lose
    <2>. QED BY <2>1, MigrateAssumption DEF MigrateInv, MigrateTypeOK, FaultsBounded
<1>2. ASSUME NEW r \in Runners, Drifts(r)
      PROVE  Drifts(r)'
    <2>1. PICK m \in Files[r] : rows[m.version] # Nothing /\ rows[m.version] # m.checksum
        BY <1>2
    <2>2. rows'[m.version] = rows[m.version]
        BY <2>1, RowsKept, MigrateAssumption DEF MigrateInv
    <2>. QED BY <2>1, <2>2
<1>3. ASSUME NEW r \in Runners, result'[r] = "error", result[r] # "error"
      PROVE  faults' < MaxFaults \/ ~Loads(r) \/ Drifts(r)
    <2>1. Load(r) \/ Inspect(r) \/ Record(r) \/ Fails(r) \/ Lose(r)
        BY <1>3
        DEF MigrateInv, MigrateTypeOK, MigrateNext, Step, migrateVars, Apply, Lock, Load, Inspect, Complete, ExecSQL,
            Record, Commit, Unlock, SessionEnds, Fails, Lose
    <2>2. CASE Load(r)
        BY <1>3, <2>2 DEF Load
    <2>3. CASE Inspect(r)
        <3>1. todo[r] # {} /\ todo[r] \subseteq Files[r]
            BY <2>3 DEF Inspect, MigrateInv, Progress, ProgressOf, Walking
        <3>2. First(r) \in Files[r]
            BY <3>1, FirstIsLeast DEF MigrateInv
        <3>3. rows[First(r).version] # Nothing /\ ~Unchanged(First(r))
            BY <1>3, <2>3 DEF Inspect, MigrateInv, MigrateTypeOK
        <3>. QED BY <3>2, <3>3 DEF Unchanged
    <2>4. CASE Record(r)
        BY <1>3, <2>4 DEF Record, MigrateInv, Progress, ProgressOf
    <2>5. CASE Fails(r) \/ Lose(r)
        <3>1. faults > 0 /\ faults' = faults - 1
            BY <2>5 DEF Fails, Lose
        <3>. QED BY <3>1, <1>1, MigrateAssumption DEF MigrateInv, FaultsBounded
    <2>. QED BY <2>1, <2>2, <2>3, <2>4, <2>5
<1>4. ASSUME NEW r \in Runners, result'[r] = "error"
      PROVE  faults' < MaxFaults \/ ~Loads(r) \/ Drifts(r)'
    <2>1. CASE result[r] = "error"
        <3>1. faults < MaxFaults \/ ~Loads(r) \/ Drifts(r)
            BY <2>1, StatusOf DEF MigrateInv, FailureExplained, StatusSays
        <3>. QED BY <1>1, <1>2, <3>1, MigrateAssumption
    <2>2. CASE result[r] # "error"
        BY <1>2, <1>3, <1>4, <2>2
    <2>. QED BY <2>1, <2>2
<1>5. StatusSays'
    BY StatusOf, PTL
<1>6. FailureExplained'
    BY <1>4, <1>5, MigrateAssumption DEF FailureExplained, StatusSays, Loads
<1>. QED BY <1>1, <1>6

-----------------------------------------------------------------------------
(* Theorems.                                                               *)

\* An empty database, with no Apply called yet.
LEMMA InitInv == MigrateInit => MigrateInv
<1>. SUFFICES ASSUME MigrateInit PROVE MigrateInv
    OBVIOUS
<1>1. MigrateTypeOK /\ FaultsBounded
    BY MigrateAssumption, EmptySeq DEF MigrateInit, MigrateTypeOK, FaultsBounded
<1>2. LockHeld /\ Progress
    BY DEF MigrateInit, LockHeld, Progress, ProgressOf, Walking
<1>3. AppliedOnce
    BY DEF MigrateInit, AppliedOnce, IsInjective, Range
<1>4. SuccessComplete /\ FailureExplained
    BY DEF MigrateInit, SuccessComplete, FailureExplained
<1>. QED BY <1>1, <1>2, <1>3, <1>4 DEF MigrateInv

\* The processes that apply migrations keep to the inductive invariant, whatever
\* statements fail and sessions are lost.
THEOREM MigrateInvariance == MigrateSpec => []MigrateInv
<1>1. MigrateInv /\ [MigrateNext]_migrateVars => MigrateInv'
    BY TypeStep, LockStep, ProgressStep, SuccessStep, FailureStep DEF MigrateInv
<1>. QED BY <1>1, InitInv, PTL DEF MigrateSpec

\* The variables that model Apply and its session (migrate/migrate.go) keep their
\* types.
THEOREM MigrateTypeCorrect == MigrateSpec => []MigrateTypeOK
BY MigrateInvariance, PTL DEF MigrateInv

\* The SQL of a version is committed at most once, and exactly if the metadata
\* table says so.
THEOREM AppliedOnceHolds == MigrateSpec => []AppliedOnce
BY MigrateInvariance, PTL DEF MigrateInv

\* After a successful Apply every migration of its release is there for good.
THEOREM SuccessCompleteHolds == MigrateSpec => []SuccessComplete
BY MigrateInvariance, PTL DEF MigrateInv

\* Apply fails only because of a fault, its own files, or drift.
THEOREM FailureExplainedHolds == MigrateSpec => []FailureExplained
BY MigrateInvariance, PTL DEF MigrateInv

\* A version is added only by a process all of whose earlier versions are there
\* unchanged.
THEOREM AppliedInOrderHolds == MigrateSpec => AppliedInOrder
<1>. DEFINE InOrder ==
        \A v \in Versions : rows[v] = Nothing /\ rows'[v] # Nothing =>
            \E r \in Runners :
                /\ Loads(r)
                /\ \E m \in Files[r] : m.version = v /\ m.checksum = rows'[v]
                /\ \A m \in Files[r] : m.version < v => Applied(m)
<1>1. ASSUME MigrateInv, [MigrateNext]_migrateVars
      PROVE  InOrder
    <2>1. CASE UNCHANGED <<rows, effects>>
        BY <2>1
    <2>2. ASSUME NEW r \in Runners, NEW m \in Migration, NextInOrder(r, m), Committed(m),
                 NEW v \in Versions, rows[v] = Nothing, rows'[v] # Nothing
          PROVE  InOrder!(v)!2
        <3>1. v = m.version /\ rows'[v] = m.checksum
            BY <2>2 DEF Committed, MigrateInv, MigrateTypeOK, Migration
        <3>. QED BY <2>2, <3>1 DEF NextInOrder
    <2>. QED BY <1>1, <2>1, <2>2, RowsStep DEF MigrateInv
<1>2. MigrateInv /\ [MigrateNext]_migrateVars => [InOrder]_migrateVars
    BY <1>1
<1>. QED BY <1>2, MigrateInvariance, PTL DEF MigrateSpec, AppliedInOrder
=============================================================================
