---------------------------- MODULE EngineProofs ----------------------------
(***************************************************************************)
(* Proofs about Engine for any number of callers, modules and workers.     *)
(***************************************************************************)
EXTENDS Engine, SequenceTheorems, FiniteSetTheorems, TLAPS

-----------------------------------------------------------------------------
(* The inductive invariant.                                                *)

\* A name is taken while its module registers, and ever after.
NamesReserved ==
    /\ \A c \in Callers : calling[c] # Nobody => calling[c] \in registered
    /\ \A i \in 1..Len(modules) : modules[i] \in registered

\* Nothing happens before Run.
Quiet ==
    ~started =>
        /\ phase = "new"
        /\ waiting = 1
        /\ runErr = {}
        /\ named = {}
        /\ work = [w \in Workers |-> "off"]
        /\ server = "off"
        /\ errCh = <<>>
        /\ failure = Nobody

\* Only workers that were added are run.
WorkersAdded == \A w \in Workers : work[w] # "off" => Contains(workers, w)

\* The goroutines that have sent their error.
Reporters ==
    {w \in Workers : work[w] \in {"sent", "done"}}
        \cup {s \in {"http"} : server \in {"sent", "closed"}}

\* Each goroutine sends one error at most.
ReportedOnce ==
    /\ IsInjective(errCh)
    /\ \A i \in 1..Len(errCh) : errCh[i] \in Reporters

\* Some goroutine has reported an error and goes on, or went on, to stop the run.
Reported ==
    \/ failure # Nobody
    \/ server = "sent"
    \/ \E w \in Workers : work[w] = "sent"

\* An error that was reported is in the channel until Run has got one.
ReportsKept == Reported => errCh # <<>> \/ runErr # {}

\* How far Run has come.
RunShape ==
    /\ phase \in {"new", "select"} => runErr = {}
    /\ phase \in {"wait", "drain", "returned"} => runCtx # "live"

\* The workers that waitForWorkers has passed are done; it leaves out none, but
\* those it names.
Waited ==
    /\ waiting \in Nat \ {0}
    /\ \A i \in 1..(waiting - 1) : i <= Len(RunningWorkers) /\ Finished(RunningWorkers[i])
    /\ phase \in {"drain", "returned"} =>
        \A w \in Range(RunningWorkers) : Finished(w) \/ w \in named

EngineInv ==
    /\ EngineTypeOK
    /\ NamesReserved
    /\ ModulesDistinct
    /\ Quiet
    /\ WorkersAdded
    /\ ReportedOnce
    /\ ReportsKept
    /\ RunShape
    /\ Waited
    /\ CleanReturn

-----------------------------------------------------------------------------
(* Operators.                                                              *)

\* AddWorker appends workers only, and none once the engine has started.
LEMMA AddableWorkers ==
    ASSUME NEW ws \in Seq(Workers)
    PROVE  /\ Addable(ws) \in Seq(Workers)
           /\ started => Addable(ws) = <<>>
<1>. DEFINE Fits(n) == /\ \A i \in 1..n : ~Contains(workers, ws[i])
                       /\ \A i, j \in 1..n : ws[i] = ws[j] => i = j
            S == {k \in 0..Len(ws) : Fits(Len(ws) - k)}
            Less == {ss \in Nat \X Nat : ss[1] < ss[2]}
            Best(n) == Fits(n) /\ \A k \in 0..Len(ws) : Fits(k) => k <= n
<1>1. Len(ws) \in Nat
    BY LenProperties
<1>2. Fits(Len(ws) - Len(ws))
    BY <1>1
<1>. HIDE DEF Fits
<1>3. S \subseteq Nat /\ S # {}
    BY <1>1, <1>2
<1>4. PICK x \in S : \A y \in S : ~(<<y, x>> \in Less)
    <2>1. IsWellFoundedOn(Less, Nat)
        BY NatLessThanWellFounded DEF OpToRel
    <2>. HIDE DEF S, Less
    <2>. QED BY <1>3, <2>1, WFMin
<1>5. \A y \in S : x <= y
    <2>1. x \in Nat /\ \A y \in S : y \in Nat /\ <<y, x>> \in Nat \X Nat
        BY <1>3
    <2>. HIDE DEF S
    <2>2. \A y \in S : ~(y < x)
        BY <1>4, <2>1
    <2>. QED BY <2>1, <2>2
<1>6. \A k \in 0..Len(ws) : Fits(k) => Len(ws) - k \in S
    <2>1. ASSUME NEW k \in 0..Len(ws), Fits(k)
          PROVE  Len(ws) - k \in S
        <3>1. Len(ws) - (Len(ws) - k) = k /\ Len(ws) - k \in 0..Len(ws)
            BY <1>1
        <3>. QED BY <2>1, <3>1
    <2>. QED BY <2>1
<1>7. Len(ws) - x \in 0..Len(ws) /\ Best(Len(ws) - x)
    <2>1. \A k \in 0..Len(ws) : Fits(k) => x <= Len(ws) - k
        BY <1>5, <1>6
    <2>2. x \in 0..Len(ws) /\ Fits(Len(ws) - x)
        OBVIOUS
    <2>. HIDE DEF S
    <2>. QED BY <1>1, <2>1, <2>2
<1>. DEFINE n == CHOOSE n \in 0..Len(ws) : Best(n)
<1>8. n \in 0..Len(ws)
    <2>. HIDE DEF Best
    <2>. QED BY <1>7
<1>9. Accepted(ws) = SubSeq(ws, 1, n)
    BY DEF Accepted, Fits
<1>10. SubSeq(ws, 1, n) \in Seq(Workers)
    <2>. HIDE DEF n
    <2>1. \A i \in 1..n : ws[i] \in Workers
        BY <1>1, <1>8, ElementOfSeq
    <2>. QED BY <1>1, <1>8, <2>1, SubSeqProperties
<1>. QED BY <1>9, <1>10, EmptySeq DEF Addable

\* Workers are added, never taken away, and none once the engine has started.
LEMMA WorkersStep ==
    ASSUME EngineTypeOK, [EngineNext]_engineVars
    PROVE  /\ workers' \in Seq(Workers)
           /\ \A w \in Workers : Contains(workers, w) => Contains(workers', w)
           /\ started => workers' = workers
<1>1. ASSUME NEW ws \in Seq(Workers), workers' = workers \o Addable(ws)
      PROVE  /\ workers' \in Seq(Workers)
             /\ \A w \in Workers : Contains(workers, w) => Contains(workers', w)
             /\ started => workers' = workers
    <2>1. workers \in Seq(Workers) /\ Len(workers) \in Nat
        BY LenProperties DEF EngineTypeOK
    <2>2. Addable(ws) \in Seq(Workers) /\ Len(Addable(ws)) \in Nat /\ (started => Addable(ws) = <<>>)
        BY AddableWorkers, LenProperties
    <2>3. /\ workers' \in Seq(Workers)
          /\ Len(workers') = Len(workers) + Len(Addable(ws))
          /\ \A i \in 1..Len(workers) : workers'[i] = workers[i]
        BY <1>1, <2>1, <2>2, ConcatProperties
    <2>4. \A w \in Workers : Contains(workers, w) => Contains(workers', w)
        BY <2>1, <2>2, <2>3 DEF Contains
    <2>5. started => workers' = workers
        BY <1>1, <2>1, <2>2, ConcatEmptySeq
    <2>. QED BY <2>3, <2>4, <2>5
<1>2. CASE workers' = workers
    BY <1>2 DEF EngineTypeOK
<1>3. ASSUME NEW w \in Workers, AddWorker(w)
      PROVE  \E ws \in Seq(Workers) : workers' = workers \o Addable(ws)
    <2>1. <<w>> \in Seq(Workers)
        OBVIOUS
    <2>. QED BY <1>3, <2>1 DEF AddWorker
<1>4. ASSUME NEW c \in Callers, ModuleAddsWorkers(c)
      PROVE  \E ws \in Seq(Workers) : workers' = workers \o Addable(ws)
    BY <1>4, EngineAssumption DEF ModuleAddsWorkers, EngineTypeOK
<1>5. CASE Registration
    BY <1>1, <1>2, <1>3, <1>4, <1>5 DEF Registration, Register, ModuleFails, ModuleRegistered
<1>6. CASE ~Registration
    BY <1>2, <1>6
    DEF EngineNext, Start, Run, SelectDone, SelectError, Shutdown, WaitNext, WaitTimeout, Drain,
        WorkerReturns, WorkerGoroutine, WorkerReports, WorkerStopsRun, ServerFails,
        ServerGoroutine, ServerReports, ServerStopsRun, Interrupt, engineVars, regVars
<1>. QED BY <1>5, <1>6

\* There are as many different things in a sequence as it is long, at most.
LEMMA RangeBound ==
    ASSUME NEW S, NEW s \in Seq(S)
    PROVE  IsFiniteSet(Range(s)) /\ Cardinality(Range(s)) <= Len(s) /\ Cardinality(Range(s)) \in Nat
<1>1. Len(s) \in Nat /\ DOMAIN s = 1..Len(s)
    BY LenProperties
<1>2. s \in Surjection(1..Len(s), Range(s))
    <2>1. s \in [1..Len(s) -> Range(s)]
        BY <1>1, LenProperties DEF Range
    <2>. QED BY <1>1, <2>1 DEF Surjection, Range
<1>3. IsFiniteSet(1..Len(s)) /\ Cardinality(1..Len(s)) = Len(s)
    BY <1>1, FS_Interval
<1>. QED BY <1>2, <1>3, FS_Surjection, FS_CardinalityType

\* errCh is large enough: a goroutine that is about to report finds room in it.
LEMMA RoomForReport ==
    ASSUME EngineTypeOK, WorkersAdded, ReportedOnce,
           NEW s \in Sources, s \in Workers => work[s] = "failed", s = "http" => server = "failed"
    PROVE  Len(errCh) < Capacity
<1>. DEFINE R == Range(workers)
            All == R \cup {"http"}
            Others == All \ {s}
<1>1. IsFiniteSet(R) /\ Cardinality(R) <= Len(workers) /\ Cardinality(R) \in Nat /\ Len(workers) \in Nat
    BY RangeBound, LenProperties DEF EngineTypeOK
<1>2. IsFiniteSet(All) /\ Cardinality(All) <= Len(workers) + 1 /\ Cardinality(All) \in Nat
    <2>. HIDE DEF R
    <2>1. /\ IsFiniteSet(All)
          /\ Cardinality(All) = IF "http" \in R THEN Cardinality(R) ELSE Cardinality(R) + 1
        BY <1>1, FS_AddElement
    <2>. HIDE DEF All
    <2>. QED BY <1>1, <2>1
<1>3. s \in All
    <2>1. ASSUME s \in Workers PROVE s \in R
        BY <2>1, LenProperties DEF WorkersAdded, Contains, Range, EngineTypeOK
    <2>. QED BY <2>1 DEF Sources
<1>4. IsFiniteSet(Others) /\ Cardinality(Others) <= Len(workers) /\ Cardinality(Others) \in Nat
    <2>. HIDE DEF All
    <2>1. IsFiniteSet(Others) /\ Cardinality(Others) = Cardinality(All) - 1
        BY <1>2, <1>3, FS_RemoveElement
    <2>2. Cardinality(Others) \in Nat
        BY <2>1, FS_CardinalityType
    <2>. HIDE DEF Others
    <2>. QED BY <1>1, <1>2, <2>1, <2>2
<1>5. Reporters \subseteq Others
    <2>1. ASSUME NEW w \in Workers, work[w] \in {"sent", "done"}
          PROVE  w \in Others
        BY <2>1, LenProperties DEF WorkersAdded, Contains, Range, EngineTypeOK
    <2>2. server \in {"sent", "closed"} => "http" \in Others
        OBVIOUS
    <2>. QED BY <2>1, <2>2 DEF Reporters
<1>6. Len(errCh) \in Nat /\ errCh \in Injection(1..Len(errCh), Others)
    <2>1. Len(errCh) \in Nat /\ errCh \in [1..Len(errCh) -> Sources]
        BY LenProperties DEF EngineTypeOK
    <2>. QED BY <1>5, <2>1 DEF ReportedOnce, Injection
<1>7. Cardinality(1..Len(errCh)) = Len(errCh)
    <2>1. Len(errCh) \in Nat
        BY <1>6
    <2>. QED BY <2>1, FS_Interval, SMTT(40)
<1>8. Cardinality(1..Len(errCh)) <= Cardinality(Others)
    <2>. HIDE DEF Others
    <2>. QED BY <1>4, <1>6, FS_Injection
<1>. QED BY <1>1, <1>4, <1>6, <1>7, <1>8 DEF Capacity

-----------------------------------------------------------------------------
(* Every step keeps the invariant.                                         *)

\* What SendError puts into errCh.
LEMMA SendType ==
    ASSUME EngineTypeOK, NEW s \in Sources, SendError(s)
    PROVE  errCh' \in Seq(Sources)
BY AppendProperties DEF EngineTypeOK, SendError

\* The types of the variables.
LEMMA TypeStep ==
    ASSUME EngineTypeOK, [EngineNext]_engineVars
    PROVE  EngineTypeOK'
<1>. USE DEF EngineTypeOK, RunErrors, Sources
<1>1. workers' \in Seq(Workers)
    BY WorkersStep
<1>2. ASSUME NEW c \in Callers, NEW m \in Modules, Register(c, m)
      PROVE  EngineTypeOK'
    BY <1>2 DEF Register, Reserve, runVars
<1>3. ASSUME NEW c \in Callers, ModuleAddsWorkers(c)
      PROVE  EngineTypeOK'
    BY <1>1, <1>3 DEF ModuleAddsWorkers, runVars
<1>4. ASSUME NEW c \in Callers, ModuleFails(c)
      PROVE  EngineTypeOK'
    BY <1>4 DEF ModuleFails, Leave, runVars
<1>5. ASSUME NEW c \in Callers, ModuleRegistered(c)
      PROVE  EngineTypeOK'
    <2>1. modules' \in Seq(Modules)
        BY <1>5, AppendProperties DEF ModuleRegistered
    <2>. QED BY <1>5, <2>1 DEF ModuleRegistered, Leave, runVars
<1>6. ASSUME NEW w \in Workers, AddWorker(w)
      PROVE  EngineTypeOK'
    BY <1>1, <1>6 DEF AddWorker, runVars
<1>7. CASE Start
    BY <1>7 DEF Start, regVars
<1>8. CASE SelectDone
    BY <1>8 DEF SelectDone, regVars
<1>9. CASE SelectError
    <2>1. Head(errCh) \in Sources /\ errCh' \in Seq(Sources)
        BY <1>9, HeadTailProperties DEF SelectError
    <2>. QED BY <1>9, <2>1 DEF SelectError, regVars
<1>10. ASSUME NEW inTime \in BOOLEAN, Shutdown(inTime)
       PROVE  EngineTypeOK'
    BY <1>10 DEF Shutdown, StopWorkers, CancelRun, regVars
<1>11. CASE WaitNext
    BY <1>11 DEF WaitNext, regVars
<1>12. CASE WaitTimeout
    <2>1. UnfinishedWorkerNames \subseteq Workers
        BY RangeOfSeq, EmptySeq DEF UnfinishedWorkerNames, RunningWorkers
    <2>. QED BY <1>12, <2>1 DEF WaitTimeout, regVars
<1>13. CASE Drain
    <2>1. errCh # <<>> => Head(errCh) \in Sources /\ Tail(errCh) \in Seq(Sources)
        BY HeadTailProperties
    <2>. QED BY <1>13, <2>1 DEF Drain, regVars
<1>14. ASSUME NEW w \in Workers, NEW err \in {"nil", "canceled", "error"}, WorkerReturns(w, err)
       PROVE  EngineTypeOK'
    BY <1>14 DEF WorkerReturns, regVars, runVars
<1>15. ASSUME NEW w \in Workers, WorkerReports(w)
       PROVE  EngineTypeOK'
    <2>1. errCh' \in Seq(Sources)
        BY <1>15, SendType DEF WorkerReports
    <2>. QED BY <1>15, <2>1 DEF WorkerReports, regVars, runVars
<1>16. ASSUME NEW w \in Workers, WorkerStopsRun(w)
       PROVE  EngineTypeOK'
    BY <1>16 DEF WorkerStopsRun, StopOthers, CancelRun, regVars, runVars
<1>17. CASE ServerFails
    BY <1>17 DEF ServerFails, regVars, runVars
<1>18. CASE ServerReports
    <2>1. errCh' \in Seq(Sources)
        BY <1>18, SendType DEF ServerReports
    <2>. QED BY <1>18, <2>1 DEF ServerReports, regVars, runVars
<1>19. CASE ServerStopsRun
    BY <1>19 DEF ServerStopsRun, StopOthers, CancelRun, regVars, runVars
<1>20. ASSUME NEW cause \in {"canceled", "cause"}, Interrupt(cause)
       PROVE  EngineTypeOK'
    BY <1>20 DEF Interrupt, CancelRun, regVars, runVars
<1>21. CASE UNCHANGED engineVars
    BY <1>21 DEF engineVars, regVars, runVars
<1>. QED
    BY <1>2, <1>3, <1>4, <1>5, <1>6, <1>7, <1>8, <1>9, <1>10, <1>11, <1>12, <1>13, <1>14, <1>15,
       <1>16, <1>17, <1>18, <1>19, <1>20, <1>21
    DEF EngineNext, Registration, Run, WorkerGoroutine, ServerGoroutine

\* Outside registration the modules, and who registers them, stay as they are.
LEMMA RegistryUntouched ==
    ASSUME [EngineNext]_engineVars, ~Registration
    PROVE  UNCHANGED regVars
BY DEF EngineNext, Start, Run, SelectDone, SelectError, Shutdown, WaitNext, WaitTimeout, Drain,
       WorkerReturns, WorkerGoroutine, WorkerReports, WorkerStopsRun, ServerFails,
       ServerGoroutine, ServerReports, ServerStopsRun, Interrupt, engineVars

\* Modules and those who register them.
LEMMA RegisterStep ==
    ASSUME EngineTypeOK, NamesReserved, ModulesDistinct, [EngineNext]_engineVars
    PROVE  NamesReserved' /\ ModulesDistinct'
<1>. USE DEF EngineTypeOK, NamesReserved, ModulesDistinct, Contains
<1>1. CASE UNCHANGED <<registered, modules, calling>>
    BY <1>1
<1>2. ASSUME NEW c \in Callers, NEW m \in Modules, Register(c, m)
      PROVE  NamesReserved' /\ ModulesDistinct'
    BY <1>2, EngineAssumption DEF Register, Reserve
<1>3. ASSUME NEW c \in Callers, ModuleFails(c)
      PROVE  NamesReserved' /\ ModulesDistinct'
    <2>1. \A i \in 1..Len(modules) : modules[i] \in Modules
        BY ElementOfSeq
    <2>. QED BY <1>3, <2>1, EngineAssumption DEF ModuleFails, Leave
<1>4. ASSUME NEW c \in Callers, ModuleRegistered(c)
      PROVE  NamesReserved' /\ ModulesDistinct'
    <2>1. /\ modules' = Append(modules, calling[c])
          /\ calling[c] \in Modules /\ calling[c] # Nobody
          /\ calling' = [calling EXCEPT ![c] = Nobody]
          /\ registered' = registered
        BY <1>4 DEF ModuleRegistered, Leave
    <2>2. /\ Len(modules) \in Nat
          /\ Len(modules') = Len(modules) + 1
          /\ \A i \in 1..Len(modules) : modules'[i] = modules[i]
          /\ modules'[Len(modules) + 1] = calling[c]
          /\ DOMAIN modules = 1..Len(modules)
          /\ DOMAIN modules' = 1..(Len(modules) + 1)
          /\ \A i \in 1..Len(modules) : modules[i] \in Modules
        BY <2>1, AppendProperties, LenProperties, ElementOfSeq
    <2>3. IsInjective(modules')
        BY <2>2 DEF IsInjective
    <2>4. NamesReserved'
        BY <2>1, <2>2
    <2>5. ASSUME NEW d \in Callers, NEW i \in 1..Len(modules')
          PROVE  modules'[i] # calling'[d]
        <3>1. modules'[i] \in Modules /\ Nobody \notin Modules
            BY <2>1, <2>2, EngineAssumption
        <3>2. CASE d = c
            BY <2>1, <3>1, <3>2
        <3>3. CASE d # c
            <4>1. calling'[d] = calling[d] /\ calling[d] # calling[c]
                BY <2>1, <3>1, <3>3
            <4>. QED BY <2>2, <4>1
        <3>. QED BY <3>2, <3>3
    <2>. QED BY <2>1, <2>3, <2>4, <2>5
<1>5. ASSUME NEW c \in Callers, ModuleAddsWorkers(c)
      PROVE  NamesReserved' /\ ModulesDistinct'
    BY <1>1, <1>5 DEF ModuleAddsWorkers
<1>6. ASSUME NEW w \in Workers, AddWorker(w)
      PROVE  NamesReserved' /\ ModulesDistinct'
    BY <1>1, <1>6 DEF AddWorker
<1>7. CASE ~Registration
    BY <1>1, <1>7, RegistryUntouched DEF regVars
<1>. QED BY <1>2, <1>3, <1>4, <1>5, <1>6, <1>7 DEF Registration

\* Before Run nothing is started, and what is started was added before.
LEMMA QuietStep ==
    ASSUME EngineTypeOK, Quiet, WorkersAdded, [EngineNext]_engineVars
    PROVE  Quiet' /\ WorkersAdded'
<1>1. \A w \in Workers : Contains(workers, w) => Contains(workers', w)
    BY WorkersStep
<1>2. CASE Registration
    <2>1. UNCHANGED <<started, runVars, work, server, errCh, failure>>
        BY <1>2 DEF Registration, Register, ModuleAddsWorkers, ModuleFails, ModuleRegistered, AddWorker
    <2>. QED BY <1>1, <2>1 DEF Quiet, WorkersAdded, runVars
<1>3. CASE Start
    BY <1>3 DEF Start, Quiet, WorkersAdded, regVars
<1>4. CASE Run
    <2>1. started' = started /\ work' = work
        BY <1>4
        DEF Run, SelectDone, SelectError, Shutdown, WaitNext, WaitTimeout, Drain
    <2>2. phase # "new"
        BY <1>4 DEF Run, SelectDone, SelectError, Shutdown, WaitNext, WaitTimeout, Drain
    <2>. QED BY <1>1, <2>1, <2>2 DEF Quiet, WorkersAdded
<1>5. ASSUME NEW w \in Workers,
             WorkerGoroutine(w) \/ \E err \in {"nil", "canceled", "error"} : WorkerReturns(w, err)
      PROVE  Quiet' /\ WorkersAdded'
    <2>1. /\ started' = started
          /\ \A v \in Workers \ {w} : work'[v] = work[v]
          /\ work[w] # "off"
        BY <1>5 DEF WorkerGoroutine, WorkerReports, WorkerStopsRun, WorkerReturns, EngineTypeOK
    <2>. QED BY <1>1, <2>1 DEF Quiet, WorkersAdded
<1>6. CASE ServerFails \/ ServerGoroutine
    <2>1. started' = started /\ work' = work /\ server # "off"
        BY <1>6 DEF ServerFails, ServerGoroutine, ServerReports, ServerStopsRun
    <2>. QED BY <1>1, <2>1 DEF Quiet, WorkersAdded
<1>7. ASSUME NEW cause \in {"canceled", "cause"}, Interrupt(cause)
      PROVE  Quiet' /\ WorkersAdded'
    BY <1>7 DEF Interrupt, Quiet, WorkersAdded, regVars, runVars
<1>8. CASE UNCHANGED engineVars
    BY <1>8 DEF engineVars, Quiet, WorkersAdded, regVars, runVars
<1>. QED BY <1>2, <1>3, <1>4, <1>5, <1>6, <1>7, <1>8 DEF EngineNext

\* An error that is appended is another than those in the channel.
LEMMA AppendReport ==
    ASSUME EngineTypeOK, WorkersAdded, ReportedOnce, NEW s \in Sources,
           s \in Workers => work[s] = "failed", s = "http" => server = "failed",
           SendError(s)
    PROVE  /\ errCh' = Append(errCh, s)
           /\ errCh' # <<>>
           /\ IsInjective(errCh')
           /\ \A i \in 1..Len(errCh') : errCh'[i] \in Reporters \cup {s}
<1>1. errCh' = Append(errCh, s)
    BY RoomForReport DEF SendError
<1>2. /\ Len(errCh) \in Nat
      /\ Len(errCh') = Len(errCh) + 1
      /\ errCh' # <<>>
      /\ \A i \in 1..Len(errCh) : errCh'[i] = errCh[i]
      /\ errCh'[Len(errCh) + 1] = s
      /\ DOMAIN errCh = 1..Len(errCh)
      /\ DOMAIN errCh' = 1..(Len(errCh) + 1)
    BY <1>1, AppendProperties, LenProperties DEF EngineTypeOK
<1>3. s \notin Reporters
    BY EngineAssumption DEF Reporters, Sources
<1>4. IsInjective(errCh')
    BY <1>2, <1>3 DEF IsInjective, ReportedOnce
<1>. QED BY <1>1, <1>2, <1>4 DEF ReportedOnce

\* What is left when an error was received.
LEMMA TailReports ==
    ASSUME EngineTypeOK, ReportedOnce, errCh # <<>>
    PROVE  /\ IsInjective(Tail(errCh))
           /\ \A i \in 1..Len(Tail(errCh)) : Tail(errCh)[i] \in Reporters
<1>1. /\ Len(errCh) \in Nat
      /\ Len(Tail(errCh)) = Len(errCh) - 1
      /\ \A i \in 1..Len(Tail(errCh)) : Tail(errCh)[i] = errCh[i + 1]
      /\ DOMAIN errCh = 1..Len(errCh)
      /\ DOMAIN Tail(errCh) = 1..Len(Tail(errCh))
    BY HeadTailProperties, LenProperties DEF EngineTypeOK
<1>2. \A i \in 1..Len(Tail(errCh)) : i + 1 \in 1..Len(errCh)
    BY <1>1
<1>. QED BY <1>1, <1>2 DEF ReportedOnce, IsInjective

\* The errors in the channel.
LEMMA ReportsStep ==
    ASSUME EngineInv, [EngineNext]_engineVars
    PROVE  ReportedOnce' /\ ReportsKept'
<1>. USE DEF EngineInv
<1>1. ASSUME UNCHANGED <<errCh, failure>>, runErr # {} => runErr' # {},
             Reporters \subseteq Reporters',
             server' = "sent" => server = "sent",
             \A w \in Workers : work'[w] = "sent" => work[w] = "sent"
      PROVE  ReportedOnce' /\ ReportsKept'
    BY <1>1 DEF ReportedOnce, ReportsKept, Reported
<1>2. CASE Registration
    <2>1. UNCHANGED <<runErr, work, server, errCh, failure>>
        BY <1>2 DEF Registration, Register, ModuleAddsWorkers, ModuleFails, ModuleRegistered,
                    AddWorker, runVars
    <2>. QED BY <1>1, <2>1 DEF Reporters
<1>3. CASE Start
    <2>1. work = [w \in Workers |-> "off"] /\ server = "off"
        BY <1>3 DEF Start, Quiet
    <2>. QED BY <1>1, <1>3, <2>1 DEF Start, Reporters
<1>4. CASE SelectDone
    BY <1>1, <1>4 DEF SelectDone, Reporters, RunShape
<1>5. CASE SelectError
    BY <1>5, TailReports DEF SelectError, ReportedOnce, ReportsKept, Reporters
<1>6. ASSUME NEW inTime \in BOOLEAN, Shutdown(inTime)
      PROVE  ReportedOnce' /\ ReportsKept'
    BY <1>1, <1>6 DEF Shutdown, Reporters, EngineTypeOK
<1>7. CASE WaitNext \/ WaitTimeout
    BY <1>1, <1>7 DEF WaitNext, WaitTimeout, Reporters
<1>8. CASE Drain
    <2>1. CASE runErr = {} /\ named = {} /\ errCh # <<>>
        BY <1>8, <2>1, TailReports DEF Drain, ReportedOnce, ReportsKept, Reporters
    <2>2. CASE ~(runErr = {} /\ named = {} /\ errCh # <<>>)
        BY <1>1, <1>8, <2>2 DEF Drain, Reporters
    <2>. QED BY <2>1, <2>2
<1>9. ASSUME NEW w \in Workers, NEW err \in {"nil", "canceled", "error"}, WorkerReturns(w, err)
      PROVE  ReportedOnce' /\ ReportsKept'
    <2>1. UNCHANGED <<runErr, server, errCh, failure>>
        BY <1>9 DEF WorkerReturns, runVars
    <2>2. \A v \in Workers :
            /\ work'[v] = "sent" => work[v] = "sent"
            /\ work[v] \in {"sent", "done"} => work'[v] \in {"sent", "done"}
        BY <1>9 DEF WorkerReturns, EngineTypeOK
    <2>. QED BY <1>1, <2>1, <2>2 DEF Reporters
<1>10. ASSUME NEW w \in Workers, WorkerReports(w)
       PROVE  ReportedOnce' /\ ReportsKept'
    <2>1. /\ errCh' # <<>>
          /\ IsInjective(errCh')
          /\ \A i \in 1..Len(errCh') : errCh'[i] \in Reporters \cup {w}
        BY <1>10, AppendReport, EngineAssumption DEF WorkerReports, Sources
    <2>2. Reporters \cup {w} \subseteq Reporters'
        BY <1>10 DEF WorkerReports, Reporters, EngineTypeOK
    <2>. QED BY <2>1, <2>2 DEF ReportedOnce, ReportsKept
<1>11. ASSUME NEW w \in Workers, WorkerStopsRun(w)
       PROVE  ReportedOnce' /\ ReportsKept'
    <2>1. UNCHANGED <<errCh, runErr>> /\ Reporters \subseteq Reporters' /\ Reported
        BY <1>11 DEF WorkerStopsRun, Reporters, Reported, EngineTypeOK, runVars
    <2>. QED BY <2>1 DEF ReportedOnce, ReportsKept
<1>12. CASE ServerFails
    BY <1>1, <1>12 DEF ServerFails, Reporters, runVars
<1>13. CASE ServerReports
    <2>1. /\ errCh' # <<>>
          /\ IsInjective(errCh')
          /\ \A i \in 1..Len(errCh') : errCh'[i] \in Reporters \cup {"http"}
        BY <1>13, AppendReport, EngineAssumption DEF ServerReports, Sources
    <2>2. Reporters \cup {"http"} \subseteq Reporters'
        BY <1>13 DEF ServerReports, Reporters
    <2>. QED BY <2>1, <2>2 DEF ReportedOnce, ReportsKept
<1>14. CASE ServerStopsRun
    <2>1. UNCHANGED <<errCh, runErr>> /\ Reporters \subseteq Reporters' /\ Reported
        BY <1>14 DEF ServerStopsRun, Reporters, Reported, runVars
    <2>. QED BY <2>1 DEF ReportedOnce, ReportsKept
<1>15. ASSUME NEW cause \in {"canceled", "cause"}, Interrupt(cause)
       PROVE  ReportedOnce' /\ ReportsKept'
    BY <1>1, <1>15 DEF Interrupt, Reporters, runVars
<1>16. CASE UNCHANGED engineVars
    BY <1>1, <1>16 DEF engineVars, Reporters, runVars
<1>. QED
    BY <1>2, <1>3, <1>4, <1>5, <1>6, <1>7, <1>8, <1>9, <1>10, <1>11, <1>12, <1>13, <1>14,
       <1>15, <1>16
    DEF EngineNext, Run, WorkerGoroutine, ServerGoroutine

\* The workers of a run are settled when it starts, and one that is done stays so.
LEMMA RunFixed ==
    ASSUME EngineTypeOK, started, [EngineNext]_engineVars
    PROVE  /\ started'
           /\ RunningWorkers' = RunningWorkers
           /\ \A w \in Workers : Finished(w) => Finished(w)'
<1>1. workers' = workers
    BY WorkersStep
<1>2. profile' = profile /\ started'
    BY DEF EngineNext, Registration, Register, ModuleAddsWorkers, ModuleFails, ModuleRegistered,
           AddWorker, Start, Run, SelectDone, SelectError, Shutdown, WaitNext, WaitTimeout, Drain,
           WorkerReturns, WorkerGoroutine, WorkerReports, WorkerStopsRun, ServerFails,
           ServerGoroutine, ServerReports, ServerStopsRun, Interrupt, engineVars
<1>3. ASSUME NEW w \in Workers, Finished(w)
      PROVE  Finished(w)'
    <2>1. CASE work' = work
        BY <1>3, <2>1 DEF Finished
    <2>2. ASSUME NEW v \in Workers,
                 WorkerGoroutine(v) \/ \E err \in {"nil", "canceled", "error"} : WorkerReturns(v, err)
          PROVE  Finished(w)'
        BY <1>3, <2>2
        DEF Finished, WorkerGoroutine, WorkerReturns, WorkerReports, WorkerStopsRun, EngineTypeOK
    <2>3. ~Start
        BY DEF Start
    <2>. QED
        BY <2>1, <2>2, <2>3
        DEF EngineNext, Registration, Register, ModuleAddsWorkers, ModuleFails, ModuleRegistered,
            AddWorker, Run, SelectDone, SelectError, Shutdown, WaitNext, WaitTimeout, Drain,
            ServerFails, ServerGoroutine, ServerReports, ServerStopsRun, Interrupt, engineVars
<1>. QED BY <1>1, <1>2, <1>3 DEF RunningWorkers

\* The workers of a run are among those of the engine.
LEMMA RunningType ==
    ASSUME EngineTypeOK
    PROVE  /\ RunningWorkers \in Seq(Workers)
           /\ Len(RunningWorkers) \in Nat
           /\ DOMAIN RunningWorkers = 1..Len(RunningWorkers)
           /\ Range(RunningWorkers) \subseteq Workers
<1>1. RunningWorkers \in Seq(Workers)
    BY EmptySeq DEF RunningWorkers, EngineTypeOK
<1>. QED BY <1>1, LenProperties, RangeOfSeq

\* What waitForWorkers has seen.
LEMMA WaitedStep ==
    ASSUME EngineInv, [EngineNext]_engineVars
    PROVE  Waited'
<1>. USE DEF EngineInv
<1>1. CASE UNCHANGED <<phase, waiting, named>>
    <2>1. CASE started
        BY <1>1, <2>1, RunFixed, RunningType DEF Waited, Range
    <2>2. CASE ~started
        BY <1>1, <2>2 DEF Waited, Quiet
    <2>. QED BY <2>1, <2>2
<1>2. CASE Start
    BY <1>2 DEF Start, Waited, Quiet
<1>3. Run => started
    BY DEF Quiet, Run, SelectDone, SelectError, Shutdown, WaitNext, WaitTimeout, Drain
<1>4. CASE SelectDone \/ SelectError \/ \E inTime \in BOOLEAN : Shutdown(inTime)
    <2>1. UNCHANGED <<waiting, named>> /\ phase' \in {"shutdown", "wait"}
        BY <1>4 DEF SelectDone, SelectError, Shutdown
    <2>2. started
        BY <1>3, <1>4 DEF Run
    <2>. QED BY <2>1, <2>2, RunFixed, RunningType DEF Waited
<1>5. CASE WaitNext
    <2>1. started /\ phase = "wait" /\ named' = named /\ work' = work
        BY <1>3, <1>5 DEF Run, WaitNext
    <2>2. CASE waiting <= Len(RunningWorkers)
        <3>1. Finished(RunningWorkers[waiting]) /\ waiting' = waiting + 1 /\ phase' = "wait"
            BY <1>5, <2>1, <2>2 DEF WaitNext
        <3>2. \A i \in 1..(waiting' - 1) : i = waiting \/ i \in 1..(waiting - 1)
            BY <3>1 DEF Waited
        <3>. QED BY <2>1, <2>2, <3>1, <3>2, RunFixed, RunningType DEF Waited, Finished
    <2>3. CASE ~(waiting <= Len(RunningWorkers))
        <3>1. waiting' = waiting
            BY <1>5, <2>3 DEF WaitNext
        <3>2. \A i \in 1..Len(RunningWorkers) : Finished(RunningWorkers[i])
            BY <2>3, RunningType DEF Waited
        <3>. QED BY <2>1, <3>1, <3>2, RunFixed, RunningType DEF Waited, Finished, Range
    <2>. QED BY <2>2, <2>3
<1>6. CASE WaitTimeout
    <2>1. started /\ waiting' = waiting /\ named' = UnfinishedWorkerNames
        BY <1>3, <1>6 DEF Run, WaitTimeout
    <2>2. \A w \in Range(RunningWorkers) : Finished(w) \/ w \in named'
        BY <2>1 DEF UnfinishedWorkerNames
    <2>. QED BY <2>1, <2>2, RunFixed, RunningType DEF Waited
<1>7. CASE Drain
    <2>1. started /\ phase = "drain" /\ UNCHANGED <<waiting, named>>
        BY <1>3, <1>7 DEF Run, Drain
    <2>. QED BY <2>1, RunFixed, RunningType DEF Waited
<1>8. CASE ~Run /\ ~Start
    <2>1. UNCHANGED <<phase, waiting, named>>
        BY <1>8
        DEF EngineNext, Registration, Register, ModuleAddsWorkers, ModuleFails, ModuleRegistered,
            AddWorker, WorkerReturns, WorkerGoroutine, WorkerReports, WorkerStopsRun, ServerFails,
            ServerGoroutine, ServerReports, ServerStopsRun, Interrupt, engineVars, runVars
    <2>. QED BY <1>1, <2>1
<1>. QED BY <1>2, <1>4, <1>5, <1>6, <1>7, <1>8 DEF Run

\* How far Run has come, and what it returns.
LEMMA ReturnStep ==
    ASSUME EngineInv, [EngineNext]_engineVars, Waited'
    PROVE  RunShape' /\ CleanReturn'
<1>. USE DEF EngineInv
<1>1. CASE UNCHANGED <<phase, runErr, named>>
    <2>1. runCtx # "live" => UNCHANGED <<runCtx, failure>>
        BY <1>1
        DEF EngineNext, Registration, Register, ModuleAddsWorkers, ModuleFails, ModuleRegistered,
            AddWorker, Start, Run, SelectDone, SelectError, Shutdown, StopWorkers, WaitNext,
            WaitTimeout, Drain, WorkerReturns, WorkerGoroutine, WorkerReports, WorkerStopsRun,
            ServerFails, ServerGoroutine, ServerReports, ServerStopsRun, StopOthers, CancelRun,
            Interrupt, engineVars, runVars
    <2>2. RunShape'
        BY <1>1, <2>1 DEF RunShape
    <2>3. phase = "returned" => failure' = failure
        BY <2>1 DEF RunShape
    <2>. QED BY <1>1, <2>2, <2>3 DEF CleanReturn, Waited
<1>2. CASE Start
    BY <1>2 DEF Start, RunShape, CleanReturn, Quiet
<1>3. CASE SelectDone \/ SelectError
    BY <1>3 DEF SelectDone, SelectError, RunShape, CleanReturn
<1>4. ASSUME NEW inTime \in BOOLEAN, Shutdown(inTime)
      PROVE  RunShape' /\ CleanReturn'
    BY <1>4 DEF Shutdown, StopWorkers, CancelRun, RunShape, CleanReturn
<1>5. CASE WaitNext \/ WaitTimeout
    BY <1>5 DEF WaitNext, WaitTimeout, RunShape, CleanReturn
<1>6. CASE Drain
    <2>1. phase = "drain" /\ phase' = "returned" /\ UNCHANGED <<runCtx, failure, named>>
        BY <1>6 DEF Drain
    <2>2. RunShape'
        BY <2>1 DEF RunShape
    <2>3. ASSUME runErr' = {}, named' = {}
          PROVE  failure = Nobody
        <3>1. runErr = {} /\ errCh = <<>>
            BY <1>6, <2>1, <2>3 DEF Drain
        <3>. QED BY <3>1 DEF ReportsKept, Reported
    <2>. QED BY <2>1, <2>2, <2>3 DEF CleanReturn, Waited
<1>7. CASE ~Run /\ ~Start
    <2>1. UNCHANGED <<phase, runErr, named>>
        BY <1>7
        DEF EngineNext, Registration, Register, ModuleAddsWorkers, ModuleFails, ModuleRegistered,
            AddWorker, WorkerReturns, WorkerGoroutine, WorkerReports, WorkerStopsRun, ServerFails,
            ServerGoroutine, ServerReports, ServerStopsRun, Interrupt, engineVars, runVars
    <2>. QED BY <1>1, <2>1
<1>. QED BY <1>2, <1>3, <1>4, <1>5, <1>6, <1>7 DEF Run

-----------------------------------------------------------------------------
(* Theorems.                                                               *)

\* A new engine.
LEMMA InitInv == EngineInit => EngineInv
<1>. SUFFICES ASSUME EngineInit PROVE EngineInv
    OBVIOUS
<1>1. EngineTypeOK
    BY EmptySeq DEF EngineInit, EngineTypeOK
<1>2. NamesReserved /\ ModulesDistinct
    BY DEF EngineInit, NamesReserved, ModulesDistinct, IsInjective, Contains
<1>3. Quiet /\ WorkersAdded /\ RunShape /\ CleanReturn
    BY DEF EngineInit, Quiet, WorkersAdded, RunShape, CleanReturn
<1>4. ReportedOnce /\ ReportsKept
    BY DEF EngineInit, ReportedOnce, ReportsKept, Reported, IsInjective
<1>5. Waited
    BY DEF EngineInit, Waited
<1>. QED BY <1>1, <1>2, <1>3, <1>4, <1>5 DEF EngineInv

\* An engine keeps to the inductive invariant, whatever its workers and its server
\* do, and whenever it is interrupted.
THEOREM EngineInvariance == EngineSpec => []EngineInv
<1>1. ASSUME EngineInv, [EngineNext]_engineVars
      PROVE  EngineInv'
    <2>1. EngineTypeOK' /\ NamesReserved' /\ ModulesDistinct' /\ Quiet' /\ WorkersAdded'
        BY <1>1, TypeStep, RegisterStep, QuietStep DEF EngineInv
    <2>2. ReportedOnce' /\ ReportsKept' /\ Waited'
        BY <1>1, ReportsStep, WaitedStep
    <2>3. RunShape' /\ CleanReturn'
        BY <1>1, <2>2, ReturnStep
    <2>. QED BY <2>1, <2>2, <2>3 DEF EngineInv
<1>2. EngineInv /\ [EngineNext]_engineVars => EngineInv'
    BY <1>1
<1>. QED BY <1>2, InitInv, PTL DEF EngineSpec

\* The variables that model Engine and Run (engine/engine.go) keep their types.
THEOREM EngineTypeCorrect == EngineSpec => []EngineTypeOK
BY EngineInvariance, PTL DEF EngineInv

\* A module is registered once, by one caller at a time.
THEOREM ModulesDistinctHolds == EngineSpec => []ModulesDistinct
BY EngineInvariance, PTL DEF EngineInv

\* With room for one error per worker and one for the server, errCh never makes a
\* goroutine drop its error.
THEOREM NoReportDroppedHolds == EngineSpec => []NoReportDropped
<1>1. EngineInv => NoReportDropped
    BY RoomForReport, EngineAssumption DEF EngineInv, NoReportDropped, Sources
<1>. QED BY <1>1, EngineInvariance, PTL

\* Run returns nil only if all its workers are done and no failure ended the run.
THEOREM CleanReturnHolds == EngineSpec => []CleanReturn
BY EngineInvariance, PTL DEF EngineInv

\* A worker that Run leaves behind is named in its error.
THEOREM UnfinishedNamedHolds == EngineSpec => []UnfinishedNamed
<1>1. EngineInv => UnfinishedNamed
    BY DEF EngineInv, Waited, UnfinishedNamed
<1>. QED BY <1>1, EngineInvariance, PTL
=============================================================================
