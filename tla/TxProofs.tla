------------------------------ MODULE TxProofs ------------------------------
(***************************************************************************)
(* Proofs about Tx for any depth of nesting, number of statements and      *)
(* number of attempts.                                                     *)
(***************************************************************************)
EXTENDS Tx, SequenceTheorems, FiniteSetTheorems, TLAPS

-----------------------------------------------------------------------------
(* The inductive invariant.                                                *)

Write == [attempt : Nat, number : Nat]
Level == [writes : SUBSET Write, done : BOOLEAN]

TxTypeOK ==
    /\ pc \in {"loop", "callback", "sleep", "returned"}
    /\ attempt \in Nat
    /\ stack \in Seq(Level)
    /\ connection \in {"idle", "ok", "aborted", "closed"}
    /\ written \in SUBSET Write
    /\ committed \in SUBSET Write
    /\ result \in {"none", "nil", "panic", "exceeded"} \cup Errors
    /\ ctxDone \in BOOLEAN
    /\ lost \in BOOLEAN
    /\ undone \in SUBSET [write : Write, done : BOOLEAN]

\* There is a stack while a callback runs, and nothing is committed until
\* WithTransaction returns.
TxShape ==
    /\ pc = "callback" <=> Len(stack) > 0
    /\ pc = "callback" => connection # "idle"
    /\ pc # "returned" => result = "none" /\ committed = {} /\ ~lost

\* Statements are told apart by their number.
Numbered ==
    /\ IsFiniteSet(written)
    /\ \A w \in written : w.number <= Cardinality(written)

\* Writes belong to the attempts made so far, and when an attempt is about to
\* begin, to earlier ones.
Past == \A w \in written : w.attempt <= attempt /\ (pc = "loop" => w.attempt < attempt)

\* A level of the stack holds writes of this attempt.
LevelsOfAttempt ==
    \A i \in 1..Len(stack) : \A w \in stack[i].writes : w \in written /\ w.attempt = attempt

\* A write is pending at one level only.
LevelsDisjoint ==
    \A i, j \in 1..Len(stack) : \A w \in stack[i].writes : w \in stack[j].writes => i = j

UndoneWritten == \A u \in undone : u.write \in written

\* What the attempt wrote is pending, or a nested call that failed had written it.
Accounted ==
    pc = "callback" =>
        \A w \in written : w.attempt = attempt =>
            \/ \E i \in 1..Len(stack) : w \in stack[i].writes
            \/ \E u \in undone : u.write = w

\* What a failed nested call wrote under a live context is still pending only on
\* a connection that is closed, or at the top of one that is aborted: whatever
\* makes the connection usable again takes the top away.
Doomed ==
    \A u \in undone : ~u.done =>
        \A i \in 1..Len(stack) : u.write \in stack[i].writes =>
            connection = "closed" \/ (connection = "aborted" /\ i = Len(stack))

CommittedOfAttempt == \A w \in committed : w.attempt = attempt

Pending ==
    /\ LevelsOfAttempt
    /\ LevelsDisjoint
    /\ UndoneWritten
    /\ Accounted
    /\ Doomed

TxInv ==
    /\ TxTypeOK
    /\ TxShape
    /\ Numbered
    /\ Past
    /\ Pending
    /\ CommittedOfAttempt
    /\ ResultHonest
    /\ NestedUndone

-----------------------------------------------------------------------------
(* What the operations do to the stack.                                    *)

LEMMA StackLevels ==
    ASSUME TxTypeOK
    PROVE  /\ Len(stack) \in Nat
           /\ \A i \in 1..Len(stack) : /\ stack[i] \in Level
                                       /\ stack[i].writes \subseteq Write
                                       /\ stack[i].done \in BOOLEAN
<1>1. stack \in Seq(Level)
    BY DEF TxTypeOK
<1>2. Len(stack) \in Nat /\ \A i \in 1..Len(stack) : stack[i] \in Level
    BY <1>1, LenProperties, ElementOfSeq
<1>3. \A l \in Level : l.writes \subseteq Write /\ l.done \in BOOLEAN
    BY DEF Level
<1>. QED BY <1>2, <1>3

\* ROLLBACK TO SAVEPOINT drops the level on top.
LEMMA PopStack ==
    ASSUME TxTypeOK, Len(stack) > 1
    PROVE  LET low == SubSeq(stack, 1, Len(stack) - 1)
           IN  /\ low \in Seq(Level)
               /\ Len(low) = Len(stack) - 1
               /\ \A i \in 1..(Len(stack) - 1) : low[i] = stack[i]
<1>. DEFINE n == Len(stack)
<1>1. n \in Nat /\ \A i \in 1..n : stack[i] \in Level
    BY StackLevels
<1>2. \A i \in 1..(n - 1) : stack[i] \in Level
    BY <1>1
<1>. HIDE DEF n
<1>3. /\ SubSeq(stack, 1, n - 1) \in Seq(Level)
      /\ Len(SubSeq(stack, 1, n - 1)) = IF 1 <= n - 1 THEN (n - 1) - 1 + 1 ELSE 0
      /\ \A i \in 1..((n - 1) - 1 + 1) : SubSeq(stack, 1, n - 1)[i] = stack[1 + i - 1]
    BY <1>1, <1>2, SubSeqProperties
<1>4. n > 1
    BY DEF n
<1>5. /\ Len(SubSeq(stack, 1, n - 1)) = n - 1
      /\ \A i \in 1..(n - 1) : SubSeq(stack, 1, n - 1)[i] = stack[i]
    BY <1>1, <1>3, <1>4
<1>. QED BY <1>3, <1>5 DEF n

\* Without it, the level below takes the writes over.
LEMMA MergeStack ==
    ASSUME TxTypeOK, NEW n \in Nat, n = Len(stack), n > 1, Merge
    PROVE  /\ stack' \in Seq(Level)
           /\ Len(stack') = n - 1
           /\ \A i \in 1..(n - 2) : stack'[i] = stack[i]
           /\ stack'[n - 1].writes = stack[n - 1].writes \cup stack[n].writes
           /\ stack'[n - 1].done = stack[n - 1].done
<1>. DEFINE low == SubSeq(stack, 1, n - 1)
            e == [low[n - 1] EXCEPT !.writes = @ \cup stack[n].writes]
<1>1. low \in Seq(Level) /\ Len(low) = n - 1 /\ \A i \in 1..(n - 1) : low[i] = stack[i]
    BY PopStack
<1>2. stack' = [low EXCEPT ![n - 1] = e]
    BY DEF Merge, Depth, Top
<1>3. /\ n - 1 \in 1..(n - 1) /\ low[n - 1] = stack[n - 1]
      /\ stack[n - 1] \in Level /\ stack[n] \in Level
    BY <1>1, StackLevels
<1>. HIDE DEF low
<1>4. /\ e \in Level
      /\ e.writes = stack[n - 1].writes \cup stack[n].writes
      /\ e.done = stack[n - 1].done
    BY <1>3 DEF Level
<1>. HIDE DEF e
<1>5. /\ stack' \in Seq(Level) /\ Len(stack') = n - 1
      /\ \A j \in 1..(n - 1) : stack'[j] = IF j = n - 1 THEN e ELSE low[j]
    BY <1>1, <1>2, <1>3, <1>4, ExceptSeq
<1>6. \A i \in 1..(n - 2) : i \in 1..(n - 1) /\ i # n - 1
    OBVIOUS
<1>. QED BY <1>1, <1>3, <1>4, <1>5, <1>6

\* SAVEPOINT adds a level.
LEMMA PushStack ==
    ASSUME TxTypeOK, NEW n \in Nat, n = Len(stack), NEW l \in Level,
           stack' = Append(stack, l)
    PROVE  /\ stack' \in Seq(Level)
           /\ Len(stack') = n + 1
           /\ \A i \in 1..n : stack'[i] = stack[i]
           /\ stack'[n + 1] = l
<1>1. stack \in Seq(Level)
    BY DEF TxTypeOK
<1>. QED BY <1>1, AppendProperties

\* A statement writes at the top.
WriteTop(w) == stack' = [stack EXCEPT ![Depth].writes = @ \cup {w}]

LEMMA WriteStack ==
    ASSUME TxTypeOK, NEW n \in Nat, n = Len(stack), n > 0, NEW w \in Write,
           WriteTop(w)
    PROVE  /\ stack' \in Seq(Level)
           /\ Len(stack') = n
           /\ \A i \in 1..n : i # n => stack'[i] = stack[i]
           /\ stack'[n].writes = stack[n].writes \cup {w}
           /\ stack'[n].done = stack[n].done
<1>. DEFINE e == [stack[n] EXCEPT !.writes = @ \cup {w}]
<1>1. stack \in Seq(Level) /\ n \in 1..n /\ stack[n] \in Level
    BY StackLevels DEF TxTypeOK
<1>2. stack' = [stack EXCEPT ![n] = e]
    BY DEF WriteTop, Depth
<1>3. e \in Level /\ e.writes = stack[n].writes \cup {w} /\ e.done = stack[n].done
    BY <1>1 DEF Level
<1>. HIDE DEF e
<1>4. /\ stack' \in Seq(Level) /\ Len(stack') = n
      /\ \A j \in 1..n : stack'[j] = IF j = n THEN e ELSE stack[j]
    BY <1>1, <1>2, <1>3, ExceptSeq
<1>. QED BY <1>1, <1>3, <1>4

\* A context that ends leaves the writes alone.
LEMMA ExpireStack ==
    ASSUME TxTypeOK, NEW n \in Nat, n = Len(stack), NEW i \in 1..n, Expire(i)
    PROVE  /\ stack' \in Seq(Level)
           /\ Len(stack') = n
           /\ \A k \in 1..n : stack'[k].writes = stack[k].writes
<1>1. stack' = [k \in 1..n |-> IF k < i THEN stack[k] ELSE [stack[k] EXCEPT !.done = TRUE]]
    BY DEF Expire, Depth
<1>2. \A k \in 1..n : /\ stack[k] \in Level
                      /\ [stack[k] EXCEPT !.done = TRUE] \in Level
                      /\ [stack[k] EXCEPT !.done = TRUE].writes = stack[k].writes
    BY StackLevels DEF Level
<1>3. /\ stack' \in [1..n -> Level] /\ DOMAIN stack' = 1..n
      /\ \A k \in 1..n : stack'[k].writes = stack[k].writes
    BY <1>1, <1>2
<1>4. stack' \in Seq(Level)
    BY <1>3, SeqDef
<1>5. Len(stack') \in Nat /\ DOMAIN stack' = 1..Len(stack')
    BY <1>4, LenProperties
<1>6. Len(stack') = n
    BY <1>3, <1>5
<1>. QED BY <1>3, <1>4, <1>6

-----------------------------------------------------------------------------
(* Types and shape.                                                        *)

\* What an attempt that failed leads to; only a retryable error is tried again.
LEMMA AttemptFailedFacts ==
    ASSUME NEW e \in Errors, AttemptFailed(e)
    PROVE  /\ attempt' = attempt
           /\ \/ pc' = "sleep" /\ result' = result /\ e = "retryable"
              \/ pc' = "returned" /\ result' \in Errors \cup {"exceeded"}
BY DEF AttemptFailed, Return, IsRetryable, Errors

\* The statements, contexts and savepoints of a callback that goes on.
Inner ==
    \/ Statement
    \/ \E i \in 1..MaxDepth : Expire(i)
    \/ Nest
    \/ NestedCommits
    \/ NestedCommitFails
    \/ StatementFails
    \/ NestedFails

\* The ends of an attempt.
Ends ==
    \/ Commit
    \/ CallbackPanics
    \/ \E e \in Errors : CallbackFails(e) \/ CommitFails(e) \/ CommitLost(e)

\* The retry loop between attempts.
Loop ==
    \/ Begin
    \/ GiveUp
    \/ Wake
    \/ ExpireIdle
    \/ \E e \in Errors : BeginFails(e)

LEMMA NextParts == TxNext => Inner \/ Ends \/ Loop
BY DEF TxNext, Inner, Ends, Loop

\* Within a callback only the stack, the connection and the histories change.
LEMMA InnerFrame ==
    ASSUME TxTypeOK, TxShape, Inner
    PROVE  /\ UNCHANGED <<pc, attempt, committed, result, lost>>
           /\ pc = "callback" /\ Len(stack) \in Nat /\ Len(stack) > 0
<1>1. UNCHANGED <<pc, attempt, committed, result, lost>>
    BY DEF Inner, Statement, Expire, Nest, NestedCommits, NestedCommitFails,
           StatementFails, NestedFails
<1>2. Len(stack) \in Nat
    BY StackLevels
<1>3. Len(stack) > 0
    BY <1>2 DEF Inner, Statement, Expire, Nest, NestedCommits, NestedCommitFails,
                StatementFails, NestedFails, Depth, TxShape
<1>. QED BY <1>1, <1>2, <1>3 DEF TxShape

\* The write a statement makes is a new one.
LEMMA NewWrite ==
    ASSUME TxTypeOK, TxShape, Numbered, Statement
    PROVE  \E w \in Write : /\ w.attempt = attempt /\ w \notin written
                            /\ written' = written \cup {w}
                            /\ WriteTop(w)
                            /\ Numbered'
<1>. DEFINE c == Cardinality(written)
            w == [attempt |-> attempt, number |-> c + 1]
<1>1. c \in Nat
    BY FS_CardinalityType DEF Numbered
<1>2. written' = written \cup {w} /\ WriteTop(w)
    BY DEF Statement, WriteTop, Depth
<1>3. w \in Write /\ w.attempt = attempt /\ w.number = c + 1
    BY <1>1 DEF Write, TxTypeOK
<1>4. \A v \in written : v.number \in Nat /\ v.number <= c
    BY DEF Numbered, TxTypeOK, Write
<1>5. w \notin written
    BY <1>1, <1>3, <1>4
<1>. HIDE DEF w
<1>6. IsFiniteSet(written') /\ Cardinality(written') = c + 1
    BY <1>2, <1>5, FS_AddElement DEF Numbered
<1>. HIDE DEF c
<1>7. Numbered'
    BY <1>1, <1>2, <1>3, <1>4, <1>6 DEF Numbered
<1>. QED BY <1>2, <1>3, <1>5, <1>7

LEMMA InnerTyped ==
    ASSUME TxTypeOK, TxShape, Numbered, Inner
    PROVE  TxTypeOK' /\ TxShape'
<1>. DEFINE n == Len(stack)
<1>1. /\ UNCHANGED <<pc, attempt, committed, result, lost>>
      /\ pc = "callback" /\ n \in Nat /\ n > 0 /\ connection # "idle"
    BY InnerFrame DEF TxShape
<1>2. ASSUME stack' \in Seq(Level), Len(stack') > 0, connection' \in {connection, "ok", "aborted", "closed"},
             written' \in SUBSET Write, ctxDone' \in BOOLEAN,
             undone' \in SUBSET [write : Write, done : BOOLEAN]
      PROVE  TxTypeOK' /\ TxShape'
    BY <1>1, <1>2 DEF TxTypeOK, TxShape
<1>3. /\ stack \in Seq(Level) /\ written \in SUBSET Write /\ ctxDone \in BOOLEAN
      /\ undone \in SUBSET [write : Write, done : BOOLEAN]
    BY DEF TxTypeOK
<1>4. Undone => undone' \in SUBSET [write : Write, done : BOOLEAN]
    <2>1. n \in 1..n /\ Top = stack[n]
        BY <1>1 DEF Top, Depth
    <2>2. Top.writes \subseteq Write /\ Top.done \in BOOLEAN
        BY <2>1, StackLevels
    <2>. QED BY <1>3, <2>2 DEF Undone
<1>5. Merge /\ n > 1 => stack' \in Seq(Level) /\ Len(stack') > 0
    BY <1>1, MergeStack
<1>6. CASE Statement
    <2>1. PICK w \in Write : written' = written \cup {w} /\ WriteTop(w)
        BY <1>6, NewWrite
    <2>2. stack' \in Seq(Level) /\ Len(stack') = n
        BY <1>1, <2>1, WriteStack
    <2>. QED BY <1>1, <1>2, <1>3, <1>6, <2>1, <2>2 DEF Statement
<1>7. ASSUME NEW i \in 1..MaxDepth, Expire(i)
      PROVE  TxTypeOK' /\ TxShape'
    <2>1. i \in 1..n
        BY <1>7 DEF Expire, Depth
    <2>2. stack' \in Seq(Level) /\ Len(stack') = n
        BY <1>1, <1>7, <2>1, ExpireStack
    <2>3. ctxDone' \in BOOLEAN
        BY <1>7 DEF Expire
    <2>. QED BY <1>1, <1>2, <1>3, <1>7, <2>2, <2>3 DEF Expire
<1>8. CASE Nest
    <2>1. [writes |-> {}, done |-> FALSE] \in Level
        BY DEF Level
    <2>2. stack' \in Seq(Level) /\ Len(stack') = n + 1
        BY <1>1, <1>8, <2>1, PushStack DEF Nest
    <2>. QED BY <1>1, <1>2, <1>3, <1>8, <2>2 DEF Nest
<1>9. CASE NestedCommits
    BY <1>1, <1>2, <1>3, <1>5, <1>9 DEF NestedCommits, Depth
<1>10. CASE NestedCommitFails
    BY <1>1, <1>2, <1>3, <1>4, <1>5, <1>10 DEF NestedCommitFails, Depth
<1>11. CASE StatementFails
    BY <1>1, <1>2, <1>3, <1>11 DEF StatementFails
<1>12. CASE NestedFails
    <2>1. n > 1 /\ Undone /\ RollbackNested /\ UNCHANGED <<written, ctxDone>>
        BY <1>12 DEF NestedFails, Depth
    <2>2. stack' \in Seq(Level) /\ Len(stack') > 0
        <3>1. CASE Merge
            BY <1>5, <2>1, <3>1
        <3>2. CASE stack' = SubSeq(stack, 1, n - 1)
            BY <1>1, <2>1, <3>2, PopStack
        <3>. QED BY <2>1, <3>1, <3>2 DEF RollbackNested, Depth
    <2>3. connection' \in {connection, "ok", "aborted", "closed"}
        BY <2>1 DEF RollbackNested
    <2>. QED BY <1>1, <1>2, <1>3, <1>4, <2>1, <2>2, <2>3
<1>. QED BY <1>6, <1>7, <1>8, <1>9, <1>10, <1>11, <1>12 DEF Inner

\* The end of an attempt leaves an empty stack.
LEMMA EndsFrame ==
    ASSUME TxTypeOK, TxShape, Ends
    PROVE  /\ pc = "callback" /\ Len(stack) = 1
           /\ stack' = <<>> /\ Len(stack') = 0 /\ connection' = "idle"
           /\ UNCHANGED <<attempt, written, undone, ctxDone>>
           /\ pc' \in {"sleep", "returned"}
           /\ pc' = "sleep" => result' = "none" /\ committed' = {} /\ ~lost'
           /\ pc' = "returned" => result' \in {"nil", "panic", "exceeded"} \cup Errors
           /\ committed' \in {{}, stack[1].writes}
           /\ committed' # {} => connection = "ok"
           /\ result' = "nil" => committed' = stack[1].writes
           /\ result' \notin {"none", "nil"} => committed' = {} \/ lost'
           /\ lost' \in BOOLEAN
<1>1. Len(<<>>) = 0
    BY EmptySeq
<1>2. pc = "callback" /\ Len(stack) = 1 /\ Close
      /\ UNCHANGED <<written, undone, ctxDone>>
    BY DEF Ends, Commit, CallbackPanics, CallbackFails, CommitFails, CommitLost, Depth
<1>3. result = "none" /\ committed = {} /\ ~lost
    BY <1>2 DEF TxShape
<1>4. Top = stack[1]
    BY <1>2 DEF Top, Depth
<1>5. CASE Commit
    BY <1>1, <1>2, <1>3, <1>4, <1>5 DEF Commit, Usable, Return, Close, TxTypeOK
<1>6. CASE CallbackPanics
    BY <1>1, <1>2, <1>3, <1>6 DEF CallbackPanics, Return, Close, TxTypeOK
<1>7. ASSUME NEW e \in Errors, CallbackFails(e) \/ CommitFails(e)
      PROVE  /\ attempt' = attempt /\ committed' = {} /\ lost' = FALSE
             /\ \/ pc' = "sleep" /\ result' = "none"
                \/ pc' = "returned" /\ result' \in Errors \cup {"exceeded"}
    BY <1>3, <1>7, AttemptFailedFacts DEF CallbackFails, CommitFails, TxTypeOK
<1>8. ASSUME NEW e \in Errors, CommitLost(e)
      PROVE  /\ attempt' = attempt /\ lost' = TRUE /\ connection = "ok"
             /\ committed' \in {{}, stack[1].writes}
             /\ pc' = "returned" /\ result' \in Errors \cup {"exceeded"}
    BY <1>3, <1>4, <1>8, AttemptFailedFacts DEF CommitLost, Usable
<1>. QED BY <1>1, <1>2, <1>5, <1>6, <1>7, <1>8 DEF Ends, Close, Errors

\* The loop works on an empty stack, and nothing has been committed.
LEMMA LoopFrame ==
    ASSUME TxTypeOK, TxShape, Loop
    PROVE  /\ pc \in {"loop", "sleep"} /\ Len(stack) = 0
           /\ UNCHANGED <<written, undone, committed, lost>>
           /\ committed = {} /\ ~lost
           /\ ctxDone' \in BOOLEAN
           /\ \/ /\ pc = "loop" /\ pc' = "callback" /\ connection' = "ok"
                 /\ stack' = <<[writes |-> {}, done |-> FALSE]>>
                 /\ attempt' = attempt /\ result' = "none"
              \/ /\ pc' # "callback" /\ pc' \in {"loop", "sleep", "returned"}
                 /\ UNCHANGED <<stack, connection>>
                 /\ attempt' = IF pc = "sleep" /\ pc' = "loop" THEN attempt + 1 ELSE attempt
                 /\ pc' = "loop" /\ pc = "loop" => attempt' = attempt
                 /\ pc' # "returned" => result' = "none"
                 /\ pc' = "returned" => result' \in Errors \cup {"exceeded"}
<1>1. pc \in {"loop", "sleep"} /\ UNCHANGED <<written, undone, committed, lost>>
    BY DEF Loop, Begin, GiveUp, Wake, ExpireIdle, BeginFails
<1>2. Len(stack) = 0 /\ result = "none" /\ committed = {} /\ ~lost
    BY <1>1, StackLevels DEF TxShape
<1>3. ctxDone' \in BOOLEAN
    BY DEF Loop, Begin, GiveUp, Wake, ExpireIdle, BeginFails, TxTypeOK
<1>4. CASE Begin
    BY <1>1, <1>2, <1>3, <1>4 DEF Begin
<1>5. CASE GiveUp \/ Wake \/ ExpireIdle
    BY <1>1, <1>2, <1>3, <1>5 DEF GiveUp, Wake, ExpireIdle, Return, Errors
<1>6. ASSUME NEW e \in Errors, BeginFails(e)
      PROVE  /\ pc = "loop" /\ UNCHANGED <<stack, connection>> /\ attempt' = attempt
             /\ \/ pc' = "sleep" /\ result' = "none"
                \/ pc' = "returned" /\ result' \in Errors \cup {"exceeded"}
    BY <1>2, <1>6, AttemptFailedFacts DEF BeginFails
<1>. QED BY <1>1, <1>2, <1>3, <1>4, <1>5, <1>6 DEF Loop

-----------------------------------------------------------------------------
(* What is pending, action by action.                                      *)

\* With no level there is nothing to account for.
LEMMA EmptyPending ==
    ASSUME Len(stack) = 0, pc # "callback", UndoneWritten
    PROVE  Pending
BY DEF Pending, LevelsOfAttempt, LevelsDisjoint, UndoneWritten, Accounted, Doomed

\* The stack keeps its writes where they are, and the connection gets no better.
LEMMA SamePending ==
    ASSUME Pending, NEW n \in Nat, n = Len(stack), Len(stack') = n,
           \A k \in 1..n : stack'[k].writes = stack[k].writes,
           UNCHANGED <<pc, attempt, written, undone>>,
           connection' = connection \/ connection = "ok"
    PROVE  Pending'
BY DEF Pending, LevelsOfAttempt, LevelsDisjoint, UndoneWritten, Accounted, Doomed

\* A statement's write is a new one, made on a connection that works.
LEMMA StatementPending ==
    ASSUME TxInv, Statement
    PROVE  Pending' /\ Past' /\ Numbered'
<1>. DEFINE n == Len(stack)
<1>1. /\ UNCHANGED <<pc, attempt, committed, result, lost>>
      /\ pc = "callback" /\ n \in Nat /\ n > 0
    BY InnerFrame DEF TxInv, Inner
<1>2. connection = "ok" /\ connection' = connection /\ undone' = undone
    BY DEF Statement, Usable
<1>3. PICK w \in Write : /\ w.attempt = attempt /\ w \notin written
                         /\ written' = written \cup {w} /\ WriteTop(w) /\ Numbered'
    BY NewWrite DEF TxInv
<1>4. /\ Len(stack') = n
      /\ \A i \in 1..n : i # n => stack'[i] = stack[i]
      /\ stack'[n].writes = stack[n].writes \cup {w}
    BY <1>1, <1>3, WriteStack DEF TxInv
<1>5. \A i \in 1..n : /\ stack[i].writes \subseteq stack'[i].writes
                      /\ \A v \in stack'[i].writes : v \in stack[i].writes \/ (v = w /\ i = n)
    BY <1>1, <1>4
<1>6. \A i \in 1..n : w \notin stack[i].writes
    BY <1>3 DEF TxInv, Pending, LevelsOfAttempt
<1>7. n \in 1..n /\ w \in stack'[n].writes
    BY <1>1, <1>4
<1>. HIDE DEF n
<1>8. LevelsOfAttempt'
    BY <1>1, <1>3, <1>4, <1>5 DEF TxInv, Pending, LevelsOfAttempt, n
<1>9. LevelsDisjoint'
    BY <1>4, <1>5, <1>6 DEF TxInv, Pending, LevelsDisjoint, n
<1>10. UndoneWritten'
    BY <1>2, <1>3 DEF TxInv, Pending, UndoneWritten
<1>11. Accounted'
    BY <1>1, <1>2, <1>3, <1>4, <1>5, <1>7 DEF TxInv, Pending, Accounted, n
<1>12. Doomed'
    <2>1. \A u \in undone : u.write # w
        BY <1>3 DEF TxInv, Pending, UndoneWritten
    <2>. QED BY <1>2, <1>4, <1>5, <2>1 DEF TxInv, Pending, Doomed, n
<1>13. Past'
    BY <1>1, <1>3 DEF TxInv, Past, TxTypeOK
<1>. QED BY <1>3, <1>8, <1>9, <1>10, <1>11, <1>12, <1>13 DEF Pending

\* A new level holds nothing.
LEMMA NestPending ==
    ASSUME TxInv, Nest
    PROVE  Pending'
<1>. DEFINE n == Len(stack)
            l == [writes |-> {}, done |-> FALSE]
<1>1. n \in Nat /\ pc = "callback" /\ UNCHANGED <<pc, attempt, written, undone>>
      /\ connection = "ok"
    BY InnerFrame DEF TxInv, Inner, Nest, Usable
<1>2. l \in Level /\ l.writes = {}
    BY DEF Level
<1>3. stack' = Append(stack, l)
    BY DEF Nest
<1>. HIDE DEF l
<1>4. /\ Len(stack') = n + 1
      /\ \A i \in 1..n : stack'[i] = stack[i]
      /\ stack'[n + 1] = l
    BY <1>1, <1>2, <1>3, PushStack DEF TxInv
<1>5. \A i \in 1..(n + 1) : i \in 1..n \/ i = n + 1
    BY <1>1
<1>6. \A i \in 1..(n + 1) : \A w \in stack'[i].writes : i \in 1..n /\ w \in stack[i].writes
    BY <1>2, <1>4, <1>5
<1>7. \A i \in 1..n : i \in 1..(n + 1)
    BY <1>1
<1>. HIDE DEF n
<1>8. LevelsOfAttempt' /\ LevelsDisjoint' /\ UndoneWritten'
    BY <1>1, <1>4, <1>6
    DEF TxInv, Pending, LevelsOfAttempt, LevelsDisjoint, UndoneWritten, n
<1>9. Accounted'
    BY <1>1, <1>4, <1>7 DEF TxInv, Pending, Accounted, n
<1>10. Doomed'
    BY <1>1, <1>4, <1>6 DEF TxInv, Pending, Doomed, n
<1>. QED BY <1>8, <1>9, <1>10 DEF Pending

\* The level below takes over; the nested call may have failed, but then under
\* a context that is done, or on a connection that does not work.
LEMMA MergePending ==
    ASSUME TxInv, NEW n \in Nat, n = Len(stack), n > 1, Merge,
           UNCHANGED <<pc, attempt, written, connection>>, pc = "callback",
           undone' = undone \/ (Undone /\ (Top.done \/ connection # "ok"))
    PROVE  Pending'
<1>1. /\ Len(stack') = n - 1
      /\ \A i \in 1..(n - 2) : stack'[i] = stack[i]
      /\ stack'[n - 1].writes = stack[n - 1].writes \cup stack[n].writes
    BY MergeStack DEF TxInv
<1>2. \A i \in 1..(n - 1) : i \in 1..n /\ (i \in 1..(n - 2) \/ i = n - 1)
    OBVIOUS
<1>3. n \in 1..n /\ n - 1 \in 1..(n - 1) /\ n - 1 \in 1..n /\ n - 1 # n
    OBVIOUS
<1>4. ASSUME NEW i \in 1..(n - 1), NEW w \in stack'[i].writes
      PROVE  w \in stack[i].writes \/ (i = n - 1 /\ w \in stack[n].writes)
    BY <1>1, <1>2
<1>5. ASSUME NEW i \in 1..n, NEW w \in stack[i].writes
      PROVE  \E k \in 1..(n - 1) : w \in stack'[k].writes
    <2>1. CASE i \in 1..(n - 2)
        BY <1>1, <1>5, <2>1
    <2>2. CASE i = n - 1 \/ i = n
        BY <1>1, <1>3, <1>5, <2>2
    <2>3. i \in 1..(n - 2) \/ i = n - 1 \/ i = n
        OBVIOUS
    <2>. QED BY <2>1, <2>2, <2>3
<1>6. \A w \in stack[n].writes : w \in written /\ w.attempt = attempt
    BY <1>3 DEF TxInv, Pending, LevelsOfAttempt
<1>7. /\ undone \subseteq undone'
      /\ \A u \in undone' : \/ u \in undone
                            \/ /\ u.write \in stack[n].writes
                               /\ u.done \/ connection # "ok"
    <2>1. Top = stack[n] /\ Top.done \in BOOLEAN
        BY <1>3, StackLevels DEF TxInv, Top, Depth
    <2>. QED BY <2>1 DEF Undone
<1>8. LevelsOfAttempt'
    BY <1>1, <1>2, <1>4, <1>6 DEF TxInv, Pending, LevelsOfAttempt
<1>9. LevelsDisjoint'
    <2>1. SUFFICES ASSUME NEW i \in 1..(n - 1), NEW j \in 1..(n - 1),
                          NEW w \in stack'[i].writes, w \in stack'[j].writes
                   PROVE  i = j
        BY <1>1 DEF LevelsDisjoint
    <2>2. \A x, y \in 1..n : w \in stack[x].writes /\ w \in stack[y].writes => x = y
        BY DEF TxInv, Pending, LevelsDisjoint
    <2>3. /\ w \in stack[i].writes \/ (i = n - 1 /\ w \in stack[n].writes)
          /\ w \in stack[j].writes \/ (j = n - 1 /\ w \in stack[n].writes)
        BY <1>4, <2>1
    <2>. QED BY <1>2, <1>3, <2>2, <2>3
<1>10. UndoneWritten'
    BY <1>6, <1>7 DEF TxInv, Pending, UndoneWritten
<1>11. Accounted'
    BY <1>1, <1>5, <1>7 DEF TxInv, Pending, Accounted
<1>12. Doomed'
    <2>1. SUFFICES ASSUME NEW u \in undone', ~u.done, NEW i \in 1..(n - 1),
                          u.write \in stack'[i].writes, connection # "closed"
                   PROVE  connection = "aborted" /\ i = n - 1
        BY <1>1 DEF Doomed
    <2>2. u.write \in stack[i].writes \/ (i = n - 1 /\ u.write \in stack[n].writes)
        BY <1>4, <2>1
    <2>3. connection \in {"ok", "aborted"}
        BY <2>1 DEF TxInv, TxShape, TxTypeOK
    <2>4. CASE u \in undone
        BY <1>2, <1>3, <2>1, <2>2, <2>4 DEF TxInv, Pending, Doomed
    <2>5. CASE u.write \in stack[n].writes /\ connection # "ok"
        <3>1. \A x \in 1..n : u.write \in stack[x].writes => x = n
            BY <1>3, <2>5 DEF TxInv, Pending, LevelsDisjoint
        <3>. QED BY <1>2, <2>2, <2>3, <2>5, <3>1
    <2>. QED BY <1>7, <2>1, <2>4, <2>5
<1>. QED BY <1>8, <1>9, <1>10, <1>11, <1>12 DEF Pending

\* ROLLBACK TO SAVEPOINT takes the writes of the failed call away.
LEMMA PopPending ==
    ASSUME TxInv, NEW n \in Nat, n = Len(stack), n > 1,
           stack' = SubSeq(stack, 1, n - 1), connection' = "ok", connection # "closed",
           UNCHANGED <<pc, attempt, written>>, pc = "callback", Undone
    PROVE  Pending'
<1>1. Len(stack') = n - 1 /\ \A i \in 1..(n - 1) : stack'[i] = stack[i]
    BY PopStack DEF TxInv
<1>2. /\ n \in 1..n /\ \A i \in 1..(n - 1) : i \in 1..n /\ i # n
      /\ \A i \in 1..n : i \in 1..(n - 1) \/ i = n
    OBVIOUS
<1>3. \A w \in stack[n].writes : w \in written /\ w.attempt = attempt
    BY <1>2 DEF TxInv, Pending, LevelsOfAttempt
<1>4. /\ undone \subseteq undone'
      /\ \A u \in undone' : u \in undone \/ u.write \in stack[n].writes
      /\ \A w \in stack[n].writes : \E u \in undone' : u.write = w
    <2>1. Top = stack[n]
        BY DEF Top, Depth
    <2>. DEFINE R(w) == [write |-> w, done |-> Top.done]
    <2>2. undone' = undone \cup {R(w) : w \in stack[n].writes}
        BY <2>1 DEF Undone
    <2>3. \A w : R(w).write = w
        OBVIOUS
    <2>. HIDE DEF R
    <2>4. ASSUME NEW u \in undone', u \notin undone
          PROVE  u.write \in stack[n].writes
        <3>1. PICK w \in stack[n].writes : u = R(w)
            BY <2>2, <2>4
        <3>. QED BY <2>3, <3>1
    <2>5. \A w \in stack[n].writes : R(w) \in undone' /\ R(w).write = w
        BY <2>2, <2>3
    <2>. QED BY <2>2, <2>4, <2>5
<1>5. LevelsOfAttempt' /\ LevelsDisjoint'
    <2>1. LevelsOfAttempt /\ LevelsDisjoint
        BY DEF TxInv, Pending
    <2>2. LevelsOfAttempt'
        BY <1>1, <1>2, <2>1 DEF LevelsOfAttempt
    <2>3. LevelsDisjoint'
        BY <1>1, <1>2, <2>1 DEF LevelsDisjoint
    <2>. QED BY <2>2, <2>3
<1>6. UndoneWritten'
    BY <1>3, <1>4 DEF TxInv, Pending, UndoneWritten
<1>7. Accounted'
    BY <1>1, <1>2, <1>4 DEF TxInv, Pending, Accounted
<1>8. Doomed'
    <2>1. SUFFICES ASSUME NEW u \in undone', ~u.done, NEW i \in 1..(n - 1),
                          u.write \in stack[i].writes
                   PROVE  FALSE
        BY <1>1 DEF Doomed
    <2>2. CASE u \in undone
        BY <1>2, <2>1, <2>2 DEF TxInv, Pending, Doomed
    <2>3. CASE u.write \in stack[n].writes
        BY <1>2, <2>1, <2>3 DEF TxInv, Pending, LevelsDisjoint
    <2>. QED BY <1>4, <2>2, <2>3
<1>. QED BY <1>5, <1>6, <1>7, <1>8 DEF Pending

LEMMA InnerPending ==
    ASSUME TxInv, Inner
    PROVE  Pending' /\ Past' /\ Numbered'
<1>. DEFINE n == Len(stack)
<1>1. UNCHANGED <<pc, attempt>> /\ pc = "callback" /\ n \in Nat /\ n > 0
    BY InnerFrame DEF TxInv
<1>2. written' = written => Past' /\ Numbered'
    BY <1>1 DEF TxInv, Past, Numbered
<1>3. CASE Statement
    BY <1>3, StatementPending
<1>4. ASSUME NEW i \in 1..MaxDepth, Expire(i)
      PROVE  Pending' /\ written' = written
    <2>1. i \in 1..n
        BY <1>4 DEF Expire, Depth
    <2>2. Len(stack') = n /\ \A k \in 1..n : stack'[k].writes = stack[k].writes
        BY <1>1, <1>4, <2>1, ExpireStack DEF TxInv
    <2>3. UNCHANGED <<written, undone, connection>>
        BY <1>4 DEF Expire
    <2>. QED BY <1>1, <2>2, <2>3, SamePending DEF TxInv
<1>5. CASE StatementFails
    <2>1. UNCHANGED <<stack, written, undone>> /\ connection = "ok"
        BY <1>5 DEF StatementFails, Usable
    <2>. QED BY <1>1, <1>2, <2>1, SamePending DEF TxInv
<1>6. CASE Nest
    BY <1>2, <1>6, NestPending DEF Nest
<1>7. CASE NestedCommits
    <2>1. n > 1 /\ Merge /\ UNCHANGED <<written, connection, undone>>
        BY <1>7 DEF NestedCommits, Depth
    <2>2. Pending'
        BY <1>1, <2>1, MergePending
    <2>. QED BY <1>2, <2>1, <2>2
<1>8. CASE NestedCommitFails
    <2>1. Top.done \/ connection # "ok"
        BY <1>8 DEF NestedCommitFails, Usable
    <2>2. n > 1 /\ Merge /\ Undone /\ UNCHANGED <<written, connection>>
        BY <1>8 DEF NestedCommitFails, Depth
    <2>3. Pending'
        BY <1>1, <2>1, <2>2, MergePending
    <2>. QED BY <1>2, <2>2, <2>3
<1>9. CASE NestedFails
    <2>1. n > 1 /\ RollbackNested /\ Undone /\ written' = written
        BY <1>9 DEF NestedFails, Depth
    <2>2. CASE Top.done \/ connection = "closed"
        <3>1. Merge /\ connection' = connection
            BY <2>1, <2>2 DEF RollbackNested
        <3>. QED BY <1>1, <1>2, <2>1, <2>2, <3>1, MergePending
    <2>3. CASE ~(Top.done \/ connection = "closed")
        <3>1. stack' = SubSeq(stack, 1, n - 1) /\ connection' = "ok"
            BY <2>1, <2>3 DEF RollbackNested, Depth
        <3>. QED BY <1>1, <1>2, <2>1, <2>3, <3>1, PopPending
    <2>. QED BY <2>2, <2>3
<1>. QED BY <1>2, <1>3, <1>4, <1>5, <1>6, <1>7, <1>8, <1>9 DEF Inner

-----------------------------------------------------------------------------
(* The invariant and what follows from it.                                 *)

LEMMA TxInvInit == TxInit => TxInv
<1>1. SUFFICES ASSUME TxInit PROVE TxInv
    OBVIOUS
<1>2. stack \in Seq(Level) /\ Len(stack) = 0
    BY <1>1, EmptySeq DEF TxInit
<1>3. TxTypeOK /\ TxShape
    <2>1. TxTypeOK
        BY <1>1, <1>2 DEF TxInit, TxTypeOK
    <2>2. TxShape
        BY <1>1, <1>2 DEF TxInit, TxShape
    <2>. QED BY <2>1, <2>2
<1>4. Numbered /\ Past
    BY <1>1, FS_EmptySet DEF TxInit, Numbered, Past
<1>5. Pending
    BY <1>1, <1>2, EmptyPending DEF TxInit, UndoneWritten
<1>6. CommittedOfAttempt /\ ResultHonest /\ NestedUndone
    BY <1>1 DEF TxInit, CommittedOfAttempt, ResultHonest, NestedUndone
<1>. QED BY <1>3, <1>4, <1>5, <1>6 DEF TxInv

LEMMA InnerInv ==
    ASSUME TxInv, Inner
    PROVE  TxInv'
<1>1. TxTypeOK' /\ TxShape'
    BY InnerTyped DEF TxInv
<1>2. Pending' /\ Past' /\ Numbered'
    BY InnerPending
<1>3. /\ UNCHANGED <<pc, attempt, committed, result, lost>>
      /\ pc = "callback" /\ committed = {} /\ result = "none"
    BY InnerFrame DEF TxInv, TxShape
<1>4. CommittedOfAttempt' /\ ResultHonest' /\ NestedUndone'
    BY <1>3 DEF CommittedOfAttempt, ResultHonest, NestedUndone
<1>. QED BY <1>1, <1>2, <1>4 DEF TxInv

\* What is committed is the level that was left, on a connection that works.
LEMMA EndsInv ==
    ASSUME TxInv, Ends
    PROVE  TxInv'
<1>1. /\ pc = "callback" /\ Len(stack) = 1
      /\ stack' = <<>> /\ Len(stack') = 0 /\ connection' = "idle"
      /\ UNCHANGED <<attempt, written, undone, ctxDone>>
      /\ pc' \in {"sleep", "returned"}
      /\ pc' = "sleep" => result' = "none" /\ committed' = {} /\ ~lost'
      /\ pc' = "returned" => result' \in {"nil", "panic", "exceeded"} \cup Errors
      /\ committed' \in {{}, stack[1].writes}
      /\ committed' # {} => connection = "ok"
      /\ result' = "nil" => committed' = stack[1].writes
      /\ result' \notin {"none", "nil"} => committed' = {} \/ lost'
      /\ lost' \in BOOLEAN
    BY EndsFrame DEF TxInv
<1>2. stack[1].writes \subseteq Write
    BY <1>1, StackLevels DEF TxInv
<1>3. <<>> \in Seq(Level)
    BY EmptySeq
<1>4. TxTypeOK'
    <2>1. TxTypeOK
        BY DEF TxInv
    <2>2. result' \in {"none", "nil", "panic", "exceeded"} \cup Errors
        BY <1>1
    <2>3. committed' \in SUBSET Write
        BY <1>1, <1>2
    <2>4. stack' \in Seq(Level)
        BY <1>1, <1>3
    <2>. QED BY <1>1, <2>1, <2>2, <2>3, <2>4 DEF TxTypeOK
<1>5. TxShape'
    BY <1>1 DEF TxShape
<1>6. Numbered' /\ Past'
    BY <1>1 DEF TxInv, Numbered, Past
<1>7. UndoneWritten'
    BY <1>1 DEF TxInv, Pending, UndoneWritten
<1>8. Pending'
    BY <1>1, <1>7
    DEF Pending, LevelsOfAttempt, LevelsDisjoint, Accounted, Doomed
<1>9. CommittedOfAttempt'
    BY <1>1 DEF TxInv, Pending, LevelsOfAttempt, CommittedOfAttempt
<1>10. ResultHonest'
    <2>1. ASSUME result' = "nil", NEW w \in written', w.attempt = attempt'
          PROVE  w \in committed' \/ w \in {u.write : u \in undone'}
        <3>1. \/ w \in stack[1].writes
              \/ \E u \in undone : u.write = w
            BY <1>1, <2>1 DEF TxInv, Pending, Accounted
        <3>. QED BY <1>1, <2>1, <3>1
    <2>. QED BY <1>1, <2>1 DEF ResultHonest
<1>11. NestedUndone'
    BY <1>1 DEF TxInv, Pending, Doomed, NestedUndone
<1>. QED BY <1>4, <1>5, <1>6, <1>8, <1>9, <1>10, <1>11 DEF TxInv

LEMMA LoopInv ==
    ASSUME TxInv, Loop
    PROVE  TxInv'
<1>1. /\ pc \in {"loop", "sleep"} /\ Len(stack) = 0
      /\ UNCHANGED <<written, undone, committed, lost>>
      /\ committed = {} /\ ~lost
      /\ ctxDone' \in BOOLEAN
    BY LoopFrame DEF TxInv
<1>2. CommittedOfAttempt' /\ NestedUndone' /\ UndoneWritten'
    BY <1>1 DEF CommittedOfAttempt, NestedUndone, TxInv, Pending, UndoneWritten
<1>3. Numbered'
    BY <1>1 DEF TxInv, Numbered
<1>4. CASE /\ pc = "loop" /\ pc' = "callback" /\ connection' = "ok"
           /\ stack' = <<[writes |-> {}, done |-> FALSE]>>
           /\ attempt' = attempt /\ result' = "none"
    <2>1. [writes |-> {}, done |-> FALSE] \in Level
        BY DEF Level
    <2>2. stack' \in Seq(Level) /\ Len(stack') = 1 /\ stack'[1].writes = {}
        BY <1>4, <2>1
    <2>3. TxTypeOK' /\ TxShape'
        BY <1>1, <1>4, <2>2 DEF TxInv, TxTypeOK, TxShape
    <2>4. Past'
        BY <1>1, <1>4 DEF TxInv, Past
    <2>5. \A w \in written : w.attempt # attempt
        BY <1>4 DEF TxInv, Past, TxTypeOK, Write
    <2>6. \A i \in 1..Len(stack') : stack'[i].writes = {}
        BY <2>2
    <2>7. Pending'
        BY <1>1, <1>2, <1>4, <2>5, <2>6
        DEF Pending, LevelsOfAttempt, LevelsDisjoint, Accounted, Doomed
    <2>8. ResultHonest'
        BY <1>4 DEF ResultHonest
    <2>. QED BY <1>2, <1>3, <2>3, <2>4, <2>7, <2>8 DEF TxInv
<1>5. CASE /\ pc' # "callback" /\ pc' \in {"loop", "sleep", "returned"}
           /\ UNCHANGED <<stack, connection>>
           /\ attempt' = IF pc = "sleep" /\ pc' = "loop" THEN attempt + 1 ELSE attempt
           /\ pc' # "returned" => result' = "none"
           /\ pc' = "returned" => result' \in Errors \cup {"exceeded"}
    <2>1. TxTypeOK' /\ TxShape'
        BY <1>1, <1>5 DEF TxInv, TxTypeOK, TxShape
    <2>2. Past'
        BY <1>1, <1>5 DEF TxInv, Past, TxTypeOK, Write
    <2>3. Pending'
        BY <1>1, <1>2, <1>5
        DEF Pending, LevelsOfAttempt, LevelsDisjoint, Accounted, Doomed
    <2>4. ResultHonest'
        BY <1>1, <1>5 DEF ResultHonest, Errors
    <2>. QED BY <1>2, <1>3, <2>1, <2>2, <2>3, <2>4 DEF TxInv
<1>. QED BY <1>4, <1>5, LoopFrame DEF TxInv

LEMMA TxInvNext ==
    ASSUME TxInv, [TxNext]_txVars
    PROVE  TxInv'
<1>1. CASE UNCHANGED txVars
    BY <1>1
    DEF txVars, TxInv, TxTypeOK, TxShape, Numbered, Past, Pending, LevelsOfAttempt,
        LevelsDisjoint, UndoneWritten, Accounted, Doomed, CommittedOfAttempt, ResultHonest,
        NestedUndone
<1>. QED BY <1>1, NextParts, InnerInv, EndsInv, LoopInv

\* Every reachable state of a call of WithTransaction satisfies the invariant.
THEOREM TxInvariance == TxSpec => []TxInv
BY TxInvInit, TxInvNext, PTL DEF TxSpec

\* However often the callback is retried (the loop of withTransaction in
\* postgres/tx.go), what is committed was written by one run of it.
THEOREM OneAttemptCommittedHolds == TxSpec => []OneAttemptCommitted
<1>1. TxInv => OneAttemptCommitted
    BY DEF TxInv, CommittedOfAttempt, OneAttemptCommitted
<1>. QED BY <1>1, TxInvariance, PTL

\* The result of WithTransaction can be relied upon: after nil the last run's
\* writes are committed, but for nested calls that failed, and after an error
\* nothing is, unless the answer to COMMIT was lost.
THEOREM ResultHonestHolds == TxSpec => []ResultHonest
<1>1. TxInv => ResultHonest
    BY DEF TxInv
<1>. QED BY <1>1, TxInvariance, PTL

\* A nested call (withSavepoint in postgres/tx.go) that failed under a live context has left
\* nothing behind in what is committed, at any depth of nesting.
THEOREM NestedUndoneHolds == TxSpec => []NestedUndone
<1>1. TxInv => NestedUndone
    BY DEF TxInv
<1>. QED BY <1>1, TxInvariance, PTL
=============================================================================
