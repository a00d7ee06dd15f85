---------------------------- MODULE PartsProofs -----------------------------
(***************************************************************************)
(* Proofs about two parts of the library that share no state: Mail, for    *)
(* any number of calls of Send, and Registry, for any handlers, types of   *)
(* events, relays and jobs and any number of registrations.                *)
(***************************************************************************)
EXTENDS Mail, Registry, SequenceTheorems, TLAPS

-----------------------------------------------------------------------------
(* Mail: the inductive invariant.                                          *)

Outcomes ==
    [outcome : {"nil", "failed", "context", "invalid"},
     op : {Operations[i] : i \in DOMAIN Operations} \cup {"validate"},
     secure : BOOLEAN, authed : BOOLEAN]

MailTypeOK ==
    /\ smtp \in SMTPConfigs
    /\ command \in {Operations[i] : i \in DOMAIN Operations} \cup {"unset", "idle", "ended"}
    /\ secure \in BOOLEAN
    /\ authed \in BOOLEAN
    /\ sends \in Nat
    /\ returned \in Seq(Outcomes)

\* Every call has its result but the one that is in the dialogue.
Results ==
    /\ Len(returned) = IF InDialogue THEN sends - 1 ELSE sends
    /\ InDialogue => sends > 0
    /\ command = "unset" => sends = 0

\* What is left by an operation.
Done(op) ==
    /\ op \in {"TLS handshake", "start TLS"} => secure
    /\ op = "authenticate" => authed

\* The operations before the present one are done, if they are needed.
DoneSoFar ==
    \A i, j \in DOMAIN Operations :
        (command = Operations[j] /\ i < j /\ Needed(Operations[i])) => Done(Operations[i])

\* A copy has left only from a call that came to finishing the data.
Copies ==
    /\ inbox \cup outbound \subseteq 1..sends
    /\ InDialogue /\ sends \in inbox \cup outbound => command \in {"finish message data", "quit"}
    /\ command = "quit" => sends \in inbox

\* SendHonest, also for the copies that the server has not read yet.
Honest ==
    \A i \in DOMAIN returned :
        /\ returned[i].outcome = "nil" =>
            /\ i \in inbox
            /\ smtp.StartTLS \/ smtp.ImplicitTLS => returned[i].secure
            /\ smtp.Username => returned[i].authed
        /\ i \in inbox \cup outbound => returned[i].op \in {"finish message data", "quit"}

MailInv == MailTypeOK /\ Results /\ DoneSoFar /\ Copies /\ Honest

-----------------------------------------------------------------------------
(* The operations of a dialogue.                                           *)

\* The operations by number.
LEMMA OperationTable ==
    /\ Operations[1] = "connect" /\ Operations[2] = "TLS handshake"
    /\ Operations[3] = "initialize SMTP client" /\ Operations[4] = "start TLS"
    /\ Operations[5] = "authenticate" /\ Operations[6] = "set sender"
    /\ Operations[7] = "set recipient" /\ Operations[8] = "start message data"
    /\ Operations[9] = "write message data" /\ Operations[10] = "finish message data"
    /\ Operations[11] = "quit"
BY DEF Operations

\* There are eleven.
LEMMA Numbers ==
    /\ DOMAIN Operations = 1..11
    /\ \A i \in 1..11 : \/ i = 1 \/ i = 2 \/ i = 3 \/ i = 4 \/ i = 5 \/ i = 6
                         \/ i = 7 \/ i = 8 \/ i = 9 \/ i = 10 \/ i = 11
BY DEF Operations

\* No two operations share a name, and none has that of a state in which there is
\* no dialogue.
LEMMA OperationsDistinct ==
    /\ \A i, j \in 1..11 : Operations[i] = Operations[j] => i = j
    /\ \A i \in 1..11 : Operations[i] \notin {"unset", "idle", "ended", "validate"}
<1>1. \A i, j \in 1..11 : Operations[i] = Operations[j] => i = j
    BY OperationTable, Numbers, ZenonT(60)
<1>2. \A i \in 1..11 : Operations[i] \notin {"unset", "idle", "ended", "validate"}
    BY OperationTable, Numbers, ZenonT(60)
<1>. QED BY <1>1, <1>2

\* An operation is one of them.
LEMMA IsOperation ==
    ASSUME NEW i \in 1..11
    PROVE  Operations[i] \in {Operations[k] : k \in DOMAIN Operations}
BY Numbers

\* In a dialogue, the command is an operation.
LEMMA CommandIsOperation ==
    ASSUME MailTypeOK, InDialogue
    PROVE  \E j \in 1..11 : command = Operations[j]
BY Numbers DEF MailTypeOK, InDialogue

\* DoneSoFar for two operations.
LEMMA DoneBefore ==
    ASSUME MailInv, NEW i \in 1..11, NEW j \in 1..11, command = Operations[j], i < j,
           Needed(Operations[i])
    PROVE  Done(Operations[i])
<1>1. i \in DOMAIN Operations /\ j \in DOMAIN Operations
    BY Numbers
<1>. QED BY <1>1 DEF MailInv, DoneSoFar

\* What is to be said of a Send that comes to QUIT: TLS and credentials are in
\* place if they are configured.
LEMMA AllDoneAtQuit ==
    ASSUME MailInv, command = "quit"
    PROVE  /\ smtp.StartTLS \/ smtp.ImplicitTLS => secure
           /\ smtp.Username => authed
           /\ sends \in inbox
<1>1. ASSUME NEW i \in 1..10, Needed(Operations[i])
      PROVE  Done(Operations[i])
    <2>1. PICK q \in 1..11 : q = 11 /\ command = Operations[q]
        BY DEF Operations
    <2>2. i \in 1..11 /\ i < q
        BY <2>1
    <2>. QED BY <1>1, <2>1, <2>2, DoneBefore
<1>2. ASSUME smtp.ImplicitTLS
      PROVE  secure
    <2>1. PICK i \in 1..10 : i = 2 /\ Operations[i] = "TLS handshake"
        BY DEF Operations
    <2>2. Needed(Operations[i])
        BY <1>2, <2>1 DEF Needed
    <2>3. Done(Operations[i])
        BY <1>1, <2>2
    <2>. QED BY <2>1, <2>3 DEF Done
<1>3. ASSUME smtp.StartTLS
      PROVE  secure
    <2>1. PICK i \in 1..10 : i = 4 /\ Operations[i] = "start TLS"
        BY DEF Operations
    <2>2. Needed(Operations[i])
        BY <1>3, <2>1 DEF Needed
    <2>3. Done(Operations[i])
        BY <1>1, <2>2
    <2>. QED BY <2>1, <2>3 DEF Done
<1>4. ASSUME smtp.Username
      PROVE  authed
    <2>1. PICK i \in 1..10 : i = 5 /\ Operations[i] = "authenticate"
        BY DEF Operations
    <2>2. Needed(Operations[i])
        BY <1>4, <2>1 DEF Needed
    <2>3. Done(Operations[i])
        BY <1>1, <2>2
    <2>. QED BY <2>1, <2>3 DEF Done
<1>. QED BY <1>2, <1>3, <1>4 DEF MailInv, Copies

-----------------------------------------------------------------------------
(* The invariant is preserved.                                             *)

\* The invariant holds before NewSMTP.
LEMMA MailInvInit == MailInit => MailInv
<1>1. SUFFICES ASSUME MailInit PROVE MailInv
    OBVIOUS
<1>2. smtp \in SMTPConfigs
    BY <1>1 DEF MailInit, Unset, SMTPConfigs
<1>3. MailTypeOK
    <2>1. returned \in Seq(Outcomes) /\ sends \in Nat
        BY <1>1 DEF MailInit
    <2>2. secure \in BOOLEAN /\ authed \in BOOLEAN /\ command \in {"unset", "idle", "ended"}
        BY <1>1 DEF MailInit
    <2>. QED BY <1>2, <2>1, <2>2 DEF MailTypeOK
<1>4. ~InDialogue /\ \A i \in 1..11 : command # Operations[i]
    BY <1>1, OperationsDistinct DEF MailInit, InDialogue
<1>5. Results
    BY <1>1, <1>4 DEF MailInit, Results
<1>6. DoneSoFar
    BY <1>4, Numbers DEF DoneSoFar
<1>7. Copies /\ Honest
    BY <1>1 DEF MailInit, Copies, Honest, InDialogue
<1>. QED BY <1>3, <1>5, <1>6, <1>7 DEF MailInv

\* Steps that leave the dialogue, the copies and the results alone.
LEMMA Aside ==
    ASSUME MailInv, UNCHANGED <<smtp, command, secure, authed, outbound, inbox, sends, returned>>
    PROVE  MailInv'
BY DEF MailInv, MailTypeOK, Results, DoneSoFar, Done, Needed, Copies, Honest, InDialogue

\* A Send ends, with nil only after QUIT.
LEMMA ReturnsKeepsInv ==
    ASSUME MailInv, InDialogue,
           NEW outcome \in {"nil", "failed", "context"}, Returns(outcome),
           outcome = "nil" => command = "quit",
           UNCHANGED <<smtp, secure, authed, outbound, inbox, sends>>
    PROVE  MailInv'
<1>. DEFINE result == [outcome |-> outcome, op |-> command, secure |-> secure, authed |-> authed]
<1>1. command' = "ended" /\ returned' = Append(returned, result)
    BY DEF Returns
<1>2. PICK j \in 1..11 : command = Operations[j]
    BY CommandIsOperation DEF MailInv
<1>3. result \in Outcomes
    BY <1>2, OperationsDistinct DEF Outcomes, MailInv, MailTypeOK
<1>4. /\ returned \in Seq(Outcomes) /\ sends \in Nat /\ Len(returned) = sends - 1
      /\ sends > 0
    BY DEF MailInv, MailTypeOK, Results
<1>5. /\ result.outcome = outcome /\ result.op = command
      /\ result.secure = secure /\ result.authed = authed
    OBVIOUS
<1>. HIDE DEF result
<1>6. /\ returned' \in Seq(Outcomes) /\ Len(returned') = sends
      /\ DOMAIN returned' = 1..sends /\ DOMAIN returned = 1..(sends - 1)
      /\ returned'[sends] = result
      /\ \A i \in 1..(sends - 1) : returned'[i] = returned[i]
    BY <1>1, <1>3, <1>4
<1>7. MailTypeOK'
    BY <1>1, <1>6 DEF MailInv, MailTypeOK
<1>8. Results'
    BY <1>1, <1>4, <1>6 DEF Results, InDialogue
<1>9. DoneSoFar'
    BY <1>1, Numbers, OperationsDistinct DEF DoneSoFar
<1>10. Copies'
    BY <1>1 DEF MailInv, Copies, InDialogue
<1>11. Honest'
    <2>1. ASSUME outcome = "nil"
          PROVE  /\ sends \in inbox
                 /\ smtp.StartTLS \/ smtp.ImplicitTLS => result.secure
                 /\ smtp.Username => result.authed
        BY <1>5, <2>1, AllDoneAtQuit
    <2>2. sends \in inbox \cup outbound => result.op \in {"finish message data", "quit"}
        BY <1>5 DEF MailInv, Copies
    <2>3. ASSUME NEW i \in 1..(sends - 1)
          PROVE  /\ returned[i].outcome = "nil" =>
                    /\ i \in inbox
                    /\ smtp.StartTLS \/ smtp.ImplicitTLS => returned[i].secure
                    /\ smtp.Username => returned[i].authed
                 /\ i \in inbox \cup outbound => returned[i].op \in {"finish message data", "quit"}
        BY <1>6 DEF MailInv, Honest
    <2>4. SUFFICES ASSUME NEW i \in 1..sends
                   PROVE  /\ returned'[i].outcome = "nil" =>
                            /\ i \in inbox
                            /\ smtp.StartTLS \/ smtp.ImplicitTLS => returned'[i].secure
                            /\ smtp.Username => returned'[i].authed
                          /\ i \in inbox \cup outbound =>
                                returned'[i].op \in {"finish message data", "quit"}
        BY <1>6 DEF Honest
    <2>5. CASE i = sends
        BY <1>5, <1>6, <2>1, <2>2, <2>5
    <2>6. CASE i # sends
        <3>1. i \in 1..(sends - 1)
            BY <1>4, <2>6
        <3>. QED BY <1>6, <2>3, <3>1
    <2>. QED BY <2>5, <2>6
<1>. QED BY <1>7, <1>8, <1>9, <1>10, <1>11 DEF MailInv

\* Send is called, or refused at once.
LEMMA CallKeepsInv ==
    ASSUME MailInv, Send \/ SendRefused
    PROVE  MailInv'
<1>1. /\ command \in {"idle", "ended"} /\ sends' = sends + 1
      /\ UNCHANGED <<smtp, outbound, inbox>>
    BY DEF Send, SendRefused, Calls
<1>2. ~InDialogue /\ Len(returned) = sends /\ sends \in Nat /\ returned \in Seq(Outcomes)
    BY <1>1 DEF MailInv, MailTypeOK, Results, InDialogue
<1>3. inbox \cup outbound \subseteq 1..sends
    BY DEF MailInv, Copies
<1>6. \A i \in inbox \cup outbound : i \in 1..sends /\ i # sends + 1
    BY <1>2, <1>3
<1>4. CASE Send
    <2>1. command' = Operations[1] /\ secure' = FALSE /\ authed' = FALSE /\ UNCHANGED returned
        BY <1>4, OperationTable DEF Send
    <2>2. MailTypeOK'
        <3>1. sends' \in Nat
            BY <1>1, <1>2
        <3>2. command' \in {Operations[i] : i \in DOMAIN Operations}
            <4>1. PICK k \in 1..11 : k = 1 /\ command' = Operations[k]
                BY <2>1
            <4>. QED BY <4>1, IsOperation
        <3>3. secure' \in BOOLEAN /\ authed' \in BOOLEAN
            BY <2>1
        <3>. QED BY <1>1, <2>1, <3>1, <3>2, <3>3 DEF MailInv, MailTypeOK
    <2>3. Results'
        <3>1. command' \notin {"unset", "idle", "ended"}
            BY <2>1, OperationsDistinct
        <3>. QED BY <1>1, <1>2, <2>1, <3>1 DEF Results, InDialogue
    <2>4. DoneSoFar'
        <3>1. SUFFICES ASSUME NEW i \in 1..11, NEW j \in 1..11, command' = Operations[j], i < j
                       PROVE  FALSE
            BY Numbers DEF DoneSoFar
        <3>2. j = 1
            BY <2>1, <3>1, OperationTable, Numbers
        <3>. QED BY <3>1, <3>2
    <2>5. Copies'
        <3>1. command' # "quit"
            BY <2>1, OperationTable
        <3>2. (inbox \cup outbound \subseteq 1..sends)'
            <4>1. sends' = sends + 1 /\ 1..sends \subseteq 1..(sends + 1)
                BY <1>1, <1>2
            <4>. QED BY <1>1, <1>3, <4>1
        <3>3. (sends \notin inbox \cup outbound)'
            BY <1>1, <1>6
        <3>. QED BY <3>1, <3>2, <3>3 DEF Copies
    <2>6. Honest'
        BY <1>1, <2>1 DEF MailInv, Honest
    <2>. QED BY <2>2, <2>3, <2>4, <2>5, <2>6 DEF MailInv
<1>5. CASE SendRefused
    <2>. DEFINE result == [outcome |-> "invalid", op |-> "validate", secure |-> FALSE,
                           authed |-> FALSE]
    <2>1. /\ command' = "ended" /\ returned' = Append(returned, result)
          /\ UNCHANGED <<secure, authed>>
        BY <1>5 DEF SendRefused, sessionVars
    <2>2. result \in Outcomes /\ result.outcome = "invalid"
        BY DEF Outcomes
    <2>. HIDE DEF result
    <2>3. /\ returned' \in Seq(Outcomes) /\ Len(returned') = sends + 1
          /\ DOMAIN returned' = 1..(sends + 1) /\ DOMAIN returned = 1..sends
          /\ returned'[sends + 1] = result
          /\ \A i \in 1..sends : returned'[i] = returned[i]
        BY <1>2, <2>1, <2>2
    <2>4. MailTypeOK'
        BY <1>1, <1>2, <2>1, <2>3 DEF MailInv, MailTypeOK
    <2>5. Results'
        BY <1>1, <2>1, <2>3 DEF Results, InDialogue
    <2>6. DoneSoFar'
        BY <2>1, Numbers, OperationsDistinct DEF DoneSoFar
    <2>7. Copies'
        BY <1>1, <1>2, <1>6, <2>1 DEF Copies, InDialogue
    <2>8. Honest'
        <3>1. SUFFICES ASSUME NEW i \in 1..(sends + 1)
                       PROVE  /\ returned'[i].outcome = "nil" =>
                                /\ i \in inbox
                                /\ smtp.StartTLS \/ smtp.ImplicitTLS => returned'[i].secure
                                /\ smtp.Username => returned'[i].authed
                              /\ i \in inbox \cup outbound =>
                                    returned'[i].op \in {"finish message data", "quit"}
            BY <1>1, <2>3 DEF Honest
        <3>2. CASE i = sends + 1
            BY <1>6, <2>2, <2>3, <3>2
        <3>3. CASE i # sends + 1
            <4>1. i \in DOMAIN returned /\ returned'[i] = returned[i]
                BY <1>2, <2>3, <3>3
            <4>. QED BY <4>1 DEF MailInv, Honest
        <3>. QED BY <3>2, <3>3
    <2>. QED BY <2>4, <2>5, <2>6, <2>7, <2>8 DEF MailInv
<1>. QED BY <1>4, <1>5

\* The next operation begins: the last one is done, and those that were skipped
\* are not needed.
LEMMA SucceedsKeepsInv ==
    ASSUME MailInv, OperationSucceeds
    PROVE  MailInv'
<1>1. /\ InDialogue /\ UNCHANGED <<smtp, outbound, inbox, sends, returned>>
      /\ command \notin {"finish message data", "quit"} /\ Established
    BY DEF OperationSucceeds
<1>2. PICK m, n \in 1..11 :
        Consecutive(m, n) /\ command = Operations[m] /\ command' = Operations[n]
    BY Numbers DEF OperationSucceeds
<1>3. /\ secure' = (secure \/ command \in {"TLS handshake", "start TLS"})
      /\ authed' = (authed \/ command = "authenticate")
    BY <1>1 DEF Established
<1>4. secure' \in BOOLEAN /\ authed' \in BOOLEAN
    BY <1>3
<1>5. MailTypeOK'
    BY <1>1, <1>2, <1>4, Numbers DEF MailInv, MailTypeOK
<1>6. InDialogue'
    BY <1>2, OperationsDistinct DEF InDialogue
<1>7. Results'
    BY <1>1, <1>2, <1>6, OperationsDistinct DEF MailInv, Results
<1>8. sends \notin inbox \cup outbound /\ n # 11
    <2>1. sends \notin inbox \cup outbound
        BY <1>1 DEF MailInv, Copies
    <2>2. m \notin {10, 11}
        BY <1>1, <1>2, OperationTable
    <2>3. Needed(Operations[10])
        BY OperationTable DEF Needed
    <2>. QED BY <1>2, <2>1, <2>2, <2>3 DEF Consecutive
<1>9. Copies'
    <2>1. Operations[n] # Operations[11]
        BY <1>8, OperationsDistinct
    <2>2. command' # "quit"
        BY <1>2, <2>1, OperationTable
    <2>. QED BY <1>1, <1>8, <2>2 DEF MailInv, Copies
<1>10. Honest'
    BY <1>1 DEF MailInv, Honest
<1>11. DoneSoFar'
    <2>1. SUFFICES ASSUME NEW i \in 1..11, i < n, Needed(Operations[i])
                   PROVE  Done(Operations[i])'
        BY <1>1, <1>2, Numbers, OperationsDistinct DEF DoneSoFar, Needed
    <2>2. CASE i < m
        <3>1. Done(Operations[i])
            BY <1>2, <2>1, <2>2, Numbers DEF MailInv, DoneSoFar
        <3>. QED BY <1>3, <3>1 DEF Done, Operations
    <2>3. CASE i = m
        BY <1>2, <1>3, <2>3 DEF Done, Operations
    <2>4. CASE i > m
        BY <1>2, <2>1, <2>4 DEF Consecutive
    <2>. QED BY <2>2, <2>3, <2>4
<1>. QED BY <1>5, <1>7, <1>9, <1>10, <1>11 DEF MailInv

\* The end of the data is sent, read by the server and answered.
LEMMA FinishKeepsInv ==
    ASSUME MailInv, \/ FinishSent
                    \/ \E call \in 1..MaxSends : MessageAccepted(call)
                    \/ Finish
    PROVE  MailInv'
<1>. DEFINE copies == inbox \cup outbound
<1>1. UNCHANGED <<smtp, secure, authed, sends, returned>>
    BY DEF FinishSent, MessageAccepted, Finish, sessionVars
<1>2. inbox \subseteq inbox'
    BY DEF FinishSent, MessageAccepted, Finish
<1>3. sends \in Nat /\ DOMAIN returned = 1..Len(returned)
    BY DEF MailInv, MailTypeOK
<1>4. CASE FinishSent \/ \E call \in 1..MaxSends : MessageAccepted(call)
    <2>1. UNCHANGED command
        BY <1>4 DEF FinishSent, MessageAccepted
    <2>2. MailTypeOK' /\ Results' /\ DoneSoFar'
        BY <1>1, <2>1
        DEF MailInv, MailTypeOK, Results, InDialogue, DoneSoFar, Done, Needed
    <2>3. /\ copies' \subseteq copies \cup {sends}
          /\ copies' # copies => command = "finish message data"
        BY <1>4 DEF FinishSent, MessageAccepted
    <2>4. command = "finish message data" => InDialogue
        BY DEF InDialogue
    <2>5. Copies'
        <3>1. copies' \subseteq 1..sends
            <4>1. CASE copies' = copies
                BY <4>1 DEF MailInv, Copies
            <4>2. CASE copies' # copies
                <5>1. sends > 0
                    BY <2>3, <2>4, <4>2 DEF MailInv, Results
                <5>2. sends \in 1..sends
                    BY <1>3, <5>1
                <5>3. copies \subseteq 1..sends
                    BY DEF MailInv, Copies
                <5>. QED BY <2>3, <5>2, <5>3
            <4>. QED BY <4>1, <4>2
        <3>2. InDialogue /\ sends \in copies' => command \in {"finish message data", "quit"}
            BY <2>3 DEF MailInv, Copies
        <3>3. InDialogue' = InDialogue
            BY <2>1 DEF InDialogue
        <3>4. command = "quit" => sends \in inbox'
            BY <1>2 DEF MailInv, Copies
        <3>. QED BY <1>1, <2>1, <3>1, <3>2, <3>3, <3>4 DEF Copies
    <2>6. Honest'
        <3>1. ASSUME NEW i \in DOMAIN returned, i \in copies'
              PROVE  i \in copies
            <4>1. CASE copies' # copies
                <5>1. Len(returned) = sends - 1
                    BY <2>3, <2>4, <4>1 DEF MailInv, Results
                <5>2. i # sends
                    BY <1>3, <5>1
                <5>. QED BY <2>3, <3>1, <5>2
            <4>. QED BY <3>1, <4>1
        <3>. HIDE DEF copies
        <3>2. \A i \in DOMAIN returned :
                /\ returned[i].outcome = "nil" =>
                    /\ i \in inbox
                    /\ smtp.StartTLS \/ smtp.ImplicitTLS => returned[i].secure
                    /\ smtp.Username => returned[i].authed
                /\ i \in copies => returned[i].op \in {"finish message data", "quit"}
            BY DEF MailInv, Honest, copies
        <3>3. \A i \in DOMAIN returned :
                /\ returned[i].outcome = "nil" =>
                    /\ i \in inbox'
                    /\ smtp.StartTLS \/ smtp.ImplicitTLS => returned[i].secure
                    /\ smtp.Username => returned[i].authed
                /\ i \in copies' => returned[i].op \in {"finish message data", "quit"}
            BY <1>2, <3>1, <3>2
        <3>. QED BY <1>1, <3>3 DEF Honest, copies
    <2>. QED BY <2>2, <2>5, <2>6 DEF MailInv
<1>5. CASE Finish
    <2>1. /\ command = Operations[10] /\ command' = Operations[11] /\ sends \in inbox
          /\ UNCHANGED <<inbox, outbound>>
        BY <1>5, OperationTable DEF Finish
    <2>2. InDialogue /\ InDialogue'
        BY <2>1, OperationsDistinct DEF InDialogue
    <2>3. MailTypeOK'
        <3>1. command' \in {Operations[i] : i \in DOMAIN Operations}
            <4>1. PICK k \in 1..11 : k = 11 /\ command' = Operations[k]
                BY <2>1
            <4>. QED BY <4>1, IsOperation
        <3>. QED BY <1>1, <3>1 DEF MailInv, MailTypeOK
    <2>4. Results'
        BY <1>1, <2>1, <2>2, OperationsDistinct DEF MailInv, Results
    <2>5. DoneSoFar'
        <3>1. SUFFICES ASSUME NEW i \in 1..11, NEW j \in 1..11, command' = Operations[j],
                              i < j, Needed(Operations[i])'
                       PROVE  Done(Operations[i])'
            BY Numbers DEF DoneSoFar
        <3>2. i \in 1..10
            <4>1. j = 11
                BY <2>1, <3>1, OperationTable, Numbers
            <4>. QED BY <3>1, <4>1
        <3>3. Needed(Operations[i])
            BY <1>1, <3>1 DEF Needed
        <3>4. Done(Operations[i])
            <4>1. CASE i = 10
                BY <4>1, OperationTable DEF Done
            <4>2. CASE i # 10
                <5>1. i < 10
                    BY <3>2, <4>2
                <5>2. PICK k \in 1..11 : k = 10 /\ command = Operations[k]
                    BY <2>1
                <5>. QED BY <3>3, <5>1, <5>2, DoneBefore
            <4>. QED BY <4>1, <4>2
        <3>. QED BY <1>1, <3>4 DEF Done
    <2>6. Copies'
        BY <1>1, <2>1, OperationTable DEF MailInv, Copies
    <2>7. Honest'
        BY <1>1, <2>1 DEF MailInv, Honest
    <2>. QED BY <2>3, <2>4, <2>5, <2>6, <2>7 DEF MailInv
<1>. QED BY <1>4, <1>5

\* The configuration is chosen before the first call.
LEMMA NewSMTPKeepsInv ==
    ASSUME MailInv, NEW config \in SMTPConfigs, NewSMTP(config)
    PROVE  MailInv'
<1>1. /\ command = "unset" /\ command' = "idle" /\ smtp' = config
      /\ UNCHANGED <<secure, authed, outbound, inbox, sends, returned>>
    BY DEF NewSMTP, sessionVars
<1>2. sends = 0 /\ Len(returned) = 0 /\ returned \in Seq(Outcomes)
    BY <1>1 DEF MailInv, MailTypeOK, Results, InDialogue
<1>3. MailTypeOK'
    BY <1>1 DEF MailInv, MailTypeOK
<1>4. Results'
    BY <1>1, <1>2 DEF Results, InDialogue
<1>5. DoneSoFar'
    BY <1>1, Numbers, OperationsDistinct DEF DoneSoFar
<1>6. Copies'
    BY <1>1 DEF MailInv, Copies, InDialogue
<1>7. Honest'
    <2>1. DOMAIN returned' = {}
        BY <1>1, <1>2
    <2>. QED BY <2>1 DEF Honest
<1>. QED BY <1>3, <1>4, <1>5, <1>6, <1>7 DEF MailInv

\* Every step preserves it.
LEMMA MailInvNext ==
    ASSUME MailInv, [MailNext]_mailVars
    PROVE  MailInv'
<1>1. CASE UNCHANGED mailVars
    BY <1>1, Aside DEF mailVars, sessionVars
<1>2. CASE \E config \in SMTPConfigs : NewSMTP(config)
    BY <1>2, NewSMTPKeepsInv
<1>3. CASE Send \/ SendRefused
    BY <1>3, CallKeepsInv
<1>4. CASE SendCanceled \/ SendExpires \/ Watcher
    BY <1>4, Aside
    DEF SendCanceled, SendExpires, Watcher, WatcherCloses, WatcherEnds, sessionVars
<1>5. CASE OperationSucceeds
    BY <1>5, SucceedsKeepsInv
<1>6. ASSUME FinishSent \/ (\E call \in 1..MaxSends : MessageAccepted(call)) \/ Finish
      PROVE  MailInv'
    BY <1>6, FinishKeepsInv
<1>7. CASE Quit
    BY <1>7, ReturnsKeepsInv DEF Quit, InDialogue
<1>8. CASE OperationFails \/ OperationInterrupted
    <2>1. TransportError \in {"failed", "context"}
        BY DEF TransportError
    <2>2. /\ InDialogue /\ Returns(TransportError)
          /\ UNCHANGED <<smtp, secure, authed, outbound, inbox, sends>>
        BY <1>8 DEF OperationFails, OperationInterrupted
    <2>3. PICK outcome \in {"failed", "context"} : Returns(outcome)
        BY <2>1, <2>2
    <2>. QED BY <2>2, <2>3, ReturnsKeepsInv
<1>9. CASE StartTLSUnsupported
    BY <1>9, ReturnsKeepsInv DEF StartTLSUnsupported, InDialogue
<1>. QED BY <1>1, <1>2, <1>3, <1>4, <1>5, <1>6, <1>7, <1>8, <1>9 DEF MailNext

\* Every reachable state of Send and its server satisfies the invariant.
THEOREM MailInvariance == MailSpec => []MailInv
BY MailInvInit, MailInvNext, PTL DEF MailSpec

\* What Send (mail/smtp.go) returns is true, however often it is called and
\* however late the server reads: after nil this very call has delivered, under
\* TLS and with credentials if configured; an error before the end of the data
\* means that no copy was or will be taken.
THEOREM SendHonestHolds == MailSpec => []SendHonest
<1>1. MailInv => SendHonest
    BY DEF MailInv, Honest, SendHonest
<1>. QED BY <1>1, MailInvariance, PTL

-----------------------------------------------------------------------------
(* Registry: the inductive invariant.                                      *)

RelayStates ==
    [at : {"new", "running", "delivering", "stopped"}, type : EventTypes \cup {""},
     left : Seq(EventHandlers), called : Seq(EventHandlers)]

SuccessfulCalls == [op : {"Register", "Replace"}, name : JobNames, handler : JobHandlers]

EventTypeOK ==
    /\ eventHandlers \in [EventTypes -> Seq(EventHandlers)]
    /\ frozen \in BOOLEAN
    /\ accepted \in Seq(EventHandlers)
    /\ relaying \in [EventRelays -> RelayStates]
    /\ deliveries \subseteq [type : EventTypes, called : Seq(EventHandlers)]

JobTypeOK ==
    /\ jobHandlers \in [JobNames -> JobHandlers \cup {NoHandler}]
    /\ jobCalls \in Seq(SuccessfulCalls)
    /\ jobRuns \subseteq [name : JobNames, handler : JobHandlers \cup {NoHandler}, after : Nat]

\* Whoever may have asked for handlers froze the registry first.
FrozenFirst ==
    /\ \A r \in EventRelays : relaying[r].at # "new" => frozen
    /\ deliveries # {} => frozen

\* A delivery has called, or will have called in the end, whom the registry lists.
WillCall(r) ==
    relaying[r].at = "delivering" =>
        /\ relaying[r].type \in EventTypes
        /\ relaying[r].called \o relaying[r].left = HandlersFor(relaying[r].type)

CallsListed ==
    /\ \A r \in EventRelays : WillCall(r)
    /\ \A d \in deliveries : d.called = HandlersFor(d.type)

Rises(f, S) == \A k, l \in S : k < l => f[k] < f[l]

\* f gives the registration of every member of a list, of all those in S, in order.
Numbering(f, list, S) ==
    /\ f \in Bijection(DOMAIN list, S)
    /\ Rises(f, DOMAIN list)
    /\ \A k \in DOMAIN list : list[k] = accepted[f[k]]

OfType(t) == {i \in DOMAIN accepted : TypeOf(i) = t}

\* The registry lists, under each type, what was accepted for it.
ListsAccepted == \A t \in EventTypes : \E f : Numbering(f, eventHandlers[t], OfType(t))

\* Nobody who can be compared is listed twice under a type.
ListedOnce ==
    \A t \in EventTypes : \A k, l \in DOMAIN eventHandlers[t] :
        eventHandlers[t][k] = eventHandlers[t][l] /\ k # l =>
            eventHandlers[t][k].form = "uncomparable"

JobHandlersLast == \A n \in JobNames : LastCall(n, jobHandlers[n], Len(jobCalls))

RunsByLast ==
    \A run \in jobRuns : run.after <= Len(jobCalls) /\ LastCall(run.name, run.handler, run.after)

\* Replace, and only Replace, is for a name that has a handler.
OpsHonest ==
    \A i \in DOMAIN jobCalls :
        jobCalls[i].op = "Replace" <=> \E j \in 1..(i - 1) : jobCalls[j].name = jobCalls[i].name

EventInv == EventTypeOK /\ FrozenFirst /\ CallsListed /\ ListsAccepted /\ ListedOnce
JobInv == JobTypeOK /\ JobHandlersLast /\ RunsByLast /\ OpsHonest

RegistryInv == EventInv /\ JobInv

-----------------------------------------------------------------------------
(* Lists and their numberings.                                             *)

\* What is in a list after Append.
LEMMA Appended ==
    ASSUME NEW S, NEW s \in Seq(S), NEW x \in S, NEW n, n = Len(s)
    PROVE  /\ n \in Nat /\ DOMAIN s = 1..n /\ Append(s, x) \in Seq(S)
           /\ DOMAIN Append(s, x) = 1..(n + 1) /\ Len(Append(s, x)) = n + 1
           /\ Append(s, x)[n + 1] = x
           /\ \A i \in 1..n : Append(s, x)[i] = s[i]
OBVIOUS

\* One more number.
LEMMA UpToNext ==
    ASSUME NEW n \in Nat
    PROVE  /\ \A i \in 1..(n + 1) : i \in 1..n \/ i = n + 1
           /\ 1..n \subseteq 1..(n + 1) /\ n + 1 \in 1..(n + 1) /\ n + 1 \notin 1..n
OBVIOUS

\* What it takes to be a bijection.
LEMMA IsBijection ==
    ASSUME NEW S, NEW T, NEW f \in [S -> T],
           \A a, b \in S : f[a] = f[b] => a = b, \A t \in T : \E s \in S : f[s] = t
    PROVE  f \in Bijection(S, T)
<1>1. DOMAIN f = S
    OBVIOUS
<1>2. f \in Injection(S, T)
    BY <1>1 DEF Injection, IsInjective
<1>3. f \in Surjection(S, T)
    BY DEF Surjection
<1>. QED BY <1>2, <1>3 DEF Bijection

\* And what it gives.
LEMMA OfBijection ==
    ASSUME NEW S, NEW T, NEW f \in Bijection(S, T)
    PROVE  /\ f \in [S -> T]
           /\ \A a, b \in S : f[a] = f[b] => a = b
           /\ \A t \in T : \E s \in S : f[s] = t
<1>1. f \in [S -> T] /\ IsInjective(f) /\ \A t \in T : \E s \in S : f[s] = t
    BY DEF Bijection, Injection, Surjection
<1>. QED BY <1>1 DEF IsInjective

\* A numbering goes on with the next number.
LEMMA OneMore ==
    ASSUME NEW m \in Nat, NEW n \in Nat, NEW S \in SUBSET (1..n), NEW f \in Bijection(1..m, S),
           Rises(f, 1..m)
    PROVE  \E g \in Bijection(1..(m + 1), S \cup {n + 1}) :
               /\ Rises(g, 1..(m + 1))
               /\ g[m + 1] = n + 1 /\ \A k \in 1..m : g[k] = f[k]
<1>. DEFINE g == [k \in 1..(m + 1) |-> IF k = m + 1 THEN n + 1 ELSE f[k]]
<1>1. /\ \A k \in 1..m : f[k] \in S
      /\ \A k, l \in 1..m : f[k] = f[l] => k = l
      /\ \A i \in S : \E k \in 1..m : f[k] = i
    BY OfBijection
<1>2. /\ DOMAIN g = 1..(m + 1) /\ g[m + 1] = n + 1
      /\ \A k \in 1..m : g[k] = f[k] /\ g[k] \in S
      /\ g \in [1..(m + 1) -> S \cup {n + 1}]
    BY <1>1
<1>3. \A k \in 1..(m + 1) : k \in 1..m \/ k = m + 1
    OBVIOUS
<1>4. \A i \in S : i \in Nat /\ i < n + 1
    OBVIOUS
<1>. HIDE DEF g
<1>5. Rises(g, 1..(m + 1))
    <2>1. SUFFICES ASSUME NEW k \in 1..(m + 1), NEW l \in 1..(m + 1), k < l
                   PROVE  g[k] < g[l]
        BY DEF Rises
    <2>2. k \in 1..m
        BY <2>1
    <2>3. CASE l \in 1..m
        BY <1>2, <2>1, <2>2, <2>3 DEF Rises
    <2>4. CASE l = m + 1
        BY <1>2, <1>4, <2>2, <2>4
    <2>. QED BY <1>3, <2>3, <2>4
<1>6. ASSUME NEW k \in 1..(m + 1) PROVE g[k] \in Nat
    <2>1. CASE k \in 1..m
        BY <1>2, <1>4, <2>1
    <2>2. CASE k = m + 1
        BY <1>2, <2>2
    <2>. QED BY <1>3, <2>1, <2>2
<1>7. ASSUME NEW k \in 1..(m + 1), NEW l \in 1..(m + 1), g[k] = g[l]
      PROVE  k = l
    BY <1>5, <1>6, <1>7 DEF Rises
<1>8. ASSUME NEW i \in S \cup {n + 1}
      PROVE  \E k \in 1..(m + 1) : g[k] = i
    <2>1. CASE i \in S
        <3>1. PICK k \in 1..m : f[k] = i
            BY <1>1, <2>1
        <3>. QED BY <1>2, <3>1
    <2>2. CASE i = n + 1
        BY <1>2, <2>2
    <2>. QED BY <2>1, <2>2
<1>9. g \in Bijection(1..(m + 1), S \cup {n + 1})
    BY <1>2, <1>7, <1>8, IsBijection
<1>. QED BY <1>2, <1>5, <1>9

\* c is f and then g.
FirstThen(f, m, g, n, c) ==
    /\ \A k \in 1..m : c[k] = f[k]
    /\ \A k \in 1..(m + n) : k > m => c[k] = g[k - m]

\* Two numberings, of numbers that differ, one after the other.
LEMMA OneAfterTheOther ==
    ASSUME NEW m \in Nat, NEW n \in Nat, NEW S, NEW T, S \cap T = {},
           NEW f \in Bijection(1..m, S), NEW g \in Bijection(1..n, T)
    PROVE  \E h \in Bijection(1..(m + n), S \cup T) : FirstThen(f, m, g, n, h)
<1>. DEFINE h == [k \in 1..(m + n) |-> IF k <= m THEN f[k] ELSE g[k - m]]
<1>1. /\ \A k \in 1..m : f[k] \in S
      /\ \A k, l \in 1..m : f[k] = f[l] => k = l
      /\ \A i \in S : \E k \in 1..m : f[k] = i
    BY OfBijection
<1>2. /\ \A k \in 1..n : g[k] \in T
      /\ \A k, l \in 1..n : g[k] = g[l] => k = l
      /\ \A i \in T : \E k \in 1..n : g[k] = i
    BY OfBijection
<1>3. \A k \in 1..(m + n) : k \in 1..m \/ (k > m /\ k - m \in 1..n)
    OBVIOUS
<1>4. \A k \in 1..m : k \in 1..(m + n) /\ h[k] = f[k]
    OBVIOUS
<1>5. \A k \in 1..(m + n) : k > m => h[k] = g[k - m]
    OBVIOUS
<1>6. DOMAIN h = 1..(m + n)
    OBVIOUS
<1>7. \A k \in 1..(m + n) : h[k] \in S \cup T
    BY <1>1, <1>2, <1>3, <1>4, <1>5
<1>8. h \in [1..(m + n) -> S \cup T]
    BY <1>7
<1>. HIDE DEF h
<1>9. ASSUME NEW k \in 1..(m + n), NEW l \in 1..(m + n), h[k] = h[l]
      PROVE  k = l
    <2>1. CASE k \in 1..m /\ l \in 1..m
        BY <1>1, <1>4, <1>9, <2>1
    <2>2. CASE k > m /\ l > m
        <3>1. k - m \in 1..n /\ l - m \in 1..n
            BY <2>2
        <3>2. g[k - m] = g[l - m]
            BY <1>5, <1>9, <2>2
        <3>3. k - m = l - m
            BY <1>2, <3>1, <3>2
        <3>. QED BY <3>3
    <2>3. CASE k \in 1..m /\ l > m
        <3>1. h[k] \in S
            BY <1>1, <1>4, <2>3
        <3>2. h[l] \in T
            BY <1>2, <1>3, <1>5, <2>3
        <3>. QED BY <1>9, <3>1, <3>2
    <2>4. CASE k > m /\ l \in 1..m
        <3>1. h[l] \in S
            BY <1>1, <1>4, <2>4
        <3>2. h[k] \in T
            BY <1>2, <1>3, <1>5, <2>4
        <3>. QED BY <1>9, <3>1, <3>2
    <2>. QED BY <1>3, <2>1, <2>2, <2>3, <2>4
<1>10. ASSUME NEW i \in S \cup T
       PROVE  \E k \in 1..(m + n) : h[k] = i
    <2>1. CASE i \in S
        <3>1. PICK k \in 1..m : f[k] = i
            BY <1>1, <2>1
        <3>. QED BY <1>4, <3>1
    <2>2. CASE i \in T
        <3>1. PICK k \in 1..n : g[k] = i
            BY <1>2, <2>2
        <3>2. m + k \in 1..(m + n) /\ m + k > m /\ (m + k) - m = k
            OBVIOUS
        <3>. QED BY <1>5, <3>1, <3>2
    <2>. QED BY <2>1, <2>2
<1>11. h \in Bijection(1..(m + n), S \cup T)
    BY <1>8, <1>9, <1>10, IsBijection
<1>. QED BY <1>4, <1>5, <1>11 DEF FirstThen

-----------------------------------------------------------------------------
(* The events' registry keeps its invariant.                               *)

\* Nothing is registered, called or run at first.
LEMMA RegistryInvInit == RegistryInit => RegistryInv
<1>1. SUFFICES ASSUME RegistryInit PROVE RegistryInv
    OBVIOUS
<1>2. EventTypeOK
    <2>1. Stopped \in RelayStates
        BY DEF Stopped, RelayStates
    <2>2. relaying \in [EventRelays -> RelayStates]
        BY <1>1, <2>1 DEF RegistryInit
    <2>3. eventHandlers \in [EventTypes -> Seq(EventHandlers)] /\ accepted \in Seq(EventHandlers)
        BY <1>1 DEF RegistryInit
    <2>. QED BY <1>1, <2>2, <2>3 DEF RegistryInit, EventTypeOK
<1>3. FrozenFirst /\ CallsListed /\ ListedOnce
    <2>1. \A r \in EventRelays : relaying[r].at = "new"
        BY <1>1 DEF RegistryInit, Stopped
    <2>2. deliveries = {} /\ \A t \in EventTypes : DOMAIN eventHandlers[t] = {}
        BY <1>1 DEF RegistryInit
    <2>. QED BY <2>1, <2>2 DEF FrozenFirst, CallsListed, WillCall, ListedOnce
<1>4. ASSUME NEW t \in EventTypes
      PROVE  Numbering(<<>>, eventHandlers[t], OfType(t))
    <2>1. eventHandlers[t] = <<>> /\ DOMAIN eventHandlers[t] = {} /\ OfType(t) = {}
        BY <1>1 DEF RegistryInit, OfType
    <2>2. <<>> \in [{} -> {}]
        OBVIOUS
    <2>3. <<>> \in Bijection({}, {})
        BY <2>2, IsBijection
    <2>. QED BY <2>1, <2>3 DEF Numbering, Rises
<1>5. EventInv
    BY <1>2, <1>3, <1>4 DEF EventInv, ListsAccepted
<1>6. JobTypeOK
    BY <1>1 DEF RegistryInit, JobTypeOK
<1>7. JobHandlersLast /\ RunsByLast /\ OpsHonest
    BY <1>1 DEF RegistryInit, JobHandlersLast, RunsByLast, OpsHonest, LastCall
<1>. QED BY <1>5, <1>6, <1>7 DEF RegistryInv, JobInv

\* A list of handlers is asked for when there is one.
LEMMA HandlersForType ==
    ASSUME EventTypeOK, NEW t \in EventTypes
    PROVE  HandlersFor(t) \in Seq(EventHandlers)
<1>1. eventHandlers[t] \in Seq(EventHandlers) /\ eventHandlers["*"] \in Seq(EventHandlers)
    BY RegistryAssumption DEF EventTypeOK
<1>. QED BY <1>1, ConcatProperties DEF HandlersFor

\* Steps after which the registry lists whom it listed.
LEMMA SameLists ==
    ASSUME EventInv, UNCHANGED <<eventHandlers, accepted>>
    PROVE  /\ ListsAccepted' /\ ListedOnce'
           /\ \A t \in EventTypes : HandlersFor(t)' = HandlersFor(t)
<1>1. ListsAccepted'
    <2>1. \A t \in EventTypes : OfType(t)' = OfType(t)
        BY DEF OfType, TypeOf
    <2>. QED BY <2>1 DEF EventInv, ListsAccepted, Numbering
<1>2. ListedOnce'
    BY DEF EventInv, ListedOnce
<1>3. \A t \in EventTypes : HandlersFor(t)' = HandlersFor(t)
    BY DEF HandlersFor
<1>. QED BY <1>1, <1>2, <1>3

\* A relay that is not concerned by a step.
LEMMA WillCallSame ==
    ASSUME EventInv, UNCHANGED eventHandlers, NEW q \in EventRelays, relaying'[q] = relaying[q]
    PROVE  WillCall(q)'
<1>1. WillCall(q)
    BY DEF EventInv, CallsListed
<1>. QED BY <1>1 DEF WillCall, HandlersFor

\* Before the registry is frozen nobody delivers, so that a handler can be added:
\* its registration has the next number.
LEMMA RegisterEventKeepsInv ==
    ASSUME EventInv, NEW h \in EventHandlers, RegisterEvent(h)
    PROVE  EventInv'
<1>a. PICK t0 : t0 = TrimSpace(h.type)
    OBVIOUS
<1>b. PICK n : n = Len(accepted)
    OBVIOUS
<1>c. PICK m : m = Len(eventHandlers[t0])
    OBVIOUS
<1>1. /\ h.form # "nil" /\ t0 # "" /\ ~frozen /\ ~Duplicate(h)
      /\ eventHandlers' = [eventHandlers EXCEPT ![t0] = Append(@, h)]
      /\ accepted' = Append(accepted, h)
      /\ UNCHANGED <<frozen, relaying, deliveries>>
    BY <1>a DEF RegisterEvent
<1>2. t0 \in EventTypes /\ h.form \in HandlerForms
    BY <1>1, <1>a, RegistryAssumption DEF TrimSpace
<1>3. EventTypeOK
    BY DEF EventInv
<1>4. /\ accepted \in Seq(EventHandlers) /\ n \in Nat /\ accepted' \in Seq(EventHandlers)
      /\ DOMAIN accepted = 1..n /\ DOMAIN accepted' = 1..(n + 1) /\ accepted'[n + 1] = h
      /\ \A i \in 1..n : accepted'[i] = accepted[i]
    <2>1. accepted \in Seq(EventHandlers)
        BY <1>3 DEF EventTypeOK
    <2>2. accepted' = Append(accepted, h)
        BY <1>1
    <2>. QED BY <1>b, <2>1, <2>2, Appended
<1>5. /\ \A t \in EventTypes : eventHandlers[t] \in Seq(EventHandlers)
      /\ \A t \in EventTypes \ {t0} : eventHandlers'[t] = eventHandlers[t]
      /\ eventHandlers'[t0] = Append(eventHandlers[t0], h)
      /\ eventHandlers' \in [EventTypes -> Seq(EventHandlers)]
    <2>1. eventHandlers \in [EventTypes -> Seq(EventHandlers)]
        BY <1>3 DEF EventTypeOK
    <2>2. Append(eventHandlers[t0], h) \in Seq(EventHandlers)
        BY <1>2, <2>1
    <2>. QED BY <1>1, <1>2, <2>1, <2>2
<1>6. EventTypeOK'
    BY <1>1, <1>3, <1>4, <1>5 DEF EventTypeOK
<1>7. (\A r \in EventRelays : relaying[r].at = "new") /\ deliveries = {}
    BY <1>1 DEF EventInv, FrozenFirst
<1>8. FrozenFirst' /\ CallsListed'
    BY <1>1, <1>7 DEF FrozenFirst, CallsListed, WillCall
<1>9. /\ m \in Nat /\ DOMAIN eventHandlers[t0] = 1..m /\ DOMAIN eventHandlers'[t0] = 1..(m + 1)
      /\ eventHandlers'[t0][m + 1] = h
      /\ \A k \in 1..m : eventHandlers'[t0][k] = eventHandlers[t0][k]
    BY <1>2, <1>5, <1>c, Appended
<1>10. \A i \in 1..n : TypeOf(i)' = TypeOf(i)
    BY <1>4 DEF TypeOf
<1>11. TypeOf(n + 1)' = t0
    BY <1>4, <1>a DEF TypeOf
<1>12. \A t \in EventTypes \ {t0} : OfType(t)' = OfType(t)
    BY <1>4, <1>10, <1>11, UpToNext DEF OfType
<1>13. OfType(t0)' = OfType(t0) \cup {n + 1}
    BY <1>4, <1>10, <1>11, UpToNext DEF OfType
<1>14. \A t \in EventTypes : OfType(t) \subseteq 1..n
    BY <1>4 DEF OfType
<1>15. ListsAccepted'
    <2>1. SUFFICES ASSUME NEW t \in EventTypes
                   PROVE  \E f : Numbering(f, eventHandlers[t], OfType(t))'
        BY DEF ListsAccepted
    <2>2. PICK f : Numbering(f, eventHandlers[t], OfType(t))
        BY DEF EventInv, ListsAccepted
    <2>3. /\ f \in Bijection(DOMAIN eventHandlers[t], OfType(t))
          /\ Rises(f, DOMAIN eventHandlers[t])
          /\ \A k \in DOMAIN eventHandlers[t] : eventHandlers[t][k] = accepted[f[k]]
        BY <2>2 DEF Numbering
    <2>4. \A k \in DOMAIN eventHandlers[t] : f[k] \in 1..n
        <3>1. f \in [DOMAIN eventHandlers[t] -> OfType(t)]
            BY <2>3, OfBijection
        <3>. QED BY <1>14, <3>1
    <2>5. CASE t # t0
        <3>1. eventHandlers'[t] = eventHandlers[t] /\ OfType(t)' = OfType(t)
            BY <1>5, <1>12, <2>5
        <3>2. \A k \in DOMAIN eventHandlers[t] : eventHandlers[t][k] = accepted'[f[k]]
            BY <1>4, <2>3, <2>4
        <3>. QED BY <2>3, <3>1, <3>2 DEF Numbering
    <2>6. CASE t = t0
        <3>1. f \in Bijection(1..m, OfType(t0)) /\ Rises(f, 1..m)
            BY <1>9, <2>3, <2>6
        <3>2. OfType(t0) \in SUBSET (1..n) /\ m \in Nat /\ n \in Nat
            BY <1>2, <1>4, <1>9, <1>14
        <3>3. PICK g \in Bijection(1..(m + 1), OfType(t0) \cup {n + 1}) :
                /\ Rises(g, 1..(m + 1))
                /\ g[m + 1] = n + 1 /\ \A k \in 1..m : g[k] = f[k]
            BY <3>1, <3>2, OneMore, ZenonT(60)
        <3>4. ASSUME NEW k \in 1..(m + 1)
              PROVE  eventHandlers'[t0][k] = accepted'[g[k]]
            <4>1. CASE k = m + 1
                BY <1>4, <1>9, <3>3, <4>1
            <4>2. CASE k # m + 1
                <5>1. k \in 1..m /\ g[k] = f[k]
                    BY <1>9, <3>3, <4>2
                <5>. QED BY <1>4, <1>9, <2>3, <2>4, <2>6, <5>1
            <4>. QED BY <4>1, <4>2
        <3>5. g \in Bijection(DOMAIN eventHandlers'[t0], OfType(t0)')
            BY <1>9, <1>13, <3>3
        <3>6. /\ Rises(g, DOMAIN eventHandlers'[t0])
              /\ \A k \in DOMAIN eventHandlers'[t0] : eventHandlers'[t0][k] = accepted'[g[k]]
            BY <1>9, <3>3, <3>4
        <3>7. Numbering(g, eventHandlers[t0], OfType(t0))'
            BY <3>5, <3>6 DEF Numbering
        <3>. QED BY <2>6, <3>7
    <2>. QED BY <2>5, <2>6
<1>16. ListedOnce'
    <2>1. SUFFICES ASSUME NEW t \in EventTypes,
                          NEW k \in DOMAIN eventHandlers'[t], NEW l \in DOMAIN eventHandlers'[t],
                          eventHandlers'[t][k] = eventHandlers'[t][l], k # l
                   PROVE  eventHandlers'[t][k].form = "uncomparable"
        BY DEF ListedOnce
    <2>2. CASE t # t0
        BY <1>5, <2>1, <2>2 DEF EventInv, ListedOnce
    <2>3. CASE t = t0
        <3>1. ASSUME NEW i \in 1..m, eventHandlers[t0][i] = h
              PROVE  h.form = "uncomparable"
            <4>1. h \in Range(eventHandlers[t0])
                BY <1>9, <3>1 DEF Range
            <4>2. ~SameHandler(h, h)
                BY <1>1, <1>a, <4>1 DEF Duplicate
            <4>. QED BY <1>1, <1>2, <4>2 DEF SameHandler, HandlerForms
        <3>2. CASE k \in 1..m /\ l \in 1..m
            <4>1. t0 \in EventTypes /\ ListedOnce
                BY <2>3 DEF EventInv
            <4>2. /\ k \in DOMAIN eventHandlers[t0] /\ l \in DOMAIN eventHandlers[t0]
                  /\ eventHandlers'[t][k] = eventHandlers[t0][k]
                  /\ eventHandlers'[t][l] = eventHandlers[t0][l]
                BY <1>9, <2>3, <3>2
            <4>3. eventHandlers[t0][k].form = "uncomparable"
                BY <2>1, <4>1, <4>2 DEF ListedOnce
            <4>. QED BY <4>2, <4>3
        <3>3. /\ k \in 1..m \/ k = m + 1
              /\ l \in 1..m \/ l = m + 1
            BY <1>9, <2>1, <2>3, UpToNext
        <3>4. CASE k = m + 1 /\ l \in 1..m
            BY <1>9, <2>1, <2>3, <3>1, <3>4
        <3>5. CASE k \in 1..m /\ l = m + 1
            BY <1>9, <2>1, <2>3, <3>1, <3>5
        <3>. QED BY <2>1, <3>2, <3>3, <3>4, <3>5
    <2>. QED BY <2>2, <2>3
<1>. QED BY <1>6, <1>8, <1>15, <1>16 DEF EventInv

\* A relay starts, and with it the registry is frozen, or stops.
LEMMA RelayKeepsInv ==
    ASSUME EventInv, NEW r \in EventRelays, RelayStarts(r) \/ RelayStops(r)
    PROVE  EventInv'
<1>1. PICK at \in {"running", "stopped"} : relaying' = [relaying EXCEPT ![r].at = at]
    BY DEF RelayStarts, RelayStops
<1>2. UNCHANGED <<eventHandlers, accepted, deliveries>> /\ frozen'
    <2>1. CASE RelayStarts(r)
        BY <2>1 DEF RelayStarts, Freeze
    <2>2. CASE RelayStops(r)
        BY <2>2 DEF RelayStops, EventInv, FrozenFirst, EventTypeOK
    <2>. QED BY <2>1, <2>2
<1>3. EventTypeOK /\ relaying \in [EventRelays -> RelayStates]
    BY DEF EventInv, EventTypeOK
<1>4. /\ \A q \in EventRelays \ {r} : relaying'[q] = relaying[q]
      /\ relaying'[r] = [relaying[r] EXCEPT !.at = at]
      /\ DOMAIN relaying' = EventRelays
    BY <1>1, <1>3
<1>5. relaying'[r] \in RelayStates /\ relaying'[r].at = at
    BY <1>3, <1>4 DEF RelayStates
<1>6. relaying' \in [EventRelays -> RelayStates]
    BY <1>1, <1>3, <1>4, <1>5, ZenonT(60)
<1>7. EventTypeOK'
    <2>1. frozen' \in BOOLEAN
        BY <1>3 DEF RelayStarts, RelayStops, Freeze, EventTypeOK
    <2>. QED BY <1>2, <1>3, <1>6, <2>1 DEF EventTypeOK
<1>8. FrozenFirst'
    BY <1>2 DEF FrozenFirst
<1>9. CallsListed'
    <2>1. ASSUME NEW q \in EventRelays, relaying'[q].at = "delivering"
          PROVE  relaying'[q] = relaying[q]
        BY <1>4, <1>5, <2>1
    <2>2. \A t \in EventTypes : HandlersFor(t)' = HandlersFor(t)
        BY <1>2, SameLists
    <2>3. \A d \in deliveries : d.type \in EventTypes
        BY <1>3 DEF EventTypeOK
    <2>. QED BY <1>2, <2>1, <2>2, <2>3 DEF EventInv, CallsListed, WillCall
<1>. QED BY <1>2, <1>7, <1>8, <1>9, SameLists DEF EventInv

\* A delivery begins with whom the registry lists.
LEMMA DeliverStartsKeepsInv ==
    ASSUME EventInv, NEW r \in EventRelays, NEW t \in EventTypes, DeliverStarts(r, t)
    PROVE  EventInv'
<1>1. /\ relaying[r].at = "running"
      /\ relaying' = [relaying EXCEPT ![r] = [at |-> "delivering", type |-> t,
                                              left |-> HandlersFor(t), called |-> <<>>]]
      /\ UNCHANGED <<eventHandlers, frozen, accepted, deliveries>>
    BY DEF DeliverStarts
<1>2. EventTypeOK /\ relaying \in [EventRelays -> RelayStates]
    BY DEF EventInv, EventTypeOK
<1>3. HandlersFor(t) \in Seq(EventHandlers)
    BY <1>2, HandlersForType
<1>4. /\ \A q \in EventRelays \ {r} : relaying'[q] = relaying[q]
      /\ relaying'[r].at = "delivering" /\ relaying'[r].type = t
      /\ relaying'[r].left = HandlersFor(t) /\ relaying'[r].called = <<>>
    BY <1>1, <1>2
<1>5. relaying' \in [EventRelays -> RelayStates]
    <2>1. PICK list \in Seq(EventHandlers) : list = HandlersFor(t)
        BY <1>3
    <2>2. <<>> \in Seq(EventHandlers)
        OBVIOUS
    <2>3. [at |-> "delivering", type |-> t, left |-> list, called |-> <<>>] \in RelayStates
        BY <2>2 DEF RelayStates
    <2>. QED BY <1>1, <1>2, <2>1, <2>3
<1>6. EventTypeOK'
    BY <1>1, <1>2, <1>5 DEF EventTypeOK
<1>7. FrozenFirst'
    BY <1>1, <1>4 DEF EventInv, FrozenFirst
<1>8. CallsListed'
    <2>1. \A u \in EventTypes : HandlersFor(u)' = HandlersFor(u)
        BY <1>1, SameLists
    <2>2. \A d \in deliveries : d.type \in EventTypes
        BY <1>2 DEF EventTypeOK
    <2>3. relaying'[r].called \o relaying'[r].left = HandlersFor(t)'
        BY <1>3, <1>4, <2>1, ConcatEmptySeq
    <2>4. \A q \in EventRelays \ {r} : WillCall(q)'
        BY <1>1, <1>4, WillCallSame
    <2>5. WillCall(r)'
        BY <1>4, <2>3 DEF WillCall
    <2>. QED BY <1>1, <2>1, <2>2, <2>4, <2>5 DEF EventInv, CallsListed
<1>. QED BY <1>1, <1>6, <1>7, <1>8, SameLists DEF EventInv

\* Whom it has called and whom it will call remain the same, one after the other.
LEMMA CallEventHandlerKeepsInv ==
    ASSUME EventInv, NEW r \in EventRelays, CallEventHandler(r)
    PROVE  EventInv'
<1>1. PICK left, called : left = relaying[r].left /\ called = relaying[r].called
    OBVIOUS
<1>2. /\ relaying[r].at = "delivering" /\ left # <<>>
      /\ relaying' = [relaying EXCEPT ![r].left = Tail(@), ![r].called = Append(@, Head(left))]
      /\ UNCHANGED <<eventHandlers, frozen, accepted, deliveries>>
    BY <1>1 DEF CallEventHandler
<1>3. EventTypeOK /\ relaying \in [EventRelays -> RelayStates]
    BY DEF EventInv, EventTypeOK
<1>4. left \in Seq(EventHandlers) /\ called \in Seq(EventHandlers)
    BY <1>1, <1>3 DEF RelayStates
<1>5. /\ \A q \in EventRelays \ {r} : relaying'[q] = relaying[q]
      /\ relaying'[r] = [relaying[r] EXCEPT !.left = Tail(left), !.called = Append(called, Head(left))]
      /\ DOMAIN relaying' = EventRelays
    BY <1>1, <1>2, <1>3
<1>6. /\ Head(left) \in EventHandlers /\ Tail(left) \in Seq(EventHandlers)
      /\ left = <<Head(left)>> \o Tail(left)
    BY <1>2, <1>4, HeadTailProperties
<1>7. Append(called, Head(left)) \o Tail(left) = called \o left
    <2>1. Append(called, Head(left)) = called \o <<Head(left)>>
        BY <1>4, <1>6, AppendIsConcat
    <2>2. <<Head(left)>> \in Seq(EventHandlers)
        BY <1>6
    <2>3. (called \o <<Head(left)>>) \o Tail(left) = called \o (<<Head(left)>> \o Tail(left))
        BY <1>4, <1>6, <2>2, ConcatAssociative
    <2>. QED BY <1>6, <2>1, <2>3
<1>8. /\ relaying'[r].at = relaying[r].at /\ relaying'[r].type = relaying[r].type
      /\ relaying'[r].left = Tail(left) /\ relaying'[r].called = Append(called, Head(left))
      /\ relaying'[r] \in RelayStates
    <2>1. Append(called, Head(left)) \in Seq(EventHandlers)
        BY <1>4, <1>6
    <2>. QED BY <1>3, <1>5, <1>6, <2>1 DEF RelayStates
<1>9. EventTypeOK'
    <2>1. relaying' \in [EventRelays -> RelayStates]
        BY <1>2, <1>3, <1>5, <1>8
    <2>. QED BY <1>2, <1>3, <2>1 DEF EventTypeOK
<1>10. FrozenFirst'
    BY <1>2, <1>5, <1>8 DEF EventInv, FrozenFirst
<1>11. CallsListed'
    <2>1. \A u \in EventTypes : HandlersFor(u)' = HandlersFor(u)
        BY <1>2, SameLists
    <2>2. \A d \in deliveries : d.type \in EventTypes
        BY <1>3 DEF EventTypeOK
    <2>3. WillCall(r)'
        <3>1. relaying[r].type \in EventTypes /\ called \o left = HandlersFor(relaying[r].type)
            BY <1>1, <1>2 DEF EventInv, CallsListed, WillCall
        <3>. QED BY <1>7, <1>8, <2>1, <3>1 DEF WillCall
    <2>4. \A q \in EventRelays \ {r} : WillCall(q)'
        BY <1>2, <1>5, WillCallSame
    <2>. QED BY <1>2, <2>1, <2>2, <2>3, <2>4 DEF EventInv, CallsListed
<1>. QED BY <1>2, <1>9, <1>10, <1>11, SameLists DEF EventInv

\* When nobody is left, all have been called.
LEMMA DeliverEndsKeepsInv ==
    ASSUME EventInv, NEW r \in EventRelays, DeliverEnds(r)
    PROVE  EventInv'
<1>1. PICK d : d = [type |-> relaying[r].type, called |-> relaying[r].called]
    OBVIOUS
<1>2. /\ relaying[r].at = "delivering" /\ relaying[r].left = <<>>
      /\ relaying' = [relaying EXCEPT ![r] = [Stopped EXCEPT !.at = "running"]]
      /\ deliveries' = deliveries \cup {d}
      /\ UNCHANGED <<eventHandlers, frozen, accepted>>
    BY <1>1 DEF DeliverEnds
<1>3. EventTypeOK /\ relaying \in [EventRelays -> RelayStates]
    BY DEF EventInv, EventTypeOK
<1>4. /\ relaying[r].called \in Seq(EventHandlers) /\ relaying[r].type \in EventTypes
      /\ relaying[r].called \o <<>> = HandlersFor(relaying[r].type)
    <2>1. relaying[r].called \in Seq(EventHandlers)
        BY <1>3 DEF RelayStates
    <2>. QED BY <1>2, <2>1 DEF EventInv, CallsListed, WillCall
<1>5. d.type \in EventTypes /\ d.called = HandlersFor(d.type)
    BY <1>1, <1>4, ConcatEmptySeq
<1>6. /\ \A q \in EventRelays \ {r} : relaying'[q] = relaying[q]
      /\ relaying'[r].at = "running"
    BY <1>2, <1>3 DEF Stopped
<1>7. EventTypeOK'
    <2>1. [Stopped EXCEPT !.at = "running"] \in RelayStates
        <3>1. Stopped \in RelayStates
            BY DEF Stopped, RelayStates
        <3>. QED BY <3>1 DEF RelayStates
    <2>2. relaying' \in [EventRelays -> RelayStates]
        BY <1>2, <1>3, <2>1
    <2>3. d \in [type : EventTypes, called : Seq(EventHandlers)]
        BY <1>1, <1>4
    <2>. QED BY <1>2, <1>3, <2>2, <2>3 DEF EventTypeOK
<1>8. FrozenFirst'
    BY <1>2, <1>6 DEF EventInv, FrozenFirst
<1>9. CallsListed'
    <2>1. \A u \in EventTypes : HandlersFor(u)' = HandlersFor(u)
        BY <1>2, SameLists
    <2>2. \A e \in deliveries : e.type \in EventTypes
        BY <1>3 DEF EventTypeOK
    <2>3. \A e \in deliveries' : e.called = HandlersFor(e.type)'
        BY <1>2, <1>5, <2>1, <2>2 DEF EventInv, CallsListed
    <2>4. \A q \in EventRelays : WillCall(q)'
        BY <1>6, <2>1 DEF EventInv, CallsListed, WillCall
    <2>. QED BY <2>3, <2>4 DEF CallsListed
<1>. QED BY <1>2, <1>7, <1>8, <1>9, SameLists DEF EventInv

-----------------------------------------------------------------------------
(* The jobs' registry keeps its invariant.                                 *)

\* Calls that follow do not change which was the last of the first k.
LEMMA LastCallKept ==
    ASSUME NEW name, NEW h, NEW k \in Nat, LastCall(name, h, k),
           \A i \in 1..k : jobCalls'[i] = jobCalls[i]
    PROVE  LastCall(name, h, k)'
<1>1. {i \in 1..k : jobCalls[i].name = name}' = {i \in 1..k : jobCalls[i].name = name}
    OBVIOUS
<1>. QED BY <1>1 DEF LastCall

\* Register and Replace: the call is the last one for its name.
LEMMA JobCallKeepsInv ==
    ASSUME JobInv, NEW name \in JobNames, NEW h \in JobHandlers,
           RegisterJob(name, h) \/ ReplaceJob(name, h)
    PROVE  JobInv'
<1>1. PICK op \in {"Register", "Replace"} :
        JobCall(op, name, h) /\ (op = "Replace" <=> jobHandlers[name] # NoHandler)
    BY DEF RegisterJob, ReplaceJob
<1>2. PICK call : call = [op |-> op, name |-> name, handler |-> h]
    OBVIOUS
<1>3. PICK n : n = Len(jobCalls)
    OBVIOUS
<1>4. /\ jobHandlers' = [jobHandlers EXCEPT ![name] = h]
      /\ jobCalls' = Append(jobCalls, call) /\ UNCHANGED jobRuns
    BY <1>1, <1>2 DEF JobCall
<1>5. call \in SuccessfulCalls /\ call.name = name /\ call.handler = h /\ call.op = op
    BY <1>2 DEF SuccessfulCalls
<1>6. /\ jobCalls \in Seq(SuccessfulCalls)
      /\ jobHandlers \in [JobNames -> JobHandlers \cup {NoHandler}]
    BY DEF JobInv, JobTypeOK
<1>7. /\ n \in Nat /\ DOMAIN jobCalls = 1..n /\ jobCalls' \in Seq(SuccessfulCalls)
      /\ DOMAIN jobCalls' = 1..(n + 1) /\ Len(jobCalls') = n + 1
      /\ jobCalls'[n + 1] = call /\ \A i \in 1..n : jobCalls'[i] = jobCalls[i]
    BY <1>3, <1>4, <1>5, <1>6, Appended
<1>8. \A i \in 1..n : jobCalls[i] \in SuccessfulCalls
    BY <1>6, <1>7
<1>9. JobTypeOK'
    BY <1>4, <1>6, <1>7 DEF JobInv, JobTypeOK
<1>10. JobHandlersLast'
    <2>1. SUFFICES ASSUME NEW other \in JobNames
                   PROVE  LastCall(other, jobHandlers[other], n + 1)'
        BY <1>7 DEF JobHandlersLast
    <2>2. CASE other = name
        <3>1. jobHandlers'[name] = h
            BY <1>4, <1>6
        <3>2. n + 1 \in {i \in 1..(n + 1) : jobCalls'[i].name = name}
            BY <1>5, <1>7
        <3>3. \A j \in {i \in 1..(n + 1) : jobCalls'[i].name = name} : j <= n + 1
            BY <1>7
        <3>4. h = jobCalls'[n + 1].handler
            BY <1>5, <1>7
        <3>. QED BY <2>2, <3>1, <3>2, <3>3, <3>4 DEF LastCall
    <2>3. CASE other # name
        <3>1. jobHandlers'[other] = jobHandlers[other]
            BY <1>4, <1>6, <2>3
        <3>2. LastCall(other, jobHandlers[other], n)
            BY <1>3 DEF JobInv, JobHandlersLast
        <3>3. {i \in 1..(n + 1) : jobCalls'[i].name = other} = {i \in 1..n : jobCalls[i].name = other}
            BY <1>5, <1>7, <2>3, UpToNext
        <3>4. \A i \in {j \in 1..n : jobCalls[j].name = other} :
                jobCalls'[i].handler = jobCalls[i].handler
            BY <1>7
        <3>. QED BY <3>1, <3>2, <3>3, <3>4 DEF LastCall
    <2>. QED BY <2>2, <2>3
<1>11. RunsByLast'
    <2>1. SUFFICES ASSUME NEW run \in jobRuns
                   PROVE  run.after <= n + 1 /\ LastCall(run.name, run.handler, run.after)'
        BY <1>4, <1>7 DEF RunsByLast
    <2>2. run.after \in Nat /\ run.after <= n /\ LastCall(run.name, run.handler, run.after)
        BY <1>3 DEF JobInv, JobTypeOK, RunsByLast
    <2>3. \A i \in 1..run.after : i \in 1..n
        BY <1>7, <2>2
    <2>4. \A i \in 1..run.after : jobCalls'[i] = jobCalls[i]
        BY <1>7, <2>3
    <2>. QED BY <1>7, <2>2, <2>4, LastCallKept
<1>12. OpsHonest'
    <2>1. SUFFICES ASSUME NEW i \in 1..(n + 1)
                   PROVE  jobCalls'[i].op = "Replace" <=>
                            \E j \in 1..(i - 1) : jobCalls'[j].name = jobCalls'[i].name
        BY <1>7 DEF OpsHonest
    <2>2. \A j \in 1..(i - 1) : jobCalls'[j] = jobCalls[j]
        BY <1>7
    <2>3. CASE i \in 1..n
        BY <1>7, <2>2, <2>3 DEF JobInv, OpsHonest
    <2>4. CASE i = n + 1
        <3>1. LastCall(name, jobHandlers[name], n)
            BY <1>3 DEF JobInv, JobHandlersLast
        <3>2. jobHandlers[name] # NoHandler <=> \E j \in 1..n : jobCalls[j].name = name
            BY <1>8, <3>1, RegistryAssumption DEF LastCall, SuccessfulCalls
        <3>3. i - 1 = n
            BY <1>7, <2>4
        <3>. QED BY <1>1, <1>5, <1>7, <2>2, <2>4, <3>2, <3>3
    <2>. QED BY <1>7, <2>3, <2>4, UpToNext
<1>. QED BY <1>9, <1>10, <1>11, <1>12 DEF JobInv

\* A job is run by the handler of the last call so far.
LEMMA RunJobKeepsInv ==
    ASSUME JobInv, NEW name \in JobNames, RunJob(name)
    PROVE  JobInv'
<1>1. PICK run : run = [name |-> name, handler |-> jobHandlers[name], after |-> Len(jobCalls)]
    OBVIOUS
<1>2. jobRuns' = jobRuns \cup {run} /\ UNCHANGED <<jobHandlers, jobCalls>>
    BY <1>1 DEF RunJob
<1>3. /\ run.name = name /\ run.handler = jobHandlers[name] /\ run.after = Len(jobCalls)
      /\ jobHandlers[name] \in JobHandlers \cup {NoHandler} /\ Len(jobCalls) \in Nat
    BY <1>1 DEF JobInv, JobTypeOK
<1>4. JobTypeOK'
    <2>1. run \in [name : JobNames, handler : JobHandlers \cup {NoHandler}, after : Nat]
        BY <1>1, <1>3
    <2>. QED BY <1>2, <2>1 DEF JobInv, JobTypeOK
<1>5. JobHandlersLast' /\ OpsHonest'
    BY <1>2 DEF JobInv, JobHandlersLast, OpsHonest, LastCall
<1>6. RunsByLast'
    <2>1. LastCall(name, jobHandlers[name], Len(jobCalls))
        BY DEF JobInv, JobHandlersLast
    <2>2. \A q \in jobRuns' : q.after <= Len(jobCalls) /\ LastCall(q.name, q.handler, q.after)
        BY <1>2, <1>3, <2>1 DEF JobInv, RunsByLast
    <2>. QED BY <1>2, <2>2 DEF RunsByLast, LastCall
<1>. QED BY <1>4, <1>5, <1>6 DEF JobInv

\* Steps of one registry leave the other alone.
LEMMA RegistryInvNext ==
    ASSUME RegistryInv, [EventNext \/ JobNext]_registryVars
    PROVE  RegistryInv'
<1>1. EventInv /\ JobInv
    BY DEF RegistryInv
<1>2. ASSUME UNCHANGED eventVars PROVE EventInv'
    <2>1. UNCHANGED <<eventHandlers, frozen, accepted, relaying, deliveries>>
        BY <1>2 DEF eventVars
    <2>2. ListsAccepted' /\ ListedOnce' /\ \A q \in EventRelays : WillCall(q)'
        BY <1>1, <2>1, SameLists, WillCallSame
    <2>3. EventTypeOK' /\ FrozenFirst'
        BY <1>1, <2>1 DEF EventInv, EventTypeOK, FrozenFirst
    <2>4. \A d \in deliveries : d.called = HandlersFor(d.type)'
        BY <1>1, <2>1 DEF EventInv, CallsListed, HandlersFor
    <2>. QED BY <2>1, <2>2, <2>3, <2>4 DEF EventInv, CallsListed
<1>3. ASSUME UNCHANGED jobVars PROVE JobInv'
    BY <1>1, <1>3 DEF jobVars, JobInv, JobTypeOK, JobHandlersLast, RunsByLast, OpsHonest, LastCall
<1>4. CASE UNCHANGED registryVars
    BY <1>2, <1>3, <1>4 DEF registryVars, RegistryInv
<1>5. CASE EventNext
    <2>1. UNCHANGED jobVars
        BY <1>5 DEF EventNext, RegisterEvent, RelayStarts, DeliverStarts, CallEventHandler,
                    DeliverEnds, RelayStops
    <2>2. EventInv'
        BY <1>1, <1>5, RegisterEventKeepsInv, RelayKeepsInv, DeliverStartsKeepsInv,
           CallEventHandlerKeepsInv, DeliverEndsKeepsInv DEF EventNext
    <2>3. JobInv'
        BY <1>3, <2>1
    <2>. QED BY <2>2, <2>3 DEF RegistryInv
<1>6. CASE JobNext
    <2>1. UNCHANGED eventVars
        BY <1>6 DEF JobNext, RunJob, RegisterJob, ReplaceJob, JobCall
    <2>2. JobInv'
        BY <1>1, <1>6, RunJobKeepsInv, JobCallKeepsInv DEF JobNext
    <2>. QED BY <1>2, <2>1, <2>2 DEF RegistryInv
<1>. QED BY <1>4, <1>5, <1>6

\* Every reachable state of the registries satisfies the invariant.
THEOREM RegistryInvariance == RegistrySpec => []RegistryInv
BY RegistryInvInit, RegistryInvNext, PTL DEF RegistrySpec

\* The members of a list are of its type.
LEMMA ListedType ==
    ASSUME EventInv, NEW t \in EventTypes, NEW k \in DOMAIN eventHandlers[t]
    PROVE  TrimSpace(eventHandlers[t][k].type) = t
<1>1. PICK f : Numbering(f, eventHandlers[t], OfType(t))
    BY DEF EventInv, ListsAccepted
<1>2. f \in [DOMAIN eventHandlers[t] -> OfType(t)]
    BY <1>1, OfBijection DEF Numbering
<1>3. f[k] \in OfType(t) /\ eventHandlers[t][k] = accepted[f[k]]
    BY <1>1, <1>2 DEF Numbering
<1>. QED BY <1>3 DEF OfType, TypeOf

\* What HandlersFor returns is one by one what was accepted for a type and for "*".
LEMMA CallsEntitled ==
    ASSUME EventInv, NEW t \in EventTypes, NEW list, list = HandlersFor(t)
    PROVE  /\ \E f \in Bijection(DOMAIN list, Entitled(t)) :
                \A k, l \in DOMAIN list :
                    list[k] = accepted[f[k]] /\ (k < l => Before(f[k], f[l]))
           /\ \A k, l \in DOMAIN list :
                list[k] = list[l] /\ k # l => list[k].form = "uncomparable"
<1>1. "*" \in EventTypes
    BY RegistryAssumption
<1>2. PICK a, b : a = eventHandlers[t] /\ b = eventHandlers["*"]
    OBVIOUS
<1>3. a \in Seq(EventHandlers) /\ b \in Seq(EventHandlers)
    BY <1>1, <1>2 DEF EventInv, EventTypeOK
<1>4. PICK m, n : m = Len(a) /\ n = Len(b)
    OBVIOUS
<1>5. m \in Nat /\ n \in Nat /\ DOMAIN a = 1..m /\ DOMAIN b = 1..n
    BY <1>3, <1>4
<1>6. PICK f : Numbering(f, a, OfType(t))
    BY <1>2 DEF EventInv, ListsAccepted
<1>7. PICK g : Numbering(g, b, OfType("*"))
    BY <1>1, <1>2 DEF EventInv, ListsAccepted
<1>8. /\ f \in Bijection(1..m, OfType(t)) /\ f \in [1..m -> OfType(t)]
      /\ \A k \in 1..m : a[k] = accepted[f[k]]
      /\ \A k, l \in 1..m : k < l => f[k] < f[l]
    BY <1>5, <1>6, OfBijection DEF Numbering, Rises
<1>9. /\ g \in Bijection(1..n, OfType("*")) /\ g \in [1..n -> OfType("*")]
      /\ \A k \in 1..n : b[k] = accepted[g[k]]
      /\ \A k, l \in 1..n : k < l => g[k] < g[l]
    BY <1>5, <1>7, OfBijection DEF Numbering, Rises
<1>10. \A k, l \in 1..m : a[k] = a[l] /\ k # l => a[k].form = "uncomparable"
    BY <1>2, <1>5 DEF EventInv, ListedOnce
<1>11. \A k, l \in 1..n : b[k] = b[l] /\ k # l => b[k].form = "uncomparable"
    BY <1>1, <1>2, <1>5 DEF EventInv, ListedOnce
<1>12. \A i \in OfType(t) : TypeOf(i) = t
    BY DEF OfType
<1>13. \A i \in OfType("*") : TypeOf(i) = "*"
    BY DEF OfType
<1>14. CASE t = "*"
    <2>1. list = a
        BY <1>2, <1>3, <1>14, ConcatEmptySeq DEF HandlersFor
    <2>2. Entitled(t) = OfType(t)
        BY <1>14 DEF Entitled, OfType
    <2>3. \A k, l \in 1..m : k < l => Before(f[k], f[l])
        BY <1>8, <1>12 DEF Before
    <2>. QED BY <1>5, <1>8, <1>10, <2>1, <2>2, <2>3
<1>15. CASE t # "*"
    <2>1. list = a \o b
        BY <1>2, <1>15 DEF HandlersFor
    <2>2. /\ DOMAIN list = 1..(m + n)
          /\ \A k \in 1..(m + n) : list[k] = IF k <= m THEN a[k] ELSE b[k - m]
        BY <1>3, <1>4, <1>5, <2>1, ConcatProperties
    <2>3. Entitled(t) = OfType(t) \cup OfType("*")
        BY DEF Entitled, OfType
    <2>4. \A i \in OfType(t) : i \notin OfType("*")
        BY <1>12, <1>13, <1>15
    <2>5. PICK c \in Bijection(1..(m + n), OfType(t) \cup OfType("*")) : FirstThen(f, m, g, n, c)
        <3>1. PICK S, T : S = OfType(t) /\ T = OfType("*")
            OBVIOUS
        <3>2. /\ m \in Nat /\ n \in Nat /\ S \cap T = {}
              /\ f \in Bijection(1..m, S) /\ g \in Bijection(1..n, T)
            BY <1>5, <1>8, <1>9, <2>4, <3>1
        <3>3. \E c \in Bijection(1..(m + n), S \cup T) : FirstThen(f, m, g, n, c)
            BY <3>2, OneAfterTheOther
        <3>. QED BY <3>1, <3>3
    <2>6. c \in Bijection(1..(m + n), Entitled(t))
        BY <2>3, <2>5
    <2>7. \A k \in 1..(m + n) : k \in 1..m \/ (k > m /\ k - m \in 1..n)
        BY <1>5
    <2>8. \A k \in 1..m : k \in 1..(m + n) /\ c[k] = f[k] /\ list[k] = a[k]
        BY <1>5, <2>2, <2>5 DEF FirstThen
    <2>9. \A k \in 1..(m + n) : k > m => c[k] = g[k - m] /\ list[k] = b[k - m]
        BY <1>5, <2>2, <2>5 DEF FirstThen
    <2>10. \A k \in 1..(m + n) : list[k] = accepted[c[k]]
        BY <1>8, <1>9, <2>7, <2>8, <2>9
    <2>11. ASSUME NEW k \in 1..(m + n), NEW l \in 1..(m + n), k < l
           PROVE  Before(c[k], c[l])
        <3>1. CASE l \in 1..m
            <4>1. k \in 1..m
                BY <1>5, <2>11, <3>1
            <4>2. c[k] \in OfType(t) /\ c[l] \in OfType(t) /\ c[k] < c[l]
                BY <1>8, <2>8, <2>11, <3>1, <4>1
            <4>. QED BY <1>12, <4>2 DEF Before
        <3>2. CASE k \in 1..m /\ l > m
            <4>1. c[k] \in OfType(t) /\ c[l] \in OfType("*")
                <5>1. c[k] = f[k] /\ c[l] = g[l - m] /\ l - m \in 1..n
                    BY <1>5, <2>7, <2>8, <2>9, <3>2
                <5>. QED BY <1>8, <1>9, <3>2, <5>1
            <4>2. TypeOf(c[k]) = t /\ TypeOf(c[l]) = "*"
                BY <1>12, <1>13, <4>1
            <4>. QED BY <1>15, <4>2 DEF Before
        <3>3. CASE k > m /\ l > m
            <4>1. k - m \in 1..n /\ l - m \in 1..n /\ k - m < l - m
                BY <1>5, <2>11, <3>3
            <4>2. c[k] \in OfType("*") /\ c[l] \in OfType("*") /\ c[k] < c[l]
                <5>1. c[k] = g[k - m] /\ c[l] = g[l - m]
                    BY <2>9, <3>3
                <5>. QED BY <1>9, <4>1, <5>1
            <4>. QED BY <1>13, <4>2 DEF Before
        <3>. QED BY <1>5, <2>7, <2>11, <3>1, <3>2, <3>3
    <2>12. ASSUME NEW k \in 1..(m + n), NEW l \in 1..(m + n), list[k] = list[l], k # l
           PROVE  list[k].form = "uncomparable"
        <3>1. \A i \in 1..m : TrimSpace(list[i].type) = t
            BY <1>2, <1>5, <2>8, ListedType
        <3>2. \A i \in 1..(m + n) : i > m => TrimSpace(list[i].type) = "*"
            BY <1>1, <1>2, <1>5, <2>7, <2>9, ListedType
        <3>3. CASE k \in 1..m /\ l \in 1..m
            BY <1>10, <2>8, <2>12, <3>3
        <3>4. CASE k > m /\ l > m
            <4>1. k - m \in 1..n /\ l - m \in 1..n /\ k - m # l - m
                BY <1>5, <2>12, <3>4
            <4>. QED BY <1>11, <2>9, <2>12, <3>4, <4>1
        <3>5. CASE (k \in 1..m /\ l > m) \/ (k > m /\ l \in 1..m)
            BY <1>15, <2>12, <3>1, <3>2, <3>5
        <3>. QED BY <2>7, <3>3, <3>4, <3>5
    <2>. QED BY <2>2, <2>6, <2>10, <2>11, <2>12
<1>. QED BY <1>14, <1>15

\* Who is called is who was registered, whichever handlers are registered in
\* whatever order while relays start: every delivery calls one by one the handlers
\* that events.Register (events/events.go) accepted for the type of the event and
\* for "*", in their order, and none that can be compared twice; every job is run
\* by the handler of the last call for its name, and only Replace (jobs/jobs.go)
\* takes the place of another.
THEOREM AcceptedHandlersRunHolds == RegistrySpec => []AcceptedHandlersRun
<1>1. ASSUME RegistryInv PROVE AcceptedHandlersRun
    <2>1. EventInv /\ JobInv
        BY <1>1 DEF RegistryInv
    <2>2. ASSUME NEW d \in deliveries
          PROVE  /\ \E f \in Bijection(DOMAIN d.called, Entitled(d.type)) :
                        \A k, l \in DOMAIN d.called :
                            d.called[k] = accepted[f[k]] /\ (k < l => Before(f[k], f[l]))
                 /\ \A k, l \in DOMAIN d.called :
                        d.called[k] = d.called[l] /\ k # l => d.called[k].form = "uncomparable"
        <3>1. d.type \in EventTypes /\ d.called = HandlersFor(d.type)
            BY <2>1, <2>2 DEF EventInv, EventTypeOK, CallsListed
        <3>. QED BY <2>1, <3>1, CallsEntitled
    <2>3. \A run \in jobRuns : LastCall(run.name, run.handler, run.after)
        BY <2>1 DEF JobInv, RunsByLast
    <2>4. OpsHonest
        BY <2>1 DEF JobInv
    <2>. QED BY <2>2, <2>3, <2>4 DEF AcceptedHandlersRun, OpsHonest
<1>. QED BY <1>1, RegistryInvariance, PTL
=============================================================================
