-------------------------------- MODULE Mail --------------------------------
(***************************************************************************)
(* The SMTP transport of package mail (mail/smtp.go).  Send opens a        *)
(* connection, goes through the dialogue that the configuration asks for   *)
(* and hands the message over; a goroutine of its own, closeWhenDone,      *)
(* closes the connection when the context ends.  A caller whose Send       *)
(* failed may call it again.                                               *)
(*                                                                         *)
(* The server answers a command, refuses it, or never answers.  It accepts *)
(* the message when it has read the end of the data, whether or not the    *)
(* client still waits for the answer.                                      *)
(***************************************************************************)
EXTENDS Integers, Sequences

CONSTANT MaxSends  \* bound: how often the caller tries

VARIABLES
    smtp,       \* the configuration; unset before NewSMTP
    command,    \* the operation Send is in; idle before and ended after it
    sendCtx,    \* its context: live, canceled or expired
    conn,       \* its connection: none, open, closed
    watcher,    \* closeWhenDone: off, waiting, told (done is closed), gone
    secure,     \* the dialogue is under TLS
    authed,     \* the server has accepted the credentials
    outbound,   \* the calls whose end of data is on its way to the server
    inbox,      \* the calls whose copy of the message the server has accepted
    sends,      \* how often Send was called
    returned    \* history: what each Send returned

sessionVars == <<conn, watcher, secure, authed>>
mailVars == <<smtp, command, sendCtx, sessionVars, outbound, inbox, sends, returned>>

SMTPConfigs == [StartTLS : BOOLEAN, ImplicitTLS : BOOLEAN, Username : BOOLEAN, Password : BOOLEAN]
Unset == [StartTLS |-> FALSE, ImplicitTLS |-> FALSE, Username |-> FALSE, Password |-> FALSE]

\* The operations of Send, by the names its errors give them.
Operations ==
    <<"connect", "TLS handshake", "initialize SMTP client", "start TLS", "authenticate",
      "set sender", "set recipient", "start message data", "write message data",
      "finish message data", "quit">>

MailInit ==
    /\ smtp = Unset
    /\ command = "unset"
    /\ sendCtx = "live"
    /\ conn = "none"
    /\ watcher = "off"
    /\ secure = FALSE
    /\ authed = FALSE
    /\ outbound = {}
    /\ inbox = {}
    /\ sends = 0
    /\ returned = <<>>

\* The operations this configuration goes through.
Needed(op) ==
    /\ op = "TLS handshake" => smtp.ImplicitTLS
    /\ op = "start TLS" => smtp.StartTLS
    /\ op = "authenticate" => smtp.Username

\* The dialogue goes from the i-th operation to the j-th: it skips those between.
Consecutive(i, j) ==
    /\ i < j
    /\ Needed(Operations[j])
    /\ \A k \in (i + 1)..(j - 1) : ~Needed(Operations[k])

InDialogue == command \notin {"unset", "idle", "ended"}

\* Send returns: the deferred calls close the client and the connection, tell
\* the goroutine and cancel the context.
Returns(outcome) ==
    /\ command' = "ended"
    /\ returned' = Append(returned, [outcome |-> outcome, op |-> command, secure |-> secure,
                                     authed |-> authed])
    /\ conn' = IF conn = "open" THEN "closed" ELSE conn
    /\ watcher' = IF watcher = "waiting" THEN "told" ELSE watcher

-----------------------------------------------------------------------------
(* The caller, the context and the goroutine.                              *)

\* NewSMTP: one kind of TLS at most, and a password if and only if a user name.
NewSMTP(config) ==
    /\ command = "unset"
    /\ ~(config.StartTLS /\ config.ImplicitTLS)
    /\ config.Username = config.Password
    /\ smtp' = config
    /\ command' = "idle"
    /\ UNCHANGED <<sendCtx, sessionVars, outbound, inbox, sends, returned>>

\* The caller calls Send, again only after an error.  The goroutine of an earlier
\* call is gone by then: it shares nothing with this one.
Calls ==
    /\ \/ command = "idle"
       \/ command = "ended" /\ watcher \in {"off", "gone"} /\ returned[sends].outcome # "nil"
    /\ sends < MaxSends
    /\ sends' = sends + 1

Send ==
    /\ Calls
    /\ command' = "connect"
    /\ sendCtx' = "live"
    /\ conn' = "none"
    /\ watcher' = "off"
    /\ secure' = FALSE
    /\ authed' = FALSE
    /\ UNCHANGED <<smtp, outbound, inbox, returned>>

\* An invalid address or subject, or a context that is done already.
SendRefused ==
    /\ Calls
    /\ command' = "ended"
    /\ returned' = Append(returned, [outcome |-> "invalid", op |-> "validate", secure |-> FALSE,
                                     authed |-> FALSE])
    /\ UNCHANGED <<smtp, sendCtx, sessionVars, outbound, inbox>>

\* The caller cancels.
SendCanceled ==
    /\ InDialogue
    /\ sendCtx = "live"
    /\ sendCtx' = "canceled"
    /\ UNCHANGED <<smtp, command, sessionVars, outbound, inbox, sends, returned>>

\* SMTPConfig.Timeout has passed, for the context and for the connection, whose
\* deadline is the same.
SendExpires ==
    /\ InDialogue
    /\ sendCtx # "expired"
    /\ sendCtx' = "expired"
    /\ UNCHANGED <<smtp, command, sessionVars, outbound, inbox, sends, returned>>

\* closeWhenDone: ctx.Done() is ready.
WatcherCloses ==
    /\ watcher \in {"waiting", "told"}
    /\ sendCtx # "live" \/ command = "ended"
    /\ conn' = "closed"
    /\ watcher' = "gone"
    /\ UNCHANGED <<smtp, command, sendCtx, secure, authed, outbound, inbox, sends, returned>>

WatcherEnds ==
    /\ watcher = "told"
    /\ watcher' = "gone"
    /\ UNCHANGED <<smtp, command, sendCtx, conn, secure, authed, outbound, inbox, sends,
                   returned>>

-----------------------------------------------------------------------------
(* The dialogue.                                                           *)

\* What an operation that succeeded leaves behind.
Established ==
    /\ secure' = (secure \/ command \in {"TLS handshake", "start TLS"})
    /\ authed' = (authed \/ command = "authenticate")
    /\ IF command = "connect" THEN conn' = "open" /\ watcher' = "waiting"
                              ELSE UNCHANGED <<conn, watcher>>

\* An answer can arrive: the connection is open and its deadline has not passed.
Reachable ==
    \/ command = "connect" /\ sendCtx = "live"
    \/ conn = "open" /\ sendCtx # "expired"

\* The operation succeeds and the next one begins.
OperationSucceeds ==
    /\ InDialogue
    /\ command \notin {"finish message data", "quit"}
    /\ Reachable
    /\ \E i, j \in DOMAIN Operations :
        Consecutive(i, j) /\ command = Operations[i] /\ command' = Operations[j]
    /\ Established
    /\ UNCHANGED <<smtp, sendCtx, outbound, inbox, sends, returned>>

\* writer.Close sends the end of the data.
FinishSent ==
    /\ command = "finish message data"
    /\ Reachable
    /\ sends \notin outbound \cup inbox
    /\ outbound' = outbound \cup {sends}
    /\ UNCHANGED <<smtp, command, sendCtx, sessionVars, inbox, sends, returned>>

\* The server reads it and accepts the message, perhaps after Send has given up.
MessageAccepted(call) ==
    /\ call \in outbound
    /\ outbound' = outbound \ {call}
    /\ inbox' = inbox \cup {call}
    /\ UNCHANGED <<smtp, command, sendCtx, sessionVars, sends, returned>>

\* Faulty: the error of writer.Close is not looked at.
FinishUnseen ==
    /\ command = "finish message data"
    /\ Reachable
    /\ command' = "quit"
    /\ UNCHANGED <<smtp, sendCtx, sessionVars, outbound, inbox, sends, returned>>

\* writer.Close reads the answer.
Finish ==
    /\ command = "finish message data"
    /\ Reachable
    /\ sends \in inbox
    /\ command' = "quit"
    /\ UNCHANGED <<smtp, sendCtx, sessionVars, outbound, inbox, sends, returned>>

Quit ==
    /\ command = "quit"
    /\ Reachable
    /\ Returns("nil")
    /\ UNCHANGED <<smtp, sendCtx, secure, authed, outbound, inbox, sends>>

\* transportError: the context's error if it is done, else that of the operation.
TransportError == IF sendCtx = "live" THEN "failed" ELSE "context"

\* The server refuses the command, or the network fails.  After a failed Write the
\* end of the data is not sent: the buffered writer keeps its error.
OperationFails ==
    /\ InDialogue
    /\ Returns(TransportError)
    /\ UNCHANGED <<smtp, sendCtx, secure, authed, outbound, inbox, sends>>

\* The server does not advertise STARTTLS: Send does not go on without.
StartTLSUnsupported ==
    /\ command = "start TLS"
    /\ Returns("failed")
    /\ UNCHANGED <<smtp, sendCtx, secure, authed, outbound, inbox, sends>>

\* Faulty: the dialer is not given the context.
DialUnbounded ==
    \/ conn = "closed"
    \/ conn = "open" /\ sendCtx = "expired"

\* A blocked operation comes back: the dialer watches the context, the connection
\* was closed, or its deadline has passed.
Interrupted ==
    \/ command = "connect" /\ sendCtx # "live"
    \/ conn = "closed"
    \/ conn = "open" /\ sendCtx = "expired"

OperationInterrupted ==
    /\ InDialogue
    /\ Interrupted
    /\ Returns(TransportError)
    /\ UNCHANGED <<smtp, sendCtx, secure, authed, outbound, inbox, sends>>

Watcher == WatcherCloses \/ WatcherEnds

MailNext ==
    \/ \E config \in SMTPConfigs : NewSMTP(config)
    \/ Send
    \/ SendRefused
    \/ SendCanceled
    \/ SendExpires
    \/ Watcher
    \/ OperationSucceeds
    \/ FinishSent
    \/ \E call \in 1..MaxSends : MessageAccepted(call)
    \/ Finish
    \/ Quit
    \/ OperationFails
    \/ StartTLSUnsupported
    \/ OperationInterrupted

MailSpec == MailInit /\ [][MailNext]_mailVars

\* Timers fire and goroutines are scheduled.  The server owes nothing.
MailFairness ==
    /\ WF_mailVars(SendExpires)
    /\ WF_mailVars(Watcher)
    /\ WF_mailVars(OperationInterrupted)

-----------------------------------------------------------------------------
(* Properties.                                                             *)

\* What the caller may conclude from the result of Send.  After nil the server
\* has taken the message in this very call, under TLS and with credentials if
\* they are configured.  An error leaves a copy behind only if it is one of
\* finishing the data or of QUIT: a caller that retries any other error never
\* delivers twice, though the server may read what was sent long after.
SendHonest ==
    /\ \A i \in DOMAIN returned : returned[i].outcome = "nil" =>
        /\ i \in inbox
        /\ smtp.StartTLS \/ smtp.ImplicitTLS => returned[i].secure
        /\ smtp.Username => returned[i].authed
    /\ \A i \in inbox \cap DOMAIN returned :
        returned[i].op \in {"finish message data", "quit"}

\* Send returns within its timeout, whatever the server does or fails to do, and
\* the goroutine of closeWhenDone ends.
SendEnds == InDialogue ~> command = "ended" /\ watcher \in {"off", "gone"}
=============================================================================
