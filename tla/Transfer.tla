------------------------------ MODULE Transfer ------------------------------
(***************************************************************************)
(* One queued message on its way from a sender to the smtpd of another     *)
(* server: onionmail/sender.py and onionmail/smtpd.py put together, reply  *)
(* by reply, with the answers Tor loses and the restarts of smtpd.         *)
(*                                                                         *)
(* Outbound has the queue file, its writers and the crashes of the sender, *)
(* and takes the other server's verdict as given; here that verdict is     *)
(* what the other server did.  smtplib and aiosmtpd are as the two modules *)
(* use them: a reply that does not come in time is SMTPServerDisconnected, *)
(* QUIT changes nothing, RCPT without MAIL is answered 503.                *)
(***************************************************************************)
EXTENDS Naturals, Sequences

CONSTANTS
    Rcpts,       \* the recipients of the message, of one onion
    Accounts,    \* those that have an account there throughout; others come and go
    None,
    Delays,      \* how many retry_delays there are
    Configured,  \* identity.onion is in smtpd's configuration
    BackInTime,  \* Tor and smtpd are up again before the next pass: systemd
                 \* restarts after 5 s, and the first delay is 60 s
    MaxFaults    \* bound on kills of smtpd, answers lost, errors of its disk

\* a connection: whom it is for, the command that was sent last and its reply
\* (0: none yet), and whether smtpd has a MAIL
Connection == [rcpt : Rcpts, i : 1..6, mail : BOOLEAN,
               reply : {0, 220, 250, 354, 451, 503, 550, 552}]

ASSUME TransferAssumption ==
    /\ Accounts \subseteq Rcpts /\ None \notin Connection
    /\ Delays \in Nat /\ MaxFaults \in Nat
    /\ Configured \in BOOLEAN /\ BackInTime \in BOOLEAN

VARIABLES
    allowed,   \* policy.sender_allowed of the sender's onion
    fits,      \* the message is no larger than max_message_bytes
    tor,       \* the server's Tor is up and has written its hostname file
    up,        \* smtpd runs
    onion,     \* OnionHandler.onion is known
    accounts,  \* those that have an account there now
    leavers,   \* history: whose account was removed between RCPT and the text
    rcpts,     \* entry.rcpts
    pass,      \* process_queue_once has the entry in hand
    left,      \* those this pass has not come to
    pending,   \* still_pending
    attempts,  \* entry.attempts
    verdict,   \* what the sender holds of each recipient
    over,      \* the entry is complete
    conn,      \* the connection there is
    late,      \* messages smtpd has in hand whose sender waits no more
    copies,    \* files smtpd put into each account's Maildir
    lost,      \* history: attempts at a recipient that ended without an answer
    faults

message == <<allowed, fits>>
members == <<accounts, leavers>>
server  == <<tor, up, onion, members>>
entry   == <<rcpts, pass, left, pending, attempts, verdict, over>>
vars    == <<message, server, entry, conn, late, copies, lost, faults>>

Init ==
    /\ allowed \in BOOLEAN /\ fits \in BOOLEAN
    /\ tor \in BOOLEAN /\ up = TRUE /\ onion = (Configured \/ tor)
    /\ accounts = Accounts /\ leavers = {}
    /\ rcpts = Rcpts /\ pass = FALSE /\ left = {} /\ pending = {} /\ attempts = 0
    /\ verdict = [r \in Rcpts |-> "none"] /\ over = FALSE
    /\ conn = None
    /\ late = [r \in Rcpts |-> 0] /\ copies = [r \in Rcpts |-> 0]
    /\ lost = [r \in Rcpts |-> 0]
    /\ faults = 0

Fails == faults < MaxFaults /\ faults' = faults + 1

-----------------------------------------------------------------------------
(* sender *)

Commands == <<"connect", "EHLO", "MAIL", "RCPT", "DATA", "text">>

Asks(r, i, m) == [rcpt |-> r, i |-> i, reply |-> 0, mail |-> m]
Cmd == Commands[conn.i]

\* process_queue_once: every recipient of the entry once
StartPass ==
    /\ ~over /\ ~pass
    /\ BackInTime /\ attempts > 0 => tor /\ up
    /\ pass' = TRUE /\ left' = rcpts
    /\ UNCHANGED <<message, server, rcpts, pending, attempts, verdict, over, conn, late, copies,
                   lost, faults>>

\* slip: a recipient to be tried later is tried again in the same pass
ConcludeAgain(r, v) ==
    /\ left' = IF v = "later" THEN left ELSE left \ {r}
    /\ pending' = IF v = "later" THEN pending \cup {r} ELSE pending
    /\ verdict' = [verdict EXCEPT ![r] = v]
    /\ conn' = None
    /\ UNCHANGED <<rcpts, pass, attempts, over>>

\* deliver_one returned or raised DeliveryError
Conclude(r, v) ==
    /\ left' = left \ {r}
    /\ pending' = IF v = "later" THEN pending \cup {r} ELSE pending
    /\ verdict' = [verdict EXCEPT ![r] = v]
    /\ conn' = None
    /\ UNCHANGED <<rcpts, pass, attempts, over>>

\* _socks_connect: through both Tors, or a proxy error
Connect ==
    /\ conn = None
    /\ \E r \in left :
         IF tor /\ up THEN conn' = Asks(r, 1, FALSE) /\ UNCHANGED entry
                      ELSE Conclude(r, "later")
    /\ UNCHANGED <<message, server, late, copies, lost, faults>>

\* What code the sender goes on with.  Nobody looks at the reply to MAIL.
Wanted == CASE Cmd = "connect" -> {220}
            [] Cmd = "DATA"    -> {354}
            [] Cmd = "MAIL"    -> {250, 550}
            [] OTHER           -> {250}

Replied == conn # None /\ conn.reply # 0

GoOn ==
    /\ Replied /\ conn.reply \in Wanted /\ Cmd # "text"
    /\ conn' = Asks(conn.rcpt, conn.i + 1, conn.mail)
    /\ UNCHANGED <<message, server, entry, late, copies, lost, faults>>

\* slip: the reply to the text is not looked at, as that to MAIL is not
DeliveredWhatever ==
    /\ Replied /\ Cmd = "text"
    /\ Conclude(conn.rcpt, "delivered")
    /\ UNCHANGED <<message, server, late, copies, lost, faults>>

Delivered ==
    /\ Replied /\ conn.reply \in Wanted /\ Cmd = "text"
    /\ Conclude(conn.rcpt, "delivered")
    /\ UNCHANGED <<message, server, late, copies, lost, faults>>

\* slip: any error is for good
RefusedByAnyCode ==
    /\ Replied /\ conn.reply \notin Wanted
    /\ Conclude(conn.rcpt, "refused")
    /\ UNCHANGED <<message, server, late, copies, lost, faults>>

\* DeliveryError, permanent from 500 on
Refused ==
    /\ Replied /\ conn.reply \notin Wanted
    /\ Conclude(conn.rcpt, IF conn.reply \in 500..599 THEN "refused" ELSE "later")
    /\ UNCHANGED <<message, server, late, copies, lost, faults>>

\* The reply does not come in time, or is lost; smtpd may have the text
\* in hand, if it got all of it.
GiveUpWaiting ==
    /\ conn # None /\ Fails
    /\ LET r == conn.rcpt
       IN  /\ Conclude(r, "later")
           /\ lost' = [lost EXCEPT ![r] = @ + 1]
           /\ late' \in {late, IF Cmd = "text" /\ conn.reply = 0 THEN [late EXCEPT ![r] = @ + 1]
                              ELSE late}
    /\ UNCHANGED <<message, server, copies>>

\* slip: the entry keeps all its recipients
EndPassKeepsAll ==
    /\ pass /\ conn = None /\ left = {}
    /\ pass' = FALSE /\ pending' = {}
    /\ attempts' = IF pending = {} THEN attempts ELSE attempts + 1
    /\ over' = (pending = {} \/ attempts' > Delays)
    /\ verdict' = [r \in Rcpts |-> IF over' /\ r \in pending THEN "gave up" ELSE verdict[r]]
    /\ UNCHANGED <<message, server, rcpts, left, conn, late, copies, lost, faults>>

\* The pass is over: completed, delayed or, after the last delay, failed.
EndPass ==
    /\ pass /\ conn = None /\ left = {}
    /\ pass' = FALSE /\ rcpts' = pending /\ pending' = {}
    /\ attempts' = IF pending = {} THEN attempts ELSE attempts + 1
    /\ over' = (pending = {} \/ attempts' > Delays)
    /\ verdict' = [r \in Rcpts |-> IF over' /\ r \in pending THEN "gave up" ELSE verdict[r]]
    /\ UNCHANGED <<message, server, left, conn, late, copies, lost, faults>>

-----------------------------------------------------------------------------
(* smtpd *)

Asked(cmd) == up /\ conn # None /\ conn.reply = 0 /\ Cmd = cmd

Reply(code) == conn' = [conn EXCEPT !.reply = code]

ServerOnly == UNCHANGED <<message, server, entry, late, lost>>

\* _localpart: an account of this onion, as far as the onion is known.  It reads
\* the account file every time.
IsLocal(r) == onion /\ r \in accounts

\* aiosmtpd: the greeting, handle_EHLO, and the go-ahead for the text
Greet ==
    /\ \/ Asked("connect") /\ Reply(220)
       \/ Asked("EHLO") /\ Reply(250)
       \/ Asked("DATA") /\ Reply(354)
    /\ ServerOnly /\ UNCHANGED <<copies, faults>>

\* handle_MAIL: "550 5.7.1 sender not allowed"
AnswerMail ==
    /\ Asked("MAIL")
    /\ conn' = [Asks(conn.rcpt, conn.i, allowed) EXCEPT !.reply = IF allowed THEN 250 ELSE 550]
    /\ ServerOnly /\ UNCHANGED <<copies, faults>>

\* handle_RCPT: 550 for what is not local; 452 is beyond one recipient
AnswerRcpt ==
    /\ Asked("RCPT")
    /\ Reply(IF ~conn.mail THEN 503 ELSE IF IsLocal(conn.rcpt) THEN 250 ELSE 550)
    /\ ServerOnly /\ UNCHANGED <<copies, faults>>

\* handle_DATA: too large
TooLarge ==
    /\ Asked("text") /\ ~fits
    /\ Reply(552)
    /\ ServerOnly /\ UNCHANGED <<copies, faults>>

\* One more in the Maildir of r, if r is local still: "if lp is None: continue"
StoredFor(r) == IF IsLocal(r) THEN [copies EXCEPT ![r] = @ + 1] ELSE copies

\* slip: the message is in the Maildir before its size is looked at
StoreWhatever ==
    /\ Asked("text")
    /\ copies' = StoredFor(conn.rcpt)
    /\ Reply(IF fits THEN 250 ELSE 552)
    /\ ServerOnly /\ UNCHANGED faults

\* handle_DATA: "250", and the message is in the Maildir unless the account that
\* RCPT found is gone
Store ==
    /\ Asked("text") /\ fits
    /\ copies' = StoredFor(conn.rcpt)
    /\ Reply(250)
    /\ ServerOnly /\ UNCHANGED faults

\* handle_DATA: "451 4.3.0 temporary local error, try again later"
StoreFails ==
    /\ Asked("text") /\ fits /\ Fails
    /\ Reply(451)
    /\ ServerOnly /\ UNCHANGED copies

\* handle_DATA for a sender that waits no more
StoreLate ==
    /\ up
    /\ \E r \in Rcpts :
         /\ late[r] > 0
         /\ late' = [late EXCEPT ![r] = @ - 1]
         /\ copies' = IF fits THEN StoredFor(r) ELSE copies
    /\ UNCHANGED <<message, server, entry, conn, lost, faults>>

\* smtpd ends in the middle of what it does: a sender that waits is cut off.
Kill ==
    /\ up /\ Fails
    /\ up' = FALSE
    /\ late' = [r \in Rcpts |-> 0]
    /\ IF conn = None
         THEN UNCHANGED <<entry, conn, lost>>
         ELSE /\ Conclude(conn.rcpt, "later")
              /\ lost' = [lost EXCEPT ![conn.rcpt] = @ + 1]
    /\ UNCHANGED <<message, members, tor, onion, copies>>

\* run: OnionHandler resolves the onion once
Start ==
    /\ ~up
    /\ up' = TRUE /\ onion' = (Configured \/ tor)
    /\ UNCHANGED <<message, members, tor, entry, conn, late, copies, lost, faults>>

TorUp ==
    /\ ~tor /\ tor' = TRUE
    /\ UNCHANGED <<message, members, up, onion, entry, conn, late, copies, lost, faults>>

\* smtpd has accepted r at RCPT and not yet been given, or done with, the text.
InTransaction(r) ==
    /\ conn # None /\ conn.rcpt = r
    /\ \/ conn.i = 4 /\ conn.reply = 250
       \/ conn.i = 5
       \/ conn.i = 6 /\ conn.reply = 0

\* Accounts.create, in apid or the command line
Register ==
    /\ \E r \in Rcpts \ accounts : accounts' = accounts \cup {r}
    /\ UNCHANGED <<message, tor, up, onion, leavers, entry, conn, late, copies, lost, faults>>

\* Accounts.delete, which an administrator calls; the Maildir stays.
RemoveAccount ==
    /\ \E r \in accounts \ Accounts :
         /\ accounts' = accounts \ {r}
         /\ leavers' = IF InTransaction(r) THEN leavers \cup {r} ELSE leavers
    /\ UNCHANGED <<message, tor, up, onion, entry, conn, late, copies, lost, faults>>

-----------------------------------------------------------------------------
SenderStep == StartPass \/ Connect \/ GoOn \/ Delivered \/ Refused \/ EndPass
ServerStep == Greet \/ AnswerMail \/ AnswerRcpt \/ TooLarge \/ Store \/ StoreLate

Next == \/ SenderStep \/ ServerStep \/ GiveUpWaiting \/ StoreFails \/ Kill \/ Start \/ TorUp
        \/ Register \/ RemoveAccount

Spec == Init /\ [][Next]_vars

\* sender.run's loop and aiosmtpd go on; systemd restarts; Tor comes up.
FairSpec == Spec /\ WF_vars(SenderStep) /\ WF_vars(ServerStep) /\ WF_vars(Start) /\ WF_vars(TorUp)

-----------------------------------------------------------------------------
Verdicts == {"none", "delivered", "refused", "later", "gave up"}

TypeOK ==
    /\ {allowed, fits, tor, up, onion, pass, over} \subseteq BOOLEAN
    /\ Accounts \subseteq accounts /\ accounts \subseteq Rcpts /\ leavers \subseteq Rcpts
    /\ rcpts \subseteq Rcpts /\ left \subseteq rcpts /\ pending \subseteq rcpts \ left
    /\ attempts \in 0..(Delays + 1)
    /\ verdict \in [Rcpts -> Verdicts]
    /\ conn = None \/ (conn \in Connection /\ conn.rcpt \in left)
    /\ {late, copies, lost} \subseteq [Rcpts -> Nat]
    /\ faults \in Nat

\* sender.py:76, smtpd.py:89, smtpd.py:101: what the sender files as delivered was
\* put into the recipient's Maildir, unless the account was removed after smtpd
\* had accepted it at RCPT and before it had the text; and what it files as
\* refused was not, unless the answer to an earlier attempt was lost.
VerdictIsTrue ==
    \A r \in Rcpts : /\ verdict[r] = "delivered" => copies[r] > 0 \/ r \in leavers
                     /\ verdict[r] = "refused" => copies[r] <= lost[r]

\* sender.py:109, "for rcpt in entry.rcpts": a recipient has more than one copy
\* only by answers that were lost, one for each, however often a message with
\* several recipients is tried again.
CopiesHaveCause == \A r \in Rcpts : copies[r] + late[r] <= lost[r] + 1

\* smtpd.py:27, "onion address unknown (Tor not up yet?); accepting by localpart
\* only": what an account is sent by somebody who may, and is not too large, is
\* not refused for good.
RefusedOnlyWithCause ==
    \A r \in Accounts : verdict[r] = "refused" => ~allowed \/ ~fits

\* sender.py:130: a message for an account is delivered although smtpd is killed,
\* its disk fails and answers are lost, as often as there are delays.
Arrives ==
    \A r \in Accounts : allowed /\ fits /\ MaxFaults < Delays => <>(verdict[r] = "delivered")
=============================================================================
