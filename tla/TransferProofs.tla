--------------------------- MODULE TransferProofs ---------------------------
(***************************************************************************)
(* What holds of a message on its way to another server, for any number of *)
(* recipients, retries, kills and answers lost, proved.                    *)
(***************************************************************************)
EXTENDS Transfer, TLAPS

\* An entry is worked on in a pass only, and in no pass after the last.
PassesInOrder ==
    /\ ~pass => left = {} /\ pending = {}
    /\ over => ~pass
    /\ ~over => attempts <= Delays

TypeInv == TypeOK /\ PassesInOrder

-----------------------------------------------------------------------------
(* Types *)

\* The end of one attempt keeps the types, whatever it says.
LEMMA ConcludeTypes ==
    ASSUME TypeInv, NEW r \in left, pass, NEW v \in Verdicts, Conclude(r, v)
    PROVE  /\ rcpts' \subseteq Rcpts /\ left' \subseteq rcpts' /\ pending' \subseteq rcpts' \ left'
           /\ verdict' \in [Rcpts -> Verdicts] /\ conn' = None
           /\ pass' = pass /\ over' = over /\ attempts' = attempts
  <1>1. /\ rcpts' = rcpts /\ left' = left \ {r} /\ pending' \in {pending, pending \cup {r}}
        /\ pass' = pass /\ over' = over /\ attempts' = attempts
    BY DEF Conclude
  <1>2. verdict' \in [Rcpts -> Verdicts]
    BY DEF Conclude, TypeInv, TypeOK
  <1> QED
    BY <1>1, <1>2 DEF Conclude, TypeInv, TypeOK

\* A connection is there in a pass only, for a recipient the pass has not done.
LEMMA ConnectionInPass ==
    ASSUME TypeInv, conn # None
    PROVE  conn \in Connection /\ conn.rcpt \in left /\ conn.rcpt \in Rcpts /\ pass /\ ~over
  BY DEF TypeInv, TypeOK, PassesInOrder

\* A reply, or the next command.
LEMMA SpeakTypes ==
    ASSUME TypeInv, conn # None, conn' \in Connection, conn'.rcpt = conn.rcpt,
           UNCHANGED <<message, server, entry, lost>>,
           late' \in [Rcpts -> Nat], copies' \in [Rcpts -> Nat], faults' \in Nat
    PROVE  TypeInv'
  BY ConnectionInPass DEF TypeInv, TypeOK, PassesInOrder, message, server, members, entry

\* A reply changes the reply only.
LEMMA ReplyTypes ==
    ASSUME TypeInv, conn # None, NEW code \in {220, 250, 354, 451, 503, 550, 552}, Reply(code)
    PROVE  /\ conn' \in Connection /\ conn'.rcpt = conn.rcpt /\ conn'.i = conn.i
           /\ conn'.reply = code /\ conn'.mail = conn.mail
  BY ConnectionInPass DEF Reply, Connection

\* A connection that asks is a connection.
LEMMA AsksTypes ==
    ASSUME NEW r \in Rcpts, NEW i \in 1..6, NEW m \in BOOLEAN
    PROVE  /\ Asks(r, i, m) \in Connection /\ Asks(r, i, m) # None
           /\ Asks(r, i, m).rcpt = r /\ Asks(r, i, m).i = i
           /\ Asks(r, i, m).reply = 0 /\ Asks(r, i, m).mail = m
  <1>1. Asks(r, i, m) \in Connection
    BY DEF Asks, Connection
  <1> QED
    BY <1>1, TransferAssumption DEF Asks

\* The text of the message is the last command of the dialogue.
LEMMA TextIsLast ==
    ASSUME TypeInv, conn # None
    PROVE  (Cmd = "text") <=> (conn.i = 6)
  <1>1. conn.i \in 1..6
    BY ConnectionInPass DEF Connection
  <1> QED
    BY <1>1 DEF Cmd, Commands

\* Any other command has one after it.
LEMMA OnlyTextIsLast ==
    ASSUME TypeInv, conn # None, Cmd # "text"
    PROVE  conn.i \in 1..5
  BY TextIsLast, ConnectionInPass DEF Connection

\* Every step keeps the types.
LEMMA TypeStep ==
    ASSUME TypeInv, [Next]_vars
    PROVE  TypeInv'
  <1> USE TransferAssumption
  <1>1. CASE StartPass
    BY <1>1, ConnectionInPass DEF StartPass, TypeInv, TypeOK, PassesInOrder, message, server, members
  <1>2. CASE Connect
    <2>1. PICK r \in left : IF tor /\ up THEN conn' = Asks(r, 1, FALSE) /\ UNCHANGED entry
                                         ELSE Conclude(r, "later")
      BY <1>2 DEF Connect
    <2>2. pass /\ ~over /\ r \in Rcpts
      BY DEF TypeInv, TypeOK, PassesInOrder
    <2>3. UNCHANGED <<message, server, late, copies, lost, faults>>
      BY <1>2 DEF Connect
    <2>4. CASE tor /\ up
      <3>1. conn' \in Connection /\ conn'.rcpt \in left /\ UNCHANGED entry
        <4>1. conn' = Asks(r, 1, FALSE) /\ UNCHANGED entry
          BY <2>1, <2>4
        <4>2. 1 \in 1..6 /\ FALSE \in BOOLEAN
          OBVIOUS
        <4> QED
          BY <2>2, <4>1, <4>2, AsksTypes
      <3> QED
        BY <2>3, <3>1 DEF TypeInv, TypeOK, PassesInOrder, message, server, members, entry
    <2>5. CASE ~(tor /\ up)
      <3>1. Conclude(r, "later") /\ "later" \in Verdicts
        BY <2>1, <2>5 DEF Verdicts
      <3> QED
        BY <2>2, <2>3, <3>1, ConcludeTypes
        DEF TypeInv, TypeOK, PassesInOrder, message, server, members
    <2> QED
      BY <2>4, <2>5
  <1>3. CASE GoOn
    <2>1. conn.i + 1 \in 1..6 /\ conn.mail \in BOOLEAN /\ conn.rcpt \in Rcpts
      BY <1>3, OnlyTextIsLast, ConnectionInPass DEF GoOn, Replied, Connection
    <2>2. conn' \in Connection /\ conn'.rcpt = conn.rcpt
      BY <1>3, <2>1, AsksTypes DEF GoOn
    <2> QED
      BY <1>3, <2>2, SpeakTypes DEF GoOn, Replied, TypeInv, TypeOK
  <1>4. CASE Delivered
    <2>1. conn # None /\ Conclude(conn.rcpt, "delivered") /\ "delivered" \in Verdicts
      BY <1>4 DEF Delivered, Replied, Verdicts
    <2>2. UNCHANGED <<message, server, late, copies, lost, faults>>
      BY <1>4 DEF Delivered
    <2> QED
      BY <2>1, <2>2, ConnectionInPass, ConcludeTypes
      DEF TypeInv, TypeOK, PassesInOrder, message, server, members
  <1>5. CASE Refused
    <2>1. PICK v \in Verdicts : Conclude(conn.rcpt, v)
      BY <1>5 DEF Refused, Verdicts
    <2>2. UNCHANGED <<message, server, late, copies, lost, faults>> /\ conn # None
      BY <1>5 DEF Refused, Replied
    <2> QED
      BY <2>1, <2>2, ConnectionInPass, ConcludeTypes
      DEF TypeInv, TypeOK, PassesInOrder, message, server, members
  <1>6. CASE GiveUpWaiting
    <2>1. conn # None /\ Conclude(conn.rcpt, "later") /\ "later" \in Verdicts
      BY <1>6 DEF GiveUpWaiting, Verdicts
    <2>2. UNCHANGED <<message, server, copies>> /\ faults' \in Nat
      BY <1>6 DEF GiveUpWaiting, Fails, TypeInv, TypeOK
    <2>3. lost' \in [Rcpts -> Nat] /\ late' \in [Rcpts -> Nat]
      BY <1>6 DEF GiveUpWaiting, TypeInv, TypeOK
    <2> QED
      BY <2>1, <2>2, <2>3, ConnectionInPass, ConcludeTypes
      DEF TypeInv, TypeOK, PassesInOrder, message, server, members
  <1>7. CASE EndPass
    <2>1. attempts \in Nat /\ attempts <= Delays
      <3>1. pass /\ ~over
        BY <1>7 DEF EndPass, TypeInv, PassesInOrder
      <3>2. attempts <= Delays
        BY <3>1 DEF TypeInv, PassesInOrder
      <3>3. attempts \in 0..(Delays + 1)
        BY DEF TypeInv, TypeOK
      <3> QED
        BY <3>2, <3>3
    <2>a. attempts' \in 0..(Delays + 1) /\ (~over' => attempts' <= Delays)
      <3>1. attempts' \in {attempts, attempts + 1} /\ (~over' => attempts' <= Delays)
        <4>1. CASE pending = {}
          BY <1>7, <4>1 DEF EndPass
        <4>2. CASE pending # {} /\ attempts + 1 > Delays
          BY <1>7, <2>1, <4>2 DEF EndPass
        <4>3. CASE pending # {} /\ ~(attempts + 1 > Delays)
          <5>1. attempts' = attempts + 1
            BY <1>7, <4>3 DEF EndPass
          <5> QED
            BY <2>1, <4>3, <5>1
        <4> QED
          BY <4>1, <4>2, <4>3
      <3> QED
        BY <2>1, <3>1
    <2>b. over' \in BOOLEAN
      BY <1>7 DEF EndPass
    <2>2. verdict' \in [Rcpts -> Verdicts]
      BY <1>7 DEF EndPass, TypeInv, TypeOK, Verdicts
    <2>3. /\ rcpts' = pending /\ pending' = {} /\ left' = {} /\ conn' = None /\ ~pass'
          /\ pass' \in BOOLEAN
          /\ UNCHANGED <<message, server, late, copies, lost, faults>>
      BY <1>7 DEF EndPass
    <2> QED
      BY <2>1, <2>a, <2>b, <2>2, <2>3 DEF TypeInv, TypeOK, PassesInOrder, message, server, members
  <1>8. CASE Greet \/ AnswerMail \/ AnswerRcpt \/ TooLarge \/ Store \/ StoreFails
    <2>1. conn # None
      BY <1>8 DEF Greet, AnswerMail, AnswerRcpt, TooLarge, Store, StoreFails, Asked
    <2>2. conn \in Connection
      BY <2>1, ConnectionInPass
    <2>3. conn' \in Connection /\ conn'.rcpt = conn.rcpt
      <3>1. CASE AnswerMail
        <4>1. allowed \in BOOLEAN
          BY DEF TypeInv, TypeOK
        <4>2. PICK code \in {250, 550} :
                 conn' = [Asks(conn.rcpt, conn.i, allowed) EXCEPT !.reply = code]
          BY <3>1 DEF AnswerMail
        <4> QED
          BY <2>2, <4>1, <4>2 DEF Connection, Asks
      <3>2. CASE Greet
        BY <2>1, <3>2, ReplyTypes DEF Greet
      <3>3. CASE AnswerRcpt
        BY <2>1, <3>3, ReplyTypes DEF AnswerRcpt
      <3>4. CASE TooLarge \/ Store \/ StoreFails
        BY <2>1, <3>4, ReplyTypes DEF TooLarge, Store, StoreFails
      <3> QED
        BY <1>8, <3>1, <3>2, <3>3, <3>4
    <2>4. UNCHANGED <<message, server, entry, late, lost>>
      BY <1>8 DEF Greet, AnswerMail, AnswerRcpt, TooLarge, Store, StoreFails, ServerOnly
    <2>5. copies' \in [Rcpts -> Nat] /\ faults' \in Nat
      BY <1>8 DEF Greet, AnswerMail, AnswerRcpt, TooLarge, Store, StoredFor, StoreFails,
                  Fails, TypeInv, TypeOK
    <2> QED
      BY <2>1, <2>3, <2>4, <2>5, SpeakTypes DEF TypeInv, TypeOK
  <1>9. CASE StoreLate
    <2>1. late' \in [Rcpts -> Nat] /\ copies' \in [Rcpts -> Nat]
      BY <1>9 DEF StoreLate, StoredFor, TypeInv, TypeOK
    <2>2. UNCHANGED <<message, server, entry, conn, lost, faults>>
      BY <1>9 DEF StoreLate
    <2> QED
      BY <2>1, <2>2 DEF TypeInv, TypeOK, PassesInOrder, message, server, members, entry
  <1>10. CASE Kill
    <2>1. /\ late' \in [Rcpts -> Nat] /\ up' = FALSE
          /\ UNCHANGED <<message, members, tor, onion, copies>>
      BY <1>10 DEF Kill
    <2>a. faults' \in Nat
      BY <1>10 DEF Kill, Fails, TypeInv, TypeOK
    <2>2. CASE conn = None
      BY <1>10, <2>1, <2>a, <2>2 DEF Kill, TypeInv, TypeOK, PassesInOrder, message, members, entry
    <2>3. CASE conn # None
      <3>1. Conclude(conn.rcpt, "later") /\ "later" \in Verdicts
        BY <1>10, <2>3 DEF Kill, Verdicts
      <3>2. lost' \in [Rcpts -> Nat]
        BY <1>10, <2>3 DEF Kill, TypeInv, TypeOK
      <3> QED
        BY <2>1, <2>a, <2>3, <3>1, <3>2, ConnectionInPass, ConcludeTypes
        DEF TypeInv, TypeOK, PassesInOrder, message, members
    <2> QED
      BY <2>2, <2>3
  <1>11. CASE Start
    BY <1>11 DEF Start, TypeInv, TypeOK, PassesInOrder, message, members, entry
  <1>12. CASE TorUp
    BY <1>12 DEF TorUp, TypeInv, TypeOK, PassesInOrder, message, members, entry
  <1>13. CASE Register \/ RemoveAccount
    <2>1. /\ Accounts \subseteq accounts' /\ accounts' \subseteq Rcpts
          /\ leavers' \subseteq Rcpts
      <3>1. CASE Register
        BY <3>1 DEF Register, TypeInv, TypeOK
      <3>2. CASE RemoveAccount
        BY <3>2 DEF RemoveAccount, TypeInv, TypeOK
      <3> QED
        BY <1>13, <3>1, <3>2
    <2>2. UNCHANGED <<message, tor, up, onion, entry, conn, late, copies, lost, faults>>
      BY <1>13 DEF Register, RemoveAccount
    <2> QED
      BY <2>1, <2>2 DEF TypeInv, TypeOK, PassesInOrder, message, entry
  <1>14. CASE UNCHANGED vars
    BY <1>14 DEF vars, message, server, members, entry, TypeInv, TypeOK, PassesInOrder
  <1> QED
    BY <1>1, <1>2, <1>3, <1>4, <1>5, <1>6, <1>7, <1>8, <1>9, <1>10, <1>11, <1>12, <1>13,
       <1>14
    DEF Next, SenderStep, ServerStep

\* The types, at the start.
LEMMA TypeInit ==
    ASSUME Init
    PROVE  TypeInv
  <1>1. {allowed, fits, tor, up, onion, pass, over} \subseteq BOOLEAN
    BY TransferAssumption DEF Init
  <1>2. verdict \in [Rcpts -> Verdicts] /\ attempts \in 0..(Delays + 1) /\ attempts <= Delays
    BY TransferAssumption DEF Init, Verdicts
  <1>3. {late, copies, lost} \subseteq [Rcpts -> Nat] /\ faults \in Nat
    BY DEF Init
  <1> QED
    BY <1>1, <1>2, <1>3, TransferAssumption DEF Init, TypeInv, TypeOK, PassesInOrder

\* Types and the order of the passes, for any recipients, delays and faults.
THEOREM TypeCorrect == Spec => []TypeOK
<1>1. TypeInv /\ [Next]_vars => TypeInv'
  BY TypeStep
<1>2. TypeInv => TypeOK
  BY DEF TypeInv
<1>3. Init => TypeInv
  BY TypeInit
<1> QED
  BY <1>1, <1>2, <1>3, PTL DEF Spec

-----------------------------------------------------------------------------
(* Copies and verdicts *)

\* The text for r was stored and the sender has not read the answer.
Stored(r) == conn # None /\ conn.rcpt = r /\ conn.i = 6 /\ conn.reply = 250

\* Nobody will send to r any more, for all the entry or the pass knows.
Done(r) == r \notin rcpts \/ (pass /\ r \notin left \cup pending)

\* The account of one recipient: a copy more than lost answers only by an answer
\* that is there or was read; a recipient that refused is done.
InOrder(r) ==
    /\ copies[r] + late[r] <= lost[r] + 1
    /\ ~Done(r) /\ ~Stored(r) => copies[r] + late[r] <= lost[r]
    /\ Stored(r) \/ verdict[r] = "delivered" => copies[r] > 0 \/ r \in leavers
    /\ verdict[r] = "refused" => Done(r) /\ copies[r] + late[r] <= lost[r]

\* Whom smtpd has accepted has an account still, or lost it since; and smtpd
\* knows its onion, now and after any restart.
Admitted(r) == InTransaction(r) => onion /\ r \in accounts \cup leavers

OnionStays == onion => Configured \/ tor

CopyInv == TypeInv /\ OnionStays /\ \A r \in Rcpts : InOrder(r) /\ Admitted(r)

\* Copies, late answers and lost answers are numbers.
LEMMA Counts ==
    ASSUME TypeInv, NEW r \in Rcpts
    PROVE  copies[r] \in Nat /\ late[r] \in Nat /\ lost[r] \in Nat
  BY DEF TypeInv, TypeOK

\* Whom the connection is for is not done, and stored is at most once.
LEMMA NotDone ==
    ASSUME TypeInv, NEW r \in left
    PROVE  r \in Rcpts /\ r \in rcpts /\ r \notin pending /\ pass /\ ~Done(r)
  BY DEF TypeInv, TypeOK, PassesInOrder, Done

\* The end of one recipient's turn leaves the verdicts of the others alone.
LEMMA ConcludeEffect ==
    ASSUME TypeInv, NEW r \in left, NEW v \in Verdicts, Conclude(r, v), NEW q \in Rcpts
    PROVE  /\ ~Stored(q)'
           /\ q # r => (Done(q)' <=> Done(q)) /\ verdict'[q] = verdict[q]
           /\ verdict'[r] = v /\ (Done(r)' <=> v # "later")
  <1>1. /\ rcpts' = rcpts /\ pass' = pass /\ left' = left \ {r} /\ conn' = None
        /\ pending' = IF v = "later" THEN pending \cup {r} ELSE pending
        /\ verdict' = [verdict EXCEPT ![r] = v]
    BY DEF Conclude
  <1>2. verdict \in [Rcpts -> Verdicts] /\ r \in Rcpts
    BY NotDone DEF TypeInv, TypeOK
  <1>3. pass /\ r \in rcpts /\ r \notin pending
    BY NotDone
  <1> QED
    BY <1>1, <1>2, <1>3 DEF Stored, Done

\* An attempt that ends otherwise than by the answer 250 to the text, or by
\* reading it.
LEMMA ConcludeInOrder ==
    ASSUME CopyInv, NEW r \in left, NEW v \in Verdicts, Conclude(r, v),
           \A q \in Rcpts : Stored(q) => q = r,
           v = "delivered" => Stored(r), v = "refused" => ~Stored(r),
           NEW q \in Rcpts,
           copies'[q] = copies[q], late'[q] \in Nat, lost'[q] \in Nat,
           lost'[q] >= lost[q],
           late'[q] - lost'[q] <= late[q] - lost[q],
           v = "later" /\ Stored(r) /\ q = r => late'[q] <= late[q] /\ lost'[q] > lost[q],
           leavers \subseteq leavers'
    PROVE  InOrder(q)'
  <1>1. InOrder(q) /\ TypeInv
    BY DEF CopyInv
  <1>2. copies[q] \in Nat /\ late[q] \in Nat /\ lost[q] \in Nat
    BY <1>1, Counts
  <1>3. copies'[q] + late'[q] - lost'[q] <= copies[q] + late[q] - lost[q]
    BY <1>2
  <1>4. CASE q # r
    <2>1. /\ ~Stored(q)' /\ ~Stored(q) /\ (Done(q)' <=> Done(q)) /\ verdict'[q] = verdict[q]
      BY <1>1, <1>4, ConcludeEffect
    <2> QED
      BY <1>1, <1>2, <1>3, <2>1 DEF InOrder
  <1>5. CASE q = r
    <2>1. ~Stored(q)' /\ verdict'[q] = v /\ (Done(q)' <=> v # "later") /\ ~Done(q)
      BY <1>1, <1>5, ConcludeEffect, NotDone
    <2>2. CASE v = "later"
      BY <1>1, <1>2, <1>3, <1>5, <2>1, <2>2 DEF InOrder
    <2>3. CASE v # "later"
      BY <1>1, <1>2, <1>3, <1>5, <2>1, <2>3 DEF InOrder
    <2> QED
      BY <2>2, <2>3
  <1> QED
    BY <1>4, <1>5

\* What leaves the books alone.
LEMMA SameInOrder ==
    ASSUME CopyInv, NEW r \in Rcpts,
           UNCHANGED entry, copies'[r] = copies[r], late'[r] = late[r], lost'[r] = lost[r],
           Stored(r)' <=> Stored(r), leavers \subseteq leavers'
    PROVE  InOrder(r)'
  BY DEF CopyInv, InOrder, Done, entry

\* Who once lost an account in the middle of a transaction is remembered.
LEMMA LeaversStay ==
    ASSUME [Next]_vars
    PROVE  leavers \subseteq leavers'
  BY DEF Next, SenderStep, ServerStep, StartPass, Connect, GoOn, Delivered, Refused,
     EndPass, Greet, AnswerMail, AnswerRcpt, TooLarge, Store, StoreLate, GiveUpWaiting,
     StoreFails, Kill, Start, TorUp, Register, RemoveAccount, ServerOnly, vars, server,
     members

\* Every step keeps a recipient's copies, answers and verdict in order.
LEMMA CopyStep ==
    ASSUME CopyInv, [Next]_vars, NEW r \in Rcpts
    PROVE  InOrder(r)'
  <1>a. TypeInv /\ InOrder(r)
    BY DEF CopyInv
  <1>b. copies[r] \in Nat /\ late[r] \in Nat /\ lost[r] \in Nat
    BY <1>a, Counts
  <1>c. \A q \in Rcpts : Stored(q) => conn # None /\ q = conn.rcpt
    BY DEF Stored
  <1>d. leavers \subseteq leavers'
    BY LeaversStay
  <1>1. CASE StartPass
    <2>1. conn = None
      BY <1>a, <1>1, ConnectionInPass DEF StartPass
    <2>2. /\ ~pass /\ pass' /\ left' = rcpts /\ rcpts' = rcpts /\ verdict' = verdict
          /\ UNCHANGED <<conn, late, copies, lost>> /\ rcpts \subseteq Rcpts
      BY <1>1, <1>a DEF StartPass, TypeInv, TypeOK
    <2>3. ~Stored(r) /\ ~Stored(r)' /\ (Done(r)' => Done(r)) /\ (Done(r) <=> r \notin rcpts)
      BY <2>1, <2>2 DEF Stored, Done
    <2>4. Done(r) => Done(r)'
      BY <1>1, <1>a, <2>2, <2>3 DEF Done, StartPass, TypeInv, PassesInOrder
    <2> QED
      BY <1>a, <1>d, <2>2, <2>3, <2>4 DEF InOrder
  <1>2. CASE Connect
    <2>1. PICK q \in left : IF tor /\ up THEN conn' = Asks(q, 1, FALSE) /\ UNCHANGED entry
                                         ELSE Conclude(q, "later")
      BY <1>2 DEF Connect
    <2>2. UNCHANGED <<late, copies, lost>> /\ conn = None /\ ~Stored(r)
      BY <1>2 DEF Connect, Stored
    <2>3. CASE tor /\ up
      BY <2>1, <2>2, <2>3, <1>d, SameInOrder DEF Stored, Asks
    <2>4. CASE ~(tor /\ up)
      <3>1. Conclude(q, "later") /\ "later" \in Verdicts
        BY <2>1, <2>4 DEF Verdicts
      <3> QED
        BY <1>b, <1>c, <2>2, <3>1, <1>d, ConcludeInOrder
    <2> QED
      BY <2>3, <2>4
  <1>3. CASE GoOn
    <2>1. conn.i # 6
      BY <1>3, <1>a, TextIsLast DEF GoOn, Replied
    <2>2. ~Stored(r) /\ ~Stored(r)'
      BY <1>3, <2>1 DEF GoOn, Stored, Asks
    <2> QED
      BY <1>3, <2>2, <1>d, SameInOrder DEF GoOn
  <1>4. CASE Delivered
    <2>1. conn # None /\ conn.rcpt \in left
      BY <1>4, <1>a, ConnectionInPass DEF Delivered, Replied
    <2>2. conn.i = 6 /\ conn.reply = 250
      BY <1>4, <1>a, TextIsLast DEF Delivered, Replied, Wanted
    <2>3. Stored(conn.rcpt)
      BY <2>1, <2>2 DEF Stored
    <2>4. Conclude(conn.rcpt, "delivered") /\ "delivered" \in Verdicts
      BY <1>4 DEF Delivered, Verdicts
    <2>5. UNCHANGED <<late, copies, lost>>
      BY <1>4 DEF Delivered
    <2> QED
      BY <1>b, <1>c, <2>1, <2>3, <2>4, <2>5, <1>d, ConcludeInOrder
  <1>5. CASE Refused
    <2>1. conn # None /\ conn.rcpt \in left
      BY <1>5, <1>a, ConnectionInPass DEF Refused, Replied
    <2>2. ~Stored(conn.rcpt)
      BY <1>5, <1>a, TextIsLast DEF Refused, Replied, Wanted, Stored
    <2>3. PICK v \in {"refused", "later"} : Conclude(conn.rcpt, v)
      BY <1>5 DEF Refused
    <2>4. v \in Verdicts /\ v # "delivered"
      BY DEF Verdicts
    <2>5. UNCHANGED <<late, copies, lost>>
      BY <1>5 DEF Refused
    <2> QED
      BY <1>b, <1>c, <2>1, <2>2, <2>3, <2>4, <2>5, <1>d, ConcludeInOrder
  <1>6. CASE GiveUpWaiting
    <2>1. conn # None /\ conn.rcpt \in left /\ conn.rcpt \in Rcpts
      BY <1>6, <1>a, ConnectionInPass DEF GiveUpWaiting
    <2>2. Conclude(conn.rcpt, "later") /\ "later" \in Verdicts
      BY <1>6 DEF GiveUpWaiting, Verdicts
    <2>3. copies' = copies /\ lost' = [lost EXCEPT ![conn.rcpt] = @ + 1]
      BY <1>6 DEF GiveUpWaiting
    <2>4. \/ late' = late
          \/ conn.reply = 0 /\ late' = [late EXCEPT ![conn.rcpt] = @ + 1]
      BY <1>6 DEF GiveUpWaiting
    <2>5. lost \in [Rcpts -> Nat] /\ late \in [Rcpts -> Nat]
      BY <1>a DEF TypeInv, TypeOK
    <2>6. Stored(conn.rcpt) => conn.reply # 0
      BY DEF Stored
    <2> QED
      BY <1>b, <1>c, <2>1, <2>2, <2>3, <2>4, <2>5, <2>6, <1>d, ConcludeInOrder
  <1>7. CASE EndPass
    <2>1. /\ pass /\ conn = None /\ left = {} /\ conn' = None /\ ~pass' /\ rcpts' = pending
          /\ UNCHANGED <<late, copies, lost>>
      BY <1>7 DEF EndPass
    <2>2. verdict'[r] = verdict[r] \/ (verdict'[r] = "gave up" /\ r \in pending)
      BY <1>7 DEF EndPass
    <2>3. ~Stored(r) /\ ~Stored(r)' /\ (Done(r)' <=> r \notin pending)
      BY <2>1 DEF Stored, Done
    <2>4. Done(r) <=> r \notin pending
      BY <1>a, <2>1 DEF Done, TypeInv, TypeOK
    <2> QED
      BY <1>a, <1>d, <1>b, <2>1, <2>2, <2>3, <2>4 DEF InOrder
  <1>8. CASE Greet \/ AnswerMail \/ AnswerRcpt \/ TooLarge \/ StoreFails
    <2>1. conn # None /\ conn \in Connection /\ conn.reply = 0
      BY <1>8, <1>a, ConnectionInPass
      DEF Greet, AnswerMail, AnswerRcpt, TooLarge, StoreFails, Asked
    <2>2. ~Stored(r)
      BY <2>1 DEF Stored
    <2>3. ~Stored(r)'
      <3>1. CASE TooLarge \/ StoreFails
        BY <1>a, <2>1, <3>1, ReplyTypes DEF TooLarge, StoreFails, Stored
      <3>2. CASE Greet \/ AnswerRcpt
        <4>1. Cmd # "text"
          BY <3>2 DEF Greet, AnswerRcpt, Asked
        <4>2. conn.i # 6
          BY <1>a, <2>1, <4>1, TextIsLast
        <4>3. conn'.i = conn.i
          BY <1>a, <2>1, <3>2, ReplyTypes DEF Greet, AnswerRcpt
        <4> QED
          BY <4>2, <4>3 DEF Stored
      <3>3. CASE AnswerMail
        <4>1. Cmd # "text"
          BY <3>3 DEF AnswerMail, Asked
        <4>2. conn.i # 6
          BY <1>a, <2>1, <4>1, TextIsLast
        <4>3. conn'.i = conn.i
          BY <3>3 DEF AnswerMail, Asks
        <4> QED
          BY <4>2, <4>3 DEF Stored
      <3> QED
        BY <1>8, <3>1, <3>2, <3>3
    <2>4. UNCHANGED <<entry, late, lost, copies>>
      BY <1>8 DEF Greet, AnswerMail, AnswerRcpt, TooLarge, StoreFails, ServerOnly
    <2> QED
      BY <2>2, <2>3, <2>4, <1>d, SameInOrder
  <1>9. CASE Store
    <2>1. conn # None /\ conn.reply = 0 /\ Cmd = "text"
      BY <1>9 DEF Store, Asked
    <2>2. conn \in Connection /\ conn.rcpt \in left /\ conn.i = 6
      BY <1>a, <2>1, ConnectionInPass, TextIsLast
    <2>3. conn' # None /\ conn'.rcpt = conn.rcpt /\ conn'.i = 6 /\ conn'.reply = 250
      BY <1>9, <1>a, <2>1, <2>2, ReplyTypes, TransferAssumption DEF Store
    <2>4. UNCHANGED <<entry, late, lost>> /\ copies' = StoredFor(conn.rcpt)
      BY <1>9 DEF Store, ServerOnly
    <2>5. ~Stored(r) /\ (Stored(r)' <=> r = conn.rcpt) /\ (Done(r)' <=> Done(r))
      BY <2>1, <2>3, <2>4 DEF Stored, Done, entry
    <2>6. copies \in [Rcpts -> Nat] /\ verdict' = verdict
      BY <1>a, <2>4 DEF TypeInv, TypeOK, entry
    <2>7. CASE r = conn.rcpt
      <3>1. ~Done(r)
        BY <1>a, <2>2, <2>7, NotDone
      <3>2. InTransaction(r)
        BY <2>1, <2>2, <2>7 DEF InTransaction
      <3>3. \/ copies'[r] = copies[r] + 1
            \/ copies'[r] = copies[r] /\ r \in leavers
        <4>1. onion /\ r \in accounts \cup leavers
          BY <3>2 DEF CopyInv, Admitted
        <4> QED
          BY <2>4, <2>6, <2>7, <4>1 DEF StoredFor, IsLocal
      <3> QED
        BY <1>a, <1>d, <1>b, <2>4, <2>5, <2>6, <2>7, <3>1, <3>3 DEF InOrder
    <2>8. CASE r # conn.rcpt
      <3>1. copies'[r] = copies[r]
        BY <2>4, <2>6, <2>8 DEF StoredFor
      <3> QED
        BY <2>4, <2>5, <2>8, <3>1, <1>d, SameInOrder
    <2> QED
      BY <2>7, <2>8
  <1>10. CASE StoreLate
    <2>1. PICK q \in Rcpts :
             /\ late[q] > 0 /\ late' = [late EXCEPT ![q] = @ - 1]
             /\ copies' = IF fits THEN StoredFor(q) ELSE copies
      BY <1>10 DEF StoreLate
    <2>2. UNCHANGED <<entry, conn, lost>>
      BY <1>10 DEF StoreLate
    <2>3. copies \in [Rcpts -> Nat] /\ late \in [Rcpts -> Nat]
      BY <1>a DEF TypeInv, TypeOK
    <2>4. copies'[r] + late'[r] <= copies[r] + late[r] /\ copies'[r] >= copies[r]
      BY <1>b, <2>1, <2>3 DEF StoredFor
    <2>5. late'[r] \in Nat /\ copies'[r] \in Nat
      BY <1>b, <2>1, <2>3 DEF StoredFor
    <2>6. (Stored(r)' <=> Stored(r)) /\ (Done(r)' <=> Done(r)) /\ verdict' = verdict
      BY <2>2 DEF Stored, Done, entry
    <2> QED
      BY <1>a, <1>d, <1>b, <2>2, <2>4, <2>5, <2>6 DEF InOrder
  <1>11. CASE Kill
    <2>1. late' = [q \in Rcpts |-> 0] /\ copies' = copies
      BY <1>11 DEF Kill
    <2>2. late'[r] = 0
      BY <2>1
    <2>3. CASE conn = None
      <3>1. UNCHANGED <<entry, conn, lost>>
        BY <1>11, <2>3 DEF Kill
      <3>2. (Stored(r)' <=> Stored(r)) /\ (Done(r)' <=> Done(r)) /\ verdict' = verdict
        BY <3>1 DEF Stored, Done, entry
      <3> QED
        BY <1>a, <1>d, <1>b, <2>1, <2>2, <3>1, <3>2 DEF InOrder
    <2>4. CASE conn # None
      <3>1. Conclude(conn.rcpt, "later") /\ "later" \in Verdicts
        BY <1>11, <2>4 DEF Kill, Verdicts
      <3>2. lost' = [lost EXCEPT ![conn.rcpt] = @ + 1]
        BY <1>11, <2>4 DEF Kill
      <3>3. conn.rcpt \in left /\ conn.rcpt \in Rcpts /\ lost \in [Rcpts -> Nat]
        BY <1>a, <2>4, ConnectionInPass DEF TypeInv, TypeOK
      <3> QED
        BY <1>b, <1>c, <2>1, <2>2, <3>1, <3>2, <3>3, <1>d, ConcludeInOrder
    <2> QED
      BY <2>3, <2>4
  <1>12. CASE Start \/ TorUp \/ Register \/ RemoveAccount \/ UNCHANGED vars
    <2>1. UNCHANGED <<entry, conn, late, copies, lost>>
      BY <1>12 DEF Start, TorUp, Register, RemoveAccount, vars
    <2> QED
      BY <2>1, <1>d, SameInOrder DEF Stored
  <1> QED
    BY <1>1, <1>2, <1>3, <1>4, <1>5, <1>6, <1>7, <1>8, <1>9, <1>10, <1>11, <1>12
    DEF Next, SenderStep, ServerStep

\* Only the answer to RCPT admits a recipient, and an account is removed under
\* the eyes of the history.
LEMMA AdmittedStep ==
    ASSUME CopyInv, [Next]_vars
    PROVE  OnionStays' /\ \A r \in Rcpts : Admitted(r)'
  <1>a. TypeInv /\ OnionStays
    BY DEF CopyInv
  <1>b. leavers \subseteq leavers'
    BY LeaversStay
  <1>c. OnionStays' /\ (onion => onion')
    <2>1. CASE Start
      BY <1>a, <2>1 DEF Start, OnionStays
    <2>2. CASE TorUp
      BY <2>2 DEF TorUp, OnionStays
    <2>3. CASE ~Start /\ ~TorUp
      <3>1. UNCHANGED <<tor, onion>>
        BY <2>3 DEF Next, SenderStep, ServerStep, StartPass, Connect, GoOn, Delivered,
           Refused, EndPass, Greet, AnswerMail, AnswerRcpt, TooLarge, Store, StoreLate,
           GiveUpWaiting, StoreFails, Kill, Register, RemoveAccount, ServerOnly, vars, server
      <3> QED
        BY <1>a, <3>1 DEF OnionStays
    <2> QED
      BY <2>1, <2>2, <2>3
  <1> SUFFICES ASSUME NEW r \in Rcpts, InTransaction(r)'
               PROVE  (onion /\ r \in accounts \cup leavers)'
    BY <1>c DEF Admitted
  <1>d. ASSUME InTransaction(r), accounts \ leavers' \subseteq accounts'
        PROVE  (onion /\ r \in accounts \cup leavers)'
    BY <1>b, <1>c, <1>d DEF CopyInv, Admitted
  <1>1. CASE StartPass \/ StoreLate \/ Start \/ TorUp \/ Register \/ UNCHANGED vars
    <2>1. conn' = conn /\ accounts \subseteq accounts'
      BY <1>1 DEF StartPass, StoreLate, Start, TorUp, Register, vars, server, members
    <2> QED
      BY <1>d, <2>1 DEF InTransaction
  <1>2. CASE RemoveAccount
    <2>1. PICK q \in accounts \ Accounts :
             /\ accounts' = accounts \ {q}
             /\ leavers' = IF InTransaction(q) THEN leavers \cup {q} ELSE leavers
      BY <1>2 DEF RemoveAccount
    <2>2. InTransaction(r)
      BY <1>2 DEF RemoveAccount, InTransaction
    <2>3. onion /\ r \in accounts \cup leavers
      BY <2>2 DEF CopyInv, Admitted
    <2> QED
      BY <1>c, <2>1, <2>2, <2>3
  <1>3. CASE Connect \/ Delivered \/ Refused \/ GiveUpWaiting \/ EndPass
    <2>1. conn' = None \/ \E q \in left : conn' = Asks(q, 1, FALSE)
      BY <1>3 DEF Connect, Delivered, Refused, GiveUpWaiting, EndPass, Conclude
    <2> QED
      BY <2>1 DEF InTransaction, Asks
  <1>4. CASE Kill
    <2>1. CASE conn = None
      BY <1>4, <2>1 DEF Kill, InTransaction
    <2>2. CASE conn # None
      BY <1>4, <2>2 DEF Kill, Conclude, InTransaction
    <2> QED
      BY <2>1, <2>2
  <1>5. CASE GoOn
    <2>1. conn # None /\ conn.reply \in Wanted /\ Cmd # "text"
      BY <1>5 DEF GoOn, Replied
    <2>2. conn' = Asks(conn.rcpt, conn.i + 1, conn.mail) /\ accounts' = accounts
      BY <1>5 DEF GoOn, server, members
    <2>3. conn.i \in 1..5 /\ conn.i + 1 \in 1..6
      BY <1>a, <2>1, OnlyTextIsLast
    <2>4. conn'.rcpt = conn.rcpt /\ conn'.i = conn.i + 1 /\ conn'.reply = 0
      BY <2>2 DEF Asks
    <2>5. conn.rcpt = r /\ conn.i \in {4, 5}
      BY <2>3, <2>4 DEF InTransaction
    <2>6. conn.i = 4 => conn.reply = 250
      <3>1. conn.i = 4 => Cmd = "RCPT"
        BY DEF Cmd, Commands
      <3> QED
        BY <2>1, <3>1 DEF Wanted
    <2>7. InTransaction(r)
      BY <2>1, <2>5, <2>6 DEF InTransaction
    <2> QED
      BY <1>d, <2>2, <2>7
  <1>6. CASE Greet \/ AnswerMail \/ AnswerRcpt \/ TooLarge \/ Store \/ StoreFails
    <2>1. conn # None /\ conn.reply = 0 /\ accounts' = accounts
      BY <1>6 DEF Greet, AnswerMail, AnswerRcpt, TooLarge, Store, StoreFails, Asked,
                  ServerOnly, server, members
    <2>2. conn \in Connection /\ conn.i \in 1..6
      BY <1>a, <2>1, ConnectionInPass DEF Connection
    <2>3. CASE AnswerMail
      <3>1. conn'.i = conn.i
        BY <2>3 DEF AnswerMail, Asks
      <3>2. conn.i = 3
        BY <2>2, <2>3 DEF AnswerMail, Asked, Cmd, Commands
      <3> QED
        BY <3>1, <3>2 DEF InTransaction
    <2>4. CASE TooLarge \/ Store \/ StoreFails
      <3>1. conn.i = 6
        BY <1>a, <2>1, <2>4, TextIsLast DEF TooLarge, Store, StoreFails, Asked
      <3>2. conn'.i = 6 /\ conn'.reply # 0
        BY <1>a, <2>1, <2>4, <3>1, ReplyTypes DEF TooLarge, Store, StoreFails
      <3> QED
        BY <3>2 DEF InTransaction
    <2>5. CASE AnswerRcpt
      <3>1. conn.i = 4
        BY <2>2, <2>5 DEF AnswerRcpt, Asked, Cmd, Commands
      <3>2. /\ conn'.rcpt = conn.rcpt /\ conn'.i = 4
            /\ conn'.reply = IF ~conn.mail THEN 503
                             ELSE IF IsLocal(conn.rcpt) THEN 250 ELSE 550
        BY <2>2, <2>5, <3>1 DEF AnswerRcpt, Reply, Connection
      <3>3. conn.rcpt = r /\ IsLocal(conn.rcpt)
        BY <3>2 DEF InTransaction
      <3> QED
        BY <1>c, <2>1, <3>3 DEF IsLocal
    <2>6. CASE Greet
      <3>1. conn'.i = conn.i /\ conn'.rcpt = conn.rcpt /\ conn.i # 4 /\ conn.i # 6
        BY <2>2, <2>6 DEF Greet, Reply, Connection, Asked, Cmd, Commands
      <3>2. conn.rcpt = r /\ conn.i = 5
        BY <3>1 DEF InTransaction
      <3> QED
        BY <1>d, <2>1, <3>2 DEF InTransaction
    <2> QED
      BY <1>6, <2>3, <2>4, <2>5, <2>6
  <1> QED
    BY <1>1, <1>2, <1>3, <1>4, <1>5, <1>6 DEF Next, SenderStep, ServerStep

\* They are in order at every step.
LEMMA CopyInvariant == Spec => []CopyInv
<1>1. ASSUME Init PROVE CopyInv
  <2>1. TypeInv
    BY <1>1, TypeInit
  <2> QED
    BY <1>1, <2>1 DEF Init, CopyInv, InOrder, Done, Stored, Admitted, InTransaction,
                      OnionStays
<1>2. CopyInv /\ [Next]_vars => CopyInv'
  BY CopyStep, AdmittedStep, TypeStep DEF CopyInv
<1> QED
  BY <1>1, <1>2, PTL DEF Spec

\* Whatever was lost, killed or retried, and whoever opens or removes accounts
\* meanwhile: what is filed as delivered was stored, but for an account removed
\* between its RCPT and its text; what is filed as refused was not, but for
\* answers that were lost.
THEOREM VerdictsAreTrue == Spec => []VerdictIsTrue
<1>1. ASSUME CopyInv PROVE VerdictIsTrue
  <2> SUFFICES ASSUME NEW r \in Rcpts
               PROVE  /\ verdict[r] = "delivered" => copies[r] > 0 \/ r \in leavers
                      /\ verdict[r] = "refused" => copies[r] <= lost[r]
    BY DEF VerdictIsTrue
  <2>1. copies[r] \in Nat /\ late[r] \in Nat /\ lost[r] \in Nat
    BY <1>1, Counts DEF CopyInv
  <2> QED
    BY <1>1, <2>1 DEF CopyInv, InOrder
<1> QED
  BY <1>1, CopyInvariant, PTL

\* A second copy has a lost answer as its cause.
THEOREM EveryCopyHasCause == Spec => []CopiesHaveCause
<1>1. CopyInv => CopiesHaveCause
  BY DEF CopyInv, InOrder, CopiesHaveCause
<1> QED
  BY <1>1, CopyInvariant, PTL

-----------------------------------------------------------------------------
(* Refusals *)

\* What smtpd has of a sender and what it may have said of a recipient.
Causes ==
    conn # None =>
        /\ conn.i \in 4..6 \/ (conn.i = 3 /\ conn.reply # 0) => (conn.mail <=> allowed)
        /\ conn.i = 3 => conn.reply \in {0, 250, 550}
        /\ conn.i # 3 /\ conn.reply \in {503, 550, 552} /\ conn.rcpt \in Accounts
              => ~allowed \/ ~fits

RefusalInv == TypeInv /\ onion /\ Causes /\ RefusedOnlyWithCause

\* No refusal is added, and no other message is meant.
LEMMA NoNewRefusal ==
    ASSUME RefusedOnlyWithCause, UNCHANGED message,
           \A r \in Rcpts : verdict'[r] = "refused" =>
               \/ verdict[r] = "refused"
               \/ r \in Accounts => ~allowed \/ ~fits
    PROVE  RefusedOnlyWithCause'
  BY TransferAssumption DEF RefusedOnlyWithCause, message

\* An attempt that ends without a refusal.
LEMMA ConcludeNoRefusal ==
    ASSUME RefusalInv, NEW r \in left, NEW v \in Verdicts, Conclude(r, v),
           v = "refused" => (r \in Accounts => ~allowed \/ ~fits),
           UNCHANGED message
    PROVE  RefusedOnlyWithCause' /\ Causes'
  <1>1. verdict' = [verdict EXCEPT ![r] = v] /\ conn' = None
    BY DEF Conclude
  <1>2. verdict \in [Rcpts -> Verdicts] /\ r \in Rcpts
    BY DEF RefusalInv, TypeInv, TypeOK
  <1>3. \A q \in Rcpts : verdict'[q] = IF q = r THEN v ELSE verdict[q]
    BY <1>1, <1>2
  <1> QED
    BY <1>1, <1>3, NoNewRefusal DEF RefusalInv, Causes

\* A step that leaves the entry alone.
LEMMA SameVerdicts ==
    ASSUME RefusalInv, UNCHANGED <<message, verdict>>
    PROVE  RefusedOnlyWithCause'
  BY NoNewRefusal DEF RefusalInv

\* With a configured onion, every step leaves refusals with a cause.
LEMMA RefusalStep ==
    ASSUME RefusalInv, Configured, [Next]_vars
    PROVE  onion' /\ Causes' /\ RefusedOnlyWithCause'
  <1>a. TypeInv /\ onion /\ Causes
    BY DEF RefusalInv
  <1>b. onion'
    BY <1>a DEF Next, SenderStep, ServerStep, StartPass, Connect, GoOn, Delivered, Refused,
       EndPass, Greet, AnswerMail, AnswerRcpt, TooLarge, Store, StoreLate, GiveUpWaiting,
       StoreFails, Kill, Start, TorUp, Register, RemoveAccount, ServerOnly, vars, server
  <1>c. UNCHANGED message
    BY DEF Next, SenderStep, ServerStep, StartPass, Connect, GoOn, Delivered, Refused,
       EndPass, Greet, AnswerMail, AnswerRcpt, TooLarge, Store, StoreLate, GiveUpWaiting,
       StoreFails, Kill, Start, TorUp, Register, RemoveAccount, ServerOnly, vars
  <1>d. conn # None => conn \in Connection /\ conn.rcpt \in left /\ conn.i \in 1..6
    BY <1>a, ConnectionInPass DEF Connection
  <1> SUFFICES Causes' /\ RefusedOnlyWithCause'
    BY <1>b
  <1>1. CASE Connect
    <2>1. PICK r \in left : IF tor /\ up THEN conn' = Asks(r, 1, FALSE) /\ UNCHANGED entry
                                         ELSE Conclude(r, "later")
      BY <1>1 DEF Connect
    <2>2. CASE tor /\ up
      BY <1>c, <2>1, <2>2, SameVerdicts DEF Causes, Asks, entry
    <2>3. CASE ~(tor /\ up)
      <3>1. Conclude(r, "later") /\ "later" \in Verdicts /\ "later" # "refused"
        BY <2>1, <2>3 DEF Verdicts
      <3> QED
        BY <1>c, <3>1, ConcludeNoRefusal
    <2> QED
      BY <2>2, <2>3
  <1>2. CASE GoOn
    <2>1. conn # None /\ conn.reply # 0 /\ conn' = Asks(conn.rcpt, conn.i + 1, conn.mail)
      BY <1>2 DEF GoOn, Replied
    <2>2. conn.i \in 1..5
      BY <1>2, <1>a, <2>1, OnlyTextIsLast DEF GoOn
    <2>3. conn'.i = conn.i + 1 /\ conn'.reply = 0 /\ conn'.mail = conn.mail
      BY <2>1 DEF Asks
    <2>4. conn'.i \in 4..6 => conn.i \in 4..6 \/ conn.i = 3
      BY <2>2, <2>3
    <2>5. Causes'
      BY <1>a, <1>c, <2>1, <2>3, <2>4 DEF Causes, message
    <2> QED
      BY <1>2, <1>c, <2>5, SameVerdicts DEF GoOn, entry
  <1>3. CASE Delivered
    <2>1. conn # None /\ Conclude(conn.rcpt, "delivered") /\ "delivered" \in Verdicts
      BY <1>3 DEF Delivered, Replied, Verdicts
    <2> QED
      BY <1>c, <1>d, <2>1, ConcludeNoRefusal
  <1>4. CASE Refused
    <2>1. conn # None /\ conn.reply \notin Wanted
      BY <1>4 DEF Refused, Replied
    <2>2. PICK v \in Verdicts : /\ Conclude(conn.rcpt, v)
                                /\ v = "refused" => conn.reply \in 500..599
      BY <1>4 DEF Refused, Verdicts
    <2>3. conn.reply \in 500..599 => conn.reply \in {503, 550, 552}
      BY <1>d, <2>1 DEF Connection
    <2>4. conn.i # 3
      <3>1. conn.i = 3 => Cmd = "MAIL"
        BY DEF Cmd, Commands
      <3>2. conn.i = 3 => conn.reply \in {0, 250, 550}
        BY <1>a, <2>1 DEF Causes
      <3> QED
        BY <1>4, <2>1, <3>1, <3>2 DEF Wanted, Refused, Replied
    <2>5. ASSUME conn.reply \in 500..599 PROVE conn.rcpt \in Accounts => ~allowed \/ ~fits
      BY <1>a, <2>1, <2>3, <2>4, <2>5 DEF Causes
    <2> QED
      BY <1>c, <1>d, <2>1, <2>2, <2>5, ConcludeNoRefusal
  <1>5. CASE GiveUpWaiting
    <2>1. conn # None /\ Conclude(conn.rcpt, "later") /\ "later" \in Verdicts
      BY <1>5 DEF GiveUpWaiting, Verdicts
    <2> QED
      BY <1>c, <1>d, <2>1, ConcludeNoRefusal
  <1>6. CASE EndPass
    <2>1. conn' = None /\ \A r \in Rcpts : verdict'[r] = "refused" => verdict[r] = "refused"
      BY <1>6 DEF EndPass
    <2> QED
      BY <1>c, <2>1, NoNewRefusal DEF Causes, RefusalInv
  <1>7. CASE Greet \/ AnswerRcpt \/ TooLarge \/ Store \/ StoreFails
    <2>1. conn # None
      BY <1>7 DEF Greet, AnswerRcpt, TooLarge, Store, StoreFails, Asked
    <2>2. PICK code \in {220, 250, 354, 451, 503, 550, 552} :
             /\ Reply(code)
             /\ code \in {503, 550, 552} =>
                   \/ Cmd = "RCPT" /\ (conn.mail => ~IsLocal(conn.rcpt))
                   \/ Cmd = "text" /\ ~fits
             /\ Cmd # "MAIL"
      <3>1. CASE Greet
        BY <3>1 DEF Greet, Asked
      <3>2. CASE AnswerRcpt
        <4>1. CASE ~conn.mail
          BY <3>2, <4>1 DEF AnswerRcpt, Asked
        <4>2. CASE conn.mail /\ IsLocal(conn.rcpt)
          BY <3>2, <4>2 DEF AnswerRcpt, Asked
        <4>3. CASE conn.mail /\ ~IsLocal(conn.rcpt)
          BY <3>2, <4>3 DEF AnswerRcpt, Asked
        <4> QED
          BY <4>1, <4>2, <4>3
      <3>3. CASE TooLarge \/ Store \/ StoreFails
        BY <3>3 DEF TooLarge, Store, StoreFails, Asked
      <3> QED
        BY <1>7, <3>1, <3>2, <3>3
    <2>3. /\ conn' # None /\ conn'.rcpt = conn.rcpt /\ conn'.i = conn.i
          /\ conn'.reply = code /\ conn'.mail = conn.mail
      BY <1>a, <2>1, <2>2, ReplyTypes, TransferAssumption
    <2>4. conn.i # 3 /\ (Cmd = "RCPT" => conn.i = 4)
      BY <1>d, <2>1, <2>2 DEF Cmd, Commands
    <2>5. conn.i = 4 => (conn.mail <=> allowed)
      BY <1>a, <2>1 DEF Causes
    <2>6. code \in {503, 550, 552} /\ conn.rcpt \in Accounts => ~allowed \/ ~fits
      BY <1>a, <2>2, <2>4, <2>5 DEF IsLocal, TypeInv, TypeOK
    <2>7. conn.i \in 4..6 => (conn.mail <=> allowed)
      BY <1>a, <2>1 DEF Causes
    <2>8. Causes'
      BY <1>c, <2>3, <2>4, <2>6, <2>7 DEF Causes, message
    <2> QED
      BY <1>7, <1>c, <2>8, SameVerdicts
      DEF Greet, AnswerRcpt, TooLarge, Store, StoreFails, ServerOnly, entry
  <1>8. CASE AnswerMail
    <2>1. conn # None /\ Cmd = "MAIL"
      BY <1>8 DEF AnswerMail, Asked
    <2>2. conn.i = 3
      BY <1>d, <2>1 DEF Cmd, Commands
    <2>3. /\ conn'.i = conn.i /\ (conn'.mail <=> allowed)
          /\ conn'.reply \in {250, 550}
      BY <1>8 DEF AnswerMail, Asks
    <2>4. Causes'
      BY <1>c, <2>2, <2>3 DEF Causes, message
    <2> QED
      BY <1>8, <1>c, <2>4, SameVerdicts DEF AnswerMail, ServerOnly, entry
  <1>9. CASE Kill
    <2>1. CASE conn = None
      BY <1>9, <1>c, <2>1, SameVerdicts DEF Kill, entry, Causes
    <2>2. CASE conn # None
      <3>1. Conclude(conn.rcpt, "later") /\ "later" \in Verdicts
        BY <1>9, <2>2 DEF Kill, Verdicts
      <3> QED
        BY <1>c, <1>d, <2>2, <3>1, ConcludeNoRefusal
    <2> QED
      BY <2>1, <2>2
  <1>10. CASE \/ StartPass \/ StoreLate \/ Start \/ TorUp
              \/ Register \/ RemoveAccount \/ UNCHANGED vars
    <2>1. UNCHANGED <<verdict, conn>>
      BY <1>10 DEF StartPass, StoreLate, Start, TorUp, Register, RemoveAccount, vars, entry
    <2>2. Causes'
      BY <1>a, <1>c, <2>1 DEF Causes, message
    <2> QED
      BY <1>c, <2>1, <2>2, SameVerdicts
  <1> QED
    BY <1>1, <1>2, <1>3, <1>4, <1>5, <1>6, <1>7, <1>8, <1>9, <1>10
    DEF Next, SenderStep, ServerStep

\* With the onion in its configuration smtpd refuses none of its accounts for
\* want of an onion, whenever Tor comes up and however often smtpd is killed.
THEOREM ConfiguredRefusesOnlyWithCause ==
    ASSUME Configured
    PROVE  Spec => []RefusedOnlyWithCause
<1>1. Init => RefusalInv
  <2> SUFFICES ASSUME Init PROVE RefusalInv
    OBVIOUS
  <2>1. \A r \in Rcpts : verdict[r] = "none"
    BY DEF Init
  <2>2. RefusedOnlyWithCause
    BY <2>1, TransferAssumption DEF RefusedOnlyWithCause
  <2> QED
    BY <2>2, TypeInit DEF Init, RefusalInv, Causes
<1>2. RefusalInv /\ [Next]_vars => RefusalInv'
  BY RefusalStep, TypeStep DEF RefusalInv
<1>3. RefusalInv => RefusedOnlyWithCause
  BY DEF RefusalInv
<1> QED
  BY <1>1, <1>2, <1>3, PTL DEF Spec
=============================================================================
