--------------------------- MODULE AccountsProofs ---------------------------
(***************************************************************************)
(* Theorems about Accounts: its types; what any number of processes can    *)
(* never do to the account file; and, for callers that share one lock,     *)
(* that updates are atomic, the file is whole, an invite serves once and   *)
(* passwords are not guessed at faster than the policy allows.             *)
(***************************************************************************)
EXTENDS Accounts, TLAPS

USE AccountsAssumption

\* The file's contents before there are accounts are contents.
LEMMA NoAccountsIsData == NoAccounts \in Data
BY DEF NoAccounts, Data

\* What a reader makes of a file that is not empty are contents.
LEMMA ReadIsData ==
    ASSUME NEW x \in Content, x # Empty
    PROVE  Read(x) \in Data
BY NoAccountsIsData DEF Read, Content

\* A user's record put into contents gives contents, with the invites as they were.
LEMMA WithUserIsData ==
    ASSUME NEW d \in Data, NEW u \in Users, NEW r \in UserRec \cup {None}
    PROVE  /\ WithUser(d, u, r) \in Data
           /\ WithUser(d, u, r).users = [d.users EXCEPT ![u] = r]
           /\ WithUser(d, u, r).invites = d.invites
BY DEF WithUser, Data

\* A failed guess leaves a record, with the count and the time of the lock in their bounds.
LEMMA CountFailureType ==
    ASSUME NEW r \in UserRec, NEW t \in Nat
    PROVE  /\ CountFailure(r, t) \in UserRec
           /\ CountFailure(r, t).pw = r.pw
           /\ r.failed < MaxFailed /\ r.until <= t + LockFor =>
                CountFailure(r, t).failed < MaxFailed /\ CountFailure(r, t).until <= t + LockFor
           /\ r.until <= t /\ CountFailure(r, t).until > t => CountFailure(r, t).failed = 0
<1>1. /\ r.failed \in Nat /\ r.until \in Nat /\ r.pw \in Passwords /\ r.key \in Keys \cup {None}
      /\ r = [pw |-> r.pw, failed |-> r.failed, until |-> r.until, key |-> r.key]
  BY DEF UserRec
<1>2. MaxFailed \in Nat /\ MaxFailed > 0 /\ LockFor \in Nat
  OBVIOUS
<1>3. CASE r.failed + 1 >= MaxFailed
  <2>1. CountFailure(r, t) = [r EXCEPT !.until = t + LockFor, !.failed = 0]
    BY <1>3 DEF CountFailure
  <2>2. CountFailure(r, t) = [pw |-> r.pw, failed |-> 0, until |-> t + LockFor, key |-> r.key]
    BY <2>1, <1>1
  <2> QED BY <2>2, <1>1, <1>2 DEF UserRec
<1>4. CASE ~(r.failed + 1 >= MaxFailed)
  <2>1. CountFailure(r, t) = [r EXCEPT !.failed = @ + 1]
    BY <1>4 DEF CountFailure
  <2>2. CountFailure(r, t) = [pw |-> r.pw, failed |-> r.failed + 1, until |-> r.until, key |-> r.key]
    BY <2>1, <1>1
  <2>3. r.failed + 1 < MaxFailed
    BY <1>4, <1>1, <1>2
  <2> QED BY <2>2, <2>3, <1>1, <1>2 DEF UserRec
<1> QED BY <1>3, <1>4

Answers == {"ok", "no", "error"}

\* Every method turns data into data.
LEMMA OutcomeType ==
    ASSUME NEW q \in Request, NEW open \in BOOLEAN, NEW d \in Data, NEW t \in Nat
    PROVE  Outcome(q, open, d, t) \in [data : Data, answer : Answers, writes : BOOLEAN]
<1> DEFINE Out == [data : Data, answer : Answers, writes : BOOLEAN]
<1>0. q.user \in Users /\ q.code \in Codes /\ q.pw \in Passwords /\ q.key \in Keys /\ q.op \in Ops
  BY DEF Request
<1>1. ASSUME NEW x \in Data, NEW a \in Answers
      PROVE  Refusal(x, a) \in Out /\ Update(x, a) \in Out
  BY <1>1 DEF Refusal, Update
<1>2. d.users[q.user] # None => d.users[q.user] \in UserRec
  BY <1>0 DEF Data
<1>3. NewInvite(d, q) \in Out
  <2>1. [d EXCEPT !.invites[q.code] = Unused] \in Data
    BY <1>0 DEF Data
  <2> QED BY <2>1, <1>1 DEF NewInvite, Answers
<1>4. Create(d, q, open) \in Out
  <2> DEFINE u == WithUser(d, q.user, [pw |-> q.pw, failed |-> 0, until |-> 0, key |-> None])
  <2>1. u \in Data
    <3>1. [pw |-> q.pw, failed |-> 0, until |-> 0, key |-> None] \in UserRec
      BY <1>0 DEF UserRec
    <3> QED BY <3>1, <1>0, WithUserIsData
  <2>2. [u EXCEPT !.invites[q.code] = q.user] \in Data
    <3> HIDE DEF u
    <3> QED BY <2>1, <1>0 DEF Data
  <2> HIDE DEF u
  <2>3. (IF open THEN u ELSE [u EXCEPT !.invites[q.code] = q.user]) \in Data
    BY <2>1, <2>2
  <2> QED BY <2>3, <1>1 DEF Create, Answers, u
<1>5. Verify(d, q, t) \in Out
  <2> DEFINE r == d.users[q.user]
  <2>1. CASE r = None
    BY <2>1, <1>1 DEF Verify, Answers
  <2>2. CASE r # None
    <3>1. r \in UserRec BY <2>2, <1>2
    <3>2. WithUser(d, q.user, CountFailure(r, t)) \in Data
      BY <3>1, <1>0, CountFailureType, WithUserIsData
    <3>3. WithUser(d, q.user, [r EXCEPT !.failed = 0, !.until = 0]) \in Data
      <4>1. [r EXCEPT !.failed = 0, !.until = 0] \in UserRec
        <5> HIDE DEF r
        <5> QED BY <3>1 DEF UserRec
      <4> QED BY <4>1, <1>0, WithUserIsData
    <3> QED BY <2>2, <3>2, <3>3, <1>1 DEF Verify, Answers
  <2> QED BY <2>1, <2>2
<1>6. SetPassword(d, q) \in Out
  <2>1. d.users[q.user] # None =>
          WithUser(d, q.user, [d.users[q.user] EXCEPT !.pw = q.pw, !.failed = 0, !.until = 0]) \in Data
    <3>1. d.users[q.user] # None =>
            [d.users[q.user] EXCEPT !.pw = q.pw, !.failed = 0, !.until = 0] \in UserRec
      BY <1>0, <1>2 DEF UserRec
    <3> QED BY <3>1, <1>0, WithUserIsData
  <2> QED BY <2>1, <1>1 DEF SetPassword, Answers
<1>7. Delete(d, q) \in Out
  BY <1>0, <1>1, WithUserIsData DEF Delete, Answers
<1>8. SetPubkey(d, q) \in Out
  <2>1. d.users[q.user] # None =>
          WithUser(d, q.user, [d.users[q.user] EXCEPT !.key = q.key]) \in Data
    <3>1. d.users[q.user] # None => [d.users[q.user] EXCEPT !.key = q.key] \in UserRec
      BY <1>0, <1>2 DEF UserRec
    <3> QED BY <3>1, <1>0, WithUserIsData
  <2> QED BY <2>1, <1>1 DEF SetPubkey, Answers
<1> QED BY <1>0, <1>3, <1>4, <1>5, <1>6, <1>7, <1>8 DEF Outcome, Ops

-----------------------------------------------------------------------------
(* Types. *)

\* There is always an inode for one more file.
LEMMA FreeInodeExists ==
    ASSUME TypeOK
    PROVE  (CHOOSE x \in FreeInodes : TRUE) \in FreeInodes
<1>1. path \in Inodes \cup {NoFile} /\ tmp \in Inodes \cup {NoFile}
  BY DEF TypeOK
<1>2. fd \in [Callers -> Inodes \cup {NoFile}]
  BY DEF TypeOK
<1>3. FreeInodes # {}
  BY <1>1, <1>2, EnoughInodes DEF FreeInodes
<1> QED BY <1>3

\* A file overwritten by another writer holds the new contents or garbage.
LEMMA OverwrittenType ==
    ASSUME NEW old \in Content, NEW new \in Data, NEW d \in Overwritten(old, new)
    PROVE  d = new \/ d = Garbage
BY DEF Overwritten

\* A call that ends leaves the locks and the callers' locals typed.
LEMMA LeaveType ==
    ASSUME TypeOK, NEW c \in Callers, Leave(c)
    PROVE  /\ lock' \in [Processes -> Callers \cup {NoCaller}]
           /\ pc' \in [Callers -> {"idle", "wait", "held", "open", "fill", "replace"}]
           /\ req' \in [Callers -> Request \cup {NoCall}]
           /\ at' \in [Callers -> Nat]
           /\ buf' \in [Callers -> Data]
           /\ reply' \in [Callers -> {"none", "ok", "no", "error"}]
           /\ fd' \in [Callers -> Inodes \cup {NoFile}]
           /\ \A o \in Callers : pc'[o] # "idle" => req'[o] \in Request
           /\ \A o \in Callers : pc'[o] = "fill" => fd'[o] \in Inodes
BY NoAccountsIsData DEF TypeOK, Leave, Goto

\* What is recorded of a call's end has its type.
LEMMA RecordType ==
    ASSUME TypeOK, NEW c \in Callers, NEW q \in Request, NEW a, NEW t \in Nat,
           Record(c, q, a, t)
    PROVE  /\ drawn' \subseteq Codes /\ asked' \subseteq Request
           /\ joined' \subseteq Users \X Codes
           /\ guesses' \in [Users -> Seq(Nat)]
<1>1. q.user \in Users /\ q.code \in Codes
  BY DEF Request
<1>2. guesses \in [Users -> Seq(Nat)] BY DEF TypeOK
<1>3. Append(guesses[q.user], t) \in Seq(Nat) /\ <<>> \in Seq(Nat)
  BY <1>1, <1>2
<1>4. guesses' \in [Users -> Seq(Nat)]
  <2>1. [guesses EXCEPT ![q.user] = Append(@, t)] \in [Users -> Seq(Nat)]
    BY <1>2, <1>3
  <2>2. [guesses EXCEPT ![q.user] = <<>>] \in [Users -> Seq(Nat)]
    BY <1>2, <1>3
  <2>3. guesses' \in {guesses, [guesses EXCEPT ![q.user] = Append(@, t)],
                      [guesses EXCEPT ![q.user] = <<>>]}
    BY DEF Record
  <2> QED BY <2>1, <2>2, <2>3, <1>2
<1> QED BY <1>1, <1>4 DEF TypeOK, Record

\* The types, at the start.
LEMMA TypeInit == Init => TypeOK
<1> SUFFICES ASSUME Init PROVE TypeOK
  OBVIOUS
<1>1. path \in Inodes
  <2>1. Inodes # {}
    <3>1. [c \in Callers |-> NoFile] \in [Callers -> Inodes \cup {NoFile}]
      OBVIOUS
    <3> QED BY <3>1, EnoughInodes
  <2> QED BY <2>1 DEF Init
<1>2. Start \in Content /\ Empty \in Content BY DEF Content
<1>3. inode \in [Inodes -> Content]
  BY <1>2 DEF Init
<1>4. guesses \in [Users -> Seq(Nat)]
  <2>1. <<>> \in Seq(Nat) OBVIOUS
  <2> QED BY <2>1 DEF Init
<1>5. buf \in [Callers -> Data]
  BY NoAccountsIsData DEF Init
<1> QED BY <1>1, <1>3, <1>4, <1>5 DEF Init, TypeOK

\* Every step keeps the types.
LEMMA TypeStep == TypeOK /\ [Next]_vars => TypeOK'
<1> SUFFICES ASSUME TypeOK, [Next]_vars PROVE TypeOK'
  OBVIOUS
<1>1. ASSUME NEW c \in Callers, Call(c) PROVE TypeOK'
  <2>1. PICK q \in Requests[c] :
          /\ req' = [req EXCEPT ![c] = q]
          /\ drawn' = IF q.op = "new_invite" THEN drawn \cup {q.code} ELSE drawn
          /\ asked' = IF q.op \in {"create", "set_password"} THEN asked \cup {q} ELSE asked
    BY <1>1 DEF Call
  <2>2. q \in Request /\ q.code \in Codes
    BY <2>1 DEF Request
  <2> QED BY <1>1, <2>1, <2>2 DEF TypeOK, Call, Goto, file
<1>2. ASSUME NEW c \in Callers, Acquire(c) PROVE TypeOK'
  BY <1>2 DEF TypeOK, Acquire, Goto, file, locals, history
<1>3. ASSUME NEW c \in Callers, Decide(c) PROVE TypeOK'
  <2> DEFINE d == Read(inode[path])
             o == Outcome(req[c], c \in OpenReg, d, clock)
  <2>1. req[c] \in Request /\ clock \in Nat /\ (c \in OpenReg) \in BOOLEAN
    BY <1>3 DEF TypeOK, Decide
  <2>2. d \in Data
    BY <1>3, ReadIsData DEF TypeOK, Decide
  <2>3. o \in [data : Data, answer : Answers, writes : BOOLEAN]
    <3> HIDE DEF d
    <3> QED BY <2>1, <2>2, OutcomeType
  <2>4. CASE o.writes
    <3>1. /\ buf' = [buf EXCEPT ![c] = o.data]
          /\ reply' = [reply EXCEPT ![c] = o.answer]
          /\ at' = [at EXCEPT ![c] = clock]
          /\ pc' = [pc EXCEPT ![c] = "open"]
          /\ UNCHANGED <<lock, req, fd, history, clock, file, bounds>>
      BY <1>3, <2>4 DEF Decide, Goto
    <3> HIDE DEF o
    <3> QED BY <3>1, <2>1, <2>3 DEF TypeOK, Answers, file, history
  <2>5. CASE ~o.writes
    <3>1. Leave(c) /\ UNCHANGED <<clock, file, bounds>>
      BY <1>3, <2>5 DEF Decide
    <3>2. UNCHANGED history \/ Record(c, req[c], o.answer, clock)
      BY <1>3, <2>5 DEF Decide
    <3>3. /\ drawn' \subseteq Codes /\ asked' \subseteq Request
          /\ joined' \subseteq Users \X Codes
          /\ guesses' \in [Users -> Seq(Nat)]
      <4> HIDE DEF o
      <4>1. CASE UNCHANGED history BY <4>1 DEF TypeOK, history
      <4>2. CASE Record(c, req[c], o.answer, clock) BY <4>2, <2>1, RecordType
      <4> QED BY <3>2, <4>1, <4>2
    <3> QED BY <3>1, <3>3, LeaveType DEF TypeOK, file
  <2> QED BY <2>4, <2>5
<1>4. ASSUME NEW c \in Callers, DecideRaises(c) PROVE TypeOK'
  <2>1. Leave(c) /\ UNCHANGED <<clock, file, history, bounds>>
    BY <1>4 DEF DecideRaises
  <2> QED BY <2>1, LeaveType DEF TypeOK, file, history
<1>5. ASSUME NEW c \in Callers, OpenTmp(c) PROVE TypeOK'
  <2>1. PICK i \in Inodes : tmp' = i /\ fd' = [fd EXCEPT ![c] = i]
                              /\ inode' = [inode EXCEPT ![i] = Empty]
    BY <1>5, FreeInodeExists DEF OpenTmp, FreeInodes, TypeOK
  <2>2. Empty \in Content BY DEF Content
  <2>3. inode' \in [Inodes -> Content] /\ tmp' \in Inodes
    BY <2>1, <2>2 DEF TypeOK
  <2>4. fd' \in [Callers -> Inodes \cup {NoFile}]
    BY <2>1 DEF TypeOK
  <2>5. \A x \in Callers : pc'[x] = "fill" => fd'[x] \in Inodes
    <3>1. pc' = [pc EXCEPT ![c] = "fill"]
      BY <1>5 DEF OpenTmp, Goto
    <3>2. /\ pc \in [Callers -> {"idle", "wait", "held", "open", "fill", "replace"}]
          /\ fd \in [Callers -> Inodes \cup {NoFile}]
          /\ \A x \in Callers : pc[x] = "fill" => fd[x] \in Inodes
      BY DEF TypeOK
    <3> QED BY <3>1, <3>2, <2>1
  <2> QED BY <1>5, <2>3, <2>4, <2>5 DEF TypeOK, OpenTmp, Goto, history
<1>6. ASSUME NEW c \in Callers, Fill(c) PROVE TypeOK'
  <2>1. fd[c] \in Inodes BY <1>6 DEF TypeOK, Fill
  <2>2. PICK d \in Overwritten(inode[fd[c]], buf[c]) : inode' = [inode EXCEPT ![fd[c]] = d]
    BY <1>6 DEF Fill
  <2>3. d \in Content
    <3>1. inode[fd[c]] \in Content /\ buf[c] \in Data
      BY <2>1 DEF TypeOK
    <3>2. d = buf[c] \/ d = Garbage
      BY <2>2, <3>1, OverwrittenType
    <3> QED BY <3>1, <3>2 DEF Content
  <2> QED BY <1>6, <2>1, <2>2, <2>3 DEF TypeOK, Fill, Goto, history
<1>7. ASSUME NEW c \in Callers, ReplaceTmp(c) PROVE TypeOK'
  <2>1. req[c] \in Request /\ at[c] \in Nat /\ tmp \in Inodes
    BY <1>7 DEF TypeOK, ReplaceTmp
  <2>2. Leave(c) /\ Record(c, req[c], reply[c], at[c]) /\ UNCHANGED clock
    BY <1>7 DEF ReplaceTmp
  <2>3. inode' \in [Inodes -> Content] /\ path' \in Inodes /\ tmp' = NoFile
    <3>1. Empty \in Content BY DEF Content
    <3> QED BY <1>7, <2>1, <3>1 DEF TypeOK, ReplaceTmp
  <2> QED BY <2>1, <2>2, <2>3, LeaveType, RecordType DEF TypeOK
<1>8. ASSUME NEW c \in Callers, TmpIsGone(c) PROVE TypeOK'
  <2>1. Leave(c) /\ UNCHANGED <<clock, file, history, bounds>>
    BY <1>8 DEF TmpIsGone
  <2> QED BY <2>1, LeaveType DEF TypeOK, file, history
<1>9. ASSUME NEW p \in Processes, Crash(p) PROVE TypeOK'
  BY <1>9, NoAccountsIsData DEF TypeOK, Crash, file, history
<1>10. CASE Tick
  BY <1>10 DEF TypeOK, Tick, file, locals, history
<1>11. CASE UNCHANGED vars
  BY <1>11 DEF TypeOK, vars, file, locals, history, bounds
<1> QED BY <1>1, <1>2, <1>3, <1>4, <1>5, <1>6, <1>7, <1>8, <1>9, <1>10, <1>11
        DEF Next, CallStep

\* Whatever the processes do to each other's files, the account file is missing
\* nothing structural: every inode holds data, nothing yet, or text that does
\* not parse, and every call that writes has its answer ready (accounts.py:51-61).
THEOREM TypeCorrect == Spec => []TypeOK
<1>1. Init => TypeOK BY TypeInit
<1>2. TypeOK /\ [Next]_vars => TypeOK' BY TypeStep
<1> QED BY <1>1, <1>2, PTL DEF Spec

-----------------------------------------------------------------------------
(* Any number of processes: nothing is invented, and a lockout ends. *)

\* Without accounts there is nothing that would need a cause.
LEMMA NoAccountsGenuine == Genuine(NoAccounts)
BY DEF Genuine, Supported, ShutForNow, NoAccounts

\* Support and lockout are only ever gained with what is asked and with time.
LEMMA StaysGenuine ==
    ASSUME TypeOK, NEW d \in Data, Genuine(d),
           asked \subseteq asked', drawn \subseteq drawn',
           clock' \in Nat, clock <= clock'
    PROVE  Genuine(d)'
<1>1. Supported(d)'
  BY DEF Genuine, Supported, Known, MayHaveUsed
<1>2. ShutForNow(d)'
  <2> SUFFICES ASSUME NEW u \in Users, d.users[u] # None
               PROVE  /\ d.users[u].until <= clock' + LockFor
                      /\ d.users[u].failed < MaxFailed
                      /\ d.users[u].until > clock' => d.users[u].failed = 0
    BY DEF ShutForNow, OpensInTime
  <2>1. d.users[u].until \in Nat /\ clock \in Nat /\ LockFor \in Nat
    BY DEF TypeOK, Data, UserRec
  <2>2. /\ d.users[u].until <= clock + LockFor /\ d.users[u].failed < MaxFailed
        /\ d.users[u].until > clock => d.users[u].failed = 0
    BY DEF Genuine, ShutForNow, OpensInTime
  <2> QED BY <2>1, <2>2
<1> QED BY <1>1, <1>2 DEF Genuine

\* One user's record is replaced by a genuine one.
LEMMA WithUserGenuine ==
    ASSUME NEW d \in Data, Genuine(d), NEW u \in Users, NEW r \in UserRec \cup {None},
           r # None => Known(u, r.pw) /\ OpensInTime(r)
    PROVE  Genuine(WithUser(d, u, r))
<1> DEFINE w == WithUser(d, u, r)
<1>1. w.users = [d.users EXCEPT ![u] = r] /\ w.invites = d.invites
  BY WithUserIsData
<1>2. \A x \in Users : w.users[x] = IF x = u THEN r ELSE d.users[x]
  BY <1>1 DEF Data
<1> HIDE DEF w
<1>3. Supported(w)
  BY <1>1, <1>2 DEF Genuine, Supported
<1>4. ShutForNow(w)
  BY <1>2 DEF Genuine, ShutForNow
<1> QED BY <1>3, <1>4 DEF Genuine, w

\* An invite drawn, or used by who may have used it, leaves contents genuine.
LEMMA WithInviteGenuine ==
    ASSUME NEW d \in Data, Genuine(d), NEW i \in Codes, NEW x \in Users \cup {Unused},
           i \in drawn, x # Unused => MayHaveUsed(x, i)
    PROVE  Genuine([d EXCEPT !.invites[i] = x])
<1> DEFINE w == [d EXCEPT !.invites[i] = x]
<1>1. w.users = d.users /\ \A j \in Codes : w.invites[j] = IF j = i THEN x ELSE d.invites[j]
  BY DEF Data
<1> HIDE DEF w
<1>2. Supported(w)
  BY <1>1 DEF Genuine, Supported
<1>3. ShutForNow(w)
  BY <1>1 DEF Genuine, ShutForNow
<1> QED BY <1>2, <1>3 DEF Genuine, w

\* A method invents nothing: what it makes of genuine data is genuine.
LEMMA OutcomeGenuine ==
    ASSUME NEW q \in Request, NEW open \in BOOLEAN, NEW d \in Data, clock \in Nat,
           Genuine(d),
           q.op \in {"create", "set_password"} => q \in asked,
           q.op = "new_invite" => q.code \in drawn
    PROVE  Genuine(Outcome(q, open, d, clock).data)
<1>0. /\ q.user \in Users /\ q.code \in Codes /\ q.pw \in Passwords
      /\ q.key \in Keys /\ q.op \in Ops
      /\ MaxFailed \in Nat /\ MaxFailed > 0 /\ LockFor \in Nat
  BY DEF Request
<1>1. \A x, a : Refusal(x, a).data = x /\ Update(x, a).data = x
  BY DEF Refusal, Update
<1>2. d.users[q.user] # None =>
        /\ d.users[q.user] \in UserRec
        /\ Known(q.user, d.users[q.user].pw)
        /\ d.users[q.user].until \in Nat
        /\ OpensInTime(d.users[q.user])
  BY <1>0 DEF Data, UserRec, Genuine, Supported, ShutForNow
<1>3. CASE q.op = "new_invite"
  <2>1. Genuine([d EXCEPT !.invites[q.code] = Unused])
    BY <1>0, <1>3, WithInviteGenuine
  <2> QED BY <2>1, <1>1, <1>3 DEF Outcome, NewInvite
<1>4. CASE q.op = "create"
  <2> DEFINE r == [pw |-> q.pw, failed |-> 0, until |-> 0, key |-> None]
             u == WithUser(d, q.user, r)
  <2>1. r \in UserRec /\ Known(q.user, r.pw) /\ OpensInTime(r)
    BY <1>0, <1>4 DEF UserRec, Known, OpensInTime
  <2>2. u \in Data /\ Genuine(u)
    <3> HIDE DEF r
    <3> QED BY <1>0, <2>1, WithUserGenuine, WithUserIsData
  <2>3. InviteIsFree(d, q.code) => Genuine([u EXCEPT !.invites[q.code] = q.user])
    <3> HIDE DEF u
    <3> SUFFICES ASSUME InviteIsFree(d, q.code)
                 PROVE  Genuine([u EXCEPT !.invites[q.code] = q.user])
      OBVIOUS
    <3>1. q.code \in drawn
      BY <1>0 DEF InviteIsFree, Genuine, Supported
    <3>2. MayHaveUsed(q.user, q.code)
      BY <1>4 DEF MayHaveUsed
    <3> QED BY <1>0, <2>2, <3>1, <3>2, WithInviteGenuine
  <2>4. Outcome(q, open, d, clock) = Create(d, q, open)
    BY <1>4 DEF Outcome
  <2> HIDE DEF u
  <2>5. Genuine(Create(d, q, open).data)
    <3>1. CASE d.users[q.user] # None \/ ~(open \/ InviteIsFree(d, q.code))
      BY <3>1, <1>1 DEF Create
    <3>2. CASE ~(d.users[q.user] # None \/ ~(open \/ InviteIsFree(d, q.code)))
      <4>1. Create(d, q, open) =
              Update(IF open THEN u ELSE [u EXCEPT !.invites[q.code] = q.user], "ok")
        BY <3>2 DEF Create, u
      <4> QED BY <4>1, <3>2, <1>1, <2>2, <2>3
    <3> QED BY <3>1, <3>2
  <2> QED BY <2>4, <2>5
<1>5. CASE q.op = "verify"
  <2> DEFINE r == d.users[q.user]
  <2>0. Outcome(q, open, d, clock) = Verify(d, q, clock)
    BY <1>5 DEF Outcome
  <2>1. CASE r = None
    BY <2>0, <2>1, <1>1 DEF Verify
  <2>2. CASE r # None
    <3>1. ~(r.until > clock) => Genuine(WithUser(d, q.user, CountFailure(r, clock)))
      <4> HIDE DEF r
      <4> SUFFICES ASSUME ~(r.until > clock)
                   PROVE  Genuine(WithUser(d, q.user, CountFailure(r, clock)))
        OBVIOUS
      <4>1. /\ r \in UserRec /\ Known(q.user, r.pw) /\ r.until \in Nat
            /\ r.until <= clock + LockFor /\ r.failed < MaxFailed
        BY <1>2, <2>2 DEF r, OpensInTime
      <4> DEFINE f == CountFailure(r, clock)
      <4>2. f \in UserRec /\ f.pw = r.pw /\ OpensInTime(f)
        BY <4>1, CountFailureType DEF OpensInTime
      <4> HIDE DEF f
      <4>3. Genuine(WithUser(d, q.user, f))
        BY <4>1, <4>2, <1>0, WithUserGenuine
      <4> QED BY <4>3 DEF f
    <3>2. Genuine(WithUser(d, q.user, [r EXCEPT !.failed = 0, !.until = 0]))
      <4> HIDE DEF r
      <4>1. r \in UserRec /\ Known(q.user, r.pw)
        BY <1>2, <2>2 DEF r
      <4> DEFINE f == [r EXCEPT !.failed = 0, !.until = 0]
      <4>2. f \in UserRec /\ f.pw = r.pw /\ f.failed = 0 /\ f.until = 0
        BY <4>1 DEF UserRec
      <4> HIDE DEF f
      <4>3. Genuine(WithUser(d, q.user, f))
        BY <4>1, <4>2, <1>0, WithUserGenuine DEF OpensInTime
      <4> QED BY <4>3 DEF f
    <3> QED BY <2>0, <2>2, <3>1, <3>2, <1>1 DEF Verify
  <2> QED BY <2>1, <2>2
<1>6. CASE q.op = "set_password"
  <2> DEFINE r == d.users[q.user]
             f == [r EXCEPT !.pw = q.pw, !.failed = 0, !.until = 0]
  <2>1. r # None => Genuine(WithUser(d, q.user, f))
    <3> SUFFICES ASSUME r # None PROVE Genuine(WithUser(d, q.user, f))
      OBVIOUS
    <3>1. f \in UserRec /\ f.pw = q.pw /\ f.failed = 0 /\ f.until = 0
      <4>1. r \in UserRec BY <1>2
      <4> HIDE DEF r
      <4> QED BY <4>1, <1>0 DEF UserRec
    <3>2. Known(q.user, q.pw)
      BY <1>6 DEF Known
    <3> HIDE DEF f
    <3> QED BY <1>0, <3>1, <3>2, WithUserGenuine DEF OpensInTime
  <2> QED BY <2>1, <1>1, <1>6 DEF Outcome, SetPassword
<1>7. CASE q.op = "delete"
  <2>1. Genuine(WithUser(d, q.user, None))
    BY <1>0, WithUserGenuine
  <2> QED BY <2>1, <1>1, <1>7 DEF Outcome, Delete
<1>8. CASE q.op = "set_pubkey"
  <2> DEFINE r == d.users[q.user]
             f == [r EXCEPT !.key = q.key]
  <2>1. r # None => Genuine(WithUser(d, q.user, f))
    <3> SUFFICES ASSUME r # None PROVE Genuine(WithUser(d, q.user, f))
      OBVIOUS
    <3>1. f \in UserRec /\ f.pw = r.pw /\ f.failed = r.failed /\ f.until = r.until
      <4>1. r \in UserRec BY <1>2
      <4> HIDE DEF r
      <4> QED BY <4>1, <1>0 DEF UserRec
    <3>2. Known(q.user, r.pw) /\ OpensInTime(r)
      BY <1>2
    <3> HIDE DEF f, r
    <3> QED BY <1>0, <3>1, <3>2, WithUserGenuine DEF OpensInTime
  <2> QED BY <2>1, <1>1, <1>8 DEF Outcome, SetPubkey
<1> QED BY <1>0, <1>3, <1>4, <1>5, <1>6, <1>7, <1>8 DEF Ops

\* A step whose contents are old ones, a fresh genuine one, or no data at all.
LEMMA CopiesStayGenuine ==
    ASSUME TypeOK, CopiesGenuine, NEW e, e \in Data => Genuine(e)',
           asked \subseteq asked', drawn \subseteq drawn',
           clock' \in Nat, clock <= clock',
           Copies' \subseteq Copies \cup {e, Empty, Garbage, NoAccounts}
    PROVE  \A d \in Copies' \ {Empty, Garbage} : d \in Data => Genuine(d)'
<1> SUFFICES ASSUME NEW d \in Copies', d \notin {Empty, Garbage}, d \in Data
             PROVE  Genuine(d)'
  OBVIOUS
<1>1. CASE d \in Copies
  <2>1. Genuine(d) BY <1>1 DEF CopiesGenuine
  <2> QED BY <2>1, StaysGenuine
<1>2. CASE d = e BY <1>2
<1>3. CASE d = NoAccounts
  <2>1. Genuine(NoAccounts) BY NoAccountsGenuine
  <2> QED BY <2>1, <1>3, NoAccountsIsData, StaysGenuine
<1> QED BY <1>1, <1>2, <1>3

\* Copies that are neither empty nor garbage are contents.
LEMMA CopiesAreData ==
    ASSUME TypeOK
    PROVE  \A d \in Copies \ {Empty, Garbage} : d \in Data
BY DEF TypeOK, Copies, Content

\* A call that ends makes no copy.
LEMMA LeaveCopies ==
    ASSUME TypeOK, NEW c \in Callers, Leave(c)
    PROVE  \A x \in Callers : buf'[x] = buf[x] \/ buf'[x] = NoAccounts
BY DEF Leave, TypeOK

\* A call that ends leaves those under way recorded.
LEMMA LeaveRecorded ==
    ASSUME TypeOK, CallsRecorded, NEW c \in Callers, Leave(c),
           asked' = asked, drawn' = drawn
    PROVE  CallsRecorded'
<1>1. \A x \in Callers : pc'[x] # "idle" => pc[x] # "idle" /\ req'[x] = req[x]
  BY DEF Leave, Goto, TypeOK
<1> QED BY <1>1 DEF CallsRecorded

\* At the start every copy is genuine.
LEMMA GenuineInit == Init => CopiesGenuine
<1> SUFFICES ASSUME Init PROVE CopiesGenuine
  OBVIOUS
<1>1. Genuine(Start)
  <2>1. Supported(Start)
    BY DEF Supported, Known, MayHaveUsed, Init
  <2>2. ShutForNow(Start)
    <3> SUFFICES ASSUME NEW u \in Users, Start.users[u] # None
                 PROVE  OpensInTime(Start.users[u])
      BY DEF ShutForNow
    <3>1. Start.users[u].failed = 0 /\ Start.users[u].until = 0
      BY StartIsOpen
    <3> QED BY <3>1 DEF Init, OpensInTime
  <2> QED BY <2>1, <2>2 DEF Genuine
<1>2. Copies \subseteq {Start, Empty, NoAccounts}
  BY DEF Copies, Init
<1>3. CallsRecorded
  BY DEF CallsRecorded, Init
<1> QED BY <1>1, <1>2, <1>3, NoAccountsGenuine DEF CopiesGenuine

\* Every step leaves every copy genuine.
LEMMA GenuineStep == TypeOK /\ TypeOK' /\ CopiesGenuine /\ [Next]_vars => CopiesGenuine'
<1> SUFFICES ASSUME TypeOK, TypeOK', CopiesGenuine, [Next]_vars PROVE CopiesGenuine'
  OBVIOUS
<1>0. clock \in Nat /\ clock' \in Nat /\ CallsRecorded
  BY DEF TypeOK, CopiesGenuine
\* what every action comes down to
<1>a. ASSUME NEW e, e \in Data => Genuine(e)',
             asked \subseteq asked', drawn \subseteq drawn', clock <= clock',
             Copies' \subseteq Copies \cup {e, Empty, Garbage, NoAccounts},
             CallsRecorded'
      PROVE  CopiesGenuine'
  <2>1. \A d \in Copies' \ {Empty, Garbage} : d \in Data
    <3>1. \A x \in Callers : buf'[x] \in Data BY DEF TypeOK
    <3>2. \A i \in Inodes : inode'[i] \in Data \cup {Empty, Garbage} BY DEF TypeOK, Content
    <3> QED BY <3>1, <3>2 DEF Copies
  <2> QED BY <1>a, <2>1, <1>0, CopiesStayGenuine DEF CopiesGenuine
<1>b. ASSUME NEW c \in Callers, Leave(c), UNCHANGED <<clock, inode, asked, drawn>>
      PROVE  CopiesGenuine'
  <2>1. Copies' \subseteq Copies \cup {NoAccounts, Empty, Garbage}
    BY <1>b, LeaveCopies DEF Copies
  <2>2. CallsRecorded'
    BY <1>b, <1>0, LeaveRecorded
  <2> QED BY <1>a, <1>b, <1>0, <2>1, <2>2
<1>c. ASSUME UNCHANGED <<buf, inode, asked, drawn, req>>, clock <= clock',
             \A x \in Callers : pc'[x] # "idle" => pc[x] # "idle"
      PROVE  CopiesGenuine'
  <2>1. Copies' = Copies
    BY <1>c DEF Copies
  <2>2. CallsRecorded'
    BY <1>c, <1>0 DEF CallsRecorded
  <2> QED BY <1>a, <1>c, <2>1, <2>2
<1>1. ASSUME NEW c \in Callers, Call(c) PROVE CopiesGenuine'
  <2>1. PICK q \in Requests[c] :
          /\ req' = [req EXCEPT ![c] = q]
          /\ drawn' = IF q.op = "new_invite" THEN drawn \cup {q.code} ELSE drawn
          /\ asked' = IF q.op \in {"create", "set_password"} THEN asked \cup {q} ELSE asked
    BY <1>1 DEF Call
  <2>2. Copies' = Copies /\ clock' = clock
    BY <1>1 DEF Call, Copies, file
  <2>3. CallsRecorded'
    <3>1. /\ q.op \in {"create", "set_password"} => q \in asked'
          /\ q.op = "new_invite" => q.code \in drawn'
          /\ asked \subseteq asked' /\ drawn \subseteq drawn'
      BY <2>1
    <3>2. pc' = [pc EXCEPT ![c] = "wait"]
      BY <1>1 DEF Call, Goto
    <3>3. \A x \in Callers : IF x = c THEN req'[x] = q ELSE req'[x] = req[x] /\ pc'[x] = pc[x]
      BY <2>1, <3>2 DEF TypeOK
    <3> QED BY <3>1, <3>3, <1>0 DEF CallsRecorded
  <2> QED BY <1>a, <1>0, <2>1, <2>2, <2>3
<1>2. ASSUME NEW c \in Callers, Acquire(c) PROVE CopiesGenuine'
  <2>1. UNCHANGED <<buf, inode, asked, drawn, req, clock>>
    BY <1>2 DEF Acquire, file, locals, history
  <2>2. \A x \in Callers : pc'[x] # "idle" => pc[x] # "idle"
    BY <1>2 DEF Acquire, Goto, TypeOK
  <2> QED BY <1>c, <1>0, <2>1, <2>2
<1>3. ASSUME NEW c \in Callers, Decide(c) PROVE CopiesGenuine'
  <2> DEFINE d == Read(inode[path])
             o == Outcome(req[c], c \in OpenReg, d, clock)
  <2>1. UNCHANGED <<clock, file>> /\ inode[path] \in Content /\ inode[path] # Empty
    BY <1>3 DEF Decide, TypeOK
  <2>2. CASE o.writes
    <3>1. req[c] \in Request /\ (c \in OpenReg) \in BOOLEAN
      BY <1>3 DEF TypeOK, Decide
    <3>2. d \in Data /\ Genuine(d)
      <4>1. d \in Data BY <2>1, ReadIsData
      <4>2. CASE inode[path] = Garbage
        <5>1. d = NoAccounts BY <4>2 DEF Read
        <5> HIDE DEF d
        <5> QED BY <5>1, <4>1, NoAccountsGenuine
      <4>3. CASE inode[path] # Garbage
        <5>1. inode[path] \in Copies
          BY DEF Copies, TypeOK
        <5>2. d = inode[path] BY <4>3 DEF Read
        <5>3. Genuine(inode[path])
          BY <5>1, <4>3, <2>1 DEF CopiesGenuine
        <5> QED BY <4>1, <5>2, <5>3
      <4> QED BY <4>1, <4>2, <4>3
    <3>3. /\ req[c].op \in {"create", "set_password"} => req[c] \in asked
          /\ req[c].op = "new_invite" => req[c].code \in drawn
      BY <1>0, <1>3 DEF CallsRecorded, Decide
    <3>4. Genuine(o.data)
      <4> HIDE DEF d
      <4> QED BY <3>1, <3>2, <3>3, <1>0, OutcomeGenuine
    <3>5. /\ buf' = [buf EXCEPT ![c] = o.data]
          /\ pc' = [pc EXCEPT ![c] = "open"]
          /\ UNCHANGED <<req, history>>
      BY <1>3, <2>2 DEF Decide, Goto
    <3>e. o.data \in Data
      <4> HIDE DEF d
      <4>1. o \in [data : Data, answer : Answers, writes : BOOLEAN]
        BY <3>1, <3>2, <1>0, OutcomeType
      <4> HIDE DEF o
      <4> QED BY <4>1
    <3> HIDE DEF o
    <3>f. PICK e \in Data : e = o.data
      BY <3>e
    <3>6. UNCHANGED <<asked, drawn, inode, clock, req>>
      BY <3>5, <2>1 DEF history, file
    <3>7. Copies' \subseteq Copies \cup {e}
      BY <3>5, <3>6, <3>f DEF Copies, TypeOK
    <3>8. CallsRecorded'
      <4>1. \A x \in Callers : pc'[x] # "idle" => pc[x] # "idle"
        BY <3>5, <1>3 DEF TypeOK, Decide
      <4> QED BY <4>1, <3>6, <1>0 DEF CallsRecorded
    <3>9. Genuine(e)'
      <4>1. Genuine(e) BY <3>4, <3>f
      <4> QED BY <4>1, <3>6, <1>0, StaysGenuine
    <3> QED BY <1>a, <1>0, <3>6, <3>7, <3>8, <3>9
  <2>3. CASE ~o.writes
    <3>1. Leave(c) /\ (UNCHANGED history \/ Record(c, req[c], o.answer, clock))
      BY <1>3, <2>3 DEF Decide
    <3> HIDE DEF o
    <3>2. UNCHANGED <<clock, inode, asked, drawn>>
      BY <2>1, <3>1 DEF file, history, Record
    <3> QED BY <1>b, <3>1, <3>2
  <2> QED BY <2>2, <2>3
<1>4. ASSUME NEW c \in Callers, DecideRaises(c) PROVE CopiesGenuine'
  BY <1>4, <1>b DEF DecideRaises, file, history
<1>5. ASSUME NEW c \in Callers, OpenTmp(c) PROVE CopiesGenuine'
  <2>1. PICK i : inode' = [inode EXCEPT ![i] = Empty]
    BY <1>5 DEF OpenTmp
  <2>2. UNCHANGED <<clock, req, buf, asked, drawn>>
    BY <1>5 DEF OpenTmp, history
  <2>3. Copies' \subseteq Copies \cup {Empty}
    BY <2>1, <2>2 DEF Copies, TypeOK
  <2>4. CallsRecorded'
    BY <1>0, <1>5, <2>2 DEF CallsRecorded, OpenTmp, Goto, TypeOK
  <2> QED BY <1>a, <1>0, <2>2, <2>3, <2>4
<1>6. ASSUME NEW c \in Callers, Fill(c) PROVE CopiesGenuine'
  <2>1. PICK d \in Overwritten(inode[fd[c]], buf[c]) : inode' = [inode EXCEPT ![fd[c]] = d]
    BY <1>6 DEF Fill
  <2>2. d = buf[c] \/ d = Garbage
    BY <2>1 DEF Overwritten
  <2>3. UNCHANGED <<clock, req, buf, asked, drawn>>
    BY <1>6 DEF Fill, history
  <2>4. Copies' \subseteq Copies \cup {Garbage}
    BY <2>1, <2>2, <2>3 DEF Copies, TypeOK
  <2>5. CallsRecorded'
    BY <1>0, <1>6, <2>3 DEF CallsRecorded, Fill, Goto, TypeOK
  <2> QED BY <1>a, <1>0, <2>3, <2>4, <2>5
<1>7. ASSUME NEW c \in Callers, ReplaceTmp(c) PROVE CopiesGenuine'
  <2>1. Leave(c) /\ UNCHANGED <<clock, asked, drawn>>
    BY <1>7 DEF ReplaceTmp, Record
  <2>2. inode' = inode \/ inode' = [inode EXCEPT ![path] = Empty]
    BY <1>7 DEF ReplaceTmp
  <2>3. Copies' \subseteq Copies \cup {Empty, NoAccounts}
    BY <2>1, <2>2, LeaveCopies DEF Copies, TypeOK
  <2>4. CallsRecorded'
    BY <2>1, <1>0, LeaveRecorded
  <2> QED BY <1>a, <1>0, <2>1, <2>3, <2>4
<1>8. ASSUME NEW c \in Callers, TmpIsGone(c) PROVE CopiesGenuine'
  BY <1>8, <1>b DEF TmpIsGone, file, history
<1>9. ASSUME NEW p \in Processes, Crash(p) PROVE CopiesGenuine'
  <2>1. UNCHANGED <<clock, inode, asked, drawn>>
    BY <1>9 DEF Crash, file, history
  <2>2. Copies' \subseteq Copies \cup {NoAccounts}
    BY <1>9, <2>1 DEF Crash, Copies
  <2>3. CallsRecorded'
    BY <1>0, <1>9, <2>1 DEF CallsRecorded, Crash
  <2> QED BY <1>a, <1>0, <2>1, <2>2, <2>3
<1>10. CASE Tick
  <2>1. UNCHANGED <<buf, inode, asked, drawn, req, pc>> /\ clock <= clock'
    BY <1>10, <1>0 DEF Tick, file, locals, history
  <2> QED BY <2>1, <1>c
<1>11. CASE UNCHANGED vars
  <2>1. UNCHANGED <<buf, inode, asked, drawn, req, pc, clock>>
    BY <1>11 DEF vars, file, locals, history
  <2> QED BY <2>1, <1>0, <1>c
<1> QED BY <1>1, <1>2, <1>3, <1>4, <1>5, <1>6, <1>7, <1>8, <1>9, <1>10, <1>11
        DEF Next, CallStep

\* Every copy of the account data anywhere is genuine, for any number of
\* processes that overwrite each other (accounts.py:79-174).
THEOREM AlwaysGenuine == Spec => []CopiesGenuine
<1>1. Init => TypeOK /\ CopiesGenuine BY TypeInit, GenuineInit
<1>2. TypeOK /\ CopiesGenuine /\ [Next]_vars => (TypeOK /\ CopiesGenuine)'
  BY TypeStep, GenuineStep
<1> QED BY <1>1, <1>2, PTL DEF Spec

\* No interleaving, torn write or kill brings a password, an invite or a
\* registration into the file that nobody asked for (accounts.py:79-158).
THEOREM NothingIsInvented == Spec => []NothingInvented
<1>1. CopiesGenuine => NothingInvented
  BY DEF CopiesGenuine, Genuine, NothingInvented
<1> QED BY <1>1, AlwaysGenuine, PTL

\* Every lockout is over after lock_minutes and gives back all the tries, even
\* when writes of the failure counter were lost or repeated (accounts.py:126-136).
THEOREM EveryLockoutEnds == Spec => []LockoutEnds
<1>1. CopiesGenuine => LockoutEnds
  BY DEF CopiesGenuine, Genuine, LockoutEnds
<1> QED BY <1>1, AlwaysGenuine, PTL

-----------------------------------------------------------------------------
(* Callers that share one lock. *)

\* Who works on the file under the lock holds it, after every step.
LEMMA LockHeldStep == TypeOK /\ LockHeld /\ [Next]_vars => LockHeld'
<1> SUFFICES ASSUME TypeOK, LockHeld, [Next]_vars, NEW o \in Callers, Locked(o)'
             PROVE  lock'[ProcOf[o]] = o
  BY DEF LockHeld
<1>0. /\ pc \in [Callers -> {"idle", "wait", "held", "open", "fill", "replace"}]
      /\ lock \in [Processes -> Callers \cup {NoCaller}]
      /\ ProcOf \in [Callers -> Processes]
      /\ Locked(o) => lock[ProcOf[o]] = o
  BY DEF TypeOK, LockHeld
<1>a. ASSUME NEW c \in Callers, Leave(c) PROVE lock'[ProcOf[o]] = o
  BY <1>a, <1>0 DEF Leave, Goto, Locked
<1>1. ASSUME NEW c \in Callers, Call(c) PROVE lock'[ProcOf[o]] = o
  BY <1>1, <1>0 DEF Call, Goto, Locked
<1>2. ASSUME NEW c \in Callers, Acquire(c) PROVE lock'[ProcOf[o]] = o
  BY <1>2, <1>0 DEF Acquire, Goto, Locked
<1>3. ASSUME NEW c \in Callers, Decide(c) PROVE lock'[ProcOf[o]] = o
  <2> DEFINE w == Outcome(req[c], c \in OpenReg, Read(inode[path]), clock)
  <2>1. Leave(c) \/ (pc' = [pc EXCEPT ![c] = "open"] /\ lock' = lock)
    <3>1. CASE w.writes BY <3>1, <1>3 DEF Decide, Goto
    <3>2. CASE ~w.writes BY <3>2, <1>3 DEF Decide
    <3> QED BY <3>1, <3>2
  <2> HIDE DEF w
  <2> QED BY <2>1, <1>3, <1>a, <1>0 DEF Decide, Locked
<1>4. ASSUME NEW c \in Callers, DecideRaises(c) PROVE lock'[ProcOf[o]] = o
  BY <1>4, <1>a DEF DecideRaises
<1>5. ASSUME NEW c \in Callers, OpenTmp(c) PROVE lock'[ProcOf[o]] = o
  BY <1>5, <1>0 DEF OpenTmp, Goto, Locked
<1>6. ASSUME NEW c \in Callers, Fill(c) PROVE lock'[ProcOf[o]] = o
  BY <1>6, <1>0 DEF Fill, Goto, Locked
<1>7. ASSUME NEW c \in Callers, ReplaceTmp(c) PROVE lock'[ProcOf[o]] = o
  BY <1>7, <1>a DEF ReplaceTmp
<1>8. ASSUME NEW c \in Callers, TmpIsGone(c) PROVE lock'[ProcOf[o]] = o
  BY <1>8, <1>a DEF TmpIsGone
<1>9. ASSUME NEW p \in Processes, Crash(p) PROVE lock'[ProcOf[o]] = o
  BY <1>9, <1>0 DEF Crash, Locked
<1>10. CASE Tick
  BY <1>10, <1>0 DEF Tick, Locked
<1>11. CASE UNCHANGED vars
  BY <1>11, <1>0 DEF vars, Locked
<1> QED BY <1>1, <1>2, <1>3, <1>4, <1>5, <1>6, <1>7, <1>8, <1>9, <1>10, <1>11
        DEF Next, CallStep

\* With one lock, whoever is past Acquire is alone there.
LEMMA OneAtATime ==
    ASSUME OneProcess, TypeOK, LockHeld, NEW c \in Callers, NEW o \in Callers,
           Locked(c), Locked(o)
    PROVE  c = o
BY DEF OneProcess, LockHeld

\* What a caller that is writing knows.
InHand(c) ==
    LET w == Outcome(req[c], c \in OpenReg, inode[path], at[c])
    IN  buf[c] = w.data /\ reply[c] = w.answer

OrderOf(c) ==
    /\ fd[c] # NoFile => pc[c] = "fill"
    /\ Writing(c) => InHand(c)
    /\ pc[c] = "fill" => tmp # NoFile /\ fd[c] = tmp /\ inode[tmp] = Empty
    /\ pc[c] = "replace" => tmp # NoFile /\ inode[tmp] = buf[c]

\* The order of the file, caller by caller.
LEMMA OrderParts ==
    FileInOrder <=> /\ inode[path] \in Data /\ path # tmp
                    /\ \A c \in Callers : OrderOf(c)
BY DEF FileInOrder, OrderOf, InHand

\* A step that leaves the file and a caller's locals alone leaves it in order.
LEMMA OrderKept ==
    ASSUME NEW o \in Callers, OrderOf(o),
           inode'[path'] = inode[path],
           pc'[o] = "fill" \/ pc'[o] = "replace" => tmp' = tmp /\ inode'[tmp] = inode[tmp],
           \/ pc'[o] = pc[o] /\ req'[o] = req[o] /\ at'[o] = at[o]
              /\ buf'[o] = buf[o] /\ reply'[o] = reply[o] /\ fd'[o] = fd[o]
           \/ ~Writing(o)' /\ fd'[o] = NoFile
    PROVE  OrderOf(o)'
<1>1. CASE ~Writing(o)' /\ fd'[o] = NoFile
  BY <1>1 DEF OrderOf, Writing
<1>2. CASE /\ pc'[o] = pc[o] /\ req'[o] = req[o] /\ at'[o] = at[o]
           /\ buf'[o] = buf[o] /\ reply'[o] = reply[o] /\ fd'[o] = fd[o]
  <2>1. InHand(o)' <=> InHand(o)
    BY <1>2 DEF InHand
  <2> QED BY <1>2, <2>1 DEF OrderOf, Writing
<1> QED BY <1>1, <1>2

\* A call that ends leaves the locals of the others alone.
LEMMA LeaveFacts ==
    ASSUME TypeOK, NEW c \in Callers, Leave(c), NEW o \in Callers
    PROVE  \/ pc'[o] = pc[o] /\ req'[o] = req[o] /\ at'[o] = at[o]
              /\ buf'[o] = buf[o] /\ reply'[o] = reply[o] /\ fd'[o] = fd[o]
           \/ o = c /\ ~Writing(o)' /\ fd'[o] = NoFile
BY DEF TypeOK, Leave, Goto, Writing

\* Under one lock every step leaves the file in order.
LEMMA OrderStep ==
    ASSUME OneProcess, TypeOK, LockHeld, FileInOrder, [Next]_vars
    PROVE  FileInOrder'
<1>0. /\ inode[path] \in Data /\ path # tmp
      /\ \A c \in Callers : OrderOf(c)
      /\ path \in Inodes /\ NoFile \notin Inodes
      /\ inode \in [Inodes -> Content]
      /\ Empty \notin Data /\ Garbage \notin Data
  BY OrderParts DEF TypeOK
<1>t. /\ pc \in [Callers -> {"idle", "wait", "held", "open", "fill", "replace"}]
      /\ req \in [Callers -> Request \cup {NoCall}]
      /\ at \in [Callers -> Nat] /\ buf \in [Callers -> Data]
      /\ reply \in [Callers -> {"none", "ok", "no", "error"}]
      /\ fd \in [Callers -> Inodes \cup {NoFile}]
      /\ tmp \in Inodes \cup {NoFile}
  BY DEF TypeOK
<1> SUFFICES /\ inode'[path'] \in Data /\ path' # tmp'
             /\ \A c \in Callers : OrderOf(c)'
  BY DEF FileInOrder, OrderOf, InHand
<1>a. ASSUME NEW c \in Callers, Leave(c), UNCHANGED file
      PROVE  /\ inode'[path'] \in Data /\ path' # tmp'
             /\ \A o \in Callers : OrderOf(o)'
  <2>1. UNCHANGED <<path, tmp, inode>> BY <1>a DEF file
  <2> SUFFICES ASSUME NEW o \in Callers PROVE OrderOf(o)'
    BY <2>1, <1>0
  <2> QED BY <2>1, <1>0, <1>a, LeaveFacts, OrderKept
<1>1. ASSUME NEW c \in Callers, Call(c)
      PROVE  /\ inode'[path'] \in Data /\ path' # tmp'
             /\ \A o \in Callers : OrderOf(o)'
  <2>1. UNCHANGED <<path, tmp, inode, at, buf, reply, fd>> /\ pc' = [pc EXCEPT ![c] = "wait"]
    BY <1>1 DEF Call, Goto, file
  <2>2. PICK q \in Requests[c] : req' = [req EXCEPT ![c] = q]
    BY <1>1 DEF Call
  <2>3. pc[c] = "idle" BY <1>1 DEF Call
  <2> SUFFICES ASSUME NEW o \in Callers PROVE OrderOf(o)'
    BY <2>1, <1>0
  <2>4. CASE o = c
    <3>1. ~Writing(o)' /\ fd'[o] = NoFile
      BY <2>1, <2>3, <2>4, <1>0, <1>t DEF Writing, OrderOf
    <3> QED BY <3>1, <2>1, <1>0, OrderKept
  <2>5. CASE o # c
    BY <2>5, <2>1, <2>2, <1>0, <1>t, OrderKept
  <2> QED BY <2>4, <2>5
<1>2. ASSUME NEW c \in Callers, Acquire(c)
      PROVE  /\ inode'[path'] \in Data /\ path' # tmp'
             /\ \A o \in Callers : OrderOf(o)'
  <2>1. /\ UNCHANGED <<path, tmp, inode, req, at, buf, reply, fd>>
        /\ pc' = [pc EXCEPT ![c] = "held"] /\ pc[c] = "wait"
    BY <1>2 DEF Acquire, Goto, file, locals
  <2> SUFFICES ASSUME NEW o \in Callers PROVE OrderOf(o)'
    BY <2>1, <1>0
  <2>2. CASE o = c
    <3>1. ~Writing(o)' /\ fd'[o] = NoFile
      BY <2>1, <2>2, <1>0, <1>t DEF Writing, OrderOf
    <3> QED BY <3>1, <2>1, <1>0, OrderKept
  <2>3. CASE o # c
    BY <2>3, <2>1, <1>0, <1>t, OrderKept
  <2> QED BY <2>2, <2>3
<1>3. ASSUME NEW c \in Callers, Decide(c)
      PROVE  /\ inode'[path'] \in Data /\ path' # tmp'
             /\ \A o \in Callers : OrderOf(o)'
  <2> DEFINE d == Read(inode[path])
             w == Outcome(req[c], c \in OpenReg, d, clock)
  <2>1. UNCHANGED <<path, tmp, inode>> /\ pc[c] = "held"
    BY <1>3 DEF Decide, file
  <2>2. d = inode[path]
    BY <1>0 DEF Read
  <2>3. CASE w.writes
    <3>1. /\ buf' = [buf EXCEPT ![c] = w.data]
          /\ reply' = [reply EXCEPT ![c] = w.answer]
          /\ at' = [at EXCEPT ![c] = clock]
          /\ pc' = [pc EXCEPT ![c] = "open"]
          /\ UNCHANGED <<req, fd>>
      BY <1>3, <2>3 DEF Decide, Goto
    <3> HIDE DEF d
    <3> SUFFICES ASSUME NEW o \in Callers PROVE OrderOf(o)'
      BY <2>1, <1>0
    <3>2. CASE o = c
      <4>1. buf'[c] = w.data /\ reply'[c] = w.answer /\ at'[c] = clock /\ pc'[c] = "open"
            /\ req'[c] = req[c] /\ fd'[c] = fd[c]
        BY <3>1, <1>t
      <4>2. InHand(c)'
        BY <4>1, <2>1, <2>2 DEF InHand
      <4>3. fd[c] = NoFile
        BY <2>1, <1>0 DEF OrderOf
      <4> QED BY <3>2, <4>1, <4>2, <4>3 DEF OrderOf
    <3>3. CASE o # c
      <4> HIDE DEF w
      <4> QED BY <3>3, <3>1, <2>1, <1>0, <1>t, OrderKept
    <3> QED BY <3>2, <3>3
  <2>4. CASE ~w.writes
    BY <2>4, <1>3, <1>a DEF Decide
  <2> QED BY <2>3, <2>4
<1>4. ASSUME NEW c \in Callers, DecideRaises(c)
      PROVE  /\ inode'[path'] \in Data /\ path' # tmp'
             /\ \A o \in Callers : OrderOf(o)'
  BY <1>4, <1>a DEF DecideRaises
<1>5. ASSUME NEW c \in Callers, OpenTmp(c)
      PROVE  /\ inode'[path'] \in Data /\ path' # tmp'
             /\ \A o \in Callers : OrderOf(o)'
  <2>1. PICK i \in Inodes : /\ tmp' = i /\ fd' = [fd EXCEPT ![c] = i]
                            /\ inode' = [inode EXCEPT ![i] = Empty]
                            /\ i # path
    BY <1>5, <1>0, FreeInodeExists DEF OpenTmp, FreeInodes, TypeOK
  <2>2. /\ UNCHANGED <<path, req, at, buf, reply>>
        /\ pc' = [pc EXCEPT ![c] = "fill"] /\ pc[c] = "open"
    BY <1>5 DEF OpenTmp, Goto
  <2>3. inode'[path'] = inode[path]
    BY <2>1, <2>2, <1>0
  <2> SUFFICES ASSUME NEW o \in Callers PROVE OrderOf(o)'
    BY <2>1, <2>2, <2>3, <1>0
  <2>4. CASE o = c
    <3>1. pc'[c] = "fill" /\ fd'[c] = i /\ inode'[i] = Empty /\ i # NoFile
      BY <2>1, <2>2, <1>0, <1>t
    <3>2. InHand(c)' <=> InHand(c)
      BY <2>2, <2>3 DEF InHand
    <3>3. InHand(c)
      BY <2>2, <1>0 DEF OrderOf, Writing
    <3> QED BY <2>4, <3>1, <3>2, <3>3, <2>1 DEF OrderOf
  <2>5. CASE o # c
    <3>1. ~Locked(o)
      BY <2>5, <2>2, OneAtATime DEF Locked
    <3>2. ~Writing(o)' /\ fd'[o] = NoFile
      BY <3>1, <2>5, <2>1, <2>2, <1>0, <1>t DEF Locked, Writing, OrderOf
    <3> QED BY <3>2 DEF OrderOf, Writing
  <2> QED BY <2>4, <2>5
<1>6. ASSUME NEW c \in Callers, Fill(c)
      PROVE  /\ inode'[path'] \in Data /\ path' # tmp'
             /\ \A o \in Callers : OrderOf(o)'
  <2>1. /\ UNCHANGED <<path, tmp, req, at, buf, reply>>
        /\ pc' = [pc EXCEPT ![c] = "replace"] /\ pc[c] = "fill"
        /\ fd' = [fd EXCEPT ![c] = NoFile]
    BY <1>6 DEF Fill, Goto
  <2>2. tmp \in Inodes /\ fd[c] = tmp /\ inode[tmp] = Empty /\ InHand(c)
    BY <2>1, <1>0, <1>t DEF OrderOf, Writing
  <2>3. inode' = [inode EXCEPT ![tmp] = buf[c]]
    BY <1>6, <2>2 DEF Fill, Overwritten
  <2>4. inode'[path'] = inode[path] /\ inode'[tmp] = buf[c]
    BY <2>1, <2>2, <2>3, <1>0
  <2> SUFFICES ASSUME NEW o \in Callers PROVE OrderOf(o)'
    BY <2>1, <2>4, <1>0
  <2>5. CASE o = c
    <3>1. pc'[c] = "replace" /\ fd'[c] = NoFile
      BY <2>1, <1>t
    <3>2. InHand(c)' <=> InHand(c)
      BY <2>1, <2>4 DEF InHand
    <3> QED BY <2>5, <3>1, <3>2, <2>1, <2>2, <2>4, <1>0 DEF OrderOf
  <2>6. CASE o # c
    <3>1. ~Locked(o)
      BY <2>6, <2>1, OneAtATime DEF Locked
    <3>2. ~Writing(o)' /\ fd'[o] = NoFile
      BY <3>1, <2>6, <2>1, <1>0, <1>t DEF Locked, Writing, OrderOf
    <3> QED BY <3>2 DEF OrderOf, Writing
  <2> QED BY <2>5, <2>6
<1>7. ASSUME NEW c \in Callers, ReplaceTmp(c)
      PROVE  /\ inode'[path'] \in Data /\ path' # tmp'
             /\ \A o \in Callers : OrderOf(o)'
  <2>1. /\ path' = tmp /\ tmp' = NoFile /\ pc[c] = "replace" /\ Leave(c)
        /\ inode' = inode \/ inode' = [inode EXCEPT ![path] = Empty]
    BY <1>7 DEF ReplaceTmp
  <2>2. tmp \in Inodes /\ inode[tmp] = buf[c]
    BY <2>1, <1>0, <1>t DEF OrderOf
  <2>3. inode'[path'] = buf[c]
    BY <2>1, <2>2, <1>0
  <2> SUFFICES ASSUME NEW o \in Callers PROVE OrderOf(o)'
    BY <2>1, <2>2, <2>3, <1>0, <1>t
  <2>4. ~Writing(o)' /\ fd'[o] = NoFile
    <3>1. CASE o = c
      BY <3>1, <2>1, <1>t DEF Leave, Goto, Writing
    <3>2. CASE o # c
      <4>1. ~Locked(o)
        BY <3>2, <2>1, OneAtATime DEF Locked
      <4> QED BY <4>1, <3>2, <2>1, <1>0, <1>t DEF Locked, Writing, OrderOf, Leave, Goto
    <3> QED BY <3>1, <3>2
  <2> QED BY <2>4 DEF OrderOf, Writing
<1>8. ASSUME NEW c \in Callers, TmpIsGone(c)
      PROVE  /\ inode'[path'] \in Data /\ path' # tmp'
             /\ \A o \in Callers : OrderOf(o)'
  BY <1>8, <1>a DEF TmpIsGone
<1>9. ASSUME NEW p \in Processes, Crash(p)
      PROVE  /\ inode'[path'] \in Data /\ path' # tmp'
             /\ \A o \in Callers : OrderOf(o)'
  <2>1. UNCHANGED <<path, tmp, inode>> BY <1>9 DEF Crash, file
  <2> SUFFICES ASSUME NEW o \in Callers PROVE OrderOf(o)'
    BY <2>1, <1>0
  <2>2. \/ pc'[o] = pc[o] /\ req'[o] = req[o] /\ at'[o] = at[o]
           /\ buf'[o] = buf[o] /\ reply'[o] = reply[o] /\ fd'[o] = fd[o]
        \/ ~Writing(o)' /\ fd'[o] = NoFile
    BY <1>9 DEF Crash, Writing
  <2> QED BY <2>1, <2>2, <1>0, OrderKept
<1>10. ASSUME Tick \/ UNCHANGED vars
       PROVE  /\ inode'[path'] \in Data /\ path' # tmp'
              /\ \A o \in Callers : OrderOf(o)'
  <2>1. UNCHANGED <<path, tmp, inode, pc, req, at, buf, reply, fd>>
    BY <1>10 DEF Tick, vars, file, locals
  <2> SUFFICES ASSUME NEW o \in Callers PROVE OrderOf(o)'
    BY <2>1, <1>0
  <2> QED BY <2>1, <1>0, OrderKept
<1> QED BY <1>1, <1>2, <1>3, <1>4, <1>5, <1>6, <1>7, <1>8, <1>9, <1>10 DEF Next, CallStep

\* At the start the file is in order.
LEMMA OrderInit == Init => FileInOrder
<1> SUFFICES ASSUME Init PROVE FileInOrder
  OBVIOUS
<1>1. path \in Inodes BY TypeInit DEF TypeOK
<1>2. inode[path] = Start /\ path # tmp BY <1>1 DEF Init
<1> QED BY <1>2 DEF Init, FileInOrder, Writing

\* The account file under one lock.
LEMMA OneLock ==
    ASSUME OneProcess
    PROVE  Spec => [](TypeOK /\ LockHeld /\ FileInOrder)
<1>1. Init => TypeOK /\ LockHeld /\ FileInOrder
  <2>1. Init => LockHeld BY DEF Init, LockHeld, Locked
  <2> QED BY <2>1, TypeInit, OrderInit
<1>2. TypeOK /\ LockHeld /\ FileInOrder /\ [Next]_vars => (TypeOK /\ LockHeld /\ FileInOrder)'
  BY TypeStep, LockHeldStep, OrderStep
<1> QED BY <1>1, <1>2, PTL DEF Spec

\* The threads of one process never leave the account file empty or torn, not
\* even when they are killed in the middle of a write (accounts.py:57-61).
THEOREM OneProcessKeepsFileWhole ==
    ASSUME OneProcess
    PROVE  Spec => []FileIsWhole
<1>1. FileInOrder => FileIsWhole BY DEF FileInOrder, FileIsWhole
<1> QED BY <1>1, OneLock, PTL

\* The threads of one process change the account file only by whole calls, each
\* applied to what the file holds when it is replaced (accounts.py:82, 97, 119).
THEOREM OneProcessUpdatesAtomically ==
    ASSUME OneProcess
    PROVE  Spec => AtomicUpdates
<1> DEFINE Atomic ==
      inode[path]' # inode[path] =>
         \E c \in Callers :
           /\ pc[c] = "replace" /\ inode[path] \in Data
           /\ LET o == Outcome(req[c], c \in OpenReg, inode[path], at[c])
              IN  inode[path]' = o.data /\ reply[c] = o.answer
<1>1. TypeOK /\ LockHeld /\ FileInOrder /\ [Next]_vars => [Atomic]_vars
  <2> SUFFICES ASSUME TypeOK, LockHeld, FileInOrder, [Next]_vars, inode'[path'] # inode[path]
               PROVE  \E c \in Callers :
                        /\ pc[c] = "replace" /\ inode[path] \in Data
                        /\ LET o == Outcome(req[c], c \in OpenReg, inode[path], at[c])
                           IN  inode'[path'] = o.data /\ reply[c] = o.answer
    OBVIOUS
  <2>0. /\ path \in Inodes /\ inode \in [Inodes -> Content] /\ inode[path] \in Data
        /\ path # tmp /\ tmp \in Inodes \cup {NoFile}
    BY DEF TypeOK, FileInOrder
  <2>1. ASSUME NEW c \in Callers, OpenTmp(c) PROVE FALSE
    <3>1. PICK i \in Inodes : inode' = [inode EXCEPT ![i] = Empty] /\ i # path
      BY <2>1, <2>0, FreeInodeExists DEF OpenTmp, FreeInodes
    <3> QED BY <3>1, <2>0, <2>1 DEF OpenTmp
  <2>2. ASSUME NEW c \in Callers, Fill(c) PROVE FALSE
    <3>1. fd[c] = tmp BY <2>2 DEF Fill, FileInOrder
    <3> QED BY <3>1, <2>0, <2>2 DEF Fill
  <2>3. ASSUME NEW c \in Callers, ReplaceTmp(c)
        PROVE  \E o \in Callers :
                 /\ pc[o] = "replace" /\ inode[path] \in Data
                 /\ LET w == Outcome(req[o], o \in OpenReg, inode[path], at[o])
                    IN  inode'[path'] = w.data /\ reply[o] = w.answer
    <3>1. /\ pc[c] = "replace" /\ path' = tmp /\ tmp # NoFile
          /\ inode' = inode \/ inode' = [inode EXCEPT ![path] = Empty]
      BY <2>3 DEF ReplaceTmp
    <3>2. inode[tmp] = buf[c] BY <3>1 DEF FileInOrder
    <3>3. inode'[path'] = buf[c] BY <3>1, <3>2, <2>0
    <3> QED BY <3>1, <3>3, <2>0 DEF FileInOrder, Writing
  <2>4. CASE \/ \E c \in Callers : Call(c) \/ Acquire(c) \/ Decide(c) \/ DecideRaises(c) \/ TmpIsGone(c)
             \/ \E p \in Processes : Crash(p)
             \/ Tick \/ UNCHANGED vars
    <3>1. UNCHANGED <<path, inode>>
      BY <2>4 DEF Call, Acquire, Decide, DecideRaises, TmpIsGone, Crash, Tick, vars, file
    <3> QED BY <3>1
  <2> QED BY <2>1, <2>2, <2>3, <2>4 DEF Next, CallStep
<1>2. Spec => [][Atomic]_vars
  BY <1>1, OneLock, PTL DEF Spec
<1> QED BY <1>2 DEF AtomicUpdates

-----------------------------------------------------------------------------
(* Invites under one lock. *)

\* A method touches the invite of its own call at most: new_invite makes it free,
\* create turns a free one into the user's.
LEMMA OutcomeInvites ==
    ASSUME NEW q \in Request, NEW open \in BOOLEAN, NEW d \in Data, NEW t \in Nat
    PROVE  LET o == Outcome(q, open, d, t) IN
           /\ \A i \in Codes : o.data.invites[i] # d.invites[i] =>
                /\ i = q.code
                /\ \/ q.op = "new_invite" /\ o.data.invites[i] = Unused
                   \/ q.op = "create" /\ d.invites[i] = Unused /\ o.data.invites[i] = q.user
           /\ q.op = "create" /\ ~open /\ o.answer = "ok" =>
                o.writes /\ d.invites[q.code] = Unused /\ o.data.invites[q.code] = q.user
<1>0. q.user \in Users /\ q.code \in Codes /\ q.op \in Ops
  BY DEF Request
<1>1. \A x, a : /\ Refusal(x, a).data = x /\ Refusal(x, a).answer = a
                /\ Update(x, a).data = x /\ Update(x, a).writes = TRUE
  BY DEF Refusal, Update
<1>2. CASE q.op = "new_invite"
  BY <1>2, <1>0, <1>1 DEF Outcome, NewInvite, Data
<1>3. CASE q.op = "create"
  <2> DEFINE u == WithUser(d, q.user, [pw |-> q.pw, failed |-> 0, until |-> 0, key |-> None])
             v == [u EXCEPT !.invites[q.code] = q.user]
  <2>1. Outcome(q, open, d, t) = Create(d, q, open)
    BY <1>3 DEF Outcome
  <2>2. u.invites = d.invites
    BY DEF WithUser, Data
  <2>3. \A i \in Codes : v.invites[i] = IF i = q.code THEN q.user ELSE d.invites[i]
    <3>1. u \in [users : [Users -> UserRec \cup {None}], invites : [Codes -> Users \cup {Unused, None}]]
      <4>1. [pw |-> q.pw, failed |-> 0, until |-> 0, key |-> None] \in UserRec
        BY DEF Request, UserRec
      <4> QED BY <4>1, <1>0, WithUserIsData DEF Data
    <3> HIDE DEF u
    <3> QED BY <3>1, <2>2, <1>0
  <2>4. CASE d.users[q.user] # None \/ ~(open \/ InviteIsFree(d, q.code))
    <3>1. Create(d, q, open) = Refusal(d, "error") BY <2>4 DEF Create
    <3> QED BY <3>1, <2>1, <1>1
  <2>5. CASE ~(d.users[q.user] # None \/ ~(open \/ InviteIsFree(d, q.code)))
    <3>1. Create(d, q, open) = Update(IF open THEN u ELSE v, "ok") BY <2>5 DEF Create
    <3> HIDE DEF u, v
    <3>2. CASE open
      <4>0. Create(d, q, open) = Update(u, "ok") BY <3>1, <3>2
      <4>1. Outcome(q, open, d, t).data = u BY <4>0, <2>1, <1>1
      <4> QED BY <4>1, <2>2, <3>2
    <3>3. CASE ~open
      <4>1. Outcome(q, open, d, t).data = v /\ Outcome(q, open, d, t).writes = TRUE
        BY <3>1, <3>3, <2>1, <1>1
      <4>2. d.invites[q.code] = Unused BY <2>5, <3>3 DEF InviteIsFree
      <4> QED BY <4>1, <4>2, <2>3, <1>0, <1>3
    <3> QED BY <3>2, <3>3
  <2> QED BY <2>4, <2>5
<1>4. CASE q.op \in {"verify", "set_password", "delete", "set_pubkey"}
  <2>1. \A u, r : WithUser(d, u, r).invites = d.invites
    BY DEF WithUser, Data
  <2>2. CASE q.op = "verify"
    BY <2>1, <2>2, <1>1 DEF Outcome, Verify
  <2>3. CASE q.op = "set_password"
    BY <2>1, <2>3, <1>1 DEF Outcome, SetPassword
  <2>4. CASE q.op = "delete"
    BY <2>1, <2>4, <1>1 DEF Outcome, Delete
  <2>5. CASE q.op = "set_pubkey"
    BY <2>1, <2>5, <1>1 DEF Outcome, SetPubkey
  <2> QED BY <1>4, <2>2, <2>3, <2>4, <2>5
<1> QED BY <1>0, <1>2, <1>3, <1>4 DEF Ops

\* A step that leaves the invites of the file and the history alone, and starts
\* no call, keeps the invites in order.
LEMMA InvitesKept ==
    ASSUME InvitesInOrder, inode'[path'].invites = inode[path].invites,
           joined' = joined, drawn' = drawn,
           \A c \in Callers : pc'[c] # "idle" => pc[c] # "idle" /\ req'[c] = req[c]
    PROVE  InvitesInOrder'
<1>1. \A c \in Callers : Adding(c)' => Adding(c) /\ req'[c] = req[c]
  BY DEF Adding
<1> QED BY <1>1 DEF InvitesInOrder

\* After a call has ended, those under way are others, as they were.
LEMMA LeaveCalls ==
    ASSUME TypeOK, NEW c \in Callers, Leave(c), NEW o \in Callers, pc'[o] # "idle"
    PROVE  o # c /\ pc[o] # "idle" /\ pc'[o] = pc[o] /\ req'[o] = req[o]
BY DEF TypeOK, Leave, Goto

\* Under one lock every step leaves the invites in order.
LEMMA InvitesStep ==
    ASSUME OneProcess, TypeOK, LockHeld, FileInOrder, InvitesInOrder, [Next]_vars
    PROVE  InvitesInOrder'
<1>0. /\ path \in Inodes /\ inode \in [Inodes -> Content] /\ inode[path] \in Data
      /\ path # tmp /\ tmp \in Inodes \cup {NoFile}
      /\ pc \in [Callers -> {"idle", "wait", "held", "open", "fill", "replace"}]
      /\ req \in [Callers -> Request \cup {NoCall}]
      /\ clock \in Nat /\ joined \subseteq Users \X Codes
  BY DEF TypeOK, FileInOrder
<1>1. ASSUME NEW c \in Callers, Call(c) PROVE InvitesInOrder'
  <2>1. PICK q \in Requests[c] :
          /\ q.op = "new_invite" => q.code \notin drawn
          /\ req' = [req EXCEPT ![c] = q]
          /\ drawn' = IF q.op = "new_invite" THEN drawn \cup {q.code} ELSE drawn
    BY <1>1 DEF Call
  <2>2. /\ pc' = [pc EXCEPT ![c] = "wait"] /\ UNCHANGED <<path, inode, joined>>
    BY <1>1 DEF Call, Goto, file
  <2>3. q.code \in Codes BY <2>1 DEF Request
  <2>4. \A o \in Callers : IF o = c THEN req'[o] = q
                                    ELSE req'[o] = req[o] /\ pc'[o] = pc[o]
    BY <2>1, <2>2, <1>0
  <2>5. \A o \in Callers \ {c} : Adding(o)' => Adding(o) /\ req'[o] = req[o]
    BY <2>4 DEF Adding
  <2>6. Adding(c)' => q.op = "new_invite" BY <2>4 DEF Adding
  <2> QED BY <2>1, <2>2, <2>3, <2>4, <2>5, <2>6 DEF InvitesInOrder
<1>2. ASSUME NEW c \in Callers, Acquire(c) PROVE InvitesInOrder'
  <2>1. UNCHANGED <<path, inode, joined, drawn, req>>
    BY <1>2 DEF Acquire, file, locals, history
  <2>2. \A o \in Callers : pc'[o] # "idle" => pc[o] # "idle"
    BY <1>2, <1>0 DEF Acquire, Goto
  <2> QED BY <2>1, <2>2, InvitesKept
<1>3. ASSUME NEW c \in Callers, Decide(c) PROVE InvitesInOrder'
  <2> DEFINE d == Read(inode[path])
             w == Outcome(req[c], c \in OpenReg, d, clock)
  <2>1. UNCHANGED <<path, inode>> /\ pc[c] = "held"
    BY <1>3 DEF Decide, file
  <2>2. joined' = joined /\ drawn' = drawn
    <3>1. CASE w.writes BY <3>1, <1>3 DEF Decide, history
    <3>2. CASE ~w.writes
      <4>1. UNCHANGED history \/ Record(c, req[c], w.answer, clock)
        BY <3>2, <1>3 DEF Decide
      <4>2. req[c] \in Request /\ (c \in OpenReg) \in BOOLEAN
        BY <2>1 DEF TypeOK
      <4>3. d = inode[path] BY <1>0 DEF Read
      <4>4. ~(req[c].op = "create" /\ c \notin OpenReg /\ w.answer = "ok")
        <5> HIDE DEF d
        <5> QED BY <4>2, <4>3, <1>0, <3>2, OutcomeInvites
      <4> HIDE DEF w
      <4> QED BY <4>1, <4>4 DEF history, Record
    <3> QED BY <3>1, <3>2
  <2>3. \A o \in Callers : pc'[o] # "idle" => pc[o] # "idle" /\ req'[o] = req[o]
    <3>1. CASE w.writes
      <4>1. pc' = [pc EXCEPT ![c] = "open"] /\ req' = req
        BY <3>1, <1>3 DEF Decide, Goto
      <4> QED BY <4>1, <2>1, <1>0
    <3>2. CASE ~w.writes
      <4>1. Leave(c) BY <3>2, <1>3 DEF Decide
      <4> QED BY <4>1, LeaveCalls
    <3> QED BY <3>1, <3>2
  <2> QED BY <2>1, <2>2, <2>3, InvitesKept
<1>4. ASSUME NEW c \in Callers, Leave(c), UNCHANGED <<path, inode, joined, drawn>>
      PROVE  InvitesInOrder'
  BY <1>4, LeaveCalls, InvitesKept
<1>5. ASSUME NEW c \in Callers, OpenTmp(c) \/ Fill(c) PROVE InvitesInOrder'
  <2>1. UNCHANGED <<path, joined, drawn, req>>
    BY <1>5 DEF OpenTmp, Fill, history
  <2>2. inode'[path] = inode[path]
    <3>1. CASE OpenTmp(c)
      <4>1. PICK i \in Inodes : inode' = [inode EXCEPT ![i] = Empty] /\ i # path
        BY <3>1, <1>0, FreeInodeExists DEF OpenTmp, FreeInodes
      <4> QED BY <4>1, <1>0
    <3>2. CASE Fill(c)
      <4>1. fd[c] = tmp BY <3>2 DEF Fill, FileInOrder
      <4> QED BY <4>1, <3>2, <1>0 DEF Fill
    <3> QED BY <1>5, <3>1, <3>2
  <2>3. \A o \in Callers : pc'[o] # "idle" => pc[o] # "idle"
    BY <1>5, <1>0 DEF OpenTmp, Fill, Goto
  <2> QED BY <2>1, <2>2, <2>3, InvitesKept
<1>6. ASSUME NEW c \in Callers, ReplaceTmp(c) PROVE InvitesInOrder'
  <2> DEFINE d == inode[path]
             w == Outcome(req[c], c \in OpenReg, d, at[c])
             e == inode'[path']
             q == req[c]
  <2>1. /\ pc[c] = "replace" /\ path' = tmp /\ tmp # NoFile /\ Leave(c)
        /\ inode' = inode \/ inode' = [inode EXCEPT ![path] = Empty]
        /\ Record(c, req[c], reply[c], at[c])
    BY <1>6 DEF ReplaceTmp
  <2>2. inode[tmp] = buf[c] /\ buf[c] = w.data /\ reply[c] = w.answer
    BY <2>1 DEF FileInOrder, Writing
  <2>3. e = w.data
    BY <2>1, <2>2, <1>0
  <2>4. q \in Request /\ at[c] \in Nat /\ (c \in OpenReg) \in BOOLEAN
        /\ q.code \in Codes /\ q.user \in Users
    BY <2>1 DEF TypeOK, Request
  <2>5. /\ \A i \in Codes : e.invites[i] # d.invites[i] =>
             /\ i = q.code
             /\ \/ q.op = "new_invite" /\ e.invites[i] = Unused
                \/ q.op = "create" /\ d.invites[i] = Unused /\ e.invites[i] = q.user
        /\ q.op = "create" /\ c \notin OpenReg /\ w.answer = "ok" =>
             d.invites[q.code] = Unused /\ e.invites[q.code] = q.user
    <3>1. PICK open \in BOOLEAN : open = (c \in OpenReg)
      BY <2>4
    <3> HIDE DEF q
    <3>2. LET o == Outcome(q, open, d, at[c]) IN
           /\ \A i \in Codes : o.data.invites[i] # d.invites[i] =>
                /\ i = q.code
                /\ \/ q.op = "new_invite" /\ o.data.invites[i] = Unused
                   \/ q.op = "create" /\ d.invites[i] = Unused /\ o.data.invites[i] = q.user
           /\ q.op = "create" /\ ~open /\ o.answer = "ok" =>
                o.writes /\ d.invites[q.code] = Unused /\ o.data.invites[q.code] = q.user
      BY <2>4, <1>0, OutcomeInvites
    <3>3. w = Outcome(q, open, d, at[c])
      BY <3>1 DEF q
    <3> HIDE DEF w, e, d
    <3> QED BY <3>1, <3>2, <3>3, <2>3
  <2>6. joined' = joined \/ (/\ joined' = joined \cup {<<q.user, q.code>>}
                             /\ e.invites[q.code] = q.user)
    BY <2>1, <2>2, <2>5 DEF Record
  <2>7. drawn' = drawn BY <2>1 DEF Record
  <2>8. q.op = "new_invite" => /\ q.code \in drawn /\ d.invites[q.code] = None
                               /\ \A o \in Callers \ {c} : Adding(o) => req[o].code # q.code
    BY <2>1 DEF InvitesInOrder, Adding
  <2> HIDE DEF w, e
  <2>9. \A a \in joined : e.invites[a[2]] = a[1]
    <3> SUFFICES ASSUME NEW a \in joined PROVE e.invites[a[2]] = a[1]
      OBVIOUS
    <3>1. a[1] \in Users /\ a[2] \in Codes /\ d.invites[a[2]] = a[1]
      BY <1>0 DEF InvitesInOrder
    <3>2. a[1] # Unused /\ a[1] # None
      BY <3>1
    <3> QED BY <3>1, <3>2, <2>5, <2>8
  <2>10. \A a \in joined' : e.invites[a[2]] = a[1]
    BY <2>6, <2>9
  <2>11. \A i \in Codes : e.invites[i] # None => i \in drawn
    <3> SUFFICES ASSUME NEW i \in Codes, e.invites[i] # None PROVE i \in drawn
      OBVIOUS
    <3>1. d.invites[i] # None => i \in drawn BY DEF InvitesInOrder
    <3>2. Unused # None OBVIOUS
    <3> QED BY <3>1, <3>2, <2>5, <2>8
  <2>12. ASSUME NEW o \in Callers, Adding(o)'
         PROVE  /\ o # c /\ Adding(o) /\ req'[o] = req[o]
                /\ e.invites[req[o].code] = None
    <3>1. o # c /\ Adding(o) /\ req'[o] = req[o]
      BY <2>1, <2>12, LeaveCalls DEF Adding
    <3>2. req[o].code \in Codes
      BY <3>1 DEF TypeOK, Adding, Request
    <3>3. d.invites[req[o].code] = None
      BY <3>1 DEF InvitesInOrder
    <3>4. Unused # None OBVIOUS
    <3> QED BY <3>1, <3>2, <3>3, <3>4, <2>5, <2>8
  <2> QED BY <2>7, <2>10, <2>11, <2>12 DEF InvitesInOrder, e
<1>7. ASSUME NEW p \in Processes, Crash(p) PROVE InvitesInOrder'
  <2>1. UNCHANGED <<path, inode, joined, drawn>>
    BY <1>7 DEF Crash, file, history
  <2>2. \A o \in Callers : pc'[o] # "idle" => pc[o] # "idle" /\ req'[o] = req[o]
    BY <1>7 DEF Crash
  <2> QED BY <2>1, <2>2, InvitesKept
<1>8. CASE Tick \/ UNCHANGED vars
  <2>1. UNCHANGED <<path, inode, joined, drawn, pc, req>>
    BY <1>8 DEF Tick, vars, file, history, locals
  <2> QED BY <2>1, InvitesKept
<1>9. ASSUME NEW c \in Callers, DecideRaises(c) \/ TmpIsGone(c) PROVE InvitesInOrder'
  BY <1>4, <1>9 DEF DecideRaises, TmpIsGone, file, history
<1> QED BY <1>1, <1>2, <1>3, <1>5, <1>6, <1>7, <1>8, <1>9 DEF Next, CallStep

\* Under one lock no two registrations succeed with one invite code
\* (accounts.py:101-103; docs/tor-setup.md:117, "one-time invite codes").
THEOREM OneProcessUsesInvitesOnce ==
    ASSUME OneProcess
    PROVE  Spec => []InviteUsedOnce
<1> DEFINE Inv == TypeOK /\ LockHeld /\ FileInOrder /\ InvitesInOrder
<1>1. Init => Inv
  <2>1. Init => LockHeld BY DEF Init, LockHeld, Locked
  <2>2. Init => TypeOK /\ FileInOrder BY TypeInit, OrderInit
  <2>3. Init => InvitesInOrder
    BY <2>2 DEF Init, InvitesInOrder, Adding, TypeOK
  <2> QED BY <2>1, <2>2, <2>3
<1>2. Inv /\ [Next]_vars => Inv'
  BY TypeStep, LockHeldStep, OrderStep, InvitesStep
<1>3. Inv => InviteUsedOnce
  <2> SUFFICES ASSUME TypeOK, InvitesInOrder, NEW a \in joined, NEW b \in joined, a[2] = b[2]
               PROVE  a = b
    BY DEF InviteUsedOnce
  <2>1. a[1] = b[1] BY DEF InvitesInOrder
  <2>2. a \in Users \X Codes /\ b \in Users \X Codes BY DEF TypeOK
  <2> QED BY <2>1, <2>2
<1> QED BY <1>1, <1>2, <1>3, PTL DEF Spec

-----------------------------------------------------------------------------
(* Guesses under one lock.

   GuessRate is not inductive: that the next guess is late enough depends on the
   record.  GuessesInOrder says what the record knows of the guesses: all but the
   failed ones it counts happened before it was locked, at least the lockout time
   before the lock ends; and since it counts fewer than max_failed of them, the
   guess max_failed before the next is among those. *)

Spaced(g) == \A i \in 1 .. Len(g) - MaxFailed : g[i + MaxFailed] >= g[i] + LockFor

\* the record r and the guesses g at time t
Agree(r, g, t) ==
    g \in Seq(Nat) /\ Counted(r, g) /\ Spaced(g) /\ \A i \in DOMAIN g : g[i] <= t

\* the guesses after the answer a to q at time t, to whose user g is known
After(q, a, t, g) ==
    CASE q.op = "verify" /\ a = "no" -> Append(g, t)
      [] q.op \in {"create", "verify", "set_password", "delete"} /\ a = "ok" -> <<>>
      [] OTHER -> g

\* One more wrong password at an account that is open is counted, and in time.
LEMMA OneMoreGuess ==
    ASSUME NEW r \in UserRec, NEW g, NEW t \in Nat, r # None, Agree(r, g, t), r.until <= t
    PROVE  Agree(CountFailure(r, t), Append(g, t), t)
<1> DEFINE h == Append(g, t)
           n == Len(g)
<1>a. g \in Seq(Nat) /\ Counted(r, g) /\ Spaced(g) /\ \A i \in DOMAIN g : g[i] <= t
  BY DEF Agree
<1>1. /\ n \in Nat /\ h \in Seq(Nat) /\ Len(h) = n + 1 /\ DOMAIN g = 1..n /\ DOMAIN h = 1..(n + 1)
      /\ h[n + 1] = t /\ \A i \in 1..n : h[i] = g[i] /\ g[i] \in Nat
  BY <1>a
<1>2. MaxFailed \in Nat /\ MaxFailed > 0 /\ LockFor \in Nat /\ r.failed \in Nat /\ r.until \in Nat
  BY DEF UserRec
<1>3. /\ r.failed <= n /\ r.failed < MaxFailed
      /\ \A i \in 1 .. n - r.failed : g[i] + LockFor <= r.until
  BY <1>a DEF Counted
<1> HIDE DEF h
<1>4. \A i \in 1..(n + 1) : h[i] <= t
  <2> SUFFICES ASSUME NEW i \in 1..(n + 1) PROVE h[i] <= t
    OBVIOUS
  <2>1. CASE i = n + 1
    BY <1>1, <2>1
  <2>2. CASE i # n + 1
    <3>1. i \in 1..n
      BY <1>1, <2>2
    <3> QED
      BY <1>a, <1>1, <3>1
  <2> QED
    BY <2>1, <2>2
<1>5. Spaced(h)
  <2> SUFFICES ASSUME NEW i \in 1 .. Len(h) - MaxFailed
               PROVE  h[i + MaxFailed] >= h[i] + LockFor
    BY DEF Spaced
  <2>1. i \in Nat /\ i >= 1 /\ i + MaxFailed <= n + 1 /\ i \in 1..n
    BY <1>1, <1>2
  <2>2. CASE i + MaxFailed = n + 1
    <3>1. i \in 1 .. n - r.failed
      BY <1>1, <1>2, <1>3, <2>1, <2>2
    <3>2. g[i] + LockFor <= r.until /\ g[i] \in Nat /\ h[i] = g[i]
      BY <1>1, <1>3, <2>1, <3>1
    <3> QED
      BY <1>1, <1>2, <2>2, <3>2
  <2>3. CASE i + MaxFailed # n + 1
    <3>1. i + MaxFailed \in 1..n /\ i \in 1 .. Len(g) - MaxFailed
      BY <1>1, <1>2, <2>1, <2>3
    <3>2. g[i + MaxFailed] >= g[i] + LockFor
      BY <1>a, <3>1 DEF Spaced
    <3> QED
      BY <1>1, <2>1, <3>1, <3>2
  <2> QED
    BY <2>2, <2>3
<1>6. Counted(CountFailure(r, t), h)
  <2> DEFINE c == CountFailure(r, t)
  <2>1. c \in UserRec /\ c # None
    BY CountFailureType
  <2>2. CASE r.failed + 1 >= MaxFailed
    <3>1. c.failed = 0 /\ c.until = t + LockFor
      BY <2>2 DEF CountFailure, UserRec
    <3>2. \A i \in 1 .. Len(h) - c.failed : h[i] + LockFor <= c.until
      <4> SUFFICES ASSUME NEW i \in 1 .. Len(h) - c.failed PROVE h[i] + LockFor <= c.until
        OBVIOUS
      <4>1. i \in 1..(n + 1)
        BY <1>1, <3>1
      <4>2. h[i] <= t /\ h[i] \in Nat
        BY <1>1, <1>4, <4>1
      <4> QED
        BY <1>2, <3>1, <4>2
    <3> QED
      BY <1>1, <1>2, <2>1, <3>1, <3>2 DEF Counted
  <2>3. CASE ~(r.failed + 1 >= MaxFailed)
    <3>1. c.failed = r.failed + 1 /\ c.until = r.until
      BY <2>3 DEF CountFailure, UserRec
    <3>2. \A i \in 1 .. Len(h) - c.failed : h[i] + LockFor <= c.until
      <4> SUFFICES ASSUME NEW i \in 1 .. Len(h) - c.failed PROVE h[i] + LockFor <= c.until
        OBVIOUS
      <4>1. i \in 1 .. n - r.failed /\ i \in 1..n
        BY <1>1, <1>2, <3>1
      <4> QED
        BY <1>1, <1>3, <3>1, <4>1
    <3> QED
      BY <1>1, <1>2, <1>3, <2>1, <2>3, <3>1, <3>2 DEF Counted
  <2> QED
    BY <2>2, <2>3
<1> QED
  BY <1>1, <1>4, <1>5, <1>6 DEF h, Agree

\* No guesses agree with no record, and with one that counts none.
LEMMA NoGuesses ==
    ASSUME NEW r \in UserRec \cup {None}, NEW t, r # None => r.failed = 0
    PROVE  Agree(r, <<>>, t)
<1>1. 0 < MaxFailed /\ 0 <= 0
  OBVIOUS
<1>2. Counted(r, <<>>)
  BY <1>1 DEF Counted
<1> QED
  BY <1>2 DEF Agree, Spaced

\* What a method makes of the record agrees with what its answer adds to the guesses.
LEMMA OutcomeCounts ==
    ASSUME NEW q \in Request, NEW open \in BOOLEAN, NEW d \in Data, NEW t \in Nat,
           NEW g, Agree(d.users[q.user], g, t)
    PROVE  LET o == Outcome(q, open, d, t) IN
           /\ ~o.writes => o.data = d
           /\ \A u \in Users \ {q.user} : o.data.users[u] = d.users[u]
           /\ IF q.op = "verify" /\ d.users[q.user] = None THEN ~o.writes
              ELSE Agree(o.data.users[q.user], After(q, o.answer, t, g), t)
<1> DEFINE u == q.user
           r == d.users[u]
           Good(o) == /\ ~o.writes => o.data = d
                      /\ \A v \in Users \ {u} : o.data.users[v] = d.users[v]
                      /\ Agree(o.data.users[u], After(q, o.answer, t, g), t)
<1>0. u \in Users /\ q.op \in Ops /\ (r # None => r \in UserRec) /\ None \notin UserRec
  BY DEF Request, Data
<1>1. ASSUME NEW a, NEW h, After(q, a, t, g) = h, Agree(r, h, t) PROVE Good(Refusal(d, a))
  BY <1>1 DEF Refusal
<1>2. ASSUME NEW a, NEW h, After(q, a, t, g) = h, NEW s, NEW x, Agree(s, h, t),
             x.users = [d.users EXCEPT ![u] = s]
      PROVE  Good(Update(x, a))
  <2>1. x.users[u] = s /\ \A v \in Users \ {u} : x.users[v] = d.users[v]
    BY <1>0, <1>2 DEF Data
  <2> QED
    BY <1>2, <2>1 DEF Update
<1>3. ASSUME NEW a, NEW h, After(q, a, t, g) = h, NEW s \in UserRec \cup {None}, Agree(s, h, t)
      PROVE  Good(Update(WithUser(d, u, s), a))
  <2>1. WithUser(d, u, s).users = [d.users EXCEPT ![u] = s]
    BY <1>0, WithUserIsData
  <2> HIDE DEF Good
  <2> QED
    BY <1>2, <1>3, <2>1
<1> HIDE DEF Good
<1>4. SUFFICES (q.op = "verify" /\ r = None) \/ Good(Outcome(q, open, d, t))
  <2>1. CASE q.op = "verify" /\ r = None
    <3>1. Outcome(q, open, d, t) = Refusal(d, "no")
      BY <2>1 DEF Outcome, Verify
    <3> QED
      BY <2>1, <3>1 DEF Refusal
  <2>2. CASE ~(q.op = "verify" /\ r = None)
    BY <1>4, <2>2 DEF Good
  <2> QED
    BY <2>1, <2>2
<1>7. CASE q.op = "new_invite"
  <2> DEFINE x == [d EXCEPT !.invites[q.code] = Unused]
  <2>1. Outcome(q, open, d, t) = Update(x, "ok")
    BY <1>7 DEF Outcome, NewInvite
  <2>2. x.users = [d.users EXCEPT ![u] = r]
    BY <1>0 DEF Data
  <2>3. After(q, "ok", t, g) = g
    BY <1>7 DEF After
  <2> HIDE DEF x
  <2> QED
    BY <1>2, <2>1, <2>2, <2>3
<1>8. CASE q.op = "create"
  <2>0. After(q, "ok", t, g) = <<>> /\ After(q, "error", t, g) = g
    BY <1>8 DEF After
  <2> DEFINE new == [pw |-> q.pw, failed |-> 0, until |-> 0, key |-> None]
             w == WithUser(d, u, new)
             v == [w EXCEPT !.invites[q.code] = u]
  <2>1. Outcome(q, open, d, t) = Create(d, q, open)
    BY <1>8 DEF Outcome
  <2>2. CASE r # None \/ ~(open \/ InviteIsFree(d, q.code))
    <3>1. Create(d, q, open) = Refusal(d, "error")
      BY <2>2 DEF Create
    <3> QED
      BY <1>1, <2>0, <2>1, <3>1
  <2>3. CASE ~(r # None \/ ~(open \/ InviteIsFree(d, q.code)))
    <3>1. Create(d, q, open) = Update(IF open THEN w ELSE v, "ok")
      BY <2>3 DEF Create
    <3>2. new \in UserRec /\ new.failed = 0
      BY DEF Request, UserRec
    <3> HIDE DEF new
    <3>3. w \in Data /\ w.users = [d.users EXCEPT ![u] = new]
      BY <1>0, <3>2, WithUserIsData
    <3>4. v.users = [d.users EXCEPT ![u] = new]
      <4> HIDE DEF w
      <4> QED
        BY <3>3 DEF Data
    <3>5. Agree(new, <<>>, t)
      BY <3>2, NoGuesses
    <3> HIDE DEF w, v
    <3>6. Good(Update(w, "ok")) /\ Good(Update(v, "ok"))
      BY <1>2, <2>0, <3>3, <3>4, <3>5
    <3> QED
      BY <2>1, <3>1, <3>6
  <2> QED
    BY <2>2, <2>3
<1>9. CASE q.op = "verify"
  <2>0. /\ After(q, "ok", t, g) = <<>> /\ After(q, "no", t, g) = Append(g, t)
        /\ After(q, "error", t, g) = g
    BY <1>9 DEF After
  <2>1. Outcome(q, open, d, t) = Verify(d, q, t)
    BY <1>9 DEF Outcome
  <2>2. CASE r = None
    BY <1>9, <2>2
  <2>3. CASE r # None /\ r.until > t
    <3>1. Verify(d, q, t) = Refusal(d, "error")
      BY <2>3 DEF Verify
    <3> QED
      BY <1>1, <2>0, <2>1, <3>1
  <2>4. CASE r # None /\ ~(r.until > t) /\ q.pw # r.pw
    <3>1. Verify(d, q, t) = Update(WithUser(d, u, CountFailure(r, t)), "no")
      BY <2>4 DEF Verify
    <3>2. r \in UserRec /\ r.until <= t
      BY <1>0, <2>4 DEF UserRec
    <3>3. PICK h : h = Append(g, t)
      OBVIOUS
    <3>4. PICK s : s = CountFailure(r, t)
      OBVIOUS
    <3>5. s \in UserRec /\ Agree(s, h, t)
      BY <2>4, <3>2, <3>3, <3>4, OneMoreGuess, CountFailureType
    <3>6. After(q, "no", t, g) = h
      BY <2>0, <3>3
    <3>7. Good(Update(WithUser(d, u, s), "no"))
      BY <1>3, <3>5, <3>6
    <3> QED
      BY <2>1, <3>1, <3>4, <3>7
  <2>5. CASE r # None /\ ~(r.until > t) /\ q.pw = r.pw
    <3>1. CASE r.failed # 0 \/ r.until # 0
      <4> DEFINE s == [r EXCEPT !.failed = 0, !.until = 0]
      <4>1. Verify(d, q, t) = Update(WithUser(d, u, s), "ok")
        BY <2>5, <3>1 DEF Verify
      <4>2. s \in UserRec /\ s.failed = 0
        BY <1>0, <2>5 DEF UserRec
      <4> HIDE DEF s
      <4>3. Agree(s, <<>>, t)
        BY <4>2, NoGuesses
      <4> QED
        BY <1>3, <2>0, <2>1, <4>1, <4>2, <4>3
    <3>2. CASE ~(r.failed # 0 \/ r.until # 0)
      <4>1. Verify(d, q, t) = Refusal(d, "ok")
        BY <2>5, <3>2 DEF Verify
      <4>2. Agree(r, <<>>, t)
        BY <1>0, <2>5, <3>2, NoGuesses
      <4> QED
        BY <1>1, <2>0, <2>1, <4>1, <4>2
    <3> QED
      BY <3>1, <3>2
  <2> QED
    BY <2>2, <2>3, <2>4, <2>5
<1>10. CASE q.op = "set_password"
  <2>0. After(q, "ok", t, g) = <<>> /\ After(q, "error", t, g) = g
    BY <1>10 DEF After
  <2>1. Outcome(q, open, d, t) = SetPassword(d, q)
    BY <1>10 DEF Outcome
  <2>2. CASE r = None
    BY <1>1, <2>0, <2>1, <2>2 DEF SetPassword
  <2>3. CASE r # None
    <3> DEFINE s == [r EXCEPT !.pw = q.pw, !.failed = 0, !.until = 0]
    <3>1. SetPassword(d, q) = Update(WithUser(d, u, s), "ok")
      BY <2>3 DEF SetPassword
    <3>2. s \in UserRec /\ s.failed = 0
      BY <1>0, <2>3 DEF UserRec, Request
    <3> HIDE DEF s
    <3>3. Agree(s, <<>>, t)
      BY <3>2, NoGuesses
    <3> QED
      BY <1>3, <2>0, <2>1, <3>1, <3>2, <3>3
  <2> QED
    BY <2>2, <2>3
<1>11. CASE q.op = "delete"
  <2>1. After(q, "ok", t, g) = <<>> /\ Outcome(q, open, d, t) = Update(WithUser(d, u, None), "ok")
    BY <1>11 DEF After, Outcome, Delete
  <2>2. Agree(None, <<>>, t)
    BY NoGuesses
  <2> QED
    BY <1>3, <2>1, <2>2
<1>12. CASE q.op = "set_pubkey"
  <2>0. After(q, "ok", t, g) = g /\ After(q, "error", t, g) = g
    BY <1>12 DEF After
  <2>1. Outcome(q, open, d, t) = SetPubkey(d, q)
    BY <1>12 DEF Outcome
  <2>2. CASE r = None
    BY <1>1, <2>0, <2>1, <2>2 DEF SetPubkey
  <2>3. CASE r # None
    <3> DEFINE s == [r EXCEPT !.key = q.key]
    <3>1. SetPubkey(d, q) = Update(WithUser(d, u, s), "ok")
      BY <2>3 DEF SetPubkey
    <3>2. s \in UserRec /\ s.failed = r.failed /\ s.until = r.until
      BY <1>0, <2>3 DEF UserRec, Request
    <3> HIDE DEF s
    <3>3. Agree(s, g, t)
      BY <1>0, <2>3, <3>2 DEF Agree, Counted
    <3> QED
      BY <1>3, <2>0, <2>1, <3>1, <3>2, <3>3
  <2> QED
    BY <2>2, <2>3
<1> QED
  BY <1>0, <1>7, <1>8, <1>9, <1>10, <1>11, <1>12 DEF Ops


\* An unknown user's login is not written, and what is not written is not changed.
LEMMA OutcomeKeeps ==
    ASSUME NEW q \in Request, NEW open \in BOOLEAN, NEW d \in Data, NEW t \in Nat,
           NEW w, w = Outcome(q, open, d, t), NEW g, Agree(d.users[q.user], g, t)
    PROVE  /\ ~w.writes => w.data = d
           /\ q.op = "verify" /\ d.users[q.user] = None => ~w.writes
BY OutcomeCounts

\* the guesses once the answer a to the call q, decided at time t, is given
NewGuesses(q, a, t) ==
    \A u \in Users : guesses'[u] = IF u = q.user THEN After(q, a, t, guesses[u])
                                                 ELSE guesses[u]

\* What an answer adds to the guesses at one user, and to nobody else's.
LEMMA GuessesRecorded ==
    ASSUME TypeOK, NEW c, NEW q \in Request, NEW a, NEW t, Record(c, q, a, t)
    PROVE  NewGuesses(q, a, t)
<1>1. guesses \in [Users -> Seq(Nat)] /\ q.user \in Users
  BY DEF TypeOK, Request
<1>2. CASE q.op = "verify" /\ a = "no"
  BY <1>1, <1>2 DEF Record, After, NewGuesses
<1>3. CASE q.op \in {"create", "verify", "set_password", "delete"} /\ a = "ok"
  BY <1>1, <1>3 DEF Record, After, NewGuesses
<1>4. CASE /\ ~(q.op = "verify" /\ a = "no")
           /\ ~(q.op \in {"create", "verify", "set_password", "delete"} /\ a = "ok")
  <2>1. guesses' = guesses /\ After(q, a, t, guesses[q.user]) = guesses[q.user]
    BY <1>4 DEF Record, After, NewGuesses
  <2> QED
    BY <1>1, <2>1 DEF NewGuesses
<1> QED
  BY <1>2, <1>3, <1>4

\* A step that leaves the users of the file and the guesses alone, and lets
\* nobody begin to write, keeps the guesses in order.
LEMMA GuessesKept ==
    ASSUME TypeOK, GuessesInOrder, clock' \in Nat, clock <= clock',
           inode'[path'].users = inode[path].users, guesses' = guesses,
           \A c \in Callers : Writing(c)' => Writing(c) /\ req'[c] = req[c] /\ at'[c] = at[c]
    PROVE  GuessesInOrder'
<1>1. /\ clock \in Nat /\ \A c \in Callers : at[c] \in Nat
      /\ \A u \in Users : \A i \in DOMAIN guesses[u] : guesses[u][i] \in Nat
  BY DEF TypeOK
<1>2. \A u \in Users : /\ Counted(inode'[path'].users[u], guesses'[u])
                       /\ \A i \in DOMAIN guesses'[u] : guesses'[u][i] <= clock'
  BY <1>1 DEF GuessesInOrder
<1>3. ASSUME NEW c \in Callers, Writing(c)'
      PROVE  /\ at'[c] <= clock'
             /\ \A u \in Users : \A i \in DOMAIN guesses'[u] : guesses'[u][i] <= at'[c]
             /\ req'[c].op = "verify" => inode'[path'].users[req'[c].user] # None
  BY <1>1, <1>3 DEF GuessesInOrder
<1>4. GuessRate'
  BY DEF GuessesInOrder, GuessRate
<1> QED
  BY <1>2, <1>3, <1>4 DEF GuessesInOrder, Counted

\* The end of a call q that decided at t keeps the guesses in order, if no
\* guess is later than t and nobody writes afterwards.
LEMMA GuessesAnswered ==
    ASSUME TypeOK, GuessesInOrder,
           NEW q \in Request, NEW open \in BOOLEAN, NEW d \in Data, NEW t \in Nat, NEW w,
           d = inode[path], w = Outcome(q, open, d, t),
           ~(q.op = "verify" /\ d.users[q.user] = None), t <= clock,
           \A u \in Users : \A i \in DOMAIN guesses[u] : guesses[u][i] <= t,
           inode'[path'].users = w.data.users, clock' = clock,
           NewGuesses(q, w.answer, t),
           \A c \in Callers : ~Writing(c)'
    PROVE  GuessesInOrder'
<1>1. guesses \in [Users -> Seq(Nat)] /\ clock \in Nat /\ q.user \in Users
  BY DEF TypeOK, Request
<1>2. \A u \in Users : Agree(d.users[u], guesses[u], t)
  BY <1>1 DEF GuessesInOrder, GuessRate, Agree, Spaced
<1>3. PICK g : g = guesses[q.user]
  OBVIOUS
<1>4. /\ \A u \in Users \ {q.user} : w.data.users[u] = d.users[u]
      /\ Agree(w.data.users[q.user], After(q, w.answer, t, g), t)
  <2>1. Agree(d.users[q.user], g, t)
    BY <1>1, <1>2, <1>3
  <2> QED
    BY <2>1, OutcomeCounts
<1>5. \A u \in Users : Agree(w.data.users[u], guesses'[u], t)
  <2> SUFFICES ASSUME NEW u \in Users PROVE Agree(w.data.users[u], guesses'[u], t)
    OBVIOUS
  <2>1. CASE u = q.user
    <3>1. guesses'[u] = After(q, w.answer, t, g)
      BY <1>1, <1>3, <2>1 DEF NewGuesses
    <3> QED
      BY <1>4, <2>1, <3>1
  <2>2. CASE u # q.user
    <3>1. guesses'[u] = guesses[u] /\ w.data.users[u] = d.users[u]
      BY <1>1, <1>4, <2>2 DEF NewGuesses
    <3> QED
      BY <1>2, <3>1
  <2> QED
    BY <2>1, <2>2
<1>6. \A u \in Users : /\ Counted(inode'[path'].users[u], guesses'[u])
                       /\ Spaced(guesses'[u])
                       /\ \A i \in DOMAIN guesses'[u] : guesses'[u][i] <= clock'
  <2> SUFFICES ASSUME NEW u \in Users
               PROVE  /\ Counted(inode'[path'].users[u], guesses'[u])
                      /\ Spaced(guesses'[u])
                      /\ \A i \in DOMAIN guesses'[u] : guesses'[u][i] <= clock'
    OBVIOUS
  <2>1. PICK h : h = guesses'[u]
    OBVIOUS
  <2>2. h \in Seq(Nat) /\ Counted(w.data.users[u], h) /\ Spaced(h) /\ \A i \in DOMAIN h : h[i] <= t
    BY <1>5, <2>1 DEF Agree
  <2>3. \A i \in DOMAIN h : h[i] \in Nat
    BY <2>2
  <2>4. \A i \in DOMAIN h : h[i] <= clock'
    BY <1>1, <2>2, <2>3
  <2> QED
    BY <2>1, <2>2, <2>4
<1>7. GuessRate'
  BY <1>6 DEF GuessRate, Spaced
<1> QED
  BY <1>6, <1>7 DEF GuessesInOrder, Counted

\* Under one lock every step leaves the guesses in order.
LEMMA GuessesStep ==
    ASSUME OneProcess, TypeOK, TypeOK', LockHeld, FileInOrder, GuessesInOrder, [Next]_vars
    PROVE  GuessesInOrder'
<1>0. /\ path \in Inodes /\ inode \in [Inodes -> Content] /\ inode[path] \in Data
      /\ path # tmp /\ tmp \in Inodes \cup {NoFile}
      /\ pc \in [Callers -> {"idle", "wait", "held", "open", "fill", "replace"}]
      /\ req \in [Callers -> Request \cup {NoCall}] /\ at \in [Callers -> Nat]
      /\ clock \in Nat /\ clock' \in Nat /\ clock <= clock
  BY DEF TypeOK, FileInOrder
<1>a. ASSUME NEW c \in Callers, Leave(c), UNCHANGED <<path, inode, guesses, clock>>
      PROVE  GuessesInOrder'
  <2>1. \A o \in Callers : Writing(o)' => Writing(o) /\ req'[o] = req[o] /\ at'[o] = at[o]
    BY <1>a, LeaveFacts DEF Writing
  <2> QED
    BY <1>0, <1>a, <2>1, GuessesKept
<1>b. ASSUME NEW c \in Callers, Locked(c), Leave(c)
      PROVE  \A o \in Callers : ~Writing(o)'
  <2> SUFFICES ASSUME NEW o \in Callers, Writing(o)' PROVE FALSE
    OBVIOUS
  <2>1. pc'[o] # "idle"
    BY DEF Writing
  <2>2. o # c /\ pc'[o] = pc[o]
    BY <1>b, <2>1, LeaveCalls
  <2>3. Locked(o)
    BY <2>2 DEF Writing, Locked
  <2> QED
    BY <1>b, <2>2, <2>3, OneAtATime
<1>1. ASSUME NEW c \in Callers, Call(c) \/ Acquire(c) PROVE GuessesInOrder'
  <2>1. /\ UNCHANGED <<path, inode, guesses, clock, at>>
        /\ \/ pc' = [pc EXCEPT ![c] = "wait"] /\ \E q : req' = [req EXCEPT ![c] = q]
           \/ pc' = [pc EXCEPT ![c] = "held"] /\ req' = req
    BY <1>1 DEF Call, Acquire, Goto, file, locals, history
  <2>2. \A o \in Callers : Writing(o)' => Writing(o) /\ req'[o] = req[o] /\ at'[o] = at[o]
    BY <1>0, <2>1 DEF Writing
  <2> QED
    BY <1>0, <2>1, <2>2, GuessesKept
<1>2. ASSUME NEW c \in Callers, Decide(c) PROVE GuessesInOrder'
  <2>0. /\ pc[c] = "held" /\ Locked(c) /\ UNCHANGED <<path, inode, clock>>
        /\ req[c] \in Request /\ (c \in OpenReg) \in BOOLEAN
    BY <1>2 DEF Decide, file, Locked, TypeOK
  <2>1. PICK d \in Data, q \in Request, open \in BOOLEAN, t \in Nat :
          d = inode[path] /\ q = req[c] /\ open = (c \in OpenReg) /\ t = clock
    BY <1>0, <2>0
  <2>2. PICK w : w = Outcome(q, open, d, t)
    OBVIOUS
  <2>3. Read(inode[path]) = d /\ w = Outcome(req[c], c \in OpenReg, Read(inode[path]), clock)
    BY <1>0, <2>1, <2>2 DEF Read
  <2>4. IF w.writes
          THEN /\ at' = [at EXCEPT ![c] = clock] /\ pc' = [pc EXCEPT ![c] = "open"]
               /\ UNCHANGED <<req, guesses>>
          ELSE /\ Leave(c)
               /\ IF q.op = "verify" /\ d.users[q.user] = None
                    THEN guesses' = guesses ELSE Record(c, q, w.answer, t)
    BY <1>2, <2>1, <2>3 DEF Decide, Goto, history
  <2>5. \A u \in Users : \A i \in DOMAIN guesses[u] : guesses[u][i] <= t
    BY <2>1 DEF GuessesInOrder
  <2>6. \A u \in Users : Agree(d.users[u], guesses[u], t)
    BY <2>1, <2>5 DEF GuessesInOrder, GuessRate, Agree, Spaced, TypeOK
  <2>7. /\ ~w.writes => w.data = d
        /\ q.op = "verify" /\ d.users[q.user] = None => ~w.writes
    <3>1. q \in Request /\ open \in BOOLEAN /\ d \in Data /\ t \in Nat /\ q.user \in Users
      BY <2>1 DEF Request
    <3>2. Agree(d.users[q.user], guesses[q.user], t)
      BY <2>6, <3>1
    <3> QED
      BY <2>2, <3>1, <3>2, OutcomeKeeps
  <2>8. CASE w.writes
    <3>1. UNCHANGED <<req, guesses>> /\ at'[c] = clock /\ \A o \in Callers \ {c} : pc'[o] = pc[o]
      BY <1>0, <2>4, <2>8
    <3>2. \A o \in Callers : Writing(o)' => o = c
      BY <2>0, <3>1, OneAtATime DEF Writing, Locked
    <3>3. \A u \in Users : /\ Counted(inode'[path'].users[u], guesses'[u])
                           /\ \A i \in DOMAIN guesses'[u] : guesses'[u][i] <= clock'
      BY <2>0, <3>1 DEF GuessesInOrder
    <3>4. ASSUME NEW o \in Callers, Writing(o)'
          PROVE  /\ at'[o] <= clock'
                 /\ \A u \in Users : \A i \in DOMAIN guesses'[u] : guesses'[u][i] <= at'[o]
                 /\ req'[o].op = "verify" => inode'[path'].users[req'[o].user] # None
      BY <1>0, <2>0, <2>1, <2>5, <2>7, <2>8, <3>1, <3>2, <3>4
    <3>5. GuessRate'
      BY <3>1 DEF GuessesInOrder, GuessRate
    <3> QED
      BY <3>3, <3>4, <3>5 DEF GuessesInOrder, Counted
  <2>9. CASE ~w.writes
    <3>1. CASE q.op = "verify" /\ d.users[q.user] = None
      BY <1>a, <2>0, <2>4, <2>9, <3>1
    <3>2. CASE ~(q.op = "verify" /\ d.users[q.user] = None)
      <4>1. NewGuesses(q, w.answer, t)
        BY <2>4, <2>9, <3>2, GuessesRecorded
      <4>2. inode'[path'].users = w.data.users /\ clock' = clock /\ t <= clock
        BY <1>0, <2>0, <2>1, <2>7, <2>9
      <4>3. \A o \in Callers : ~Writing(o)'
        BY <1>b, <2>0, <2>4, <2>9
      <4> QED
        BY <2>1, <2>2, <2>5, <3>2, <4>1, <4>2, <4>3, GuessesAnswered
    <3> QED
      BY <3>1, <3>2
  <2> QED
    BY <2>8, <2>9
<1>3. ASSUME NEW c \in Callers, DecideRaises(c) \/ TmpIsGone(c) PROVE GuessesInOrder'
  BY <1>a, <1>3 DEF DecideRaises, TmpIsGone, file, history
<1>4. ASSUME NEW c \in Callers, OpenTmp(c) \/ Fill(c) PROVE GuessesInOrder'
  <2>1. UNCHANGED <<path, guesses, req, at, clock>>
    BY <1>4 DEF OpenTmp, Fill, history
  <2>2. inode'[path] = inode[path]
    <3>1. CASE OpenTmp(c)
      <4>1. PICK i \in Inodes : inode' = [inode EXCEPT ![i] = Empty] /\ i # path
        BY <3>1, <1>0, FreeInodeExists DEF OpenTmp, FreeInodes
      <4> QED
        BY <4>1, <1>0
    <3>2. CASE Fill(c)
      <4>1. fd[c] = tmp
        BY <3>2 DEF Fill, FileInOrder
      <4> QED
        BY <4>1, <3>2, <1>0 DEF Fill
    <3> QED
      BY <1>4, <3>1, <3>2
  <2>3. \A o \in Callers : Writing(o)' => Writing(o) /\ req'[o] = req[o] /\ at'[o] = at[o]
    BY <1>0, <1>4, <2>1 DEF OpenTmp, Fill, Goto, Writing
  <2> QED
    BY <1>0, <2>1, <2>2, <2>3, GuessesKept
<1>5. ASSUME NEW c \in Callers, ReplaceTmp(c) PROVE GuessesInOrder'
  <2>1. /\ pc[c] = "replace" /\ path' = tmp /\ tmp # NoFile /\ Leave(c)
        /\ inode' = inode \/ inode' = [inode EXCEPT ![path] = Empty]
        /\ Record(c, req[c], reply[c], at[c]) /\ clock' = clock
    BY <1>5 DEF ReplaceTmp
  <2>2. /\ Writing(c) /\ Locked(c) /\ inode[tmp] = buf[c] /\ inode'[path'] = buf[c]
        /\ req[c] \in Request /\ (c \in OpenReg) \in BOOLEAN
    BY <1>0, <2>1 DEF FileInOrder, Writing, Locked, TypeOK
  <2>3. PICK d \in Data, q \in Request, open \in BOOLEAN, t \in Nat :
          d = inode[path] /\ q = req[c] /\ open = (c \in OpenReg) /\ t = at[c]
    BY <1>0, <2>2
  <2>4. PICK w : w = Outcome(q, open, d, t)
    OBVIOUS
  <2>5. buf[c] = w.data /\ reply[c] = w.answer
    BY <2>2, <2>3, <2>4 DEF FileInOrder
  <2>6. /\ t <= clock /\ \A u \in Users : \A i \in DOMAIN guesses[u] : guesses[u][i] <= t
        /\ ~(q.op = "verify" /\ d.users[q.user] = None)
    BY <2>2, <2>3 DEF GuessesInOrder
  <2>7. NewGuesses(q, w.answer, t)
    BY <2>1, <2>3, <2>5, GuessesRecorded
  <2>8. inode'[path'].users = w.data.users /\ \A o \in Callers : ~Writing(o)'
    BY <1>b, <2>1, <2>2, <2>5
  <2> QED
    BY <2>1, <2>3, <2>4, <2>6, <2>7, <2>8, GuessesAnswered
<1>6. ASSUME NEW p \in Processes, Crash(p) PROVE GuessesInOrder'
  <2>1. UNCHANGED <<path, inode, guesses, clock>>
    BY <1>6 DEF Crash, file, history
  <2>2. \A o \in Callers : Writing(o)' => Writing(o) /\ req'[o] = req[o] /\ at'[o] = at[o]
    BY <1>6 DEF Crash, Writing
  <2> QED
    BY <1>0, <2>1, <2>2, GuessesKept
<1>7. CASE Tick \/ UNCHANGED vars
  <2>1. UNCHANGED <<path, inode, guesses, pc, req, at>> /\ clock <= clock'
    BY <1>0, <1>7 DEF Tick, vars, file, history, locals
  <2>2. \A o \in Callers : Writing(o)' => Writing(o) /\ req'[o] = req[o] /\ at'[o] = at[o]
    BY <2>1 DEF Writing
  <2> QED
    BY <1>0, <2>1, <2>2, GuessesKept
<1> QED
  BY <1>1, <1>2, <1>3, <1>4, <1>5, <1>6, <1>7 DEF Next, CallStep

\* Nothing has been guessed at the start, and every account is open.
LEMMA GuessesInit == Init => GuessesInOrder
<1> SUFFICES ASSUME Init PROVE GuessesInOrder
  OBVIOUS
<1>1. path \in Inodes /\ inode[path] = Start /\ \A u \in Users : guesses[u] = <<>>
  BY TypeInit DEF Init, TypeOK
<1>2. \A u \in Users : Agree(Start.users[u], <<>>, clock)
  <2> SUFFICES ASSUME NEW u \in Users PROVE Agree(Start.users[u], <<>>, 0)
    BY DEF Init
  <2>1. Start.users[u] \in UserRec \cup {None} /\ (Start.users[u] # None => Start.users[u].failed = 0)
    BY StartIsOpen DEF Data
  <2> QED
    BY <2>1, NoGuesses
<1>3. \A u \in Users : /\ Counted(inode[path].users[u], guesses[u])
                       /\ Spaced(guesses[u])
                       /\ \A i \in DOMAIN guesses[u] : guesses[u][i] <= clock
  BY <1>1, <1>2 DEF Agree
<1>4. \A c \in Callers : ~Writing(c)
  BY DEF Init, Writing
<1> QED
  BY <1>3, <1>4 DEF GuessesInOrder, GuessRate, Spaced

\* However the logins of one process interleave, whatever calls create, delete
\* or change the account between them, and whenever it is killed: among the
\* wrong passwords counted since the last reset, max_failed + 1 never fall
\* within lock_minutes (accounts.py:111-134, all of verify under the lock).
THEOREM OneProcessLimitsGuesses ==
    ASSUME OneProcess
    PROVE  Spec => []GuessRate
<1> DEFINE Inv == TypeOK /\ LockHeld /\ FileInOrder /\ GuessesInOrder
<1>1. Init => Inv
  <2>1. Init => LockHeld
    BY DEF Init, LockHeld, Locked
  <2> QED
    BY <2>1, TypeInit, OrderInit, GuessesInit
<1>2. Inv /\ [Next]_vars => Inv'
  BY TypeStep, LockHeldStep, OrderStep, GuessesStep
<1>3. Inv => GuessRate
  BY DEF GuessesInOrder
<1> QED
  BY <1>1, <1>2, <1>3, PTL DEF Spec
=============================================================================
