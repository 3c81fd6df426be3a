------------------------------ MODULE Accounts ------------------------------
(***************************************************************************)
(* The account file of onionmail/accounts.py: users, failed logins,        *)
(* lockout, invite codes and age keys in one JSON file, changed by the     *)
(* threads of apid and by the CLI commands `invite`, `useradd`, `passwd`.  *)
(*                                                                         *)
(* Every method takes the lock of its Accounts object, reads the file,     *)
(* decides, and writes the file anew through one fixed temporary file.     *)
(* The lock is a threading.Lock: each process has its own.  Files are      *)
(* modelled down to the inode, because two processes in _write at once     *)
(* open, truncate and rename the same one.                                 *)
(*                                                                         *)
(* Abstractions: a password stands for its hash; the content of a file is  *)
(* the data it decodes to, Empty between open and write, or Garbage; the   *)
(* mailbox folders made by create are left out (store_for makes them too). *)
(***************************************************************************)
EXTENDS Naturals, Sequences

CONSTANTS
    Callers,       \* threads and commands, each making calls one by one
    Processes,     \* processes, each with its own Accounts object
    ProcOf,        \* the process of each caller
    OpenReg,       \* callers under a policy with open_registration
    Requests,      \* the calls each caller may make
    Users, Codes, Passwords, Keys,
    Start,         \* what the file holds at the start
    MaxFailed,     \* policy.max_failed
    LockFor,       \* policy.lock_minutes, in ticks
    None,          \* no such entry
    Unused,        \* the used_by of an invite nobody has used
    NoCall,        \* a caller between two calls
    NoCaller,      \* a lock nobody holds
    NoFile,        \* no such file, or no file open
    Empty,         \* a file opened for writing and not written yet
    Garbage,       \* a file whose JSON does not parse
    Inodes,
    MaxClock,      \* bound on the clock
    MaxCalls,      \* bound on the number of calls
    MaxCrashes     \* bound on the number of processes killed

Ops == {"new_invite", "create", "verify", "set_password", "delete", "set_pubkey"}

Request == [op : Ops, user : Users, pw : Passwords, code : Codes, key : Keys]

UserRec == [pw : Passwords, failed : Nat, until : Nat, key : Keys \cup {None}]

\* a dict maps what is not in it to None
Data == [users   : [Users -> UserRec \cup {None}],
         invites : [Codes -> Users \cup {Unused, None}]]

Content == Data \cup {Empty, Garbage}

ASSUME AccountsAssumption ==
    /\ ProcOf \in [Callers -> Processes]
    /\ OpenReg \subseteq Callers
    /\ Requests \in [Callers -> SUBSET Request]
    /\ Start \in Data
    /\ Empty \notin Data /\ Garbage \notin Data /\ Empty # Garbage
    /\ NoCaller \notin Callers /\ NoFile \notin Inodes
    /\ None \notin Users \cup UserRec /\ Unused \notin Users \cup {None}
    /\ NoCall \notin Request
    /\ MaxFailed \in Nat /\ MaxFailed > 0 /\ LockFor \in Nat
    /\ MaxClock \in Nat /\ MaxCalls \in Nat /\ MaxCrashes \in Nat

\* The file system never runs out: beside two directory entries and one open
\* file for each caller there is an inode left.
ASSUME EnoughInodes ==
    \A f \in [Callers -> Inodes \cup {NoFile}], i, j \in Inodes \cup {NoFile} :
        Inodes \ ({i, j} \cup {f[c] : c \in Callers}) # {}

\* No account is locked or has failures to count at the start.
ASSUME StartIsOpen ==
    \A u \in Users : Start.users[u] # None =>
        Start.users[u].failed = 0 /\ Start.users[u].until = 0

VARIABLES
    clock,
    path, tmp,   \* the inodes of accounts.json and accounts.tmp
    inode,       \* the content of each inode
    lock,        \* who holds the lock of each process
    pc, req,     \* where each caller is, and in which call
    at,          \* time.time() as verify read it
    buf, reply,  \* the data it is about to write and the answer it will give
    fd,          \* the file it has open
    drawn,       \* history: invite codes generated so far
    asked,       \* history: calls of create and set_password so far
    joined,      \* history: <<user, code>> of every registration by invite
    guesses,     \* history: times of the wrong passwords since the last reset
    calls, crashes

file    == <<path, tmp, inode>>
locals  == <<req, at, buf, reply, fd>>
history == <<drawn, asked, joined, guesses>>
bounds  == <<calls, crashes>>
vars    == <<clock, file, lock, pc, locals, history, bounds>>

Goto(c, l) == pc' = [pc EXCEPT ![c] = l]

NoAccounts == [users |-> [u \in Users |-> None], invites |-> [i \in Codes |-> None]]

\* _read: what does not parse reads as no accounts at all
Read(content) == IF content = Garbage THEN NoAccounts ELSE content

-----------------------------------------------------------------------------
(* What each method makes of the data it read: the new data, the answer,   *)
(* and whether it writes.                                                  *)

Refusal(d, answer) == [data |-> d, answer |-> answer, writes |-> FALSE]
Update(d, answer)  == [data |-> d, answer |-> answer, writes |-> TRUE]

WithUser(d, u, r) == [d EXCEPT !.users[u] = r]

NewInvite(d, q) ==
    Update([d EXCEPT !.invites[q.code] = Unused], "ok")

\* slip: an invite only has to exist
InviteIsKnown(d, code) == d.invites[code] # None

InviteIsFree(d, code) == d.invites[code] = Unused

\* create, by a caller that needs an invite unless registration is open
Create(d, q, open) ==
    LET u == WithUser(d, q.user, [pw |-> q.pw, failed |-> 0, until |-> 0, key |-> None])
    IN  IF d.users[q.user] # None \/ ~(open \/ InviteIsFree(d, q.code))
          THEN Refusal(d, "error")
          ELSE Update(IF open THEN u ELSE [u EXCEPT !.invites[q.code] = q.user], "ok")

\* slip: the account is locked with the failures before the last still counted
CountFailureKept(r, t) ==
    IF r.failed + 1 >= MaxFailed THEN [r EXCEPT !.until = t + LockFor]
                                 ELSE [r EXCEPT !.failed = @ + 1]
\* slip: `>` for `>=`
CountFailureLate(r, t) ==
    IF r.failed + 1 > MaxFailed THEN [r EXCEPT !.until = t + LockFor, !.failed = 0]
                                ELSE [r EXCEPT !.failed = @ + 1]

\* one more wrong password: the last one allowed locks the account
CountFailure(r, t) ==
    IF r.failed + 1 >= MaxFailed THEN [r EXCEPT !.until = t + LockFor, !.failed = 0]
                                 ELSE [r EXCEPT !.failed = @ + 1]

\* slip: the record is rehashed before the password is checked
VerifyRehashesFirst(d, q, t) ==
    IF d.users[q.user] = None THEN Refusal(d, "no")
    ELSE IF d.users[q.user].until > t THEN Refusal(d, "error")
    ELSE Update(WithUser(d, q.user, [CountFailure(d.users[q.user], t) EXCEPT !.pw = q.pw]), "no")

\* verify, at time t
Verify(d, q, t) ==
    IF d.users[q.user] = None THEN Refusal(d, "no")
    ELSE LET r == d.users[q.user]
         IN  IF r.until > t THEN Refusal(d, "error")
             ELSE IF q.pw # r.pw
               THEN Update(WithUser(d, q.user, CountFailure(r, t)), "no")
             ELSE IF r.failed # 0 \/ r.until # 0
               THEN Update(WithUser(d, q.user, [r EXCEPT !.failed = 0, !.until = 0]), "ok")
             ELSE Refusal(d, "ok")

SetPassword(d, q) ==
    IF d.users[q.user] = None THEN Refusal(d, "error")
    ELSE Update(WithUser(d, q.user,
           [d.users[q.user] EXCEPT !.pw = q.pw, !.failed = 0, !.until = 0]), "ok")

Delete(d, q) == Update(WithUser(d, q.user, None), "ok")

SetPubkey(d, q) ==
    IF d.users[q.user] = None THEN Refusal(d, "error")
    ELSE Update(WithUser(d, q.user, [d.users[q.user] EXCEPT !.key = q.key]), "ok")

Outcome(q, open, d, t) ==
    CASE q.op = "new_invite"   -> NewInvite(d, q)
      [] q.op = "create"       -> Create(d, q, open)
      [] q.op = "verify"       -> Verify(d, q, t)
      [] q.op = "set_password" -> SetPassword(d, q)
      [] q.op = "delete"       -> Delete(d, q)
      [] q.op = "set_pubkey"   -> SetPubkey(d, q)

-----------------------------------------------------------------------------
Init ==
    /\ clock = 0
    /\ path = (CHOOSE i \in Inodes : TRUE) /\ tmp = NoFile
    /\ inode = [i \in Inodes |-> IF i = path THEN Start ELSE Empty]
    /\ lock = [p \in Processes |-> NoCaller]
    /\ pc = [c \in Callers |-> "idle"]
    /\ req = [c \in Callers |-> NoCall]
    /\ at = [c \in Callers |-> 0]
    /\ buf = [c \in Callers |-> NoAccounts]
    /\ reply = [c \in Callers |-> "none"]
    /\ fd = [c \in Callers |-> NoFile]
    /\ drawn = {i \in Codes : Start.invites[i] # None}
    /\ asked = {} /\ joined = {}
    /\ guesses = [u \in Users |-> <<>>]
    /\ calls = 0 /\ crashes = 0

\* new_invite draws its code before it takes the lock
Call(c) ==
    /\ pc[c] = "idle" /\ calls < MaxCalls
    /\ \E q \in Requests[c] :
         /\ q.op = "new_invite" => q.code \notin drawn
         /\ req' = [req EXCEPT ![c] = q]
         /\ drawn' = IF q.op = "new_invite" THEN drawn \cup {q.code} ELSE drawn
         /\ asked' = IF q.op \in {"create", "set_password"} THEN asked \cup {q} ELSE asked
    /\ calls' = calls + 1
    /\ Goto(c, "wait")
    /\ UNCHANGED <<clock, file, lock, at, buf, reply, fd, joined, guesses, crashes>>

\* slip: the lock is not taken
AcquireNothing(c) ==
    /\ pc[c] = "wait"
    /\ Goto(c, "held")
    /\ UNCHANGED <<clock, file, lock, locals, history, bounds>>

\* with self._lock
Acquire(c) ==
    /\ pc[c] = "wait" /\ lock[ProcOf[c]] = NoCaller
    /\ lock' = [lock EXCEPT ![ProcOf[c]] = c]
    /\ Goto(c, "held")
    /\ UNCHANGED <<clock, file, locals, history, bounds>>

\* The call is over, answered or raised: lock released, locals gone.
Leave(c) ==
    /\ Goto(c, "idle")
    /\ lock' = [p \in Processes |-> IF lock[p] = c THEN NoCaller ELSE lock[p]]
    /\ req' = [req EXCEPT ![c] = NoCall]
    /\ at' = [at EXCEPT ![c] = 0]
    /\ buf' = [buf EXCEPT ![c] = NoAccounts]
    /\ reply' = [reply EXCEPT ![c] = "none"]
    /\ fd' = [fd EXCEPT ![c] = NoFile]

\* What the answer a to the call q at time t adds to the history.
Record(c, q, a, t) ==
    /\ joined' = IF q.op = "create" /\ a = "ok" /\ c \notin OpenReg
                   THEN joined \cup {<<q.user, q.code>>} ELSE joined
    /\ guesses' = CASE q.op = "verify" /\ a = "no" -> [guesses EXCEPT ![q.user] = Append(@, t)]
                    [] q.op \in {"create", "verify", "set_password", "delete"} /\ a = "ok"
                                                   -> [guesses EXCEPT ![q.user] = <<>>]
                    [] OTHER                       -> guesses
    /\ UNCHANGED <<drawn, asked>>

\* data = self._read(), and what the method makes of it
Decide(c) ==
    /\ pc[c] = "held" /\ inode[path] # Empty
    /\ LET d == Read(inode[path])
           o == Outcome(req[c], c \in OpenReg, d, clock)
       IN  IF o.writes
             THEN /\ buf' = [buf EXCEPT ![c] = o.data]
                  /\ reply' = [reply EXCEPT ![c] = o.answer]
                  /\ at' = [at EXCEPT ![c] = clock]
                  /\ Goto(c, "open")
                  /\ UNCHANGED <<lock, req, fd, history>>
             ELSE /\ Leave(c)
                  /\ IF req[c].op = "verify" /\ d.users[req[c].user] = None
                       THEN UNCHANGED history
                       ELSE Record(c, req[c], o.answer, clock)
    /\ UNCHANGED <<clock, file, bounds>>

\* an empty file reads as {}, and {}["users"] raises KeyError
DecideRaises(c) ==
    /\ pc[c] = "held" /\ inode[path] = Empty
    /\ Leave(c)
    /\ UNCHANGED <<clock, file, history, bounds>>

-----------------------------------------------------------------------------
(* _write *)

\* inodes no directory entry and no open file refers to
FreeInodes == Inodes \ ({path, tmp} \cup {fd[c] : c \in Callers})

\* slip: the file itself is opened, not a temporary one
OpenPath(c) ==
    /\ pc[c] = "open"
    /\ fd' = [fd EXCEPT ![c] = path]
    /\ inode' = [inode EXCEPT ![path] = Empty]
    /\ tmp' = path
    /\ Goto(c, "fill")
    /\ UNCHANGED <<clock, path, lock, req, at, buf, reply, history, bounds>>

\* slip: the temporary file is opened for update and has to exist
OpenTmpExisting(c) ==
    /\ pc[c] = "open"
    /\ fd' = [fd EXCEPT ![c] = tmp]
    /\ inode' = [inode EXCEPT ![tmp] = Empty]
    /\ Goto(c, "fill")
    /\ UNCHANGED <<clock, path, tmp, lock, req, at, buf, reply, history, bounds>>

\* open(tmp, "w"): creates the file, or truncates the one that is there
OpenTmp(c) ==
    /\ pc[c] = "open"
    /\ LET i == IF tmp # NoFile THEN tmp ELSE CHOOSE x \in FreeInodes : TRUE
       IN  /\ tmp' = i
           /\ fd' = [fd EXCEPT ![c] = i]
           /\ inode' = [inode EXCEPT ![i] = Empty]
    /\ Goto(c, "fill")
    /\ UNCHANGED <<clock, path, lock, req, at, buf, reply, history, bounds>>

\* Writing new from the start of a file that holds old: what is left of a
\* longer old text follows the new one (lengths are not modelled).
Overwritten(old, new) == IF old \in {Empty, new} THEN {new} ELSE {new, Garbage}

\* write and close
Fill(c) ==
    /\ pc[c] = "fill"
    /\ \E d \in Overwritten(inode[fd[c]], buf[c]) :
         inode' = [inode EXCEPT ![fd[c]] = d]
    /\ fd' = [fd EXCEPT ![c] = NoFile]
    /\ Goto(c, "replace")
    /\ UNCHANGED <<clock, path, tmp, lock, req, at, buf, reply, history, bounds>>

\* tmp.chmod, tmp.replace: the answer is given once the file is in place
ReplaceTmp(c) ==
    /\ pc[c] = "replace" /\ tmp # NoFile
    /\ path' = tmp /\ tmp' = NoFile
    /\ inode' = IF \E o \in Callers : fd[o] = path THEN inode
                                                   ELSE [inode EXCEPT ![path] = Empty]
    /\ Record(c, req[c], reply[c], at[c])
    /\ Leave(c)
    /\ UNCHANGED <<clock, bounds>>

\* another process's replace took the temporary file: FileNotFoundError
TmpIsGone(c) ==
    /\ pc[c] = "replace" /\ tmp = NoFile
    /\ Leave(c)
    /\ UNCHANGED <<clock, file, history, bounds>>

-----------------------------------------------------------------------------
\* A process is killed, and its lock with it; files stay as they are.
Crash(p) ==
    /\ crashes < MaxCrashes
    /\ \E c \in Callers : ProcOf[c] = p /\ pc[c] # "idle"
    /\ crashes' = crashes + 1
    /\ lock' = [lock EXCEPT ![p] = NoCaller]
    /\ pc' = [c \in Callers |-> IF ProcOf[c] = p THEN "idle" ELSE pc[c]]
    /\ req' = [c \in Callers |-> IF ProcOf[c] = p THEN NoCall ELSE req[c]]
    /\ at' = [c \in Callers |-> IF ProcOf[c] = p THEN 0 ELSE at[c]]
    /\ buf' = [c \in Callers |-> IF ProcOf[c] = p THEN NoAccounts ELSE buf[c]]
    /\ reply' = [c \in Callers |-> IF ProcOf[c] = p THEN "none" ELSE reply[c]]
    /\ fd' = [c \in Callers |-> IF ProcOf[c] = p THEN NoFile ELSE fd[c]]
    /\ UNCHANGED <<clock, file, history, calls>>

Tick ==
    /\ clock < MaxClock
    /\ clock' = clock + 1
    /\ UNCHANGED <<file, lock, pc, locals, history, bounds>>

CallStep(c) ==
    \/ Call(c) \/ Acquire(c) \/ Decide(c) \/ DecideRaises(c)
    \/ OpenTmp(c) \/ Fill(c) \/ ReplaceTmp(c) \/ TmpIsGone(c)

Next ==
    \/ \E c \in Callers : CallStep(c)
    \/ \E p \in Processes : Crash(p)
    \/ Tick

Spec == Init /\ [][Next]_vars
-----------------------------------------------------------------------------
(* Properties. *)

\* The state has the shape the code gives it, and a caller that writes has an
\* answer to give.
TypeOK ==
    /\ clock \in 0 .. MaxClock
    /\ path \in Inodes /\ tmp \in Inodes \cup {NoFile}
    /\ inode \in [Inodes -> Content]
    /\ lock \in [Processes -> Callers \cup {NoCaller}]
    /\ pc \in [Callers -> {"idle", "wait", "held", "open", "fill", "replace"}]
    /\ req \in [Callers -> Request \cup {NoCall}]
    /\ \A c \in Callers : pc[c] # "idle" => req[c] \in Request
    /\ at \in [Callers -> Nat]
    /\ buf \in [Callers -> Data]
    /\ reply \in [Callers -> {"none", "ok", "no", "error"}]
    /\ fd \in [Callers -> Inodes \cup {NoFile}]
    /\ \A c \in Callers : pc[c] = "fill" => fd[c] \in Inodes
    /\ drawn \subseteq Codes /\ asked \subseteq Request /\ joined \subseteq Users \X Codes
    /\ guesses \in [Users -> Seq(Nat)]

(* Properties of any number of processes, with kills: what an unlocked     *)
(* rewrite can lose, but never make up.                                    *)

Copies == {inode[i] : i \in Inodes} \cup {buf[c] : c \in Callers}

Known(u, pw) ==
    \/ Start.users[u] # None /\ Start.users[u].pw = pw
    \/ \E q \in asked : q.user = u /\ q.pw = pw

MayHaveUsed(u, code) ==
    \/ Start.invites[code] = u
    \/ \E q \in asked : q.op = "create" /\ q.code = code /\ q.user = u

Supported(d) ==
    /\ \A u \in Users : d.users[u] # None => Known(u, d.users[u].pw)
    /\ \A i \in Codes : d.invites[i] # None =>
         i \in drawn /\ (d.invites[i] # Unused => MayHaveUsed(d.invites[i], i))

\* Every password, invite and registration in the file, or in data on its way
\* to it, was there at the start or was asked for: stale and torn writes bring
\* nothing into the file that no call put there.
NothingInvented == \A d \in Copies \ {Empty, Garbage} : Supported(d)

\* A record of an account that opens in time, with all its tries, or is open.
OpensInTime(r) ==
    /\ r.until <= clock + LockFor
    /\ r.failed < MaxFailed
    /\ r.until > clock => r.failed = 0

ShutForNow(d) == \A u \in Users : d.users[u] # None => OpensInTime(d.users[u])

\* accounts.py:131-135: whatever writes were lost or repeated, a lockout ends.  No
\* account is shut for longer than lock_minutes from now; one that is shut has no
\* wrong password counted, so that it opens with all its tries; and one that is
\* open has a try left before it shuts.
LockoutEnds == \A d \in Copies \ {Empty, Garbage} : ShutForNow(d)

\* Why: a call under way has been recorded as asked for, and every copy is
\* supported and open in time.
CallsRecorded ==
    \A c \in Callers : pc[c] # "idle" =>
        /\ req[c].op \in {"create", "set_password"} => req[c] \in asked
        /\ req[c].op = "new_invite" => req[c].code \in drawn

Genuine(d) == Supported(d) /\ ShutForNow(d)

CopiesGenuine == CallsRecorded /\ \A d \in Copies \ {Empty, Garbage} : Genuine(d)

(* Properties of callers that share one lock, that is, of one process. *)

\* accounts.py:4, "All read-modify-write goes through a lock and an atomic
\* replace": the file changes only by the whole effect of one call on what the
\* file holds at that moment.
AtomicUpdates ==
    [][inode[path]' # inode[path] =>
         \E c \in Callers :
           /\ pc[c] = "replace" /\ inode[path] \in Data
           /\ LET o == Outcome(req[c], c \in OpenReg, inode[path], at[c])
              IN  inode[path]' = o.data /\ reply[c] = o.answer]_vars

\* Whoever reads the file finds whole data in it, also while it is written
\* and after a kill in the middle of a write.
FileIsWhole == inode[path] \in Data

\* docs/tor-setup.md:117, "generate one-time invite codes": no two
\* registrations succeed with one code.
InviteUsedOnce == \A a, b \in joined : a[2] = b[2] => a = b

\* However logins interleave, one wrong password more than max_failed takes at
\* least the lockout time, counted from any of them on.
GuessRate ==
    \A u \in Users : \A i \in 1 .. Len(guesses[u]) - MaxFailed :
        guesses[u][i + MaxFailed] >= guesses[u][i] + LockFor

\* Why the first three hold: with one lock at most one caller is past Acquire,
\* what it is about to write is made from what the file holds, and the
\* temporary file is its own.
OneProcess == \A c, o \in Callers : ProcOf[c] = ProcOf[o]

Locked(c)  == pc[c] \in {"held", "open", "fill", "replace"}
Writing(c) == pc[c] \in {"open", "fill", "replace"}

LockHeld == \A c \in Callers : Locked(c) => lock[ProcOf[c]] = c

FileInOrder ==
    /\ inode[path] \in Data /\ path # tmp
    /\ \A c \in Callers :
         /\ fd[c] # NoFile => pc[c] = "fill"
         /\ Writing(c) =>
              LET o == Outcome(req[c], c \in OpenReg, inode[path], at[c])
              IN  buf[c] = o.data /\ reply[c] = o.answer
         /\ pc[c] = "fill" => tmp # NoFile /\ fd[c] = tmp /\ inode[tmp] = Empty
         /\ pc[c] = "replace" => tmp # NoFile /\ inode[tmp] = buf[c]

\* An invite that served carries the name of the user it served, and the codes
\* new_invite is about to add are new ones.
Adding(c) == pc[c] # "idle" /\ req[c].op = "new_invite"

InvitesInOrder ==
    /\ \A a \in joined : inode[path].invites[a[2]] = a[1]
    /\ \A i \in Codes : inode[path].invites[i] # None => i \in drawn
    /\ \A c \in Callers : Adding(c) =>
         /\ req[c].code \in drawn /\ inode[path].invites[req[c].code] = None
         /\ \A o \in Callers \ {c} : Adding(o) => req[o].code # req[c].code

\* A record counts the guesses since the last of those that locked it, and stays
\* locked for the lockout time after each of these.
Counted(r, g) ==
    /\ r = None => g = <<>>
    /\ r # None => /\ r.failed <= Len(g) /\ r.failed < MaxFailed
                   /\ \A i \in 1 .. Len(g) - r.failed : g[i] + LockFor <= r.until

GuessesInOrder ==
    /\ \A u \in Users : /\ Counted(inode[path].users[u], guesses[u])
                        /\ \A i \in DOMAIN guesses[u] : guesses[u][i] <= clock
    /\ \A c \in Callers : Writing(c) =>
         /\ at[c] <= clock
         /\ \A u \in Users : \A i \in DOMAIN guesses[u] : guesses[u][i] <= at[c]
         /\ req[c].op = "verify" => inode[path].users[req[c].user] # None
    /\ GuessRate
=============================================================================
