----------------------------- MODULE MCAccounts -----------------------------
(***************************************************************************)
(* Small instances of Accounts for TLC.                                    *)
(***************************************************************************)
EXTENDS Accounts, TLC

CONSTANTS a1, a2, cli,    \* two threads of apid, a command of the CLI
          apid, command,  \* their processes
          u1, u2, u3, c1, c2, p, q, k,
          i1, i2, i3, i4, i5, i6

\* one user, one invite nobody has used
OneUser == [users   |-> [x \in Users |-> IF x = u1
                            THEN [pw |-> p, failed |-> 0, until |-> 0, key |-> None] ELSE None],
            invites |-> [x \in Codes |-> IF x = c1 THEN Unused ELSE None]]

Ask(op, user, pw, code) == [op |-> op, user |-> user, pw |-> pw, code |-> code, key |-> k]

\* what apid calls: verify, create, set_pubkey
Logins  == {Ask("verify", u1, p, c1), Ask("verify", u1, q, c1)}
Joins   == {Ask("create", u2, p, c1), Ask("create", u3, p, c1)}
PutKey  == {Ask("set_pubkey", u1, p, c1)}
\* what commands call: passwd, invite, useradd; delete is called by nobody yet
Resets  == {Ask("set_password", u1, q, c1)}
Invites == {Ask("new_invite", u1, p, c2)}
Adds    == {Ask("create", u3, p, c1)}
Removes == {Ask("delete", u1, p, c1)}

InApid      == [c \in Callers |-> apid]
CliApart    == [c \in Callers |-> IF c = cli THEN command ELSE apid]

EveryRequest == [c \in Callers |-> IF c = cli THEN Resets \cup Invites \cup Adds \cup Removes
                                   ELSE Logins \cup Joins \cup PutKey]
JoinsAndAdmin == [c \in Callers |-> IF c = cli THEN Resets \cup Invites ELSE Joins]
=============================================================================
