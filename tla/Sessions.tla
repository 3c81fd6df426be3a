------------------------------ MODULE Sessions ------------------------------
(***************************************************************************)
(* Login sessions, from both ends.                                         *)
(*                                                                         *)
(* The server, onionmail/apid.py: tokens with an expiry in the dict        *)
(* _sessions, copied to sessions.json under _slock at every change, read   *)
(* back when apid starts.  The client, onionmail/netclient.py and gui.py:  *)
(* a NetClient whose token is shared by the user interface and a worker    *)
(* thread, a session.json that outlives the program, and the windows the   *)
(* user sees.  A call is one connection and one thread of apid.            *)
(*                                                                         *)
(* Abstractions: a token stands for the user it belongs to, whether a      *)
(* password is right is any outcome (module Accounts), and every operation *)
(* but login and logout is "mail".  What apid does under _slock is one     *)
(* step: nothing else reads the dict or the temporary file, and a kill in  *)
(* the middle leaves sessions.json as before or as after.                  *)
(***************************************************************************)
EXTENDS Naturals, FiniteSets

CONSTANTS
    Clients,       \* running programs, each with a session.json of its own
    Tokens,        \* tokens apid may draw
    Conns,         \* bound on the connections open at once
    None,          \* no token, no session, no connection
    Closed,        \* a connection that is not open
    TTL,           \* accounts.session_ttl
    Margin,        \* the 60 s load_session wants a token to last at least
    DiskMayFail,   \* whether writing sessions.json may raise OSError
    MaxClock,      \* bound on the clock
    MaxCrashes     \* bound on the restarts of apid

Connection == [op  : {"login", "logout", "mail"},
               tok : Tokens \cup {None},
               at  : {"sent", "verified", "passed", "ok", "no", "rejected", "cut"},
               exp : Nat]

Saved == [tok : Tokens \cup {None}, exp : Nat]

ASSUME SessionsAssumption ==
    /\ None \notin Tokens /\ None \notin Conns /\ None \notin Nat
    /\ None \notin Saved /\ Closed \notin Connection
    /\ TTL \in Nat /\ Margin \in Nat /\ MaxClock \in Nat /\ MaxCrashes \in Nat
    /\ DiskMayFail \in BOOLEAN

Threads == Clients \X {"ui", "worker"}

UI(c)     == <<c, "ui">>
Worker(c) == <<c, "worker">>

VARIABLES
    clock,
    sess,      \* _sessions: the expiry of each token that is in the dict
    disk,      \* what sessions.json holds
    conn,      \* each connection: what was asked and how far apid is
    call,      \* the connection each thread of a client waits on
    screen,    \* what each client shows
    token,     \* NetClient.token
    expires,   \* NetClient.token_expires
    saved,     \* the token and expiry in the client's session.json
    due,       \* whether the window is about to call reload by itself
    until,     \* history: the expiry each token was issued with
    dropped,   \* history: tokens a logout has taken out of the dict
    crashes

server  == <<sess, disk, until, dropped>>
client  == <<screen, token, expires, saved, due>>
vars    == <<clock, server, conn, call, client, crashes>>

\* what is over for apid: an answer is on its way, or the connection was cut:
\* apid was killed, or an OSError ended the handler
Final == {"ok", "no", "rejected", "cut"}

Open(n)      == conn[n] # Closed
Awaited(n)   == \E t \in Threads : call[t] = n
Answered(t)  == call[t] # None /\ conn[call[t]].at \in Final
Issued       == {x \in Tokens : until[x] # None}

Init ==
    /\ clock = 0
    /\ sess = [x \in Tokens |-> None] /\ disk = sess
    /\ conn = [n \in Conns |-> Closed]
    /\ call = [t \in Threads |-> None]
    /\ screen = [c \in Clients |-> "off"]
    /\ token = [c \in Clients |-> None]
    /\ expires = [c \in Clients |-> 0]
    /\ saved = [c \in Clients |-> None]
    /\ due = [c \in Clients |-> FALSE]
    /\ until = [x \in Tokens |-> None]
    /\ dropped = {}
    /\ crashes = 0

-----------------------------------------------------------------------------
(* apid *)

\* _save_sessions: an OSError is logged and otherwise ignored
Save(d) == disk' \in {d} \cup (IF DiskMayFail THEN {disk} ELSE {})

\* the answer a, if anybody still waits for it
Reply(n, a) ==
    conn' = [conn EXCEPT ![n] = IF Awaited(n) THEN [@ EXCEPT !.at = a] ELSE Closed]

\* _login: the password is wrong, the account is locked, or its file fails
RefuseLogin(n) ==
    /\ Open(n) /\ conn[n].op = "login" /\ conn[n].at = "sent"
    /\ \E a \in {"no", "cut"} : Reply(n, a)
    /\ UNCHANGED <<clock, server, call, client, crashes>>

\* _login, new_session: the expiry is computed before the lock is taken
AcceptLogin(n) ==
    /\ Open(n) /\ conn[n].op = "login" /\ conn[n].at = "sent"
    /\ conn' = [conn EXCEPT ![n].at = "verified", ![n].exp = clock + TTL]
    /\ UNCHANGED <<clock, server, call, client, crashes>>

\* the new session of the login on n has token x
Admit(n, x) ==
    /\ sess' = [sess EXCEPT ![x] = conn[n].exp]
    /\ until' = [until EXCEPT ![x] = conn[n].exp]
    /\ conn' = [conn EXCEPT ![n] = IF Awaited(n) THEN [@ EXCEPT !.at = "ok", !.tok = x]
                                               ELSE Closed]
    /\ UNCHANGED <<clock, dropped, call, client, crashes>>

\* slip: the new session is not written
NewSessionUnsaved(n) ==
    /\ Open(n) /\ conn[n].at = "verified"
    /\ \E x \in Tokens \ Issued : Admit(n, x)
    /\ UNCHANGED disk

\* new_session, under _slock
NewSession(n) ==
    /\ Open(n) /\ conn[n].at = "verified"
    /\ \E x \in Tokens \ Issued : Admit(n, x)
    /\ Save(sess')

\* an operation that needs a session, as apid reads it
Asked(n) == Open(n) /\ conn[n].op # "login" /\ conn[n].at = "sent"

\* slip: a session in the dict is not compared with the clock
ValidForever(x) == sess[x] # None

\* `exp < time.time()` makes a session invalid
Valid(x) == sess[x] # None /\ sess[x] >= clock

\* session_user: the call is let through, for good
Pass(n) ==
    /\ Asked(n) /\ Valid(conn[n].tok)
    /\ conn' = [conn EXCEPT ![n].at = "passed"]
    /\ UNCHANGED <<clock, server, call, client, crashes>>

\* slip: the handler raises on an expired session and the thread ends
RejectSilently(n) ==
    /\ Asked(n) /\ ~Valid(conn[n].tok)
    /\ sess' = [sess EXCEPT ![conn[n].tok] = None]
    /\ Save(sess')
    /\ UNCHANGED <<clock, conn, until, dropped, call, client, crashes>>

\* session_user: an expired session is popped, and "not authenticated"
Reject(n) ==
    /\ Asked(n) /\ ~Valid(conn[n].tok)
    /\ IF sess[conn[n].tok] # None
         THEN sess' = [sess EXCEPT ![conn[n].tok] = None] /\ Save(sess')
         ELSE UNCHANGED <<sess, disk>>
    /\ Reply(n, "rejected")
    /\ UNCHANGED <<clock, until, dropped, call, client, crashes>>

\* _authed: any operation on the mailbox or the key directory; after an OSError
\* in it handle returns without an answer
Operate(n) ==
    /\ Open(n) /\ conn[n].op = "mail" /\ conn[n].at = "passed"
    /\ \E a \in {"ok", "no", "cut"} : Reply(n, a)
    /\ UNCHANGED <<clock, server, call, client, crashes>>

\* slip: the session is dropped in memory only
DropSessionUnsaved(n) ==
    /\ Open(n) /\ conn[n].op = "logout" /\ conn[n].at = "passed"
    /\ sess' = [sess EXCEPT ![conn[n].tok] = None]
    /\ dropped' = dropped \cup {conn[n].tok}
    /\ Reply(n, "ok")
    /\ UNCHANGED <<clock, disk, until, call, client, crashes>>

\* _authed, drop_session: pops and writes if the session is still there
DropSession(n) ==
    /\ Open(n) /\ conn[n].op = "logout" /\ conn[n].at = "passed"
    /\ IF sess[conn[n].tok] # None
         THEN sess' = [sess EXCEPT ![conn[n].tok] = None] /\ Save(sess')
         ELSE UNCHANGED <<sess, disk>>
    /\ dropped' = dropped \cup {conn[n].tok}
    /\ Reply(n, "ok")
    /\ UNCHANGED <<clock, until, call, client, crashes>>

\* _load_sessions: `e > now` keeps a session
Loaded == [x \in Tokens |-> IF disk[x] # None /\ disk[x] > clock THEN disk[x] ELSE None]

\* apid is killed and started again: its threads end, connections break
Restart ==
    /\ crashes < MaxCrashes
    /\ crashes' = crashes + 1
    /\ sess' = Loaded
    /\ conn' = [n \in Conns |-> IF ~Open(n) \/ ~Awaited(n) THEN Closed
                               ELSE IF conn[n].at \in Final THEN conn[n]
                               ELSE [conn[n] EXCEPT !.at = "cut"]]
    /\ UNCHANGED <<clock, disk, until, dropped, call, client>>

-----------------------------------------------------------------------------
(* NetClient *)

\* _rpc: thread t connects and sends one request
Send(t, op, x) ==
    \E n \in Conns :
      /\ conn[n] = Closed
      /\ conn' = [conn EXCEPT ![n] = [op |-> op, tok |-> x, at |-> "sent", exp |-> 0]]
      /\ call' = [call EXCEPT ![t] = n]

\* The threads T close their connections; what apid is doing it goes on with.
Close(T) ==
    /\ conn' = [n \in Conns |-> IF (\E t \in T : call[t] = n) /\ conn[n].at \in Final
                                THEN Closed ELSE conn[n]]
    /\ call' = [t \in Threads |-> IF t \in T THEN None ELSE call[t]]

\* A timeout or a broken connection: OSError, which no NetClient method handles.
\* Whoever called shows the message; the session is left as it was.  While the
\* program starts nobody handles it either, and the program ends (Quit).
HangUp(t) ==
    /\ call[t] # None /\ screen[t[1]] \notin {"entering", "opening"}
    /\ Close({t})
    /\ UNCHANGED <<clock, server, client, crashes>>

\* A request whose sender gave up never reaches apid.
Vanish(n) ==
    /\ Open(n) /\ conn[n].at = "sent" /\ ~Awaited(n)
    /\ conn' = [conn EXCEPT ![n] = Closed]
    /\ UNCHANGED <<clock, server, call, client, crashes>>

-----------------------------------------------------------------------------
(* gui *)

BothOf(c) == {UI(c), Worker(c)}

\* a program that shows screen s with the NetClient token x and expiry e
Show(c, s, x, e) ==
    /\ screen' = [screen EXCEPT ![c] = s]
    /\ token' = [token EXCEPT ![c] = x]
    /\ expires' = [expires EXCEPT ![c] = e]

\* run, load_session, client_from_session
Start(c) ==
    /\ screen[c] = "off"
    /\ IF saved[c] # None /\ saved[c].exp > clock + Margin
         THEN Show(c, "opening", saved[c].tok, saved[c].exp)
         ELSE Show(c, "login", None, 0)
    /\ UNCHANGED <<clock, server, conn, call, saved, due, crashes>>

\* The program ends; session.json stays.
Quit(c) ==
    /\ screen[c] # "off"
    /\ Show(c, "off", None, 0)
    /\ due' = [due EXCEPT ![c] = FALSE]
    /\ Close(BothOf(c))
    /\ UNCHANGED <<clock, server, saved, crashes>>

Pending == {n \in Conns : Open(n) /\ conn[n].op = "login" /\ conn[n].at \notin Final}

\* LoginWindow._login, as long as there are tokens to draw
Login(c) ==
    /\ screen[c] = "login" /\ call[Worker(c)] = None
    /\ Cardinality(Issued) + Cardinality(Pending) < Cardinality(Tokens)
    /\ Send(Worker(c), "login", None)
    /\ UNCHANGED <<clock, server, client, crashes>>

\* slip: the answer's expiry is not looked at, or not there
LoginAnsweredUndated(c) ==
    /\ screen[c] = "login" /\ Answered(Worker(c))
    /\ LET r == conn[call[Worker(c)]]
       IN  IF r.at = "ok" THEN Show(c, "entering", r.tok, None)
                          ELSE UNCHANGED <<screen, token, expires>>
    /\ Close({Worker(c)})
    /\ UNCHANGED <<clock, server, saved, due, crashes>>

\* NetClient.login: the token is there before the session is saved
LoginAnswered(c) ==
    /\ screen[c] = "login" /\ Answered(Worker(c))
    /\ LET r == conn[call[Worker(c)]]
       IN  IF r.at = "ok" THEN Show(c, "entering", r.tok, r.exp)
                          ELSE UNCHANGED <<screen, token, expires>>
    /\ Close({Worker(c)})
    /\ UNCHANGED <<clock, server, saved, due, crashes>>

\* The worker calls: _unlock_identity publishes the key before the window
\* opens; _auto_refresh and others list, mark, delete and fetch.  Without a
\* token _auth_rpc raises at once and nothing changes.
Work(c) ==
    /\ screen[c] \in {"entering", "opening", "main"}
    /\ call[Worker(c)] = None /\ token[c] # None
    /\ Send(Worker(c), "mail", token[c])
    /\ UNCHANGED <<clock, server, client, crashes>>

\* _auth_rpc drops a rejected token; the worker's error is not looked at.
\* _auto_refresh calls reload when what it listed is not what is shown.
Worked(c) ==
    /\ screen[c] # "login" /\ Answered(Worker(c))
    /\ LET a == conn[call[Worker(c)]].at
       IN  /\ token' = IF a = "rejected" THEN [token EXCEPT ![c] = None] ELSE token
           /\ \E b \in {due[c], due[c] \/ (a = "ok" /\ screen[c] = "main")} :
                due' = [due EXCEPT ![c] = b]
    /\ Close({Worker(c)})
    /\ UNCHANGED <<clock, server, screen, expires, saved, crashes>>

\* An OSError in _unlock_identity: the login has failed, and its window stays.
\* Nobody takes the token away, and nothing is saved.
LoginBreaksOff(c) ==
    /\ screen[c] = "entering"
    /\ screen' = [screen EXCEPT ![c] = "login"]
    /\ Close({Worker(c)})
    /\ UNCHANGED <<clock, server, token, expires, saved, due, crashes>>

\* LoginWindow._done saves the session; open_main, and MessagerWindow's
\* constructor ends with reload
Enter(c) ==
    /\ screen[c] \in {"entering", "opening"} /\ call[Worker(c)] = None
    /\ screen' = [screen EXCEPT ![c] = "main"]
    /\ saved' = IF screen[c] = "entering"
                  THEN [saved EXCEPT ![c] = [tok |-> token[c], exp |-> expires[c]]]
                  ELSE saved
    /\ due' = [due EXCEPT ![c] = TRUE]
    /\ UNCHANGED <<clock, server, conn, call, token, expires, crashes>>

\* clear_session, and screen s
Forget(c, s) ==
    /\ Show(c, s, None, 0)
    /\ saved' = [saved EXCEPT ![c] = None]
    /\ due' = [due EXCEPT ![c] = FALSE]
    /\ Close(BothOf(c))

\* reload, by itself or when the user asks: without a token, _on_auth_lost
Reload(c) ==
    /\ screen[c] = "main" /\ call[UI(c)] = None
    /\ IF token[c] = None
         THEN Forget(c, "login")
         ELSE /\ Send(UI(c), "mail", token[c])
              /\ due' = [due EXCEPT ![c] = FALSE]
              /\ UNCHANGED <<screen, token, expires, saved>>
    /\ UNCHANGED <<clock, server, crashes>>

\* reload: only a rejection is more than a message in the status bar
Reloaded(c) ==
    /\ Answered(UI(c)) /\ conn[call[UI(c)]].op = "mail"
    /\ IF conn[call[UI(c)]].at = "rejected"
         THEN Forget(c, "login")
         ELSE Close({UI(c)}) /\ UNCHANGED client
    /\ UNCHANGED <<clock, server, crashes>>

\* SettingsDialog._logout, NetClient.logout
Logout(c) ==
    /\ screen[c] = "main" /\ call[UI(c)] = None
    /\ IF token[c] = None
         THEN Forget(c, "off")
         ELSE Send(UI(c), "logout", token[c]) /\ UNCHANGED client
    /\ UNCHANGED <<clock, server, crashes>>

\* NetClient.logout takes every answer, and a NetError from connecting, for done.
LoggedOut(c) ==
    /\ call[UI(c)] # None
    /\ LET r == conn[call[UI(c)]]
       IN  r.op = "logout" /\ r.at \in Final \cup {"sent"}
    /\ Forget(c, "off")
    /\ UNCHANGED <<clock, server, crashes>>

Tick ==
    /\ clock < MaxClock
    /\ clock' = clock + 1
    /\ UNCHANGED <<server, conn, call, client, crashes>>

ServerStep(n) ==
    \/ RefuseLogin(n) \/ AcceptLogin(n) \/ NewSession(n)
    \/ Pass(n) \/ Reject(n) \/ Operate(n) \/ DropSession(n)

AnswerStep(c) == LoginAnswered(c) \/ Worked(c) \/ Reloaded(c) \/ LoggedOut(c)

UserStep(c) == Start(c) \/ Quit(c) \/ Login(c) \/ Work(c) \/ Enter(c) \/ Reload(c) \/ Logout(c)

Next ==
    \/ \E n \in Conns : ServerStep(n) \/ Vanish(n)
    \/ \E c \in Clients : AnswerStep(c) \/ UserStep(c) \/ LoginBreaksOff(c)
    \/ \E t \in Threads : HangUp(t)
    \/ Restart
    \/ Tick

Spec == Init /\ [][Next]_vars

\* apid's threads run, and so does the client, when an answer is there, when
\* a window is to open or to reload, and every 20 seconds.
Fairness ==
    /\ \A n \in Conns : WF_vars(ServerStep(n))
    /\ \A c \in Clients :
         /\ WF_vars(LoginAnswered(c)) /\ WF_vars(Worked(c)) /\ WF_vars(Reloaded(c))
         /\ WF_vars(Answered(UI(c)) /\ LoggedOut(c))
         /\ WF_vars(Enter(c)) /\ WF_vars(due[c] /\ Reload(c)) /\ WF_vars(Work(c))

FairSpec == Spec /\ Fairness

-----------------------------------------------------------------------------
TypeOK ==
    /\ clock \in Nat /\ crashes \in Nat
    /\ sess \in [Tokens -> Nat \cup {None}]
    /\ disk \in [Tokens -> Nat \cup {None}]
    /\ until \in [Tokens -> Nat \cup {None}]
    /\ dropped \subseteq Tokens
    /\ conn \in [Conns -> Connection \cup {Closed}]
    /\ call \in [Threads -> Conns \cup {None}]
    /\ screen \in [Clients -> {"off", "login", "entering", "opening", "main"}]
    /\ token \in [Clients -> Tokens \cup {None}]
    /\ expires \in [Clients -> Nat]
    /\ saved \in [Clients -> Saved \cup {None}]
    /\ due \in [Clients -> BOOLEAN]

\* Once a logout has been carried out, the token is neither in memory nor in
\* the file a restarted apid reads.
LoggedOutStaysOut == \A x \in dropped : sess[x] = None /\ disk[x] = None

\* apid.py:47, "token survives an apid restart / server reboot": a session
\* that was not dropped is known until it expires.
SessionsSurvive ==
    \A x \in Issued \ dropped : until[x] > clock => sess[x] = until[x]

\* A call is let through only with a token that was issued, is not expired,
\* and was not dropped before, whatever was written, lost and read again.
OnlyLiveSessionsPass ==
    [][\A n \in Conns :
         Open(n) /\ conn[n].at = "sent" /\ conn'[n] # Closed /\ conn'[n].at = "passed" =>
           LET x == conn[n].tok
           IN  x \in Issued /\ clock <= until[x] /\ x \notin dropped]_vars

\* Why these hold: every copy of a session is the one issued, what clients
\* hold was issued, and the file is behind the dict by expired sessions only,
\* none of which a call still works under.
CallsMatch ==
    /\ \A t \in Threads : call[t] # None => Open(call[t])
    /\ \A t, s \in Threads : call[t] = call[s] /\ call[t] # None => t = s

CallsInOrder ==
    \A n \in Conns : Open(n) =>
       /\ conn[n].at = "verified" => conn[n].op = "login"
       /\ conn[n].at = "passed" => conn[n].op # "login"
       /\ conn[n].op # "login" \/ conn[n].at = "ok" => conn[n].tok \in Issued

HeldIssued ==
    /\ dropped \subseteq Issued
    /\ \A c \in Clients : token[c] \in Issued \cup {None}
    /\ \A c \in Clients : saved[c] # None => saved[c].tok \in Issued \cup {None}

CopiesGenuine ==
    \A x \in Tokens : /\ sess[x] # None => sess[x] = until[x]
                      /\ disk[x] # None => disk[x] = until[x]

FileUpToDate ==
    \A x \in Tokens :
       /\ sess[x] # None => disk[x] = sess[x]
       /\ sess[x] = None /\ disk[x] # None =>
            /\ disk[x] <= clock
            /\ \A n \in Conns : Open(n) /\ conn[n].at = "passed" => conn[n].tok # x

\* apid.py:102-122, netclient.py:66: every call ends in an answer or in a closed
\* connection, after a rejection, an error or a kill, and the client then knows:
\* no thread waits for ever, even without a timeout.
EveryCallEnds == \A t \in Threads : call[t] # None ~> call[t] = None

\* gui.py:1563, "The server rejected the session (e.g. server restarted) -
\* clear the session, return to the Login screen."
RejectionIsNoticed ==
    \A c \in Clients : screen[c] = "main" /\ token[c] = None ~> screen[c] # "main"
=============================================================================
