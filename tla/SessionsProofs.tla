--------------------------- MODULE SessionsProofs ---------------------------
(***************************************************************************)
(* What holds of the sessions for any number of programs, tokens,          *)
(* connections and restarts, proved.                                       *)
(***************************************************************************)
EXTENDS Sessions, TLAPS

\* Types, threads that wait on open connections of their own, and operations
\* that name a token.
CallsNameTokens ==
    \A n \in Conns : Open(n) =>
       /\ conn[n].op # "login" => conn[n].tok # None
       /\ conn[n].at = "verified" => conn[n].op = "login"

TypeInv == TypeOK /\ CallsMatch /\ CallsNameTokens

-----------------------------------------------------------------------------
(* What the operators the actions are built from do to the connections *)

\* An answer changes one connection, and closes it only if nobody waits.
LEMMA ReplyEffect ==
    ASSUME TypeInv, NEW n \in Conns, Open(n), NEW a \in Final, Reply(n, a)
    PROVE  /\ conn' \in [Conns -> Connection \cup {Closed}]
           /\ \A m \in Conns : conn'[m] # Closed =>
                /\ Open(m)
                /\ \/ conn'[m] = conn[m]
                   \/ /\ m = n /\ conn'[m].at = a
                      /\ conn'[m].op = conn[m].op /\ conn'[m].tok = conn[m].tok
           /\ \A m \in Conns : Open(m) /\ Awaited(m) => conn'[m] # Closed
  <1>1. conn[n] \in Connection
    BY DEF TypeInv, TypeOK, Open
  <1>2. [conn[n] EXCEPT !.at = a] \in Connection
    BY <1>1 DEF Connection, Final
  <1>3. [conn[n] EXCEPT !.at = a] # Closed
    BY <1>2, SessionsAssumption
  <1>4. /\ [conn[n] EXCEPT !.at = a].at = a
        /\ [conn[n] EXCEPT !.at = a].op = conn[n].op
        /\ [conn[n] EXCEPT !.at = a].tok = conn[n].tok
    BY <1>1 DEF Connection
  <1> QED
    BY <1>1, <1>2, <1>3, <1>4 DEF Reply, TypeInv, TypeOK, Open

\* Threads that close leave other threads' connections alone.
LEMMA CloseEffect ==
    ASSUME TypeInv, NEW T \in SUBSET Threads, Close(T)
    PROVE  /\ conn' \in [Conns -> Connection \cup {Closed}]
           /\ call' \in [Threads -> Conns \cup {None}]
           /\ \A m \in Conns : conn'[m] # Closed => Open(m) /\ conn'[m] = conn[m]
           /\ CallsMatch'
  <1>1. \A t \in Threads : call'[t] # None =>
            t \notin T /\ call'[t] = call[t] /\ conn'[call[t]] = conn[call[t]]
    BY SessionsAssumption DEF TypeInv, TypeOK, CallsMatch, Close
  <1>2. CallsMatch'
    BY <1>1 DEF TypeInv, CallsMatch, Open
  <1> QED
    BY <1>2 DEF Close, TypeInv, TypeOK, Open

\* A request goes out on a connection nobody uses.
LEMMA SendEffect ==
    ASSUME TypeInv, NEW t \in Threads, call[t] = None,
           NEW op \in {"login", "logout", "mail"}, NEW x \in Tokens \cup {None},
           Send(t, op, x)
    PROVE  /\ conn' \in [Conns -> Connection \cup {Closed}]
           /\ call' \in [Threads -> Conns \cup {None}]
           /\ \A m \in Conns : conn'[m] # Closed =>
                \/ Open(m) /\ conn'[m] = conn[m]
                \/ conn'[m].at = "sent" /\ conn'[m].op = op /\ conn'[m].tok = x
           /\ CallsMatch'
  <1> DEFINE new == [op |-> op, tok |-> x, at |-> "sent", exp |-> 0]
  <1>1. PICK n \in Conns : /\ conn[n] = Closed
                           /\ conn' = [conn EXCEPT ![n] = new]
                           /\ call' = [call EXCEPT ![t] = n]
    BY DEF Send
  <1>2. new \in Connection /\ new # Closed
    BY SessionsAssumption DEF Connection
  <1>3. new.at = "sent" /\ new.op = op /\ new.tok = x
    OBVIOUS
  <1> HIDE DEF new
  <1>4. \A s \in Threads : call[s] # n
    BY <1>1, SessionsAssumption DEF TypeInv, CallsMatch, Open
  <1>5. CallsMatch'
    <2>1. \A s \in Threads : call'[s] = IF s = t THEN n ELSE call[s]
      BY <1>1 DEF TypeInv, TypeOK
    <2>2. \A m \in Conns : conn'[m] = IF m = n THEN new ELSE conn[m]
      BY <1>1 DEF TypeInv, TypeOK
    <2>3. \A s \in Threads : call[s] # None => call[s] \in Conns /\ Open(call[s])
      BY DEF TypeInv, TypeOK, CallsMatch
    <2> QED
      BY <1>2, <1>4, <2>1, <2>2, <2>3 DEF TypeInv, CallsMatch, Open
  <1> QED
    BY <1>1, <1>2, <1>3, <1>5 DEF TypeInv, TypeOK, Open

\* A reply leaves every thread's connection open.
LEMMA ReplyKeepsCalls ==
    ASSUME TypeInv, NEW n \in Conns, Open(n), NEW a \in Final, Reply(n, a), UNCHANGED call
    PROVE  CallsMatch'
  <1>1. \A t \in Threads : call[t] # None => Open(call[t]) /\ Awaited(call[t]) /\ call[t] \in Conns
    BY DEF TypeInv, TypeOK, CallsMatch, Awaited
  <1> QED
    BY <1>1, ReplyEffect DEF TypeInv, CallsMatch, Open

-----------------------------------------------------------------------------
(* Types *)

\* The types, at the start.
LEMMA TypeInit == Init => TypeInv
  BY SessionsAssumption DEF Init, TypeInv, TypeOK, CallsMatch, CallsNameTokens, Open

\* what a thread finds when its answer is there
LEMMA AnswerIs ==
    ASSUME TypeInv, NEW t \in Threads, call[t] # None
    PROVE  call[t] \in Conns /\ Open(call[t]) /\ conn[call[t]] \in Connection
  BY DEF TypeInv, TypeOK, CallsMatch, Open

\* A client's threads are threads.
LEMMA ThreadsOf ==
    \A c \in Clients : UI(c) \in Threads /\ Worker(c) \in Threads /\ BothOf(c) \in SUBSET Threads
  BY DEF UI, Worker, Threads, BothOf

\* The three actions of apid that change the sessions keep their types.
LEMMA SessionsType ==
    ASSUME TypeInv, NEW n \in Conns, ServerStep(n)
    PROVE  /\ sess' \in [Tokens -> Nat \cup {None}] /\ disk' \in [Tokens -> Nat \cup {None}]
           /\ until' \in [Tokens -> Nat \cup {None}]
           /\ dropped' \subseteq Tokens
  <1>1. CASE RefuseLogin(n) \/ AcceptLogin(n) \/ Pass(n) \/ Operate(n)
    BY <1>1 DEF RefuseLogin, AcceptLogin, Pass, Operate, server, TypeInv, TypeOK
  <1>2. CASE NewSession(n)
    <2>1. conn[n].exp \in Nat
      BY <1>2 DEF NewSession, TypeInv, TypeOK, Open, Connection
    <2> QED
      BY <1>2, <2>1 DEF NewSession, Admit, Save, TypeInv, TypeOK
  <1>3. CASE Reject(n)
    BY <1>3 DEF Reject, Save, TypeInv, TypeOK
  <1>4. CASE DropSession(n)
    <2>1. conn[n].tok \in Tokens
      BY <1>4 DEF DropSession, TypeInv, TypeOK, CallsNameTokens, Open, Connection
    <2> QED
      BY <1>4, <2>1 DEF DropSession, Save, TypeInv, TypeOK
  <1> QED
    BY <1>1, <1>2, <1>3, <1>4 DEF ServerStep

\* A step of apid changes connection n only, whose operation stays, and closes
\* it only if nobody waits; only a login gets a token, a fresh one.
LEMMA ServerConns ==
    ASSUME TypeInv, NEW n \in Conns, ServerStep(n)
    PROVE  /\ Open(n) /\ UNCHANGED <<clock, call, client, crashes>>
           /\ conn' \in [Conns -> Connection \cup {Closed}]
           /\ \A m \in Conns : m # n => conn'[m] = conn[m]
           /\ conn'[n] # Closed =>
                /\ conn'[n].op = conn[n].op
                /\ \/ /\ conn'[n].tok = conn[n].tok
                      /\ conn'[n].at = "verified" => conn[n].op = "login"
                      /\ conn'[n].at = "passed" => Pass(n)
                      /\ conn'[n].at = "ok" => conn[n].op # "login"
                   \/ /\ conn[n].op = "login" /\ conn'[n].at = "ok"
                      /\ conn'[n].tok \in Issued'
           /\ Awaited(n) => conn'[n] # Closed
  <1>1. CASE RefuseLogin(n) \/ Reject(n) \/ Operate(n) \/ DropSession(n)
    <2>1. Open(n) /\ UNCHANGED <<clock, call, client, crashes>>
      BY <1>1 DEF RefuseLogin, Reject, Asked, Operate, DropSession
    <2>2. PICK a \in Final : Reply(n, a) /\ (a = "ok" => conn[n].op # "login")
      BY <1>1 DEF RefuseLogin, Reject, Operate, DropSession, Final
    <2>3. a # "verified" /\ a # "passed"
      BY DEF Final
    <2>4. \A m \in Conns : m # n => conn'[m] = conn[m]
      BY <2>2 DEF Reply, TypeInv, TypeOK
    <2>5. conn'[n] # Closed => conn'[n] = [conn[n] EXCEPT !.at = a]
      BY <2>2 DEF Reply, TypeInv, TypeOK
    <2>6. conn[n] \in Connection
      BY <2>1 DEF TypeInv, TypeOK, Open
    <2>7. conn'[n] # Closed =>
            conn'[n].at = a /\ conn'[n].op = conn[n].op /\ conn'[n].tok = conn[n].tok
      BY <2>5, <2>6 DEF Connection
    <2>8. /\ conn' \in [Conns -> Connection \cup {Closed}]
          /\ \A m \in Conns : Open(m) /\ Awaited(m) => conn'[m] # Closed
      BY <2>1, <2>2, ReplyEffect
    <2> QED
      BY <2>1, <2>2, <2>3, <2>4, <2>7, <2>8
  <1>2. CASE AcceptLogin(n)
    <2>1. Open(n) /\ UNCHANGED <<clock, call, client, crashes>> /\ conn[n].op = "login"
      BY <1>2 DEF AcceptLogin
    <2> DEFINE r == [conn[n] EXCEPT !.at = "verified", !.exp = clock + TTL]
    <2>2. conn[n] \in Connection /\ clock + TTL \in Nat
      BY <2>1, SessionsAssumption DEF TypeInv, TypeOK, Open
    <2>3. r \in Connection /\ r.op = conn[n].op /\ r.tok = conn[n].tok /\ r.at = "verified"
      BY <2>2 DEF Connection
    <2>4. conn' = [conn EXCEPT ![n] = r]
      BY <1>2, <2>2 DEF AcceptLogin, TypeInv, TypeOK
    <2>5. r # Closed
      BY <2>3, SessionsAssumption
    <2> HIDE DEF r
    <2> QED
      BY <2>1, <2>2, <2>3, <2>4, <2>5 DEF TypeInv, TypeOK
  <1>3. CASE NewSession(n)
    <2>1. PICK x \in Tokens \ Issued : Admit(n, x)
      BY <1>3 DEF NewSession
    <2>2. /\ Open(n) /\ conn[n] \in Connection /\ conn[n].op = "login"
          /\ UNCHANGED <<clock, call, client, crashes>>
      BY <1>3, <2>1 DEF NewSession, Admit, Open, TypeInv, TypeOK, CallsNameTokens
    <2> DEFINE r == [conn[n] EXCEPT !.at = "ok", !.tok = x]
    <2>3. r \in Connection /\ r.op = conn[n].op /\ r.tok = x /\ r.at = "ok"
      BY <2>2 DEF Connection
    <2>4. conn' = [conn EXCEPT ![n] = IF Awaited(n) THEN r ELSE Closed]
      BY <2>1 DEF Admit
    <2>5. r # Closed
      BY <2>3, SessionsAssumption
    <2>6. x \in Issued'
      <3>1. conn[n].exp \in Nat
        BY <2>2 DEF Connection
      <3> QED
        BY <2>1, <3>1, SessionsAssumption DEF Admit, Issued, TypeInv, TypeOK
    <2> HIDE DEF r
    <2> QED
      BY <2>2, <2>3, <2>4, <2>5, <2>6 DEF TypeInv, TypeOK
  <1>4. CASE Pass(n)
    <2>1. /\ Open(n) /\ conn[n] \in Connection /\ conn[n].op # "login"
          /\ UNCHANGED <<clock, call, client, crashes>>
      BY <1>4 DEF Pass, Asked, Open, TypeInv, TypeOK
    <2> DEFINE r == [conn[n] EXCEPT !.at = "passed"]
    <2>2. r \in Connection /\ r.op = conn[n].op /\ r.tok = conn[n].tok /\ r.at = "passed"
      BY <2>1 DEF Connection
    <2>3. conn' = [conn EXCEPT ![n] = r]
      BY <1>4 DEF Pass
    <2>4. r # Closed
      BY <2>2, SessionsAssumption
    <2> HIDE DEF r
    <2> QED
      BY <1>4, <2>1, <2>2, <2>3, <2>4 DEF TypeInv, TypeOK
  <1> QED
    BY <1>1, <1>2, <1>3, <1>4 DEF ServerStep

\* A step of apid keeps the types.
LEMMA ServerKeepsTypes ==
    ASSUME TypeInv, NEW n \in Conns, ServerStep(n)
    PROVE  TypeInv'
  <1>1. TypeOK'
    BY SessionsType, ServerConns DEF TypeInv, TypeOK, client
  <1>2. \A m \in Conns : Open(m) /\ Awaited(m) => conn'[m] # Closed
    BY ServerConns DEF Open
  <1>3. CallsMatch'
    <2>1. UNCHANGED call
      BY ServerConns
    <2>2. \A t \in Threads : call[t] # None => call[t] \in Conns /\ Open(call[t]) /\ Awaited(call[t])
      BY DEF TypeInv, TypeOK, CallsMatch, Awaited
    <2> QED
      BY <1>2, <2>1, <2>2 DEF TypeInv, CallsMatch, Open
  <1>4. CallsNameTokens'
    <2> SUFFICES ASSUME NEW m \in Conns, conn'[m] # Closed
                 PROVE  /\ conn'[m].op # "login" => conn'[m].tok # None
                        /\ conn'[m].at = "verified" => conn'[m].op = "login"
      BY DEF CallsNameTokens, Open
    <2>1. CASE m = n
      BY <2>1, ServerConns DEF TypeInv, CallsNameTokens
    <2>2. CASE m # n
      BY <2>2, ServerConns DEF TypeInv, CallsNameTokens, Open
    <2> QED
      BY <2>1, <2>2
  <1> QED
    BY <1>1, <1>3, <1>4 DEF TypeInv

\* What a step of a client does: it leaves apid alone, asks with a token it
\* holds, and holds what it held or was given.
ClientEffect ==
    /\ UNCHANGED <<clock, server, crashes>>
    /\ conn' \in [Conns -> Connection \cup {Closed}]
    /\ call' \in [Threads -> Conns \cup {None}]
    /\ CallsMatch'
    /\ \A m \in Conns : conn'[m] # Closed =>
         \/ Open(m) /\ conn'[m] = conn[m]
         \/ /\ conn'[m].at = "sent"
            /\ conn'[m].op # "login" =>
                 conn'[m].tok # None /\ \E c \in Clients : conn'[m].tok = token[c]

ClientKeeps ==
    /\ screen' \in [Clients -> {"off", "login", "entering", "opening", "main"}]
    /\ token' \in [Clients -> Tokens \cup {None}]
    /\ expires' \in [Clients -> Nat]
    /\ saved' \in [Clients -> Saved \cup {None}]
    /\ due' \in [Clients -> BOOLEAN]
    /\ \A c \in Clients :
         \/ token'[c] \in {None, token[c]}
         \/ saved[c] # None /\ token'[c] = saved[c].tok
         \/ \E n \in Conns : Open(n) /\ conn[n].at = "ok" /\ token'[c] = conn[n].tok
    /\ \A c \in Clients : saved'[c] # None =>
         saved'[c] = saved[c] \/ saved'[c].tok = token[c]

\* Closing connections is no more than the client's part of a step.
LEMMA ClosingEffect ==
    ASSUME TypeInv, NEW T \in SUBSET Threads, Close(T), UNCHANGED <<clock, server, crashes>>
    PROVE  ClientEffect
  BY CloseEffect DEF ClientEffect

\* So is sending a request.
LEMMA SendingEffect ==
    ASSUME TypeInv, NEW t \in Threads, call[t] = None, UNCHANGED <<clock, server, crashes>>,
           \/ Send(t, "login", None)
           \/ \E op \in {"logout", "mail"}, c \in Clients : token[c] # None /\ Send(t, op, token[c])
    PROVE  ClientEffect
  <1>1. CASE Send(t, "login", None)
    BY <1>1, SendEffect DEF ClientEffect
  <1>2. ASSUME NEW op \in {"logout", "mail"}, NEW c \in Clients, token[c] # None,
               Send(t, op, token[c])
        PROVE  ClientEffect
    <2>1. token[c] \in Tokens \cup {None}
      BY DEF TypeInv, TypeOK
    <2>2. PICK x \in Tokens \cup {None} : x = token[c]
      BY <2>1
    <2>3. Send(t, op, x)
      BY <1>2, <2>2
    <2> QED
      BY <1>2, <2>2, <2>3, SendEffect DEF ClientEffect
  <1> QED
    BY <1>1, <1>2

\* So is what leaves the connections alone.
LEMMA QuietEffect ==
    ASSUME TypeInv, UNCHANGED <<clock, server, conn, call, crashes>>
    PROVE  ClientEffect
  BY DEF ClientEffect, TypeInv, TypeOK, CallsMatch, Open

\* A step that leaves the clients alone keeps their types.
LEMMA SameKeeps == ASSUME TypeInv, UNCHANGED client PROVE ClientKeeps
  BY DEF ClientKeeps, client, TypeInv, TypeOK

\* A client that forgets its session keeps the types.
LEMMA ForgetEffect ==
    ASSUME TypeInv, NEW c \in Clients, NEW s \in {"off", "login"}, Forget(c, s),
           UNCHANGED <<clock, server, crashes>>
    PROVE  ClientEffect /\ ClientKeeps
  <1>1. ClientEffect
    BY ThreadsOf, ClosingEffect DEF Forget
  <1>2. ClientKeeps
    BY DEF Forget, Show, ClientKeeps, TypeInv, TypeOK
  <1> QED
    BY <1>1, <1>2

\* So does one that has an answer.
LEMMA AnswerEffect ==
    ASSUME TypeInv, NEW c \in Clients, AnswerStep(c)
    PROVE  ClientEffect /\ ClientKeeps
  <1>1. CASE LoginAnswered(c)
    <2>1. ClientEffect
      BY <1>1, ThreadsOf, ClosingEffect DEF LoginAnswered
    <2>2. PICK n \in Conns : n = call[Worker(c)] /\ Open(n) /\ conn[n] \in Connection
      BY <1>1, ThreadsOf, AnswerIs DEF LoginAnswered, Answered
    <2>3. conn[n].tok \in Tokens \cup {None} /\ conn[n].exp \in Nat
      BY <2>2 DEF Connection
    <2>4. ClientKeeps
      BY <1>1, <2>2, <2>3 DEF LoginAnswered, Show, ClientKeeps, TypeInv, TypeOK
    <2> QED
      BY <2>1, <2>4
  <1>2. CASE Worked(c)
    <2>1. ClientEffect
      BY <1>2, ThreadsOf, ClosingEffect DEF Worked
    <2>2. /\ token' \in [Clients -> Tokens \cup {None}]
          /\ \A d \in Clients : token'[d] \in {None, token[d]}
      BY <1>2 DEF Worked, TypeInv, TypeOK
    <2>3. due' \in [Clients -> BOOLEAN]
      <3>1. PICK b \in BOOLEAN : due' = [due EXCEPT ![c] = b]
        <4>1. due[c] \in BOOLEAN
          BY DEF TypeInv, TypeOK
        <4> QED
          BY <1>2, <4>1 DEF Worked
      <3> QED
        BY <3>1 DEF TypeInv, TypeOK
    <2>4. UNCHANGED <<screen, expires, saved>>
      BY <1>2 DEF Worked
    <2>5. ClientKeeps
      BY <2>2, <2>3, <2>4 DEF ClientKeeps, TypeInv, TypeOK
    <2> QED
      BY <2>1, <2>5
  <1>3. CASE Reloaded(c)
    <2>1. CASE Forget(c, "login")
      BY <1>3, <2>1, ForgetEffect DEF Reloaded
    <2>2. CASE Close({UI(c)}) /\ UNCHANGED client
      BY <1>3, <2>2, ThreadsOf, ClosingEffect, SameKeeps DEF Reloaded
    <2> QED
      BY <1>3, <2>1, <2>2 DEF Reloaded
  <1>4. CASE LoggedOut(c)
    BY <1>4, ForgetEffect DEF LoggedOut
  <1> QED
    BY <1>1, <1>2, <1>3, <1>4 DEF AnswerStep

\* So does what a user does.
LEMMA UserEffect ==
    ASSUME TypeInv, NEW c \in Clients, UserStep(c)
    PROVE  ClientEffect /\ ClientKeeps
  <1>1. CASE Start(c)
    <2>1. ClientEffect
      BY <1>1, QuietEffect DEF Start
    <2>2. PICK s \in {"opening", "login"}, x \in Tokens \cup {None}, e \in Nat :
                 /\ Show(c, s, x, e)
                 /\ (x # None => saved[c] # None /\ x = saved[c].tok)
      <3>1. saved[c] # None => saved[c].tok \in Tokens \cup {None} /\ saved[c].exp \in Nat
        BY DEF TypeInv, TypeOK, Saved
      <3>2. CASE saved[c] # None /\ saved[c].exp > clock + Margin
        <4>1. Show(c, "opening", saved[c].tok, saved[c].exp)
          BY <1>1, <3>2 DEF Start
        <4>2. saved[c].tok \in Tokens \cup {None} /\ saved[c].exp \in Nat
          BY <3>1, <3>2
        <4> QED
          BY <3>2, <4>1, <4>2
      <3>3. CASE ~(saved[c] # None /\ saved[c].exp > clock + Margin)
        <4>1. Show(c, "login", None, 0)
          BY <1>1, <3>3 DEF Start
        <4> QED
          BY <4>1
      <3> QED
        BY <3>2, <3>3
    <2> QED
      BY <1>1, <2>1, <2>2 DEF Start, Show, ClientKeeps, TypeInv, TypeOK
  <1>2. CASE Quit(c)
    <2>1. ClientEffect
      BY <1>2, ThreadsOf, ClosingEffect DEF Quit
    <2> QED
      BY <1>2, <2>1 DEF Quit, Show, ClientKeeps, TypeInv, TypeOK
  <1>3. CASE Login(c)
    BY <1>3, ThreadsOf, SendingEffect, SameKeeps DEF Login
  <1>4. CASE Work(c)
    BY <1>4, ThreadsOf, SendingEffect, SameKeeps DEF Work
  <1>5. CASE Enter(c)
    <2>1. ClientEffect
      BY <1>5, QuietEffect DEF Enter
    <2>2. PICK r \in Saved : r = [tok |-> token[c], exp |-> expires[c]]
      BY DEF TypeInv, TypeOK, Saved
    <2>3. r.tok = token[c]
      BY <2>2
    <2> QED
      BY <1>5, <2>1, <2>2, <2>3 DEF Enter, ClientKeeps, TypeInv, TypeOK
  <1>6. CASE Reload(c)
    <2>1. CASE token[c] = None
      BY <1>6, <2>1, ForgetEffect DEF Reload
    <2>2. CASE token[c] # None
      <3>1. ClientEffect
        BY <1>6, <2>2, ThreadsOf, SendingEffect DEF Reload
      <3> QED
        BY <1>6, <2>2, <3>1 DEF Reload, ClientKeeps, TypeInv, TypeOK
    <2> QED
      BY <2>1, <2>2
  <1>7. CASE Logout(c)
    <2>1. CASE token[c] = None
      BY <1>7, <2>1, ForgetEffect DEF Logout
    <2>2. CASE token[c] # None
      BY <1>7, <2>2, ThreadsOf, SendingEffect, SameKeeps DEF Logout
    <2> QED
      BY <2>1, <2>2
  <1> QED
    BY <1>1, <1>2, <1>3, <1>4, <1>5, <1>6, <1>7 DEF UserStep

\* So does a thread that hangs up.
LEMMA HangUpEffect ==
    ASSUME TypeInv, NEW t \in Threads, HangUp(t)
    PROVE  ClientEffect /\ ClientKeeps
  BY ClosingEffect, SameKeeps DEF HangUp

\* So does a login that is broken off.
LEMMA BreakOffEffect ==
    ASSUME TypeInv, NEW c \in Clients, LoginBreaksOff(c)
    PROVE  ClientEffect /\ ClientKeeps
  <1>1. ClientEffect
    BY ThreadsOf, ClosingEffect DEF LoginBreaksOff
  <1> QED
    BY <1>1 DEF LoginBreaksOff, ClientKeeps, TypeInv, TypeOK

\* So does a connection that breaks.
LEMMA VanishEffect ==
    ASSUME TypeInv, NEW n \in Conns, Vanish(n)
    PROVE  ClientEffect /\ ClientKeeps
  <1>1. ClientKeeps
    BY SameKeeps DEF Vanish
  <1>2. /\ UNCHANGED <<clock, server, call, crashes>>
        /\ conn' = [conn EXCEPT ![n] = Closed] /\ ~Awaited(n)
    BY DEF Vanish
  <1>3. CallsMatch'
    BY <1>2 DEF TypeInv, TypeOK, CallsMatch, Open, Awaited
  <1> QED
    BY <1>1, <1>2, <1>3 DEF ClientEffect, TypeInv, TypeOK, Open

\* Every step is one of apid's threads, apid killed and started, the clock,
\* or a client's.
LEMMA StepKinds ==
    ASSUME TypeInv, [Next]_vars
    PROVE  \/ \E n \in Conns : ServerStep(n)
           \/ Restart
           \/ Tick
           \/ ClientEffect /\ ClientKeeps
  <1>1. CASE UNCHANGED vars
    BY <1>1, QuietEffect, SameKeeps DEF vars
  <1>2. CASE Next
    BY <1>2, AnswerEffect, UserEffect, HangUpEffect, BreakOffEffect, VanishEffect DEF Next
  <1> QED
    BY <1>1, <1>2

\* A restart cuts what is not answered, and keeps the sessions not expired.
LEMMA RestartEffect ==
    ASSUME TypeInv, Restart
    PROVE  /\ UNCHANGED <<clock, disk, until, dropped, call, client>>
           /\ \A x \in Tokens : sess'[x] = IF disk[x] # None /\ disk[x] > clock
                                            THEN disk[x] ELSE None
           /\ conn' \in [Conns -> Connection \cup {Closed}]
           /\ \A m \in Conns : conn'[m] # Closed =>
                /\ Open(m)
                /\ \/ conn'[m] = conn[m] /\ conn[m].at \in Final
                   \/ /\ conn'[m].at = "cut" /\ conn'[m].op = conn[m].op
                      /\ conn'[m].tok = conn[m].tok
           /\ TypeInv'
  <1>1. /\ UNCHANGED <<clock, disk, until, dropped, call, client>>
        /\ \A x \in Tokens : sess'[x] = IF disk[x] # None /\ disk[x] > clock
                                         THEN disk[x] ELSE None
        /\ sess' = Loaded /\ crashes' = crashes + 1
    BY DEF Restart, Loaded
  <1>2. ASSUME NEW m \in Conns
        PROVE  LET r == [conn[m] EXCEPT !.at = "cut"]
               IN  Open(m) => /\ r \in Connection /\ r # Closed
                              /\ r.at = "cut" /\ r.op = conn[m].op /\ r.tok = conn[m].tok
    <2> SUFFICES ASSUME Open(m)
                 PROVE  LET r == [conn[m] EXCEPT !.at = "cut"]
                        IN  /\ r \in Connection /\ r # Closed
                            /\ r.at = "cut" /\ r.op = conn[m].op /\ r.tok = conn[m].tok
      OBVIOUS
    <2> DEFINE r == [conn[m] EXCEPT !.at = "cut"]
    <2>1. conn[m] \in Connection
      BY DEF TypeInv, TypeOK, Open
    <2>2. r \in Connection /\ r.at = "cut" /\ r.op = conn[m].op /\ r.tok = conn[m].tok
      BY <2>1 DEF Connection
    <2>3. r # Closed
      BY <2>2, SessionsAssumption
    <2> QED
      BY <2>2, <2>3
  <1>3. \A m \in Conns :
          conn'[m] = IF ~Open(m) \/ ~Awaited(m) THEN Closed
                     ELSE IF conn[m].at \in Final THEN conn[m]
                     ELSE [conn[m] EXCEPT !.at = "cut"]
    BY DEF Restart
  <1>4. conn' \in [Conns -> Connection \cup {Closed}]
    <2>1. \A m \in Conns : conn'[m] \in Connection \cup {Closed}
      BY <1>2, <1>3 DEF TypeInv, TypeOK
    <2>2. \E f : conn' = [m \in Conns |-> f[m]]
      <3>1. conn' = [m \in Conns |-> conn'[m]]
        BY DEF Restart
      <3> QED
        BY <3>1
    <2> QED
      BY <2>1, <2>2
  <1>5. \A m \in Conns : conn'[m] # Closed =>
          /\ Open(m)
          /\ \/ conn'[m] = conn[m] /\ conn[m].at \in Final
             \/ /\ conn'[m].at = "cut" /\ conn'[m].op = conn[m].op
                /\ conn'[m].tok = conn[m].tok
    BY <1>2, <1>3
  <1>6. \A m \in Conns : Open(m) /\ Awaited(m) => conn'[m] # Closed
    BY <1>2, <1>3 DEF Open
  <1>7. TypeOK'
    <2>1. sess' \in [Tokens -> Nat \cup {None}]
      BY <1>1 DEF Loaded, TypeInv, TypeOK
    <2> QED
      BY <1>1, <1>4, <2>1 DEF TypeInv, TypeOK, client
  <1>8. CallsMatch'
    <2>1. \A t \in Threads : call[t] # None => call[t] \in Conns /\ Open(call[t]) /\ Awaited(call[t])
      BY DEF TypeInv, TypeOK, CallsMatch, Awaited
    <2> QED
      BY <1>1, <1>6, <2>1 DEF TypeInv, CallsMatch, Open
  <1>9. CallsNameTokens'
    BY <1>5 DEF TypeInv, CallsNameTokens, Open, Final
  <1> QED
    BY <1>1, <1>4, <1>5, <1>7, <1>8, <1>9 DEF TypeInv

\* Every step keeps the types.
LEMMA TypeStep == TypeInv /\ [Next]_vars => TypeInv'
  <1> SUFFICES ASSUME TypeInv, [Next]_vars PROVE TypeInv'
    OBVIOUS
  <1>1. CASE \E n \in Conns : ServerStep(n)
    BY <1>1, ServerKeepsTypes
  <1>2. CASE Restart
    BY <1>2, RestartEffect
  <1>3. CASE Tick
    BY <1>3 DEF Tick, server, client, TypeInv, TypeOK, CallsMatch, CallsNameTokens, Open
  <1>4. CASE ClientEffect /\ ClientKeeps
    <2>1. TypeOK'
      BY <1>4 DEF ClientEffect, ClientKeeps, server, TypeInv, TypeOK
    <2>2. CallsNameTokens'
      BY <1>4 DEF ClientEffect, TypeInv, CallsNameTokens, Open
    <2> QED
      BY <1>4, <2>1, <2>2 DEF ClientEffect, TypeInv
  <1> QED
    BY <1>1, <1>2, <1>3, <1>4, StepKinds

\* The types, at every step.
LEMMA AlwaysTypeInv == Spec => []TypeInv
  BY TypeInit, TypeStep, PTL DEF Spec

\* The variables of apid and of the clients always have their types.
THEOREM TypeCorrect == Spec => []TypeOK
  <1>1. TypeInv => TypeOK
    BY DEF TypeInv
  <1> QED
    BY <1>1, AlwaysTypeInv, PTL

-----------------------------------------------------------------------------
(* Every copy of a session is the one issued *)

Genuine == TypeInv /\ CallsInOrder /\ HeldIssued /\ CopiesGenuine

\* the ways a thread of apid changes the sessions
Admitted(x, e) ==
    /\ x \in Tokens \ Issued /\ e \in Nat
    /\ sess' = [sess EXCEPT ![x] = e] /\ until' = [until EXCEPT ![x] = e]
    /\ Save(sess') /\ UNCHANGED dropped

Expired(x) ==
    /\ x \in Issued /\ sess[x] # None /\ sess[x] < clock
    /\ sess' = [sess EXCEPT ![x] = None]
    /\ Save(sess') /\ UNCHANGED <<until, dropped>>

LoggedOff(n, x) ==
    /\ x \in Issued /\ conn[n].tok = x /\ Open(n) /\ conn[n].at = "passed"
    /\ sess' = [sess EXCEPT ![x] = None]
    /\ IF sess[x] # None THEN Save(sess') ELSE UNCHANGED disk
    /\ dropped' = dropped \cup {x} /\ UNCHANGED until

\* apid admits a session, drops an expired one, drops one that logs out, or changes none.
LEMMA SessionChange ==
    ASSUME Genuine, NEW n \in Conns, ServerStep(n)
    PROVE  \/ UNCHANGED server
           \/ \E x \in Tokens, e \in Nat : Admitted(x, e)
           \/ \E x \in Tokens : Expired(x)
           \/ \E x \in Tokens : LoggedOff(n, x)
  <1>1. CASE RefuseLogin(n) \/ AcceptLogin(n) \/ Pass(n) \/ Operate(n)
    BY <1>1 DEF RefuseLogin, AcceptLogin, Pass, Operate
  <1>2. CASE NewSession(n)
    <2>1. conn[n].exp \in Nat
      BY <1>2 DEF NewSession, Genuine, TypeInv, TypeOK, Open, Connection
    <2> QED
      BY <1>2, <2>1 DEF NewSession, Admit, Admitted
  <1>3. CASE Reject(n)
    <2>1. conn[n].tok \in Issued /\ conn[n].tok \in Tokens
      BY <1>3 DEF Reject, Asked, Genuine, CallsInOrder, Issued
    <2>2. CASE sess[conn[n].tok] # None
      <3>1. sess[conn[n].tok] \in Nat /\ clock \in Nat
        BY <2>1, <2>2 DEF Genuine, TypeInv, TypeOK
      <3>2. Expired(conn[n].tok)
        BY <1>3, <2>1, <2>2, <3>1 DEF Reject, Valid, Expired
      <3> QED
        BY <2>1, <3>2
    <2>3. CASE sess[conn[n].tok] = None
      BY <1>3, <2>3 DEF Reject, server
    <2> QED
      BY <2>2, <2>3
  <1>4. CASE DropSession(n)
    <2>1. conn[n].tok \in Issued /\ conn[n].tok \in Tokens
      BY <1>4 DEF DropSession, Genuine, CallsInOrder, Issued
    <2>2. sess' = [sess EXCEPT ![conn[n].tok] = None]
      BY <1>4 DEF DropSession, Genuine, TypeInv, TypeOK
    <2>3. LoggedOff(n, conn[n].tok)
      BY <1>4, <2>1, <2>2 DEF DropSession, LoggedOff
    <2> QED
      BY <2>1, <2>3
  <1> QED
    BY <1>1, <1>2, <1>3, <1>4 DEF ServerStep

\* A session once issued stays issued, with its expiry.
LEMMA IssuedForGood ==
    ASSUME Genuine, NEW n \in Conns, ServerStep(n)
    PROVE  /\ \A x \in Issued : x \in Issued' /\ until'[x] = until[x]
           /\ dropped' \subseteq Issued'
  <1>1. CASE UNCHANGED server
    BY <1>1 DEF server, Issued, Genuine, HeldIssued
  <1>2. ASSUME NEW x \in Tokens, NEW e \in Nat, Admitted(x, e)
        PROVE  /\ \A y \in Issued : y \in Issued' /\ until'[y] = until[y]
               /\ dropped' \subseteq Issued'
    BY <1>2 DEF Admitted, Issued, Genuine, HeldIssued, TypeInv, TypeOK
  <1>3. ASSUME NEW x \in Tokens, Expired(x) \/ LoggedOff(n, x)
        PROVE  /\ \A y \in Issued : y \in Issued' /\ until'[y] = until[y]
               /\ dropped' \subseteq Issued'
    BY <1>3 DEF Expired, LoggedOff, Issued, Genuine, HeldIssued
  <1> QED
    BY <1>1, <1>2, <1>3, SessionChange

\* At the start every session is genuine.
LEMMA GenuineInit == Init => Genuine
  BY TypeInit, SessionsAssumption
  DEF Init, Genuine, CallsInOrder, HeldIssued, CopiesGenuine, Open

\* Every step leaves every session genuine.
LEMMA GenuineStep == Genuine /\ [Next]_vars => Genuine'
  <1> SUFFICES ASSUME Genuine, [Next]_vars PROVE Genuine'
    OBVIOUS
  <1> USE DEF Genuine
  <1>0. TypeInv'
    BY TypeStep
  <1>1. ASSUME NEW n \in Conns, ServerStep(n) PROVE Genuine'
    <2>1. CallsInOrder'
      <3> SUFFICES ASSUME NEW m \in Conns, conn'[m] # Closed
                   PROVE  /\ conn'[m].at = "verified" => conn'[m].op = "login"
                          /\ conn'[m].at = "passed" => conn'[m].op # "login"
                          /\ conn'[m].op # "login" \/ conn'[m].at = "ok" => conn'[m].tok \in Issued'
        BY DEF CallsInOrder, Open
      <3>1. CASE m = n
        <4>1. Open(n) /\ (Pass(n) => conn[n].op # "login")
          BY <1>1, ServerConns DEF Pass, Asked
        <4> QED
          BY <1>1, <3>1, <4>1, ServerConns, IssuedForGood DEF CallsInOrder
      <3>2. CASE m # n
        BY <1>1, <3>2, ServerConns, IssuedForGood DEF CallsInOrder, Open
      <3> QED
        BY <3>1, <3>2
    <2>2. HeldIssued'
      <3>1. UNCHANGED <<token, saved>>
        BY <1>1, ServerConns DEF client
      <3> QED
        BY <1>1, <3>1, IssuedForGood DEF HeldIssued
    <2>3. CopiesGenuine'
      <3>1. CASE UNCHANGED server
        BY <3>1 DEF server, CopiesGenuine
      <3>2. ASSUME NEW x \in Tokens, NEW e \in Nat, Admitted(x, e) PROVE CopiesGenuine'
        BY <3>2 DEF Admitted, Save, CopiesGenuine, Issued, TypeInv, TypeOK
      <3>3. ASSUME NEW x \in Tokens, Expired(x) PROVE CopiesGenuine'
        BY <3>3 DEF Expired, Save, CopiesGenuine, TypeInv, TypeOK
      <3>4. ASSUME NEW x \in Tokens, LoggedOff(n, x) PROVE CopiesGenuine'
        BY <3>4 DEF LoggedOff, Save, CopiesGenuine, TypeInv, TypeOK
      <3> QED
        BY <1>1, <3>1, <3>2, <3>3, <3>4, SessionChange
    <2> QED
      BY <1>0, <2>1, <2>2, <2>3
  <1>2. CASE Restart
    <2>1. CallsInOrder' /\ HeldIssued'
      BY <1>2, RestartEffect DEF CallsInOrder, HeldIssued, Issued, Open, Final, client
    <2>2. CopiesGenuine'
      BY <1>2, RestartEffect DEF CopiesGenuine
    <2> QED
      BY <1>0, <2>1, <2>2
  <1>3. CASE Tick
    BY <1>0, <1>3 DEF Tick, server, client, CallsInOrder, HeldIssued, CopiesGenuine, Issued, Open
  <1>4. CASE ClientEffect /\ ClientKeeps
    <2>1. CallsInOrder'
      <3> SUFFICES ASSUME NEW m \in Conns, conn'[m] # Closed
                   PROVE  /\ conn'[m].at = "verified" => conn'[m].op = "login"
                          /\ conn'[m].at = "passed" => conn'[m].op # "login"
                          /\ conn'[m].op # "login" \/ conn'[m].at = "ok" => conn'[m].tok \in Issued'
        BY DEF CallsInOrder, Open
      <3>1. Issued' = Issued
        BY <1>4 DEF ClientEffect, server, Issued
      <3>2. CASE Open(m) /\ conn'[m] = conn[m]
        BY <3>1, <3>2 DEF CallsInOrder
      <3>3. CASE /\ conn'[m].at = "sent"
                 /\ conn'[m].op # "login" =>
                      conn'[m].tok # None /\ \E c \in Clients : conn'[m].tok = token[c]
        BY <3>1, <3>3 DEF HeldIssued
      <3> QED
        BY <1>4, <3>2, <3>3 DEF ClientEffect
    <2>2. HeldIssued'
      <3>1. Issued' = Issued /\ dropped' = dropped
        BY <1>4 DEF ClientEffect, server, Issued
      <3>2. \A c \in Clients : token'[c] \in Issued \cup {None}
        BY <1>4 DEF ClientKeeps, HeldIssued, CallsInOrder
      <3>3. \A c \in Clients : saved'[c] # None => saved'[c].tok \in Issued \cup {None}
        BY <1>4 DEF ClientKeeps, HeldIssued
      <3> QED
        BY <3>1, <3>2, <3>3 DEF HeldIssued
    <2>3. CopiesGenuine'
      BY <1>4 DEF ClientEffect, server, CopiesGenuine
    <2> QED
      BY <1>0, <2>1, <2>2, <2>3
  <1> QED
    BY <1>1, <1>2, <1>3, <1>4, StepKinds

\* Whatever is written, lost, read again and kept by clients, no copy of a
\* session differs from the one issued, even if writing the file may fail.
THEOREM CopiesAreGenuine == Spec => [](CopiesGenuine /\ HeldIssued /\ CallsInOrder)
  <1>1. Spec => []Genuine
    BY GenuineInit, GenuineStep, PTL DEF Spec
  <1>2. Genuine => CopiesGenuine /\ HeldIssued /\ CallsInOrder
    BY DEF Genuine
  <1> QED
    BY <1>1, <1>2, PTL

-----------------------------------------------------------------------------
(* Where writing the file does not fail *)

SessionsInv == Genuine /\ FileUpToDate /\ LoggedOutStaysOut /\ SessionsSurvive

\* Only session_user lets a call through.
LEMMA PassedBefore ==
    ASSUME Genuine, [Next]_vars, NEW m \in Conns, conn'[m] # Closed, conn'[m].at = "passed"
    PROVE  Open(m) /\ conn'[m].tok = conn[m].tok /\ (conn[m].at = "passed" \/ Pass(m))
  <1> USE DEF Genuine
  <1>1. ASSUME NEW n \in Conns, ServerStep(n)
        PROVE  Open(m) /\ conn'[m].tok = conn[m].tok /\ (conn[m].at = "passed" \/ Pass(m))
    <2>1. CASE m = n
      BY <1>1, <2>1, ServerConns
    <2>2. CASE m # n
      BY <1>1, <2>2, ServerConns DEF Open
    <2> QED
      BY <2>1, <2>2
  <1>2. CASE Restart
    BY <1>2, RestartEffect DEF Final
  <1>3. CASE Tick
    BY <1>3 DEF Tick, Open
  <1>4. CASE ClientEffect /\ ClientKeeps
    BY <1>4 DEF ClientEffect
  <1> QED
    BY <1>1, <1>2, <1>3, <1>4, StepKinds

\* At the start file and memory agree.
LEMMA SessionsInit == Init => SessionsInv
  BY GenuineInit, SessionsAssumption
  DEF Init, SessionsInv, FileUpToDate, LoggedOutStaysOut, SessionsSurvive, Issued

\* Every step leaves them in agreement, where every write succeeds.
LEMMA SessionsStep ==
    ASSUME ~DiskMayFail
    PROVE  SessionsInv /\ [Next]_vars => SessionsInv'
  <1> SUFFICES ASSUME SessionsInv, [Next]_vars PROVE SessionsInv'
    OBVIOUS
  <1>0. Genuine /\ Genuine'
    BY GenuineStep DEF SessionsInv
  <1>t. /\ clock \in Nat
        /\ sess \in [Tokens -> Nat \cup {None}] /\ disk \in [Tokens -> Nat \cup {None}]
        /\ until \in [Tokens -> Nat \cup {None}] /\ None \notin Nat
    BY <1>0, SessionsAssumption DEF Genuine, TypeInv, TypeOK
  <1>p. \A m \in Conns, x \in Tokens : conn'[m] # Closed /\ conn'[m].at = "passed" /\ conn'[m].tok = x =>
          \/ Open(m) /\ conn[m].at = "passed" /\ conn[m].tok = x
          \/ sess[x] # None
    BY <1>0, PassedBefore DEF Pass, Valid
  \* whenever dict and file are left alone, or written together
  <1>q. ASSUME UNCHANGED <<sess, disk>> \/ disk' = sess', clock' = clock
        PROVE  FileUpToDate'
    <2>1. CASE UNCHANGED <<sess, disk>>
      BY <1>p, <1>q, <2>1 DEF SessionsInv, FileUpToDate, Open
    <2>2. CASE disk' = sess'
      BY <2>2 DEF FileUpToDate
    <2> QED
      BY <1>q, <2>1, <2>2
  <1>1. ASSUME NEW n \in Conns, ServerStep(n) PROVE SessionsInv'
    <2>0. clock' = clock
      BY <1>0, <1>1, ServerConns DEF Genuine
    <2>1. CASE UNCHANGED server
      <3>1. LoggedOutStaysOut' /\ SessionsSurvive'
        BY <2>0, <2>1 DEF server, SessionsInv, LoggedOutStaysOut, SessionsSurvive, Issued
      <3> QED
        BY <1>0, <1>q, <2>0, <2>1, <3>1 DEF server, SessionsInv
    <2>2. ASSUME NEW x \in Tokens, NEW e \in Nat, Admitted(x, e) PROVE SessionsInv'
      <3>1. disk' = sess' /\ dropped' = dropped /\ x \notin dropped
        BY <1>0, <2>2 DEF Admitted, Save, Genuine, HeldIssued
      <3>2. LoggedOutStaysOut'
        BY <1>t, <2>2, <3>1 DEF Admitted, SessionsInv, LoggedOutStaysOut
      <3>3. SessionsSurvive'
        BY <1>t, <2>0, <2>2, <3>1 DEF Admitted, SessionsInv, SessionsSurvive, Issued
      <3> QED
        BY <1>0, <1>q, <2>0, <3>1, <3>2, <3>3 DEF SessionsInv
    <2>3. ASSUME NEW x \in Tokens, Expired(x) PROVE SessionsInv'
      <3>1. disk' = sess' /\ dropped' = dropped /\ until' = until
        BY <2>3 DEF Expired, Save
      <3>2. LoggedOutStaysOut'
        BY <1>t, <2>3, <3>1 DEF Expired, SessionsInv, LoggedOutStaysOut
      <3>3. until[x] = sess[x]
        BY <1>0, <2>3 DEF Expired, Genuine, CopiesGenuine
      <3>4. SessionsSurvive'
        BY <1>t, <2>0, <2>3, <3>1, <3>3 DEF Expired, SessionsInv, SessionsSurvive, Issued
      <3> QED
        BY <1>0, <1>q, <2>0, <3>1, <3>2, <3>4 DEF SessionsInv
    <2>4. ASSUME NEW x \in Tokens, LoggedOff(n, x) PROVE SessionsInv'
      <3>1. dropped' = dropped \cup {x} /\ until' = until /\ sess' = [sess EXCEPT ![x] = None]
        BY <2>4 DEF LoggedOff
      <3>2. disk' = sess' \/ (sess[x] = None /\ disk' = disk)
        BY <2>4 DEF LoggedOff, Save
      <3>3. disk'[x] = None
        <4>1. CASE disk' = sess'
          BY <1>t, <3>1, <4>1
        <4>2. CASE sess[x] = None /\ disk' = disk
          BY <2>4, <4>2 DEF LoggedOff, SessionsInv, FileUpToDate
        <4> QED
          BY <3>2, <4>1, <4>2
      <3>4. LoggedOutStaysOut'
        <4>1. ASSUME NEW y \in dropped \cup {x} PROVE sess'[y] = None /\ disk'[y] = None
          <5>1. y \in Tokens
            BY <1>0 DEF Genuine, TypeInv, TypeOK
          <5>2. y # x => sess[y] = None /\ disk[y] = None
            BY DEF SessionsInv, LoggedOutStaysOut
          <5>3. sess'[y] = None
            BY <1>t, <3>1, <5>1, <5>2
          <5> QED
            BY <3>2, <3>3, <5>2, <5>3
        <4> QED
          BY <3>1, <4>1 DEF LoggedOutStaysOut
      <3>5. SessionsSurvive'
        BY <1>t, <2>0, <3>1 DEF SessionsInv, SessionsSurvive, Issued
      <3>6. UNCHANGED <<sess, disk>> \/ disk' = sess'
        BY <1>t, <3>1, <3>2
      <3> QED
        BY <1>0, <1>q, <2>0, <3>4, <3>5, <3>6 DEF SessionsInv
    <2> QED
      BY <1>0, <1>1, <2>1, <2>2, <2>3, <2>4, SessionChange
  <1>2. CASE Restart
    <2>1. /\ UNCHANGED <<clock, disk, until, dropped>>
          /\ \A x \in Tokens : sess'[x] = IF disk[x] # None /\ disk[x] > clock
                                           THEN disk[x] ELSE None
      BY <1>0, <1>2, RestartEffect DEF Genuine
    <2>2. \A m \in Conns : conn'[m] # Closed => conn'[m].at # "passed"
      BY <1>0, <1>2, RestartEffect DEF Genuine, Final
    <2>3. FileUpToDate'
      BY <1>t, <2>1, <2>2 DEF FileUpToDate, Open
    <2>4. LoggedOutStaysOut'
      BY <1>0, <2>1 DEF SessionsInv, LoggedOutStaysOut, Genuine, TypeInv, TypeOK
    <2>5. SessionsSurvive'
      BY <1>t, <2>1 DEF SessionsInv, FileUpToDate, SessionsSurvive, Issued
    <2> QED
      BY <1>0, <2>3, <2>4, <2>5 DEF SessionsInv
  <1>3. CASE Tick
    <2>1. UNCHANGED <<sess, disk, until, dropped, conn>> /\ clock' = clock + 1
      BY <1>3 DEF Tick, server
    <2>2. FileUpToDate'
      BY <1>t, <2>1 DEF SessionsInv, FileUpToDate, Open
    <2>3. LoggedOutStaysOut' /\ SessionsSurvive'
      BY <1>t, <2>1 DEF SessionsInv, LoggedOutStaysOut, SessionsSurvive, Issued
    <2> QED
      BY <1>0, <2>2, <2>3 DEF SessionsInv
  <1>4. CASE ClientEffect /\ ClientKeeps
    <2>1. UNCHANGED <<clock, server>>
      BY <1>4 DEF ClientEffect
    <2>2. LoggedOutStaysOut' /\ SessionsSurvive'
      BY <2>1 DEF server, SessionsInv, LoggedOutStaysOut, SessionsSurvive, Issued
    <2> QED
      BY <1>0, <1>q, <2>1, <2>2 DEF server, SessionsInv
  <1> QED
    BY <1>0, <1>1, <1>2, <1>3, <1>4, StepKinds DEF Genuine

\* Where sessions.json can be written, a token that was logged out is in no
\* copy, through any number of restarts.
THEOREM LogoutIsFinal == ASSUME ~DiskMayFail PROVE Spec => []LoggedOutStaysOut
  <1>1. SessionsInv => LoggedOutStaysOut
    BY DEF SessionsInv
  <1> QED
    BY <1>1, SessionsInit, SessionsStep, PTL DEF Spec

\* Where it can be written, a session that was not logged out is known until it
\* expires, through any number of restarts.
THEOREM RestartKeepsSessions == ASSUME ~DiskMayFail PROVE Spec => []SessionsSurvive
  <1>1. SessionsInv => SessionsSurvive
    BY DEF SessionsInv
  <1> QED
    BY <1>1, SessionsInit, SessionsStep, PTL DEF Spec

\* No call is let through on a session that was never issued, is over, or was
\* logged out before.
THEOREM OnlySessionsPass == ASSUME ~DiskMayFail PROVE Spec => OnlyLiveSessionsPass
  <1>1. SessionsInv /\ [Next]_vars =>
          [\A n \in Conns :
             Open(n) /\ conn[n].at = "sent" /\ conn'[n] # Closed /\ conn'[n].at = "passed" =>
               LET x == conn[n].tok
               IN  x \in Issued /\ clock <= until[x] /\ x \notin dropped]_vars
    <2> SUFFICES ASSUME SessionsInv, [Next]_vars, NEW n \in Conns,
                        Open(n), conn[n].at = "sent", conn'[n] # Closed, conn'[n].at = "passed"
                 PROVE  /\ conn[n].tok \in Issued /\ clock <= until[conn[n].tok]
                        /\ conn[n].tok \notin dropped
      OBVIOUS
    <2>1. Genuine /\ Pass(n)
      BY PassedBefore DEF SessionsInv
    <2>2. conn[n].tok \in Issued /\ conn[n].tok \in Tokens
      BY <2>1 DEF Pass, Asked, Genuine, CallsInOrder, Issued
    <2>3. sess[conn[n].tok] # None /\ sess[conn[n].tok] >= clock
      BY <2>1 DEF Pass, Valid
    <2>4. until[conn[n].tok] = sess[conn[n].tok]
      BY <2>1, <2>2, <2>3 DEF Genuine, CopiesGenuine
    <2>5. clock \in Nat /\ sess[conn[n].tok] \in Nat
      BY <2>1, <2>2, <2>3 DEF Genuine, TypeInv, TypeOK
    <2>6. conn[n].tok \notin dropped
      BY <2>3 DEF SessionsInv, LoggedOutStaysOut
    <2> QED
      BY <2>2, <2>3, <2>4, <2>5, <2>6
  <1> QED
    BY <1>1, SessionsInit, SessionsStep, PTL DEF Spec, OnlyLiveSessionsPass

=============================================================================
