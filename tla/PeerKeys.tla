------------------------------ MODULE PeerKeys ------------------------------
(***************************************************************************)
(* The keys of end-to-end encryption at one client.                        *)
(*                                                                         *)
(* onionmail/clientkeys.py keeps keys.json, the user's own identity, and   *)
(* known_keys.json, the key of each peer as first seen.  The workers of    *)
(* message windows and of a compose window (onionmail/gui.py) remember     *)
(* peers' keys in it while the main thread works in the Keys dialog.       *)
(* onionmail/contacts.py resolves the nicknames a message is addressed to. *)
(*                                                                         *)
(* Abstractions: a public key is a model value, the user's own are         *)
(* numbered as they are made; the fingerprint of a key stands for the key. *)
(* A file is its content, read in one step, written to the temporary file  *)
(* of its name in one and put in place in another.  An encrypted message   *)
(* carries its sender's key twice, outside and inside, and the second      *)
(* harvest finds the key as the first has left it.                         *)
(***************************************************************************)
EXTENDS Naturals, Sequences, Functions

CONSTANTS
    Peers,       \* addresses of others
    Nicks,       \* nicknames the contact book may have
    PeerKey,     \* public keys peers may show
    Windows,     \* message windows, each with its worker
    None,
    MaxTo,       \* bound on the recipients of a message
    Serialised,  \* nobody reads known_keys.json while another is about to write it
    MaxEvents,   \* bound on what users and peers do
    MaxFaults    \* bound on kills, renderings and calls that fail

Threads == {"main", "send"} \cup Windows
Pin     == [public : PeerKey, verified : BOOLEAN]
Known   == [Peers -> Pin \cup {None}]
Job     == [op : {"remember", "set", "verify", "forget"}, peer : Peers, key : PeerKey,
            at : {"read", "write", "replace"}, buf : Known]
Compose == [to : SUBSET (Peers \cup Nicks), todo : SUBSET (Peers \cup Nicks),
            pubs : [Peers -> PeerKey \cup {None}], missing : SUBSET (Peers \cup Nicks),
            at : {"resolve", "over", "sent"} \cup Peers \cup Nicks, cancelled : BOOLEAN,
            pinned : [Peers -> PeerKey \cup {None}]]

\* Addresses, nicknames, the names used for stages and None are not confused.
ASSUME PeerKeysAssumption ==
    /\ None \notin PeerKey \cup Peers /\ None \notin Peers \X PeerKey
    /\ None \notin Pin /\ None \notin Known /\ None \notin Job /\ None \notin Compose
    /\ Peers \cap Nicks = {} /\ {"resolve", "over", "sent"} \cap (Peers \cup Nicks) = {}
    /\ {"main", "send"} \cap Windows = {}
    /\ Serialised \in BOOLEAN /\ {MaxTo, MaxEvents, MaxFaults} \subseteq Nat

VARIABLES
    idFile,    \* keys.json: the identity sealed for the user's address
    server,    \* the key the server's directory has for the user
    made,      \* identities made so far
    prog,      \* how far the program is: off, ask, again, seal, publish, on
    own,       \* backend.keys: the identity unlocked in memory
    directory, \* the keys peers have published
    book,      \* contacts.json
    known,     \* known_keys.json
    tmp,       \* known_keys.json.tmp
    job,       \* the operation on known_keys.json of each thread
    warned,    \* _warned_key_changes
    warning,   \* the warning each window is about to show
    compose,   \* the sending under way
    met,       \* history: <<peer, key>> found changed since the start
    told,      \* history: those the user was warned of
    broken,    \* history: those of a rendering that failed
    events, faults

identity == <<idFile, server, made, prog, own>>
outside  == <<directory, book>>
pins     == <<known, tmp, job>>
views    == <<warned, warning, met, told, broken>>
bounds   == <<events, faults>>
vars     == <<identity, outside, pins, views, compose, bounds>>

Init ==
    /\ idFile = None /\ server = None /\ made = 0
    /\ prog = "off" /\ own = None
    /\ directory = [p \in Peers |-> None] /\ book = [n \in Nicks |-> None]
    /\ known = [p \in Peers |-> None] /\ tmp = None
    /\ job = [t \in Threads |-> None]
    /\ warned = {} /\ warning = [w \in Windows |-> None]
    /\ compose = None
    /\ met = {} /\ told = {} /\ broken = {}
    /\ events = 0 /\ faults = 0

Happens == events < MaxEvents /\ events' = events + 1 /\ UNCHANGED faults
Fails   == faults < MaxFaults /\ faults' = faults + 1 /\ UNCHANGED events

-----------------------------------------------------------------------------
(* The user's own identity: LoginWindow._unlock_identity, unlock_keys_prompt *)

IdentityOnly == UNCHANGED <<outside, pins, views, compose>>

\* run: at a login or with a saved session; KeysDialog._unlock_now: again
Unlock ==
    /\ Happens
    /\ \/ prog = "off" /\ prog' = "ask"
       \/ prog = "on" /\ own = None /\ idFile # None /\ prog' = "again"
    /\ IdentityOnly /\ UNCHANGED <<idFile, server, made, own>>

\* unlock_or_create with an identity on disk and its passphrase
OpenIdentity ==
    /\ prog \in {"ask", "again"} /\ idFile # None
    /\ own' = idFile /\ prog' = "publish"
    /\ IdentityOnly /\ UNCHANGED <<idFile, server, made, bounds>>

\* CryptoError, or the prompt cancelled: a login goes on without keys, a saved
\* session ends the program, the Keys dialog stays as it was.
WrongPassphrase ==
    /\ prog \in {"ask", "again"} /\ idFile # None
    /\ prog' \in (IF prog = "ask" THEN {"on", "off"} ELSE {"on"})
    /\ IdentityOnly /\ UNCHANGED <<idFile, server, made, own, bounds>>

\* unlock_or_create without one, at a login
CreateIdentity ==
    /\ prog = "ask" /\ idFile = None
    /\ made' = made + 1 /\ own' = made + 1 /\ prog' = "seal"
    /\ IdentityOnly /\ UNCHANGED <<idFile, server, bounds>>

\* slip: an identity is published before it is on disk, and the program goes on
SealAfterPublishing ==
    /\ prog = "seal" /\ prog' = "publish"
    /\ server' = own
    /\ IdentityOnly /\ UNCHANGED <<idFile, made, own, bounds>>

\* _write of keys.json
Seal ==
    /\ prog = "seal" /\ prog' = "publish"
    /\ idFile' = own
    /\ IdentityOnly /\ UNCHANGED <<server, made, own, bounds>>

\* pubkey_get, and pubkey_set if the server has another key or the identity is
\* new.  A NetError leaves it for the next time.
Publish ==
    /\ prog = "publish" /\ prog' = "on"
    /\ \/ server' = own /\ UNCHANGED bounds
       \/ Fails /\ UNCHANGED server
    /\ IdentityOnly /\ UNCHANGED <<idFile, made, own>>

-----------------------------------------------------------------------------
(* Outside: what peers publish; the contact book *)

PeerPublishes(p) ==
    /\ Happens
    /\ \E k \in PeerKey \ {directory[p]} : directory' = [directory EXCEPT ![p] = k]
    /\ UNCHANGED <<identity, book, pins, views, compose>>

\* run_busy's dialog keeps the user from everything else until it is over.
UserFree == prog = "on" /\ job["main"] = None /\ ~(compose # None /\ ~compose.cancelled)

\* Contacts.add and remove, from the dialog or from a message of the list
EditContact(n) ==
    /\ UserFree /\ Happens
    /\ \E p \in (Peers \cup {None}) \ {book[n]} : book' = [book EXCEPT ![n] = p]
    /\ UNCHANGED <<identity, directory, pins, views, compose>>

-----------------------------------------------------------------------------
(* known_keys.json *)

Ask(t, op, p, k) ==
    job' = [job EXCEPT ![t] = [op |-> op, peer |-> p, key |-> k, at |-> "read", buf |-> known]]

Reading(t, op) == job[t] # None /\ job[t].op = op /\ job[t].at = "read"
MayRead(t)     == Serialised => \A o \in Threads \ {t} : ~(job[o] # None /\ job[o].at # "read")

\* the file as t wants it, next to be written; nothing to write ends the call
WillWrite(t, F) == job' = [job EXCEPT ![t].at = "write", ![t].buf = F]
Returns(t)      == job' = [job EXCEPT ![t] = None]

Pinned(p, k, v) == [known EXCEPT ![p] = [public |-> k, verified |-> v]]

FileOnly == UNCHANGED <<identity, outside, compose, bounds>>

\* remember_peer: "new" and "same"
Remember(t) ==
    /\ Reading(t, "remember") /\ MayRead(t)
    /\ LET p == job[t].peer
           k == job[t].key
       IN  \/ known[p] = None /\ WillWrite(t, Pinned(p, k, FALSE))
           \/ known[p] # None /\ known[p].public = k /\ Returns(t)
    /\ FileOnly /\ UNCHANGED <<known, tmp, views>>

\* slip: the key seen last is taken
ChangedIsTaken(t) ==
    /\ Reading(t, "remember") /\ MayRead(t)
    /\ known[job[t].peer] # None /\ known[job[t].peer].public # job[t].key
    /\ WillWrite(t, Pinned(job[t].peer, job[t].key, FALSE))
    /\ FileOnly /\ UNCHANGED <<known, tmp, views>>

\* slip: one warning for each peer
ChangedOncePerPeer(t) ==
    /\ Reading(t, "remember") /\ MayRead(t)
    /\ known[job[t].peer] # None /\ known[job[t].peer].public # job[t].key
    /\ LET tag == <<job[t].peer, job[t].key>>
       IN  IF t \in Windows
             THEN /\ met' = met \cup {tag}
                  /\ warned' = warned \cup {tag}
                  /\ warning' = IF \E x \in warned : x[1] = tag[1] THEN warning
                                ELSE [warning EXCEPT ![t] = tag]
             ELSE UNCHANGED <<met, warned, warning>>
    /\ Returns(t)
    /\ FileOnly /\ UNCHANGED <<known, tmp, told, broken>>

\* remember_peer: "changed".  _harvest_pubkey warns of it once, the lookup of a
\* recipient's key does not look at the answer.
Changed(t) ==
    /\ Reading(t, "remember") /\ MayRead(t)
    /\ known[job[t].peer] # None /\ known[job[t].peer].public # job[t].key
    /\ LET tag == <<job[t].peer, job[t].key>>
       IN  IF t \in Windows
             THEN /\ met' = met \cup {tag}
                  /\ warned' = warned \cup {tag}
                  /\ warning' = IF tag \in warned THEN warning ELSE [warning EXCEPT ![t] = tag]
             ELSE UNCHANGED <<met, warned, warning>>
    /\ Returns(t)
    /\ FileOnly /\ UNCHANGED <<known, tmp, told, broken>>

\* set_peer, mark_verified, forget_peer; the last two do nothing to a peer that
\* is not there
Edit ==
    LET p    == job["main"].peer
        If(F) == IF known[p] = None THEN Returns("main") ELSE WillWrite("main", F)
    IN  /\ MayRead("main")
        /\ \/ Reading("main", "set") /\ WillWrite("main", Pinned(p, job["main"].key, TRUE))
           \/ Reading("main", "verify") /\ If(Pinned(p, known[p].public, ~known[p].verified))
           \/ Reading("main", "forget") /\ If([known EXCEPT ![p] = None])
        /\ FileOnly /\ UNCHANGED <<known, tmp, views>>

WriteTmp(t) ==
    /\ job[t] # None /\ job[t].at = "write"
    /\ tmp' = job[t].buf
    /\ job' = [job EXCEPT ![t].at = "replace"]
    /\ FileOnly /\ UNCHANGED <<known, views>>

\* tmp.replace: FileNotFoundError when another thread has moved it
Replace(t) ==
    /\ job[t] # None /\ job[t].at = "replace"
    /\ IF tmp # None THEN known' = tmp /\ tmp' = None ELSE UNCHANGED <<known, tmp>>
    /\ Returns(t)
    /\ FileOnly /\ UNCHANGED views

-----------------------------------------------------------------------------
(* The message windows and the Keys dialog *)

\* _load of a message of peer p that carries key k: _harvest_pubkey
OpenMessage(w) ==
    /\ UserFree /\ own # None /\ Happens
    /\ job[w] = None /\ warning[w] = None
    /\ \E p \in Peers, k \in PeerKey : Ask(w, "remember", p, k)
    /\ UNCHANGED <<identity, outside, known, tmp, views, compose>>

\* done: the warning comes before the text
Warn(w) ==
    /\ job[w] = None /\ warning[w] # None
    /\ told' = told \cup {warning[w]}
    /\ warning' = [warning EXCEPT ![w] = None]
    /\ UNCHANGED <<identity, outside, pins, warned, met, broken, compose, bounds>>

\* What _render_body does after the harvest raises, in safe_text for one.
RenderFails(w) ==
    /\ job[w] = None /\ warning[w] # None
    /\ Fails
    /\ broken' = broken \cup {warning[w]}
    /\ warning' = [warning EXCEPT ![w] = None]
    /\ UNCHANGED <<identity, outside, pins, warned, met, told, compose>>

\* _add, _toggle_verified, _forget.  What the user asks for while a sending that
\* was cancelled still runs is no longer what the sending began with.
EditPeer ==
    /\ UserFree /\ own # None /\ Happens
    /\ \E p \in Peers :
         /\ \/ \E k \in PeerKey : Ask("main", "set", p, k)
            \/ /\ known[p] # None
               /\ \E op \in {"verify", "forget"} : Ask("main", op, p, known[p].public)
         /\ compose' = IF compose = None THEN None ELSE [compose EXCEPT !.pinned[p] = None]
    /\ UNCHANGED <<identity, outside, known, tmp, views>>

-----------------------------------------------------------------------------
(* Sending an encrypted message: ComposeWindow._send and its worker *)

Resolve(x) == IF x \in Nicks /\ book[x] # None THEN book[x] ELSE x

SendOnly == UNCHANGED <<identity, outside, known, tmp, views>>

\* recipients_of: To, Cc and Bcc, each address once
Recipients(s) == {Resolve(s[i]) : i \in DOMAIN s}

Send ==
    /\ UserFree /\ own # None /\ compose = None /\ job["send"] = None /\ Happens
    /\ \E n \in 1..MaxTo : \E s \in [1..n -> Peers \cup Nicks] :
         LET to == Recipients(s)
         IN  compose' = [to |-> to, todo |-> to, pubs |-> [p \in Peers |-> None], missing |-> {},
                         at |-> "resolve", cancelled |-> FALSE,
                         pinned |-> [p \in Peers |-> IF known[p] = None THEN None
                                                     ELSE known[p].public]]
    /\ SendOnly /\ UNCHANGED job

\* Cancel in the dialog; the worker goes on until it asks.
CancelSend ==
    /\ compose # None /\ ~compose.cancelled
    /\ compose' = [compose EXCEPT !.cancelled = TRUE]
    /\ SendOnly /\ UNCHANGED <<job, bounds>>

Resolving == compose # None /\ compose.at = "resolve" /\ job["send"] = None

With(x, k) == [compose EXCEPT !.todo = @ \ {x}, !.pubs[x] = k]

\* slip: the directory is asked whether or not the key is known
UsePinUnlessPublished ==
    /\ Resolving /\ ~compose.cancelled
    /\ \E p \in compose.todo \cap Peers :
         /\ known[p] # None
         /\ compose' = With(p, IF directory[p] # None THEN directory[p] ELSE known[p].public)
    /\ SendOnly /\ UNCHANGED <<job, bounds>>

\* _resolve_pubkeys: the key of known_keys.json
UsePin ==
    /\ Resolving /\ ~compose.cancelled
    /\ \E p \in compose.todo \cap Peers :
         known[p] # None /\ compose' = With(p, known[p].public)
    /\ SendOnly /\ UNCHANGED <<job, bounds>>

\* _resolve_pubkeys: none there, so the directory is asked, over the network;
\* the other recipients wait
AskDirectory ==
    /\ Resolving /\ ~compose.cancelled
    /\ \E x \in compose.todo :
         /\ x \in Peers => known[x] = None
         /\ compose' = [compose EXCEPT !.at = x]
    /\ SendOnly /\ UNCHANGED <<job, bounds>>

\* slip: what is missing is not noticed
AnswerEvenNone ==
    /\ compose # None /\ compose.at \in Peers
    /\ compose' = [With(compose.at, directory[compose.at]) EXCEPT !.at = "resolve"]
    /\ IF directory[compose.at] # None
         THEN Ask("send", "remember", compose.at, directory[compose.at])
         ELSE UNCHANGED job
    /\ SendOnly /\ UNCHANGED bounds

\* the directory's key is used and remembered
Answer ==
    /\ compose # None /\ compose.at \in Peers /\ directory[compose.at] # None
    /\ compose' = [With(compose.at, directory[compose.at]) EXCEPT !.at = "resolve"]
    /\ Ask("send", "remember", compose.at, directory[compose.at])
    /\ SendOnly /\ UNCHANGED bounds

\* no key in the directory, a NetError, or a nickname nobody has: the others are
\* looked up all the same
NotFound ==
    /\ compose # None /\ compose.at \in Peers \cup Nicks
    /\ compose' = [compose EXCEPT !.at = "resolve", !.todo = @ \ {compose.at},
                                  !.missing = @ \cup {compose.at}]
    /\ SendOnly /\ UNCHANGED <<job, bounds>>

\* _Cancelled, raised where the worker asks
SendCancelled ==
    /\ Resolving /\ compose.cancelled
    /\ compose' = [compose EXCEPT !.at = "over"]
    /\ SendOnly /\ UNCHANGED <<job, bounds>>

\* "public key not found", and nothing is sent; or wrap_encrypted for the keys
\* found, and backend.send
HandOver ==
    /\ Resolving /\ ~compose.cancelled /\ compose.todo = {}
    /\ compose' = [compose EXCEPT !.at = IF compose.missing # {} THEN "over" ELSE "sent"]
    /\ SendOnly /\ UNCHANGED <<job, bounds>>

SendOver ==
    /\ compose # None /\ compose.at \in {"over", "sent"}
    /\ compose' = None
    /\ SendOnly /\ UNCHANGED <<job, bounds>>

-----------------------------------------------------------------------------
\* The program ends in the middle of whatever it does.
Kill ==
    /\ prog # "off" /\ Fails
    /\ prog' = "off" /\ own' = None
    /\ job' = [t \in Threads |-> None] /\ compose' = None
    /\ warned' = {} /\ warning' = [w \in Windows |-> None]
    /\ met' = {} /\ told' = {} /\ broken' = {}
    /\ UNCHANGED <<idFile, server, made, outside, known, tmp>>

IdentityStep == Unlock \/ OpenIdentity \/ WrongPassphrase \/ CreateIdentity \/ Seal \/ Publish

FileStep == (\E t \in Threads : Remember(t) \/ Changed(t) \/ WriteTmp(t) \/ Replace(t)) \/ Edit

WindowStep == \/ EditPeer
              \/ \E w \in Windows : OpenMessage(w) \/ Warn(w) \/ RenderFails(w)

SendStep == Send \/ CancelSend \/ UsePin \/ AskDirectory \/ Answer \/ NotFound
              \/ SendCancelled \/ HandOver \/ SendOver

Next ==
    \/ IdentityStep \/ FileStep \/ WindowStep \/ SendStep \/ Kill
    \/ (\E p \in Peers : PeerPublishes(p)) \/ (\E n \in Nicks : EditContact(n))

Spec == Init /\ [][Next]_vars

-----------------------------------------------------------------------------
TypeOK ==
    /\ idFile \in Nat \cup {None} /\ server \in Nat \cup {None} /\ made \in Nat
    /\ prog \in {"off", "ask", "again", "seal", "publish", "on"}
    /\ own \in Nat \cup {None}
    /\ directory \in [Peers -> PeerKey \cup {None}] /\ book \in [Nicks -> Peers \cup {None}]
    /\ known \in Known /\ tmp \in Known \cup {None}
    /\ job \in [Threads -> Job \cup {None}]
    /\ warned \subseteq Peers \X PeerKey
    /\ warning \in [Windows -> (Peers \X PeerKey) \cup {None}]
    /\ compose \in Compose \cup {None}
    /\ compose # None => compose.to = compose.todo \cup compose.missing
                                        \cup {p \in Peers : compose.pubs[p] # None}
    /\ met \cup told \cup broken \subseteq Peers \X PeerKey
    /\ events \in Nat /\ faults \in Nat

\* gui.py:776 and clientkeys.py:76: the key the server gives out for the user is
\* that of the identity sealed on disk, wherever logins were killed, calls
\* failed or passphrases were wrong; nobody encrypts for a key that is lost.
PublishedCanBeOpened == server \in {None, idFile}

\* README.md:47, "a peer's public key is remembered on first sight and never
\* silently replaced": a key once pinned is changed, verified or forgotten by
\* the user's own operation on that peer and nothing else.
PinByUserOnly ==
    [][\A p \in Peers : known[p] # None /\ known'[p] # known[p] =>
         job["main"] # None /\ job["main"].peer = p /\ job'["main"] = None]_vars

\* README.md:48, "a changed key raises a warning": whatever windows open the
\* messages at once, each changed key of a peer is brought to the user's eyes,
\* unless the rendering that found it failed (and then never).
WarnedOfChange == met \subseteq told \cup broken \cup Range(warning)

\* gui.py:218, "the stored (old) key keeps being used": what is sent is encrypted
\* for every recipient, with the key pinned when the sending began, whatever
\* peers publish and message windows find meanwhile, unless the user changed it.
KnownKeyIsUsed ==
    compose # None /\ compose.at = "sent" =>
      \A p \in compose.to : /\ compose.pubs[p] \in PeerKey
                            /\ compose.pinned[p] \in {None, compose.pubs[p]}
=============================================================================
