--------------------------- MODULE PeerKeysProofs ---------------------------
(***************************************************************************)
(* Proofs about PeerKeys, for any peers, nicknames, keys and windows.      *)
(***************************************************************************)
EXTENDS PeerKeys, TLAPS

-----------------------------------------------------------------------------
(* Types. *)

\* A pin that is put in place of another, or of none.
LEMMA PinnedType ==
    ASSUME known \in Known, NEW p \in Peers, NEW k \in PeerKey, NEW v \in BOOLEAN
    PROVE  Pinned(p, k, v) \in Known
<1> DEFINE pin == [public |-> k, verified |-> v]
<1>1. pin \in Pin
  BY DEF Pin
<1> HIDE DEF pin
<1>2. [known EXCEPT ![p] = pin] \in Known
  BY <1>1 DEF Known
<1> QED
  BY <1>2 DEF Pinned, pin

\* Asking for an operation on the file.
LEMMA AskType ==
    ASSUME job \in [Threads -> Job \cup {None}], known \in Known, NEW t \in Threads,
           NEW op \in {"remember", "set", "verify", "forget"}, NEW p \in Peers,
           NEW k \in PeerKey, Ask(t, op, p, k)
    PROVE  job' \in [Threads -> Job \cup {None}]
<1> DEFINE j == [op |-> op, peer |-> p, key |-> k, at |-> "read", buf |-> known]
<1>1. j \in Job
  BY DEF Job
<1> HIDE DEF j
<1>2. job' = [job EXCEPT ![t] = j]
  BY DEF Ask, j
<1> QED
  BY <1>1, <1>2

\* Going on with it.
LEMMA WillWriteType ==
    ASSUME job \in [Threads -> Job \cup {None}], NEW t \in Threads, job[t] # None,
           NEW F \in Known, WillWrite(t, F)
    PROVE  /\ job' \in [Threads -> Job \cup {None}]
           /\ \A u \in Threads : u # t => job'[u] = job[u]
           /\ job'[t] \in Job /\ job'[t].at = "write" /\ job'[t].buf = F
           /\ job'[t].op = job[t].op /\ job'[t].peer = job[t].peer
<1>1. job[t] \in Job
  OBVIOUS
<1> DEFINE j == [job[t] EXCEPT !.at = "write", !.buf = F]
<1>2. j \in Job /\ j.at = "write" /\ j.buf = F /\ j.op = job[t].op /\ j.peer = job[t].peer
  BY <1>1 DEF Job
<1>3. job' = [job EXCEPT ![t] = j]
  BY DEF WillWrite
<1> HIDE DEF j
<1> QED
  BY <1>2, <1>3

\* The parts of TypeOK, each about the variables some actions change.
IdentityType ==
    /\ idFile \in Nat \cup {None} /\ server \in Nat \cup {None} /\ made \in Nat
    /\ prog \in {"off", "ask", "again", "seal", "publish", "on"}
    /\ own \in Nat \cup {None}
OutsideType == directory \in [Peers -> PeerKey \cup {None}] /\ book \in [Nicks -> Peers \cup {None}]
FileType    == known \in Known /\ tmp \in Known \cup {None} /\ job \in [Threads -> Job \cup {None}]
ViewType    == /\ warned \subseteq Peers \X PeerKey
               /\ warning \in [Windows -> (Peers \X PeerKey) \cup {None}]
               /\ met \cup told \cup broken \subseteq Peers \X PeerKey
SendType    == /\ compose \in Compose \cup {None}
               /\ compose # None => compose.to = compose.todo \cup compose.missing
                                      \cup {p \in Peers : compose.pubs[p] # None}
BoundType   == events \in Nat /\ faults \in Nat

\* TypeOK is its parts, before and after a step.
LEMMA TypeParts ==
    LET Parts == /\ IdentityType /\ OutsideType /\ FileType
                 /\ ViewType /\ SendType /\ BoundType
    IN  (TypeOK <=> Parts) /\ (TypeOK' <=> Parts')
BY DEF TypeOK, IdentityType, OutsideType, FileType, ViewType, SendType, BoundType

\* The initial states are well typed.
LEMMA InitType == Init => TypeOK
<1> SUFFICES ASSUME Init PROVE TypeOK
  OBVIOUS
<1>1. IdentityType /\ OutsideType /\ ViewType /\ SendType /\ BoundType
  BY DEF Init, IdentityType, OutsideType, ViewType, SendType, BoundType
<1>2. FileType
  BY DEF Init, FileType, Known
<1> QED
  BY <1>1, <1>2, TypeParts

\* The two bounds count.
LEMMA BoundsType ==
    ASSUME BoundType, Happens \/ Fails \/ UNCHANGED bounds
    PROVE  BoundType'
BY DEF BoundType, Happens, Fails, bounds

\* The steps of the user's own identity.
LEMMA IdentityStepType ==
    ASSUME TypeOK, IdentityStep
    PROVE  TypeOK'
<1>1. IdentityType /\ BoundType
  BY TypeParts
<1>2. IdentityType'
  BY <1>1 DEF IdentityType, IdentityStep, Unlock, OpenIdentity, WrongPassphrase,
       CreateIdentity, Seal, Publish
<1>3. BoundType'
  <2>1. Happens \/ Fails \/ UNCHANGED bounds
    BY DEF IdentityStep, Unlock, OpenIdentity, WrongPassphrase, CreateIdentity, Seal, Publish,
         bounds
  <2> QED
    BY <1>1, <2>1, BoundsType
<1>4. UNCHANGED <<outside, pins, views, compose>>
  BY DEF IdentityStep, Unlock, OpenIdentity, WrongPassphrase, CreateIdentity, Seal, Publish,
       IdentityOnly
<1>5. OutsideType' /\ FileType' /\ ViewType' /\ SendType'
  BY <1>4, TypeParts DEF OutsideType, FileType, ViewType, SendType, outside, pins, views
<1> QED
  BY <1>2, <1>3, <1>5, TypeParts

\* What peers publish and the contact book.
LEMMA OutsideStepType ==
    ASSUME TypeOK,
           (\E p \in Peers : PeerPublishes(p)) \/ (\E n \in Nicks : EditContact(n))
    PROVE  TypeOK'
<1>1. OutsideType'
  BY TypeParts DEF OutsideType, PeerPublishes, EditContact
<1>2. UNCHANGED <<identity, pins, views, compose>> /\ Happens
  BY DEF PeerPublishes, EditContact
<1>3. IdentityType' /\ FileType' /\ ViewType' /\ SendType'
  BY <1>2, TypeParts DEF IdentityType, FileType, ViewType, SendType, identity, pins, views
<1>4. BoundType'
  BY <1>2, TypeParts, BoundsType
<1> QED
  BY <1>1, <1>3, <1>4, TypeParts

\* A step on the file leaves the rest to the types of the file and the views.
LEMMA FileOnlyType ==
    ASSUME TypeOK, FileOnly, FileType', ViewType'
    PROVE  TypeOK'
<1>1. UNCHANGED <<identity, outside, compose, bounds>>
  BY DEF FileOnly
<1>2. IdentityType' /\ OutsideType' /\ SendType' /\ BoundType'
  BY <1>1, TypeParts DEF IdentityType, OutsideType, SendType, BoundType, identity, outside,
       bounds
<1> QED
  BY <1>2, TypeParts

\* What a thread with an operation under way works on.
LEMMA JobFacts ==
    ASSUME TypeOK, NEW t \in Threads, job[t] # None
    PROVE  /\ job[t] \in Job /\ job[t].peer \in Peers /\ job[t].key \in PeerKey
           /\ job[t].at \in {"read", "write", "replace"} /\ job[t].buf \in Known
           /\ job[t].op \in {"remember", "set", "verify", "forget"}
           /\ known[job[t].peer] = None \/ known[job[t].peer] \in Pin
<1>1. job[t] \in Job /\ known \in Known
  BY TypeParts DEF FileType
<1> QED
  BY <1>1 DEF Job, Known

\* The threads there are.
LEMMA MainIsThread == "main" \in Threads /\ "send" \in Threads /\ Windows \subseteq Threads
BY DEF Threads

\* The end of an operation on the file.
LEMMA ReturnsType ==
    ASSUME TypeOK, NEW t \in Threads, Returns(t), UNCHANGED <<known, tmp>>
    PROVE  FileType'
BY TypeParts DEF FileType, Returns

\* An operation that goes on to write.
LEMMA WritingType ==
    ASSUME TypeOK, NEW t \in Threads, job[t] # None, NEW F \in Known, WillWrite(t, F),
           UNCHANGED <<known, tmp>>
    PROVE  FileType'
BY TypeParts, WillWriteType DEF FileType

\* The steps on the file of known keys.
LEMMA FileStepType ==
    ASSUME TypeOK, FileStep
    PROVE  TypeOK'
<1>a. ASSUME UNCHANGED views PROVE ViewType'
  BY <1>a, TypeParts DEF ViewType, views
<1>1. ASSUME NEW t \in Threads, Remember(t) PROVE TypeOK'
  <2>1. /\ job[t] # None /\ FileOnly /\ UNCHANGED <<known, tmp, views>>
        /\ WillWrite(t, Pinned(job[t].peer, job[t].key, FALSE)) \/ Returns(t)
    BY <1>1 DEF Remember, Reading
  <2>2. Pinned(job[t].peer, job[t].key, FALSE) \in Known
    BY <2>1, JobFacts, TypeParts, PinnedType DEF FileType
  <2>3. FileType'
    BY <2>1, <2>2, ReturnsType, WritingType
  <2> QED
    BY <1>a, <2>1, <2>3, FileOnlyType
<1>2. ASSUME NEW t \in Threads, Changed(t) PROVE TypeOK'
  <2>1. job[t] # None /\ FileOnly /\ UNCHANGED <<known, tmp, told, broken>> /\ Returns(t)
    BY <1>2 DEF Changed, Reading
  <2>2. <<job[t].peer, job[t].key>> \in Peers \X PeerKey
    BY <2>1, JobFacts
  <2>3. ViewType'
    BY <1>2, <2>1, <2>2, TypeParts DEF Changed, ViewType
  <2> QED
    BY <2>1, <2>3, ReturnsType, FileOnlyType
<1>3. ASSUME Edit PROVE TypeOK'
  <2> DEFINE p == job["main"].peer
  <2>0. job["main"] # None
    BY <1>3 DEF Edit, Reading
  <2>1. p \in Peers /\ job["main"].key \in PeerKey
        /\ (known[p] = None \/ known[p] \in Pin) /\ known \in Known
    BY <2>0, JobFacts, MainIsThread, TypeParts DEF FileType
  <2>2. Pinned(p, job["main"].key, TRUE) \in Known
    BY <2>1, PinnedType
  <2>3. known[p] # None => Pinned(p, known[p].public, ~known[p].verified) \in Known
    BY <2>1, PinnedType DEF Pin
  <2>4. [known EXCEPT ![p] = None] \in Known
    BY <2>1 DEF Known
  <2>5. FileOnly /\ UNCHANGED <<known, tmp, views>>
    BY <1>3 DEF Edit
  <2>6. \/ Returns("main") \/ WillWrite("main", Pinned(p, job["main"].key, TRUE))
        \/ /\ known[p] # None
           /\ WillWrite("main", Pinned(p, known[p].public, ~known[p].verified))
        \/ WillWrite("main", [known EXCEPT ![p] = None])
    BY <1>3, Zenon DEF Edit
  <2> HIDE DEF p
  <2>7. FileType'
    BY <2>0, <2>2, <2>3, <2>4, <2>5, <2>6, MainIsThread, ReturnsType, WritingType
  <2> QED
    BY <1>a, <2>5, <2>7, FileOnlyType
<1>4. ASSUME NEW t \in Threads, WriteTmp(t) PROVE TypeOK'
  <2>1. /\ job[t] # None /\ tmp' = job[t].buf /\ job' = [job EXCEPT ![t].at = "replace"]
        /\ FileOnly /\ UNCHANGED <<known, views>>
    BY <1>4 DEF WriteTmp
  <2> DEFINE j == [job[t] EXCEPT !.at = "replace"]
  <2>2. j \in Job
    BY <2>1, JobFacts DEF Job
  <2> HIDE DEF j
  <2>3. job' = [job EXCEPT ![t] = j]
    BY <2>1 DEF j
  <2>4. FileType'
    BY <2>1, <2>2, <2>3, JobFacts, TypeParts DEF FileType
  <2> QED
    BY <1>a, <2>1, <2>4, FileOnlyType
<1>5. ASSUME NEW t \in Threads, Replace(t) PROVE TypeOK'
  <2>1. FileOnly /\ UNCHANGED views /\ Returns(t)
        /\ (known' \in Known) /\ (tmp' \in Known \cup {None})
    BY <1>5, TypeParts DEF Replace, FileType
  <2>2. FileType'
    BY <2>1, TypeParts DEF FileType, Returns
  <2> QED
    BY <1>a, <2>1, <2>2, FileOnlyType
<1> QED
  BY <1>1, <1>2, <1>3, <1>4, <1>5 DEF FileStep

\* The recipient whose key is asked for is still to be found: what TypeOK needs
\* to be kept, for a recipient is counted as found or missing only once.
AskedIsOpen ==
    compose # None /\ compose.at \in Peers \cup Nicks => compose.at \in compose.todo

\* Changes of the sending under way: a pin that no longer counts, and a key.
LEMMA UnpinType ==
    ASSUME SendType, compose # None, NEW p \in Peers,
           compose' = [compose EXCEPT !.pinned[p] = None]
    PROVE  /\ SendType' /\ compose' \in Compose
           /\ compose'.pinned = [compose.pinned EXCEPT ![p] = None]
           /\ UNCHANGED <<compose.to, compose.todo, compose.pubs, compose.missing, compose.at>>
<1>1. compose \in Compose
  BY DEF SendType
<1>2. [compose.pinned EXCEPT ![p] = None] \in [Peers -> PeerKey \cup {None}]
  BY <1>1 DEF Compose
<1>3. compose' \in Compose /\ compose'.pinned = [compose.pinned EXCEPT ![p] = None]
  BY <1>1, <1>2 DEF Compose
<1>4. UNCHANGED <<compose.to, compose.todo, compose.pubs, compose.missing, compose.at>>
  BY <1>1 DEF Compose
<1> QED
  BY <1>3, <1>4 DEF SendType

\* A recipient's key added to a compose job gives a compose job.
LEMMA WithType ==
    ASSUME SendType, compose # None, NEW p \in Peers, NEW k \in PeerKey, p \in compose.todo
    PROVE  /\ With(p, k) \in Compose
           /\ With(p, k).to = compose.to /\ With(p, k).todo = compose.todo \ {p}
           /\ With(p, k).pubs = [compose.pubs EXCEPT ![p] = k]
           /\ With(p, k).missing = compose.missing /\ With(p, k).at = compose.at
           /\ With(p, k).pinned = compose.pinned
           /\ With(p, k).to = With(p, k).todo \cup With(p, k).missing
                                \cup {q \in Peers : With(p, k).pubs[q] # None}
<1>1. compose \in Compose
  BY DEF SendType
<1>2. [compose.pubs EXCEPT ![p] = k] \in [Peers -> PeerKey \cup {None}]
  BY <1>1 DEF Compose
<1>3. /\ With(p, k).to = compose.to /\ With(p, k).todo = compose.todo \ {p}
      /\ With(p, k).pubs = [compose.pubs EXCEPT ![p] = k]
      /\ With(p, k).missing = compose.missing /\ With(p, k).at = compose.at
      /\ With(p, k).pinned = compose.pinned
  BY <1>1 DEF Compose, With
<1>4. With(p, k) \in Compose
  BY <1>1, <1>2 DEF Compose, With
<1>5. {q \in Peers : With(p, k).pubs[q] # None} = {q \in Peers : compose.pubs[q] # None} \cup {p}
  BY <1>1, <1>3, PeerKeysAssumption DEF Compose
<1>6. compose.to = compose.todo \cup compose.missing \cup {q \in Peers : compose.pubs[q] # None}
  BY DEF SendType
<1> QED
  BY <1>3, <1>4, <1>5, <1>6

\* The steps of the message windows and of the Keys dialog.
LEMMA WindowStepType ==
    ASSUME TypeOK, WindowStep
    PROVE  TypeOK'
<1>1. CASE EditPeer
  <2> PICK p \in Peers :
        /\ \/ \E k \in PeerKey : Ask("main", "set", p, k)
           \/ /\ known[p] # None
              /\ \E op \in {"verify", "forget"} : Ask("main", op, p, known[p].public)
        /\ compose' = IF compose = None THEN None ELSE [compose EXCEPT !.pinned[p] = None]
    BY <1>1 DEF EditPeer
  <2>1. Happens /\ UNCHANGED <<identity, outside, known, tmp, views>>
    BY <1>1 DEF EditPeer
  <2>2. known[p] # None => known[p].public \in PeerKey
    BY TypeParts DEF FileType, Known, Pin
  <2>3. job' \in [Threads -> Job \cup {None}]
    BY <2>2, AskType, MainIsThread, TypeParts DEF FileType
  <2>4. SendType'
    <3>1. CASE compose = None
      BY <3>1 DEF SendType
    <3>2. CASE compose # None
      BY <3>2, UnpinType, TypeParts
    <3> QED
      BY <3>1, <3>2
  <2>5. IdentityType' /\ OutsideType' /\ FileType' /\ ViewType' /\ BoundType'
    BY <2>1, <2>3, TypeParts, BoundsType
       DEF IdentityType, OutsideType, FileType, ViewType, identity, outside, views
  <2> QED
    BY <2>4, <2>5, TypeParts
<1>2. ASSUME NEW w \in Windows, OpenMessage(w) PROVE TypeOK'
  <2>1. Happens /\ UNCHANGED <<identity, outside, known, tmp, views, compose>>
        /\ \E p \in Peers, k \in PeerKey : Ask(w, "remember", p, k)
    BY <1>2 DEF OpenMessage
  <2>2. job' \in [Threads -> Job \cup {None}]
    BY <2>1, AskType, MainIsThread, TypeParts DEF FileType
  <2>3. IdentityType' /\ OutsideType' /\ FileType' /\ ViewType' /\ SendType' /\ BoundType'
    BY <2>1, <2>2, TypeParts, BoundsType
       DEF IdentityType, OutsideType, FileType, ViewType, SendType, identity, outside, views
  <2> QED
    BY <2>3, TypeParts
<1>3. ASSUME NEW w \in Windows, Warn(w) \/ RenderFails(w) PROVE TypeOK'
  <2>1. /\ Fails \/ UNCHANGED bounds
        /\ UNCHANGED <<identity, outside, pins, warned, met, compose>>
        /\ warning[w] # None /\ warning' = [warning EXCEPT ![w] = None]
        /\ told' \subseteq told \cup {warning[w]} /\ broken' \subseteq broken \cup {warning[w]}
    BY <1>3 DEF Warn, RenderFails
  <2>2. ViewType'
    BY <2>1, TypeParts DEF ViewType
  <2>3. IdentityType' /\ OutsideType' /\ FileType' /\ SendType' /\ BoundType'
    BY <2>1, TypeParts, BoundsType
       DEF IdentityType, OutsideType, FileType, SendType, identity, outside, pins
  <2> QED
    BY <2>2, <2>3, TypeParts
<1> QED
  BY <1>1, <1>2, <1>3 DEF WindowStep

\* Whom a message is addressed to.
LEMMA RecipientsType ==
    ASSUME OutsideType, NEW n \in Nat, NEW s \in [1..n -> Peers \cup Nicks]
    PROVE  Recipients(s) \subseteq Peers \cup Nicks
BY DEF OutsideType, Recipients, Resolve

\* The steps of a sending.
LEMMA SendStepType ==
    ASSUME TypeOK, AskedIsOpen, SendStep
    PROVE  TypeOK'
<1>a. SendType /\ FileType
  BY TypeParts
<1>b. ASSUME SendOnly, Happens \/ UNCHANGED bounds, job' \in [Threads -> Job \cup {None}],
             SendType'
      PROVE  TypeOK'
  <2>1. IdentityType' /\ OutsideType' /\ FileType' /\ ViewType' /\ BoundType'
    BY <1>b, TypeParts, BoundsType
       DEF SendOnly, IdentityType, OutsideType, FileType, ViewType, identity, outside, views
  <2> QED
    BY <1>b, <2>1, TypeParts
<1>c. ASSUME UNCHANGED job PROVE job' \in [Threads -> Job \cup {None}]
  BY <1>a, <1>c DEF FileType
<1>d. compose # None => compose \in Compose
  BY <1>a DEF SendType
<1>1. CASE Send
  <2> PICK n \in 1..MaxTo : \E s \in [1..n -> Peers \cup Nicks] :
         LET to == Recipients(s)
         IN  compose' = [to |-> to, todo |-> to, pubs |-> [p \in Peers |-> None], missing |-> {},
                         at |-> "resolve", cancelled |-> FALSE,
                         pinned |-> [p \in Peers |-> IF known[p] = None THEN None
                                                     ELSE known[p].public]]
    BY <1>1 DEF Send
  <2> PICK s \in [1..n -> Peers \cup Nicks] :
         compose' = [to |-> Recipients(s), todo |-> Recipients(s),
                     pubs |-> [p \in Peers |-> None], missing |-> {},
                     at |-> "resolve", cancelled |-> FALSE,
                     pinned |-> [p \in Peers |-> IF known[p] = None THEN None
                                                 ELSE known[p].public]]
    OBVIOUS
  <2> DEFINE pin == [p \in Peers |-> IF known[p] = None THEN None ELSE known[p].public]
             pubs == [p \in Peers |-> None]
  <2>1. Recipients(s) \subseteq Peers \cup Nicks
    BY RecipientsType, TypeParts
  <2>2. pin \in [Peers -> PeerKey \cup {None}] /\ pubs \in [Peers -> PeerKey \cup {None}]
    BY <1>a DEF FileType, Known, Pin
  <2>3. {p \in Peers : pubs[p] # None} = {}
    OBVIOUS
  <2> HIDE DEF pin, pubs
  <2>4. compose' \in Compose /\ compose'.to = Recipients(s) /\ compose'.todo = Recipients(s)
        /\ compose'.missing = {} /\ compose'.pubs = pubs
    BY <2>1, <2>2 DEF Compose, pin, pubs
  <2>5. SendType'
    BY <2>3, <2>4 DEF SendType
  <2> QED
    BY <1>1, <1>b, <1>c, <2>5 DEF Send
<1>2. CASE CancelSend \/ SendCancelled \/ HandOver
  <2>0. compose # None /\ SendOnly /\ UNCHANGED <<job, bounds>>
    BY <1>2 DEF CancelSend, SendCancelled, HandOver, Resolving
  <2>1. /\ compose' \in Compose
        /\ UNCHANGED <<compose.to, compose.todo, compose.missing, compose.pubs>>
    <3>1. CASE CancelSend
      BY <1>d, <2>0, <3>1 DEF CancelSend, Compose
    <3>2. CASE SendCancelled
      BY <1>d, <2>0, <3>2 DEF SendCancelled, Compose
    <3>3. CASE HandOver
      BY <1>d, <2>0, <3>3 DEF HandOver, Compose
    <3> QED
      BY <1>2, <3>1, <3>2, <3>3
  <2>2. SendType'
    BY <2>0, <2>1, <1>a DEF SendType
  <2> QED
    BY <1>b, <1>c, <2>0, <2>2
<1>3. CASE UsePin
  <2> PICK p \in compose.todo \cap Peers : known[p] # None /\ compose' = With(p, known[p].public)
    BY <1>3 DEF UsePin
  <2>1. compose # None /\ SendOnly /\ UNCHANGED <<job, bounds>>
    BY <1>3 DEF UsePin, Resolving
  <2>2. known[p].public \in PeerKey
    BY <1>a DEF FileType, Known, Pin
  <2> DEFINE c == With(p, known[p].public)
  <2>3. c \in Compose /\ c.to = c.todo \cup c.missing \cup {q \in Peers : c.pubs[q] # None}
    BY <1>a, <2>1, <2>2, WithType
  <2> HIDE DEF c
  <2>4. SendType'
    <3>1. compose' = c
      BY DEF c
    <3> QED
      BY <2>3, <3>1 DEF SendType
  <2> QED
    BY <1>b, <1>c, <2>1, <2>4
<1>4. CASE AskDirectory
  <2> PICK x \in compose.todo : compose' = [compose EXCEPT !.at = x]
    BY <1>4 DEF AskDirectory
  <2>1. compose # None /\ SendOnly /\ UNCHANGED <<job, bounds>>
    BY <1>4 DEF AskDirectory, Resolving
  <2>2. /\ compose' \in Compose
        /\ UNCHANGED <<compose.to, compose.todo, compose.missing, compose.pubs>>
    BY <1>d, <2>1 DEF Compose
  <2>3. SendType'
    BY <1>a, <2>1, <2>2 DEF SendType
  <2> QED
    BY <1>b, <1>c, <2>1, <2>3
<1>5. CASE Answer
  <2> DEFINE p == compose.at
             c == With(p, directory[p])
  <2>1. /\ compose # None /\ SendOnly /\ UNCHANGED bounds /\ p \in Peers /\ directory[p] # None
        /\ compose' = [c EXCEPT !.at = "resolve"]
        /\ Ask("send", "remember", p, directory[p])
    BY <1>5 DEF Answer
  <2>2. directory[p] \in PeerKey
    BY <2>1, TypeParts DEF OutsideType
  <2>3. p \in compose.todo
    BY <2>1 DEF AskedIsOpen
  <2> HIDE DEF p
  <2>4. /\ c \in Compose
        /\ c.to = c.todo \cup c.missing \cup {q \in Peers : c.pubs[q] # None}
    BY <1>a, <2>1, <2>2, <2>3, WithType
  <2> HIDE DEF c
  <2>5. compose' \in Compose /\ compose'.to = c.to /\ compose'.todo = c.todo
        /\ compose'.missing = c.missing /\ compose'.pubs = c.pubs
    BY <2>1, <2>4 DEF Compose
  <2>6. SendType'
    BY <2>4, <2>5 DEF SendType
  <2>7. job' \in [Threads -> Job \cup {None}]
    BY <1>a, <2>1, <2>2, AskType, MainIsThread DEF FileType
  <2> QED
    BY <1>b, <2>1, <2>6, <2>7
<1>6. CASE NotFound
  <2>1. /\ compose # None /\ SendOnly /\ UNCHANGED <<job, bounds>>
        /\ compose.at \in Peers \cup Nicks
        /\ compose' = [compose EXCEPT !.at = "resolve", !.todo = @ \ {compose.at},
                                      !.missing = @ \cup {compose.at}]
    BY <1>6 DEF NotFound
  <2>2. compose.at \in compose.todo
    BY <2>1 DEF AskedIsOpen
  <2>3. /\ compose' \in Compose /\ compose'.to = compose.to /\ compose'.pubs = compose.pubs
        /\ compose'.todo = compose.todo \ {compose.at}
        /\ compose'.missing = compose.missing \cup {compose.at}
    BY <1>d, <2>1 DEF Compose
  <2>4. SendType'
    BY <1>a, <2>1, <2>2, <2>3 DEF SendType
  <2> QED
    BY <1>b, <1>c, <2>1, <2>4
<1>7. CASE SendOver
  <2>1. SendOnly /\ UNCHANGED <<job, bounds>> /\ compose' = None
    BY <1>7 DEF SendOver
  <2>2. SendType'
    BY <2>1 DEF SendType
  <2> QED
    BY <1>b, <1>c, <2>1, <2>2
<1> QED
  BY <1>1, <1>2, <1>3, <1>4, <1>5, <1>6, <1>7 DEF SendStep

\* The end of the program.
LEMMA KillType ==
    ASSUME TypeOK, Kill
    PROVE  TypeOK'
<1>1. IdentityType' /\ OutsideType' /\ FileType' /\ ViewType' /\ SendType'
  BY TypeParts DEF Kill, IdentityType, OutsideType, FileType, ViewType, SendType, outside
<1>2. BoundType'
  BY TypeParts, BoundsType DEF Kill
<1> QED
  BY <1>1, <1>2, TypeParts

\* Nothing but a step of the sending, an edit of the Keys dialog or the end of
\* the program touches the sending under way.
LEMMA SendingKept ==
    ASSUME [Next]_vars
    PROVE  SendStep \/ EditPeer \/ Kill \/ UNCHANGED compose
BY DEF Next, IdentityStep, FileStep, WindowStep, Unlock, OpenIdentity, WrongPassphrase,
   CreateIdentity, Seal, Publish, IdentityOnly, Remember, Changed, Edit, WriteTmp, Replace,
   FileOnly, OpenMessage, Warn, RenderFails, PeerPublishes, EditContact, vars

\* Whoever is asked for was not found yet.
LEMMA AskedStep ==
    ASSUME TypeOK, AskedIsOpen, [Next]_vars
    PROVE  AskedIsOpen'
<1>1. compose # None => compose \in Compose
  BY TypeParts DEF SendType
<1>2. CASE EditPeer
  <2> PICK p \in Peers :
         compose' = IF compose = None THEN None ELSE [compose EXCEPT !.pinned[p] = None]
    BY <1>2 DEF EditPeer
  <2>1. CASE compose = None
    BY <2>1 DEF AskedIsOpen
  <2>2. CASE compose # None
    BY <2>2, UnpinType, TypeParts DEF AskedIsOpen
  <2> QED
    BY <2>1, <2>2
<1>3. CASE AskDirectory
  BY <1>1, <1>3 DEF AskDirectory, Resolving, AskedIsOpen, Compose
<1>4. CASE CancelSend
  BY <1>1, <1>4 DEF CancelSend, AskedIsOpen, Compose
<1>5. CASE UsePin
  <2> PICK p \in compose.todo \cap Peers : known[p] # None /\ compose' = With(p, known[p].public)
    BY <1>5 DEF UsePin
  <2>1. compose # None /\ compose.at = "resolve"
    BY <1>5 DEF UsePin, Resolving
  <2>2. compose'.at = compose.at
    BY <1>1, <2>1 DEF With, Compose
  <2> QED
    BY <2>1, <2>2, PeerKeysAssumption DEF AskedIsOpen
<1>6. CASE Answer \/ NotFound \/ Send
  <2>1. compose'.at = "resolve"
    <3>1. CASE Answer
      BY <1>1, <3>1 DEF Answer, With, Compose
    <3>2. CASE NotFound
      BY <1>1, <3>2 DEF NotFound, Compose
    <3>3. CASE Send
      BY <3>3 DEF Send
    <3> QED
      BY <1>6, <3>1, <3>2, <3>3
  <2> QED
    BY <2>1, PeerKeysAssumption DEF AskedIsOpen
<1>7. CASE SendCancelled \/ HandOver
  <2>1. compose'.at \in {"over", "sent"}
    BY <1>1, <1>7 DEF SendCancelled, HandOver, Resolving, Compose
  <2> QED
    BY <2>1, PeerKeysAssumption DEF AskedIsOpen
<1>8. CASE SendOver \/ Kill
  BY <1>8 DEF SendOver, Kill, AskedIsOpen
<1>9. CASE UNCHANGED compose
  BY <1>9 DEF AskedIsOpen
<1> QED
  BY <1>2, <1>3, <1>4, <1>5, <1>6, <1>7, <1>8, <1>9, SendingKept DEF SendStep

\* Every step keeps the types.
LEMMA StepType ==
    ASSUME TypeOK, AskedIsOpen, [Next]_vars
    PROVE  TypeOK'
<1>1. CASE UNCHANGED vars
  <2>1. UNCHANGED <<identity, outside, pins, views, compose, bounds>>
    BY <1>1 DEF vars
  <2>2. IdentityType' /\ OutsideType' /\ FileType' /\ ViewType' /\ SendType' /\ BoundType'
    BY <2>1, TypeParts DEF IdentityType, OutsideType, FileType, ViewType, SendType, BoundType,
         identity, outside, pins, views, bounds
  <2> QED
    BY <2>2, TypeParts
<1> QED
  BY <1>1, IdentityStepType, OutsideStepType, FileStepType, WindowStepType, SendStepType,
     KillType DEF Next

\* Both hold always.
LEMMA AlwaysTyped == Spec => [](TypeOK /\ AskedIsOpen)
<1>1. Init => TypeOK /\ AskedIsOpen
  BY InitType DEF Init, AskedIsOpen
<1>2. TypeOK /\ AskedIsOpen /\ [Next]_vars => (TypeOK /\ AskedIsOpen)'
  BY StepType, AskedStep
<1> QED
  BY <1>1, <1>2, PTL DEF Spec

\* gui.py and clientkeys.py: the types of the client's files, of the operations on
\* them and of a sending hold for any peers, keys, windows and faults, its writers
\* overlapping or not, and each recipient of a message is to be found, missing or
\* found.
THEOREM TypeCorrect == Spec => []TypeOK
BY AlwaysTyped, PTL

-----------------------------------------------------------------------------
(* The user's own identity. *)

\* A login seals an identity only where none is, and publishes what is sealed.
LoginInOrder ==
    /\ server \in {None, idFile}
    /\ prog = "seal" => idFile = None
    /\ prog = "publish" => own = idFile

\* Every step keeps login and publication in order.
LEMMA LoginStep == LoginInOrder /\ [Next]_vars => LoginInOrder'
<1> SUFFICES ASSUME LoginInOrder, [Next]_vars PROVE LoginInOrder'
  OBVIOUS
<1>1. CASE IdentityStep
  BY <1>1 DEF LoginInOrder, IdentityStep, Unlock, OpenIdentity, WrongPassphrase,
       CreateIdentity, Seal, Publish
<1>2. CASE Kill
  BY <1>2 DEF LoginInOrder, Kill
<1>3. CASE FileStep
  BY <1>3 DEF LoginInOrder, FileStep, Remember, Changed, Edit, WriteTmp, Replace, FileOnly,
       identity
<1>4. CASE WindowStep
  BY <1>4 DEF LoginInOrder, WindowStep, EditPeer, OpenMessage, Warn, RenderFails, identity
<1>5. CASE SendStep
  BY <1>5 DEF LoginInOrder, SendStep, Send, CancelSend, UsePin, AskDirectory, Answer, NotFound,
       SendCancelled, HandOver, SendOver, SendOnly, identity
<1>6. CASE (\E p \in Peers : PeerPublishes(p)) \/ (\E n \in Nicks : EditContact(n))
  BY <1>6 DEF LoginInOrder, PeerPublishes, EditContact, identity
<1>7. CASE UNCHANGED vars
  BY <1>7 DEF LoginInOrder, vars, identity
<1> QED
  BY <1>1, <1>2, <1>3, <1>4, <1>5, <1>6, <1>7 DEF Next

\* gui.py:776 and clientkeys.py:76: whatever logins are killed, calls fail and
\* passphrases are wrong, the key the server gives out for the user is that of the
\* identity on disk.
THEOREM PublishedKeyIsOnDisk == Spec => []PublishedCanBeOpened
<1>1. Init => LoginInOrder
  BY DEF Init, LoginInOrder
<1>2. LoginInOrder => PublishedCanBeOpened
  BY DEF LoginInOrder, PublishedCanBeOpened
<1> QED
  BY <1>1, <1>2, LoginStep, PTL DEF Spec

-----------------------------------------------------------------------------
(* Warnings of a changed key. *)

\* What was warned of was found, and is shown, was shown or was lost with a
\* rendering; a window that looks at a key has nothing to show yet.
WarningsInOrder ==
    /\ met = warned
    /\ \A x \in warned : x \in told \cup broken \/ \E w \in Windows : warning[w] = x
    /\ \A w \in Windows : job[w] # None => warning[w] = None

\* Every step keeps the warnings in order.
LEMMA WarningsStep ==
    ASSUME TypeOK, WarningsInOrder, [Next]_vars
    PROVE  WarningsInOrder'
<1>a. /\ job \in [Threads -> Job \cup {None}] /\ warned \subseteq Peers \X PeerKey
      /\ warning \in [Windows -> (Peers \X PeerKey) \cup {None}]
  BY DEF TypeOK
<1>b. ASSUME UNCHANGED views, \A w \in Windows : job'[w] # None => warning[w] = None
      PROVE  WarningsInOrder'
  BY <1>b DEF WarningsInOrder, views
<1>c. ASSUME UNCHANGED <<views, job>> PROVE WarningsInOrder'
  BY <1>b, <1>c DEF WarningsInOrder
<1>d. ASSUME NEW t \in Threads, Returns(t) PROVE \A u \in Threads : job'[u] \in {job[u], None}
  BY <1>a, <1>d DEF Returns
<1>e. ASSUME NEW t \in Threads, NEW F \in Known, job[t] # None, WillWrite(t, F)
      PROVE  \A u \in Threads : job'[u] # None => job[u] # None
  BY <1>a, <1>e, WillWriteType
<1>1. ASSUME NEW t \in Threads, Remember(t) PROVE WarningsInOrder'
  <2>1. /\ job[t] # None /\ UNCHANGED views
        /\ WillWrite(t, Pinned(job[t].peer, job[t].key, FALSE)) \/ Returns(t)
    BY <1>1 DEF Remember, Reading
  <2>2. Pinned(job[t].peer, job[t].key, FALSE) \in Known
    BY <2>1, JobFacts, TypeParts, PinnedType DEF FileType
  <2>3. \A u \in Threads : job'[u] # None => job[u] # None
    BY <2>1, <2>2, <1>d, <1>e
  <2> QED
    BY <1>b, <2>1, <2>3, MainIsThread DEF WarningsInOrder
<1>2. ASSUME NEW t \in Threads, Changed(t) PROVE WarningsInOrder'
  <2> DEFINE x == <<job[t].peer, job[t].key>>
  <2>1. job[t] # None /\ Returns(t) /\ UNCHANGED <<told, broken>>
    BY <1>2 DEF Changed, Reading
  <2>2. \A w \in Windows : job'[w] # None => job[w] # None /\ w # t
    BY <1>a, <2>1, MainIsThread DEF Returns
  <2>3. CASE t \notin Windows
    <3>1. UNCHANGED views
      BY <1>2, <2>1, <2>3 DEF Changed, views
    <3> QED
      BY <1>b, <2>2, <3>1 DEF WarningsInOrder
  <2>4. CASE t \in Windows
    <3>1. /\ met' = met \cup {x} /\ warned' = warned \cup {x}
          /\ warning' = IF x \in warned THEN warning ELSE [warning EXCEPT ![t] = x]
      BY <1>2, <2>4 DEF Changed
    <3>2. warning[t] = None
      BY <2>1, <2>4 DEF WarningsInOrder
    <3> HIDE DEF x
    <3>3. \A w \in Windows : w # t => warning'[w] = warning[w]
      BY <1>a, <3>1
    <3>4. x \notin warned => warning'[t] = x
      BY <1>a, <2>4, <3>1
    <3>5. None \notin warned
      BY <1>a, PeerKeysAssumption
    <3>6. \A y \in warned : y \in told \cup broken \/ \E w \in Windows : warning'[w] = y
      BY <3>2, <3>3, <3>5 DEF WarningsInOrder
    <3>7. x \in told \cup broken \/ \E w \in Windows : warning'[w] = x
      BY <2>4, <3>4, <3>6
    <3> QED
      BY <2>1, <2>2, <3>1, <3>3, <3>6, <3>7 DEF WarningsInOrder
  <2> QED
    BY <2>3, <2>4
<1>3. CASE Edit
  <2>1. UNCHANGED views
    BY <1>3 DEF Edit
  <2>2. \A w \in Windows : job'[w] = job[w]
    BY <1>3, <1>a, PeerKeysAssumption DEF Edit, Returns, WillWrite, Threads
  <2> QED
    BY <1>b, <2>1, <2>2 DEF WarningsInOrder
<1>4. ASSUME NEW t \in Threads, WriteTmp(t) \/ Replace(t) PROVE WarningsInOrder'
  <2>1. UNCHANGED views /\ job[t] # None
    BY <1>4 DEF WriteTmp, Replace
  <2>2. \A u \in Threads : u # t => job'[u] = job[u]
    BY <1>4, <1>a DEF WriteTmp, Replace, Returns
  <2> QED
    BY <1>b, <2>1, <2>2, MainIsThread DEF WarningsInOrder
<1>5. CASE EditPeer
  <2>1. UNCHANGED views
    BY <1>5 DEF EditPeer
  <2>2. \A w \in Windows : job'[w] = job[w]
    BY <1>5, <1>a, PeerKeysAssumption DEF EditPeer, Ask, Threads
  <2> QED
    BY <1>b, <2>1, <2>2 DEF WarningsInOrder
<1>6. ASSUME NEW w \in Windows, OpenMessage(w) PROVE WarningsInOrder'
  <2>1. UNCHANGED views /\ warning[w] = None
    BY <1>6 DEF OpenMessage
  <2>2. \A u \in Windows : u # w => job'[u] = job[u]
    BY <1>6, <1>a DEF OpenMessage, Ask, Threads
  <2> QED
    BY <1>b, <2>1, <2>2 DEF WarningsInOrder
<1>7. ASSUME NEW w \in Windows, Warn(w) \/ RenderFails(w) PROVE WarningsInOrder'
  <2>1. /\ UNCHANGED <<job, warned, met>> /\ warning' = [warning EXCEPT ![w] = None]
        /\ told' \cup broken' = told \cup broken \cup {warning[w]}
    BY <1>7 DEF Warn, RenderFails, pins
  <2>2. \A u \in Windows : warning'[u] = (IF u = w THEN None ELSE warning[u])
    BY <1>a, <2>1
  <2> QED
    BY <2>1, <2>2 DEF WarningsInOrder
<1>8. CASE SendStep
  <2>1. UNCHANGED views
    BY <1>8 DEF SendStep, Send, CancelSend, UsePin, AskDirectory, Answer, NotFound,
         SendCancelled, HandOver, SendOver, SendOnly
  <2>2. \A w \in Windows : job'[w] = job[w]
    BY <1>8, <1>a, PeerKeysAssumption DEF SendStep, Send, CancelSend, UsePin, AskDirectory,
         Answer, NotFound, SendCancelled, HandOver, SendOver, Ask, Threads
  <2> QED
    BY <1>b, <2>1, <2>2 DEF WarningsInOrder
<1>9. CASE Kill
  BY <1>9, MainIsThread DEF Kill, WarningsInOrder
<1>10. CASE IdentityStep
  BY <1>10, <1>c DEF IdentityStep, Unlock, OpenIdentity, WrongPassphrase, CreateIdentity, Seal,
       Publish, IdentityOnly, pins
<1>11. CASE (\E p \in Peers : PeerPublishes(p)) \/ (\E n \in Nicks : EditContact(n))
  BY <1>11, <1>c DEF PeerPublishes, EditContact, pins
<1>12. CASE UNCHANGED vars
  BY <1>12, <1>c DEF vars, pins
<1> QED
  BY <1>1, <1>2, <1>3, <1>4, <1>5, <1>6, <1>7, <1>8, <1>9, <1>10, <1>11, <1>12
     DEF Next, FileStep, WindowStep

\* README.md:48, "a changed key raises a warning": whatever windows open the
\* messages at once and however their writes of the file overlap, each changed key
\* was shown, is about to be, or its rendering failed.
THEOREM UserIsWarned == Spec => []WarnedOfChange
<1>1. Init => WarningsInOrder
  BY MainIsThread DEF Init, WarningsInOrder
<1>2. TypeOK /\ WarningsInOrder => WarnedOfChange
  BY DEF TypeOK, WarningsInOrder, WarnedOfChange, Range
<1>3. TypeOK /\ WarningsInOrder /\ [Next]_vars => WarningsInOrder'
  BY WarningsStep
<1> QED
  BY <1>1, <1>2, <1>3, TypeCorrect, PTL DEF Spec

-----------------------------------------------------------------------------
(* known_keys.json, where its writers do not overlap. *)

InWrite(t) == job[t] # None /\ job[t].at # "read"

\* The one writer has the file as it is but for the peer it is about, which a
\* thread that remembers a key has not found in it; only the main thread does
\* anything else.
PinsInOrder ==
    /\ \A t, u \in Threads : InWrite(t) /\ InWrite(u) => t = u
    /\ \A t \in Threads : job[t] # None => ((job[t].op = "remember") <=> (t # "main"))
    /\ \A t \in Threads : InWrite(t) =>
         /\ \A p \in Peers : p # job[t].peer => job[t].buf[p] = known[p]
         /\ t # "main" => known[job[t].peer] = None
         /\ job[t].at = "replace" => tmp = job[t].buf

\* A step that starts no write and leaves the file alone.
LEMMA PinsKept ==
    ASSUME TypeOK, PinsInOrder, UNCHANGED <<known, tmp>>,
           \A t \in Threads :
             \/ job'[t] = job[t] \/ job'[t] = None
             \/ /\ job'[t].at = "read"
                /\ (job'[t].op = "remember") <=> (t # "main")
    PROVE  PinsInOrder'
<1>1. \A t \in Threads : InWrite(t)' => InWrite(t) /\ job'[t] = job[t]
  BY DEF InWrite
<1> QED
  BY <1>1 DEF PinsInOrder

\* A thread has read the file.
LEMMA PinsRead ==
    ASSUME TypeOK, PinsInOrder, Serialised, NEW t \in Threads, job[t] # None, MayRead(t),
           NEW F \in Known, WillWrite(t, F), UNCHANGED <<known, tmp>>,
           \A p \in Peers : p # job[t].peer => F[p] = known[p],
           t # "main" => known[job[t].peer] = None
    PROVE  PinsInOrder'
<1>1. /\ \A u \in Threads : u # t => job'[u] = job[u]
      /\ job'[t] \in Job /\ job'[t].at = "write" /\ job'[t].buf = F
      /\ job'[t].op = job[t].op /\ job'[t].peer = job[t].peer
  BY WillWriteType, TypeParts DEF FileType
<1>2. \A u \in Threads : InWrite(u)' => u = t
  BY <1>1 DEF InWrite, MayRead
<1> QED
  BY <1>1, <1>2 DEF PinsInOrder

\* A thread replaces the file: only the peer it is about changes in it.
LEMMA ReplaceFacts ==
    ASSUME TypeOK, PinsInOrder, NEW t \in Threads, Replace(t)
    PROVE  /\ job[t] # None /\ job[t].peer \in Peers /\ job'[t] = None
           /\ \A u \in Threads : u # t => job'[u] = job[u] /\ ~InWrite(u)
           /\ known' = job[t].buf
           /\ \A p \in Peers : p # job[t].peer => known'[p] = known[p]
           /\ t # "main" => known[job[t].peer] = None
<1>1. job[t] # None /\ job[t].at = "replace" /\ Returns(t) /\ InWrite(t)
  BY DEF Replace, InWrite
<1>2. tmp = job[t].buf /\ job[t].buf \in Known /\ job[t].peer \in Peers
  BY <1>1, JobFacts DEF PinsInOrder
<1>3. tmp # None
  BY <1>2, PeerKeysAssumption
<1>4. job'[t] = None /\ \A u \in Threads : u # t => job'[u] = job[u]
  BY <1>1, TypeParts DEF FileType, Returns
<1>5. known' = job[t].buf
  BY <1>2, <1>3 DEF Replace
<1> QED
  BY <1>1, <1>2, <1>4, <1>5 DEF PinsInOrder

\* Every step keeps the pins in order, where readers and writers take turns.
LEMMA PinsStep ==
    ASSUME TypeOK, Serialised, PinsInOrder, [Next]_vars
    PROVE  PinsInOrder'
<1>a. job \in [Threads -> Job \cup {None}] /\ known \in Known
  BY DEF TypeOK
<1>b. ASSUME NEW t \in Threads, Returns(t), UNCHANGED <<known, tmp>> PROVE PinsInOrder'
  BY <1>a, <1>b, PinsKept DEF Returns
<1>c. ASSUME NEW t \in Threads, NEW op, NEW p, NEW k, Ask(t, op, p, k),
             (op = "remember") <=> (t # "main"), UNCHANGED <<known, tmp>>
      PROVE  PinsInOrder'
  <2>1. /\ \A u \in Threads : u # t => job'[u] = job[u]
        /\ job'[t].at = "read" /\ job'[t].op = op
    BY <1>a, <1>c DEF Ask
  <2> QED
    BY <1>c, <2>1, PinsKept
<1>1. ASSUME NEW t \in Threads, Remember(t) PROVE PinsInOrder'
  <2> DEFINE p == job[t].peer
             F == Pinned(p, job[t].key, FALSE)
  <2>1. /\ job[t] # None /\ job[t].op = "remember" /\ MayRead(t) /\ UNCHANGED <<known, tmp>>
        /\ \/ known[p] = None /\ WillWrite(t, F)
           \/ Returns(t)
    BY <1>1 DEF Remember, Reading
  <2>2. F \in Known /\ \A q \in Peers : q # p => F[q] = known[q]
    <3>1. F \in Known
      BY <2>1, JobFacts, TypeParts, PinnedType DEF FileType
    <3> QED
      BY <1>a, <3>1 DEF Pinned, Known
  <2>3. CASE Returns(t)
    BY <1>b, <2>1, <2>3
  <2>4. CASE known[p] = None /\ WillWrite(t, F)
    BY <2>1, <2>2, <2>4, PinsRead
  <2> QED
    BY <2>1, <2>3, <2>4
<1>2. ASSUME NEW t \in Threads, Changed(t) PROVE PinsInOrder'
  BY <1>2, <1>b DEF Changed
<1>3. CASE Edit
  <2> DEFINE p == job["main"].peer
  <2>1. job["main"] # None /\ MayRead("main") /\ UNCHANGED <<known, tmp>>
    BY <1>3 DEF Edit, Reading
  <2>2. p \in Peers /\ job["main"].key \in PeerKey /\ (known[p] = None \/ known[p] \in Pin)
    BY <2>1, JobFacts, MainIsThread
  <2> HIDE DEF p
  <2>3. PICK F : /\ \/ Returns("main")
                    \/ WillWrite("main", F)
                 /\ F \in Known
                 /\ \A q \in Peers : q # p => F[q] = known[q]
    <3> DEFINE F1 == Pinned(p, job["main"].key, TRUE)
               F2 == Pinned(p, known[p].public, ~known[p].verified)
               F3 == [known EXCEPT ![p] = None]
    <3>1. F1 \in Known
      BY <1>a, <2>2, PinnedType
    <3>2. known[p] # None => F2 \in Known
      BY <1>a, <2>2, PinnedType DEF Pin
    <3>3. F3 \in Known /\ known \in Known
      BY <1>a, <2>2 DEF Known
    <3>4. \A q \in Peers : q # p => F1[q] = known[q] /\ F2[q] = known[q] /\ F3[q] = known[q]
      BY <1>a DEF Known, Pinned
    <3>5. \/ Returns("main") \/ WillWrite("main", F1)
          \/ known[p] # None /\ WillWrite("main", F2)
          \/ WillWrite("main", F3)
      BY <1>3, Zenon DEF Edit, p
    <3> HIDE DEF F1, F2, F3
    <3> QED
      BY <3>1, <3>2, <3>3, <3>4, <3>5
  <2>4. CASE Returns("main")
    BY <1>b, <2>1, <2>4, MainIsThread
  <2>5. CASE WillWrite("main", F)
    BY <2>1, <2>3, <2>5, MainIsThread, PinsRead DEF p
  <2> QED
    BY <2>3, <2>4, <2>5
<1>4. ASSUME NEW t \in Threads, WriteTmp(t) PROVE PinsInOrder'
  <2> DEFINE j == [job[t] EXCEPT !.at = "replace"]
  <2>1. /\ job[t] # None /\ job[t].at = "write" /\ tmp' = job[t].buf /\ known' = known
        /\ job' = [job EXCEPT ![t] = j]
    BY <1>4 DEF WriteTmp
  <2>2. /\ j.at = "replace" /\ j.op = job[t].op /\ j.peer = job[t].peer /\ j.buf = job[t].buf
        /\ j # None
    BY <2>1, JobFacts, PeerKeysAssumption DEF Job
  <2> HIDE DEF j
  <2>3. job'[t] = j /\ \A u \in Threads : u # t => job'[u] = job[u]
    BY <1>a, <2>1
  <2>4. InWrite(t)
    BY <2>1 DEF InWrite
  <2>5. \A u \in Threads : InWrite(u)' => u = t
    BY <2>3, <2>4 DEF InWrite, PinsInOrder
  <2> QED
    BY <2>1, <2>2, <2>3, <2>4, <2>5 DEF PinsInOrder
<1>5. ASSUME NEW t \in Threads, Replace(t) PROVE PinsInOrder'
  <2>1. \A u \in Threads : ~InWrite(u)'
    BY <1>5, ReplaceFacts DEF InWrite
  <2>2. \A u \in Threads : job'[u] # None => job'[u] = job[u]
    BY <1>5, ReplaceFacts
  <2> QED
    BY <2>1, <2>2 DEF PinsInOrder
<1>6. CASE EditPeer
  <2>1. PICK p, k, op : Ask("main", op, p, k) /\ op # "remember"
    BY <1>6 DEF EditPeer
  <2>2. UNCHANGED <<known, tmp>>
    BY <1>6 DEF EditPeer
  <2> QED
    BY <1>c, <2>1, <2>2, MainIsThread
<1>7. ASSUME NEW w \in Windows, OpenMessage(w) PROVE PinsInOrder'
  <2>1. w # "main"
    BY PeerKeysAssumption
  <2> QED
    BY <1>7, <1>c, <2>1, MainIsThread DEF OpenMessage
<1>8. CASE Answer
  BY <1>8, <1>c, MainIsThread DEF Answer, SendOnly
<1>9. CASE Kill
  BY <1>9, PinsKept DEF Kill
<1>10. CASE UNCHANGED <<known, tmp, job>>
  BY <1>10, PinsKept
<1>11. ASSUME NEW w \in Windows, Warn(w) \/ RenderFails(w) PROVE UNCHANGED <<known, tmp, job>>
  BY <1>11 DEF Warn, RenderFails, pins
<1>12. ASSUME SendStep, ~Answer PROVE UNCHANGED <<known, tmp, job>>
  BY <1>12 DEF SendStep, Send, CancelSend, UsePin, AskDirectory, NotFound, SendCancelled,
       HandOver, SendOver, SendOnly
<1>13. ASSUME \/ IdentityStep \/ UNCHANGED vars
              \/ \E p \in Peers : PeerPublishes(p)
              \/ \E n \in Nicks : EditContact(n)
       PROVE  UNCHANGED <<known, tmp, job>>
  BY <1>13 DEF IdentityStep, Unlock, OpenIdentity, WrongPassphrase, CreateIdentity, Seal,
       Publish, IdentityOnly, PeerPublishes, EditContact, pins, vars
<1> QED
  BY <1>1, <1>2, <1>3, <1>4, <1>5, <1>6, <1>7, <1>8, <1>9, <1>10, <1>11, <1>12, <1>13
     DEF Next, FileStep, WindowStep

\* The file of known keys is always in order.
LEMMA PinsAlwaysInOrder == Serialised => (Spec => []PinsInOrder)
<1> SUFFICES ASSUME Serialised PROVE Spec => []PinsInOrder
  OBVIOUS
<1>1. Init => PinsInOrder
  BY DEF Init, PinsInOrder, InWrite
<1>2. TypeOK /\ PinsInOrder /\ [Next]_vars => PinsInOrder'
  BY PinsStep
<1> QED
  BY <1>1, <1>2, TypeCorrect, PTL DEF Spec

\* Only a rename changes what is known.
LEMMA WhoChangesPins ==
    ASSUME [Next]_vars, known' # known
    PROVE  \E t \in Threads : Replace(t)
BY DEF Next, IdentityStep, FileStep, WindowStep, SendStep, Unlock, OpenIdentity,
   WrongPassphrase, CreateIdentity, Seal, Publish, IdentityOnly, Remember, Changed, Edit,
   WriteTmp, EditPeer, OpenMessage, Warn, RenderFails, Send, CancelSend, UsePin,
   AskDirectory, Answer, NotFound, SendCancelled, HandOver, SendOver, SendOnly, Kill,
   PeerPublishes, EditContact, pins, vars

\* README.md:47, "a peer's public key is remembered on first sight and never
\* silently replaced": where the writers of the file do not overlap, a pin once
\* there is changed by the user's own operation on that peer and nothing else.
THEOREM PinsAreTheUsers == Serialised => (Spec => PinByUserOnly)
<1> SUFFICES ASSUME Serialised PROVE Spec => PinByUserOnly
  OBVIOUS
<1> DEFINE ByUser == \A p \in Peers : known[p] # None /\ known'[p] # known[p] =>
                       job["main"] # None /\ job["main"].peer = p /\ job'["main"] = None
<1>1. TypeOK /\ PinsInOrder /\ [Next]_vars => [ByUser]_vars
  <2> SUFFICES ASSUME TypeOK, PinsInOrder, [Next]_vars,
                      NEW p \in Peers, known[p] # None, known'[p] # known[p]
               PROVE  job["main"] # None /\ job["main"].peer = p /\ job'["main"] = None
    OBVIOUS
  <2>1. PICK t \in Threads : Replace(t)
    BY WhoChangesPins
  <2>2. p = job[t].peer /\ t = "main"
    BY <2>1, ReplaceFacts
  <2> QED
    BY <2>1, <2>2, ReplaceFacts
<1> QED
  BY <1>1, PinsAlwaysInOrder, TypeCorrect, PTL DEF Spec, PinByUserOnly

-----------------------------------------------------------------------------
(* The keys a message is encrypted for. *)

\* The keys found so far are the pinned ones, which are in the file for as long
\* as the user lets them be; the directory is asked only about the others.
SendingInOrder ==
    compose # None =>
      /\ compose.at \in Peers => compose.pinned[compose.at] = None
      /\ compose.at = "sent" => compose.todo = {} /\ compose.missing = {}
      /\ \A p \in Peers : compose.pinned[p] # None =>
           /\ known[p] # None /\ known[p].public = compose.pinned[p]
           /\ compose.pubs[p] \in {None, compose.pinned[p]}
      /\ job["main"] # None => compose.pinned[job["main"].peer] = None

\* A step that neither sends nor replaces the file nor edits it.
LEMMA SendingNotTouched ==
    ASSUME SendingInOrder, UNCHANGED <<known, compose>>,
           job'["main"] = None \/ (job["main"] # None /\ job'["main"].peer = job["main"].peer)
    PROVE  SendingInOrder'
BY DEF SendingInOrder

\* A step of the sending that keeps to what was pinned when it began.
LEMMA SendingGoesOn ==
    ASSUME SendingInOrder, compose # None, known' = known, job'["main"] = job["main"],
           compose'.pinned = compose.pinned,
           compose'.at \in Peers => compose'.pinned[compose'.at] = None,
           compose'.at = "sent" => compose'.todo = {} /\ compose'.missing = {},
           \A p \in Peers : compose'.pubs[p] = compose.pubs[p]
                              \/ compose.pinned[p] \in {None, compose'.pubs[p]}
    PROVE  SendingInOrder'
BY DEF SendingInOrder

\* Every step keeps what is sent to the pins it began with.
LEMMA SendingStep ==
    ASSUME TypeOK, TypeOK', AskedIsOpen, Serialised, PinsInOrder, SendingInOrder, [Next]_vars
    PROVE  SendingInOrder'
<1> USE MainIsThread
<1>a. /\ job \in [Threads -> Job \cup {None}] /\ known \in Known
      /\ compose # None => compose \in Compose
  BY DEF TypeOK
<1>b. ASSUME NEW t \in Threads, t # "main", NEW op, NEW p, NEW k, Ask(t, op, p, k)
      PROVE  job'["main"] = job["main"]
  BY <1>a, <1>b DEF Ask
<1>1. ASSUME NEW t \in Threads, Replace(t) PROVE SendingInOrder'
  <2>1. compose' = compose
    BY <1>1 DEF Replace, FileOnly
  <2> SUFFICES ASSUME compose # None PROVE SendingInOrder'
    BY <2>1 DEF SendingInOrder
  <2>2. compose.pinned[job[t].peer] = None
    BY <1>1, ReplaceFacts DEF SendingInOrder
  <2>3. \A p \in Peers : compose.pinned[p] # None => known'[p] = known[p]
    BY <1>1, <2>2, ReplaceFacts
  <2>4. job'["main"] \in {job["main"], None}
    BY <1>1, ReplaceFacts
  <2> QED
    BY <2>1, <2>3, <2>4 DEF SendingInOrder
<1>2. ASSUME NEW t \in Threads, Remember(t) \/ Changed(t) \/ WriteTmp(t)
      PROVE  SendingInOrder'
  <2>1. job[t] # None /\ UNCHANGED <<known, compose>>
    BY <1>2 DEF Remember, Changed, WriteTmp, Reading, FileOnly
  <2>2. t # "main" => job'["main"] = job["main"]
    BY <1>2, <1>a DEF Remember, Changed, WriteTmp, WillWrite, Returns
  <2>3. t = "main" => job'["main"] = None \/ job'["main"].peer = job["main"].peer
    <3>1. CASE Remember(t)
      BY <2>1, <3>1 DEF PinsInOrder, Remember, Reading
    <3>2. CASE Changed(t)
      BY <3>2, <1>a DEF Changed, Returns
    <3>3. CASE WriteTmp(t)
      <4> DEFINE j == [job[t] EXCEPT !.at = "replace"]
      <4>1. j.peer = job[t].peer
        BY <2>1, JobFacts DEF Job
      <4> HIDE DEF j
      <4>2. job' = [job EXCEPT ![t] = j]
        BY <3>3 DEF WriteTmp, j
      <4> QED
        BY <1>a, <4>1, <4>2
    <3> QED
      BY <1>2, <3>1, <3>2, <3>3
  <2> QED
    BY <2>1, <2>2, <2>3, SendingNotTouched DEF SendingInOrder
<1>3. CASE Edit
  <2>1. job["main"] # None /\ UNCHANGED <<known, compose>>
    BY <1>3 DEF Edit, Reading, FileOnly
  <2>2. job'["main"] = None \/ job'["main"].peer = job["main"].peer
    <3>1. PICK F : Returns("main") \/ WillWrite("main", F)
      BY <1>3, Zenon DEF Edit
    <3>2. CASE Returns("main")
      BY <1>a, <3>2 DEF Returns
    <3>3. CASE WillWrite("main", F)
      <4> DEFINE j == [job["main"] EXCEPT !.at = "write", !.buf = F]
      <4>1. j.peer = job["main"].peer
        BY <2>1, JobFacts DEF Job
      <4>2. job' = [job EXCEPT !["main"] = j]
        BY <3>3 DEF WillWrite
      <4> HIDE DEF j
      <4> QED
        BY <1>a, <4>1, <4>2
    <3> QED
      BY <3>1, <3>2, <3>3
  <2> QED
    BY <2>1, <2>2, SendingNotTouched
<1>4. CASE EditPeer
  <2> PICK p \in Peers :
        /\ \E op, k : Ask("main", op, p, k)
        /\ compose' = IF compose = None THEN None ELSE [compose EXCEPT !.pinned[p] = None]
    BY <1>4 DEF EditPeer
  <2>1. job'["main"].peer = p /\ known' = known
    BY <1>4, <1>a DEF EditPeer, Ask
  <2>2. CASE compose = None
    BY <2>2 DEF SendingInOrder
  <2>3. CASE compose # None
    <3>1. /\ compose'.pinned = [compose.pinned EXCEPT ![p] = None]
          /\ UNCHANGED <<compose.todo, compose.pubs, compose.missing, compose.at>>
          /\ compose.pinned \in [Peers -> PeerKey \cup {None}]
      BY <1>a, <2>3, UnpinType, TypeParts DEF Compose
    <3>2. \A q \in Peers : compose'.pinned[q] = (IF q = p THEN None ELSE compose.pinned[q])
      BY <3>1
    <3> QED
      BY <2>1, <2>3, <3>1, <3>2 DEF SendingInOrder
  <2> QED
    BY <2>2, <2>3
<1>5. ASSUME NEW w \in Windows, OpenMessage(w) PROVE SendingInOrder'
  <2>1. w # "main" /\ w \in Threads
    BY PeerKeysAssumption
  <2>2. UNCHANGED <<known, compose>> /\ job'["main"] = job["main"]
    BY <1>5, <1>b, <2>1 DEF OpenMessage
  <2> QED
    BY <2>2, SendingNotTouched
<1>6. ASSUME NEW w \in Windows, Warn(w) \/ RenderFails(w) PROVE UNCHANGED <<known, compose, job>>
  BY <1>6 DEF Warn, RenderFails, pins
<1>7. CASE Send
  <2> PICK n \in 1..MaxTo : \E s \in [1..n -> Peers \cup Nicks] :
         LET to == Recipients(s)
         IN  compose' = [to |-> to, todo |-> to, pubs |-> [p \in Peers |-> None], missing |-> {},
                         at |-> "resolve", cancelled |-> FALSE,
                         pinned |-> [p \in Peers |-> IF known[p] = None THEN None
                                                     ELSE known[p].public]]
    BY <1>7 DEF Send
  <2>1. /\ compose'.at = "resolve" /\ compose'.pubs = [p \in Peers |-> None]
        /\ compose'.pinned = [p \in Peers |-> IF known[p] = None THEN None ELSE known[p].public]
    OBVIOUS
  <2>2. known' = known /\ job' = job /\ job["main"] = None
    BY <1>7 DEF Send, SendOnly, UserFree
  <2> QED
    BY <2>1, <2>2, PeerKeysAssumption DEF SendingInOrder
<1>8. CASE UsePin
  <2> PICK p \in compose.todo \cap Peers : known[p] # None /\ compose' = With(p, known[p].public)
    BY <1>8 DEF UsePin
  <2>1. compose # None /\ UNCHANGED <<known, job>> /\ compose.at = "resolve"
    BY <1>8 DEF UsePin, Resolving, SendOnly
  <2>2. compose'.pubs = [compose.pubs EXCEPT ![p] = known[p].public]
        /\ compose'.pinned = compose.pinned /\ compose'.at = compose.at
        /\ compose.pubs \in [Peers -> PeerKey \cup {None}]
    BY <1>a, <2>1 DEF With, Compose
  <2>3. compose.pinned[p] \in {None, known[p].public}
    BY <2>1 DEF SendingInOrder
  <2>4. \A q \in Peers : compose'.pubs[q] = compose.pubs[q]
                           \/ compose.pinned[q] \in {None, compose'.pubs[q]}
    BY <2>2, <2>3
  <2> QED
    BY <2>1, <2>2, <2>4, SendingGoesOn, PeerKeysAssumption
<1>9. CASE AskDirectory
  <2> PICK x \in compose.todo : /\ x \in Peers => known[x] = None
                                /\ compose' = [compose EXCEPT !.at = x]
    BY <1>9 DEF AskDirectory
  <2>1. compose # None /\ UNCHANGED <<known, job>>
    BY <1>9 DEF AskDirectory, Resolving, SendOnly
  <2>2. compose'.at = x /\ compose'.pinned = compose.pinned /\ compose'.pubs = compose.pubs
        /\ x \in Peers \cup Nicks
    BY <1>a, <2>1 DEF Compose
  <2>3. x \in Peers => compose.pinned[x] = None
    BY <2>1 DEF SendingInOrder
  <2> QED
    BY <2>1, <2>2, <2>3, SendingGoesOn, PeerKeysAssumption
<1>10. CASE Answer
  <2> DEFINE p == compose.at
             c == With(p, directory[p])
  <2>1. /\ compose # None /\ known' = known /\ p \in Peers
        /\ compose' = [c EXCEPT !.at = "resolve"]
        /\ Ask("send", "remember", p, directory[p])
    BY <1>10 DEF Answer, SendOnly
  <2>2. job'["main"] = job["main"]
    BY <1>b, <2>1
  <2>3. directory[p] \in PeerKey /\ p \in compose.todo
    BY <1>10, <2>1 DEF Answer, TypeOK, AskedIsOpen
  <2>4. /\ c \in Compose /\ c.pubs = [compose.pubs EXCEPT ![p] = directory[p]]
        /\ c.pinned = compose.pinned
    BY <2>1, <2>3, WithType, TypeParts
  <2>5. compose.pinned[p] = None /\ compose.pubs \in [Peers -> PeerKey \cup {None}]
    BY <1>a, <2>1 DEF SendingInOrder, Compose
  <2> HIDE DEF c, p
  <2>6. compose'.at = "resolve" /\ compose'.pinned = c.pinned /\ compose'.pubs = c.pubs
    BY <2>1, <2>4 DEF Compose
  <2>7. \A q \in Peers : compose'.pubs[q] = compose.pubs[q] \/ compose.pinned[q] = None
    BY <2>4, <2>5, <2>6
  <2> QED
    BY <2>1, <2>2, <2>4, <2>6, <2>7, SendingGoesOn, PeerKeysAssumption
<1>11. CASE NotFound \/ SendCancelled \/ CancelSend \/ HandOver
  <2>1. compose # None /\ UNCHANGED <<known, job>>
    BY <1>11 DEF NotFound, SendCancelled, CancelSend, HandOver, SendOnly, Resolving
  <2>2. compose'.pinned = compose.pinned /\ compose'.pubs = compose.pubs
    BY <1>11, <1>a, <2>1 DEF NotFound, SendCancelled, CancelSend, HandOver, Compose
  <2>3. CASE NotFound \/ SendCancelled
    <3>1. compose'.at \in {"resolve", "over"}
      BY <1>a, <2>1, <2>3 DEF NotFound, SendCancelled, Compose
    <3> QED
      BY <2>1, <2>2, <3>1, SendingGoesOn, PeerKeysAssumption
  <2>4. CASE CancelSend
    <3>1. UNCHANGED <<compose.at, compose.todo, compose.missing>>
      BY <1>a, <2>1, <2>4 DEF CancelSend, Compose
    <3> QED
      BY <2>1, <2>2, <3>1, SendingGoesOn DEF SendingInOrder
  <2>5. CASE HandOver
    <3>1. /\ compose'.at \in {"over", "sent"} /\ compose'.missing = compose.missing
          /\ compose'.todo = {}
          /\ compose'.at = "sent" => compose.missing = {}
      BY <1>a, <2>1, <2>5 DEF HandOver, Compose
    <3> QED
      BY <2>1, <2>2, <3>1, SendingGoesOn, PeerKeysAssumption
  <2> QED
    BY <1>11, <2>3, <2>4, <2>5
<1>12. CASE SendOver \/ Kill
  BY <1>12 DEF SendOver, Kill, SendingInOrder
<1>13. CASE UNCHANGED <<known, compose, job>>
  BY <1>13 DEF SendingInOrder
<1>14. ASSUME \/ IdentityStep \/ UNCHANGED vars
              \/ \E p \in Peers : PeerPublishes(p)
              \/ \E n \in Nicks : EditContact(n)
       PROVE  UNCHANGED <<known, compose, job>>
  BY <1>14 DEF IdentityStep, Unlock, OpenIdentity, WrongPassphrase, CreateIdentity, Seal,
       Publish, IdentityOnly, PeerPublishes, EditContact, pins, vars
<1> QED
  BY <1>1, <1>2, <1>3, <1>4, <1>5, <1>6, <1>7, <1>8, <1>9, <1>10, <1>11, <1>12, <1>13, <1>14
     DEF Next, FileStep, WindowStep, SendStep

\* gui.py:218, "the stored (old) key keeps being used": where the writers of the
\* file do not overlap, what is sent is encrypted for every recipient, and with
\* the key pinned when the sending began unless the user changed it meanwhile.
THEOREM PinnedKeyIsUsed == Serialised => (Spec => []KnownKeyIsUsed)
<1> SUFFICES ASSUME Serialised PROVE Spec => []KnownKeyIsUsed
  OBVIOUS
<1>1. Init => SendingInOrder
  BY DEF Init, SendingInOrder
<1>2. TypeOK /\ TypeOK' /\ AskedIsOpen /\ PinsInOrder /\ SendingInOrder /\ [Next]_vars
        => SendingInOrder'
  BY SendingStep
<1>3. TypeOK /\ SendingInOrder => KnownKeyIsUsed
  <2> SUFFICES ASSUME TypeOK, SendingInOrder, compose # None, compose.at = "sent",
                      NEW p \in compose.to
               PROVE  compose.pubs[p] \in PeerKey /\ compose.pinned[p] \in {None, compose.pubs[p]}
    BY DEF KnownKeyIsUsed
  <2>1. p \in Peers /\ compose.pubs[p] # None
    BY DEF TypeOK, SendingInOrder
  <2>2. compose.pubs[p] \in PeerKey
    BY <2>1 DEF TypeOK, Compose
  <2> QED
    BY <2>1, <2>2 DEF SendingInOrder
<1> QED
  BY <1>1, <1>2, <1>3, PinsAlwaysInOrder, AlwaysTyped, PTL DEF Spec
=============================================================================
