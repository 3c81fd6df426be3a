---------------------------- MODULE MailboxProofs ----------------------------
(***************************************************************************)
(* Proofs about Mailbox, for any accounts, messages, transactions and      *)
(* windows, any number of faults and any order of what users do.           *)
(***************************************************************************)
EXTENDS Mailbox, TLAPS

-----------------------------------------------------------------------------
(* Types.  A key is kept in many places, and is looked up in of: that every
   key anywhere is one that Maildir has made up goes with the types; so does that
   only the INBOX has files here, and that a mark has one copy in hand. *)

WellMarked(c) ==
    /\ c.folder = "INBOX"
    /\ c.at \in {"added", "dropped"} => \E f \in File : c.got = {f}

FileType ==
    /\ accounts \subseteq Accounts /\ Me \in accounts
    /\ box \in [Accounts -> SUBSET File]
    /\ of \in Seq(Messages \cup {Old}) /\ of # <<>>
    /\ \A a \in Accounts : \A f \in box[a] : /\ f.key \in DOMAIN of /\ f.folder = "INBOX"
                                           /\ Keyed(box[a], f.key) = {f}
MailType ==
    /\ mail \in Transaction \cup {None} /\ (mail # None => mail.i \in DOMAIN mail.rcpts)
    /\ owed \subseteq Messages \X Accounts
CallType ==
    /\ call \in [Threads -> Call \cup {None}]
    /\ \A t \in Threads : call[t] # None =>
         /\ call[t].key \in DOMAIN of /\ Keys(call[t].got) \subseteq DOMAIN of
         /\ call[t].op = "mark" => WellMarked(call[t])
MainType ==
    /\ folder \in Folders /\ shown \in Folders /\ rows \subseteq File
    /\ known \subseteq Nat /\ seeded \in BOOLEAN /\ busy \in BOOLEAN /\ alarm \subseteq Nat
    /\ Keys(rows) \subseteq DOMAIN of /\ listed \subseteq DOMAIN of
WindowType ==
    /\ window \in [Windows -> Window \cup {None}]
    /\ \A w \in Windows : window[w] # None => window[w].key \in DOMAIN of
DeletionType ==
    /\ deletion \in Deletion \cup {None}
    /\ deletion # None => deletion.left \subseteq DOMAIN of
UserType ==
    /\ tui \in Folders \cup {None}
    /\ chosen \subseteq Messages \cup {Old} /\ opened \subseteq Messages \cup {Old}
CountType == events \in Nat /\ faults \in Nat
TypeInv ==
    /\ FileType /\ MailType /\ CallType /\ MainType
    /\ WindowType /\ DeletionType /\ UserType /\ CountType

\* of only ever gets longer.
Grown == DOMAIN of \subseteq DOMAIN of' /\ \A k \in DOMAIN of : of'[k] = of[k]

\* The threads there are.
LEMMA ThreadsThere ==
    /\ {"ui", "auto", "del", "tui"} \subseteq Threads /\ Windows \subseteq Threads
    /\ \A w \in Windows : w \notin {"ui", "auto", "del", "tui"}
BY MailboxAssumption DEF Threads

\* A key that Maildir makes up is a new one, and the old ones stay.
LEMMA NewKey ==
    ASSUME FileType, NEW m \in Messages \cup {Old}, of' = Append(of, m)
    PROVE  /\ Grown /\ of' \in Seq(Messages \cup {Old}) /\ of' # <<>>
           /\ DOMAIN of' = DOMAIN of \cup {Fresh} /\ Fresh \notin DOMAIN of /\ of'[Fresh] = m
           /\ Fresh \in Nat /\ DOMAIN of \subseteq Nat /\ \A k \in DOMAIN of : k < Fresh
BY DEF FileType, Grown, Fresh

\* What is known stays known.
LEMMA Nothing == UNCHANGED of => Grown
BY DEF Grown

\* The parts of TypeInv that a step leaves alone.
LEMMA Untouched ==
    ASSUME TypeInv, Grown
    PROVE  /\ UNCHANGED <<accounts, box, of>> => FileType'
           /\ UNCHANGED <<mail, owed>> => MailType'
           /\ UNCHANGED call => CallType'
           /\ UNCHANGED main => MainType'
           /\ UNCHANGED window => WindowType'
           /\ UNCHANGED deletion => DeletionType'
           /\ UNCHANGED <<tui, chosen, opened>> => UserType'
           /\ UNCHANGED bounds => CountType'
<1>1. UNCHANGED <<accounts, box, of>> => FileType'
  BY DEF TypeInv, FileType, Keyed
<1>2. UNCHANGED <<mail, owed>> => MailType'
  BY DEF TypeInv, MailType
<1>3. UNCHANGED call => CallType'
  BY DEF TypeInv, CallType, Grown, Keys
<1>4. UNCHANGED main => MainType'
  BY DEF TypeInv, MainType, main, Grown, Keys
<1>5. UNCHANGED window => WindowType'
  BY DEF TypeInv, WindowType, Grown
<1>6. UNCHANGED deletion => DeletionType'
  BY DEF TypeInv, DeletionType, Grown
<1>7. UNCHANGED <<tui, chosen, opened>> => UserType'
  BY DEF TypeInv, UserType
<1>8. UNCHANGED bounds => CountType'
  BY DEF TypeInv, CountType, bounds
<1> QED
  BY <1>1, <1>2, <1>3, <1>4, <1>5, <1>6, <1>7, <1>8

\* The counters of what happens and what fails.
LEMMA Counted ==
    /\ TypeInv /\ Happens => CountType'
    /\ TypeInv /\ Fails => CountType'
BY DEF TypeInv, CountType, Happens, Fails

\* A thread's call is another one, or over.
LEMMA PutCall ==
    ASSUME TypeInv, Grown, NEW t \in Threads, NEW c \in Call \cup {None},
           c # None => c.key \in DOMAIN of' /\ Keys(c.got) \subseteq DOMAIN of',
           c # None /\ c.op = "mark" => WellMarked(c),
           call' = [call EXCEPT ![t] = c]
    PROVE  CallType' /\ call'[t] = c /\ \A u \in Threads \ {t} : call'[u] = call[u]
<1>1. CallType
  BY DEF TypeInv
<1>2. call' \in [Threads -> Call \cup {None}] /\ call'[t] = c
      /\ \A u \in Threads \ {t} : call'[u] = call[u]
  BY <1>1 DEF CallType
<1>3. ASSUME NEW u \in Threads, call'[u] # None
      PROVE  /\ call'[u].key \in DOMAIN of' /\ Keys(call'[u].got) \subseteq DOMAIN of'
             /\ call'[u].op = "mark" => WellMarked(call'[u])
  <2>1. CASE u = t
    BY <1>2, <1>3, <2>1 DEF Keys, WellMarked
  <2>2. CASE u # t
    <3>1. /\ call'[u] = call[u] /\ call[u] # None
          /\ call[u].key \in DOMAIN of /\ Keys(call[u].got) \subseteq DOMAIN of
          /\ call[u].op = "mark" => WellMarked(call[u])
      BY <1>1, <1>2, <1>3, <2>2 DEF CallType
    <3> QED
      BY <3>1 DEF Grown, Keys, WellMarked
  <2> QED
    BY <2>1, <2>2
<1> QED
  BY <1>2, <1>3 DEF CallType, WellMarked

\* A thread makes a call.
LEMMA AskEffect ==
    ASSUME TypeInv, Grown, NEW t \in Threads, NEW op \in {"list", "get", "mark", "delete"},
           NEW d \in Folders, op = "mark" => d = "INBOX", NEW k \in DOMAIN of, Ask(t, op, d, k)
    PROVE  /\ CallType' /\ \A u \in Threads \ {t} : call'[u] = call[u]
           /\ call'[t] # None /\ call'[t].op = op /\ call'[t].folder = d /\ call'[t].key = k
           /\ call'[t].at = "asked" /\ call'[t].got = {}
<1> DEFINE c == [op |-> op, folder |-> d, key |-> k, at |-> "asked", got |-> {}]
<1>1. DOMAIN of \subseteq Nat
  BY DEF TypeInv, FileType
<1>2. c \in Call /\ c.op = op /\ c.folder = d /\ c.key = k /\ c.at = "asked" /\ c.got = {}
  BY <1>1 DEF Call
<1>3. c.key \in DOMAIN of' /\ Keys(c.got) \subseteq DOMAIN of'
  BY <1>2 DEF Grown, Keys
<1>4. call' = [call EXCEPT ![t] = c]
  BY DEF Ask
<1> HIDE DEF c
<1>a. c.op = "mark" => WellMarked(c)
  BY <1>2 DEF WellMarked
<1>5. CallType' /\ call'[t] = c /\ \A u \in Threads \ {t} : call'[u] = call[u]
  BY <1>2, <1>3, <1>4, <1>a, PutCall
<1> QED
  BY <1>2, <1>5, MailboxAssumption

\* A call of a thread goes on to another stage, or is forgotten.
LEMMA TurnEffect ==
    ASSUME TypeInv, Grown, NEW t \in Threads, call[t] # None,
           NEW a \in {"asked", "keys", "dropped", "ok", "failed"}, Turn(t, a),
           a = "dropped" => call[t].at = "added"
    PROVE  /\ CallType' /\ \A u \in Threads \ {t} : call'[u] = call[u]
           /\ \/ /\ t \in Windows /\ call[t].op = "mark" /\ a \in {"ok", "failed"}
                 /\ call'[t] = None
              \/ /\ call'[t] # None /\ call'[t].op = call[t].op
                 /\ call'[t].folder = call[t].folder /\ call'[t].key = call[t].key
                 /\ call'[t].at = a /\ call'[t].got = call[t].got
<1>1. /\ call[t] \in Call /\ call[t].key \in DOMAIN of /\ Keys(call[t].got) \subseteq DOMAIN of
      /\ call[t].op = "mark" => WellMarked(call[t])
  BY DEF TypeInv, CallType
<1> DEFINE d == [call[t] EXCEPT !.at = a]
           c == IF t \in Windows /\ call[t].op = "mark" /\ a \in {"ok", "failed"} THEN None ELSE d
<1>2. d \in Call /\ d.op = call[t].op /\ d.folder = call[t].folder /\ d.key = call[t].key
      /\ d.at = a /\ d.got = call[t].got
  BY <1>1 DEF Call
<1>3. call' = [call EXCEPT ![t] = c]
  BY DEF Turn
<1> HIDE DEF d
<1>4. c \in Call \cup {None}
  BY <1>2
<1>5. c # None => c.key \in DOMAIN of' /\ Keys(c.got) \subseteq DOMAIN of'
  BY <1>1, <1>2 DEF Grown, Keys
<1>6. c = None \/ c = d
  OBVIOUS
<1>7. c = None => t \in Windows /\ call[t].op = "mark" /\ a \in {"ok", "failed"}
  BY <1>2, MailboxAssumption
<1>a. d.op = "mark" => WellMarked(d)
  BY <1>1, <1>2 DEF WellMarked
<1>b. c # None /\ c.op = "mark" => WellMarked(c)
  BY <1>6, <1>a DEF WellMarked
<1> HIDE DEF c
<1>8. CallType' /\ call'[t] = c /\ \A u \in Threads \ {t} : call'[u] = call[u]
  BY <1>3, <1>4, <1>5, <1>b, PutCall
<1> QED
  BY <1>2, <1>6, <1>7, <1>8, MailboxAssumption

\* The same with files that were found or made.
LEMMA ResultEffect ==
    ASSUME TypeInv, Grown, NEW t \in Threads, call[t] # None,
           NEW a \in {"asked", "keys", "added", "dropped", "ok", "failed"},
           NEW F \in SUBSET File, Keys(F) \subseteq DOMAIN of', Result(t, a, F),
           call[t].op = "mark" => \E f \in File : F = {f}
    PROVE  /\ CallType' /\ \A u \in Threads \ {t} : call'[u] = call[u]
           /\ call'[t] # None /\ call'[t].op = call[t].op
           /\ call'[t].folder = call[t].folder /\ call'[t].key = call[t].key
           /\ call'[t].at = a /\ call'[t].got = F
<1>1. /\ call[t] \in Call /\ call[t].key \in DOMAIN of /\ Keys(call[t].got) \subseteq DOMAIN of
      /\ call[t].op = "mark" => WellMarked(call[t])
  BY DEF TypeInv, CallType
<1> DEFINE c == [call[t] EXCEPT !.at = a, !.got = F]
<1>2. c \in Call /\ c.op = call[t].op /\ c.folder = call[t].folder /\ c.key = call[t].key
      /\ c.at = a /\ c.got = F
  BY <1>1 DEF Call
<1>3. call' = [call EXCEPT ![t] = c]
  BY DEF Result
<1>5. c.key \in DOMAIN of' /\ Keys(c.got) \subseteq DOMAIN of'
  BY <1>1, <1>2 DEF Grown, Keys
<1>a. c.op = "mark" => WellMarked(c)
  BY <1>1, <1>2 DEF WellMarked
<1> HIDE DEF c
<1>8. CallType' /\ call'[t] = c /\ \A u \in Threads \ {t} : call'[u] = call[u]
  BY <1>2, <1>3, <1>5, <1>a, PutCall
<1> QED
  BY <1>2, <1>8, MailboxAssumption

\* A call is over.
LEMMA OverEffect ==
    ASSUME TypeInv, Grown, NEW t \in Threads, call' = [call EXCEPT ![t] = None]
    PROVE  CallType' /\ call'[t] = None /\ \A u \in Threads \ {t} : call'[u] = call[u]
BY PutCall


\* Files come and go: what a step needs for FileType if of grows by at most one.
LEMMA FilesChange ==
    ASSUME TypeInv, NEW a \in Accounts, NEW F \in SUBSET File, box' = [box EXCEPT ![a] = F],
           UNCHANGED accounts, of' \in Seq(Messages \cup {Old}), Grown,
           \A f \in F : f.key \in DOMAIN of' /\ f.folder = "INBOX" /\ Keyed(F, f.key) = {f}
    PROVE  FileType' /\ box'[a] = F /\ \A b \in Accounts \ {a} : box'[b] = box[b]
<1>1. FileType
  BY DEF TypeInv
<1>2. box' \in [Accounts -> SUBSET File] /\ box'[a] = F
      /\ \A b \in Accounts \ {a} : box'[b] = box[b]
  BY <1>1 DEF FileType
<1>3. ASSUME NEW b \in Accounts, NEW f \in box'[b]
      PROVE  f.key \in DOMAIN of' /\ f.folder = "INBOX" /\ Keyed(box'[b], f.key) = {f}
  <2>1. CASE b = a
    BY <1>2, <1>3, <2>1 DEF Keyed
  <2>2. CASE b # a
    BY <1>1, <1>2, <1>3, <2>2 DEF Keyed, FileType, Grown
  <2> QED
    BY <2>1, <2>2
<1>4. of' # <<>>
  BY <1>1 DEF FileType, Grown
<1> QED
  BY <1>1, <1>2, <1>3, <1>4 DEF FileType

\* Some files go.
LEMMA FilesGo ==
    ASSUME TypeInv, NEW G, box' = [box EXCEPT ![Me] = @ \ G], UNCHANGED <<accounts, of>>
    PROVE  FileType' /\ box'[Me] = box[Me] \ G /\ \A b \in Accounts \ {Me} : box'[b] = box[b]
<1>1. FileType /\ Me \in Accounts
  BY MailboxAssumption DEF TypeInv
<1>2. box[Me] \ G \in SUBSET File
  BY <1>1 DEF FileType
<1>3. \A f \in box[Me] \ G : /\ f.key \in DOMAIN of' /\ f.folder = "INBOX"
                           /\ Keyed(box[Me] \ G, f.key) = {f}
  BY <1>1 DEF FileType, Keyed
<1>4. of' \in Seq(Messages \cup {Old}) /\ Grown
  BY <1>1 DEF FileType, Grown
<1> QED
  BY <1>1, <1>2, <1>3, <1>4, FilesChange

\* A file comes, under a new key.
LEMMA FileComes ==
    ASSUME TypeInv, NEW a \in Accounts, NEW f \in File, f.key = Fresh, f.folder = "INBOX",
           box' = [box EXCEPT ![a] = @ \cup {f}], UNCHANGED accounts,
           NEW m \in Messages \cup {Old}, of' = Append(of, m)
    PROVE  FileType' /\ box'[a] = box[a] \cup {f} /\ \A b \in Accounts \ {a} : box'[b] = box[b]
<1>1. FileType
  BY DEF TypeInv
<1>2. box[a] \cup {f} \in SUBSET File
  BY <1>1 DEF FileType
<1>3. \A g \in box[a] : /\ g.key \in DOMAIN of /\ g.folder = "INBOX"
                      /\ Keyed(box[a], g.key) = {g}
  BY <1>1 DEF FileType
<1>4. \A g \in box[a] \cup {f} : /\ g.key \in DOMAIN of' /\ g.folder = "INBOX"
                               /\ Keyed(box[a] \cup {f}, g.key) = {g}
  <2>1. f.key \in DOMAIN of' /\ \A g \in box[a] : g.key \in DOMAIN of' /\ g.key # f.key
    BY <1>1, <1>3, NewKey
  <2>2. \A g \in box[a] : \A h \in box[a] : h.key = g.key => h = g
    BY <1>3 DEF Keyed
  <2> QED
    BY <1>3, <2>1, <2>2 DEF Keyed
<1> QED
  BY <1>1, <1>2, <1>4, NewKey, FilesChange

\* The targets of a call are files of the mailbox, at most one.
LEMMA TargetFacts ==
    ASSUME TypeInv, NEW t \in Threads, call[t] # None
    PROVE  /\ Target(t) \subseteq box[Me] /\ Mine(t) \subseteq box[Me] /\ box[Me] \subseteq File
           /\ \A f \in Target(t) : f.key = call[t].key /\ of[f.key] \in Messages \cup {Old}
           /\ call[t].folder = "INBOX" => Target(t) = Keyed(box[Me], call[t].key)
           /\ Keys(Mine(t)) \subseteq DOMAIN of
           /\ call[t] \in Call /\ call[t].key \in DOMAIN of /\ Keys(call[t].got) \subseteq DOMAIN of
<1>1. FileType /\ CallType /\ Me \in Accounts
  BY MailboxAssumption DEF TypeInv
<1>2. Target(t) \subseteq Mine(t) /\ Mine(t) \subseteq box[Me]
      /\ \A f \in Target(t) : f.key = call[t].key
  BY DEF Target, Mine, In, Keyed
<1>3. box[Me] \subseteq File /\ \A f \in box[Me] : f.key \in DOMAIN of /\ f.folder = "INBOX"
  BY <1>1 DEF FileType
<1>7. call[t].folder = "INBOX" => Target(t) = Keyed(box[Me], call[t].key)
  BY <1>3 DEF Target, Mine, In, Keyed
<1>4. \A k \in DOMAIN of : of[k] \in Messages \cup {Old}
  BY <1>1 DEF FileType
<1>5. Keys(Mine(t)) \subseteq DOMAIN of
  BY <1>2, <1>3 DEF Keys
<1>6. call[t] \in Call /\ call[t].key \in DOMAIN of /\ Keys(call[t].got) \subseteq DOMAIN of
  BY <1>1 DEF CallType
<1> QED
  BY <1>2, <1>3, <1>4, <1>5, <1>6, <1>7

\* The steps of smtpd.
LEMMA SmtpType == TypeInv /\ SmtpStep => TypeInv'
<1> SUFFICES ASSUME TypeInv, SmtpStep PROVE TypeInv'
  OBVIOUS
<1>1. FileType /\ MailType
  BY DEF TypeInv
<1>2. ASSUME UNCHANGED <<call, main, users>>, Grown, FileType', MailType', CountType'
      PROVE  TypeInv'
  BY <1>2, Untouched DEF TypeInv, users
<1>3. CASE \E m \in Messages : Mail(m)
  <2> PICK m \in Messages : Mail(m)
    BY <1>3
  <2>1. PICK r \in Envelopes : r # <<>> /\ mail' = [msg |-> m, rcpts |-> r, i |-> 1]
    BY DEF Mail
  <2>2. r \in Seq(Accounts) /\ 1 \in DOMAIN r
    BY <2>1, MailboxAssumption
  <2>3. mail' \in Transaction /\ mail'.i \in DOMAIN mail'.rcpts
    BY <2>1, <2>2 DEF Transaction
  <2>4. MailType'
    BY <1>1, <2>3, MailboxAssumption DEF MailType, Mail
  <2> QED
    BY <1>2, <2>4, Nothing, Untouched, Counted DEF Mail
<1>4. CASE Abort
  BY <1>1, <1>2, <1>4, Nothing, Untouched DEF Abort, MailType
<1>5. CASE StoreOne
  <2>1. mail \in Transaction /\ mail.i \in DOMAIN mail.rcpts /\ mail # None
    BY <1>1, <1>5 DEF StoreOne, MailType
  <2>2. mail.rcpts \in Seq(Accounts) /\ mail.msg \in Messages /\ mail.i \in Nat
    BY <2>1 DEF Transaction
  <2> DEFINE a == mail.rcpts[mail.i]
             f == [key |-> Fresh, folder |-> "INBOX", seen |-> FALSE]
  <2>3. a \in Accounts
    BY <2>1, <2>2
  <2>4. f \in File /\ f.key = Fresh /\ f.folder = "INBOX"
    BY <1>1, NewKey DEF File, Folders, Fresh, FileType
  <2>5. Grown /\ FileType'
    <3>1. CASE a \in accounts
      <4>1. /\ box' = [box EXCEPT ![a] = @ \cup {f}] /\ of' = Append(of, mail.msg)
            /\ UNCHANGED accounts
        BY <1>5, <3>1 DEF StoreOne, AddIncoming
      <4> HIDE DEF a, f
      <4> QED
        BY <1>1, <2>2, <2>3, <2>4, <4>1, FileComes, NewKey
    <3>2. CASE a \notin accounts
      BY <1>5, <3>2, Nothing, Untouched DEF StoreOne
    <3> QED
      BY <3>1, <3>2
  <2>6. MailType'
    <3>1. CASE mail.i + 1 > Len(mail.rcpts)
      <4>1. Range(mail.rcpts) \cap accounts \subseteq Accounts
        BY <1>1 DEF FileType
      <4> QED
        BY <1>1, <1>5, <2>2, <3>1, <4>1 DEF StoreOne, Advance, MailType
    <3>2. CASE ~(mail.i + 1 > Len(mail.rcpts))
      <4>1. mail' = [mail EXCEPT !.i = mail.i + 1] /\ UNCHANGED owed
        BY <1>5, <3>2 DEF StoreOne, Advance
      <4>2. mail.i + 1 \in DOMAIN mail.rcpts
        BY <2>1, <2>2, <3>2
      <4>3. mail' \in Transaction /\ mail'.i = mail.i + 1 /\ mail'.rcpts = mail.rcpts
        BY <2>1, <2>2, <4>1 DEF Transaction
      <4> QED
        BY <1>1, <4>1, <4>2, <4>3 DEF MailType
    <3> QED
      BY <3>1, <3>2
  <2> QED
    BY <1>2, <1>5, <2>5, <2>6, Untouched DEF StoreOne
<1>6. CASE \E a \in Accounts : RemoveAccount(a)
  <2> PICK a \in Accounts : RemoveAccount(a)
    BY <1>6
  <2>1. FileType'
    BY <1>1 DEF RemoveAccount, FileType, Keyed
  <2> QED
    BY <1>2, <2>1, Nothing, Untouched, Counted DEF RemoveAccount
<1> QED
  BY <1>3, <1>4, <1>5, <1>6 DEF SmtpStep


\* What a call of mark_seen finds to copy, and the copy.
LEMMA MarkAddEffect ==
    ASSUME TypeInv, NEW t \in Threads, MarkAdd(t), Target(t) # {}
    PROVE  \E f \in Target(t), copy \in File :
             /\ copy.key = Fresh /\ copy.folder = f.folder /\ copy.seen = TRUE
             /\ box' = [box EXCEPT ![Me] = @ \cup {copy}]
             /\ of' = Append(of, of[f.key]) /\ Result(t, "added", {copy})
<1>1. call[t] # None
  BY DEF MarkAdd, At
<1>2. PICK f \in Target(t) :
        LET copy == [f EXCEPT !.key = Fresh, !.seen = TRUE]
        IN  /\ box' = [box EXCEPT ![Me] = @ \cup {copy}]
            /\ of' = Append(of, of[f.key])
            /\ Result(t, "added", {copy})
  BY DEF MarkAdd
<1> DEFINE copy == [f EXCEPT !.key = Fresh, !.seen = TRUE]
<1>3. f \in File
  BY <1>1, TargetFacts
<1>4. Fresh \in Nat
  BY DEF TypeInv, FileType, Fresh
<1>5. copy \in File /\ copy.key = Fresh /\ copy.folder = f.folder /\ copy.seen = TRUE
  BY <1>3, <1>4 DEF File
<1> QED
  BY <1>2, <1>5

\* How a rename ends: the copies get the key, in place of what had it.
LEMMA RenameEffect ==
    ASSUME TypeInv, NEW t \in Threads, MarkRename(t), call[t].got \subseteq box[Me],
           NEW c \in File, call[t].got = {c}
    PROVE  \E f \in File :
             /\ f.key = call[t].key /\ f.folder = c.folder /\ f.seen = c.seen
             /\ box' = [box EXCEPT ![Me] = (@ \ ({c} \cup Target(t))) \cup {f}]
             /\ Turn(t, "ok") /\ UNCHANGED of
<1>1. call[t] # None
  BY DEF MarkRename, At
<1> DEFINE f == [c EXCEPT !.key = call[t].key]
<1>2. f \in File /\ f.key = call[t].key /\ f.folder = c.folder /\ f.seen = c.seen
  BY <1>1, TargetFacts DEF File, Call
<1>3. {[g EXCEPT !.key = call[t].key] : g \in call[t].got} = {f}
  OBVIOUS
<1>4. box' = [box EXCEPT ![Me] = (@ \ ({c} \cup Target(t))) \cup {f}]
  BY <1>3 DEF MarkRename
<1> HIDE DEF f
<1> QED
  BY <1>2, <1>4 DEF MarkRename

\* Files after a rename: one has the key, the copy's is free.
LEMMA RenameFiles ==
    ASSUME TypeInv, NEW k \in DOMAIN of, NEW f \in File, f.key = k, f.folder = "INBOX", NEW G,
           box' = [box EXCEPT ![Me] = (@ \ (G \cup Keyed(box[Me], k))) \cup {f}],
           UNCHANGED <<accounts, of>>
    PROVE  /\ FileType' /\ box'[Me] = (box[Me] \ (G \cup Keyed(box[Me], k))) \cup {f}
           /\ \A b \in Accounts \ {Me} : box'[b] = box[b]
<1>1. FileType /\ Me \in Accounts
  BY MailboxAssumption DEF TypeInv
<1> DEFINE F == (box[Me] \ (G \cup Keyed(box[Me], k))) \cup {f}
<1>2. F \in SUBSET File
  BY <1>1 DEF FileType
<1>3. \A g \in F : g.key \in DOMAIN of' /\ g.folder = "INBOX" /\ Keyed(F, g.key) = {g}
  BY <1>1 DEF FileType, Keyed
<1>4. of' \in Seq(Messages \cup {Old}) /\ Grown
  BY <1>1 DEF FileType, Grown
<1>5. box' = [box EXCEPT ![Me] = F]
  OBVIOUS
<1> HIDE DEF F
<1>6. FileType' /\ box'[Me] = F /\ \A b \in Accounts \ {Me} : box'[b] = box[b]
  BY <1>1, <1>2, <1>3, <1>4, <1>5, FilesChange
<1> QED
  BY <1>6 DEF F

\* The steps of the store.
LEMMA StoreType == ASSUME TypeInv, NEW t \in Threads, StoreStep(t) PROVE TypeInv'
<1>1. FileType /\ CallType
  BY DEF TypeInv
<1>2. ASSUME StoreOnly, Grown, FileType', CallType' PROVE TypeInv'
  BY <1>2, Untouched DEF TypeInv, StoreOnly, smtpd, users
<1>3. ASSUME StoreOnly, UNCHANGED <<box, of>>, CallType' PROVE TypeInv'
  BY <1>2, <1>3, Nothing, Untouched DEF StoreOnly, smtpd
<1>4. CASE ListKeys(t)
  <2>1. call[t] # None /\ call[t].op = "list" /\ Result(t, "keys", Mine(t)) /\ StoreOnly
        /\ UNCHANGED <<box, of>>
    BY <1>4 DEF ListKeys, At
  <2>2. Mine(t) \in SUBSET File /\ Keys(Mine(t)) \subseteq DOMAIN of'
    BY <2>1, TargetFacts
  <2> QED
    BY <1>3, <2>1, <2>2, Nothing, ResultEffect
<1>5. CASE ListRead(t)
  <2> DEFINE now == {f \in Mine(t) : f.key \in Keys(call[t].got)}
  <2>1. call[t] # None /\ call[t].op = "list" /\ StoreOnly /\ UNCHANGED <<box, of>>
    BY <1>5 DEF ListRead, At
  <2>2. Result(t, "ok", now) \/ Result(t, "failed", {})
    BY <1>5 DEF ListRead
  <2>3. now \in SUBSET File /\ Keys(now) \subseteq DOMAIN of'
    BY <2>1, TargetFacts DEF Keys
  <2>4. Keys({}) \subseteq DOMAIN of'
    BY DEF Keys
  <2> HIDE DEF now
  <2> QED
    BY <1>3, <2>1, <2>2, <2>3, <2>4, Nothing, ResultEffect
<1>6. CASE Get(t)
  BY <1>3, <1>6, Nothing, TurnEffect DEF Get, At
<1>7. CASE Delete(t)
  BY <1>2, <1>7, Nothing, TurnEffect, FilesGo DEF Delete, At, StoreOnly, smtpd
<1>8. CASE MarkAdd(t)
  <2>1. call[t] # None /\ StoreOnly /\ call[t].op = "mark" /\ call[t].folder = "INBOX"
    BY <1>1, <1>8 DEF MarkAdd, At, CallType, WellMarked
  <2>2. CASE Target(t) = {}
    BY <1>3, <1>8, <2>1, <2>2, Nothing, TurnEffect DEF MarkAdd
  <2>3. CASE Target(t) # {}
    <3>1. PICK f \in Target(t), copy \in File :
             /\ copy.key = Fresh /\ copy.folder = f.folder /\ copy.seen = TRUE
             /\ box' = [box EXCEPT ![Me] = @ \cup {copy}]
             /\ of' = Append(of, of[f.key]) /\ Result(t, "added", {copy})
      BY <1>8, <2>3, MarkAddEffect
    <3>2. of[f.key] \in Messages \cup {Old} /\ f \in box[Me] /\ Me \in Accounts
      BY <2>1, TargetFacts, MailboxAssumption
    <3>3. copy.folder = "INBOX"
      BY <1>1, <3>1, <3>2 DEF FileType
    <3>4. Grown /\ Keys({copy}) \subseteq DOMAIN of'
      BY <1>1, <3>1, <3>2, NewKey DEF Keys
    <3>5. FileType'
      BY <2>1, <3>1, <3>2, <3>3, FileComes DEF StoreOnly, smtpd
    <3> DEFINE F == {copy}
    <3>7. F \in SUBSET File /\ \E g \in File : F = {g}
      OBVIOUS
    <3> HIDE DEF F
    <3>8. Result(t, "added", F) /\ Keys(F) \subseteq DOMAIN of'
      BY <3>1, <3>4 DEF F
    <3>6. CallType'
      BY <2>1, <3>4, <3>7, <3>8, ResultEffect
    <3> QED
      BY <1>2, <2>1, <3>4, <3>5, <3>6
  <2> QED
    BY <2>2, <2>3
<1>9. CASE MarkDrop(t)
  BY <1>2, <1>9, Nothing, TurnEffect, FilesGo DEF MarkDrop, At, StoreOnly, smtpd
<1>10. CASE MarkRename(t)
  <2>1. call[t] # None /\ StoreOnly /\ call[t].op = "mark" /\ UNCHANGED of
        /\ call[t].folder = "INBOX" /\ \E c \in File : call[t].got = {c}
    BY <1>1, <1>10 DEF MarkRename, At, CallType, WellMarked
  <2>2. CASE ~(call[t].got \subseteq box[Me])
    BY <1>3, <1>10, <2>1, <2>2, Nothing, TurnEffect DEF MarkRename
  <2>3. CASE call[t].got \subseteq box[Me]
    <3>1. PICK c \in File : call[t].got = {c}
      BY <2>1
    <3>2. PICK f \in File :
             /\ f.key = call[t].key /\ f.folder = c.folder /\ f.seen = c.seen
             /\ box' = [box EXCEPT ![Me] = (@ \ ({c} \cup Target(t))) \cup {f}]
             /\ Turn(t, "ok") /\ UNCHANGED of
      BY <1>10, <2>3, <3>1, RenameEffect
    <3>3. f.folder = "INBOX" /\ Target(t) = Keyed(box[Me], call[t].key) /\ call[t].key \in DOMAIN of
      BY <1>1, <2>1, <2>3, <3>1, <3>2, TargetFacts, MailboxAssumption DEF FileType
    <3>4. box' = [box EXCEPT ![Me] = (@ \ ({c} \cup Keyed(box[Me], call[t].key))) \cup {f}]
      BY <3>2, <3>3
    <3>5. FileType'
      BY <2>1, <3>2, <3>3, <3>4, RenameFiles DEF StoreOnly, smtpd
    <3> QED
      BY <1>2, <2>1, <3>2, <3>5, Nothing, TurnEffect
  <2> QED
    BY <2>2, <2>3
<1> QED
  BY <1>4, <1>5, <1>6, <1>7, <1>8, <1>9, <1>10 DEF StoreStep

\* What is lost on the way, and kills.
LEMMA FaultType ==
    /\ \A t \in Threads : TypeInv /\ Lose(t) => TypeInv'
    /\ TypeInv /\ Kill => TypeInv'
<1>1. ASSUME UNCHANGED <<accounts, box, of, main, users>>, MailType', CallType', CountType', TypeInv
      PROVE  TypeInv'
  BY <1>1, Nothing, Untouched DEF TypeInv, users
<1>2. ASSUME TypeInv, NEW t \in Threads, Lose(t) PROVE TypeInv'
  <2>1. CallType'
    BY <1>2, Nothing, TurnEffect DEF Lose
  <2> QED
    BY <1>1, <1>2, <2>1, Nothing, Untouched, Counted DEF Lose, smtpd
<1>3. ASSUME TypeInv, Kill PROVE TypeInv'
  <2>1. CallType
    BY <1>3 DEF TypeInv
  <2>2. ASSUME NEW t \in Threads
        PROVE  \/ call'[t] = call[t]
               \/ call[t] # None /\ call'[t] = [call[t] EXCEPT !.at = "failed"]
    BY <1>3 DEF Kill
  <2>3. ASSUME NEW t \in Threads
        PROVE  /\ call'[t] \in Call \cup {None}
               /\ call'[t] # None =>
                    /\ call'[t].key \in DOMAIN of /\ Keys(call'[t].got) \subseteq DOMAIN of
                    /\ call'[t].op = "mark" => WellMarked(call'[t])
    <3>1. CASE call'[t] = call[t]
      BY <2>1, <3>1 DEF CallType, Keys, WellMarked
    <3>2. CASE call[t] # None /\ call'[t] = [call[t] EXCEPT !.at = "failed"]
      <4> DEFINE c == [call[t] EXCEPT !.at = "failed"]
      <4>1. /\ call[t] \in Call /\ call[t].key \in DOMAIN of /\ Keys(call[t].got) \subseteq DOMAIN of
            /\ call[t].op = "mark" => call[t].folder = "INBOX"
        BY <2>1, <3>2 DEF CallType, WellMarked
      <4>2. c \in Call /\ c.key = call[t].key /\ c.got = call[t].got /\ c.op = call[t].op
            /\ c.folder = call[t].folder /\ c.at = "failed"
        BY <4>1 DEF Call
      <4>3. call'[t] = c
        BY <3>2
      <4> HIDE DEF c
      <4> QED
        BY <4>1, <4>2, <4>3 DEF Keys, WellMarked
    <3> QED
      BY <2>2, <3>1, <3>2
  <2>4. call' \in [Threads -> Call \cup {None}]
    BY <1>3, <2>3, Zenon DEF Kill
  <2>5. CallType'
    BY <1>3, <2>3, <2>4 DEF Kill, CallType
  <2>6. MailType'
    BY <1>3 DEF Kill, TypeInv, MailType
  <2> QED
    BY <1>1, <1>3, <2>5, <2>6, Counted DEF Kill
<1> QED
  BY <1>2, <1>3

\* A list that the main window asks for.
LEMMA ReloadType ==
    ASSUME TypeInv, UNCHANGED of, NEW d \in Folders, NEW A \in SUBSET Nat, Reload(d, A),
           folder' \in Folders, UNCHANGED <<rows, shown, known, seeded, busy, listed>>
    PROVE  CallType' /\ MainType'
<1>1. Ask("ui", "list", d, 1) /\ "ui" \in Threads /\ Grown
  BY ThreadsThere, Nothing DEF Reload
<1>2. 1 \in DOMAIN of
  BY DEF TypeInv, FileType
<1>3. CallType'
  BY <1>1, <1>2, AskEffect
<1>4. alarm' \subseteq Nat
  BY DEF Reload
<1> QED
  BY <1>3, <1>4 DEF TypeInv, MainType, Keys

\* The messages of known keys are messages.
LEMMA OfType ==
    ASSUME TypeInv
    PROVE  /\ \A k \in DOMAIN of : of[k] \in Messages \cup {Old} /\ k \in Nat
           /\ \A K \in SUBSET DOMAIN of : Of(K) \subseteq Messages \cup {Old}
           /\ 1 \in DOMAIN of
BY DEF TypeInv, FileType, Of

\* The steps of the main window and its workers.
LEMMA MainStepType ==
    ASSUME TypeInv, \/ Reloaded \/ AutoRefresh \/ AutoDone \/ AutoFailed \/ Refresh \/ Goto
    PROVE  TypeInv'
<1>1. FileType /\ CallType /\ MainType /\ CountType
  BY DEF TypeInv
<1>2. ASSUME UNCHANGED <<smtpd, box, of, users>>, CallType', MainType', CountType'
      PROVE  TypeInv'
  BY <1>2, Nothing, Untouched DEF TypeInv, smtpd, users
<1>3. CASE Reloaded
  <2>1. call["ui"] # None /\ call["ui"] \in Call /\ Keys(call["ui"].got) \subseteq DOMAIN of
        /\ CallType' /\ UNCHANGED of
    BY <1>1, <1>3, ThreadsThere, Nothing, OverEffect DEF Reloaded, Ended, At, CallType
  <2>2. call["ui"].got \subseteq File
    BY <2>1 DEF Call
  <2>3. Keys(call["ui"].got) \subseteq Nat /\ alarm' \subseteq Nat
    BY <1>3, <2>2 DEF Keys, File, Reloaded
  <2>4. \/ rows' = call["ui"].got /\ shown' = folder
        \/ UNCHANGED <<rows, shown>>
    BY <1>3 DEF Reloaded
  <2>5. \/ UNCHANGED <<known, seeded, listed>>
        \/ /\ known' = Keys(call["ui"].got) /\ seeded' = TRUE
           /\ listed' = listed \cup Keys(call["ui"].got)
    BY <1>3 DEF Reloaded
  <2>6. MainType'
    <3>1. UNCHANGED <<folder, busy>>
      BY <1>3 DEF Reloaded
    <3>2. rows' \subseteq File /\ Keys(rows') \subseteq DOMAIN of' /\ shown' \in Folders
      BY <1>1, <2>1, <2>2, <2>4 DEF MainType, Keys
    <3>3. known' \subseteq Nat /\ seeded' \in BOOLEAN /\ listed' \subseteq DOMAIN of'
      BY <1>1, <2>1, <2>3, <2>5 DEF MainType
    <3> QED
      BY <1>1, <2>3, <3>1, <3>2, <3>3 DEF MainType, Keys
  <2> QED
    BY <1>2, <1>3, <2>1, <2>6, Nothing, Untouched DEF Reloaded
<1>4. CASE AutoRefresh
  <2>1. Ask("auto", "list", "INBOX", 1) /\ UNCHANGED <<smtpd, box, of, users, bounds>>
    BY <1>4 DEF AutoRefresh
  <2>2. CallType'
    BY <2>1, ThreadsThere, Nothing, OfType, AskEffect DEF Folders
  <2>3. MainType'
    BY <1>1, <1>4 DEF AutoRefresh, MainType, Keys
  <2> QED
    BY <1>2, <2>1, <2>2, <2>3, Nothing, Untouched
<1>5. CASE AutoDone
  <2> DEFINE keys == Keys(call["auto"].got)
             new  == IF seeded THEN keys \ known ELSE {}
             rest == [call EXCEPT !["auto"] = None]
             next == [op |-> "list", folder |-> folder, key |-> 1, at |-> "asked", got |-> {}]
  <2>1. /\ call["auto"] # None /\ busy' = FALSE
        /\ UNCHANGED <<smtpd, box, of, folder, rows, shown, known, seeded, listed, users, bounds>>
        /\ \/ call' = [rest EXCEPT !["ui"] = next] /\ alarm' = new
           \/ call' = rest /\ UNCHANGED alarm
    BY <1>5, Zenon DEF AutoDone, At
  <2>2. keys \subseteq Nat
    BY <1>1, <2>1, ThreadsThere DEF CallType, FileType
  <2>3. alarm' \subseteq Nat
    BY <1>1, <2>1, <2>2 DEF MainType
  <2>4. MainType'
    BY <1>1, <2>1, <2>3 DEF MainType, Keys
  <2>5. next \in Call /\ next.op = "list" /\ next.key = 1 /\ next.got = {}
    BY <1>1 DEF Call, MainType
  <2>6. 1 \in DOMAIN of' /\ Keys({}) = {} /\ UNCHANGED of
    BY <2>1, OfType DEF Keys
  <2> HIDE DEF next
  <2>7. rest \in [Threads -> Call \cup {None}] /\ [rest EXCEPT !["ui"] = next] \in [Threads -> Call \cup {None}]
    BY <1>1, <2>5 DEF CallType
  <2>8. \A t \in Threads : rest[t] \in {None, call[t]}
    BY <1>1 DEF CallType
  <2>9. \A t \in Threads : [rest EXCEPT !["ui"] = next][t] \in {None, next, call[t]}
    BY <2>7, <2>8
  <2>10. call' \in [Threads -> Call \cup {None}] /\ \A t \in Threads : call'[t] \in {None, next, call[t]}
    BY <2>1, <2>7, <2>8, <2>9
  <2>11. ASSUME NEW t \in Threads, call'[t] # None
         PROVE  /\ call'[t].key \in DOMAIN of' /\ Keys(call'[t].got) \subseteq DOMAIN of'
                /\ call'[t].op = "mark" => WellMarked(call'[t])
    <3>1. CASE call'[t] = next
      BY <2>5, <2>6, <3>1 DEF Keys
    <3>2. CASE call'[t] = call[t]
      BY <1>1, <2>6, <2>11, <3>2 DEF CallType, Keys, WellMarked
    <3> QED
      BY <2>10, <2>11, <3>1, <3>2
  <2>12. CallType'
    BY <2>10, <2>11 DEF CallType
  <2> QED
    BY <1>2, <2>1, <2>4, <2>12, Nothing, Untouched
<1>6. CASE AutoFailed
  <2>1. MainType'
    BY <1>1, <1>6 DEF AutoFailed, MainType, Keys
  <2> QED
    BY <1>2, <1>6, <2>1, ThreadsThere, Nothing, OverEffect, Untouched DEF AutoFailed
<1>7. CASE Refresh
  <2>1. CallType' /\ MainType'
    BY <1>1, <1>7, ReloadType DEF Refresh, MainType
  <2> QED
    BY <1>2, <1>7, <2>1, Counted DEF Refresh
<1>8. CASE Goto
  <2>1. CallType' /\ MainType'
    BY <1>1, <1>8, ReloadType DEF Goto, MainType
  <2> QED
    BY <1>2, <1>8, <2>1, Counted DEF Goto
<1> QED
  BY <1>3, <1>4, <1>5, <1>6, <1>7, <1>8

\* The steps of the message windows.
LEMMA WindowStepType ==
    ASSUME TypeInv, NEW w \in Windows, Open(w) \/ Opened(w) \/ WindowOver(w)
    PROVE  TypeInv'
<1>1. /\ FileType /\ CallType /\ MainType /\ WindowType /\ UserType /\ w \in Threads
      /\ w \notin {"ui", "auto", "del", "tui"}
  BY ThreadsThere DEF TypeInv
<1>2. ASSUME UNCHANGED <<smtpd, box, of, deletion>>, MainType', WindowType', UserType',
             CallType', CountType'
      PROVE  TypeInv'
  BY <1>2, Nothing, Untouched DEF TypeInv, smtpd
<1>3. CASE Open(w)
  <2>1. PICK f \in rows : /\ window' = [window EXCEPT ![w] = [folder |-> folder, key |-> f.key]]
                         /\ Ask(w, "get", folder, f.key)
    BY <1>3 DEF Open
  <2>2. f.key \in DOMAIN of /\ f.key \in Nat /\ folder \in Folders /\ UNCHANGED of
    BY <1>1, <1>3 DEF MainType, Keys, File, Open
  <2>3. CallType'
    BY <1>1, <2>1, <2>2, Nothing, AskEffect
  <2> DEFINE v == [folder |-> folder, key |-> f.key]
  <2>4. v \in Window /\ v.key = f.key
    BY <2>2 DEF Window
  <2> HIDE DEF v
  <2>5. window' = [window EXCEPT ![w] = v]
    BY <2>1 DEF v
  <2>6. WindowType'
    BY <1>1, <2>2, <2>4, <2>5 DEF WindowType
  <2> QED
    BY <1>2, <1>3, <2>3, <2>6, Nothing, Untouched, Counted DEF Open
<1>4. CASE Opened(w)
  <2>1. call[w] # None /\ call[w] \in Call /\ call[w].key \in DOMAIN of /\ UNCHANGED of
    BY <1>1, <1>4 DEF Opened, At, CallType
  <2>2. CASE call[w].folder = "INBOX"
    <3>1. /\ Ask(w, "mark", "INBOX", call[w].key)
          /\ rows' = {IF f.key = call[w].key THEN [f EXCEPT !.seen = TRUE] ELSE f : f \in rows}
          /\ opened' = opened \cup {of[call[w].key]}
      BY <1>4, <2>2 DEF Opened
    <3>2. CallType'
      BY <1>1, <2>1, <3>1, Nothing, AskEffect DEF Folders
    <3>3. \A f \in rows : /\ [f EXCEPT !.seen = TRUE] \in File
                         /\ [f EXCEPT !.seen = TRUE].key = f.key
      BY <1>1 DEF MainType, File
    <3>a. \A g \in rows' : \E f \in rows : g.key = f.key /\ g \in {f, [f EXCEPT !.seen = TRUE]}
      BY <3>1, <3>3
    <3>b. rows \subseteq File /\ \A f \in rows : f.key \in DOMAIN of
      BY <1>1 DEF MainType, Keys
    <3>4. rows' \subseteq File /\ Keys(rows') \subseteq DOMAIN of
      BY <3>3, <3>a, <3>b DEF Keys
    <3>5. MainType'
      BY <1>1, <1>4, <2>1, <3>4 DEF MainType, Opened, Keys
    <3>6. UserType'
      BY <1>1, <1>4, <2>1, <3>1, OfType DEF UserType, Opened
    <3> QED
      BY <1>2, <1>4, <3>2, <3>5, <3>6, Nothing, Untouched DEF Opened
  <2>3. CASE call[w].folder # "INBOX"
    <3>1. call' = [call EXCEPT ![w] = None] /\ UNCHANGED <<rows, opened>>
      BY <1>4, <2>3 DEF Opened
    <3>2. CallType'
      BY <1>1, <2>1, <3>1, Nothing, OverEffect
    <3> QED
      BY <1>2, <1>4, <3>1, <3>2, Nothing, Untouched DEF Opened, main
  <2> QED
    BY <2>2, <2>3
<1>5. CASE WindowOver(w)
  BY <1>1, <1>2, <1>5, Nothing, OverEffect, Untouched DEF WindowOver, users
<1> QED
  BY <1>3, <1>4, <1>5

\* What a deletion may change to.
LEMMA DeletionEffect ==
    ASSUME TypeInv, deletion # None
    PROVE  /\ deletion \in Deletion /\ deletion.left \subseteq DOMAIN of
           /\ \A a \in {"run", "done", "failed"} : deletion' = [deletion EXCEPT !.at = a] =>
                /\ deletion' \in Deletion /\ deletion'.at = a
                /\ UNCHANGED <<deletion.left, deletion.n, deletion.where, deletion.cancelled,
                               deletion.atCancel>>
           /\ \A k : deletion' = [deletion EXCEPT !.left = @ \ {k}, !.n = @ + 1] =>
                /\ deletion' \in Deletion /\ deletion'.left = deletion.left \ {k}
                /\ deletion'.n = deletion.n + 1
                /\ UNCHANGED <<deletion.at, deletion.where, deletion.cancelled,
                               deletion.atCancel>>
           /\ deletion' = [deletion EXCEPT !.cancelled = TRUE, !.atCancel = deletion.n] =>
                /\ deletion' \in Deletion /\ deletion'.cancelled /\ deletion'.atCancel = deletion.n
                /\ UNCHANGED <<deletion.left, deletion.n, deletion.at, deletion.where>>
           /\ deletion' = [deletion EXCEPT !.open = FALSE] =>
                /\ deletion' \in Deletion
                /\ UNCHANGED <<deletion.left, deletion.n, deletion.at, deletion.where,
                               deletion.cancelled, deletion.atCancel>>
<1>1. deletion \in Deletion /\ deletion.left \subseteq DOMAIN of
  BY DEF TypeInv, DeletionType
<1>2. ASSUME NEW a \in {"run", "done", "failed"}, deletion' = [deletion EXCEPT !.at = a]
      PROVE  /\ deletion' \in Deletion /\ deletion'.at = a
             /\ UNCHANGED <<deletion.left, deletion.n, deletion.where, deletion.cancelled,
                            deletion.atCancel>>
  BY <1>1, <1>2 DEF Deletion
<1>3. ASSUME NEW k, deletion' = [deletion EXCEPT !.left = @ \ {k}, !.n = @ + 1]
      PROVE  /\ deletion' \in Deletion /\ deletion'.left = deletion.left \ {k}
             /\ deletion'.n = deletion.n + 1
             /\ UNCHANGED <<deletion.at, deletion.where, deletion.cancelled, deletion.atCancel>>
  <2>1. deletion.left \ {k} \in SUBSET Nat /\ deletion.n + 1 \in Nat
    BY <1>1 DEF Deletion
  <2> DEFINE K == deletion.left \ {k}
             n == deletion.n + 1
  <2>2. deletion' = [deletion EXCEPT !.left = K, !.n = n]
    BY <1>3
  <2>3. K \in SUBSET Nat /\ n \in Nat
    BY <2>1
  <2> HIDE DEF K, n
  <2>4. /\ deletion' \in Deletion /\ deletion'.left = K /\ deletion'.n = n
        /\ UNCHANGED <<deletion.at, deletion.where, deletion.cancelled, deletion.atCancel>>
    BY <1>1, <2>2, <2>3 DEF Deletion
  <2> QED
    BY <2>4 DEF K, n
<1>4. ASSUME deletion' = [deletion EXCEPT !.cancelled = TRUE, !.atCancel = deletion.n]
      PROVE  /\ deletion' \in Deletion /\ deletion'.cancelled /\ deletion'.atCancel = deletion.n
             /\ UNCHANGED <<deletion.left, deletion.n, deletion.at, deletion.where>>
  BY <1>1, <1>4 DEF Deletion
<1>5. ASSUME deletion' = [deletion EXCEPT !.open = FALSE]
      PROVE  /\ deletion' \in Deletion
             /\ UNCHANGED <<deletion.left, deletion.n, deletion.at, deletion.where,
                            deletion.cancelled, deletion.atCancel>>
  BY <1>1, <1>5 DEF Deletion
<1> QED
  BY <1>1, <1>2, <1>3, <1>4, <1>5

\* The steps of a deletion.
LEMMA DeletionStepType ==
    ASSUME TypeInv, \/ DeleteNext \/ Deleted \/ Cancel \/ DialogOver \/ DeleteOver
                    \/ DeleteSelected \/ \E w \in Windows : DeleteInWindow(w)
    PROVE  TypeInv'
<1>1. /\ FileType /\ CallType /\ MainType /\ WindowType /\ DeletionType /\ UserType
      /\ {"ui", "del"} \subseteq Threads
  BY ThreadsThere DEF TypeInv
<1>2. ASSUME UNCHANGED <<smtpd, box, of, window>>, MainType', DeletionType', UserType',
             CallType', CountType'
      PROVE  TypeInv'
  BY <1>2, Nothing, Untouched DEF TypeInv, smtpd
<1>3. ASSUME NEW d \in Folders, NEW K \in SUBSET DOMAIN of, NEW where \in {"main", "window"},
             StartDelete(d, K, where)
      PROVE  TypeInv'
  <2> DEFINE e == [folder |-> d, left |-> K, where |-> where, at |-> "run", n |-> 0,
                   open |-> TRUE, cancelled |-> FALSE, atCancel |-> 0]
  <2>1. e \in Deletion /\ e.left = K
    BY OfType DEF Deletion
  <2>2. deletion' = e /\ UNCHANGED of
    BY <1>3 DEF StartDelete
  <2> HIDE DEF e
  <2>3. DeletionType'
    BY <2>1, <2>2 DEF DeletionType
  <2>4. UserType'
    BY <1>1, <1>3, OfType DEF UserType, StartDelete
  <2> QED
    BY <1>2, <1>3, <2>3, <2>4, Nothing, Untouched, Counted DEF StartDelete
<1>4. CASE DeleteSelected
  <2>1. folder \in Folders /\ Keys(rows) \in SUBSET DOMAIN of
    BY <1>1 DEF MainType
  <2> QED
    BY <1>3, <1>4, <2>1 DEF DeleteSelected
<1>5. CASE \E w \in Windows : DeleteInWindow(w)
  <2> PICK w \in Windows : DeleteInWindow(w)
    BY <1>5
  <2>1. window[w] \in Window /\ window[w].key \in DOMAIN of
    BY <1>1 DEF DeleteInWindow, WindowType
  <2>2. window[w].folder \in Folders /\ {window[w].key} \in SUBSET DOMAIN of
    BY <2>1 DEF Window
  <2> QED
    BY <1>3, <2>2 DEF DeleteInWindow
<1>6. CASE DeleteNext
  <2>0. deletion # None /\ deletion \in Deletion /\ deletion.left \subseteq DOMAIN of
        /\ deletion.folder \in Folders /\ UNCHANGED of
    BY <1>6, DeletionEffect DEF DeleteNext, Deletion
  <2>1. \/ deletion' = [deletion EXCEPT !.at = "done"] /\ UNCHANGED call
        \/ /\ \E k \in deletion.left : Ask("del", "delete", deletion.folder, k)
           /\ UNCHANGED deletion
    BY <1>6 DEF DeleteNext
  <2>2. CallType'
    BY <1>1, <2>0, <2>1, Nothing, AskEffect, Untouched
  <2>3. DeletionType'
    BY <1>1, <2>0, <2>1, DeletionEffect DEF DeletionType
  <2> QED
    BY <1>2, <1>6, <2>2, <2>3, Nothing, Untouched DEF DeleteNext
<1>7. CASE Deleted
  <2>1. deletion # None /\ UNCHANGED of
        /\ \/ deletion' = [deletion EXCEPT !.left = @ \ {call["del"].key}, !.n = @ + 1]
           \/ deletion' = [deletion EXCEPT !.at = "failed"]
    BY <1>7 DEF Deleted
  <2>2. CallType'
    BY <1>1, <1>7, Nothing, OverEffect DEF Deleted
  <2>3. DeletionType'
    BY <1>1, <2>1, DeletionEffect DEF DeletionType
  <2> QED
    BY <1>2, <1>7, <2>2, <2>3, Nothing, Untouched DEF Deleted
<1>8. CASE Cancel
  <2>1. deletion # None /\ UNCHANGED of
        /\ deletion' = [deletion EXCEPT !.cancelled = TRUE, !.atCancel = deletion.n]
    BY <1>8 DEF Cancel, DialogOpen
  <2>2. DeletionType'
    BY <1>1, <2>1, DeletionEffect DEF DeletionType
  <2> QED
    BY <1>2, <1>8, <2>2, Nothing, Untouched DEF Cancel
<1>9. CASE DialogOver
  <2>1. deletion # None /\ UNCHANGED of /\ deletion' = [deletion EXCEPT !.open = FALSE]
        /\ (Reload(folder, {}) \/ UNCHANGED <<call, alarm>>)
        /\ UNCHANGED <<folder, rows, shown, known, seeded, busy, listed>>
    BY <1>9 DEF DialogOver, DialogOpen
  <2>2. DeletionType'
    BY <1>1, <2>1, DeletionEffect DEF DeletionType
  <2>3. CallType' /\ MainType'
    <3>1. CASE Reload(folder, {})
      BY <1>1, <2>1, <3>1, ReloadType DEF MainType
    <3>2. CASE UNCHANGED <<call, alarm>>
      BY <2>1, <3>2, Nothing, Untouched DEF main
    <3> QED
      BY <2>1, <3>1, <3>2
  <2> QED
    BY <1>2, <1>9, <2>2, <2>3, Nothing, Untouched DEF DialogOver
<1>10. CASE DeleteOver
  <2>1. DeletionType'
    BY <1>10 DEF DeleteOver, DeletionType
  <2> QED
    BY <1>2, <1>10, <2>1, Nothing, Untouched DEF DeleteOver
<1> QED
  BY <1>4, <1>5, <1>6, <1>7, <1>8, <1>9, <1>10

\* The terminal program runs while it has a call.
TuiOpen == call["tui"] # None => tui # None

\* The steps of the terminal program.
LEMMA TuiStepType == ASSUME TypeInv, TuiOpen, TuiStep PROVE TypeInv'
<1>1. FileType /\ CallType /\ UserType /\ "tui" \in Threads
  BY ThreadsThere DEF TypeInv
<1>2. ASSUME TuiOnly, UserType', CallType', CountType' PROVE TypeInv'
  BY <1>2, Nothing, Untouched DEF TypeInv, TuiOnly, smtpd
<1>3. CASE TuiReload
  <2>1. PICK d \in Folders : tui' = d /\ Ask("tui", "list", d, 1)
    BY <1>3 DEF TuiReload
  <2>2. CallType' /\ UserType'
    BY <1>1, <1>3, <2>1, Nothing, OfType, AskEffect DEF UserType, TuiReload, TuiOnly
  <2> QED
    BY <1>2, <1>3, <2>2, Counted DEF TuiReload
<1>4. CASE TuiShow
  <2>1. PICK k \in DOMAIN of : Ask("tui", "get", tui, k)
    BY <1>4 DEF TuiShow
  <2>2. tui \in Folders
    BY <1>1, <1>4 DEF TuiShow, UserType
  <2>3. CallType' /\ UserType'
    BY <1>1, <1>4, <2>1, <2>2, Nothing, AskEffect, Untouched DEF TuiShow, TuiOnly
  <2> QED
    BY <1>2, <1>4, <2>3, Counted DEF TuiShow
<1>5. CASE TuiDelete
  <2>1. PICK k \in DOMAIN of : Ask("tui", "delete", tui, k) /\ chosen' = chosen \cup {of[k]}
    BY <1>5 DEF TuiDelete
  <2>2. tui \in Folders
    BY <1>1, <1>5 DEF TuiDelete, UserType
  <2>3. CallType' /\ UserType'
    BY <1>1, <1>5, <2>1, <2>2, Nothing, AskEffect, OfType DEF TuiDelete, TuiOnly, UserType
  <2> QED
    BY <1>2, <1>5, <2>3, Counted DEF TuiDelete
<1>6. CASE TuiGoesOn
  <2> DEFINE c == call["tui"]
  <2>1. c # None /\ c \in Call /\ c.key \in DOMAIN of /\ Keys(c.got) \subseteq DOMAIN of /\ UNCHANGED of
    BY <1>1, <1>6 DEF TuiGoesOn, CallType, TuiOnly
  <2>2. tui \in Folders
    BY <1>1, <2>1 DEF UserType, TuiOpen
  <2>3. \/ c.op = "list" /\ \E f \in c.got : Ask("tui", "get", tui, f.key)
        \/ c.op = "get" /\ tui = "INBOX" /\ Ask("tui", "mark", tui, c.key)
        \/ c.op = "delete" /\ Ask("tui", "list", tui, 1)
        \/ call' = [call EXCEPT !["tui"] = None]
    BY <1>6 DEF TuiGoesOn
  <2>4. opened' = opened \/ opened' = opened \cup {of[c.key]}
    BY <1>6 DEF TuiGoesOn
  <2>5. UserType'
    BY <1>1, <1>6, <2>1, <2>4, OfType DEF TuiGoesOn, UserType
  <2>6. c.got \subseteq File
    BY <2>1 DEF Call
  <2>7. CallType'
    <3>1. ASSUME NEW f \in c.got, Ask("tui", "get", tui, f.key) PROVE CallType'
      <4>1. f.key \in DOMAIN of
        BY <2>1 DEF Keys
      <4> QED
        BY <1>1, <2>1, <2>2, <3>1, <4>1, Nothing, AskEffect
    <3>2. CASE tui = "INBOX" /\ Ask("tui", "mark", tui, c.key)
      BY <1>1, <2>1, <2>2, <3>2, Nothing, AskEffect
    <3>3. CASE Ask("tui", "list", tui, 1)
      BY <1>1, <2>1, <2>2, <3>3, Nothing, OfType, AskEffect
    <3>4. CASE call' = [call EXCEPT !["tui"] = None]
      BY <1>1, <2>1, <3>4, Nothing, OverEffect
    <3> QED
      BY <2>3, <3>1, <3>2, <3>3, <3>4
  <2>8. TuiOnly /\ UNCHANGED bounds
    BY <1>6 DEF TuiGoesOn
  <2> QED
    BY <1>2, <2>1, <2>5, <2>7, <2>8, Nothing, Untouched
<1>7. CASE TuiDies
  <2>1. UserType'
    BY <1>1, <1>7 DEF TuiDies, UserType
  <2> QED
    BY <1>1, <1>2, <1>7, <2>1, Nothing, OverEffect, Untouched DEF TuiDies, TuiOnly
<1> QED
  BY <1>3, <1>4, <1>5, <1>6, <1>7 DEF TuiStep

\* A store step is about its own call.
LEMMA StoreCalls ==
    ASSUME TypeInv, NEW t \in Threads, StoreStep(t) \/ Lose(t)
    PROVE  /\ call[t] # None /\ \A u \in Threads \ {t} : call'[u] = call[u]
           /\ UNCHANGED <<smtpd, main, users>>
<1>1. call[t] # None
  BY DEF StoreStep, ListKeys, ListRead, Get, Delete, MarkAdd, MarkDrop, MarkRename, At, Lose
<1>2. \E c : call' = [call EXCEPT ![t] = c]
  BY <1>1 DEF StoreStep, ListKeys, ListRead, Get, Delete, MarkAdd, MarkDrop, MarkRename, Lose,
         Turn, Result
<1>3. call \in [Threads -> Call \cup {None}]
  BY DEF TypeInv, CallType
<1>4. UNCHANGED <<smtpd, main, users>>
  BY DEF StoreStep, ListKeys, ListRead, Get, Delete, MarkAdd, MarkDrop, MarkRename, Lose, StoreOnly
<1> QED
  BY <1>1, <1>2, <1>3, <1>4

\* What the other steps do to the calls of the terminal program: nothing.
LEMMA TuiCalls ==
    ASSUME TypeInv, [Next]_vars, ~TuiStep, ~Kill, \A t \in Threads : ~StoreStep(t) /\ ~Lose(t)
    PROVE  UNCHANGED <<call["tui"], tui>>
<1>1. call \in [Threads -> Call \cup {None}] /\ {"ui", "auto", "del", "tui"} \subseteq Threads
      /\ Windows \subseteq Threads /\ \A w \in Windows : w # "tui"
  BY ThreadsThere DEF TypeInv, CallType
<1>2. CASE SmtpStep
  BY <1>2 DEF SmtpStep, Mail, Abort, StoreOne, RemoveAccount, users
<1>3. CASE WindowStep
  <2>1. CASE Reloaded \/ AutoRefresh \/ AutoFailed
    BY <1>1, <2>1 DEF Reloaded, AutoRefresh, AutoFailed, Ask, users
  <2>2. CASE AutoDone
    BY <1>1, <2>2 DEF AutoDone, users
  <2>3. ASSUME NEW w \in Windows, Opened(w) \/ WindowOver(w) PROVE UNCHANGED <<call["tui"], tui>>
    BY <1>1, <2>3 DEF Opened, WindowOver, Ask, users
  <2>4. CASE DeleteNext \/ Deleted
    BY <1>1, <2>4 DEF DeleteNext, Deleted, Ask
  <2>5. CASE DialogOver \/ DeleteOver
    BY <1>1, <2>5 DEF DialogOver, DeleteOver, Reload, Ask
  <2> QED
    BY <1>3, <2>1, <2>2, <2>3, <2>4, <2>5 DEF WindowStep
<1>4. CASE UserStep
  <2>1. CASE Refresh \/ Goto
    BY <1>1, <2>1 DEF Refresh, Goto, Reload, Ask, users
  <2>2. ASSUME NEW w \in Windows, Open(w) PROVE UNCHANGED <<call["tui"], tui>>
    BY <1>1, <2>2 DEF Open, Ask
  <2>3. CASE DeleteSelected \/ Cancel \/ \E w \in Windows : DeleteInWindow(w)
    BY <2>3 DEF DeleteSelected, DeleteInWindow, StartDelete, Cancel
  <2> QED
    BY <1>4, <2>1, <2>2, <2>3 DEF UserStep
<1>5. CASE UNCHANGED vars
  BY <1>5 DEF vars, users
<1> QED
  BY <1>2, <1>3, <1>4, <1>5 DEF Next

\* The terminal program runs while it has a call.
LEMMA TuiOpenStep == TypeInv /\ TuiOpen /\ [Next]_vars => TuiOpen'
<1> SUFFICES ASSUME TypeInv, TuiOpen, [Next]_vars PROVE TuiOpen'
  OBVIOUS
<1>1. call \in [Threads -> Call \cup {None}] /\ "tui" \in Threads
  BY ThreadsThere DEF TypeInv, CallType
<1>2. ASSUME NEW t \in Threads, StoreStep(t) \/ Lose(t) PROVE TuiOpen'
  BY <1>1, <1>2, StoreCalls DEF TuiOpen, users
<1>3. CASE Kill
  BY <1>1, <1>3 DEF Kill, TuiOpen, users
<1>4. CASE TuiStep
  <2>1. tui \in Folders => tui # None
    BY MailboxAssumption
  <2>2. CASE TuiReload \/ TuiShow \/ TuiDelete
    BY <2>2, MailboxAssumption DEF TuiReload, TuiShow, TuiDelete, TuiOpen
  <2>3. CASE TuiGoesOn
    BY <2>3 DEF TuiGoesOn, TuiOpen
  <2>4. CASE TuiDies
    BY <1>1, <2>4 DEF TuiDies, TuiOpen
  <2> QED
    BY <1>4, <2>2, <2>3, <2>4 DEF TuiStep
<1> QED
  BY <1>2, <1>3, <1>4, TuiCalls DEF TuiOpen

\* Every step keeps the types.
LEMMA TypeStep == TypeInv /\ TuiOpen /\ [Next]_vars => TypeInv'
<1> SUFFICES ASSUME TypeInv, TuiOpen, [Next]_vars PROVE TypeInv'
  OBVIOUS
<1>1. CASE WindowStep
  BY <1>1, MainStepType, WindowStepType, DeletionStepType DEF WindowStep
<1>2. CASE UserStep
  BY <1>2, MainStepType, WindowStepType, DeletionStepType DEF UserStep
<1>3. CASE UNCHANGED vars
  BY <1>3, Nothing, Untouched DEF vars, smtpd, users, TypeInv
<1> QED
  BY <1>1, <1>2, <1>3, SmtpType, StoreType, FaultType, TuiStepType DEF Next

\* The types, at the start.
LEMMA TypeInit == Init => TypeInv /\ TuiOpen
<1> SUFFICES ASSUME Init PROVE TypeInv /\ TuiOpen
  OBVIOUS
<1> DEFINE f == [key |-> 1, folder |-> "INBOX", seen |-> TRUE]
<1>1. f \in File /\ f.key = 1 /\ f.folder = "INBOX"
  BY DEF File, Folders
<1>2. DOMAIN of = {1} /\ of # <<>> /\ of \in Seq(Messages \cup {Old})
  BY DEF Init
<1> HIDE DEF f
<1>3. box = [a \in Accounts |-> IF a = Me THEN {f} ELSE {}]
  BY DEF Init, f
<1>4. FileType
  BY <1>1, <1>2, <1>3, MailboxAssumption DEF FileType, Init, Keyed
<1>5. MailType /\ CountType
  BY DEF MailType, CountType, Init
<1>6. CallType /\ TuiOpen
  BY ThreadsThere DEF CallType, Init, TuiOpen
<1>7. MainType /\ WindowType /\ DeletionType /\ UserType
  BY DEF MainType, WindowType, DeletionType, UserType, Init, Keys, Folders
<1> QED
  BY <1>4, <1>5, <1>6, <1>7 DEF TypeInv

\* The types, at every step.
LEMMA AlwaysTyped == Spec => [](TypeInv /\ TuiOpen)
BY TypeInit, TypeStep, TuiOpenStep, PTL DEF Spec

\* The mailbox, the calls on it and the windows keep their types; a key names one
\* file, and every recipient of a transaction gets its turn.
THEOREM TypeCorrect == Spec => []TypeOK
<1>1. TypeInv => TypeOK
  <2> SUFFICES ASSUME TypeInv PROVE TypeOK
    OBVIOUS
  <2>1. listed \subseteq Nat
    BY OfType DEF TypeInv, MainType
  <2> QED
    BY <2>1 DEF TypeInv, TypeOK, FileType, MailType, CallType, MainType, WindowType, DeletionType,
           UserType, CountType
<1> QED
  BY <1>1, AlwaysTyped, PTL

-----------------------------------------------------------------------------
(* What a step may do to a call, to the files and to what users have asked for. *)

\* A call as it is made, and why.
NewCall(t) ==
    /\ call'[t] # None /\ call'[t].at = "asked" /\ call'[t].got = {}
    /\ \/ call'[t].op = "list" /\ (t = "ui" => call'[t].folder = folder')
       \/ t # "ui" /\ call'[t].op = "get"
       \/ t # "ui" /\ call'[t].op = "mark" /\ of[call'[t].key] \in opened'
       \/ t = "tui" /\ call'[t].op = "delete" /\ of[call'[t].key] \in chosen'
       \/ /\ t = "del" /\ call'[t].op = "delete" /\ DeleteNext
          /\ deletion # None /\ call'[t].key \in deletion.left

\* A call stays, is over, is worked on, fails with its server or is a new one.
CallSteps(t) ==
    \/ call'[t] = call[t]
    \/ call'[t] = None
    \/ StoreStep(t) \/ Lose(t)
    \/ /\ Kill /\ call[t] # None /\ call[t].at \notin {"ok", "failed"}
       /\ call'[t] = [call[t] EXCEPT !.at = "failed"]
    \/ NewCall(t)

\* A list that the main window asks for is a new call, of its folder.
LEMMA ReloadCalls ==
    ASSUME TypeInv, UNCHANGED of, NEW d \in Folders, NEW A, Reload(d, A), folder' = d,
           NEW t \in Threads
    PROVE  CallSteps(t)
<1>1. Ask("ui", "list", d, 1) /\ "ui" \in Threads /\ Grown /\ 1 \in DOMAIN of
  BY ThreadsThere, Nothing, OfType DEF Reload
<1>2. /\ call'["ui"] # None /\ call'["ui"].op = "list" /\ call'["ui"].folder = d
      /\ call'["ui"].at = "asked" /\ call'["ui"].got = {}
      /\ \A u \in Threads \ {"ui"} : call'[u] = call[u]
  BY <1>1, AskEffect
<1> QED
  BY <1>1, <1>2 DEF CallSteps, NewCall

\* Every step treats a call in one of these ways.
LEMMA CallsChange ==
    ASSUME TypeInv, TuiOpen, [Next]_vars, NEW t \in Threads
    PROVE  CallSteps(t)
<1>1. /\ call \in [Threads -> Call \cup {None}] /\ folder \in Folders
      /\ {"ui", "auto", "del", "tui"} \subseteq Threads
      /\ Windows \subseteq Threads /\ \A w \in Windows : w \notin {"ui", "auto", "del", "tui"}
  BY ThreadsThere DEF TypeInv, CallType, MainType
<1>a. ASSUME UNCHANGED call PROVE CallSteps(t)
  BY <1>a DEF CallSteps
<1>b. ASSUME NEW u \in Threads, call' = [call EXCEPT ![u] = None] PROVE CallSteps(t)
  BY <1>1, <1>b DEF CallSteps
<1>2. CASE SmtpStep
  BY <1>2, <1>a DEF SmtpStep, Mail, Abort, StoreOne, RemoveAccount
<1>3. ASSUME NEW u \in Threads, StoreStep(u) \/ Lose(u) PROVE CallSteps(t)
  BY <1>3, StoreCalls DEF CallSteps
<1>4. CASE Kill
  <2>1. call'[t] = IF t = "tui" \/ call[t] = None THEN call[t]
                   ELSE IF call[t].at \in {"ok", "failed"} THEN call[t]
                   ELSE [call[t] EXCEPT !.at = "failed"]
    BY <1>4 DEF Kill
  <2> QED
    BY <1>4, <2>1 DEF CallSteps
<1>5. CASE Reloaded \/ AutoFailed \/ Deleted \/ TuiDies
  BY <1>1, <1>5, <1>b DEF Reloaded, AutoFailed, Deleted, TuiDies
<1>6. CASE AutoRefresh
  <2>1. Ask("auto", "list", "INBOX", 1) /\ Grown /\ "INBOX" \in Folders /\ 1 \in DOMAIN of
    BY <1>6, OfType, Nothing DEF AutoRefresh, Folders
  <2>2. /\ call'["auto"] # None /\ call'["auto"].op = "list"
        /\ call'["auto"].at = "asked" /\ call'["auto"].got = {}
        /\ \A u \in Threads \ {"auto"} : call'[u] = call[u]
    BY <1>1, <2>1, AskEffect
  <2> QED
    BY <2>2 DEF CallSteps, NewCall
<1>7. CASE AutoDone
  <2> DEFINE rest == [call EXCEPT !["auto"] = None]
             next == [op |-> "list", folder |-> folder, key |-> 1, at |-> "asked", got |-> {}]
  <2>1. folder' = folder /\ (call' = [rest EXCEPT !["ui"] = next] \/ call' = rest)
    BY <1>7 DEF AutoDone
  <2>2. next \in Call /\ next # None
    BY <1>1, MailboxAssumption DEF Call
  <2>3. next.op = "list" /\ next.folder = folder /\ next.at = "asked" /\ next.got = {}
    OBVIOUS
  <2> HIDE DEF next
  <2>4. call'[t] \in {None, call[t]} \/ (t = "ui" /\ call'[t] = next)
    BY <1>1, <2>1
  <2> QED
    BY <2>1, <2>2, <2>3, <2>4 DEF CallSteps, NewCall
<1>8. CASE Refresh
  BY <1>1, <1>8, ReloadCalls DEF Refresh
<1>9. CASE Goto
  BY <1>1, <1>9, ReloadCalls DEF Goto
<1>10. ASSUME NEW w \in Windows, Open(w) PROVE CallSteps(t)
  <2>1. PICK f \in rows : Ask(w, "get", folder, f.key)
    BY <1>10 DEF Open
  <2>2. f.key \in DOMAIN of /\ Grown
    BY <1>10, Nothing DEF TypeInv, MainType, Keys, Open
  <2>3. /\ call'[w] # None /\ call'[w].op = "get" /\ call'[w].at = "asked" /\ call'[w].got = {}
        /\ \A u \in Threads \ {w} : call'[u] = call[u]
    BY <1>1, <2>1, <2>2, AskEffect
  <2> QED
    BY <1>1, <2>3 DEF CallSteps, NewCall
<1>11. ASSUME NEW w \in Windows, Opened(w) PROVE CallSteps(t)
  <2>1. call[w] # None /\ call[w].key \in DOMAIN of /\ Grown
    BY <1>1, <1>11, Nothing DEF TypeInv, CallType, Opened, At
  <2>2. CASE call[w].folder = "INBOX"
    <3>1. Ask(w, "mark", "INBOX", call[w].key) /\ opened' = opened \cup {of[call[w].key]}
      BY <1>11, <2>2 DEF Opened
    <3>2. /\ call'[w] # None /\ call'[w].op = "mark" /\ call'[w].at = "asked" /\ call'[w].got = {}
          /\ call'[w].key = call[w].key /\ \A u \in Threads \ {w} : call'[u] = call[u]
      BY <1>1, <2>1, <3>1, AskEffect DEF Folders
    <3> QED
      BY <1>1, <3>1, <3>2 DEF CallSteps, NewCall
  <2>3. CASE call[w].folder # "INBOX"
    BY <1>1, <1>11, <1>b, <2>3 DEF Opened
  <2> QED
    BY <2>2, <2>3
<1>12. ASSUME NEW w \in Windows, WindowOver(w) PROVE CallSteps(t)
  BY <1>1, <1>12, <1>b DEF WindowOver
<1>13. CASE DeleteSelected \/ Cancel \/ DeleteOver \/ \E w \in Windows : DeleteInWindow(w)
  BY <1>a, <1>13 DEF DeleteSelected, DeleteInWindow, StartDelete, Cancel, DeleteOver
<1>14. CASE DeleteNext
  <2>1. CASE UNCHANGED call
    BY <1>a, <2>1
  <2>2. CASE ~UNCHANGED call
    <3>1. PICK k \in deletion.left : Ask("del", "delete", deletion.folder, k)
      BY <1>14, <2>2 DEF DeleteNext
    <3>2. deletion # None /\ k \in DOMAIN of /\ deletion.folder \in Folders /\ Grown
      BY <1>14, DeletionEffect, Nothing DEF DeleteNext, Deletion
    <3>3. /\ call'["del"] # None /\ call'["del"].op = "delete" /\ call'["del"].at = "asked"
          /\ call'["del"].got = {} /\ call'["del"].key = k
          /\ \A u \in Threads \ {"del"} : call'[u] = call[u]
      BY <1>1, <3>1, <3>2, AskEffect
    <3> QED
      BY <1>1, <1>14, <3>2, <3>3 DEF CallSteps, NewCall
  <2> QED
    BY <2>1, <2>2
<1>15. CASE DialogOver
  <2>1. Reload(folder, {}) \/ UNCHANGED call
    BY <1>15 DEF DialogOver
  <2> QED
    BY <1>1, <1>15, <1>a, <2>1, ReloadCalls DEF DialogOver
<1>16. CASE TuiReload \/ TuiShow \/ TuiDelete
  <2>1. tui \in Folders \cup {None} /\ Grown
    BY <1>16, Nothing DEF TypeInv, UserType, TuiReload, TuiShow, TuiDelete, TuiOnly
  <2>2. ASSUME NEW op \in {"list", "get"}, NEW d \in Folders, NEW k \in DOMAIN of,
               Ask("tui", op, d, k)
        PROVE  CallSteps(t)
    <3>1. /\ call'["tui"] # None /\ call'["tui"].op = op /\ call'["tui"].at = "asked"
          /\ call'["tui"].got = {} /\ \A u \in Threads \ {"tui"} : call'[u] = call[u]
      BY <1>1, <2>1, <2>2, AskEffect
    <3> QED
      BY <1>1, <3>1 DEF CallSteps, NewCall
  <2>3. CASE TuiReload
    BY <2>2, <2>3, OfType DEF TuiReload
  <2>4. CASE TuiShow
    BY <2>1, <2>2, <2>4 DEF TuiShow
  <2>5. CASE TuiDelete
    <3>1. PICK k \in DOMAIN of : Ask("tui", "delete", tui, k) /\ chosen' = chosen \cup {of[k]}
      BY <2>5 DEF TuiDelete
    <3>2. tui \in Folders
      BY <2>1, <2>5 DEF TuiDelete
    <3>3. /\ call'["tui"] # None /\ call'["tui"].op = "delete" /\ call'["tui"].at = "asked"
          /\ call'["tui"].got = {} /\ call'["tui"].key = k
          /\ \A u \in Threads \ {"tui"} : call'[u] = call[u]
      BY <1>1, <2>1, <3>1, <3>2, AskEffect
    <3> QED
      BY <1>1, <3>1, <3>3 DEF CallSteps, NewCall
  <2> QED
    BY <1>16, <2>3, <2>4, <2>5
<1>17. CASE TuiGoesOn
  <2> DEFINE c == call["tui"]
  <2>1. c # None /\ c \in Call /\ c.key \in DOMAIN of /\ Keys(c.got) \subseteq DOMAIN of /\ Grown
    BY <1>1, <1>17, Nothing DEF TypeInv, TuiGoesOn, CallType, TuiOnly
  <2>2. tui \in Folders
    BY <2>1 DEF TypeInv, UserType, TuiOpen
  <2>3. ASSUME NEW op \in {"list", "get"}, NEW k \in DOMAIN of, Ask("tui", op, tui, k)
        PROVE  CallSteps(t)
    <3>1. /\ call'["tui"] # None /\ call'["tui"].op = op /\ call'["tui"].at = "asked"
          /\ call'["tui"].got = {} /\ \A u \in Threads \ {"tui"} : call'[u] = call[u]
      BY <1>1, <2>1, <2>2, <2>3, AskEffect
    <3> QED
      BY <1>1, <3>1 DEF CallSteps, NewCall
  <2>4. CASE c.op = "get" /\ tui = "INBOX" /\ Ask("tui", "mark", tui, c.key)
    <3>1. opened' = opened \cup {of[c.key]}
      BY <1>17, <2>4 DEF TuiGoesOn
    <3>2. /\ call'["tui"] # None /\ call'["tui"].op = "mark" /\ call'["tui"].at = "asked"
          /\ call'["tui"].got = {} /\ call'["tui"].key = c.key
          /\ \A u \in Threads \ {"tui"} : call'[u] = call[u]
      BY <1>1, <2>1, <2>2, <2>4, AskEffect
    <3> QED
      BY <1>1, <3>1, <3>2 DEF CallSteps, NewCall
  <2>5. \/ \E f \in c.got : Ask("tui", "get", tui, f.key)
        \/ c.op = "get" /\ tui = "INBOX" /\ Ask("tui", "mark", tui, c.key)
        \/ Ask("tui", "list", tui, 1)
        \/ call' = [call EXCEPT !["tui"] = None]
    BY <1>17 DEF TuiGoesOn
  <2>6. \A f \in c.got : f.key \in DOMAIN of
    BY <2>1 DEF Keys
  <2> QED
    BY <1>1, <1>b, <2>3, <2>4, <2>5, <2>6, OfType
<1>18. CASE UNCHANGED vars
  BY <1>18, <1>a DEF vars
<1> QED
  BY <1>2, <1>3, <1>4, <1>5, <1>6, <1>7, <1>8, <1>9, <1>10, <1>11, <1>12, <1>13, <1>14, <1>15,
     <1>16, <1>17, <1>18 DEF Next, WindowStep, UserStep, TuiStep

\* Files change by a transaction or by one of four operations of the store.
LEMMA FilesSteps ==
    ASSUME [Next]_vars
    PROVE  \/ UNCHANGED <<box, of>> \/ StoreOne
           \/ \E t \in Threads : Delete(t) \/ MarkAdd(t) \/ MarkDrop(t) \/ MarkRename(t)
<1>1. CASE SmtpStep
  BY <1>1 DEF SmtpStep, Mail, Abort, RemoveAccount
<1>2. ASSUME NEW t \in Threads, StoreStep(t) \/ Lose(t)
      PROVE  \/ UNCHANGED <<box, of>>
             \/ Delete(t) \/ MarkAdd(t) \/ MarkDrop(t) \/ MarkRename(t)
  BY <1>2 DEF StoreStep, Lose, ListKeys, ListRead, Get
<1>3. CASE WindowStep
  BY <1>3 DEF WindowStep, Reloaded, AutoRefresh, AutoDone, AutoFailed, Opened, WindowOver,
         DeleteNext, Deleted, DialogOver, DeleteOver
<1>4. CASE UserStep
  BY <1>4 DEF UserStep, Refresh, Goto, DeleteSelected, StartDelete, Cancel, Open, DeleteInWindow
<1>5. CASE TuiStep
  BY <1>5 DEF TuiStep, TuiReload, TuiShow, TuiDelete, TuiGoesOn, TuiDies, TuiOnly
<1>6. CASE Kill \/ UNCHANGED vars
  BY <1>6 DEF Kill, vars
<1> QED
  BY <1>1, <1>2, <1>3, <1>4, <1>5, <1>6 DEF Next

\* A copy is made under a new key, or nothing is.
LEMMA MarkAddFacts ==
    ASSUME TypeInv, NEW t \in Threads, MarkAdd(t)
    PROVE  /\ call[t] # None /\ call[t].op = "mark" /\ call[t].at = "asked"
           /\ UNCHANGED <<smtpd, main, users>>
           /\ \/ UNCHANGED <<box, of>> /\ (call'[t] = None \/ call'[t].at = "failed")
              \/ \E f \in box[Me], c \in File :
                    /\ f.key = call[t].key /\ c.key = Fresh
                    /\ of[f.key] \in Messages \cup {Old} /\ of' = Append(of, of[f.key])
                    /\ box'[Me] = box[Me] \cup {c}
                    /\ \A a \in Accounts \ {Me} : box'[a] = box[a]
                    /\ call'[t] # None /\ call'[t].op = "mark" /\ call'[t].at = "added"
                    /\ call'[t].key = call[t].key /\ call'[t].got = {c}
<1>1. /\ call[t] # None /\ call[t].op = "mark" /\ call[t].at = "asked"
      /\ UNCHANGED <<smtpd, main, users>> /\ call \in [Threads -> Call \cup {None}]
      /\ call[t].folder = "INBOX"
  BY DEF TypeInv, CallType, WellMarked, MarkAdd, At, StoreOnly
<1>2. CASE Target(t) = {}
  <2>1. Turn(t, "failed") /\ UNCHANGED <<box, of>>
    BY <1>2 DEF MarkAdd
  <2> QED
    BY <1>1, <2>1, Nothing, TurnEffect
<1>3. CASE Target(t) # {}
  <2>1. PICK f \in Target(t), c \in File :
           /\ c.key = Fresh /\ c.folder = f.folder /\ c.seen = TRUE
           /\ box' = [box EXCEPT ![Me] = @ \cup {c}]
           /\ of' = Append(of, of[f.key]) /\ Result(t, "added", {c})
    BY <1>3, MarkAddEffect
  <2>2. f \in box[Me] /\ f.key = call[t].key /\ of[f.key] \in Messages \cup {Old}
        /\ box \in [Accounts -> SUBSET File] /\ Me \in Accounts
    BY <1>1, TargetFacts, MailboxAssumption DEF TypeInv, FileType
  <2>3. box'[Me] = box[Me] \cup {c} /\ \A a \in Accounts \ {Me} : box'[a] = box[a]
    BY <2>1, <2>2
  <2> DEFINE F == {c}
  <2>4. F \in SUBSET File /\ \E g \in File : F = {g}
    OBVIOUS
  <2>5. Grown /\ Keys(F) \subseteq DOMAIN of'
    BY <2>1, <2>2, NewKey DEF Keys, TypeInv
  <2> HIDE DEF F
  <2>6. Result(t, "added", F)
    BY <2>1 DEF F
  <2>7. /\ call'[t] # None /\ call'[t].op = "mark" /\ call'[t].at = "added"
        /\ call'[t].key = call[t].key /\ call'[t].got = F
    BY <1>1, <2>4, <2>5, <2>6, ResultEffect
  <2> QED
    BY <1>1, <2>1, <2>2, <2>3, <2>7 DEF F
<1> QED
  BY <1>1, <1>2, <1>3

\* The old file goes.
LEMMA MarkDropFacts ==
    ASSUME TypeInv, NEW t \in Threads, MarkDrop(t)
    PROVE  /\ call[t] # None /\ call[t].op = "mark" /\ call[t].at = "added"
           /\ UNCHANGED <<smtpd, main, users, of>>
           /\ box'[Me] = box[Me] \ Keyed(box[Me], call[t].key)
           /\ \A a \in Accounts \ {Me} : box'[a] = box[a]
           /\ call'[t] # None /\ call'[t].op = "mark" /\ call'[t].at = "dropped"
           /\ call'[t].key = call[t].key /\ call'[t].got = call[t].got
<1>1. /\ call[t] # None /\ call[t].op = "mark" /\ call[t].at = "added"
      /\ UNCHANGED <<smtpd, main, users, of>> /\ call[t].folder = "INBOX"
      /\ Turn(t, "dropped") /\ box' = [box EXCEPT ![Me] = @ \ Target(t)]
  BY DEF TypeInv, CallType, WellMarked, MarkDrop, At, StoreOnly
<1>2. Target(t) = Keyed(box[Me], call[t].key)
  BY <1>1, TargetFacts
<1>3. box'[Me] = box[Me] \ Target(t) /\ \A a \in Accounts \ {Me} : box'[a] = box[a]
  BY <1>1, FilesGo DEF smtpd
<1>4. /\ call'[t] # None /\ call'[t].op = "mark" /\ call'[t].at = "dropped"
      /\ call'[t].key = call[t].key /\ call'[t].got = call[t].got
  BY <1>1, Nothing, TurnEffect
<1> QED
  BY <1>1, <1>2, <1>3, <1>4

\* The copy takes the key, or is not there.
LEMMA MarkRenameFacts ==
    ASSUME TypeInv, NEW t \in Threads, MarkRename(t)
    PROVE  /\ call[t] # None /\ call[t].op = "mark" /\ call[t].at = "dropped"
           /\ UNCHANGED <<smtpd, main, users, of>>
           /\ call'[t] = None \/ call'[t].at \in {"ok", "failed"}
           /\ \/ UNCHANGED box
              \/ \E c \in box[Me], f \in File :
                    /\ call[t].got = {c} /\ f.key = call[t].key
                    /\ box'[Me] = (box[Me] \ ({c} \cup Keyed(box[Me], call[t].key))) \cup {f}
                    /\ \A a \in Accounts \ {Me} : box'[a] = box[a]
<1>1. /\ call[t] # None /\ call[t].op = "mark" /\ call[t].at = "dropped"
      /\ UNCHANGED <<smtpd, main, users, of>> /\ call[t].folder = "INBOX"
      /\ \E c \in File : call[t].got = {c}
  BY DEF TypeInv, CallType, WellMarked, MarkRename, At, StoreOnly
<1>2. Turn(t, "ok") \/ Turn(t, "failed")
  BY DEF MarkRename
<1>3. call'[t] = None \/ call'[t].at \in {"ok", "failed"}
  BY <1>1, <1>2, Nothing, TurnEffect
<1>4. CASE ~(call[t].got \subseteq box[Me])
  BY <1>1, <1>3, <1>4 DEF MarkRename
<1>5. CASE call[t].got \subseteq box[Me]
  <2>1. PICK c \in File : call[t].got = {c}
    BY <1>1
  <2>2. PICK f \in File :
           /\ f.key = call[t].key /\ f.folder = c.folder /\ f.seen = c.seen
           /\ box' = [box EXCEPT ![Me] = (@ \ ({c} \cup Target(t))) \cup {f}]
           /\ Turn(t, "ok") /\ UNCHANGED of
    BY <1>5, <2>1, RenameEffect
  <2>3. /\ f.folder = "INBOX" /\ Target(t) = Keyed(box[Me], call[t].key)
        /\ call[t].key \in DOMAIN of /\ c \in box[Me]
    BY <1>1, <1>5, <2>1, <2>2, TargetFacts, MailboxAssumption DEF TypeInv, FileType
  <2>4. box' = [box EXCEPT ![Me] = (@ \ ({c} \cup Keyed(box[Me], call[t].key))) \cup {f}]
    BY <2>2, <2>3
  <2>5. /\ box'[Me] = (box[Me] \ ({c} \cup Keyed(box[Me], call[t].key))) \cup {f}
        /\ \A a \in Accounts \ {Me} : box'[a] = box[a]
    BY <1>1, <2>2, <2>3, <2>4, RenameFiles DEF smtpd
  <2> QED
    BY <1>1, <1>3, <2>1, <2>2, <2>3, <2>5
<1> QED
  BY <1>4, <1>5

\* A deletion.
LEMMA DeleteFacts ==
    ASSUME TypeInv, NEW t \in Threads, Delete(t)
    PROVE  /\ call[t] # None /\ call[t].op = "delete"
           /\ UNCHANGED <<smtpd, main, users, of>>
           /\ call'[t] = None \/ call'[t].at = "ok"
           /\ box'[Me] = box[Me] \ Target(t) /\ \A a \in Accounts \ {Me} : box'[a] = box[a]
           /\ Target(t) \subseteq Keyed(box[Me], call[t].key)
<1>1. /\ call[t] # None /\ call[t].op = "delete" /\ UNCHANGED <<smtpd, main, users, of>>
      /\ Turn(t, "ok") /\ box' = [box EXCEPT ![Me] = @ \ Target(t)]
  BY DEF Delete, At, StoreOnly
<1>2. box'[Me] = box[Me] \ Target(t) /\ \A a \in Accounts \ {Me} : box'[a] = box[a]
  BY <1>1, FilesGo DEF smtpd
<1>3. call'[t] = None \/ call'[t].at = "ok"
  BY <1>1, Nothing, TurnEffect
<1>4. Target(t) \subseteq Keyed(box[Me], call[t].key)
  BY DEF Target, Mine, In, Keyed
<1> QED
  BY <1>1, <1>2, <1>3, <1>4

\* A message for the recipient whose turn it is.
LEMMA StoreOneFacts ==
    ASSUME TypeInv, StoreOne
    PROVE  /\ mail # None /\ mail \in Transaction /\ mail.i \in DOMAIN mail.rcpts
           /\ mail.rcpts \in Seq(Accounts) /\ mail.msg \in Messages
           /\ UNCHANGED <<accounts, call, main, users>> /\ Grown
           /\ \A a \in Accounts : box[a] \subseteq box'[a]
           /\ mail.rcpts[mail.i] \in accounts =>
                 \E f \in box'[mail.rcpts[mail.i]] : f.key \in DOMAIN of' /\ of'[f.key] = mail.msg
<1>1. /\ mail \in Transaction /\ mail.i \in DOMAIN mail.rcpts /\ mail # None
      /\ UNCHANGED <<accounts, call, main, users>> /\ box \in [Accounts -> SUBSET File]
  BY DEF StoreOne, TypeInv, MailType, FileType
<1>2. mail.rcpts \in Seq(Accounts) /\ mail.msg \in Messages
  BY <1>1 DEF Transaction
<1> DEFINE a == mail.rcpts[mail.i]
           f == [key |-> Fresh, folder |-> "INBOX", seen |-> FALSE]
<1>3. a \in Accounts
  BY <1>1, <1>2
<1>4. CASE a \in accounts
  <2>1. box' = [box EXCEPT ![a] = @ \cup {f}] /\ of' = Append(of, mail.msg)
    BY <1>4 DEF StoreOne, AddIncoming
  <2>2. f.key = Fresh
    OBVIOUS
  <2> HIDE DEF a, f
  <2>3. box'[a] = box[a] \cup {f} /\ \A b \in Accounts \ {a} : box'[b] = box[b]
    BY <1>1, <1>3, <2>1
  <2>4. Grown /\ Fresh \in DOMAIN of' /\ of'[Fresh] = mail.msg
    BY <1>2, <2>1, NewKey DEF TypeInv
  <2>5. \E g \in box'[a] : g.key \in DOMAIN of' /\ of'[g.key] = mail.msg
    BY <2>2, <2>3, <2>4
  <2> QED
    BY <1>1, <1>2, <2>3, <2>4, <2>5 DEF a
<1>5. CASE a \notin accounts
  BY <1>1, <1>2, <1>5, Nothing DEF StoreOne
<1> QED
  BY <1>4, <1>5

\* A call that is worked on stays the call it is.
LEMMA StoreKeeps ==
    ASSUME TypeInv, NEW t \in Threads, StoreStep(t) \/ Lose(t), call'[t] # None
    PROVE  call[t] # None /\ UNCHANGED <<call[t].op, call[t].folder, call[t].key>>
<1>1. ASSUME NEW a \in {"asked", "keys", "dropped", "ok", "failed"}, Turn(t, a), call[t] # None,
             a = "dropped" => call[t].at = "added"
      PROVE  UNCHANGED <<call[t].op, call[t].folder, call[t].key>>
  <2>1. call \in [Threads -> Call \cup {None}] /\ call[t] \in Call
    BY <1>1 DEF TypeInv, CallType
  <2> DEFINE c == [call[t] EXCEPT !.at = a]
  <2>2. c.op = call[t].op /\ c.folder = call[t].folder /\ c.key = call[t].key
    BY <2>1 DEF Call
  <2>3. call'[t] = None \/ call'[t] = c
    BY <1>1, <2>1 DEF Turn
  <2> QED
    BY <2>2, <2>3
<1>2. ASSUME NEW a, NEW F, Result(t, a, F), call[t] # None
      PROVE  UNCHANGED <<call[t].op, call[t].folder, call[t].key>>
  <2>1. call \in [Threads -> Call \cup {None}] /\ call[t] \in Call
    BY <1>2 DEF TypeInv, CallType
  <2> DEFINE c == [call[t] EXCEPT !.at = a, !.got = F]
  <2>2. c.op = call[t].op /\ c.folder = call[t].folder /\ c.key = call[t].key
    BY <2>1 DEF Call
  <2>3. call'[t] = c
    BY <1>2, <2>1 DEF Result
  <2> QED
    BY <2>2, <2>3
<1>3. call[t] # None
  BY StoreCalls
<1>4. CASE ListKeys(t) \/ ListRead(t)
  BY <1>2, <1>3, <1>4 DEF ListKeys, ListRead
<1>5. CASE Get(t) \/ Delete(t) \/ Lose(t)
  BY <1>1, <1>3, <1>5 DEF Get, Delete, Lose
<1>6. CASE MarkAdd(t)
  BY <1>1, <1>2, <1>3, <1>6 DEF MarkAdd
<1>7. CASE MarkDrop(t) \/ MarkRename(t)
  BY <1>1, <1>3, <1>7 DEF MarkDrop, MarkRename, At
<1> QED
  BY <1>3, <1>4, <1>5, <1>6, <1>7 DEF StoreStep

\* What only grows, and what only shrinks.
LEMMA OnlyGrows ==
    ASSUME TypeInv, [Next]_vars
    PROVE  Grown /\ chosen \subseteq chosen' /\ opened \subseteq opened' /\ accounts' \subseteq accounts
<1>1. Grown
  <2>1. ASSUME NEW t \in Threads, MarkAdd(t) PROVE Grown
    BY <2>1, MarkAddFacts, NewKey, Nothing DEF TypeInv
  <2>2. ASSUME NEW t \in Threads, Delete(t) \/ MarkDrop(t) \/ MarkRename(t) PROVE UNCHANGED of
    BY <2>2 DEF Delete, MarkDrop, MarkRename
  <2> QED
    BY <2>1, <2>2, FilesSteps, StoreOneFacts, Nothing
<1>2. ASSUME NEW t \in Threads, StoreStep(t) \/ Lose(t) PROVE UNCHANGED <<chosen, opened, accounts>>
  BY <1>2, StoreCalls DEF users, smtpd
<1>3. CASE SmtpStep
  BY <1>1, <1>3 DEF SmtpStep, Mail, Abort, StoreOne, RemoveAccount, users
<1>4. CASE WindowStep
  BY <1>1, <1>4 DEF WindowStep, Reloaded, AutoRefresh, AutoDone, AutoFailed, Opened, WindowOver,
         DeleteNext, Deleted, DialogOver, DeleteOver, users, smtpd
<1>5. CASE UserStep
  BY <1>1, <1>5 DEF UserStep, Refresh, Goto, DeleteSelected, StartDelete, Cancel, Open,
         DeleteInWindow, users, smtpd
<1>6. CASE TuiStep
  BY <1>1, <1>6 DEF TuiStep, TuiReload, TuiShow, TuiDelete, TuiGoesOn, TuiDies, TuiOnly, smtpd
<1>7. CASE Kill \/ UNCHANGED vars
  BY <1>1, <1>7 DEF Kill, vars, users, smtpd
<1> QED
  BY <1>1, <1>2, <1>3, <1>4, <1>5, <1>6, <1>7 DEF Next

\* What is deleted users have asked to delete, and what is marked they have opened.
AskedFor ==
    /\ \A t \in Threads : call[t] # None =>
         /\ call[t].op = "delete" => of[call[t].key] \in chosen
         /\ call[t].op = "mark" => of[call[t].key] \in opened
    /\ deletion # None => \A k \in deletion.left : of[k] \in chosen

\* Which steps are about the deletion.
LEMMA DeletionSteps ==
    ASSUME TypeInv, [Next]_vars
    PROVE  \/ UNCHANGED deletion \/ DeleteNext \/ Deleted \/ Cancel \/ DialogOver \/ DeleteOver
           \/ DeleteSelected \/ \E w \in Windows : DeleteInWindow(w)
<1>1. CASE SmtpStep
  BY <1>1 DEF SmtpStep, Mail, Abort, StoreOne, RemoveAccount, users
<1>2. ASSUME NEW t \in Threads, StoreStep(t) \/ Lose(t) PROVE UNCHANGED deletion
  BY <1>2, StoreCalls DEF users
<1>3. CASE WindowStep
  BY <1>3 DEF WindowStep, Reloaded, AutoRefresh, AutoDone, AutoFailed, Opened,
         WindowOver, users
<1>4. CASE UserStep
  BY <1>4 DEF UserStep, Refresh, Goto, Open, users
<1>5. CASE TuiStep
  BY <1>5 DEF TuiStep, TuiReload, TuiShow, TuiDelete, TuiGoesOn, TuiDies, TuiOnly
<1>6. CASE Kill \/ UNCHANGED vars
  BY <1>6 DEF Kill, vars, users
<1> QED
  BY <1>1, <1>2, <1>3, <1>4, <1>5, <1>6 DEF Next

\* The messages of a deletion under way stay those that were chosen.
LEMMA DeletionLeft ==
    ASSUME TypeInv, [Next]_vars, deletion' # None
    PROVE  \/ deletion # None /\ deletion'.left \subseteq deletion.left
           \/ Of(deletion'.left) \subseteq chosen' /\ UNCHANGED of /\ deletion'.left \subseteq DOMAIN of
<1>1. CASE UNCHANGED deletion
  BY <1>1
<1>2. CASE DeleteNext
  BY <1>2, DeletionEffect DEF DeleteNext
<1>3. CASE Deleted
  BY <1>3, DeletionEffect DEF Deleted
<1>4. CASE Cancel
  BY <1>4, DeletionEffect DEF Cancel, DialogOpen
<1>5. CASE DialogOver
  BY <1>5, DeletionEffect DEF DialogOver, DialogOpen
<1>6. CASE DeleteOver
  BY <1>6 DEF DeleteOver
<1>7. ASSUME NEW d, NEW K \in SUBSET DOMAIN of, NEW where, StartDelete(d, K, where)
      PROVE  Of(deletion'.left) \subseteq chosen' /\ UNCHANGED of /\ deletion'.left \subseteq DOMAIN of
  BY <1>7 DEF StartDelete
<1>8. CASE DeleteSelected
  BY <1>7, <1>8 DEF DeleteSelected, TypeInv, MainType
<1>9. CASE \E w \in Windows : DeleteInWindow(w)
  BY <1>7, <1>9 DEF DeleteInWindow, TypeInv, WindowType
<1> QED
  BY <1>1, <1>2, <1>3, <1>4, <1>5, <1>6, <1>8, <1>9, DeletionSteps

\* Every step leaves what is deleted or marked asked for.
LEMMA AskedForStep == TypeInv /\ TuiOpen /\ AskedFor /\ [Next]_vars => AskedFor'
<1> SUFFICES ASSUME TypeInv, TuiOpen, AskedFor, [Next]_vars PROVE AskedFor'
  OBVIOUS
<1>1. Grown /\ chosen \subseteq chosen' /\ opened \subseteq opened'
  BY OnlyGrows
<1>2. \A t \in Threads : call[t] # None => call[t] \in Call /\ call[t].key \in DOMAIN of
  BY DEF TypeInv, CallType
<1>3. deletion # None => deletion.left \subseteq DOMAIN of
  BY DEF TypeInv, DeletionType
<1>4. ASSUME NEW t \in Threads, call'[t] # None
      PROVE  /\ call'[t].op = "delete" => of'[call'[t].key] \in chosen'
             /\ call'[t].op = "mark" => of'[call'[t].key] \in opened'
  <2>1. CallSteps(t)
    BY CallsChange
  <2>2. CASE call[t] # None /\ call'[t].op = call[t].op /\ call'[t].key = call[t].key
    BY <1>1, <1>2, <2>2 DEF AskedFor, Grown
  <2>3. CASE call[t] # None /\ call'[t] = [call[t] EXCEPT !.at = "failed"]
    <3>1. call'[t].op = call[t].op /\ call'[t].key = call[t].key
      BY <1>2, <2>3 DEF Call
    <3> QED
      BY <2>2, <2>3, <3>1
  <2>4. CASE StoreStep(t) \/ Lose(t)
    BY <1>4, <2>2, <2>4, StoreKeeps
  <2>5. CASE NewCall(t)
    <3>1. call'[t].key \in DOMAIN of'
      BY <1>4, TypeStep DEF TypeInv, CallType
    <3>2. CASE UNCHANGED of
      BY <1>1, <1>3, <2>5, <3>2 DEF NewCall, AskedFor
    <3>3. CASE ~UNCHANGED of
      <4>1. StoreOne \/ \E u \in Threads : MarkAdd(u)
        BY <3>3, FilesSteps DEF Delete, MarkDrop, MarkRename
      <4>2. CASE StoreOne
        BY <1>4, <2>2, <4>2, StoreOneFacts
      <4>3. ASSUME NEW u \in Threads, MarkAdd(u)
            PROVE  /\ call'[t].op = "delete" => of'[call'[t].key] \in chosen'
                   /\ call'[t].op = "mark" => of'[call'[t].key] \in opened'
        <5>1. StoreStep(u)
          BY <4>3 DEF StoreStep
        <5>2. CASE u = t
          BY <1>4, <2>2, <5>1, <5>2, StoreKeeps
        <5>3. CASE u # t
          BY <1>4, <2>2, <5>1, <5>3, StoreCalls
        <5> QED
          BY <5>2, <5>3
      <4> QED
        BY <4>1, <4>2, <4>3
    <3> QED
      BY <3>2, <3>3
  <2> QED
    BY <1>4, <2>1, <2>2, <2>3, <2>4, <2>5 DEF CallSteps
<1>5. ASSUME deletion' # None, NEW k \in deletion'.left PROVE of'[k] \in chosen'
  <2>1. CASE deletion # None /\ deletion'.left \subseteq deletion.left
    BY <1>1, <1>3, <1>5, <2>1 DEF AskedFor, Grown
  <2>2. CASE Of(deletion'.left) \subseteq chosen' /\ UNCHANGED of /\ deletion'.left \subseteq DOMAIN of
    BY <1>5, <2>2 DEF Of
  <2> QED
    BY <1>5, <2>1, <2>2, DeletionLeft
<1> QED
  BY <1>4, <1>5 DEF AskedFor

-----------------------------------------------------------------------------
(* No accepted mail is lost.

   Every mark removes a file because it has made a copy of it; but others may
   mark the copy meanwhile and remove it in favour of a copy of their own, and
   so on, and any of these may then take the key of what it was made from.  The
   invariant follows the copies: D relates a key to those made from it, at first
   or second hand, and some file of a key made from the copy in hand is there,
   unless users have asked for the message to be deleted.  A key is made from
   smaller ones, so the file that a mark removes is never the one that is left. *)

\* the key of the copy that a mark has in hand
Copies(t) == IF call[t] # None /\ call[t].op = "mark" /\ call[t].at \in {"added", "dropped"}
               THEN Keys(call[t].got) ELSE {}

Remains(D, c) == of[c] \in chosen \/ \E f \in box[Me] : <<c, f.key>> \in D

Descent(D) ==
    /\ \A p \in D : /\ p[1] \in DOMAIN of /\ p[2] \in DOMAIN of
                   /\ of[p[1]] = of[p[2]] /\ p[1] <= p[2]
    /\ \A t \in Threads : \A c \in Copies(t) :
         /\ of[c] = of[call[t].key] /\ call[t].key < c /\ <<c, c>> \in D
         /\ Remains(D, c)
    /\ \A t, u \in Threads : \A c \in Copies(t), n \in Copies(u) :
         /\ t # u => c # n
         /\ <<c, n>> \in D /\ c # n => <<c, call[u].key>> \in D
         /\ <<c, call[u].key>> \in D => \A x : <<n, x>> \in D => <<c, x>> \in D

CopiesRemain == \E D \in SUBSET (Nat \X Nat) : Descent(D)

\* the message m is in the mailbox of a, unless its user has asked for the deletion
Kept(m, a) == m \in Of(Keys(box[a])) \/ (a = Me /\ m \in chosen)

\* A message is kept by a file of its own.
LEMMA KeptByFile ==
    ASSUME NEW m, NEW a
    PROVE  Kept(m, a) <=> (\E f \in box[a] : of[f.key] = m) \/ (a = Me /\ m \in chosen)
BY DEF Kept, Of, Keys

\* The same of a step's end.
LEMMA KeptByFileNext ==
    ASSUME NEW m, NEW a
    PROVE  Kept(m, a)' <=> (\E f \in box'[a] : of'[f.key] = m) \/ (a = Me /\ m \in chosen')
BY DEF Kept, Of, Keys

\* A mark in hand was in hand, unless it has just made or used its copy.
LEMMA InHand ==
    ASSUME TypeInv, TuiOpen, [Next]_vars, NEW t \in Threads, ~MarkAdd(t), ~MarkDrop(t)
    PROVE  Copies(t)' = {} \/ (Copies(t)' = Copies(t) /\ call'[t] = call[t])
<1>0. CallSteps(t)
  BY CallsChange
<1>1. CASE call'[t] = call[t]
  BY <1>1 DEF Copies, Keys
<1>2. CASE call'[t] = None
  BY <1>2 DEF Copies
<1>3. CASE NewCall(t)
  BY <1>3 DEF Copies, NewCall
<1>4. CASE Kill /\ call[t] # None /\ call'[t] = [call[t] EXCEPT !.at = "failed"]
  <2>1. call[t] \in Call
    BY <1>4 DEF TypeInv, CallType
  <2>2. call'[t].at = "failed"
    BY <1>4, <2>1 DEF Call
  <2> QED
    BY <2>2 DEF Copies
<1>5. CASE StoreStep(t) \/ Lose(t)
  <2>1. CASE MarkRename(t)
    BY <2>1, MarkRenameFacts DEF Copies
  <2>2. CASE Delete(t)
    BY <2>2, DeleteFacts DEF Copies
  <2>3. CASE ListKeys(t) \/ ListRead(t) \/ Get(t)
    <3>1. call[t] # None /\ call[t].op # "mark"
      BY <2>3 DEF ListKeys, ListRead, Get, At
    <3>2. call'[t] = None \/ call'[t].op # "mark"
      BY <1>5, <3>1, StoreKeeps
    <3> QED
      BY <3>2 DEF Copies
  <2>4. CASE Lose(t)
    <3>1. call[t] # None /\ Turn(t, "failed") /\ Grown
      BY <2>4, Nothing DEF Lose
    <3>2. call'[t] = None \/ call'[t].at = "failed"
      BY <3>1, TurnEffect
    <3> QED
      BY <3>2 DEF Copies
  <2> QED
    BY <1>5, <2>1, <2>2, <2>3, <2>4 DEF StoreStep
<1> QED
  BY <1>0, <1>1, <1>2, <1>3, <1>4, <1>5 DEF CallSteps

\* The copies in hand are of known keys, and one for each mark.
LEMMA CopiesKnown ==
    ASSUME TypeInv, NEW t \in Threads, NEW c \in Copies(t)
    PROVE  /\ c \in DOMAIN of /\ c \in Nat /\ Copies(t) = {c} /\ call[t] # None
           /\ call[t].op = "mark" /\ call[t].key \in DOMAIN of /\ call[t].key \in Nat
           /\ \E f \in File : call[t].got = {f} /\ f.key = c
<1>1. /\ call[t] # None /\ call[t].op = "mark" /\ call[t].at \in {"added", "dropped"}
      /\ c \in Keys(call[t].got)
  BY DEF Copies
<1>2. call[t].key \in DOMAIN of /\ Keys(call[t].got) \subseteq DOMAIN of /\ WellMarked(call[t])
  BY <1>1 DEF TypeInv, CallType
<1>3. PICK f \in File : call[t].got = {f}
  BY <1>1, <1>2 DEF WellMarked
<1>4. Keys(call[t].got) = {f.key}
  BY <1>3 DEF Keys
<1> QED
  BY <1>1, <1>2, <1>3, <1>4, OfType DEF Copies

\* Where the copies in hand and their calls are among those before, it is enough
\* that what remains of each remains.
LEMMA DescentKept ==
    ASSUME TypeInv, Grown, NEW D, Descent(D),
           \A t \in Threads : Copies(t)' = {} \/ (Copies(t)' = Copies(t) /\ call'[t].key = call[t].key),
           \A t \in Threads : \A c \in Copies(t) : Remains(D, c) => Remains(D, c)'
    PROVE  Descent(D)'
<1>1. \A t \in Threads : \A c \in Copies(t) : c \in DOMAIN of /\ call[t].key \in DOMAIN of
  BY CopiesKnown
<1>2. \A p \in D : /\ p[1] \in DOMAIN of' /\ p[2] \in DOMAIN of'
                 /\ of'[p[1]] = of'[p[2]] /\ p[1] <= p[2]
  BY DEF Descent, Grown
<1>3. ASSUME NEW t \in Threads, NEW c \in Copies(t)'
      PROVE  /\ of'[c] = of'[call'[t].key] /\ call'[t].key < c /\ <<c, c>> \in D
             /\ Remains(D, c)'
  <2>1. c \in Copies(t) /\ call'[t].key = call[t].key
    BY <1>3
  <2>2. of[c] = of[call[t].key] /\ call[t].key < c /\ <<c, c>> \in D /\ Remains(D, c)'
    BY <2>1 DEF Descent
  <2>3. of'[c] = of[c] /\ of'[call[t].key] = of[call[t].key]
    BY <1>1, <2>1 DEF Grown
  <2> QED
    BY <2>1, <2>2, <2>3
<1>4. ASSUME NEW t \in Threads, NEW u \in Threads, NEW c \in Copies(t)', NEW n \in Copies(u)'
      PROVE  /\ t # u => c # n
             /\ <<c, n>> \in D /\ c # n => <<c, call'[u].key>> \in D
             /\ <<c, call'[u].key>> \in D => \A x : <<n, x>> \in D => <<c, x>> \in D
  <2>1. c \in Copies(t) /\ n \in Copies(u) /\ call'[u].key = call[u].key
    BY <1>4
  <2> QED
    BY <2>1 DEF Descent
<1> QED
  BY <1>2, <1>3, <1>4 DEF Descent

\* A new copy descends from what the file descends from that it was made of.
LEMMA DescentGrows ==
    ASSUME TypeInv, TuiOpen, [Next]_vars, NEW D \in SUBSET (Nat \X Nat), Descent(D),
           NEW t \in Threads, MarkAdd(t)
    PROVE  CopiesRemain'
<1>1. /\ call[t] # None /\ call[t].op = "mark" /\ call[t].at = "asked"
      /\ UNCHANGED <<smtpd, main, users>>
  BY MarkAddFacts
<1>2. ASSUME NEW u \in Threads \ {t}
      PROVE  call'[u] = call[u] /\ Copies(u)' = Copies(u)
  BY <1>2, StoreCalls DEF StoreStep, Copies, Keys
<1>3. CASE UNCHANGED <<box, of>> /\ (call'[t] = None \/ call'[t].at = "failed")
  <2>1. Copies(t)' = {}
    BY <1>3 DEF Copies
  <2>2. \A c : Remains(D, c) => Remains(D, c)'
    BY <1>1, <1>3 DEF Remains, users
  <2>3. Descent(D)'
    BY <1>2, <1>3, <2>1, <2>2, Nothing, DescentKept
  <2> QED
    BY <2>3 DEF CopiesRemain
<1>4. ASSUME NEW f \in box[Me], NEW c \in File,
             /\ f.key = call[t].key /\ c.key = Fresh
             /\ of[f.key] \in Messages \cup {Old} /\ of' = Append(of, of[f.key])
             /\ box'[Me] = box[Me] \cup {c}
             /\ call'[t] # None /\ call'[t].op = "mark" /\ call'[t].at = "added"
             /\ call'[t].key = call[t].key /\ call'[t].got = {c}
      PROVE  CopiesRemain'
  <2> DEFINE k == call[t].key
             n == Fresh
             M == {x \in Nat : <<x, k>> \in D} \cup {n}
  <2>1. /\ Grown /\ n \notin DOMAIN of /\ n \in Nat /\ of'[n] = of[k]
        /\ DOMAIN of' = DOMAIN of \cup {n} /\ \A x \in DOMAIN of : x \in Nat /\ x < n
    BY <1>4, NewKey DEF TypeInv
  <2>2. k \in DOMAIN of /\ k < n /\ k \in Nat
    BY <1>1, <2>1 DEF TypeInv, CallType
  <2>3. Copies(t)' = {n}
    BY <1>4 DEF Copies, Keys
  <2>4. \A p \in D : p[1] \in DOMAIN of /\ p[2] \in DOMAIN of /\ of[p[1]] = of[p[2]] /\ p[1] <= p[2]
    BY DEF Descent
  <2>5. M \X {n} \in SUBSET (Nat \X Nat) /\ D \cup (M \X {n}) \in SUBSET (Nat \X Nat)
    BY <2>1
  <2> PICK E \in SUBSET (Nat \X Nat) : E = D \cup (M \X {n})
    BY <2>5
  <2>6. \A x, y : <<x, y>> \in D => x \in DOMAIN of /\ y \in DOMAIN of /\ x \in Nat
    BY <2>1, <2>4
  <2>7. /\ \A x, y : y # n => (<<x, y>> \in E <=> <<x, y>> \in D)
        /\ \A x : <<x, n>> \in E <=> x = n \/ <<x, k>> \in D
    BY <2>1, <2>6
  <2>8. \A u \in Threads \ {t} : \A d \in Copies(u) :
           d \in DOMAIN of /\ d # n /\ call[u].key \in DOMAIN of /\ call[u].key # n
    BY <2>1, CopiesKnown
  <2>9. ASSUME NEW p \in E
        PROVE  /\ p[1] \in DOMAIN of' /\ p[2] \in DOMAIN of'
               /\ of'[p[1]] = of'[p[2]] /\ p[1] <= p[2]
    <3>1. CASE p \in D
      BY <2>1, <2>4, <3>1 DEF Grown
    <3>2. CASE p = <<n, n>>
      BY <2>1, <3>2
    <3>a. \/ p \in D \/ p = <<n, n>>
          \/ \E x \in Nat : <<x, k>> \in D /\ p = <<x, n>>
      OBVIOUS
    <3>3. ASSUME NEW x \in Nat, <<x, k>> \in D, p = <<x, n>>
          PROVE  /\ p[1] \in DOMAIN of' /\ p[2] \in DOMAIN of'
                 /\ of'[p[1]] = of'[p[2]] /\ p[1] <= p[2]
      <4>1. x \in DOMAIN of /\ of[x] = of[k] /\ x < n
        BY <2>1, <2>4, <2>6, <3>3
      <4> QED
        BY <2>1, <3>3, <4>1 DEF Grown
    <3> QED
      BY <3>a, <3>1, <3>2, <3>3
  <2> HIDE DEF k, n, M
  <2>10. ASSUME NEW u \in Threads, NEW d \in Copies(u)'
         PROVE  /\ of'[d] = of'[call'[u].key] /\ call'[u].key < d /\ <<d, d>> \in E
                /\ Remains(E, d)'
    <3>1. CASE u = t
      <4>1. d = n /\ call'[u].key = k /\ of'[k] = of[k]
        BY <1>4, <2>1, <2>2, <2>3, <2>10, <3>1 DEF k, Grown
      <4>2. c \in box'[Me] /\ c.key = n /\ <<n, n>> \in E
        BY <1>4, <2>7 DEF n
      <4> QED
        BY <2>1, <2>2, <4>1, <4>2 DEF Remains
    <3>2. CASE u # t
      <4>1. d \in Copies(u) /\ call'[u] = call[u] /\ d \in DOMAIN of /\ d # n
            /\ call[u].key \in DOMAIN of /\ call[u].key # n
        BY <1>2, <2>8, <2>10, <3>2
      <4>2. of[d] = of[call[u].key] /\ call[u].key < d /\ <<d, d>> \in D /\ Remains(D, d)
        BY <4>1 DEF Descent
      <4>3. Remains(E, d)'
        <5>1. CASE of[d] \in chosen
          BY <1>1, <2>1, <4>1, <5>1 DEF Remains, Grown, users
        <5>2. ASSUME NEW g \in box[Me], <<d, g.key>> \in D PROVE Remains(E, d)'
          <6>1. g \in box'[Me] /\ <<d, g.key>> \in E
            BY <1>4, <2>1, <2>6, <2>7, <5>2
          <6> QED
            BY <6>1 DEF Remains
        <5> QED
          BY <4>2, <5>1, <5>2 DEF Remains
      <4> QED
        BY <2>1, <2>7, <4>1, <4>2, <4>3 DEF Grown
    <3> QED
      BY <3>1, <3>2
  <2>11. ASSUME NEW v \in Threads, NEW u \in Threads, NEW a \in Copies(v)', NEW b \in Copies(u)'
         PROVE  /\ v # u => a # b
                /\ <<a, b>> \in E /\ a # b => <<a, call'[u].key>> \in E
                /\ <<a, call'[u].key>> \in E => \A x : <<b, x>> \in E => <<a, x>> \in E
    <3>1. CASE v # t /\ u # t
      <4>1. /\ a \in Copies(v) /\ b \in Copies(u) /\ call'[u] = call[u] /\ a # n /\ b # n
            /\ call[u].key # n
        BY <1>2, <2>8, <2>11, <3>1
      <4>2. /\ v # u => a # b
            /\ <<a, b>> \in D /\ a # b => <<a, call[u].key>> \in D
            /\ <<a, call[u].key>> \in D => \A x : <<b, x>> \in D => <<a, x>> \in D
        BY <4>1 DEF Descent
      <4> QED
        BY <2>7, <4>1, <4>2
    <3>2. CASE v = t /\ u # t
      <4>1. b \in Copies(u) /\ call'[u] = call[u] /\ b # n /\ call[u].key # n /\ a = n
        BY <1>2, <2>3, <2>8, <2>11, <3>2
      <4>2. \A x : <<n, x>> \notin D
        BY <2>1, <2>6
      <4> QED
        BY <2>7, <4>1, <4>2
    <3>3. CASE v # t /\ u = t
      <4>1. a \in Copies(v) /\ a # n /\ b = n /\ call'[u].key = k /\ k # n
        BY <1>2, <1>4, <2>1, <2>2, <2>3, <2>8, <2>11, <3>3 DEF k
      <4>2. \A x : <<n, x>> \notin D
        BY <2>1, <2>6
      <4> QED
        BY <2>7, <3>3, <4>1, <4>2
    <3>4. CASE v = t /\ u = t
      <4>1. a = n /\ b = n /\ call'[u].key = k
        BY <1>4, <2>3, <2>11, <3>4 DEF k
      <4> QED
        BY <3>4, <4>1
    <3> QED
      BY <3>1, <3>2, <3>3, <3>4
  <2>12. Descent(E)'
    BY <2>9, <2>10, <2>11 DEF Descent
  <2> QED
    BY <2>12 DEF CopiesRemain
<1> QED
  BY <1>3, <1>4, MarkAddFacts

\* When a mark removes the old file, what remains of any copy in hand remains:
\* if it was that file, what remains of this mark's own copy descends from it.
LEMMA DropKeeps ==
    ASSUME TypeInv, NEW D, Descent(D), NEW t \in Threads, MarkDrop(t),
           NEW u \in Threads, NEW c \in Copies(u), Remains(D, c)
    PROVE  Remains(D, c)'
<1>1. /\ call[t] # None /\ call[t].op = "mark" /\ call[t].at = "added"
      /\ UNCHANGED <<of, users>> /\ box'[Me] = box[Me] \ Keyed(box[Me], call[t].key)
  BY MarkDropFacts
<1>2. PICK n : n \in Copies(t)
  BY <1>1 DEF TypeInv, CallType, WellMarked, Copies, Keys
<1>3. /\ of[n] = of[call[t].key] /\ call[t].key < n /\ Remains(D, n)
      /\ <<c, call[t].key>> \in D => \A x : <<n, x>> \in D => <<c, x>> \in D
  BY <1>2 DEF Descent
<1>4. CASE of[c] \in chosen
  BY <1>1, <1>4 DEF Remains, users
<1>5. ASSUME NEW f \in box[Me], <<c, f.key>> \in D PROVE Remains(D, c)'
  <2>1. CASE f.key # call[t].key
    BY <1>1, <1>5, <2>1 DEF Remains, Keyed
  <2>2. CASE f.key = call[t].key
    <3>1. of[c] = of[n]
      BY <1>3, <1>5, <2>2 DEF Descent
    <3>2. CASE of[n] \in chosen
      BY <1>4, <3>1, <3>2
    <3>3. ASSUME NEW g \in box[Me], <<n, g.key>> \in D PROVE Remains(D, c)'
      <4>1. n <= g.key /\ g.key \in Nat /\ n \in Nat /\ call[t].key \in Nat
        BY <1>2, <3>3, CopiesKnown, OfType DEF Descent
      <4>2. g.key # call[t].key /\ <<c, g.key>> \in D
        BY <1>3, <1>5, <2>2, <3>3, <4>1
      <4>3. g \in box'[Me]
        BY <1>1, <4>2 DEF Keyed
      <4> QED
        BY <4>2, <4>3 DEF Remains
    <3> QED
      BY <1>3, <3>2, <3>3 DEF Remains
  <2> QED
    BY <2>1, <2>2
<1> QED
  BY <1>4, <1>5 DEF Remains

\* When a copy takes the key it was made for, what remains of any other copy in
\* hand remains: if it was the copy, it is now under the key that the copy
\* descends from.
LEMMA RenameKeeps ==
    ASSUME TypeInv, NEW D, Descent(D), NEW t \in Threads, MarkRename(t),
           NEW u \in Threads \ {t}, NEW c \in Copies(u), Remains(D, c)
    PROVE  Remains(D, c)'
<1>1. UNCHANGED <<of, users>>
  BY MarkRenameFacts
<1>2. CASE UNCHANGED box \/ of[c] \in chosen
  BY <1>1, <1>2 DEF Remains, users
<1>3. ASSUME NEW g \in box[Me], NEW h \in File, call[t].got = {g}, h.key = call[t].key,
             box'[Me] = (box[Me] \ ({g} \cup Keyed(box[Me], call[t].key))) \cup {h},
             NEW f \in box[Me], <<c, f.key>> \in D
      PROVE  Remains(D, c)'
  <2>1. call[t] # None /\ call[t].op = "mark" /\ call[t].at = "dropped"
    BY MarkRenameFacts
  <2>2. g.key \in Copies(t)
    BY <1>3, <2>1 DEF Copies, Keys
  <2>3. c # g.key /\ (<<c, g.key>> \in D => <<c, call[t].key>> \in D)
    BY <2>2 DEF Descent
  <2>4. CASE f = g \/ f.key = call[t].key
    BY <1>3, <2>3, <2>4 DEF Remains
  <2>5. CASE f # g /\ f.key # call[t].key
    BY <1>3, <2>5 DEF Remains, Keyed
  <2> QED
    BY <2>4, <2>5
<1> QED
  BY <1>2, <1>3, MarkRenameFacts DEF Remains

\* A deletion takes what users have asked to delete.
LEMMA DeleteKeeps ==
    ASSUME TypeInv, AskedFor, NEW D, Descent(D), NEW t \in Threads, Delete(t),
           NEW u \in Threads, NEW c \in Copies(u), Remains(D, c)
    PROVE  Remains(D, c)'
<1>1. /\ call[t] # None /\ call[t].op = "delete" /\ UNCHANGED <<of, users>>
      /\ box'[Me] = box[Me] \ Target(t) /\ Target(t) \subseteq Keyed(box[Me], call[t].key)
  BY DeleteFacts
<1>2. of[call[t].key] \in chosen
  BY <1>1 DEF AskedFor
<1>3. CASE of[c] \in chosen
  BY <1>1, <1>3 DEF Remains, users
<1>4. ASSUME NEW f \in box[Me], <<c, f.key>> \in D PROVE Remains(D, c)'
  <2>1. CASE f \in Target(t)
    <3>1. of[c] = of[f.key] /\ f.key = call[t].key
      BY <1>1, <1>4, <2>1 DEF Descent, Keyed
    <3> QED
      BY <1>2, <1>3, <3>1
  <2>2. CASE f \notin Target(t)
    BY <1>1, <1>4, <2>2 DEF Remains
  <2> QED
    BY <2>1, <2>2
<1> QED
  BY <1>3, <1>4 DEF Remains

\* What remains remains where no file goes.
LEMMA MoreKeeps ==
    ASSUME TypeInv, Grown, chosen \subseteq chosen', box[Me] \subseteq box'[Me],
           NEW D, NEW u \in Threads, NEW c \in Copies(u), Remains(D, c)
    PROVE  Remains(D, c)'
BY CopiesKnown DEF Remains, Grown

\* Every step leaves a file for each copy in hand: the descent of its copies goes on.
LEMMA CopiesRemainStep ==
    TypeInv /\ TuiOpen /\ AskedFor /\ CopiesRemain /\ [Next]_vars => CopiesRemain'
<1> SUFFICES ASSUME TypeInv, TuiOpen, AskedFor, CopiesRemain, [Next]_vars PROVE CopiesRemain'
  OBVIOUS
<1> PICK D \in SUBSET (Nat \X Nat) : Descent(D)
  BY DEF CopiesRemain
<1>1. Grown /\ chosen \subseteq chosen'
  BY OnlyGrows
<1>2. ASSUME NEW t \in Threads, MarkAdd(t) PROVE CopiesRemain'
  BY <1>2, DescentGrows
<1>3. ASSUME NEW t \in Threads, MarkDrop(t) PROVE CopiesRemain'
  <2>1. ASSUME NEW u \in Threads
        PROVE  Copies(u)' = {} \/ (Copies(u)' = Copies(u) /\ call'[u].key = call[u].key)
    <3>1. CASE u = t
      BY <1>3, <3>1, MarkDropFacts DEF Copies, Keys
    <3>2. CASE u # t
      BY <1>3, <3>2, StoreCalls DEF StoreStep, Copies, Keys
    <3> QED
      BY <3>1, <3>2
  <2>2. Descent(D)'
    BY <1>1, <1>3, <2>1, DropKeeps, DescentKept
  <2> QED
    BY <2>2 DEF CopiesRemain
<1>4. ASSUME \A t \in Threads : ~MarkAdd(t) /\ ~MarkDrop(t) PROVE CopiesRemain'
  <2>1. \A u \in Threads : Copies(u)' = {} \/ (Copies(u)' = Copies(u) /\ call'[u].key = call[u].key)
    BY <1>4, InHand
  <2>2. CASE UNCHANGED <<box, of>> \/ StoreOne
    <3>1. box[Me] \subseteq box'[Me]
      BY <2>2, StoreOneFacts, MailboxAssumption
    <3>2. Descent(D)'
      BY <1>1, <2>1, <3>1, MoreKeeps, DescentKept
    <3> QED
      BY <3>2 DEF CopiesRemain
  <2>3. ASSUME NEW t \in Threads, Delete(t) PROVE CopiesRemain'
    <3>1. Descent(D)'
      BY <1>1, <2>1, <2>3, DeleteKeeps, DescentKept
    <3> QED
      BY <3>1 DEF CopiesRemain
  <2>4. ASSUME NEW t \in Threads, MarkRename(t) PROVE CopiesRemain'
    <3>1. Copies(t)' = {}
      BY <2>4, MarkRenameFacts DEF Copies
    <3>2. Descent(D)'
      <4>1. \A p \in D : /\ p[1] \in DOMAIN of' /\ p[2] \in DOMAIN of'
                       /\ of'[p[1]] = of'[p[2]] /\ p[1] <= p[2]
        BY <1>1 DEF Descent, Grown
      <4>2. ASSUME NEW u \in Threads, NEW c \in Copies(u)'
            PROVE  /\ of'[c] = of'[call'[u].key] /\ call'[u].key < c /\ <<c, c>> \in D
                   /\ Remains(D, c)'
        <5>1. u # t /\ c \in Copies(u) /\ call'[u].key = call[u].key
          BY <2>1, <3>1, <4>2
        <5>2. of[c] = of[call[u].key] /\ call[u].key < c /\ <<c, c>> \in D /\ Remains(D, c)
          BY <5>1 DEF Descent
        <5>3. Remains(D, c)'
          BY <2>4, <5>1, <5>2, RenameKeeps
        <5>4. c \in DOMAIN of /\ call[u].key \in DOMAIN of
          BY <5>1, CopiesKnown
        <5> QED
          BY <1>1, <5>1, <5>2, <5>3, <5>4 DEF Grown
      <4>3. ASSUME NEW v \in Threads, NEW u \in Threads, NEW c \in Copies(v)', NEW n \in Copies(u)'
            PROVE  /\ v # u => c # n
                   /\ <<c, n>> \in D /\ c # n => <<c, call'[u].key>> \in D
                   /\ <<c, call'[u].key>> \in D => \A x : <<n, x>> \in D => <<c, x>> \in D
        <5>1. c \in Copies(v) /\ n \in Copies(u) /\ call'[u].key = call[u].key
          BY <2>1, <4>3
        <5> QED
          BY <5>1 DEF Descent
      <4> QED
        BY <4>1, <4>2, <4>3 DEF Descent
    <3> QED
      BY <3>2 DEF CopiesRemain
  <2> QED
    BY <1>4, <2>2, <2>3, <2>4, FilesSteps
<1> QED
  BY <1>2, <1>3, <1>4

\* A message that is in a mailbox stays there, or its user asks for its deletion.
LEMMA KeptStep ==
    ASSUME TypeInv, TuiOpen, AskedFor, CopiesRemain, [Next]_vars,
           NEW m, NEW a \in Accounts, Kept(m, a)
    PROVE  Kept(m, a)'
<1>1. Grown /\ chosen \subseteq chosen'
  BY OnlyGrows
<1>2. \A f \in box[a] : f.key \in DOMAIN of
  BY DEF TypeInv, FileType
<1>3. CASE a = Me /\ m \in chosen
  BY <1>1, <1>3, KeptByFileNext
<1>4. CASE box[a] \subseteq box'[a]
  BY <1>1, <1>2, <1>4, KeptByFile, KeptByFileNext DEF Grown
<1>5. ASSUME a = Me, NEW f \in box[a], of[f.key] = m,
             NEW t \in Threads, Delete(t) \/ MarkDrop(t) \/ MarkRename(t)
      PROVE  Kept(m, a)'
  <2>1. PICK D \in SUBSET (Nat \X Nat) : Descent(D)
    BY DEF CopiesRemain
  <2>2. CASE f \in box'[a]
    BY <1>1, <1>2, <1>5, <2>2, KeptByFileNext DEF Grown
  <2>3. CASE Delete(t) /\ f \notin box'[a]
    <3>1. f.key = call[t].key /\ of[call[t].key] \in chosen
      BY <1>5, <2>3, DeleteFacts DEF Keyed, AskedFor
    <3> QED
      BY <1>3, <1>5, <3>1
  <2>4. CASE MarkDrop(t) /\ f \notin box'[a]
    <3>1. /\ call[t] # None /\ call[t].op = "mark" /\ call[t].at = "added" /\ f.key = call[t].key
          /\ box'[Me] = box[Me] \ Keyed(box[Me], call[t].key) /\ UNCHANGED of
      BY <1>5, <2>4, MarkDropFacts DEF Keyed
    <3>2. PICK n : n \in Copies(t)
      BY <3>1 DEF TypeInv, CallType, WellMarked, Copies, Keys
    <3>3. of[n] = m /\ f.key < n /\ Remains(D, n)
      BY <1>5, <2>1, <3>1, <3>2 DEF Descent
    <3>4. CASE of[n] \in chosen
      BY <1>3, <1>5, <3>3, <3>4
    <3>5. ASSUME NEW g \in box[Me], <<n, g.key>> \in D PROVE Kept(m, a)'
      <4>1. n <= g.key /\ of[g.key] = m /\ g.key \in Nat /\ n \in Nat /\ f.key \in Nat
        BY <1>2, <1>5, <2>1, <3>2, <3>3, <3>5, CopiesKnown, OfType DEF Descent
      <4>2. g \in box'[a]
        BY <1>5, <3>1, <3>3, <3>5, <4>1 DEF Keyed
      <4> QED
        BY <3>1, <4>1, <4>2, KeptByFileNext
    <3> QED
      BY <3>3, <3>4, <3>5 DEF Remains
  <2>5. CASE MarkRename(t) /\ f \notin box'[a]
    <3>1. PICK c \in box[Me], h \in File :
             /\ call[t].got = {c} /\ h.key = call[t].key
             /\ box'[Me] = (box[Me] \ ({c} \cup Keyed(box[Me], call[t].key))) \cup {h}
      BY <1>5, <2>5, MarkRenameFacts
    <3>2. call[t] # None /\ call[t].op = "mark" /\ call[t].at = "dropped" /\ UNCHANGED of
      BY <2>5, MarkRenameFacts
    <3>3. c.key \in Copies(t)
      BY <3>1, <3>2 DEF Copies, Keys
    <3>4. of[c.key] = of[call[t].key]
      BY <2>1, <3>3 DEF Descent
    <3>5. f = c \/ f.key = call[t].key
      BY <1>5, <2>5, <3>1 DEF Keyed
    <3>6. h \in box'[a] /\ of'[h.key] = m
      BY <1>5, <3>1, <3>2, <3>4, <3>5
    <3> QED
      BY <3>6, KeptByFileNext
  <2> QED
    BY <1>5, <2>2, <2>3, <2>4, <2>5
<1>6. CASE ~(box[a] \subseteq box'[a])
  <2>1. PICK t \in Threads : Delete(t) \/ MarkAdd(t) \/ MarkDrop(t) \/ MarkRename(t)
    BY <1>6, FilesSteps, StoreOneFacts
  <2>2. ~MarkAdd(t)
    BY <1>6, MarkAddFacts
  <2>3. a = Me
    BY <1>6, <2>1, <2>2, DeleteFacts, MarkDropFacts, MarkRenameFacts
  <2> QED
    BY <1>3, <1>5, <2>1, <2>2, <2>3, KeptByFile
<1> QED
  BY <1>4, <1>6

\* Between two mailboxes, those before the one whose turn it is have the message.
MailInOrder ==
    /\ mail # None => \A j \in 1..(mail.i - 1) : mail.rcpts[j] \in accounts =>
                         Kept(mail.msg, mail.rcpts[j])
    /\ \A p \in owed : Kept(p[1], p[2])
    /\ Kept(Old, Me)

\* At the start nothing is asked for, copied or on its way.
LEMMA MailInit == Init => AskedFor /\ CopiesRemain /\ MailInOrder
<1> SUFFICES ASSUME Init PROVE AskedFor /\ CopiesRemain /\ MailInOrder
  OBVIOUS
<1>1. AskedFor /\ \A t \in Threads : Copies(t) = {}
  BY DEF Init, AskedFor, Copies
<1>2. Descent({})
  BY <1>1 DEF Descent
<1>3. {} \in SUBSET (Nat \X Nat)
  OBVIOUS
<1>4. CopiesRemain
  BY <1>2, <1>3 DEF CopiesRemain
<1> DEFINE f == [key |-> 1, folder |-> "INBOX", seen |-> TRUE]
<1>5. f \in box[Me] /\ of[f.key] = Old
  BY MailboxAssumption DEF Init
<1>6. Kept(Old, Me)
  BY <1>5, KeptByFile
<1>7. MailInOrder
  BY <1>6 DEF Init, MailInOrder
<1> QED
  BY <1>1, <1>4, <1>7

\* A transaction begins, goes on to its next recipient, ends or stays.
LEMMA MailSteps ==
    ASSUME TypeInv, [Next]_vars
    PROVE  \/ UNCHANGED <<mail, owed>> \/ StoreOne
           \/ UNCHANGED owed /\ (mail' = None \/ mail'.i = 1)
<1>1. ASSUME NEW m \in Messages, Mail(m) PROVE UNCHANGED owed /\ mail'.i = 1
  BY <1>1 DEF Mail
<1>2. CASE SmtpStep
  BY <1>1, <1>2 DEF SmtpStep, Abort, RemoveAccount
<1>3. ASSUME NEW t \in Threads, StoreStep(t) \/ Lose(t) PROVE UNCHANGED <<mail, owed>>
  BY <1>3, StoreCalls DEF smtpd
<1>4. CASE WindowStep
  BY <1>4 DEF WindowStep, Reloaded, AutoRefresh, AutoDone, AutoFailed, Opened, WindowOver,
         DeleteNext, Deleted, DialogOver, DeleteOver, smtpd
<1>5. CASE UserStep
  BY <1>5 DEF UserStep, Refresh, Goto, DeleteSelected, StartDelete, Cancel, Open, DeleteInWindow,
         smtpd
<1>6. CASE TuiStep
  BY <1>6 DEF TuiStep, TuiReload, TuiShow, TuiDelete, TuiGoesOn, TuiDies, TuiOnly, smtpd
<1>7. CASE Kill \/ UNCHANGED vars
  BY <1>7 DEF Kill, vars, smtpd
<1> QED
  BY <1>2, <1>3, <1>4, <1>5, <1>6, <1>7 DEF Next

\* A transaction gives the recipient whose turn it is a file, and what the others have stays.
LEMMA MailInOrderStep ==
    TypeInv /\ TuiOpen /\ AskedFor /\ CopiesRemain /\ MailInOrder /\ [Next]_vars => MailInOrder'
<1> SUFFICES ASSUME TypeInv, TuiOpen, AskedFor, CopiesRemain, MailInOrder, [Next]_vars
             PROVE  MailInOrder'
  OBVIOUS
<1> PICK m, r, i : m = mail.msg /\ r = mail.rcpts /\ i = mail.i
  OBVIOUS
<1>1. /\ accounts \subseteq Accounts /\ accounts' \subseteq accounts /\ Me \in Accounts
      /\ mail \in Transaction \cup {None} /\ (mail # None => mail.i \in DOMAIN mail.rcpts)
      /\ owed \subseteq Messages \X Accounts
  BY OnlyGrows, MailboxAssumption DEF TypeInv, FileType, MailType
<1>2. Kept(Old, Me)' /\ \A p \in owed : Kept(p[1], p[2])'
  <2>1. ASSUME NEW p \in owed PROVE Kept(p[1], p[2])'
    <3>1. p[2] \in Accounts /\ Kept(p[1], p[2])
      BY <1>1, <2>1 DEF MailInOrder
    <3> QED
      BY <3>1, KeptStep
  <2> QED
    BY <1>1, <2>1, KeptStep DEF MailInOrder
<1>3. ASSUME mail # None, NEW j \in 1..(i - 1), r[j] \in accounts
      PROVE  Kept(m, r[j])'
  <2>1. Kept(m, r[j]) /\ r[j] \in Accounts
    BY <1>1, <1>3 DEF MailInOrder
  <2> QED
    BY <2>1, KeptStep
<1>4. CASE UNCHANGED <<mail, owed>>
  BY <1>1, <1>2, <1>3, <1>4 DEF MailInOrder
<1>5. CASE UNCHANGED owed /\ (mail' = None \/ mail'.i = 1)
  BY <1>2, <1>5 DEF MailInOrder
<1>6. CASE StoreOne
  <2>1. /\ mail # None /\ mail \in Transaction /\ mail.i \in DOMAIN mail.rcpts
        /\ mail.rcpts \in Seq(Accounts) /\ UNCHANGED accounts
    BY <1>6, StoreOneFacts
  <2>2. i \in 1..Len(r) /\ i \in Nat
    BY <2>1
  <2>3. ASSUME r[i] \in accounts
        PROVE  Kept(m, r[i])'
    BY <1>6, <2>3, StoreOneFacts, KeptByFileNext
  <2>4. ASSUME NEW j \in 1..i, r[j] \in accounts
        PROVE  Kept(m, r[j])'
    <3>1. j = i \/ j \in 1..(i - 1)
      BY <2>2
    <3> QED
      BY <1>3, <2>1, <2>3, <2>4, <3>1
  <2>5. CASE i + 1 > Len(r)
    <3>1. mail' = None /\ owed' = owed \cup {<<m, a>> : a \in Range(r) \cap accounts}
      BY <1>6, <2>5 DEF StoreOne, Advance
    <3>2. i = Len(r)
      BY <2>2, <2>1, <2>5
    <3>3. ASSUME NEW a \in Range(r) \cap accounts PROVE Kept(m, a)'
      <4>1. PICK j \in 1..Len(r) : a = r[j]
        BY <2>1 DEF Range
      <4>2. j \in 1..i
        BY <3>2, <4>1
      <4> QED
        BY <2>4, <4>1, <4>2
    <3>4. ASSUME NEW p \in owed' PROVE Kept(p[1], p[2])'
      <4>1. CASE p \in owed
        BY <1>2, <4>1
      <4>2. ASSUME NEW a \in Range(r) \cap accounts, p = <<m, a>>
            PROVE  Kept(p[1], p[2])'
        <5>1. p[1] = m /\ p[2] = a
          BY <4>2
        <5> QED
          BY <3>3, <5>1
      <4> QED
        BY <3>1, <3>4, <4>1, <4>2
    <3> QED
      BY <1>2, <3>1, <3>4 DEF MailInOrder
  <2>6. CASE ~(i + 1 > Len(r))
    <3>1. mail' = [mail EXCEPT !.i = i + 1] /\ UNCHANGED owed
      BY <1>6, <2>6 DEF StoreOne, Advance
    <3>2. mail'.i = i + 1 /\ mail'.rcpts = r /\ mail'.msg = m
      BY <2>1, <3>1 DEF Transaction
    <3>3. mail'.i - 1 = i
      BY <2>2, <3>2
    <3> QED
      BY <1>2, <2>1, <2>4, <3>1, <3>2, <3>3 DEF MailInOrder
  <2> QED
    BY <2>5, <2>6
<1> QED
  BY <1>4, <1>5, <1>6, MailSteps

\* A message that smtpd answered with 250 is in the mailbox of each of its recipients until
\* its user asks for the deletion, whatever threads mark, delete and list at once, and
\* wherever apid or smtpd is killed.
THEOREM AcceptedMailIsKept == Spec => []NoMailLost
<1> DEFINE Inv == AskedFor /\ CopiesRemain /\ MailInOrder
<1>1. Init => Inv
  BY MailInit
<1>2. TypeInv /\ TuiOpen /\ Inv /\ [Next]_vars => Inv'
  BY AskedForStep, CopiesRemainStep, MailInOrderStep
<1>3. Inv => NoMailLost
  BY DEF MailInOrder, NoMailLost, Kept
<1> QED
  BY <1>1, <1>2, <1>3, AlwaysTyped, PTL DEF Spec

-----------------------------------------------------------------------------
(* Only what is new is announced.

   What has been listed and neither opened nor chosen for deletion cannot have
   gone: no mark and no deletion is of its key, or of a message it was copied
   from.  So every list of the INBOX that is read while it is known has it too,
   the list the main window waits for included, and what a timer finds missing
   from the known keys was never in the table. *)

Settled(k) == of[k] \in opened \cup chosen

\* The main window's thread waits for lists of its own folder only.
UiLists == call["ui"] # None => call["ui"].op = "list" /\ call["ui"].folder = folder

UiReads == call["ui"] # None /\ call["ui"].at \in {"keys", "ok"}

ListsHold ==
    /\ UiReads => \A k \in Keys(call["ui"].got) : Settled(k) \/ k \in Keys(box[Me])
    /\ \A k \in listed : Settled(k) \/
         /\ k \in Keys(box[Me]) /\ k \in known /\ k \notin alarm
         /\ UiReads /\ folder = "INBOX" => k \in Keys(call["ui"].got)

AlarmsInOrder == UiLists /\ ListsHold

\* What is settled stays settled.
LEMMA SettledStays ==
    ASSUME TypeInv, [Next]_vars, NEW k \in DOMAIN of, Settled(k)
    PROVE  Settled(k)'
BY OnlyGrows DEF Settled, Grown

\* A key of the INBOX goes with a mark or a deletion of what it is of.
LEMMA KeyStays ==
    ASSUME TypeInv, AskedFor, CopiesRemain, [Next]_vars,
           NEW k \in Keys(box[Me]), ~Settled(k)
    PROVE  k \in Keys(box'[Me])
<1> PICK f \in box[Me] : f.key = k
  BY DEF Keys
<1>1. CASE box[Me] \subseteq box'[Me]
  BY <1>1 DEF Keys
<1>2. ASSUME NEW t \in Threads, Delete(t) PROVE f \in box'[Me]
  <2>1. /\ box'[Me] = box[Me] \ Target(t) /\ Target(t) \subseteq Keyed(box[Me], call[t].key)
        /\ of[call[t].key] \in chosen
    BY <1>2, DeleteFacts DEF AskedFor
  <2> QED
    BY <2>1 DEF Keyed, Settled
<1>3. ASSUME NEW t \in Threads, MarkDrop(t) PROVE f \in box'[Me]
  <2>1. box'[Me] = box[Me] \ Keyed(box[Me], call[t].key) /\ of[call[t].key] \in opened
    BY <1>3, MarkDropFacts DEF AskedFor
  <2> QED
    BY <2>1 DEF Keyed, Settled
<1>4. ASSUME NEW t \in Threads, MarkRename(t), ~(box[Me] \subseteq box'[Me]) PROVE f \in box'[Me]
  <2>1. PICK c \in box[Me], h \in File :
           /\ call[t].got = {c} /\ h.key = call[t].key
           /\ box'[Me] = (box[Me] \ ({c} \cup Keyed(box[Me], call[t].key))) \cup {h}
    BY <1>4, MarkRenameFacts
  <2>2. call[t] # None /\ call[t].op = "mark" /\ call[t].at = "dropped"
    BY <1>4, MarkRenameFacts
  <2>3. c.key \in Copies(t)
    BY <2>1, <2>2 DEF Copies, Keys
  <2>4. of[c.key] = of[call[t].key] /\ of[call[t].key] \in opened
    BY <2>2, <2>3 DEF CopiesRemain, Descent, AskedFor
  <2> QED
    BY <2>1, <2>4 DEF Keyed, Settled
<1>5. ~(box[Me] \subseteq box'[Me]) =>
         \E t \in Threads : Delete(t) \/ MarkDrop(t) \/ MarkRename(t)
  BY FilesSteps, StoreOneFacts, MarkAddFacts, MailboxAssumption
<1> QED
  BY <1>1, <1>2, <1>3, <1>4, <1>5 DEF Keys

\* What a step may do to what the main window knows and announces.
LEMMA MainSteps ==
    ASSUME TypeInv, [Next]_vars
    PROVE  \/ UNCHANGED <<folder, known, alarm, listed>>
           \/ UNCHANGED <<folder, known, listed>> /\ alarm' = {}
           \/ Goto \/ Reloaded \/ AutoDone
<1>1. CASE SmtpStep
  BY <1>1 DEF SmtpStep, Mail, Abort, StoreOne, RemoveAccount, main
<1>2. ASSUME NEW t \in Threads, StoreStep(t) \/ Lose(t)
      PROVE  UNCHANGED <<folder, known, alarm, listed>>
  BY <1>2, StoreCalls DEF main
<1>3. CASE WindowStep
  BY <1>3 DEF WindowStep, AutoRefresh, AutoFailed, Opened, WindowOver, DeleteNext, Deleted,
         DialogOver, DeleteOver, main, Reload
<1>4. CASE UserStep
  BY <1>4 DEF UserStep, Refresh, DeleteSelected, StartDelete, Cancel, Open, DeleteInWindow, main,
         Reload
<1>5. CASE TuiStep
  BY <1>5 DEF TuiStep, TuiReload, TuiShow, TuiDelete, TuiGoesOn, TuiDies, TuiOnly, main
<1>6. CASE Kill \/ UNCHANGED vars
  BY <1>6 DEF Kill, vars, main
<1> QED
  BY <1>1, <1>2, <1>3, <1>4, <1>5, <1>6 DEF Next

\* Another folder is asked for at once.
LEMMA GotoCalls ==
    ASSUME TypeInv, Goto
    PROVE  /\ call'["ui"] # None /\ call'["ui"].op = "list" /\ call'["ui"].folder = folder'
           /\ call'["ui"].at = "asked" /\ UNCHANGED <<known, listed>> /\ alarm' = {}
<1> PICK d \in Folders : folder' = d /\ Reload(d, {})
  BY DEF Goto
<1>1. Ask("ui", "list", d, 1) /\ "ui" \in Threads /\ Grown /\ 1 \in DOMAIN of
  BY ThreadsThere, Nothing, OfType DEF Reload, Goto
<1>2. /\ call'["ui"] # None /\ call'["ui"].op = "list" /\ call'["ui"].folder = d
      /\ call'["ui"].at = "asked"
  BY <1>1, AskEffect
<1> QED
  BY <1>2 DEF Goto, Reload

\* The main window's list: the keys are those of the folder, and what is read is
\* all of what had these keys.
LEMMA ListFacts ==
    ASSUME TypeInv, NEW t \in Threads, call[t] # None, call[t].op = "list",
           StoreStep(t) \/ Lose(t)
    PROVE  /\ call'[t] # None /\ call'[t].op = "list" /\ call'[t].folder = call[t].folder
           /\ \/ call'[t].at = "failed"
              \/ ListKeys(t) /\ call'[t].got = Mine(t)
              \/ /\ ListRead(t) /\ call[t].at = "keys" /\ call'[t].at = "ok"
                 /\ Keys(call'[t].got) = Keys(call[t].got)
                 /\ Keys(call'[t].got) \subseteq Keys(box[Me])
<1>1. CASE ListKeys(t)
  <2>1. Result(t, "keys", Mine(t)) /\ UNCHANGED of /\ Mine(t) \in SUBSET File
        /\ Keys(Mine(t)) \subseteq DOMAIN of
    BY <1>1, TargetFacts DEF ListKeys
  <2> QED
    BY <1>1, <2>1, ResultEffect, Nothing
<1>2. CASE ListRead(t)
  <2> DEFINE now == {f \in Mine(t) : f.key \in Keys(call[t].got)}
  <2>1. call[t].at = "keys" /\ UNCHANGED of /\ Grown
        /\ \/ Result(t, "ok", now) /\ Keys(now) = Keys(call[t].got)
           \/ Result(t, "failed", {})
    BY <1>2, Nothing DEF ListRead, At
  <2>2. now \in SUBSET File /\ {} \in SUBSET File /\ Keys(now) \subseteq DOMAIN of
        /\ Keys({}) \subseteq DOMAIN of /\ Keys(now) \subseteq Keys(box[Me])
    <3>1. Mine(t) \subseteq box[Me] /\ box[Me] \subseteq File /\ Keys(Mine(t)) \subseteq DOMAIN of
      BY TargetFacts
    <3> QED
      BY <3>1 DEF Keys
  <2> HIDE DEF now
  <2>3. CASE Result(t, "ok", now) /\ Keys(now) = Keys(call[t].got)
    BY <1>2, <2>1, <2>2, <2>3, ResultEffect
  <2>4. CASE Result(t, "failed", {})
    BY <2>1, <2>2, <2>4, ResultEffect
  <2> QED
    BY <2>1, <2>3, <2>4
<1>3. CASE Lose(t)
  <2>1. Turn(t, "failed") /\ UNCHANGED of
    BY <1>3 DEF Lose
  <2> QED
    BY <2>1, TurnEffect, Nothing
<1> QED
  BY <1>1, <1>2, <1>3 DEF StoreStep, Get, Delete, MarkAdd, MarkDrop, MarkRename, At

\* The main window waits for a list of its folder, and has it as the store read it.
LEMMA UiCall ==
    ASSUME TypeInv, TuiOpen, UiLists, [Next]_vars, call'["ui"] # None
    PROVE  /\ call'["ui"].op = "list" /\ call'["ui"].folder = folder'
           /\ call'["ui"].at \in {"keys", "ok"} =>
                \/ /\ call'["ui"] = call["ui"] /\ UNCHANGED folder
                \/ /\ ListKeys("ui") /\ call["ui"] # None /\ call'["ui"].got = Mine("ui")
                   /\ UNCHANGED folder
                \/ /\ ListRead("ui") /\ call["ui"] # None /\ call["ui"].at = "keys"
                   /\ Keys(call'["ui"].got) = Keys(call["ui"].got)
                   /\ Keys(call'["ui"].got) \subseteq Keys(box[Me]) /\ UNCHANGED folder
<1>1. "ui" \in Threads /\ (call["ui"] # None => call["ui"] \in Call)
  BY ThreadsThere DEF TypeInv, CallType
<1>2. CASE Goto
  BY <1>2, GotoCalls
<1>3. CASE ~Goto
  <2>1. UNCHANGED folder
    BY <1>3, MainSteps DEF Reloaded, AutoDone
  <2>2. CASE call'["ui"] = call["ui"]
    BY <2>1, <2>2 DEF UiLists
  <2>3. CASE StoreStep("ui") \/ Lose("ui")
    <3>1. call["ui"] # None /\ call["ui"].op = "list" /\ call["ui"].folder = folder
      BY <1>1, <2>3, StoreCalls DEF UiLists
    <3> QED
      BY <1>1, <2>1, <2>3, <3>1, ListFacts
  <2>4. CASE call["ui"] # None /\ call'["ui"] = [call["ui"] EXCEPT !.at = "failed"]
    <3>1. call'["ui"].at = "failed" /\ UNCHANGED <<call["ui"].op, call["ui"].folder>>
      BY <1>1, <2>4 DEF Call
    <3> QED
      BY <2>1, <2>4, <3>1 DEF UiLists
  <2>5. CASE NewCall("ui")
    BY <1>1, <2>1, <2>5, ThreadsThere DEF NewCall
  <2> QED
    BY <1>1, <2>2, <2>3, <2>4, <2>5, CallsChange DEF CallSteps
<1> QED
  BY <1>2, <1>3

\* What was in a list and is not settled is in the mailbox and in later lists.
LEMMA AlarmsStep ==
    TypeInv /\ TuiOpen /\ AskedFor /\ CopiesRemain /\ AlarmsInOrder /\ [Next]_vars
       => AlarmsInOrder'
<1> SUFFICES ASSUME TypeInv, TuiOpen, AskedFor, CopiesRemain, AlarmsInOrder, [Next]_vars
             PROVE  AlarmsInOrder'
  OBVIOUS
<1> USE DEF AlarmsInOrder
<1>1. UiLists'
  BY UiCall DEF UiLists
<1>2. /\ FileType /\ "ui" \in Threads /\ Me \in Accounts /\ listed \subseteq DOMAIN of
      /\ call["ui"] # None => Keys(call["ui"].got) \subseteq DOMAIN of
      /\ Keys(box[Me]) \subseteq DOMAIN of
  BY ThreadsThere, MailboxAssumption DEF TypeInv, MainType, CallType, FileType, Keys
<1>3. \A k \in Keys(box[Me]) : Settled(k) \/ k \in Keys(box'[Me])
  BY KeyStays
<1>4. \A k \in DOMAIN of : Settled(k) => Settled(k)'
  BY SettledStays
<1>5. ASSUME UiReads', NEW k \in Keys(call'["ui"].got)
      PROVE  Settled(k)' \/ k \in Keys(box'[Me])
  <2>1. CASE call'["ui"] = call["ui"]
    BY <1>2, <1>3, <1>4, <1>5, <2>1 DEF UiReads, ListsHold
  <2>2. CASE Keys(call'["ui"].got) \subseteq Keys(box[Me])
    BY <1>2, <1>3, <1>4, <1>5, <2>2
  <2>3. CASE call'["ui"].got = Mine("ui")
    <3>1. k \in Keys(box[Me])
      BY <1>5, <2>3 DEF Mine, In, Keys
    <3> QED
      BY <1>2, <1>3, <1>4, <3>1
  <2> QED
    BY <1>5, <2>1, <2>2, <2>3, UiCall DEF UiReads
<1>6. ASSUME NEW k \in listed', ~Settled(k)'
      PROVE  k \in Keys(box'[Me]) /\ k \in known' /\ k \notin alarm' /\ k \in Keys(box[Me])
  <2>1. ASSUME k \in listed PROVE k \in Keys(box[Me]) /\ k \in known /\ k \notin alarm
                                  /\ ~Settled(k) /\ k \in Keys(box'[Me])
                                  /\ (UiReads /\ folder = "INBOX" => k \in Keys(call["ui"].got))
    BY <1>2, <1>3, <1>4, <1>6, <2>1 DEF ListsHold
  <2>2. CASE UNCHANGED <<known, listed>> /\ (UNCHANGED alarm \/ alarm' = {})
    BY <1>6, <2>1, <2>2
  <2>3. CASE Goto
    BY <2>2, <2>3, GotoCalls
  <2>4. CASE AutoDone
    BY <1>6, <2>1, <2>4 DEF AutoDone
  <2>5. CASE Reloaded
    <3>1. alarm' = {} /\ UNCHANGED <<folder, box, of, opened, chosen>>
      BY <2>5 DEF Reloaded, users
    <3>2. CASE UNCHANGED <<known, listed>>
      BY <2>2, <3>1, <3>2
    <3>3. CASE ~UNCHANGED <<known, listed>>
      <4>1. /\ call["ui"] # None /\ call["ui"].at = "ok" /\ folder = "INBOX"
            /\ known' = Keys(call["ui"].got) /\ listed' = listed \cup Keys(call["ui"].got)
        BY <2>5, <3>3 DEF Reloaded, Ended, At
      <4>2. UiReads
        BY <4>1 DEF UiReads
      <4>3. CASE k \in listed
        BY <2>1, <3>1, <4>1, <4>2, <4>3
      <4>4. CASE k \in Keys(call["ui"].got)
        <5>1. k \in DOMAIN of /\ ~Settled(k)
          BY <1>2, <1>4, <1>6, <4>1, <4>4
        <5>2. k \in Keys(box[Me])
          BY <4>2, <4>4, <5>1 DEF ListsHold
        <5> QED
          BY <3>1, <4>1, <4>4, <5>2
      <4> QED
        BY <1>6, <4>1, <4>3, <4>4
    <3> QED
      BY <3>2, <3>3
  <2> QED
    BY <2>2, <2>3, <2>4, <2>5, MainSteps
<1>7. ASSUME NEW k \in listed', ~Settled(k)', UiReads', folder' = "INBOX"
      PROVE  k \in Keys(call'["ui"].got)
  <2>1. k \in Keys(box[Me])
    BY <1>6, <1>7
  <2>2. ~Settled(k)
    BY <1>2, <1>4, <1>7, <2>1
  <2>3. UNCHANGED folder /\ call["ui"] # None /\ call["ui"].folder = folder
    BY <1>7, UiCall DEF UiReads, UiLists
  <2>4. CASE ListKeys("ui") /\ call'["ui"].got = Mine("ui")
    <3>1. Mine("ui") = box[Me]
      BY <1>2, <1>7, <2>3 DEF Mine, In, FileType
    <3> QED
      BY <2>1, <2>4, <3>1
  <2>5. CASE UiReads /\ Keys(call'["ui"].got) = Keys(call["ui"].got)
    <3>2. CASE k \in listed
      BY <1>7, <2>2, <2>3, <2>5, <3>2 DEF ListsHold
    <3>3. CASE k \notin listed
      <4>1. Reloaded
        BY <1>7, <3>3, MainSteps DEF Goto, AutoDone
      <4>2. call'["ui"] = None
        BY <1>2, <4>1 DEF Reloaded, TypeInv, CallType
      <4> QED
        BY <1>7, <4>2 DEF UiReads
    <3> QED
      BY <3>2, <3>3
  <2> QED
    BY <1>7, <2>4, <2>5, UiCall DEF UiReads
<1>8. ListsHold'
  BY <1>5, <1>6, <1>7 DEF ListsHold
<1> QED
  BY <1>1, <1>8

\* What is announced as new was not in the list of the INBOX before, unless its message was
\* opened or chosen for deletion meanwhile, however many folders were visited and lists
\* failed or came late.
THEOREM OnlyNewIsAnnounced == Spec => []NoFalseAlarm
<1> DEFINE Inv == AskedFor /\ CopiesRemain /\ AlarmsInOrder
<1>1. Init => Inv
  <2> SUFFICES ASSUME Init PROVE AlarmsInOrder
    BY MailInit
  <2>1. call["ui"] = None /\ listed = {}
    BY ThreadsThere DEF Init
  <2> QED
    BY <2>1 DEF AlarmsInOrder, UiLists, UiReads, ListsHold
<1>2. TypeInv /\ TuiOpen /\ Inv /\ [Next]_vars => Inv'
  BY AskedForStep, CopiesRemainStep, AlarmsStep
<1>3. Inv => NoFalseAlarm
  BY DEF AlarmsInOrder, ListsHold, NoFalseAlarm, Settled, Of
<1> QED
  BY <1>1, <1>2, <1>3, AlwaysTyped, PTL DEF Spec

-----------------------------------------------------------------------------
(* Cancelling a deletion.

   The worker has at most one call under way, of a message that is left, and asks
   for the next only while nobody has cancelled; a message window's worker never
   asks, but has one message only. *)

DeletionInOrder ==
    /\ call["del"] # None =>
         /\ deletion # None /\ deletion.at = "run"
         /\ call["del"].op = "delete" /\ call["del"].key \in deletion.left
    /\ deletion # None =>
         /\ deletion.where = "window" =>
              /\ deletion.n = 0 \/ (deletion.n = 1 /\ deletion.left = {})
              /\ \A x, y \in deletion.left : x = y
         /\ deletion.cancelled =>
              /\ deletion.n <= deletion.atCancel + 1
              /\ call["del"] # None /\ deletion.where = "main" => deletion.n = deletion.atCancel

\* Which steps are about the worker's call.
LEMMA WorkerCalls ==
    ASSUME TypeInv, TuiOpen, [Next]_vars
    PROVE  \/ call'["del"] = call["del"] \/ DeleteNext \/ Deleted
           \/ /\ call["del"] # None /\ UNCHANGED deletion
              /\ call'["del"] # None => call'["del"].op = call["del"].op
                                        /\ call'["del"].key = call["del"].key
<1>1. /\ call \in [Threads -> Call \cup {None}] /\ "del" \in Threads /\ "del" \notin Windows
      /\ {"ui", "auto", "tui"} \subseteq Threads /\ Windows \subseteq Threads
  BY ThreadsThere DEF TypeInv, CallType
<1>2. CASE SmtpStep
  BY <1>2 DEF SmtpStep, Mail, Abort, StoreOne, RemoveAccount
<1>3. ASSUME NEW t \in Threads, StoreStep(t) \/ Lose(t), t # "del"
      PROVE  call'["del"] = call["del"]
  BY <1>1, <1>3, StoreCalls
<1>4. CASE StoreStep("del") \/ Lose("del")
  BY <1>1, <1>4, StoreCalls, StoreKeeps DEF users
<1>5. CASE WindowStep
  <2>1. ASSUME NEW w \in Windows, Opened(w) \/ WindowOver(w) PROVE call'["del"] = call["del"]
    BY <1>1, <2>1 DEF Opened, WindowOver, Ask
  <2>2. CASE Reloaded \/ AutoRefresh \/ AutoFailed \/ DeleteOver
    BY <1>1, <2>2 DEF Reloaded, AutoRefresh, AutoFailed, DeleteOver, Ask
  <2>3. CASE AutoDone \/ DialogOver
    BY <1>1, <2>3 DEF AutoDone, DialogOver, Reload, Ask
  <2> QED
    BY <1>5, <2>1, <2>2, <2>3 DEF WindowStep
<1>6. CASE UserStep
  BY <1>1, <1>6 DEF UserStep, Refresh, Goto, DeleteSelected, StartDelete, Cancel, Open,
         DeleteInWindow, Reload, Ask
<1>7. CASE TuiStep
  BY <1>1, <1>7 DEF TuiStep, TuiReload, TuiShow, TuiDelete, TuiGoesOn, TuiDies, Ask
<1>8. CASE Kill
  <2>1. UNCHANGED deletion /\ (call["del"] = None => call'["del"] = call["del"])
    BY <1>1, <1>8 DEF Kill, users
  <2>2. ASSUME call["del"] # None
        PROVE  call'["del"] = call["del"] \/ call'["del"] = [call["del"] EXCEPT !.at = "failed"]
    BY <1>1, <1>8, <2>2 DEF Kill
  <2>3. call["del"] # None => call["del"] \in Call
    BY <1>1
  <2> QED
    BY <2>1, <2>2, <2>3 DEF Call
<1>9. CASE UNCHANGED vars
  BY <1>9 DEF vars
<1> QED
  BY <1>2, <1>3, <1>4, <1>5, <1>6, <1>7, <1>8, <1>9 DEF Next

\* A deletion begins with everything left to do.
LEMMA StartInOrder ==
    ASSUME TypeInv, NEW d, NEW K, NEW where, StartDelete(d, K, where),
           where = "window" => \A x, y \in K : x = y
    PROVE  DeletionInOrder'
<1> DEFINE D == [folder |-> d, left |-> K, where |-> where, at |-> "run", n |-> 0,
                 open |-> TRUE, cancelled |-> FALSE, atCancel |-> 0]
<1>1. D.left = K /\ D.where = where /\ D.n = 0 /\ D.cancelled = FALSE
  OBVIOUS
<1>2. deletion' = D /\ UNCHANGED call /\ call["del"] = None
  BY DEF StartDelete, Idle
<1> HIDE DEF D
<1> QED
  BY <1>1, <1>2 DEF DeletionInOrder

\* A deletion goes on in order, whenever it is cancelled.
LEMMA DeletionInOrderStep ==
    TypeInv /\ TuiOpen /\ DeletionInOrder /\ [Next]_vars => DeletionInOrder'
<1> SUFFICES ASSUME TypeInv, TuiOpen, DeletionInOrder, [Next]_vars PROVE DeletionInOrder'
  OBVIOUS
<1>1. /\ call \in [Threads -> Call \cup {None}] /\ "del" \in Threads /\ deletion \in Deletion \cup {None}
  BY ThreadsThere DEF TypeInv, CallType, DeletionType
<1>2. deletion # None => deletion.n \in Nat /\ deletion.atCancel \in Nat
  BY <1>1 DEF Deletion
<1>3. CASE DeleteNext
  <2>1. deletion # None /\ call["del"] = None /\ deletion.at = "run"
    BY <1>3 DEF DeleteNext, Idle
  <2>2. CASE deletion' = [deletion EXCEPT !.at = "done"] /\ UNCHANGED call
    <3>1. /\ deletion' \in Deletion
          /\ UNCHANGED <<deletion.left, deletion.n, deletion.where, deletion.cancelled,
                         deletion.atCancel>>
      BY <2>1, <2>2, DeletionEffect
    <3> QED
      BY <2>1, <2>2, <3>1 DEF DeletionInOrder
  <2>3. CASE ~(deletion.left = {} \/ (deletion.cancelled /\ deletion.where = "main"))
    <3>1. PICK k \in deletion.left : Ask("del", "delete", deletion.folder, k)
      BY <1>3, <2>3 DEF DeleteNext
    <3>2. UNCHANGED deletion
      BY <1>3, <2>3 DEF DeleteNext
    <3>3. call'["del"].op = "delete" /\ call'["del"].key = k
      BY <1>1, <3>1 DEF Ask
    <3> QED
      BY <2>1, <2>3, <3>2, <3>3 DEF DeletionInOrder
  <2> QED
    BY <1>3, <2>2, <2>3 DEF DeleteNext
<1>4. CASE Deleted
  <2>1. /\ deletion # None /\ call["del"] # None /\ call'["del"] = None
        /\ call["del"].key \in deletion.left
    BY <1>1, <1>4 DEF Deleted, Ended, At, DeletionInOrder
  <2>2. CASE deletion' = [deletion EXCEPT !.at = "failed"]
    BY <2>1, <2>2, DeletionEffect DEF DeletionInOrder
  <2>3. CASE deletion' = [deletion EXCEPT !.left = @ \ {call["del"].key}, !.n = @ + 1]
    <3>1. /\ deletion' \in Deletion /\ deletion'.left = deletion.left \ {call["del"].key}
          /\ deletion'.n = deletion.n + 1 /\ deletion'.where = deletion.where
          /\ deletion'.cancelled = deletion.cancelled /\ deletion'.atCancel = deletion.atCancel
      BY <2>1, <2>3, DeletionEffect
    <3>2. deletion.where \in {"main", "window"}
      BY <1>1, <2>1 DEF Deletion
    <3>3. CASE deletion.where = "window"
      <4>1. deletion.n = 0 /\ deletion'.left = {}
        BY <2>1, <3>1, <3>3 DEF DeletionInOrder
      <4> QED
        BY <1>2, <2>1, <3>1, <3>3, <4>1 DEF DeletionInOrder
    <3>4. CASE deletion.where = "main"
      <4>1. deletion.cancelled => deletion'.n <= deletion'.atCancel + 1
        BY <1>2, <2>1, <3>1, <3>4 DEF DeletionInOrder
      <4> QED
        BY <2>1, <3>1, <3>4, <4>1 DEF DeletionInOrder
    <3> QED
      BY <3>2, <3>3, <3>4
  <2> QED
    BY <1>4, <2>2, <2>3 DEF Deleted
<1>5. CASE Cancel
  <2>1. /\ deletion # None /\ deletion.at = "run" /\ UNCHANGED call
        /\ deletion' = [deletion EXCEPT !.cancelled = TRUE, !.atCancel = deletion.n]
    BY <1>5 DEF Cancel, DialogOpen
  <2>2. /\ deletion' \in Deletion /\ deletion'.cancelled /\ deletion'.atCancel = deletion.n
        /\ UNCHANGED <<deletion.left, deletion.n, deletion.at, deletion.where>>
    BY <2>1, DeletionEffect
  <2> QED
    BY <1>2, <2>1, <2>2, MailboxAssumption DEF DeletionInOrder
<1>6. CASE DialogOver
  <2>1. deletion # None /\ deletion' = [deletion EXCEPT !.open = FALSE]
    BY <1>6 DEF DialogOver, DialogOpen
  <2>2. /\ deletion' \in Deletion
        /\ UNCHANGED <<deletion.left, deletion.n, deletion.at, deletion.where,
                       deletion.cancelled, deletion.atCancel>>
    BY <2>1, DeletionEffect
  <2>3. call'["del"] = call["del"]
    BY <1>1, <1>6 DEF DialogOver, Reload, Ask
  <2> QED
    BY <2>1, <2>2, <2>3, MailboxAssumption DEF DeletionInOrder
<1>7. CASE DeleteOver
  BY <1>7 DEF DeleteOver, DeletionInOrder
<1>8. CASE DeleteSelected
  BY <1>8, StartInOrder DEF DeleteSelected
<1>9. ASSUME NEW w \in Windows, DeleteInWindow(w) PROVE DeletionInOrder'
  BY <1>9, StartInOrder DEF DeleteInWindow
<1>10. CASE UNCHANGED deletion /\ ~DeleteNext /\ ~Deleted
  BY <1>10, WorkerCalls DEF DeletionInOrder
<1> QED
  BY <1>3, <1>4, <1>5, <1>6, <1>7, <1>8, <1>9, <1>10, DeletionSteps

\* After a cancel, the worker deletes at most the message it has begun.
THEOREM CancelStops == Spec => []CancelStopsRest
<1>1. Init => DeletionInOrder
  BY ThreadsThere DEF Init, DeletionInOrder
<1>2. DeletionInOrder => CancelStopsRest
  BY DEF DeletionInOrder, CancelStopsRest
<1> QED
  BY <1>1, <1>2, AlwaysTyped, DeletionInOrderStep, PTL DEF Spec

=============================================================================
