------------------------ MODULE OutboundApartProofs ------------------------
(***************************************************************************)
(* Proofs about Outbound where one processor runs, the writers of the      *)
(* queue file do not overlap and the user deletes nothing from Outbox, for *)
(* any messages, recipients and retry delays: what the file, the folders   *)
(* and the processor have to do with each other, and that the outbound     *)
(* path then implements DeliveryPromise.                                   *)
(***************************************************************************)
EXTENDS OutboundProofs

\* The environment.  A queue file that is not there is no list of entries.
Alone ==
    /\ Serialised /\ ~UserDeletes
    /\ \A s, t \in Senders : s = t
    /\ NoFile \notin SUBSET Entry

\* A processor works on an entry that is in the file, or on one that is not.
Held   == {"attempt", "read", "write", "replace"}
Moving == {"fetch", "copy", "drop", "bounce"}

-----------------------------------------------------------------------------
(* The queue file and its writers. *)

\* What an operation on the queue file makes of it as it is.
Change(p) ==
    IF p \in Msgs THEN queue \cup {NewEntry(p)}
    ELSE Without(queue, cur[p].key) \cup
           (IF goal[p] = "retry" /\ cur[p].rcpts # {} THEN {cur[p]} ELSE {})

WritersApart == \A p, q \in Procs : InWrite(p) /\ InWrite(q) => p = q

\* Nobody has changed the file since it was read.
ChangeIsCurrent ==
    \A p \in Procs : /\ InWrite(p) => buf[p] = Change(p)
                     /\ pc[p] = "replace" => tmp = buf[p]

\* One entry for a message, which its client has left and which is in Outbox.
QueueInOrder ==
    /\ \A e \in queue : e.key \in outbox /\ pc[e.key] = "queued"
    /\ \A e, f \in queue : e.key = f.key => e = f

ClientInOrder(m) == pc[m] \in {"read", "write", "replace"} => m \in outbox

\* The snapshot is still true but for the entry in hand, whose message is in
\* Outbox until it is moved.
HandInOrder(s) ==
    /\ todo[s] \subseteq queue
    /\ pc[s] \in Held \cup Moving =>
         pc[cur[s].key] = "queued" /\ \A e \in todo[s] : e.key # cur[s].key
    /\ pc[s] \in Held \cup {"fetch", "copy", "drop"} => cur[s].key \in outbox
    /\ pc[s] \in Moving => \A e \in queue : e.key # cur[s].key

FileInv ==
    /\ WritersApart /\ ChangeIsCurrent /\ QueueInOrder
    /\ \A m \in Msgs : ClientInOrder(m)
    /\ \A s \in Senders : HandInOrder(s)

\* Every entry is about a message, in the file and in hand.
LEMMA EntryFacts ==
    ASSUME TypeOK
    PROVE  /\ \A e \in queue : e \in Entry /\ e.key \in Msgs
           /\ \A s \in Senders : pc[s] \in Held \cup Moving =>
                /\ cur[s] \in Entry /\ cur[s].key \in Msgs
                /\ cur[s].rcpts \subseteq Rcpts
BY DEF TypeOK, StoreType, PassType, Entry, Held, Moving

\* Somebody who writes the file keeps others from reading it.
LEMMA ReaderAlone ==
    ASSUME Alone, NEW p \in Procs, MayRead(p), NEW q \in Procs, InWrite(q)
    PROVE  q = p
BY DEF Alone, MayRead

\* A step of the processor that does not touch the queue file.
LEMMA ProcessorStep ==
    ASSUME TypeOK, Alone, FileInv, NEW s \in Senders, NEW l \in Labels \ {"write", "replace"},
           queue' = queue, tmp' = tmp, Goto(s, l),
           \A m \in Msgs : buf'[m] = buf[m],
           \A e \in queue : e.key \in outbox',
           \A m \in Msgs : m \in outbox /\ pc[m] # "queued" => m \in outbox',
           HandInOrder(s)'
    PROVE  FileInv'
<1> USE ProcsFacts
<1>1. /\ pc'[s] = l /\ \A m \in Msgs : pc'[m] = pc[m]
      /\ \A q \in Procs : q = s \/ q \in Msgs
  BY DEF Goto, TypeOK, ProcType, Alone
<1>2. \A q \in Procs : InWrite(q)' => q \in Msgs /\ InWrite(q)
  BY <1>1 DEF InWrite
<1>3. WritersApart'
  BY <1>2 DEF WritersApart, FileInv
<1>4. ChangeIsCurrent'
  <2> SUFFICES ASSUME NEW q \in Procs, InWrite(q)'
               PROVE  /\ buf'[q] = Change(q)'
                      /\ pc'[q] = "replace" => tmp' = buf'[q]
    BY DEF ChangeIsCurrent, InWrite
  <2>1. q \in Msgs /\ InWrite(q) /\ pc'[q] = pc[q]
    BY <1>1, <1>2
  <2>2. Change(q)' = Change(q)
    BY <2>1 DEF Change, NewEntry
  <2> QED
    BY <2>1, <2>2 DEF FileInv, ChangeIsCurrent
<1>5. QueueInOrder'
  BY <1>1, EntryFacts DEF QueueInOrder, FileInv
<1>6. \A m \in Msgs : ClientInOrder(m)'
  BY <1>1 DEF ClientInOrder, FileInv
<1>7. \A t \in Senders : HandInOrder(t)'
  BY DEF Alone
<1> QED
  BY <1>3, <1>4, <1>5, <1>6, <1>7 DEF FileInv

\* A step of a client that does not touch the queue file.
LEMMA ClientStep ==
    ASSUME TypeOK, Alone, FileInv, NEW m \in Msgs, pc[m] # "queued",
           NEW l \in {"read", "error"}, queue' = queue, tmp' = tmp, Goto(m, l), UNCHANGED pass,
           \A q \in Procs : q # m => buf'[q] = buf[q],
           outbox \subseteq outbox', l = "read" => m \in outbox'
    PROVE  FileInv'
<1> USE ProcsFacts
<1>1. pc'[m] = l /\ \A q \in Procs : q # m => pc'[q] = pc[q]
  BY DEF Goto, TypeOK, ProcType
<1>2. \A q \in Procs : InWrite(q)' => q # m /\ InWrite(q)
  BY <1>1 DEF InWrite
<1>3. WritersApart'
  BY <1>2 DEF WritersApart, FileInv
<1>4. ChangeIsCurrent'
  <2> SUFFICES ASSUME NEW q \in Procs, InWrite(q)'
               PROVE  /\ buf'[q] = Change(q)'
                      /\ pc'[q] = "replace" => tmp' = buf'[q]
    BY DEF ChangeIsCurrent, InWrite
  <2>1. q # m /\ InWrite(q) /\ pc'[q] = pc[q]
    BY <1>1, <1>2
  <2>2. Change(q)' = Change(q)
    BY DEF Change, NewEntry, Without, pass
  <2> QED
    BY <2>1, <2>2 DEF FileInv, ChangeIsCurrent
<1>5. QueueInOrder'
  BY <1>1, EntryFacts DEF QueueInOrder, FileInv
<1>6. \A n \in Msgs : ClientInOrder(n)'
  BY <1>1 DEF ClientInOrder, FileInv
<1>7. \A t \in Senders : HandInOrder(t)'
  <2> SUFFICES ASSUME NEW t \in Senders PROVE HandInOrder(t)'
    OBVIOUS
  <2>1. pc'[t] = pc[t] /\ cur'[t] = cur[t] /\ todo'[t] = todo[t]
    BY <1>1 DEF pass
  <2>2. pc[t] \in Held \cup Moving => pc'[cur[t].key] = pc[cur[t].key]
    BY <1>1, EntryFacts DEF FileInv, HandInOrder
  <2> QED
    BY <2>1, <2>2 DEF FileInv, HandInOrder
<1> QED
  BY <1>3, <1>4, <1>5, <1>6, <1>7 DEF FileInv

\* An operation reads the file.
LEMMA ReadStep ==
    ASSUME TypeOK, Alone, FileInv, NEW p \in Procs, pc[p] = "read", MayRead(p),
           buf' = [buf EXCEPT ![p] = Change(p)], Goto(p, "write"),
           UNCHANGED <<folders, queue, tmp, pass>>
    PROVE  FileInv'
<1> USE ProcsFacts
<1>1. pc'[p] = "write" /\ \A q \in Procs : q # p => pc'[q] = pc[q]
  BY DEF Goto, TypeOK, ProcType
<1>2. buf'[p] = Change(p) /\ \A q \in Procs : q # p => buf'[q] = buf[q]
  BY DEF TypeOK, ProcType
<1>3. \A q \in Procs : InWrite(q)' => q = p
  BY <1>1, ReaderAlone DEF InWrite
<1>4. WritersApart'
  BY <1>3 DEF WritersApart
<1>5. Change(p)' = Change(p)
  BY DEF Change, NewEntry, Without, pass
<1>6. ChangeIsCurrent'
  BY <1>1, <1>2, <1>3, <1>5 DEF ChangeIsCurrent, InWrite
<1>7. \A m \in Msgs : (pc'[m] = "queued") <=> (pc[m] = "queued")
  BY <1>1
<1>8. QueueInOrder'
  BY <1>7, EntryFacts DEF QueueInOrder, FileInv, folders
<1>9. \A n \in Msgs : ClientInOrder(n)'
  BY <1>1 DEF ClientInOrder, FileInv, folders
<1>10. \A t \in Senders : HandInOrder(t)'
  <2> SUFFICES ASSUME NEW t \in Senders PROVE HandInOrder(t)'
    OBVIOUS
  <2>1. pc'[t] = pc[t] \/ (pc[t] = "read" /\ pc'[t] = "write")
    BY <1>1
  <2>2. cur'[t] = cur[t] /\ todo'[t] = todo[t] /\ outbox' = outbox
    BY DEF pass, folders
  <2>3. pc[t] \in Held \cup Moving => (pc'[cur[t].key] = "queued" <=> pc[cur[t].key] = "queued")
    BY <1>7, EntryFacts
  <2> QED
    BY <2>1, <2>2, <2>3 DEF FileInv, HandInOrder, Held, Moving
<1> QED
  BY <1>4, <1>6, <1>8, <1>9, <1>10 DEF FileInv

\* It writes the temporary file.
LEMMA WriteStep ==
    ASSUME TypeOK, Alone, FileInv, NEW p \in Procs, WriteTmp(p)
    PROVE  FileInv'
<1> USE ProcsFacts
<1>1. pc'[p] = "replace" /\ \A q \in Procs : q # p => pc'[q] = pc[q]
  BY DEF WriteTmp, Goto, TypeOK, ProcType
<1>2. InWrite(p) /\ \A q \in Procs : InWrite(q)' => q = p
  BY <1>1 DEF WriteTmp, InWrite, FileInv, WritersApart
<1>3. /\ tmp' = buf[p] /\ buf' = buf /\ queue' = queue /\ outbox' = outbox /\ pc[p] = "write"
      /\ UNCHANGED pass
  BY DEF WriteTmp, folders
<1>4. WritersApart'
  BY <1>2 DEF WritersApart
<1>5. Change(p)' = Change(p)
  BY <1>3 DEF Change, NewEntry, Without, pass
<1>6. ChangeIsCurrent'
  BY <1>1, <1>2, <1>3, <1>5 DEF ChangeIsCurrent, InWrite, FileInv
<1>7. \A m \in Msgs : (pc'[m] = "queued") <=> (pc[m] = "queued")
  BY <1>1, <1>3
<1>8. QueueInOrder'
  BY <1>3, <1>7, EntryFacts DEF QueueInOrder, FileInv
<1>9. \A n \in Msgs : ClientInOrder(n)'
  BY <1>1, <1>3 DEF ClientInOrder, FileInv
<1>10. \A t \in Senders : HandInOrder(t)'
  <2> SUFFICES ASSUME NEW t \in Senders PROVE HandInOrder(t)'
    OBVIOUS
  <2>1. pc'[t] = pc[t] \/ (pc[t] = "write" /\ pc'[t] = "replace")
    BY <1>1, <1>3
  <2>2. cur'[t] = cur[t] /\ todo'[t] = todo[t]
    BY <1>3 DEF pass
  <2>3. pc[t] \in Held \cup Moving => (pc'[cur[t].key] = "queued" <=> pc[cur[t].key] = "queued")
    BY <1>7, EntryFacts
  <2> QED
    BY <1>3, <2>1, <2>2, <2>3 DEF FileInv, HandInOrder, Held, Moving
<1> QED
  BY <1>4, <1>6, <1>8, <1>9, <1>10 DEF FileInv

\* The temporary file is there when it is to be renamed, and is the change.
LEMMA RenameFacts ==
    ASSUME TypeOK, Alone, FileInv, NEW p \in Procs, pc[p] = "replace"
    PROVE  /\ tmp = Change(p) /\ tmp # NoFile
           /\ \A q \in Procs : InWrite(q) => q = p
<1>1. InWrite(p)
  BY DEF InWrite
<1>2. tmp = buf[p] /\ buf[p] = Change(p)
  BY <1>1 DEF FileInv, ChangeIsCurrent
<1>3. buf[p] \in SUBSET Entry
  BY DEF TypeOK, ProcType
<1> QED
  BY <1>1, <1>2, <1>3 DEF Alone, FileInv, WritersApart

\* So no rename fails.
LEMMA NoTmpIsGone ==
    ASSUME TypeOK, Alone, FileInv, NEW p \in Procs, TmpIsGone(p)
    PROVE  FALSE
BY RenameFacts DEF TmpIsGone

\* A client's rename: its entry is in the file, and the client has left.
LEMMA ClientRename ==
    ASSUME TypeOK, Alone, FileInv, NEW m \in Msgs, ReplaceTmp(m)
    PROVE  FileInv'
<1> USE ProcsFacts
<1>1. pc'[m] = "queued" /\ \A q \in Procs : q # m => pc'[q] = pc[q]
  BY DEF ReplaceTmp, Goto, TypeOK, ProcType
<1>2. pc[m] = "replace" /\ UNCHANGED <<pass, outbox>>
  BY DEF ReplaceTmp, folders
<1>3. queue' = queue \cup {NewEntry(m)}
  BY <1>2, RenameFacts DEF ReplaceTmp, Change
<1>4. \A q \in Procs : ~InWrite(q)'
  BY <1>1, <1>2, RenameFacts DEF InWrite
<1>5. WritersApart' /\ ChangeIsCurrent'
  BY <1>4 DEF WritersApart, ChangeIsCurrent, InWrite
<1>6. m \in outbox /\ NewEntry(m).key = m
  BY <1>2 DEF FileInv, ClientInOrder, NewEntry
<1>7. \A e \in queue : e.key # m
  BY <1>2 DEF FileInv, QueueInOrder
<1>8. QueueInOrder'
  BY <1>1, <1>2, <1>3, <1>6, <1>7, EntryFacts DEF QueueInOrder, FileInv
<1>9. \A n \in Msgs : ClientInOrder(n)'
  BY <1>1, <1>2 DEF ClientInOrder, FileInv
<1>10. \A t \in Senders : HandInOrder(t)'
  <2> SUFFICES ASSUME NEW t \in Senders PROVE HandInOrder(t)'
    OBVIOUS
  <2>1. pc'[t] = pc[t] /\ cur'[t] = cur[t] /\ todo'[t] = todo[t]
    BY <1>1, <1>2 DEF pass
  <2>2. pc[t] \in Held \cup Moving => pc'[cur[t].key] = "queued" /\ cur[t].key # m
    BY <1>1, <1>2, EntryFacts DEF FileInv, HandInOrder
  <2> QED
    BY <1>2, <1>3, <1>6, <2>1, <2>2 DEF FileInv, HandInOrder
<1> QED
  BY <1>5, <1>8, <1>9, <1>10 DEF FileInv

\* The processor's rename: the entry in hand is replaced or gone.
LEMMA ProcessorRename ==
    ASSUME TypeOK, Alone, FileInv, NEW s \in Senders, ReplaceTmp(s)
    PROVE  FileInv'
<1> USE ProcsFacts
<1>a. PICK l \in {"scan", "fetch"} :
         /\ Goto(s, l)
         /\ (l = "fetch") => cur' = cur
         /\ (l = "fetch") <=> (goal[s] # "retry")
  BY DEF ReplaceTmp, NextEntry, pass
<1>1. pc'[s] = l /\ \A q \in Procs : q # s => pc'[q] = pc[q]
  BY <1>a DEF Goto, TypeOK, ProcType
<1>2. pc[s] = "replace" /\ UNCHANGED outbox /\ todo' = todo
  BY DEF ReplaceTmp, folders, NextEntry, pass
<1>3. /\ queue' = Without(queue, cur[s].key) \cup
                    (IF goal[s] = "retry" /\ cur[s].rcpts # {} THEN {cur[s]} ELSE {})
      /\ cur[s].key \in Msgs /\ cur[s].key \in outbox /\ pc[cur[s].key] = "queued"
      /\ \A e \in todo[s] : e.key # cur[s].key
      /\ todo[s] \subseteq queue
  <2>1. queue' = Change(s)
    BY <1>2, RenameFacts DEF ReplaceTmp
  <2> QED
    BY <1>2, <2>1, EntryFacts DEF Change, FileInv, HandInOrder, Held
<1>4. \A q \in Procs : ~InWrite(q)'
  BY <1>1, <1>2, RenameFacts DEF InWrite
<1>5. WritersApart' /\ ChangeIsCurrent'
  BY <1>4 DEF WritersApart, ChangeIsCurrent, InWrite
<1>6. \A m \in Msgs : pc'[m] = pc[m]
  BY <1>1
<1>7. \A e \in queue' : e = cur[s] \/ (e \in queue /\ e.key # cur[s].key)
  BY <1>3 DEF Without
<1>8. QueueInOrder'
  BY <1>2, <1>3, <1>6, <1>7, EntryFacts DEF QueueInOrder, FileInv
<1>9. \A n \in Msgs : ClientInOrder(n)'
  BY <1>2, <1>6 DEF ClientInOrder, FileInv
<1>10. HandInOrder(s)'
  <2>1. todo'[s] \subseteq queue'
    BY <1>2, <1>3 DEF Without
  <2>2. CASE l = "scan"
    BY <1>1, <2>1, <2>2 DEF HandInOrder, Held, Moving
  <2>3. CASE l = "fetch"
    <3>1. \A e \in queue' : e.key # cur'[s].key
      BY <1>3, <1>a, <2>3 DEF Without
    <3> QED
      BY <1>1, <1>2, <1>3, <1>6, <1>a, <2>1, <2>3, <3>1 DEF HandInOrder, Held, Moving
  <2> QED
    BY <2>2, <2>3
<1> QED
  BY <1>5, <1>8, <1>9, <1>10 DEF FileInv, Alone

\* The user deletes nothing here.
LEMMA NoUserDelete == ASSUME Alone, NEW m \in Msgs, UserDelete(m) PROVE FALSE
BY DEF UserDelete, Alone

\* A pass is left, by whatever way.
LEMMA LeaveFileInv ==
    ASSUME TypeOK, Alone, FileInv, NEW s \in Senders, Abort(s), queue' = queue, tmp' = tmp,
           UNCHANGED folders, \A m \in Msgs : buf'[m] = buf[m]
    PROVE  FileInv'
<1>1. pc'[s] = "idle" /\ todo'[s] = {}
  BY ProcsFacts DEF Abort, ForgetPass, Goto, TypeOK, ProcType, PassType
<1>2. HandInOrder(s)'
  BY <1>1 DEF HandInOrder, Held, Moving
<1>3. \A e \in queue : e.key \in outbox'
  BY DEF FileInv, QueueInOrder, folders
<1>4. \A m \in Msgs : m \in outbox /\ pc[m] # "queued" => m \in outbox'
  BY DEF folders
<1> QED
  BY <1>2, <1>3, <1>4, ProcessorStep DEF Abort, Labels

\* Every step keeps the file in order: one step of the proof per action.
LEMMA FileInvStep ==
    ASSUME TypeOK, Alone, FileInv, [Next]_vars
    PROVE  FileInv'
<1> USE ProcsFacts
<1>1. ASSUME NEW m \in Msgs, AddToOutbox(m) PROVE FileInv'
  BY <1>1, ClientStep DEF AddToOutbox
<1>2. ASSUME NEW m \in Msgs, EnqueueRead(m) PROVE FileInv'
  <2>1. Change(m) = queue \cup {NewEntry(m)}
    BY DEF Change
  <2> QED
    BY <1>2, <2>1, ReadStep DEF EnqueueRead
<1>3. ASSUME NEW s \in Senders, StartPass(s) PROVE FileInv'
  <2>1. pc'[s] = "scan" /\ todo'[s] = queue /\ queue' = queue
    BY <1>3 DEF StartPass, Goto, TypeOK, ProcType, PassType
  <2>2. HandInOrder(s)'
    BY <2>1 DEF HandInOrder, Held, Moving
  <2> QED
    BY <1>3, <2>2, ProcessorStep DEF StartPass, Labels, folders, FileInv, QueueInOrder
<1>4. ASSUME NEW s \in Senders, TakeEntry(s) PROVE FileInv'
  <2> PICK e \in todo[s] :
        /\ e.key \in outbox
        /\ cur' = [cur EXCEPT ![s] = e]
        /\ todo' = [todo EXCEPT ![s] = @ \ {e}]
    BY <1>4 DEF TakeEntry
  <2>1. /\ pc'[s] = "attempt" /\ cur'[s] = e /\ todo'[s] = todo[s] \ {e}
        /\ \A m \in Msgs : pc'[m] = pc[m]
    BY <1>4 DEF TakeEntry, Goto, TypeOK, ProcType, PassType
  <2>2. todo[s] \subseteq queue
    BY DEF FileInv, HandInOrder
  <2>3. e \in queue /\ e.key \in Msgs /\ pc[e.key] = "queued"
    BY <2>2, EntryFacts DEF FileInv, QueueInOrder
  <2>4. \A f \in todo'[s] : f.key # e.key
    BY <2>1, <2>2, <2>3 DEF FileInv, QueueInOrder
  <2>5. HandInOrder(s)'
    BY <1>4, <2>1, <2>2, <2>3, <2>4 DEF TakeEntry, HandInOrder, Held, Moving, folders
  <2> QED
    BY <1>4, <2>5, ProcessorStep DEF TakeEntry, Labels, folders, FileInv, QueueInOrder
<1>5. ASSUME NEW s \in Senders, EntryWithoutMessage(s) PROVE FileInv'
  BY <1>5, LeaveFileInv DEF EntryWithoutMessage
<1>6. ASSUME NEW s \in Senders, EndPass(s) PROVE FileInv'
  BY <1>6, LeaveFileInv DEF EndPass, Abort
<1>7. ASSUME NEW s \in Senders, Attempt(s) PROVE FileInv'
  <2>1. pc' = pc /\ buf' = buf /\ queue' = queue /\ tmp' = tmp /\ UNCHANGED folders
        /\ cur' = cur /\ todo' = todo /\ pc[s] = "attempt"
    BY <1>7 DEF Attempt
  <2>2. Goto(s, "attempt")
    BY <2>1 DEF Goto, TypeOK, ProcType
  <2>3. HandInOrder(s)'
    BY <2>1 DEF FileInv, HandInOrder, folders
  <2> QED
    BY <2>1, <2>2, <2>3, ProcessorStep DEF Labels, folders, FileInv, QueueInOrder
<1>8. ASSUME NEW s \in Senders, AttemptRaises(s) PROVE FileInv'
  BY <1>8, LeaveFileInv DEF AttemptRaises
<1>9. ASSUME NEW s \in Senders, Conclude(s) PROVE FileInv'
  <2>1. /\ pc[s] = "attempt" /\ pc'[s] = "read" /\ \A m \in Msgs : pc'[m] = pc[m]
        /\ Goto(s, "read") /\ todo' = todo /\ buf' = buf /\ queue' = queue /\ tmp' = tmp
        /\ UNCHANGED folders /\ cur'[s].key = cur[s].key
    BY <1>9 DEF Conclude, ConcludeAs, Goto, TypeOK, ProcType, PassType
  <2>2. HandInOrder(s)'
    BY <2>1, EntryFacts DEF FileInv, HandInOrder, folders, Held, Moving
  <2> QED
    BY <2>1, <2>2, ProcessorStep DEF Labels, folders, FileInv, QueueInOrder
<1>10. ASSUME NEW s \in Senders, UpdateRead(s) \/ CompleteRead(s) PROVE FileInv'
  <2>1. buf' = [buf EXCEPT ![s] = Change(s)]
    BY <1>10 DEF UpdateRead, CompleteRead, Change
  <2> QED
    BY <1>10, <2>1, ReadStep DEF UpdateRead, CompleteRead
<1>11. ASSUME NEW s \in Senders, MoveFetch(s) PROVE FileInv'
  <2>1. cur[s].key \in outbox /\ pc[s] = "fetch"
    BY <1>11 DEF MoveFetch, FileInv, HandInOrder
  <2>2. /\ Goto(s, "copy") /\ UNCHANGED <<pass, folders, queue, tmp, buf>>
    BY <1>11, <2>1 DEF MoveFetch
  <2>3. pc'[s] = "copy" /\ \A m \in Msgs : pc'[m] = pc[m]
    BY <2>2 DEF Goto, TypeOK, ProcType
  <2>4. HandInOrder(s)'
    BY <2>1, <2>2, <2>3, EntryFacts DEF FileInv, HandInOrder, folders, pass, Held, Moving
  <2> QED
    BY <2>2, <2>4, ProcessorStep DEF Labels, folders, FileInv, QueueInOrder
<1>12. ASSUME NEW s \in Senders, MoveCopy(s) PROVE FileInv'
  <2>1. pc[s] = "copy" /\ Goto(s, "drop") /\ UNCHANGED <<pass, outbox, queue, tmp, buf>>
    BY <1>12 DEF MoveCopy
  <2>2. pc'[s] = "drop" /\ \A m \in Msgs : pc'[m] = pc[m]
    BY <2>1 DEF Goto, TypeOK, ProcType
  <2>3. HandInOrder(s)'
    BY <2>1, <2>2, EntryFacts DEF FileInv, HandInOrder, pass, Held, Moving
  <2> QED
    BY <2>1, <2>3, ProcessorStep DEF Labels, FileInv, QueueInOrder
<1>13. ASSUME NEW s \in Senders, MoveDrop(s) PROVE FileInv'
  <2>1. pc[s] = "drop" /\ outbox' = outbox \ {cur[s].key} /\ UNCHANGED <<queue, tmp, buf>>
    BY <1>13 DEF MoveDrop
  <2>2. PICK l \in {"bounce", "scan"} :
          /\ Goto(s, l)
          /\ (l = "bounce") => cur' = cur
          /\ todo' = todo
    BY <1>13 DEF MoveDrop, NextEntry, pass
  <2>3. pc'[s] = l /\ \A m \in Msgs : pc'[m] = pc[m]
    BY <2>2 DEF Goto, TypeOK, ProcType
  <2>4. /\ \A e \in queue : e.key # cur[s].key
        /\ pc[cur[s].key] = "queued" /\ cur[s].key \in Msgs
    BY <2>1, EntryFacts DEF FileInv, HandInOrder, Moving
  <2>5. HandInOrder(s)'
    BY <2>1, <2>2, <2>3, <2>4 DEF FileInv, HandInOrder, Held, Moving
  <2> QED
    BY <2>1, <2>2, <2>4, <2>5, ProcessorStep DEF Labels, FileInv, QueueInOrder
<1>14. ASSUME NEW s \in Senders, Bounce(s) PROVE FileInv'
  <2>1. Goto(s, "scan") /\ todo' = todo /\ UNCHANGED <<outbox, queue, tmp, buf>>
    BY <1>14 DEF Bounce, NextEntry
  <2>2. pc'[s] = "scan"
    BY <2>1 DEF Goto, TypeOK, ProcType
  <2>3. HandInOrder(s)'
    BY <2>1, <2>2 DEF FileInv, HandInOrder, Held, Moving
  <2> QED
    BY <2>1, <2>3, ProcessorStep DEF Labels, FileInv, QueueInOrder
<1>15. ASSUME NEW p \in Procs, WriteTmp(p) PROVE FileInv'
  BY <1>15, WriteStep
<1>16. ASSUME NEW p \in Procs, ReplaceTmp(p) PROVE FileInv'
  BY <1>16, ClientRename, ProcessorRename
<1>17. ASSUME NEW p \in Procs, TmpIsGone(p) PROVE FileInv'
  BY <1>17, NoTmpIsGone
<1>18. ASSUME NEW m \in Msgs, UserDelete(m) PROVE FileInv'
  BY <1>18, NoUserDelete
<1>19. ASSUME NEW p \in Procs, Crash(p) PROVE FileInv'
  <2>1. CASE p \in Msgs
    <3>1. pc[p] # "queued" /\ Goto(p, "error") /\ UNCHANGED <<pass, folders, queue, tmp>>
      BY <1>19, <2>1 DEF Crash
    <3>2. \A q \in Procs : q # p => buf'[q] = buf[q]
      BY <1>19 DEF Crash, TypeOK, ProcType
    <3> QED
      BY <2>1, <3>1, <3>2, ClientStep DEF folders
  <2>2. CASE p \in Senders
    <3>1. Abort(p) /\ UNCHANGED <<folders, queue, tmp>>
      BY <1>19, <2>2 DEF Crash
    <3>2. \A m \in Msgs : buf'[m] = buf[m]
      BY <1>19, <2>2 DEF Crash, TypeOK, ProcType
    <3> QED
      BY <2>2, <3>1, <3>2, LeaveFileInv
  <2> QED
    BY <2>1, <2>2
<1>20. CASE Tick \/ UNCHANGED vars
  <2>1. UNCHANGED <<folders, queue, tmp, pc, buf, pass>>
    BY <1>20 DEF Tick, vars
  <2> QED
    BY <2>1 DEF FileInv, WritersApart, ChangeIsCurrent, QueueInOrder, ClientInOrder,
         HandInOrder, InWrite, Change, NewEntry, Without, folders, pass
<1> QED
  BY <1>1, <1>2, <1>3, <1>4, <1>5, <1>6, <1>7, <1>8, <1>9, <1>10, <1>11, <1>12, <1>13,
     <1>14, <1>15, <1>16, <1>17, <1>18, <1>19, <1>20 DEF Next, EnqueueStep, PassStep

\* It is in order to begin with.
LEMMA FileInvInit == Init => FileInv
<1> SUFFICES ASSUME Init PROVE FileInv
  OBVIOUS
<1>1. \A p \in Procs : pc[p] \in {"new", "idle"}
  BY DEF Init
<1> QED
  BY <1>1, ProcsFacts DEF Init, FileInv, WritersApart, ChangeIsCurrent, QueueInOrder,
     ClientInOrder, HandInOrder, InWrite, Held, Moving

\* The file is always in order, whoever is killed and whatever the link loses.
LEMMA AlwaysInOrder == Alone => (Spec => []FileInv)
<1> SUFFICES ASSUME Alone PROVE Spec => []FileInv
  OBVIOUS
<1>1. TypeOK /\ FileInv /\ [Next]_vars => FileInv'
  BY FileInvStep
<1> QED
  BY <1>1, FileInvInit, TypeCorrect, PTL DEF Spec

\* store.py:160 (enqueue) adds the message before its entry, and sender.py:137
\* removes the entry before it moves the message: no entry outlives its message,
\* even if a process is killed between the two.
THEOREM EveryEntryHasItsMessage == Alone => (Spec => []NoEntryWithoutMessage)
<1>1. FileInv => NoEntryWithoutMessage
  BY DEF FileInv, QueueInOrder, NoEntryWithoutMessage
<1> QED
  BY <1>1, AlwaysInOrder, PTL

-----------------------------------------------------------------------------
(* A pass ends only when nothing is left to do. *)

\* Where a processor can be after its own step, and that nobody else moves it.
LEMMA WhoLeavesThePass ==
    ASSUME TypeOK, Alone, FileInv, Unencodable = {}, [Next]_vars,
           NEW s \in Senders, pc[s] # "idle", pc'[s] = "idle", crashes' = crashes
    PROVE  EndPass(s)
<1> USE ProcsFacts
<1>1. ASSUME NEW p \in Procs \ {s}, NEW l \in Labels, Goto(p, l) PROVE FALSE
  BY <1>1 DEF Goto, TypeOK, ProcType
<1>2. ASSUME NEW l \in Labels, l # "idle", Goto(s, l) PROVE FALSE
  BY <1>2 DEF Goto, TypeOK, ProcType
<1>3. \A t \in Senders : t = s
  BY DEF Alone
<1>4. pc' # pc
  OBVIOUS
<1>5. ASSUME NEW m \in Msgs, AddToOutbox(m) \/ EnqueueStep(m) PROVE FALSE
  <2>1. \E l \in Labels : Goto(m, l)
    BY <1>5 DEF AddToOutbox, EnqueueStep, EnqueueRead, WriteTmp, ReplaceTmp, TmpIsGone, Labels
  <2> QED
    BY <2>1, <1>1
<1>6. ~StartPass(s)
  BY DEF StartPass
<1>7. ~TakeEntry(s) /\ ~Conclude(s) /\ ~UpdateRead(s) /\ ~CompleteRead(s) /\ ~WriteTmp(s)
      /\ ~MoveCopy(s)
  BY <1>2 DEF TakeEntry, Conclude, ConcludeAs, UpdateRead, CompleteRead, WriteTmp, MoveCopy,
       Labels
<1>8. ~MoveDrop(s) /\ ~Bounce(s) /\ ~ReplaceTmp(s)
  BY <1>2 DEF MoveDrop, Bounce, ReplaceTmp, NextEntry, Labels
<1>9. ~EntryWithoutMessage(s)
  BY DEF EntryWithoutMessage, FileInv, HandInOrder, QueueInOrder
<1>10. ~Attempt(s)
  BY <1>4 DEF Attempt
<1>11. ~AttemptRaises(s)
  BY DEF AttemptRaises
<1>12. ~MoveFetch(s)
  BY <1>2 DEF MoveFetch, FileInv, HandInOrder, Labels
<1>13. ~TmpIsGone(s)
  BY NoTmpIsGone
<1>14. \A m \in Msgs : ~UserDelete(m)
  BY NoUserDelete
<1>15. \A p \in Procs : ~Crash(p)
  BY DEF Crash, TypeOK, HistoryType
<1>16. ~Tick /\ ~(UNCHANGED vars)
  BY <1>4 DEF Tick, vars
<1> QED
  BY <1>3, <1>5, <1>6, <1>7, <1>8, <1>9, <1>10, <1>11, <1>12, <1>13, <1>14, <1>15, <1>16
     DEF Next, PassStep

\* sender.py:99, "Attempt every due queue entry once": a pass of the only
\* processor, with addresses smtplib can encode, ends with no due entry of its
\* snapshot left, however the queue file is written meanwhile.
THEOREM PassAttemptsAllDue ==
    (Alone /\ Unencodable = {}) => (Spec => EveryDueEntryAttempted)
<1> SUFFICES ASSUME Alone, Unencodable = {} PROVE Spec => EveryDueEntryAttempted
  OBVIOUS
<1>1. TypeOK /\ FileInv /\ [Next]_vars =>
        [\A s \in Senders :
           pc[s] # "idle" /\ pc'[s] = "idle" /\ crashes' = crashes
             => \A e \in todo[s] : ~Due(e, now[s])]_vars
  BY WhoLeavesThePass DEF EndPass
<1> QED
  BY <1>1, AlwaysInOrder, TypeCorrect, PTL DEF Spec, EveryDueEntryAttempted

-----------------------------------------------------------------------------
(* Nobody is killed: the folders, the notices and the processor. *)

\* Why the verdict on a message is the first and only one, and is reported.
VerdictInOrder ==
    /\ NoOrphan /\ FailureIsReported /\ sent \cap failed = {}
    /\ \A m \in sent \cup failed :
         /\ pc[m] = "queued"
         /\ m \in outbox => \E s \in Senders : cur[s].key = m /\ pc[s] = "drop"
    /\ \A s \in Senders :
         /\ pc[s] \in {"drop", "bounce"} => \A n \in notices : n.key # cur[s].key
         /\ pc[s] \in {"read", "write", "replace"} /\ goal[s] = "retry" => cur[s].rcpts # {}

\* The message in the hand of a processor that has not filed it is in Outbox only.
LEMMA InHandIsUnfiled ==
    ASSUME TypeOK, Alone, FileInv, VerdictInOrder, NEW s \in Senders,
           pc[s] \in Held \cup {"fetch", "copy"}
    PROVE  /\ cur[s].key \in Msgs /\ pc[cur[s].key] = "queued"
           /\ cur[s].key \in outbox /\ cur[s].key \notin sent \cup failed
<1>1. cur[s].key \in Msgs /\ pc[cur[s].key] = "queued" /\ cur[s].key \in outbox
  BY EntryFacts DEF FileInv, HandInOrder, Held, Moving
<1>2. \A t \in Senders : pc[t] # "drop"
  BY DEF Alone, Held
<1> QED
  BY <1>1, <1>2 DEF VerdictInOrder

\* A step that moves no message, loses no entry and leaves no move half done.
LEMMA QuietStep ==
    ASSUME TypeOK, VerdictInOrder, UNCHANGED folders,
           \A m \in Msgs : (pc'[m] = "queued") <=> (pc[m] = "queued"),
           \A e \in queue : \E f \in queue' : f.key = e.key,
           \A s \in Senders :
             /\ pc[s] \in Moving => pc'[s] = pc[s] /\ cur'[s] = cur[s]
             /\ pc'[s] \in {"drop", "bounce"} => pc[s] \in Moving
             /\ pc'[s] \in {"read", "write", "replace"} /\ goal'[s] = "retry"
                  => cur'[s].rcpts # {}
    PROVE  VerdictInOrder'
<1>1. outbox \subseteq Msgs /\ sent \subseteq Msgs /\ failed \subseteq Msgs
  BY DEF TypeOK, StoreType
<1>2. NoOrphan'
  BY <1>1 DEF VerdictInOrder, NoOrphan, folders, Moving
<1>3. FailureIsReported'
  BY <1>1 DEF VerdictInOrder, FailureIsReported, folders, Moving
<1> QED
  BY <1>1, <1>2, <1>3 DEF VerdictInOrder, folders, Moving

\* Every step keeps the verdicts in order: one step of the proof per action.
LEMMA VerdictStep ==
    ASSUME TypeOK, TypeOK', Alone, MaxCrashes = 0, FileInv, Honest, VerdictInOrder,
           [Next]_vars
    PROVE  VerdictInOrder'
<1> USE ProcsFacts
<1>a. \A s, t \in Senders : s = t
  BY DEF Alone
<1>b. outbox \subseteq Msgs /\ sent \subseteq Msgs /\ failed \subseteq Msgs
  BY DEF TypeOK, StoreType
<1>c. ASSUME NEW m \in Msgs, NEW l \in Labels, Goto(m, l), pc[m] # "queued", l # "queued",
             queue' = queue, UNCHANGED <<pass, folders>>
      PROVE  VerdictInOrder'
  <2>1. pc'[m] = l /\ \A p \in Procs : p # m => pc'[p] = pc[p]
    BY <1>c DEF Goto, TypeOK, ProcType
  <2>2. \A n \in Msgs : (pc'[n] = "queued") <=> (pc[n] = "queued")
    BY <1>c, <2>1
  <2>3. \A s \in Senders : pc'[s] = pc[s] /\ cur'[s] = cur[s] /\ goal'[s] = goal[s]
    BY <1>c, <2>1 DEF pass
  <2>4. \A s \in Senders :
          pc[s] \in {"read", "write", "replace"} /\ goal[s] = "retry" => cur[s].rcpts # {}
    BY DEF VerdictInOrder
  <2> QED
    BY <1>c, <2>2, <2>3, <2>4, QuietStep DEF Moving
<1>d. ASSUME NEW s \in Senders, NEW l \in Labels \ {"drop", "bounce"}, Goto(s, l),
             pc[s] \notin Moving, queue' = queue, UNCHANGED folders,
             l \in {"read", "write", "replace"} /\ goal'[s] = "retry" => cur'[s].rcpts # {}
      PROVE  VerdictInOrder'
  <2>1. pc'[s] = l /\ \A m \in Msgs : pc'[m] = pc[m]
    BY <1>d DEF Goto, TypeOK, ProcType
  <2> QED
    BY <1>a, <1>d, <2>1, QuietStep
<1>1. ASSUME NEW m \in Msgs, AddToOutbox(m) PROVE VerdictInOrder'
  <2>1. pc'[m] = "read" /\ \A p \in Procs : p # m => pc'[p] = pc[p]
    BY <1>1 DEF AddToOutbox, Goto, TypeOK, ProcType
  <2>2. /\ outbox' = outbox \cup {m} /\ UNCHANGED <<sent, failed, notices, queue, pass>>
        /\ pc[m] = "new"
    BY <1>1 DEF AddToOutbox
  <2>3. NoOrphan'
    BY <1>b, <2>1, <2>2 DEF VerdictInOrder, NoOrphan, pass
  <2>4. FailureIsReported'
    BY <2>1, <2>2 DEF VerdictInOrder, FailureIsReported, pass
  <2> QED
    BY <1>b, <2>1, <2>2, <2>3, <2>4 DEF VerdictInOrder, pass
<1>2. ASSUME NEW m \in Msgs, EnqueueRead(m) PROVE VerdictInOrder'
  BY <1>2, <1>c DEF EnqueueRead, Labels
<1>3. ASSUME NEW s \in Senders, StartPass(s) PROVE VerdictInOrder'
  BY <1>3, <1>d DEF StartPass, Labels, Moving, folders
<1>4. ASSUME NEW s \in Senders, TakeEntry(s) PROVE VerdictInOrder'
  BY <1>4, <1>d DEF TakeEntry, Labels, Moving, folders
<1>5. ASSUME NEW s \in Senders, EntryWithoutMessage(s) PROVE VerdictInOrder'
  BY <1>5, <1>d DEF EntryWithoutMessage, Abort, Labels, Moving, folders
<1>6. ASSUME NEW s \in Senders, EndPass(s) PROVE VerdictInOrder'
  BY <1>6, <1>d DEF EndPass, Labels, Moving, folders
<1>7. ASSUME NEW s \in Senders, Attempt(s) PROVE VerdictInOrder'
  <2>1. Goto(s, "attempt")
    BY <1>7 DEF Attempt, Goto, TypeOK, ProcType
  <2> QED
    BY <1>7, <2>1, <1>d DEF Attempt, Labels, Moving, folders
<1>8. ASSUME NEW s \in Senders, AttemptRaises(s) PROVE VerdictInOrder'
  BY <1>8, <1>d DEF AttemptRaises, Abort, Labels, Moving, folders
<1>9. ASSUME NEW s \in Senders, Conclude(s) PROVE VerdictInOrder'
  <2>1. goal'[s] = "retry" => cur'[s].rcpts # {}
    BY <1>9 DEF Conclude, ConcludeAs, TypeOK, PassType
  <2> QED
    BY <1>9, <2>1, <1>d DEF Conclude, ConcludeAs, Labels, Moving, folders
<1>10. ASSUME NEW s \in Senders, UpdateRead(s) \/ CompleteRead(s) PROVE VerdictInOrder'
  <2>1. /\ pc[s] = "read" /\ Goto(s, "write") /\ queue' = queue
        /\ UNCHANGED <<folders, pass>>
    BY <1>10 DEF UpdateRead, CompleteRead
  <2>2. goal'[s] = "retry" => cur'[s].rcpts # {}
    BY <2>1 DEF VerdictInOrder, pass
  <2> QED
    BY <2>1, <2>2, <1>d DEF Labels, Moving
<1>11. ASSUME NEW s \in Senders, MoveFetch(s) PROVE VerdictInOrder'
  <2>1. cur[s].key \in outbox /\ pc[s] = "fetch"
    BY <1>11 DEF MoveFetch, FileInv, HandInOrder
  <2>2. Goto(s, "copy") /\ UNCHANGED <<pass, folders, queue>>
    BY <1>11, <2>1 DEF MoveFetch
  <2>3. pc'[s] = "copy" /\ \A m \in Msgs : pc'[m] = pc[m]
    BY <2>2 DEF Goto, TypeOK, ProcType
  <2>4. NoOrphan'
    BY <1>a, <1>b, <2>1, <2>2, <2>3 DEF VerdictInOrder, NoOrphan, folders, pass
  <2>5. FailureIsReported'
    BY <1>a, <2>1, <2>2, <2>3 DEF VerdictInOrder, FailureIsReported, folders, pass
  <2> QED
    BY <1>a, <1>b, <2>1, <2>2, <2>3, <2>4, <2>5 DEF VerdictInOrder, folders, pass
<1>12. ASSUME NEW s \in Senders, MoveCopy(s) PROVE VerdictInOrder'
  <2>1. /\ pc[s] = "copy" /\ Goto(s, "drop") /\ UNCHANGED <<pass, outbox, notices, queue>>
        /\ \/ sent' = sent \cup {cur[s].key} /\ failed' = failed
           \/ failed' = failed \cup {cur[s].key} /\ sent' = sent
    BY <1>12 DEF MoveCopy
  <2>2. pc'[s] = "drop" /\ (\A m \in Msgs : pc'[m] = pc[m]) /\ cur'[s] = cur[s]
    BY <2>1 DEF Goto, TypeOK, ProcType, pass
  <2>3. /\ cur[s].key \in Msgs /\ pc[cur[s].key] = "queued"
        /\ cur[s].key \notin sent \cup failed
    BY <2>1, InHandIsUnfiled
  <2>4. NoOrphan'
    BY <1>a, <1>b, <2>1, <2>2 DEF VerdictInOrder, NoOrphan
  <2>5. FailureIsReported'
    BY <1>a, <2>1, <2>2 DEF VerdictInOrder, FailureIsReported
  <2>6. \A n \in notices : n.key # cur[s].key
    BY <2>3 DEF Honest, NoticeIsAboutFailure
  <2>7. \A m \in sent' \cup failed' :
          /\ pc'[m] = "queued"
          /\ m \in outbox' => \E t \in Senders : cur'[t].key = m /\ pc'[t] = "drop"
    BY <1>a, <1>b, <2>1, <2>2, <2>3 DEF VerdictInOrder
  <2>8. sent' \cap failed' = {}
    BY <2>1, <2>3 DEF VerdictInOrder
  <2> QED
    BY <1>a, <2>1, <2>2, <2>4, <2>5, <2>6, <2>7, <2>8 DEF VerdictInOrder
<1>13. ASSUME NEW s \in Senders, MoveDrop(s) PROVE VerdictInOrder'
  <2>1. /\ pc[s] = "drop" /\ outbox' = outbox \ {cur[s].key}
        /\ UNCHANGED <<sent, failed, notices, queue>>
    BY <1>13 DEF MoveDrop
  <2>2. \/ goal[s] = "failed" /\ Goto(s, "bounce") /\ cur' = cur
        \/ goal[s] # "failed" /\ Goto(s, "scan")
    BY <1>13 DEF MoveDrop, NextEntry, pass
  <2>3. \A m \in Msgs : pc'[m] = pc[m]
    BY <2>2 DEF Goto, TypeOK, ProcType
  <2>4. \/ goal[s] = "failed" /\ pc'[s] = "bounce" /\ cur' = cur
        \/ goal[s] # "failed" /\ pc'[s] = "scan"
    BY <2>2 DEF Goto, TypeOK, ProcType
  <2>5. NoOrphan'
    BY <1>a, <1>b, <2>1, <2>3 DEF VerdictInOrder, NoOrphan
  <2>6. FailureIsReported'
    <3>1. goal[s] # "failed" => cur[s].key \in sent
      BY <2>1 DEF Honest, HandIsHonest
    <3>2. goal[s] # "failed" => cur[s].key \notin failed
      BY <3>1 DEF VerdictInOrder
    <3> QED
      BY <1>a, <2>1, <2>4, <3>2 DEF VerdictInOrder, FailureIsReported
  <2>7. \A m \in sent \cup failed : pc'[m] = "queued" /\ m \notin outbox'
    BY <1>a, <1>b, <2>1, <2>3 DEF VerdictInOrder
  <2>8. pc'[s] = "bounce" => \A n \in notices : n.key # cur'[s].key
    BY <2>1, <2>4 DEF VerdictInOrder
  <2> QED
    BY <1>a, <2>1, <2>4, <2>5, <2>6, <2>7, <2>8 DEF VerdictInOrder
<1>14. ASSUME NEW s \in Senders, Bounce(s) PROVE VerdictInOrder'
  <2>1. /\ pc[s] = "bounce" /\ UNCHANGED <<outbox, sent, failed, queue>>
        /\ notices' = notices \cup {[key |-> cur[s].key, names |-> errs[s]]}
        /\ Goto(s, "scan")
    BY <1>14 DEF Bounce, NextEntry
  <2>2. pc'[s] = "scan" /\ \A m \in Msgs : pc'[m] = pc[m]
    BY <2>1 DEF Goto, TypeOK, ProcType
  <2>3. NoOrphan'
    BY <1>a, <1>b, <2>1, <2>2 DEF VerdictInOrder, NoOrphan
  <2>4. FailureIsReported'
    <3> SUFFICES ASSUME NEW m \in failed PROVE \E n \in notices' : n.key = m
      BY <2>1 DEF FailureIsReported
    <3>1. cur[s].key = m => \E n \in notices' : n.key = m
      <4> DEFINE n == [key |-> cur[s].key, names |-> errs[s]]
      <4>1. n \in notices' /\ n.key = cur[s].key
        BY <2>1
      <4> QED
        BY <4>1
    <3>2. notices \subseteq notices'
      BY <2>1
    <3> QED
      BY <1>a, <2>1, <3>1, <3>2 DEF VerdictInOrder, FailureIsReported
  <2>5. \A m \in sent \cup failed : pc'[m] = "queued" /\ m \notin outbox
    BY <1>a, <1>b, <2>1, <2>2 DEF VerdictInOrder
  <2> QED
    BY <1>a, <2>1, <2>2, <2>3, <2>4, <2>5 DEF VerdictInOrder
<1>15. ASSUME NEW p \in Procs, WriteTmp(p) PROVE VerdictInOrder'
  <2>1. pc[p] = "write" /\ Goto(p, "replace") /\ queue' = queue /\ UNCHANGED <<folders, pass>>
    BY <1>15 DEF WriteTmp
  <2>2. CASE p \in Msgs
    BY <2>1, <2>2, <1>c DEF Labels
  <2>3. CASE p \in Senders
    <3>1. goal'[p] = "retry" => cur'[p].rcpts # {}
      BY <2>1, <2>3 DEF VerdictInOrder, pass
    <3> QED
      BY <2>1, <2>3, <3>1, <1>d DEF Labels, Moving
  <2> QED
    BY <2>2, <2>3
<1>16. ASSUME NEW m \in Msgs, ReplaceTmp(m) PROVE VerdictInOrder'
  <2>1. pc'[m] = "queued" /\ \A p \in Procs : p # m => pc'[p] = pc[p]
    BY <1>16 DEF ReplaceTmp, Goto, TypeOK, ProcType
  <2>2. pc[m] = "replace" /\ UNCHANGED <<pass, folders>>
    BY <1>16 DEF ReplaceTmp
  <2>3. queue' = queue \cup {NewEntry(m)} /\ NewEntry(m).key = m
    BY <1>16, <2>2, RenameFacts DEF ReplaceTmp, Change, NewEntry
  <2>4. NoOrphan'
    BY <1>b, <2>1, <2>2, <2>3 DEF VerdictInOrder, NoOrphan, pass, folders
  <2>5. FailureIsReported'
    BY <2>1, <2>2 DEF VerdictInOrder, FailureIsReported, pass, folders
  <2> QED
    BY <1>b, <2>1, <2>2, <2>4, <2>5 DEF VerdictInOrder, pass, folders
<1>17. ASSUME NEW s \in Senders, ReplaceTmp(s) PROVE VerdictInOrder'
  <2>1. pc[s] = "replace" /\ UNCHANGED folders /\ queue' = Change(s)
    BY <1>17, RenameFacts DEF ReplaceTmp
  <2>2. /\ queue' = Without(queue, cur[s].key) \cup
                      (IF goal[s] = "retry" /\ cur[s].rcpts # {} THEN {cur[s]} ELSE {})
    BY <2>1 DEF Change
  <2>3. CASE goal[s] = "retry"
    <3>1. cur[s].rcpts # {}
      BY <2>1, <2>3 DEF VerdictInOrder
    <3>2. \A e \in queue : \E f \in queue' : f.key = e.key
      BY <2>2, <2>3, <3>1 DEF Without
    <3>3. Goto(s, "scan")
      BY <1>17, <2>3 DEF ReplaceTmp, NextEntry
    <3>4. pc'[s] = "scan" /\ \A m \in Msgs : pc'[m] = pc[m]
      BY <3>3 DEF Goto, TypeOK, ProcType
    <3> QED
      BY <1>a, <2>1, <3>2, <3>4, QuietStep DEF Moving
  <2>4. CASE goal[s] # "retry"
    <3>1. Goto(s, "fetch") /\ cur' = cur
      BY <1>17, <2>4 DEF ReplaceTmp, pass
    <3>2. pc'[s] = "fetch" /\ \A m \in Msgs : pc'[m] = pc[m]
      BY <3>1 DEF Goto, TypeOK, ProcType
    <3>3. NoOrphan'
      BY <1>a, <1>b, <2>1, <2>2, <3>1, <3>2 DEF VerdictInOrder, NoOrphan, folders, Without
    <3>4. FailureIsReported'
      BY <1>a, <2>1, <3>2 DEF VerdictInOrder, FailureIsReported, folders
    <3> QED
      BY <1>a, <1>b, <2>1, <3>2, <3>3, <3>4 DEF VerdictInOrder, folders
  <2> QED
    BY <2>3, <2>4
<1>18. ASSUME NEW p \in Procs, TmpIsGone(p) PROVE VerdictInOrder'
  BY <1>18, NoTmpIsGone
<1>19. ASSUME NEW m \in Msgs, UserDelete(m) PROVE VerdictInOrder'
  BY <1>19, NoUserDelete
<1>20. ASSUME NEW p \in Procs, Crash(p) PROVE VerdictInOrder'
  BY <1>20 DEF Crash, TypeOK, HistoryType
<1>21. CASE Tick \/ UNCHANGED vars
  <2>1. UNCHANGED <<folders, queue, pc, pass>>
    BY <1>21 DEF Tick, vars
  <2> QED
    BY <2>1 DEF VerdictInOrder, NoOrphan, FailureIsReported, folders, pass
<1> QED
  BY <1>1, <1>2, <1>3, <1>4, <1>5, <1>6, <1>7, <1>8, <1>9, <1>10, <1>11, <1>12, <1>13,
     <1>14, <1>15, <1>16, <1>17, <1>18, <1>19, <1>20, <1>21 DEF Next, EnqueueStep, PassStep

\* Nothing is filed to begin with.
LEMMA VerdictInit == Init => VerdictInOrder
BY ProcsFacts DEF Init, VerdictInOrder, NoOrphan, FailureIsReported

\* The verdicts are always in order, whatever the link loses.
LEMMA VerdictsAlwaysInOrder ==
    (Alone /\ MaxCrashes = 0) => (Spec => []VerdictInOrder)
<1> SUFFICES ASSUME Alone, MaxCrashes = 0 PROVE Spec => []VerdictInOrder
  OBVIOUS
<1>1. TypeOK /\ TypeOK' /\ FileInv /\ Honest /\ VerdictInOrder /\ [Next]_vars
        => VerdictInOrder'
  BY VerdictStep
<1> QED
  BY <1>1, VerdictInit, AlwaysInOrder, TypeCorrect, AlwaysHonest, PTL DEF Spec

\* store.py:183-187 and 200-205, one processor, no crash: a queued message in
\* Outbox has its entry, or a processor is moving it out.
THEOREM QueuedMessagesHaveEntries == (Alone /\ MaxCrashes = 0) => (Spec => []NoOrphan)
<1>1. VerdictInOrder => NoOrphan
  BY DEF VerdictInOrder
<1> QED
  BY <1>1, VerdictsAlwaysInOrder, PTL

\* sender.py:126-136, one processor, no crash: a message in Failed has its
\* notice, or the processor that put it there is on the way to write it.
THEOREM FailuresAreReported == (Alone /\ MaxCrashes = 0) => (Spec => []FailureIsReported)
<1>1. VerdictInOrder => FailureIsReported
  BY DEF VerdictInOrder
<1> QED
  BY <1>1, VerdictsAlwaysInOrder, PTL

\* One processor, no crash: no message is both in Sent and in Failed, and none is
\* filed a second time.
THEOREM VerdictsAreFinal == (Alone /\ MaxCrashes = 0) => (Spec => []OneVerdict)
<1> SUFFICES ASSUME Alone, MaxCrashes = 0 PROVE Spec => []OneVerdict
  OBVIOUS
<1>1. TypeOK /\ FileInv /\ VerdictInOrder => OneVerdict
  BY InHandIsUnfiled DEF VerdictInOrder, OneVerdict
<1> QED
  BY <1>1, VerdictsAlwaysInOrder, AlwaysInOrder, TypeCorrect, PTL
=============================================================================
