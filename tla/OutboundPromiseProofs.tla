----------------------- MODULE OutboundPromiseProofs -----------------------
(***************************************************************************)
(* Outbound implements DeliveryPromise where one processor runs, the       *)
(* writers of the queue file do not overlap, the user deletes nothing,     *)
(* nobody is killed, no answer is lost and smtplib can encode every        *)
(* address: no server that has answered is asked again, and every step is  *)
(* a step of the promise or leaves what it speaks of alone.                *)
(***************************************************************************)
EXTENDS OutboundApartProofs

Undisturbed ==
    Alone /\ MaxCrashes = 0 /\ ~LossyLink /\ Unencodable = {}

\* No recipient that has answered is left to be tried, in an entry of the file
\* or in the hand of the processor, and a verdict "failed" is about somebody
\* who does not have the message.
Answers ==
    /\ accepted \cap refused = {}
    /\ \A m \in Msgs : \A r \in Rcpts :
         <<m, r>> \in Resolved => pc[m] = "queued" /\ r \in RcptsOf[m]

InFileIsOpen ==
    \A e \in queue : (\A s \in Senders : pc[s] \in Held => cur[s].key # e.key)
                       => \A r \in e.rcpts : <<e.key, r>> \notin Resolved

InHandIsOpen(s) ==
    /\ pc[s] = "attempt" =>
         /\ left[s] \cap pend[s] = {}
         /\ \A r \in left[s] \cup pend[s] : <<cur[s].key, r>> \notin Resolved
    /\ pc[s] # "attempt" => left[s] = {}
    /\ pc[s] \in {"read", "write", "replace"} /\ goal[s] = "retry" =>
         \A r \in cur[s].rcpts : <<cur[s].key, r>> \notin Resolved
    /\ pc[s] \in {"read", "write", "replace"} \cup Moving /\ goal[s] = "failed" =>
         \E r \in RcptsOf[cur[s].key] : <<cur[s].key, r>> \notin accepted

OnceOnly == Answers /\ InFileIsOpen /\ \A s \in Senders : InHandIsOpen(s)

\* A step of a client up to its rename.
LEMMA ClientOnce ==
    ASSUME TypeOK, OnceOnly, NEW m \in Msgs, NEW l \in Labels, pc[m] # "queued",
           Goto(m, l), queue' = queue, UNCHANGED <<pass, accepted, refused>>
    PROVE  OnceOnly'
<1> USE ProcsFacts
<1>1. pc'[m] = l /\ \A p \in Procs : p # m => pc'[p] = pc[p]
  BY DEF Goto, TypeOK, ProcType
<1>2. UNCHANGED <<now, todo, cur, left, pend, errs, goal, accepted, refused>>
  BY DEF pass
<1>3. \A s \in Senders : pc'[s] = pc[s]
  BY <1>1
<1>4. Answers'
  BY <1>1, <1>2 DEF OnceOnly, Answers, Resolved
<1>5. InFileIsOpen'
  BY <1>2, <1>3 DEF OnceOnly, InFileIsOpen, Resolved
<1>6. \A s \in Senders : InHandIsOpen(s)'
  BY <1>2, <1>3 DEF OnceOnly, InHandIsOpen, Resolved
<1> QED
  BY <1>4, <1>5, <1>6 DEF OnceOnly

\* A step of the processor that asks no server and does not rename.
LEMMA ProcessorOnce ==
    ASSUME TypeOK, Alone, OnceOnly, NEW s \in Senders, NEW l \in Labels, Goto(s, l),
           queue' = queue, UNCHANGED <<accepted, refused>>, InHandIsOpen(s)',
           pc[s] \in Held => l \in Held /\ cur'[s].key = cur[s].key
    PROVE  OnceOnly'
<1> USE ProcsFacts
<1>1. pc'[s] = l /\ \A m \in Msgs : pc'[m] = pc[m]
  BY DEF Goto, TypeOK, ProcType
<1>2. Answers'
  BY <1>1 DEF OnceOnly, Answers, Resolved
<1>3. InFileIsOpen'
  BY <1>1 DEF Alone, OnceOnly, InFileIsOpen, Resolved
<1>4. \A t \in Senders : InHandIsOpen(t)'
  BY DEF Alone
<1> QED
  BY <1>2, <1>3, <1>4 DEF OnceOnly

\* One recipient is tried: its server has not answered before.
LEMMA AttemptFacts ==
    ASSUME TypeOK, Honest, FileInv, OnceOnly, NEW s \in Senders, NEW r \in left[s],
           pc[s] = "attempt"
    PROVE  /\ cur[s].key \in Msgs /\ pc[cur[s].key] = "queued"
           /\ r \in Rcpts /\ r \in RcptsOf[cur[s].key]
           /\ <<cur[s].key, r>> \notin Resolved
<1>1. cur[s].key \in Msgs /\ pc[cur[s].key] = "queued"
  BY EntryFacts DEF FileInv, HandInOrder, Held
<1>2. r \in Rcpts
  BY DEF TypeOK, PassType
<1>3. r \in RcptsOf[cur[s].key]
  BY DEF Honest, HandIsHonest
<1>4. <<cur[s].key, r>> \notin Resolved
  BY DEF OnceOnly, InHandIsOpen
<1> QED
  BY <1>1, <1>2, <1>3, <1>4

\* The answer is recorded, and the recipient is not left or is pending.
LEMMA AttemptOnce ==
    ASSUME TypeOK, Undisturbed, Honest, FileInv, OnceOnly, NEW s \in Senders, Attempt(s)
    PROVE  OnceOnly'
<1> USE ProcsFacts
<1>a. PICK r \in left[s] :
        /\ Deliver(s, r) \/ Refuse(s, r) \/ FailForNow(s, r)
        /\ left' = [left EXCEPT ![s] = @ \ {r}]
  BY DEF Attempt
<1> DEFINE k == cur[s].key
<1>b. pc[s] = "attempt" /\ UNCHANGED <<pc, queue, cur, goal>>
  BY DEF Attempt
<1>c. /\ k \in Msgs /\ pc[k] = "queued" /\ r \in Rcpts /\ r \in RcptsOf[k]
      /\ <<k, r>> \notin Resolved
  BY <1>b, AttemptFacts
<1>d. left'[s] = left[s] \ {r}
  BY <1>a DEF TypeOK, PassType
<1>e. \/ /\ accepted' = accepted \cup {<<k, r>>} /\ refused' = refused /\ pend' = pend
      \/ /\ refused' = refused \cup {<<k, r>>} /\ accepted' = accepted /\ pend' = pend
      \/ /\ pend'[s] = pend[s] \cup {r} /\ UNCHANGED <<accepted, refused>>
  BY <1>a DEF Deliver, Refuse, FailForNow, Undisturbed, TypeOK, PassType
<1> HIDE DEF k
<1>f. Resolved \subseteq Resolved' /\ Resolved' \subseteq Resolved \cup {<<k, r>>}
  BY <1>e DEF Resolved
<1>1. Answers'
  BY <1>b, <1>c, <1>e DEF OnceOnly, Answers, Resolved
<1>2. InFileIsOpen'
  <2> SUFFICES ASSUME NEW e \in queue, \A t \in Senders : pc[t] \in Held => cur[t].key # e.key,
                      NEW q \in e.rcpts
               PROVE  <<e.key, q>> \notin Resolved'
    BY <1>b DEF InFileIsOpen
  <2>1. e.key # k
    BY <1>b DEF Held, k
  <2> QED
    BY <1>f, <2>1 DEF OnceOnly, InFileIsOpen
<1>3. InHandIsOpen(s)'
  <2>1. left'[s] \cap pend'[s] = {}
    BY <1>b, <1>d, <1>e DEF OnceOnly, InHandIsOpen
  <2>2. \A q \in left'[s] \cup pend'[s] : <<k, q>> \notin Resolved'
    <3>1. \A q \in left[s] \cup pend[s] : <<k, q>> \notin Resolved
      BY <1>b DEF OnceOnly, InHandIsOpen, k
    <3>2. CASE UNCHANGED <<accepted, refused>>
      <4>1. Resolved' = Resolved
        BY <3>2 DEF Resolved
      <4> QED
        BY <1>c, <1>d, <1>e, <3>1, <4>1
    <3>3. CASE pend' = pend
      <4>1. r \notin pend[s]
        BY <1>b DEF OnceOnly, InHandIsOpen
      <4> QED
        BY <1>d, <1>f, <3>1, <3>3, <4>1
    <3> QED
      BY <1>e, <3>2, <3>3
  <2> QED
    BY <1>b, <2>1, <2>2 DEF InHandIsOpen, Moving, k
<1> QED
  BY <1>1, <1>2, <1>3 DEF OnceOnly, Undisturbed, Alone

\* The recipient loop is over: who is pending has not answered, and a message
\* that failed has a recipient who refused it or is pending.
LEMMA ConcludeOnce ==
    ASSUME TypeOK, Undisturbed, Honest, FileInv, OnceOnly, NEW s \in Senders, Conclude(s)
    PROVE  OnceOnly'
<1> USE ProcsFacts
<1> DEFINE k == cur[s].key
<1>1. /\ pc[s] = "attempt" /\ left[s] = {} /\ Goto(s, "read")
      /\ UNCHANGED <<queue, left, accepted, refused>>
      /\ cur'[s].key = k /\ cur'[s].rcpts = pend[s]
  BY DEF Conclude, ConcludeAs, TypeOK, PassType, history
<1>2. /\ goal'[s] = "failed" => pend[s] # {} \/ errs[s] # {}
  BY DEF Conclude, ConcludeAs, TypeOK, PassType
<1>3. pc'[s] = "read"
  BY <1>1 DEF Goto, TypeOK, ProcType
<1>4. k \in Msgs
  BY <1>1, EntryFacts DEF Held
<1>5. \A r \in pend[s] : <<k, r>> \notin Resolved
  BY <1>1 DEF OnceOnly, InHandIsOpen
<1>6. pend[s] \subseteq errs[s] /\ errs[s] \subseteq RcptsOf[k]
  BY <1>1 DEF Honest, HandIsHonest
<1>7. errs[s] \subseteq pend[s] \/ \E r \in Rcpts : <<k, r>> \in refused
  BY <1>1 DEF Honest, HandIsHonest
<1>8. pend[s] # {} \/ errs[s] # {} => \E r \in RcptsOf[k] : <<k, r>> \notin accepted
  <2>1. CASE pend[s] # {}
    BY <1>5, <1>6, <2>1 DEF Resolved
  <2>2. CASE pend[s] = {} /\ errs[s] # {}
    <3>1. PICK r \in Rcpts : <<k, r>> \in refused
      BY <1>7, <2>2
    <3>2. r \in RcptsOf[k] /\ <<k, r>> \notin accepted
      BY <1>4, <3>1 DEF OnceOnly, Answers, Resolved
    <3> QED
      BY <3>2
  <2> QED
    BY <2>1, <2>2
<1>9. InHandIsOpen(s)'
  BY <1>1, <1>2, <1>3, <1>5, <1>8 DEF InHandIsOpen, Resolved
<1> QED
  BY <1>1, <1>9, ProcessorOnce DEF Undisturbed, Labels, Held

\* A client's rename: nobody has answered for its message.
LEMMA ClientRenameOnce ==
    ASSUME TypeOK, Alone, FileInv, OnceOnly, NEW m \in Msgs, ReplaceTmp(m)
    PROVE  OnceOnly'
<1> USE ProcsFacts
<1>1. pc'[m] = "queued" /\ \A p \in Procs : p # m => pc'[p] = pc[p]
  BY DEF ReplaceTmp, Goto, TypeOK, ProcType
<1>2. /\ pc[m] = "replace" /\ UNCHANGED <<cur, left, pend, goal, accepted, refused>>
  BY DEF ReplaceTmp, pass, history
<1>3. queue' = queue \cup {NewEntry(m)}
  BY <1>2, RenameFacts DEF ReplaceTmp, Change
<1>4. NewEntry(m).key = m /\ NewEntry(m).rcpts = RcptsOf[m] /\ RcptsOf[m] \subseteq Rcpts
  BY OutboundAssumption DEF NewEntry
<1>5. \A s \in Senders : pc'[s] = pc[s]
  BY <1>1
<1>6. Answers'
  BY <1>1, <1>2 DEF OnceOnly, Answers, Resolved
<1>7. \A r \in RcptsOf[m] : <<m, r>> \notin Resolved
  BY <1>2, <1>4 DEF OnceOnly, Answers
<1>8. InFileIsOpen'
  BY <1>2, <1>3, <1>4, <1>5, <1>7 DEF OnceOnly, InFileIsOpen, Resolved
<1>9. \A s \in Senders : InHandIsOpen(s)'
  BY <1>2, <1>5 DEF OnceOnly, InHandIsOpen, Resolved
<1> QED
  BY <1>6, <1>8, <1>9 DEF OnceOnly

\* The processor's rename: the entry goes back with who has not answered.
LEMMA ProcessorRenameOnce ==
    ASSUME TypeOK, Alone, FileInv, OnceOnly, NEW s \in Senders, ReplaceTmp(s)
    PROVE  OnceOnly'
<1> USE ProcsFacts
<1>a. PICK l \in {"scan", "fetch"} :
         /\ Goto(s, l)
         /\ (l = "fetch") => cur' = cur /\ goal' = goal
         /\ (l = "fetch") <=> (goal[s] # "retry")
  BY DEF ReplaceTmp, NextEntry, pass
<1>1. pc'[s] = l /\ \A m \in Msgs : pc'[m] = pc[m]
  BY <1>a DEF Goto, TypeOK, ProcType
<1>2. pc[s] = "replace" /\ UNCHANGED <<left, accepted, refused>>
  BY DEF ReplaceTmp, NextEntry, pass, history
<1>3. queue' = Without(queue, cur[s].key) \cup
                 (IF goal[s] = "retry" /\ cur[s].rcpts # {} THEN {cur[s]} ELSE {})
  BY <1>2, RenameFacts DEF ReplaceTmp, Change
<1>4. Answers'
  BY <1>1, <1>2 DEF OnceOnly, Answers, Resolved
<1>5. InFileIsOpen'
  <2>1. \A e \in Without(queue, cur[s].key) : \A r \in e.rcpts : <<e.key, r>> \notin Resolved
    BY DEF Without, Alone, OnceOnly, InFileIsOpen
  <2>2. goal[s] = "retry" => \A r \in cur[s].rcpts : <<cur[s].key, r>> \notin Resolved
    BY <1>2 DEF OnceOnly, InHandIsOpen
  <2> QED
    BY <1>2, <1>3, <2>1, <2>2 DEF InFileIsOpen, Resolved
<1>6. InHandIsOpen(s)'
  BY <1>1, <1>2, <1>a DEF OnceOnly, InHandIsOpen, Moving
<1> QED
  BY <1>4, <1>5, <1>6 DEF OnceOnly, Alone

\* Every step keeps to it: one step of the proof per action.
LEMMA OnceStep ==
    ASSUME TypeOK, TypeOK', Undisturbed, FileInv, Honest, OnceOnly, [Next]_vars
    PROVE  OnceOnly'
<1> USE ProcsFacts
<1>a. Alone
  BY DEF Undisturbed
<1>b. ASSUME NEW s \in Senders, NEW l \in Labels \ (Held \cup Moving), Goto(s, l),
             queue' = queue, UNCHANGED <<accepted, refused>>, left'[s] = {},
             pc[s] \notin Held
      PROVE  OnceOnly'
  <2>1. pc'[s] = l
    BY <1>b DEF Goto, TypeOK, ProcType
  <2>2. InHandIsOpen(s)'
    BY <1>b, <2>1 DEF InHandIsOpen, Held, Moving
  <2> QED
    BY <1>a, <1>b, <2>2, ProcessorOnce
<1>c. ASSUME NEW s \in Senders, Abort(s) PROVE left'[s] = {} /\ Goto(s, "idle")
  BY <1>c DEF Abort, ForgetPass, TypeOK, PassType
<1>1. ASSUME NEW m \in Msgs, AddToOutbox(m) PROVE OnceOnly'
  BY <1>1, ClientOnce DEF AddToOutbox, Labels, history
<1>2. ASSUME NEW m \in Msgs, EnqueueRead(m) PROVE OnceOnly'
  BY <1>2, ClientOnce DEF EnqueueRead, Labels, history
<1>3. ASSUME NEW s \in Senders, StartPass(s) PROVE OnceOnly'
  <2>1. left'[s] = {}
    BY <1>3 DEF StartPass, OnceOnly, InHandIsOpen
  <2> QED
    BY <1>3, <2>1, <1>b DEF StartPass, Labels, Held, Moving, history
<1>4. ASSUME NEW s \in Senders, TakeEntry(s) PROVE OnceOnly'
  <2> PICK e \in todo[s] :
        /\ cur' = [cur EXCEPT ![s] = e]
        /\ left' = [left EXCEPT ![s] = e.rcpts]
    BY <1>4 DEF TakeEntry
  <2>1. /\ pc[s] = "scan" /\ Goto(s, "attempt") /\ UNCHANGED <<queue, pend, accepted, refused>>
    BY <1>4 DEF TakeEntry
  <2>2. pc'[s] = "attempt" /\ cur'[s] = e /\ left'[s] = e.rcpts
    BY <2>1 DEF Goto, TypeOK, ProcType, PassType
  <2>3. e \in queue /\ pend[s] = {}
    BY <2>1 DEF FileInv, HandInOrder, Honest, HandIsHonest
  <2>4. \A t \in Senders : pc[t] \notin Held
    BY <1>a, <2>1 DEF Alone, Held
  <2>5. \A r \in e.rcpts : <<e.key, r>> \notin Resolved
    BY <2>3, <2>4 DEF OnceOnly, InFileIsOpen
  <2>6. InHandIsOpen(s)'
    BY <2>1, <2>2, <2>3, <2>5 DEF InHandIsOpen, Resolved, Moving
  <2> QED
    BY <1>a, <2>1, <2>6, ProcessorOnce DEF Labels, Held
<1>5. ASSUME NEW s \in Senders, EntryWithoutMessage(s) PROVE OnceOnly'
  BY <1>5, <1>b, <1>c DEF EntryWithoutMessage, Labels, Held, Moving, history
<1>6. ASSUME NEW s \in Senders, EndPass(s) PROVE OnceOnly'
  BY <1>6, <1>b, <1>c DEF EndPass, Abort, Labels, Held, Moving, history
<1>7. ASSUME NEW s \in Senders, Attempt(s) PROVE OnceOnly'
  BY <1>7, AttemptOnce
<1>8. ASSUME NEW s \in Senders, AttemptRaises(s) PROVE OnceOnly'
  BY <1>8 DEF AttemptRaises, Undisturbed
<1>9. ASSUME NEW s \in Senders, Conclude(s) PROVE OnceOnly'
  BY <1>9, ConcludeOnce
<1>d. ASSUME NEW s \in Senders, NEW l \in Labels \ {"attempt"}, Goto(s, l), pc[s] # "attempt",
             queue' = queue, UNCHANGED <<pass, accepted, refused>>,
             l \in Held \cup Moving, pc[s] \in Held => l \in Held,
             pc[s] \in Moving => l \in Moving, pc[s] \in Held \cup Moving
      PROVE  OnceOnly'
  <2>1. pc'[s] = l
    BY <1>d DEF Goto, TypeOK, ProcType
  <2>2. UNCHANGED <<cur, left, pend, goal, accepted, refused>>
    BY <1>d DEF pass
  <2>3. InHandIsOpen(s)
    BY DEF OnceOnly
  <2>4. l \in {"read", "write", "replace"} => pc[s] \in {"read", "write", "replace"}
    BY <1>d DEF Held, Moving
  <2>5. pc[s] \in {"read", "write", "replace"} \cup Moving
    BY <1>d DEF Held, Moving
  <2>6. InHandIsOpen(s)'
    <3>1. left'[s] = {} /\ pc'[s] # "attempt"
      BY <1>d, <2>1, <2>2, <2>3 DEF InHandIsOpen
    <3>2. pc'[s] \in {"read", "write", "replace"} /\ goal'[s] = "retry" =>
            \A r \in cur'[s].rcpts : <<cur'[s].key, r>> \notin Resolved'
      BY <2>1, <2>2, <2>3, <2>4 DEF InHandIsOpen, Resolved
    <3>3. goal'[s] = "failed" =>
            \E r \in RcptsOf[cur'[s].key] : <<cur'[s].key, r>> \notin accepted'
      BY <2>2, <2>3, <2>5 DEF InHandIsOpen
    <3> QED
      BY <3>1, <3>2, <3>3 DEF InHandIsOpen
  <2> QED
    BY <1>a, <1>d, <2>2, <2>6, ProcessorOnce
<1>10. ASSUME NEW s \in Senders, UpdateRead(s) \/ CompleteRead(s) PROVE OnceOnly'
  BY <1>10, <1>d DEF UpdateRead, CompleteRead, Labels, Held, Moving, history
<1>11. ASSUME NEW s \in Senders, MoveFetch(s) PROVE OnceOnly'
  <2>1. cur[s].key \in outbox
    BY <1>11 DEF MoveFetch, FileInv, HandInOrder
  <2> QED
    BY <1>11, <1>d, <2>1 DEF MoveFetch, Labels, Held, Moving, history
<1>12. ASSUME NEW s \in Senders, MoveCopy(s) PROVE OnceOnly'
  BY <1>12, <1>d DEF MoveCopy, Labels, Held, Moving, history
<1>13. ASSUME NEW s \in Senders, MoveDrop(s) PROVE OnceOnly'
  <2>1. pc[s] = "drop" /\ UNCHANGED <<queue, left, accepted, refused>>
    BY <1>13 DEF MoveDrop, NextEntry, pass, history
  <2>2. left[s] = {}
    BY <2>1 DEF OnceOnly, InHandIsOpen
  <2>3. CASE goal[s] = "failed"
    BY <1>13, <1>d, <2>1, <2>3 DEF MoveDrop, Labels, Held, Moving
  <2>4. CASE goal[s] # "failed"
    BY <1>13, <1>b, <2>1, <2>2, <2>4 DEF MoveDrop, NextEntry, Labels, Held, Moving
  <2> QED
    BY <2>3, <2>4
<1>14. ASSUME NEW s \in Senders, Bounce(s) PROVE OnceOnly'
  <2>1. /\ pc[s] = "bounce" /\ UNCHANGED <<queue, left, accepted, refused>>
        /\ Goto(s, "scan")
    BY <1>14 DEF Bounce, NextEntry, history
  <2>2. left[s] = {}
    BY <2>1 DEF OnceOnly, InHandIsOpen
  <2> QED
    BY <1>b, <2>1, <2>2 DEF Labels, Held, Moving
<1>15. ASSUME NEW p \in Procs, WriteTmp(p) PROVE OnceOnly'
  <2>1. /\ pc[p] = "write" /\ Goto(p, "replace")
        /\ UNCHANGED <<queue, pass, accepted, refused>>
    BY <1>15 DEF WriteTmp, history
  <2> QED
    BY <2>1, <1>d, ClientOnce DEF Labels, Held, Moving
<1>16. ASSUME NEW p \in Procs, ReplaceTmp(p) PROVE OnceOnly'
  BY <1>a, <1>16, ClientRenameOnce, ProcessorRenameOnce
<1>17. ASSUME NEW p \in Procs, TmpIsGone(p) PROVE OnceOnly'
  BY <1>a, <1>17, NoTmpIsGone
<1>18. ASSUME NEW m \in Msgs, UserDelete(m) PROVE OnceOnly'
  BY <1>a, <1>18, NoUserDelete
<1>19. ASSUME NEW p \in Procs, Crash(p) PROVE OnceOnly'
  BY <1>19 DEF Crash, TypeOK, HistoryType, Undisturbed
<1>20. CASE Tick \/ UNCHANGED vars
  <2>1. UNCHANGED <<queue, pc, pass, accepted, refused>>
    BY <1>20 DEF Tick, vars, history
  <2> QED
    BY <2>1 DEF OnceOnly, Answers, InFileIsOpen, InHandIsOpen, Resolved, pass
<1> QED
  BY <1>1, <1>2, <1>3, <1>4, <1>5, <1>6, <1>7, <1>8, <1>9, <1>10, <1>11, <1>12, <1>13,
     <1>14, <1>15, <1>16, <1>17, <1>18, <1>19, <1>20 DEF Next, EnqueueStep, PassStep

\* Nobody has answered to begin with.
LEMMA OnceInit == Init => OnceOnly
BY ProcsFacts DEF Init, OnceOnly, Answers, InFileIsOpen, InHandIsOpen, Resolved, Moving

\* And so it stays.
LEMMA AlwaysOnce == Undisturbed => (Spec => []OnceOnly)
<1> SUFFICES ASSUME Undisturbed PROVE Spec => []OnceOnly
  OBVIOUS
<1>1. TypeOK /\ TypeOK' /\ FileInv /\ Honest /\ OnceOnly /\ [Next]_vars => OnceOnly'
  BY OnceStep
<1>2. Alone
  BY DEF Undisturbed
<1> QED
  BY <1>1, <1>2, OnceInit, AlwaysInOrder, TypeCorrect, AlwaysHonest, PTL DEF Spec

\* sender.py:112-121, what deliver_one is called for: where no answer is lost and
\* nobody is killed, no server that has answered is asked again, in whichever
\* pass and after however many retries.
THEOREM ServersAreAskedOnce == Undisturbed => (Spec => []NoSecondDelivery)
<1> SUFFICES ASSUME Undisturbed PROVE Spec => []NoSecondDelivery
  OBVIOUS
<1>1. OnceOnly => NoSecondDelivery
  BY DEF OnceOnly, InHandIsOpen, NoSecondDelivery
<1> QED
  BY <1>1, AlwaysOnce, PTL

-----------------------------------------------------------------------------
(* The promise, step by step. *)

\* The initial states are initial states of the promise.
LEMMA PromiseInit == Init => Promise!Init
<1> SUFFICES ASSUME Init PROVE Promise!Init
  OBVIOUS
<1>1. accepted = {} /\ refused = {} /\ {n.key : n \in notices} = {}
  BY DEF Init
<1>2. ASSUME NEW m \in Msgs PROVE m \notin sent /\ m \notin failed /\ pc[m] # "queued"
  BY ProcsFacts DEF Init
<1> QED
  BY <1>1, <1>2 DEF Promise!Init

\* A step that asks no server and files, reports and submits nothing.
LEMMA StutterStep ==
    ASSUME UNCHANGED <<sent, failed, notices, accepted, refused>>,
           \A m \in Msgs : (pc'[m] = "queued") <=> (pc[m] = "queued")
    PROVE  UNCHANGED Promise!vars
BY DEF Promise!vars

\* A rename by a client submits its message.
LEMMA SubmitStep ==
    ASSUME TypeOK, Alone, FileInv, VerdictInOrder, NEW m \in Msgs, ReplaceTmp(m)
    PROVE  Promise!Submit(m)
<1> USE ProcsFacts
<1>1. pc'[m] = "queued" /\ \A p \in Procs : p # m => pc'[p] = pc[p]
  BY DEF ReplaceTmp, Goto, TypeOK, ProcType
<1>2. pc[m] = "replace" /\ UNCHANGED <<sent, failed, notices, accepted, refused>>
  BY DEF ReplaceTmp, folders, history
<1>3. m \notin sent \cup failed
  BY <1>2 DEF VerdictInOrder
<1> QED
  BY <1>1, <1>2, <1>3 DEF Promise!Submit

\* An attempt settles a recipient that has not answered, or nothing.
LEMMA SettleStep ==
    ASSUME TypeOK, Undisturbed, FileInv, Honest, VerdictInOrder, OnceOnly,
           NEW s \in Senders, Attempt(s), NEW m, m = cur[s].key
    PROVE  (\E r \in Rcpts : Promise!Settle(m, r)) \/ UNCHANGED Promise!vars
<1> PICK r \in left[s] : Deliver(s, r) \/ Refuse(s, r) \/ FailForNow(s, r)
  BY DEF Attempt
<1>1. pc[s] = "attempt" /\ UNCHANGED <<pc, sent, failed, notices>>
  BY DEF Attempt, folders
<1>2. r \in Rcpts /\ r \in RcptsOf[m] /\ <<m, r>> \notin Resolved
  BY <1>1, AttemptFacts
<1>3. m \in Msgs /\ pc[m] = "queued" /\ m \notin sent \cup failed
  BY <1>1, InHandIsUnfiled DEF Undisturbed, Held
<1>4. \/ accepted' = accepted \cup {<<m, r>>} /\ refused' = refused
      \/ refused' = refused \cup {<<m, r>>} /\ accepted' = accepted
      \/ UNCHANGED <<accepted, refused>>
  BY DEF Deliver, Refuse, FailForNow, Undisturbed
<1>5. CASE UNCHANGED <<accepted, refused>>
  BY <1>1, <1>5, StutterStep
<1>6. CASE \/ accepted' = accepted \cup {<<m, r>>} /\ refused' = refused
           \/ refused' = refused \cup {<<m, r>>} /\ accepted' = accepted
  BY <1>1, <1>2, <1>3, <1>6 DEF Promise!Settle, Resolved
<1> QED
  BY <1>4, <1>5, <1>6

\* The copy to Sent or Failed is the verdict, and it has its grounds.
LEMMA FileStep ==
    ASSUME TypeOK, Undisturbed, FileInv, Honest, VerdictInOrder, OnceOnly,
           NEW s \in Senders, MoveCopy(s), NEW m, m = cur[s].key
    PROVE  Promise!Send(m) \/ Promise!GiveUp(m)
<1> USE ProcsFacts
<1>1. pc[s] = "copy" /\ Goto(s, "drop") /\ UNCHANGED <<notices, accepted, refused>>
  BY DEF MoveCopy, history
<1>2. m \in Msgs /\ pc[m] = "queued" /\ m \notin sent \cup failed
  BY <1>1, InHandIsUnfiled DEF Undisturbed
<1>3. \A n \in Msgs : pc'[n] = pc[n]
  BY <1>1 DEF Goto, TypeOK, ProcType
<1>4. CASE goal[s] = "failed"
  <2>1. \E r \in RcptsOf[m] : <<m, r>> \notin accepted
    BY <1>1, <1>4 DEF OnceOnly, InHandIsOpen, Moving
  <2>2. failed' = failed \cup {m} /\ sent' = sent
    BY <1>4 DEF MoveCopy
  <2> QED
    BY <1>1, <1>2, <1>3, <2>1, <2>2 DEF Promise!GiveUp
<1>5. CASE goal[s] # "failed"
  <2>1. goal[s] = "sent"
    BY <1>1, <1>5 DEF TypeOK, PassType
  <2>2. \A r \in RcptsOf[m] : <<m, r>> \in accepted \cup refused
    BY <1>1, <2>1 DEF Honest, HandIsHonest, Resolved
  <2>3. sent' = sent \cup {m} /\ failed' = failed
    BY <1>5 DEF MoveCopy
  <2> QED
    BY <1>1, <1>2, <1>3, <2>2, <2>3 DEF Promise!Send
<1> QED
  BY <1>4, <1>5

\* The notice reports a failure that was not reported yet.
LEMMA ReportStep ==
    ASSUME TypeOK, FileInv, Honest, VerdictInOrder, NEW s \in Senders, Bounce(s),
           NEW m, m = cur[s].key
    PROVE  Promise!Report(m)
<1> USE ProcsFacts
<1> DEFINE new == [key |-> cur[s].key, names |-> errs[s]]
<1>1. /\ pc[s] = "bounce" /\ Goto(s, "scan") /\ notices' = notices \cup {new}
      /\ UNCHANGED <<sent, failed, accepted, refused>>
  BY DEF Bounce, NextEntry, history
<1>2. m \in Msgs /\ m \in failed /\ m \notin sent
  BY <1>1, EntryFacts DEF Honest, HandIsHonest, VerdictInOrder, Moving
<1>3. \A n \in Msgs : pc'[n] = pc[n]
  BY <1>1 DEF Goto, TypeOK, ProcType
<1>4. \A n \in notices : n.key # m
  BY <1>1 DEF VerdictInOrder
<1>5. new.key = m
  OBVIOUS
<1> HIDE DEF new
<1>6. {n.key : n \in notices'} = {n.key : n \in notices} \cup {m}
  BY <1>1, <1>5
<1> QED
  BY <1>1, <1>2, <1>3, <1>4, <1>6 DEF Promise!Report

\* Every step is a step of the promise or leaves what it speaks of alone.
LEMMA PromiseStep ==
    ASSUME TypeOK, TypeOK', Undisturbed, FileInv, Honest, VerdictInOrder, OnceOnly,
           [Next]_vars
    PROVE  [Promise!Next]_Promise!vars
<1> USE ProcsFacts
<1>a. Alone
  BY DEF Undisturbed
<1>b. ASSUME NEW p \in Procs, NEW l \in Labels, Goto(p, l),
             p \in Msgs => (pc[p] # "queued" /\ l # "queued"),
             UNCHANGED <<sent, failed, notices, accepted, refused>>
      PROVE  UNCHANGED Promise!vars
  <2>1. \A m \in Msgs : (pc'[m] = "queued") <=> (pc[m] = "queued")
    BY <1>b DEF Goto, TypeOK, ProcType
  <2> QED
    BY <1>b, <2>1, StutterStep
<1>1. ASSUME NEW m \in Msgs, AddToOutbox(m) \/ EnqueueRead(m) PROVE UNCHANGED Promise!vars
  BY <1>1, <1>b DEF AddToOutbox, EnqueueRead, Labels, folders, history
<1>2. ASSUME NEW s \in Senders, StartPass(s) \/ TakeEntry(s) \/ EntryWithoutMessage(s)
                                  \/ EndPass(s) \/ AttemptRaises(s)
      PROVE  UNCHANGED Promise!vars
  BY <1>2, <1>b DEF StartPass, TakeEntry, EntryWithoutMessage, EndPass, AttemptRaises,
       Abort, Labels, folders, history
<1>3. ASSUME NEW s \in Senders, Conclude(s) \/ UpdateRead(s) \/ CompleteRead(s)
      PROVE  UNCHANGED Promise!vars
  BY <1>3, <1>b DEF Conclude, ConcludeAs, UpdateRead, CompleteRead, Labels, folders, history
<1>4. ASSUME NEW s \in Senders, MoveFetch(s) \/ MoveDrop(s) PROVE UNCHANGED Promise!vars
  BY <1>4, <1>b DEF MoveFetch, MoveDrop, NextEntry, Abort, Labels, folders, history
<1>5. ASSUME NEW p \in Procs, WriteTmp(p) PROVE UNCHANGED Promise!vars
  BY <1>5, <1>b DEF WriteTmp, Labels, folders, history
<1>6. ASSUME NEW s \in Senders, ReplaceTmp(s) PROVE UNCHANGED Promise!vars
  BY <1>6, <1>b DEF ReplaceTmp, NextEntry, Labels, folders, history
<1>7. ASSUME NEW m \in Msgs, ReplaceTmp(m) PROVE Promise!Next
  BY <1>a, <1>7, SubmitStep DEF Promise!Next
<1>8. ASSUME NEW s \in Senders, Attempt(s) PROVE [Promise!Next]_Promise!vars
  <2>1. PICK m \in Msgs : m = cur[s].key
    BY <1>8, EntryFacts DEF Attempt, Held
  <2>2. (\E r \in Rcpts : Promise!Settle(m, r)) \/ UNCHANGED Promise!vars
    BY <1>8, <2>1, SettleStep
  <2> QED
    BY <2>2 DEF Promise!Next
<1>9. ASSUME NEW s \in Senders, MoveCopy(s) PROVE Promise!Next
  <2>1. PICK m \in Msgs : m = cur[s].key
    BY <1>9, EntryFacts DEF MoveCopy, Moving
  <2>2. Promise!Send(m) \/ Promise!GiveUp(m)
    BY <1>9, <2>1, FileStep
  <2> QED
    BY <2>2 DEF Promise!Next
<1>10. ASSUME NEW s \in Senders, Bounce(s) PROVE Promise!Next
  <2>1. PICK m \in Msgs : m = cur[s].key
    BY <1>10, EntryFacts DEF Bounce, Moving
  <2>2. Promise!Report(m)
    BY <1>10, <2>1, ReportStep
  <2> QED
    BY <2>2 DEF Promise!Next
<1>11. ASSUME NEW p \in Procs, TmpIsGone(p) PROVE FALSE
  BY <1>a, <1>11, NoTmpIsGone
<1>12. ASSUME NEW m \in Msgs, UserDelete(m) PROVE FALSE
  BY <1>a, <1>12, NoUserDelete
<1>13. ASSUME NEW p \in Procs, Crash(p) PROVE FALSE
  BY <1>13 DEF Crash, TypeOK, HistoryType, Undisturbed
<1>14. CASE Tick \/ UNCHANGED vars
  <2>1. UNCHANGED <<pc, sent, failed, notices, accepted, refused>>
    BY <1>14 DEF Tick, vars, folders, history
  <2> QED
    BY <2>1, StutterStep
<1> QED
  BY <1>1, <1>2, <1>3, <1>4, <1>5, <1>6, <1>7, <1>8, <1>9, <1>10, <1>11, <1>12, <1>13,
     <1>14 DEF Next, EnqueueStep, PassStep

\* The outbound path, from enqueue to the folder a message ends in and the notice
\* about it, implements DeliveryPromise: each recipient is settled once, a verdict
\* is given once and with its grounds, and each failure is reported once.
THEOREM PromiseIsKept == Undisturbed => (Spec => Promise!Spec)
<1> SUFFICES ASSUME Undisturbed PROVE Spec => Promise!Spec
  OBVIOUS
<1>1. TypeOK /\ TypeOK' /\ FileInv /\ Honest /\ VerdictInOrder /\ OnceOnly /\ [Next]_vars
        => [Promise!Next]_Promise!vars
  BY PromiseStep
<1>2. Alone /\ MaxCrashes = 0
  BY DEF Undisturbed
<1> QED
  BY <1>1, <1>2, PromiseInit, TypeCorrect, AlwaysInOrder, AlwaysHonest, VerdictsAlwaysInOrder,
     AlwaysOnce, PTL DEF Spec, Promise!Spec
=============================================================================
