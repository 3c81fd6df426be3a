--------------------------- MODULE OutboundProofs ---------------------------
(***************************************************************************)
(* Proofs about Outbound, for any messages, recipients, processors, retry  *)
(* delays and environment.                                                 *)
(***************************************************************************)
EXTENDS Outbound, TLAPS

\* Clients and processors are distinct processes.
LEMMA ProcsFacts ==
    /\ Msgs \subseteq Procs /\ Senders \subseteq Procs
    /\ Procs \subseteq Msgs \cup Senders
    /\ \A s \in Senders : s \notin Msgs
BY OutboundAssumption DEF Procs

\* The delays are indexed by 1 .. Len(Delays).
LEMMA DelaysFacts ==
    /\ Len(Delays) \in Nat
    /\ \A i \in 1 .. Len(Delays) : Delays[i] \in Nat
    /\ PassCap = Len(Delays) + 2
BY OutboundAssumption DEF PassCap

\* A new entry is an entry.
LEMMA NewEntryType == ASSUME NEW m \in Msgs PROVE NewEntry(m) \in Entry
BY OutboundAssumption DEF NewEntry, Entry

\* No entry in hand is not an entry.
LEMMA NoEntryType == NoEntry \notin Entry
BY OutboundAssumption DEF NoEntry, Entry

-----------------------------------------------------------------------------
(* Types. *)

\* The initial states are well typed.
LEMMA InitType == Init => TypeOK
<1> SUFFICES ASSUME Init PROVE TypeOK
  OBVIOUS
<1>1. StoreType
  BY OutboundAssumption DEF Init, StoreType
<1>2. ProcType
  BY ProcsFacts DEF Init, ProcType, Labels
<1>3. PassType
  BY ProcsFacts DEF Init, PassType, Labels
<1>4. HistoryType
  BY OutboundAssumption, DelaysFacts DEF Init, HistoryType
<1> QED
  BY <1>1, <1>2, <1>3, <1>4 DEF TypeOK

\* Leaving a pass keeps the types.
LEMMA AbortType ==
    ASSUME TypeOK, NEW s \in Senders, Abort(s)
    PROVE  PassType' /\ pc' \in [Procs -> Labels]
                     /\ \A m \in Msgs : pc'[m] = pc[m]
BY ProcsFacts, OutboundAssumption
   DEF TypeOK, ProcType, PassType, Abort, ForgetPass, Goto, Labels

\* So does going on with the next entry.
LEMMA NextEntryType ==
    ASSUME TypeOK, NEW s \in Senders, NextEntry(s)
    PROVE  PassType' /\ pc' \in [Procs -> Labels]
                     /\ \A m \in Msgs : pc'[m] = pc[m]
BY ProcsFacts, OutboundAssumption
   DEF TypeOK, ProcType, PassType, NextEntry, Goto, Labels

\* Every step keeps the types: one step of the proof per action.
LEMMA StepType == TypeOK /\ [Next]_vars => TypeOK'
<1> SUFFICES ASSUME TypeOK, [Next]_vars PROVE TypeOK'
  OBVIOUS
<1> USE ProcsFacts, OutboundAssumption
<1>1. ASSUME NEW m \in Msgs, AddToOutbox(m) PROVE TypeOK'
  BY <1>1 DEF AddToOutbox, TypeOK, StoreType, ProcType, PassType, HistoryType,
       Labels, Goto, folders, pass, history
<1>2. ASSUME NEW m \in Msgs, EnqueueRead(m) PROVE TypeOK'
  BY <1>2, NewEntryType DEF EnqueueRead, TypeOK, StoreType, ProcType, PassType, HistoryType,
       Labels, Goto, folders, pass, history
<1>3. ASSUME NEW s \in Senders, StartPass(s) PROVE TypeOK'
  BY <1>3 DEF StartPass, TypeOK, StoreType, ProcType, PassType, HistoryType,
       Labels, Goto, folders, pass, history
<1>4. ASSUME NEW s \in Senders, TakeEntry(s) PROVE TypeOK'
  <2> PICK e \in todo[s] :
        /\ cur' = [cur EXCEPT ![s] = e]
        /\ todo' = [todo EXCEPT ![s] = @ \ {e}]
        /\ left' = [left EXCEPT ![s] = e.rcpts]
        /\ passes' = IF passes[e.key] < PassCap
                       THEN [passes EXCEPT ![e.key] = @ + 1] ELSE passes
    BY <1>4 DEF TakeEntry
  <2>1. e \in Entry /\ e.key \in Msgs /\ e.rcpts \subseteq Rcpts
    BY DEF TypeOK, PassType, Entry
  <2>2. passes' \in [Msgs -> 0 .. PassCap]
    BY <2>1, DelaysFacts DEF TypeOK, HistoryType
  <2> QED
    BY <1>4, <2>1, <2>2 DEF TakeEntry, TypeOK, StoreType, ProcType, PassType, HistoryType,
       Labels, Goto, folders, pass, history
<1>5. ASSUME NEW s \in Senders, EntryWithoutMessage(s) PROVE TypeOK'
  BY <1>5, AbortType DEF EntryWithoutMessage, TypeOK, StoreType, ProcType, HistoryType, folders, history
<1>6. ASSUME NEW s \in Senders, EndPass(s) PROVE TypeOK'
  BY <1>6, AbortType DEF EndPass, Abort, TypeOK, StoreType, ProcType, HistoryType, folders, history
<1>7. ASSUME NEW s \in Senders, Attempt(s) PROVE TypeOK'
  <2> PICK r \in left[s] :
        /\ Deliver(s, r) \/ Refuse(s, r) \/ FailForNow(s, r)
        /\ left' = [left EXCEPT ![s] = @ \ {r}]
    BY <1>7 DEF Attempt
  <2>1. r \in Rcpts /\ cur[s].key \in Msgs
    BY <1>7 DEF Attempt, TypeOK, PassType, Entry
  <2>2. clock \in Nat
    BY DEF TypeOK, StoreType
  <2>3. accepted' \subseteq Msgs \X Rcpts /\ refused' \subseteq Msgs \X Rcpts
    BY <2>1 DEF Deliver, Refuse, FailForNow, TypeOK, HistoryType
  <2>4. /\ pend' \in [Senders -> SUBSET Rcpts]
        /\ errs' \in [Senders -> SUBSET Rcpts]
    <3>1. CASE Deliver(s, r)
      BY <3>1 DEF Deliver, TypeOK, PassType
    <3>2. CASE Refuse(s, r)
      BY <3>2, <1>7, <2>1, <2>2 DEF Refuse, Attempt, TypeOK, PassType
    <3>3. CASE FailForNow(s, r)
      BY <3>3, <1>7, <2>1, <2>2 DEF FailForNow, Attempt, TypeOK, PassType
    <3> QED
      BY <3>1, <3>2, <3>3
  <2> QED
    BY <1>7, <2>3, <2>4 DEF Attempt, TypeOK, StoreType, ProcType, PassType, HistoryType,
       Labels, Goto, folders, pass, history
<1>8. ASSUME NEW s \in Senders, AttemptRaises(s) PROVE TypeOK'
  BY <1>8, AbortType DEF AttemptRaises, TypeOK, StoreType, ProcType, HistoryType, folders, history
<1>9. ASSUME NEW s \in Senders, Conclude(s) PROVE TypeOK'
  <2> DEFINE tries == cur[s].attempts + 1
             e == [key      |-> cur[s].key,
                   rcpts    |-> pend[s],
                   attempts |-> IF pend[s] = {} THEN cur[s].attempts ELSE tries,
                   next_ts  |-> IF pend[s] = {} \/ tries > Len(Delays)
                                  THEN cur[s].next_ts ELSE now[s] + Delays[tries]]
  <2>1. /\ cur[s] \in Entry /\ cur[s].key \in Msgs
        /\ cur[s].attempts \in Nat /\ cur[s].next_ts \in Nat
        /\ now[s] \in Nat /\ pend[s] \subseteq Rcpts
    BY <1>9 DEF Conclude, ConcludeAs, TypeOK, PassType, Entry
  <2>2. ~ (tries > Len(Delays)) => Delays[tries] \in Nat
    BY <2>1, DelaysFacts
  <2>3. e \in Entry
    BY <2>1, <2>2 DEF Entry
  <2>4. cur' = [cur EXCEPT ![s] = e]
    BY <1>9 DEF Conclude, ConcludeAs
  <2>5. goal' \in [Senders -> {"none", "sent", "failed", "retry"}] /\ goal'[s] # "none"
    BY <1>9 DEF Conclude, ConcludeAs, TypeOK, PassType
  <2> HIDE DEF e
  <2> QED
    BY <1>9, <2>3, <2>4, <2>5 DEF Conclude, ConcludeAs, TypeOK, StoreType, ProcType, PassType, HistoryType,
       Labels, Goto, folders, pass, history
<1>10. ASSUME NEW s \in Senders, UpdateRead(s) PROVE TypeOK'
  <2>1. cur[s] \in Entry
    BY <1>10 DEF UpdateRead, TypeOK, PassType
  <2>2. Without(queue, cur[s].key) \cup
          (IF cur[s].rcpts # {} THEN {cur[s]} ELSE {}) \subseteq Entry
    BY <2>1 DEF Without, TypeOK, StoreType
  <2> QED
    BY <1>10, <2>2 DEF UpdateRead, TypeOK, StoreType, ProcType, PassType, HistoryType,
       Labels, Goto, folders, pass, history
<1>11. ASSUME NEW s \in Senders, CompleteRead(s) PROVE TypeOK'
  BY <1>11 DEF CompleteRead, Without, TypeOK, StoreType, ProcType, PassType, HistoryType,
       Labels, Goto, folders, pass, history
<1>12. ASSUME NEW s \in Senders, MoveFetch(s) PROVE TypeOK'
  <2>1. CASE cur[s].key \in outbox
    <3>1. /\ pc[s] = "fetch" /\ Goto(s, "copy") /\ UNCHANGED pass
          /\ UNCHANGED <<clock, folders, queue, tmp, buf, history>>
      BY <1>12, <2>1 DEF MoveFetch
    <3> QED
      BY <3>1 DEF TypeOK, StoreType, ProcType, PassType, HistoryType,
       Labels, Goto, folders, pass, history
  <2>2. CASE cur[s].key \notin outbox
    BY <1>12, <2>2, AbortType DEF MoveFetch, TypeOK, StoreType, ProcType, HistoryType, folders, history
  <2> QED
    BY <2>1, <2>2
<1>13. ASSUME NEW s \in Senders, MoveCopy(s) PROVE TypeOK'
  <2>1. cur[s].key \in Msgs
    BY <1>13 DEF MoveCopy, TypeOK, PassType, Entry
  <2> QED
    BY <1>13, <2>1 DEF MoveCopy, TypeOK, StoreType, ProcType, PassType, HistoryType,
       Labels, Goto, folders, pass, history
<1>14. ASSUME NEW s \in Senders, MoveDrop(s) PROVE TypeOK'
  <2>1. CASE goal[s] = "failed"
    <3>1. /\ pc[s] = "drop" /\ Goto(s, "bounce") /\ UNCHANGED pass
          /\ outbox' \subseteq outbox
          /\ UNCHANGED <<clock, sent, failed, notices, queue, tmp, buf, history>>
      BY <1>14, <2>1 DEF MoveDrop
    <3> QED
      BY <2>1, <3>1 DEF TypeOK, StoreType, ProcType, PassType, HistoryType,
       Labels, Goto, folders, pass, history
  <2>2. CASE goal[s] # "failed"
    BY <1>14, <2>2, NextEntryType DEF MoveDrop, TypeOK, StoreType, ProcType, HistoryType, folders, history
  <2> QED
    BY <2>1, <2>2
<1>15. ASSUME NEW s \in Senders, Bounce(s) PROVE TypeOK'
  <2>1. [key |-> cur[s].key, names |-> errs[s]] \in [key : Msgs, names : SUBSET Rcpts]
    BY <1>15 DEF Bounce, TypeOK, PassType, Entry
  <2> QED
    BY <1>15, <2>1, NextEntryType DEF Bounce, TypeOK, StoreType, ProcType, HistoryType, folders, history
<1>16. ASSUME NEW p \in Procs, WriteTmp(p) PROVE TypeOK'
  BY <1>16 DEF WriteTmp, TypeOK, StoreType, ProcType, PassType, HistoryType,
       Labels, Goto, folders, pass, history
<1>17. ASSUME NEW p \in Procs, ReplaceTmp(p) PROVE TypeOK'
  <2>4. /\ queue' \subseteq Entry /\ tmp' = NoFile
        /\ buf' = [buf EXCEPT ![p] = {}]
        /\ UNCHANGED <<clock, folders, history>>
    BY <1>17 DEF ReplaceTmp, TypeOK, StoreType
  <2>1. CASE p \in Msgs
    <3>1. Goto(p, "queued") /\ UNCHANGED pass
      BY <1>17, <2>1 DEF ReplaceTmp
    <3> QED
      BY <2>1, <2>4, <3>1 DEF TypeOK, StoreType, ProcType, PassType, HistoryType,
       Labels, Goto, folders, pass, history
  <2>2. CASE p \in Senders /\ goal[p] # "retry"
    <3>1. pc[p] = "replace" /\ Goto(p, "fetch") /\ UNCHANGED pass
      BY <1>17, <2>2 DEF ReplaceTmp
    <3> QED
      BY <2>2, <2>4, <3>1 DEF TypeOK, StoreType, ProcType, PassType, HistoryType,
       Labels, Goto, folders, pass, history
  <2>3. CASE p \in Senders /\ goal[p] = "retry"
    <3>1. NextEntry(p)
      BY <1>17, <2>3 DEF ReplaceTmp
    <3> QED
      BY <2>3, <2>4, <3>1, NextEntryType
      DEF TypeOK, StoreType, ProcType, HistoryType, folders, history
  <2> QED
    BY <2>1, <2>2, <2>3
<1>18. ASSUME NEW p \in Procs, TmpIsGone(p) PROVE TypeOK'
  <2>1. CASE p \in Msgs
    <3>1. Goto(p, "error") /\ UNCHANGED pass
          /\ buf' = [buf EXCEPT ![p] = {}]
          /\ UNCHANGED <<clock, folders, queue, tmp, history>>
      BY <1>18, <2>1 DEF TmpIsGone
    <3> QED
      BY <2>1, <3>1 DEF TypeOK, StoreType, ProcType, PassType, HistoryType,
       Labels, Goto, folders, pass, history
  <2>2. CASE p \in Senders
    BY <1>18, <2>2, AbortType DEF TmpIsGone, TypeOK, StoreType, ProcType, HistoryType, folders, history
  <2> QED
    BY <2>1, <2>2
<1>19. ASSUME NEW m \in Msgs, UserDelete(m) PROVE TypeOK'
  BY <1>19 DEF UserDelete, TypeOK, StoreType, ProcType, PassType, HistoryType,
       Labels, Goto, folders, pass, history
<1>20. ASSUME NEW p \in Procs, Crash(p) PROVE TypeOK'
  <2>1. CASE p \in Msgs
    <3>1. Goto(p, "error") /\ UNCHANGED pass
          /\ buf' = [buf EXCEPT ![p] = {}]
          /\ UNCHANGED <<clock, folders, queue, tmp, accepted, refused,
                        passes, deleted>>
      BY <1>20, <2>1 DEF Crash
    <3>2. crashes' \in 0 .. MaxCrashes
      BY <1>20 DEF Crash, TypeOK, HistoryType
    <3> QED
      BY <2>1, <3>1, <3>2 DEF TypeOK, StoreType, ProcType, PassType, HistoryType,
       Labels, Goto, folders, pass, history
  <2>2. CASE p \in Senders
    BY <1>20, <2>2, AbortType DEF Crash, TypeOK, StoreType, ProcType, HistoryType, folders
  <2> QED
    BY <2>1, <2>2
<1>21. CASE Tick
  BY <1>21 DEF Tick, TypeOK, StoreType, ProcType, PassType, HistoryType,
       Labels, Goto, folders, pass, history
<1>22. CASE UNCHANGED vars
  BY <1>22 DEF vars, TypeOK, StoreType, ProcType, PassType, HistoryType,
       Labels, Goto, folders, pass, history
<1> QED
  BY <1>1, <1>2, <1>3, <1>4, <1>5, <1>6, <1>7, <1>8, <1>9, <1>10, <1>11, <1>12,
     <1>13, <1>14, <1>15, <1>16, <1>17, <1>18, <1>19, <1>20, <1>21, <1>22
  DEF Next, EnqueueStep, PassStep

\* The type invariant TypeOK of the outbound path holds in every reachable state.
THEOREM TypeCorrect == Spec => []TypeOK
BY InitType, StepType, PTL DEF Spec

-----------------------------------------------------------------------------
(* What the history and the final folders do: they grow. *)

Grows ==
    /\ accepted \subseteq accepted' /\ refused \subseteq refused'
    /\ sent \subseteq sent' /\ failed \subseteq failed'
    /\ deleted \subseteq deleted'
    /\ \A m \in Msgs : passes[m] <= passes'[m]

\* No step takes back an answer, a verdict or a pass.
LEMMA StepGrows == TypeOK /\ [Next]_vars => Grows
<1> SUFFICES ASSUME TypeOK, [Next]_vars PROVE Grows
  OBVIOUS
<1>0. \A m \in Msgs : passes[m] \in Nat
  BY DelaysFacts DEF TypeOK, HistoryType
<1>1. UNCHANGED <<passes>> => \A m \in Msgs : passes[m] <= passes'[m]
  BY <1>0
<1>2. ASSUME NEW s \in Senders, TakeEntry(s) PROVE Grows
  <2>1. \A m \in Msgs : passes[m] <= passes'[m]
    <3> PICK e \in todo[s] :
          passes' = IF passes[e.key] < PassCap
                      THEN [passes EXCEPT ![e.key] = @ + 1] ELSE passes
      BY <1>2 DEF TakeEntry
    <3> QED
      BY <1>0 DEF TypeOK, HistoryType
  <2> QED
    BY <1>2, <2>1 DEF TakeEntry, Grows, folders
<1>3. ASSUME NEW s \in Senders, Attempt(s) PROVE Grows
  BY <1>3, <1>1 DEF Attempt, Deliver, Refuse, FailForNow, Grows, folders
<1>4. ASSUME NEW s \in Senders, MoveCopy(s) PROVE Grows
  BY <1>4, <1>1 DEF MoveCopy, Grows, history
<1>5. ASSUME NEW p \in Procs,
             \/ p \in Msgs /\ (AddToOutbox(p) \/ EnqueueRead(p) \/ UserDelete(p))
             \/ WriteTmp(p) \/ ReplaceTmp(p) \/ TmpIsGone(p) \/ Crash(p)
      PROVE  Grows
  BY <1>5, <1>1 DEF AddToOutbox, EnqueueRead, UserDelete, WriteTmp, ReplaceTmp,
     TmpIsGone, Crash, Grows, folders, history
<1>6. ASSUME NEW s \in Senders,
             \/ StartPass(s) \/ EntryWithoutMessage(s) \/ EndPass(s)
             \/ AttemptRaises(s) \/ Conclude(s) \/ UpdateRead(s)
             \/ CompleteRead(s) \/ MoveFetch(s) \/ MoveDrop(s) \/ Bounce(s)
      PROVE  Grows
  BY <1>6, <1>1 DEF StartPass, EntryWithoutMessage, EndPass, AttemptRaises, Conclude,
     ConcludeAs, UpdateRead, CompleteRead, MoveFetch, MoveDrop, Bounce, Grows, folders, history
<1>7. CASE Tick \/ UNCHANGED vars
  BY <1>7, <1>1 DEF Tick, vars, Grows, folders, history
<1> QED
  BY <1>2, <1>3, <1>4, <1>5, <1>6, <1>7, ProcsFacts DEF Next, EnqueueStep, PassStep

-----------------------------------------------------------------------------
(* Copies of entries. *)

\* An honest entry stays honest.
LEMMA EntryKept ==
    ASSUME TypeOK, TypeOK', Grows, NEW e \in Entry, EntryIsHonest(e)
    PROVE  EntryIsHonest(e)'
<1>1. e.key \in Msgs /\ e.attempts \in Nat
  BY DEF Entry
<1>2. passes[e.key] \in Nat /\ passes'[e.key] \in Nat /\ passes[e.key] <= passes'[e.key]
  BY <1>1, DelaysFacts DEF TypeOK, HistoryType, Grows
<1>3. e.attempts <= passes'[e.key]
  BY <1>1, <1>2 DEF EntryIsHonest
<1> QED
  BY <1>3 DEF EntryIsHonest, Grows, Resolved

\* Copies are entries.
LEMMA CopiesType == TypeOK => Copies \subseteq Entry
BY DEF TypeOK, StoreType, ProcType, PassType, Copies

\* A step that adds only honest copies leaves all copies honest.
LEMMA CopiesKept ==
    ASSUME TypeOK, TypeOK', Grows, \A e \in Copies : EntryIsHonest(e),
           \A e \in Copies' : e \in Copies \/ EntryIsHonest(e)'
    PROVE  \A e \in Copies' : EntryIsHonest(e)'
BY EntryKept, CopiesType

\* A step that writes no file and reads none into memory adds no copy.
LEMMA NoNewCopies ==
    ASSUME queue' = queue, tmp' = tmp,
           \A p \in Procs : buf'[p] \subseteq buf[p],
           \A s \in Senders : todo'[s] \subseteq todo[s]
    PROVE  Copies' \subseteq Copies
BY DEF Copies

-----------------------------------------------------------------------------
(* The hands of the processors. *)

SameHand(s) ==
    /\ pc'[s] = pc[s] /\ cur'[s] = cur[s] /\ left'[s] = left[s]
    /\ pend'[s] = pend[s] /\ errs'[s] = errs[s] /\ goal'[s] = goal[s]

\* What others do does not spoil the hand of a processor.
LEMMA HandKept ==
    ASSUME TypeOK, TypeOK', Grows, NEW s \in Senders, SameHand(s), HandIsHonest(s)
    PROVE  HandIsHonest(s)'
<1>1. CASE pc[s] \in {"idle", "scan"}
  BY <1>1 DEF HandIsHonest, SameHand
<1>2. CASE pc[s] \notin {"idle", "scan"}
  <2> PICK c \in Entry : c = cur[s]
    BY <1>2 DEF TypeOK, PassType
  <2>1. c.key \in Msgs /\ c.attempts \in Nat
    BY DEF Entry
  <2>2. passes[c.key] \in Nat /\ passes'[c.key] \in Nat /\ passes[c.key] <= passes'[c.key]
    BY <2>1, DelaysFacts DEF TypeOK, HistoryType, Grows
  <2>3. \A r : <<c.key, r>> \in Resolved => <<c.key, r>> \in Resolved'
    BY DEF Grows, Resolved
  <2>4. (\E r \in Rcpts : <<c.key, r>> \in refused)
          => \E r \in Rcpts : <<c.key, r>> \in refused'
    BY DEF Grows
  <2>5. Cause(c.key) => Cause(c.key)'
    BY <2>2, <2>4, DelaysFacts DEF Cause
  <2>6. EntryIsHonest(c) => EntryIsHonest(c)'
    BY EntryKept
  <2>7. c.attempts < passes[c.key] => c.attempts < passes'[c.key]
    BY <2>1, <2>2
  <2>8. sent \subseteq sent' /\ failed \subseteq failed'
    BY DEF Grows
  <2>9. cur'[s] = c
    BY DEF SameHand
  <2> QED
    BY <2>3, <2>4, <2>5, <2>6, <2>7, <2>8, <2>9 DEF HandIsHonest, SameHand
<1> QED
  BY <1>1, <1>2

-----------------------------------------------------------------------------
(* The parts of Honest under the steps that do not touch them. *)

\* Verdicts stay justified while nothing is added to Sent, Failed or INBOX.
LEMMA VerdictsKept ==
    ASSUME TypeOK, TypeOK', Grows, Honest,
           sent' = sent, failed' = failed, notices' = notices
    PROVE  SentOnlyWhenResolved' /\ GivenUpOnlyWithCause' /\ NoticeIsAboutFailure'
<1>1. SentOnlyWhenResolved'
  BY DEF Honest, SentOnlyWhenResolved, Resolved, Grows
<1>2. ASSUME NEW m \in failed' PROVE Cause(m)'
  <2>1. m \in Msgs /\ passes[m] \in Nat /\ passes'[m] \in Nat /\ passes[m] <= passes'[m]
    BY <1>2, DelaysFacts DEF TypeOK, StoreType, HistoryType, Grows
  <2>2. CASE \E r \in Rcpts : <<m, r>> \in refused
    BY <2>2 DEF Cause, Grows
  <2>3. CASE passes[m] > Len(Delays)
    BY <2>1, <2>3, DelaysFacts DEF Cause
  <2> QED
    BY <1>2, <2>2, <2>3 DEF Honest, GivenUpOnlyWithCause
<1>3. GivenUpOnlyWithCause'
  BY <1>2 DEF GivenUpOnlyWithCause, Cause
<1>4. NoticeIsAboutFailure'
  BY DEF Honest, NoticeIsAboutFailure
<1> QED
  BY <1>1, <1>3, <1>4

\* No message is lost while Outbox only grows.
LEMMA NeverLostKept ==
    ASSUME Grows, NeverLost, outbox \subseteq outbox',
           \A m \in Msgs : pc'[m] # "new" => pc[m] # "new" \/ m \in outbox'
    PROVE  NeverLost'
BY DEF NeverLost, Grows

\* A processor between entries has nothing to answer for.
LEMMA FreeHand ==
    ASSUME NEW s \in Senders, pc'[s] \in {"idle", "scan"}, pend'[s] = {}, errs'[s] = {}
    PROVE  HandIsHonest(s)'
BY DEF HandIsHonest

\* What a step of one process must do to keep Honest: p is that process, and
\* only the hand of p, when it is a processor, needs a look.
LEMMA HonestKept ==
    ASSUME TypeOK, TypeOK', Grows, Honest, NEW p \in Procs,
           \A e \in Copies' : e \in Copies \/ EntryIsHonest(e)',
           \A s \in Senders \ {p} : SameHand(s),
           p \in Senders => HandIsHonest(p)',
           SentOnlyWhenResolved', GivenUpOnlyWithCause', NoticeIsAboutFailure',
           NeverLost'
    PROVE  Honest'
<1>1. \A e \in Copies' : EntryIsHonest(e)'
  BY CopiesKept DEF Honest
<1>2. ASSUME NEW s \in Senders PROVE HandIsHonest(s)'
  <2>1. CASE s = p
    BY <2>1
  <2>2. CASE s # p
    BY <2>2, HandKept DEF Honest
  <2> QED
    BY <2>1, <2>2
<1> QED
  BY <1>1, <1>2 DEF Honest

-----------------------------------------------------------------------------
(* Steps of the clients, of the writers of the queue file, and of nobody. *)

\* Enqueue adds the message before the entry, and an honest entry.
LEMMA AddToOutboxHonest ==
    ASSUME TypeOK, TypeOK', Grows, Honest, NEW m \in Msgs, AddToOutbox(m)
    PROVE  Honest'
<1>1. Copies' \subseteq Copies
  BY NoNewCopies DEF AddToOutbox, pass
<1>2. \A s \in Senders : SameHand(s)
  BY ProcsFacts DEF AddToOutbox, SameHand, Goto, pass, TypeOK, ProcType
<1>3. NeverLost'
  BY NeverLostKept, ProcsFacts DEF AddToOutbox, Goto, Honest, TypeOK, ProcType
<1> QED
  BY <1>1, <1>2, <1>3, HonestKept, VerdictsKept, ProcsFacts DEF AddToOutbox

\* A message that is enqueued adds an honest entry.
LEMMA EnqueueReadHonest ==
    ASSUME TypeOK, TypeOK', Grows, Honest, NEW m \in Msgs, EnqueueRead(m)
    PROVE  Honest'
<1>1. EntryIsHonest(NewEntry(m))'
  <2>1. passes'[m] \in Nat
    BY DelaysFacts DEF TypeOK, HistoryType
  <2> QED
    BY <2>1, DelaysFacts DEF EntryIsHonest, NewEntry
<1>2. \A e \in Copies' : e \in Copies \/ EntryIsHonest(e)'
  <2>1. buf' = [buf EXCEPT ![m] = queue \cup {NewEntry(m)}]
        /\ queue' = queue /\ tmp' = tmp /\ todo' = todo
    BY DEF EnqueueRead, pass
  <2>2. \A p \in Procs : buf'[p] \subseteq buf[p] \cup queue \cup {NewEntry(m)}
    BY <2>1 DEF TypeOK, ProcType
  <2>3. Copies' \subseteq Copies \cup {NewEntry(m)}
    BY <2>1, <2>2 DEF Copies
  <2> QED
    BY <1>1, <2>3
<1>3. \A s \in Senders : SameHand(s)
  BY ProcsFacts DEF EnqueueRead, SameHand, Goto, pass, TypeOK, ProcType
<1>4. NeverLost'
  BY NeverLostKept DEF EnqueueRead, Goto, Honest, TypeOK, ProcType, folders
<1> QED
  BY <1>2, <1>3, <1>4, HonestKept, VerdictsKept, ProcsFacts DEF EnqueueRead, folders

\* Writing the temporary file copies entries from memory.
LEMMA WriteTmpHonest ==
    ASSUME TypeOK, TypeOK', Grows, Honest, NEW p \in Procs, WriteTmp(p)
    PROVE  Honest'
<1>1. Copies' \subseteq Copies
  <2>1. tmp' = buf[p] /\ queue' = queue /\ buf' = buf /\ todo' = todo
    BY DEF WriteTmp, pass
  <2> QED
    BY <2>1 DEF Copies
<1>2. \A s \in Senders \ {p} : SameHand(s)
  BY ProcsFacts DEF WriteTmp, SameHand, Goto, pass, TypeOK, ProcType
<1>3. p \in Senders => HandIsHonest(p)'
  <2> SUFFICES ASSUME p \in Senders PROVE HandIsHonest(p)'
    OBVIOUS
  <2>1. pc[p] = "write" /\ pc'[p] = "replace"
    BY DEF WriteTmp, Goto, TypeOK, ProcType
  <2> QED
    BY <2>1 DEF WriteTmp, Honest, HandIsHonest, pass, history, EntryIsHonest,
       Resolved, Cause
<1>4. NeverLost'
  BY NeverLostKept DEF WriteTmp, Goto, Honest, TypeOK, ProcType, folders
<1> QED
  BY <1>1, <1>2, <1>3, <1>4, HonestKept, VerdictsKept DEF WriteTmp, folders

\* Replacing the queue file makes the temporary file's entries current.
LEMMA ReplaceTmpHonest ==
    ASSUME TypeOK, TypeOK', Grows, Honest, NEW p \in Procs, ReplaceTmp(p)
    PROVE  Honest'
<1>1. Copies' \subseteq Copies
  <2>1. /\ tmp # NoFile /\ queue' = tmp /\ tmp' = NoFile /\ todo' = todo
        /\ \A o \in Procs : buf'[o] \subseteq buf[o]
    BY DEF ReplaceTmp, pass, NextEntry, TypeOK, ProcType
  <2> QED
    BY <2>1 DEF Copies
<1>2. \A s \in Senders \ {p} : SameHand(s)
  BY ProcsFacts DEF ReplaceTmp, NextEntry, SameHand, Goto, pass, TypeOK, ProcType, PassType
<1>3. p \in Senders => HandIsHonest(p)'
  <2> SUFFICES ASSUME p \in Senders PROVE HandIsHonest(p)'
    OBVIOUS
  <2>1. CASE goal[p] = "retry"
    BY <2>1, FreeHand, ProcsFacts
    DEF ReplaceTmp, NextEntry, Goto, TypeOK, ProcType, PassType
  <2>2. CASE goal[p] # "retry"
    <3>1. pc[p] = "replace" /\ pc'[p] = "fetch" /\ UNCHANGED pass /\ UNCHANGED history
      BY <2>2, ProcsFacts DEF ReplaceTmp, Goto, TypeOK, ProcType
    <3> QED
      BY <3>1 DEF Honest, HandIsHonest, pass, history, EntryIsHonest, Resolved, Cause
  <2> QED
    BY <2>1, <2>2
<1>4. NeverLost'
  BY NeverLostKept, ProcsFacts
  DEF ReplaceTmp, NextEntry, Goto, Honest, TypeOK, ProcType, folders
<1> QED
  BY <1>1, <1>2, <1>3, <1>4, HonestKept, VerdictsKept DEF ReplaceTmp, folders

\* A missing temporary file ends the operation of its writer.
LEMMA TmpIsGoneHonest ==
    ASSUME TypeOK, TypeOK', Grows, Honest, NEW p \in Procs, TmpIsGone(p)
    PROVE  Honest'
<1>1. Copies' \subseteq Copies
  <2>1. /\ queue' = queue /\ tmp' = tmp
        /\ \A o \in Procs : buf'[o] \subseteq buf[o]
        /\ \A s \in Senders : todo'[s] \subseteq todo[s]
    BY DEF TmpIsGone, pass, Abort, ForgetPass, TypeOK, ProcType, PassType
  <2> QED
    BY <2>1, NoNewCopies
<1>2. \A s \in Senders \ {p} : SameHand(s)
  BY ProcsFacts
  DEF TmpIsGone, Abort, ForgetPass, SameHand, Goto, pass, TypeOK, ProcType, PassType
<1>3. p \in Senders => HandIsHonest(p)'
  BY FreeHand, ProcsFacts
  DEF TmpIsGone, Abort, ForgetPass, Goto, TypeOK, ProcType, PassType
<1>4. NeverLost'
  BY NeverLostKept, ProcsFacts
  DEF TmpIsGone, Abort, Goto, Honest, TypeOK, ProcType, folders
<1> QED
  BY <1>1, <1>2, <1>3, <1>4, HonestKept, VerdictsKept DEF TmpIsGone, folders

\* A killed process takes its memory with it.
LEMMA CrashHonest ==
    ASSUME TypeOK, TypeOK', Grows, Honest, NEW p \in Procs, Crash(p)
    PROVE  Honest'
<1>1. Copies' \subseteq Copies
  <2>1. /\ queue' = queue /\ tmp' = tmp
        /\ \A o \in Procs : buf'[o] \subseteq buf[o]
        /\ \A s \in Senders : todo'[s] \subseteq todo[s]
    BY DEF Crash, pass, Abort, ForgetPass, TypeOK, ProcType, PassType
  <2> QED
    BY <2>1, NoNewCopies
<1>2. \A s \in Senders \ {p} : SameHand(s)
  BY ProcsFacts
  DEF Crash, Abort, ForgetPass, SameHand, Goto, pass, TypeOK, ProcType, PassType
<1>3. p \in Senders => HandIsHonest(p)'
  BY FreeHand, ProcsFacts
  DEF Crash, Abort, ForgetPass, Goto, TypeOK, ProcType, PassType
<1>4. NeverLost'
  BY NeverLostKept, ProcsFacts
  DEF Crash, Abort, Goto, Honest, TypeOK, ProcType, folders
<1> QED
  BY <1>1, <1>2, <1>3, <1>4, HonestKept, VerdictsKept DEF Crash, folders

\* A user's deletion is on record; the clock and stuttering change nothing else.
LEMMA OtherHonest ==
    ASSUME TypeOK, TypeOK', Grows, Honest,
           (\E m \in Msgs : UserDelete(m)) \/ Tick \/ UNCHANGED vars
    PROVE  Honest'
<1>1. /\ \A e \in Copies' : e \in Copies
      /\ \A s \in Senders : SameHand(s)
  BY NoNewCopies DEF UserDelete, Tick, vars, pass, SameHand
<1>2. NeverLost'
  BY DEF UserDelete, Tick, vars, folders, history, Honest, NeverLost
<1>3. SentOnlyWhenResolved' /\ GivenUpOnlyWithCause' /\ NoticeIsAboutFailure'
  BY VerdictsKept DEF UserDelete, Tick, vars, folders
<1>4. \A e \in Copies' : EntryIsHonest(e)'
  BY <1>1, CopiesKept DEF Honest
<1>5. \A s \in Senders : HandIsHonest(s)'
  BY <1>1, HandKept DEF Honest
<1> QED
  BY <1>2, <1>3, <1>4, <1>5 DEF Honest

-----------------------------------------------------------------------------
(* Steps of the processors. *)

\* Steps that begin a pass or end one.
LEMMA StartPassHonest ==
    ASSUME TypeOK, TypeOK', Grows, Honest, NEW s \in Senders, StartPass(s)
    PROVE  Honest'
<1>1. Copies' \subseteq Copies
  <2>1. /\ queue' = queue /\ tmp' = tmp /\ buf' = buf
        /\ \A o \in Senders : todo'[o] \subseteq todo[o] \cup queue
    BY DEF StartPass, TypeOK, PassType
  <2> QED
    BY <2>1 DEF Copies
<1>2. \A o \in Senders \ {s} : SameHand(o)
  BY ProcsFacts DEF StartPass, SameHand, Goto, TypeOK, ProcType
<1>3. HandIsHonest(s)'
  BY FreeHand, ProcsFacts DEF StartPass, Goto, TypeOK, ProcType, Honest, HandIsHonest
<1>4. NeverLost'
  BY NeverLostKept, ProcsFacts DEF StartPass, Goto, Honest, TypeOK, ProcType, folders
<1> QED
  BY <1>1, <1>2, <1>3, <1>4, HonestKept, VerdictsKept, ProcsFacts DEF StartPass, folders

\* A pass that is given up adds nothing to what is there.
LEMMA LeavePassHonest ==
    ASSUME TypeOK, TypeOK', Grows, Honest, NEW s \in Senders, Abort(s),
           UNCHANGED <<clock, folders, queue, tmp, buf, history>>
    PROVE  Honest'
<1>1. Copies' \subseteq Copies
  <2>1. \A o \in Senders : todo'[o] \subseteq todo[o]
    BY DEF Abort, ForgetPass, TypeOK, PassType
  <2> QED
    BY <2>1, NoNewCopies
<1>2. \A o \in Senders \ {s} : SameHand(o)
  BY ProcsFacts DEF Abort, ForgetPass, SameHand, Goto, TypeOK, ProcType, PassType
<1>3. HandIsHonest(s)'
  BY FreeHand, ProcsFacts DEF Abort, ForgetPass, Goto, TypeOK, ProcType, PassType
<1>4. NeverLost'
  BY NeverLostKept, ProcsFacts DEF Abort, Goto, Honest, TypeOK, ProcType, folders
<1> QED
  BY <1>1, <1>2, <1>3, <1>4, HonestKept, VerdictsKept, ProcsFacts DEF folders

\* An entry taken up is honest, and so are the locals it starts with.
LEMMA TakeEntryHonest ==
    ASSUME TypeOK, TypeOK', Grows, Honest, NEW s \in Senders, TakeEntry(s)
    PROVE  Honest'
<1> PICK e \in todo[s] :
      /\ cur' = [cur EXCEPT ![s] = e]
      /\ todo' = [todo EXCEPT ![s] = @ \ {e}]
      /\ left' = [left EXCEPT ![s] = e.rcpts]
      /\ passes' = IF passes[e.key] < PassCap
                     THEN [passes EXCEPT ![e.key] = @ + 1] ELSE passes
  BY DEF TakeEntry
<1>1. Copies' \subseteq Copies
  <2>1. \A o \in Senders : todo'[o] \subseteq todo[o]
    BY DEF TypeOK, PassType
  <2> QED
    BY <2>1, NoNewCopies DEF TakeEntry
<1>2. \A o \in Senders \ {s} : SameHand(o)
  BY ProcsFacts DEF TakeEntry, SameHand, Goto, TypeOK, ProcType, PassType
<1>3. HandIsHonest(s)'
  <2>1. e \in Entry /\ e \in Copies /\ EntryIsHonest(e)
    BY DEF Copies, TypeOK, PassType, Honest
  <2>2. e.key \in Msgs /\ e.attempts \in Nat
    BY <2>1 DEF Entry
  <2>3. e.attempts < passes'[e.key]
    <3>1. passes[e.key] \in Nat /\ Len(Delays) \in Nat
      BY <2>2, DelaysFacts DEF TypeOK, HistoryType
    <3>2. e.attempts <= Len(Delays) /\ e.attempts <= passes[e.key]
      BY <2>1 DEF EntryIsHonest
    <3>3. CASE passes[e.key] < PassCap
      BY <2>2, <3>1, <3>2, <3>3 DEF TypeOK, HistoryType
    <3>4. CASE ~(passes[e.key] < PassCap)
      BY <2>2, <3>1, <3>2, <3>4, DelaysFacts
    <3> QED
      BY <3>3, <3>4
  <2>4. /\ pc[s] = "scan" /\ pc'[s] = "attempt" /\ cur'[s] = e /\ left'[s] = e.rcpts
        /\ pend' = pend /\ errs' = errs /\ accepted' = accepted /\ refused' = refused
    BY ProcsFacts DEF TakeEntry, Goto, TypeOK, ProcType, PassType
  <2>5. errs[s] = {} /\ pend[s] = {}
    BY <2>4 DEF Honest, HandIsHonest
  <2> QED
    BY <2>1, <2>3, <2>4, <2>5 DEF HandIsHonest, EntryIsHonest, Resolved
<1>4. NeverLost'
  BY NeverLostKept, ProcsFacts DEF TakeEntry, Goto, Honest, TypeOK, ProcType, folders
<1> QED
  BY <1>1, <1>2, <1>3, <1>4, HonestKept, VerdictsKept, ProcsFacts DEF TakeEntry, folders

\* Whatever the answer, the recipient attempted is accounted for.
LEMMA AttemptHonest ==
    ASSUME TypeOK, TypeOK', Grows, Honest, NEW s \in Senders, Attempt(s)
    PROVE  Honest'
<1> PICK r \in left[s] :
      /\ Deliver(s, r) \/ Refuse(s, r) \/ FailForNow(s, r)
      /\ left' = [left EXCEPT ![s] = @ \ {r}]
  BY DEF Attempt
<1>1. Copies' \subseteq Copies
  BY NoNewCopies DEF Attempt
<1>2. \A o \in Senders \ {s} : SameHand(o)
  BY DEF Attempt, Deliver, Refuse, FailForNow, SameHand, TypeOK, PassType
<1>3. HandIsHonest(s)'
  <2> PICK c \in Entry : c = cur[s]
    BY DEF Attempt, TypeOK, PassType
  <2>1. /\ pc[s] = "attempt" /\ pc'[s] = "attempt" /\ cur'[s] = c
        /\ passes' = passes /\ left'[s] = left[s] \ {r}
    BY DEF Attempt, TypeOK, PassType
  <2>2. /\ left[s] \cup errs[s] \subseteq RcptsOf[c.key] /\ pend[s] \subseteq errs[s]
        /\ \A q \in RcptsOf[c.key] :
             q \in left[s] \cup pend[s] \/ <<c.key, q>> \in Resolved
        /\ c.attempts <= Len(Delays) /\ c.attempts < passes[c.key]
        /\ errs[s] \subseteq pend[s] \/ \E q \in Rcpts : <<c.key, q>> \in refused
    BY <2>1 DEF Honest, HandIsHonest
  <2>3. r \in Rcpts
    BY DEF TypeOK, PassType
  <2>4. CASE Deliver(s, r)
    BY <2>1, <2>2, <2>4 DEF Deliver, HandIsHonest, Resolved
  <2>5. CASE Refuse(s, r)
    <3>1. errs'[s] = errs[s] \cup {r} /\ pend' = pend /\ accepted' = accepted
          /\ refused' = refused \cup {<<c.key, r>>}
      BY <2>5 DEF Refuse, TypeOK, PassType
    <3> QED
      BY <2>1, <2>2, <2>3, <3>1 DEF HandIsHonest, Resolved
  <2>6. CASE FailForNow(s, r)
    <3>1. errs'[s] = errs[s] \cup {r} /\ pend'[s] = pend[s] \cup {r}
          /\ accepted \subseteq accepted' /\ refused' = refused
      BY <2>6 DEF FailForNow, TypeOK, PassType
    <3> QED
      BY <2>1, <2>2, <2>3, <3>1 DEF HandIsHonest, Resolved
  <2> QED
    BY <2>4, <2>5, <2>6
<1>4. NeverLost'
  BY NeverLostKept DEF Attempt, Honest, folders
<1> QED
  BY <1>1, <1>2, <1>3, <1>4, HonestKept, VerdictsKept, ProcsFacts DEF Attempt, folders

\* The verdict Conclude reaches is the one the attempts justify.
LEMMA ConcludeHonest ==
    ASSUME TypeOK, TypeOK', Grows, Honest, NEW s \in Senders, Conclude(s)
    PROVE  Honest'
<1>1. Copies' \subseteq Copies
  BY NoNewCopies DEF Conclude, ConcludeAs
<1>2. \A o \in Senders \ {s} : SameHand(o)
  BY ProcsFacts DEF Conclude, ConcludeAs, SameHand, Goto, TypeOK, ProcType, PassType
<1>3. HandIsHonest(s)'
  <2> PICK c \in Entry : c = cur[s]
    BY DEF Conclude, ConcludeAs, TypeOK, PassType
  <2>0. /\ c.key \in Msgs /\ c.attempts \in Nat /\ passes[c.key] \in Nat
        /\ Len(Delays) \in Nat
    BY DelaysFacts DEF Entry, TypeOK, HistoryType
  <2>1. /\ pc[s] = "attempt" /\ left[s] = {} /\ pc'[s] = "read"
        /\ pend' = pend /\ errs' = errs
        /\ accepted' = accepted /\ refused' = refused /\ passes' = passes
    BY ProcsFacts DEF Conclude, ConcludeAs, Goto, history, TypeOK, ProcType
  <2>2. /\ errs[s] \subseteq RcptsOf[c.key] /\ pend[s] \subseteq errs[s]
        /\ \A q \in RcptsOf[c.key] : q \in pend[s] \/ <<c.key, q>> \in Resolved
        /\ c.attempts <= Len(Delays) /\ c.attempts < passes[c.key]
        /\ errs[s] \subseteq pend[s] \/ \E q \in Rcpts : <<c.key, q>> \in refused
    BY <2>1 DEF Honest, HandIsHonest
  <2>3. /\ cur'[s].key = c.key /\ cur'[s].rcpts = pend[s]
        /\ cur'[s].attempts = IF pend[s] = {} THEN c.attempts ELSE c.attempts + 1
    BY DEF Conclude, ConcludeAs, TypeOK, PassType
  <2>4. goal'[s] = CASE pend[s] = {} /\ errs[s] = {}                    -> "sent"
                     [] pend[s] = {} /\ errs[s] # {}                    -> "failed"
                     [] pend[s] # {} /\ c.attempts + 1 > Len(Delays)    -> "failed"
                     [] pend[s] # {} /\ ~(c.attempts + 1 > Len(Delays)) -> "retry"
    BY DEF Conclude, ConcludeAs, TypeOK, PassType
  <2>5. CASE pend[s] = {} /\ errs[s] = {}
    <3>1. goal'[s] = "sent"
      BY <2>4, <2>5
    <3> QED
      BY <2>1, <2>2, <2>3, <2>5, <3>1 DEF HandIsHonest, Resolved
  <2>6. CASE pend[s] = {} /\ errs[s] # {}
    <3>1. goal'[s] = "failed"
      BY <2>4, <2>6
    <3>2. \E q \in Rcpts : <<c.key, q>> \in refused
      BY <2>2, <2>6
    <3> QED
      BY <2>1, <2>2, <2>3, <2>6, <3>1, <3>2 DEF HandIsHonest, Cause
  <2>7. CASE pend[s] # {} /\ c.attempts + 1 > Len(Delays)
    <3>1. goal'[s] = "failed"
      BY <2>4, <2>7
    <3>2. passes[c.key] > Len(Delays)
      BY <2>0, <2>2, <2>7
    <3> QED
      BY <2>1, <2>2, <2>3, <2>7, <3>1, <3>2 DEF HandIsHonest, Cause
  <2>8. CASE pend[s] # {} /\ ~(c.attempts + 1 > Len(Delays))
    <3>1. goal'[s] = "retry"
      BY <2>4, <2>8
    <3>2. cur'[s].attempts <= Len(Delays) /\ cur'[s].attempts <= passes[c.key]
      BY <2>0, <2>2, <2>3, <2>8
    <3>3. EntryIsHonest(cur[s])'
      BY <2>1, <2>2, <2>3, <3>2 DEF EntryIsHonest, Resolved
    <3> QED
      BY <2>1, <3>1, <3>3 DEF HandIsHonest
  <2> QED
    BY <2>5, <2>6, <2>7, <2>8
<1>4. NeverLost'
  BY NeverLostKept, ProcsFacts DEF Conclude, ConcludeAs, Goto, Honest, TypeOK, ProcType, folders
<1> QED
  BY <1>1, <1>2, <1>3, <1>4, HonestKept, VerdictsKept, ProcsFacts DEF Conclude, ConcludeAs, folders

\* Reading the queue file again adds no entry but the one in hand.
LEMMA QueueReadHonest ==
    ASSUME TypeOK, TypeOK', Grows, Honest, NEW s \in Senders,
           UpdateRead(s) \/ CompleteRead(s)
    PROVE  Honest'
<1> PICK c \in Entry : c = cur[s]
  BY DEF UpdateRead, CompleteRead, TypeOK, PassType
<1>1. \A e \in Copies' : e \in Copies \/ EntryIsHonest(e)'
  <2>1. /\ queue' = queue /\ tmp' = tmp /\ todo' = todo
        /\ \A p \in Procs : buf'[p] \subseteq buf[p] \cup queue \cup
             (IF goal[s] = "retry" THEN {c} ELSE {})
    BY DEF UpdateRead, CompleteRead, Without, pass, TypeOK, ProcType
  <2>2. goal[s] = "retry" => EntryIsHonest(c)'
    <3>1. goal[s] = "retry" => EntryIsHonest(c)
      BY DEF UpdateRead, CompleteRead, Honest, HandIsHonest
    <3> QED
      BY <3>1, EntryKept
  <2>3. Copies' \subseteq Copies \cup (IF goal[s] = "retry" THEN {c} ELSE {})
    BY <2>1 DEF Copies
  <2> QED
    BY <2>2, <2>3
<1>2. /\ pc[s] = "read" /\ pc'[s] = "write"
      /\ UNCHANGED pass /\ UNCHANGED folders /\ UNCHANGED history
      /\ \A o \in Procs \ {s} : pc'[o] = pc[o]
  BY ProcsFacts DEF UpdateRead, CompleteRead, Goto, TypeOK, ProcType
<1>3. \A o \in Senders \ {s} : SameHand(o)
  BY <1>2, ProcsFacts DEF SameHand, pass
<1>4. HandIsHonest(s)'
  BY <1>2 DEF Honest, HandIsHonest, pass, history, EntryIsHonest, Resolved, Cause
<1>5. NeverLost'
  BY <1>2, NeverLostKept, ProcsFacts DEF Honest, folders
<1> QED
  BY <1>1, <1>2, <1>3, <1>4, <1>5, HonestKept, VerdictsKept, ProcsFacts DEF folders

\* Store.move copies, then deletes: the verdict is justified by the hand, and
\* the message is in the final folder before it leaves Outbox.
LEMMA MoveFetchHonest ==
    ASSUME TypeOK, TypeOK', Grows, Honest, NEW s \in Senders, MoveFetch(s)
    PROVE  Honest'
<1>1. CASE cur[s].key \notin outbox
  BY <1>1, LeavePassHonest DEF MoveFetch
<1>2. CASE cur[s].key \in outbox
  <2>1. /\ pc[s] = "fetch" /\ pc'[s] = "copy" /\ UNCHANGED pass
        /\ UNCHANGED <<clock, folders, queue, tmp, buf, history>>
        /\ \A o \in Procs \ {s} : pc'[o] = pc[o]
    BY <1>2, ProcsFacts DEF MoveFetch, Goto, TypeOK, ProcType
  <2>2. Copies' \subseteq Copies
    BY <2>1, NoNewCopies DEF pass
  <2>3. \A o \in Senders \ {s} : SameHand(o)
    BY <2>1, ProcsFacts DEF SameHand, pass
  <2>4. HandIsHonest(s)'
    BY <2>1 DEF Honest, HandIsHonest, pass, history, EntryIsHonest, Resolved, Cause
  <2>5. NeverLost'
    BY <2>1, NeverLostKept, ProcsFacts DEF Honest, folders
  <2> QED
    BY <2>1, <2>2, <2>3, <2>4, <2>5, HonestKept, VerdictsKept, ProcsFacts DEF folders
<1> QED
  BY <1>1, <1>2

\* The copy that a move makes is as honest as the entry it is for.
LEMMA MoveCopyHonest ==
    ASSUME TypeOK, TypeOK', Grows, Honest, NEW s \in Senders, MoveCopy(s)
    PROVE  Honest'
<1> PICK c \in Entry : c = cur[s]
  BY DEF MoveCopy, TypeOK, PassType
<1>1. /\ pc[s] = "copy" /\ pc'[s] = "drop" /\ UNCHANGED pass /\ UNCHANGED history
      /\ outbox' = outbox /\ notices' = notices /\ buf' = buf /\ tmp' = tmp
      /\ queue' = queue /\ \A o \in Procs \ {s} : pc'[o] = pc[o]
      /\ goal[s] = "failed" => failed' = failed \cup {c.key} /\ sent' = sent
      /\ goal[s] # "failed" => sent' = sent \cup {c.key} /\ failed' = failed
      /\ goal[s] \in {"sent", "failed"}
  BY ProcsFacts DEF MoveCopy, Goto, TypeOK, ProcType, PassType
<1>2. Copies' \subseteq Copies
  BY <1>1, NoNewCopies DEF pass
<1>3. \A o \in Senders \ {s} : SameHand(o)
  BY <1>1, ProcsFacts DEF SameHand, pass
<1>4. HandIsHonest(s)'
  BY <1>1 DEF Honest, HandIsHonest, pass, history, EntryIsHonest, Resolved, Cause
<1>5. NeverLost'
  BY <1>1, NeverLostKept, ProcsFacts DEF Honest
<1>6. /\ goal[s] = "sent" => \A r \in RcptsOf[c.key] : <<c.key, r>> \in Resolved
      /\ goal[s] = "failed" => Cause(c.key)
  BY <1>1 DEF Honest, HandIsHonest
<1>7. SentOnlyWhenResolved'
  BY <1>1, <1>6 DEF Honest, SentOnlyWhenResolved, Resolved, history
<1>8. GivenUpOnlyWithCause'
  BY <1>1, <1>6 DEF Honest, GivenUpOnlyWithCause, Cause, history
<1>9. NoticeIsAboutFailure'
  BY <1>1 DEF Honest, NoticeIsAboutFailure
<1> QED
  BY <1>2, <1>3, <1>4, <1>5, <1>7, <1>8, <1>9, HonestKept, ProcsFacts

\* A move that removes the original leaves all that remains honest.
LEMMA MoveDropHonest ==
    ASSUME TypeOK, TypeOK', Grows, Honest, NEW s \in Senders, MoveDrop(s)
    PROVE  Honest'
<1> PICK c \in Entry : c = cur[s]
  BY DEF MoveDrop, TypeOK, PassType
<1>1. /\ pc[s] = "drop" /\ outbox' = outbox \ {c.key}
      /\ UNCHANGED <<clock, sent, failed, notices, queue, tmp, buf, history>>
      /\ todo' = todo
      /\ c.key \in sent \cup failed
  BY DEF MoveDrop, NextEntry, pass, Honest, HandIsHonest
<1>2. Copies' \subseteq Copies
  BY <1>1, NoNewCopies
<1>3. \A o \in Senders \ {s} : SameHand(o)
  BY ProcsFacts DEF MoveDrop, NextEntry, Goto, SameHand, pass, TypeOK, ProcType, PassType
<1>4. HandIsHonest(s)'
  <2>1. CASE goal[s] = "failed"
    <3>1. pc'[s] = "bounce" /\ UNCHANGED pass
      BY <2>1, ProcsFacts DEF MoveDrop, Goto, TypeOK, ProcType
    <3> QED
      BY <1>1, <2>1, <3>1
      DEF Honest, HandIsHonest, pass, history, EntryIsHonest, Resolved, Cause
  <2>2. CASE goal[s] # "failed"
    BY <2>2, FreeHand, ProcsFacts DEF MoveDrop, NextEntry, Goto, TypeOK, ProcType, PassType
  <2> QED
    BY <2>1, <2>2
<1>5. NeverLost'
  <2>1. \A m \in Msgs : pc'[m] = pc[m]
    BY ProcsFacts DEF MoveDrop, NextEntry, Goto, TypeOK, ProcType
  <2> QED
    BY <1>1, <2>1 DEF Honest, NeverLost, history
<1> QED
  BY <1>1, <1>2, <1>3, <1>4, <1>5, HonestKept, VerdictsKept, ProcsFacts

\* A notice names what the pass has found.
LEMMA BounceHonest ==
    ASSUME TypeOK, TypeOK', Grows, Honest, NEW s \in Senders, Bounce(s)
    PROVE  Honest'
<1> PICK c \in Entry : c = cur[s]
  BY DEF Bounce, TypeOK, PassType
<1>1. /\ pc[s] = "bounce" /\ notices' = notices \cup {[key |-> c.key, names |-> errs[s]]}
      /\ UNCHANGED <<clock, outbox, sent, failed, queue, tmp, buf, history>>
      /\ todo' = todo
      /\ c.key \in failed /\ errs[s] # {} /\ errs[s] \subseteq RcptsOf[c.key]
  BY DEF Bounce, NextEntry, Honest, HandIsHonest
<1>2. Copies' \subseteq Copies
  BY <1>1, NoNewCopies
<1>3. \A o \in Senders \ {s} : SameHand(o)
  BY ProcsFacts DEF Bounce, NextEntry, Goto, SameHand, TypeOK, ProcType, PassType
<1>4. HandIsHonest(s)'
  BY FreeHand, ProcsFacts DEF Bounce, NextEntry, Goto, TypeOK, ProcType, PassType
<1>5. NeverLost'
  BY <1>1, NeverLostKept, ProcsFacts
  DEF Bounce, NextEntry, Goto, Honest, TypeOK, ProcType
<1>6. NoticeIsAboutFailure'
  BY <1>1 DEF Honest, NoticeIsAboutFailure
<1>7. SentOnlyWhenResolved' /\ GivenUpOnlyWithCause'
  BY <1>1 DEF Honest, SentOnlyWhenResolved, GivenUpOnlyWithCause, Resolved, history
<1> QED
  BY <1>2, <1>3, <1>4, <1>5, <1>6, <1>7, HonestKept, ProcsFacts

-----------------------------------------------------------------------------
(* The theorems. *)

\* Nothing has happened in an initial state.
LEMMA InitHonest == Init => Honest
<1> SUFFICES ASSUME Init PROVE Honest
  OBVIOUS
<1>1. Copies = {}
  BY DEF Init, Copies
<1>2. \A s \in Senders : HandIsHonest(s)
  BY ProcsFacts DEF Init, HandIsHonest
<1>3. NeverLost
  BY ProcsFacts DEF Init, NeverLost
<1> QED
  BY <1>1, <1>2, <1>3
  DEF Honest, Init, SentOnlyWhenResolved, GivenUpOnlyWithCause, NoticeIsAboutFailure

\* Every step keeps Honest.
LEMMA StepHonest == TypeOK /\ TypeOK' /\ Honest /\ [Next]_vars => Honest'
<1> SUFFICES ASSUME TypeOK, TypeOK', Honest, [Next]_vars PROVE Honest'
  OBVIOUS
<1>1. Grows
  BY StepGrows
<1>2. ASSUME NEW m \in Msgs, AddToOutbox(m) \/ EnqueueStep(m) PROVE Honest'
  BY <1>1, <1>2, AddToOutboxHonest, EnqueueReadHonest, WriteTmpHonest,
     ReplaceTmpHonest, TmpIsGoneHonest, ProcsFacts DEF EnqueueStep
<1>3. ASSUME NEW s \in Senders, StartPass(s) \/ PassStep(s) PROVE Honest'
  <2>1. CASE EntryWithoutMessage(s) \/ EndPass(s) \/ AttemptRaises(s)
    BY <1>1, <2>1, LeavePassHonest DEF EntryWithoutMessage, EndPass, AttemptRaises, Abort
  <2>2. CASE WriteTmp(s) \/ ReplaceTmp(s) \/ TmpIsGone(s)
    BY <1>1, <2>2, WriteTmpHonest, ReplaceTmpHonest, TmpIsGoneHonest, ProcsFacts
  <2>3. CASE \/ StartPass(s) \/ TakeEntry(s) \/ Attempt(s) \/ Conclude(s)
             \/ UpdateRead(s) \/ CompleteRead(s)
    BY <1>1, <2>3, StartPassHonest, TakeEntryHonest, AttemptHonest, ConcludeHonest,
       QueueReadHonest
  <2>4. CASE MoveFetch(s) \/ MoveCopy(s) \/ MoveDrop(s) \/ Bounce(s)
    BY <1>1, <2>4, MoveFetchHonest, MoveCopyHonest, MoveDropHonest, BounceHonest
  <2> QED
    BY <1>3, <2>1, <2>2, <2>3, <2>4 DEF PassStep
<1>4. ASSUME NEW p \in Procs, Crash(p) PROVE Honest'
  BY <1>1, <1>4, CrashHonest
<1>5. CASE (\E m \in Msgs : UserDelete(m)) \/ Tick \/ UNCHANGED vars
  BY <1>1, <1>5, OtherHonest
<1> QED
  BY <1>2, <1>3, <1>4, <1>5 DEF Next

\* Copies of entries, hands of processors, verdicts and notices are honest in
\* every reachable state of every environment.
THEOREM AlwaysHonest == Spec => []Honest
BY InitHonest, StepHonest, TypeCorrect, InitType, StepType, PTL DEF Spec

\* A message that reached the Outbox is not lost, whatever runs or dies when.
THEOREM MessagesAreNeverLost == Spec => []NeverLost
<1>1. Honest => NeverLost
  BY DEF Honest
<1> QED
  BY <1>1, AlwaysHonest, PTL

\* Sent holds only messages whose recipients are all settled.
THEOREM SentMeansResolved == Spec => []SentOnlyWhenResolved
<1>1. Honest => SentOnlyWhenResolved
  BY DEF Honest
<1> QED
  BY <1>1, AlwaysHonest, PTL

\* Failed holds only messages with a refusal or with all attempts used up.
THEOREM FailedHasCause == Spec => []GivenUpOnlyWithCause
<1>1. Honest => GivenUpOnlyWithCause
  BY DEF Honest
<1> QED
  BY <1>1, AlwaysHonest, PTL

\* A notice is about a message in Failed and names one of its recipients.
THEOREM NoticesAreAboutFailures == Spec => []NoticeIsAboutFailure
<1>1. Honest => NoticeIsAboutFailure
  BY DEF Honest
<1> QED
  BY <1>1, AlwaysHonest, PTL
=============================================================================
