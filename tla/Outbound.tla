------------------------------ MODULE Outbound ------------------------------
(***************************************************************************)
(* The outbound path of one account: the Maildir folders and the queue     *)
(* file of onionmail/store.py, written by the clients that enqueue mail    *)
(* (apid threads, the CLI, the GUI and TUI) and by the processors that     *)
(* deliver it (the `onionmail sender` daemon and the "flush" of the GUI    *)
(* and TUI, all of them running sender.process_queue_once).                *)
(*                                                                         *)
(* Nothing in the code locks the queue file: each operation on it reads    *)
(* the whole file, changes the list in memory, writes one fixed temporary  *)
(* file and renames it over the queue file.  Those are separate steps      *)
(* here, and any process may run, or die, between two of them.             *)
(*                                                                         *)
(* Abstractions: a message is its Outbox key; a folder is the set of       *)
(* messages of which it holds at least one copy; the queue is the set of   *)
(* its entries (a pass takes due entries in any order); write_text puts    *)
(* the whole content in place (a torn write is not modelled here).         *)
(*                                                                         *)
(* A definition marked "slip" is the wrong variant of the one after it; no *)
(* behaviour contains it.  It is there to show that the properties notice. *)
(***************************************************************************)
EXTENDS Naturals, Sequences

CONSTANTS
    Msgs,          \* the messages clients submit; also their enqueue calls
    Rcpts,         \* recipient addresses
    RcptsOf,       \* the envelope recipients of each message
    Unencodable,   \* recipients that make smtplib raise (non-ASCII local part)
    Daemons,       \* `onionmail sender` processes
    Flushers,      \* GUI/TUI flush workers: they start a pass when asked to
    Delays,        \* cfg.sender.retry_delays
    NoMsg, NoFile, \* "no entry in hand" and "no such file"
    Serialised,    \* environment: no two writers of the queue file overlap
    UserDeletes,   \* environment: the user may delete a message from Outbox
    LossyLink,     \* environment: the answer to a stored DATA may be lost
    MaxClock,      \* bound on the clock
    MaxCrashes     \* bound on the number of processes killed

Senders == Daemons \cup Flushers
Procs   == Msgs \cup Senders

ASSUME OutboundAssumption ==
    /\ RcptsOf \in [Msgs -> SUBSET Rcpts]
    /\ Delays \in Seq(Nat)
    /\ Msgs \cap Senders = {}
    /\ NoMsg \notin Msgs
    /\ {Serialised, UserDeletes, LossyLink} \subseteq BOOLEAN
    /\ MaxClock \in Nat
    /\ MaxCrashes \in Nat

VARIABLES
    clock,     \* time.time()
    outbox,    \* messages in the Outbox, Sent and Failed folders
    sent,
    failed,
    notices,   \* delivery-failure notices in INBOX: message and recipients named
    queue,     \* outbox-state.json
    tmp,       \* outbox-state.tmp
    pc,        \* where each client and each processor is
    buf,       \* the list `q` an operation on the queue file works on
    now,       \* process_queue_once: time at the start of the pass,
    todo,      \*   entries of its snapshot still to be looked at,
    cur,       \*   the entry in hand,
    left,      \*   its recipients not attempted yet,
    pend,      \*   still_pending,
    errs,      \*   the recipients `errors` talks about,
    goal,      \*   and what the queue operation under way is for
    accepted,  \* history: <<m, r>> stored by the server of r
    refused,   \* history: <<m, r>> refused for good
    passes,    \* history: times an entry of m was taken up, up to PassCap
    deleted,   \* history: messages the user deleted from Outbox
    crashes    \* history: processes killed so far

folders == <<outbox, sent, failed, notices>>
pass    == <<now, todo, cur, left, pend, errs, goal>>
history == <<accepted, refused, passes, deleted, crashes>>
vars    == <<clock, folders, queue, tmp, pc, buf, pass, history>>

PassCap == Len(Delays) + 2

Entry == [key : Msgs, rcpts : SUBSET Rcpts, attempts : Nat, next_ts : Nat]

NewEntry(m) == [key |-> m, rcpts |-> RcptsOf[m], attempts |-> 0, next_ts |-> 0]
NoEntry     == [key |-> NoMsg, rcpts |-> {}, attempts |-> 0, next_ts |-> 0]

Without(q, key) == {e \in q : e.key # key}

Due(e, t) == t >= e.next_ts

Goto(p, l) == pc' = [pc EXCEPT ![p] = l]

InWrite(p) == pc[p] \in {"write", "replace"}

\* Whether p may read the queue file for a change to it.  The code never
\* waits here; Serialised restricts the environment, not the program.
MayRead(p) == Serialised => \A o \in Procs \ {p} : ~InWrite(o)

Init ==
    /\ clock = 0
    /\ outbox = {} /\ sent = {} /\ failed = {} /\ notices = {}
    /\ queue = {} /\ tmp = NoFile
    /\ pc = [p \in Procs |-> IF p \in Msgs THEN "new" ELSE "idle"]
    /\ buf = [p \in Procs |-> {}]
    /\ now = [s \in Senders |-> 0]
    /\ todo = [s \in Senders |-> {}]
    /\ cur = [s \in Senders |-> NoEntry]
    /\ left = [s \in Senders |-> {}]
    /\ pend = [s \in Senders |-> {}]
    /\ errs = [s \in Senders |-> {}]
    /\ goal = [s \in Senders |-> "none"]
    /\ accepted = {} /\ refused = {} /\ deleted = {}
    /\ passes = [m \in Msgs |-> 0]
    /\ crashes = 0

-----------------------------------------------------------------------------
(* Store.enqueue, run by a client for message m. *)

\* key = self.add_to("Outbox", raw)
AddToOutbox(m) ==
    /\ pc[m] = "new"
    /\ outbox' = outbox \cup {m}
    /\ Goto(m, "read")
    /\ UNCHANGED <<clock, sent, failed, notices, queue, tmp, buf, pass, history>>

\* q = self._read_queue(); q.append(entry)
EnqueueRead(m) ==
    /\ pc[m] = "read" /\ MayRead(m)
    /\ buf' = [buf EXCEPT ![m] = queue \cup {NewEntry(m)}]
    /\ Goto(m, "write")
    /\ UNCHANGED <<clock, folders, queue, tmp, pass, history>>

-----------------------------------------------------------------------------
(* sender.process_queue_once, run by processor s. *)

\* The pass is over, returned or raised: its locals are gone.
ForgetPass(s) ==
    /\ now' = [now EXCEPT ![s] = 0]
    /\ todo' = [todo EXCEPT ![s] = {}]
    /\ cur' = [cur EXCEPT ![s] = NoEntry]
    /\ left' = [left EXCEPT ![s] = {}]
    /\ pend' = [pend EXCEPT ![s] = {}]
    /\ errs' = [errs EXCEPT ![s] = {}]
    /\ goal' = [goal EXCEPT ![s] = "none"]

\* Done with the entry in hand: on to the next one of the snapshot.
NextEntry(s) ==
    /\ Goto(s, "scan")
    /\ cur' = [cur EXCEPT ![s] = NoEntry]
    /\ pend' = [pend EXCEPT ![s] = {}]
    /\ errs' = [errs EXCEPT ![s] = {}]
    /\ goal' = [goal EXCEPT ![s] = "none"]
    /\ UNCHANGED <<now, todo, left>>

\* An exception leaves process_queue_once; sender.run logs it and goes on
\* with its loop, a flush worker reports it and ends.
Abort(s) == Goto(s, "idle") /\ ForgetPass(s)

\* now = time.time(); for entry in store.queue()
StartPass(s) ==
    /\ pc[s] = "idle"
    /\ now' = [now EXCEPT ![s] = clock]
    /\ todo' = [todo EXCEPT ![s] = queue]
    /\ Goto(s, "scan")
    /\ UNCHANGED <<clock, folders, queue, tmp, buf, cur, left, pend, errs,
                   goal, history>>

\* raw = store.get_bytes("Outbox", entry.key) finds the message
TakeEntry(s) ==
    /\ pc[s] = "scan"
    /\ \E e \in todo[s] :
         /\ Due(e, now[s])
         /\ e.key \in outbox
         /\ cur' = [cur EXCEPT ![s] = e]
         /\ todo' = [todo EXCEPT ![s] = @ \ {e}]
         /\ left' = [left EXCEPT ![s] = e.rcpts]
         /\ passes' = IF passes[e.key] < PassCap
                        THEN [passes EXCEPT ![e.key] = @ + 1]
                        ELSE passes
    /\ Goto(s, "attempt")
    /\ UNCHANGED <<clock, folders, queue, tmp, buf, now, pend, errs,
                   goal, accepted, refused, deleted, crashes>>

\* ... or raises KeyError, which ends the pass
EntryWithoutMessage(s) ==
    /\ pc[s] = "scan"
    /\ \E e \in todo[s] : Due(e, now[s]) /\ e.key \notin outbox
    /\ Abort(s)
    /\ UNCHANGED <<clock, folders, queue, tmp, buf, history>>

\* entries that are not due are skipped; the pass returns
EndPass(s) ==
    /\ pc[s] = "scan"
    /\ \A e \in todo[s] : ~Due(e, now[s])
    /\ Goto(s, "idle") /\ ForgetPass(s)
    /\ UNCHANGED <<clock, folders, queue, tmp, buf, history>>

\* deliver_one returns: the server of r answered 250 to DATA
Deliver(s, r) ==
    /\ r \notin Unencodable
    /\ accepted' = accepted \cup {<<cur[s].key, r>>}
    /\ UNCHANGED <<pend, errs, refused>>

\* DeliveryError(permanent=True): a 5xx answer
Refuse(s, r) ==
    /\ refused' = refused \cup {<<cur[s].key, r>>}
    /\ errs' = [errs EXCEPT ![s] = @ \cup {r}]
    /\ UNCHANGED <<pend, accepted>>

\* slip: the handler swallows a transient error
FailForNowForgotten(s, r) == UNCHANGED <<pend, errs, accepted, refused>>

\* DeliveryError(permanent=False): no circuit, a 4xx answer, a timeout.  The
\* server may have stored the message if only its answer was lost.
FailForNow(s, r) ==
    /\ pend' = [pend EXCEPT ![s] = @ \cup {r}]
    /\ errs' = [errs EXCEPT ![s] = @ \cup {r}]
    /\ \/ UNCHANGED accepted
       \/ /\ LossyLink /\ r \notin Unencodable
          /\ accepted' = accepted \cup {<<cur[s].key, r>>}
    /\ UNCHANGED refused

\* for rcpt in entry.rcpts: deliver_one(raw, entry.mail_from, rcpt, cfg)
Attempt(s) ==
    /\ pc[s] = "attempt"
    /\ \E r \in left[s] :
         /\ Deliver(s, r) \/ Refuse(s, r) \/ FailForNow(s, r)
         /\ left' = [left EXCEPT ![s] = @ \ {r}]
    /\ UNCHANGED <<clock, folders, queue, tmp, pc, buf, now, todo, cur, goal,
                   passes, deleted, crashes>>

\* smtplib raises UnicodeEncodeError, which deliver_one does not convert
AttemptRaises(s) ==
    /\ pc[s] = "attempt"
    /\ left[s] \cap Unencodable # {}
    /\ Abort(s)
    /\ UNCHANGED <<clock, folders, queue, tmp, buf, history>>

\* The code after the recipient loop, up to the call of the store: rest is left
\* to try, done says nothing is, tries counts the attempts, enough ends them.
ConcludeAs(s, rest, done, tries, enough) ==
    /\ pc[s] = "attempt" /\ left[s] = {}
    /\ cur' = [cur EXCEPT ![s] =
         [key      |-> @.key,
          rcpts    |-> rest,
          attempts |-> IF done THEN @.attempts ELSE tries,
          next_ts  |-> IF done \/ enough THEN @.next_ts ELSE now[s] + Delays[tries]]]
    /\ goal' = [goal EXCEPT ![s] = IF done
                                     THEN IF errs[s] = {} THEN "sent" ELSE "failed"
                                     ELSE IF enough THEN "failed" ELSE "retry"]
    /\ Goto(s, "read")
    /\ UNCHANGED <<clock, folders, queue, tmp, buf, now, todo, left, pend,
                   errs, history>>

\* slip: entry.rcpts is not reduced to still_pending
ConcludeKeepsRcpts(s) ==
    LET tries == cur[s].attempts + 1
    IN  ConcludeAs(s, cur[s].rcpts, pend[s] = {}, tries, tries > Len(Delays))
\* slip: `>=` for `>`: the last delay is never used
ConcludeOneTooSoon(s) ==
    LET tries == cur[s].attempts + 1
    IN  ConcludeAs(s, pend[s], pend[s] = {}, tries, tries >= Len(Delays))
Conclude(s) ==
    LET tries == cur[s].attempts + 1
    IN  ConcludeAs(s, pend[s], pend[s] = {}, tries, tries > Len(Delays))

\* slip: the list of the pass is written back instead of the file's
UpdateReadFromSnapshot(s) ==
    /\ pc[s] = "read" /\ MayRead(s)
    /\ goal[s] = "retry"
    /\ buf' = [buf EXCEPT ![s] = Without(todo[s], cur[s].key) \cup {cur[s]}]
    /\ Goto(s, "write")
    /\ UNCHANGED <<clock, folders, queue, tmp, pass, history>>
\* slip: the filtered list is written back without the entry
UpdateReadDrops(s) ==
    /\ pc[s] = "read" /\ MayRead(s)
    /\ goal[s] = "retry"
    /\ buf' = [buf EXCEPT ![s] = Without(queue, cur[s].key)]
    /\ Goto(s, "write")
    /\ UNCHANGED <<clock, folders, queue, tmp, pass, history>>

\* update_queue_entry: read the file again, replace the entry
UpdateRead(s) ==
    /\ pc[s] = "read" /\ MayRead(s)
    /\ goal[s] = "retry"
    /\ buf' = [buf EXCEPT ![s] = Without(queue, cur[s].key) \cup
                 IF cur[s].rcpts # {} THEN {cur[s]} ELSE {}]
    /\ Goto(s, "write")
    /\ UNCHANGED <<clock, folders, queue, tmp, pass, history>>

\* slip: the list is written back unfiltered
CompleteReadKeeps(s) ==
    /\ pc[s] = "read" /\ MayRead(s)
    /\ goal[s] \in {"sent", "failed"}
    /\ buf' = [buf EXCEPT ![s] = queue]
    /\ Goto(s, "write")
    /\ UNCHANGED <<clock, folders, queue, tmp, pass, history>>

\* complete_queue_entry: read the file again, drop the entry
CompleteRead(s) ==
    /\ pc[s] = "read" /\ MayRead(s)
    /\ goal[s] \in {"sent", "failed"}
    /\ buf' = [buf EXCEPT ![s] = Without(queue, cur[s].key)]
    /\ Goto(s, "write")
    /\ UNCHANGED <<clock, folders, queue, tmp, pass, history>>

\* slip: move takes the message out before it is anywhere else
MoveFetchTakes(s) ==
    /\ pc[s] = "fetch"
    /\ cur[s].key \in outbox
    /\ outbox' = outbox \ {cur[s].key}
    /\ Goto(s, "copy")
    /\ UNCHANGED <<clock, sent, failed, notices, queue, tmp, buf, pass, history>>

\* Store.move: raw = get_bytes(src, key) ...
MoveFetch(s) ==
    /\ pc[s] = "fetch"
    /\ IF cur[s].key \in outbox
         THEN Goto(s, "copy") /\ UNCHANGED pass
         ELSE Abort(s)
    /\ UNCHANGED <<clock, folders, queue, tmp, buf, history>>

\* slip: failed=True is not passed on
MoveCopyToSent(s) ==
    /\ pc[s] = "copy"
    /\ sent' = sent \cup {cur[s].key}
    /\ Goto(s, "drop")
    /\ UNCHANGED <<clock, outbox, failed, notices, queue, tmp, buf, pass, history>>
\* slip: the copy to Sent is unconditional
MoveCopyToBoth(s) ==
    /\ pc[s] = "copy"
    /\ failed' = IF goal[s] = "failed" THEN failed \cup {cur[s].key} ELSE failed
    /\ sent' = sent \cup {cur[s].key}
    /\ Goto(s, "drop")
    /\ UNCHANGED <<clock, outbox, notices, queue, tmp, buf, pass, history>>

\* ... add_to(dst, raw) ...
MoveCopy(s) ==
    /\ pc[s] = "copy"
    /\ IF goal[s] = "failed"
         THEN failed' = failed \cup {cur[s].key} /\ UNCHANGED sent
         ELSE sent' = sent \cup {cur[s].key} /\ UNCHANGED failed
    /\ Goto(s, "drop")
    /\ UNCHANGED <<clock, outbox, notices, queue, tmp, buf, pass, history>>

\* slip: only an exhausted entry is bounced
MoveDropSilent(s) ==
    /\ pc[s] = "drop"
    /\ outbox' = outbox \ {cur[s].key}
    /\ IF goal[s] = "failed" /\ pend[s] # {}
         THEN Goto(s, "bounce") /\ UNCHANGED pass
         ELSE NextEntry(s)
    /\ UNCHANGED <<clock, sent, failed, notices, queue, tmp, buf, history>>

\* ... delete(src, key), which does not mind if the key is gone
MoveDrop(s) ==
    /\ pc[s] = "drop"
    /\ outbox' = outbox \ {cur[s].key}
    /\ IF goal[s] = "failed"
         THEN Goto(s, "bounce") /\ UNCHANGED pass
         ELSE NextEntry(s)
    /\ UNCHANGED <<clock, sent, failed, notices, queue, tmp, buf, history>>

\* _bounce: a notice with last_error, the errors of this pass
Bounce(s) ==
    /\ pc[s] = "bounce"
    /\ notices' = notices \cup {[key |-> cur[s].key, names |-> errs[s]]}
    /\ NextEntry(s)
    /\ UNCHANGED <<clock, outbox, sent, failed, queue, tmp, buf, history>>

-----------------------------------------------------------------------------
(* Store._write_queue, for every operation on the queue file. *)

\* tmp.write_text(...)
WriteTmp(p) ==
    /\ pc[p] = "write"
    /\ tmp' = buf[p]
    /\ Goto(p, "replace")
    /\ UNCHANGED <<clock, folders, queue, buf, pass, history>>

\* slip: update falls through to the move
ReplaceTmpThenMove(p) ==
    /\ pc[p] = "replace" /\ tmp # NoFile
    /\ queue' = tmp
    /\ tmp' = NoFile
    /\ buf' = [buf EXCEPT ![p] = {}]
    /\ \/ p \in Msgs /\ Goto(p, "queued")
       \/ p \in Senders /\ Goto(p, "fetch")
    /\ UNCHANGED <<clock, folders, pass, history>>

\* tmp.replace(queue_path)
ReplaceTmp(p) ==
    /\ pc[p] = "replace" /\ tmp # NoFile
    /\ queue' = tmp
    /\ tmp' = NoFile
    /\ buf' = [buf EXCEPT ![p] = {}]
    /\ \/ p \in Msgs /\ Goto(p, "queued") /\ UNCHANGED pass
       \/ p \in Senders /\ goal[p] = "retry" /\ NextEntry(p)
       \/ p \in Senders /\ goal[p] # "retry" /\ Goto(p, "fetch") /\ UNCHANGED pass
    /\ UNCHANGED <<clock, folders, history>>

\* another writer's replace took the shared temporary file: FileNotFoundError
TmpIsGone(p) ==
    /\ pc[p] = "replace" /\ tmp = NoFile
    /\ buf' = [buf EXCEPT ![p] = {}]
    /\ \/ p \in Msgs /\ Goto(p, "error") /\ UNCHANGED pass
       \/ p \in Senders /\ Abort(p)
    /\ UNCHANGED <<clock, folders, queue, tmp, history>>

-----------------------------------------------------------------------------
(* What else happens around the queue. *)

\* Store.delete("Outbox", key), asked for by the user
UserDelete(m) ==
    /\ UserDeletes
    /\ m \in outbox
    /\ outbox' = outbox \ {m}
    /\ deleted' = deleted \cup {m}
    /\ UNCHANGED <<clock, sent, failed, notices, queue, tmp, pc, buf, pass,
                   accepted, refused, passes, crashes>>

\* A process is killed.  Files stay as they are; a sender is restarted by
\* systemd (Restart=on-failure), a client is not and never saw an answer.
Crash(p) ==
    /\ crashes < MaxCrashes
    /\ pc[p] \notin {"new", "queued", "error", "idle"}
    /\ crashes' = crashes + 1
    /\ buf' = [buf EXCEPT ![p] = {}]
    /\ \/ p \in Msgs /\ Goto(p, "error") /\ UNCHANGED pass
       \/ p \in Senders /\ Abort(p)
    /\ UNCHANGED <<clock, folders, queue, tmp, accepted, refused, passes, deleted>>

Tick ==
    /\ clock < MaxClock
    /\ clock' = clock + 1
    /\ UNCHANGED <<folders, queue, tmp, pc, buf, pass, history>>

-----------------------------------------------------------------------------
\* every step of an enqueue that has been started
EnqueueStep(m) ==
    EnqueueRead(m) \/ WriteTmp(m) \/ ReplaceTmp(m) \/ TmpIsGone(m)

\* every step of a pass that has been started
PassStep(s) ==
    \/ TakeEntry(s) \/ EntryWithoutMessage(s) \/ EndPass(s)
    \/ Attempt(s) \/ AttemptRaises(s) \/ Conclude(s)
    \/ UpdateRead(s) \/ CompleteRead(s)
    \/ WriteTmp(s) \/ ReplaceTmp(s) \/ TmpIsGone(s)
    \/ MoveFetch(s) \/ MoveCopy(s) \/ MoveDrop(s) \/ Bounce(s)

Next ==
    \/ \E m \in Msgs : AddToOutbox(m) \/ EnqueueStep(m)
    \/ \E s \in Senders : StartPass(s) \/ PassStep(s)
    \/ \E m \in Msgs : UserDelete(m)
    \/ \E p \in Procs : Crash(p)
    \/ Tick

Spec == Init /\ [][Next]_vars

\* Threads and processes run; the daemon loops for ever; each delivery
\* attempt ends because the socket has a timeout; time passes.
Fairness ==
    /\ \A m \in Msgs : WF_vars(EnqueueStep(m))
    /\ \A s \in Senders : WF_vars(PassStep(s))
    /\ \A s \in Daemons : WF_vars(StartPass(s))
    /\ WF_vars(Tick)

FairSpec == Spec /\ Fairness
-----------------------------------------------------------------------------
(* Properties. *)

Resolved == accepted \cup refused

Labels == {"new", "read", "write", "replace", "queued", "error",
           "idle", "scan", "attempt", "fetch", "copy", "drop", "bounce"}

StoreType ==
    /\ clock \in 0 .. MaxClock
    /\ outbox \subseteq Msgs /\ sent \subseteq Msgs /\ failed \subseteq Msgs
    /\ notices \subseteq [key : Msgs, names : SUBSET Rcpts]
    /\ queue \subseteq Entry
    /\ tmp \in (SUBSET Entry) \cup {NoFile}

ProcType ==
    /\ pc \in [Procs -> Labels]
    /\ \A m \in Msgs : pc[m] \in {"new", "read", "write", "replace", "queued", "error"}
    /\ buf \in [Procs -> SUBSET Entry]

PassType ==
    /\ now \in [Senders -> Nat]
    /\ todo \in [Senders -> SUBSET Entry]
    /\ cur \in [Senders -> Entry \cup {NoEntry}]
    /\ left \in [Senders -> SUBSET Rcpts]
    /\ pend \in [Senders -> SUBSET Rcpts]
    /\ errs \in [Senders -> SUBSET Rcpts]
    /\ goal \in [Senders -> {"none", "sent", "failed", "retry"}]
    /\ \A s \in Senders :
         /\ pc[s] \in Labels \ {"new", "queued", "error"}
         /\ pc[s] \notin {"idle", "scan"} => cur[s] \in Entry
         /\ pc[s] \in {"read", "write", "replace"} => goal[s] # "none"
         /\ pc[s] \in {"fetch", "copy", "drop", "bounce"} => goal[s] \in {"sent", "failed"}

HistoryType ==
    /\ accepted \subseteq Msgs \X Rcpts
    /\ refused \subseteq Msgs \X Rcpts
    /\ passes \in [Msgs -> 0 .. PassCap]
    /\ deleted \subseteq Msgs
    /\ crashes \in 0 .. MaxCrashes

\* The state has the shape the code gives it; a processor past the choice of an
\* entry has one in hand and, past the recipient loop, knows what to do with it.
TypeOK == StoreType /\ ProcType /\ PassType /\ HistoryType

(* Properties of every environment: any number of processors and clients,  *)
(* overlapping writers, crashes, deletions and lost answers.               *)

\* A message that reached the Outbox is in Outbox, Sent or Failed unless the
\* user deleted it: Store.move copies before it deletes.
NeverLost ==
    \A m \in Msgs : pc[m] # "new" => m \in outbox \cup sent \cup failed \cup deleted

\* Sent holds a message only when no recipient is left to try: each one was
\* delivered to or refused for good, in whichever pass of whichever processor.
SentOnlyWhenResolved ==
    \A m \in sent : \A r \in RcptsOf[m] : <<m, r>> \in Resolved

\* A message is given up only after a permanent refusal of one of its
\* recipients or after one attempt more than there are retry delays.
GivenUpOnlyWithCause ==
    \A m \in failed :
        \/ \E r \in Rcpts : <<m, r>> \in refused
        \/ passes[m] > Len(Delays)

\* A failure notice in INBOX is about a message that is in Failed, and names
\* one of its recipients.
NoticeIsAboutFailure ==
    \A n \in notices : n.key \in failed /\ n.names \cap RcptsOf[n.key] # {}

\* Why the last three hold.  Every copy of an entry, in a file or in the memory
\* of a process, current or stale, leaves out only recipients that are settled
\* and counts no more attempts than were made ...
EntryIsHonest(e) ==
    /\ e.rcpts \subseteq RcptsOf[e.key]
    /\ \A r \in RcptsOf[e.key] : r \in e.rcpts \/ <<e.key, r>> \in Resolved
    /\ e.attempts <= Len(Delays) /\ e.attempts <= passes[e.key]

Copies ==
    queue \cup (IF tmp = NoFile THEN {} ELSE tmp)
          \cup (UNION {buf[p] : p \in Procs}) \cup (UNION {todo[s] : s \in Senders})

Cause(m) == (\E r \in Rcpts : <<m, r>> \in refused) \/ passes[m] > Len(Delays)

\* ... a processor in its recipient loop accounts for every recipient, and one
\* past it has a reason for the verdict it carries.
HandIsHonest(s) ==
    LET m == cur[s].key IN
    /\ pc[s] \in {"idle", "scan"} => pend[s] = {} /\ errs[s] = {}
    /\ pc[s] = "attempt" =>
         /\ left[s] \cup errs[s] \subseteq RcptsOf[m] /\ pend[s] \subseteq errs[s]
         /\ \A r \in RcptsOf[m] : r \in left[s] \cup pend[s] \/ <<m, r>> \in Resolved
         /\ cur[s].attempts <= Len(Delays) /\ cur[s].attempts < passes[m]
         /\ errs[s] \subseteq pend[s] \/ \E r \in Rcpts : <<m, r>> \in refused
    /\ pc[s] \in {"read", "write", "replace", "fetch", "copy", "drop", "bounce"} =>
         /\ goal[s] = "sent" => \A r \in RcptsOf[m] : <<m, r>> \in Resolved
         /\ goal[s] = "failed" =>
              Cause(m) /\ errs[s] # {} /\ errs[s] \subseteq RcptsOf[m]
         /\ goal[s] = "retry" => EntryIsHonest(cur[s])
    /\ pc[s] = "drop" => m \in (IF goal[s] = "failed" THEN failed ELSE sent)
    /\ pc[s] = "bounce" => m \in failed /\ goal[s] = "failed"

Honest ==
    /\ \A e \in Copies : EntryIsHonest(e)
    /\ \A s \in Senders : HandIsHonest(s)
    /\ SentOnlyWhenResolved /\ GivenUpOnlyWithCause /\ NoticeIsAboutFailure
    /\ NeverLost

(* Properties of one processor, writers that do not overlap and no user    *)
(* deletions; crashes are allowed.                                         *)

\* No entry outlives its message: a pass never meets an entry it cannot read
\* the message of, because enqueue adds the message first and
\* complete_queue_entry removes the entry first.
NoEntryWithoutMessage == \A e \in queue : e.key \in outbox

(* Without crashes as well. *)

\* A message accepted for sending is in the queue file for as long as it is
\* in Outbox, except while a processor is moving it out.
NoOrphan ==
    \A m \in outbox : pc[m] = "queued" =>
        \/ \E e \in queue : e.key = m
        \/ \E s \in Senders : cur[s].key = m /\ pc[s] \in {"fetch", "copy", "drop"}

\* Nobody tries a recipient again whose server has answered, yes or no.
NoSecondDelivery ==
    \A s \in Senders : \A r \in left[s] : <<cur[s].key, r>> \notin Resolved

\* A message ends in one folder, and a processor about to add it to Sent or
\* Failed is the first one to do so.
OneVerdict ==
    /\ sent \cap failed = {}
    /\ \A s \in Senders : pc[s] = "copy" => cur[s].key \notin sent \cup failed

\* A message in Failed has a notice in INBOX or is about to get one.
FailureIsReported ==
    \A m \in failed :
        \/ \E n \in notices : n.key = m
        \/ \E s \in Senders : cur[s].key = m /\ pc[s] \in {"drop", "bounce"}

\* sender.py:99, "Attempt every due queue entry once": a pass ends, other than
\* by being killed, only when no due entry of its snapshot is left.
EveryDueEntryAttempted ==
    [][\A s \in Senders :
         pc[s] # "idle" /\ pc'[s] = "idle" /\ crashes' = crashes
           => \A e \in todo[s] : ~Due(e, now[s])]_vars

\* Every message accepted for sending ends in Sent or in Failed.
EventuallySettled == \A m \in Msgs : pc[m] = "queued" ~> m \in sent \cup failed

\* The outbound path implements DeliveryPromise, its fairness included: a
\* message becomes pending when its entry is in the queue file, and its verdict
\* is the folder process_queue_once adds it to.
Promise == INSTANCE DeliveryPromise WITH
    verdict  <- [m \in Msgs |-> CASE m \in sent                        -> "sent"
                                  [] m \in failed \ sent               -> "failed"
                                  [] m \notin sent \cup failed /\ pc[m] = "queued"
                                                                       -> "pending"
                                  [] OTHER                             -> "unsent"],
    reported <- {n.key : n \in notices}

KeepsPromise == Promise!FairSpec

\* With crashes: whatever is in the queue file is not in it for ever.
QueueDrains == \A m \in Msgs :
    (\E e \in queue : e.key = m) ~> ~(\E e \in queue : e.key = m)

(* What docs and comments say and the code does not do. *)

\* __main__.py:174, "queued ...; will be sent if 'onionmail sender' is
\* running": the sender eventually takes up every message accepted.
WillBeSent == \A m \in Msgs : pc[m] = "queued" ~> passes[m] > 0

\* sender.py:148, "The message below could not be delivered to the
\* recipient(s)": a notice names every recipient that refused the message.
NoticeNamesEveryRefusal ==
    \A n \in notices : \A r \in Rcpts : <<n.key, r>> \in refused => r \in n.names
=============================================================================
