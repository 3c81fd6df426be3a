------------------------------ MODULE Mailbox ------------------------------
(***************************************************************************)
(* Incoming mail, from the SMTP conversation to the eyes of the user.      *)
(*                                                                         *)
(* onionmail/smtpd.py takes a message for several accounts and stores it   *)
(* in one Maildir after another; onionmail/store.py lists, reads, marks    *)
(* and deletes the files of a Maildir; the main window and the message     *)
(* windows of onionmail/gui.py, and onionmail/tui.py, work on the same     *)
(* mailbox at once, each from a list it read some time ago.                *)
(*                                                                         *)
(* Abstractions: a message is a model value and a file is its key, folder  *)
(* and seen flag.  Maildir.lock does nothing in Python's mailbox module,   *)
(* so an operation of the store is as many steps as it makes changes that  *)
(* others can see: replacing a message in mark_seen adds a copy under a    *)
(* new key, removes the old file and renames the copy.  A list reads the   *)
(* keys and then the messages.  Every call of a window may fail for want   *)
(* of an answer, before it is carried out or after, not in its middle.     *)
(* There is one deletion worker: the next deletion starts when a cancelled *)
(* one has ended the delete it is in, for which the code does not wait.    *)
(***************************************************************************)
EXTENDS Naturals, Sequences, Functions

CONSTANTS
    Accounts,    \* the accounts of the server
    Me,          \* the one whose mailbox is on the screen
    Messages,    \* messages other servers have for us
    Envelopes,   \* the sequences of recipients they name and smtpd takes
    Old,         \* a message in the INBOX from the start
    Windows,     \* message windows, each with the worker that loads and marks
    None,        \* no call, no transaction, no window, no deletion
    MaxRcpt,     \* smtpd.max_rcpt
    MaxEvents,   \* bound on what comes from outside: transactions, what users do
    MaxFaults    \* bound on calls that get no answer, and kills

Threads == {"ui", "auto", "del", "tui"} \cup Windows
Folders == {"INBOX", "Sent"}
File    == [key : Nat, folder : Folders, seen : BOOLEAN]
Call    == [op : {"list", "get", "mark", "delete"}, folder : Folders, key : Nat,
            at : {"asked", "keys", "added", "dropped", "ok", "failed"},
            got : SUBSET File]

Transaction == [msg : Messages, rcpts : Seq(Accounts), i : Nat]
Deletion    == [folder : Folders, left : SUBSET Nat, where : {"main", "window"},
                at : {"run", "done", "failed"}, n : Nat, open : BOOLEAN, cancelled : BOOLEAN,
                atCancel : Nat]
Window      == [folder : Folders, key : Nat]

ASSUME MailboxAssumption ==
    /\ Me \in Accounts /\ Old \notin Messages /\ Envelopes \subseteq Seq(Accounts)
    /\ {"ui", "auto", "del", "tui"} \cap Windows = {}
    /\ None \notin Call /\ None \notin Transaction /\ None \notin Deletion
    /\ None \notin Window /\ None \notin Folders
    /\ MaxRcpt \in Nat /\ MaxEvents \in Nat /\ MaxFaults \in Nat

VARIABLES
    accounts,  \* the accounts there are
    box,       \* the files of each account's Maildir
    of,        \* the message of each key Maildir has made up, one after another
    mail,      \* the SMTP transaction: its message, recipients and progress
    call,      \* the store operation each thread waits for
    folder,    \* MessagerWindow.folder
    rows,      \* _rows, what the main window's table shows
    shown,     \* the folder the table and the title are of
    known,     \* _inbox_keys
    seeded,    \* _inbox_seeded
    busy,      \* _auto_busy
    alarm,     \* what _auto_refresh announces when its reload is over
    window,    \* the message each message window is of
    deletion,  \* the deletion under way and its dialog
    tui,       \* the folder the terminal program is in, if it runs
    owed,      \* history: who has which message by an answer 250
    chosen,    \* history: messages users have asked to delete
    listed,    \* history: keys that have been in the table
    opened,    \* history: messages of the INBOX that have been opened
    events,    \* how many of MaxEvents there have been
    faults     \* how many of MaxFaults

smtpd  == <<accounts, mail, owed>>
main   == <<folder, rows, shown, known, seeded, busy, alarm, listed>>
users  == <<window, deletion, tui, chosen, opened>>
bounds == <<events, faults>>
vars   == <<smtpd, box, of, call, main, users, bounds>>

Keys(F)      == {f.key : f \in F}
In(F, d)     == {f \in F : f.folder = d}
Of(K)        == {of[k] : k \in K}
Fresh        == Len(of) + 1
Keyed(F, k)  == {f \in F : f.key = k}

Init ==
    /\ accounts = Accounts
    /\ box = [a \in Accounts |->
                IF a = Me THEN {[key |-> 1, folder |-> "INBOX", seen |-> TRUE]}
                          ELSE {}]
    /\ of = <<Old>>
    /\ mail = None
    /\ call = [t \in Threads |-> None]
    /\ folder = "INBOX" /\ rows = {} /\ shown = "INBOX"
    /\ known = {} /\ seeded = FALSE /\ busy = FALSE /\ alarm = {}
    /\ window = [w \in Windows |-> None]
    /\ deletion = None
    /\ tui = None
    /\ owed = {} /\ chosen = {} /\ listed = {} /\ opened = {}
    /\ events = 0 /\ faults = 0

Happens == events < MaxEvents /\ events' = events + 1 /\ UNCHANGED faults
Fails   == faults < MaxFaults /\ faults' = faults + 1 /\ UNCHANGED events

-----------------------------------------------------------------------------
(* smtpd *)

\* handle_MAIL takes the sender, handle_RCPT one recipient after another while it is
\* an account (550 otherwise) and there are fewer than max_rcpt (452), and
\* handle_DATA begins with a message that is not too large; what they refuse
\* changes nothing.  A server that had no answer 250 comes again.
Mail(m) ==
    /\ mail = None
    /\ Happens
    /\ \E r \in Envelopes :
         /\ r # <<>> /\ Len(r) <= MaxRcpt /\ Range(r) \subseteq accounts
         /\ mail' = [msg |-> m, rcpts |-> r, i |-> 1]
    /\ UNCHANGED <<accounts, owed, box, of, call, main, users>>

\* The transaction ends without a message accepted: 451 when store_for
\* or the Maildir raises, or the peer goes.
Abort ==
    /\ mail # None
    /\ mail' = None
    /\ UNCHANGED <<accounts, owed, box, of, call, main, users, bounds>>

\* the recipient whose turn it is gets a file in the folder new
AddIncoming(a) ==
    /\ box' = [box EXCEPT ![a] = @ \cup {[key |-> Fresh, folder |-> "INBOX", seen |-> FALSE]}]
    /\ of' = Append(of, mail.msg)

\* slip: one turn too many
AdvanceTooFar(j) ==
    IF j > Len(mail.rcpts) + 1
      THEN /\ mail' = None
           /\ owed' = owed \cup {<<mail.msg, a>> : a \in Range(mail.rcpts) \cap accounts}
      ELSE mail' = [mail EXCEPT !.i = j] /\ UNCHANGED owed

\* "250 2.0.0 message accepted for delivery", after the last recipient
Advance(j) ==
    IF j > Len(mail.rcpts)
      THEN /\ mail' = None
           /\ owed' = owed \cup {<<mail.msg, a>> : a \in Range(mail.rcpts) \cap accounts}
      ELSE mail' = [mail EXCEPT !.i = j] /\ UNCHANGED owed

\* slip: an account that is gone ends the loop
StoreUntilGone ==
    /\ mail # None
    /\ LET a == mail.rcpts[mail.i]
       IN  IF a \in accounts
             THEN AddIncoming(a) /\ Advance(mail.i + 1)
             ELSE UNCHANGED <<box, of>> /\ Advance(Len(mail.rcpts) + 1)
    /\ UNCHANGED <<accounts, call, main, users, bounds>>

\* handle_DATA, the loop: an account that is gone since RCPT is passed over
StoreOne ==
    /\ mail # None
    /\ LET a == mail.rcpts[mail.i]
       IN  IF a \in accounts THEN AddIncoming(a) ELSE UNCHANGED <<box, of>>
    /\ Advance(mail.i + 1)
    /\ UNCHANGED <<accounts, call, main, users, bounds>>

\* Accounts.delete: the files stay where they are.
RemoveAccount(a) ==
    /\ a \in accounts \ {Me}
    /\ Happens
    /\ accounts' = accounts \ {a}
    /\ UNCHANGED <<mail, owed, box, of, call, main, users>>

-----------------------------------------------------------------------------
(* store, behind apid or in the program itself *)

Ask(t, op, d, k) ==
    call' = [call EXCEPT ![t] = [op |-> op, folder |-> d, key |-> k, at |-> "asked", got |-> {}]]

Idle(t)      == call[t] = None
At(t, op, a) == call[t] # None /\ call[t].op = op /\ call[t].at = a
Ended(t, op) == At(t, op, "ok") \/ At(t, op, "failed")
Mine(t)      == In(box[Me], call[t].folder)
Target(t)    == Keyed(Mine(t), call[t].key)

\* the answer a; how a window's mark ended nobody looks at
Turn(t, a) ==
    call' = [call EXCEPT ![t] =
               IF t \in Windows /\ @.op = "mark" /\ a \in {"ok", "failed"} THEN None
               ELSE [@ EXCEPT !.at = a]]

\* the answer a with what was found
Result(t, a, F) == call' = [call EXCEPT ![t].at = a, ![t].got = F]

StoreOnly == UNCHANGED <<smtpd, main, users, bounds>>

\* list: the keys there are
ListKeys(t) ==
    /\ At(t, "list", "asked")
    /\ Result(t, "keys", Mine(t))
    /\ StoreOnly /\ UNCHANGED <<box, of>>

\* list: a message that is gone by now raises KeyError
ListRead(t) ==
    /\ At(t, "list", "keys")
    /\ LET now == {f \in Mine(t) : f.key \in Keys(call[t].got)}
       IN  IF Keys(now) = Keys(call[t].got) THEN Result(t, "ok", now)
                                            ELSE Result(t, "failed", {})
    /\ StoreOnly /\ UNCHANGED <<box, of>>

\* get, get_bytes
Get(t) ==
    /\ At(t, "get", "asked")
    /\ Turn(t, IF Target(t) # {} THEN "ok" ELSE "failed")
    /\ StoreOnly /\ UNCHANGED <<box, of>>

\* delete: discarding what is not there is no error
Delete(t) ==
    /\ At(t, "delete", "asked")
    /\ box' = [box EXCEPT ![Me] = @ \ Target(t)]
    /\ Turn(t, "ok")
    /\ StoreOnly /\ UNCHANGED of

\* mark_seen: the message with the flag, under a key of its own
MarkAdd(t) ==
    /\ At(t, "mark", "asked")
    /\ IF Target(t) = {}
         THEN Turn(t, "failed") /\ UNCHANGED <<box, of>>
         ELSE \E f \in Target(t) :
                LET copy == [f EXCEPT !.key = Fresh, !.seen = TRUE]
                IN  /\ box' = [box EXCEPT ![Me] = @ \cup {copy}]
                    /\ of' = Append(of, of[f.key])
                    /\ Result(t, "added", {copy})
    /\ StoreOnly

\* mark_seen: the old file goes
MarkDrop(t) ==
    /\ At(t, "mark", "added")
    /\ box' = [box EXCEPT ![Me] = @ \ Target(t)]
    /\ Turn(t, "dropped")
    /\ StoreOnly /\ UNCHANGED of

\* mark_seen: the copy gets the key, in place of a file that has it
MarkRename(t) ==
    /\ At(t, "mark", "dropped")
    /\ IF call[t].got \subseteq box[Me]
         THEN /\ box' = [box EXCEPT ![Me] =
                   (@ \ (call[t].got \cup Target(t)))
                     \cup {[f EXCEPT !.key = call[t].key] : f \in call[t].got}]
              /\ Turn(t, "ok")
         ELSE Turn(t, "failed") /\ UNCHANGED box
    /\ StoreOnly /\ UNCHANGED of

StoreStep(t) ==
    \/ ListKeys(t) \/ ListRead(t) \/ Get(t) \/ Delete(t)
    \/ MarkAdd(t) \/ MarkDrop(t) \/ MarkRename(t)

\* _rpc: a call that never reached apid, or whose answer never came.  A client
\* that gives up while apid is in the middle of the operation is not modelled.
Lose(t) ==
    /\ t # "tui" /\ call[t] # None /\ call[t].at \in {"asked", "ok"}
    /\ Fails
    /\ Turn(t, "failed")
    /\ UNCHANGED <<smtpd, box, of, main, users>>

\* apid is killed in the middle of what it does; so is smtpd.
Kill ==
    /\ Fails
    /\ call' = [t \in Threads |->
                  IF t = "tui" \/ call[t] = None THEN call[t]
                  ELSE IF call[t].at \in {"ok", "failed"} THEN call[t]
                  ELSE [call[t] EXCEPT !.at = "failed"]]
    /\ mail' = None
    /\ UNCHANGED <<accounts, owed, box, of, main, users>>

-----------------------------------------------------------------------------
(* gui: the main window.  Its thread waits in reload for the list. *)

DialogOpen == deletion # None /\ deletion.open
Free       == Idle("ui") /\ ~DialogOpen

\* reload, and a folder to read; A is what to announce when it is over
Reload(d, A) ==
    /\ Ask("ui", "list", d, 1)
    /\ alarm' = A

\* The user asks for it, or a compose window has sent.
Refresh ==
    /\ Free /\ Happens
    /\ Reload(folder, {})
    /\ UNCHANGED <<smtpd, box, of, folder, rows, shown, known, seeded, busy, listed, users>>

\* _goto: the folder is another one whether or not it can be read
Goto ==
    /\ Free /\ Happens
    /\ \E d \in Folders \ {folder} : folder' = d /\ Reload(d, {})
    /\ UNCHANGED <<smtpd, box, of, rows, shown, known, seeded, busy, listed, users>>

\* slip: whatever was listed is taken for the INBOX
ReloadedAnyFolder ==
    /\ Ended("ui", "list")
    /\ IF call["ui"].at = "ok"
         THEN /\ rows' = call["ui"].got /\ shown' = folder
              /\ known' = Keys(rows') /\ seeded' = TRUE
              /\ listed' = listed \cup Keys(rows')
         ELSE UNCHANGED <<rows, shown, known, seeded, listed>>
    /\ alarm' = {}
    /\ call' = [call EXCEPT !["ui"] = None]
    /\ UNCHANGED <<smtpd, box, of, folder, busy, users, bounds>>

\* reload, the list there: a failure is a message in the status bar
Reloaded ==
    /\ Ended("ui", "list")
    /\ IF call["ui"].at = "ok"
         THEN /\ rows' = call["ui"].got /\ shown' = folder
              /\ IF folder = "INBOX"
                   THEN /\ known' = Keys(rows') /\ seeded' = TRUE
                        /\ listed' = listed \cup Keys(rows')
                   ELSE UNCHANGED <<known, seeded, listed>>
         ELSE UNCHANGED <<rows, shown, known, seeded, listed>>
    /\ alarm' = {}
    /\ call' = [call EXCEPT !["ui"] = None]
    /\ UNCHANGED <<smtpd, box, of, folder, busy, users, bounds>>

\* the timer, every 20 seconds
AutoRefresh ==
    /\ Idle("ui") /\ folder = "INBOX" /\ ~busy
    /\ busy' = TRUE
    /\ Ask("auto", "list", "INBOX", 1)
    /\ UNCHANGED <<smtpd, box, of, folder, rows, shown, known, seeded, alarm, listed,
                   users, bounds>>

\* _auto_refresh.done: compares with _inbox_keys as it is by now
AutoDone ==
    /\ Idle("ui") /\ At("auto", "list", "ok")
    /\ busy' = FALSE
    /\ LET keys == Keys(call["auto"].got)
           new  == IF seeded THEN keys \ known ELSE {}
           rest == [call EXCEPT !["auto"] = None]
       IN  IF folder = "INBOX" /\ keys # known
             THEN /\ call' = [rest EXCEPT !["ui"] = [op |-> "list", folder |-> folder, key |-> 1,
                                                     at |-> "asked", got |-> {}]]
                  /\ alarm' = new
             ELSE call' = rest /\ UNCHANGED alarm
    /\ UNCHANGED <<smtpd, box, of, folder, rows, shown, known, seeded, listed, users, bounds>>

\* slip: only an answer lets the timer work again
AutoFailedStillBusy ==
    /\ Idle("ui") /\ At("auto", "list", "failed")
    /\ call' = [call EXCEPT !["auto"] = None]
    /\ UNCHANGED <<smtpd, box, of, main, users, bounds>>

AutoFailed ==
    /\ Idle("ui") /\ At("auto", "list", "failed")
    /\ busy' = FALSE
    /\ call' = [call EXCEPT !["auto"] = None]
    /\ UNCHANGED <<smtpd, box, of, folder, rows, shown, known, seeded, alarm, listed,
                   users, bounds>>

-----------------------------------------------------------------------------
(* gui: the message windows *)

\* _open_selected, or another _load of the same message by _toggle_raw
Open(w) ==
    /\ Free /\ Idle(w) /\ Happens
    /\ \E f \in rows :
         /\ window' = [window EXCEPT ![w] = [folder |-> folder, key |-> f.key]]
         /\ Ask(w, "get", folder, f.key)
    /\ UNCHANGED <<smtpd, box, of, main, deletion, tui, chosen, opened>>

\* _load.done, _mark_seen_async: the row loses its mark before the store does it
Opened(w) ==
    /\ Idle("ui") /\ At(w, "get", "ok")
    /\ IF call[w].folder = "INBOX"
         THEN /\ Ask(w, "mark", "INBOX", call[w].key)
              /\ rows' = {IF f.key = call[w].key THEN [f EXCEPT !.seen = TRUE] ELSE f : f \in rows}
              /\ opened' = opened \cup {of[call[w].key]}
         ELSE call' = [call EXCEPT ![w] = None] /\ UNCHANGED <<rows, opened>>
    /\ UNCHANGED <<smtpd, box, of, folder, shown, known, seeded, busy, alarm, listed,
                   window, deletion, tui, chosen, bounds>>

\* a message that cannot be fetched: the window says so
WindowOver(w) ==
    /\ At(w, "get", "failed")
    /\ call' = [call EXCEPT ![w] = None]
    /\ UNCHANGED <<smtpd, box, of, main, users, bounds>>

-----------------------------------------------------------------------------
(* gui: deleting, with run_busy *)

\* The worker of the main window's dialog, or of a message window's.  In the code
\* a second one may start beside a cancelled one that is still in a delete.
StartDelete(d, K, where) ==
    /\ Free /\ deletion = None /\ Idle("del") /\ Happens
    /\ deletion' = [folder |-> d, left |-> K, where |-> where, at |-> "run", n |-> 0,
                    open |-> TRUE, cancelled |-> FALSE, atCancel |-> 0]
    /\ chosen' = chosen \cup Of(K)
    /\ UNCHANGED <<smtpd, box, of, call, main, window, tui, opened>>

\* act_delete, of the selected rows
DeleteSelected ==
    \E K \in (SUBSET Keys(rows)) \ {{}} : StartDelete(folder, K, "main")

\* MessageWindow._delete
DeleteInWindow(w) ==
    /\ window[w] # None
    /\ StartDelete(window[w].folder, {window[w].key}, "window")

\* slip: is_cancelled is not asked between two messages
DeleteNextAnyway ==
    /\ deletion # None /\ deletion.at = "run" /\ Idle("del")
    /\ IF deletion.left = {}
         THEN deletion' = [deletion EXCEPT !.at = "done"] /\ UNCHANGED call
         ELSE /\ \E k \in deletion.left : Ask("del", "delete", deletion.folder, k)
              /\ UNCHANGED deletion
    /\ UNCHANGED <<smtpd, box, of, main, window, tui, chosen, opened, bounds>>

\* work: act_delete's asks is_cancelled before each message, _delete's never
DeleteNext ==
    /\ deletion # None /\ deletion.at = "run" /\ Idle("del")
    /\ IF deletion.left = {} \/ (deletion.cancelled /\ deletion.where = "main")
         THEN deletion' = [deletion EXCEPT !.at = "done"] /\ UNCHANGED call
         ELSE /\ \E k \in deletion.left : Ask("del", "delete", deletion.folder, k)
              /\ UNCHANGED deletion
    /\ UNCHANGED <<smtpd, box, of, main, window, tui, chosen, opened, bounds>>

\* backend.delete returned, or raised and ends the work
Deleted ==
    /\ deletion # None /\ Ended("del", "delete")
    /\ deletion' = IF call["del"].at = "ok"
                     THEN [deletion EXCEPT !.left = @ \ {call["del"].key}, !.n = @ + 1]
                     ELSE [deletion EXCEPT !.at = "failed"]
    /\ call' = [call EXCEPT !["del"] = None]
    /\ UNCHANGED <<smtpd, box, of, main, window, tui, chosen, opened, bounds>>

\* BusyDialog's Cancel, while it is there
Cancel ==
    /\ Idle("ui") /\ DialogOpen /\ deletion.at = "run"
    /\ ~deletion.cancelled
    /\ deletion' = [deletion EXCEPT !.cancelled = TRUE, !.atCancel = deletion.n]
    /\ UNCHANGED <<smtpd, box, of, call, main, window, tui, chosen, opened, bounds>>

\* The dialog is over: OK after the end, or cancelled and three seconds waited.
\* The main window reloads if something went, a message window if all went well.
DialogOver ==
    /\ Idle("ui") /\ DialogOpen
    /\ deletion.at # "run" \/ deletion.cancelled
    /\ deletion' = [deletion EXCEPT !.open = FALSE]
    /\ IF IF deletion.where = "main" THEN deletion.n > 0
                                    ELSE deletion.at = "done" /\ ~deletion.cancelled
         THEN Reload(folder, {})
         ELSE UNCHANGED <<call, alarm>>
    /\ UNCHANGED <<smtpd, box, of, folder, rows, shown, known, seeded, busy, listed,
                   window, tui, chosen, opened, bounds>>

\* _LIVE_WORKERS lets go of a worker that has ended.
DeleteOver ==
    /\ deletion # None /\ ~deletion.open /\ deletion.at # "run"
    /\ deletion' = None
    /\ UNCHANGED <<smtpd, box, of, call, main, window, tui, chosen, opened, bounds>>

-----------------------------------------------------------------------------
(* tui: one thread, and an exception ends the program.  The rows it read are
   not kept: it works on any key that is or was there. *)

TuiOnly == UNCHANGED <<smtpd, box, of, main, window, deletion>>

\* _reload, at the start, on request, in another folder and after a flush
TuiReload ==
    /\ Idle("tui") /\ Happens
    /\ \E d \in Folders : tui' = d /\ Ask("tui", "list", d, 1)
    /\ TuiOnly /\ UNCHANGED <<chosen, opened>>

\* _show of a row, or of the same again by toggle_raw
TuiShow ==
    /\ Idle("tui") /\ tui # None /\ Happens
    /\ \E k \in DOMAIN of : Ask("tui", "get", tui, k)
    /\ TuiOnly /\ UNCHANGED <<tui, chosen, opened>>

\* action_delete
TuiDelete ==
    /\ Idle("tui") /\ tui # None /\ Happens
    /\ \E k \in DOMAIN of :
         /\ Ask("tui", "delete", tui, k)
         /\ chosen' = chosen \cup {of[k]}
    /\ TuiOnly /\ UNCHANGED <<tui, opened>>

\* What comes next: after the list, the first row is shown; what is shown of
\* INBOX is marked; after a deletion, the list.
TuiGoesOn ==
    /\ call["tui"] # None /\ call["tui"].at = "ok"
    /\ LET c == call["tui"]
       IN  /\ \/ c.op = "list" /\ \E f \in c.got : Ask("tui", "get", tui, f.key)
              \/ c.op = "get" /\ tui = "INBOX" /\ Ask("tui", "mark", tui, c.key)
              \/ c.op = "delete" /\ Ask("tui", "list", tui, 1)
              \/ /\ \/ c.op = "list" /\ c.got = {}
                    \/ c.op = "get" /\ tui # "INBOX"
                    \/ c.op = "mark"
                 /\ call' = [call EXCEPT !["tui"] = None]
           /\ opened' = IF c.op = "get" THEN opened \cup {of[c.key]} ELSE opened
    /\ TuiOnly /\ UNCHANGED <<tui, chosen, bounds>>

\* KeyError, which nothing catches
TuiDies ==
    /\ call["tui"] # None /\ call["tui"].at = "failed"
    /\ call' = [call EXCEPT !["tui"] = None]
    /\ tui' = None
    /\ TuiOnly /\ UNCHANGED <<chosen, opened, bounds>>

-----------------------------------------------------------------------------
SmtpStep == (\E m \in Messages : Mail(m)) \/ (\E a \in Accounts : RemoveAccount(a))
               \/ StoreOne \/ Abort

WindowStep == Reloaded \/ AutoRefresh \/ AutoDone \/ AutoFailed
                 \/ (\E w \in Windows : Opened(w) \/ WindowOver(w))
                 \/ DeleteNext \/ Deleted \/ DialogOver \/ DeleteOver

UserStep == Refresh \/ Goto \/ DeleteSelected \/ Cancel
               \/ (\E w \in Windows : Open(w) \/ DeleteInWindow(w))

TuiStep == TuiReload \/ TuiShow \/ TuiDelete \/ TuiGoesOn \/ TuiDies

Next ==
    \/ SmtpStep
    \/ \E t \in Threads : StoreStep(t) \/ Lose(t)
    \/ WindowStep \/ UserStep \/ TuiStep
    \/ Kill

Spec == Init /\ [][Next]_vars

\* apid's threads run; so do the workers, the event loop and its timer.
Fairness ==
    /\ \A t \in Threads : WF_vars(StoreStep(t))
    /\ WF_vars(Reloaded) /\ WF_vars(AutoRefresh) /\ WF_vars(AutoDone) /\ WF_vars(AutoFailed)
    /\ \A w \in Windows : WF_vars(Opened(w)) /\ WF_vars(WindowOver(w))
    /\ WF_vars(TuiGoesOn) /\ WF_vars(TuiDies)

FairSpec == Spec /\ Fairness

-----------------------------------------------------------------------------
TypeOK ==
    /\ accounts \subseteq Accounts /\ Me \in accounts
    /\ box \in [Accounts -> SUBSET File] /\ of \in Seq(Messages \cup {Old})
    /\ \A a \in Accounts : \A f \in box[a] : /\ f.key \in DOMAIN of
                                           /\ Keyed(box[a], f.key) = {f}
    /\ mail \in Transaction \cup {None} /\ (mail # None => mail.i \in DOMAIN mail.rcpts)
    /\ call \in [Threads -> Call \cup {None}]
    /\ folder \in Folders /\ shown \in Folders /\ rows \subseteq File
    /\ known \subseteq Nat /\ seeded \in BOOLEAN /\ busy \in BOOLEAN /\ alarm \subseteq Nat
    /\ window \in [Windows -> Window \cup {None}]
    /\ deletion \in Deletion \cup {None} /\ tui \in Folders \cup {None}
    /\ owed \subseteq Messages \X Accounts /\ chosen \subseteq Messages \cup {Old}
    /\ listed \subseteq Nat /\ opened \subseteq Messages \cup {Old}
    /\ events \in Nat /\ faults \in Nat

\* smtpd.py:101, "message accepted for delivery", and store.py:143: a message
\* answered with 250 is in the mailbox of each of its recipients, and stays
\* until one of the users asks for its deletion, whatever threads mark, delete
\* and list at once and wherever apid is killed in the middle of it.
NoMailLost ==
    /\ \A p \in owed : p[1] \in Of(Keys(box[p[2]])) \/ (p[2] = Me /\ p[1] \in chosen)
    /\ Old \in Of(Keys(box[Me])) \cup chosen

\* gui.py:1713, _auto_refresh: what is announced as new was not in the list of
\* the INBOX before, unless it was opened or deleted meanwhile, however many
\* folders were visited and lists failed or came late.
NoFalseAlarm == Of(alarm \cap listed) \subseteq opened \cup chosen

\* gui.py:1885, "cancel: whatever was deleted so far stays": after a cancel the
\* worker deletes at most the message it has begun.
CancelStopsRest ==
    deletion # None /\ deletion.cancelled => deletion.n <= deletion.atCancel + 1

\* gui.py:1713: a message that came or went is in time known to a window that
\* is on the INBOX, and a table that is of the INBOX shows what is there.
CatchesUp ==
    <>[](folder = "INBOX" => /\ known = Keys(In(box[Me], "INBOX"))
                             /\ shown = "INBOX" => Keys(rows) = known)
=============================================================================
