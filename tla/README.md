# OnionMail in TLA+

OnionMail is a mail server and client that talks SMTP between Tor onion
services. This directory holds TLA+ modules that model its stateful parts, the
TLC configurations that check them on small instances, and TLAPS proofs of the
results that hold for every instance. `PROJECT.json` ties each definition to the
lines it models, each property to a run, and each run to a mutant that breaks it.

    cd tla
    tlc -workers 2 -config OutboundFair.cfg MCOutbound.tla
    tlapm OutboundProofs.tla

## 1. The system

| component | state it keeps | operations | talks to |
|---|---|---|---|
| `store.py` | Maildir folders; the queue file `outbox-state.json` | add, list, get, mark_seen, delete, move; enqueue, queue, update_queue_entry, complete_queue_entry | called by every other part, in several processes |
| `sender.py` | none of its own (one pass of locals) | process_queue_once, deliver_one, run | store; remote SMTP servers through Tor |
| `smtpd.py` | its onion, resolved once at start; a transaction per connection | EHLO, MAIL, RCPT, DATA handlers, run | store, accounts |
| `apid.py` | sessions, in memory and in `sessions.json` | register, login, logout, the mail operations | accounts, store; one thread per connection |
| `accounts.py` | `accounts.json`: users, hashes, failed logins, lockout, invites, age keys | new_invite, create, verify, set_password, delete, set_pubkey | used by apid, by smtpd and by the CLI, in separate processes |
| `protocol.py` | - | one JSON object per line, size limit | apid, netclient |
| `netclient.py`, `backend.py` | a socket and a token | one call per API operation | apid; GUI, CLI |
| `compose.py` | - | build a message, `recipients_of`, `queue_message` | store |
| `contacts.py` | `contacts.json` | add, remove, resolve | GUI, TUI, compose |
| `clientkeys.py` | `keys.json`: the user's sealed identity; `known_keys.json`: the key pinned for each peer | unlock_or_create, remember_peer, set_peer, mark_verified, forget_peer | GUI |
| `sandbox.py` | one jail directory per attachment name | open in a jail | firejail, bwrap |
| `config.py` | the configuration | address predicates, validation | everything |
| `__main__.py`, `gui.py`, `tui.py` | widgets, rows, worker threads | commands of the user | store or API client |

What is hard here:

* **Shared files without a shared lock.** The queue file is read, changed in
  memory, written to *one fixed* temporary file and renamed, by any number of
  processes and threads. `accounts.json` has a lock, but one per `Accounts`
  object, so one per process.
* **Stale copies.** A queue pass works on a snapshot and writes its copy of an
  entry back minutes later.
* **Kills between steps.** The services are `Restart=on-failure`; nothing is
  transactional: the move between folders is copy, then delete; the entry is
  removed before the move; the notice is written after it.
* **The network.** An SMTP answer may be lost after the server stored the
  message; each API call has a timeout.
* **Long legal sequences**: a recipient refused in one pass while another is
  retried; the deletion of a message that is still queued; an account deleted
  between RCPT and DATA; a session that outlives its account; an `smtpd` that
  starts before Tor and never asks for its onion again.
* **Lists grown old.** Message windows, the main window, its timer, a deletion
  with a dialog that can be cancelled, and the TUI all work on one Maildir, each
  from rows it read some time ago; `mark_seen` is three changes of the directory.
* **Keys seen in passing.** Every message shows its sender's key to a worker,
  and all workers rewrite one file of pinned keys.
* **One token, two threads.** The windows of the GUI and their background
  workers share a `NetClient`: a worker's rejected call takes the token away
  from the window.

What makes each part correct:

* outbound path: no message is lost; Sent means every recipient is settled;
  Failed has a cause and is reported; nothing is delivered twice without need;
  the queue drains.
* accounts: every change of the file is one operation's effect on the current
  content; an invite serves once; a locked account is not guessed at.
* inbound: `250` only when the message is in every mailbox, but for accounts that
  were removed meanwhile, and it stays there until its owner deletes it; what a
  sender is told is true, with the same exception; an account's mail is not
  refused for reasons that will pass; second copies have a lost answer as their
  cause.
* windows: nothing old is announced as new; a cancelled deletion stops; what is
  on the screen catches up with what is there.
* keys: a pinned key changes by its user only; a changed one is shown to the
  user; the pinned one is used; a published key can be opened.
* sessions: a token stops working when it is dropped or expires, also after a
  restart, and works until then; no call hangs; the user learns that a session
  is over.

How the parts interact. Mail goes out from a client (`compose`, or `apid` for a
remote one) through `store.enqueue` to the queue file, from there through
`sender` to a remote server, and ends in Sent or Failed. Mail comes in through
`smtpd` into the Maildir of an account. A remote client speaks JSON lines to
`apid`, one connection and one thread per call, under a token that `apid` drew
at login. `apid`, `smtpd`, `sender` and the CLI share only files. In the GUI a
`_Worker` thread runs each slow call and its signals run slots on the user
interface's thread.

## 2. Modules

| module | models |
|---|---|
| `Outbound` | `store.py`'s queue and folders together with `sender.process_queue_once`, the clients that enqueue, deletions by the user, crashes, time |
| `DeliveryPromise` | what the outbound path promises per message, as an abstract specification |
| `Accounts` | `accounts.py`: the account file, its lock and its temporary file, every method that changes it, called from several processes |
| `Sessions` | the sessions of `apid.py`, the `NetClient` of `netclient.py`, and the windows of `gui.py` that log in, work, log out and lose their session |
| `Transfer` | one message between `sender.deliver_one` and another server's `smtpd`, reply by reply |
| `Mailbox` | `smtpd`'s DATA for several accounts, `store.py`'s Maildir operations step by step, the main and message windows of `gui.py` and `tui.py` on one mailbox |
| `PeerKeys` | `clientkeys.py` and `contacts.py` under the message windows, the Keys dialog and the compose window of `gui.py` |
| `MCOutbound`, `MCAccounts`, `MCSessions`, `MCTransfer`, `MCMailbox`, `MCPeerKeys` | instances for TLC |
| `OutboundProofs` | theorems about `Outbound` in every environment |
| `OutboundApartProofs`, `OutboundPromiseProofs` | theorems about `Outbound` in a kind one, and that it implements `DeliveryPromise` there |
| `AccountsProofs`, `SessionsProofs`, `TransferProofs`, `MailboxProofs`, `PeerKeysProofs` | theorems about the module they are named after |

The models share no state. Where two meet, one takes as any outcome what the
other decides: `Outbound` takes the verdict on a recipient as given, which
`Transfer` derives from what the other server did; `Sessions` takes "is the
password right" as given, which `Accounts` decides; `Mailbox` takes the failure
of a call as given, of which `Sessions` has the causes.

### `Outbound`: state and actions

A client is identified with the one message it enqueues: `pc[m]` runs through
`new`, `read`, `write`, `replace` to `queued` (or `error`, when an exception or
a kill ends the call). A processor `s` is a daemon (`sender.run`) or a flush
worker of the GUI or TUI; `pc[s]` says where in `process_queue_once` it is, and
`now`, `todo`, `cur`, `left`, `pend`, `errs` are that function's locals (`now`,
the rest of `store.queue()`, `entry`, the rest of `entry.rcpts`,
`still_pending`, `errors`).

| code | actions |
|---|---|
| `Store.enqueue` | `AddToOutbox`, `EnqueueRead`, then the write |
| `Store._write_queue` | `WriteTmp`, `ReplaceTmp`, or `TmpIsGone` when another writer's rename took the shared temporary file |
| `process_queue_once` | `StartPass`, `TakeEntry`, `EntryWithoutMessage` (the `KeyError`), `EndPass`, `Conclude` |
| `deliver_one` | `Attempt`: one of `Deliver`, `Refuse`, `FailForNow`; `AttemptRaises` |
| `update_queue_entry`, `complete_queue_entry` | `UpdateRead`, `CompleteRead`, then the write |
| `Store.move`, `_bounce` | `MoveFetch`, `MoveCopy`, `MoveDrop`, `Bounce` |
| `Store.delete` by the user | `UserDelete` |
| a kill, with systemd's restart | `Crash` |

Four constants describe the *environment*, not the program, and default to the
worst: `Serialised` (no two writers of the queue file overlap), `UserDeletes`,
`LossyLink` (an answer may be lost after the message was stored), `MaxCrashes`.
A property that needs a kind environment is run, and claimed, only there.

Abstractions. A message is its Outbox key. A folder is the set of messages it
holds a copy of, so a copy that a retried move adds a second time is not told
apart from the first. The queue is a set of entries: a pass may take due entries
in any order, which includes the order of the list. `write_text` puts the whole
content in place. The text of a notice is the set of recipients it names.
Operators whose comment starts with `slip:` are wrong variants of the next
definition: no behaviour of `Spec` uses them, the mutants of `PROJECT.json` do.

### `Accounts`: state and actions

A caller is a thread of `apid` or a CLI command; it makes calls one by one and
belongs to a process, which has one lock. `pc[c]` runs through `idle`, `wait`
(for the lock), `held`, `open`, `fill` and `replace`; `buf[c]` is the data the method
will write. A file is an inode: `path` and `tmp` are the directory entries
`accounts.json` and `accounts.tmp`, `inode[i]` is what is in it, `fd[c]` is the
inode the caller has open, because two processes in `_write` open, truncate
and rename the same one.

| code | definitions |
|---|---|
| `new_invite`, `create`, `verify`, `set_password`, `delete`, `set_pubkey`: what each makes of the data it read | `NewInvite`, `Create`, `Verify` with `CountFailure`, `SetPassword`, `Delete`, `SetPubkey`, `Outcome` |
| a call, `with self._lock` | `Call`, `Acquire`, `Leave` |
| `_read` and the method's decision; the error when a concurrent write left no JSON at all | `Decide`, `DecideRaises` |
| `_write`: open and truncate, write, `os.replace` | `OpenTmp`, `Fill`, `ReplaceTmp`, or `TmpIsGone` when another process renamed the file |
| a kill of one process, restart | `Crash` |

Abstractions: a password stands for its hash; two writers of one inode leave
either's content or `Garbage`, which `_read` takes for no accounts; the mailbox
folders `create` makes are left out, `store_for` makes them too. `drawn`,
`asked`, `joined`, `guesses` are histories that only the properties read.

### `Sessions`: state and actions

The server: `sess` is `_sessions` (the expiry of each token, or `None`), `disk`
is `sessions.json`. A connection `n` is one call and its thread of `apid`:
`conn[n].at` runs through `sent`, `verified` (password accepted, expiry
computed, lock not yet taken) or `passed` (`session_user` has returned), to an
answer `ok`, `no`, `rejected`, or `cut` when `apid` was killed or an `OSError`
in its operation ended the handler. The client:
`token`, `expires` are the `NetClient`'s, `saved` is `session.json`, `screen` is
what is shown, `due` says that a window is about to call `reload` by itself.
Each program has a user-interface thread and a worker; `call[t]` is the
connection a thread waits on.

| code | actions |
|---|---|
| `_login`, `new_session` | `RefuseLogin`, `AcceptLogin`, `NewSession` |
| `session_user` in `_dispatch` | `Pass`, `Reject` |
| `_authed`, `drop_session` | `Operate`, `DropSession` |
| a kill of `apid`, restart, `_load_sessions` | `Restart` |
| `_rpc`: an `OSError` or timeout; a request that never arrives | `HangUp`, `Vanish` |
| `run`, `load_session`, `client_from_session`; the end of the program | `Start`, `Quit` |
| `LoginWindow._login`, `NetClient.login`, `_unlock_identity`, `_done` | `Login`, `LoginAnswered`, `Work`, `Worked`, `Enter`; `LoginBreaksOff` when a call of `_unlock_identity` raises what it does not catch |
| `_auto_refresh`, `_mark_seen_async` and other workers, `_auth_rpc` | `Work`, `Worked` |
| `MessagerWindow.reload`, `_on_auth_lost` | `Reload`, `Reloaded` |
| `SettingsDialog._logout`, `NetClient.logout` | `Logout`, `LoggedOut` |

Abstractions: what `apid` does under `_slock` is one step, since nothing else
reads the dict or the temporary file and a kill in the middle leaves
`sessions.json` as before or as after; a token stands for its user; one worker
at a time; all operations but login and logout are `mail`. Tokens are never
drawn twice (192 random bits). When a client gives up on a call, `apid` still
finishes a request it has read, and the connection closes after it.

### `Transfer`: state and actions

The sender: `rcpts` and `attempts` are the queue entry's, `left` and `pending`
are what is left of `entry.rcpts` in this pass and `still_pending`, `verdict` is
what the sender last concluded of a recipient. `conn` is the connection there
is: its recipient, the command sent last (an index into `Commands`), its reply,
and whether the server has taken a MAIL. The server: `tor`, `up`, and `onion`,
whether `OnionHandler.onion` is known; `accounts`, who has an account now: those
of the constant `Accounts` always, others come and go. `leavers` remembers whose
account was removed between its RCPT and the text. `copies` counts the files in
each account's Maildir, `late` the messages `smtpd` has in hand for a sender that has
hung up. `allowed` and `fits` are chosen once: the policy's answer about this
sender, and whether the message is below `max_message_bytes`.

| code | actions |
|---|---|
| `process_queue_once` | `StartPass`, `Conclude`, `EndPass` |
| `_socks_connect` | `Connect` |
| `deliver_one` and its `DeliveryError`s | `GoOn`, `Delivered`, `Refused`, `GiveUpWaiting` |
| `handle_EHLO`, aiosmtpd's greeting and 354 | `Greet` |
| `handle_MAIL`, `handle_RCPT`, `handle_DATA` | `AnswerMail`, `AnswerRcpt`, `TooLarge`, `Store`, `StoreFails`, `StoreLate` |
| `_localpart` at DATA: an account that is gone is passed over, and 250 answered | `StoredFor` in `Store` and `StoreLate` |
| `Accounts.create`, `Accounts.delete` | `Register`, `RemoveAccount` |
| a kill of `smtpd`, `run` and its `OnionHandler` | `Kill`, `Start` |
| `Identity.resolve_onion` once Tor is there | `TorUp` |

`deliver_one` looks at the replies to RCPT and the text but not at MAIL's
(`Wanted`): a refused sender meets 503 at RCPT. An `OSError` or a timeout in
smtplib is `SMTPServerDisconnected`, and a SOCKS failure a `ProxyError`: both are
"later" (`GiveUpWaiting`, `Connect`). QUIT is a no-op then. `GiveUpWaiting` may
leave the text with the server, which then stores it beside the retry's copy.
Abstractions: the pass order of recipients is any; one onion's server; only
multi-user mode (in single-user mode `_localpart` accepts without knowing the
onion). The crash of the *sender* is in `Outbound`.

### `Mailbox`: state and actions

A Maildir `box[a]` is a set of files: key, folder, seen flag. `of[k]` is the
message of the k-th key Maildir made up. `call[t]` is the store operation a
thread waits for: `asked`, then as far as it has come, then `ok` or `failed`. The
threads are the user interface's, the auto-refresh worker, the deletion worker,
one per message window, and the TUI. `folder`, `rows`, `known`, `seeded`, `busy`
are `MessagerWindow`'s `folder`, `_rows`, `_inbox_keys`, `_inbox_seeded`,
`_auto_busy`; `shown` is the folder the rows are of, `alarm` what
`_auto_refresh` will announce; `deletion` is `act_delete`'s worker and dialog.

| code | actions |
|---|---|
| `handle_MAIL`, `handle_RCPT` with `max_rcpt` | `Mail`: some of the `Envelopes`, whose recipients have accounts and are at most `MaxRcpt` |
| `handle_DATA`'s loop, `Store.add_incoming`, 451 | `StoreOne` with `AddIncoming` and `Advance`, `Abort` |
| `Accounts.delete` (nothing in `src` calls it; an administrator may) | `RemoveAccount` |
| `Store.list`: keys, then messages | `ListKeys`, `ListRead` |
| `Store.get_bytes`, `Store.delete` | `Get`, `Delete` |
| `Store.mark_seen`: add a copy, remove, rename | `MarkAdd`, `MarkDrop`, `MarkRename` |
| `_rpc` without an answer; a kill of `apid` and `smtpd` | `Lose`, `Kill` |
| `MessagerWindow.reload`, `_goto`, `_auto_refresh` | `Refresh`, `Goto`, `Reloaded`, `AutoRefresh`, `AutoDone`, `AutoFailed` |
| `_open_selected`, `MessageWindow._load`, `_mark_seen_async` | `Open`, `Opened`, `WindowOver` |
| `act_delete`, `MessageWindow._delete`, `run_busy`, `BusyDialog` | `DeleteSelected`, `DeleteInWindow`, `DeleteNext`, `Deleted`, `Cancel`, `DialogOver`, `DeleteOver` |
| `OnionMailApp` of `tui.py` | `TuiReload`, `TuiShow`, `TuiDelete`, `TuiGoesOn`, `TuiDies` |

`Lose` covers a call that was not executed and one whose answer was lost, since
it may strike before and after; a client that gives up while `apid` is in the
middle of the operation is not modelled. One deletion worker is: the code lets
the user start a second deletion while a cancelled one still finishes the one
delete it is in (`gui.py:1900`), the model makes the user wait for that. `Maildir.lock` does nothing in Python's mailbox
module, so the steps of two operations interleave. The cancellation of a
deletion is asked for between two messages: check, then send.
Abstractions: the mailbox on the screen is one account's; the folders are two;
the TUI works on any key it may have read.

### `PeerKeys`: state and actions

`idFile` and `server` are the identity in `keys.json` and the one the user's
server gives out, `own` is `backend.keys`, `prog` how far the program is in
`_unlock_identity`. `known` is `known_keys.json`, `tmp` its temporary file, and
`job[t]` the operation of each thread on them: what it is, what it read (`buf`)
and whether it is to read, write or replace. `warned` is `_warned_key_changes`,
`warning[w]` what window `w` is about to show; `compose` is the sending under
way, with the recipients still to be looked up, the keys found, and (history)
the keys that were pinned when it began.

| code | actions |
|---|---|
| `unlock_or_create`, `unlock_keys_prompt` | `Unlock`, `OpenIdentity`, `WrongPassphrase`, `CreateIdentity`, `Seal` |
| `LoginWindow._unlock_identity`: `pubkey_get`, `pubkey_set` | `Publish` |
| `remember_peer`, `set_peer`, `mark_verified`, `forget_peer` | `Remember`, `Changed`, `Edit`, `WriteTmp`, `Replace` |
| `MessageWindow._load`, `_harvest_pubkey`, `_render_body` | `OpenMessage`, `Warn`, `RenderFails` |
| `KeysDialog._add`, `_toggle_verified`, `_forget` | `EditPeer` |
| `Contacts.add`, `remove`, `resolve`; `recipients_of` | `EditContact`, `Resolve`, `Recipients` |
| `ComposeWindow._send`, `_resolve_pubkeys` | `Send`, `CancelSend`, `UsePin`, `AskDirectory`, `Answer`, `NotFound`, `SendCancelled`, `HandOver`, `SendOver` |

`Serialised` is again a kind environment: no thread reads `known_keys.json`
between another's read and its replace. Abstractions: a key is a model value and
its fingerprint is the key; the keys of the user are numbered as they are made;
the two places a message carries its key are harvested as one, since the second
finds what the first left. A saved session without `keys.json`, and the local
backend, work without keys and are not of interest here.

## 3. Runs

| run | instance | shows |
|---|---|---|
| `outbound_fair` | 2 messages (1 and 2 recipients), 1 daemon, 2 retries, writers serialised, fairness | types; no orphan in Outbox; no second attempt after an answer; one verdict; failures are reported; a pass leaves no due entry; every accepted message is settled; `Outbound` implements `DeliveryPromise` |
| `outbound_crash` | the same with 1 retry, 2 kills, lost answers | no entry without its message; every entry leaves the queue |
| `outbound_races` | 1 message, its client, a daemon and a flush worker, overlapping writes, 1 kill, deletions, lost answers, a recipient smtplib cannot encode | no message is lost; Sent means settled; Failed has a cause; notices are about failures |
| `accounts_one_process` | 3 threads under one lock, 5 calls, 1 kill | types; the file is never empty or torn; it changes by whole calls only; an invite serves once; one wrong password more than `max_failed` takes the lockout time |
| `accounts_apart` | 2 threads of `apid` and a command with its own lock, 3 calls, 1 kill | nothing is invented; a lockout ends in time and leaves no wrong password counted |
| `sessions_fair` | 1 program with both threads, 2 tokens, 2 connections, 1 restart of `apid`, fairness | types; logged-out tokens stay out; the others survive; only live sessions pass; no call hangs |
| `transfer_fair` | 2 accounts and one that comes and goes, 4 retries, 3 faults (kills, lost answers, disk errors), fairness | types; verdicts are true, but for an account removed between RCPT and the text; a second copy has a lost answer as its cause; every account gets its message |
| `mailbox_fair` | 2 accounts, 1 message for both, the main window, a message window and the TUI, 2 events, 1 fault, fairness | types; no accepted mail is lost; no false alarm; a cancelled deletion stops; the table catches up |
| `peerkeys_apart` | 2 peers, 3 keys, a nickname, 2 message windows, a compose window, the Keys dialog, 5 events, 1 fault, rewrites serialised | types; a published identity is on disk; changes are shown; pinned keys are used; pins change by the user |
| `outbound_lost_update`, `sessions_unnoticed`, `transfer_early` | | violations, see *Findings* |

Bounds of `Outbound`. Two messages are enough for one client's rewrite of the
queue file to erase the other's, and for one entry to stand in the way of
another; two recipients are enough for one to be refused while the other is
retried; two processors are enough for every pairwise race on one entry.
`Delays` has up to two values of one tick, so that "one attempt more than there
are delays" is told apart from "as many". `MaxClock` is 4 where time matters:
two messages wait at most twice for one tick each, and the fair runs skip idle
time (`LazyNext`), so the bound never keeps an entry waiting. `passes` is a
history counter that stops at `PassCap`, one above the largest value any
property compares it with.

Bounds of `Accounts`. Three callers put two threads in one process beside a
command in another. `MaxFailed` is 2, so a count, a lockout and a count after
it fit into 5 calls; `LockFor` and `MaxClock` are 2, so a second lockout within
the time of the first would show. Three users can compete for two invites. Six
inodes are one more than the two directory entries and the open files of three
callers (`EnoughInodes`): the model never runs out of files. The callers stop
after `MaxCalls` calls, and a `Lock` is never left behind, so these runs may
stop: `CHECK_DEADLOCK FALSE`.

Bounds of `Sessions`. One program has two threads that share a token, which is
where the interplay lies; programs meet only in `apid`, whose steps on different
tokens are independent under `_slock`, and the theorems cover any number of
them. Two tokens let one be logged out or expire while the other lives, or a
user log in again; two connections are both threads' calls, one of which may be
abandoned and still worked on. `TTL` is 1 and `MaxClock` is 2: a session is seen
before, at and after its expiry, where `session_user` (`exp < now`) and
`_load_sessions` (`e > now`) differ. `Margin` is 0 because a larger one only
makes `Start` show the login window more often.

Fairness of `Outbound`. `WF(EnqueueStep)` and `WF(PassStep)`: threads and
processes run, and a delivery attempt ends because the socket has a timeout
(`sender.py`, 120 s). `WF(StartPass)` for daemons only: `sender.run` loops for
ever; a flush runs when the user asks for one and is owed nothing. `WF(Tick)`:
time passes. Nothing is assumed of remote servers: an attempt may fail every
time. Kills are never fair.

Fairness of `Sessions`. `WF(ServerStep(n))`: `apid`'s threads run. The client's
threads take an answer that is there; a window that is about to open or to
reload does so; `WF(Work(c))`: the background refresh comes every 20 seconds.
Users, kills and time are not fair, and neither is `HangUp`: `EveryCallEnds`
must not lean on the client's timeout, and `RejectionIsNoticed` fails although
every fair call is answered.

Bounds of `Transfer`. Two accounts and a recipient that has none at first are
the smallest entry in which one recipient is done, one refused and one retried.
The third's account may be made and removed at any point, any number of times;
without the exception for `leavers` TLC finds `VerdictIsTrue` violated by it.
`Arrives` is claimed when there are more retries than faults: three faults can
strike one recipient three times, or each in another place of one dialogue, and
the fourth retry goes through. `BackInTime` says that Tor and `smtpd` are up when
a retry starts: systemd's `RestartSec` is 5 s and the first delay 60 s.
`transfer_early` sets `Configured` to `FALSE`, the default of the configuration,
and needs one account and no fault.

Bounds of `Mailbox`. `MaxEvents` counts what comes from outside: transactions
and what users start; each sets off several calls of several threads. Two are
enough for any two such activities to overlap (a transaction and a deletion, the
mark of a window and the deletion of the TUI, a visit to another folder and a
refresh) beside the timer's refreshes, which are not counted, and a fault. With
three events there are more than 25 million states. A
transaction is for both accounts or for the user's alone; the first names the
other account first, so that the user's own copy is the one still missing when
the other is stored, removed or fails.

Bounds of `PeerKeys`. Three keys let a peer change twice, so that a warning for
the second change is told apart from the first; two windows and the compose
worker are three remembering threads beside the dialog's. Five events are a
login, a published key, two messages opened and a sending. The symmetry is of
peers, keys and windows; there is no liveness property.

These three may stop, because users and peers may do nothing more:
`CHECK_DEADLOCK FALSE`.

Fairness of `Transfer`: `WF(SenderStep)` for `sender.run`'s loop,
`WF(ServerStep)` for aiosmtpd, `WF(Start)` for systemd's restart, `WF(TorUp)`.
Lost answers, kills and disk errors are not fair. Fairness of `Mailbox`:
`WF(StoreStep(t))` for `apid`'s threads, and the event loop, its slots and its
timer; neither `DeleteNext` nor anything a user does is fair, nor a lost call.

## 4. Proofs

`OutboundProofs` proves, for any finite or infinite sets of messages,
recipients, daemons and flush workers, any delays and *every* environment
(overlapping writers, deletions, lost answers, any number of kills):

* `TypeCorrect`: `TypeOK`.
* `AlwaysHonest`: the inductive invariant `Honest`.
* `MessagesAreNeverLost`, `SentMeansResolved`, `FailedHasCause`,
  `NoticesAreAboutFailures`: its four readable parts.

The only assumption is `OutboundAssumption`, the types of the constants.

Why the strengthening is needed: a processor decides that a message is sent from
*its copy* of an entry, which may be arbitrarily stale, because files are
rewritten by others and publish each other's temporary file. So the invariant
must speak of every copy of an entry anywhere (the file, the temporary file, the
buffers of all writers, the snapshots of all passes): a copy leaves out only
recipients that are settled, and counts no more attempts than were made
(`EntryIsHonest`). `HandIsHonest` carries this through the recipient loop to the
verdict. Copies only ever come from copies or from `Conclude`, and `accepted`,
`refused` and `passes` only grow, so honesty survives every interleaving. The
proof has one step per action; lemmas say how each action changes `Copies`.

`OutboundApartProofs` proves more where it can hold (`Alone`): readers and
writers of the queue file take turns (`Serialised`), one daemon or flush worker
runs, and the user deletes nothing from Outbox. It needs one more fact of the
model's constants, that a file which is not there is no list of entries.

* `EveryEntryHasItsMessage` and, for addresses smtplib can encode,
  `PassAttemptsAllDue`, however often answers are lost and processes killed.
  They rest on `FileInv`: at most one writer is between its read and its rename;
  what it will put in place is the file as it is *now*, with its one change; keys
  are unique; and for every place in the code, whether the message in hand is in
  Outbox and its entry in the file. That an entry has its message is not
  inductive, because `complete_queue_entry` and `move` act on the key in the
  processor's hand: one must know that this entry has left the file before the
  message leaves Outbox, and that no buffer brings it back.
* where nobody is killed, `QueuedMessagesHaveEntries`, `FailuresAreReported` and
  `VerdictsAreFinal`, from `VerdictInOrder`: a message is in Outbox *and* in Sent
  or Failed only while its processor is about to remove it from Outbox, and has
  no notice yet. A kill at that point is what makes all three false.

`OutboundPromiseProofs` proves, where in addition no answer is lost and all
addresses can be encoded (`Undisturbed`), `ServersAreAskedOnce` and the
refinement `PromiseIsKept`: `Spec => Promise!Spec`, with one step for each action
of `Outbound`. `OnceOnly` is the invariant they need: an entry in the file, but
for the one in hand, lists only recipients that have not answered, and the one
in hand has only such in the rest of the loop and in `still_pending`; a verdict
`failed` in hand has a recipient without the message. The refinement takes from
it the grounds of the verdict, from `VerdictInOrder` that it is the first, and
from `Honest` that every recipient is settled. The fairness of
`DeliveryPromise`, the other half of `KeepsPromise`, is left to TLC.

`AccountsProofs` proves, for any callers, processes, requests and kills:

* `TypeCorrect`; `NothingIsInvented` and `EveryLockoutEnds`, which follow from
  an invariant of the same shape: every copy of the data anywhere (every inode,
  every buffer) is *genuine* (`CopiesGenuine`), and each method makes genuine
  data from genuine data (`OutcomeGenuine`). Of a lockout, genuine means what
  `OpensInTime` says: it ends within the lockout time, and while it lasts no
  wrong password is counted, so that the account opens with all its tries.
* where all callers are in one process, `OneProcessKeepsFileWhole`,
  `OneProcessUpdatesAtomically` and `OneProcessUsesInvitesOnce`. The lock lets at
  most one caller past `Acquire`; so what a caller is about to write was made
  from what the file still holds (`FileInOrder`), and the calls of a process
  apply to the file one after the other.
* under the same assumption, `OneProcessLimitsGuesses`. `GuessRate` speaks of
  the guesses made, but whether the next one is admitted is decided by the
  record. `GuessesInOrder` ties them together (`Counted`): the record counts the
  latest guesses, fewer than `max_failed`, and is locked for the lockout time
  after each earlier one; and the guess a caller is about to count is not earlier
  than any that is counted, because nobody else counts one between its read of
  the clock and its rename. `OutcomeCounts` shows for each method that its new
  record and the new list of guesses agree again.

`SessionsProofs` proves, for any number of programs, tokens, connections and
restarts:

* `TypeCorrect`, with which thread waits on which connection (`CallsMatch`).
* `CopiesAreGenuine`: no copy of a session (dict, file) differs from the one
  issued, and calls and clients hold issued tokens only. No assumption on the
  disk.
* where `sessions.json` can be written (`~DiskMayFail`), `LogoutIsFinal`,
  `RestartKeepsSessions` and `OnlySessionsPass`. They need `FileUpToDate`: the
  file may be behind the dict, because `_load_sessions` drops what
  `session_user` would still accept and does not write; but only by sessions
  that are expired for a restart, and that no call still works under. Without
  the last part a logout could leave its token in the file, since
  `drop_session` writes only if it found something to drop.

`TransferProofs` proves, for any recipients, accounts, delays and number of
faults, with or without a configured onion:

* `TypeCorrect`, with the order of passes (`PassesInOrder`).
* `VerdictsAreTrue` and `EveryCopyHasCause`, from one invariant per recipient,
  `InOrder`. That copies are at most one more than lost answers is not inductive:
  a retry could add one. The invariant says when the one more is there: only
  while the answer 250 waits to be read, or when the recipient is done, which
  means that no pass and no later entry has it; and it counts what the server
  still has in hand together with what it has stored. `ConcludeInOrder` is the
  one lemma about the end of an attempt that its four causes share. Since
  accounts come and go, the truth of a 250 needs one fact more, `Admitted`: in
  the middle of a transaction its recipient still has an account or is in
  `leavers`. That a restarted `smtpd` finds its onion again is `OnionStays`.
* where the onion is configured, `ConfiguredRefusesOnlyWithCause`, the property
  that `transfer_early` refutes where it is not. The invariant carries the reason
  of each permanent reply through the dialogue (`Causes`), because the sender
  sees 503 at RCPT for what was decided at MAIL.

`MailboxProofs` proves, for any accounts, messages, envelopes, windows and
faults, and any order of what users do:

* `TypeCorrect`. The types alone are not inductive here, because keys are kept in
  many places and looked up in `of`: `TypeInv` adds that every key anywhere has
  been given out, that a key names one file of an account, and which thread
  waits for which call.
* `AcceptedMailIsKept`. `mark_seen` adds a second copy of a message, removes the
  first and renames the second, each in its own step and with other threads
  between them; so that the message is there is not inductive. The invariant has
  three parts. `AskedFor`: what is being deleted the user has asked to delete.
  `CopiesRemain`: of every copy a mark has in hand, a copy or one made from it is
  in the mailbox, unless the user asked for the deletion. Two marks can copy each
  other's copies, and the first can remove what the second copied; so a relation
  `D` on keys, which exists and which the model does not keep, says which keys
  were made from which (`Descent`), and for each key in a mark's hand the mailbox
  has a file of one that `D` relates it to.
  `MailInOrder`: the recipients before the one whose turn it is have the message,
  and so have those who are owed it since the `250`.
* `OnlyNewIsAnnounced`, from `AlarmsInOrder`: a key that was ever in the list of
  the INBOX, of a message neither opened nor chosen for deletion, is in the
  mailbox, in the known keys, in the list that is on its way and in no alarm.
* `CancelStops`, from `DeletionInOrder`: the worker has one call under way, of a
  message that is left, and has had at most one deleted since the cancel.

`PeerKeysProofs` proves, for any peers, nicknames, keys, windows and faults:

* `TypeCorrect`, with what a sending may have at each of its steps.
* `PublishedKeyIsOnDisk`, from `LoginInOrder`: an identity is made only where
  there is none on disk, and what is being published is what is on disk.
* `UserIsWarned`, with overlapping writers too, from `WarningsInOrder`: a window
  that still looks at a key has no warning waiting, so none is overwritten.
* where readers and writers of `known_keys.json` take turns (`Serialised`),
  `PinsAreTheUsers` and `PinnedKeyIsUsed`. `PinsInOrder` is `FileInOrder` again:
  what the one writer holds differs from the file only at the peer it is about,
  which is without a pin if the writer is not the user. `SendingInOrder` adds
  that the keys found so far for a message are those pinned when it was begun.

Each of these invariants was checked by TLC before it was proved, some on
instances larger than the runs': `FileInv` with two kills and lost answers (9.7
million states), those of `Mailbox` with two events (0.7 million, complete) and
three (the first 16 million), `GuessesInOrder` on the instance of
`accounts_one_process` (3.2 million).

The proofs rest on the named `ASSUME`s of the modules, which give the constants
their types and which TLC evaluates in every run, and on what is named above.
In a theorem about a kind environment it is a hypothesis in the statement, and
the runs that check the same property choose it the same way.

Only model-checked: what is about liveness (`EventuallySettled`, `QueueDrains`,
`EveryCallEnds`, `Arrives`, `CatchesUp`, and the fairness in `KeepsPromise`), as
the prover has no rule for `ENABLED`. Every other property that a passing run
checks is stated by a theorem. `passes`, clocks and counts of calls are bounded
in the models; the theorems hold for every bound.

## 5. Findings

1. `outbound_lost_update`: two clients that enqueue together erase one entry;
   its message stays in Outbox for ever although the CLI said it will be sent.
2. `sessions_unnoticed`: when the background refresh is the first call the
   server rejects, the token is dropped and nobody told: `w.fail` only clears
   `_auto_busy`. The window shows the mailbox until the user asks for something.
3. `transfer_early`: `smtpd` without an onion in its configuration resolves it
   once, at the start. If Tor has not written its hostname file by then, every
   account is answered `550` until a restart, and the sender takes that for
   final. The log line at this place says "accepting by localpart only", which is
   what single-user mode does.

Observations that no run keeps, each seen by changing constants or adding an
invariant to a configuration:

* `UserDeletes = TRUE` in `OutboundFair.cfg` refutes `EveryDueEntryAttempted`: a
  message deleted from Outbox leaves its entry, and `process_queue_once` raises
  at it in every pass, before the entries behind it.
* `NoticeNamesEveryRefusal` of `Outbound` is refuted: a recipient refused in an
  earlier pass is named in no notice.
* `InviteUsedOnce` in `AccountsApart.cfg` is refuted: a command in its own
  process writes back the account file as it was before a registration in
  `apid`; the registration is gone and its invite serves a second user.
  Overlapping writes of the two can also leave `accounts.json` empty or torn.
* `Serialised = FALSE` in `PeerKeysApart.cfg` refutes `PinByUserOnly`: of two
  peers remembered at once one is lost, and its key is taken anew from whoever
  shows one next.
* A warning of a changed key is noted as given when the key is *found*; when
  rendering raises after that, it is never shown (`broken` in `WarnedOfChange`).
* A message deleted between the steps of `mark_seen` comes back under its key,
  although the dialog said it was deleted; no property says that deletions win.
* An account removed between its RCPT and the end of the text is passed over by
  `handle_DATA` (`smtpd.py:89-91`), which answers `250 message accepted for
  delivery` all the same: the sender files the message as sent, nobody has it.
  `VerdictIsTrue` without its exception for `leavers` is refuted.
* A message deleted between the TUI's list and its read ends the TUI
  (`TuiDies`).

## 6. Plan

Left to prove: step counts for the liveness properties (how long an entry can
stay, for instance, as an invariant over `passes`), and weaker environments for
`VerdictsAreFinal` and `ServersAreAskedOnce`: a kill repeats a verdict or an
attempt at most once, which no property states yet.

Left to model: the attachments' jail directories; the rewrite of `contacts.json`
by two programs; folder moves by clients; pure operators with reference
definitions (the address predicates, the reply and wrap helpers).

Not modelled: MIME building and parsing, age encryption (a key stands for what
it seals), the framing of `protocol.py` beyond "a call or none", the
configuration file's syntax, terminal and widget drawing, `sandbox.py` (it makes
a directory, copies a file and starts a process; the program reads nothing of it
again), firejail and bwrap themselves, packaging and service units beyond
`Restart` and `RestartSec`. `change_password` and `lock` of `clientkeys.py` have
no caller.
