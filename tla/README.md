# VOXMail in TLA+

VOXMail lets a telephone caller hear and answer mail.  A Go process keeps users,
accounts and mail state in SQLite, synchronises IMAP mailboxes with `mbsync`,
speaks through resident text-to-speech workers and drives a baresip process
whose C module (`baresip/shim`) carries the calls.  A web console configures it.

This directory holds the TLA+ modules of the parts that are concurrent or that
must survive failure, the TLC configurations that check them on small instances,
and proofs for TLAPS.  `PROJECT.json` lists the components, the runs with their
properties, a mutant for each property, the source lines of each definition, and
the hazards of the code with the properties that guard them.

Contents: 1 inventory, 2 modules, 3 runs and bounds, 4 fairness, 5 proofs,
6 where code and documents disagree, 7 what is not modelled, 8 plan.

## 1. Inventory

### 1.1 Components

| Component (source) | State | Operations | Hard behaviour | What makes it correct |
|---|---|---|---|---|
| Alert service (`internal/alerts`, `store/alerts.go`) | claims, attempts, `alert_next_dial` in SQLite; slots, cooldowns and in-flight messages in memory | round (scan, cooldown, slot, claim, dial, persist), `finishAlert`, `TestAlert` | crash between claim, dial and outcome; cancellation while a call plays; the sweep of stale claims against a live call; shared slots | attempts capped, one call per user, a live call keeps its claim, each eligible message is handled, no claim stuck |
| Outgoing calls (`calls/service.go`, `calls/lifecycle.go`, shim) | pending requests, sessions, timers, native calls, `Done` channels | `Dial`, expiry, `startOutgoing`, announcement, `closeCall`, revocation, `BeginSIPApply`, `Drain` | six goroutines can end a request; the bridge breaks with events in flight; a late `call_outgoing` | each accepted request gets one value on `Done`; sessions and native calls end |
| Incoming calls (`calls/admission.go`, `verification.go`, `dispatch.go`, `events.go`) | session, event queue, worker, inactivity timer, speech leases | admit, answer, activate, choose account, PIN entry, keys, goodbye, hang-up, PIN change | check of the PIN outside the lock; queue limit with recycling; prompts of two goroutines and one timer | no sign-in with an old PIN; typed-ahead keys do nothing; an answered call is never forgotten; leases come back |
| IVR navigation and menus (`calls/navigation_handlers.go`, `mail_handlers.go`, `ivr`, `calls/composition.go`) | screen, back stack, key queue with stamps, confirmation flags, recording and playback tasks | forty-odd screens' keys, pound, help, start and end of tasks | keys that wait while a task changes the screen; a back stack many handlers push to; tasks that outlive their screen | keys act on what the caller heard; pound never leads to a form that is gone; a task can always be stopped |
| Read state and index (`store/mail.go`, `queued_reads.go`, `mail_index.go`, `mailsync/queued_reads.go`, `read_cache.go`, `mailindex`) | provider flag, Maildir name, index rows, `message_mutations` | toggle, watermark, run, acknowledgement, scan and purge, retained retry, reconciliation | a change made while `mbsync` runs; a lost IMAP answer; a rename during the scan; a crash | an acknowledged choice is at the provider; no choice stays queued |
| Moves and deletions (`calls/mail_mutations.go`, `imap/client.go`, `store/mail.go`) | a call's list and cursor, cached connection, files, rows, journal | move, delete, look up a lost outcome, roll back | lost answers, other clients, reused UIDs, hang-up | the journal is true; only the chosen message moves |
| Drafts and submission (`calls/mail_handlers.go`, `composition.go`, `mailer`, `store/mail.go`) | drafts, attachment generations, `outbound_submissions`, remote Drafts | compose, attach, save, resume, send | uncertain SMTP answers, crash after acceptance, two calls with one draft | no unnoticed second copy; a draft never names a missing file |
| Account synchronisation and deletion (`mailsync`, `store/accounts.go`, `store/sync.go`, `store/cleanup.go`, `web/account_*.go`, `web/user_handlers.go`) | account rows, runs, cleanup jobs; owner of a sync, IDLE watchers | sweep, console, telephone and IDLE syncs; save, delete, cleanup; restart | a sync that runs while its account changes, is deleted or created again; a crash in any step | one sync at a time, runs closed by their owner, removed accounts quiet, leftovers indexed |
| Web sign-in and sessions (`web/auth_handlers.go`, `sessions.go`, `login_guard.go`, `security_totp.go`, `store/totp.go`, `recovery.go`) | session table, attempt counters, TOTP steps, backup and recovery codes | sign in, enrol, recover, change password, revoke | concurrent attempts around hashing and mail delivery | counters balance; a code works once; a revoked session is never handed out |
| SIP supervisor (`sip`, `web/sip_handlers.go`, `store/sip.go`) | child process, settings, files, status | apply, stop, child exit, restart with backoff, registration events | an apply or shutdown during a crash loop; failing files | one child; it runs the newest settings; it comes back |
| Speech runtime pool (`speech/lifecycle.go`) | runtimes per voice and speed, engines per voice, pins, warm-up generations | `Activate`, `KeepWarm`, `ReleaseKeepWarm`, `Release`, warm-up | reference counts at two levels under two locks; a warm-up that outlives its runtime | a leased engine stays open, an unused one closes, no waiting caller is forgotten |
| Baresip shim (`baresip/shim`), bridge protocol | call table, command queue, client descriptor | accept, dial, hang up, DTMF, events | event-loop and control threads, a full queue | no call used after its end, bounded queues |
| Process life cycle (`lifecycle/application.go`, `cmd/voxmail`, `web/server.go`) | worker group, admission flags | admit, cancel, drain, join | work admitted during shutdown | SQLite closes last |
| Folder policy (`folderpolicy`, `store/folder_*.go`) | policies, local directories | discovery, choice, retirement | remote renames, reuse of local names | one directory per remote folder |
| Caller access (`store/caller_access.go`) | allowed numbers, PIN failures, verification codes | check, lock, verify | concurrent calls against one counter | lockout after the limit |
| Maintenance (`maintenance`) | leases, retention | cleanup pass | cleanup against live calls | no file in use is removed |
| Speech provisioning and workers (`speech/provision.go`, `resident_worker.go`) | installed voices, worker processes, jobs | install, verify, request, restart | cancelled installs, stuck workers | verified voices only |
| Web settings, IMAP wire protocol, provider configuration, secrets, helpers, console pages | rows, or none | forms, I/O, rendering | - | - |

### 1.2 How they interact

* `alerts` calls `calls.Service.Dial` and waits for the request's `Done` value.
  `DialPromise` states this contract; `OutboundCalls` implements it, `Alerts`
  assumes no more than it.
* `calls` and the shim exchange commands and events over one Unix socket.  A
  lost connection fails every pending request and hangs up in the shim.
* `InboundCalls` takes a call to its main menu; `Navigation` begins there, with
  the same event queue and worker.  `Moves`, `MailStore` and `Submission` are
  what the handlers of those menus do to the stores and the provider.
* `calls` takes a pair of leases from the `speech` pool for a session and
  returns it when the session closes.
* Web handlers call `InvalidateUserSessions` after a PIN change or a deletion,
  `StopAccount` before an account's row goes, and `Baresip.Apply` inside the
  quiet window of `BeginSIPApply` when the SIP settings change.
* `mailsync` writes what `alerts` and `calls` read: index rows and read flags;
  `calls` queues read changes that the next run of `mailsync` carries out.
* `lifecycle.Application` cancels providers first and keeps the bridge until
  calls are drained; SQLite closes last.

## 2. Modules

Every module is one file; the definitions that model code and their source
lines are in `PROJECT.json` under "map".

| Module | Models | Extends or instantiates |
|---|---|---|
| `Alerts` | the alert service over its SQLite rows | - |
| `AlertsProofs` | theorems about `Alerts` | `Alerts`, TLAPS |
| `DialPromise` | what `Dial` promises to its caller | - |
| `OutboundCalls` | the life of an outgoing request | `DialPromise` by refinement |
| `InboundCalls` | the life of an incoming call up to the main menu | - |
| `Navigation` | the menus of a signed-in call and the tasks beside them | - |
| `NavigationProofs` | theorems about `Navigation` | `Navigation`, TLAPS |
| `Moves` | moving and deleting a message from the telephone | - |
| `CallProofs` | theorems about outgoing calls, their refinement, and moves | `OutboundCalls`, `Moves`, TLAPS |
| `MailStore` | read changes, the index and a synchronisation run | - |
| `InboundMailProofs` | theorems about incoming calls, and about the read state a caller changes | `InboundCalls`, `MailStore`, TLAPS |
| `Submission` | drafts and their submission | - |
| `SubmissionProofs` | theorems about what is sent and recorded, and about drafts and their files | `Submission`, TLAPS |
| `AccountSync` | syncs, watchers, deletion and cleanup of an account | - |
| `AccountSyncProofs` | theorems about `AccountSync` | `AccountSync`, TLAPS |
| `ConsoleAccess` | sign-in, sessions and one-use codes of the console | - |
| `ConsoleProofs` | theorems about `ConsoleAccess` | `ConsoleAccess`, TLAPS |
| `SipSupervisor` | the supervisor of the baresip child | - |
| `SpeechPool` | runtimes, engines, pins, warm-ups | - |
| `ProcessProofs` | theorems about the two things that own child processes | `SipSupervisor`, `SpeechPool`, TLAPS |
| `MC*` | constants for TLC | the module of the same name |

An action is a step between two points at which another goroutine, a crash or a
cancellation can see or change the state: usually one critical section of a
mutex, one transaction, or one channel operation, with the local computation
around it.  Two critical sections in one function are two actions whenever what
the first read is used in the second.

**Alerts.**  `round` is the loop's position and local variables: `RoundScan`
(PendingAlerts), `RoundGroup` (grouping by owner, test for a SIP domain),
`RoundCheckCooldown`, `RoundReserve` (reservePending), `RoundList`/`RoundClaim`
(ClaimAlertMessages), `RoundDial`, `RoundPersist` (SetAlertNextDial).
`call[u]` is the call the bridge accepted, `fin[u]` the `finishAlert` goroutine,
`test[u]` a "Send test alert call" request.  Ages and cooldowns are ticks that
`Tick` counts down, so there is no clock to bound.  `Stop` loses memory and
keeps SQLite.  A round visits users in any order.

**OutboundCalls.**  One variable per goroutine that can end a request: `dial`,
`expiry`, `job` (event worker), `player`, `answerTimer`, `drain`.  `pending` and
`owner` are the two holders of the right to signal `Done`.  `cmds`, `native`
and `events` are the bridge and baresip; `Break` drops what is in flight, up to
any suffix.  `KeepsPromise` is the refinement of `DialPromise`: `ret` is what
`Dial` returned, `done` the channel's value.

**InboundCalls.**  `wire` is the socket, `queue` the bounded queue of the call's
worker with `Recycle` for a full queue, `worker` the worker's position and local
copies (PIN user, PIN version), `task` the goroutine that speaks the welcome,
`timer`/`goodbye`/`hanging` the inactivity timer and what follows it.  The PIN
check reads the hash (`LookupPIN`) and marks the session in a later section
(`CheckPIN`); `ChangePIN` and `Invalidate` come between.

**Navigation.**  `screen` and `previous` are `Flow.State` and `Flow.Previous`;
`Enter` is `transitionLocked`, `PoundBack` the many variants of `#`.  A queued
key carries the screen it was pressed at as long as its stamp is fresh, `None`
afterwards: that is `navigationGeneration` without the number.  The worker takes
a key (`Take`, the check of the stamp) and handles it in a later step, so a task
may change the screen between the two, as in the code.  `recordings` and
`players` are goroutines with what they would find when they end: whether they
are still the current generation, canceled, or in the right draft.  A digit is
told apart from another only by what it leads to, and what lists contain is left
open.  The handlers other than those that start a recording or a playback are
one step each; they hold `Service.mu` around each change of state.

**Moves.**  `op` is the operation the call's worker is in: `connect` (with the
folder names), `command`, `reconcile` (the look-up of a lost answer), `local`
(file or row) and `index`; a rollback goes through the first steps backwards
(`back`).  A command succeeds, is refused, or is lost (executed or not).  `of`
in `entry` records in which folder a listed UID counts: after a move the list
keeps the old UID with the new folder, so the next move by it fails
(`ErrUIDValidityChanged`) unless both folders have one UIDVALIDITY, which the
instance excludes by giving every folder its own.  The cached connection is
`remoteConn`: `moveRemote` closes it when it returns and leaves it in the session,
"dead".

**MailStore.**  A message has a flag at the provider (`remote`), in the name of
its Maildir file (`file`), in `.mbsyncstate` (`synced`) and in index rows, one
for each path it was seen at.  The caller renames, marks and journals in three
steps under `LockMailReadState`.  The run goes through watermark, mbsync (one
message at a time, push or pull), the retry of retained changes, the scan with
its purge, reconciliation, and acknowledgement.  Reconciliation gives each
message of the provider's listing its UID and flag (`Identify`), gives every row
the UID in `.mbsyncstate` (`Hydrate`), and removes what the provider no longer
has (`Expunge`).  A journal entry carries its `id`, which is one more than the
last id in the table at the time (`NewIds`): an id is used again once its entry
went with its row, since `message_mutations.id` is an INTEGER PRIMARY KEY
without AUTOINCREMENT.  `OtherQueued` and `OtherKept` are ids of entries about
other mail, which may be queued, or there, or gone, at any time.  `reused` marks
an entry whose id the run in progress already counts as its own when it is
recorded.  `meddled` says that somebody
else changed the message after the last choice, or that the choice was cut short
by a crash or undone; `moved` that VOXMail renamed the file during the scan;
`torn` that it did so in the moment between the walk's look at the file and its
transaction (a fault of `Upsert`).

**Submission.**  A text is a composed message and its draft id; the generation
of a draft's attachments is the number of the save that made it; a save is
staging and rename (`SaveStage`), `SaveRow`, `SaveTidy`, `SaveAppend`, and a
send is `SendStart` (the journal row), `Submit`, `Record`, `Drop`, `Wipe`.
`excused` are the texts for which the code cannot know whether a second delivery
is one, `crossed` those two calls saved or sent at a time, `spoiled` those whose
clean-up failed or was cut.

**AccountSync.**  `task[s]` is one call of `syncAccountStarted` of the sweep,
a console or telephone request or a watcher; its `pc` runs through claim, begin
(insert the run, make the directories), recover (index leftovers), provider
(endpoint, discovery, configuration, check of the row), pull (mbsync), import
(index), settle, rescue (the deferred recovery) and finish.  `deletion[d]` is a
delete request in StopAccount, BeginAccountDeletion and FinalizeAccountDeletion,
`saving[v]` an edit between its check and its commit, `cleaner` the cleanup
worker.  A user deletion that listed its accounts before this one existed is
"blind": it never stops the account and its cascade still removes the row.

**ConsoleAccess.**  `work[r]` is the request a slot serves and how far it has
come; hashing and mail delivery happen between two of its steps.  The session
table, the two counters derived from it, the guard's counters, the authenticator
and its last step, backup codes and recovery tokens are one variable each.  The
clock is nondeterministic: whether a TOTP step is valid, a cooldown over or a
session expired is a choice.  `era` counts revocations, so that what a response
discloses can be compared with when it was reserved.

**SipSupervisor.**  `lifecycle` is the holder of `Baresip.lifecycle`; an Apply is
`ApplyBegin`, `Load`, `WriteConfig`, `WriteAccounts`, `StopChild`, `Awaited` and
`Start`, of the boot sequence or of a console save; `Halt` is the last Stop.
`watch[c]` is the goroutine of child `c`: waiting, `OnExit`, and the attempts of
`respawn` with the sleep and the wait for the mutex.  `Report` and
`SetRegistrationState` are the two ends of the bridge's event queue.  One port
stands for the local and the registrar port.

**SpeechPool.**  `slot` is `p.runtimes`, `pool` is `p.workers`, `act` an
activation between its critical sections, `warms` the warm-up goroutines with
the generation they belong to, `rels` a release between its last reference and
`onZero`.  `crossed` is a history variable: an activation met another one or a
teardown of the same runtime.

Every property that a run checks is a conjunction of named parts; the comments
in the modules say what each part is about.

## 3. Runs and bounds

| Run | Instance | Question |
|---|---|---|
| `AlertsFaults` | 1 user, 2 messages, 2 slots, 2 attempts, 1 crash; cancellation, failing writes, test calls, read state changing | `CallsHold`, `CooldownHolds` under every fault |
| `AlertsProgress` | 1 user, 2 messages, 1 crash, cancellation, settings and availability changing | `AnnouncedOnce`, `Settles`: what must eventually happen |
| `OutboundAll` | 1 request, 2 users, 1 lost connection, all faults | `AnswersOnce`, `KeepsPromise` (refinement), `NothingLeft` |
| `InboundAll` | 1 call, 2 users (one or both reached by the number), queue of 2, 3 keys out of "1", "2" and "#", one PIN change | `SignedIn`, `CallersKept` from admission to hang-up |
| `Navigation` | a two-level help tree, back stack of 2, 1 waiting key, 2 recordings, 2 playbacks | `BackStaysInside`, `KeyMeansItsScreen`, `CallTasks` |
| `Moves` | 3 messages (one with a UID, two with a Message-ID, one of these without UID, one without identity), 3 folders, 3 operations, 1 fault, 1 other client's move | `JournalIsTrue`, `OnlyTheChosen` |
| `MailStore` | 1 message that arrives unread, planned or retained, 2 read changes, another message's entry under id 1, both kinds of run, 1 crash, failure or change by another client | `AcknowledgedIsApplied`, `PurgeSparesUntouched`, `ChoicesSettle` |
| `Submission` | 2 calls of one user, 1 text, 2 attachments, 2 saves, 2 sends, 1 fault, 1 crash | `SentTruly`, `DraftsKept` |
| `AccountSync` | 1 sweep, 1 console and 1 phone request, 2 watchers, 1 account and 1 user deletion, 1 edit, 2 runs, 3 requests or crashes in all | `RunsHaveOwners`, `RecoversAndCleans` |
| `ConsoleAccess` | 2 requests at a time, 4 in all, 1 user beside others who fill the table, limits of 2, 1 TOTP step, 1 backup code, 2 authenticators | `AccountsBalance`, `CodesOnce` |
| `Sip` | boot, 1 console save out of 3 forms, 3 deployment overlays, shutdown, 1 child that dies, 2 failing steps, 2 restart attempts, 1 event on its way | `OneChild`, `ChildAsConfigured`, `StatusTrue`, `Recovers` |
| `SpeechPool` | 2 speeds of 1 voice, calls and a pin, 3 activations | `LeasesHonoured`, `IdleHandled` |

Each run also checks its module's `TypeOK` (`PoolTypeOK` in `SpeechPool`,
`MovesTypeOK` in `Moves`, `MailTypeOK` in `MailStore`), except `AlertsProgress`,
which shares the module of `AlertsFaults`.

Why the bounds are enough to be interesting:

* **Alerts.**  Two messages are needed for a group whose members differ in
  attempts, two slots for a test call next to an alert call.  `MaxAttempts = 2`
  reaches the cap within a run; `StaleAfter > CallTicks` is the code's relation
  (15 minutes against a call limited by ringing and playback).  One crash gives
  every crash point with a restart behind it.  A second user only adds slots.
* **OutboundCalls.**  Requests share `Service.mu` and the client but never a
  session; one request meets each fault once, in any order.  The second user
  shows that a revocation leaves other users' requests alone.  `MaxBreaks = 1`
  lets the connection be lost at every point and come back.
* **InboundCalls.**  The real queue holds more entries than two; two are enough
  for it to be full of keys when `call_established` is read, and the part
  `EstablishedKept` of `CallersKept` is about this.  Three keys are a PIN digit,
  "#" and one key typed ahead, or a choice, a digit and "#".  The inactivity
  timer fires only when the goodbye and the hang-up of an earlier firing are
  over and the wire is read: two minutes are longer than both.  The PIN is one
  digit, since entering more only repeats `TypeDigit`.
* **Navigation.**  The screens and their moves are all there; only the help tree
  is cut to two of its pages, since all pages behave alike.  The real back stack
  keeps 64 screens and drops the oldest: two let it overflow at once, the
  instance with four has been checked too, and the theorems of section 5 hold for
  any length.  Two tasks of a kind are one that is
  current and one that is not yet over.
* **Moves.**  Three operations let a message be moved, moved on and a third
  operation meet a dead connection; `MovesTypeOK` includes that the cursor stays in
  the list while messages leave it.
* **MailStore.**  Two read changes are a choice and its reversal during a run.
  Messages share nothing but the run's watermark and the journal.  One fault is
  one crash, one failing step, one change of the other client or one new plan at
  every point.  `RowIds` leaves a row for either path.  The entry of another
  message (`OtherQueued`) lets a run begin with a watermark whose entry is gone
  before the caller's choice is recorded.  A message that arrives read is the
  same with the flags exchanged, but for the row that stays read (section 6).
* **Submission.**  Two saves are a save and the save that replaces it; the
  instance with three has been checked too (11.7 million states).  Two calls are
  needed for a draft that two callers list, resume and change; `MAX_CALLS` is 10.
* **AccountSync.**  `MaxRuns = 2` lets a run have an unsuccessful run before it;
  two watchers are one that ends and one that replaced it (symmetric);
  `MaxEvents` counts refresh, delete and edit requests and crashes: three of them
  give, among others, delete and edit and crash, or a refresh meeting both
  deletions.  Sweeps, IDLE notifications, reconciliations and cleanup passes are
  not counted.
* **ConsoleAccess.**  Two slots make every pair of requests overlap; the limits
  of two are reached by them, and `others` takes places of the table that are
  not the user's.  Four requests are, for example, two recovery codes asked for
  and presented, or a sign-in around a password change.
* **SipSupervisor.**  One save is an Apply that meets the boot's, a crash, the
  restart it causes and the shutdown.  Two forms differ in every field, the
  second keeps the stored password, the third disables; the overlays force
  calls on with other fields, take the service offline, or do nothing.  Two
  saves have been checked for the safety properties (9.2 million states).
* **SpeechPool.**  Two keys of one voice are needed for runtimes that share an
  engine, three activations for a third that meets a teardown and a rebuild.  No
  activation starts after a crossed one: the properties speak of uncrossed
  histories (section 6 has the shortest crossed one).

`CHECK_DEADLOCK FALSE` is set where the model may rightly stop: in
`OutboundCalls` when the only request is settled and the process has drained, in
`InboundCalls` and `Navigation` when the call is over, in `Sip` after the
shutdown, and in `SpeechPool`, `AccountSync`, `Moves`, `Submission` and
`ConsoleAccess` when the bounds allow nothing more.  `Alerts` and `MailStore`
never stop and are checked for deadlock.

What the runs show, by hazard:

* *Crashes.*  `CallsHold`: the attempt is counted in the claim's transaction, so
  no crash gives a free dial.  `Settles`: no claim stays behind.
  `RecoversAndCleans`: what a killed `mbsync` left in the Maildir is indexed
  before the provider is asked again.  `SentTruly`: the journal row written
  before the submission never turns into the opposite of what the server did.
  `DraftsKept`: the rename comes before the row and the removal after it, so a
  draft names existing files wherever a save stops.
* *Goroutines that end the same thing.*  `AnswersOnce`, `KeepsPromise`: nine ways
  to settle a request, one value on `Done`.  `RunsHaveOwners`: cancelled, failed
  and deleted syncs close their run before they release the account.  `OneChild`:
  Apply, Stop and a restart that waited never leave two children.
* *Values used after a lock was left.*  `SignedIn`, `LeasesHonoured`,
  `NothingLeft`, `KeyMeansItsScreen`, `CallTasks`, `CodesOnce`,
  `ChildAsConfigured`.
* *Lost answers and retries.*  `JournalIsTrue`, `OnlyTheChosen`, `ChoicesSettle`,
  `AcknowledgedIsApplied`, and `SentTruly` again.
* *Limits.*  `CallsHold`, `CallersKept`, `AccountsBalance`, `BackStaysInside`.
* *What must happen.*  `Settles`, `NothingLeft`, `ChoicesSettle`, `Recovers`, and
  as invariants the parts `NeverForgotten` of `CallersKept`, `WarmupOwed` of
  `IdleHandled` and `WaitsForLiveJob` of `RunsHaveOwners`: whoever waits has
  somebody who will answer.

## 4. Fairness

Four modules have liveness properties.

* `Alerts!Fairness`: the loop of `Run` returns to `PendingAlerts` after each
  interval (weak fairness of the round); calls have bounded ringing and
  playback, and store writes have a cleanup context with a deadline (weak
  fairness of the outcome); a cancelled process exits and is restarted.  Strong
  fairness is used where the code tries again and again: a group is formed, a
  user's cooldown is looked at, a claim and a dial do not fail for ever although
  they may fail any number of times; and for `Tick`, since time passes between
  two rounds.  Nothing is assumed of messages being read, settings or tests.
* `OutboundCalls!Fairness`: goroutines run, timers fire, the shim executes its
  commands, `Run` reconnects, `Drain` ends the connection.  Nothing is assumed
  of the far end: a subscriber may never answer or never hang up.
* `MailStore!MailFairness`: the caller's handler and the run go on (IMAP commands and
  mbsync have deadlines), the sweep starts runs of each kind again and again
  (strong, since a run in progress disables the start), and the alignment of a
  confirmed read gets the lock that callers take for short sections (strong: Go's
  mutex does not starve).  Nothing is assumed of the caller or the other client.
  `ChoicesSettle` has as its premise that in the end the message's directory is
  in the plan or the message has a UID; a retained message without one cannot be
  named to the provider.
* `SipSupervisor!Fairness`: whoever holds or awaits the lifecycle mutex goes on,
  timers fire, and a child that was told to end does so or is killed after five
  seconds.  Nothing is assumed of children reporting or dying.

## 5. Proofs

`AlertsProofs`, `CallProofs`, `InboundMailProofs`, `NavigationProofs`,
`SubmissionProofs`, `AccountSyncProofs`, `ConsoleProofs` and `ProcessProofs` hold
theorems checked by TLAPS for every value of the constants.  They rest on the
assumptions the modules name, which TLC evaluates in the runs:

* `AlertsAssumption` (positive limits, finite sets, an owner per message,
  `CallTicks < StaleAfter`);
* `OutboundAssumption` (finitely many requests, a user for each) and
  `InboundAssumption` (some user, a queue of at least one place);
* `NavigationAssumption` and `HelpAssumption` (positive limits; every help page
  leads back to another or to the information menu and is no menu itself, as
  `helpPages` has it);
* `MovesAssumption` (the mapped folders exist, the messages are finitely many);
* `MailStoreAssumption` (the two kinds of run, natural bounds and ids) and `NoneApart`
  (`None` is no flag, no row and nothing a run has at hand) of `MailStore`;
* `BoundsAssumption` of `Submission` and of `AccountSync` (the bounds are
  naturals) and `SyncersAssumption` (the kinds of syncers are disjoint, none is
  `None`);
* `LimitsAssumption` (a user may have one session, the authenticator may change
  once) and `KeysAssumption` (the network source is no user) of `ConsoleAccess`;
* `BoundsAssumption`, `PhasesAssumption` (the four phases of the shim's
  registration events) and `ActorsAssumption` (a save is neither the boot nor the
  shutdown) of `SipSupervisor`;
* `SpeechAssumption` (some runtime, a voice for each, the activators are calls and
  the console's pin).

**Alerts.**

* `TypeCorrect`: `TypeOK`.
* `AttemptsBounded`: `AttemptCap`.  The count of attempts alone does not say how
  many calls were placed; `AttemptInv` adds that the dials of a message never
  exceed its attempts, and are strictly fewer while a round that claimed it is
  about to dial.  So the attempt is durable before the dial, and a crash between
  the two costs an attempt, never a call above the cap.
* `OneCallPerUser`, `SlotsBounded`, `ClaimsHeld`: `OneAlertCallPerUser`,
  `SlotHeld`, `LiveCallHoldsClaim`.  `SafeInv` has three parts.  `Slots`: outside
  shutdown the round, one `finishAlert` goroutine or one test call holds a user's
  slot, never two of them, and a call without a recorded outcome has a holder;
  without the clause about tests, a test that gives its slot back could free the
  slot of an alert call.  `Slotted`: `reservePending` refuses above
  `MaxConcurrent`.  `Claims`: the messages of a live call, and of a round about to
  dial, belong to the user called, are claimed, and their claims are younger than
  the sweep's cutoff; owners keep the settlement of one call away from the claims
  of another.  `ClaimsHeld` uses that a call lasts at most `CallTicks` (the guard
  of `Tick`) and `CallTicks < StaleAfter`.
* `CallsAreHeld`: their conjunction `CallsHold`.
* `CooldownKept`: `CooldownHolds`.  `Cooling` says who knows of the last dial of a
  user: a deadline that was written covers the time since it, and while the process
  runs, memory or SQLite does, except between the dial and the end of
  persistCooldown; the round gets to its dial only with a user who has cooled down.
* `HeardIsRecorded`: `AnnouncedOnce`, under the hypothesis `"store" \notin Faults`
  of the run `AlertsProgress`: when the write that marks messages notified fails,
  the stale-claim sweep may announce them again, as the code accepts.  `Once` says
  that who may still be heard was not heard in this life of the process, and that
  what was heard is marked or about to be, under a claim that the sweep spares
  until then.

**OutboundCalls.**  A request can be ended by nine goroutines; every step is shown
to do one of three things with the right to signal `Done` (lemma `Effects`): it
keeps it, settles the request with it, or is the dial that creates it.

* `TypeCorrect`: `TypeOK`.
* `DialsAnswerOnce`: `AnswersOnce`.  `Rights`: the right is held by one of `pending`
  and `owner`, by neither before Dial has registered the request, and only its use
  ends it.  `PlacedOnce`: a dial command is executed once, after Dial has written
  it.  `AnsweredOnce`: the `call_established` of a call exists once, on its way or
  handled, and before the player.
* `PendingIsTimed`: `PendingExpires`, the safety part of `NothingLeft`, by `Timed`: tasks are
  refused only after the worker context has ended, and then Dial fails.
* `DialsImplementThePromise`: initial states map to initial states of
  `DialPromise` and every step maps to a step or a stutter.  The fairness of
  `DialPromise`, the other half of `KeepsPromise`, stays with TLC.

**Moves.**  `MoveInv` is an invariant of the list (`InList`), of the UIDs
(`OwnUID`: the UID a message was listed with is no other message's in the folder
listed, because new UIDs come from UIDNEXT), and of what an operation knows at each
of its steps (`Knows`: nothing was sent before the command and after a refusal, a
look-up by UID is in the folder listed, the file is only touched after the copy has
left).  Provider, files and list meet in the operation alone, so this is enough.

* `MovesTypeCorrect`: `MovesTypeOK`.
* `MovesOnlyTheChosen`, `JournalTellsTheTruth`: `OnlyTheChosen` and `JournalIsTrue`,
  under the hypothesis `OwnValidity`: the listed folder's UIDVALIDITY differs from
  those of the others.  Without it both are false (section 6, *Moves*).

**InboundCalls.**  Calls share nothing but the PINs, so the invariant is stated for
one call and kept by the steps of the others (`OtherCalls`).

* `TypeCorrect`: `TypeOK`.  `Counted`: failed attempts, queued keys and the key in
  hand are keys that were pressed.
* `SignedInHolds`: `SignedIn`.  `Signed`: the PIN a check has read is in force, or a
  change of it is about to end the user's calls, or the call is over.  `Stamped`: a
  key in the queue carries the generation of the menu it was pressed in, which is
  over when it was pressed before the caller signed in.
* `CallersKeptHolds`: `CallersKept`.  `First`: an admission finds a new call.
  `Ended`: nobody hears of an end before it.  `Alive`, with `Watched`: an answered
  call has a timer, a prompt with its player, or a hang-up on its way.  `Kept`: its
  `call_established` is in the wire, the queue or the worker's hand.  `Leased`: a
  session that chose no account knows the leases it took.

**MailStore.**  `MailInv` is `MailTypeOK /\ Working /\ Scanned`; one lemma per action
shows that it keeps the first two.  `AckInv` adds `Faithful`, again with one lemma
per action.

* `MailTypeCorrect`: `MailTypeOK`.  Its hard part is `Keyed`, ids are a key: rows are
  re-homed by path while other steps find them by id, and an id is used again once
  its row is gone (`MailRehomed`, `MailUpsertRows`, `MailKept`).  `Working` ties the
  run's list and item to its step and to the journal: an entry that was listed for
  a retry is still there when the retry is confirmed.
* `MailPurgeCorrect`: `PurgeSparesUntouched`.  `Scanned`: of a message VOXMail has
  not renamed since the scan began, the walk has found the file unchanged, has
  indexed it under an id it remembers, holds it as the item to index, or is still
  to visit it; and a caller in the middle of a change has its message among the
  renamed, whether the change or the scan began first.
* `MailAcknowledgedCorrect`: `AcknowledgedIsApplied`, for any number of messages,
  read changes, crashes, failures and changes by the other client.  The property
  looks at journal and provider; between them are the file, what mbsync last saw,
  the rows, and the run's watermark, plan, list and item.  `Told` follows the newest
  choice `Newest` of a message that nobody else touches (`Steady`) as long as a row
  stands for it: its flag is in the file's name; the provider has it, or still what
  mbsync last saw, so that mbsync will push and not pull; and once the run has
  `Carried` it - mbsync is past the message and the choice is under the watermark,
  or a retry has it at hand - the provider has it.  So whatever is acknowledged was
  carried.  This needs that an older choice never reaches the provider after a newer
  one, which rests on `Single` (a message has one row, so a retry finds the newest
  choice and no cascade takes it alone), `Owned` (a live choice has a row of its
  message) and `Behind`, which has three parts: what is retried is of its message
  and an expunged message is gone (`Listed`); an entry that is there has a smaller
  id than every later one, although ids are used again (`Ordered`); and the entries
  the run retries or has confirmed are below every later one that is not `reused`,
  even when their rows have gone meanwhile (`Marked`).  For the entries that are
  `reused` the claim is false, and the property leaves them out (section 6, *Mail*).
  `Ages` is what every step but recording a choice does to the journal.

**AccountSync.**  The interleaving of thirty actions is reduced to nine *forms* a
step can have as seen by the ownership of the account (`Still`, `Asks`, `Gives`,
`Takes`, `Aborts`, `Inserts`, `Moves`, `Releases`, `Resets`); lemma `Forms` shows
that every step of `Next` has one of them, and the invariants are proved over
the forms.

* `TypeCorrect`: `TypeOK`.
* `OneSync`, `RunsOwned`, `WaitersAnswered`: `OneSyncAtATime`, `OpenRunOwned`,
  `WaitsForLiveJob`.  Their conjunction is not inductive.  `OwnInv` adds
  `OwnerWorks` (the recorded owner is past admission: a released account names
  nobody) and `RunlessBefore` (a sync names no run before it has inserted one; a
  stale number would let it claim another sync's open run).
* `RemovedQuiet`: `RemovedIsQuiet`.  `QuietInv` adds `MarkHeld` (whoever is past
  `StopAccount` has left the mark, and whoever finalises has seen no sync in
  flight), `GoneIsEmpty` (the cascade took the runs, so no watcher, whose start
  needs a run, begins a sync) and that with the row gone either the mark stands
  or nobody is left who could ask: a restart forgets the mark and the requests
  together.
* `NoStray`: `NoStrayWatcher`, inductive together with the types.
* `RunsAreOwned`: their conjunction `RunsHaveOwners`.
* `RecoversAndCleansHolds`: `RecoversAndCleans`, on top of `QuietInv`.  `CleanInv`:
  once a row in deletion is gone, or came back by an edit, and a request still
  deletes, the account is marked and no sync runs (`MarkedAfter`, `Entered`); a row in deletion has a pending job, and not the one
  the cleaner works on, which is no newer (`JobWaits`, `JobOrder`); after the job
  there are no files (`CleanAfter`); who could still write is gone, refused or
  not there while the cleaner works (`OwnerGone`, `EditsMarked`, `CleansAlone`).
  `MailInv`: a sync past its begin has the latest run, and it is open (`OwnRun`);
  from the second run on, what was in the Maildir is indexed before the provider is
  asked (`Lined`), and when a run ends well (`Imported`, `Okay`, `LastGood`).

**Navigation.**  The run has a history of two screens, one waiting key and two
tasks of each kind; the theorems hold for the code's 64 screens and 32 keys, for
its whole help tree, and for any number of tasks that still end.

* `TypeCorrect`: `TypeOK`.  `Walks`: the history gains one screen at its newest end,
  with the oldest dropped at the limit, or loses one there; `Fields` are the queue
  and the flags that no other invariant is about.
* `KeysKeepTheirMeaning`: `KeyMeansItsScreen`.  `Stamped` is inductive because
  every step either leaves screen and queue alone or makes all stamps stale
  (`KeysPass`, `TasksPass`).
* `NoWayBehindMain`: `BackStaysInside`.  What may not be shown again (the PIN
  prompt, the form of a message that is gone) may well stand in the history, so
  the property is not inductive.  `Walled` says that it lies behind a later main
  menu, which pound reaches first and never pops.  Cutting the history drops the
  oldest screens and so keeps the walls (`EnterPath`); popping removes a wall only
  by standing on it (`PopPath`); on an empty history the specification's own way
  back, or its handler's where the specification names none, leads from a draft's
  screens only to such, and from others never to one (`LeavesBack`). `Asking`,
  `Asked` and `Held` say where a value to confirm, an open question and a
  recording about to start can be.
* `TasksBelongToTheirScreen`: `CallTasks`.  `Owned` and `Played` add to it that a
  superseded task was also told to stop, that at most one recording is current
  and at most one playback the newest, so that the end of another never removes
  the function that stops it; `Ready` that a recording's stop is registered
  before its task starts.  Away from the tasks' own screens nobody is recorded
  (`GivenUp`), which is why the other nineteen keys need not look at them.

**Submission.**

* `SubmissionsTellTheTruth`: `SentTruly`.  `SInv` adds what makes its parts
  inductive.  `Attempts`: an attempt under way has a journal entry of its own,
  still pending, and its handler knows a result only after the server does; this
  carries `JournalHonest`.  `Own`: a draft that was never saved is held by one
  call and listed by none, has no row and no copy, until the end of its first
  save; this carries `AppendedOnce`.  `Settled`, on which `SentOnce` rests: after
  a message was taken only the call that sent it may hold its draft, nobody lists
  it, and while its row is there that call is on its way to delete it.  The texts
  in `excused` are those for which the code cannot have this; they are named at
  the step where it gives them up.  Steps that only go on with or end a
  handler share the lemmas about `Shrinks`.
* `SubmissionTypesHold`: `TypeOK`, from `SInv` with `Bounded` and `Itemed`.  That
  what can be read of a draft is again a sequence of attachments (`ReadableItems`)
  needs that for each k up to their number a k-th readable one exists (`KthKept`);
  `Readable` says it by positions and not with `SelectSeq`, a recursive operator
  nothing can be proved about here.
* `DraftsStayWhole`: `DraftsKept`, on top of `SInv`.  `Numbered`: a save on its
  way to its row has a number no row has, and until it has put down its files no
  file has, so that taking back a generation takes nothing a row names.  `Solo`:
  a text that is not crossed is in the hands of one handler.  `Whole` and `Lean`
  say which files there are while that handler is between two of its steps: the
  old and the new generation before the row is written, older ones after it,
  any once the row is deleted.  `Listed`: only a message that was taken has its
  row deleted.  Most steps are aside of rows and files (`AsideStays`); the rest
  change those of one text (`WholeStep`, `LeanStep`).

**ConsoleAccess.**  `CInv` is `Core /\ Sessions /\ Guard /\ Codes`.  Every step
begins a request in a free slot, moves one on, ends one, or leaves the slots
alone (`Begins`, `Goes`, `Ends`), and the parts are proved over these forms.

* `TypeCorrect`: `TypeOK`.
* `AccountsBalanceHolds`: `AccountsBalance`.  `Sessions`: requests have numbers of
  their own (`Apart`); a session belongs to one, which is over or holds its place
  (`Placed`), and is disclosed by its last step (`Closed`); the per-user counter is
  the number of the user's sessions (`Counted`), and none is without a request that
  serves it or disclosed it (`Owned`).  `Guard`: the counters of the login guard are
  the cardinalities of the logins in progress, by key (`LoginsOf`), so they return
  to zero when nobody signs in.
* `CodesOnceHolds`: `CodesOnce`.  `SpentOnce`: a code that opened a session is dead
  (`Dead`): its authenticator is gone, its step is not new, its backup code or its
  recovery code is used.  `Spendings`: who used a code up has its place in the
  session table, got the session, lost it to a revocation, or was refused, with a
  recovery code only and without a session then or later.  `Numbered`:
  authenticators are numbered, so that an old one is never the present one.

**SipSupervisor.**

* `TypeCorrect`: `TypeOK`.  `Counted`: a generation is begun for each save, the
  boot and the shutdown at most.
* `OneChildLives`: `OneChild`.  That a start finds no other child alive follows
  from where the holder of the lifecycle mutex is, so `Inv` adds: whoever is
  inside Apply or Stop holds the mutex (`Exclusive`); the goroutine of a tracked
  child still waits for it (`Tracked`), so the child that ends is the tracked one
  and nobody else clears it; during the wait of `stop` no other child is tracked
  than the one waited for, and none after it (`Waited`, `Stopped`); and the
  shutdown begins with the end of the runtime context, so that a restart that
  still waits for the mutex gives up (`Ended`).  The steps share
  three lemmas by what they do to the mutex (`OutsideStep`, `InsideStep`,
  `EnterStep`).  The number of saves, crashes, faults and
  attempts does not enter.
* `ChildIsAsConfigured`: `ChildAsConfigured`.  The children of a generation start
  only after its Apply has written both files (`Born`, `Inside`, `Written`), and
  nobody else writes them while it lasts, so what is on disk is what any of them
  reads (`UpToDate`) or has read (`AsRead`).  `Fresh`, `Newest` and `Offline` relate
  this to the stored row and the overlay: unless a step failed, the supervisor has
  loaded what is stored, and the child is the newest Apply's.
* `StatusIsTrue`: `StatusTrue`.  `Shown`: events are read in order, so what the
  newest child has reported is the last event in the pipe, or is shown.

**SpeechPool.**  The steps are classified first (`EveryForm`): one form per branch
of a critical section, with the equations of the variables it changes.

* `PoolTypeCorrect`: `PoolTypeOK`.  `PoolCounted`, which holds whatever crossed,
  says that what is named was made (`Made`, `Built`), that a slot has a runtime of
  its key (`Wired`), that every reference is a call's, the pin's or one about to be
  (`Leases`), that one activation makes a runtime (`Making`), and that a share
  counter is the number of its holders.  `Budget` derives the bounds: an activation
  makes one runtime and two engines at most.
* `LeasesHonouredHolds`, `IdleHandledHolds`: `LeasesHonoured` and `IdleHandled`.
  Both speak of histories in which no activation met another one or a teardown
  of its runtime (`crossed`; section 6 says why).  For these `Uncrossed` holds: a
  runtime is made, used, torn down and never taken up again, so it has one warm-up,
  one teardown and one engine (`Lives`); a runtime that will give a share back is in
  its slot, and shared engines are open (`Sharing`, `Lent`); an engine of a
  runtime's own is nobody else's (`Apart`, `Open`); where the warm-up is and what it
  holds (`Warming`, `Kept`); who waits for speech has a warm-up (`Answered`); and
  every engine is closed, shared or owned (`Accounted`).

Every invariant and every action property that a run checks is a theorem.  Left to
TLC are liveness and what needs ENABLED: `Settles`, `NothingLeft`, `ChoicesSettle`,
`Recovers` and the fairness half of `KeepsPromise`.

## 6. Where code and documents disagree

Modelling the code showed the following.  Where a definition states what a
document or comment says, its comment in the module refers to this section; it
is no property of any run, since the code does not keep it.  Adding it to the
configuration named makes TLC print the behaviour.

| Definition (configuration) | What the code does | What it says |
|---|---|---|
| `CanceledIsRecorded` (`AlertsProgress`) | a cancelled `finishAlert` returns; a call that then completes is never marked, and is announced again after the stale-claim sweep | `alerts.go:298-299`: "the outcome callback still marks them notified if the call completes" |
| `HeardIsTrue` (`OutboundAll`) | a hang-up on the last word, read between the end of playback and `notifyAlert`, reports false | `lifecycle.go:225-230` describes this window as closed |
| `QuietApply` (`OutboundAll`) | `Dial` checks `sipApplying` and registers in a later section; `startOutgoing` does not look | `lifecycle.go:307-309`: new admissions are refused in the quiet window |
| `EnginesUnload` (`SpeechPool`) | an activation that meets a teardown of its runtime leaves an engine nobody closes | `docs/ARCHITECTURE.md:117-118, 131`: voices unload when the last call ends |
| `LeasesReturned` (`InboundAll`) | choosing an account overwrites the leases of the admission | `docs/ARCHITECTURE.md:117-118` |
| `InitialFirst` (`AccountSync`) | a manual refresh before the first sweep makes the initial run, and its cutoff, impossible | `idle.go:236-238`: the sweep owns the first run |
| `PurgeTakesDeadRows` (`MailStore`) | a toggle that renames a file between the walk and the purge loses the row of a live message, and with it its queued choice | `index.go:172-173`: "removes index rows whose maildir file no longer exists" |
| `ChangesRemainPending` (`MailStore`) | the choice recorded while a run is in progress can get an id at or below the run's watermark, when the entry that had it went with its row; that run acknowledges the choice although mbsync had passed the message | `mail.go:1096`: "Changes made while it runs must remain pending for the following run" |
| `RollbackRestores` (`Moves`) | `moveRemote` closes the connection it leaves cached, so the rollback is tried on a closed connection and always fails, as does every second operation of a call | `mail_mutations.go:14-20`: "Callers must not close the returned client" |
| `AlwaysOnAScreen` (`Navigation`) | pound can pop onto `field_confirm` with nothing to confirm, and the next pound there leads to the empty state | `docs/IVR.md:23`: pound backs out one level |
| `RemovalAskedHere` (`Navigation` with `HistoryLimit = 5`, one recording, no playback) | pound leads back to `attachment_edit` with the removal of an earlier visit still pending | `ivr/help.go`: "Removing asks for a second press of 2" |

Smaller ones, seen while modelling:

* *Navigation.*  `contact_pick` and `recipient_pick` ignore pound (`docs/IVR.md`
  line 103 offers it); after a deletion `confirm_delete` is below the list, so
  pound from there does not return to the folder (`docs/IVR.md:51`); an empty
  subject or body cannot be accepted; `EditingDraft` is not reset when the draft
  is sent; two attachment playbacks can overlap for a moment.
* *Submission.*  Two calls of one user that save one draft at the same time remove
  each other's attachment generation before the commit: the row then names
  missing files (`crossed`).  `SaveDraft` restores a draft another call deleted.
  That no second remote copy is made (`docs/IVR.md:129`, `docs/WEB-CONSOLE.md:121`)
  holds: part `AppendedOnce` of `SentTruly`.  `pending` rows of the submission
  journal are kept (`docs/OPERATIONS.md:314`) and read by nobody after a crash.
* *Mail.*  `record` looks for the file (os.Stat) before its transaction.  A toggle
  that renames the file in between gives the message a second row
  (`UpsertMailIndex` inserts one for the old name).  The choices queued for the two
  rows then go separate ways: if the caller toggles again through the second row
  while a run retries a choice of the first, the older choice can reach the provider
  after the newest, which is acknowledged all the same.  It takes three toggles,
  while the run has two; the history variable `torn` marks such messages and
  `AcknowledgedIsApplied` leaves them out.  A second history is left out, marked
  by `reused`: a run starts with watermark 1, the id of a queued choice for some
  mail; mbsync passes a message; the row of that mail is deleted (moved or deleted
  by its caller, purged, or expunged), and its entry with it; a caller marks the
  message read, and the choice is recorded under id 1; the run acknowledges it.
  The provider never hears of the choice, and the next run, which finds nothing
  queued, takes the provider's flag.  TLC finds this in fourteen states, without
  any fault, when `~newest.reused` is taken out of the property.  Of all other
  histories the property is proved.  A read flag set by a caller stays
  in the row after the provider clears it, until the next reconciliation.  An
  undone rename gives the file its older name, which mbsync pushes.
* *Moves.*  On a server that gives folders equal UIDVALIDITY values a stale UID
  could name another message, since the list keeps the UID of the old folder.
* *SIP.*  The quiet window is a boolean: of two overlapping saves the first
  release reopens admission while the second still restarts
  (`lifecycle.go:307-309`).  A failed Apply leaves the old child running
  unsupervised, and nobody retries; an initial start that fails is not retried
  either; a settings row that cannot be read disables SIP without an error;
  `UpsertSIP` keeps the stored password by reading it before it writes, so a
  password saved at the same time can be lost (`store/sip.go:49-71`).
* *Console.*  A one-use code is consumed before the session is committed.  If the
  user's sessions are revoked in between, the code is gone; so is a recovery code
  whose user turns out to be disabled (`recovery.go:201-206`) or cannot be read
  after the redemption (`auth_handlers.go:448-452`).  `CodesOnce` says that these
  are all the ways to lose one: a code is used up by a request that still serves
  its place, got its session, or lost it to a revocation, or, in the second case,
  by a request that was refused, for which no session is there, then or later.
  "A failed delivery must not leave a valid recovery token behind"
  (`auth_handlers.go:351`), yet an error of the invalidation is ignored
  (lines 226-230) and leaves it valid for its ten minutes.
* *Accounts.*  An ended IDLE watcher cancels its successor (`idle.go:186`; a
  reconnection is lost, not the mail); `deleteUser` stops its accounts before
  their rows change, so an abandoned request leaves them refused until a restart
  (`service.go:441`); an edit that commits after the row is gone inserts the
  account again (`accounts.go:131`); an account saved after `deleteUser` listed
  them is removed without being stopped (`user_handlers.go:107`).

## 7. Not modelled

Parts with little state of their own (IMAP wire protocol, MIME parsing, mbsync
and baresip configuration texts, address checks, encryption, text
normalisation, WAV handling, logging, console pages) are left out: their answers
appear as nondeterministic outcomes.  Parts with state that have no module:
the shim's threads and command queue, folder discovery and directory
allocation, the PIN lockout and the verification codes of the store, speech
installation and the worker's request protocol, maintenance, first setup and
user administration, and the order in which `Application` joins its workers.
`PROJECT.json` names the reason for each component.

In the modelled parts the following is abstracted:

* message contents, telephone numbers, prompts, folder mappings in a sync, the
  Whisper half of a warm-up, the encoding of bridge frames;
* `Navigation`: digits by what they lead to; what lists and queries contain;
  whether an account is chosen, so that pound on the list without a history leads
  to the main menu or the folders (`Returns`);
  hang-up cancels everything at once;
* `MailStore`: a message keeps its folder; after a crash the recovery scan is a
  run of its own, where the code continues with the next run; entries of the
  journal leave with their row only, not by age (`PruneHistory` removes settled
  ones, `maintenance.go:73`); a file `Hydrate` cannot read keeps its row as it is
  in the code, which is a row without UID here;
* `Moves`: what a hang-up cancels is the connection; the handler goes on with the
  stores, as in the code;
* `Submission`: a text is composed once; a `SaveDraft` that reports an error did
  not commit; staging directories are part of the rename; a hang-up during a
  handler is one right after it, since handlers run under the service's context;
* `ConsoleAccess`: one host; windows that only refuse (the global login window,
  the number of tracked sources) are steps without effect; the two deferred calls
  at the end of a handler are one step; a code is only compared with others of the
  authenticator still installed; whether a user is enabled, a column the program sets
  when it creates the user only, is an outcome of each look;
* `SipSupervisor`: error texts, the bounded log, the length of the restart delay;
  a child reads its files when it starts; the bridge reads every event that was
  sent while it was connected.

## 8. Plan

Next modules, in order:

1. `ShimQueue`: bounded command queue, event-loop thread, owner of the client
   descriptor, DTMF guard.  Each accepted command is executed or refused once.
2. `Shutdown`: `Application`, web admission, maintenance leases, `Drain`,
   composed with the promise of `OutboundCalls`.  SQLite closes last; no worker
   escapes the join.
3. `CallerAccess`: PIN lockout and verification windows under concurrent calls.
4. `FolderPolicy` (discovery, one directory per remote folder), `Provisioning`,
   `ResidentWorker`.

Every safety property checked so far is a theorem; the next ones to prove are those
of these modules, and `MailStore` with moves between folders (now in `Moves`).
