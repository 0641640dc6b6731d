----------------------------- MODULE AccountSync -----------------------------
(***************************************************************************)
(* One mail account from creation to removal: who synchronises it, which   *)
(* IDLE watcher belongs to it, and how it is deleted.                       *)
(*                                                                         *)
(* Every map of mailsync.Service and of idleWatcher is keyed by account,    *)
(* so one account is modelled.  Its synchronisations come from the sweep   *)
(* (SyncAll and SyncDue run one after the other), from the console         *)
(* (StartRefreshAccount), from the telephone (RefreshAccount) and from the *)
(* IDLE watchers; they contend for its ownership in syncAccountStarted.    *)
(* A sync is a sequence of steps, each up to a point where a cancellation,  *)
(* a deletion or a crash can be observed.                                  *)
(*                                                                         *)
(* Abstracted: mail is counted and all at the provider from the start, the  *)
(* clock lets any interval or backoff pass or not, folder mappings and     *)
(* read flags are left out, a database read the module does not name       *)
(* succeeds.  The run limits of the semaphore and of the manual slots are  *)
(* the sizes of the sets of requests.                                      *)
(***************************************************************************)
EXTENDS Naturals, Sequences, FiniteSets, FiniteSetsExt

CONSTANTS
  Sweep,          \* the scheduler's goroutine for this account
  Console,        \* refresh requests of the web console
  Phone,          \* refresh requests of telephone callers
  Watchers,       \* watcher goroutines alive at one time
  AccountDeletes, \* requests to delete the account
  UserDeletes,    \* requests to delete the account's owner
  Saves,          \* requests to save an existing account
  None,
  MaxRuns,        \* bound: rows of sync_runs
  MaxVersion,     \* bound: config_version
  MaxMail,        \* messages at the provider
  MaxJobs,        \* bound: cleanup jobs
  MaxEvents       \* bound: refresh, delete and save requests and crashes, together

Requests == Console \cup Phone
Syncers == {Sweep} \cup Requests \cup Watchers
Deletes == AccountDeletes \cup UserDeletes

ASSUME BoundsAssumption == /\ MaxRuns \in Nat /\ MaxVersion \in Nat \ {0}
                           /\ MaxMail \in Nat /\ MaxJobs \in Nat /\ MaxEvents \in Nat
ASSUME SyncersAssumption == /\ None \notin Syncers
                            /\ Sweep \notin Requests \cup Watchers
                            /\ Console \cap Phone = {} /\ Requests \cap Watchers = {}
                            /\ AccountDeletes \cap UserDeletes = {}

VARIABLES
  \* SQLite
  row,        \* the accounts row: "absent", "live", "deleting" or "gone"
  version,    \* its config_version
  userGone,   \* the owner's row is deleted
  job,        \* the account's latest cleanup job: number and status
  runs,       \* its sync_runs, oldest first
  \* disk, index and provider
  files,      \* its directories exist
  mail,       \* messages in the Maildir and in the index
  \* memory
  active,     \* owner: busy, activeCancel, activeKind and activeDone
  stopping,   \* Service.deleting
  task,       \* each syncer's call of syncAccountStarted
  watch,      \* each watcher goroutine: "free", "watching" or "cancelled"
  registered, \* idleWatcher.states of the account
  answer,     \* what a console refresh was told
  deletion,   \* each delete request
  saving,     \* each save request
  cleaner,    \* the cleanup worker
  events

store  == <<row, version, userGone, job, runs>>
disk   == <<files, mail>>
sync   == <<active, stopping, task, answer>>
idle   == <<watch, registered>>
others == <<deletion, saving, cleaner, events>>
vars   == <<store, disk, sync, idle, others>>

Kinds == {"initial", "incremental", "reconciliation", "manual"}
\* The steps of a sync that owns the account, in order.
Owning == {"begin", "recover", "provider", "pull", "import", "settle", "rescue", "finish"}

NoTask == [pc |-> "idle", kind |-> "incremental", version |-> 0,
           cancelled |-> FALSE, run |-> 0, ok |-> FALSE]

Init ==
  /\ row \in {"absent", "live"} /\ version = 1 /\ userGone = FALSE
  /\ job = [id |-> 0, state |-> "none"] /\ runs = <<>>
  /\ files = FALSE /\ mail = [local |-> 0, indexed |-> 0]
  /\ active = None /\ stopping = FALSE
  /\ task = [s \in Syncers |-> NoTask]
  /\ watch = [w \in Watchers |-> "free"] /\ registered = None
  /\ answer = [r \in Console |-> "none"]
  /\ deletion = [d \in Deletes |-> "new"]
  /\ saving = [v \in Saves |-> [pc |-> "idle", version |-> 0]]
  /\ cleaner = [pc |-> "idle", id |-> 0] /\ events = 0

------------------------------------------------------------------------------
(* Who asks for a synchronisation. *)

Event == events < MaxEvents /\ events' = events + 1

Succeeded == {i \in DOMAIN runs : runs[i].state = "success"}
RoomForRun ==
  Len(runs) + Cardinality({s \in Syncers : task[s].pc \in {"claim", "begin"}}) < MaxRuns

\* nextKind.  Without a successful full run, or once the interval is over, the
\* sweep reconciles.
NextKinds ==
  IF Succeeded = {} THEN {"initial"}
  ELSE IF runs[Max(Succeeded)].kind = "initial" THEN {"incremental"}
  ELSE {"reconciliation"}
         \cup {k \in {"incremental"} : \E i \in Succeeded : runs[i].kind # "incremental"}

\* SyncAll, SyncDue: the accounts are listed; this one waits for its turn, and
\* its kind is chosen when the turn comes.
SweepLists ==
  /\ task[Sweep].pc = "idle" /\ row = "live" /\ RoomForRun
  /\ task' = [task EXCEPT ![Sweep] = [NoTask EXCEPT !.pc = "claim", !.version = version]]
  /\ UNCHANGED <<store, disk, active, stopping, answer, idle, others>>

\* StartRefreshAccount (console) and RefreshAccount (telephone).
Refresh(r) ==
  /\ task[r].pc = "idle" /\ row = "live" /\ RoomForRun
  /\ r \in Console => answer[r] = "none"
  /\ task' = [task EXCEPT ![r] = [NoTask EXCEPT !.pc = "claim", !.kind = "manual", !.version = version]]
  /\ answer' = [c \in Console |-> IF c = r THEN "waiting" ELSE answer[c]]
  /\ Event /\ UNCHANGED <<store, disk, active, stopping, idle, deletion, saving, cleaner>>

\* The console's HTTP request ends before the job was admitted.
RequestLeaves(r) ==
  /\ answer[r] = "waiting"
  /\ answer' = [answer EXCEPT ![r] = "left"]
  /\ UNCHANGED <<store, disk, active, stopping, task, idle, others>>

\* idleTrigger: an IDLE notification of a watcher.  The initial pass is left to
\* the sweep, and a sync in flight is trusted to fetch the new mail.
IdleNotified(w) ==
  /\ watch[w] = "watching" /\ task[w].pc = "idle" /\ RoomForRun
  /\ Succeeded # {} /\ runs[Max(Succeeded)].kind # "initial"
  /\ active = None
  /\ task' = [task EXCEPT ![w].pc = "claim", ![w].kind = "incremental"]
  /\ UNCHANGED <<store, disk, active, stopping, answer, idle, others>>

------------------------------------------------------------------------------
(* syncAccountStarted *)

\* Mutant: only an admitted run is reported to the caller.
ReportsAdmission(s, what) ==
  [c \in Console |-> IF c = s /\ answer[c] = "waiting" /\ what = "admitted" THEN what ELSE answer[c]]
Answered(s, what) ==
  [c \in Console |-> IF c = s /\ answer[c] = "waiting" THEN what ELSE answer[c]]
\* The task ends; a watcher keeps the configuration it watches.
Over(s) == [NoTask EXCEPT !.version = IF s \in Watchers THEN task[s].version ELSE 0]
ToStep(s, pc) == [task EXCEPT ![s].pc = pc]
CancelTask(tasks, s) ==
  IF tasks[s].pc \in Owning THEN [tasks EXCEPT ![s].cancelled = TRUE] ELSE tasks

\* Mutants: the busy map is not consulted; the deleting map is not consulted.
RefusedWhenStopping == stopping
RefusedWhenBusy == active # None
Refused == stopping \/ active # None

Claim(s) ==
  /\ task[s].pc = "claim"
  /\ IF Refused
     THEN /\ task' = [task EXCEPT ![s] = Over(s)]
          /\ answer' = Answered(s, "refused")
          /\ active' = active
     ELSE /\ active' = s
          /\ \E k \in IF s = Sweep THEN NextKinds ELSE {task[s].kind} :
               task' = [task EXCEPT ![s].pc = "begin", ![s].kind = k,
                                    ![s].cancelled = s \in Watchers /\ watch[s] = "cancelled"]
          /\ answer' = answer
  /\ UNCHANGED <<store, disk, stopping, idle, others>>

\* Mutant: an interrupted or unclosed run is not taken for an unsuccessful one.
PreviousReportedFailure == runs # <<>> /\ runs[Len(runs)].state = "failed"
\* The row of the run, then the Maildir root.  A failed insert (the account's
\* row is gone, the context is cancelled) ends the sync without a run.
PreviousFailed == runs # <<>> /\ runs[Len(runs)].state # "success"
Begin(s) ==
  /\ task[s].pc = "begin"
  /\ \/ /\ task' = [task EXCEPT ![s] = Over(s)]
        /\ active' = None /\ answer' = Answered(s, "refused")
        /\ UNCHANGED <<runs, files>>
     \/ /\ ~task[s].cancelled /\ row \in {"live", "deleting"}
        /\ runs' = Append(runs, [kind |-> task[s].kind, state |-> "open"])
        /\ answer' = Answered(s, "admitted")
        /\ \/ /\ files' = TRUE
              /\ task' = [task EXCEPT ![s].run = Len(runs) + 1,
                                      ![s].pc = IF PreviousFailed THEN "recover" ELSE "provider"]
           \/ /\ files' = files
              /\ task' = [task EXCEPT ![s].run = Len(runs) + 1, ![s].pc = "finish"]
        /\ active' = active
  /\ UNCHANGED <<row, version, userGone, job, mail, stopping, idle, others>>

InStep(s, pc) == task[s].pc = pc /\ UNCHANGED <<store, active, stopping, answer, idle, others>>
\* Any step may fail; one whose context is cancelled must.
Fails(s) == task' = ToStep(s, "rescue")
Succeeds(s, next) == ~task[s].cancelled /\ task' = ToStep(s, next)
Indexed == mail' = [mail EXCEPT !.indexed = mail.local]

\* IndexAvailable before the provider is asked, after an unsuccessful run.
Recover(s) ==
  /\ InStep(s, "recover") /\ UNCHANGED files
  /\ \/ Succeeds(s, "provider") /\ row # "gone" /\ Indexed
     \/ Fails(s) /\ mail' = mail

\* Endpoint, discovery, configuration; the configuration must still be the
\* account's and the account not be in deletion.
Provider(s) ==
  /\ InStep(s, "provider") /\ UNCHANGED disk
  /\ \/ Succeeds(s, "pull") /\ row = "live" /\ version = task[s].version
     \/ Fails(s)

\* Mutant: mbsync forgot its state and downloads everything again.
PullAgain(s) ==
  /\ InStep(s, "pull") /\ files' = TRUE
  /\ \/ Succeeds(s, "import") /\ mail' = [mail EXCEPT !.local = mail.local + MaxMail]
     \/ Fails(s) /\ mail' = mail
\* mbsync: a failed or killed one leaves what it had downloaded.
Pull(s) ==
  /\ InStep(s, "pull") /\ files' = TRUE
  /\ \/ Succeeds(s, "import") /\ mail' = [mail EXCEPT !.local = MaxMail]
     \/ Fails(s) /\ \E n \in mail.local .. MaxMail : mail' = [mail EXCEPT !.local = n]

Import(s) ==
  /\ InStep(s, "import") /\ UNCHANGED files
  /\ \/ Succeeds(s, "settle") /\ row # "gone" /\ Indexed
     \/ Fails(s) /\ mail' = mail

\* Remote reconciliation of full kinds, acknowledgement of queued mutations.
Settle(s) ==
  /\ InStep(s, "settle") /\ UNCHANGED disk
  /\ \/ /\ ~task[s].cancelled
        /\ task[s].kind = "incremental" \/ row # "gone"
        /\ task' = [task EXCEPT ![s].pc = "finish", ![s].ok = TRUE]
     \/ Fails(s)

\* The deferred recovery, under a context of its own; it may run out of time.
Rescue(s) ==
  /\ InStep(s, "rescue") /\ UNCHANGED files
  /\ task' = ToStep(s, "finish")
  /\ (row # "gone" /\ Indexed) \/ mail' = mail

\* FinishSyncRun under a cleanup context, then the account is released.  A
\* failed write leaves the row open.
Closed(s) == IF task[s].ok THEN "success" ELSE "failed"
\* Mutant: the run is closed under the sync's own context.
FinishUnderTaskContext(s) ==
  /\ task[s].pc = "finish"
  /\ runs' = IF task[s].run \in DOMAIN runs /\ ~task[s].cancelled
             THEN [runs EXCEPT ![task[s].run].state = Closed(s)] ELSE runs
  /\ task' = [task EXCEPT ![s] = Over(s)]
  /\ active' = None
  /\ UNCHANGED <<row, version, userGone, job, disk, stopping, answer, idle, others>>
Finish(s) ==
  /\ task[s].pc = "finish"
  /\ IF task[s].run \in DOMAIN runs
     THEN \E state \in {Closed(s), "unclosed"} : runs' = [runs EXCEPT ![task[s].run].state = state]
     ELSE runs' = runs
  /\ task' = [task EXCEPT ![s] = Over(s)]
  /\ active' = None
  /\ UNCHANGED <<row, version, userGone, job, disk, stopping, answer, idle, others>>

SyncStep(s) == \/ Claim(s) \/ Begin(s) \/ Recover(s) \/ Provider(s) \/ Pull(s)
               \/ Import(s) \/ Settle(s) \/ Rescue(s) \/ Finish(s)

\* CancelManualSync
CancelManual ==
  /\ active # None /\ task[active].kind = "manual" /\ ~task[active].cancelled
  /\ task' = [task EXCEPT ![active].cancelled = TRUE]
  /\ UNCHANGED <<store, disk, active, stopping, answer, idle, others>>

------------------------------------------------------------------------------
(* idleWatcher *)

Outdated == registered # None /\ (row # "live" \/ task[registered].version # version)
Unwatched == registered = None \/ Outdated

\* reconcile: cancel and forget the watcher of a removed or changed account,
\* start one for an account that has none.
Reconcile ==
  /\ Outdated \/ (Unwatched /\ row = "live")
  /\ LET cancelled == IF Outdated THEN [watch EXCEPT ![registered] = "cancelled"] ELSE watch
         tasks     == IF Outdated THEN CancelTask(task, registered) ELSE task
     IN IF row = "live"
        THEN \E w \in {x \in Watchers : watch[x] = "free"} :
               /\ watch' = [cancelled EXCEPT ![w] = "watching"]
               /\ registered' = w
               /\ task' = [tasks EXCEPT ![w].version = version]
        ELSE watch' = cancelled /\ registered' = None /\ task' = tasks
  /\ UNCHANGED <<store, disk, active, stopping, answer, others>>

\* Mutant: the watcher found in the map is forgotten without being cancelled.
WatcherForgets(w) ==
  /\ watch[w] = "cancelled" /\ task[w].pc = "idle"
  /\ watch' = [watch EXCEPT ![w] = "free"] /\ registered' = None
  /\ UNCHANGED <<store, disk, sync, others>>
\* The end of watchAccount: a cancelled watcher leaves its loop, then cancels
\* and forgets whatever watcher the account has.
WatcherExits(w) ==
  /\ watch[w] = "cancelled" /\ task[w].pc = "idle"
  /\ IF registered = None
     THEN watch' = [watch EXCEPT ![w] = "free"] /\ task' = task
     ELSE /\ watch' = [watch EXCEPT ![registered] = "cancelled", ![w] = "free"]
          /\ task' = CancelTask(task, registered)
  /\ registered' = None
  /\ UNCHANGED <<store, disk, active, stopping, answer, others>>

------------------------------------------------------------------------------
(* Deletion of the account (deleteAccountData) and of its owner (deleteUser).  *)
(* A user deletion that lists its accounts before this one exists is blind to  *)
(* it.                                                                         *)

DeleteAt(d, pc) == deletion[d] = pc /\ UNCHANGED <<version, disk, answer, idle, saving, cleaner>>
                   /\ IF pc = "new" THEN Event ELSE events' = events
DeleteTo(d, pc) == deletion' = [deletion EXCEPT ![d] = pc]

DeleteRequested(d) ==
  /\ DeleteAt(d, "new")
  /\ DeleteTo(d, IF d \in AccountDeletes THEN "begin"
                 ELSE IF row \in {"live", "deleting"} THEN "prestop" ELSE "blind")
  /\ UNCHANGED <<row, userGone, job, runs, active, stopping, task>>

\* BeginAccountDeletionWithPaths: repeated requests share the job.
BeginDeletion(d) ==
  /\ DeleteAt(d, "begin")
  /\ \/ /\ row = "live" /\ job.id < MaxJobs
        /\ row' = "deleting" /\ job' = [id |-> job.id + 1, state |-> "pending"]
        /\ DeleteTo(d, "stop")
     \/ /\ row = "deleting" /\ UNCHANGED <<row, job>> /\ DeleteTo(d, "stop")
     \/ /\ row \in {"gone", "absent"} /\ UNCHANGED <<row, job>> /\ DeleteTo(d, "done")
  /\ UNCHANGED <<userGone, runs, active, stopping, task>>

\* StopAccount: refuse new work and cancel the owner ...
StopMarks(d) ==
  /\ \/ DeleteAt(d, "prestop") /\ DeleteTo(d, "prewait")
     \/ DeleteAt(d, "stop") /\ DeleteTo(d, "wait")
  /\ stopping' = TRUE
  /\ task' = IF active # None THEN CancelTask(task, active) ELSE task
  /\ UNCHANGED <<row, userGone, job, runs, active>>

\* Mutant: the deletion goes on while the cancelled sync winds down.
StopGoesOn(d) ==
  /\ \/ DeleteAt(d, "prewait") /\ DeleteTo(d, "begin")
     \/ DeleteAt(d, "wait") /\ DeleteTo(d, "finalize")
  /\ UNCHANGED <<row, userGone, job, runs, active, stopping, task>>
\* ... then wait for the owner to release the account.
StopWaits(d) ==
  /\ active = None
  /\ \/ DeleteAt(d, "prewait") /\ DeleteTo(d, "begin")
     \/ DeleteAt(d, "wait") /\ DeleteTo(d, "finalize")
  /\ UNCHANGED <<row, userGone, job, runs, active, stopping, task>>

\* The HTTP request ends, or the database refuses.
DeleteFails(d) ==
  /\ DeleteAt(d, deletion[d]) /\ deletion[d] \in {"begin", "prewait", "wait", "finalize", "user", "blind"}
  /\ DeleteTo(d, "done")
  /\ UNCHANGED <<row, userGone, job, runs, active, stopping, task>>

\* A removed row takes its runs and its index with it.
RowRemoved == /\ row' = "gone" /\ runs' = <<>> /\ mail' = [mail EXCEPT !.indexed = 0]

FinalizeDeletion(d) ==
  /\ deletion[d] = "finalize"
  /\ IF row = "deleting" THEN RowRemoved ELSE UNCHANGED <<row, runs, mail>>
  /\ DeleteTo(d, IF d \in UserDeletes THEN "user" ELSE "done")
  /\ UNCHANGED <<version, userGone, job, files, sync, idle, saving, cleaner, events>>

\* DeleteUser: the owner's row, and with it every account's.
RemoveUser(d) ==
  /\ deletion[d] \in {"user", "blind"}
  /\ userGone' = TRUE
  /\ IF row = "absent" THEN UNCHANGED <<row, runs, mail>> ELSE RowRemoved
  /\ DeleteTo(d, IF deletion[d] = "user" THEN "done" ELSE "blindly done")
  /\ UNCHANGED <<version, job, files, sync, idle, saving, cleaner, events>>

DeleteStep(d) == \/ DeleteRequested(d) \/ BeginDeletion(d) \/ StopMarks(d) \/ StopWaits(d)
                 \/ DeleteFails(d) \/ FinalizeDeletion(d) \/ RemoveUser(d)

------------------------------------------------------------------------------
(* saveAccount and the cleanup worker *)

CreateAccount ==
  /\ row = "absent" /\ ~userGone
  /\ row' = "live" /\ version' = 1
  /\ UNCHANGED <<userGone, job, runs, disk, sync, idle, others>>

\* The handler finds the account in the owner's list; 0 is a request that names
\* no config_version.
SaveChecks(v) ==
  /\ saving[v].pc = "idle" /\ row = "live" /\ version < MaxVersion
  /\ \E given \in {0, version} : saving' = [saving EXCEPT ![v] = [pc |-> "checked", version |-> given]]
  /\ Event /\ UNCHANGED <<store, disk, sync, idle, deletion, cleaner>>

\* saveAccountTx: refused on an account in deletion or another version; an
\* account whose row is gone is inserted again.
SaveCommits(v) ==
  /\ saving[v].pc = "checked"
  /\ saving' = [saving EXCEPT ![v].pc = "idle"]
  /\ \/ /\ row = "live" /\ saving[v].version \in {0, version} /\ version < MaxVersion
        /\ version' = version + 1 /\ row' = row
     \/ /\ row = "gone" /\ ~userGone
        /\ version' = 1 /\ row' = "live"
     \/ UNCHANGED <<row, version>>
  /\ UNCHANGED <<userGone, job, runs, disk, sync, idle, deletion, cleaner, events>>

\* ReadyCleanupJobs never returns a job whose account row exists.
CleanupPicks ==
  /\ cleaner.pc = "idle" /\ job.state \in {"pending", "failed"} /\ row = "gone"
  /\ cleaner' = [pc |-> "picked", id |-> job.id]
  /\ UNCHANGED <<store, disk, sync, idle, deletion, saving, events>>

JobBecomes(state) ==
  job' = IF cleaner.id = job.id THEN [job EXCEPT !.state = state] ELSE job

CleanupRemoves ==
  /\ cleaner.pc = "picked"
  /\ \/ /\ files' = FALSE /\ mail' = [mail EXCEPT !.local = 0]
        /\ cleaner' = [cleaner EXCEPT !.pc = "removed"] /\ job' = job
     \/ /\ JobBecomes("failed") /\ cleaner' = [cleaner EXCEPT !.pc = "idle"]
        /\ UNCHANGED disk
  /\ UNCHANGED <<row, version, userGone, runs, sync, idle, deletion, saving, events>>

CleanupFinishes ==
  /\ cleaner.pc = "removed"
  /\ JobBecomes("complete") /\ cleaner' = [cleaner EXCEPT !.pc = "idle"]
  /\ UNCHANGED <<row, version, userGone, runs, disk, sync, idle, deletion, saving, events>>

------------------------------------------------------------------------------
\* The process dies and starts again: memory is lost, a killed mbsync or index
\* scan may have done part of its work, and InterruptSyncRuns closes open runs
\* before work is admitted.
At(pcs) == active # None /\ task[active].pc \in pcs
CrashAndRestart ==
  /\ Event
  /\ \E l \in (IF At({"pull"}) THEN mail.local .. MaxMail ELSE {mail.local}) :
       mail' = [mail EXCEPT !.local = l]
  /\ runs' = [i \in DOMAIN runs |->
                IF runs[i].state \in {"open", "unclosed"}
                THEN [runs[i] EXCEPT !.state = "interrupted"] ELSE runs[i]]
  /\ active' = None /\ stopping' = FALSE
  /\ task' = [s \in Syncers |-> NoTask]
  /\ answer' = [r \in Console |-> IF answer[r] = "waiting" THEN "left" ELSE answer[r]]
  /\ watch' = [w \in Watchers |-> "free"] /\ registered' = None
  /\ deletion' = [d \in Deletes |-> IF deletion[d] \in {"new", "blindly done"} THEN deletion[d] ELSE "done"]
  /\ saving' = [v \in Saves |-> [pc |-> "idle", version |-> 0]]
  /\ cleaner' = [pc |-> "idle", id |-> 0]
  /\ UNCHANGED <<row, version, userGone, job, files>>

Next ==
  \/ SweepLists
  \/ \E r \in Requests : Refresh(r)
  \/ \E r \in Console : RequestLeaves(r)
  \/ \E w \in Watchers : IdleNotified(w) \/ WatcherExits(w)
  \/ \E s \in Syncers : SyncStep(s)
  \/ CancelManual \/ Reconcile
  \/ \E d \in Deletes : DeleteStep(d)
  \/ CreateAccount
  \/ \E v \in Saves : SaveChecks(v) \/ SaveCommits(v)
  \/ CleanupPicks \/ CleanupRemoves \/ CleanupFinishes
  \/ CrashAndRestart

Spec == Init /\ [][Next]_vars

------------------------------------------------------------------------------
(* Properties *)

Run  == [kind : Kinds, state : {"open", "success", "failed", "unclosed", "interrupted"}]
Task == [pc : Owning \cup {"idle", "claim"}, kind : Kinds, version : 0 .. MaxVersion,
         cancelled : BOOLEAN, run : Nat, ok : BOOLEAN]

\* The types of the variables.
TypeOK ==
  /\ row \in {"absent", "live", "deleting", "gone"} /\ version \in 1 .. MaxVersion
  /\ userGone \in BOOLEAN /\ stopping \in BOOLEAN /\ files \in BOOLEAN
  /\ job \in [id : 0 .. MaxJobs, state : {"none", "pending", "failed", "complete"}]
  /\ runs \in Seq(Run)
  /\ mail \in [local : 0 .. MaxMail, indexed : 0 .. MaxMail]
  /\ active \in Syncers \cup {None}
  /\ task \in [Syncers -> Task]
  /\ watch \in [Watchers -> {"free", "watching", "cancelled"}]
  /\ registered \in Watchers \cup {None}
  /\ answer \in [Console -> {"none", "waiting", "admitted", "refused", "left"}]
  /\ deletion \in [Deletes -> {"new", "prestop", "prewait", "begin", "stop", "wait",
                               "finalize", "user", "blind", "done", "blindly done"}]
  /\ saving \in [Saves -> [pc : {"idle", "checked"}, version : 0 .. MaxVersion]]
  /\ cleaner \in [pc : {"idle", "picked", "removed"}, id : 0 .. MaxJobs]
  /\ events \in 0 .. MaxEvents

\* Two syncs never work on the account at the same time, however the sweep, the
\* console, the telephone, the watchers and a crash interleave (the busy map of
\* syncAccountStarted, held to the end of the deferred recovery).
OneSyncAtATime == \A s \in Syncers : task[s].pc \in Owning => active = s

\* A run that is open in sync_runs is the run of the sync that owns the account
\* now: cancelled, failed and interrupted runs are closed before the account is
\* released.
OpenRunOwned ==
  \A i \in DOMAIN runs :
    runs[i].state = "open" => active # None /\ task[active].run = i

\* Once the account's row is removed no sync works on the account: StopAccount
\* refuses what comes after it and waits for what came before.  (A user deletion
\* blind to the account never calls it.)
SeenByDeletion == row = "gone" /\ \A d \in Deletes : deletion[d] # "blindly done"
RemovedIsQuiet == SeenByDeletion => active = None

\* The files of a removed account do not come back after its cleanup job has
\* completed: nothing recreates them behind the cleanup worker.
CleanedStaysClean == SeenByDeletion /\ job.state = "complete" => ~files

\* A sync with a run before it asks the provider only when everything an earlier
\* run or a killed process left in the Maildir is indexed.
RecoveredBeforeProvider ==
  \A s \in Syncers :
    task[s].pc \in {"provider", "pull"} /\ task[s].run \in DOMAIN runs \ {1}
      => mail.indexed = mail.local

\* A watcher that has not been cancelled is the registered one: none stays
\* connected that reconcile could no longer stop.
NoStrayWatcher == \A w \in Watchers : watch[w] = "watching" => registered = w

\* A console refresh that waits for admission has a job that will still answer.
WaitsForLiveJob == \A r \in Console : answer[r] = "waiting" => task[r].pc \in {"claim", "begin"}

\* The first successful run of an account is its initial one, the only kind that
\* applies the initial cutoff (idleTrigger: "the scheduled sweep owns that first
\* run because the initial cutoff prune must not be skipped").
\* The code does not keep this: see section 6 of the README.
InitialFirst ==
  \A i \in Succeeded : (\A j \in Succeeded : i <= j) => runs[i].kind = "initial"

(* RunsHaveOwners: a run of an account has one owner, its record is open only
   while that owner works, nobody waits for a job that is over, and a
   deletion in progress meets neither a run nor a watcher. *)
RunsHaveOwners ==
    OneSyncAtATime /\ OpenRunOwned /\ WaitsForLiveJob /\ NoStrayWatcher /\ RemovedIsQuiet

(* RecoversAndCleans: the files of a cleaned account stay gone, and the
   provider is reached only after the previous run was recovered. *)
RecoversAndCleans == CleanedStaysClean /\ RecoveredBeforeProvider
==============================================================================
