------------------------------ MODULE MailStore ------------------------------
(***************************************************************************)
(* The read state of mail: the provider's flag, the Maildir file name that *)
(* carries it, the index row and the journal message_mutations that        *)
(* remembers what the user asked for until a synchronisation has carried   *)
(* it out (store/mail.go, queued_reads.go, mail_index.go, mail_path.go,    *)
(* mailsync/service.go, queued_reads.go, read_cache.go, mailindex,         *)
(* calls/mail_handlers.go).                                                *)
(*                                                                         *)
(* The actors are one telephone caller, the run that owns the account, and *)
(* another mail client at the provider.  The caller holds                  *)
(* LockMailReadState from rename to journal; of the run's steps only the   *)
(* alignment of a confirmed read takes that lock.                          *)
(*                                                                         *)
(* A message keeps one folder.  A path is the flag its file name carries.  *)
(* mbsync is external: one message at a time it pushes a changed file flag *)
(* or pulls a changed provider flag, and never deletes (Remove None).      *)
(*                                                                         *)
(* Journal ids are numbers of the table, which also holds the entries of   *)
(* other mail and of moves: an entry gets some id above the ids of the     *)
(* entries that are there.  The id of the newest one is given out again    *)
(* once its row, and it with the row, is deleted (no AUTOINCREMENT).       *)
(***************************************************************************)
EXTENDS Naturals, Sequences, FiniteSets

CONSTANTS
    Messages,
    Kinds,          \* kinds of run: "incremental", "reconciliation"
    None,
    MaxToggles,     \* bound: read changes attempted
    RowIds,         \* bound: ids, three per message for two rows and a stale copy
    OtherQueued,    \* bound: ids other choices may be queued at when a run starts
    OtherKept,      \* bound: ids of other entries that are there when a choice is recorded
    MaxFaults       \* bound: crashes, failures and actions of the other client

ASSUME MailStoreAssumption ==
    /\ Kinds \subseteq {"incremental", "reconciliation"}
    /\ {MaxToggles, MaxFaults} \subseteq Nat /\ OtherQueued \cup OtherKept \subseteq Nat

VARIABLES
    remote,     \* the flag at the provider, None: not there
    synced,     \* .mbsyncstate: the flag both sides last agreed on
    file,       \* the flag in the name of the Maildir file, None: no file
    rows,       \* mail_messages: per message and path, a row or None
    journal,    \* message_mutations of mark_read, as they were written; of those that
                \* are there this is the order of their ids
    listed,     \* the session's copy of a message: row, path, flag
    caller,     \* the call's read change in progress
    plan,       \* messages whose directory the mbsync plan includes; the others are
                \* in a directory retained from an earlier folder mapping
    toggles,    \* read changes attempted so far
    run,        \* the synchronisation run in progress
    faults,
    meddled,    \* history: the other client changed the flag after the last choice, or
                \* before it and mbsync had not seen it, or a later choice was
                \* cut short by a crash or undone
    torn,       \* history: messages renamed between the walk's look at the file and its
                \* transaction
    moved       \* history: messages VOXMail renamed, or was renaming, during the scan

disk     == <<remote, synced, file>>
database == <<rows, journal>>
history  == <<meddled, torn, moved>>
session  == <<listed, caller, toggles>>
mailVars == <<disk, database, session, plan, run, faults, history>>

Flags == {"seen", "unseen"}
Other(f) == CHOOSE g \in Flags : g # f
Row == [id : RowIds, read : Flags, uid : BOOLEAN, fresh : BOOLEAN]
\* reused is history: the id is one the run in progress at the time holds, or below it.
Entry == [id : Nat \ {0}, message : Messages, row : RowIds, want : Flags,
          status : {"queued", "synchronized", "cascaded"}, reused : BOOLEAN]
Copy == [row : RowIds, path : Flags, read : Flags]
Quiet == [pc |-> "idle"]
Changes == [pc : {"renamed", "marked"}, message : Messages, want : Flags, path : Flags,
            from : Flags]
Stopped == [pc |-> "idle", kind |-> None, watermark |-> 0, plan |-> {}, todo |-> {}, stamps |-> {},
            unchanged |-> {}, seen |-> {}, item |-> None, protected |-> {}, late |-> FALSE]
\* What a run has to do - messages, reads to retry, answers of the provider - and
\* the item it is at.
Retries == [message : Messages, entry : Nat, uid : BOOLEAN]
Answers == [message : Messages, flag : Flags \cup {None}]
Confirmed == [message : Messages, entry : Nat, action : Nat]
Found == [message : Messages, path : Flags]
ASSUME NoneApart ==
    None \notin Flags /\ None \notin Row /\ None \notin Confirmed /\ None \notin Found
Runs == [pc : {"idle", "restart", "watermark", "mbsync", "retry", "scan", "pending",
               "identities", "stale", "ack"},
         kind : Kinds \cup {"recovery", None}, watermark : Nat, plan : SUBSET Messages,
         todo : SUBSET (Messages \cup Retries \cup Answers),
         stamps : SUBSET (Messages \X Flags), unchanged : SUBSET (Messages \X Flags),
         seen : SUBSET RowIds, item : Confirmed \cup Found \cup {None},
         protected : SUBSET Messages, late : BOOLEAN]

MailInit ==
    /\ remote \in [Messages -> Flags]
    /\ synced = [m \in Messages |-> None] /\ file = synced
    /\ rows = [m \in Messages |-> [p \in Flags |-> None]]
    /\ journal = <<>>
    /\ listed = [m \in Messages |-> None]
    /\ caller = Quiet /\ toggles = 0 /\ plan = Messages /\ run = Stopped
    /\ faults = 0
    /\ meddled = [m \in Messages |-> TRUE] /\ torn = {} /\ moved = {}

Changing(m) == caller.pc # "idle" /\ caller.message = m
DuringScan(ms) == IF run.pc = "scan" THEN ms ELSE {}
Fault == faults < MaxFaults /\ faults' = faults + 1

-----------------------------------------------------------------------------
(* Rows and journal. *)

Paths(m) == {p \in Flags : rows[m][p] # None}
PathOf(m, id) == {p \in Paths(m) : rows[m][p].id = id}

\* Mutant: a row inserted under an id in use.
AnyId == RowIds
\* Ids no row has: an id is used again once its row is gone (no AUTOINCREMENT).
FreeIds == {id \in RowIds : \A m \in Messages : PathOf(m, id) = {}}

\* ON DELETE CASCADE: the journal of a deleted row goes with it.
Cascade(js, gone) ==
    [i \in DOMAIN js |-> IF js[i].row \in gone THEN [js[i] EXCEPT !.status = "cascaded"]
                                               ELSE js[i]]

\* The rows of m after the row at path p moved to path q; a row already at q is
\* merged into it (mergeMailPathCollision).
Rehomed(m, p, q, row) == [rows EXCEPT ![m][p] = None, ![m][q] = row]
Collided(m, p, q) == IF p # q /\ rows[m][q] # None THEN {rows[m][q].id} ELSE {}

Live(status) == status \in {"queued", "synchronized"}
EntriesOf(m) == {i \in DOMAIN journal : journal[i].message = m /\ Live(journal[i].status)}
Last(s) == CHOOSE i \in s : \A j \in s : j <= i

\* INTEGER PRIMARY KEY: one more than the last id that is there, of these entries or
\* of others.
LiveIds == {journal[i].id : i \in {j \in DOMAIN journal : Live(journal[j].status)}}
QueuedIds == {journal[i].id : i \in {j \in DOMAIN journal : journal[j].status = "queued"}}
NewIds == {last + 1 : last \in {n \in {0} \cup LiveIds \cup OtherKept : \A id \in LiveIds : id <= n}}
\* The run holds an id at or above this one: its watermark or a read it retries.
Held(id) == \/ id <= run.watermark
            \/ run.pc = "retry" /\ run.item # None /\ id <= journal[run.item.action].id

\* QueuedReadMutations: the newest queued entry of each row up to the watermark.
Queued(m, upto) ==
    {i \in EntriesOf(m) : journal[i].status = "queued" /\ journal[i].id <= upto}
\* LatestReadForIdentity: the newest choice for the message's UID.
HasUID(m) == \E p \in Paths(m) : rows[m][p].uid
Latest(m) == IF HasUID(m) /\ EntriesOf(m) # {} THEN Last(EntriesOf(m)) ELSE 0

\* FinishQueuedRead: up to this entry of its row, while the row still has the flag.
Finish(js, m, i, flag, rs) == [j \in DOMAIN js |->
    IF js[j].row = js[i].row /\ js[j].id <= js[i].id /\ js[j].status = "queued"
       /\ \E p \in Flags : /\ rs[m][p] # None /\ rs[m][p].id = js[i].row
                           /\ rs[m][p].read = flag
    THEN [js[j] EXCEPT !.status = "synchronized"] ELSE js[j]]

-----------------------------------------------------------------------------
(* The telephone caller. *)

\* openMessages: the session copies what the index says.
List(m) ==
    /\ caller.pc = "idle" /\ toggles < MaxToggles
    /\ \E p \in Paths(m) :
          listed' = [listed EXCEPT ![m] = [row |-> rows[m][p].id, path |-> p,
                                           read |-> rows[m][p].read]]
    /\ listed' # listed
    /\ UNCHANGED <<disk, database, caller, toggles, plan, run, faults, history>>

\* queueLocalReadState takes the lock, finds the file (rederiveMaildirPath when
\* the listed name is stale) and renames it.  want is the opposite of the copy
\* for toggleRead, "seen" once a message has been read out.
Rename(m) ==
    /\ caller.pc = "idle" /\ listed[m] # None /\ file[m] # None
    /\ toggles < MaxToggles
    /\ \E want \in {"seen", Other(listed[m].read)} :
          /\ caller' = [pc |-> "renamed", message |-> m, want |-> want, path |-> want,
                         from |-> file[m]]
          /\ file' = [file EXCEPT ![m] = want]
    /\ moved' = moved \cup DuringScan({m})
    /\ toggles' = toggles + 1
    /\ UNCHANGED <<remote, synced, database, listed, plan, run, faults, meddled, torn>>

\* Renaming back when the database refuses: the file returns to the listed name.
Undo(m, path) ==
    /\ file' = IF file[m] = path THEN [file EXCEPT ![m] = listed[m].path] ELSE file
    /\ moved' = moved \cup DuringScan({m})
    /\ meddled' = [meddled EXCEPT ![m] = @ \/ path # caller.from \/ listed[m].path # caller.from]
    /\ caller' = Quiet

\* MarkMailReadAtPath: the row, found by id, follows the file.
Mark ==
    /\ caller.pc = "renamed"
    /\ LET m == caller.message
           found == PathOf(m, listed[m].row)
       IN \/ \E p \in found :
                /\ rows' = Rehomed(m, p, caller.want, [rows[m][p] EXCEPT
                                       !.read = caller.want, !.fresh = FALSE])
                /\ journal' = Cascade(journal, Collided(m, p, caller.want))
                /\ caller' = [caller EXCEPT !.pc = "marked"]
                /\ UNCHANGED <<file, faults, history>>
          \/ /\ \/ found = {} /\ UNCHANGED faults
                \/ Fault
             /\ Undo(m, caller.path) /\ UNCHANGED <<rows, journal>>
    /\ UNCHANGED <<remote, synced, listed, toggles, plan, run, torn>>

\* RecordQueuedRead at the path just written, or where the file is by now; then
\* the session's copy follows.  A refusal puts file and row back.
Record ==
    /\ caller.pc = "marked"
    /\ LET m == caller.message
           at == PathOf(m, listed[m].row) \cap {caller.path, file[m]}
       IN \/ /\ at # {}
             /\ \E id \in NewIds : journal' = Append(journal,
                   [id |-> id, message |-> m, row |-> listed[m].row, want |-> caller.want,
                    status |-> "queued", reused |-> Held(id)])
             /\ \E p \in at : listed' = [listed EXCEPT ![m].path = p, ![m].read = caller.want]
             /\ meddled' = [meddled EXCEPT ![m] = remote[m] # synced[m] \/ file[m] # caller.want]
             /\ caller' = Quiet
             /\ UNCHANGED <<file, rows, faults, moved>>
          \/ /\ \/ at = {} /\ UNCHANGED faults
                \/ Fault
             /\ Undo(m, caller.path)
             /\ IF caller.path \in PathOf(m, listed[m].row) /\ file[m] = caller.path
                THEN /\ rows' = Rehomed(m, caller.path, listed[m].path,
                                       [rows[m][caller.path] EXCEPT !.read = listed[m].read])
                     /\ journal' = Cascade(journal, Collided(m, caller.path, listed[m].path))
                ELSE UNCHANGED <<rows, journal>>
             /\ UNCHANGED listed
    /\ UNCHANGED <<remote, synced, toggles, plan, run, torn>>

-----------------------------------------------------------------------------
(* The run: watermark, mbsync, retained reads, scan, identities, acknowledgement. *)

Start(kind) ==
    /\ run.pc = "idle"
    /\ run' = [Stopped EXCEPT !.pc = "watermark", !.kind = kind, !.plan = plan]
    /\ UNCHANGED <<disk, database, session, plan, faults, history>>

\* QueuedMutationWatermark, before mbsync is launched: the last queued id of the
\* account, which may be an entry about other mail.
Watermark ==
    /\ run.pc = "watermark"
    /\ \E id \in {0} \cup QueuedIds \cup OtherQueued :
          /\ \A queued \in QueuedIds : queued <= id
          /\ run' = [run EXCEPT !.pc = "mbsync", !.todo = run.plan, !.watermark = id]
    /\ UNCHANGED <<disk, database, session, plan, faults, history>>

\* External: what mbsync does with one message under the generated configuration.
Mbsync(m) ==
    /\ run.pc = "mbsync" /\ m \in run.todo
    /\ run' = [run EXCEPT !.todo = @ \ {m}]
    /\ CASE remote[m] = None -> UNCHANGED disk
         [] remote[m] # None /\ file[m] = None ->
                /\ file' = [file EXCEPT ![m] = remote[m]]
                /\ synced' = [synced EXCEPT ![m] = remote[m]] /\ UNCHANGED remote
         [] remote[m] # None /\ file[m] \notin {None, synced[m]} ->
                /\ remote' = [remote EXCEPT ![m] = file[m]]
                /\ synced' = [synced EXCEPT ![m] = file[m]] /\ UNCHANGED file
         [] OTHER ->
                /\ file' = [file EXCEPT ![m] = remote[m]]
                /\ synced' = [synced EXCEPT ![m] = remote[m]] /\ UNCHANGED remote
    /\ UNCHANGED <<database, session, plan, faults, history>>

\* Mutant: retrying only what is outside the plan.
RetainedOutside == {[message |-> m, entry |-> Last(Queued(m, run.watermark)), uid |-> HasUID(m)] :
    m \in {n \in Messages : Queued(n, run.watermark) # {} /\ n \notin run.plan}}
\* The retained reads: pending changes outside the plan, or whose row says
\* something else than was asked for.
Retained == {[message |-> m, entry |-> Last(Queued(m, run.watermark)), uid |-> HasUID(m)] :
    m \in {n \in Messages :
        /\ Queued(n, run.watermark) # {}
        /\ \/ n \notin run.plan
           \/ \E p \in PathOf(n, journal[Last(Queued(n, run.watermark))].row) :
                 rows[n][p].read # journal[Last(Queued(n, run.watermark))].want}}

MbsyncDone ==
    /\ run.pc = "mbsync" /\ run.todo = {}
    /\ run' = [run EXCEPT !.pc = "retry", !.todo = Retained]
    /\ UNCHANGED <<disk, database, session, plan, faults, history>>

\* confirmRetainedReads, the network half: the newest choice of the message goes
\* to the provider by UID; an uncertain answer is looked up on a new connection.
Retry(it) ==
    /\ run.pc = "retry" /\ run.item = None /\ it \in run.todo
    /\ LET m == it.message
           newer == Latest(m) # 0 /\ journal[Latest(m)].id > journal[it.entry].id
           action == IF newer THEN Latest(m) ELSE it.entry
           told == [remote EXCEPT ![m] = IF @ = None THEN None ELSE journal[action].want]
       IN \/ /\ it.uid /\ remote' = told /\ UNCHANGED faults
             /\ run' = [run EXCEPT !.item = [message |-> m, entry |-> it.entry,
                                             action |-> action],
                                   !.todo = @ \ {it}]
          \/ /\ \/ ~it.uid /\ UNCHANGED <<remote, faults>>
                \/ it.uid /\ Fault /\ remote' \in {remote, told}
             /\ run' = [run EXCEPT !.todo = @ \ {it}, !.late = TRUE]
    /\ UNCHANGED <<synced, file, database, session, plan, history>>

\* alignConfirmedRead and FinishQueuedRead, under the caller's lock: unless there
\* is a newer choice, every copy with this UID takes the confirmed flag.
Copies(m) == {p \in Paths(m) : rows[m][p].uid}
AlignFails(m, want) == Latest(m) = 0 \/ (Other(want) \in Copies(m) /\ file[m] # Other(want))
Align ==
    /\ run.pc = "retry" /\ run.item # None /\ caller.pc = "idle"
    /\ LET m == run.item.message
           i == run.item.entry
           a == run.item.action
           want == journal[a].want
           from == IF Other(want) \in Copies(m) THEN Other(want) ELSE want
           aligned == journal[Latest(m)].id = journal[a].id
           newRows == IF aligned THEN Rehomed(m, from, want, [rows[m][from] EXCEPT !.read = want])
                                 ELSE rows
           kept == IF aligned THEN Cascade(journal, Collided(m, from, want)) ELSE journal
       IN IF Latest(m) = 0 \/ (aligned /\ AlignFails(m, want))
          THEN /\ run' = [run EXCEPT !.item = None, !.late = TRUE]
               /\ UNCHANGED <<file, rows, journal>>
          ELSE /\ rows' = newRows
               /\ file' = IF aligned /\ from # want THEN [file EXCEPT ![m] = want] ELSE file
               /\ journal' = Finish(Finish(kept, m, a, want, newRows), m, i,
                                    IF aligned THEN want ELSE journal[i].want, newRows)
               /\ run' = [run EXCEPT !.item = None]
    /\ UNCHANGED <<remote, synced, session, plan, faults, history>>

\* Indexer.index begins: the stamps of unchanged files, and a new scan id.
BeginScan(r) ==
    /\ run' = [r EXCEPT !.pc = "scan", !.todo = Messages, !.item = None,
          !.unchanged = {}, !.seen = {}, !.stamps = {mp \in Messages \X Flags : /\ rows[mp[1]][mp[2]] # None
                                                 /\ rows[mp[1]][mp[2]].fresh}]
    /\ moved' = {m \in Messages : Changing(m)}
EndScan(r) ==
    /\ run' = [r EXCEPT !.stamps = {}, !.unchanged = {}, !.seen = {}]
    /\ moved' = {}
ToScan ==
    /\ run.pc = "retry" /\ run.todo = {} /\ run.item = None
    /\ BeginScan(run)
    /\ UNCHANGED <<disk, database, session, plan, faults, meddled, torn>>

\* A failed run indexes what is there without a purge (IndexAvailable), and so
\* does the first run after a crash.
Rescue == [Stopped EXCEPT !.kind = "recovery"]
RunFails ==
    /\ run.pc \in {"mbsync", "retry", "identities", "stale"} /\ run.item = None
    /\ run.pc = "stale" => run.todo = {}
    /\ Fault
    /\ BeginScan(Rescue)
    /\ UNCHANGED <<disk, database, session, plan, meddled, torn>>
Restart ==
    /\ run.pc = "restart"
    /\ BeginScan(Rescue)
    /\ UNCHANGED <<disk, database, session, plan, faults, meddled, torn>>

\* The walk meets a file.  One renamed after its directory was read ends the scan.
Visit(m) ==
    /\ run.pc = "scan" /\ run.item = None /\ m \in run.todo
    /\ LET here == <<m, file[m]>>
       IN run' = [run EXCEPT !.todo = @ \ {m},
                     !.unchanged = IF here \in run.stamps THEN @ \cup {here} ELSE @,
                     !.item = IF file[m] = None \/ here \in run.stamps THEN None
                              ELSE [message |-> m, path |-> file[m]]]
    /\ UNCHANGED <<disk, database, session, plan, faults, history>>
ScanAborts ==
    /\ run.pc = "scan" /\ run.item = None /\ run.todo \cap moved # {}
    /\ IF run.kind = "recovery"
       THEN EndScan(Stopped)
       ELSE BeginScan(Rescue)
    /\ UNCHANGED <<disk, database, session, plan, faults, meddled, torn>>

\* UpsertMailIndex: the row at the path, else a row whose file is gone, else a
\* new row.  A re-homed row stays read when either side says so.  record has looked for
\* the file first (os.Stat); a rename in the moment after that look is a fault.
Upsert ==
    /\ run.pc = "scan" /\ run.item # None
    /\ LET m == run.item.message
           p == run.item.path
           stale == {q \in Paths(m) \ {p} : file[m] # q}
           row(id, read, uid) == [id |-> id, read |-> read, uid |-> uid, fresh |-> TRUE]
           upserted ==
              \/ rows[m][p] # None /\ rows' = [rows EXCEPT ![m][p] = row(@.id, p, @.uid)]
              \/ /\ rows[m][p] = None
                 /\ \E q \in stale : rows' = Rehomed(m, q, p, row(rows[m][q].id,
                       IF "seen" \in {p, rows[m][q].read} THEN "seen" ELSE "unseen",
                       rows[m][q].uid))
              \/ /\ rows[m][p] = None /\ stale = {}
                 /\ \E id \in FreeIds : rows' = [rows EXCEPT ![m][p] = row(id, p, FALSE)]
       IN \/ /\ file[m] # p /\ UNCHANGED <<rows, faults, torn>>
             /\ run' = [run EXCEPT !.item = None]
          \/ /\ \/ file[m] = p /\ UNCHANGED <<faults, torn>>
                \/ file[m] # p /\ Fault /\ torn' = torn \cup {m}
             /\ upserted
             /\ run' = [run EXCEPT !.item = None, !.seen = @ \cup {rows'[m][p].id}]
    /\ UNCHANGED <<disk, journal, session, plan, meddled, moved>>

\* Mutant: the purge forgets the files it found unchanged.
SeenParsed(m, p) == rows[m][p].id \in run.seen
\* MarkMailIndexSeenBatch, then PurgeUnseenMailIndex deletes what was not seen.
Seen(m, p) == rows[m][p].id \in run.seen \/ <<m, p>> \in run.unchanged
Unseen == {mp \in Messages \X Flags : rows[mp[1]][mp[2]] # None /\ ~Seen(mp[1], mp[2])}
ScanDone ==
    /\ run.pc = "scan" /\ run.todo = {} /\ run.item = None
    /\ IF run.kind = "recovery"
       THEN EndScan(Stopped) /\ UNCHANGED <<rows, journal>>
       ELSE /\ rows' = [m \in Messages |-> [p \in Flags |->
                           IF <<m, p>> \in Unseen THEN None ELSE rows[m][p]]]
            /\ journal' = Cascade(journal, {rows[mp[1]][mp[2]].id : mp \in Unseen})
            /\ EndScan([run EXCEPT !.pc = IF run.kind = "reconciliation" THEN "pending"
                                                                         ELSE "ack"])
    /\ UNCHANGED <<disk, session, plan, faults, meddled, torn>>

\* reconcileRemoteIdentity: which local flags to keep (a queued choice, or one
\* younger than readReconcileGrace: after entry old), and the provider's listing.
Protected(old) == {m \in Messages : Queued(m, run.watermark) # {}
                                    \/ \E i \in EntriesOf(m) : i > old}
Pending ==
    /\ run.pc = "pending"
    /\ \E old \in 0..Len(journal) :
          run' = [run EXCEPT !.pc = "identities", !.protected = Protected(old),
                          !.todo = {[message |-> m, flag |-> remote[m]] : m \in Messages}]
    /\ UNCHANGED <<disk, database, session, plan, faults, history>>

\* UpdateMailIdentity changes the only row of a message in the folder's present
\* directory.
Identify(it) ==
    /\ run.pc = "identities" /\ it \in run.todo /\ it.flag # None
    /\ LET m == it.message
           update(row) == [row EXCEPT !.uid = TRUE, !.fresh = FALSE,
                              !.read = IF m \in run.protected THEN @ ELSE it.flag]
       IN rows' = IF Cardinality(Paths(m)) = 1 /\ m \in run.plan
                  THEN [rows EXCEPT ![m] = [p \in Flags |->
                          IF @[p] = None THEN None ELSE update(@[p])]]
                  ELSE rows
    /\ run' = [run EXCEPT !.todo = @ \ {it}]
    /\ UNCHANGED <<disk, journal, session, plan, faults, history>>
\* reconcileIndexedMessages: every row gets the UID that .mbsyncstate knows its file
\* by, and a new time of change with it.
Hydrated(row) == IF row = None THEN None ELSE [row EXCEPT !.uid = TRUE, !.fresh = FALSE]
Hydrate ==
    /\ run.pc = "identities" /\ \A it \in run.todo : it.flag = None
    /\ rows' = [m \in Messages |-> [p \in Flags |->
                   IF synced[m] # None THEN Hydrated(rows[m][p]) ELSE rows[m][p]]]
    /\ run' = [run EXCEPT !.pc = "stale"]
    /\ UNCHANGED <<disk, journal, session, plan, faults, history>>
\* cleanupStaleIndexedMessage: a message the provider no longer lists loses its file
\* and its rows.
Expunge(it) ==
    /\ run.pc = "stale" /\ it \in run.todo
    /\ LET m == it.message
       IN /\ rows' = [rows EXCEPT ![m] = [p \in Flags |-> None]]
          /\ journal' = Cascade(journal, {rows[m][p].id : p \in Paths(m)})
          /\ file' = IF file[m] \in Paths(m) THEN [file EXCEPT ![m] = None] ELSE file
    /\ run' = [run EXCEPT !.todo = @ \ {it}]
    /\ UNCHANGED <<remote, synced, session, plan, faults, history>>
ToAck ==
    /\ run.pc = "stale" /\ run.todo = {}
    /\ run' = [run EXCEPT !.pc = "ack"]
    /\ UNCHANGED <<disk, database, session, plan, faults, history>>

\* Mutant: acknowledging without the watermark.
AcknowledgedLate == {i \in DOMAIN journal :
    LET m == journal[i].message
    IN /\ journal[i].status = "queued" /\ m \in run.plan
       /\ \E p \in PathOf(m, journal[i].row) : rows[m][p].read = journal[Last(EntriesOf(m))].want}
\* MarkQueuedMutationsSynchronized: up to the watermark, in a covered directory,
\* where the newest choice up to the watermark is what the row says.
Acknowledged == {i \in DOMAIN journal :
    LET m == journal[i].message
        upto == {j \in EntriesOf(m) : /\ journal[j].id <= run.watermark
                                      /\ journal[j].row = journal[i].row}
    IN /\ journal[i].id <= run.watermark /\ journal[i].status = "queued" /\ m \in run.plan
       /\ \E p \in PathOf(m, journal[i].row) : rows[m][p].read = journal[Last(upto)].want}
Ack ==
    /\ run.pc = "ack"
    /\ journal' = [i \in DOMAIN journal |-> IF i \in Acknowledged
                      THEN [journal[i] EXCEPT !.status = "synchronized"] ELSE journal[i]]
    /\ IF run.late THEN BeginScan(Rescue) ELSE run' = Stopped /\ UNCHANGED moved
    /\ UNCHANGED <<disk, rows, session, plan, faults, meddled, torn>>

-----------------------------------------------------------------------------
(* Around them. *)

\* Another client at the provider changes or deletes the message.
Elsewhere(m) ==
    /\ remote[m] # None /\ Fault
    /\ \E f \in {Other(remote[m]), None} : remote' = [remote EXCEPT ![m] = f]
    /\ meddled' = [meddled EXCEPT ![m] = TRUE]
    /\ UNCHANGED <<synced, file, database, session, plan, run, torn, moved>>

\* The user maps folders otherwise.
Replan ==
    /\ Fault
    /\ plan' \in SUBSET Messages \ {plan}
    /\ UNCHANGED <<disk, database, session, run, history>>

\* The process stops: the call, its lock and the run end where they are.
Crash ==
    /\ Fault
    /\ caller' = Quiet /\ listed' = [m \in Messages |-> None]
    /\ run' = [Stopped EXCEPT !.pc = "restart"]
    /\ meddled' = [m \in Messages |-> meddled[m] \/ Changing(m)]
    /\ moved' = {}
    /\ UNCHANGED <<disk, database, toggles, plan, torn>>

Caller == Mark \/ Record
Run ==
    \/ Watermark \/ MbsyncDone \/ Align \/ ToScan \/ Restart \/ Upsert \/ ScanDone
    \/ Pending \/ Hydrate \/ ToAck \/ Ack
    \/ \E m \in Messages : Mbsync(m) \/ Visit(m)
    \/ \E it \in run.todo : Retry(it) \/ Identify(it) \/ Expunge(it)
MailNext ==
    \/ \E m \in Messages : List(m) \/ Rename(m) \/ Elsewhere(m)
    \/ Caller
    \/ \E kind \in Kinds : Start(kind)
    \/ Run \/ RunFails \/ ScanAborts
    \/ Replan \/ Crash
MailSpec == MailInit /\ [][MailNext]_mailVars

\* The lock is short, and Go's mutex starves nobody; reconciliations are started by
\* the sweep, and runs go on; IMAP commands end.
MailFairness == WF_mailVars(Caller) /\ WF_mailVars(Run) /\ SF_mailVars(Align)
                /\ SF_mailVars(Start("reconciliation"))

-----------------------------------------------------------------------------
(* Properties. *)

\* The rows have their types and their ids are a key.
Keyed(rs) ==
    /\ rs \in [Messages -> [Flags -> Row \cup {None}]]
    /\ \A m, n \in Messages : \A p, q \in Flags :
          rs[m][p] # None /\ rs[n][q] # None /\ rs[m][p].id = rs[n][q].id => m = n /\ p = q

\* What the variables hold; ids are a key, and while a change is in progress its
\* caller has the session's copy.
MailTypeOK ==
    /\ remote \in [Messages -> Flags \cup {None}]
    /\ synced \in [Messages -> Flags \cup {None}]
    /\ file \in [Messages -> Flags \cup {None}]
    /\ Keyed(rows)
    /\ journal \in Seq(Entry)
    /\ Len(journal) + (IF caller = Quiet THEN 0 ELSE 1) <= toggles /\ toggles \in 0..MaxToggles
    /\ listed \in [Messages -> Copy \cup {None}]
    /\ caller \in Changes \cup {Quiet}
    /\ caller.pc # "idle" => listed[caller.message] # None
    /\ plan \subseteq Messages
    /\ run \in Runs
    /\ faults \in 0..MaxFaults
    /\ meddled \in [Messages -> BOOLEAN] /\ {torn, moved} \subseteq SUBSET Messages

\* MarkQueuedMutationsSynchronized and FinishQueuedRead tell the truth: when the
\* newest choice for a message is acknowledged and nobody else touched the
\* message since, the provider has that choice.  Not so for a message renamed
\* between the walk's look and its transaction, which gives it a second row, nor for
\* a choice recorded under an id the run then in progress counts as its own:
\* see section 6 of the README.
AcknowledgedIsApplied == \A m \in Messages :
    LET made == {i \in DOMAIN journal : journal[i].message = m}
        newest == journal[Last(made)]
    IN made # {} /\ newest.status = "synchronized" /\ ~Changing(m) /\ ~meddled[m]
       /\ m \notin torn /\ ~newest.reused
        => remote[m] \in {None, newest.want}

\* QueuedMutationWatermark's "changes made while it runs must remain pending for the
\* following run".  The code does not keep this: see section 6 of the README.
ChangesRemainPending == \A m \in Messages :
    LET made == {i \in DOMAIN journal : journal[i].message = m}
        newest == journal[Last(made)]
    IN made # {} /\ newest.reused /\ newest.status = "synchronized"
       /\ ~Changing(m) /\ ~meddled[m] /\ m \notin torn
        => remote[m] \in {None, newest.want}

\* PurgeUnseenMailIndex takes the row of a file that is there only from a message
\* VOXMail itself renamed while the scan ran.
PurgeSpares == ScanDone => \A m \in Messages :
    m \notin moved /\ file[m] # None /\ file[m] \in Paths(m) => rows'[m][file[m]] # None
PurgeSparesUntouched == [][PurgeSpares]_mailVars

\* purgeStale "removes index rows whose maildir file no longer exists".
\* The code does not keep this: see section 6 of the README.
PurgeTakesDeadRows == [][ScanDone => \A m \in Messages :
    file[m] # None /\ file[m] \in Paths(m) => rows'[m][file[m]] # None]_mailVars

\* RecordQueuedRead's choice does not stay queued for ever, if in the end its
\* directory is in the plan or the message has a UID to retry it by.
ChoicesSettle == \A m \in Messages :
    <>[](m \in plan \/ HasUID(m))
        => []<>(\A i \in EntriesOf(m) : journal[i].status # "queued")
==============================================================================
