-------------------------------- MODULE Moves --------------------------------
(***************************************************************************)
(* Moving a message, and deleting one, from the telephone: the list of the *)
(* call with its cursor (calls/dispatch.go, mail_handlers.go), the cached  *)
(* connection to the provider (calls/mail_mutations.go), the commands it   *)
(* sends and how an outcome it did not learn is looked up (imap/client.go),*)
(* the file, the index row and the mutation journal (store/mail.go).       *)
(*                                                                         *)
(* The call's worker runs one operation at a time; its steps are separate  *)
(* actions because the provider, another mail client, mbsync and a hang-up *)
(* come between them.  A message is named to the provider by the UID and   *)
(* UIDVALIDITY it was listed with, or by its Message-ID.                   *)
(***************************************************************************)
EXTENDS Naturals, Sequences, FiniteSets, SequencesExt

CONSTANTS
    Messages,
    Folders,        \* the folders of the account, at the provider and in the Maildir
    Inbox, Trash,   \* the folder that was listed; the one mapped as Trash
    Validity,       \* folder |-> its UIDVALIDITY
    Reconciled,     \* the messages whose UID is in the index (imap_uid # 0)
    Named,          \* the messages that have a Message-ID
    MaxMoves,       \* bound: operations of the call
    MaxFaults,      \* bound: refused, lost or failed steps, expired connections
    MaxOthers,      \* bound: moves by another client, renames by mbsync
    None

ASSUME MovesAssumption ==
    /\ {Inbox, Trash} \subseteq Folders /\ IsFiniteSet(Messages)
    /\ Reconciled \cup Named \subseteq Messages
    /\ {MaxMoves, MaxFaults, MaxOthers} \subseteq Nat

VARIABLES
    at, uid, next,  \* provider: the folder and UID of a message, the UIDNEXT of a folder
    file,           \* the Maildir folder of a message's file
    renamed,        \* messages whose file mbsync renamed after they were listed
    row,            \* the folder of a message's index row, None once it is deleted
    list, cursor,   \* sess.Messages, sess.Cursor
    entry,          \* a listed message: [folder |-> Folder, of, uid |-> its UID and where it counts]
    remoteConn,     \* sess.RemoteConn: "none", "open" or "dead" (cached, but closed)
    op,             \* what the worker is doing
    journal,        \* message_mutations of the call, oldest first
    stranded,       \* history: messages that an unhindered rollback did not bring back
    closed, moves, faults, others

provider == <<at, uid, next>>
local == <<file, renamed, row>>
screen == <<list, cursor, entry>>
movesVars == <<provider, local, screen, remoteConn, op, journal, stranded, closed, moves, faults, others>>

Fault == faults < MaxFaults /\ faults' = faults + 1
Smooth == UNCHANGED faults

Order == SetToSeq(Messages)
Idle == [step |-> "idle"]
Busy == op.step # "idle"
At(step) == op.step = step /\ UNCHANGED <<closed, moves, others>>

MovesInit ==
    /\ at = [m \in Messages |-> Inbox]
    /\ uid = [m \in Messages |-> CHOOSE i \in 1..Len(Order) : Order[i] = m]
    /\ next = [f \in Folders |-> IF f = Inbox THEN Len(Order) + 1 ELSE 1]
    /\ file = at /\ renamed = {} /\ row = at
    /\ list = Order /\ cursor = 0
    /\ entry = [m \in Messages |-> [folder |-> Inbox, of |-> Inbox, uid |-> uid[m]]]
    /\ remoteConn = "none" /\ op = Idle /\ journal = <<>> /\ stranded = {}
    /\ closed = FALSE /\ moves = 0 /\ faults = 0 /\ others = 0

-----------------------------------------------------------------------------
(* The list. *)

Free == ~Busy /\ ~closed
Resting == UNCHANGED <<provider, local, remoteConn, op, journal, stranded, closed, moves, faults, others>>

\* list 2 and 3, read 0: the cursor wraps; 0 skips files that are gone.
Browse ==
    /\ Free /\ list # <<>>
    /\ \/ cursor' = (cursor + 1) % Len(list)
       \/ cursor' = (cursor + Len(list) - 1) % Len(list)
    /\ UNCHANGED <<list, entry>> /\ Resting
AdvanceToPlayable ==
    /\ Free /\ list # <<>>
    /\ \E skipped \in 1..9 : cursor' = (cursor + skipped) % Len(list)
    /\ UNCHANGED <<list, entry>> /\ Resting

\* listFolder: the rows of a folder, in some order, each with the UID that was last
\* reconciled.
ListFolder ==
    /\ Free
    /\ \E f \in Folders :
          /\ list' = SetToSeq({m \in Messages : row[m] = f})
          /\ entry' = [m \in Messages |-> IF row[m] = f THEN [entry[m] EXCEPT !.folder = f] ELSE entry[m]]
    /\ cursor' = 0
    /\ Resting

Chosen == list[cursor + 1]

\* deleteCurrent and moveCurrent, up to the remote move.
Begin(kind, to) ==
    /\ Free /\ moves < MaxMoves /\ moves' = moves + 1
    /\ list # <<>>
    /\ op' = [step |-> "connect", kind |-> kind, m |-> Chosen, from |-> entry[Chosen].folder,
              to |-> to, sent |-> FALSE, left |-> FALSE, back |-> FALSE, clean |-> FALSE, owed |-> FALSE]
    /\ UNCHANGED <<provider, local, screen, remoteConn, journal, stranded, closed, faults, others>>
DeleteCurrent == Begin("delete", Trash)
MoveCurrent == \E to \in Folders : Begin("move", to)

-----------------------------------------------------------------------------
(* The remote move, also used backwards to roll one back. *)

Source == IF op.back THEN op.to ELSE op.from
Target == IF op.back THEN op.from ELSE op.to
ByUID == op.m \in Reconciled /\ ~op.back
ByName == op.m \in Named

\* recordMutation.
Recorded(status) ==
    Append(journal, [kind |-> op.kind, m |-> op.m, from |-> op.from, to |-> op.to, status |-> status])

\* A rollback ends; its outcome is not looked at.  A deletion whose file could
\* not be renamed is recorded only now.
BackEnds(place) ==
    /\ op' = Idle
    /\ journal' = IF op.owed THEN Recorded("partial") ELSE journal
    /\ stranded' = IF op.clean /\ faults' = faults /\ ByName /\ place # op.from
                   THEN stranded \cup {op.m} ELSE stranded

\* moveRemote returns an error: the caller records it and the message stays.
Settle(status) ==
    IF op.back THEN BackEnds(at'[op.m])
    ELSE op' = Idle /\ journal' = Recorded(status) /\ UNCHANGED stranded
\* moveRemote returns without one; left: the copy that was listed is not there now.
Proceed(sent) ==
    IF op.back THEN BackEnds(at'[op.m])
    ELSE /\ op' = [op EXCEPT !.step = "local", !.sent = sent,
                    !.left = sent \/ at'[op.m] # op.from \/ uid'[op.m] # entry[op.m].uid]
         /\ UNCHANGED <<journal, stranded>>

\* remoteConnection reuses what is cached without asking whether it still works.
Connect ==
    /\ At("connect")
    /\ \/ /\ remoteConn # "none" \/ ~closed
          /\ remoteConn' = IF remoteConn = "none" THEN "open" ELSE remoteConn
          /\ op' = [op EXCEPT !.step = "command"] /\ Smooth
          /\ UNCHANGED <<provider, journal, stranded>>
       \/ /\ remoteConn = "none" /\ (IF closed THEN Smooth ELSE Fault)
          /\ UNCHANGED <<provider, remoteConn>>
          /\ Settle("failed")
    /\ UNCHANGED <<local, screen>>

\* Mutant: a stale UIDVALIDITY is not noticed.
AnyValidity(folder) == TRUE
SameValidity(folder) == Validity[folder] = Validity[entry[op.m].of]

\* uidSet and find: the messages that the command would act on.
Hit == IF ByUID THEN {x \in Messages : at[x] = Source /\ uid[x] = entry[op.m].uid} ELSE {op.m}
Found == IF ByUID THEN SameValidity(Source) ELSE at[op.m] = Source

\* The connection does not work any more (dropRemoteConnection), the message is
\* not found, or it has no identity; in this case the deferred Close leaves a
\* closed connection in the cache.
CommandImpossible ==
    /\ At("command") /\ Smooth
    /\ \/ remoteConn # "open" /\ remoteConn' = "none"
       \/ remoteConn = "open" /\ ~ByUID /\ ~ByName /\ remoteConn' = "dead"
       \/ remoteConn = "open" /\ (ByUID \/ ByName) /\ ~Found /\ remoteConn' = "none"
    /\ UNCHANGED <<provider, local, screen>>
    /\ Settle("failed")

CanAct == At("command") /\ remoteConn = "open" /\ (ByUID \/ ByName) /\ Found

\* UID MOVE: moved messages get the next UID of their new folder; a UID that is
\* not there is no error.
Apply(moved) ==
    /\ at' = [x \in Messages |-> IF x \in moved THEN Target ELSE at[x]]
    /\ uid' = [x \in Messages |-> IF x \in moved THEN next[Target] ELSE uid[x]]
    /\ next' = [next EXCEPT ![Target] = IF moved = {} THEN @ ELSE @ + 1]

CommandSucceeds ==
    /\ CanAct /\ Smooth
    /\ Apply(Hit)
    /\ remoteConn' = "dead"
    /\ Proceed(op.m \in Hit)
    /\ UNCHANGED <<local, screen>>
CommandRefused ==
    /\ CanAct /\ Fault
    /\ remoteConn' = "none"
    /\ UNCHANGED <<provider, local, screen>>
    /\ Settle("failed")
\* Mutant: a lost connection is taken for a refusal.
LostIsRefused ==
    /\ CanAct /\ Fault
    /\ remoteConn' = "none"
    /\ \E moved \in {Hit, {}} : Apply(moved)
    /\ UNCHANGED <<local, screen>>
    /\ Settle("failed")
\* The transport fails under the command, which the server did or did not execute.
CommandLost ==
    /\ CanAct /\ Fault
    /\ remoteConn' = "none"
    /\ \E moved \in {Hit, {}} :
          /\ Apply(moved)
          /\ op' = [op EXCEPT !.step = "reconcile", !.sent = op.m \in moved]
    /\ UNCHANGED <<local, screen, journal, stranded>>

\* ReconcileMoveByUID and ReconcileMove.
Verdict ==
    CASE ByUID /\ Hit # {} -> "notApplied"
      [] ByUID /\ Hit = {} -> "unknown"
      [] ~ByUID /\ Source = Target -> "unknown"
      [] ~ByUID /\ Source # Target ->
            (CASE at[op.m] = Target -> "applied"
               [] at[op.m] = Source -> "notApplied"
               [] OTHER -> "unknown")

\* reconcileRemoteMove looks with a connection of its own, which stays cached.
Reconcile ==
    /\ At("reconcile")
    /\ UNCHANGED <<provider, local, screen>>
    /\ \/ (IF closed THEN Smooth ELSE Fault) /\ remoteConn' = "none" /\ Settle("uncertain")
       \/ ~closed /\ Fault /\ remoteConn' = "open" /\ Settle("uncertain")
       \/ /\ ~closed /\ Smooth /\ remoteConn' = "open"
          /\ CASE Verdict = "applied" -> Proceed(op.sent)
               [] Verdict = "notApplied" -> Settle("failed")
               [] Verdict = "unknown" -> Settle("uncertain")

-----------------------------------------------------------------------------
(* The file and the index. *)

RollBack(owed) == op' = [op EXCEPT !.step = "connect", !.back = TRUE, !.clean = TRUE, !.owed = owed]

\* Mutant: the cursor is left where it was.
KeptCursor(count) == cursor
\* Mutant: the last message leaves the cursor before the list.
LastCursor(count) == IF cursor < count THEN cursor ELSE count - 1
\* deleteCurrent: the message leaves the list, the cursor goes to a neighbour.
ClampedCursor(count) == IF cursor < count THEN cursor ELSE IF count > 0 THEN count - 1 ELSE 0

DeleteLocally ==
    /\ At("local") /\ op.kind = "delete"
    /\ file' = [file EXCEPT ![op.m] = op.to] /\ renamed' = renamed \ {op.m}
    /\ journal' = Recorded("success")
    /\ \/ Smooth /\ row' = [row EXCEPT ![op.m] = None]
       \/ Fault /\ UNCHANGED row
    /\ list' = RemoveAt(list, cursor + 1)
    /\ cursor' = ClampedCursor(Len(list) - 1)
    /\ op' = Idle
    /\ UNCHANGED <<provider, entry, remoteConn, stranded>>
\* No Trash folder can be made, or the file cannot be renamed.
DeleteFails ==
    /\ At("local") /\ op.kind = "delete" /\ Fault
    /\ \/ journal' = Recorded("partial") /\ RollBack(FALSE)
       \/ UNCHANGED journal /\ RollBack(TRUE)
    /\ UNCHANGED <<provider, local, screen, remoteConn, stranded>>

\* moveCurrent, which only knows the listed name of the file.
MoveFile ==
    /\ At("local") /\ op.kind = "move" /\ op.m \notin renamed /\ Smooth
    /\ file' = [file EXCEPT ![op.m] = op.to]
    /\ op' = [op EXCEPT !.step = "index"]
    /\ UNCHANGED <<provider, renamed, row, screen, remoteConn, journal, stranded>>
MoveFails ==
    /\ At("local") /\ op.kind = "move"
    /\ IF op.m \in renamed THEN Smooth ELSE Fault
    /\ journal' = Recorded("partial") /\ RollBack(FALSE)
    /\ UNCHANGED <<provider, local, screen, remoteConn, stranded>>
MoveIndex ==
    /\ At("index") /\ Smooth
    /\ row' = [row EXCEPT ![op.m] = op.to]
    /\ entry' = [entry EXCEPT ![op.m].folder = op.to]
    /\ journal' = Recorded("success") /\ op' = Idle
    /\ UNCHANGED <<provider, file, renamed, list, cursor, remoteConn, stranded>>
MoveIndexFails ==
    /\ At("index") /\ Fault
    /\ file' = [file EXCEPT ![op.m] = op.from]
    /\ journal' = Recorded("partial") /\ RollBack(FALSE)
    /\ UNCHANGED <<provider, renamed, row, screen, remoteConn, stranded>>

-----------------------------------------------------------------------------
(* The surroundings. *)

Disturbed == op' = IF Busy THEN [op EXCEPT !.clean = FALSE] ELSE op

\* closeCall cancels the context of a connection that is open or being opened.
HangUp ==
    /\ ~closed /\ closed' = TRUE
    /\ remoteConn' = "none" /\ Disturbed
    /\ UNCHANGED <<provider, local, screen, journal, stranded, moves, faults, others>>
\* A connection lives for operationTimeout.
ConnectionExpires ==
    /\ remoteConn = "open" /\ Fault
    /\ remoteConn' = "dead" /\ Disturbed
    /\ UNCHANGED <<provider, local, screen, journal, stranded, closed, moves, others>>
OtherClientMoves ==
    /\ others < MaxOthers /\ others' = others + 1
    /\ \E m \in Messages, f \in Folders :
          /\ at[m] # f
          /\ at' = [at EXCEPT ![m] = f]
          /\ uid' = [uid EXCEPT ![m] = next[f]]
          /\ next' = [next EXCEPT ![f] = @ + 1]
    /\ Disturbed
    /\ UNCHANGED <<local, screen, remoteConn, journal, stranded, closed, moves, faults>>
\* mbsync renames the file of a message whose flags changed elsewhere.
MbsyncRenames ==
    /\ others < MaxOthers /\ others' = others + 1
    /\ \E m \in Messages : renamed' = renamed \cup {m}
    /\ Disturbed
    /\ UNCHANGED <<provider, file, row, screen, remoteConn, journal, stranded, closed, moves, faults>>

RemoteSteps ==
    \/ Connect \/ CommandImpossible \/ CommandSucceeds \/ CommandRefused \/ CommandLost \/ Reconcile
LocalSteps ==
    \/ DeleteLocally \/ DeleteFails \/ MoveFile \/ MoveFails \/ MoveIndex \/ MoveIndexFails
MovesNext ==
    \/ Browse \/ AdvanceToPlayable \/ ListFolder \/ DeleteCurrent \/ MoveCurrent
    \/ RemoteSteps \/ LocalSteps
    \/ HangUp \/ ConnectionExpires \/ OtherClientMoves \/ MbsyncRenames
MovesSpec == MovesInit /\ [][MovesNext]_movesVars

-----------------------------------------------------------------------------
(* Properties. *)

Operation == [step : {"connect", "command", "reconcile", "local", "index"},
    kind : {"delete", "move"}, m : Messages, from : Folders, to : Folders,
    sent : BOOLEAN, left : BOOLEAN, back : BOOLEAN, clean : BOOLEAN, owed : BOOLEAN]

\* The cursor points into the list, which deleteCurrent and the list keys index
\* without a check.
CursorInRange == IF list = <<>> THEN cursor = 0 ELSE cursor < Len(list)

\* Every variable has its type, and the cursor its range.
MovesTypeOK ==
    /\ CursorInRange
    /\ {at[m] : m \in Messages} \cup {file[m] : m \in Messages} \subseteq Folders
    /\ row \in [Messages -> Folders \cup {None}]
    /\ renamed \cup stranded \subseteq Messages
    /\ list \in Seq(Messages) /\ IsInjective(list) /\ cursor \in Nat
    /\ \A m \in Messages : {entry[m].folder, entry[m].of} \subseteq Folders
    /\ remoteConn \in {"none", "open", "dead"} /\ closed \in BOOLEAN
    /\ op \in Operation \cup {Idle}

\* What the journal and the caller are told is so at the provider: "success" is
\* only recorded when the chosen copy has left its folder and the file is in the
\* new one, "failed" only when the message did not move, or is back.
ToldTruly ==
    Len(journal') > Len(journal) =>
          LET told == Last(journal') IN
          /\ told.status = "success" =>
                /\ op.left
                /\ file'[told.m] = told.to
          /\ told.status = "failed" => at' = at /\ (~op.sent \/ at[told.m] = told.from)
JournalIsTrue == [][ToldTruly]_movesVars

\* No operation of the call moves a message that the caller did not choose: a UID
\* is only used in the folder it was listed in (ErrUIDValidityChanged).
MovesChosen == others' = others => \A m \in Messages : at'[m] # at[m] => Busy /\ m = op.m
OnlyTheChosen == [][MovesChosen]_movesVars

\* rollbackRemoteMove brings a message back when nothing hinders it: no failure,
\* no hang-up and no other client from its beginning to its end.
\* The code does not keep this: see section 6 of the README.
RollbackRestores == stranded = {}
=============================================================================
