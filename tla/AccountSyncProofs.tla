-------------------------- MODULE AccountSyncProofs --------------------------
(***************************************************************************)
(* Proofs of the safety properties of AccountSync, for every set of        *)
(* requests, watchers and deletions and every value of the bounds.         *)
(***************************************************************************)
EXTENDS AccountSync, TLAPS

------------------------------------------------------------------------------
(* Types *)

LEMMA Members == /\ Sweep \in Syncers /\ Requests \subseteq Syncers /\ Watchers \subseteq Syncers
                 /\ Console \subseteq Syncers /\ None \notin Syncers
BY SyncersAssumption DEF Syncers, Requests

LEMMA NoTaskType == /\ NoTask \in Task
                    /\ NoTask.pc = "idle" /\ NoTask.run = 0 /\ NoTask.version = 0
BY BoundsAssumption DEF NoTask, Task, Kinds, Owning

\* A cancellation changes nothing of a task but its flag.
LEMMA CancelKeeps ==
  ASSUME NEW tasks \in [Syncers -> Task], NEW s \in Syncers
  PROVE  /\ CancelTask(tasks, s) \in [Syncers -> Task]
         /\ \A x \in Syncers : /\ CancelTask(tasks, s)[x].pc = tasks[x].pc
                               /\ CancelTask(tasks, s)[x].run = tasks[x].run
                               /\ CancelTask(tasks, s)[x].version = tasks[x].version
                               /\ CancelTask(tasks, s)[x].ok = tasks[x].ok
<1>1. [tasks[s] EXCEPT !.cancelled = TRUE] \in Task
  BY DEF Task
<1>2. CASE tasks[s].pc \in Owning
  <2>1. CancelTask(tasks, s) = [tasks EXCEPT ![s] = [tasks[s] EXCEPT !.cancelled = TRUE]]
    BY <1>2 DEF CancelTask
  <2>2. /\ [tasks[s] EXCEPT !.cancelled = TRUE].pc = tasks[s].pc
        /\ [tasks[s] EXCEPT !.cancelled = TRUE].run = tasks[s].run
        /\ [tasks[s] EXCEPT !.cancelled = TRUE].version = tasks[s].version
        /\ [tasks[s] EXCEPT !.cancelled = TRUE].ok = tasks[s].ok
    BY DEF Task
  <2> QED BY <1>1, <2>1, <2>2
<1>3. CASE tasks[s].pc \notin Owning
  BY <1>3 DEF CancelTask
<1> QED BY <1>2, <1>3

PCs == Owning \cup {"idle", "claim"}

\* What a change of a task leaves of it.
LEMMA MoveTask ==
  ASSUME NEW t \in Task, NEW p \in PCs
  PROVE  LET u == [t EXCEPT !.pc = p]
         IN u \in Task /\ u.pc = p /\ u.run = t.run /\ u.version = t.version
BY DEF Task, PCs

LEMMA StepKeeps ==
  ASSUME task \in [Syncers -> Task], NEW s \in Syncers, NEW p \in PCs
  PROVE  /\ ToStep(s, p) \in [Syncers -> Task]
         /\ ToStep(s, p)[s].pc = p
         /\ \A x \in Syncers : /\ ToStep(s, p)[x].run = task[x].run
                               /\ x # s => ToStep(s, p)[x] = task[x]
<1>1. ToStep(s, p) = [task EXCEPT ![s] = [task[s] EXCEPT !.pc = p]]
  BY DEF ToStep
<1> QED BY <1>1, MoveTask

LEMMA OverType ==
  ASSUME task \in [Syncers -> Task], NEW s \in Syncers
  PROVE  Over(s) \in Task /\ Over(s).pc = "idle" /\ Over(s).run = 0
<1>1. PICK n \in 0 .. MaxVersion : Over(s) = [NoTask EXCEPT !.version = n]
  BY BoundsAssumption DEF Over, Task
<1> QED BY <1>1, NoTaskType DEF Task

LEMMA ClaimType ==
  ASSUME NEW n \in 0 .. MaxVersion, NEW k \in Kinds
  PROVE  /\ [NoTask EXCEPT !.pc = "claim", !.version = n] \in Task
         /\ [NoTask EXCEPT !.pc = "claim", !.kind = k, !.version = n] \in Task
BY BoundsAssumption DEF NoTask, Task, Kinds

LEMMA BegunType ==
  ASSUME NEW t \in Task, NEW k \in Kinds, NEW c \in BOOLEAN
  PROVE  LET u == [t EXCEPT !.pc = "begin", !.kind = k, !.cancelled = c]
         IN u \in Task /\ u.pc = "begin" /\ u.run = t.run
BY DEF Task, Owning, Kinds

------------------------------------------------------------------------------
(* Every step seen from the tasks: who is where, who owns the account, which  *)
(* runs are open and who waits for an answer.  The invariants of the syncs    *)
(* are proved over these nine forms instead of over the actions.              *)

SyncTypes ==
  /\ task \in [Syncers -> Task] /\ version \in 0 .. MaxVersion
  /\ active \in Syncers \cup {None} /\ registered \in Watchers \cup {None}
  /\ runs \in Seq(Run) /\ answer \in [Console -> {"none", "waiting", "admitted", "refused", "left"}]

Same(x) == task'[x].pc = task[x].pc /\ task'[x].run = task[x].run
Goes(s, from, to) ==
  /\ task[s].pc = from /\ task'[s].pc = to
  /\ \A x \in Syncers \ {s} : Same(x)
WaitersLeft(s) == \A c \in Console : answer'[c] = "waiting" => answer[c] = "waiting" /\ c # s

Still ==
  /\ \A x \in Syncers : Same(x)
  /\ active' = active /\ runs' \in {runs, <<>>}
  /\ \A c \in Console : answer'[c] = "waiting" => answer[c] = "waiting"
Asks(s) ==
  /\ row = "live" \/ DOMAIN runs # {}
  /\ Goes(s, "idle", "claim") /\ task'[s].run \in {0, task[s].run}
  /\ UNCHANGED <<active, runs>>
  /\ \A c \in Console : answer'[c] = "waiting" => answer[c] = "waiting" \/ c = s
Gives(s) ==
  /\ Goes(s, "claim", "idle") /\ task'[s].run = 0
  /\ UNCHANGED <<active, runs>> /\ WaitersLeft(s)
Takes(s) ==
  /\ ~stopping /\ Goes(s, "claim", "begin") /\ task'[s].run = task[s].run
  /\ active = None /\ active' = s /\ UNCHANGED <<runs, answer>>
Aborts(s) ==
  /\ Goes(s, "begin", "idle") /\ task'[s].run = 0
  /\ active' = None /\ runs' = runs /\ WaitersLeft(s)
Inserts(s) ==
  /\ row # "gone"
  /\ \E pc \in Owning \ {"begin"} : Goes(s, "begin", pc)
  /\ task'[s].run = Len(runs) + 1
  /\ \E k \in Kinds : runs' = Append(runs, [kind |-> k, state |-> "open"])
  /\ active' = active /\ WaitersLeft(s)
Moves(s) ==
  /\ \E from \in Owning \ {"begin", "finish"}, to \in Owning \ {"begin"} : Goes(s, from, to)
  /\ task'[s].run = task[s].run /\ UNCHANGED <<active, runs, answer>>
Releases(s) ==
  /\ Goes(s, "finish", "idle") /\ task'[s].run = 0 /\ active' = None /\ answer' = answer
  /\ \/ task[s].run \notin DOMAIN runs /\ runs' = runs
     \/ /\ task[s].run \in DOMAIN runs
        /\ \E state \in {"success", "failed", "unclosed"} :
             runs' = [runs EXCEPT ![task[s].run].state = state]
Resets ==
  /\ \A x \in Syncers : task'[x].pc = "idle" /\ task'[x].run = 0
  /\ active' = None
  /\ runs' = [i \in DOMAIN runs |->
                IF runs[i].state \in {"open", "unclosed"}
                THEN [runs[i] EXCEPT !.state = "interrupted"] ELSE runs[i]]
  /\ \A c \in Console : answer'[c] # "waiting"

Form ==
  \/ Still \/ Resets
  \/ \E s \in Syncers : Asks(s) \/ Gives(s) \/ Takes(s) \/ Aborts(s) \/ Inserts(s) \/ Moves(s) \/ Releases(s)

LEMMA RunKinds == NextKinds \subseteq Kinds
BY DEF NextKinds, Kinds

LEMMA StepMoves ==
  ASSUME SyncTypes, NEW s \in Syncers, task[s].pc \in {"recover", "provider", "pull", "import", "settle", "rescue"},
         \E pc \in Owning \ {"begin"} : task' = ToStep(s, pc), UNCHANGED <<active, runs, answer>>
  PROVE  task' \in [Syncers -> Task] /\ Form
<1>1. PICK pc \in Owning \ {"begin"} : task' = ToStep(s, pc)
  OBVIOUS
<1>2. task' \in [Syncers -> Task] /\ Goes(s, task[s].pc, pc) /\ task'[s].run = task[s].run
  BY <1>1, StepKeeps DEF SyncTypes, Goes, Same, PCs
<1>3. task[s].pc \in Owning \ {"begin", "finish"}
  BY DEF Owning
<1> QED BY <1>2, <1>3 DEF Form, Moves

LEMMA Forms ==
  ASSUME SyncTypes, [Next]_vars PROVE task' \in [Syncers -> Task] /\ Form
<1> USE Members DEF SyncTypes
<1>1. ASSUME SweepLists PROVE task' \in [Syncers -> Task] /\ Form
  <2>1. task' = [task EXCEPT ![Sweep] = [NoTask EXCEPT !.pc = "claim", !.version = version]]
    BY <1>1 DEF SweepLists
  <2>2. /\ [NoTask EXCEPT !.pc = "claim", !.version = version].run = 0
        /\ [NoTask EXCEPT !.pc = "claim", !.version = version].pc = "claim"
    BY DEF NoTask
  <2>3. task' \in [Syncers -> Task] /\ Asks(Sweep)
    BY <1>1, <2>1, <2>2, ClaimType DEF SweepLists, Asks, Goes, Same, store, disk, Kinds
  <2> QED BY <2>3 DEF Form
<1>2. ASSUME NEW r \in Requests, Refresh(r) PROVE task' \in [Syncers -> Task] /\ Form
  <2> DEFINE t == [NoTask EXCEPT !.pc = "claim", !.kind = "manual", !.version = version]
  <2>1. task' = [task EXCEPT ![r] = t]
    BY <1>2 DEF Refresh
  <2>2. t.run = 0 /\ t.pc = "claim" /\ t \in Task
    <3>1. t.run = 0 /\ t.pc = "claim"
      BY DEF NoTask
    <3> QED BY <3>1, ClaimType DEF Kinds
  <2>3. task' \in [Syncers -> Task] /\ Goes(r, "idle", "claim") /\ task'[r].run = 0
    <3> HIDE DEF t
    <3> QED BY <1>2, <2>1, <2>2 DEF Refresh, Goes, Same
  <2>4. Asks(r)
    BY <1>2, <2>3 DEF Refresh, Asks, store
  <2> QED BY <2>3, <2>4 DEF Form
<1>3. ASSUME NEW r \in Console, RequestLeaves(r) PROVE task' \in [Syncers -> Task] /\ Form
  BY <1>3 DEF RequestLeaves, sync, Form, Still, Same, store, disk, idle, others
<1>4. ASSUME NEW w \in Watchers, IdleNotified(w) PROVE task' \in [Syncers -> Task] /\ Form
  <2> DEFINE t == [[task[w] EXCEPT !.pc = "claim"] EXCEPT !.kind = "incremental"]
  <2>1. task' = [task EXCEPT ![w] = t]
    BY <1>4 DEF IdleNotified
  <2>2. t.run = task[w].run /\ t.pc = "claim" /\ t \in Task
    BY DEF Task, Kinds
  <2>3. task' \in [Syncers -> Task] /\ Goes(w, "idle", "claim") /\ task'[w].run = task[w].run
    <3> HIDE DEF t
    <3> QED BY <1>4, <2>1, <2>2 DEF IdleNotified, Goes, Same
  <2>4. Asks(w)
    BY <1>4, <2>3 DEF IdleNotified, Asks, Succeeded, store
  <2> QED BY <2>3, <2>4 DEF Form
<1>5. ASSUME NEW w \in Watchers, WatcherExits(w) PROVE task' \in [Syncers -> Task] /\ Form
  BY <1>5, CancelKeeps DEF WatcherExits, Form, Still, Same, store, disk
<1>6. ASSUME NEW s \in Syncers, Claim(s) PROVE task' \in [Syncers -> Task] /\ Form
  <2>1. CASE Refused
    <3>1. /\ task' = [task EXCEPT ![s] = Over(s)]
          /\ active' = active
          /\ answer' = Answered(s, "refused")
      BY <1>6, <2>1 DEF Claim
    <3>2. Gives(s) /\ task' \in [Syncers -> Task]
      BY <1>6, <3>1, OverType DEF Claim, Gives, Goes, Same, WaitersLeft, Answered, store
    <3> QED BY <3>2 DEF Form
  <2>2. CASE ~Refused
    <3>1. \E k \in Kinds, c \in BOOLEAN :
            task' = [task EXCEPT ![s] = [task[s] EXCEPT !.pc = "begin", !.kind = k, !.cancelled = c]]
      <4>1. NextKinds \subseteq Kinds
        BY RunKinds
      <4>2. task[s].kind \in Kinds
        BY DEF Task
      <4>3. PICK k \in Kinds : task' = [task EXCEPT ![s].pc = "begin", ![s].kind = k,
                      ![s].cancelled = s \in Watchers /\ watch[s] = "cancelled"]
        BY <1>6, <2>2, <4>1, <4>2 DEF Claim
      <4> QED BY <4>3
    <3>2. Goes(s, "claim", "begin") /\ task'[s].run = task[s].run /\ task' \in [Syncers -> Task]
      <4>1. PICK k \in Kinds, c \in BOOLEAN :
              task' = [task EXCEPT ![s] = [task[s] EXCEPT !.pc = "begin", !.kind = k, !.cancelled = c]]
        BY <3>1
      <4> DEFINE u == [task[s] EXCEPT !.pc = "begin", !.kind = k, !.cancelled = c]
      <4>2. u \in Task /\ u.pc = "begin" /\ u.run = task[s].run
        <5>1. task[s] \in Task
          OBVIOUS
        <5> QED BY <5>1 DEF Task, Owning, Kinds
      <4>3. task' = [task EXCEPT ![s] = u]
        BY <4>1
      <4> HIDE DEF u
      <4> QED BY <1>6, <4>2, <4>3 DEF Claim, Goes, Same
    <3>3. ~stopping /\ active = None /\ active' = s /\ UNCHANGED <<runs, answer>>
      BY <1>6, <2>2 DEF Claim, Refused, store
    <3> QED BY <3>2, <3>3 DEF Form, Takes
  <2> QED BY <2>1, <2>2
<1>7. ASSUME NEW s \in Syncers, Begin(s) PROVE task' \in [Syncers -> Task] /\ Form
  <2>1. CASE /\ task' = [task EXCEPT ![s] = Over(s)]
             /\ active' = None
             /\ answer' = Answered(s, "refused")
             /\ runs' = runs
    <3>1. Aborts(s) /\ task' \in [Syncers -> Task]
      BY <1>7, <2>1, OverType DEF Begin, Aborts, Goes, Same, WaitersLeft, Answered
    <3> QED BY <3>1 DEF Form
  <2>2. CASE /\ row # "gone" /\ runs' = Append(runs, [kind |-> task[s].kind, state |-> "open"])
             /\ answer' = Answered(s, "admitted") /\ active' = active
             /\ \E pc \in {"recover", "provider", "finish"} :
                  task' = [task EXCEPT ![s].run = Len(runs) + 1, ![s].pc = pc]
    <3>1. PICK pc \in {"recover", "provider", "finish"} :
            task' = [task EXCEPT ![s].run = Len(runs) + 1, ![s].pc = pc]
      BY <2>2
    <3>2. task' = [task EXCEPT ![s] = [[task[s] EXCEPT !.run = Len(runs) + 1] EXCEPT !.pc = pc]]
      BY <3>1
    <3>3. LET u == [[task[s] EXCEPT !.run = Len(runs) + 1] EXCEPT !.pc = pc]
          IN u \in Task /\ u.pc = pc /\ u.run = Len(runs) + 1
      <4>1. Len(runs) + 1 \in Nat
        OBVIOUS
      <4> QED BY <4>1 DEF Task, Owning
    <3>4. task' \in [Syncers -> Task] /\ Goes(s, "begin", pc) /\ task'[s].run = Len(runs) + 1
      BY <1>7, <3>2, <3>3 DEF Begin, Goes, Same
    <3>5. WaitersLeft(s)
      BY <2>2 DEF WaitersLeft, Answered
    <3>6. task[s].kind \in Kinds /\ pc \in Owning \ {"begin"}
      BY DEF Task, Owning
    <3>7. Inserts(s)
      BY <2>2, <3>4, <3>5, <3>6 DEF Inserts
    <3> QED BY <3>4, <3>7 DEF Form
  <2> QED BY <1>7, <2>1, <2>2 DEF Begin
<1>8. ASSUME NEW s \in Syncers, Recover(s) PROVE task' \in [Syncers -> Task] /\ Form
  <2>1. \E pc \in {"provider", "rescue"} : task' = ToStep(s, pc)
    BY <1>8 DEF Recover, Fails, Succeeds
  <2>2. task[s].pc = "recover" /\ UNCHANGED <<active, runs, answer>>
    BY <1>8 DEF Recover, InStep, store
  <2> QED BY <2>1, <2>2, StepMoves DEF Owning
<1>9. ASSUME NEW s \in Syncers, Provider(s) PROVE task' \in [Syncers -> Task] /\ Form
  <2>1. \E pc \in {"pull", "rescue"} : task' = ToStep(s, pc)
    BY <1>9 DEF Provider, Fails, Succeeds
  <2>2. task[s].pc = "provider" /\ UNCHANGED <<active, runs, answer>>
    BY <1>9 DEF Provider, InStep, store
  <2> QED BY <2>1, <2>2, StepMoves DEF Owning
<1>10. ASSUME NEW s \in Syncers, Pull(s) PROVE task' \in [Syncers -> Task] /\ Form
  <2>1. \E pc \in {"import", "rescue"} : task' = ToStep(s, pc)
    BY <1>10 DEF Pull, Fails, Succeeds
  <2>2. task[s].pc = "pull" /\ UNCHANGED <<active, runs, answer>>
    BY <1>10 DEF Pull, InStep, store
  <2> QED BY <2>1, <2>2, StepMoves DEF Owning
<1>11. ASSUME NEW s \in Syncers, Import(s) PROVE task' \in [Syncers -> Task] /\ Form
  <2>1. \E pc \in {"settle", "rescue"} : task' = ToStep(s, pc)
    BY <1>11 DEF Import, Fails, Succeeds
  <2>2. task[s].pc = "import" /\ UNCHANGED <<active, runs, answer>>
    BY <1>11 DEF Import, InStep, store
  <2> QED BY <2>1, <2>2, StepMoves DEF Owning
<1>12. ASSUME NEW s \in Syncers, Settle(s) PROVE task' \in [Syncers -> Task] /\ Form
  <2>1. CASE task' = [task EXCEPT ![s].pc = "finish", ![s].ok = TRUE]
    <3>1. task' = [task EXCEPT ![s] = [[task[s] EXCEPT !.pc = "finish"] EXCEPT !.ok = TRUE]]
      BY <2>1
    <3>2. LET u == [[task[s] EXCEPT !.pc = "finish"] EXCEPT !.ok = TRUE]
          IN u \in Task /\ u.pc = "finish" /\ u.run = task[s].run
      BY DEF Task, Owning
    <3>3. task' \in [Syncers -> Task] /\ Goes(s, "settle", "finish") /\ task'[s].run = task[s].run
      BY <1>12, <3>1, <3>2 DEF Settle, InStep, Goes, Same
    <3>4. Moves(s)
      BY <1>12, <3>3 DEF Settle, InStep, Moves, Owning, store
    <3> QED BY <3>3, <3>4 DEF Form
  <2>2. CASE task' = ToStep(s, "rescue")
    BY <1>12, <2>2, StepMoves DEF Settle, InStep, store, Owning
  <2> QED BY <1>12, <2>1, <2>2 DEF Settle, Fails
<1>13. ASSUME NEW s \in Syncers, Rescue(s) PROVE task' \in [Syncers -> Task] /\ Form
  <2>1. \E pc \in {"finish", "rescue"} : task' = ToStep(s, pc)
    BY <1>13 DEF Rescue
  <2>2. task[s].pc = "rescue" /\ UNCHANGED <<active, runs, answer>>
    BY <1>13 DEF Rescue, InStep, store
  <2> QED BY <2>1, <2>2, StepMoves DEF Owning
<1>14. ASSUME NEW s \in Syncers, Finish(s) PROVE task' \in [Syncers -> Task] /\ Form
  <2>1. task' \in [Syncers -> Task] /\ Goes(s, "finish", "idle") /\ task'[s].run = 0
    BY <1>14, OverType DEF Finish, Goes, Same
  <2>2. \A state \in {Closed(s), "unclosed"} : state \in {"success", "failed", "unclosed"}
    BY DEF Closed
  <2>3. Releases(s)
    BY <1>14, <2>1, <2>2 DEF Finish, Releases
  <2> QED BY <2>1, <2>3 DEF Form
<1>15. ASSUME CancelManual PROVE task' \in [Syncers -> Task] /\ Form
  <2>1. active \in Syncers
    BY <1>15 DEF CancelManual
  <2>2. task' = [task EXCEPT ![active] = [task[active] EXCEPT !.cancelled = TRUE]]
    BY <1>15 DEF CancelManual
  <2>3. LET t == [task[active] EXCEPT !.cancelled = TRUE]
        IN t \in Task /\ t.pc = task[active].pc /\ t.run = task[active].run
    BY <2>1 DEF Task
  <2>4. task' \in [Syncers -> Task] /\ \A x \in Syncers : Same(x)
    BY <2>1, <2>2, <2>3 DEF Same
  <2> QED BY <1>15, <2>4 DEF CancelManual, Form, Still, store, disk
<1>16. ASSUME Reconcile PROVE task' \in [Syncers -> Task] /\ Form
  <2> DEFINE tasks == IF Outdated THEN CancelTask(task, registered) ELSE task
  <2>1. tasks \in [Syncers -> Task] /\ \A x \in Syncers : tasks[x].pc = task[x].pc /\ tasks[x].run = task[x].run
    BY CancelKeeps DEF Outdated
  <2>2. task' = tasks \/ \E w \in Watchers : task' = [tasks EXCEPT ![w].version = version]
    BY <1>16 DEF Reconcile
  <2> HIDE DEF tasks
  <2>3. ASSUME NEW w \in Watchers, task' = [tasks EXCEPT ![w].version = version]
        PROVE  task' \in [Syncers -> Task] /\ \A x \in Syncers : Same(x)
    <3>1. task' = [tasks EXCEPT ![w] = [tasks[w] EXCEPT !.version = version]]
      BY <2>3
    <3>2. LET t == [tasks[w] EXCEPT !.version = version]
          IN t \in Task /\ t.pc = tasks[w].pc /\ t.run = tasks[w].run
      <4>1. tasks[w] \in Task
        BY <2>1
      <4> QED BY <4>1 DEF Task
    <3> QED BY <2>1, <3>1, <3>2 DEF Same
  <2>4. task' \in [Syncers -> Task] /\ \A x \in Syncers : Same(x)
    BY <2>1, <2>2, <2>3 DEF Same
  <2> QED BY <1>16, <2>4 DEF Reconcile, Form, Still, store, disk
<1>17. ASSUME NEW d \in Deletes, DeleteRequested(d) PROVE task' \in [Syncers -> Task] /\ Form
  BY <1>17 DEF DeleteRequested, Event, DeleteAt, sync, Form, Still, Same, disk, idle
<1>18. ASSUME NEW d \in Deletes, BeginDeletion(d) PROVE task' \in [Syncers -> Task] /\ Form
  BY <1>18 DEF BeginDeletion, Event, DeleteAt, sync, Form, Still, Same, disk, idle
<1>19. ASSUME NEW d \in Deletes, StopMarks(d) PROVE task' \in [Syncers -> Task] /\ Form
  <2>1. task' \in [Syncers -> Task] /\ \A x \in Syncers : Same(x)
    BY <1>19, CancelKeeps DEF StopMarks, Same
  <2> QED BY <1>19, <2>1 DEF StopMarks, DeleteAt, Form, Still
<1>20. ASSUME NEW d \in Deletes, StopWaits(d) PROVE task' \in [Syncers -> Task] /\ Form
  BY <1>20 DEF StopWaits, Event, DeleteAt, sync, Form, Still, Same, disk, idle
<1>21. ASSUME NEW d \in Deletes, DeleteFails(d) PROVE task' \in [Syncers -> Task] /\ Form
  BY <1>21 DEF DeleteFails, Event, DeleteAt, sync, Form, Still, Same, disk, idle
<1>22. ASSUME NEW d \in Deletes, FinalizeDeletion(d) PROVE task' \in [Syncers -> Task] /\ Form
  BY <1>22 DEF FinalizeDeletion, RowRemoved, sync, Form, Still, Same, idle
<1>23. ASSUME NEW d \in Deletes, RemoveUser(d) PROVE task' \in [Syncers -> Task] /\ Form
  BY <1>23 DEF RemoveUser, RowRemoved, sync, Form, Still, Same, idle
<1>24. ASSUME CreateAccount PROVE task' \in [Syncers -> Task] /\ Form
  BY <1>24 DEF CreateAccount, sync, Form, Still, Same, disk, idle, others
<1>25. ASSUME NEW v \in Saves, SaveChecks(v) PROVE task' \in [Syncers -> Task] /\ Form
  BY <1>25 DEF SaveChecks, Event, sync, Form, Still, Same, store, disk, idle
<1>26. ASSUME NEW v \in Saves, SaveCommits(v) PROVE task' \in [Syncers -> Task] /\ Form
  BY <1>26 DEF SaveCommits, sync, Form, Still, Same, disk, idle
<1>27. ASSUME CleanupPicks PROVE task' \in [Syncers -> Task] /\ Form
  BY <1>27 DEF CleanupPicks, sync, Form, Still, Same, store, disk, idle
<1>28. ASSUME CleanupRemoves PROVE task' \in [Syncers -> Task] /\ Form
  BY <1>28 DEF CleanupRemoves, sync, Form, Still, Same, disk, idle
<1>29. ASSUME CleanupFinishes PROVE task' \in [Syncers -> Task] /\ Form
  BY <1>29 DEF CleanupFinishes, sync, Form, Still, Same, disk, idle
<1>30. ASSUME CrashAndRestart PROVE task' \in [Syncers -> Task] /\ Form
  BY <1>30, NoTaskType DEF CrashAndRestart, Form, Resets
<1>31. ASSUME UNCHANGED vars PROVE task' \in [Syncers -> Task] /\ Form
  BY <1>31 DEF Form, Still, Same, vars, store, disk, sync, idle, others
<1> QED BY <1>1, <1>2, <1>3, <1>4, <1>5, <1>6, <1>7, <1>8, <1>9, <1>10, <1>11, <1>12, <1>13,
  <1>14, <1>15, <1>16, <1>17, <1>18, <1>19, <1>20, <1>21, <1>22, <1>23, <1>24, <1>25, <1>26,
  <1>27, <1>28, <1>29, <1>30, <1>31 DEF Next, SyncStep, DeleteStep

------------------------------------------------------------------------------
(* Ownership of the account, open runs and waiting requests.                  *)

\* A sync that has no run yet names none: a run that is open while a new sync
\* begins could otherwise not be told from its own.
RunlessBefore == \A s \in Syncers : task[s].pc \in {"idle", "claim", "begin"} => task[s].run = 0
OwnerWorks == active # None => task[active].pc \in Owning
OwnInv == OneSyncAtATime /\ OwnerWorks /\ RunlessBefore /\ OpenRunOwned /\ WaitsForLiveJob

LEMMA OwnInit == Init => OwnInv
BY SyncersAssumption, NoTaskType, Members DEF Init, OwnInv, OneSyncAtATime, OwnerWorks,
   RunlessBefore, OpenRunOwned, WaitsForLiveJob, Owning

LEMMA OwnStep ==
  ASSUME SyncTypes, OwnInv, task' \in [Syncers -> Task], Form
  PROVE  OwnInv'
<1> USE Members DEF SyncTypes
<1> DEFINE P == {"idle", "claim", "begin"}
<1>0. /\ \A s \in Syncers : task[s].run \in Nat
      /\ "idle" \notin Owning /\ "claim" \notin Owning /\ "begin" \in Owning /\ "finish" \in Owning
  BY DEF Task, Owning
<1>1. ASSUME Still PROVE OwnInv'
  <2>1. OneSyncAtATime' /\ OwnerWorks' /\ RunlessBefore'
    BY <1>1 DEF OwnInv, OneSyncAtATime, OwnerWorks, RunlessBefore, Still, Same
  <2>2. OpenRunOwned'
    BY <1>1 DEF OwnInv, OpenRunOwned, Still, Same
  <2>3. WaitsForLiveJob'
    BY <1>1 DEF OwnInv, WaitsForLiveJob, Still, Same
  <2> QED BY <2>1, <2>2, <2>3 DEF OwnInv
<1>2. ASSUME Resets PROVE OwnInv'
  <2>1. OneSyncAtATime' /\ OwnerWorks' /\ RunlessBefore' /\ WaitsForLiveJob'
    BY <1>2, <1>0 DEF OneSyncAtATime, OwnerWorks, RunlessBefore, WaitsForLiveJob, Resets
  <2>2. \A i \in DOMAIN runs' : runs'[i].state # "open"
    <3>1. \A i \in DOMAIN runs : runs[i] \in Run
      OBVIOUS
    <3>2. \A i \in DOMAIN runs : [runs[i] EXCEPT !.state = "interrupted"].state = "interrupted"
      BY <3>1 DEF Run
    <3> QED BY <1>2, <3>2 DEF Resets
  <2> QED BY <2>1, <2>2 DEF OwnInv, OpenRunOwned
<1>3. ASSUME NEW s \in Syncers, Asks(s) \/ Gives(s) PROVE OwnInv'
  <2>1. /\ task[s].pc \in {"idle", "claim"}
        /\ task'[s].pc \in {"idle", "claim"}
        /\ active' = active
        /\ runs' = runs
    BY <1>3 DEF Asks, Gives, Goes
  <2>2. active # s
    BY <2>1, <1>0 DEF OwnInv, OwnerWorks
  <2>3. OneSyncAtATime' /\ OwnerWorks'
    BY <1>0, <1>3, <2>1, <2>2 DEF OwnInv, OneSyncAtATime, OwnerWorks, Asks, Gives, Goes, Same
  <2>4. RunlessBefore'
    BY <1>3 DEF OwnInv, RunlessBefore, Asks, Gives, Goes, Same
  <2>5. OpenRunOwned'
    BY <1>3, <2>1, <2>2 DEF OwnInv, OpenRunOwned, Asks, Gives, Goes, Same
  <2>6. WaitsForLiveJob'
    BY <1>3 DEF OwnInv, WaitsForLiveJob, Asks, Gives, Goes, Same, WaitersLeft
  <2> QED BY <2>3, <2>4, <2>5, <2>6 DEF OwnInv
<1>4. ASSUME NEW s \in Syncers, Takes(s) PROVE OwnInv'
  <2>1. OneSyncAtATime' /\ OwnerWorks' /\ RunlessBefore'
    BY <1>0, <1>4 DEF OwnInv, OneSyncAtATime, OwnerWorks, RunlessBefore, Takes, Goes, Same
  <2>2. OpenRunOwned'
    BY <1>4 DEF OwnInv, OpenRunOwned, Takes
  <2>3. WaitsForLiveJob'
    BY <1>4 DEF OwnInv, WaitsForLiveJob, Takes, Goes, Same
  <2> QED BY <2>1, <2>2, <2>3 DEF OwnInv
<1>5. ASSUME NEW s \in Syncers, Aborts(s) PROVE OwnInv'
  <2>1. active = s
    BY <1>0, <1>5 DEF OwnInv, OneSyncAtATime, Aborts, Goes
  <2>2. OneSyncAtATime' /\ OwnerWorks' /\ RunlessBefore'
    BY <1>0, <1>5, <2>1 DEF OwnInv, OneSyncAtATime, OwnerWorks, RunlessBefore, Aborts, Goes, Same
  <2>3. OpenRunOwned'
    <3>1. task[s].run = 0
      BY <1>5 DEF OwnInv, RunlessBefore, Aborts, Goes
    <3>2. \A i \in DOMAIN runs : i # 0
      OBVIOUS
    <3> QED BY <1>5, <2>1, <3>1, <3>2 DEF OwnInv, OpenRunOwned, Aborts
  <2>4. WaitsForLiveJob'
    BY <1>5 DEF OwnInv, WaitsForLiveJob, Aborts, Goes, Same, WaitersLeft
  <2> QED BY <2>2, <2>3, <2>4 DEF OwnInv
<1>6. ASSUME NEW s \in Syncers, Inserts(s) PROVE OwnInv'
  <2>1. active = s
    BY <1>0, <1>6 DEF OwnInv, OneSyncAtATime, Inserts, Goes
  <2>2. OneSyncAtATime' /\ OwnerWorks'
    BY <1>0, <1>6, <2>1 DEF OwnInv, OneSyncAtATime, OwnerWorks, Inserts, Goes, Same
  <2>3. RunlessBefore'
    BY <1>0, <1>6 DEF OwnInv, RunlessBefore, Inserts, Goes, Same
  <2>4. OpenRunOwned'
    <3>1. task[s].run = 0
      BY <1>6 DEF OwnInv, RunlessBefore, Inserts, Goes
    <3>2. \A i \in DOMAIN runs : runs[i].state # "open"
      <4>1. \A i \in DOMAIN runs : i # 0
        OBVIOUS
      <4> QED BY <2>1, <3>1, <4>1 DEF OwnInv, OpenRunOwned
    <3>3. /\ DOMAIN runs' = DOMAIN runs \cup {Len(runs) + 1}
          /\ \A i \in DOMAIN runs : runs'[i] = runs[i]
      <4>1. PICK k \in Kinds : runs' = Append(runs, [kind |-> k, state |-> "open"])
        BY <1>6 DEF Inserts
      <4>2. [kind |-> k, state |-> "open"] \in Run
        BY DEF Run
      <4> HIDE DEF SyncTypes
      <4>3. runs \in Seq(Run)
        BY DEF SyncTypes
      <4> QED BY <4>1, <4>2, <4>3
    <3>4. active' = s /\ task'[s].run = Len(runs) + 1
      BY <1>6, <2>1 DEF Inserts
    <3> QED BY <3>2, <3>3, <3>4 DEF OpenRunOwned
  <2>5. WaitsForLiveJob'
    BY <1>6 DEF OwnInv, WaitsForLiveJob, Inserts, Goes, Same, WaitersLeft
  <2> QED BY <2>2, <2>3, <2>4, <2>5 DEF OwnInv
<1>7. ASSUME NEW s \in Syncers, Moves(s) PROVE OwnInv'
  <2>1. PICK from \in Owning \ {"begin", "finish"}, to \in Owning \ {"begin"} : Goes(s, from, to)
    BY <1>7 DEF Moves
  <2>2. OneSyncAtATime' /\ OwnerWorks'
    BY <1>7, <2>1 DEF OwnInv, OneSyncAtATime, OwnerWorks, Moves, Goes, Same
  <2>3. RunlessBefore'
    BY <1>0, <2>1 DEF OwnInv, RunlessBefore, Goes, Same
  <2>4. OpenRunOwned'
    BY <1>7, <2>1 DEF OwnInv, OpenRunOwned, Moves, Goes, Same
  <2>5. WaitsForLiveJob'
    BY <1>0, <1>7, <2>1 DEF OwnInv, WaitsForLiveJob, Moves, Goes, Same
  <2> QED BY <2>2, <2>3, <2>4, <2>5 DEF OwnInv
<1>8. ASSUME NEW s \in Syncers, Releases(s) PROVE OwnInv'
  <2>1. active = s
    BY <1>0, <1>8 DEF OwnInv, OneSyncAtATime, Releases, Goes
  <2>2. OneSyncAtATime' /\ OwnerWorks' /\ RunlessBefore'
    BY <1>0, <1>8, <2>1 DEF OwnInv, OneSyncAtATime, OwnerWorks, RunlessBefore, Releases, Goes,
       Same
  <2>3. OpenRunOwned'
    <3>1. \A i \in DOMAIN runs : runs[i].state = "open" => i = task[s].run
      BY <2>1 DEF OwnInv, OpenRunOwned
    <3>2. CASE task[s].run \notin DOMAIN runs
      BY <1>8, <3>1, <3>2 DEF OpenRunOwned, Releases
    <3>3. CASE task[s].run \in DOMAIN runs
      <4>1. PICK state \in {"success", "failed", "unclosed"} :
              runs' = [runs EXCEPT ![task[s].run].state = state]
        BY <1>8, <3>3 DEF Releases
      <4>2. runs[task[s].run] \in Run
        BY <3>3
      <4>3. [runs[task[s].run] EXCEPT !.state = state].state = state
        BY <4>2 DEF Run
      <4>4. runs' = [runs EXCEPT ![task[s].run] = [runs[task[s].run] EXCEPT !.state = state]]
        BY <4>1
      <4>5. \A i \in DOMAIN runs' : runs'[i].state # "open"
        BY <3>1, <3>3, <4>3, <4>4
      <4> QED BY <4>5 DEF OpenRunOwned
    <3> QED BY <3>2, <3>3
  <2>4. WaitsForLiveJob'
    BY <1>8 DEF OwnInv, WaitsForLiveJob, Releases, Goes, Same
  <2> QED BY <2>2, <2>3, <2>4 DEF OwnInv
<1> QED BY <1>1, <1>2, <1>3, <1>4, <1>5, <1>6, <1>7, <1>8 DEF Form

------------------------------------------------------------------------------
(* The types of the other variables.                                          *)

RowState == {"absent", "live", "deleting", "gone"}
Jobs == [id : 0 .. MaxJobs, state : {"none", "pending", "failed", "complete"}]
Mail == [local : 0 .. MaxMail, indexed : 0 .. MaxMail]
Watch == {"free", "watching", "cancelled"}
Answers == {"none", "waiting", "admitted", "refused", "left"}
Deletion == {"new", "prestop", "prewait", "begin", "stop", "wait",
             "finalize", "user", "blind", "done", "blindly done"}
Saving == [pc : {"idle", "checked"}, version : 0 .. MaxVersion]
Cleaner == [pc : {"idle", "picked", "removed"}, id : 0 .. MaxJobs]

RestTypes ==
  /\ row \in RowState /\ version \in 1 .. MaxVersion
  /\ userGone \in BOOLEAN /\ stopping \in BOOLEAN /\ files \in BOOLEAN
  /\ job \in Jobs /\ mail \in Mail
  /\ watch \in [Watchers -> Watch]
  /\ registered \in Watchers \cup {None}
  /\ answer \in [Console -> Answers]
  /\ deletion \in [Deletes -> Deletion]
  /\ saving \in [Saves -> Saving]
  /\ cleaner \in Cleaner
  /\ events \in 0 .. MaxEvents

LEMMA RowTypes ==
  ASSUME row \in RowState, version \in 1 .. MaxVersion, userGone \in BOOLEAN, [Next]_vars
  PROVE  row' \in RowState /\ version' \in 1 .. MaxVersion /\ userGone' \in BOOLEAN
<1>1. ASSUME NEW d \in Deletes, BeginDeletion(d)
      PROVE  row' \in RowState /\ version' \in 1 .. MaxVersion /\ userGone' \in BOOLEAN
  BY <1>1 DEF BeginDeletion, DeleteAt, RowState
<1>2. ASSUME NEW d \in Deletes, FinalizeDeletion(d)
      PROVE  row' \in RowState /\ version' \in 1 .. MaxVersion /\ userGone' \in BOOLEAN
  BY <1>2 DEF FinalizeDeletion, RowRemoved, RowState
<1>3. ASSUME NEW d \in Deletes, RemoveUser(d)
      PROVE  row' \in RowState /\ version' \in 1 .. MaxVersion /\ userGone' \in BOOLEAN
  BY <1>3 DEF RemoveUser, RowRemoved, RowState
<1>4. ASSUME CreateAccount
      PROVE  row' \in RowState /\ version' \in 1 .. MaxVersion /\ userGone' \in BOOLEAN
  BY <1>4, BoundsAssumption DEF CreateAccount, RowState
<1>5. ASSUME NEW v \in Saves, SaveCommits(v)
      PROVE  row' \in RowState /\ version' \in 1 .. MaxVersion /\ userGone' \in BOOLEAN
  BY <1>5, BoundsAssumption DEF SaveCommits, RowState
<1>6. CASE SweepLists \/ (\E r \in Requests : Refresh(r))
              \/ (\E r \in Console : RequestLeaves(r)) \/ (\E w \in Watchers : IdleNotified(w))
              \/ (\E w \in Watchers : WatcherExits(w)) \/ (\E s \in Syncers : Claim(s))
              \/ (\E s \in Syncers : Begin(s)) \/ (\E s \in Syncers : Recover(s))
              \/ (\E s \in Syncers : Provider(s)) \/ (\E s \in Syncers : Pull(s))
              \/ (\E s \in Syncers : Import(s)) \/ (\E s \in Syncers : Settle(s))
              \/ (\E s \in Syncers : Rescue(s)) \/ (\E s \in Syncers : Finish(s)) \/ CancelManual
              \/ Reconcile \/ (\E d \in Deletes : DeleteRequested(d))
              \/ (\E d \in Deletes : StopMarks(d)) \/ (\E d \in Deletes : StopWaits(d))
              \/ (\E d \in Deletes : DeleteFails(d)) \/ (\E v \in Saves : SaveChecks(v))
              \/ CleanupPicks \/ CleanupRemoves \/ CleanupFinishes \/ CrashAndRestart
  <2>1. UNCHANGED <<row, version, userGone>>
    BY <1>6 DEF SweepLists, Refresh, RequestLeaves, IdleNotified, WatcherExits, Claim, Begin,
       Recover, Provider, Pull, Import, Settle, Rescue, Finish, CancelManual, Reconcile,
       DeleteRequested, StopMarks, StopWaits, DeleteFails, SaveChecks, CleanupPicks,
       CleanupRemoves, CleanupFinishes, CrashAndRestart, DeleteAt, InStep, store, disk, sync,
       idle, others
  <2> QED BY <2>1
<1>7. CASE UNCHANGED vars
  BY <1>7 DEF vars, store, disk, sync, idle, others
<1> QED BY <1>1, <1>2, <1>3, <1>4, <1>5, <1>6, <1>7 DEF Next, SyncStep, DeleteStep

LEMMA FlagTypes ==
  ASSUME stopping \in BOOLEAN, files \in BOOLEAN, events \in 0 .. MaxEvents, [Next]_vars
  PROVE  stopping' \in BOOLEAN /\ files' \in BOOLEAN /\ events' \in 0 .. MaxEvents
<1>1. ASSUME NEW r \in Requests, Refresh(r)
      PROVE  stopping' \in BOOLEAN /\ files' \in BOOLEAN /\ events' \in 0 .. MaxEvents
  BY <1>1, BoundsAssumption DEF Refresh, Event, disk
<1>2. ASSUME NEW s \in Syncers, Begin(s)
      PROVE  stopping' \in BOOLEAN /\ files' \in BOOLEAN /\ events' \in 0 .. MaxEvents
  BY <1>2 DEF Begin, others
<1>3. ASSUME NEW s \in Syncers, Pull(s)
      PROVE  stopping' \in BOOLEAN /\ files' \in BOOLEAN /\ events' \in 0 .. MaxEvents
  BY <1>3 DEF Pull, InStep, others
<1>4. ASSUME NEW d \in Deletes, DeleteRequested(d)
      PROVE  stopping' \in BOOLEAN /\ files' \in BOOLEAN /\ events' \in 0 .. MaxEvents
  BY <1>4, BoundsAssumption DEF DeleteRequested, DeleteAt, Event, disk
<1>5. ASSUME NEW d \in Deletes, BeginDeletion(d)
      PROVE  stopping' \in BOOLEAN /\ files' \in BOOLEAN /\ events' \in 0 .. MaxEvents
  BY <1>5, BoundsAssumption DEF BeginDeletion, DeleteAt, Event, disk
<1>6. ASSUME NEW d \in Deletes, StopMarks(d)
      PROVE  stopping' \in BOOLEAN /\ files' \in BOOLEAN /\ events' \in 0 .. MaxEvents
  BY <1>6, BoundsAssumption DEF StopMarks, DeleteAt, Event, disk
<1>7. ASSUME NEW d \in Deletes, StopWaits(d)
      PROVE  stopping' \in BOOLEAN /\ files' \in BOOLEAN /\ events' \in 0 .. MaxEvents
  BY <1>7, BoundsAssumption DEF StopWaits, DeleteAt, Event, disk
<1>8. ASSUME NEW d \in Deletes, DeleteFails(d)
      PROVE  stopping' \in BOOLEAN /\ files' \in BOOLEAN /\ events' \in 0 .. MaxEvents
  BY <1>8, BoundsAssumption DEF DeleteFails, DeleteAt, Event, disk
<1>9. ASSUME NEW v \in Saves, SaveChecks(v)
      PROVE  stopping' \in BOOLEAN /\ files' \in BOOLEAN /\ events' \in 0 .. MaxEvents
  BY <1>9, BoundsAssumption DEF SaveChecks, Event, disk, sync
<1>10. ASSUME CleanupRemoves
       PROVE  stopping' \in BOOLEAN /\ files' \in BOOLEAN /\ events' \in 0 .. MaxEvents
  BY <1>10 DEF CleanupRemoves, disk, sync
<1>11. ASSUME CrashAndRestart
       PROVE  stopping' \in BOOLEAN /\ files' \in BOOLEAN /\ events' \in 0 .. MaxEvents
  <2>1. stopping' = FALSE /\ files' = files /\ Event
    BY <1>11 DEF CrashAndRestart
  <2>2. events' \in 0 .. MaxEvents
    BY <2>1, BoundsAssumption DEF Event
  <2> QED BY <2>1, <2>2
<1>12. CASE SweepLists \/ (\E r \in Console : RequestLeaves(r))
              \/ (\E w \in Watchers : IdleNotified(w)) \/ (\E w \in Watchers : WatcherExits(w))
              \/ (\E s \in Syncers : Claim(s)) \/ (\E s \in Syncers : Recover(s))
              \/ (\E s \in Syncers : Provider(s)) \/ (\E s \in Syncers : Import(s))
              \/ (\E s \in Syncers : Settle(s)) \/ (\E s \in Syncers : Rescue(s))
              \/ (\E s \in Syncers : Finish(s)) \/ CancelManual \/ Reconcile
              \/ (\E d \in Deletes : FinalizeDeletion(d)) \/ (\E d \in Deletes : RemoveUser(d))
              \/ CreateAccount \/ (\E v \in Saves : SaveCommits(v)) \/ CleanupPicks
              \/ CleanupFinishes
  <2>1. UNCHANGED <<stopping, files, events>>
    BY <1>12 DEF SweepLists, RequestLeaves, IdleNotified, WatcherExits, Claim, Recover,
       Provider, Import, Settle, Rescue, Finish, CancelManual, Reconcile, FinalizeDeletion,
       RemoveUser, CreateAccount, SaveCommits, CleanupPicks, CleanupFinishes, InStep, store,
       disk, sync, idle, others
  <2> QED BY <2>1
<1>13. CASE UNCHANGED vars
  BY <1>13 DEF vars, store, disk, sync, idle, others
<1> QED BY <1>1, <1>2, <1>3, <1>4, <1>5, <1>6, <1>7, <1>8, <1>9, <1>10, <1>11, <1>12, <1>13
  DEF Next, SyncStep, DeleteStep

LEMMA DeletionTypes ==
  ASSUME deletion \in [Deletes -> Deletion], [Next]_vars
  PROVE  deletion' \in [Deletes -> Deletion]
<1>1. ASSUME NEW d \in Deletes, DeleteRequested(d) PROVE deletion' \in [Deletes -> Deletion]
  BY <1>1 DEF DeleteRequested, DeleteAt, DeleteTo, Deletion
<1>2. ASSUME NEW d \in Deletes, BeginDeletion(d) PROVE deletion' \in [Deletes -> Deletion]
  BY <1>2 DEF BeginDeletion, DeleteAt, DeleteTo, Deletion
<1>3. ASSUME NEW d \in Deletes, StopMarks(d) PROVE deletion' \in [Deletes -> Deletion]
  BY <1>3 DEF StopMarks, DeleteAt, DeleteTo, Deletion
<1>4. ASSUME NEW d \in Deletes, StopWaits(d) PROVE deletion' \in [Deletes -> Deletion]
  BY <1>4 DEF StopWaits, DeleteAt, DeleteTo, Deletion
<1>5. ASSUME NEW d \in Deletes, DeleteFails(d) PROVE deletion' \in [Deletes -> Deletion]
  BY <1>5 DEF DeleteFails, DeleteAt, DeleteTo, Deletion
<1>6. ASSUME NEW d \in Deletes, FinalizeDeletion(d) PROVE deletion' \in [Deletes -> Deletion]
  BY <1>6 DEF FinalizeDeletion, DeleteTo, Deletion
<1>7. ASSUME NEW d \in Deletes, RemoveUser(d) PROVE deletion' \in [Deletes -> Deletion]
  BY <1>7 DEF RemoveUser, DeleteTo, Deletion
<1>8. ASSUME CrashAndRestart PROVE deletion' \in [Deletes -> Deletion]
  <2>1. deletion' = [d \in Deletes |-> IF deletion[d] \in {"new", "blindly done"} THEN deletion[d] ELSE "done"]
    BY <1>8 DEF CrashAndRestart
  <2> QED BY <2>1 DEF Deletion
<1>9. CASE SweepLists \/ (\E r \in Requests : Refresh(r))
              \/ (\E r \in Console : RequestLeaves(r)) \/ (\E w \in Watchers : IdleNotified(w))
              \/ (\E w \in Watchers : WatcherExits(w)) \/ (\E s \in Syncers : Claim(s))
              \/ (\E s \in Syncers : Begin(s)) \/ (\E s \in Syncers : Recover(s))
              \/ (\E s \in Syncers : Provider(s)) \/ (\E s \in Syncers : Pull(s))
              \/ (\E s \in Syncers : Import(s)) \/ (\E s \in Syncers : Settle(s))
              \/ (\E s \in Syncers : Rescue(s)) \/ (\E s \in Syncers : Finish(s)) \/ CancelManual
              \/ Reconcile \/ CreateAccount \/ (\E v \in Saves : SaveChecks(v))
              \/ (\E v \in Saves : SaveCommits(v)) \/ CleanupPicks \/ CleanupRemoves
              \/ CleanupFinishes
  <2>1. UNCHANGED <<deletion>>
    BY <1>9 DEF SweepLists, Refresh, RequestLeaves, IdleNotified, WatcherExits, Claim, Begin,
       Recover, Provider, Pull, Import, Settle, Rescue, Finish, CancelManual, Reconcile,
       CreateAccount, SaveChecks, SaveCommits, CleanupPicks, CleanupRemoves, CleanupFinishes,
       InStep, store, disk, sync, idle, others
  <2> QED BY <2>1
<1>10. CASE UNCHANGED vars
  BY <1>10 DEF vars, store, disk, sync, idle, others
<1> QED BY <1>1, <1>2, <1>3, <1>4, <1>5, <1>6, <1>7, <1>8, <1>9, <1>10 DEF Next, SyncStep,
  DeleteStep

LEMMA SavingTypes ==
  ASSUME saving \in [Saves -> Saving], version \in 1 .. MaxVersion, [Next]_vars
  PROVE  saving' \in [Saves -> Saving]
<1>1. ASSUME NEW v \in Saves, SaveChecks(v) PROVE saving' \in [Saves -> Saving]
  <2>1. PICK given \in {0, version} : saving' = [saving EXCEPT ![v] = [pc |-> "checked", version |-> given]]
    BY <1>1 DEF SaveChecks
  <2>2. [pc |-> "checked", version |-> given] \in Saving
    BY BoundsAssumption DEF Saving
  <2> QED BY <2>1, <2>2
<1>2. ASSUME NEW v \in Saves, SaveCommits(v) PROVE saving' \in [Saves -> Saving]
  <2>1. saving' = [saving EXCEPT ![v] = [saving[v] EXCEPT !.pc = "idle"]]
    BY <1>2 DEF SaveCommits
  <2>2. [saving[v] EXCEPT !.pc = "idle"] \in Saving
    BY DEF Saving
  <2> QED BY <2>1, <2>2
<1>3. ASSUME CrashAndRestart PROVE saving' \in [Saves -> Saving]
  <2>1. saving' = [v \in Saves |-> [pc |-> "idle", version |-> 0]]
    BY <1>3 DEF CrashAndRestart
  <2> QED BY <2>1, BoundsAssumption DEF Saving
<1>4. CASE SweepLists \/ (\E r \in Requests : Refresh(r))
              \/ (\E r \in Console : RequestLeaves(r)) \/ (\E w \in Watchers : IdleNotified(w))
              \/ (\E w \in Watchers : WatcherExits(w)) \/ (\E s \in Syncers : Claim(s))
              \/ (\E s \in Syncers : Begin(s)) \/ (\E s \in Syncers : Recover(s))
              \/ (\E s \in Syncers : Provider(s)) \/ (\E s \in Syncers : Pull(s))
              \/ (\E s \in Syncers : Import(s)) \/ (\E s \in Syncers : Settle(s))
              \/ (\E s \in Syncers : Rescue(s)) \/ (\E s \in Syncers : Finish(s)) \/ CancelManual
              \/ Reconcile \/ (\E d \in Deletes : DeleteRequested(d))
              \/ (\E d \in Deletes : BeginDeletion(d)) \/ (\E d \in Deletes : StopMarks(d))
              \/ (\E d \in Deletes : StopWaits(d)) \/ (\E d \in Deletes : DeleteFails(d))
              \/ (\E d \in Deletes : FinalizeDeletion(d)) \/ (\E d \in Deletes : RemoveUser(d))
              \/ CreateAccount \/ CleanupPicks \/ CleanupRemoves \/ CleanupFinishes
  <2>1. UNCHANGED <<saving>>
    BY <1>4 DEF SweepLists, Refresh, RequestLeaves, IdleNotified, WatcherExits, Claim, Begin,
       Recover, Provider, Pull, Import, Settle, Rescue, Finish, CancelManual, Reconcile,
       DeleteRequested, BeginDeletion, StopMarks, StopWaits, DeleteFails, FinalizeDeletion,
       RemoveUser, CreateAccount, CleanupPicks, CleanupRemoves, CleanupFinishes, DeleteAt,
       InStep, store, disk, sync, idle, others
  <2> QED BY <2>1
<1>5. CASE UNCHANGED vars
  BY <1>5 DEF vars, store, disk, sync, idle, others
<1> QED BY <1>1, <1>2, <1>3, <1>4, <1>5 DEF Next, SyncStep, DeleteStep

LEMMA AnswerTypes ==
  ASSUME answer \in [Console -> Answers], [Next]_vars
  PROVE  answer' \in [Console -> Answers]
<1>1. ASSUME NEW r \in Requests, Refresh(r) PROVE answer' \in [Console -> Answers]
  BY <1>1 DEF Refresh, Answers
<1>2. ASSUME NEW r \in Console, RequestLeaves(r) PROVE answer' \in [Console -> Answers]
  BY <1>2 DEF RequestLeaves, Answers
<1>3. ASSUME NEW s \in Syncers, Claim(s) PROVE answer' \in [Console -> Answers]
  BY <1>3 DEF Claim, Answered, Answers
<1>4. ASSUME NEW s \in Syncers, Begin(s) PROVE answer' \in [Console -> Answers]
  BY <1>4 DEF Begin, Answered, Answers
<1>5. ASSUME CrashAndRestart PROVE answer' \in [Console -> Answers]
  <2>1. answer' = [r \in Console |-> IF answer[r] = "waiting" THEN "left" ELSE answer[r]]
    BY <1>5 DEF CrashAndRestart
  <2> QED BY <2>1 DEF Answers
<1>6. CASE SweepLists \/ (\E w \in Watchers : IdleNotified(w))
              \/ (\E w \in Watchers : WatcherExits(w)) \/ (\E s \in Syncers : Recover(s))
              \/ (\E s \in Syncers : Provider(s)) \/ (\E s \in Syncers : Pull(s))
              \/ (\E s \in Syncers : Import(s)) \/ (\E s \in Syncers : Settle(s))
              \/ (\E s \in Syncers : Rescue(s)) \/ (\E s \in Syncers : Finish(s)) \/ CancelManual
              \/ Reconcile \/ (\E d \in Deletes : DeleteRequested(d))
              \/ (\E d \in Deletes : BeginDeletion(d)) \/ (\E d \in Deletes : StopMarks(d))
              \/ (\E d \in Deletes : StopWaits(d)) \/ (\E d \in Deletes : DeleteFails(d))
              \/ (\E d \in Deletes : FinalizeDeletion(d)) \/ (\E d \in Deletes : RemoveUser(d))
              \/ CreateAccount \/ (\E v \in Saves : SaveChecks(v))
              \/ (\E v \in Saves : SaveCommits(v)) \/ CleanupPicks \/ CleanupRemoves
              \/ CleanupFinishes
  <2>1. UNCHANGED <<answer>>
    BY <1>6 DEF SweepLists, IdleNotified, WatcherExits, Recover, Provider, Pull, Import,
       Settle, Rescue, Finish, CancelManual, Reconcile, DeleteRequested, BeginDeletion,
       StopMarks, StopWaits, DeleteFails, FinalizeDeletion, RemoveUser, CreateAccount,
       SaveChecks, SaveCommits, CleanupPicks, CleanupRemoves, CleanupFinishes, DeleteAt,
       InStep, store, disk, sync, idle, others
  <2> QED BY <2>1
<1>7. CASE UNCHANGED vars
  BY <1>7 DEF vars, store, disk, sync, idle, others
<1> QED BY <1>1, <1>2, <1>3, <1>4, <1>5, <1>6, <1>7 DEF Next, SyncStep, DeleteStep

LEMMA WatchTypes ==
  ASSUME watch \in [Watchers -> Watch], registered \in Watchers \cup {None}, [Next]_vars
  PROVE  watch' \in [Watchers -> Watch] /\ registered' \in Watchers \cup {None}
<1>1. ASSUME NEW w \in Watchers, WatcherExits(w)
      PROVE  watch' \in [Watchers -> Watch] /\ registered' \in Watchers \cup {None}
  BY <1>1 DEF WatcherExits, Watch
<1>2. ASSUME Reconcile
      PROVE  watch' \in [Watchers -> Watch] /\ registered' \in Watchers \cup {None}
  BY <1>2 DEF Reconcile, Outdated, Watch
<1>3. ASSUME CrashAndRestart
      PROVE  watch' \in [Watchers -> Watch] /\ registered' \in Watchers \cup {None}
  <2>1. watch' = [w \in Watchers |-> "free"] /\ registered' = None
    BY <1>3 DEF CrashAndRestart
  <2> QED BY <2>1 DEF Watch
<1>4. CASE SweepLists \/ (\E r \in Requests : Refresh(r))
              \/ (\E r \in Console : RequestLeaves(r)) \/ (\E w \in Watchers : IdleNotified(w))
              \/ (\E s \in Syncers : Claim(s)) \/ (\E s \in Syncers : Begin(s))
              \/ (\E s \in Syncers : Recover(s)) \/ (\E s \in Syncers : Provider(s))
              \/ (\E s \in Syncers : Pull(s)) \/ (\E s \in Syncers : Import(s))
              \/ (\E s \in Syncers : Settle(s)) \/ (\E s \in Syncers : Rescue(s))
              \/ (\E s \in Syncers : Finish(s)) \/ CancelManual
              \/ (\E d \in Deletes : DeleteRequested(d)) \/ (\E d \in Deletes : BeginDeletion(d))
              \/ (\E d \in Deletes : StopMarks(d)) \/ (\E d \in Deletes : StopWaits(d))
              \/ (\E d \in Deletes : DeleteFails(d)) \/ (\E d \in Deletes : FinalizeDeletion(d))
              \/ (\E d \in Deletes : RemoveUser(d)) \/ CreateAccount
              \/ (\E v \in Saves : SaveChecks(v)) \/ (\E v \in Saves : SaveCommits(v))
              \/ CleanupPicks \/ CleanupRemoves \/ CleanupFinishes
  <2>1. UNCHANGED <<watch, registered>>
    BY <1>4 DEF SweepLists, Refresh, RequestLeaves, IdleNotified, Claim, Begin, Recover,
       Provider, Pull, Import, Settle, Rescue, Finish, CancelManual, DeleteRequested,
       BeginDeletion, StopMarks, StopWaits, DeleteFails, FinalizeDeletion, RemoveUser,
       CreateAccount, SaveChecks, SaveCommits, CleanupPicks, CleanupRemoves, CleanupFinishes,
       DeleteAt, InStep, store, disk, sync, idle, others
  <2> QED BY <2>1
<1>5. CASE UNCHANGED vars
  BY <1>5 DEF vars, store, disk, sync, idle, others
<1> QED BY <1>1, <1>2, <1>3, <1>4, <1>5 DEF Next, SyncStep, DeleteStep

LEMMA MailTypes ==
  ASSUME mail \in Mail, [Next]_vars
  PROVE  mail' \in Mail
<1>1. ASSUME NEW s \in Syncers, Recover(s) PROVE mail' \in Mail
  <2>1. mail' = mail \/ mail' = [mail EXCEPT !.indexed = mail.local]
    BY <1>1 DEF Recover, Indexed
  <2> QED BY <2>1 DEF Mail
<1>2. ASSUME NEW s \in Syncers, Pull(s) PROVE mail' \in Mail
  <2>1. mail.local \in Nat
    BY DEF Mail
  <2>2. mail' = mail \/ \E n \in 0 .. MaxMail : mail' = [mail EXCEPT !.local = n]
    BY <1>2, <2>1, BoundsAssumption DEF Pull
  <2> QED BY <2>2 DEF Mail
<1>3. ASSUME NEW s \in Syncers, Import(s) PROVE mail' \in Mail
  <2>1. mail' = mail \/ mail' = [mail EXCEPT !.indexed = mail.local]
    BY <1>3 DEF Import, Indexed
  <2> QED BY <2>1 DEF Mail
<1>4. ASSUME NEW s \in Syncers, Rescue(s) PROVE mail' \in Mail
  <2>1. mail' = mail \/ mail' = [mail EXCEPT !.indexed = mail.local]
    BY <1>4 DEF Rescue, Indexed
  <2> QED BY <2>1 DEF Mail
<1>5. ASSUME NEW d \in Deletes, FinalizeDeletion(d) PROVE mail' \in Mail
  <2>1. mail' = mail \/ mail' = [mail EXCEPT !.indexed = 0]
    BY <1>5 DEF FinalizeDeletion, RowRemoved
  <2> QED BY <2>1, BoundsAssumption DEF Mail
<1>6. ASSUME NEW d \in Deletes, RemoveUser(d) PROVE mail' \in Mail
  <2>1. mail' = mail \/ mail' = [mail EXCEPT !.indexed = 0]
    BY <1>6 DEF RemoveUser, RowRemoved
  <2> QED BY <2>1, BoundsAssumption DEF Mail
<1>7. ASSUME CleanupRemoves PROVE mail' \in Mail
  <2>1. mail' = mail \/ mail' = [mail EXCEPT !.local = 0]
    BY <1>7 DEF CleanupRemoves, disk
  <2> QED BY <2>1, BoundsAssumption DEF Mail
<1>8. ASSUME CrashAndRestart PROVE mail' \in Mail
  <2>1. mail.local \in 0 .. MaxMail
    BY DEF Mail
  <2>2. \E n \in 0 .. MaxMail : mail' = [mail EXCEPT !.local = n]
    <3>1. PICK n \in (IF At({"pull"}) THEN mail.local .. MaxMail ELSE {mail.local}) : mail' = [mail EXCEPT !.local = n]
      BY <1>8 DEF CrashAndRestart
    <3>2. n \in 0 .. MaxMail
      BY <2>1, BoundsAssumption
    <3> QED BY <3>1, <3>2
  <2> QED BY <2>2 DEF Mail
<1>9. CASE SweepLists \/ (\E r \in Requests : Refresh(r))
              \/ (\E r \in Console : RequestLeaves(r)) \/ (\E w \in Watchers : IdleNotified(w))
              \/ (\E w \in Watchers : WatcherExits(w)) \/ (\E s \in Syncers : Claim(s))
              \/ (\E s \in Syncers : Begin(s)) \/ (\E s \in Syncers : Provider(s))
              \/ (\E s \in Syncers : Settle(s)) \/ (\E s \in Syncers : Finish(s)) \/ CancelManual
              \/ Reconcile \/ (\E d \in Deletes : DeleteRequested(d))
              \/ (\E d \in Deletes : BeginDeletion(d)) \/ (\E d \in Deletes : StopMarks(d))
              \/ (\E d \in Deletes : StopWaits(d)) \/ (\E d \in Deletes : DeleteFails(d))
              \/ CreateAccount \/ (\E v \in Saves : SaveChecks(v))
              \/ (\E v \in Saves : SaveCommits(v)) \/ CleanupPicks \/ CleanupFinishes
  <2>1. UNCHANGED <<mail>>
    BY <1>9 DEF SweepLists, Refresh, RequestLeaves, IdleNotified, WatcherExits, Claim, Begin,
       Provider, Settle, Finish, CancelManual, Reconcile, DeleteRequested, BeginDeletion,
       StopMarks, StopWaits, DeleteFails, CreateAccount, SaveChecks, SaveCommits,
       CleanupPicks, CleanupFinishes, DeleteAt, InStep, store, disk, sync, idle, others
  <2> QED BY <2>1
<1>10. CASE UNCHANGED vars
  BY <1>10 DEF vars, store, disk, sync, idle, others
<1> QED BY <1>1, <1>2, <1>3, <1>4, <1>5, <1>6, <1>7, <1>8, <1>9, <1>10 DEF Next, SyncStep,
  DeleteStep

LEMMA JobTypes ==
  ASSUME job \in Jobs, cleaner \in Cleaner, [Next]_vars
  PROVE  job' \in Jobs /\ cleaner' \in Cleaner
<1>1. ASSUME NEW d \in Deletes, BeginDeletion(d) PROVE job' \in Jobs /\ cleaner' \in Cleaner
  <2>1. job' = job \/ (job.id < MaxJobs /\ job' = [id |-> job.id + 1, state |-> "pending"])
    BY <1>1 DEF BeginDeletion
  <2>2. cleaner' = cleaner
    BY <1>1 DEF BeginDeletion, DeleteAt
  <2> QED BY <2>1, <2>2, BoundsAssumption DEF Jobs
<1>2. ASSUME CleanupPicks PROVE job' \in Jobs /\ cleaner' \in Cleaner
  <2>1. cleaner' = [pc |-> "picked", id |-> job.id] /\ job' = job
    BY <1>2 DEF CleanupPicks, store
  <2> QED BY <2>1 DEF Cleaner, Jobs
<1>3. ASSUME CleanupRemoves PROVE job' \in Jobs /\ cleaner' \in Cleaner
  <2>1. \/ cleaner' = [cleaner EXCEPT !.pc = "removed"] /\ job' = job
        \/ cleaner' = [cleaner EXCEPT !.pc = "idle"] /\ job' \in {job, [job EXCEPT !.state = "failed"]}
    BY <1>3 DEF CleanupRemoves, JobBecomes
  <2> QED BY <2>1 DEF Cleaner, Jobs
<1>4. ASSUME CleanupFinishes PROVE job' \in Jobs /\ cleaner' \in Cleaner
  <2>1. /\ cleaner' = [cleaner EXCEPT !.pc = "idle"]
        /\ job' \in {job, [job EXCEPT !.state = "complete"]}
    BY <1>4 DEF CleanupFinishes, JobBecomes
  <2> QED BY <2>1 DEF Cleaner, Jobs
<1>5. ASSUME CrashAndRestart PROVE job' \in Jobs /\ cleaner' \in Cleaner
  <2>1. cleaner' = [pc |-> "idle", id |-> 0] /\ job' = job
    BY <1>5 DEF CrashAndRestart
  <2> QED BY <2>1, BoundsAssumption DEF Cleaner
<1>6. CASE SweepLists \/ (\E r \in Requests : Refresh(r))
              \/ (\E r \in Console : RequestLeaves(r)) \/ (\E w \in Watchers : IdleNotified(w))
              \/ (\E w \in Watchers : WatcherExits(w)) \/ (\E s \in Syncers : Claim(s))
              \/ (\E s \in Syncers : Begin(s)) \/ (\E s \in Syncers : Recover(s))
              \/ (\E s \in Syncers : Provider(s)) \/ (\E s \in Syncers : Pull(s))
              \/ (\E s \in Syncers : Import(s)) \/ (\E s \in Syncers : Settle(s))
              \/ (\E s \in Syncers : Rescue(s)) \/ (\E s \in Syncers : Finish(s)) \/ CancelManual
              \/ Reconcile \/ (\E d \in Deletes : DeleteRequested(d))
              \/ (\E d \in Deletes : StopMarks(d)) \/ (\E d \in Deletes : StopWaits(d))
              \/ (\E d \in Deletes : DeleteFails(d)) \/ (\E d \in Deletes : FinalizeDeletion(d))
              \/ (\E d \in Deletes : RemoveUser(d)) \/ CreateAccount
              \/ (\E v \in Saves : SaveChecks(v)) \/ (\E v \in Saves : SaveCommits(v))
  <2>1. UNCHANGED <<job, cleaner>>
    BY <1>6 DEF SweepLists, Refresh, RequestLeaves, IdleNotified, WatcherExits, Claim, Begin,
       Recover, Provider, Pull, Import, Settle, Rescue, Finish, CancelManual, Reconcile,
       DeleteRequested, StopMarks, StopWaits, DeleteFails, FinalizeDeletion, RemoveUser,
       CreateAccount, SaveChecks, SaveCommits, DeleteAt, InStep, store, disk, sync, idle,
       others
  <2> QED BY <2>1
<1>7. CASE UNCHANGED vars
  BY <1>7 DEF vars, store, disk, sync, idle, others
<1> QED BY <1>1, <1>2, <1>3, <1>4, <1>5, <1>6, <1>7 DEF Next, SyncStep, DeleteStep

Types == SyncTypes /\ RestTypes

\* Parts of TypeOK under their names.
LEMMA TypesAreTypeOK == Types <=> TypeOK
<1>1. ASSUME TypeOK PROVE Types
  <2>1. version \in 1 .. MaxVersion
    BY <1>1 DEF TypeOK
  <2>2. version \in 0 .. MaxVersion
    BY <2>1, BoundsAssumption
  <2> QED BY <1>1, <2>2 DEF Types, SyncTypes, RestTypes, TypeOK, RowState, Jobs, Mail, Watch,
    Answers, Deletion, Saving, Cleaner
<1>2. Types => TypeOK
  BY DEF Types, SyncTypes, RestTypes, TypeOK, RowState, Jobs, Mail, Watch, Answers, Deletion,
     Saving, Cleaner
<1> QED BY <1>1, <1>2

LEMMA TypesInit == Init => Types
<1> SUFFICES ASSUME Init PROVE Types
  OBVIOUS
<1>1. SyncTypes
  BY NoTaskType, BoundsAssumption DEF Init, SyncTypes
<1>2. row \in RowState /\ version \in 1 .. MaxVersion
  BY BoundsAssumption DEF Init, RowState
<1>3. userGone \in BOOLEAN /\ files \in BOOLEAN /\ stopping \in BOOLEAN
  BY DEF Init
<1>4. job \in Jobs /\ mail \in Mail /\ cleaner \in Cleaner /\ events \in 0 .. MaxEvents
  BY BoundsAssumption DEF Init, Jobs, Mail, Cleaner
<1>5. /\ watch \in [Watchers -> Watch] /\ registered \in Watchers \cup {None}
      /\ answer \in [Console -> Answers] /\ deletion \in [Deletes -> Deletion]
  BY DEF Init, Watch, Answers, Deletion
<1>6. saving \in [Saves -> Saving]
  BY BoundsAssumption DEF Init, Saving
<1> QED BY <1>1, <1>2, <1>3, <1>4, <1>5, <1>6 DEF Types, RestTypes

\* The forms keep the types of the runs and of the owner.
LEMMA FormTypes ==
  ASSUME SyncTypes, Form
  PROVE  runs' \in Seq(Run) /\ active' \in Syncers \cup {None}
<1> USE DEF SyncTypes
<1>1. ASSUME Still PROVE runs' \in Seq(Run) /\ active' \in Syncers \cup {None}
  <2>1. <<>> \in Seq(Run)
    OBVIOUS
  <2> QED BY <1>1, <2>1 DEF Still
<1>2. ASSUME Resets PROVE runs' \in Seq(Run) /\ active' \in Syncers \cup {None}
  <2>1. \A i \in 1 .. Len(runs) : [runs[i] EXCEPT !.state = "interrupted"] \in Run
    <3>1. \A i \in 1 .. Len(runs) : runs[i] \in Run
      OBVIOUS
    <3> QED BY <3>1 DEF Run
  <2>2. runs' \in [1 .. Len(runs) -> Run]
    BY <1>2, <2>1 DEF Resets
  <2>3. runs' \in Seq(Run)
    BY <2>2
  <2> QED BY <1>2, <2>3 DEF Resets
<1>3. ASSUME NEW s \in Syncers, Asks(s) \/ Gives(s) \/ Takes(s) \/ Aborts(s) \/ Moves(s)
      PROVE  runs' \in Seq(Run) /\ active' \in Syncers \cup {None}
  BY <1>3 DEF Asks, Gives, Takes, Aborts, Moves
<1>4. ASSUME NEW s \in Syncers, Inserts(s)
      PROVE  runs' \in Seq(Run) /\ active' \in Syncers \cup {None}
  <2>1. PICK k \in Kinds : runs' = Append(runs, [kind |-> k, state |-> "open"])
    BY <1>4 DEF Inserts
  <2>2. [kind |-> k, state |-> "open"] \in Run
    BY DEF Run
  <2>3. runs' \in Seq(Run)
    BY <2>1, <2>2
  <2> QED BY <1>4, <2>3 DEF Inserts
<1>5. ASSUME NEW s \in Syncers, Releases(s)
      PROVE  runs' \in Seq(Run) /\ active' \in Syncers \cup {None}
  <2>1. CASE task[s].run \notin DOMAIN runs
    BY <1>5, <2>1 DEF Releases
  <2>2. CASE task[s].run \in DOMAIN runs
    <3>1. PICK state \in {"success", "failed", "unclosed"} : runs' = [runs EXCEPT ![task[s].run].state = state]
      BY <1>5, <2>2 DEF Releases
    <3>2. runs' = [runs EXCEPT ![task[s].run] = [runs[task[s].run] EXCEPT !.state = state]]
      BY <3>1
    <3>3. [runs[task[s].run] EXCEPT !.state = state] \in Run
      <4>1. runs[task[s].run] \in Run
        BY <2>2
      <4> QED BY <4>1 DEF Run
    <3>4. runs' \in [1 .. Len(runs) -> Run]
      <4>1. runs \in [1 .. Len(runs) -> Run]
        OBVIOUS
      <4> QED BY <3>2, <3>3, <4>1
    <3>5. runs' \in Seq(Run)
      BY <3>4
    <3> QED BY <1>5, <3>5 DEF Releases
  <2> QED BY <2>1, <2>2
<1> QED BY <1>1, <1>2, <1>3, <1>4, <1>5 DEF Form

LEMMA TypesStep == Types /\ [Next]_vars => Types'
<1> SUFFICES ASSUME Types, [Next]_vars PROVE Types'
  OBVIOUS
<1>1. SyncTypes /\ RestTypes
  BY DEF Types
<1>2. task' \in [Syncers -> Task] /\ Form
  BY <1>1, Forms
<1>3. runs' \in Seq(Run) /\ active' \in Syncers \cup {None}
  BY <1>1, <1>2, FormTypes
<1>4. RestTypes'
  <2>1. row' \in RowState /\ version' \in 1 .. MaxVersion /\ userGone' \in BOOLEAN
    BY <1>1, RowTypes DEF RestTypes
  <2>2. stopping' \in BOOLEAN /\ files' \in BOOLEAN /\ events' \in 0 .. MaxEvents
    BY <1>1, FlagTypes DEF RestTypes
  <2>3. deletion' \in [Deletes -> Deletion]
    BY <1>1, DeletionTypes DEF RestTypes
  <2>4. saving' \in [Saves -> Saving]
    BY <1>1, SavingTypes DEF RestTypes
  <2>5. answer' \in [Console -> Answers]
    BY <1>1, AnswerTypes DEF RestTypes
  <2>6. watch' \in [Watchers -> Watch] /\ registered' \in Watchers \cup {None}
    BY <1>1, WatchTypes DEF RestTypes
  <2>7. mail' \in Mail
    BY <1>1, MailTypes DEF RestTypes
  <2>8. job' \in Jobs /\ cleaner' \in Cleaner
    BY <1>1, JobTypes DEF RestTypes
  <2> QED BY <2>1, <2>2, <2>3, <2>4, <2>5, <2>6, <2>7, <2>8 DEF RestTypes
<1>5. version' \in 0 .. MaxVersion /\ registered' \in Watchers \cup {None}
      /\ answer' \in [Console -> {"none", "waiting", "admitted", "refused", "left"}]
  BY <1>4, BoundsAssumption DEF RestTypes, Answers
<1> QED BY <1>2, <1>3, <1>4, <1>5 DEF Types, SyncTypes

\* Every reachable state is well typed: what syncs, watchers, deletions, edits and
\* the cleanup worker store stays within its bounds.
THEOREM TypeCorrect == Spec => []TypeOK
<1>1. Init => Types
  BY TypesInit
<1>2. Types /\ [Next]_vars => Types'
  BY TypesStep
<1>3. Types => TypeOK
  BY TypesAreTypeOK
<1> QED BY <1>1, <1>2, <1>3, PTL DEF Spec

LEMMA OwnInvariant == Spec => [](Types /\ OwnInv)
<1>1. Init => Types /\ OwnInv
  BY TypesInit, OwnInit
<1>2. Types /\ OwnInv /\ [Next]_vars => (Types /\ OwnInv)'
  <2> SUFFICES ASSUME Types, OwnInv, [Next]_vars PROVE Types' /\ OwnInv'
    OBVIOUS
  <2>1. SyncTypes
    BY DEF Types
  <2>2. task' \in [Syncers -> Task] /\ Form
    BY <2>1, Forms
  <2> QED BY <2>1, <2>2, OwnStep, TypesStep
<1> QED BY <1>1, <1>2, PTL DEF Spec

\* At most one sync works on the account, whoever asks for it (syncAccountStarted
\* takes it in one critical section and keeps it to the end).
THEOREM OneSync == Spec => []OneSyncAtATime
<1>1. Types /\ OwnInv => OneSyncAtATime
  BY DEF OwnInv
<1> QED BY <1>1, OwnInvariant, PTL

\* No run is left open by a sync that has released the account: the run is closed
\* under a context of its own, and a restart closes what a crash left.
THEOREM RunsOwned == Spec => []OpenRunOwned
<1>1. Types /\ OwnInv => OpenRunOwned
  BY DEF OwnInv
<1> QED BY <1>1, OwnInvariant, PTL

\* A console request that waits for admission has a job that still answers it.
THEOREM WaitersAnswered == Spec => []WaitsForLiveJob
<1>1. Types /\ OwnInv => WaitsForLiveJob
  BY DEF OwnInv
<1> QED BY <1>1, OwnInvariant, PTL

------------------------------------------------------------------------------
(* A removed account is quiet.  Whoever finalises a deletion has waited for    *)
(* the sync in flight, and the mark StopAccount left refuses every later one;  *)
(* a restart forgets the mark, but leaves nobody who could still ask.          *)

Nobody == /\ \A s \in Syncers : task[s].pc = "idle"
          /\ \A v \in Saves : saving[v].pc = "idle"
MarkHeld ==
  \A d \in Deletes :
    /\ deletion[d] \in {"prewait", "wait", "finalize", "user"} => stopping
    /\ deletion[d] \in {"finalize", "user"} => active = None
GoneIsEmpty == row = "gone" => DOMAIN runs = {}
QuietInv == MarkHeld /\ GoneIsEmpty /\ (SeenByDeletion => active = None /\ (stopping \/ Nobody))

LEMMA QuietInit == Init => QuietInv
BY DEF Init, QuietInv, MarkHeld, GoneIsEmpty, SeenByDeletion

\* What a sync can do to an account in deletion.
LEMMA FormQuiet ==
  ASSUME Types, OwnInv, Form
  PROVE  /\ stopping /\ active = None => active' = None
         /\ row = "gone" /\ DOMAIN runs = {} => DOMAIN runs' = {}
         /\ row = "gone" /\ DOMAIN runs = {} /\ (\A s \in Syncers : task[s].pc = "idle")
              => /\ active' = active \/ active' = None
                 /\ \A s \in Syncers : task'[s].pc = "idle"
<1> USE Members
<1>1. ASSUME Still PROVE /\ active' = active /\ (DOMAIN runs = {} => DOMAIN runs' = {})
                         /\ \A s \in Syncers : task'[s].pc = task[s].pc
  BY <1>1 DEF Still, Same
<1>2. ASSUME Resets PROVE /\ active' = None /\ (DOMAIN runs = {} => DOMAIN runs' = {})
                          /\ \A s \in Syncers : task'[s].pc = "idle"
  BY <1>2 DEF Resets
<1>3. ASSUME NEW s \in Syncers, Asks(s)
      PROVE  active' = active /\ runs' = runs /\ (row = "live" \/ DOMAIN runs # {})
  BY <1>3 DEF Asks
<1>4. ASSUME NEW s \in Syncers, Gives(s)
      PROVE  active' = active /\ runs' = runs /\ task[s].pc # "idle"
  BY <1>4 DEF Gives, Goes
<1>5. ASSUME NEW s \in Syncers, Takes(s)
      PROVE  ~stopping /\ runs' = runs /\ task[s].pc # "idle"
  BY <1>5 DEF Takes, Goes
<1>6. ASSUME NEW s \in Syncers, Aborts(s)
      PROVE  active' = None /\ runs' = runs /\ task[s].pc # "idle"
  BY <1>6 DEF Aborts, Goes
<1>7. ASSUME NEW s \in Syncers, Inserts(s)
      PROVE  active' = active /\ row # "gone" /\ task[s].pc # "idle"
  BY <1>7 DEF Inserts, Goes
<1>8. ASSUME NEW s \in Syncers, Moves(s)
      PROVE  active' = active /\ runs' = runs /\ task[s].pc # "idle"
  BY <1>8 DEF Moves, Goes, Owning
<1>9. ASSUME NEW s \in Syncers, Releases(s)
      PROVE  /\ active' = None /\ (DOMAIN runs = {} => DOMAIN runs' = {}) /\ task[s].pc # "idle"
  BY <1>9 DEF Releases, Goes
<1> QED BY <1>1, <1>2, <1>3, <1>4, <1>5, <1>6, <1>7, <1>8, <1>9 DEF Form

\* The moves of a delete request that leave the rows of the account in place.
Step(from, to) ==
  /\ from # "blindly done"
  /\ to \in {"prewait", "wait", "finalize", "user"} => stopping'
  /\ to \in {"finalize", "user"} => active = None

LEMMA DeleteStepQuiet ==
  ASSUME Types, QuietInv, NEW d \in Deletes,
         stopping => stopping', saving' = saving, active' = active, runs' = runs,
         \A s \in Syncers : task'[s].pc = task[s].pc,
         \E pc \in Deletion \ {"blindly done"} : deletion' = [deletion EXCEPT ![d] = pc] /\ Step(deletion[d], pc),
         row' = row \/ row' = "deleting"
  PROVE  QuietInv'
<1>1. PICK pc \in Deletion \ {"blindly done"} : deletion' = [deletion EXCEPT ![d] = pc] /\ Step(deletion[d], pc)
  OBVIOUS
<1>2. deletion \in [Deletes -> Deletion]
  BY DEF Types, RestTypes
<1>3. MarkHeld'
  <2>1. ASSUME NEW x \in Deletes, x # d PROVE deletion'[x] = deletion[x]
    BY <1>1, <1>2, <2>1
  <2>2. deletion'[d] = pc
    BY <1>1, <1>2
  <2> QED BY <1>1, <2>1, <2>2 DEF QuietInv, MarkHeld, Step
<1>4. GoneIsEmpty'
  <2>1. row' = "gone" => row = "gone"
    OBVIOUS
  <2>2. runs' = runs
    OBVIOUS
  <2> QED BY <2>1, <2>2 DEF QuietInv, GoneIsEmpty
<1>5. SeenByDeletion' => SeenByDeletion
  BY <1>1, <1>2 DEF SeenByDeletion, Step
<1> QED BY <1>3, <1>4, <1>5 DEF QuietInv, Nobody

LEMMA NoRuns == DOMAIN <<>> = {}
OBVIOUS

\* The step that removes the row, or finds it removed.
LEMMA RowStepQuiet ==
  ASSUME Types, QuietInv, NEW d \in Deletes, UNCHANGED <<active, stopping, task, saving>>,
         deletion[d] # "blindly done",
         \E pc \in {"user", "done", "blindly done"} :
           /\ deletion' = [deletion EXCEPT ![d] = pc]
           /\ pc # "blindly done" => stopping /\ active = None,
         UNCHANGED <<row, runs>> \/ (row' = "gone" /\ runs' = <<>>)
  PROVE  QuietInv'
<1>1. PICK pc \in {"user", "done", "blindly done"} :
           /\ deletion' = [deletion EXCEPT ![d] = pc]
           /\ pc # "blindly done" => stopping /\ active = None
  OBVIOUS
<1>2. deletion \in [Deletes -> Deletion]
  BY DEF Types, RestTypes
<1>3. /\ deletion'[d] = pc /\ \A x \in Deletes \ {d} : deletion'[x] = deletion[x]
  BY <1>1, <1>2
<1>4. MarkHeld'
  BY <1>1, <1>3 DEF QuietInv, MarkHeld
<1>5. GoneIsEmpty'
  <2>1. CASE UNCHANGED <<row, runs>>
    BY <2>1 DEF QuietInv, GoneIsEmpty
  <2>2. CASE row' = "gone" /\ runs' = <<>>
    <3>1. DOMAIN runs' = {}
      BY <2>2, NoRuns
    <3> QED BY <3>1 DEF GoneIsEmpty
  <2> QED BY <2>1, <2>2
<1>6. ASSUME SeenByDeletion' PROVE active' = None /\ (stopping' \/ Nobody')
  BY <1>1, <1>3, <1>6 DEF SeenByDeletion
<1> QED BY <1>4, <1>5, <1>6 DEF QuietInv

LEMMA FormStepQuiet ==
  ASSUME Types, OwnInv, QuietInv, Form, UNCHANGED <<row, stopping, deletion, saving>>
  PROVE  QuietInv'
<1>1. MarkHeld' /\ GoneIsEmpty'
  BY FormQuiet DEF QuietInv, MarkHeld, GoneIsEmpty
<1>2. SeenByDeletion' => SeenByDeletion /\ DOMAIN runs = {}
  BY DEF SeenByDeletion, QuietInv, GoneIsEmpty
<1>3. ASSUME SeenByDeletion' PROVE active' = None /\ (stopping' \/ Nobody')
  <2>1. row = "gone" /\ DOMAIN runs = {} /\ active = None /\ (stopping \/ Nobody)
    BY <1>2, <1>3 DEF QuietInv, SeenByDeletion
  <2> QED BY <2>1, FormQuiet DEF Nobody
<1> QED BY <1>1, <1>3 DEF QuietInv

LEMMA QuietStep ==
  ASSUME Types, OwnInv, QuietInv, [Next]_vars
  PROVE  QuietInv'
<1>0. Form
  BY Forms DEF Types
<1>1. ASSUME NEW d \in Deletes, DeleteRequested(d) PROVE QuietInv'
  <2>1. /\ stopping' = stopping /\ saving' = saving
        /\ active' = active /\ runs' = runs /\ \A s \in Syncers : task'[s].pc = task[s].pc
    BY <1>1, CancelKeeps DEF DeleteRequested, DeleteAt
  <2>2. deletion[d] = "new" /\ row' \in {row, "deleting"}
    BY <1>1 DEF DeleteRequested, DeleteAt
  <2>3. \E pc \in {"begin", "prestop", "blind"} : deletion' = [deletion EXCEPT ![d] = pc]
    BY <1>1 DEF DeleteRequested, DeleteTo
  <2>4. \A pc \in {"begin", "prestop", "blind"} : pc \in Deletion \ {"blindly done"} /\ Step(deletion[d], pc)
    BY <2>1, <2>2 DEF Deletion, Step
  <2> QED BY <2>1, <2>2, <2>3, <2>4, DeleteStepQuiet
<1>2. ASSUME NEW d \in Deletes, BeginDeletion(d) PROVE QuietInv'
  <2>1. /\ stopping' = stopping /\ saving' = saving
        /\ active' = active /\ runs' = runs /\ \A s \in Syncers : task'[s].pc = task[s].pc
    BY <1>2, CancelKeeps DEF BeginDeletion, DeleteAt
  <2>2. deletion[d] = "begin" /\ row' \in {row, "deleting"}
    BY <1>2 DEF BeginDeletion, DeleteAt
  <2>3. \E pc \in {"stop", "done"} : deletion' = [deletion EXCEPT ![d] = pc]
    BY <1>2 DEF BeginDeletion, DeleteTo
  <2>4. \A pc \in {"stop", "done"} : pc \in Deletion \ {"blindly done"} /\ Step(deletion[d], pc)
    BY <2>1, <2>2 DEF Deletion, Step
  <2> QED BY <2>1, <2>2, <2>3, <2>4, DeleteStepQuiet
<1>3. ASSUME NEW d \in Deletes, StopMarks(d) PROVE QuietInv'
  <2>1. /\ stopping' = TRUE /\ saving' = saving
        /\ active' = active /\ runs' = runs /\ \A s \in Syncers : task'[s].pc = task[s].pc
    BY <1>3, CancelKeeps DEF StopMarks, DeleteAt, Types, SyncTypes
  <2>2. deletion[d] \in {"prestop", "stop"} /\ row' \in {row, "deleting"}
    BY <1>3 DEF StopMarks, DeleteAt
  <2>3. \E pc \in {"prewait", "wait"} : deletion' = [deletion EXCEPT ![d] = pc]
    BY <1>3 DEF StopMarks, DeleteTo
  <2>4. \A pc \in {"prewait", "wait"} : pc \in Deletion \ {"blindly done"} /\ Step(deletion[d], pc)
    BY <2>1, <2>2 DEF Deletion, Step
  <2> QED BY <2>1, <2>2, <2>3, <2>4, DeleteStepQuiet
<1>4. ASSUME NEW d \in Deletes, StopWaits(d) PROVE QuietInv'
  <2>1. /\ stopping' = stopping /\ saving' = saving /\ active' = active /\ active = None
        /\ runs' = runs /\ \A s \in Syncers : task'[s].pc = task[s].pc
    BY <1>4 DEF StopWaits, DeleteAt
  <2>2. /\ deletion[d] \in {"prewait", "wait"} /\ row' = row
        /\ \E pc \in {"begin", "finalize"} : deletion' = [deletion EXCEPT ![d] = pc]
    BY <1>4 DEF StopWaits, DeleteAt, DeleteTo
  <2>3. stopping
    BY <2>2 DEF QuietInv, MarkHeld
  <2>4. \A pc \in {"begin", "finalize"} : pc \in Deletion \ {"blindly done"} /\ Step(deletion[d], pc)
    BY <2>1, <2>2, <2>3 DEF Deletion, Step
  <2> QED BY <2>1, <2>2, <2>4, DeleteStepQuiet
<1>5. ASSUME NEW d \in Deletes, DeleteFails(d) PROVE QuietInv'
  <2>1. /\ stopping' = stopping /\ saving' = saving
        /\ active' = active /\ runs' = runs /\ \A s \in Syncers : task'[s].pc = task[s].pc
    BY <1>5, CancelKeeps DEF DeleteFails, DeleteAt
  <2>2. deletion[d] # "blindly done" /\ row' \in {row, "deleting"}
    BY <1>5 DEF DeleteFails, DeleteAt
  <2>3. \E pc \in {"done"} : deletion' = [deletion EXCEPT ![d] = pc]
    BY <1>5 DEF DeleteFails, DeleteTo
  <2>4. \A pc \in {"done"} : pc \in Deletion \ {"blindly done"} /\ Step(deletion[d], pc)
    BY <2>1, <2>2 DEF Deletion, Step
  <2> QED BY <2>1, <2>2, <2>3, <2>4, DeleteStepQuiet
<1>6. ASSUME NEW d \in Deletes, FinalizeDeletion(d) PROVE QuietInv'
  <2>1. /\ deletion[d] = "finalize" /\ UNCHANGED <<active, stopping, task, saving>>
        /\ \E pc \in {"user", "done"} : deletion' = [deletion EXCEPT ![d] = pc]
    BY <1>6 DEF FinalizeDeletion, DeleteTo, sync
  <2>2. UNCHANGED <<row, runs>> \/ (row' = "gone" /\ runs' = <<>>)
    <3>1. RowRemoved => row' = "gone" /\ runs' = <<>>
      BY DEF RowRemoved
    <3>2. CASE row = "deleting"
      <4>1. RowRemoved
        BY <1>6, <3>2 DEF FinalizeDeletion
      <4> QED BY <3>1, <4>1
    <3>3. CASE ~(row = "deleting")
      BY <1>6, <3>3 DEF FinalizeDeletion
    <3> QED BY <3>2, <3>3
  <2>3. stopping /\ active = None
    BY <2>1 DEF QuietInv, MarkHeld
  <2> QED BY <2>1, <2>2, <2>3, RowStepQuiet
<1>7. ASSUME NEW d \in Deletes, RemoveUser(d) PROVE QuietInv'
  <2>1. /\ deletion[d] \in {"user", "blind"} /\ UNCHANGED <<active, stopping, task, saving>>
        /\ deletion' = [deletion EXCEPT ![d] = IF deletion[d] = "user" THEN "done" ELSE "blindly done"]
    BY <1>7 DEF RemoveUser, DeleteTo, sync
  <2>2. UNCHANGED <<row, runs>> \/ (row' = "gone" /\ runs' = <<>>)
    <3>1. RowRemoved => row' = "gone" /\ runs' = <<>>
      BY DEF RowRemoved
    <3>2. CASE row # "absent"
      <4>1. RowRemoved
        BY <1>7, <3>2 DEF RemoveUser
      <4> QED BY <3>1, <4>1
    <3>3. CASE ~(row # "absent")
      BY <1>7, <3>3 DEF RemoveUser
    <3> QED BY <3>2, <3>3
  <2>3. deletion[d] = "user" => stopping /\ active = None
    BY <2>1 DEF QuietInv, MarkHeld
  <2> QED BY <2>1, <2>2, <2>3, RowStepQuiet
<1>8. ASSUME CreateAccount PROVE QuietInv'
  BY <1>8 DEF CreateAccount, sync, others, QuietInv, MarkHeld, GoneIsEmpty, SeenByDeletion
<1>9. ASSUME NEW v \in Saves, SaveChecks(v) PROVE QuietInv'
  BY <1>9 DEF SaveChecks, store, sync, QuietInv, MarkHeld, GoneIsEmpty, SeenByDeletion
<1>10. ASSUME NEW v \in Saves, SaveCommits(v) PROVE QuietInv'
  <2>1. saving' = [saving EXCEPT ![v] = [saving[v] EXCEPT !.pc = "idle"]]
    BY <1>10 DEF SaveCommits
  <2>2. \A x \in Saves : saving[x].pc = "idle" => saving'[x].pc = "idle"
    BY <2>1 DEF Types, RestTypes, Saving
  <2>3. row' \in {row, "live"} /\ UNCHANGED <<runs, active, stopping, task, deletion>>
    BY <1>10 DEF SaveCommits, sync
  <2> QED BY <2>2, <2>3 DEF QuietInv, MarkHeld, GoneIsEmpty, SeenByDeletion, Nobody
<1>11. ASSUME CrashAndRestart PROVE QuietInv'
  <2>1. /\ active' = None /\ row' = row
        /\ \A s \in Syncers : task'[s].pc = "idle"
        /\ saving' = [v \in Saves |-> [pc |-> "idle", version |-> 0]]
        /\ deletion' = [d \in Deletes |-> IF deletion[d] \in {"new", "blindly done"} THEN deletion[d] ELSE "done"]
    BY <1>11, NoTaskType DEF CrashAndRestart
  <2>2. DOMAIN runs' = DOMAIN runs
    BY <1>11 DEF CrashAndRestart
  <2> QED BY <2>1, <2>2 DEF QuietInv, MarkHeld, GoneIsEmpty, SeenByDeletion, Nobody
<1>12. CASE SweepLists \/ (\E r \in Requests : Refresh(r))
              \/ (\E r \in Console : RequestLeaves(r)) \/ (\E w \in Watchers : IdleNotified(w))
              \/ (\E w \in Watchers : WatcherExits(w)) \/ (\E s \in Syncers : Claim(s))
              \/ (\E s \in Syncers : Begin(s)) \/ (\E s \in Syncers : Recover(s))
              \/ (\E s \in Syncers : Provider(s)) \/ (\E s \in Syncers : Pull(s))
              \/ (\E s \in Syncers : Import(s)) \/ (\E s \in Syncers : Settle(s))
              \/ (\E s \in Syncers : Rescue(s)) \/ (\E s \in Syncers : Finish(s)) \/ CancelManual
              \/ Reconcile \/ CleanupPicks \/ CleanupRemoves \/ CleanupFinishes
  <2>1. UNCHANGED <<row, stopping, deletion, saving>>
    BY <1>12 DEF SweepLists, Refresh, RequestLeaves, IdleNotified, WatcherExits, Claim, Begin,
       Recover, Provider, Pull, Import, Settle, Rescue, Finish, CancelManual, Reconcile,
       CleanupPicks, CleanupRemoves, CleanupFinishes, InStep, store, disk, sync, idle, others
  <2> QED BY <1>0, <2>1, FormStepQuiet
<1>13. CASE UNCHANGED vars
  BY <1>0, <1>13, FormStepQuiet DEF vars, store, sync, others
<1> QED BY <1>1, <1>2, <1>3, <1>4, <1>5, <1>6, <1>7, <1>8, <1>9, <1>10, <1>11, <1>12, <1>13
  DEF Next, SyncStep, DeleteStep

\* Once an account's row is removed no sync works on it: StopAccount waits for the
\* one in flight, refuses the later ones, and after a restart nobody asks for one.
THEOREM RemovedQuiet == Spec => []RemovedIsQuiet
<1>1. Init => QuietInv
  BY QuietInit
<1>2. Types /\ OwnInv /\ QuietInv /\ [Next]_vars => QuietInv'
  BY QuietStep
<1>3. QuietInv => RemovedIsQuiet
  BY DEF QuietInv, RemovedIsQuiet
<1> QED BY <1>1, <1>2, <1>3, OwnInvariant, PTL DEF Spec

------------------------------------------------------------------------------
(* Watchers. *)

LEMMA WatchStep ==
  ASSUME Types, NoStrayWatcher, [Next]_vars
  PROVE  NoStrayWatcher'
<1>1. ASSUME NEW w \in Watchers, WatcherExits(w) PROVE NoStrayWatcher'
  <2>1. /\ watch \in [Watchers -> Watch]
        /\ registered \in Watchers \cup {None}
        /\ None \notin Watchers
    BY Members DEF Types, RestTypes
  <2> QED BY <1>1, <2>1 DEF WatcherExits, NoStrayWatcher
<1>2. ASSUME Reconcile PROVE NoStrayWatcher'
  <2>1. watch \in [Watchers -> Watch] /\ registered \in Watchers \cup {None}
    BY DEF Types, RestTypes
  <2>2. \/ watch' = [watch EXCEPT ![registered] = "cancelled"] /\ registered \in Watchers /\ registered' = None
        \/ /\ registered' \in Watchers
           /\ \/ registered = None /\ watch' = [watch EXCEPT ![registered'] = "watching"]
              \/ /\ registered \in Watchers
                 /\ watch' = [[watch EXCEPT ![registered] = "cancelled"] EXCEPT ![registered'] = "watching"]
    BY <1>2, <2>1 DEF Reconcile, Outdated, Unwatched
  <2>3. registered # None => registered \in Watchers
    BY <2>1
  <2>4. ASSUME NEW w \in Watchers, watch'[w] = "watching" PROVE registered' = w
    <3>1. watch[w] = "watching" => registered = w
      BY DEF NoStrayWatcher
    <3> QED BY <2>1, <2>2, <2>3, <2>4, <3>1, Members
  <2> QED BY <2>4 DEF NoStrayWatcher
<1>3. ASSUME CrashAndRestart PROVE NoStrayWatcher'
  <2>1. watch' = [w \in Watchers |-> "free"]
    BY <1>3 DEF CrashAndRestart
  <2> QED BY <2>1 DEF NoStrayWatcher
<1>4. CASE SweepLists \/ (\E r \in Requests : Refresh(r))
              \/ (\E r \in Console : RequestLeaves(r)) \/ (\E w \in Watchers : IdleNotified(w))
              \/ (\E s \in Syncers : Claim(s)) \/ (\E s \in Syncers : Begin(s))
              \/ (\E s \in Syncers : Recover(s)) \/ (\E s \in Syncers : Provider(s))
              \/ (\E s \in Syncers : Pull(s)) \/ (\E s \in Syncers : Import(s))
              \/ (\E s \in Syncers : Settle(s)) \/ (\E s \in Syncers : Rescue(s))
              \/ (\E s \in Syncers : Finish(s)) \/ CancelManual
              \/ (\E d \in Deletes : DeleteRequested(d)) \/ (\E d \in Deletes : BeginDeletion(d))
              \/ (\E d \in Deletes : StopMarks(d)) \/ (\E d \in Deletes : StopWaits(d))
              \/ (\E d \in Deletes : DeleteFails(d)) \/ (\E d \in Deletes : FinalizeDeletion(d))
              \/ (\E d \in Deletes : RemoveUser(d)) \/ CreateAccount
              \/ (\E v \in Saves : SaveChecks(v)) \/ (\E v \in Saves : SaveCommits(v))
              \/ CleanupPicks \/ CleanupRemoves \/ CleanupFinishes
  <2>1. UNCHANGED <<watch, registered>>
    BY <1>4 DEF SweepLists, Refresh, RequestLeaves, IdleNotified, Claim, Begin, Recover,
       Provider, Pull, Import, Settle, Rescue, Finish, CancelManual, DeleteRequested,
       BeginDeletion, StopMarks, StopWaits, DeleteFails, FinalizeDeletion, RemoveUser,
       CreateAccount, SaveChecks, SaveCommits, CleanupPicks, CleanupRemoves, CleanupFinishes,
       DeleteAt, InStep, store, disk, sync, idle, others
  <2> QED BY <2>1 DEF NoStrayWatcher
<1>5. CASE UNCHANGED vars
  BY <1>5 DEF vars, idle, NoStrayWatcher
<1> QED BY <1>1, <1>2, <1>3, <1>4, <1>5 DEF Next, SyncStep, DeleteStep

\* Every watcher that is not cancelled is the registered one, so reconcile can stop
\* it when the account changes or goes.
THEOREM NoStray == Spec => []NoStrayWatcher
<1>1. Init => Types /\ NoStrayWatcher
  BY TypesInit DEF Init, NoStrayWatcher
<1>2. Types /\ NoStrayWatcher /\ [Next]_vars => (Types /\ NoStrayWatcher)'
  BY TypesStep, WatchStep
<1> QED BY <1>1, <1>2, PTL DEF Spec

\* RunsHaveOwners: the five facts above, which the run checks as one invariant.
THEOREM RunsAreOwned == Spec => []RunsHaveOwners
<1>1. OneSyncAtATime /\ OpenRunOwned /\ WaitsForLiveJob /\ NoStrayWatcher /\ RemovedIsQuiet
        => RunsHaveOwners
  BY DEF RunsHaveOwners
<1> QED BY <1>1, OneSync, RunsOwned, WaitersAnswered, NoStray, RemovedQuiet, PTL

------------------------------------------------------------------------------
(* Files of a removed account.  From the deletion's entry in the account's row *)
(* on, and as long as a request of that process still deletes, an account that *)
(* an edit inserts again stays without syncs, so nothing puts files back.      *)

NoneBlind == \A d \in Deletes : deletion[d] # "blindly done"
\* A request is past its entry in the row.
Past == \E d \in Deletes : deletion[d] \in {"stop", "wait", "finalize", "user"}
\* The row is removed, or was and has come back meanwhile.
After == row = "gone" \/ (row = "live" /\ Past)
\* The files of the latest job have been removed.
Removed == job.state = "complete" \/ (cleaner.pc = "removed" /\ cleaner.id = job.id)

MarkedAfter == NoneBlind /\ Past /\ row \in {"live", "gone"} => stopping /\ active = None
Entered     == Past => row # "absent"
JobWaits    == row = "deleting" =>
                  job.state = "pending" /\ (cleaner.pc # "idle" => cleaner.id # job.id)
JobOrder    == cleaner.pc # "idle" => cleaner.id <= job.id
CleanAfter  == NoneBlind /\ After /\ Removed => ~files
OwnerGone   == ~userGone => NoneBlind
EditsMarked == row = "gone" /\ NoneBlind /\ (\E v \in Saves : saving[v].pc = "checked") => stopping
CleansAlone == cleaner.pc # "idle" /\ row # "gone" => active = None /\ stopping /\ DOMAIN runs = {}
CleanInv == /\ MarkedAfter /\ Entered /\ JobWaits /\ JobOrder
            /\ CleanAfter /\ OwnerGone /\ EditsMarked /\ CleansAlone

LEMMA CleanInit == Init => CleanInv
BY DEF Init, CleanInv, MarkedAfter, Entered, JobWaits, JobOrder, CleanAfter, OwnerGone,
   EditsMarked, CleansAlone, NoneBlind, Past, After, Removed

\* Without an owner no run is inserted.
LEMMA NoOwnerNoRun ==
  ASSUME Types, OwnInv, Form, active = None, DOMAIN runs = {}
  PROVE  DOMAIN runs' = {}
<1> USE Members
<1>1. \A s \in Syncers : task[s].pc \notin Owning
  BY DEF OwnInv, OneSyncAtATime
<1>2. CASE Still
  BY <1>2, NoRuns DEF Still
<1>3. CASE Resets
  BY <1>3 DEF Resets
<1>4. ASSUME NEW s \in Syncers, Asks(s) \/ Gives(s) \/ Takes(s) \/ Aborts(s) \/ Moves(s)
      PROVE  runs' = runs
  BY <1>4 DEF Asks, Gives, Takes, Aborts, Moves
<1>5. ASSUME NEW s \in Syncers, Inserts(s) \/ Releases(s) PROVE FALSE
  <2>1. task[s].pc \in Owning
    BY <1>5 DEF Inserts, Releases, Goes, Owning
  <2> QED BY <1>1, <2>1
<1> QED BY <1>2, <1>3, <1>4, <1>5 DEF Form

\* A step of the syncs and watchers, which brings files back only if it has the account.
LEMMA CleanSync ==
  ASSUME Types, OwnInv, QuietInv, CleanInv, Form,
         UNCHANGED <<row, userGone, job, stopping, deletion, saving, cleaner>>,
         files' = files \/ active # None
  PROVE  CleanInv'
<1>1. stopping /\ active = None => active' = None
  BY FormQuiet
<1>2. active = None /\ DOMAIN runs = {} => DOMAIN runs' = {}
  BY NoOwnerNoRun
<1>3. NoneBlind' = NoneBlind /\ Past' = Past /\ After' = After /\ Removed' = Removed
  BY DEF NoneBlind, Past, After, Removed
<1>4. NoneBlind /\ After => active = None
  BY DEF QuietInv, SeenByDeletion, NoneBlind, After, CleanInv, MarkedAfter
<1>5. MarkedAfter' /\ CleansAlone'
  BY <1>1, <1>2, <1>3 DEF CleanInv, MarkedAfter, CleansAlone
<1>6. CleanAfter'
  BY <1>3, <1>4 DEF CleanInv, CleanAfter
<1>7. Entered' /\ JobWaits' /\ JobOrder' /\ OwnerGone' /\ EditsMarked'
  BY <1>3 DEF CleanInv, Entered, JobWaits, JobOrder, OwnerGone, EditsMarked
<1> QED BY <1>5, <1>6, <1>7 DEF CleanInv

\* A step of a deletion that leaves the row and the job as they are.
LEMMA CleanDeletes ==
  ASSUME Types, CleanInv, NEW d \in Deletes, NEW pc,
         UNCHANGED <<row, job, files, cleaner, active, runs, saving>>,
         stopping => stopping', userGone => userGone',
         deletion' = [deletion EXCEPT ![d] = pc], deletion[d] # "blindly done",
         pc \in {"stop", "wait", "finalize", "user"} =>
            deletion[d] \in {"stop", "wait", "finalize", "user"} \/ row = "deleting",
         pc = "blindly done" => userGone'
  PROVE  CleanInv'
<1>1. deletion \in [Deletes -> Deletion]
  BY DEF Types, RestTypes
<1>2. /\ deletion'[d] = pc
      /\ \A x \in Deletes : x # d => deletion'[x] = deletion[x]
  BY <1>1
<1>3. NoneBlind' => NoneBlind
  BY <1>2 DEF NoneBlind
<1>4. Past' => Past \/ row = "deleting"
  BY <1>2 DEF Past
<1>5. After' => After
  BY <1>4 DEF After
<1>6. Removed' = Removed
  BY DEF Removed
<1>7. MarkedAfter' /\ Entered' /\ JobWaits' /\ JobOrder' /\ EditsMarked' /\ CleansAlone'
  BY <1>3, <1>4 DEF CleanInv, MarkedAfter, Entered, JobWaits, JobOrder, EditsMarked, CleansAlone
<1>8. CleanAfter'
  BY <1>3, <1>5, <1>6 DEF CleanInv, CleanAfter
<1>9. OwnerGone'
  BY <1>2 DEF CleanInv, OwnerGone, NoneBlind
<1> QED BY <1>7, <1>8, <1>9 DEF CleanInv

\* The step that removes the row.
LEMMA CleanRowGone ==
  ASSUME Types, QuietInv, CleanInv, NEW d \in Deletes, NEW pc,
         UNCHANGED <<job, files, cleaner, active, stopping, saving>>,
         row' = "gone",
         deletion' = [deletion EXCEPT ![d] = pc],
         \/ deletion[d] = "finalize" /\ row = "deleting" /\ pc # "blindly done"
            /\ userGone' = userGone
         \/ deletion[d] \in {"user", "blind"} /\ row # "absent" /\ userGone'
            /\ (deletion[d] = "blind" => pc = "blindly done")
  PROVE  CleanInv'
<1>1. deletion \in [Deletes -> Deletion] /\ row \in RowState
  BY DEF Types, RestTypes
<1>2. /\ deletion'[d] = pc
      /\ \A x \in Deletes : x # d => deletion'[x] = deletion[x]
  BY <1>1
<1>3. NoneBlind' => NoneBlind /\ stopping /\ active = None
  BY <1>2 DEF NoneBlind, QuietInv, MarkHeld
<1>4. MarkedAfter' /\ Entered' /\ JobWaits' /\ JobOrder' /\ EditsMarked' /\ CleansAlone'
  BY <1>3 DEF CleanInv, MarkedAfter, Entered, JobWaits, JobOrder, EditsMarked, CleansAlone
<1>5. NoneBlind' /\ Removed => After
  <2>1. row = "deleting" => ~Removed
    BY DEF CleanInv, JobWaits, Removed
  <2>2. NoneBlind' => deletion[d] \in {"finalize", "user"}
    BY <1>2 DEF NoneBlind
  <2>3. NoneBlind' => Past
    BY <2>2 DEF Past
  <2>4. row \in {"live", "deleting", "gone"}
    BY <1>1 DEF RowState
  <2> QED BY <2>1, <2>3, <2>4 DEF After
<1>6. CleanAfter'
  BY <1>3, <1>5 DEF CleanInv, CleanAfter, Removed
<1>7. OwnerGone'
  BY <1>2 DEF CleanInv, OwnerGone, NoneBlind
<1> QED BY <1>4, <1>6, <1>7 DEF CleanInv

\* A step of a deletion.
LEMMA CleanDeletion ==
  ASSUME Types, QuietInv, CleanInv, NEW d \in Deletes, DeleteStep(d)
  PROVE  CleanInv'
<1>1. CASE DeleteRequested(d)
  <2>1. /\ UNCHANGED <<row, job, files, cleaner, active, runs, saving, stopping, userGone>>
        /\ deletion[d] = "new"
    BY <1>1 DEF DeleteRequested, DeleteAt, disk
  <2>2. PICK pc \in {"begin", "prestop", "blind"} : deletion' = [deletion EXCEPT ![d] = pc]
    BY <1>1 DEF DeleteRequested, DeleteTo
  <2> QED BY <2>1, <2>2, CleanDeletes
<1>2. CASE BeginDeletion(d)
  <2>1. /\ UNCHANGED <<files, cleaner, active, runs, saving, stopping, userGone>>
        /\ deletion[d] = "begin"
    BY <1>2 DEF BeginDeletion, DeleteAt, disk
  <2>2. CASE row \in {"gone", "absent"} /\ UNCHANGED <<row, job>> /\ DeleteTo(d, "done")
    <3>1. PICK pc \in {"done"} : deletion' = [deletion EXCEPT ![d] = pc]
      BY <2>2 DEF DeleteTo
    <3>2. UNCHANGED <<row, job>>
      BY <2>2
    <3> QED BY <2>1, <3>1, <3>2, CleanDeletes
  <2>3. CASE row = "deleting" /\ UNCHANGED <<row, job>> /\ DeleteTo(d, "stop")
    <3>1. PICK pc \in {"stop"} : deletion' = [deletion EXCEPT ![d] = pc]
      BY <2>3 DEF DeleteTo
    <3>2. UNCHANGED <<row, job>> /\ row = "deleting"
      BY <2>3
    <3> QED BY <2>1, <3>1, <3>2, CleanDeletes
  <2>4. CASE /\ row = "live" /\ row' = "deleting"
             /\ job' = [id |-> job.id + 1, state |-> "pending"] /\ DeleteTo(d, "stop")
    <3>1. job.id \in Nat /\ cleaner.id \in Nat
      BY DEF Types, RestTypes, Jobs, Cleaner
    <3>2. job'.id = job.id + 1 /\ job'.state = "pending"
      BY <2>4
    <3>3. deletion \in [Deletes -> Deletion]
      BY DEF Types, RestTypes
    <3>4. \A x \in Deletes : deletion'[x] = "blindly done" <=> deletion[x] = "blindly done"
      BY <2>1, <2>4, <3>3 DEF DeleteTo
    <3>5. NoneBlind' = NoneBlind
      BY <3>4 DEF NoneBlind
    <3>6. cleaner.pc # "idle" => cleaner.id < job'.id
      BY <3>1, <3>2 DEF CleanInv, JobOrder
    <3>7. JobWaits' /\ JobOrder'
      BY <2>1, <3>1, <3>2, <3>6 DEF JobWaits, JobOrder
    <3>8. MarkedAfter' /\ Entered' /\ CleanAfter' /\ EditsMarked'
      BY <2>4 DEF MarkedAfter, Entered, CleanAfter, After, EditsMarked
    <3>9. OwnerGone' /\ CleansAlone'
      BY <2>1, <2>4, <3>5 DEF CleanInv, OwnerGone, CleansAlone
    <3> QED BY <3>7, <3>8, <3>9 DEF CleanInv
  <2> QED BY <1>2, <2>2, <2>3, <2>4 DEF BeginDeletion
<1>3. CASE StopMarks(d)
  <2>1. /\ UNCHANGED <<row, job, files, cleaner, active, runs, saving, userGone>>
        /\ stopping'
    BY <1>3 DEF StopMarks, DeleteAt, disk
  <2>2. \/ deletion[d] = "prestop" /\ deletion' = [deletion EXCEPT ![d] = "prewait"]
        \/ deletion[d] = "stop" /\ deletion' = [deletion EXCEPT ![d] = "wait"]
    BY <1>3 DEF StopMarks, DeleteAt, DeleteTo
  <2> QED BY <2>1, <2>2, CleanDeletes
<1>4. CASE StopWaits(d)
  <2>1. UNCHANGED <<row, job, files, cleaner, active, runs, saving, stopping, userGone>>
    BY <1>4 DEF StopWaits, DeleteAt, disk
  <2>2. \/ deletion[d] = "prewait" /\ deletion' = [deletion EXCEPT ![d] = "begin"]
        \/ deletion[d] = "wait" /\ deletion' = [deletion EXCEPT ![d] = "finalize"]
    BY <1>4 DEF StopWaits, DeleteAt, DeleteTo
  <2> QED BY <2>1, <2>2, CleanDeletes
<1>5. CASE DeleteFails(d)
  <2>1. /\ UNCHANGED <<row, job, files, cleaner, active, runs, saving, stopping, userGone>>
        /\ deletion[d] # "blindly done"
    BY <1>5 DEF DeleteFails, DeleteAt, disk
  <2>2. PICK pc \in {"done"} : deletion' = [deletion EXCEPT ![d] = pc]
    BY <1>5 DEF DeleteFails, DeleteTo
  <2> QED BY <2>1, <2>2, CleanDeletes
<1>6. CASE FinalizeDeletion(d)
  <2>1. /\ UNCHANGED <<job, files, cleaner, active, stopping, saving, userGone>>
        /\ deletion[d] = "finalize"
    BY <1>6 DEF FinalizeDeletion, sync
  <2>2. PICK pc \in {"user", "done"} : deletion' = [deletion EXCEPT ![d] = pc]
    BY <1>6 DEF FinalizeDeletion, DeleteTo
  <2>3. CASE row = "deleting"
    <3>1. row' = "gone"
      BY <1>6, <2>3 DEF FinalizeDeletion, RowRemoved
    <3> QED BY <2>1, <2>2, <2>3, <3>1, CleanRowGone
  <2>4. CASE row # "deleting"
    <3>1. UNCHANGED <<row, runs>>
      BY <1>6, <2>4 DEF FinalizeDeletion
    <3> QED BY <2>1, <2>2, <3>1, CleanDeletes
  <2> QED BY <2>3, <2>4
<1>7. CASE RemoveUser(d)
  <2>1. /\ UNCHANGED <<job, files, cleaner, active, stopping, saving>> /\ userGone'
        /\ deletion[d] \in {"user", "blind"}
    BY <1>7 DEF RemoveUser, sync
  <2>2. PICK pc \in {"done", "blindly done"} :
           /\ deletion' = [deletion EXCEPT ![d] = pc]
           /\ deletion[d] = "blind" => pc = "blindly done"
    BY <1>7 DEF RemoveUser, DeleteTo
  <2>3. CASE row # "absent"
    <3>1. row' = "gone"
      BY <1>7, <2>3 DEF RemoveUser, RowRemoved
    <3> QED BY <2>1, <2>2, <2>3, <3>1, CleanRowGone
  <2>4. CASE row = "absent"
    <3>1. UNCHANGED <<row, runs>>
      BY <1>7, <2>4 DEF RemoveUser
    <3> QED BY <2>1, <2>2, <3>1, CleanDeletes
  <2> QED BY <2>3, <2>4
<1> QED BY <1>1, <1>2, <1>3, <1>4, <1>5, <1>6, <1>7 DEF DeleteStep

LEMMA CleanStep ==
  ASSUME Types, OwnInv, QuietInv, CleanInv, [Next]_vars
  PROVE  CleanInv'
<1>0. Form
  BY Forms DEF Types
<1>1. CASE SweepLists \/ (\E r \in Requests : Refresh(r))
           \/ (\E r \in Console : RequestLeaves(r)) \/ (\E w \in Watchers : IdleNotified(w))
           \/ (\E w \in Watchers : WatcherExits(w)) \/ CancelManual \/ Reconcile
  <2>1. UNCHANGED <<row, userGone, job, stopping, deletion, saving, cleaner, files>>
    BY <1>1 DEF SweepLists, Refresh, RequestLeaves, IdleNotified, WatcherExits, CancelManual,
       Reconcile, store, disk, others
  <2> QED BY <1>0, <2>1, CleanSync
<1>12. CASE \/ (\E s \in Syncers : Claim(s)) \/ (\E s \in Syncers : Recover(s))
            \/ (\E s \in Syncers : Provider(s)) \/ (\E s \in Syncers : Import(s))
            \/ (\E s \in Syncers : Settle(s)) \/ (\E s \in Syncers : Rescue(s))
            \/ (\E s \in Syncers : Finish(s))
  <2>1. UNCHANGED <<row, userGone, job, stopping, deletion, saving, cleaner, files>>
    BY <1>12 DEF Claim, Recover, Provider, Import, Settle, Rescue, Finish, InStep, store, disk, others
  <2> QED BY <1>0, <2>1, CleanSync
<1>2. ASSUME NEW s \in Syncers, Begin(s) \/ Pull(s) PROVE CleanInv'
  <2>1. UNCHANGED <<row, userGone, job, stopping, deletion, saving, cleaner>>
    BY <1>2 DEF Begin, Pull, InStep, store, disk, sync, idle, others
  <2>2. task[s].pc \in Owning
    BY <1>2 DEF Begin, Pull, InStep, Owning
  <2>3. active # None
    BY <2>2, Members DEF OwnInv, OneSyncAtATime
  <2> QED BY <1>0, <2>1, <2>3, CleanSync
<1>3. ASSUME NEW d \in Deletes, DeleteStep(d) PROVE CleanInv'
  BY <1>3, CleanDeletion
<1>4. CASE CreateAccount
  <2>1. /\ UNCHANGED <<userGone, job, runs, files, active, stopping, deletion, saving, cleaner>>
        /\ row = "absent" /\ row' = "live"
    BY <1>4 DEF CreateAccount, disk, sync, others
  <2>2. ~Past
    BY <2>1 DEF CleanInv, Entered
  <2> QED BY <2>1, <2>2 DEF CleanInv, MarkedAfter, Entered, JobWaits, JobOrder, CleanAfter,
       OwnerGone, EditsMarked, CleansAlone, NoneBlind, Past, After, Removed
<1>5. ASSUME NEW v \in Saves, SaveChecks(v) PROVE CleanInv'
  <2>1. /\ UNCHANGED <<row, userGone, job, runs, files, active, stopping, deletion, cleaner>>
        /\ row = "live"
    BY <1>5 DEF SaveChecks, store, disk, sync
  <2> QED BY <2>1 DEF CleanInv, MarkedAfter, Entered, JobWaits, JobOrder, CleanAfter,
       OwnerGone, EditsMarked, CleansAlone, NoneBlind, Past, After, Removed
<1>6. ASSUME NEW v \in Saves, SaveCommits(v) PROVE CleanInv'
  <2>1. /\ UNCHANGED <<userGone, job, runs, files, active, stopping, deletion, cleaner>>
        /\ saving[v].pc = "checked"
        /\ saving' = [saving EXCEPT ![v] = [saving[v] EXCEPT !.pc = "idle"]]
    BY <1>6 DEF SaveCommits, disk, sync
  <2>2. \A x \in Saves : saving'[x].pc = "checked" => saving[x].pc = "checked"
    BY <2>1 DEF Types, RestTypes, Saving
  <2>3. CASE row' = row
    BY <2>1, <2>2, <2>3 DEF CleanInv, MarkedAfter, Entered, JobWaits, JobOrder, CleanAfter,
       OwnerGone, EditsMarked, CleansAlone, NoneBlind, Past, After, Removed
  <2>4. CASE row = "gone" /\ ~userGone /\ row' = "live"
    <3>1. NoneBlind
      BY <2>4 DEF CleanInv, OwnerGone
    <3>2. stopping
      BY <2>1, <2>4, <3>1 DEF CleanInv, EditsMarked
    <3>3. active = None /\ DOMAIN runs = {}
      BY <2>4, <3>1 DEF QuietInv, SeenByDeletion, NoneBlind, GoneIsEmpty
    <3> QED BY <2>1, <2>2, <2>4, <3>2, <3>3 DEF CleanInv, MarkedAfter, Entered, JobWaits,
         JobOrder, CleanAfter, OwnerGone, EditsMarked, CleansAlone, NoneBlind, Past, After, Removed
  <2> QED BY <1>6, <2>3, <2>4 DEF SaveCommits
<1>7. CASE CleanupPicks
  <2>1. /\ UNCHANGED <<row, userGone, job, runs, files, active, stopping, deletion, saving>>
        /\ row = "gone" /\ cleaner' = [pc |-> "picked", id |-> job.id]
    BY <1>7 DEF CleanupPicks, store, disk, sync
  <2>2. cleaner'.pc = "picked" /\ cleaner'.id = job.id
    BY <2>1
  <2>3. cleaner'.id <= job'.id
    <3>1. job.id \in Nat
      BY DEF Types, RestTypes, Jobs
    <3> QED BY <2>1, <2>2, <3>1
  <2>4. JobOrder' /\ JobWaits' /\ CleansAlone'
    BY <2>1, <2>3 DEF JobOrder, JobWaits, CleansAlone
  <2>5. Removed' => Removed
    BY <2>1, <2>2 DEF Removed
  <2>6. MarkedAfter' /\ Entered' /\ CleanAfter' /\ OwnerGone' /\ EditsMarked'
    BY <2>1, <2>5 DEF CleanInv, MarkedAfter, Entered, CleanAfter, OwnerGone, EditsMarked,
       NoneBlind, Past, After
  <2> QED BY <2>4, <2>6 DEF CleanInv
<1>8. CASE CleanupRemoves
  <2>1. /\ UNCHANGED <<row, userGone, runs, active, stopping, deletion, saving>>
        /\ cleaner.pc = "picked"
    BY <1>8 DEF CleanupRemoves, sync
  <2>2. CASE files' = FALSE /\ cleaner' = [cleaner EXCEPT !.pc = "removed"] /\ job' = job
    <3>1. cleaner'.pc = "removed" /\ cleaner'.id = cleaner.id
      BY <2>2 DEF Types, RestTypes, Cleaner
    <3> QED BY <2>1, <2>2, <3>1 DEF CleanInv, MarkedAfter, Entered, JobWaits, JobOrder, CleanAfter,
         OwnerGone, EditsMarked, CleansAlone, NoneBlind, Past, After, Removed
  <2>3. CASE JobBecomes("failed") /\ cleaner' = [cleaner EXCEPT !.pc = "idle"] /\ files' = files
    <3>1. cleaner'.pc = "idle"
      BY <2>3 DEF Types, RestTypes, Cleaner
    <3>2. job' = job \/ (cleaner.id = job.id /\ job'.id = job.id /\ job'.state = "failed")
      BY <2>3 DEF JobBecomes, Types, RestTypes, Jobs
    <3>3. Removed' => Removed
      BY <3>1, <3>2 DEF Removed
    <3>4. JobWaits'
      BY <2>1, <3>1, <3>2 DEF CleanInv, JobWaits
    <3> QED BY <2>1, <2>3, <3>1, <3>3, <3>4 DEF CleanInv, MarkedAfter, Entered, JobOrder, CleanAfter,
         OwnerGone, EditsMarked, CleansAlone, NoneBlind, Past, After
  <2> QED BY <1>8, <2>2, <2>3 DEF CleanupRemoves, disk
<1>9. CASE CleanupFinishes
  <2>1. /\ UNCHANGED <<row, userGone, runs, files, active, stopping, deletion, saving>>
        /\ cleaner.pc = "removed" /\ cleaner' = [cleaner EXCEPT !.pc = "idle"]
    BY <1>9 DEF CleanupFinishes, sync, disk
  <2>2. cleaner'.pc = "idle"
    BY <2>1 DEF Types, RestTypes, Cleaner
  <2>3. job' = job \/ (cleaner.id = job.id /\ job'.id = job.id /\ job'.state = "complete")
    BY <1>9 DEF CleanupFinishes, JobBecomes, Types, RestTypes, Jobs
  <2>4. Removed' => Removed
    BY <2>1, <2>2, <2>3 DEF Removed
  <2>5. JobWaits'
    BY <2>1, <2>2, <2>3 DEF CleanInv, JobWaits
  <2> QED BY <2>1, <2>2, <2>4, <2>5 DEF CleanInv, MarkedAfter, Entered, JobOrder, CleanAfter,
       OwnerGone, EditsMarked, CleansAlone, NoneBlind, Past, After
<1>10. CASE CrashAndRestart
  <2>1. /\ UNCHANGED <<row, userGone, job, files>> /\ active' = None
        /\ cleaner' = [pc |-> "idle", id |-> 0]
        /\ saving' = [v \in Saves |-> [pc |-> "idle", version |-> 0]]
        /\ deletion' = [d \in Deletes |-> IF deletion[d] \in {"new", "blindly done"} THEN deletion[d] ELSE "done"]
    BY <1>10 DEF CrashAndRestart
  <2>2. cleaner'.pc = "idle" /\ \A v \in Saves : saving'[v].pc # "checked"
    BY <2>1
  <2>3. ~Past' /\ (NoneBlind' <=> NoneBlind)
    BY <2>1 DEF Past, NoneBlind
  <2>4. After' => After
    BY <2>1, <2>3 DEF After
  <2>5. Removed' => Removed
    BY <2>1, <2>2 DEF Removed
  <2>6. MarkedAfter' /\ Entered' /\ EditsMarked' /\ CleansAlone' /\ JobOrder'
    BY <2>2, <2>3 DEF MarkedAfter, Entered, EditsMarked, CleansAlone, JobOrder
  <2>7. CleanAfter' /\ OwnerGone' /\ JobWaits'
    BY <2>1, <2>2, <2>3, <2>4, <2>5 DEF CleanInv, CleanAfter, OwnerGone, JobWaits
  <2> QED BY <2>6, <2>7 DEF CleanInv
<1>11. CASE UNCHANGED vars
  <2>1. UNCHANGED <<row, userGone, job, stopping, deletion, saving, cleaner, files>>
    BY <1>11 DEF vars, store, disk, sync, others
  <2> QED BY <1>0, <2>1, CleanSync
<1> QED BY <1>1, <1>2, <1>3, <1>4, <1>5, <1>6, <1>7, <1>8, <1>9, <1>10, <1>11,
  <1>12 DEF Next, SyncStep

\* What a cleanup job has removed does not come back.
LEMMA CleanInvariant == Spec => [](OwnInv /\ QuietInv /\ CleanInv /\ Types)
<1>1. Init => QuietInv /\ CleanInv
  BY QuietInit, CleanInit
<1>2. Types /\ OwnInv /\ QuietInv /\ [Next]_vars => QuietInv'
  BY QuietStep
<1>3. Types /\ OwnInv /\ QuietInv /\ CleanInv /\ [Next]_vars => CleanInv'
  BY CleanStep
<1> QED BY <1>1, <1>2, <1>3, OwnInvariant, PTL DEF Spec

LEMMA CleanHolds == CleanInv => CleanedStaysClean
BY DEF CleanInv, CleanAfter, CleanedStaysClean, SeenByDeletion, NoneBlind, After, Removed

------------------------------------------------------------------------------
(* What is indexed when the provider is asked.  The latest run is the open run *)
(* of the sync at work; mail that is not indexed leaves it open or failed, so  *)
(* the next sync, which looks at the latest run, recovers first.               *)

Level == mail.indexed = mail.local
Begun == Owning \ {"begin"}
\* The state of the latest run.
Latest == runs[Len(runs)].state

OwnRun   == \A s \in Syncers : task[s].pc \in Begun /\ Len(runs) # 0
              => task[s].run = Len(runs) /\ Latest = "open"
Okay     == \A s \in Syncers : task[s].ok => task[s].pc = "finish"
Lined    == \A s \in Syncers : task[s].pc \in {"provider", "pull"} /\ Len(runs) \notin {0, 1} => Level
Imported == \A s \in Syncers : (task[s].pc = "settle" \/ task[s].ok) /\ Len(runs) # 0 => Level
LastGood == Len(runs) # 0 /\ Latest = "success" => Level
MailInv  == OwnRun /\ Okay /\ Lined /\ Imported /\ LastGood

LEMMA MailInit == Init => MailInv
<1> SUFFICES ASSUME Init PROVE MailInv
  OBVIOUS
<1>1. \A s \in Syncers : task[s].pc = "idle" /\ ~task[s].ok
  BY DEF Init, NoTask
<1>2. Len(runs) = 0
  BY DEF Init
<1> QED BY <1>1, <1>2 DEF MailInv, OwnRun, Okay, Lined, Imported, LastGood, Begun, Owning

\* The step sees the run of the sync at work.
LEMMA OwnRunStep ==
  ASSUME Types, OwnInv, MailInv, Form
  PROVE  OwnRun'
<1> USE Members
<1>1. OneSyncAtATime /\ OwnRun
  BY DEF OwnInv, MailInv
<1>2. CASE Still
  <2>1. Len(<<>>) = 0
    OBVIOUS
  <2> QED BY <1>1, <1>2, <2>1 DEF Still, Same, OwnRun, Latest
<1>3. CASE Resets
  BY <1>3 DEF Resets, OwnRun, Begun, Owning
<1>4. ASSUME NEW s \in Syncers, Asks(s) \/ Gives(s) \/ Takes(s) \/ Aborts(s) PROVE OwnRun'
  <2>1. /\ runs' = runs /\ task'[s].pc \notin Begun
        /\ \A x \in Syncers \ {s} : Same(x)
    BY <1>4 DEF Asks, Gives, Takes, Aborts, Goes, Begun, Owning
  <2> QED BY <1>1, <2>1 DEF Same, OwnRun, Latest
<1>5. ASSUME NEW s \in Syncers, Inserts(s) PROVE OwnRun'
  <2>1. PICK k \in Kinds : runs' = Append(runs, [kind |-> k, state |-> "open"])
    BY <1>5 DEF Inserts
  <2>2. [kind |-> k, state |-> "open"] \in Run /\ runs \in Seq(Run)
    BY DEF Run, Types, SyncTypes
  <2>3. Len(runs') = Len(runs) + 1 /\ runs'[Len(runs')] = [kind |-> k, state |-> "open"]
    BY <2>1, <2>2
  <2>4. task[s].pc \in Owning /\ task'[s].run = Len(runs) + 1
    BY <1>5 DEF Inserts, Goes, Owning
  <2>5. \A x \in Syncers \ {s} : task'[x].pc = task[x].pc /\ task[x].pc \notin Owning
    BY <1>1, <1>5, <2>4 DEF Inserts, Goes, Same, OneSyncAtATime
  <2> QED BY <2>3, <2>4, <2>5 DEF OwnRun, Latest, Begun
<1>6. ASSUME NEW s \in Syncers, Moves(s) PROVE OwnRun'
  <2>1. /\ runs' = runs /\ task[s].pc \in Begun /\ task'[s].run = task[s].run
        /\ \A x \in Syncers \ {s} : Same(x)
    BY <1>6 DEF Moves, Goes, Begun
  <2> QED BY <1>1, <2>1 DEF Same, OwnRun, Latest
<1>7. ASSUME NEW s \in Syncers, Releases(s) PROVE OwnRun'
  <2>1. task[s].pc \in Owning /\ task'[s].pc = "idle"
    BY <1>7 DEF Releases, Goes, Owning
  <2>2. \A x \in Syncers \ {s} : task'[x].pc = task[x].pc /\ task[x].pc \notin Owning
    BY <1>1, <1>7, <2>1 DEF Releases, Goes, Same, OneSyncAtATime
  <2> QED BY <2>1, <2>2 DEF OwnRun, Begun, Owning
<1> QED BY <1>2, <1>3, <1>4, <1>5, <1>6, <1>7 DEF Form

\* A step outside of the work of a sync: a task stays where it is or is a fresh one,
\* and the mail and the runs stay or the runs are removed.
Kept(x)  == task'[x].pc = task[x].pc /\ task'[x].ok = task[x].ok
Fresh(x) == task'[x].pc \in {"idle", "claim", "begin"} /\ ~task'[x].ok

LEMMA MailCalm ==
  ASSUME MailInv, \A x \in Syncers : Kept(x) \/ Fresh(x),
         UNCHANGED <<mail, runs>> \/ Len(runs') = 0
  PROVE  Okay' /\ Lined' /\ Imported' /\ LastGood'
<1>1. Okay'
  BY DEF MailInv, Okay, Kept, Fresh
<1>2. CASE Len(runs') = 0
  BY <1>1, <1>2 DEF Lined, Imported, LastGood
<1>3. CASE UNCHANGED <<mail, runs>>
  <2>1. Lined'
    BY <1>3 DEF MailInv, Lined, Kept, Fresh, Level
  <2>2. Imported'
    BY <1>3 DEF MailInv, Imported, Kept, Fresh, Level
  <2>3. LastGood'
    BY <1>3 DEF MailInv, LastGood, Level, Latest
  <2> QED BY <1>1, <2>1, <2>2, <2>3
<1> QED BY <1>2, <1>3

\* A step of the sync at work.
LEMMA MailWork ==
  ASSUME Types, OwnInv, MailInv, NEW s \in Syncers, task[s].pc \in Begun, runs' = runs,
         task'[s].pc \in Begun,
         \A x \in Syncers : x # s => task'[x] = task[x],
         task'[s].ok => task'[s].pc = "finish",
         task'[s].pc \in {"provider", "pull"} /\ Len(runs) \notin {0, 1} => Level',
         (task'[s].pc = "settle" \/ task'[s].ok) /\ Len(runs) # 0 => Level'
  PROVE  Okay' /\ Lined' /\ Imported' /\ LastGood'
<1>1. \A x \in Syncers : x # s => task[x].pc \notin Owning
  BY Members DEF OwnInv, OneSyncAtATime, Begun
<1>2. \A x \in Syncers : x # s => task'[x].pc \notin Owning /\ ~task'[x].ok
  BY <1>1 DEF MailInv, Okay, Owning
<1>3. Okay' /\ Lined' /\ Imported'
  BY <1>2 DEF Okay, Lined, Imported, Owning
<1>4. LastGood'
  BY DEF MailInv, OwnRun, LastGood, Latest
<1> QED BY <1>3, <1>4

\* The tasks in the steps that are not the work of a sync.
LEMMA CalmTasks ==
  ASSUME Types, MailInv,
         \/ SweepLists \/ (\E r \in Requests : Refresh(r))
         \/ (\E w \in Watchers : IdleNotified(w) \/ WatcherExits(w))
         \/ (\E s \in Syncers : Claim(s)) \/ CancelManual \/ Reconcile
         \/ (\E d \in Deletes : StopMarks(d))
  PROVE  \A x \in Syncers : Kept(x) \/ Fresh(x)
<1> USE Members
<1>0. task \in [Syncers -> Task] /\ registered \in Watchers \cup {None} /\ active \in Syncers \cup {None}
  BY DEF Types, SyncTypes
<1>2. CASE SweepLists
  <2>1. PICK t : t = [NoTask EXCEPT !.pc = "claim", !.version = version]
    OBVIOUS
  <2>2. t.pc = "claim" /\ ~t.ok
    BY <2>1 DEF NoTask
  <2>3. task' = [task EXCEPT ![Sweep] = t]
    BY <1>2, <2>1 DEF SweepLists
  <2> QED BY <1>0, <2>2, <2>3 DEF Kept, Fresh
<1>3. ASSUME NEW r \in Requests, Refresh(r) PROVE \A x \in Syncers : Kept(x) \/ Fresh(x)
  <2>1. PICK t : t = [NoTask EXCEPT !.pc = "claim", !.kind = "manual", !.version = version]
    OBVIOUS
  <2>2. t.pc = "claim" /\ ~t.ok
    BY <2>1 DEF NoTask
  <2>3. task' = [task EXCEPT ![r] = t]
    BY <1>3, <2>1 DEF Refresh
  <2> QED BY <1>0, <2>2, <2>3 DEF Kept, Fresh
<1>4. ASSUME NEW w \in Watchers, IdleNotified(w) PROVE \A x \in Syncers : Kept(x) \/ Fresh(x)
  <2>1. PICK t : t = [[task[w] EXCEPT !.pc = "claim"] EXCEPT !.kind = "incremental"]
    OBVIOUS
  <2>2. task[w].pc = "idle" /\ task[w] \in Task
    BY <1>0, <1>4 DEF IdleNotified
  <2>3. ~task[w].ok
    BY <2>2 DEF MailInv, Okay
  <2>4. t.pc = "claim" /\ ~t.ok
    BY <2>1, <2>2, <2>3 DEF Task
  <2>5. task' = [task EXCEPT ![w] = t]
    BY <1>4, <2>1 DEF IdleNotified
  <2> QED BY <1>0, <2>4, <2>5 DEF Kept, Fresh
<1>5. ASSUME NEW w \in Watchers, WatcherExits(w) PROVE \A x \in Syncers : Kept(x) \/ Fresh(x)
  BY <1>0, <1>5, CancelKeeps DEF WatcherExits, Kept
<1>6. ASSUME NEW s \in Syncers, Claim(s) PROVE \A x \in Syncers : Kept(x) \/ Fresh(x)
  <2>1. CASE Refused
    <3>1. PICK n : n = IF s \in Watchers THEN task[s].version ELSE 0
      OBVIOUS
    <3>2. PICK t : t = [NoTask EXCEPT !.version = n]
      OBVIOUS
    <3>3. t.pc = "idle" /\ ~t.ok
      BY <3>2 DEF NoTask
    <3>4. task' = [task EXCEPT ![s] = t]
      BY <1>6, <2>1, <3>1, <3>2 DEF Claim, Over
    <3> QED BY <1>0, <3>3, <3>4 DEF Kept, Fresh
  <2>2. CASE ~Refused
    <3>1. PICK c : c = (s \in Watchers /\ watch[s] = "cancelled")
      OBVIOUS
    <3>2. PICK k : task' = [task EXCEPT ![s].pc = "begin", ![s].kind = k, ![s].cancelled = c]
      BY <1>6, <2>2, <3>1 DEF Claim
    <3>3. PICK t : t = [[[task[s] EXCEPT !.pc = "begin"] EXCEPT !.kind = k] EXCEPT !.cancelled = c]
      OBVIOUS
    <3>4. task[s].pc = "claim" /\ task[s] \in Task
      BY <1>0, <1>6 DEF Claim
    <3>5. ~task[s].ok
      BY <3>4 DEF MailInv, Okay
    <3>6. t.pc = "begin" /\ ~t.ok
      BY <3>3, <3>4, <3>5 DEF Task
    <3>7. task' = [task EXCEPT ![s] = t]
      BY <3>2, <3>3
    <3> QED BY <1>0, <3>6, <3>7 DEF Kept, Fresh
  <2> QED BY <2>1, <2>2
<1>7. CASE CancelManual
  <2>1. active \in Syncers /\ task[active] \in Task
    BY <1>0, <1>7 DEF CancelManual
  <2>2. PICK t : t = [task[active] EXCEPT !.cancelled = TRUE]
    OBVIOUS
  <2>3. t.pc = task[active].pc /\ t.ok = task[active].ok
    BY <2>1, <2>2 DEF Task
  <2>4. task' = [task EXCEPT ![active] = t]
    BY <1>7, <2>2 DEF CancelManual
  <2> QED BY <1>0, <2>1, <2>3, <2>4 DEF Kept
<1>8. CASE Reconcile
  <2>1. PICK tasks : tasks = IF Outdated THEN CancelTask(task, registered) ELSE task
    OBVIOUS
  <2>2. tasks \in [Syncers -> Task] /\ \A x \in Syncers : tasks[x].pc = task[x].pc /\ tasks[x].ok = task[x].ok
    BY <1>0, <2>1, CancelKeeps DEF Outdated
  <2>3. task' = tasks \/ \E w \in Watchers : task' = [tasks EXCEPT ![w].version = version]
    BY <1>8, <2>1 DEF Reconcile
  <2>4. ASSUME NEW w \in Watchers, task' = [tasks EXCEPT ![w].version = version]
        PROVE  \A x \in Syncers : Kept(x)
    <3>1. PICK t : t = [tasks[w] EXCEPT !.version = version]
      OBVIOUS
    <3>2. tasks[w] \in Task
      BY <2>2
    <3>3. t.pc = tasks[w].pc /\ t.ok = tasks[w].ok
      BY <3>1, <3>2 DEF Task
    <3>4. task' = [tasks EXCEPT ![w] = t]
      BY <2>4, <3>1
    <3> QED BY <2>2, <3>3, <3>4 DEF Kept
  <2> QED BY <2>2, <2>3, <2>4 DEF Kept
<1>9. ASSUME NEW d \in Deletes, StopMarks(d) PROVE \A x \in Syncers : Kept(x) \/ Fresh(x)
  <2>1. task' = IF active # None THEN CancelTask(task, active) ELSE task
    BY <1>9 DEF StopMarks
  <2> QED BY <1>0, <2>1, CancelKeeps DEF Kept
<1> QED BY <1>2, <1>3, <1>4, <1>5, <1>6, <1>7, <1>8, <1>9

\* A step of a sync that only moves on.
LEMMA WorkTask ==
  ASSUME Types, MailInv, NEW s \in Syncers, task[s].pc \in Begun \ {"finish"},
         NEW p \in Begun, task' = ToStep(s, p)
  PROVE  /\ task'[s].pc = p /\ ~task'[s].ok
         /\ \A x \in Syncers : x # s => task'[x] = task[x]
<1>1. task \in [Syncers -> Task] /\ task[s] \in Task
  BY DEF Types, SyncTypes
<1>2. PICK t : t = [task[s] EXCEPT !.pc = p]
  OBVIOUS
<1>3. t.pc = p /\ t.ok = task[s].ok
  BY <1>1, <1>2 DEF Task
<1>4. task' = [task EXCEPT ![s] = t]
  BY <1>2 DEF ToStep
<1>5. ~task[s].ok
  BY DEF MailInv, Okay
<1> QED BY <1>1, <1>3, <1>4, <1>5

LEMMA IndexedIsLevel == mail \in Mail /\ Indexed => Level'
BY DEF Mail, Indexed, Level

\* Recover, Provider, Pull, Import, Settle and Rescue.
LEMMA MailWorks ==
  ASSUME Types, OwnInv, MailInv, NEW s \in Syncers,
         Recover(s) \/ Provider(s) \/ Pull(s) \/ Import(s) \/ Settle(s) \/ Rescue(s)
  PROVE  Okay' /\ Lined' /\ Imported' /\ LastGood'
<1>0. mail \in Mail
  BY DEF Types, RestTypes
<1>1. CASE Recover(s)
  <2>1. task[s].pc = "recover" /\ runs' = runs
    BY <1>1 DEF Recover, InStep, store
  <2>2. PICK p \in {"provider", "rescue"} : task' = ToStep(s, p) /\ (p = "provider" => Indexed)
    BY <1>1 DEF Recover, Succeeds, Fails
  <2>3. task[s].pc \in Begun \ {"finish"} /\ p \in Begun
    BY <2>1 DEF Begun, Owning
  <2>4. task'[s].pc = p /\ ~task'[s].ok /\ \A x \in Syncers : x # s => task'[x] = task[x]
    BY <2>2, <2>3, WorkTask
  <2> QED BY <1>0, <2>1, <2>2, <2>3, <2>4, IndexedIsLevel, MailWork
<1>2. CASE Provider(s)
  <2>1. task[s].pc = "provider" /\ runs' = runs /\ mail' = mail
    BY <1>2 DEF Provider, InStep, store, disk
  <2>2. PICK p \in {"pull", "rescue"} : task' = ToStep(s, p)
    BY <1>2 DEF Provider, Succeeds, Fails
  <2>3. task[s].pc \in Begun \ {"finish"} /\ p \in Begun
    BY <2>1 DEF Begun, Owning
  <2>4. task'[s].pc = p /\ ~task'[s].ok /\ \A x \in Syncers : x # s => task'[x] = task[x]
    BY <2>2, <2>3, WorkTask
  <2>5. Len(runs) \notin {0, 1} => Level'
    BY <2>1 DEF MailInv, Lined, Level
  <2> QED BY <2>1, <2>2, <2>3, <2>4, <2>5, MailWork
<1>3. CASE Pull(s)
  <2>1. task[s].pc = "pull" /\ runs' = runs
    BY <1>3 DEF Pull, InStep, store
  <2>2. PICK p \in {"import", "rescue"} : task' = ToStep(s, p)
    BY <1>3 DEF Pull, Succeeds, Fails
  <2>3. task[s].pc \in Begun \ {"finish"} /\ p \in Begun
    BY <2>1 DEF Begun, Owning
  <2>4. task'[s].pc = p /\ ~task'[s].ok /\ \A x \in Syncers : x # s => task'[x] = task[x]
    BY <2>2, <2>3, WorkTask
  <2> QED BY <2>1, <2>2, <2>3, <2>4, MailWork
<1>4. CASE Import(s)
  <2>1. task[s].pc = "import" /\ runs' = runs
    BY <1>4 DEF Import, InStep, store
  <2>2. PICK p \in {"settle", "rescue"} : task' = ToStep(s, p) /\ (p = "settle" => Indexed)
    BY <1>4 DEF Import, Succeeds, Fails
  <2>3. task[s].pc \in Begun \ {"finish"} /\ p \in Begun
    BY <2>1 DEF Begun, Owning
  <2>4. task'[s].pc = p /\ ~task'[s].ok /\ \A x \in Syncers : x # s => task'[x] = task[x]
    BY <2>2, <2>3, WorkTask
  <2> QED BY <1>0, <2>1, <2>2, <2>3, <2>4, IndexedIsLevel, MailWork
<1>5. CASE Settle(s)
  <2>1. task[s].pc = "settle" /\ runs' = runs /\ mail' = mail
    BY <1>5 DEF Settle, InStep, store, disk
  <2>2. task[s].pc \in Begun \ {"finish"}
    BY <2>1 DEF Begun, Owning
  <2>3. Len(runs) # 0 => Level'
    BY <2>1 DEF MailInv, Imported, Level
  <2>4. CASE task' = ToStep(s, "rescue")
    <3>1. PICK p \in {"rescue"} : task' = ToStep(s, p)
      BY <2>4
    <3>2. p \in Begun
      BY DEF Begun, Owning
    <3>3. task'[s].pc = p /\ ~task'[s].ok /\ \A x \in Syncers : x # s => task'[x] = task[x]
      BY <2>2, <3>1, <3>2, WorkTask
    <3> QED BY <2>1, <2>2, <3>1, <3>2, <3>3, MailWork
  <2>5. CASE task' = [task EXCEPT ![s].pc = "finish", ![s].ok = TRUE]
    <3>1. task \in [Syncers -> Task] /\ task[s] \in Task
      BY DEF Types, SyncTypes
    <3>2. PICK t : t = [[task[s] EXCEPT !.pc = "finish"] EXCEPT !.ok = TRUE]
      OBVIOUS
    <3>3. t.pc = "finish"
      BY <3>1, <3>2 DEF Task
    <3>4. task' = [task EXCEPT ![s] = t]
      BY <2>5, <3>2
    <3>5. task'[s].pc = "finish" /\ \A x \in Syncers : x # s => task'[x] = task[x]
      BY <3>1, <3>3, <3>4
    <3>6. task'[s].pc \in Begun
      BY <3>5 DEF Begun, Owning
    <3> QED BY <2>1, <2>2, <2>3, <3>5, <3>6, MailWork
  <2> QED BY <1>5, <2>4, <2>5 DEF Settle, Fails
<1>6. CASE Rescue(s)
  <2>1. task[s].pc = "rescue" /\ runs' = runs
    BY <1>6 DEF Rescue, InStep, store
  <2>2. PICK p \in {"finish"} : task' = ToStep(s, p)
    BY <1>6 DEF Rescue
  <2>3. task[s].pc \in Begun \ {"finish"} /\ p \in Begun
    BY <2>1 DEF Begun, Owning
  <2>4. task'[s].pc = p /\ ~task'[s].ok /\ \A x \in Syncers : x # s => task'[x] = task[x]
    BY <2>2, <2>3, WorkTask
  <2> QED BY <2>1, <2>2, <2>3, <2>4, MailWork
<1> QED BY <1>1, <1>2, <1>3, <1>4, <1>5, <1>6

\* The insertion of a run: it leads to the provider only after a successful one.
LEMMA MailBegins ==
  ASSUME Types, OwnInv, MailInv, NEW s \in Syncers, Begin(s)
  PROVE  Okay' /\ Lined' /\ Imported' /\ LastGood'
<1>0. task \in [Syncers -> Task] /\ runs \in Seq(Run) /\ task[s] \in Task /\ mail' = mail
  BY DEF Begin, Types, SyncTypes
<1>1. task[s].pc = "begin"
  BY DEF Begin
<1>2. ~task[s].ok
  BY <1>1 DEF MailInv, Okay
<1>3. CASE task' = [task EXCEPT ![s] = Over(s)] /\ runs' = runs
  <2>1. PICK n : n = IF s \in Watchers THEN task[s].version ELSE 0
    OBVIOUS
  <2>2. PICK t : t = [NoTask EXCEPT !.version = n]
    OBVIOUS
  <2>3. t.pc = "idle" /\ ~t.ok
    BY <2>2 DEF NoTask
  <2>4. task' = [task EXCEPT ![s] = t]
    BY <1>3, <2>1, <2>2 DEF Over
  <2>5. \A x \in Syncers : Kept(x) \/ Fresh(x)
    BY <1>0, <2>3, <2>4 DEF Kept, Fresh
  <2> QED BY <1>0, <1>3, <2>5, MailCalm
<1>4. CASE /\ runs' = Append(runs, [kind |-> task[s].kind, state |-> "open"])
           /\ \E pc \in {"recover", "provider", "finish"} :
                /\ task' = [task EXCEPT ![s].run = Len(runs) + 1, ![s].pc = pc]
                /\ pc = "provider" => ~PreviousFailed
  <2>1. PICK pc \in {"recover", "provider", "finish"} :
           /\ task' = [task EXCEPT ![s].run = Len(runs) + 1, ![s].pc = pc]
           /\ pc = "provider" => ~PreviousFailed
    BY <1>4
  <2>2. PICK t : t = [[task[s] EXCEPT !.run = Len(runs) + 1] EXCEPT !.pc = pc]
    OBVIOUS
  <2>3. t.pc = pc /\ ~t.ok
    BY <1>0, <1>2, <2>2 DEF Task
  <2>4. task' = [task EXCEPT ![s] = t]
    BY <2>1, <2>2
  <2>5. /\ task'[s].pc = pc /\ ~task'[s].ok
        /\ \A x \in Syncers : x # s => task'[x] = task[x]
    BY <1>0, <2>3, <2>4
  <2>6. \A x \in Syncers : x # s => task[x].pc \notin Owning
    BY <1>1, Members DEF OwnInv, OneSyncAtATime, Owning
  <2>7. PICK e : e = [kind |-> task[s].kind, state |-> "open"]
    OBVIOUS
  <2>8. e \in Run /\ e.state = "open"
    BY <1>0, <2>7 DEF Run, Task
  <2>9. Len(runs') = Len(runs) + 1 /\ runs'[Len(runs')] = e /\ Len(runs) \in Nat
    BY <1>0, <1>4, <2>7, <2>8
  <2>10. LastGood'
    BY <2>8, <2>9 DEF LastGood, Latest
  <2>11. pc = "provider" /\ Len(runs) # 0 => Level
    <3>1. runs = <<>> => Len(runs) = 0
      OBVIOUS
    <3> QED BY <2>1, <3>1 DEF PreviousFailed, MailInv, LastGood, Latest
  <2>12. Okay' /\ Imported'
    BY <2>5, <2>6 DEF MailInv, Okay, Imported, Owning
  <2>13. Lined'
    <3>1. Len(runs') \notin {0, 1} => Len(runs) # 0
      BY <2>9
    <3>2. Level' = Level
      BY <1>0 DEF Level
    <3> QED BY <2>5, <2>6, <2>11, <3>1, <3>2 DEF Lined, Owning
  <2> QED BY <2>10, <2>12, <2>13
<1>5. \/ task' = [task EXCEPT ![s] = Over(s)] /\ runs' = runs
      \/ /\ runs' = Append(runs, [kind |-> task[s].kind, state |-> "open"])
         /\ \E pc \in {"recover", "provider", "finish"} :
              /\ task' = [task EXCEPT ![s].run = Len(runs) + 1, ![s].pc = pc]
              /\ pc = "provider" => ~PreviousFailed
  BY DEF Begin
<1> QED BY <1>3, <1>4, <1>5

\* The end of a sync: a run closed as successful leaves everything indexed.
LEMMA MailEnds ==
  ASSUME Types, OwnInv, MailInv, NEW s \in Syncers, Finish(s)
  PROVE  Okay' /\ Lined' /\ Imported' /\ LastGood'
<1>0. task \in [Syncers -> Task] /\ runs \in Seq(Run) /\ task[s].run \in Nat /\ mail' = mail
  BY DEF Finish, Types, SyncTypes, Task, disk
<1>1. task[s].pc = "finish" /\ task[s].pc \in Begun
  BY DEF Finish, Begun, Owning
<1>2. PICK n : n = IF s \in Watchers THEN task[s].version ELSE 0
  OBVIOUS
<1>3. PICK t : t = [NoTask EXCEPT !.version = n]
  OBVIOUS
<1>4. t.pc = "idle" /\ ~t.ok
  BY <1>3 DEF NoTask
<1>5. task' = [task EXCEPT ![s] = t]
  BY <1>2, <1>3 DEF Finish, Over
<1>6. \A x \in Syncers : x # s => task[x].pc \notin Owning
  BY <1>1, Members DEF OwnInv, OneSyncAtATime, Begun
<1>7. \A x \in Syncers : task'[x].pc \notin {"provider", "pull", "settle"} /\ ~task'[x].ok
  BY <1>0, <1>4, <1>5, <1>6 DEF MailInv, Okay, Owning
<1>8. Okay' /\ Lined' /\ Imported'
  BY <1>7 DEF Okay, Lined, Imported
<1>9. LastGood'
  <2>1. CASE task[s].run \notin DOMAIN runs
    <3>1. runs' = runs
      BY <2>1 DEF Finish
    <3>2. Len(runs) # 0 => Len(runs) \in DOMAIN runs
      BY <1>0
    <3>3. Len(runs) = 0
      BY <1>1, <2>1, <3>2 DEF MailInv, OwnRun
    <3> QED BY <3>1, <3>3 DEF LastGood
  <2>2. CASE task[s].run \in DOMAIN runs
    <3>1. PICK state \in {Closed(s), "unclosed"} : runs' = [runs EXCEPT ![task[s].run].state = state]
      BY <2>2 DEF Finish
    <3>2. Len(runs) # 0
      BY <1>0, <2>2
    <3>3. task[s].run = Len(runs)
      BY <1>1, <3>2 DEF MailInv, OwnRun
    <3>4. PICK e : e = [runs[Len(runs)] EXCEPT !.state = state]
      OBVIOUS
    <3>5. runs[Len(runs)] \in Run
      BY <1>0, <2>2, <3>3
    <3>6. e.state = state
      BY <3>4, <3>5 DEF Run
    <3>7. runs' = [runs EXCEPT ![Len(runs)] = e]
      BY <3>1, <3>3, <3>4
    <3>8. Len(runs') = Len(runs) /\ runs'[Len(runs)] = e
      BY <1>0, <2>2, <3>3, <3>7
    <3>9. Latest' = state
      BY <3>6, <3>8 DEF Latest
    <3>10. state = "success" => task[s].ok
      BY <3>1 DEF Closed
    <3>11. task[s].ok => Level
      BY <3>2 DEF MailInv, Imported
    <3> QED BY <1>0, <3>9, <3>10, <3>11 DEF LastGood, Level
  <2> QED BY <2>1, <2>2
<1> QED BY <1>8, <1>9

\* A restart: only mbsync can have added mail, and its run is then interrupted.
LEMMA MailCrash ==
  ASSUME Types, OwnInv, MailInv, CrashAndRestart
  PROVE  Okay' /\ Lined' /\ Imported' /\ LastGood'
<1>0. runs \in Seq(Run) /\ mail \in Mail
  BY DEF Types, SyncTypes, RestTypes
<1>1. \A x \in Syncers : task'[x].pc = "idle" /\ ~task'[x].ok
  <2>1. NoTask.pc = "idle" /\ ~NoTask.ok
    BY DEF NoTask
  <2> QED BY <2>1 DEF CrashAndRestart
<1>2. Okay' /\ Lined' /\ Imported'
  BY <1>1 DEF Okay, Lined, Imported
<1>3. /\ Len(runs') = Len(runs)
      /\ \A i \in DOMAIN runs : runs'[i].state = "success" => runs[i].state = "success"
  <2>1. \A i \in DOMAIN runs : [runs[i] EXCEPT !.state = "interrupted"].state = "interrupted"
    <3>1. \A i \in DOMAIN runs : runs[i] \in Run
      BY <1>0
    <3> QED BY <3>1 DEF Run
  <2>2. runs' = [i \in DOMAIN runs |->
                   IF runs[i].state \in {"open", "unclosed"}
                   THEN [runs[i] EXCEPT !.state = "interrupted"] ELSE runs[i]]
    BY DEF CrashAndRestart
  <2>3. Len(runs') = Len(runs)
    BY <1>0, <2>2
  <2>4. \A i \in DOMAIN runs : runs'[i].state = "success" => runs[i].state = "success"
    BY <2>1, <2>2
  <2> QED BY <2>3, <2>4
<1>4. ASSUME Len(runs) # 0, Latest' = "success" PROVE Level'
  <2>1. Len(runs) \in DOMAIN runs
    BY <1>0, <1>4
  <2>2. Latest = "success"
    BY <1>3, <1>4, <2>1 DEF Latest
  <2>3. ~At({"pull"})
    <3>1. \A s \in Syncers : task[s].pc # "pull"
      BY <1>4, <2>2 DEF MailInv, OwnRun, Begun, Owning
    <3>2. active \in Syncers \cup {None}
      BY DEF Types, SyncTypes
    <3> QED BY <3>1, <3>2 DEF At
  <2>4. mail' = [mail EXCEPT !.local = mail.local]
    BY <2>3 DEF CrashAndRestart
  <2>5. mail' = mail
    BY <1>0, <2>4 DEF Mail
  <2>6. Level
    BY <1>4, <2>2 DEF MailInv, LastGood
  <2> QED BY <2>5, <2>6 DEF Level
<1>5. LastGood'
  BY <1>3, <1>4 DEF LastGood
<1> QED BY <1>2, <1>5

LEMMA MailStep ==
  ASSUME Types, OwnInv, QuietInv, CleanInv, MailInv, [Next]_vars
  PROVE  MailInv'
<1> USE Members
<1>0. OwnRun'
  BY OwnRunStep, Forms DEF Types
<1>1. CASE \/ SweepLists \/ (\E r \in Requests : Refresh(r))
           \/ (\E w \in Watchers : IdleNotified(w) \/ WatcherExits(w))
           \/ (\E s \in Syncers : Claim(s)) \/ CancelManual \/ Reconcile
           \/ (\E d \in Deletes : StopMarks(d))
  <2>1. \A x \in Syncers : Kept(x) \/ Fresh(x)
    BY <1>1, CalmTasks
  <2>2. CASE \/ SweepLists \/ (\E r \in Requests : Refresh(r)) \/ (\E s \in Syncers : Claim(s))
             \/ CancelManual \/ Reconcile \/ (\E d \in Deletes : StopMarks(d))
    <3>1. UNCHANGED <<mail, runs>>
      BY <2>2 DEF SweepLists, Refresh, Claim, CancelManual, Reconcile, StopMarks, DeleteAt, store, disk
    <3> QED BY <1>0, <2>1, <3>1, MailCalm DEF MailInv
  <2>3. ASSUME NEW w \in Watchers, IdleNotified(w) \/ WatcherExits(w) PROVE MailInv'
    <3>1. UNCHANGED <<mail, runs>>
      BY <2>3 DEF IdleNotified, WatcherExits, store, disk
    <3> QED BY <1>0, <2>1, <3>1, MailCalm DEF MailInv
  <2> QED BY <1>1, <2>2, <2>3
<1>2. CASE \/ (\E r \in Console : RequestLeaves(r))
           \/ (\E d \in Deletes : DeleteRequested(d) \/ BeginDeletion(d) \/ StopWaits(d) \/ DeleteFails(d))
           \/ CreateAccount \/ (\E v \in Saves : SaveChecks(v) \/ SaveCommits(v))
           \/ CleanupPicks \/ CleanupFinishes \/ UNCHANGED vars
  <2>1. UNCHANGED <<mail, runs, task>>
    BY <1>2 DEF RequestLeaves, DeleteRequested, BeginDeletion, StopWaits, DeleteFails,
       CreateAccount, SaveChecks, SaveCommits, CleanupPicks, CleanupFinishes, DeleteAt,
       vars, store, disk, sync
  <2> QED BY <1>0, <2>1, MailCalm DEF MailInv, Kept
<1>3. ASSUME NEW d \in Deletes, FinalizeDeletion(d) \/ RemoveUser(d) PROVE MailInv'
  <2>1. task' = task
    BY <1>3 DEF FinalizeDeletion, RemoveUser, sync
  <2>2. UNCHANGED <<mail, runs>> \/ RowRemoved
    BY <1>3 DEF FinalizeDeletion, RemoveUser
  <2>3. UNCHANGED <<mail, runs>> \/ Len(runs') = 0
    <3>1. Len(<<>>) = 0
      OBVIOUS
    <3> QED BY <2>2, <3>1 DEF RowRemoved
  <2> QED BY <1>0, <2>1, <2>3, MailCalm DEF MailInv, Kept
<1>4. CASE CleanupRemoves
  <2>1. UNCHANGED <<task, runs>> /\ cleaner.pc = "picked"
    BY <1>4 DEF CleanupRemoves, sync
  <2>2. DOMAIN runs = {}
    BY <2>1 DEF CleanInv, CleansAlone, QuietInv, GoneIsEmpty
  <2>3. Len(runs') = 0
    <3>1. runs \in Seq(Run)
      BY DEF Types, SyncTypes
    <3> QED BY <2>1, <2>2, <3>1
  <2> QED BY <1>0, <2>1, <2>3, MailCalm DEF MailInv, Kept
<1>5. ASSUME NEW s \in Syncers, Begin(s) PROVE MailInv'
  BY <1>0, <1>5, MailBegins DEF MailInv
<1>6. ASSUME NEW s \in Syncers,
             Recover(s) \/ Provider(s) \/ Pull(s) \/ Import(s) \/ Settle(s) \/ Rescue(s)
      PROVE  MailInv'
  BY <1>0, <1>6, MailWorks DEF MailInv
<1>7. ASSUME NEW s \in Syncers, Finish(s) PROVE MailInv'
  BY <1>0, <1>7, MailEnds DEF MailInv
<1>8. CASE CrashAndRestart
  BY <1>0, <1>8, MailCrash DEF MailInv
<1> QED BY <1>1, <1>2, <1>3, <1>4, <1>5, <1>6, <1>7, <1>8 DEF Next, SyncStep, DeleteStep

\* The sync that asks the provider has the latest run.
LEMMA MailHolds == ASSUME Types, MailInv PROVE RecoveredBeforeProvider
<1> SUFFICES ASSUME NEW s \in Syncers, task[s].pc \in {"provider", "pull"},
                    task[s].run \in DOMAIN runs \ {1}
             PROVE  Level
  BY DEF RecoveredBeforeProvider, Level
<1>1. runs \in Seq(Run)
  BY DEF Types, SyncTypes
<1>2. Len(runs) # 0
  BY <1>1
<1>3. task[s].run = Len(runs)
  BY <1>2 DEF MailInv, OwnRun, Begun, Owning
<1> QED BY <1>2, <1>3 DEF MailInv, Lined

\* What a completed cleanup has removed stays removed, and a sync asks the provider
\* only when everything an earlier run or a killed process left is indexed: both of
\* what the run checks as one invariant.
THEOREM RecoversAndCleansHolds == Spec => []RecoversAndCleans
<1>1. Init => MailInv
  BY MailInit
<1>2. Types /\ OwnInv /\ QuietInv /\ CleanInv /\ MailInv /\ [Next]_vars => MailInv'
  BY MailStep
<1>3. Types /\ CleanInv /\ MailInv => RecoversAndCleans
  BY CleanHolds, MailHolds DEF RecoversAndCleans
<1> QED BY <1>1, <1>2, <1>3, CleanInvariant, PTL DEF Spec
==============================================================================
