------------------------- MODULE NavigationProofs -------------------------
(***************************************************************************)
(* Proofs about the menus of a call, for every help tree, every length of  *)
(* the history and of the key queue, and any number of tasks.              *)
(***************************************************************************)
EXTENDS Navigation, FiniteSetTheorems, SequenceTheorems, TLAPS

-----------------------------------------------------------------------------
(* Waiting keys. *)

\* A waiting key carries the screen of the moment or no fresh stamp.
Stamped == queue \in Seq({screen, None})

\* Every stamp taken before is stale.
Passes == StampsPass
\* Neither the screen nor a waiting key changes.
Stays == UNCHANGED <<screen, queue>>

\* A change of screen leaves only stale stamps behind.
LEMMA PassKeepsStamps == ASSUME Stamped, StampsPass PROVE Stamped'
<1>1. DOMAIN queue = 1..Len(queue) /\ Len(queue) \in Nat
  BY DEF Stamped
<1>2. queue' = [i \in 1..Len(queue) |-> None]
  BY <1>1 DEF StampsPass
<1> QED BY <1>1, <1>2 DEF Stamped

\* transitionLocked advances the generation whenever it changes the screen.
LEMMA EnterPasses == ASSUME NEW n, Enter(n) PROVE Passes \/ Stays
BY DEF Enter, Passes, Stays, menus

\* So do both ways back.
LEMMA BackPasses == ASSUME BackByContract \/ BackUsingFlow PROVE Passes
BY DEF BackByContract, BackUsingFlow, Passes

\* Every key's handler leaves the queue to the stamps.
LEMMA KeysPass == ASSUME Keys PROVE Passes \/ Stays
<1>1. CASE NoEffect \/ RemoveAttachment \/ PoundStays \/ FinishRecording
  BY <1>1 DEF NoEffect, RemoveAttachment, PoundStays, FinishRecording, Stays, menus
<1>2. CASE Choose \/ OpenFolders \/ StartCompose \/ ResumeDraft \/ EditField
  BY <1>2, EnterPasses DEF Choose, OpenFolders, StartCompose, ResumeDraft, EditField
<1>3. CASE EditAttachments \/ FinishField \/ ReenterField \/ AcceptField \/ ReviewEdit
  BY <1>3, EnterPasses DEF EditAttachments, FinishField, ReenterField, AcceptField, ReviewEdit
<1>4. CASE (\E ok \in BOOLEAN : SendOrSave(ok)) \/ CancelDraft
  <2>1. Enter("main") \/ UNCHANGED menus
    BY <1>4 DEF SendOrSave, CancelDraft
  <2> QED BY <2>1, EnterPasses DEF Stays, menus
<1>5. CASE PoundBack \/ PoundHelp \/ PoundDraftEdit \/ AbandonRecording
  BY <1>5, BackPasses DEF PoundBack, PoundHelp, PoundDraftEdit, AbandonRecording
<1>6. CASE PoundForm \/ PoundConfirm \/ StartRecording \/ StartPlayback
  BY <1>6, EnterPasses DEF PoundForm, PoundConfirm, StartRecording, StartPlayback
<1>7. CASE StopPlayback
  BY <1>7, EnterPasses, BackPasses DEF StopPlayback
<1> QED BY <1>1, <1>2, <1>3, <1>4, <1>5, <1>6, <1>7 DEF Keys

\* So does the end of every task.
LEMMA TasksPass == ASSUME Tasks PROVE Passes \/ Stays
<1>1. CASE BeginCapture
  BY <1>1 DEF BeginCapture, Stays, menus
<1>2. CASE CaptureFails
  BY <1>2, EnterPasses DEF CaptureFails
<1>3. ASSUME NEW t \in recordings, WindowEnds(t) PROVE Stays
  BY <1>3 DEF WindowEnds, Stays, menus
<1>4. ASSUME NEW t \in recordings, RecordingEnds(t) PROVE Passes \/ Stays
  <2>1. UNCHANGED menus \/ \E n \in {Fallback(t.kind), "review", "body_method"} : Enter(n)
    BY <1>4 DEF RecordingEnds
  <2> QED BY <2>1, EnterPasses DEF Stays, menus
<1>5. ASSUME NEW p \in players, PlaybackStarts(p) \/ PlaybackFails(p) PROVE Stays
  BY <1>5 DEF PlaybackStarts, PlaybackFails, Stays, menus
<1>6. ASSUME NEW p \in players, PlaybackEnds(p) PROVE Passes \/ Stays
  <2>1. Enter("read") \/ UNCHANGED menus
    BY <1>6 DEF PlaybackEnds
  <2> QED BY <2>1, EnterPasses DEF Stays, menus
<1> QED BY <1>1, <1>2, <1>3, <1>4, <1>5, <1>6 DEF Tasks

\* The bridge's reader and the worker only add a fresh stamp or take the oldest.
LEMMA QueueSteps == ASSUME Stamped, Press \/ Take \/ HangUp PROVE Stamped'
<1>1. CASE Press
  <2> DEFINE waiting == IF Len(queue) = MaxQueue THEN Tail(queue) ELSE queue
  <2>1. screen' = screen /\ queue' = Append(waiting, screen)
    BY <1>1 DEF Press
  <2>2. CASE Len(queue) # MaxQueue \/ queue # <<>>
    <3>1. waiting \in Seq({screen, None})
      BY <2>2 DEF Stamped
    <3> QED BY <2>1, <3>1 DEF Stamped
  <2>3. CASE Len(queue) = MaxQueue /\ queue = <<>>
    <3>1. Len(<<>>) = 0
      OBVIOUS
    <3>2. MaxQueue # 0
      BY NavigationAssumption
    <3> QED BY <2>3, <3>1, <3>2
  <2> QED BY <2>2, <2>3
<1>2. CASE Take
  BY <1>2 DEF Take, Stamped
<1>3. CASE HangUp
  <2>1. screen' = screen /\ queue' = <<>>
    BY <1>3 DEF HangUp
  <2>2. <<>> \in Seq({screen, None})
    OBVIOUS
  <2> QED BY <2>1, <2>2 DEF Stamped
<1> QED BY <1>1, <1>2, <1>3

\* A key that waits with a current stamp acts on the screen it was pressed at,
\* whatever the handlers and the tasks before it did (navigationVersionIsCurrent).
THEOREM KeysKeepTheirMeaning == Spec => []KeyMeansItsScreen
<1>1. Init => Stamped
  BY DEF Init, Stamped
<1>2. ASSUME Stamped, [Next]_vars PROVE Stamped'
  <2>1. CASE UNCHANGED vars
    BY <1>2, <2>1 DEF vars, menus, Stamped
  <2>2. CASE Press \/ Take \/ HangUp
    BY <1>2, <2>2, QueueSteps
  <2>3. CASE Keys \/ Tasks
    <3>1. Passes \/ Stays
      BY <2>3, KeysPass, TasksPass
    <3>2. CASE Stays
      BY <1>2, <3>2 DEF Stays, Stamped
    <3> QED BY <1>2, <3>1, <3>2, PassKeepsStamps DEF Passes
  <2> QED BY <1>2, <2>1, <2>2, <2>3 DEF Next
<1>3. Stamped => KeyMeansItsScreen
  <2>1. ASSUME Stamped, NEW i \in DOMAIN queue PROVE queue[i] \in {screen, None}
    BY <2>1 DEF Stamped
  <2> QED BY <2>1 DEF KeyMeansItsScreen
<1> QED BY <1>1, <1>2, <1>3, PTL DEF Spec

-----------------------------------------------------------------------------
(* The way back. *)

\* Where a flow can stand or return to: field_confirm can lead nowhere.
Places == Screens \cup {Nowhere}

\* The screen s may be shown while the draft is d.
Fit(s, d) == s \notin {"pin", "closed"} /\ (s \in DraftScreens => d)

\* What may not be shown again lies behind the main menu, so that popping reaches
\* the main menu first, and there pound pops nothing.
Walled ==
    \/ screen = "main"
    \/ \A i \in DOMAIN previous :
          Fit(previous[i], draft) \/ \E j \in DOMAIN previous : j > i /\ previous[j] = "main"

Path == /\ screen \in Places /\ previous \in Seq(Places)
        /\ Fit(screen, draft)
        /\ Walled

\* A value waits for its confirmation only on the screen that asks for it, and the
\* screen it goes back to may still be shown.
Asking == confirm.field # None => screen = "field_confirm" /\ Fit(confirm.field, draft)

\* A cancellation is asked for on the review screen only.
Asked == asked.cancel => screen = "review"

\* While the worker speaks a recording's instructions, nothing else moves the call.
Held == worker \in RecordingScreens =>
            screen = worker /\ \A t \in recordings : ~t.current

Shape == /\ draft \in BOOLEAN
         /\ asked \in [cancel : BOOLEAN, remove : BOOLEAN]
         /\ confirm \in [field : EditorScreens \cup {None}, blank : BOOLEAN]
         /\ recordings \subseteq TaskType

IInv == Shape /\ Path /\ Asking /\ Asked /\ Held

\* The screens of the specification, one by one.
LEMMA PlacesAre ==
    /\ DOMAIN Help \subseteq Places /\ {"main", "closed", Nowhere} \subseteq Places
    /\ {"pin", "accounts", "account_menu", "draft_menu", "draft_list", "draft_edit",
        "recipient_edit", "attachment_edit", "account_settings", "account_alert_folders",
        "folders", "folder_action", "list", "read", "attachment_menu",
        "attachment_playback", "move_menu", "more_options", "contact_name",
        "contact_confirm", "field_confirm", "confirm_delete", "compose", "recipient_pick",
        "contact_pick", "recipient_menu", "recipient_input", "subject_method", "subject",
        "body_method", "body", "review", "forward_options", "audio_recording", "recording",
        "recording_subject", "settings", "contacts", "info"} \subseteq Places
BY DEF Places, Screens, Back, MenuBack

\* A move between menus enters a draft's screens from one of them only, and leaves
\* neither a review nor a confirmation.
LEMMA MoveEnds ==
    ASSUME NEW move \in Moves
    PROVE  /\ move[2] \in Places /\ move[1] \notin {"field_confirm", "review"}
           /\ move[2] \notin {"pin", "closed"}
           /\ move[2] \in DraftScreens => move[1] \in DraftScreens
<1>1. CASE move \in HelpMoves
  <2>1. PICK page \in DOMAIN Help : move = <<Help[page], page>>
    BY <1>1 DEF HelpMoves
  <2>2. page \notin DraftScreens \cup {"pin", "closed"}
    BY HelpAssumption DEF MenuBack, DraftScreens, RecordingScreens
  <2>3. Help[page] \notin {"field_confirm", "review"}
    BY HelpAssumption DEF MenuBack
  <2> QED BY <2>1, <2>2, <2>3, PlacesAre
<1>2. CASE move \in MainMoves \cup AccountMoves \cup AlertFolderMoves \cup FolderMoves
                    \cup ListenMoves \cup SettingsMoves
  BY <1>2, PlacesAre DEF MainMoves, AccountMoves, AlertFolderMoves, FolderMoves, ListenMoves,
     SettingsMoves, DraftScreens, RecordingScreens
<1>3. CASE move \in RecipientMoves \cup FieldMoves \cup EditMoves
  BY <1>3, PlacesAre DEF RecipientMoves, FieldMoves, EditMoves, DraftScreens, RecordingScreens
<1>4. CASE move \in ReadMoves \cup AttachmentMoves \cup MoveMenuMoves \cup MovedMoves
                    \cup ContactMoves
  BY <1>4, PlacesAre DEF ReadMoves, AttachmentMoves, MoveMenuMoves, MovedMoves, ContactMoves,
     DraftScreens, RecordingScreens
<1> QED BY <1>1, <1>2, <1>3, <1>4 DEF Moves

\* Entering a screen that may be shown keeps the way back walled, and so does
\* returning to the main menu when a draft is over.
LEMMA EnterPath ==
    ASSUME Path, NEW next \in Places, Enter(next), Fit(next, draft'),
           next = "main" \/ (draft => draft')
    PROVE  Path' /\ screen' = next
<1>1. CASE next = screen
  <2>1. screen' = screen /\ previous' = previous
    BY <1>1 DEF Enter, menus
  <2> QED BY <1>1, <2>1 DEF Path, Walled, Fit
<1>2. CASE next # screen
  <2> DEFINE longer == Append(previous, screen)
             shorter == Newest(longer)
  <2>1. screen' = next /\ previous' = shorter
    BY <1>2 DEF Enter
  <2>2. /\ longer \in Seq(Places) /\ Len(longer) = Len(previous) + 1 /\ Len(previous) \in Nat
        /\ longer[Len(longer)] = screen
        /\ \A i \in 1..Len(previous) : longer[i] = previous[i]
    BY DEF Path
  <2>3. \A i \in 1..Len(longer) : Fit(longer[i], draft) \/ \E j \in i + 1 .. Len(longer) : longer[j] = "main"
    <3> SUFFICES ASSUME NEW i \in 1..Len(longer), ~Fit(longer[i], draft)
                 PROVE  \E j \in i + 1 .. Len(longer) : longer[j] = "main"
      OBVIOUS
    <3>1. i \in 1..Len(previous)
      BY <2>2 DEF Path
    <3>2. CASE screen = "main"
      BY <2>2, <3>1, <3>2
    <3>3. CASE screen # "main"
      <4>1. DOMAIN previous = 1..Len(previous)
        BY DEF Path
      <4>2. PICK j \in 1..Len(previous) : j > i /\ previous[j] = "main"
        BY <2>2, <3>1, <3>3, <4>1 DEF Path, Walled
      <4> QED BY <2>2, <3>1, <4>2
    <3> QED BY <3>2, <3>3
  <2>4. /\ shorter \in Seq(Places)
        /\ \A i \in 1..Len(shorter) : Fit(shorter[i], draft) \/ \E j \in i + 1 .. Len(shorter) : shorter[j] = "main"
    <3> HIDE DEF longer
    <3>1. CASE Len(longer) > HistoryLimit
      <4>1. longer # <<>>
        BY <2>2
      <4>2. shorter = Tail(longer)
        BY <3>1 DEF Newest
      <4>3. /\ Tail(longer) \in Seq(Places) /\ Len(Tail(longer)) = Len(longer) - 1
            /\ \A i \in 1..Len(longer) - 1 : Tail(longer)[i] = longer[i + 1]
        BY <2>2, <4>1
      <4>4. ASSUME NEW i \in 1..Len(longer) - 1
            PROVE  Fit(Tail(longer)[i], draft) \/ \E j \in i + 1 .. Len(longer) - 1 : Tail(longer)[j] = "main"
        <5>1. CASE Fit(longer[i + 1], draft)
          BY <4>3, <4>4, <5>1
        <5>2. CASE ~Fit(longer[i + 1], draft)
          <6>1. PICK j \in i + 2 .. Len(longer) : longer[j] = "main"
            BY <2>2, <2>3, <4>4, <5>2
          <6>2. j - 1 \in i + 1 .. Len(longer) - 1 /\ Tail(longer)[j - 1] = "main"
            BY <2>2, <4>3, <4>4, <6>1
          <6> QED BY <6>2
        <5> QED BY <5>1, <5>2
      <4> HIDE DEF shorter
      <4> QED BY <4>2, <4>3, <4>4
    <3>2. CASE ~(Len(longer) > HistoryLimit)
      <4>1. shorter = longer
        BY <3>2 DEF Newest
      <4> HIDE DEF shorter
      <4> QED BY <2>2, <2>3, <4>1
    <3> QED BY <3>1, <3>2
  <2> HIDE DEF shorter, longer
  <2>5. Walled'
    <3>1. CASE next = "main"
      BY <2>1, <3>1 DEF Walled
    <3>2. CASE draft => draft'
      <4>1. ASSUME NEW i \in DOMAIN previous'
            PROVE  Fit(previous'[i], draft') \/ \E j \in DOMAIN previous' : j > i /\ previous'[j] = "main"
        <5>1. DOMAIN shorter = 1..Len(shorter) /\ Len(shorter) \in Nat
          BY <2>4
        <5>2. CASE Fit(shorter[i], draft)
          BY <2>1, <3>2, <5>2 DEF Fit
        <5>3. CASE \E j \in i + 1 .. Len(shorter) : shorter[j] = "main"
          BY <2>1, <4>1, <5>1, <5>3
        <5> QED BY <2>1, <2>4, <4>1, <5>1, <5>2, <5>3
      <4> QED BY <4>1 DEF Walled
    <3> QED BY <3>1, <3>2
  <2> QED BY <2>1, <2>4, <2>5 DEF Path
<1> QED BY <1>1, <1>2

\* Popping a screen shows one that may be shown: what may not lies behind the main
\* menu, which is popped first.
LEMMA PopPath ==
    ASSUME Path, screen # "main", previous # <<>>, UNCHANGED draft,
           screen' = Last(previous), previous' = Front(previous)
    PROVE  Path'
<1>1. /\ Len(previous) \in Nat \ {0} /\ DOMAIN previous = 1..Len(previous)
      /\ Last(previous) = previous[Len(previous)]
      /\ Front(previous) = SubSeq(previous, 1, Len(previous) - 1)
  BY DEF Path, Last, Front
<1>2. /\ previous' \in Seq(Places) /\ Len(previous') = Len(previous) - 1
      /\ \A i \in 1..Len(previous) - 1 : previous'[i] = previous[i]
  BY <1>1 DEF Path
<1>3. Fit(screen', draft') /\ screen' \in Places
  <2>1. ~ \E j \in DOMAIN previous : j > Len(previous)
    BY <1>1
  <2> QED BY <1>1, <2>1 DEF Path, Walled
<1>4. Walled'
  <2>1. SUFFICES ASSUME screen' # "main", NEW i \in DOMAIN previous', ~Fit(previous'[i], draft')
                 PROVE  \E j \in DOMAIN previous' : j > i /\ previous'[j] = "main"
    BY DEF Walled
  <2>2. DOMAIN previous' = 1..Len(previous) - 1
    BY <1>1, <1>2
  <2>3. PICK j \in 1..Len(previous) : j > i /\ previous[j] = "main"
    <3>1. i \in DOMAIN previous /\ ~Fit(previous[i], draft)
      BY <1>1, <1>2, <2>1, <2>2 DEF Fit
    <3>2. screen # "main"
      OBVIOUS
    <3>3. Walled /\ DOMAIN previous = 1..Len(previous)
      BY <1>1 DEF Path
    <3>4. \E j \in DOMAIN previous : j > i /\ previous[j] = "main"
      BY <3>1, <3>2, <3>3 DEF Walled
    <3> QED BY <3>3, <3>4
  <2>4. j # Len(previous)
    BY <1>1, <2>1, <2>3
  <2>5. j \in 1..Len(previous) - 1
    <3>1. Len(previous) \in Nat
      BY <1>1
    <3> QED BY <2>4, <3>1
  <2>6. previous'[j] = previous[j] /\ j \in DOMAIN previous'
    BY <1>2, <2>2, <2>5
  <2> QED BY <2>3, <2>6
<1> QED BY <1>2, <1>3, <1>4 DEF Path

\* Following the specification's way back leaves the history alone.
LEMMA ContractPath ==
    ASSUME Path, screen # "main", BackByContract, UNCHANGED draft,
           \A s \in Returns(screen) : s \in Places /\ Fit(s, draft)
    PROVE  Path'
<1>1. screen' \in Returns(screen) /\ previous' = previous
  BY DEF BackByContract
<1> QED BY <1>1 DEF Path, Walled

\* The screens pound and star leave through the history, and where the
\* specification takes them: never behind a draft.
Leaves == Pops \cup {"folders", "review", "draft_edit", "attachment_playback",
                     "attachment_menu"} \cup RecordingScreens
LEMMA LeavesBack ==
    ASSUME NEW s \in Leaves, NEW back \in Returns(s)
    PROVE  /\ s # "main" /\ back \in Places /\ back \notin {"pin", "closed"}
           /\ back \in DraftScreens => s \in DraftScreens
<1>1. CASE s = "list"
  BY <1>1, PlacesAre DEF Returns, DraftScreens, RecordingScreens
<1>2. CASE s # "list"
  <2>1. s \in DOMAIN MenuBack
    BY <1>2 DEF Leaves, Pops, RecordingScreens, MenuBack
  <2>2. s \notin DOMAIN Help
    BY <2>1, HelpAssumption
  <2>3. back = MenuBack[s]
    BY <1>2, <2>1, <2>2 DEF Returns, Back
  <2>4. CASE s \in {"review", "draft_edit", "recipient_edit", "attachment_edit"} \cup RecordingScreens
    <3>1. MenuBack[s] \in {"body", "review", "draft_edit", "subject_method", "body_method"}
      BY <2>4 DEF MenuBack, RecordingScreens
    <3> QED BY <2>3, <2>4, <3>1, PlacesAre DEF DraftScreens, RecordingScreens
  <2>5. CASE s \notin {"review", "draft_edit", "recipient_edit", "attachment_edit"} \cup RecordingScreens
    <3>1. MenuBack[s] \in {"main", "accounts", "account_menu", "draft_menu", "account_settings",
                           "folders", "list", "read", "more_options", "settings"}
      BY <1>2, <2>5 DEF MenuBack, Leaves, Pops
    <3>2. s # "main"
      BY <2>1 DEF MenuBack
    <3> QED BY <2>3, <3>1, <3>2, PlacesAre DEF DraftScreens, RecordingScreens
  <2> QED BY <2>4, <2>5
<1> QED BY <1>1, <1>2

\* So both ways of going back from them stay inside.
LEMMA BackPath ==
    ASSUME Path, screen \in Leaves, BackUsingFlow, UNCHANGED draft
    PROVE  Path'
<1>1. \A s \in Returns(screen) : s \in Places /\ Fit(s, draft)
  BY LeavesBack DEF Path, Fit
<1>2. screen # "main"
  BY DEF Leaves, Pops, RecordingScreens
<1>3. CASE previous = <<>>
  BY <1>1, <1>2, <1>3, ContractPath DEF BackUsingFlow
<1>4. CASE previous # <<>>
  BY <1>2, <1>4, PopPath DEF BackUsingFlow
<1> QED BY <1>3, <1>4

-----------------------------------------------------------------------------
(* The recording tasks keep their type, and a superseded one is not current. *)

\* None of the three ways to change all the tasks changes a type.
LEMMA TasksKeepType ==
    ASSUME NEW tasks \in SUBSET TaskType
    PROVE  /\ Outdated(tasks) \subseteq TaskType /\ \A t \in Outdated(tasks) : ~t.current
           /\ Orphaned(tasks) \subseteq TaskType
           /\ Canceled(tasks) \subseteq TaskType
<1>1. ASSUME NEW t \in tasks
      PROVE  /\ [t EXCEPT !.current = FALSE] \in TaskType
             /\ ~[t EXCEPT !.current = FALSE].current
             /\ [t EXCEPT !.mine = FALSE] \in TaskType
             /\ [t EXCEPT !.canceled = TRUE, !.capturing = FALSE] \in TaskType
  BY <1>1 DEF TaskType
<1> QED BY <1>1 DEF Outdated, Orphaned, Canceled

-----------------------------------------------------------------------------
(* The keys. *)

\* What every key's handler leaves: the call's worker is idle again.
LEMMA DoneHolds == ASSUME Done PROVE Held'
BY DEF Done, Held, RecordingScreens

\* On a screen that asks for nothing, a step that asks nothing keeps it so.
LEMMA NothingAsked ==
    ASSUME Asking, Asked, screen \notin {"field_confirm", "review"},
           UNCHANGED confirm, asked'.cancel = asked.cancel
    PROVE  Asking' /\ Asked'
BY DEF Asking, Asked

\* A step that changes neither the screen nor the form keeps everything.
LEMMA StandsStill ==
    ASSUME Path, Asking, Asked, UNCHANGED <<menus, form>>
    PROVE  Path' /\ Asking' /\ Asked'
BY DEF Path, Walled, Fit, Asking, Asked, menus, form

\* The keys that move between menus.
LEMMA MenuKeys ==
    ASSUME IInv, NoEffect \/ Choose \/ OpenFolders \/ PoundForm \/ StartPlayback \/ StopPlayback
    PROVE  IInv'
<1>1. CASE NoEffect
  <2>1. UNCHANGED <<menus, form, voice>> /\ Done
    BY <1>1 DEF NoEffect
  <2> QED BY <2>1, StandsStill, DoneHolds DEF IInv, Shape, form, voice
<1>2. CASE Choose
  <2>1. Done /\ UNCHANGED <<form, voice>>
    BY <1>2 DEF Choose
  <2>2. PICK move \in Moves : move[1] = screen /\ Enter(move[2])
    BY <1>2 DEF Choose
  <2>3. Path'
    BY <2>1, <2>2, MoveEnds, EnterPath DEF IInv, Path, Fit, form
  <2>4. Asking' /\ Asked'
    BY <2>1, <2>2, MoveEnds, NothingAsked DEF IInv, form
  <2> QED BY <2>1, <2>3, <2>4, DoneHolds DEF IInv, Shape, form, voice
<1>3. CASE OpenFolders
  <2>1. /\ Done /\ UNCHANGED <<draft, asked, confirm, voice>>
        /\ Enter("folders") /\ screen \notin {"field_confirm", "review"}
    BY <1>3 DEF OpenFolders, On
  <2>2. Fit("folders", draft') /\ "folders" \in Places
    BY PlacesAre DEF Fit, DraftScreens, RecordingScreens
  <2>3. Path'
    BY <2>1, <2>2, EnterPath DEF IInv
  <2> QED BY <2>1, <2>3, NothingAsked, DoneHolds DEF IInv, Shape, voice
<1>4. CASE PoundForm
  <2>1. /\ Done /\ UNCHANGED <<form, voice>>
        /\ screen \in {"subject_method", "body_method", "recipient_menu"}
    BY <1>4 DEF PoundForm, On
  <2>2. PICK next \in {"draft_edit", "recipient_menu", "subject", "compose"} : Enter(next)
    BY <1>4, <2>1 DEF PoundForm
  <2>3. Fit(next, draft') /\ next \in Places
    BY <2>1, PlacesAre DEF IInv, Path, Fit, DraftScreens, RecordingScreens, form
  <2>4. Path'
    BY <2>1, <2>2, <2>3, EnterPath DEF IInv, form
  <2> QED BY <2>1, <2>4, NothingAsked, DoneHolds DEF IInv, Shape, form, voice
<1>5. CASE StartPlayback
  <2>1. /\ Done /\ UNCHANGED <<form, voice>>
        /\ Enter("attachment_playback") /\ screen \notin {"field_confirm", "review"}
    BY <1>5 DEF StartPlayback, On
  <2>2. Fit("attachment_playback", draft') /\ "attachment_playback" \in Places
    BY PlacesAre DEF Fit, DraftScreens, RecordingScreens
  <2>3. Path'
    BY <2>1, <2>2, EnterPath DEF IInv, form
  <2> QED BY <2>1, <2>3, NothingAsked, DoneHolds DEF IInv, Shape, form, voice
<1>6. CASE StopPlayback
  <2>1. /\ Done /\ UNCHANGED <<form, voice>>
        /\ screen \in {"attachment_playback", "attachment_menu"}
        /\ Enter("read") \/ BackUsingFlow
    BY <1>6 DEF StopPlayback, On
  <2>2. Fit("read", draft') /\ "read" \in Places
    BY PlacesAre DEF Fit, DraftScreens, RecordingScreens
  <2>3. screen \in Leaves
    BY <2>1 DEF Leaves
  <2>4. Path'
    BY <2>1, <2>2, <2>3, EnterPath, BackPath DEF IInv, form
  <2> QED BY <2>1, <2>4, NothingAsked, DoneHolds DEF IInv, Shape, form, voice
<1> QED BY <1>1, <1>2, <1>3, <1>4, <1>5, <1>6

\* The keys that write a message.
LEMMA DraftKeys ==
    ASSUME IInv, StartCompose \/ ResumeDraft \/ EditField \/ EditAttachments \/ RemoveAttachment
    PROVE  IInv'
<1>1. CASE StartCompose \/ ResumeDraft
  <2>1. Done /\ UNCHANGED <<asked, confirm, recordCancel>> /\ draft' = TRUE
        /\ recordings' = Orphaned(recordings)
    BY <1>1 DEF StartCompose, ResumeDraft, NewDraft
  <2>2. screen \notin {"field_confirm", "review"}
    BY <1>1 DEF StartCompose, ComposeMoves, ResumeDraft, On
  <2>3. PICK next \in {"recipient_pick", "compose", "subject_method", "body_method", "review"} : Enter(next)
    BY <1>1 DEF StartCompose, ComposeMoves, ResumeDraft
  <2>4. next \in Places /\ Fit(next, draft')
    BY <2>1, PlacesAre DEF Fit
  <2>5. Path'
    BY <2>1, <2>3, <2>4, EnterPath DEF IInv
  <2>6. recordings' \subseteq TaskType
    <3>1. \A t \in TaskType : [t EXCEPT !.mine = FALSE] \in TaskType
      BY DEF TaskType
    <3> QED BY <2>1, <3>1 DEF IInv, Shape, Orphaned
  <2> QED BY <2>1, <2>2, <2>5, <2>6, NothingAsked, DoneHolds DEF IInv, Shape
<1>2. CASE EditField
  <2>1. Done /\ UNCHANGED <<draft, asked, confirm, voice>>
    BY <1>2 DEF EditField
  <2>2. screen \in {"draft_edit", "recipient_edit"}
    BY <1>2 DEF EditField, EditingMoves
  <2>3. PICK next \in {"subject_method", "body_method", "compose", "recipient_menu"} : Enter(next)
    BY <1>2 DEF EditField, EditingMoves
  <2>4. next \in Places /\ Fit(next, draft')
    BY <2>1, <2>2, PlacesAre DEF IInv, Path, Fit, DraftScreens
  <2>5. Path'
    BY <2>1, <2>3, <2>4, EnterPath DEF IInv
  <2> QED BY <2>1, <2>2, <2>5, NothingAsked, DoneHolds DEF IInv, Shape, voice
<1>3. CASE EditAttachments \/ RemoveAttachment
  <2>1. /\ Done /\ UNCHANGED <<draft, confirm, voice>>
        /\ screen \in {"draft_edit", "attachment_edit"}
        /\ Enter("attachment_edit") \/ UNCHANGED <<screen, previous>>
    BY <1>3 DEF EditAttachments, RemoveAttachment, On
  <2>2. asked' \in [cancel : BOOLEAN, remove : BOOLEAN] /\ asked'.cancel = asked.cancel
    <3>1. PICK b \in BOOLEAN : asked' = [asked EXCEPT !.remove = b]
      BY <1>3 DEF EditAttachments, RemoveAttachment
    <3> QED BY <3>1 DEF IInv, Shape
  <2>3. "attachment_edit" \in Places /\ Fit("attachment_edit", draft')
    BY <2>1, PlacesAre DEF IInv, Path, Fit, DraftScreens
  <2>4. Path'
    <3>1. CASE Enter("attachment_edit")
      BY <2>1, <2>3, <3>1, EnterPath DEF IInv
    <3>2. CASE UNCHANGED <<screen, previous>>
      BY <2>1, <3>2 DEF IInv, Path, Walled, Fit
    <3> QED BY <2>1, <3>1, <3>2
  <2> QED BY <2>1, <2>2, <2>4, NothingAsked, DoneHolds DEF IInv, Shape, voice
<1> QED BY <1>1, <1>2, <1>3

\* The keys of an entry and of its confirmation.
LEMMA FieldKeys ==
    ASSUME IInv, FinishField \/ ReenterField \/ AcceptField \/ PoundConfirm
    PROVE  IInv'
<1>1. Done /\ UNCHANGED <<draft, asked, voice>>
  BY DEF FinishField, ReenterField, AcceptField, PoundConfirm
<1>2. screen \in EditorScreens \cup {"field_confirm"} /\ ~asked.cancel
  BY DEF FinishField, ReenterField, AcceptField, PoundConfirm, On, IInv, Asked, EditorScreens
<1>3. CASE FinishField
  <2>1. /\ Enter("field_confirm") /\ screen \in EditorScreens
        /\ confirm' \in [field : {screen}, blank : BOOLEAN]
    BY <1>3 DEF FinishField, On
  <2>2. "field_confirm" \in Places /\ Fit("field_confirm", draft')
    BY PlacesAre DEF Fit, DraftScreens, RecordingScreens
  <2>3. Path' /\ screen' = "field_confirm"
    BY <1>1, <2>1, <2>2, EnterPath DEF IInv
  <2>4. Asking' /\ Asked'
    BY <1>1, <1>2, <2>1, <2>3 DEF IInv, Path, Asking, Asked, Fit
  <2>5. confirm' \in [field : EditorScreens \cup {None}, blank : BOOLEAN]
    BY <2>1
  <2> QED BY <1>1, <2>3, <2>4, <2>5, DoneHolds DEF IInv, Shape, voice
<1>4. CASE ReenterField \/ AcceptField \/ PoundConfirm
  <2>1. confirm' = Unconfirmed
    BY <1>4 DEF ReenterField, AcceptField, PoundConfirm
  <2>2. PICK next \in Places : Enter(next) /\ Fit(next, draft')
    <3>1. CASE ReenterField
      <4>1. confirm.field # None /\ confirm.field \in EditorScreens /\ Enter(confirm.field)
        BY <3>1 DEF ReenterField, IInv, Shape
      <4> QED BY <1>1, <4>1, PlacesAre DEF IInv, Asking, EditorScreens
    <3>2. CASE AcceptField
      <4>1. confirm.field # None /\ Enter(Accepted(confirm.field)) /\ Fit(confirm.field, draft')
        BY <1>1, <3>2 DEF AcceptField, IInv, Asking
      <4>2. confirm.field \in EditorScreens
        BY <4>1 DEF IInv, Shape
      <4>3. CASE confirm.field = "contact_name"
        <5>1. Accepted(confirm.field) = "contact_confirm"
          BY <4>3 DEF Accepted
        <5> QED BY <4>1, <5>1, PlacesAre DEF Fit, DraftScreens, RecordingScreens
      <4>4. CASE confirm.field # "contact_name"
        <5>1. Accepted(confirm.field) \in {"recipient_menu", "review", "body_method"}
          BY <4>2, <4>4 DEF Accepted, EditorScreens
        <5>2. confirm.field \in DraftScreens
          BY <4>2, <4>4 DEF EditorScreens, DraftScreens
        <5> QED BY <4>1, <5>1, <5>2, PlacesAre DEF Fit
      <4> QED BY <4>3, <4>4
    <3>3. CASE PoundConfirm
      <4>1. CASE confirm.field = None
        <5>1. Enter(Nowhere)
          BY <3>3, <4>1 DEF PoundConfirm
        <5> QED BY <5>1, PlacesAre DEF Fit, DraftScreens, RecordingScreens, Nowhere
      <4>2. CASE confirm.field # None
        <5>1. confirm.field \in EditorScreens /\ Enter(confirm.field)
          BY <3>3, <4>2 DEF PoundConfirm, IInv, Shape
        <5> QED BY <1>1, <4>2, <5>1, PlacesAre DEF IInv, Asking, EditorScreens
      <4> QED BY <4>1, <4>2
    <3> QED BY <1>4, <3>1, <3>2, <3>3
  <2>3. Path'
    BY <1>1, <2>2, EnterPath DEF IInv
  <2>4. Asking' /\ Asked'
    BY <1>1, <1>2, <2>1 DEF Asking, Asked, Unconfirmed
  <2> QED BY <1>1, <2>1, <2>3, <2>4, DoneHolds DEF IInv, Shape, voice, Unconfirmed
<1> QED BY <1>3, <1>4

\* The keys of the review: 3 asks before it discards, and every way out of the
\* review but recording's withdraws the question or answered it.
LEMMA ReviewKeys ==
    ASSUME IInv, ReviewEdit \/ (\E ok \in BOOLEAN : SendOrSave(ok)) \/ CancelDraft
    PROVE  IInv'
<1>1. Done /\ UNCHANGED <<confirm, voice>> /\ screen = "review"
  BY DEF ReviewEdit, SendOrSave, CancelDraft, On
<1>2. draft /\ confirm.field = None
  BY <1>1 DEF IInv, Path, Fit, DraftScreens, Asking, Shape
<1>3. CASE ReviewEdit
  <2>1. draft' = draft /\ asked' = [asked EXCEPT !.cancel = FALSE] /\ Enter("draft_edit")
    BY <1>3 DEF ReviewEdit
  <2>2. "draft_edit" \in Places /\ Fit("draft_edit", draft')
    BY <1>2, <2>1, PlacesAre DEF Fit
  <2>3. Path'
    BY <2>1, <2>2, EnterPath DEF IInv
  <2>4. asked' \in [cancel : {FALSE}, remove : BOOLEAN]
    BY <2>1 DEF IInv, Shape
  <2>5. Asking' /\ Asked'
    BY <1>1, <1>2, <2>4 DEF Asking, Asked
  <2> QED BY <1>1, <2>1, <2>3, <2>4, <2>5, DoneHolds DEF IInv, Shape, voice
<1>4. CASE (\E ok \in BOOLEAN : SendOrSave(ok)) \/ CancelDraft
  <2>1. PICK over \in BOOLEAN :
           /\ IF over THEN Enter("main") ELSE UNCHANGED menus
           /\ draft' = (draft /\ ~over)
           /\ asked' \in [cancel : {FALSE, ~over}, remove : BOOLEAN]
    <3>1. ASSUME NEW ok \in BOOLEAN, SendOrSave(ok)
          PROVE  /\ IF ok THEN Enter("main") ELSE UNCHANGED menus
                 /\ draft' = (draft /\ ~ok)
                 /\ asked' \in [cancel : {FALSE, ~ok}, remove : BOOLEAN]
      BY <3>1 DEF SendOrSave, IInv, Shape
    <3>2. ASSUME CancelDraft
          PROVE  /\ IF asked.cancel THEN Enter("main") ELSE UNCHANGED menus
                 /\ draft' = (draft /\ ~asked.cancel)
                 /\ asked' \in [cancel : {FALSE, ~asked.cancel}, remove : BOOLEAN]
      BY <3>2 DEF CancelDraft, IInv, Shape
    <3>3. asked.cancel \in BOOLEAN
      BY DEF IInv, Shape
    <3> QED BY <1>4, <3>1, <3>2, <3>3
  <2>2. CASE over
    <3>1. Enter("main") /\ "main" \in Places /\ Fit("main", draft')
      BY <2>1, <2>2, PlacesAre DEF Fit, DraftScreens, RecordingScreens
    <3>2. Path'
      BY <3>1, EnterPath DEF IInv
    <3>3. Asking' /\ Asked'
      BY <1>1, <1>2, <2>1, <2>2 DEF Asking, Asked
    <3>4. Shape'
      BY <1>1, <2>1, <2>2 DEF IInv, Shape, voice
    <3> QED BY <1>1, <3>2, <3>3, <3>4, DoneHolds DEF IInv
  <2>3. CASE ~over
    <3>1. UNCHANGED menus /\ draft' = draft
      BY <2>1, <2>3 DEF IInv, Shape
    <3>2. Path' /\ screen' = "review"
      BY <1>1, <3>1 DEF IInv, Path, Walled, Fit, menus
    <3>3. Asking' /\ Asked'
      BY <1>1, <1>2, <3>2 DEF Asking, Asked
    <3>4. Shape'
      BY <1>1, <2>1, <2>3, <3>1 DEF IInv, Shape, voice
    <3> QED BY <1>1, <3>2, <3>3, <3>4, DoneHolds DEF IInv
  <2> QED BY <2>2, <2>3
<1> QED BY <1>3, <1>4

\* Pound.
LEMMA PoundKeys ==
    ASSUME IInv, PoundBack \/ PoundStays \/ PoundHelp \/ PoundDraftEdit
    PROVE  IInv'
<1>1. CASE PoundBack
  <2>1. Done /\ UNCHANGED <<form, voice>> /\ BackUsingFlow
    BY <1>1 DEF PoundBack
  <2>2. screen \in Leaves /\ screen # "field_confirm" /\ ~asked.cancel
    BY <1>1 DEF PoundBack, Leaves, Pops, IInv, Asked
  <2>3. Path'
    BY <2>1, <2>2, BackPath DEF IInv, form
  <2> QED BY <2>1, <2>2, <2>3, DoneHolds DEF IInv, Shape, Asking, Asked, form, voice
<1>2. CASE PoundStays
  <2>1. Done /\ UNCHANGED <<menus, draft, confirm, voice>>
    BY <1>2 DEF PoundStays
  <2>2. asked' \in [cancel : {asked.cancel, FALSE}, remove : BOOLEAN]
    BY <1>2 DEF PoundStays, IInv, Shape
  <2>3. Path' /\ Asking' /\ Asked'
    BY <2>1, <2>2 DEF IInv, Path, Walled, Fit, Asking, Asked, menus
  <2>4. Shape'
    BY <2>1, <2>2 DEF IInv, Shape, voice
  <2> QED BY <2>1, <2>3, <2>4, DoneHolds DEF IInv
<1>3. CASE PoundHelp
  <2>1. /\ Done /\ UNCHANGED <<form, voice>> /\ BackByContract
        /\ screen \in DOMAIN Help \cup {"info"}
    BY <1>3 DEF PoundHelp, On
  <2>2. Returns(screen) \subseteq DOMAIN Help \cup {"info", "main"}
    BY <2>1, HelpAssumption DEF Returns, Back, MenuBack
  <2>3. \A s \in Returns(screen) : s \in Places /\ Fit(s, draft)
    BY <2>2, HelpAssumption, PlacesAre DEF Fit, DraftScreens, RecordingScreens, MenuBack
  <2>4. screen \notin {"main", "field_confirm", "review"}
    BY <2>1, HelpAssumption DEF MenuBack
  <2>5. Path'
    BY <2>1, <2>3, <2>4, ContractPath DEF IInv, form
  <2> QED BY <2>1, <2>4, <2>5, NothingAsked, DoneHolds DEF IInv, Shape, form, voice
<1>4. CASE PoundDraftEdit
  <2>1. /\ Done /\ UNCHANGED <<draft, asked, confirm, voice>> /\ BackUsingFlow
        /\ screen = "draft_edit"
    BY <1>4 DEF PoundDraftEdit, On
  <2>2. Path'
    BY <2>1, BackPath DEF IInv, Leaves
  <2> QED BY <2>1, <2>2, NothingAsked, DoneHolds DEF IInv, Shape, voice
<1> QED BY <1>1, <1>2, <1>3, <1>4

\* The keys of a recording: leaving it, finishing it, starting one.
LEMMA RecordingKeys ==
    ASSUME IInv, AbandonRecording \/ FinishRecording \/ StartRecording
    PROVE  IInv'
<1>1. CASE AbandonRecording
  <2>1. /\ Done /\ UNCHANGED form /\ BackUsingFlow /\ screen \in RecordingScreens
        /\ recordings' = Outdated(Canceled(recordings))
    BY <1>1 DEF AbandonRecording, On, DropRecording
  <2>2. Path'
    BY <2>1, BackPath DEF IInv, Leaves, form
  <2>3. recordings' \subseteq TaskType
    BY <2>1, TasksKeepType DEF IInv, Shape
  <2>4. screen \notin {"field_confirm", "review"}
    BY <2>1 DEF RecordingScreens
  <2> QED BY <2>1, <2>2, <2>3, <2>4, NothingAsked, DoneHolds DEF IInv, Shape, form
<1>2. CASE FinishRecording
  <2>1. /\ Done /\ UNCHANGED <<menus, form>>
        /\ recordings' = {IF t.current /\ recordStop = "current"
                          THEN [t EXCEPT !.capturing = FALSE] ELSE t : t \in recordings}
    BY <1>2 DEF FinishRecording
  <2>2. recordings' \subseteq TaskType
    <3>1. \A t \in TaskType : [t EXCEPT !.capturing = FALSE] \in TaskType
      BY DEF TaskType
    <3> QED BY <2>1, <3>1 DEF IInv, Shape
  <2> QED BY <2>1, <2>2, StandsStill, DoneHolds DEF IInv, Shape, form
<1>3. CASE StartRecording
  <2>1. /\ screen \in {"subject_method", "body_method", "review", "attachment_edit"}
        /\ Enter(RecordingFor(screen)) /\ worker' = RecordingFor(screen)
        /\ recordings' = Outdated(recordings)
        /\ UNCHANGED <<draft, confirm>>
    BY <1>3 DEF StartRecording, On
  <2>2. asked' \in [cancel : BOOLEAN, remove : BOOLEAN] /\ ~asked'.cancel
    BY <1>3 DEF StartRecording, IInv, Shape, Asked
  <2>3. RecordingFor(screen) \in RecordingScreens
    BY DEF RecordingFor, RecordingScreens
  <2>4. RecordingFor(screen) \in Places /\ Fit(RecordingFor(screen), draft')
    BY <2>1, <2>3, PlacesAre DEF RecordingScreens, IInv, Path, Fit, DraftScreens
  <2>5. Path' /\ screen' = RecordingFor(screen)
    BY <2>1, <2>4, EnterPath DEF IInv
  <2>6. recordings' \subseteq TaskType /\ \A t \in recordings' : ~t.current
    BY <2>1, TasksKeepType DEF IInv, Shape
  <2>7. Asking' /\ Asked' /\ Held'
    BY <2>1, <2>2, <2>5, <2>6 DEF IInv, Asking, Asked, Held
  <2> QED BY <2>1, <2>2, <2>5, <2>6, <2>7 DEF IInv, Shape
<1> QED BY <1>1, <1>2, <1>3

-----------------------------------------------------------------------------
(* The tasks beside the menus. *)

\* A recording's task starts, or cannot, or ends.
LEMMA RecordingTasks ==
    ASSUME IInv, closed \in BOOLEAN,
           \/ BeginCapture \/ CaptureFails
           \/ \E t \in recordings : WindowEnds(t) \/ RecordingEnds(t)
    PROVE  IInv'
<1>1. CASE BeginCapture
  <2>1. /\ UNCHANGED <<menus, form>> /\ worker \in RecordingScreens /\ worker' = "idle"
        /\ recordings' = recordings \cup
              {[kind |-> worker, current |-> TRUE, canceled |-> closed, capturing |-> ~closed,
                mine |-> TRUE]}
    BY <1>1 DEF BeginCapture
  <2>2. recordings' \subseteq TaskType
    <3>1. PICK c \in BOOLEAN, d \in BOOLEAN : closed = c /\ (~closed) = d
      OBVIOUS
    <3>2. [kind |-> worker, current |-> TRUE, canceled |-> c, capturing |-> d, mine |-> TRUE] \in TaskType
      BY <2>1 DEF TaskType
    <3> QED BY <2>1, <3>1, <3>2 DEF IInv, Shape
  <2>3. Held'
    BY <2>1 DEF Held, RecordingScreens
  <2> QED BY <2>1, <2>2, <2>3, StandsStill DEF IInv, Shape, form
<1>2. CASE CaptureFails
  <2>1. /\ UNCHANGED <<form, recordings>> /\ Enter(Fallback(worker))
        /\ worker \in RecordingScreens /\ worker' = "idle"
    BY <1>2 DEF CaptureFails
  <2>2. screen = worker /\ draft
    BY <2>1 DEF IInv, Held, Path, Fit, DraftScreens
  <2>3. Fallback(worker) \in {"subject_method", "body_method", "review"}
    BY DEF Fallback
  <2>4. Fallback(worker) \in Places /\ Fit(Fallback(worker), draft')
    BY <2>1, <2>2, <2>3, PlacesAre DEF Fit, form
  <2>5. Path'
    BY <2>1, <2>4, EnterPath DEF IInv, form
  <2>6. Asking' /\ Asked' /\ Held'
    BY <2>1, <2>2, NothingAsked DEF IInv, Held, RecordingScreens, form
  <2> QED BY <2>1, <2>5, <2>6 DEF IInv, Shape, form
<1>3. ASSUME NEW t \in recordings, WindowEnds(t) PROVE IInv'
  <2>1. /\ UNCHANGED <<menus, form, worker>>
        /\ recordings' = (recordings \ {t}) \cup {[t EXCEPT !.capturing = FALSE]}
    BY <1>3 DEF WindowEnds
  <2>2. t \in TaskType
    BY DEF IInv, Shape
  <2>3. [t EXCEPT !.capturing = FALSE] \in TaskType /\ [t EXCEPT !.capturing = FALSE].current = t.current
    BY <2>2 DEF TaskType
  <2>4. recordings' \subseteq TaskType
    BY <2>1, <2>3 DEF IInv, Shape
  <2>5. Held'
    BY <2>1, <2>3 DEF IInv, Held, menus
  <2> QED BY <2>1, <2>4, <2>5, StandsStill DEF IInv, Shape, form
<1>4. ASSUME NEW t \in recordings, RecordingEnds(t) PROVE IInv'
  <2>1. /\ UNCHANGED <<worker, draft, asked, confirm>> /\ recordings' = recordings \ {t}
    BY <1>4 DEF RecordingEnds
  <2>2. CASE UNCHANGED menus
    BY <2>1, <2>2 DEF IInv, Shape, Path, Walled, Fit, Asking, Asked, Held, menus
  <2>3. CASE Active(t)
    <3>1. screen \in RecordingScreens /\ draft /\ worker \notin RecordingScreens
      BY <2>3 DEF Active, IInv, Shape, TaskType, Path, Fit, DraftScreens, Held
    <3>2. PICK next \in {"subject_method", "body_method", "review"} : Enter(next)
      BY <1>4, <2>3 DEF RecordingEnds, Fallback
    <3>3. next \in Places /\ Fit(next, draft')
      BY <2>1, <3>1, PlacesAre DEF Fit
    <3>4. Path'
      BY <2>1, <3>2, <3>3, EnterPath DEF IInv
    <3>5. screen \notin {"field_confirm", "review"}
      BY <3>1 DEF RecordingScreens
    <3>6. Held'
      BY <2>1, <3>1 DEF Held
    <3> QED BY <2>1, <3>4, <3>5, <3>6, NothingAsked DEF IInv, Shape
  <2> QED BY <1>4, <2>2, <2>3 DEF RecordingEnds
<1> QED BY <1>1, <1>2, <1>3, <1>4

\* A playback's task starts, fails or ends.
LEMMA PlaybackTasks ==
    ASSUME IInv, NEW p \in players, PlaybackStarts(p) \/ PlaybackFails(p) \/ PlaybackEnds(p)
    PROVE  IInv'
<1>1. UNCHANGED <<worker, form, voice>>
  BY DEF PlaybackStarts, PlaybackFails, PlaybackEnds
<1>2. CASE UNCHANGED menus
  BY <1>1, <1>2, StandsStill DEF IInv, Shape, Held, form, voice, menus
<1>3. CASE screen = "attachment_playback" /\ Enter("read")
  <2>1. "read" \in Places /\ Fit("read", draft')
    BY PlacesAre DEF Fit, DraftScreens, RecordingScreens
  <2>2. Path'
    BY <1>1, <1>3, <2>1, EnterPath DEF IInv, form
  <2>3. Held'
    BY <1>1, <1>3 DEF IInv, Held, RecordingScreens
  <2> QED BY <1>1, <1>3, <2>2, <2>3, NothingAsked DEF IInv, Shape, form, voice
<1> QED BY <1>2, <1>3 DEF PlaybackStarts, PlaybackFails, PlaybackEnds

\* A call is open or closed, and no step but the hang-up changes it.
LEMMA OpenOrClosed == ASSUME closed \in BOOLEAN, [Next]_vars PROVE closed' \in BOOLEAN
<1>1. CASE Keys
  <2>1. UNCHANGED closed
    BY <1>1 DEF Keys, Done, NoEffect, Choose, OpenFolders, StartCompose, ResumeDraft, EditField,
       EditAttachments, RemoveAttachment, FinishField, ReenterField, AcceptField, ReviewEdit,
       SendOrSave, CancelDraft, PoundBack, PoundStays, PoundHelp, PoundDraftEdit, PoundForm,
       PoundConfirm, AbandonRecording, FinishRecording, StartRecording, StartPlayback, StopPlayback
  <2> QED BY <2>1
<1>2. CASE Tasks
  <2>1. UNCHANGED closed
    BY <1>2 DEF Tasks, BeginCapture, CaptureFails, WindowEnds, RecordingEnds, PlaybackStarts,
       PlaybackFails, PlaybackEnds
  <2> QED BY <2>1
<1> QED BY <1>1, <1>2 DEF Next, Press, Take, HangUp, vars

\* The bridge's reader, the worker taking a key and the hang-up leave the menus.
LEMMA QueueInside == ASSUME IInv, Press \/ Take \/ HangUp \/ UNCHANGED vars PROVE IInv'
<1>1. UNCHANGED <<screen, previous, form>>
  BY DEF Press, Take, HangUp, vars, menus
<1>2. Path' /\ Asking' /\ Asked'
  BY <1>1 DEF IInv, Path, Walled, Fit, Asking, Asked, form
<1>3. CASE Press \/ UNCHANGED vars
  BY <1>1, <1>2, <1>3 DEF IInv, Shape, Held, Press, vars, voice, form
<1>4. CASE Take
  <2>1. worker' \in {"idle", "key"} /\ UNCHANGED recordings
    BY <1>4 DEF Take, voice
  <2> QED BY <1>1, <1>2, <2>1 DEF IInv, Shape, Held, RecordingScreens, form
<1>5. CASE HangUp
  <2>1. recordings' = {[t EXCEPT !.canceled = TRUE, !.capturing = FALSE] : t \in recordings}
        /\ UNCHANGED worker
    BY <1>5 DEF HangUp
  <2>2. ASSUME NEW t \in TaskType
        PROVE  [t EXCEPT !.canceled = TRUE, !.capturing = FALSE] \in {u \in TaskType : u.current = t.current}
    BY DEF TaskType
  <2>3. recordings' \subseteq TaskType /\ ((\A t \in recordings : ~t.current) => \A t \in recordings' : ~t.current)
    <3>1. recordings \subseteq TaskType
      BY DEF IInv, Shape
    <3> QED BY <2>1, <2>2, <3>1
  <2>4. Held'
    BY <1>1, <2>1, <2>3 DEF IInv, Held
  <2> QED BY <1>1, <1>2, <2>3, <2>4 DEF IInv, Shape, form
<1> QED BY <1>3, <1>4, <1>5

\* The invariant of the menus is inductive.
LEMMA MenusInit == Init => IInv /\ closed \in BOOLEAN
<1> SUFFICES ASSUME Init PROVE IInv /\ closed \in BOOLEAN
  OBVIOUS
<1>1. /\ screen = "main" /\ previous = <<"pin">> /\ worker = "idle" /\ recordings = {}
      /\ closed = FALSE /\ draft = FALSE /\ asked = [cancel |-> FALSE, remove |-> FALSE]
      /\ confirm = [field |-> None, blank |-> TRUE]
  BY DEF Init
<1>2. Path
  BY <1>1, PlacesAre DEF Path, Walled, Fit, DraftScreens, RecordingScreens
<1> QED BY <1>1, <1>2 DEF IInv, Shape, Asking, Asked, Held, RecordingScreens

\* Every step keeps it.
LEMMA MenusStep == ASSUME IInv, closed \in BOOLEAN, [Next]_vars PROVE IInv' /\ closed' \in BOOLEAN
<1>1. closed' \in BOOLEAN
  BY OpenOrClosed
<1>2. CASE Press \/ Take \/ HangUp \/ UNCHANGED vars
  BY <1>1, <1>2, QueueInside
<1>3. CASE Keys
  <2>1. IInv'
    BY <1>3, MenuKeys, DraftKeys, FieldKeys, ReviewKeys, PoundKeys, RecordingKeys DEF Keys
  <2> QED BY <1>1, <2>1
<1>4. CASE Tasks
  <2>1. IInv'
    BY <1>4, RecordingTasks, PlaybackTasks DEF Tasks
  <2> QED BY <1>1, <2>1
<1> QED BY <1>2, <1>3, <1>4 DEF Next

\* Backing out never leads behind the main menu, whatever the help tree and however
\* short the history (transitionLocked pushes, handleMenu pops every screen but
\* main), and one press of 3 never discards a message that was not asked about.
THEOREM NoWayBehindMain == Spec => []BackStaysInside
<1>1. IInv /\ closed \in BOOLEAN /\ [Next]_vars => (IInv /\ closed \in BOOLEAN)'
  BY MenusStep
<1>2. IInv => BackStaysInside
  BY DEF IInv, Path, Fit, Asked, BackStaysInside
<1> QED BY MenusInit, <1>1, <1>2, PTL DEF Spec

-----------------------------------------------------------------------------
(* Recordings and playbacks. *)

\* Until the call ends, a recording that was not given up is the one the screen
\* speaks of, belongs to the draft at hand, and the keys that stop it reach it; a
\* task that was superseded was also told to stop.
Owned ==
    /\ \A t \in recordings : ~t.canceled => t.current /\ ~closed
    /\ \A t \in recordings : t.current /\ ~closed =>
          /\ screen = t.kind /\ ~t.canceled /\ t.mine /\ recordCancel
          /\ t.capturing => recordStop = "current"
    /\ \A t, u \in recordings : t.current /\ u.current => t = u

\* At most one playback is the newest, and while it plays its screen is shown.
PlayerType == [playing : BOOLEAN, newest : BOOLEAN, canceled : BOOLEAN]
Played ==
    /\ players \subseteq PlayerType
    /\ \A p \in players : p.newest /\ ~p.canceled => screen = "attachment_playback" /\ playCancel
    /\ \A p \in players : p.newest => p.playing
    /\ \A p, q \in players : p.newest /\ q.newest => p = q

\* The keys that stop a recording are registered before its task starts.
Ready == worker \in RecordingScreens /\ ~closed => recordCancel /\ recordStop = "current"

TInv == IInv /\ closed \in BOOLEAN /\ Owned /\ Played /\ Ready /\ ~misheard

\* Screens the two kinds of task speak on are left by their own keys only.
TaskScreens == RecordingScreens \cup {"attachment_playback"}

\* Away from the recording screens every recording was given up.
LEMMA GivenUp ==
    ASSUME TInv, ~closed, screen \notin RecordingScreens
    PROVE  \A t \in recordings : ~t.current /\ t.canceled
BY DEF TInv, IInv, Shape, TaskType, Owned

\* Away from the playback's screen every playback that is the newest was stopped.
LEMMA Quiet ==
    ASSUME TInv, screen # "attachment_playback", UNCHANGED players
    PROVE  Played'
BY DEF TInv, Played

\* A key pressed elsewhere leaves the tasks as they are, but for the draft they
\* were started for.
LEMMA KeysElsewhere ==
    ASSUME TInv, Done, ~closed, UNCHANGED sound, screen \notin TaskScreens,
           recordings' = recordings \/ recordings' = Orphaned(recordings)
    PROVE  Owned' /\ Played' /\ ~misheard'
<1>1. \A t \in recordings : ~t.current /\ t.canceled
  BY GivenUp DEF TaskScreens
<1>2. ASSUME NEW t \in recordings
      PROVE  [t EXCEPT !.mine = FALSE] \in {u \in TaskType : u.current = t.current /\ u.canceled = t.canceled}
  <2>1. t \in TaskType
    BY DEF TInv, IInv, Shape
  <2> QED BY <2>1 DEF TaskType
<1>3. \A t \in recordings' : ~t.current /\ t.canceled
  BY <1>1, <1>2 DEF Orphaned
<1> QED BY <1>3, Quiet DEF Owned, TInv, Done, TaskScreens, sound

\* The keys that concern no task.
LEMMA OtherKeys ==
    ASSUME TInv,
           \/ Choose \/ OpenFolders \/ StartCompose \/ ResumeDraft \/ EditField \/ EditAttachments
           \/ RemoveAttachment \/ FinishField \/ ReenterField \/ AcceptField \/ ReviewEdit
           \/ (\E ok \in BOOLEAN : SendOrSave(ok)) \/ CancelDraft
           \/ PoundBack \/ PoundStays \/ PoundHelp \/ PoundDraftEdit \/ PoundForm \/ PoundConfirm
    PROVE  Owned' /\ Played' /\ ~misheard'
<1>1. CASE Choose
  <2>1. PICK move \in Moves : move[1] = screen
    BY <1>1 DEF Choose
  <2>2. move[1] \notin TaskScreens
    <3>1. CASE move \in HelpMoves
      <4>1. move[1] \in DOMAIN Help \cup {"info"}
        BY <3>1, HelpAssumption DEF HelpMoves
      <4> QED BY <4>1, HelpAssumption DEF MenuBack, TaskScreens, RecordingScreens
    <3>2. CASE move \notin HelpMoves
      BY <3>2 DEF Moves, MainMoves, AccountMoves, AlertFolderMoves, FolderMoves, ListenMoves,
         SettingsMoves, RecipientMoves, FieldMoves, EditMoves, ReadMoves, AttachmentMoves,
         MoveMenuMoves, MovedMoves, ContactMoves, TaskScreens, RecordingScreens
    <3> QED BY <3>1, <3>2
  <2> QED BY <1>1, <2>1, <2>2, KeysElsewhere DEF Choose, Handling, voice
<1>2. CASE OpenFolders \/ EditField \/ EditAttachments \/ RemoveAttachment \/ PoundForm \/ PoundDraftEdit
  <2>1. Done /\ ~closed /\ UNCHANGED <<voice, sound>>
    BY <1>2 DEF OpenFolders, EditField, EditAttachments, RemoveAttachment, PoundForm,
       PoundDraftEdit, On, Handling
  <2>2. screen \notin TaskScreens
    BY <1>2 DEF OpenFolders, EditField, EditingMoves, EditAttachments, RemoveAttachment, PoundForm,
       PoundDraftEdit, On, TaskScreens, RecordingScreens
  <2> QED BY <2>1, <2>2, KeysElsewhere DEF voice
<1>3. CASE StartCompose \/ ResumeDraft
  <2>1. Done /\ ~closed /\ UNCHANGED sound /\ recordings' = Orphaned(recordings)
    BY <1>3 DEF StartCompose, ResumeDraft, NewDraft, On, Handling
  <2>2. screen \notin TaskScreens
    BY <1>3 DEF StartCompose, ComposeMoves, ResumeDraft, On, TaskScreens, RecordingScreens
  <2> QED BY <2>1, <2>2, KeysElsewhere
<1>4. CASE FinishField \/ ReenterField \/ AcceptField \/ PoundConfirm
  <2>1. Done /\ ~closed /\ UNCHANGED <<voice, sound>>
    BY <1>4 DEF FinishField, ReenterField, AcceptField, PoundConfirm, On, Handling
  <2>2. screen \notin TaskScreens
    <3>1. CASE FinishField
      BY <3>1 DEF FinishField, EditorScreens, On, TaskScreens, RecordingScreens
    <3>2. CASE ReenterField \/ AcceptField
      BY <3>2 DEF ReenterField, AcceptField, On, TaskScreens, RecordingScreens
    <3>3. CASE PoundConfirm
      BY <3>3 DEF PoundConfirm, On, TaskScreens, RecordingScreens, TInv, IInv, Asking
    <3> QED BY <1>4, <3>1, <3>2, <3>3
  <2> QED BY <2>1, <2>2, KeysElsewhere DEF voice
<1>5. CASE ReviewEdit \/ (\E ok \in BOOLEAN : SendOrSave(ok)) \/ CancelDraft
  <2>1. Done /\ ~closed /\ UNCHANGED <<voice, sound>> /\ screen = "review"
    BY <1>5 DEF ReviewEdit, SendOrSave, CancelDraft, On, Handling
  <2> QED BY <2>1, KeysElsewhere DEF voice, TaskScreens, RecordingScreens
<1>6. CASE PoundBack \/ PoundStays \/ PoundHelp
  <2>1. Done /\ ~closed /\ UNCHANGED <<voice, sound>>
    BY <1>6 DEF PoundBack, PoundStays, PoundHelp, On, Handling
  <2>2. screen \notin TaskScreens
    <3>1. CASE PoundBack \/ PoundStays
      BY <3>1 DEF PoundBack, PoundStays, Pops, TaskScreens, RecordingScreens
    <3>2. CASE PoundHelp
      BY <3>2, HelpAssumption DEF PoundHelp, On, MenuBack, TaskScreens, RecordingScreens
    <3> QED BY <1>6, <3>1, <3>2
  <2> QED BY <2>1, <2>2, KeysElsewhere DEF voice
<1> QED BY <1>1, <1>2, <1>3, <1>4, <1>5, <1>6

\* The keys of a recording's screen.
LEMMA OwnKeys ==
    ASSUME TInv, NoEffect \/ AbandonRecording \/ FinishRecording \/ StartRecording
    PROVE  Owned' /\ Played' /\ ~misheard'
<1>1. CASE NoEffect
  BY <1>1 DEF NoEffect, Done, TInv, Owned, Played, menus, voice, sound
<1>2. CASE AbandonRecording
  <2>1. /\ ~closed /\ UNCHANGED <<closed, misheard, sound>> /\ screen \in RecordingScreens
        /\ recordings' = Outdated(Canceled(recordings))
    BY <1>2 DEF AbandonRecording, On, Handling, Done, DropRecording
  <2>2. ASSUME NEW t \in recordings, NEW u, NEW v, v = [u EXCEPT !.current = FALSE],
               u = IF recordCancel /\ t.current
                   THEN [t EXCEPT !.canceled = TRUE, !.capturing = FALSE] ELSE t
        PROVE  ~v.current /\ v.canceled
    <3>1. t \in TaskType
      BY DEF TInv, IInv, Shape
    <3>2. CASE t.current
      <4>1. u = [t EXCEPT !.canceled = TRUE, !.capturing = FALSE]
        BY <2>1, <2>2, <3>2 DEF TInv, Owned
      <4> QED BY <2>2, <3>1, <4>1 DEF TaskType
    <3>3. CASE ~t.current
      <4>1. u = t /\ t.canceled
        BY <2>2, <3>1, <3>3 DEF TInv, Owned, TaskType
      <4> QED BY <2>2, <3>1, <4>1 DEF TaskType
    <3> QED BY <3>2, <3>3
  <2>3. \A t \in recordings' : ~t.current /\ t.canceled
    BY <2>1, <2>2 DEF Outdated, Canceled
  <2>4. Played'
    BY <2>1, Quiet DEF RecordingScreens, sound
  <2> QED BY <2>1, <2>3, <2>4 DEF Owned, TInv
<1>3. CASE FinishRecording
  <2>1. /\ ~closed /\ UNCHANGED <<closed, misheard, sound, menus, recordCancel>>
        /\ recordings' = {IF t.current /\ recordStop = "current"
                          THEN [t EXCEPT !.capturing = FALSE] ELSE t : t \in recordings}
    BY <1>3 DEF FinishRecording, On, Handling, Done
  <2> DEFINE Ended(t) == IF t.current /\ recordStop = "current" THEN [t EXCEPT !.capturing = FALSE] ELSE t
  <2>2. ASSUME NEW t \in recordings
        PROVE  /\ Ended(t).current = t.current /\ Ended(t).canceled = t.canceled
               /\ Ended(t).mine = t.mine /\ Ended(t).kind = t.kind
               /\ t.current => ~Ended(t).capturing
    <3>1. t \in TaskType /\ (t.current => (t.capturing => recordStop = "current"))
      BY <2>1 DEF TInv, IInv, Shape, Owned
    <3>2. CASE t.current /\ recordStop = "current"
      BY <3>1, <3>2 DEF TaskType
    <3>3. CASE ~(t.current /\ recordStop = "current")
      BY <3>1, <3>3
    <3> QED BY <3>2, <3>3
  <2>3. recordings' = {Ended(t) : t \in recordings}
    BY <2>1
  <2> HIDE DEF Ended
  <2>4. Owned'
    <3>1. ASSUME NEW t \in recordings', ~t.canceled PROVE t.current /\ ~closed'
      BY <2>1, <2>2, <2>3, <3>1 DEF TInv, Owned
    <3>2. ASSUME NEW t \in recordings', t.current
          PROVE  screen' = t.kind /\ ~t.canceled /\ t.mine /\ recordCancel' /\ ~t.capturing
      BY <2>1, <2>2, <2>3, <3>2 DEF TInv, Owned, menus
    <3>3. ASSUME NEW t \in recordings', NEW u \in recordings', t.current, u.current PROVE t = u
      BY <2>1, <2>2, <2>3, <3>3 DEF TInv, Owned
    <3> QED BY <3>1, <3>2, <3>3 DEF Owned
  <2> QED BY <2>1, <2>4 DEF TInv, Played, menus, sound
<1>4. CASE StartRecording
  <2>1. /\ ~closed /\ UNCHANGED <<closed, misheard, sound>> /\ recordings' = Outdated(recordings)
        /\ screen \in {"subject_method", "body_method", "review", "attachment_edit"}
    BY <1>4 DEF StartRecording, On, Handling
  <2>2. \A t \in recordings : ~t.current /\ t.canceled
    BY <2>1, GivenUp DEF RecordingScreens
  <2>3. ASSUME NEW t \in recordings
        PROVE  ~[t EXCEPT !.current = FALSE].current /\ [t EXCEPT !.current = FALSE].canceled = t.canceled
    BY DEF TInv, IInv, Shape, TaskType
  <2>4. \A t \in recordings' : ~t.current /\ t.canceled
    BY <2>1, <2>2, <2>3 DEF Outdated
  <2>5. Played'
    BY <2>1, Quiet DEF sound
  <2> QED BY <2>1, <2>4, <2>5 DEF Owned, TInv
<1> QED BY <1>1, <1>2, <1>3, <1>4

\* The keys of the attachments.
LEMMA PlaybackKeys ==
    ASSUME TInv, StartPlayback \/ StopPlayback
    PROVE  Owned' /\ Played' /\ ~misheard'
<1>1. /\ ~closed /\ UNCHANGED <<closed, misheard, voice>>
      /\ screen \in {"attachment_menu", "attachment_playback"}
  BY DEF StartPlayback, StopPlayback, On, Handling, Done
<1>2. Owned'
  <2>1. \A t \in recordings : ~t.current /\ t.canceled
    BY <1>1, GivenUp DEF RecordingScreens
  <2> QED BY <1>1, <2>1 DEF Owned, voice
<1>3. CASE StartPlayback
  <2> DEFINE new == [playing |-> FALSE, newest |-> FALSE, canceled |-> FALSE]
  <2>1. players' = players \cup {new} /\ screen = "attachment_menu"
    BY <1>3 DEF StartPlayback, On
  <2>2. new \in PlayerType /\ ~new.newest
    BY DEF PlayerType
  <2>3. \A p \in players' : p.newest => p \in players
    BY <2>1, <2>2
  <2>4. \A p \in players' : p.newest => p.canceled
    BY <2>1, <2>3 DEF TInv, Played
  <2>5. players' \subseteq PlayerType
    BY <2>1, <2>2 DEF TInv, Played
  <2> HIDE DEF new
  <2> QED BY <1>1, <1>2, <2>3, <2>4, <2>5 DEF TInv, Played
<1>4. CASE StopPlayback
  <2> DEFINE Stopped(p) == [p EXCEPT !.canceled = @ \/ (playCancel /\ p.playing /\ p.newest)]
  <2>1. players' = {Stopped(p) : p \in players}
    BY <1>4 DEF StopPlayback, Silenced
  <2>2. ASSUME NEW p \in players
        PROVE  /\ Stopped(p) \in PlayerType
               /\ Stopped(p).newest = p.newest /\ Stopped(p).playing = p.playing
               /\ p.newest => Stopped(p).canceled
    <3>1. p \in PlayerType
      BY DEF TInv, Played
    <3>2. PICK c \in BOOLEAN : c = (p.canceled \/ (playCancel /\ p.playing /\ p.newest))
      OBVIOUS
    <3>3. Stopped(p) = [p EXCEPT !.canceled = c]
      BY <3>2
    <3>4. p.newest => c
      BY <3>1, <3>2 DEF TInv, Played, PlayerType
    <3> HIDE DEF Stopped
    <3> QED BY <3>1, <3>3, <3>4 DEF PlayerType
  <2> HIDE DEF Stopped
  <2>3. players' \subseteq PlayerType /\ \A p \in players' : p.newest => p.canceled /\ p.playing
    BY <2>1, <2>2 DEF TInv, Played
  <2>4. ASSUME NEW p \in players', NEW q \in players', p.newest, q.newest PROVE p = q
    BY <2>1, <2>2, <2>4 DEF TInv, Played
  <2> QED BY <1>1, <1>2, <2>3, <2>4 DEF TInv, Played
<1> QED BY <1>3, <1>4

\* Only the current recording's end changes the screen or what stops a recording.
LEMMA OnlyCurrent ==
    ASSUME NEW t, RecordingEnds(t)
    PROVE  /\ recordings' = recordings \ {t} /\ UNCHANGED <<sound, closed>>
           /\ t.current \/ (UNCHANGED <<menus, recordStop>> /\ (recordCancel => recordCancel'))
           /\ Active(t) \/ UNCHANGED menus
<1>1. recordings' = recordings \ {t} /\ UNCHANGED <<sound, closed>>
  BY DEF RecordingEnds
<1>2. Active(t) \/ UNCHANGED menus
  BY DEF RecordingEnds
<1>3. Active(t) => t.current
  BY DEF Active
<1>4. t.current \/ recordStop' = recordStop
  BY DEF RecordingEnds
<1>5. recordCancel' = (recordCancel /\ ~t.current)
  BY DEF RecordingEnds
<1>6. t.current \/ (recordCancel => recordCancel')
  BY <1>5
<1> QED BY <1>1, <1>2, <1>3, <1>4, <1>6

\* The ends of recordings.
LEMMA RecordingsEnd ==
    ASSUME TInv, \/ BeginCapture \/ CaptureFails
                 \/ \E t \in recordings : WindowEnds(t) \/ RecordingEnds(t)
    PROVE  Owned' /\ Played' /\ ~misheard'
<1>1. CASE BeginCapture
  <2> DEFINE new == [kind |-> worker, current |-> TRUE, canceled |-> closed,
                     capturing |-> ~closed, mine |-> TRUE]
  <2>1. /\ worker \in RecordingScreens /\ recordings' = recordings \cup {new}
        /\ UNCHANGED <<menus, recordStop, recordCancel, sound, closed, misheard>>
    BY <1>1 DEF BeginCapture
  <2>2. screen = worker /\ (\A t \in recordings : ~t.current) /\ (~closed => recordCancel /\ recordStop = "current")
    BY <2>1 DEF TInv, IInv, Held, Ready
  <2>3. new.kind = worker /\ new.current /\ new.canceled = closed /\ new.mine
    OBVIOUS
  <2> HIDE DEF new
  <2>4. \A t \in recordings' : IF t = new THEN t.current ELSE t \in recordings /\ ~t.current /\ t.canceled
    BY <2>1, <2>2, <2>3 DEF TInv, Owned, IInv, Shape, TaskType
  <2>5. Owned'
    <3>1. ASSUME NEW t \in recordings', ~t.canceled PROVE t.current /\ ~closed'
      BY <2>1, <2>3, <2>4, <3>1
    <3>2. ASSUME NEW t \in recordings', t.current, ~closed'
          PROVE  /\ screen' = t.kind /\ ~t.canceled /\ t.mine /\ recordCancel'
                 /\ recordStop' = "current"
      <4>1. t = new /\ ~closed
        BY <2>1, <2>4, <3>2
      <4> QED BY <2>1, <2>2, <2>3, <4>1 DEF menus
    <3>3. ASSUME NEW t \in recordings', NEW u \in recordings', t.current, u.current PROVE t = u
      BY <2>4, <3>3
    <3> QED BY <3>1, <3>2, <3>3 DEF Owned
  <2> QED BY <2>1, <2>5 DEF TInv, Played, menus, sound
<1>2. CASE CaptureFails
  <2>1. /\ worker \in RecordingScreens /\ UNCHANGED <<recordings, sound, closed, misheard>>
    BY <1>2 DEF CaptureFails
  <2>2. screen \in RecordingScreens /\ \A t \in recordings : ~t.current
    BY <2>1 DEF TInv, IInv, Held
  <2>3. Owned'
    BY <2>1, <2>2 DEF TInv, Owned
  <2>4. Played'
    BY <2>1, <2>2, Quiet DEF RecordingScreens, sound
  <2> QED BY <2>1, <2>3, <2>4 DEF TInv
<1>3. ASSUME NEW t \in recordings, WindowEnds(t) PROVE Owned' /\ Played' /\ ~misheard'
  <2> DEFINE ended == [t EXCEPT !.capturing = FALSE]
  <2>1. /\ UNCHANGED <<menus, recordStop, recordCancel, sound, closed, misheard>>
        /\ recordings' = (recordings \ {t}) \cup {ended}
    BY <1>3 DEF WindowEnds
  <2>2. /\ ended.current = t.current /\ ended.canceled = t.canceled /\ ended.mine = t.mine
        /\ ended.kind = t.kind /\ ~ended.capturing
    BY DEF TInv, IInv, Shape, TaskType
  <2> HIDE DEF ended
  <2>3. Owned'
    <3>1. ASSUME NEW u \in recordings', ~u.canceled PROVE u.current /\ ~closed'
      BY <2>1, <2>2, <3>1 DEF TInv, Owned
    <3>2. ASSUME NEW u \in recordings', u.current, ~closed'
          PROVE  /\ screen' = u.kind /\ ~u.canceled /\ u.mine /\ recordCancel'
                 /\ u.capturing => recordStop' = "current"
      BY <2>1, <2>2, <3>2 DEF TInv, Owned, menus
    <3>3. ASSUME NEW u \in recordings', NEW v \in recordings', u.current, v.current PROVE u = v
      BY <2>1, <2>2, <3>3 DEF TInv, Owned
    <3> QED BY <3>1, <3>2, <3>3 DEF Owned
  <2> QED BY <2>1, <2>3 DEF TInv, Played, menus, sound
<1>4. ASSUME NEW t \in recordings, RecordingEnds(t) PROVE Owned' /\ Played' /\ ~misheard'
  <2>1. /\ recordings' = recordings \ {t} /\ UNCHANGED <<sound, closed>>
        /\ t.current \/ (UNCHANGED <<menus, recordStop>> /\ (recordCancel => recordCancel'))
        /\ Active(t) \/ UNCHANGED menus
    BY <1>4, OnlyCurrent
  <2>2. Owned'
    <3>1. CASE t.current
      <4>1. \A u \in recordings' : ~u.current /\ u.canceled
        BY <2>1, <3>1 DEF TInv, Owned, IInv, Shape, TaskType
      <4> QED BY <4>1 DEF Owned
    <3>2. CASE UNCHANGED <<menus, recordStop>> /\ (recordCancel => recordCancel')
      BY <2>1, <3>2 DEF TInv, Owned, menus
    <3> QED BY <2>1, <3>1, <3>2
  <2>3. Played'
    <3>1. CASE Active(t)
      <4>1. screen \in RecordingScreens
        BY <3>1 DEF Active, TInv, IInv, Shape, TaskType
      <4> QED BY <2>1, <4>1, Quiet DEF RecordingScreens, sound
    <3>2. CASE UNCHANGED menus
      BY <2>1, <3>2 DEF TInv, Played, menus, sound
    <3> QED BY <2>1, <3>1, <3>2
  <2>4. ~misheard'
    <3>1. Active(t) => ~t.canceled /\ t.mine
      BY DEF Active, TInv, Owned
    <3> QED BY <1>4, <3>1 DEF RecordingEnds, TInv
  <2> QED BY <2>2, <2>3, <2>4
<1> QED BY <1>1, <1>2, <1>3, <1>4

\* The ends of playbacks.
LEMMA PlaybacksEnd ==
    ASSUME TInv, NEW p \in players, PlaybackStarts(p) \/ PlaybackFails(p) \/ PlaybackEnds(p)
    PROVE  Owned' /\ Played' /\ ~misheard'
<1>1. UNCHANGED <<voice, closed, misheard>>
  BY DEF PlaybackStarts, PlaybackFails, PlaybackEnds
<1>2. Owned'
  <2>1. CASE UNCHANGED menus
    BY <1>1, <2>1 DEF TInv, Owned, menus, voice
  <2>2. CASE screen = "attachment_playback" /\ ~closed
    <3>1. \A t \in recordings : ~t.current /\ t.canceled
      BY <2>2, GivenUp DEF RecordingScreens
    <3> QED BY <1>1, <3>1 DEF Owned, voice
  <2> QED BY <2>1, <2>2 DEF PlaybackStarts, PlaybackFails, PlaybackEnds
<1>3. CASE players' = players \ {p} /\ UNCHANGED <<screen, playCancel>>
  BY <1>1, <1>2, <1>3 DEF TInv, Played
<1>4. CASE PlaybackEnds(p)
  <2>1. /\ players' = players \ {p}
        /\ p.newest \/ UNCHANGED menus
        /\ playCancel' = (playCancel /\ ~p.newest)
    BY <1>4 DEF PlaybackEnds
  <2>2. CASE p.newest
    <3>1. \A q \in players' : ~q.newest
      BY <2>1, <2>2 DEF TInv, Played
    <3>2. players' \subseteq PlayerType
      BY <2>1 DEF TInv, Played
    <3> QED BY <1>1, <1>2, <3>1, <3>2 DEF TInv, Played
  <2>3. CASE ~p.newest
    <3>1. UNCHANGED menus /\ (playCancel => playCancel')
      BY <2>1, <2>3
    <3> QED BY <1>1, <1>2, <2>1, <3>1 DEF TInv, Played, menus
  <2> QED BY <2>2, <2>3
<1>5. CASE screen = "attachment_playback" /\ playCancel' = TRUE /\ UNCHANGED menus
           /\ players' = {[q EXCEPT !.newest = FALSE] : q \in players \ {p}}
                            \cup {[p EXCEPT !.playing = TRUE, !.newest = TRUE]}
  <2> DEFINE latest == [p EXCEPT !.playing = TRUE, !.newest = TRUE]
  <2>1. ASSUME NEW q \in players
        PROVE  [q EXCEPT !.newest = FALSE] \in PlayerType /\ ~[q EXCEPT !.newest = FALSE].newest
    BY DEF TInv, Played, PlayerType
  <2>2. latest \in PlayerType /\ latest.playing
    BY DEF TInv, Played, PlayerType
  <2> HIDE DEF latest
  <2>3. players' = {[q EXCEPT !.newest = FALSE] : q \in players \ {p}} \cup {latest}
    BY <1>5 DEF latest
  <2>4. players' \subseteq PlayerType /\ \A q \in players' : q.newest => q = latest
    BY <2>1, <2>2, <2>3
  <2> QED BY <1>1, <1>2, <1>5, <2>2, <2>4 DEF TInv, Played, menus
<1> QED BY <1>3, <1>4, <1>5 DEF PlaybackStarts, PlaybackFails, menus

\* The keys that stop a recording are there from its start to its task's.
LEMMA ReadyStep == ASSUME TInv, [Next]_vars PROVE Ready'
<1>1. CASE UNCHANGED <<worker, closed, recordStop, recordCancel>>
  BY <1>1 DEF TInv, Ready
<1>2. CASE worker' \notin RecordingScreens \/ closed'
  BY <1>2 DEF Ready
<1>3. CASE Press \/ Take \/ HangUp \/ UNCHANGED vars
  BY <1>1, <1>2, <1>3 DEF Press, Take, HangUp, vars, voice, RecordingScreens
<1>4. CASE Keys
  <2>1. CASE StartRecording
    BY <2>1 DEF StartRecording, Ready
  <2>2. CASE ~StartRecording
    <3>1. Done
      BY <1>4, <2>2 DEF Keys, NoEffect, Choose, OpenFolders, StartCompose, ResumeDraft, EditField,
         EditAttachments, RemoveAttachment, FinishField, ReenterField, AcceptField, ReviewEdit,
         SendOrSave, CancelDraft, PoundBack, PoundStays, PoundHelp, PoundDraftEdit, PoundForm,
         PoundConfirm, AbandonRecording, FinishRecording, StartPlayback, StopPlayback
    <3> QED BY <1>2, <3>1 DEF Done, RecordingScreens
  <2> QED BY <2>1, <2>2
<1>5. CASE BeginCapture \/ CaptureFails
  BY <1>2, <1>5 DEF BeginCapture, CaptureFails, RecordingScreens
<1>6. ASSUME NEW t \in recordings, WindowEnds(t) \/ RecordingEnds(t) PROVE Ready'
  <2>1. UNCHANGED <<worker, closed>> /\ (t.current \/ (UNCHANGED recordStop /\ (recordCancel => recordCancel')))
    <3>1. CASE WindowEnds(t)
      BY <3>1 DEF WindowEnds
    <3>2. CASE RecordingEnds(t)
      <4>1. UNCHANGED <<worker, closed>>
        BY <3>2 DEF RecordingEnds
      <4> QED BY <3>2, <4>1, OnlyCurrent
    <3> QED BY <1>6, <3>1, <3>2
  <2>2. worker \in RecordingScreens => ~t.current
    BY DEF TInv, IInv, Held
  <2> QED BY <2>1, <2>2 DEF TInv, Ready
<1>7. ASSUME NEW p \in players, PlaybackStarts(p) \/ PlaybackFails(p) \/ PlaybackEnds(p) PROVE Ready'
  BY <1>1, <1>7 DEF PlaybackStarts, PlaybackFails, PlaybackEnds, voice
<1> QED BY <1>3, <1>4, <1>5, <1>6, <1>7 DEF Next, Tasks

\* The hang-up tells every task to stop.
LEMMA QueueTasks ==
    ASSUME TInv, Press \/ Take \/ HangUp \/ UNCHANGED vars
    PROVE  Owned' /\ Played' /\ ~misheard'
<1>1. CASE Press \/ Take \/ UNCHANGED vars
  <2>1. UNCHANGED <<screen, voice, sound, closed, misheard>>
    BY <1>1 DEF Press, Take, vars, menus
  <2> QED BY <2>1 DEF TInv, Owned, Played, voice, sound
<1>2. CASE HangUp
  <2>1. /\ closed' = TRUE /\ UNCHANGED <<screen, misheard>>
        /\ players' = {[p EXCEPT !.canceled = TRUE] : p \in players}
        /\ recordings' = {[t EXCEPT !.canceled = TRUE, !.capturing = FALSE] : t \in recordings}
    BY <1>2 DEF HangUp
  <2>2. ASSUME NEW t \in recordings
        PROVE  /\ [t EXCEPT !.canceled = TRUE, !.capturing = FALSE].canceled
               /\ [t EXCEPT !.canceled = TRUE, !.capturing = FALSE].current = t.current
    BY DEF TInv, IInv, Shape, TaskType
  <2>3. ASSUME NEW p \in players
        PROVE  /\ [p EXCEPT !.canceled = TRUE] \in PlayerType /\ [p EXCEPT !.canceled = TRUE].canceled
               /\ [p EXCEPT !.canceled = TRUE].newest = p.newest
               /\ [p EXCEPT !.canceled = TRUE].playing = p.playing
    BY DEF TInv, Played, PlayerType
  <2>4. Owned'
    <3>1. \A t \in recordings' : t.canceled
      BY <2>1, <2>2
    <3>2. ASSUME NEW t \in recordings', NEW u \in recordings', t.current, u.current PROVE t = u
      BY <2>1, <2>2, <3>2 DEF TInv, Owned
    <3> QED BY <2>1, <3>1, <3>2 DEF Owned
  <2>5. Played'
    <3>1. players' \subseteq PlayerType /\ \A p \in players' : p.canceled /\ (p.newest => p.playing)
      BY <2>1, <2>3 DEF TInv, Played
    <3>2. ASSUME NEW p \in players', NEW q \in players', p.newest, q.newest PROVE p = q
      <4>1. PICK r \in players : p = [r EXCEPT !.canceled = TRUE]
        BY <2>1
      <4>2. PICK s \in players : q = [s EXCEPT !.canceled = TRUE]
        BY <2>1
      <4>3. r.newest /\ s.newest
        BY <2>3, <3>2, <4>1, <4>2
      <4>4. r = s
        BY <4>3 DEF TInv, Played
      <4> QED BY <4>1, <4>2, <4>4
    <3> QED BY <3>1, <3>2 DEF Played
  <2> QED BY <2>1, <2>4, <2>5 DEF TInv
<1> QED BY <1>1, <1>2

\* Every step keeps the invariant of menus and tasks.
LEMMA TasksStep == ASSUME TInv, [Next]_vars PROVE TInv'
<1>1. IInv' /\ closed' \in BOOLEAN /\ Ready'
  BY MenusStep, ReadyStep DEF TInv
<1>2. Owned' /\ Played' /\ ~misheard'
  <2>1. CASE Press \/ Take \/ HangUp \/ UNCHANGED vars
    BY <2>1, QueueTasks
  <2>2. CASE Keys
    BY <2>2, OtherKeys, OwnKeys, PlaybackKeys DEF Keys
  <2>3. CASE Tasks
    BY <2>3, RecordingsEnd, PlaybacksEnd DEF Tasks
  <2> QED BY <2>1, <2>2, <2>3 DEF Next
<1> QED BY <1>1, <1>2 DEF TInv

\* The caller is recorded, or an attachment played, only on the screen that says so
\* and with keys that stop it, and speech enters only the draft it was meant for
\* (RecordGeneration, AttachmentPlaybackSeq), however many tasks still end.
THEOREM TasksBelongToTheirScreen == Spec => []CallTasks
<1>1. Init => TInv
  <2>1. Init => recordings = {} /\ players = {} /\ misheard = FALSE /\ worker = "idle"
    BY DEF Init
  <2> QED BY <2>1, MenusInit DEF TInv, Owned, Played, Ready, RecordingScreens
<1>2. ASSUME TInv, [Next]_vars PROVE TInv'
  BY <1>2, TasksStep
<1>3. TInv => CallTasks
  <2>1. TInv => HeldTasks
    BY DEF TInv, Owned, Played, HeldTasks
  <2> QED BY <2>1 DEF TInv, CallTasks, WantedSpeech
<1> QED BY <1>1, <1>2, <1>3, PTL DEF Spec

-----------------------------------------------------------------------------
(* Types. *)

\* The history grows by one screen at its end, loses one there, or stays.
Walks ==
    \/ UNCHANGED previous
    \/ previous' = Newest(Append(previous, screen))
    \/ previous # <<>> /\ previous' = Front(previous)

\* The queue and the flags that are no part of the invariants above.
Fields ==
    /\ Len(previous) <= HistoryLimit
    /\ queue \in Seq(Places \cup {None}) /\ Len(queue) <= MaxQueue
    /\ worker \in {"idle", "key"} \cup RecordingScreens
    /\ editing \in BOOLEAN /\ prefix \in BOOLEAN
    /\ recordCancel \in BOOLEAN /\ playCancel \in BOOLEAN
    /\ misheard \in BOOLEAN /\ removing \in BOOLEAN
    /\ recordStop \in {"current", "old", None}

\* The ways a handler or a task changes the menus.
LEMMA EnterWalks == ASSUME NEW n, Enter(n), removing \in BOOLEAN
                    PROVE  Walks /\ removing' \in BOOLEAN
BY DEF Enter, Walks, menus, StampsPass
\* Both ways back walk.
LEMMA BackWalks == ASSUME BackByContract \/ BackUsingFlow
                   PROVE  Walks /\ removing' \in BOOLEAN
BY DEF BackByContract, BackUsingFlow, Walks, StampsPass
\* Standing still is a walk too.
LEMMA MenusWalk == ASSUME UNCHANGED menus, removing \in BOOLEAN
                   PROVE  Walks /\ removing' \in BOOLEAN
BY DEF Walks, menus

\* What a handler changes besides.
Flags ==
    /\ worker' \in {"idle", "key"} \cup RecordingScreens
    /\ editing' \in BOOLEAN /\ prefix' \in BOOLEAN
    /\ recordCancel' \in BOOLEAN /\ playCancel' \in BOOLEAN
    /\ misheard' \in BOOLEAN
    /\ recordStop' \in {"current", "old", None}

\* Every key's handler walks through the history and sets flags.
LEMMA KeysWalk == ASSUME Keys, removing \in BOOLEAN, Shape PROVE Walks /\ removing' \in BOOLEAN
<1>1. CASE NoEffect \/ PoundStays \/ FinishRecording
  BY <1>1, MenusWalk DEF NoEffect, PoundStays, FinishRecording
<1>2. CASE RemoveAttachment
  BY <1>2 DEF RemoveAttachment, Walks, Shape
<1>3. CASE Choose \/ OpenFolders \/ StartCompose \/ ResumeDraft \/ EditField
  BY <1>3, EnterWalks DEF Choose, OpenFolders, StartCompose, ResumeDraft, EditField
<1>4. CASE EditAttachments \/ FinishField \/ ReenterField \/ AcceptField \/ ReviewEdit
  BY <1>4, EnterWalks DEF EditAttachments, FinishField, ReenterField, AcceptField, ReviewEdit
<1>5. CASE (\E ok \in BOOLEAN : SendOrSave(ok)) \/ CancelDraft
  <2>1. Enter("main") \/ UNCHANGED menus
    BY <1>5 DEF SendOrSave, CancelDraft
  <2> QED BY <2>1, EnterWalks, MenusWalk
<1>6. CASE PoundBack \/ PoundHelp \/ PoundDraftEdit \/ AbandonRecording
  BY <1>6, BackWalks DEF PoundBack, PoundHelp, PoundDraftEdit, AbandonRecording
<1>7. CASE PoundForm \/ PoundConfirm \/ StartRecording \/ StartPlayback
  BY <1>7, EnterWalks DEF PoundForm, PoundConfirm, StartRecording, StartPlayback
<1>8. CASE StopPlayback
  BY <1>8, EnterWalks, BackWalks DEF StopPlayback
<1> QED BY <1>1, <1>2, <1>3, <1>4, <1>5, <1>6, <1>7, <1>8 DEF Keys

\* The flags a handler sets stay flags.
LEMMA KeysFlags == ASSUME Keys, Fields PROVE Flags
<1> USE DEF Fields, Flags, Done, form, voice, sound
<1>1. CASE NoEffect \/ Choose \/ OpenFolders \/ StartCompose \/ ResumeDraft \/ EditField
  BY <1>1 DEF NoEffect, Choose, OpenFolders, StartCompose, ResumeDraft, EditField, NewDraft
<1>2. CASE EditAttachments \/ RemoveAttachment \/ FinishField \/ ReenterField \/ AcceptField
  BY <1>2 DEF EditAttachments, RemoveAttachment, FinishField, ReenterField, AcceptField
<1>3. CASE ReviewEdit \/ (\E ok \in BOOLEAN : SendOrSave(ok)) \/ CancelDraft
  BY <1>3 DEF ReviewEdit, SendOrSave, CancelDraft
<1>4. CASE PoundBack \/ PoundStays \/ PoundHelp \/ PoundDraftEdit \/ PoundForm \/ PoundConfirm
  BY <1>4 DEF PoundBack, PoundStays, PoundHelp, PoundDraftEdit, PoundForm, PoundConfirm
<1>5. CASE AbandonRecording \/ FinishRecording
  BY <1>5 DEF AbandonRecording, FinishRecording, DropRecording, OldStop
<1>6. CASE StartRecording
  BY <1>6 DEF StartRecording, RecordingFor, RecordingScreens
<1>7. CASE StartPlayback \/ StopPlayback
  BY <1>7 DEF StartPlayback, StopPlayback
<1> QED BY <1>1, <1>2, <1>3, <1>4, <1>5, <1>6, <1>7 DEF Keys

\* So does the end of every task.
LEMMA TasksWalk == ASSUME Tasks, Fields PROVE Walks /\ removing' \in BOOLEAN
<1> removing \in BOOLEAN
  BY DEF Fields
<1>1. CASE BeginCapture
  BY <1>1, MenusWalk DEF BeginCapture
<1>2. CASE CaptureFails
  BY <1>2, EnterWalks DEF CaptureFails
<1>3. ASSUME NEW t \in recordings, WindowEnds(t) PROVE Walks /\ removing' \in BOOLEAN
  BY <1>3, MenusWalk DEF WindowEnds
<1>4. ASSUME NEW t \in recordings, RecordingEnds(t) PROVE Walks /\ removing' \in BOOLEAN
  <2>1. UNCHANGED menus \/ \E n \in {Fallback(t.kind), "review", "body_method"} : Enter(n)
    BY <1>4 DEF RecordingEnds
  <2> QED BY <2>1, EnterWalks, MenusWalk
<1>5. ASSUME NEW p \in players, PlaybackStarts(p) \/ PlaybackFails(p)
      PROVE  Walks /\ removing' \in BOOLEAN
  BY <1>5, MenusWalk DEF PlaybackStarts, PlaybackFails
<1>6. ASSUME NEW p \in players, PlaybackEnds(p) PROVE Walks /\ removing' \in BOOLEAN
  <2>1. Enter("read") \/ UNCHANGED menus
    BY <1>6 DEF PlaybackEnds
  <2> QED BY <2>1, EnterWalks, MenusWalk
<1> QED BY <1>1, <1>2, <1>3, <1>4, <1>5, <1>6 DEF Tasks

\* And so do those a task sets.
LEMMA TasksFlags == ASSUME Tasks, Fields PROVE Flags
<1> USE DEF Fields, Flags, form, voice, sound
<1>1. CASE BeginCapture \/ CaptureFails
  BY <1>1 DEF BeginCapture, CaptureFails
<1>2. ASSUME NEW t \in recordings, WindowEnds(t) PROVE Flags
  BY <1>2 DEF WindowEnds
<1>3. ASSUME NEW t \in recordings, RecordingEnds(t) PROVE Flags
  <2>1. recordStop' \in {None, recordStop} /\ recordCancel' \in BOOLEAN
    BY <1>3 DEF RecordingEnds
  <2>2. editing' \in BOOLEAN /\ misheard' \in BOOLEAN
    BY <1>3 DEF RecordingEnds
  <2>3. UNCHANGED <<worker, prefix, playCancel>>
    BY <1>3 DEF RecordingEnds
  <2> QED BY <2>1, <2>2, <2>3
<1>4. ASSUME NEW p \in players, PlaybackStarts(p) PROVE Flags
  BY <1>4 DEF PlaybackStarts
<1>5. ASSUME NEW p \in players, PlaybackFails(p) PROVE Flags
  BY <1>5 DEF PlaybackFails
<1>6. ASSUME NEW p \in players, PlaybackEnds(p) PROVE Flags
  <2>1. playCancel' \in BOOLEAN
    BY <1>6 DEF PlaybackEnds
  <2>2. UNCHANGED <<worker, editing, prefix, recordCancel, recordStop, misheard>>
    BY <1>6 DEF PlaybackEnds
  <2> QED BY <2>1, <2>2
<1> QED BY <1>1, <1>2, <1>3, <1>4, <1>5, <1>6 DEF Tasks

\* The history never grows beyond its limit.
LEMMA WalkKeepsLimit ==
    ASSUME previous \in Seq(Places), screen \in Places, Len(previous) <= HistoryLimit, Walks
    PROVE  Len(previous') <= HistoryLimit
<1>0. HistoryLimit \in Nat \ {0} /\ Len(previous) \in Nat
  BY NavigationAssumption
<1>1. CASE UNCHANGED previous
  BY <1>1
<1>2. CASE previous' = Newest(Append(previous, screen))
  <2> DEFINE longer == Append(previous, screen)
  <2>1. longer \in Seq(Places) /\ Len(longer) = Len(previous) + 1
    OBVIOUS
  <2>2. previous' = Newest(longer)
    BY <1>2
  <2> HIDE DEF longer
  <2>3. CASE Len(longer) > HistoryLimit
    <3>1. longer # <<>> /\ Len(Tail(longer)) = Len(longer) - 1
      BY <1>0, <2>1, <2>3
    <3> QED BY <1>0, <2>1, <2>2, <2>3, <3>1 DEF Newest
  <2>4. CASE ~(Len(longer) > HistoryLimit)
    BY <1>0, <2>1, <2>2, <2>4 DEF Newest
  <2> QED BY <2>3, <2>4
<1>3. CASE previous # <<>> /\ previous' = Front(previous)
  <2>1. /\ Len(previous) \in Nat \ {0} /\ DOMAIN previous = 1..Len(previous)
        /\ previous' = SubSeq(previous, 1, Len(previous) - 1)
    BY <1>3 DEF Front
  <2>2. Len(previous') = Len(previous) - 1
    BY <2>1, SubSeqProperties
  <2>3. Len(previous) - 1 <= HistoryLimit
    BY <1>0, <2>1
  <2> QED BY <2>2, <2>3
<1> QED BY <1>1, <1>2, <1>3 DEF Walks

\* The queue keeps its length when its stamps go stale, and when a key is pressed
\* with the queue full.
LEMMA QueueKeepsLimit ==
    ASSUME queue \in Seq(Places \cup {None}), Len(queue) <= MaxQueue, screen \in Places,
           Passes \/ Stays \/ Press \/ Take \/ HangUp
    PROVE  queue' \in Seq(Places \cup {None}) /\ Len(queue') <= MaxQueue
<1> DEFINE n == Len(queue)
<1>0. MaxQueue \in Nat \ {0} /\ n \in Nat /\ n <= MaxQueue
  BY NavigationAssumption
<1>d. DOMAIN queue = 1..n
  OBVIOUS
<1> HIDE DEF n
<1>1. CASE Passes
  <2>1. queue' = [i \in 1..n |-> None]
    BY <1>d, <1>1 DEF Passes, StampsPass
  <2>2. queue' \in Seq(Places \cup {None}) /\ Len(queue') = n
    BY <1>0, <2>1
  <2> QED BY <1>0, <2>2
<1>2. CASE Stays
  BY <1>2 DEF Stays
<1>3. CASE Press
  <2> DEFINE waiting == IF Len(queue) = MaxQueue THEN Tail(queue) ELSE queue
  <2>1. queue' = Append(waiting, screen)
    BY <1>3 DEF Press
  <2>2. waiting \in Seq(Places \cup {None}) /\ Len(waiting) < MaxQueue
    <3>1. CASE Len(queue) = MaxQueue
      <4>1. queue # <<>>
        BY <1>0, <3>1 DEF n
      <4>2. Tail(queue) \in Seq(Places \cup {None}) /\ Len(Tail(queue)) = n - 1
        BY <4>1 DEF n
      <4>3. n - 1 < MaxQueue
        BY <1>0
      <4> QED BY <3>1, <4>2, <4>3
    <3>2. CASE Len(queue) # MaxQueue
      <4>1. waiting = queue
        BY <3>2
      <4>2. n # MaxQueue
        BY <3>2 DEF n
      <4>3. n < MaxQueue
        BY <1>0, <4>2
      <4> HIDE DEF waiting
      <4> QED BY <4>1, <4>3 DEF n
    <3> QED BY <3>1, <3>2
  <2> HIDE DEF waiting
  <2>3. queue' \in Seq(Places \cup {None}) /\ Len(queue') = Len(waiting) + 1 /\ Len(waiting) \in Nat
    BY <2>1, <2>2
  <2> QED BY <1>0, <2>2, <2>3
<1>4. CASE Take
  <2>1. queue # <<>> /\ queue' = Tail(queue)
    BY <1>4 DEF Take
  <2>2. queue' \in Seq(Places \cup {None}) /\ Len(queue') = n - 1
    BY <2>1 DEF n
  <2> QED BY <1>0, <2>2
<1>5. CASE HangUp
  <2>1. queue' = <<>>
    BY <1>5 DEF HangUp
  <2>2. Len(<<>>) = 0 /\ <<>> \in Seq(Places \cup {None})
    OBVIOUS
  <2> QED BY <1>0, <2>1, <2>2
<1> QED BY <1>1, <1>2, <1>3, <1>4, <1>5

\* Every step keeps the fields.
LEMMA FieldsStep == ASSUME IInv, Fields, [Next]_vars PROVE Fields'
<1>1. previous \in Seq(Places) /\ screen \in Places /\ Shape
  BY DEF IInv, Path
<1>2. CASE UNCHANGED vars
  BY <1>2 DEF Fields, vars, menus, form, voice, sound
<1>3. CASE Press \/ Take \/ HangUp
  <2>1. queue' \in Seq(Places \cup {None}) /\ Len(queue') <= MaxQueue
    BY <1>1, <1>3, QueueKeepsLimit DEF Fields
  <2>2. UNCHANGED <<previous, removing, editing, prefix, recordStop, misheard>>
    BY <1>3 DEF Press, Take, HangUp, form, voice
  <2>3. worker' \in {"idle", "key", worker}
    BY <1>3 DEF Press, Take, HangUp
  <2>4. recordCancel' \in {recordCancel, FALSE} /\ playCancel' \in {playCancel, FALSE}
    BY <1>3 DEF Press, Take, HangUp, voice, sound
  <2> QED BY <2>1, <2>2, <2>3, <2>4 DEF Fields
<1>4. CASE Keys \/ Tasks
  <2>1. removing \in BOOLEAN
    BY DEF Fields
  <2>2. Walks /\ removing' \in BOOLEAN /\ Flags
    BY <1>1, <1>4, <2>1, KeysWalk, KeysFlags, TasksWalk, TasksFlags
  <2>3. Passes \/ Stays
    BY <1>4, KeysPass, TasksPass
  <2>4. queue' \in Seq(Places \cup {None}) /\ Len(queue') <= MaxQueue
    BY <1>1, <2>3, QueueKeepsLimit DEF Fields
  <2>5. Len(previous') <= HistoryLimit
    BY <1>1, <2>2, WalkKeepsLimit DEF Fields
  <2> QED BY <2>2, <2>4, <2>5 DEF Fields, Flags
<1> QED BY <1>2, <1>3, <1>4 DEF Next

\* Every variable has its type; the history and the queue of keys keep their limits
\* (transitionLocked cuts the history, the bridge's reader drops the oldest key), and
\* at most one recording is the current generation's.
THEOREM TypeCorrect == Spec => []TypeOK
<1>1. Init => TInv /\ Fields
  <2>1. ASSUME Init PROVE TInv
    <3>1. recordings = {} /\ players = {} /\ misheard = FALSE /\ worker = "idle"
      BY <2>1 DEF Init
    <3> QED BY <2>1, <3>1, MenusInit DEF TInv, Owned, Played, Ready, RecordingScreens
  <2>2. ASSUME Init PROVE Fields
    <3>1. previous = <<"pin">> /\ queue = <<>>
      BY <2>2 DEF Init
    <3>2. Len(previous) <= HistoryLimit
      BY <3>1, NavigationAssumption
    <3>3. queue \in Seq(Places \cup {None}) /\ Len(queue) <= MaxQueue
      BY <3>1, NavigationAssumption
    <3> QED BY <2>2, <3>2, <3>3 DEF Init, Fields
  <2> QED BY <2>1, <2>2
<1>2. ASSUME TInv /\ Fields, [Next]_vars PROVE (TInv /\ Fields)'
  <2>1. TInv'
    BY <1>2, TasksStep
  <2>2. Fields'
    BY <1>2, FieldsStep DEF TInv
  <2> QED BY <2>1, <2>2
<1>3. TInv /\ Fields => TypeOK
  <2> SUFFICES ASSUME TInv, Fields PROVE TypeOK
    OBVIOUS
  <2>1. /\ screen \in Places /\ previous \in Seq(Places)
        /\ {draft, asked.cancel, asked.remove} \subseteq BOOLEAN
        /\ confirm.field \in EditorScreens \cup {None} /\ confirm.blank \in BOOLEAN
        /\ recordings \subseteq TaskType /\ closed \in BOOLEAN
        /\ players \subseteq PlayerType
    BY DEF TInv, IInv, Path, Shape, Played
  <2>2. {draft, editing, prefix, asked.cancel, asked.remove, recordCancel, playCancel,
         closed, misheard, removing} \subseteq BOOLEAN
    BY <2>1 DEF Fields
  <2>3. Cardinality({t \in recordings : t.current}) <= 1
    <3> DEFINE current == {t \in recordings : t.current}
    <3>1. \A t, u \in current : t = u
      BY DEF TInv, Owned
    <3>2. CASE current = {}
      BY <3>2, FS_EmptySet
    <3>3. CASE current # {}
      <4>1. PICK t : t \in current
        BY <3>3
      <4>2. current = {t}
        BY <3>1, <4>1
      <4> HIDE DEF current
      <4>3. Cardinality(current) = 1
        BY <4>2, FS_Singleton
      <4> QED BY <4>3 DEF current
    <3> QED BY <3>2, <3>3
  <2>4. Places \cup {None} = Screens \cup {Nowhere, None}
    BY DEF Places
  <2> QED BY <2>1, <2>2, <2>3, <2>4 DEF TypeOK, Fields, Places, PlayerType
<1> QED BY <1>1, <1>2, <1>3, PTL DEF Spec
=============================================================================
