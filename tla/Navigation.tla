----------------------------- MODULE Navigation -----------------------------
(***************************************************************************)
(* The telephone menus of one signed-in call: the screen and its history   *)
(* (ivr/flow.go, ivr/spec.go, ivr/help.go, calls/navigation_state.go), the *)
(* key queue and its navigation stamps (calls/events.go), what each key    *)
(* does (calls/dispatch.go, navigation_handlers.go, composition.go,        *)
(* mail_handlers.go) and the tasks that run beside the menus: voice        *)
(* recordings and attachment playback.                                     *)
(*                                                                         *)
(* A digit is told apart from another only by what it leads to: pressing   *)
(* one is a choice among the moves of the screen, and pressing one that    *)
(* leads nowhere (an absent item, a failed query, a setting toggled) is    *)
(* NoEffect.  Which messages, contacts and folders exist is data and left  *)
(* open.  Handlers hold Service.mu around each change; the two that let    *)
(* tasks in between, starting a recording and starting a playback, are     *)
(* more than one action.                                                   *)
(***************************************************************************)
EXTENDS Naturals, Sequences, FiniteSets, SequencesExt

CONSTANTS
    Help,           \* help page |-> the page it is reached from and goes back to
    HistoryLimit,   \* ivr.DefaultHistoryLimit, 64
    MaxQueue,       \* callEventQueueSize, 32
    MaxRecordings,  \* bound: recording tasks alive
    MaxPlayers,     \* bound: playback tasks alive
    None

ASSUME NavigationAssumption ==
    /\ {HistoryLimit, MaxQueue} \subseteq Nat \ {0}
    /\ {MaxRecordings, MaxPlayers} \subseteq Nat

VARIABLES
    screen,         \* Flow.State
    previous,       \* Flow.Previous, the newest last
    queue,          \* keys waiting for the worker: the screen of a fresh stamp, or None
    worker,         \* what the call's event worker is doing
    draft,          \* is there a draft that was not yet sent, saved or discarded
    editing,        \* EditingDraft
    prefix,         \* FolderPrefix is not empty
    asked,          \* [cancel |-> PendingCancelConfirm, remove |-> PendingAttachmentRemove]
    confirm,        \* [field |-> ConfirmState, blank |-> ConfirmValue is empty]
    recordings,     \* recording tasks
    recordStop,     \* RecordStop: whose channel it is, "current", "old" or None
    recordCancel,   \* RecordCancel is set (it is always the current generation's)
    players,        \* playback tasks
    playCancel,     \* AttachmentCancel is set (to the newest sequence's)
    closed,
    misheard,       \* history: a recording entered a draft it was not meant for
    removing        \* history: a removal was asked for since the screen last changed

menus == <<screen, previous, queue, removing>>
form  == <<draft, editing, prefix, asked, confirm>>
voice == <<recordings, recordStop, recordCancel>>
sound == <<players, playCancel>>
vars  == <<menus, worker, form, voice, sound, closed, misheard>>

-----------------------------------------------------------------------------
(* Screens: ivr/spec.go. *)

Nowhere == ""
EditorScreens == {"compose", "recipient_input", "subject", "body", "contact_name"}
RecordingScreens == {"recording", "recording_subject", "audio_recording"}

\* StateSpec.Back.
MenuBack ==
    [pin |-> "closed", accounts |-> "main", account_menu |-> "accounts",
     draft_menu |-> "account_menu", draft_list |-> "draft_menu", draft_edit |-> "review",
     recipient_edit |-> "draft_edit", attachment_edit |-> "draft_edit",
     account_settings |-> "account_menu", account_alert_folders |-> "account_settings",
     folders |-> "account_menu", folder_action |-> "folders",
     read |-> "list", attachment_menu |-> "read", attachment_playback |-> "read",
     move_menu |-> "read", more_options |-> "read", contact_name |-> "more_options",
     contact_confirm |-> "more_options", field_confirm |-> "compose",
     confirm_delete |-> "list", compose |-> "main", recipient_pick |-> "main",
     contact_pick |-> "recipient_pick", recipient_menu |-> "compose",
     recipient_input |-> "recipient_menu", subject_method |-> "recipient_menu",
     subject |-> "compose", body_method |-> "subject", body |-> "subject",
     review |-> "body", forward_options |-> "read", audio_recording |-> "review",
     recording |-> "body_method", recording_subject |-> "subject_method",
     settings |-> "main", contacts |-> "settings", info |-> "main"]
Back == [s \in DOMAIN Help \cup DOMAIN MenuBack |->
            IF s \in DOMAIN Help THEN Help[s] ELSE MenuBack[s]]
\* The screen a way back without history leads to.  list has no Back: its handler names
\* the folders while the call is in one account (ActiveAccount), else main.
Returns(s) == IF s = "list" THEN {"main", "folders"} ELSE {Back[s]}
Screens == DOMAIN Back \cup {"main", "closed", "list"}

\* Help pages form a tree under the information menu and are no menus themselves.
ASSUME HelpAssumption ==
    /\ \A page \in DOMAIN Help : Help[page] \in DOMAIN Help \cup {"info"}
    /\ DOMAIN Help \cap (DOMAIN MenuBack \cup {"main", "closed", "list", Nowhere}) = {}

\* The screens of an unfinished draft.
DraftScreens == {"recipient_pick", "contact_pick", "compose", "recipient_menu",
    "recipient_input", "subject_method", "subject", "body_method", "body", "review",
    "draft_edit", "recipient_edit", "attachment_edit"} \cup RecordingScreens

-----------------------------------------------------------------------------
(* Moves: ivr/flow.go and navigation_state.go. *)

\* navigationGeneration++: the stamps of waiting keys are stale from here on.
StampsPass == queue' = [i \in DOMAIN queue |-> None] /\ removing' = FALSE

\* Mutant: a history that is not cut.
Uncut(stack) == stack
\* The history keeps its newest HistoryLimit screens.
Newest(stack) == IF Len(stack) > HistoryLimit THEN Tail(stack) ELSE stack

\* Mutant: a transition that keeps the navigation generation.
EnterUnstamped(next) ==
    /\ screen' = next
    /\ previous' = IF next = screen THEN previous ELSE Newest(Append(previous, screen))
    /\ UNCHANGED <<queue, removing>>

\* transitionLocked and Session.Enter.
Enter(next) ==
    IF next = screen THEN UNCHANGED menus
    ELSE /\ screen' = next
         /\ previous' = Newest(Append(previous, screen))
         /\ StampsPass

\* backByContractLocked.
BackByContract == screen' \in Returns(screen) /\ StampsPass /\ UNCHANGED previous

\* backUsingFlowLocked.
BackUsingFlow ==
    IF previous = <<>> THEN BackByContract
    ELSE screen' = Last(previous) /\ previous' = Front(previous) /\ StampsPass

Init ==
    /\ screen = "main" /\ previous = <<"pin">> /\ queue = <<>> /\ removing = FALSE
    /\ worker = "idle" /\ closed = FALSE /\ misheard = FALSE
    /\ draft = FALSE /\ editing = FALSE /\ prefix = FALSE
    /\ asked = [cancel |-> FALSE, remove |-> FALSE]
    /\ confirm = [field |-> None, blank |-> TRUE]
    /\ recordings = {} /\ recordStop = None /\ recordCancel = FALSE
    /\ players = {} /\ playCancel = FALSE

-----------------------------------------------------------------------------
(* Keys: the bridge reader stamps a key and queues it, dropping the oldest  *)
(* when the queue is full; the worker drops a key whose stamp is stale.     *)

Press ==
    /\ ~closed
    /\ LET waiting == IF Len(queue) = MaxQueue THEN Tail(queue) ELSE queue
       IN  queue' = Append(waiting, screen)
    /\ UNCHANGED <<screen, previous, removing, worker, form, voice, sound, closed, misheard>>

Take ==
    /\ worker = "idle" /\ ~closed /\ queue # <<>>
    /\ worker' = IF Head(queue) = None THEN "idle" ELSE "key"
    /\ queue' = Tail(queue)
    /\ UNCHANGED <<screen, previous, removing, form, voice, sound, closed, misheard>>

\* A handler runs: handleDTMF and handleMenu return at once on a closed call.
Handling == worker = "key" /\ ~closed
Done == worker' = "idle" /\ UNCHANGED <<closed, misheard>>
On(screens) == Handling /\ screen \in screens

\* A key without a meaning here, an item that is not there, a query that failed,
\* a page turned, a setting toggled; star repeats the prompt.
NoEffect == Handling /\ Done /\ UNCHANGED <<menus, form, voice, sound>>

-----------------------------------------------------------------------------
(* Moves that only change the screen. *)

MainMoves == {<<"main", "accounts">>, <<"main", "settings">>, <<"main", "info">>,
    <<"accounts", "list">>, <<"accounts", "account_menu">>}
HelpMoves == {<<Help[page], page>> : page \in DOMAIN Help}
AccountMoves == {<<"account_menu", "draft_menu">>,
    <<"account_menu", "account_settings">>, <<"draft_menu", "draft_list">>}
AlertFolderMoves == {<<"account_settings", "account_alert_folders">>}
FolderMoves == {<<"folders", "list">>, <<"folders", "folder_action">>}
ListenMoves == {<<"folder_action", "list">>}
SettingsMoves == {<<"settings", "contacts">>}
RecipientMoves == {<<"recipient_pick", "compose">>, <<"recipient_pick", "contact_pick">>,
    <<"contact_pick", "recipient_menu">>}
FieldMoves == {<<"recipient_menu", "recipient_input">>, <<"recipient_menu", "subject_method">>,
    <<"subject_method", "subject">>, <<"body_method", "body">>}
EditMoves == {<<"draft_edit", "recipient_edit">>, <<"recipient_edit", "draft_edit">>}
ReadMoves == {<<"list", "read">>, <<"list", "confirm_delete">>, <<"read", "forward_options">>,
    <<"read", "confirm_delete">>, <<"read", "more_options">>, <<"read", "list">>,
    <<"confirm_delete", "list">>, <<"contact_confirm", "more_options">>}
AttachmentMoves == {<<"read", "attachment_menu">>, <<"attachment_menu", "read">>}
MoveMenuMoves == {<<"read", "move_menu">>}
MovedMoves == {<<"move_menu", "read">>}
ContactMoves == {<<"more_options", "contact_name">>}

Moves == MainMoves \cup HelpMoves \cup AccountMoves \cup AlertFolderMoves \cup FolderMoves
    \cup ListenMoves \cup SettingsMoves \cup RecipientMoves \cup FieldMoves \cup EditMoves
    \cup ReadMoves \cup AttachmentMoves \cup MoveMenuMoves \cup MovedMoves \cup ContactMoves

Choose ==
    /\ Handling
    /\ \E move \in Moves : move[1] = screen /\ Enter(move[2])
    /\ Done /\ UNCHANGED <<form, voice, sound>>

\* openAccountFolders starts at the root; folder_action 2 opens nested folders.
OpenFolders ==
    /\ On({"account_menu", "folder_action"})
    /\ Enter("folders")
    /\ prefix' = (screen = "folder_action")
    /\ Done /\ UNCHANGED <<draft, editing, asked, confirm, voice, sound>>

-----------------------------------------------------------------------------
(* Drafts. *)

\* A recording that is still held belongs to the draft that is replaced.
Orphaned(tasks) == {[t EXCEPT !.mine = FALSE] : t \in tasks}
NewDraft ==
    /\ draft' = TRUE
    /\ recordings' = Orphaned(recordings)
    /\ UNCHANGED <<recordStop, recordCancel>>

\* startComposeLocked and startComposeTo.
ComposeMoves == {<<"draft_menu", "recipient_pick">>, <<"draft_menu", "compose">>,
    <<"list", "subject_method">>, <<"list", "compose">>, <<"read", "subject_method">>,
    <<"forward_options", "compose">>, <<"contacts", "subject_method">>}
StartCompose ==
    /\ Handling
    /\ \E move \in ComposeMoves : move[1] = screen /\ Enter(move[2])
    /\ NewDraft /\ editing' = FALSE
    /\ Done /\ UNCHANGED <<prefix, asked, confirm, sound>>

\* resumeDraft goes to the first thing that is missing.
ResumeDraft ==
    /\ On({"draft_list"})
    /\ \E next \in {"compose", "subject_method", "body_method", "review"} : Enter(next)
    /\ NewDraft
    /\ Done /\ UNCHANGED <<editing, prefix, asked, confirm, sound>>

\* draft_edit 2 and 3, recipient_edit 1 and 4.
EditingMoves == {<<"draft_edit", "subject_method">>, <<"draft_edit", "body_method">>,
    <<"recipient_edit", "compose">>, <<"recipient_edit", "recipient_menu">>}
EditField ==
    /\ Handling
    /\ \E move \in EditingMoves : move[1] = screen /\ Enter(move[2])
    /\ editing' = TRUE
    /\ Done /\ UNCHANGED <<draft, prefix, asked, confirm, voice, sound>>

\* handleDraftEdit 4 opens the attachments; removing one is asked for twice.
EditAttachments ==
    /\ On({"draft_edit"})
    /\ asked' = [asked EXCEPT !.remove = FALSE]
    /\ Enter("attachment_edit")
    /\ Done /\ UNCHANGED <<draft, editing, prefix, confirm, voice, sound>>
RemoveAttachment ==
    /\ On({"attachment_edit"})
    /\ asked' = [asked EXCEPT !.remove = ~@]
    /\ removing' = ~asked.remove
    /\ Done /\ UNCHANGED <<screen, previous, queue, draft, editing, prefix, confirm, voice, sound>>

\* handleCompose: pound finishes an entry; an address or a name is not blank.
FinishField ==
    /\ On(EditorScreens)
    /\ \E blank \in BOOLEAN :
          /\ blank => screen \in {"subject", "body"}
          /\ confirm' = [field |-> screen, blank |-> blank]
    /\ Enter("field_confirm")
    /\ Done /\ UNCHANGED <<draft, editing, prefix, asked, voice, sound>>

Unconfirmed == [field |-> None, blank |-> TRUE]

\* handleFieldConfirmation: 2 and 3 return to the editor, 1 accepts; a blank
\* value is neither accepted nor returned.
ReenterField ==
    /\ On({"field_confirm"}) /\ confirm.field # None /\ ~confirm.blank
    /\ Enter(confirm.field)
    /\ confirm' = Unconfirmed
    /\ Done /\ UNCHANGED <<draft, editing, prefix, asked, voice, sound>>

Accepted(field) ==
    CASE field \in {"compose", "recipient_input"} -> "recipient_menu"
      [] field = "subject" -> IF editing THEN "review" ELSE "body_method"
      [] field = "body" -> "review"
      [] field = "contact_name" -> "contact_confirm"

AcceptField ==
    /\ On({"field_confirm"}) /\ confirm.field # None /\ ~confirm.blank
    /\ Enter(Accepted(confirm.field))
    /\ editing' = (editing /\ confirm.field \notin {"subject", "body"})
    /\ confirm' = Unconfirmed
    /\ Done /\ UNCHANGED <<draft, prefix, asked, voice, sound>>

-----------------------------------------------------------------------------
(* Review. *)

\* Mutant: 4 leaves the review with the question still open.
KeepsAsking ==
    /\ On({"review"})
    /\ Enter("draft_edit")
    /\ Done /\ UNCHANGED <<form, voice, sound>>
\* Every key but 3 withdraws a cancellation that was asked for.
ReviewEdit ==
    /\ On({"review"})
    /\ Enter("draft_edit")
    /\ asked' = [asked EXCEPT !.cancel = FALSE]
    /\ Done /\ UNCHANGED <<draft, editing, prefix, confirm, voice, sound>>

\* sendDraft and saveDraft: on success the call returns to the main menu.
SendOrSave(ok) ==
    /\ On({"review"})
    /\ IF ok THEN Enter("main") ELSE UNCHANGED menus
    /\ draft' = (draft /\ ~ok)
    /\ asked' = [asked EXCEPT !.cancel = FALSE]
    /\ Done /\ UNCHANGED <<editing, prefix, confirm, voice, sound>>

\* handleReviewCancel: asked first, then discarded.
CancelDraft ==
    /\ On({"review"})
    /\ IF asked.cancel THEN Enter("main") ELSE UNCHANGED menus
    /\ draft' = (draft /\ ~asked.cancel)
    /\ asked' = [asked EXCEPT !.cancel = ~@]
    /\ Done /\ UNCHANGED <<editing, prefix, confirm, voice, sound>>

-----------------------------------------------------------------------------
(* Pound. *)

\* Screens pound leaves for the one before.
\* Mutant: pound pops the main menu too.
PopsFromMain == {"main", "accounts", "list", "review"}
Pops == {"accounts", "contacts", "settings", "account_menu", "draft_menu", "draft_list",
    "recipient_edit", "attachment_edit", "list", "folder_action", "read", "confirm_delete",
    "move_menu", "account_settings", "account_alert_folders", "forward_options",
    "more_options", "contact_confirm"}

PoundBack ==
    /\ Handling
    /\ \/ screen \in Pops
       \/ screen = "folders" /\ ~prefix
       \/ screen = "review" /\ ~asked.cancel
    /\ BackUsingFlow
    /\ Done /\ UNCHANGED <<form, voice, sound>>

\* folders: pound first leaves the nested folders.  review: it keeps the message.
PoundStays ==
    /\ Handling
    /\ \/ screen = "folders" /\ prefix /\ prefix' = FALSE /\ UNCHANGED asked
       \/ /\ screen = "review" /\ asked.cancel
          /\ asked' = [asked EXCEPT !.cancel = FALSE] /\ UNCHANGED prefix
    /\ Done /\ UNCHANGED <<menus, draft, editing, confirm, voice, sound>>

\* Help goes back up its tree and leaves the history alone.
PoundHelp ==
    /\ On(DOMAIN Help \cup {"info"})
    /\ BackByContract
    /\ Done /\ UNCHANGED <<form, voice, sound>>

PoundDraftEdit ==
    /\ On({"draft_edit"})
    /\ BackUsingFlow
    /\ editing' = FALSE
    /\ Done /\ UNCHANGED <<draft, prefix, asked, confirm, voice, sound>>

\* These go forward to a fixed screen, which the history remembers.
PoundForm ==
    /\ On({"subject_method", "body_method", "recipient_menu"})
    /\ Enter(CASE editing -> "draft_edit"
               [] screen = "subject_method" -> "recipient_menu"
               [] screen = "body_method" -> "subject"
               [] screen = "recipient_menu" -> "compose")
    /\ Done /\ UNCHANGED <<form, voice, sound>>

\* field_confirm: back to the editor of ConfirmState, whatever that is.
PoundConfirm ==
    /\ On({"field_confirm"})
    /\ Enter(IF confirm.field = None THEN Nowhere ELSE confirm.field)
    /\ confirm' = Unconfirmed
    /\ Done /\ UNCHANGED <<draft, editing, prefix, asked, voice, sound>>

-----------------------------------------------------------------------------
(* Recordings. *)

\* RecordGeneration++ and RecordCancel(): no task is current any more, and the
\* one that was is told to stop.
Outdated(tasks) == {[t EXCEPT !.current = FALSE] : t \in tasks}
Canceled(tasks) == {IF recordCancel /\ t.current
                    THEN [t EXCEPT !.canceled = TRUE, !.capturing = FALSE] ELSE t : t \in tasks}
OldStop == IF recordStop = "current" THEN "old" ELSE recordStop

\* Mutant: leaving a recording without RecordCancel().
KeepRecording(stop) ==
    /\ recordings' = Outdated(recordings)
    /\ recordCancel' = FALSE
    /\ recordStop' = stop
\* RecordStop is cleared, but kept by pound on an audio attachment.
DropRecording(stop) ==
    /\ recordings' = Outdated(Canceled(recordings))
    /\ recordCancel' = FALSE
    /\ recordStop' = stop

\* Pound, or star, on a recording screen.
AbandonRecording ==
    /\ On(RecordingScreens)
    /\ \/ DropRecording(None)
       \/ screen = "audio_recording" /\ DropRecording(OldStop)
    /\ BackUsingFlow
    /\ Done /\ UNCHANGED <<form, sound>>

\* 0 closes RecordStop: the task that waits on it stops capturing.
FinishRecording ==
    /\ On(RecordingScreens)
    /\ recordStop # None
    /\ recordStop' = None
    /\ recordings' = {IF t.current /\ recordStop = "current" THEN [t EXCEPT !.capturing = FALSE]
                                                             ELSE t : t \in recordings}
    /\ Done /\ UNCHANGED <<menus, form, recordCancel, sound>>

RecordingFor(s) ==
    CASE s = "subject_method" -> "recording_subject"
      [] s = "body_method" -> "recording"
      [] OTHER -> "audio_recording"
\* Where a recording that yields nothing returns to.
Fallback(kind) ==
    CASE kind = "recording_subject" -> "subject_method"
      [] kind = "recording" -> "body_method"
      [] OTHER -> "review"

\* startVoiceRecording, startSubjectVoice, startAudioAttachment, up to the spoken
\* instructions.  The worker is busy until the task is started.
StartRecording ==
    /\ On({"subject_method", "body_method", "review", "attachment_edit"})
    /\ LET kind == RecordingFor(screen) IN Enter(kind) /\ worker' = kind
    /\ recordings' = Outdated(recordings)
    /\ recordStop' = "current" /\ recordCancel' = TRUE
    /\ asked' = [cancel |-> asked.cancel /\ screen # "review",
                 remove |-> asked.remove /\ screen # "attachment_edit"]
    /\ UNCHANGED <<draft, editing, prefix, confirm, sound, closed, misheard>>

\* The instructions are over: the task starts, or the receive file is not there.
BeginCapture ==
    /\ worker \in RecordingScreens
    /\ Cardinality(recordings) < MaxRecordings
    /\ recordings' = recordings \cup
          {[kind |-> worker, current |-> TRUE, canceled |-> closed, capturing |-> ~closed,
            mine |-> TRUE]}
    /\ worker' = "idle"
    /\ UNCHANGED <<menus, form, recordStop, recordCancel, sound, closed, misheard>>
CaptureFails ==
    /\ worker \in RecordingScreens
    /\ Enter(Fallback(worker))
    /\ recordStop' = None /\ recordCancel' = FALSE
    /\ worker' = "idle"
    /\ UNCHANGED <<form, recordings, sound, closed, misheard>>

\* The window is over: conversion and transcription begin.
WindowEnds(t) ==
    /\ t \in recordings /\ t.capturing
    /\ recordings' = (recordings \ {t}) \cup {[t EXCEPT !.capturing = FALSE]}
    /\ UNCHANGED <<menus, worker, form, recordStop, recordCancel, sound, closed, misheard>>

\* Mutant: a task that does not compare its generation.
ActiveOnScreen(t) == screen = t.kind /\ ~closed
Active(t) == t.current /\ screen = t.kind /\ ~closed

\* The task ends with speech or with nothing (blank, failed, canceled).
RecordingEnds(t) ==
    /\ t \in recordings /\ ~t.capturing
    /\ recordings' = recordings \ {t}
    /\ recordStop' = IF t.current THEN None ELSE recordStop
    /\ recordCancel' = (recordCancel /\ ~t.current)
    /\ \E spoken \in BOOLEAN :
          LET lands == Active(t) /\ spoken IN
          /\ IF ~Active(t) THEN UNCHANGED menus
             ELSE IF ~spoken \/ t.kind = "audio_recording" THEN Enter(Fallback(t.kind))
             ELSE IF t.kind = "recording" \/ editing THEN Enter("review")
             ELSE Enter("body_method")
          /\ editing' = (editing /\ ~(lands /\ t.kind # "audio_recording"))
          /\ misheard' = (misheard \/ (lands /\ (t.canceled \/ ~t.mine)))
    /\ UNCHANGED <<worker, draft, prefix, asked, confirm, sound, closed>>

-----------------------------------------------------------------------------
(* Attachment playback. *)

\* attachment_menu: the task starts beside the menu.
StartPlayback ==
    /\ On({"attachment_menu"})
    /\ Cardinality(players) < MaxPlayers
    /\ Enter("attachment_playback")
    /\ players' = players \cup {[playing |-> FALSE, newest |-> FALSE, canceled |-> FALSE]}
    /\ Done /\ UNCHANGED <<form, voice, playCancel>>

\* playAttachment, once its file is written: only while the screen is still there.
PlaybackStarts(p) ==
    /\ p \in players /\ ~p.playing
    /\ IF closed \/ screen # "attachment_playback"
       THEN players' = players \ {p} /\ UNCHANGED playCancel
       ELSE /\ players' = {[q EXCEPT !.newest = FALSE] : q \in players \ {p}}
                             \cup {[p EXCEPT !.playing = TRUE, !.newest = TRUE]}
            /\ playCancel' = TRUE
    /\ UNCHANGED <<menus, worker, form, voice, closed, misheard>>
\* The attachment cannot be prepared.
PlaybackFails(p) ==
    /\ p \in players /\ ~p.playing
    /\ players' = players \ {p}
    /\ UNCHANGED <<menus, worker, form, voice, playCancel, closed, misheard>>

PlaybackEnds(p) ==
    /\ p \in players /\ p.playing
    /\ players' = players \ {p}
    /\ playCancel' = (playCancel /\ ~p.newest)
    /\ IF p.newest /\ screen = "attachment_playback" /\ ~closed THEN Enter("read")
                                                                ELSE UNCHANGED menus
    /\ UNCHANGED <<worker, form, voice, closed, misheard>>

Silenced(tasks) == {[p EXCEPT !.canceled = @ \/ (playCancel /\ p.playing /\ p.newest)] : p \in tasks}

\* Any key stops the playback; pound pops, the others return to the message.
StopPlayback ==
    /\ On({"attachment_playback", "attachment_menu"})
    /\ players' = Silenced(players) /\ playCancel' = FALSE
    /\ \/ screen = "attachment_playback" /\ Enter("read")
       \/ BackUsingFlow
    /\ Done /\ UNCHANGED <<form, voice>>

-----------------------------------------------------------------------------
\* closeCall: everything that runs under the call's event context is canceled.
HangUp ==
    /\ ~closed
    /\ closed' = TRUE
    /\ players' = {[p EXCEPT !.canceled = TRUE] : p \in players} /\ playCancel' = FALSE
    /\ recordings' = {[t EXCEPT !.canceled = TRUE, !.capturing = FALSE] : t \in recordings} /\ recordCancel' = FALSE
    /\ queue' = <<>>
    /\ UNCHANGED <<screen, previous, removing, worker, form, recordStop, misheard>>

Keys ==
    \/ NoEffect \/ Choose \/ OpenFolders \/ StartCompose \/ ResumeDraft \/ EditField
    \/ EditAttachments \/ RemoveAttachment \/ FinishField \/ ReenterField \/ AcceptField
    \/ ReviewEdit \/ (\E ok \in BOOLEAN : SendOrSave(ok)) \/ CancelDraft
    \/ PoundBack \/ PoundStays \/ PoundHelp \/ PoundDraftEdit \/ PoundForm \/ PoundConfirm
    \/ AbandonRecording \/ FinishRecording \/ StartRecording \/ StartPlayback \/ StopPlayback
Tasks ==
    \/ BeginCapture \/ CaptureFails
    \/ \E t \in recordings : WindowEnds(t) \/ RecordingEnds(t)
    \/ \E p \in players : PlaybackStarts(p) \/ PlaybackFails(p) \/ PlaybackEnds(p)

Next == Press \/ Take \/ Keys \/ Tasks \/ HangUp
Spec == Init /\ [][Next]_vars

-----------------------------------------------------------------------------
(* Properties. *)

TaskType == [kind : RecordingScreens, current : BOOLEAN, canceled : BOOLEAN,
             capturing : BOOLEAN, mine : BOOLEAN]

\* Every variable has its type; at most one recording is current.
TypeOK ==
    /\ screen \in Screens \cup {Nowhere} /\ previous \in Seq(Screens \cup {Nowhere})
    /\ Len(previous) <= HistoryLimit
    /\ queue \in Seq(Screens \cup {Nowhere, None}) /\ Len(queue) <= MaxQueue
    /\ worker \in {"idle", "key"} \cup RecordingScreens
    /\ {draft, editing, prefix, asked.cancel, asked.remove, recordCancel, playCancel,
        closed, misheard, removing} \subseteq BOOLEAN
    /\ confirm.field \in EditorScreens \cup {None} /\ confirm.blank \in BOOLEAN
    /\ recordings \subseteq TaskType
    /\ Cardinality({t \in recordings : t.current}) <= 1
    /\ recordStop \in {"current", "old", None}
    /\ players \subseteq [playing : BOOLEAN, newest : BOOLEAN, canceled : BOOLEAN]

\* Backing out never leads behind the main menu: not to the PIN prompt of a call
\* that signed in, and not to the form of a message that was sent, saved or
\* discarded (transitionLocked pushes, handleMenu pops every screen but main).  And
\* PendingCancelConfirm does not outlive the review it was asked at, so that no
\* single press of 3 discards a message after a way round through other screens.
BackStaysInside ==
    /\ screen \notin {"pin", "closed"}
    /\ screen \in DraftScreens => draft
    /\ asked.cancel => screen = "review"

\* A key that waits with a current stamp acts on the screen it was pressed at:
\* every change of screen, by a key or by a task, makes the stamps stale
\* (navigationVersionIsCurrent).
KeyMeansItsScreen == \A i \in DOMAIN queue : queue[i] # None => queue[i] = screen

\* The caller is recorded, or an attachment played, only on the screen that says
\* so and with a key that stops it: the task's RecordCancel (and RecordStop while
\* it captures) or AttachmentCancel is registered, whatever other tasks end.
HeldTasks ==
    /\ \A t \in recordings : ~t.canceled =>
          /\ t.current /\ t.mine /\ screen = t.kind /\ recordCancel
          /\ t.capturing => recordStop = "current"
    /\ \A p \in players : p.playing /\ p.newest /\ ~p.canceled =>
          screen = "attachment_playback" /\ playCancel

\* Speech enters the draft it was spoken for, and never after the caller gave the
\* recording up, even when the transcription was already done.
WantedSpeech == ~misheard

\* What help_attachment_record says of the screen attachment_edit, "Removing asks
\* for a second press of 2": the pending removal was asked for on this visit.
\* The code does not keep this: see section 6 of the README.
RemovalAskedHere == asked.remove /\ screen = "attachment_edit" => removing

\* A caller is always on a screen of the menu specification, from which docs/IVR.md
\* says that pound backs out one level.
\* The code does not keep this: see section 6 of the README.
AlwaysOnAScreen == screen \in Screens

(* CallTasks: a recording or playback belongs to the call that started it and
   its end reaches the caller who still wants it. *)
CallTasks == HeldTasks /\ WantedSpeech
=============================================================================
