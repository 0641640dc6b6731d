--------------------------- MODULE OutboundCalls ---------------------------
(***************************************************************************)
(* Outgoing calls: from calls.Service.Dial over the bridge to the baresip  *)
(* shim and back, until the Done channel of the request has its value.     *)
(*                                                                         *)
(* The actors are the goroutines that call Dial, the expiry timer of a     *)
(* pending request, the bridge reader (runConnection), one event worker    *)
(* per call, the task that plays the announcement, the answer timer of an  *)
(* outgoing session, InvalidateUserSessions, BeginSIPApply, Drain, and the *)
(* shim.  An action is one critical section of Service.mu with the local   *)
(* steps around it.                                                        *)
(*                                                                         *)
(* A request makes at most one native call, so the request also names the  *)
(* call.  Events of different calls never touch the same session, so one   *)
(* event queue per call loses no behaviour.  Commands are a set: a second  *)
(* hangup of a call that is gone changes nothing.  The outcome callback    *)
(* only logs and is left out; so are ringing events, which only call it.   *)
(***************************************************************************)
EXTENDS Naturals, Sequences, FiniteSets

CONSTANTS
    Requests,   \* DialRequest values
    Users,
    UserOf,     \* UserOf[r]: DialRequest.UserID
    MaxBreaks,  \* bound: how often the bridge connection is lost
    Faults      \* which of "bridge", "timer", "revoke", "apply", "shutdown", "native"

ASSUME OutboundAssumption ==
    /\ IsFiniteSet(Requests)
    /\ UserOf \in [Requests -> Users]
    /\ MaxBreaks \in Nat
    /\ Faults \subseteq {"bridge", "timer", "revoke", "apply", "shutdown", "native"}

VARIABLES
    conn,       \* the bridge connection of runConnection, and Service.client
    dial,       \* where Service.Dial is
    stale,      \* Dial calls whose client belongs to an earlier connection
    pending,    \* keys of Service.pending
    expiry,     \* requests with a running expirePending timer
    cmds,       \* commands written and not yet executed by the shim
    native,     \* the call in baresip
    events,     \* events of a call between the shim and the bridge reader
    queue,      \* callEventWorker.queue of a call
    job,        \* the event the worker of a call handles
    sessions,   \* keys of Service.sessions
    owner,      \* sessions whose AlertDone is not nil
    player,     \* where playOutgoingAlert is
    stopped,    \* sessions whose event or playback context is cancelled
    answerTimer,\* the callTimeout task of startOutgoing
    heard,      \* history: calls that played the whole announcement
    done,       \* the value on the Done channel
    sent,       \* history: sends on the Done channel, up to 2
    ctxDone,    \* the worker context the Dial contexts derive from is cancelled
    tasksClosed,
    shuttingDown,
    drain,      \* where Drain is
    hangups,    \* sessions Drain still has to hang up
    applying,   \* sipApplying
    breaks      \* how often the connection was lost

dialVars == <<dial, stale, pending, expiry>>
shimVars == <<cmds, native, events>>
workVars == <<queue, job>>
sessVars == <<sessions, owner, player, stopped, answerTimer, heard>>
doneVars == <<done, sent>>
downVars == <<ctxDone, tasksClosed, shuttingDown, drain, hangups>>
vars == <<conn, dialVars, shimVars, workVars, sessVars, doneVars, downVars,
          applying, breaks>>

Conn    == {"up", "closing", "down"}
DialPC  == {"idle", "checked", "registered", "writing", "accepted", "refused"}
Native  == {"none", "ringing", "talking", "gone"}
Event   == {"outgoing", "established", "closed", "dial_error", "call_error"}
Job     == {"none", "outgoing", "established"}
Player  == {"none", "spawned", "announce", "playing", "played", "ended",
            "hangup", "over"}
Timer   == {"off", "armed", "fire"}
DrainPC == {"none", "tasks", "hangups", "wait", "over"}

Init ==
    /\ conn = "up" /\ breaks = 0 /\ applying = FALSE
    /\ dial = [r \in Requests |-> "idle"]
    /\ stale = {} /\ pending = {} /\ expiry = {}
    /\ cmds = {}
    /\ native = [r \in Requests |-> "none"]
    /\ events = [r \in Requests |-> <<>>]
    /\ queue = [r \in Requests |-> <<>>]
    /\ job = [r \in Requests |-> "none"]
    /\ sessions = {} /\ owner = {} /\ stopped = {} /\ heard = {}
    /\ player = [r \in Requests |-> "none"]
    /\ answerTimer = [r \in Requests |-> "off"]
    /\ done = [r \in Requests |-> "none"]
    /\ sent = [r \in Requests |-> 0]
    /\ ctxDone = FALSE /\ tasksClosed = FALSE /\ shuttingDown = FALSE
    /\ drain = "none" /\ hangups = {}

(***************************************************************************)
(* signalAlert, sendBridge and closeCall.                                  *)
(***************************************************************************)

\* Done has room for one value; signalAlert drops a second one.
Signal(some, value) ==
    /\ done' = [r \in Requests |->
                  IF r \in some /\ done[r] = "none" THEN value ELSE done[r]]
    /\ sent' = [r \in Requests |->
                  IF r \in some /\ sent[r] < 2 THEN sent[r] + 1 ELSE sent[r]]

\* sendBridge: without a connection the command is not sent.
Hangup(some) ==
    cmds' = IF conn = "up" THEN cmds \cup ({"hangup"} \X some) ELSE cmds

Active(r) == native[r] \in {"ringing", "talking"}

\* The state of a session is "announce" from the first step of the player on.
Announcing(r) == player[r] \notin {"none", "spawned"}

\* Mutant: the close of any answered alert call counts as announced.
AnnouncedOnceAnswered(r) == player[r] # "none"

\* stateLocked(sess) == "announce" && sess.mediaPlays > 0
Announced(r) == player[r] \in {"playing", "played"}

\* Mutant: closeCall leaves AlertDone in the session.
CloseCallKeepsDone(r) ==
    /\ sessions' = sessions \ {r}
    /\ stopped' = IF r \in sessions THEN stopped \cup {r} ELSE stopped
    /\ Signal({r} \cap sessions \cap owner, IF Announced(r) THEN "true" ELSE "false")
    /\ UNCHANGED <<owner, player, answerTimer, heard>>

CloseCall(r) ==
    /\ sessions' = sessions \ {r}
    /\ owner' = IF r \in sessions THEN owner \ {r} ELSE owner
    /\ stopped' = IF r \in sessions THEN stopped \cup {r} ELSE stopped
    /\ Signal({r} \cap sessions \cap owner, IF Announced(r) THEN "true" ELSE "false")
    /\ UNCHANGED <<player, answerTimer, heard>>

(***************************************************************************)
(* Service.Dial                                                            *)
(***************************************************************************)

DialCheck(r) ==
    /\ dial[r] = "idle"
    /\ dial' = [dial EXCEPT ![r] = IF conn = "up" /\ ~shuttingDown /\ ~applying
                                   THEN "checked" ELSE "refused"]
    /\ UNCHANGED <<conn, stale, pending, expiry, shimVars, workVars, sessVars,
                   doneVars, downVars, applying, breaks>>

DialRegister(r) ==
    /\ dial[r] = "checked"
    /\ dial' = [dial EXCEPT ![r] = "registered"]
    /\ pending' = pending \cup {r}
    /\ UNCHANGED <<conn, stale, expiry, shimVars, workVars, sessVars, doneVars,
                   downVars, applying, breaks>>

\* Mutant: the context is not looked at before the write.
DialArmUnchecked(r) ==
    /\ dial[r] = "registered"
    /\ expiry' = IF tasksClosed THEN expiry ELSE expiry \cup {r}
    /\ dial' = [dial EXCEPT ![r] = "writing"]
    /\ UNCHANGED <<conn, stale, pending, shimVars, workVars, sessVars, doneVars,
                   downVars, applying, breaks>>

\* startDelayedTask, then the context checks of SendContext.
DialArm(r) ==
    /\ dial[r] = "registered"
    /\ IF ctxDone
       THEN /\ dial' = [dial EXCEPT ![r] = "refused"]
            /\ pending' = pending \ {r}
            /\ UNCHANGED expiry
       ELSE /\ dial' = [dial EXCEPT ![r] = "writing"]
            /\ expiry' = IF tasksClosed THEN expiry ELSE expiry \cup {r}
            /\ UNCHANGED pending
    /\ UNCHANGED <<conn, stale, shimVars, workVars, sessVars, doneVars, downVars,
                   applying, breaks>>

\* A client of an earlier connection can still write before it is closed.
DialWrite(r) ==
    /\ dial[r] = "writing"
    /\ conn = IF r \in stale THEN "closing" ELSE "up"
    /\ dial' = [dial EXCEPT ![r] = "accepted"]
    /\ cmds' = cmds \cup {<<"dial", r>>}
    /\ UNCHANGED <<conn, stale, pending, expiry, native, events, workVars, sessVars,
                   doneVars, downVars, applying, breaks>>

DialWriteFails(r) ==
    /\ dial[r] = "writing"
    /\ r \in stale \/ conn # "up" \/ "bridge" \in Faults
    /\ dial' = [dial EXCEPT ![r] = "refused"]
    /\ pending' = pending \ {r}
    /\ expiry' = expiry \ {r}
    /\ UNCHANGED <<conn, stale, shimVars, workVars, sessVars, doneVars, downVars,
                   applying, breaks>>

\* Mutant: failPending does not look whether the request is still pending.
FailPendingAlways(r) == pending' = pending \ {r} /\ Signal({r}, "false")

FailPending(r) == pending' = pending \ {r} /\ Signal({r} \cap pending, "false")

\* expirePending after callTimeout.
Expire(r) ==
    /\ "timer" \in Faults
    /\ r \in expiry
    /\ dial[r] # "writing"
    /\ expiry' = expiry \ {r}
    /\ FailPending(r)
    /\ UNCHANGED <<conn, dial, stale, shimVars, workVars, sessVars, downVars,
                   applying, breaks>>

(***************************************************************************)
(* The shim: execute_command, call_event_handler and session_close.        *)
(***************************************************************************)

Emit(r, event) == events' = [events EXCEPT ![r] = Append(@, event)]

\* ua_connect succeeds, fails with a command_error, or fails in new_session
\* after the request was taken, which no event reports.
ShimDial(r) ==
    /\ <<"dial", r>> \in cmds
    /\ cmds' = cmds \ {<<"dial", r>>}
    /\ \/ /\ native' = [native EXCEPT ![r] = "ringing"]
          /\ Emit(r, "outgoing")
       \/ /\ native' = [native EXCEPT ![r] = "gone"]
          /\ \/ Emit(r, "dial_error")
             \/ "native" \in Faults /\ UNCHANGED events
    /\ UNCHANGED <<conn, dialVars, workVars, sessVars, doneVars, downVars, applying,
                   breaks>>

ShimEstablished(r) ==
    /\ native[r] = "ringing"
    /\ native' = [native EXCEPT ![r] = "talking"]
    /\ Emit(r, "established")
    /\ UNCHANGED <<conn, dialVars, cmds, workVars, sessVars, doneVars, downVars,
                   applying, breaks>>

\* The far end hangs up, rejects or times out.
ShimClosed(r) ==
    /\ Active(r)
    /\ native' = [native EXCEPT ![r] = "gone"]
    /\ Emit(r, "closed")
    /\ UNCHANGED <<conn, dialVars, cmds, workVars, sessVars, doneVars, downVars,
                   applying, breaks>>

\* The handlers are detached, then session_close reports the end of the call; a
\* hangup of a call that is gone is answered with command_error 481.
ShimHangup(r) ==
    /\ <<"hangup", r>> \in cmds /\ <<"dial", r>> \notin cmds
    /\ cmds' = cmds \ {<<"hangup", r>>}
    /\ IF Active(r)
       THEN native' = [native EXCEPT ![r] = "gone"] /\ Emit(r, "closed")
       ELSE Emit(r, "call_error") /\ UNCHANGED native
    /\ UNCHANGED <<conn, dialVars, workVars, sessVars, doneVars, downVars, applying,
                   breaks>>

(***************************************************************************)
(* The bridge reader and the event workers.                                *)
(***************************************************************************)

ReadDialError(r) ==
    /\ conn = "up" /\ events[r] # <<>> /\ Head(events[r]) = "dial_error"
    /\ events' = [events EXCEPT ![r] = Tail(@)]
    /\ FailPending(r)
    /\ UNCHANGED <<conn, dial, stale, expiry, cmds, native, workVars, sessVars,
                   downVars, applying, breaks>>

ReadCallError(r) ==
    /\ conn = "up" /\ events[r] # <<>> /\ Head(events[r]) = "call_error"
    /\ events' = [events EXCEPT ![r] = Tail(@)]
    /\ CloseCall(r)
    /\ UNCHANGED <<conn, dialVars, cmds, native, workVars, downVars, applying, breaks>>

\* closeCall at once, then stopWorker: what is queued is dropped, a job that
\* passed its context check goes on.
ReadClosed(r) ==
    /\ conn = "up" /\ events[r] # <<>> /\ Head(events[r]) = "closed"
    /\ events' = [events EXCEPT ![r] = Tail(@)]
    /\ queue' = [queue EXCEPT ![r] = <<>>]
    /\ CloseCall(r)
    /\ UNCHANGED <<conn, dialVars, cmds, native, job, downVars, applying, breaks>>

\* Mutant: the close of a call waits in the queue of its worker.
ReadAllToWorker(r) ==
    /\ conn = "up" /\ events[r] # <<>>
    /\ Head(events[r]) \in {"outgoing", "established", "closed"}
    /\ queue' = [queue EXCEPT ![r] = Append(@, Head(events[r]))]
    /\ events' = [events EXCEPT ![r] = Tail(@)]
    /\ UNCHANGED <<conn, dialVars, cmds, native, job, sessVars, doneVars, downVars,
                   applying, breaks>>

ReadToWorker(r) ==
    /\ conn = "up" /\ events[r] # <<>> /\ Head(events[r]) \in {"outgoing", "established"}
    /\ queue' = [queue EXCEPT ![r] = Append(@, Head(events[r]))]
    /\ events' = [events EXCEPT ![r] = Tail(@)]
    /\ UNCHANGED <<conn, dialVars, cmds, native, job, sessVars, doneVars, downVars,
                   applying, breaks>>

WorkerTake(r) ==
    /\ job[r] = "none" /\ queue[r] # <<>>
    /\ job' = [job EXCEPT ![r] = Head(queue[r])]
    /\ queue' = [queue EXCEPT ![r] = Tail(@)]
    /\ UNCHANGED <<conn, dialVars, shimVars, sessVars, doneVars, downVars, applying,
                   breaks>>

\* Mutant: an outgoing session has no answer timer.
StartOutgoingNoTimer(r) ==
    /\ job[r] = "outgoing"
    /\ job' = [job EXCEPT ![r] = "none"]
    /\ IF r \in pending
       THEN /\ pending' = pending \ {r}
            /\ sessions' = sessions \cup {r}
            /\ owner' = owner \cup {r}
            /\ UNCHANGED <<cmds, answerTimer>>
       ELSE /\ Hangup({r})
            /\ UNCHANGED <<pending, sessions, owner, answerTimer>>
    /\ UNCHANGED <<conn, dial, stale, expiry, native, events, queue, player, stopped,
                   heard, doneVars, downVars, applying, breaks>>

\* Mutant: an unknown outgoing call is ignored.
StartOutgoingIgnores(r) ==
    /\ job[r] = "outgoing"
    /\ job' = [job EXCEPT ![r] = "none"]
    /\ IF r \in pending
       THEN /\ pending' = pending \ {r}
            /\ sessions' = sessions \cup {r}
            /\ owner' = owner \cup {r}
            /\ answerTimer' = [answerTimer EXCEPT ![r] =
                                 IF tasksClosed THEN "off" ELSE "armed"]
       ELSE UNCHANGED <<pending, sessions, owner, answerTimer>>
    /\ UNCHANGED <<conn, dial, stale, expiry, shimVars, queue, player, stopped,
                   heard, doneVars, downVars, applying, breaks>>

\* startOutgoing: a call without a pending request is hung up.
StartOutgoing(r) ==
    /\ job[r] = "outgoing"
    /\ job' = [job EXCEPT ![r] = "none"]
    /\ IF r \in pending
       THEN /\ pending' = pending \ {r}
            /\ sessions' = sessions \cup {r}
            /\ owner' = owner \cup {r}
            /\ answerTimer' = [answerTimer EXCEPT ![r] =
                                 IF tasksClosed THEN "off" ELSE "armed"]
            /\ UNCHANGED cmds
       ELSE /\ Hangup({r})
            /\ UNCHANGED <<pending, sessions, owner, answerTimer>>
    /\ UNCHANGED <<conn, dial, stale, expiry, native, events, queue, player, stopped,
                   heard, doneVars, downVars, applying, breaks>>

OnEstablished(r) ==
    /\ job[r] = "established"
    /\ job' = [job EXCEPT ![r] = "none"]
    /\ player' = [player EXCEPT ![r] =
                    IF r \in sessions /\ ~tasksClosed THEN "spawned" ELSE @]
    /\ UNCHANGED <<conn, dialVars, shimVars, queue, sessions, owner, stopped,
                   answerTimer, heard, doneVars, downVars, applying, breaks>>

(***************************************************************************)
(* playOutgoingAlert, with playPrompt's media accounting.                  *)
(***************************************************************************)

PlayerMoves(r, from, to) ==
    /\ player[r] = from
    /\ player' = [player EXCEPT ![r] = to]

PlayerAdvance(r) ==
    /\ \/ PlayerMoves(r, "spawned", "announce")
       \/ PlayerMoves(r, "announce", "playing")
       \/ PlayerMoves(r, "announce", "ended")   \* no media, text or FIFO
       \/ PlayerMoves(r, "played", "ended")
    /\ UNCHANGED <<conn, dialVars, shimVars, workVars, sessions, owner, stopped,
                   answerTimer, heard, doneVars, downVars, applying, breaks>>

\* play(ctx) returns; its context ends with the session.
PlayerPlays(r) ==
    /\ PlayerMoves(r, "playing", "played")
    /\ \/ r \notin stopped /\ heard' = heard \cup {r}
       \/ UNCHANGED heard
    /\ UNCHANGED <<conn, dialVars, shimVars, workVars, sessions, owner, stopped,
                   answerTimer, doneVars, downVars, applying, breaks>>

Notify(r, value) == Signal({r} \cap owner, value) /\ owner' = owner \ {r}

PlayerNotifies(r) ==
    /\ PlayerMoves(r, "ended", "hangup")
    /\ Notify(r, IF r \in heard THEN "true" ELSE "false")
    /\ UNCHANGED <<conn, dialVars, shimVars, workVars, sessions, stopped,
                   answerTimer, heard, downVars, applying, breaks>>

PlayerHangsUp(r) ==
    /\ PlayerMoves(r, "hangup", "over")
    /\ Hangup({r})
    /\ UNCHANGED <<conn, dialVars, native, events, workVars, sessions, owner, stopped,
                   answerTimer, heard, doneVars, downVars, applying, breaks>>

(***************************************************************************)
(* The callTimeout task of an outgoing session looks, then acts.           *)
(***************************************************************************)
AnswerTimerLooks(r) ==
    /\ "timer" \in Faults
    /\ answerTimer[r] = "armed"
    /\ answerTimer' = [answerTimer EXCEPT ![r] =
                         IF r \in sessions /\ ~Announcing(r) THEN "fire" ELSE "off"]
    /\ UNCHANGED <<conn, dialVars, shimVars, workVars, sessions, owner, player,
                   stopped, heard, doneVars, downVars, applying, breaks>>

AnswerTimerActs(r) ==
    /\ answerTimer[r] = "fire"
    /\ answerTimer' = [answerTimer EXCEPT ![r] = "off"]
    /\ Notify(r, "false")
    /\ Hangup({r})
    /\ UNCHANGED <<conn, dialVars, native, events, workVars, sessions, player, stopped,
                   heard, downVars, applying, breaks>>

(***************************************************************************)
(* InvalidateUserSessions.                                                 *)
(***************************************************************************)
Of(u) == {r \in Requests : UserOf[r] = u}

Invalidate(u) ==
    /\ "revoke" \in Faults
    /\ LET waiting == pending \cap Of(u)
           revoked == sessions \cap Of(u) IN
       /\ waiting \cup revoked # {}
       /\ pending' = pending \ waiting
       /\ sessions' = sessions \ revoked
       /\ stopped' = stopped \cup revoked
       /\ owner' = owner \ revoked
       /\ Signal(waiting \cup (revoked \cap owner), "false")
       /\ Hangup(revoked)
    /\ UNCHANGED <<conn, dial, stale, expiry, native, events, workVars, player,
                   answerTimer, heard, downVars, applying, breaks>>

(***************************************************************************)
(* The bridge connection.                                                  *)
(***************************************************************************)

\* Of the events of a call, those already in the socket may be lost.
Later(q) == {SubSeq(q, i, Len(q)) : i \in 1..(Len(q) + 1)}

\* What is on the way survives, is lost, or baresip itself ends.
LosesFlight ==
    \/ /\ cmds' \in {cmds, {}}
       /\ events' \in {e \in [Requests -> UNION {Later(events[r]) : r \in Requests}] :
                         \A r \in Requests : e[r] \in Later(events[r])}
       /\ UNCHANGED native
    \/ /\ "native" \in Faults \/ applying
       /\ cmds' = {}
       /\ events' = [r \in Requests |-> <<>>]
       /\ native' = [r \in Requests |-> IF Active(r) THEN "gone" ELSE native[r]]

\* Mutant: the clean-up of a lost connection forgets the pending requests.
BreakForgetsPending ==
    /\ conn = "up"
    /\ drain = "over" \/ ("bridge" \in Faults /\ breaks < MaxBreaks)
    /\ \A r \in Requests : job[r] = "none"
    /\ conn' = "closing"
    /\ breaks' = IF drain = "over" THEN breaks ELSE breaks + 1
    /\ stale' = stale \cup {r \in Requests : dial[r] \in {"checked", "registered", "writing"}}
    /\ pending' = {}
    /\ Signal(sessions \cap owner, "false")
    /\ owner' = owner \ sessions
    /\ stopped' = stopped \cup sessions
    /\ sessions' = {}
    /\ queue' = [r \in Requests |-> <<>>]
    /\ LosesFlight
    /\ UNCHANGED <<dial, expiry, job, player, answerTimer, heard, downVars, applying>>

\* runConnection returns: the workers end, the client is forgotten, pending
\* requests and sessions fail, and the connection is closed last.
Break ==
    /\ conn = "up"
    /\ drain = "over" \/ ("bridge" \in Faults /\ breaks < MaxBreaks)
    /\ \A r \in Requests : job[r] = "none"
    /\ conn' = "closing"
    /\ breaks' = IF drain = "over" THEN breaks ELSE breaks + 1
    /\ stale' = stale \cup {r \in Requests : dial[r] \in {"checked", "registered", "writing"}}
    /\ pending' = {}
    /\ Signal(pending \cup (sessions \cap owner), "false")
    /\ owner' = owner \ sessions
    /\ stopped' = stopped \cup sessions
    /\ sessions' = {}
    /\ queue' = [r \in Requests |-> <<>>]
    /\ LosesFlight
    /\ UNCHANGED <<dial, expiry, job, player, answerTimer, heard, downVars, applying>>

CloseConn ==
    /\ conn = "closing"
    /\ conn' = "down"
    /\ UNCHANGED <<dialVars, shimVars, workVars, sessVars, doneVars, downVars, applying,
                   breaks>>

\* Run dials again after a second, unless the runtime context ended.
Reconnect ==
    /\ conn = "down" /\ drain # "over"
    /\ conn' = "up"
    /\ UNCHANGED <<dialVars, shimVars, workVars, sessVars, doneVars, downVars, applying,
                   breaks>>

(***************************************************************************)
(* BeginSIPApply and its release; Drain.                                   *)
(***************************************************************************)
ApplyBegin ==
    /\ "apply" \in Faults
    /\ ~applying /\ ~shuttingDown /\ sessions = {} /\ pending = {}
    /\ applying' = TRUE
    /\ UNCHANGED <<conn, dialVars, shimVars, workVars, sessVars, doneVars, downVars,
                   breaks>>

ApplyEnd ==
    /\ applying
    /\ applying' = FALSE
    /\ UNCHANGED <<conn, dialVars, shimVars, workVars, sessVars, doneVars, downVars,
                   breaks>>

\* Application.BeginShutdown cancels the worker context before Drain starts.
Shutdown ==
    /\ "shutdown" \in Faults /\ ~ctxDone
    /\ ctxDone' = TRUE
    /\ UNCHANGED <<conn, dialVars, shimVars, workVars, sessVars, doneVars, tasksClosed,
                   shuttingDown, drain, hangups, applying, breaks>>

DrainBegin ==
    /\ ctxDone /\ drain = "none"
    /\ drain' = "tasks"
    /\ shuttingDown' = TRUE
    /\ hangups' = sessions
    /\ stopped' = stopped \cup sessions
    /\ pending' = {}
    /\ Signal(pending, "false")
    /\ UNCHANGED <<conn, dial, stale, expiry, shimVars, workVars, sessions, owner,
                   player, answerTimer, heard, ctxDone, tasksClosed, applying, breaks>>

StopTasks ==
    /\ drain = "tasks"
    /\ drain' = "hangups"
    /\ tasksClosed' = TRUE
    /\ UNCHANGED <<conn, dialVars, shimVars, workVars, sessVars, doneVars, ctxDone,
                   shuttingDown, hangups, applying, breaks>>

DrainHangsUp(r) ==
    /\ drain = "hangups" /\ r \in hangups
    /\ hangups' = hangups \ {r}
    /\ Hangup({r})
    /\ UNCHANGED <<conn, dialVars, native, events, workVars, sessVars, doneVars, ctxDone,
                   tasksClosed, shuttingDown, drain, applying, breaks>>

\* A hangup that could not be sent ends Drain with an error.
DrainWaits ==
    /\ drain = "hangups" /\ hangups = {}
    /\ drain' \in IF conn = "up" THEN {"wait"} ELSE {"wait", "over"}
    /\ UNCHANGED <<conn, dialVars, shimVars, workVars, sessVars, doneVars, ctxDone,
                   tasksClosed, shuttingDown, hangups, applying, breaks>>

DrainEnds ==
    /\ drain = "wait"
    /\ (sessions = {} /\ pending = {}) \/ "timer" \in Faults
    /\ drain' = "over"
    /\ UNCHANGED <<conn, dialVars, shimVars, workVars, sessVars, doneVars, ctxDone,
                   tasksClosed, shuttingDown, hangups, applying, breaks>>

DialStep(r) == DialRegister(r) \/ DialArm(r) \/ DialWrite(r) \/ DialWriteFails(r)
ShimStep(r) == ShimDial(r) \/ ShimHangup(r)
ReadStep(r) == ReadDialError(r) \/ ReadCallError(r) \/ ReadClosed(r) \/ ReadToWorker(r)
WorkStep(r) == WorkerTake(r) \/ StartOutgoing(r) \/ OnEstablished(r)
PlayStep(r) == PlayerAdvance(r) \/ PlayerPlays(r) \/ PlayerNotifies(r) \/ PlayerHangsUp(r)
DrainStep   == DrainBegin \/ StopTasks \/ (\E r \in Requests : DrainHangsUp(r))
                 \/ DrainWaits \/ DrainEnds

Next ==
    \/ \E r \in Requests :
         \/ DialCheck(r) \/ DialStep(r) \/ Expire(r)
         \/ ShimStep(r) \/ ShimEstablished(r) \/ ShimClosed(r)
         \/ ReadStep(r) \/ WorkStep(r) \/ PlayStep(r)
         \/ AnswerTimerLooks(r) \/ AnswerTimerActs(r)
    \/ \E u \in Users : Invalidate(u)
    \/ Break \/ CloseConn \/ Reconnect
    \/ ApplyBegin \/ ApplyEnd \/ Shutdown \/ DrainStep

Spec == Init /\ [][Next]_vars

(***************************************************************************)
(* Every goroutine runs, timers fire, the shim's main loop executes its    *)
(* commands, Run reconnects, and the end of Drain ends the connection.     *)
(* Nothing is assumed of the far end.                                      *)
(***************************************************************************)
Fairness ==
    /\ \A r \in Requests :
         /\ WF_vars(DialStep(r)) /\ WF_vars(Expire(r))
         /\ WF_vars(ShimStep(r)) /\ WF_vars(ReadStep(r)) /\ WF_vars(WorkStep(r))
         /\ WF_vars(PlayStep(r))
         /\ WF_vars(AnswerTimerLooks(r)) /\ WF_vars(AnswerTimerActs(r))
    /\ WF_vars(drain = "over" /\ Break) /\ WF_vars(CloseConn) /\ WF_vars(Reconnect)
    /\ WF_vars(ApplyEnd) /\ WF_vars(DrainStep)

FairSpec == Spec /\ Fairness

(***************************************************************************)
(* Properties.                                                             *)
(***************************************************************************)
TypeOK ==
    /\ conn \in Conn /\ breaks \in 0..MaxBreaks /\ applying \in BOOLEAN
    /\ dial \in [Requests -> DialPC]
    /\ stale \subseteq Requests /\ pending \subseteq Requests /\ expiry \subseteq Requests
    /\ cmds \subseteq {"dial", "hangup"} \X Requests
    /\ native \in [Requests -> Native]
    /\ events \in [Requests -> Seq(Event)]
    /\ queue \in [Requests -> Seq({"outgoing", "established"})]
    /\ job \in [Requests -> Job]
    /\ sessions \subseteq Requests /\ owner \subseteq Requests
    /\ stopped \subseteq Requests /\ heard \subseteq Requests
    /\ player \in [Requests -> Player]
    /\ answerTimer \in [Requests -> Timer]
    /\ done \in [Requests -> {"none", "true", "false"}] /\ sent \in [Requests -> 0..2]
    /\ ctxDone \in BOOLEAN /\ tasksClosed \in BOOLEAN /\ shuttingDown \in BOOLEAN
    /\ drain \in DrainPC /\ hangups \subseteq Requests

Returned ==
    [r \in Requests |-> IF dial[r] \in {"accepted", "refused"} THEN dial[r] ELSE "none"]

\* Expiry, a dial error, the close of the call, the player, the answer timer,
\* a revoked user, a lost bridge and Drain together fulfil DialPromise: every
\* accepted request gets one value on Done, which no later event changes.
Promise == INSTANCE DialPromise WITH ret <- Returned
KeepsPromise == Promise!Spec

\* Done is sent to at most once: the right to signal it moves from
\* Service.pending to the session and is taken away under the lock by the first
\* goroutine that ends the call, so no second one signals.
SignalledOnce == \A r \in Requests : sent[r] <= 1

\* An accepted request whose Done is still empty belongs to exactly one of the
\* pending map and a session that holds AlertDone; nobody else could settle it.
OneHolder ==
    \A r \in Requests :
        dial[r] = "accepted" /\ done[r] = "none" => (r \in pending) # (r \in owner)

\* A pending request that Dial accepted always has its expiry timer, although
\* Drain refuses new tasks: the worker context ends before Drain does that.
PendingExpires ==
    \A r \in pending : dial[r] = "accepted" => r \in expiry

\* Done never reports true for a call whose playback was not even reached.
TrueIsAnnounced ==
    \A r \in Requests :
        done[r] = "true" => player[r] \in {"playing", "played", "ended", "hangup", "over"}

\* Every session leaves Service.sessions, also one that was created after its
\* call had closed: the answer timer's hangup is answered by a command_error.
SessionsLeave == \A r \in Requests : r \in sessions ~> r \notin sessions

\* While the bridge holds and no shutdown began, every call baresip placed ends,
\* also one whose request had expired or was revoked before its call_outgoing
\* arrived: nobody is left to report it, so startOutgoing must hang it up.
CallsEnd == \A r \in Requests : Active(r) ~> ~Active(r) \/ breaks > 0 \/ ctxDone

\* A subscriber who heard the whole announcement is reported as reached (the
\* comment in closeCall promises it for calls that end on the last word).
\* The code does not keep this: see section 6 of the README.
HeardIsTrue == \A r \in heard : done[r] # "false"

\* The quiet window of BeginSIPApply: no request waits and no session lives.
\* The code does not keep this: see section 6 of the README.
QuietApply == applying => sessions = {} /\ pending = {}

(* AnswersOnce: a dial request is answered once, by the one that holds it,
   and with "true" only for a call the bridge announced. *)
AnswersOnce == SignalledOnce /\ OneHolder /\ TrueIsAnnounced

(* NothingLeft: no request, session or call stays behind. *)
NothingLeft == []PendingExpires /\ SessionsLeave /\ CallsEnd
=============================================================================
