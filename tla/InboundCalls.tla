---------------------------- MODULE InboundCalls ----------------------------
(***************************************************************************)
(* Incoming calls (internal/calls/admission.go, verification.go,           *)
(* dispatch.go, events.go, service.go): a call is admitted, its caller     *)
(* chooses an account when the number has several, enters a PIN and uses   *)
(* the menu, until somebody hangs up, nothing is pressed for two minutes   *)
(* or the PIN is changed.                                                  *)
(*                                                                         *)
(* The actors of a call are the shim, the reader of the bridge connection, *)
(* the worker of the call's event queue, the task that speaks the welcome, *)
(* the inactivity timer with its goodbye and its delayed hang-up, and the  *)
(* web request that changes a PIN.  Each of their critical sections is an  *)
(* action; sections that follow each other with nothing in between that    *)
(* another actor reads or writes are one action.                           *)
(*                                                                         *)
(* The connection does not break here and the service does not shut down   *)
(* (both are in OutboundCalls).  A PIN is one digit.  What a menu key does *)
(* is left open.  A prompt takes any time; an interrupted one ends early,  *)
(* as any prompt may.                                                      *)
(***************************************************************************)
EXTENDS Naturals, Sequences, FiniteSets

CONSTANTS
    Calls, Users,
    Pressed,      \* the keys callers press, out of 0..9, Star and Pound
    Rotating,     \* users who change their PIN, once
    QueueSize,    \* jobs the queue of a call holds (callEventQueueSize)
    MaxKeys       \* bound: keys pressed in a call

Star == 10
Pound == 11
Keys == (0..9) \cup {Star, Pound}

ASSUME InboundAssumption ==
    /\ Users # {} /\ Rotating \subseteq Users /\ Pressed \subseteq Keys
    /\ QueueSize \in Nat \ {0} /\ MaxKeys \in Nat

VARIABLES
    shim,     \* per call: the call in baresip
    wire,     \* per call: events and command errors written and not yet read
    queue,    \* per call: the event worker's queue
    worker,   \* per call: the worker: where it is, its job, PIN user and version
    stop,     \* per call: stopWorker cancelled the worker
    sess,     \* per call: the session
    timer,    \* per call: the inactivity timer is armed
    goodbye,  \* per call: the task that says goodbye
    hanging,  \* per call: a delayed hang-up is scheduled
    task,     \* per call: the task onEstablished started
    leases,   \* per call: pairs of speech leases activated and not released
    keys,     \* per call: keys pressed
    pinOf,    \* per user: the PIN in the store
    stale     \* users whose PIN changed and whose calls are not yet ended

vars == <<shim, wire, queue, worker, stop, sess, timer, goodbye, hanging, task, leases,
          keys, pinOf, stale>>

\* The empty entry, and an entry of more than one digit: the PIN of nobody.
NoPIN == 12
LongPIN == 13

Event(kind) == [kind |-> kind, key |-> 0, stamp |-> 0, signed |-> FALSE]
NoJob == Event("none")

\* No session was registered yet.
NoSession == [in |-> "none", state |-> "pin", routes |-> <<>>, user |-> CHOOSE u \in Users : TRUE,
              chosen |-> FALSE, pin |-> NoPIN, fails |-> 0, auth |-> FALSE, authPIN |-> 0,
              lease |-> 0, est |-> FALSE, gen |-> 1]

Resting == [pc |-> "wait", job |-> NoJob, user |-> NoSession.user, pin |-> NoPIN, hash |-> 0]

Init ==
    /\ shim = [c \in Calls |-> "off"] /\ wire = [c \in Calls |-> <<>>]
    /\ queue = [c \in Calls |-> <<>>]
    /\ worker = [c \in Calls |-> [Resting EXCEPT !.pc = "none"]]
    /\ stop = [c \in Calls |-> FALSE]
    /\ sess = [c \in Calls |-> NoSession]
    /\ timer = [c \in Calls |-> FALSE] /\ goodbye = [c \in Calls |-> "none"]
    /\ hanging = [c \in Calls |-> FALSE] /\ task = [c \in Calls |-> "none"]
    /\ leases = [c \in Calls |-> 0] /\ keys = [c \in Calls |-> 0]
    /\ pinOf = [u \in Users |-> 1] /\ stale = {}

(***************************************************************************)
(* The shim and the far end                                                *)
(***************************************************************************)

InMap(c) == sess[c].in \in {"open", "closed"}
Open(c) == sess[c].in = "open"

CallComes(c) ==
    /\ shim[c] = "off"
    /\ shim' = [shim EXCEPT ![c] = "ringing"]
    /\ wire' = [wire EXCEPT ![c] = Append(@, "incoming")]
    /\ UNCHANGED <<queue, worker, stop, sess, timer, goodbye, hanging, task, leases, keys,
                   pinOf, stale>>

FarEndCloses(c) ==
    /\ shim[c] \in {"ringing", "up"}
    /\ shim' = [shim EXCEPT ![c] = "over"]
    /\ wire' = [wire EXCEPT ![c] = Append(@, "closed")]
    /\ UNCHANGED <<queue, worker, stop, sess, timer, goodbye, hanging, task, leases, keys,
                   pinOf, stale>>

\* Hang-up commands for the calls of S; one for a call that is over fails.
Hangup(S) ==
    /\ shim' = [c \in Calls |-> IF c \in S THEN "over" ELSE shim[c]]
    /\ wire' = [c \in Calls |-> IF c \notin S THEN wire[c]
                                ELSE Append(wire[c], IF shim[c] = "over" THEN "error" ELSE "closed")]

(***************************************************************************)
(* Prompts, the inactivity timer and the end of a session                  *)
(***************************************************************************)

\* mediaPlays: the prompts of the worker, of the task and of the goodbye.
Plays(c) == Cardinality({a \in {"worker", "task", "goodbye"} :
    CASE a = "worker"  -> worker[c].pc = "playing"
      [] a = "task"    -> task[c] \in {"playing", "playingCode"}
      [] a = "goodbye" -> goodbye[c] = "playing"})

\* armInactivityTimeoutLocked
Arm(c) == timer' = IF Open(c) /\ Plays(c) = 0 THEN [timer EXCEPT ![c] = TRUE] ELSE timer

Disarm(c) == timer' = [timer EXCEPT ![c] = FALSE]

\* Mutant: the end of a prompt does not arm the timer.
EndMediaIdle(c) == UNCHANGED timer

\* endMediaLocked: the last prompt to end arms the timer.
EndMedia(c) == timer' = IF Open(c) /\ Plays(c) = 1 THEN [timer EXCEPT ![c] = TRUE] ELSE timer

\* transitionLocked
Enter(s, state) ==
    IF s.state = state THEN s ELSE [s EXCEPT !.state = state, !.gen = @ + 1]

\* The sessions of S leave the map and their leases are released.
Remove(S) ==
    /\ sess' = [c \in Calls |-> IF c \in S THEN [sess[c] EXCEPT !.in = "gone", !.lease = 0] ELSE sess[c]]
    /\ timer' = [c \in Calls |-> timer[c] /\ c \notin S]
    /\ leases' = [c \in Calls |-> IF c \in S THEN leases[c] - sess[c].lease ELSE leases[c]]

\* Mutant: a session that was removed keeps its speech leases.
RemoveHolding(S) ==
    /\ sess' = [c \in Calls |-> IF c \in S THEN [sess[c] EXCEPT !.in = "gone"] ELSE sess[c]]
    /\ timer' = [c \in Calls |-> timer[c] /\ c \notin S]
    /\ UNCHANGED leases

CloseCall(c) == Remove({x \in {c} : InMap(x)})

(***************************************************************************)
(* The reader: callEventDispatcher.dispatch                                *)
(***************************************************************************)

Enqueue(c, job) ==
    /\ queue' = [queue EXCEPT ![c] = Append(@, job)]
    /\ worker' = IF worker[c].pc = "none" THEN [worker EXCEPT ![c].pc = "wait"] ELSE worker

\* A call event goes to the worker; with a full queue the call is hung up.
ReadEvent(c) ==
    /\ wire[c] # <<>> /\ Head(wire[c]) \in {"incoming", "established"}
    /\ IF Len(queue[c]) < QueueSize
       THEN /\ Enqueue(c, Event(Head(wire[c])))
            /\ wire' = [wire EXCEPT ![c] = Tail(@)]
            /\ UNCHANGED shim
       ELSE /\ shim' = [shim EXCEPT ![c] = "over"]
            /\ wire' = [wire EXCEPT ![c] =
                          Append(Tail(@), IF shim[c] = "over" THEN "error" ELSE "closed")]
            /\ UNCHANGED <<queue, worker>>
    /\ UNCHANGED <<stop, sess, timer, goodbye, hanging, task, leases, keys, pinOf, stale>>

\* call_closed ends the session and the worker at once, a command error the session.
ReadClosed(c) ==
    /\ wire[c] # <<>> /\ Head(wire[c]) \in {"closed", "error"}
    /\ CloseCall(c)
    /\ wire' = [wire EXCEPT ![c] = Tail(@)]
    /\ stop' = [stop EXCEPT ![c] = @ \/ Head(wire[c]) = "closed"]
    /\ UNCHANGED <<shim, queue, worker, goodbye, hanging, task, keys, pinOf, stale>>

\* Mutant: whatever job is oldest is dropped for the newest press.
RecycleAny(q, job) == Append(Tail(q), job)

\* Mutant: the press is queued although nothing made room for it.
RecycleNothing(q, job) == Append(q, job)

\* The oldest job makes room for a press; a call event is queued again, in the
\* place that was made.
Recycle(q, job) ==
    IF Head(q).kind = "key" THEN Append(Tail(q), job) ELSE Append(Tail(q), Head(q))

\* A key is read after the events before it, and stamped with the generation of
\* the menu; without a session it has no stamp.
PressKey(c, k) ==
    /\ shim[c] = "up" /\ wire[c] = <<>> /\ keys[c] < MaxKeys
    /\ keys' = [keys EXCEPT ![c] = @ + 1]
    /\ LET job == [kind |-> "key", key |-> k, stamp |-> IF Open(c) THEN sess[c].gen ELSE 0,
                   signed |-> sess[c].auth] IN
       IF Len(queue[c]) < QueueSize
       THEN Enqueue(c, job)
       ELSE queue' = [queue EXCEPT ![c] = Recycle(@, job)] /\ UNCHANGED worker
    /\ UNCHANGED <<shim, wire, stop, sess, timer, goodbye, hanging, task, leases, pinOf, stale>>

(***************************************************************************)
(* The worker: runWorker, admit, onEstablished and handleDTMF              *)
(***************************************************************************)

At(c, pc) == worker[c].pc = pc
GoesTo(c, pc) == worker' = [worker EXCEPT ![c].pc = pc]

\* The handler returned: the worker waits for the next job or was stopped.
Rests(c) == worker' = [worker EXCEPT ![c] = [Resting EXCEPT !.pc = IF stop[c] THEN "dead" ELSE "wait"]]

StopsIdle(c) ==
    /\ At(c, "wait") /\ stop[c]
    /\ GoesTo(c, "dead")
    /\ UNCHANGED <<shim, wire, queue, stop, sess, timer, goodbye, hanging, task, leases,
                   keys, pinOf, stale>>

\* Mutant: keys are not checked against the menu they were pressed in.
CurrentAlways(c, job) == TRUE

\* navigationVersionIsCurrent
Current(c, job) == job.stamp = 0 \/ (Open(c) /\ sess[c].gen = job.stamp)

\* A key pressed in an earlier menu is dropped.
TakeJob(c) ==
    /\ At(c, "wait") /\ queue[c] # <<>>
    /\ queue' = [queue EXCEPT ![c] = Tail(@)]
    /\ IF Current(c, Head(queue[c]))
       THEN worker' = [worker EXCEPT ![c].pc = "handle", ![c].job = Head(queue[c])]
       ELSE UNCHANGED worker
    /\ UNCHANGED <<shim, wire, stop, sess, timer, goodbye, hanging, task, leases, keys, pinOf,
                   stale>>

Handles(c, kind) == At(c, "handle") /\ ~stop[c] /\ worker[c].job.kind = kind

HandleStopped(c) ==
    /\ At(c, "handle") /\ stop[c]
    /\ GoesTo(c, "dead")
    /\ UNCHANGED <<shim, wire, queue, stop, sess, timer, goodbye, hanging, task, leases,
                   keys, pinOf, stale>>

\* admit: the caller is unknown, locked out, all lines are busy or the server stops.
AdmitRefuses(c) ==
    /\ Handles(c, "incoming")
    /\ Hangup({c})
    /\ Rests(c)
    /\ UNCHANGED <<queue, stop, sess, timer, goodbye, hanging, task, leases, keys, pinOf, stale>>

\* The number proves its ownership, or reaches one account or several.
Admissions ==
    {[NoSession EXCEPT !.in = "open", !.state = "verify", !.user = u, !.routes = <<u>>] : u \in Users}
    \cup {[NoSession EXCEPT !.in = "open", !.user = u, !.routes = <<u>>] : u \in Users}
    \cup {[NoSession EXCEPT !.in = "open", !.state = "choice", !.user = p[1], !.routes = p]
             : p \in {q \in Users \X Users : q[1] # q[2]}}

Admit(c) ==
    /\ Handles(c, "incoming")
    /\ \E s \in Admissions : sess' = [sess EXCEPT ![c] = s]
    /\ timer' = [timer EXCEPT ![c] = TRUE]
    /\ GoesTo(c, "answer")
    /\ UNCHANGED <<shim, wire, queue, stop, goodbye, hanging, task, leases, keys, pinOf, stale>>

Answer(c) ==
    /\ At(c, "answer")
    /\ shim' = [shim EXCEPT ![c] = IF @ = "ringing" THEN "up" ELSE @]
    /\ wire' = [wire EXCEPT ![c] = Append(@, IF shim[c] = "ringing" THEN "established" ELSE "error")]
    /\ GoesTo(c, "activate")
    /\ UNCHANGED <<queue, stop, sess, timer, goodbye, hanging, task, leases, keys, pinOf, stale>>

\* Mutant: the leases of a call that is gone by now are taken all the same.
ActivateAnyway(c) ==
    /\ At(c, "activate")
    /\ leases' = [leases EXCEPT ![c] = @ + 1]
    /\ sess' = [sess EXCEPT ![c].lease = 1]
    /\ Rests(c)
    /\ UNCHANGED <<shim, wire, queue, stop, timer, goodbye, hanging, task, keys, pinOf, stale>>

\* The session may have disappeared since the answer.
Activate(c) ==
    /\ At(c, "activate")
    /\ IF InMap(c)
       THEN /\ leases' = [leases EXCEPT ![c] = @ + 1]
            /\ sess' = [sess EXCEPT ![c].lease = 1]
       ELSE UNCHANGED <<leases, sess>>
    /\ Rests(c)
    /\ UNCHANGED <<shim, wire, queue, stop, timer, goodbye, hanging, task, keys, pinOf, stale>>

OnEstablished(c) ==
    /\ Handles(c, "established")
    /\ Rests(c)
    /\ IF Open(c) /\ ~sess[c].est
       THEN /\ sess' = [sess EXCEPT ![c].est = TRUE]
            /\ task' = [task EXCEPT ![c] = CASE sess[c].state = "choice" -> "say"
                                            [] sess[c].state = "verify" -> "promptCode"
                                            [] OTHER -> "prompt"]
       ELSE UNCHANGED <<sess, task>>
    /\ UNCHANGED <<shim, wire, queue, stop, timer, goodbye, hanging, leases, keys, pinOf, stale>>

\* A key of a session that is over, or of a verification call, does nothing.
IgnoreKey(c) ==
    /\ Handles(c, "key")
    /\ ~Open(c) \/ (sess[c].state = "verify" /\ ~sess[c].auth)
    /\ Arm(c)
    /\ Rests(c)
    /\ UNCHANGED <<shim, wire, queue, stop, sess, goodbye, hanging, task, leases, keys, pinOf,
                   stale>>

\* handleMenu may move to another menu, and speaks.
MenuKey(c) ==
    /\ Handles(c, "key") /\ Open(c) /\ sess[c].auth
    /\ Arm(c)
    /\ \E move \in {0, 1} : sess' = [sess EXCEPT ![c].gen = @ + move]
    /\ GoesTo(c, "prompt")
    /\ UNCHANGED <<shim, wire, queue, stop, goodbye, hanging, task, leases, keys, pinOf, stale>>

ChoiceKey(c) ==
    /\ Handles(c, "key") /\ Open(c) /\ ~sess[c].auth /\ sess[c].state = "choice"
    /\ Arm(c)
    /\ GoesTo(c, "choose")
    /\ UNCHANGED <<shim, wire, queue, stop, sess, goodbye, hanging, task, leases, keys, pinOf,
                   stale>>

HasChoices(c) == Len(sess[c].routes) > 1 /\ ~sess[c].chosen

\* chooseCallerAccount: the leases of the chosen user replace those of the first.
Choose(c) ==
    /\ At(c, "choose")
    /\ LET k == worker[c].job.key IN
       IF HasChoices(c) /\ k \in 1..Len(sess[c].routes)
       THEN /\ sess' = [sess EXCEPT ![c] = Enter([@ EXCEPT !.user = sess[c].routes[k],
                                                          !.chosen = TRUE, !.lease = 1], "pin")]
            /\ leases' = [leases EXCEPT ![c] = @ + 1]
            /\ GoesTo(c, "prompt")
       ELSE GoesTo(c, "say") /\ UNCHANGED <<sess, leases>>
    /\ UNCHANGED <<shim, wire, queue, stop, timer, goodbye, hanging, task, keys, pinOf, stale>>

AsksPIN(c) == Open(c) /\ ~sess[c].auth /\ sess[c].state = "pin"

TypeDigit(c) ==
    /\ Handles(c, "key") /\ AsksPIN(c) /\ worker[c].job.key # Pound
    /\ Arm(c)
    /\ LET k == worker[c].job.key IN
       sess' = [sess EXCEPT ![c].pin = IF k = Star THEN NoPIN
                                       ELSE IF @ = NoPIN THEN k ELSE LongPIN]
    /\ Rests(c)
    /\ UNCHANGED <<shim, wire, queue, stop, goodbye, hanging, task, leases, keys, pinOf, stale>>

\* The PIN and its user are remembered while the store is asked.
SubmitPIN(c) ==
    /\ Handles(c, "key") /\ AsksPIN(c) /\ worker[c].job.key = Pound
    /\ Arm(c)
    /\ worker' = [worker EXCEPT ![c].pc = "lookup", ![c].user = sess[c].user, ![c].pin = sess[c].pin]
    /\ UNCHANGED <<shim, wire, queue, stop, sess, goodbye, hanging, task, leases, keys, pinOf,
                   stale>>

\* The store fails, which costs no attempt, or gives the user's PIN.
LookupPIN(c) ==
    /\ At(c, "lookup")
    /\ \/ /\ sess' = [sess EXCEPT ![c].pin = NoPIN]
          /\ GoesTo(c, "prompt")
       \/ /\ worker' = [worker EXCEPT ![c].pc = "check", ![c].hash = pinOf[worker[c].user]]
          /\ UNCHANGED sess
    /\ UNCHANGED <<shim, wire, queue, stop, timer, goodbye, hanging, task, leases, keys, pinOf,
                   stale>>

CheckPIN(c) ==
    /\ At(c, "check")
    /\ \/ /\ worker[c].pin = worker[c].hash
          /\ sess' = [sess EXCEPT ![c] = Enter([@ EXCEPT !.auth = TRUE, !.fails = 0,
                                                         !.authPIN = worker[c].hash], "main")]
          /\ GoesTo(c, "prompt")
          /\ UNCHANGED <<shim, wire>>
       \/ /\ worker[c].pin # worker[c].hash
          /\ sess' = [sess EXCEPT ![c].pin = NoPIN, ![c].fails = @ + 1]
          /\ IF sess[c].fails >= 2
             THEN Hangup({c}) /\ Rests(c)
             ELSE GoesTo(c, "prompt") /\ UNCHANGED <<shim, wire>>
    /\ UNCHANGED <<queue, stop, timer, goodbye, hanging, task, leases, keys, pinOf, stale>>

\* playPrompt on the worker
WorkerBegins(c) ==
    /\ At(c, "prompt")
    /\ Disarm(c)
    /\ GoesTo(c, "playing")
    /\ UNCHANGED <<shim, wire, queue, stop, sess, goodbye, hanging, task, leases, keys, pinOf,
                   stale>>

WorkerEnds(c) ==
    /\ At(c, "playing")
    /\ EndMedia(c)
    /\ Rests(c)
    /\ UNCHANGED <<shim, wire, queue, stop, sess, goodbye, hanging, task, leases, keys, pinOf,
                   stale>>

(***************************************************************************)
(* speakAccountChoice, by the worker or by the task of onEstablished       *)
(***************************************************************************)

\* With no choices left the session is closed, and the call hung up.
NothingToChoose(c) ==
    /\ ~HasChoices(c)
    /\ LET s == Enter(sess[c], "closed") IN
       sess' = [sess EXCEPT ![c] = [s EXCEPT !.in = IF s.in = "open" THEN "closed" ELSE s.in]]
    /\ Hangup({c})

WorkerSays(c) ==
    /\ At(c, "say")
    /\ \/ NothingToChoose(c) /\ Rests(c)
       \/ HasChoices(c) /\ GoesTo(c, "sayMenu") /\ UNCHANGED <<sess, shim, wire>>
    /\ UNCHANGED <<queue, stop, timer, goodbye, hanging, task, leases, keys, pinOf, stale>>

WorkerMoves(c) ==
    /\ At(c, "sayMenu")
    /\ sess' = [sess EXCEPT ![c] = Enter(@, "choice")]
    /\ GoesTo(c, "prompt")
    /\ UNCHANGED <<shim, wire, queue, stop, timer, goodbye, hanging, task, leases, keys, pinOf,
                   stale>>

TaskGoes(c, at) == task' = [task EXCEPT ![c] = at]

TaskSays(c) ==
    /\ task[c] = "say"
    /\ \/ NothingToChoose(c) /\ TaskGoes(c, "ended")
       \/ HasChoices(c) /\ TaskGoes(c, "sayMenu") /\ UNCHANGED <<sess, shim, wire>>
    /\ UNCHANGED <<queue, worker, stop, timer, goodbye, hanging, leases, keys, pinOf, stale>>

TaskMoves(c) ==
    /\ task[c] = "sayMenu"
    /\ sess' = [sess EXCEPT ![c] = Enter(@, "choice")]
    /\ TaskGoes(c, "prompt")
    /\ UNCHANGED <<shim, wire, queue, worker, stop, timer, goodbye, hanging, leases, keys,
                   pinOf, stale>>

\* The prompt of greet, speakAccountChoice or speakVerification.
TaskBegins(c) ==
    /\ task[c] \in {"prompt", "promptCode"}
    /\ Disarm(c)
    /\ TaskGoes(c, IF task[c] = "prompt" THEN "playing" ELSE "playingCode")
    /\ UNCHANGED <<shim, wire, queue, worker, stop, sess, goodbye, hanging, leases, keys,
                   pinOf, stale>>

TaskEnds(c) ==
    /\ task[c] = "playing"
    /\ EndMedia(c)
    /\ TaskGoes(c, "ended")
    /\ UNCHANGED <<shim, wire, queue, worker, stop, sess, goodbye, hanging, leases, keys,
                   pinOf, stale>>

\* A verification call hangs up at once when the code was not spoken.
CodeEnds(c) ==
    /\ task[c] = "playingCode"
    /\ EndMedia(c)
    /\ TaskGoes(c, "ended")
    /\ \/ Hangup({c}) /\ UNCHANGED hanging
       \/ hanging' = [hanging EXCEPT ![c] = TRUE] /\ UNCHANGED <<shim, wire>>
    /\ UNCHANGED <<queue, worker, stop, sess, leases, goodbye, keys, pinOf, stale>>

(***************************************************************************)
(* The inactivity timer                                                    *)
(***************************************************************************)

\* The goodbye task and the delayed hang-up are done, and the reader has caught up,
\* long before a timer armed meanwhile fires.
TimerFires(c) ==
    /\ timer[c] /\ goodbye[c] = "none" /\ ~hanging[c] /\ wire[c] = <<>>
    /\ Disarm(c)
    /\ IF Open(c)
       THEN /\ goodbye' = [goodbye EXCEPT ![c] = "due"]
            /\ hanging' = [hanging EXCEPT ![c] = TRUE]
       ELSE UNCHANGED <<goodbye, hanging>>
    /\ UNCHANGED <<shim, wire, queue, worker, stop, sess, task, leases, keys, pinOf, stale>>

GoodbyeBegins(c) ==
    /\ goodbye[c] = "due"
    /\ goodbye' = [goodbye EXCEPT ![c] = "playing"]
    /\ Disarm(c)
    /\ UNCHANGED <<shim, wire, queue, worker, stop, sess, hanging, task, leases, keys, pinOf,
                   stale>>

GoodbyeEnds(c) ==
    /\ goodbye[c] = "playing"
    /\ EndMedia(c)
    /\ goodbye' = [goodbye EXCEPT ![c] = "none"]
    /\ UNCHANGED <<shim, wire, queue, worker, stop, sess, hanging, task, leases, keys, pinOf,
                   stale>>

\* The delayed hang-up asks nobody whether a key was pressed meanwhile.
DelayedHangup(c) ==
    /\ hanging[c]
    /\ hanging' = [hanging EXCEPT ![c] = FALSE]
    /\ Hangup({c})
    /\ UNCHANGED <<queue, worker, stop, sess, timer, goodbye, task, leases, keys, pinOf, stale>>

(***************************************************************************)
(* The web request that changes a PIN                                      *)
(***************************************************************************)

\* The new PIN is in the store before the user's calls are ended.
ChangePIN(u) ==
    /\ u \in Rotating /\ pinOf[u] = 1
    /\ pinOf' = [pinOf EXCEPT ![u] = 2]
    /\ stale' = stale \cup {u}
    /\ UNCHANGED <<shim, wire, queue, worker, stop, sess, timer, goodbye, hanging, task,
                   leases, keys>>

\* Mutant: only the calls that are signed in are ended.
SignedInOf(u) == {c \in Calls : InMap(c) /\ sess[c].user = u /\ sess[c].auth}

SessionsOf(u) == {c \in Calls : InMap(c) /\ sess[c].user = u}

\* InvalidateUserSessions
Invalidate(u) ==
    /\ u \in stale
    /\ stale' = stale \ {u}
    /\ Remove(SessionsOf(u))
    /\ Hangup(SessionsOf(u))
    /\ UNCHANGED <<queue, worker, stop, goodbye, hanging, task, keys, pinOf>>

WorkerStep(c) ==
    \/ StopsIdle(c) \/ TakeJob(c) \/ HandleStopped(c) \/ AdmitRefuses(c) \/ Admit(c)
    \/ Answer(c) \/ Activate(c) \/ OnEstablished(c) \/ IgnoreKey(c) \/ MenuKey(c)
    \/ ChoiceKey(c) \/ Choose(c) \/ TypeDigit(c) \/ SubmitPIN(c) \/ LookupPIN(c)
    \/ CheckPIN(c) \/ WorkerBegins(c) \/ WorkerEnds(c) \/ WorkerSays(c) \/ WorkerMoves(c)
TaskStep(c) ==
    TaskSays(c) \/ TaskMoves(c) \/ TaskBegins(c) \/ TaskEnds(c) \/ CodeEnds(c)
TimerStep(c) == TimerFires(c) \/ GoodbyeBegins(c) \/ GoodbyeEnds(c) \/ DelayedHangup(c)
ReaderStep(c) == ReadEvent(c) \/ ReadClosed(c)

Next ==
    \/ \E c \in Calls :
         \/ CallComes(c) \/ FarEndCloses(c)
         \/ \E k \in Pressed : PressKey(c, k)
         \/ WorkerStep(c) \/ TaskStep(c) \/ TimerStep(c) \/ ReaderStep(c)
    \/ \E u \in Users : ChangePIN(u) \/ Invalidate(u)

Spec == Init /\ [][Next]_vars

(***************************************************************************)
(* Properties                                                              *)
(***************************************************************************)

Jobs == [kind : {"incoming", "established", "key"}, key : {0} \cup Keys,
         stamp : Nat, signed : BOOLEAN]

TypeOK ==
    /\ shim \in [Calls -> {"off", "ringing", "up", "over"}]
    /\ \A c \in Calls :
         /\ \A i \in DOMAIN wire[c] : wire[c][i] \in {"incoming", "established", "closed", "error"}
         /\ Len(queue[c]) <= QueueSize
         /\ \A i \in DOMAIN queue[c] : queue[c][i] \in Jobs
         /\ worker[c].job \in Jobs \cup {NoJob}
         /\ sess[c].in \in {"none", "open", "closed", "gone"}
         /\ sess[c].state \in {"pin", "choice", "verify", "main", "closed"}
         /\ sess[c].user \in Users /\ sess[c].fails \in 0..MaxKeys /\ sess[c].lease \in {0, 1}
    /\ stop \in [Calls -> BOOLEAN]
    /\ timer \in [Calls -> BOOLEAN]
    /\ goodbye \in [Calls -> {"none", "due", "playing"}]
    /\ hanging \in [Calls -> BOOLEAN]
    /\ task \in [Calls -> {"none", "say", "sayMenu", "prompt", "promptCode", "playing",
                           "playingCode", "ended"}]
    /\ leases \in [Calls -> Nat] /\ keys \in [Calls -> 0..MaxKeys]
    /\ pinOf \in [Users -> {1, 2}] /\ stale \subseteq Users

\* A caller who is signed in and not cut off used the PIN that is valid now, or the
\* request that changed it is about to end the call (InvalidateUserSessions).
SignedInWithCurrentPIN ==
    \A c \in Calls : Open(c) /\ sess[c].auth =>
        sess[c].authPIN = pinOf[sess[c].user] \/ sess[c].user \in stale

\* A key reaches the menu of a signed-in caller only if it was pressed after the
\* PIN was accepted: keys typed ahead of the PIN check do nothing.
KeyAfterSignIn ==
    \A c \in Calls : Handles(c, "key") /\ Open(c) /\ sess[c].auth => worker[c].job.signed

\* However fast the caller presses keys, an answered call that is not being hung
\* up keeps its call_established event until the worker has handled it.
EstablishedKept ==
    \A c \in Calls :
        Open(c) /\ shim[c] = "up" /\ wire[c] = <<>> /\ ~sess[c].est =>
            \/ \E i \in DOMAIN queue[c] : queue[c][i].kind = "established"
            \/ Handles(c, "established")

\* The call is over and nothing of it is running.
Over(c) ==
    /\ sess[c].in \in {"none", "gone"} /\ worker[c].pc \in {"none", "dead"}
    /\ task[c] \in {"none", "ended"}

\* A voice unloads when the last call using it ends: an ended call has given back
\* every speech lease it took.
\* The code does not keep this: see section 6 of the README.
LeasesReturned == \A c \in Calls : Over(c) => leases[c] = 0

\* The same for callers who did not pass the account menu, whenever the call
\* ended: also between the answer and the activation of its speech.
LeasesReturnedUnchosen == \A c \in Calls : Over(c) /\ ~sess[c].chosen => leases[c] = 0

\* An answered call is never left alone: it has a session, and unless a prompt
\* plays or its hang-up is scheduled the inactivity timer is armed, so that a
\* caller who falls silent does not keep the line for ever.
NeverForgotten ==
    \A c \in Calls : shim[c] = "up" =>
        Open(c) /\ (timer[c] \/ Plays(c) > 0 \/ hanging[c])

(* SignedIn: who is signed in gave the PIN in force, and keys reach the mail
   handlers only after that. *)
SignedIn == SignedInWithCurrentPIN /\ KeyAfterSignIn

(* CallersKept: an established call keeps its place, its leases return when
   it ends, and no waiting call is forgotten. *)
CallersKept == EstablishedKept /\ LeasesReturnedUnchosen /\ NeverForgotten
=============================================================================
