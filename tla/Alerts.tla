------------------------------- MODULE Alerts -------------------------------
(***************************************************************************)
(* The new-mail alert service (internal/alerts/alerts.go) over the claims, *)
(* attempt counts and cooldowns it keeps in SQLite (internal/store).       *)
(*                                                                         *)
(* Three kinds of actor interleave: the round loop of Service.Run, one     *)
(* finishAlert goroutine per accepted call, and TestAlert requests from    *)
(* the web console.  The process may be cancelled, may stop at any point   *)
(* and start again; SQLite writes may fail.  What happens on the telephone *)
(* between an accepted dial and its Done value is left to OutboundCalls.   *)
(*                                                                         *)
(* Time is relative: ages and remaining cooldowns count ticks, so the      *)
(* model needs no bound on the clock.                                      *)
(***************************************************************************)
EXTENDS Naturals, FiniteSets

CONSTANTS
    Users,          \* owners of alert-enabled accounts
    Messages,       \* rows of mail_messages
    Owner,          \* Owner[m]: the user whose account holds m
    MaxAttempts,    \* store.maxAlertAttempts
    MaxConcurrent,  \* Service.MaxConcurrent
    MaxPerRound,    \* Service.MaxPerRound
    MinDelay,       \* Service.MinDelay, in ticks
    StaleAfter,     \* the 15 minutes of the stale-claim sweep, in ticks
    CallTicks,      \* longest time from claim to outcome, in ticks
    MaxCrashes,     \* bound: how often the process ends
    Faults,         \* which of "crash", "cancel", "store" may happen
    Changes,        \* which of "read", "settings", "available" may change
    TestUsers       \* users who press "Send test alert call"

ASSUME AlertsAssumption ==
    /\ Users # {} /\ IsFiniteSet(Users)
    /\ IsFiniteSet(Messages)
    /\ Owner \in [Messages -> Users]
    /\ MaxAttempts \in Nat \ {0}
    /\ MaxConcurrent \in Nat \ {0}
    /\ MaxPerRound \in Nat \ {0}
    /\ MinDelay \in Nat \ {0}
    /\ CallTicks \in Nat \ {0}
    /\ StaleAfter \in Nat
    /\ CallTicks < StaleAfter
    /\ MaxCrashes \in Nat
    /\ Faults \subseteq {"crash", "cancel", "store"}
    /\ Changes \subseteq {"read", "settings", "available"}
    /\ TestUsers \subseteq Users

VARIABLES
    unread,     \* messages with is_read = 0
    alertable,  \* users with alerts enabled, a number and alert folders
    available,  \* system_settings.alerts_available
    alerted,    \* messages with alerted = 1
    attempts,   \* mail_messages.alert_attempts
    claim,      \* alert_claims: no row, an unannounced row, an announced row
    claimAge,   \* ticks since claimed_at of an unannounced row
    nextDial,   \* settings.alert_next_dial, in remaining ticks
    up,         \* the process runs
    ctxDone,    \* the provider-worker context is cancelled
    last,       \* Service.last, as the remaining part of MinDelay
    testLast,   \* Service.testLast, likewise
    inflight,   \* Service.inflight
    reserved,   \* users with a slot in Service.pendingByUser
    round,      \* where Service.round is, and its local variables
    call,       \* per user: the alert call the bridge accepted, and its Done
    fin,        \* per user: where the finishAlert goroutine is
    test,       \* per user: the TestAlert request, its call, its goroutine
    heard,      \* history: complete announcements of a message, up to 2
    dials,      \* history: accepted dials that carried a message
    cool,       \* history: ticks until MinDelay has passed since the last dial,
                \* as far as the process can know it
    unsaved,    \* history: users whose last dial has no durable cooldown
    crashes     \* history: how often the process ended

settingsVars == <<unread, alertable, available>>
storeVars    == <<alerted, attempts, claim, claimAge, nextDial>>
memoryVars   == <<last, testLast, inflight, reserved>>
historyVars  == <<heard, dials, cool, unsaved, crashes>>
vars == <<settingsVars, storeVars, up, ctxDone, memoryVars, round, call, fin,
          test, historyVars>>

RoundPC   == {"idle", "group", "users", "reserve", "claim", "dial", "persist"}
RoundSet  == [pc : RoundPC, cands : SUBSET Messages, left : SUBSET Users,
              ids : SUBSET Messages, user : Users]
CallState == {"none", "live", "heard", "failed"}
CallSet   == [st : CallState, ids : SUBSET Messages]
FinState  == {"none", "waiting", "mark", "release"}
TestPC    == {"idle", "reserve", "dial", "persist"}
TestSet   == [pc : TestPC, live : BOOLEAN, waiting : BOOLEAN]

IdleRound == [pc |-> "idle", cands |-> {}, left |-> {}, ids |-> {},
              user |-> CHOOSE u \in Users : TRUE]
NoCall    == [st |-> "none", ids |-> {}]
NoTest    == [pc |-> "idle", live |-> FALSE, waiting |-> FALSE]

Init ==
    /\ unread = Messages
    /\ alertable = Users
    /\ available = TRUE
    /\ alerted = {}
    /\ attempts = [m \in Messages |-> 0]
    /\ claim = [m \in Messages |-> "none"]
    /\ claimAge = [m \in Messages |-> 0]
    /\ nextDial = [u \in Users |-> 0]
    /\ up = TRUE
    /\ ctxDone = FALSE
    /\ last = [u \in Users |-> 0]
    /\ testLast = [u \in Users |-> 0]
    /\ inflight = {}
    /\ reserved = {}
    /\ round = IdleRound
    /\ call = [u \in Users |-> NoCall]
    /\ fin = [u \in Users |-> "none"]
    /\ test = [u \in Users |-> NoTest]
    /\ heard = [m \in Messages |-> 0]
    /\ dials = [m \in Messages |-> 0]
    /\ cool = [u \in Users |-> 0]
    /\ unsaved = {}
    /\ crashes = 0

Dec(n) == IF n = 0 THEN 0 ELSE n - 1

(***************************************************************************)
(* internal/store: what the transactions do.                               *)
(***************************************************************************)

\* Mutants of Swept: a cutoff shorter than a call, and no sweep at all.
SweptEarly == [m \in Messages |->
                 IF claim[m] = "held" /\ claimAge[m] >= CallTicks
                 THEN "none" ELSE claim[m]]
SweptNever == claim

\* DELETE FROM alert_claims WHERE announced_at IS NULL AND claimed_at < cutoff
Swept == [m \in Messages |->
            IF claim[m] = "held" /\ claimAge[m] >= StaleAfter
            THEN "none" ELSE claim[m]]

\* Mutant: the attempt cap is read as inclusive.
AlertableOnceMore(m) ==
    m \in unread \ alerted /\ attempts[m] <= MaxAttempts /\ Owner[m] \in alertable

\* The WHERE clause PendingAlerts and ClaimAlertMessages share.
Alertable(m) ==
    /\ m \in unread /\ m \notin alerted
    /\ attempts[m] < MaxAttempts
    /\ Owner[m] \in alertable

PendingAlerts == {m \in Messages : Alertable(m) /\ Swept[m] # "held"}

\* The rows INSERT OR IGNORE adds: the primary key refuses a second claim.
Claimable(ids) == {m \in ids : available /\ Alertable(m) /\ Swept[m] = "none"}

ClaimAlertMessages(claimed) ==
    /\ claim' = [m \in Messages |-> IF m \in claimed THEN "held" ELSE Swept[m]]
    /\ claimAge' = [m \in Messages |->
                      IF m \in claimed \/ Swept[m] # "held" THEN 0 ELSE claimAge[m]]
    /\ attempts' = [m \in Messages |->
                      IF m \in claimed THEN attempts[m] + 1 ELSE attempts[m]]
    /\ UNCHANGED <<alerted, nextDial>>

\* Mutant: a released claim gives its attempt back.
ReleaseAndRefund(ids) ==
    /\ claim' = [m \in Messages |-> IF m \in ids THEN "none" ELSE claim[m]]
    /\ attempts' = [m \in Messages |-> IF m \in ids THEN 0 ELSE attempts[m]]
    /\ UNCHANGED <<claimAge, alerted, nextDial>>

ReleaseAlertClaims(ids) ==
    /\ claim' = [m \in Messages |->
                   IF m \in ids /\ claim[m] = "held" THEN "none" ELSE claim[m]]
    /\ claimAge' = [m \in Messages |-> IF m \in ids THEN 0 ELSE claimAge[m]]
    /\ UNCHANGED <<alerted, attempts, nextDial>>

MarkAlertMessagesNotified(ids) ==
    /\ alerted' = alerted \cup ids
    /\ claim' = [m \in Messages |->
                   IF m \in ids /\ claim[m] # "none" THEN "announced" ELSE claim[m]]
    /\ claimAge' = [m \in Messages |-> IF m \in ids THEN 0 ELSE claimAge[m]]
    /\ UNCHANGED <<attempts, nextDial>>

StoreMayFail == "store" \in Faults

(***************************************************************************)
(* internal/alerts: one round.                                             *)
(***************************************************************************)

\* Mutant: a user who has a slot gets another one.
CanReserveAnyUser(u) == Cardinality(reserved) < MaxConcurrent

CanReserve(u) == Cardinality(reserved) < MaxConcurrent /\ u \notin reserved

\* Where the loop over the users continues.
Visit(cands, left) ==
    [pc |-> "users", cands |-> cands, left |-> left, ids |-> {}, user |-> round.user]

NextUser == Visit(round.cands, round.left \ {round.user})

RoundScan ==
    /\ up /\ ~ctxDone /\ round.pc = "idle"
    /\ IF available
       THEN /\ claim' = Swept
            /\ claimAge' = [m \in Messages |-> IF Swept[m] = "held" THEN claimAge[m] ELSE 0]
            /\ round' = [IdleRound EXCEPT !.pc = "group", !.cands = PendingAlerts]
       ELSE /\ round' = [IdleRound EXCEPT !.pc = "group"]
            /\ UNCHANGED <<claim, claimAge>>
    /\ UNCHANGED <<settingsVars, alerted, attempts, nextDial, up, ctxDone,
                   memoryVars, call, fin, test, historyVars>>

\* Drop what is in flight and group the rest by user.
RoundGroup ==
    /\ up /\ round.pc = "group"
    /\ LET rest == round.cands \ inflight IN
       round' = Visit(rest, {Owner[m] : m \in rest})
    /\ UNCHANGED <<settingsVars, storeVars, up, ctxDone, memoryVars, call, fin,
                   test, historyVars>>

\* No SIP registrar or domain is configured: the round ends.
RoundNoDomain ==
    /\ up /\ round.pc = "group"
    /\ round' = IdleRound
    /\ UNCHANGED <<settingsVars, storeVars, up, ctxDone, memoryVars, call, fin,
                   test, historyVars>>

\* Mutant: a deadline in SQLite is ignored.
CoolingDownInMemory(u, readable) == last[u] > 0

\* The durable deadline counts only while it can be read.
CoolingDown(u, readable) == last[u] > 0 \/ (readable /\ nextDial[u] > 0)

RoundCheckCooldown(u) ==
    /\ up /\ round.pc = "users" /\ u \in round.left
    /\ \E readable \in BOOLEAN :
         /\ readable \/ ctxDone \/ StoreMayFail
         /\ round' = IF CoolingDown(u, readable)
                     THEN [round EXCEPT !.left = @ \ {u}]
                     ELSE [round EXCEPT !.pc = "reserve", !.user = u]
         /\ cool' = IF readable THEN cool ELSE [cool EXCEPT ![u] = last[u]]
    /\ UNCHANGED <<settingsVars, storeVars, up, ctxDone, memoryVars, call, fin, test,
                   heard, dials, unsaved, crashes>>

RoundReserve ==
    /\ up /\ round.pc = "reserve"
    /\ IF CanReserve(round.user)
       THEN /\ reserved' = reserved \cup {round.user}
            /\ round' = [round EXCEPT !.pc = "claim"]
       ELSE /\ round' = NextUser
            /\ UNCHANGED reserved
    /\ UNCHANGED <<settingsVars, storeVars, up, ctxDone, last, testLast, inflight,
                   call, fin, test, historyVars>>

\* The candidates of one user, cut to MaxPerRound.
RoundList(u) ==
    LET own == {m \in round.cands : Owner[m] = u} IN
    {l \in SUBSET own :
        \/ l = own /\ Cardinality(own) <= MaxPerRound
        \/ Cardinality(l) = MaxPerRound}

RoundClaim ==
    /\ up /\ round.pc = "claim" /\ ~ctxDone
    /\ \E list \in RoundList(round.user) :
         LET claimed == Claimable(list) IN
         /\ ClaimAlertMessages(claimed)
         /\ IF claimed = {}
            THEN /\ reserved' = reserved \ {round.user}
                 /\ round' = NextUser
                 /\ UNCHANGED inflight
            ELSE /\ inflight' = inflight \cup claimed
                 /\ round' = [round EXCEPT !.pc = "dial", !.ids = claimed]
                 /\ UNCHANGED reserved
    /\ UNCHANGED <<settingsVars, up, ctxDone, last, testLast, call, fin, test,
                   historyVars>>

\* The dial target is blank, or the claim transaction failed.
RoundClaimFails ==
    /\ up /\ round.pc = "claim"
    /\ reserved' = reserved \ {round.user}
    /\ round' = NextUser
    /\ UNCHANGED <<settingsVars, storeVars, up, ctxDone, last, testLast, inflight,
                   call, fin, test, historyVars>>

RoundDial ==
    /\ up /\ round.pc = "dial" /\ ~ctxDone
    /\ LET u == round.user IN
       /\ call' = [call EXCEPT ![u] = [st |-> "live", ids |-> round.ids]]
       /\ cool' = [cool EXCEPT ![u] = MinDelay]
       /\ unsaved' = unsaved \cup {u}
    /\ dials' = [m \in Messages |-> IF m \in round.ids THEN dials[m] + 1 ELSE dials[m]]
    /\ round' = [round EXCEPT !.pc = "persist"]
    /\ UNCHANGED <<settingsVars, storeVars, up, ctxDone, memoryVars, fin, test,
                   heard, crashes>>

RoundDialFails ==
    /\ up /\ round.pc = "dial"
    /\ reserved' = reserved \ {round.user}
    /\ inflight' = inflight \ round.ids
    /\ round' = NextUser
    /\ \/ ReleaseAlertClaims(round.ids)
       \/ StoreMayFail /\ UNCHANGED storeVars
    /\ UNCHANGED <<settingsVars, up, ctxDone, last, testLast, call, fin, test,
                   historyVars>>

\* The cooldown is kept in memory and in SQLite, then finishAlert starts.
RoundPersist ==
    /\ up /\ round.pc = "persist"
    /\ LET u == round.user IN
       /\ last' = [last EXCEPT ![u] = MinDelay]
       /\ fin' = [fin EXCEPT ![u] = "waiting"]
       /\ \/ /\ nextDial' = [nextDial EXCEPT ![u] = MinDelay]
             /\ unsaved' = unsaved \ {u}
          \/ StoreMayFail /\ UNCHANGED <<nextDial, unsaved>>
    /\ round' = NextUser
    /\ UNCHANGED <<settingsVars, alerted, attempts, claim, claimAge, up, ctxDone,
                   testLast, inflight, reserved, call, test, heard, dials, cool,
                   crashes>>

RoundEnd ==
    /\ up /\ round.pc = "users" /\ round.left = {}
    /\ round' = IdleRound
    /\ UNCHANGED <<settingsVars, storeVars, up, ctxDone, memoryVars, call, fin,
                   test, historyVars>>

(***************************************************************************)
(* internal/alerts: the outcome of a call.                                 *)
(***************************************************************************)

CallHeard(u) ==
    /\ up /\ call[u].st = "live"
    /\ call' = [call EXCEPT ![u].st = "heard"]
    /\ heard' = [m \in Messages |->
                   IF m \in call[u].ids /\ heard[m] < 2 THEN heard[m] + 1 ELSE heard[m]]
    /\ UNCHANGED <<settingsVars, storeVars, up, ctxDone, memoryVars, round, fin,
                   test, dials, cool, unsaved, crashes>>

CallFails(u) ==
    /\ up /\ call[u].st = "live"
    /\ call' = [call EXCEPT ![u].st = "failed"]
    /\ UNCHANGED <<settingsVars, storeVars, up, ctxDone, memoryVars, round, fin,
                   test, historyVars>>

\* Mutant: clearInflight is forgotten.
FinishDoneKeepsInflight(u) ==
    /\ up /\ fin[u] = "waiting" /\ call[u].st \in {"heard", "failed"}
    /\ fin' = [fin EXCEPT ![u] = IF call[u].st = "heard" THEN "mark" ELSE "release"]
    /\ UNCHANGED <<settingsVars, storeVars, up, ctxDone, memoryVars, round, call,
                   test, historyVars>>

\* finishAlert's select takes the Done value.
FinishDone(u) ==
    /\ up /\ fin[u] = "waiting" /\ call[u].st \in {"heard", "failed"}
    /\ fin' = [fin EXCEPT ![u] = IF call[u].st = "heard" THEN "mark" ELSE "release"]
    /\ inflight' = inflight \ call[u].ids
    /\ UNCHANGED <<settingsVars, storeVars, up, ctxDone, last, testLast, reserved,
                   round, call, test, historyVars>>

\* finishAlert's select takes ctx.Done instead: the claims are kept.
FinishCanceled(u) ==
    /\ up /\ fin[u] = "waiting" /\ ctxDone
    /\ fin' = [fin EXCEPT ![u] = "none"]
    /\ inflight' = inflight \ call[u].ids
    /\ reserved' = reserved \ {u}
    /\ UNCHANGED <<settingsVars, storeVars, up, ctxDone, last, testLast, round,
                   call, test, historyVars>>

\* The claims are settled, then the deferred releasePending runs.
FinishStore(u) ==
    /\ up /\ fin[u] \in {"mark", "release"}
    /\ \/ fin[u] = "mark" /\ MarkAlertMessagesNotified(call[u].ids)
       \/ fin[u] = "release" /\ ReleaseAlertClaims(call[u].ids)
       \/ StoreMayFail /\ UNCHANGED storeVars
    /\ fin' = [fin EXCEPT ![u] = "none"]
    /\ call' = [call EXCEPT ![u] = NoCall]
    /\ reserved' = reserved \ {u}
    /\ UNCHANGED <<settingsVars, up, ctxDone, last, testLast, inflight, round, test,
                   historyVars>>

(***************************************************************************)
(* internal/alerts: TestAlert, one request per user at a time.             *)
(***************************************************************************)

TestCheck(u) ==
    /\ up /\ u \in TestUsers /\ test[u].pc = "idle"
    /\ \/ nextDial[u] = 0
       \/ StoreMayFail
    /\ testLast[u] = 0
    /\ test' = [test EXCEPT ![u].pc = "reserve"]
    /\ UNCHANGED <<settingsVars, storeVars, up, ctxDone, memoryVars, round, call,
                   fin, historyVars>>

TestReserve(u) ==
    /\ up /\ test[u].pc = "reserve"
    /\ IF CanReserve(u)
       THEN /\ reserved' = reserved \cup {u}
            /\ testLast' = [testLast EXCEPT ![u] = MinDelay]
            /\ test' = [test EXCEPT ![u].pc = "dial"]
       ELSE /\ test' = [test EXCEPT ![u].pc = "idle"]
            /\ UNCHANGED <<reserved, testLast>>
    /\ UNCHANGED <<settingsVars, storeVars, up, ctxDone, last, inflight, round,
                   call, fin, historyVars>>

TestDial(u) ==
    /\ up /\ test[u].pc = "dial" /\ ~ctxDone
    /\ test' = [test EXCEPT ![u] = [pc |-> "persist", live |-> TRUE, waiting |-> TRUE]]
    /\ UNCHANGED <<settingsVars, storeVars, up, ctxDone, memoryVars, round, call,
                   fin, historyVars>>

TestDialFails(u) ==
    /\ up /\ test[u].pc = "dial"
    /\ test' = [test EXCEPT ![u].pc = "idle"]
    /\ reserved' = reserved \ {u}
    /\ testLast' = [testLast EXCEPT ![u] = 0]
    /\ UNCHANGED <<settingsVars, storeVars, up, ctxDone, last, inflight, round,
                   call, fin, historyVars>>

\* SetAlertNextDial, then the handler returns and its request context ends.
TestPersist(u) ==
    /\ up /\ test[u].pc = "persist"
    /\ \/ nextDial' = [nextDial EXCEPT ![u] = MinDelay]
       \/ StoreMayFail /\ UNCHANGED nextDial
    /\ test' = [test EXCEPT ![u].pc = "idle"]
    /\ UNCHANGED <<settingsVars, alerted, attempts, claim, claimAge, up, ctxDone,
                   memoryVars, round, call, fin, historyVars>>

TestCallEnds(u) ==
    /\ up /\ test[u].live
    /\ test' = [test EXCEPT ![u].live = FALSE]
    /\ UNCHANGED <<settingsVars, storeVars, up, ctxDone, memoryVars, round, call,
                   fin, historyVars>>

\* The goroutine waits for Done or for the context of the HTTP request.
TestRelease(u) ==
    /\ up /\ test[u].waiting
    /\ ~test[u].live \/ test[u].pc = "idle" \/ ctxDone
    /\ test' = [test EXCEPT ![u].waiting = FALSE]
    /\ reserved' = reserved \ {u}
    /\ UNCHANGED <<settingsVars, storeVars, up, ctxDone, last, testLast, inflight,
                   round, call, fin, historyVars>>

(***************************************************************************)
(* The environment.                                                        *)
(***************************************************************************)

ReadStateChanges(m) ==
    /\ "read" \in Changes
    /\ unread' = IF m \in unread THEN unread \ {m} ELSE unread \cup {m}
    /\ UNCHANGED <<alertable, available, storeVars, up, ctxDone, memoryVars, round,
                   call, fin, test, historyVars>>

SettingsChange(u) ==
    /\ "settings" \in Changes
    /\ alertable' = IF u \in alertable THEN alertable \ {u} ELSE alertable \cup {u}
    /\ UNCHANGED <<unread, available, storeVars, up, ctxDone, memoryVars, round,
                   call, fin, test, historyVars>>

AvailabilityChanges ==
    /\ "available" \in Changes
    /\ available' = ~available
    /\ UNCHANGED <<unread, alertable, storeVars, up, ctxDone, memoryVars, round,
                   call, fin, test, historyVars>>

\* A message between its claim and the last step of its call.
Busy(m) ==
    \/ round.pc \in {"dial", "persist"} /\ m \in round.ids
    \/ \E u \in Users : m \in call[u].ids /\ (fin[u] # "none" \/ call[u].st = "live")

\* Time passes.  A round and a test call are shorter than a tick; the bounds
\* of the bridge write, of ringing and of playback keep a call within CallTicks.
Tick ==
    /\ round.pc = "idle"
    /\ \A u \in Users : test[u] = NoTest
    /\ \A m \in Messages : Busy(m) => claimAge[m] < CallTicks
    /\ claimAge' = [m \in Messages |->
                      IF claim[m] = "held" /\ claimAge[m] < StaleAfter
                      THEN claimAge[m] + 1 ELSE claimAge[m]]
    /\ nextDial' = [u \in Users |-> Dec(nextDial[u])]
    /\ last' = [u \in Users |-> Dec(last[u])]
    /\ testLast' = [u \in Users |-> Dec(testLast[u])]
    /\ cool' = [u \in Users |-> Dec(cool[u])]
    /\ UNCHANGED <<settingsVars, alerted, attempts, claim, up, ctxDone, inflight,
                   reserved, round, call, fin, test, heard, dials, unsaved, crashes>>

\* Shutdown begins: the provider-worker context is cancelled.
Cancel ==
    /\ "cancel" \in Faults /\ up /\ ~ctxDone /\ crashes < MaxCrashes
    /\ ctxDone' = TRUE
    /\ UNCHANGED <<settingsVars, storeVars, up, memoryVars, round, call, fin, test,
                   historyVars>>

\* The process ends, by a crash or at the end of a shutdown.
Stop ==
    /\ up /\ crashes < MaxCrashes
    /\ ctxDone \/ "crash" \in Faults
    /\ up' = FALSE
    /\ ctxDone' = FALSE
    /\ last' = [u \in Users |-> 0]
    /\ testLast' = [u \in Users |-> 0]
    /\ inflight' = {}
    /\ reserved' = {}
    /\ round' = IdleRound
    /\ call' = [u \in Users |-> NoCall]
    /\ fin' = [u \in Users |-> "none"]
    /\ test' = [u \in Users |-> NoTest]
    /\ crashes' = crashes + 1
    /\ UNCHANGED <<settingsVars, storeVars, heard, dials, cool, unsaved>>

Restart ==
    /\ ~up
    /\ up' = TRUE
    /\ cool' = [u \in Users |-> IF u \in unsaved THEN 0 ELSE cool[u]]
    /\ unsaved' = {}
    /\ UNCHANGED <<settingsVars, storeVars, ctxDone, memoryVars, round, call, fin,
                   test, heard, dials, crashes>>

RoundStep ==
    \/ RoundScan \/ RoundGroup \/ RoundNoDomain
    \/ \E u \in Users : RoundCheckCooldown(u)
    \/ RoundReserve \/ RoundClaim \/ RoundClaimFails
    \/ RoundDial \/ RoundDialFails \/ RoundPersist \/ RoundEnd

FinishStep(u) == FinishDone(u) \/ FinishCanceled(u) \/ FinishStore(u)

TestStep(u) ==
    \/ TestCheck(u) \/ TestReserve(u) \/ TestDial(u) \/ TestDialFails(u)
    \/ TestPersist(u) \/ TestCallEnds(u) \/ TestRelease(u)

Next ==
    \/ RoundStep
    \/ \E u \in Users : CallHeard(u) \/ CallFails(u) \/ FinishStep(u) \/ TestStep(u)
    \/ \E m \in Messages : ReadStateChanges(m)
    \/ \E u \in Users : SettingsChange(u)
    \/ AvailabilityChanges
    \/ Tick \/ Cancel \/ Stop \/ Restart

Spec == Init /\ [][Next]_vars

(***************************************************************************)
(* The loop of Run returns to PendingAlerts after every interval, a call   *)
(* has bounded ringing and playback, every store write is bounded by its   *)
(* cleanup context, a cancelled process exits and a supervisor restarts    *)
(* it.  A round without a SIP domain, a claim transaction or a dial of a user   *)
(* that fails may recur, but not for ever; the wait between two rounds     *)
(* lets time pass.                                                              *)
(***************************************************************************)
Fairness ==
    /\ WF_vars(RoundStep)
    /\ SF_vars(RoundGroup)
    /\ \A u \in Users :
         /\ SF_vars(round.user = u /\ RoundClaim)
         /\ SF_vars(round.user = u /\ RoundDial)
         /\ SF_vars(round.pc = "users" /\ RoundCheckCooldown(u))
         /\ WF_vars(CallHeard(u) \/ CallFails(u) \/ FinishStep(u))
         /\ WF_vars(TestStep(u) /\ test[u] # NoTest)
    /\ SF_vars(Tick)
    /\ WF_vars((ctxDone /\ Stop) \/ Restart)

FairSpec == Spec /\ Fairness

(***************************************************************************)
(* Properties.                                                             *)
(***************************************************************************)

TypeOK ==
    /\ unread \subseteq Messages /\ alertable \subseteq Users /\ available \in BOOLEAN
    /\ alerted \subseteq Messages
    /\ attempts \in [Messages -> 0..MaxAttempts]
    /\ claim \in [Messages -> {"none", "held", "announced"}]
    /\ claimAge \in [Messages -> 0..StaleAfter]
    /\ nextDial \in [Users -> 0..MinDelay]
    /\ up \in BOOLEAN /\ ctxDone \in BOOLEAN
    /\ last \in [Users -> 0..MinDelay] /\ testLast \in [Users -> 0..MinDelay]
    /\ inflight \subseteq Messages /\ reserved \subseteq Users
    /\ round \in RoundSet
    /\ call \in [Users -> CallSet]
    /\ fin \in [Users -> FinState]
    /\ test \in [Users -> TestSet]
    /\ heard \in [Messages -> 0..2]
    /\ dials \in [Messages -> Nat]
    /\ cool \in [Users -> 0..MinDelay] /\ unsaved \subseteq Users
    /\ crashes \in 0..MaxCrashes

\* No message is dialled for more than maxAlertAttempts times, whatever
\* crashes, cancellations and failed writes come between: the attempt is
\* recorded in the transaction of the claim, before the dial.
AttemptCap == \A m \in Messages : dials[m] <= MaxAttempts

\* While the round is about to dial a user, no earlier alert call to that user
\* is still connecting or playing: reservePending keeps one slot per user until
\* the Done value of the call was settled.
OneAlertCallPerUser ==
    round.pc = "dial" => call[round.user].st = "none"

\* As long as a call can still announce a message, SQLite holds the message's
\* unannounced claim, so no other round and no restarted process picks it up;
\* a cancelled finishAlert must not release it.
LiveCallHoldsClaim ==
    \A u \in Users : call[u].st = "live" =>
        \A m \in call[u].ids : claim[m] = "held" /\ Owner[m] = u

\* The durable and the in-memory cooldown together keep two alert calls to one
\* user MinDelay apart, also across a restart; only a process that ended before
\* SetAlertNextDial succeeded, or cannot read the deadline, may dial earlier.
CooldownHolds == round.pc = "dial" => cool[round.user] = 0

\* As long as SQLite can be written, a subscriber hears the announcement of a
\* message once, and once more for each time the process ended.
HeardOnce == \A m \in Messages : heard[m] <= crashes + 1

\* The call of a heard message, before finishAlert has seen its outcome.
Unrecorded(m) ==
    \E u \in Users :
        /\ call[u].st = "heard" /\ m \in call[u].ids
        /\ fin[u] # "none" \/ (round.pc = "persist" /\ round.user = u)

\* A heard announcement is not forgotten while the process runs: its messages
\* are marked alerted, or finishAlert of that call is still to do it.
CompletionRecorded ==
    crashes = 0 /\ ~ctxDone =>
        \A m \in Messages : heard[m] > 0 => m \in alerted \/ Unrecorded(m)

\* The comment in finishAlert promises as much for a cancelled round: a call
\* that completes is still marked.
\* The code does not keep this: see section 6 of the README.
CanceledIsRecorded ==
    up /\ crashes = 0 =>
        \A m \in Messages : heard[m] > 0 => m \in alerted \/ Unrecorded(m)

\* MaxConcurrent counts every alert call that has no outcome: a live call keeps
\* the slot reservePending gave it, although test calls of the same user take
\* and give back slots too; only a cancelled finishAlert lets go of it.
SlotHeld ==
    /\ Cardinality(reserved) <= MaxConcurrent
    /\ \A u \in Users : call[u].st = "live" /\ ~ctxDone => u \in reserved

\* While alerts stay available no claim is stuck: every unannounced claim is
\* settled by finishAlert or removed by the stale-claim sweep, whatever crashed.
ClaimsSettle ==
    (<>[]available) => \A m \in Messages : []<>(claim[m] # "held")

\* A message that stays eligible is announced or uses up its attempts.
EligibleIsHandled ==
    \A m \in Messages :
        (<>[](available /\ m \in unread /\ Owner[m] \in alertable))
            => <>(m \in alerted \/ attempts[m] = MaxAttempts)

(* CallsHold: every call in progress belongs to one person, holds a claim on
   each message it announces and a slot of the service, and no message is
   dialled more often than its attempts allow. *)
CallsHold == OneAlertCallPerUser /\ LiveCallHoldsClaim /\ SlotHeld /\ AttemptCap

(* AnnouncedOnce: a message is announced again only after a crash, and a call
   that ended well is recorded. *)
AnnouncedOnce == HeardOnce /\ CompletionRecorded

(* Settles: no claim stays open, and what is eligible is handled in the end. *)
Settles == ClaimsSettle /\ EligibleIsHandled
=============================================================================
