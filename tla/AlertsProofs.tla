---------------------------- MODULE AlertsProofs ----------------------------
(***************************************************************************)
(* Proofs of the safety properties of Alerts, for every set of users and   *)
(* messages and every value of the other constants.                        *)
(*                                                                         *)
(* AttemptCap needs the order in which the code counts and dials: an       *)
(* attempt is durable before its dial (AttemptInv).  OneAlertCallPerUser   *)
(* needs to know who holds a user's slot: the round, one finishAlert       *)
(* goroutine or one test call, never two of them (Slots).                  *)
(* LiveCallHoldsClaim needs both, and that a claim is younger than the     *)
(* sweep's cutoff while its call lasts (Claims).  CooldownHolds needs what *)
(* memory and SQLite each know of the last dial (Cooling), AnnouncedOnce   *)
(* what becomes of a heard call until it is recorded (Once).               *)
(***************************************************************************)
EXTENDS Alerts, TLAPS, FiniteSetTheorems

\* A claim is counted before the dial that uses it.
AttemptInv ==
    \A m \in Messages :
        /\ dials[m] <= attempts[m]
        /\ round.pc = "dial" /\ m \in round.ids => dials[m] < attempts[m]

-----------------------------------------------------------------------------
LEMMA IdleRoundType == IdleRound \in RoundSet
BY AlertsAssumption DEF IdleRound, RoundSet, RoundPC, AlertsAssumption

LEMMA InitType == Init => TypeOK
<1> SUFFICES ASSUME Init PROVE TypeOK
  OBVIOUS
<1> USE AlertsAssumption DEF Init, AlertsAssumption
<1>1. round \in RoundSet
  <2>1. (CHOOSE u \in Users : TRUE) \in Users
    OBVIOUS
  <2> QED BY <2>1 DEF RoundSet, RoundPC, IdleRound
<1>2. /\ call \in [Users -> CallSet]
      /\ fin \in [Users -> FinState]
      /\ test \in [Users -> TestSet]
  BY DEF CallSet, CallState, FinState, TestSet, TestPC, NoCall, NoTest
<1>3. /\ attempts \in [Messages -> 0..MaxAttempts]
      /\ claim \in [Messages -> {"none", "held", "announced"}]
      /\ claimAge \in [Messages -> 0..StaleAfter]
      /\ heard \in [Messages -> 0..2]
      /\ dials \in [Messages -> Nat]
  OBVIOUS
<1>4. /\ nextDial \in [Users -> 0..MinDelay]
      /\ last \in [Users -> 0..MinDelay] /\ testLast \in [Users -> 0..MinDelay]
      /\ cool \in [Users -> 0..MinDelay]
      /\ crashes \in 0..MaxCrashes
  OBVIOUS
<1>5. /\ unread \subseteq Messages /\ alertable \subseteq Users /\ available \in BOOLEAN
      /\ alerted \subseteq Messages /\ inflight \subseteq Messages
      /\ up \in BOOLEAN /\ ctxDone \in BOOLEAN
      /\ reserved \subseteq Users /\ unsaved \subseteq Users
  OBVIOUS
<1> QED BY <1>1, <1>2, <1>3, <1>4, <1>5 DEF TypeOK

\* A step of the round keeps the variables in their types.
LEMMA RoundStepType == ASSUME TypeOK, RoundStep PROVE TypeOK'
<1> USE DEF settingsVars, memoryVars, storeVars, historyVars
<1>r. round \in RoundSet
  BY DEF TypeOK
<1>f. round.user \in Users /\ round.ids \subseteq Messages /\ round.cands \subseteq Messages
  BY <1>r DEF RoundSet
<1>a. \A m \in Messages : Owner[m] \in Users
  BY AlertsAssumption DEF AlertsAssumption
<1>1. CASE RoundScan
  <2>1. round' \in RoundSet
    <3>1. PendingAlerts \in SUBSET Messages
      BY DEF PendingAlerts
    <3>2. \A c \in SUBSET Messages : [IdleRound EXCEPT !.pc = "group", !.cands = c] \in RoundSet
      BY IdleRoundType DEF RoundSet, RoundPC
    <3>3. [IdleRound EXCEPT !.pc = "group"] \in RoundSet
      BY IdleRoundType DEF RoundSet, RoundPC
    <3> QED BY <3>1, <3>2, <3>3, <1>1 DEF RoundScan
  <2> QED BY <1>1, <2>1, AlertsAssumption DEF RoundScan, Swept, TypeOK, CallSet, CallState,
    FinState, AlertsAssumption
<1>2. CASE RoundGroup
  <2>1. round' \in RoundSet
    BY <1>r, <1>a, IdleRoundType, <1>2 DEF RoundGroup, Visit, RoundSet, RoundPC
  <2> QED BY <1>2, <2>1, AlertsAssumption DEF RoundGroup, Visit, TypeOK, CallSet, CallState,
    FinState, AlertsAssumption
<1>3. CASE RoundNoDomain
  <2>1. round' \in RoundSet
    BY <1>r, <1>a, IdleRoundType, <1>3 DEF RoundNoDomain, RoundSet, RoundPC
  <2> QED BY <1>3, <2>1, AlertsAssumption DEF RoundNoDomain, TypeOK, CallSet, CallState,
    FinState, AlertsAssumption
<1>4. ASSUME NEW u \in Users, RoundCheckCooldown(u) PROVE TypeOK'
  <2>1. round' \in RoundSet
    BY <1>r, <1>a, IdleRoundType, <1>4 DEF RoundCheckCooldown, RoundSet, RoundPC
  <2> QED BY <1>4, <2>1, AlertsAssumption DEF RoundCheckCooldown, TypeOK, CallSet, CallState,
    FinState, AlertsAssumption
<1>5. CASE RoundReserve
  <2>1. round' \in RoundSet
    BY <1>r, <1>a, IdleRoundType, <1>5 DEF RoundReserve, NextUser, Visit, RoundSet, RoundPC
  <2> QED BY <1>f, <1>5, <2>1, AlertsAssumption DEF RoundReserve, TypeOK, CallSet, CallState,
    FinState, AlertsAssumption
<1>6. CASE RoundClaim
  <2>1. PICK list \in RoundList(round.user) :
          /\ ClaimAlertMessages(Claimable(list))
          /\ IF Claimable(list) = {}
             THEN /\ reserved' = reserved \ {round.user}
                  /\ round' = NextUser
                  /\ UNCHANGED inflight
             ELSE /\ inflight' = inflight \cup Claimable(list)
                  /\ round' = [round EXCEPT !.pc = "dial", !.ids = Claimable(list)]
                  /\ UNCHANGED reserved
    BY <1>6 DEF RoundClaim
  <2>2. /\ Claimable(list) \subseteq Messages
        /\ \A m \in Claimable(list) : attempts[m] < MaxAttempts
    BY <1>f DEF RoundList, Claimable, Alertable
  <2>3. round' \in RoundSet
    <3>1. NextUser \in RoundSet
      BY <1>r DEF NextUser, Visit, RoundSet, RoundPC
    <3>2. \A i \in SUBSET Messages : [round EXCEPT !.pc = "dial", !.ids = i] \in RoundSet
      BY <1>r DEF RoundSet, RoundPC
    <3> QED BY <2>1, <2>2, <3>1, <3>2
  <2>4. attempts' \in [Messages -> 0..MaxAttempts]
    <3>1. attempts \in [Messages -> 0..MaxAttempts]
      BY DEF TypeOK
    <3> QED BY <2>1, <2>2, <3>1, AlertsAssumption DEF ClaimAlertMessages, AlertsAssumption
  <2>5. claim' \in [Messages -> {"none", "held", "announced"}]
    BY <2>1 DEF ClaimAlertMessages, Swept, TypeOK
  <2>6. claimAge' \in [Messages -> 0..StaleAfter]
    BY <2>1, AlertsAssumption DEF ClaimAlertMessages, TypeOK, AlertsAssumption
  <2> QED BY <1>f, <1>6, <2>1, <2>2, <2>3, <2>4, <2>5, <2>6 DEF RoundClaim,
    ClaimAlertMessages, TypeOK
<1>7. CASE RoundClaimFails
  <2>1. round' \in RoundSet
    BY <1>r, <1>a, IdleRoundType, <1>7 DEF RoundClaimFails, NextUser, Visit, RoundSet, RoundPC
  <2> QED BY <1>7, <2>1, AlertsAssumption DEF RoundClaimFails, TypeOK, CallSet, CallState,
    FinState, AlertsAssumption
<1>8. CASE RoundDial
  <2>1. round' \in RoundSet
    BY <1>r, <1>a, IdleRoundType, <1>8 DEF RoundDial, RoundSet, RoundPC
  <2> QED BY <1>f, <1>8, <2>1, AlertsAssumption DEF RoundDial, TypeOK, CallSet, CallState,
    FinState, AlertsAssumption
<1>9. CASE RoundDialFails
  <2>1. round' \in RoundSet
    BY <1>r, <1>a, IdleRoundType, <1>9 DEF RoundDialFails, NextUser, Visit, RoundSet, RoundPC
  <2> QED BY <1>9, <2>1, AlertsAssumption DEF RoundDialFails, ReleaseAlertClaims, TypeOK,
    CallSet, CallState, FinState, AlertsAssumption
<1>10. CASE RoundPersist
  <2>1. round' \in RoundSet
    BY <1>r, <1>a, IdleRoundType, <1>10 DEF RoundPersist, NextUser, Visit, RoundSet, RoundPC
  <2> QED BY <1>f, <1>10, <2>1, AlertsAssumption DEF RoundPersist, TypeOK, CallSet, CallState,
    FinState, AlertsAssumption
<1>11. CASE RoundEnd
  <2>1. round' \in RoundSet
    BY <1>r, <1>a, IdleRoundType, <1>11 DEF RoundEnd, RoundSet, RoundPC
  <2> QED BY <1>11, <2>1, AlertsAssumption DEF RoundEnd, TypeOK, CallSet, CallState, FinState,
    AlertsAssumption
<1> QED BY <1>1, <1>2, <1>3, <1>4, <1>5, <1>6, <1>7, <1>8, <1>9, <1>10, <1>11 DEF RoundStep

\* A step of a call, a test, a setting, of time or of the process does too.
LEMMA OtherStepType == ASSUME TypeOK, Next, ~RoundStep PROVE TypeOK'
<1> USE DEF settingsVars, memoryVars, storeVars, historyVars
<1>a. AlertsAssumption
  BY AlertsAssumption
<1>t. /\ call \in [Users -> CallSet] /\ fin \in [Users -> FinState]
      /\ test \in [Users -> TestSet]
  BY DEF TypeOK
<1>1. ASSUME NEW u \in Users, CallHeard(u) PROVE TypeOK'
  <2>1. call' \in [Users -> CallSet]
    BY <1>t, <1>1 DEF CallHeard, CallSet, CallState
  <2> QED BY <1>a, <1>1, <2>1 DEF CallHeard, TypeOK, AlertsAssumption
<1>2. ASSUME NEW u \in Users, CallFails(u) PROVE TypeOK'
  <2>1. call' \in [Users -> CallSet]
    BY <1>t, <1>2 DEF CallFails, CallSet, CallState
  <2> QED BY <1>a, <1>2, <2>1 DEF CallFails, TypeOK, AlertsAssumption
<1>3. ASSUME NEW u \in Users, FinishDone(u) PROVE TypeOK'
  <2>1. fin' \in [Users -> FinState]
    BY <1>t, <1>3 DEF FinishDone, FinState
  <2> QED BY <1>a, <1>3, <2>1 DEF FinishDone, TypeOK, AlertsAssumption
<1>4. ASSUME NEW u \in Users, FinishCanceled(u) PROVE TypeOK'
  <2>1. fin' \in [Users -> FinState]
    BY <1>t, <1>4 DEF FinishCanceled, FinState
  <2> QED BY <1>a, <1>4, <2>1 DEF FinishCanceled, TypeOK, AlertsAssumption
<1>5. ASSUME NEW u \in Users, FinishStore(u) PROVE TypeOK'
  <2>1. call' \in [Users -> CallSet]
    BY <1>t, <1>5 DEF FinishStore, CallSet, CallState, NoCall
  <2>2. fin' \in [Users -> FinState]
    BY <1>t, <1>5 DEF FinishStore, FinState
  <2>3. /\ alerted' \subseteq Messages
        /\ attempts' \in [Messages -> 0..MaxAttempts]
        /\ claim' \in [Messages -> {"none", "held", "announced"}]
        /\ claimAge' \in [Messages -> 0..StaleAfter]
        /\ nextDial' \in [Users -> 0..MinDelay]
    <3>1. call[u].ids \subseteq Messages
      BY <1>t DEF CallSet
    <3>2. CASE MarkAlertMessagesNotified(call[u].ids)
      BY <1>a, <3>1, <3>2 DEF MarkAlertMessagesNotified, TypeOK, AlertsAssumption
    <3>3. CASE ReleaseAlertClaims(call[u].ids)
      BY <1>a, <3>1, <3>3 DEF ReleaseAlertClaims, TypeOK, AlertsAssumption
    <3>4. CASE UNCHANGED storeVars
      BY <3>4 DEF TypeOK
    <3> QED BY <1>5, <3>2, <3>3, <3>4 DEF FinishStore
  <2> QED BY <1>5, <2>1, <2>2, <2>3 DEF FinishStore, TypeOK
<1>6. ASSUME NEW u \in Users, TestCheck(u) PROVE TypeOK'
  <2>1. test' \in [Users -> TestSet]
    BY <1>t, <1>6 DEF TestCheck, TestSet, TestPC
  <2> QED BY <1>a, <1>6, <2>1 DEF TestCheck, TypeOK, AlertsAssumption
<1>7. ASSUME NEW u \in Users, TestReserve(u) PROVE TypeOK'
  <2>1. test' \in [Users -> TestSet]
    BY <1>t, <1>7 DEF TestReserve, TestSet, TestPC
  <2> QED BY <1>a, <1>7, <2>1 DEF TestReserve, TypeOK, AlertsAssumption
<1>8. ASSUME NEW u \in Users, TestDial(u) PROVE TypeOK'
  <2>1. test' \in [Users -> TestSet]
    BY <1>t, <1>8 DEF TestDial, TestSet, TestPC
  <2> QED BY <1>a, <1>8, <2>1 DEF TestDial, TypeOK, AlertsAssumption
<1>9. ASSUME NEW u \in Users, TestDialFails(u) PROVE TypeOK'
  <2>1. test' \in [Users -> TestSet]
    BY <1>t, <1>9 DEF TestDialFails, TestSet, TestPC
  <2> QED BY <1>a, <1>9, <2>1 DEF TestDialFails, TypeOK, AlertsAssumption
<1>10. ASSUME NEW u \in Users, TestPersist(u) PROVE TypeOK'
  <2>1. test' \in [Users -> TestSet]
    BY <1>t, <1>10 DEF TestPersist, TestSet, TestPC
  <2> QED BY <1>a, <1>10, <2>1 DEF TestPersist, TypeOK, AlertsAssumption
<1>11. ASSUME NEW u \in Users, TestCallEnds(u) PROVE TypeOK'
  <2>1. test' \in [Users -> TestSet]
    BY <1>t, <1>11 DEF TestCallEnds, TestSet, TestPC
  <2> QED BY <1>a, <1>11, <2>1 DEF TestCallEnds, TypeOK, AlertsAssumption
<1>12. ASSUME NEW u \in Users, TestRelease(u) PROVE TypeOK'
  <2>1. test' \in [Users -> TestSet]
    BY <1>t, <1>12 DEF TestRelease, TestSet, TestPC
  <2> QED BY <1>a, <1>12, <2>1 DEF TestRelease, TypeOK, AlertsAssumption
<1>13. ASSUME NEW u \in Users, SettingsChange(u) PROVE TypeOK'
  <2> QED BY <1>a, <1>13 DEF SettingsChange, TypeOK, AlertsAssumption
<1>14. CASE AvailabilityChanges
  <2> QED BY <1>a, <1>14 DEF AvailabilityChanges, TypeOK, AlertsAssumption
<1>15. CASE Tick
  <2>1. claimAge' \in [Messages -> 0..StaleAfter]
    BY <1>a, <1>15 DEF Tick, TypeOK, AlertsAssumption
  <2>2. \A n \in 0..MinDelay : Dec(n) \in 0..MinDelay
    BY <1>a DEF Dec, AlertsAssumption
  <2>3. /\ nextDial' \in [Users -> 0..MinDelay] /\ last' \in [Users -> 0..MinDelay]
        /\ testLast' \in [Users -> 0..MinDelay] /\ cool' \in [Users -> 0..MinDelay]
    BY <1>15, <2>2 DEF Tick, TypeOK
  <2> QED BY <1>15, <2>1, <2>3 DEF Tick, TypeOK
<1>16. CASE Cancel
  <2> QED BY <1>a, <1>16 DEF Cancel, TypeOK, AlertsAssumption
<1>17. CASE Stop
  <2>1. call' \in [Users -> CallSet]
    BY <1>t, <1>17 DEF Stop, CallSet, CallState, NoCall
  <2>2. fin' \in [Users -> FinState]
    BY <1>t, <1>17 DEF Stop, FinState
  <2>3. test' \in [Users -> TestSet]
    BY <1>t, <1>17 DEF Stop, TestSet, TestPC, NoTest
  <2>4. /\ last' \in [Users -> 0..MinDelay] /\ testLast' \in [Users -> 0..MinDelay]
        /\ crashes' \in 0..MaxCrashes
    BY <1>a, <1>17 DEF Stop, TypeOK, AlertsAssumption
  <2> QED BY IdleRoundType, <1>17, <2>1, <2>2, <2>3, <2>4 DEF Stop, TypeOK
<1>18. CASE Restart
  <2> QED BY <1>a, <1>18 DEF Restart, TypeOK, AlertsAssumption
<1>19. ASSUME NEW m \in Messages, ReadStateChanges(m) PROVE TypeOK'
  BY <1>19 DEF ReadStateChanges, TypeOK
<1> QED BY <1>1, <1>2, <1>3, <1>4, <1>5, <1>6, <1>7, <1>8, <1>9, <1>10, <1>11, <1>12, <1>13,
  <1>14, <1>15, <1>16, <1>17, <1>18, <1>19 DEF Next, FinishStep, TestStep

LEMMA StepType == TypeOK /\ [Next]_vars => TypeOK'
<1>1. ASSUME TypeOK, UNCHANGED vars PROVE TypeOK'
  BY <1>1 DEF TypeOK, vars, settingsVars, memoryVars, storeVars, historyVars
<1> QED BY <1>1, RoundStepType, OtherStepType

\* Every variable keeps its type; in particular no message is claimed more
\* than MaxAttempts times (ClaimAlertMessages checks the count it raises).
THEOREM TypeCorrect == Spec => []TypeOK
BY InitType, StepType, PTL DEF Spec

-----------------------------------------------------------------------------
\* Only RoundClaim raises a count, only RoundDial uses it up.
LEMMA StepAttempts == ASSUME TypeOK, AttemptInv, [Next]_vars PROVE AttemptInv'
<1> USE DEF settingsVars, memoryVars, storeVars, historyVars
<1>t. /\ attempts \in [Messages -> 0..MaxAttempts] /\ dials \in [Messages -> Nat]
      /\ round \in RoundSet
  BY DEF TypeOK
<1>m. AlertsAssumption
  BY AlertsAssumption
<1>1. CASE RoundClaim
  <2>1. PICK list \in RoundList(round.user) :
          /\ ClaimAlertMessages(Claimable(list))
          /\ \/ round' = NextUser
             \/ round' = [round EXCEPT !.pc = "dial", !.ids = Claimable(list)]
    BY <1>1 DEF RoundClaim
  <2>2. ASSUME NEW m \in Messages
        PROVE  attempts'[m] = IF m \in Claimable(list) THEN attempts[m] + 1 ELSE attempts[m]
    BY <2>1 DEF ClaimAlertMessages
  <2>3. dials' = dials
    BY <1>1 DEF RoundClaim
  <2>4. round'.pc = "dial" => round'.ids = Claimable(list)
    <3>1. NextUser.pc = "users"
      BY DEF NextUser, Visit
    <3>2. \A i : [round EXCEPT !.pc = "dial", !.ids = i].ids = i
      BY <1>t DEF RoundSet
    <3> QED BY <2>1, <3>1, <3>2
  <2>5. ASSUME NEW m \in Messages
        PROVE  /\ dials[m] <= attempts'[m]
               /\ m \in Claimable(list) => dials[m] < attempts'[m]
    <3>1. dials[m] \in Nat /\ attempts[m] \in Nat /\ dials[m] <= attempts[m]
      BY <1>t, <1>m DEF AttemptInv, AlertsAssumption
    <3> QED BY <2>2, <3>1
  <2> QED BY <2>3, <2>4, <2>5 DEF AttemptInv
<1>2. CASE RoundDial
  <2>1. ASSUME NEW m \in Messages
        PROVE  dials'[m] = IF m \in round.ids THEN dials[m] + 1 ELSE dials[m]
    BY <1>2 DEF RoundDial
  <2>2. round.pc = "dial" /\ round'.pc = "persist" /\ attempts' = attempts
    BY <1>2, <1>t DEF RoundDial, RoundSet
  <2>3. ASSUME NEW m \in Messages
        PROVE  dials'[m] <= attempts[m]
    <3>1. dials[m] \in Nat /\ attempts[m] \in Nat
      BY <1>t, <1>m DEF AlertsAssumption
    <3> QED BY <2>1, <2>2, <3>1 DEF AttemptInv
  <2> QED BY <2>2, <2>3 DEF AttemptInv
<1>3. ASSUME ~RoundClaim, ~RoundDial
      PROVE  /\ UNCHANGED <<dials, attempts>>
             /\ round'.pc = "dial" => round' = round
  <2>1. ASSUME RoundStep
        PROVE  /\ UNCHANGED <<dials, attempts>>
               /\ round'.pc = "dial" => round' = round
    <3>1. ASSUME RoundScan
          PROVE  UNCHANGED <<dials, attempts>> /\ round'.pc # "dial"
      BY <1>t, <3>1 DEF RoundScan, NextUser, Visit, IdleRound, RoundSet
    <3>2. ASSUME RoundGroup
          PROVE  UNCHANGED <<dials, attempts>> /\ round'.pc # "dial"
      BY <1>t, <3>2 DEF RoundGroup, NextUser, Visit, RoundSet
    <3>3. ASSUME RoundNoDomain
          PROVE  UNCHANGED <<dials, attempts>> /\ round'.pc # "dial"
      BY <1>t, <3>3 DEF RoundNoDomain, NextUser, Visit, IdleRound, RoundSet
    <3>4. ASSUME NEW u \in Users, RoundCheckCooldown(u)
          PROVE  UNCHANGED <<dials, attempts>> /\ round'.pc # "dial"
      BY <1>t, <3>4 DEF RoundCheckCooldown, NextUser, Visit, RoundSet
    <3>5. ASSUME RoundReserve
          PROVE  UNCHANGED <<dials, attempts>> /\ round'.pc # "dial"
      BY <1>t, <3>5 DEF RoundReserve, NextUser, Visit, RoundSet
    <3>6. ASSUME RoundClaimFails
          PROVE  UNCHANGED <<dials, attempts>> /\ round'.pc # "dial"
      BY <1>t, <3>6 DEF RoundClaimFails, NextUser, Visit, RoundSet
    <3>7. ASSUME RoundDialFails
          PROVE  UNCHANGED <<dials, attempts>> /\ round'.pc # "dial"
      BY <1>t, <3>7 DEF RoundDialFails, NextUser, Visit, RoundSet, ReleaseAlertClaims
    <3>8. ASSUME RoundPersist
          PROVE  UNCHANGED <<dials, attempts>> /\ round'.pc # "dial"
      BY <1>t, <3>8 DEF RoundPersist, NextUser, Visit, RoundSet
    <3>9. ASSUME RoundEnd
          PROVE  UNCHANGED <<dials, attempts>> /\ round'.pc # "dial"
      BY <1>t, <3>9 DEF RoundEnd, NextUser, Visit, IdleRound, RoundSet
    <3> QED BY <1>3, <2>1, <3>1, <3>2, <3>3, <3>4, <3>5, <3>6, <3>7, <3>8, <3>9 DEF RoundStep
  <2>2. ASSUME NEW u \in Users, CallHeard(u) \/ CallFails(u) \/ FinishStep(u) \/ TestStep(u)
        PROVE  UNCHANGED <<dials, attempts, round>>
    BY <2>2 DEF CallHeard, CallFails, FinishStep, FinishDone, FinishCanceled, FinishStore,
       MarkAlertMessagesNotified, ReleaseAlertClaims, TestStep, TestCheck, TestReserve,
       TestDial, TestDialFails, TestPersist, TestCallEnds, TestRelease
  <2>3. ASSUME NEW m \in Messages, ReadStateChanges(m)
        PROVE  UNCHANGED <<dials, attempts, round>>
    BY <2>3 DEF ReadStateChanges
  <2>4. ASSUME NEW u \in Users, SettingsChange(u)
        PROVE  UNCHANGED <<dials, attempts, round>>
    BY <2>4 DEF SettingsChange
  <2>5. CASE AvailabilityChanges \/ Tick \/ Cancel \/ Restart \/ UNCHANGED vars
    BY <2>5 DEF AvailabilityChanges, Tick, Cancel, Restart, vars
  <2>6. CASE Stop
    BY <2>6 DEF Stop, IdleRound
  <2> QED BY <2>1, <2>2, <2>3, <2>4, <2>5, <2>6 DEF Next
<1>4. ASSUME ~RoundClaim, ~RoundDial PROVE AttemptInv'
  BY <1>3, <1>4 DEF AttemptInv
<1> QED BY <1>1, <1>2, <1>4

\* AttemptCap: maxAlertAttempts also bounds the calls placed for a message,
\* through crashes, failed writes, released claims and stale-claim sweeps.
THEOREM AttemptsBounded == Spec => []AttemptCap
<1>1. Init => AttemptInv
  BY DEF Init, AttemptInv, IdleRound
<1>2. TypeOK /\ AttemptInv => AttemptCap
  <2> SUFFICES ASSUME TypeOK, AttemptInv, NEW m \in Messages
               PROVE  dials[m] <= MaxAttempts
    BY DEF AttemptCap
  <2>1. dials[m] \in Nat /\ attempts[m] \in 0..MaxAttempts /\ MaxAttempts \in Nat
    BY AlertsAssumption DEF TypeOK, AlertsAssumption
  <2> QED BY <2>1 DEF AttemptInv
<1>3. AttemptInv /\ TypeOK /\ [Next]_vars => AttemptInv'
  BY StepAttempts
<1> QED BY <1>1, <1>2, <1>3, TypeCorrect, PTL DEF Spec

-----------------------------------------------------------------------------
\* What the updates of one user's call and test leave of the others.
LEMMA CallUpdate ==
  ASSUME call \in [Users -> CallSet], NEW u \in Users, NEW s \in CallState
  PROVE  LET c == [call EXCEPT ![u].st = s]
         IN /\ c[u].st = s /\ c[u].ids = call[u].ids
            /\ \A v \in Users \ {u} : c[v] = call[v]
<1>1. [call EXCEPT ![u].st = s] = [call EXCEPT ![u] = [call[u] EXCEPT !.st = s]]
  OBVIOUS
<1>2. /\ [call[u] EXCEPT !.st = s].st = s
      /\ [call[u] EXCEPT !.st = s].ids = call[u].ids
  BY DEF CallSet
<1> QED BY <1>1, <1>2

LEMMA TestUpdate ==
  ASSUME test \in [Users -> TestSet], NEW u \in Users
  PROVE  /\ \A p : LET t == [test EXCEPT ![u].pc = p]
                   IN /\ t[u].pc = p /\ t[u].waiting = test[u].waiting
                      /\ \A v \in Users \ {u} : t[v] = test[v]
         /\ \A b : LET t == [test EXCEPT ![u].live = b]
                   IN /\ t[u].pc = test[u].pc /\ t[u].waiting = test[u].waiting
                      /\ \A v \in Users \ {u} : t[v] = test[v]
         /\ \A b : LET t == [test EXCEPT ![u].waiting = b]
                   IN /\ t[u].pc = test[u].pc /\ t[u].waiting = b
                      /\ \A v \in Users \ {u} : t[v] = test[v]
<1>1. test[u] \in TestSet
  OBVIOUS
<1>2. ASSUME NEW p
      PROVE  /\ [test[u] EXCEPT !.pc = p].pc = p
             /\ [test[u] EXCEPT !.pc = p].waiting = test[u].waiting
  BY <1>1 DEF TestSet
<1>3. ASSUME NEW b
      PROVE  /\ [test[u] EXCEPT !.live = b].pc = test[u].pc
             /\ [test[u] EXCEPT !.live = b].waiting = test[u].waiting
  BY <1>1 DEF TestSet
<1>4. ASSUME NEW b
      PROVE  /\ [test[u] EXCEPT !.waiting = b].pc = test[u].pc
             /\ [test[u] EXCEPT !.waiting = b].waiting = b
  BY <1>1 DEF TestSet
<1>5. \A p : [test EXCEPT ![u].pc = p] = [test EXCEPT ![u] = [test[u] EXCEPT !.pc = p]]
  OBVIOUS
<1>6. \A b : [test EXCEPT ![u].live = b] = [test EXCEPT ![u] = [test[u] EXCEPT !.live = b]]
  OBVIOUS
<1>7. \A b : [test EXCEPT ![u].waiting = b] = [test EXCEPT ![u] = [test[u] EXCEPT !.waiting = b]]
  OBVIOUS
<1> QED BY <1>2, <1>3, <1>4, <1>5, <1>6, <1>7

\* What the steps of the round change of its record.
LEMMA RoundUpdate ==
  ASSUME round \in RoundSet
  PROVE  /\ \A p : LET r == [round EXCEPT !.pc = p]
                   IN r.pc = p /\ r.user = round.user /\ r.ids = round.ids
         /\ \A p, u : LET r == [round EXCEPT !.pc = p, !.user = u]
                      IN r.pc = p /\ r.user = u
         /\ \A p, i : LET r == [round EXCEPT !.pc = p, !.ids = i]
                      IN r.pc = p /\ r.ids = i /\ r.user = round.user
         /\ \A l : LET r == [round EXCEPT !.left = l]
                   IN r.pc = round.pc /\ r.user = round.user
         /\ \A c, l : Visit(c, l).pc = "users"
         /\ NextUser.pc = "users"
BY DEF RoundSet, Visit, NextUser

\* Who holds the slot of a user besides its finishAlert goroutine (fin).
RoundHolds(u) == round.pc \in {"claim", "dial", "persist"} /\ round.user = u
TestHolds(u)  == test[u].pc = "dial" \/ test[u].waiting

\* Outside shutdown the slot of a user has one holder, and an alert call without a
\* recorded outcome has a holder.  A cancelled finishAlert lets go of the slot, but
\* then no round dials any more.
UserSlot(u) ==
  /\ ~ctxDone =>
       /\ fin[u] # "none" => u \in reserved /\ ~RoundHolds(u) /\ ~TestHolds(u)
       /\ RoundHolds(u) => u \in reserved /\ ~TestHolds(u)
       /\ TestHolds(u) => u \in reserved
       /\ call[u].st # "none" =>
            fin[u] # "none" \/ (round.pc = "persist" /\ round.user = u)
       /\ ~(test[u].pc = "dial" /\ test[u].waiting)
  /\ fin[u] # "none" => call[u].st # "none"
\* The round dials only a user nobody else is calling.
RoundSlot ==
  /\ round.pc \in {"dial", "persist"} => fin[round.user] = "none"
  /\ round.pc = "dial" => call[round.user].st = "none"
  /\ round.pc = "persist" => call[round.user].st # "none"

Slots == (\A u \in Users : UserSlot(u)) /\ RoundSlot

LEMMA RoundSlots ==
  ASSUME TypeOK, Slots, RoundStep
  PROVE  Slots'
<1>t. round \in RoundSet /\ round.user \in Users /\ fin \in [Users -> FinState]
      /\ call \in [Users -> CallSet]
  BY DEF TypeOK, RoundSet
<1>r. RoundSet # {} /\ IdleRound.pc = "idle"
  BY <1>t DEF IdleRound
<1> USE DEF settingsVars, memoryVars, storeVars, historyVars
<1> USE <1>t, RoundUpdate
<1>1. ASSUME RoundScan PROVE Slots'
  <2>1. round'.pc = "group" /\ round.pc = "idle"
    BY <1>1 DEF RoundScan, IdleRound
  <2> QED BY <1>1, <2>1 DEF RoundScan, Slots, UserSlot, RoundSlot, RoundHolds, TestHolds
<1>2. ASSUME RoundGroup \/ RoundNoDomain \/ RoundEnd PROVE Slots'
  <2>1. /\ round.pc # "persist" /\ round'.pc \in {"users", "idle"}
        /\ UNCHANGED <<call, fin, test, reserved, ctxDone>>
    BY <1>2 DEF RoundGroup, RoundNoDomain, RoundEnd, IdleRound
  <2> QED BY <2>1 DEF Slots, UserSlot, RoundSlot, RoundHolds, TestHolds
<1>4. ASSUME NEW u \in Users, RoundCheckCooldown(u) PROVE Slots'
  <2>1. /\ round.pc = "users" /\ round'.pc \in {"users", "reserve"}
        /\ UNCHANGED <<call, fin, test, reserved, ctxDone>>
    BY <1>4 DEF RoundCheckCooldown
  <2> QED BY <2>1 DEF Slots, UserSlot, RoundSlot, RoundHolds, TestHolds
<1>5. ASSUME RoundReserve PROVE Slots'
  <2>1. /\ UNCHANGED <<call, fin, test, ctxDone>> /\ round.pc = "reserve"
        /\ \/ /\ round.user \notin reserved
              /\ reserved' = reserved \cup {round.user}
              /\ round'.pc = "claim" /\ round'.user = round.user
           \/ round'.pc = "users" /\ reserved' = reserved
    <3>1. CASE CanReserve(round.user)
      <4>1. round' = [round EXCEPT !.pc = "claim"] /\ reserved' = reserved \cup {round.user}
        BY <1>5, <3>1 DEF RoundReserve
      <4>2. round'.pc = "claim" /\ round'.user = round.user
        BY <4>1 DEF RoundSet
      <4> QED BY <1>5, <3>1, <4>1, <4>2 DEF RoundReserve, CanReserve
    <3>2. CASE ~CanReserve(round.user)
      BY <1>5, <3>2 DEF RoundReserve
    <3> QED BY <3>1, <3>2
  <2>2. CASE round'.pc = "users" /\ reserved' = reserved
    BY <2>1, <2>2 DEF Slots, UserSlot, RoundSlot, RoundHolds, TestHolds
  <2>3. CASE round.user \notin reserved /\ round'.pc = "claim"
    BY <2>1, <2>3 DEF Slots, UserSlot, RoundSlot, RoundHolds, TestHolds
  <2> QED BY <2>1, <2>2, <2>3
<1>6. ASSUME RoundClaim PROVE Slots'
  <2>1. /\ UNCHANGED <<call, fin, test, ctxDone>> /\ ~ctxDone /\ round.pc = "claim"
        /\ \/ reserved' = reserved \ {round.user} /\ round'.pc = "users"
           \/ reserved' = reserved /\ round'.pc = "dial" /\ round'.user = round.user
    <3>1. PICK list \in RoundList(round.user) :
            IF Claimable(list) = {}
            THEN reserved' = reserved \ {round.user} /\ round' = NextUser
            ELSE /\ round' = [round EXCEPT !.pc = "dial", !.ids = Claimable(list)]
                 /\ reserved' = reserved
      BY <1>6 DEF RoundClaim
    <3>2. UNCHANGED <<call, fin, test, ctxDone>> /\ ~ctxDone /\ round.pc = "claim"
      BY <1>6 DEF RoundClaim
    <3>3. CASE Claimable(list) = {}
      BY <3>1, <3>2, <3>3
    <3>4. CASE Claimable(list) # {}
      <4>1. round' = [round EXCEPT !.pc = "dial", !.ids = Claimable(list)] /\ reserved' = reserved
        BY <3>1, <3>4
      <4>2. round'.pc = "dial" /\ round'.user = round.user
        BY <4>1 DEF RoundSet
      <4> QED BY <3>2, <4>1, <4>2
    <3> QED BY <3>3, <3>4
  <2>2. CASE round'.pc = "users"
    BY <2>1, <2>2 DEF Slots, UserSlot, RoundSlot, RoundHolds, TestHolds
  <2>3. CASE round'.pc = "dial"
    BY <2>1, <2>3 DEF Slots, UserSlot, RoundSlot, RoundHolds, TestHolds
  <2> QED BY <2>1, <2>2, <2>3
<1>7. ASSUME RoundClaimFails \/ RoundDialFails PROVE Slots'
  <2>1. /\ UNCHANGED <<call, fin, test, ctxDone>> /\ round.pc \in {"claim", "dial"}
        /\ reserved' = reserved \ {round.user} /\ round'.pc = "users"
    BY <1>7 DEF RoundClaimFails, RoundDialFails
  <2> QED BY <2>1 DEF Slots, UserSlot, RoundSlot, RoundHolds, TestHolds
<1>8. ASSUME RoundDial PROVE Slots'
  <2>1. /\ UNCHANGED <<reserved, fin, test, ctxDone>> /\ round.pc = "dial"
        /\ call'[round.user].st = "live"
        /\ \A v \in Users \ {round.user} : call'[v] = call[v]
        /\ round'.pc = "persist" /\ round'.user = round.user
    BY <1>8 DEF RoundDial
  <2> QED BY <2>1 DEF Slots, UserSlot, RoundSlot, RoundHolds, TestHolds
<1>9. ASSUME RoundPersist PROVE Slots'
  <2>1. /\ UNCHANGED <<reserved, call, test, ctxDone>> /\ round.pc = "persist"
        /\ fin'[round.user] = "waiting"
        /\ \A v \in Users \ {round.user} : fin'[v] = fin[v]
        /\ round'.pc = "users"
    BY <1>9 DEF RoundPersist
  <2> QED BY <2>1 DEF Slots, UserSlot, RoundSlot, RoundHolds, TestHolds
<1> QED BY <1>1, <1>2, <1>4, <1>5, <1>6, <1>7, <1>8, <1>9 DEF RoundStep

LEMMA UserSlots ==
  ASSUME TypeOK, Slots, NEW u \in Users,
         CallHeard(u) \/ CallFails(u) \/ FinishStep(u) \/ TestStep(u)
  PROVE  Slots'
<1>t. /\ round \in RoundSet /\ round.user \in Users /\ fin \in [Users -> FinState]
      /\ call \in [Users -> CallSet] /\ test \in [Users -> TestSet]
  BY DEF TypeOK, RoundSet
<1> USE <1>t
<1> USE DEF settingsVars, memoryVars, storeVars, historyVars
<1>1. ASSUME CallHeard(u) \/ CallFails(u) PROVE Slots'
  <2>1. PICK s \in {"heard", "failed"} : call' = [call EXCEPT ![u].st = s]
    BY <1>1 DEF CallHeard, CallFails
  <2>2. call'[u].st = s /\ \A v \in Users \ {u} : call'[v] = call[v]
    BY <2>1, CallUpdate DEF CallState
  <2>3. call[u].st = "live" /\ UNCHANGED <<round, fin, test, reserved, ctxDone>>
    BY <1>1 DEF CallHeard, CallFails
  <2> QED BY <2>1, <2>2, <2>3 DEF Slots, UserSlot, RoundSlot, RoundHolds, TestHolds
<1>2. ASSUME FinishStep(u) PROVE Slots'
  <2>1. /\ fin[u] # "none" /\ \A v \in Users \ {u} : fin'[v] = fin[v]
        /\ UNCHANGED <<round, test, ctxDone>>
    BY <1>2 DEF FinishStep, FinishDone, FinishCanceled, FinishStore
  <2>2. CASE FinishDone(u)
    <3>1. /\ fin'[u] \in {"mark", "release"}
          /\ UNCHANGED <<call, reserved>>
      BY <2>2 DEF FinishDone
    <3> QED BY <2>1, <3>1 DEF Slots, UserSlot, RoundSlot, RoundHolds, TestHolds
  <2>3. CASE FinishCanceled(u)
    <3>1. ctxDone /\ fin'[u] = "none" /\ call' = call
      BY <2>3 DEF FinishCanceled
    <3> QED BY <2>1, <3>1 DEF Slots, UserSlot, RoundSlot, RoundHolds, TestHolds
  <2>4. CASE FinishStore(u)
    <3>1. /\ fin'[u] = "none" /\ call'[u].st = "none" /\ \A v \in Users \ {u} : call'[v] = call[v]
          /\ reserved' = reserved \ {u}
      BY <2>4 DEF FinishStore, NoCall
    <3> QED BY <2>1, <3>1 DEF Slots, UserSlot, RoundSlot, RoundHolds, TestHolds
  <2> QED BY <1>2, <2>2, <2>3, <2>4 DEF FinishStep
<1>3. ASSUME TestStep(u) PROVE Slots'
  <2>0. UNCHANGED <<round, call, fin, ctxDone>>
    BY <1>3 DEF TestStep, TestCheck, TestReserve, TestDial, TestDialFails, TestPersist,
       TestCallEnds, TestRelease
  <2>1. CASE TestCheck(u)
    <3>1. /\ test'[u].pc = "reserve" /\ test'[u].waiting = test[u].waiting
          /\ \A v \in Users \ {u} : test'[v] = test[v]
          /\ test[u].pc = "idle" /\ reserved' = reserved
      BY <2>1, TestUpdate DEF TestCheck
    <3> QED BY <2>0, <3>1 DEF Slots, UserSlot, RoundSlot, RoundHolds, TestHolds
  <2>2. CASE TestReserve(u)
    <3>1. /\ test'[u].pc \in {"dial", "idle"} /\ test'[u].waiting = test[u].waiting
          /\ \A v \in Users \ {u} : test'[v] = test[v]
          /\ test[u].pc = "reserve"
          /\ \/ u \notin reserved /\ reserved' = reserved \cup {u}
             \/ test'[u].pc = "idle" /\ reserved' = reserved
      <4>1. CASE CanReserve(u)
        <5>1. test' = [test EXCEPT ![u].pc = "dial"] /\ reserved' = reserved \cup {u}
          BY <2>2, <4>1 DEF TestReserve
        <5>2. /\ test'[u].pc = "dial" /\ test'[u].waiting = test[u].waiting
              /\ \A v \in Users \ {u} : test'[v] = test[v]
          BY <5>1, TestUpdate
        <5> QED BY <2>2, <4>1, <5>1, <5>2 DEF TestReserve, CanReserve
      <4>2. CASE ~CanReserve(u)
        <5>1. test' = [test EXCEPT ![u].pc = "idle"] /\ reserved' = reserved
          BY <2>2, <4>2 DEF TestReserve
        <5>2. /\ test'[u].pc = "idle" /\ test'[u].waiting = test[u].waiting
              /\ \A v \in Users \ {u} : test'[v] = test[v]
          BY <5>1, TestUpdate
        <5> QED BY <2>2, <5>1, <5>2 DEF TestReserve
      <4> QED BY <4>1, <4>2
    <3> QED BY <2>0, <3>1 DEF Slots, UserSlot, RoundSlot, RoundHolds, TestHolds
  <2>3. CASE TestDial(u)
    <3>1. /\ test'[u].pc = "persist" /\ test'[u].waiting = TRUE
          /\ \A v \in Users \ {u} : test'[v] = test[v]
          /\ test[u].pc = "dial" /\ reserved' = reserved
      BY <2>3 DEF TestDial
    <3> QED BY <2>0, <3>1 DEF Slots, UserSlot, RoundSlot, RoundHolds, TestHolds
  <2>4. CASE TestDialFails(u)
    <3>1. /\ test'[u].pc = "idle" /\ test'[u].waiting = test[u].waiting
          /\ \A v \in Users \ {u} : test'[v] = test[v]
          /\ test[u].pc = "dial" /\ reserved' = reserved \ {u}
      BY <2>4, TestUpdate DEF TestDialFails
    <3> QED BY <2>0, <3>1 DEF Slots, UserSlot, RoundSlot, RoundHolds, TestHolds
  <2>5. CASE TestPersist(u)
    <3>1. /\ test'[u].pc = "idle" /\ test'[u].waiting = test[u].waiting
          /\ \A v \in Users \ {u} : test'[v] = test[v]
          /\ test[u].pc = "persist" /\ reserved' = reserved
      BY <2>5, TestUpdate DEF TestPersist
    <3> QED BY <2>0, <3>1 DEF Slots, UserSlot, RoundSlot, RoundHolds, TestHolds
  <2>6. CASE TestCallEnds(u)
    <3>1. /\ test'[u].pc = test[u].pc /\ test'[u].waiting = test[u].waiting
          /\ \A v \in Users \ {u} : test'[v] = test[v]
          /\ reserved' = reserved
      BY <2>6, TestUpdate DEF TestCallEnds
    <3> QED BY <2>0, <3>1 DEF Slots, UserSlot, RoundSlot, RoundHolds, TestHolds
  <2>7. CASE TestRelease(u)
    <3>1. /\ test'[u].pc = test[u].pc /\ test'[u].waiting = FALSE
          /\ \A v \in Users \ {u} : test'[v] = test[v]
          /\ test[u].waiting /\ reserved' = reserved \ {u}
      BY <2>7, TestUpdate DEF TestRelease
    <3> QED BY <2>0, <3>1 DEF Slots, UserSlot, RoundSlot, RoundHolds, TestHolds
  <2> QED BY <1>3, <2>1, <2>2, <2>3, <2>4, <2>5, <2>6, <2>7 DEF TestStep
<1> QED BY <1>1, <1>2, <1>3

LEMMA SlotsStep ==
  ASSUME TypeOK, Slots, [Next]_vars
  PROVE  Slots'
<1> USE DEF settingsVars, memoryVars, storeVars, historyVars
<1>1. ASSUME NEW m \in Messages, ReadStateChanges(m) PROVE Slots'
  BY <1>1 DEF ReadStateChanges, Slots, UserSlot, RoundSlot, RoundHolds, TestHolds
<1>2. ASSUME NEW u \in Users, SettingsChange(u) PROVE Slots'
  BY <1>2 DEF SettingsChange, Slots, UserSlot, RoundSlot, RoundHolds, TestHolds
<1>3. ASSUME AvailabilityChanges \/ Tick \/ Restart \/ UNCHANGED vars PROVE Slots'
  <2>1. UNCHANGED <<round, call, fin, test, reserved, ctxDone>>
    BY <1>3 DEF AvailabilityChanges, Tick, Restart, vars
  <2> QED BY <2>1 DEF Slots, UserSlot, RoundSlot, RoundHolds, TestHolds
<1>4. ASSUME Cancel PROVE Slots'
  BY <1>4 DEF Cancel, Slots, UserSlot, RoundSlot, RoundHolds, TestHolds
<1>5. ASSUME Stop PROVE Slots'
  <2>1. round'.pc = "idle"
    BY <1>5 DEF Stop, IdleRound
  <2>2. ASSUME NEW u \in Users
        PROVE  /\ call'[u].st = "none" /\ fin'[u] = "none"
               /\ test'[u].pc = "idle" /\ ~test'[u].waiting
    BY <1>5 DEF Stop, NoCall, NoTest
  <2> QED BY <2>1, <2>2 DEF Slots, UserSlot, RoundSlot, RoundHolds, TestHolds
<1> QED BY <1>1, <1>2, <1>3, <1>4, <1>5, RoundSlots, UserSlots DEF Next

-----------------------------------------------------------------------------
\* A slot count above MaxConcurrent is refused by reservePending.
Slotted == Cardinality(reserved) <= MaxConcurrent

LEMMA Reserving ==
  ASSUME NEW S \in SUBSET Users, NEW u \in Users, u \notin S, Cardinality(S) < MaxConcurrent
  PROVE  Cardinality(S \cup {u}) <= MaxConcurrent
<1>1. IsFiniteSet(S) /\ Cardinality(S) \in Nat /\ MaxConcurrent \in Nat
  BY AlertsAssumption, FS_Subset, FS_CardinalityType DEF AlertsAssumption
<1>2. Cardinality(S \cup {u}) = Cardinality(S) + 1
  BY <1>1, FS_AddElement
<1> QED BY <1>1, <1>2

LEMMA Giving ==
  ASSUME NEW S \in SUBSET Users, NEW T \in SUBSET S, Cardinality(S) <= MaxConcurrent
  PROVE  Cardinality(T) <= MaxConcurrent
<1>1. IsFiniteSet(S) /\ Cardinality(S) \in Nat /\ MaxConcurrent \in Nat
  BY AlertsAssumption, FS_Subset, FS_CardinalityType DEF AlertsAssumption
<1>2. Cardinality(T) <= Cardinality(S) /\ Cardinality(T) \in Nat
  BY <1>1, FS_Subset, FS_CardinalityType
<1> QED BY <1>1, <1>2

LEMMA SlottedStep ==
  ASSUME TypeOK, Slotted, [Next]_vars
  PROVE  Slotted'
<1>t. reserved \subseteq Users /\ round.user \in Users
  BY DEF TypeOK, RoundSet
<1> USE DEF settingsVars, memoryVars, storeVars, historyVars
<1>1. ASSUME NEW u \in Users, CanReserve(u), reserved' = reserved \cup {u} PROVE Slotted'
  BY <1>t, <1>1, Reserving DEF Slotted, CanReserve
<1>2. ASSUME reserved' \subseteq reserved PROVE Slotted'
  BY <1>t, <1>2, Giving DEF Slotted
<1>3. ASSUME RoundStep
      PROVE  \/ reserved' \subseteq reserved
             \/ \E u \in Users : CanReserve(u) /\ reserved' = reserved \cup {u}
  <2>1. CASE RoundReserve
    BY <2>1, <1>t DEF RoundReserve
  <2>2. CASE RoundClaim
    BY <2>2 DEF RoundClaim
  <2>3. CASE \/ RoundScan \/ RoundGroup \/ RoundNoDomain
             \/ RoundClaimFails \/ RoundDial \/ RoundDialFails
    BY <2>3 DEF RoundScan, RoundGroup, RoundNoDomain, RoundClaimFails, RoundDial, RoundDialFails
  <2>4. CASE RoundPersist \/ RoundEnd \/ \E u \in Users : RoundCheckCooldown(u)
    BY <2>4 DEF RoundPersist, RoundEnd, RoundCheckCooldown
  <2> QED BY <1>3, <2>1, <2>2, <2>3, <2>4 DEF RoundStep
<1>4. ASSUME NEW u \in Users, TestStep(u)
      PROVE  reserved' \subseteq reserved \/ (CanReserve(u) /\ reserved' = reserved \cup {u})
  <2>1. CASE TestReserve(u)
    BY <2>1 DEF TestReserve
  <2>2. CASE TestCheck(u) \/ TestDial(u) \/ TestDialFails(u)
    BY <2>2 DEF TestCheck, TestDial, TestDialFails
  <2>3. CASE TestPersist(u) \/ TestCallEnds(u) \/ TestRelease(u)
    BY <2>3 DEF TestPersist, TestCallEnds, TestRelease
  <2> QED BY <1>4, <2>1, <2>2, <2>3 DEF TestStep
<1>5. ASSUME NEW u \in Users, CallHeard(u) \/ CallFails(u) \/ FinishStep(u)
      PROVE  reserved' \subseteq reserved
  BY <1>5 DEF CallHeard, CallFails, FinishStep, FinishDone, FinishCanceled, FinishStore
<1>6. ASSUME NEW m \in Messages, ReadStateChanges(m) PROVE reserved' = reserved
  BY <1>6 DEF ReadStateChanges
<1>7. ASSUME NEW u \in Users, SettingsChange(u) PROVE reserved' = reserved
  BY <1>7 DEF SettingsChange
<1>8. ASSUME AvailabilityChanges \/ Tick \/ Cancel \/ Stop \/ Restart \/ UNCHANGED vars
      PROVE  reserved' \subseteq reserved
  BY <1>8 DEF AvailabilityChanges, Tick, Cancel, Stop, Restart, vars
<1> QED BY <1>1, <1>2, <1>3, <1>4, <1>5, <1>6, <1>7, <1>8 DEF Next

-----------------------------------------------------------------------------
\* What the store does to a claim that is young enough.
Young(m) == claim[m] = "held" /\ claimAge[m] <= CallTicks

LEMMA SweepSpares ==
  ASSUME TypeOK, NEW m \in Messages, Young(m)
  PROVE  Swept[m] = "held"
<1>1. claimAge[m] \in Nat /\ StaleAfter \in Nat /\ CallTicks \in Nat /\ CallTicks < StaleAfter
  BY AlertsAssumption DEF AlertsAssumption, TypeOK
<1>2. ~(claimAge[m] >= StaleAfter)
  BY <1>1 DEF Young
<1> QED BY <1>2 DEF Swept, Young

LEMMA ClaimingSpares ==
  ASSUME TypeOK, NEW ids, NEW m \in Messages, ClaimAlertMessages(Claimable(ids))
  PROVE  /\ Young(m) => Young(m)'
         /\ m \in Claimable(ids) => Young(m)'
<1>1. ASSUME Young(m) PROVE Young(m)'
  <2>1. Swept[m] = "held"
    BY <1>1, SweepSpares
  <2>2. m \notin Claimable(ids)
    BY <2>1 DEF Claimable
  <2> QED BY <1>1, <2>1, <2>2 DEF ClaimAlertMessages, Young
<1>2. ASSUME m \in Claimable(ids) PROVE Young(m)'
  <2>1. claim'[m] = "held" /\ claimAge'[m] = 0
    BY <1>2 DEF ClaimAlertMessages
  <2>2. 0 <= CallTicks
    BY AlertsAssumption DEF AlertsAssumption
  <2> QED BY <2>1, <2>2 DEF Young
<1> QED BY <1>1, <1>2

LEMMA SettlingSpares ==
  ASSUME NEW ids, NEW m \in Messages, m \notin ids, Young(m),
         ReleaseAlertClaims(ids) \/ MarkAlertMessagesNotified(ids) \/ UNCHANGED storeVars
  PROVE  Young(m)'
BY DEF ReleaseAlertClaims, MarkAlertMessagesNotified, storeVars, Young

\* What is live or about to be dialled is claimed for its owner, and younger than
\* the cutoff of the sweep.
UserClaims(u) ==
  /\ \A m \in call[u].ids : Owner[m] = u
  /\ call[u].st = "live" => \A m \in call[u].ids : Young(m)
RoundClaims == round.pc = "dial" => \A m \in round.ids : Owner[m] = round.user /\ Young(m)
Claims == (\A u \in Users : UserClaims(u)) /\ RoundClaims

LEMMA ClaimsRound ==
  ASSUME TypeOK, Slots, Claims, RoundStep
  PROVE  Claims'
<1>t. /\ round \in RoundSet /\ round.user \in Users /\ round.ids \subseteq Messages
      /\ call \in [Users -> CallSet] /\ \A u \in Users : call[u].ids \subseteq Messages
  BY DEF TypeOK, RoundSet, CallSet
<1> USE <1>t, RoundUpdate
<1>1. ASSUME RoundScan PROVE Claims'
  <2>1. round'.pc = "group" /\ call' = call
    BY <1>1 DEF RoundScan, IdleRound
  <2>2. ASSUME NEW m \in Messages, Young(m) PROVE Young(m)'
    <3>1. CASE available
      BY <1>1, <2>2, <3>1, SweepSpares DEF RoundScan, Young
    <3>2. CASE ~available
      BY <1>1, <2>2, <3>2 DEF RoundScan, Young
    <3> QED BY <3>1, <3>2
  <2> QED BY <2>1, <2>2 DEF Claims, UserClaims, RoundClaims
<1>2. ASSUME RoundGroup \/ RoundNoDomain \/ RoundEnd \/ RoundReserve \/ RoundClaimFails
             \/ RoundPersist \/ \E u \in Users : RoundCheckCooldown(u)
      PROVE  Claims'
  <2>1. UNCHANGED <<call, claim, claimAge>>
    BY <1>2 DEF RoundGroup, RoundNoDomain, RoundEnd, RoundReserve, RoundClaimFails,
       RoundPersist, RoundCheckCooldown, storeVars
  <2>2. round'.pc # "dial"
    <3>1. CASE RoundReserve
      <4>1. round' \in {[round EXCEPT !.pc = "claim"], NextUser}
        BY <3>1 DEF RoundReserve
      <4>2. [round EXCEPT !.pc = "claim"].pc = "claim"
        BY DEF RoundSet
      <4> QED BY <4>1, <4>2
    <3>2. ASSUME NEW u \in Users, RoundCheckCooldown(u) PROVE round'.pc # "dial"
      <4>1. \/ round' = [round EXCEPT !.left = @ \ {u}] /\ round.pc = "users"
            \/ round' = [round EXCEPT !.pc = "reserve", !.user = u]
        BY <3>2 DEF RoundCheckCooldown
      <4>2. /\ [round EXCEPT !.left = @ \ {u}].pc = round.pc
            /\ [round EXCEPT !.pc = "reserve", !.user = u].pc = "reserve"
        BY DEF RoundSet
      <4> QED BY <4>1, <4>2
    <3>3. CASE RoundGroup \/ RoundNoDomain \/ RoundEnd \/ RoundClaimFails \/ RoundPersist
      BY <3>3 DEF RoundGroup, RoundNoDomain, RoundEnd, RoundClaimFails, RoundPersist, IdleRound
    <3> QED BY <1>2, <3>1, <3>2, <3>3
  <2> QED BY <2>1, <2>2 DEF Claims, UserClaims, RoundClaims, Young
<1>3. ASSUME RoundClaim PROVE Claims'
  <2>1. PICK list \in RoundList(round.user) :
          /\ ClaimAlertMessages(Claimable(list))
          /\ IF Claimable(list) = {}
             THEN round' = NextUser
             ELSE round' = [round EXCEPT !.pc = "dial", !.ids = Claimable(list)]
    BY <1>3 DEF RoundClaim
  <2>2. call' = call
    BY <1>3 DEF RoundClaim
  <2>3. \A u \in Users : UserClaims(u)'
    BY <2>1, <2>2, ClaimingSpares DEF Claims, UserClaims
  <2>4. RoundClaims'
    <3>1. CASE Claimable(list) = {}
      BY <2>1, <3>1 DEF RoundClaims
    <3>2. CASE Claimable(list) # {}
      <4>1. round' = [round EXCEPT !.pc = "dial", !.ids = Claimable(list)]
        BY <2>1, <3>2
      <4>2. round'.pc = "dial" /\ round'.ids = Claimable(list) /\ round'.user = round.user
        BY <4>1 DEF RoundSet
      <4>3. \A m \in Claimable(list) : m \in Messages /\ Owner[m] = round.user
        BY DEF Claimable, RoundList, Alertable, RoundSet
      <4> QED BY <2>1, <4>2, <4>3, ClaimingSpares DEF RoundClaims
    <3> QED BY <3>1, <3>2
  <2> QED BY <2>3, <2>4 DEF Claims
<1>4. ASSUME RoundDial PROVE Claims'
  <2>1. /\ round.pc = "dial" /\ UNCHANGED <<claim, claimAge>>
        /\ call' = [call EXCEPT ![round.user] = [st |-> "live", ids |-> round.ids]]
        /\ round'.pc = "persist"
    BY <1>4 DEF RoundDial, storeVars
  <2>2. call'[round.user].ids = round.ids /\ \A v \in Users \ {round.user} : call'[v] = call[v]
    BY <2>1
  <2> QED BY <2>1, <2>2 DEF Claims, UserClaims, RoundClaims, Young
<1>5. ASSUME RoundDialFails PROVE Claims'
  <2>1. /\ round.pc = "dial" /\ call' = call /\ round'.pc = "users"
        /\ ReleaseAlertClaims(round.ids) \/ UNCHANGED storeVars
    BY <1>5 DEF RoundDialFails
  <2>2. ASSUME NEW u \in Users, call[u].st = "live", NEW m \in call[u].ids PROVE Young(m)'
    <3>1. u # round.user
      BY <2>1, <2>2 DEF Slots, RoundSlot
    <3>2. m \in Messages /\ Young(m) /\ m \notin round.ids
      BY <2>1, <2>2, <3>1 DEF Claims, UserClaims, RoundClaims
    <3> QED BY <2>1, <3>2, SettlingSpares
  <2> QED BY <2>1, <2>2 DEF Claims, UserClaims, RoundClaims
<1> QED BY <1>1, <1>2, <1>3, <1>4, <1>5 DEF RoundStep

LEMMA ClaimsUser ==
  ASSUME TypeOK, Slots, Claims, NEW u \in Users,
         CallHeard(u) \/ CallFails(u) \/ FinishStep(u) \/ TestStep(u)
  PROVE  Claims'
<1>t. /\ round \in RoundSet /\ round.user \in Users /\ round.ids \subseteq Messages
      /\ call \in [Users -> CallSet] /\ \A v \in Users : call[v].ids \subseteq Messages
  BY DEF TypeOK, RoundSet, CallSet
<1> USE <1>t
<1>1. ASSUME CallHeard(u) \/ CallFails(u) PROVE Claims'
  <2>1. PICK s \in {"heard", "failed"} : call' = [call EXCEPT ![u].st = s]
    BY <1>1 DEF CallHeard, CallFails
  <2>2. /\ call'[u].st = s /\ call'[u].ids = call[u].ids
        /\ \A v \in Users \ {u} : call'[v] = call[v]
    BY <2>1, CallUpdate DEF CallState
  <2>3. UNCHANGED <<round, claim, claimAge>>
    BY <1>1 DEF CallHeard, CallFails, storeVars
  <2> QED BY <2>2, <2>3 DEF Claims, UserClaims, RoundClaims, Young
<1>2. ASSUME FinishDone(u) \/ FinishCanceled(u) \/ TestStep(u) PROVE Claims'
  <2>1. UNCHANGED <<round, call, claim, claimAge>>
    BY <1>2 DEF FinishDone, FinishCanceled, TestStep, TestCheck, TestReserve, TestDial,
       TestDialFails, TestPersist, TestCallEnds, TestRelease, storeVars
  <2> QED BY <2>1 DEF Claims, UserClaims, RoundClaims, Young
<1>3. ASSUME FinishStore(u) PROVE Claims'
  <2>1. /\ round' = round /\ call' = [call EXCEPT ![u] = NoCall] /\ fin[u] # "none"
        /\ \/ MarkAlertMessagesNotified(call[u].ids)
           \/ ReleaseAlertClaims(call[u].ids)
           \/ UNCHANGED storeVars
    BY <1>3 DEF FinishStore
  <2>2. /\ call'[u].ids = {} /\ call'[u].st = "none"
        /\ \A v \in Users \ {u} : call'[v] = call[v]
    BY <2>1 DEF NoCall
  <2>3. ASSUME NEW v \in Users \ {u} PROVE UserClaims(v)'
    <3>1. ASSUME call[v].st = "live", NEW m \in call[v].ids PROVE Young(m)'
      <4>1. m \in Messages /\ Young(m) /\ m \notin call[u].ids
        BY <3>1 DEF Claims, UserClaims
      <4> QED BY <2>1, <4>1, SettlingSpares
    <3> QED BY <2>2, <3>1 DEF Claims, UserClaims
  <2>4. RoundClaims'
    <3>1. ASSUME round.pc = "dial", NEW m \in round.ids PROVE Owner[m] = round.user /\ Young(m)'
      <4>1. round.user # u
        BY <2>1, <3>1 DEF Slots, RoundSlot
      <4>2. m \in Messages /\ Owner[m] = round.user /\ Young(m) /\ m \notin call[u].ids
        BY <3>1, <4>1 DEF Claims, UserClaims, RoundClaims
      <4> QED BY <2>1, <4>2, SettlingSpares
    <3> QED BY <2>1, <3>1 DEF RoundClaims
  <2> QED BY <2>2, <2>3, <2>4 DEF Claims, UserClaims
<1> QED BY <1>1, <1>2, <1>3 DEF FinishStep

LEMMA ClaimsTick ==
  ASSUME TypeOK, Claims, Tick
  PROVE  Claims'
<1>1. /\ round.pc = "idle" /\ UNCHANGED <<round, call, claim>>
      /\ \A m \in Messages : Busy(m) => claimAge[m] < CallTicks
      /\ claimAge' = [m \in Messages |->
                        IF claim[m] = "held" /\ claimAge[m] < StaleAfter
                        THEN claimAge[m] + 1 ELSE claimAge[m]]
  BY DEF Tick
<1>2. ASSUME NEW u \in Users, call[u].st = "live", NEW m \in call[u].ids PROVE Young(m)'
  <2>1. m \in Messages /\ Young(m)
    BY <1>2 DEF Claims, UserClaims, TypeOK, CallSet
  <2>2. Busy(m)
    BY <1>2 DEF Busy
  <2>3. claimAge[m] \in Nat /\ CallTicks \in Nat /\ claimAge[m] < CallTicks
    BY <1>1, <2>1, <2>2, AlertsAssumption DEF TypeOK, AlertsAssumption
  <2>4. claimAge'[m] <= CallTicks
    BY <1>1, <2>1, <2>3
  <2> QED BY <1>1, <2>1, <2>4 DEF Young
<1>3. RoundClaims'
  BY <1>1 DEF RoundClaims
<1>4. ASSUME NEW u \in Users PROVE UserClaims(u)'
  BY <1>1, <1>2 DEF Claims, UserClaims
<1> QED BY <1>3, <1>4 DEF Claims

LEMMA ClaimsStep ==
  ASSUME TypeOK, Slots, Claims, [Next]_vars
  PROVE  Claims'
<1>1. ASSUME NEW m \in Messages, ReadStateChanges(m) PROVE Claims'
  BY <1>1 DEF ReadStateChanges, storeVars, Claims, UserClaims, RoundClaims, Young
<1>2. ASSUME NEW u \in Users, SettingsChange(u) PROVE Claims'
  BY <1>2 DEF SettingsChange, storeVars, Claims, UserClaims, RoundClaims, Young
<1>3. ASSUME AvailabilityChanges \/ Cancel \/ Restart \/ UNCHANGED vars PROVE Claims'
  <2>1. UNCHANGED <<round, call, claim, claimAge>>
    BY <1>3 DEF AvailabilityChanges, Cancel, Restart, vars, storeVars
  <2> QED BY <2>1 DEF Claims, UserClaims, RoundClaims, Young
<1>4. ASSUME Stop PROVE Claims'
  <2>1. round'.pc = "idle" /\ \A u \in Users : call'[u].ids = {}
    BY <1>4 DEF Stop, IdleRound, NoCall
  <2> QED BY <2>1 DEF Claims, UserClaims, RoundClaims
<1> QED BY <1>1, <1>2, <1>3, <1>4, ClaimsRound, ClaimsUser, ClaimsTick DEF Next

-----------------------------------------------------------------------------
\* The three parts are inductive together, given the types.
SafeInv == Slots /\ Slotted /\ Claims

LEMMA SafeInvariant == Spec => [](TypeOK /\ SafeInv)
<1>1. Init => SafeInv
  <2> SUFFICES ASSUME Init PROVE SafeInv
    OBVIOUS
  <2>1. round.pc = "idle" /\ reserved = {} /\ fin = [u \in Users |-> "none"]
        /\ call = [u \in Users |-> NoCall] /\ test = [u \in Users |-> NoTest]
    BY DEF Init, IdleRound
  <2>2. Slots
    BY <2>1 DEF Slots, UserSlot, RoundSlot, RoundHolds, TestHolds, NoCall, NoTest
  <2>3. Slotted
    BY <2>1, FS_EmptySet, AlertsAssumption DEF Slotted, AlertsAssumption
  <2>4. Claims
    BY <2>1 DEF Claims, UserClaims, RoundClaims, NoCall
  <2> QED BY <2>2, <2>3, <2>4 DEF SafeInv
<1>2. TypeOK /\ SafeInv /\ [Next]_vars => SafeInv'
  BY SlotsStep, SlottedStep, ClaimsStep DEF SafeInv
<1> QED BY <1>1, <1>2, InitType, StepType, PTL DEF Spec

\* OneAlertCallPerUser: while the round is about to dial a user, no earlier alert
\* call to that user is connecting or playing.
THEOREM OneCallPerUser == Spec => []OneAlertCallPerUser
<1>1. TypeOK /\ SafeInv => OneAlertCallPerUser
  BY DEF SafeInv, Slots, RoundSlot, OneAlertCallPerUser
<1> QED BY <1>1, SafeInvariant, PTL

\* SlotHeld: alert calls without an outcome keep their slot, and MaxConcurrent
\* bounds the slots.
THEOREM SlotsBounded == Spec => []SlotHeld
<1>1. TypeOK /\ SafeInv => SlotHeld
  BY DEF SafeInv, Slots, Slotted, UserSlot, RoundHolds, SlotHeld
<1> QED BY <1>1, SafeInvariant, PTL

\* LiveCallHoldsClaim: a message that a call can still announce keeps its claim, so
\* no other round and no restarted process picks it up.
THEOREM ClaimsHeld == Spec => []LiveCallHoldsClaim
<1>1. TypeOK /\ SafeInv => LiveCallHoldsClaim
  BY DEF SafeInv, Claims, UserClaims, Young, LiveCallHoldsClaim
<1> QED BY <1>1, SafeInvariant, PTL

\* CallsHold: the four facts above, which the run checks as one invariant.
THEOREM CallsAreHeld == Spec => []CallsHold
<1>1. OneAlertCallPerUser /\ LiveCallHoldsClaim /\ SlotHeld /\ AttemptCap => CallsHold
  BY DEF CallsHold
<1> QED BY <1>1, OneCallPerUser, SlotsBounded, ClaimsHeld, AttemptsBounded, PTL

-----------------------------------------------------------------------------
\* What the process knows of the last dial: a deadline that was written covers the
\* time since it, and while the process runs, memory or SQLite does, from the end
\* of persistCooldown on.
CooldownOf(u) ==
  /\ u \notin unsaved => cool[u] <= nextDial[u] /\ last[u] <= nextDial[u]
  /\ up /\ ~(round.pc = "persist" /\ round.user = u) =>
       cool[u] <= last[u] \/ cool[u] <= nextDial[u]
  /\ ~up => last[u] = 0
\* The round passes the cooldown check only with a user who has cooled down, and
\* keeps its dial unsaved until it writes the deadline.
RoundCools ==
  /\ round.pc \in {"reserve", "claim", "dial"} => cool[round.user] = 0
  /\ round.pc = "persist" => round.user \in unsaved
  /\ ~up => round.pc = "idle"
Cooling == (\A u \in Users : CooldownOf(u)) /\ RoundCools

\* The steps that leave the deadlines alone; a round may only go on with the same
\* user, or visit the next one.
LEMMA CoolingQuiet ==
  ASSUME TypeOK, Cooling, UNCHANGED <<up, nextDial, last, cool, unsaved>>,
         up, round.pc # "persist",
         \/ round' = round
         \/ round'.pc \in {"idle", "group", "users"}
         \/ round'.pc \in {"claim", "dial"} /\ round'.user = round.user
            /\ round.pc \in {"reserve", "claim"}
  PROVE  Cooling'
BY DEF Cooling, CooldownOf, RoundCools

LEMMA CoolingKept ==
  ASSUME Cooling, UNCHANGED <<up, nextDial, last, cool, unsaved, round>>
  PROVE  Cooling'
BY DEF Cooling, CooldownOf, RoundCools

LEMMA CoolingRound ==
  ASSUME TypeOK, Cooling, RoundStep
  PROVE  Cooling'
<1>t. /\ round \in RoundSet /\ round.user \in Users
      /\ cool \in [Users -> 0..MinDelay] /\ nextDial \in [Users -> 0..MinDelay]
      /\ last \in [Users -> 0..MinDelay] /\ unsaved \subseteq Users
  BY DEF TypeOK, RoundSet
<1>u. NextUser.pc = "users"
  BY DEF NextUser, Visit
<1>n. MinDelay \in Nat
  BY AlertsAssumption DEF AlertsAssumption
<1>v. up
  BY DEF RoundStep, RoundScan, RoundGroup, RoundNoDomain, RoundCheckCooldown, RoundReserve,
     RoundClaim, RoundClaimFails, RoundDial, RoundDialFails, RoundPersist, RoundEnd
<1>1. ASSUME RoundScan \/ RoundGroup \/ RoundNoDomain \/ RoundEnd \/ RoundClaimFails
             \/ RoundDialFails
      PROVE  Cooling'
  <2>1. UNCHANGED <<up, nextDial, last, cool, unsaved>>
    BY <1>1 DEF RoundScan, RoundGroup, RoundNoDomain, RoundEnd, RoundClaimFails, RoundDialFails,
       ReleaseAlertClaims, storeVars, memoryVars, historyVars
  <2>2. round'.pc \in {"idle", "group", "users"}
    <3>1. CASE RoundScan
      BY <3>1 DEF RoundScan, IdleRound
    <3>2. CASE RoundNoDomain \/ RoundEnd
      BY <3>2 DEF RoundNoDomain, RoundEnd, IdleRound
    <3>3. CASE RoundGroup \/ RoundClaimFails \/ RoundDialFails
      BY <3>3 DEF RoundGroup, RoundClaimFails, RoundDialFails, NextUser, Visit
    <3> QED BY <1>1, <3>1, <3>2, <3>3
  <2>3. round.pc # "persist"
    BY <1>1 DEF RoundScan, RoundGroup, RoundNoDomain, RoundEnd, RoundClaimFails, RoundDialFails
  <2> QED BY <2>1, <2>2, <2>3, <1>v, CoolingQuiet
<1>2. CASE RoundReserve
  <2>1. UNCHANGED <<up, nextDial, last, cool, unsaved>> /\ round.pc = "reserve"
    BY <1>2 DEF RoundReserve, storeVars, historyVars
  <2>2. round' \in {[round EXCEPT !.pc = "claim"], NextUser}
    BY <1>2 DEF RoundReserve
  <2>3. round'.pc = "users" \/ (round'.pc = "claim" /\ round'.user = round.user)
    <3>1. /\ [round EXCEPT !.pc = "claim"].pc = "claim"
          /\ [round EXCEPT !.pc = "claim"].user = round.user
      BY <1>t DEF RoundSet
    <3> QED BY <2>2, <3>1, <1>u
  <2> QED BY <2>1, <2>3, <1>v, CoolingQuiet
<1>3. CASE RoundClaim
  <2>1. UNCHANGED <<up, nextDial, last, cool, unsaved>> /\ round.pc = "claim"
    BY <1>3 DEF RoundClaim, ClaimAlertMessages, historyVars
  <2>2. \E i : round' \in {[round EXCEPT !.pc = "dial", !.ids = i], NextUser}
    BY <1>3 DEF RoundClaim
  <2>3. round'.pc = "users" \/ (round'.pc = "dial" /\ round'.user = round.user)
    <3>1. \A i : /\ [round EXCEPT !.pc = "dial", !.ids = i].pc = "dial"
                 /\ [round EXCEPT !.pc = "dial", !.ids = i].user = round.user
      BY <1>t DEF RoundSet
    <3> QED BY <2>2, <3>1, <1>u
  <2> QED BY <2>1, <2>3, <1>v, CoolingQuiet
<1>4. ASSUME NEW u \in Users, RoundCheckCooldown(u) PROVE Cooling'
  <2>1. PICK readable \in BOOLEAN :
          /\ round' = IF CoolingDown(u, readable)
                      THEN [round EXCEPT !.left = @ \ {u}]
                      ELSE [round EXCEPT !.pc = "reserve", !.user = u]
          /\ cool' = IF readable THEN cool ELSE [cool EXCEPT ![u] = last[u]]
    BY <1>4 DEF RoundCheckCooldown
  <2>2. round.pc = "users" /\ UNCHANGED <<up, nextDial, last, unsaved>> /\ up
    BY <1>4 DEF RoundCheckCooldown, storeVars, memoryVars
  <2>3. \A v \in Users : cool'[v] = IF readable \/ v # u THEN cool[v] ELSE last[v]
    BY <2>1, <1>t
  <2>4. \/ round'.pc = "users"
        \/ round'.pc = "reserve" /\ round'.user = u /\ ~CoolingDown(u, readable)
    <3>1. /\ [round EXCEPT !.left = @ \ {u}].pc = round.pc
          /\ [round EXCEPT !.pc = "reserve", !.user = u].pc = "reserve"
          /\ [round EXCEPT !.pc = "reserve", !.user = u].user = u
      BY <1>t DEF RoundSet
    <3> QED BY <3>1, <2>1, <2>2
  <2>5. ASSUME NEW v \in Users PROVE CooldownOf(v)'
    <3>1. last[v] \in Nat /\ nextDial[v] \in Nat /\ cool[v] \in Nat
      BY <1>t, <1>n
    <3>2. CooldownOf(v) /\ cool'[v] \in {cool[v], last[v]}
      BY <2>3 DEF Cooling
    <3> QED BY <3>1, <3>2, <2>2, <2>4 DEF CooldownOf
  <2>6. RoundCools'
    <3>1. ASSUME round'.pc = "reserve" PROVE cool'[u] = 0
      <4>1. last[u] = 0 /\ (readable => nextDial[u] = 0)
        BY <3>1, <2>4, <1>t, <1>n DEF CoolingDown
      <4>2. cool[u] <= last[u] \/ cool[u] <= nextDial[u]
        BY <2>2 DEF Cooling, CooldownOf
      <4>3. cool[u] \in Nat
        BY <1>t, <1>n
      <4> QED BY <4>1, <4>2, <4>3, <2>3
    <3> QED BY <3>1, <2>2, <2>4 DEF RoundCools
  <2> QED BY <2>5, <2>6 DEF Cooling
<1>5. CASE RoundDial
  <2>1. /\ round.pc = "dial" /\ UNCHANGED <<up, nextDial, last>>
        /\ cool' = [cool EXCEPT ![round.user] = MinDelay]
        /\ unsaved' = unsaved \cup {round.user}
        /\ round'.pc = "persist" /\ round'.user = round.user
    BY <1>5, <1>t, RoundUpdate DEF RoundDial, storeVars, memoryVars
  <2>2. \A v \in Users \ {round.user} : cool'[v] = cool[v]
    BY <2>1
  <2> QED BY <2>1, <2>2, <1>t DEF Cooling, CooldownOf, RoundCools
<1>6. CASE RoundPersist
  <2>1. /\ round.pc = "persist" /\ UNCHANGED <<up, cool>> /\ round'.pc = "users"
        /\ last' = [last EXCEPT ![round.user] = MinDelay]
        /\ \/ /\ nextDial' = [nextDial EXCEPT ![round.user] = MinDelay]
              /\ unsaved' = unsaved \ {round.user}
           \/ UNCHANGED <<nextDial, unsaved>>
    BY <1>6, <1>t, RoundUpdate DEF RoundPersist
  <2>2. last'[round.user] = MinDelay /\ \A v \in Users \ {round.user} : last'[v] = last[v]
    BY <2>1, <1>t
  <2>3. cool[round.user] <= MinDelay /\ MinDelay <= MinDelay
    BY <1>t, <1>n
  <2>4. round'.pc = "users" /\ up' /\ \A v \in Users : CooldownOf(v) /\ cool[v] \in Nat
    BY <2>1, <1>v, <1>t, <1>n DEF Cooling
  <2>5. ASSUME NEW v \in Users, v = round.user PROVE CooldownOf(v)'
    <3>1. last'[v] = MinDelay /\ cool'[v] <= MinDelay
      BY <2>1, <2>2, <2>3, <2>5
    <3>2. v \notin unsaved' => nextDial'[v] = MinDelay
      <4>1. CASE nextDial' = [nextDial EXCEPT ![round.user] = MinDelay]
        BY <4>1, <1>t, <2>5
      <4>2. CASE UNCHANGED <<nextDial, unsaved>>
        BY <4>2, <2>1, <2>5 DEF Cooling, RoundCools
      <4> QED BY <2>1, <4>1, <4>2
    <3>3. MinDelay <= MinDelay
      BY <1>n
    <3> QED BY <3>1, <3>2, <3>3, <2>4 DEF CooldownOf
  <2>6. ASSUME NEW v \in Users \ {round.user} PROVE CooldownOf(v)'
    <3>1. nextDial'[v] = nextDial[v] /\ (v \in unsaved' <=> v \in unsaved) /\ last'[v] = last[v]
      BY <2>1, <2>2, <1>t
    <3>2. UNCHANGED <<cool, up>> /\ v # round.user /\ CooldownOf(v) /\ round'.pc = "users"
      BY <2>1, <2>4
    <3> QED BY <3>1, <3>2 DEF CooldownOf
  <2>7. RoundCools'
    BY <2>4 DEF RoundCools
  <2> QED BY <2>5, <2>6, <2>7 DEF Cooling
<1> QED BY <1>1, <1>2, <1>3, <1>4, <1>5, <1>6 DEF RoundStep
LEMMA CoolingTick ==
  ASSUME TypeOK, Cooling, Tick
  PROVE  Cooling'
<1>n. MinDelay \in Nat
  BY AlertsAssumption DEF AlertsAssumption
<1>1. /\ round.pc = "idle" /\ UNCHANGED <<round, up, unsaved>>
      /\ nextDial' = [u \in Users |-> Dec(nextDial[u])]
      /\ last' = [u \in Users |-> Dec(last[u])]
      /\ cool' = [u \in Users |-> Dec(cool[u])]
  BY DEF Tick
<1>2. \A a, b \in Nat : a <= b => Dec(a) <= Dec(b)
  BY DEF Dec
<1>3. ASSUME NEW u \in Users PROVE CooldownOf(u)'
  <2>1. cool[u] \in Nat /\ nextDial[u] \in Nat /\ last[u] \in Nat
    BY <1>n DEF TypeOK
  <2>2. /\ cool'[u] = Dec(cool[u]) /\ nextDial'[u] = Dec(nextDial[u])
        /\ last'[u] = Dec(last[u])
    BY <1>1
  <2>3. /\ cool[u] <= nextDial[u] => cool'[u] <= nextDial'[u]
        /\ last[u] <= nextDial[u] => last'[u] <= nextDial'[u]
        /\ cool[u] <= last[u] => cool'[u] <= last'[u]
        /\ last[u] = 0 => last'[u] = 0
    BY <1>2, <2>1, <2>2 DEF Dec
  <2>4. CooldownOf(u) /\ UNCHANGED <<round, up, unsaved>>
    BY <1>1 DEF Cooling
  <2> QED BY <2>3, <2>4 DEF CooldownOf
<1> QED BY <1>1, <1>3 DEF Cooling, RoundCools

LEMMA CoolingStep ==
  ASSUME TypeOK, Cooling, [Next]_vars
  PROVE  Cooling'
<1>t. /\ cool \in [Users -> 0..MinDelay] /\ nextDial \in [Users -> 0..MinDelay]
      /\ last \in [Users -> 0..MinDelay] /\ unsaved \subseteq Users
      /\ round.user \in Users /\ MinDelay \in Nat
  BY AlertsAssumption DEF TypeOK, RoundSet, AlertsAssumption
<1>1. ASSUME NEW m \in Messages, ReadStateChanges(m) PROVE Cooling'
  BY <1>1, CoolingKept DEF ReadStateChanges, storeVars, memoryVars, historyVars
<1>2. ASSUME NEW u \in Users, SettingsChange(u) PROVE Cooling'
  BY <1>2, CoolingKept DEF SettingsChange, storeVars, memoryVars, historyVars
<1>3. ASSUME AvailabilityChanges \/ Cancel \/ UNCHANGED vars PROVE Cooling'
  BY <1>3, CoolingKept DEF AvailabilityChanges, Cancel, vars, storeVars, memoryVars, historyVars
<1>4. ASSUME NEW u \in Users, CallHeard(u) \/ CallFails(u) PROVE Cooling'
  BY <1>4, CoolingKept DEF CallHeard, CallFails, storeVars, memoryVars, historyVars
<1>5. ASSUME NEW u \in Users, FinishStep(u) PROVE Cooling'
  BY <1>5, CoolingKept DEF FinishStep, FinishDone, FinishCanceled, FinishStore,
     MarkAlertMessagesNotified, ReleaseAlertClaims, storeVars, memoryVars, historyVars
<1>6. ASSUME NEW u \in Users, TestStep(u), ~TestPersist(u) PROVE Cooling'
  BY <1>6, CoolingKept DEF TestStep, TestCheck, TestReserve, TestDial, TestDialFails,
     TestCallEnds, TestRelease, storeVars, memoryVars, historyVars
<1>7. ASSUME NEW u \in Users, TestPersist(u) PROVE Cooling'
  <2>1. /\ UNCHANGED <<up, last, cool, unsaved, round>>
        /\ \/ nextDial' = [nextDial EXCEPT ![u] = MinDelay]
           \/ nextDial' = nextDial
    BY <1>7 DEF TestPersist, memoryVars, historyVars
  <2>2. ASSUME NEW v \in Users PROVE CooldownOf(v)'
    <3>1. nextDial'[v] \in {nextDial[v], MinDelay} /\ UNCHANGED <<up, last, cool, unsaved, round>>
      BY <2>1, <1>t
    <3>2. cool[v] <= MinDelay /\ last[v] <= MinDelay
      BY <1>t
    <3> QED BY <3>1, <3>2 DEF Cooling, CooldownOf
  <2> QED BY <2>1, <2>2 DEF Cooling, RoundCools
<1>8. ASSUME Stop PROVE Cooling'
  <2>1. /\ UNCHANGED <<nextDial, cool, unsaved>> /\ up' = FALSE /\ round'.pc = "idle"
        /\ last' = [u \in Users |-> 0]
    BY <1>8 DEF Stop, storeVars, IdleRound
  <2>2. ASSUME NEW v \in Users PROVE CooldownOf(v)'
    <3>1. last'[v] = 0 /\ 0 <= nextDial[v] /\ CooldownOf(v)
      BY <2>1, <1>t DEF Cooling
    <3> QED BY <3>1, <2>1 DEF CooldownOf
  <2> QED BY <2>1, <2>2 DEF Cooling, RoundCools
<1>9. ASSUME Restart PROVE Cooling'
  <2>1. /\ UNCHANGED <<nextDial, last, round>> /\ unsaved' = {}
        /\ cool' = [u \in Users |-> IF u \in unsaved THEN 0 ELSE cool[u]]
    BY <1>9 DEF Restart, storeVars, memoryVars
  <2>2. ~up
    BY <1>9 DEF Restart
  <2>3. ASSUME NEW v \in Users PROVE CooldownOf(v)' /\ cool'[v] \in {0, cool[v]}
    <3>1. /\ last'[v] = 0 /\ nextDial'[v] = nextDial[v]
          /\ cool'[v] = IF v \in unsaved THEN 0 ELSE cool[v]
      BY <2>1, <2>2 DEF Cooling, CooldownOf
    <3>2. nextDial[v] \in Nat /\ CooldownOf(v)
      BY <1>t DEF Cooling
    <3> QED BY <3>1, <3>2 DEF CooldownOf
  <2>4. RoundCools'
    BY <2>1, <2>2 DEF Cooling, RoundCools
  <2> QED BY <2>3, <2>4 DEF Cooling
<1> QED BY <1>1, <1>2, <1>3, <1>4, <1>5, <1>6, <1>7, <1>8, <1>9, CoolingRound, CoolingTick DEF Next
\* CooldownHolds: two alert calls to one user are MinDelay apart, also across a
\* restart, unless the process ended before the deadline was durable or could not
\* read it.
THEOREM CooldownKept == Spec => []CooldownHolds
<1>1. Init => Cooling
  <2> SUFFICES ASSUME Init PROVE Cooling
    OBVIOUS
  <2>1. /\ up = TRUE /\ round.pc = "idle" /\ unsaved = {}
        /\ \A u \in Users : cool[u] = 0 /\ nextDial[u] = 0 /\ last[u] = 0
    BY DEF Init, IdleRound
  <2> QED BY <2>1 DEF Cooling, CooldownOf, RoundCools
<1>2. TypeOK /\ Cooling /\ [Next]_vars => Cooling'
  BY CoolingStep
<1>3. Cooling => CooldownHolds
  BY DEF Cooling, RoundCools, CooldownHolds
<1> QED BY <1>1, <1>2, <1>3, TypeCorrect, PTL DEF Spec

-----------------------------------------------------------------------------
\* A call that is live, or about to be placed, may still announce the message.
MayBeHeard(m) ==
  \/ \E u \in Users : call[u].st = "live" /\ m \in call[u].ids
  \/ round.pc = "dial" /\ m \in round.ids

\* One announcement for each life of the process: who may still be heard was not
\* heard in this life, and what was heard is marked or about to be, under a claim
\* that the sweep spares until then.
HeardOf(m) ==
  /\ heard[m] <= crashes + 1
  /\ MayBeHeard(m) => heard[m] <= crashes
  /\ ~ctxDone /\ heard[m] > crashes => m \in alerted \/ Unrecorded(m)
  /\ Unrecorded(m) => Young(m)
\* finishAlert acts on the outcome it was given.
FinKnows(u) ==
  /\ fin[u] = "mark" => call[u].st = "heard"
  /\ fin[u] = "release" => call[u].st = "failed"
Once == (\A m \in Messages : HeardOf(m)) /\ (\A u \in Users : FinKnows(u))

\* Steps that touch no call: the round does not begin to dial, and a claim that a
\* call needs stays young.
LEMMA OnceQuiet ==
  ASSUME Once, UNCHANGED <<heard, crashes, alerted, call, fin>>,
         ctxDone => ctxDone',
         round' = round \/ (round.pc # "persist" /\ round'.pc \notin {"dial", "persist"}),
         \A m \in Messages : Unrecorded(m) /\ Young(m) => Young(m)'
  PROVE  Once'
<1>1. ASSUME NEW m \in Messages PROVE HeardOf(m)'
  <2>1. Unrecorded(m)' <=> Unrecorded(m)
    BY DEF Unrecorded
  <2>2. MayBeHeard(m)' => MayBeHeard(m)
    BY DEF MayBeHeard
  <2>3. HeardOf(m)
    BY DEF Once
  <2>4. Unrecorded(m) /\ Young(m) => Young(m)'
    OBVIOUS
  <2> HIDE DEF Unrecorded, MayBeHeard, Young
  <2> QED BY <2>1, <2>2, <2>3, <2>4 DEF HeardOf
<1> QED BY <1>1 DEF Once, FinKnows

LEMMA OnceRound ==
  ASSUME "store" \notin Faults, TypeOK, Slots, Claims, Once, RoundStep
  PROVE  Once'
<1>t. /\ round \in RoundSet /\ round.user \in Users /\ round.ids \subseteq Messages
      /\ call \in [Users -> CallSet] /\ fin \in [Users -> FinState]
      /\ \A u \in Users : call[u].ids \subseteq Messages
  BY DEF TypeOK, RoundSet, CallSet
<1>u. NextUser.pc = "users"
  BY DEF NextUser, Visit
<1>1. ASSUME RoundScan PROVE Once'
  <2>1. /\ UNCHANGED <<heard, crashes, alerted, call, fin, ctxDone>>
        /\ round.pc = "idle" /\ round'.pc = "group"
    BY <1>1 DEF RoundScan, IdleRound, historyVars
  <2>2. ASSUME NEW m \in Messages, Young(m) PROVE Young(m)'
    <3>1. CASE available
      BY <1>1, <2>2, <3>1, SweepSpares DEF RoundScan, Young
    <3>2. CASE ~available
      BY <1>1, <2>2, <3>2 DEF RoundScan, Young
    <3> QED BY <3>1, <3>2
  <2> QED BY <2>1, <2>2, OnceQuiet
<1>2. ASSUME RoundGroup \/ RoundNoDomain \/ RoundEnd \/ RoundReserve \/ RoundClaimFails
             \/ \E u \in Users : RoundCheckCooldown(u)
      PROVE  Once'
  <2>1. /\ UNCHANGED <<heard, crashes, alerted, call, fin, ctxDone, claim, claimAge>>
        /\ round.pc # "persist"
    BY <1>2 DEF RoundGroup, RoundNoDomain, RoundEnd, RoundReserve, RoundClaimFails,
       RoundCheckCooldown, storeVars, historyVars
  <2>2. round'.pc \notin {"dial", "persist"}
    <3>1. CASE RoundReserve
      <4>1. round' \in {[round EXCEPT !.pc = "claim"], NextUser}
        BY <3>1 DEF RoundReserve
      <4>2. [round EXCEPT !.pc = "claim"].pc = "claim"
        BY <1>t DEF RoundSet
      <4> QED BY <4>1, <4>2, <1>u
    <3>2. ASSUME NEW u \in Users, RoundCheckCooldown(u) PROVE round'.pc \notin {"dial", "persist"}
      <4>1. \/ round' = [round EXCEPT !.left = @ \ {u}] /\ round.pc = "users"
            \/ round' = [round EXCEPT !.pc = "reserve", !.user = u]
        BY <3>2 DEF RoundCheckCooldown
      <4>2. /\ [round EXCEPT !.left = @ \ {u}].pc = round.pc
            /\ [round EXCEPT !.pc = "reserve", !.user = u].pc = "reserve"
        BY <1>t DEF RoundSet
      <4> QED BY <4>1, <4>2
    <3>3. CASE RoundNoDomain \/ RoundEnd
      BY <3>3 DEF RoundNoDomain, RoundEnd, IdleRound
    <3>4. CASE RoundGroup \/ RoundClaimFails
      BY <3>4, <1>u DEF RoundGroup, RoundClaimFails, Visit
    <3> QED BY <1>2, <3>1, <3>2, <3>3, <3>4
  <2> QED BY <2>1, <2>2, OnceQuiet DEF Young
<1>3. ASSUME RoundClaim PROVE Once'
  <2>1. PICK list \in RoundList(round.user) :
          /\ ClaimAlertMessages(Claimable(list))
          /\ IF Claimable(list) = {}
             THEN round' = NextUser
             ELSE round' = [round EXCEPT !.pc = "dial", !.ids = Claimable(list)]
    BY <1>3 DEF RoundClaim
  <2>2. /\ UNCHANGED <<heard, crashes, alerted, call, fin, ctxDone>>
        /\ round.pc = "claim" /\ ~ctxDone
    BY <1>3, <2>1 DEF RoundClaim, ClaimAlertMessages, historyVars
  <2>3. \A m \in Messages : Young(m) => Young(m)'
    BY <2>1, ClaimingSpares
  <2>4. CASE Claimable(list) = {}
    BY <2>1, <2>2, <2>3, <2>4, <1>u, OnceQuiet
  <2>5. CASE Claimable(list) # {}
    <3>1. round'.pc = "dial" /\ round'.ids = Claimable(list)
      BY <2>1, <2>5, <1>t DEF RoundSet
    <3>2. ASSUME NEW m \in Messages PROVE HeardOf(m)'
      <4>1. Unrecorded(m)' <=> Unrecorded(m)
        BY <2>2, <3>1 DEF Unrecorded
      <4>2. MayBeHeard(m)' => MayBeHeard(m) \/ m \in Claimable(list)
        BY <2>2, <3>1 DEF MayBeHeard
      <4>3. HeardOf(m)
        BY DEF Once
      <4>4. ASSUME m \in Claimable(list) PROVE heard[m] <= crashes
        <5>1. m \notin alerted /\ Swept[m] = "none"
          BY <4>4 DEF Claimable, Alertable
        <5>2. ~Young(m)
          BY <5>1, SweepSpares
        <5>3. ~(heard[m] > crashes)
          BY <5>1, <5>2, <4>3, <2>2 DEF HeardOf
        <5>4. heard[m] \in Nat /\ crashes \in Nat
          BY AlertsAssumption DEF TypeOK, AlertsAssumption
        <5> QED BY <5>3, <5>4
      <4>5. UNCHANGED <<heard, crashes, alerted, ctxDone>> /\ (Young(m) => Young(m)')
        BY <2>2, <2>3
      <4> HIDE DEF Unrecorded, MayBeHeard, Young
      <4> QED BY <4>1, <4>2, <4>3, <4>4, <4>5 DEF HeardOf
    <3> QED BY <2>2, <3>2 DEF Once, FinKnows
  <2> QED BY <2>4, <2>5
<1>4. ASSUME RoundDial PROVE Once'
  <2>1. /\ round.pc = "dial" /\ UNCHANGED <<heard, crashes, alerted, fin, ctxDone, claim, claimAge>>
        /\ call' = [call EXCEPT ![round.user] = [st |-> "live", ids |-> round.ids]]
        /\ round'.pc = "persist" /\ round'.user = round.user
    BY <1>4, <1>t DEF RoundDial, storeVars, RoundSet
  <2>2. /\ call'[round.user].ids = round.ids /\ call'[round.user].st = "live"
        /\ \A v \in Users \ {round.user} : call'[v] = call[v]
    BY <2>1, <1>t
  <2>3. call[round.user].st = "none" /\ fin[round.user] = "none"
    BY <2>1 DEF Slots, RoundSlot
  <2>4. ASSUME NEW m \in Messages PROVE HeardOf(m)'
    <3>1. Unrecorded(m)' <=> Unrecorded(m)
      BY <2>1, <2>2, <2>3 DEF Unrecorded
    <3>2. MayBeHeard(m)' => MayBeHeard(m)
      BY <2>1, <2>2 DEF MayBeHeard
    <3>3. HeardOf(m) /\ UNCHANGED <<heard, crashes, alerted, ctxDone>> /\ (Young(m)' <=> Young(m))
      BY <2>1 DEF Once, Young
    <3> HIDE DEF Unrecorded, MayBeHeard, Young
    <3> QED BY <3>1, <3>2, <3>3 DEF HeardOf
  <2>5. ASSUME NEW u \in Users PROVE FinKnows(u)'
    BY <2>1, <2>2, <2>3 DEF Once, FinKnows
  <2> QED BY <2>4, <2>5 DEF Once
<1>5. ASSUME RoundDialFails PROVE Once'
  <2>1. /\ UNCHANGED <<heard, crashes, call, fin, ctxDone>>
        /\ round.pc = "dial" /\ round'.pc = "users" /\ ReleaseAlertClaims(round.ids)
    BY <1>5, <1>u DEF RoundDialFails, historyVars, StoreMayFail
  <2>2. UNCHANGED alerted
    BY <2>1 DEF ReleaseAlertClaims
  <2>3. ASSUME NEW m \in Messages, Unrecorded(m), Young(m) PROVE Young(m)'
    <3>1. PICK u \in Users : call[u].st = "heard" /\ m \in call[u].ids
      BY <2>3 DEF Unrecorded
    <3>2. u # round.user /\ Owner[m] = u
      BY <2>1, <3>1 DEF Slots, RoundSlot, Claims, UserClaims
    <3>3. m \notin round.ids
      BY <2>1, <3>2 DEF Claims, RoundClaims
    <3> QED BY <2>1, <2>3, <3>3, SettlingSpares
  <2> QED BY <2>1, <2>2, <2>3, OnceQuiet
<1>6. ASSUME RoundPersist PROVE Once'
  <2>1. /\ round.pc = "persist" /\ round'.pc = "users"
        /\ UNCHANGED <<heard, crashes, alerted, call, ctxDone, claim, claimAge>>
        /\ fin' = [fin EXCEPT ![round.user] = "waiting"]
    BY <1>6, <1>u DEF RoundPersist
  <2>2. fin'[round.user] = "waiting" /\ \A v \in Users \ {round.user} : fin'[v] = fin[v]
    BY <2>1, <1>t
  <2>3. ASSUME NEW m \in Messages PROVE HeardOf(m)'
    <3>1. Unrecorded(m)' <=> Unrecorded(m)
      BY <2>1, <2>2 DEF Unrecorded
    <3>2. MayBeHeard(m)' => MayBeHeard(m)
      BY <2>1 DEF MayBeHeard
    <3>3. HeardOf(m) /\ UNCHANGED <<heard, crashes, alerted, ctxDone>> /\ (Young(m)' <=> Young(m))
      BY <2>1 DEF Once, Young
    <3> HIDE DEF Unrecorded, MayBeHeard, Young
    <3> QED BY <3>1, <3>2, <3>3 DEF HeardOf
  <2>4. ASSUME NEW u \in Users PROVE FinKnows(u)'
    BY <2>1, <2>2 DEF Once, FinKnows
  <2> QED BY <2>3, <2>4 DEF Once
<1> QED BY <1>1, <1>2, <1>3, <1>4, <1>5, <1>6 DEF RoundStep

LEMMA OnceUser ==
  ASSUME "store" \notin Faults, TypeOK, Slots, Claims, Once, NEW u \in Users,
         CallHeard(u) \/ CallFails(u) \/ FinishStep(u) \/ TestStep(u)
  PROVE  Once'
<1>t. /\ round \in RoundSet /\ round.user \in Users /\ round.ids \subseteq Messages
      /\ call \in [Users -> CallSet] /\ fin \in [Users -> FinState]
      /\ \A v \in Users : call[v].ids \subseteq Messages
      /\ heard \in [Messages -> 0..2] /\ crashes \in Nat
  BY AlertsAssumption DEF TypeOK, RoundSet, CallSet, AlertsAssumption
<1>1. ASSUME CallHeard(u) PROVE Once'
  <2>1. /\ call[u].st = "live" /\ call' = [call EXCEPT ![u].st = "heard"]
        /\ UNCHANGED <<round, crashes, alerted, fin, ctxDone, claim, claimAge>>
        /\ heard' = [m \in Messages |->
             IF m \in call[u].ids /\ heard[m] < 2 THEN heard[m] + 1 ELSE heard[m]]
    BY <1>1 DEF CallHeard, storeVars
  <2>2. /\ call'[u].st = "heard" /\ call'[u].ids = call[u].ids
        /\ \A v \in Users \ {u} : call'[v] = call[v]
    BY <2>1, <1>t, CallUpdate DEF CallState
  <2>3. ASSUME NEW m \in Messages, m \in call[u].ids PROVE HeardOf(m)'
    <3>1. heard'[m] \in {heard[m], heard[m] + 1} /\ heard[m] \in Nat
      BY <2>1, <1>t
    <3>2. heard[m] <= crashes
      BY <2>1, <2>3 DEF Once, HeardOf, MayBeHeard
    <3>3. ~MayBeHeard(m)'
      <4>1. \A v \in Users : m \in call[v].ids => Owner[m] = v
        BY DEF Claims, UserClaims
      <4>2. round.pc = "dial" /\ m \in round.ids =>
              Owner[m] = round.user /\ call[round.user].st = "none"
        BY DEF Claims, RoundClaims, Slots, RoundSlot
      <4>3. Owner[m] = u /\ ~(round.pc = "dial" /\ m \in round.ids)
        BY <4>1, <4>2, <2>1, <2>3
      <4> QED BY <4>1, <4>3, <2>1, <2>2 DEF MayBeHeard
    <3>4. Young(m)'
      BY <2>1, <2>3 DEF Claims, UserClaims, Young
    <3>5. ~ctxDone => Unrecorded(m)'
      BY <2>1, <2>2, <2>3 DEF Slots, UserSlot, Unrecorded
    <3>6. UNCHANGED <<crashes, ctxDone>>
      BY <2>1
    <3> HIDE DEF Unrecorded, MayBeHeard, Young
    <3> QED BY <3>1, <3>2, <3>3, <3>4, <3>5, <3>6, <1>t DEF HeardOf
  <2>4. ASSUME NEW m \in Messages, m \notin call[u].ids PROVE HeardOf(m)'
    <3>1. Unrecorded(m)' <=> Unrecorded(m)
      BY <2>1, <2>2, <2>4 DEF Unrecorded
    <3>2. MayBeHeard(m)' => MayBeHeard(m)
      BY <2>1, <2>2, <2>4 DEF MayBeHeard
    <3>3. /\ HeardOf(m) /\ UNCHANGED <<crashes, alerted, ctxDone>> /\ (Young(m)' <=> Young(m))
          /\ heard'[m] = heard[m]
      BY <2>1, <2>4, <1>t DEF Once, Young
    <3> HIDE DEF Unrecorded, MayBeHeard, Young
    <3> QED BY <3>1, <3>2, <3>3 DEF HeardOf
  <2>5. ASSUME NEW v \in Users PROVE FinKnows(v)'
    BY <2>1, <2>2 DEF Once, FinKnows
  <2> QED BY <2>3, <2>4, <2>5 DEF Once
<1>2. ASSUME CallFails(u) PROVE Once'
  <2>1. /\ call[u].st = "live" /\ call' = [call EXCEPT ![u].st = "failed"]
        /\ UNCHANGED <<round, heard, crashes, alerted, fin, ctxDone, claim, claimAge>>
    BY <1>2 DEF CallFails, storeVars, historyVars
  <2>2. /\ call'[u].st = "failed" /\ call'[u].ids = call[u].ids
        /\ \A v \in Users \ {u} : call'[v] = call[v]
    BY <2>1, <1>t, CallUpdate DEF CallState
  <2>3. ASSUME NEW m \in Messages PROVE HeardOf(m)'
    <3>1. Unrecorded(m)' <=> Unrecorded(m)
      BY <2>1, <2>2 DEF Unrecorded
    <3>2. MayBeHeard(m)' => MayBeHeard(m)
      BY <2>1, <2>2 DEF MayBeHeard
    <3>3. HeardOf(m) /\ UNCHANGED <<heard, crashes, alerted, ctxDone>> /\ (Young(m)' <=> Young(m))
      BY <2>1 DEF Once, Young
    <3> HIDE DEF Unrecorded, MayBeHeard, Young
    <3> QED BY <3>1, <3>2, <3>3 DEF HeardOf
  <2>4. ASSUME NEW v \in Users PROVE FinKnows(v)'
    BY <2>1, <2>2 DEF Once, FinKnows
  <2> QED BY <2>3, <2>4 DEF Once
<1>3. ASSUME FinishDone(u) PROVE Once'
  <2>1. /\ fin[u] = "waiting" /\ call[u].st \in {"heard", "failed"}
        /\ fin' = [fin EXCEPT ![u] = IF call[u].st = "heard" THEN "mark" ELSE "release"]
        /\ UNCHANGED <<round, heard, crashes, alerted, call, ctxDone, claim, claimAge>>
    BY <1>3 DEF FinishDone, storeVars, historyVars
  <2>2. /\ fin'[u] = (IF call[u].st = "heard" THEN "mark" ELSE "release")
        /\ \A v \in Users \ {u} : fin'[v] = fin[v]
    BY <2>1, <1>t
  <2>3. ASSUME NEW m \in Messages PROVE HeardOf(m)'
    <3>1. Unrecorded(m)' <=> Unrecorded(m)
      BY <2>1, <2>2 DEF Unrecorded
    <3>2. MayBeHeard(m)' => MayBeHeard(m)
      BY <2>1, <2>2 DEF MayBeHeard
    <3>3. HeardOf(m) /\ UNCHANGED <<heard, crashes, alerted, ctxDone>> /\ (Young(m)' <=> Young(m))
      BY <2>1 DEF Once, Young
    <3> HIDE DEF Unrecorded, MayBeHeard, Young
    <3> QED BY <3>1, <3>2, <3>3 DEF HeardOf
  <2>4. ASSUME NEW v \in Users PROVE FinKnows(v)'
    BY <2>1, <2>2 DEF Once, FinKnows
  <2> QED BY <2>3, <2>4 DEF Once
<1>4. ASSUME FinishCanceled(u) PROVE Once'
  <2>1. /\ fin[u] = "waiting" /\ ctxDone /\ fin' = [fin EXCEPT ![u] = "none"]
        /\ UNCHANGED <<round, heard, crashes, alerted, call, ctxDone, claim, claimAge>>
    BY <1>4 DEF FinishCanceled, storeVars, historyVars
  <2>2. fin'[u] = "none" /\ \A v \in Users \ {u} : fin'[v] = fin[v]
    BY <2>1, <1>t
  <2>3. ASSUME NEW m \in Messages PROVE HeardOf(m)'
    <3>1. Unrecorded(m)' => Unrecorded(m)
      BY <2>1, <2>2 DEF Unrecorded
    <3>2. MayBeHeard(m)' => MayBeHeard(m)
      BY <2>1, <2>2 DEF MayBeHeard
    <3>3. /\ HeardOf(m) /\ UNCHANGED <<heard, crashes, alerted, ctxDone>> /\ ctxDone
          /\ Young(m)' <=> Young(m)
      BY <2>1 DEF Once, Young
    <3> HIDE DEF Unrecorded, MayBeHeard, Young
    <3> QED BY <3>1, <3>2, <3>3 DEF HeardOf
  <2>4. ASSUME NEW v \in Users PROVE FinKnows(v)'
    BY <2>1, <2>2 DEF Once, FinKnows
  <2> QED BY <2>3, <2>4 DEF Once
<1>5. ASSUME FinishStore(u) PROVE Once'
  <2>1. /\ fin[u] \in {"mark", "release"}
        /\ \/ fin[u] = "mark" /\ MarkAlertMessagesNotified(call[u].ids)
           \/ fin[u] = "release" /\ ReleaseAlertClaims(call[u].ids)
        /\ fin' = [fin EXCEPT ![u] = "none"]
        /\ call' = [call EXCEPT ![u] = NoCall]
        /\ UNCHANGED <<round, heard, crashes, ctxDone>>
    BY <1>5 DEF FinishStore, StoreMayFail, historyVars
  <2>2. /\ fin'[u] = "none" /\ call'[u].st = "none" /\ call'[u].ids = {}
        /\ \A v \in Users \ {u} : fin'[v] = fin[v] /\ call'[v] = call[v]
    BY <2>1, <1>t DEF NoCall
  <2>3. /\ alerted \subseteq alerted'
        /\ fin[u] = "mark" => call[u].ids \subseteq alerted'
    BY <2>1 DEF MarkAlertMessagesNotified, ReleaseAlertClaims
  <2>4. ~(round.pc = "persist" /\ round.user = u)
    BY <2>1 DEF Slots, RoundSlot
  <2>5. ASSUME NEW m \in Messages PROVE HeardOf(m)'
    <3>1. Unrecorded(m)' => Unrecorded(m) /\ m \notin call[u].ids
      <4>1. ASSUME Unrecorded(m)' PROVE Unrecorded(m) /\ m \notin call[u].ids
        <5>1. PICK v \in Users : /\ call'[v].st = "heard" /\ m \in call'[v].ids
                                 /\ fin'[v] # "none" \/ (round'.pc = "persist" /\ round'.user = v)
          BY <4>1 DEF Unrecorded
        <5>2. v # u /\ call'[v] = call[v] /\ fin'[v] = fin[v] /\ round' = round
          BY <5>1, <2>1, <2>2
        <5>3. Owner[m] = v /\ (m \in call[u].ids => Owner[m] = u)
          BY <5>1, <5>2 DEF Claims, UserClaims
        <5> QED BY <5>1, <5>2, <5>3 DEF Unrecorded
      <4> QED BY <4>1
    <3>2. Unrecorded(m) => Unrecorded(m)' \/ m \in alerted'
      <4>1. ASSUME Unrecorded(m) PROVE Unrecorded(m)' \/ m \in alerted'
        <5>1. PICK v \in Users : /\ call[v].st = "heard" /\ m \in call[v].ids
                                 /\ fin[v] # "none" \/ (round.pc = "persist" /\ round.user = v)
          BY <4>1 DEF Unrecorded
        <5>2. CASE v = u
          <6>1. fin[u] = "mark"
            BY <5>1, <5>2, <2>1 DEF Once, FinKnows
          <6> QED BY <6>1, <5>1, <5>2, <2>3
        <5>3. CASE v # u
          <6>1. call'[v] = call[v] /\ fin'[v] = fin[v] /\ round' = round
            BY <5>3, <2>1, <2>2
          <6> QED BY <6>1, <5>1 DEF Unrecorded
        <5> QED BY <5>2, <5>3
      <4> QED BY <4>1
    <3>3. MayBeHeard(m)' => MayBeHeard(m)
      BY <2>1, <2>2 DEF MayBeHeard
    <3>4. m \notin call[u].ids /\ Young(m) => Young(m)'
      BY <2>1, SettlingSpares
    <3>5. HeardOf(m) /\ UNCHANGED <<heard, crashes, ctxDone>> /\ (m \in alerted => m \in alerted')
      BY <2>1, <2>3 DEF Once
    <3> HIDE DEF Unrecorded, MayBeHeard, Young
    <3> QED BY <3>1, <3>2, <3>3, <3>4, <3>5 DEF HeardOf
  <2>6. ASSUME NEW v \in Users PROVE FinKnows(v)'
    BY <2>1, <2>2 DEF Once, FinKnows
  <2> QED BY <2>5, <2>6 DEF Once
<1>6. ASSUME TestStep(u) PROVE Once'
  <2>1. UNCHANGED <<heard, crashes, alerted, call, fin, ctxDone, round, claim, claimAge>>
    BY <1>6 DEF TestStep, TestCheck, TestReserve, TestDial, TestDialFails, TestPersist,
       TestCallEnds, TestRelease, storeVars, historyVars
  <2> QED BY <2>1, OnceQuiet DEF Young
<1> QED BY <1>1, <1>2, <1>3, <1>4, <1>5, <1>6 DEF FinishStep

LEMMA OnceStep ==
  ASSUME "store" \notin Faults, TypeOK, Slots, Claims, Once, [Next]_vars
  PROVE  Once'
<1>1. ASSUME NEW m \in Messages, ReadStateChanges(m) PROVE Once'
  BY <1>1, OnceQuiet DEF ReadStateChanges, storeVars, historyVars, Young
<1>2. ASSUME NEW u \in Users, SettingsChange(u) PROVE Once'
  BY <1>2, OnceQuiet DEF SettingsChange, storeVars, historyVars, Young
<1>3. ASSUME AvailabilityChanges \/ Cancel \/ Restart \/ UNCHANGED vars PROVE Once'
  <2>1. /\ UNCHANGED <<heard, crashes, alerted, call, fin, round, claim, claimAge>>
        /\ ctxDone => ctxDone'
    BY <1>3 DEF AvailabilityChanges, Cancel, Restart, vars, storeVars, historyVars
  <2> QED BY <2>1, OnceQuiet DEF Young
<1>4. ASSUME Tick PROVE Once'
  <2>1. /\ round.pc = "idle"
        /\ UNCHANGED <<heard, crashes, alerted, call, fin, ctxDone, round, claim>>
        /\ \A m \in Messages : Busy(m) => claimAge[m] < CallTicks
        /\ claimAge' = [m \in Messages |->
                          IF claim[m] = "held" /\ claimAge[m] < StaleAfter
                          THEN claimAge[m] + 1 ELSE claimAge[m]]
    BY <1>4 DEF Tick
  <2>2. ASSUME NEW m \in Messages, Unrecorded(m), Young(m) PROVE Young(m)'
    <3>1. Busy(m)
      BY <2>1, <2>2 DEF Busy, Unrecorded
    <3>2. claimAge[m] \in Nat /\ CallTicks \in Nat /\ claimAge[m] < CallTicks
      BY <2>1, <3>1, AlertsAssumption DEF TypeOK, AlertsAssumption
    <3>3. claimAge'[m] <= CallTicks
      BY <2>1, <3>2
    <3> QED BY <2>1, <2>2, <3>3 DEF Young
  <2> QED BY <2>1, <2>2, OnceQuiet
<1>5. ASSUME Stop PROVE Once'
  <2>1. /\ crashes' = crashes + 1 /\ UNCHANGED heard /\ round'.pc = "idle"
        /\ \A u \in Users : call'[u].st = "none" /\ fin'[u] = "none"
    BY <1>5 DEF Stop, IdleRound, NoCall
  <2>2. ASSUME NEW m \in Messages PROVE HeardOf(m)'
    <3>1. ~MayBeHeard(m)' /\ ~Unrecorded(m)'
      BY <2>1 DEF MayBeHeard, Unrecorded
    <3>2. heard[m] \in Nat /\ crashes \in Nat /\ heard[m] <= crashes + 1
      BY AlertsAssumption DEF TypeOK, AlertsAssumption, Once, HeardOf
    <3>3. heard'[m] = heard[m] /\ crashes' = crashes + 1
      BY <2>1
    <3> HIDE DEF Unrecorded, MayBeHeard, Young
    <3> QED BY <3>1, <3>2, <3>3 DEF HeardOf
  <2> QED BY <2>1, <2>2 DEF Once, FinKnows
<1> QED BY <1>1, <1>2, <1>3, <1>4, <1>5, OnceRound, OnceUser DEF Next

\* AnnouncedOnce: as long as SQLite can be written, the announcement of a message is
\* heard once, and once more for each time the process ended, and while it runs a
\* heard message is marked or finishAlert is about to mark it.
THEOREM HeardIsRecorded ==
  ASSUME "store" \notin Faults
  PROVE  Spec => []AnnouncedOnce
<1>1. Init => Once
  <2> SUFFICES ASSUME Init PROVE Once
    OBVIOUS
  <2>1. /\ round.pc = "idle" /\ crashes = 0 /\ \A m \in Messages : heard[m] = 0
        /\ \A u \in Users : call[u].st = "none" /\ fin[u] = "none"
    BY DEF Init, IdleRound, NoCall
  <2> QED BY <2>1 DEF Once, HeardOf, FinKnows, MayBeHeard, Unrecorded
<1>2. TypeOK /\ SafeInv /\ Once /\ [Next]_vars => Once'
  BY OnceStep DEF SafeInv
<1>3. TypeOK /\ Once => AnnouncedOnce
  <2> SUFFICES ASSUME TypeOK, Once PROVE AnnouncedOnce
    OBVIOUS
  <2>1. HeardOnce
    BY DEF Once, HeardOf, HeardOnce
  <2>2. CompletionRecorded
    <3> SUFFICES ASSUME crashes = 0, ~ctxDone, NEW m \in Messages, heard[m] > 0
                 PROVE  m \in alerted \/ Unrecorded(m)
      BY DEF CompletionRecorded
    <3> QED BY DEF Once, HeardOf
  <2> QED BY <2>1, <2>2 DEF AnnouncedOnce
<1> QED BY <1>1, <1>2, <1>3, SafeInvariant, PTL DEF Spec
=============================================================================
