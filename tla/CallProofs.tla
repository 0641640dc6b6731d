------------------------------ MODULE CallProofs ------------------------------
(***************************************************************************)
(* Proofs about two things a call does to the world: it is placed, and it  *)
(* moves messages at the provider.                                         *)
(*                                                                         *)
(* Outgoing calls: calls.Service keeps its promise to the callers of Dial, *)
(* for any number of requests, users, lost connections and faults: a       *)
(* request is accepted or refused once, its Done channel gets at most one  *)
(* value, nothing settles it but the one that holds it, and "true" only    *)
(* follows a call whose announcement was reached.  The right to signal r   *)
(* is one of r \in pending and r \in owner.  A step keeps all rights       *)
(* (Keeps), uses some of them up (Settles), or belongs to Dial itself      *)
(* (Dials); Effects shows that there is no other step, and both the        *)
(* invariant and the refinement of DialPromise follow from it.             *)
(*                                                                         *)
(* Moves: for any messages, folders, faults and moves of other clients.    *)
(***************************************************************************)
EXTENDS OutboundCalls, Moves, Integers, FiniteSetTheorems, SequenceTheorems, TLAPS

(* Done and the count of sends agree; a right is held once, unused, and not
   before Dial has registered the request; afterwards only its use ends it. *)
Rights ==
    \A r \in Requests :
        /\ sent[r] \in {0, 1} /\ (done[r] = "none" <=> sent[r] = 0)
        /\ r \in pending \cup owner => sent[r] = 0
        /\ ~(r \in pending /\ r \in owner)
        /\ dial[r] \in {"idle", "checked"} => r \notin pending \cup owner /\ sent[r] = 0
        /\ dial[r] \in {"registered", "writing", "accepted"} /\ sent[r] = 0
              => r \in pending \cup owner

(* Tasks are refused only after the worker context has ended, so a request
   that got past DialArm while it is pending has its timer. *)
Timed ==
    /\ drain # "none" => ctxDone
    /\ tasksClosed => ctxDone
    /\ \A r \in pending : dial[r] \in {"writing", "accepted"} => r \in expiry

(* A dial command is executed once, and only after Dial has written it. *)
PlacedOnce ==
    \A r \in Requests :
        /\ dial[r] \in {"idle", "checked", "registered", "writing"}
              => <<"dial", r>> \notin cmds /\ native[r] = "none"
        /\ <<"dial", r>> \in cmds => native[r] = "none"

(* The call_established of a call exists once, and before the player. *)
Established(s) == {i \in 1..Len(s) : s[i] = "established"}
OneOf(s) == \A i, j \in Established(s) : i = j
Unplayed(r) ==
    \/ Established(events[r]) # {} \/ Established(queue[r]) # {} \/ job[r] = "established"
    \/ native[r] \in {"none", "ringing"}
CallOnce(r) ==
    /\ OneOf(events[r]) /\ OneOf(queue[r])
    /\ Established(events[r]) # {} => Established(queue[r]) = {} /\ job[r] # "established"
    /\ Established(queue[r]) # {} => job[r] # "established"
    /\ native[r] \in {"none", "ringing"} =>
          /\ Established(events[r]) = {} /\ Established(queue[r]) = {}
          /\ job[r] # "established"
    /\ Unplayed(r) => player[r] = "none"
AnsweredOnce == \A r \in Requests : CallOnce(r)

IInv == TypeOK /\ Rights /\ Timed /\ PlacedOnce /\ AnsweredOnce /\ TrueIsAnnounced

\* The rest of a queue is the queue without some events at its front.
LEMMA LaterIsRest ==
    ASSUME NEW S, NEW q \in Seq(S), NEW e \in Later(q)
    PROVE  \E i \in 1..(Len(q) + 1) :
               /\ e \in Seq(S) /\ Len(e) = Len(q) - i + 1
               /\ \A k \in 1..Len(e) : e[k] = q[i + k - 1]
<1>1. PICK i \in 1..(Len(q) + 1) : e = SubSeq(q, i, Len(q))
  BY DEF Later
<1>2. e \in Seq(S) /\ Len(e) = Len(q) - i + 1 /\ \A k \in 1..Len(e) : e[k] = q[i + k - 1]
  BY <1>1
<1> QED BY <1>2

\* A lost connection leaves of the events of each call the rest or nothing.
LEMMA LostFlight ==
    ASSUME TypeOK, LosesFlight
    PROVE  /\ events' \in [Requests -> Seq(Event)]
           /\ \A r \in Requests : events'[r] \in Later(events[r]) \cup {<<>>}
<1>1. \A r \in Requests : \A e \in Later(events[r]) : e \in Seq(Event)
  BY LaterIsRest DEF TypeOK
<1>2. CASE events' = [r \in Requests |-> <<>>]
  BY <1>2
<1>3. CASE events' \in {e \in [Requests -> UNION {Later(events[r]) : r \in Requests}] :
                            \A r \in Requests : e[r] \in Later(events[r])}
  BY <1>1, <1>3
<1> QED BY <1>2, <1>3 DEF LosesFlight

\* Every state is one the program can be in.
LEMMA TypeStep == TypeOK /\ [Next]_vars => TypeOK'
<1> SUFFICES ASSUME TypeOK, [Next]_vars PROVE TypeOK'
  OBVIOUS
<1> USE DEF TypeOK, Conn, DialPC, Native, Event, Job, Player, Timer, DrainPC
<1>1. ASSUME NEW r \in Requests, DialCheck(r) PROVE TypeOK'
  BY <1>1 DEF DialCheck, dialVars, shimVars, workVars, sessVars, doneVars, downVars
<1>2. ASSUME NEW r \in Requests, DialRegister(r) PROVE TypeOK'
  BY <1>2 DEF DialRegister, dialVars, shimVars, workVars, sessVars, doneVars, downVars
<1>3. ASSUME NEW r \in Requests, DialArm(r) PROVE TypeOK'
  <2>1. expiry' \subseteq Requests /\ pending' \subseteq Requests
    BY <1>3 DEF DialArm
  <2>2. dial' \in [Requests -> DialPC]
    <3>1. PICK p \in {"refused", "writing"} : dial' = [dial EXCEPT ![r] = p]
      BY <1>3 DEF DialArm
    <3> QED BY <3>1
  <2> QED BY <1>3, <2>1, <2>2 DEF DialArm, shimVars, workVars, sessVars, doneVars, downVars
<1>4. ASSUME NEW r \in Requests, DialWrite(r) PROVE TypeOK'
  BY <1>4 DEF DialWrite, dialVars, shimVars, workVars, sessVars, doneVars, downVars
<1>5. ASSUME NEW r \in Requests, DialWriteFails(r) PROVE TypeOK'
  BY <1>5 DEF DialWriteFails, dialVars, shimVars, workVars, sessVars, doneVars, downVars
<1>6. ASSUME NEW r \in Requests, Expire(r) PROVE TypeOK'
  BY <1>6 DEF Expire, FailPending, Signal, dialVars, shimVars, workVars, sessVars, doneVars, downVars
<1>7. ASSUME NEW r \in Requests, ShimDial(r) PROVE TypeOK'
  <2>1. native' \in [Requests -> Native] /\ cmds' \subseteq {"dial", "hangup"} \X Requests
    BY <1>7 DEF ShimDial
  <2>2. events' \in [Requests -> Seq(Event)]
    <3>1. CASE events' = events
      BY <3>1
    <3>2. CASE \E e \in Event : events' = [events EXCEPT ![r] = Append(@, e)]
      <4>1. PICK e \in Event : events' = [events EXCEPT ![r] = Append(@, e)]
        BY <3>2
      <4> QED BY <4>1
    <3> QED BY <1>7, <3>1, <3>2 DEF ShimDial, Emit
  <2> QED BY <1>7, <2>1, <2>2
          DEF ShimDial, dialVars, workVars, sessVars, doneVars, downVars
<1>8. ASSUME NEW r \in Requests, ShimHangup(r) PROVE TypeOK'
  <2>1. native' \in [Requests -> Native] /\ cmds' \subseteq {"dial", "hangup"} \X Requests
    BY <1>8 DEF ShimHangup
  <2>2. events' \in [Requests -> Seq(Event)]
    <3>1. PICK e \in {"closed", "call_error"} : Emit(r, e)
      BY <1>8 DEF ShimHangup
    <3> QED BY <3>1 DEF Emit
  <2> QED BY <1>8, <2>1, <2>2
          DEF ShimHangup, dialVars, workVars, sessVars, doneVars, downVars
<1>9. ASSUME NEW r \in Requests, ShimEstablished(r) PROVE TypeOK'
  BY <1>9 DEF ShimEstablished, Emit, dialVars, shimVars, workVars, sessVars, doneVars, downVars
<1>10. ASSUME NEW r \in Requests, ShimClosed(r) PROVE TypeOK'
  BY <1>10 DEF ShimClosed, Emit, Active, dialVars, shimVars, workVars, sessVars, doneVars, downVars
<1>11. ASSUME NEW r \in Requests, ReadDialError(r) PROVE TypeOK'
  BY <1>11 DEF ReadDialError, FailPending, Signal, dialVars, shimVars, workVars, sessVars, doneVars, downVars
<1>12. ASSUME NEW r \in Requests, ReadCallError(r) PROVE TypeOK'
  BY <1>12 DEF ReadCallError, CloseCall, Signal, dialVars, shimVars, workVars, sessVars, doneVars, downVars
<1>13. ASSUME NEW r \in Requests, ReadClosed(r) PROVE TypeOK'
  BY <1>13 DEF ReadClosed, CloseCall, Signal, dialVars, shimVars, workVars, sessVars, doneVars, downVars
<1>14. ASSUME NEW r \in Requests, ReadToWorker(r) PROVE TypeOK'
  BY <1>14 DEF ReadToWorker, dialVars, shimVars, workVars, sessVars, doneVars, downVars
<1>15. ASSUME NEW r \in Requests, WorkerTake(r) PROVE TypeOK'
  BY <1>15 DEF WorkerTake, dialVars, shimVars, workVars, sessVars, doneVars, downVars
<1>16. ASSUME NEW r \in Requests, StartOutgoing(r) PROVE TypeOK'
  BY <1>16 DEF StartOutgoing, Hangup, dialVars, shimVars, workVars, sessVars, doneVars, downVars
<1>17. ASSUME NEW r \in Requests, OnEstablished(r) PROVE TypeOK'
  BY <1>17 DEF OnEstablished, dialVars, shimVars, workVars, sessVars, doneVars, downVars
<1>18. ASSUME NEW r \in Requests, PlayerAdvance(r) PROVE TypeOK'
  BY <1>18 DEF PlayerAdvance, PlayerMoves, dialVars, shimVars, workVars, sessVars, doneVars, downVars
<1>19. ASSUME NEW r \in Requests, PlayerPlays(r) PROVE TypeOK'
  BY <1>19 DEF PlayerPlays, PlayerMoves, dialVars, shimVars, workVars, sessVars, doneVars, downVars
<1>20. ASSUME NEW r \in Requests, PlayerNotifies(r) PROVE TypeOK'
  BY <1>20 DEF PlayerNotifies, PlayerMoves, Notify, Signal, dialVars, shimVars, workVars, sessVars, doneVars, downVars
<1>21. ASSUME NEW r \in Requests, PlayerHangsUp(r) PROVE TypeOK'
  BY <1>21 DEF PlayerHangsUp, PlayerMoves, Hangup, dialVars, shimVars, workVars, sessVars, doneVars, downVars
<1>22. ASSUME NEW r \in Requests, AnswerTimerLooks(r) PROVE TypeOK'
  BY <1>22 DEF AnswerTimerLooks, dialVars, shimVars, workVars, sessVars, doneVars, downVars
<1>23. ASSUME NEW r \in Requests, AnswerTimerActs(r) PROVE TypeOK'
  BY <1>23 DEF AnswerTimerActs, Notify, Signal, Hangup, dialVars, shimVars, workVars, sessVars, doneVars, downVars
<1>24. ASSUME NEW u \in Users, Invalidate(u) PROVE TypeOK'
  BY <1>24 DEF Invalidate, Of, Signal, Hangup, dialVars, shimVars, workVars, sessVars, doneVars, downVars
<1>25. ASSUME NEW r \in Requests, DrainHangsUp(r) PROVE TypeOK'
  BY <1>25 DEF DrainHangsUp, Hangup, dialVars, shimVars, workVars, sessVars, doneVars, downVars
<1>26. CASE Break
  <2>1. cmds' \subseteq {"dial", "hangup"} \X Requests
    BY <1>26 DEF Break, LosesFlight
  <2>2. native' \in [Requests -> Native]
    BY <1>26 DEF Break, LosesFlight, Active
  <2>3. events' \in [Requests -> Seq(Event)]
    BY <1>26, LostFlight DEF Break
  <2>4. done' \in [Requests -> {"none", "true", "false"}] /\ sent' \in [Requests -> 0..2]
    BY <1>26 DEF Break, Signal
  <2>5. breaks' \in 0..MaxBreaks
    BY <1>26, OutboundAssumption DEF Break
  <2> QED BY <1>26, <2>1, <2>2, <2>3, <2>4, <2>5 DEF Break, downVars
<1>27. CASE CloseConn
  BY <1>27 DEF CloseConn, dialVars, shimVars, workVars, sessVars, doneVars, downVars
<1>28. CASE Reconnect
  BY <1>28 DEF Reconnect, dialVars, shimVars, workVars, sessVars, doneVars, downVars
<1>29. CASE ApplyBegin
  BY <1>29 DEF ApplyBegin, dialVars, shimVars, workVars, sessVars, doneVars, downVars
<1>30. CASE ApplyEnd
  BY <1>30 DEF ApplyEnd, dialVars, shimVars, workVars, sessVars, doneVars, downVars
<1>31. CASE Shutdown
  BY <1>31 DEF Shutdown, dialVars, shimVars, workVars, sessVars, doneVars, downVars
<1>32. CASE DrainBegin
  BY <1>32 DEF DrainBegin, Signal, dialVars, shimVars, workVars, sessVars, doneVars, downVars
<1>33. CASE StopTasks
  BY <1>33 DEF StopTasks, dialVars, shimVars, workVars, sessVars, doneVars, downVars
<1>34. CASE DrainWaits
  BY <1>34 DEF DrainWaits, dialVars, shimVars, workVars, sessVars, doneVars, downVars
<1>35. CASE DrainEnds
  BY <1>35 DEF DrainEnds, dialVars, shimVars, workVars, sessVars, doneVars, downVars
<1>36. CASE UNCHANGED vars
  BY <1>36 DEF vars, dialVars, shimVars, workVars, sessVars, doneVars, downVars
<1> QED BY <1>1, <1>2, <1>3, <1>4, <1>5, <1>6, <1>7, <1>8, <1>9, <1>10, <1>11, <1>12, <1>13, <1>14, <1>15, <1>16, <1>17, <1>18, <1>19, <1>20, <1>21, <1>22, <1>23, <1>24, <1>25, <1>26, <1>27, <1>28, <1>29, <1>30, <1>31, <1>32, <1>33, <1>34, <1>35, <1>36
   DEF Next, DialStep, ShimStep, ReadStep, WorkStep, PlayStep, DrainStep

(***************************************************************************)
(* What a step may do to the rights.                                       *)
(***************************************************************************)

(* Nobody signals, and a right at most changes its holder. *)
Keeps ==
    /\ UNCHANGED <<dial, done, sent>>
    /\ pending' \cup owner' = pending \cup owner /\ pending' \cap owner' = {}

(* Some rights are used up, for "true" only where the announcement is on. *)
Settles ==
    \E some \in SUBSET (pending \cup owner), value \in {"true", "false"} :
        /\ Signal(some, value)
        /\ pending' \cup owner' = (pending \cup owner) \ some /\ pending' \cap owner' = {}
        /\ value = "true" => \A r \in some : player'[r] \in {"playing", "played", "hangup"}
        /\ UNCHANGED dial

(* Dial goes on with r, and creates or drops the right to signal it. *)
Dials ==
    \E r \in Requests :
        /\ UNCHANGED <<done, sent, owner>>
        /\ \/ /\ dial[r] = "idle" /\ pending' = pending
              /\ \E p \in {"checked", "refused"} : dial' = [dial EXCEPT ![r] = p]
           \/ /\ dial[r] = "checked" /\ pending' = pending \cup {r}
              /\ dial' = [dial EXCEPT ![r] = "registered"]
           \/ /\ dial[r] = "registered" /\ pending' = pending
              /\ dial' = [dial EXCEPT ![r] = "writing"]
           \/ /\ dial[r] \in {"registered", "writing"} /\ pending' = pending \ {r}
              /\ dial' = [dial EXCEPT ![r] = "refused"]
           \/ /\ dial[r] = "writing" /\ pending' = pending
              /\ dial' = [dial EXCEPT ![r] = "accepted"]

\* closeCall uses the right of the session, if it has one.
LEMMA CloseSettles ==
    ASSUME TypeOK, Rights, NEW r \in Requests, CloseCall(r), UNCHANGED <<dial, pending>>
    PROVE  Settles
<1> DEFINE some == {r} \cap sessions \cap owner
           value == IF Announced(r) THEN "true" ELSE "false"
<1>1. some \in SUBSET (pending \cup owner) /\ value \in {"true", "false"}
  OBVIOUS
<1>2. Signal(some, value) /\ UNCHANGED dial
  BY DEF CloseCall
<1>3. pending' \cup owner' = (pending \cup owner) \ some /\ pending' \cap owner' = {}
  BY DEF CloseCall, Rights, TypeOK
<1>4. value = "true" => \A x \in some : player'[x] \in {"playing", "played", "hangup"}
  BY DEF CloseCall, Announced
<1> QED BY <1>1, <1>2, <1>3, <1>4 DEF Settles

\* failPending uses the right of the request, if it is still pending.
LEMMA FailSettles ==
    ASSUME TypeOK, Rights, NEW r \in Requests, FailPending(r), UNCHANGED <<dial, owner>>
    PROVE  Settles
<1>1. Signal({r} \cap pending, "false") /\ {r} \cap pending \in SUBSET (pending \cup owner)
  BY DEF FailPending
<1>2. pending' \cup owner' = (pending \cup owner) \ ({r} \cap pending) /\ pending' \cap owner' = {}
  BY DEF FailPending, Rights, TypeOK
<1> QED BY <1>1, <1>2 DEF Settles

\* Without a signal and without Dial the rights stay where they are.
LEMMA QuietKeeps ==
    ASSUME TypeOK, Rights, UNCHANGED <<dial, done, sent, pending, owner>>
    PROVE  Keeps
BY DEF Keeps, Rights, TypeOK

\* The steps of Dial.
LEMMA DialEffect ==
    ASSUME TypeOK, NEW r \in Requests, DialCheck(r) \/ DialStep(r)
    PROVE  Dials
<1>1. UNCHANGED <<done, sent, owner>>
  BY DEF DialCheck, DialStep, DialRegister, DialArm, DialWrite, DialWriteFails, sessVars, doneVars
<1>2. CASE DialCheck(r)
  BY <1>1, <1>2 DEF DialCheck, Dials
<1>3. CASE DialRegister(r)
  BY <1>1, <1>3 DEF DialRegister, Dials
<1>4. CASE DialArm(r)
  BY <1>1, <1>4 DEF DialArm, Dials
<1>5. CASE DialWrite(r)
  BY <1>1, <1>5 DEF DialWrite, Dials
<1>6. CASE DialWriteFails(r)
  BY <1>1, <1>6 DEF DialWriteFails, Dials
<1> QED BY <1>2, <1>3, <1>4, <1>5, <1>6 DEF DialStep

\* The player and the answer timer use the right of the session they notify.
LEMMA NotifyEffect ==
    ASSUME TypeOK, Rights, NEW r \in Requests, PlayerNotifies(r) \/ AnswerTimerActs(r)
    PROVE  Settles
<1>1. PICK value \in {"true", "false"} :
          /\ Notify(r, value)
          /\ value = "true" => player'[r] = "hangup"
  BY DEF PlayerNotifies, PlayerMoves, AnswerTimerActs, TypeOK
<1>2. UNCHANGED <<dial, pending>>
  BY DEF PlayerNotifies, AnswerTimerActs, dialVars
<1>3. Signal({r} \cap owner, value) /\ {r} \cap owner \in SUBSET (pending \cup owner)
  BY <1>1 DEF Notify
<1>4. pending' \cup owner' = (pending \cup owner) \ ({r} \cap owner) /\ pending' \cap owner' = {}
  BY <1>1, <1>2 DEF Notify, Rights, TypeOK
<1> QED BY <1>1, <1>2, <1>3, <1>4 DEF Settles

\* A revoked user, a lost bridge and Drain settle many requests at once.
LEMMA ManyEffect ==
    ASSUME TypeOK, Rights, (\E u \in Users : Invalidate(u)) \/ Break \/ DrainBegin
    PROVE  Settles
<1>1. UNCHANGED dial
  BY DEF Invalidate, Break, DrainBegin
<1> SUFFICES \E some \in SUBSET (pending \cup owner) :
                 /\ Signal(some, "false")
                 /\ pending' \cup owner' = (pending \cup owner) \ some
                 /\ pending' \cap owner' = {}
  BY <1>1 DEF Settles
<1>2. ASSUME NEW u \in Users, Invalidate(u)
      PROVE  \E some \in SUBSET (pending \cup owner) :
                 /\ Signal(some, "false")
                 /\ pending' \cup owner' = (pending \cup owner) \ some
                 /\ pending' \cap owner' = {}
  <2> DEFINE some == (pending \cap Of(u)) \cup (sessions \cap Of(u) \cap owner)
  <2>1. Signal(some, "false") /\ some \in SUBSET (pending \cup owner)
    BY <1>2 DEF Invalidate
  <2>2. pending' = pending \ (pending \cap Of(u)) /\ owner' = owner \ (sessions \cap Of(u))
    BY <1>2 DEF Invalidate
  <2>3. pending' \cup owner' = (pending \cup owner) \ some /\ pending' \cap owner' = {}
    BY <2>2 DEF Rights, TypeOK
  <2> QED BY <2>1, <2>3
<1>3. CASE Break
  <2>1. Signal(pending \cup (sessions \cap owner), "false")
    BY <1>3 DEF Break
  <2>2. pending' \cup owner' = (pending \cup owner) \ (pending \cup (sessions \cap owner))
        /\ pending' \cap owner' = {}
    BY <1>3 DEF Break, Rights, TypeOK
  <2> QED BY <2>1, <2>2
<1>4. CASE DrainBegin
  <2>1. Signal(pending, "false")
    BY <1>4 DEF DrainBegin
  <2>2. pending' \cup owner' = (pending \cup owner) \ pending /\ pending' \cap owner' = {}
    BY <1>4 DEF DrainBegin, Rights, TypeOK, sessVars
  <2> QED BY <2>1, <2>2
<1> QED BY <1>2, <1>3, <1>4

\* Every step keeps all rights, uses some of them up, or is one of Dial's.
LEMMA Effects ==
    ASSUME TypeOK, Rights, [Next]_vars
    PROVE  Keeps \/ Settles \/ Dials
<1>1. ASSUME NEW r \in Requests, DialCheck(r) \/ DialStep(r) PROVE Dials
  BY <1>1, DialEffect
<1>2. ASSUME NEW r \in Requests, Expire(r) \/ ReadDialError(r) PROVE Settles
  <2>1. FailPending(r) /\ UNCHANGED <<dial, owner>>
    BY <1>2 DEF Expire, ReadDialError, sessVars
  <2> QED BY <2>1, FailSettles
<1>3. ASSUME NEW r \in Requests, ReadCallError(r) \/ ReadClosed(r) PROVE Settles
  <2>1. CloseCall(r) /\ UNCHANGED <<dial, pending>>
    BY <1>3 DEF ReadCallError, ReadClosed, dialVars
  <2> QED BY <2>1, CloseSettles
<1>4. ASSUME NEW r \in Requests, PlayerNotifies(r) \/ AnswerTimerActs(r) PROVE Settles
  BY <1>4, NotifyEffect
<1>5. ASSUME (\E u \in Users : Invalidate(u)) \/ Break \/ DrainBegin PROVE Settles
  BY <1>5, ManyEffect
<1>6. ASSUME NEW r \in Requests, StartOutgoing(r) PROVE Keeps
  <2>1. CASE r \in pending
    BY <1>6, <2>1 DEF StartOutgoing, doneVars, Keeps, Rights, TypeOK
  <2>2. CASE r \notin pending
    <3>1. UNCHANGED <<dial, done, sent, pending, owner>>
      BY <1>6, <2>2 DEF StartOutgoing, doneVars
    <3> QED BY <3>1, QuietKeeps
  <2> QED BY <2>1, <2>2
<1>7. ASSUME NEW r \in Requests,
             \/ ShimStep(r) \/ ShimEstablished(r) \/ ShimClosed(r) \/ ReadToWorker(r)
             \/ WorkerTake(r) \/ OnEstablished(r) \/ PlayerAdvance(r) \/ PlayerPlays(r)
             \/ PlayerHangsUp(r) \/ AnswerTimerLooks(r) \/ DrainHangsUp(r)
      PROVE  Keeps
  <2>1. UNCHANGED <<dial, done, sent, pending, owner>>
    BY <1>7 DEF ShimStep, ShimDial, ShimHangup, ShimEstablished, ShimClosed, ReadToWorker,
         WorkerTake, OnEstablished, PlayerAdvance, PlayerPlays, PlayerHangsUp,
         AnswerTimerLooks, DrainHangsUp, dialVars, doneVars, sessVars
  <2> QED BY <2>1, QuietKeeps
<1>8. ASSUME \/ CloseConn \/ Reconnect \/ ApplyBegin \/ ApplyEnd \/ Shutdown
             \/ StopTasks \/ DrainWaits \/ DrainEnds \/ UNCHANGED vars
      PROVE  Keeps
  <2>1. UNCHANGED <<dial, done, sent, pending, owner>>
    BY <1>8 DEF CloseConn, Reconnect, ApplyBegin, ApplyEnd, Shutdown, StopTasks, DrainWaits,
         DrainEnds, vars, dialVars, doneVars, sessVars
  <2> QED BY <2>1, QuietKeeps
<1> QED BY <1>1, <1>2, <1>3, <1>4, <1>5, <1>6, <1>7, <1>8
   DEF Next, ReadStep, WorkStep, PlayStep, DrainStep

\* The rights stay in order, whichever kind of step it is.
LEMMA RightsStep == ASSUME TypeOK, Rights, [Next]_vars PROVE Rights'
<1>1. CASE Keeps
  BY <1>1 DEF Keeps, Rights
<1>2. CASE Settles
  <2>1. PICK some \in SUBSET (pending \cup owner), value \in {"true", "false"} :
            /\ Signal(some, value)
            /\ pending' \cup owner' = (pending \cup owner) \ some /\ pending' \cap owner' = {}
            /\ UNCHANGED dial
    BY <1>2 DEF Settles
  <2>2. \A r \in Requests : r \in some => sent[r] = 0 /\ done[r] = "none"
    BY DEF Rights
  <2>3. \A r \in Requests : /\ done'[r] = IF r \in some THEN value ELSE done[r]
                            /\ sent'[r] = IF r \in some THEN 1 ELSE sent[r]
    BY <2>1, <2>2 DEF Signal
  <2> QED BY <2>1, <2>2, <2>3 DEF Rights
<1>3. CASE Dials
  <2>1. PICK r \in Requests :
            /\ UNCHANGED <<done, sent, owner>>
            /\ \/ /\ dial[r] = "idle" /\ pending' = pending
                  /\ \E p \in {"checked", "refused"} : dial' = [dial EXCEPT ![r] = p]
               \/ /\ dial[r] = "checked" /\ pending' = pending \cup {r}
                  /\ dial' = [dial EXCEPT ![r] = "registered"]
               \/ /\ dial[r] = "registered" /\ pending' = pending
                  /\ dial' = [dial EXCEPT ![r] = "writing"]
               \/ /\ dial[r] \in {"registered", "writing"} /\ pending' = pending \ {r}
                  /\ dial' = [dial EXCEPT ![r] = "refused"]
               \/ /\ dial[r] = "writing" /\ pending' = pending
                  /\ dial' = [dial EXCEPT ![r] = "accepted"]
    BY <1>3 DEF Dials
  <2>2. \A x \in Requests : x # r => dial'[x] = dial[x] /\ (x \in pending' <=> x \in pending)
    BY <2>1 DEF TypeOK
  <2>3. dial'[r] # dial[r] /\ dial'[r] \in {"checked", "refused", "registered", "writing", "accepted"}
    BY <2>1 DEF TypeOK
  <2>4. \A x \in Requests : x # r =>
            /\ sent'[x] \in {0, 1} /\ (done'[x] = "none" <=> sent'[x] = 0)
            /\ x \in pending' \cup owner' => sent'[x] = 0
            /\ ~(x \in pending' /\ x \in owner')
            /\ dial'[x] \in {"idle", "checked"} => x \notin pending' \cup owner' /\ sent'[x] = 0
            /\ dial'[x] \in {"registered", "writing", "accepted"} /\ sent'[x] = 0
                  => x \in pending' \cup owner'
    BY <2>1, <2>2 DEF Rights
  <2>5. /\ sent'[r] \in {0, 1} /\ (done'[r] = "none" <=> sent'[r] = 0)
        /\ r \in pending' \cup owner' => sent'[r] = 0
        /\ ~(r \in pending' /\ r \in owner')
        /\ dial'[r] \in {"idle", "checked"} => r \notin pending' \cup owner' /\ sent'[r] = 0
        /\ dial'[r] \in {"registered", "writing", "accepted"} /\ sent'[r] = 0
              => r \in pending' \cup owner'
    BY <2>1 DEF Rights, TypeOK
  <2> QED BY <2>4, <2>5 DEF Rights
<1> QED BY <1>1, <1>2, <1>3, Effects

(***************************************************************************)
(* DialPromise.                                                            *)
(***************************************************************************)

\* What Dial returned and the Done channels start empty.
LEMMA PromiseInit == Init => Promise!Init
BY DEF Init, Promise!Init, Returned

\* A step of the service returns from one Dial, settles some requests, or
\* changes nothing a caller of Dial can see.
LEMMA PromiseStep ==
    ASSUME TypeOK, Rights, [Next]_vars
    PROVE  [Promise!Next]_(Promise!vars)
<1>1. CASE UNCHANGED <<dial, done>>
  <2>1. Returned' = Returned
    BY <1>1 DEF Returned
  <2> QED BY <1>1, <2>1 DEF Promise!vars
<1>2. CASE Keeps
  BY <1>1, <1>2 DEF Keeps
<1>3. CASE Settles
  <2>1. PICK some \in SUBSET (pending \cup owner), value \in {"true", "false"} :
            Signal(some, value) /\ UNCHANGED dial
    BY <1>3 DEF Settles
  <2>2. some \in SUBSET Requests /\ \A r \in some : done[r] = "none"
    BY DEF Rights, TypeOK
  <2>3. done' = [r \in Requests |-> IF r \in some THEN value ELSE done[r]]
    BY <2>1, <2>2 DEF Signal
  <2>4. Returned' = Returned
    BY <2>1 DEF Returned
  <2>5. CASE some = {}
    <3>1. done' = done
      BY <2>3, <2>5 DEF TypeOK
    <3> QED BY <1>1, <2>1, <3>1
  <2>6. CASE some # {}
    <3>1. [r \in some |-> value] \in [some -> {"true", "false"}]
      OBVIOUS
    <3>2. done' = [r \in Requests |-> IF r \in some THEN [x \in some |-> value][r] ELSE done[r]]
      BY <2>3
    <3>3. Promise!Settle(some)
      BY <2>2, <3>1, <3>2 DEF Promise!Settle
    <3>4. some \in (SUBSET Requests) \ {{}}
      BY <2>2, <2>6
    <3>5. Promise!Next
      BY <2>4, <3>3, <3>4 DEF Promise!Next
    <3> QED BY <3>5
  <2> QED BY <2>5, <2>6
<1>4. CASE Dials
  <2>1. PICK r \in Requests, p \in DialPC :
            /\ UNCHANGED done /\ dial' = [dial EXCEPT ![r] = p]
            /\ dial[r] \in {"idle", "checked", "registered", "writing"}
    BY <1>4 DEF Dials, DialPC
  <2>2. CASE p \in {"accepted", "refused"}
    <3>1. Returned[r] = "none"
      BY <2>1 DEF Returned
    <3>2. Returned' = [Returned EXCEPT ![r] = p]
      BY <2>1, <2>2 DEF Returned, TypeOK
    <3>3. Promise!Return(r, p)
      BY <3>1, <3>2 DEF Promise!Return
    <3> QED BY <2>1, <2>2, <3>3 DEF Promise!Next
  <2>3. CASE p \notin {"accepted", "refused"}
    <3>1. Returned' = Returned
      BY <2>1, <2>3 DEF Returned, TypeOK
    <3> QED BY <2>1, <3>1 DEF Promise!vars
  <2> QED BY <2>2, <2>3
<1> QED BY <1>2, <1>3, <1>4, Effects

(***************************************************************************)
(* The expiry timer of a pending request.                                  *)
(***************************************************************************)

\* Only the start of the timer, its end and a failed write touch expiry.
LEMMA TimedStep == ASSUME TypeOK, Timed, [Next]_vars PROVE Timed'
<1>1. CASE /\ ctxDone' = ctxDone /\ tasksClosed' = tasksClosed /\ drain' = drain
           /\ expiry \subseteq expiry'
           /\ \A r \in pending' : /\ r \in pending
                                  /\ dial'[r] \in {"writing", "accepted"}
                                        => dial[r] \in {"writing", "accepted"}
  BY <1>1 DEF Timed, TypeOK
<1>2. ASSUME NEW r \in Requests, DialArm(r) PROVE Timed'
  <2>1. UNCHANGED <<ctxDone, tasksClosed, drain>>
    BY <1>2 DEF DialArm, downVars
  <2>2. \A x \in Requests : x # r => dial'[x] = dial[x]
    BY <1>2 DEF DialArm, TypeOK
  <2>3. CASE ctxDone
    <3>1. pending' = pending \ {r} /\ expiry' = expiry
      BY <1>2, <2>3 DEF DialArm
    <3> QED BY <2>1, <2>2, <3>1 DEF Timed, TypeOK
  <2>4. CASE ~ctxDone
    <3>1. pending' = pending /\ expiry' = expiry \cup {r}
      BY <1>2, <2>4 DEF DialArm, Timed
    <3> QED BY <2>1, <2>2, <3>1 DEF Timed, TypeOK
  <2> QED BY <2>3, <2>4
<1>3. ASSUME NEW r \in Requests, DialRegister(r) PROVE Timed'
  <2>1. UNCHANGED <<ctxDone, tasksClosed, drain, expiry>> /\ pending' = pending \cup {r}
    BY <1>3 DEF DialRegister, downVars
  <2>2. \A x \in Requests : dial'[x] = IF x = r THEN "registered" ELSE dial[x]
    BY <1>3 DEF DialRegister, TypeOK
  <2> QED BY <2>1, <2>2 DEF Timed, TypeOK
<1>4. ASSUME NEW r \in Requests, DialWriteFails(r) \/ Expire(r) PROVE Timed'
  <2>1. /\ UNCHANGED <<ctxDone, tasksClosed, drain>>
        /\ pending' = pending \ {r} /\ expiry' = expiry \ {r}
    BY <1>4 DEF DialWriteFails, Expire, FailPending, downVars
  <2>2. \A x \in Requests : x # r => dial'[x] = dial[x]
    BY <1>4 DEF DialWriteFails, Expire, TypeOK
  <2> QED BY <2>1, <2>2 DEF Timed, TypeOK
<1>5. ASSUME NEW r \in Requests, DialCheck(r) \/ DialWrite(r) PROVE Timed'
  <2>1. UNCHANGED <<ctxDone, tasksClosed, drain, pending, expiry>>
    BY <1>5 DEF DialCheck, DialWrite, downVars
  <2>2. \A x \in Requests : dial'[x] \in {"writing", "accepted"}
                               => dial[x] \in {"writing", "accepted"}
    BY <1>5 DEF DialCheck, DialWrite, TypeOK
  <2> QED BY <2>1, <2>2 DEF Timed, TypeOK
<1>6. ASSUME NEW r \in Requests,
             \/ ReadDialError(r) \/ ReadCallError(r) \/ ReadClosed(r) \/ StartOutgoing(r)
      PROVE  Timed'
  <2>1. UNCHANGED <<ctxDone, tasksClosed, drain, expiry, dial>> /\ pending' \subseteq pending
    BY <1>6 DEF ReadDialError, ReadCallError, ReadClosed, StartOutgoing, FailPending,
                dialVars, downVars
  <2> QED BY <1>1, <2>1
<1>7. ASSUME (\E u \in Users : Invalidate(u)) \/ Break PROVE Timed'
  <2>1. UNCHANGED <<ctxDone, tasksClosed, drain, expiry, dial>> /\ pending' \subseteq pending
    BY <1>7 DEF Invalidate, Break, downVars
  <2> QED BY <1>1, <2>1
<1>8. CASE Shutdown
  BY <1>8 DEF Shutdown, dialVars, Timed
<1>9. CASE DrainBegin
  <2>1. UNCHANGED <<ctxDone, tasksClosed, expiry, dial>> /\ ctxDone /\ pending' = {}
    BY <1>9 DEF DrainBegin
  <2> QED BY <2>1 DEF Timed
<1>10. CASE StopTasks \/ DrainWaits \/ DrainEnds
  <2>1. UNCHANGED <<ctxDone, expiry, dial, pending>> /\ drain # "none"
    BY <1>10 DEF StopTasks, DrainWaits, DrainEnds, dialVars
  <2> QED BY <2>1 DEF Timed
<1>11. ASSUME NEW r \in Requests,
             \/ ShimStep(r) \/ ShimEstablished(r) \/ ShimClosed(r) \/ ReadToWorker(r)
             \/ WorkerTake(r) \/ OnEstablished(r) \/ PlayStep(r)
             \/ AnswerTimerLooks(r) \/ AnswerTimerActs(r) \/ DrainHangsUp(r)
       PROVE  Timed'
  <2>1. UNCHANGED <<ctxDone, tasksClosed, drain, expiry, dial, pending>>
    BY <1>11 DEF ShimStep, ShimDial, ShimHangup, ShimEstablished, ShimClosed, ReadToWorker,
         WorkerTake, OnEstablished, PlayStep, PlayerAdvance, PlayerPlays, PlayerNotifies,
         PlayerHangsUp, AnswerTimerLooks, AnswerTimerActs, DrainHangsUp, dialVars, downVars
  <2> QED BY <1>1, <2>1
<1>12. CASE CloseConn \/ Reconnect \/ ApplyBegin \/ ApplyEnd \/ UNCHANGED vars
  <2>1. UNCHANGED <<ctxDone, tasksClosed, drain, expiry, dial, pending>>
    BY <1>12 DEF CloseConn, Reconnect, ApplyBegin, ApplyEnd, vars, dialVars, downVars
  <2> QED BY <1>1, <2>1
<1> QED BY <1>2, <1>3, <1>4, <1>5, <1>6, <1>7, <1>8, <1>9, <1>10, <1>11, <1>12
   DEF Next, DialStep, ReadStep, WorkStep, DrainStep

(***************************************************************************)
(* One call_established per call.                                          *)
(***************************************************************************)

\* An event that is added to a queue.
LEMMA EstablishedAppend ==
    ASSUME NEW s \in Seq(Event), NEW e \in Event
    PROVE  /\ e # "established" => Established(Append(s, e)) = Established(s)
           /\ Established(s) = {} => OneOf(Append(s, e))
<1>1. /\ Len(Append(s, e)) = Len(s) + 1 /\ Append(s, e)[Len(s) + 1] = e
      /\ \A i \in 1..Len(s) : Append(s, e)[i] = s[i]
  OBVIOUS
<1>2. Len(s) \in Nat
  OBVIOUS
<1>3. e # "established" => Established(Append(s, e)) = Established(s)
  BY <1>1, <1>2 DEF Established
<1>4. Established(s) = {} => OneOf(Append(s, e))
  BY <1>1, <1>2 DEF Established, OneOf
<1> QED BY <1>3, <1>4

\* A queue without some events at its front has no more than before.
LEMMA EstablishedLater ==
    ASSUME NEW s \in Seq(Event), NEW q \in Later(s) \cup {<<>>}
    PROVE  /\ Established(s) = {} => Established(q) = {}
           /\ OneOf(s) => OneOf(q)
<1>1. CASE q = <<>>
  BY <1>1 DEF Established, OneOf
<1>2. CASE q \in Later(s)
  <2>1. PICK i \in 1..(Len(s) + 1) :
            /\ q \in Seq(Event) /\ Len(q) = Len(s) - i + 1
            /\ \A k \in 1..Len(q) : q[k] = s[i + k - 1]
    BY <1>2, LaterIsRest
  <2>2. \A k \in Established(q) : i + k - 1 \in Established(s)
    BY <2>1 DEF Established
  <2>3. ASSUME OneOf(s), NEW k \in Established(q), NEW l \in Established(q) PROVE k = l
    <3>1. i + k - 1 = i + l - 1
      BY <2>2, <2>3 DEF OneOf
    <3>2. i \in Int /\ k \in Int /\ l \in Int
      BY <2>1 DEF Established
    <3> QED BY <3>1, <3>2
  <2> QED BY <2>2, <2>3 DEF OneOf
<1> QED BY <1>1, <1>2

\* A queue without its first event: when that is the only call_established,
\* none is left.
LEMMA EstablishedTail ==
    ASSUME NEW S \in SUBSET Event, NEW s \in Seq(S), s # <<>>
    PROVE  /\ Established(s) = {} => Established(Tail(s)) = {} /\ Head(s) # "established"
           /\ OneOf(s) => OneOf(Tail(s))
           /\ OneOf(s) /\ Head(s) = "established" => Established(Tail(s)) = {}
           /\ Tail(s) \in Seq(S) /\ Head(s) \in S
<1>1. /\ Tail(s) \in Seq(S) /\ Len(Tail(s)) = Len(s) - 1 /\ Head(s) = s[1] /\ Head(s) \in S
      /\ Len(s) \in Nat \ {0} /\ \A i \in 1..Len(Tail(s)) : Tail(s)[i] = s[i + 1]
  OBVIOUS
<1>2. \A i \in Established(Tail(s)) : i + 1 \in Established(s) /\ i \in Nat \ {0}
  BY <1>1 DEF Established
<1>3. Head(s) = "established" => 1 \in Established(s)
  BY <1>1 DEF Established
<1>4. OneOf(s) => OneOf(Tail(s))
  BY <1>2 DEF OneOf
<1>5. OneOf(s) /\ Head(s) = "established" => Established(Tail(s)) = {}
  <2> SUFFICES ASSUME OneOf(s), Head(s) = "established", NEW i \in Established(Tail(s))
               PROVE  FALSE
    OBVIOUS
  <2>1. i + 1 = 1 /\ i \in Nat \ {0}
    BY <1>2, <1>3 DEF OneOf
  <2> QED BY <2>1
<1> QED BY <1>1, <1>2, <1>3, <1>4, <1>5

\* What a step leaves alone stays as it is.
LEMMA SameCallOnce ==
    ASSUME NEW r \in Requests, CallOnce(r),
           UNCHANGED <<events[r], queue[r], job[r], native[r], player[r]>>
    PROVE  CallOnce(r)'
BY DEF CallOnce, Unplayed

\* The shim places the call, and reports its answer once and its end.
LEMMA ShimOnce ==
    ASSUME TypeOK, PlacedOnce, AnsweredOnce, NEW r \in Requests,
           ShimStep(r) \/ ShimEstablished(r) \/ ShimClosed(r)
    PROVE  AnsweredOnce'
<1>1. UNCHANGED <<queue, job, player>>
  BY DEF ShimStep, ShimDial, ShimHangup, ShimEstablished, ShimClosed, workVars, sessVars
<1>2. events \in [Requests -> Seq(Event)] /\ native \in [Requests -> Native]
  BY DEF TypeOK
<1>3. \A x \in Requests : x # r => events'[x] = events[x] /\ native'[x] = native[x]
  BY <1>2 DEF ShimStep, ShimDial, ShimHangup, ShimEstablished, ShimClosed, Emit
<1>4. \A x \in Requests : x # r => CallOnce(x)'
  BY <1>1, <1>3, SameCallOnce DEF AnsweredOnce
<1>5. CASE ShimEstablished(r)
  <2>1. events'[r] = Append(events[r], "established") /\ native'[r] = "talking"
        /\ native[r] = "ringing"
    BY <1>2, <1>5 DEF ShimEstablished, Emit
  <2>2. OneOf(events'[r])
    BY <1>2, <2>1, EstablishedAppend DEF AnsweredOnce, CallOnce, Event
  <2>3. CallOnce(r)'
    BY <1>1, <2>1, <2>2 DEF AnsweredOnce, CallOnce, Unplayed
  <2> QED BY <1>4, <2>3 DEF AnsweredOnce
<1>6. CASE ShimStep(r) \/ ShimClosed(r)
  <2>1. /\ \/ events'[r] = events[r]
           \/ \E e \in Event \ {"established"} : events'[r] = Append(events[r], e)
        /\ native'[r] \in {"none", "ringing"} => native[r] \in {"none", "ringing"}
    <3>1. CASE ShimDial(r)
      <4>1. native[r] = "none"
        BY <3>1 DEF ShimDial, PlacedOnce
      <4> QED BY <1>2, <3>1, <4>1 DEF ShimDial, Emit, Event
    <3>2. CASE ShimHangup(r)
      BY <1>2, <3>2 DEF ShimHangup, Emit, Event
    <3>3. CASE ShimClosed(r)
      BY <1>2, <3>3 DEF ShimClosed, Emit, Event
    <3> QED BY <1>6, <3>1, <3>2, <3>3 DEF ShimStep
  <2>2. Established(events'[r]) = Established(events[r]) /\ OneOf(events'[r])
    <3>1. events[r] \in Seq(Event) /\ OneOf(events[r])
      BY <1>2 DEF AnsweredOnce, CallOnce
    <3>2. CASE events'[r] = events[r]
      BY <3>1, <3>2
    <3>3. ASSUME NEW e \in Event \ {"established"}, events'[r] = Append(events[r], e)
          PROVE  Established(events'[r]) = Established(events[r])
      BY <3>1, <3>3, EstablishedAppend
    <3> QED BY <2>1, <3>1, <3>2, <3>3 DEF OneOf
  <2>3. CallOnce(r)'
    BY <1>1, <2>1, <2>2 DEF AnsweredOnce, CallOnce, Unplayed
  <2> QED BY <1>4, <2>3 DEF AnsweredOnce
<1> QED BY <1>5, <1>6

\* Reading an event, and handing it to the worker, moves it and adds none.
LEMMA ReadOnce ==
    ASSUME TypeOK, AnsweredOnce, NEW r \in Requests, ReadStep(r)
    PROVE  AnsweredOnce'
<1>1. UNCHANGED <<job, player, native>> /\ events[r] # <<>>
  BY DEF ReadStep, ReadDialError, ReadCallError, ReadClosed, ReadToWorker, CloseCall,
         workVars, sessVars
<1>2. events \in [Requests -> Seq(Event)] /\ queue \in [Requests -> Seq({"outgoing", "established"})]
  BY DEF TypeOK
<1>3. \A x \in Requests : x # r => events'[x] = events[x] /\ queue'[x] = queue[x]
  BY <1>2 DEF ReadStep, ReadDialError, ReadCallError, ReadClosed, ReadToWorker, workVars
<1>4. \A x \in Requests : x # r => CallOnce(x)'
  BY <1>1, <1>3, SameCallOnce DEF AnsweredOnce
<1>5. /\ events'[r] = Tail(events[r])
      /\ \/ queue'[r] = queue[r]
         \/ queue'[r] = <<>>
         \/ /\ queue'[r] = Append(queue[r], Head(events[r]))
            /\ Head(events[r]) \in {"outgoing", "established"}
  BY <1>2 DEF ReadStep, ReadDialError, ReadCallError, ReadClosed, ReadToWorker, workVars
<1>6. /\ Established(events[r]) = {} => Established(events'[r]) = {} /\ Head(events[r]) # "established"
      /\ OneOf(events[r]) => OneOf(events'[r])
      /\ OneOf(events[r]) /\ Head(events[r]) = "established" => Established(events'[r]) = {}
  BY <1>1, <1>2, <1>5, EstablishedTail
<1>7. queue[r] \in Seq(Event)
  BY <1>2 DEF Event
<1>8. CASE queue'[r] = queue[r]
  BY <1>1, <1>4, <1>6, <1>8 DEF AnsweredOnce, CallOnce, Unplayed
<1>9. CASE queue'[r] = <<>>
  <2>1. Established(queue'[r]) = {} /\ OneOf(queue'[r])
    BY <1>9 DEF Established, OneOf
  <2> QED BY <1>1, <1>4, <1>6, <2>1 DEF AnsweredOnce, CallOnce, Unplayed
<1>10. CASE queue'[r] = Append(queue[r], "outgoing")
  <2>1. Established(queue'[r]) = Established(queue[r]) /\ OneOf(queue'[r])
    BY <1>7, <1>10, EstablishedAppend DEF AnsweredOnce, CallOnce, OneOf, Event
  <2> QED BY <1>1, <1>4, <1>6, <2>1 DEF AnsweredOnce, CallOnce, Unplayed
<1>11. CASE queue'[r] = Append(queue[r], "established") /\ Head(events[r]) = "established"
  <2>1. Established(events[r]) # {} /\ Established(events'[r]) = {}
    BY <1>6, <1>11 DEF AnsweredOnce, CallOnce
  <2>2. Established(queue[r]) = {} /\ job[r] # "established" /\ player[r] = "none"
        /\ native[r] \notin {"none", "ringing"}
    BY <2>1 DEF AnsweredOnce, CallOnce, Unplayed
  <2>3. OneOf(queue'[r])
    BY <1>7, <1>11, <2>2, EstablishedAppend DEF Event
  <2> QED BY <1>1, <1>4, <1>6, <2>1, <2>2, <2>3 DEF AnsweredOnce, CallOnce, Unplayed
<1> QED BY <1>5, <1>8, <1>9, <1>10, <1>11

\* The worker takes the event, and onEstablished starts the only player.
LEMMA WorkOnce ==
    ASSUME TypeOK, AnsweredOnce, NEW r \in Requests, WorkStep(r)
    PROVE  AnsweredOnce'
<1>1. UNCHANGED <<events, native>>
  BY DEF WorkStep, WorkerTake, StartOutgoing, OnEstablished, shimVars
<1>2. /\ queue \in [Requests -> Seq({"outgoing", "established"})] /\ job \in [Requests -> Job]
      /\ player \in [Requests -> Player]
  BY DEF TypeOK
<1>3. \A x \in Requests : x # r => /\ queue'[x] = queue[x] /\ job'[x] = job[x]
                                   /\ player'[x] = player[x]
  BY <1>2 DEF WorkStep, WorkerTake, StartOutgoing, OnEstablished, sessVars
<1>4. \A x \in Requests : x # r => CallOnce(x)'
  BY <1>1, <1>3, SameCallOnce DEF AnsweredOnce
<1>5. CASE WorkerTake(r)
  <2>1. queue'[r] = Tail(queue[r]) /\ job'[r] = Head(queue[r]) /\ queue[r] # <<>>
        /\ player'[r] = player[r]
    BY <1>2, <1>5 DEF WorkerTake, sessVars
  <2>2. /\ Established(queue[r]) = {} => Established(queue'[r]) = {} /\ Head(queue[r]) # "established"
        /\ OneOf(queue[r]) => OneOf(queue'[r])
        /\ OneOf(queue[r]) /\ Head(queue[r]) = "established" => Established(queue'[r]) = {}
    BY <1>2, <2>1, EstablishedTail DEF Event
  <2> QED BY <1>1, <1>4, <2>1, <2>2 DEF AnsweredOnce, CallOnce, Unplayed
<1>6. CASE StartOutgoing(r)
  <2>1. queue' = queue /\ job'[r] = "none" /\ player' = player
    BY <1>2, <1>6 DEF StartOutgoing
  <2> QED BY <1>1, <1>4, <2>1 DEF AnsweredOnce, CallOnce, Unplayed
<1>7. CASE OnEstablished(r)
  <2>1. queue' = queue /\ job[r] = "established" /\ job'[r] = "none"
    BY <1>2, <1>7 DEF OnEstablished
  <2> QED BY <1>1, <1>4, <2>1 DEF AnsweredOnce, CallOnce, Unplayed
<1> QED BY <1>5, <1>6, <1>7 DEF WorkStep

\* The player goes on from a player that exists.
LEMMA PlayOnce ==
    ASSUME TypeOK, AnsweredOnce, NEW r \in Requests, PlayStep(r)
    PROVE  AnsweredOnce'
<1>1. UNCHANGED <<events, native, queue, job>>
  BY DEF PlayStep, PlayerAdvance, PlayerPlays, PlayerNotifies, PlayerHangsUp, shimVars, workVars
<1>2. player[r] # "none" /\ \A x \in Requests : x # r => player'[x] = player[x]
  BY DEF PlayStep, PlayerAdvance, PlayerPlays, PlayerNotifies, PlayerHangsUp, PlayerMoves, TypeOK
<1>3. \A x \in Requests : x # r => CallOnce(x)'
  BY <1>1, <1>2, SameCallOnce DEF AnsweredOnce
<1>4. CallOnce(r)'
  BY <1>1, <1>2 DEF AnsweredOnce, CallOnce, Unplayed
<1> QED BY <1>3, <1>4 DEF AnsweredOnce

\* A lost connection takes events away; a call that ends with it stays placed.
LEMMA BreakOnce == ASSUME TypeOK, AnsweredOnce, Break PROVE AnsweredOnce'
<1> SUFFICES ASSUME NEW r \in Requests PROVE CallOnce(r)'
  BY DEF AnsweredOnce
<1>1. job' = job /\ player' = player /\ queue'[r] = <<>>
  BY DEF Break
<1>2. Established(queue'[r]) = {} /\ OneOf(queue'[r])
  BY <1>1 DEF Established, OneOf
<1>3. events'[r] \in Later(events[r]) \cup {<<>>} /\ events[r] \in Seq(Event)
  BY LostFlight DEF Break, TypeOK
<1>4. /\ Established(events[r]) = {} => Established(events'[r]) = {}
      /\ OneOf(events[r]) => OneOf(events'[r])
  BY <1>3, EstablishedLater
<1>5. native'[r] \in {"none", "ringing"} => native[r] \in {"none", "ringing"}
  BY DEF Break, LosesFlight, TypeOK, Native
<1> QED BY <1>1, <1>2, <1>4, <1>5 DEF AnsweredOnce, CallOnce, Unplayed

\* Every step keeps the call_established of a call single.
LEMMA OnceStep == ASSUME TypeOK, PlacedOnce, AnsweredOnce, [Next]_vars PROVE AnsweredOnce'
<1>1. CASE UNCHANGED <<events, queue, job, native, player>>
  BY <1>1, SameCallOnce DEF AnsweredOnce
<1>2. ASSUME NEW r \in Requests,
             \/ DialCheck(r) \/ DialStep(r) \/ Expire(r) \/ AnswerTimerLooks(r)
             \/ AnswerTimerActs(r) \/ DrainHangsUp(r)
      PROVE  AnsweredOnce'
  <2>1. UNCHANGED <<events, queue, job, native, player>>
    BY <1>2 DEF DialCheck, DialStep, DialRegister, DialArm, DialWrite, DialWriteFails, Expire,
       AnswerTimerLooks, AnswerTimerActs, DrainHangsUp, shimVars, workVars, sessVars
  <2> QED BY <1>1, <2>1
<1>3. ASSUME \/ \E u \in Users : Invalidate(u)
             \/ CloseConn \/ Reconnect \/ ApplyBegin \/ ApplyEnd \/ Shutdown
             \/ DrainBegin \/ StopTasks \/ DrainWaits \/ DrainEnds \/ UNCHANGED vars
      PROVE  AnsweredOnce'
  <2>1. UNCHANGED <<events, queue, job, native, player>>
    BY <1>3 DEF Invalidate, CloseConn, Reconnect, ApplyBegin, ApplyEnd, Shutdown, DrainBegin,
       StopTasks, DrainWaits, DrainEnds, vars, shimVars, workVars, sessVars
  <2> QED BY <1>1, <2>1
<1>4. ASSUME NEW r \in Requests, ShimStep(r) \/ ShimEstablished(r) \/ ShimClosed(r)
      PROVE  AnsweredOnce'
  BY <1>4, ShimOnce
<1>5. ASSUME NEW r \in Requests, ReadStep(r) \/ WorkStep(r) \/ PlayStep(r)
      PROVE  AnsweredOnce'
  BY <1>5, ReadOnce, WorkOnce, PlayOnce
<1> QED BY <1>2, <1>3, <1>4, <1>5, BreakOnce DEF Next, DrainStep

\* Only Dial writes a dial command, and the shim executes it as it takes it.
LEMMA PlacedStep == ASSUME TypeOK, PlacedOnce, [Next]_vars PROVE PlacedOnce'
<1>1. CASE /\ \A x \in Requests :
                 /\ dial'[x] \in {"idle", "checked", "registered", "writing"}
                       => dial[x] \in {"idle", "checked", "registered", "writing"}
                 /\ <<"dial", x>> \in cmds' => <<"dial", x>> \in cmds
                 /\ native[x] = "none" => native'[x] = "none"
  BY <1>1 DEF PlacedOnce
<1>2. ASSUME NEW r \in Requests, DialWrite(r) PROVE PlacedOnce'
  <2>1. /\ dial[r] = "writing" /\ cmds' = cmds \cup {<<"dial", r>>} /\ native' = native
        /\ \A x \in Requests : dial'[x] = IF x = r THEN "accepted" ELSE dial[x]
    BY <1>2 DEF DialWrite, TypeOK
  <2> QED BY <2>1 DEF PlacedOnce
<1>3. ASSUME NEW r \in Requests, DialCheck(r) \/ DialRegister(r) \/ DialArm(r) \/ DialWriteFails(r)
      PROVE  PlacedOnce'
  <2>1. UNCHANGED <<cmds, native>> /\ dial[r] \in {"idle", "checked", "registered", "writing"}
    BY <1>3 DEF DialCheck, DialRegister, DialArm, DialWriteFails, shimVars
  <2>2. \A x \in Requests : x # r => dial'[x] = dial[x]
    BY <1>3 DEF DialCheck, DialRegister, DialArm, DialWriteFails, TypeOK
  <2> QED BY <1>1, <2>1, <2>2
<1>4. ASSUME NEW r \in Requests, ShimDial(r) PROVE PlacedOnce'
  <2>1. /\ <<"dial", r>> \in cmds /\ cmds' = cmds \ {<<"dial", r>>} /\ dial' = dial
        /\ \A x \in Requests : x # r => native'[x] = native[x]
    BY <1>4 DEF ShimDial, TypeOK, dialVars
  <2> QED BY <2>1 DEF PlacedOnce
<1>5. ASSUME NEW r \in Requests, ShimHangup(r) \/ ShimEstablished(r) \/ ShimClosed(r)
      PROVE  PlacedOnce'
  <2>1. /\ dial' = dial /\ cmds' \subseteq cmds
        /\ \A x \in Requests : native[x] = "none" => native'[x] = "none"
    BY <1>5 DEF ShimHangup, ShimEstablished, ShimClosed, Active, TypeOK, dialVars
  <2> QED BY <1>1, <2>1
<1>6. ASSUME NEW some, Hangup(some), UNCHANGED <<dial, native>> PROVE PlacedOnce'
  BY <1>1, <1>6 DEF Hangup
<1>7. ASSUME NEW r \in Requests,
             \/ StartOutgoing(r) \/ PlayerHangsUp(r) \/ AnswerTimerActs(r) \/ DrainHangsUp(r)
      PROVE  PlacedOnce'
  <2>1. UNCHANGED <<dial, native>> /\ (Hangup({r}) \/ UNCHANGED cmds)
    BY <1>7 DEF StartOutgoing, PlayerHangsUp, AnswerTimerActs, DrainHangsUp, dialVars
  <2> QED BY <1>1, <1>6, <2>1
<1>8. ASSUME NEW u \in Users, Invalidate(u) PROVE PlacedOnce'
  <2>1. UNCHANGED <<dial, native>> /\ Hangup(sessions \cap Of(u))
    BY <1>8 DEF Invalidate
  <2> QED BY <1>6, <2>1
<1>9. CASE Break
  <2>1. dial' = dial /\ cmds' \subseteq cmds
    BY <1>9 DEF Break, LosesFlight
  <2>2. \A x \in Requests : native[x] = "none" => native'[x] = "none"
    BY <1>9 DEF Break, LosesFlight, Active
  <2> QED BY <1>1, <2>1, <2>2
<1>10. ASSUME NEW r \in Requests,
              \/ Expire(r) \/ ReadStep(r) \/ WorkerTake(r) \/ OnEstablished(r)
              \/ PlayerAdvance(r) \/ PlayerPlays(r) \/ PlayerNotifies(r) \/ AnswerTimerLooks(r)
       PROVE  PlacedOnce'
  <2>1. UNCHANGED <<dial, cmds, native>>
    BY <1>10 DEF Expire, ReadStep, ReadDialError, ReadCallError, ReadClosed, ReadToWorker,
       WorkerTake, OnEstablished, PlayerAdvance, PlayerPlays, PlayerNotifies, AnswerTimerLooks,
       dialVars, shimVars
  <2> QED BY <1>1, <2>1
<1>11. ASSUME \/ CloseConn \/ Reconnect \/ ApplyBegin \/ ApplyEnd \/ Shutdown
              \/ DrainBegin \/ StopTasks \/ DrainWaits \/ DrainEnds \/ UNCHANGED vars
       PROVE  PlacedOnce'
  <2>1. UNCHANGED <<dial, cmds, native>>
    BY <1>11 DEF CloseConn, Reconnect, ApplyBegin, ApplyEnd, Shutdown, DrainBegin,
       StopTasks, DrainWaits, DrainEnds, vars, dialVars, shimVars
  <2> QED BY <1>1, <2>1
<1> QED BY <1>2, <1>3, <1>4, <1>5, <1>7, <1>8, <1>9, <1>10, <1>11
   DEF Next, DialStep, ShimStep, WorkStep, PlayStep, DrainStep

(***************************************************************************)
(* What Done reports.                                                      *)
(***************************************************************************)
Reached == {"playing", "played", "ended", "hangup", "over"}

\* A player that has reached the announcement never starts again.
LEMMA PlayerForward ==
    ASSUME TypeOK, AnsweredOnce, [Next]_vars, NEW r \in Requests, player[r] \in Reached
    PROVE  player'[r] \in Reached
<1>1. ASSUME NEW x \in Requests, PlayStep(x) PROVE player'[r] \in Reached
  BY <1>1 DEF PlayStep, PlayerAdvance, PlayerPlays, PlayerNotifies, PlayerHangsUp, PlayerMoves,
     Reached, TypeOK
<1>2. ASSUME NEW x \in Requests, OnEstablished(x) PROVE player'[r] \in Reached
  <2>1. player[x] = "none"
    BY <1>2 DEF OnEstablished, AnsweredOnce, CallOnce, Unplayed
  <2>2. x # r
    BY <2>1 DEF Reached
  <2> QED BY <1>2, <2>2 DEF OnEstablished, TypeOK
<1>3. ASSUME NEW x \in Requests,
             \/ DialCheck(x) \/ DialStep(x) \/ Expire(x) \/ ShimStep(x) \/ ShimEstablished(x)
             \/ ShimClosed(x) \/ ReadStep(x) \/ WorkerTake(x) \/ StartOutgoing(x)
             \/ AnswerTimerLooks(x) \/ AnswerTimerActs(x) \/ DrainHangsUp(x)
      PROVE  player' = player
  BY <1>3 DEF DialCheck, DialStep, DialRegister, DialArm, DialWrite, DialWriteFails, Expire,
     ShimStep, ShimDial, ShimHangup, ShimEstablished, ShimClosed, ReadStep, ReadDialError,
     ReadCallError, ReadClosed, ReadToWorker, CloseCall, WorkerTake, StartOutgoing,
     AnswerTimerLooks, AnswerTimerActs, DrainHangsUp, sessVars
<1>4. ASSUME \/ \E u \in Users : Invalidate(u)
             \/ Break \/ CloseConn \/ Reconnect \/ ApplyBegin \/ ApplyEnd \/ Shutdown
             \/ DrainBegin \/ StopTasks \/ DrainWaits \/ DrainEnds \/ UNCHANGED vars
      PROVE  player' = player
  BY <1>4 DEF Invalidate, Break, CloseConn, Reconnect, ApplyBegin, ApplyEnd, Shutdown,
     DrainBegin, StopTasks, DrainWaits, DrainEnds, vars, sessVars
<1> QED BY <1>1, <1>2, <1>3, <1>4 DEF Next, WorkStep, DrainStep

\* A "true" is sent from a player that has reached the announcement.
LEMMA TruthStep ==
    ASSUME TypeOK, Rights, AnsweredOnce, TrueIsAnnounced, [Next]_vars
    PROVE  TrueIsAnnounced'
<1> SUFFICES ASSUME NEW r \in Requests, done'[r] = "true" PROVE player'[r] \in Reached
  BY DEF TrueIsAnnounced, Reached
<1>1. CASE done[r] = "true"
  BY <1>1, PlayerForward DEF TrueIsAnnounced, Reached
<1>2. CASE done[r] # "true"
  <2>1. Settles
    BY <1>2, Effects DEF Keeps, Dials
  <2>2. PICK some \in SUBSET (pending \cup owner), value \in {"true", "false"} :
            /\ Signal(some, value)
            /\ value = "true" => \A x \in some : player'[x] \in {"playing", "played", "hangup"}
    BY <2>1 DEF Settles
  <2>3. r \in some /\ value = "true"
    BY <1>2, <2>2 DEF Signal
  <2> QED BY <2>2, <2>3 DEF Reached
<1> QED BY <1>1, <1>2

(***************************************************************************)
(* The theorems.                                                           *)
(***************************************************************************)

\* A service that has just been made satisfies the invariant.
LEMMA InvInit == Init => IInv
<1> SUFFICES ASSUME Init PROVE IInv
  OBVIOUS
<1>1. TypeOK
  <2>1. <<>> \in Seq(Event) /\ <<>> \in Seq({"outgoing", "established"})
    OBVIOUS
  <2>2. /\ events \in [Requests -> Seq(Event)]
        /\ queue \in [Requests -> Seq({"outgoing", "established"})]
    BY <2>1 DEF Init
  <2>3. breaks \in 0..MaxBreaks
    BY OutboundAssumption DEF Init
  <2>4. /\ conn \in Conn /\ applying \in BOOLEAN
        /\ ctxDone \in BOOLEAN /\ tasksClosed \in BOOLEAN /\ shuttingDown \in BOOLEAN
        /\ drain \in DrainPC
    BY DEF Init, Conn, DrainPC
  <2>5. /\ stale \subseteq Requests /\ pending \subseteq Requests
        /\ expiry \subseteq Requests /\ cmds \subseteq {"dial", "hangup"} \X Requests
        /\ sessions \subseteq Requests /\ owner \subseteq Requests
        /\ stopped \subseteq Requests /\ heard \subseteq Requests
        /\ hangups \subseteq Requests
    BY DEF Init
  <2>6. /\ dial \in [Requests -> DialPC] /\ native \in [Requests -> Native]
        /\ job \in [Requests -> Job] /\ player \in [Requests -> Player]
        /\ answerTimer \in [Requests -> Timer]
    BY DEF Init, DialPC, Native, Job, Player, Timer
  <2>7. done \in [Requests -> {"none", "true", "false"}] /\ sent \in [Requests -> 0..2]
    BY DEF Init
  <2> QED BY <2>2, <2>3, <2>4, <2>5, <2>6, <2>7 DEF TypeOK
<1>2. Rights /\ Timed /\ PlacedOnce /\ TrueIsAnnounced
  BY DEF Init, Rights, Timed, PlacedOnce, TrueIsAnnounced
<1>3. AnsweredOnce
  BY DEF Init, AnsweredOnce, CallOnce, Unplayed, Established, OneOf
<1> QED BY <1>1, <1>2, <1>3 DEF IInv

\* Every step keeps the invariant.
LEMMA InvStep == IInv /\ [Next]_vars => IInv'
BY TypeStep, RightsStep, TimedStep, PlacedStep, OnceStep, TruthStep DEF IInv

\* The invariant always holds.
LEMMA InvHolds == Spec => []IInv
BY InvInit, InvStep, PTL DEF Spec

\* Type correctness of Service, bridge and shim, for any number of requests.
THEOREM TypeCorrect == Spec => []TypeOK
<1>1. IInv => TypeOK
  BY DEF IInv
<1> QED BY <1>1, InvHolds, PTL

\* AnswersOnce: Done is sent to at most once, by the one that holds the right,
\* and "true" only for a call whose announcement was reached, whatever expiry,
\* dial errors, hangups, revocations, lost bridges and shutdown coincide.
THEOREM DialsAnswerOnce == Spec => []AnswersOnce
<1>1. IInv => AnswersOnce
  <2> SUFFICES ASSUME IInv PROVE AnswersOnce
    OBVIOUS
  <2>1. SignalledOnce
    BY DEF IInv, Rights, SignalledOnce
  <2>2. OneHolder
    BY DEF IInv, Rights, OneHolder
  <2> QED BY <2>1, <2>2 DEF IInv, AnswersOnce
<1> QED BY <1>1, InvHolds, PTL

\* PendingExpires: what Dial accepted never waits without its expiry timer, not
\* even when Drain refuses new tasks.
THEOREM PendingIsTimed == Spec => []PendingExpires
<1>1. IInv => PendingExpires
  BY DEF IInv, Timed, PendingExpires
<1> QED BY <1>1, InvHolds, PTL

\* The service implements the steps of DialPromise: every step of Dial, the
\* bridge, the workers, the timers and Drain returns once from a Dial, settles
\* requests nobody has settled yet, or shows the caller of Dial nothing.
THEOREM DialsImplementThePromise ==
    Spec => Promise!Init /\ [][Promise!Next]_(Promise!vars)
<1>1. IInv /\ [Next]_vars => [Promise!Next]_(Promise!vars)
  BY PromiseStep DEF IInv
<1> QED BY <1>1, InvHolds, PromiseInit, PTL DEF Spec

-----------------------------------------------------------------------------
(* Moving and deleting messages.  The worker's operation is the only thing  *)
(* that connects the provider, the files and the list, so most of the       *)
(* invariant says what an operation knows at each of its steps.  OwnUID is  *)
(* why a stale UID does no harm.                                             *)

Listing  == [folder : Folders, of : {Inbox}, uid : Nat]
Mutation == [kind : {"delete", "move"}, m : Messages, from : Folders, to : Folders,
             status : {"success", "failed", "uncertain", "partial"}]

MoveTypes ==
    /\ at \in [Messages -> Folders] /\ uid \in [Messages -> Nat] /\ next \in [Folders -> Nat]
    /\ file \in [Messages -> Folders] /\ row \in [Messages -> Folders \cup {None}]
    /\ renamed \subseteq Messages /\ stranded \subseteq Messages
    /\ list \in Seq(Messages) /\ cursor \in Nat
    /\ entry \in [Messages -> Listing]
    /\ remoteConn \in {"none", "open", "dead"} /\ closed \in BOOLEAN
    /\ op \in Operation \cup {Idle}
    /\ journal \in Seq(Mutation) /\ others \in Nat

(* A message is in the list once, and the cursor in the list. *)
InList == CursorInRange /\ IsInjective(list) /\ (Busy => list # <<>>)

(* The UID a message was listed with is no other message's, in the folder listed. *)
OwnUID ==
    /\ \A m \in Messages : entry[m].uid < next[Inbox]
    /\ \A m, x \in Messages : at[x] = Inbox /\ uid[x] = entry[m].uid => x = m

(* What an operation knows when it reaches each of its steps. *)
Knows ==
    /\ op.step \in {"connect", "command"} /\ ~op.back => ~op.sent
    /\ op.step = "reconcile" /\ ByUID => SameValidity(op.from)
    /\ op.step \in {"local", "index"} => op.left /\ ~op.back
    /\ op.step = "index" => file[op.m] = op.to
OpKnows == Busy => Knows

-----------------------------------------------------------------------------
\* SetToSeq lists every element of a finite set once.
LEMMA ListOfSet ==
    ASSUME NEW S, IsFiniteSet(S)
    PROVE  /\ SetToSeq(S) \in Seq(S) /\ IsInjective(SetToSeq(S))
           /\ \A m \in S : \E i \in 1..Len(SetToSeq(S)) : SetToSeq(S)[i] = m
<1> DEFINE n == Cardinality(S)
<1>1. n \in Nat /\ ExistsBijection(1..n, S)
  BY FS_CardinalityType
<1>2. \E f \in [1..n -> S] : IsInjective(f)
  BY <1>1 DEF ExistsBijection, Bijection, Injection
<1>3. SetToSeq(S) \in [1..n -> S] /\ IsInjective(SetToSeq(S))
  BY <1>2 DEF SetToSeq
<1> DEFINE s == SetToSeq(S)
<1> HIDE DEF s, n
<1>4. s \in [1..n -> S] /\ IsInjective(s)
  BY <1>3 DEF s, n
<1>5. s \in Seq(S) /\ Len(s) = n
  BY <1>1, <1>4
<1>6. s \in Injection(1..n, S)
  BY <1>4 DEF Injection
<1>7. s \in Surjection(1..n, S)
  BY <1>1, <1>6, FS_Injection, FS_Interval DEF n
<1>8. \A m \in S : \E i \in 1..Len(s) : s[i] = m
  BY <1>5, <1>7 DEF Surjection
<1> QED BY <1>4, <1>5, <1>8 DEF s

\* A list without one of its places has no message twice either.
LEMMA ListWithout ==
    ASSUME NEW S, NEW s \in Seq(S), IsInjective(s), NEW i \in 1..Len(s)
    PROVE  /\ RemoveAt(s, i) \in Seq(S) /\ Len(RemoveAt(s, i)) = Len(s) - 1
           /\ IsInjective(RemoveAt(s, i))
<1> DEFINE n == Len(s)
           a == SubSeq(s, 1, i - 1)
           b == SubSeq(s, i + 1, n)
<1>0. n \in Nat /\ i \in 1..n /\ \A k \in 1..n : s[k] \in S
  OBVIOUS
<1> HIDE DEF n
<1>1. a \in Seq(S) /\ Len(a) = i - 1 /\ \A k \in 1..(i - 1) : a[k] = s[k]
  <2>1. \A k \in 1..(i - 1) : s[k] \in S
    BY <1>0
  <2>2. /\ a \in Seq(S) /\ Len(a) = IF 1 <= i - 1 THEN i - 1 - 1 + 1 ELSE 0
        /\ \A k \in 1..(i - 1 - 1 + 1) : a[k] = s[1 + k - 1]
    BY <1>0, <2>1, SubSeqProperties
  <2> QED BY <1>0, <2>2
<1>2. b \in Seq(S) /\ Len(b) = n - i /\ \A k \in 1..(n - i) : b[k] = s[i + k]
  <2>1. \A k \in (i + 1)..n : s[k] \in S
    BY <1>0
  <2>2. /\ b \in Seq(S) /\ Len(b) = IF i + 1 <= n THEN n - (i + 1) + 1 ELSE 0
        /\ \A k \in 1..(n - (i + 1) + 1) : b[k] = s[i + 1 + k - 1]
    BY <1>0, <2>1, SubSeqProperties
  <2> QED BY <1>0, <2>2
<1> HIDE DEF a, b
<1>3. /\ a \o b \in Seq(S) /\ Len(a \o b) = n - 1
      /\ \A k \in 1..(n - 1) : (a \o b)[k] = IF k < i THEN s[k] ELSE s[k + 1]
  <2>1. /\ a \o b \in Seq(S) /\ Len(a \o b) = Len(a) + Len(b)
        /\ \A k \in 1..(Len(a) + Len(b)) :
              (a \o b)[k] = IF k <= Len(a) THEN a[k] ELSE b[k - Len(a)]
    BY <1>1, <1>2, ConcatProperties
  <2> QED BY <1>0, <1>1, <1>2, <2>1
<1>4. \A j, k \in 1..n : s[j] = s[k] => j = k
  BY DEF IsInjective, n
<1> DEFINE c == a \o b
<1>5. DOMAIN c = 1..(n - 1)
  BY <1>0, <1>3, LenProperties
<1> HIDE DEF c
<1>6. \A j, k \in 1..(n - 1) : c[j] = c[k] => j = k
  <2> SUFFICES ASSUME NEW j \in 1..(n - 1), NEW k \in 1..(n - 1), c[j] = c[k] PROVE j = k
    OBVIOUS
  <2>1. PICK p \in 1..n : c[j] = s[p] /\ p = IF j < i THEN j ELSE j + 1
    BY <1>0, <1>3 DEF c
  <2>2. PICK q \in 1..n : c[k] = s[q] /\ q = IF k < i THEN k ELSE k + 1
    BY <1>0, <1>3 DEF c
  <2>3. p = q
    BY <1>4, <2>1, <2>2
  <2> QED BY <1>0, <2>1, <2>2, <2>3
<1>7. IsInjective(c)
  BY <1>5, <1>6 DEF IsInjective
<1>8. RemoveAt(s, i) = c
  BY DEF RemoveAt, c, a, b, n
<1> QED BY <1>3, <1>7, <1>8 DEF c, n

-----------------------------------------------------------------------------
MoveInv == MoveTypes /\ InList /\ OwnUID /\ OpKnows

\* The list at the beginning numbers the messages, as the provider does.
LEMMA MoveInit == MovesInit => MoveInv
<1> SUFFICES ASSUME MovesInit PROVE MoveInv
  OBVIOUS
<1> DEFINE n == Len(Order)
<1>1. /\ Order \in Seq(Messages) /\ IsInjective(Order)
      /\ \A m \in Messages : \E i \in 1..n : Order[i] = m
  BY MovesAssumption, ListOfSet DEF Order
<1>2. n \in Nat
  BY <1>1
<1> HIDE DEF n
<1>3. \A m \in Messages : uid[m] \in 1..n /\ Order[uid[m]] = m
  <2> SUFFICES ASSUME NEW m \in Messages PROVE uid[m] \in 1..n /\ Order[uid[m]] = m
    OBVIOUS
  <2>1. uid[m] = CHOOSE i \in 1..n : Order[i] = m
    BY DEF MovesInit, n
  <2> QED BY <1>1, <2>1
<1>4. DOMAIN uid = Messages
  BY DEF MovesInit
<1>5. uid \in [Messages -> Nat]
  <2>1. uid = [m \in Messages |-> uid[m]]
    BY DEF MovesInit
  <2> QED BY <1>2, <1>3, <2>1
<1>6. {Inbox, Trash} \subseteq Folders
  BY MovesAssumption
<1>7. next \in [Folders -> Nat] /\ next[Inbox] = n + 1
  <2>1. next = [f \in Folders |-> IF f = Inbox THEN n + 1 ELSE 1]
    BY DEF MovesInit, n
  <2> QED BY <1>2, <1>6, <2>1
<1>8. \A m \in Messages : entry[m] = [folder |-> Inbox, of |-> Inbox, uid |-> uid[m]]
  BY DEF MovesInit
<1>9. entry \in [Messages -> Listing]
  <2>1. entry = [m \in Messages |-> [folder |-> Inbox, of |-> Inbox, uid |-> uid[m]]]
    BY DEF MovesInit
  <2> QED BY <1>5, <1>6, <2>1 DEF Listing
<1>10. MoveTypes
  <2>1. /\ at \in [Messages -> Folders] /\ file \in [Messages -> Folders]
        /\ row \in [Messages -> Folders \cup {None}]
    BY <1>6 DEF MovesInit
  <2>2. list \in Seq(Messages) /\ cursor \in Nat /\ journal \in Seq(Mutation) /\ others \in Nat
    BY <1>1 DEF MovesInit
  <2>3. /\ renamed \subseteq Messages /\ stranded \subseteq Messages
        /\ remoteConn \in {"none", "open", "dead"} /\ closed \in BOOLEAN
        /\ op \in Operation \cup {Idle}
    BY DEF MovesInit
  <2> QED BY <1>5, <1>7, <1>9, <2>1, <2>2, <2>3 DEF MoveTypes
<1>11. ~Busy
  BY DEF MovesInit, Busy, Idle
<1>12. InList
  <2>1. list = Order /\ cursor = 0
    BY DEF MovesInit
  <2>2. CursorInRange
    BY <1>1, <2>1, EmptySeq DEF CursorInRange
  <2> QED BY <1>1, <1>11, <2>1, <2>2 DEF InList
<1>13. OwnUID
  <2>1. ASSUME NEW m \in Messages PROVE entry[m].uid = uid[m]
    <3>1. entry[m] = [folder |-> Inbox, of |-> Inbox, uid |-> uid[m]]
      BY <1>8
    <3> QED BY <3>1
  <2>2. \A m \in Messages : entry[m].uid < next[Inbox]
    BY <1>2, <1>3, <1>7, <2>1
  <2> QED BY <1>3, <2>1, <2>2 DEF OwnUID
<1> QED BY <1>10, <1>11, <1>12, <1>13 DEF MoveInv, OpKnows

-----------------------------------------------------------------------------
(* What a step does to the parts of the state. *)

\* Messages come to folder f at the provider, each under a new UID.
Arrive(moved, f) ==
    /\ at' = [x \in Messages |-> IF x \in moved THEN f ELSE at[x]]
    /\ uid' = [x \in Messages |-> IF x \in moved THEN next[f] ELSE uid[x]]
    /\ next' = [next EXCEPT ![f] = IF moved = {} THEN @ ELSE @ + 1]

ProviderTypes ==
    at \in [Messages -> Folders] /\ uid \in [Messages -> Nat] /\ next \in [Folders -> Nat]

\* A new UID is no listed one.
LEMMA ArriveKeeps ==
    ASSUME MoveTypes, OwnUID, NEW moved \in SUBSET Messages, NEW f \in Folders, Arrive(moved, f),
           \A m \in Messages : entry'[m].uid = entry[m].uid
    PROVE  ProviderTypes' /\ OwnUID'
<1>1. ProviderTypes'
  BY DEF MoveTypes, ProviderTypes, Arrive
<1>2. Inbox \in Folders
  BY MovesAssumption
<1>3. next'[Inbox] \in Nat /\ next[Inbox] \in Nat /\ next[Inbox] <= next'[Inbox]
  BY <1>2 DEF MoveTypes, Arrive
<1>4. \A m \in Messages : entry[m].uid \in Nat
  BY DEF MoveTypes, Listing
<1>5. \A m \in Messages : entry'[m].uid < next'[Inbox]
  BY <1>3, <1>4 DEF OwnUID
<1>6. ASSUME NEW m \in Messages, NEW x \in Messages, at'[x] = Inbox, uid'[x] = entry'[m].uid
      PROVE  x = m
  <2>1. CASE x \in moved
    <3>1. at'[x] = f /\ uid'[x] = next[f]
      BY <2>1 DEF Arrive
    <3>2. entry[m].uid < next[Inbox] /\ entry[m].uid \in Nat
      BY <1>4 DEF OwnUID
    <3>3. entry[m].uid = next[Inbox]
      BY <1>6, <3>1
    <3> QED BY <1>3, <3>2, <3>3
  <2>2. CASE x \notin moved
    <3>1. at'[x] = at[x] /\ uid'[x] = uid[x]
      BY <2>2 DEF Arrive
    <3> QED BY <1>6, <3>1 DEF OwnUID
  <2> QED BY <2>1, <2>2
<1> QED BY <1>1, <1>5, <1>6 DEF OwnUID

\* The provider is left alone.
LEMMA ProviderStays ==
    ASSUME MoveTypes, OwnUID, UNCHANGED provider,
           \A m \in Messages : entry'[m].uid = entry[m].uid
    PROVE  ProviderTypes' /\ OwnUID'
BY DEF MoveTypes, OwnUID, provider, ProviderTypes

\* Whoever is busy has an operation.
LEMMA BusyOp ==
    ASSUME MoveTypes, Busy
    PROVE  op \in Operation /\ op.m \in Messages /\ op.from \in Folders /\ op.to \in Folders
           /\ Source \in Folders /\ Target \in Folders
BY DEF MoveTypes, Busy, Idle, Operation, Source, Target

\* What becomes of the operation, the journal and the history variable.
OpEnds == /\ op' = Idle /\ journal' \in Seq(Mutation) /\ stranded' \subseteq Messages
OpGoes == /\ op' \in Operation /\ Knows' /\ journal' \in Seq(Mutation) /\ stranded' \subseteq Messages

\* What recordMutation writes is a line of the journal.
LEMMA RecordedType ==
    ASSUME MoveTypes, Busy, NEW s \in {"success", "failed", "uncertain", "partial"}
    PROVE  Recorded(s) \in Seq(Mutation)
<1>1. [kind |-> op.kind, m |-> op.m, from |-> op.from, to |-> op.to, status |-> s] \in Mutation
  BY BusyOp DEF Mutation, Operation
<1>2. journal \in Seq(Mutation)
  BY DEF MoveTypes
<1> QED BY <1>1, <1>2, AppendProperties DEF Recorded

\* A rollback ends the operation.
LEMMA BackEnding ==
    ASSUME MoveTypes, Busy, NEW place, BackEnds(place)
    PROVE  OpEnds
<1>1. journal' = Recorded("partial") \/ journal' = journal
  BY DEF BackEnds
<1>2. stranded' = stranded \cup {op.m} \/ stranded' = stranded
  BY DEF BackEnds
<1> QED BY <1>1, <1>2, BusyOp, RecordedType DEF BackEnds, OpEnds, MoveTypes

\* So does a remote move that returns an error.
LEMMA Settling ==
    ASSUME MoveTypes, Busy, NEW s \in {"failed", "uncertain"}, Settle(s)
    PROVE  OpEnds
<1>1. CASE op.back
  <2>1. BackEnds(at'[op.m])
    BY <1>1 DEF Settle
  <2> QED BY <2>1, BackEnding
<1>2. CASE ~op.back
  <2>1. op' = Idle /\ journal' = Recorded(s) /\ stranded' = stranded
    BY <1>2 DEF Settle
  <2> QED BY <2>1, RecordedType DEF OpEnds, MoveTypes
<1> QED BY <1>1, <1>2

\* One that returns without an error goes on with the file, unless it is a rollback.
LEMMA Proceeding ==
    ASSUME MoveTypes, Busy, NEW hit \in BOOLEAN, Proceed(hit),
           ~op.back => hit \/ at'[op.m] # op.from \/ uid'[op.m] # entry[op.m].uid
    PROVE  OpEnds \/ OpGoes
<1>1. CASE op.back
  <2>1. BackEnds(at'[op.m])
    BY <1>1 DEF Proceed
  <2> QED BY <2>1, BackEnding
<1>2. CASE ~op.back
  <2>1. /\ op' = [op EXCEPT !.step = "local", !.sent = hit, !.left = TRUE]
        /\ journal' = journal /\ stranded' = stranded
    BY <1>2 DEF Proceed
  <2>2. op' \in Operation /\ op'.step = "local" /\ op'.left /\ ~op'.back
    BY <1>2, <2>1, BusyOp DEF Operation
  <2>3. Knows'
    BY <2>2 DEF Knows
  <2> QED BY <2>1, <2>2, <2>3 DEF OpGoes, MoveTypes
<1> QED BY <1>1, <1>2

\* The steps of the worker that leave the list, the files and the rows alone.
LEMMA WorkerKeeps ==
    ASSUME MoveInv, Busy, OpEnds \/ OpGoes, ProviderTypes', OwnUID',
           UNCHANGED <<local, screen>>, remoteConn' \in {"none", "open", "dead"},
           UNCHANGED <<closed, others>>
    PROVE  MoveInv'
<1>1. op' \in Operation \cup {Idle} /\ OpKnows' /\ journal' \in Seq(Mutation) /\ stranded' \subseteq Messages
  BY DEF OpEnds, OpGoes, OpKnows, Busy, Idle
<1>2. MoveTypes'
  BY <1>1 DEF MoveInv, MoveTypes, ProviderTypes, local, screen
<1>3. InList'
  BY DEF MoveInv, InList, CursorInRange, screen
<1> QED BY <1>1, <1>2, <1>3 DEF MoveInv

\* The operation has its connection.
LEMMA Advances ==
    ASSUME MoveInv, Busy, op.step = "connect", op' = [op EXCEPT !.step = "command"], UNCHANGED <<journal, stranded>>
    PROVE  OpGoes
<1>1. op \in Operation /\ Knows
  BY BusyOp DEF MoveInv, OpKnows
<1>2. op' \in Operation /\ op'.step = "command" /\ op'.back = op.back /\ op'.sent = op.sent
  BY <1>1 DEF Operation
<1> QED BY <1>1, <1>2 DEF OpGoes, Knows, MoveInv, MoveTypes

\* What a look-up leads to.
LEMMA LookedUp ==
    ASSUME Reconcile
    PROVE  \/ Settle("uncertain")
           \/ Verdict = "applied" /\ Proceed(op.sent)
           \/ Verdict = "notApplied" /\ Settle("failed")
<1>1. Verdict \in {"applied", "notApplied", "unknown"}
  <2>1. CASE ByUID
    BY <2>1 DEF Verdict
  <2>2. CASE ~ByUID /\ Source = Target
    BY <2>2 DEF Verdict
  <2>3. CASE ~ByUID /\ Source # Target
    BY <2>3 DEF Verdict
  <2> QED BY <2>1, <2>2, <2>3
<1>2. \/ Settle("uncertain")
      \/ CASE Verdict = "applied" -> Proceed(op.sent)
           [] Verdict = "notApplied" -> Settle("failed")
           [] Verdict = "unknown" -> Settle("uncertain")
  BY DEF Reconcile
<1> QED BY <1>1, <1>2

\* The remote move: no step of it spoils the list or the journal.
LEMMA RemoteKeeps == ASSUME MoveInv, RemoteSteps PROVE MoveInv'
<1>0. MoveTypes /\ OwnUID
  BY DEF MoveInv
<1>1. Busy /\ UNCHANGED <<closed, others>> /\ UNCHANGED <<local, screen>>
  BY DEF RemoteSteps, Connect, CommandImpossible, CommandSucceeds, CommandRefused, CommandLost,
         Reconcile, CanAct, At, Busy
<1>2. \A m \in Messages : entry'[m].uid = entry[m].uid
  BY <1>1 DEF screen
<1>3. Hit \subseteq Messages
  BY <1>0, <1>1, BusyOp DEF Hit
<1>4. UNCHANGED provider => ProviderTypes' /\ OwnUID'
  BY <1>0, <1>2, ProviderStays
<1>5. ASSUME NEW moved \in {Hit, {}}, Apply(moved)
      PROVE  ProviderTypes' /\ OwnUID'
  <2>1. Arrive(moved, Target) /\ moved \in SUBSET Messages
    BY <1>3, <1>5 DEF Apply, Arrive
  <2> QED BY <1>0, <1>1, <1>2, <2>1, BusyOp, ArriveKeeps
<1>6. CASE Connect
  <2>1. remoteConn' \in {"none", "open", "dead"} /\ UNCHANGED provider
    BY <1>0, <1>6 DEF Connect, MoveTypes
  <2>2. OpEnds \/ OpGoes
    <3>1. CASE Settle("failed")
      BY <1>0, <1>1, <3>1, Settling
    <3>2. CASE op' = [op EXCEPT !.step = "command"] /\ UNCHANGED <<journal, stranded>>
      BY <1>1, <1>6, <3>2, Advances DEF Connect, At
    <3> QED BY <1>6, <3>1, <3>2 DEF Connect
  <2> QED BY <1>1, <1>4, <2>1, <2>2, WorkerKeeps
<1>7. CASE CommandImpossible \/ CommandRefused
  <2>1. remoteConn' \in {"none", "open", "dead"} /\ UNCHANGED provider /\ Settle("failed")
    BY <1>7 DEF CommandImpossible, CommandRefused
  <2>2. OpEnds
    BY <1>0, <1>1, <2>1, Settling
  <2> QED BY <1>1, <1>4, <2>1, <2>2, WorkerKeeps
<1>8. CASE CommandSucceeds
  <2>1. remoteConn' = "dead" /\ Apply(Hit) /\ Proceed(op.m \in Hit)
    BY <1>8 DEF CommandSucceeds
  <2>2. ~op.back => op.m \in Hit \/ at'[op.m] # op.from \/ uid'[op.m] # entry[op.m].uid
    <3> SUFFICES ASSUME ~op.back, op.m \notin Hit
                 PROVE  at'[op.m] # op.from \/ uid'[op.m] # entry[op.m].uid
      OBVIOUS
    <3>1. op.m \in Messages
      BY <1>0, <1>1, BusyOp
    <3>2. at[op.m] # op.from \/ uid[op.m] # entry[op.m].uid
      BY <3>1 DEF Hit, Source
    <3>3. at'[op.m] = at[op.m] /\ uid'[op.m] = uid[op.m]
      BY <2>1, <3>1 DEF Apply
    <3> QED BY <3>2, <3>3
  <2>3. OpEnds \/ OpGoes
    <3>1. (op.m \in Hit) \in BOOLEAN
      OBVIOUS
    <3> QED BY <1>0, <1>1, <2>1, <2>2, <3>1, Proceeding
  <2> QED BY <1>1, <1>5, <2>1, <2>3, WorkerKeeps
<1>9. CASE CommandLost
  <2>1. PICK moved \in {Hit, {}}, hit \in BOOLEAN :
           Apply(moved) /\ op' = [op EXCEPT !.step = "reconcile", !.sent = hit]
    <3>1. PICK moved \in {Hit, {}} :
             Apply(moved) /\ op' = [op EXCEPT !.step = "reconcile", !.sent = op.m \in moved]
      BY <1>9 DEF CommandLost
    <3> DEFINE hit == op.m \in moved
    <3>2. hit \in BOOLEAN /\ op' = [op EXCEPT !.step = "reconcile", !.sent = hit]
      BY <3>1
    <3> HIDE DEF hit
    <3> QED BY <3>1, <3>2
  <2>2. op \in Operation
    BY <1>0, <1>1, BusyOp
  <2>3. /\ op' \in Operation /\ op'.step = "reconcile" /\ op'.m = op.m /\ op'.back = op.back
        /\ op'.from = op.from
    BY <2>1, <2>2 DEF Operation
  <2>4. ByUID' => ByUID
    <3>1. op'.m = op.m
      BY <2>3
    <3>2. op'.back = op.back
      BY <2>3
    <3> QED BY <3>1, <3>2, Zenon DEF ByUID
  <2>5. ByUID => Validity[op.from] = Validity[entry[op.m].of]
    BY <1>9 DEF CommandLost, CanAct, Found, SameValidity, Source, ByUID
  <2>6. Knows'
    BY <1>1, <2>3, <2>4, <2>5 DEF Knows, SameValidity, screen
  <2>7. OpGoes /\ remoteConn' = "none"
    BY <1>0, <1>9, <2>3, <2>6 DEF OpGoes, CommandLost, MoveTypes
  <2> QED BY <1>1, <1>5, <2>1, <2>7, WorkerKeeps
<1>10. CASE Reconcile
  <2>1. UNCHANGED provider /\ remoteConn' \in {"none", "open", "dead"}
    BY <1>10 DEF Reconcile
  <2>2. \/ Settle("uncertain") \/ Settle("failed")
        \/ Verdict = "applied" /\ Proceed(op.sent)
    BY <1>10, LookedUp
  <2>3. ASSUME Verdict = "applied", Proceed(op.sent) PROVE OpEnds \/ OpGoes
    <3>1. at[op.m] = Target /\ Source # Target
      BY <2>3 DEF Verdict
    <3>2. ~op.back => at'[op.m] # op.from
      BY <2>1, <3>1 DEF Source, provider
    <3>3. op.sent \in BOOLEAN
      BY <1>0, <1>1, BusyOp DEF Operation
    <3> QED BY <1>0, <1>1, <2>3, <3>2, <3>3, Proceeding
  <2>4. OpEnds \/ OpGoes
    BY <1>0, <1>1, <2>2, <2>3, Settling
  <2> QED BY <1>1, <1>4, <2>1, <2>4, WorkerKeeps
<1> QED BY <1>6, <1>7, <1>8, <1>9, <1>10 DEF RemoteSteps

\* The end of an operation whose file and row went along, or went back.
LEMMA LocalTypes ==
    ASSUME MoveTypes, Busy
    PROVE  /\ [file EXCEPT ![op.m] = op.to] \in [Messages -> Folders]
           /\ [file EXCEPT ![op.m] = op.from] \in [Messages -> Folders]
           /\ [row EXCEPT ![op.m] = op.to] \in [Messages -> Folders \cup {None}]
           /\ [row EXCEPT ![op.m] = None] \in [Messages -> Folders \cup {None}]
           /\ [entry EXCEPT ![op.m].folder = op.to] \in [Messages -> Listing]
BY BusyOp DEF MoveTypes, Listing

\* A rollback begins: it has told the caller, and knows nothing yet.
LEMMA RollBackKeeps ==
    ASSUME MoveTypes, Busy, NEW owed \in BOOLEAN, RollBack(owed)
    PROVE  op' \in Operation /\ Knows'
<1>1. op \in Operation
  BY BusyOp
<1>2. op' \in Operation /\ op'.step = "connect" /\ op'.back
  BY <1>1 DEF RollBack, Operation
<1> QED BY <1>2 DEF Knows, ByUID

\* A deleted message leaves the list, and the cursor stays in it.
LEMMA DeleteLocallyKeeps == ASSUME MoveInv, DeleteLocally PROVE MoveInv'
<1>1. MoveTypes /\ Busy /\ OwnUID /\ InList
  BY DEF MoveInv, DeleteLocally, At, Busy
<1>2. ProviderTypes' /\ OwnUID'
  BY <1>1, ProviderStays DEF DeleteLocally
<1> DEFINE n == Len(list)
<1>3. n \in Nat \ {0} /\ cursor \in 0..(n - 1)
  <2>1. list # <<>> /\ cursor < n
    BY <1>1 DEF InList, CursorInRange
  <2> QED BY <1>1, <2>1, EmptySeq DEF MoveTypes
<1> HIDE DEF n
<1>4. /\ list' \in Seq(Messages) /\ Len(list') = n - 1 /\ IsInjective(list')
  <2>1. list \in Seq(Messages) /\ IsInjective(list) /\ cursor + 1 \in 1..Len(list)
    BY <1>1, <1>3 DEF n, MoveTypes, InList
  <2>2. list' = RemoveAt(list, cursor + 1)
    BY DEF DeleteLocally
  <2> QED BY <2>1, <2>2, ListWithout DEF n
<1>5. cursor' \in Nat /\ CursorInRange'
  <2>1. cursor' = ClampedCursor(n - 1)
    BY DEF DeleteLocally, n
  <2>2. list' = <<>> <=> n - 1 = 0
    BY <1>3, <1>4, EmptySeq
  <2> QED BY <1>3, <1>4, <2>1, <2>2 DEF ClampedCursor, CursorInRange
<1>6. journal' \in Seq(Mutation) /\ op' = Idle /\ ~Busy'
  BY <1>1, RecordedType DEF DeleteLocally, Busy, Idle
<1>7. file' \in [Messages -> Folders] /\ row' \in [Messages -> Folders \cup {None}]
  <2>1. row' = row \/ row' = [row EXCEPT ![op.m] = None]
    BY DEF DeleteLocally
  <2> QED BY <1>1, <2>1, LocalTypes DEF DeleteLocally, MoveTypes
<1>8. MoveTypes'
  BY <1>1, <1>2, <1>4, <1>5, <1>6, <1>7 DEF MoveTypes, ProviderTypes, DeleteLocally, At
<1>9. InList'
  BY <1>4, <1>5, <1>6 DEF InList
<1> QED BY <1>2, <1>6, <1>8, <1>9 DEF MoveInv, OpKnows

\* Files, rows and entries change as the operation says.
LEMMA LocalKeeps == ASSUME MoveInv, LocalSteps PROVE MoveInv'
<1>1. MoveTypes /\ Busy /\ OwnUID /\ InList /\ Knows /\ op \in Operation
  BY BusyOp DEF MoveInv, OpKnows, LocalSteps, DeleteLocally, DeleteFails, MoveFile, MoveFails,
                MoveIndex, MoveIndexFails, At, Busy
<1>2. CASE DeleteLocally
  BY <1>2, DeleteLocallyKeeps
<1>3. ASSUME DeleteFails \/ MoveFile \/ MoveFails \/ MoveIndex \/ MoveIndexFails PROVE MoveInv'
  <2>1. UNCHANGED <<provider, list, cursor, remoteConn, stranded, closed, others>>
    BY <1>3 DEF DeleteFails, MoveFile, MoveFails, MoveIndex, MoveIndexFails, At, screen, local
  <2>2. entry' \in [Messages -> Listing] /\ \A m \in Messages : entry'[m].uid = entry[m].uid
    <3>1. entry' = entry \/ entry' = [entry EXCEPT ![op.m].folder = op.to]
      BY <1>3 DEF DeleteFails, MoveFile, MoveFails, MoveIndex, MoveIndexFails, screen
    <3>2. entry' \in [Messages -> Listing]
      BY <1>1, <3>1, LocalTypes DEF MoveTypes
    <3>3. ASSUME NEW m \in Messages PROVE entry'[m].uid = entry[m].uid
      <4>1. entry \in [Messages -> Listing] /\ entry[m] \in Listing
        BY <1>1 DEF MoveTypes
      <4>2. entry'[m] = entry[m] \/ entry'[m] = [entry[m] EXCEPT !.folder = op.to]
        BY <3>1, <4>1
      <4> QED BY <4>1, <4>2 DEF Listing
    <3> QED BY <3>2, <3>3
  <2>3. ProviderTypes' /\ OwnUID'
    BY <1>1, <2>1, <2>2, ProviderStays
  <2>4. /\ file' \in [Messages -> Folders] /\ row' \in [Messages -> Folders \cup {None}]
        /\ renamed' = renamed
    <3>1. \/ file' = file \/ file' = [file EXCEPT ![op.m] = op.to]
          \/ file' = [file EXCEPT ![op.m] = op.from]
      BY <1>3 DEF DeleteFails, MoveFile, MoveFails, MoveIndex, MoveIndexFails, local
    <3>2. row' = row \/ row' = [row EXCEPT ![op.m] = op.to]
      BY <1>3 DEF DeleteFails, MoveFile, MoveFails, MoveIndex, MoveIndexFails, local
    <3>3. renamed' = renamed
      BY <1>3 DEF DeleteFails, MoveFile, MoveFails, MoveIndex, MoveIndexFails, local
    <3> QED BY <1>1, <3>1, <3>2, <3>3, LocalTypes DEF MoveTypes
  <2>5. journal' \in Seq(Mutation)
    <3>1. journal' = journal \/ \E s \in {"success", "partial"} : journal' = Recorded(s)
      BY <1>3 DEF DeleteFails, MoveFile, MoveFails, MoveIndex, MoveIndexFails
    <3> QED BY <1>1, <3>1, RecordedType DEF MoveTypes
  <2>6. op' \in Operation \cup {Idle} /\ OpKnows'
    <3>1. ASSUME NEW owed \in BOOLEAN, RollBack(owed) PROVE op' \in Operation /\ Knows'
      BY <1>1, <3>1, RollBackKeeps
    <3>2. CASE MoveFile
      <4>1. op' = [op EXCEPT !.step = "index"] /\ file' = [file EXCEPT ![op.m] = op.to]
            /\ op.step = "local"
        BY <3>2 DEF MoveFile, At
      <4>2. /\ op' \in Operation /\ op'.step = "index" /\ op'.left = op.left /\ op'.back = op.back
            /\ op'.m = op.m /\ op'.to = op.to
        BY <1>1, <4>1 DEF Operation
      <4>3. op.left /\ ~op.back
        BY <1>1, <4>1 DEF Knows
      <4>4. file'[op.m] = op.to
        BY <1>1, <4>1, BusyOp DEF MoveTypes
      <4> QED BY <4>2, <4>3, <4>4 DEF OpKnows, Knows
    <3>3. CASE MoveIndex
      BY <3>3 DEF MoveIndex, OpKnows, Busy, Idle
    <3>4. CASE DeleteFails \/ MoveFails \/ MoveIndexFails
      <4>1. RollBack(FALSE) \/ RollBack(TRUE)
        BY <3>4 DEF DeleteFails, MoveFails, MoveIndexFails
      <4> QED BY <3>1, <4>1 DEF OpKnows
    <3> QED BY <1>3, <3>2, <3>3, <3>4
  <2>7. MoveTypes'
    BY <1>1, <2>1, <2>2, <2>3, <2>4, <2>5, <2>6 DEF MoveTypes, ProviderTypes
  <2>8. InList'
    BY <1>1, <2>1 DEF InList, CursorInRange
  <2> QED BY <2>3, <2>6, <2>7, <2>8 DEF MoveInv
<1> QED BY <1>2, <1>3 DEF LocalSteps

-----------------------------------------------------------------------------
\* A cursor that wraps stays in the list.
LEMMA Wraps == ASSUME NEW a \in Nat, NEW n \in Nat \ {0} PROVE a % n \in Nat /\ a % n < n
OBVIOUS

\* The keys of the list, between operations.
LEMMA ListKeeps ==
    ASSUME MoveInv, Browse \/ AdvanceToPlayable \/ ListFolder \/ DeleteCurrent \/ MoveCurrent
    PROVE  MoveInv'
<1>1. MoveTypes /\ OwnUID /\ InList /\ ~Busy /\ op = Idle
  BY DEF MoveInv, Browse, AdvanceToPlayable, ListFolder, DeleteCurrent, MoveCurrent, Begin, Free,
         MoveTypes, Busy, Operation
<1> DEFINE n == Len(list)
<1>2. n \in Nat /\ cursor \in Nat /\ (list # <<>> => n # 0)
  BY <1>1, EmptySeq DEF MoveTypes
<1> HIDE DEF n
<1>3. CASE Browse \/ AdvanceToPlayable
  <2>1. \E a \in Nat : cursor' = a % n
    <3>1. CASE cursor' = (cursor + 1) % n
      BY <1>2, <3>1
    <3>2. CASE cursor' = (cursor + n - 1) % n
      <4>1. cursor + n - 1 \in Nat
        BY <1>2, <1>3 DEF Browse, AdvanceToPlayable
      <4> QED BY <3>2, <4>1
    <3>3. CASE \E skipped \in 1..9 : cursor' = (cursor + skipped) % n
      BY <1>2, <3>3
    <3> QED BY <1>3, <3>1, <3>2, <3>3 DEF Browse, AdvanceToPlayable, n
  <2>2. list' = list /\ list # <<>> /\ entry' = entry /\ Resting
    BY <1>3 DEF Browse, AdvanceToPlayable
  <2>3. cursor' \in Nat /\ cursor' < n
    BY <1>2, <2>1, <2>2, Wraps
  <2>4. MoveTypes' /\ OwnUID' /\ OpKnows'
    BY <1>1, <2>2, <2>3 DEF MoveTypes, OwnUID, OpKnows, Busy, Resting, provider, local
  <2>5. InList'
    BY <1>1, <2>2, <2>3 DEF InList, CursorInRange, Busy, Resting, n
  <2> QED BY <2>4, <2>5 DEF MoveInv
<1>4. CASE ListFolder
  <2>1. PICK f \in Folders :
           /\ list' = SetToSeq({m \in Messages : row[m] = f})
           /\ entry' = [m \in Messages |-> IF row[m] = f THEN [entry[m] EXCEPT !.folder = f]
                                                         ELSE entry[m]]
    BY <1>4 DEF ListFolder
  <2>2. cursor' = 0 /\ Resting
    BY <1>4 DEF ListFolder
  <2> DEFINE S == {m \in Messages : row[m] = f}
  <2>3. IsFiniteSet(S) /\ S \subseteq Messages
    BY MovesAssumption, FS_Subset
  <2> HIDE DEF S
  <2>4. list' \in Seq(S) /\ IsInjective(list')
    BY <2>1, <2>3, ListOfSet DEF S
  <2>5. list' \in Seq(Messages)
    BY <2>3, <2>4, SeqMonotonic
  <2>6. entry' \in [Messages -> Listing] /\ \A m \in Messages : entry'[m].uid = entry[m].uid
    <3> SUFFICES ASSUME NEW m \in Messages
                 PROVE  entry'[m] \in Listing /\ entry'[m].uid = entry[m].uid
      BY <2>1
    <3>1. entry[m] \in Listing
      BY <1>1 DEF MoveTypes
    <3>2. entry'[m] = [entry[m] EXCEPT !.folder = f] \/ entry'[m] = entry[m]
      BY <2>1
    <3> QED BY <3>1, <3>2 DEF Listing
  <2>7. MoveTypes' /\ OwnUID' /\ OpKnows'
    <3>1. UNCHANGED provider
      BY <2>2 DEF Resting
    <3>2. OwnUID'
      BY <1>1, <2>6, <3>1, ProviderStays
    <3>3. MoveTypes'
      BY <1>1, <2>2, <2>5, <2>6 DEF MoveTypes, Resting, provider, local
    <3> QED BY <1>1, <2>2, <3>2, <3>3 DEF OpKnows, Busy, Resting
  <2>8. CursorInRange'
    BY <2>2, <2>5, EmptySeq DEF CursorInRange
  <2>9. ~Busy'
    BY <1>1, <2>2 DEF Busy, Resting
  <2> QED BY <2>4, <2>7, <2>8, <2>9 DEF MoveInv, InList
<1>5. CASE DeleteCurrent \/ MoveCurrent
  <2>1. PICK kind \in {"delete", "move"}, to \in Folders : Begin(kind, to)
    BY <1>5, MovesAssumption DEF DeleteCurrent, MoveCurrent
  <2>2. list # <<>> /\ Chosen \in Messages
    <3>1. list # <<>> /\ cursor < n
      BY <1>1, <2>1 DEF Begin, InList, CursorInRange, n
    <3>2. cursor + 1 \in 1..Len(list)
      BY <1>2, <3>1 DEF n
    <3> QED BY <1>1, <3>1, <3>2 DEF Chosen, MoveTypes
  <2>3. entry[Chosen].folder \in Folders
    BY <1>1, <2>2 DEF MoveTypes, Listing
  <2>4. /\ op' \in Operation /\ op'.step = "connect" /\ op'.sent = FALSE
    BY <2>1, <2>2, <2>3 DEF Begin, Operation
  <2>5. OpKnows'
    BY <2>4 DEF OpKnows, Knows
  <2>6. MoveTypes' /\ OwnUID'
    BY <1>1, <2>1, <2>4 DEF MoveTypes, OwnUID, Begin, provider, local, screen
  <2>7. InList'
    BY <1>1, <2>1, <2>2 DEF InList, CursorInRange, Begin, screen
  <2> QED BY <2>5, <2>6, <2>7 DEF MoveInv
<1> QED BY <1>3, <1>4, <1>5

\* A hang-up, another client and mbsync disturb an operation but do not end it.
LEMMA DisturbedKeeps ==
    ASSUME MoveInv, HangUp \/ ConnectionExpires \/ OtherClientMoves \/ MbsyncRenames
    PROVE  MoveInv'
<1>1. MoveTypes /\ OwnUID /\ InList /\ OpKnows
  BY DEF MoveInv
<1>2. Disturbed /\ UNCHANGED <<screen, file, row, journal, stranded>>
  BY DEF HangUp, ConnectionExpires, OtherClientMoves, MbsyncRenames, local
<1>3. op' \in Operation \cup {Idle} /\ OpKnows' /\ (Busy' => Busy)
  <2>1. CASE Busy
    <3>1. op \in Operation /\ Knows
      BY <1>1, <2>1, BusyOp DEF OpKnows
    <3>2. op' = [op EXCEPT !.clean = FALSE]
      BY <1>2, <2>1 DEF Disturbed
    <3>3. /\ op' \in Operation /\ op'.step = op.step /\ op'.m = op.m /\ op'.from = op.from
          /\ op'.to = op.to /\ op'.sent = op.sent /\ op'.left = op.left /\ op'.back = op.back
      BY <3>1, <3>2 DEF Operation
    <3>4. ByUID' => ByUID
      BY <3>3 DEF ByUID
    <3>5. entry' = entry /\ file' = file
      BY <1>2 DEF screen
    <3>6. Knows'
      BY <3>1, <3>3, <3>4, <3>5 DEF Knows, SameValidity
    <3> QED BY <2>1, <3>3, <3>6 DEF OpKnows
  <2>2. CASE ~Busy
    BY <1>1, <1>2, <2>2 DEF Disturbed, OpKnows, Busy, MoveTypes
  <2> QED BY <2>1, <2>2
<1>4. ProviderTypes' /\ OwnUID'
  <2>0. \A m \in Messages : entry'[m].uid = entry[m].uid
    BY <1>2 DEF screen
  <2>1. CASE UNCHANGED provider
    BY <1>1, <2>0, <2>1, ProviderStays
  <2>2. CASE OtherClientMoves
    <3>1. PICK m \in Messages, f \in Folders :
             /\ at' = [at EXCEPT ![m] = f] /\ uid' = [uid EXCEPT ![m] = next[f]]
             /\ next' = [next EXCEPT ![f] = @ + 1]
      BY <2>2 DEF OtherClientMoves
    <3>2. Arrive({m}, f)
      BY <1>1, <3>1 DEF Arrive, MoveTypes
    <3> QED BY <1>1, <2>0, <3>2, ArriveKeeps
  <2> QED BY <2>1, <2>2 DEF HangUp, ConnectionExpires, MbsyncRenames
<1>5. /\ remoteConn' \in {"none", "open", "dead"} /\ closed' \in BOOLEAN
      /\ others' \in Nat /\ renamed' \subseteq Messages
  <2>1. CASE HangUp \/ ConnectionExpires
    BY <1>1, <2>1 DEF HangUp, ConnectionExpires, MoveTypes, local
  <2>2. CASE OtherClientMoves
    BY <1>1, <2>2 DEF OtherClientMoves, MoveTypes, local
  <2>3. CASE MbsyncRenames
    BY <1>1, <2>3 DEF MbsyncRenames, MoveTypes
  <2> QED BY <2>1, <2>2, <2>3
<1>6. MoveTypes'
  BY <1>1, <1>2, <1>3, <1>4, <1>5 DEF MoveTypes, ProviderTypes, screen
<1>7. InList'
  BY <1>1, <1>2, <1>3 DEF InList, CursorInRange, screen
<1> QED BY <1>3, <1>4, <1>6, <1>7 DEF MoveInv

\* Every step keeps the invariant.
LEMMA MoveStep == MoveInv /\ [MovesNext]_movesVars => MoveInv'
<1>1. ASSUME MoveInv, UNCHANGED movesVars PROVE MoveInv'
  BY <1>1 DEF movesVars, provider, local, screen, MoveInv, MoveTypes, InList, CursorInRange, OwnUID,
         OpKnows, Knows, Busy, ByUID, SameValidity
<1> QED BY <1>1, ListKeeps, RemoteKeeps, LocalKeeps, DisturbedKeeps DEF MovesNext

\* The invariant holds.
LEMMA MoveHolds == MovesSpec => []MoveInv
BY MoveInit, MoveStep, PTL DEF MovesSpec

\* MovesTypeOK: every variable has its type, the list names no message twice, and
\* the cursor, with which the code indexes the list unchecked, is in it.
THEOREM MovesTypeCorrect == MovesSpec => []MovesTypeOK
<1>1. MoveInv => MovesTypeOK
  <2> SUFFICES ASSUME MoveInv PROVE MovesTypeOK
    OBVIOUS
  <2>1. MoveTypes /\ InList
    BY DEF MoveInv
  <2>2. {at[m] : m \in Messages} \cup {file[m] : m \in Messages} \subseteq Folders
    BY <2>1 DEF MoveTypes
  <2>3. \A m \in Messages : {entry[m].folder, entry[m].of} \subseteq Folders
    BY <2>1, MovesAssumption DEF MoveTypes, Listing
  <2> QED BY <2>1, <2>2, <2>3 DEF MovesTypeOK, MoveTypes, InList
<1> QED BY <1>1, MoveHolds, PTL

-----------------------------------------------------------------------------
(* What is told and what is moved. *)

\* The folder that was listed has a UIDVALIDITY of its own.
OwnValidity == \A f \in Folders : Validity[f] = Validity[Inbox] => f = Inbox

\* Then a command acts on no other message than the chosen one.
LEMMA HitsOne ==
    ASSUME MoveInv, Busy, OwnValidity, ByUID => SameValidity(op.from)
    PROVE  Hit \subseteq {op.m}
<1>1. MoveTypes /\ OwnUID
  BY DEF MoveInv
<1>2. op.m \in Messages /\ op.from \in Folders
  BY <1>1, BusyOp
<1>3. CASE ByUID
  <2>1. ~op.back /\ Source = op.from
    BY <1>3 DEF ByUID, Source
  <2>2. entry[op.m].of = Inbox
    BY <1>1, <1>2 DEF MoveTypes, Listing
  <2>3. op.from = Inbox
    BY <1>2, <1>3, <2>2 DEF SameValidity, OwnValidity
  <2>4. Hit = {x \in Messages : at[x] = Source /\ uid[x] = entry[op.m].uid}
    BY <1>3 DEF Hit
  <2> QED BY <1>1, <1>2, <2>1, <2>3, <2>4 DEF OwnUID
<1>4. CASE ~ByUID
  BY <1>4 DEF Hit
<1> QED BY <1>3, <1>4

\* OnlyTheChosen: a step of the call moves no other message than the one the
\* operation under way names, although the list keeps UIDs of folders a message has
\* left.  It needs that the listed folder's UIDVALIDITY differs from the others'.
THEOREM MovesOnlyTheChosen == ASSUME OwnValidity PROVE MovesSpec => OnlyTheChosen
<1>1. ASSUME MoveInv, [MovesNext]_movesVars PROVE MovesChosen
  <2>1. CASE CommandSucceeds \/ CommandLost
    <3>1. Busy /\ (ByUID => SameValidity(op.from))
      BY <2>1 DEF CommandSucceeds, CommandLost, CanAct, At, Busy, Found, ByUID, Source, SameValidity
    <3>2. Hit \subseteq {op.m}
      BY <1>1, <3>1, HitsOne
    <3>3. PICK moved \in {Hit, {}} : Apply(moved)
      BY <2>1 DEF CommandSucceeds, CommandLost
    <3>4. \A m \in Messages : at'[m] # at[m] => m \in moved
      BY <3>3 DEF Apply
    <3> QED BY <3>1, <3>2, <3>3, <3>4 DEF MovesChosen
  <2>2. CASE OtherClientMoves
    BY <1>1, <2>2 DEF OtherClientMoves, MovesChosen, MoveInv, MoveTypes
  <2>3. CASE UNCHANGED at
    BY <2>3 DEF MovesChosen
  <2>4. CASE RemoteSteps
    BY <2>1, <2>3, <2>4 DEF RemoteSteps, Connect, CommandImpossible, CommandRefused, Reconcile, provider
  <2>5. CASE LocalSteps
    BY <2>3, <2>5 DEF LocalSteps, DeleteLocally, DeleteFails, MoveFile, MoveFails, MoveIndex,
                      MoveIndexFails, provider
  <2>6. CASE Browse \/ AdvanceToPlayable \/ ListFolder \/ DeleteCurrent \/ MoveCurrent
    BY <2>3, <2>6 DEF Browse, AdvanceToPlayable, ListFolder, DeleteCurrent, MoveCurrent, Begin,
                      Resting, provider
  <2>7. CASE HangUp \/ ConnectionExpires \/ MbsyncRenames \/ UNCHANGED movesVars
    BY <2>3, <2>7 DEF HangUp, ConnectionExpires, MbsyncRenames, movesVars, provider
  <2> QED BY <1>1, <2>2, <2>4, <2>5, <2>6, <2>7 DEF MovesNext
<1>2. MovesSpec => [][MovesChosen]_movesVars
  BY <1>1, MoveHolds, PTL DEF MovesSpec
<1> QED BY <1>2 DEF OnlyTheChosen

\* The last line of the journal.
LEMMA LastTold ==
    ASSUME MoveTypes, NEW s, journal' = Recorded(s)
    PROVE  /\ Last(journal').status = s /\ Last(journal').m = op.m
           /\ Last(journal').to = op.to /\ Last(journal').from = op.from
<1> DEFINE e == [kind |-> op.kind, m |-> op.m, from |-> op.from, to |-> op.to, status |-> s]
<1>1. journal' = Append(journal, e) /\ journal \in Seq(Mutation)
  BY DEF Recorded, MoveTypes
<1>2. Last(Append(journal, e)) = e
  <2> HIDE DEF e
  <2> QED BY <1>1, AppendProperties DEF Last
<1> QED BY <1>1, <1>2

\* What is told neither as done nor as failed claims nothing.
LEMMA TellsLittle ==
    ASSUME MoveTypes, journal' = journal \/ \E s \in {"uncertain", "partial"} : journal' = Recorded(s)
    PROVE  ToldTruly
<1>1. CASE journal' = journal
  BY <1>1 DEF ToldTruly, MoveTypes
<1>2. ASSUME NEW s \in {"uncertain", "partial"}, journal' = Recorded(s) PROVE ToldTruly
  BY <1>2, LastTold DEF ToldTruly
<1> QED BY <1>1, <1>2

\* A failure is told while the message is where it was.
LEMMA TellsFailure ==
    ASSUME MoveTypes, Settle("failed"), at' = at,
           ~op.back => ~op.sent \/ at[op.m] = op.from
    PROVE  ToldTruly
<1>1. CASE op.back
  BY <1>1, TellsLittle DEF Settle, BackEnds
<1>2. CASE ~op.back
  <2>1. journal' = Recorded("failed")
    BY <1>2 DEF Settle
  <2>2. Last(journal').status = "failed" /\ Last(journal').m = op.m /\ Last(journal').from = op.from
    BY <2>1, LastTold
  <2> QED BY <1>2, <2>2 DEF ToldTruly
<1> QED BY <1>1, <1>2

\* JournalIsTrue: what the journal and the caller are told is so at the provider and
\* in the Maildir, refused, lost and looked-up commands and rollbacks included.
THEOREM JournalTellsTheTruth == ASSUME OwnValidity PROVE MovesSpec => JournalIsTrue
<1>1. ASSUME MoveInv, [MovesNext]_movesVars PROVE ToldTruly
  <2>0. MoveTypes /\ OpKnows
    BY <1>1 DEF MoveInv
  <2>1. CASE UNCHANGED journal
    BY <2>0, <2>1, TellsLittle
  <2>2. CASE Connect \/ CommandImpossible \/ CommandRefused
    <3>1. op.step \in {"connect", "command"} /\ Busy /\ at' = at
      BY <2>2 DEF Connect, CommandImpossible, CommandRefused, CanAct, At, Busy, provider
    <3>2. ~op.back => ~op.sent
      BY <2>0, <3>1 DEF OpKnows, Knows
    <3>3. UNCHANGED journal \/ Settle("failed")
      BY <2>2 DEF Connect, CommandImpossible, CommandRefused
    <3> QED BY <2>0, <2>1, <3>1, <3>2, <3>3, TellsFailure
  <2>3. CASE CommandSucceeds
    <3>1. Proceed(op.m \in Hit)
      BY <2>3 DEF CommandSucceeds
    <3>2. journal' = journal \/ journal' = Recorded("partial")
      BY <3>1 DEF Proceed, BackEnds
    <3> QED BY <2>0, <3>2, TellsLittle
  <2>4. CASE Reconcile
    <3>1. op.step = "reconcile" /\ Busy /\ at' = at
      BY <2>4 DEF Reconcile, At, Busy, provider
    <3>2. op.m \in Messages /\ op.from \in Folders /\ (ByUID => SameValidity(op.from))
      BY <2>0, <3>1, BusyOp DEF OpKnows, Knows
    <3>3. Hit \subseteq {op.m}
      BY <1>1, <3>1, <3>2, HitsOne
    <3>4. \/ Settle("uncertain") \/ Proceed(op.sent)
          \/ Verdict = "notApplied" /\ Settle("failed")
      BY <2>4, LookedUp
    <3>5. CASE Settle("uncertain") \/ Proceed(op.sent)
      <4>1. \/ journal' = journal \/ journal' = Recorded("partial") \/ journal' = Recorded("uncertain")
        BY <3>5 DEF Settle, Proceed, BackEnds
      <4> QED BY <2>0, <4>1, TellsLittle
    <3>6. CASE Verdict = "notApplied" /\ Settle("failed")
      <4>1. at[op.m] = Source
        <5>1. CASE ByUID
          <6>1. Hit # {}
            BY <3>6, <5>1 DEF Verdict
          <6>2. op.m \in Hit
            BY <3>3, <6>1
          <6> QED BY <5>1, <6>2 DEF Hit
        <5>2. CASE ~ByUID
          BY <3>6, <5>2 DEF Verdict
        <5> QED BY <5>1, <5>2
      <4>2. ~op.back => at[op.m] = op.from
        BY <4>1 DEF Source
      <4> QED BY <2>0, <3>1, <3>6, <4>2, TellsFailure
    <3> QED BY <3>4, <3>5, <3>6
  <2>5. CASE DeleteLocally \/ MoveIndex
    <3>1. Busy /\ op.step \in {"local", "index"} /\ journal' = Recorded("success")
      BY <2>5 DEF DeleteLocally, MoveIndex, At, Busy
    <3>2. op.left /\ op.m \in Messages
      BY <2>0, <3>1, BusyOp DEF OpKnows, Knows
    <3>3. file'[op.m] = op.to
      <4>1. CASE DeleteLocally
        BY <2>0, <3>2, <4>1 DEF DeleteLocally, MoveTypes
      <4>2. CASE MoveIndex
        <5>1. op.step = "index" /\ file' = file
          BY <4>2 DEF MoveIndex, At
        <5> QED BY <2>0, <3>1, <5>1 DEF OpKnows, Knows
      <4> QED BY <2>5, <4>1, <4>2
    <3>4. Last(journal').status = "success" /\ Last(journal').m = op.m /\ Last(journal').to = op.to
      BY <2>0, <3>1, LastTold
    <3> QED BY <3>2, <3>3, <3>4 DEF ToldTruly
  <2>6. CASE DeleteFails \/ MoveFails \/ MoveIndexFails
    <3>1. journal' = journal \/ journal' = Recorded("partial")
      BY <2>6 DEF DeleteFails, MoveFails, MoveIndexFails
    <3> QED BY <2>0, <3>1, TellsLittle
  <2>7. CASE RemoteSteps
    BY <2>1, <2>2, <2>3, <2>4, <2>7 DEF RemoteSteps, CommandLost
  <2>8. CASE LocalSteps
    BY <2>1, <2>5, <2>6, <2>8 DEF LocalSteps, MoveFile
  <2>9. CASE \/ Browse \/ AdvanceToPlayable \/ ListFolder \/ DeleteCurrent \/ MoveCurrent
             \/ HangUp \/ ConnectionExpires \/ OtherClientMoves \/ MbsyncRenames
             \/ UNCHANGED movesVars
    BY <2>1, <2>9 DEF Browse, AdvanceToPlayable, ListFolder, DeleteCurrent, MoveCurrent, Begin,
          Resting, HangUp, ConnectionExpires, OtherClientMoves, MbsyncRenames, movesVars
  <2> QED BY <1>1, <2>7, <2>8, <2>9 DEF MovesNext
<1>2. MovesSpec => [][ToldTruly]_movesVars
  BY <1>1, MoveHolds, PTL DEF MovesSpec
<1> QED BY <1>2 DEF JournalIsTrue
=============================================================================
