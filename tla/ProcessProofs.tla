--------------------------- MODULE ProcessProofs ---------------------------
(***************************************************************************)
(* Proofs about the processes the server keeps: the SIP child and the      *)
(* speech engines.                                                         *)
(*                                                                         *)
(* The first part proves that the supervisor never loses or doubles its    *)
(* child, that the child runs what was saved and that the console shows    *)
(* what it does, for any number of saves, crashes and failing steps.       *)
(* OneChild is not inductive: that Apply starts a child only after the old *)
(* one is gone follows from where the holder of the lifecycle mutex is     *)
(* (Exclusive, Waited, Stopped) and from the goroutine of a tracked child  *)
(* still waiting for it (Tracked).                                         *)
(*                                                                         *)
(* The second part proves that the speech pool counts its leases and       *)
(* shares, and that it neither closes an engine in use nor keeps one that  *)
(* nobody uses, for any keys, voices and number of activations.            *)
(***************************************************************************)
EXTENDS SipSupervisor, SpeechPool, FiniteSetTheorems, TLAPS

(***************************************************************************)
(* The SIP supervisor.                                                     *)
(***************************************************************************)

Held == {"load", "write", "accounts", "stop", "await", "socket"}

(* The state has the shape the steps rely on. *)
Shape ==
    /\ starts \in Nat /\ cmd \in 0 .. starts
    /\ DOMAIN at = Actors /\ DOMAIN watch = Children

(* An actor inside Apply or Stop holds the lifecycle mutex. *)
Exclusive == \A a \in Actors : at[a] \in Held => lifecycle = a

(* A living child is tracked, and the goroutine of a tracked child waits. *)
Tracked ==
    /\ alive \subseteq {cmd} /\ 0 \notin alive
    /\ cmd # 0 => cmd \in Children /\ watch[cmd] = "running"

(* While stop waits, no other child is tracked; afterwards none is. *)
Waited  == \A a \in Actors : at[a] = "await" => cmd \in {0, target}
Stopped == \A a \in Actors : at[a] = "socket" => cmd = 0

(* Shutdown begins with the end of the runtime context and leaves no child. *)
Ended ==
    /\ at[Halt] # "idle" => ~lifetime
    /\ at[Halt] = "down" => cmd = 0

Inv == Shape /\ Exclusive /\ Tracked /\ Waited /\ Stopped /\ Ended

\* The start-up state satisfies the invariant.
LEMMA InvInit == Init => Inv
<1> SUFFICES ASSUME Init PROVE Inv
  OBVIOUS
<1>1. Shape /\ Tracked
  BY DEF Init, Shape, Tracked
<1>2. \A a \in Actors : at[a] \in {"apply", "idle"}
  BY DEF Init
<1>3. Exclusive /\ Waited /\ Stopped
  BY <1>2 DEF Exclusive, Waited, Stopped, Held
<1>4. Ended
  BY DEF Init, Ended, Halt, Boot, Actors, Appliers
<1> QED BY <1>1, <1>3, <1>4 DEF Inv

\* The holder of the mutex is an actor, so a free mutex has no holder inside.
LEMMA NobodyIsInside == Exclusive /\ lifecycle = None => \A a \in Actors : at[a] \notin Held
<1>1. None \notin Actors
  BY ActorsAssumption DEF None, Actors, Appliers, Boot, Halt
<1> QED BY <1>1 DEF Exclusive

\* A step that moves one actor outside the mutex, and touches no child.
LEMMA OutsideStep ==
    ASSUME Inv, NEW a \in Actors, NEW p,
           at[a] \notin Held, p \notin Held, p # "down", a = Halt => ~lifetime',
           at' = [at EXCEPT ![a] = p],
           lifetime' => lifetime,
           UNCHANGED <<lifecycle, target, cmd, alive, starts, watch>>
    PROVE  Inv'
<1>1. \A b \in Actors : at'[b] = IF b = a THEN p ELSE at[b]
  BY DEF Inv, Shape
<1>2. \A b \in Actors : at'[b] \in Held => at[b] = at'[b]
  BY <1>1
<1>3. Shape' /\ Tracked'
  BY DEF Inv, Shape, Tracked
<1>4. Exclusive'
  BY <1>2 DEF Inv, Exclusive
<1>5. Waited' /\ Stopped'
  BY <1>2 DEF Inv, Waited, Stopped, Held
<1>6. Ended'
  BY <1>1 DEF Inv, Ended, Actors
<1> QED BY <1>3, <1>4, <1>5, <1>6 DEF Inv

\* A step of the actor that holds the mutex, which stays within the operation
\* or leaves it, and neither starts a child nor reaches the end of a wait.
LEMMA InsideStep ==
    ASSUME Inv, NEW a \in Actors, NEW p,
           at[a] \in Held, p \notin {"await", "socket", "down"}, a = Halt => p # "idle",
           at' = [at EXCEPT ![a] = p],
           p \in Held => lifecycle' = lifecycle,
           UNCHANGED <<lifetime, cmd, alive, starts, watch>>
    PROVE  Inv'
<1>1. \A b \in Actors : at'[b] = IF b = a THEN p ELSE at[b]
  BY DEF Inv, Shape
<1>2. \A b \in Actors : b # a => at[b] \notin Held
  BY DEF Inv, Exclusive
<1>3. Shape' /\ Tracked'
  BY DEF Inv, Shape, Tracked
<1>4. Exclusive'
  BY <1>1, <1>2 DEF Inv, Exclusive
<1>5. Waited' /\ Stopped'
  BY <1>1, <1>2 DEF Waited, Stopped, Held
<1>6. Ended'
  BY <1>1 DEF Inv, Ended, Actors, Held
<1> QED BY <1>3, <1>4, <1>5, <1>6 DEF Inv

\* An actor that takes the free mutex.
LEMMA EnterStep ==
    ASSUME Inv, NEW a \in Actors, NEW p,
           lifecycle = None, lifecycle' = a, p \in {"load", "stop"},
           at[a] \notin Held, a = Halt => at[a] # "idle",
           at' = [at EXCEPT ![a] = p],
           UNCHANGED <<lifetime, cmd, alive, starts, watch>>
    PROVE  Inv'
<1>1. \A b \in Actors : at'[b] = IF b = a THEN p ELSE at[b]
  BY DEF Inv, Shape
<1>2. \A b \in Actors : b # a => at'[b] \notin Held
  BY <1>1, NobodyIsInside DEF Inv
<1>3. Shape' /\ Tracked'
  BY DEF Inv, Shape, Tracked
<1>4. Exclusive'
  BY <1>1, <1>2 DEF Exclusive
<1>5. Waited' /\ Stopped'
  BY <1>1, <1>2 DEF Waited, Stopped, Held
<1>6. Ended'
  BY <1>1 DEF Inv, Ended, Actors
<1> QED BY <1>3, <1>4, <1>5, <1>6 DEF Inv

\* A step of the console's save before it reaches the supervisor.
LEMMA SaveStep ==
    ASSUME Inv, NEW a \in Savers, Submit(a) \/ KeepPassword(a) \/ UpsertSIP(a)
    PROVE  Inv'
<1>1. a \in Actors /\ a # Halt
  BY ActorsAssumption DEF Actors, Appliers, Halt
<1>2. PICK p \in {"keep", "upsert", "idle", "apply"} : at' = [at EXCEPT ![a] = p]
  BY DEF Submit, KeepPassword, UpsertSIP
<1>3. at[a] \in {"idle", "keep", "upsert"}
  BY DEF Submit, KeepPassword, UpsertSIP
<1>4. UNCHANGED <<lifetime, lifecycle, target, cmd, alive, starts, watch>>
  BY DEF Submit, KeepPassword, UpsertSIP, context, children
<1> QED BY <1>1, <1>2, <1>3, <1>4, OutsideStep DEF Held

\* The steps of Apply before and after it has stopped the old child.
LEMMA ApplyStep ==
    ASSUME Inv, NEW a \in Appliers,
           ApplyBegin(a) \/ Load(a) \/ WriteConfig(a) \/ WriteAccounts(a)
    PROVE  Inv'
<1>1. a \in Actors /\ a # Halt
  BY ActorsAssumption DEF Actors, Appliers, Halt, Boot
<1>2. CASE ApplyBegin(a)
  BY <1>1, <1>2, EnterStep DEF ApplyBegin, children, Held
<1>3. CASE Load(a)
  <2>1. at' = [at EXCEPT ![a] = "write"] /\ at[a] = "load"
    BY <1>3 DEF Load
  <2>2. UNCHANGED <<lifetime, lifecycle, cmd, alive, starts, watch>>
    BY <1>3 DEF Load, context, children
  <2> QED BY <1>1, <2>1, <2>2, InsideStep DEF Held
<1>4. CASE WriteConfig(a)
  <2>1. PICK p \in {"accounts", "idle"} :
            at' = [at EXCEPT ![a] = p] /\ (p \in Held => lifecycle' = lifecycle)
    BY <1>4 DEF WriteConfig, Release, Held
  <2>2. UNCHANGED <<lifetime, cmd, alive, starts, watch>> /\ at[a] = "write"
    BY <1>4 DEF WriteConfig, context, children
  <2>3. at[a] \in Held
    BY <2>2 DEF Held
  <2>4. p \notin {"await", "socket", "down"}
    OBVIOUS
  <2> QED BY <1>1, <2>1, <2>2, <2>3, <2>4, InsideStep
<1>5. CASE WriteAccounts(a)
  <2>1. PICK p \in {"stop", "idle"} :
            at' = [at EXCEPT ![a] = p] /\ (p \in Held => lifecycle' = lifecycle)
    BY <1>5 DEF WriteAccounts, Release, Held
  <2>2. UNCHANGED <<lifetime, cmd, alive, starts, watch>> /\ at[a] = "accounts"
    BY <1>5 DEF WriteAccounts, context, children
  <2>3. at[a] \in Held
    BY <2>2 DEF Held
  <2>4. p \notin {"await", "socket", "down"}
    OBVIOUS
  <2> QED BY <1>1, <2>1, <2>2, <2>3, <2>4, InsideStep
<1> QED BY <1>2, <1>3, <1>4, <1>5

\* While one actor is inside, it is the only one.
LEMMA Alone ==
    ASSUME Inv, NEW a \in Actors, at[a] \in Held
    PROVE  \A b \in Actors : b # a => at[b] \notin Held
BY DEF Inv, Exclusive

\* stop: the child is told to end, ends, and its goroutine has seen it.
LEMMA StopStep ==
    ASSUME Inv, NEW a \in Actors, StopChild(a) \/ Terminated(a) \/ Awaited(a)
    PROVE  Inv'
<1>1. at[a] \in Held
  BY DEF StopChild, Terminated, Awaited, Held
<1>2. \A b \in Actors : b # a => at[b] \notin Held
  BY <1>1, Alone
<1>3. UNCHANGED <<lifetime, lifecycle, cmd, starts, watch>>
  BY DEF StopChild, Terminated, Awaited, context, children
<1>4. CASE StopChild(a)
  <2>1. \A b \in Actors : at'[b] = IF b = a THEN (IF cmd = 0 THEN "socket" ELSE "await")
                                   ELSE at[b]
    BY <1>4 DEF StopChild, Inv, Shape
  <2>2. Shape' /\ Tracked'
    BY <1>3, <1>4 DEF StopChild, children, Inv, Shape, Tracked
  <2>3. Exclusive'
    BY <1>1, <1>2, <1>3, <2>1 DEF Inv, Exclusive
  <2>4. Waited' /\ Stopped'
    BY <1>2, <1>3, <1>4, <2>1 DEF StopChild, Waited, Stopped, Held
  <2>5. Ended'
    BY <1>1, <1>3, <2>1 DEF Inv, Ended, Actors, Held
  <2> QED BY <2>2, <2>3, <2>4, <2>5 DEF Inv
<1>5. CASE Terminated(a)
  BY <1>3, <1>5 DEF Terminated, Inv, Shape, Exclusive, Tracked, Waited, Stopped, Ended
<1>6. CASE Awaited(a)
  <2>1. \A b \in Actors : at'[b] = IF b = a THEN "socket" ELSE at[b]
    BY <1>6 DEF Awaited, Inv, Shape
  <2>2. cmd = 0
    BY <1>6 DEF Awaited, Inv, Waited, Tracked
  <2>3. Shape' /\ Tracked'
    BY <1>3, <1>6 DEF Awaited, children, Inv, Shape, Tracked
  <2>4. Exclusive'
    BY <1>1, <1>2, <1>3, <2>1 DEF Inv, Exclusive
  <2>5. Waited' /\ Stopped'
    BY <1>2, <1>3, <2>1, <2>2 DEF Waited, Stopped, Held
  <2>6. Ended'
    BY <1>1, <1>3, <2>1 DEF Inv, Ended, Actors, Held
  <2> QED BY <2>3, <2>4, <2>5, <2>6 DEF Inv
<1> QED BY <1>4, <1>5, <1>6

\* A child is started only where none is tracked, by Apply or by a restart.
LEMMA StartChildStep ==
    ASSUME Inv, cmd = 0, StartChild, lifetime, UNCHANGED lifetime,
           watch'[starts'] = "running", DOMAIN watch' = Children, DOMAIN at' = Actors,
           \A a \in Actors : at'[a] \notin Held,
           at'[Halt] = "down" => at[Halt] = "down", at'[Halt] # "idle" => at[Halt] # "idle"
    PROVE  Inv'
<1>1. at'[Halt] # "down"
  BY DEF Inv, Ended
<1>2. starts' = starts + 1 /\ cmd' = starts' /\ alive' = alive \cup {starts'}
      /\ starts' \in Children
  BY DEF StartChild
<1>3. alive = {}
  BY DEF Inv, Tracked
<1>4. starts \in Nat
  BY DEF Inv, Shape
<1>5. Shape'
  BY <1>2, <1>4 DEF Shape
<1>6. Tracked'
  BY <1>2, <1>3, <1>4 DEF Tracked
<1>7. Exclusive' /\ Waited' /\ Stopped'
  BY DEF Exclusive, Waited, Stopped, Held
<1>8. Ended'
  BY <1>1 DEF Inv, Ended
<1> QED BY <1>5, <1>6, <1>7, <1>8 DEF Inv

\* Apply's last step: start a child, if one should run.
LEMMA StartStep == ASSUME Inv, NEW a \in Appliers, Start(a) PROVE Inv'
<1>1. a \in Actors /\ a # Halt
  BY DEF Start, Actors
<1>2. at[a] = "socket" /\ at[a] \in Held /\ cmd = 0
  BY <1>1 DEF Start, Inv, Stopped, Held
<1>3. at' = [at EXCEPT ![a] = "idle"] /\ UNCHANGED lifetime
  BY DEF Start, Release, context
<1>4. CASE UNCHANGED <<children, watch>>
  <2>1. UNCHANGED <<lifetime, cmd, alive, starts, watch>>
    BY <1>3, <1>4 DEF children
  <2>2. "idle" \notin Held
    BY DEF Held
  <2> QED BY <1>1, <1>2, <1>3, <2>1, <2>2, InsideStep
<1>5. CASE lifetime /\ StartChild /\ watch' = [watch EXCEPT ![starts'] = "running"]
  <2>1. \A b \in Actors : at'[b] = IF b = a THEN "idle" ELSE at[b]
    BY <1>3 DEF Inv, Shape
  <2>2. \A b \in Actors : at'[b] \notin Held
    BY <1>1, <1>2, <2>1, Alone DEF Held
  <2>3. watch'[starts'] = "running" /\ DOMAIN watch' = Children /\ DOMAIN at' = Actors
    BY <1>3, <1>5 DEF StartChild, Inv, Shape
  <2>4. at'[Halt] = at[Halt]
    BY <1>1, <2>1 DEF Actors
  <2> QED BY <1>2, <1>3, <1>5, <2>2, <2>3, <2>4, StartChildStep
<1> QED BY <1>4, <1>5 DEF Start

\* Shutdown: the runtime context ends, Stop takes the mutex, and leaves it.
LEMMA HaltStep == ASSUME Inv, StopRuntime \/ StopBegin \/ StopEnd PROVE Inv'
<1>1. Halt \in Actors
  BY DEF Actors
<1>2. CASE StopRuntime
  BY <1>1, <1>2, OutsideStep DEF StopRuntime, children, Held
<1>3. CASE StopBegin
  BY <1>1, <1>3, EnterStep DEF StopBegin, children, Held
<1>4. CASE StopEnd
  <2>1. \A b \in Actors : at'[b] = IF b = Halt THEN "down" ELSE at[b]
    BY <1>4 DEF StopEnd, Inv, Shape
  <2>2. at[Halt] \in Held /\ cmd = 0 /\ ~lifetime
    BY <1>1, <1>4 DEF StopEnd, Inv, Stopped, Ended, Held
  <2>3. \A b \in Actors : at'[b] \notin Held
    BY <1>1, <2>1, <2>2, Alone DEF Held
  <2>4. UNCHANGED <<lifetime, cmd, alive, starts, watch>>
    BY <1>4 DEF StopEnd, context, children
  <2>5. Shape' /\ Tracked'
    BY <1>4, <2>4 DEF StopEnd, Inv, Shape, Tracked
  <2>6. Exclusive' /\ Waited' /\ Stopped' /\ Ended'
    BY <2>2, <2>3, <2>4 DEF Exclusive, Waited, Stopped, Ended, Held
  <2> QED BY <2>5, <2>6 DEF Inv
<1> QED BY <1>2, <1>3, <1>4

\* A step that moves no actor: the child itself, its goroutine or an event.
LEMMA QuietStep ==
    ASSUME Inv, UNCHANGED <<at, lifecycle, target, lifetime, starts>>, cmd' \in {0, cmd},
           alive' \subseteq alive, alive' \subseteq {cmd'}, DOMAIN watch' = Children,
           cmd' # 0 => watch'[cmd'] = watch[cmd']
    PROVE  Inv'
<1>1. Shape'
  BY DEF Inv, Shape
<1>2. Tracked'
  BY DEF Inv, Tracked
<1>3. Exclusive' /\ Waited' /\ Stopped' /\ Ended'
  BY DEF Inv, Exclusive, Waited, Stopped, Ended
<1> QED BY <1>1, <1>2, <1>3 DEF Inv

\* A child that ends, stays up or reports changes nothing else.
LEMMA ChildStep ==
    ASSUME Inv, NEW c \in Children, Dies(c) \/ StableUptime(c) \/ Report(c)
    PROVE  Inv'
<1>1. UNCHANGED <<at, lifecycle, target, lifetime, starts, cmd, watch>> /\ alive' \subseteq alive
  BY DEF Dies, StableUptime, Report, context, children
<1>2. alive' \subseteq {cmd'} /\ DOMAIN watch' = Children
  BY <1>1 DEF Inv, Tracked, Shape
<1> QED BY <1>1, <1>2, QuietStep

\* The goroutine of a child: onExit, and respawn up to the attempt.
LEMMA WatchStep ==
    ASSUME Inv, NEW c \in Children, OnExit(c) \/ RespawnCheck(c) \/ RespawnWake(c)
    PROVE  Inv'
<1>1. UNCHANGED <<at, lifecycle, target, lifetime, starts, alive>>
  BY DEF OnExit, RespawnCheck, RespawnWake, context, children
<1>2. \A d \in Children : d # c => watch'[d] = watch[d]
  BY DEF OnExit, RespawnCheck, RespawnWake, Inv, Shape
<1>3. DOMAIN watch' = Children
  BY DEF OnExit, RespawnCheck, RespawnWake, Inv, Shape
<1>4. CASE OnExit(c)
  <2>1. cmd' = IF cmd = c THEN 0 ELSE cmd
    BY <1>4 DEF OnExit
  <2>2. c \notin alive
    BY <1>4 DEF OnExit, Exited
  <2>3. alive \subseteq {cmd'}
    BY <2>1, <2>2 DEF Inv, Tracked
  <2>4. cmd' # 0 => watch'[cmd'] = watch[cmd']
    BY <1>2, <2>1 DEF Inv, Tracked
  <2>5. cmd' \in {0, cmd}
    BY <2>1
  <2> QED BY <1>1, <1>3, <2>3, <2>4, <2>5, QuietStep
<1>5. CASE RespawnCheck(c) \/ RespawnWake(c)
  <2>1. cmd' = cmd /\ watch[c] # "running"
    BY <1>5 DEF RespawnCheck, RespawnWake, children
  <2>2. cmd # 0 => watch'[cmd] = watch[cmd]
    BY <1>2, <2>1 DEF Inv, Tracked
  <2>3. alive' \subseteq {cmd'}
    BY <1>1, <2>1 DEF Inv, Tracked
  <2> QED BY <1>1, <1>3, <2>1, <2>2, <2>3, QuietStep
<1> QED BY <1>4, <1>5

\* The restart checks under the mutex that nothing has taken its place.
LEMMA RespawnStep == ASSUME Inv, NEW c \in Children, RespawnStart(c) PROVE Inv'
<1>1. UNCHANGED <<at, lifecycle, target, lifetime>> /\ lifecycle = None /\ watch[c] = "lock"
  BY DEF RespawnStart, context
<1>2. CASE UNCHANGED children /\ \E w : watch' = [watch EXCEPT ![c] = w]
  <2>1. UNCHANGED <<cmd, alive, starts>>
    BY <1>2 DEF children
  <2>2. DOMAIN watch' = Children /\ \A d \in Children : d # c => watch'[d] = watch[d]
    BY <1>2 DEF Inv, Shape
  <2>3. cmd # 0 => watch'[cmd] = watch[cmd]
    BY <1>1, <2>2 DEF Inv, Tracked
  <2>4. alive' \subseteq {cmd'}
    BY <2>1 DEF Inv, Tracked
  <2> QED BY <1>1, <2>1, <2>2, <2>3, <2>4, QuietStep
<1>3. CASE ~Superseded(c) /\ CtxLive(born[c]) /\ StartChild
           /\ watch' = [watch EXCEPT ![c] = "ended", ![starts'] = "running"]
  <2>1. cmd = 0 /\ lifetime
    BY <1>3 DEF Superseded, CtxLive
  <2>2. \A a \in Actors : at'[a] \notin Held
    BY <1>1, NobodyIsInside DEF Inv
  <2>3. watch'[starts'] = "running" /\ DOMAIN watch' = Children /\ DOMAIN at' = Actors
    BY <1>1, <1>3 DEF StartChild, Inv, Shape
  <2>4. Inv /\ StartChild /\ UNCHANGED <<at, lifetime>>
    BY <1>1, <1>3
  <2> QED BY <2>1, <2>2, <2>3, <2>4, StartChildStep
<1> QED BY <1>2, <1>3 DEF RespawnStart

\* Every step keeps the invariant.
LEMMA InvStep == Inv /\ [Next]_vars => Inv'
<1> SUFFICES ASSUME Inv, [Next]_vars PROVE Inv'
  OBVIOUS
<1>1. ASSUME NEW a \in Savers, Submit(a) PROVE Inv'
  BY <1>1, SaveStep
<1>2. CASE StopRuntime
  BY <1>2, HaltStep
<1>3. ASSUME NEW a \in Actors, Stepping(a) PROVE Inv'
  BY <1>3, SaveStep, ApplyStep, StartStep, HaltStep, StopStep DEF Stepping
<1>4. ASSUME NEW a \in Actors, Terminated(a) PROVE Inv'
  BY <1>4, StopStep
<1>5. ASSUME NEW c \in Children, Dies(c) \/ StableUptime(c) \/ Report(c) PROVE Inv'
  BY <1>5, ChildStep
<1>6. ASSUME NEW c \in Children, Watching(c) PROVE Inv'
  BY <1>6, WatchStep, RespawnStep DEF Watching
<1>7. CASE SetRegistrationState \/ UNCHANGED vars
  <2>1. UNCHANGED <<at, lifecycle, target, lifetime, starts, cmd, alive, watch>>
    BY <1>7 DEF SetRegistrationState, vars, context, children
  <2>2. alive' \subseteq {cmd'} /\ DOMAIN watch' = Children
    BY <2>1 DEF Inv, Tracked, Shape
  <2> QED BY <2>1, <2>2, QuietStep
<1> QED BY <1>1, <1>2, <1>3, <1>4, <1>5, <1>6, <1>7 DEF Next

\* OneChild: whatever saves, crashes, restarts and failures coincide, the one
\* child that lives is the tracked one, and none lives after shutdown.
THEOREM OneChildLives == Spec => []OneChild
<1>1. Inv => OneChild
  BY DEF Inv, Tracked, Ended, OneChild
<1> QED BY <1>1, InvInit, InvStep, PTL DEF Spec

-----------------------------------------------------------------------------
(* What the child was configured with.  The children of a generation are    *)
(* started only after its Apply has written both files (Written), and no    *)
(* other one writes them while the generation lasts, so what is on disk is  *)
(* what any of them reads (UpToDate) or has read (AsRead).                   *)

(* No child is of a later generation, or of one whose Apply is under way. *)
Born   == generation \in Nat /\ born \in [Children -> 0 .. generation]
Inside == \A a \in Actors : at[a] \in Held => \A c \in Children : born[c] < generation

(* What an Apply has done when it reaches each of its steps. *)
Written ==
    \A a \in Appliers :
        /\ at[a] \in {"write", "accounts", "stop", "await", "socket"} =>
              account = AccountFor(settings) /\ enabled = EnabledFor(settings)
        /\ at[a] = "accounts" => files.port = settings.port
        /\ at[a] \in {"stop", "await", "socket"} => files = Rendered(settings)

UpToDate ==
    \A c \in Children : watch[c] # "none" /\ born[c] = generation => files = Rendered(settings)
AsRead == cmd # 0 /\ born[cmd] = generation => reads = Rendered(settings) /\ enabled

(* Unless a step has failed or an Apply is about to load the settings, the
   supervisor has loaded the stored ones. *)
Fresh ==
    (lifetime /\ clean /\ \A a \in Appliers : at[a] \notin {"apply", "load"}) =>
        /\ enabled = EnabledFor(Overlaid(stored))
        /\ overlay.offline \/ settings = Overlaid(stored)

(* Between operations none of which has failed, the child is the newest Apply's. *)
Newest  == lifecycle = None /\ clean /\ lifetime /\ cmd # 0 => born[cmd] = generation
Offline == overlay.offline => cmd = 0 /\ enabled = FALSE
FilesShape == files = [port |-> files.port, account |-> files.account]

Conf ==
    /\ Born /\ Inside /\ Written /\ UpToDate /\ AsRead
    /\ Fresh /\ Newest /\ Offline /\ FilesShape

\* The start-up state is configured for nothing.
LEMMA ConfInit == Init => Conf
<1> SUFFICES ASSUME Init PROVE Conf
  OBVIOUS
<1>1. \A a \in Actors : at[a] = IF a = Boot THEN "apply" ELSE "idle"
  BY DEF Init
<1>2. Inside /\ Written
  BY <1>1 DEF Inside, Written, Held, Actors
<1>3. Fresh
  BY <1>1 DEF Fresh, Actors, Appliers
<1>4. Born /\ UpToDate /\ AsRead /\ Newest /\ Offline /\ FilesShape
  BY DEF Init, Born, UpToDate, AsRead, Newest, Offline, FilesShape
<1> QED BY <1>2, <1>3, <1>4 DEF Conf

\* An Applier is an actor other than the shutdown.
LEMMA AppliersAct == \A a \in Appliers : a \in Actors /\ a # Halt
BY ActorsAssumption DEF Actors, Appliers, Halt, Boot

\* A step that neither loads, writes, starts nor begins an operation, and
\* leaves every operation at a step that has the same prerequisites.
LEMMA QuietConf ==
    ASSUME Conf,
           UNCHANGED <<overlay, stored, generation, settings, account, enabled, files, born,
                       reads, clean>>,
           lifetime' => lifetime, cmd' \in {0, cmd}, lifecycle' = lifecycle \/ cmd' = 0,
           \A c \in Children : watch'[c] # "none" => watch[c] # "none",
           \A a \in Actors :
               \/ at'[a] = at[a]
               \/ /\ at[a] \notin {"apply", "load"}
                  /\ at'[a] \notin {"load", "write", "accounts"}
                  /\ at'[a] \in {"stop", "await", "socket"} => at[a] \in {"stop", "await", "socket"}
    PROVE  Conf'
<1>1. Born' /\ UpToDate' /\ AsRead' /\ Newest' /\ Offline' /\ FilesShape'
  BY DEF Conf, Born, UpToDate, AsRead, Newest, Offline, FilesShape, Rendered, AccountFor
<1>2. Inside'
  BY DEF Conf, Inside, Held
<1>3. Written'
  BY AppliersAct DEF Conf, Written, Rendered, AccountFor, EnabledFor
<1>4. Fresh'
  BY AppliersAct DEF Conf, Fresh, EnabledFor, AccountFor, Overlaid
<1> QED BY <1>1, <1>2, <1>3, <1>4 DEF Conf

\* The save before it writes the row, and a write that fails or, in an offline
\* deployment, is not applied.
LEMMA SaveConf ==
    ASSUME Inv, Conf, NEW a \in Savers, Submit(a) \/ KeepPassword(a) \/ UpsertSIP(a)
    PROVE  Conf'
<1>1. a \in Actors /\ a \in Appliers
  BY DEF Actors, Appliers
<1>2. UNCHANGED <<overlay, generation, settings, account, enabled, files, born, reads, clean,
                  lifetime, cmd, lifecycle, watch>>
  BY DEF Submit, KeepPassword, UpsertSIP, context, wanted, children
<1>3. PICK p \in {"keep", "upsert", "idle", "apply"} : at' = [at EXCEPT ![a] = p]
  BY DEF Submit, KeepPassword, UpsertSIP
<1>4. \A b \in Actors : at'[b] = IF b = a THEN p ELSE at[b]
  BY <1>3 DEF Inv, Shape
<1>5. at[a] \in {"idle", "keep", "upsert"}
  BY DEF Submit, KeepPassword, UpsertSIP
<1>6. CASE UNCHANGED stored
  BY <1>2, <1>4, <1>5, <1>6, QuietConf
<1>7. CASE UpsertSIP(a) /\ p = IF overlay.offline THEN "idle" ELSE "apply"
  <2>1. Born' /\ UpToDate' /\ AsRead' /\ Newest' /\ Offline' /\ FilesShape'
    BY <1>2 DEF Conf, Born, UpToDate, AsRead, Newest, Offline, FilesShape, Rendered, AccountFor
  <2>2. Inside'
    BY <1>2, <1>4 DEF Conf, Inside, Held
  <2>3. Written'
    BY <1>2, <1>4, AppliersAct DEF Conf, Written, Rendered, AccountFor, EnabledFor
  <2>4. Fresh'
    <3>1. CASE overlay.offline
      BY <1>2, <3>1 DEF Conf, Fresh, Offline, EnabledFor
    <3>2. CASE ~overlay.offline
      BY <1>1, <1>4, <1>7, <3>2 DEF Fresh
    <3> QED BY <3>1, <3>2
  <2> QED BY <2>1, <2>2, <2>3, <2>4 DEF Conf
<1>8. UNCHANGED stored \/ (UpsertSIP(a) /\ at' = [at EXCEPT ![a] = IF overlay.offline THEN "idle" ELSE "apply"])
  BY DEF Submit, KeepPassword, UpsertSIP
<1>9. at' = [at EXCEPT ![a] = IF overlay.offline THEN "idle" ELSE "apply"]
      => p = IF overlay.offline THEN "idle" ELSE "apply"
  BY <1>1, <1>3, <1>4 DEF Inv, Shape
<1> QED BY <1>6, <1>7, <1>8, <1>9

\* An operation that takes the mutex starts a generation without children.
LEMMA BeginConf ==
    ASSUME Inv, Conf, NEW a \in Actors,
           \/ a \in Appliers /\ ApplyBegin(a)
           \/ a = Halt /\ StopBegin
    PROVE  Conf'
<1>1. UNCHANGED <<stored, overlay, lifetime, settings, account, files, born, reads, clean, cmd,
                  watch>>
  BY DEF ApplyBegin, StopBegin, store, wanted, children
<1>2. generation' = generation + 1 /\ lifecycle' # None
  BY ActorsAssumption DEF ApplyBegin, StopBegin, Halt, Appliers, Boot, None
<1>3. \A c \in Children : born'[c] \in 0 .. generation /\ born'[c] # generation'
                           /\ born'[c] < generation'
  BY <1>1, <1>2 DEF Conf, Born
<1>4. Born' /\ Inside' /\ UpToDate'
  BY <1>1, <1>2, <1>3 DEF Conf, Born, Inside, UpToDate
<1>5. cmd # 0 => cmd \in Children
  BY DEF Inv, Tracked
<1>6. AsRead' /\ Newest' /\ FilesShape'
  BY <1>1, <1>2, <1>3, <1>5 DEF Conf, AsRead, Newest, FilesShape
<1>7. \A b \in Actors : at'[b] = IF b = a THEN (IF a = Halt THEN "stop" ELSE "load") ELSE at[b]
  BY AppliersAct DEF ApplyBegin, StopBegin, Inv, Shape
<1>8. CASE a \in Appliers /\ ApplyBegin(a)
  <2>1. enabled' = enabled
    BY <1>8 DEF ApplyBegin, wanted
  <2>2. Written' /\ Offline'
    BY <1>1, <1>7, <1>8, <2>1, AppliersAct
    DEF Conf, Written, Offline, Rendered, AccountFor, EnabledFor
  <2>3. Fresh'
    BY <1>7, <1>8, AppliersAct DEF Fresh
  <2> QED BY <1>4, <1>6, <2>2, <2>3 DEF Conf
<1>9. CASE a = Halt /\ StopBegin
  <2>1. ~lifetime /\ lifecycle = None /\ enabled' = FALSE
    BY <1>9 DEF StopBegin, Inv, Ended
  <2>2. Fresh' /\ Offline'
    BY <1>1, <2>1 DEF Conf, Fresh, Offline
  <2>3. \A b \in Appliers : at'[b] = at[b] /\ at[b] \notin Held
    BY <1>7, <1>9, <2>1, AppliersAct, NobodyIsInside DEF Inv
  <2>4. Written'
    BY <2>3 DEF Written, Held
  <2> QED BY <1>4, <1>6, <2>2, <2>4 DEF Conf
<1> QED BY <1>8, <1>9

\* Load: the settings, the account and whether calls are on change together,
\* in a generation that has no child yet.
LEMMA LoadConf == ASSUME Inv, Conf, NEW a \in Appliers, Load(a) PROVE Conf'
<1>1. a \in Actors /\ at[a] = "load" /\ lifecycle = a /\ a # None
  BY AppliersAct, ActorsAssumption DEF Load, Inv, Exclusive, Held, None, Appliers, Boot
<1>2. UNCHANGED <<stored, overlay, lifetime, generation, lifecycle, files, born, reads, cmd, watch>>
  BY DEF Load, store, context, children
<1>3. \A b \in Actors : at'[b] = IF b = a THEN "write" ELSE at[b]
  BY DEF Load, Inv, Shape
<1>4. \A c \in Children : born[c] \in 0 .. generation /\ born[c] < generation
  BY <1>1 DEF Conf, Born, Inside, Held
<1>5. Born' /\ Inside'
  BY <1>1, <1>2, <1>3, <1>4 DEF Conf, Born, Inside, Held
<1>6. cmd # 0 => cmd \in Children
  BY DEF Inv, Tracked
<1>7. UpToDate' /\ AsRead' /\ Newest' /\ FilesShape'
  BY <1>1, <1>2, <1>4, <1>6 DEF Conf, Born, UpToDate, AsRead, Newest, FilesShape
<1>8. account' = AccountFor(settings') /\ enabled' = EnabledFor(settings')
  BY DEF Load
<1>9. AccountFor(settings') = AccountFor(settings)' /\ EnabledFor(settings') = EnabledFor(settings)'
  BY <1>2 DEF AccountFor, EnabledFor
<1>10. \A b \in Actors : b # a => at[b] \notin Held
  BY <1>1, Alone DEF Held
<1>11. Written'
  BY <1>3, <1>8, <1>9, <1>10, AppliersAct DEF Written, Held
<1>12. Offline'
  BY <1>2, <1>8 DEF Conf, Offline, EnabledFor
<1>13. Fresh'
  <2>1. CASE clean'
    <3>1. settings' = Overlaid(stored)
      BY <2>1 DEF Load, Loaded
    <3> QED BY <1>2, <1>8, <1>9, <3>1 DEF Fresh, Overlaid
  <2> QED BY <2>1 DEF Fresh
<1> QED BY <1>5, <1>7, <1>11, <1>12, <1>13 DEF Conf

\* An Apply that writes a file, or fails to and leaves what child there is.
LEMMA WriteConf ==
    ASSUME Inv, Conf, NEW a \in Appliers, WriteConfig(a) \/ WriteAccounts(a)
    PROVE  Conf'
<1>1. a \in Actors /\ at[a] \in {"write", "accounts"} /\ at[a] \in Held /\ lifecycle = a /\ a # None
  BY AppliersAct, ActorsAssumption
  DEF WriteConfig, WriteAccounts, Inv, Exclusive, Held, None, Appliers, Boot
<1>2. UNCHANGED <<stored, overlay, lifetime, generation, settings, account, enabled, born, reads,
                  cmd, watch>>
  BY DEF WriteConfig, WriteAccounts, store, context, wanted, children
<1>3. PICK p \in {"accounts", "stop", "idle"} : at' = [at EXCEPT ![a] = p]
  BY DEF WriteConfig, WriteAccounts, Release
<1>4. \A b \in Actors : at'[b] = IF b = a THEN p ELSE at[b]
  BY <1>3 DEF Inv, Shape
<1>5. \A c \in Children : born[c] \in 0 .. generation /\ born[c] < generation
  BY <1>1 DEF Conf, Born, Inside
<1>6. Born' /\ Inside'
  BY <1>1, <1>2, <1>4, <1>5 DEF Conf, Born, Inside
<1>7. cmd # 0 => cmd \in Children
  BY DEF Inv, Tracked
<1>8. UpToDate' /\ AsRead'
  BY <1>2, <1>5, <1>7 DEF Conf, Born, UpToDate, AsRead
<1>9. p = "idle" => clean' = FALSE
  BY <1>1, <1>3, <1>4 DEF WriteConfig, WriteAccounts
<1>10. p # "idle" => UNCHANGED <<clean, lifecycle>>
  BY <1>1, <1>3, <1>4 DEF WriteConfig, WriteAccounts, Release, Inv, Shape
<1>11. Newest' /\ Offline' /\ Fresh'
  <2>1. Newest' /\ Offline'
    BY <1>1, <1>2, <1>9, <1>10 DEF Conf, Newest, Offline
  <2>2. CASE p = "idle"
    BY <1>9, <2>1, <2>2 DEF Fresh
  <2>3. CASE p # "idle"
    <3>1. \A b \in Appliers : at'[b] \in {"apply", "load"} <=> at[b] \in {"apply", "load"}
      BY <1>1, <1>4, AppliersAct
    <3>2. UNCHANGED <<overlay, stored, lifetime, clean, enabled, settings>>
      BY <1>2, <1>10, <2>3
    <3>3. Fresh
      BY DEF Conf
    <3>4. Fresh'
      BY <3>1, <3>2, <3>3 DEF Fresh, EnabledFor, AccountFor, Overlaid
    <3> QED BY <2>1, <3>4
  <2> QED BY <2>1, <2>2, <2>3
<1>12. \A b \in Actors : b # a => at[b] \notin Held
  BY <1>1, Alone
<1>13. CASE p = "accounts"
  <2>1. WriteConfig(a) /\ files' = [files EXCEPT !.port = settings.port] /\ at[a] = "write"
    BY <1>1, <1>3, <1>4, <1>13 DEF WriteConfig, WriteAccounts, Release, Inv, Shape
  <2>2. FilesShape' /\ files'.port = settings.port
    BY <2>1 DEF Conf, FilesShape
  <2>3. Written'
    BY <1>2, <1>4, <1>12, <1>13, <2>1, <2>2, AppliersAct
    DEF Conf, Written, Held, AccountFor, EnabledFor
  <2> QED BY <1>6, <1>8, <1>11, <2>2, <2>3 DEF Conf
<1>14. CASE p = "stop"
  <2>1. WriteAccounts(a) /\ files' = [files EXCEPT !.account = account] /\ at[a] = "accounts"
    BY <1>1, <1>3, <1>4, <1>14 DEF WriteConfig, WriteAccounts, Release
  <2>2. FilesShape' /\ files'.account = account /\ files'.port = files.port
    BY <2>1 DEF Conf, FilesShape
  <2>3. files' = Rendered(settings)' /\ account = AccountFor(settings) /\ enabled = EnabledFor(settings)
    BY <1>2, <2>1, <2>2 DEF Conf, FilesShape, Written, Rendered, AccountFor
  <2>4. Written'
    BY <1>2, <1>4, <1>12, <1>14, <2>3, AppliersAct DEF Written, Held, AccountFor, EnabledFor
  <2> QED BY <1>6, <1>8, <1>11, <2>2, <2>4 DEF Conf
<1>15. CASE p = "idle"
  <2>1. files' = files
    BY <1>1, <1>3, <1>4, <1>15 DEF WriteConfig, WriteAccounts
  <2>2. FilesShape'
    BY <2>1 DEF Conf, FilesShape
  <2>3. Written'
    BY <1>4, <1>12, <1>15, AppliersAct DEF Written, Held
  <2> QED BY <1>6, <1>8, <1>11, <2>2, <2>3 DEF Conf
<1> QED BY <1>13, <1>14, <1>15

\* A child is started with the configuration of its own generation.
LEMMA LaunchConf ==
    ASSUME Inv, Conf, StartChild, cmd = 0, enabled, files = Rendered(settings),
           UNCHANGED <<overlay, stored, generation, settings, account, enabled, files, clean, lifetime>>,
           watch'[starts'] = "running",
           \A c \in Children : c # starts' /\ watch'[c] # "none" => watch[c] # "none",
           \A b \in Actors : at'[b] \notin Held,
           \A b \in Actors : at[b] \in {"apply", "load"} => at'[b] = at[b],
           ~overlay.offline
    PROVE  Conf'
<1>1. /\ starts' \in Children /\ cmd' = starts' /\ reads' = files
      /\ born' = [born EXCEPT ![starts'] = generation]
  BY DEF StartChild
<1>2. \A c \in Children : c # starts' => born'[c] = born[c]
  BY <1>1
<1>3. Rendered(settings)' = Rendered(settings)
  BY DEF Rendered, AccountFor
<1>4. Born'
  <2>1. \A c \in Children : born'[c] \in {born[c], generation}
    BY <1>1
  <2> QED BY <1>1, <2>1 DEF Conf, Born
<1>5. Inside' /\ Written'
  BY AppliersAct DEF Inside, Written, Held
<1>6. UpToDate' /\ AsRead' /\ FilesShape' /\ Offline'
  BY <1>1, <1>2, <1>3 DEF Conf, UpToDate, AsRead, FilesShape, Offline
<1>7. Newest'
  BY <1>1 DEF Conf, Born, Newest
<1>8. Fresh'
  BY AppliersAct DEF Conf, Fresh, EnabledFor, AccountFor, Overlaid
<1> QED BY <1>4, <1>5, <1>6, <1>7, <1>8 DEF Conf

\* Apply's last step: after a failure the settings count as not applied, and
\* with nothing to run there is no child.
LEMMA StartConf == ASSUME Inv, Conf, NEW a \in Appliers, Start(a) PROVE Conf'
<1>1. a \in Actors /\ at[a] = "socket" /\ at[a] \in Held /\ cmd = 0
  BY AppliersAct DEF Start, Inv, Stopped, Held
<1>2. UNCHANGED <<overlay, stored, lifetime, generation, settings, account, enabled, files>>
  BY DEF Start, store, context, wanted
<1>3. \A b \in Actors : at'[b] = IF b = a THEN "idle" ELSE at[b]
  BY DEF Start, Release, Inv, Shape
<1>4. \A b \in Actors : b # a => at[b] \notin Held
  BY <1>1, Alone
<1>5. CASE UNCHANGED <<children, watch, clean>>
  <2>1. UNCHANGED <<cmd, born, reads, watch, clean>>
    BY <1>5 DEF children
  <2> QED BY <1>1, <1>2, <1>3, <2>1, QuietConf
<1>6. CASE clean' = FALSE /\ UNCHANGED <<children, watch>>
  <2>1. UNCHANGED <<cmd, born, reads, watch>>
    BY <1>6 DEF children
  <2>2. Born' /\ UpToDate' /\ AsRead' /\ Newest' /\ Offline' /\ FilesShape' /\ Fresh'
    BY <1>1, <1>2, <1>6, <2>1
    DEF Conf, Born, UpToDate, AsRead, Newest, Offline, FilesShape, Fresh, Rendered, AccountFor
  <2>3. Inside' /\ Written'
    BY <1>3, <1>4, AppliersAct DEF Inside, Written, Held
  <2> QED BY <2>2, <2>3 DEF Conf
<1>7. CASE enabled /\ StartChild /\ watch' = [watch EXCEPT ![starts'] = "running"] /\ UNCHANGED clean
  <2>1. files = Rendered(settings)
    BY <1>1 DEF Conf, Written
  <2>2. \A b \in Actors : at'[b] \notin Held
    BY <1>3, <1>4 DEF Held
  <2>3. \A b \in Actors : at[b] \in {"apply", "load"} => at'[b] = at[b]
    BY <1>1, <1>3
  <2>4. starts' \in Children /\ \A c \in Children : watch'[c] = IF c = starts' THEN "running" ELSE watch[c]
    BY <1>7 DEF StartChild, Inv, Shape
  <2>5. ~overlay.offline
    BY <1>7 DEF Conf, Offline
  <2> QED BY <1>1, <1>2, <1>7, <2>1, <2>2, <2>3, <2>4, <2>5, LaunchConf
<1> QED BY <1>5, <1>6, <1>7 DEF Start

\* A restart reads what its generation's Apply has written.
LEMMA RespawnConf == ASSUME Inv, Conf, NEW c \in Children, RespawnStart(c) PROVE Conf'
<1>1. UNCHANGED <<overlay, stored, lifetime, generation, lifecycle, at, settings, account, enabled,
                  files, clean>>
  BY DEF RespawnStart, store, context, wanted
<1>2. lifecycle = None /\ watch[c] = "lock"
  BY DEF RespawnStart
<1>3. CASE UNCHANGED children /\ \E w : watch' = [watch EXCEPT ![c] = w]
  <2>1. UNCHANGED <<cmd, born, reads>>
    BY <1>3 DEF children
  <2>2. \A d \in Children : watch'[d] # "none" => watch[d] # "none"
    BY <1>2, <1>3 DEF Inv, Shape
  <2> QED BY <1>1, <2>1, <2>2, QuietConf
<1>4. CASE ~Superseded(c) /\ StartChild
           /\ watch' = [watch EXCEPT ![c] = "ended", ![starts'] = "running"]
  <2>1. cmd = 0 /\ enabled /\ born[c] = generation
    BY <1>4 DEF Superseded
  <2>2. files = Rendered(settings)
    BY <1>2, <2>1 DEF Conf, UpToDate
  <2>3. \A b \in Actors : at'[b] \notin Held
    BY <1>1, <1>2, NobodyIsInside DEF Inv
  <2>4. watch'[starts'] = "running"
        /\ \A d \in Children : d # starts' /\ watch'[d] # "none" => watch[d] # "none"
    BY <1>2, <1>4 DEF StartChild, Inv, Shape
  <2>5. ~overlay.offline /\ StartChild
    BY <1>4, <2>1 DEF Conf, Offline
  <2> QED BY <1>1, <2>1, <2>2, <2>3, <2>4, <2>5, LaunchConf
<1> QED BY <1>3, <1>4 DEF RespawnStart

\* Everything else that an actor does leaves the configuration alone.
LEMMA WaitConf ==
    ASSUME Inv, Conf,
           \/ \E a \in Actors : StopChild(a) \/ Terminated(a) \/ Awaited(a)
           \/ StopRuntime \/ StopEnd
    PROVE  Conf'
<1>1. CASE StopRuntime \/ StopEnd
  <2>1. UNCHANGED <<overlay, stored, generation, settings, account, enabled, files, born, reads,
                    clean, cmd, watch>>
    BY <1>1 DEF StopRuntime, StopEnd, store, context, wanted, children
  <2>2. PICK p \in {"begin", "down"} : at' = [at EXCEPT ![Halt] = p]
    BY <1>1 DEF StopRuntime, StopEnd
  <2>3. at[Halt] \in {"idle", "socket"} /\ Halt \in Actors
    BY <1>1 DEF StopRuntime, StopEnd, Actors
  <2>4. \A b \in Actors : at'[b] = IF b = Halt THEN p ELSE at[b]
    BY <2>2 DEF Inv, Shape
  <2>5. lifetime' => lifetime
    BY <1>1 DEF StopRuntime, StopEnd, context
  <2>6. lifecycle' = lifecycle \/ cmd' = 0
    BY <1>1, <2>1, <2>3 DEF StopRuntime, StopEnd, Inv, Stopped
  <2> QED BY <2>1, <2>3, <2>4, <2>5, <2>6, QuietConf
<1>2. ASSUME NEW a \in Actors, StopChild(a) \/ Terminated(a) \/ Awaited(a) PROVE Conf'
  <2>1. UNCHANGED <<overlay, stored, generation, settings, account, enabled, files, born, reads,
                    clean, cmd, watch, lifetime, lifecycle>>
    BY <1>2 DEF StopChild, Terminated, Awaited, store, context, wanted, children
  <2>2. at[a] \in {"stop", "await"}
    BY <1>2 DEF StopChild, Terminated, Awaited
  <2>3. \A b \in Actors : at'[b] = at[b] \/ (b = a /\ at'[b] \in {"await", "socket"})
    BY <1>2 DEF StopChild, Terminated, Awaited, Inv, Shape
  <2> QED BY <2>1, <2>2, <2>3, QuietConf
<1> QED BY <1>1, <1>2

\* So do the child, its goroutine before the restart, and the bridge.
LEMMA ChildConf ==
    ASSUME Inv, Conf,
           \/ \E c \in Children : \/ Dies(c) \/ StableUptime(c) \/ Report(c)
                                 \/ OnExit(c) \/ RespawnCheck(c) \/ RespawnWake(c)
           \/ SetRegistrationState \/ UNCHANGED vars
    PROVE  Conf'
<1>1. CASE SetRegistrationState \/ UNCHANGED vars
  <2>1. UNCHANGED <<overlay, stored, generation, settings, account, enabled, files, born, reads,
                    clean, cmd, watch, at, lifetime, lifecycle>>
    BY <1>1 DEF SetRegistrationState, vars, store, context, wanted, children
  <2> QED BY <2>1, QuietConf
<1>2. ASSUME NEW c \in Children, \/ Dies(c) \/ StableUptime(c) \/ Report(c)
                                 \/ OnExit(c) \/ RespawnCheck(c) \/ RespawnWake(c)
      PROVE  Conf'
  <2>1. UNCHANGED <<overlay, stored, generation, settings, account, enabled, files, born, reads,
                    clean, at, lifetime, lifecycle>>
    BY <1>2 DEF Dies, StableUptime, Report, OnExit, RespawnCheck, RespawnWake,
                store, context, wanted, children
  <2>2. cmd' \in {0, cmd}
    BY <1>2 DEF Dies, StableUptime, Report, OnExit, RespawnCheck, RespawnWake, children
  <2>3. watch' = watch \/ (watch[c] # "none" /\ \E w : watch' = [watch EXCEPT ![c] = w])
    BY <1>2 DEF Dies, StableUptime, Report, OnExit, Exited, RespawnCheck, RespawnWake
  <2>4. \A d \in Children : watch'[d] # "none" => watch[d] # "none"
    BY <2>3 DEF Inv, Shape
  <2> QED BY <2>1, <2>2, <2>4, QuietConf
<1> QED BY <1>1, <1>2

\* Every step keeps the configuration invariant.
LEMMA ConfStep == Inv /\ Conf /\ [Next]_vars => Conf'
<1> SUFFICES ASSUME Inv, Conf, [Next]_vars PROVE Conf'
  OBVIOUS
<1>1. ASSUME NEW a \in Savers, Submit(a) PROVE Conf'
  BY <1>1, SaveConf
<1>2. CASE StopRuntime
  BY <1>2, WaitConf
<1>3. ASSUME NEW a \in Actors, Stepping(a) \/ Terminated(a) PROVE Conf'
  BY <1>3, SaveConf, BeginConf, LoadConf, WriteConf, StartConf, WaitConf DEF Stepping
<1>4. ASSUME NEW c \in Children, Dies(c) \/ Watching(c) \/ StableUptime(c) \/ Report(c) PROVE Conf'
  BY <1>4, ChildConf, RespawnConf DEF Watching
<1>5. CASE SetRegistrationState \/ UNCHANGED vars
  BY <1>5, ChildConf
<1> QED BY <1>1, <1>2, <1>3, <1>4, <1>5 DEF Next

\* ChildAsConfigured: the child that lives has read both files of one Apply,
\* and once everything saved has been applied it is that of the stored form.
THEOREM ChildIsAsConfigured == Spec => []ChildAsConfigured
<1>1. Inv /\ Conf => ChildAsConfigured
  <2> SUFFICES ASSUME Inv, Conf PROVE ChildAsConfigured
    OBVIOUS
  <2>1. \A c \in alive : c = cmd /\ cmd # 0
    BY DEF Inv, Tracked
  <2>2. \A c \in alive : born[c] = generation => reads = Rendered(settings)
    BY <2>1 DEF Conf, AsRead
  <2>3. ASSUME Settled
        PROVE  /\ enabled = EnabledFor(Overlaid(stored))
               /\ alive # {} => reads = Rendered(Overlaid(stored))
    <3>1. \A a \in Appliers : at[a] \notin {"apply", "load"}
      BY <2>3, AppliersAct, NobodyIsInside DEF Settled, Inv, Held
    <3>2. enabled = EnabledFor(Overlaid(stored)) /\ (overlay.offline \/ settings = Overlaid(stored))
      BY <2>3, <3>1 DEF Settled, Conf, Fresh
    <3>3. ASSUME alive # {} PROVE reads = Rendered(Overlaid(stored))
      <4>1. cmd # 0
        BY <2>1, <3>3
      <4>2. born[cmd] = generation /\ ~overlay.offline
        BY <2>3, <4>1 DEF Settled, Conf, Newest, Offline
      <4> QED BY <3>2, <4>1, <4>2 DEF Conf, AsRead
    <3> QED BY <3>2, <3>3
  <2> QED BY <2>2, <2>3 DEF ChildAsConfigured
<1>2. Spec => [](Inv /\ Conf)
  BY InvInit, InvStep, ConfInit, ConfStep, PTL DEF Spec
<1> QED BY <1>1, <1>2, PTL

-----------------------------------------------------------------------------
(* What the console shows.  The events of the pipe are read in order, so    *)
(* what the newest child has reported is the last of them, or is shown.     *)

LastPhase == IF pipe = <<>> THEN registration ELSE pipe[Len(pipe)]

Shown ==
    /\ pipe \in Seq(Phases)
    /\ process = "running" => cmd # 0
    /\ lifecycle = None /\ cmd # 0 /\ born[cmd] = generation => process = "running"
    /\ ~enabled => registration = "disabled"
    /\ cmd # 0 /\ born[cmd] = generation /\ reported # None => LastPhase = reported

\* A step that changes nothing shown and leaves no operation.
LEMMA QuietShown ==
    ASSUME Shown, UNCHANGED <<shown, enabled, generation, born, pipe, reported, cmd>>,
           lifecycle' = None => lifecycle = None
    PROVE  Shown'
BY DEF Shown, LastPhase, shown

\* A step of an operation that leaves the events alone and, if it leaves the
\* mutex, there is no child of the operation's generation.
LEMMA OperationShown ==
    ASSUME Shown, UNCHANGED <<pipe, cmd>>,
           process' = "running" => process = "running" /\ lifecycle' # None,
           ~enabled' => registration' = "disabled",
           cmd # 0 => born'[cmd] # generation'
    PROVE  Shown'
BY DEF Shown, LastPhase

\* A child that has just been started is shown as running.
LEMMA LaunchShown ==
    ASSUME Inv, Shown, StartChild, UNCHANGED <<pipe, enabled, registration>>
    PROVE  Shown'
<1>1. cmd' # 0 /\ process' = "running" /\ reported' = None
  BY DEF StartChild, Inv, Shape
<1> QED BY <1>1 DEF Shown

\* The steps of saves, Apply and Stop.
LEMMA ActorShown ==
    ASSUME Inv, Conf, Shown, NEW a \in Actors, Stepping(a) \/ Terminated(a)
    PROVE  Shown'
<1>1. cmd # 0 => cmd \in Children
  BY DEF Inv, Tracked
<1>2. at[a] \in Held => lifecycle = a /\ lifecycle # None /\ (cmd # 0 => born[cmd] # generation)
  <2>1. a # None
    BY ActorsAssumption DEF None, Actors, Appliers, Boot, Halt
  <2>2. \A c \in Children : at[a] \in Held => born[c] # generation
    BY DEF Conf, Inside, Born
  <2> QED BY <1>1, <2>1, <2>2 DEF Inv, Exclusive
<1>3. CASE (a \in Savers /\ (KeepPassword(a) \/ UpsertSIP(a))) \/ StopChild(a) \/ Awaited(a) \/ Terminated(a)
  <2>1. UNCHANGED <<shown, enabled, generation, born, pipe, reported, cmd, lifecycle>>
    BY <1>3 DEF KeepPassword, UpsertSIP, StopChild, Awaited, Terminated, context, wanted, children
  <2> QED BY <2>1, QuietShown
<1>4. CASE (a \in Appliers /\ ApplyBegin(a)) \/ (a = Halt /\ StopBegin)
  <2>1. UNCHANGED <<born, pipe, cmd>> /\ generation' = generation + 1 /\ lifecycle' = a
    BY <1>4 DEF ApplyBegin, StopBegin, children
  <2>2. a # None
    BY ActorsAssumption DEF None, Actors, Appliers, Boot, Halt
  <2>3. cmd # 0 => born'[cmd] # generation'
    BY <1>1, <2>1 DEF Conf, Born
  <2>4. process' = "running" => process = "running"
    BY <1>4 DEF ApplyBegin, StopBegin, shown
  <2>5. ~enabled' => registration' = "disabled"
    BY <1>4 DEF ApplyBegin, StopBegin, shown, wanted, Shown
  <2> QED BY <2>1, <2>2, <2>3, <2>4, <2>5, OperationShown
<1>5. CASE a \in Appliers /\ Load(a)
  <2>1. UNCHANGED <<born, pipe, cmd, generation, lifecycle>> /\ at[a] \in Held
    BY <1>5 DEF Load, context, children, Held
  <2>2. process' # "running" /\ (~enabled' => registration' = "disabled")
    BY <1>5 DEF Load
  <2> QED BY <1>2, <2>1, <2>2, OperationShown
<1>6. CASE a \in Appliers /\ (WriteConfig(a) \/ WriteAccounts(a))
  <2>1. UNCHANGED <<born, pipe, cmd, generation, enabled, registration>> /\ at[a] \in Held
    BY <1>6 DEF WriteConfig, WriteAccounts, context, wanted, children, Held
  <2>2. process' = "running" => process = "running" /\ lifecycle' = lifecycle
    BY <1>6 DEF WriteConfig, WriteAccounts, Release
  <2>3. ~enabled' => registration' = "disabled"
    BY <2>1 DEF Shown
  <2> QED BY <1>2, <2>1, <2>2, <2>3, OperationShown
<1>7. CASE a \in Appliers /\ Start(a)
  <2>1. cmd = 0 /\ UNCHANGED <<pipe, enabled, registration, generation>>
    BY <1>7 DEF Start, Inv, Stopped, context, wanted
  <2>2. CASE UNCHANGED children /\ process' \in {process, "disabled", "degraded"}
    <3>1. cmd' = cmd /\ process' # "running" /\ (~enabled' => registration' = "disabled")
      BY <2>1, <2>2 DEF children, Shown
    <3> QED BY <2>1, <3>1, OperationShown
  <2>3. CASE StartChild
    BY <2>1, <2>3, LaunchShown
  <2> QED BY <1>7, <2>2, <2>3 DEF Start
<1>8. CASE a = Halt /\ StopEnd
  <2>1. cmd = 0 /\ UNCHANGED <<pipe, cmd, enabled, registration>> /\ process' = "disabled"
    BY <1>8 DEF StopEnd, Inv, Stopped, wanted, children
  <2>2. ~enabled' => registration' = "disabled"
    BY <2>1 DEF Shown
  <2> QED BY <2>1, <2>2, OperationShown
<1> QED BY <1>3, <1>4, <1>5, <1>6, <1>7, <1>8 DEF Stepping

\* The goroutine of a child shows what becomes of it only if it was tracked.
LEMMA WatchShown ==
    ASSUME Inv, Conf, Shown, NEW c \in Children, Watching(c)
    PROVE  Shown'
<1>1. UNCHANGED <<pipe, enabled, generation, lifecycle>>
  BY DEF Watching, OnExit, RespawnCheck, RespawnWake, RespawnStart, context, wanted
<1>2. CASE OnExit(c)
  <2>1. CASE cmd = c
    <3>1. cmd' = 0 /\ process' # "running"
      BY <1>2, <2>1 DEF OnExit
    <3>2. ~enabled' => registration' = "disabled"
      BY <1>1, <1>2, <2>1 DEF OnExit, ShouldRespawn
    <3> QED BY <1>1, <3>1, <3>2 DEF Shown
  <2>2. CASE cmd # c
    <3>1. UNCHANGED <<shown, born, reported, cmd>>
      BY <1>2, <2>2 DEF OnExit, ShouldRespawn, shown
    <3> QED BY <1>1, <3>1, QuietShown
  <2> QED BY <2>1, <2>2
<1>3. CASE RespawnCheck(c) \/ RespawnWake(c) \/ (RespawnStart(c) /\ UNCHANGED children)
  <2>1. UNCHANGED <<registration, born, reported, cmd>>
    BY <1>3 DEF RespawnCheck, RespawnWake, RespawnStart, shown, children
  <2>2. process' = process \/ (cmd = 0 /\ process' = "degraded")
    <3>1. CASE RespawnCheck(c) \/ RespawnWake(c)
      BY <3>1 DEF RespawnCheck, RespawnWake, Superseded, shown
    <3>2. CASE RespawnStart(c) /\ UNCHANGED children
      <4>1. ~StartChild
        BY <3>2 DEF StartChild, children, Inv, Shape
      <4> QED BY <3>2, <4>1 DEF RespawnStart, Superseded
    <3> QED BY <1>3, <3>1, <3>2
  <2>3. CASE process' = process
    BY <1>1, <2>1, <2>3, QuietShown DEF shown
  <2>4. CASE cmd = 0 /\ process' = "degraded"
    BY <1>1, <2>1, <2>4 DEF Shown
  <2> QED BY <2>2, <2>3, <2>4
<1>4. CASE RespawnStart(c) /\ StartChild
  <2>1. UNCHANGED registration
    BY <1>4 DEF RespawnStart
  <2> QED BY <1>1, <1>4, <2>1, LaunchShown
<1>5. RespawnStart(c) => UNCHANGED children \/ StartChild
  BY DEF RespawnStart
<1> QED BY <1>2, <1>3, <1>4, <1>5 DEF Watching

\* Adding to the pipe and reading from it.
LEMMA PipeLast ==
    ASSUME NEW s \in Seq(Phases)
    PROVE  /\ \A p \in Phases : /\ Append(s, p) \in Seq(Phases) /\ Append(s, p) # <<>>
                               /\ Append(s, p)[Len(Append(s, p))] = p
           /\ s # <<>> => /\ Tail(s) \in Seq(Phases) /\ Head(s) \in Phases
                          /\ Tail(s) = <<>> => Head(s) = s[Len(s)]
                          /\ Tail(s) # <<>> => Tail(s)[Len(Tail(s))] = s[Len(s)]
<1>1. ASSUME NEW p \in Phases
      PROVE  /\ Append(s, p) \in Seq(Phases) /\ Append(s, p) # <<>>
             /\ Append(s, p)[Len(Append(s, p))] = p
  OBVIOUS
<1>2. ASSUME s # <<>>
      PROVE  /\ Tail(s) \in Seq(Phases) /\ Head(s) \in Phases
             /\ Tail(s) = <<>> => Head(s) = s[Len(s)]
             /\ Tail(s) # <<>> => Tail(s)[Len(Tail(s))] = s[Len(s)]
  <2>1. Tail(s) \in Seq(Phases) /\ Head(s) \in Phases /\ Len(Tail(s)) = Len(s) - 1 /\ Len(s) > 0
    BY <1>2
  <2>2. Tail(s) = <<>> => Len(s) = 1
    <3>1. Len(<<>>) = 0
      OBVIOUS
    <3>2. Tail(s) = <<>> => Len(Tail(s)) = 0
      BY <3>1, Zenon
    <3>3. Len(s) \in Nat
      OBVIOUS
    <3> QED BY <2>1, <3>2, <3>3
  <2>3. Tail(s) # <<>> => Len(s) > 1
    BY <2>1
  <2>4. \A i \in 1 .. Len(Tail(s)) : Tail(s)[i] = s[i + 1]
    BY <1>2
  <2> QED BY <1>2, <2>1, <2>2, <2>3, <2>4
<1> QED BY <1>1, <1>2

\* A living child reports; the bridge reads the oldest event.
LEMMA EventShown ==
    ASSUME Inv, Conf, Shown,
           \/ \E c \in Children : Dies(c) \/ StableUptime(c) \/ Report(c)
           \/ SetRegistrationState \/ StopRuntime \/ UNCHANGED vars \/ \E a \in Savers : Submit(a)
    PROVE  Shown'
<1>1. UNCHANGED <<process, enabled, generation, lifecycle, born, cmd>>
  BY DEF Dies, StableUptime, Report, SetRegistrationState, StopRuntime, Submit, vars, context,
         wanted, shown, children
<1>2. CASE UNCHANGED <<registration, pipe, reported>>
  BY <1>1, <1>2, QuietShown DEF shown
<1>3. ASSUME NEW c \in Children, Report(c) PROVE Shown'
  <2>1. PICK p \in Phases : pipe' = Append(pipe, p) /\ reported' = p
    BY <1>3 DEF Report
  <2>2. registration' = registration
    BY <1>3 DEF Report, shown
  <2> QED BY <1>1, <2>1, <2>2, PipeLast DEF Shown, LastPhase
<1>4. CASE SetRegistrationState
  <2>1. pipe # <<>> /\ pipe' = Tail(pipe) /\ reported' = reported
    BY <1>4 DEF SetRegistrationState, children
  <2>2. Head(pipe) \in Phases
    BY <2>1, PipeLast DEF Shown
  <2>3. registration' = IF enabled THEN Head(pipe) ELSE registration
    BY <1>4, <2>2, PhasesAssumption DEF SetRegistrationState, KnownPhases
  <2>4. cmd # 0 /\ born[cmd] = generation => enabled
    BY DEF Conf, AsRead
  <2> QED BY <1>1, <2>1, <2>2, <2>3, <2>4, PipeLast DEF Shown, LastPhase
<1>5. UNCHANGED <<registration, pipe, reported>> \/ SetRegistrationState
      \/ \E c \in Children : Report(c)
  BY DEF Dies, StableUptime, StopRuntime, Submit, vars, shown, children
<1> QED BY <1>2, <1>3, <1>4, <1>5

\* The start-up state shows a disabled process and no registration.
LEMMA ShownInit == Init => Shown
BY DEF Init, Shown, LastPhase

\* Every step keeps what is shown true.
LEMMA ShownStep == Inv /\ Conf /\ Shown /\ [Next]_vars => Shown'
BY ActorShown, WatchShown, EventShown DEF Next

\* StatusTrue: the console shows a running child exactly when there is one, no
\* registration while calls are off, and the last phase the child reported.
THEOREM StatusIsTrue == Spec => []StatusTrue
<1>1. Shown => StatusTrue
  BY DEF Shown, LastPhase, StatusTrue
<1>2. Spec => [](Inv /\ Conf /\ Shown)
  BY InvInit, InvStep, ConfInit, ConfStep, ShownInit, ShownStep, PTL DEF Spec
<1> QED BY <1>1, <1>2, PTL

-----------------------------------------------------------------------------
(* The types.  That a generation is one of finitely many holds because each *)
(* one belongs to a save, to the start or to the shutdown (Counted).        *)

Places == {"idle", "keep", "upsert", "apply", "load", "write", "accounts",
           "stop", "await", "socket", "begin", "down"}

Types ==
    /\ lifecycle \in Actors \cup {None} /\ at \in [Actors -> Places]
    /\ runCtx \in {0, generation}
    /\ enabled \in BOOLEAN /\ stopping \in BOOLEAN /\ crashes \in 0 .. CrashCap
    /\ process \in {"disabled", "starting", "running", "stopping", "stopped", "degraded"}
    /\ registration \in {"disabled", "unknown"} \cup Phases
    /\ starts \in Children \cup {0} /\ alive \subseteq 1 .. starts
    /\ watch \in [Children -> {"none", "running", "check", "sleep", "lock", "ended", "abandoned"}]
    /\ tries \in [Children -> 0 .. RespawnLimit]
    /\ saves \in 0 .. MaxSaves

\* The start-up state is well typed.
LEMMA TypesInit == Init => Types
<1> SUFFICES ASSUME Init PROVE Types
  OBVIOUS
<1>1. crashes \in 0 .. CrashCap /\ saves \in 0 .. MaxSaves /\ \A c \in Children : tries[c] \in 0 .. RespawnLimit
  BY BoundsAssumption DEF Init
<1>2. at \in [Actors -> Places]
  BY DEF Init, Places
<1>3. tries \in [Children -> 0 .. RespawnLimit]
  BY <1>1 DEF Init
<1> QED BY <1>1, <1>2, <1>3 DEF Init, Types

\* The steps there are, by who takes them.
LEMMA Steps ==
    ASSUME [Next]_vars
    PROVE  \/ \E a \in Savers : Submit(a) \/ KeepPassword(a) \/ UpsertSIP(a)
           \/ \E a \in Appliers : \/ ApplyBegin(a) \/ Load(a) \/ WriteConfig(a)
                                 \/ WriteAccounts(a) \/ Start(a)
           \/ StopRuntime \/ StopBegin \/ StopEnd
           \/ \E a \in Actors : StopChild(a) \/ Terminated(a) \/ Awaited(a)
           \/ \E c \in Children : \/ Dies(c) \/ StableUptime(c) \/ Report(c)
                                 \/ OnExit(c) \/ RespawnCheck(c) \/ RespawnWake(c)
                                 \/ RespawnStart(c)
           \/ SetRegistrationState \/ UNCHANGED vars
<1>1. ASSUME NEW a \in Actors, Stepping(a) \/ Terminated(a)
      PROVE  \/ a \in Savers /\ (KeepPassword(a) \/ UpsertSIP(a))
             \/ a \in Appliers /\ \/ ApplyBegin(a) \/ Load(a) \/ WriteConfig(a)
                                  \/ WriteAccounts(a) \/ Start(a)
             \/ StopBegin \/ StopEnd
             \/ StopChild(a) \/ Terminated(a) \/ Awaited(a)
  BY <1>1, Zenon DEF Stepping
<1>2. \A c : Watching(c) => OnExit(c) \/ RespawnCheck(c) \/ RespawnWake(c) \/ RespawnStart(c)
  BY DEF Watching
<1> QED BY <1>1, <1>2, Zenon DEF Next

\* Actors move between the places the code has, and take and free the mutex.
LEMMA PlaceTypes ==
    ASSUME Types, [Next]_vars
    PROVE  lifecycle' \in Actors \cup {None} /\ at' \in [Actors -> Places]
<1>1. ASSUME NEW a \in Actors,
             \/ Submit(a) \/ KeepPassword(a) \/ UpsertSIP(a) \/ ApplyBegin(a) \/ Load(a)
             \/ WriteConfig(a) \/ WriteAccounts(a) \/ Start(a) \/ StopChild(a) \/ Awaited(a)
      PROVE  lifecycle' \in Actors \cup {None} /\ at' \in [Actors -> Places]
  <2>1. \E p \in Places : at' = [at EXCEPT ![a] = p]
    BY <1>1 DEF Submit, KeepPassword, UpsertSIP, ApplyBegin, Load, WriteConfig, WriteAccounts,
                Start, Release, StopChild, Awaited, Places
  <2>2. lifecycle' \in {lifecycle, None, a}
    BY <1>1 DEF Submit, KeepPassword, UpsertSIP, ApplyBegin, Load, WriteConfig, WriteAccounts,
                Start, Release, StopChild, Awaited
  <2> QED BY <2>1, <2>2 DEF Types
<1>2. CASE StopRuntime \/ StopBegin \/ StopEnd
  <2>1. \E p \in Places : at' = [at EXCEPT ![Halt] = p]
    BY <1>2 DEF StopRuntime, StopBegin, StopEnd, Places
  <2>2. lifecycle' \in {lifecycle, None, Halt} /\ Halt \in Actors
    BY <1>2 DEF StopRuntime, StopBegin, StopEnd, Actors
  <2> QED BY <2>1, <2>2 DEF Types
<1>3. CASE UNCHANGED <<lifecycle, at>>
  BY <1>3 DEF Types
<1>4. \A a \in Actors : Terminated(a) => UNCHANGED <<lifecycle, at>>
  BY DEF Terminated
<1>5. \A c \in Children : Dies(c) \/ Watching(c) \/ StableUptime(c) \/ Report(c)
                         => UNCHANGED <<lifecycle, at>>
  BY DEF Dies, Watching, OnExit, RespawnCheck, RespawnWake, RespawnStart, StableUptime, Report
<1>6. SetRegistrationState \/ UNCHANGED vars => UNCHANGED <<lifecycle, at>>
  BY DEF SetRegistrationState, vars
<1>7. Savers \subseteq Actors /\ Appliers \subseteq Actors
  BY DEF Actors, Appliers
<1> QED BY <1>1, <1>2, <1>3, <1>4, <1>5, <1>6, <1>7 DEF Next, Stepping

\* Every step keeps the types of what is wanted and what is shown.
LEMMA StateTypes ==
    ASSUME Inv, Shown, Types, [Next]_vars
    PROVE  /\ runCtx' \in {0, generation'} /\ saves' \in 0 .. MaxSaves
           /\ enabled' \in BOOLEAN /\ stopping' \in BOOLEAN /\ crashes' \in 0 .. CrashCap
           /\ process' \in {"disabled", "starting", "running", "stopping", "stopped", "degraded"}
           /\ registration' \in {"disabled", "unknown"} \cup Phases
<1> DEFINE Goal ==
        /\ runCtx' \in {0, generation'} /\ saves' \in 0 .. MaxSaves
        /\ enabled' \in BOOLEAN /\ stopping' \in BOOLEAN /\ crashes' \in 0 .. CrashCap
        /\ process' \in {"disabled", "starting", "running", "stopping", "stopped", "degraded"}
        /\ registration' \in {"disabled", "unknown"} \cup Phases
<1> SUFFICES Goal
  OBVIOUS
<1>1. ASSUME NEW a \in Savers, Submit(a) \/ KeepPassword(a) \/ UpsertSIP(a) PROVE Goal
  <2>1. UNCHANGED <<runCtx, generation, enabled, stopping, crashes, process, registration>>
    BY <1>1 DEF Submit, KeepPassword, UpsertSIP, context, wanted, shown
  <2>2. saves' \in 0 .. MaxSaves
    BY <1>1, BoundsAssumption DEF Submit, KeepPassword, UpsertSIP, Types
  <2> QED BY <2>1, <2>2 DEF Types
<1>2. ASSUME NEW a \in Appliers, ApplyBegin(a) PROVE Goal
  BY <1>2 DEF ApplyBegin, Types, store, wanted, shown
<1>3. ASSUME NEW a \in Appliers, Load(a) PROVE Goal
  <2>1. UNCHANGED <<runCtx, generation, saves, crashes>>
    BY <1>3 DEF Load, store, context
  <2>2. /\ stopping' = FALSE /\ enabled' \in BOOLEAN /\ process' \in {"starting", "disabled"}
        /\ registration' \in {"unknown", "disabled"}
    BY <1>3 DEF Load, EnabledFor
  <2> QED BY <2>1, <2>2 DEF Types
<1>4. ASSUME NEW a \in Appliers, WriteConfig(a) \/ WriteAccounts(a) \/ Start(a) PROVE Goal
  <2>1. UNCHANGED <<runCtx, generation, saves, crashes, enabled, stopping, registration>>
    BY <1>4 DEF WriteConfig, WriteAccounts, Start, store, context, wanted
  <2>2. process' \in {process, "degraded", "disabled", "running"}
    BY <1>4 DEF WriteConfig, WriteAccounts, Start, StartChild
  <2> QED BY <2>1, <2>2 DEF Types
<1>5. CASE StopRuntime \/ StopBegin \/ StopEnd
  BY <1>5 DEF StopRuntime, StopBegin, StopEnd, Types, store, context, wanted, shown
<1>6. ASSUME NEW a \in Actors, StopChild(a) \/ Terminated(a) \/ Awaited(a) PROVE Goal
  BY <1>6 DEF StopChild, Terminated, Awaited, Types, store, context, wanted, shown
<1>7. ASSUME NEW c \in Children, Dies(c) \/ Watching(c) \/ StableUptime(c) \/ Report(c) PROVE Goal
  <2>1. UNCHANGED <<runCtx, generation, saves, enabled, stopping>>
    BY <1>7 DEF Dies, Watching, OnExit, RespawnCheck, RespawnWake, RespawnStart, StableUptime, Report,
                store, context, wanted
  <2>2. crashes' \in {crashes, 0} \/ RecordCrash
    BY <1>7 DEF Dies, Watching, OnExit, RespawnCheck, RespawnWake, RespawnStart, StableUptime, Report
  <2>3. crashes' \in 0 .. CrashCap
    BY <2>2, BoundsAssumption DEF RecordCrash, Types
  <2>4. process' \in {process, "degraded", "stopped", "disabled", "running"}
    BY <1>7 DEF Dies, Watching, OnExit, RespawnCheck, RespawnWake, RespawnStart, StartChild,
                StableUptime, Report, shown
  <2>5. registration' \in {registration, "unknown", "disabled"}
    BY <1>7 DEF Dies, Watching, OnExit, RespawnCheck, RespawnWake, RespawnStart, StableUptime, Report,
                shown
  <2> QED BY <2>1, <2>3, <2>4, <2>5 DEF Types
<1>8. CASE SetRegistrationState
  <2>1. UNCHANGED <<runCtx, generation, saves, enabled, stopping, crashes, process>>
    BY <1>8 DEF SetRegistrationState, store, context, wanted
  <2>2. registration' \in {registration} \cup Phases
    BY <1>8, PipeLast DEF SetRegistrationState, Shown
  <2> QED BY <2>1, <2>2 DEF Types
<1>9. CASE UNCHANGED vars
  BY <1>9 DEF vars, Types, store, context, wanted, shown
<1> HIDE DEF Goal
<1> QED
  BY <1>1, <1>2, <1>3, <1>4, <1>5, <1>6, <1>7, <1>8, <1>9, Steps DEF Watching

\* Every step keeps the types of the children and of their goroutines.
LEMMA ChildTypes ==
    ASSUME Inv, Types, [Next]_vars
    PROVE  /\ starts' \in Children \cup {0} /\ alive' \subseteq 1 .. starts'
           /\ watch' \in [Children -> {"none", "running", "check", "sleep", "lock", "ended", "abandoned"}]
           /\ tries' \in [Children -> 0 .. RespawnLimit]
<1> DEFINE States == {"none", "running", "check", "sleep", "lock", "ended", "abandoned"}
<1> DEFINE Goal == /\ starts' \in Children \cup {0} /\ alive' \subseteq 1 .. starts'
                   /\ watch' \in [Children -> States] /\ tries' \in [Children -> 0 .. RespawnLimit]
<1> SUFFICES Goal
  OBVIOUS
<1>1. CASE UNCHANGED <<starts, watch, tries>> /\ alive' \subseteq alive
  BY <1>1 DEF Types
<1>2. ASSUME StartChild, \E c \in Children, w \in States :
                             watch' = [watch EXCEPT ![c] = w, ![starts'] = "running"],
             UNCHANGED tries
      PROVE  Goal
  <2>1. starts' = starts + 1 /\ starts' \in Children /\ starts \in Nat /\ alive' = alive \cup {starts'}
    BY <1>2 DEF StartChild, Inv, Shape
  <2>2. alive' \subseteq 1 .. starts'
    BY <2>1 DEF Types
  <2>3. watch' \in [Children -> States]
    BY <1>2 DEF Types
  <2> QED BY <1>2, <2>1, <2>2, <2>3 DEF Types
<1>3. ASSUME NEW c \in Children, UNCHANGED <<starts, alive>>,
             \E w \in States : watch' = [watch EXCEPT ![c] = w],
             \/ UNCHANGED tries
             \/ tries[c] # RespawnLimit /\ tries' = [tries EXCEPT ![c] = tries[c] + 1]
      PROVE  Goal
  <2>1. watch' \in [Children -> States]
    BY <1>3 DEF Types
  <2>2. tries' \in [Children -> 0 .. RespawnLimit]
    <3>1. tries[c] \in 0 .. RespawnLimit /\ RespawnLimit \in Nat
      BY BoundsAssumption DEF Types
    <3>2. tries[c] # RespawnLimit => tries[c] + 1 \in 0 .. RespawnLimit
      BY <3>1
    <3> QED BY <1>3, <3>2 DEF Types
  <2> QED BY <1>3, <2>1, <2>2 DEF Types
<1>4. ASSUME NEW a \in Appliers, Start(a) PROVE Goal
  <2>1. CASE UNCHANGED <<children, watch, tries>>
    BY <1>1, <2>1 DEF children
  <2>2. CASE StartChild /\ watch' = [watch EXCEPT ![starts'] = "running"] /\ UNCHANGED tries
    <3>1. starts' \in Children
      BY <2>2 DEF StartChild
    <3>2. watch' = [watch EXCEPT ![starts'] = "running", ![starts'] = "running"]
      BY <2>2
    <3> QED BY <1>2, <2>2, <3>1, <3>2
  <2> QED BY <1>4, <2>1, <2>2 DEF Start
<1>5. ASSUME NEW c \in Children, OnExit(c) \/ RespawnCheck(c) \/ RespawnWake(c) PROVE Goal
  <2>1. UNCHANGED <<starts, alive>>
    BY <1>5 DEF OnExit, RespawnCheck, RespawnWake, children
  <2>2. \E w \in States : watch' = [watch EXCEPT ![c] = w]
    BY <1>5 DEF OnExit, RespawnCheck, RespawnWake
  <2>3. tries' = tries \/ (tries[c] # RespawnLimit /\ tries' = [tries EXCEPT ![c] = tries[c] + 1])
    <3>1. CASE RespawnCheck(c) /\ tries[c] # RespawnLimit
      <4>1. tries' = [tries EXCEPT ![c] = IF Superseded(c) THEN tries[c] ELSE tries[c] + 1]
        BY <3>1 DEF RespawnCheck
      <4> QED BY <3>1, <4>1 DEF Types
    <3>2. ~(RespawnCheck(c) /\ tries[c] # RespawnLimit) => tries' = tries
      BY <1>5 DEF OnExit, RespawnCheck, RespawnWake
    <3> QED BY <3>1, <3>2
  <2> QED BY <1>3, <2>1, <2>2, <2>3
<1>6. ASSUME NEW c \in Children, RespawnStart(c) PROVE Goal
  <2>1. CASE UNCHANGED <<children, tries>> /\ \E w \in States : watch' = [watch EXCEPT ![c] = w]
    BY <1>3, <2>1 DEF children
  <2>2. CASE StartChild /\ watch' = [watch EXCEPT ![c] = "ended", ![starts'] = "running"]
             /\ UNCHANGED tries
    BY <1>2, <2>2
  <2> QED BY <1>6, <2>1, <2>2 DEF RespawnStart
<1>7. ASSUME NEW a \in Actors,
             \/ Submit(a) \/ KeepPassword(a) \/ UpsertSIP(a) \/ ApplyBegin(a) \/ Load(a)
             \/ WriteConfig(a) \/ WriteAccounts(a) \/ StopChild(a) \/ Terminated(a) \/ Awaited(a)
      PROVE  UNCHANGED <<starts, watch, tries>> /\ alive' \subseteq alive
  BY <1>7 DEF Submit, KeepPassword, UpsertSIP, ApplyBegin, Load, WriteConfig, WriteAccounts,
              StopChild, Terminated, Awaited, children
<1>8. ASSUME \/ StopRuntime \/ StopBegin \/ StopEnd \/ SetRegistrationState \/ UNCHANGED vars
             \/ \E c \in Children : Dies(c) \/ StableUptime(c) \/ Report(c)
      PROVE  UNCHANGED <<starts, watch, tries>> /\ alive' \subseteq alive
  BY <1>8 DEF StopRuntime, StopBegin, StopEnd, SetRegistrationState, vars, Dies, StableUptime,
              Report, children
<1>9. Savers \subseteq Actors /\ Appliers \subseteq Actors
  BY DEF Actors, Appliers
<1> QED
  <2> HIDE DEF Goal
  <2> QED BY <1>1, <1>4, <1>5, <1>6, <1>7, <1>8, <1>9, Steps

(* The saves on their way to an Apply, and the shutdown that has not begun. *)
Waiting  == {a \in Appliers : at[a] \in {"keep", "upsert", "apply"}}
Unhalted == IF at[Halt] \in {"idle", "begin"} THEN 1 ELSE 0

(* A generation is begun for each save, the start and the shutdown at most. *)
Counted ==
    IsFiniteSet(Waiting) /\ generation + Cardinality(Waiting) + Unhalted <= saves + 2

\* At first the start waits and the shutdown has not begun.
LEMMA CountInit == Init => Counted
<1> SUFFICES ASSUME Init PROVE Counted
  OBVIOUS
<1>1. \A a \in Actors : at[a] = IF a = Boot THEN "apply" ELSE "idle"
  BY DEF Init
<1>2. Waiting = {Boot}
  BY <1>1 DEF Waiting, Actors, Appliers
<1>3. IsFiniteSet(Waiting) /\ Cardinality(Waiting) = 1
  BY <1>2, FS_Singleton
<1>4. Unhalted \in {0, 1} /\ generation = 0 /\ saves = 0
  BY DEF Init, Unhalted
<1> QED BY <1>3, <1>4 DEF Counted

\* A save is counted when it is submitted, and used up when its Apply begins.
LEMMA CountStep ==
    ASSUME Inv, Types, Born, Counted, [Next]_vars
    PROVE  Counted'
<1>1. generation \in Nat /\ saves \in Nat /\ Unhalted \in {0, 1} /\ Cardinality(Waiting) \in Nat
  BY FS_CardinalityType, BoundsAssumption DEF Born, Types, Unhalted, Counted
<1>2. \A a \in Appliers : a # Halt /\ a \in Actors
  BY AppliersAct
<1>3. ASSUME UNCHANGED <<generation, saves>>, Waiting' \subseteq Waiting, Unhalted' = Unhalted
      PROVE  Counted'
  <2>1. IsFiniteSet(Waiting') /\ Cardinality(Waiting') <= Cardinality(Waiting)
    BY <1>3, FS_Subset DEF Counted
  <2>2. Cardinality(Waiting') \in Nat
    BY <2>1, FS_CardinalityType
  <2> QED BY <1>1, <1>3, <2>1, <2>2 DEF Counted
<1>4. ASSUME NEW a \in Savers, Submit(a) PROVE Counted'
  <2>1. a \in Appliers /\ a # Halt /\ UNCHANGED generation /\ saves' = saves + 1
    BY <1>2, <1>4 DEF Submit, Appliers, context
  <2>2. \A b \in Actors : b # a => at'[b] = at[b]
    BY <1>4 DEF Submit, Types
  <2>3. Waiting' \subseteq Waiting \cup {a} /\ Unhalted' = Unhalted
    BY <1>2, <2>1, <2>2 DEF Waiting, Unhalted, Actors
  <2>4. IsFiniteSet(Waiting \cup {a}) /\ Cardinality(Waiting \cup {a}) <= Cardinality(Waiting) + 1
    <3>1. IsFiniteSet(Waiting)
      BY DEF Counted
    <3>2. /\ IsFiniteSet(Waiting \cup {a})
          /\ Cardinality(Waiting \cup {a}) = IF a \in Waiting THEN Cardinality(Waiting)
                                             ELSE Cardinality(Waiting) + 1
      BY <3>1, FS_AddElement
    <3> QED BY <1>1, <3>2
  <2>5. /\ IsFiniteSet(Waiting') /\ Cardinality(Waiting') <= Cardinality(Waiting \cup {a})
        /\ Cardinality(Waiting') \in Nat /\ Cardinality(Waiting \cup {a}) \in Nat
    BY <2>3, <2>4, FS_Subset, FS_CardinalityType
  <2> QED BY <1>1, <2>1, <2>3, <2>4, <2>5 DEF Counted
<1>5. ASSUME NEW a \in Appliers, ApplyBegin(a) PROVE Counted'
  <2>1. a # Halt /\ generation' = generation + 1 /\ UNCHANGED saves /\ at[a] = "apply"
    BY <1>2, <1>5 DEF ApplyBegin, store
  <2>2. \A b \in Actors : at'[b] = IF b = a THEN "load" ELSE at[b]
    BY <1>5 DEF ApplyBegin, Types
  <2>3. Waiting' = Waiting \ {a} /\ a \in Waiting /\ Unhalted' = Unhalted
    BY <1>2, <2>1, <2>2 DEF Waiting, Unhalted, Actors
  <2>4. IsFiniteSet(Waiting') /\ Cardinality(Waiting') = Cardinality(Waiting) - 1
    BY <2>3, FS_RemoveElement DEF Counted
  <2> QED BY <1>1, <2>1, <2>3, <2>4 DEF Counted
<1>6. ASSUME StopBegin PROVE Counted'
  <2>1. generation' = generation + 1 /\ UNCHANGED saves /\ at[Halt] = "begin"
    BY <1>6 DEF StopBegin, store
  <2>2. \A b \in Actors : at'[b] = IF b = Halt THEN "stop" ELSE at[b]
    BY <1>6 DEF StopBegin, Types
  <2>3. Waiting' = Waiting /\ Unhalted = 1 /\ Unhalted' = 0
    BY <1>2, <2>1, <2>2 DEF Waiting, Unhalted, Actors
  <2> QED BY <1>1, <2>1, <2>3 DEF Counted
<1>7. ASSUME NEW a \in Actors, UNCHANGED <<generation, saves>>,
             a = Halt => at'[Halt] \in {"idle", "begin"} <=> at[Halt] \in {"idle", "begin"},
             at'[a] \in {"keep", "upsert", "apply"} => at[a] \in {"keep", "upsert", "apply"},
             \A b \in Actors : b # a => at'[b] = at[b]
      PROVE  Counted'
  <2>1. Waiting' \subseteq Waiting /\ Unhalted' = Unhalted
    BY <1>2, <1>7 DEF Waiting, Unhalted, Actors
  <2> QED BY <1>3, <1>7, <2>1
<1>8. ASSUME NEW a \in Savers, KeepPassword(a) \/ UpsertSIP(a) PROVE Counted'
  <2>1. UNCHANGED <<generation, saves>> /\ a # Halt /\ a \in Actors /\ at[a] \in {"keep", "upsert"}
    BY <1>2, <1>8 DEF KeepPassword, UpsertSIP, context, Appliers
  <2>2. \A b \in Actors : b # a => at'[b] = at[b]
    BY <1>8 DEF KeepPassword, UpsertSIP, Types
  <2> QED BY <1>7, <2>1, <2>2
<1>9. ASSUME NEW a \in Appliers, Load(a) \/ WriteConfig(a) \/ WriteAccounts(a) \/ Start(a)
      PROVE  Counted'
  <2>1. UNCHANGED <<generation, saves>> /\ a # Halt /\ a \in Actors
    BY <1>2, <1>9 DEF Load, WriteConfig, WriteAccounts, Start, context, store
  <2>2. \E p \in {"write", "accounts", "stop", "idle"} : at' = [at EXCEPT ![a] = p]
    BY <1>9 DEF Load, WriteConfig, WriteAccounts, Start, Release
  <2>3. \A b \in Actors : b # a => at'[b] = at[b]
    BY <2>2 DEF Types
  <2>4. at'[a] \notin {"keep", "upsert", "apply"}
    BY <2>1, <2>2 DEF Types
  <2> QED BY <1>7, <2>1, <2>3, <2>4
<1>10. ASSUME NEW a \in Actors, StopChild(a) \/ Awaited(a) PROVE Counted'
  <2>1. UNCHANGED <<generation, saves>> /\ at[a] \in {"stop", "await"}
    BY <1>10 DEF StopChild, Awaited, context, store
  <2>2. \E p \in {"await", "socket"} : at' = [at EXCEPT ![a] = p]
    BY <1>10 DEF StopChild, Awaited
  <2>3. at'[a] \in {"await", "socket"} /\ \A b \in Actors : b # a => at'[b] = at[b]
    BY <2>2 DEF Types
  <2> QED BY <1>7, <2>1, <2>3
<1>11. ASSUME StopRuntime \/ StopEnd PROVE Counted'
  <2>1. UNCHANGED <<generation, saves>> /\ Halt \in Actors
    BY <1>11 DEF StopRuntime, StopEnd, context, store, Actors
  <2>2. /\ \A b \in Actors : b # Halt => at'[b] = at[b]
        /\ \/ at[Halt] = "idle" /\ at'[Halt] = "begin"
           \/ at[Halt] = "socket" /\ at'[Halt] = "down"
    BY <1>11, <2>1 DEF StopRuntime, StopEnd, Types
  <2> QED BY <1>7, <2>1, <2>2
<1>12. ASSUME UNCHANGED <<at, generation, saves>> PROVE Counted'
  BY <1>3, <1>12 DEF Waiting, Unhalted
<1>13. ASSUME \/ \E a \in Actors : Terminated(a)
              \/ \E c \in Children : \/ Dies(c) \/ StableUptime(c) \/ Report(c)
                                    \/ OnExit(c) \/ RespawnCheck(c) \/ RespawnWake(c)
                                    \/ RespawnStart(c)
              \/ SetRegistrationState \/ UNCHANGED vars
       PROVE  UNCHANGED <<at, generation, saves>>
  BY <1>13 DEF Terminated, Dies, StableUptime, Report, OnExit, RespawnCheck, RespawnWake, RespawnStart,
               SetRegistrationState, vars, context, store
<1> QED BY <1>4, <1>5, <1>6, <1>8, <1>9, <1>10, <1>11, <1>12, <1>13, Steps

\* Type correctness of the supervisor, for any number of saves and faults.
THEOREM TypeCorrect == Spec => []TypeOK
<1> DEFINE All == Inv /\ Conf /\ Shown /\ Types /\ Counted
<1>1. Init => All
  BY InvInit, ConfInit, ShownInit, TypesInit, CountInit
<1>2. All /\ [Next]_vars => All'
  <2> SUFFICES ASSUME All, [Next]_vars PROVE All'
    OBVIOUS
  <2>1. Inv' /\ Conf' /\ Shown'
    BY InvStep, ConfStep, ShownStep
  <2>2. Types'
    BY PlaceTypes, StateTypes, ChildTypes DEF Types
  <2>3. Counted'
    BY CountStep DEF Conf
  <2> QED BY <2>1, <2>2, <2>3
<1>3. All => TypeOK
  <2> SUFFICES ASSUME All PROVE TypeOK
    OBVIOUS
  <2>1. generation \in Generations
    <3>1. generation \in Nat /\ saves \in 0 .. MaxSaves /\ MaxSaves \in Nat
      BY BoundsAssumption DEF Conf, Born, Types
    <3>2. generation <= saves + 2
      <4>1. Cardinality(Waiting) \in Nat /\ Unhalted \in {0, 1}
        BY FS_CardinalityType DEF Counted, Unhalted
      <4> QED BY <3>1, <4>1 DEF Counted
    <3> QED BY <3>1, <3>2 DEF Generations
  <2> QED BY <2>1 DEF Inv, Shape, Types, Places, TypeOK
<1> QED BY <1>1, <1>2, <1>3, PTL DEF Spec

(***************************************************************************)
(* The speech pool.  A step has one of the forms below, one for each       *)
(* branch of a critical section.  What is counted (Counted, Budget) holds  *)
(* always; what is open and closed (Uncrossed) as long as no activation    *)
(* crossed another or a teardown.                                          *)
(***************************************************************************)

PoolSteps     == {"idle", "worker", "install", "activate", "pin"}
WarmSteps == {"acquire", "install", "check", "synth"}
Warmups   == [rt : Runtimes, gen : Nat, pc : WarmSteps, engine : Nat, owned : BOOLEAN]

(* What the variables hold. *)
PoolTypes ==
    /\ made \in Nat /\ engines \in Nat /\ started \in Nat
    /\ slot \in [Keys -> Nat] /\ pinned \in [Voices -> Nat]
    /\ pool \in [Voices -> [engine : Nat, refs : Nat]]
    /\ act \in [Activators -> [pc : PoolSteps, rt : Nat, engine : Nat]]
    /\ key \in [Runtimes -> Keys]
    /\ refs \in [Runtimes -> Nat] /\ loose \in [Runtimes -> Nat]
    /\ worker \in [Runtimes -> Nat] /\ release \subseteq Runtimes
    /\ ready \in [Runtimes -> Nat] /\ gen \in [Runtimes -> Nat]
    /\ tts \in [Runtimes -> {"none", "waiting", "ok", "failed"}]
    /\ rels \subseteq [rt : Runtimes, engine : Nat]
    /\ warms \subseteq Warmups /\ IsFiniteSet(warms)
    /\ closed \subseteq Nat /\ crossed \in BOOLEAN

(* Runtimes and engines that are named have been made. *)
Made ==
    /\ made <= started /\ started <= MaxActivations
    /\ \A k \in Keys : slot[k] <= made
    /\ \A v \in Voices : pinned[v] <= made
    /\ \A a \in Activators : act[a].rt <= made /\ (act[a].pc # "idle" => act[a].rt # 0)
    /\ \A r \in release : r <= made
    /\ \A x \in rels : x.rt <= made
    /\ \A x \in warms : x.rt <= made
    /\ \A r \in Runtimes : r > made => gen[r] = 0 /\ refs[r] = 0 /\ worker[r] = 0 /\ loose[r] = 0
Built ==
    /\ \A v \in Voices : pool[v].engine <= engines
    /\ \A a \in Activators : act[a].engine <= engines
    /\ \A r \in Runtimes : worker[r] <= engines
    /\ \A x \in rels : x.engine <= engines
    /\ \A x \in warms : x.engine <= engines
    /\ \A v \in Voices : pool[v].refs > 0 => pool[v].engine # 0
    /\ \A x \in warms : x.owned => x.engine # 0
    /\ \A e \in closed : 1 <= e /\ e <= engines

(* A key's runtime has this key, a voice's pin a runtime with this voice, and
   a warm-up one of the numbers its runtime has given. *)
Wired ==
    /\ \A k \in Keys : slot[k] # 0 => key[slot[k]] = k
    /\ \A v \in Voices : pinned[v] # 0 => VoiceFor(pinned[v]) = v
    /\ \A a \in Activators : act[a].pc = "pin" => a = "pin"
    /\ \A r \in Runtimes : ready[r] \in {0, gen[r]}
    /\ \A x \in warms : 1 <= x.gen /\ x.gen <= gen[x.rt]

(* Every reference is a lease of a call, the pin, or an activation about to pin. *)
Bit(b) == IF b THEN 1 ELSE 0
Pinned(r)  == Bit(\E v \in Voices : pinned[v] = r)
Pending(r) == Bit("pin" \in Activators /\ act["pin"].pc = "pin" /\ act["pin"].rt = r)
Leases == \A r \in Runtimes : refs[r] = loose[r] + Pinned(r) + Pending(r)

(* A runtime that is being made has given nothing back, and one activation makes it. *)
Early(a) == act[a].pc \in {"worker", "install"}
Making ==
    /\ \A a \in Activators : Early(a) => act[a].rt \notin release
    /\ \A a, b \in Activators : Early(a) /\ Early(b) /\ act[a].rt = act[b].rt => a = b

PoolCounted == PoolTypes /\ Made /\ Built /\ Wired /\ Leases /\ Making /\ SharesCounted

-----------------------------------------------------------------------------
(* What a named runtime is. *)

LEMMA Named == ASSUME PoolTypes, Made
               PROVE /\ \A a \in Activators : act[a].pc # "idle" => act[a].rt \in Runtimes
                     /\ \A v \in Voices : pinned[v] # 0 => pinned[v] \in Runtimes
                     /\ \A k \in Keys : slot[k] # 0 => slot[k] \in Runtimes
<1>1. \A i \in Nat : i # 0 /\ i <= made => i \in Runtimes
  BY SpeechAssumption DEF PoolTypes, Made, Runtimes
<1>2. /\ \A a \in Activators : act[a].rt \in Nat
      /\ \A v \in Voices : pinned[v] \in Nat
      /\ \A k \in Keys : slot[k] \in Nat
  BY DEF PoolTypes
<1> QED BY <1>1, <1>2 DEF Made

LEMMA Spoken == ASSUME PoolTypes, NEW r \in Runtimes PROVE VoiceFor(r) \in Voices
<1>1. key[r] \in Keys
  BY DEF PoolTypes
<1> QED BY <1>1, SpeechAssumption DEF VoiceFor

LEMMA NextRuntime == ASSUME PoolTypes, Made, started < MaxActivations PROVE made + 1 \in Runtimes
<1> QED BY SpeechAssumption DEF PoolTypes, Made, Runtimes

LEMMA CountedInit == PoolInit => PoolCounted
<1> SUFFICES ASSUME PoolInit PROVE PoolCounted
  OBVIOUS
<1>1. key \in [Runtimes -> Keys]
  <2>1. (CHOOSE k \in Keys : TRUE) \in Keys
    BY SpeechAssumption
  <2> QED BY <2>1 DEF PoolInit
<1>2. PoolTypes
  BY <1>1, FS_EmptySet DEF PoolInit, PoolTypes, PoolSteps, WarmSteps, Warmups, Idle
<1>3. Made /\ Built
  BY SpeechAssumption DEF PoolInit, Made, Built, Idle
<1>4. Wired
  BY DEF PoolInit, Wired, Idle
<1>5. Leases
  <2>1. \A r \in Runtimes : r # 0
    BY DEF Runtimes
  <2>2. \A r \in Runtimes : Pinned(r) = 0 /\ Pending(r) = 0
    BY <2>1 DEF PoolInit, Idle, Pinned, Pending, Bit
  <2> QED BY <2>2 DEF PoolInit, Leases
<1>6. Making
  BY DEF PoolInit, Making, Early, Idle
<1>7. SharesCounted
  <2> SUFFICES ASSUME NEW v \in Voices
               PROVE pool[v].refs = Cardinality({r \in release : VoiceFor(r) = v})
                     + Cardinality({a \in Activators : act[a].pc = "install"
                                                      /\ VoiceFor(act[a].rt) = v})
    BY DEF SharesCounted
  <2>1. {r \in release : VoiceFor(r) = v} = {} /\ {a \in Activators : act[a].pc = "install"
                                                      /\ VoiceFor(act[a].rt) = v} = {}
    BY DEF PoolInit, Idle
  <2>2. pool[v].refs = 0
    BY DEF PoolInit
  <2>3. Cardinality({}) = 0
    BY FS_EmptySet
  <2>4. Cardinality({r \in release : VoiceFor(r) = v}) = 0
    BY <2>1, <2>3
  <2>5. Cardinality({a \in Activators : act[a].pc = "install" /\ VoiceFor(act[a].rt) = v}) = 0
    BY <2>1, <2>3
  <2> HIDE DEF PoolInit
  <2> QED BY <2>2, <2>4, <2>5
<1> QED BY <1>2, <1>3, <1>4, <1>5, <1>6, <1>7 DEF PoolCounted

-----------------------------------------------------------------------------
(* The forms of a step, one for each branch of the critical sections. *)

\* A request finds the runtime of its key.
AskOld(a, k) ==
    /\ act[a].pc = "idle" /\ slot[k] # 0 /\ ~crossed /\ started < MaxActivations
    /\ act' = [act EXCEPT ![a] = [pc |-> "activate", rt |-> slot[k], engine |-> 0]]
    /\ started' = started + 1
    /\ UNCHANGED <<slot, pool, pinned, key, refs, loose, worker, release, ready, gen,
                   tts, warms, rels, closed, engines, made, crossed>>

\* A request makes the runtime of its key.
AskNew(a, k) ==
    /\ act[a].pc = "idle" /\ slot[k] = 0 /\ ~crossed /\ started < MaxActivations
    /\ act' = [act EXCEPT ![a] = [pc |-> "worker", rt |-> made + 1, engine |-> 0]]
    /\ started' = started + 1
    /\ made' = made + 1
    /\ slot' = [slot EXCEPT ![k] = made + 1]
    /\ key' = [key EXCEPT ![made + 1] = k]
    /\ UNCHANGED <<pool, pinned, refs, loose, worker, release, ready, gen, tts, warms,
                   rels, closed, engines, crossed>>

\* It takes a share of the voice's engine.
TakeOld(a, r, v) ==
    /\ act[a].pc = "worker" /\ act[a].rt = r /\ VoiceFor(r) = v /\ pool[v].refs > 0
    /\ act' = [act EXCEPT ![a] = [pc |-> "install", rt |-> r, engine |-> pool[v].engine]]
    /\ pool' = [pool EXCEPT ![v] = [engine |-> pool[v].engine, refs |-> pool[v].refs + 1]]
    /\ UNCHANGED <<slot, pinned, key, refs, loose, worker, release, ready, gen, tts,
                   warms, rels, closed, engines, made, started, crossed>>

\* It starts the voice's engine.
TakeNew(a, r, v) ==
    /\ act[a].pc = "worker" /\ act[a].rt = r /\ VoiceFor(r) = v /\ pool[v].refs = 0
    /\ act' = [act EXCEPT ![a] = [pc |-> "install", rt |-> r, engine |-> engines + 1]]
    /\ pool' = [pool EXCEPT ![v] = [engine |-> engines + 1, refs |-> 1]]
    /\ engines' = engines + 1
    /\ UNCHANGED <<slot, pinned, key, refs, loose, worker, release, ready, gen, tts,
                   warms, rels, closed, made, started, crossed>>

\* It goes on without a shared engine.
TakeNone(a, r) ==
    /\ act[a].pc = "worker" /\ act[a].rt = r
    /\ act' = [act EXCEPT ![a] = [pc |-> "activate", rt |-> r, engine |-> act[a].engine]]
    /\ UNCHANGED <<slot, pool, pinned, key, refs, loose, worker, release, ready, gen,
                   tts, warms, rels, closed, engines, made, started, crossed>>

\* It gives the runtime its share.
Installs(a, r) ==
    /\ act[a].pc = "install" /\ act[a].rt = r
    /\ act' = [act EXCEPT ![a] = [pc |-> "activate", rt |-> r, engine |-> act[a].engine]]
    /\ worker' = [worker EXCEPT ![r] = act[a].engine]
    /\ release' = release \cup {r}
    /\ UNCHANGED <<slot, pool, pinned, key, refs, loose, ready, gen, tts, warms, rels,
                   closed, engines, made, started, crossed>>

\* It counts its reference: the lease of a call, or one to pin.
CallCounts(a, r) ==
    /\ a = "calls" /\ loose' = [loose EXCEPT ![r] = loose[r] + 1]
    /\ act' = [act EXCEPT ![a] = Idle]
PinCounts(a, r) ==
    /\ a = "pin" /\ loose' = loose
    /\ act' = [act EXCEPT ![a] = [pc |-> "pin", rt |-> r, engine |-> act[a].engine]]
First(r) ==
    /\ refs[r] = 0 /\ refs' = [refs EXCEPT ![r] = 1]
    /\ gen' = [gen EXCEPT ![r] = gen[r] + 1]
    /\ ready' = [ready EXCEPT ![r] = gen[r] + 1]
    /\ tts' = [tts EXCEPT ![r] = "waiting"]
    /\ warms' = warms \cup {[rt |-> r, gen |-> gen[r] + 1, pc |-> "acquire", engine |-> 0,
                             owned |-> FALSE]}
Another(r) ==
    /\ refs[r] # 0 /\ refs' = [refs EXCEPT ![r] = refs[r] + 1]
    /\ UNCHANGED <<gen, ready, tts, warms>>
Counts(a, r) ==
    /\ act[a].pc = "activate" /\ act[a].rt = r
    /\ CallCounts(a, r) \/ PinCounts(a, r)
    /\ First(r) \/ Another(r)
    /\ crossed' = (crossed \/ Crosses(a, r))
    /\ UNCHANGED <<slot, pool, pinned, key, worker, release, rels, closed, engines, made,
                   started>>

\* A pin is there: the new lease is one to release.
PinMore(r) ==
    /\ act["pin"].pc = "pin" /\ act["pin"].rt = r /\ "pin" \in Activators
    /\ pinned[VoiceFor(r)] # 0
    /\ act' = [act EXCEPT !["pin"] = Idle]
    /\ loose' = [loose EXCEPT ![r] = loose[r] + 1]
    /\ UNCHANGED <<slot, pool, pinned, key, refs, worker, release, ready, gen, tts,
                   warms, rels, closed, engines, made, started, crossed>>

\* The lease becomes the pin.
PinSet(r, v) ==
    /\ act["pin"].pc = "pin" /\ act["pin"].rt = r /\ "pin" \in Activators
    /\ VoiceFor(r) = v /\ pinned[v] = 0
    /\ act' = [act EXCEPT !["pin"] = Idle]
    /\ pinned' = [pinned EXCEPT ![v] = r]
    /\ UNCHANGED <<slot, pool, key, refs, loose, worker, release, ready, gen, tts, warms,
                   rels, closed, engines, made, started, crossed>>

\* The pin is lifted.
Unpin(v, r) ==
    /\ pinned[v] = r
    /\ pinned' = [pinned EXCEPT ![v] = 0]
    /\ loose' = [loose EXCEPT ![r] = loose[r] + 1]
    /\ UNCHANGED <<slot, pool, act, key, refs, worker, release, ready, gen, tts, warms,
                   rels, closed, engines, made, started, crossed>>

\* A lease comes back, not the last.
Returns(r) ==
    /\ loose[r] > 0 /\ refs[r] # 1
    /\ refs' = [refs EXCEPT ![r] = refs[r] - 1]
    /\ loose' = [loose EXCEPT ![r] = loose[r] - 1]
    /\ UNCHANGED <<slot, pool, pinned, act, key, worker, release, ready, gen, tts, warms,
                   rels, closed, engines, made, started, crossed>>

\* The last lease comes back.
LastReturns(r) ==
    /\ loose[r] > 0 /\ refs[r] = 1
    /\ refs' = [refs EXCEPT ![r] = 0]
    /\ loose' = [loose EXCEPT ![r] = loose[r] - 1]
    /\ rels' = rels \cup {[rt |-> r, engine |-> OwnWorker(r)]}
    /\ worker' = [worker EXCEPT ![r] = 0]
    /\ ready' = [ready EXCEPT ![r] = 0]
    /\ tts' = [tts EXCEPT ![r] = "none"]
    /\ UNCHANGED <<slot, pool, pinned, act, key, release, gen, warms, closed, engines,
                   made, started, crossed>>

\* The runtime's own engine is closed.
Closes(x) ==
    /\ x.engine \notin closed \cup {0}
    /\ closed' = closed \cup {x.engine}
    /\ UNCHANGED <<slot, pool, pinned, act, key, refs, loose, worker, release, ready,
                   gen, tts, warms, rels, engines, made, started, crossed>>

\* The runtime leaves and gives its share back.
GivesBack(x, r, v) ==
    /\ x.rt = r /\ x.engine \in closed \cup {0} /\ refs[r] = 0 /\ slot[key[r]] = r
    /\ r \in release /\ VoiceFor(r) = v
    /\ rels' = rels \ {x}
    /\ slot' = [slot EXCEPT ![key[r]] = 0]
    /\ release' = release \ {r}
    /\ pool' = [pool EXCEPT ![v] = [engine |-> pool[v].engine, refs |-> pool[v].refs - 1]]
    /\ closed' = IF pool[v].refs = 1 THEN closed \cup {pool[v].engine} ELSE closed
    /\ UNCHANGED <<pinned, act, key, refs, loose, worker, ready, gen, tts, warms,
                   engines, made, started, crossed>>

\* The runtime leaves.
Leaves(x, r) ==
    /\ x.rt = r /\ x.engine \in closed \cup {0} /\ refs[r] = 0 /\ slot[key[r]] = r
    /\ r \notin release
    /\ rels' = rels \ {x}
    /\ slot' = [slot EXCEPT ![key[r]] = 0]
    /\ UNCHANGED <<pool, pinned, act, key, refs, loose, worker, release, ready, gen, tts,
                   warms, closed, engines, made, started, crossed>>

\* Somebody took the runtime up again, or another replaced it.
Stays(x, r) ==
    /\ x.rt = r /\ x.engine \in closed \cup {0} /\ ~(refs[r] = 0 /\ slot[key[r]] = r)
    /\ rels' = rels \ {x}
    /\ UNCHANGED <<slot, pool, pinned, act, key, refs, loose, worker, release, ready,
                   gen, tts, warms, closed, engines, made, started, crossed>>

Warmed(x, pc, e, o) == [rt |-> x.rt, gen |-> x.gen, pc |-> pc, engine |-> e, owned |-> o]

\* A warm-up takes the runtime's engine.
WarmTakes(x, r) ==
    /\ x.rt = r /\ x.pc = "acquire" /\ worker[r] # 0
    /\ warms' = (warms \ {x}) \cup {Warmed(x, "install", worker[r], x.owned)}
    /\ UNCHANGED <<slot, pool, pinned, act, key, refs, loose, worker, release, ready,
                   gen, tts, rels, closed, engines, made, started, crossed>>

\* It makes one.
WarmMakes(x, r) ==
    /\ x.rt = r /\ x.pc = "acquire" /\ worker[r] = 0
    /\ warms' = (warms \ {x}) \cup {Warmed(x, "install", engines + 1, TRUE)}
    /\ engines' = engines + 1
    /\ UNCHANGED <<slot, pool, pinned, act, key, refs, loose, worker, release, ready,
                   gen, tts, rels, closed, made, started, crossed>>

\* It installs it.
WarmPuts(x, r) ==
    /\ x.rt = r /\ x.pc = "install" /\ Current(x) /\ worker[r] \in {0, x.engine}
    /\ warms' = (warms \ {x}) \cup {Warmed(x, "check", x.engine, x.owned)}
    /\ worker' = [worker EXCEPT ![r] = x.engine]
    /\ UNCHANGED <<slot, pool, pinned, act, key, refs, loose, release, ready, gen, tts,
                   rels, closed, engines, made, started, crossed>>

\* It goes on to its utterance.
WarmGoes(x, r) ==
    /\ x.rt = r /\ x.pc = "check" /\ Current(x)
    /\ warms' = (warms \ {x}) \cup {Warmed(x, "synth", x.engine, x.owned)}
    /\ UNCHANGED <<slot, pool, pinned, act, key, refs, loose, worker, release, ready,
                   gen, tts, rels, closed, engines, made, started, crossed>>

\* It succeeds.
WarmAnswers(x, r) ==
    /\ x.rt = r /\ x.pc = "synth" /\ x.engine \notin closed
    /\ warms' = warms \ {x}
    /\ tts' = IF Current(x) THEN [tts EXCEPT ![r] = "ok"] ELSE tts
    /\ UNCHANGED <<slot, pool, pinned, act, key, refs, loose, worker, release, ready,
                   gen, rels, closed, engines, made, started, crossed>>

\* It finds no engine.
WarmFails(x, r) ==
    /\ x.rt = r /\ x.pc = "acquire" /\ worker[r] = 0
    /\ warms' = warms \ {x}
    /\ tts' = IF Current(x) THEN [tts EXCEPT ![r] = "failed"] ELSE tts
    /\ UNCHANGED <<slot, pool, pinned, act, key, refs, loose, worker, release, ready,
                   gen, rels, closed, engines, made, started, crossed>>

\* It ends and tells nobody.
WarmDrops(x, r) ==
    /\ x.rt = r
    /\ \/ x.pc = "install" /\ ~(Current(x) /\ worker[r] \in {0, x.engine})
       \/ x.pc = "check" /\ ~(Current(x) /\ worker[r] = x.engine)
       \/ x.pc = "synth" /\ ~Current(x)
    /\ warms' = warms \ {x}
    /\ closed' = IF x.owned THEN closed \cup {x.engine} ELSE closed
    /\ UNCHANGED <<slot, pool, pinned, act, key, refs, loose, worker, release, ready,
                   gen, tts, rels, engines, made, started, crossed>>

\* It ends with a failure.
WarmBreaks(x, r) ==
    /\ x.rt = r /\ x.pc \in {"check", "synth"} /\ Current(x)
    /\ x.pc = "check" => worker[r] = x.engine
    /\ warms' = warms \ {x}
    /\ closed' = IF x.owned THEN closed \cup {x.engine} ELSE closed
    /\ tts' = [tts EXCEPT ![r] = "failed"]
    /\ worker' = IF x.owned /\ worker[r] = x.engine THEN [worker EXCEPT ![r] = 0] ELSE worker
    /\ UNCHANGED <<slot, pool, pinned, act, key, refs, loose, release, ready, gen, rels,
                   engines, made, started, crossed>>

Asking(a)   == \E k \in Keys : AskOld(a, k) \/ AskNew(a, k)
Taking(a)   == \E r \in Runtimes, v \in Voices :
                  TakeOld(a, r, v) \/ TakeNew(a, r, v) \/ TakeNone(a, r) \/ Installs(a, r)
Counting(a) == \E r \in Runtimes : Counts(a, r)
Pinning     == \E r \in Runtimes, v \in Voices : PinMore(r) \/ PinSet(r, v) \/ Unpin(v, r)
Returning   == \E r \in Runtimes : Returns(r) \/ LastReturns(r)
Leaving(x)  == \E r \in Runtimes, v \in Voices :
                  Closes(x) \/ GivesBack(x, r, v) \/ Leaves(x, r) \/ Stays(x, r)
Warms(x, r) == \/ WarmTakes(x, r) \/ WarmMakes(x, r) \/ WarmPuts(x, r) \/ WarmGoes(x, r)
               \/ WarmAnswers(x, r) \/ WarmFails(x, r) \/ WarmDrops(x, r) \/ WarmBreaks(x, r)

LEMMA AskForms == ASSUME PoolTypes, NEW a \in Activators, NEW k \in Keys, Lookup(a, k)
                  PROVE AskOld(a, k) \/ AskNew(a, k)
<1>1. CASE slot[k] # 0
  <2>1. AskOld(a, k)
    BY <1>1 DEF Lookup, AskOld, engineVars
  <2> QED BY <2>1
<1>2. CASE slot[k] = 0
  <2>1. AskNew(a, k)
    BY <1>2 DEF Lookup, AskNew, engineVars
  <2> QED BY <2>1
<1> QED BY <1>1, <1>2

LEMMA TakeForms == ASSUME PoolTypes, Made, NEW a \in Activators, TakeWorker(a) \/ InstallWorker(a)
                   PROVE Taking(a)
<1>1. PICK r \in Runtimes : r = act[a].rt
  BY Named DEF TakeWorker, InstallWorker
<1>2. PICK v \in Voices : v = VoiceFor(r)
  BY Spoken
<1>3. act[a] = [pc |-> act[a].pc, rt |-> r, engine |-> act[a].engine]
  BY <1>1 DEF PoolTypes
<1>4. pool[v] = [engine |-> pool[v].engine, refs |-> pool[v].refs]
  BY DEF PoolTypes
<1>5. DOMAIN act = Activators /\ DOMAIN pool = Voices
  BY DEF PoolTypes
<1>6. CASE InstallWorker(a)
  <2>1. [act[a] EXCEPT !.pc = "activate"] = [pc |-> "activate", rt |-> r, engine |-> act[a].engine]
    BY <1>3
  <2>2. act' = [act EXCEPT ![a] = [act[a] EXCEPT !.pc = "activate"]]
    BY <1>6, <1>5 DEF InstallWorker
  <2>3. Installs(a, r)
    BY <1>6, <1>1, <2>1, <2>2 DEF InstallWorker, Installs, mapVars, engineVars
  <2> QED BY <2>3 DEF Taking
<1>7. CASE TakeWorker(a)
  <2> DEFINE t(pc, e) == [pc |-> pc, rt |-> r, engine |-> e]
  <2>0. /\ act[a].pc = "worker"
        /\ UNCHANGED <<slot, pinned, runtimeVars, warms, rels, closed, made, started, crossed>>
        /\ \/ /\ pool[v].refs > 0
              /\ pool' = [pool EXCEPT ![v].refs = @ + 1]
              /\ act' = [act EXCEPT ![a].pc = "install", ![a].engine = pool[v].engine]
              /\ UNCHANGED engines
           \/ /\ pool[v].refs = 0
              /\ engines' = NewEngine
              /\ pool' = [pool EXCEPT ![v] = [engine |-> NewEngine, refs |-> 1]]
              /\ act' = [act EXCEPT ![a].pc = "install", ![a].engine = NewEngine]
           \/ /\ pool[v].refs = 0
              /\ act' = [act EXCEPT ![a].pc = "activate"]
              /\ UNCHANGED <<pool, engines>>
    BY <1>1, <1>2, <1>7 DEF TakeWorker
  <2>1. CASE act' = [act EXCEPT ![a].pc = "install", ![a].engine = pool[v].engine]
             /\ pool[v].refs > 0 /\ pool' = [pool EXCEPT ![v].refs = @ + 1] /\ UNCHANGED engines
    <3>1. act' = [act EXCEPT ![a] = [pc |-> "install", rt |-> r, engine |-> pool[v].engine]]
      <4>1. act' = [act EXCEPT ![a] = [[act[a] EXCEPT !.pc = "install"] EXCEPT !.engine = pool[v].engine]]
        BY <2>1, <1>5
      <4>2. [act[a] EXCEPT !.pc = "install"] = t("install", act[a].engine)
        BY <1>3
      <4>3. [t("install", act[a].engine) EXCEPT !.engine = pool[v].engine] = t("install", pool[v].engine)
        OBVIOUS
      <4> QED BY <4>1, <4>2, <4>3
    <3>2. pool' = [pool EXCEPT ![v] = [engine |-> pool[v].engine, refs |-> pool[v].refs + 1]]
      <4>1. pool' = [pool EXCEPT ![v] = [pool[v] EXCEPT !.refs = pool[v].refs + 1]]
        BY <2>1, <1>5
      <4>2. [pool[v] EXCEPT !.refs = pool[v].refs + 1] = [engine |-> pool[v].engine, refs |-> pool[v].refs + 1]
        BY <1>4
      <4> QED BY <4>1, <4>2
    <3>3. TakeOld(a, r, v)
      BY <1>1, <1>2, <2>0, <2>1, <3>1, <3>2 DEF TakeOld, runtimeVars
    <3> QED BY <3>3 DEF Taking
  <2>2. CASE /\ pool[v].refs = 0
              /\ engines' = NewEngine
              /\ pool' = [pool EXCEPT ![v] = [engine |-> NewEngine, refs |-> 1]]
              /\ act' = [act EXCEPT ![a].pc = "install", ![a].engine = NewEngine]
    <3>1. act' = [act EXCEPT ![a] = [pc |-> "install", rt |-> r, engine |-> NewEngine]]
      <4>1. act' = [act EXCEPT ![a] = [[act[a] EXCEPT !.pc = "install"] EXCEPT !.engine = NewEngine]]
        BY <2>2, <1>5
      <4>2. [act[a] EXCEPT !.pc = "install"] = t("install", act[a].engine)
        BY <1>3
      <4>3. [t("install", act[a].engine) EXCEPT !.engine = NewEngine] = t("install", NewEngine)
        OBVIOUS
      <4> QED BY <4>1, <4>2, <4>3
    <3>2. TakeNew(a, r, v)
      BY <1>1, <1>2, <2>0, <2>2, <3>1 DEF TakeNew, runtimeVars, NewEngine
    <3> QED BY <3>2 DEF Taking
  <2>3. CASE act' = [act EXCEPT ![a].pc = "activate"] /\ UNCHANGED <<pool, engines>>
    <3>1. act' = [act EXCEPT ![a] = [pc |-> "activate", rt |-> r, engine |-> act[a].engine]]
      <4>1. act' = [act EXCEPT ![a] = [act[a] EXCEPT !.pc = "activate"]]
        BY <2>3, <1>5
      <4>2. [act[a] EXCEPT !.pc = "activate"] = t("activate", act[a].engine)
        BY <1>3
      <4> QED BY <4>1, <4>2
    <3>2. TakeNone(a, r)
      BY <1>1, <2>0, <2>3, <3>1 DEF TakeNone, runtimeVars
    <3> QED BY <3>2 DEF Taking
  <2> QED BY <2>0, <2>1, <2>2, <2>3
<1> QED BY <1>6, <1>7

LEMMA CountForms == ASSUME PoolTypes, Made, NEW a \in Activators, Activate(a) PROVE Counting(a)
<1>1. PICK r \in Runtimes : r = act[a].rt
  BY Named DEF Activate
<1>2. act[a] = [pc |-> act[a].pc, rt |-> r, engine |-> act[a].engine]
  BY <1>1 DEF PoolTypes
<1>3. DOMAIN act = Activators /\ DOMAIN refs = Runtimes /\ DOMAIN gen = Runtimes /\ gen[r] \in Nat
      /\ DOMAIN loose = Runtimes
  BY DEF PoolTypes
<1>4. CallCounts(a, r) \/ PinCounts(a, r)
  <2>1. CASE a = "calls"
    BY <1>1, <1>3, <2>1 DEF Activate, CallCounts
  <2>2. CASE a # "calls"
    <3>1. act' = [act EXCEPT ![a] = [act[a] EXCEPT !.pc = "pin"]]
      BY <1>3, <2>2 DEF Activate
    <3>2. [act[a] EXCEPT !.pc = "pin"] = [pc |-> "pin", rt |-> r, engine |-> act[a].engine]
      BY <1>2
    <3>3. a = "pin"
      BY <2>2, SpeechAssumption
    <3>4. UNCHANGED loose
      BY <2>2 DEF Activate
    <3> QED BY <3>1, <3>2, <3>3, <3>4 DEF PinCounts
  <2> QED BY <2>1, <2>2
<1>5. First(r) \/ Another(r)
  <2>1. refs' = [refs EXCEPT ![r] = refs[r] + 1]
    BY <1>1, <1>3 DEF Activate
  <2>2. CASE refs[r] = 0
    <3>1. gen' = [gen EXCEPT ![r] = gen[r] + 1] /\ refs' = [refs EXCEPT ![r] = 1]
      BY <1>1, <1>3, <2>1, <2>2 DEF Activate
    <3>2. gen'[r] = gen[r] + 1
      BY <3>1, <1>3
    <3> QED BY <1>1, <2>2, <3>1, <3>2 DEF Activate, First
  <2>3. CASE refs[r] # 0
    BY <1>1, <2>1, <2>3 DEF Activate, Another
  <2> QED BY <2>2, <2>3
<1>6. Counts(a, r)
  BY <1>1, <1>4, <1>5 DEF Activate, Counts, mapVars, engineVars
<1> QED BY <1>6 DEF Counting

LEMMA PinForms == ASSUME PoolTypes, Made, Wired,
                         \/ \E a \in Activators : KeepWarm(a)
                         \/ \E v \in Voices : ReleaseKeepWarm(v)
                  PROVE Pinning
<1>1. ASSUME NEW a \in Activators, KeepWarm(a) PROVE Pinning
  <2>1. PICK r \in Runtimes : r = act[a].rt
    BY <1>1, Named DEF KeepWarm
  <2>2. PICK v \in Voices : v = VoiceFor(r)
    BY Spoken
  <2>3. a = "pin"
    BY <1>1 DEF KeepWarm, Wired
  <2>4. /\ act[a].pc = "pin" /\ act' = [act EXCEPT ![a] = Idle]
        /\ UNCHANGED <<slot, pool, key, refs, worker, release, ready, gen, tts, warms, rels,
                       closed, engines, made, started, crossed>>
    BY <1>1 DEF KeepWarm, engineVars
  <2>5. CASE pinned[v] # 0
    <3>1. loose' = [loose EXCEPT ![r] = loose[r] + 1] /\ UNCHANGED pinned
      BY <1>1, <2>1, <2>2, <2>5 DEF KeepWarm, PoolTypes
    <3>2. PinMore(r)
      BY <2>1, <2>2, <2>3, <2>4, <2>5, <3>1 DEF PinMore
    <3> QED BY <3>2 DEF Pinning
  <2>6. CASE pinned[v] = 0
    <3>1. pinned' = [pinned EXCEPT ![v] = r] /\ UNCHANGED loose
      BY <1>1, <2>1, <2>2, <2>6 DEF KeepWarm
    <3>2. PinSet(r, v)
      BY <2>1, <2>2, <2>3, <2>4, <2>6, <3>1 DEF PinSet
    <3> QED BY <3>2 DEF Pinning
  <2> QED BY <2>5, <2>6
<1>2. ASSUME NEW v \in Voices, ReleaseKeepWarm(v) PROVE Pinning
  <2>1. PICK r \in Runtimes : r = pinned[v]
    BY <1>2, Named DEF ReleaseKeepWarm
  <2>2. loose' = [loose EXCEPT ![r] = loose[r] + 1]
    BY <1>2, <2>1 DEF ReleaseKeepWarm, PoolTypes
  <2>3. Unpin(v, r)
    BY <1>2, <2>1, <2>2 DEF ReleaseKeepWarm, Unpin, engineVars
  <2> QED BY <2>3 DEF Pinning
<1> QED BY <1>1, <1>2

LEMMA ReturnForms == ASSUME PoolTypes, NEW r \in Runtimes, ReleaseLease(r) PROVE Returning
<1>1. /\ loose[r] > 0 /\ loose' = [loose EXCEPT ![r] = loose[r] - 1]
      /\ refs' = [refs EXCEPT ![r] = refs[r] - 1]
  BY DEF ReleaseLease, PoolTypes
<1>2. CASE refs[r] = 1
  <2>1. refs' = [refs EXCEPT ![r] = 0]
    BY <1>1, <1>2
  <2>2. LastReturns(r)
    BY <1>1, <1>2, <2>1 DEF ReleaseLease, LastReturns, mapVars, engineVars
  <2> QED BY <2>2 DEF Returning
<1>3. CASE refs[r] # 1
  <2>1. Returns(r)
    BY <1>1, <1>3 DEF ReleaseLease, Returns, mapVars, engineVars
  <2> QED BY <2>1 DEF Returning
<1> QED BY <1>2, <1>3

LEMMA LeaveForms == ASSUME PoolTypes, NEW x \in rels, CloseOwn(x) \/ OnZero(x) PROVE Leaving(x)
<1>1. PICK r \in Runtimes : r = x.rt
  BY DEF PoolTypes
<1>2. PICK v \in Voices : v = VoiceFor(r)
  BY Spoken
<1>3. CASE CloseOwn(x)
  <2>1. Closes(x)
    BY <1>3 DEF CloseOwn, Closes, mapVars, runtimeVars
  <2> QED BY <2>1 DEF Leaving
<1>4. CASE OnZero(x)
  <2>1. /\ x.engine \in closed \cup {0} /\ rels' = rels \ {x}
        /\ UNCHANGED <<pinned, act, key, refs, loose, worker, ready, gen, tts, warms, engines,
                       made, started, crossed>>
    BY <1>4 DEF OnZero
  <2>2. CASE refs[r] = 0 /\ slot[key[r]] = r
    <3>1. slot' = [slot EXCEPT ![key[r]] = 0] /\ GiveBack(r)
      BY <1>1, <1>4, <2>2 DEF OnZero
    <3>2. CASE r \in release
      <4>1. pool' = [pool EXCEPT ![v].refs = @ - 1]
        BY <1>2, <3>1, <3>2 DEF GiveBack
      <4>2. pool' = [pool EXCEPT ![v] = [engine |-> pool[v].engine, refs |-> pool[v].refs - 1]]
        <5>1. pool[v] = [engine |-> pool[v].engine, refs |-> pool[v].refs] /\ DOMAIN pool = Voices
          BY DEF PoolTypes
        <5>2. pool' = [pool EXCEPT ![v] = [pool[v] EXCEPT !.refs = pool[v].refs - 1]]
          BY <4>1, <5>1
        <5>3. [pool[v] EXCEPT !.refs = pool[v].refs - 1] = [engine |-> pool[v].engine, refs |-> pool[v].refs - 1]
          BY <5>1
        <5> QED BY <5>2, <5>3
      <4>3. GivesBack(x, r, v)
        BY <1>1, <1>2, <2>1, <2>2, <3>1, <3>2, <4>2 DEF GiveBack, GivesBack
      <4> QED BY <4>3 DEF Leaving
    <3>3. CASE r \notin release
      <4>1. Leaves(x, r)
        BY <1>1, <2>1, <2>2, <3>1, <3>3 DEF GiveBack, Leaves
      <4> QED BY <4>1 DEF Leaving
    <3> QED BY <3>2, <3>3
  <2>3. CASE ~(refs[r] = 0 /\ slot[key[r]] = r)
    <3>1. Stays(x, r)
      BY <1>1, <1>4, <2>1, <2>3 DEF OnZero, Stays
    <3> QED BY <3>1 DEF Leaving
  <2> QED BY <2>2, <2>3
<1> QED BY <1>3, <1>4

LEMMA MadeOwn == ASSUME NEW x, NEW e, NEW o
                 PROVE [Warmed(x, "install", e, o) EXCEPT !.owned = TRUE] = Warmed(x, "install", e, TRUE)
<1>1. ASSUME NEW b
      PROVE [Warmed(x, "install", e, o) EXCEPT !.owned = b] = Warmed(x, "install", e, b)
  BY DEF Warmed
<1>2. \A b \in BOOLEAN : [Warmed(x, "install", e, o) EXCEPT !.owned = b] = Warmed(x, "install", e, b)
  BY <1>1
<1> QED BY <1>2

LEMMA WarmForms == ASSUME PoolTypes, NEW x \in warms,
                          WarmAcquire(x) \/ WarmInstall(x) \/ WarmCheck(x) \/ WarmSynth(x)
                   PROVE \E r \in Runtimes : Warms(x, r)
<1> SUFFICES ASSUME NEW r \in Runtimes, r = x.rt PROVE Warms(x, r)
  BY DEF PoolTypes, Warmups
<1>0. x = [rt |-> x.rt, gen |-> x.gen, pc |-> x.pc, engine |-> x.engine, owned |-> x.owned]
      /\ x.owned \in BOOLEAN
  BY DEF PoolTypes, Warmups
<1> USE DEF mapVars, runtimeVars
<1>1. CASE WarmAcquire(x)
  <2>0. [x EXCEPT !.pc = "install"] = Warmed(x, "install", x.engine, x.owned)
    BY <1>0 DEF Warmed
  <2>1. [[x EXCEPT !.pc = "install"] EXCEPT !.engine = worker[r]] = Warmed(x, "install", worker[r], x.owned)
    <3>1. [Warmed(x, "install", x.engine, x.owned) EXCEPT !.engine = worker[r]] = Warmed(x, "install", worker[r], x.owned)
      BY DEF Warmed
    <3> QED BY <2>0, <3>1
  <2>2. [[[x EXCEPT !.pc = "install"] EXCEPT !.engine = NewEngine] EXCEPT !.owned = TRUE] = Warmed(x, "install", engines + 1, TRUE)
    <3>1. [Warmed(x, "install", x.engine, x.owned) EXCEPT !.engine = NewEngine] = Warmed(x, "install", NewEngine, x.owned)
      BY DEF Warmed
    <3>2. [Warmed(x, "install", NewEngine, x.owned) EXCEPT !.owned = TRUE] = Warmed(x, "install", NewEngine, TRUE)
      BY MadeOwn
    <3> QED BY <2>0, <3>1, <3>2 DEF NewEngine
  <2>3. /\ x.pc = "acquire"
        /\ UNCHANGED <<slot, pool, pinned, act, key, refs, loose, worker, release, ready, gen, rels,
                   closed, made, started, crossed>>
    BY <1>1 DEF WarmAcquire
  <2>4. \/ /\ worker[r] # 0 /\ UNCHANGED <<engines, tts>>
           /\ warms' = (warms \ {x}) \cup {[x EXCEPT !.pc = "install", !.engine = worker[r]]}
        \/ /\ worker[r] = 0 /\ UNCHANGED tts /\ engines' = NewEngine
           /\ warms' = (warms \ {x}) \cup {[x EXCEPT !.pc = "install", !.engine = NewEngine, !.owned = TRUE]}
        \/ /\ worker[r] = 0 /\ warms' = warms \ {x} /\ UNCHANGED engines
           /\ tts' = IF Current(x) THEN [tts EXCEPT ![r] = "failed"] ELSE tts
    BY <1>1 DEF WarmAcquire, WarmEnds, WarmGoesOn
  <2>5. CASE worker[r] # 0
    <3>1. WarmTakes(x, r)
      BY <2>1, <2>3, <2>4, <2>5 DEF WarmTakes
    <3> QED BY <3>1 DEF Warms
  <2>6. CASE worker[r] = 0 /\ UNCHANGED tts /\ engines' = NewEngine
           /\ warms' = (warms \ {x}) \cup {[x EXCEPT !.pc = "install", !.engine = NewEngine, !.owned = TRUE]}
    <3>1. WarmMakes(x, r)
      BY <2>2, <2>3, <2>6 DEF WarmMakes, NewEngine
    <3> QED BY <3>1 DEF Warms
  <2>7. CASE worker[r] = 0 /\ warms' = warms \ {x} /\ UNCHANGED engines
           /\ tts' = IF Current(x) THEN [tts EXCEPT ![r] = "failed"] ELSE tts
    <3>1. WarmFails(x, r)
      BY <2>3, <2>7 DEF WarmFails
    <3> QED BY <3>1 DEF Warms
  <2> QED BY <2>4, <2>5, <2>6, <2>7
<1>2. CASE WarmInstall(x)
  <2>1. [x EXCEPT !.pc = "check"] = Warmed(x, "check", x.engine, x.owned)
    BY <1>0 DEF Warmed
  <2>2. CASE Current(x) /\ worker[r] \in {0, x.engine}
    <3>1. WarmPuts(x, r)
      BY <1>2, <2>1, <2>2 DEF WarmInstall, WarmPuts, WarmGoesOn
    <3> QED BY <3>1 DEF Warms
  <2>3. CASE ~(Current(x) /\ worker[r] \in {0, x.engine})
    <3>1. WarmDrops(x, r)
      BY <1>2, <2>3 DEF WarmInstall, WarmDrops, WarmEnds, Discard
    <3> QED BY <3>1 DEF Warms
  <2> QED BY <2>2, <2>3
<1>3. CASE WarmCheck(x)
  <2>1. [x EXCEPT !.pc = "synth"] = Warmed(x, "synth", x.engine, x.owned)
    BY <1>0 DEF Warmed
  <2>2. x.pc = "check" /\ UNCHANGED <<slot, pool, pinned, act, key, refs, loose, release, ready, gen,
                                      rels, engines, made, started, crossed>>
    BY <1>3 DEF WarmCheck
  <2>3. \/ /\ ~Current(x) /\ UNCHANGED <<worker, tts>> /\ warms' = warms \ {x}
           /\ closed' = IF x.owned THEN closed \cup {x.engine} ELSE closed
        \/ /\ Current(x) /\ warms' = warms \ {x}
           /\ closed' = IF x.owned THEN closed \cup {x.engine} ELSE closed
           /\ IF worker[r] = x.engine
             THEN /\ worker' = IF x.owned THEN [worker EXCEPT ![r] = 0] ELSE worker
                  /\ tts' = [tts EXCEPT ![r] = "failed"]
             ELSE UNCHANGED <<worker, tts>>
        \/ /\ Current(x) /\ UNCHANGED <<worker, tts, closed>>
           /\ warms' = (warms \ {x}) \cup {[x EXCEPT !.pc = "synth"]}
    BY <1>3 DEF WarmCheck, WarmEnds, WarmGoesOn, Discard
  <2>4. CASE UNCHANGED <<worker, tts, closed>> /\ Current(x)
             /\ warms' = (warms \ {x}) \cup {[x EXCEPT !.pc = "synth"]}
    <3>1. WarmGoes(x, r)
      BY <2>1, <2>2, <2>4 DEF WarmGoes
    <3> QED BY <3>1 DEF Warms
  <2>5. CASE UNCHANGED <<worker, tts>> /\ warms' = warms \ {x} /\ ~(Current(x) /\ worker[r] = x.engine)
             /\ closed' = IF x.owned THEN closed \cup {x.engine} ELSE closed
    <3>1. WarmDrops(x, r)
      BY <2>2, <2>5 DEF WarmDrops
    <3> QED BY <3>1 DEF Warms
  <2>6. CASE Current(x) /\ warms' = warms \ {x} /\ worker[r] = x.engine
           /\ closed' = (IF x.owned THEN closed \cup {x.engine} ELSE closed)
           /\ worker' = (IF x.owned THEN [worker EXCEPT ![r] = 0] ELSE worker)
           /\ tts' = [tts EXCEPT ![r] = "failed"]
    <3>1. WarmBreaks(x, r)
      BY <2>2, <2>6 DEF WarmBreaks
    <3> QED BY <3>1 DEF Warms
  <2> QED BY <2>3, <2>4, <2>5, <2>6
<1>4. CASE WarmSynth(x)
  <2>2. x.pc = "synth" /\ warms' = warms \ {x}
        /\ UNCHANGED <<slot, pool, pinned, act, key, refs, loose, release, ready, gen,
                       rels, engines, made, started, crossed>>
    BY <1>4 DEF WarmSynth, WarmEnds
  <2>3. \/ /\ x.engine \notin closed /\ UNCHANGED <<worker, closed>>
           /\ tts' = IF Current(x) THEN [tts EXCEPT ![r] = "ok"] ELSE tts
        \/ /\ closed' = IF x.owned THEN closed \cup {x.engine} ELSE closed
           /\ worker' = IF Current(x) /\ x.owned /\ worker[r] = x.engine
                       THEN [worker EXCEPT ![r] = 0] ELSE worker
           /\ tts' = IF Current(x) THEN [tts EXCEPT ![r] = "failed"] ELSE tts
    BY <1>4 DEF WarmSynth, Discard
  <2>4. CASE x.engine \notin closed /\ UNCHANGED <<worker, closed>>
           /\ tts' = IF Current(x) THEN [tts EXCEPT ![r] = "ok"] ELSE tts
    <3>1. WarmAnswers(x, r)
      BY <2>2, <2>4 DEF WarmAnswers
    <3> QED BY <3>1 DEF Warms
  <2>5. CASE ~Current(x) /\ UNCHANGED <<worker, tts>>
             /\ closed' = IF x.owned THEN closed \cup {x.engine} ELSE closed
    <3>1. WarmDrops(x, r)
      BY <2>2, <2>5 DEF WarmDrops
    <3> QED BY <3>1 DEF Warms
  <2>6. CASE Current(x) /\ closed' = (IF x.owned THEN closed \cup {x.engine} ELSE closed)
             /\ worker' = (IF x.owned /\ worker[r] = x.engine THEN [worker EXCEPT ![r] = 0] ELSE worker)
             /\ tts' = [tts EXCEPT ![r] = "failed"]
    <3>1. WarmBreaks(x, r)
      BY <2>2, <2>6 DEF WarmBreaks
    <3> QED BY <3>1 DEF Warms
  <2> QED BY <2>3, <2>4, <2>5, <2>6
<1> QED BY <1>1, <1>2, <1>3, <1>4

\* Every step of the pool has one of these forms.
Formed ==
    \/ \E a \in Activators : Asking(a) \/ Taking(a) \/ Counting(a)
    \/ Pinning \/ Returning
    \/ \E x \in rels : Leaving(x)
    \/ \E x \in warms, r \in Runtimes : Warms(x, r)
LEMMA EveryForm == ASSUME PoolTypes, Made, Wired, PoolNext PROVE Formed
<1>1. ASSUME NEW a \in Activators, NEW k \in Keys, Lookup(a, k) PROVE Formed
  BY <1>1, AskForms DEF Formed, Asking
<1>2. ASSUME NEW a \in Activators, ActivationStep(a) PROVE Formed
  BY <1>2, TakeForms, CountForms, PinForms DEF Formed, ActivationStep
<1>3. ASSUME NEW v \in Voices, ReleaseKeepWarm(v) PROVE Formed
  BY <1>3, PinForms DEF Formed
<1>4. ASSUME NEW r \in Runtimes, ReleaseLease(r) PROVE Formed
  BY <1>4, ReturnForms DEF Formed
<1>5. ASSUME NEW x \in rels, CloseOwn(x) \/ OnZero(x) PROVE Formed
  BY <1>5, LeaveForms DEF Formed
<1>6. ASSUME NEW x \in warms, WarmAcquire(x) \/ WarmInstall(x) \/ WarmCheck(x) \/ WarmSynth(x)
      PROVE Formed
  BY <1>6, WarmForms DEF Formed
<1> QED BY <1>1, <1>2, <1>3, <1>4, <1>5, <1>6 DEF PoolNext, TeardownStep, WarmStep

\* Who gives a reference back has one.
LEMMA BitsAre == \A r : Pinned(r) \in {0, 1} /\ Pending(r) \in {0, 1}
<1> QED BY DEF Pinned, Pending, Bit

LEMMA LeaseTaken == ASSUME PoolTypes, Leases, NEW r \in Runtimes, loose[r] > 0 PROVE refs[r] > 0
<1>1. refs[r] = loose[r] + Pinned(r) + Pending(r)
  BY DEF Leases
<1>2. Pinned(r) \in Nat /\ Pending(r) \in Nat
  BY BitsAre
<1>3. loose[r] \in Nat /\ refs[r] \in Nat
  BY DEF PoolTypes
<1> QED BY <1>1, <1>2, <1>3

LEMMA ActivatorsAreFew == IsFiniteSet(Activators)
<1>1. IsFiniteSet({"calls"}) /\ IsFiniteSet({"pin"})
  BY FS_Singleton
<1>2. IsFiniteSet({"calls"} \cup {"pin"})
  BY <1>1, FS_Union
<1>3. {"calls", "pin"} = {"calls"} \cup {"pin"}
  OBVIOUS
<1> QED BY <1>2, <1>3, FS_Subset, SpeechAssumption

\* The shares of a voice are finitely many, and a runtime that will give one back is one.
SharersOf(v) == {r \in release : VoiceFor(r) = v}
TakersOf(v)  == {a \in Activators : act[a].pc = "install" /\ VoiceFor(act[a].rt) = v}

LEMMA SharersFinite == ASSUME PoolTypes, NEW v PROVE IsFiniteSet(SharersOf(v)) /\ IsFiniteSet(TakersOf(v))
<1>1. IsFiniteSet(Runtimes)
  BY FS_Interval, SpeechAssumption DEF Runtimes
<1>2. SharersOf(v) \subseteq Runtimes /\ TakersOf(v) \subseteq Activators
  BY DEF SharersOf, TakersOf, PoolTypes
<1> QED BY <1>1, <1>2, FS_Subset, ActivatorsAreFew

LEMMA ShareTaken == ASSUME PoolTypes, SharesCounted, NEW r \in release
                    PROVE VoiceFor(r) \in Voices /\ pool[VoiceFor(r)].refs > 0
<1> DEFINE v == VoiceFor(r)
<1>1. v \in Voices
  BY Spoken DEF PoolTypes
<1>2. pool[v].refs = Cardinality(SharersOf(v)) + Cardinality(TakersOf(v))
  BY <1>1 DEF SharesCounted, SharersOf, TakersOf
<1>3. IsFiniteSet(SharersOf(v)) /\ IsFiniteSet(TakersOf(v))
  BY SharersFinite
<1>4. r \in SharersOf(v)
  BY DEF SharersOf
<1>5. Cardinality(SharersOf(v)) \in Nat /\ Cardinality(TakersOf(v)) \in Nat
  BY <1>3, FS_CardinalityType
<1>6. Cardinality(SharersOf(v)) # 0
  BY <1>3, <1>4, FS_EmptySet
<1> QED BY <1>1, <1>2, <1>5, <1>6

LEMMA TypesStep == ASSUME PoolTypes, Made, Leases, SharesCounted, Formed PROVE PoolTypes'
<1> USE DEF PoolTypes, PoolSteps, Idle
<1>1. ASSUME NEW a \in Activators, Asking(a) PROVE PoolTypes'
  <2>0. PICK k \in Keys : AskOld(a, k) \/ AskNew(a, k)
    BY <1>1 DEF Asking
  <2>1. CASE AskOld(a, k)
    BY <2>1 DEF AskOld
  <2>2. CASE AskNew(a, k)
    <3>1. made + 1 \in Runtimes
      BY <2>2, NextRuntime DEF AskNew
    <3> QED BY <2>2, <3>1 DEF AskNew
  <2> QED BY <2>0, <2>1, <2>2
<1>2. ASSUME NEW a \in Activators, Taking(a) PROVE PoolTypes'
  <2>0. PICK r \in Runtimes, v \in Voices :
           TakeOld(a, r, v) \/ TakeNew(a, r, v) \/ TakeNone(a, r) \/ Installs(a, r)
    BY <1>2 DEF Taking
  <2>1. CASE TakeOld(a, r, v)
    BY <2>1 DEF TakeOld
  <2>2. CASE TakeNew(a, r, v)
    BY <2>2 DEF TakeNew
  <2>3. CASE TakeNone(a, r)
    BY <2>3 DEF TakeNone
  <2>4. CASE Installs(a, r)
    BY <2>4 DEF Installs
  <2> QED BY <2>0, <2>1, <2>2, <2>3, <2>4
<1>3. ASSUME NEW a \in Activators, Counting(a) PROVE PoolTypes'
  <2>0. PICK r \in Runtimes : Counts(a, r)
    BY <1>3 DEF Counting
  <2>1. CASE Counts(a, r)
    <3>0. r \in Nat
      BY DEF Runtimes
    <3>1. loose' \in [Runtimes -> Nat] /\ act' \in [Activators -> [pc : PoolSteps, rt : Nat, engine : Nat]]
      <4>1. CASE CallCounts(a, r)
        BY <4>1, <3>0 DEF CallCounts
      <4>2. CASE PinCounts(a, r)
        BY <4>2, <3>0 DEF PinCounts
      <4> QED BY <2>1, <4>1, <4>2 DEF Counts
    <3>2. /\ refs' \in [Runtimes -> Nat] /\ gen' \in [Runtimes -> Nat] /\ ready' \in [Runtimes -> Nat]
          /\ tts' \in [Runtimes -> {"none", "waiting", "ok", "failed"}]
          /\ warms' \subseteq Warmups /\ IsFiniteSet(warms')
      <4>1. CASE First(r)
        <5>0. [rt |-> r, gen |-> gen[r] + 1, pc |-> "acquire", engine |-> 0, owned |-> FALSE] \in Warmups
          BY DEF Warmups, WarmSteps
        <5>1. PICK x \in Warmups : warms' = warms \cup {x}
          BY <4>1, <5>0 DEF First
        <5>2. IsFiniteSet(warms')
          BY <5>1, FS_AddElement
        <5>3. warms' \subseteq Warmups
          BY <5>1
        <5> QED BY <4>1, <5>2, <5>3 DEF First
      <4>2. CASE Another(r)
        BY <4>2 DEF Another
      <4> QED BY <2>1, <4>1, <4>2 DEF Counts
    <3> QED BY <2>1, <3>1, <3>2 DEF Counts
  <2> QED BY <2>0, <2>1
<1>4. ASSUME Pinning PROVE PoolTypes'
  <2>0. PICK r \in Runtimes, v \in Voices : PinMore(r) \/ PinSet(r, v) \/ Unpin(v, r)
    BY <1>4 DEF Pinning
  <2>1. CASE PinMore(r)
    BY <2>1 DEF PinMore
  <2>2. CASE PinSet(r, v)
    BY <2>2 DEF PinSet
  <2>3. CASE Unpin(v, r)
    BY <2>3 DEF Unpin
  <2> QED BY <2>0, <2>1, <2>2, <2>3
<1>5. ASSUME Returning PROVE PoolTypes'
  <2>0. PICK r \in Runtimes : Returns(r) \/ LastReturns(r)
    BY <1>5 DEF Returning
  <2>1. CASE Returns(r)
    <3>1. refs[r] > 0
      BY <2>1, LeaseTaken DEF Returns
    <3> QED BY <2>1, <3>1 DEF Returns
  <2>2. CASE LastReturns(r)
    <3>1. OwnWorker(r) \in Nat
      BY DEF OwnWorker
    <3> QED BY <2>2, <3>1 DEF LastReturns
  <2> QED BY <2>0, <2>1, <2>2
<1>6. ASSUME NEW x \in rels, Leaving(x) PROVE PoolTypes'
  <2>0. PICK r \in Runtimes, v \in Voices :
           Closes(x) \/ GivesBack(x, r, v) \/ Leaves(x, r) \/ Stays(x, r)
    BY <1>6 DEF Leaving
  <2>1. CASE Closes(x)
    <3>1. x.engine \in Nat
      OBVIOUS
    <3> QED BY <2>1, <3>1 DEF Closes
  <2>2. CASE GivesBack(x, r, v)
    <3>1. pool[v].refs > 0
      BY <2>2, ShareTaken DEF GivesBack
    <3>2. pool[v].engine \in Nat /\ pool[v].refs - 1 \in Nat
      BY <3>1
    <3> QED BY <2>2, <3>2 DEF GivesBack
  <2>3. CASE Leaves(x, r)
    BY <2>3 DEF Leaves
  <2>4. CASE Stays(x, r)
    BY <2>4 DEF Stays
  <2> QED BY <2>0, <2>1, <2>2, <2>3, <2>4
<1>7. ASSUME NEW x \in warms, NEW r \in Runtimes, Warms(x, r) PROVE PoolTypes'
  <2>0. x \in Warmups /\ x \in [rt : Runtimes, gen : Nat, pc : WarmSteps, engine : Nat, owned : BOOLEAN]
    BY DEF Warmups
  <2>1. UNCHANGED <<slot, pool, pinned, act, key, refs, loose, release, ready, gen, rels, made, started, crossed>>
    BY <1>7 DEF Warms, WarmTakes, WarmMakes, WarmPuts, WarmGoes, WarmAnswers, WarmFails, WarmDrops, WarmBreaks
  <2>2. tts' \in [Runtimes -> {"none", "waiting", "ok", "failed"}] /\ worker' \in [Runtimes -> Nat]
        /\ engines' \in Nat /\ closed' \subseteq Nat
    <3>1. CASE WarmTakes(x, r)
      BY <3>1 DEF WarmTakes
    <3>5. CASE WarmMakes(x, r)
      BY <3>5 DEF WarmMakes
    <3>2. CASE WarmPuts(x, r) \/ WarmGoes(x, r)
      BY <3>2, <2>0 DEF WarmPuts, WarmGoes
    <3>3. CASE WarmAnswers(x, r) \/ WarmFails(x, r)
      BY <3>3, <2>0 DEF WarmAnswers, WarmFails
    <3>4. CASE WarmDrops(x, r)
      <4>1. closed' \subseteq Nat
        BY <3>4, <2>0 DEF WarmDrops
      <4> QED BY <3>4, <4>1 DEF WarmDrops
    <3>6. CASE WarmBreaks(x, r)
      <4>1. closed' \subseteq Nat
        BY <3>6, <2>0 DEF WarmBreaks
      <4>2. worker' \in [Runtimes -> Nat]
        BY <3>6 DEF WarmBreaks
      <4>3. tts' \in [Runtimes -> {"none", "waiting", "ok", "failed"}] /\ UNCHANGED engines
        BY <3>6 DEF WarmBreaks
      <4> QED BY <4>1, <4>2, <4>3
    <3> QED BY <1>7, <3>1, <3>2, <3>3, <3>4, <3>5, <3>6 DEF Warms
  <2>3. \A e \in Nat, pc \in WarmSteps :
           Warmed(x, pc, e, x.owned) \in Warmups /\ Warmed(x, pc, e, TRUE) \in Warmups
    BY <2>0 DEF Warmed, Warmups
  <2>4. warms' = warms \ {x} \/ \E y \in Warmups : warms' = (warms \ {x}) \cup {y}
    <3>1. CASE WarmTakes(x, r) \/ WarmMakes(x, r)
      <4>1. Warmed(x, "install", worker[r], x.owned) \in Warmups
        BY <2>0, <2>3 DEF WarmSteps
      <4>2. Warmed(x, "install", engines + 1, TRUE) \in Warmups
        BY <2>0 DEF Warmed, Warmups, WarmSteps
      <4> QED BY <3>1, <4>1, <4>2 DEF WarmTakes, WarmMakes
    <3>2. CASE WarmPuts(x, r) \/ WarmGoes(x, r)
      BY <3>2, <2>0, <2>3 DEF WarmPuts, WarmGoes, WarmSteps
    <3>3. CASE WarmAnswers(x, r) \/ WarmFails(x, r) \/ WarmDrops(x, r) \/ WarmBreaks(x, r)
      BY <3>3 DEF WarmAnswers, WarmFails, WarmDrops, WarmBreaks
    <3> QED BY <1>7, <3>1, <3>2, <3>3 DEF Warms
  <2>5. warms' \subseteq Warmups /\ IsFiniteSet(warms')
    <3>1. IsFiniteSet(warms \ {x})
      BY FS_RemoveElement
    <3>2. warms \ {x} \subseteq Warmups
      OBVIOUS
    <3>3. \A y : IsFiniteSet((warms \ {x}) \cup {y})
      BY <3>1, FS_AddElement
    <3> QED BY <3>1, <3>2, <3>3, <2>4
  <2> QED BY <2>1, <2>2, <2>5
<1> QED BY <1>1, <1>2, <1>3, <1>4, <1>5, <1>6, <1>7 DEF Formed

\* What no warm-up changes, and that it stays what it is.
LEMMA WarmKeeps == ASSUME NEW x \in warms, NEW r, Warms(x, r)
                   PROVE /\ UNCHANGED <<slot, pool, pinned, act, key, refs, loose, release, ready, gen, rels, made, started, crossed>>
                         /\ x.rt = r
                         /\ \A y \in warms' : y \in warms \/ (y.rt = x.rt /\ y.gen = x.gen)
<1> USE DEF Warmed
<1>1. CASE WarmTakes(x, r)
  BY <1>1 DEF WarmTakes
<1>2. CASE WarmMakes(x, r)
  BY <1>2 DEF WarmMakes
<1>3. CASE WarmPuts(x, r)
  BY <1>3 DEF WarmPuts
<1>4. CASE WarmGoes(x, r)
  BY <1>4 DEF WarmGoes
<1>5. CASE WarmAnswers(x, r) \/ WarmFails(x, r)
  BY <1>5 DEF WarmAnswers, WarmFails
<1>6. CASE WarmDrops(x, r) \/ WarmBreaks(x, r)
  BY <1>6 DEF WarmDrops, WarmBreaks
<1> QED BY <1>1, <1>2, <1>3, <1>4, <1>5, <1>6 DEF Warms

LEMMA MadeStep == ASSUME PoolTypes, Made, Formed PROVE Made'
<1> USE DEF PoolTypes, PoolSteps, Made
<1>0. Runtimes \subseteq Nat
  BY DEF Runtimes
<1>1. ASSUME NEW a \in Activators, Asking(a) PROVE Made'
  <2>0. PICK k \in Keys : AskOld(a, k) \/ AskNew(a, k)
    BY <1>1 DEF Asking
  <2>1. CASE AskOld(a, k)
    <3>1. \A b \in Activators : act'[b].rt <= made /\ (act'[b].pc # "idle" => act'[b].rt # 0)
      BY <2>1 DEF AskOld
    <3> QED BY <2>1, <3>1, SpeechAssumption DEF AskOld
  <2>2. CASE AskNew(a, k)
    <3>0. made + 1 # 0 /\ made <= made + 1
      OBVIOUS
    <3>1. \A b \in Activators : act'[b].rt <= made + 1 /\ (act'[b].pc # "idle" => act'[b].rt # 0)
      BY <2>2, <3>0 DEF AskNew
    <3>2. \A j \in Keys : slot'[j] <= made + 1
      BY <2>2, <3>0 DEF AskNew
    <3>3. /\ \A v \in Voices : pinned[v] <= made + 1
          /\ \A s \in release : s <= made + 1
      BY <1>0, <3>0
    <3>4. /\ \A x \in rels : x.rt <= made + 1
          /\ \A x \in warms : x.rt <= made + 1
      <4>1. (\A x \in rels : x.rt \in Nat) /\ (\A x \in warms : x.rt \in Nat)
        BY <1>0 DEF Warmups
      <4> QED BY <3>0, <4>1
    <3>5. \A s \in Runtimes : s > made + 1 => s > made
      BY <1>0
    <3> QED BY <2>2, <3>1, <3>2, <3>3, <3>4, <3>5, SpeechAssumption DEF AskNew
  <2> QED BY <2>0, <2>1, <2>2
<1>2. ASSUME NEW a \in Activators, Taking(a) PROVE Made'
  <2>0. PICK r \in Runtimes, v \in Voices :
           TakeOld(a, r, v) \/ TakeNew(a, r, v) \/ TakeNone(a, r) \/ Installs(a, r)
    BY <1>2 DEF Taking
  <2>1. CASE TakeOld(a, r, v)
    BY <2>1 DEF TakeOld
  <2>2. CASE TakeNew(a, r, v)
    BY <2>2 DEF TakeNew
  <2>3. CASE TakeNone(a, r)
    BY <2>3 DEF TakeNone
  <2>4. CASE Installs(a, r)
    BY <2>4 DEF Installs
  <2> QED BY <2>0, <2>1, <2>2, <2>3, <2>4
<1>3. ASSUME NEW a \in Activators, Counting(a) PROVE Made'
  <2>0. PICK r \in Runtimes : Counts(a, r)
    BY <1>3 DEF Counting
  <2>1. CASE Counts(a, r)
    <3>1. r <= made /\ r # 0
      BY <2>1 DEF Counts
    <3>2. \A b \in Activators : act'[b].rt <= made /\ (act'[b].pc # "idle" => act'[b].rt # 0)
      <4>1. CASE CallCounts(a, r)
        BY <3>1, <4>1 DEF CallCounts, Idle
      <4>2. CASE PinCounts(a, r)
        BY <3>1, <4>2 DEF PinCounts
      <4> QED BY <2>1, <4>1, <4>2 DEF Counts
    <3>3. \A s \in Runtimes : s > made => loose'[s] = 0
      BY <2>1, <3>1 DEF Counts, CallCounts, PinCounts
    <3>4. (\A s \in Runtimes : s > made => gen'[s] = 0 /\ refs'[s] = 0) /\ (\A x \in warms' : x.rt <= made)
      <4>1. CASE First(r)
        <5>1. \A s \in Runtimes : s > made => gen'[s] = 0 /\ refs'[s] = 0
          BY <1>0, <3>1, <4>1 DEF First
        <5>2. \A x \in warms' : x.rt <= made
          BY <3>1, <4>1 DEF First
        <5> QED BY <5>1, <5>2
      <4>2. CASE Another(r)
        BY <3>1, <4>2 DEF Another
      <4> QED BY <2>1, <4>1, <4>2 DEF Counts
    <3> QED BY <2>1, <3>2, <3>3, <3>4 DEF Counts
  <2> QED BY <2>0, <2>1
<1>4. ASSUME Pinning PROVE Made'
  <2>0. PICK r \in Runtimes, v \in Voices : PinMore(r) \/ PinSet(r, v) \/ Unpin(v, r)
    BY <1>4 DEF Pinning
  <2>1. CASE PinMore(r)
    <3>1. r <= made
      BY <2>1, SpeechAssumption DEF PinMore
    <3>2. \A b \in Activators : act'[b].rt <= made /\ (act'[b].pc # "idle" => act'[b].rt # 0)
      BY <2>1 DEF PinMore, Idle
    <3>3. \A s \in Runtimes : s > made => loose'[s] = 0
      BY <2>1, <3>1 DEF PinMore
    <3> QED BY <2>1, <3>2, <3>3 DEF PinMore
  <2>2. CASE PinSet(r, v)
    <3>1. r <= made
      BY <2>2, SpeechAssumption DEF PinSet
    <3>2. \A b \in Activators : act'[b].rt <= made /\ (act'[b].pc # "idle" => act'[b].rt # 0)
      BY <2>2 DEF PinSet, Idle
    <3> QED BY <2>2, <3>1, <3>2 DEF PinSet
  <2>3. CASE Unpin(v, r)
    <3>1. r <= made
      BY <2>3 DEF Unpin
    <3> QED BY <2>3, <3>1 DEF Unpin
  <2> QED BY <2>0, <2>1, <2>2, <2>3
<1>5. ASSUME Returning PROVE Made'
  <2>0. PICK r \in Runtimes : Returns(r) \/ LastReturns(r)
    BY <1>5 DEF Returning
  <2>1. CASE Returns(r)
    BY <2>1 DEF Returns
  <2>2. CASE LastReturns(r)
    <3>1. r <= made
      BY <2>2, <1>0 DEF LastReturns
    <3> QED BY <2>2, <3>1 DEF LastReturns
  <2> QED BY <2>0, <2>1, <2>2
<1>6. ASSUME NEW x \in rels, Leaving(x) PROVE Made'
  <2>0. PICK r \in Runtimes, v \in Voices :
           Closes(x) \/ GivesBack(x, r, v) \/ Leaves(x, r) \/ Stays(x, r)
    BY <1>6 DEF Leaving
  <2>1. CASE Closes(x)
    BY <2>1 DEF Closes
  <2>2. CASE GivesBack(x, r, v)
    BY <2>2 DEF GivesBack
  <2>3. CASE Leaves(x, r)
    BY <2>3 DEF Leaves
  <2>4. CASE Stays(x, r)
    BY <2>4 DEF Stays
  <2> QED BY <2>0, <2>1, <2>2, <2>3, <2>4
<1>7. ASSUME NEW x \in warms, NEW r \in Runtimes, Warms(x, r) PROVE Made'
  <2>1. \A s \in Runtimes : s > made => worker'[s] = 0
    <3>1. r <= made
      BY <1>7, WarmKeeps
    <3>2. worker' = worker \/ \E e : worker' = [worker EXCEPT ![r] = e]
      BY <1>7 DEF Warms, WarmTakes, WarmMakes, WarmPuts, WarmGoes, WarmAnswers, WarmFails, WarmDrops,
         WarmBreaks
    <3>3. SUFFICES ASSUME NEW s \in Runtimes, s > made PROVE worker'[s] = 0
      OBVIOUS
    <3>4. s # r /\ worker[s] = 0
      BY <1>0, <3>1, <3>3
    <3> QED BY <3>2, <3>4
  <2> QED BY <1>7, <2>1, WarmKeeps
<1> QED BY <1>1, <1>2, <1>3, <1>4, <1>5, <1>6, <1>7 DEF Formed

LEMMA BuiltStep == ASSUME PoolTypes, Made, Built, SharesCounted, Formed PROVE Built'
<1> USE DEF PoolTypes, PoolSteps, Built
<1>0. /\ \A x \in rels : x.engine \in Nat /\ x.engine <= engines + 1
      /\ \A x \in warms : x.engine \in Nat /\ x.engine <= engines + 1
      /\ \A s \in Runtimes : worker[s] <= engines + 1
      /\ \A e \in closed : e <= engines + 1
  <2>1. /\ \A x \in rels : x.engine \in Nat
        /\ \A x \in warms : x.engine \in Nat
    BY DEF Warmups
  <2> QED BY <2>1
<1>1. ASSUME NEW a \in Activators, Asking(a) PROVE Built'
  <2>0. PICK k \in Keys : AskOld(a, k) \/ AskNew(a, k)
    BY <1>1 DEF Asking
  <2>1. CASE AskOld(a, k)
    BY <2>1 DEF AskOld
  <2>2. CASE AskNew(a, k)
    BY <2>2 DEF AskNew
  <2> QED BY <2>0, <2>1, <2>2
<1>2. ASSUME NEW a \in Activators, Taking(a) PROVE Built'
  <2>0. PICK r \in Runtimes, v \in Voices :
           TakeOld(a, r, v) \/ TakeNew(a, r, v) \/ TakeNone(a, r) \/ Installs(a, r)
    BY <1>2 DEF Taking
  <2>1. CASE TakeOld(a, r, v)
    BY <2>1 DEF TakeOld
  <2>2. CASE TakeNew(a, r, v)
    <3>1. \A w \in Voices : pool'[w].engine <= engines + 1 /\ (pool'[w].refs > 0 => pool'[w].engine # 0)
      BY <2>2 DEF TakeNew
    <3>2. \A b \in Activators : act'[b].engine <= engines + 1
      BY <2>2 DEF TakeNew
    <3> QED BY <2>2, <1>0, <3>1, <3>2 DEF TakeNew
  <2>3. CASE TakeNone(a, r)
    BY <2>3 DEF TakeNone
  <2>4. CASE Installs(a, r)
    BY <2>4 DEF Installs
  <2> QED BY <2>0, <2>1, <2>2, <2>3, <2>4
<1>3. ASSUME NEW a \in Activators, Counting(a) PROVE Built'
  <2>0. PICK r \in Runtimes : Counts(a, r)
    BY <1>3 DEF Counting
  <2>1. CASE Counts(a, r)
    <3>1. \A b \in Activators : act'[b].engine <= engines
      BY <2>1 DEF Counts, CallCounts, PinCounts, Idle
    <3>2. \A x \in warms' : x.engine <= engines /\ (x.owned => x.engine # 0)
      BY <2>1 DEF Counts, First, Another
    <3> QED BY <2>1, <3>1, <3>2 DEF Counts
  <2> QED BY <2>0, <2>1
<1>4. ASSUME Pinning PROVE Built'
  <2>0. PICK r \in Runtimes, v \in Voices : PinMore(r) \/ PinSet(r, v) \/ Unpin(v, r)
    BY <1>4 DEF Pinning
  <2>1. CASE PinMore(r)
    BY <2>1 DEF PinMore, Idle
  <2>2. CASE PinSet(r, v)
    BY <2>2 DEF PinSet, Idle
  <2>3. CASE Unpin(v, r)
    BY <2>3 DEF Unpin
  <2> QED BY <2>0, <2>1, <2>2, <2>3
<1>5. ASSUME Returning PROVE Built'
  <2>0. PICK r \in Runtimes : Returns(r) \/ LastReturns(r)
    BY <1>5 DEF Returning
  <2>1. CASE Returns(r)
    BY <2>1 DEF Returns
  <2>2. CASE LastReturns(r)
    <3>1. OwnWorker(r) <= engines
      BY DEF OwnWorker
    <3> QED BY <2>2, <3>1 DEF LastReturns
  <2> QED BY <2>0, <2>1, <2>2
<1>6. ASSUME NEW x \in rels, Leaving(x) PROVE Built'
  <2>0. PICK r \in Runtimes, v \in Voices :
           Closes(x) \/ GivesBack(x, r, v) \/ Leaves(x, r) \/ Stays(x, r)
    BY <1>6 DEF Leaving
  <2>1. CASE Closes(x)
    BY <2>1 DEF Closes
  <2>2. CASE GivesBack(x, r, v)
    <3>1. pool[v].refs > 0
      BY <2>2, ShareTaken DEF GivesBack
    <3> QED BY <2>2, <3>1 DEF GivesBack
  <2>3. CASE Leaves(x, r)
    BY <2>3 DEF Leaves
  <2>4. CASE Stays(x, r)
    BY <2>4 DEF Stays
  <2> QED BY <2>0, <2>1, <2>2, <2>3, <2>4
<1>7. ASSUME NEW x \in warms, NEW r \in Runtimes, Warms(x, r) PROVE Built'
  <2>0. x \in Warmups /\ x \in [rt : Runtimes, gen : Nat, pc : WarmSteps, engine : Nat, owned : BOOLEAN] /\ x.rt = r
    BY <1>7, WarmKeeps DEF Warmups
  <2>1. UNCHANGED <<pool, act, rels>>
    BY <1>7, WarmKeeps
  <2>2. CASE WarmTakes(x, r)
    BY <2>0, <2>2 DEF WarmTakes, Warmed
  <2>3. CASE WarmMakes(x, r)
    <3>1. \A y \in warms' : y.engine <= engines + 1 /\ (y.owned => y.engine # 0)
      BY <1>0, <2>0, <2>3 DEF WarmMakes, Warmed
    <3>2. /\ \A v \in Voices : pool[v].engine <= engines + 1
          /\ \A a \in Activators : act[a].engine <= engines + 1
      OBVIOUS
    <3> QED BY <1>0, <2>1, <2>3, <3>1, <3>2 DEF WarmMakes
  <2>4. CASE WarmPuts(x, r)
    BY <2>0, <2>4 DEF WarmPuts, Warmed
  <2>5. CASE WarmGoes(x, r)
    BY <2>0, <2>5 DEF WarmGoes, Warmed
  <2>6. CASE WarmAnswers(x, r)
    BY <2>6 DEF WarmAnswers
  <2>9. CASE WarmFails(x, r)
    BY <2>9 DEF WarmFails
  <2>7. CASE WarmDrops(x, r)
    <3>1. \A e \in closed' : 1 <= e /\ e <= engines
      BY <2>0, <2>7 DEF WarmDrops
    <3> QED BY <3>1, <2>7 DEF WarmDrops
  <2>8. CASE WarmBreaks(x, r)
    <3>1. \A e \in closed' : 1 <= e /\ e <= engines
      BY <2>0, <2>8 DEF WarmBreaks
    <3>2. \A s \in Runtimes : worker'[s] <= engines
      BY <2>8 DEF WarmBreaks
    <3> QED BY <3>1, <3>2, <2>8 DEF WarmBreaks
  <2> QED BY <1>7, <2>2, <2>3, <2>4, <2>5, <2>6, <2>7, <2>8, <2>9 DEF Warms
<1> QED BY <1>1, <1>2, <1>3, <1>4, <1>5, <1>6, <1>7 DEF Formed

LEMMA WiredStep == ASSUME PoolTypes, Made, Wired, Leases, Formed PROVE Wired'
<1> USE DEF PoolTypes, PoolSteps, Wired
<1>1. ASSUME NEW a \in Activators, Asking(a) PROVE Wired'
  <2>0. PICK k \in Keys : AskOld(a, k) \/ AskNew(a, k)
    BY <1>1 DEF Asking
  <2>1. CASE AskOld(a, k)
    BY <2>1 DEF AskOld, VoiceFor
  <2>2. CASE AskNew(a, k)
    <3>1. made + 1 \in Runtimes /\ made \in Nat
      BY <2>2, NextRuntime DEF AskNew
    <3>2. \A j \in Keys : slot'[j] # 0 => key'[slot'[j]] = j
      <4>1. \A j \in Keys : slot[j] # made + 1
        BY <3>1 DEF Made
      <4> QED BY <2>2, <3>1, <4>1 DEF AskNew
    <3>3. \A v \in Voices : pinned'[v] # 0 => VoiceOf[key'[pinned'[v]]] = v
      <4>1. \A v \in Voices : pinned[v] # made + 1
        BY <3>1 DEF Made
      <4>2. \A v \in Voices : pinned[v] # 0 => key'[pinned[v]] = key[pinned[v]]
        BY <2>2, <4>1, Named DEF AskNew
      <4>3. UNCHANGED pinned
        BY <2>2 DEF AskNew
      <4> QED BY <4>2, <4>3 DEF VoiceFor
    <3>4. \A b \in Activators : act'[b].pc = "pin" => b = "pin"
      BY <2>2 DEF AskNew
    <3>5. UNCHANGED <<ready, gen, warms>>
      BY <2>2 DEF AskNew
    <3> QED BY <3>2, <3>3, <3>4, <3>5 DEF VoiceFor
  <2> QED BY <2>0, <2>1, <2>2
<1>2. ASSUME NEW a \in Activators, Taking(a) PROVE Wired'
  <2>0. PICK r \in Runtimes, v \in Voices :
           TakeOld(a, r, v) \/ TakeNew(a, r, v) \/ TakeNone(a, r) \/ Installs(a, r)
    BY <1>2 DEF Taking
  <2>1. CASE TakeOld(a, r, v)
    BY <2>1 DEF TakeOld, VoiceFor
  <2>2. CASE TakeNew(a, r, v)
    BY <2>2 DEF TakeNew, VoiceFor
  <2>3. CASE TakeNone(a, r)
    BY <2>3 DEF TakeNone, VoiceFor
  <2>4. CASE Installs(a, r)
    BY <2>4 DEF Installs, VoiceFor
  <2> QED BY <2>0, <2>1, <2>2, <2>3, <2>4
<1>3. ASSUME NEW a \in Activators, Counting(a) PROVE Wired'
  <2>0. PICK r \in Runtimes : Counts(a, r)
    BY <1>3 DEF Counting
  <2>1. CASE Counts(a, r)
    <3>1. \A b \in Activators : act'[b].pc = "pin" => b = "pin"
      BY <2>1 DEF Counts, CallCounts, PinCounts, Idle
    <3>2. (\A s \in Runtimes : ready'[s] \in {0, gen'[s]}) /\ (\A x \in warms' : 1 <= x.gen /\ x.gen <= gen'[x.rt])
      <4>1. CASE First(r)
        <5>1. /\ \A s \in Runtimes : gen[s] <= gen'[s]
              /\ gen'[r] = gen[r] + 1 /\ gen[r] \in Nat
          BY <4>1 DEF First
        <5>2. \A s \in Runtimes : ready'[s] \in {0, gen'[s]}
          BY <4>1 DEF First
        <5>3. \A x \in warms : 1 <= x.gen /\ x.gen <= gen'[x.rt]
          <6>1. \A x \in warms : x.rt \in Runtimes /\ x.gen \in Nat /\ gen[x.rt] \in Nat /\ gen'[x.rt] \in Nat
            BY <4>1, <5>1 DEF Warmups, First
          <6> QED BY <5>1, <6>1
        <5> QED BY <4>1, <5>1, <5>2, <5>3 DEF First
      <4>2. CASE Another(r)
        BY <4>2 DEF Another
      <4> QED BY <2>1, <4>1, <4>2 DEF Counts
    <3>3. UNCHANGED <<slot, key, pinned>>
      BY <2>1 DEF Counts
    <3> QED BY <3>1, <3>2, <3>3 DEF VoiceFor
  <2> QED BY <2>0, <2>1
<1>4. ASSUME Pinning PROVE Wired'
  <2>0. PICK r \in Runtimes, v \in Voices : PinMore(r) \/ PinSet(r, v) \/ Unpin(v, r)
    BY <1>4 DEF Pinning
  <2>1. CASE PinMore(r)
    BY <2>1 DEF PinMore, Idle, VoiceFor
  <2>2. CASE PinSet(r, v)
    <3>1. VoiceFor(r)' = VoiceFor(r)
      BY <2>2 DEF PinSet, VoiceFor
    <3> QED BY <2>2, <3>1 DEF PinSet, Idle, VoiceFor
  <2>3. CASE Unpin(v, r)
    BY <2>3 DEF Unpin, VoiceFor
  <2> QED BY <2>0, <2>1, <2>2, <2>3
<1>5. ASSUME Returning PROVE Wired'
  <2>0. PICK r \in Runtimes : Returns(r) \/ LastReturns(r)
    BY <1>5 DEF Returning
  <2>1. CASE Returns(r)
    BY <2>1 DEF Returns, VoiceFor
  <2>2. CASE LastReturns(r)
    BY <2>2 DEF LastReturns, VoiceFor
  <2> QED BY <2>0, <2>1, <2>2
<1>6. ASSUME NEW x \in rels, Leaving(x) PROVE Wired'
  <2>0. PICK r \in Runtimes, v \in Voices :
           Closes(x) \/ GivesBack(x, r, v) \/ Leaves(x, r) \/ Stays(x, r)
    BY <1>6 DEF Leaving
  <2>1. CASE Closes(x)
    BY <2>1 DEF Closes, VoiceFor
  <2>2. CASE GivesBack(x, r, v)
    BY <2>2 DEF GivesBack, VoiceFor
  <2>3. CASE Leaves(x, r)
    BY <2>3 DEF Leaves, VoiceFor
  <2>4. CASE Stays(x, r)
    BY <2>4 DEF Stays, VoiceFor
  <2> QED BY <2>0, <2>1, <2>2, <2>3, <2>4
<1>7. ASSUME NEW x \in warms, NEW r \in Runtimes, Warms(x, r) PROVE Wired'
  <2>1. /\ UNCHANGED <<slot, key, pinned, act, ready, gen>>
        /\ \A y \in warms' : y \in warms \/ (y.rt = x.rt /\ y.gen = x.gen)
    BY <1>7, WarmKeeps
  <2> QED BY <2>1 DEF VoiceFor
<1> QED BY <1>1, <1>2, <1>3, <1>4, <1>5, <1>6, <1>7 DEF Formed

\* What a teardown leaves alone.
LEMMA LeavingKeeps == ASSUME NEW x \in rels, Leaving(x)
                      PROVE UNCHANGED <<pinned, act, key, refs, loose, worker, ready, gen, tts, warms, engines, made, started, crossed>>
<1> QED BY DEF Leaving, Closes, GivesBack, Leaves, Stays

\* A step that leaves the leases alone.
LEMMA LeasesStay == ASSUME Leases, UNCHANGED <<refs, loose, pinned>>,
                           "pin" \in Activators =>
                               /\ act'["pin"].pc = "pin" <=> act["pin"].pc = "pin"
                               /\ act["pin"].pc = "pin" => act'["pin"].rt = act["pin"].rt
                    PROVE Leases'
<1>1. \A r : Pinned(r)' = Pinned(r) /\ Pending(r)' = Pending(r)
  BY DEF Pinned, Pending, Bit
<1> QED BY <1>1 DEF Leases

LEMMA LeasesStep == ASSUME PoolTypes, Made, Wired, Leases, Formed PROVE Leases'
<1>0. act \in [Activators -> [pc : PoolSteps, rt : Nat, engine : Nat]]
  BY DEF PoolTypes
<1>b. /\ refs \in [Runtimes -> Nat] /\ loose \in [Runtimes -> Nat] /\ pinned \in [Voices -> Nat]
       /\ Runtimes \subseteq Nat \ {0}
  BY DEF PoolTypes, Runtimes
<1>c. \A s \in Runtimes : refs[s] = loose[s] + Pinned(s) + Pending(s)
  BY DEF Leases
<1>1. ASSUME NEW a \in Activators, Asking(a) PROVE Leases'
  <2>0. PICK k \in Keys : AskOld(a, k) \/ AskNew(a, k)
    BY <1>1 DEF Asking
  <2>1. CASE AskOld(a, k)
    <3>1. UNCHANGED <<refs, loose, pinned>>
      BY <2>1 DEF AskOld
    <3>2. "pin" \in Activators => /\ act'["pin"].pc = "pin" <=> act["pin"].pc = "pin"
                                  /\ act["pin"].pc = "pin" => act'["pin"].rt = act["pin"].rt
      BY <2>1, <1>0 DEF AskOld
    <3> QED BY <3>1, <3>2, LeasesStay
  <2>2. CASE AskNew(a, k)
    <3>1. UNCHANGED <<refs, loose, pinned>>
      BY <2>2 DEF AskNew
    <3>2. "pin" \in Activators => /\ act'["pin"].pc = "pin" <=> act["pin"].pc = "pin"
                                  /\ act["pin"].pc = "pin" => act'["pin"].rt = act["pin"].rt
      BY <2>2, <1>0 DEF AskNew
    <3> QED BY <3>1, <3>2, LeasesStay
  <2> QED BY <2>0, <2>1, <2>2
<1>2. ASSUME NEW a \in Activators, Taking(a) PROVE Leases'
  <2>0. PICK r \in Runtimes, v \in Voices :
           TakeOld(a, r, v) \/ TakeNew(a, r, v) \/ TakeNone(a, r) \/ Installs(a, r)
    BY <1>2 DEF Taking
  <2>1. CASE TakeOld(a, r, v)
    <3>1. UNCHANGED <<refs, loose, pinned>>
      BY <2>1 DEF TakeOld
    <3>2. "pin" \in Activators => /\ act'["pin"].pc = "pin" <=> act["pin"].pc = "pin"
                                  /\ act["pin"].pc = "pin" => act'["pin"].rt = act["pin"].rt
      BY <2>1, <1>0 DEF TakeOld
    <3> QED BY <3>1, <3>2, LeasesStay
  <2>2. CASE TakeNew(a, r, v)
    <3>1. UNCHANGED <<refs, loose, pinned>>
      BY <2>2 DEF TakeNew
    <3>2. "pin" \in Activators => /\ act'["pin"].pc = "pin" <=> act["pin"].pc = "pin"
                                  /\ act["pin"].pc = "pin" => act'["pin"].rt = act["pin"].rt
      BY <2>2, <1>0 DEF TakeNew
    <3> QED BY <3>1, <3>2, LeasesStay
  <2>3. CASE TakeNone(a, r)
    <3>1. UNCHANGED <<refs, loose, pinned>>
      BY <2>3 DEF TakeNone
    <3>2. "pin" \in Activators => /\ act'["pin"].pc = "pin" <=> act["pin"].pc = "pin"
                                  /\ act["pin"].pc = "pin" => act'["pin"].rt = act["pin"].rt
      BY <2>3, <1>0 DEF TakeNone
    <3> QED BY <3>1, <3>2, LeasesStay
  <2>4. CASE Installs(a, r)
    <3>1. UNCHANGED <<refs, loose, pinned>>
      BY <2>4 DEF Installs
    <3>2. "pin" \in Activators => /\ act'["pin"].pc = "pin" <=> act["pin"].pc = "pin"
                                  /\ act["pin"].pc = "pin" => act'["pin"].rt = act["pin"].rt
      BY <2>4, <1>0 DEF Installs
    <3> QED BY <3>1, <3>2, LeasesStay
  <2> QED BY <2>0, <2>1, <2>2, <2>3, <2>4
<1>3. ASSUME NEW a \in Activators, Counting(a) PROVE Leases'
  <2>0. PICK r \in Runtimes : Counts(a, r)
    BY <1>3 DEF Counting
  <2>1. CASE Counts(a, r)
    <3>1. UNCHANGED pinned /\ refs' = [refs EXCEPT ![r] = refs[r] + 1]
      <4>1. refs' = [refs EXCEPT ![r] = refs[r] + 1]
        BY <2>1, <1>b DEF Counts, First, Another
      <4> QED BY <2>1, <4>1 DEF Counts
    <3>2. \A s : Pinned(s)' = Pinned(s)
      BY <3>1 DEF Pinned
    <3>3. CASE CallCounts(a, r)
      <4>1. loose' = [loose EXCEPT ![r] = loose[r] + 1]
        BY <3>3 DEF CallCounts
      <4>2. \A s : Pending(s)' = Pending(s)
        BY <3>3, <1>0 DEF CallCounts, Pending
      <4> QED BY <1>b, <1>c, <3>1, <3>2, <4>1, <4>2, BitsAre DEF Leases
    <3>4. CASE PinCounts(a, r)
      <4>1. loose' = loose
        BY <3>4 DEF PinCounts
      <4>2. Pending(r) = 0 /\ Pending(r)' = 1 /\ \A s : s # r => Pending(s)' = Pending(s)
        BY <2>1, <3>4, <1>0 DEF Counts, PinCounts, Pending, Bit
      <4> QED BY <1>b, <1>c, <3>1, <3>2, <4>1, <4>2, BitsAre DEF Leases
    <3> QED BY <2>1, <3>3, <3>4 DEF Counts
  <2> QED BY <2>0, <2>1
<1>4. ASSUME Pinning PROVE Leases'
  <2>0. PICK r \in Runtimes, v \in Voices : PinMore(r) \/ PinSet(r, v) \/ Unpin(v, r)
    BY <1>4 DEF Pinning
  <2>1. CASE PinMore(r)
    <3>1. UNCHANGED <<pinned, refs>> /\ loose' = [loose EXCEPT ![r] = loose[r] + 1]
      BY <2>1 DEF PinMore
    <3>2. \A s : Pinned(s)' = Pinned(s)
      BY <3>1 DEF Pinned
    <3>3. Pending(r) = 1 /\ Pending(r)' = 0 /\ \A s : s # r => Pending(s)' = Pending(s)
      BY <2>1, <1>0, <1>b DEF PinMore, Pending, Bit, Idle
    <3> QED BY <1>b, <1>c, <3>1, <3>2, <3>3, BitsAre DEF Leases
  <2>2. CASE PinSet(r, v)
    <3>1. UNCHANGED <<loose, refs>> /\ pinned' = [pinned EXCEPT ![v] = r]
      BY <2>2 DEF PinSet
    <3>2. Pending(r) = 1 /\ Pending(r)' = 0 /\ \A s : s # r => Pending(s)' = Pending(s)
      BY <2>2, <1>0, <1>b DEF PinSet, Pending, Bit, Idle
    <3>3. \A w \in Voices : pinned[w] # r
      BY <2>2, <1>b DEF PinSet, Wired
    <3>4. Pinned(r) = 0 /\ Pinned(r)' = 1
      BY <1>b, <3>1, <3>3 DEF Pinned, Bit
    <3>5. \A s \in Runtimes : s # r => Pinned(s)' = Pinned(s)
      <4>1. pinned[v] = 0
        BY <2>2 DEF PinSet
      <4>2. ASSUME NEW s \in Runtimes, s # r
            PROVE (\E w \in Voices : pinned'[w] = s) <=> (\E w \in Voices : pinned[w] = s)
        BY <1>b, <3>1, <4>1, <4>2
      <4> QED BY <4>2 DEF Pinned, Bit
    <3> QED BY <1>b, <1>c, <3>1, <3>2, <3>4, <3>5, BitsAre DEF Leases
  <2>3. CASE Unpin(v, r)
    <3>1. UNCHANGED <<act, refs>> /\ pinned' = [pinned EXCEPT ![v] = 0] /\ pinned[v] = r
          /\ loose' = [loose EXCEPT ![r] = loose[r] + 1]
      BY <2>3 DEF Unpin
    <3>2. \A s : Pending(s)' = Pending(s)
      BY <3>1 DEF Pending
    <3>3. \A w \in Voices : w # v => pinned[w] # r
      BY <3>1, <1>b DEF Wired
    <3>4. Pinned(r) = 1 /\ Pinned(r)' = 0
      BY <1>b, <3>1, <3>3 DEF Pinned, Bit
    <3>5. \A s \in Runtimes : s # r => Pinned(s)' = Pinned(s)
      <4>2. ASSUME NEW s \in Runtimes, s # r
            PROVE (\E w \in Voices : pinned'[w] = s) <=> (\E w \in Voices : pinned[w] = s)
        BY <1>b, <3>1, <4>2
      <4> QED BY <4>2 DEF Pinned, Bit
    <3> QED BY <1>b, <1>c, <3>1, <3>2, <3>4, <3>5, BitsAre DEF Leases
  <2> QED BY <2>0, <2>1, <2>2, <2>3
<1>5. ASSUME Returning PROVE Leases'
  <2>0. PICK r \in Runtimes : Returns(r) \/ LastReturns(r)
    BY <1>5 DEF Returning
  <2>1. CASE Returns(r)
    <3>1. UNCHANGED <<act, pinned>> /\ loose' = [loose EXCEPT ![r] = loose[r] - 1]
          /\ loose[r] > 0 /\ refs' = [refs EXCEPT ![r] = refs[r] - 1]
      BY <2>1 DEF Returns
    <3>2. \A s : Pending(s)' = Pending(s) /\ Pinned(s)' = Pinned(s)
      BY <3>1 DEF Pending, Pinned
    <3> QED BY <1>b, <1>c, <3>1, <3>2, BitsAre DEF Leases
  <2>2. CASE LastReturns(r)
    <3>1. UNCHANGED <<act, pinned>> /\ loose' = [loose EXCEPT ![r] = loose[r] - 1]
          /\ loose[r] > 0 /\ refs' = [refs EXCEPT ![r] = refs[r] - 1]
      BY <2>2 DEF LastReturns
    <3>2. \A s : Pending(s)' = Pending(s) /\ Pinned(s)' = Pinned(s)
      BY <3>1 DEF Pending, Pinned
    <3> QED BY <1>b, <1>c, <3>1, <3>2, BitsAre DEF Leases
  <2> QED BY <2>0, <2>1, <2>2
<1>6. ASSUME NEW x \in rels, Leaving(x) PROVE Leases'
  <2>1. UNCHANGED <<refs, loose, pinned, act>>
    BY <1>6, LeavingKeeps
  <2> QED BY <2>1, LeasesStay
<1>7. ASSUME NEW x \in warms, NEW r \in Runtimes, Warms(x, r) PROVE Leases'
  <2>1. UNCHANGED <<refs, loose, pinned, act>>
    BY <1>7, WarmKeeps
  <2> QED BY <2>1, LeasesStay
<1> QED BY <1>1, <1>2, <1>3, <1>4, <1>5, <1>6, <1>7 DEF Formed

LEMMA MakingStep == ASSUME PoolTypes, Made, Making, Formed PROVE Making'
<1>0. /\ act \in [Activators -> [pc : PoolSteps, rt : Nat, engine : Nat]]
      /\ Runtimes \subseteq Nat /\ made \in Nat /\ release \subseteq Runtimes
  BY DEF PoolTypes, Runtimes
<1>b. \A b \in Activators : act[b].rt <= made
  BY DEF Made
<1>c. \A s \in release : s <= made
  BY DEF Made
<1> USE DEF Making, Early
<1>1. ASSUME NEW a \in Activators, Asking(a) PROVE Making'
  <2>0. PICK k \in Keys : AskOld(a, k) \/ AskNew(a, k)
    BY <1>1 DEF Asking
  <2>1. CASE AskOld(a, k)
    BY <2>1, <1>0 DEF AskOld
  <2>2. CASE AskNew(a, k)
    <3>1. made + 1 \notin release /\ \A b \in Activators : act[b].rt # made + 1
      BY <1>0, <1>b, <1>c
    <3> QED BY <2>2, <1>0, <3>1 DEF AskNew
  <2> QED BY <2>0, <2>1, <2>2
<1>2. ASSUME NEW a \in Activators, Taking(a) PROVE Making'
  <2>0. PICK r \in Runtimes, v \in Voices :
           TakeOld(a, r, v) \/ TakeNew(a, r, v) \/ TakeNone(a, r) \/ Installs(a, r)
    BY <1>2 DEF Taking
  <2>1. CASE TakeOld(a, r, v)
    BY <2>1, <1>0 DEF TakeOld
  <2>2. CASE TakeNew(a, r, v)
    BY <2>2, <1>0 DEF TakeNew
  <2>3. CASE TakeNone(a, r)
    BY <2>3, <1>0 DEF TakeNone
  <2>4. CASE Installs(a, r)
    BY <2>4, <1>0 DEF Installs
  <2> QED BY <2>0, <2>1, <2>2, <2>3, <2>4
<1>3. ASSUME NEW a \in Activators, Counting(a) PROVE Making'
  <2>0. PICK r \in Runtimes : Counts(a, r)
    BY <1>3 DEF Counting
  <2>1. CASE Counts(a, r)
    <3>1. \A b \in Activators : Early(b)' => Early(b) /\ act'[b] = act[b]
      BY <2>1, <1>0 DEF Counts, CallCounts, PinCounts, Idle
    <3> QED BY <2>1, <3>1 DEF Counts
  <2> QED BY <2>0, <2>1
<1>4. ASSUME Pinning PROVE Making'
  <2>0. PICK r \in Runtimes, v \in Voices : PinMore(r) \/ PinSet(r, v) \/ Unpin(v, r)
    BY <1>4 DEF Pinning
  <2>1. CASE PinMore(r)
    <3>1. \A b \in Activators : Early(b)' => Early(b) /\ act'[b] = act[b]
      BY <2>1, <1>0 DEF PinMore, Idle
    <3> QED BY <2>1, <3>1 DEF PinMore
  <2>2. CASE PinSet(r, v)
    <3>1. \A b \in Activators : Early(b)' => Early(b) /\ act'[b] = act[b]
      BY <2>2, <1>0 DEF PinSet, Idle
    <3> QED BY <2>2, <3>1 DEF PinSet
  <2>3. CASE Unpin(v, r)
    BY <2>3 DEF Unpin
  <2> QED BY <2>0, <2>1, <2>2, <2>3
<1>5. ASSUME Returning PROVE Making'
  <2>0. PICK r \in Runtimes : Returns(r) \/ LastReturns(r)
    BY <1>5 DEF Returning
  <2>1. CASE Returns(r)
    BY <2>1 DEF Returns
  <2>2. CASE LastReturns(r)
    BY <2>2 DEF LastReturns
  <2> QED BY <2>0, <2>1, <2>2
<1>6. ASSUME NEW x \in rels, Leaving(x) PROVE Making'
  <2>1. UNCHANGED act /\ release' \subseteq release
    BY <1>6 DEF Leaving, Closes, GivesBack, Leaves, Stays
  <2> QED BY <2>1
<1>7. ASSUME NEW x \in warms, NEW r \in Runtimes, Warms(x, r) PROVE Making'
  <2>1. UNCHANGED <<act, release>>
    BY <1>7, WarmKeeps
  <2> QED BY <2>1
<1> QED BY <1>1, <1>2, <1>3, <1>4, <1>5, <1>6, <1>7 DEF Formed

\* A step that leaves the shares alone.
LEMMA SharesStay == ASSUME SharesCounted, UNCHANGED <<pool, release>>,
                           \A r \in release : key'[r] = key[r],
                           \A b \in Activators : act'[b] = act[b] \/ {act[b].pc, act'[b].pc} \cap {"install"} = {},
                           \A b \in Activators : act[b].pc = "install" => key'[act[b].rt] = key[act[b].rt]
                    PROVE SharesCounted'
<1> SUFFICES ASSUME NEW v \in Voices
             PROVE (pool[v].refs = Cardinality(SharersOf(v)) + Cardinality(TakersOf(v)))'
  BY DEF SharesCounted, SharersOf, TakersOf
<1>3. SharersOf(v)' = SharersOf(v)
  BY DEF SharersOf, VoiceFor
<1>4. \A b \in Activators : (act'[b].pc = "install" /\ VoiceFor(act[b].rt)' = v)
                              <=> (act[b].pc = "install" /\ VoiceFor(act[b].rt) = v)
  BY DEF VoiceFor
<1>5. TakersOf(v)' = TakersOf(v)
  BY <1>4 DEF TakersOf, VoiceFor
<1>1. SharersOf(v)' = SharersOf(v) /\ TakersOf(v)' = TakersOf(v)
  BY <1>3, <1>5
<1>2. pool[v].refs = Cardinality(SharersOf(v)) + Cardinality(TakersOf(v))
  BY DEF SharesCounted, SharersOf, TakersOf
<1> QED BY <1>1, <1>2

LEMMA SharesStep == ASSUME PoolTypes, Made, Making, SharesCounted, Formed PROVE SharesCounted'
<1>0. act \in [Activators -> [pc : PoolSteps, rt : Nat, engine : Nat]] /\ release \subseteq Runtimes
      /\ pool \in [Voices -> [engine : Nat, refs : Nat]]
  BY DEF PoolTypes
<1>b. \A w \in Voices : pool[w].refs = Cardinality(SharersOf(w)) + Cardinality(TakersOf(w))
  BY DEF SharesCounted, SharersOf, TakersOf
<1>c. \A w : /\ IsFiniteSet(SharersOf(w)) /\ Cardinality(SharersOf(w)) \in Nat
             /\ IsFiniteSet(TakersOf(w)) /\ Cardinality(TakersOf(w)) \in Nat
  BY SharersFinite, FS_CardinalityType
<1>d. (\A w \in Voices : (pool[w].refs = Cardinality(SharersOf(w)) + Cardinality(TakersOf(w)))') => SharesCounted'
  BY DEF SharesCounted, SharersOf, TakersOf
<1>1. ASSUME NEW a \in Activators, Asking(a) PROVE SharesCounted'
  <2>0. PICK k \in Keys : AskOld(a, k) \/ AskNew(a, k)
    BY <1>1 DEF Asking
  <2>1. CASE AskOld(a, k)
    <3>1. UNCHANGED <<pool, release, key>>
      BY <2>1 DEF AskOld
    <3>2. \A b \in Activators : act'[b] = act[b] \/ {act[b].pc, act'[b].pc} \cap {"install"} = {}
      BY <2>1, <1>0 DEF AskOld
    <3> QED BY <3>1, <3>2, SharesStay
  <2>2. CASE AskNew(a, k)
    <3>1. UNCHANGED <<pool, release>>
      BY <2>2 DEF AskNew
    <3>2. \A s \in release : key'[s] = key[s]
      <4>1. made + 1 \notin release
        BY DEF Made, PoolTypes, Runtimes
      <4> QED BY <2>2, <1>0, <4>1 DEF AskNew, PoolTypes
    <3>3. \A b \in Activators : act'[b] = act[b] \/ {act[b].pc, act'[b].pc} \cap {"install"} = {}
      BY <2>2, <1>0 DEF AskNew
    <3>4. \A b \in Activators : act[b].pc = "install" => key'[act[b].rt] = key[act[b].rt]
      <4>1. \A b \in Activators : act[b].pc = "install" => act[b].rt \in Runtimes /\ act[b].rt # made + 1
        BY Named DEF Made, PoolTypes
      <4> QED BY <2>2, <4>1 DEF AskNew, PoolTypes
    <3> QED BY <3>1, <3>2, <3>3, <3>4, SharesStay
  <2> QED BY <2>0, <2>1, <2>2
<1>2. ASSUME NEW a \in Activators, Taking(a) PROVE SharesCounted'
  <2>0. PICK r \in Runtimes, v \in Voices :
           TakeOld(a, r, v) \/ TakeNew(a, r, v) \/ TakeNone(a, r) \/ Installs(a, r)
    BY <1>2 DEF Taking
  <2>1. CASE TakeOld(a, r, v)
    <3>1. pool'[v].refs = pool[v].refs + 1 /\ UNCHANGED <<release, key>>
          /\ \A w \in Voices : w # v => pool'[w].refs = pool[w].refs
      BY <2>1, <1>0 DEF TakeOld
    <3>2. \A w \in Voices : SharersOf(w)' = SharersOf(w)
      BY <3>1 DEF SharersOf, VoiceFor
    <3>3. \A w \in Voices : TakersOf(w)' = IF w = v THEN TakersOf(v) \cup {a} ELSE TakersOf(w)
      BY <2>1, <1>0, <3>1 DEF TakeOld, TakersOf, VoiceFor
    <3>4. a \notin TakersOf(v)
      BY <2>1 DEF TakeOld, TakersOf
    <3>5. Cardinality(TakersOf(v) \cup {a}) = Cardinality(TakersOf(v)) + 1
      BY <1>c, <3>4, FS_AddElement
    <3>6. \A w \in Voices : Cardinality(SharersOf(w))' = Cardinality(SharersOf(w))
          /\ Cardinality(TakersOf(w))' = IF w = v THEN Cardinality(TakersOf(w)) + 1 ELSE Cardinality(TakersOf(w))
      BY <3>2, <3>3, <3>5
    <3>7. \A w \in Voices : (pool[w].refs = Cardinality(SharersOf(w)) + Cardinality(TakersOf(w)))'
      BY <1>b, <1>c, <3>1, <3>6
    <3> QED BY <3>7, <1>d
  <2>2. CASE TakeNew(a, r, v)
    <3>1. pool'[v].refs = pool[v].refs + 1 /\ UNCHANGED <<release, key>>
          /\ \A w \in Voices : w # v => pool'[w].refs = pool[w].refs
      BY <2>2, <1>0 DEF TakeNew
    <3>2. \A w \in Voices : SharersOf(w)' = SharersOf(w)
      BY <3>1 DEF SharersOf, VoiceFor
    <3>3. \A w \in Voices : TakersOf(w)' = IF w = v THEN TakersOf(v) \cup {a} ELSE TakersOf(w)
      BY <2>2, <1>0, <3>1 DEF TakeNew, TakersOf, VoiceFor
    <3>4. a \notin TakersOf(v)
      BY <2>2 DEF TakeNew, TakersOf
    <3>5. Cardinality(TakersOf(v) \cup {a}) = Cardinality(TakersOf(v)) + 1
      BY <1>c, <3>4, FS_AddElement
    <3>6. \A w \in Voices : Cardinality(SharersOf(w))' = Cardinality(SharersOf(w))
          /\ Cardinality(TakersOf(w))' = IF w = v THEN Cardinality(TakersOf(w)) + 1 ELSE Cardinality(TakersOf(w))
      BY <3>2, <3>3, <3>5
    <3>7. \A w \in Voices : (pool[w].refs = Cardinality(SharersOf(w)) + Cardinality(TakersOf(w)))'
      BY <1>b, <1>c, <3>1, <3>6
    <3> QED BY <3>7, <1>d
  <2>3. CASE TakeNone(a, r)
    <3>1. UNCHANGED <<pool, release, key>>
      BY <2>3 DEF TakeNone
    <3>2. \A b \in Activators : act'[b] = act[b] \/ {act[b].pc, act'[b].pc} \cap {"install"} = {}
      BY <2>3, <1>0 DEF TakeNone
    <3> QED BY <3>1, <3>2, SharesStay
  <2>4. CASE Installs(a, r)
    <3>0. PICK u \in Voices : u = VoiceFor(r)
      BY Spoken
    <3>1. UNCHANGED <<pool, key>> /\ release' = release \cup {r} /\ r \notin release
      BY <2>4 DEF Installs, Making, Early
    <3>2. \A w \in Voices : SharersOf(w)' = IF w = u THEN SharersOf(u) \cup {r} ELSE SharersOf(w)
      BY <3>0, <3>1 DEF SharersOf, VoiceFor
    <3>3. \A w \in Voices : TakersOf(w)' = IF w = u THEN TakersOf(u) \ {a} ELSE TakersOf(w)
      BY <2>4, <1>0, <3>0, <3>1 DEF Installs, TakersOf, VoiceFor
    <3>4. a \in TakersOf(u) /\ r \notin SharersOf(u)
      BY <2>4, <3>0, <3>1 DEF Installs, TakersOf, SharersOf
    <3>5. Cardinality(TakersOf(u) \ {a}) = Cardinality(TakersOf(u)) - 1
          /\ Cardinality(SharersOf(u) \cup {r}) = Cardinality(SharersOf(u)) + 1
      BY <1>c, <3>4, FS_AddElement, FS_RemoveElement
    <3>6. \A w \in Voices :
              /\ Cardinality(SharersOf(w))' = IF w = u THEN Cardinality(SharersOf(w)) + 1 ELSE Cardinality(SharersOf(w))
              /\ Cardinality(TakersOf(w))' = IF w = u THEN Cardinality(TakersOf(w)) - 1 ELSE Cardinality(TakersOf(w))
      BY <3>2, <3>3, <3>5
    <3>7. \A w \in Voices : (pool[w].refs = Cardinality(SharersOf(w)) + Cardinality(TakersOf(w)))'
      BY <1>b, <1>c, <3>1, <3>6
    <3> QED BY <3>7, <1>d
  <2> QED BY <2>0, <2>1, <2>2, <2>3, <2>4
<1>3. ASSUME NEW a \in Activators, Counting(a) PROVE SharesCounted'
  <2>0. PICK r \in Runtimes : Counts(a, r)
    BY <1>3 DEF Counting
  <2>1. CASE Counts(a, r)
    <3>1. \A b \in Activators : act'[b] = act[b] \/ {act[b].pc, act'[b].pc} \cap {"install"} = {}
      BY <2>1, <1>0 DEF Counts, CallCounts, PinCounts, Idle
    <3>2. UNCHANGED <<pool, release, key>>
      BY <2>1 DEF Counts
    <3> QED BY <3>1, <3>2, SharesStay
  <2> QED BY <2>0, <2>1
<1>4. ASSUME Pinning PROVE SharesCounted'
  <2>0. PICK r \in Runtimes, v \in Voices : PinMore(r) \/ PinSet(r, v) \/ Unpin(v, r)
    BY <1>4 DEF Pinning
  <2>1. CASE PinMore(r)
    <3>1. UNCHANGED <<pool, release, key>>
      BY <2>1 DEF PinMore
    <3>2. \A b \in Activators : act'[b] = act[b] \/ {act[b].pc, act'[b].pc} \cap {"install"} = {}
      BY <2>1, <1>0 DEF PinMore, Idle
    <3> QED BY <3>1, <3>2, SharesStay
  <2>2. CASE PinSet(r, v)
    <3>1. UNCHANGED <<pool, release, key>>
      BY <2>2 DEF PinSet
    <3>2. \A b \in Activators : act'[b] = act[b] \/ {act[b].pc, act'[b].pc} \cap {"install"} = {}
      BY <2>2, <1>0 DEF PinSet, Idle
    <3> QED BY <3>1, <3>2, SharesStay
  <2>3. CASE Unpin(v, r)
    <3>1. UNCHANGED <<pool, release, key>>
      BY <2>3 DEF Unpin
    <3>2. \A b \in Activators : act'[b] = act[b] \/ {act[b].pc, act'[b].pc} \cap {"install"} = {}
      BY <2>3, <1>0 DEF Unpin
    <3> QED BY <3>1, <3>2, SharesStay
  <2> QED BY <2>0, <2>1, <2>2, <2>3
<1>5. ASSUME Returning PROVE SharesCounted'
  <2>0. PICK r \in Runtimes : Returns(r) \/ LastReturns(r)
    BY <1>5 DEF Returning
  <2>1. CASE Returns(r)
    <3>1. UNCHANGED <<pool, release, key>>
      BY <2>1 DEF Returns
    <3>2. \A b \in Activators : act'[b] = act[b] \/ {act[b].pc, act'[b].pc} \cap {"install"} = {}
      BY <2>1, <1>0 DEF Returns
    <3> QED BY <3>1, <3>2, SharesStay
  <2>2. CASE LastReturns(r)
    <3>1. UNCHANGED <<pool, release, key>>
      BY <2>2 DEF LastReturns
    <3>2. \A b \in Activators : act'[b] = act[b] \/ {act[b].pc, act'[b].pc} \cap {"install"} = {}
      BY <2>2, <1>0 DEF LastReturns
    <3> QED BY <3>1, <3>2, SharesStay
  <2> QED BY <2>0, <2>1, <2>2
<1>6. ASSUME NEW x \in rels, Leaving(x) PROVE SharesCounted'
  <2>0. PICK r \in Runtimes, v \in Voices :
           Closes(x) \/ GivesBack(x, r, v) \/ Leaves(x, r) \/ Stays(x, r)
    BY <1>6 DEF Leaving
  <2>1. CASE Closes(x)
    <3>1. UNCHANGED <<pool, release, key>>
      BY <2>1 DEF Closes
    <3>2. \A b \in Activators : act'[b] = act[b] \/ {act[b].pc, act'[b].pc} \cap {"install"} = {}
      BY <2>1, <1>0 DEF Closes
    <3> QED BY <3>1, <3>2, SharesStay
  <2>2. CASE GivesBack(x, r, v)
    <3>1. pool'[v].refs = pool[v].refs - 1 /\ UNCHANGED <<key, act>> /\ VoiceFor(r) = v
          /\ release' = release \ {r} /\ r \in release
          /\ \A w \in Voices : w # v => pool'[w].refs = pool[w].refs
      BY <2>2, <1>0 DEF GivesBack
    <3>2. \A w \in Voices : TakersOf(w)' = TakersOf(w)
      BY <3>1 DEF TakersOf, VoiceFor
    <3>3. \A w \in Voices : SharersOf(w)' = IF w = v THEN SharersOf(v) \ {r} ELSE SharersOf(w)
      BY <3>1 DEF SharersOf, VoiceFor
    <3>4. r \in SharersOf(v)
      BY <3>1 DEF SharersOf
    <3>5. Cardinality(SharersOf(v) \ {r}) = Cardinality(SharersOf(v)) - 1
      BY <1>c, <3>4, FS_RemoveElement
    <3>6. \A w \in Voices : Cardinality(TakersOf(w))' = Cardinality(TakersOf(w))
          /\ Cardinality(SharersOf(w))' = IF w = v THEN Cardinality(SharersOf(w)) - 1 ELSE Cardinality(SharersOf(w))
      BY <3>2, <3>3, <3>5
    <3>7. \A w \in Voices : (pool[w].refs = Cardinality(SharersOf(w)) + Cardinality(TakersOf(w)))'
      BY <1>b, <1>c, <3>1, <3>6
    <3> QED BY <3>7, <1>d
  <2>3. CASE Leaves(x, r)
    <3>1. UNCHANGED <<pool, release, key>>
      BY <2>3 DEF Leaves
    <3>2. \A b \in Activators : act'[b] = act[b] \/ {act[b].pc, act'[b].pc} \cap {"install"} = {}
      BY <2>3, <1>0 DEF Leaves
    <3> QED BY <3>1, <3>2, SharesStay
  <2>4. CASE Stays(x, r)
    <3>1. UNCHANGED <<pool, release, key>>
      BY <2>4 DEF Stays
    <3>2. \A b \in Activators : act'[b] = act[b] \/ {act[b].pc, act'[b].pc} \cap {"install"} = {}
      BY <2>4, <1>0 DEF Stays
    <3> QED BY <3>1, <3>2, SharesStay
  <2> QED BY <2>0, <2>1, <2>2, <2>3, <2>4
<1>7. ASSUME NEW x \in warms, NEW r \in Runtimes, Warms(x, r) PROVE SharesCounted'
  <2>1. UNCHANGED <<pool, release, key, act>>
    BY <1>7, WarmKeeps
  <2> QED BY <2>1, SharesStay
<1> QED BY <1>1, <1>2, <1>3, <1>4, <1>5, <1>6, <1>7 DEF Formed

-----------------------------------------------------------------------------
(* Every activation that was begun makes at most one runtime, takes at most one
   share, adds one reference and starts at most two engines, one of them in a
   warm-up.  Hence the bounds. *)
Untaken(a) == Bit(a \in Activators /\ act[a].pc = "worker")
Taken(a)   == Bit(a \in Activators /\ act[a].pc \in {"install", "activate"})
Unused     == Untaken("calls") + Untaken("pin")
Used       == Taken("calls") + Taken("pin")
Acquiring  == {x \in warms : x.pc = "acquire"}

Budget ==
    /\ \A r \in Runtimes : refs[r] + Unused + Used <= started
    /\ \A r \in Runtimes : gen[r] + Unused + Used <= started
    /\ \A v \in Voices : pool[v].refs + Unused <= started
    /\ engines + 2 * Unused + Used + Cardinality(Acquiring) <= 2 * started

LEMMA BudgetInit == PoolInit => Budget
<1> SUFFICES ASSUME PoolInit PROVE Budget
  OBVIOUS
<1>1. Unused = 0 /\ Used = 0
  BY DEF PoolInit, Idle, Unused, Used, Untaken, Taken, Bit
<1>2. Acquiring = {} /\ started = 0 /\ engines = 0
  BY DEF PoolInit, Acquiring
<1>3. Cardinality(Acquiring) = 0
  BY <1>2, FS_EmptySet
<1>4. (\A r \in Runtimes : refs[r] = 0 /\ gen[r] = 0) /\ \A v \in Voices : pool[v].refs = 0
  BY DEF PoolInit
<1> QED BY <1>1, <1>2, <1>3, <1>4 DEF Budget

LEMMA WorkTyped == Unused \in Nat /\ Used \in Nat
<1> QED BY DEF Unused, Used, Untaken, Taken, Bit

LEMMA AcquiringTyped == ASSUME PoolTypes PROVE IsFiniteSet(Acquiring) /\ Cardinality(Acquiring) \in Nat
<1>1. Acquiring \subseteq warms
  BY DEF Acquiring
<1> QED BY <1>1, FS_Subset, FS_CardinalityType DEF PoolTypes

LEMMA BudgetStep == ASSUME PoolTypes, Made, Wired, Budget, SharesCounted, Formed PROVE Budget'
<1>0. act \in [Activators -> [pc : PoolSteps, rt : Nat, engine : Nat]]
  BY DEF PoolTypes
<1>b. /\ refs \in [Runtimes -> Nat] /\ gen \in [Runtimes -> Nat] /\ engines \in Nat /\ started \in Nat
      /\ \A v \in Voices : pool[v].refs \in Nat
  BY DEF PoolTypes
<1>c. Unused \in Nat /\ Used \in Nat /\ Cardinality(Acquiring) \in Nat
  BY WorkTyped, AcquiringTyped
<1>d. \A b : Untaken(b) \in {0, 1} /\ Taken(b) \in {0, 1}
  BY DEF Untaken, Taken, Bit
<1>e. /\ \A r \in Runtimes : refs[r] + Unused + Used <= started
      /\ \A r \in Runtimes : gen[r] + Unused + Used <= started
      /\ \A v \in Voices : pool[v].refs + Unused <= started
      /\ engines + 2 * Unused + Used + Cardinality(Acquiring) <= 2 * started
  BY DEF Budget
<1>f. (UNCHANGED warms) => Cardinality(Acquiring)' = Cardinality(Acquiring)
  BY DEF Acquiring
<1>1. ASSUME NEW a \in Activators, Asking(a) PROVE Budget'
  <2>0. PICK k \in Keys : AskOld(a, k) \/ AskNew(a, k)
    BY <1>1 DEF Asking
  <2>1. CASE AskOld(a, k)
    <3>1. a \in {"calls", "pin"} /\ Untaken(a) = 0 /\ Taken(a) = 0 /\ Untaken(a)' = 0 /\ Taken(a)' = 1
      BY <2>1, <1>0, SpeechAssumption DEF AskOld, Untaken, Taken, Bit
    <3>2. \A b : b # a => Untaken(b)' = Untaken(b) /\ Taken(b)' = Taken(b)
      BY <2>1, <1>0 DEF AskOld, Untaken, Taken
    <3>3. Unused' = Unused  /\ Used' = Used + 1
      BY <3>1, <3>2, <1>d DEF Unused, Used
    <3> QED BY <2>1, <1>b, <1>c, <1>e, <1>f, <3>3 DEF AskOld, Budget
  <2>2. CASE AskNew(a, k)
    <3>1. a \in {"calls", "pin"} /\ Untaken(a) = 0 /\ Taken(a) = 0 /\ Untaken(a)' = 1 /\ Taken(a)' = 0
      BY <2>2, <1>0, SpeechAssumption DEF AskNew, Untaken, Taken, Bit
    <3>2. \A b : b # a => Untaken(b)' = Untaken(b) /\ Taken(b)' = Taken(b)
      BY <2>2, <1>0 DEF AskNew, Untaken, Taken
    <3>3. Unused' = Unused + 1 /\ Used' = Used 
      BY <3>1, <3>2, <1>d DEF Unused, Used
    <3> QED BY <2>2, <1>b, <1>c, <1>e, <1>f, <3>3 DEF AskNew, Budget
  <2> QED BY <2>0, <2>1, <2>2
<1>2. ASSUME NEW a \in Activators, Taking(a) PROVE Budget'
  <2>0. PICK r \in Runtimes, v \in Voices :
           TakeOld(a, r, v) \/ TakeNew(a, r, v) \/ TakeNone(a, r) \/ Installs(a, r)
    BY <1>2 DEF Taking
  <2>1. CASE TakeOld(a, r, v)
    <3>1. a \in {"calls", "pin"} /\ Untaken(a) = 1 /\ Taken(a) = 0 /\ Untaken(a)' = 0 /\ Taken(a)' = 1
      BY <2>1, <1>0, SpeechAssumption DEF TakeOld, Untaken, Taken, Bit
    <3>2. \A b : b # a => Untaken(b)' = Untaken(b) /\ Taken(b)' = Taken(b)
      BY <2>1, <1>0 DEF TakeOld, Untaken, Taken
    <3>3. Unused' = Unused - 1 /\ Used' = Used + 1
      BY <3>1, <3>2, <1>d DEF Unused, Used
    <3>4. \A w \in Voices : pool'[w].refs \in {pool[w].refs, pool[w].refs + 1}
      BY <2>1, <1>b DEF TakeOld, PoolTypes
    <3>5. UNCHANGED <<refs, gen, engines, started, warms>>
      BY <2>1 DEF TakeOld
    <3> QED BY <1>b, <1>c, <1>e, <1>f, <3>3, <3>4, <3>5 DEF Budget
  <2>2. CASE TakeNew(a, r, v)
    <3>1. a \in {"calls", "pin"} /\ Untaken(a) = 1 /\ Taken(a) = 0 /\ Untaken(a)' = 0 /\ Taken(a)' = 1
      BY <2>2, <1>0, SpeechAssumption DEF TakeNew, Untaken, Taken, Bit
    <3>2. \A b : b # a => Untaken(b)' = Untaken(b) /\ Taken(b)' = Taken(b)
      BY <2>2, <1>0 DEF TakeNew, Untaken, Taken
    <3>3. Unused' = Unused - 1 /\ Used' = Used + 1
      BY <3>1, <3>2, <1>d DEF Unused, Used
    <3>4. \A w \in Voices : pool'[w].refs \in {pool[w].refs, pool[w].refs + 1}
      BY <2>2, <1>b DEF TakeNew, PoolTypes
    <3>5. UNCHANGED <<refs, gen, started, warms>> /\ engines' = engines + 1
      BY <2>2 DEF TakeNew
    <3> QED BY <1>b, <1>c, <1>e, <1>f, <3>3, <3>4, <3>5 DEF Budget
  <2>3. CASE TakeNone(a, r)
    <3>1. a \in {"calls", "pin"} /\ Untaken(a) = 1 /\ Taken(a) = 0 /\ Untaken(a)' = 0 /\ Taken(a)' = 1
      BY <2>3, <1>0, SpeechAssumption DEF TakeNone, Untaken, Taken, Bit
    <3>2. \A b : b # a => Untaken(b)' = Untaken(b) /\ Taken(b)' = Taken(b)
      BY <2>3, <1>0 DEF TakeNone, Untaken, Taken
    <3>3. Unused' = Unused - 1 /\ Used' = Used + 1
      BY <3>1, <3>2, <1>d DEF Unused, Used
    <3> QED BY <2>3, <1>b, <1>c, <1>e, <1>f, <3>3 DEF TakeNone, Budget
  <2>4. CASE Installs(a, r)
    <3>1. \A b : Untaken(b)' = Untaken(b) /\ Taken(b)' = Taken(b)
      BY <2>4, <1>0 DEF Installs, Untaken, Taken, Idle
    <3>2. Unused' = Unused /\ Used' = Used
      BY <3>1 DEF Unused, Used
    <3> QED BY <2>4, <1>b, <1>c, <1>e, <1>f, <3>2 DEF Installs, Budget
  <2> QED BY <2>0, <2>1, <2>2, <2>3, <2>4
<1>3. ASSUME NEW a \in Activators, Counting(a) PROVE Budget'
  <2>0. PICK r \in Runtimes : Counts(a, r)
    BY <1>3 DEF Counting
  <2>1. CASE Counts(a, r)
    <3>1. a \in {"calls", "pin"} /\ Untaken(a) = 0 /\ Taken(a) = 1 /\ Untaken(a)' = 0 /\ Taken(a)' = 0
      BY <2>1, <1>0, SpeechAssumption DEF Counts, CallCounts, PinCounts, Idle, Untaken, Taken, Bit
    <3>2. \A b : b # a => Untaken(b)' = Untaken(b) /\ Taken(b)' = Taken(b)
      BY <2>1, <1>0 DEF Counts, CallCounts, PinCounts, Untaken, Taken
    <3>3. Unused' = Unused /\ Used' = Used - 1
      BY <3>1, <3>2, <1>d DEF Unused, Used
    <3>4. \A s \in Runtimes : refs'[s] <= refs[s] + 1 /\ gen'[s] <= gen[s] + 1
      BY <2>1, <1>b DEF Counts, First, Another
    <3>5. Cardinality(Acquiring)' <= Cardinality(Acquiring) + 1
      <4>1. CASE First(r)
        <5>1. PICK x : x = [rt |-> r, gen |-> gen[r] + 1, pc |-> "acquire", engine |-> 0, owned |-> FALSE]
          OBVIOUS
        <5>2. Acquiring' = Acquiring \cup {x}
          BY <4>1, <5>1 DEF First, Acquiring
        <5>3. Cardinality(Acquiring \cup {x}) \in {Cardinality(Acquiring), Cardinality(Acquiring) + 1}
          BY AcquiringTyped, FS_AddElement
        <5> QED BY <5>2, <5>3, <1>c
      <4>2. CASE Another(r)
        BY <4>2, <1>c, <1>f DEF Another
      <4> QED BY <2>1, <4>1, <4>2 DEF Counts
    <3>6. UNCHANGED <<pool, engines, started>>
      BY <2>1 DEF Counts
    <3>7. (\A s \in Runtimes : refs'[s] \in Nat /\ gen'[s] \in Nat) /\ Cardinality(Acquiring)' \in Nat
      <4>0. IsFiniteSet(warms)
        BY DEF PoolTypes
      <4>1. IsFiniteSet(warms')
        <5>1. CASE First(r)
          <6>1. PICK x : x = [rt |-> r, gen |-> gen[r] + 1, pc |-> "acquire", engine |-> 0, owned |-> FALSE]
            OBVIOUS
          <6>2. warms' = warms \cup {x}
            BY <5>1, <6>1 DEF First
          <6> QED BY <4>0, <6>2, FS_AddElement
        <5>2. CASE Another(r)
          BY <4>0, <5>2 DEF Another
        <5> QED BY <2>1, <5>1, <5>2 DEF Counts
      <4>2. Acquiring' \subseteq warms'
        BY DEF Acquiring
      <4>3. Cardinality(Acquiring)' \in Nat
        BY <4>1, <4>2, FS_Subset, FS_CardinalityType
      <4>4. \A s \in Runtimes : refs'[s] \in Nat /\ gen'[s] \in Nat
        BY <2>1, <1>b DEF Counts, First, Another
      <4> QED BY <4>3, <4>4
    <3>8. (\A s \in Runtimes : refs'[s] + Unused' + Used' <= started' /\ gen'[s] + Unused' + Used' <= started')
          /\ \A v \in Voices : pool'[v].refs + Unused' <= started'
      BY <1>b, <1>c, <1>e, <3>3, <3>4, <3>6, <3>7
    <3>9. engines' + 2 * Unused' + Used' + Cardinality(Acquiring)' <= 2 * started'
      BY <1>b, <1>c, <1>e, <3>3, <3>5, <3>6, <3>7
    <3> QED BY <3>8, <3>9 DEF Budget
  <2> QED BY <2>0, <2>1
<1>4. ASSUME Pinning PROVE Budget'
  <2>0. PICK r \in Runtimes, v \in Voices : PinMore(r) \/ PinSet(r, v) \/ Unpin(v, r)
    BY <1>4 DEF Pinning
  <2>1. CASE PinMore(r)
    <3>1. \A b : Untaken(b)' = Untaken(b) /\ Taken(b)' = Taken(b)
      BY <2>1, <1>0 DEF PinMore, Untaken, Taken, Idle
    <3>2. Unused' = Unused /\ Used' = Used
      BY <3>1 DEF Unused, Used
    <3> QED BY <2>1, <1>b, <1>c, <1>e, <1>f, <3>2 DEF PinMore, Budget
  <2>2. CASE PinSet(r, v)
    <3>1. \A b : Untaken(b)' = Untaken(b) /\ Taken(b)' = Taken(b)
      BY <2>2, <1>0 DEF PinSet, Untaken, Taken, Idle
    <3>2. Unused' = Unused /\ Used' = Used
      BY <3>1 DEF Unused, Used
    <3> QED BY <2>2, <1>b, <1>c, <1>e, <1>f, <3>2 DEF PinSet, Budget
  <2>3. CASE Unpin(v, r)
    <3>1. \A b : Untaken(b)' = Untaken(b) /\ Taken(b)' = Taken(b)
      BY <2>3, <1>0 DEF Unpin, Untaken, Taken, Idle
    <3>2. Unused' = Unused /\ Used' = Used
      BY <3>1 DEF Unused, Used
    <3> QED BY <2>3, <1>b, <1>c, <1>e, <1>f, <3>2 DEF Unpin, Budget
  <2> QED BY <2>0, <2>1, <2>2, <2>3
<1>5. ASSUME Returning PROVE Budget'
  <2>0. PICK r \in Runtimes : Returns(r) \/ LastReturns(r)
    BY <1>5 DEF Returning
  <2>1. CASE Returns(r)
    <3>1. \A b : Untaken(b)' = Untaken(b) /\ Taken(b)' = Taken(b)
      BY <2>1, <1>0 DEF Returns, Untaken, Taken, Idle
    <3>2. Unused' = Unused /\ Used' = Used
      BY <3>1 DEF Unused, Used
    <3>3. \A s \in Runtimes : refs'[s] <= refs[s] /\ refs'[s] \in Int
      BY <2>1, <1>b DEF Returns
    <3>4. UNCHANGED <<gen, pool, engines, started, warms>>
      BY <2>1 DEF Returns
    <3> QED BY <1>b, <1>c, <1>e, <1>f, <3>2, <3>3, <3>4 DEF Budget
  <2>2. CASE LastReturns(r)
    <3>1. \A b : Untaken(b)' = Untaken(b) /\ Taken(b)' = Taken(b)
      BY <2>2, <1>0 DEF LastReturns, Untaken, Taken, Idle
    <3>2. Unused' = Unused /\ Used' = Used
      BY <3>1 DEF Unused, Used
    <3>3. \A s \in Runtimes : refs'[s] <= refs[s] /\ refs'[s] \in Int
      BY <2>2, <1>b DEF LastReturns
    <3>4. UNCHANGED <<gen, pool, engines, started, warms>>
      BY <2>2 DEF LastReturns
    <3> QED BY <1>b, <1>c, <1>e, <1>f, <3>2, <3>3, <3>4 DEF Budget
  <2> QED BY <2>0, <2>1, <2>2
<1>6. ASSUME NEW x \in rels, Leaving(x) PROVE Budget'
  <2>0. PICK r \in Runtimes, v \in Voices :
           Closes(x) \/ GivesBack(x, r, v) \/ Leaves(x, r) \/ Stays(x, r)
    BY <1>6 DEF Leaving
  <2>1. CASE Closes(x)
    <3>1. \A b : Untaken(b)' = Untaken(b) /\ Taken(b)' = Taken(b)
      BY <2>1, <1>0 DEF Closes, Untaken, Taken, Idle
    <3>2. Unused' = Unused /\ Used' = Used
      BY <3>1 DEF Unused, Used
    <3> QED BY <2>1, <1>b, <1>c, <1>e, <1>f, <3>2 DEF Closes, Budget
  <2>2. CASE GivesBack(x, r, v)
    <3>1. \A b : Untaken(b)' = Untaken(b) /\ Taken(b)' = Taken(b)
      BY <2>2, <1>0 DEF GivesBack, Untaken, Taken, Idle
    <3>2. Unused' = Unused /\ Used' = Used
      BY <3>1 DEF Unused, Used
    <3>3. \A w \in Voices : pool'[w].refs \in Int /\ pool'[w].refs <= pool[w].refs
      BY <2>2, <1>b DEF GivesBack, PoolTypes
    <3>4. UNCHANGED <<gen, refs, engines, started, warms>>
      BY <2>2 DEF GivesBack
    <3> QED BY <1>b, <1>c, <1>e, <1>f, <3>2, <3>3, <3>4 DEF Budget
  <2>3. CASE Leaves(x, r)
    <3>1. \A b : Untaken(b)' = Untaken(b) /\ Taken(b)' = Taken(b)
      BY <2>3, <1>0 DEF Leaves, Untaken, Taken, Idle
    <3>2. Unused' = Unused /\ Used' = Used
      BY <3>1 DEF Unused, Used
    <3> QED BY <2>3, <1>b, <1>c, <1>e, <1>f, <3>2 DEF Leaves, Budget
  <2>4. CASE Stays(x, r)
    <3>1. \A b : Untaken(b)' = Untaken(b) /\ Taken(b)' = Taken(b)
      BY <2>4, <1>0 DEF Stays, Untaken, Taken, Idle
    <3>2. Unused' = Unused /\ Used' = Used
      BY <3>1 DEF Unused, Used
    <3> QED BY <2>4, <1>b, <1>c, <1>e, <1>f, <3>2 DEF Stays, Budget
  <2> QED BY <2>0, <2>1, <2>2, <2>3, <2>4
<1>7. ASSUME NEW x \in warms, NEW r \in Runtimes, Warms(x, r) PROVE Budget'
  <2>1. UNCHANGED <<refs, gen, pool, act, started>>
    BY <1>7, WarmKeeps
  <2>2. Unused' = Unused /\ Used' = Used
    BY <2>1 DEF Unused, Used, Untaken, Taken
  <2>3. CASE WarmTakes(x, r) \/ WarmMakes(x, r) \/ WarmFails(x, r)
    <3>1. Acquiring' = Acquiring \ {x} /\ x \in Acquiring
      BY <2>3 DEF WarmTakes, WarmMakes, WarmFails, Acquiring, Warmed
    <3>2. Cardinality(Acquiring \ {x}) = Cardinality(Acquiring) - 1
      BY <3>1, AcquiringTyped, FS_RemoveElement
    <3>3. engines' \in {engines, engines + 1}
      BY <2>3 DEF WarmTakes, WarmMakes, WarmFails
    <3> QED BY <1>b, <1>c, <1>e, <2>1, <2>2, <3>1, <3>2, <3>3 DEF Budget
  <2>4. CASE WarmPuts(x, r) \/ WarmGoes(x, r) \/ WarmAnswers(x, r) \/ WarmDrops(x, r) \/ WarmBreaks(x, r)
    <3>1. Acquiring' = Acquiring /\ UNCHANGED engines
      BY <2>4 DEF WarmPuts, WarmGoes, WarmAnswers, WarmDrops, WarmBreaks, Acquiring, Warmed
    <3> QED BY <1>b, <1>c, <1>e, <2>1, <2>2, <3>1 DEF Budget
  <2> QED BY <1>7, <2>3, <2>4 DEF Warms
<1> QED BY <1>1, <1>2, <1>3, <1>4, <1>5, <1>6, <1>7 DEF Formed

LEMMA CountedStep == ASSUME PoolCounted, PoolNext PROVE PoolCounted'
<1>1. Formed
  BY EveryForm DEF PoolCounted
<1> QED BY <1>1, TypesStep, MadeStep, BuiltStep, WiredStep, LeasesStep, MakingStep, SharesStep
        DEF PoolCounted

LEMMA CountedKept == PoolSpec => [](PoolCounted /\ Budget)
<1>1. PoolInit => PoolCounted /\ Budget
  BY CountedInit, BudgetInit
<1>2. PoolCounted /\ Budget /\ [PoolNext]_poolVars => (PoolCounted /\ Budget)'
  <2> SUFFICES ASSUME PoolCounted, Budget, [PoolNext]_poolVars PROVE (PoolCounted /\ Budget)'
    OBVIOUS
  <2>1. CASE PoolNext
    <3>1. Formed
      BY <2>1, EveryForm DEF PoolCounted
    <3>2. Budget'
      BY <3>1, BudgetStep DEF PoolCounted
    <3> QED BY <2>1, <3>2, CountedStep
  <2>2. CASE UNCHANGED poolVars
    <3> USE <2>2 DEF poolVars, mapVars, runtimeVars, engineVars
    <3>1. PoolTypes' /\ Made' /\ Built'
      <4>1. PoolTypes'
        BY DEF PoolCounted, PoolTypes
      <4>2. Made'
        BY DEF PoolCounted, Made
      <4>3. Built'
        BY DEF PoolCounted, Built
      <4> QED BY <4>1, <4>2, <4>3
    <3>2. Wired' /\ Leases' /\ Making'
      <4>1. Wired'
        BY DEF PoolCounted, Wired, VoiceFor
      <4>2. Leases'
        BY LeasesStay DEF PoolCounted
      <4>3. Making'
        BY DEF PoolCounted, Making, Early
      <4> QED BY <4>1, <4>2, <4>3
    <3>3. SharesCounted'
      BY SharesStay DEF PoolCounted
    <3>4. Unused' = Unused /\ Used' = Used /\ Acquiring' = Acquiring
      BY DEF Unused, Used, Untaken, Taken, Acquiring
    <3>5. Budget'
      BY <3>4 DEF Budget
    <3> QED BY <3>1, <3>2, <3>3, <3>5 DEF PoolCounted
  <2> QED BY <2>1, <2>2
<1> QED BY <1>1, <1>2, PTL DEF PoolSpec

(* PoolTypeOK: the pool's maps, counts and tables stay what they are, and the
   bounds on runtimes and engines hold (RuntimePool, Runtime). *)
THEOREM PoolTypeCorrect == PoolSpec => []PoolTypeOK
<1>1. PoolCounted /\ Budget => PoolTypeOK
  <2> SUFFICES ASSUME PoolCounted, Budget PROVE PoolTypeOK
    OBVIOUS
  <2>1. /\ Unused \in Nat /\ Used \in Nat /\ Cardinality(Acquiring) \in Nat
        /\ engines \in Nat /\ started \in Nat /\ MaxActivations \in Nat /\ started <= MaxActivations
        /\ made \in Nat /\ made <= started
    BY WorkTyped, AcquiringTyped, SpeechAssumption DEF PoolCounted, PoolTypes, Made
  <2>2. engines <= 2 * MaxActivations
    BY <2>1 DEF Budget
  <2>3. \A i \in Nat : i <= made => i \in {0} \cup Runtimes
    BY <2>1 DEF Runtimes
  <2>4. \A i \in Nat : i <= engines => i \in {0} \cup Engines
    BY <2>1, <2>2 DEF Engines
  <2>5. \A i \in Nat : i + Unused + Used <= started => i \in 0..MaxActivations
    BY <2>1
  <2>6. \A i \in Nat : i + Unused <= started => i \in 0..MaxActivations
    BY <2>1
  <2>7. slot \in [Keys -> {0} \cup Runtimes] /\ pinned \in [Voices -> {0} \cup Runtimes]
    BY <2>3 DEF PoolCounted, PoolTypes, Made
  <2>8. pool \in [Voices -> [engine : {0} \cup Engines, refs : 0..MaxActivations]]
    <3>1. \A v \in Voices : pool[v].engine \in {0} \cup Engines /\ pool[v].refs \in 0..MaxActivations
      <4>1. \A v \in Voices : pool[v].engine \in Nat /\ pool[v].refs \in Nat /\ pool[v].engine <= engines
        BY DEF PoolCounted, PoolTypes, Built
      <4> QED BY <4>1, <2>4, <2>6 DEF Budget
    <3> HIDE DEF Engines
    <3> QED BY <3>1 DEF PoolCounted, PoolTypes
  <2>9. act \in [Activators -> [pc : {"idle", "worker", "install", "activate", "pin"},
                               rt : {0} \cup Runtimes, engine : {0} \cup Engines]]
    <3>1. \A a \in Activators : act[a].rt \in {0} \cup Runtimes /\ act[a].engine \in {0} \cup Engines
      <4>1. \A a \in Activators : act[a].rt \in Nat /\ act[a].engine \in Nat
                                   /\ act[a].rt <= made /\ act[a].engine <= engines
        BY DEF PoolCounted, PoolTypes, Made, Built
      <4> QED BY <4>1, <2>3, <2>4
    <3> QED BY <3>1 DEF PoolCounted, PoolTypes, PoolSteps
  <2>10. refs \in [Runtimes -> 0..MaxActivations] /\ gen \in [Runtimes -> 0..MaxActivations]
    <3>1. \A r \in Runtimes : refs[r] \in 0..MaxActivations /\ gen[r] \in 0..MaxActivations
      BY <2>5 DEF PoolCounted, PoolTypes, Budget
    <3> QED BY <3>1 DEF PoolCounted, PoolTypes
  <2>11. loose \in [Runtimes -> 0..MaxActivations] /\ ready \in [Runtimes -> 0..MaxActivations]
    <3>1. \A r \in Runtimes : refs[r] \in 0..MaxActivations /\ gen[r] \in 0..MaxActivations
      BY <2>5 DEF PoolCounted, PoolTypes, Budget
    <3>2. \A r \in Runtimes : ready[r] \in 0..MaxActivations
      BY <2>1, <3>1 DEF PoolCounted, Wired
    <3>3. \A r \in Runtimes : loose[r] \in 0..MaxActivations
      <4> TAKE r \in Runtimes
      <4>1. refs[r] = loose[r] + Pinned(r) + Pending(r) /\ loose[r] \in Nat
        BY DEF PoolCounted, PoolTypes, Leases
      <4>2. Pinned(r) \in Nat /\ Pending(r) \in Nat
        BY BitsAre
      <4> QED BY <2>1, <3>1, <4>1, <4>2
    <3> QED BY <3>2, <3>3 DEF PoolCounted, PoolTypes
  <2>12. worker \in [Runtimes -> {0} \cup Engines] /\ closed \subseteq 1..engines
    <3>1. \A r \in Runtimes : worker[r] \in {0} \cup Engines
      <4>1. \A r \in Runtimes : worker[r] \in Nat /\ worker[r] <= engines
        BY DEF PoolCounted, PoolTypes, Built
      <4> QED BY <2>4, <4>1
    <3>2. \A e \in closed : e \in 1..engines
      BY <2>1 DEF PoolCounted, PoolTypes, Built
    <3> QED BY <3>1, <3>2 DEF PoolCounted, PoolTypes
  <2>13. engines \in 0..(2 * MaxActivations) /\ made \in 0..MaxActivations /\ started \in 0..MaxActivations
    BY <2>1, <2>2
  <2> QED BY <2>7, <2>8, <2>9, <2>10, <2>11, <2>12, <2>13 DEF PoolTypeOK, PoolCounted, PoolTypes
<1> QED BY <1>1, CountedKept, PTL

-----------------------------------------------------------------------------
(* As long as nothing crossed, a runtime is made, used, torn down and gone, and
   never taken up again: it has one warm-up, one teardown and one engine. *)
Here(r) == slot[key[r]] = r
Torn(r) == \E x \in rels : x.rt = r

Once == \A r \in Runtimes :
    /\ gen[r] <= 1
    /\ refs[r] > 0 => gen[r] = 1 /\ ready[r] = 1 /\ Here(r)
    /\ refs[r] = 0 => ready[r] = 0 /\ tts[r] = "none"

Placed ==
    /\ \A a \in Activators : Early(a) => gen[act[a].rt] = 0 /\ worker[act[a].rt] = 0
    /\ \A r \in Runtimes : r <= made /\ gen[r] = 0 => Here(r)
    /\ \A r \in Runtimes : refs[r] = 0 /\ gen[r] = 1 => Torn(r) \/ ~Here(r)

Single ==
    /\ \A x \in rels : refs[x.rt] = 0 /\ gen[x.rt] = 1
    /\ \A x, y \in rels : x.rt = y.rt => x = y
    /\ \A x, y \in warms : x.rt = y.rt => x = y

(* A runtime that will give a share back is in its slot, and in use, being torn
   down or about to be used; while in use its engine is the shared one. *)
Wanted(r) == \E a \in Activators : act[a].pc = "activate" /\ act[a].rt = r
Sharing == \A r \in Runtimes :
    /\ r \in release => Here(r) /\ (refs[r] > 0 \/ Torn(r) \/ (gen[r] = 0 /\ Wanted(r)))
    /\ r \in release /\ (refs[r] > 0 \/ gen[r] = 0) => worker[r] = pool[VoiceFor(r)].engine
    /\ worker[r] # 0 => refs[r] > 0 \/ (r \in release /\ gen[r] = 0)

Lent ==
    /\ \A a \in Activators : act[a].pc = "install"
                                => act[a].engine = pool[VoiceFor(act[a].rt)].engine
    /\ \A v \in Voices : pool[v].refs > 0 => pool[v].engine \notin closed
    /\ \A v, w \in Voices : pool[v].refs > 0 /\ pool[w].refs > 0
                               /\ pool[v].engine = pool[w].engine => v = w

(* An engine of a runtime's own: installed, in its teardown or with its warm-up. *)
Owns(r, e) ==
    \/ r \notin release /\ worker[r] = e
    \/ \E x \in rels : x.rt = r /\ x.engine = e
    \/ \E x \in warms : x.rt = r /\ x.owned /\ x.engine = e

Apart ==
    /\ \A e \in Nat \ {0}, r, s \in Runtimes : Owns(r, e) /\ Owns(s, e) => r = s
    /\ \A v \in Voices, r \in Runtimes : pool[v].refs > 0 => ~Owns(r, pool[v].engine)

Open == \A r \in Runtimes : r \notin release /\ worker[r] # 0 => worker[r] \notin closed

(* Where the warm-up of a runtime in use is, and what it holds. *)
WarmFine(x) ==
    /\ x.pc = "acquire" => ~x.owned
    /\ Current(x) => tts[x.rt] = "waiting"
    /\ Current(x) /\ x.pc = "acquire" => worker[x.rt] = 0 \/ x.rt \in release
    /\ Current(x) /\ x.pc = "install" /\ x.owned => worker[x.rt] = 0 /\ x.engine \notin closed
    /\ Current(x) /\ x.pc = "install" /\ ~x.owned => worker[x.rt] = x.engine
    /\ Current(x) /\ x.pc \in {"check", "synth"} => worker[x.rt] = x.engine
    /\ Current(x) /\ x.pc # "acquire" => (x.owned <=> x.rt \notin release)
Warming == \A x \in warms : WarmFine(x)

(* An owned engine that was installed is there, being closed or closed. *)
Kept == \A x \in warms : x.owned /\ x.pc \in {"check", "synth"} =>
    \/ x.engine \in closed
    \/ x.rt \notin release /\ worker[x.rt] = x.engine
    \/ \E y \in rels : y.rt = x.rt /\ y.engine = x.engine

Answered == \A r \in Runtimes :
    /\ tts[r] = "ok" => worker[r] # 0
    /\ tts[r] = "waiting" => \E x \in warms : x.rt = r /\ Current(x)

Accounted == \A e \in 1..engines :
    \/ e \in closed
    \/ \E v \in Voices : pool[v].refs > 0 /\ pool[v].engine = e
    \/ \E r \in Runtimes : Owns(r, e)

Lives     == Once /\ Placed /\ Single
Uncrossed == Lives /\ Sharing /\ Lent /\ Apart /\ Open /\ Warming /\ Kept /\ Answered /\ Accounted

LEMMA UncrossedInit == PoolInit => Uncrossed
<1> SUFFICES ASSUME PoolInit PROVE Uncrossed
  OBVIOUS
<1>0. Runtimes \subseteq Nat \ {0}
  BY DEF Runtimes
<1>1. Lives
  BY <1>0 DEF PoolInit, Idle, Lives, Once, Placed, Single, Early, Here, Torn
<1>2. Sharing /\ Lent /\ Open /\ Warming /\ Kept /\ Answered
  BY <1>0 DEF PoolInit, Idle, Sharing, Lent, Open, Warming, Kept, Answered
<1>3. \A e \in Nat \ {0}, r \in Runtimes : ~Owns(r, e)
  BY DEF PoolInit, Owns
<1>4. Apart /\ Accounted
  BY <1>3 DEF PoolInit, Apart, Accounted
<1> QED BY <1>1, <1>2, <1>4 DEF Uncrossed

\* The warm-up of a runtime in use is its only one, and any other is too late.
LEMMA WarmNumbers == ASSUME PoolTypes, Made, Wired, Once, NEW x \in warms
                     PROVE /\ x.rt \in Runtimes /\ gen[x.rt] = 1 /\ x.gen = 1
                           /\ Current(x) <=> refs[x.rt] > 0
<1>1. x.rt \in Runtimes /\ x.gen \in Nat /\ gen[x.rt] \in Nat /\ refs[x.rt] \in Nat
  BY DEF PoolTypes, Warmups
<1>2. 1 <= x.gen /\ x.gen <= gen[x.rt] /\ gen[x.rt] <= 1
  BY <1>1 DEF Wired, Once
<1>3. gen[x.rt] = 1 /\ x.gen = 1
  BY <1>1, <1>2
<1> QED BY <1>1, <1>3 DEF Once, Current

\* An activation that holds a share is counted.
LEMMA TakerTaken == ASSUME PoolTypes, Made, SharesCounted, NEW a \in Activators, act[a].pc = "install"
                    PROVE VoiceFor(act[a].rt) \in Voices /\ pool[VoiceFor(act[a].rt)].refs > 0
<1> DEFINE v == VoiceFor(act[a].rt)
<1>1. v \in Voices
  BY Named, Spoken
<1>2. pool[v].refs = Cardinality(SharersOf(v)) + Cardinality(TakersOf(v))
  BY <1>1 DEF SharesCounted, SharersOf, TakersOf
<1>3. IsFiniteSet(SharersOf(v)) /\ IsFiniteSet(TakersOf(v))
  BY SharersFinite
<1>4. a \in TakersOf(v)
  BY DEF TakersOf
<1>5. Cardinality(SharersOf(v)) \in Nat /\ Cardinality(TakersOf(v)) \in Nat
  BY <1>3, FS_CardinalityType
<1>6. Cardinality(TakersOf(v)) # 0
  BY <1>3, <1>4, FS_EmptySet
<1> QED BY <1>1, <1>2, <1>5, <1>6

\* The next engine is not in use anywhere.
LEMMA FreshEngine == ASSUME PoolTypes, Built
               PROVE /\ engines + 1 \notin closed
                     /\ \A v \in Voices : pool[v].engine # engines + 1
                     /\ \A r \in Runtimes, e \in Nat \ {0} : Owns(r, e) => e <= engines
<1>1. engines \in Nat /\ (\A v \in Voices : pool[v].engine \in Nat)
      /\ (\A r \in Runtimes : worker[r] \in Nat)
  BY DEF PoolTypes
<1>2. engines + 1 \notin closed /\ \A v \in Voices : pool[v].engine # engines + 1
  BY <1>1 DEF Built
<1>3. \A r \in Runtimes, e \in Nat \ {0} : Owns(r, e) => e <= engines
  BY DEF Owns, Built
<1> QED BY <1>2, <1>3

\* An uncrossed activation finds its runtime alone, in use or never used.
LEMMA Uncrossing == ASSUME PoolTypes, Made, Once, Placed, NEW a \in Activators, NEW r \in Runtimes,
                           Counts(a, r), ~crossed'
                    PROVE /\ Here(r) /\ ~Torn(r)
                          /\ \A b \in Activators : act[b].rt = r => b = a \/ act[b].pc = "pin"
                          /\ refs[r] = 0 => gen[r] = 0
<1>1. crossed' = (crossed \/ Crosses(a, r)) /\ crossed \in BOOLEAN
  BY DEF Counts, PoolTypes
<1>2. ~Crosses(a, r)
  BY <1>1
<1>3. Here(r) /\ ~Torn(r) /\ \A b \in Activators : act[b].rt = r => b = a \/ act[b].pc = "pin"
  BY <1>2 DEF Crosses, Here, Torn
<1>4. refs[r] = 0 => gen[r] = 0
  <2>1. refs[r] = 0 => gen[r] # 1
    BY <1>3 DEF Placed
  <2>2. gen[r] \in Nat /\ gen[r] <= 1
    BY DEF PoolTypes, Once
  <2> QED BY <2>1, <2>2
<1> QED BY <1>3, <1>4

-----------------------------------------------------------------------------
LEMMA OnceStep == ASSUME PoolTypes, Made, Built, Wired, Leases, Making, SharesCounted, Once,
                         Placed, ~crossed', Formed
                  PROVE Once'
<1>0. /\ act \in [Activators -> [pc : PoolSteps, rt : Nat, engine : Nat]]
      /\ slot \in [Keys -> Nat] /\ key \in [Runtimes -> Keys] /\ refs \in [Runtimes -> Nat]
      /\ loose \in [Runtimes -> Nat] /\ gen \in [Runtimes -> Nat] /\ ready \in [Runtimes -> Nat]
      /\ worker \in [Runtimes -> Nat] /\ tts \in [Runtimes -> {"none", "waiting", "ok", "failed"}]
      /\ pool \in [Voices -> [engine : Nat, refs : Nat]] /\ release \subseteq Runtimes
      /\ rels \subseteq [rt : Runtimes, engine : Nat] /\ warms \subseteq Warmups
      /\ made \in Nat /\ Runtimes \subseteq Nat \ {0}
  BY DEF PoolTypes, Runtimes
<1>1. ASSUME NEW a \in Activators, Asking(a) PROVE Once'
  <2>0. PICK k \in Keys : AskOld(a, k) \/ AskNew(a, k)
    BY <1>1 DEF Asking
  <2>1. CASE AskOld(a, k)
    BY <2>1, <1>0 DEF AskOld, Once, Here
  <2>2. CASE AskNew(a, k)
    <3>0. PICK n : n = made + 1
      OBVIOUS
    <3>1. n \in Runtimes /\ made' = n
      BY <2>2, <3>0, NextRuntime DEF AskNew
    <3>2. /\ slot' = [slot EXCEPT ![k] = n] /\ slot[k] = 0
          /\ key' = [key EXCEPT ![n] = k]
          /\ act' = [act EXCEPT ![a] = [pc |-> "worker", rt |-> n, engine |-> 0]]
      BY <2>2, <3>0 DEF AskNew
    <3>3. UNCHANGED <<pool, pinned, refs, loose, worker, release, ready, gen, tts, warms,
                      rels, closed, engines, crossed>>
      BY <2>2 DEF AskNew
    <3>4. (\A s \in Runtimes : s # n => (Here(s)' <=> Here(s))) /\ Here(n)'
      <4>1. k \in Keys /\ key'[n] = k /\ slot'[k] = n
        BY <2>0, <1>0, <3>1, <3>2
      <4>2. \A s \in Runtimes : s # n => key'[s] = key[s] /\ key[s] \in Keys
        BY <1>0, <3>1, <3>2
      <4>3. \A j \in Keys : j # k => slot'[j] = slot[j]
        BY <1>0, <3>2
      <4> QED BY <1>0, <3>1, <3>2, <4>1, <4>2, <4>3 DEF Here
    <3>5. gen[n] = 0 /\ refs[n] = 0 /\ worker[n] = 0
      BY <1>0, <3>0, <3>1 DEF Made
    <3> QED BY <1>0, <3>1, <3>3, <3>4, <3>5 DEF Once
  <2> QED BY <2>0, <2>1, <2>2
<1>2. ASSUME NEW a \in Activators, Taking(a) PROVE Once'
  <2>0. PICK r \in Runtimes, v \in Voices :
           TakeOld(a, r, v) \/ TakeNew(a, r, v) \/ TakeNone(a, r) \/ Installs(a, r)
    BY <1>2 DEF Taking
  <2>1. CASE TakeOld(a, r, v)
    BY <2>1, <1>0 DEF TakeOld, Once, Here
  <2>2. CASE TakeNew(a, r, v)
    BY <2>2, <1>0 DEF TakeNew, Once, Here
  <2>3. CASE TakeNone(a, r)
    BY <2>3, <1>0 DEF TakeNone, Once, Here
  <2>4. CASE Installs(a, r)
    BY <2>4, <1>0 DEF Installs, Once, Here
  <2> QED BY <2>0, <2>1, <2>2, <2>3, <2>4
<1>3. ASSUME NEW a \in Activators, Counting(a) PROVE Once'
  <2>0. PICK r \in Runtimes : Counts(a, r)
    BY <1>3 DEF Counting
  <2>1. CASE Counts(a, r)
    <3>1. Here(r) /\ (refs[r] = 0 => gen[r] = 0)
      BY <2>1, Uncrossing
    <3>2. UNCHANGED <<slot, key>>
      BY <2>1 DEF Counts
    <3>3. CASE First(r)
      BY <1>0, <3>1, <3>2, <3>3 DEF Once, Here, First
    <3>4. CASE Another(r)
      BY <1>0, <3>1, <3>2, <3>4 DEF Once, Here, Another
    <3> QED BY <2>1, <3>3, <3>4 DEF Counts
  <2> QED BY <2>0, <2>1
<1>4. ASSUME Pinning PROVE Once'
  <2>0. PICK r \in Runtimes, v \in Voices : PinMore(r) \/ PinSet(r, v) \/ Unpin(v, r)
    BY <1>4 DEF Pinning
  <2>1. CASE PinMore(r)
    BY <2>1, <1>0 DEF PinMore, Once, Here
  <2>2. CASE PinSet(r, v)
    BY <2>2, <1>0 DEF PinSet, Once, Here
  <2>3. CASE Unpin(v, r)
    BY <2>3, <1>0 DEF Unpin, Once, Here
  <2> QED BY <2>0, <2>1, <2>2, <2>3
<1>5. ASSUME Returning PROVE Once'
  <2>0. PICK r \in Runtimes : Returns(r) \/ LastReturns(r)
    BY <1>5 DEF Returning
  <2>1. CASE Returns(r)
    <3>1. refs[r] > 0
      BY <2>1, LeaseTaken DEF Returns
    <3> QED BY <2>1, <1>0, <3>1 DEF Returns, Once, Here
  <2>2. CASE LastReturns(r)
    BY <2>2, <1>0 DEF LastReturns, Once, Here
  <2> QED BY <2>0, <2>1, <2>2
<1>6. ASSUME NEW x \in rels, Leaving(x) PROVE Once'
  <2>0. PICK r \in Runtimes, v \in Voices :
           Closes(x) \/ GivesBack(x, r, v) \/ Leaves(x, r) \/ Stays(x, r)
    BY <1>6 DEF Leaving
  <2>1. CASE Closes(x)
    BY <2>1, <1>0 DEF Closes, Once, Here
  <2>2. CASE GivesBack(x, r, v)
    <3>1. /\ slot' = [slot EXCEPT ![key[r]] = 0] /\ UNCHANGED <<key, refs, loose, worker, ready, gen, tts, warms, act, made, engines>>
          /\ rels' = rels \ {x} /\ refs[r] = 0 /\ Here(r) /\ x.rt = r
      BY <2>2 DEF GivesBack, Here
    <3>2. (\A s \in Runtimes : s # r => (Here(s)' <=> Here(s))) /\ ~Here(r)'
      BY <1>0, <3>1 DEF Here
    <3> QED BY <1>0, <3>1, <3>2 DEF Once
  <2>3. CASE Leaves(x, r)
    <3>1. /\ slot' = [slot EXCEPT ![key[r]] = 0] /\ UNCHANGED <<key, refs, loose, worker, ready, gen, tts, warms, act, made, engines>>
          /\ rels' = rels \ {x} /\ refs[r] = 0 /\ Here(r) /\ x.rt = r
      BY <2>3 DEF Leaves, Here
    <3>2. (\A s \in Runtimes : s # r => (Here(s)' <=> Here(s))) /\ ~Here(r)'
      BY <1>0, <3>1 DEF Here
    <3> QED BY <1>0, <3>1, <3>2 DEF Once
  <2>4. CASE Stays(x, r)
    BY <2>4, <1>0 DEF Stays, Once, Here
  <2> QED BY <2>0, <2>1, <2>2, <2>3, <2>4
<1>7. ASSUME NEW x \in warms, NEW r \in Runtimes, Warms(x, r) PROVE Once'
  <2>1. UNCHANGED <<slot, key, refs, gen, ready>> /\ x.rt = r
    BY <1>7, WarmKeeps
  <2>2. \A s \in Runtimes : tts'[s] = tts[s] \/ (s = r /\ Current(x))
    BY <1>7, <1>0 DEF Warms, WarmTakes, WarmMakes, WarmPuts, WarmGoes, WarmAnswers, WarmFails, WarmDrops, WarmBreaks
  <2>3. Current(x) => refs[r] > 0
    BY <2>1, WarmNumbers
  <2> QED BY <1>0, <2>1, <2>2, <2>3 DEF Once, Here
<1> QED BY <1>1, <1>2, <1>3, <1>4, <1>5, <1>6, <1>7 DEF Formed

LEMMA PlacedStep == ASSUME PoolTypes, Made, Built, Wired, Leases, Making, SharesCounted,
                           Once, Placed, Single, ~crossed', Formed
                    PROVE Placed'
<1>0. /\ act \in [Activators -> [pc : PoolSteps, rt : Nat, engine : Nat]]
      /\ slot \in [Keys -> Nat] /\ key \in [Runtimes -> Keys] /\ refs \in [Runtimes -> Nat]
      /\ loose \in [Runtimes -> Nat] /\ gen \in [Runtimes -> Nat] /\ ready \in [Runtimes -> Nat]
      /\ worker \in [Runtimes -> Nat] /\ tts \in [Runtimes -> {"none", "waiting", "ok", "failed"}]
      /\ pool \in [Voices -> [engine : Nat, refs : Nat]] /\ release \subseteq Runtimes
      /\ rels \subseteq [rt : Runtimes, engine : Nat] /\ warms \subseteq Warmups
      /\ made \in Nat /\ Runtimes \subseteq Nat \ {0}
  BY DEF PoolTypes, Runtimes
<1>1. ASSUME NEW a \in Activators, Asking(a) PROVE Placed'
  <2>0. PICK k \in Keys : AskOld(a, k) \/ AskNew(a, k)
    BY <1>1 DEF Asking
  <2>1. CASE AskOld(a, k)
    BY <2>1, <1>0 DEF AskOld, Placed, Early, Here, Torn
  <2>2. CASE AskNew(a, k)
    <3>0. PICK n : n = made + 1
      OBVIOUS
    <3>1. n \in Runtimes /\ made' = n
      BY <2>2, <3>0, NextRuntime DEF AskNew
    <3>2. /\ slot' = [slot EXCEPT ![k] = n] /\ slot[k] = 0
          /\ key' = [key EXCEPT ![n] = k]
          /\ act' = [act EXCEPT ![a] = [pc |-> "worker", rt |-> n, engine |-> 0]]
      BY <2>2, <3>0 DEF AskNew
    <3>3. UNCHANGED <<pool, pinned, refs, loose, worker, release, ready, gen, tts, warms,
                      rels, closed, engines, crossed>>
      BY <2>2 DEF AskNew
    <3>4. (\A s \in Runtimes : s # n => (Here(s)' <=> Here(s))) /\ Here(n)'
      <4>1. k \in Keys /\ key'[n] = k /\ slot'[k] = n
        BY <2>0, <1>0, <3>1, <3>2
      <4>2. \A s \in Runtimes : s # n => key'[s] = key[s] /\ key[s] \in Keys
        BY <1>0, <3>1, <3>2
      <4>3. \A j \in Keys : j # k => slot'[j] = slot[j]
        BY <1>0, <3>2
      <4> QED BY <1>0, <3>1, <3>2, <4>1, <4>2, <4>3 DEF Here
    <3>5. gen[n] = 0 /\ refs[n] = 0 /\ worker[n] = 0
      BY <1>0, <3>0, <3>1 DEF Made
    <3>6. \A s \in Runtimes : s <= n /\ s # n => s <= made
      BY <1>0, <3>0
    <3>7. \A b \in Activators : act[b].rt # n
      BY <1>0, <3>0 DEF Made
    <3>8. \A b \in Activators : Early(b)' => gen'[act'[b].rt] = 0 /\ worker'[act'[b].rt] = 0
      BY <1>0, <3>2, <3>3, <3>5 DEF Placed, Early
    <3>9. (\A s \in Runtimes : s <= made /\ gen[s] = 0 => Here(s))'
      <4> SUFFICES ASSUME NEW s \in Runtimes, s <= made', gen'[s] = 0 PROVE Here(s)'
        OBVIOUS
      <4>1. CASE s = n
        BY <4>1, <3>4
      <4>2. CASE s # n
        BY <4>2, <1>0, <3>1, <3>3, <3>4, <3>6 DEF Placed
      <4> QED BY <4>1, <4>2
    <3>10. (\A s \in Runtimes : refs[s] = 0 /\ gen[s] = 1 => Torn(s) \/ ~Here(s))'
      BY <1>0, <3>3, <3>4, <3>5 DEF Placed, Torn
    <3> QED BY <3>8, <3>9, <3>10 DEF Placed
  <2> QED BY <2>0, <2>1, <2>2
<1>2. ASSUME NEW a \in Activators, Taking(a) PROVE Placed'
  <2>0. PICK r \in Runtimes, v \in Voices :
           TakeOld(a, r, v) \/ TakeNew(a, r, v) \/ TakeNone(a, r) \/ Installs(a, r)
    BY <1>2 DEF Taking
  <2>1. CASE TakeOld(a, r, v)
    BY <2>1, <1>0 DEF TakeOld, Placed, Early, Here, Torn
  <2>2. CASE TakeNew(a, r, v)
    BY <2>2, <1>0 DEF TakeNew, Placed, Early, Here, Torn
  <2>3. CASE TakeNone(a, r)
    BY <2>3, <1>0 DEF TakeNone, Placed, Early, Here, Torn
  <2>4. CASE Installs(a, r)
    <3>1. \A b \in Activators : Early(b) /\ act[b].rt = r => b = a
      BY <2>4 DEF Installs, Making, Early
    <3>2. \A b \in Activators : Early(b)' => Early(b) /\ act'[b] = act[b] /\ b # a
      BY <2>4, <1>0 DEF Installs, Early
    <3>3. \A b \in Activators : Early(b)' => gen'[act'[b].rt] = 0 /\ worker'[act'[b].rt] = 0
      BY <2>4, <1>0, <3>1, <3>2 DEF Installs, Placed
    <3> QED BY <2>4, <3>3 DEF Installs, Placed, Here, Torn
  <2> QED BY <2>0, <2>1, <2>2, <2>3, <2>4
<1>3. ASSUME NEW a \in Activators, Counting(a) PROVE Placed'
  <2>0. PICK r \in Runtimes : Counts(a, r)
    BY <1>3 DEF Counting
  <2>1. CASE Counts(a, r)
    <3>1. Here(r) /\ (refs[r] = 0 => gen[r] = 0)
          /\ \A b \in Activators : act[b].rt = r => b = a \/ act[b].pc = "pin"
      BY <2>1, Uncrossing
    <3>2. UNCHANGED <<slot, key, rels, worker, made>> /\ act[a].rt = r
      BY <2>1 DEF Counts
    <3>3. \A b \in Activators : Early(b)' => Early(b) /\ act'[b] = act[b] /\ act[b].rt # r
      BY <2>1, <1>0, <3>1 DEF Counts, CallCounts, PinCounts, Early, Idle
    <3>4. /\ \A t \in Runtimes : t # r => gen'[t] = gen[t] /\ refs'[t] = refs[t]
          /\ refs'[r] # 0 /\ gen'[r] >= gen[r] /\ gen'[r] \in Nat
      BY <2>1, <1>0 DEF Counts, First, Another
    <3>5. \A b \in Activators : Early(b) => act[b].rt \in Runtimes
      BY Named DEF Early
    <3>6. \A b \in Activators : Early(b)' => gen'[act'[b].rt] = 0 /\ worker'[act'[b].rt] = 0
      BY <3>2, <3>3, <3>4, <3>5 DEF Placed
    <3>7. (\A t \in Runtimes : t <= made /\ gen[t] = 0 => Here(t))'
      BY <1>0, <3>1, <3>2, <3>4 DEF Placed, Here
    <3>8. (\A t \in Runtimes : refs[t] = 0 /\ gen[t] = 1 => Torn(t) \/ ~Here(t))'
      BY <1>0, <3>2, <3>4 DEF Placed, Torn, Here
    <3> QED BY <3>6, <3>7, <3>8 DEF Placed
  <2> QED BY <2>0, <2>1
<1>4. ASSUME Pinning PROVE Placed'
  <2>0. PICK r \in Runtimes, v \in Voices : PinMore(r) \/ PinSet(r, v) \/ Unpin(v, r)
    BY <1>4 DEF Pinning
  <2>1. CASE PinMore(r)
    <3>1. \A b \in Activators : Early(b)' => Early(b) /\ act'[b] = act[b]
      BY <2>1, <1>0 DEF PinMore, Early, Idle
    <3> QED BY <2>1, <1>0, <3>1 DEF PinMore, Placed, Here, Torn
  <2>2. CASE PinSet(r, v)
    <3>1. \A b \in Activators : Early(b)' => Early(b) /\ act'[b] = act[b]
      BY <2>2, <1>0 DEF PinSet, Early, Idle
    <3> QED BY <2>2, <1>0, <3>1 DEF PinSet, Placed, Here, Torn
  <2>3. CASE Unpin(v, r)
    BY <2>3, <1>0 DEF Unpin, Placed, Early, Here, Torn
  <2> QED BY <2>0, <2>1, <2>2, <2>3
<1>5. ASSUME Returning PROVE Placed'
  <2>0. PICK r \in Runtimes : Returns(r) \/ LastReturns(r)
    BY <1>5 DEF Returning
  <2>1. CASE Returns(r)
    <3>1. refs[r] > 0
      BY <2>1, LeaseTaken DEF Returns
    <3> QED BY <2>1, <1>0, <3>1 DEF Returns, Placed, Here, Torn, Early
  <2>2. CASE LastReturns(r)
    <3>1. /\ rels' = rels \cup {[rt |-> r, engine |-> OwnWorker(r)]}
          /\ worker' = [worker EXCEPT ![r] = 0] /\ refs' = [refs EXCEPT ![r] = 0]
          /\ UNCHANGED <<slot, act, key, gen, made>>
      BY <2>2 DEF LastReturns
    <3>0. PICK y : y = [rt |-> r, engine |-> OwnWorker(r)]
      OBVIOUS
    <3>2. Torn(r)' /\ \A s : Torn(s) => Torn(s)'
      <4>1. y.rt = r /\ rels' = rels \cup {y}
        BY <3>0, <3>1
      <4> QED BY <4>1 DEF Torn
    <3>3. (\A s \in Runtimes : refs[s] = 0 /\ gen[s] = 1 => Torn(s) \/ ~Here(s))'
      BY <1>0, <3>1, <3>2 DEF Placed, Here
    <3>4. (\A b \in Activators : Early(b) => gen[act[b].rt] = 0 /\ worker[act[b].rt] = 0)'
      BY <1>0, <3>1 DEF Placed, Early
    <3> QED BY <3>1, <3>3, <3>4 DEF Placed, Here
  <2> QED BY <2>0, <2>1, <2>2
<1>6. ASSUME NEW x \in rels, Leaving(x) PROVE Placed'
  <2>0. PICK r \in Runtimes, v \in Voices :
           Closes(x) \/ GivesBack(x, r, v) \/ Leaves(x, r) \/ Stays(x, r)
    BY <1>6 DEF Leaving
  <2>1. CASE Closes(x)
    BY <2>1, <1>0 DEF Closes, Placed, Early, Here, Torn
  <2>2. CASE GivesBack(x, r, v)
    <3>1. /\ slot' = [slot EXCEPT ![key[r]] = 0] /\ UNCHANGED <<key, refs, loose, worker, ready, gen, tts, warms, act, made, engines>>
          /\ rels' = rels \ {x} /\ refs[r] = 0 /\ Here(r) /\ x.rt = r
      BY <2>2 DEF GivesBack, Here
    <3>2. (\A s \in Runtimes : s # r => (Here(s)' <=> Here(s))) /\ ~Here(r)'
      BY <1>0, <3>1 DEF Here
    <3>3. gen[r] = 1 /\ \A s \in Runtimes : s # r /\ Torn(s) => Torn(s)'
      BY <3>1 DEF Single, Torn
    <3> QED BY <1>0, <3>1, <3>2, <3>3 DEF Placed, Early
  <2>3. CASE Leaves(x, r)
    <3>1. /\ slot' = [slot EXCEPT ![key[r]] = 0] /\ UNCHANGED <<key, refs, loose, worker, ready, gen, tts, warms, act, made, engines>>
          /\ rels' = rels \ {x} /\ refs[r] = 0 /\ Here(r) /\ x.rt = r
      BY <2>3 DEF Leaves, Here
    <3>2. (\A s \in Runtimes : s # r => (Here(s)' <=> Here(s))) /\ ~Here(r)'
      BY <1>0, <3>1 DEF Here
    <3>3. gen[r] = 1 /\ \A s \in Runtimes : s # r /\ Torn(s) => Torn(s)'
      BY <3>1 DEF Single, Torn
    <3> QED BY <1>0, <3>1, <3>2, <3>3 DEF Placed, Early
  <2>4. CASE Stays(x, r)
    <3>1. /\ UNCHANGED <<slot, key, refs, worker, gen, act, made>> /\ rels' = rels \ {x} /\ x.rt = r
          /\ ~(refs[r] = 0 /\ Here(r))
      BY <2>4 DEF Stays, Here
    <3>2. refs[r] = 0 /\ ~Here(r) /\ \A s \in Runtimes : s # r /\ Torn(s) => Torn(s)'
      BY <3>1 DEF Single, Torn
    <3> QED BY <1>0, <3>1, <3>2 DEF Placed, Early, Here
  <2> QED BY <2>0, <2>1, <2>2, <2>3, <2>4
<1>7. ASSUME NEW x \in warms, NEW r \in Runtimes, Warms(x, r) PROVE Placed'
  <2>1. UNCHANGED <<slot, key, refs, gen, rels, act, made>> /\ x.rt = r
    BY <1>7, WarmKeeps
  <2>2. \A s \in Runtimes : worker'[s] = worker[s] \/ s = r
    BY <1>7, <1>0 DEF Warms, WarmTakes, WarmMakes, WarmPuts, WarmGoes, WarmAnswers, WarmFails, WarmDrops, WarmBreaks
  <2>3. gen[r] = 1
    BY <2>1, WarmNumbers
  <2>4. \A b \in Activators : Early(b) => act[b].rt \in Runtimes
    BY Named DEF Early
  <2>5. (\A b \in Activators : Early(b) => gen[act[b].rt] = 0 /\ worker[act[b].rt] = 0)'
    BY <1>0, <2>1, <2>2, <2>3, <2>4 DEF Placed, Early
  <2> QED BY <2>1, <2>5 DEF Placed, Here, Torn
<1> QED BY <1>1, <1>2, <1>3, <1>4, <1>5, <1>6, <1>7 DEF Formed

LEMMA AloneStep == ASSUME PoolTypes, Made, Built, Wired, Leases, Making, SharesCounted,
                          Once, Placed, Single, ~crossed', Formed
                   PROVE Single'
<1>0. /\ act \in [Activators -> [pc : PoolSteps, rt : Nat, engine : Nat]]
      /\ slot \in [Keys -> Nat] /\ key \in [Runtimes -> Keys] /\ refs \in [Runtimes -> Nat]
      /\ loose \in [Runtimes -> Nat] /\ gen \in [Runtimes -> Nat] /\ ready \in [Runtimes -> Nat]
      /\ worker \in [Runtimes -> Nat] /\ tts \in [Runtimes -> {"none", "waiting", "ok", "failed"}]
      /\ pool \in [Voices -> [engine : Nat, refs : Nat]] /\ release \subseteq Runtimes
      /\ rels \subseteq [rt : Runtimes, engine : Nat] /\ warms \subseteq Warmups
      /\ made \in Nat /\ Runtimes \subseteq Nat \ {0}
  BY DEF PoolTypes, Runtimes
<1>1. ASSUME NEW a \in Activators, Asking(a) PROVE Single'
  <2>0. PICK k \in Keys : AskOld(a, k) \/ AskNew(a, k)
    BY <1>1 DEF Asking
  <2>1. CASE AskOld(a, k)
    BY <2>1, <1>0 DEF AskOld, Single
  <2>2. CASE AskNew(a, k)
    BY <2>2, <1>0 DEF AskNew, Single
  <2> QED BY <2>0, <2>1, <2>2
<1>2. ASSUME NEW a \in Activators, Taking(a) PROVE Single'
  <2>0. PICK r \in Runtimes, v \in Voices :
           TakeOld(a, r, v) \/ TakeNew(a, r, v) \/ TakeNone(a, r) \/ Installs(a, r)
    BY <1>2 DEF Taking
  <2>1. CASE TakeOld(a, r, v)
    BY <2>1, <1>0 DEF TakeOld, Single
  <2>2. CASE TakeNew(a, r, v)
    BY <2>2, <1>0 DEF TakeNew, Single
  <2>3. CASE TakeNone(a, r)
    BY <2>3, <1>0 DEF TakeNone, Single
  <2>4. CASE Installs(a, r)
    BY <2>4, <1>0 DEF Installs, Single
  <2> QED BY <2>0, <2>1, <2>2, <2>3, <2>4
<1>3. ASSUME NEW a \in Activators, Counting(a) PROVE Single'
  <2>0. PICK r \in Runtimes : Counts(a, r)
    BY <1>3 DEF Counting
  <2>1. CASE Counts(a, r)
    <3>1. ~Torn(r) /\ (refs[r] = 0 => gen[r] = 0)
      BY <2>1, Uncrossing
    <3>2. UNCHANGED rels /\ \A y \in rels : y.rt # r
      BY <2>1, <3>1 DEF Counts, Torn
    <3>3. \A t \in Runtimes : t # r => gen'[t] = gen[t] /\ refs'[t] = refs[t]
      BY <2>1, <1>0 DEF Counts, First, Another
    <3>4. (\A y \in rels : refs[y.rt] = 0 /\ gen[y.rt] = 1)'
      BY <1>0, <3>2, <3>3 DEF Single
    <3>5. CASE First(r)
      <4>1. \A y \in warms : y.rt # r
        BY <3>1, <3>5, WarmNumbers DEF First
      <4>0. PICK w : w = [rt |-> r, gen |-> gen[r] + 1, pc |-> "acquire", engine |-> 0, owned |-> FALSE]
        OBVIOUS
      <4>3. w.rt = r /\ warms' = warms \cup {w}
        BY <3>5, <4>0 DEF First
      <4>2. (\A y, z \in warms : y.rt = z.rt => y = z)'
        BY <4>1, <4>3 DEF Single
      <4> QED BY <3>2, <3>4, <4>2 DEF Single
    <3>6. CASE Another(r)
      BY <3>2, <3>4, <3>6 DEF Another, Single
    <3> QED BY <2>1, <3>5, <3>6 DEF Counts
  <2> QED BY <2>0, <2>1
<1>4. ASSUME Pinning PROVE Single'
  <2>0. PICK r \in Runtimes, v \in Voices : PinMore(r) \/ PinSet(r, v) \/ Unpin(v, r)
    BY <1>4 DEF Pinning
  <2>1. CASE PinMore(r)
    BY <2>1, <1>0 DEF PinMore, Single
  <2>2. CASE PinSet(r, v)
    BY <2>2, <1>0 DEF PinSet, Single
  <2>3. CASE Unpin(v, r)
    BY <2>3, <1>0 DEF Unpin, Single
  <2> QED BY <2>0, <2>1, <2>2, <2>3
<1>5. ASSUME Returning PROVE Single'
  <2>0. PICK r \in Runtimes : Returns(r) \/ LastReturns(r)
    BY <1>5 DEF Returning
  <2>1. CASE Returns(r)
    <3>1. refs[r] > 0
      BY <2>1, LeaseTaken DEF Returns
    <3> QED BY <2>1, <1>0, <3>1 DEF Returns, Single
  <2>2. CASE LastReturns(r)
    <3>1. /\ rels' = rels \cup {[rt |-> r, engine |-> OwnWorker(r)]} /\ refs[r] = 1
          /\ refs' = [refs EXCEPT ![r] = 0] /\ UNCHANGED <<gen, warms>>
      BY <2>2 DEF LastReturns
    <3>2. gen[r] = 1 /\ \A y \in rels : y.rt # r
      BY <1>0, <3>1 DEF Once, Single
    <3>3. (\A y \in rels : refs[y.rt] = 0 /\ gen[y.rt] = 1)'
      BY <1>0, <3>1, <3>2 DEF Single
    <3>4. (\A y, z \in rels : y.rt = z.rt => y = z)'
      BY <3>1, <3>2 DEF Single
    <3> QED BY <3>1, <3>3, <3>4 DEF Single
  <2> QED BY <2>0, <2>1, <2>2
<1>6. ASSUME NEW x \in rels, Leaving(x) PROVE Single'
  <2>1. UNCHANGED <<refs, gen, warms>> /\ rels' \subseteq rels
    BY <1>6 DEF Leaving, Closes, GivesBack, Leaves, Stays
  <2> QED BY <2>1 DEF Single
<1>7. ASSUME NEW x \in warms, NEW r \in Runtimes, Warms(x, r) PROVE Single'
  <2>1. UNCHANGED <<refs, gen, rels>> /\ x.rt = r
    BY <1>7, WarmKeeps
  <2>2. PICK X : X = warms \ {x}
    OBVIOUS
  <2>3. \/ warms' \subseteq X
        \/ \E y : y.rt = r /\ warms' = X \cup {y}
    BY <1>7, <2>2 DEF Warms, WarmTakes, WarmMakes, WarmPuts, WarmGoes, WarmAnswers, WarmFails, WarmDrops, WarmBreaks, Warmed
  <2>4. \A y \in X : y.rt # r /\ y \in warms
    BY <2>1, <2>2 DEF Single
  <2>5. (\A y, z \in warms : y.rt = z.rt => y = z)'
    BY <2>3, <2>4 DEF Single
  <2> QED BY <2>1, <2>5 DEF Single
<1> QED BY <1>1, <1>2, <1>3, <1>4, <1>5, <1>6, <1>7 DEF Formed

-----------------------------------------------------------------------------
(* What becomes of the engines: only a warm-up makes a new one of its own, *)
NewOwner(m) == \A s \in Runtimes, e \in Nat \ {0} :
    Owns(s, e)' => Owns(s, e) \/ (s = m /\ e = engines + 1 /\ UNCHANGED pool)

(* and an engine that is closed was not in use, nor will it be. *)
Done(e) ==
    /\ \A v \in Voices : pool'[v].refs > 0 => pool'[v].engine # e
    /\ \A s \in Runtimes : s \notin release' => worker'[s] # e
    /\ \A y \in warms' : y.owned /\ y.pc = "install" /\ Current(y)' => y.engine # e

LEMMA OwnsSame == ASSUME UNCHANGED <<worker, release, rels, warms>> PROVE \E m : NewOwner(m)
<1> QED BY DEF NewOwner, Owns

LEMMA OwnsAsBefore == ASSUME \A s \in Runtimes, e \in Nat \ {0} : Owns(s, e)' => Owns(s, e)
                      PROVE \E m : NewOwner(m)
<1> QED BY DEF NewOwner

LEMMA OwnsStep == ASSUME PoolTypes, Made, Built, Wired, Leases, Making, SharesCounted,
                         Lives, Sharing, Lent, Apart, Open, Warming, Kept, ~crossed', Formed
                  PROVE \E m : NewOwner(m)
<1>0. /\ act \in [Activators -> [pc : PoolSteps, rt : Nat, engine : Nat]]
      /\ slot \in [Keys -> Nat] /\ key \in [Runtimes -> Keys] /\ refs \in [Runtimes -> Nat]
      /\ loose \in [Runtimes -> Nat] /\ gen \in [Runtimes -> Nat] /\ ready \in [Runtimes -> Nat]
      /\ worker \in [Runtimes -> Nat] /\ tts \in [Runtimes -> {"none", "waiting", "ok", "failed"}]
      /\ pool \in [Voices -> [engine : Nat, refs : Nat]] /\ release \subseteq Runtimes
      /\ rels \subseteq [rt : Runtimes, engine : Nat] /\ warms \subseteq Warmups
      /\ made \in Nat /\ Runtimes \subseteq Nat \ {0}
  BY DEF PoolTypes, Runtimes
<1>1. ASSUME NEW a \in Activators, Asking(a) PROVE \E m : NewOwner(m)
  <2>0. PICK k \in Keys : AskOld(a, k) \/ AskNew(a, k)
    BY <1>1 DEF Asking
  <2>1. CASE AskOld(a, k)
    <3>1. UNCHANGED <<worker, release, rels, warms>>
      BY <2>1 DEF AskOld
    <3> QED BY <3>1, OwnsSame
  <2>2. CASE AskNew(a, k)
    <3>1. UNCHANGED <<worker, release, rels, warms>>
      BY <2>2 DEF AskNew
    <3> QED BY <3>1, OwnsSame
  <2> QED BY <2>0, <2>1, <2>2
<1>2. ASSUME NEW a \in Activators, Taking(a) PROVE \E m : NewOwner(m)
  <2>0. PICK r \in Runtimes, v \in Voices :
           TakeOld(a, r, v) \/ TakeNew(a, r, v) \/ TakeNone(a, r) \/ Installs(a, r)
    BY <1>2 DEF Taking
  <2>1. CASE TakeOld(a, r, v)
    <3>1. UNCHANGED <<worker, release, rels, warms>>
      BY <2>1 DEF TakeOld
    <3> QED BY <3>1, OwnsSame
  <2>2. CASE TakeNew(a, r, v)
    <3>1. UNCHANGED <<worker, release, rels, warms>>
      BY <2>2 DEF TakeNew
    <3> QED BY <3>1, OwnsSame
  <2>3. CASE TakeNone(a, r)
    <3>1. UNCHANGED <<worker, release, rels, warms>>
      BY <2>3 DEF TakeNone
    <3> QED BY <3>1, OwnsSame
  <2>4. CASE Installs(a, r)
    <3>1. /\ UNCHANGED <<rels, warms>> /\ release' = release \cup {r}
          /\ worker' = [worker EXCEPT ![r] = act[a].engine]
      BY <2>4 DEF Installs
    <3>2. \A s \in Runtimes, e \in Nat \ {0} : Owns(s, e)' => Owns(s, e)
      BY <1>0, <3>1 DEF Owns
    <3> QED BY <3>2, OwnsAsBefore
  <2> QED BY <2>0, <2>1, <2>2, <2>3, <2>4
<1>3. ASSUME NEW a \in Activators, Counting(a) PROVE \E m : NewOwner(m)
  <2>0. PICK r \in Runtimes : Counts(a, r)
    BY <1>3 DEF Counting
  <2>1. CASE Counts(a, r)
    <3>1. UNCHANGED <<worker, release, rels>> /\ \A y \in warms' : y.owned => y \in warms
      BY <2>1 DEF Counts, First, Another
    <3>2. \A s \in Runtimes, e \in Nat \ {0} : Owns(s, e)' => Owns(s, e)
      BY <3>1 DEF Owns
    <3> QED BY <3>2, OwnsAsBefore
  <2> QED BY <2>0, <2>1
<1>4. ASSUME Pinning PROVE \E m : NewOwner(m)
  <2>0. PICK r \in Runtimes, v \in Voices : PinMore(r) \/ PinSet(r, v) \/ Unpin(v, r)
    BY <1>4 DEF Pinning
  <2>1. CASE PinMore(r)
    <3>1. UNCHANGED <<worker, release, rels, warms>>
      BY <2>1 DEF PinMore
    <3> QED BY <3>1, OwnsSame
  <2>2. CASE PinSet(r, v)
    <3>1. UNCHANGED <<worker, release, rels, warms>>
      BY <2>2 DEF PinSet
    <3> QED BY <3>1, OwnsSame
  <2>3. CASE Unpin(v, r)
    <3>1. UNCHANGED <<worker, release, rels, warms>>
      BY <2>3 DEF Unpin
    <3> QED BY <3>1, OwnsSame
  <2> QED BY <2>0, <2>1, <2>2, <2>3
<1>5. ASSUME Returning PROVE \E m : NewOwner(m)
  <2>0. PICK r \in Runtimes : Returns(r) \/ LastReturns(r)
    BY <1>5 DEF Returning
  <2>1. CASE Returns(r)
    <3>1. UNCHANGED <<worker, release, rels, warms>>
      BY <2>1 DEF Returns
    <3> QED BY <3>1, OwnsSame
  <2>2. CASE LastReturns(r)
    <3>1. /\ rels' = rels \cup {[rt |-> r, engine |-> OwnWorker(r)]}
          /\ worker' = [worker EXCEPT ![r] = 0] /\ UNCHANGED <<release, warms>>
      BY <2>2 DEF LastReturns
    <3>2. \A s \in Runtimes, e \in Nat \ {0} : Owns(s, e)' => Owns(s, e)
      <4> SUFFICES ASSUME NEW s \in Runtimes, NEW e \in Nat \ {0}, Owns(s, e)' PROVE Owns(s, e)
        OBVIOUS
      <4>1. CASE s \notin release' /\ worker'[s] = e
        BY <1>0, <3>1, <4>1 DEF Owns
      <4>2. ASSUME NEW y \in rels', y.rt = s, y.engine = e PROVE Owns(s, e)
        <5>1. CASE y \in rels
          BY <4>2, <5>1 DEF Owns
        <5>2. CASE y = [rt |-> r, engine |-> OwnWorker(r)]
          BY <4>2, <5>2 DEF Owns, OwnWorker
        <5> QED BY <3>1, <4>2, <5>1, <5>2
      <4>3. ASSUME NEW y \in warms', y.rt = s, y.owned, y.engine = e PROVE Owns(s, e)
        BY <3>1, <4>3 DEF Owns
      <4> QED BY <4>1, <4>2, <4>3 DEF Owns
    <3> QED BY <3>2, OwnsAsBefore
  <2> QED BY <2>0, <2>1, <2>2
<1>6. ASSUME NEW x \in rels, Leaving(x) PROVE \E m : NewOwner(m)
  <2>0. PICK r \in Runtimes, v \in Voices :
           Closes(x) \/ GivesBack(x, r, v) \/ Leaves(x, r) \/ Stays(x, r)
    BY <1>6 DEF Leaving
  <2>1. CASE Closes(x)
    <3>1. UNCHANGED <<worker, release, rels, warms>>
      BY <2>1 DEF Closes
    <3> QED BY <3>1, OwnsSame
  <2>2. CASE GivesBack(x, r, v)
    <3>1. /\ UNCHANGED <<worker, warms>> /\ rels' \subseteq rels /\ release' = release \ {r}
          /\ x \in rels /\ x.rt = r
      BY <2>2 DEF GivesBack
    <3>2. worker[r] = 0
      BY <1>0, <3>1 DEF Lives, Single, Sharing
    <3>3. \A s \in Runtimes, e \in Nat \ {0} : Owns(s, e)' => Owns(s, e)
      BY <3>1, <3>2 DEF Owns
    <3> QED BY <3>3, OwnsAsBefore
  <2>3. CASE Leaves(x, r)
    <3>1. /\ UNCHANGED <<worker, release, warms>> /\ rels' \subseteq rels
      BY <2>3 DEF Leaves
    <3>2. \A s \in Runtimes, e \in Nat \ {0} : Owns(s, e)' => Owns(s, e)
      BY <3>1 DEF Owns
    <3> QED BY <3>2, OwnsAsBefore
  <2>4. CASE Stays(x, r)
    <3>1. /\ UNCHANGED <<worker, release, warms>> /\ rels' \subseteq rels
      BY <2>4 DEF Stays
    <3>2. \A s \in Runtimes, e \in Nat \ {0} : Owns(s, e)' => Owns(s, e)
      BY <3>1 DEF Owns
    <3> QED BY <3>2, OwnsAsBefore
  <2> QED BY <2>0, <2>1, <2>2, <2>3, <2>4
<1>7. ASSUME NEW x \in warms, NEW r \in Runtimes, Warms(x, r) PROVE \E m : NewOwner(m)
  <2>1. CASE WarmTakes(x, r)
    <3>1. UNCHANGED <<worker, release, rels>> /\ \A y \in warms' : y.owned => y \in warms
      BY <2>1 DEF WarmTakes, Warmed, Warming, WarmFine
    <3>2. \A s \in Runtimes, e \in Nat \ {0} : Owns(s, e)' => Owns(s, e)
      BY <3>1 DEF Owns
    <3> QED BY <3>2, OwnsAsBefore
  <2>2. CASE WarmMakes(x, r)
    <3>1. /\ UNCHANGED <<worker, release, rels, pool>>
          /\ \A y \in warms' : y \in warms \/ (y.rt = r /\ y.engine = engines + 1)
      BY <2>2 DEF WarmMakes, Warmed
    <3>2. NewOwner(r)
      BY <3>1 DEF Owns, NewOwner
    <3> QED BY <3>2
  <2>3. CASE WarmPuts(x, r)
    <3>1. /\ UNCHANGED <<release, rels>> /\ worker' = [worker EXCEPT ![r] = x.engine]
          /\ \A y \in warms' : y \in warms \/ (y.rt = r /\ y.engine = x.engine /\ y.owned = x.owned)
          /\ x.rt = r /\ Current(x) /\ x.pc = "install"
      BY <2>3 DEF WarmPuts, Warmed
    <3>2. x.owned \/ worker[r] = x.engine
      BY <3>1 DEF Warming, WarmFine
    <3>3. \A s \in Runtimes, e \in Nat \ {0} : Owns(s, e)' => Owns(s, e)
      <4> SUFFICES ASSUME NEW s \in Runtimes, NEW e \in Nat \ {0}, Owns(s, e)' PROVE Owns(s, e)
        OBVIOUS
      <4>1. CASE s \notin release' /\ worker'[s] = e
        BY <1>0, <3>1, <3>2, <4>1 DEF Owns
      <4>2. ASSUME NEW y \in rels', y.rt = s, y.engine = e PROVE Owns(s, e)
        BY <3>1, <4>2 DEF Owns
      <4>3. ASSUME NEW y \in warms', y.rt = s, y.owned, y.engine = e PROVE Owns(s, e)
        BY <3>1, <4>3 DEF Owns
      <4> QED BY <4>1, <4>2, <4>3 DEF Owns
    <3> QED BY <3>3, OwnsAsBefore
  <2>4. CASE WarmGoes(x, r)
    <3>1. /\ UNCHANGED <<worker, release, rels>> /\ x.rt = r
          /\ \A y \in warms' : y \in warms \/ (y.rt = r /\ y.engine = x.engine /\ y.owned = x.owned)
      BY <2>4 DEF WarmGoes, Warmed
    <3>2. \A s \in Runtimes, e \in Nat \ {0} : Owns(s, e)' => Owns(s, e)
      BY <3>1 DEF Owns
    <3> QED BY <3>2, OwnsAsBefore
  <2>5. CASE WarmAnswers(x, r)
    <3>1. /\ UNCHANGED <<release, rels>> /\ warms' \subseteq warms
          /\ \A s \in Runtimes : worker'[s] \in {0, worker[s]}
      BY <2>5, <1>0 DEF WarmAnswers
    <3>2. \A s \in Runtimes, e \in Nat \ {0} : Owns(s, e)' => Owns(s, e)
      BY <3>1 DEF Owns
    <3> QED BY <3>2, OwnsAsBefore
  <2>6. CASE WarmFails(x, r)
    <3>1. /\ UNCHANGED <<release, rels>> /\ warms' \subseteq warms
          /\ \A s \in Runtimes : worker'[s] \in {0, worker[s]}
      BY <2>6, <1>0 DEF WarmFails
    <3>2. \A s \in Runtimes, e \in Nat \ {0} : Owns(s, e)' => Owns(s, e)
      BY <3>1 DEF Owns
    <3> QED BY <3>2, OwnsAsBefore
  <2>7. CASE WarmDrops(x, r)
    <3>1. /\ UNCHANGED <<release, rels>> /\ warms' \subseteq warms
          /\ \A s \in Runtimes : worker'[s] \in {0, worker[s]}
      BY <2>7, <1>0 DEF WarmDrops
    <3>2. \A s \in Runtimes, e \in Nat \ {0} : Owns(s, e)' => Owns(s, e)
      BY <3>1 DEF Owns
    <3> QED BY <3>2, OwnsAsBefore
  <2>8. CASE WarmBreaks(x, r)
    <3>1. /\ UNCHANGED <<release, rels>> /\ warms' \subseteq warms
          /\ \A s \in Runtimes : worker'[s] \in {0, worker[s]}
      BY <2>8, <1>0 DEF WarmBreaks
    <3>2. \A s \in Runtimes, e \in Nat \ {0} : Owns(s, e)' => Owns(s, e)
      BY <3>1 DEF Owns
    <3> QED BY <3>2, OwnsAsBefore
  <2> QED BY <1>7, <2>1, <2>2, <2>3, <2>4, <2>5, <2>6, <2>7, <2>8 DEF Warms
<1> QED BY <1>1, <1>2, <1>3, <1>4, <1>5, <1>6, <1>7 DEF Formed

LEMMA OwnsLost == ASSUME PoolTypes, Made, Built, Wired, Leases, Making, SharesCounted,
                         Lives, Sharing, Lent, Apart, Open, Warming, Kept, ~crossed', Formed
                  PROVE \A s \in Runtimes, e \in Nat \ {0} : Owns(s, e) => Owns(s, e)' \/ e \in closed'
<1>0. /\ act \in [Activators -> [pc : PoolSteps, rt : Nat, engine : Nat]]
      /\ slot \in [Keys -> Nat] /\ key \in [Runtimes -> Keys] /\ refs \in [Runtimes -> Nat]
      /\ loose \in [Runtimes -> Nat] /\ gen \in [Runtimes -> Nat] /\ ready \in [Runtimes -> Nat]
      /\ worker \in [Runtimes -> Nat] /\ tts \in [Runtimes -> {"none", "waiting", "ok", "failed"}]
      /\ pool \in [Voices -> [engine : Nat, refs : Nat]] /\ release \subseteq Runtimes
      /\ rels \subseteq [rt : Runtimes, engine : Nat] /\ warms \subseteq Warmups
      /\ made \in Nat /\ Runtimes \subseteq Nat \ {0}
  BY DEF PoolTypes, Runtimes
<1>1. ASSUME NEW a \in Activators, Asking(a) PROVE \A s \in Runtimes, e \in Nat \ {0} : Owns(s, e) => Owns(s, e)' \/ e \in closed'
  <2>0. PICK k \in Keys : AskOld(a, k) \/ AskNew(a, k)
    BY <1>1 DEF Asking
  <2>1. CASE AskOld(a, k)
    <3>1. UNCHANGED <<worker, release, rels, warms>>
      BY <2>1 DEF AskOld
    <3> QED BY <3>1 DEF Owns
  <2>2. CASE AskNew(a, k)
    <3>1. UNCHANGED <<worker, release, rels, warms>>
      BY <2>2 DEF AskNew
    <3> QED BY <3>1 DEF Owns
  <2> QED BY <2>0, <2>1, <2>2
<1>2. ASSUME NEW a \in Activators, Taking(a) PROVE \A s \in Runtimes, e \in Nat \ {0} : Owns(s, e) => Owns(s, e)' \/ e \in closed'
  <2>0. PICK r \in Runtimes, v \in Voices :
           TakeOld(a, r, v) \/ TakeNew(a, r, v) \/ TakeNone(a, r) \/ Installs(a, r)
    BY <1>2 DEF Taking
  <2>1. CASE TakeOld(a, r, v)
    <3>1. UNCHANGED <<worker, release, rels, warms>>
      BY <2>1 DEF TakeOld
    <3> QED BY <3>1 DEF Owns
  <2>2. CASE TakeNew(a, r, v)
    <3>1. UNCHANGED <<worker, release, rels, warms>>
      BY <2>2 DEF TakeNew
    <3> QED BY <3>1 DEF Owns
  <2>3. CASE TakeNone(a, r)
    <3>1. UNCHANGED <<worker, release, rels, warms>>
      BY <2>3 DEF TakeNone
    <3> QED BY <3>1 DEF Owns
  <2>4. CASE Installs(a, r)
    <3>1. /\ UNCHANGED <<rels, warms>> /\ release' = release \cup {r}
          /\ worker' = [worker EXCEPT ![r] = act[a].engine]
      BY <2>4 DEF Installs
    <3>2. worker[r] = 0
      BY <2>4 DEF Installs, Early, Lives, Placed
    <3> QED BY <1>0, <3>1, <3>2 DEF Owns
  <2> QED BY <2>0, <2>1, <2>2, <2>3, <2>4
<1>3. ASSUME NEW a \in Activators, Counting(a) PROVE \A s \in Runtimes, e \in Nat \ {0} : Owns(s, e) => Owns(s, e)' \/ e \in closed'
  <2>0. PICK r \in Runtimes : Counts(a, r)
    BY <1>3 DEF Counting
  <2>1. CASE Counts(a, r)
    <3>1. UNCHANGED <<worker, release, rels>> /\ warms \subseteq warms'
      BY <2>1 DEF Counts, First, Another
    <3> QED BY <3>1 DEF Owns
  <2> QED BY <2>0, <2>1
<1>4. ASSUME Pinning PROVE \A s \in Runtimes, e \in Nat \ {0} : Owns(s, e) => Owns(s, e)' \/ e \in closed'
  <2>0. PICK r \in Runtimes, v \in Voices : PinMore(r) \/ PinSet(r, v) \/ Unpin(v, r)
    BY <1>4 DEF Pinning
  <2>1. CASE PinMore(r)
    <3>1. UNCHANGED <<worker, release, rels, warms>>
      BY <2>1 DEF PinMore
    <3> QED BY <3>1 DEF Owns
  <2>2. CASE PinSet(r, v)
    <3>1. UNCHANGED <<worker, release, rels, warms>>
      BY <2>2 DEF PinSet
    <3> QED BY <3>1 DEF Owns
  <2>3. CASE Unpin(v, r)
    <3>1. UNCHANGED <<worker, release, rels, warms>>
      BY <2>3 DEF Unpin
    <3> QED BY <3>1 DEF Owns
  <2> QED BY <2>0, <2>1, <2>2, <2>3
<1>5. ASSUME Returning PROVE \A s \in Runtimes, e \in Nat \ {0} : Owns(s, e) => Owns(s, e)' \/ e \in closed'
  <2>0. PICK r \in Runtimes : Returns(r) \/ LastReturns(r)
    BY <1>5 DEF Returning
  <2>1. CASE Returns(r)
    <3>1. UNCHANGED <<worker, release, rels, warms>>
      BY <2>1 DEF Returns
    <3> QED BY <3>1 DEF Owns
  <2>2. CASE LastReturns(r)
    <3>0. PICK z : z = [rt |-> r, engine |-> OwnWorker(r)]
      OBVIOUS
    <3>1. /\ rels' = rels \cup {z} /\ z.rt = r /\ (r \notin release => z.engine = worker[r])
          /\ worker' = [worker EXCEPT ![r] = 0] /\ UNCHANGED <<release, warms>>
      BY <2>2, <3>0 DEF LastReturns, OwnWorker
    <3> QED BY <1>0, <3>1 DEF Owns
  <2> QED BY <2>0, <2>1, <2>2
<1>6. ASSUME NEW x \in rels, Leaving(x) PROVE \A s \in Runtimes, e \in Nat \ {0} : Owns(s, e) => Owns(s, e)' \/ e \in closed'
  <2>0. PICK r \in Runtimes, v \in Voices :
           Closes(x) \/ GivesBack(x, r, v) \/ Leaves(x, r) \/ Stays(x, r)
    BY <1>6 DEF Leaving
  <2>1. CASE Closes(x)
    <3>1. UNCHANGED <<worker, release, rels, warms>>
      BY <2>1 DEF Closes
    <3> QED BY <3>1 DEF Owns
  <2>2. CASE GivesBack(x, r, v)
    <3>1. /\ UNCHANGED <<worker, warms>> /\ rels' = rels \ {x} /\ closed \subseteq closed'
          /\ x.engine \in closed \cup {0} /\ release' \subseteq release
      BY <2>2 DEF GivesBack
    <3> QED BY <3>1 DEF Owns
  <2>3. CASE Leaves(x, r)
    <3>1. /\ UNCHANGED <<worker, release, warms>> /\ rels' = rels \ {x} /\ UNCHANGED closed
          /\ x.engine \in closed \cup {0}
      BY <2>3 DEF Leaves
    <3> QED BY <3>1 DEF Owns
  <2>4. CASE Stays(x, r)
    <3>1. /\ UNCHANGED <<worker, release, warms>> /\ rels' = rels \ {x} /\ UNCHANGED closed
          /\ x.engine \in closed \cup {0}
      BY <2>4 DEF Stays
    <3> QED BY <3>1 DEF Owns
  <2> QED BY <2>0, <2>1, <2>2, <2>3, <2>4
<1>7. ASSUME NEW x \in warms, NEW r \in Runtimes, Warms(x, r) PROVE \A s \in Runtimes, e \in Nat \ {0} : Owns(s, e) => Owns(s, e)' \/ e \in closed'
  <2>1. CASE WarmTakes(x, r)
    <3>1. UNCHANGED <<worker, release, rels>> /\ \A y \in warms : y.owned => y \in warms'
      BY <2>1 DEF WarmTakes, Warmed, Warming, WarmFine
    <3> QED BY <3>1 DEF Owns
  <2>2. CASE WarmMakes(x, r)
    <3>1. UNCHANGED <<worker, release, rels>> /\ \A y \in warms : y.owned => y \in warms'
      BY <2>2 DEF WarmMakes, Warmed, Warming, WarmFine
    <3> QED BY <3>1 DEF Owns
  <2>3. CASE WarmPuts(x, r)
    <3>0. PICK y : y = Warmed(x, "check", x.engine, x.owned)
      OBVIOUS
    <3>1. /\ UNCHANGED <<release, rels>> /\ worker' = [worker EXCEPT ![r] = x.engine]
          /\ warms' = (warms \ {x}) \cup {y} /\ y.rt = x.rt /\ y.engine = x.engine /\ y.owned = x.owned
          /\ worker[r] \in {0, x.engine}
      BY <2>3, <3>0 DEF WarmPuts, Warmed
    <3> QED BY <1>0, <3>1 DEF Owns
  <2>4. CASE WarmGoes(x, r)
    <3>0. PICK y : y = Warmed(x, "synth", x.engine, x.owned)
      OBVIOUS
    <3>1. /\ UNCHANGED <<release, rels, worker>>
          /\ warms' = (warms \ {x}) \cup {y} /\ y.rt = x.rt /\ y.engine = x.engine /\ y.owned = x.owned
      BY <2>4, <3>0 DEF WarmGoes, Warmed
    <3> QED BY <1>0, <3>1 DEF Owns
  <2>5. CASE WarmAnswers(x, r)
    <3>1. /\ UNCHANGED <<release, rels, worker, closed>> /\ warms' = warms \ {x} /\ x.pc = "synth"
          /\ x.rt = r
      BY <2>5 DEF WarmAnswers
    <3>2. x.owned => x.engine \in closed \/ (r \notin release /\ worker[r] = x.engine)
                      \/ \E y \in rels : y.rt = r /\ y.engine = x.engine
      BY <3>1 DEF Kept
    <3> QED BY <3>1, <3>2 DEF Owns
  <2>6. CASE WarmFails(x, r)
    <3>1. UNCHANGED <<worker, release, rels>> /\ \A y \in warms : y.owned => y \in warms'
      BY <2>6 DEF WarmFails, Warmed, Warming, WarmFine
    <3> QED BY <3>1 DEF Owns
  <2>7. CASE WarmDrops(x, r)
    <3>1. /\ UNCHANGED <<release, rels, worker>> /\ warms' = warms \ {x}
          /\ x.owned => x.engine \in closed'
      BY <2>7 DEF WarmDrops
    <3> QED BY <3>1 DEF Owns
  <2>8. CASE WarmBreaks(x, r)
    <3>1. /\ UNCHANGED <<release, rels>> /\ warms' = warms \ {x}
          /\ x.owned => x.engine \in closed'
          /\ worker' = IF x.owned /\ worker[r] = x.engine THEN [worker EXCEPT ![r] = 0] ELSE worker
      BY <2>8 DEF WarmBreaks
    <3> QED BY <1>0, <3>1 DEF Owns
  <2> QED BY <1>7, <2>1, <2>2, <2>3, <2>4, <2>5, <2>6, <2>7, <2>8 DEF Warms
<1> QED BY <1>1, <1>2, <1>3, <1>4, <1>5, <1>6, <1>7 DEF Formed

LEMMA ClosedStep == ASSUME PoolTypes, Made, Built, Wired, Leases, Making, SharesCounted,
                           Lives, Sharing, Lent, Apart, Open, Warming, Kept, ~crossed', Formed
                    PROVE closed \subseteq closed' /\ \A e \in closed' \ closed : Done(e)
<1>0. /\ act \in [Activators -> [pc : PoolSteps, rt : Nat, engine : Nat]]
      /\ slot \in [Keys -> Nat] /\ key \in [Runtimes -> Keys] /\ refs \in [Runtimes -> Nat]
      /\ loose \in [Runtimes -> Nat] /\ gen \in [Runtimes -> Nat] /\ ready \in [Runtimes -> Nat]
      /\ worker \in [Runtimes -> Nat] /\ tts \in [Runtimes -> {"none", "waiting", "ok", "failed"}]
      /\ pool \in [Voices -> [engine : Nat, refs : Nat]] /\ release \subseteq Runtimes
      /\ rels \subseteq [rt : Runtimes, engine : Nat] /\ warms \subseteq Warmups
      /\ made \in Nat /\ Runtimes \subseteq Nat \ {0}
  BY DEF PoolTypes, Runtimes
<1>a. \A y \in warms : Current(y) => refs[y.rt] > 0
  BY WarmNumbers DEF Lives
<1>b. /\ \A e \in Nat \ {0}, t, u \in Runtimes : Owns(t, e) /\ Owns(u, e) => t = u
      /\ \A v \in Voices, t \in Runtimes : pool[v].refs > 0 => ~Owns(t, pool[v].engine)
  BY DEF Apart
<1>c. closed \subseteq Nat \ {0}
  BY DEF PoolTypes, Built
<1>1. ASSUME NEW a \in Activators, Asking(a) PROVE closed \subseteq closed' /\ \A e \in closed' \ closed : Done(e)
  <2>0. PICK k \in Keys : AskOld(a, k) \/ AskNew(a, k)
    BY <1>1 DEF Asking
  <2>1. CASE AskOld(a, k)
    BY <2>1 DEF AskOld
  <2>2. CASE AskNew(a, k)
    BY <2>2 DEF AskNew
  <2> QED BY <2>0, <2>1, <2>2
<1>2. ASSUME NEW a \in Activators, Taking(a) PROVE closed \subseteq closed' /\ \A e \in closed' \ closed : Done(e)
  <2>0. PICK r \in Runtimes, v \in Voices :
           TakeOld(a, r, v) \/ TakeNew(a, r, v) \/ TakeNone(a, r) \/ Installs(a, r)
    BY <1>2 DEF Taking
  <2>1. CASE TakeOld(a, r, v)
    BY <2>1 DEF TakeOld
  <2>2. CASE TakeNew(a, r, v)
    BY <2>2 DEF TakeNew
  <2>3. CASE TakeNone(a, r)
    BY <2>3 DEF TakeNone
  <2>4. CASE Installs(a, r)
    BY <2>4 DEF Installs
  <2> QED BY <2>0, <2>1, <2>2, <2>3, <2>4
<1>3. ASSUME NEW a \in Activators, Counting(a) PROVE closed \subseteq closed' /\ \A e \in closed' \ closed : Done(e)
  <2>0. PICK r \in Runtimes : Counts(a, r)
    BY <1>3 DEF Counting
  <2>1. CASE Counts(a, r)
    BY <2>1 DEF Counts
  <2> QED BY <2>0, <2>1
<1>4. ASSUME Pinning PROVE closed \subseteq closed' /\ \A e \in closed' \ closed : Done(e)
  <2>0. PICK r \in Runtimes, v \in Voices : PinMore(r) \/ PinSet(r, v) \/ Unpin(v, r)
    BY <1>4 DEF Pinning
  <2>1. CASE PinMore(r)
    BY <2>1 DEF PinMore
  <2>2. CASE PinSet(r, v)
    BY <2>2 DEF PinSet
  <2>3. CASE Unpin(v, r)
    BY <2>3 DEF Unpin
  <2> QED BY <2>0, <2>1, <2>2, <2>3
<1>5. ASSUME Returning PROVE closed \subseteq closed' /\ \A e \in closed' \ closed : Done(e)
  <2>0. PICK r \in Runtimes : Returns(r) \/ LastReturns(r)
    BY <1>5 DEF Returning
  <2>1. CASE Returns(r)
    BY <2>1 DEF Returns
  <2>2. CASE LastReturns(r)
    BY <2>2 DEF LastReturns
  <2> QED BY <2>0, <2>1, <2>2
<1>6. ASSUME NEW x \in rels, Leaving(x) PROVE closed \subseteq closed' /\ \A e \in closed' \ closed : Done(e)
  <2>0. PICK r \in Runtimes, v \in Voices :
           Closes(x) \/ GivesBack(x, r, v) \/ Leaves(x, r) \/ Stays(x, r)
    BY <1>6 DEF Leaving
  <2>1. CASE Closes(x)
    <3>1. /\ closed' = closed \cup {x.engine} /\ x.engine \in Nat \ {0} /\ x.rt \in Runtimes
          /\ UNCHANGED <<pool, worker, release, warms, ready>>
      BY <2>1, <1>0 DEF Closes
    <3>2. Owns(x.rt, x.engine)
      BY DEF Owns
    <3>3. refs[x.rt] = 0 /\ gen[x.rt] = 1
      BY DEF Lives, Single
    <3>4. \A w \in Voices : pool'[w].refs > 0 => pool'[w].engine # x.engine
      BY <1>b, <3>1, <3>2
    <3>5. \A t \in Runtimes : t \notin release' => worker'[t] # x.engine
      <4>1. \A t \in Runtimes : t \notin release /\ worker[t] = x.engine => t = x.rt
        BY <1>b, <3>1, <3>2 DEF Owns
      <4>0. \A t \in Runtimes : t \notin release /\ refs[t] = 0 => worker[t] = 0
        BY <1>0 DEF Sharing
      <4>2. x.rt \notin release => worker[x.rt] = 0
        BY <3>1, <3>3, <4>0
      <4> QED BY <3>1, <4>1, <4>2
    <3>6. \A y \in warms' : y.owned /\ y.pc = "install" /\ Current(y)' => y.engine # x.engine
      <4>1. \A y \in warms : y.owned /\ y.engine = x.engine => y.rt = x.rt
        <5>1. \A y \in warms : y.rt \in Runtimes /\ (y.owned => Owns(y.rt, y.engine))
          BY <1>0 DEF Owns, Warmups
        <5> QED BY <1>b, <3>1, <3>2, <5>1
      <4>2. \A y \in warms : Current(y)' = Current(y)
        BY <3>1 DEF Current
      <4> QED BY <1>a, <1>0, <3>1, <3>3, <4>1, <4>2
    <3> QED BY <3>1, <3>4, <3>5, <3>6 DEF Done
  <2>2. CASE GivesBack(x, r, v)
    <3>0. /\ pool' = [pool EXCEPT ![v] = [engine |-> pool[v].engine, refs |-> pool[v].refs - 1]]
          /\ closed' = IF pool[v].refs = 1 THEN closed \cup {pool[v].engine} ELSE closed
          /\ UNCHANGED <<worker, warms, ready>> /\ release' = release \ {r} /\ x.rt = r
      BY <2>2 DEF GivesBack
    <3>1. CASE pool[v].refs = 1
      <4>1. closed' = closed \cup {pool[v].engine} /\ pool[v].refs > 0
        BY <3>0, <3>1
      <4>2. \A w \in Voices : pool'[w].refs > 0 => pool'[w].engine # pool[v].engine
        <5> SUFFICES ASSUME NEW w \in Voices, pool'[w].refs > 0 PROVE pool'[w].engine # pool[v].engine
          OBVIOUS
        <5>1. w # v
          BY <1>0, <3>0, <3>1
        <5>2. pool'[w] = pool[w]
          BY <1>0, <3>0, <5>1
        <5>3. v \in Voices
          BY <2>0
        <5> QED BY <4>1, <5>1, <5>2, <5>3 DEF Lent
      <4>3. \A t \in Runtimes : t \notin release' => worker'[t] # pool[v].engine
        <5>0. pool[v].engine # 0 /\ v \in Voices
          BY <2>0, <4>1 DEF Built
        <5>1. \A t \in Runtimes : t \notin release => worker[t] # pool[v].engine
          BY <1>b, <4>1, <5>0 DEF Owns
        <5>2. worker[r] = 0
          BY <1>0, <3>0 DEF Lives, Single, Sharing
        <5> QED BY <3>0, <5>0, <5>1, <5>2
      <4>4. \A y \in warms' : y.owned /\ y.pc = "install" /\ Current(y)' => y.engine # pool[v].engine
        <5>0. v \in Voices
          BY <2>0
        <5>1. \A y \in warms : y.rt \in Runtimes /\ (y.owned => Owns(y.rt, y.engine))
          BY <1>0 DEF Owns, Warmups
        <5> QED BY <1>b, <3>0, <4>1, <5>0, <5>1
      <4> QED BY <4>1, <4>2, <4>3, <4>4 DEF Done
    <3>2. CASE pool[v].refs # 1
      BY <3>0, <3>2
    <3> QED BY <3>1, <3>2
  <2>3. CASE Leaves(x, r)
    BY <2>3 DEF Leaves
  <2>4. CASE Stays(x, r)
    BY <2>4 DEF Stays
  <2> QED BY <2>0, <2>1, <2>2, <2>3, <2>4
<1>7. ASSUME NEW x \in warms, NEW r \in Runtimes, Warms(x, r) PROVE closed \subseteq closed' /\ \A e \in closed' \ closed : Done(e)
  <2>1. CASE WarmTakes(x, r)
    BY <2>1 DEF WarmTakes
  <2>2. CASE WarmMakes(x, r)
    BY <2>2 DEF WarmMakes
  <2>3. CASE WarmPuts(x, r)
    BY <2>3 DEF WarmPuts
  <2>4. CASE WarmGoes(x, r)
    BY <2>4 DEF WarmGoes
  <2>5. CASE WarmAnswers(x, r)
    BY <2>5 DEF WarmAnswers
  <2>6. CASE WarmFails(x, r)
    BY <2>6 DEF WarmFails
  <2>7. CASE WarmDrops(x, r)
    <3>1. /\ closed' = IF x.owned THEN closed \cup {x.engine} ELSE closed
          /\ x.rt = r
          /\ UNCHANGED <<pool, worker, release, refs, ready>> /\ warms' = warms \ {x}
      BY <2>7 DEF WarmDrops
    <3>2. ~Current(x) \/ ~x.owned
      <4>1. x.pc = "install" /\ x.owned /\ Current(x) => worker[r] = 0
        BY <3>1 DEF Warming, WarmFine
      <4>2. x.pc = "check" /\ Current(x) => worker[r] = x.engine
        BY <3>1 DEF Warming, WarmFine
      <4> QED BY <2>7, <4>1, <4>2 DEF WarmDrops
    <3>3. CASE x.owned
      <4>0. refs[r] = 0 /\ gen[r] = 1
        BY <1>0, <3>1, <3>2, <3>3, WarmNumbers DEF Lives
      <4>1. Owns(r, x.engine) /\ x.engine \in Nat \ {0}
        BY <1>0, <3>1, <3>3 DEF Owns, Built, Warmups
      <4>2. \A v \in Voices : pool'[v].refs > 0 => pool'[v].engine # x.engine
        BY <1>b, <3>1, <4>1
      <4>3. \A t \in Runtimes : t \notin release' => worker'[t] # x.engine
        <5>1. \A t \in Runtimes : t \notin release /\ worker[t] = x.engine => t = r
          BY <1>b, <4>1 DEF Owns
        <5>2. r \notin release => worker[r] = 0
          BY <1>0, <4>0 DEF Sharing
        <5> QED BY <3>1, <4>1, <5>1, <5>2
      <4>4. \A y \in warms' : y.owned /\ y.pc = "install" /\ Current(y)' => y.engine # x.engine
        <5>1. \A y \in warms : y.rt \in Runtimes /\ (y.owned => Owns(y.rt, y.engine))
          BY <1>0 DEF Owns, Warmups
        <5>2. \A y \in warms : Current(y)' = Current(y)
          BY <3>1 DEF Current
        <5>3. \A y \in warms : y.owned /\ y.engine = x.engine => y.rt = r
          BY <1>b, <4>1, <5>1
        <5>4. \A y \in warms : y.owned /\ y.engine = x.engine => ~Current(y)
          BY <1>a, <4>0, <5>3
        <5> QED BY <3>1, <5>2, <5>4
      <4> QED BY <3>1, <3>3, <4>2, <4>3, <4>4 DEF Done
    <3>4. CASE ~x.owned
      BY <3>1, <3>4
    <3> QED BY <3>3, <3>4
  <2>8. CASE WarmBreaks(x, r)
    <3>1. /\ closed' = IF x.owned THEN closed \cup {x.engine} ELSE closed
          /\ x.rt = r
          /\ UNCHANGED <<pool, release, refs, ready>> /\ warms' = warms \ {x}
          /\ worker' = IF x.owned /\ worker[r] = x.engine THEN [worker EXCEPT ![r] = 0] ELSE worker
      BY <2>8 DEF WarmBreaks
    <3>3. CASE x.owned
      <4>1. Owns(r, x.engine) /\ x.engine \in Nat \ {0}
        BY <1>0, <3>1, <3>3 DEF Owns, Built, Warmups
      <4>2. \A v \in Voices : pool'[v].refs > 0 => pool'[v].engine # x.engine
        BY <1>b, <3>1, <4>1
      <4>3. \A t \in Runtimes : t \notin release' => worker'[t] # x.engine
        <5>1. \A t \in Runtimes : t \notin release /\ worker[t] = x.engine => t = r
          BY <1>b, <4>1 DEF Owns
        <5>2. worker'[r] # x.engine
          BY <1>0, <3>1, <3>3, <4>1
        <5>3. \A t \in Runtimes : t # r => worker'[t] = worker[t]
          BY <1>0, <3>1
        <5> QED BY <3>1, <5>1, <5>2, <5>3
      <4>4. \A y \in warms' : y.owned /\ y.pc = "install" /\ Current(y)' => y.engine # x.engine
        <5>1. \A y \in warms : y.rt \in Runtimes /\ (y.owned => Owns(y.rt, y.engine))
          BY <1>0 DEF Owns, Warmups
        <5>2. \A y \in warms' : y \in warms /\ y.rt # r
          BY <3>1 DEF Lives, Single
        <5> QED BY <1>b, <4>1, <5>1, <5>2
      <4> QED BY <3>1, <3>3, <4>2, <4>3, <4>4 DEF Done
    <3>4. CASE ~x.owned
      BY <3>1, <3>4
    <3> QED BY <3>3, <3>4
  <2> QED BY <1>7, <2>1, <2>2, <2>3, <2>4, <2>5, <2>6, <2>7, <2>8 DEF Warms
<1> QED BY <1>1, <1>2, <1>3, <1>4, <1>5, <1>6, <1>7 DEF Formed

-----------------------------------------------------------------------------
(* Only an activation that starts the voice's engine changes which one is shared. *)
NewShare(m) == \A v \in Voices :
    \/ /\ pool'[v].engine = pool[v].engine /\ (pool'[v].refs > 0 => pool[v].refs > 0)
       /\ pool[v].refs > 0 => pool'[v].refs > 0 \/ pool[v].engine \in closed'
    \/ /\ v = m /\ pool[v].refs = 0 /\ pool'[v].refs > 0 /\ pool'[v].engine = engines + 1
       /\ UNCHANGED <<worker, release, rels, warms, closed>>

\* What the step does to those that hold a share and have not installed it.
Handed == \A b \in Activators : act'[b].pc = "install" =>
    \/ act'[b] = act[b] /\ key'[act[b].rt] = key[act[b].rt]
    \/ act'[b].engine = pool'[VoiceOf[key'[act'[b].rt]]].engine

LEMMA ShareStep == ASSUME PoolTypes, Made, Built, Wired, Leases, Making, SharesCounted,
                          Formed
                   PROVE \E m : NewShare(m)
<1>0. /\ act \in [Activators -> [pc : PoolSteps, rt : Nat, engine : Nat]]
      /\ slot \in [Keys -> Nat] /\ key \in [Runtimes -> Keys] /\ refs \in [Runtimes -> Nat]
      /\ loose \in [Runtimes -> Nat] /\ gen \in [Runtimes -> Nat] /\ ready \in [Runtimes -> Nat]
      /\ worker \in [Runtimes -> Nat] /\ tts \in [Runtimes -> {"none", "waiting", "ok", "failed"}]
      /\ pool \in [Voices -> [engine : Nat, refs : Nat]] /\ release \subseteq Runtimes
      /\ rels \subseteq [rt : Runtimes, engine : Nat] /\ warms \subseteq Warmups
      /\ made \in Nat /\ Runtimes \subseteq Nat \ {0}
  BY DEF PoolTypes, Runtimes
<1>1. ASSUME NEW a \in Activators, Asking(a) PROVE \E m : NewShare(m)
  <2>0. PICK k \in Keys : AskOld(a, k) \/ AskNew(a, k)
    BY <1>1 DEF Asking
  <2>1. CASE AskOld(a, k)
    <3>1. UNCHANGED pool
      BY <2>1 DEF AskOld
    <3> QED BY <3>1 DEF NewShare
  <2>2. CASE AskNew(a, k)
    <3>1. UNCHANGED pool
      BY <2>2 DEF AskNew
    <3> QED BY <3>1 DEF NewShare
  <2> QED BY <2>0, <2>1, <2>2
<1>2. ASSUME NEW a \in Activators, Taking(a) PROVE \E m : NewShare(m)
  <2>0. PICK r \in Runtimes, v \in Voices :
           TakeOld(a, r, v) \/ TakeNew(a, r, v) \/ TakeNone(a, r) \/ Installs(a, r)
    BY <1>2 DEF Taking
  <2>1. CASE TakeOld(a, r, v)
    <3>1. pool' = [pool EXCEPT ![v] = [engine |-> pool[v].engine, refs |-> pool[v].refs + 1]] /\ pool[v].refs > 0
      BY <2>1 DEF TakeOld
    <3>2. pool \in [Voices -> [engine : Nat, refs : Nat]] /\ v \in Voices
      BY <1>0, <2>0
    <3>3. \A w \in Voices : pool'[w].engine = pool[w].engine /\ pool'[w].refs \in {pool[w].refs, pool[w].refs + 1}
      BY <3>1, <3>2
    <3>4. \A w \in Voices : (pool'[w].refs > 0 => pool[w].refs > 0) /\ (pool[w].refs > 0 => pool'[w].refs > 0)
      BY <3>1, <3>2
    <3> QED BY <3>3, <3>4 DEF NewShare
  <2>2. CASE TakeNew(a, r, v)
    <3>1. /\ pool' = [pool EXCEPT ![v] = [engine |-> engines + 1, refs |-> 1]] /\ pool[v].refs = 0
          /\ UNCHANGED <<worker, release, rels, warms, closed>>
      BY <2>2 DEF TakeNew
    <3>2. NewShare(v)
      BY <3>1, <1>0 DEF NewShare
    <3> QED BY <3>2
  <2>3. CASE TakeNone(a, r)
    <3>1. UNCHANGED pool
      BY <2>3 DEF TakeNone
    <3> QED BY <3>1 DEF NewShare
  <2>4. CASE Installs(a, r)
    <3>1. UNCHANGED pool
      BY <2>4 DEF Installs
    <3> QED BY <3>1 DEF NewShare
  <2> QED BY <2>0, <2>1, <2>2, <2>3, <2>4
<1>3. ASSUME NEW a \in Activators, Counting(a) PROVE \E m : NewShare(m)
  <2>0. PICK r \in Runtimes : Counts(a, r)
    BY <1>3 DEF Counting
  <2>1. CASE Counts(a, r)
    <3>1. UNCHANGED pool
      BY <2>1 DEF Counts
    <3> QED BY <3>1 DEF NewShare
  <2> QED BY <2>0, <2>1
<1>4. ASSUME Pinning PROVE \E m : NewShare(m)
  <2>0. PICK r \in Runtimes, v \in Voices : PinMore(r) \/ PinSet(r, v) \/ Unpin(v, r)
    BY <1>4 DEF Pinning
  <2>1. CASE PinMore(r)
    <3>1. UNCHANGED pool
      BY <2>1 DEF PinMore
    <3> QED BY <3>1 DEF NewShare
  <2>2. CASE PinSet(r, v)
    <3>1. UNCHANGED pool
      BY <2>2 DEF PinSet
    <3> QED BY <3>1 DEF NewShare
  <2>3. CASE Unpin(v, r)
    <3>1. UNCHANGED pool
      BY <2>3 DEF Unpin
    <3> QED BY <3>1 DEF NewShare
  <2> QED BY <2>0, <2>1, <2>2, <2>3
<1>5. ASSUME Returning PROVE \E m : NewShare(m)
  <2>0. PICK r \in Runtimes : Returns(r) \/ LastReturns(r)
    BY <1>5 DEF Returning
  <2>1. CASE Returns(r)
    <3>1. UNCHANGED pool
      BY <2>1 DEF Returns
    <3> QED BY <3>1 DEF NewShare
  <2>2. CASE LastReturns(r)
    <3>1. UNCHANGED pool
      BY <2>2 DEF LastReturns
    <3> QED BY <3>1 DEF NewShare
  <2> QED BY <2>0, <2>1, <2>2
<1>6. ASSUME NEW x \in rels, Leaving(x) PROVE \E m : NewShare(m)
  <2>0. PICK r \in Runtimes, v \in Voices :
           Closes(x) \/ GivesBack(x, r, v) \/ Leaves(x, r) \/ Stays(x, r)
    BY <1>6 DEF Leaving
  <2>1. CASE Closes(x)
    <3>1. UNCHANGED pool
      BY <2>1 DEF Closes
    <3> QED BY <3>1 DEF NewShare
  <2>2. CASE GivesBack(x, r, v)
    <3>1. /\ pool' = [pool EXCEPT ![v] = [engine |-> pool[v].engine, refs |-> pool[v].refs - 1]]
          /\ closed' = IF pool[v].refs = 1 THEN closed \cup {pool[v].engine} ELSE closed
          /\ r \in release /\ VoiceFor(r) = v
      BY <2>2 DEF GivesBack
    <3>2. pool[v].refs > 0
      BY <3>1, ShareTaken
    <3>3. pool[v].refs - 1 > 0 \/ pool[v].engine \in closed'
      BY <2>0, <1>0, <3>1, <3>2
    <3> QED BY <3>1, <3>2, <3>3, <1>0 DEF NewShare
  <2>3. CASE Leaves(x, r)
    <3>1. UNCHANGED pool
      BY <2>3 DEF Leaves
    <3> QED BY <3>1 DEF NewShare
  <2>4. CASE Stays(x, r)
    <3>1. UNCHANGED pool
      BY <2>4 DEF Stays
    <3> QED BY <3>1 DEF NewShare
  <2> QED BY <2>0, <2>1, <2>2, <2>3, <2>4
<1>7. ASSUME NEW x \in warms, NEW r \in Runtimes, Warms(x, r) PROVE \E m : NewShare(m)
  <2>1. UNCHANGED pool
    BY <1>7, WarmKeeps
  <2> QED BY <2>1 DEF NewShare
<1> QED BY <1>1, <1>2, <1>3, <1>4, <1>5, <1>6, <1>7 DEF Formed

LEMMA HandedStep == ASSUME PoolTypes, Made, Built, Wired, Leases, Making, SharesCounted,
                           Formed
                    PROVE Handed
<1>0. /\ act \in [Activators -> [pc : PoolSteps, rt : Nat, engine : Nat]]
      /\ slot \in [Keys -> Nat] /\ key \in [Runtimes -> Keys] /\ refs \in [Runtimes -> Nat]
      /\ loose \in [Runtimes -> Nat] /\ gen \in [Runtimes -> Nat] /\ ready \in [Runtimes -> Nat]
      /\ worker \in [Runtimes -> Nat] /\ tts \in [Runtimes -> {"none", "waiting", "ok", "failed"}]
      /\ pool \in [Voices -> [engine : Nat, refs : Nat]] /\ release \subseteq Runtimes
      /\ rels \subseteq [rt : Runtimes, engine : Nat] /\ warms \subseteq Warmups
      /\ made \in Nat /\ Runtimes \subseteq Nat \ {0}
  BY DEF PoolTypes, Runtimes
<1>1. ASSUME NEW a \in Activators, Asking(a) PROVE Handed
  <2>0. PICK k \in Keys : AskOld(a, k) \/ AskNew(a, k)
    BY <1>1 DEF Asking
  <2>1. CASE AskOld(a, k)
    BY <2>1, <1>0 DEF AskOld, Handed, Idle
  <2>2. CASE AskNew(a, k)
    <3>0. PICK n : n = made + 1
      OBVIOUS
    <3>1. /\ key' = [key EXCEPT ![n] = k] /\ act' = [act EXCEPT ![a] = [pc |-> "worker", rt |-> n, engine |-> 0]]
      BY <2>2, <3>0 DEF AskNew
    <3>2. \A b \in Activators : act[b].rt # n /\ (act[b].pc = "install" => act[b].rt \in Runtimes)
      BY <1>0, <3>0, Named DEF Made
    <3> QED BY <1>0, <3>1, <3>2 DEF Handed
  <2> QED BY <2>0, <2>1, <2>2
<1>2. ASSUME NEW a \in Activators, Taking(a) PROVE Handed
  <2>0. PICK r \in Runtimes, v \in Voices :
           TakeOld(a, r, v) \/ TakeNew(a, r, v) \/ TakeNone(a, r) \/ Installs(a, r)
    BY <1>2 DEF Taking
  <2>1. CASE TakeOld(a, r, v)
    <3>1. /\ act' = [act EXCEPT ![a] = [pc |-> "install", rt |-> r, engine |-> pool[v].engine]]
          /\ pool' = [pool EXCEPT ![v] = [engine |-> pool[v].engine, refs |-> pool[v].refs + 1]]
          /\ key' = key /\ VoiceOf[key[r]] = v
      BY <2>1 DEF TakeOld, VoiceFor
    <3>2. v \in Voices
      BY <2>0
    <3> QED BY <1>0, <3>1, <3>2 DEF Handed
  <2>2. CASE TakeNew(a, r, v)
    <3>1. /\ act' = [act EXCEPT ![a] = [pc |-> "install", rt |-> r, engine |-> engines + 1]]
          /\ pool' = [pool EXCEPT ![v] = [engine |-> engines + 1, refs |-> 1]]
          /\ key' = key /\ VoiceOf[key[r]] = v
      BY <2>2 DEF TakeNew, VoiceFor
    <3>2. v \in Voices
      BY <2>0
    <3> QED BY <1>0, <3>1, <3>2 DEF Handed
  <2>3. CASE TakeNone(a, r)
    BY <2>3, <1>0 DEF TakeNone, Handed, Idle
  <2>4. CASE Installs(a, r)
    BY <2>4, <1>0 DEF Installs, Handed, Idle
  <2> QED BY <2>0, <2>1, <2>2, <2>3, <2>4
<1>3. ASSUME NEW a \in Activators, Counting(a) PROVE Handed
  <2>0. PICK r \in Runtimes : Counts(a, r)
    BY <1>3 DEF Counting
  <2>1. CASE Counts(a, r)
    <3>1. /\ key' = key /\ \A b \in Activators : act'[b] = act[b] \/ act'[b].pc # "install"
      BY <2>1, <1>0 DEF Counts, CallCounts, PinCounts, Idle
    <3> QED BY <3>1 DEF Handed
  <2> QED BY <2>0, <2>1
<1>4. ASSUME Pinning PROVE Handed
  <2>0. PICK r \in Runtimes, v \in Voices : PinMore(r) \/ PinSet(r, v) \/ Unpin(v, r)
    BY <1>4 DEF Pinning
  <2>1. CASE PinMore(r)
    BY <2>1, <1>0 DEF PinMore, Handed, Idle
  <2>2. CASE PinSet(r, v)
    BY <2>2, <1>0 DEF PinSet, Handed, Idle
  <2>3. CASE Unpin(v, r)
    BY <2>3, <1>0 DEF Unpin, Handed, Idle
  <2> QED BY <2>0, <2>1, <2>2, <2>3
<1>5. ASSUME Returning PROVE Handed
  <2>0. PICK r \in Runtimes : Returns(r) \/ LastReturns(r)
    BY <1>5 DEF Returning
  <2>1. CASE Returns(r)
    BY <2>1, <1>0 DEF Returns, Handed, Idle
  <2>2. CASE LastReturns(r)
    BY <2>2, <1>0 DEF LastReturns, Handed, Idle
  <2> QED BY <2>0, <2>1, <2>2
<1>6. ASSUME NEW x \in rels, Leaving(x) PROVE Handed
  <2>1. UNCHANGED <<act, key>>
    BY <1>6, LeavingKeeps
  <2> QED BY <2>1 DEF Handed
<1>7. ASSUME NEW x \in warms, NEW r \in Runtimes, Warms(x, r) PROVE Handed
  <2>1. UNCHANGED <<act, key>>
    BY <1>7, WarmKeeps
  <2> QED BY <2>1 DEF Handed
<1> QED BY <1>1, <1>2, <1>3, <1>4, <1>5, <1>6, <1>7 DEF Formed

LEMMA LentStep == ASSUME PoolTypes, Made, Built, Wired, Leases, Making, SharesCounted, Lives, Sharing, Lent, Apart,
                         Open, Warming, Kept, ~crossed', Formed
                  PROVE Lent'
<1>1. PICK m : NewShare(m)
  BY ShareStep
<1>2. Handed
  BY HandedStep
<1>3. closed \subseteq closed' /\ \A e \in closed' \ closed : Done(e)
  BY ClosedStep
<1>4. engines + 1 \notin closed /\ (\A v \in Voices : pool[v].engine # engines + 1)
  BY FreshEngine
<1>5. (\A a \in Activators : act[a].pc = "install" => act[a].engine = pool[VoiceFor(act[a].rt)].engine)'
  <2> SUFFICES ASSUME NEW a \in Activators, act'[a].pc = "install"
               PROVE act'[a].engine = pool'[VoiceOf[key'[act'[a].rt]]].engine
    BY DEF VoiceFor
  <2>1. CASE act'[a] = act[a] /\ key'[act[a].rt] = key[act[a].rt]
    <3>1. PICK v : v = VoiceFor(act[a].rt)
      OBVIOUS
    <3>2. v \in Voices /\ pool[v].refs > 0
      BY <2>1, <3>1, TakerTaken
    <3>3. act[a].engine = pool[v].engine
      BY <2>1, <3>1 DEF Lent
    <3>4. pool'[v].engine = pool[v].engine
      <4>1. ~(pool[v].refs = 0)
        BY <3>2
      <4> QED BY <1>1, <3>2, <4>1 DEF NewShare
    <3> QED BY <2>1, <3>1, <3>3, <3>4 DEF VoiceFor
  <2> QED BY <1>2, <2>1 DEF Handed
<1>6. (\A v \in Voices : pool[v].refs > 0 => pool[v].engine \notin closed)'
  <2> SUFFICES ASSUME NEW v \in Voices, pool'[v].refs > 0 PROVE pool'[v].engine \notin closed'
    OBVIOUS
  <2>1. CASE pool'[v].engine = pool[v].engine /\ pool[v].refs > 0
    BY <1>3, <2>1 DEF Lent, Done
  <2>2. CASE pool'[v].engine = engines + 1 /\ UNCHANGED closed
    BY <1>4, <2>2
  <2> QED BY <1>1, <2>1, <2>2 DEF NewShare
<1>7. (\A v, w \in Voices : pool[v].refs > 0 /\ pool[w].refs > 0 /\ pool[v].engine = pool[w].engine => v = w)'
  <2> SUFFICES ASSUME NEW v \in Voices, NEW w \in Voices, pool'[v].refs > 0, pool'[w].refs > 0,
                      pool'[v].engine = pool'[w].engine
               PROVE v = w
    OBVIOUS
  <2>1. \A u \in Voices : pool'[u].refs > 0 =>
           (pool'[u].engine = pool[u].engine /\ pool[u].refs > 0) \/ (u = m /\ pool'[u].engine = engines + 1)
    BY <1>1 DEF NewShare
  <2> QED BY <1>4, <2>1 DEF Lent
<1> QED BY <1>5, <1>6, <1>7 DEF Lent

LEMMA ApartStep == ASSUME PoolTypes, Made, Built, Wired, Leases, Making, SharesCounted, Lives, Sharing, Lent, Apart,
                          Open, Warming, Kept, ~crossed', Formed
                   PROVE Apart'
<1>1. PICK m : NewShare(m)
  BY ShareStep
<1>2. PICK n : NewOwner(n)
  BY OwnsStep
<1>3. /\ \A v \in Voices : pool[v].engine # engines + 1
      /\ \A r \in Runtimes, e \in Nat \ {0} : Owns(r, e) => e <= engines
  BY FreshEngine
<1>4. engines \in Nat
  BY DEF PoolTypes
<1>5. (\A e \in Nat \ {0}, r, s \in Runtimes : Owns(r, e) /\ Owns(s, e) => r = s)'
  <2> SUFFICES ASSUME NEW e \in Nat \ {0}, NEW r \in Runtimes, NEW s \in Runtimes, Owns(r, e)', Owns(s, e)'
               PROVE r = s
    OBVIOUS
  <2>1. \A t \in {r, s} : (Owns(t, e) /\ e # engines + 1) \/ (t = n /\ e = engines + 1)
    BY <1>2, <1>3, <1>4 DEF NewOwner
  <2> QED BY <2>1 DEF Apart
<1>6. (\A v \in Voices, r \in Runtimes : pool[v].refs > 0 => ~Owns(r, pool[v].engine))'
  <2> SUFFICES ASSUME NEW v \in Voices, NEW r \in Runtimes, NEW e, e = pool'[v].engine, pool'[v].refs > 0,
                      Owns(r, e)'
               PROVE FALSE
    BY DEF Owns
  <2>1. CASE e = pool[v].engine /\ pool[v].refs > 0
    <3>1. e \in Nat \ {0}
      BY <2>1 DEF PoolTypes, Built
    <3>2. Owns(r, e)
      BY <1>2, <1>3, <2>1, <3>1 DEF NewOwner
    <3> QED BY <2>1, <3>2 DEF Apart
  <2>2. CASE e = engines + 1 /\ UNCHANGED <<worker, release, rels, warms>>
    <3>1. Owns(r, e)
      BY <2>2 DEF Owns
    <3> QED BY <1>3, <1>4, <2>2, <3>1
  <2> QED BY <1>1, <2>1, <2>2 DEF NewShare
<1> QED BY <1>5, <1>6 DEF Apart

\* A step that leaves the runtimes with a share alone.
LEMMA SharingSame == ASSUME Sharing, UNCHANGED <<release, gen, worker>>,
                            \A t \in Runtimes : refs'[t] > 0 <=> refs[t] > 0,
                            \A t \in release : /\ (Here(t) => Here(t)') /\ (Torn(t) => Torn(t)')
                                               /\ (Wanted(t) => Wanted(t)')
                                               /\ pool'[VoiceFor(t)'].engine = pool[VoiceFor(t)].engine
                     PROVE Sharing'
<1> QED BY DEF Sharing

LEMMA SharingStep == ASSUME PoolTypes, Made, Built, Wired, Leases, Making, SharesCounted,
                            Lives, Sharing, Lent, Apart, Open, Warming, Kept, ~crossed', Formed
                     PROVE Sharing'
<1>0. /\ act \in [Activators -> [pc : PoolSteps, rt : Nat, engine : Nat]]
      /\ slot \in [Keys -> Nat] /\ key \in [Runtimes -> Keys] /\ refs \in [Runtimes -> Nat]
      /\ loose \in [Runtimes -> Nat] /\ gen \in [Runtimes -> Nat] /\ ready \in [Runtimes -> Nat]
      /\ worker \in [Runtimes -> Nat] /\ tts \in [Runtimes -> {"none", "waiting", "ok", "failed"}]
      /\ pool \in [Voices -> [engine : Nat, refs : Nat]] /\ release \subseteq Runtimes
      /\ rels \subseteq [rt : Runtimes, engine : Nat] /\ warms \subseteq Warmups
      /\ made \in Nat /\ Runtimes \subseteq Nat \ {0}
  BY DEF PoolTypes, Runtimes
<1>1. ASSUME NEW a \in Activators, Asking(a) PROVE Sharing'
  <2>0. PICK k \in Keys : AskOld(a, k) \/ AskNew(a, k)
    BY <1>1 DEF Asking
  <2>1. CASE AskOld(a, k)
    <3>1. UNCHANGED <<slot, key, release, gen, worker, rels>> /\ \A t \in Runtimes : refs'[t] > 0 <=> refs[t] > 0
      BY <2>1 DEF AskOld
    <3>2. \A b \in Activators : act[b].pc = "activate" => act'[b] = act[b]
      BY <2>1, <1>0 DEF AskOld
    <3>3. \A t \in release : pool'[VoiceFor(t)].engine = pool[VoiceFor(t)].engine
      BY <2>1, <1>0, ShareTaken DEF AskOld
    <3>4. \A t : (Here(t) => Here(t)') /\ (Torn(t) => Torn(t)') /\ (Wanted(t) => Wanted(t)')
      BY <3>1, <3>2 DEF Here, Torn, Wanted
    <3> QED BY <3>1, <3>3, <3>4, SharingSame DEF VoiceFor
  <2>2. CASE AskNew(a, k)
    <3>0. PICK n : n = made + 1
      OBVIOUS
    <3>1. n \in Runtimes /\ made' = n
      BY <2>2, <3>0, NextRuntime DEF AskNew
    <3>2. /\ slot' = [slot EXCEPT ![k] = n] /\ slot[k] = 0
          /\ key' = [key EXCEPT ![n] = k]
          /\ act' = [act EXCEPT ![a] = [pc |-> "worker", rt |-> n, engine |-> 0]]
      BY <2>2, <3>0 DEF AskNew
    <3>3. UNCHANGED <<pool, pinned, refs, loose, worker, release, ready, gen, tts, warms,
                      rels, closed, engines, crossed>>
      BY <2>2 DEF AskNew
    <3>4. (\A s \in Runtimes : s # n => (Here(s)' <=> Here(s))) /\ Here(n)'
      <4>1. k \in Keys /\ key'[n] = k /\ slot'[k] = n
        BY <2>0, <1>0, <3>1, <3>2
      <4>2. \A s \in Runtimes : s # n => key'[s] = key[s] /\ key[s] \in Keys
        BY <1>0, <3>1, <3>2
      <4>3. \A j \in Keys : j # k => slot'[j] = slot[j]
        BY <1>0, <3>2
      <4> QED BY <1>0, <3>1, <3>2, <4>1, <4>2, <4>3 DEF Here
    <3>5. gen[n] = 0 /\ refs[n] = 0 /\ worker[n] = 0
      BY <1>0, <3>0, <3>1 DEF Made
    <3>6. \A t \in release : t # n
      BY <1>0, <3>0 DEF Made
    <3>7. \A t \in release : /\ (Here(t) => Here(t)') /\ (Torn(t) => Torn(t)') /\ (Wanted(t) => Wanted(t)')
                              /\ pool'[VoiceFor(t)'].engine = pool[VoiceFor(t)].engine
      <4> SUFFICES ASSUME NEW t \in release
                   PROVE /\ (Here(t) => Here(t)') /\ (Torn(t) => Torn(t)') /\ (Wanted(t) => Wanted(t)')
                         /\ pool'[VoiceFor(t)'].engine = pool[VoiceFor(t)].engine
        OBVIOUS
      <4>1. VoiceFor(t)' = VoiceFor(t)
        BY <1>0, <3>2, <3>6 DEF VoiceFor
      <4>2. Wanted(t) => Wanted(t)'
        <5>1. \A b \in Activators : act[b].pc = "activate" => act'[b] = act[b]
          BY <2>2, <1>0, <3>2 DEF AskNew
        <5> QED BY <5>1 DEF Wanted
      <4> QED BY <1>0, <3>3, <3>4, <3>6, <4>1, <4>2 DEF Torn
    <3> QED BY <3>3, <3>7, SharingSame
  <2> QED BY <2>0, <2>1, <2>2
<1>2. ASSUME NEW a \in Activators, Taking(a) PROVE Sharing'
  <2>0. PICK r \in Runtimes, v \in Voices :
           TakeOld(a, r, v) \/ TakeNew(a, r, v) \/ TakeNone(a, r) \/ Installs(a, r)
    BY <1>2 DEF Taking
  <2>1. CASE TakeOld(a, r, v)
    <3>1. UNCHANGED <<slot, key, release, gen, worker, rels>> /\ \A t \in Runtimes : refs'[t] > 0 <=> refs[t] > 0
      BY <2>1 DEF TakeOld
    <3>2. \A b \in Activators : act[b].pc = "activate" => act'[b] = act[b]
      BY <2>1, <1>0 DEF TakeOld
    <3>3. \A t \in release : pool'[VoiceFor(t)].engine = pool[VoiceFor(t)].engine
      BY <2>1, <1>0, ShareTaken DEF TakeOld
    <3>4. \A t : (Here(t) => Here(t)') /\ (Torn(t) => Torn(t)') /\ (Wanted(t) => Wanted(t)')
      BY <3>1, <3>2 DEF Here, Torn, Wanted
    <3> QED BY <3>1, <3>3, <3>4, SharingSame DEF VoiceFor
  <2>2. CASE TakeNew(a, r, v)
    <3>1. UNCHANGED <<slot, key, release, gen, worker, rels>> /\ \A t \in Runtimes : refs'[t] > 0 <=> refs[t] > 0
      BY <2>2 DEF TakeNew
    <3>2. \A b \in Activators : act[b].pc = "activate" => act'[b] = act[b]
      BY <2>2, <1>0 DEF TakeNew
    <3>3. \A t \in release : pool'[VoiceFor(t)].engine = pool[VoiceFor(t)].engine
      BY <2>2, <1>0, ShareTaken DEF TakeNew
    <3>4. \A t : (Here(t) => Here(t)') /\ (Torn(t) => Torn(t)') /\ (Wanted(t) => Wanted(t)')
      BY <3>1, <3>2 DEF Here, Torn, Wanted
    <3> QED BY <3>1, <3>3, <3>4, SharingSame DEF VoiceFor
  <2>3. CASE TakeNone(a, r)
    <3>1. UNCHANGED <<slot, key, release, gen, worker, rels>> /\ \A t \in Runtimes : refs'[t] > 0 <=> refs[t] > 0
      BY <2>3 DEF TakeNone
    <3>2. \A b \in Activators : act[b].pc = "activate" => act'[b] = act[b]
      BY <2>3, <1>0 DEF TakeNone
    <3>3. \A t \in release : pool'[VoiceFor(t)].engine = pool[VoiceFor(t)].engine
      BY <2>3, <1>0, ShareTaken DEF TakeNone
    <3>4. \A t : (Here(t) => Here(t)') /\ (Torn(t) => Torn(t)') /\ (Wanted(t) => Wanted(t)')
      BY <3>1, <3>2 DEF Here, Torn, Wanted
    <3> QED BY <3>1, <3>3, <3>4, SharingSame DEF VoiceFor
  <2>4. CASE Installs(a, r)
    <3>1. /\ UNCHANGED <<slot, key, gen, rels, refs, pool>> /\ release' = release \cup {r}
          /\ worker' = [worker EXCEPT ![r] = act[a].engine] /\ act[a].rt = r /\ act[a].pc = "install"
          /\ act' = [act EXCEPT ![a] = [pc |-> "activate", rt |-> r, engine |-> act[a].engine]]
      BY <2>4 DEF Installs
    <3>2. gen[r] = 0 /\ Here(r)
      <4>1. gen[r] = 0
        BY <3>1 DEF Lives, Placed, Early
      <4>2. r <= made
        BY <3>1 DEF Made
      <4> QED BY <2>0, <4>1, <4>2 DEF Lives, Placed
    <3>3. act[a].engine = pool[VoiceFor(r)].engine
      BY <3>1 DEF Lent
    <3>4. Wanted(r)' /\ \A t : (Here(t) => Here(t)') /\ (Torn(t) => Torn(t)') /\ (Wanted(t) => Wanted(t)')
      <4>1. act'[a].pc = "activate" /\ act'[a].rt = r /\ \A b \in Activators : act[b].pc = "activate" => act'[b] = act[b]
        BY <1>0, <3>1
      <4> QED BY <3>1, <4>1 DEF Here, Torn, Wanted
    <3>5. \A t : VoiceFor(t)' = VoiceFor(t)
      BY <3>1 DEF VoiceFor
    <3>6. \A t \in Runtimes : worker'[t] = IF t = r THEN act[a].engine ELSE worker[t]
      BY <1>0, <3>1
    <3> QED BY <1>0, <3>1, <3>2, <3>3, <3>4, <3>5, <3>6 DEF Sharing
  <2> QED BY <2>0, <2>1, <2>2, <2>3, <2>4
<1>3. ASSUME NEW a \in Activators, Counting(a) PROVE Sharing'
  <2>0. PICK r \in Runtimes : Counts(a, r)
    BY <1>3 DEF Counting
  <2>1. CASE Counts(a, r)
    <3>1. Here(r) /\ ~Torn(r) /\ (refs[r] = 0 => gen[r] = 0)
      BY <2>1, Uncrossing DEF Lives
    <3>2. /\ UNCHANGED <<slot, key, release, worker, rels, pool>> /\ act[a].rt = r
          /\ \A b \in Activators : b # a => act'[b] = act[b]
      BY <2>1, <1>0 DEF Counts, CallCounts, PinCounts
    <3>3. /\ \A t \in Runtimes : t # r => gen'[t] = gen[t] /\ refs'[t] = refs[t]
          /\ refs'[r] > 0
      BY <2>1, <1>0 DEF Counts, First, Another
    <3>4. \A t \in Runtimes : t # r /\ Wanted(t) => Wanted(t)'
      BY <3>2 DEF Wanted
    <3>5. \A t : (Here(t)' <=> Here(t)) /\ (Torn(t)' <=> Torn(t)) /\ VoiceFor(t)' = VoiceFor(t)
      BY <3>2 DEF Here, Torn, VoiceFor
    <3>6. r \in release => worker[r] = pool[VoiceFor(r)].engine
      <4>1. refs[r] > 0 \/ gen[r] = 0
        BY <1>0, <3>1
      <4> QED BY <1>0, <4>1 DEF Sharing
    <3> QED BY <1>0, <3>1, <3>2, <3>3, <3>4, <3>5, <3>6 DEF Sharing
  <2> QED BY <2>0, <2>1
<1>4. ASSUME Pinning PROVE Sharing'
  <2>0. PICK r \in Runtimes, v \in Voices : PinMore(r) \/ PinSet(r, v) \/ Unpin(v, r)
    BY <1>4 DEF Pinning
  <2>1. CASE PinMore(r)
    <3>1. UNCHANGED <<slot, key, release, gen, worker, rels>> /\ \A t \in Runtimes : refs'[t] > 0 <=> refs[t] > 0
      BY <2>1 DEF PinMore
    <3>2. \A b \in Activators : act[b].pc = "activate" => act'[b] = act[b]
      BY <2>1, <1>0 DEF PinMore
    <3>3. \A t \in release : pool'[VoiceFor(t)].engine = pool[VoiceFor(t)].engine
      BY <2>1, <1>0, ShareTaken DEF PinMore
    <3>4. \A t : (Here(t) => Here(t)') /\ (Torn(t) => Torn(t)') /\ (Wanted(t) => Wanted(t)')
      BY <3>1, <3>2 DEF Here, Torn, Wanted
    <3> QED BY <3>1, <3>3, <3>4, SharingSame DEF VoiceFor
  <2>2. CASE PinSet(r, v)
    <3>1. UNCHANGED <<slot, key, release, gen, worker, rels>> /\ \A t \in Runtimes : refs'[t] > 0 <=> refs[t] > 0
      BY <2>2 DEF PinSet
    <3>2. \A b \in Activators : act[b].pc = "activate" => act'[b] = act[b]
      BY <2>2, <1>0 DEF PinSet
    <3>3. \A t \in release : pool'[VoiceFor(t)].engine = pool[VoiceFor(t)].engine
      BY <2>2, <1>0, ShareTaken DEF PinSet
    <3>4. \A t : (Here(t) => Here(t)') /\ (Torn(t) => Torn(t)') /\ (Wanted(t) => Wanted(t)')
      BY <3>1, <3>2 DEF Here, Torn, Wanted
    <3> QED BY <3>1, <3>3, <3>4, SharingSame DEF VoiceFor
  <2>3. CASE Unpin(v, r)
    <3>1. UNCHANGED <<slot, key, release, gen, worker, rels>> /\ \A t \in Runtimes : refs'[t] > 0 <=> refs[t] > 0
      BY <2>3 DEF Unpin
    <3>2. \A b \in Activators : act[b].pc = "activate" => act'[b] = act[b]
      BY <2>3, <1>0 DEF Unpin
    <3>3. \A t \in release : pool'[VoiceFor(t)].engine = pool[VoiceFor(t)].engine
      BY <2>3, <1>0, ShareTaken DEF Unpin
    <3>4. \A t : (Here(t) => Here(t)') /\ (Torn(t) => Torn(t)') /\ (Wanted(t) => Wanted(t)')
      BY <3>1, <3>2 DEF Here, Torn, Wanted
    <3> QED BY <3>1, <3>3, <3>4, SharingSame DEF VoiceFor
  <2> QED BY <2>0, <2>1, <2>2, <2>3
<1>5. ASSUME Returning PROVE Sharing'
  <2>0. PICK r \in Runtimes : Returns(r) \/ LastReturns(r)
    BY <1>5 DEF Returning
  <2>1. CASE Returns(r)
    <3>0. refs[r] > 0
      BY <2>1, LeaseTaken DEF Returns
    <3>1. UNCHANGED <<slot, key, release, gen, worker, rels>> /\ \A t \in Runtimes : refs'[t] > 0 <=> refs[t] > 0
      BY <2>1, <1>0, <3>0 DEF Returns
    <3>2. \A b \in Activators : act[b].pc = "activate" => act'[b] = act[b]
      BY <2>1, <1>0 DEF Returns
    <3>3. \A t \in release : pool'[VoiceFor(t)].engine = pool[VoiceFor(t)].engine
      BY <2>1, <1>0, ShareTaken DEF Returns
    <3>4. \A t : (Here(t) => Here(t)') /\ (Torn(t) => Torn(t)') /\ (Wanted(t) => Wanted(t)')
      BY <3>1, <3>2 DEF Here, Torn, Wanted
    <3> QED BY <3>1, <3>3, <3>4, SharingSame DEF VoiceFor
  <2>2. CASE LastReturns(r)
    <3>0. PICK z : z = [rt |-> r, engine |-> OwnWorker(r)]
      OBVIOUS
    <3>1. /\ rels' = rels \cup {z} /\ z.rt = r /\ refs[r] = 1
          /\ worker' = [worker EXCEPT ![r] = 0] /\ refs' = [refs EXCEPT ![r] = 0]
          /\ UNCHANGED <<slot, act, key, gen, release, pool>>
      BY <2>2, <3>0 DEF LastReturns
    <3>2. Torn(r)' /\ \A t : (Here(t)' <=> Here(t)) /\ (Torn(t) => Torn(t)') /\ (Wanted(t) => Wanted(t)') /\ VoiceFor(t)' = VoiceFor(t)
      BY <3>1 DEF Torn, Here, Wanted, VoiceFor
    <3>3. gen[r] = 1
      BY <3>1 DEF Lives, Once
    <3>4. refs'[r] = 0 /\ worker'[r] = 0 /\ \A t \in Runtimes : t # r => refs'[t] = refs[t] /\ worker'[t] = worker[t]
      BY <1>0, <3>1
    <3>5. UNCHANGED <<gen, release, pool>> /\ refs[r] > 0
      BY <3>1
    <3> QED BY <3>2, <3>3, <3>4, <3>5 DEF Sharing
  <2> QED BY <2>0, <2>1, <2>2
<1>6. ASSUME NEW x \in rels, Leaving(x) PROVE Sharing'
  <2>0. PICK r \in Runtimes, v \in Voices :
           Closes(x) \/ GivesBack(x, r, v) \/ Leaves(x, r) \/ Stays(x, r)
    BY <1>6 DEF Leaving
  <2>1. CASE Closes(x)
    <3>1. UNCHANGED <<slot, key, release, gen, worker, rels>> /\ \A t \in Runtimes : refs'[t] > 0 <=> refs[t] > 0
      BY <2>1 DEF Closes
    <3>2. \A b \in Activators : act[b].pc = "activate" => act'[b] = act[b]
      BY <2>1, <1>0 DEF Closes
    <3>3. \A t \in release : pool'[VoiceFor(t)].engine = pool[VoiceFor(t)].engine
      BY <2>1, <1>0, ShareTaken DEF Closes
    <3>4. \A t : (Here(t) => Here(t)') /\ (Torn(t) => Torn(t)') /\ (Wanted(t) => Wanted(t)')
      BY <3>1, <3>2 DEF Here, Torn, Wanted
    <3> QED BY <3>1, <3>3, <3>4, SharingSame DEF VoiceFor
  <2>2. CASE GivesBack(x, r, v)
    <3>1. /\ slot' = [slot EXCEPT ![key[r]] = 0] /\ UNCHANGED <<key, refs, worker, gen, act>>
          /\ rels' = rels \ {x} /\ refs[r] = 0 /\ Here(r) /\ x.rt = r /\ release' = release \ {r}
          /\ pool' = [pool EXCEPT ![v] = [engine |-> pool[v].engine, refs |-> pool[v].refs - 1]]
      BY <2>2 DEF GivesBack, Here
    <3>2. \A t \in Runtimes : t # r => (Here(t)' <=> Here(t))
      BY <1>0, <3>1 DEF Here
    <3>3. gen[r] = 1 /\ worker[r] = 0
      <4>1. gen[r] = 1
        BY <3>1 DEF Lives, Single
      <4> QED BY <1>0, <3>1, <4>1 DEF Sharing
    <3>4. \A t \in Runtimes : t # r /\ Torn(t) => Torn(t)'
      BY <3>1 DEF Torn
    <3>5. \A t : Wanted(t) => Wanted(t)'
      BY <3>1 DEF Wanted
    <3>6. \A t : VoiceFor(t)' = VoiceFor(t) /\ \A w \in Voices : pool'[w].engine = pool[w].engine
      BY <1>0, <3>1 DEF VoiceFor
    <3>7. \A t \in Runtimes : VoiceFor(t) \in Voices
      BY Spoken
    <3>8. \A t \in Runtimes : pool'[VoiceFor(t)'].engine = pool[VoiceFor(t)].engine
      BY <3>6, <3>7
    <3> QED BY <1>0, <3>1, <3>2, <3>3, <3>4, <3>5, <3>8 DEF Sharing
  <2>3. CASE Leaves(x, r)
    <3>1. /\ slot' = [slot EXCEPT ![key[r]] = 0] /\ UNCHANGED <<key, refs, worker, gen, act, release, pool>>
          /\ rels' = rels \ {x} /\ x.rt = r /\ r \notin release
      BY <2>3 DEF Leaves
    <3>2. \A t \in Runtimes : t # r /\ Here(t) => Here(t)'
      BY <2>3, <1>0, <3>1 DEF Here, Leaves
    <3>4. \A t \in Runtimes : t # r /\ Torn(t) => Torn(t)'
      BY <3>1 DEF Torn
    <3>5. \A t : Wanted(t) => Wanted(t)'
      BY <3>1 DEF Wanted
    <3>6. \A t : VoiceFor(t)' = VoiceFor(t)
      BY <3>1 DEF VoiceFor
    <3> QED BY <1>0, <3>1, <3>2, <3>4, <3>5, <3>6, SharingSame
  <2>4. CASE Stays(x, r)
    <3>1. /\ UNCHANGED <<slot, key, refs, worker, gen, act, release, pool>>
          /\ rels' = rels \ {x} /\ x.rt = r /\ ~(refs[r] = 0 /\ Here(r))
      BY <2>4 DEF Stays, Here
    <3>2. r \notin release
      BY <1>0, <3>1 DEF Lives, Single, Sharing
    <3>4. \A t \in Runtimes : t # r /\ Torn(t) => Torn(t)'
      BY <3>1 DEF Torn
    <3>5. \A t : Wanted(t) => Wanted(t)'
      BY <3>1 DEF Wanted
    <3>6. \A t : VoiceFor(t)' = VoiceFor(t) /\ (Here(t)' <=> Here(t))
      BY <3>1 DEF VoiceFor, Here
    <3> QED BY <1>0, <3>1, <3>2, <3>4, <3>5, <3>6, SharingSame
  <2> QED BY <2>0, <2>1, <2>2, <2>3, <2>4
<1>7. ASSUME NEW x \in warms, NEW r \in Runtimes, Warms(x, r) PROVE Sharing'
  <2>1. UNCHANGED <<slot, pool, act, key, refs, release, gen, rels>> /\ x.rt = r
    BY <1>7, WarmKeeps
  <2>2. \A t : VoiceFor(t)' = VoiceFor(t) /\ (Here(t)' <=> Here(t)) /\ (Torn(t)' <=> Torn(t)) /\ (Wanted(t)' <=> Wanted(t))
    BY <2>1 DEF VoiceFor, Here, Torn, Wanted
  <2>3. CASE UNCHANGED worker
    BY <1>0, <2>1, <2>2, <2>3, SharingSame
  <2>4. CASE WarmPuts(x, r)
    <3>1. worker' = [worker EXCEPT ![r] = x.engine] /\ Current(x) /\ x.pc = "install"
      BY <2>4 DEF WarmPuts
    <3>2. refs[r] > 0 /\ gen[r] = 1
      BY <2>1, <3>1, WarmNumbers DEF Lives
    <3>3. r \in release => x.engine = worker[r]
      BY <2>1, <3>1 DEF Warming, WarmFine
    <3> QED BY <1>0, <2>1, <2>2, <3>1, <3>2, <3>3 DEF Sharing
  <2>5. CASE WarmBreaks(x, r)
    <3>1. /\ worker' = IF x.owned /\ worker[r] = x.engine THEN [worker EXCEPT ![r] = 0] ELSE worker
          /\ Current(x) /\ x.pc # "acquire"
      BY <2>5 DEF WarmBreaks
    <3>2. refs[r] > 0 /\ gen[r] = 1
      BY <2>1, <3>1, WarmNumbers DEF Lives
    <3>3. x.owned <=> r \notin release
      BY <2>1, <3>1 DEF Warming, WarmFine
    <3> QED BY <1>0, <2>1, <2>2, <3>1, <3>2, <3>3 DEF Sharing
  <2> QED BY <1>7, <2>3, <2>4, <2>5 DEF Warms, WarmTakes, WarmMakes, WarmGoes, WarmAnswers, WarmFails, WarmDrops
<1> QED BY <1>1, <1>2, <1>3, <1>4, <1>5, <1>6, <1>7 DEF Formed

LEMMA Installed == ASSUME PoolTypes, Made, Built, Wired, Leases, Making, SharesCounted,
                          Lives, Sharing, Lent, Apart, Open, Warming, Kept, ~crossed', Formed
                   PROVE \A t \in Runtimes : t \notin release' /\ worker'[t] # 0 => (t \notin release /\ worker'[t] = worker[t]) \/ worker'[t] \notin closed
<1>0. /\ act \in [Activators -> [pc : PoolSteps, rt : Nat, engine : Nat]]
      /\ slot \in [Keys -> Nat] /\ key \in [Runtimes -> Keys] /\ refs \in [Runtimes -> Nat]
      /\ loose \in [Runtimes -> Nat] /\ gen \in [Runtimes -> Nat] /\ ready \in [Runtimes -> Nat]
      /\ worker \in [Runtimes -> Nat] /\ tts \in [Runtimes -> {"none", "waiting", "ok", "failed"}]
      /\ pool \in [Voices -> [engine : Nat, refs : Nat]] /\ release \subseteq Runtimes
      /\ rels \subseteq [rt : Runtimes, engine : Nat] /\ warms \subseteq Warmups
      /\ made \in Nat /\ Runtimes \subseteq Nat \ {0}
  BY DEF PoolTypes, Runtimes
<1>1. ASSUME NEW a \in Activators, Asking(a) PROVE \A t \in Runtimes : t \notin release' /\ worker'[t] # 0 => (t \notin release /\ worker'[t] = worker[t]) \/ worker'[t] \notin closed
  <2>0. PICK k \in Keys : AskOld(a, k) \/ AskNew(a, k)
    BY <1>1 DEF Asking
  <2>1. CASE AskOld(a, k)
    BY <2>1 DEF AskOld
  <2>2. CASE AskNew(a, k)
    BY <2>2 DEF AskNew
  <2> QED BY <2>0, <2>1, <2>2
<1>2. ASSUME NEW a \in Activators, Taking(a) PROVE \A t \in Runtimes : t \notin release' /\ worker'[t] # 0 => (t \notin release /\ worker'[t] = worker[t]) \/ worker'[t] \notin closed
  <2>0. PICK r \in Runtimes, v \in Voices :
           TakeOld(a, r, v) \/ TakeNew(a, r, v) \/ TakeNone(a, r) \/ Installs(a, r)
    BY <1>2 DEF Taking
  <2>1. CASE TakeOld(a, r, v)
    BY <2>1 DEF TakeOld
  <2>2. CASE TakeNew(a, r, v)
    BY <2>2 DEF TakeNew
  <2>3. CASE TakeNone(a, r)
    BY <2>3 DEF TakeNone
  <2>4. CASE Installs(a, r)
    BY <2>4, <1>0 DEF Installs
  <2> QED BY <2>0, <2>1, <2>2, <2>3, <2>4
<1>3. ASSUME NEW a \in Activators, Counting(a) PROVE \A t \in Runtimes : t \notin release' /\ worker'[t] # 0 => (t \notin release /\ worker'[t] = worker[t]) \/ worker'[t] \notin closed
  <2>0. PICK r \in Runtimes : Counts(a, r)
    BY <1>3 DEF Counting
  <2>1. CASE Counts(a, r)
    BY <2>1 DEF Counts
  <2> QED BY <2>0, <2>1
<1>4. ASSUME Pinning PROVE \A t \in Runtimes : t \notin release' /\ worker'[t] # 0 => (t \notin release /\ worker'[t] = worker[t]) \/ worker'[t] \notin closed
  <2>0. PICK r \in Runtimes, v \in Voices : PinMore(r) \/ PinSet(r, v) \/ Unpin(v, r)
    BY <1>4 DEF Pinning
  <2>1. CASE PinMore(r)
    BY <2>1 DEF PinMore
  <2>2. CASE PinSet(r, v)
    BY <2>2 DEF PinSet
  <2>3. CASE Unpin(v, r)
    BY <2>3 DEF Unpin
  <2> QED BY <2>0, <2>1, <2>2, <2>3
<1>5. ASSUME Returning PROVE \A t \in Runtimes : t \notin release' /\ worker'[t] # 0 => (t \notin release /\ worker'[t] = worker[t]) \/ worker'[t] \notin closed
  <2>0. PICK r \in Runtimes : Returns(r) \/ LastReturns(r)
    BY <1>5 DEF Returning
  <2>1. CASE Returns(r)
    BY <2>1 DEF Returns
  <2>2. CASE LastReturns(r)
    BY <2>2, <1>0 DEF LastReturns
  <2> QED BY <2>0, <2>1, <2>2
<1>6. ASSUME NEW x \in rels, Leaving(x) PROVE \A t \in Runtimes : t \notin release' /\ worker'[t] # 0 => (t \notin release /\ worker'[t] = worker[t]) \/ worker'[t] \notin closed
  <2>0. PICK r \in Runtimes, v \in Voices :
           Closes(x) \/ GivesBack(x, r, v) \/ Leaves(x, r) \/ Stays(x, r)
    BY <1>6 DEF Leaving
  <2>1. CASE Closes(x)
    BY <2>1 DEF Closes
  <2>2. CASE GivesBack(x, r, v)
    <3>1. /\ UNCHANGED worker /\ refs[r] = 0 /\ x.rt = r /\ release' = release \ {r}
      BY <2>2 DEF GivesBack
    <3>2. worker[r] = 0
      BY <1>0, <3>1 DEF Lives, Single, Sharing
    <3> QED BY <3>1, <3>2
  <2>3. CASE Leaves(x, r)
    BY <2>3 DEF Leaves
  <2>4. CASE Stays(x, r)
    BY <2>4 DEF Stays
  <2> QED BY <2>0, <2>1, <2>2, <2>3, <2>4
<1>7. ASSUME NEW x \in warms, NEW r \in Runtimes, Warms(x, r) PROVE \A t \in Runtimes : t \notin release' /\ worker'[t] # 0 => (t \notin release /\ worker'[t] = worker[t]) \/ worker'[t] \notin closed
  <2>1. CASE WarmTakes(x, r)
    BY <2>1 DEF WarmTakes
  <2>2. CASE WarmMakes(x, r)
    BY <2>2 DEF WarmMakes
  <2>3. CASE WarmPuts(x, r)
    <3>1. worker' = [worker EXCEPT ![r] = x.engine] /\ Current(x) /\ x.pc = "install" /\ release' = release /\ x.rt = r
      BY <2>3 DEF WarmPuts
    <3>2. x.owned => x.engine \notin closed
      BY <3>1 DEF Warming, WarmFine
    <3>3. ~x.owned => worker[r] = x.engine
      BY <3>1 DEF Warming, WarmFine
    <3>4. x.owned \in BOOLEAN
      BY <1>0 DEF Warmups
    <3> QED BY <1>0, <3>1, <3>2, <3>3, <3>4
  <2>4. CASE WarmGoes(x, r)
    BY <2>4 DEF WarmGoes
  <2>5. CASE WarmAnswers(x, r)
    BY <2>5 DEF WarmAnswers
  <2>6. CASE WarmFails(x, r)
    BY <2>6 DEF WarmFails
  <2>7. CASE WarmDrops(x, r)
    BY <2>7 DEF WarmDrops
  <2>8. CASE WarmBreaks(x, r)
    BY <2>8, <1>0 DEF WarmBreaks
  <2> QED BY <1>7, <2>1, <2>2, <2>3, <2>4, <2>5, <2>6, <2>7, <2>8 DEF Warms
<1> QED BY <1>1, <1>2, <1>3, <1>4, <1>5, <1>6, <1>7 DEF Formed

LEMMA OpenStep == ASSUME PoolTypes, Made, Built, Wired, Leases, Making, SharesCounted, Lives, Sharing, Lent, Apart,
                         Open, Warming, Kept, ~crossed', Formed
                  PROVE Open'
<1>1. \A t \in Runtimes : t \notin release' /\ worker'[t] # 0 =>
         (t \notin release /\ worker'[t] = worker[t]) \/ worker'[t] \notin closed
  BY Installed
<1>2. \A e \in closed' \ closed : Done(e)
  BY ClosedStep
<1>3. \A t \in Runtimes : t \notin release' /\ worker'[t] # 0 => worker'[t] \notin closed
  BY <1>1 DEF Open
<1> QED BY <1>2, <1>3 DEF Open, Done

NewNumber ==
    \/ engines' = engines
    \/ /\ engines' = engines + 1
       /\ \/ \E v \in Voices : pool'[v].refs > 0 /\ pool'[v].engine = engines + 1
          \/ \E t \in Runtimes : Owns(t, engines)'

LEMMA Numbered == ASSUME PoolTypes, Made, Built, Wired, Leases, Making, SharesCounted,
                         Lives, Sharing, Lent, Apart, Open, Warming, Kept, ~crossed', Formed
                  PROVE NewNumber
<1>0. /\ act \in [Activators -> [pc : PoolSteps, rt : Nat, engine : Nat]]
      /\ slot \in [Keys -> Nat] /\ key \in [Runtimes -> Keys] /\ refs \in [Runtimes -> Nat]
      /\ loose \in [Runtimes -> Nat] /\ gen \in [Runtimes -> Nat] /\ ready \in [Runtimes -> Nat]
      /\ worker \in [Runtimes -> Nat] /\ tts \in [Runtimes -> {"none", "waiting", "ok", "failed"}]
      /\ pool \in [Voices -> [engine : Nat, refs : Nat]] /\ release \subseteq Runtimes
      /\ rels \subseteq [rt : Runtimes, engine : Nat] /\ warms \subseteq Warmups
      /\ made \in Nat /\ Runtimes \subseteq Nat \ {0}
  BY DEF PoolTypes, Runtimes
<1>1. ASSUME NEW a \in Activators, Asking(a) PROVE NewNumber
  <2>0. PICK k \in Keys : AskOld(a, k) \/ AskNew(a, k)
    BY <1>1 DEF Asking
  <2>1. CASE AskOld(a, k)
    BY <2>1 DEF AskOld, NewNumber
  <2>2. CASE AskNew(a, k)
    BY <2>2 DEF AskNew, NewNumber
  <2> QED BY <2>0, <2>1, <2>2
<1>2. ASSUME NEW a \in Activators, Taking(a) PROVE NewNumber
  <2>0. PICK r \in Runtimes, v \in Voices :
           TakeOld(a, r, v) \/ TakeNew(a, r, v) \/ TakeNone(a, r) \/ Installs(a, r)
    BY <1>2 DEF Taking
  <2>1. CASE TakeOld(a, r, v)
    BY <2>1 DEF TakeOld, NewNumber
  <2>2. CASE TakeNew(a, r, v)
    <3>1. engines' = engines + 1 /\ pool' = [pool EXCEPT ![v] = [engine |-> engines + 1, refs |-> 1]] /\ v \in Voices
      BY <2>2, <2>0 DEF TakeNew
    <3>2. pool'[v].refs > 0 /\ pool'[v].engine = engines + 1
      BY <1>0, <3>1
    <3> QED BY <3>1, <3>2 DEF NewNumber
  <2>3. CASE TakeNone(a, r)
    BY <2>3 DEF TakeNone, NewNumber
  <2>4. CASE Installs(a, r)
    BY <2>4 DEF Installs, NewNumber
  <2> QED BY <2>0, <2>1, <2>2, <2>3, <2>4
<1>3. ASSUME NEW a \in Activators, Counting(a) PROVE NewNumber
  <2>0. PICK r \in Runtimes : Counts(a, r)
    BY <1>3 DEF Counting
  <2>1. CASE Counts(a, r)
    BY <2>1 DEF Counts, NewNumber
  <2> QED BY <2>0, <2>1
<1>4. ASSUME Pinning PROVE NewNumber
  <2>0. PICK r \in Runtimes, v \in Voices : PinMore(r) \/ PinSet(r, v) \/ Unpin(v, r)
    BY <1>4 DEF Pinning
  <2>1. CASE PinMore(r)
    BY <2>1 DEF PinMore, NewNumber
  <2>2. CASE PinSet(r, v)
    BY <2>2 DEF PinSet, NewNumber
  <2>3. CASE Unpin(v, r)
    BY <2>3 DEF Unpin, NewNumber
  <2> QED BY <2>0, <2>1, <2>2, <2>3
<1>5. ASSUME Returning PROVE NewNumber
  <2>0. PICK r \in Runtimes : Returns(r) \/ LastReturns(r)
    BY <1>5 DEF Returning
  <2>1. CASE Returns(r)
    BY <2>1 DEF Returns, NewNumber
  <2>2. CASE LastReturns(r)
    BY <2>2 DEF LastReturns, NewNumber
  <2> QED BY <2>0, <2>1, <2>2
<1>6. ASSUME NEW x \in rels, Leaving(x) PROVE NewNumber
  <2>0. PICK r \in Runtimes, v \in Voices :
           Closes(x) \/ GivesBack(x, r, v) \/ Leaves(x, r) \/ Stays(x, r)
    BY <1>6 DEF Leaving
  <2>1. CASE Closes(x)
    BY <2>1 DEF Closes, NewNumber
  <2>2. CASE GivesBack(x, r, v)
    BY <2>2 DEF GivesBack, NewNumber
  <2>3. CASE Leaves(x, r)
    BY <2>3 DEF Leaves, NewNumber
  <2>4. CASE Stays(x, r)
    BY <2>4 DEF Stays, NewNumber
  <2> QED BY <2>0, <2>1, <2>2, <2>3, <2>4
<1>7. ASSUME NEW x \in warms, NEW r \in Runtimes, Warms(x, r) PROVE NewNumber
  <2>1. CASE WarmTakes(x, r)
    BY <2>1 DEF WarmTakes, NewNumber
  <2>2. CASE WarmMakes(x, r)
    <3>0. PICK y : y = Warmed(x, "install", engines + 1, TRUE)
      OBVIOUS
    <3>1. engines' = engines + 1 /\ y \in warms' /\ y.rt = r /\ y.owned /\ y.engine = engines + 1
      BY <2>2, <3>0 DEF WarmMakes, Warmed
    <3>2. r \in Runtimes /\ Owns(r, engines)'
      BY <3>1 DEF Owns
    <3> QED BY <3>1, <3>2 DEF NewNumber
  <2>3. CASE WarmPuts(x, r)
    BY <2>3 DEF WarmPuts, NewNumber
  <2>4. CASE WarmGoes(x, r)
    BY <2>4 DEF WarmGoes, NewNumber
  <2>5. CASE WarmAnswers(x, r)
    BY <2>5 DEF WarmAnswers, NewNumber
  <2>6. CASE WarmFails(x, r)
    BY <2>6 DEF WarmFails, NewNumber
  <2>7. CASE WarmDrops(x, r)
    BY <2>7 DEF WarmDrops, NewNumber
  <2>8. CASE WarmBreaks(x, r)
    BY <2>8 DEF WarmBreaks, NewNumber
  <2> QED BY <1>7, <2>1, <2>2, <2>3, <2>4, <2>5, <2>6, <2>7, <2>8 DEF Warms
<1> QED BY <1>1, <1>2, <1>3, <1>4, <1>5, <1>6, <1>7 DEF Formed

LEMMA AccountedStep == ASSUME PoolTypes, Made, Built, Wired, Leases, Making, SharesCounted, Lives, Sharing, Lent,
                              Apart, Open, Warming, Kept, Accounted, ~crossed', Formed
                       PROVE Accounted'
<1>0. engines \in Nat
  BY DEF PoolTypes
<1>1. PICK m : NewShare(m)
  BY ShareStep
<1>2. closed \subseteq closed'
  BY ClosedStep
<1>3. \A r \in Runtimes, e \in Nat \ {0} : Owns(r, e) => Owns(r, e)' \/ e \in closed'
  BY OwnsLost
<1>4. ASSUME NEW e \in 1..engines
      PROVE e \in closed' \/ (\E v \in Voices : pool'[v].refs > 0 /\ pool'[v].engine = e)
               \/ \E r \in Runtimes : Owns(r, e)'
  <2>1. CASE e \in closed
    BY <1>2, <2>1
  <2>2. ASSUME NEW v \in Voices, pool[v].refs > 0, pool[v].engine = e
        PROVE e \in closed' \/ (pool'[v].refs > 0 /\ pool'[v].engine = e)
    <3>1. ~(pool[v].refs = 0)
      BY <2>2
    <3> QED BY <1>1, <2>2, <3>1 DEF NewShare
  <2>3. ASSUME NEW r \in Runtimes, Owns(r, e) PROVE e \in closed' \/ Owns(r, e)'
    BY <1>0, <1>3, <2>3
  <2> QED BY <2>1, <2>2, <2>3 DEF Accounted
<1>5. CASE engines' = engines
  BY <1>4, <1>5 DEF Accounted
<1>6. CASE engines' = engines + 1 /\ ((\E v \in Voices : pool'[v].refs > 0 /\ pool'[v].engine = engines + 1)
                                         \/ \E t \in Runtimes : Owns(t, engines)')
  <2> SUFFICES ASSUME NEW e \in 1..engines'
               PROVE e \in closed' \/ (\E v \in Voices : pool'[v].refs > 0 /\ pool'[v].engine = e)
                        \/ \E r \in Runtimes : Owns(r, e)'
    BY DEF Accounted
  <2>1. CASE e \in 1..engines
    BY <1>4, <2>1
  <2>2. CASE e = engines + 1
    BY <1>6, <2>2
  <2> QED BY <1>0, <1>6, <2>1, <2>2
<1> QED BY Numbered, <1>5, <1>6 DEF NewNumber

-----------------------------------------------------------------------------
(* The warm-ups.  One that the step does not touch is as good as before. *)
Untouched(y) == Current(y)' =>
    /\ Current(y) /\ worker'[y.rt] = worker[y.rt] /\ (y.rt \in release' <=> y.rt \in release)
    /\ tts'[y.rt] = tts[y.rt]

LEMMA FineStays == ASSUME \A e \in closed' \ closed : Done(e), NEW y \in warms, y \in warms', WarmFine(y), Untouched(y)
                   PROVE WarmFine(y)'
<1>1. CASE ~Current(y)'
  BY <1>1 DEF WarmFine
<1>2. CASE Current(y)'
  <2>1. /\ Current(y) /\ worker'[y.rt] = worker[y.rt] /\ (y.rt \in release' <=> y.rt \in release)
        /\ tts'[y.rt] = tts[y.rt]
    BY <1>2 DEF Untouched
  <2>2. y.pc = "install" /\ y.owned => y.engine \notin closed' \ closed
    BY <1>2 DEF Done
  <2> QED BY <1>2, <2>1, <2>2 DEF WarmFine
<1> QED BY <1>1, <1>2

LEMMA WarmingStays == ASSUME Warming, \A e \in closed' \ closed : Done(e), warms' \subseteq warms,
                             \A y \in warms' : Untouched(y)
                      PROVE Warming'
<1> QED BY FineStays DEF Warming

\* A step of a warm-up leaves those of the other runtimes alone, and the other
\* steps with it.
LEMMA WarmingMoves == ASSUME Warming, \A e \in closed' \ closed : Done(e), NEW x, NEW y, warms' \subseteq (warms \ {x}) \cup {y},
                             \A z \in warms \ {x} : Untouched(z), WarmFine(y)'
                      PROVE Warming'
<1> QED BY FineStays DEF Warming

\* A warm-up that tells nobody is too late.
LEMMA DropsAreLate == ASSUME Warming, NEW x \in warms, NEW r, WarmDrops(x, r) PROVE ~Current(x)
<1>1. x.rt = r /\ WarmFine(x)
  BY DEF WarmDrops, Warming
<1>2. CASE x.pc = "install"
  BY <1>1, <1>2 DEF WarmDrops, WarmFine
<1>3. CASE x.pc = "check" \/ x.pc = "synth"
  BY <1>1, <1>3 DEF WarmDrops, WarmFine
<1> QED BY <1>2, <1>3 DEF WarmDrops

LEMMA WarmingStep == ASSUME PoolTypes, Made, Built, Wired, Leases, Making, SharesCounted,
                            Lives, Sharing, Lent, Apart, Open, Warming, Kept, ~crossed', Formed
                     PROVE Warming'
<1>0. /\ act \in [Activators -> [pc : PoolSteps, rt : Nat, engine : Nat]]
      /\ slot \in [Keys -> Nat] /\ key \in [Runtimes -> Keys] /\ refs \in [Runtimes -> Nat]
      /\ loose \in [Runtimes -> Nat] /\ gen \in [Runtimes -> Nat] /\ ready \in [Runtimes -> Nat]
      /\ worker \in [Runtimes -> Nat] /\ tts \in [Runtimes -> {"none", "waiting", "ok", "failed"}]
      /\ pool \in [Voices -> [engine : Nat, refs : Nat]] /\ release \subseteq Runtimes
      /\ rels \subseteq [rt : Runtimes, engine : Nat] /\ warms \subseteq Warmups
      /\ made \in Nat /\ Runtimes \subseteq Nat \ {0}
  BY DEF PoolTypes, Runtimes
<1>a. \A e \in closed' \ closed : Done(e)
  BY ClosedStep
<1>b. \A y \in warms : y.rt \in Runtimes /\ gen[y.rt] = 1 /\ y.gen = 1 /\ (Current(y) <=> refs[y.rt] > 0)
  BY WarmNumbers DEF Lives
<1>1. ASSUME NEW a \in Activators, Asking(a) PROVE Warming'
  <2>0. PICK k \in Keys : AskOld(a, k) \/ AskNew(a, k)
    BY <1>1 DEF Asking
  <2>1. CASE AskOld(a, k)
    <3>1. UNCHANGED <<warms, ready, worker, release, tts>>
      BY <2>1 DEF AskOld
    <3>2. \A y \in warms' : Untouched(y)
      BY <3>1 DEF Untouched, Current
    <3> QED BY <1>a, <3>1, <3>2, WarmingStays
  <2>2. CASE AskNew(a, k)
    <3>1. UNCHANGED <<warms, ready, worker, release, tts>>
      BY <2>2 DEF AskNew
    <3>2. \A y \in warms' : Untouched(y)
      BY <3>1 DEF Untouched, Current
    <3> QED BY <1>a, <3>1, <3>2, WarmingStays
  <2> QED BY <2>0, <2>1, <2>2
<1>2. ASSUME NEW a \in Activators, Taking(a) PROVE Warming'
  <2>0. PICK r \in Runtimes, v \in Voices :
           TakeOld(a, r, v) \/ TakeNew(a, r, v) \/ TakeNone(a, r) \/ Installs(a, r)
    BY <1>2 DEF Taking
  <2>1. CASE TakeOld(a, r, v)
    <3>1. UNCHANGED <<warms, ready, worker, release, tts>>
      BY <2>1 DEF TakeOld
    <3>2. \A y \in warms' : Untouched(y)
      BY <3>1 DEF Untouched, Current
    <3> QED BY <1>a, <3>1, <3>2, WarmingStays
  <2>2. CASE TakeNew(a, r, v)
    <3>1. UNCHANGED <<warms, ready, worker, release, tts>>
      BY <2>2 DEF TakeNew
    <3>2. \A y \in warms' : Untouched(y)
      BY <3>1 DEF Untouched, Current
    <3> QED BY <1>a, <3>1, <3>2, WarmingStays
  <2>3. CASE TakeNone(a, r)
    <3>1. UNCHANGED <<warms, ready, worker, release, tts>>
      BY <2>3 DEF TakeNone
    <3>2. \A y \in warms' : Untouched(y)
      BY <3>1 DEF Untouched, Current
    <3> QED BY <1>a, <3>1, <3>2, WarmingStays
  <2>4. CASE Installs(a, r)
    <3>1. /\ UNCHANGED <<warms, ready, tts, closed>> /\ release' = release \cup {r}
          /\ worker' = [worker EXCEPT ![r] = act[a].engine]
      BY <2>4 DEF Installs
    <3>2. gen[r] = 0
      BY <2>4 DEF Installs, Early, Lives, Placed
    <3>3. \A y \in warms : y.rt # r
      BY <1>b, <3>2
    <3>4. \A y \in warms' : Untouched(y)
      BY <1>0, <1>b, <3>1, <3>3 DEF Untouched, Current
    <3> QED BY <1>a, <3>1, <3>4, WarmingStays
  <2> QED BY <2>0, <2>1, <2>2, <2>3, <2>4
<1>3. ASSUME NEW a \in Activators, Counting(a) PROVE Warming'
  <2>0. PICK r \in Runtimes : Counts(a, r)
    BY <1>3 DEF Counting
  <2>1. CASE Counts(a, r)
    <3>1. ~Torn(r) /\ (refs[r] = 0 => gen[r] = 0)
      BY <2>1, Uncrossing DEF Lives
    <3>2. UNCHANGED <<worker, release>>
      BY <2>1 DEF Counts
    <3>3. CASE First(r)
      <4>0. PICK y : y = [rt |-> r, gen |-> gen[r] + 1, pc |-> "acquire", engine |-> 0, owned |-> FALSE]
        OBVIOUS
      <4>1. /\ warms' = warms \cup {y} /\ ready' = [ready EXCEPT ![r] = gen[r] + 1]
            /\ tts' = [tts EXCEPT ![r] = "waiting"] /\ refs[r] = 0
        BY <3>3, <4>0 DEF First
      <4>2. \A z \in warms : z.rt # r
        BY <1>b, <3>1, <4>1
      <4>3. \A z \in warms : Untouched(z)
        BY <1>0, <1>b, <3>2, <4>1, <4>2 DEF Untouched, Current
      <4>4. worker[r] = 0 \/ r \in release
        BY <1>0, <4>1 DEF Sharing
      <4>5. WarmFine(y)'
        BY <1>0, <3>2, <4>0, <4>1, <4>4 DEF WarmFine
      <4>6. y \notin warms /\ warms' \subseteq (warms \ {y}) \cup {y}
        BY <4>0, <4>1, <4>2
      <4> QED BY <1>a, <4>3, <4>5, <4>6, WarmingMoves
    <3>4. CASE Another(r)
      <4>1. UNCHANGED <<warms, ready, tts>>
        BY <3>4 DEF Another
      <4>2. \A y \in warms' : Untouched(y)
        BY <3>2, <4>1 DEF Untouched, Current
      <4> QED BY <1>a, <4>1, <4>2, WarmingStays
    <3> QED BY <2>1, <3>3, <3>4 DEF Counts
  <2> QED BY <2>0, <2>1
<1>4. ASSUME Pinning PROVE Warming'
  <2>0. PICK r \in Runtimes, v \in Voices : PinMore(r) \/ PinSet(r, v) \/ Unpin(v, r)
    BY <1>4 DEF Pinning
  <2>1. CASE PinMore(r)
    <3>1. UNCHANGED <<warms, ready, worker, release, tts>>
      BY <2>1 DEF PinMore
    <3>2. \A y \in warms' : Untouched(y)
      BY <3>1 DEF Untouched, Current
    <3> QED BY <1>a, <3>1, <3>2, WarmingStays
  <2>2. CASE PinSet(r, v)
    <3>1. UNCHANGED <<warms, ready, worker, release, tts>>
      BY <2>2 DEF PinSet
    <3>2. \A y \in warms' : Untouched(y)
      BY <3>1 DEF Untouched, Current
    <3> QED BY <1>a, <3>1, <3>2, WarmingStays
  <2>3. CASE Unpin(v, r)
    <3>1. UNCHANGED <<warms, ready, worker, release, tts>>
      BY <2>3 DEF Unpin
    <3>2. \A y \in warms' : Untouched(y)
      BY <3>1 DEF Untouched, Current
    <3> QED BY <1>a, <3>1, <3>2, WarmingStays
  <2> QED BY <2>0, <2>1, <2>2, <2>3
<1>5. ASSUME Returning PROVE Warming'
  <2>0. PICK r \in Runtimes : Returns(r) \/ LastReturns(r)
    BY <1>5 DEF Returning
  <2>1. CASE Returns(r)
    <3>1. UNCHANGED <<warms, ready, worker, release, tts>>
      BY <2>1 DEF Returns
    <3>2. \A y \in warms' : Untouched(y)
      BY <3>1 DEF Untouched, Current
    <3> QED BY <1>a, <3>1, <3>2, WarmingStays
  <2>2. CASE LastReturns(r)
    <3>1. /\ worker' = [worker EXCEPT ![r] = 0] /\ ready' = [ready EXCEPT ![r] = 0]
          /\ tts' = [tts EXCEPT ![r] = "none"] /\ UNCHANGED <<warms, release>>
      BY <2>2 DEF LastReturns
    <3>2. \A y \in warms' : Untouched(y)
      BY <1>0, <1>b, <3>1 DEF Untouched, Current
    <3> QED BY <1>a, <3>1, <3>2, WarmingStays
  <2> QED BY <2>0, <2>1, <2>2
<1>6. ASSUME NEW x \in rels, Leaving(x) PROVE Warming'
  <2>0. PICK r \in Runtimes, v \in Voices :
           Closes(x) \/ GivesBack(x, r, v) \/ Leaves(x, r) \/ Stays(x, r)
    BY <1>6 DEF Leaving
  <2>1. CASE Closes(x)
    <3>1. UNCHANGED <<warms, ready, worker, release, tts>>
      BY <2>1 DEF Closes
    <3>2. \A y \in warms' : Untouched(y)
      BY <3>1 DEF Untouched, Current
    <3> QED BY <1>a, <3>1, <3>2, WarmingStays
  <2>2. CASE GivesBack(x, r, v)
    <3>1. /\ release' = release \ {r} /\ refs[r] = 0 /\ UNCHANGED <<warms, ready, worker, tts>>
      BY <2>2 DEF GivesBack
    <3>2. \A y \in warms' : Untouched(y)
      BY <1>0, <1>b, <3>1 DEF Untouched, Current
    <3> QED BY <1>a, <3>1, <3>2, WarmingStays
  <2>3. CASE Leaves(x, r)
    <3>1. UNCHANGED <<warms, ready, worker, release, tts>>
      BY <2>3 DEF Leaves
    <3>2. \A y \in warms' : Untouched(y)
      BY <3>1 DEF Untouched, Current
    <3> QED BY <1>a, <3>1, <3>2, WarmingStays
  <2>4. CASE Stays(x, r)
    <3>1. UNCHANGED <<warms, ready, worker, release, tts>>
      BY <2>4 DEF Stays
    <3>2. \A y \in warms' : Untouched(y)
      BY <3>1 DEF Untouched, Current
    <3> QED BY <1>a, <3>1, <3>2, WarmingStays
  <2> QED BY <2>0, <2>1, <2>2, <2>3, <2>4
<1>7. ASSUME NEW x \in warms, NEW r \in Runtimes, Warms(x, r) PROVE Warming'
  <2>1. CASE WarmTakes(x, r)
    <3>0. PICK y : y = Warmed(x, "install", worker[r], x.owned)
      OBVIOUS
    <3>1. /\ x.rt = r /\ warms' = (warms \ {x}) \cup {y} /\ UNCHANGED <<ready, refs, release, tts>>
          /\ UNCHANGED <<worker, closed>> /\ x.pc = "acquire" /\ worker[r] # 0
      BY <2>1, <3>0 DEF WarmTakes
    <3>2. y.rt = r /\ y.gen = x.gen /\ y.pc = "install" /\ y.engine = worker[r] /\ y.owned = x.owned
      BY <3>0, <3>1 DEF Warmed
    <3>3. Current(y)' = Current(x)
      BY <3>1, <3>2 DEF Current
    <3>4. \A z \in warms \ {x} : z.rt # r
      BY <3>1 DEF Lives, Single
    <3>5. \A z \in warms \ {x} : Untouched(z)
      BY <1>0, <1>b, <3>1, <3>4 DEF Untouched, Current
    <3>6. WarmFine(x)
      BY DEF Warming
    <3>7. WarmFine(y)'
      <4>1. ~x.owned /\ (Current(x) => tts[r] = "waiting" /\ r \in release)
        BY <3>1, <3>6 DEF WarmFine
      <4> QED BY <3>1, <3>2, <3>3, <4>1 DEF WarmFine
    <3>8. warms' \subseteq (warms \ {x}) \cup {y}
      BY <3>1
    <3> QED BY <1>a, <3>5, <3>7, <3>8, WarmingMoves
  <2>2. CASE WarmMakes(x, r)
    <3>0. PICK y : y = Warmed(x, "install", engines + 1, TRUE)
      OBVIOUS
    <3>1. /\ x.rt = r /\ warms' = (warms \ {x}) \cup {y} /\ UNCHANGED <<ready, refs, release, tts>>
          /\ UNCHANGED <<worker, closed>> /\ x.pc = "acquire" /\ worker[r] = 0
      BY <2>2, <3>0 DEF WarmMakes
    <3>2. y.rt = r /\ y.gen = x.gen /\ y.pc = "install" /\ y.engine = engines + 1 /\ y.owned = TRUE
      BY <3>0, <3>1 DEF Warmed
    <3>3. Current(y)' = Current(x)
      BY <3>1, <3>2 DEF Current
    <3>4. \A z \in warms \ {x} : z.rt # r
      BY <3>1 DEF Lives, Single
    <3>5. \A z \in warms \ {x} : Untouched(z)
      BY <1>0, <1>b, <3>1, <3>4 DEF Untouched, Current
    <3>6. WarmFine(x)
      BY DEF Warming
    <3>7. WarmFine(y)'
      <4>1. Current(x) => tts[r] = "waiting"
        BY <3>1, <3>6 DEF WarmFine
      <4>2. Current(x) => r \notin release
        <5> SUFFICES ASSUME Current(x), r \in release PROVE FALSE
          OBVIOUS
        <5>1. worker[r] = pool[VoiceFor(r)].engine
          BY <1>b, <3>1 DEF Sharing
        <5>2. pool[VoiceFor(r)].engine # 0
          BY ShareTaken DEF Built
        <5> QED BY <3>1, <5>1, <5>2
      <4>3. engines + 1 \notin closed
        BY FreshEngine
      <4> QED BY <3>1, <3>2, <3>3, <4>1, <4>2, <4>3 DEF WarmFine
    <3>8. warms' \subseteq (warms \ {x}) \cup {y}
      BY <3>1
    <3> QED BY <1>a, <3>5, <3>7, <3>8, WarmingMoves
  <2>3. CASE WarmPuts(x, r)
    <3>0. PICK y : y = Warmed(x, "check", x.engine, x.owned)
      OBVIOUS
    <3>1. /\ x.rt = r /\ warms' = (warms \ {x}) \cup {y} /\ UNCHANGED <<ready, refs, release, tts>>
          /\ UNCHANGED closed /\ x.pc = "install" /\ worker' = [worker EXCEPT ![r] = x.engine]
      BY <2>3, <3>0 DEF WarmPuts
    <3>2. y.rt = r /\ y.gen = x.gen /\ y.pc = "check" /\ y.engine = x.engine /\ y.owned = x.owned
      BY <3>0, <3>1 DEF Warmed
    <3>3. Current(y)' = Current(x)
      BY <3>1, <3>2 DEF Current
    <3>4. \A z \in warms \ {x} : z.rt # r
      BY <3>1 DEF Lives, Single
    <3>5. \A z \in warms \ {x} : Untouched(z)
      BY <1>0, <1>b, <3>1, <3>4 DEF Untouched, Current
    <3>6. WarmFine(x)
      BY DEF Warming
    <3>7. WarmFine(y)'
      <4>1. Current(x) => tts[r] = "waiting" /\ (x.owned <=> r \notin release)
        BY <3>1, <3>6 DEF WarmFine
      <4>2. worker'[r] = x.engine
        BY <1>0, <3>1
      <4> QED BY <3>1, <3>2, <3>3, <4>1, <4>2 DEF WarmFine
    <3>8. warms' \subseteq (warms \ {x}) \cup {y}
      BY <3>1
    <3> QED BY <1>a, <3>5, <3>7, <3>8, WarmingMoves
  <2>4. CASE WarmGoes(x, r)
    <3>0. PICK y : y = Warmed(x, "synth", x.engine, x.owned)
      OBVIOUS
    <3>1. /\ x.rt = r /\ warms' = (warms \ {x}) \cup {y} /\ UNCHANGED <<ready, refs, release, tts>>
          /\ UNCHANGED <<worker, closed>> /\ x.pc = "check"
      BY <2>4, <3>0 DEF WarmGoes
    <3>2. y.rt = r /\ y.gen = x.gen /\ y.pc = "synth" /\ y.engine = x.engine /\ y.owned = x.owned
      BY <3>0, <3>1 DEF Warmed
    <3>3. Current(y)' = Current(x)
      BY <3>1, <3>2 DEF Current
    <3>4. \A z \in warms \ {x} : z.rt # r
      BY <3>1 DEF Lives, Single
    <3>5. \A z \in warms \ {x} : Untouched(z)
      BY <1>0, <1>b, <3>1, <3>4 DEF Untouched, Current
    <3>6. WarmFine(x)
      BY DEF Warming
    <3>7. WarmFine(y)'
      <4>1. Current(x) => tts[r] = "waiting" /\ (x.owned <=> r \notin release) /\ worker[r] = x.engine
        BY <3>1, <3>6 DEF WarmFine
      <4> QED BY <3>1, <3>2, <3>3, <4>1 DEF WarmFine
    <3>8. warms' \subseteq (warms \ {x}) \cup {y}
      BY <3>1
    <3> QED BY <1>a, <3>5, <3>7, <3>8, WarmingMoves
  <2>5. CASE WarmAnswers(x, r)
    <3>1. /\ x.rt = r /\ warms' = warms \ {x} /\ UNCHANGED <<ready, release>>
          /\ \A t \in Runtimes : t # r => tts'[t] = tts[t] /\ worker'[t] = worker[t]
      BY <2>5, <1>0 DEF WarmAnswers
    <3>4. \A z \in warms \ {x} : z.rt # r
      BY <3>1 DEF Lives, Single
    <3>5. \A z \in warms' : Untouched(z)
      BY <1>b, <3>1, <3>4 DEF Untouched, Current
    <3> QED BY <1>a, <3>1, <3>5, WarmingStays
  <2>6. CASE WarmFails(x, r)
    <3>1. /\ x.rt = r /\ warms' = warms \ {x} /\ UNCHANGED <<ready, release>>
          /\ \A t \in Runtimes : t # r => tts'[t] = tts[t] /\ worker'[t] = worker[t]
      BY <2>6, <1>0 DEF WarmFails
    <3>4. \A z \in warms \ {x} : z.rt # r
      BY <3>1 DEF Lives, Single
    <3>5. \A z \in warms' : Untouched(z)
      BY <1>b, <3>1, <3>4 DEF Untouched, Current
    <3> QED BY <1>a, <3>1, <3>5, WarmingStays
  <2>7. CASE WarmDrops(x, r)
    <3>1. /\ x.rt = r /\ warms' = warms \ {x} /\ UNCHANGED <<ready, release>>
          /\ \A t \in Runtimes : t # r => tts'[t] = tts[t] /\ worker'[t] = worker[t]
      BY <2>7, <1>0 DEF WarmDrops
    <3>4. \A z \in warms \ {x} : z.rt # r
      BY <3>1 DEF Lives, Single
    <3>5. \A z \in warms' : Untouched(z)
      BY <1>b, <3>1, <3>4 DEF Untouched, Current
    <3> QED BY <1>a, <3>1, <3>5, WarmingStays
  <2>8. CASE WarmBreaks(x, r)
    <3>1. /\ x.rt = r /\ warms' = warms \ {x} /\ UNCHANGED <<ready, release>>
          /\ \A t \in Runtimes : t # r => tts'[t] = tts[t] /\ worker'[t] = worker[t]
      BY <2>8, <1>0 DEF WarmBreaks
    <3>4. \A z \in warms \ {x} : z.rt # r
      BY <3>1 DEF Lives, Single
    <3>5. \A z \in warms' : Untouched(z)
      BY <1>b, <3>1, <3>4 DEF Untouched, Current
    <3> QED BY <1>a, <3>1, <3>5, WarmingStays
  <2> QED BY <1>7, <2>1, <2>2, <2>3, <2>4, <2>5, <2>6, <2>7, <2>8 DEF Warms
<1> QED BY <1>1, <1>2, <1>3, <1>4, <1>5, <1>6, <1>7 DEF Formed

LEMMA KeptStays == ASSUME Kept, \A y \in warms' : y.owned /\ y.pc \in {"check", "synth"} => y \in warms,
                          closed \subseteq closed',
                          \A y \in warms' : y.owned => worker'[y.rt] = worker[y.rt]
                                                       /\ (y.rt \in release' => y.rt \in release),
                          \A z \in rels : z.engine \in closed' \cup {0} \/ z \in rels',
                          \A y \in warms : y.owned => y.engine # 0
                   PROVE Kept'
<1> QED BY DEF Kept

LEMMA KeptStep == ASSUME PoolTypes, Made, Built, Wired, Leases, Making, SharesCounted,
                         Lives, Sharing, Lent, Apart, Open, Warming, Kept, ~crossed', Formed
                  PROVE Kept'
<1>0. /\ act \in [Activators -> [pc : PoolSteps, rt : Nat, engine : Nat]]
      /\ slot \in [Keys -> Nat] /\ key \in [Runtimes -> Keys] /\ refs \in [Runtimes -> Nat]
      /\ loose \in [Runtimes -> Nat] /\ gen \in [Runtimes -> Nat] /\ ready \in [Runtimes -> Nat]
      /\ worker \in [Runtimes -> Nat] /\ tts \in [Runtimes -> {"none", "waiting", "ok", "failed"}]
      /\ pool \in [Voices -> [engine : Nat, refs : Nat]] /\ release \subseteq Runtimes
      /\ rels \subseteq [rt : Runtimes, engine : Nat] /\ warms \subseteq Warmups
      /\ made \in Nat /\ Runtimes \subseteq Nat \ {0}
  BY DEF PoolTypes, Runtimes
<1>a. closed \subseteq closed'
  BY ClosedStep
<1>b. \A y \in warms : y.rt \in Runtimes /\ gen[y.rt] = 1 /\ y.gen = 1 /\ (Current(y) <=> refs[y.rt] > 0)
  BY WarmNumbers DEF Lives
<1>c. \A y \in warms : y.owned => y.engine # 0
  BY DEF Built
<1>1. ASSUME NEW a \in Activators, Asking(a) PROVE Kept'
  <2>0. PICK k \in Keys : AskOld(a, k) \/ AskNew(a, k)
    BY <1>1 DEF Asking
  <2>1. CASE AskOld(a, k)
    <3>1. UNCHANGED <<warms, worker, release, rels>>
      BY <2>1 DEF AskOld
    <3> QED BY <1>a, <1>c, <3>1, KeptStays
  <2>2. CASE AskNew(a, k)
    <3>1. UNCHANGED <<warms, worker, release, rels>>
      BY <2>2 DEF AskNew
    <3> QED BY <1>a, <1>c, <3>1, KeptStays
  <2> QED BY <2>0, <2>1, <2>2
<1>2. ASSUME NEW a \in Activators, Taking(a) PROVE Kept'
  <2>0. PICK r \in Runtimes, v \in Voices :
           TakeOld(a, r, v) \/ TakeNew(a, r, v) \/ TakeNone(a, r) \/ Installs(a, r)
    BY <1>2 DEF Taking
  <2>1. CASE TakeOld(a, r, v)
    <3>1. UNCHANGED <<warms, worker, release, rels>>
      BY <2>1 DEF TakeOld
    <3> QED BY <1>a, <1>c, <3>1, KeptStays
  <2>2. CASE TakeNew(a, r, v)
    <3>1. UNCHANGED <<warms, worker, release, rels>>
      BY <2>2 DEF TakeNew
    <3> QED BY <1>a, <1>c, <3>1, KeptStays
  <2>3. CASE TakeNone(a, r)
    <3>1. UNCHANGED <<warms, worker, release, rels>>
      BY <2>3 DEF TakeNone
    <3> QED BY <1>a, <1>c, <3>1, KeptStays
  <2>4. CASE Installs(a, r)
    <3>1. /\ UNCHANGED <<warms, rels, closed>> /\ release' = release \cup {r}
          /\ worker' = [worker EXCEPT ![r] = act[a].engine]
      BY <2>4 DEF Installs
    <3>2. gen[r] = 0
      BY <2>4 DEF Installs, Early, Lives, Placed
    <3>3. \A y \in warms : y.rt # r
      BY <1>b, <3>2
    <3>4. \A y \in warms' : y.owned => worker'[y.rt] = worker[y.rt] /\ (y.rt \in release' => y.rt \in release)
      BY <1>0, <1>b, <3>1, <3>3
    <3> QED BY <1>a, <1>c, <3>1, <3>4, KeptStays
  <2> QED BY <2>0, <2>1, <2>2, <2>3, <2>4
<1>3. ASSUME NEW a \in Activators, Counting(a) PROVE Kept'
  <2>0. PICK r \in Runtimes : Counts(a, r)
    BY <1>3 DEF Counting
  <2>1. CASE Counts(a, r)
    <3>1. UNCHANGED <<worker, release, rels>> /\ \A y \in warms' : y.owned => y \in warms
      BY <2>1 DEF Counts, First, Another
    <3> QED BY <1>a, <1>c, <3>1, KeptStays
  <2> QED BY <2>0, <2>1
<1>4. ASSUME Pinning PROVE Kept'
  <2>0. PICK r \in Runtimes, v \in Voices : PinMore(r) \/ PinSet(r, v) \/ Unpin(v, r)
    BY <1>4 DEF Pinning
  <2>1. CASE PinMore(r)
    <3>1. UNCHANGED <<warms, worker, release, rels>>
      BY <2>1 DEF PinMore
    <3> QED BY <1>a, <1>c, <3>1, KeptStays
  <2>2. CASE PinSet(r, v)
    <3>1. UNCHANGED <<warms, worker, release, rels>>
      BY <2>2 DEF PinSet
    <3> QED BY <1>a, <1>c, <3>1, KeptStays
  <2>3. CASE Unpin(v, r)
    <3>1. UNCHANGED <<warms, worker, release, rels>>
      BY <2>3 DEF Unpin
    <3> QED BY <1>a, <1>c, <3>1, KeptStays
  <2> QED BY <2>0, <2>1, <2>2, <2>3
<1>5. ASSUME Returning PROVE Kept'
  <2>0. PICK r \in Runtimes : Returns(r) \/ LastReturns(r)
    BY <1>5 DEF Returning
  <2>1. CASE Returns(r)
    <3>1. UNCHANGED <<warms, worker, release, rels>>
      BY <2>1 DEF Returns
    <3> QED BY <1>a, <1>c, <3>1, KeptStays
  <2>2. CASE LastReturns(r)
    <3>0. PICK z : z = [rt |-> r, engine |-> OwnWorker(r)]
      OBVIOUS
    <3>1. /\ rels' = rels \cup {z} /\ z.rt = r /\ (r \notin release => z.engine = worker[r])
          /\ worker' = [worker EXCEPT ![r] = 0] /\ UNCHANGED <<release, warms>>
      BY <2>2, <3>0 DEF LastReturns, OwnWorker
    <3>2. \A t \in Runtimes : t # r => worker'[t] = worker[t]
      BY <1>0, <3>1
    <3> QED BY <1>a, <1>b, <3>1, <3>2 DEF Kept
  <2> QED BY <2>0, <2>1, <2>2
<1>6. ASSUME NEW x \in rels, Leaving(x) PROVE Kept'
  <2>0. PICK r \in Runtimes, v \in Voices :
           Closes(x) \/ GivesBack(x, r, v) \/ Leaves(x, r) \/ Stays(x, r)
    BY <1>6 DEF Leaving
  <2>1. CASE Closes(x)
    <3>1. UNCHANGED <<warms, worker, release, rels>>
      BY <2>1 DEF Closes
    <3> QED BY <1>a, <1>c, <3>1, KeptStays
  <2>2. CASE GivesBack(x, r, v)
    <3>1. /\ UNCHANGED <<warms, worker>> /\ release' \subseteq release /\ rels' = rels \ {x}
          /\ x.engine \in closed \cup {0}
      BY <2>2 DEF GivesBack
    <3> QED BY <1>a, <1>c, <3>1, KeptStays
  <2>3. CASE Leaves(x, r)
    <3>1. /\ UNCHANGED <<warms, worker>> /\ release' \subseteq release /\ rels' = rels \ {x}
          /\ x.engine \in closed \cup {0}
      BY <2>3 DEF Leaves
    <3> QED BY <1>a, <1>c, <3>1, KeptStays
  <2>4. CASE Stays(x, r)
    <3>1. /\ UNCHANGED <<warms, worker>> /\ release' \subseteq release /\ rels' = rels \ {x}
          /\ x.engine \in closed \cup {0}
      BY <2>4 DEF Stays
    <3> QED BY <1>a, <1>c, <3>1, KeptStays
  <2> QED BY <2>0, <2>1, <2>2, <2>3, <2>4
<1>7. ASSUME NEW x \in warms, NEW r \in Runtimes, Warms(x, r) PROVE Kept'
  <2>1. CASE WarmTakes(x, r)
    <3>1. /\ UNCHANGED <<worker, release, rels>>
          /\ \A y \in warms' : y \in warms \/ y.pc = "install"
      BY <2>1 DEF WarmTakes, Warmed
    <3>2. \A y \in warms' : y.owned /\ y.pc \in {"check", "synth"} => y \in warms
      BY <3>1
    <3> QED BY <1>a, <1>c, <3>1, <3>2, KeptStays
  <2>2. CASE WarmMakes(x, r)
    <3>1. /\ UNCHANGED <<worker, release, rels>>
          /\ \A y \in warms' : y \in warms \/ y.pc = "install"
      BY <2>2 DEF WarmMakes, Warmed
    <3>2. \A y \in warms' : y.owned /\ y.pc \in {"check", "synth"} => y \in warms
      BY <3>1
    <3> QED BY <1>a, <1>c, <3>1, <3>2, KeptStays
  <2>3. CASE WarmPuts(x, r)
    <3>0. PICK y : y = Warmed(x, "check", x.engine, x.owned)
      OBVIOUS
    <3>1. /\ x.rt = r /\ warms' = (warms \ {x}) \cup {y} /\ UNCHANGED <<release, rels>>
          /\ worker' = [worker EXCEPT ![r] = x.engine] /\ Current(x) /\ x.pc = "install"
      BY <2>3, <3>0 DEF WarmPuts
    <3>2. y.rt = r /\ y.engine = x.engine /\ y.owned = x.owned
      BY <3>0, <3>1 DEF Warmed
    <3>3. x.owned => r \notin release
      BY <3>1 DEF Warming, WarmFine
    <3>4. \A z \in warms \ {x} : z.rt # r
      BY <3>1 DEF Lives, Single
    <3>5. worker'[r] = x.engine /\ \A t \in Runtimes : t # r => worker'[t] = worker[t]
      BY <1>0, <3>1
    <3> QED BY <1>a, <1>b, <3>1, <3>2, <3>3, <3>4, <3>5 DEF Kept
  <2>4. CASE WarmGoes(x, r)
    <3>0. PICK y : y = Warmed(x, "synth", x.engine, x.owned)
      OBVIOUS
    <3>1. /\ x.rt = r /\ warms' = (warms \ {x}) \cup {y} /\ UNCHANGED <<release, rels, worker>>
          /\ Current(x) /\ x.pc = "check"
      BY <2>4, <3>0 DEF WarmGoes
    <3>2. y.rt = r /\ y.engine = x.engine /\ y.owned = x.owned
      BY <3>0, <3>1 DEF Warmed
    <3>3. worker[r] = x.engine /\ (x.owned => r \notin release)
      BY <3>1 DEF Warming, WarmFine
    <3> QED BY <1>a, <1>b, <3>1, <3>2, <3>3 DEF Kept
  <2>5. CASE WarmAnswers(x, r)
    <3>1. /\ UNCHANGED <<worker, release, rels>>
          /\ \A y \in warms' : y \in warms \/ y.pc = "install"
      BY <2>5 DEF WarmAnswers, Warmed
    <3>2. \A y \in warms' : y.owned /\ y.pc \in {"check", "synth"} => y \in warms
      BY <3>1
    <3> QED BY <1>a, <1>c, <3>1, <3>2, KeptStays
  <2>6. CASE WarmFails(x, r)
    <3>1. /\ UNCHANGED <<worker, release, rels>>
          /\ \A y \in warms' : y \in warms \/ y.pc = "install"
      BY <2>6 DEF WarmFails, Warmed
    <3>2. \A y \in warms' : y.owned /\ y.pc \in {"check", "synth"} => y \in warms
      BY <3>1
    <3> QED BY <1>a, <1>c, <3>1, <3>2, KeptStays
  <2>7. CASE WarmDrops(x, r)
    <3>1. /\ UNCHANGED <<worker, release, rels>>
          /\ \A y \in warms' : y \in warms \/ y.pc = "install"
      BY <2>7 DEF WarmDrops, Warmed
    <3>2. \A y \in warms' : y.owned /\ y.pc \in {"check", "synth"} => y \in warms
      BY <3>1
    <3> QED BY <1>a, <1>c, <3>1, <3>2, KeptStays
  <2>8. CASE WarmBreaks(x, r)
    <3>1. /\ x.rt = r /\ warms' = warms \ {x} /\ UNCHANGED <<release, rels>>
          /\ \A t \in Runtimes : t # r => worker'[t] = worker[t]
      BY <2>8, <1>0 DEF WarmBreaks
    <3>2. \A z \in warms \ {x} : z.rt # r
      BY <3>1 DEF Lives, Single
    <3> QED BY <1>a, <1>b, <1>c, <3>1, <3>2, KeptStays
  <2> QED BY <1>7, <2>1, <2>2, <2>3, <2>4, <2>5, <2>6, <2>7, <2>8 DEF Warms
<1> QED BY <1>1, <1>2, <1>3, <1>4, <1>5, <1>6, <1>7 DEF Formed

-----------------------------------------------------------------------------
(* Who waits for a voice has a warm-up on its way, and who has it an engine. *)
LEMMA AnsweredStays == ASSUME Answered, UNCHANGED ready,
                              \A t \in Runtimes : worker'[t] # 0 \/ worker[t] = 0 \/ tts'[t] # "ok",
                              \A t \in Runtimes : tts'[t] = tts[t] \/ tts'[t] \notin {"ok", "waiting"},
                              \A x \in warms : Current(x) =>
                                  tts'[x.rt] # "waiting" \/ \E y \in warms' : y.rt = x.rt /\ y.gen = x.gen
                       PROVE Answered'
<1> SUFFICES ASSUME NEW r \in Runtimes
             PROVE /\ tts'[r] = "ok" => worker'[r] # 0
                   /\ tts'[r] = "waiting" => \E x \in warms' : x.rt = r /\ Current(x)'
  BY DEF Answered
<1>1. tts'[r] = "ok" => worker'[r] # 0
  BY DEF Answered
<1>2. ASSUME tts'[r] = "waiting" PROVE \E x \in warms' : x.rt = r /\ Current(x)'
  <2>1. tts[r] = "waiting"
    BY <1>2
  <2>2. PICK x \in warms : x.rt = r /\ Current(x)
    BY <2>1 DEF Answered
  <2>3. PICK y \in warms' : y.rt = x.rt /\ y.gen = x.gen
    BY <1>2, <2>2
  <2> QED BY <2>2, <2>3 DEF Current
<1> QED BY <1>1, <1>2

LEMMA AnsweredStep == ASSUME PoolTypes, Made, Built, Wired, Leases, Making, SharesCounted,
                             Lives, Sharing, Lent, Apart, Open, Warming, Kept, ~crossed',
                             Answered, Formed
                      PROVE Answered'
<1>0. /\ act \in [Activators -> [pc : PoolSteps, rt : Nat, engine : Nat]]
      /\ slot \in [Keys -> Nat] /\ key \in [Runtimes -> Keys] /\ refs \in [Runtimes -> Nat]
      /\ loose \in [Runtimes -> Nat] /\ gen \in [Runtimes -> Nat] /\ ready \in [Runtimes -> Nat]
      /\ worker \in [Runtimes -> Nat] /\ tts \in [Runtimes -> {"none", "waiting", "ok", "failed"}]
      /\ pool \in [Voices -> [engine : Nat, refs : Nat]] /\ release \subseteq Runtimes
      /\ rels \subseteq [rt : Runtimes, engine : Nat] /\ warms \subseteq Warmups
      /\ made \in Nat /\ Runtimes \subseteq Nat \ {0}
  BY DEF PoolTypes, Runtimes
<1>b. \A y \in warms : y.rt \in Runtimes /\ gen[y.rt] = 1 /\ y.gen = 1 /\ (Current(y) <=> refs[y.rt] > 0)
  BY WarmNumbers DEF Lives
<1>1. ASSUME NEW a \in Activators, Asking(a) PROVE Answered'
  <2>0. PICK k \in Keys : AskOld(a, k) \/ AskNew(a, k)
    BY <1>1 DEF Asking
  <2>1. CASE AskOld(a, k)
    <3>1. UNCHANGED <<ready, worker, tts, warms>>
      BY <2>1 DEF AskOld
    <3> QED BY <3>1, AnsweredStays
  <2>2. CASE AskNew(a, k)
    <3>1. UNCHANGED <<ready, worker, tts, warms>>
      BY <2>2 DEF AskNew
    <3> QED BY <3>1, AnsweredStays
  <2> QED BY <2>0, <2>1, <2>2
<1>2. ASSUME NEW a \in Activators, Taking(a) PROVE Answered'
  <2>0. PICK r \in Runtimes, v \in Voices :
           TakeOld(a, r, v) \/ TakeNew(a, r, v) \/ TakeNone(a, r) \/ Installs(a, r)
    BY <1>2 DEF Taking
  <2>1. CASE TakeOld(a, r, v)
    <3>1. UNCHANGED <<ready, worker, tts, warms>>
      BY <2>1 DEF TakeOld
    <3> QED BY <3>1, AnsweredStays
  <2>2. CASE TakeNew(a, r, v)
    <3>1. UNCHANGED <<ready, worker, tts, warms>>
      BY <2>2 DEF TakeNew
    <3> QED BY <3>1, AnsweredStays
  <2>3. CASE TakeNone(a, r)
    <3>1. UNCHANGED <<ready, worker, tts, warms>>
      BY <2>3 DEF TakeNone
    <3> QED BY <3>1, AnsweredStays
  <2>4. CASE Installs(a, r)
    <3>1. /\ UNCHANGED <<ready, tts, warms>> /\ worker' = [worker EXCEPT ![r] = act[a].engine]
      BY <2>4 DEF Installs
    <3>2. refs[r] = 0
      <4>1. gen[r] = 0
        BY <2>4 DEF Installs, Early, Lives, Placed
      <4> QED BY <1>0, <4>1 DEF Lives, Once
    <3>3. tts[r] = "none"
      BY <3>2 DEF Lives, Once
    <3>4. \A t \in Runtimes : worker'[t] # 0 \/ worker[t] = 0 \/ tts'[t] # "ok"
      BY <1>0, <3>1, <3>3
    <3> QED BY <3>1, <3>4, AnsweredStays
  <2> QED BY <2>0, <2>1, <2>2, <2>3, <2>4
<1>3. ASSUME NEW a \in Activators, Counting(a) PROVE Answered'
  <2>0. PICK r \in Runtimes : Counts(a, r)
    BY <1>3 DEF Counting
  <2>1. CASE Counts(a, r)
    <3>1. refs[r] = 0 => gen[r] = 0
      BY <2>1, Uncrossing DEF Lives
    <3>2. UNCHANGED worker
      BY <2>1 DEF Counts
    <3>3. CASE First(r)
      <4>0. PICK y : y = [rt |-> r, gen |-> gen[r] + 1, pc |-> "acquire", engine |-> 0, owned |-> FALSE]
        OBVIOUS
      <4>1. /\ warms' = warms \cup {y} /\ ready' = [ready EXCEPT ![r] = gen[r] + 1]
            /\ tts' = [tts EXCEPT ![r] = "waiting"] /\ y.rt = r /\ y.gen = gen[r] + 1
        BY <3>3, <4>0 DEF First
      <4>2. y \in warms' /\ Current(y)'
        BY <1>0, <4>1 DEF Current
      <4>3. \A t \in Runtimes : t # r => tts'[t] = tts[t]
        BY <1>0, <4>1
      <4>4. \A x \in warms : x \in warms' /\ (x.rt # r /\ Current(x) => Current(x)')
        BY <1>0, <1>b, <4>1 DEF Current
      <4>5. tts'[r] = "waiting"
        BY <1>0, <4>1
      <4>6. (\A t \in Runtimes : tts[t] = "ok" => worker[t] # 0)'
        BY <3>2, <4>3, <4>5 DEF Answered
      <4>7. (\A t \in Runtimes : tts[t] = "waiting" => \E x \in warms : x.rt = t /\ Current(x))'
        <5> SUFFICES ASSUME NEW t \in Runtimes, tts'[t] = "waiting"
                     PROVE \E x \in warms' : x.rt = t /\ Current(x)'
          OBVIOUS
        <5>1. CASE t = r
          BY <4>1, <4>2, <5>1
        <5>2. CASE t # r
          BY <4>3, <4>4, <5>2 DEF Answered
        <5> QED BY <5>1, <5>2
      <4> QED BY <4>6, <4>7 DEF Answered
    <3>4. CASE Another(r)
      BY <3>2, <3>4, AnsweredStays DEF Another
    <3> QED BY <2>1, <3>3, <3>4 DEF Counts
  <2> QED BY <2>0, <2>1
<1>4. ASSUME Pinning PROVE Answered'
  <2>0. PICK r \in Runtimes, v \in Voices : PinMore(r) \/ PinSet(r, v) \/ Unpin(v, r)
    BY <1>4 DEF Pinning
  <2>1. CASE PinMore(r)
    <3>1. UNCHANGED <<ready, worker, tts, warms>>
      BY <2>1 DEF PinMore
    <3> QED BY <3>1, AnsweredStays
  <2>2. CASE PinSet(r, v)
    <3>1. UNCHANGED <<ready, worker, tts, warms>>
      BY <2>2 DEF PinSet
    <3> QED BY <3>1, AnsweredStays
  <2>3. CASE Unpin(v, r)
    <3>1. UNCHANGED <<ready, worker, tts, warms>>
      BY <2>3 DEF Unpin
    <3> QED BY <3>1, AnsweredStays
  <2> QED BY <2>0, <2>1, <2>2, <2>3
<1>5. ASSUME Returning PROVE Answered'
  <2>0. PICK r \in Runtimes : Returns(r) \/ LastReturns(r)
    BY <1>5 DEF Returning
  <2>1. CASE Returns(r)
    <3>1. UNCHANGED <<ready, worker, tts, warms>>
      BY <2>1 DEF Returns
    <3> QED BY <3>1, AnsweredStays
  <2>2. CASE LastReturns(r)
    <3>1. /\ worker' = [worker EXCEPT ![r] = 0] /\ ready' = [ready EXCEPT ![r] = 0]
          /\ tts' = [tts EXCEPT ![r] = "none"] /\ UNCHANGED warms
      BY <2>2 DEF LastReturns
    <3>2. /\ \A t \in Runtimes : t # r => tts'[t] = tts[t] /\ worker'[t] = worker[t]
          /\ tts'[r] = "none" /\ \A x \in warms : x.rt # r /\ Current(x) => Current(x)'
      BY <1>0, <1>b, <3>1 DEF Current
    <3> QED BY <3>1, <3>2 DEF Answered
  <2> QED BY <2>0, <2>1, <2>2
<1>6. ASSUME NEW x \in rels, Leaving(x) PROVE Answered'
  <2>1. UNCHANGED <<ready, tts, worker, warms>>
    BY <1>6, LeavingKeeps
  <2> QED BY <2>1, AnsweredStays
<1>7. ASSUME NEW x \in warms, NEW r \in Runtimes, Warms(x, r) PROVE Answered'
  <2>1. CASE WarmTakes(x, r)
    <3>0. PICK y : y = Warmed(x, "install", worker[r], x.owned)
      OBVIOUS
    <3>1. UNCHANGED <<ready, tts>> /\ warms' = (warms \ {x}) \cup {y}
          /\ \A t \in Runtimes : worker'[t] # 0 \/ worker[t] = 0 \/ tts[t] # "ok"
      BY <2>1, <3>0 DEF WarmTakes
    <3>2. y.rt = x.rt /\ y.gen = x.gen
      BY <3>0 DEF Warmed
    <3>3. \A z \in warms : \E w \in warms' : w.rt = z.rt /\ w.gen = z.gen
      BY <3>1, <3>2
    <3> QED BY <3>1, <3>3, AnsweredStays
  <2>2. CASE WarmMakes(x, r)
    <3>0. PICK y : y = Warmed(x, "install", engines + 1, TRUE)
      OBVIOUS
    <3>1. UNCHANGED <<ready, tts>> /\ warms' = (warms \ {x}) \cup {y}
          /\ \A t \in Runtimes : worker'[t] # 0 \/ worker[t] = 0 \/ tts[t] # "ok"
      BY <2>2, <3>0 DEF WarmMakes
    <3>2. y.rt = x.rt /\ y.gen = x.gen
      BY <3>0 DEF Warmed
    <3>3. \A z \in warms : \E w \in warms' : w.rt = z.rt /\ w.gen = z.gen
      BY <3>1, <3>2
    <3> QED BY <3>1, <3>3, AnsweredStays
  <2>3. CASE WarmPuts(x, r)
    <3>0. PICK y : y = Warmed(x, "check", x.engine, x.owned)
      OBVIOUS
    <3>1. UNCHANGED <<ready, tts>> /\ warms' = (warms \ {x}) \cup {y}
          /\ \A t \in Runtimes : worker'[t] # 0 \/ worker[t] = 0 \/ tts[t] # "ok"
      <4>1. /\ UNCHANGED <<ready, tts>> /\ warms' = (warms \ {x}) \cup {y} /\ x.rt = r
            /\ worker' = [worker EXCEPT ![r] = x.engine] /\ Current(x)
        BY <2>3, <3>0 DEF WarmPuts
      <4>2. tts[r] = "waiting"
        BY <4>1 DEF Warming, WarmFine
      <4> QED BY <1>0, <4>1, <4>2
    <3>2. y.rt = x.rt /\ y.gen = x.gen
      BY <3>0 DEF Warmed
    <3>3. \A z \in warms : \E w \in warms' : w.rt = z.rt /\ w.gen = z.gen
      BY <3>1, <3>2
    <3> QED BY <3>1, <3>3, AnsweredStays
  <2>4. CASE WarmGoes(x, r)
    <3>0. PICK y : y = Warmed(x, "synth", x.engine, x.owned)
      OBVIOUS
    <3>1. UNCHANGED <<ready, tts>> /\ warms' = (warms \ {x}) \cup {y}
          /\ \A t \in Runtimes : worker'[t] # 0 \/ worker[t] = 0 \/ tts[t] # "ok"
      BY <2>4, <3>0 DEF WarmGoes
    <3>2. y.rt = x.rt /\ y.gen = x.gen
      BY <3>0 DEF Warmed
    <3>3. \A z \in warms : \E w \in warms' : w.rt = z.rt /\ w.gen = z.gen
      BY <3>1, <3>2
    <3> QED BY <3>1, <3>3, AnsweredStays
  <2>5. CASE WarmAnswers(x, r)
    <3>1. /\ UNCHANGED <<ready, worker, release>> /\ warms' = warms \ {x} /\ x.rt = r /\ x.pc = "synth"
          /\ tts' = IF Current(x) THEN [tts EXCEPT ![r] = "ok"] ELSE tts
      BY <2>5 DEF WarmAnswers
    <3>2. \A z \in warms \ {x} : z.rt # r
      BY <3>1 DEF Lives, Single
    <3>3. CASE Current(x)
      <4>1. worker[r] # 0
        <5>1. worker[r] = x.engine /\ (x.owned \/ r \in release)
          BY <3>1, <3>3 DEF Warming, WarmFine
        <5>2. CASE x.owned
          BY <5>1, <5>2 DEF Built
        <5>3. CASE r \in release
          <6>1. worker[r] = pool[VoiceFor(r)].engine
            BY <1>b, <3>1, <3>3, <5>3 DEF Sharing
          <6>2. pool[VoiceFor(r)].engine # 0
            BY <5>3, ShareTaken DEF Built
          <6> QED BY <6>1, <6>2
        <5> QED BY <5>1, <5>2, <5>3
      <4>2. tts'[r] = "ok" /\ \A t \in Runtimes : t # r => tts'[t] = tts[t]
        BY <1>0, <3>1, <3>3
      <4>3. \A z \in warms : z.rt # r => z \in warms' /\ Current(z)' = Current(z)
        BY <3>1 DEF Current
      <4> QED BY <3>1, <4>1, <4>2, <4>3 DEF Answered
    <3>4. CASE ~Current(x)
      <4>1. \A z \in warms : Current(z) => z \in warms'
        BY <3>1, <3>4
      <4> QED BY <3>1, <3>4, <4>1, AnsweredStays
    <3> QED BY <3>3, <3>4
  <2>6. CASE WarmFails(x, r)
    <3>1. /\ UNCHANGED <<ready, worker>> /\ warms' = warms \ {x} /\ x.rt = r
          /\ tts' = IF Current(x) THEN [tts EXCEPT ![r] = "failed"] ELSE tts
      BY <2>6 DEF WarmFails
    <3>2. \A t \in Runtimes : tts'[t] = tts[t] \/ tts'[t] \notin {"ok", "waiting"}
      BY <1>0, <3>1
    <3>3. Current(x) => tts'[x.rt] # "waiting"
      BY <1>0, <3>1
    <3> QED BY <3>1, <3>2, <3>3, AnsweredStays
  <2>7. CASE WarmDrops(x, r)
    <3>1. UNCHANGED <<ready, worker, tts>> /\ warms' = warms \ {x}
      BY <2>7 DEF WarmDrops
    <3>2. ~Current(x)
      BY <2>7, DropsAreLate
    <3>3. \A z \in warms : Current(z) => z \in warms'
      BY <3>1, <3>2
    <3> QED BY <3>1, <3>3, AnsweredStays
  <2>8. CASE WarmBreaks(x, r)
    <3>1. /\ UNCHANGED ready /\ warms' = warms \ {x} /\ x.rt = r
          /\ tts' = [tts EXCEPT ![r] = "failed"] /\ \A t \in Runtimes : t # r => worker'[t] = worker[t]
      BY <2>8, <1>0 DEF WarmBreaks
    <3>2. tts'[r] = "failed" /\ \A t \in Runtimes : t # r => tts'[t] = tts[t]
      BY <1>0, <3>1
    <3> QED BY <3>1, <3>2, AnsweredStays
  <2> QED BY <1>7, <2>1, <2>2, <2>3, <2>4, <2>5, <2>6, <2>7, <2>8 DEF Warms
<1> QED BY <1>1, <1>2, <1>3, <1>4, <1>5, <1>6, <1>7 DEF Formed

-----------------------------------------------------------------------------
\* A crossed pool stays one.
LEMMA CrossedStays == ASSUME PoolTypes, Formed, crossed PROVE crossed'
<1>1. ASSUME NEW a \in Activators, Asking(a) \/ Taking(a) \/ Counting(a) PROVE crossed'
  BY <1>1 DEF Asking, AskOld, AskNew, Taking, TakeOld, TakeNew, TakeNone, Installs, Counting, Counts
<1>2. ASSUME Pinning \/ Returning PROVE crossed'
  BY <1>2 DEF Pinning, PinMore, PinSet, Unpin, Returning, Returns, LastReturns
<1>3. ASSUME NEW x \in rels, Leaving(x) PROVE crossed'
  BY <1>3, LeavingKeeps
<1>4. ASSUME NEW x \in warms, NEW r \in Runtimes, Warms(x, r) PROVE crossed'
  BY <1>4, WarmKeeps
<1> QED BY <1>1, <1>2, <1>3, <1>4 DEF Formed

LEMMA UncrossedStep == ASSUME PoolCounted, Uncrossed, ~crossed', Formed PROVE Uncrossed'
<1>1. PoolTypes /\ Made /\ Built /\ Wired /\ Leases /\ Making /\ SharesCounted
  BY DEF PoolCounted
<1>2. Lives /\ Sharing /\ Lent /\ Apart /\ Open /\ Warming /\ Kept /\ Answered /\ Accounted
  BY DEF Uncrossed
<1>3. Lives'
  BY <1>1, <1>2, OnceStep, PlacedStep, AloneStep DEF Lives
<1>4. Sharing' /\ Lent'
  BY <1>1, <1>2, SharingStep, LentStep
<1>5. Apart' /\ Open'
  BY <1>1, <1>2, ApartStep, OpenStep
<1>6. Warming' /\ Kept'
  BY <1>1, <1>2, WarmingStep, KeptStep
<1>7. Answered' /\ Accounted'
  BY <1>1, <1>2, AnsweredStep, AccountedStep
<1> QED BY <1>3, <1>4, <1>5, <1>6, <1>7 DEF Uncrossed

LEMMA UncrossedKept == PoolSpec => []((~crossed => Uncrossed) /\ PoolCounted)
<1>1. PoolInit => (~crossed => Uncrossed)
  BY UncrossedInit
<1>2. PoolCounted /\ (~crossed => Uncrossed) /\ [PoolNext]_poolVars => (~crossed => Uncrossed)'
  <2> SUFFICES ASSUME PoolCounted, ~crossed => Uncrossed, [PoolNext]_poolVars, ~crossed' PROVE Uncrossed'
    OBVIOUS
  <2>1. CASE PoolNext
    <3>1. Formed
      BY <2>1, EveryForm DEF PoolCounted
    <3>2. ~crossed
      BY <3>1, CrossedStays DEF PoolCounted
    <3> QED BY <3>1, <3>2, UncrossedStep
  <2>2. CASE UNCHANGED poolVars
    <3> USE <2>2 DEF poolVars, mapVars, runtimeVars, engineVars
    <3>1. Lives /\ Sharing /\ Lent /\ Apart /\ Open /\ Warming /\ Kept /\ Answered /\ Accounted
      BY DEF Uncrossed
    <3>2. Lives'
      BY <3>1 DEF Lives, Once, Placed, Single, Early, Here, Torn
    <3>3. Sharing' /\ Lent' /\ Open'
      BY <3>1 DEF Sharing, Lent, Open, Here, Torn, Wanted, VoiceFor
    <3>4. \A r, e : Owns(r, e)' <=> Owns(r, e)
      BY DEF Owns
    <3>5. Apart'
      BY <3>1, <3>4 DEF Apart
    <3>6. Accounted'
      BY <3>1, <3>4 DEF Accounted
    <3>7. Warming' /\ Kept' /\ Answered'
      BY <3>1 DEF Warming, WarmFine, Kept, Answered, Current
    <3> QED BY <3>2, <3>3, <3>5, <3>6, <3>7 DEF Uncrossed
  <2> QED BY <2>1, <2>2
<1> QED BY <1>1, <1>2, CountedKept, PTL DEF PoolSpec

(* LeasesHonoured: a runtime whose warm-up succeeded keeps an open engine as long
   as a lease is held, the shares of a voice's engine are counted, and a pinned
   voice keeps its runtime (Runtime.Activate, Lease.Release, onZero, KeepWarm). *)
THEOREM LeasesHonouredHolds == PoolSpec => []LeasesHonoured
<1>1. (~crossed => Uncrossed) /\ PoolCounted => LeasesHonoured
  <2> SUFFICES ASSUME ~crossed => Uncrossed, PoolCounted PROVE LeasesHonoured
    OBVIOUS
  <2>0. PoolTypes /\ Made /\ Built /\ Leases /\ SharesCounted
    BY DEF PoolCounted
  <2>1. LeasedEngineOpen
    <3> SUFFICES ASSUME NEW r \in Runtimes, tts[r] = "ok", ~crossed
                 PROVE worker[r] # 0 /\ worker[r] \notin closed
      BY DEF LeasedEngineOpen
    <3>1. Lives /\ Sharing /\ Lent /\ Open /\ Answered
      BY DEF Uncrossed
    <3>2. refs[r] > 0
      BY <2>0, <3>1 DEF PoolTypes, Lives, Once
    <3>3. worker[r] # 0
      BY <3>1 DEF Answered
    <3>4. CASE r \in release
      <4>1. worker[r] = pool[VoiceFor(r)].engine
        BY <3>1, <3>2, <3>4 DEF Sharing
      <4>2. VoiceFor(r) \in Voices /\ pool[VoiceFor(r)].refs > 0
        BY <2>0, <3>4, ShareTaken
      <4> QED BY <3>1, <3>3, <4>1, <4>2 DEF Lent
    <3>5. CASE r \notin release
      BY <3>1, <3>3, <3>5 DEF Open
    <3> QED BY <3>4, <3>5
  <2>2. PinHolds
    <3> SUFFICES ASSUME NEW v \in Voices, pinned[v] # 0 PROVE refs[pinned[v]] > loose[pinned[v]]
      BY DEF PinHolds
    <3>1. PICK r : r = pinned[v]
      OBVIOUS
    <3>2. r \in Runtimes
      BY <2>0, <3>1, Named
    <3>3. Pinned(r) = 1 /\ Pending(r) \in {0, 1}
      BY <3>1, BitsAre DEF Pinned, Bit
    <3>4. refs[r] = loose[r] + Pinned(r) + Pending(r) /\ loose[r] \in Nat
      BY <2>0, <3>2 DEF Leases, PoolTypes
    <3>5. refs[r] > loose[r]
      BY <3>3, <3>4
    <3> QED BY <3>1, <3>5
  <2> QED BY <2>0, <2>1, <2>2 DEF LeasesHonoured
<1> QED BY <1>1, UncrossedKept, PTL

(* IdleHandled: at rest every engine is closed, and who waits for a voice has a
   warm-up on its way, unless an activation crossed another or a teardown
   (Runtime.warm, Lease.Release, releaseWorkerLocked). *)
THEOREM IdleHandledHolds == PoolSpec => []IdleHandled
<1>1. (~crossed => Uncrossed) /\ PoolCounted => IdleHandled
  <2> SUFFICES ASSUME Uncrossed, PoolCounted PROVE EnginesUnload /\ WarmupOwed
    BY DEF IdleHandled, EnginesUnloadUncrossed, WarmupOwed
  <2>0. PoolTypes /\ Made /\ Built /\ SharesCounted
    BY DEF PoolCounted
  <2>1. WarmupOwed
    BY DEF Uncrossed, Answered, WarmupOwed
  <2>2. EnginesUnload
    <3> SUFFICES ASSUME Quiet PROVE closed = 1..engines
      BY DEF EnginesUnload
    <3>1. release = {}
      <4>1. \A r \in Runtimes : r \in release => refs[r] > 0 \/ Torn(r) \/ Wanted(r)
        BY DEF Uncrossed, Sharing
      <4>2. \A r \in Runtimes : refs[r] = 0 /\ ~Torn(r) /\ ~Wanted(r)
        BY DEF Quiet, Torn, Wanted
      <4>3. release \subseteq Runtimes /\ \A r \in Runtimes : ~(refs[r] > 0)
        BY <2>0, <4>2 DEF PoolTypes
      <4> QED BY <4>1, <4>2, <4>3
    <3>2. \A v \in Voices : pool[v].refs = 0
      <4> TAKE v \in Voices
      <4>1. SharersOf(v) = {} /\ TakersOf(v) = {}
        BY <3>1 DEF SharersOf, TakersOf, Quiet
      <4>2. Cardinality(SharersOf(v)) = 0 /\ Cardinality(TakersOf(v)) = 0
        BY <4>1, FS_EmptySet
      <4>3. pool[v].refs = Cardinality(SharersOf(v)) + Cardinality(TakersOf(v))
        BY <2>0 DEF SharesCounted, SharersOf, TakersOf
      <4> QED BY <4>2, <4>3
    <3>3. \A r \in Runtimes : worker[r] = 0
      <4>1. \A r \in Runtimes : worker[r] # 0 => refs[r] > 0 \/ r \in release
        BY DEF Uncrossed, Sharing
      <4> QED BY <3>1, <4>1 DEF Quiet
    <3>4. \A r \in Runtimes, e \in 1..engines : ~Owns(r, e)
      BY <3>3 DEF Owns, Quiet
    <3>5. \A e \in 1..engines : e \in closed
      BY <3>2, <3>4 DEF Uncrossed, Accounted
    <3>6. \A e \in closed : e \in 1..engines
      BY <2>0 DEF PoolTypes, Built
    <3> QED BY <3>5, <3>6
  <2> QED BY <2>1, <2>2
<1> QED BY <1>1, UncrossedKept, PTL
=============================================================================
