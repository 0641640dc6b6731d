-------------------------- MODULE SipSupervisor --------------------------
(***************************************************************************)
(* The supervisor of the baresip child process: internal/sip (sip.go,      *)
(* restart.go), with the console's save of the SIP settings                *)
(* (web/sip_handlers.go, store/sip.go) and the start-up and shutdown       *)
(* sequences of cmd/voxmail/main.go that call it.                          *)
(*                                                                         *)
(* Apply and Stop run under the lifecycle mutex and take b.mu for short    *)
(* sections; each such section, each file written and each wait is a step. *)
(* The goroutine that waits for a child (onExit, then respawn) and the     *)
(* bridge's registration events take b.mu between any two of them.         *)
(***************************************************************************)
EXTENDS Integers, Sequences, FiniteSets

CONSTANTS
    Savers,       \* console requests saving SIP settings
    Forms,        \* settings a save submits: [on, who, pass, port]
    Overlays,     \* deployment overlays: [offline, calls, line, who, port]
    DefaultPort,
    Phases,       \* registration phases the shim reports
    RespawnLimit, \* maxRespawnAttempts
    CrashCap,     \* saturation of the crash counter (64 in the code)
    MaxSaves,     \* bound: saves submitted
    MaxLosses,    \* bound: children that die without being told to
    MaxPipe,      \* bound: registration events on their way
    MaxFaults     \* bound: failing database, file and start operations

ASSUME BoundsAssumption ==
    {DefaultPort, RespawnLimit, CrashCap, MaxSaves, MaxLosses, MaxPipe, MaxFaults} \subseteq Nat

(* The four phases of the shim's registration events. *)
ASSUME PhasesAssumption ==
    Phases \subseteq {"registering", "registered", "failed", "unregistered"}

ASSUME ActorsAssumption == Savers \cap {"none", "boot", "halt"} = {}

VARIABLES
    stored,       \* the row of sip_settings
    overlay,      \* environment variables of the process
    lifetime,     \* the runtime context is not cancelled
    lifecycle,    \* holder of Baresip.lifecycle
    at, draft,    \* progress of an actor; the form a save works on
    settings,     \* settings loaded by the Apply under way
    target,       \* the child Baresip.stop waits for
    generation, runCtx,  \* runCtx: generation whose context is live, 0 if none
    enabled, stopping, account, process, registration, crashes,
    cmd,          \* the tracked child, 0 if none
    alive,        \* children the operating system still runs
    born,         \* generation a child was started in
    reads,        \* configuration the newest child was started with
    watch, tries, \* the goroutine of a child, and its restart attempts
    files,        \* configuration on disk: [port, account]
    pipe,         \* registration events sent and not yet read by the bridge
    reported,     \* the last phase the newest child sent
    starts, saves, losses, faults,
    clean         \* history: no step of the last Apply has failed

store    == <<stored, draft, saves>>
context  == <<lifetime, generation, runCtx>>
wanted   == <<enabled, stopping, account>>
shown    == <<process, registration>>
children == <<cmd, alive, born, reads, reported, starts>>
vars == <<store, overlay, context, lifecycle, at, settings, target, wanted, shown,
          crashes, children, watch, tries, files, pipe, losses, faults, clean>>

None  == "none"
Blank == "blank"
Boot  == "boot"
Halt  == "halt"
Appliers == Savers \cup {Boot}
Actors   == Appliers \cup {Halt}
Children == 1 .. (MaxSaves + MaxLosses + 1)
Generations == 0 .. (MaxSaves + 2)

NoAccount == [who |-> None, pass |-> None, port |-> 0]
Defaults  == [on |-> FALSE, who |-> None, pass |-> None, port |-> DefaultPort]

(* envSettings: variables of the deployment replace single fields. *)
Overlaid(s) ==
    [s EXCEPT !.who  = IF overlay.who # None THEN overlay.who ELSE @,
              !.port = IF overlay.port # 0 THEN overlay.port ELSE @]

(* buildAccount, or the account line of the environment. *)
AccountFor(s) ==
    IF overlay.offline THEN NoAccount
    ELSE IF overlay.line # NoAccount THEN overlay.line
    ELSE IF s.on /\ s.who # None THEN [who |-> s.who, pass |-> s.pass, port |-> s.port]
    ELSE NoAccount

EnabledFor(s) ==
    /\ ~overlay.offline
    /\ overlay.calls \/ overlay.line # NoAccount \/ (s.on /\ AccountFor(s) # NoAccount)

Rendered(s) == [port |-> s.port, account |-> AccountFor(s)]

CtxLive(g) == lifetime /\ runCtx = g
Fault == faults < MaxFaults /\ faults' = faults + 1

Init ==
    /\ stored \in {Defaults} \cup {f \in Forms : f.pass # Blank}
    /\ overlay \in Overlays
    /\ lifetime = TRUE /\ lifecycle = None
    /\ at = [a \in Actors |-> IF a = Boot THEN "apply" ELSE "idle"]
    /\ draft = [a \in Savers |-> Defaults]
    /\ settings = Defaults /\ target = 0 /\ generation = 0 /\ runCtx = 0
    /\ enabled = FALSE /\ stopping = FALSE /\ account = NoAccount
    /\ process = "disabled" /\ registration = "disabled" /\ crashes = 0
    /\ cmd = 0 /\ alive = {} /\ starts = 0
    /\ born = [c \in Children |-> 0]
    /\ reads = Rendered(Defaults)
    /\ watch = [c \in Children |-> "none"] /\ tries = [c \in Children |-> 0]
    /\ files = [port |-> 0, account |-> NoAccount]
    /\ pipe = <<>> /\ reported = None
    /\ saves = 0 /\ losses = 0 /\ faults = 0
    /\ clean = TRUE
-----------------------------------------------------------------------------
(* The console's save: saveSIP and UpsertSIP, then Apply. *)
Submit(a) ==
    /\ at[a] = "idle" /\ lifetime /\ saves < MaxSaves
    /\ saves' = saves + 1
    /\ \E f \in Forms :
          /\ draft' = [draft EXCEPT ![a] = f]
          /\ at' = [at EXCEPT ![a] = IF f.pass = Blank THEN "keep" ELSE "upsert"]
    /\ UNCHANGED <<stored, overlay, context, lifecycle, settings, target, wanted, shown,
                   crashes, children, watch, tries, files, pipe, losses, faults, clean>>

(* A blank password is replaced by the stored one, read before the write. *)
KeepPassword(a) ==
    /\ at[a] = "keep"
    /\ draft' = [draft EXCEPT ![a].pass = stored.pass]
    /\ at' = [at EXCEPT ![a] = "upsert"]
    /\ UNCHANGED <<stored, saves, overlay, context, lifecycle, settings, target, wanted, shown,
                   crashes, children, watch, tries, files, pipe, losses, faults, clean>>

UpsertSIP(a) ==
    /\ at[a] = "upsert"
    /\ \/ /\ stored' = draft[a]
          /\ at' = [at EXCEPT ![a] = IF overlay.offline THEN "idle" ELSE "apply"]
          /\ UNCHANGED faults
       \/ Fault /\ at' = [at EXCEPT ![a] = "idle"] /\ UNCHANGED stored
    /\ UNCHANGED <<draft, saves, overlay, context, lifecycle, settings, target, wanted, shown,
                   crashes, children, watch, tries, files, pipe, losses, clean>>
-----------------------------------------------------------------------------
(* Apply, under the lifecycle mutex. *)
ApplyBegin(a) ==
    /\ at[a] = "apply" /\ lifecycle = None
    /\ lifecycle' = a
    /\ generation' = generation + 1
    /\ runCtx' = generation + 1
    /\ at' = [at EXCEPT ![a] = "load"]
    /\ UNCHANGED <<store, overlay, lifetime, settings, target, wanted, shown, crashes,
                   children, watch, tries, files, pipe, losses, faults, clean>>

(* loadSettings: an unreadable row disables the account, and so does a
   password that cannot be opened. *)
Loaded(s) ==
    \/ lifetime /\ s = stored /\ clean' = TRUE /\ UNCHANGED faults
    \/ ~lifetime /\ s = Defaults /\ clean' = FALSE /\ UNCHANGED faults
    \/ Fault /\ clean' = FALSE
       /\ s \in {Defaults, [stored EXCEPT !.pass = None, !.on = FALSE]}

Load(a) ==
    /\ at[a] = "load"
    /\ \E s \in {stored, Defaults, [stored EXCEPT !.pass = None, !.on = FALSE]} :
          /\ Loaded(s)
          /\ settings' = Overlaid(s)
    /\ stopping' = FALSE
    /\ account' = AccountFor(settings')
    /\ enabled' = EnabledFor(settings')
    /\ process' = IF enabled' THEN "starting" ELSE "disabled"
    /\ registration' = IF enabled' THEN "unknown" ELSE "disabled"
    /\ at' = [at EXCEPT ![a] = "write"]
    /\ UNCHANGED <<store, overlay, context, lifecycle, target, crashes, children, watch,
                   tries, files, pipe, losses>>

(* An Apply that fails leaves the mutex, and whatever child there is. *)
Release(a) == lifecycle' = None /\ at' = [at EXCEPT ![a] = "idle"]

(* writeConfig writes the config file and then the accounts file. *)
WriteConfig(a) ==
    /\ at[a] = "write"
    /\ \/ /\ files' = [files EXCEPT !.port = settings.port]
          /\ at' = [at EXCEPT ![a] = "accounts"]
          /\ UNCHANGED <<lifecycle, process, faults, clean>>
       \/ Fault /\ Release(a) /\ process' = "degraded" /\ clean' = FALSE /\ UNCHANGED files
    /\ UNCHANGED <<store, overlay, context, settings, target, wanted, registration, crashes,
                   children, watch, tries, pipe, losses>>

WriteAccounts(a) ==
    /\ at[a] = "accounts"
    /\ \/ /\ files' = [files EXCEPT !.account = account]
          /\ at' = [at EXCEPT ![a] = "stop"]
          /\ UNCHANGED <<lifecycle, process, faults, clean>>
       \/ /\ account # NoAccount
          /\ Fault /\ Release(a) /\ process' = "degraded" /\ clean' = FALSE /\ UNCHANGED files
    /\ UNCHANGED <<store, overlay, context, settings, target, wanted, registration, crashes,
                   children, watch, tries, pipe, losses>>

\* Mutant: a child that should run and does is not restarted.
StopUnneeded(a) ==
    /\ at[a] = "stop"
    /\ IF cmd # 0 /\ enabled
       THEN Release(a) /\ UNCHANGED target
       ELSE /\ target' = cmd
            /\ at' = [at EXCEPT ![a] = IF cmd = 0 THEN "socket" ELSE "await"]
            /\ UNCHANGED lifecycle
    /\ UNCHANGED <<store, overlay, context, settings, wanted, shown, crashes,
                   children, watch, tries, files, pipe, losses, faults, clean>>

(* stop: terminate the tracked child, if any, and wait for its goroutine. *)
StopChild(a) ==
    /\ at[a] = "stop"
    /\ target' = cmd
    /\ at' = [at EXCEPT ![a] = IF cmd = 0 THEN "socket" ELSE "await"]
    /\ UNCHANGED <<store, overlay, context, lifecycle, settings, wanted, shown, crashes,
                   children, watch, tries, files, pipe, losses, faults, clean>>

(* The child obeys SIGTERM, or is killed five seconds later. *)
Terminated(a) ==
    /\ at[a] = "await" /\ target \in alive
    /\ alive' = alive \ {target}
    /\ UNCHANGED <<store, overlay, context, lifecycle, at, settings, target, wanted, shown,
                   crashes, cmd, born, reads, reported, starts, watch, tries, files, pipe, losses,
                   faults, clean>>

Awaited(a) ==
    /\ at[a] = "await" /\ watch[target] # "running"
    /\ at' = [at EXCEPT ![a] = "socket"]
    /\ target' = 0
    /\ UNCHANGED <<store, overlay, context, lifecycle, settings, wanted, shown,
                   crashes, children, watch, tries, files, pipe, losses, faults, clean>>

(* startLocked, when it starts a child: it reads the files as they are. *)
StartChild ==
    /\ starts' = starts + 1
    /\ starts' \in Children       \* bound, never reached
    /\ cmd' = starts'
    /\ alive' = alive \cup {starts'}
    /\ born' = [born EXCEPT ![starts'] = generation]
    /\ reads' = files
    /\ reported' = None
    /\ process' = "running"

Start(a) ==
    /\ a # Halt /\ at[a] = "socket"
    /\ Release(a)
    /\ \/ /\ ~enabled
          /\ process' = "disabled"
          /\ UNCHANGED <<children, watch, faults, clean>>
       \/ /\ enabled /\ ~lifetime
          /\ process' = "degraded" /\ clean' = FALSE
          /\ UNCHANGED <<children, watch, faults>>
       \/ /\ enabled /\ lifetime
          /\ StartChild
          /\ watch' = [watch EXCEPT ![starts'] = "running"]
          /\ UNCHANGED <<faults, clean>>
       \/ (* the control socket cannot be removed, or the start fails *)
          /\ Fault /\ clean' = FALSE
          /\ process' \in {process} \cup (IF enabled THEN {"degraded"} ELSE {})
          /\ UNCHANGED <<children, watch>>
    /\ UNCHANGED <<store, overlay, context, settings, target, wanted, registration, crashes,
                   tries, files, pipe, losses>>
-----------------------------------------------------------------------------
(* Shutdown: the runtime context ends, then Stop. *)
StopRuntime ==
    /\ at[Halt] = "idle"
    /\ lifetime' = FALSE
    /\ at' = [at EXCEPT ![Halt] = "begin"]
    /\ UNCHANGED <<store, overlay, generation, runCtx, lifecycle, settings, target, wanted,
                   shown, crashes, children, watch, tries, files, pipe, losses, faults,
                   clean>>

StopBegin ==
    /\ at[Halt] = "begin" /\ lifecycle = None
    /\ lifecycle' = Halt
    /\ stopping' = TRUE /\ enabled' = FALSE
    /\ generation' = generation + 1
    /\ process' = "stopping" /\ registration' = "disabled"
    /\ runCtx' = 0
    /\ at' = [at EXCEPT ![Halt] = "stop"]
    /\ UNCHANGED <<store, overlay, lifetime, settings, target, account, crashes, children,
                   watch, tries, files, pipe, losses, faults, clean>>

StopEnd ==
    /\ at[Halt] = "socket"
    /\ process' = IF cmd = 0 THEN "disabled" ELSE process
    /\ lifecycle' = None
    /\ at' = [at EXCEPT ![Halt] = "down"]
    /\ UNCHANGED <<store, overlay, context, settings, target, wanted, registration, crashes,
                   children, watch, tries, files, pipe, losses, faults, clean>>
-----------------------------------------------------------------------------
(* A child ends on its own, or obeys a SIGTERM (Terminated). *)
Dies(c) ==
    /\ c \in alive /\ losses < MaxLosses
    /\ alive' = alive \ {c}
    /\ losses' = losses + 1
    /\ UNCHANGED <<store, overlay, context, lifecycle, at, settings, target, wanted, shown,
                   crashes, cmd, born, reads, reported, starts, watch, tries, files, pipe, faults,
                   clean>>

RecordCrash == crashes' = IF crashes < CrashCap THEN crashes + 1 ELSE crashes

\* Mutant: onExit takes the lifecycle mutex.
ExitedOutside(c) == watch[c] = "running" /\ c \notin alive /\ lifecycle = None

(* cmd.Wait has returned and its output is drained: onExit may take b.mu. *)
Exited(c) == watch[c] = "running" /\ c \notin alive

\* Mutant: only a child that had registered is restarted.
ShouldRespawnRegistered(c) ==
    /\ cmd = c /\ ~stopping /\ enabled /\ registration = "registered"
    /\ born[c] = generation /\ CtxLive(born[c])

ShouldRespawn(c) ==
    /\ cmd = c /\ ~stopping /\ enabled
    /\ born[c] = generation /\ CtxLive(born[c])

OnExit(c) ==
    /\ Exited(c)
    /\ IF ShouldRespawn(c)
       THEN /\ RecordCrash
            /\ process' = "degraded" /\ registration' = "unknown"
       ELSE /\ process' = IF cmd # c THEN process ELSE IF enabled THEN "stopped" ELSE "disabled"
            /\ registration' = IF cmd # c THEN registration
                               ELSE IF enabled THEN "unknown" ELSE "disabled"
            /\ UNCHANGED crashes
    /\ cmd' = IF cmd = c THEN 0 ELSE cmd
    /\ watch' = [watch EXCEPT ![c] = IF ShouldRespawn(c) THEN "check" ELSE "ended"]
    /\ UNCHANGED <<store, overlay, context, lifecycle, at, settings, target, wanted, alive,
                   born, reads, reported, starts, tries, files, pipe, losses, faults, clean>>

Superseded(c) == born[c] # generation \/ cmd # 0 \/ stopping \/ ~enabled

\* Mutant: the loop makes one attempt too many.
RespawnCheckLate(c) ==
    /\ watch[c] = "check"
    /\ IF tries[c] > RespawnLimit
       THEN /\ process' = IF Superseded(c) THEN process ELSE "degraded"
            /\ watch' = [watch EXCEPT ![c] = "abandoned"]
            /\ UNCHANGED tries
       ELSE /\ watch' = [watch EXCEPT ![c] = IF Superseded(c) THEN "ended" ELSE "sleep"]
            /\ tries' = [tries EXCEPT ![c] = IF Superseded(c) THEN @ ELSE @ + 1]
            /\ UNCHANGED process
    /\ UNCHANGED <<store, overlay, context, lifecycle, at, settings, target, wanted,
                   registration, crashes, children, files, pipe, losses, faults, clean>>

(* respawn: the top of its loop, and its end after too many failures. *)
RespawnCheck(c) ==
    /\ watch[c] = "check"
    /\ IF tries[c] = RespawnLimit
       THEN /\ process' = IF Superseded(c) THEN process ELSE "degraded"
            /\ watch' = [watch EXCEPT ![c] = "abandoned"]
            /\ UNCHANGED tries
       ELSE /\ watch' = [watch EXCEPT ![c] = IF Superseded(c) THEN "ended" ELSE "sleep"]
            /\ tries' = [tries EXCEPT ![c] = IF Superseded(c) THEN @ ELSE @ + 1]
            /\ UNCHANGED process
    /\ UNCHANGED <<store, overlay, context, lifecycle, at, settings, target, wanted,
                   registration, crashes, children, files, pipe, losses, faults, clean>>

RespawnWake(c) ==
    /\ watch[c] = "sleep"
    /\ \/ watch' = [watch EXCEPT ![c] = "lock"]
       \/ ~CtxLive(born[c]) /\ watch' = [watch EXCEPT ![c] = "ended"]
    /\ UNCHANGED <<store, overlay, context, lifecycle, at, settings, target, wanted, shown,
                   crashes, children, tries, files, pipe, losses, faults, clean>>

\* Mutant: the state is not checked again under the mutex.
RespawnBlind(c) ==
    /\ watch[c] = "lock" /\ lifecycle = None
    /\ StartChild
    /\ watch' = [watch EXCEPT ![c] = "ended", ![starts'] = "running"]
    /\ UNCHANGED <<store, overlay, context, lifecycle, at, settings, target, wanted,
                   registration, crashes, tries, files, pipe, losses, faults, clean>>

(* The attempt holds both mutexes, so it is one step. *)
RespawnStart(c) ==
    /\ watch[c] = "lock" /\ lifecycle = None
    /\ \/ /\ Superseded(c) \/ ~CtxLive(born[c])
          /\ watch' = [watch EXCEPT ![c] = "ended"]
          /\ UNCHANGED <<children, process, crashes, faults>>
       \/ /\ ~Superseded(c) /\ ~lifetime       \* cancelled after the check
          /\ process' = "degraded"
          /\ watch' = [watch EXCEPT ![c] = "ended"]
          /\ UNCHANGED <<children, crashes, faults>>
       \/ /\ ~Superseded(c) /\ CtxLive(born[c])
          /\ StartChild
          /\ watch' = [watch EXCEPT ![c] = "ended", ![starts'] = "running"]
          /\ UNCHANGED <<crashes, faults>>
       \/ /\ ~Superseded(c) /\ CtxLive(born[c])
          /\ Fault
          /\ process' = "degraded" /\ RecordCrash
          /\ watch' = [watch EXCEPT ![c] = "check"]
          /\ UNCHANGED children
    /\ UNCHANGED <<store, overlay, context, lifecycle, at, settings, target, wanted,
                   registration, tries, files, pipe, losses, clean>>

(* resetAfterStableUptime: the stable interval is over and the process runs. *)
StableUptime(c) ==
    /\ crashes > 0
    /\ cmd = c /\ c \in alive /\ born[c] = generation /\ ~stopping /\ CtxLive(born[c])
    /\ crashes' = 0
    /\ UNCHANGED <<store, overlay, context, lifecycle, at, settings, target, wanted, shown,
                   children, watch, tries, files, pipe, losses, faults, clean>>
-----------------------------------------------------------------------------
(* Registration events: the shim queues them and one bridge loop reads them. *)
Report(c) ==
    /\ c \in alive /\ Len(pipe) < MaxPipe
    /\ \E p \in Phases \ {reported} :
          /\ pipe' = Append(pipe, p)
          /\ reported' = p
    /\ UNCHANGED <<store, overlay, context, lifecycle, at, settings, target, wanted, shown,
                   crashes, cmd, alive, born, reads, starts, watch, tries, files, losses, faults, clean>>

\* Mutant: the end of a registration is not known.
KnownPhasesUp == {"registering", "registered", "failed"}

KnownPhases == {"registering", "registered", "failed", "unregistered"}

SetRegistrationState ==
    /\ pipe # <<>>
    /\ pipe' = Tail(pipe)
    /\ registration' = IF enabled /\ Head(pipe) \in KnownPhases THEN Head(pipe) ELSE registration
    /\ UNCHANGED <<store, overlay, context, lifecycle, at, settings, target, wanted, process,
                   crashes, children, watch, tries, files, losses, faults, clean>>
-----------------------------------------------------------------------------
Stepping(a) ==
    \/ a \in Savers /\ (KeepPassword(a) \/ UpsertSIP(a))
    \/ a \in Appliers /\ (ApplyBegin(a) \/ Load(a) \/ WriteConfig(a) \/ WriteAccounts(a) \/ Start(a))
    \/ a = Halt /\ (StopBegin \/ StopEnd)
    \/ StopChild(a) \/ Awaited(a)

Watching(c) == OnExit(c) \/ RespawnCheck(c) \/ RespawnWake(c) \/ RespawnStart(c)

Next ==
    \/ \E a \in Savers : Submit(a)
    \/ StopRuntime
    \/ \E a \in Actors : Stepping(a) \/ Terminated(a)
    \/ \E c \in Children : Dies(c) \/ Watching(c) \/ StableUptime(c) \/ Report(c)
    \/ SetRegistrationState

Spec == Init /\ [][Next]_vars

(* Goroutines holding or awaiting a mutex go on, timers fire, and a child
   that was told to end does so within the five seconds or is killed. *)
Fairness ==
    /\ \A a \in Actors : WF_vars(Stepping(a)) /\ WF_vars(Terminated(a))
    /\ \A c \in Children : WF_vars(Watching(c))

FairSpec == Spec /\ Fairness
-----------------------------------------------------------------------------
(* TypeOK: steps, watchers and states shown are the ones the code knows. *)
TypeOK ==
    /\ lifecycle \in Actors \cup {None}
    /\ at \in [Actors -> {"idle", "keep", "upsert", "apply", "load", "write", "accounts",
                          "stop", "await", "socket", "begin", "down"}]
    /\ generation \in Generations /\ runCtx \in {0, generation}
    /\ enabled \in BOOLEAN /\ stopping \in BOOLEAN /\ crashes \in 0 .. CrashCap
    /\ process \in {"disabled", "starting", "running", "stopping", "stopped", "degraded"}
    /\ registration \in {"disabled", "unknown"} \cup Phases
    /\ starts \in Children \cup {0} /\ cmd \in 0 .. starts /\ alive \subseteq 1 .. starts
    /\ watch \in [Children -> {"none", "running", "check", "sleep", "lock", "ended", "abandoned"}]
    /\ tries \in [Children -> 0 .. RespawnLimit]

(* OneChild: at most one child lives and it is the tracked one, so that Stop
   and the next Apply can end it; after shutdown none lives, not even when a
   save or a restart was waiting for the mutex. *)
OneChild ==
    /\ alive \subseteq {cmd}
    /\ at[Halt] = "down" => alive = {}

Settled ==
    /\ lifecycle = None /\ lifetime /\ clean
    /\ \A a \in Appliers : at[a] # "apply"

(* ChildAsConfigured: a living child read the two files of one Apply, never a
   mixture left by one that failed; once every saved form has been applied
   without a failure, that Apply is the one of the stored settings. *)
ChildAsConfigured ==
    /\ \A c \in alive : born[c] = generation => reads = Rendered(settings)
    /\ Settled => /\ enabled = EnabledFor(Overlaid(stored))
                  /\ alive # {} => reads = Rendered(Overlaid(stored))

(* StatusTrue: between operations the process is shown as running exactly
   when the supervised child is tracked; a disabled supervisor shows no
   registration; and once the bridge has read every event, the registration
   shown is the last one the supervised child reported. *)
StatusTrue ==
    /\ process = "running" => cmd # 0
    /\ lifecycle = None /\ cmd # 0 /\ born[cmd] = generation => process = "running"
    /\ ~enabled => registration = "disabled"
    /\ pipe = <<>> /\ cmd # 0 =>
          (born[cmd] = generation /\ reported # None => registration = reported)

(* CallsReturn: an Apply or a Stop ends whatever the child does, so the
   mutex is handed on and shutdown finishes. *)
CallsReturn ==
    /\ lifecycle # None ~> lifecycle = None
    /\ ~lifetime ~> at[Halt] = "down"

(* ComesBack: an enabled child that ends on its own is replaced, unless a
   newer Apply or shutdown takes over or every attempt to start one fails. *)
ComesBack ==
    \A c \in Children :
        (cmd = c /\ c \notin alive /\ enabled /\ born[c] = generation)
            ~> (cmd \notin {0, c} \/ born[c] # generation \/ ~lifetime \/ watch[c] = "abandoned")

(* Recovers: operations return and a crashed child comes back. *)
Recovers == CallsReturn /\ ComesBack
=============================================================================
