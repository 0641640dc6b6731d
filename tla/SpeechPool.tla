----------------------------- MODULE SpeechPool -----------------------------
(***************************************************************************)
(* The pool of speech runtimes (internal/speech/lifecycle.go): a runtime   *)
(* per voice and speed, counted by leases, and a Piper engine per voice,   *)
(* counted by the runtimes that use it.                                    *)
(*                                                                         *)
(* The actors are the activations (calls activate under Service.mu, so one *)
(* at a time; KeepWarm is called by web requests and holds no such lock),  *)
(* the releases, and one warm-up goroutine for each time a runtime's       *)
(* references leave zero.  An action is one critical section of the pool's *)
(* or the runtime's mutex.                                                 *)
(*                                                                         *)
(* The Whisper half of the warm-up and the directory of the warm-up file   *)
(* are left out; a failure to create the file is one of the failures of    *)
(* WarmCheck.                                                              *)
(***************************************************************************)
EXTENDS Naturals, FiniteSets

CONSTANTS
    Keys,           \* voice and speed of a runtime
    Voices,
    VoiceOf,        \* VoiceOf[k]: the voice of key k
    Activators,     \* "calls" and/or "pin"
    MaxActivations  \* bound: activations started, and none after a crossed one

ASSUME SpeechAssumption ==
    /\ Keys # {}
    /\ VoiceOf \in [Keys -> Voices]
    /\ Activators \subseteq {"calls", "pin"}
    /\ MaxActivations \in Nat

VARIABLES
    slot,       \* p.runtimes: the runtime of a key, or 0
    pool,       \* p.workers: the shared engine of a voice and its refs (0: no entry)
    pinned,     \* p.pinned: the runtime a voice's keep-warm lease is for, or 0
    act,        \* per activator: where Activate is, and its runtime and engine
    key,        \* per runtime: its key
    refs,       \* r.refs
    loose,      \* leases not in p.pinned, of calls and of a lifted pin
    worker,     \* r.worker: an engine, or 0
    release,    \* runtimes whose workerRelease is set
    ready,      \* r.ready: the number of the warm-up, or 0
    gen,        \* how many warm-ups a runtime has had
    tts,        \* r.ttsReady
    warms,      \* warm-up goroutines
    rels,       \* Release calls between the last reference and onZero
    closed,     \* engines whose close ran
    made,       \* runtimes made so far
    engines,    \* engines made so far
    started,    \* activations started so far
    crossed     \* history: an activation met another one or a teardown of the
                \* same runtime between two of its critical sections

mapVars     == <<slot, pool, pinned>>
runtimeVars == <<key, refs, loose, worker, release, ready, gen, tts>>
engineVars  == <<closed, engines>>
poolVars == <<mapVars, act, runtimeVars, warms, rels, engineVars, made, started, crossed>>

Runtimes == 1..MaxActivations
Engines  == 1..(2 * MaxActivations)

Idle == [pc |-> "idle", rt |-> 0, engine |-> 0]

PoolInit ==
    /\ slot = [k \in Keys |-> 0]
    /\ pool = [v \in Voices |-> [engine |-> 0, refs |-> 0]]
    /\ pinned = [v \in Voices |-> 0]
    /\ act = [a \in Activators |-> Idle]
    /\ key \in [Runtimes -> {CHOOSE k \in Keys : TRUE}]
    /\ refs = [r \in Runtimes |-> 0] /\ loose = [r \in Runtimes |-> 0]
    /\ worker = [r \in Runtimes |-> 0] /\ release = {}
    /\ ready = [r \in Runtimes |-> 0] /\ gen = [r \in Runtimes |-> 0]
    /\ tts = [r \in Runtimes |-> "none"]
    /\ warms = {} /\ rels = {}
    /\ closed = {} /\ engines = 0 /\ made = 0 /\ started = 0
    /\ crossed = FALSE

VoiceFor(r) == VoiceOf[key[r]]

\* The new engine of a Piper or resident worker that starts, if it does.
NewEngine == engines + 1

(***************************************************************************)
(* RuntimePool.Activate and KeepWarm                                       *)
(***************************************************************************)

Lookup(a, k) ==
    /\ act[a].pc = "idle" /\ started < MaxActivations /\ ~crossed
    /\ started' = started + 1
    /\ IF slot[k] # 0
       THEN /\ act' = [act EXCEPT ![a] = [pc |-> "activate", rt |-> slot[k], engine |-> 0]]
            /\ UNCHANGED <<slot, key, made>>
       ELSE /\ made' = made + 1
            /\ slot' = [slot EXCEPT ![k] = made']
            /\ key' = [key EXCEPT ![made'] = k]
            /\ act' = [act EXCEPT ![a] = [pc |-> "worker", rt |-> made', engine |-> 0]]
    /\ UNCHANGED <<pool, pinned, refs, loose, worker, release, ready, gen, tts, warms,
                   rels, engineVars, crossed>>

\* workerFor: the shared engine of the voice, made on first use.
TakeWorker(a) ==
    /\ act[a].pc = "worker"
    /\ LET v == VoiceFor(act[a].rt) IN
       \/ /\ pool[v].refs > 0
          /\ pool' = [pool EXCEPT ![v].refs = @ + 1]
          /\ act' = [act EXCEPT ![a].pc = "install", ![a].engine = pool[v].engine]
          /\ UNCHANGED engines
       \/ /\ pool[v].refs = 0
          /\ engines' = NewEngine
          /\ pool' = [pool EXCEPT ![v] = [engine |-> NewEngine, refs |-> 1]]
          /\ act' = [act EXCEPT ![a].pc = "install", ![a].engine = NewEngine]
       \/ /\ pool[v].refs = 0      \* no engine can be started
          /\ act' = [act EXCEPT ![a].pc = "activate"]
          /\ UNCHANGED <<pool, engines>>
    /\ UNCHANGED <<slot, pinned, runtimeVars, warms, rels, closed, made, started, crossed>>

InstallWorker(a) ==
    /\ act[a].pc = "install"
    /\ worker' = [worker EXCEPT ![act[a].rt] = act[a].engine]
    /\ release' = release \cup {act[a].rt}
    /\ act' = [act EXCEPT ![a].pc = "activate"]
    /\ UNCHANGED <<mapVars, key, refs, loose, ready, gen, tts, warms, rels, engineVars,
                   made, started, crossed>>

\* Another activation or a teardown of r is between its critical sections.
Crosses(a, r) ==
    \/ \E b \in Activators \ {a} : act[b].rt = r /\ act[b].pc # "pin"
    \/ \E x \in rels : x.rt = r
    \/ slot[key[r]] # r

\* Runtime.Activate: the first reference starts a warm-up.
Activate(a) ==
    /\ act[a].pc = "activate"
    /\ LET r == act[a].rt IN
       /\ refs' = [refs EXCEPT ![r] = @ + 1]
       /\ IF refs[r] = 0
          THEN /\ gen' = [gen EXCEPT ![r] = @ + 1]
               /\ ready' = [ready EXCEPT ![r] = gen'[r]]
               /\ tts' = [tts EXCEPT ![r] = "waiting"]
               /\ warms' = warms \cup {[rt |-> r, gen |-> gen'[r], pc |-> "acquire",
                                        engine |-> 0, owned |-> FALSE]}
          ELSE UNCHANGED <<gen, ready, tts, warms>>
       /\ IF a = "calls"
          THEN /\ loose' = [loose EXCEPT ![r] = @ + 1]
               /\ act' = [act EXCEPT ![a] = Idle]
          ELSE /\ act' = [act EXCEPT ![a].pc = "pin"]
               /\ UNCHANGED loose
       /\ crossed' = (crossed \/ Crosses(a, r))
    /\ UNCHANGED <<mapVars, key, worker, release, rels, engineVars, made, started>>

\* Mutant: with a pin there, the pin's lease is released and not the new one.
KeepWarmReleasesPin(a) ==
    /\ act[a].pc = "pin"
    /\ LET r == act[a].rt
           v == VoiceFor(r) IN
       IF pinned[v] # 0
       THEN loose' = [loose EXCEPT ![pinned[v]] = @ + 1] /\ UNCHANGED pinned
       ELSE pinned' = [pinned EXCEPT ![v] = r] /\ UNCHANGED loose
    /\ act' = [act EXCEPT ![a] = Idle]
    /\ UNCHANGED <<slot, pool, key, refs, worker, release, ready, gen, tts, warms, rels,
                   engineVars, made, started, crossed>>

\* The lease becomes the pin of the voice; with a pin there it is released.
KeepWarm(a) ==
    /\ act[a].pc = "pin"
    /\ LET r == act[a].rt
           v == VoiceFor(r) IN
       IF pinned[v] # 0
       THEN loose' = [loose EXCEPT ![r] = @ + 1] /\ UNCHANGED pinned
       ELSE pinned' = [pinned EXCEPT ![v] = r] /\ UNCHANGED loose
    /\ act' = [act EXCEPT ![a] = Idle]
    /\ UNCHANGED <<slot, pool, key, refs, worker, release, ready, gen, tts, warms, rels,
                   engineVars, made, started, crossed>>

\* The pin is lifted; its lease is released after the lock.
ReleaseKeepWarm(v) ==
    /\ pinned[v] # 0
    /\ pinned' = [pinned EXCEPT ![v] = 0]
    /\ loose' = [loose EXCEPT ![pinned[v]] = @ + 1]
    /\ UNCHANGED <<slot, pool, act, key, refs, worker, release, ready, gen, tts, warms,
                   rels, engineVars, made, started, crossed>>

(***************************************************************************)
(* Lease.Release and the runtime's onZero                                  *)
(***************************************************************************)

\* Mutant: the worker is closed although the pool shares it.
OwnWorkerAlways(r) == worker[r]

\* The worker Release closes itself: not one that workerRelease gives back.
OwnWorker(r) == IF r \in release THEN 0 ELSE worker[r]

\* Mutant: a lease can be released again.
ReleaseAgain(r) ==
    /\ loose[r] > 0
    /\ refs' = [refs EXCEPT ![r] = @ - 1]
    /\ IF refs[r] = 1
       THEN /\ rels' = rels \cup {[rt |-> r, engine |-> OwnWorker(r)]}
            /\ worker' = [worker EXCEPT ![r] = 0]
            /\ ready' = [ready EXCEPT ![r] = 0]
            /\ tts' = [tts EXCEPT ![r] = "none"]
       ELSE UNCHANGED <<rels, worker, ready, tts>>
    /\ UNCHANGED <<mapVars, act, key, release, gen, loose, warms, engineVars, made, started,
                   crossed>>

ReleaseLease(r) ==
    /\ loose[r] > 0
    /\ loose' = [loose EXCEPT ![r] = @ - 1]
    /\ refs' = [refs EXCEPT ![r] = @ - 1]
    /\ IF refs[r] = 1
       THEN /\ rels' = rels \cup {[rt |-> r, engine |-> OwnWorker(r)]}
            /\ worker' = [worker EXCEPT ![r] = 0]
            /\ ready' = [ready EXCEPT ![r] = 0]
            /\ tts' = [tts EXCEPT ![r] = "none"]
       ELSE UNCHANGED <<rels, worker, ready, tts>>
    /\ UNCHANGED <<mapVars, act, key, release, gen, warms, engineVars, made, started,
                   crossed>>

\* Mutant: the runtime leaves the pool and keeps its share of the engine.
GiveBackNothing(r) == UNCHANGED <<pool, release>> /\ closed' = closed

\* Mutant: workerRelease stays set after it was called.
GiveBackAgain(r) ==
    LET v == VoiceFor(r)
        last == pool[v].refs = 1 IN
    IF r \in release /\ pool[v].refs > 0
    THEN /\ pool' = [pool EXCEPT ![v].refs = @ - 1]
         /\ closed' = IF last THEN closed \cup {pool[v].engine} ELSE closed
         /\ UNCHANGED release
    ELSE UNCHANGED <<pool, release, closed>>

\* releaseWorkerLocked: the last runtime of the voice closes the engine.
GiveBack(r) ==
    LET v == VoiceFor(r)
        last == pool[v].refs = 1 IN
    IF r \in release
    THEN /\ release' = release \ {r}
         /\ pool' = [pool EXCEPT ![v].refs = @ - 1]
         /\ closed' = IF last THEN closed \cup {pool[v].engine} ELSE closed
    ELSE UNCHANGED <<pool, release, closed>>

\* worker.close, then onZero: a runtime nobody took up again leaves the pool.
CloseOwn(x) ==
    /\ x.engine \notin closed \cup {0}
    /\ closed' = closed \cup {x.engine}
    /\ UNCHANGED <<mapVars, act, runtimeVars, warms, rels, engines, made, started, crossed>>

OnZero(x) ==
    /\ x.engine \in closed \cup {0}
    /\ rels' = rels \ {x}
    /\ IF refs[x.rt] = 0 /\ slot[key[x.rt]] = x.rt
       THEN slot' = [slot EXCEPT ![key[x.rt]] = 0] /\ GiveBack(x.rt)
       ELSE UNCHANGED <<slot, pool, release, closed>>
    /\ UNCHANGED <<pinned, act, key, refs, loose, worker, ready, gen, tts, warms, engines,
                   made, started, crossed>>

(***************************************************************************)
(* Runtime.warm, the TTS half                                              *)
(***************************************************************************)

Current(x) == ready[x.rt] = x.gen

WarmEnds(x) == warms' = warms \ {x}
WarmGoesOn(x, y) == warms' = (warms \ {x}) \cup {y}

\* discard: only an engine the warm-up made itself is closed.
Discard(x) == closed' = IF x.owned THEN closed \cup {x.engine} ELSE closed

\* acquireWorker: the runtime's worker, or an engine of its own, or an error.
WarmAcquire(x) ==
    /\ x.pc = "acquire"
    /\ \/ /\ worker[x.rt] # 0
          /\ WarmGoesOn(x, [x EXCEPT !.pc = "install", !.engine = worker[x.rt]])
          /\ UNCHANGED <<engines, tts>>
       \/ /\ worker[x.rt] = 0
          /\ engines' = NewEngine
          /\ WarmGoesOn(x, [x EXCEPT !.pc = "install", !.engine = NewEngine, !.owned = TRUE])
          /\ UNCHANGED tts
       \/ /\ worker[x.rt] = 0
          /\ WarmEnds(x)
          /\ tts' = IF Current(x) THEN [tts EXCEPT ![x.rt] = "failed"] ELSE tts
          /\ UNCHANGED engines
    /\ UNCHANGED <<mapVars, act, key, refs, loose, worker, release, ready, gen, rels,
                   closed, made, started, crossed>>

WarmInstall(x) ==
    /\ x.pc = "install"
    /\ IF Current(x) /\ worker[x.rt] \in {0, x.engine}
       THEN /\ worker' = [worker EXCEPT ![x.rt] = x.engine]
            /\ WarmGoesOn(x, [x EXCEPT !.pc = "check"])
            /\ UNCHANGED closed
       ELSE /\ Discard(x)
            /\ WarmEnds(x)
            /\ UNCHANGED worker
    /\ UNCHANGED <<mapVars, act, key, refs, loose, release, ready, gen, tts, rels, engines,
                   made, started, crossed>>

\* The runtime was torn down, or the warm-up file cannot be made, or it can.
WarmCheck(x) ==
    /\ x.pc = "check"
    /\ \/ /\ ~Current(x)
          /\ Discard(x)
          /\ WarmEnds(x)
          /\ UNCHANGED <<worker, tts>>
       \/ /\ Current(x)
          /\ Discard(x)
          /\ WarmEnds(x)
          /\ IF worker[x.rt] = x.engine
             THEN /\ worker' = IF x.owned THEN [worker EXCEPT ![x.rt] = 0] ELSE worker
                  /\ tts' = [tts EXCEPT ![x.rt] = "failed"]
             ELSE UNCHANGED <<worker, tts>>
       \/ /\ Current(x)
          /\ WarmGoesOn(x, [x EXCEPT !.pc = "synth"])
          /\ UNCHANGED <<worker, tts, closed>>
    /\ UNCHANGED <<mapVars, act, key, refs, loose, release, ready, gen, rels, engines,
                   made, started, crossed>>

\* Mutant: a failed synthesis is not reported to ttsReady.
WarmSynthSilent(x) ==
    /\ x.pc = "synth"
    /\ WarmEnds(x)
    /\ \/ /\ x.engine \notin closed
          /\ tts' = IF Current(x) THEN [tts EXCEPT ![x.rt] = "ok"] ELSE tts
          /\ UNCHANGED <<worker, closed>>
       \/ /\ Discard(x)
          /\ worker' = IF Current(x) /\ x.owned /\ worker[x.rt] = x.engine
                       THEN [worker EXCEPT ![x.rt] = 0] ELSE worker
          /\ UNCHANGED tts
    /\ UNCHANGED <<mapVars, act, key, refs, loose, release, ready, gen, rels, engines,
                   made, started, crossed>>

\* A closed engine refuses the warm-up utterance; an open one may fail it.
WarmSynth(x) ==
    /\ x.pc = "synth"
    /\ WarmEnds(x)
    /\ \/ /\ x.engine \notin closed
          /\ tts' = IF Current(x) THEN [tts EXCEPT ![x.rt] = "ok"] ELSE tts
          /\ UNCHANGED <<worker, closed>>
       \/ /\ Discard(x)
          /\ worker' = IF Current(x) /\ x.owned /\ worker[x.rt] = x.engine
                       THEN [worker EXCEPT ![x.rt] = 0] ELSE worker
          /\ tts' = IF Current(x) THEN [tts EXCEPT ![x.rt] = "failed"] ELSE tts
    /\ UNCHANGED <<mapVars, act, key, refs, loose, release, ready, gen, rels, engines,
                   made, started, crossed>>

ActivationStep(a) == TakeWorker(a) \/ InstallWorker(a) \/ Activate(a) \/ KeepWarm(a)
TeardownStep == \E x \in rels : CloseOwn(x) \/ OnZero(x)
WarmStep == \E x \in warms : WarmAcquire(x) \/ WarmInstall(x) \/ WarmCheck(x) \/ WarmSynth(x)

PoolNext ==
    \/ \E a \in Activators, k \in Keys : Lookup(a, k)
    \/ \E a \in Activators : ActivationStep(a)
    \/ \E v \in Voices : ReleaseKeepWarm(v)
    \/ \E r \in Runtimes : ReleaseLease(r)
    \/ TeardownStep \/ WarmStep

PoolSpec == PoolInit /\ [][PoolNext]_poolVars

(***************************************************************************)
(* Properties.                                                             *)
(***************************************************************************)
PoolTypeOK ==
    /\ slot \in [Keys -> {0} \cup Runtimes]
    /\ pool \in [Voices -> [engine : {0} \cup Engines, refs : 0..MaxActivations]]
    /\ pinned \in [Voices -> {0} \cup Runtimes]
    /\ act \in [Activators -> [pc : {"idle", "worker", "install", "activate", "pin"},
                               rt : {0} \cup Runtimes, engine : {0} \cup Engines]]
    /\ key \in [Runtimes -> Keys]
    /\ refs \in [Runtimes -> 0..MaxActivations] /\ loose \in [Runtimes -> 0..MaxActivations]
    /\ worker \in [Runtimes -> {0} \cup Engines] /\ release \subseteq Runtimes
    /\ ready \in [Runtimes -> 0..MaxActivations] /\ gen \in [Runtimes -> 0..MaxActivations]
    /\ tts \in [Runtimes -> {"none", "waiting", "ok", "failed"}]
    /\ closed \subseteq 1..engines /\ engines \in 0..(2 * MaxActivations)
    /\ made \in 0..MaxActivations /\ started \in 0..MaxActivations /\ crossed \in BOOLEAN

\* A runtime whose warm-up succeeded keeps an open engine as long as a call or a
\* pin holds a lease: no release of another call, no teardown of another runtime
\* of the voice and no late warm-up of an earlier generation closes it.
LeasedEngineOpen ==
    \A r \in Runtimes :
        tts[r] = "ok" /\ ~crossed => worker[r] # 0 /\ worker[r] \notin closed

\* The refs of the shared engine of a voice are the runtimes that will give it
\* back, and activations that took it and have not installed it yet.
SharesCounted ==
    \A v \in Voices :
        pool[v].refs = Cardinality({r \in release : VoiceFor(r) = v})
                     + Cardinality({a \in Activators : act[a].pc = "install"
                                                      /\ VoiceFor(act[a].rt) = v})

\* A pinned voice keeps a referenced runtime until its pin is lifted, however
\* many calls with that voice end and however often it is pinned again.
PinHolds == \A v \in Voices : pinned[v] # 0 => refs[pinned[v]] > loose[pinned[v]]

\* Nobody uses or is about to use any engine.
Quiet ==
    /\ \A r \in Runtimes : refs[r] = 0
    /\ \A a \in Activators : act[a].pc = "idle"
    /\ rels = {} /\ warms = {}

\* A voice unloads when the last call using it ends (docs/ARCHITECTURE.md).
\* By itself the code does not keep this: see section 6 of the README.
EnginesUnload == Quiet => closed = 1..engines

\* The same as long as no activation ran into another activation or into the
\* teardown of the same runtime between two of its critical sections.
EnginesUnloadUncrossed == ~crossed => EnginesUnload

\* A caller who waits for the voice of a runtime in use gets an answer: the
\* warm-up of this generation of the runtime is under way and has not given up.
WarmupOwed ==
    \A r \in Runtimes :
        tts[r] = "waiting" /\ ~crossed => \E x \in warms : x.rt = r /\ Current(x)

(* LeasesHonoured: what is leased or pinned stays open and is counted. *)
LeasesHonoured == LeasedEngineOpen /\ SharesCounted /\ PinHolds

(* IdleHandled: at rest, unused engines are closed and a voice that still
   needs its warm-up has one on its way. *)
IdleHandled == EnginesUnloadUncrossed /\ WarmupOwed
=============================================================================
