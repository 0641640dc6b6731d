------------------------- MODULE InboundMailProofs -------------------------
(***************************************************************************)
(* Proofs of the safety properties of InboundCalls, for every set of calls *)
(* and users, every size of the event queue and any number of keys, and of *)
(* MailStore, whose caller is such a call, for every set of messages and   *)
(* any number of read changes and faults.                                  *)
(*                                                                         *)
(* The calls share nothing but the PINs, so the invariant is a conjunction *)
(* for each call.  First: an admission finds a new call, whatever it left  *)
(* in the queues.  Ended: whoever ends a call has ended it in the shim     *)
(* before the session goes.  Watched and Alive: somebody will end an       *)
(* answered call.  Kept: its call_established is on its way.  Leased: the  *)
(* session knows the leases it took.  Signed and Stamped: what a PIN check *)
(* and a key pressed before it may still do.  Counted: a failed attempt    *)
(* used up a key.                                                          *)
(*                                                                         *)
(* In MailStore, Working ties the run's list and item to the step it is in *)
(* and to the journal, Scanned says which files a scan has dealt with, and *)
(* Ordered and Marked why ids that are used again leave a watermark sound. *)
(***************************************************************************)
EXTENDS InboundCalls, MailStore, Integers, FiniteSetTheorems, WellFoundedInduction, TLAPS

Wires == {"incoming", "established", "closed", "error"}
WorkerPC == {"none", "wait", "handle", "dead", "answer", "activate", "prompt", "playing",
             "choose", "lookup", "check", "say", "sayMenu"}
Workers == [pc : WorkerPC, job : Jobs \cup {NoJob}, user : Users, pin : 0..13, hash : 0..2]
Sessions == [in : {"none", "open", "closed", "gone"},
             state : {"pin", "choice", "verify", "main", "closed"}, routes : Seq(Users),
             user : Users, chosen : BOOLEAN, pin : 0..13, fails : Nat, auth : BOOLEAN,
             authPIN : 0..2, lease : {0, 1}, est : BOOLEAN, gen : Nat \ {0}]

\* The types of all variables, those included that TypeOK leaves open.
Types ==
    /\ shim \in [Calls -> {"off", "ringing", "up", "over"}]
    /\ wire \in [Calls -> Seq(Wires)]
    /\ queue \in [Calls -> Seq(Jobs)]
    /\ worker \in [Calls -> Workers]
    /\ stop \in [Calls -> BOOLEAN]
    /\ sess \in [Calls -> Sessions]
    /\ timer \in [Calls -> BOOLEAN]
    /\ goodbye \in [Calls -> {"none", "due", "playing"}]
    /\ hanging \in [Calls -> BOOLEAN]
    /\ task \in [Calls -> {"none", "say", "sayMenu", "prompt", "promptCode", "playing",
                           "playingCode", "ended"}]
    /\ leases \in [Calls -> Nat] /\ keys \in [Calls -> 0..MaxKeys]
    /\ pinOf \in [Users -> {1, 2}] /\ stale \subseteq Users

\* The queue of a call is bounded.
Bounded == \A c \in Calls : Len(queue[c]) <= QueueSize

-----------------------------------------------------------------------------
\* A call is admitted by the first job of its worker, once: until then it has no
\* session, no key and no lease.
First(c) ==
  /\ \A i \in DOMAIN wire[c] : wire[c][i] = "incoming" =>
       i = 1 /\ queue[c] = <<>> /\ worker[c].pc = "none" /\ sess[c].in = "none"
  /\ \A i \in DOMAIN queue[c] : queue[c][i].kind = "incoming" =>
       i = 1 /\ sess[c].in = "none" /\ worker[c].pc \in {"wait", "dead"}
  /\ worker[c].pc = "handle" /\ worker[c].job.kind = "incoming" => sess[c].in = "none"
  /\ sess[c].in = "none" =>
       /\ shim[c] # "up" /\ worker[c].pc \in {"none", "wait", "handle", "dead"}
       /\ leases[c] = 0 /\ sess[c].lease = 0 /\ sess[c].chosen = FALSE /\ sess[c].est = FALSE
       /\ \A i \in DOMAIN queue[c] : queue[c][i].kind # "key"
  /\ shim[c] = "off" =>
       wire[c] = <<>> /\ queue[c] = <<>> /\ worker[c].pc = "none" /\ sess[c].in = "none"

\* Nobody hears that a call ended before it ended.
Ended(c) ==
  /\ \A i \in DOMAIN wire[c] : wire[c][i] \in {"closed", "error"} => shim[c] = "over"
  /\ stop[c] => shim[c] = "over"
  /\ worker[c].pc = "answer" => shim[c] \in {"ringing", "over"}

\* Somebody plays a prompt; somebody will end the call.
SomePlays(c) ==
  \/ worker[c].pc = "playing" \/ task[c] \in {"playing", "playingCode"}
  \/ goodbye[c] = "playing"
Watched(c) == timer[c] \/ SomePlays(c) \/ hanging[c]
Alive(c) ==
  shim[c] = "up" \/ (shim[c] = "ringing" /\ worker[c].pc = "answer") =>
    Open(c) /\ Watched(c)

\* The call_established of an answered call is on its way to the worker.
Kept(c) ==
  /\ Open(c) /\ shim[c] = "up" /\ ~sess[c].est =>
       \/ \E i \in DOMAIN wire[c] : wire[c][i] = "established"
       \/ \E i \in DOMAIN queue[c] : queue[c][i].kind = "established"
       \/ worker[c].pc = "handle" /\ worker[c].job.kind = "established"
  /\ \A i \in DOMAIN queue[c] : queue[c][i].kind # "key" => queue[c][i].stamp = 0
  /\ ~sess[c].est => task[c] = "none"

\* The leases of a session that chose no account are those it remembers.
Leased(c) ==
  /\ sess[c].lease <= leases[c]
  /\ ~sess[c].chosen => leases[c] = sess[c].lease
  /\ sess[c].in \in {"none", "gone"} => sess[c].lease = 0 \/ sess[c].chosen
  /\ worker[c].pc \in {"answer", "activate"} => sess[c].lease = 0 /\ sess[c].chosen = FALSE

\* The PIN in force, or one whose change is about to end the calls of the user.
InForce(pin, u) == pin = pinOf[u] \/ u \in stale

\* What a PIN check knows is still true when it ends, or the call is over.
Signed(c) ==
  /\ Open(c) /\ sess[c].auth => InForce(sess[c].authPIN, sess[c].user)
  /\ worker[c].pc \in {"lookup", "check"} => worker[c].user = sess[c].user
  /\ worker[c].pc \in {"lookup", "check", "choose"} => sess[c].auth = FALSE
  /\ worker[c].pc = "check" /\ Open(c) => InForce(worker[c].hash, sess[c].user)
  /\ sess[c].state = "main" => sess[c].auth

\* A queued key carries the generation of the menu it was pressed in, which is
\* over when the key was pressed before the caller signed in.
StampedJob(c, job) ==
  job.kind = "key" =>
    /\ job.stamp \in 1..sess[c].gen
    /\ sess[c].auth /\ ~job.signed => job.stamp < sess[c].gen
Stamped(c) ==
  /\ \A i \in DOMAIN queue[c] : StampedJob(c, queue[c][i])
  /\ worker[c].pc = "handle" /\ worker[c].job.kind = "key" /\ sess[c].auth =>
       worker[c].job.signed

\* The failed attempts, the keys in the queue and the key in hand are keys pressed.
KeysIn(q) == Cardinality({i \in DOMAIN q : q[i].kind = "key"})
InHand(w) ==
  IF w.pc \in {"lookup", "check"} \/ (w.pc = "handle" /\ w.job.kind = "key") THEN 1 ELSE 0
Counted(c) == sess[c].fails + KeysIn(queue[c]) + InHand(worker[c]) <= keys[c]

CallInv(c) ==
  First(c) /\ Ended(c) /\ Alive(c) /\ Kept(c) /\ Leased(c) /\ Signed(c) /\ Stamped(c) /\ Counted(c)

-----------------------------------------------------------------------------
\* Facts about queues.
LEMMA Appended ==
  ASSUME NEW T, NEW q \in Seq(T), NEW j \in T
  PROVE  /\ Append(q, j) \in Seq(T) /\ Len(Append(q, j)) = Len(q) + 1
         /\ \A i \in DOMAIN Append(q, j) :
              (i \in DOMAIN q /\ Append(q, j)[i] = q[i]) \/ (i = Len(q) + 1 /\ Append(q, j)[i] = j)
         /\ \A i \in DOMAIN q : i \in DOMAIN Append(q, j) /\ Append(q, j)[i] = q[i]
         /\ Len(q) + 1 \in DOMAIN Append(q, j) /\ Append(q, j)[Len(q) + 1] = j
         /\ Len(q) \in Nat /\ Len(q) + 1 \notin DOMAIN q
<1>1. Append(q, j) \in Seq(T) /\ Len(Append(q, j)) = Len(q) + 1 /\ Len(q) \in Nat
  OBVIOUS
<1>2. DOMAIN q = 1..Len(q) /\ DOMAIN Append(q, j) = 1..(Len(q) + 1)
  BY <1>1
<1>3. Append(q, j)[Len(q) + 1] = j /\ \A i \in 1..Len(q) : Append(q, j)[i] = q[i]
  OBVIOUS
<1> QED BY <1>1, <1>2, <1>3

\* What remains of a queue when its first entry is taken.
LEMMA Taken ==
  ASSUME NEW T, NEW q \in Seq(T), q # <<>>
  PROVE  /\ Tail(q) \in Seq(T) /\ Len(Tail(q)) = Len(q) - 1 /\ Head(q) \in T
         /\ 1 \in DOMAIN q /\ Head(q) = q[1] /\ Len(q) \in Nat \ {0}
         /\ \A i \in DOMAIN Tail(q) : i + 1 \in DOMAIN q /\ Tail(q)[i] = q[i + 1] /\ i \in Nat \ {0}
         /\ \A i \in DOMAIN q \ {1} : i - 1 \in DOMAIN Tail(q) /\ Tail(q)[i - 1] = q[i]
<1>1. Tail(q) \in Seq(T) /\ Len(Tail(q)) = Len(q) - 1 /\ Head(q) \in T /\ Head(q) = q[1]
  OBVIOUS
<1>2. Len(q) \in Nat \ {0}
  OBVIOUS
<1>3. DOMAIN q = 1..Len(q) /\ DOMAIN Tail(q) = 1..(Len(q) - 1)
  BY <1>1, <1>2
<1>4. \A i \in 1..(Len(q) - 1) : Tail(q)[i] = q[i + 1]
  BY <1>2
<1>5. \A i \in DOMAIN Tail(q) : i + 1 \in DOMAIN q /\ Tail(q)[i] = q[i + 1] /\ i \in Nat \ {0}
  BY <1>2, <1>3, <1>4
<1>6. \A i \in DOMAIN q \ {1} : i - 1 \in DOMAIN Tail(q) /\ Tail(q)[i - 1] = q[i]
  <2>1. ASSUME NEW i \in DOMAIN q \ {1} PROVE i - 1 \in 1..(Len(q) - 1) /\ (i - 1) + 1 = i
    BY <1>2, <1>3
  <2> QED BY <2>1, <1>3, <1>4
<1> QED BY <1>1, <1>2, <1>3, <1>5, <1>6
\* The number of keys in a queue.
LEMMA KeysType ==
  ASSUME NEW q \in Seq(Jobs)
  PROVE  IsFiniteSet({i \in DOMAIN q : q[i].kind = "key"}) /\ KeysIn(q) \in Nat
<1>1. DOMAIN q = 1..Len(q) /\ Len(q) \in Nat
  OBVIOUS
<1>2. IsFiniteSet(1..Len(q))
  BY <1>1, FS_Interval
<1>3. {i \in DOMAIN q : q[i].kind = "key"} \in SUBSET (1..Len(q))
  BY <1>1
<1> QED BY <1>2, <1>3, FS_Subset, FS_CardinalityType DEF KeysIn

\* A key that is queued is one key more.
LEMMA KeysAppended ==
  ASSUME NEW q \in Seq(Jobs), NEW j \in Jobs
  PROVE  KeysIn(Append(q, j)) = IF j.kind = "key" THEN KeysIn(q) + 1 ELSE KeysIn(q)
<1> DEFINE A == {i \in DOMAIN q : q[i].kind = "key"}
           B == {i \in DOMAIN Append(q, j) : Append(q, j)[i].kind = "key"}
<1>1. IsFiniteSet(A) /\ Len(q) + 1 \notin A
  BY KeysType, Appended
<1>2. B = IF j.kind = "key" THEN A \cup {Len(q) + 1} ELSE A
  <2>1. /\ \A i \in DOMAIN Append(q, j) :
             (i \in DOMAIN q /\ Append(q, j)[i] = q[i]) \/ (i = Len(q) + 1 /\ Append(q, j)[i] = j)
        /\ \A i \in DOMAIN q : i \in DOMAIN Append(q, j) /\ Append(q, j)[i] = q[i]
        /\ Len(q) + 1 \in DOMAIN Append(q, j) /\ Append(q, j)[Len(q) + 1] = j
    BY Appended
  <2> QED BY <2>1
<1>3. CASE j.kind = "key"
  <2>1. B = A \cup {Len(q) + 1}
    BY <1>2, <1>3
  <2>2. Cardinality(A \cup {Len(q) + 1}) = Cardinality(A) + 1
    BY <1>1, FS_AddElement
  <2> QED BY <2>1, <2>2, <1>3 DEF KeysIn
<1>4. CASE j.kind # "key"
  BY <1>2, <1>4 DEF KeysIn
<1> QED BY <1>3, <1>4

\* A key that is taken is one key less.
LEMMA KeysTaken ==
  ASSUME NEW q \in Seq(Jobs), q # <<>>
  PROVE  IF Head(q).kind = "key" THEN KeysIn(Tail(q)) + 1 <= KeysIn(q)
                                 ELSE KeysIn(Tail(q)) <= KeysIn(q)
<1> DEFINE A == {i \in DOMAIN q : q[i].kind = "key"}
           B == {i \in DOMAIN Tail(q) : Tail(q)[i].kind = "key"}
           f == [i \in A \ {1} |-> i - 1]
<1>1. IsFiniteSet(A) /\ Cardinality(A) \in Nat
  BY KeysType DEF KeysIn
<1>2. /\ \A i \in DOMAIN Tail(q) : i + 1 \in DOMAIN q /\ Tail(q)[i] = q[i + 1] /\ i \in Nat \ {0}
      /\ \A i \in DOMAIN q \ {1} : i - 1 \in DOMAIN Tail(q) /\ Tail(q)[i - 1] = q[i]
      /\ 1 \in DOMAIN q /\ Head(q) = q[1] /\ Tail(q) \in Seq(Jobs)
  BY Taken
<1>3. f \in Surjection(A \ {1}, B)
  <2>1. f \in [A \ {1} -> B]
    BY <1>2
  <2>2. ASSUME NEW t \in B PROVE \E i \in A \ {1} : f[i] = t
    <3>1. t \in Nat \ {0} /\ t + 1 \in DOMAIN q /\ q[t + 1] = Tail(q)[t] /\ Tail(q)[t].kind = "key"
      BY <1>2
    <3>2. t + 1 \in A \ {1} /\ (t + 1) - 1 = t
      BY <3>1
    <3> QED BY <3>2
  <2> QED BY <2>1, <2>2 DEF Surjection
<1>4. IsFiniteSet(A \ {1}) /\ Cardinality(A \ {1}) = IF 1 \in A THEN Cardinality(A) - 1 ELSE Cardinality(A)
  BY <1>1, FS_RemoveElement
<1>5. Cardinality(B) <= Cardinality(A \ {1})
  <2>1. IsFiniteSet(A \ {1})
    BY <1>4
  <2> HIDE DEF A, B, f
  <2> QED BY <1>3, <2>1, FS_Surjection
<1>6. 1 \in A <=> Head(q).kind = "key"
  BY <1>2
<1>7. Cardinality(B) \in Nat
  BY <1>2, KeysType DEF KeysIn
<1> HIDE DEF A, B
<1>8. IF Head(q).kind = "key" THEN Cardinality(B) + 1 <= Cardinality(A)
                              ELSE Cardinality(B) <= Cardinality(A)
  BY <1>1, <1>4, <1>5, <1>6, <1>7
<1> QED BY <1>8 DEF KeysIn, A, B

-----------------------------------------------------------------------------
\* What one step changes of one call.
LEMMA NoSessionType ==
  /\ NoSession \in Sessions /\ NoJob \in Jobs \cup {NoJob}
  /\ \A p \in WorkerPC : [Resting EXCEPT !.pc = p] \in Workers
<1>1. NoSession.user \in Users /\ NoSession \in Sessions
  <2>1. (CHOOSE u \in Users : TRUE) \in Users
    BY InboundAssumption DEF InboundAssumption
  <2> QED BY <2>1 DEF NoSession, Sessions, NoPIN
<1>2. Resting \in Workers
  BY <1>1 DEF Resting, Workers, WorkerPC, NoPIN
<1>3. \A p \in WorkerPC : [Resting EXCEPT !.pc = p] \in Workers
  BY <1>2 DEF Workers
<1> QED BY <1>1, <1>3

\* The worker of the call goes on with its job.
LEMMA GoesToOnly ==
  ASSUME Types, NEW c \in Calls, NEW p \in WorkerPC, GoesTo(c, p)
  PROVE  /\ worker' \in [Calls -> Workers]
         /\ worker'[c].pc = p /\ worker'[c].job = worker[c].job
         /\ worker'[c].user = worker[c].user /\ worker'[c].hash = worker[c].hash
         /\ \A d \in Calls \ {c} : worker'[d] = worker[d]
<1>1. worker' = [worker EXCEPT ![c] = [worker[c] EXCEPT !.pc = p]]
  BY DEF GoesTo
<1>2. worker[c] \in Workers /\ worker \in [Calls -> Workers]
  BY DEF Types
<1>3. /\ [worker[c] EXCEPT !.pc = p] \in Workers
      /\ [worker[c] EXCEPT !.pc = p].pc = p
      /\ [worker[c] EXCEPT !.pc = p].job = worker[c].job
      /\ [worker[c] EXCEPT !.pc = p].user = worker[c].user
      /\ [worker[c] EXCEPT !.pc = p].hash = worker[c].hash
  BY <1>2 DEF Workers
<1> QED BY <1>1, <1>2, <1>3

\* The worker of the call waits for the next job, or is dead.
LEMMA RestsOnly ==
  ASSUME Types, NEW c \in Calls, Rests(c)
  PROVE  /\ worker' \in [Calls -> Workers]
         /\ worker'[c].pc \in {"wait", "dead"} /\ worker'[c].job = NoJob
         /\ \A d \in Calls \ {c} : worker'[d] = worker[d]
<1>1. PICK p \in {"wait", "dead"} : worker' = [worker EXCEPT ![c] = [Resting EXCEPT !.pc = p]]
  BY DEF Rests
<1>2. worker \in [Calls -> Workers]
  BY DEF Types
<1>3. /\ [Resting EXCEPT !.pc = p] \in Workers
      /\ [Resting EXCEPT !.pc = p].pc = p /\ [Resting EXCEPT !.pc = p].job = NoJob
  BY NoSessionType DEF Resting, WorkerPC
<1> QED BY <1>1, <1>2, <1>3

\* Calls that are hung up are over, and their pipe says so.
LEMMA HangupOnly ==
  ASSUME Types, NEW S \in SUBSET Calls, Hangup(S)
  PROVE  /\ shim' \in [Calls -> {"off", "ringing", "up", "over"}] /\ wire' \in [Calls -> Seq(Wires)]
         /\ \A c \in S : shim'[c] = "over" /\ \E x \in {"closed", "error"} : wire'[c] = Append(wire[c], x)
         /\ \A c \in Calls \ S : shim'[c] = shim[c] /\ wire'[c] = wire[c]
<1>1. \A c \in Calls : wire[c] \in Seq(Wires) /\ shim[c] \in {"off", "ringing", "up", "over"}
  BY DEF Types
<1>2. \A c \in Calls : /\ Append(wire[c], "closed") \in Seq(Wires)
                       /\ Append(wire[c], "error") \in Seq(Wires)
  BY <1>1 DEF Wires
<1>3. \A c \in S : shim'[c] = "over" /\ \E x \in {"closed", "error"} : wire'[c] = Append(wire[c], x)
  BY DEF Hangup
<1>4. \A c \in Calls \ S : shim'[c] = shim[c] /\ wire'[c] = wire[c]
  BY DEF Hangup
<1>5. \A c \in Calls : wire'[c] \in Seq(Wires) /\ shim'[c] \in {"off", "ringing", "up", "over"}
  BY <1>1, <1>2, <1>3, <1>4
<1>6. shim' = [c \in Calls |-> shim'[c]] /\ wire' = [c \in Calls |-> wire'[c]]
  BY DEF Hangup
<1> QED BY <1>3, <1>4, <1>5, <1>6

\* The sessions of S lose their leases; the others keep everything.
LEMMA RemoveOnly ==
  ASSUME Types, NEW S \in SUBSET Calls, Remove(S), \A c \in Calls : sess[c].lease <= leases[c]
  PROVE  /\ sess' \in [Calls -> Sessions] /\ timer' \in [Calls -> BOOLEAN]
         /\ leases' \in [Calls -> Nat]
         /\ \A c \in S : /\ sess'[c] = [sess[c] EXCEPT !.in = "gone", !.lease = 0]
                         /\ leases'[c] = leases[c] - sess[c].lease
         /\ \A c \in Calls \ S : /\ sess'[c] = sess[c] /\ leases'[c] = leases[c]
                                 /\ timer'[c] = timer[c]
<1>1. \A c \in Calls : sess[c] \in Sessions /\ leases[c] \in Nat /\ timer[c] \in BOOLEAN
  BY DEF Types
<1>2. \A c \in Calls : [sess[c] EXCEPT !.in = "gone", !.lease = 0] \in Sessions
  <2>1. \A s \in Sessions : [s EXCEPT !.in = "gone"] \in Sessions
    BY DEF Sessions
  <2>2. \A s \in Sessions : [s EXCEPT !.lease = 0] \in Sessions
    BY DEF Sessions
  <2>3. \A s \in Sessions : [s EXCEPT !.in = "gone", !.lease = 0] \in Sessions
    BY <2>1, <2>2
  <2> QED BY <1>1, <2>3
<1>3. \A c \in Calls : leases[c] - sess[c].lease \in Nat
  BY <1>1 DEF Sessions
<1>4. /\ sess' = [c \in Calls |-> sess'[c]] /\ timer' = [c \in Calls |-> timer'[c]]
      /\ leases' = [c \in Calls |-> leases'[c]]
  BY DEF Remove
<1>5. /\ \A c \in S : /\ sess'[c] = [sess[c] EXCEPT !.in = "gone", !.lease = 0]
                      /\ leases'[c] = leases[c] - sess[c].lease
      /\ \A c \in Calls \ S : /\ sess'[c] = sess[c] /\ leases'[c] = leases[c]
                              /\ timer'[c] = timer[c]
  BY <1>1 DEF Remove
<1>6. \A c \in Calls : timer'[c] \in BOOLEAN
  BY DEF Remove
<1>7. \A c \in Calls : sess'[c] \in Sessions /\ leases'[c] \in Nat
  BY <1>1, <1>2, <1>3, <1>5
<1> QED BY <1>4, <1>5, <1>6, <1>7

\* The fields of a session that steps change by themselves.
LEMMA SessionFields ==
  ASSUME NEW s \in Sessions
  PROVE  /\ [s EXCEPT !.lease = 1] \in Sessions
         /\ [s EXCEPT !.est = TRUE] \in Sessions
         /\ \A p \in 0..13 : [s EXCEPT !.pin = p] \in Sessions
         /\ \A n \in {"none", "open", "closed", "gone"} : [s EXCEPT !.in = n] \in Sessions
<1>1. [s EXCEPT !.lease = 1] \in Sessions
  BY DEF Sessions
<1>2. [s EXCEPT !.est = TRUE] \in Sessions
  BY DEF Sessions
<1>3. \A p \in 0..13 : [s EXCEPT !.pin = p] \in Sessions
  BY DEF Sessions
<1>4. \A n \in {"none", "open", "closed", "gone"} : [s EXCEPT !.in = n] \in Sessions
  BY DEF Sessions
<1> QED BY <1>1, <1>2, <1>3, <1>4

\* Where the menu is.
States == {"pin", "choice", "verify", "main", "closed"}

\* Entering another state of the menu begins a new generation.
LEMMA EnterOnly ==
  ASSUME NEW s \in Sessions, NEW st \in States
  PROVE  LET e == Enter(s, st) IN
         /\ e \in Sessions /\ e.state = st
         /\ e.gen = IF s.state = st THEN s.gen ELSE s.gen + 1
         /\ e.in = s.in /\ e.user = s.user /\ e.chosen = s.chosen /\ e.auth = s.auth
         /\ e.authPIN = s.authPIN /\ e.lease = s.lease /\ e.est = s.est /\ e.fails = s.fails
<1>1. CASE s.state = st
  BY <1>1 DEF Enter
<1>2. CASE s.state # st
  <2>1. Enter(s, st) = [s EXCEPT !.state = st, !.gen = s.gen + 1]
    BY <1>2 DEF Enter
  <2>2. s.gen + 1 \in Nat \ {0}
    BY DEF Sessions
  <2>3. [s EXCEPT !.state = st, !.gen = s.gen + 1] \in Sessions
    BY <2>2 DEF Sessions, States
  <2> QED BY <2>1, <2>3, <1>2 DEF Sessions
<1> QED BY <1>1, <1>2

\* NothingToChoose closes an open session.
LEMMA NothingOnly ==
  ASSUME Types, NEW c \in Calls, NothingToChoose(c)
  PROVE  /\ sess' \in [Calls -> Sessions]
         /\ Hangup({c})
         /\ sess'[c].in = IF sess[c].in = "open" THEN "closed" ELSE sess[c].in
         /\ sess'[c].state = "closed" /\ sess'[c].gen \in {sess[c].gen, sess[c].gen + 1}
         /\ sess'[c].user = sess[c].user /\ sess'[c].chosen = sess[c].chosen
         /\ sess'[c].auth = sess[c].auth /\ sess'[c].authPIN = sess[c].authPIN
         /\ sess'[c].lease = sess[c].lease /\ sess'[c].est = sess[c].est
         /\ sess'[c].fails = sess[c].fails
         /\ \A d \in Calls \ {c} : sess'[d] = sess[d]
<1> DEFINE e == Enter(sess[c], "closed")
           n == IF e.in = "open" THEN "closed" ELSE e.in
<1>1. sess \in [Calls -> Sessions] /\ sess[c] \in Sessions
  BY DEF Types
<1>2. /\ e \in Sessions /\ e.state = "closed" /\ e.gen \in {sess[c].gen, sess[c].gen + 1}
      /\ e.in = sess[c].in /\ e.user = sess[c].user /\ e.chosen = sess[c].chosen
      /\ e.auth = sess[c].auth /\ e.authPIN = sess[c].authPIN /\ e.lease = sess[c].lease
      /\ e.est = sess[c].est /\ e.fails = sess[c].fails
  BY <1>1, EnterOnly DEF States
<1>3. sess' = [sess EXCEPT ![c] = [e EXCEPT !.in = n]] /\ Hangup({c})
  <2>1. sess' = [sess EXCEPT ![c] = [e EXCEPT !.in = IF e.in = "open" THEN "closed" ELSE e.in]]
    BY DEF NothingToChoose
  <2> QED BY <2>1 DEF NothingToChoose
<1> HIDE DEF e
<1>4. n \in {"none", "open", "closed", "gone"}
  BY <1>2 DEF Sessions
<1> HIDE DEF n
<1>5. [e EXCEPT !.in = n] \in Sessions
  BY <1>2, <1>4, SessionFields
<1>6. sess'[c] = [e EXCEPT !.in = n] /\ \A d \in Calls \ {c} : sess'[d] = sess[d]
  BY <1>1, <1>3
<1>7. /\ sess'[c].in = n /\ sess'[c].state = e.state /\ sess'[c].gen = e.gen
      /\ sess'[c].user = e.user /\ sess'[c].chosen = e.chosen /\ sess'[c].auth = e.auth
      /\ sess'[c].authPIN = e.authPIN /\ sess'[c].lease = e.lease /\ sess'[c].est = e.est
      /\ sess'[c].fails = e.fails
  BY <1>2, <1>6 DEF Sessions
<1>8. n = IF sess[c].in = "open" THEN "closed" ELSE sess[c].in
  BY <1>2 DEF n
<1>9. sess' \in [Calls -> Sessions]
  BY <1>1, <1>3, <1>5
<1> QED BY <1>2, <1>3, <1>6, <1>7, <1>8, <1>9

-----------------------------------------------------------------------------
\* The steps keep the types.
Mine(c) == sess[c].lease <= leases[c]

\* Every step of the worker keeps the types.
LEMMA WorkerTypes ==
  ASSUME Types, NEW c \in Calls, WorkerStep(c)
  PROVE  Types'
<1>t. /\ shim \in [Calls -> {"off", "ringing", "up", "over"}] /\ wire \in [Calls -> Seq(Wires)]
      /\ queue \in [Calls -> Seq(Jobs)] /\ worker \in [Calls -> Workers]
      /\ sess \in [Calls -> Sessions] /\ timer \in [Calls -> BOOLEAN]
      /\ task \in [Calls -> {"none", "say", "sayMenu", "prompt", "promptCode", "playing",
                             "playingCode", "ended"}]
      /\ leases \in [Calls -> Nat] /\ pinOf \in [Users -> {1, 2}]
  BY DEF Types
<1>c. sess[c] \in Sessions /\ worker[c] \in Workers /\ leases[c] \in Nat
  BY <1>t
<1>1. ASSUME StopsIdle(c) \/ HandleStopped(c) PROVE Types'
  <2>1. GoesTo(c, "dead")
    BY <1>1 DEF StopsIdle, HandleStopped
  <2>2. worker' \in [Calls -> Workers]
    BY <2>1, GoesToOnly DEF WorkerPC
  <2> QED BY <1>1, <2>2 DEF StopsIdle, HandleStopped, Types
<1>2. ASSUME TakeJob(c) PROVE Types'
  <2>1. queue[c] # <<>> /\ queue' = [queue EXCEPT ![c] = Tail(queue[c])]
    BY <1>2 DEF TakeJob
  <2>2. queue' \in [Calls -> Seq(Jobs)] /\ Head(queue[c]) \in Jobs
    BY <2>1, <1>t, Taken
  <2>3. worker' \in [Calls -> Workers]
    <3>1. \/ worker' = worker
          \/ worker' = [worker EXCEPT ![c].pc = "handle", ![c].job = Head(queue[c])]
      BY <1>2 DEF TakeJob
    <3>2. [worker[c] EXCEPT !.pc = "handle", !.job = Head(queue[c])] \in Workers
      BY <1>c, <2>2 DEF Workers, WorkerPC
    <3>3. [worker EXCEPT ![c].pc = "handle", ![c].job = Head(queue[c])]
            = [worker EXCEPT ![c] = [worker[c] EXCEPT !.pc = "handle", !.job = Head(queue[c])]]
      BY <1>t
    <3>4. \A v \in Workers : [worker EXCEPT ![c] = v] \in [Calls -> Workers]
      BY <1>t
    <3>5. [worker EXCEPT ![c].pc = "handle", ![c].job = Head(queue[c])] \in [Calls -> Workers]
      BY <3>2, <3>3, <3>4
    <3> QED BY <1>t, <3>1, <3>5
  <2> QED BY <1>2, <2>2, <2>3 DEF TakeJob, Types
<1>3. ASSUME AdmitRefuses(c) PROVE Types'
  <2>1. Hangup({c}) /\ Rests(c)
    BY <1>3 DEF AdmitRefuses
  <2>2. /\ shim' \in [Calls -> {"off", "ringing", "up", "over"}] /\ wire' \in [Calls -> Seq(Wires)]
        /\ worker' \in [Calls -> Workers]
    BY <2>1, HangupOnly, RestsOnly
  <2> QED BY <1>3, <2>2 DEF AdmitRefuses, Types
<1>4. ASSUME Admit(c) PROVE Types'
  <2>1. \A s \in Admissions : s \in Sessions
    <3>1. ASSUME NEW u \in Users
          PROVE  /\ [NoSession EXCEPT !.in = "open", !.state = "verify", !.user = u, !.routes = <<u>>]
                      \in Sessions
                 /\ [NoSession EXCEPT !.in = "open", !.user = u, !.routes = <<u>>] \in Sessions
      <4>1. <<u>> \in Seq(Users)
        OBVIOUS
      <4> QED BY <4>1, NoSessionType DEF Sessions
    <3>2. ASSUME NEW p \in Users \X Users
          PROVE  [NoSession EXCEPT !.in = "open", !.state = "choice", !.user = p[1], !.routes = p]
                   \in Sessions
      <4>1. PICK a \in Users, b \in Users : p = <<a, b>>
        OBVIOUS
      <4>2. p[1] = a
        BY <4>1
      <4>3. p \in Seq(Users)
        BY <4>1
      <4> QED BY <4>2, <4>3, NoSessionType DEF Sessions
    <3> QED BY <3>1, <3>2 DEF Admissions
  <2>2. sess' \in [Calls -> Sessions]
    BY <2>1, <1>4, <1>t DEF Admit
  <2>3. worker' \in [Calls -> Workers]
    BY <1>4, GoesToOnly DEF Admit, WorkerPC
  <2> QED BY <1>4, <2>2, <2>3 DEF Admit, Types
<1>5. ASSUME Answer(c) PROVE Types'
  <2>1. worker' \in [Calls -> Workers]
    BY <1>5, GoesToOnly DEF Answer, WorkerPC
  <2>2. wire' \in [Calls -> Seq(Wires)]
    <3>1. /\ Append(wire[c], "established") \in Seq(Wires) /\ Append(wire[c], "error") \in Seq(Wires)
      BY <1>t DEF Wires
    <3> QED BY <3>1, <1>5, <1>t DEF Answer
  <2>3. shim' \in [Calls -> {"off", "ringing", "up", "over"}]
    BY <1>5, <1>t DEF Answer
  <2> QED BY <1>5, <2>1, <2>2, <2>3 DEF Answer, Types
<1>6. ASSUME Activate(c) PROVE Types'
  <2>1. worker' \in [Calls -> Workers]
    BY <1>6, RestsOnly DEF Activate
  <2>2. sess' \in [Calls -> Sessions] /\ leases' \in [Calls -> Nat]
    <3>0. leases[c] + 1 \in Nat
      BY <1>c
    <3>1. [sess[c] EXCEPT !.lease = 1] \in Sessions /\ leases[c] + 1 \in Nat
      BY <1>c, <3>0, SessionFields
    <3>2. \/ sess' = sess /\ leases' = leases
          \/ sess' = [sess EXCEPT ![c] = [sess[c] EXCEPT !.lease = 1]]
             /\ leases' = [leases EXCEPT ![c] = leases[c] + 1]
      BY <1>6 DEF Activate
    <3>3. CASE sess' = sess /\ leases' = leases
      BY <1>t, <3>3
    <3>4. CASE /\ sess' = [sess EXCEPT ![c] = [sess[c] EXCEPT !.lease = 1]]
               /\ leases' = [leases EXCEPT ![c] = leases[c] + 1]
      BY <1>t, <3>1, <3>4
    <3> QED BY <3>2, <3>3, <3>4
  <2> QED BY <1>6, <2>1, <2>2 DEF Activate, Types
<1>7. ASSUME OnEstablished(c) PROVE Types'
  <2>1. worker' \in [Calls -> Workers]
    BY <1>7, RestsOnly DEF OnEstablished
  <2>2. /\ sess' \in [Calls -> Sessions]
        /\ task' \in [Calls -> {"none", "say", "sayMenu", "prompt", "promptCode", "playing",
                                "playingCode", "ended"}]
    <3>1. [sess[c] EXCEPT !.est = TRUE] \in Sessions
      BY <1>c, SessionFields
    <3>2. \/ sess' = sess /\ task' = task
          \/ /\ sess' = [sess EXCEPT ![c] = [sess[c] EXCEPT !.est = TRUE]]
             /\ \E a \in {"say", "promptCode", "prompt"} : task' = [task EXCEPT ![c] = a]
      <4>1. CASE Open(c) /\ ~sess[c].est
        <5>1. /\ sess' = [sess EXCEPT ![c].est = TRUE]
              /\ task' = [task EXCEPT ![c] = CASE sess[c].state = "choice" -> "say"
                                              [] sess[c].state = "verify" -> "promptCode"
                                              [] OTHER -> "prompt"]
          BY <1>7, <4>1 DEF OnEstablished
        <5>2. (CASE sess[c].state = "choice" -> "say"
                 [] sess[c].state = "verify" -> "promptCode"
                 [] OTHER -> "prompt") \in {"say", "promptCode", "prompt"}
          OBVIOUS
        <5> QED BY <5>1, <5>2
      <4>2. CASE ~(Open(c) /\ ~sess[c].est)
        BY <1>7, <4>2 DEF OnEstablished
      <4> QED BY <4>1, <4>2
    <3>3. CASE sess' = sess /\ task' = task
      BY <1>t, <3>3
    <3>4. ASSUME sess' = [sess EXCEPT ![c] = [sess[c] EXCEPT !.est = TRUE]],
                 NEW a \in {"say", "promptCode", "prompt"}, task' = [task EXCEPT ![c] = a]
          PROVE  /\ sess' \in [Calls -> Sessions]
                 /\ task' \in [Calls -> {"none", "say", "sayMenu", "prompt", "promptCode", "playing",
                                         "playingCode", "ended"}]
      <4>1. sess' \in [Calls -> Sessions]
        BY <1>t, <3>1, <3>4
      <4>2. task' \in [Calls -> {"none", "say", "sayMenu", "prompt", "promptCode", "playing",
                                 "playingCode", "ended"}]
        BY <1>t, <3>4
      <4> QED BY <4>1, <4>2
    <3> QED BY <3>2, <3>3, <3>4
  <2> QED BY <1>7, <2>1, <2>2 DEF OnEstablished, Types
<1>a. ASSUME Arm(c) \/ EndMedia(c) \/ Disarm(c) \/ UNCHANGED timer PROVE timer' \in [Calls -> BOOLEAN]
  BY <1>a, <1>t DEF Arm, EndMedia, Disarm
<1>8. ASSUME IgnoreKey(c) \/ WorkerEnds(c) PROVE Types'
  <2>1. worker' \in [Calls -> Workers] /\ timer' \in [Calls -> BOOLEAN]
    BY <1>8, <1>a, RestsOnly DEF IgnoreKey, WorkerEnds
  <2> QED BY <1>8, <2>1 DEF IgnoreKey, WorkerEnds, Types
<1>9. ASSUME MenuKey(c) PROVE Types'
  <2>1. worker' \in [Calls -> Workers] /\ timer' \in [Calls -> BOOLEAN]
    BY <1>9, <1>a, GoesToOnly DEF MenuKey, WorkerPC
  <2>2. sess' \in [Calls -> Sessions]
    <3>1. PICK m \in {0, 1} : sess' = [sess EXCEPT ![c].gen = @ + m]
      BY <1>9 DEF MenuKey
    <3>2. sess[c].gen + m \in Nat \ {0}
      BY <1>c DEF Sessions
    <3>3. [sess[c] EXCEPT !.gen = sess[c].gen + m] \in Sessions
      BY <1>c, <3>2 DEF Sessions
    <3> QED BY <1>t, <3>1, <3>3
  <2> QED BY <1>9, <2>1, <2>2 DEF MenuKey, Types
<1>10. ASSUME ChoiceKey(c) \/ WorkerBegins(c) PROVE Types'
  <2>1. worker' \in [Calls -> Workers] /\ timer' \in [Calls -> BOOLEAN]
    BY <1>10, <1>a, GoesToOnly DEF ChoiceKey, WorkerBegins, WorkerPC
  <2> QED BY <1>10, <2>1 DEF ChoiceKey, WorkerBegins, Types
<1>11. ASSUME Choose(c) PROVE Types'
  <2>1. CASE UNCHANGED <<sess, leases>> /\ GoesTo(c, "say")
    <3>1. worker' \in [Calls -> Workers]
      BY <2>1, GoesToOnly DEF WorkerPC
    <3> QED BY <1>11, <2>1, <3>1 DEF Choose, Types
  <2>2. CASE /\ HasChoices(c) /\ worker[c].job.key \in 1..Len(sess[c].routes)
             /\ sess' = [sess EXCEPT ![c] =
                  Enter([@ EXCEPT !.user = sess[c].routes[worker[c].job.key],
                                  !.chosen = TRUE, !.lease = 1], "pin")]
             /\ leases' = [leases EXCEPT ![c] = @ + 1] /\ GoesTo(c, "prompt")
    <3>1. worker' \in [Calls -> Workers]
      BY <2>2, GoesToOnly DEF WorkerPC
    <3>2. sess[c].routes[worker[c].job.key] \in Users
      BY <2>2, <1>c DEF Sessions
    <3>3. [sess[c] EXCEPT !.user = sess[c].routes[worker[c].job.key],
                          !.chosen = TRUE, !.lease = 1] \in Sessions
      BY <3>2, <1>c DEF Sessions
    <3>4. Enter([sess[c] EXCEPT !.user = sess[c].routes[worker[c].job.key],
                                !.chosen = TRUE, !.lease = 1], "pin") \in Sessions
      BY <3>3, EnterOnly DEF States
    <3>5. sess' \in [Calls -> Sessions] /\ leases' \in [Calls -> Nat]
      BY <3>4, <2>2, <1>t
    <3> QED BY <1>11, <3>1, <3>5 DEF Choose, Types
  <2> QED BY <1>11, <2>1, <2>2 DEF Choose
<1>12. ASSUME TypeDigit(c) PROVE Types'
  <2>1. worker' \in [Calls -> Workers] /\ timer' \in [Calls -> BOOLEAN]
    BY <1>12, <1>a, RestsOnly DEF TypeDigit
  <2>2. sess' \in [Calls -> Sessions]
    <3>1. PICK k : k = worker[c].job.key
      OBVIOUS
    <3>2. k \in 0..13
      <4>1. worker[c].job.kind = "key" /\ worker[c].job \in Jobs \cup {NoJob}
        BY <1>12, <1>c DEF TypeDigit, Handles, Workers
      <4> QED BY <3>1, <4>1 DEF Jobs, NoJob, Event, Keys, Star, Pound
    <3>3. sess' = [sess EXCEPT ![c].pin = IF k = Star THEN NoPIN ELSE IF @ = NoPIN THEN k ELSE LongPIN]
      BY <1>12, <3>1 DEF TypeDigit
    <3>4. \E p \in 0..13 : sess' = [sess EXCEPT ![c] = [sess[c] EXCEPT !.pin = p]]
      <4>1. PICK p : p = IF k = Star THEN NoPIN ELSE IF sess[c].pin = NoPIN THEN k ELSE LongPIN
        OBVIOUS
      <4>2. p \in 0..13
        BY <4>1, <3>2 DEF NoPIN, LongPIN
      <4>3. sess' = [sess EXCEPT ![c] = [sess[c] EXCEPT !.pin = p]]
        BY <4>1, <3>3
      <4> QED BY <4>2, <4>3
    <3>5. \A p \in 0..13 : [sess[c] EXCEPT !.pin = p] \in Sessions
      BY <1>c, SessionFields
    <3> QED BY <1>t, <3>4, <3>5
  <2> QED BY <1>12, <2>1, <2>2 DEF TypeDigit, Types
<1>13. ASSUME SubmitPIN(c) PROVE Types'
  <2>1. timer' \in [Calls -> BOOLEAN]
    BY <1>13, <1>a DEF SubmitPIN
  <2>2. worker' \in [Calls -> Workers]
    <3>1. sess[c].user \in Users /\ sess[c].pin \in 0..13
      BY <1>c DEF Sessions
    <3>2. [worker[c] EXCEPT !.pc = "lookup", !.user = sess[c].user, !.pin = sess[c].pin] \in Workers
      BY <1>c, <3>1 DEF Workers, WorkerPC
    <3>3. worker' = [worker EXCEPT ![c] =
                       [worker[c] EXCEPT !.pc = "lookup", !.user = sess[c].user, !.pin = sess[c].pin]]
      BY <1>13, <1>t DEF SubmitPIN
    <3> QED BY <1>t, <3>2, <3>3
  <2> QED BY <1>13, <2>1, <2>2 DEF SubmitPIN, Types
<1>14. ASSUME LookupPIN(c) PROVE Types'
  <2>1. CASE sess' = [sess EXCEPT ![c].pin = NoPIN] /\ GoesTo(c, "prompt")
    <3>1. worker' \in [Calls -> Workers]
      BY <2>1, GoesToOnly DEF WorkerPC
    <3>2. [sess[c] EXCEPT !.pin = NoPIN] \in Sessions
      <4>1. NoPIN \in 0..13
        BY DEF NoPIN
      <4> QED BY <4>1, <1>c, SessionFields
    <3>3. sess' \in [Calls -> Sessions]
      BY <2>1, <1>t, <3>2
    <3> QED BY <1>14, <3>1, <3>3 DEF LookupPIN, Types
  <2>2. CASE worker' = [worker EXCEPT ![c].pc = "check", ![c].hash = pinOf[worker[c].user]]
             /\ UNCHANGED sess
    <3>1. pinOf[worker[c].user] \in 0..2
      BY <1>t, <1>c DEF Workers
    <3>2. [worker[c] EXCEPT !.pc = "check", !.hash = pinOf[worker[c].user]] \in Workers
      BY <3>1, <1>c DEF Workers, WorkerPC
    <3>3. worker' = [worker EXCEPT ![c] =
                       [worker[c] EXCEPT !.pc = "check", !.hash = pinOf[worker[c].user]]]
      BY <2>2, <1>t
    <3>4. worker' \in [Calls -> Workers]
      BY <3>2, <3>3, <1>t
    <3> QED BY <1>14, <2>2, <3>4 DEF LookupPIN, Types
  <2> QED BY <1>14, <2>1, <2>2 DEF LookupPIN
<1>15. ASSUME CheckPIN(c) PROVE Types'
  <2>1. CASE /\ sess' = [sess EXCEPT ![c] = Enter([@ EXCEPT !.auth = TRUE, !.fails = 0,
                                                           !.authPIN = worker[c].hash], "main")]
             /\ GoesTo(c, "prompt") /\ UNCHANGED <<shim, wire>>
    <3>1. worker' \in [Calls -> Workers]
      BY <2>1, GoesToOnly DEF WorkerPC
    <3>2. [sess[c] EXCEPT !.auth = TRUE, !.fails = 0, !.authPIN = worker[c].hash] \in Sessions
      BY <1>c DEF Sessions, Workers
    <3>3. sess' \in [Calls -> Sessions]
      BY <2>1, <3>2, <1>t, EnterOnly DEF States
    <3> QED BY <1>15, <2>1, <3>1, <3>3 DEF CheckPIN, Types
  <2>2. CASE /\ sess' = [sess EXCEPT ![c].pin = NoPIN, ![c].fails = @ + 1]
             /\ \/ Hangup({c}) /\ Rests(c)
                \/ GoesTo(c, "prompt") /\ UNCHANGED <<shim, wire>>
    <3>1. worker' \in [Calls -> Workers]
      BY <2>2, GoesToOnly, RestsOnly DEF WorkerPC
    <3>2. shim' \in [Calls -> {"off", "ringing", "up", "over"}] /\ wire' \in [Calls -> Seq(Wires)]
      BY <2>2, <1>t, HangupOnly
    <3>3. sess[c].fails + 1 \in Nat /\ NoPIN \in 0..13
      BY <1>c DEF Sessions, NoPIN
    <3>4. [sess[c] EXCEPT !.pin = NoPIN, !.fails = sess[c].fails + 1] \in Sessions
      BY <3>3, <1>c DEF Sessions
    <3>5. sess' = [sess EXCEPT ![c] = [sess[c] EXCEPT !.pin = NoPIN, !.fails = sess[c].fails + 1]]
      BY <2>2, <1>t
    <3>6. sess' \in [Calls -> Sessions]
      BY <3>4, <3>5, <1>t
    <3> QED BY <1>15, <3>1, <3>2, <3>6 DEF CheckPIN, Types
  <2> QED BY <1>15, <2>1, <2>2 DEF CheckPIN
<1>16. ASSUME WorkerSays(c) PROVE Types'
  <2>1. CASE NothingToChoose(c) /\ Rests(c)
    <3>1. /\ worker' \in [Calls -> Workers] /\ sess' \in [Calls -> Sessions]
          /\ shim' \in [Calls -> {"off", "ringing", "up", "over"}] /\ wire' \in [Calls -> Seq(Wires)]
      BY <2>1, NothingOnly, HangupOnly, RestsOnly
    <3> QED BY <1>16, <3>1 DEF WorkerSays, Types
  <2>2. CASE GoesTo(c, "sayMenu") /\ UNCHANGED <<sess, shim, wire>>
    <3>1. worker' \in [Calls -> Workers]
      BY <2>2, GoesToOnly DEF WorkerPC
    <3> QED BY <1>16, <2>2, <3>1 DEF WorkerSays, Types
  <2> QED BY <1>16, <2>1, <2>2 DEF WorkerSays
<1>17. ASSUME WorkerMoves(c) PROVE Types'
  <2>1. worker' \in [Calls -> Workers]
    BY <1>17, GoesToOnly DEF WorkerMoves, WorkerPC
  <2>2. sess' \in [Calls -> Sessions]
    <3>1. Enter(sess[c], "choice") \in Sessions
      BY <1>c, EnterOnly DEF States
    <3> QED BY <1>17, <1>t, <3>1 DEF WorkerMoves
  <2> QED BY <1>17, <2>1, <2>2 DEF WorkerMoves, Types
<1> QED BY <1>1, <1>2, <1>3, <1>4, <1>5, <1>6, <1>7, <1>8, <1>9, <1>10, <1>11, <1>12, <1>13,
  <1>14, <1>15, <1>16, <1>17 DEF WorkerStep

\* So do those of the task, the timer, the reader and the far end.
LEMMA TaskTypes ==
  ASSUME Types, NEW c \in Calls, TaskStep(c)
  PROVE  Types'
<1> DEFINE TaskPC == {"none", "say", "sayMenu", "prompt", "promptCode", "playing",
                      "playingCode", "ended"}
<1>t. /\ sess \in [Calls -> Sessions] /\ timer \in [Calls -> BOOLEAN]
      /\ hanging \in [Calls -> BOOLEAN] /\ task \in [Calls -> TaskPC]
      /\ shim \in [Calls -> {"off", "ringing", "up", "over"}] /\ wire \in [Calls -> Seq(Wires)]
  BY DEF Types
<1>a. ASSUME EndMedia(c) \/ Disarm(c) PROVE timer' \in [Calls -> BOOLEAN]
  BY <1>a, <1>t DEF EndMedia, Disarm
<1>b. ASSUME NEW p \in TaskPC, TaskGoes(c, p) PROVE task' \in [Calls -> TaskPC]
  BY <1>b, <1>t DEF TaskGoes
<1>1. CASE TaskSays(c)
  <2>1. CASE NothingToChoose(c) /\ TaskGoes(c, "ended")
    <3>1. /\ sess' \in [Calls -> Sessions] /\ task' \in [Calls -> TaskPC]
          /\ shim' \in [Calls -> {"off", "ringing", "up", "over"}] /\ wire' \in [Calls -> Seq(Wires)]
      BY <2>1, <1>b, NothingOnly, HangupOnly
    <3> QED BY <1>1, <3>1 DEF TaskSays, Types
  <2>2. CASE TaskGoes(c, "sayMenu") /\ UNCHANGED <<sess, shim, wire>>
    <3>1. task' \in [Calls -> TaskPC]
      BY <2>2, <1>b
    <3> QED BY <1>1, <2>2, <3>1 DEF TaskSays, Types
  <2> QED BY <1>1, <2>1, <2>2 DEF TaskSays
<1>2. CASE TaskMoves(c)
  <2>1. task' \in [Calls -> TaskPC]
    BY <1>2, <1>b DEF TaskMoves
  <2>2. Enter(sess[c], "choice") \in Sessions
    BY <1>t, EnterOnly DEF States
  <2>3. sess' \in [Calls -> Sessions]
    BY <1>2, <1>t, <2>2 DEF TaskMoves
  <2> QED BY <1>2, <2>1, <2>3 DEF TaskMoves, Types
<1>3. CASE TaskBegins(c)
  <2>1. timer' \in [Calls -> BOOLEAN]
    BY <1>3, <1>a DEF TaskBegins
  <2>2. TaskGoes(c, "playing") \/ TaskGoes(c, "playingCode")
    BY <1>3 DEF TaskBegins
  <2>3. task' \in [Calls -> TaskPC]
    BY <2>2, <1>b
  <2> QED BY <1>3, <2>1, <2>3 DEF TaskBegins, Types
<1>4. CASE TaskEnds(c)
  <2>1. timer' \in [Calls -> BOOLEAN] /\ task' \in [Calls -> TaskPC]
    BY <1>4, <1>a, <1>b DEF TaskEnds
  <2> QED BY <1>4, <2>1 DEF TaskEnds, Types
<1>5. CASE CodeEnds(c)
  <2>1. timer' \in [Calls -> BOOLEAN] /\ task' \in [Calls -> TaskPC]
    BY <1>5, <1>a, <1>b DEF CodeEnds
  <2>2. \/ Hangup({c}) /\ UNCHANGED hanging
        \/ hanging' = [hanging EXCEPT ![c] = TRUE] /\ UNCHANGED <<shim, wire>>
    BY <1>5 DEF CodeEnds
  <2>3. /\ shim' \in [Calls -> {"off", "ringing", "up", "over"}] /\ wire' \in [Calls -> Seq(Wires)]
        /\ hanging' \in [Calls -> BOOLEAN]
    <3>1. CASE Hangup({c}) /\ UNCHANGED hanging
      BY <3>1, <1>t, HangupOnly
    <3>2. CASE hanging' = [hanging EXCEPT ![c] = TRUE] /\ UNCHANGED <<shim, wire>>
      BY <3>2, <1>t
    <3> QED BY <2>2, <3>1, <3>2
  <2> QED BY <1>5, <2>1, <2>3 DEF CodeEnds, Types
<1> QED BY <1>1, <1>2, <1>3, <1>4, <1>5 DEF TaskStep

\* So does every step of the timer.
LEMMA TimerTypes ==
  ASSUME Types, NEW c \in Calls, TimerStep(c)
  PROVE  Types'
<1>t. /\ timer \in [Calls -> BOOLEAN] /\ hanging \in [Calls -> BOOLEAN]
      /\ goodbye \in [Calls -> {"none", "due", "playing"}]
  BY DEF Types
<1>1. CASE TimerFires(c)
  <2>1. timer' \in [Calls -> BOOLEAN]
    BY <1>1, <1>t DEF TimerFires, Disarm
  <2>2. goodbye' \in [Calls -> {"none", "due", "playing"}] /\ hanging' \in [Calls -> BOOLEAN]
    BY <1>1, <1>t DEF TimerFires
  <2> QED BY <1>1, <2>1, <2>2 DEF TimerFires, Types
<1>2. CASE GoodbyeBegins(c)
  <2>1. timer' \in [Calls -> BOOLEAN] /\ goodbye' \in [Calls -> {"none", "due", "playing"}]
    BY <1>2, <1>t DEF GoodbyeBegins, Disarm
  <2> QED BY <1>2, <2>1 DEF GoodbyeBegins, Types
<1>3. CASE GoodbyeEnds(c)
  <2>1. timer' \in [Calls -> BOOLEAN] /\ goodbye' \in [Calls -> {"none", "due", "playing"}]
    BY <1>3, <1>t DEF GoodbyeEnds, EndMedia
  <2> QED BY <1>3, <2>1 DEF GoodbyeEnds, Types
<1>4. CASE DelayedHangup(c)
  <2>1. /\ shim' \in [Calls -> {"off", "ringing", "up", "over"}] /\ wire' \in [Calls -> Seq(Wires)]
        /\ hanging' \in [Calls -> BOOLEAN]
    BY <1>4, <1>t, HangupOnly DEF DelayedHangup
  <2> QED BY <1>4, <2>1 DEF DelayedHangup, Types
<1> QED BY <1>1, <1>2, <1>3, <1>4 DEF TimerStep

\* The queue and the worker after an event or a key was queued.
LEMMA EnqueueOnly ==
  ASSUME Types, NEW c \in Calls, NEW job \in Jobs, Enqueue(c, job)
  PROVE  /\ queue' \in [Calls -> Seq(Jobs)] /\ worker' \in [Calls -> Workers]
         /\ queue'[c] = Append(queue[c], job)
         /\ worker[c].pc # "none" => worker' = worker
         /\ worker[c].pc = "none" => worker'[c].pc = "wait" /\ worker'[c].job = worker[c].job
         /\ \A d \in Calls \ {c} : queue'[d] = queue[d] /\ worker'[d] = worker[d]
<1>t. queue \in [Calls -> Seq(Jobs)] /\ worker \in [Calls -> Workers] /\ worker[c] \in Workers
  BY DEF Types
<1>1. queue' = [queue EXCEPT ![c] = Append(queue[c], job)] /\ Append(queue[c], job) \in Seq(Jobs)
  BY <1>t, Appended DEF Enqueue
<1>2. /\ queue' \in [Calls -> Seq(Jobs)] /\ queue'[c] = Append(queue[c], job)
      /\ \A d \in Calls \ {c} : queue'[d] = queue[d]
  BY <1>t, <1>1
<1>3. CASE worker[c].pc = "none"
  <2>1. GoesTo(c, "wait")
    BY <1>3 DEF Enqueue, GoesTo
  <2> QED BY <1>2, <1>3, <2>1, GoesToOnly DEF WorkerPC
<1>4. CASE worker[c].pc # "none"
  BY <1>2, <1>4, <1>t DEF Enqueue
<1> QED BY <1>3, <1>4

\* So does every step of the reader.
LEMMA ReaderTypes ==
  ASSUME Types, NEW c \in Calls, ReaderStep(c), \A d \in Calls : Mine(d)
  PROVE  Types'
<1>t. /\ shim \in [Calls -> {"off", "ringing", "up", "over"}] /\ wire \in [Calls -> Seq(Wires)]
      /\ queue \in [Calls -> Seq(Jobs)] /\ stop \in [Calls -> BOOLEAN]
      /\ wire[c] \in Seq(Wires)
  BY DEF Types
<1>1. CASE ReadEvent(c)
  <2>1. wire[c] # <<>> /\ Head(wire[c]) \in {"incoming", "established"}
    BY <1>1 DEF ReadEvent
  <2>2. Tail(wire[c]) \in Seq(Wires)
    BY <2>1, <1>t, Taken
  <2>3. CASE /\ Enqueue(c, Event(Head(wire[c]))) /\ wire' = [wire EXCEPT ![c] = Tail(@)]
             /\ UNCHANGED shim
    <3>1. Event(Head(wire[c])) \in Jobs
      BY <2>1 DEF Event, Jobs
    <3>2. queue' \in [Calls -> Seq(Jobs)] /\ worker' \in [Calls -> Workers]
      BY <2>3, <3>1, EnqueueOnly
    <3>3. wire' \in [Calls -> Seq(Wires)]
      BY <2>2, <2>3, <1>t
    <3> QED BY <1>1, <2>3, <3>2, <3>3 DEF ReadEvent, Types
  <2>4. CASE /\ shim' = [shim EXCEPT ![c] = "over"]
             /\ wire' = [wire EXCEPT ![c] =
                           Append(Tail(@), IF shim[c] = "over" THEN "error" ELSE "closed")]
             /\ UNCHANGED <<queue, worker>>
    <3>1. \A x \in {"error", "closed"} : Append(Tail(wire[c]), x) \in Seq(Wires)
      <4>1. "error" \in Wires /\ "closed" \in Wires
        BY DEF Wires
      <4> QED BY <2>2, <4>1, Appended
    <3>2. wire' \in [Calls -> Seq(Wires)] /\ shim' \in [Calls -> {"off", "ringing", "up", "over"}]
      BY <2>4, <3>1, <1>t
    <3> QED BY <1>1, <2>4, <3>2 DEF ReadEvent, Types
  <2> QED BY <1>1, <2>3, <2>4 DEF ReadEvent
<1>2. CASE ReadClosed(c)
  <2>1. wire' \in [Calls -> Seq(Wires)] /\ stop' \in [Calls -> BOOLEAN]
    <3>1. wire[c] # <<>> /\ wire' = [wire EXCEPT ![c] = Tail(wire[c])]
          /\ stop' = [stop EXCEPT ![c] = stop[c] \/ Head(wire[c]) = "closed"]
      BY <1>2 DEF ReadClosed
    <3>2. Tail(wire[c]) \in Seq(Wires)
      BY <3>1, <1>t, Taken
    <3> QED BY <3>1, <3>2, <1>t
  <2>2. {x \in {c} : InMap(x)} \in SUBSET Calls
    OBVIOUS
  <2>3. /\ sess' \in [Calls -> Sessions] /\ timer' \in [Calls -> BOOLEAN]
        /\ leases' \in [Calls -> Nat]
    BY <1>2, <2>2, RemoveOnly DEF ReadClosed, CloseCall, Mine
  <2> QED BY <1>2, <2>1, <2>3 DEF ReadClosed, Types
<1> QED BY <1>1, <1>2 DEF ReaderStep

\* So do a call that comes, a call that ends and a key.
LEMMA OtherTypes ==
  ASSUME Types, NEW c \in Calls,
         CallComes(c) \/ FarEndCloses(c) \/ \E k \in Pressed : PressKey(c, k)
  PROVE  Types'
<1>t. /\ shim \in [Calls -> {"off", "ringing", "up", "over"}] /\ wire \in [Calls -> Seq(Wires)]
      /\ queue \in [Calls -> Seq(Jobs)] /\ keys \in [Calls -> 0..MaxKeys]
      /\ sess[c] \in Sessions /\ wire[c] \in Seq(Wires) /\ queue[c] \in Seq(Jobs)
  BY DEF Types
<1>1. CASE CallComes(c) \/ FarEndCloses(c)
  <2>1. \A x \in {"incoming", "closed"} : Append(wire[c], x) \in Seq(Wires)
    <3>1. "incoming" \in Wires /\ "closed" \in Wires
      BY DEF Wires
    <3> QED BY <1>t, <3>1, Appended
  <2>2. wire' \in [Calls -> Seq(Wires)] /\ shim' \in [Calls -> {"off", "ringing", "up", "over"}]
    BY <1>1, <2>1, <1>t DEF CallComes, FarEndCloses
  <2> QED BY <1>1, <2>2 DEF CallComes, FarEndCloses, Types
<1>2. ASSUME NEW k \in Pressed, PressKey(c, k) PROVE Types'
  <2> DEFINE job == [kind |-> "key", key |-> k, stamp |-> IF Open(c) THEN sess[c].gen ELSE 0,
                     signed |-> sess[c].auth]
  <2>1. job \in Jobs
    <3>1. k \in Keys
      BY InboundAssumption DEF InboundAssumption
    <3>2. sess[c].gen \in Nat /\ sess[c].auth \in BOOLEAN
      BY <1>t DEF Sessions
    <3> QED BY <3>1, <3>2 DEF Jobs
  <2>2. keys' \in [Calls -> 0..MaxKeys]
    <3>1. keys[c] \in 0..MaxKeys /\ keys[c] < MaxKeys /\ keys' = [keys EXCEPT ![c] = keys[c] + 1]
      BY <1>2, <1>t DEF PressKey
    <3>2. keys[c] + 1 \in 0..MaxKeys
      BY <3>1, InboundAssumption DEF InboundAssumption
    <3> QED BY <3>1, <3>2, <1>t
  <2>3. \/ Enqueue(c, job)
        \/ /\ ~(Len(queue[c]) < QueueSize)
           /\ queue' = [queue EXCEPT ![c] = Recycle(queue[c], job)] /\ UNCHANGED worker
    BY <1>2 DEF PressKey
  <2> HIDE DEF job
  <2>4. CASE Enqueue(c, job)
    <3>1. queue' \in [Calls -> Seq(Jobs)] /\ worker' \in [Calls -> Workers]
      BY <2>1, <2>4, EnqueueOnly
    <3> QED BY <1>2, <2>2, <3>1 DEF PressKey, Types
  <2>5. CASE /\ ~(Len(queue[c]) < QueueSize)
             /\ queue' = [queue EXCEPT ![c] = Recycle(queue[c], job)] /\ UNCHANGED worker
    <3>1. queue[c] # <<>>
      BY <2>5, InboundAssumption DEF InboundAssumption
    <3>2. Recycle(queue[c], job) \in Seq(Jobs)
      <4>1. Tail(queue[c]) \in Seq(Jobs) /\ Head(queue[c]) \in Jobs
        BY <3>1, <1>t, Taken
      <4>2. Append(Tail(queue[c]), job) \in Seq(Jobs) /\ Append(Tail(queue[c]), Head(queue[c])) \in Seq(Jobs)
        BY <4>1, <2>1, Appended
      <4> QED BY <4>2 DEF Recycle
    <3>3. queue' \in [Calls -> Seq(Jobs)]
      BY <2>5, <3>2, <1>t
    <3> QED BY <1>2, <2>2, <2>5, <3>3 DEF PressKey, Types
  <2> QED BY <2>3, <2>4, <2>5
<1> QED BY <1>1, <1>2

\* So does the web request.
LEMMA WebTypes ==
  ASSUME Types, NEW u \in Users, ChangePIN(u) \/ Invalidate(u), \A c \in Calls : Mine(c)
  PROVE  Types'
<1>1. CASE ChangePIN(u)
  <2>1. pinOf' \in [Users -> {1, 2}] /\ stale' \subseteq Users
    BY <1>1 DEF ChangePIN, Types
  <2> QED BY <1>1, <2>1 DEF ChangePIN, Types
<1>2. CASE Invalidate(u)
  <2>1. SessionsOf(u) \in SUBSET Calls /\ stale' \subseteq Users
    BY <1>2 DEF SessionsOf, Invalidate, Types
  <2>2. /\ sess' \in [Calls -> Sessions] /\ timer' \in [Calls -> BOOLEAN]
        /\ leases' \in [Calls -> Nat]
        /\ shim' \in [Calls -> {"off", "ringing", "up", "over"}] /\ wire' \in [Calls -> Seq(Wires)]
    BY <1>2, <2>1, RemoveOnly, HangupOnly DEF Invalidate, Mine
  <2> QED BY <1>2, <2>1, <2>2 DEF Invalidate, Types
<1> QED BY <1>1, <1>2

CallStep(c) ==
  \/ CallComes(c) \/ FarEndCloses(c) \/ \E k \in Pressed : PressKey(c, k)
  \/ WorkerStep(c) \/ TaskStep(c) \/ TimerStep(c) \/ ReaderStep(c)

\* So every step keeps the types.
LEMMA StepTypes ==
  ASSUME Types, \A c \in Calls : Mine(c), [Next]_vars
  PROVE  Types'
<1>1. ASSUME UNCHANGED vars PROVE Types'
  BY <1>1 DEF vars, Types
<1> QED BY <1>1, WorkerTypes, TaskTypes, TimerTypes, ReaderTypes, OtherTypes, WebTypes DEF Next

-----------------------------------------------------------------------------
\* The steps that leave the queue of a call alone.  What a PIN check knows holds for
\* where the worker goes:
Checks(c) ==
  /\ worker[c].pc \in {"lookup", "check"} => worker[c].user = sess[c].user
  /\ worker[c].pc \in {"lookup", "check", "choose"} => sess[c].auth = FALSE
  /\ worker[c].pc = "check" /\ Open(c) => InForce(worker[c].hash, sess[c].user)

\* The shim may only end the call, and writes what says so.
CalmShim(c) ==
  /\ queue'[c] = queue[c] /\ keys'[c] = keys[c]
  /\ shim'[c] = "over" \/ (shim'[c] = shim[c] /\ wire'[c] = wire[c] /\ stop'[c] = stop[c])
  /\ \A i \in DOMAIN wire'[c] : wire'[c][i] = "incoming" =>
       i \in DOMAIN wire[c] /\ wire[c][i] = "incoming"

\* The worker takes no job, and ends one only when it did what it is for.
CalmWorker(c) ==
  \/ worker'[c] = worker[c]
  \/ /\ worker[c].pc # "none" /\ worker'[c].pc \notin {"none", "handle", "answer"}
     /\ worker'[c].pc # "activate" \/ (sess'[c].lease = 0 /\ sess'[c].chosen = FALSE)
     /\ sess[c].in = "none" => worker'[c].pc \in {"wait", "dead"}
     /\ worker[c].pc = "handle" /\ worker[c].job.kind = "established" =>
          sess'[c].est \/ ~Open(c)' \/ shim'[c] = "over"
     /\ Checks(c)'

\* Who is signed in, with which PIN, and whose leases the session holds.
SameCaller(c) ==
  /\ sess'[c].auth = sess[c].auth /\ sess'[c].authPIN = sess[c].authPIN
  /\ sess'[c].user = sess[c].user /\ sess'[c].chosen = sess[c].chosen
  /\ sess'[c].state = sess[c].state \/ sess'[c].state # "main"
  /\ leases'[c] - sess'[c].lease = leases[c] - sess[c].lease
  /\ worker'[c] = worker[c] \/ sess'[c].in \in {"none", "gone"} =>
       sess'[c].lease \in {0, sess[c].lease}
  /\ sess'[c].in = "gone" /\ sess[c].in # "gone" => sess'[c].lease = 0
  /\ \A pin \in 0..2 : Open(c)' /\ InForce(pin, sess[c].user) => InForce(pin, sess[c].user)'
NewCaller(c) ==
  /\ worker'[c].pc = "prompt" /\ sess'[c].auth = FALSE /\ sess'[c].chosen = TRUE
  /\ sess'[c].state # "main" /\ sess'[c].lease <= leases'[c]
AcceptedCaller(c) ==
  /\ worker'[c].pc = "prompt" /\ sess'[c].auth = TRUE /\ sess'[c].gen > sess[c].gen
  /\ sess'[c].in = sess[c].in
  /\ Open(c)' => InForce(sess[c].authPIN, sess[c].user)'
  /\ sess'[c].chosen = sess[c].chosen /\ sess'[c].lease = sess[c].lease /\ leases'[c] = leases[c]

CalmSession(c) ==
  /\ \/ sess'[c].in = sess[c].in
     \/ sess[c].in # "none" /\ sess'[c].in \in {"closed", "gone"} /\ shim'[c] = "over"
  /\ sess'[c].est = sess[c].est \/ (Open(c) /\ sess'[c].est)
  /\ sess'[c].gen >= sess[c].gen
  /\ SameCaller(c) \/ (sess[c].in # "none" /\ (NewCaller(c) \/ AcceptedCaller(c)))
  /\ sess'[c].fails + InHand(worker'[c]) <= sess[c].fails + InHand(worker[c])

Calm(c) ==
  /\ CalmShim(c) /\ CalmWorker(c) /\ CalmSession(c)
  /\ sess'[c].est \/ task'[c] = task[c]
  /\ Open(c) /\ Watched(c) => Watched(c)' \/ shim'[c] = "over"

\* A calm step keeps the invariant.
LEMMA CalmKeeps ==
  ASSUME Types, Types', NEW c \in Calls, CallInv(c), Calm(c)
  PROVE  CallInv(c)'
<1>t. /\ sess[c] \in Sessions /\ sess'[c] \in Sessions /\ worker[c] \in Workers
      /\ worker'[c] \in Workers /\ leases[c] \in Nat /\ leases'[c] \in Nat
      /\ keys[c] \in Nat /\ queue[c] \in Seq(Jobs)
  BY DEF Types
<1>s. /\ sess[c].gen \in Nat /\ sess'[c].gen \in Nat /\ sess[c].fails \in Nat /\ sess'[c].fails \in Nat
      /\ sess[c].lease \in {0, 1} /\ sess'[c].lease \in {0, 1}
      /\ sess[c].auth \in BOOLEAN /\ sess'[c].auth \in BOOLEAN
      /\ sess[c].chosen \in BOOLEAN /\ sess'[c].chosen \in BOOLEAN
      /\ sess[c].authPIN \in 0..2
  BY <1>t DEF Sessions
<1>1. First(c)'
  <2>1. /\ queue'[c] = queue[c]
        /\ shim'[c] = "over" \/ (shim'[c] = shim[c] /\ wire'[c] = wire[c])
        /\ \A i \in DOMAIN wire'[c] : wire'[c][i] = "incoming" =>
             i \in DOMAIN wire[c] /\ wire[c][i] = "incoming"
    BY DEF Calm, CalmShim
  <2>2. \/ worker'[c] = worker[c]
        \/ /\ worker[c].pc # "none" /\ worker'[c].pc \notin {"none", "handle"}
           /\ sess[c].in = "none" => worker'[c].pc \in {"wait", "dead"}
    BY DEF Calm, CalmWorker
  <2>3. sess'[c].in = "none" <=> sess[c].in = "none"
    BY DEF Calm, CalmSession
  <2>4. sess[c].in = "none" => sess'[c].chosen = sess[c].chosen /\ leases'[c] = leases[c]
                                 /\ sess'[c].lease = sess[c].lease
    <3>1. ASSUME sess[c].in = "none" PROVE SameCaller(c) /\ leases[c] = 0 /\ sess[c].lease = 0
      BY <3>1 DEF Calm, CalmSession, CallInv, First
    <3>2. ASSUME sess[c].in = "none" PROVE sess'[c].lease = 0
      BY <3>1, <3>2, <2>3 DEF SameCaller
    <3> QED BY <3>1, <3>2, <1>t, <1>s DEF SameCaller
  <2>5. First(c) /\ (sess[c].in = "none" => sess'[c].est = sess[c].est)
    BY DEF CallInv, Calm, CalmSession, Open
  <2> QED BY <2>1, <2>2, <2>3, <2>4, <2>5 DEF First
<1>2. Ended(c)'
  <2>1. Ended(c)
    BY DEF CallInv
  <2>2. shim'[c] = "over" \/ (shim'[c] = shim[c] /\ wire'[c] = wire[c] /\ stop'[c] = stop[c])
    BY DEF Calm, CalmShim
  <2>3. worker'[c] = worker[c] \/ worker'[c].pc # "answer"
    BY DEF Calm, CalmWorker
  <2> QED BY <2>1, <2>2, <2>3 DEF Ended
<1>3. Alive(c)'
  <2>1. Alive(c)
    BY DEF CallInv
  <2>2. shim'[c] = "over" \/ shim'[c] = shim[c]
    BY DEF Calm, CalmShim
  <2>3. worker'[c] = worker[c] \/ worker'[c].pc # "answer"
    BY DEF Calm, CalmWorker
  <2>4. Open(c) => Open(c)' \/ shim'[c] = "over"
    BY DEF Calm, CalmSession, Open
  <2>5. Open(c) /\ Watched(c) => Watched(c)' \/ shim'[c] = "over"
    BY DEF Calm
  <2> QED BY <2>1, <2>2, <2>3, <2>4, <2>5 DEF Alive
<1>4. Kept(c)'
  <2>1. Kept(c)
    BY DEF CallInv
  <2>2. queue'[c] = queue[c] /\ (shim'[c] = "over" \/ (shim'[c] = shim[c] /\ wire'[c] = wire[c]))
    BY DEF Calm, CalmShim
  <2>3. \/ worker'[c] = worker[c]
        \/ worker[c].pc = "handle" /\ worker[c].job.kind = "established" =>
             sess'[c].est \/ ~Open(c)' \/ shim'[c] = "over"
    BY DEF Calm, CalmWorker
  <2>4. (Open(c)' => Open(c) \/ shim'[c] = "over") /\ (sess[c].est => sess'[c].est)
    BY DEF Calm, CalmSession, Open
  <2>5. ~sess'[c].est => task'[c] = task[c]
    BY DEF Calm
  <2> QED BY <2>1, <2>2, <2>3, <2>4, <2>5 DEF Kept
<1>5. Leased(c)'
  <2>1. Leased(c)
    BY DEF CallInv
  <2>2. \/ worker'[c] = worker[c]
        \/ /\ worker'[c].pc # "answer"
           /\ worker'[c].pc # "activate" \/ (sess'[c].lease = 0 /\ sess'[c].chosen = FALSE)
    BY DEF Calm, CalmWorker
  <2>3. sess'[c].in = sess[c].in \/ sess'[c].in = "closed" \/ sess'[c].in = "gone"
    BY DEF Calm, CalmSession
  <2>4. CASE SameCaller(c)
    <3>1. /\ sess'[c].chosen = sess[c].chosen
          /\ leases'[c] - sess'[c].lease = leases[c] - sess[c].lease
          /\ worker'[c] = worker[c] \/ sess'[c].in \in {"none", "gone"} =>
               sess'[c].lease \in {0, sess[c].lease}
      BY <2>4 DEF SameCaller
    <3>2. sess'[c].lease <= leases'[c]
      BY <2>1, <3>1, <1>t, <1>s DEF Leased
    <3>3. ~sess'[c].chosen => leases'[c] = sess'[c].lease
      BY <2>1, <3>1, <1>t, <1>s DEF Leased
    <3>4. sess'[c].in \in {"none", "gone"} => sess'[c].lease = 0 \/ sess'[c].chosen
      <4>1. CASE sess'[c].in = "none"
        BY <2>1, <2>3, <3>1, <4>1 DEF Leased
      <4>2. CASE sess'[c].in = "gone" /\ sess[c].in = "gone"
        <5>1. sess[c].lease = 0 \/ sess[c].chosen
          BY <2>1, <4>2 DEF Leased
        <5>2. sess'[c].lease = 0 \/ sess'[c].lease = sess[c].lease
          BY <3>1, <4>2
        <5> QED BY <3>1, <5>1, <5>2
      <4>3. CASE sess'[c].in = "gone" /\ sess[c].in # "gone"
        BY <2>4, <4>3 DEF SameCaller
      <4> QED BY <4>1, <4>2, <4>3
    <3>5. worker'[c].pc \in {"answer", "activate"} => sess'[c].lease = 0 /\ sess'[c].chosen = FALSE
      BY <2>1, <2>2, <3>1 DEF Leased
    <3> QED BY <3>2, <3>3, <3>4, <3>5 DEF Leased
  <2>5. CASE sess[c].in # "none" /\ NewCaller(c)
    BY <2>5 DEF NewCaller, Leased
  <2>6. CASE sess[c].in # "none" /\ AcceptedCaller(c)
    BY <2>1, <2>3, <2>6 DEF AcceptedCaller, Leased
  <2> QED BY <2>4, <2>5, <2>6 DEF Calm, CalmSession
<1>6. Signed(c)'
  <2>1. Signed(c)
    BY DEF CallInv
  <2>2. worker'[c] = worker[c] \/ Checks(c)'
    BY DEF Calm, CalmWorker
  <2>3. Open(c)' => Open(c)
    <3>1. sess'[c].in = "open" => sess[c].in = "open"
      BY DEF Calm, CalmSession
    <3> QED BY <3>1 DEF Open
  <2>4. CASE SameCaller(c)
    <3>1. /\ sess'[c].auth = sess[c].auth /\ sess'[c].authPIN = sess[c].authPIN
          /\ sess'[c].user = sess[c].user
          /\ sess'[c].state = sess[c].state \/ sess'[c].state # "main"
          /\ \A pin \in 0..2 : Open(c)' /\ InForce(pin, sess[c].user) => InForce(pin, sess[c].user)'
      BY <2>4 DEF SameCaller
    <3>2. Open(c)' /\ sess'[c].auth => InForce(sess[c].authPIN, sess[c].user)'
      <4>1. Open(c)' /\ sess'[c].auth => InForce(sess[c].authPIN, sess[c].user)
        BY <2>1, <2>3, <3>1 DEF Signed
      <4>2. Open(c)' /\ InForce(sess[c].authPIN, sess[c].user) => 
              (sess[c].authPIN = pinOf'[sess'[c].user] \/ sess'[c].user \in stale')
        BY <3>1, <1>s DEF InForce
      <4> QED BY <3>1, <4>1, <4>2 DEF InForce
    <3>3. Checks(c)'
      <4>1. CASE worker'[c] = worker[c]
        <5>1. worker[c].hash \in 0..2
          BY <1>t DEF Workers
        <5>2. worker'[c].pc = "check" /\ Open(c)' => InForce(worker[c].hash, sess[c].user)
          BY <2>1, <2>3, <4>1 DEF Signed
        <5>3. Open(c)' /\ InForce(worker[c].hash, sess[c].user) => 
                (worker[c].hash = pinOf'[sess'[c].user] \/ sess'[c].user \in stale')
          BY <3>1, <5>1 DEF InForce
        <5>4. worker'[c].pc = "check" /\ Open(c)' => InForce(worker[c].hash, sess[c].user)'
          BY <4>1, <5>2, <5>3 DEF InForce
        <5>5. /\ worker'[c].pc \in {"lookup", "check"} => worker'[c].user = sess'[c].user
              /\ worker'[c].pc \in {"lookup", "check", "choose"} => sess'[c].auth = FALSE
          BY <2>1, <3>1, <4>1 DEF Signed
        <5> QED BY <5>4, <5>5 DEF Checks
      <4> QED BY <2>2, <4>1
    <3>4. sess'[c].state = "main" => sess'[c].auth
      BY <2>1, <3>1 DEF Signed
    <3> QED BY <3>2, <3>3, <3>4 DEF Signed, Checks
  <2>5. CASE sess[c].in # "none" /\ NewCaller(c)
    BY <2>5 DEF NewCaller, Signed
  <2>6. CASE sess[c].in # "none" /\ AcceptedCaller(c)
    BY <2>6 DEF AcceptedCaller, Signed
  <2> QED BY <2>4, <2>5, <2>6 DEF Calm, CalmSession
<1>7. Stamped(c)'
  <2>1. Stamped(c) /\ queue'[c] = queue[c]
    BY DEF CallInv, Calm, CalmShim
  <2>2. worker'[c] = worker[c] \/ worker'[c].pc # "handle"
    BY DEF Calm, CalmWorker
  <2>3. /\ sess'[c].gen >= sess[c].gen
        /\ (sess'[c].auth => sess[c].auth) \/ (sess'[c].gen > sess[c].gen /\ worker'[c].pc # "handle")
    BY DEF Calm, CalmSession, SameCaller, NewCaller, AcceptedCaller
  <2>4. \A i \in DOMAIN queue[c] : queue[c][i].stamp \in Nat
    <3>1. \A i \in DOMAIN queue[c] : queue[c][i] \in Jobs
      BY <1>t
    <3> QED BY <3>1 DEF Jobs
  <2>5. ASSUME NEW i \in DOMAIN queue[c], queue[c][i].kind = "key"
        PROVE  /\ queue[c][i].stamp \in 1..sess'[c].gen
               /\ sess'[c].auth /\ ~queue[c][i].signed => queue[c][i].stamp < sess'[c].gen
    <3>1. /\ queue[c][i].stamp \in 1..sess[c].gen
          /\ sess[c].auth /\ ~queue[c][i].signed => queue[c][i].stamp < sess[c].gen
      BY <2>1, <2>5 DEF Stamped, StampedJob
    <3> QED BY <3>1, <2>3, <2>4, <1>s
  <2>6. worker'[c].pc = "handle" /\ worker'[c].job.kind = "key" /\ sess'[c].auth =>
          worker'[c].job.signed
    BY <2>1, <2>2, <2>3 DEF Stamped
  <2> QED BY <2>1, <2>5, <2>6 DEF Stamped, StampedJob
<1>8. Counted(c)'
  <2>1. /\ queue'[c] = queue[c] /\ keys'[c] = keys[c] /\ Counted(c)
        /\ sess'[c].fails + InHand(worker'[c]) <= sess[c].fails + InHand(worker[c])
    BY DEF CallInv, Calm, CalmShim, CalmSession
  <2>2. KeysIn(queue[c]) \in Nat
    BY <1>t, KeysType
  <2>3. InHand(worker[c]) \in Nat /\ InHand(worker'[c]) \in Nat
    BY DEF InHand
  <2>4. sess[c].fails + KeysIn(queue[c]) + InHand(worker[c]) <= keys[c]
    BY <2>1 DEF Counted
  <2>5. sess[c].fails \in Nat /\ sess'[c].fails \in Nat /\ keys[c] \in Nat
    BY <1>s, <1>t
  <2>6. sess'[c].fails + KeysIn(queue[c]) + InHand(worker'[c]) <= keys[c]
    BY <2>1, <2>2, <2>3, <2>4, <2>5
  <2> QED BY <2>1, <2>6 DEF Counted
<1> QED BY <1>1, <1>2, <1>3, <1>4, <1>5, <1>6, <1>7, <1>8 DEF CallInv

-----------------------------------------------------------------------------
\* Which steps are calm.  The shim and its pipe are left alone:
LEMMA ShimSame ==
  ASSUME NEW c \in Calls, queue'[c] = queue[c], keys'[c] = keys[c], shim'[c] = shim[c],
         wire'[c] = wire[c], stop'[c] = stop[c]
  PROVE  CalmShim(c)
BY DEF CalmShim

\* The call is hung up:
LEMMA ShimHung ==
  ASSUME Types, NEW c \in Calls, Hangup({c}), queue'[c] = queue[c], keys'[c] = keys[c]
  PROVE  CalmShim(c) /\ shim'[c] = "over"
<1>1. wire[c] \in Seq(Wires)
  BY DEF Types
<1>2. PICK x \in {"closed", "error"} : wire'[c] = Append(wire[c], x) /\ shim'[c] = "over"
  BY HangupOnly
<1>3. \A i \in DOMAIN wire'[c] :
        (i \in DOMAIN wire[c] /\ wire'[c][i] = wire[c][i]) \/ wire'[c][i] = x
  <2>1. x \in Wires
    BY DEF Wires
  <2> QED BY <1>1, <1>2, <2>1, Appended
<1> QED BY <1>2, <1>3 DEF CalmShim

\* The worker is done with its job:
LEMMA RestsCalm ==
  ASSUME Types, NEW c \in Calls, Rests(c), worker[c].pc # "none",
         worker[c].pc = "handle" /\ worker[c].job.kind = "established" =>
           sess'[c].est \/ ~Open(c)' \/ shim'[c] = "over"
  PROVE  CalmWorker(c) /\ InHand(worker'[c]) = 0 /\ worker'[c].pc # "playing"
<1>1. worker'[c].pc \in {"wait", "dead"}
  BY RestsOnly
<1> QED BY <1>1 DEF CalmWorker, Checks, InHand

\* The worker goes on with its job:
LEMMA GoesCalm ==
  ASSUME Types, NEW c \in Calls,
         NEW p \in {"prompt", "playing", "say", "sayMenu", "dead", "choose"}, GoesTo(c, p),
         worker[c].pc # "none", sess[c].in # "none" \/ p = "dead",
         worker[c].pc = "handle" /\ worker[c].job.kind = "established" =>
           sess'[c].est \/ ~Open(c)' \/ shim'[c] = "over",
         p = "choose" => sess'[c].auth = FALSE
  PROVE  CalmWorker(c) /\ InHand(worker'[c]) = 0 /\ worker'[c].pc = p
<1>1. worker'[c].pc = p
  BY GoesToOnly DEF WorkerPC
<1>2. CalmWorker(c)
  BY <1>1 DEF CalmWorker, Checks
<1>3. InHand(worker'[c]) = 0
  BY <1>1 DEF InHand
<1> QED BY <1>1, <1>2, <1>3

\* The session is left alone:
LEMMA SessionSame ==
  ASSUME Types, NEW c \in Calls, sess'[c] = sess[c], leases'[c] = leases[c],
         pinOf' = pinOf, stale' = stale, InHand(worker'[c]) <= InHand(worker[c])
  PROVE  CalmSession(c)
<1>1. SameCaller(c)
  BY DEF SameCaller, InForce, Open
<1>2. /\ sess[c].gen >= sess[c].gen
      /\ sess[c].fails + InHand(worker'[c]) <= sess[c].fails + InHand(worker[c])
  <2>1. sess[c].gen \in Nat /\ sess[c].fails \in Nat
    BY DEF Types, Sessions
  <2>2. InHand(worker[c]) \in Nat /\ InHand(worker'[c]) \in Nat
    BY DEF InHand
  <2> QED BY <2>1, <2>2
<1> QED BY <1>1, <1>2 DEF CalmSession

\* The session moves to another menu, and its caller stays:
LEMMA SessionMoves ==
  ASSUME Types, NEW c \in Calls, leases'[c] = leases[c], pinOf' = pinOf, stale' = stale,
         sess'[c].in = sess[c].in \/
           (sess[c].in = "open" /\ sess'[c].in = "closed" /\ shim'[c] = "over"),
         sess'[c].est = sess[c].est \/ (Open(c) /\ sess'[c].est), sess'[c].gen >= sess[c].gen,
         sess'[c].auth = sess[c].auth, sess'[c].authPIN = sess[c].authPIN,
         sess'[c].user = sess[c].user, sess'[c].chosen = sess[c].chosen,
         sess'[c].state = sess[c].state \/ sess'[c].state # "main",
         sess'[c].lease = sess[c].lease,
         sess'[c].fails + InHand(worker'[c]) <= sess[c].fails + InHand(worker[c])
  PROVE  CalmSession(c)
<1>1. SameCaller(c)
  <2>1. leases'[c] - sess'[c].lease = leases[c] - sess[c].lease
    OBVIOUS
  <2>2. \A pin \in 0..2 : Open(c)' /\ InForce(pin, sess[c].user) => InForce(pin, sess[c].user)'
    BY DEF InForce
  <2> QED BY <2>1, <2>2 DEF SameCaller
<1> QED BY <1>1 DEF CalmSession

\* Somebody plays, or is about to hang up, as before.
LEMMA WatchedSame ==
  ASSUME NEW c \in Calls, timer[c] => timer'[c], hanging[c] => hanging'[c],
         worker[c].pc = "playing" => worker'[c].pc = "playing",
         task[c] \in {"playing", "playingCode"} => task'[c] \in {"playing", "playingCode"},
         goodbye[c] = "playing" => goodbye'[c] = "playing"
  PROVE  Watched(c) => Watched(c)'
BY DEF Watched, SomePlays

\* Who plays; the last one to end arms the timer.
Playing(c) == {a \in {"worker", "task", "goodbye"} :
    CASE a = "worker"  -> worker[c].pc = "playing"
      [] a = "task"    -> task[c] \in {"playing", "playingCode"}
      [] a = "goodbye" -> goodbye[c] = "playing"}
\* Who plays, counted.
LEMMA PlayingIs ==
  ASSUME NEW c \in Calls
  PROVE  /\ "worker" \in Playing(c) <=> worker[c].pc = "playing"
         /\ "task" \in Playing(c) <=> task[c] \in {"playing", "playingCode"}
         /\ "goodbye" \in Playing(c) <=> goodbye[c] = "playing"
         /\ Playing(c) \subseteq {"worker", "task", "goodbye"}
         /\ Plays(c) = Cardinality(Playing(c)) /\ IsFiniteSet(Playing(c))
<1>1. IsFiniteSet({"worker", "task", "goodbye"})
  <2>1. IsFiniteSet({"worker"})
    BY FS_Singleton
  <2>2. IsFiniteSet({"worker"} \cup {"task"})
    BY <2>1, FS_AddElement
  <2>3. IsFiniteSet(({"worker"} \cup {"task"}) \cup {"goodbye"})
    BY <2>2, FS_AddElement
  <2>4. {"worker", "task", "goodbye"} = ({"worker"} \cup {"task"}) \cup {"goodbye"}
    OBVIOUS
  <2> QED BY <2>3, <2>4
<1>2. Playing(c) \subseteq {"worker", "task", "goodbye"}
  BY DEF Playing
<1>3. IsFiniteSet(Playing(c))
  BY <1>1, <1>2, FS_Subset
<1>4. Plays(c) = Cardinality(Playing(c))
  BY DEF Plays, Playing
<1> QED BY <1>2, <1>3, <1>4 DEF Playing

\* The last prompt to end arms the timer; until then somebody else plays.
LEMMA LastArms ==
  ASSUME Types, NEW c \in Calls, EndMedia(c), Open(c), NEW a \in Playing(c)
  PROVE  (timer[c] => timer'[c]) /\ (timer'[c] \/ \E b \in Playing(c) : b # a)
<1>1. timer \in [Calls -> BOOLEAN]
  BY DEF Types
<1>2. CASE Plays(c) = 1
  BY <1>1, <1>2 DEF EndMedia
<1>3. CASE Plays(c) # 1
  <2>1. Playing(c) # {a}
    BY <1>3, PlayingIs, FS_Singleton
  <2>2. \E b \in Playing(c) : b # a
    BY <2>1
  <2>3. timer' = timer
    BY <1>3 DEF EndMedia
  <2> QED BY <2>2, <2>3
<1> QED BY <1>2, <1>3

\* The worker of a call that was not admitted has done nothing yet.
LEMMA Admitted ==
  ASSUME NEW c \in Calls, CallInv(c), worker[c].pc \notin {"none", "wait", "handle", "dead"}
  PROVE  sess[c].in # "none"
BY DEF CallInv, First

\* The steps of the worker until a session is established.
LEMMA WorkerStartsCalmly ==
  ASSUME Types, NEW c \in Calls, CallInv(c),
         \/ StopsIdle(c) \/ HandleStopped(c) \/ AdmitRefuses(c) \/ Activate(c) \/ OnEstablished(c)
  PROVE  Calm(c)
<1>t. /\ sess \in [Calls -> Sessions] /\ task \in [Calls -> {"none", "say", "sayMenu", "prompt",
             "promptCode", "playing", "playingCode", "ended"}]
      /\ leases \in [Calls -> Nat] /\ worker[c] \in Workers /\ sess[c] \in Sessions
  BY DEF Types
<1>i. InHand(worker[c]) \in {0, 1} /\ sess[c].fails \in Nat /\ sess[c].gen \in Nat
      /\ leases[c] \in Nat
  BY <1>t DEF InHand, Sessions
<1>1. ASSUME StopsIdle(c) \/ HandleStopped(c) PROVE Calm(c)
  <2>1. GoesTo(c, "dead") /\ worker[c].pc # "none" /\ stop[c]
    BY <1>1 DEF StopsIdle, HandleStopped, At
  <2>2. shim[c] = "over"
    BY <2>1 DEF CallInv, Ended
  <2>3. /\ UNCHANGED <<shim, wire, queue, stop, sess, timer, goodbye, hanging, task, leases,
                       keys, pinOf, stale>>
    BY <1>1 DEF StopsIdle, HandleStopped
  <2>4. CalmWorker(c) /\ InHand(worker'[c]) = 0
    BY <2>1, <2>2, <2>3, GoesCalm
  <2>5. CalmSession(c) /\ CalmShim(c)
    BY <2>3, <2>4, <1>i, SessionSame, ShimSame
  <2> QED BY <2>2, <2>3, <2>4, <2>5 DEF Calm
<1>2. ASSUME AdmitRefuses(c) PROVE Calm(c)
  <2>1. /\ Hangup({c}) /\ Rests(c) /\ worker[c].pc # "none"
        /\ UNCHANGED <<queue, stop, sess, timer, goodbye, hanging, task, leases, keys, pinOf, stale>>
    BY <1>2 DEF AdmitRefuses, Handles, At
  <2>2. CalmShim(c) /\ shim'[c] = "over"
    BY <2>1, ShimHung
  <2>3. CalmWorker(c) /\ InHand(worker'[c]) = 0
    BY <2>1, <2>2, RestsCalm
  <2>4. CalmSession(c)
    BY <2>1, <2>3, <1>i, SessionSame
  <2> QED BY <2>1, <2>2, <2>3, <2>4 DEF Calm
<1>3. ASSUME Activate(c) PROVE Calm(c)
  <2>1. /\ worker[c].pc = "activate" /\ Rests(c)
        /\ UNCHANGED <<shim, wire, queue, stop, timer, goodbye, hanging, task, keys, pinOf, stale>>
    BY <1>3 DEF Activate, At
  <2>2. CalmWorker(c) /\ InHand(worker'[c]) = 0 /\ CalmShim(c)
    BY <2>1, RestsCalm, ShimSame
  <2>3. CASE InMap(c)
    <3>1. /\ leases' = [leases EXCEPT ![c] = leases[c] + 1]
          /\ sess' = [sess EXCEPT ![c] = [sess[c] EXCEPT !.lease = 1]]
      BY <1>3, <2>3 DEF Activate
    <3>2. leases'[c] = leases[c] + 1 /\ sess'[c] = [sess[c] EXCEPT !.lease = 1]
      BY <3>1, <1>t
    <3>3. /\ sess'[c].in = sess[c].in /\ sess'[c].est = sess[c].est /\ sess'[c].gen = sess[c].gen
          /\ sess'[c].auth = sess[c].auth /\ sess'[c].authPIN = sess[c].authPIN
          /\ sess'[c].user = sess[c].user /\ sess'[c].chosen = sess[c].chosen
          /\ sess'[c].state = sess[c].state /\ sess'[c].lease = 1
          /\ sess'[c].fails = sess[c].fails
      BY <3>2, <1>t DEF Sessions
    <3>4. sess[c].lease = 0 /\ sess[c].in \notin {"none", "gone"}
      BY <2>1, <2>3 DEF CallInv, Leased, InMap
    <3>5. leases'[c] - sess'[c].lease = leases[c] - sess[c].lease
      BY <3>2, <3>3, <3>4, <1>i
    <3>6. worker'[c] # worker[c]
      <4>1. worker'[c].pc \in {"wait", "dead"}
        BY <2>1, RestsOnly
      <4> QED BY <2>1, <4>1
    <3>7. SameCaller(c)
      BY <2>1, <3>3, <3>4, <3>5, <3>6 DEF SameCaller, InForce
    <3>8. sess'[c].gen >= sess[c].gen
          /\ sess'[c].fails + InHand(worker'[c]) <= sess[c].fails + InHand(worker[c])
      BY <3>3, <2>2, <1>i
    <3>9. CalmSession(c)
      BY <3>3, <3>7, <3>8 DEF CalmSession
    <3>10. Watched(c) => Watched(c)'
      BY <2>1, WatchedSame
    <3> QED BY <2>1, <2>2, <3>9, <3>10 DEF Calm
  <2>4. CASE ~InMap(c)
    <3>1. leases' = leases /\ sess' = sess
      BY <1>3, <2>4 DEF Activate
    <3>2. CalmSession(c)
      BY <2>1, <2>2, <3>1, <1>i, SessionSame
    <3>3. Watched(c) => Watched(c)'
      BY <2>1, WatchedSame
    <3> QED BY <2>1, <2>2, <3>1, <3>2, <3>3 DEF Calm
  <2> QED BY <2>3, <2>4
<1>4. ASSUME OnEstablished(c) PROVE Calm(c)
  <2>1. /\ worker[c].pc = "handle" /\ worker[c].job.kind = "established" /\ Rests(c)
        /\ UNCHANGED <<shim, wire, queue, stop, timer, goodbye, hanging, leases, keys, pinOf, stale>>
    BY <1>4 DEF OnEstablished, Handles, At
  <2>2. CASE Open(c) /\ ~sess[c].est
    <3>1. /\ sess' = [sess EXCEPT ![c] = [sess[c] EXCEPT !.est = TRUE]] /\ task[c] = "none"
      BY <1>4, <2>2 DEF OnEstablished, CallInv, Kept
    <3>2. sess'[c] = [sess[c] EXCEPT !.est = TRUE]
      BY <3>1, <1>t
    <3>3. /\ sess'[c].in = sess[c].in /\ sess'[c].est = TRUE /\ sess'[c].gen = sess[c].gen
          /\ sess'[c].auth = sess[c].auth /\ sess'[c].authPIN = sess[c].authPIN
          /\ sess'[c].user = sess[c].user /\ sess'[c].chosen = sess[c].chosen
          /\ sess'[c].state = sess[c].state /\ sess'[c].lease = sess[c].lease
          /\ sess'[c].fails = sess[c].fails
      BY <3>2, <1>t DEF Sessions
    <3>4. CalmWorker(c) /\ InHand(worker'[c]) = 0 /\ CalmShim(c)
      BY <2>1, <3>3, RestsCalm, ShimSame
    <3>5. sess'[c].gen >= sess[c].gen
          /\ sess'[c].fails + InHand(worker'[c]) <= sess[c].fails + InHand(worker[c])
      BY <3>3, <3>4, <1>i
    <3>6. CalmSession(c)
      BY <2>1, <2>2, <3>3, <3>5, SessionMoves
    <3>7. Watched(c) => Watched(c)'
      BY <2>1, <3>1, WatchedSame
    <3> QED BY <3>3, <3>4, <3>6, <3>7 DEF Calm
  <2>3. CASE ~(Open(c) /\ ~sess[c].est)
    <3>1. sess' = sess /\ task' = task
      BY <1>4, <2>3 DEF OnEstablished
    <3>2. CalmWorker(c) /\ InHand(worker'[c]) = 0 /\ CalmShim(c)
      BY <2>1, <2>3, <3>1, RestsCalm, ShimSame DEF Open
    <3>3. CalmSession(c)
      BY <2>1, <3>1, <3>2, <1>i, SessionSame
    <3>4. Watched(c) => Watched(c)'
      BY <2>1, <3>1, WatchedSame
    <3> QED BY <3>1, <3>2, <3>3, <3>4 DEF Calm
  <2> QED BY <2>2, <2>3
<1> QED BY <1>1, <1>2, <1>3, <1>4

\* The steps of the worker that handle a key before the PIN is submitted.
LEMMA WorkerKeysCalmly ==
  ASSUME Types, NEW c \in Calls, CallInv(c),
         \/ IgnoreKey(c) \/ MenuKey(c) \/ ChoiceKey(c) \/ Choose(c) \/ TypeDigit(c)
  PROVE  Calm(c)
<1>t. /\ sess \in [Calls -> Sessions] /\ leases \in [Calls -> Nat] /\ timer \in [Calls -> BOOLEAN]
      /\ sess[c] \in Sessions
  BY DEF Types
<1>i. InHand(worker[c]) \in {0, 1} /\ sess[c].fails \in Nat /\ sess[c].gen \in Nat
      /\ leases[c] \in Nat
  BY <1>t DEF InHand, Sessions
<1>a. ASSUME Arm(c) PROVE timer[c] => timer'[c]
  BY <1>a, <1>t DEF Arm
<1>1. ASSUME IgnoreKey(c) PROVE Calm(c)
  <2>1. /\ Rests(c) /\ worker[c].pc = "handle" /\ worker[c].job.kind = "key" /\ Arm(c)
        /\ UNCHANGED <<shim, wire, queue, stop, sess, goodbye, hanging, task, leases, keys, pinOf,
                       stale>>
    BY <1>1 DEF IgnoreKey, Handles, At
  <2>2. CalmShim(c) /\ CalmWorker(c) /\ InHand(worker'[c]) = 0
    BY <2>1, ShimSame, RestsCalm
  <2>3. CalmSession(c)
    BY <2>1, <2>2, <1>i, SessionSame
  <2>4. Watched(c) => Watched(c)'
    BY <2>1, <1>a, WatchedSame
  <2> QED BY <2>1, <2>2, <2>3, <2>4 DEF Calm
<1>2. ASSUME MenuKey(c) PROVE Calm(c)
  <2>1. /\ GoesTo(c, "prompt") /\ worker[c].pc = "handle" /\ worker[c].job.kind = "key" /\ Arm(c)
        /\ Open(c)
        /\ UNCHANGED <<shim, wire, queue, stop, goodbye, hanging, task, leases, keys, pinOf, stale>>
    BY <1>2 DEF MenuKey, Handles, At
  <2>2. CalmShim(c) /\ CalmWorker(c) /\ InHand(worker'[c]) = 0
    BY <2>1, ShimSame, GoesCalm DEF Open
  <2>3. PICK m \in {0, 1} : sess' = [sess EXCEPT ![c] = [sess[c] EXCEPT !.gen = sess[c].gen + m]]
    BY <1>2 DEF MenuKey
  <2>4. sess'[c] = [sess[c] EXCEPT !.gen = sess[c].gen + m]
    BY <2>3, <1>t
  <2>5. /\ sess'[c].in = sess[c].in /\ sess'[c].est = sess[c].est /\ sess'[c].gen = sess[c].gen + m
        /\ sess'[c].auth = sess[c].auth /\ sess'[c].authPIN = sess[c].authPIN
        /\ sess'[c].user = sess[c].user /\ sess'[c].chosen = sess[c].chosen
        /\ sess'[c].state = sess[c].state /\ sess'[c].lease = sess[c].lease
        /\ sess'[c].fails = sess[c].fails
    BY <2>4, <1>t DEF Sessions
  <2>6. sess'[c].gen >= sess[c].gen
        /\ sess'[c].fails + InHand(worker'[c]) <= sess[c].fails + InHand(worker[c])
    BY <2>5, <2>2, <1>i
  <2>7. CalmSession(c)
    BY <2>1, <2>5, <2>6, SessionMoves
  <2>8. Watched(c) => Watched(c)'
    BY <2>1, <1>a, WatchedSame
  <2> QED BY <2>1, <2>2, <2>7, <2>8 DEF Calm
<1>3. ASSUME ChoiceKey(c) PROVE Calm(c)
  <2>1. /\ GoesTo(c, "choose") /\ worker[c].pc = "handle" /\ worker[c].job.kind = "key" /\ Arm(c)
        /\ Open(c) /\ ~sess[c].auth
        /\ UNCHANGED <<shim, wire, queue, stop, sess, goodbye, hanging, task, leases, keys, pinOf,
                       stale>>
    BY <1>3 DEF ChoiceKey, Handles, At
  <2>2. sess'[c].auth = FALSE
    BY <2>1, <1>t DEF Sessions
  <2>3. CalmShim(c) /\ CalmWorker(c) /\ InHand(worker'[c]) = 0
    BY <2>1, <2>2, ShimSame, GoesCalm DEF Open
  <2>4. CalmSession(c)
    BY <2>1, <2>3, <1>i, SessionSame
  <2>5. Watched(c) => Watched(c)'
    BY <2>1, <1>a, WatchedSame
  <2> QED BY <2>1, <2>3, <2>4, <2>5 DEF Calm
<1>4. ASSUME Choose(c) PROVE Calm(c)
  <2>1. /\ worker[c].pc = "choose"
        /\ UNCHANGED <<shim, wire, queue, stop, timer, goodbye, hanging, task, keys, pinOf, stale>>
    BY <1>4 DEF Choose, At
  <2>2. sess[c].in # "none" /\ CalmShim(c) /\ sess[c].auth = FALSE
    BY <2>1, Admitted, ShimSame DEF CallInv, Signed
  <2>3. CASE UNCHANGED <<sess, leases>> /\ GoesTo(c, "say")
    <3>1. CalmWorker(c) /\ InHand(worker'[c]) = 0 /\ worker'[c].pc = "say"
      BY <2>1, <2>2, <2>3, GoesCalm
    <3>2. CalmSession(c)
      BY <2>1, <2>3, <3>1, <1>i, SessionSame
    <3>3. Watched(c) => Watched(c)'
      BY <2>1, WatchedSame
    <3> QED BY <2>1, <2>2, <2>3, <3>1, <3>2, <3>3 DEF Calm
  <2>4. CASE /\ HasChoices(c) /\ worker[c].job.key \in 1..Len(sess[c].routes)
             /\ sess' = [sess EXCEPT ![c] =
                  Enter([@ EXCEPT !.user = sess[c].routes[worker[c].job.key],
                                  !.chosen = TRUE, !.lease = 1], "pin")]
             /\ leases' = [leases EXCEPT ![c] = @ + 1] /\ GoesTo(c, "prompt")
    <3> DEFINE s == [sess[c] EXCEPT !.user = sess[c].routes[worker[c].job.key],
                                    !.chosen = TRUE, !.lease = 1]
    <3>1. CalmWorker(c) /\ InHand(worker'[c]) = 0 /\ worker'[c].pc = "prompt"
      BY <2>1, <2>2, <2>4, GoesCalm
    <3>2. s \in Sessions
      <4>1. sess[c].routes[worker[c].job.key] \in Users
        BY <2>4, <1>t DEF Sessions
      <4> QED BY <4>1, <1>t DEF Sessions
    <3>3. /\ s.in = sess[c].in /\ s.est = sess[c].est /\ s.gen = sess[c].gen
          /\ s.auth = sess[c].auth /\ s.chosen = TRUE /\ s.lease = 1 /\ s.fails = sess[c].fails
      BY <1>t DEF Sessions
    <3>4. sess'[c] = Enter(s, "pin") /\ leases'[c] = leases[c] + 1
      BY <2>4, <1>t
    <3> HIDE DEF s
    <3>5. /\ sess'[c].in = sess[c].in /\ sess'[c].est = sess[c].est
          /\ sess'[c].auth = FALSE /\ sess'[c].chosen = TRUE /\ sess'[c].lease = 1
          /\ sess'[c].fails = sess[c].fails /\ sess'[c].state = "pin"
          /\ sess'[c].gen = sess[c].gen \/ sess'[c].gen = sess[c].gen + 1
      BY <3>2, <3>3, <3>4, <2>2, EnterOnly DEF States
    <3>6. sess'[c].lease <= leases'[c] /\ sess'[c].gen >= sess[c].gen
      BY <3>4, <3>5, <1>i
    <3>7. sess'[c].fails + InHand(worker'[c]) <= sess[c].fails + InHand(worker[c])
      BY <3>5, <3>1, <1>i
    <3>8. CalmSession(c)
      <4>1. NewCaller(c)
        BY <3>1, <3>5, <3>6 DEF NewCaller
      <4> QED BY <2>2, <3>5, <3>6, <3>7, <4>1 DEF CalmSession
    <3>9. Watched(c) => Watched(c)'
      BY <2>1, WatchedSame
    <3> QED BY <2>1, <2>2, <3>1, <3>8, <3>9 DEF Calm
  <2> QED BY <1>4, <2>3, <2>4 DEF Choose
<1>5. ASSUME TypeDigit(c) PROVE Calm(c)
  <2>1. /\ Rests(c) /\ worker[c].pc = "handle" /\ worker[c].job.kind = "key" /\ Arm(c)
        /\ UNCHANGED <<shim, wire, queue, stop, goodbye, hanging, task, leases, keys, pinOf, stale>>
    BY <1>5 DEF TypeDigit, Handles, At
  <2>2. CalmShim(c) /\ CalmWorker(c) /\ InHand(worker'[c]) = 0
    BY <2>1, ShimSame, RestsCalm
  <2>3. \E p : sess' = [sess EXCEPT ![c] = [sess[c] EXCEPT !.pin = p]]
    BY <1>5 DEF TypeDigit
  <2>4. PICK p : sess'[c] = [sess[c] EXCEPT !.pin = p]
    BY <2>3, <1>t
  <2>5. /\ sess'[c].in = sess[c].in /\ sess'[c].est = sess[c].est /\ sess'[c].gen = sess[c].gen
        /\ sess'[c].auth = sess[c].auth /\ sess'[c].authPIN = sess[c].authPIN
        /\ sess'[c].user = sess[c].user /\ sess'[c].chosen = sess[c].chosen
        /\ sess'[c].state = sess[c].state /\ sess'[c].lease = sess[c].lease
        /\ sess'[c].fails = sess[c].fails
    BY <2>4, <1>t DEF Sessions
  <2>6. sess'[c].gen >= sess[c].gen
        /\ sess'[c].fails + InHand(worker'[c]) <= sess[c].fails + InHand(worker[c])
    BY <2>5, <2>2, <1>i
  <2>7. CalmSession(c)
    BY <2>1, <2>5, <2>6, SessionMoves
  <2>8. Watched(c) => Watched(c)'
    BY <2>1, <1>a, WatchedSame
  <2> QED BY <2>1, <2>2, <2>7, <2>8 DEF Calm
<1> QED BY <1>1, <1>2, <1>3, <1>4, <1>5

\* The steps of the worker that check the PIN.
LEMMA WorkerChecksCalmly ==
  ASSUME Types, NEW c \in Calls, CallInv(c), SubmitPIN(c) \/ LookupPIN(c) \/ CheckPIN(c)
  PROVE  Calm(c)
<1>t. /\ sess \in [Calls -> Sessions] /\ worker \in [Calls -> Workers] /\ timer \in [Calls -> BOOLEAN]
      /\ sess[c] \in Sessions /\ worker[c] \in Workers
  BY DEF Types
<1>i. InHand(worker[c]) \in {0, 1} /\ sess[c].fails \in Nat /\ sess[c].gen \in Nat
      /\ leases[c] \in Nat
  BY <1>t DEF InHand, Sessions, Types
<1>1. ASSUME SubmitPIN(c) PROVE Calm(c)
  <2>1. /\ worker[c].pc = "handle" /\ worker[c].job.kind = "key" /\ Arm(c) /\ AsksPIN(c)
        /\ UNCHANGED <<shim, wire, queue, stop, sess, goodbye, hanging, task, leases, keys, pinOf,
                       stale>>
    BY <1>1 DEF SubmitPIN, Handles, At
  <2>2. worker' = [worker EXCEPT ![c] =
                     [worker[c] EXCEPT !.pc = "lookup", !.user = sess[c].user, !.pin = sess[c].pin]]
    BY <1>1 DEF SubmitPIN
  <2>3. worker'[c].pc = "lookup" /\ worker'[c].user = sess[c].user
    <3>1. worker'[c] = [worker[c] EXCEPT !.pc = "lookup", !.user = sess[c].user, !.pin = sess[c].pin]
      BY <2>2, <1>t
    <3> QED BY <3>1, <1>t DEF Workers
  <2>4. Open(c) /\ sess[c].auth = FALSE
    BY <2>1, <1>t DEF AsksPIN, Sessions
  <2>5. CalmWorker(c) /\ CalmShim(c)
    BY <2>1, <2>3, <2>4, ShimSame DEF CalmWorker, Checks, Open
  <2>6. InHand(worker'[c]) <= InHand(worker[c])
    BY <2>1, <2>3 DEF InHand
  <2>7. CalmSession(c)
    BY <2>1, <2>6, SessionSame
  <2>8. timer[c] => timer'[c]
    BY <2>1, <1>t DEF Arm
  <2>9. Watched(c) => Watched(c)'
    BY <2>1, <2>8, WatchedSame
  <2> QED BY <2>1, <2>5, <2>7, <2>9 DEF Calm
<1>2. ASSUME LookupPIN(c) PROVE Calm(c)
  <2>1. /\ worker[c].pc = "lookup"
        /\ UNCHANGED <<shim, wire, queue, stop, timer, goodbye, hanging, task, leases, keys, pinOf,
                       stale>>
    BY <1>2 DEF LookupPIN, At
  <2>2. /\ sess[c].in # "none" /\ CalmShim(c) /\ sess[c].auth = FALSE
        /\ worker[c].user = sess[c].user
    BY <2>1, Admitted, ShimSame DEF CallInv, Signed
  <2>3. Watched(c) => Watched(c)'
    <3>1. worker[c].pc # "playing"
      BY <2>1
    <3> QED BY <2>1, <3>1, WatchedSame
  <2>4. CASE sess' = [sess EXCEPT ![c].pin = NoPIN] /\ GoesTo(c, "prompt")
    <3>1. CalmWorker(c) /\ InHand(worker'[c]) = 0
      BY <2>1, <2>2, <2>4, GoesCalm
    <3>2. sess'[c] = [sess[c] EXCEPT !.pin = NoPIN]
      BY <2>4, <1>t
    <3>3. /\ sess'[c].in = sess[c].in /\ sess'[c].est = sess[c].est /\ sess'[c].gen = sess[c].gen
          /\ sess'[c].auth = sess[c].auth /\ sess'[c].authPIN = sess[c].authPIN
          /\ sess'[c].user = sess[c].user /\ sess'[c].chosen = sess[c].chosen
          /\ sess'[c].state = sess[c].state /\ sess'[c].lease = sess[c].lease
          /\ sess'[c].fails = sess[c].fails
      BY <3>2, <1>t DEF Sessions
    <3>4. sess'[c].gen >= sess[c].gen
          /\ sess'[c].fails + InHand(worker'[c]) <= sess[c].fails + InHand(worker[c])
      BY <3>3, <3>1, <1>i
    <3>5. CalmSession(c)
      BY <2>1, <3>3, <3>4, SessionMoves
    <3> QED BY <2>1, <2>2, <2>3, <3>1, <3>5 DEF Calm
  <2>5. CASE worker' = [worker EXCEPT ![c].pc = "check", ![c].hash = pinOf[worker[c].user]]
             /\ UNCHANGED sess
    <3>1. worker'[c] = [worker[c] EXCEPT !.pc = "check", !.hash = pinOf[worker[c].user]]
      BY <2>5, <1>t
    <3>2. /\ worker'[c].pc = "check" /\ worker'[c].user = worker[c].user
          /\ worker'[c].hash = pinOf[worker[c].user]
      BY <3>1, <1>t DEF Workers
    <3>3. CalmWorker(c)
      BY <2>1, <2>2, <2>5, <3>2 DEF CalmWorker, Checks, InForce
    <3>4. InHand(worker'[c]) <= InHand(worker[c])
      BY <2>1, <3>2 DEF InHand
    <3>5. CalmSession(c)
      BY <2>1, <2>5, <3>4, SessionSame
    <3> QED BY <2>1, <2>2, <2>3, <3>3, <3>5 DEF Calm
  <2> QED BY <1>2, <2>4, <2>5 DEF LookupPIN
<1>3. ASSUME CheckPIN(c) PROVE Calm(c)
  <2>1. /\ worker[c].pc = "check"
        /\ UNCHANGED <<queue, stop, timer, goodbye, hanging, task, leases, keys, pinOf, stale>>
    BY <1>3 DEF CheckPIN, At
  <2>2. /\ sess[c].in # "none" /\ sess[c].auth = FALSE /\ sess[c].state # "main"
        /\ Open(c) => InForce(worker[c].hash, sess[c].user)
    BY <2>1, Admitted DEF CallInv, Signed
  <2>3. Watched(c) => Watched(c)'
    <3>1. worker[c].pc # "playing"
      BY <2>1
    <3> QED BY <2>1, <3>1, WatchedSame
  <2>4. InHand(worker[c]) = 1
    BY <2>1 DEF InHand
  <2>5. CASE /\ sess' = [sess EXCEPT ![c] = Enter([@ EXCEPT !.auth = TRUE, !.fails = 0,
                                                           !.authPIN = worker[c].hash], "main")]
             /\ GoesTo(c, "prompt") /\ UNCHANGED <<shim, wire>>
    <3> DEFINE s == [sess[c] EXCEPT !.auth = TRUE, !.fails = 0, !.authPIN = worker[c].hash]
    <3>1. CalmWorker(c) /\ InHand(worker'[c]) = 0 /\ worker'[c].pc = "prompt" /\ CalmShim(c)
      BY <2>1, <2>2, <2>5, GoesCalm, ShimSame
    <3>2. s \in Sessions
      BY <1>t DEF Sessions, Workers
    <3>3. /\ s.in = sess[c].in /\ s.est = sess[c].est /\ s.gen = sess[c].gen /\ s.fails = 0
          /\ s.auth = TRUE /\ s.chosen = sess[c].chosen /\ s.lease = sess[c].lease
          /\ s.authPIN = worker[c].hash /\ s.user = sess[c].user /\ s.state = sess[c].state
      BY <1>t DEF Sessions
    <3>4. sess'[c] = Enter(s, "main")
      BY <2>5, <1>t
    <3> HIDE DEF s
    <3>5. /\ sess'[c].in = sess[c].in /\ sess'[c].est = sess[c].est /\ sess'[c].auth = TRUE
          /\ sess'[c].chosen = sess[c].chosen /\ sess'[c].lease = sess[c].lease
          /\ sess'[c].authPIN = worker[c].hash /\ sess'[c].user = sess[c].user
          /\ sess'[c].fails = 0 /\ sess'[c].gen = sess[c].gen + 1
      BY <3>2, <3>3, <3>4, <2>2, EnterOnly DEF States
    <3>6. Open(c)' => InForce(sess[c].authPIN, sess[c].user)'
      BY <2>1, <2>2, <3>5 DEF InForce, Open
    <3>7. sess'[c].gen > sess[c].gen /\ sess'[c].gen >= sess[c].gen
          /\ sess'[c].fails + InHand(worker'[c]) <= sess[c].fails + InHand(worker[c])
      BY <3>5, <3>1, <1>i
    <3>8. CalmSession(c)
      BY <2>1, <2>2, <3>1, <3>5, <3>6, <3>7 DEF CalmSession, AcceptedCaller
    <3> QED BY <2>1, <2>3, <3>1, <3>8 DEF Calm
  <2>6. CASE /\ sess' = [sess EXCEPT ![c].pin = NoPIN, ![c].fails = @ + 1]
             /\ \/ Hangup({c}) /\ Rests(c)
                \/ GoesTo(c, "prompt") /\ UNCHANGED <<shim, wire>>
    <3>1. CalmWorker(c) /\ InHand(worker'[c]) = 0
      <4>1. CASE Rests(c)
        <5>1. worker[c].pc # "none" /\ worker[c].pc # "handle"
          BY <2>1
        <5> QED BY <4>1, <5>1, RestsCalm
      <4>2. CASE GoesTo(c, "prompt")
        BY <2>1, <2>2, <4>2, GoesCalm
      <4> QED BY <2>6, <4>1, <4>2
    <3>2. CalmShim(c)
      BY <2>1, <2>6, ShimSame, ShimHung
    <3>3. sess' = [sess EXCEPT ![c] = [sess[c] EXCEPT !.pin = NoPIN, !.fails = sess[c].fails + 1]]
      BY <2>6
    <3>4. sess'[c] = [sess[c] EXCEPT !.pin = NoPIN, !.fails = sess[c].fails + 1]
      BY <3>3, <1>t
    <3>5. /\ sess'[c].in = sess[c].in /\ sess'[c].est = sess[c].est /\ sess'[c].gen = sess[c].gen
          /\ sess'[c].auth = sess[c].auth /\ sess'[c].authPIN = sess[c].authPIN
          /\ sess'[c].user = sess[c].user /\ sess'[c].chosen = sess[c].chosen
          /\ sess'[c].state = sess[c].state /\ sess'[c].lease = sess[c].lease
          /\ sess'[c].fails = sess[c].fails + 1
      BY <3>4, <1>t DEF Sessions
    <3>6. sess'[c].gen >= sess[c].gen
          /\ sess'[c].fails + InHand(worker'[c]) <= sess[c].fails + InHand(worker[c])
      BY <3>5, <3>1, <2>4, <1>i
    <3>7. CalmSession(c)
      BY <2>1, <3>5, <3>6, SessionMoves
    <3> QED BY <2>1, <2>3, <3>1, <3>2, <3>7 DEF Calm
  <2> QED BY <1>3, <2>5, <2>6 DEF CheckPIN
<1> QED BY <1>1, <1>2, <1>3

\* The menu of account choices closes or moves the session, whoever speaks it.
LEMMA ChoicesCalmly ==
  ASSUME Types, NEW c \in Calls, CallInv(c), UNCHANGED <<leases, pinOf, stale>>,
         InHand(worker'[c]) <= InHand(worker[c]),
         NothingToChoose(c) \/ sess' = [sess EXCEPT ![c] = Enter(@, "choice")]
  PROVE  CalmSession(c) /\ sess'[c].est = sess[c].est
<1>t. sess \in [Calls -> Sessions] /\ sess[c] \in Sessions
  BY DEF Types
<1>i. InHand(worker[c]) \in Nat /\ InHand(worker'[c]) \in Nat /\ sess[c].fails \in Nat
      /\ sess[c].gen \in Nat
  BY <1>t DEF InHand, Sessions
<1>1. CASE NothingToChoose(c)
  <2>1. /\ Hangup({c})
        /\ sess'[c].in = IF sess[c].in = "open" THEN "closed" ELSE sess[c].in
        /\ sess'[c].state = "closed" /\ sess'[c].gen \in {sess[c].gen, sess[c].gen + 1}
        /\ sess'[c].user = sess[c].user /\ sess'[c].chosen = sess[c].chosen
        /\ sess'[c].auth = sess[c].auth /\ sess'[c].authPIN = sess[c].authPIN
        /\ sess'[c].lease = sess[c].lease /\ sess'[c].est = sess[c].est
        /\ sess'[c].fails = sess[c].fails
    BY <1>1, NothingOnly
  <2>2. shim'[c] = "over"
    BY <2>1, HangupOnly
  <2>3. sess'[c].gen >= sess[c].gen
        /\ sess'[c].fails + InHand(worker'[c]) <= sess[c].fails + InHand(worker[c])
    BY <2>1, <1>i
  <2> QED BY <2>1, <2>2, <2>3, SessionMoves
<1>2. CASE sess' = [sess EXCEPT ![c] = Enter(@, "choice")]
  <2>1. sess'[c] = Enter(sess[c], "choice")
    BY <1>2, <1>t
  <2>2. /\ sess'[c].in = sess[c].in
        /\ sess'[c].state = "choice" /\ sess'[c].gen \in {sess[c].gen, sess[c].gen + 1}
        /\ sess'[c].user = sess[c].user /\ sess'[c].chosen = sess[c].chosen
        /\ sess'[c].auth = sess[c].auth /\ sess'[c].authPIN = sess[c].authPIN
        /\ sess'[c].lease = sess[c].lease /\ sess'[c].est = sess[c].est
        /\ sess'[c].fails = sess[c].fails
    BY <2>1, <1>t, EnterOnly DEF States
  <2>3. sess'[c].gen >= sess[c].gen
        /\ sess'[c].fails + InHand(worker'[c]) <= sess[c].fails + InHand(worker[c])
    BY <2>2, <1>i
  <2> QED BY <2>2, <2>3, SessionMoves
<1> QED BY <1>1, <1>2

\* The steps of the worker that speak.
LEMMA WorkerSpeaksCalmly ==
  ASSUME Types, NEW c \in Calls, CallInv(c),
         WorkerBegins(c) \/ WorkerEnds(c) \/ WorkerSays(c) \/ WorkerMoves(c)
  PROVE  Calm(c)
<1>i. InHand(worker[c]) \in {0, 1}
  BY DEF InHand
<1>1. ASSUME WorkerBegins(c) PROVE Calm(c)
  <2>1. /\ worker[c].pc = "prompt" /\ GoesTo(c, "playing")
        /\ UNCHANGED <<shim, wire, queue, stop, sess, goodbye, hanging, task, leases, keys, pinOf,
                       stale>>
    BY <1>1 DEF WorkerBegins, At
  <2>2. sess[c].in # "none" /\ CalmShim(c)
    BY <2>1, Admitted, ShimSame
  <2>3. CalmWorker(c) /\ InHand(worker'[c]) = 0 /\ worker'[c].pc = "playing"
    BY <2>1, <2>2, GoesCalm
  <2>4. CalmSession(c)
    BY <2>1, <2>3, <1>i, SessionSame
  <2> QED BY <2>1, <2>2, <2>3, <2>4 DEF Calm, Watched, SomePlays
<1>2. ASSUME WorkerEnds(c) PROVE Calm(c)
  <2>1. /\ worker[c].pc = "playing" /\ EndMedia(c) /\ Rests(c)
        /\ UNCHANGED <<shim, wire, queue, stop, sess, goodbye, hanging, task, leases, keys, pinOf,
                       stale>>
    BY <1>2 DEF WorkerEnds, At
  <2>2. CalmWorker(c) /\ InHand(worker'[c]) = 0 /\ CalmShim(c)
    BY <2>1, RestsCalm, ShimSame
  <2>3. CalmSession(c)
    BY <2>1, <2>2, <1>i, SessionSame
  <2>4. Open(c) => timer'[c] \/ \E b \in Playing(c) : b # "worker"
    BY <2>1, PlayingIs, LastArms
  <2>5. Open(c) => timer'[c] \/ task[c] \in {"playing", "playingCode"} \/ goodbye[c] = "playing"
    BY <2>4, PlayingIs
  <2> QED BY <2>1, <2>2, <2>3, <2>5 DEF Calm, Watched, SomePlays
<1>3. ASSUME WorkerSays(c) PROVE Calm(c)
  <2>1. /\ worker[c].pc = "say"
        /\ UNCHANGED <<queue, stop, timer, goodbye, hanging, task, leases, keys, pinOf, stale>>
    BY <1>3 DEF WorkerSays, At
  <2>2. sess[c].in # "none"
    BY <2>1, Admitted
  <2>3. Watched(c) => Watched(c)'
    <3>1. worker[c].pc # "playing"
      BY <2>1
    <3> QED BY <2>1, <3>1, WatchedSame
  <2>4. CASE NothingToChoose(c) /\ Rests(c)
    <3>1. CalmWorker(c) /\ InHand(worker'[c]) = 0
      BY <2>1, <2>4, RestsCalm
    <3>2. CalmShim(c)
      BY <2>1, <2>4, ShimHung DEF NothingToChoose
    <3>3. CalmSession(c) /\ sess'[c].est = sess[c].est
      BY <2>1, <2>4, <3>1, <1>i, ChoicesCalmly
    <3> QED BY <2>1, <2>3, <3>1, <3>2, <3>3 DEF Calm
  <2>5. CASE GoesTo(c, "sayMenu") /\ UNCHANGED <<sess, shim, wire>>
    <3>1. CalmWorker(c) /\ InHand(worker'[c]) = 0 /\ CalmShim(c)
      BY <2>1, <2>2, <2>5, GoesCalm, ShimSame
    <3>2. CalmSession(c)
      BY <2>1, <2>5, <3>1, <1>i, SessionSame
    <3> QED BY <2>1, <2>3, <3>1, <3>2 DEF Calm
  <2> QED BY <1>3, <2>4, <2>5 DEF WorkerSays
<1>4. ASSUME WorkerMoves(c) PROVE Calm(c)
  <2>1. /\ worker[c].pc = "sayMenu" /\ GoesTo(c, "prompt")
        /\ sess' = [sess EXCEPT ![c] = Enter(@, "choice")]
        /\ UNCHANGED <<shim, wire, queue, stop, timer, goodbye, hanging, task, leases, keys, pinOf,
                       stale>>
    BY <1>4 DEF WorkerMoves, At
  <2>2. sess[c].in # "none" /\ CalmShim(c)
    BY <2>1, Admitted, ShimSame
  <2>3. CalmWorker(c) /\ InHand(worker'[c]) = 0
    BY <2>1, <2>2, GoesCalm
  <2>4. CalmSession(c)
    <3>1. InHand(worker'[c]) <= InHand(worker[c])
      BY <2>3, <1>i
    <3> QED BY <2>1, <3>1, ChoicesCalmly
  <2>5. Watched(c) => Watched(c)'
    <3>1. worker[c].pc # "playing"
      BY <2>1
    <3> QED BY <2>1, <3>1, WatchedSame
  <2> QED BY <2>1, <2>2, <2>3, <2>4, <2>5 DEF Calm
<1> QED BY <1>1, <1>2, <1>3, <1>4

\* The task speaks the welcome beside the worker.
LEMMA TaskCalmly ==
  ASSUME Types, NEW c \in Calls, CallInv(c), TaskStep(c)
  PROVE  Calm(c)
<1>t. sess[c].est \in BOOLEAN
      /\ task \in [Calls -> {"none", "say", "sayMenu", "prompt", "promptCode", "playing",
                             "playingCode", "ended"}]
      /\ InHand(worker[c]) \in Nat
      /\ hanging \in [Calls -> BOOLEAN]
  BY DEF Types, Sessions, InHand
<1>e. task[c] # "none" => sess[c].est
  BY DEF CallInv, Kept
<1>w. ASSUME worker' = worker PROVE CalmWorker(c) /\ InHand(worker'[c]) <= InHand(worker[c])
  BY <1>w, <1>t DEF CalmWorker
<1>1. ASSUME TaskSays(c) PROVE Calm(c)
  <2>1. /\ task[c] = "say"
        /\ UNCHANGED <<queue, worker, stop, timer, goodbye, hanging, leases, keys, pinOf, stale>>
    BY <1>1 DEF TaskSays
  <2>2. CalmWorker(c) /\ InHand(worker'[c]) <= InHand(worker[c]) /\ sess[c].est
    BY <2>1, <1>w, <1>e
  <2>3. Watched(c) => Watched(c)'
    BY <2>1, WatchedSame
  <2>4. CASE NothingToChoose(c)
    <3>1. CalmShim(c)
      BY <2>1, <2>4, ShimHung DEF NothingToChoose
    <3>2. CalmSession(c) /\ sess'[c].est = sess[c].est
      BY <2>1, <2>2, <2>4, ChoicesCalmly
    <3> QED BY <2>2, <2>3, <3>1, <3>2 DEF Calm
  <2>5. CASE UNCHANGED <<sess, shim, wire>>
    BY <2>1, <2>2, <2>3, <2>5, ShimSame, SessionSame DEF Calm
  <2> QED BY <1>1, <2>4, <2>5 DEF TaskSays
<1>2. ASSUME TaskMoves(c) PROVE Calm(c)
  <2>1. /\ task[c] = "sayMenu" /\ sess' = [sess EXCEPT ![c] = Enter(@, "choice")]
        /\ UNCHANGED <<shim, wire, queue, worker, stop, timer, goodbye, hanging, leases, keys,
                       pinOf, stale>>
    BY <1>2 DEF TaskMoves
  <2>2. CalmWorker(c) /\ InHand(worker'[c]) <= InHand(worker[c]) /\ sess[c].est
    BY <2>1, <1>w, <1>e
  <2>3. Watched(c) => Watched(c)'
    BY <2>1, WatchedSame
  <2>4. CalmSession(c) /\ sess'[c].est = sess[c].est
    BY <2>1, <2>2, ChoicesCalmly
  <2> QED BY <2>1, <2>2, <2>3, <2>4, ShimSame DEF Calm
<1>3. ASSUME TaskBegins(c) PROVE Calm(c)
  <2>1. /\ task[c] \in {"prompt", "promptCode"}
        /\ task' = [task EXCEPT ![c] = IF task[c] = "prompt" THEN "playing" ELSE "playingCode"]
        /\ UNCHANGED <<shim, wire, queue, worker, stop, sess, goodbye, hanging, leases, keys,
                       pinOf, stale>>
    BY <1>3 DEF TaskBegins, TaskGoes
  <2>2. CalmWorker(c) /\ InHand(worker'[c]) <= InHand(worker[c]) /\ sess[c].est
    BY <2>1, <1>w, <1>e
  <2>3. Watched(c)'
    <3>1. task'[c] \in {"playing", "playingCode"}
      BY <2>1, <1>t
    <3> QED BY <3>1 DEF Watched, SomePlays
  <2> QED BY <2>1, <2>2, <2>3, ShimSame, SessionSame DEF Calm
<1>4. ASSUME TaskEnds(c) PROVE Calm(c)
  <2>1. /\ task[c] = "playing" /\ EndMedia(c)
        /\ UNCHANGED <<shim, wire, queue, worker, stop, sess, goodbye, hanging, leases, keys,
                       pinOf, stale>>
    BY <1>4 DEF TaskEnds
  <2>2. CalmWorker(c) /\ InHand(worker'[c]) <= InHand(worker[c]) /\ sess[c].est
    BY <2>1, <1>w, <1>e
  <2>3. Open(c) => timer'[c] \/ \E b \in Playing(c) : b # "task"
    BY <2>1, PlayingIs, LastArms
  <2>4. Open(c) => Watched(c)'
    BY <2>1, <2>3, PlayingIs DEF Watched, SomePlays
  <2> QED BY <2>1, <2>2, <2>4, ShimSame, SessionSame DEF Calm
<1>5. ASSUME CodeEnds(c) PROVE Calm(c)
  <2>1. /\ task[c] = "playingCode"
        /\ UNCHANGED <<queue, worker, stop, sess, leases, goodbye, keys, pinOf, stale>>
    BY <1>5 DEF CodeEnds
  <2>2. CalmWorker(c) /\ InHand(worker'[c]) <= InHand(worker[c]) /\ sess[c].est
    BY <2>1, <1>w, <1>e
  <2>3. CalmSession(c)
    BY <2>1, <2>2, SessionSame
  <2>4. CASE Hangup({c})
    BY <2>1, <2>2, <2>3, <2>4, ShimHung DEF Calm
  <2>5. CASE hanging' = [hanging EXCEPT ![c] = TRUE] /\ UNCHANGED <<shim, wire>>
    <3>1. Watched(c)'
      BY <2>5, <1>t DEF Watched
    <3> QED BY <2>1, <2>2, <2>3, <2>5, <3>1, ShimSame DEF Calm
  <2> QED BY <1>5, <2>4, <2>5 DEF CodeEnds
<1> QED BY <1>1, <1>2, <1>3, <1>4, <1>5 DEF TaskStep

\* So does the timer, whose goodbye comes with a hang-up.
LEMMA TimerCalmly ==
  ASSUME Types, NEW c \in Calls, CallInv(c), TimerStep(c)
  PROVE  Calm(c)
<1>t. InHand(worker[c]) \in Nat /\ hanging \in [Calls -> BOOLEAN] /\ timer \in [Calls -> BOOLEAN]
      /\ goodbye \in [Calls -> {"none", "due", "playing"}]
  BY DEF Types, InHand
<1>1. TimerFires(c) \/ GoodbyeBegins(c) \/ GoodbyeEnds(c) =>
        UNCHANGED <<shim, wire, queue, worker, stop, sess, task, leases, keys, pinOf, stale>>
  BY DEF TimerFires, GoodbyeBegins, GoodbyeEnds
<1>2. TimerStep(c) => UNCHANGED <<queue, worker, stop, sess, task, leases, keys, pinOf, stale>>
  BY DEF TimerStep, TimerFires, GoodbyeBegins, GoodbyeEnds, DelayedHangup
<1>3. CalmWorker(c) /\ CalmSession(c)
  BY <1>2, <1>t, SessionSame DEF CalmWorker
<1>4. CASE TimerFires(c)
  <2>1. Open(c) => Watched(c)'
    BY <1>4, <1>t DEF TimerFires, Watched
  <2> QED BY <1>1, <1>3, <1>4, <2>1, ShimSame DEF Calm
<1>5. CASE GoodbyeBegins(c)
  <2>1. Watched(c)'
    BY <1>5, <1>t DEF GoodbyeBegins, Watched, SomePlays
  <2> QED BY <1>1, <1>3, <1>5, <2>1, ShimSame DEF Calm
<1>6. CASE GoodbyeEnds(c)
  <2>1. goodbye[c] = "playing" /\ EndMedia(c) /\ UNCHANGED <<hanging, worker, task>>
    BY <1>6 DEF GoodbyeEnds
  <2>2. Open(c) => timer'[c] \/ \E b \in Playing(c) : b # "goodbye"
    BY <2>1, PlayingIs, LastArms
  <2>3. Open(c) => Watched(c)'
    BY <2>1, <2>2, PlayingIs DEF Watched, SomePlays
  <2> QED BY <1>1, <1>3, <1>6, <2>3, ShimSame DEF Calm
<1>7. CASE DelayedHangup(c)
  BY <1>2, <1>3, <1>7, ShimHung DEF DelayedHangup, Calm
<1> QED BY <1>4, <1>5, <1>6, <1>7 DEF TimerStep

\* Everything of a call.
Frame(c) ==
  /\ shim'[c] = shim[c] /\ wire'[c] = wire[c] /\ queue'[c] = queue[c] /\ worker'[c] = worker[c]
  /\ stop'[c] = stop[c] /\ sess'[c] = sess[c] /\ timer'[c] = timer[c] /\ goodbye'[c] = goodbye[c]
  /\ hanging'[c] = hanging[c] /\ task'[c] = task[c] /\ leases'[c] = leases[c] /\ keys'[c] = keys[c]

\* Nothing of the call changes: calls do not touch each other.
LEMMA FrameCalm ==
  ASSUME Types, NEW c \in Calls, Frame(c), UNCHANGED <<pinOf, stale>>
  PROVE  Calm(c)
<1>1. CalmShim(c) /\ CalmWorker(c)
  BY ShimSame DEF Frame, CalmWorker
<1>2. InHand(worker'[c]) <= InHand(worker[c])
  <2>1. InHand(worker[c]) \in Nat
    BY DEF InHand
  <2> QED BY <2>1 DEF Frame
<1>3. CalmSession(c)
  BY <1>2, SessionSame DEF Frame
<1>4. Watched(c) => Watched(c)'
  BY DEF Frame, Watched, SomePlays
<1> QED BY <1>1, <1>3, <1>4 DEF Calm, Frame

\* Hanging up one call leaves the others alone.
LEMMA HangupFrame ==
  ASSUME NEW c \in Calls, NEW d \in Calls \ {c}, Hangup({c})
  PROVE  shim'[d] = shim[d] /\ wire'[d] = wire[d]
BY DEF Hangup

\* A step of one call leaves everything of the others alone.
LEMMA OtherCalls ==
  ASSUME Types, NEW c \in Calls, CallStep(c), NEW d \in Calls \ {c}
  PROVE  Frame(d) /\ UNCHANGED <<pinOf, stale>>
<1>t. /\ shim \in [Calls -> {"off", "ringing", "up", "over"}] /\ wire \in [Calls -> Seq(Wires)]
      /\ queue \in [Calls -> Seq(Jobs)] /\ worker \in [Calls -> Workers]
      /\ stop \in [Calls -> BOOLEAN] /\ sess \in [Calls -> Sessions] /\ timer \in [Calls -> BOOLEAN]
      /\ goodbye \in [Calls -> {"none", "due", "playing"}] /\ hanging \in [Calls -> BOOLEAN]
      /\ task \in [Calls -> {"none", "say", "sayMenu", "prompt", "promptCode", "playing",
                             "playingCode", "ended"}]
      /\ leases \in [Calls -> Nat] /\ keys \in [Calls -> 0..MaxKeys]
  BY DEF Types
<1>a. Arm(c) \/ EndMedia(c) \/ Disarm(c) => timer'[d] = timer[d]
  BY <1>t DEF Arm, EndMedia, Disarm
<1>g. \A p : GoesTo(c, p) \/ Rests(c) => worker'[d] = worker[d]
  BY <1>t DEF GoesTo, Rests
<1>h. Hangup({c}) => shim'[d] = shim[d] /\ wire'[d] = wire[d]
  BY HangupFrame
<1>e. \A j : Enqueue(c, j) => queue'[d] = queue[d] /\ worker'[d] = worker[d]
  BY <1>t DEF Enqueue
<1>n. NothingToChoose(c) => sess'[d] = sess[d] /\ shim'[d] = shim[d] /\ wire'[d] = wire[d]
  BY <1>h, NothingOnly
<1>1. CallComes(c) \/ FarEndCloses(c) \/ Answer(c) => Frame(d) /\ UNCHANGED <<pinOf, stale>>
  BY <1>t, <1>g DEF CallComes, FarEndCloses, Answer, Frame
<1>2. ASSUME NEW k \in Pressed, PressKey(c, k) PROVE Frame(d) /\ UNCHANGED <<pinOf, stale>>
  BY <1>2, <1>t, <1>e DEF PressKey, Frame
<1>3. ReadEvent(c) => Frame(d) /\ UNCHANGED <<pinOf, stale>>
  BY <1>t, <1>e DEF ReadEvent, Frame
<1>4. ReadClosed(c) => Frame(d) /\ UNCHANGED <<pinOf, stale>>
  <2>1. ASSUME ReadClosed(c) PROVE Frame(d) /\ UNCHANGED <<pinOf, stale>>
    <3>1. timer'[d] = timer[d]
      <4>1. timer'[d] = (timer[d] /\ d \notin {x \in {c} : InMap(x)})
        BY <2>1 DEF ReadClosed, CloseCall, Remove
      <4>2. d \notin {x \in {c} : InMap(x)} /\ timer[d] \in BOOLEAN
        BY <1>t
      <4> QED BY <4>1, <4>2
    <3>2. sess'[d] = sess[d] /\ leases'[d] = leases[d]
      BY <2>1 DEF ReadClosed, CloseCall, Remove
    <3>3. wire'[d] = wire[d] /\ stop'[d] = stop[d]
      BY <2>1, <1>t DEF ReadClosed
    <3> QED BY <2>1, <3>1, <3>2, <3>3 DEF ReadClosed, Frame
  <2> QED BY <2>1
<1>5. StopsIdle(c) \/ HandleStopped(c) \/ AdmitRefuses(c) \/ IgnoreKey(c) \/ ChoiceKey(c)
        \/ WorkerBegins(c) \/ WorkerEnds(c) => Frame(d) /\ UNCHANGED <<pinOf, stale>>
  BY <1>a, <1>g, <1>h DEF StopsIdle, HandleStopped, AdmitRefuses, IgnoreKey, ChoiceKey,
    WorkerBegins, WorkerEnds, Frame
<1>6. TakeJob(c) => Frame(d) /\ UNCHANGED <<pinOf, stale>>
  BY <1>t DEF TakeJob, Frame
<1>7. Admit(c) \/ Activate(c) => Frame(d) /\ UNCHANGED <<pinOf, stale>>
  BY <1>t, <1>g DEF Admit, Activate, Frame
<1>8. OnEstablished(c) => Frame(d) /\ UNCHANGED <<pinOf, stale>>
  BY <1>t, <1>g DEF OnEstablished, Frame
<1>9. MenuKey(c) \/ TypeDigit(c) => Frame(d) /\ UNCHANGED <<pinOf, stale>>
  BY <1>t, <1>a, <1>g DEF MenuKey, TypeDigit, Frame
<1>10. Choose(c) => Frame(d) /\ UNCHANGED <<pinOf, stale>>
  BY <1>t, <1>g DEF Choose, Frame
<1>11. SubmitPIN(c) \/ LookupPIN(c) => Frame(d) /\ UNCHANGED <<pinOf, stale>>
  BY <1>t, <1>a, <1>g DEF SubmitPIN, LookupPIN, Frame
<1>12. CheckPIN(c) => Frame(d) /\ UNCHANGED <<pinOf, stale>>
  BY <1>t, <1>g, <1>h DEF CheckPIN, Frame
<1>13. WorkerSays(c) \/ WorkerMoves(c) => Frame(d) /\ UNCHANGED <<pinOf, stale>>
  BY <1>t, <1>g, <1>n DEF WorkerSays, WorkerMoves, Frame
<1>14. TaskStep(c) => Frame(d) /\ UNCHANGED <<pinOf, stale>>
  <2>1. \A p : TaskGoes(c, p) => task'[d] = task[d]
    BY <1>t DEF TaskGoes
  <2>2. TaskSays(c) \/ TaskMoves(c) => Frame(d) /\ UNCHANGED <<pinOf, stale>>
    BY <1>t, <1>n, <2>1 DEF TaskSays, TaskMoves, Frame
  <2>3. TaskBegins(c) \/ TaskEnds(c) => Frame(d) /\ UNCHANGED <<pinOf, stale>>
    BY <1>a, <2>1 DEF TaskBegins, TaskEnds, Frame
  <2>4. CodeEnds(c) => Frame(d) /\ UNCHANGED <<pinOf, stale>>
    BY <1>t, <1>a, <1>h, <2>1 DEF CodeEnds, Frame
  <2> QED BY <2>2, <2>3, <2>4 DEF TaskStep
<1>15. TimerStep(c) => Frame(d) /\ UNCHANGED <<pinOf, stale>>
  BY <1>t, <1>a, <1>h DEF TimerStep, TimerFires, GoodbyeBegins, GoodbyeEnds, DelayedHangup, Frame
<1> QED BY <1>1, <1>2, <1>3, <1>4, <1>5, <1>6, <1>7, <1>8, <1>9, <1>10, <1>11, <1>12, <1>13,
  <1>14, <1>15 DEF CallStep, WorkerStep, ReaderStep

\* The far end, and the reader that hears it, end a call that is over.
LEMMA EndsCalmly ==
  ASSUME Types, NEW c \in Calls, CallInv(c), FarEndCloses(c) \/ ReadClosed(c)
  PROVE  Calm(c)
<1>t. /\ shim \in [Calls -> {"off", "ringing", "up", "over"}] /\ wire \in [Calls -> Seq(Wires)]
      /\ wire[c] \in Seq(Wires) /\ sess[c] \in Sessions /\ leases[c] \in Nat
      /\ sess[c].gen \in Nat /\ sess[c].fails \in Nat /\ sess[c].lease \in {0, 1}
      /\ InHand(worker[c]) \in Nat
  BY DEF Types, Sessions, InHand
<1>1. ASSUME FarEndCloses(c) PROVE Calm(c)
  <2>1. /\ shim'[c] = "over" /\ wire'[c] = Append(wire[c], "closed")
        /\ UNCHANGED <<queue, worker, stop, sess, timer, goodbye, hanging, task, leases, keys,
                       pinOf, stale>>
    BY <1>1, <1>t DEF FarEndCloses
  <2>2. "closed" \in Wires
    BY DEF Wires
  <2>3. \A i \in DOMAIN wire'[c] : wire'[c][i] = "incoming" =>
          i \in DOMAIN wire[c] /\ wire[c][i] = "incoming"
    BY <2>1, <2>2, <1>t, Appended
  <2>4. CalmShim(c)
    BY <2>1, <2>3 DEF CalmShim
  <2>5. CalmWorker(c) /\ CalmSession(c)
    BY <2>1, <1>t, SessionSame DEF CalmWorker
  <2> QED BY <2>1, <2>4, <2>5 DEF Calm
<1>2. ASSUME ReadClosed(c) PROVE Calm(c)
  <2>1. /\ wire[c] # <<>> /\ Head(wire[c]) \in {"closed", "error"} /\ wire'[c] = Tail(wire[c])
        /\ Remove({x \in {c} : InMap(x)})
        /\ UNCHANGED <<shim, queue, worker, goodbye, hanging, task, keys, pinOf, stale>>
    BY <1>2, <1>t DEF ReadClosed, CloseCall
  <2>2. shim'[c] = "over"
    <3>1. 1 \in DOMAIN wire[c] /\ Head(wire[c]) = wire[c][1]
      BY <2>1, <1>t, Taken
    <3> QED BY <2>1, <3>1 DEF CallInv, Ended
  <2>3. \A i \in DOMAIN wire'[c] : wire'[c][i] # "incoming"
    <3>1. ASSUME NEW i \in DOMAIN Tail(wire[c]) PROVE Tail(wire[c])[i] # "incoming"
      <4>1. i + 1 \in DOMAIN wire[c] /\ Tail(wire[c])[i] = wire[c][i + 1] /\ i \in Nat \ {0}
        BY <2>1, <1>t, Taken
      <4>2. i + 1 # 1
        BY <4>1
      <4> QED BY <4>1, <4>2 DEF CallInv, First
    <3> QED BY <2>1, <3>1
  <2>4. CalmShim(c)
    BY <2>1, <2>2, <2>3 DEF CalmShim
  <2>5. CASE InMap(c)
    <3>1. /\ sess'[c] = [sess[c] EXCEPT !.in = "gone", !.lease = 0]
          /\ leases'[c] = leases[c] - sess[c].lease
      BY <2>1, <2>5 DEF Remove
    <3>2. /\ sess'[c].in = "gone" /\ sess'[c].est = sess[c].est /\ sess'[c].gen = sess[c].gen
          /\ sess'[c].auth = sess[c].auth /\ sess'[c].authPIN = sess[c].authPIN
          /\ sess'[c].user = sess[c].user /\ sess'[c].chosen = sess[c].chosen
          /\ sess'[c].state = sess[c].state /\ sess'[c].lease = 0
          /\ sess'[c].fails = sess[c].fails
      BY <3>1, <1>t DEF Sessions
    <3>3. leases'[c] - sess'[c].lease = leases[c] - sess[c].lease
      BY <3>1, <3>2, <1>t
    <3>4. SameCaller(c)
      BY <3>2, <3>3 DEF SameCaller, Open
    <3>5. CalmSession(c)
      BY <2>1, <2>2, <2>5, <3>2, <3>4, <1>t DEF CalmSession, InMap
    <3> QED BY <2>1, <2>2, <2>4, <3>5 DEF Calm, CalmWorker
  <2>6. CASE ~InMap(c)
    <3>1. sess'[c] = sess[c] /\ leases'[c] = leases[c]
      BY <2>1, <2>6 DEF Remove
    <3>2. CalmSession(c)
      BY <2>1, <3>1, <1>t, SessionSame
    <3> QED BY <2>1, <2>2, <2>4, <3>2 DEF Calm, CalmWorker
  <2> QED BY <2>5, <2>6
<1> QED BY <1>1, <1>2

\* A changed PIN leaves everybody where he is; the sessions it ends end calmly.
LEMMA WebCalmly ==
  ASSUME Types, NEW c \in Calls, CallInv(c), \A d \in Calls : Mine(d),
         NEW u \in Users, ChangePIN(u) \/ Invalidate(u)
  PROVE  Calm(c)
<1>t. /\ sess[c] \in Sessions /\ leases[c] \in Nat /\ InHand(worker[c]) \in Nat
      /\ sess[c].gen \in Nat /\ sess[c].fails \in Nat /\ sess[c].lease \in {0, 1}
      /\ pinOf \in [Users -> {1, 2}] /\ sess[c].user \in Users
  BY DEF Types, Sessions, InHand
<1>a. ASSUME sess'[c] = sess[c], leases'[c] = leases[c], worker' = worker,
             \A pin \in 0..2 : Open(c) /\ InForce(pin, sess[c].user) =>
               pin = pinOf'[sess[c].user] \/ sess[c].user \in stale'
      PROVE  CalmWorker(c) /\ CalmSession(c)
  <2>1. SameCaller(c)
    BY <1>a DEF SameCaller, InForce, Open
  <2>2. /\ sess'[c].gen >= sess[c].gen
        /\ sess'[c].fails + InHand(worker'[c]) <= sess[c].fails + InHand(worker[c])
    BY <1>a, <1>t
  <2> QED BY <1>a, <2>1, <2>2 DEF CalmWorker, CalmSession
<1>1. ASSUME ChangePIN(u) PROVE Calm(c)
  <2>1. /\ pinOf' = [pinOf EXCEPT ![u] = 2] /\ stale' = stale \cup {u}
        /\ UNCHANGED <<shim, wire, queue, worker, stop, sess, timer, goodbye, hanging, task,
                       leases, keys>>
    BY <1>1 DEF ChangePIN
  <2>2. \A pin \in 0..2 : InForce(pin, sess[c].user) =>
          pin = pinOf'[sess[c].user] \/ sess[c].user \in stale'
    BY <2>1, <1>t DEF InForce
  <2>3. CalmWorker(c) /\ CalmSession(c)
    BY <1>a, <2>1, <2>2
  <2>4. Watched(c) => Watched(c)'
    BY <2>1, WatchedSame
  <2> QED BY <2>1, <2>3, <2>4, ShimSame DEF Calm
<1>2. ASSUME Invalidate(u) PROVE Calm(c)
  <2> DEFINE S == SessionsOf(u)
  <2>1. /\ stale' = stale \ {u} /\ Remove(S) /\ Hangup(S) /\ S \in SUBSET Calls
        /\ UNCHANGED <<queue, worker, stop, goodbye, hanging, task, keys, pinOf>>
    BY <1>2 DEF Invalidate, SessionsOf
  <2>2. c \in S <=> InMap(c) /\ sess[c].user = u
    BY DEF SessionsOf
  <2>w. wire[c] \in Seq(Wires)
    BY DEF Types
  <2> HIDE DEF S
  <2>3. CASE c \in S
    <3>1. /\ sess'[c] = [sess[c] EXCEPT !.in = "gone", !.lease = 0]
          /\ leases'[c] = leases[c] - sess[c].lease /\ shim'[c] = "over"
          /\ \E x \in {"closed", "error"} : wire'[c] = Append(wire[c], x)
      <4>1. /\ sess'[c] = [sess[c] EXCEPT !.in = "gone", !.lease = 0]
            /\ leases'[c] = leases[c] - sess[c].lease
        BY <2>1, <2>3 DEF Remove
      <4>2. shim'[c] = "over" /\ \E x \in {"closed", "error"} : wire'[c] = Append(wire[c], x)
        BY <2>1, <2>3 DEF Hangup
      <4> QED BY <4>1, <4>2
    <3>2. /\ sess'[c].in = "gone" /\ sess'[c].est = sess[c].est /\ sess'[c].gen = sess[c].gen
          /\ sess'[c].auth = sess[c].auth /\ sess'[c].authPIN = sess[c].authPIN
          /\ sess'[c].user = sess[c].user /\ sess'[c].chosen = sess[c].chosen
          /\ sess'[c].state = sess[c].state /\ sess'[c].lease = 0
          /\ sess'[c].fails = sess[c].fails
      BY <3>1, <1>t DEF Sessions
    <3>3. leases'[c] - sess'[c].lease = leases[c] - sess[c].lease
      BY <3>1, <3>2, <1>t
    <3>4. SameCaller(c)
      BY <3>2, <3>3 DEF SameCaller, Open
    <3>5. CalmSession(c)
      BY <2>1, <2>2, <2>3, <3>1, <3>2, <3>4, <1>t DEF CalmSession, InMap
    <3>6. CalmShim(c)
      <4>1. PICK x \in {"closed", "error"} : wire'[c] = Append(wire[c], x)
        BY <3>1
      <4>2. x \in Wires
        BY DEF Wires
      <4>3. \A i \in DOMAIN wire'[c] : wire'[c][i] = "incoming" =>
              i \in DOMAIN wire[c] /\ wire[c][i] = "incoming"
        BY <4>1, <4>2, <2>w, Appended
      <4> QED BY <2>1, <3>1, <4>3 DEF CalmShim
    <3> QED BY <2>1, <3>1, <3>2, <3>5, <3>6 DEF Calm, CalmWorker
  <2>4. CASE c \notin S
    <3>1. /\ sess'[c] = sess[c] /\ leases'[c] = leases[c] /\ timer'[c] = timer[c]
          /\ shim'[c] = shim[c] /\ wire'[c] = wire[c]
      BY <2>1, <2>4, RemoveOnly, HangupOnly DEF Mine
    <3>2. \A pin \in 0..2 : Open(c) /\ InForce(pin, sess[c].user) =>
            pin = pinOf'[sess[c].user] \/ sess[c].user \in stale'
      BY <2>1, <2>2, <2>4, <1>t DEF InForce, Open, InMap
    <3>3. CalmWorker(c) /\ CalmSession(c)
      BY <1>a, <2>1, <3>1, <3>2
    <3>4. Watched(c) => Watched(c)'
      BY <2>1, <3>1, WatchedSame
    <3> QED BY <2>1, <3>1, <3>3, <3>4, ShimSame DEF Calm
  <2> QED BY <2>3, <2>4
<1> QED BY <1>1, <1>2

-----------------------------------------------------------------------------
\* The other steps.  Where the session stays, so do its leases and its caller.
LEMMA SessionKept ==
  ASSUME NEW c \in Calls, CallInv(c), sess'[c] = sess[c], leases'[c] = leases[c],
         UNCHANGED <<pinOf, stale>>,
         \/ worker'[c] = worker[c] \/ worker'[c].pc \in {"wait", "handle"}
         \/ worker[c].pc = "answer" /\ worker'[c].pc = "activate"
  PROVE  Leased(c)' /\ Signed(c)'
<1>1. Leased(c) /\ Signed(c)
  BY DEF CallInv
<1>2. Leased(c)'
  BY <1>1 DEF Leased
<1>3. Signed(c)'
  BY <1>1 DEF Signed, InForce, Open
<1> QED BY <1>2, <1>3

\* Alive holds as before where the call and who watches it are left alone.
LEMMA AliveKept ==
  ASSUME NEW c \in Calls, CallInv(c), sess'[c] = sess[c], shim'[c] = shim[c],
         timer'[c] = timer[c], hanging'[c] = hanging[c], task'[c] = task[c],
         goodbye'[c] = goodbye[c], worker'[c] = worker[c] \/
           (worker[c].pc \in {"none", "wait"} /\ worker'[c].pc \in {"wait", "handle"})
  PROVE  Alive(c)'
<1>1. Alive(c)
  BY DEF CallInv
<1>2. Open(c)' <=> Open(c)
  BY DEF Open
<1>3. Watched(c) => Watched(c)'
  BY DEF Watched, SomePlays
<1> QED BY <1>1, <1>2, <1>3 DEF Alive

\* A call begins with an empty queue.
LEMMA CallComesKeeps ==
  ASSUME Types, NEW c \in Calls, CallInv(c), CallComes(c)
  PROVE  CallInv(c)'
<1>1. /\ shim[c] = "off" /\ shim'[c] = "ringing" /\ wire'[c] = Append(wire[c], "incoming")
      /\ UNCHANGED <<queue, worker, stop, sess, timer, goodbye, hanging, task, leases, keys,
                     pinOf, stale>>
  BY DEF CallComes, Types
<1>2. /\ wire[c] = <<>> /\ queue[c] = <<>> /\ worker[c].pc = "none" /\ sess[c].in = "none"
      /\ First(c)
  BY <1>1 DEF CallInv, First
<1>3. wire'[c] = <<"incoming">>
  BY <1>1, <1>2
<1>4. DOMAIN wire'[c] = {1} /\ wire'[c][1] = "incoming"
  BY <1>3
<1>5. First(c)'
  BY <1>1, <1>2, <1>4 DEF First
<1>6. Ended(c)'
  BY <1>1, <1>2, <1>4 DEF Ended, CallInv
<1>7. Alive(c)'
  BY <1>1, <1>2 DEF Alive
<1>8. Kept(c)'
  BY <1>1, <1>2 DEF Kept, Open, CallInv
<1>9. Leased(c)' /\ Signed(c)'
  BY <1>1, SessionKept
<1>10. Stamped(c)' /\ Counted(c)'
  BY <1>1 DEF CallInv, Stamped, StampedJob, Counted
<1> QED BY <1>5, <1>6, <1>7, <1>8, <1>9, <1>10 DEF CallInv

\* An answered call is established before its shim says anything else.
LEMMA AnswerKeeps ==
  ASSUME Types, Types', NEW c \in Calls, CallInv(c), Answer(c)
  PROVE  CallInv(c)'
<1>t. /\ wire \in [Calls -> Seq(Wires)] /\ wire[c] \in Seq(Wires)
      /\ shim \in [Calls -> {"off", "ringing", "up", "over"}] /\ InHand(worker[c]) \in Nat
  BY DEF Types, InHand
<1>1. /\ worker[c].pc = "answer" /\ GoesTo(c, "activate")
      /\ shim'[c] = (IF shim[c] = "ringing" THEN "up" ELSE shim[c])
      /\ wire'[c] = Append(wire[c], IF shim[c] = "ringing" THEN "established" ELSE "error")
      /\ UNCHANGED <<queue, stop, sess, timer, goodbye, hanging, task, leases, keys, pinOf, stale>>
  BY <1>t DEF Answer, At
<1>2. /\ worker'[c].pc = "activate" /\ InHand(worker'[c]) = 0 /\ InHand(worker[c]) = 0
      /\ sess[c].in # "none"
  BY <1>1, GoesToOnly, Admitted DEF WorkerPC, InHand
<1>3. "established" \in Wires /\ "error" \in Wires
  BY DEF Wires
<1>4. CASE shim[c] = "ringing"
  <2>1. shim'[c] = "up" /\ wire'[c] = Append(wire[c], "established") /\ ~stop[c]
    BY <1>1, <1>4 DEF CallInv, Ended
  <2>2. /\ \A i \in DOMAIN wire'[c] :
             (i \in DOMAIN wire[c] /\ wire'[c][i] = wire[c][i]) \/ wire'[c][i] = "established"
        /\ \E i \in DOMAIN wire'[c] : wire'[c][i] = "established"
    BY <2>1, <1>t, <1>3, Appended
  <2>3. First(c)'
    <3>1. First(c)
      BY DEF CallInv
    <3>2. \A i \in DOMAIN wire'[c] : wire'[c][i] # "incoming"
      BY <3>1, <2>2, <1>1 DEF First
    <3>3. \A i \in DOMAIN queue[c] : queue[c][i].kind # "incoming"
      BY <3>1, <1>1 DEF First
    <3> QED BY <3>2, <3>3, <2>1, <1>1, <1>2 DEF First
  <2>4. Ended(c)'
    <3>1. \A i \in DOMAIN wire'[c] : wire'[c][i] \notin {"closed", "error"}
      BY <2>2, <1>4 DEF CallInv, Ended
    <3> QED BY <3>1, <2>1, <1>1, <1>2 DEF Ended
  <2>5. Alive(c)'
    <3>1. Open(c) /\ Watched(c)
      BY <1>1, <1>4 DEF CallInv, Alive
    <3>2. Open(c)' /\ Watched(c)'
      BY <3>1, <1>1 DEF Open, Watched, SomePlays
    <3> QED BY <3>2 DEF Alive
  <2>6. Kept(c)'
    BY <2>2, <1>1 DEF CallInv, Kept
  <2>7. Leased(c)' /\ Signed(c)'
    BY <1>1, <1>2, SessionKept
  <2>8. Stamped(c)' /\ Counted(c)'
    BY <1>1, <1>2 DEF CallInv, Stamped, StampedJob, Counted
  <2> QED BY <2>3, <2>4, <2>5, <2>6, <2>7, <2>8 DEF CallInv
<1>5. CASE shim[c] # "ringing"
  <2>1. shim'[c] = "over" /\ wire'[c] = Append(wire[c], "error")
    BY <1>1, <1>5 DEF CallInv, Ended
  <2>2. \A i \in DOMAIN wire'[c] : wire'[c][i] = "incoming" =>
          i \in DOMAIN wire[c] /\ wire[c][i] = "incoming"
    BY <2>1, <1>t, <1>3, Appended
  <2>3. CalmShim(c)
    BY <2>1, <2>2, <1>1 DEF CalmShim
  <2>4. CalmWorker(c)
    BY <1>1, <1>2 DEF CalmWorker, Checks, CallInv, Leased
  <2>5. CalmSession(c)
    BY <1>1, <1>2, SessionSame
  <2>6. Calm(c)
    BY <1>1, <2>1, <2>3, <2>4, <2>5 DEF Calm
  <2> QED BY <2>6, CalmKeeps
<1> QED BY <1>4, <1>5

\* An admission finds no session, no key and no lease.
LEMMA AdmitKeeps ==
  ASSUME Types, NEW c \in Calls, CallInv(c), Admit(c)
  PROVE  CallInv(c)'
<1>t. /\ sess \in [Calls -> Sessions] /\ timer \in [Calls -> BOOLEAN] /\ sess[c].fails \in Nat
      /\ queue[c] \in Seq(Jobs) /\ keys[c] \in Nat /\ shim[c] \in {"off", "ringing", "up", "over"}
  BY DEF Types, Sessions
<1>1. /\ worker[c].pc = "handle" /\ worker[c].job.kind = "incoming" /\ stop[c] = FALSE
      /\ GoesTo(c, "answer") /\ timer' = [timer EXCEPT ![c] = TRUE]
      /\ UNCHANGED <<shim, wire, queue, stop, goodbye, hanging, task, leases, keys, pinOf, stale>>
  BY DEF Admit, Handles, At, Types
<1>2. worker'[c].pc = "answer" /\ InHand(worker'[c]) = 0 /\ timer'[c] = TRUE
  <2>1. worker'[c].pc = "answer"
    BY <1>1, GoesToOnly DEF WorkerPC
  <2>2. timer'[c] = TRUE
    BY <1>1, <1>t
  <2> QED BY <2>1, <2>2 DEF InHand
<1>3. PICK s \in Admissions : sess'[c] = s
  BY <1>t DEF Admit
<1>4. /\ s.in = "open" /\ s.est = FALSE /\ s.auth = FALSE /\ s.fails = 0 /\ s.lease = 0
      /\ s.chosen = FALSE /\ s.state # "main"
  <2>1. CASE \E u \in Users : s = [NoSession EXCEPT !.in = "open", !.state = "verify", !.user = u,
                                                 !.routes = <<u>>]
    BY <2>1 DEF NoSession
  <2>2. CASE \E u \in Users : s = [NoSession EXCEPT !.in = "open", !.user = u, !.routes = <<u>>]
    BY <2>2 DEF NoSession
  <2>3. CASE \E q \in Users \X Users : s = [NoSession EXCEPT !.in = "open", !.state = "choice",
                                                            !.user = q[1], !.routes = q]
    BY <2>3 DEF NoSession
  <2> QED BY <2>1, <2>2, <2>3 DEF Admissions
<1>5. First(c) /\ sess[c].in = "none"
  BY <1>1 DEF CallInv, First
<1>6. /\ shim[c] \in {"ringing", "over"} /\ leases[c] = 0 /\ sess[c].est = FALSE
      /\ \A i \in DOMAIN queue[c] : queue[c][i].kind \notin {"incoming", "key"}
      /\ \A i \in DOMAIN wire[c] : wire[c][i] # "incoming"
  BY <1>1, <1>5, <1>t DEF First
<1>7. First(c)'
  BY <1>1, <1>2, <1>3, <1>4, <1>6 DEF First
<1>8. Ended(c)'
  BY <1>1, <1>2, <1>6 DEF CallInv, Ended
<1>9. Alive(c)'
  BY <1>2, <1>3, <1>4 DEF Alive, Open, Watched
<1>10. Kept(c)'
  BY <1>1, <1>3, <1>4, <1>6 DEF CallInv, Kept
<1>11. Leased(c)'
  BY <1>1, <1>3, <1>4, <1>6 DEF Leased
<1>12. Signed(c)'
  BY <1>2, <1>3, <1>4 DEF Signed
<1>13. Stamped(c)'
  BY <1>1, <1>2, <1>6 DEF Stamped, StampedJob
<1>14. Counted(c)'
  <2>1. KeysIn(queue[c]) \in Nat /\ InHand(worker[c]) \in Nat
    BY <1>t, KeysType DEF InHand
  <2>2. sess[c].fails + KeysIn(queue[c]) + InHand(worker[c]) <= keys[c]
    BY DEF CallInv, Counted
  <2>3. 0 + KeysIn(queue[c]) + 0 <= keys[c]
    BY <2>1, <2>2, <1>t
  <2> QED BY <2>3, <1>1, <1>2, <1>3, <1>4 DEF Counted
<1> QED BY <1>7, <1>8, <1>9, <1>10, <1>11, <1>12, <1>13, <1>14 DEF CallInv

\* What a key does to a queue that has no room: no event is lost.
LEMMA RecycledOnly ==
  ASSUME NEW q \in Seq(Jobs), NEW job \in Jobs, q # <<>>, job.kind = "key"
  PROVE  /\ \A i \in DOMAIN Recycle(q, job) : Recycle(q, job)[i] = job
              \/ \E j \in DOMAIN q : Recycle(q, job)[i] = q[j]
         /\ \A j \in DOMAIN q : q[j].kind # "key" =>
              \E i \in DOMAIN Recycle(q, job) : Recycle(q, job)[i] = q[j]
         /\ KeysIn(Recycle(q, job)) <= KeysIn(q) + 1
         /\ Len(Recycle(q, job)) = Len(q)
<1>1. /\ Tail(q) \in Seq(Jobs) /\ Head(q) \in Jobs /\ 1 \in DOMAIN q /\ Head(q) = q[1]
      /\ Len(Tail(q)) = Len(q) - 1 /\ Len(q) \in Nat
      /\ \A i \in DOMAIN Tail(q) : i + 1 \in DOMAIN q /\ Tail(q)[i] = q[i + 1]
      /\ \A i \in DOMAIN q \ {1} : i - 1 \in DOMAIN Tail(q) /\ Tail(q)[i - 1] = q[i]
  BY Taken
<1>k. KeysIn(q) \in Nat /\ KeysIn(Tail(q)) \in Nat
  BY <1>1, KeysType
<1> DEFINE t == Tail(q)
<1>2. ASSUME NEW x \in {job, Head(q)}
      PROVE  /\ \A i \in DOMAIN Append(t, x) :
                  (i \in DOMAIN t /\ Append(t, x)[i] = t[i]) \/ Append(t, x)[i] = x
             /\ \A i \in DOMAIN t : i \in DOMAIN Append(t, x) /\ Append(t, x)[i] = t[i]
             /\ \E i \in DOMAIN Append(t, x) : Append(t, x)[i] = x
             /\ Len(Append(t, x)) = Len(t) + 1
             /\ KeysIn(Append(t, x)) = IF x.kind = "key" THEN KeysIn(t) + 1 ELSE KeysIn(t)
  <2>1. x \in Jobs /\ t \in Seq(Jobs)
    BY <1>1
  <2> HIDE DEF t
  <2>2. KeysIn(Append(t, x)) = IF x.kind = "key" THEN KeysIn(t) + 1 ELSE KeysIn(t)
    BY <2>1, KeysAppended
  <2> QED BY <2>1, <2>2, Appended
<1>3. IF Head(q).kind = "key" THEN KeysIn(t) + 1 <= KeysIn(q) ELSE KeysIn(t) <= KeysIn(q)
  BY KeysTaken
<1>4. CASE Head(q).kind = "key"
  <2>1. Recycle(q, job) = Append(t, job)
    BY <1>4 DEF Recycle
  <2> HIDE DEF t
  <2>2. \A i \in DOMAIN Append(t, job) : Append(t, job)[i] = job \/ \E j \in DOMAIN q : Append(t, job)[i] = q[j]
    BY <1>1, <1>2 DEF t
  <2>3. ASSUME NEW j \in DOMAIN q, q[j].kind # "key"
        PROVE  \E i \in DOMAIN Append(t, job) : Append(t, job)[i] = q[j]
    <3>1. j \in DOMAIN q \ {1}
      BY <2>3, <1>1, <1>4
    <3>2. j - 1 \in DOMAIN t /\ t[j - 1] = q[j]
      BY <3>1, <1>1 DEF t
    <3> QED BY <3>2, <1>2
  <2>4. KeysIn(Append(t, job)) <= KeysIn(q) + 1 /\ Len(Append(t, job)) = Len(q)
    <3>1. KeysIn(Append(t, job)) = KeysIn(t) + 1 /\ Len(Append(t, job)) = Len(t) + 1
      BY <1>2
    <3>2. Len(t) = Len(q) - 1 /\ KeysIn(t) \in Nat
      BY <1>1, <1>k DEF t
    <3> QED BY <3>1, <3>2, <1>1, <1>k, <1>3, <1>4
  <2> QED BY <2>1, <2>2, <2>3, <2>4
<1>5. CASE Head(q).kind # "key"
  <2>1. Recycle(q, job) = Append(t, Head(q))
    BY <1>5 DEF Recycle
  <2> HIDE DEF t
  <2>2. \A i \in DOMAIN Append(t, Head(q)) : \E j \in DOMAIN q : Append(t, Head(q))[i] = q[j]
    BY <1>1, <1>2 DEF t
  <2>3. ASSUME NEW j \in DOMAIN q
        PROVE  \E i \in DOMAIN Append(t, Head(q)) : Append(t, Head(q))[i] = q[j]
    <3>1. CASE j = 1
      BY <3>1, <1>1, <1>2
    <3>2. CASE j # 1
      <4>1. j - 1 \in DOMAIN t /\ t[j - 1] = q[j]
        BY <3>2, <1>1 DEF t
      <4> QED BY <4>1, <1>2
    <3> QED BY <3>1, <3>2
  <2>4. KeysIn(Append(t, Head(q))) <= KeysIn(q) + 1 /\ Len(Append(t, Head(q))) = Len(q)
    <3>1. KeysIn(Append(t, Head(q))) = KeysIn(t) /\ Len(Append(t, Head(q))) = Len(t) + 1
      BY <1>2, <1>5
    <3>2. Len(t) = Len(q) - 1 /\ KeysIn(t) \in Nat
      BY <1>1, <1>k DEF t
    <3> QED BY <3>1, <3>2, <1>1, <1>k, <1>3, <1>5
  <2> QED BY <2>1, <2>2, <2>3, <2>4
<1> QED BY <1>4, <1>5

\* A key is pressed in a call that has a session, and knows its generation.
LEMMA PressKeeps ==
  ASSUME Types, NEW c \in Calls, CallInv(c), NEW k \in Pressed, PressKey(c, k)
  PROVE  CallInv(c)'
<1> DEFINE job == [kind |-> "key", key |-> k, stamp |-> IF Open(c) THEN sess[c].gen ELSE 0,
                   signed |-> sess[c].auth]
<1>t. /\ queue[c] \in Seq(Jobs) /\ keys[c] \in Nat /\ sess[c].gen \in Nat \ {0}
      /\ sess[c].auth \in BOOLEAN /\ sess[c].fails \in Nat /\ worker[c] \in Workers
      /\ InHand(worker[c]) \in {0, 1} /\ keys \in [Calls -> 0..MaxKeys] /\ queue \in [Calls -> Seq(Jobs)]
  BY DEF Types, Sessions, InHand
<1>1. /\ shim[c] = "up" /\ wire[c] = <<>>
      /\ UNCHANGED <<shim, wire, stop, sess, timer, goodbye, hanging, task, leases, pinOf, stale>>
      /\ keys' = [keys EXCEPT ![c] = keys[c] + 1]
  BY DEF PressKey
<1>2. First(c) /\ sess[c].in # "none" /\ Open(c)
  BY <1>1 DEF CallInv, First, Alive
<1>3. job \in Jobs /\ job.kind = "key" /\ job.stamp = sess[c].gen /\ job.signed = sess[c].auth
  <2>1. k \in Keys
    BY InboundAssumption DEF InboundAssumption
  <2> QED BY <2>1, <1>2, <1>t DEF Jobs
<1>4. \/ Enqueue(c, job)
      \/ /\ ~(Len(queue[c]) < QueueSize)
         /\ queue' = [queue EXCEPT ![c] = Recycle(queue[c], job)] /\ worker' = worker
  BY DEF PressKey
<1> HIDE DEF job
<1>5. /\ \A i \in DOMAIN queue'[c] : queue'[c][i] = job \/ \E j \in DOMAIN queue[c] : queue'[c][i] = queue[c][j]
      /\ \A j \in DOMAIN queue[c] : queue[c][j].kind # "key" =>
           \E i \in DOMAIN queue'[c] : queue'[c][i] = queue[c][j]
      /\ KeysIn(queue'[c]) <= KeysIn(queue[c]) + 1 /\ KeysIn(queue'[c]) \in Nat
      /\ \/ worker'[c] = worker[c]
         \/ worker[c].pc = "none" /\ worker'[c].pc = "wait"
  <2>1. CASE Enqueue(c, job)
    <3>1. queue'[c] = Append(queue[c], job) /\ (worker'[c] = worker[c] \/
            (worker[c].pc = "none" /\ worker'[c].pc = "wait"))
      BY <2>1, <1>3, EnqueueOnly
    <3>2. /\ \A i \in DOMAIN Append(queue[c], job) :
               (i \in DOMAIN queue[c] /\ Append(queue[c], job)[i] = queue[c][i]) \/ Append(queue[c], job)[i] = job
          /\ \A i \in DOMAIN queue[c] : i \in DOMAIN Append(queue[c], job) /\ Append(queue[c], job)[i] = queue[c][i]
          /\ Append(queue[c], job) \in Seq(Jobs)
      BY <1>t, <1>3, Appended
    <3>3. KeysIn(Append(queue[c], job)) = KeysIn(queue[c]) + 1 /\ KeysIn(queue[c]) \in Nat
      BY <1>t, <1>3, KeysAppended, KeysType
    <3> QED BY <3>1, <3>2, <3>3
  <2>2. CASE /\ ~(Len(queue[c]) < QueueSize)
             /\ queue' = [queue EXCEPT ![c] = Recycle(queue[c], job)] /\ worker' = worker
    <3>1. queue'[c] = Recycle(queue[c], job)
      BY <2>2, <1>t
    <3>2. queue[c] # <<>>
      BY <2>2, InboundAssumption DEF InboundAssumption
    <3>3. Recycle(queue[c], job) \in Seq(Jobs)
      <4>1. Tail(queue[c]) \in Seq(Jobs) /\ Head(queue[c]) \in Jobs
        BY <3>2, <1>t, Taken
      <4>2. /\ Append(Tail(queue[c]), job) \in Seq(Jobs)
            /\ Append(Tail(queue[c]), Head(queue[c])) \in Seq(Jobs)
        BY <4>1, <1>3, Appended
      <4> QED BY <4>2 DEF Recycle
    <3>4. KeysIn(Recycle(queue[c], job)) \in Nat
      BY <3>3, KeysType
    <3>5. /\ \A i \in DOMAIN Recycle(queue[c], job) : Recycle(queue[c], job)[i] = job
               \/ \E j \in DOMAIN queue[c] : Recycle(queue[c], job)[i] = queue[c][j]
          /\ \A j \in DOMAIN queue[c] : queue[c][j].kind # "key" =>
               \E i \in DOMAIN Recycle(queue[c], job) : Recycle(queue[c], job)[i] = queue[c][j]
          /\ KeysIn(Recycle(queue[c], job)) <= KeysIn(queue[c]) + 1
      BY <1>t, <1>3, <3>2, RecycledOnly
    <3> QED BY <3>1, <3>4, <3>5, <2>2
  <2> QED BY <1>4, <2>1, <2>2
<1>6. First(c)'
  <2>1. \A i \in DOMAIN queue'[c] : queue'[c][i].kind # "incoming"
    BY <1>2, <1>3, <1>5 DEF First
  <2>2. wire'[c] = <<>> /\ sess'[c].in # "none" /\ shim'[c] = "up"
    BY <1>1, <1>2
  <2>3. DOMAIN wire'[c] = {}
    BY <2>2
  <2>4. ~(worker'[c].pc = "handle" /\ worker'[c].job.kind = "incoming")
    BY <1>2, <1>5 DEF First
  <2> QED BY <2>1, <2>2, <2>3, <2>4 DEF First
<1>7. Ended(c)'
  BY <1>1, <1>5 DEF CallInv, Ended
<1>8. Alive(c)'
  BY <1>1, <1>5, AliveKept
<1>9. Kept(c)'
  <2>1. Kept(c)
    BY DEF CallInv
  <2>2. ~sess[c].est => \/ \E i \in DOMAIN queue[c] : queue[c][i].kind = "established"
                        \/ worker[c].pc = "handle" /\ worker[c].job.kind = "established"
    <3>1. DOMAIN wire[c] = {}
      BY <1>1
    <3> QED BY <2>1, <3>1, <1>1, <1>2 DEF Kept
  <2>3. ~sess[c].est => \/ \E i \in DOMAIN queue'[c] : queue'[c][i].kind = "established"
                        \/ worker'[c].pc = "handle" /\ worker'[c].job.kind = "established"
    BY <2>2, <1>5
  <2>4. \A i \in DOMAIN queue'[c] : queue'[c][i].kind # "key" => queue'[c][i].stamp = 0
    BY <2>1, <1>3, <1>5 DEF Kept
  <2> QED BY <2>1, <2>3, <2>4, <1>1 DEF Kept
<1>10. Leased(c)' /\ Signed(c)'
  BY <1>1, <1>5, SessionKept
<1>11. Stamped(c)'
  <2>1. Stamped(c)
    BY DEF CallInv
  <2>2. StampedJob(c, job)
    BY <1>3, <1>t DEF StampedJob
  <2>3. \A i \in DOMAIN queue'[c] : StampedJob(c, queue'[c][i])
    BY <2>1, <2>2, <1>5 DEF Stamped
  <2>4. \A i \in DOMAIN queue'[c] : queue'[c][i].kind = "key" =>
          /\ queue'[c][i].stamp \in 1..sess'[c].gen
          /\ sess'[c].auth /\ ~queue'[c][i].signed => queue'[c][i].stamp < sess'[c].gen
    BY <2>3, <1>1 DEF StampedJob
  <2>5. worker'[c].pc = "handle" /\ worker'[c].job.kind = "key" /\ sess'[c].auth =>
          worker'[c].job.signed
    BY <2>1, <1>1, <1>5 DEF Stamped
  <2> QED BY <2>4, <2>5 DEF Stamped, StampedJob
<1>12. Counted(c)'
  <2>1. InHand(worker'[c]) <= InHand(worker[c]) /\ InHand(worker'[c]) \in {0, 1}
    BY <1>5, <1>t DEF InHand
  <2>2. keys'[c] = keys[c] + 1 /\ sess'[c] = sess[c]
    BY <1>1, <1>t
  <2>3. sess[c].fails + KeysIn(queue[c]) + InHand(worker[c]) <= keys[c] /\ KeysIn(queue[c]) \in Nat
    BY <1>t, KeysType DEF CallInv, Counted
  <2>4. /\ sess[c].fails \in Nat /\ keys[c] \in Nat /\ InHand(worker[c]) \in Nat
        /\ KeysIn(queue'[c]) <= KeysIn(queue[c]) + 1 /\ KeysIn(queue'[c]) \in Nat
    BY <1>t, <1>5
  <2>5. sess[c].fails + KeysIn(queue'[c]) + InHand(worker'[c]) <= keys[c] + 1
    BY <2>1, <2>3, <2>4
  <2> QED BY <2>2, <2>5 DEF Counted
<1> QED BY <1>6, <1>7, <1>8, <1>9, <1>10, <1>11, <1>12 DEF CallInv

\* A job is taken in the menu it belongs to.
LEMMA TakeKeeps ==
  ASSUME Types, NEW c \in Calls, CallInv(c), TakeJob(c)
  PROVE  CallInv(c)'
<1>t. /\ queue \in [Calls -> Seq(Jobs)] /\ worker \in [Calls -> Workers] /\ worker[c] \in Workers
      /\ queue[c] \in Seq(Jobs) /\ keys[c] \in Nat /\ sess[c].gen \in Nat \ {0}
      /\ sess[c].fails \in Nat
  BY DEF Types, Sessions
<1> DEFINE h == Head(queue[c])
<1>1. /\ worker[c].pc = "wait" /\ queue[c] # <<>> /\ queue'[c] = Tail(queue[c])
      /\ UNCHANGED <<shim, wire, stop, sess, timer, goodbye, hanging, task, leases, keys, pinOf,
                     stale>>
  BY <1>t DEF TakeJob, At
<1>2. /\ \A i \in DOMAIN queue'[c] : i + 1 \in DOMAIN queue[c] /\ queue'[c][i] = queue[c][i + 1]
           /\ i + 1 # 1
      /\ \A i \in DOMAIN queue[c] \ {1} : i - 1 \in DOMAIN queue'[c] /\ queue'[c][i - 1] = queue[c][i]
      /\ 1 \in DOMAIN queue[c] /\ h = queue[c][1] /\ h \in Jobs
  <2>1. \A i \in Nat \ {0} : i + 1 # 1
    OBVIOUS
  <2> QED BY <2>1, <1>1, <1>t, Taken
<1>3. IF Current(c, h) THEN worker'[c].pc = "handle" /\ worker'[c].job = h
                       ELSE worker'[c] = worker[c]
  <2>1. CASE Current(c, h)
    <3>1. worker' = [worker EXCEPT ![c].pc = "handle", ![c].job = h]
      BY <2>1 DEF TakeJob
    <3>2. worker'[c] = [worker[c] EXCEPT !.pc = "handle", !.job = h]
      BY <3>1, <1>t
    <3> QED BY <3>2, <2>1, <1>t DEF Workers
  <2>2. CASE ~Current(c, h)
    BY <2>2 DEF TakeJob
  <2> QED BY <2>1, <2>2
<1> HIDE DEF h
<1>4. worker'[c].pc \in {"wait", "handle"}
  BY <1>1, <1>3
<1>5. First(c)'
  <2>1. First(c)
    BY DEF CallInv
  <2>2. \A i \in DOMAIN wire[c] : wire[c][i] # "incoming"
    BY <2>1, <1>1 DEF First
  <2>3. \A i \in DOMAIN queue'[c] : queue'[c][i].kind # "incoming"
    BY <2>1, <1>2 DEF First
  <2>4. worker'[c].pc = "handle" /\ worker'[c].job.kind = "incoming" => sess[c].in = "none"
    BY <2>1, <1>1, <1>2, <1>3 DEF First
  <2>5. sess[c].in = "none" => \A i \in DOMAIN queue'[c] : queue'[c][i].kind # "key"
    BY <2>1, <1>2 DEF First
  <2>6. shim[c] # "off"
    BY <2>1, <1>1 DEF First
  <2> QED BY <2>1, <2>2, <2>3, <2>4, <2>5, <2>6, <1>1, <1>4 DEF First
<1>6. Ended(c)'
  BY <1>1, <1>4 DEF CallInv, Ended
<1>7. Alive(c)'
  BY <1>1, <1>4, AliveKept
<1>8. Kept(c)'
  <2>1. Kept(c)
    BY DEF CallInv
  <2>2. (\E i \in DOMAIN queue[c] : queue[c][i].kind = "established") =>
          \/ \E i \in DOMAIN queue'[c] : queue'[c][i].kind = "established"
          \/ worker'[c].pc = "handle" /\ worker'[c].job.kind = "established"
    <3>1. ASSUME NEW i \in DOMAIN queue[c], queue[c][i].kind = "established"
          PROVE  \/ \E j \in DOMAIN queue'[c] : queue'[c][j].kind = "established"
                 \/ worker'[c].pc = "handle" /\ worker'[c].job.kind = "established"
      <4>1. CASE i = 1
        <5>1. h.kind = "established" /\ h.stamp = 0
          BY <2>1, <3>1, <4>1, <1>2 DEF Kept
        <5> QED BY <5>1, <1>3 DEF Current
      <4>2. CASE i # 1
        BY <3>1, <4>2, <1>2
      <4> QED BY <4>1, <4>2
    <3> QED BY <3>1
  <2>3. \A i \in DOMAIN queue'[c] : queue'[c][i].kind # "key" => queue'[c][i].stamp = 0
    BY <2>1, <1>2 DEF Kept
  <2> QED BY <2>1, <2>2, <2>3, <1>1 DEF Kept, Open
<1>9. Leased(c)' /\ Signed(c)'
  BY <1>1, <1>4, SessionKept
<1>10. Stamped(c)'
  <2>1. Stamped(c)
    BY DEF CallInv
  <2>2. \A i \in DOMAIN queue'[c] : queue'[c][i].kind = "key" =>
          /\ queue'[c][i].stamp \in 1..sess'[c].gen
          /\ sess'[c].auth /\ ~queue'[c][i].signed => queue'[c][i].stamp < sess'[c].gen
    BY <2>1, <1>1, <1>2 DEF Stamped, StampedJob
  <2>3. h.kind = "key" /\ Current(c, h) /\ sess[c].auth => h.signed
    <3>1. StampedJob(c, h)
      BY <2>1, <1>2 DEF Stamped
    <3>2. ASSUME h.kind = "key", Current(c, h), sess[c].auth, ~h.signed PROVE FALSE
      <4>1. h.stamp \in 1..sess[c].gen /\ h.stamp < sess[c].gen
        BY <3>1, <3>2 DEF StampedJob
      <4>2. h.stamp = 0 \/ sess[c].gen = h.stamp
        BY <3>2 DEF Current
      <4> QED BY <4>1, <4>2, <1>t
    <3> QED BY <3>2
  <2>4. worker'[c].pc = "handle" /\ worker'[c].job.kind = "key" /\ sess'[c].auth =>
          worker'[c].job.signed
    BY <2>3, <1>1, <1>3
  <2> QED BY <2>2, <2>4 DEF Stamped, StampedJob
<1>11. Counted(c)'
  <2>1. IF h.kind = "key" THEN KeysIn(queue'[c]) + 1 <= KeysIn(queue[c])
                          ELSE KeysIn(queue'[c]) <= KeysIn(queue[c])
    BY <1>1, <1>t, KeysTaken DEF h
  <2>2. KeysIn(queue[c]) \in Nat /\ KeysIn(queue'[c]) \in Nat
    <3>1. queue'[c] \in Seq(Jobs)
      BY <1>1, <1>t, Taken
    <3> QED BY <3>1, <1>t, KeysType
  <2>3. InHand(worker[c]) = 0 /\ InHand(worker'[c]) \in {0, 1}
        /\ (InHand(worker'[c]) = 1 => h.kind = "key")
    BY <1>1, <1>3 DEF InHand
  <2>4. sess[c].fails + KeysIn(queue[c]) + InHand(worker[c]) <= keys[c]
    BY DEF CallInv, Counted
  <2>5. sess[c].fails \in Nat /\ keys[c] \in Nat
    BY <1>t
  <2>6. KeysIn(queue'[c]) + InHand(worker'[c]) <= KeysIn(queue[c])
    BY <2>1, <2>2, <2>3
  <2>7. sess[c].fails + KeysIn(queue'[c]) + InHand(worker'[c]) <= keys[c]
    BY <2>2, <2>3, <2>4, <2>5, <2>6
  <2> QED BY <2>7, <1>1 DEF Counted
<1> QED BY <1>5, <1>6, <1>7, <1>8, <1>9, <1>10, <1>11 DEF CallInv

\* The reader queues an event of the call, or hangs the call up.
LEMMA ReadEventKeeps ==
  ASSUME Types, Types', NEW c \in Calls, CallInv(c), ReadEvent(c)
  PROVE  CallInv(c)'
<1>t. /\ queue[c] \in Seq(Jobs) /\ wire \in [Calls -> Seq(Wires)] /\ wire[c] \in Seq(Wires)
      /\ shim \in [Calls -> {"off", "ringing", "up", "over"}] /\ keys[c] \in Nat
      /\ sess[c].fails \in Nat /\ InHand(worker[c]) \in Nat
  BY DEF Types, Sessions, InHand
<1> DEFINE h == Head(wire[c])
           w == Tail(wire[c])
           job == Event(h)
<1>1. /\ wire[c] # <<>> /\ h \in {"incoming", "established"}
      /\ UNCHANGED <<stop, sess, timer, goodbye, hanging, task, leases, keys, pinOf, stale>>
  BY DEF ReadEvent
<1>2. /\ w \in Seq(Wires) /\ 1 \in DOMAIN wire[c] /\ h = wire[c][1]
      /\ \A i \in DOMAIN w : i + 1 \in DOMAIN wire[c] /\ w[i] = wire[c][i + 1] /\ i + 1 # 1
      /\ \A i \in DOMAIN wire[c] \ {1} : i - 1 \in DOMAIN w /\ w[i - 1] = wire[c][i]
  <2>1. \A i \in Nat \ {0} : i + 1 # 1
    OBVIOUS
  <2> QED BY <2>1, <1>1, <1>t, Taken
<1>3. job \in Jobs /\ job.kind = h /\ job.stamp = 0
  BY <1>1 DEF Event, Jobs
<1>f. First(c) /\ \A i \in DOMAIN w : w[i] # "incoming"
  BY <1>2 DEF CallInv, First
<1>4. CASE Enqueue(c, job) /\ wire' = [wire EXCEPT ![c] = w] /\ UNCHANGED shim
  <2>1. /\ wire'[c] = w /\ shim'[c] = shim[c] /\ queue'[c] = Append(queue[c], job)
        /\ worker[c].pc # "none" => worker'[c] = worker[c]
        /\ worker[c].pc = "none" => worker'[c].pc = "wait"
    BY <1>4, <1>t, <1>3, EnqueueOnly
  <2> HIDE DEF h, w, job
  <2>2. /\ \A i \in DOMAIN queue'[c] :
             (i \in DOMAIN queue[c] /\ queue'[c][i] = queue[c][i])
             \/ (i = Len(queue[c]) + 1 /\ queue'[c][i] = job)
        /\ \A i \in DOMAIN queue[c] : i \in DOMAIN queue'[c] /\ queue'[c][i] = queue[c][i]
        /\ \E i \in DOMAIN queue'[c] : queue'[c][i] = job
    <3>1. PICK q : q = queue[c] /\ q \in Seq(Jobs)
      BY <1>t
    <3>2. /\ \A i \in DOMAIN Append(q, job) :
               (i \in DOMAIN q /\ Append(q, job)[i] = q[i])
               \/ (i = Len(q) + 1 /\ Append(q, job)[i] = job)
          /\ \A i \in DOMAIN q : i \in DOMAIN Append(q, job) /\ Append(q, job)[i] = q[i]
          /\ \E i \in DOMAIN Append(q, job) : Append(q, job)[i] = job
      BY <3>1, <1>3, Appended
    <3> QED BY <3>1, <3>2, <2>1
  <2>3. First(c)'
    <3>1. h = "incoming" => queue[c] = <<>> /\ worker[c].pc = "none" /\ sess[c].in = "none"
      BY <1>f, <1>2 DEF First
    <3>2. ASSUME NEW i \in DOMAIN queue'[c], queue'[c][i].kind = "incoming"
          PROVE  i = 1 /\ sess'[c].in = "none" /\ worker'[c].pc \in {"wait", "dead"}
      <4>1. CASE i \in DOMAIN queue[c] /\ queue'[c][i] = queue[c][i]
        BY <1>f, <1>1, <2>1, <3>2, <4>1 DEF First
      <4>2. CASE i = Len(queue[c]) + 1 /\ queue'[c][i] = job
        <5>1. queue[c] = <<>> /\ worker[c].pc = "none" /\ sess[c].in = "none"
          BY <3>1, <3>2, <4>2, <1>3
        <5>2. Len(queue[c]) + 1 = 1
          BY <5>1
        <5> QED BY <5>1, <5>2, <4>2, <2>1, <1>1
      <4> QED BY <2>2, <4>1, <4>2
    <3>3. worker'[c].pc = "handle" /\ worker'[c].job.kind = "incoming" => sess[c].in = "none"
      BY <1>f, <2>1 DEF First
    <3>4. sess[c].in = "none" =>
            /\ worker'[c].pc \in {"none", "wait", "handle", "dead"}
            /\ \A i \in DOMAIN queue'[c] : queue'[c][i].kind # "key"
      BY <1>f, <1>1, <1>3, <2>1, <2>2 DEF First
    <3>5. shim[c] # "off"
      BY <1>f, <1>1 DEF First
    <3> QED BY <1>f, <1>1, <2>1, <3>2, <3>3, <3>4, <3>5 DEF First
  <2>4. Ended(c)'
    BY <1>1, <1>2, <2>1 DEF CallInv, Ended
  <2>5. Alive(c)'
    BY <1>1, <2>1, AliveKept
  <2>6. Kept(c)'
    <3>1. Kept(c)
      BY DEF CallInv
    <3>2. (\E i \in DOMAIN wire[c] : wire[c][i] = "established") =>
            \/ \E i \in DOMAIN w : w[i] = "established"
            \/ \E i \in DOMAIN queue'[c] : queue'[c][i].kind = "established"
      BY <1>2, <1>3, <2>2
    <3>3. \A i \in DOMAIN queue'[c] : queue'[c][i].kind # "key" => queue'[c][i].stamp = 0
      BY <3>1, <1>3, <2>2 DEF Kept
    <3> QED BY <3>1, <3>2, <3>3, <1>1, <2>1, <2>2 DEF Kept, Open
  <2>7. Leased(c)' /\ Signed(c)'
    BY <1>1, <2>1, SessionKept
  <2>8. Stamped(c)'
    BY <1>1, <1>3, <2>1, <2>2 DEF CallInv, Stamped, StampedJob
  <2>9. Counted(c)'
    <3>1. KeysIn(queue'[c]) = KeysIn(queue[c])
      BY <2>1, <1>1, <1>3, <1>t, KeysAppended
    <3>2. InHand(worker'[c]) <= InHand(worker[c]) /\ InHand(worker'[c]) \in Nat
      BY <2>1, <1>t DEF InHand
    <3>3. KeysIn(queue[c]) \in Nat
      BY <1>t, KeysType
    <3>4. sess[c].fails + KeysIn(queue[c]) + InHand(worker'[c]) <= keys[c]
      BY <3>2, <3>3, <1>t DEF CallInv, Counted
    <3> QED BY <3>1, <3>4, <1>1 DEF Counted
  <2> QED BY <2>3, <2>4, <2>5, <2>6, <2>7, <2>8, <2>9 DEF CallInv
<1>5. CASE /\ shim' = [shim EXCEPT ![c] = "over"]
           /\ wire' = [wire EXCEPT ![c] = Append(w, IF shim[c] = "over" THEN "error" ELSE "closed")]
           /\ UNCHANGED <<queue, worker>>
  <2>1. PICK x \in {"error", "closed"} : wire'[c] = Append(w, x)
    BY <1>5, <1>t
  <2>2. shim'[c] = "over"
    BY <1>5, <1>t
  <2>3. \A i \in DOMAIN wire'[c] : wire'[c][i] # "incoming"
    <3>1. x \in Wires
      BY DEF Wires
    <3> HIDE DEF w
    <3>2. \A i \in DOMAIN Append(w, x) : (i \in DOMAIN w /\ Append(w, x)[i] = w[i]) \/ Append(w, x)[i] = x
      BY <3>1, <1>2, Appended
    <3> QED BY <2>1, <3>2, <1>f
  <2>4. CalmShim(c)
    BY <1>1, <1>5, <2>2, <2>3 DEF CalmShim
  <2>5. CalmWorker(c) /\ CalmSession(c)
    BY <1>1, <1>5, <1>t, SessionSame DEF CalmWorker
  <2>6. Calm(c)
    BY <1>1, <2>2, <2>4, <2>5 DEF Calm
  <2> QED BY <2>6, CalmKeeps
<1> QED BY <1>4, <1>5 DEF ReadEvent

-----------------------------------------------------------------------------
Inv == Types /\ Bounded /\ \A c \in Calls : CallInv(c)

\* The queue of a call never holds more than its capacity.
LEMMA BoundedStep ==
  ASSUME Types, Bounded, [Next]_vars
  PROVE  Bounded'
<1>t. queue \in [Calls -> Seq(Jobs)] /\ \A c \in Calls : queue[c] \in Seq(Jobs)
  BY DEF Types
<1>q. ASSUME queue' = queue PROVE Bounded'
  BY <1>q DEF Bounded
<1>s. ASSUME NEW c \in Calls, NEW q \in Seq(Jobs), queue' = [queue EXCEPT ![c] = q],
             Len(q) <= QueueSize
      PROVE  Bounded'
  BY <1>s, <1>t DEF Bounded
<1>n. QueueSize \in Nat /\ \A c \in Calls : Len(queue[c]) \in Nat /\ Len(queue[c]) <= QueueSize
  BY <1>t, InboundAssumption DEF Bounded, InboundAssumption
<1>e. ASSUME NEW c \in Calls, NEW job \in Jobs, Enqueue(c, job), Len(queue[c]) < QueueSize
      PROVE  Bounded'
  <2>1. queue' = [queue EXCEPT ![c] = Append(queue[c], job)]
    BY <1>e DEF Enqueue
  <2>2. Append(queue[c], job) \in Seq(Jobs) /\ Len(Append(queue[c], job)) = Len(queue[c]) + 1
    BY <1>t, Appended
  <2>3. Len(Append(queue[c], job)) <= QueueSize
    BY <2>2, <1>n, <1>e
  <2> QED BY <2>1, <2>2, <2>3, <1>s
<1>1. ASSUME NEW c \in Calls, NEW k \in Pressed, PressKey(c, k) PROVE Bounded'
  <2> DEFINE job == [kind |-> "key", key |-> k, stamp |-> IF Open(c) THEN sess[c].gen ELSE 0,
                     signed |-> sess[c].auth]
  <2>1. job \in Jobs /\ job.kind = "key"
    <3>1. k \in Keys
      BY InboundAssumption DEF InboundAssumption
    <3>2. sess[c].gen \in Nat /\ sess[c].auth \in BOOLEAN
      BY DEF Types, Sessions
    <3> QED BY <3>1, <3>2 DEF Jobs
  <2>2. \/ Enqueue(c, job) /\ Len(queue[c]) < QueueSize
        \/ ~(Len(queue[c]) < QueueSize) /\ queue' = [queue EXCEPT ![c] = Recycle(queue[c], job)]
    BY <1>1 DEF PressKey
  <2> HIDE DEF job
  <2>3. CASE ~(Len(queue[c]) < QueueSize) /\ queue' = [queue EXCEPT ![c] = Recycle(queue[c], job)]
    <3>1. queue[c] # <<>>
      BY <2>3, InboundAssumption DEF InboundAssumption
    <3>2. Len(Recycle(queue[c], job)) = Len(queue[c]) /\ Recycle(queue[c], job) \in Seq(Jobs)
      <4>1. Tail(queue[c]) \in Seq(Jobs) /\ Head(queue[c]) \in Jobs
        BY <3>1, <1>t, Taken
      <4>2. /\ Append(Tail(queue[c]), job) \in Seq(Jobs)
            /\ Append(Tail(queue[c]), Head(queue[c])) \in Seq(Jobs)
        BY <4>1, <2>1, Appended
      <4>3. Recycle(queue[c], job) \in Seq(Jobs)
        BY <4>2 DEF Recycle
      <4> QED BY <4>3, <3>1, <2>1, <1>t, RecycledOnly
    <3> QED BY <2>3, <3>2, <1>n, <1>s
  <2> QED BY <2>1, <2>2, <2>3, <1>e
<1>2. ASSUME NEW c \in Calls, ReadEvent(c) PROVE Bounded'
  <2>1. \/ Enqueue(c, Event(Head(wire[c]))) /\ Len(queue[c]) < QueueSize
        \/ queue' = queue
    BY <1>2 DEF ReadEvent
  <2>2. Event(Head(wire[c])) \in Jobs
    BY <1>2 DEF ReadEvent, Event, Jobs
  <2> QED BY <2>1, <2>2, <1>e, <1>q
<1>3. ASSUME NEW c \in Calls, TakeJob(c) PROVE Bounded'
  <2>1. queue[c] # <<>> /\ queue' = [queue EXCEPT ![c] = Tail(queue[c])]
    BY <1>3 DEF TakeJob
  <2>2. Tail(queue[c]) \in Seq(Jobs) /\ Len(Tail(queue[c])) = Len(queue[c]) - 1
    BY <2>1, <1>t, Taken
  <2>3. Len(Tail(queue[c])) <= QueueSize
    BY <2>2, <1>n
  <2> QED BY <2>1, <2>2, <2>3, <1>s
<1>4. ASSUME NEW c \in Calls, WorkerStep(c), ~TakeJob(c) PROVE queue' = queue
  BY <1>4 DEF WorkerStep, StopsIdle, HandleStopped, AdmitRefuses, Admit, Answer, Activate,
    OnEstablished, IgnoreKey, MenuKey, ChoiceKey, Choose, TypeDigit, SubmitPIN, LookupPIN,
    CheckPIN, WorkerBegins, WorkerEnds, WorkerSays, WorkerMoves
<1>5. ASSUME NEW c \in Calls,
             TaskStep(c) \/ TimerStep(c) \/ ReadClosed(c) \/ CallComes(c) \/ FarEndCloses(c)
      PROVE  queue' = queue
  BY <1>5 DEF TaskStep, TaskSays, TaskMoves, TaskBegins, TaskEnds, CodeEnds, TimerStep, TimerFires,
    GoodbyeBegins, GoodbyeEnds, DelayedHangup, ReadClosed, CallComes, FarEndCloses
<1>6. ASSUME NEW u \in Users, ChangePIN(u) \/ Invalidate(u) PROVE queue' = queue
  BY <1>6 DEF ChangePIN, Invalidate
<1>7. CASE UNCHANGED vars
  BY <1>7, <1>q DEF vars
<1> QED BY <1>1, <1>2, <1>3, <1>4, <1>5, <1>6, <1>7, <1>q DEF Next, ReaderStep

\* Every step of a call keeps the invariant of the call.
LEMMA CallKeeps ==
  ASSUME Types, Types', NEW c \in Calls, CallInv(c), CallStep(c)
  PROVE  CallInv(c)'
<1>1. CASE CallComes(c)
  BY <1>1, CallComesKeeps
<1>2. CASE FarEndCloses(c) \/ ReadClosed(c)
  BY <1>2, EndsCalmly, CalmKeeps
<1>3. CASE \E k \in Pressed : PressKey(c, k)
  BY <1>3, PressKeeps
<1>4. CASE ReadEvent(c)
  BY <1>4, ReadEventKeeps
<1>5. CASE TaskStep(c) \/ TimerStep(c)
  BY <1>5, TaskCalmly, TimerCalmly, CalmKeeps
<1>6. CASE WorkerStep(c)
  <2>1. CASE TakeJob(c) \/ Admit(c) \/ Answer(c)
    BY <2>1, TakeKeeps, AdmitKeeps, AnswerKeeps
  <2>2. CASE \/ StopsIdle(c) \/ HandleStopped(c) \/ AdmitRefuses(c) \/ Activate(c)
             \/ OnEstablished(c)
    BY <2>2, WorkerStartsCalmly, CalmKeeps
  <2>3. CASE IgnoreKey(c) \/ MenuKey(c) \/ ChoiceKey(c) \/ Choose(c) \/ TypeDigit(c)
    BY <2>3, WorkerKeysCalmly, CalmKeeps
  <2>4. CASE SubmitPIN(c) \/ LookupPIN(c) \/ CheckPIN(c)
    BY <2>4, WorkerChecksCalmly, CalmKeeps
  <2>5. CASE WorkerBegins(c) \/ WorkerEnds(c) \/ WorkerSays(c) \/ WorkerMoves(c)
    BY <2>5, WorkerSpeaksCalmly, CalmKeeps
  <2> QED BY <1>6, <2>1, <2>2, <2>3, <2>4, <2>5 DEF WorkerStep
<1> QED BY <1>1, <1>2, <1>3, <1>4, <1>5, <1>6 DEF CallStep, ReaderStep

\* So the invariant of every call holds in every state.
LEMMA InitInv == Init => Inv
<1> SUFFICES ASSUME Init PROVE Inv
  OBVIOUS
<1>1. Types
  <2>1. [Resting EXCEPT !.pc = "none"] \in Workers /\ NoSession \in Sessions
    BY NoSessionType DEF WorkerPC
  <2>2. <<>> \in Seq(Wires) /\ <<>> \in Seq(Jobs) /\ 0 \in 0..MaxKeys
    BY InboundAssumption DEF InboundAssumption
  <2> QED BY <2>1, <2>2 DEF Init, Types
<1>2. Bounded
  BY InboundAssumption DEF Init, Bounded, InboundAssumption
<1>3. ASSUME NEW c \in Calls PROVE CallInv(c)
  <2>1. /\ shim[c] = "off" /\ wire[c] = <<>> /\ queue[c] = <<>> /\ worker[c].pc = "none"
        /\ stop[c] = FALSE /\ sess[c] = NoSession /\ leases[c] = 0 /\ keys[c] = 0
        /\ task[c] = "none"
    BY <1>3 DEF Init, Resting
  <2>2. DOMAIN wire[c] = {} /\ DOMAIN queue[c] = {}
    BY <2>1
  <2>3. /\ sess[c].in = "none" /\ sess[c].est = FALSE /\ sess[c].lease = 0 /\ sess[c].fails = 0
        /\ sess[c].chosen = FALSE /\ sess[c].auth = FALSE /\ sess[c].state = "pin"
    BY <2>1 DEF NoSession
  <2>4. KeysIn(queue[c]) = 0
    <3>1. {i \in DOMAIN queue[c] : queue[c][i].kind = "key"} = {}
      BY <2>2
    <3> QED BY <3>1, FS_EmptySet DEF KeysIn
  <2>5. InHand(worker[c]) = 0
    BY <2>1 DEF InHand
  <2>6. First(c) /\ Ended(c) /\ Alive(c)
    BY <2>1, <2>2, <2>3 DEF First, Ended, Alive
  <2>7. Kept(c) /\ Leased(c) /\ Signed(c) /\ Stamped(c)
    BY <2>1, <2>2, <2>3 DEF Kept, Leased, Signed, Stamped, Open
  <2>8. Counted(c)
    BY <2>1, <2>3, <2>4, <2>5 DEF Counted
  <2> QED BY <2>6, <2>7, <2>8 DEF CallInv
<1> QED BY <1>1, <1>2, <1>3 DEF Inv

\* One step changes one call, or the PINs and the sessions that used them.
LEMMA StepInv == Inv /\ [Next]_vars => Inv'
<1> SUFFICES ASSUME Inv, [Next]_vars PROVE Inv'
  OBVIOUS
<1>1. Types /\ Bounded /\ \A c \in Calls : CallInv(c) /\ Mine(c)
  BY DEF Inv, CallInv, Leased, Mine
<1>2. Types' /\ Bounded'
  BY <1>1, StepTypes, BoundedStep
<1>3. ASSUME NEW d \in Calls PROVE CallInv(d)'
  <2>1. ASSUME NEW c \in Calls, CallStep(c) PROVE CallInv(d)'
    <3>1. CASE c = d
      BY <3>1, <2>1, <1>1, <1>2, CallKeeps
    <3>2. CASE c # d
      <4>1. Frame(d) /\ UNCHANGED <<pinOf, stale>>
        BY <3>2, <2>1, <1>1, OtherCalls
      <4>2. Calm(d)
        BY <4>1, <1>1, FrameCalm
      <4> QED BY <4>2, <1>1, <1>2, CalmKeeps
    <3> QED BY <3>1, <3>2
  <2>2. ASSUME NEW u \in Users, ChangePIN(u) \/ Invalidate(u) PROVE CallInv(d)'
    <3>1. Calm(d)
      BY <2>2, <1>1, WebCalmly
    <3> QED BY <3>1, <1>1, <1>2, CalmKeeps
  <2>3. CASE UNCHANGED vars
    <3>1. Frame(d) /\ UNCHANGED <<pinOf, stale>>
      BY <2>3 DEF vars, Frame
    <3>2. Calm(d)
      BY <3>1, <1>1, FrameCalm
    <3> QED BY <3>2, <1>1, <1>2, CalmKeeps
  <2> QED BY <2>1, <2>2, <2>3 DEF Next, CallStep
<1> QED BY <1>2, <1>3 DEF Inv

\* The invariant holds in every reachable state.
LEMMA Invariant == Spec => []Inv
<1> QED BY InitInv, StepInv, PTL DEF Spec

-----------------------------------------------------------------------------
\* The variables keep their types, no queue holds more than its capacity and nobody
\* has more failed attempts than keys pressed.
THEOREM TypeCorrect == Spec => []TypeOK
<1>1. Inv => TypeOK
  <2> SUFFICES ASSUME Inv PROVE TypeOK
    OBVIOUS
  <2>1. Types /\ Bounded
    BY DEF Inv
  <2>2. ASSUME NEW c \in Calls
        PROVE  /\ \A i \in DOMAIN wire[c] : wire[c][i] \in {"incoming", "established", "closed", "error"}
               /\ Len(queue[c]) <= QueueSize
               /\ \A i \in DOMAIN queue[c] : queue[c][i] \in Jobs
               /\ worker[c].job \in Jobs \cup {NoJob}
               /\ sess[c].in \in {"none", "open", "closed", "gone"}
               /\ sess[c].state \in {"pin", "choice", "verify", "main", "closed"}
               /\ sess[c].user \in Users /\ sess[c].fails \in 0..MaxKeys /\ sess[c].lease \in {0, 1}
    <3>1. /\ wire[c] \in Seq(Wires) /\ queue[c] \in Seq(Jobs) /\ worker[c] \in Workers
          /\ sess[c] \in Sessions /\ keys[c] \in 0..MaxKeys
      BY <2>1 DEF Types
    <3>2. \A i \in DOMAIN wire[c] : wire[c][i] \in Wires
      BY <3>1
    <3>3. \A i \in DOMAIN queue[c] : queue[c][i] \in Jobs
      BY <3>1
    <3>4. sess[c].fails \in 0..MaxKeys
      <4>1. sess[c].fails + KeysIn(queue[c]) + InHand(worker[c]) <= keys[c]
        BY DEF Inv, CallInv, Counted
      <4>2. KeysIn(queue[c]) \in Nat /\ InHand(worker[c]) \in Nat /\ sess[c].fails \in Nat
        BY <3>1, KeysType DEF InHand, Sessions
      <4> QED BY <4>1, <4>2, <3>1, InboundAssumption DEF InboundAssumption
    <3>5. worker[c].job \in Jobs \cup {NoJob}
      BY <3>1 DEF Workers
    <3>6. /\ sess[c].in \in {"none", "open", "closed", "gone"}
          /\ sess[c].state \in {"pin", "choice", "verify", "main", "closed"}
          /\ sess[c].user \in Users /\ sess[c].lease \in {0, 1}
      BY <3>1 DEF Sessions
    <3>7. Len(queue[c]) <= QueueSize
      BY <2>1 DEF Bounded
    <3> QED BY <3>2, <3>3, <3>4, <3>5, <3>6, <3>7 DEF Wires
  <2> QED BY <2>1, <2>2 DEF Types, TypeOK
<1> QED BY <1>1, Invariant, PTL

\* Who is signed in gave the PIN in force, or is about to be cut off; a key pressed
\* before that, or in an earlier menu, never reaches the mail handlers.
THEOREM SignedInHolds == Spec => []SignedIn
<1>1. Inv => SignedIn
  <2> SUFFICES ASSUME Inv PROVE SignedIn
    OBVIOUS
  <2>1. SignedInWithCurrentPIN
    BY DEF Inv, CallInv, Signed, InForce, SignedInWithCurrentPIN
  <2>2. KeyAfterSignIn
    BY DEF Inv, CallInv, Stamped, KeyAfterSignIn, Handles, At
  <2> QED BY <2>1, <2>2 DEF SignedIn
<1> QED BY <1>1, Invariant, PTL

\* An established call keeps its event, a call that chose no account returns its
\* leases, and an answered call is never left alone.
THEOREM CallersKeptHolds == Spec => []CallersKept
<1>1. Inv => CallersKept
  <2> SUFFICES ASSUME Inv PROVE CallersKept
    OBVIOUS
  <2>1. EstablishedKept
    <3> SUFFICES ASSUME NEW c \in Calls, Open(c), shim[c] = "up", wire[c] = <<>>, ~sess[c].est
                 PROVE  \/ \E i \in DOMAIN queue[c] : queue[c][i].kind = "established"
                        \/ Handles(c, "established")
      BY DEF EstablishedKept
    <3>1. DOMAIN wire[c] = {} /\ ~stop[c]
      BY DEF Inv, CallInv, Ended
    <3> QED BY <3>1 DEF Inv, CallInv, Kept, Handles, At
  <2>2. LeasesReturnedUnchosen
    <3> SUFFICES ASSUME NEW c \in Calls, Over(c), ~sess[c].chosen PROVE leases[c] = 0
      BY DEF LeasesReturnedUnchosen
    <3>1. Leased(c)
      BY DEF Inv, CallInv
    <3> QED BY <3>1 DEF Over, Leased
  <2>3. NeverForgotten
    <3> SUFFICES ASSUME NEW c \in Calls, shim[c] = "up"
                 PROVE  Open(c) /\ (timer[c] \/ Plays(c) > 0 \/ hanging[c])
      BY DEF NeverForgotten
    <3>1. Open(c) /\ Watched(c)
      BY DEF Inv, CallInv, Alive
    <3>2. SomePlays(c) => Plays(c) > 0
      <4>1. SomePlays(c) => Playing(c) # {}
        BY PlayingIs DEF SomePlays
      <4>2. Playing(c) # {} => Cardinality(Playing(c)) > 0
        <5>1. Cardinality(Playing(c)) \in Nat /\ (Cardinality(Playing(c)) = 0 <=> Playing(c) = {})
          BY PlayingIs, FS_CardinalityType, FS_EmptySet
        <5> QED BY <5>1
      <4> QED BY <4>1, <4>2, PlayingIs
    <3> QED BY <3>1, <3>2 DEF Watched
  <2> QED BY <2>1, <2>2, <2>3 DEF CallersKept
<1> QED BY <1>1, Invariant, PTL

-----------------------------------------------------------------------------
(* MailStore: the invariant. *)

\* The run's list and item are of the step it is in.
Working ==
    /\ run.pc \in {"mbsync", "scan"} => run.todo \subseteq Messages
    /\ run.pc = "retry" =>
          /\ \A it \in run.todo : it \in Retries /\ it.entry \in DOMAIN journal
          /\ run.item # None => /\ run.item \in Confirmed
                                /\ run.item.entry \in DOMAIN journal
                                /\ run.item.action \in DOMAIN journal
    /\ run.pc \in {"identities", "stale"} => run.todo \subseteq Answers
    /\ run.pc \notin {"retry", "scan"} => run.item = None
    /\ run.pc = "scan" => run.item \in Found \cup {None}

\* Of a message that is not moved, the scan has found the file or is to visit it.
Scanned == run.pc = "scan" =>
    /\ caller.pc # "idle" => caller.message \in moved
    /\ run.item # None /\ run.item.message \notin moved => run.item.path = file[run.item.message]
    /\ \A m \in Messages : m \notin moved /\ m \notin run.todo /\ file[m] # None =>
          \/ run.item # None /\ run.item.message = m /\ run.item.path = file[m]
          \/ rows[m][file[m]] # None => Seen(m, file[m])


-----------------------------------------------------------------------------
(* The operators of the model. *)

\* The opposite of a flag is the other one.
LEMMA MailOther == ASSUME NEW f \in Flags PROVE Other(f) \in Flags /\ Other(f) # f
  <1>1. \E g \in Flags : g # f  BY DEF Flags
  <1> QED BY <1>1 DEF Other

\* A non-empty set of positions in a sequence has a last one.
LEMMA MailLast == ASSUME NEW n \in Nat, NEW s, s \subseteq 1..n, s # {}
                  PROVE  Last(s) \in s /\ \A j \in s : j <= Last(s)
  <1> DEFINE T == {k \in Nat : n - k \in s}
  <1>1. T \subseteq Nat  OBVIOUS
  <1>2. PICK i \in s : TRUE  OBVIOUS
  <1>3. i \in Nat /\ i <= n /\ n - i \in Nat /\ n - (n - i) = i  BY <1>2, SMT
  <1>4. T # {}  BY <1>2, <1>3
  <1>5. PICK k \in T : \A y \in T : ~(<<y, k>> \in OpToRel(<, Nat))
    <2> HIDE DEF T
    <2> QED BY <1>1, <1>4, NatLessThanWellFounded, WFMin
  <1>6. ASSUME NEW y \in T PROVE k <= y
    <2>1. y \in Nat /\ k \in Nat /\ ~(<<y, k>> \in OpToRel(<, Nat))  BY <1>1, <1>5, <1>6
    <2> HIDE DEF T
    <2> QED BY <2>1, SMT DEF OpToRel
  <1>7. k \in Nat /\ n - k \in s  BY <1>5
  <1>8. ASSUME NEW j \in s PROVE j <= n - k
    <2>1. j \in Nat /\ j <= n /\ n - j \in Nat /\ n - (n - j) = j  BY SMT
    <2>2. n - j \in T  BY <2>1
    <2>3. k <= n - j  BY <2>2, <1>6
    <2> QED BY <2>1, <2>3, <1>7, SMT
  <1> QED BY <1>7, <1>8 DEF Last

\* A journal keeps its entries when the rows of some are deleted.
LEMMA MailCascade == ASSUME NEW js \in Seq(Entry), NEW gone
                     PROVE Cascade(js, gone) \in Seq(Entry) /\ Len(Cascade(js, gone)) = Len(js)
  <1> DEFINE f == Cascade(js, gone)
  <1>1. \A i \in 1..Len(js) : js[i] \in Entry  OBVIOUS
  <1>2. f = [i \in 1..Len(js) |-> f[i]]  BY DEF Cascade
  <1>3. \A i \in 1..Len(js) : f[i] \in Entry  BY <1>1 DEF Cascade, Entry
  <1> HIDE DEF f
  <1>4. f \in Seq(Entry) /\ Len(f) = Len(js)  BY <1>2, <1>3
  <1> QED BY <1>4 DEF f

\* A journal keeps its entries when some are finished.
LEMMA MailFinish == ASSUME NEW js \in Seq(Entry), NEW m, NEW i, NEW flag, NEW rs
                    PROVE /\ Finish(js, m, i, flag, rs) \in Seq(Entry)
                          /\ Len(Finish(js, m, i, flag, rs)) = Len(js)
  <1> DEFINE f == Finish(js, m, i, flag, rs)
             done(j) == /\ js[j].row = js[i].row /\ js[j].id <= js[i].id /\ js[j].status = "queued"
                        /\ \E p \in Flags : /\ rs[m][p] # None /\ rs[m][p].id = js[i].row
                                            /\ rs[m][p].read = flag
  <1>1. \A j \in 1..Len(js) : js[j] \in Entry  OBVIOUS
  <1>2. f = [j \in 1..Len(js) |-> IF done(j) THEN [js[j] EXCEPT !.status = "synchronized"]
                                             ELSE js[j]]  BY DEF Finish
  <1> HIDE DEF f, done
  <1>3. \A j \in 1..Len(js) : f[j] \in Entry  BY <1>1, <1>2 DEF Entry
  <1>4. f \in Seq(Entry) /\ Len(f) = Len(js)  BY <1>2, <1>3
  <1> QED BY <1>4 DEF f

\* Moving a row of a message within it keeps the rows keyed, and the other messages'.
LEMMA MailRehomed ==
  ASSUME Keyed(rows), NEW m \in Messages, NEW p \in Flags, NEW q \in Flags, NEW row \in Row,
         rows[m][p] # None, row.id = rows[m][p].id
  PROVE  /\ Keyed(Rehomed(m, p, q, row)) /\ Rehomed(m, p, q, row)[m][q] = row
         /\ \A n \in Messages \ {m} : Rehomed(m, p, q, row)[n] = rows[n]
  <1> DEFINE R == Rehomed(m, p, q, row)
             F == R[m]
  <1>2. \A n \in Messages : R[n] = IF n = m THEN F ELSE rows[n]  BY DEF Keyed, Rehomed
  <1>3. \A x \in Flags : F[x] = IF x = q THEN row ELSE IF x = p THEN None ELSE rows[m][x]
    BY DEF Keyed, Rehomed
  <1>5. R \in [Messages -> [Flags -> Row \cup {None}]]  BY DEF Keyed, Rehomed
  <1> HIDE DEF R, F
  <1>6. ASSUME NEW a \in Messages, NEW b \in Messages, NEW x \in Flags, NEW y \in Flags,
               R[a][x] # None, R[b][y] # None, R[a][x].id = R[b][y].id
        PROVE  a = b /\ x = y
    \* a row of R has the id of a row of rows
    <2> DEFINE Old(z) == IF z = q THEN p ELSE z
    <2>1. ASSUME NEW z \in Flags, F[z] # None
          PROVE  rows[m][Old(z)] # None /\ F[z].id = rows[m][Old(z)].id /\ (z = q \/ z # p)
      BY <2>1, <1>3
    <2>2. CASE a = m /\ b = m  BY <2>1, <2>2, <1>2, <1>6 DEF Keyed
    <2>3. CASE a = m /\ b # m  BY <2>1, <2>3, <1>2, <1>6 DEF Keyed
    <2>4. CASE a # m /\ b = m  BY <2>1, <2>4, <1>2, <1>6 DEF Keyed
    <2>5. CASE a # m /\ b # m  BY <2>5, <1>2, <1>6 DEF Keyed
    <2> QED BY <2>2, <2>3, <2>4, <2>5
  <1>7. Keyed(R)  BY <1>5, <1>6 DEF Keyed
  <1>8. R[m][q] = row /\ \A n \in Messages \ {m} : R[n] = rows[n]  BY <1>2, <1>3 DEF F
  <1> QED BY <1>7, <1>8 DEF R

-----------------------------------------------------------------------------
(* The parts of MailTypeOK. *)

DiskOK ==
    /\ remote \in [Messages -> Flags \cup {None}]
    /\ synced \in [Messages -> Flags \cup {None}]
    /\ file \in [Messages -> Flags \cup {None}]
DatabaseOK == Keyed(rows) /\ journal \in Seq(Entry)
SessionOK ==
    /\ Len(journal) + (IF caller = Quiet THEN 0 ELSE 1) <= toggles /\ toggles \in 0..MaxToggles
    /\ listed \in [Messages -> Copy \cup {None}]
    /\ caller \in Changes \cup {Quiet}
    /\ caller.pc # "idle" => listed[caller.message] # None
RestOK ==
    /\ plan \subseteq Messages /\ faults \in 0..MaxFaults
    /\ meddled \in [Messages -> BOOLEAN] /\ torn \subseteq Messages /\ moved \subseteq Messages

\* The parts make up MailTypeOK.
LEMMA MailParts == MailTypeOK <=> DiskOK /\ DatabaseOK /\ SessionOK /\ run \in Runs /\ RestOK
  BY DEF MailTypeOK, DiskOK, DatabaseOK, SessionOK, RestOK

\* So they do after a step.
LEMMA MailPartsNext ==
  MailTypeOK' <=> DiskOK' /\ DatabaseOK' /\ SessionOK' /\ (run \in Runs)' /\ RestOK'
  BY DEF MailTypeOK, DiskOK, DatabaseOK, SessionOK, RestOK

\* The bounds are natural numbers.
LEMMA MailBounds == MaxToggles \in Nat /\ MaxFaults \in Nat
  BY MailStoreAssumption

\* A new id is above the ids of the entries that are there.
LEMMA MailIds ==
  ASSUME journal \in Seq(Entry)
  PROVE  /\ LiveIds \subseteq Nat /\ QueuedIds \subseteq LiveIds /\ OtherQueued \subseteq Nat
         /\ NewIds \subseteq Nat \ {0} /\ \A new \in NewIds : \A id \in LiveIds : id < new
  <1>1. \A i \in DOMAIN journal : journal[i].id \in Nat
    <2>1. \A i \in DOMAIN journal : journal[i] \in Entry  OBVIOUS
    <2> QED BY <2>1 DEF Entry
  <1>2. LiveIds \subseteq Nat  BY <1>1 DEF LiveIds
  <1>3. QueuedIds \subseteq LiveIds  BY DEF QueuedIds, LiveIds, Live
  <1>4. OtherQueued \subseteq Nat /\ OtherKept \subseteq Nat  BY MailStoreAssumption
  <1>5. ASSUME NEW new \in NewIds PROVE new \in Nat \ {0} /\ \A id \in LiveIds : id < new
    <2>1. PICK last \in {0} \cup LiveIds \cup OtherKept :
             new = last + 1 /\ \A id \in LiveIds : id <= last
      BY DEF NewIds
    <2>2. last \in Nat  BY <1>2, <1>4
    <2>3. \A id \in LiveIds : id \in Nat /\ id <= last  BY <1>2, <2>1
    <2>4. new \in Nat \ {0} /\ \A id \in Nat : id <= last => id < new  BY <2>1, <2>2
    <2> QED BY <2>3, <2>4
  <1> QED BY <1>2, <1>3, <1>4, <1>5

\* A run that does nothing stays in step with a journal that only grows.
LEMMA MailIdleRun ==
  ASSUME Working, journal \in Seq(Entry), journal' \in Seq(Entry), run' = run,
         Len(journal) <= Len(journal')
  PROVE  Working'
  <1>1. \A i : i \in DOMAIN journal => i \in DOMAIN journal'  BY SMT
  <1> QED BY <1>1 DEF Working

\* A fault is counted up to its bound.
LEMMA MailFault == ASSUME faults \in 0..MaxFaults, Fault \/ UNCHANGED faults
                   PROVE  faults' \in 0..MaxFaults
  BY MailBounds DEF Fault

\* The messages renamed during a scan are messages.
LEMMA MailDuring == ASSUME NEW s, s \subseteq Messages PROVE DuringScan(s) \subseteq Messages
  BY DEF DuringScan

\* The rows found by id are rows.
LEMMA MailPathOf == ASSUME NEW m, NEW id, NEW p \in PathOf(m, id)
                    PROVE p \in Flags /\ rows[m][p] # None /\ rows[m][p].id = id
  BY DEF PathOf, Paths

-----------------------------------------------------------------------------
(* The steps of the caller keep MailTypeOK and Working. *)

\* Listing copies an index row into the session.
LEMMA MailListSafe == ASSUME MailTypeOK, Working, NEW m \in Messages, List(m)
                      PROVE  MailTypeOK' /\ Working'
  <1>1. DiskOK /\ DatabaseOK /\ SessionOK /\ run \in Runs /\ RestOK  BY MailParts
  <1>2. UNCHANGED <<disk, database, caller, toggles, plan, run, faults, history>>
    BY DEF List
  <1>3. DiskOK' /\ DatabaseOK' /\ RestOK' /\ (run \in Runs)'
    BY <1>1, <1>2 DEF DiskOK, DatabaseOK, RestOK, disk, database, history
  <1>4. PICK p \in Paths(m) : listed' = [listed EXCEPT ![m] =
            [row |-> rows[m][p].id, path |-> p, read |-> rows[m][p].read]]  BY DEF List
  <1>5. rows[m][p] \in Row /\ p \in Flags  BY <1>1 DEF DatabaseOK, Keyed, Paths
  <1>6. [row |-> rows[m][p].id, path |-> p, read |-> rows[m][p].read] \in Copy
    BY <1>5 DEF Row, Copy
  <1>7. listed' \in [Messages -> Copy \cup {None}]  BY <1>1, <1>4, <1>6 DEF SessionOK
  <1>8. SessionOK'  BY <1>1, <1>2, <1>7 DEF SessionOK, database, List
  <1>9. Working'  BY <1>1, <1>2, MailIdleRun DEF DatabaseOK, database
  <1> QED BY <1>3, <1>8, <1>9, MailPartsNext

\* A rename leaves database and run alone.
LEMMA MailRenameSafe == ASSUME MailTypeOK, Working, NEW m \in Messages, Rename(m)
                        PROVE  MailTypeOK' /\ Working'
  <1>1. DiskOK /\ DatabaseOK /\ SessionOK /\ run \in Runs /\ RestOK  BY MailParts
  <1>2. UNCHANGED <<remote, synced, database, listed, plan, run, faults, meddled, torn>>
    BY DEF Rename
  <1>3. /\ caller.pc = "idle" /\ listed[m] # None /\ file[m] # None /\ toggles < MaxToggles
        /\ moved' = moved \cup DuringScan({m}) /\ toggles' = toggles + 1  BY DEF Rename
  <1>4. PICK want \in {"seen", Other(listed[m].read)} :
          /\ caller' = [pc |-> "renamed", message |-> m, want |-> want, path |-> want,
                        from |-> file[m]]
          /\ file' = [file EXCEPT ![m] = want]  BY DEF Rename
  <1>5. listed[m] \in Copy /\ file[m] \in Flags  BY <1>1, <1>3 DEF SessionOK, DiskOK
  <1>6. want \in Flags
    <2>1. listed[m].read \in Flags  BY <1>5 DEF Copy
    <2> QED BY <2>1, <1>4, MailOther DEF Flags
  <1>7. DiskOK'  BY <1>1, <1>2, <1>4, <1>6 DEF DiskOK
  <1>8. DatabaseOK' /\ (run \in Runs)'  BY <1>1, <1>2 DEF DatabaseOK, database
  <1>9. RestOK'  BY <1>1, <1>2, <1>3, MailDuring DEF RestOK
  <1>10. caller' \in Changes /\ caller'.message = m  BY <1>4, <1>5, <1>6 DEF Changes
  <1>11. caller = Quiet  BY <1>1, <1>3 DEF SessionOK, Changes, Quiet
  <1>12. Len(journal') + 1 <= toggles' /\ toggles' \in 0..MaxToggles
    <2>1. Len(journal) \in Nat /\ journal' = journal  BY <1>1, <1>2 DEF DatabaseOK, database
    <2>2. Len(journal) + 0 <= toggles /\ toggles \in 0..MaxToggles  BY <1>1, <1>11 DEF SessionOK
    <2> QED BY <2>1, <2>2, <1>3, MailBounds
  <1>13. Len(journal') + (IF caller' = Quiet THEN 0 ELSE 1) <= toggles'
    BY <1>10, <1>12 DEF Changes, Quiet
  <1>14. SessionOK'  BY <1>1, <1>2, <1>3, <1>10, <1>12, <1>13 DEF SessionOK
  <1>15. Working'  BY <1>1, <1>2, MailIdleRun DEF DatabaseOK, database
  <1> QED BY <1>7, <1>8, <1>9, <1>14, <1>15, MailPartsNext

\* Undoing a change returns the file to the listed name.
LEMMA MailUndo ==
  ASSUME DiskOK, SessionOK, RestOK, NEW m \in Messages, NEW path, listed[m] # None, Undo(m, path)
  PROVE  /\ file' \in [Messages -> Flags \cup {None}] /\ meddled' \in [Messages -> BOOLEAN]
         /\ moved' \subseteq Messages /\ caller' = Quiet
  <1>1. listed[m] \in Copy  BY DEF SessionOK
  <1>2. listed[m].path \in Flags  BY <1>1 DEF Copy
  <1>3. file' \in [Messages -> Flags \cup {None}]  BY <1>2 DEF DiskOK, Undo
  <1>4. moved' \subseteq Messages  BY MailDuring DEF RestOK, Undo
  <1> DEFINE b == meddled[m] \/ path # caller.from \/ listed[m].path # caller.from
  <1>5. meddled' = [meddled EXCEPT ![m] = b] /\ b \in BOOLEAN  BY Zenon DEF Undo
  <1> HIDE DEF b
  <1>6. meddled' \in [Messages -> BOOLEAN]  BY <1>5 DEF RestOK
  <1> QED BY <1>3, <1>4, <1>6 DEF Undo

\* MailRehomed with the row of the new path in the journal's cascade.
LEMMA MailMerged ==
  ASSUME DatabaseOK, NEW m \in Messages, NEW p \in Flags, NEW q \in Flags, NEW row \in Row,
         rows[m][p] # None, row.id = rows[m][p].id,
         rows' = Rehomed(m, p, q, row), journal' = Cascade(journal, Collided(m, p, q))
  PROVE  DatabaseOK' /\ Len(journal') = Len(journal)
  <1>1. Keyed(Rehomed(m, p, q, row))  BY MailRehomed DEF DatabaseOK
  <1>2. Keyed(rows')  BY <1>1
  <1>3. Keyed(rows)'  BY <1>2 DEF Keyed
  <1> QED BY <1>3, MailCascade DEF DatabaseOK

\* A row with another flag is a row with the same id.
LEMMA MailFlagged ==
  ASSUME DatabaseOK, NEW m \in Messages, NEW p \in Flags, rows[m][p] # None, NEW f \in Flags
  PROVE  /\ [rows[m][p] EXCEPT !.read = f] \in Row
         /\ [rows[m][p] EXCEPT !.read = f].id = rows[m][p].id
         /\ [rows[m][p] EXCEPT !.read = f, !.fresh = FALSE] \in Row
         /\ [rows[m][p] EXCEPT !.read = f, !.fresh = FALSE].id = rows[m][p].id
  <1>1. rows[m][p] \in Row  BY DEF DatabaseOK, Keyed
  <1> QED BY <1>1 DEF Row

\* What a change in progress is.
LEMMA MailChange == ASSUME SessionOK, caller.pc # "idle"
                    PROVE  /\ caller \in Changes /\ caller.message \in Messages
                           /\ caller.want \in Flags /\ caller.path \in Flags /\ caller # Quiet
                           /\ listed[caller.message] \in Copy
                           /\ listed[caller.message].row \in RowIds
                           /\ listed[caller.message].path \in Flags
                           /\ listed[caller.message].read \in Flags
  <1>1. caller \in Changes  BY DEF SessionOK, Quiet
  <1>2. caller.message \in Messages  BY <1>1 DEF Changes
  <1>3. listed[caller.message] \in Copy  BY <1>2 DEF SessionOK
  <1> QED BY <1>1, <1>2, <1>3 DEF Changes, Copy, Quiet

\* A change that ends leaves its session in order.
LEMMA MailQuiet ==
  ASSUME SessionOK, caller.pc # "idle", caller' = Quiet, UNCHANGED <<listed, toggles>>,
         Len(journal) \in Nat, Len(journal') = Len(journal) \/ Len(journal') = Len(journal) + 1
  PROVE  SessionOK'
  <1>1. Len(journal) + 1 <= toggles /\ toggles \in Nat  BY MailChange, MailBounds DEF SessionOK
  <1>2. Len(journal') + 0 <= toggles'  BY <1>1
  <1>3. caller'.pc = "idle"  BY DEF Quiet
  <1> QED BY <1>2, <1>3 DEF SessionOK

\* Marking moves the row of a message to the new path.
LEMMA MailMarkSafe == ASSUME MailTypeOK, Working, Mark PROVE MailTypeOK' /\ Working'
  <1>1. DiskOK /\ DatabaseOK /\ SessionOK /\ run \in Runs /\ RestOK  BY MailParts
  <1>2. UNCHANGED <<remote, synced, listed, toggles, plan, run, torn>> /\ caller.pc = "renamed"
    BY DEF Mark
  <1> DEFINE m == caller.message
             found == PathOf(m, listed[m].row)
  <1>3. m \in Messages /\ caller \in Changes /\ caller.want \in Flags /\ caller.pc # "idle"
    BY <1>1, <1>2, MailChange
  <1>4. CASE \E p \in found :
                /\ rows' = Rehomed(m, p, caller.want, [rows[m][p] EXCEPT
                                       !.read = caller.want, !.fresh = FALSE])
                /\ journal' = Cascade(journal, Collided(m, p, caller.want))
                /\ caller' = [caller EXCEPT !.pc = "marked"]
                /\ UNCHANGED <<file, faults, history>>
    <2>1. PICK p \in found :
                /\ rows' = Rehomed(m, p, caller.want, [rows[m][p] EXCEPT
                                       !.read = caller.want, !.fresh = FALSE])
                /\ journal' = Cascade(journal, Collided(m, p, caller.want))
                /\ caller' = [caller EXCEPT !.pc = "marked"]
                /\ UNCHANGED <<file, faults, history>>  BY <1>4
    <2>2. p \in Flags /\ rows[m][p] # None  BY MailPathOf
    <2>3. DatabaseOK' /\ Len(journal') = Len(journal)
      <3> DEFINE row == [rows[m][p] EXCEPT !.read = caller.want, !.fresh = FALSE]
      <3>1. row \in Row /\ row.id = rows[m][p].id  BY <1>1, <1>3, <2>2, MailFlagged
      <3>2. rows' = Rehomed(m, p, caller.want, row)  BY <2>1
      <3> HIDE DEF row, m, found
      <3> QED BY <1>1, <1>3, <2>1, <2>2, <3>1, <3>2, MailMerged
    <2>4. DiskOK' /\ RestOK' /\ (run \in Runs)'
      BY <1>1, <1>2, <2>1 DEF DiskOK, RestOK, history
    <2>5. caller' \in Changes /\ caller'.message = m  BY <1>3, <2>1 DEF Changes
    <2>6. caller # Quiet /\ caller' # Quiet  BY <1>3, <2>5 DEF Changes, Quiet
    <2>7. SessionOK'
      <3> HIDE DEF found
      <3> QED BY <1>1, <1>2, <1>3, <2>3, <2>5, <2>6 DEF SessionOK
    <2>8. Len(journal) \in Nat  BY <1>1 DEF DatabaseOK
    <2>9. Working'  BY <1>1, <1>2, <2>3, <2>8, MailIdleRun DEF DatabaseOK
    <2> QED BY <2>3, <2>4, <2>7, <2>9, MailPartsNext
  <1>5. CASE /\ Fault \/ UNCHANGED faults
             /\ Undo(m, caller.path) /\ UNCHANGED <<rows, journal>>
    <2>1. listed[m] # None  BY <1>1, <1>3 DEF SessionOK
    <2>2. /\ file' \in [Messages -> Flags \cup {None}] /\ meddled' \in [Messages -> BOOLEAN]
          /\ moved' \subseteq Messages /\ caller' = Quiet  BY <1>1, <1>3, <1>5, <2>1, MailUndo
    <2>3. DatabaseOK' /\ Len(journal) \in Nat  BY <1>1, <1>5 DEF DatabaseOK
    <2>4. DiskOK'  BY <1>1, <1>2, <2>2 DEF DiskOK
    <2>5. faults' \in 0..MaxFaults  BY <1>1, <1>5, MailFault DEF RestOK
    <2>6. RestOK' /\ (run \in Runs)'  BY <1>1, <1>2, <2>2, <2>5 DEF RestOK
    <2>7. SessionOK'  BY <1>1, <1>2, <1>3, <1>5, <2>2, <2>3, MailQuiet
    <2>8. Working'  BY <1>1, <1>2, <1>5, <2>3, MailIdleRun DEF DatabaseOK
    <2> QED BY <2>3, <2>4, <2>6, <2>7, <2>8, MailPartsNext
  <1> QED BY <1>4, <1>5 DEF Mark

\* Recording adds to the journal, or puts file and row back.
LEMMA MailRecordSafe == ASSUME MailTypeOK, Working, Record PROVE MailTypeOK' /\ Working'
  <1>1. DiskOK /\ DatabaseOK /\ SessionOK /\ run \in Runs /\ RestOK  BY MailParts
  <1>2. UNCHANGED <<remote, synced, toggles, plan, run, torn>> /\ caller.pc # "idle"
    BY DEF Record
  <1> DEFINE m == caller.message
             at == PathOf(m, listed[m].row) \cap {caller.path, file[m]}
             entry(key, held) == [id |-> key, message |-> m, row |-> listed[m].row,
                              want |-> caller.want, status |-> "queued", reused |-> held]
  <1>3. /\ m \in Messages /\ caller \in Changes /\ caller.want \in Flags
        /\ caller.path \in Flags /\ listed[m] \in Copy /\ listed[m].row \in RowIds
        /\ listed[m].path \in Flags /\ listed[m].read \in Flags
    BY <1>1, <1>2, MailChange
  <1>4. Len(journal) \in Nat  BY <1>1 DEF DatabaseOK
  <1>5. CASE /\ \E id \in NewIds : journal' = Append(journal, entry(id, Held(id)))
             /\ \E p \in at : listed' = [listed EXCEPT ![m].path = p, ![m].read = caller.want]
             /\ meddled' = [meddled EXCEPT ![m] = remote[m] # synced[m] \/ file[m] # caller.want]
             /\ caller' = Quiet
             /\ UNCHANGED <<file, rows, faults, moved>>
    <2>1. PICK id \in NewIds : journal' = Append(journal, entry(id, Held(id)))  BY <1>5
    <2> DEFINE b == Held(id)
    <2>11. b \in BOOLEAN /\ journal' = Append(journal, entry(id, b))  BY <2>1 DEF Held
    <2>12. id \in Nat \ {0}  BY <1>1, MailIds DEF DatabaseOK
    <2> HIDE DEF b
    <2>13. entry(id, b) \in Entry  BY <1>3, <2>11, <2>12 DEF Entry
    <2> DEFINE e == entry(id, b)
    <2>14. e \in Entry /\ journal' = Append(journal, e)  BY <2>11, <2>13
    <2> HIDE DEF e
    <2>2. journal' \in Seq(Entry) /\ Len(journal') = Len(journal) + 1
      BY <1>1, <2>14 DEF DatabaseOK
    <2>3. DatabaseOK'  BY <1>1, <1>5, <2>2 DEF DatabaseOK, Keyed
    <2>4. PICK p \in at : listed' = [listed EXCEPT ![m].path = p, ![m].read = caller.want]
      BY <1>5
    <2>5. p \in Flags  BY MailPathOf
    <2>6. listed' \in [Messages -> Copy \cup {None}]
      <3>1. listed' = [listed EXCEPT ![m] = [listed[m] EXCEPT !.path = p, !.read = caller.want]]
        BY <2>4
      <3>2. [listed[m] EXCEPT !.path = p, !.read = caller.want] \in Copy
        BY <1>3, <2>5 DEF Copy
      <3> QED BY <1>1, <1>3, <3>1, <3>2 DEF SessionOK
    <2>7. SessionOK'
      <3>1. Len(journal) + 1 <= toggles /\ toggles \in Nat
        BY <1>1, <1>2, MailChange, MailBounds DEF SessionOK
      <3>2. Len(journal') + 0 <= toggles'  BY <1>2, <1>4, <2>2, <3>1
      <3>3. caller' = Quiet /\ caller'.pc = "idle"  BY <1>5 DEF Quiet
      <3> QED BY <1>1, <1>2, <2>6, <3>2, <3>3 DEF SessionOK
    <2>8. meddled' \in [Messages -> BOOLEAN]
      <3> DEFINE touched == remote[m] # synced[m] \/ file[m] # caller.want
      <3>1. meddled' = [meddled EXCEPT ![m] = touched] /\ touched \in BOOLEAN  BY <1>5
      <3> HIDE DEF touched
      <3> QED BY <1>1, <3>1 DEF RestOK
    <2>9. DiskOK' /\ RestOK' /\ (run \in Runs)'
      BY <1>1, <1>2, <1>5, <2>8 DEF DiskOK, RestOK
    <2>10. Working'  BY <1>1, <1>2, <1>4, <2>2, MailIdleRun DEF DatabaseOK
    <2> QED BY <2>3, <2>7, <2>9, <2>10, MailPartsNext
  <1>6. CASE /\ Fault \/ UNCHANGED faults
             /\ Undo(m, caller.path) /\ UNCHANGED listed
             /\ IF caller.path \in PathOf(m, listed[m].row) /\ file[m] = caller.path
                THEN /\ rows' = Rehomed(m, caller.path, listed[m].path,
                                       [rows[m][caller.path] EXCEPT !.read = listed[m].read])
                     /\ journal' = Cascade(journal, Collided(m, caller.path, listed[m].path))
                ELSE UNCHANGED <<rows, journal>>
    <2>1. listed[m] # None  BY <1>1, <1>2 DEF SessionOK
    <2>2. /\ file' \in [Messages -> Flags \cup {None}] /\ meddled' \in [Messages -> BOOLEAN]
          /\ moved' \subseteq Messages /\ caller' = Quiet  BY <1>1, <1>3, <1>6, <2>1, MailUndo
    <2>3. DatabaseOK' /\ Len(journal') = Len(journal)
      <3> DEFINE row == [rows[m][caller.path] EXCEPT !.read = listed[m].read]
      <3>1. CASE caller.path \in PathOf(m, listed[m].row) /\ file[m] = caller.path
        <4>1. rows[m][caller.path] # None  BY <3>1, MailPathOf
        <4>2. row \in Row /\ row.id = rows[m][caller.path].id
          BY <1>1, <1>3, <4>1, MailFlagged
        <4>3. /\ rows' = Rehomed(m, caller.path, listed[m].path, row)
              /\ journal' = Cascade(journal, Collided(m, caller.path, listed[m].path))
          BY <1>6, <3>1
        <4> HIDE DEF row, m, at
        <4> QED BY <1>1, <1>3, <4>1, <4>2, <4>3, MailMerged
      <3>2. CASE ~(caller.path \in PathOf(m, listed[m].row) /\ file[m] = caller.path)
        BY <1>1, <1>6, <3>2 DEF DatabaseOK
      <3> QED BY <3>1, <3>2
    <2>4. DiskOK'  BY <1>1, <1>2, <2>2 DEF DiskOK
    <2>5. faults' \in 0..MaxFaults  BY <1>1, <1>6, MailFault DEF RestOK
    <2>6. RestOK' /\ (run \in Runs)'  BY <1>1, <1>2, <2>2, <2>5 DEF RestOK
    <2>7. SessionOK'  BY <1>1, <1>2, <1>4, <1>6, <2>2, <2>3, MailQuiet
    <2>8. Working'  BY <1>1, <1>2, <1>4, <2>3, MailIdleRun DEF DatabaseOK
    <2> QED BY <2>3, <2>4, <2>6, <2>7, <2>8, MailPartsNext
  <1> QED BY <1>5, <1>6 DEF Record

-----------------------------------------------------------------------------
(* The run's own state. *)

\* Rows that go, or change without changing id, leave the rest keyed.
LEMMA MailKept ==
  ASSUME Keyed(rows), NEW rs \in [Messages -> [Flags -> Row \cup {None}]],
         \A m \in Messages : \A p \in Flags :
            rs[m][p] # None => rows[m][p] # None /\ rs[m][p].id = rows[m][p].id
  PROVE  Keyed(rs)
  BY DEF Keyed

\* The fields of a run.
LEMMA MailRun == ASSUME run \in Runs
  PROVE  /\ run.pc \in {"idle", "restart", "watermark", "mbsync", "retry", "scan", "pending",
                        "identities", "stale", "ack"}
         /\ run.plan \subseteq Messages /\ run.watermark \in Nat /\ run.late \in BOOLEAN
         /\ run.stamps \subseteq Messages \X Flags /\ run.unchanged \subseteq Messages \X Flags
         /\ run.seen \subseteq RowIds /\ run.protected \subseteq Messages
         /\ run.item \in Confirmed \cup Found \cup {None}
         /\ run.todo \subseteq Messages \cup Retries \cup Answers
  BY DEF Runs

\* A run that has stopped, or only rescues what is there, is a run.
LEMMA MailStopped == Stopped \in Runs /\ Rescue \in Runs /\ Stopped.pc = "idle" /\ Rescue.pc = "idle"
  BY DEF Stopped, Rescue, Runs

\* A scan begins with every message to visit.
LEMMA MailBegins == ASSUME NEW r \in Runs, SessionOK, BeginScan(r)
                    PROVE  /\ (run \in Runs)' /\ Working' /\ moved' \subseteq Messages
                           /\ run'.pc = "scan" /\ run'.todo = Messages
                           /\ caller.pc # "idle" => caller.message \in moved'
  <1> DEFINE st == {mp \in Messages \X Flags : rows[mp[1]][mp[2]] # None /\ rows[mp[1]][mp[2]].fresh}
  <1>1. run' = [r EXCEPT !.pc = "scan", !.todo = Messages, !.item = None,
                         !.unchanged = {}, !.seen = {}, !.stamps = st]
    BY DEF BeginScan
  <1>2. st \subseteq Messages \X Flags  OBVIOUS
  <1> HIDE DEF st
  <1>3. run' \in Runs /\ run'.pc = "scan" /\ run'.todo = Messages /\ run'.item = None
    BY <1>1, <1>2 DEF Runs
  <1>4. Working'  BY <1>3 DEF Working
  <1>5. moved' = {m \in Messages : Changing(m)}  BY DEF BeginScan
  <1>6. caller.pc # "idle" => caller.message \in moved'  BY <1>5, MailChange DEF Changing
  <1>7. (run \in Runs)'  BY <1>3 DEF Runs, Retries, Answers, Confirmed, Found
  <1> QED BY <1>3, <1>4, <1>5, <1>6, <1>7

\* A scan ends.
LEMMA MailEnds == ASSUME NEW r \in Runs, EndScan(r), r.pc \in {"idle", "pending", "ack"},
                         r.item = None
                  PROVE  (run \in Runs)' /\ Working' /\ moved' \subseteq Messages /\ run'.pc # "scan"
  <1>1. run' = [r EXCEPT !.stamps = {}, !.unchanged = {}, !.seen = {}] /\ moved' = {}
    BY DEF EndScan
  <1>2. run' \in Runs /\ run'.pc = r.pc /\ run'.item = None  BY <1>1 DEF Runs
  <1>3. Working'  BY <1>2 DEF Working
  <1> QED BY <1>1, <1>2, <1>3

\* The newest choice for a message, if it has a UID, is an entry of the journal.
LEMMA MailLatest == ASSUME journal \in Seq(Entry), NEW m, Latest(m) # 0
                    PROVE  Latest(m) \in DOMAIN journal /\ Latest(m) \in EntriesOf(m) /\ HasUID(m)
  <1>1. HasUID(m) /\ EntriesOf(m) # {} /\ Latest(m) = Last(EntriesOf(m))  BY DEF Latest
  <1>2. EntriesOf(m) \subseteq 1..Len(journal)  BY DEF EntriesOf
  <1>3. Last(EntriesOf(m)) \in EntriesOf(m)
    <2>1. Len(journal) \in Nat  OBVIOUS
    <2> QED BY <2>1, <1>1, <1>2, MailLast
  <1> QED BY <1>1, <1>2, <1>3

\* The newest queued entry is one.
LEMMA MailQueued == ASSUME journal \in Seq(Entry), NEW m, NEW upto, Queued(m, upto) # {}
                    PROVE  Last(Queued(m, upto)) \in DOMAIN journal
  <1>1. Queued(m, upto) \subseteq 1..Len(journal)  BY DEF Queued, EntriesOf
  <1>2. Len(journal) \in Nat  OBVIOUS
  <1>3. Last(Queued(m, upto)) \in Queued(m, upto)  BY <1>1, <1>2, MailLast
  <1> QED BY <1>1, <1>3

\* Whatever leaves the session alone leaves it in order.
LEMMA MailSessionKept ==
  ASSUME SessionOK, UNCHANGED session, Len(journal') = Len(journal)
  PROVE  SessionOK'
  BY DEF SessionOK, session

-----------------------------------------------------------------------------
(* The steps of the run keep MailTypeOK and Working. *)

\* Starting a run.
LEMMA MailStartSafe == ASSUME MailTypeOK, Working, NEW kind \in Kinds, Start(kind)
                       PROVE  MailTypeOK' /\ Working'
  <1>1. DiskOK /\ DatabaseOK /\ SessionOK /\ run \in Runs /\ RestOK  BY MailParts
  <1>2. UNCHANGED <<disk, database, session, plan, faults, history>>  BY DEF Start
  <1>3. DiskOK' /\ DatabaseOK' /\ SessionOK' /\ RestOK'
    BY <1>1, <1>2, MailSessionKept DEF DiskOK, DatabaseOK, RestOK, disk, database, history
  <1>4. run' = [Stopped EXCEPT !.pc = "watermark", !.kind = kind, !.plan = plan]  BY DEF Start
  <1>5. run' \in Runs /\ run'.pc = "watermark" /\ run'.item = None
    BY <1>1, <1>4, MailStopped DEF Runs, RestOK, Stopped
  <1>6. Working'  BY <1>5 DEF Working
  <1> QED BY <1>3, <1>5, <1>6, MailPartsNext

\* Taking the watermark.
LEMMA MailWatermarkSafe == ASSUME MailTypeOK, Working, Watermark PROVE MailTypeOK' /\ Working'
  <1>1. DiskOK /\ DatabaseOK /\ SessionOK /\ run \in Runs /\ RestOK  BY MailParts
  <1>2. UNCHANGED <<disk, database, session, plan, faults, history>>  BY DEF Watermark
  <1>3. DiskOK' /\ DatabaseOK' /\ SessionOK' /\ RestOK'
    BY <1>1, <1>2, MailSessionKept DEF DiskOK, DatabaseOK, RestOK, disk, database, history
  <1>4. PICK id \in {0} \cup QueuedIds \cup OtherQueued :
           run' = [run EXCEPT !.pc = "mbsync", !.todo = run.plan, !.watermark = id]
    BY DEF Watermark
  <1>5. id \in Nat  BY <1>1, MailIds DEF DatabaseOK
  <1>6. /\ run' \in Runs /\ run'.pc = "mbsync" /\ run'.todo = run.plan
        /\ run'.item = run.item /\ run.pc = "watermark"
    BY <1>1, <1>4, <1>5, MailRun DEF Runs, Watermark
  <1>7. Working'  BY <1>1, <1>6, MailRun DEF Working
  <1> QED BY <1>3, <1>6, <1>7, MailPartsNext

\* A run that has one thing less to do.
LEMMA MailLess ==
  ASSUME run \in Runs, Working, journal \in Seq(Entry), Len(journal') = Len(journal),
         journal' \in Seq(Entry), NEW it, run' = [run EXCEPT !.todo = @ \ {it}]
  PROVE  (run \in Runs)' /\ Working'
  <1>1. run' \in Runs /\ run'.pc = run.pc /\ run'.item = run.item /\ run'.todo \subseteq run.todo
    BY DEF Runs
  <1>2. DOMAIN journal' = DOMAIN journal  OBVIOUS
  <1>3. Working'  BY <1>1, <1>2 DEF Working
  <1> QED BY <1>1, <1>3

\* mbsync copies a flag of one side to the other.
LEMMA MailMbsyncSafe == ASSUME MailTypeOK, Working, NEW m \in Messages, Mbsync(m)
                        PROVE  MailTypeOK' /\ Working'
  <1>1. DiskOK /\ DatabaseOK /\ SessionOK /\ run \in Runs /\ RestOK  BY MailParts
  <1>2. UNCHANGED <<database, session, plan, faults, history>>
        /\ run' = [run EXCEPT !.todo = @ \ {m}]  BY DEF Mbsync
  <1>3. DatabaseOK' /\ SessionOK' /\ RestOK'
    BY <1>1, <1>2, MailSessionKept DEF DatabaseOK, RestOK, database, history
  <1>4. DiskOK'
    <2>1. CASE remote[m] = None  BY <1>1, <2>1 DEF Mbsync, DiskOK, disk
    <2>2. CASE remote[m] # None /\ file[m] = None  BY <1>1, <2>2 DEF Mbsync, DiskOK
    <2>3. CASE remote[m] # None /\ file[m] \notin {None, synced[m]}
      BY <1>1, <2>3 DEF Mbsync, DiskOK
    <2>4. CASE remote[m] # None /\ file[m] # None /\ file[m] = synced[m]
      BY <1>1, <2>4 DEF Mbsync, DiskOK
    <2> QED BY <2>1, <2>2, <2>3, <2>4
  <1>5. (run \in Runs)' /\ Working'
    BY <1>1, <1>2, <1>3, MailLess DEF DatabaseOK, database
  <1> QED BY <1>3, <1>4, <1>5, MailPartsNext

\* The retained reads are listed with entries of the journal.
LEMMA MailMbsyncDoneSafe == ASSUME MailTypeOK, Working, MbsyncDone PROVE MailTypeOK' /\ Working'
  <1>1. DiskOK /\ DatabaseOK /\ SessionOK /\ run \in Runs /\ RestOK  BY MailParts
  <1>2. UNCHANGED <<disk, database, session, plan, faults, history>>  BY DEF MbsyncDone
  <1>3. DiskOK' /\ DatabaseOK' /\ SessionOK' /\ RestOK'
    BY <1>1, <1>2, MailSessionKept DEF DiskOK, DatabaseOK, RestOK, disk, database, history
  <1>4. run' = [run EXCEPT !.pc = "retry", !.todo = Retained]  BY DEF MbsyncDone
  <1>5. ASSUME NEW it \in Retained PROVE it \in Retries /\ it.entry \in DOMAIN journal
    <2>1. PICK m \in Messages :
             /\ Queued(m, run.watermark) # {}
             /\ it = [message |-> m, entry |-> Last(Queued(m, run.watermark)), uid |-> HasUID(m)]
      BY <1>5 DEF Retained
    <2>2. Last(Queued(m, run.watermark)) \in DOMAIN journal  BY <1>1, <2>1, MailQueued DEF DatabaseOK
    <2>3. HasUID(m) \in BOOLEAN  BY DEF HasUID
    <2>4. DOMAIN journal \subseteq Nat  BY <1>1 DEF DatabaseOK
    <2> DEFINE u == HasUID(m)
    <2> HIDE DEF u
    <2>5. it = [message |-> m, entry |-> Last(Queued(m, run.watermark)), uid |-> u]
          /\ u \in BOOLEAN  BY <2>1, <2>3 DEF u
    <2> QED BY <2>2, <2>4, <2>5 DEF Retries
  <1>6. Retained \subseteq Retries  BY <1>5
  <1>7. run' \in Runs /\ run'.pc = "retry" /\ run'.todo = Retained /\ run'.item = None
    <2>1. run.item = None  BY DEF Working, MbsyncDone
    <2>2. Retained \subseteq Messages \cup Retries \cup Answers  BY <1>6
    <2>3. run'.pc = "retry" /\ run'.todo = Retained /\ run'.item = run.item
      BY <1>1, <1>4 DEF Runs
    <2>4. run' \in Runs  BY <1>1, <1>4, <2>2 DEF Runs
    <2> QED BY <2>1, <2>3, <2>4
  <1>8. DOMAIN journal' = DOMAIN journal  BY <1>2 DEF database
  <1>9. Working'  BY <1>5, <1>7, <1>8 DEF Working
  <1> QED BY <1>3, <1>7, <1>9, MailPartsNext

\* A retried read is sent to the provider, or is late.
LEMMA MailRetrySafe == ASSUME MailTypeOK, Working, NEW it \in run.todo, Retry(it)
                       PROVE  MailTypeOK' /\ Working'
  <1>1. DiskOK /\ DatabaseOK /\ SessionOK /\ run \in Runs /\ RestOK  BY MailParts
  <1>2. UNCHANGED <<synced, file, database, session, plan, history>> /\ run.pc = "retry"
    BY DEF Retry
  <1>3. it \in Retries /\ it.entry \in DOMAIN journal  BY <1>2 DEF Working
  <1> DEFINE m == it.message
             newer == Latest(m) # 0 /\ journal[Latest(m)].id > journal[it.entry].id
             action == IF newer THEN Latest(m) ELSE it.entry
             told == [remote EXCEPT ![m] = IF @ = None THEN None ELSE journal[action].want]
             item == [message |-> m, entry |-> it.entry, action |-> action]
  <1>4. m \in Messages  BY <1>3 DEF Retries
  <1>5. action \in DOMAIN journal
    <2>1. it.entry \in Nat /\ (Latest(m) # 0 => Latest(m) \in DOMAIN journal)
      BY <1>1, <1>3, MailLatest DEF Retries, DatabaseOK
    <2> HIDE DEF m
    <2> QED BY <1>3, <2>1
  <1> HIDE DEF action
  <1>6. action \in Nat /\ journal[action] \in Entry  BY <1>1, <1>5 DEF DatabaseOK
  <1>7. told \in [Messages -> Flags \cup {None}]
    <2>1. journal[action].want \in Flags  BY <1>6 DEF Entry
    <2> HIDE DEF m
    <2> QED BY <1>1, <2>1 DEF DiskOK
  <1>8. item \in Confirmed /\ item.entry = it.entry /\ item.action = action
    <2>1. it.entry \in Nat  BY <1>3 DEF Retries
    <2> HIDE DEF m
    <2> QED BY <1>4, <1>6, <2>1 DEF Confirmed
  <1>9. \/ /\ remote' = told /\ UNCHANGED faults
           /\ run' = [run EXCEPT !.item = item, !.todo = @ \ {it}]
        \/ /\ remote' \in {remote, told} /\ (Fault \/ UNCHANGED faults)
           /\ run' = [run EXCEPT !.todo = @ \ {it}, !.late = TRUE] /\ run.item = None
    BY DEF Retry, action
  <1> HIDE DEF told, item, m
  <1>10. DiskOK' /\ DatabaseOK'
    BY <1>1, <1>2, <1>7, <1>9 DEF DiskOK, DatabaseOK, database
  <1>11. SessionOK' /\ RestOK'
    <2>1. faults' \in 0..MaxFaults  BY <1>1, <1>9, MailFault DEF RestOK
    <2> QED BY <1>1, <1>2, <2>1, MailSessionKept DEF RestOK, database, history
  <1>12. /\ run' \in Runs /\ run'.pc = "retry" /\ run'.todo \subseteq run.todo
         /\ run'.item \in {item, None}
    <2>1. CASE run' = [run EXCEPT !.item = item, !.todo = @ \ {it}]
      BY <1>1, <1>2, <1>8, <2>1 DEF Runs
    <2>2. CASE run' = [run EXCEPT !.todo = @ \ {it}, !.late = TRUE] /\ run.item = None
      BY <1>1, <1>2, <2>2 DEF Runs
    <2> QED BY <1>9, <2>1, <2>2
  <1>13. DOMAIN journal' = DOMAIN journal  BY <1>2 DEF database
  <1>14. Working'  BY <1>2, <1>3, <1>5, <1>8, <1>12, <1>13 DEF Working
  <1> QED BY <1>10, <1>11, <1>12, <1>14, MailPartsNext

\* The flag of the newest choice has a row to align when it is aligned.
LEMMA MailAlignable ==
  ASSUME DatabaseOK, NEW m \in Messages, NEW want \in Flags, NEW from, Latest(m) # 0,
         from = IF Other(want) \in Copies(m) THEN Other(want) ELSE want
  PROVE  from \in Flags /\ rows[m][from] # None
  <1>1. PICK p \in Paths(m) : rows[m][p].uid  BY MailLatest DEF HasUID, DatabaseOK
  <1>2. p \in Copies(m) /\ p \in Flags /\ rows[m][p] # None  BY <1>1 DEF Copies, Paths
  <1>3. Other(want) \in Flags /\ Other(want) # want  BY MailOther
  <1>4. p \in {want, Other(want)}  BY <1>2, <1>3 DEF Flags
  <1> QED BY <1>2, <1>3, <1>4 DEF Copies, Paths

\* The alignment of a confirmed read moves file and row to its flag.
LEMMA MailAlignSafe == ASSUME MailTypeOK, Working, Align PROVE MailTypeOK' /\ Working'
  <1>1. DiskOK /\ DatabaseOK /\ SessionOK /\ run \in Runs /\ RestOK  BY MailParts
  <1>2. /\ UNCHANGED <<remote, synced, session, plan, faults, history>>
        /\ run.pc = "retry" /\ run.item # None  BY DEF Align
  <1> DEFINE m == run.item.message
             i == run.item.entry
             a == run.item.action
             want == journal[a].want
             from == IF Other(want) \in Copies(m) THEN Other(want) ELSE want
             aligned == journal[Latest(m)].id = journal[a].id
             row == [rows[m][from] EXCEPT !.read = want]
             newRows == IF aligned THEN Rehomed(m, from, want, row) ELSE rows
             kept == IF aligned THEN Cascade(journal, Collided(m, from, want)) ELSE journal
             done == Finish(Finish(kept, m, a, want, newRows), m, i,
                            IF aligned THEN want ELSE journal[i].want, newRows)
  <1>3. run.item \in Confirmed /\ i \in DOMAIN journal /\ a \in DOMAIN journal
    BY <1>2 DEF Working
  <1>4. m \in Messages  BY <1>3 DEF Confirmed
  <1>5. want \in Flags
    <2>1. journal[a] \in Entry  BY <1>1, <1>3 DEF DatabaseOK
    <2> QED BY <2>1 DEF Entry
  <1>6. /\ run' = [run EXCEPT !.item = None] \/ run' = [run EXCEPT !.item = None, !.late = TRUE]
        /\ \/ UNCHANGED <<file, rows, journal>>
           \/ /\ Latest(m) # 0 /\ rows' = newRows /\ journal' = done
              /\ file' = IF aligned /\ from # want THEN [file EXCEPT ![m] = want] ELSE file
    BY DEF Align
  <1> HIDE DEF m, a, i
  <1>7. DiskOK'
    <2> HIDE DEF want, from, aligned
    <2> QED BY <1>1, <1>2, <1>5, <1>6 DEF DiskOK
  <1>8. DatabaseOK' /\ Len(journal') = Len(journal)
    <2>1. CASE UNCHANGED <<file, rows, journal>>  BY <1>1, <2>1 DEF DatabaseOK
    <2>2. CASE Latest(m) # 0 /\ rows' = newRows /\ journal' = done
      <3>1. from \in Flags /\ rows[m][from] # None
        BY <1>1, <1>4, <1>5, <2>2, MailAlignable
      <3>2. row \in Row /\ row.id = rows[m][from].id
        <4> HIDE DEF want, from
        <4> QED BY <1>1, <1>4, <1>5, <3>1, MailFlagged
      <3> HIDE DEF want, from, row, aligned
      <3>3. Keyed(newRows)
        <4>1. Keyed(Rehomed(m, from, want, row))
          BY <1>1, <1>4, <1>5, <3>1, <3>2, MailRehomed DEF DatabaseOK
        <4> QED BY <1>1, <4>1 DEF DatabaseOK
      <3>4. kept \in Seq(Entry) /\ Len(kept) = Len(journal)
        <4>1. /\ Cascade(journal, Collided(m, from, want)) \in Seq(Entry)
              /\ Len(Cascade(journal, Collided(m, from, want))) = Len(journal)
          BY <1>1, MailCascade DEF DatabaseOK
        <4> QED BY <1>1, <4>1 DEF DatabaseOK
      <3> HIDE DEF kept, newRows
      <3> DEFINE js == Finish(kept, m, a, want, newRows)
      <3>5. js \in Seq(Entry) /\ Len(js) = Len(journal)  BY <3>4, MailFinish
      <3> DEFINE flag == IF aligned THEN want ELSE journal[i].want
      <3>6. done = Finish(js, m, i, flag, newRows)  OBVIOUS
      <3> HIDE DEF js, flag, done
      <3>7. done \in Seq(Entry) /\ Len(done) = Len(journal)  BY <3>5, <3>6, MailFinish
      <3>8. Keyed(rows')  BY <2>2, <3>3
      <3>9. Keyed(rows)'  BY <3>8 DEF Keyed
      <3> QED BY <2>2, <3>7, <3>9 DEF DatabaseOK
    <2> HIDE DEF newRows, done, aligned, want, from
    <2> QED BY <1>6, <2>1, <2>2
  <1>9. SessionOK' /\ RestOK'  BY <1>1, <1>2, <1>8, MailSessionKept DEF RestOK, history
  <1>10. run' \in Runs /\ run'.pc = "retry" /\ run'.todo = run.todo /\ run'.item = None
    BY <1>1, <1>2, <1>6 DEF Runs
  <1>11. DOMAIN journal' = DOMAIN journal  BY <1>1, <1>8 DEF DatabaseOK
  <1>12. Working'  BY <1>2, <1>10, <1>11 DEF Working
  <1> QED BY <1>7, <1>8, <1>9, <1>10, <1>12, MailPartsNext

\* What a step leaves alone stays in order.
LEMMA MailFrame ==
  ASSUME DiskOK, DatabaseOK, SessionOK, RestOK,
         UNCHANGED <<disk, database, session, plan, meddled, torn>>,
         Fault \/ UNCHANGED faults, moved' \subseteq Messages
  PROVE  DiskOK' /\ DatabaseOK' /\ SessionOK' /\ RestOK'
  <1>1. faults' \in 0..MaxFaults  BY MailFault DEF RestOK
  <1>2. SessionOK'  BY MailSessionKept DEF database
  <1> QED BY <1>1, <1>2 DEF DiskOK, DatabaseOK, RestOK, disk, database

\* A scan that begins after the retries, after a failure or after a crash.
LEMMA MailBeginSafe == ASSUME MailTypeOK, Working, ToScan \/ RunFails \/ Restart
                       PROVE  MailTypeOK' /\ Working'
  <1>1. DiskOK /\ DatabaseOK /\ SessionOK /\ run \in Runs /\ RestOK  BY MailParts
  <1>2. UNCHANGED <<disk, database, session, plan, meddled, torn>> /\ (Fault \/ UNCHANGED faults)
    BY DEF ToScan, RunFails, Restart
  <1>3. BeginScan(run) \/ BeginScan(Rescue)  BY DEF ToScan, RunFails, Restart
  <1>4. (run \in Runs)' /\ Working' /\ moved' \subseteq Messages
    BY <1>1, <1>3, MailBegins, MailStopped
  <1> QED BY <1>1, <1>2, <1>4, MailFrame, MailPartsNext

\* The walk looks at one file.
LEMMA MailVisitSafe == ASSUME MailTypeOK, Working, NEW m \in Messages, Visit(m)
                       PROVE  MailTypeOK' /\ Working'
  <1>1. DiskOK /\ DatabaseOK /\ SessionOK /\ run \in Runs /\ RestOK  BY MailParts
  <1>2. UNCHANGED <<disk, database, session, plan, faults, history>> /\ run.pc = "scan"
    BY DEF Visit
  <1>3. DiskOK' /\ DatabaseOK' /\ SessionOK' /\ RestOK'
    BY <1>1, <1>2, MailFrame DEF history, RestOK
  <1> DEFINE here == <<m, file[m]>>
             found == IF here \in run.stamps THEN run.unchanged \cup {here} ELSE run.unchanged
             item == IF file[m] = None \/ here \in run.stamps THEN None
                     ELSE [message |-> m, path |-> file[m]]
  <1>4. found \subseteq Messages \X Flags  BY <1>1, MailRun
  <1>5. item \in Found \cup {None}  BY <1>1 DEF DiskOK, Found
  <1>6. run' = [run EXCEPT !.todo = @ \ {m}, !.unchanged = found, !.item = item]  BY DEF Visit
  <1> HIDE DEF found, item
  <1>7. run' \in Runs /\ run'.pc = "scan" /\ run'.todo \subseteq run.todo /\ run'.item = item
    BY <1>1, <1>2, <1>4, <1>5, <1>6 DEF Runs
  <1>8. Working'  BY <1>2, <1>5, <1>7 DEF Working
  <1> QED BY <1>3, <1>7, <1>8, MailPartsNext

\* A walk that missed a renamed file ends, and a rescue begins.
LEMMA MailAbortSafe == ASSUME MailTypeOK, Working, ScanAborts PROVE MailTypeOK' /\ Working'
  <1>1. DiskOK /\ DatabaseOK /\ SessionOK /\ run \in Runs /\ RestOK  BY MailParts
  <1>2. UNCHANGED <<disk, database, session, plan, faults, meddled, torn>>
        /\ (EndScan(Stopped) \/ BeginScan(Rescue))  BY DEF ScanAborts
  <1>3. Stopped.item = None  BY DEF Stopped
  <1>4. (run \in Runs)' /\ Working' /\ moved' \subseteq Messages
    BY <1>1, <1>2, <1>3, MailBegins, MailEnds, MailStopped
  <1> QED BY <1>1, <1>2, <1>4, MailFrame, MailPartsNext

\* A row for a file: the row at its path, a row whose file is gone, or a new id.
LEMMA MailUpsertRows ==
  ASSUME DatabaseOK, NEW m \in Messages, NEW p \in Flags,
         \/ rows[m][p] # None /\ rows' = [rows EXCEPT ![m][p] =
               [id |-> @.id, read |-> p, uid |-> @.uid, fresh |-> TRUE]]
         \/ \E q \in Paths(m) \ {p} : rows' = Rehomed(m, q, p,
               [id |-> rows[m][q].id,
                read |-> IF "seen" \in {p, rows[m][q].read} THEN "seen" ELSE "unseen",
                uid |-> rows[m][q].uid, fresh |-> TRUE])
         \/ \E id \in FreeIds : rows' = [rows EXCEPT ![m][p] =
               [id |-> id, read |-> p, uid |-> FALSE, fresh |-> TRUE]]
  PROVE  Keyed(rows') /\ rows'[m][p] \in Row /\ \A n \in Messages \ {m} : rows'[n] = rows[n]
  <1>1. CASE rows[m][p] # None /\ rows' = [rows EXCEPT ![m][p] =
               [id |-> @.id, read |-> p, uid |-> @.uid, fresh |-> TRUE]]
    <2> DEFINE row == [id |-> rows[m][p].id, read |-> p, uid |-> rows[m][p].uid, fresh |-> TRUE]
    <2>1. rows[m][p] \in Row  BY <1>1 DEF DatabaseOK, Keyed
    <2>2. row \in Row /\ row.id = rows[m][p].id  BY <2>1 DEF Row
    <2>3. rows' = [rows EXCEPT ![m][p] = row]  BY <1>1
    <2> HIDE DEF row
    <2>4. rows' = Rehomed(m, p, p, row)  BY <2>3 DEF Rehomed, DatabaseOK, Keyed
    <2>5. rows[m][p] # None  BY <1>1
    <2>6. Keyed(Rehomed(m, p, p, row)) /\ Rehomed(m, p, p, row)[m][p] = row
          /\ \A n \in Messages \ {m} : Rehomed(m, p, p, row)[n] = rows[n]
      BY <2>2, <2>5, MailRehomed DEF DatabaseOK
    <2> QED BY <2>2, <2>4, <2>6
  <1>2. CASE \E q \in Paths(m) \ {p} : rows' = Rehomed(m, q, p,
               [id |-> rows[m][q].id,
                read |-> IF "seen" \in {p, rows[m][q].read} THEN "seen" ELSE "unseen",
                uid |-> rows[m][q].uid, fresh |-> TRUE])
    <2>1. PICK q \in Paths(m) \ {p} : rows' = Rehomed(m, q, p,
               [id |-> rows[m][q].id,
                read |-> IF "seen" \in {p, rows[m][q].read} THEN "seen" ELSE "unseen",
                uid |-> rows[m][q].uid, fresh |-> TRUE])  BY <1>2
    <2> DEFINE read == IF "seen" \in {p, rows[m][q].read} THEN "seen" ELSE "unseen"
               row == [id |-> rows[m][q].id, read |-> read, uid |-> rows[m][q].uid, fresh |-> TRUE]
    <2>2. q \in Flags /\ rows[m][q] # None  BY DEF Paths
    <2>3. rows[m][q] \in Row  BY <2>2 DEF DatabaseOK, Keyed
    <2>4. read \in Flags  BY DEF Flags
    <2> HIDE DEF read
    <2>5. row \in Row /\ row.id = rows[m][q].id  BY <2>3, <2>4 DEF Row
    <2>6. rows' = Rehomed(m, q, p, row)  BY <2>1 DEF read
    <2> HIDE DEF row
    <2> QED BY <2>2, <2>5, <2>6, MailRehomed DEF DatabaseOK
  <1>3. CASE \E id \in FreeIds : rows' = [rows EXCEPT ![m][p] =
               [id |-> id, read |-> p, uid |-> FALSE, fresh |-> TRUE]]
    <2>1. PICK id \in FreeIds : rows' = [rows EXCEPT ![m][p] =
               [id |-> id, read |-> p, uid |-> FALSE, fresh |-> TRUE]]  BY <1>3
    <2> DEFINE row == [id |-> id, read |-> p, uid |-> FALSE, fresh |-> TRUE]
    <2>2. row \in Row /\ row.id = id  BY DEF Row, FreeIds
    <2>3. \A n \in Messages : \A q \in Flags : rows[n][q] # None => rows[n][q].id # id
      BY DEF FreeIds, PathOf, Paths
    <2>4. rows' = [rows EXCEPT ![m][p] = row]  BY <2>1
    <2> HIDE DEF row
    <2>5. rows' \in [Messages -> [Flags -> Row \cup {None}]]  BY <2>2, <2>4 DEF DatabaseOK, Keyed
    <2>6. \A n \in Messages : \A q \in Flags :
             rows'[n][q] = IF n = m /\ q = p THEN row ELSE rows[n][q]
      BY <2>4 DEF DatabaseOK, Keyed
    <2>7. Keyed(rows')
      <3>1. ASSUME NEW a \in Messages, NEW b \in Messages, NEW x \in Flags, NEW y \in Flags,
                   rows'[a][x] # None, rows'[b][y] # None, rows'[a][x].id = rows'[b][y].id
            PROVE  a = b /\ x = y
        BY <2>2, <2>3, <2>6, <3>1 DEF DatabaseOK, Keyed
      <3> QED BY <2>5, <3>1 DEF Keyed
    <2>8. rows'[m][p] = row /\ \A n \in Messages \ {m} : rows'[n] = rows[n]
      BY <2>4 DEF DatabaseOK, Keyed
    <2> QED BY <2>2, <2>7, <2>8
  <1> QED BY <1>1, <1>2, <1>3

\* What indexing a file does: nothing when it is gone, else one of those three.
LEMMA MailUpsertForms ==
  ASSUME MailTypeOK, Working, Upsert
  PROVE  LET m == run.item.message
             p == run.item.path
         IN /\ run.pc = "scan" /\ m \in Messages /\ p \in Flags
            /\ \/ /\ file[m] # p /\ UNCHANGED rows /\ run' = [run EXCEPT !.item = None]
               \/ /\ Keyed(rows') /\ rows'[m][p] \in Row
                  /\ \A n \in Messages \ {m} : rows'[n] = rows[n]
                  /\ run' = [run EXCEPT !.item = None, !.seen = @ \cup {rows'[m][p].id}]
            /\ torn' \in {torn, torn \cup {m}}
  <1>1. DiskOK /\ DatabaseOK /\ SessionOK /\ run \in Runs /\ RestOK  BY MailParts
  <1> DEFINE m == run.item.message
             p == run.item.path
  <1>2. run.pc = "scan" /\ run.item # None  BY DEF Upsert
  <1>3. run.item \in Found  BY <1>2 DEF Working
  <1>4. m \in Messages /\ p \in Flags  BY <1>3 DEF Found
  <1>5. \/ file[m] # p /\ UNCHANGED rows /\ run' = [run EXCEPT !.item = None]
        \/ /\ run' = [run EXCEPT !.item = None, !.seen = @ \cup {rows'[m][p].id}]
           /\ \/ rows[m][p] # None /\ rows' = [rows EXCEPT ![m][p] =
                    [id |-> @.id, read |-> p, uid |-> @.uid, fresh |-> TRUE]]
              \/ \E q \in Paths(m) \ {p} : rows' = Rehomed(m, q, p,
                    [id |-> rows[m][q].id,
                     read |-> IF "seen" \in {p, rows[m][q].read} THEN "seen" ELSE "unseen",
                     uid |-> rows[m][q].uid, fresh |-> TRUE])
              \/ \E id \in FreeIds : rows' = [rows EXCEPT ![m][p] =
                    [id |-> id, read |-> p, uid |-> FALSE, fresh |-> TRUE]]
    BY Zenon DEF Upsert
  <1>6. torn' \in {torn, torn \cup {m}}  BY DEF Upsert
  <1> HIDE DEF m, p
  <1>7. CASE /\ run' = [run EXCEPT !.item = None, !.seen = @ \cup {rows'[m][p].id}]
             /\ \/ rows[m][p] # None /\ rows' = [rows EXCEPT ![m][p] =
                      [id |-> @.id, read |-> p, uid |-> @.uid, fresh |-> TRUE]]
                \/ \E q \in Paths(m) \ {p} : rows' = Rehomed(m, q, p,
                      [id |-> rows[m][q].id,
                       read |-> IF "seen" \in {p, rows[m][q].read} THEN "seen" ELSE "unseen",
                       uid |-> rows[m][q].uid, fresh |-> TRUE])
                \/ \E id \in FreeIds : rows' = [rows EXCEPT ![m][p] =
                      [id |-> id, read |-> p, uid |-> FALSE, fresh |-> TRUE]]
    <2>1. Keyed(rows') /\ rows'[m][p] \in Row /\ \A n \in Messages \ {m} : rows'[n] = rows[n]
      BY <1>1, <1>4, <1>7, MailUpsertRows
    <2> QED BY <1>2, <1>4, <1>6, <1>7, <2>1 DEF m, p
  <1> QED BY <1>2, <1>4, <1>5, <1>6, <1>7 DEF m, p

\* Indexing a file.
LEMMA MailUpsertSafe == ASSUME MailTypeOK, Working, Upsert PROVE MailTypeOK' /\ Working'
  <1>1. DiskOK /\ DatabaseOK /\ SessionOK /\ run \in Runs /\ RestOK  BY MailParts
  <1>2. UNCHANGED <<disk, journal, session, plan, meddled, moved>> /\ (Fault \/ UNCHANGED faults)
    BY DEF Upsert
  <1> DEFINE m == run.item.message
             p == run.item.path
  <1>3. /\ run.pc = "scan" /\ m \in Messages /\ p \in Flags
        /\ \/ UNCHANGED rows /\ run' = [run EXCEPT !.item = None]
           \/ /\ Keyed(rows') /\ rows'[m][p] \in Row
              /\ run' = [run EXCEPT !.item = None, !.seen = @ \cup {rows'[m][p].id}]
        /\ torn' \in {torn, torn \cup {m}}
    BY MailUpsertForms
  <1> HIDE DEF m, p
  <1>4. Keyed(rows')  BY <1>1, <1>3 DEF DatabaseOK
  <1>5. Keyed(rows)'  BY <1>4 DEF Keyed
  <1>6. DiskOK' /\ DatabaseOK' /\ SessionOK'
    BY <1>1, <1>2, <1>5, MailSessionKept DEF DiskOK, DatabaseOK, disk
  <1>7. faults' \in 0..MaxFaults  BY <1>1, <1>2, MailFault DEF RestOK
  <1>8. RestOK'  BY <1>1, <1>2, <1>3, <1>7 DEF RestOK
  <1>9. run' \in Runs /\ run'.pc = "scan" /\ run'.todo = run.todo /\ run'.item = None
    <2>1. CASE run' = [run EXCEPT !.item = None]  BY <1>1, <1>3, <2>1 DEF Runs
    <2>2. CASE /\ rows'[m][p] \in Row
               /\ run' = [run EXCEPT !.item = None, !.seen = @ \cup {rows'[m][p].id}]
      <3>1. rows'[m][p].id \in RowIds  BY <2>2 DEF Row
      <3> DEFINE id == rows'[m][p].id
      <3>2. id \in RowIds /\ run' = [run EXCEPT !.item = None, !.seen = @ \cup {id}]
        BY <2>2, <3>1
      <3> HIDE DEF id
      <3> QED BY <1>1, <1>3, <3>2 DEF Runs
    <2> QED BY <1>3, <2>1, <2>2
  <1>10. Working'  BY <1>3, <1>9 DEF Working
  <1> QED BY <1>6, <1>8, <1>9, <1>10, MailPartsNext

\* The purge deletes rows and cascades.
LEMMA MailScanDoneSafe == ASSUME MailTypeOK, Working, ScanDone PROVE MailTypeOK' /\ Working'
  <1>1. DiskOK /\ DatabaseOK /\ SessionOK /\ run \in Runs /\ RestOK  BY MailParts
  <1>2. /\ UNCHANGED <<disk, session, plan, faults, meddled, torn>>
        /\ run.pc = "scan" /\ run.item = None  BY DEF ScanDone
  <1>3. CASE EndScan(Stopped) /\ UNCHANGED <<rows, journal>>
    <2>1. Stopped.item = None  BY DEF Stopped
    <2>2. (run \in Runs)' /\ Working' /\ moved' \subseteq Messages
      BY <1>3, <2>1, MailEnds, MailStopped
    <2> QED BY <1>1, <1>2, <1>3, <2>2, MailFrame, MailPartsNext DEF database
  <1>4. CASE /\ rows' = [m \in Messages |-> [p \in Flags |->
                           IF <<m, p>> \in Unseen THEN None ELSE rows[m][p]]]
             /\ journal' = Cascade(journal, {rows[mp[1]][mp[2]].id : mp \in Unseen})
             /\ EndScan([run EXCEPT !.pc = IF run.kind = "reconciliation" THEN "pending"
                                                                         ELSE "ack"])
    <2> DEFINE r == [run EXCEPT !.pc = IF run.kind = "reconciliation" THEN "pending" ELSE "ack"]
    <2>1. r \in Runs /\ r.pc \in {"pending", "ack"} /\ r.item = None  BY <1>1, <1>2 DEF Runs
    <2>2. EndScan(r)  BY <1>4
    <2> HIDE DEF r
    <2>3. (run \in Runs)' /\ Working' /\ moved' \subseteq Messages  BY <2>1, <2>2, MailEnds
    <2>4. \A m \in Messages : \A p \in Flags :
             rows'[m][p] = IF <<m, p>> \in Unseen THEN None ELSE rows[m][p]  BY <1>4
    <2>5. rows' \in [Messages -> [Flags -> Row \cup {None}]]
      BY <1>1, <1>4 DEF DatabaseOK, Keyed
    <2>6. Keyed(rows')  BY <1>1, <2>4, <2>5, MailKept DEF DatabaseOK
    <2>7. Keyed(rows)'  BY <2>6 DEF Keyed
    <2>8. journal' \in Seq(Entry) /\ Len(journal') = Len(journal)
      BY <1>1, <1>4, MailCascade DEF DatabaseOK
    <2>9. DiskOK' /\ SessionOK' /\ DatabaseOK' /\ RestOK'
      BY <1>1, <1>2, <2>3, <2>7, <2>8, MailSessionKept DEF DiskOK, DatabaseOK, RestOK, disk
    <2> QED BY <2>3, <2>9, MailPartsNext
  <1> QED BY <1>3, <1>4 DEF ScanDone

\* The provider's listing becomes the run's list.
LEMMA MailPendingSafe == ASSUME MailTypeOK, Working, Pending PROVE MailTypeOK' /\ Working'
  <1>1. DiskOK /\ DatabaseOK /\ SessionOK /\ run \in Runs /\ RestOK  BY MailParts
  <1>2. UNCHANGED <<disk, database, session, plan, faults, history>> /\ run.pc = "pending"
    BY DEF Pending
  <1>3. DiskOK' /\ DatabaseOK' /\ SessionOK' /\ RestOK'
    BY <1>1, <1>2, MailFrame DEF history, RestOK
  <1> DEFINE list == {[message |-> m, flag |-> remote[m]] : m \in Messages}
  <1>4. list \subseteq Answers  BY <1>1 DEF DiskOK, Answers
  <1>5. PICK old \in 0..Len(journal) :
          run' = [run EXCEPT !.pc = "identities", !.protected = Protected(old), !.todo = list]
    BY DEF Pending
  <1> DEFINE kept == Protected(old)
  <1>6. kept \subseteq Messages  BY DEF Protected
  <1>7. run' = [run EXCEPT !.pc = "identities", !.protected = kept, !.todo = list]  BY <1>5
  <1> HIDE DEF list, kept
  <1>8. run' \in Runs /\ run'.pc = "identities" /\ run'.todo = list /\ run'.item = run.item
    BY <1>1, <1>4, <1>6, <1>7 DEF Runs
  <1>9. Working'  BY <1>2, <1>4, <1>8 DEF Working
  <1> QED BY <1>3, <1>8, <1>9, MailPartsNext

\* A listed message gets its UID and, unless it is protected, the provider's flag.
LEMMA MailIdentifySafe == ASSUME MailTypeOK, Working, NEW it \in run.todo, Identify(it)
                          PROVE  MailTypeOK' /\ Working'
  <1>1. DiskOK /\ DatabaseOK /\ SessionOK /\ run \in Runs /\ RestOK  BY MailParts
  <1>2. /\ UNCHANGED <<disk, journal, session, plan, faults, history>>
        /\ run.pc = "identities" /\ it.flag # None /\ run' = [run EXCEPT !.todo = @ \ {it}]
    BY DEF Identify
  <1> DEFINE m == it.message
  <1>3. it \in Answers  BY <1>2 DEF Working
  <1>4. m \in Messages /\ it.flag \in Flags  BY <1>2, <1>3 DEF Answers
  <1> DEFINE update(row) == [row EXCEPT !.uid = TRUE, !.fresh = FALSE,
                                        !.read = IF m \in run.protected THEN @ ELSE it.flag]
             updated == [rows EXCEPT ![m] = [p \in Flags |->
                            IF @[p] = None THEN None ELSE update(@[p])]]
  <1>5. rows' = updated \/ rows' = rows  BY DEF Identify
  <1>6. ASSUME NEW row \in Row PROVE update(row) \in Row /\ update(row).id = row.id
    BY <1>4 DEF Row
  <1> HIDE DEF update
  <1>7. \A n \in Messages : \A p \in Flags :
           updated[n][p] = IF n = m /\ rows[n][p] # None THEN update(rows[n][p]) ELSE rows[n][p]
    BY <1>1, <1>4 DEF DatabaseOK, Keyed
  <1>8. updated \in [Messages -> [Flags -> Row \cup {None}]]
    <2>1. [p \in Flags |-> IF rows[m][p] = None THEN None ELSE update(rows[m][p])]
            \in [Flags -> Row \cup {None}]
      BY <1>1, <1>4, <1>6 DEF DatabaseOK, Keyed
    <2> QED BY <1>1, <1>4, <2>1 DEF DatabaseOK, Keyed
  <1> HIDE DEF updated, m
  <1>9. Keyed(updated)
    <2>1. ASSUME NEW n \in Messages, NEW p \in Flags, updated[n][p] # None
          PROVE  rows[n][p] # None /\ updated[n][p].id = rows[n][p].id
      <3>1. CASE n = m /\ rows[n][p] # None
        <4>1. rows[n][p] \in Row  BY <1>1, <3>1 DEF DatabaseOK, Keyed
        <4> QED BY <1>6, <1>7, <3>1, <4>1
      <3>2. CASE ~(n = m /\ rows[n][p] # None)  BY <1>7, <2>1, <3>2
      <3> QED BY <3>1, <3>2
    <2> QED BY <1>1, <1>8, <2>1, MailKept DEF DatabaseOK
  <1>10. Keyed(rows')  BY <1>1, <1>5, <1>9 DEF DatabaseOK
  <1>11. Keyed(rows)'  BY <1>10 DEF Keyed
  <1>12. DiskOK' /\ DatabaseOK' /\ SessionOK' /\ RestOK'
    BY <1>1, <1>2, <1>11, MailSessionKept DEF DiskOK, DatabaseOK, RestOK, disk, history
  <1>13. (run \in Runs)' /\ Working'  BY <1>1, <1>2, MailLess DEF DatabaseOK
  <1> QED BY <1>12, <1>13, MailPartsNext

\* Rows get the UIDs of their files.
LEMMA MailHydrateSafe == ASSUME MailTypeOK, Working, Hydrate PROVE MailTypeOK' /\ Working'
  <1>1. DiskOK /\ DatabaseOK /\ SessionOK /\ run \in Runs /\ RestOK  BY MailParts
  <1>2. /\ UNCHANGED <<disk, journal, session, plan, faults, history>>
        /\ run.pc = "identities" /\ run' = [run EXCEPT !.pc = "stale"]
        /\ rows' = [m \in Messages |-> [p \in Flags |->
                      IF synced[m] # None THEN Hydrated(rows[m][p]) ELSE rows[m][p]]]
    BY DEF Hydrate
  <1>3. ASSUME NEW row \in Row \cup {None}
        PROVE  /\ Hydrated(row) \in Row \cup {None}
               /\ Hydrated(row) # None => row # None /\ Hydrated(row).id = row.id
    BY DEF Hydrated, Row
  <1>4. \A m \in Messages : \A p \in Flags :
           /\ rows[m][p] \in Row \cup {None}
           /\ rows'[m][p] = IF synced[m] # None THEN Hydrated(rows[m][p]) ELSE rows[m][p]
    BY <1>1, <1>2 DEF DatabaseOK, Keyed
  <1>5. \A m \in Messages : \A p \in Flags :
           /\ rows'[m][p] \in Row \cup {None}
           /\ rows'[m][p] # None => rows[m][p] # None /\ rows'[m][p].id = rows[m][p].id
    BY <1>3, <1>4
  <1>6. rows' \in [Messages -> [Flags -> Row \cup {None}]]
    <2>1. \A m \in Messages : [p \in Flags |->
              IF synced[m] # None THEN Hydrated(rows[m][p]) ELSE rows[m][p]]
                 \in [Flags -> Row \cup {None}]
      BY <1>3, <1>4
    <2> QED BY <1>2, <2>1
  <1>7. Keyed(rows')  BY <1>1, <1>5, <1>6, MailKept DEF DatabaseOK
  <1>8. Keyed(rows)'  BY <1>7 DEF Keyed
  <1>9. DiskOK' /\ DatabaseOK' /\ SessionOK' /\ RestOK'
    BY <1>1, <1>2, <1>8, MailSessionKept DEF DiskOK, DatabaseOK, RestOK, disk, history
  <1>10. /\ run' \in Runs /\ run'.pc = "stale" /\ run'.item = run.item
         /\ run'.todo = run.todo
    BY <1>1, <1>2 DEF Runs
  <1>11. Working'  BY <1>2, <1>10 DEF Working
  <1> QED BY <1>9, <1>10, <1>11, MailPartsNext

\* A message the provider no longer lists loses its file and its rows.
LEMMA MailExpungeSafe == ASSUME MailTypeOK, Working, NEW it \in run.todo, Expunge(it)
                         PROVE  MailTypeOK' /\ Working'
  <1>1. DiskOK /\ DatabaseOK /\ SessionOK /\ run \in Runs /\ RestOK  BY MailParts
  <1> DEFINE m == it.message
  <1>2. /\ UNCHANGED <<remote, synced, session, plan, faults, history>>
        /\ run.pc = "stale" /\ run' = [run EXCEPT !.todo = @ \ {it}]
        /\ rows' = [rows EXCEPT ![m] = [p \in Flags |-> None]]
        /\ journal' = Cascade(journal, {rows[m][p].id : p \in Paths(m)})
        /\ file' = IF file[m] \in Paths(m) THEN [file EXCEPT ![m] = None] ELSE file
    BY DEF Expunge
  <1>3. it \in Answers  BY <1>2 DEF Working
  <1>4. m \in Messages  BY <1>3 DEF Answers
  <1> HIDE DEF m
  <1>5. rows' \in [Messages -> [Flags -> Row \cup {None}]]
    BY <1>1, <1>2, <1>4 DEF DatabaseOK, Keyed
  <1>6. \A n \in Messages : \A p \in Flags : rows'[n][p] = IF n = m THEN None ELSE rows[n][p]
    BY <1>1, <1>2, <1>4 DEF DatabaseOK, Keyed
  <1>7. Keyed(rows')  BY <1>1, <1>5, <1>6, MailKept DEF DatabaseOK
  <1>8. Keyed(rows)'  BY <1>7 DEF Keyed
  <1>9. journal' \in Seq(Entry) /\ Len(journal') = Len(journal)
    BY <1>1, <1>2, MailCascade DEF DatabaseOK
  <1>10. DiskOK'  BY <1>1, <1>2, <1>4 DEF DiskOK
  <1>11. DatabaseOK' /\ SessionOK' /\ RestOK'
    BY <1>1, <1>2, <1>8, <1>9, MailSessionKept DEF DatabaseOK, RestOK, history
  <1>12. (run \in Runs)' /\ Working'  BY <1>1, <1>2, <1>9, MailLess DEF DatabaseOK
  <1> QED BY <1>10, <1>11, <1>12, MailPartsNext

\* The run goes on to acknowledge.
LEMMA MailToAckSafe == ASSUME MailTypeOK, Working, ToAck PROVE MailTypeOK' /\ Working'
  <1>1. DiskOK /\ DatabaseOK /\ SessionOK /\ run \in Runs /\ RestOK  BY MailParts
  <1>2. /\ UNCHANGED <<disk, database, session, plan, faults, history>>
        /\ run.pc = "stale" /\ run' = [run EXCEPT !.pc = "ack"]
    BY DEF ToAck
  <1>3. DiskOK' /\ DatabaseOK' /\ SessionOK' /\ RestOK'
    BY <1>1, <1>2, MailFrame DEF history, RestOK
  <1>4. run' \in Runs /\ run'.pc = "ack" /\ run'.item = run.item  BY <1>1, <1>2 DEF Runs
  <1>5. Working'  BY <1>2, <1>4 DEF Working
  <1> QED BY <1>3, <1>4, <1>5, MailPartsNext

\* The acknowledgement changes the status of entries only.
LEMMA MailAckSafe == ASSUME MailTypeOK, Working, Ack PROVE MailTypeOK' /\ Working'
  <1>1. DiskOK /\ DatabaseOK /\ SessionOK /\ run \in Runs /\ RestOK  BY MailParts
  <1>2. /\ UNCHANGED <<disk, rows, session, plan, faults, meddled, torn>>
        /\ journal' = [i \in DOMAIN journal |-> IF i \in Acknowledged
                         THEN [journal[i] EXCEPT !.status = "synchronized"] ELSE journal[i]]
        /\ BeginScan(Rescue) \/ (run' = Stopped /\ UNCHANGED moved)
    BY DEF Ack
  <1>3. journal' \in Seq(Entry) /\ Len(journal') = Len(journal)
    <2>1. journal \in Seq(Entry) /\ \A i \in 1..Len(journal) : journal[i] \in Entry
      BY <1>1 DEF DatabaseOK
    <2>2. journal' = [i \in 1..Len(journal) |-> IF i \in Acknowledged
                         THEN [journal[i] EXCEPT !.status = "synchronized"] ELSE journal[i]]
      BY <1>2, <2>1
    <2>3. \A i \in 1..Len(journal) : journal'[i] \in Entry
      <3>1. \A e \in Entry : [e EXCEPT !.status = "synchronized"] \in Entry  BY DEF Entry
      <3> QED BY <2>1, <2>2, <3>1
    <2>4. journal' = [i \in 1..Len(journal) |-> journal'[i]]  BY <2>2
    <2> QED BY <2>1, <2>3, <2>4
  <1>4. (run \in Runs)' /\ Working' /\ moved' \subseteq Messages
    <2>1. CASE BeginScan(Rescue)  BY <1>1, <2>1, MailBegins, MailStopped
    <2>2. CASE run' = Stopped /\ UNCHANGED moved
      <3>1. run' \in Runs /\ run'.pc = "idle" /\ run'.item = None
        BY <2>2, MailStopped DEF Stopped
      <3> QED BY <1>1, <2>2, <3>1 DEF Working, RestOK
    <2> QED BY <1>2, <2>1, <2>2
  <1>5. DiskOK' /\ DatabaseOK' /\ SessionOK' /\ RestOK'
    BY <1>1, <1>2, <1>3, <1>4, MailSessionKept DEF DiskOK, DatabaseOK, Keyed, RestOK, disk
  <1> QED BY <1>4, <1>5, MailPartsNext

-----------------------------------------------------------------------------
(* The steps around them keep MailTypeOK and Working. *)

\* Another client changes the provider's flag.
LEMMA MailElsewhereSafe == ASSUME MailTypeOK, Working, NEW m \in Messages, Elsewhere(m)
                           PROVE  MailTypeOK' /\ Working'
  <1>1. DiskOK /\ DatabaseOK /\ SessionOK /\ run \in Runs /\ RestOK  BY MailParts
  <1>2. /\ UNCHANGED <<synced, file, database, session, plan, run, torn, moved>> /\ Fault
        /\ remote[m] # None /\ meddled' = [meddled EXCEPT ![m] = TRUE]
    BY DEF Elsewhere
  <1>3. PICK f \in {Other(remote[m]), None} : remote' = [remote EXCEPT ![m] = f]
    BY DEF Elsewhere
  <1>4. remote[m] \in Flags  BY <1>1, <1>2 DEF DiskOK
  <1>5. f \in Flags \cup {None}  BY <1>3, <1>4, MailOther
  <1>6. DiskOK' /\ DatabaseOK'  BY <1>1, <1>2, <1>3, <1>5 DEF DiskOK, DatabaseOK, database
  <1>7. faults' \in 0..MaxFaults  BY <1>1, <1>2, MailFault DEF RestOK
  <1>8. SessionOK' /\ RestOK' /\ (run \in Runs)'
    BY <1>1, <1>2, <1>7, MailSessionKept DEF RestOK, database
  <1>9. Working'  BY <1>1, <1>2, MailIdleRun DEF DatabaseOK, database
  <1> QED BY <1>6, <1>8, <1>9, MailPartsNext

\* Other folders are mapped.
LEMMA MailReplanSafe == ASSUME MailTypeOK, Working, Replan PROVE MailTypeOK' /\ Working'
  <1>1. DiskOK /\ DatabaseOK /\ SessionOK /\ run \in Runs /\ RestOK  BY MailParts
  <1>2. /\ UNCHANGED <<disk, database, session, run, history>> /\ Fault
        /\ plan' \subseteq Messages
    BY DEF Replan
  <1>3. faults' \in 0..MaxFaults  BY <1>1, <1>2, MailFault DEF RestOK
  <1>4. DiskOK' /\ DatabaseOK' /\ SessionOK' /\ RestOK' /\ (run \in Runs)'
    BY <1>1, <1>2, <1>3, MailSessionKept
    DEF DiskOK, DatabaseOK, RestOK, disk, database, history
  <1>5. Working'  BY <1>1, <1>2, MailIdleRun DEF DatabaseOK, database
  <1> QED BY <1>4, <1>5, MailPartsNext

\* A crash ends call and run where they are.
LEMMA MailCrashSafe == ASSUME MailTypeOK, Working, Crash PROVE MailTypeOK' /\ Working'
  <1>1. DiskOK /\ DatabaseOK /\ SessionOK /\ run \in Runs /\ RestOK  BY MailParts
  <1>2. /\ UNCHANGED <<disk, database, toggles, plan, torn>> /\ Fault
        /\ caller' = Quiet /\ listed' = [m \in Messages |-> None]
        /\ run' = [Stopped EXCEPT !.pc = "restart"] /\ moved' = {}
    BY DEF Crash
  <1>3. meddled' \in [Messages -> BOOLEAN]
    <2>1. meddled' = [m \in Messages |-> meddled[m] \/ Changing(m)]  BY DEF Crash
    <2>2. \A m \in Messages : (meddled[m] \/ Changing(m)) \in BOOLEAN  OBVIOUS
    <2> QED BY <2>1, <2>2
  <1>4. DiskOK' /\ DatabaseOK'  BY <1>1, <1>2 DEF DiskOK, DatabaseOK, disk, database
  <1>5. SessionOK'
    <2>1. Len(journal) \in Nat /\ journal' = journal  BY <1>1, <1>2 DEF DatabaseOK, database
    <2>2. Len(journal) <= toggles /\ toggles \in 0..MaxToggles
      <3>1. Len(journal) + (IF caller = Quiet THEN 0 ELSE 1) <= toggles /\ toggles \in 0..MaxToggles
        BY <1>1 DEF SessionOK
      <3> QED BY <2>1, <3>1, MailBounds
    <2>3. caller'.pc = "idle"  BY <1>2 DEF Quiet
    <2> QED BY <1>2, <2>1, <2>2, <2>3 DEF SessionOK
  <1>6. faults' \in 0..MaxFaults  BY <1>1, <1>2, MailFault DEF RestOK
  <1>7. RestOK'  BY <1>1, <1>2, <1>3, <1>6 DEF RestOK
  <1>8. run' \in Runs /\ run'.pc = "restart" /\ run'.item = None
    BY <1>2, MailStopped DEF Runs, Stopped
  <1>9. Working'  BY <1>8 DEF Working
  <1> QED BY <1>4, <1>5, <1>7, <1>8, <1>9, MailPartsNext

-----------------------------------------------------------------------------
(* MailTypeOK and Working hold of every state. *)

\* At the start.
LEMMA MailInitSafe == ASSUME MailInit PROVE MailTypeOK /\ Working /\ Scanned
  <1>1. DiskOK  BY DEF MailInit, DiskOK
  <1>2. DatabaseOK  BY DEF MailInit, DatabaseOK, Keyed
  <1>3. journal = <<>> /\ caller = Quiet /\ toggles = 0 /\ caller.pc = "idle"
    BY DEF MailInit, Quiet
  <1>4. SessionOK  BY <1>3, MailBounds DEF MailInit, SessionOK
  <1>5. RestOK  BY MailBounds DEF MailInit, RestOK
  <1>6. run \in Runs /\ run.pc = "idle" /\ run.item = None
    BY MailStopped DEF MailInit, Stopped
  <1>7. Working /\ Scanned  BY <1>6 DEF Working, Scanned
  <1> QED BY <1>1, <1>2, <1>4, <1>5, <1>6, <1>7, MailParts

\* In every step.
LEMMA MailSafe == ASSUME MailTypeOK, Working, [MailNext]_mailVars
                  PROVE  MailTypeOK' /\ Working'
  <1>1. CASE UNCHANGED mailVars
    <2>1. UNCHANGED <<remote, synced, file, rows, journal, listed, caller, plan, toggles, run,
                      faults, meddled, torn, moved>>
      BY <1>1 DEF mailVars, disk, database, history, session
    <2> QED BY <2>1 DEF MailTypeOK, Keyed, Working
  <1>2. ASSUME NEW m \in Messages, List(m) \/ Rename(m) \/ Elsewhere(m) \/ Mbsync(m) \/ Visit(m)
        PROVE  MailTypeOK' /\ Working'
    BY <1>2, MailListSafe, MailRenameSafe, MailElsewhereSafe, MailMbsyncSafe, MailVisitSafe
  <1>3. CASE Caller  BY <1>3, MailMarkSafe, MailRecordSafe DEF Caller
  <1>4. ASSUME NEW kind \in Kinds, Start(kind) PROVE MailTypeOK' /\ Working'
    BY <1>4, MailStartSafe
  <1>5. ASSUME NEW it \in run.todo, Retry(it) \/ Identify(it) \/ Expunge(it)
        PROVE  MailTypeOK' /\ Working'
    BY <1>5, MailRetrySafe, MailIdentifySafe, MailExpungeSafe
  <1>6. CASE Watermark \/ MbsyncDone \/ Align \/ ToScan \/ Restart \/ RunFails
    BY <1>6, MailWatermarkSafe, MailMbsyncDoneSafe, MailAlignSafe, MailBeginSafe
  <1>7. CASE Upsert \/ ScanDone \/ Pending \/ Hydrate \/ ToAck \/ Ack \/ ScanAborts
    BY <1>7, MailUpsertSafe, MailScanDoneSafe, MailPendingSafe, MailHydrateSafe,
       MailToAckSafe, MailAckSafe, MailAbortSafe
  <1>8. CASE Replan \/ Crash  BY <1>8, MailReplanSafe, MailCrashSafe
  <1> QED BY <1>1, <1>2, <1>3, <1>4, <1>5, <1>6, <1>7, <1>8 DEF MailNext, Run

-----------------------------------------------------------------------------
(* What the scan has found. *)

\* A step beside the scan that touches moved messages only.
LEMMA MailScanKept ==
  ASSUME Scanned, run' = run, moved \subseteq moved',
         run.pc = "scan" => (caller'.pc # "idle" => caller'.message \in moved'),
         run.pc = "scan" => \A m \in Messages : m \notin moved' =>
            file'[m] = file[m] /\ rows'[m] = rows[m],
         Working
  PROVE  Scanned'
  <1>1. run.pc = "scan" /\ run.item # None => run.item.message \in Messages
    BY DEF Working, Found
  <1> QED BY <1>1 DEF Scanned, Seen

\* Outside a scan there is nothing to keep.
LEMMA MailNoScan == ASSUME run'.pc # "scan" PROVE Scanned'
  BY DEF Scanned

\* The caller renames messages it has declared moved.
LEMMA MailCallerScanned ==
  ASSUME MailTypeOK, Working, Scanned, Mark \/ Record \/ \E m \in Messages : List(m) \/ Rename(m)
  PROVE  Scanned'
  <1>1. DiskOK /\ DatabaseOK /\ SessionOK /\ run \in Runs /\ RestOK  BY MailParts
  <1>2. ASSUME NEW m \in Messages, List(m) PROVE Scanned'
    <2>1. UNCHANGED <<file, rows, caller, run, moved>>
      BY <1>2 DEF List, disk, database, history
    <2> QED BY <2>1, MailScanKept DEF Scanned
  <1>3. ASSUME NEW m \in Messages, Rename(m) PROVE Scanned'
    <2>1. /\ UNCHANGED <<rows, run>> /\ moved' = moved \cup DuringScan({m})
          /\ \E f : file' = [file EXCEPT ![m] = f]
          /\ \E want : caller' = [pc |-> "renamed", message |-> m, want |-> want, path |-> want,
                                  from |-> file[m]]
      BY <1>3 DEF Rename, database
    <2>2. caller'.message = m  BY <2>1
    <2>3. run.pc = "scan" => moved' = moved \cup {m}  BY <2>1 DEF DuringScan
    <2>4. \A n \in Messages \ {m} : file'[n] = file[n]  BY <1>1, <2>1 DEF DiskOK
    <2>5. moved \subseteq moved'  BY <2>1
    <2> QED BY <2>1, <2>2, <2>3, <2>4, <2>5, MailScanKept
  <1>4. ASSUME caller.pc # "idle", Undo(caller.message, caller.path)
        PROVE  /\ caller'.pc = "idle" /\ moved \subseteq moved'
               /\ \A n \in Messages \ {caller.message} : file'[n] = file[n]
    <2>1. caller' = Quiet /\ moved' = moved \cup DuringScan({caller.message})  BY <1>4 DEF Undo
    <2>2. \A n \in Messages \ {caller.message} : file'[n] = file[n]
      BY <1>1, <1>4 DEF Undo, DiskOK
    <2> QED BY <2>1, <2>2 DEF Quiet
  <1>5. ASSUME Mark PROVE Scanned'
    <2> DEFINE m == caller.message
    <2>1. run' = run /\ caller.pc = "renamed" /\ caller.pc # "idle"  BY <1>5 DEF Mark
    <2>2. m \in Messages /\ caller.want \in Flags /\ caller \in Changes  BY <1>1, <2>1, MailChange
    <2>3. CASE \E p \in PathOf(m, listed[m].row) :
                /\ rows' = Rehomed(m, p, caller.want, [rows[m][p] EXCEPT
                                       !.read = caller.want, !.fresh = FALSE])
                /\ caller' = [caller EXCEPT !.pc = "marked"]
                /\ UNCHANGED <<file, faults, history>>
      <3>1. PICK p \in PathOf(m, listed[m].row) :
                /\ rows' = Rehomed(m, p, caller.want, [rows[m][p] EXCEPT
                                       !.read = caller.want, !.fresh = FALSE])
                /\ caller' = [caller EXCEPT !.pc = "marked"]
                /\ UNCHANGED <<file, faults, history>>  BY <2>3
      <3>2. \A n \in Messages \ {m} : rows'[n] = rows[n]
        <4>1. p \in Flags  BY MailPathOf
        <4> QED BY <1>1, <2>2, <3>1, <4>1 DEF Rehomed, DatabaseOK, Keyed
      <3>3. caller'.message = m /\ file' = file /\ moved' = moved
        BY <2>2, <3>1 DEF Changes, history
      <3> QED BY <2>1, <3>2, <3>3, MailScanKept DEF Scanned
    <2>4. CASE Undo(m, caller.path) /\ UNCHANGED <<rows, journal>>
      BY <1>4, <2>1, <2>4, MailScanKept DEF Scanned
    <2> QED BY <1>5, <2>3, <2>4 DEF Mark
  <1>6. ASSUME Record PROVE Scanned'
    <2> DEFINE m == caller.message
    <2>1. run' = run /\ caller.pc = "marked" /\ caller.pc # "idle"  BY <1>6 DEF Record
    <2>2. m \in Messages /\ caller.path \in Flags /\ listed[m].path \in Flags
      BY <1>1, <2>1, MailChange
    <2>3. CASE caller' = Quiet /\ UNCHANGED <<file, rows, faults, moved>>
      <3>1. caller'.pc = "idle"  BY <2>3 DEF Quiet
      <3> QED BY <2>1, <2>3, <3>1, MailScanKept
    <2>4. CASE /\ Undo(m, caller.path)
               /\ \/ rows' = Rehomed(m, caller.path, listed[m].path,
                                     [rows[m][caller.path] EXCEPT !.read = listed[m].read])
                  \/ UNCHANGED rows
      <3>1. \A n \in Messages \ {m} : rows'[n] = rows[n]
        BY <1>1, <2>2, <2>4 DEF Rehomed, DatabaseOK, Keyed
      <3> QED BY <1>4, <2>1, <2>4, <3>1, MailScanKept DEF Scanned
    <2> QED BY <1>6, <2>3, <2>4 DEF Record
  <1> QED BY <1>2, <1>3, <1>5, <1>6

\* A visited file is found unchanged or becomes the item to index.
LEMMA MailVisitScanned == ASSUME MailTypeOK, Working, Scanned, NEW m \in Messages, Visit(m)
                          PROVE  Scanned'
  <1>1. DiskOK /\ DatabaseOK /\ SessionOK /\ run \in Runs /\ RestOK  BY MailParts
  <1>2. UNCHANGED <<file, rows, caller, moved>> /\ run.pc = "scan" /\ run.item = None
    BY DEF Visit, disk, database, session, history
  <1> DEFINE here == <<m, file[m]>>
             found == IF here \in run.stamps THEN run.unchanged \cup {here} ELSE run.unchanged
             item == IF file[m] = None \/ here \in run.stamps THEN None
                     ELSE [message |-> m, path |-> file[m]]
  <1>3. run' = [run EXCEPT !.todo = @ \ {m}, !.unchanged = found, !.item = item]  BY DEF Visit
  <1>4. item # None => item.message = m /\ item.path = file[m]  OBVIOUS
  <1>5. run.unchanged \subseteq found /\ (here \in run.stamps => here \in found)  OBVIOUS
  <1>6. file[m] # None /\ here \notin run.stamps => item.message = m /\ item.path = file[m]
    OBVIOUS
  <1> HIDE DEF found, item
  <1>7. /\ run'.seen = run.seen /\ run'.unchanged = found /\ run'.todo = run.todo \ {m}
        /\ run'.item = item
    BY <1>1, <1>3 DEF Runs
  <1>8. caller'.pc # "idle" => caller'.message \in moved'  BY <1>2 DEF Scanned
  <1>9. \A n : Seen(n, file[n]) => Seen(n, file[n])'
    BY <1>2, <1>5, <1>7 DEF Seen
  <1>10. ASSUME NEW n \in Messages, n \notin moved', n \notin run'.todo, file'[n] # None
        PROVE  \/ run'.item # None /\ run'.item.message = n /\ run'.item.path = file'[n]
               \/ rows'[n][file'[n]] # None => Seen(n, file[n])'
    <2>1. CASE n # m
      <3>1. n \notin moved /\ n \notin run.todo /\ file[n] # None
        BY <1>2, <1>7, <1>10, <2>1
      <3>2. rows[n][file[n]] # None => Seen(n, file[n])  BY <1>2, <3>1 DEF Scanned
      <3> QED BY <1>2, <1>9, <3>2
    <2>2. CASE n = m /\ here \in run.stamps
      <3>1. <<n, file[n]>> \in run'.unchanged  BY <1>5, <1>7, <2>2
      <3>2. Seen(n, file[n])'  BY <1>2, <3>1 DEF Seen
      <3> QED BY <3>2
    <2>3. CASE n = m /\ here \notin run.stamps
      <3>1. file[m] # None  BY <1>2, <1>10, <2>3
      <3>2. item.message = m /\ item.path = file[m]  BY <1>6, <2>3, <3>1
      <3>3. item # None
        <4>1. item = [message |-> m, path |-> file[m]]  BY <2>3, <3>1 DEF item
        <4>2. item \in Found  BY <1>1, <3>1, <4>1 DEF Found, DiskOK
        <4> QED BY <4>2, NoneApart
      <3> QED BY <1>2, <1>7, <2>3, <3>2, <3>3
    <2> QED BY <2>1, <2>2, <2>3
  <1> QED BY <1>2, <1>7, <1>8, <1>10, <1>4 DEF Scanned

\* An indexed file is seen by the id of its row.
LEMMA MailUpsertScanned == ASSUME MailTypeOK, Working, Scanned, Upsert PROVE Scanned'
  <1>1. DiskOK /\ DatabaseOK /\ SessionOK /\ run \in Runs /\ RestOK  BY MailParts
  <1>2. UNCHANGED <<file, caller, moved>>  BY DEF Upsert, disk, session
  <1> DEFINE m == run.item.message
             p == run.item.path
  <1>3. /\ run.pc = "scan" /\ m \in Messages /\ p \in Flags
        /\ \/ /\ file[m] # p /\ UNCHANGED rows /\ run' = [run EXCEPT !.item = None]
           \/ /\ \A n \in Messages \ {m} : rows'[n] = rows[n]
              /\ run' = [run EXCEPT !.item = None, !.seen = @ \cup {rows'[m][p].id}]
    BY MailUpsertForms
  <1> HIDE DEF m, p
  <1>4. /\ run'.unchanged = run.unchanged /\ run'.todo = run.todo /\ run.seen \subseteq run'.seen
        /\ run'.item = None
    <2>1. CASE run' = [run EXCEPT !.item = None]  BY <1>1, <2>1 DEF Runs
    <2>2. ASSUME NEW id, run' = [run EXCEPT !.item = None, !.seen = @ \cup {id}]
          PROVE  /\ run'.unchanged = run.unchanged /\ run'.todo = run.todo
                 /\ run.seen \subseteq run'.seen /\ run'.item = None
      BY <1>1, <2>2 DEF Runs
    <2> QED BY <1>3, <2>1, <2>2
  <1>5. /\ caller'.pc # "idle" => caller'.message \in moved'
        /\ run.item # None /\ m \notin moved => p = file[m]  BY <1>2, <1>3 DEF Scanned, m, p
  <1>6. run.item # None  BY DEF Upsert
  <1>7. ASSUME NEW n \in Messages, n \notin moved', n \notin run'.todo, file'[n] # None
        PROVE  rows'[n][file'[n]] # None => Seen(n, file[n])'
    <2>1. \/ run.item # None /\ m = n /\ p = file[n]
          \/ rows[n][file[n]] # None => Seen(n, file[n])
      BY <1>2, <1>3, <1>4, <1>7 DEF Scanned, m, p
    <2>2. ASSUME rows[n][file[n]] # None => Seen(n, file[n]), rows'[n] = rows[n]
          PROVE  rows'[n][file'[n]] # None => Seen(n, file[n])'
      BY <1>2, <1>4, <2>2 DEF Seen
    <2>3. CASE file[m] # p /\ UNCHANGED rows  BY <2>1, <2>2, <2>3
    <2>4. CASE /\ \A k \in Messages \ {m} : rows'[k] = rows[k]
               /\ run' = [run EXCEPT !.item = None, !.seen = @ \cup {rows'[m][p].id}]
      <3>1. CASE n # m  BY <2>1, <2>2, <2>4, <3>1
      <3>2. CASE n = m /\ p = file[n]
        <4>1. rows'[n][file[n]].id \in run'.seen  BY <1>1, <2>4, <3>2 DEF Runs
        <4>2. Seen(n, file[n])'  BY <1>2, <4>1 DEF Seen
        <4> QED BY <4>2
      <3> QED BY <1>2, <1>5, <1>7, <1>6, <3>1, <3>2
    <2> QED BY <1>3, <2>3, <2>4
  <1> QED BY <1>4, <1>5, <1>7 DEF Scanned

\* The invariant.
MailInv == MailTypeOK /\ Working /\ Scanned

\* Scanned holds after every step.
LEMMA MailScannedStep == ASSUME MailInv, [MailNext]_mailVars PROVE Scanned'
  <1>1. MailTypeOK /\ Working /\ Scanned  BY DEF MailInv
  <1>2. DiskOK /\ DatabaseOK /\ SessionOK /\ run \in Runs /\ RestOK  BY <1>1, MailParts
  <1>3. ASSUME NEW r \in Runs, BeginScan(r), UNCHANGED session PROVE Scanned'
    <2>1. /\ run'.pc = "scan" /\ run'.todo = Messages /\ run'.item = None
          /\ caller.pc # "idle" => caller.message \in moved'
      BY <1>2, <1>3, MailBegins DEF BeginScan, Runs
    <2>2. caller' = caller  BY <1>3 DEF session
    <2> QED BY <2>1, <2>2 DEF Scanned
  <1>4. ASSUME NEW r \in Runs, EndScan(r), r.pc # "scan" PROVE Scanned'
    <2>1. run'.pc = r.pc  BY <1>4 DEF EndScan, Runs
    <2> QED BY <1>4, <2>1, MailNoScan
  <1>5. CASE UNCHANGED mailVars
    BY <1>1, <1>5, MailScanKept DEF mailVars, disk, database, history, session, Scanned
  <1>6. CASE Mark \/ Record \/ \E m \in Messages : List(m) \/ Rename(m)
    BY <1>1, <1>6, MailCallerScanned
  <1>7. ASSUME NEW m \in Messages, Visit(m) PROVE Scanned'
    BY <1>1, <1>7, MailVisitScanned
  <1>8. CASE Upsert  BY <1>1, <1>8, MailUpsertScanned
  <1>9. ASSUME NEW m \in Messages, Elsewhere(m) PROVE Scanned'
    BY <1>1, <1>9, MailScanKept DEF Elsewhere, database, session, Scanned
  <1>10. CASE Replan
    BY <1>1, <1>10, MailScanKept DEF Replan, disk, database, history, session, Scanned
  <1>11. CASE Crash
    <2>1. run'.pc = "restart"  BY <1>11 DEF Crash, Stopped
    <2> QED BY <2>1, MailNoScan
  <1>12. CASE ToScan \/ Restart \/ RunFails
    BY <1>2, <1>3, <1>12, MailStopped DEF ToScan, Restart, RunFails
  <1>13. CASE ScanAborts
    BY <1>2, <1>3, <1>4, <1>13, MailStopped DEF ScanAborts
  <1>14. CASE Ack
    <2>1. CASE BeginScan(Rescue)  BY <1>3, <1>14, <2>1, MailStopped DEF Ack
    <2>2. CASE run' = Stopped  BY <2>2, MailNoScan, MailStopped
    <2> QED BY <1>14, <2>1, <2>2 DEF Ack
  <1>15. CASE ScanDone
    <2> DEFINE r == [run EXCEPT !.pc = IF run.kind = "reconciliation" THEN "pending" ELSE "ack"]
    <2>1. r \in Runs /\ r.pc # "scan"  BY <1>2 DEF Runs
    <2>2. EndScan(Stopped) \/ EndScan(r)  BY <1>15 DEF ScanDone
    <2> HIDE DEF r
    <2> QED BY <1>4, <2>1, <2>2, MailStopped
  <1>16. ASSUME \/ Watermark \/ MbsyncDone \/ Align \/ Pending \/ Hydrate \/ ToAck
                \/ \E m \in Messages : Mbsync(m)
                \/ \E it \in run.todo : Retry(it) \/ Identify(it) \/ Expunge(it)
         PROVE  Scanned'
    <2>1. CASE Watermark
      <3>1. \E id, list : run' = [run EXCEPT !.pc = "mbsync", !.todo = list, !.watermark = id]
        BY <2>1 DEF Watermark
      <3> QED BY <1>2, <3>1, MailNoScan DEF Runs
    <2>2. CASE MbsyncDone  BY <1>2, <2>2, MailNoScan DEF MbsyncDone, Runs
    <2>3. CASE Pending
      <3>1. \E old, list : run' = [run EXCEPT !.pc = "identities", !.protected = old, !.todo = list]
        BY <2>3 DEF Pending
      <3> QED BY <1>2, <3>1, MailNoScan DEF Runs
    <2>4. CASE ToAck  BY <1>2, <2>4, MailNoScan DEF ToAck, Runs
    <2>5. CASE Align
      <3>1. run.pc = "retry" /\ run' \in {[run EXCEPT !.item = None],
                                          [run EXCEPT !.item = None, !.late = TRUE]}
        BY <2>5 DEF Align
      <3> QED BY <1>2, <3>1, MailNoScan DEF Runs
    <2>6. ASSUME NEW m \in Messages, Mbsync(m) PROVE Scanned'
      <3>1. run.pc = "mbsync" /\ run' = [run EXCEPT !.todo = @ \ {m}]  BY <2>6 DEF Mbsync
      <3> QED BY <1>2, <3>1, MailNoScan DEF Runs
    <2>7. ASSUME NEW it \in run.todo, Identify(it) \/ Expunge(it) PROVE Scanned'
      <3>1. run.pc \in {"identities", "stale"} /\ run' = [run EXCEPT !.todo = @ \ {it}]
        BY <2>7 DEF Identify, Expunge
      <3> QED BY <1>2, <3>1, MailNoScan DEF Runs
    <2>8. ASSUME NEW it \in run.todo, Retry(it) PROVE Scanned'
      <3>1. /\ run.pc = "retry"
            /\ \/ \E item : run' = [run EXCEPT !.item = item, !.todo = @ \ {it}]
               \/ run' = [run EXCEPT !.todo = @ \ {it}, !.late = TRUE]
        BY <2>8 DEF Retry
      <3> QED BY <1>2, <3>1, MailNoScan DEF Runs
    <2>9. CASE Hydrate  BY <1>2, <2>9, MailNoScan DEF Hydrate, Runs
    <2> QED BY <1>16, <2>1, <2>2, <2>3, <2>4, <2>5, <2>6, <2>7, <2>8, <2>9
  <1>17. ASSUME NEW kind \in Kinds, Start(kind) PROVE Scanned'
    <2>1. run'.pc = "watermark"  BY <1>17 DEF Start, Stopped
    <2> QED BY <2>1, MailNoScan
  <1> QED BY <1>5, <1>6, <1>7, <1>8, <1>9, <1>10, <1>11, <1>12, <1>13, <1>14, <1>15, <1>16, <1>17
          DEF MailNext, Caller, Run

\* A purge that ends a scan spares the rows the scan has seen.
LEMMA MailPurgeSpares == ASSUME MailInv, [MailNext]_mailVars PROVE PurgeSpares
  <1>1. MailTypeOK /\ Working /\ Scanned  BY DEF MailInv
  <1>2. DiskOK /\ DatabaseOK /\ SessionOK /\ run \in Runs /\ RestOK  BY <1>1, MailParts
  <1> SUFFICES ASSUME ScanDone, NEW m \in Messages, m \notin moved, file[m] # None,
                      file[m] \in Paths(m)
               PROVE  rows'[m][file[m]] # None
    BY DEF PurgeSpares
  <1>3. run.pc = "scan" /\ run.todo = {} /\ run.item = None  BY DEF ScanDone
  <1>4. rows[m][file[m]] # None /\ file[m] \in Flags  BY DEF Paths
  <1>5. Seen(m, file[m])  BY <1>1, <1>3, <1>4 DEF Scanned
  <1>6. <<m, file[m]>> \notin Unseen  BY <1>5 DEF Unseen
  <1>7. \/ UNCHANGED rows
        \/ rows' = [n \in Messages |-> [p \in Flags |->
                      IF <<n, p>> \in Unseen THEN None ELSE rows[n][p]]]
    BY DEF ScanDone
  <1> QED BY <1>4, <1>6, <1>7

\* The invariant holds at all times.
LEMMA MailInvariant == MailSpec => []MailInv
  <1>1. MailInit => MailInv  BY MailInitSafe DEF MailInv
  <1>2. MailInv /\ [MailNext]_mailVars => MailInv'
    <2> SUFFICES ASSUME MailInv, [MailNext]_mailVars PROVE MailInv'
      OBVIOUS
    <2>1. MailTypeOK' /\ Working'  BY MailSafe DEF MailInv
    <2>2. Scanned'  BY MailScannedStep
    <2> QED BY <2>1, <2>2 DEF MailInv
  <1> QED BY <1>1, <1>2, PTL DEF MailSpec

\* Disk, database, session and run always hold what their types say, and the ids
\* of index rows are a key (UpsertMailIndex, MarkMailReadAtPath and the purge).
THEOREM MailTypeCorrect == MailSpec => []MailTypeOK
  <1>1. MailInv => MailTypeOK  BY DEF MailInv
  <1> QED BY <1>1, MailInvariant, PTL

\* PurgeUnseenMailIndex never takes the row of a file that is there, unless
\* VOXMail itself renamed the message while the scan ran.
THEOREM MailPurgeCorrect == MailSpec => PurgeSparesUntouched
  <1>1. MailInv /\ [MailNext]_mailVars => [PurgeSpares]_mailVars
    <2> SUFFICES ASSUME MailInv, [MailNext]_mailVars PROVE PurgeSpares
      OBVIOUS
    <2> QED BY MailPurgeSpares
  <1> QED BY <1>1, MailInvariant, PTL DEF MailSpec, PurgeSparesUntouched

-----------------------------------------------------------------------------
(* MailStore: what an acknowledged choice says of the provider.  Faithful: a   *)
(* live choice has a row of its message (Owned), a message has one row         *)
(* (Single), the run's list agrees with journal and provider (Listed), ids grow *)
(* with the journal (Ordered) past those the run has taken up (Marked), and     *)
(* what the run has carried out the provider has been told (Told).             *)

\* A live choice is of a row of its message.
Owned == \A i \in DOMAIN journal : Live(journal[i].status)
             => PathOf(journal[i].message, journal[i].row) # {}

\* A message that was not torn has one row.
Single == \A m \in Messages \ torn : \A p, q \in Paths(m) : p = q

\* The run's retried reads are of their message, which keeps the UID, and what the
\* provider no longer lists stays away.
Listed ==
    /\ run.pc = "retry" =>
          /\ \A it \in run.todo : /\ journal[it.entry].message = it.message
                                  /\ it.uid /\ it.message \notin torn => HasUID(it.message)
          /\ run.item # None => /\ journal[run.item.entry].message = run.item.message
                                /\ journal[run.item.action].message = run.item.message
    /\ run.pc \in {"identities", "stale"} =>
          \A it \in run.todo : it.flag = None => remote[it.message] = None
    /\ run.pc = "stale" => \A it \in run.todo : it.flag = None

\* An entry that is there has a smaller id than every later one.
Ordered == \A i, j \in DOMAIN journal :
    i < j /\ Live(journal[i].status) => journal[i].id < journal[j].id

\* Of the entries the run retries or has confirmed, which may be gone, the later entries
\* that are not counted as the run's own have larger ids.
Fresh(i) == \A j \in DOMAIN journal :
    i < j /\ ~journal[j].reused => journal[i].id < journal[j].id
Marked == run.pc = "retry" =>
    /\ \A it \in run.todo : journal[it.entry].id <= run.watermark /\ Fresh(it.entry)
    /\ run.item # None => /\ journal[run.item.entry].id <= journal[run.item.action].id
                          /\ Fresh(run.item.action)
Behind == Listed /\ Ordered /\ Marked

\* The newest choice for a message, and whether the run has carried it out.
Made(m) == {i \in DOMAIN journal : journal[i].message = m}
Newest(m) == Last(Made(m))
Carried(m) ==
    \/ /\ journal[Newest(m)].id <= run.watermark /\ m \in run.plan
       /\ ~(run.pc = "mbsync" /\ m \in run.todo)
    \/ /\ run.pc = "retry" /\ run.item # None
       /\ run.item.message = m /\ run.item.action = Newest(m)

\* Nobody else touched the message, and no change of its flag is in progress.
Steady(m) == m \notin torn /\ ~meddled[m] /\ (Changing(m) => caller.path = caller.from)
Chosen(m) == Made(m) # {} /\ Live(journal[Newest(m)].status) /\ ~journal[Newest(m)].reused
Told(m) == Steady(m) /\ Chosen(m) /\ remote[m] # None =>
    LET newest == journal[Newest(m)]
    IN /\ file[m] = newest.want
       /\ remote[m] \in {newest.want, synced[m]}
       /\ Carried(m) \/ newest.status = "synchronized" => remote[m] = newest.want

Faithful == Owned /\ Single /\ Behind /\ \A m \in Messages : Told(m)
AckInv == MailInv /\ Faithful

-----------------------------------------------------------------------------
(* The journal and the newest choice. *)

\* A journal some of whose entries were settled or cascaded.
Ages(js, ks) == DOMAIN ks = DOMAIN js /\ \A i \in DOMAIN js :
    /\ ks[i].message = js[i].message /\ ks[i].row = js[i].row /\ ks[i].want = js[i].want
    /\ ks[i].id = js[i].id /\ ks[i].reused = js[i].reused
    /\ Live(ks[i].status) => Live(js[i].status)

\* A cascade takes the entries of the rows that are gone, and settles none.
LEMMA MailCascadeAges ==
  ASSUME NEW js \in Seq(Entry), NEW gone, NEW ks, ks = Cascade(js, gone)
  PROVE  /\ Ages(js, ks)
         /\ \A i \in DOMAIN js : /\ Live(ks[i].status) => js[i].row \notin gone
                                 /\ ks[i].status = "synchronized" => js[i].status = "synchronized"
  <1>1. DOMAIN ks = DOMAIN js  BY DEF Cascade
  <1>2. ASSUME NEW i \in DOMAIN js
        PROVE  /\ ks[i].message = js[i].message /\ ks[i].row = js[i].row
               /\ ks[i].id = js[i].id /\ ks[i].reused = js[i].reused
               /\ ks[i].want = js[i].want /\ (Live(ks[i].status) => Live(js[i].status))
               /\ Live(ks[i].status) => js[i].row \notin gone
               /\ ks[i].status = "synchronized" => js[i].status = "synchronized"
    <2>1. js[i] \in Entry  OBVIOUS
    <2>2. CASE js[i].row \in gone
      <3>1. ks[i] = [js[i] EXCEPT !.status = "cascaded"]  BY <2>2 DEF Cascade
      <3> QED BY <2>1, <3>1 DEF Entry, Live
    <2>3. CASE js[i].row \notin gone
      <3>1. ks[i] = js[i]  BY <2>3 DEF Cascade
      <3> QED BY <2>3, <3>1
    <2> QED BY <2>2, <2>3
  <1>3. Ages(js, ks)  BY <1>1, <1>2 DEF Ages
  <1> QED BY <1>2, <1>3

\* FinishQueuedRead settles entries of one row up to one entry, where the row has the flag.
LEMMA MailFinishAges ==
  ASSUME NEW js \in Seq(Entry), NEW m, NEW e, NEW flag, NEW rs, NEW ks,
         ks = Finish(js, m, e, flag, rs)
  PROVE  /\ Ages(js, ks)
         /\ \A i \in DOMAIN js : Live(js[i].status) => Live(ks[i].status)
         /\ \A i \in DOMAIN js : ks[i].status = "synchronized" =>
               \/ js[i].status = "synchronized"
               \/ /\ js[i].row = js[e].row /\ js[i].id <= js[e].id /\ js[i].status = "queued"
                  /\ \E p \in Flags : rs[m][p] # None /\ rs[m][p].id = js[e].row
  <1> DEFINE done(i) == /\ js[i].row = js[e].row /\ js[i].id <= js[e].id /\ js[i].status = "queued"
                        /\ \E p \in Flags : /\ rs[m][p] # None /\ rs[m][p].id = js[e].row
                                            /\ rs[m][p].read = flag
  <1>1. ks = [i \in DOMAIN js |-> IF done(i) THEN [js[i] EXCEPT !.status = "synchronized"]
                                             ELSE js[i]]  BY DEF Finish
  <1>2. ASSUME NEW i \in DOMAIN js, done(i)
        PROVE  /\ js[i].row = js[e].row /\ js[i].id <= js[e].id /\ js[i].status = "queued"
               /\ \E p \in Flags : rs[m][p] # None /\ rs[m][p].id = js[e].row
    BY <1>2
  <1> HIDE DEF done
  <1>3. DOMAIN ks = DOMAIN js  BY <1>1
  <1>4. ASSUME NEW i \in DOMAIN js
        PROVE  /\ ks[i].message = js[i].message /\ ks[i].row = js[i].row
               /\ ks[i].id = js[i].id /\ ks[i].reused = js[i].reused
               /\ ks[i].want = js[i].want /\ (Live(ks[i].status) <=> Live(js[i].status))
               /\ ks[i].status = "synchronized" => js[i].status = "synchronized" \/ done(i)
    <2>1. js[i] \in Entry  OBVIOUS
    <2>2. CASE done(i)
      <3>1. ks[i] = [js[i] EXCEPT !.status = "synchronized"]  BY <1>1, <2>2
      <3>2. js[i].status = "queued"  BY <1>2, <2>2
      <3> QED BY <2>1, <2>2, <3>1, <3>2 DEF Entry, Live
    <2>3. CASE ~done(i)
      <3>1. ks[i] = js[i]  BY <1>1, <2>3
      <3> QED BY <3>1
    <2> QED BY <2>2, <2>3
  <1> QED BY <1>2, <1>3, <1>4 DEF Ages

\* Ageing twice is ageing.
LEMMA MailAgesOn == ASSUME NEW js, NEW ks, NEW ls, Ages(js, ks), Ages(ks, ls)
                    PROVE  Ages(js, ls)
  BY DEF Ages

\* The newest choice is an entry of its message, and the last.
LEMMA MailNewest ==
  ASSUME journal \in Seq(Entry), NEW m, Made(m) # {}
  PROVE  /\ Newest(m) \in DOMAIN journal /\ journal[Newest(m)].message = m
         /\ Newest(m) \in Nat /\ Newest(m) >= 1 /\ Newest(m) <= Len(journal)
         /\ \A i \in Made(m) : i <= Newest(m)
  <1>1. Len(journal) \in Nat /\ Made(m) \subseteq 1..Len(journal)  BY DEF Made
  <1>2. Newest(m) \in Made(m) /\ \A i \in Made(m) : i <= Newest(m)  BY <1>1, MailLast DEF Newest
  <1>3. Newest(m) \in 1..Len(journal)  BY <1>1, <1>2
  <1> QED BY <1>1, <1>2, <1>3 DEF Made

\* It stays the newest while the journal ages.
LEMMA MailNewestKept ==
  ASSUME journal \in Seq(Entry), Ages(journal, journal'), NEW m
  PROVE  /\ Made(m)' = Made(m) /\ Newest(m)' = Newest(m)
         /\ Chosen(m)' => Chosen(m) /\ journal'[Newest(m)].want = journal[Newest(m)].want
  <1>1. Made(m)' = Made(m)  BY DEF Made, Ages
  <1>2. Newest(m)' = Newest(m)  BY <1>1 DEF Newest
  <1>3. ASSUME Chosen(m)'
        PROVE  Chosen(m) /\ journal'[Newest(m)].want = journal[Newest(m)].want
    <2>1. Made(m) # {} /\ Live(journal'[Newest(m)].status) /\ ~journal'[Newest(m)].reused
      BY <1>1, <1>2, <1>3 DEF Chosen
    <2>2. Newest(m) \in DOMAIN journal  BY <2>1, MailNewest
    <2> QED BY <2>1, <2>2 DEF Chosen, Ages
  <1> QED BY <1>1, <1>2, <1>3

\* It has its id.
LEMMA MailNewestId ==
  ASSUME journal \in Seq(Entry), Ages(journal, journal'), NEW m, Chosen(m)
  PROVE  /\ Newest(m)' = Newest(m) /\ Newest(m) \in DOMAIN journal
         /\ journal'[Newest(m)].id = journal[Newest(m)].id
         /\ journal[Newest(m)].id \in Nat \ {0}
  <1>1. Newest(m)' = Newest(m) /\ Newest(m) \in DOMAIN journal
    BY MailNewest, MailNewestKept DEF Chosen
  <1>2. journal[Newest(m)] \in Entry  BY <1>1
  <1> QED BY <1>1, <1>2 DEF Ages, Entry

\* What was told stays told while no other choice comes and nobody interferes.
LEMMA MailToldFrame ==
  ASSUME NEW m, Told(m), Newest(m)' = Newest(m),
         Chosen(m)' => Chosen(m) /\ journal'[Newest(m)].want = journal[Newest(m)].want,
         Steady(m)' /\ Chosen(m) /\ remote'[m] # None =>
             /\ Steady(m) /\ remote'[m] = remote[m]
             /\ file'[m] = file[m] /\ synced'[m] = synced[m],
         Chosen(m) /\ (Carried(m)' \/ journal'[Newest(m)].status = "synchronized") =>
             Carried(m) \/ journal[Newest(m)].status = "synchronized"
  PROVE  Told(m)'
  <1> SUFFICES ASSUME Steady(m)', Chosen(m)', remote'[m] # None
               PROVE  /\ file'[m] = journal'[Newest(m)'].want
                      /\ remote'[m] \in {journal'[Newest(m)'].want, synced'[m]}
                      /\ Carried(m)' \/ journal'[Newest(m)'].status = "synchronized"
                           => remote'[m] = journal'[Newest(m)'].want
    BY DEF Told
  <1>1. Newest(m)' = Newest(m) /\ Chosen(m) /\ journal'[Newest(m)].want = journal[Newest(m)].want
    OBVIOUS
  <1>2. /\ Steady(m) /\ remote'[m] = remote[m]
        /\ file'[m] = file[m] /\ synced'[m] = synced[m]  BY <1>1
  <1> QED BY <1>1, <1>2 DEF Told

\* So it does while the journal ages.
LEMMA MailToldKept ==
  ASSUME journal \in Seq(Entry), NEW m, Told(m), Ages(journal, journal'),
         Steady(m)' /\ Chosen(m) /\ remote'[m] # None =>
             /\ Steady(m) /\ remote'[m] = remote[m]
             /\ file'[m] = file[m] /\ synced'[m] = synced[m],
         Chosen(m) /\ (Carried(m)' \/ journal'[Newest(m)].status = "synchronized") =>
             Carried(m) \/ journal[Newest(m)].status = "synchronized"
  PROVE  Told(m)'
  BY MailToldFrame, MailNewestKept

\* What the run has carried out depends on the run alone.
LEMMA MailCarriedSame ==
  ASSUME journal \in Seq(Entry), Ages(journal, journal'), run' = run, NEW m
  PROVE  Chosen(m) => (Carried(m)' <=> Carried(m))
  BY MailNewestId DEF Carried

\* A run that has no watermark has carried out nothing.
LEMMA MailCarriedOff ==
  ASSUME journal \in Seq(Entry), Ages(journal, journal'), NEW m, Chosen(m), run'.watermark = 0,
         run'.pc # "retry"
  PROVE  ~Carried(m)'
  <1>1. journal'[Newest(m)'].id \in Nat \ {0}  BY MailNewestId
  <1>2. ~(journal'[Newest(m)'].id <= 0)  BY <1>1
  <1> QED BY <1>2 DEF Carried

-----------------------------------------------------------------------------
(* Rows. *)

\* A row that moves keeps its id; the row it replaces is the collided one.
LEMMA MailRehomedIds ==
  ASSUME Keyed(rows), NEW m \in Messages, NEW p \in Flags, NEW q \in Flags, NEW row \in Row,
         rows[m][p] # None, row.id = rows[m][p].id, rows' = Rehomed(m, p, q, row),
         NEW n \in Messages, NEW id, PathOf(n, id) # {}, id \notin Collided(m, p, q)
  PROVE  PathOf(n, id)' # {}
  <1>1. PICK x \in Flags : rows[n][x] # None /\ rows[n][x].id = id  BY DEF PathOf, Paths
  <1>2. \A a \in Messages \ {m} : rows'[a] = rows[a]  BY MailRehomed
  <1>3. \A y \in Flags : rows'[m][y] = IF y = q THEN row ELSE IF y = p THEN None ELSE rows[m][y]
    BY DEF Keyed, Rehomed
  <1>4. row # None  BY NoneApart
  <1>5. \E y \in Flags : rows'[n][y] # None /\ rows'[n][y].id = id
    <2>1. CASE n # m  BY <1>1, <1>2, <2>1
    <2>2. CASE n = m /\ x = p  BY <1>1, <1>3, <1>4, <2>2
    <2>3. CASE n = m /\ x # p /\ x = q  BY <1>1, <2>3 DEF Collided
    <2>4. CASE n = m /\ x # p /\ x # q  BY <1>1, <1>3, <2>4
    <2> QED BY <2>1, <2>2, <2>3, <2>4
  <1> QED BY <1>5 DEF PathOf, Paths

\* A message with one row has one when it moves, with its UID.
LEMMA MailRehomedSingle ==
  ASSUME Keyed(rows), NEW m \in Messages, NEW p \in Flags, NEW q \in Flags, NEW row \in Row,
         rows[m][p] # None, row.id = rows[m][p].id, row.uid = rows[m][p].uid,
         rows' = Rehomed(m, p, q, row), Single, torn' = torn
  PROVE  Single' /\ \A n \in Messages \ torn : HasUID(n) => HasUID(n)'
  <1>1. \A n \in Messages \ {m} : rows'[n] = rows[n]  BY MailRehomed
  <1>2. \A y \in Flags : rows'[m][y] = IF y = q THEN row ELSE IF y = p THEN None ELSE rows[m][y]
    BY DEF Keyed, Rehomed
  <1>3. row # None  BY NoneApart
  <1>4. ASSUME m \notin torn
        PROVE  Paths(m) = {p} /\ Paths(m)' = {q} /\ rows'[m][q] = row
    <2>1. Paths(m) = {p}  BY <1>4 DEF Single, Paths
    <2>2. \A y \in Flags : y # p => rows[m][y] = None  BY <2>1 DEF Paths
    <2>3. \A y \in Flags : rows'[m][y] # None <=> y = q  BY <1>2, <1>3, <2>2
    <2> QED BY <1>2, <2>1, <2>3 DEF Paths
  <1>5. \A n \in Messages \ {m} : Paths(n)' = Paths(n)  BY <1>1 DEF Paths
  <1>6. Single'  BY <1>4, <1>5 DEF Single
  <1>7. ASSUME NEW n \in Messages \ torn, HasUID(n) PROVE HasUID(n)'
    <2>1. PICK x \in Paths(n) : rows[n][x].uid  BY <1>7 DEF HasUID
    <2>2. CASE n = m  BY <1>4, <1>7, <2>1, <2>2 DEF HasUID
    <2>3. CASE n # m  BY <1>1, <1>5, <2>1, <2>3 DEF HasUID
    <2> QED BY <2>2, <2>3
  <1> QED BY <1>6, <1>7

\* Rows that go take their live choices with them.
LEMMA MailOwnedKept ==
  ASSUME journal \in Seq(Entry), Owned, Ages(journal, journal'), NEW gone,
         \A n \in Messages : \A id \in RowIds :
             PathOf(n, id) # {} /\ id \notin gone => PathOf(n, id)' # {},
         \A i \in DOMAIN journal : Live(journal'[i].status) => journal[i].row \notin gone
  PROVE  Owned'
  <1>1. ASSUME NEW i \in DOMAIN journal, Live(journal'[i].status), NEW n, NEW id,
               n = journal'[i].message, id = journal'[i].row
        PROVE  PathOf(n, id)' # {}
    <2>1. n = journal[i].message /\ id = journal[i].row /\ Live(journal[i].status)
      BY <1>1 DEF Ages
    <2>2. journal[i] \in Entry  OBVIOUS
    <2>3. n \in Messages /\ id \in RowIds  BY <2>1, <2>2 DEF Entry
    <2>4. PathOf(n, id) # {}  BY <2>1 DEF Owned
    <2>5. id \notin gone  BY <1>1, <2>1
    <2> QED BY <2>3, <2>4, <2>5
  <1>2. DOMAIN journal' = DOMAIN journal  BY DEF Ages
  <1> QED BY <1>1, <1>2 DEF Owned, PathOf, Paths

\* A row that moves within its message, the journal cascading over the one it replaces.
LEMMA MailMoves ==
  ASSUME DatabaseOK, Owned, Single, torn' = torn, NEW m \in Messages, NEW p \in Flags,
         NEW q \in Flags, NEW row \in Row, rows[m][p] # None,
         row.id = rows[m][p].id, row.uid = rows[m][p].uid,
         rows' = Rehomed(m, p, q, row), Ages(journal, journal'),
         \A i \in DOMAIN journal :
             Live(journal'[i].status) => journal[i].row \notin Collided(m, p, q)
  PROVE  Owned' /\ Single' /\ \A n \in Messages \ torn : HasUID(n) => HasUID(n)'
  <1>1. Keyed(rows) /\ journal \in Seq(Entry)  BY DEF DatabaseOK
  <1>2. \A n \in Messages : \A id \in RowIds :
            PathOf(n, id) # {} /\ id \notin Collided(m, p, q) => PathOf(n, id)' # {}
    BY <1>1, MailRehomedIds
  <1>3. Owned'  BY <1>1, <1>2, MailOwnedKept
  <1> QED BY <1>1, <1>3, MailRehomedSingle

\* A journal that ages keeps the order of its ids.
LEMMA MailOrderedKept == ASSUME Ordered, Ages(journal, journal') PROVE Ordered'
  BY DEF Ordered, Ages

\* And the later ids above an entry's.
LEMMA MailFreshKept ==
  ASSUME Ages(journal, journal'), NEW i \in DOMAIN journal, Fresh(i)
  PROVE  \A j \in DOMAIN journal' : i < j /\ ~journal'[j].reused => journal'[i].id < journal'[j].id
  BY DEF Fresh, Ages

\* A run whose list and item only shrink keeps its marks.
LEMMA MailMarkedKept ==
  ASSUME Marked, Working, Ages(journal, journal'), run'.pc = run.pc,
         run'.watermark = run.watermark, run'.todo \subseteq run.todo,
         run'.item = run.item \/ run'.item = None
  PROVE  Marked'
  <1>1. ASSUME run.pc = "retry", NEW it \in run.todo
        PROVE  /\ journal'[it.entry].id <= run.watermark
               /\ \A j \in DOMAIN journal' :
                     it.entry < j /\ ~journal'[j].reused => journal'[it.entry].id < journal'[j].id
    <2>1. it.entry \in DOMAIN journal  BY <1>1 DEF Working
    <2>2. journal[it.entry].id <= run.watermark /\ Fresh(it.entry)  BY <1>1 DEF Marked
    <2>3. journal'[it.entry].id = journal[it.entry].id  BY <2>1 DEF Ages
    <2> QED BY <2>1, <2>2, <2>3, MailFreshKept
  <1>2. ASSUME run.pc = "retry", run'.item # None, NEW it, it = run'.item
        PROVE  /\ journal'[it.entry].id <= journal'[it.action].id
               /\ \A j \in DOMAIN journal' : it.action < j /\ ~journal'[j].reused
                     => journal'[it.action].id < journal'[j].id
    <2>1. it = run.item /\ run.item # None  BY <1>2
    <2>2. it.entry \in DOMAIN journal /\ it.action \in DOMAIN journal  BY <1>2, <2>1 DEF Working
    <2>3. journal[it.entry].id <= journal[it.action].id /\ Fresh(it.action)
      BY <1>2, <2>1 DEF Marked
    <2>4. /\ journal'[it.entry].id = journal[it.entry].id
          /\ journal'[it.action].id = journal[it.action].id  BY <2>2 DEF Ages
    <2> QED BY <2>2, <2>3, <2>4, MailFreshKept
  <1>3. ASSUME run'.pc = "retry"
        PROVE  /\ \A it \in run'.todo : journal'[it.entry].id <= run'.watermark /\ Fresh(it.entry)'
               /\ run'.item # None => /\ journal'[run'.item.entry].id <= journal'[run'.item.action].id
                                      /\ Fresh(run.item.action)'
    BY <1>1, <1>2, <1>3 DEF Fresh
  <1> QED BY <1>3 DEF Marked

\* A run whose list and item only shrink keeps what it knows of them.
LEMMA MailListedKept ==
  ASSUME Listed, Working, run \in Runs, run'.pc = run.pc, run'.todo \subseteq run.todo,
         run'.item = run.item \/ run'.item = None,
         \A i \in DOMAIN journal : journal'[i].message = journal[i].message,
         torn \subseteq torn',
         run.pc = "retry" => \A n \in Messages \ torn' : HasUID(n) => HasUID(n)',
         \A n \in Messages : remote[n] = None => remote'[n] = None
  PROVE  Listed'
  <1>1. ASSUME run.pc = "retry", NEW it \in run.todo
        PROVE  /\ journal'[it.entry].message = it.message
               /\ it.uid /\ it.message \notin torn' => HasUID(it.message)'
    <2>1. it \in Retries /\ it.entry \in DOMAIN journal  BY <1>1 DEF Working
    <2>2. it.message \in Messages  BY <2>1 DEF Retries
    <2> QED BY <1>1, <2>1, <2>2 DEF Listed
  <1>2. ASSUME run.pc = "retry", run'.item # None
        PROVE  /\ journal'[run'.item.entry].message = run'.item.message
               /\ journal'[run'.item.action].message = run'.item.message
    <2>1. run'.item = run.item /\ run.item # None  BY <1>2
    <2>2. run.item.entry \in DOMAIN journal /\ run.item.action \in DOMAIN journal
      BY <1>2, <2>1 DEF Working
    <2> QED BY <1>2, <2>1, <2>2 DEF Listed
  <1>3. ASSUME run.pc \in {"identities", "stale"}, NEW it \in run.todo, it.flag = None
        PROVE  remote'[it.message] = None
    <2>1. it.message \in Messages  BY <1>3 DEF Working, Answers
    <2> QED BY <1>3, <2>1 DEF Listed
  <1>4. run'.pc = "stale" => \A it \in run'.todo : it.flag = None  BY DEF Listed
  <1> QED BY <1>1, <1>2, <1>3, <1>4 DEF Listed

\* Both, and the order of the ids.
LEMMA MailBehindKept ==
  ASSUME Behind, Working, run \in Runs, run'.pc = run.pc,
         run'.watermark = run.watermark, run'.todo \subseteq run.todo,
         run'.item = run.item \/ run'.item = None, Ages(journal, journal'),
         torn \subseteq torn',
         run.pc = "retry" => \A n \in Messages \ torn' : HasUID(n) => HasUID(n)',
         \A n \in Messages : remote[n] = None => remote'[n] = None
  PROVE  Behind'
  <1>1. \A i \in DOMAIN journal : journal'[i].message = journal[i].message  BY DEF Ages
  <1>2. Listed /\ Ordered /\ Marked  BY DEF Behind
  <1>3. Listed'  BY <1>1, <1>2, MailListedKept
  <1>4. Ordered' /\ Marked'  BY <1>2, MailOrderedKept, MailMarkedKept
  <1> QED BY <1>3, <1>4 DEF Behind

\* Steps that leave rows, journal, disk and run alone keep everything.
LEMMA MailStill ==
  ASSUME Faithful, UNCHANGED <<remote, synced, file, rows, journal, caller, run, meddled, torn>>
  PROVE  Faithful'
  <1>1. Owned' /\ Single' /\ Behind'
    BY DEF Faithful, Owned, Single, Behind, Listed, Ordered, Marked, Fresh, PathOf, Paths, HasUID
  <1>2. ASSUME NEW m \in Messages PROVE Told(m)'
    BY DEF Faithful, Told, Steady, Changing, Chosen, Carried, Newest, Made
  <1> QED BY <1>1, <1>2 DEF Faithful

-----------------------------------------------------------------------------
(* The steps of the caller keep it. *)

\* A journal that stays the same ages.
LEMMA MailSame == ASSUME journal' = journal PROVE Ages(journal, journal')
  BY DEF Ages

\* A journal that ages has its length and its messages.
LEMMA MailAged ==
  ASSUME journal \in Seq(Entry), Ages(journal, journal'), journal' \in Seq(Entry)
  PROVE  /\ Len(journal') = Len(journal) /\ Len(journal) \in Nat
         /\ \A i \in DOMAIN journal : journal'[i].message = journal[i].message
  BY DEF Ages

\* A row with another flag is of the same UID.
LEMMA MailUID ==
  ASSUME DatabaseOK, NEW m \in Messages, NEW p \in Flags, rows[m][p] # None, NEW f \in Flags
  PROVE  /\ [rows[m][p] EXCEPT !.read = f].uid = rows[m][p].uid
         /\ [rows[m][p] EXCEPT !.read = f, !.fresh = FALSE].uid = rows[m][p].uid
  <1>1. rows[m][p] \in Row  BY DEF DatabaseOK, Keyed
  <1> QED BY <1>1 DEF Row

\* A rename tells nothing yet.
LEMMA MailRenameKept == ASSUME MailTypeOK, Working, Faithful, NEW m \in Messages, Rename(m) PROVE Faithful'
  <1>1. DatabaseOK /\ run \in Runs /\ journal \in Seq(Entry)  BY MailParts DEF DatabaseOK
  <1>2. UNCHANGED <<remote, synced, rows, journal, run, meddled, torn>> /\ caller.pc = "idle"
    BY DEF Rename, database
  <1>3. PICK want \in {"seen", Other(listed[m].read)} :
          /\ caller' = [pc |-> "renamed", message |-> m, want |-> want, path |-> want,
                        from |-> file[m]]
          /\ file' = [file EXCEPT ![m] = want]  BY DEF Rename
  <1>4. /\ caller'.message = m /\ caller'.pc # "idle"
        /\ caller'.path = want /\ caller'.from = file[m]  BY <1>3
  <1>5. Owned' /\ Single'  BY <1>2 DEF Faithful, Owned, Single, PathOf, Paths
  <1>6. Behind'
    <2>1. \A n \in Messages \ torn' : HasUID(n) => HasUID(n)'  BY <1>2 DEF HasUID, Paths
    <2>2. Ages(journal, journal')  BY <1>2, MailSame
    <2> QED BY <1>1, <1>2, <2>1, <2>2, MailBehindKept DEF Faithful
  <1>7. file \in [Messages -> Flags \cup {None}]  BY DEF MailTypeOK
  <1>8. ASSUME NEW n \in Messages PROVE Told(n)'
    <2>1. Ages(journal, journal') /\ Told(n)  BY <1>2, MailSame DEF Faithful
    <2>2. Chosen(n) => (Carried(n)' <=> Carried(n))  BY <1>1, <1>2, <2>1, MailCarriedSame
    <2>3. ASSUME Steady(n)' PROVE Steady(n) /\ file'[n] = file[n]
      <3>1. Steady(n)  BY <1>2, <2>3 DEF Steady, Changing
      <3>2. CASE n = m
        <4>1. caller'.path = caller'.from  BY <1>4, <2>3, <3>2 DEF Steady, Changing
        <4> QED BY <1>3, <1>4, <1>7, <3>1, <3>2, <4>1
      <3>3. CASE n # m  BY <1>3, <1>7, <3>1, <3>3
      <3> QED BY <3>2, <3>3
    <2> QED BY <1>1, <1>2, <2>1, <2>2, <2>3, MailToldKept
  <1> QED BY <1>5, <1>6, <1>8 DEF Faithful

\* A change undone leaves the file as it was, or the message meddled with.
LEMMA MailUndoTold ==
  ASSUME MailTypeOK, \A n \in Messages : Told(n), NEW m \in Messages, m = caller.message,
         caller.pc # "idle", Undo(m, caller.path), UNCHANGED <<remote, synced, run, torn>>,
         Ages(journal, journal'), \A i \in DOMAIN journal :
             journal'[i].status = "synchronized" => journal[i].status = "synchronized"
  PROVE  \A n \in Messages : Told(n)'
  <1> SUFFICES ASSUME NEW n \in Messages PROVE Told(n)'
    OBVIOUS
  <1>1. journal \in Seq(Entry) /\ file \in [Messages -> Flags \cup {None}]
        /\ meddled \in [Messages -> BOOLEAN]  BY DEF MailTypeOK
  <1>2. Chosen(n) => (Carried(n)' <=> Carried(n))  BY <1>1, MailCarriedSame
  <1>3. Chosen(n) /\ journal'[Newest(n)].status = "synchronized"
          => journal[Newest(n)].status = "synchronized"
    BY <1>1, MailNewest DEF Chosen
  <1> DEFINE b == meddled[m] \/ caller.path # caller.from \/ listed[m].path # caller.from
  <1>4. meddled' = [meddled EXCEPT ![m] = b] /\ b \in BOOLEAN  BY Zenon DEF Undo
  <1>5. ~b => ~meddled[m] /\ caller.path = caller.from /\ listed[m].path = caller.from  OBVIOUS
  <1> HIDE DEF b
  <1>6. file' = IF file[m] = caller.path THEN [file EXCEPT ![m] = listed[m].path] ELSE file
    BY DEF Undo
  <1>7. ASSUME Steady(n)' PROVE Steady(n) /\ file'[n] = file[n]
    <2>1. n \notin torn /\ ~meddled'[n]  BY <1>7 DEF Steady
    <2>2. CASE n = m
      <3>1. ~meddled[m] /\ caller.path = caller.from /\ listed[m].path = caller.from
        BY <1>1, <1>4, <1>5, <2>1, <2>2
      <3> QED BY <1>1, <1>6, <2>1, <2>2, <3>1 DEF Steady
    <2>3. CASE n # m
      <3>1. ~meddled[n]  BY <1>1, <1>4, <2>1, <2>3
      <3> QED BY <1>1, <1>6, <2>1, <2>3, <3>1 DEF Steady, Changing
    <2> QED BY <2>2, <2>3
  <1> QED BY <1>1, <1>2, <1>3, <1>7, MailToldKept

\* The row follows the file, or the change is undone.
LEMMA MailMarkKept == ASSUME MailTypeOK, MailTypeOK', Working, Faithful, Mark PROVE Faithful'
  <1>1. DatabaseOK /\ SessionOK /\ run \in Runs /\ journal \in Seq(Entry)
    BY MailParts DEF DatabaseOK
  <1>2. UNCHANGED <<remote, synced, listed, run, torn>> /\ caller.pc = "renamed"
        /\ journal' \in Seq(Entry)  BY DEF Mark, MailTypeOK
  <1> DEFINE m == caller.message
             found == PathOf(m, listed[m].row)
  <1>3. m \in Messages /\ caller \in Changes /\ caller.want \in Flags /\ caller.pc # "idle"
    BY <1>1, <1>2, MailChange
  <1>4. CASE \E p \in found :
                /\ rows' = Rehomed(m, p, caller.want, [rows[m][p] EXCEPT
                                       !.read = caller.want, !.fresh = FALSE])
                /\ journal' = Cascade(journal, Collided(m, p, caller.want))
                /\ caller' = [caller EXCEPT !.pc = "marked"]
                /\ UNCHANGED <<file, faults, history>>
    <2>1. PICK p \in found :
                /\ rows' = Rehomed(m, p, caller.want, [rows[m][p] EXCEPT
                                       !.read = caller.want, !.fresh = FALSE])
                /\ journal' = Cascade(journal, Collided(m, p, caller.want))
                /\ caller' = [caller EXCEPT !.pc = "marked"]
                /\ UNCHANGED <<file, meddled>>  BY <1>4 DEF history
    <2>2. p \in Flags /\ rows[m][p] # None  BY MailPathOf
    <2>3. /\ Ages(journal, journal') /\ \A i \in DOMAIN journal :
                /\ Live(journal'[i].status) => journal[i].row \notin Collided(m, p, caller.want)
                /\ journal'[i].status = "synchronized" => journal[i].status = "synchronized"
      <3> HIDE DEF m, found
      <3> QED BY <1>1, <2>1, MailCascadeAges
    <2>4. Owned' /\ Single' /\ \A n \in Messages \ torn : HasUID(n) => HasUID(n)'
      <3> DEFINE row == [rows[m][p] EXCEPT !.read = caller.want, !.fresh = FALSE]
      <3>1. row \in Row /\ row.id = rows[m][p].id  BY <1>1, <1>3, <2>2, MailFlagged
      <3>2. row.uid = rows[m][p].uid  BY <1>1, <1>3, <2>2, MailUID
      <3>3. rows' = Rehomed(m, p, caller.want, row)  BY <2>1
      <3> HIDE DEF row, m, found
      <3> QED BY <1>1, <1>2, <1>3, <2>2, <2>3, <3>1, <3>2, <3>3, MailMoves DEF Faithful
    <2> HIDE DEF m, found
    <2>5. Behind'  BY <1>1, <1>2, <2>3, <2>4, MailAged, MailBehindKept DEF Faithful
    <2>6. \A n \in Messages : Told(n)'
      <3> SUFFICES ASSUME NEW n \in Messages PROVE Told(n)'
        OBVIOUS
      <3>1. Chosen(n) => (Carried(n)' <=> Carried(n))  BY <1>1, <1>2, <2>3, MailCarriedSame
      <3>2. Chosen(n) /\ journal'[Newest(n)].status = "synchronized"
              => journal[Newest(n)].status = "synchronized"
        BY <1>1, <2>3, MailNewest DEF Chosen
      <3>3. /\ caller'.pc # "idle" /\ caller'.message = caller.message
            /\ caller'.path = caller.path /\ caller'.from = caller.from
        BY <1>3, <2>1 DEF Changes
      <3>4. Steady(n)' => Steady(n)  BY <1>2, <1>3, <2>1, <3>3 DEF Steady, Changing
      <3> QED BY <1>1, <1>2, <2>1, <2>3, <3>1, <3>2, <3>4, MailToldKept DEF Faithful
    <2> QED BY <2>4, <2>5, <2>6 DEF Faithful
  <1>5. CASE Undo(m, caller.path) /\ UNCHANGED <<rows, journal>>
    <2>1. Ages(journal, journal')  BY <1>5, MailSame
    <2>2. \A n \in Messages : Told(n)'
      <3> HIDE DEF found
      <3> QED BY <1>2, <1>3, <1>5, <2>1, MailUndoTold DEF Faithful
    <2>3. Owned' /\ Single'  BY <1>2, <1>5 DEF Faithful, Owned, Single, PathOf, Paths
    <2>4. \A n \in Messages \ torn : HasUID(n) => HasUID(n)'  BY <1>5 DEF HasUID, Paths
    <2>5. Behind'  BY <1>1, <1>2, <2>1, <2>4, MailAged, MailBehindKept DEF Faithful
    <2> QED BY <2>2, <2>3, <2>5 DEF Faithful
  <1> QED BY <1>4, <1>5 DEF Mark

\* The newest choice of another message is not disturbed by a choice recorded.
LEMMA MailOthersChoice ==
  ASSUME journal \in Seq(Entry), NEW e \in Entry, journal' = Append(journal, e), NEW n,
         n # e.message
  PROVE  /\ Newest(n)' = Newest(n) /\ (Chosen(n)' => Chosen(n))
         /\ Chosen(n) => journal'[Newest(n)] = journal[Newest(n)]
  <1>1. /\ DOMAIN journal = 1..Len(journal) /\ DOMAIN journal' = 1..(Len(journal) + 1)
        /\ Len(journal) \in Nat
        /\ \A i \in 1..Len(journal) : journal'[i] = journal[i]
        /\ journal'[Len(journal) + 1] = e  OBVIOUS
  <1>2. Made(n)' = Made(n)  BY <1>1 DEF Made
  <1>3. Newest(n)' = Newest(n)  BY <1>2 DEF Newest
  <1>4. Made(n) # {} => journal'[Newest(n)] = journal[Newest(n)]  BY <1>1, MailNewest
  <1> QED BY <1>2, <1>3, <1>4 DEF Chosen

\* That of its own is the one recorded.
LEMMA MailOwnChoice ==
  ASSUME journal \in Seq(Entry), NEW e \in Entry, journal' = Append(journal, e)
  PROVE  Newest(e.message)' = Len(journal) + 1 /\ journal'[Len(journal) + 1] = e
  <1> DEFINE n == e.message
             l == Len(journal) + 1
  <1>1. /\ DOMAIN journal' = 1..l /\ l \in Nat /\ journal'[l] = e  OBVIOUS
  <1>2. Made(n)' \subseteq 1..l /\ l \in Made(n)'  BY <1>1 DEF Made
  <1> HIDE DEF l
  <1>3. Last(Made(n)') \in Made(n)' /\ \A j \in Made(n)' : j <= Last(Made(n)')
    BY <1>1, <1>2, MailLast
  <1>4. Last(Made(n)') \in 1..l /\ l <= Last(Made(n)')  BY <1>2, <1>3
  <1>5. Last(Made(n)') = l  BY <1>1, <1>4
  <1> QED BY <1>1, <1>5 DEF Newest, l

\* A choice recorded is the newest, and is not told yet.
LEMMA MailRecordKept == ASSUME MailTypeOK, MailTypeOK', Working, Faithful, Record PROVE Faithful'
  <1>1. DatabaseOK /\ SessionOK /\ run \in Runs /\ journal \in Seq(Entry)
        /\ meddled \in [Messages -> BOOLEAN]
    BY MailParts DEF DatabaseOK, RestOK
  <1>2. UNCHANGED <<remote, synced, run, torn>> /\ caller.pc = "marked" /\ journal' \in Seq(Entry)
    BY DEF Record, MailTypeOK
  <1> PICK m \in Messages : m = caller.message  BY <1>1, <1>2, MailChange
  <1> DEFINE at == PathOf(m, listed[m].row) \cap {caller.path, file[m]}
  <1>3. /\ m \in Messages /\ caller.pc # "idle" /\ caller.want \in Flags
        /\ caller.path \in Flags /\ listed[m].row \in RowIds
        /\ listed[m].path \in Flags /\ listed[m].read \in Flags
    BY <1>1, <1>2, MailChange
  <1>4. Len(journal) \in Nat  BY <1>1
  <1>5. CASE /\ at # {}
             /\ \E id \in NewIds : journal' = Append(journal,
                   [id |-> id, message |-> m, row |-> listed[m].row, want |-> caller.want,
                    status |-> "queued", reused |-> Held(id)])
             /\ meddled' = [meddled EXCEPT ![m] = remote[m] # synced[m] \/ file[m] # caller.want]
             /\ caller' = Quiet
             /\ UNCHANGED <<file, rows>>
    <2>12. PICK id \in NewIds : journal' = Append(journal,
                   [id |-> id, message |-> m, row |-> listed[m].row, want |-> caller.want,
                    status |-> "queued", reused |-> Held(id)])
      BY <1>5
    <2>13. id \in Nat \ {0} /\ \A old \in LiveIds : old < id  BY <1>1, MailIds
    <2>14. PICK b \in BOOLEAN : b = Held(id)  BY DEF Held
    <2>15. PICK entry : entry = [id |-> id, message |-> m, row |-> listed[m].row,
                    want |-> caller.want, status |-> "queued", reused |-> b]
      OBVIOUS
    <2>1. entry \in Entry /\ entry.message = m /\ entry.row = listed[m].row
          /\ entry.want = caller.want /\ entry.status = "queued"
          /\ entry.id = id /\ entry.reused = b  BY <1>3, <2>13, <2>15 DEF Entry
    <2>2. PathOf(m, entry.row) # {}  BY <1>5, <2>1
    <2>3. journal' = Append(journal, entry)  BY <2>12, <2>14, <2>15
    <2>4. meddled'[m] \/ (remote[m] = synced[m] /\ file[m] = caller.want)
      <3> DEFINE touched == remote[m] # synced[m] \/ file[m] # caller.want
      <3>1. meddled' = [meddled EXCEPT ![m] = touched] /\ touched \in BOOLEAN  BY <1>5
      <3>2. ~touched => remote[m] = synced[m] /\ file[m] = caller.want  OBVIOUS
      <3> HIDE DEF touched
      <3> QED BY <1>1, <1>3, <3>1, <3>2
    <2>5. \A n \in Messages \ {m} : meddled'[n] = meddled[n]
      <3> DEFINE touched == remote[m] # synced[m] \/ file[m] # caller.want
      <3>1. meddled' = [meddled EXCEPT ![m] = touched]  BY <1>5
      <3> HIDE DEF touched
      <3> QED BY <1>1, <3>1
    <2> HIDE DEF at
    <2>6. /\ DOMAIN journal = 1..Len(journal) /\ DOMAIN journal' = 1..(Len(journal) + 1)
          /\ \A i \in 1..Len(journal) : journal'[i] = journal[i]
          /\ journal'[Len(journal) + 1] = entry /\ Len(journal') = Len(journal) + 1
      BY <1>1, <2>1, <2>3
    <2>7. Owned'
      <3>1. \A n, r : PathOf(n, r)' = PathOf(n, r)  BY <1>5 DEF PathOf, Paths
      <3>2. ASSUME NEW i \in DOMAIN journal', Live(journal'[i].status), NEW n, NEW r,
                   n = journal'[i].message, r = journal'[i].row
            PROVE  PathOf(n, r)' # {}
        <4>1. CASE i = Len(journal) + 1  BY <2>1, <2>2, <2>6, <3>1, <3>2, <4>1
        <4>2. CASE i # Len(journal) + 1
          <5>1. i \in DOMAIN journal /\ journal'[i] = journal[i]  BY <1>4, <2>6, <4>2
          <5> QED BY <3>1, <3>2, <5>1 DEF Faithful, Owned
        <4> QED BY <4>1, <4>2
      <3> QED BY <3>2 DEF Owned, PathOf, Paths
    <2>8. Single'  BY <1>2, <1>5 DEF Faithful, Single, Paths
    <2>9. Behind'
      <3>1. \A n \in Messages \ torn' : HasUID(n) => HasUID(n)'  BY <1>5 DEF HasUID, Paths
      <3>2. \A i \in DOMAIN journal : journal'[i].message = journal[i].message  BY <2>6
      <3>3. Listed /\ Ordered /\ Marked  BY DEF Faithful, Behind
      <3>4. Listed'  BY <1>1, <1>2, <3>1, <3>2, <3>3, MailListedKept
      <3>5. \A j \in DOMAIN journal' :
               \/ j \in DOMAIN journal /\ journal'[j] = journal[j]
               \/ j = Len(journal) + 1 /\ journal'[j].id = id /\ journal'[j].reused = b
        BY <1>4, <2>1, <2>6
      <3>6. \A i \in DOMAIN journal :
               /\ i \in DOMAIN journal' /\ journal'[i] = journal[i] /\ ~(Len(journal) + 1 < i)
               /\ journal[i].id \in Nat
        <4>1. \A i \in DOMAIN journal : journal[i] \in Entry  BY <1>1
        <4> QED BY <1>4, <2>6, <4>1 DEF Entry
      <3>7. Ordered'
        <4> SUFFICES ASSUME NEW i \in DOMAIN journal', NEW j \in DOMAIN journal', i < j,
                            Live(journal'[i].status)
                     PROVE  journal'[i].id < journal'[j].id
          BY DEF Ordered
        <4>1. CASE i \in DOMAIN journal /\ j \in DOMAIN journal
          BY <3>3, <3>6, <4>1 DEF Ordered
        <4>2. CASE i \in DOMAIN journal /\ j = Len(journal) + 1
          <5>1. journal[i].id \in LiveIds  BY <3>6, <4>2 DEF LiveIds
          <5> QED BY <2>1, <2>6, <2>13, <3>6, <4>2, <5>1
        <4>3. CASE i = Len(journal) + 1
          <5>1. j \in 1..(Len(journal) + 1)  BY <2>6
          <5> QED BY <1>4, <4>3, <5>1
        <4> QED BY <3>5, <4>1, <4>2, <4>3
      <3>8. ASSUME NEW i \in DOMAIN journal, Fresh(i), ~b => journal[i].id < id
            PROVE  \A j \in DOMAIN journal' :
                      i < j /\ ~journal'[j].reused => journal'[i].id < journal'[j].id
        BY <3>5, <3>6, <3>8 DEF Fresh
      <3>9. run.watermark \in Nat  BY <1>1, MailRun
      <3>10. ASSUME run.pc = "retry", NEW it \in run.todo
             PROVE  /\ journal'[it.entry].id <= run.watermark
                    /\ \A j \in DOMAIN journal' : it.entry < j /\ ~journal'[j].reused
                          => journal'[it.entry].id < journal'[j].id
        <4>1. it.entry \in DOMAIN journal  BY <3>10 DEF Working
        <4>2. journal[it.entry].id <= run.watermark /\ Fresh(it.entry)  BY <3>3, <3>10 DEF Marked
        <4>3. journal[it.entry].id \in Nat  BY <3>6, <4>1
        <4>4. ~b => journal[it.entry].id < id
          <5>1. ~b => ~(id <= run.watermark)  BY <2>14 DEF Held
          <5> QED BY <2>13, <3>9, <4>2, <4>3, <5>1
        <4> QED BY <3>6, <3>8, <4>1, <4>2, <4>4
      <3>11. ASSUME run.pc = "retry", run.item # None, NEW it, it = run.item
             PROVE  /\ journal'[it.entry].id <= journal'[it.action].id
                    /\ \A j \in DOMAIN journal' : it.action < j /\ ~journal'[j].reused
                          => journal'[it.action].id < journal'[j].id
        <4>1. it.entry \in DOMAIN journal /\ it.action \in DOMAIN journal  BY <3>11 DEF Working
        <4>2. journal[it.entry].id <= journal[it.action].id /\ Fresh(it.action)
          BY <3>3, <3>11 DEF Marked
        <4>3. journal[it.action].id \in Nat  BY <3>6, <4>1
        <4>4. ~b => journal[it.action].id < id
          <5>1. ~b => ~(id <= journal[it.action].id)  BY <2>14, <3>11 DEF Held
          <5> QED BY <2>13, <4>3, <5>1
        <4> QED BY <3>6, <3>8, <4>1, <4>2, <4>4
      <3>12. Marked'
        <4>1. ASSUME run'.pc = "retry"
              PROVE  /\ \A it \in run'.todo :
                           journal'[it.entry].id <= run'.watermark /\ Fresh(it.entry)'
                     /\ run'.item # None =>
                           /\ journal'[run'.item.entry].id <= journal'[run'.item.action].id
                           /\ Fresh(run.item.action)'
          BY <1>2, <3>10, <3>11, <4>1 DEF Fresh
        <4> QED BY <4>1 DEF Marked
      <3> QED BY <3>4, <3>7, <3>12 DEF Behind
    <2>10. ASSUME NEW n \in Messages, n # m PROVE Told(n)'
      <3>1. /\ Newest(n)' = Newest(n) /\ (Chosen(n)' => Chosen(n))
            /\ Chosen(n) => journal'[Newest(n)] = journal[Newest(n)]
        BY <1>1, <2>1, <2>3, <2>10, MailOthersChoice
      <3>2. Chosen(n) => (Carried(n)' <=> Carried(n))  BY <1>2, <3>1 DEF Carried
      <3>3. Steady(n)' => Steady(n)  BY <1>2, <2>5, <2>10 DEF Steady, Changing
      <3>4. Told(n) /\ UNCHANGED <<remote, file, synced>>  BY <1>2, <1>5 DEF Faithful
      <3> QED BY <3>1, <3>2, <3>3, <3>4, MailToldFrame
    <2>11. Told(m)'
      <3>1. Newest(m)' = Len(journal) + 1  BY <1>1, <2>1, <2>3, MailOwnChoice
      <3>2. Chosen(m)' => ~Carried(m)'
        <4>1. run.watermark \in Nat  BY <1>1, MailRun
        <4>2. ASSUME run.pc = "retry", run.item # None PROVE run.item.action # Len(journal) + 1
          <5>1. run.item.action \in 1..Len(journal)  BY <2>6, <4>2 DEF Working
          <5> QED BY <1>4, <5>1
        <4>3. journal'[Newest(m)'].id = id /\ journal'[Newest(m)'].reused = b
          BY <2>1, <2>6, <3>1
        <4>4. ASSUME Chosen(m)' PROVE ~(id <= run.watermark)
          <5>1. ~b  BY <4>3, <4>4 DEF Chosen
          <5> QED BY <2>14, <5>1 DEF Held
        <4> QED BY <1>2, <3>1, <4>2, <4>3, <4>4 DEF Carried
      <3>3. Steady(m)' => remote[m] = synced[m] /\ file[m] = caller.want
        <4> QED BY <2>4 DEF Steady
      <3>4. journal'[Newest(m)'].want = caller.want /\ journal'[Newest(m)'].status = "queued"
        <4> QED BY <2>1, <2>6, <3>1
      <3> QED BY <1>2, <1>5, <3>2, <3>3, <3>4 DEF Told
    <2> QED BY <2>7, <2>8, <2>9, <2>10, <2>11 DEF Faithful
  <1>6. CASE /\ Undo(m, caller.path)
             /\ IF caller.path \in PathOf(m, listed[m].row) /\ file[m] = caller.path
                THEN /\ rows' = Rehomed(m, caller.path, listed[m].path,
                                       [rows[m][caller.path] EXCEPT !.read = listed[m].read])
                     /\ journal' = Cascade(journal, Collided(m, caller.path, listed[m].path))
                ELSE UNCHANGED <<rows, journal>>
    <2> HIDE DEF at
    <2> SUFFICES ASSUME Ages(journal, journal') /\ \A i \in DOMAIN journal :
                           journal'[i].status = "synchronized"
                               => journal[i].status = "synchronized",
                        Owned', Single', \A n \in Messages \ torn : HasUID(n) => HasUID(n)'
                 PROVE  Faithful'
      <3>1. CASE caller.path \in PathOf(m, listed[m].row) /\ file[m] = caller.path
        <4> DEFINE row == [rows[m][caller.path] EXCEPT !.read = listed[m].read]
        <4>1. rows[m][caller.path] # None  BY <3>1, MailPathOf
        <4>2. row \in Row /\ row.id = rows[m][caller.path].id /\ row.uid = rows[m][caller.path].uid
          <5>1. row \in Row /\ row.id = rows[m][caller.path].id  BY <1>1, <1>3, <4>1, MailFlagged
          <5>2. row.uid = rows[m][caller.path].uid  BY <1>1, <1>3, <4>1, MailUID
          <5> QED BY <5>1, <5>2
        <4>3. /\ rows' = Rehomed(m, caller.path, listed[m].path, row)
              /\ journal' = Cascade(journal, Collided(m, caller.path, listed[m].path))
          BY <1>6, <3>1
        <4> HIDE DEF row
        <4>4. /\ Ages(journal, journal') /\ \A i \in DOMAIN journal :
                /\ Live(journal'[i].status)
                      => journal[i].row \notin Collided(m, caller.path, listed[m].path)
                /\ journal'[i].status = "synchronized" => journal[i].status = "synchronized"
          BY <1>1, <4>3, MailCascadeAges
        <4>5. Owned' /\ Single' /\ \A n \in Messages \ torn : HasUID(n) => HasUID(n)'
          BY <1>1, <1>2, <1>3, <4>1, <4>2, <4>3, <4>4, MailMoves DEF Faithful
        <4> QED BY <4>4, <4>5
      <3>2. CASE ~(caller.path \in PathOf(m, listed[m].row) /\ file[m] = caller.path)
        <4>1. UNCHANGED <<rows, journal>>  BY <1>6, <3>2
        <4>2. Owned' /\ Single'  BY <1>2, <4>1 DEF Faithful, Owned, Single, PathOf, Paths
        <4>3. \A n \in Messages \ torn : HasUID(n) => HasUID(n)'  BY <4>1 DEF HasUID, Paths
        <4> QED BY <4>1, <4>2, <4>3, MailSame
      <3> QED BY <3>1, <3>2
    <2>1. Behind'  BY <1>1, <1>2, MailAged, MailBehindKept DEF Faithful
    <2>2. \A n \in Messages : Told(n)'  BY <1>2, <1>3, <1>6, MailUndoTold DEF Faithful
    <2> QED BY <2>1, <2>2 DEF Faithful
  <1> QED BY <1>5, <1>6 DEF Record

-----------------------------------------------------------------------------
(* The steps of the run keep it. *)

\* Steps of the run's own state, when it claims nothing new.
LEMMA MailRunOnly ==
  ASSUME MailTypeOK, Faithful, UNCHANGED <<disk, database, caller, meddled, torn>>, Behind',
         \A n \in Messages : Chosen(n) /\ Carried(n)' => Carried(n)
  PROVE  Faithful'
  <1>1. UNCHANGED <<remote, synced, file, rows, journal>>  BY DEF disk, database
  <1>2. Owned' /\ Single'  BY <1>1 DEF Faithful, Owned, Single, PathOf, Paths
  <1>3. ASSUME NEW n \in Messages PROVE Told(n)'
    <2>1. journal \in Seq(Entry) /\ Ages(journal, journal') /\ Told(n)
      BY <1>1, MailSame DEF MailTypeOK, Faithful
    <2>2. Steady(n)' => Steady(n)  BY DEF Steady, Changing
    <2> QED BY <1>1, <2>1, <2>2, MailToldKept
  <1> QED BY <1>2, <1>3 DEF Faithful

\* A step of the run that is no retry, no listing and no mbsync claims nothing new.
LEMMA MailLean ==
  ASSUME MailTypeOK, Faithful, Ages(journal, journal'), Len(journal') = Len(journal),
         run'.pc \notin {"retry", "identities", "stale", "mbsync"},
         \/ run'.watermark = 0
         \/ run.pc # "mbsync" /\ run'.watermark = run.watermark /\ run'.plan = run.plan
  PROVE  Behind' /\ \A n \in Messages : Chosen(n) /\ Carried(n)' => Carried(n)
  <1>1. journal \in Seq(Entry) /\ Len(journal) \in Nat /\ run \in Runs  BY DEF MailTypeOK
  <1>2. Behind'
    <2>1. Ordered'  BY MailOrderedKept DEF Faithful, Behind
    <2>2. Listed' /\ Marked'  BY DEF Listed, Marked
    <2> QED BY <2>1, <2>2 DEF Behind
  <1>3. ASSUME NEW n \in Messages, Chosen(n), Carried(n)' PROVE Carried(n)
    <2>1. run'.watermark # 0  BY <1>1, <1>3, MailCarriedOff
    <2>2. Newest(n)' = Newest(n) /\ journal'[Newest(n)].id = journal[Newest(n)].id
      BY <1>1, <1>3, MailNewestId
    <2> QED BY <1>3, <2>1, <2>2 DEF Carried
  <1> QED BY <1>2, <1>3

\* A scan begins.
LEMMA MailBeginRun ==
  ASSUME NEW r \in Runs, BeginScan(r)
  PROVE  run'.pc = "scan" /\ run'.watermark = r.watermark /\ run'.plan = r.plan /\ run'.item = None
  BY DEF BeginScan, Runs

\* Without a watermark when it is a rescue.
LEMMA MailRescueRun == Rescue \in Runs /\ Rescue.watermark = 0 /\ Stopped.watermark = 0
  BY MailStopped DEF Rescue, Stopped

\* Every step that begins a scan.
LEMMA MailBeginKept == ASSUME MailTypeOK, Faithful, ToScan \/ RunFails \/ Restart PROVE Faithful'
  <1>1. UNCHANGED <<disk, database, caller, meddled, torn>>
    BY DEF ToScan, RunFails, Restart, session
  <1>2. (BeginScan(run) /\ run.pc = "retry") \/ BeginScan(Rescue)
    BY DEF ToScan, RunFails, Restart
  <1>3. run \in Runs /\ Ages(journal, journal') /\ Len(journal') = Len(journal)
    BY <1>1, MailSame DEF MailTypeOK, database
  <1>4. /\ run'.pc = "scan"
        /\ \/ run'.watermark = 0
           \/ run.pc # "mbsync" /\ run'.watermark = run.watermark /\ run'.plan = run.plan
    BY <1>2, <1>3, MailBeginRun, MailRescueRun
  <1> QED BY <1>1, <1>3, <1>4, MailLean, MailRunOnly

\* A run starts, has its watermark taken, visits, lists, or is about to acknowledge.
LEMMA MailLeanKept == ASSUME MailTypeOK, Faithful, NEW m, NEW kind,
                             Start(kind) \/ Visit(m) \/ ScanAborts \/ ToAck
                      PROVE  Faithful'
  <1>1. UNCHANGED <<disk, database, caller, meddled, torn>>
    BY DEF Start, Visit, ScanAborts, ToAck, session, history
  <1>2. run \in Runs /\ Ages(journal, journal') /\ Len(journal') = Len(journal)
    BY <1>1, MailSame DEF MailTypeOK, database
  <1>3. /\ run'.pc \in {"watermark", "scan", "idle", "ack"}
        /\ \/ run'.watermark = 0
           \/ run.pc # "mbsync" /\ run'.watermark = run.watermark /\ run'.plan = run.plan
    <2>1. CASE Start(kind)
      <3>1. run' = [Stopped EXCEPT !.pc = "watermark", !.kind = kind, !.plan = plan]
        BY <2>1 DEF Start
      <3> QED BY <3>1 DEF Stopped
    <2>2. CASE Visit(m)
      <3>1. run.pc = "scan" /\ \E u, i : run' = [run EXCEPT !.todo = @ \ {m}, !.unchanged = u,
                                                           !.item = i]
        BY <2>2 DEF Visit
      <3> QED BY <1>2, <3>1 DEF Runs
    <2>3. CASE ScanAborts
      <3>1. EndScan(Stopped) \/ BeginScan(Rescue)  BY <2>3 DEF ScanAborts
      <3>2. ASSUME EndScan(Stopped) PROVE run'.pc = "idle" /\ run'.watermark = 0
        BY <3>2 DEF EndScan, Stopped
      <3> QED BY <3>1, <3>2, MailBeginRun, MailRescueRun
    <2>4. CASE ToAck
      <3>1. run.pc = "stale" /\ run' = [run EXCEPT !.pc = "ack"]  BY <2>4 DEF ToAck
      <3> QED BY <1>2, <3>1 DEF Runs
    <2> QED BY <2>1, <2>2, <2>3, <2>4
  <1> QED BY <1>1, <1>2, <1>3, MailLean, MailRunOnly

\* With the watermark no directory is synchronised yet.
LEMMA MailWatermarkKept == ASSUME MailTypeOK, Working, Faithful, Watermark PROVE Faithful'
  <1>1. UNCHANGED <<disk, database, caller, meddled, torn>> /\ run.pc = "watermark"
    BY DEF Watermark, session, history
  <1>2. run \in Runs  BY DEF MailTypeOK
  <1>3. PICK id \in {0} \cup QueuedIds \cup OtherQueued :
           run' = [run EXCEPT !.pc = "mbsync", !.todo = run.plan, !.watermark = id]
    BY DEF Watermark
  <1>4. run'.pc = "mbsync" /\ run'.todo = run.plan /\ run'.plan = run.plan
    BY <1>2, <1>3 DEF Runs
  <1>5. Ages(journal, journal')  BY <1>1, MailSame DEF database
  <1>6. Ordered'  BY <1>5, MailOrderedKept DEF Faithful, Behind
  <1>7. Behind'  BY <1>4, <1>6 DEF Behind, Listed, Marked
  <1>8. \A n \in Messages : ~Carried(n)'  BY <1>4 DEF Carried
  <1> QED BY <1>1, <1>7, <1>8, MailRunOnly

\* The retained reads are of their messages.
LEMMA MailMbsyncDoneKept == ASSUME MailTypeOK, Working, Faithful, MbsyncDone PROVE Faithful'
  <1>1. UNCHANGED <<disk, database, caller, meddled, torn>> /\ run.pc = "mbsync" /\ run.todo = {}
    BY DEF MbsyncDone, session, history
  <1>2. journal \in Seq(Entry) /\ run \in Runs  BY DEF MailTypeOK
  <1>3. run' = [run EXCEPT !.pc = "retry", !.todo = Retained] /\ run.item = None
    BY <1>1 DEF MbsyncDone, Working
  <1>4. /\ run'.pc = "retry" /\ run'.todo = Retained /\ run'.item = None
        /\ run'.watermark = run.watermark /\ run'.plan = run.plan  BY <1>2, <1>3 DEF Runs
  <1>5. UNCHANGED <<rows, journal, remote>>  BY <1>1 DEF disk, database
  <1>6. ASSUME NEW it \in Retained
        PROVE  /\ journal[it.entry].message = it.message
               /\ it.uid => HasUID(it.message)
               /\ journal[it.entry].id <= run.watermark /\ Fresh(it.entry)
    <2>1. PICK n \in Messages : /\ Queued(n, run.watermark) # {}
                                /\ it = [message |-> n, entry |-> Last(Queued(n, run.watermark)),
                                         uid |-> HasUID(n)]
      BY <1>6 DEF Retained
    <2>2. Queued(n, run.watermark) \subseteq 1..Len(journal) /\ Len(journal) \in Nat
      BY <1>2 DEF Queued, EntriesOf
    <2>3. Last(Queued(n, run.watermark)) \in Queued(n, run.watermark)  BY <2>1, <2>2, MailLast
    <2>4. PICK i \in DOMAIN journal : i = Last(Queued(n, run.watermark))  BY <2>3 DEF Queued, EntriesOf
    <2>5. journal[i].message = n /\ journal[i].id <= run.watermark /\ Live(journal[i].status)
      BY <2>3, <2>4 DEF Queued, EntriesOf
    <2>6. Fresh(i)  BY <2>5 DEF Fresh, Faithful, Behind, Ordered
    <2>7. it.message = n /\ it.entry = i /\ it.uid = HasUID(n)  BY <2>1, <2>4
    <2> QED BY <2>5, <2>6, <2>7
  <1>7. \A n : HasUID(n) => HasUID(n)'  BY <1>5 DEF HasUID, Paths
  <1>8. Behind'
    <2>2. ASSUME NEW it \in run'.todo
          PROVE  /\ journal'[it.entry].message = it.message
                 /\ it.uid /\ it.message \notin torn' => HasUID(it.message)'
      BY <1>4, <1>5, <1>6, <1>7
    <2>3. ASSUME NEW it \in run'.todo
          PROVE  journal'[it.entry].id <= run'.watermark /\ Fresh(it.entry)'
      BY <1>4, <1>5, <1>6 DEF Fresh
    <2>4. Listed' /\ Marked'  BY <1>4, <2>2, <2>3 DEF Listed, Marked
    <2>5. Ordered'  BY <1>5, MailSame, MailOrderedKept DEF Faithful, Behind
    <2> QED BY <2>4, <2>5 DEF Behind
  <1>9. ASSUME NEW n \in Messages, Chosen(n), Carried(n)' PROVE Carried(n)
    <2>1. Newest(n)' = Newest(n)  BY <1>5 DEF Newest, Made
    <2> QED BY <1>1, <1>4, <1>5, <1>9, <2>1 DEF Carried
  <1> QED BY <1>1, <1>8, <1>9, MailRunOnly

\* The provider's listing.
LEMMA MailPendingKept == ASSUME MailTypeOK, Working, Faithful, Pending PROVE Faithful'
  <1>1. UNCHANGED <<disk, database, caller, meddled, torn>> /\ run.pc = "pending"
    BY DEF Pending, session, history
  <1>2. journal \in Seq(Entry) /\ run \in Runs  BY DEF MailTypeOK
  <1>3. PICK s : run' = [run EXCEPT !.pc = "identities", !.protected = s,
                          !.todo = {[message |-> m, flag |-> remote[m]] : m \in Messages}]
    BY DEF Pending
  <1>4. /\ run'.pc = "identities" /\ run'.watermark = run.watermark /\ run'.plan = run.plan
        /\ run'.todo = {[message |-> m, flag |-> remote[m]] : m \in Messages}
    BY <1>2, <1>3 DEF Runs
  <1>5. UNCHANGED <<rows, journal, remote>>  BY <1>1 DEF disk, database
  <1>6. Behind'
    <2>1. Ordered'  BY <1>5, MailSame, MailOrderedKept DEF Faithful, Behind
    <2> QED BY <1>4, <1>5, <2>1 DEF Behind, Listed, Marked
  <1>7. ASSUME NEW n \in Messages, Chosen(n), Carried(n)' PROVE Carried(n)
    <2>1. Newest(n)' = Newest(n)  BY <1>5 DEF Newest, Made
    <2> QED BY <1>1, <1>4, <1>5, <1>7, <2>1 DEF Carried
  <1> QED BY <1>1, <1>6, <1>7, MailRunOnly

\* What mbsync does with one message: nothing, a pull or a push.
LEMMA MailMbsyncForms ==
  ASSUME MailTypeOK, NEW m \in Messages, Mbsync(m)
  PROVE  /\ \A n \in Messages \ {m} :
                remote'[n] = remote[n] /\ file'[n] = file[n] /\ synced'[n] = synced[n]
         /\ \/ remote[m] = None /\ remote'[m] = None
            \/ /\ remote[m] # None /\ (file[m] = None \/ file[m] = synced[m])
               /\ file'[m] = remote[m] /\ synced'[m] = remote[m] /\ remote'[m] = remote[m]
            \/ /\ remote[m] # None /\ file[m] # None
               /\ remote'[m] = file[m] /\ synced'[m] = file[m] /\ file'[m] = file[m]
  <1>1. /\ remote \in [Messages -> Flags \cup {None}] /\ synced \in [Messages -> Flags \cup {None}]
        /\ file \in [Messages -> Flags \cup {None}]  BY DEF MailTypeOK
  <1>2. CASE remote[m] = None /\ UNCHANGED <<remote, synced, file>>  BY <1>2
  <1>3. CASE /\ remote[m] # None /\ file[m] # None
             /\ remote' = [remote EXCEPT ![m] = file[m]]
             /\ synced' = [synced EXCEPT ![m] = file[m]] /\ UNCHANGED file
    BY <1>1, <1>3
  <1>4. CASE /\ remote[m] # None /\ (file[m] = None \/ file[m] = synced[m])
             /\ file' = [file EXCEPT ![m] = remote[m]]
             /\ synced' = [synced EXCEPT ![m] = remote[m]] /\ UNCHANGED remote
    BY <1>1, <1>4
  <1>5. \/ remote[m] = None /\ UNCHANGED disk
        \/ /\ remote[m] # None /\ file[m] = None
           /\ file' = [file EXCEPT ![m] = remote[m]]
           /\ synced' = [synced EXCEPT ![m] = remote[m]] /\ UNCHANGED remote
        \/ /\ remote[m] # None /\ file[m] \notin {None, synced[m]}
           /\ remote' = [remote EXCEPT ![m] = file[m]]
           /\ synced' = [synced EXCEPT ![m] = file[m]] /\ UNCHANGED file
        \/ /\ remote[m] # None /\ file[m] = synced[m]
           /\ file' = [file EXCEPT ![m] = remote[m]]
           /\ synced' = [synced EXCEPT ![m] = remote[m]] /\ UNCHANGED remote
    BY DEF Mbsync
  <1> QED BY <1>2, <1>3, <1>4, <1>5 DEF disk

\* mbsync tells the provider the newest choice, which is what the file says.
LEMMA MailMbsyncKept == ASSUME MailTypeOK, Working, Faithful, NEW m \in Messages, Mbsync(m) PROVE Faithful'
  <1>1. UNCHANGED <<rows, journal, caller, meddled, torn>> /\ run.pc = "mbsync"
    BY DEF Mbsync, database, session, history
  <1>2. journal \in Seq(Entry) /\ run \in Runs /\ Len(journal) \in Nat  BY DEF MailTypeOK
  <1>3. run' = [run EXCEPT !.todo = @ \ {m}]  BY DEF Mbsync
  <1>4. /\ run'.pc = run.pc /\ run'.todo = run.todo \ {m} /\ run'.item = run.item
        /\ run'.watermark = run.watermark /\ run'.plan = run.plan  BY <1>2, <1>3 DEF Runs
  <1>5. Owned' /\ Single'  BY <1>1 DEF Faithful, Owned, Single, PathOf, Paths
  <1>6. Behind'
    <2>1. \A n \in Messages \ torn' : HasUID(n) => HasUID(n)'  BY <1>1 DEF HasUID, Paths
    <2>2. \A n \in Messages : remote[n] = None => remote'[n] = None  BY MailMbsyncForms
    <2>3. Ages(journal, journal')  BY <1>1, MailSame
    <2> QED BY <1>1, <1>2, <1>4, <2>1, <2>2, <2>3, MailBehindKept DEF Faithful
  <1>7. ASSUME NEW n \in Messages PROVE Told(n)'
    <2>1. Ages(journal, journal') /\ Told(n)  BY <1>1, MailSame DEF Faithful
    <2>2. Newest(n)' = Newest(n)  BY <1>1 DEF Newest, Made
    <2>3. Steady(n)' => Steady(n)  BY <1>1 DEF Steady, Changing
    <2>4. CASE n # m
      <3>1. Carried(n)' => Carried(n)  BY <1>1, <1>4, <2>2, <2>4 DEF Carried
      <3> QED BY <1>1, <1>2, <2>1, <2>3, <2>4, <3>1, MailMbsyncForms, MailToldKept
    <2>5. CASE n = m
      <3> DEFINE w == journal[Newest(n)].want
      <3> SUFFICES ASSUME Steady(n)', Chosen(n)', remote'[n] # None
                   PROVE  /\ file'[n] = journal'[Newest(n)'].want
                          /\ remote'[n] = journal'[Newest(n)'].want
        BY DEF Told
      <3>1. Steady(n) /\ Chosen(n)  BY <1>1, <2>2, <2>3 DEF Chosen, Made
      <3>2. remote[n] # None  BY <2>5, MailMbsyncForms
      <3>3. file[n] = w /\ remote[n] \in {w, synced[n]}  BY <2>1, <3>1, <3>2 DEF Told
      <3>4. journal'[Newest(n)'].want = w  BY <1>1, <2>2
      <3>5. w # None
        <4>1. Newest(n) \in DOMAIN journal  BY <1>2, <3>1, MailNewest DEF Chosen
        <4>2. journal[Newest(n)] \in Entry  BY <1>2, <4>1
        <4> QED BY <4>2, NoneApart DEF Entry
      <3> HIDE DEF w
      <3> QED BY <2>5, <3>2, <3>3, <3>4, <3>5, MailMbsyncForms
    <2> QED BY <2>4, <2>5
  <1> QED BY <1>5, <1>6, <1>7 DEF Faithful

\* A live newest choice is the newest of the live entries.
LEMMA MailNewestLive ==
  ASSUME journal \in Seq(Entry), NEW m, Chosen(m)
  PROVE  EntriesOf(m) # {} /\ Last(EntriesOf(m)) = Newest(m)
  <1>1. /\ Newest(m) \in DOMAIN journal /\ journal[Newest(m)].message = m /\ Newest(m) \in Nat
        /\ \A i \in Made(m) : i <= Newest(m)  BY MailNewest DEF Chosen
  <1>2. Newest(m) \in EntriesOf(m)  BY <1>1 DEF Chosen, EntriesOf
  <1>3. EntriesOf(m) \subseteq 1..Len(journal) /\ Len(journal) \in Nat  BY DEF EntriesOf
  <1>4. Last(EntriesOf(m)) \in EntriesOf(m) /\ \A j \in EntriesOf(m) : j <= Last(EntriesOf(m))
    BY <1>2, <1>3, MailLast
  <1>5. EntriesOf(m) \subseteq Made(m)  BY DEF EntriesOf, Made
  <1>6. Last(EntriesOf(m)) <= Newest(m) /\ Newest(m) <= Last(EntriesOf(m))
    BY <1>1, <1>2, <1>4, <1>5
  <1>7. Last(EntriesOf(m)) \in Nat  BY <1>3, <1>4
  <1> QED BY <1>1, <1>2, <1>6, <1>7

\* A retried read goes to the provider with the newest choice of its message.
LEMMA MailRetryKept ==
  ASSUME MailTypeOK, Working, Faithful, NEW it \in run.todo, Retry(it) PROVE Faithful'
  <1>1. UNCHANGED <<synced, file, rows, journal, caller, meddled, torn>> /\ run.pc = "retry"
        /\ run.item = None
    BY DEF Retry, database, session, history
  <1>2. /\ journal \in Seq(Entry) /\ run \in Runs /\ Len(journal) \in Nat
        /\ remote \in [Messages -> Flags \cup {None}]  BY DEF MailTypeOK
  <1> DEFINE m == it.message
             newer == Latest(m) # 0 /\ journal[Latest(m)].id > journal[it.entry].id
             action == IF newer THEN Latest(m) ELSE it.entry
             told == [remote EXCEPT ![m] = IF @ = None THEN None ELSE journal[action].want]
             item == [message |-> m, entry |-> it.entry, action |-> action]
  <1>3. \/ /\ it.uid /\ remote' = told
           /\ run' = [run EXCEPT !.item = item, !.todo = @ \ {it}]
        \/ /\ remote' = remote \/ (it.uid /\ remote' = told)
           /\ run' = [run EXCEPT !.todo = @ \ {it}, !.late = TRUE]
    BY DEF Retry
  <1>4. it \in Retries /\ it.entry \in DOMAIN journal  BY <1>1 DEF Working
  <1>5. m \in Messages /\ it.entry \in Nat  BY <1>4 DEF Retries
  <1>6. journal[it.entry].message = m /\ (it.uid /\ m \notin torn => HasUID(m))
    BY <1>1 DEF Faithful, Behind, Listed
  <1>16. journal[it.entry].id <= run.watermark /\ Fresh(it.entry) /\ Ordered
    BY <1>1 DEF Faithful, Behind, Marked
  <1>17. \A j \in DOMAIN journal : journal[j].id \in Nat
    <2>1. \A j \in DOMAIN journal : journal[j] \in Entry  BY <1>2
    <2> QED BY <2>1 DEF Entry
  <1>7. Latest(m) # 0 => /\ Latest(m) \in DOMAIN journal /\ journal[Latest(m)].message = m
                         /\ Live(journal[Latest(m)].status)
    <2>1. ASSUME Latest(m) # 0 PROVE Latest(m) \in EntriesOf(m)
      <3>1. Latest(m) = Last(EntriesOf(m)) /\ EntriesOf(m) # {}  BY <2>1 DEF Latest
      <3>2. EntriesOf(m) \subseteq 1..Len(journal)  BY <1>2 DEF EntriesOf
      <3> QED BY <1>2, <3>1, <3>2, MailLast
    <2> QED BY <2>1 DEF EntriesOf
  <1> HIDE DEF m
  <1>8. /\ journal[action].message = m /\ action \in DOMAIN journal
        /\ journal[it.entry].id <= journal[action].id /\ Fresh(action)
    <2>1. CASE newer
      <3>1. action = Latest(m)  BY <2>1
      <3>2. Fresh(action)  BY <1>7, <1>16, <2>1, <3>1 DEF Fresh, Ordered
      <3> QED BY <1>4, <1>7, <1>17, <2>1, <3>1, <3>2
    <2>2. CASE ~newer
      <3>1. action = it.entry  BY <2>2
      <3> QED BY <1>4, <1>6, <1>16, <1>17, <3>1
    <2> QED BY <2>1, <2>2
  <1>9. ASSUME it.uid, Chosen(m), m \notin torn PROVE action = Newest(m)
    <2>1. HasUID(m)  BY <1>6, <1>9
    <2>2. Latest(m) = Newest(m)  BY <1>2, <1>9, <2>1, MailNewestLive DEF Latest
    <2>3. it.entry <= Newest(m) /\ Newest(m) \in Nat
      BY <1>2, <1>4, <1>6, <1>9, MailNewest DEF Chosen, Made
    <2>4. CASE it.entry = Newest(m)  BY <2>2, <2>4
    <2>5. CASE it.entry # Newest(m)
      <3>1. it.entry < Newest(m) /\ Newest(m) \in DOMAIN journal /\ ~journal[Newest(m)].reused
        BY <1>2, <1>5, <1>9, <2>3, <2>5, MailNewest DEF Chosen
      <3>2. journal[it.entry].id < journal[Newest(m)].id  BY <1>16, <3>1 DEF Fresh
      <3>3. Newest(m) # 0  BY <1>2, <1>9, MailNewest DEF Chosen
      <3>4. newer  BY <1>4, <1>17, <2>2, <3>1, <3>2, <3>3
      <3> QED BY <2>2, <3>4
    <2> QED BY <2>4, <2>5
  <1> HIDE DEF action, newer
  <1>10. /\ \A n \in Messages \ {m} : told[n] = remote[n]
         /\ told[m] = IF remote[m] = None THEN None ELSE journal[action].want
    BY <1>2, <1>5
  <1>11. item.message = m /\ item.entry = it.entry /\ item.action = action  OBVIOUS
  <1> HIDE DEF told, item
  <1>12. /\ run'.pc = "retry" /\ run'.todo = run.todo \ {it} /\ run'.watermark = run.watermark
         /\ run'.plan = run.plan
         /\ \/ run'.item = item /\ it.uid /\ remote' = told
            \/ run'.item = None /\ (remote' = remote \/ (it.uid /\ remote' = told))
    BY <1>1, <1>2, <1>3 DEF Runs
  <1>13. Owned' /\ Single'  BY <1>1 DEF Faithful, Owned, Single, PathOf, Paths
  <1>14. Behind'
    <2>1. \A n : HasUID(n) => HasUID(n)'  BY <1>1 DEF HasUID, Paths
    <2>3. ASSUME NEW x \in run'.todo
          PROVE  /\ journal'[x.entry].message = x.message
                 /\ x.uid /\ x.message \notin torn' => HasUID(x.message)'
                 /\ journal'[x.entry].id <= run'.watermark /\ Fresh(x.entry)'
      <3>1. x \in run.todo  BY <1>12
      <3>2. journal[x.entry].id <= run.watermark /\ Fresh(x.entry)
        BY <1>1, <3>1 DEF Faithful, Behind, Marked
      <3>3. Fresh(x.entry)'  BY <1>1, <3>2 DEF Fresh
      <3> QED BY <1>1, <1>12, <2>1, <3>1, <3>2, <3>3 DEF Faithful, Behind, Listed
    <2>4. ASSUME run'.item # None, NEW x, x = run'.item
          PROVE  /\ journal'[x.entry].message = x.message
                 /\ journal'[x.action].message = x.message
                 /\ journal'[x.entry].id <= journal'[x.action].id
                 /\ Fresh(x.action)'
      <3>1. x.entry = it.entry /\ x.action = action /\ x.message = m  BY <1>11, <1>12, <2>4
      <3>2. Fresh(x.action)'  BY <1>1, <1>8, <3>1 DEF Fresh
      <3> QED BY <1>1, <1>6, <1>8, <3>1, <3>2
    <2>5. Listed'  BY <1>12, <2>3, <2>4 DEF Listed
    <2>6. Marked'  BY <1>12, <2>3, <2>4 DEF Marked, Fresh
    <2>7. Ordered'  BY <1>1, <1>16, MailSame, MailOrderedKept
    <2> QED BY <2>5, <2>6, <2>7 DEF Behind
  <1>15. ASSUME NEW n \in Messages PROVE Told(n)'
    <2>1. Ages(journal, journal') /\ Told(n)  BY <1>1, MailSame DEF Faithful
    <2>2. Newest(n)' = Newest(n) /\ (Chosen(n)' <=> Chosen(n))  BY <1>1 DEF Newest, Made, Chosen
    <2>3. Steady(n)' => Steady(n)  BY <1>1 DEF Steady, Changing
    <2>4. CASE remote' = remote /\ run'.item = None
      <3>1. Carried(n)' => Carried(n)  BY <1>1, <1>12, <2>2, <2>4 DEF Carried
      <3> QED BY <1>1, <1>2, <2>1, <2>3, <2>4, <3>1, MailToldKept
    <2>5. CASE n # m /\ it.uid /\ remote' = told
      <3>1. remote'[n] = remote[n]  BY <1>10, <2>5
      <3>2. Carried(n)' => Carried(n)  BY <1>1, <1>11, <1>12, <2>2, <2>5 DEF Carried
      <3> QED BY <1>1, <1>2, <2>1, <2>3, <3>1, <3>2, MailToldKept
    <2>6. CASE n = m /\ it.uid /\ remote' = told
      <3> SUFFICES ASSUME Steady(n)', Chosen(n)', remote'[n] # None
                   PROVE  /\ file'[n] = journal'[Newest(n)'].want
                          /\ remote'[n] = journal'[Newest(n)'].want
        BY DEF Told
      <3>1. action = Newest(n)  BY <1>9, <2>2, <2>3, <2>6 DEF Steady
      <3>2. remote[n] # None /\ remote'[n] = journal[action].want  BY <1>10, <2>6
      <3>3. file[n] = journal[Newest(n)].want  BY <2>1, <2>2, <2>3, <3>2 DEF Told
      <3> QED BY <1>1, <2>2, <3>1, <3>2, <3>3
    <2> QED BY <1>12, <2>4, <2>5, <2>6
  <1> QED BY <1>13, <1>14, <1>15 DEF Faithful

\* Nothing was settled, or only what is up to an entry, of a row of the message.
SettlesNone(js, ks) == \A x \in DOMAIN js :
    ks[x].status = "synchronized" => js[x].status = "synchronized"
SettlesUpTo(js, ks, m, a, rs) == \A x \in DOMAIN js : ks[x].status = "synchronized" =>
    \/ js[x].status = "synchronized"
    \/ js[x].id <= js[a].id /\ \E p \in Flags : rs[m][p] # None /\ rs[m][p].id = js[x].row

\* What FinishQueuedRead settles, for the choice confirmed and the one retried: entries up
\* to the confirmed one, of a row of the message.
LEMMA MailSettled ==
  ASSUME NEW js \in Seq(Entry), NEW k1 \in Seq(Entry), Ages(js, k1), NEW m, NEW a \in DOMAIN js,
         NEW i \in DOMAIN js, js[i].id <= js[a].id, NEW f, NEW g, NEW rs,
         SettlesNone(js, k1),
         NEW k2, k2 = Finish(k1, m, a, f, rs), NEW k3, k3 = Finish(k2, m, i, g, rs)
  PROVE  Ages(js, k3) /\ Ages(k1, k3) /\ SettlesUpTo(js, k3, m, a, rs)
  <1>1. k2 \in Seq(Entry)  BY MailFinish
  <1>3. /\ Ages(k1, k2)
        /\ \A x \in DOMAIN k1 : k2[x].status = "synchronized" =>
               \/ k1[x].status = "synchronized"
               \/ /\ k1[x].row = k1[a].row /\ k1[x].id <= k1[a].id /\ k1[x].status = "queued"
                  /\ \E p \in Flags : rs[m][p] # None /\ rs[m][p].id = k1[a].row
    BY MailFinishAges
  <1>4. /\ Ages(k2, k3)
        /\ \A x \in DOMAIN k2 : k3[x].status = "synchronized" =>
               \/ k2[x].status = "synchronized"
               \/ /\ k2[x].row = k2[i].row /\ k2[x].id <= k2[i].id /\ k2[x].status = "queued"
                  /\ \E p \in Flags : rs[m][p] # None /\ rs[m][p].id = k2[i].row
    BY <1>1, MailFinishAges
  <1>5. DOMAIN k1 = DOMAIN js /\ DOMAIN k2 = DOMAIN js  BY <1>3 DEF Ages
  <1>6. Ages(k1, k3)  BY <1>3, <1>4, MailAgesOn
  <1>7. Ages(js, k3)  BY <1>6, MailAgesOn
  <1>8. \A x \in DOMAIN js : /\ k1[x].row = js[x].row /\ k2[x].row = js[x].row
                             /\ k1[x].id = js[x].id /\ k2[x].id = js[x].id
    BY <1>3, <1>5 DEF Ages
  <1>10. \A x \in DOMAIN js : js[x].id \in Nat
    <2>1. \A x \in DOMAIN js : js[x] \in Entry  OBVIOUS
    <2> QED BY <2>1 DEF Entry
  <1>9. ASSUME NEW x \in DOMAIN js, k3[x].status = "synchronized"
        PROVE  \/ js[x].status = "synchronized"
               \/ /\ js[x].id <= js[a].id
                  /\ \E p \in Flags : rs[m][p] # None /\ rs[m][p].id = js[x].row
    <2>1. CASE k2[x].status = "synchronized"  BY <1>3, <1>5, <1>8, <2>1 DEF SettlesNone
    <2>2. CASE /\ k2[x].row = k2[i].row /\ k2[x].id <= k2[i].id
               /\ \E p \in Flags : rs[m][p] # None /\ rs[m][p].id = k2[i].row
      <3>1. js[x].id <= js[a].id  BY <1>8, <1>10, <2>2
      <3> QED BY <1>8, <2>2, <3>1
    <2> QED BY <1>4, <1>5, <1>9, <2>1, <2>2
  <1> QED BY <1>6, <1>7, <1>9 DEF SettlesUpTo

\* Aligning a confirmed read settles choices up to the confirmed one, which the
\* provider has.
LEMMA MailAlignKept == ASSUME MailTypeOK, MailTypeOK', Working, Faithful, Align PROVE Faithful'
  <1>1. DatabaseOK /\ DatabaseOK' /\ run \in Runs /\ journal \in Seq(Entry)
        /\ journal' \in Seq(Entry) /\ file \in [Messages -> Flags \cup {None}]
    BY MailParts, MailPartsNext DEF DatabaseOK, DiskOK
  <1>2. /\ UNCHANGED <<remote, synced, caller, meddled, torn>>
        /\ run.pc = "retry" /\ run.item # None
    BY DEF Align, session, history
  <1>3. PICK it \in Confirmed : it = run.item
    BY <1>2 DEF Working
  <1> DEFINE m == it.message
             i == it.entry
             a == it.action
             want == journal[a].want
             from == IF Other(want) \in Copies(m) THEN Other(want) ELSE want
             aligned == journal[Latest(m)].id = journal[a].id
             newRows == IF aligned THEN Rehomed(m, from, want, [rows[m][from] EXCEPT !.read = want])
                                   ELSE rows
             kept == IF aligned THEN Cascade(journal, Collided(m, from, want)) ELSE journal
             asked == IF aligned THEN want ELSE journal[i].want
  <1>4. /\ m \in Messages /\ i \in DOMAIN journal /\ a \in DOMAIN journal
        /\ journal[i].id <= journal[a].id /\ Fresh(a)
        /\ journal[a].message = m /\ want \in Flags
    <2>1. m \in Messages /\ i \in DOMAIN journal /\ a \in DOMAIN journal
      BY <1>2, <1>3 DEF Working, Confirmed
    <2>2. journal[i].id <= journal[a].id /\ Fresh(a) /\ journal[a].message = m
      BY <1>2, <1>3 DEF Faithful, Behind, Listed, Marked
    <2>3. journal[a] \in Entry  BY <1>1, <2>1
    <2> QED BY <2>1, <2>2, <2>3 DEF Entry
  <1>5. CASE \E l : /\ run' = [run EXCEPT !.item = None, !.late = l]
                    /\ UNCHANGED <<file, rows, journal>>
    <2>1. /\ run'.pc = run.pc /\ run'.todo = run.todo /\ run'.item = None
          /\ run'.watermark = run.watermark /\ run'.plan = run.plan  BY <1>1, <1>5 DEF Runs
    <2>2. Behind'
      <3>1. \A n \in Messages \ torn' : HasUID(n) => HasUID(n)'  BY <1>5 DEF HasUID, Paths
      <3>2. Ages(journal, journal')  BY <1>5, MailSame
      <3> QED BY <1>1, <1>2, <1>5, <2>1, <3>1, <3>2, MailBehindKept DEF Faithful
    <2>3. ASSUME NEW n \in Messages, Chosen(n), Carried(n)' PROVE Carried(n)
      <3>1. Newest(n)' = Newest(n)  BY <1>5 DEF Newest, Made
      <3> QED BY <1>2, <1>5, <2>1, <2>3, <3>1 DEF Carried
    <2> QED BY <1>2, <1>5, <2>2, <2>3, MailRunOnly DEF disk, database
  <1>6. CASE /\ Latest(m) # 0 /\ rows' = newRows
             /\ file' = IF aligned /\ from # want THEN [file EXCEPT ![m] = want] ELSE file
             /\ journal' = Finish(Finish(kept, m, a, want, newRows), m, i, asked, newRows)
             /\ run' = [run EXCEPT !.item = None]
    <2>1. /\ run'.pc = run.pc /\ run'.todo = run.todo /\ run'.item = None
          /\ run'.watermark = run.watermark /\ run'.plan = run.plan  BY <1>1, <1>6 DEF Runs
    <2>2. kept \in Seq(Entry) /\ Ages(journal, kept) /\ \A x \in DOMAIN journal :
             /\ kept[x].status = "synchronized" => journal[x].status = "synchronized"
             /\ Live(kept[x].status) /\ aligned => journal[x].row \notin Collided(m, from, want)
      <3>1. CASE aligned
        <4>1. kept = Cascade(journal, Collided(m, from, want))  BY <3>1
        <4> HIDE DEF m, from, want, kept, aligned
        <4> QED BY <1>1, <4>1, MailCascade, MailCascadeAges
      <3>2. CASE ~aligned
        <4>1. kept = journal  BY <3>2
        <4> HIDE DEF m, from, want, kept, aligned
        <4> QED BY <1>1, <3>2, <4>1 DEF Ages
      <3> QED BY <3>1, <3>2
    <2>3. /\ journal' = Finish(Finish(kept, m, a, want, rows'), m, i, asked, rows')
          /\ rows' = newRows /\ Latest(m) # 0  BY <1>6
    <2>4. /\ Ages(journal, journal') /\ \A x \in DOMAIN journal :
                                           Live(journal'[x].status) => Live(kept[x].status)
          /\ \A x \in DOMAIN journal : journal'[x].status = "synchronized" =>
                \/ journal[x].status = "synchronized"
                \/ /\ journal[x].id <= journal[a].id
                   /\ \E p \in Flags : rows'[m][p] # None /\ rows'[m][p].id = journal[x].row
      <3> HIDE DEF m, i, a, from, want, kept, asked, newRows, aligned
      <3>1. kept \in Seq(Entry) /\ Ages(journal, kept) /\ SettlesNone(journal, kept)
        BY <2>2 DEF SettlesNone
      <3>2. /\ a \in DOMAIN journal /\ i \in DOMAIN journal /\ journal[i].id <= journal[a].id
            /\ journal' = Finish(Finish(kept, m, a, want, rows'), m, i, asked, rows')
        BY <1>4, <2>3
      <3>3. /\ Ages(journal, journal') /\ Ages(kept, journal')
            /\ SettlesUpTo(journal, journal', m, a, rows')
        BY <1>1, <3>1, <3>2, MailSettled
      <3> QED BY <3>1, <3>3 DEF Ages, SettlesUpTo
    <2>5. Owned' /\ Single' /\ \A n \in Messages \ torn : HasUID(n) => HasUID(n)'
      <3>1. CASE aligned
        <4> DEFINE row == [rows[m][from] EXCEPT !.read = want]
        <4>1. from \in Flags /\ rows[m][from] # None
          <5> HIDE DEF m, want
          <5> QED BY <1>1, <1>4, <2>3, MailAlignable
        <4>2. row \in Row /\ row.id = rows[m][from].id
          <5> HIDE DEF m, want, from
          <5> QED BY <1>1, <1>4, <4>1, MailFlagged
        <4>3. row.uid = rows[m][from].uid
          <5> HIDE DEF m, want, from
          <5> QED BY <1>1, <1>4, <4>1, MailUID
        <4>4. rows' = Rehomed(m, from, want, row)  BY <2>3, <3>1
        <4>5. \A x \in DOMAIN journal :
                 Live(journal'[x].status) => journal[x].row \notin Collided(m, from, want)
          <5> HIDE DEF m, from, want, kept, aligned
          <5> QED BY <2>2, <2>4, <3>1
        <4> HIDE DEF m, from, want, row, kept, aligned, newRows
        <4> QED BY <1>1, <1>2, <1>4, <2>4, <4>1, <4>2, <4>3, <4>4, <4>5, MailMoves DEF Faithful
      <3>2. CASE ~aligned
        <4>1. rows' = rows  BY <2>3, <3>2
        <4>2. \A n, id : PathOf(n, id)' = PathOf(n, id)  BY <4>1 DEF PathOf, Paths
        <4>3. Owned'
          <5> HIDE DEF m, from, want, kept, aligned, newRows
          <5> DEFINE gone == {}
          <5>1. \A n \in Messages : \A id \in RowIds :
                   PathOf(n, id) # {} /\ id \notin gone => PathOf(n, id)' # {}
            BY <4>2
          <5>2. \A x \in DOMAIN journal : Live(journal'[x].status) => journal[x].row \notin gone
            OBVIOUS
          <5> HIDE DEF gone
          <5>3. journal \in Seq(Entry) /\ Owned /\ Ages(journal, journal')  BY <1>1, <2>4 DEF Faithful
          <5> QED BY <5>1, <5>2, <5>3, MailOwnedKept
        <4>4. Single'  BY <1>2, <4>1 DEF Faithful, Single, Paths
        <4>5. \A n \in Messages \ torn : HasUID(n) => HasUID(n)'  BY <4>1 DEF HasUID, Paths
        <4> QED BY <4>3, <4>4, <4>5
      <3> QED BY <3>1, <3>2
    <2>6. Behind'
      <3> HIDE DEF m, i, a, from, want, kept, asked, aligned, newRows
      <3> QED BY <1>1, <1>2, <2>1, <2>4, <2>5, MailAged, MailBehindKept DEF Faithful
    <2>7. \A x \in DOMAIN journal : journal'[x].status = "synchronized" =>
             \/ journal[x].status = "synchronized"
             \/ journal[x].id <= journal[a].id /\ journal[x].message = m
      <3> SUFFICES ASSUME NEW x \in DOMAIN journal, journal'[x].status = "synchronized",
                          journal[x].status # "synchronized"
                   PROVE  journal[x].id <= journal[a].id /\ journal[x].message = m
        OBVIOUS
      <3> HIDE DEF m, i, a, from, want, kept, asked, aligned, newRows
      <3>1. PICK p \in Flags : /\ journal[x].id <= journal[a].id
                               /\ rows'[m][p] # None /\ rows'[m][p].id = journal[x].row
        BY <2>4
      <3>2. journal'[x].message = journal[x].message /\ journal'[x].row = journal[x].row
            /\ x \in DOMAIN journal'  BY <2>4 DEF Ages
      <3>3. \E q \in Flags : /\ rows'[journal'[x].message][q] # None
                             /\ rows'[journal'[x].message][q].id = journal'[x].row
        BY <2>5, <3>2 DEF Owned, PathOf, Paths, Live
      <3>4. journal[x] \in Entry  BY <1>1
      <3>5. journal[x].message \in Messages  BY <3>4 DEF Entry
      <3> QED BY <1>1, <1>4, <3>1, <3>2, <3>3, <3>5 DEF DatabaseOK, Keyed
    <2>8. ASSUME NEW n \in Messages PROVE Told(n)'
      <3>1. Told(n) /\ (Steady(n)' => Steady(n))  BY <1>2 DEF Faithful, Steady, Changing
      <3>2. Newest(n)' = Newest(n)  BY <1>1, <2>4, MailNewestKept
      <3>3. Chosen(n) => (Carried(n)' => Carried(n))
        <4>1. Chosen(n) => journal'[Newest(n)].id = journal[Newest(n)].id
          BY <1>1, <2>4, MailNewestId
        <4> QED BY <1>2, <2>1, <3>2, <4>1 DEF Carried
      <3>4. CASE n # m
        <4>1. file'[n] = file[n]  BY <1>1, <1>6, <3>4
        <4>2. Chosen(n) /\ journal'[Newest(n)].status = "synchronized"
                => journal[Newest(n)].status = "synchronized"
          <5> HIDE DEF m, a
          <5> QED BY <1>1, <2>7, <3>4, MailNewest DEF Chosen
        <4> HIDE DEF m, a
        <4> QED BY <1>1, <1>2, <2>4, <3>1, <3>3, <4>1, <4>2, MailToldKept
      <3>5. CASE n = m /\ Chosen(n) /\ a # Newest(n)
        <4>1. a < Newest(n)
          <5>1. a \in Made(n)  BY <1>4, <3>5 DEF Made
          <5>2. a <= Newest(n) /\ Newest(n) \in Nat /\ a \in Nat
            <6> HIDE DEF a
            <6> QED BY <1>1, <1>4, <3>5, <5>1, MailNewest DEF Chosen
          <5> QED BY <3>5, <5>2
        <4>5. /\ ~(journal[Newest(n)].id <= journal[a].id)
              /\ journal[Newest(n)].id # journal[a].id
          <5>1. Newest(n) \in DOMAIN journal /\ ~journal[Newest(n)].reused
            <6> HIDE DEF a
            <6> QED BY <1>1, <3>5, MailNewest DEF Chosen
          <5>2. journal[Newest(n)] \in Entry /\ journal[a] \in Entry  BY <1>1, <1>4, <5>1
          <5> HIDE DEF a
          <5>3. journal[a].id < journal[Newest(n)].id  BY <1>4, <4>1, <5>1 DEF Fresh
          <5> QED BY <5>2, <5>3 DEF Entry
        <4>2. journal'[Newest(n)].status = "synchronized"
                => journal[Newest(n)].status = "synchronized"
          <5>1. ~(journal[Newest(n)].id <= journal[a].id)  BY <4>5
          <5> HIDE DEF m, a
          <5> QED BY <1>1, <2>7, <3>5, <5>1, MailNewest DEF Chosen
        <4>3. ~aligned
          <5>1. Latest(m) = Newest(m)
            <6> HIDE DEF m
            <6> QED BY <1>1, <2>3, <3>5, MailNewestLive DEF Latest
          <5> QED BY <3>5, <4>5, <5>1
        <4>4. file' = file  BY <1>6, <4>3
        <4> HIDE DEF m, a, aligned
        <4> QED BY <1>1, <1>2, <2>4, <3>1, <3>3, <4>2, <4>4, MailToldKept
      <3>6. CASE n = m /\ Chosen(n) /\ a = Newest(n)
        <4> SUFFICES ASSUME Steady(n)', Chosen(n)', remote'[n] # None
                     PROVE  /\ file'[n] = journal'[Newest(n)'].want
                            /\ remote'[n] = journal'[Newest(n)'].want
          BY DEF Told
        <4>1. Carried(n)  BY <1>2, <1>3, <3>6 DEF Carried
        <4>2. file[n] = want /\ remote[n] = want  BY <1>2, <3>1, <3>6, <4>1 DEF Told
        <4>3. file'[n] = want
          <5> HIDE DEF want, from, aligned
          <5> QED BY <1>1, <1>6, <3>6, <4>2
        <4>4. journal'[Newest(n)].want = want  BY <1>1, <2>4, <3>6, MailNewestKept
        <4> QED BY <1>2, <3>2, <4>2, <4>3, <4>4
      <3>7. CASE ~Chosen(n)  BY <1>1, <2>4, <3>7, MailNewestKept DEF Told
      <3> QED BY <3>4, <3>5, <3>6, <3>7
    <2> QED BY <2>5, <2>6, <2>8 DEF Faithful
  <1>7. \/ \E l : run' = [run EXCEPT !.item = None, !.late = l] /\ UNCHANGED <<file, rows, journal>>
        \/ /\ Latest(m) # 0 /\ rows' = newRows
           /\ file' = IF aligned /\ from # want THEN [file EXCEPT ![m] = want] ELSE file
           /\ journal' = Finish(Finish(kept, m, a, want, newRows), m, i, asked, newRows)
           /\ run' = [run EXCEPT !.item = None]
    BY <1>3, Zenon DEF Align
  <1> QED BY <1>5, <1>6, <1>7

\* Indexing gives a message a second row only when it is torn.
LEMMA MailUpsertKept == ASSUME MailTypeOK, MailTypeOK', Working, Faithful, Upsert PROVE Faithful'
  <1>1. DatabaseOK /\ Keyed(rows) /\ run \in Runs /\ journal \in Seq(Entry)
    BY MailParts DEF DatabaseOK
  <1>2. UNCHANGED <<remote, synced, file, journal, caller, meddled>>
        /\ run.pc = "scan" /\ run.item # None
    BY DEF Upsert, disk, session
  <1>3. PICK it \in Found : it = run.item  BY <1>2 DEF Working
  <1> DEFINE m == it.message
             p == it.path
  <1>4. m \in Messages /\ p \in Flags  BY DEF Found
  <1>5. \/ UNCHANGED <<rows, torn>>
        \/ /\ (torn' = torn /\ file[m] = p) \/ torn' = torn \cup {m}
           /\ \/ rows[m][p] # None /\ rows' = [rows EXCEPT ![m][p] =
                    [id |-> @.id, read |-> p, uid |-> @.uid, fresh |-> TRUE]]
              \/ \E q \in Paths(m) \ {p} : rows' = Rehomed(m, q, p,
                    [id |-> rows[m][q].id,
                     read |-> IF "seen" \in {p, rows[m][q].read} THEN "seen" ELSE "unseen",
                     uid |-> rows[m][q].uid, fresh |-> TRUE]) /\ rows[m][p] = None
              \/ /\ rows[m][p] = None /\ \A q \in Paths(m) \ {p} : file[m] = q
                 /\ \E id \in RowIds : rows' = [rows EXCEPT ![m][p] =
                       [id |-> id, read |-> p, uid |-> FALSE, fresh |-> TRUE]]
    BY <1>3, Zenon DEF Upsert, FreeIds
  <1>6. \E s : run' = [run EXCEPT !.item = None, !.seen = s]
    <2>1. ASSUME run' = [run EXCEPT !.item = None]
          PROVE  run' = [run EXCEPT !.item = None, !.seen = run.seen]
      BY <1>1, <2>1 DEF Runs
    <2>2. \/ run' = [run EXCEPT !.item = None]
          \/ \E s : run' = [run EXCEPT !.item = None, !.seen = s]
      BY Zenon DEF Upsert
    <2> QED BY <2>1, <2>2
  <1>7. /\ run'.pc = "scan" /\ run'.watermark = run.watermark /\ run'.plan = run.plan
        /\ run'.item = None
    BY <1>1, <1>2, <1>6 DEF Runs
  <1>8. torn \subseteq torn'  BY <1>5
  <1> HIDE DEF m, p
  <1>9. /\ \A n \in Messages \ torn' : \A x, y \in Flags :
               rows'[n][x] # None /\ rows'[n][y] # None => x = y
        /\ \A n \in Messages : \A x \in Flags : rows[n][x] # None =>
               \E y \in Flags : rows'[n][y] # None /\ rows'[n][y].id = rows[n][x].id
    <2>1. \A n \in Messages \ torn : \A x, y \in Flags :
               rows[n][x] # None /\ rows[n][y] # None => x = y
      BY DEF Faithful, Single, Paths
    <2>2. CASE UNCHANGED <<rows, torn>>  BY <2>1, <2>2
    <2>3. CASE /\ (torn' = torn /\ file[m] = p) \/ torn' = torn \cup {m}
               /\ rows[m][p] # None /\ rows' = [rows EXCEPT ![m][p] =
                      [id |-> @.id, read |-> p, uid |-> @.uid, fresh |-> TRUE]]
      <3>1. PICK row : row = [id |-> rows[m][p].id, read |-> p, uid |-> rows[m][p].uid,
                              fresh |-> TRUE]
        OBVIOUS
      <3>2. row \in Row /\ row # None /\ row.id = rows[m][p].id
        <4>1. rows[m][p] \in Row  BY <1>1, <1>4, <2>3 DEF Keyed
        <4>2. row \in Row  BY <1>4, <3>1, <4>1 DEF Row
        <4> QED BY <3>1, <4>2, NoneApart
      <3>3. \A n \in Messages : \A x \in Flags :
               rows'[n][x] = IF n = m /\ x = p THEN row ELSE rows[n][x]
        <4>1. rows' = [rows EXCEPT ![m][p] = row]  BY <2>3, <3>1
        <4> QED BY <1>1, <1>4, <4>1 DEF Keyed
      <3>4. rows[m][p] # None /\ torn \subseteq torn'  BY <1>8, <2>3
      <3> QED BY <1>4, <2>1, <3>2, <3>3, <3>4
    <2>4. CASE /\ (torn' = torn /\ file[m] = p) \/ torn' = torn \cup {m}
               /\ \E q \in Paths(m) \ {p} : rows' = Rehomed(m, q, p,
                    [id |-> rows[m][q].id,
                     read |-> IF "seen" \in {p, rows[m][q].read} THEN "seen" ELSE "unseen",
                     uid |-> rows[m][q].uid, fresh |-> TRUE]) /\ rows[m][p] = None
      <3>1. PICK q \in Paths(m) \ {p} : rows' = Rehomed(m, q, p,
                    [id |-> rows[m][q].id,
                     read |-> IF "seen" \in {p, rows[m][q].read} THEN "seen" ELSE "unseen",
                     uid |-> rows[m][q].uid, fresh |-> TRUE]) /\ rows[m][p] = None
        BY <2>4
      <3>2. PICK row : row = [id |-> rows[m][q].id,
                     read |-> IF "seen" \in {p, rows[m][q].read} THEN "seen" ELSE "unseen",
                     uid |-> rows[m][q].uid, fresh |-> TRUE]
        OBVIOUS
      <3>3. q \in Flags /\ rows[m][q] # None /\ q # p  BY DEF Paths
      <3>4. row # None /\ row.id = rows[m][q].id
        <4>1. rows[m][q] \in Row  BY <1>1, <1>4, <3>3 DEF Keyed
        <4>2. (IF "seen" \in {p, rows[m][q].read} THEN "seen" ELSE "unseen") \in Flags  BY DEF Flags
        <4>3. row \in Row  BY <3>2, <4>1, <4>2 DEF Row
        <4> QED BY <3>2, <4>3, NoneApart
      <3>5. \A n \in Messages : \A x \in Flags : rows'[n][x] =
               IF n = m /\ x = p THEN row ELSE IF n = m /\ x = q THEN None ELSE rows[n][x]
        <4>1. rows' = Rehomed(m, q, p, row)  BY <3>1, <3>2
        <4> QED BY <1>1, <1>4, <3>3, <4>1 DEF Keyed, Rehomed
      <3>6. ASSUME NEW n \in Messages \ torn', NEW x \in Flags, NEW y \in Flags,
                   rows'[n][x] # None, rows'[n][y] # None
            PROVE  x = y
        <4>1. n \notin torn  BY <1>8
        <4>2. CASE n = m  BY <1>4, <2>1, <3>3, <3>5, <3>6, <4>1, <4>2
        <4>3. CASE n # m  BY <2>1, <3>5, <3>6, <4>1, <4>3
        <4> QED BY <4>2, <4>3
      <3>7. ASSUME NEW n \in Messages, NEW x \in Flags, rows[n][x] # None
            PROVE  \E y \in Flags : rows'[n][y] # None /\ rows'[n][y].id = rows[n][x].id
        <4>1. rows[m][p] = None  BY <3>1
        <4>2. CASE n = m /\ x = q  BY <1>4, <3>4, <3>5, <4>2
        <4>3. CASE ~(n = m /\ x = q)
          <5>1. rows'[n][x] = rows[n][x]  BY <3>5, <3>7, <4>1, <4>3
          <5> QED BY <3>7, <5>1
        <4> QED BY <4>2, <4>3
      <3> QED BY <3>6, <3>7
    <2>5. CASE /\ (torn' = torn /\ file[m] = p) \/ torn' = torn \cup {m}
               /\ rows[m][p] = None /\ \A q \in Paths(m) \ {p} : file[m] = q
               /\ \E id \in RowIds : rows' = [rows EXCEPT ![m][p] =
                       [id |-> id, read |-> p, uid |-> FALSE, fresh |-> TRUE]]
      <3>1. PICK id \in RowIds : rows' = [rows EXCEPT ![m][p] =
                       [id |-> id, read |-> p, uid |-> FALSE, fresh |-> TRUE]]
        BY <2>5
      <3>2. PICK row : row = [id |-> id, read |-> p, uid |-> FALSE, fresh |-> TRUE]  OBVIOUS
      <3>3. \A n \in Messages : \A x \in Flags :
               rows'[n][x] = IF n = m /\ x = p THEN row ELSE rows[n][x]
        BY <1>1, <1>4, <3>1, <3>2 DEF Keyed
      <3>4. m \notin torn' => \A q \in Flags : q # p => rows[m][q] = None
        <4>1. ASSUME m \notin torn', NEW q \in Flags, q # p, rows[m][q] # None PROVE FALSE
          <5>1. q \in Paths(m) \ {p}  BY <4>1 DEF Paths
          <5> QED BY <2>5, <4>1, <5>1
        <4> QED BY <4>1
      <3> QED BY <1>4, <1>8, <2>1, <2>5, <3>3, <3>4
    <2> QED BY <1>5, <2>2, <2>3, <2>4, <2>5
  <1>10. Single'  BY <1>9 DEF Single, Paths
  <1>11. Ages(journal, journal')  BY <1>2, MailSame
  <1>12. Owned'
    <2>1. \A n \in Messages : \A id \in RowIds : PathOf(n, id) # {} => PathOf(n, id)' # {}
      BY <1>9 DEF PathOf, Paths
    <2> DEFINE gone == {}
    <2>3. \A n \in Messages : \A id \in RowIds :
             PathOf(n, id) # {} /\ id \notin gone => PathOf(n, id)' # {}
      BY <2>1
    <2>4. \A x \in DOMAIN journal : Live(journal'[x].status) => journal[x].row \notin gone
      OBVIOUS
    <2> HIDE DEF gone
    <2> QED BY <1>1, <1>11, <2>3, <2>4, MailOwnedKept DEF Faithful
  <1>13. Behind' /\ \A n \in Messages : Chosen(n) /\ Carried(n)' => Carried(n)
    BY <1>2, <1>7, <1>11, MailLean
  <1>14. ASSUME NEW n \in Messages PROVE Told(n)'
    <2>1. Steady(n)' => Steady(n)  BY <1>2, <1>8 DEF Steady, Changing
    <2> QED BY <1>1, <1>2, <1>11, <1>13, <2>1, MailToldKept DEF Faithful
  <1> QED BY <1>10, <1>12, <1>13, <1>14 DEF Faithful

\* A purge takes the choices of its rows with it.
LEMMA MailScanDoneKept == ASSUME MailTypeOK, MailTypeOK', Working, Faithful, ScanDone PROVE Faithful'
  <1>1. DatabaseOK /\ run \in Runs /\ journal \in Seq(Entry) /\ journal' \in Seq(Entry)
    BY MailParts DEF DatabaseOK, MailTypeOK
  <1>2. UNCHANGED <<remote, synced, file, caller, meddled, torn>> /\ run.pc = "scan"
    BY DEF ScanDone, disk, session
  <1>3. CASE EndScan(Stopped) /\ UNCHANGED <<rows, journal>>
    <2>1. run'.pc = "idle" /\ run'.watermark = 0  BY <1>3 DEF EndScan, Stopped
    <2>2. Ages(journal, journal')  BY <1>3, MailSame
    <2> QED BY <1>2, <1>3, <2>1, <2>2, MailLean, MailRunOnly DEF disk, database
  <1>4. CASE /\ rows' = [m \in Messages |-> [p \in Flags |->
                           IF <<m, p>> \in Unseen THEN None ELSE rows[m][p]]]
             /\ journal' = Cascade(journal, {rows[mp[1]][mp[2]].id : mp \in Unseen})
             /\ EndScan([run EXCEPT !.pc = IF run.kind = "reconciliation" THEN "pending"
                                                                         ELSE "ack"])
    <2> DEFINE r == [run EXCEPT !.pc = IF run.kind = "reconciliation" THEN "pending" ELSE "ack"]
               gone == {rows[mp[1]][mp[2]].id : mp \in Unseen}
    <2>1. r \in Runs /\ r.pc \in {"pending", "ack"} /\ r.watermark = run.watermark
          /\ r.plan = run.plan
      <3>1. CASE run.kind = "reconciliation"
        <4>1. r = [run EXCEPT !.pc = "pending"]  BY <3>1
        <4> HIDE DEF r
        <4> QED BY <1>1, <4>1 DEF Runs
      <3>2. CASE run.kind # "reconciliation"
        <4>1. r = [run EXCEPT !.pc = "ack"]  BY <3>2
        <4> HIDE DEF r
        <4> QED BY <1>1, <4>1 DEF Runs
      <3> QED BY <3>1, <3>2
    <2>2. EndScan(r)  BY <1>4
    <2> HIDE DEF r
    <2>3. /\ run'.pc \in {"pending", "ack"} /\ run'.watermark = run.watermark
          /\ run'.plan = run.plan
      BY <2>1, <2>2 DEF EndScan, Runs
    <2>4. \A m \in Messages : \A p \in Flags :
             rows'[m][p] = IF <<m, p>> \in Unseen THEN None ELSE rows[m][p]  BY <1>4
    <2>5. \A m \in Messages : \A p \in Flags : <<m, p>> \in Unseen => rows[m][p].id \in gone
      OBVIOUS
    <2>6. journal' = Cascade(journal, gone)  BY <1>4
    <2> HIDE DEF gone
    <2>7. Ages(journal, journal') /\ \A i \in DOMAIN journal :
             /\ Live(journal'[i].status) => journal[i].row \notin gone
             /\ journal'[i].status = "synchronized" => journal[i].status = "synchronized"
      BY <1>1, <2>6, MailCascadeAges
    <2>8. \A n \in Messages : \A id \in RowIds :
             PathOf(n, id) # {} /\ id \notin gone => PathOf(n, id)' # {}
      <3> SUFFICES ASSUME NEW n \in Messages, NEW id \in RowIds, NEW p \in Flags,
                          rows[n][p] # None, rows[n][p].id = id, id \notin gone
                   PROVE  rows'[n][p] # None /\ rows'[n][p].id = id
        BY DEF PathOf, Paths
      <3> QED BY <2>4, <2>5
    <2>9. Owned'  BY <1>1, <2>7, <2>8, MailOwnedKept DEF Faithful
    <2>10. Single'
      <3>1. \A n \in Messages : Paths(n)' \subseteq Paths(n)  BY <2>4 DEF Paths
      <3> QED BY <1>2, <3>1 DEF Faithful, Single
    <2>11. Len(journal') = Len(journal)  BY <1>1, <2>7, MailAged
    <2>12. Behind' /\ \A n \in Messages : Chosen(n) /\ Carried(n)' => Carried(n)
      BY <1>2, <2>3, <2>7, <2>11, MailLean
    <2>13. ASSUME NEW n \in Messages PROVE Told(n)'
      <3>1. Steady(n)' => Steady(n)  BY <1>2 DEF Steady, Changing
      <3>2. Chosen(n) /\ journal'[Newest(n)].status = "synchronized"
              => journal[Newest(n)].status = "synchronized"
        BY <1>1, <2>7, MailNewest DEF Chosen
      <3> QED BY <1>1, <1>2, <2>7, <2>12, <3>1, <3>2, MailToldKept DEF Faithful
    <2> QED BY <2>9, <2>10, <2>12, <2>13 DEF Faithful
  <1> QED BY <1>3, <1>4 DEF ScanDone

\* Identifying changes no row's id and no path.
LEMMA MailIdentifyKept ==
  ASSUME MailTypeOK, MailTypeOK', Working, Faithful, NEW it \in run.todo, Identify(it) PROVE Faithful'
  <1>1. Keyed(rows) /\ run \in Runs /\ journal \in Seq(Entry) /\ Len(journal) \in Nat
    BY DEF MailTypeOK
  <1>2. UNCHANGED <<remote, synced, file, journal, caller, meddled, torn>>
        /\ run.pc = "identities"
    BY DEF Identify, disk, session, history
  <1>3. run' = [run EXCEPT !.todo = @ \ {it}]  BY DEF Identify
  <1>4. /\ run'.pc = run.pc /\ run'.todo = run.todo \ {it} /\ run'.item = run.item
        /\ run'.watermark = run.watermark /\ run'.plan = run.plan  BY <1>1, <1>3 DEF Runs
  <1> DEFINE m == it.message
             update(row) == [row EXCEPT !.uid = TRUE, !.fresh = FALSE,
                                !.read = IF m \in run.protected THEN @ ELSE it.flag]
  <1>5. m \in Messages /\ it.flag \in Flags
    <2>1. it \in Answers /\ it.flag # None  BY <1>2 DEF Working, Identify
    <2> QED BY <2>1 DEF Answers
  <1>6. \/ rows' = [rows EXCEPT ![m] = [p \in Flags |->
                          IF @[p] = None THEN None ELSE update(@[p])]]
        \/ rows' = rows
    BY DEF Identify
  <1>7. ASSUME NEW row \in Row PROVE update(row) # None /\ update(row).id = row.id
    <2>1. update(row) \in Row /\ update(row).id = row.id  BY <1>5 DEF Row
    <2> HIDE DEF update
    <2> QED BY <2>1, NoneApart
  <1> HIDE DEF m, update
  <1>8. \A n \in Messages : \A p \in Flags :
            /\ rows'[n][p] # None <=> rows[n][p] # None
            /\ rows[n][p] # None => rows'[n][p].id = rows[n][p].id
    <2>1. CASE rows' = [rows EXCEPT ![m] = [p \in Flags |->
                          IF @[p] = None THEN None ELSE update(@[p])]]
      <3>1. \A p \in Flags : rows'[m][p] = IF rows[m][p] = None THEN None ELSE update(rows[m][p])
        BY <1>1, <1>5, <2>1 DEF Keyed
      <3>2. \A n \in Messages \ {m} : rows'[n] = rows[n]  BY <1>1, <1>5, <2>1 DEF Keyed
      <3>3. \A p \in Flags : rows[m][p] \in Row \cup {None}  BY <1>1, <1>5 DEF Keyed
      <3> QED BY <1>7, <3>1, <3>2, <3>3
    <2>2. CASE rows' = rows  BY <2>2
    <2> QED BY <1>6, <2>1, <2>2
  <1>9. Single'  BY <1>2, <1>8 DEF Faithful, Single, Paths
  <1>10. Ages(journal, journal')  BY <1>2, MailSame
  <1>11. Owned'
    <2> DEFINE gone == {}
    <2>1. \A n \in Messages : \A id \in RowIds :
             PathOf(n, id) # {} /\ id \notin gone => PathOf(n, id)' # {}
      BY <1>8 DEF PathOf, Paths
    <2>2. \A x \in DOMAIN journal : Live(journal'[x].status) => journal[x].row \notin gone
      OBVIOUS
    <2> HIDE DEF gone
    <2> QED BY <1>1, <1>10, <2>1, <2>2, MailOwnedKept DEF Faithful
  <1>12. Behind'  BY <1>1, <1>2, <1>4, <1>10, MailBehindKept DEF Faithful
  <1>13. ASSUME NEW n \in Messages PROVE Told(n)'
    <2>1. Steady(n)' => Steady(n)  BY <1>2 DEF Steady, Changing
    <2>2. Newest(n)' = Newest(n)  BY <1>2 DEF Newest, Made
    <2>3. Carried(n)' => Carried(n)  BY <1>2, <1>4, <2>2 DEF Carried
    <2> QED BY <1>1, <1>2, <1>10, <2>1, <2>3, MailToldKept DEF Faithful
  <1> QED BY <1>9, <1>11, <1>12, <1>13 DEF Faithful

\* Nor does giving the rows their UIDs.
LEMMA MailHydrateKept == ASSUME MailTypeOK, MailTypeOK', Working, Faithful, Hydrate PROVE Faithful'
  <1>1. Keyed(rows) /\ run \in Runs /\ journal \in Seq(Entry)  BY DEF MailTypeOK
  <1>2. UNCHANGED <<remote, synced, file, journal, caller, meddled, torn>>
        /\ run.pc = "identities"
    BY DEF Hydrate, disk, session, history
  <1>3. run' = [run EXCEPT !.pc = "stale"]  BY DEF Hydrate
  <1>4. /\ run'.pc = "stale" /\ run'.todo = run.todo
        /\ run'.watermark = run.watermark /\ run'.plan = run.plan  BY <1>1, <1>3 DEF Runs
  <1>5. \A n \in Messages : \A p \in Flags : rows'[n][p] =
            IF synced[n] # None THEN Hydrated(rows[n][p]) ELSE rows[n][p]
    BY DEF Hydrate
  <1>6. ASSUME NEW row \in Row PROVE Hydrated(row) # None /\ Hydrated(row).id = row.id
    <2>1. row # None  BY NoneApart
    <2>2. Hydrated(row) = [row EXCEPT !.uid = TRUE, !.fresh = FALSE]  BY <2>1 DEF Hydrated
    <2>3. Hydrated(row) \in Row /\ Hydrated(row).id = row.id  BY <2>2 DEF Row
    <2> QED BY <2>3, NoneApart
  <1>7. \A n \in Messages : \A p \in Flags :
            /\ rows'[n][p] # None <=> rows[n][p] # None
            /\ rows[n][p] # None => rows'[n][p].id = rows[n][p].id
    <2>1. \A n \in Messages : \A p \in Flags : rows[n][p] \in Row \cup {None}  BY <1>1 DEF Keyed
    <2>2. Hydrated(None) = None  BY DEF Hydrated
    <2> QED BY <1>5, <1>6, <2>1, <2>2
  <1>8. Single'  BY <1>2, <1>7 DEF Faithful, Single, Paths
  <1>9. Ages(journal, journal')  BY <1>2, MailSame
  <1>10. Owned'
    <2> DEFINE gone == {}
    <2>1. \A n \in Messages : \A id \in RowIds :
             PathOf(n, id) # {} /\ id \notin gone => PathOf(n, id)' # {}
      BY <1>7 DEF PathOf, Paths
    <2>2. \A x \in DOMAIN journal : Live(journal'[x].status) => journal[x].row \notin gone
      OBVIOUS
    <2> HIDE DEF gone
    <2> QED BY <1>1, <1>9, <2>1, <2>2, MailOwnedKept DEF Faithful
  <1>11. Behind'
    <2>1. Listed /\ Ordered  BY DEF Faithful, Behind
    <2>5. \A it \in run.todo : it.flag = None  BY DEF Hydrate
    <2>2. Listed'  BY <1>2, <1>4, <2>1, <2>5 DEF Listed
    <2>3. Marked'  BY <1>4 DEF Marked
    <2>4. Ordered'  BY <1>9, <2>1, MailOrderedKept
    <2> QED BY <2>2, <2>3, <2>4 DEF Behind
  <1>12. ASSUME NEW n \in Messages PROVE Told(n)'
    <2>1. Steady(n)' => Steady(n)  BY <1>2 DEF Steady, Changing
    <2>2. Newest(n)' = Newest(n)  BY <1>2 DEF Newest, Made
    <2>3. Carried(n)' => Carried(n)  BY <1>2, <1>4, <2>2 DEF Carried
    <2> QED BY <1>1, <1>2, <1>9, <2>1, <2>3, MailToldKept DEF Faithful
  <1> QED BY <1>8, <1>10, <1>11, <1>12 DEF Faithful

\* What the provider no longer has takes its rows and choices with it.
LEMMA MailExpungeKept ==
  ASSUME MailTypeOK, MailTypeOK', Working, Faithful, NEW it \in run.todo, Expunge(it) PROVE Faithful'
  <1>1. /\ Keyed(rows) /\ run \in Runs /\ journal \in Seq(Entry) /\ journal' \in Seq(Entry)
        /\ file \in [Messages -> Flags \cup {None}]
    BY DEF MailTypeOK
  <1>2. UNCHANGED <<remote, synced, caller, meddled, torn>> /\ run.pc = "stale"
    BY DEF Expunge, session, history
  <1>3. run' = [run EXCEPT !.todo = @ \ {it}]  BY DEF Expunge
  <1>4. /\ run'.pc = run.pc /\ run'.todo = run.todo \ {it} /\ run'.item = run.item
        /\ run'.watermark = run.watermark /\ run'.plan = run.plan  BY <1>1, <1>3 DEF Runs
  <1> DEFINE m == it.message
             gone == {rows[m][p].id : p \in Paths(m)}
  <1>5. m \in Messages /\ remote[m] = None
    <2>1. it \in Answers  BY <1>2 DEF Working
    <2>2. it.flag = None  BY <1>2 DEF Faithful, Behind, Listed
    <2> QED BY <1>2, <2>1, <2>2 DEF Answers, Faithful, Behind, Listed
  <1>6. /\ rows' = [rows EXCEPT ![m] = [p \in Flags |-> None]]
        /\ journal' = Cascade(journal, gone)
        /\ file' = IF file[m] \in Paths(m) THEN [file EXCEPT ![m] = None] ELSE file
    BY DEF Expunge
  <1>7. \A p \in Flags : rows[m][p] # None => rows[m][p].id \in gone  BY DEF Paths
  <1> HIDE DEF m, gone
  <1>8. /\ \A p \in Flags : rows'[m][p] = None
        /\ \A n \in Messages \ {m} : rows'[n] = rows[n] /\ file'[n] = file[n]
    BY <1>1, <1>5, <1>6 DEF Keyed
  <1>9. Ages(journal, journal') /\ \A i \in DOMAIN journal :
           /\ Live(journal'[i].status) => journal[i].row \notin gone
           /\ journal'[i].status = "synchronized" => journal[i].status = "synchronized"
    BY <1>1, <1>6, MailCascadeAges
  <1>10. Owned'
    <2>1. \A n \in Messages : \A id \in RowIds :
             PathOf(n, id) # {} /\ id \notin gone => PathOf(n, id)' # {}
      <3> SUFFICES ASSUME NEW n \in Messages, NEW id \in RowIds, NEW p \in Flags,
                          rows[n][p] # None, rows[n][p].id = id, id \notin gone
                   PROVE  rows'[n][p] # None /\ rows'[n][p].id = id
        BY DEF PathOf, Paths
      <3> QED BY <1>7, <1>8
    <2> QED BY <1>1, <1>9, <2>1, MailOwnedKept DEF Faithful
  <1>11. Single'
    <2>1. \A n \in Messages : Paths(n)' \subseteq Paths(n)  BY <1>8 DEF Paths
    <2> QED BY <1>2, <2>1 DEF Faithful, Single
  <1>12. Behind'  BY <1>1, <1>2, <1>4, <1>9, MailAged, MailBehindKept DEF Faithful
  <1>13. ASSUME NEW n \in Messages PROVE Told(n)'
    <2>1. Steady(n)' => Steady(n)  BY <1>2 DEF Steady, Changing
    <2>2. Newest(n)' = Newest(n)  BY <1>1, <1>9, MailNewestKept
    <2>3. Chosen(n) => (Carried(n)' => Carried(n))
      <3>1. Chosen(n) => journal'[Newest(n)].id = journal[Newest(n)].id
        BY <1>1, <1>9, MailNewestId
      <3> QED BY <1>2, <1>4, <2>2, <3>1 DEF Carried
    <2>4. Chosen(n) /\ journal'[Newest(n)].status = "synchronized"
            => journal[Newest(n)].status = "synchronized"
      BY <1>1, <1>9, MailNewest DEF Chosen
    <2>5. remote'[n] # None => file'[n] = file[n]  BY <1>2, <1>5, <1>8
    <2> QED BY <1>1, <1>2, <1>9, <2>1, <2>3, <2>4, <2>5, MailToldKept DEF Faithful
  <1> QED BY <1>10, <1>11, <1>12, <1>13 DEF Faithful

\* Acknowledging ends the run; what it settles the run had carried out.
LEMMA MailAckKept == ASSUME MailTypeOK, MailTypeOK', Working, Faithful, Ack PROVE Faithful'
  <1>1. run \in Runs /\ journal \in Seq(Entry) /\ journal' \in Seq(Entry)  BY DEF MailTypeOK
  <1>2. UNCHANGED <<remote, synced, file, rows, caller, meddled, torn>> /\ run.pc = "ack"
    BY DEF Ack, disk, session
  <1>3. journal' = [i \in DOMAIN journal |-> IF i \in Acknowledged
                       THEN [journal[i] EXCEPT !.status = "synchronized"] ELSE journal[i]]
    BY DEF Ack
  <1>4. ASSUME NEW i \in DOMAIN journal, i \in Acknowledged
        PROVE  /\ journal[i].id <= run.watermark /\ journal[i].status = "queued"
               /\ journal[i].message \in run.plan
    BY <1>4 DEF Acknowledged
  <1>5. ASSUME NEW i \in DOMAIN journal
        PROVE  /\ journal'[i].message = journal[i].message /\ journal'[i].row = journal[i].row
               /\ journal'[i].want = journal[i].want /\ journal'[i].id = journal[i].id
               /\ journal'[i].reused = journal[i].reused
               /\ Live(journal'[i].status) => Live(journal[i].status)
               /\ journal'[i].status = "synchronized" =>
                    journal[i].status = "synchronized" \/ i \in Acknowledged
    <2>1. journal[i] \in Entry  BY <1>1
    <2>2. CASE i \in Acknowledged
      <3>1. journal'[i] = [journal[i] EXCEPT !.status = "synchronized"]  BY <1>3, <2>2
      <3>2. Live(journal[i].status)  BY <1>4, <2>2 DEF Live
      <3> QED BY <2>1, <2>2, <3>1, <3>2 DEF Entry
    <2>3. CASE i \notin Acknowledged
      <3>1. journal'[i] = journal[i]  BY <1>3, <2>3
      <3> QED BY <3>1
    <2> QED BY <2>2, <2>3
  <1>6. Ages(journal, journal')  BY <1>3, <1>5 DEF Ages
  <1>7. run'.pc \in {"scan", "idle"} /\ run'.watermark = 0
    <2>1. BeginScan(Rescue) \/ run' = Stopped  BY DEF Ack
    <2>2. CASE run' = Stopped  BY <2>2 DEF Stopped
    <2> QED BY <2>1, <2>2, MailBeginRun, MailRescueRun
  <1>8. Len(journal') = Len(journal)  BY <1>1, <1>6, MailAged
  <1>9. Behind' /\ \A n \in Messages : Chosen(n) /\ Carried(n)' => Carried(n)
    BY <1>6, <1>7, <1>8, MailLean
  <1>10. Owned'
    <2> DEFINE gone == {}
    <2>1. \A n \in Messages : \A id \in RowIds :
             PathOf(n, id) # {} /\ id \notin gone => PathOf(n, id)' # {}
      BY <1>2 DEF PathOf, Paths
    <2>2. \A x \in DOMAIN journal : Live(journal'[x].status) => journal[x].row \notin gone
      OBVIOUS
    <2> HIDE DEF gone
    <2> QED BY <1>1, <1>6, <2>1, <2>2, MailOwnedKept DEF Faithful
  <1>11. Single'  BY <1>2 DEF Faithful, Single, Paths
  <1>12. ASSUME NEW n \in Messages PROVE Told(n)'
    <2>1. Steady(n)' => Steady(n)  BY <1>2 DEF Steady, Changing
    <2>2. ASSUME Chosen(n), journal'[Newest(n)].status = "synchronized"
          PROVE  Carried(n) \/ journal[Newest(n)].status = "synchronized"
      <3>1. Newest(n) \in DOMAIN journal /\ journal[Newest(n)].message = n
        BY <1>1, <2>2, MailNewest DEF Chosen
      <3>2. CASE Newest(n) \in Acknowledged
        <4>1. journal[Newest(n)].id <= run.watermark /\ n \in run.plan  BY <1>4, <3>1, <3>2
        <4> QED BY <1>2, <4>1 DEF Carried
      <3>3. CASE Newest(n) \notin Acknowledged  BY <1>5, <2>2, <3>1, <3>3
      <3> QED BY <3>2, <3>3
    <2> QED BY <1>1, <1>2, <1>6, <1>9, <2>1, <2>2, MailToldKept DEF Faithful
  <1> QED BY <1>9, <1>10, <1>11, <1>12 DEF Faithful

-----------------------------------------------------------------------------
(* Around them. *)

\* The other client's message is no longer steady.
LEMMA MailElsewhereKept ==
  ASSUME MailTypeOK, Working, Faithful, NEW m \in Messages, Elsewhere(m) PROVE Faithful'
  <1>1. /\ run \in Runs /\ journal \in Seq(Entry) /\ Len(journal) \in Nat
        /\ remote \in [Messages -> Flags \cup {None}] /\ meddled \in [Messages -> BOOLEAN]
    BY DEF MailTypeOK
  <1>2. UNCHANGED <<synced, file, rows, journal, caller, run, torn>>
    BY DEF Elsewhere, database, session
  <1>3. remote[m] # None /\ meddled' = [meddled EXCEPT ![m] = TRUE]  BY DEF Elsewhere
  <1>4. PICK f : remote' = [remote EXCEPT ![m] = f]  BY DEF Elsewhere
  <1>5. meddled'[m] = TRUE /\ \A n \in Messages \ {m} :
            remote'[n] = remote[n] /\ meddled'[n] = meddled[n]
    BY <1>1, <1>3, <1>4
  <1>6. Owned' /\ Single'  BY <1>2 DEF Faithful, Owned, Single, PathOf, Paths
  <1>7. Behind'
    <2>1. \A n \in Messages : remote[n] = None => remote'[n] = None  BY <1>3, <1>5
    <2>2. \A n \in Messages : HasUID(n) => HasUID(n)'  BY <1>2 DEF HasUID, Paths
    <2>3. Ages(journal, journal')  BY <1>2, MailSame
    <2> QED BY <1>1, <1>2, <2>1, <2>2, <2>3, MailBehindKept DEF Faithful
  <1>8. ASSUME NEW n \in Messages PROVE Told(n)'
    <2>1. CASE n = m
      <3>1. ~Steady(n)'  BY <1>5, <2>1 DEF Steady
      <3> QED BY <3>1 DEF Told
    <2>2. CASE n # m
      <3>1. Steady(n)' => Steady(n)  BY <1>2, <1>5, <2>2 DEF Steady, Changing
      <3>2. Ages(journal, journal')  BY <1>2, MailSame
      <3>3. Chosen(n) => (Carried(n)' => Carried(n))  BY <1>1, <1>2, <3>2, MailCarriedSame
      <3> QED BY <1>1, <1>2, <1>5, <2>2, <3>1, <3>2, <3>3, MailToldKept DEF Faithful
    <2> QED BY <2>1, <2>2
  <1> QED BY <1>6, <1>7, <1>8 DEF Faithful

\* A crash ends the run; a change cut short leaves its message meddled with.
LEMMA MailCrashKept == ASSUME MailTypeOK, Working, Faithful, Crash PROVE Faithful'
  <1>1. journal \in Seq(Entry) /\ meddled \in [Messages -> BOOLEAN]  BY DEF MailTypeOK
  <1>2. UNCHANGED <<remote, synced, file, rows, journal, torn>>
    BY DEF Crash, disk, database
  <1>3. run'.pc = "restart" /\ run'.watermark = 0  BY DEF Crash, Stopped
  <1>4. \A n \in Messages : meddled'[n] = (meddled[n] \/ Changing(n))  BY DEF Crash
  <1>5. Ages(journal, journal')  BY <1>2, MailSame
  <1>6. Behind' /\ \A n \in Messages : Chosen(n) /\ Carried(n)' => Carried(n)
    BY <1>2, <1>3, <1>5, MailLean
  <1>7. Owned' /\ Single'  BY <1>2 DEF Faithful, Owned, Single, PathOf, Paths
  <1>8. ASSUME NEW n \in Messages PROVE Told(n)'
    <2>1. Steady(n)' => Steady(n)  BY <1>2, <1>4 DEF Steady
    <2> QED BY <1>1, <1>2, <1>5, <1>6, <2>1, MailToldKept DEF Faithful
  <1> QED BY <1>6, <1>7, <1>8 DEF Faithful

\* Listing messages and mapping folders change nothing of it.
LEMMA MailStillKept ==
  ASSUME Faithful, (\E m \in Messages : List(m)) \/ Replan \/ UNCHANGED mailVars PROVE Faithful'
  <1>1. ASSUME NEW m \in Messages, List(m) PROVE Faithful'
    BY <1>1, MailStill DEF List, disk, database, history
  <1>2. CASE Replan
    BY <1>2, MailStill DEF Replan, disk, database, session, history
  <1>3. CASE UNCHANGED mailVars
    BY <1>3, MailStill DEF mailVars, disk, database, session, history
  <1> QED BY <1>1, <1>2, <1>3

\* At first nothing has been chosen.
LEMMA MailKeptInit == ASSUME MailInit PROVE Faithful
  <1>1. journal = <<>> /\ run = Stopped /\ rows = [m \in Messages |-> [p \in Flags |-> None]]
    BY DEF MailInit
  <1>2. DOMAIN journal = {} /\ Len(journal) = 0  BY <1>1
  <1>3. Owned  BY <1>2 DEF Owned
  <1>4. \A m \in Messages : Paths(m) = {}  BY <1>1 DEF Paths
  <1>5. Single  BY <1>4 DEF Single
  <1>6. run.watermark = 0 /\ run.pc = "idle"  BY <1>1 DEF Stopped
  <1>7. Behind  BY <1>2, <1>6 DEF Behind, Listed, Ordered, Marked
  <1>8. \A m \in Messages : Made(m) = {}  BY <1>2 DEF Made
  <1>9. \A m \in Messages : Told(m)  BY <1>8 DEF Told, Chosen
  <1> QED BY <1>3, <1>5, <1>7, <1>9 DEF Faithful

\* Every step keeps it.
LEMMA MailKeptStep == ASSUME AckInv, [MailNext]_mailVars PROVE Faithful'
  <1>1. MailTypeOK /\ Working /\ Faithful  BY DEF AckInv, MailInv
  <1>2. MailTypeOK'  BY <1>1, MailSafe
  <1>3. CASE (\E m \in Messages : List(m)) \/ Replan \/ UNCHANGED mailVars
    BY <1>1, <1>3, MailStillKept
  <1>4. ASSUME NEW m \in Messages, Rename(m) \/ Elsewhere(m) \/ Mbsync(m) PROVE Faithful'
    BY <1>1, <1>4, MailRenameKept, MailElsewhereKept, MailMbsyncKept
  <1>5. CASE Caller  BY <1>1, <1>2, <1>5, MailMarkKept, MailRecordKept DEF Caller
  <1>6. ASSUME NEW kind, Start(kind) PROVE Faithful'  BY <1>1, <1>6, MailLeanKept
  <1>7. ASSUME NEW m, Visit(m) PROVE Faithful'  BY <1>1, <1>7, MailLeanKept
  <1>8. CASE ScanAborts \/ ToAck  BY <1>1, <1>8, MailLeanKept
  <1>9. ASSUME NEW it \in run.todo, Retry(it) \/ Identify(it) \/ Expunge(it) PROVE Faithful'
    BY <1>1, <1>2, <1>9, MailRetryKept, MailIdentifyKept, MailExpungeKept
  <1>10. CASE Watermark \/ MbsyncDone \/ Pending \/ ToScan \/ Restart \/ RunFails
    BY <1>1, <1>10, MailWatermarkKept, MailMbsyncDoneKept, MailPendingKept, MailBeginKept
  <1>11. CASE Align \/ Upsert \/ ScanDone \/ Hydrate \/ Ack
    BY <1>1, <1>2, <1>11, MailAlignKept, MailUpsertKept, MailScanDoneKept, MailHydrateKept,
       MailAckKept
  <1>12. CASE Crash  BY <1>1, <1>12, MailCrashKept
  <1> QED BY <1>3, <1>4, <1>5, <1>6, <1>7, <1>8, <1>9, <1>10, <1>11, <1>12 DEF MailNext, Run

\* The invariant holds at all times.
LEMMA MailAckInvariant == MailSpec => []AckInv
  <1>1. MailInit => Faithful  BY MailKeptInit
  <1>2. MailInv /\ Faithful /\ [MailNext]_mailVars => Faithful'
    <2>1. MailInv /\ Faithful => AckInv  BY DEF AckInv
    <2> QED BY <2>1, MailKeptStep
  <1>3. AckInv <=> MailInv /\ Faithful  BY DEF AckInv
  <1> QED BY <1>1, <1>2, <1>3, MailInvariant, PTL DEF MailSpec

\* A steady message whose newest choice is settled has been told.
LEMMA MailApplied == ASSUME AckInv PROVE AcknowledgedIsApplied
  <1>1. MailTypeOK /\ Faithful  BY DEF AckInv, MailInv
  <1> SUFFICES ASSUME NEW m \in Messages, Made(m) # {}, journal[Newest(m)].status = "synchronized",
                      ~Changing(m), ~meddled[m], m \notin torn, ~journal[Newest(m)].reused,
                      remote[m] # None
               PROVE  remote[m] = journal[Newest(m)].want
    BY DEF AcknowledgedIsApplied, Made, Newest
  <1>2. Steady(m)  BY DEF Steady
  <1>3. Chosen(m)  BY DEF Chosen, Live
  <1> QED BY <1>1, <1>2, <1>3 DEF Faithful, Told

\* A run or a retry acknowledges the newest choice for a message only when the
\* provider has it (MarkQueuedMutationsSynchronized, FinishQueuedRead), unless the
\* choice was recorded under an id the run of that time counts as its own.
THEOREM MailAcknowledgedCorrect == MailSpec => []AcknowledgedIsApplied
  <1>1. AckInv => AcknowledgedIsApplied  BY MailApplied
  <1> QED BY <1>1, MailAckInvariant, PTL
=============================================================================
