-------------------------- MODULE ConsoleProofs --------------------------
(***************************************************************************)
(* Proofs about how a person gets into the web console: the session table, *)
(* the sign-in guard, two-step codes and recovery codes, for any number of *)
(* users, requests, codes and limits.                                      *)
(***************************************************************************)
EXTENDS ConsoleAccess, FiniteSetTheorems, WellFoundedInduction, TLAPS

-----------------------------------------------------------------------------
(* What the proof knows of the state. *)

Ops    == {"free", "login", "change", "ask", "confirm"}
Stages == {"free", "password", "reserve", "code", "backup", "commit", "replace",
           "hash", "send", "take", "room", "redeem", "revoke"}

WorkType == [op : Ops, at : Stages, user : Users \cup {"none"}, token : Nat,
             secret : Nat, code : BackupCodes \cup Nat, tried : SUBSET Nat,
             purpose : Purposes \cup {"none"}]
SessionType == [token : Nat, user : Users]
GrantType   == [token : Nat, user : Users, now : Int, era : Int]
TokenType   == [user : Users, purpose : Purposes, hashed : BOOLEAN, used : BOOLEAN,
                attempts : Nat, mail : {"none", "sent", "kept"}]

SessionTypes ==
    /\ table \subseteq SessionType /\ IsFiniteSet(table)
    /\ others \in Nat
    /\ byUser \in [Users -> Int]
    /\ answered \subseteq GrantType
    /\ era \in [Users -> Nat]
WorkTypes ==
    /\ work \in [Slots -> WorkType]
    /\ requests \in Nat
CodeTypes ==
    /\ secret \in [Users -> Nat] /\ secrets \in Nat
    /\ last \in [Users -> Nat]
    /\ backups \in [Users -> SUBSET BackupCodes]
TokenTypes == tokens \in Seq(TokenType)

\* The request of a slot has its place in the session table; it has used up the
\* code it was given.
Held(w) ==
    \/ w.op = "login" /\ w.at \in {"code", "backup", "commit"}
    \/ w.op = "change" /\ w.at = "commit"
    \/ w.op = "confirm" /\ (w.at = "commit" \/ (w.at = "redeem" /\ w.purpose = "bypass"))
Settled(w) ==
    \/ w.op = "login" /\ w.at = "commit"
    \/ w.op = "confirm" /\ w.at \in {"commit", "revoke"}

\* What is known of the request of a slot when n requests, k recovery codes and m
\* authenticators have been made.
Fits(w, n, k, m) ==
    /\ w.op = "free" <=> w = Free
    /\ w.op # "free" => w.user \in Users
    /\ w.op \in {"login", "change", "confirm"} => w.token \in 1..n
    /\ w.op \in {"free", "ask"} => w.token = 0
    /\ w.op \in {"ask", "confirm"} => w.code \in 1..k
    /\ w.op = "login" /\ w.at \in {"code", "backup"} => w.secret # 0
    /\ w.op = "confirm" /\ w.at = "room" => w.purpose = "bypass"
    /\ w.secret <= m
Shaped(w) == Fits(w, requests, Len(tokens), secrets)
Shapes == \A r \in Slots : Shaped(work[r])

-----------------------------------------------------------------------------
(* The invariants. *)

\* Every request that may open a session has a number of its own.
Apart ==
    \A r, o \in Slots : work[r].token = work[o].token /\ work[r].token # 0 => r = o

\* A session belongs to one request, which is over or holds it.
Placed ==
    /\ \A s \in table : s.token \in 1..requests
    /\ \A s, t \in table : s.token = t.token => s = t
    /\ \A s \in table, r \in Slots :
          work[r].token = s.token => Held(work[r]) /\ work[r].user = s.user

\* A session is disclosed by the last step of its request.
Closed ==
    \A a \in answered : /\ a.token \in 1..requests
                        /\ \A r \in Slots : work[r].token # a.token

\* The two views of the table agree, within the limits.
Counted ==
    /\ \A u \in Users : byUser[u] = Cardinality(Of(u)) /\ byUser[u] <= PerUser
    /\ Size <= Total

Owned == \A s \in table : Serving(s.token) \/ Disclosed(s.token)

\* A request that used up a code has its place, or lost it to a revocation; one
\* that was refused is over, and left nothing behind.
Written(x) == x = [code |-> x.code, user |-> x.user, token |-> x.token, era |-> x.era,
                   refused |-> x.refused]
Kept(x) ==
    \A r \in Slots : work[r].token = x.token =>
        /\ ~x.refused
        /\ work[r].op = "confirm" => x.code[1] = "recovery"
        /\ Settled(work[r]) /\ work[r].user = x.user
        /\ work[r].at = "revoke" \/ Present(x.token) \/ era[x.user] > x.era
Turned(x) == x.refused => x.code[1] = "recovery" /\ ~Present(x.token) /\ ~Disclosed(x.token)
Repaid(x) == x.refused \/ Serving(x.token) \/ Disclosed(x.token) \/ era[x.user] > x.era
Spendings ==
    \A x \in spent :
        /\ x.token \in 1..requests /\ x.user \in Users
        /\ x.era \in Int /\ x.era <= era[x.user]
        /\ Written(x) /\ Kept(x) /\ Turned(x) /\ Repaid(x)

Sessions ==
    SessionTypes /\ Apart /\ Placed /\ Closed /\ Counted /\ Owned /\ Spendings /\ RevokedStaysOut

-----------------------------------------------------------------------------
(* The sign-in guard and the codes. *)

GuardTypes ==
    /\ fails \in [Keys -> Nat] /\ pending \in [Keys -> Int]
    /\ cooling \in [Keys -> BOOLEAN]
    /\ active \in Int /\ accounts \in [Users -> Int]
GuardLimits ==
    /\ IsFiniteSet(LoginsOf(Source))
    /\ active <= HashLimit
    /\ \A u \in Users : accounts[u] <= AccountLimit
Guard == GuardTypes /\ GuardBalanced /\ GuardLimits

\* Authenticators are numbered in the order they are set up.
Numbered ==
    /\ secrets <= MaxSecrets
    /\ \A u \in Users : secret[u] <= secrets /\ (secret[u] = 0 => backups[u] = {})

\* A code that opened a session cannot open another: its authenticator is gone, or
\* its step is not new, its backup code not unused, its recovery code not unused.
Dead(c) ==
    /\ c[2] \in Users
    /\ \/ /\ c[1] = "totp" /\ c[3] \in 1..secrets /\ c[4] \in Nat
          /\ c[3] = secret[c[2]] => c[4] <= last[c[2]]
       \/ /\ c[1] = "backup" /\ c[3] \in 1..secrets
          /\ c[3] = secret[c[2]] => c[4] \notin backups[c[2]]
       \/ /\ c[1] = "recovery" /\ c[4] \in 1..Len(tokens)
          /\ tokens[c[4]].used
SpentOnce ==
    /\ \A x \in spent : Dead(x.code)
    /\ \A x, y \in spent : x.code = y.code => x.token = y.token

Attempted == \A n \in 1..Len(tokens) : tokens[n].attempts <= TokenAttempts

Codes == CodeTypes /\ TokenTypes /\ Numbered /\ SpentOnce /\ NewestCodeOnly /\ Attempted

Core == WorkTypes /\ Shapes /\ requests <= MaxRequests

CInv == Core /\ Sessions /\ Guard /\ Codes

-----------------------------------------------------------------------------
(* What a step does to the slots. *)

Slotwise(r) ==
    /\ work' \in [Slots -> WorkType]
    /\ \A o \in Slots : o # r => work'[o] = work[o]
Begins(r) ==
    /\ Slotwise(r) /\ requests' = requests + 1
    /\ work[r] = Free /\ work'[r].op # "free"
    /\ work'[r].token \in {0, requests + 1}
    /\ ~Held(work'[r]) /\ ~Settled(work'[r])
Goes(r) ==
    /\ Slotwise(r) /\ requests' = requests
    /\ work'[r].op = work[r].op /\ work'[r].user = work[r].user
    /\ work'[r].token = work[r].token
Ends(r) == Slotwise(r) /\ requests' = requests /\ work'[r] = Free

\* A free slot is of its type, and holds no place.
LEMMA FreeType == Free \in WorkType /\ Free.op = "free" /\ Free.token = 0
BY DEF Free, WorkType, Ops, Stages

LEMMA FreeHolds == ~Held(Free) /\ ~Settled(Free)
BY FreeType DEF Held, Settled

\* A request comes to a free slot.
LEMMA SlotBegins ==
    ASSUME WorkTypes, NEW r \in Slots, NEW w \in WorkType, Begin(r, w),
           w.op # "free", w.token \in {0, requests + 1}, ~Held(w), ~Settled(w)
    PROVE  Begins(r) /\ work'[r] = w
BY DEF WorkTypes, Begin, Begins, Slotwise

\* A request is over.
LEMMA SlotEnds ==
    ASSUME WorkTypes, NEW r \in Slots, Done(r), UNCHANGED requests
    PROVE  Ends(r)
BY FreeType DEF WorkTypes, Done, Ends, Slotwise

\* A request goes on to another stage.
LEMMA SlotGoes ==
    ASSUME WorkTypes, NEW r \in Slots, NEW stage \in Stages, Goto(r, stage),
           UNCHANGED requests
    PROVE  /\ Goes(r)
           /\ work'[r].at = stage
           /\ work'[r].secret = work[r].secret /\ work'[r].code = work[r].code
           /\ work'[r].purpose = work[r].purpose
<1>1. work[r] \in WorkType /\ work'[r] = [work[r] EXCEPT !.at = stage]
  BY DEF WorkTypes, Goto
<1>2. work'[r] \in WorkType
  BY <1>1 DEF WorkType
<1>3. Slotwise(r)
  BY <1>2 DEF WorkTypes, Goto, Slotwise
<1> QED BY <1>1, <1>3 DEF Goes, WorkType

-----------------------------------------------------------------------------
(* The session table. *)

\* The numbers that have been given out.
LEMMA Numbers ==
    ASSUME WorkTypes, Shapes, NEW o \in Slots
    PROVE  /\ work[o] \in WorkType /\ work[o].token \in 0..requests
           /\ work[o].op = "free" => work[o].token = 0
           /\ Held(work[o]) \/ Settled(work[o]) => work[o].op # "free" /\ work[o].token # 0
<1>1. work[o] \in WorkType /\ Shaped(work[o])
  BY DEF WorkTypes, Shapes
<1>2. work[o].token \in Nat /\ work[o].op \in Ops /\ requests \in Nat
  BY <1>1 DEF WorkType, WorkTypes
<1>3. Held(work[o]) \/ Settled(work[o]) => work[o].op \in {"login", "change", "confirm"}
  BY DEF Held, Settled
<1> QED BY <1>1, <1>2, <1>3 DEF Shaped, Fits, Ops

\* What the sessions of a set leave behind when they go.
LEMMA WithoutCounts ==
    ASSUME SessionTypes, Counted, NEW gone, gone \subseteq table, Without(gone),
           UNCHANGED others
    PROVE  /\ table' \subseteq SessionType /\ IsFiniteSet(table')
           /\ byUser' \in [Users -> Int]
           /\ Counted'
<1>1. table' = table \ gone /\ IsFiniteSet(table) /\ table \subseteq SessionType
  BY DEF Without, SessionTypes
<1>2. IsFiniteSet(table') /\ IsFiniteSet(gone)
  BY <1>1, FS_Difference, FS_Subset
<1>3. Cardinality(table') <= Cardinality(table)
  BY <1>1, FS_Subset
<1>4. Cardinality(table') \in Nat /\ Cardinality(table) \in Nat
  BY <1>1, <1>2, FS_CardinalityType
<1>5. Size' <= Total
  <2>1. others \in Nat /\ Cardinality(table) + others <= Total /\ Total \in Nat
    BY LimitsAssumption DEF SessionTypes, Counted, Size
  <2> QED BY <1>3, <1>4, <2>1 DEF Size
<1>6. ASSUME NEW u \in Users
      PROVE  /\ byUser'[u] = Cardinality(Of(u)') /\ byUser'[u] <= PerUser /\ byUser'[u] \in Int
  <2> DEFINE G == {s \in gone : s.user = u}
  <2>1. byUser'[u] = byUser[u] - Cardinality(G)
    BY DEF Without
  <2>2. Of(u)' = Of(u) \ G
    BY <1>1 DEF Of
  <2>3. IsFiniteSet(Of(u)) /\ IsFiniteSet(G) /\ Of(u) \cap G = G
    BY <1>1, <1>2, FS_Subset DEF Of
  <2> HIDE DEF G
  <2>4. Cardinality(Of(u)') = Cardinality(Of(u)) - Cardinality(G)
    BY <2>2, <2>3, FS_Difference
  <2>5. Cardinality(Of(u)) \in Nat /\ Cardinality(G) \in Nat
    BY <2>3, FS_CardinalityType
  <2>6. byUser[u] = Cardinality(Of(u)) /\ byUser[u] <= PerUser
    BY DEF Counted
  <2>7. PerUser \in Nat
    BY LimitsAssumption
  <2> QED BY <2>1, <2>4, <2>5, <2>6, <2>7
<1>7. byUser' \in [Users -> Int]
  <2>1. byUser' = [u \in Users |-> byUser'[u]]
    BY DEF Without
  <2> QED BY <1>6, <2>1
<1> QED BY <1>1, <1>2, <1>5, <1>6, <1>7 DEF Counted

\* The numbers of the slots stay apart.
LEMMA ApartStep ==
    ASSUME WorkTypes, Shapes, Apart, NEW r \in Slots, Begins(r) \/ Goes(r) \/ Ends(r)
    PROVE  Apart'
<1>1. \A o \in Slots : work[o].token \in 0..requests
  BY Numbers
<1>2. \A o \in Slots : o # r => work'[o] = work[o]
  BY DEF Begins, Goes, Ends, Slotwise
<1>3. requests \in Nat
  BY DEF WorkTypes
<1>4. work'[r].token \in {0, requests + 1} \/ work'[r].token = work[r].token
  BY FreeType DEF Begins, Goes, Ends
<1> QED BY <1>1, <1>2, <1>3, <1>4 DEF Apart

\* A step that leaves the table alone, if every request that is on goes on.
LEMMA QuietKeeps ==
    ASSUME WorkTypes, Shapes, Sessions, UNCHANGED <<sessions, spent>>, Apart',
           requests' \in Nat, requests <= requests',
           \A o \in Slots : work'[o].token \in 1..requests =>
              /\ work'[o].token = work[o].token /\ work'[o].user = work[o].user
              /\ work'[o].op = work[o].op
              /\ Held(work[o]) => Held(work'[o])
              /\ Settled(work[o]) => Settled(work'[o]) /\ work'[o].at = work[o].at,
           \A o \in Slots : Held(work[o]) \/ Settled(work[o]) =>
              work'[o].op # "free" /\ work'[o].token = work[o].token
    PROVE  Sessions'
<1>1. /\ table' = table /\ others' = others /\ byUser' = byUser /\ answered' = answered
      /\ era' = era /\ spent' = spent /\ requests \in Nat
  BY DEF sessions, WorkTypes
<1>2. SessionTypes' /\ Counted' /\ RevokedStaysOut'
  BY <1>1 DEF Sessions, SessionTypes, Counted, Of, Size, RevokedStaysOut
<1>3. Placed'
  <2>1. \A s \in table : s.token \in 1..requests'
    BY <1>1 DEF Sessions, Placed
  <2>2. ASSUME NEW s \in table, NEW o \in Slots, work'[o].token = s.token
        PROVE  Held(work'[o]) /\ work'[o].user = s.user
    BY <2>2, <1>1 DEF Sessions, Placed
  <2> QED BY <1>1, <2>1, <2>2 DEF Sessions, Placed
<1>4. Closed'
  <2>1. ASSUME NEW a \in answered
        PROVE  a.token \in 1..requests' /\ \A o \in Slots : work'[o].token # a.token
    BY <1>1 DEF Sessions, Closed
  <2> QED BY <1>1, <2>1 DEF Closed
<1>5. \A n : Disclosed(n)' = Disclosed(n) /\ Present(n)' = Present(n)
  BY <1>1 DEF Disclosed, Present
<1>6. Owned'
  <2>1. ASSUME NEW s \in table PROVE Serving(s.token)' \/ Disclosed(s.token)'
    <3>1. CASE Disclosed(s.token)
      BY <3>1, <1>5
    <3>2. CASE Serving(s.token)
      <4>1. PICK o \in Slots : work[o].token = s.token
        BY <3>2 DEF Serving
      <4>2. Held(work[o])
        BY <4>1 DEF Sessions, Placed
      <4> QED BY <4>1, <4>2 DEF Serving
    <3> QED BY <3>1, <3>2 DEF Sessions, Owned
  <2> QED BY <1>1, <2>1 DEF Owned
<1>7. Spendings'
  <2>1. ASSUME NEW x \in spent
        PROVE  x.token \in 1..requests' /\ Kept(x)' /\ Turned(x)' /\ Repaid(x)'
    <3>1. x.token \in 1..requests /\ Kept(x) /\ Turned(x) /\ Repaid(x)
      BY DEF Sessions, Spendings
    <3>2. Kept(x)'
      <4>1. ASSUME NEW o \in Slots, work'[o].token = x.token
            PROVE  /\ ~x.refused /\ Settled(work'[o]) /\ work'[o].user = x.user
                   /\ work'[o].op = "confirm" => x.code[1] = "recovery"
                   /\ work'[o].at = "revoke" \/ Present(x.token) \/ era[x.user] > x.era
        BY <3>1, <4>1 DEF Kept
      <4> QED BY <4>1, <1>1, <1>5 DEF Kept
    <3>3. Repaid(x)'
      <4>1. CASE Serving(x.token)
        <5>1. PICK o \in Slots : work[o].token = x.token
          BY <4>1 DEF Serving
        <5>2. Settled(work[o])
          BY <5>1, <3>1 DEF Kept
        <5> QED BY <5>1, <5>2 DEF Serving, Repaid
      <4> QED BY <4>1, <3>1, <1>1, <1>5 DEF Repaid
    <3>4. Turned(x)'
      BY <3>1, <1>5 DEF Turned
    <3> QED BY <3>1, <3>2, <3>3, <3>4, <1>1
  <2> QED BY <1>1, <2>1 DEF Sessions, Spendings
<1> QED BY <1>2, <1>3, <1>4, <1>6, <1>7 DEF Sessions

\* A new request, one that goes on, and one that ends without a place.
LEMMA BeginKeeps ==
    ASSUME WorkTypes, Shapes, Sessions, NEW r \in Slots, Begins(r),
           UNCHANGED <<sessions, spent>>
    PROVE  Sessions'
<1>1. Apart' /\ requests \in Nat /\ requests' = requests + 1
  BY ApartStep DEF Sessions, WorkTypes, Begins
<1>2. \A o \in Slots : o # r => work'[o] = work[o]
  BY DEF Begins, Slotwise
<1>3. work'[r].token \notin 1..requests
  BY <1>1 DEF Begins
<1>4. ~Held(work[r]) /\ ~Settled(work[r])
  BY FreeHolds DEF Begins
<1>5. \A o \in Slots : Held(work[o]) \/ Settled(work[o]) => work[o].op # "free"
  BY Numbers
<1> QED BY <1>1, <1>2, <1>3, <1>4, <1>5, QuietKeeps

\* A request goes on without touching the table.
LEMMA GoKeeps ==
    ASSUME WorkTypes, Shapes, Sessions, NEW r \in Slots, Goes(r),
           Held(work[r]) => Held(work'[r]), ~Settled(work[r]),
           UNCHANGED <<sessions, spent>>
    PROVE  Sessions'
<1>1. Apart' /\ requests \in Nat /\ requests' = requests
  BY ApartStep DEF Sessions, WorkTypes, Goes
<1>2. \A o \in Slots : o # r => work'[o] = work[o]
  BY DEF Goes, Slotwise
<1>3. work'[r].op = work[r].op /\ work'[r].token = work[r].token /\ work'[r].user = work[r].user
  BY DEF Goes
<1>4. \A o \in Slots : Held(work[o]) \/ Settled(work[o]) => work[o].op # "free"
  BY Numbers
<1> QED BY <1>1, <1>2, <1>3, <1>4, QuietKeeps

\* A request that holds no place is over.
LEMMA EndKeeps ==
    ASSUME WorkTypes, Shapes, Sessions, NEW r \in Slots, Ends(r),
           ~Held(work[r]), ~Settled(work[r]), UNCHANGED <<sessions, spent>>
    PROVE  Sessions'
<1>1. Apart' /\ requests \in Nat /\ requests' = requests
  BY ApartStep DEF Sessions, WorkTypes, Ends
<1>2. \A o \in Slots : o # r => work'[o] = work[o]
  BY DEF Ends, Slotwise
<1>3. work'[r].token = 0
  BY FreeType DEF Ends
<1>4. \A o \in Slots : Held(work[o]) \/ Settled(work[o]) => work[o].op # "free"
  BY Numbers
<1> QED BY <1>1, <1>2, <1>3, <1>4, QuietKeeps

\* A step of nobody's request.
LEMMA StillKeeps ==
    ASSUME WorkTypes, Shapes, Sessions, UNCHANGED <<sessions, spent, work, requests>>
    PROVE  Sessions'
<1>1. Apart' /\ requests \in Nat /\ requests' = requests /\ work' = work
  BY DEF Sessions, WorkTypes, Apart
<1>4. \A o \in Slots : Held(work[o]) \/ Settled(work[o]) => work[o].op # "free"
  BY Numbers
<1> QED BY <1>1, <1>4, QuietKeeps

\* A request takes its place.
LEMMA ReserveKeeps ==
    ASSUME WorkTypes, Shapes, Sessions, NEW r \in Slots, Goes(r),
           work[r].op \in {"login", "confirm"},
           ~Held(work[r]), ~Settled(work[r]), Held(work'[r]),
           HasRoom(work[r].user), Reserved(r, work[r].user), UNCHANGED spent
    PROVE  Sessions'
<1> DEFINE n == work[r].token
           u == work[r].user
           new == [token |-> n, user |-> u]
<1>1. n \in 1..requests /\ u \in Users /\ requests \in Nat /\ n \in Nat /\ n # 0
  BY DEF Shapes, Shaped, Fits, WorkTypes
<1>2. /\ table' = table \cup {new} /\ byUser' = [byUser EXCEPT ![u] = @ + 1]
      /\ others' = others /\ answered' = answered /\ era' = era /\ spent' = spent
  BY DEF Reserved
<1>3. /\ requests' = requests /\ work'[r].token = n /\ work'[r].user = u
      /\ work'[r].op = work[r].op
      /\ \A o \in Slots : o # r => work'[o] = work[o]
  BY DEF Goes, Slotwise
<1>4. \A s \in table : s.token # n
  BY DEF Sessions, Placed
<1>5. new \in SessionType /\ new.token = n /\ new.user = u /\ new \notin table
  BY <1>1, <1>4 DEF SessionType
<1> HIDE DEF new
<1>6. table \subseteq SessionType /\ IsFiniteSet(table) /\ others \in Nat /\ byUser \in [Users -> Int]
  BY DEF Sessions, SessionTypes
<1>7. IsFiniteSet(table') /\ Cardinality(table') = Cardinality(table) + 1
  BY <1>2, <1>5, <1>6, FS_AddElement
<1>8. SessionTypes'
  <2>1. byUser' \in [Users -> Int]
    BY <1>1, <1>2, <1>6
  <2>2. answered \subseteq GrantType /\ era \in [Users -> Nat]
    BY DEF Sessions, SessionTypes
  <2> QED BY <1>2, <1>5, <1>6, <1>7, <2>1, <2>2 DEF SessionTypes
<1>9. Counted'
  <2>1. Size' <= Total
    <3>1. Cardinality(table) + others < Total /\ Total \in Nat /\ Cardinality(table) \in Nat
      BY <1>6, FS_CardinalityType, LimitsAssumption DEF HasRoom, Size
    <3> QED BY <1>2, <1>6, <1>7, <3>1 DEF Size
  <2>2. ASSUME NEW v \in Users
        PROVE  byUser'[v] = Cardinality(Of(v)') /\ byUser'[v] <= PerUser
    <3>1. byUser[v] = Cardinality(Of(v)) /\ byUser[v] <= PerUser /\ IsFiniteSet(Of(v))
      BY <1>6, FS_Subset DEF Sessions, Counted, Of
    <3>2. CASE v = u
      <4>1. Of(v)' = Of(v) \cup {new} /\ new \notin Of(v)
        BY <1>2, <1>5, <3>2 DEF Of
      <4>2. Cardinality(Of(v)') = Cardinality(Of(v)) + 1
        BY <4>1, <3>1, FS_AddElement
      <4>3. byUser'[v] = byUser[v] + 1 /\ byUser[v] < PerUser /\ byUser[v] \in Int
        BY <1>2, <1>6, <3>2 DEF HasRoom
      <4>4. PerUser \in Nat
        BY LimitsAssumption
      <4> QED BY <4>2, <4>3, <4>4, <3>1
    <3>3. CASE v # u
      <4>1. Of(v)' = Of(v)
        BY <1>2, <1>5, <3>3 DEF Of
      <4> QED BY <4>1, <3>1, <3>3, <1>2, <1>6
    <3> QED BY <3>2, <3>3
  <2> QED BY <2>1, <2>2 DEF Counted
<1>10. Placed'
  <2>1. \A s \in table' : s.token \in 1..requests'
    BY <1>1, <1>2, <1>3, <1>5 DEF Sessions, Placed
  <2>2. \A s, t \in table' : s.token = t.token => s = t
    BY <1>2, <1>4, <1>5 DEF Sessions, Placed
  <2>3. ASSUME NEW s \in table', NEW o \in Slots, work'[o].token = s.token
        PROVE  Held(work'[o]) /\ work'[o].user = s.user
    <3>1. work'[o].token = work[o].token /\ work'[o].user = work[o].user
      BY <1>3
    <3>2. CASE s \in table
      <4>1. o # r
        BY <1>4, <2>3, <3>1, <3>2
      <4> QED BY <4>1, <1>3, <2>3, <3>2 DEF Sessions, Placed
    <3>3. CASE s = new
      <4>1. work[o].token = n /\ n # 0
        BY <1>1, <1>5, <2>3, <3>1, <3>3
      <4>2. Apart
        BY DEF Sessions
      <4>3. o = r
        BY <4>1, <4>2 DEF Apart
      <4> QED BY <4>3, <1>3, <1>5, <3>3
    <3> QED BY <3>2, <3>3, <1>2
  <2> QED BY <2>1, <2>2, <2>3 DEF Placed
<1>11. Closed'
  <2>1. \A a \in answered : a.token \in 1..requests /\ \A o \in Slots : work[o].token # a.token
    BY DEF Sessions, Closed
  <2> QED BY <1>2, <1>3, <2>1 DEF Closed
<1>12. /\ \A m : Serving(m) => Serving(m)'
       /\ \A m : Disclosed(m)' = Disclosed(m)
       /\ \A m : Present(m) => Present(m)'
  BY <1>2, <1>3 DEF Serving, Disclosed, Present
<1>13. Owned'
  <2>1. ASSUME NEW s \in table' PROVE Serving(s.token)' \/ Disclosed(s.token)'
    <3>1. CASE s = new
      <4>1. work'[r].token = s.token /\ work'[r].op # "free"
        BY <1>3, <1>5, <3>1
      <4> QED BY <4>1 DEF Serving
    <3>2. CASE s \in table
      BY <3>2, <1>12 DEF Sessions, Owned
    <3> QED BY <3>1, <3>2, <1>2
  <2> QED BY <2>1 DEF Owned
<1>14. Spendings'
  <2>1. ASSUME NEW x \in spent PROVE x.token \in 1..requests' /\ Kept(x)' /\ Turned(x)' /\ Repaid(x)'
    <3>1. x.token \in 1..requests /\ Kept(x) /\ Turned(x) /\ Repaid(x)
      BY DEF Sessions, Spendings
    <3>2. x.token # n
      BY <3>1 DEF Kept
    <3>3. Kept(x)'
      <4>1. ASSUME NEW o \in Slots, work'[o].token = x.token PROVE o # r /\ work'[o] = work[o]
        BY <1>3, <3>2, <4>1
      <4> QED BY <4>1, <3>1, <1>2, <1>12 DEF Kept
    <3>4. Turned(x)'
      BY <3>1, <3>2, <1>2, <1>5, <1>12 DEF Turned, Present
    <3> QED BY <3>1, <3>3, <3>4, <1>2, <1>3, <1>12 DEF Repaid
  <2> QED BY <1>2, <2>1 DEF Sessions, Spendings
<1>15. Apart' /\ RevokedStaysOut'
  BY <1>2, ApartStep DEF Sessions, RevokedStaysOut
<1> QED BY <1>8, <1>9, <1>10, <1>11, <1>13, <1>14, <1>15 DEF Sessions

\* A place is given back, by a request that ends or goes on without a place.
LEMMA CancelPlaces ==
    ASSUME WorkTypes, Shapes, Sessions, NEW r \in Slots,
           Ends(r) \/ (Goes(r) /\ ~Held(work'[r])),
           work[r].op \in {"login", "confirm"}, Cancel(r)
    PROVE  /\ SessionTypes' /\ Counted' /\ Placed' /\ Closed' /\ Owned' /\ Apart'
           /\ RevokedStaysOut'
           /\ era' = era /\ requests' = requests /\ work[r].token \in 1..requests
           /\ requests \in Nat
           /\ \A o \in Slots : o # r => work'[o] = work[o]
           /\ work'[r].token \in {0, work[r].token}
           /\ \A m : Disclosed(m)' = Disclosed(m)
           /\ \A m : m # work[r].token =>
                 (Serving(m) => Serving(m)') /\ Present(m)' = Present(m)
           /\ \A m : Present(m)' => Present(m)
           /\ \A m : m = work[r].token => ~Present(m)'
<1> DEFINE n == work[r].token
           gone == {s \in table : s.token = n}
<1>1. n \in 1..requests /\ requests \in Nat /\ requests' = requests
  BY DEF Shapes, Shaped, Fits, WorkTypes, Ends, Goes
<1>2. /\ Without(gone) /\ table' = table \ gone
      /\ others' = others /\ answered' = answered /\ era' = era
  BY DEF Cancel, Without
<1>3. SessionTypes' /\ Counted'
  <2>1. SessionTypes /\ Counted /\ gone \subseteq table
    BY DEF Sessions
  <2>2. answered \subseteq GrantType /\ era \in [Users -> Nat] /\ others \in Nat
    BY <2>1 DEF SessionTypes
  <2> HIDE DEF gone
  <2> QED BY <1>2, <2>1, <2>2, WithoutCounts DEF SessionTypes
<1>4. \A o \in Slots : o # r => work'[o] = work[o]
  BY DEF Goes, Ends, Slotwise
<1>5. work'[r].token \in {0, n} /\ ~Held(work'[r])
  BY FreeType, FreeHolds DEF Goes, Ends
<1>6. \A s \in table' : s \in table /\ s.token # n
  BY <1>2
<1>7. Placed'
  <2>1. ASSUME NEW s \in table', NEW o \in Slots, work'[o].token = s.token
        PROVE  Held(work'[o]) /\ work'[o].user = s.user
    <3>1. s \in table /\ s.token # n /\ s.token \in 1..requests
      BY <1>6 DEF Sessions, Placed
    <3>2. o # r
      BY <1>1, <1>5, <2>1, <3>1
    <3> QED BY <3>1, <3>2, <1>4, <2>1 DEF Sessions, Placed
  <2>2. /\ \A s \in table : s.token \in 1..requests
        /\ \A s, t \in table : s.token = t.token => s = t
    BY DEF Sessions, Placed
  <2> QED BY <2>1, <2>2, <1>1, <1>6 DEF Placed
<1>8. Closed'
  <2>1. \A a \in answered : a.token \in 1..requests /\ \A o \in Slots : work[o].token # a.token
    BY DEF Sessions, Closed
  <2>2. \A a \in answered, o \in Slots : work'[o].token # a.token
    BY <2>1, <1>1, <1>4, <1>5
  <2> QED BY <1>1, <1>2, <2>1, <2>2 DEF Closed
<1>9. /\ \A m : Disclosed(m)' = Disclosed(m)
      /\ \A m : m # n => (Serving(m) => Serving(m)') /\ Present(m)' = Present(m)
  <2>1. \A m : m # n => Present(m)' = Present(m)
    BY <1>2 DEF Present
  <2> QED BY <1>2, <1>4, <2>1 DEF Serving, Disclosed
<1>10. Owned'
  <2>1. ASSUME NEW s \in table' PROVE Serving(s.token)' \/ Disclosed(s.token)'
    BY <1>6, <1>9 DEF Sessions, Owned
  <2> QED BY <2>1 DEF Owned
<1>11. /\ Apart' /\ RevokedStaysOut'
       /\ \A m : Present(m)' => Present(m)
       /\ \A m : m = n => ~Present(m)'
  BY <1>2, <1>6, ApartStep DEF Sessions, RevokedStaysOut, Present
<1> QED BY <1>1, <1>2, <1>3, <1>4, <1>5, <1>7, <1>8, <1>9, <1>10, <1>11

\* A place is given back by a request that has not used up a code.
LEMMA CancelKeeps ==
    ASSUME WorkTypes, Shapes, Sessions, NEW r \in Slots,
           Ends(r) \/ (Goes(r) /\ ~Held(work'[r])),
           work[r].op \in {"login", "confirm"},
           ~Settled(work[r]), Cancel(r), UNCHANGED spent
    PROVE  Sessions'
<1> DEFINE n == work[r].token
<1>1. /\ SessionTypes' /\ Counted' /\ Placed' /\ Closed' /\ Owned' /\ Apart'
      /\ RevokedStaysOut'
  BY CancelPlaces
<1>2. /\ era' = era /\ requests' = requests /\ requests \in Nat /\ n \in 1..requests
      /\ \A o \in Slots : o # r => work'[o] = work[o]
      /\ work'[r].token \in {0, n}
      /\ \A m : Disclosed(m)' = Disclosed(m)
      /\ \A m : m # n => (Serving(m) => Serving(m)') /\ Present(m)' = Present(m)
      /\ \A m : Present(m)' => Present(m)
  BY CancelPlaces
<1>3. ASSUME NEW x \in spent
      PROVE  x.token \in 1..requests' /\ Kept(x)' /\ Turned(x)' /\ Repaid(x)'
  <2>1. x.token \in 1..requests /\ Kept(x) /\ Turned(x) /\ Repaid(x)
    BY DEF Sessions, Spendings
  <2>2. x.token # n
    BY <2>1 DEF Kept
  <2>3. Kept(x)'
    <3>1. ASSUME NEW o \in Slots, work'[o].token = x.token PROVE o # r /\ work'[o] = work[o]
      BY <1>2, <2>1, <2>2, <3>1
    <3> QED BY <3>1, <1>2, <2>1, <2>2 DEF Kept
  <2>4. Turned(x)'
    BY <2>1, <1>2 DEF Turned
  <2> QED BY <1>2, <2>1, <2>2, <2>3, <2>4 DEF Repaid
<1>4. Spendings'
  BY <1>2, <1>3 DEF Sessions, Spendings
<1> QED BY <1>1, <1>4 DEF Sessions

\* A request that has used up its code is refused: it gives its place back, and
\* the code stays used up.
LEMMA RefuseKeeps ==
    ASSUME WorkTypes, Shapes, Sessions, NEW r \in Slots, Ends(r),
           work[r].op = "confirm", Cancel(r),
           \A x \in spent' :
              \/ x \in spent /\ x.token # work[r].token
              \/ /\ x.refused /\ x.code[1] = "recovery" /\ x.token = work[r].token
                 /\ x.user \in Users /\ x.era \in Int /\ x.era <= era[x.user] /\ Written(x)
    PROVE  Sessions'
<1> DEFINE n == work[r].token
<1>1. /\ SessionTypes' /\ Counted' /\ Placed' /\ Closed' /\ Owned' /\ Apart'
      /\ RevokedStaysOut'
  BY CancelPlaces
<1>2. /\ era' = era /\ requests' = requests /\ requests \in Nat /\ n \in 1..requests
      /\ \A o \in Slots : o # r => work'[o] = work[o]
      /\ \A m : Disclosed(m)' = Disclosed(m)
      /\ \A m : m # n => (Serving(m) => Serving(m)') /\ Present(m)' = Present(m)
      /\ \A m : m = n => ~Present(m)'
  BY CancelPlaces
<1>3. work'[r].token = 0
  BY FreeType DEF Ends
<1>4. ASSUME NEW x \in spent, x.token # n
      PROVE  x.token \in 1..requests' /\ Kept(x)' /\ Turned(x)' /\ Repaid(x)'
  <2>1. x.token \in 1..requests /\ Kept(x) /\ Turned(x) /\ Repaid(x)
    BY DEF Sessions, Spendings
  <2>2. Kept(x)'
    <3>1. ASSUME NEW o \in Slots, work'[o].token = x.token PROVE o # r /\ work'[o] = work[o]
      BY <1>2, <1>3, <2>1, <3>1
    <3> QED BY <3>1, <1>2, <1>4, <2>1 DEF Kept
  <2>3. Turned(x)'
    BY <2>1, <1>2, <1>4 DEF Turned
  <2> QED BY <1>2, <1>4, <2>1, <2>2, <2>3 DEF Repaid
<1>5. ~Disclosed(n)
  BY DEF Sessions, Closed, Disclosed
<1>6. ASSUME NEW x, x.refused, x.code[1] = "recovery", x.token = n
      PROVE  Kept(x)' /\ Turned(x)' /\ Repaid(x)'
  <2>1. ASSUME NEW o \in Slots PROVE work'[o].token # x.token
    <3>1. CASE o = r
      BY <3>1, <1>2, <1>3, <1>6
    <3>2. CASE o # r
      <4>1. work'[o].token = work[o].token /\ Apart /\ n # 0
        BY <3>2, <1>2 DEF Sessions
      <4> QED BY <3>2, <4>1, <1>6 DEF Apart
    <3> QED BY <3>1, <3>2
  <2> QED BY <2>1, <1>2, <1>5, <1>6 DEF Kept, Turned, Repaid
<1>7. ASSUME NEW x \in spent'
      PROVE  /\ x.token \in 1..requests' /\ x.user \in Users
             /\ x.era \in Int /\ x.era <= era'[x.user]
             /\ Written(x) /\ Kept(x)' /\ Turned(x)' /\ Repaid(x)'
  <2>1. CASE x \in spent /\ x.token # n
    <3>1. x.user \in Users /\ x.era \in Int /\ x.era <= era[x.user] /\ Written(x)
      BY <2>1 DEF Sessions, Spendings
    <3> QED BY <2>1, <3>1, <1>2, <1>4
  <2>2. CASE /\ x.refused /\ x.code[1] = "recovery" /\ x.token = n
             /\ x.user \in Users /\ x.era \in Int /\ x.era <= era[x.user] /\ Written(x)
    BY <2>2, <1>2, <1>6
  <2> QED BY <1>7, <2>1, <2>2
<1>8. Spendings'
  BY <1>7 DEF Spendings
<1> QED BY <1>1, <1>8 DEF Sessions

\* A request is over and its session is disclosed, if it is still there.
LEMMA CommitKeeps ==
    ASSUME WorkTypes, Shapes, Sessions, NEW r \in Slots, Ends(r),
           work[r].op \in {"login", "change", "confirm"}, work[r].at = "commit",
           Commit(r), UNCHANGED spent
    PROVE  Sessions'
<1> DEFINE n == work[r].token
           u == work[r].user
           a == [token |-> n, user |-> u, now |-> era[u], era |-> Standing(r)]
<1>1. n \in 1..requests /\ requests \in Nat /\ requests' = requests /\ n # 0 /\ u \in Users
  BY DEF Shapes, Shaped, Fits, WorkTypes, Ends
<1>2. /\ table' = table /\ others' = others /\ byUser' = byUser /\ era' = era /\ spent' = spent
      /\ Present(n) => answered' = answered \cup {a}
      /\ ~Present(n) => answered' = answered
  BY DEF Commit, Answer
<1>3. Present(n) => a.era = a.now /\ a \in GrantType /\ a.token = n
  BY <1>1 DEF Standing, GrantType, Sessions, SessionTypes
<1> HIDE DEF a
<1>4. SessionTypes' /\ Counted' /\ RevokedStaysOut'
  BY <1>2, <1>3 DEF Sessions, SessionTypes, Counted, Size, Of, RevokedStaysOut
<1>5. \A o \in Slots : o # r => work'[o] = work[o]
  BY DEF Ends, Slotwise
<1>6. work'[r].token = 0
  BY FreeType DEF Ends
<1>7. Placed'
  <2>1. ASSUME NEW s \in table, NEW o \in Slots, work'[o].token = s.token
        PROVE  Held(work'[o]) /\ work'[o].user = s.user
    <3>1. s.token \in 1..requests
      BY DEF Sessions, Placed
    <3>2. o # r
      BY <1>1, <1>6, <2>1, <3>1
    <3> QED BY <3>2, <1>5, <2>1 DEF Sessions, Placed
  <2> QED BY <2>1, <1>1, <1>2 DEF Sessions, Placed
<1>8. Closed'
  <2>1. \A b \in answered : b.token \in 1..requests /\ \A o \in Slots : work[o].token # b.token
    BY DEF Sessions, Closed
  <2>2. \A b \in answered, o \in Slots : work'[o].token # b.token
    BY <2>1, <1>1, <1>5, <1>6
  <2>3. \A o \in Slots : work'[o].token # n
    <3>1. Apart
      BY DEF Sessions
    <3> QED BY <3>1, <1>1, <1>5, <1>6 DEF Apart
  <2>4. \A b \in answered' : b \in answered \/ b.token = n
    BY <1>2, <1>3
  <2>5. ASSUME NEW b \in answered'
        PROVE  b.token \in 1..requests /\ \A o \in Slots : work'[o].token # b.token
    BY <1>1, <2>1, <2>2, <2>3, <2>4
  <2> QED BY <1>1, <2>5 DEF Closed
<1>9. /\ \A m : Disclosed(m) => Disclosed(m)'
      /\ \A m : m # n => (Serving(m) => Serving(m)') /\ Disclosed(m)' = Disclosed(m)
      /\ \A m : Present(m)' = Present(m)
      /\ Present(n) => \E b \in answered' : b.token = n
  BY <1>2, <1>3, <1>5 DEF Serving, Disclosed, Present
<1>10. Owned'
  <2>1. ASSUME NEW s \in table PROVE Serving(s.token)' \/ Disclosed(s.token)'
    <3>1. CASE s.token = n
      <4>1. Present(n)
        BY <3>1 DEF Present
      <4>2. \E b \in answered' : b.token = s.token
        BY <3>1, <4>1, <1>9
      <4> QED BY <4>2 DEF Disclosed
    <3>2. CASE s.token # n
      BY <3>2, <1>9 DEF Sessions, Owned
    <3> QED BY <3>1, <3>2
  <2> QED BY <1>2, <2>1 DEF Owned
<1>11. Spendings'
  <2>1. ASSUME NEW x \in spent PROVE x.token \in 1..requests' /\ Kept(x)' /\ Turned(x)' /\ Repaid(x)'
    <3>1. x.token \in 1..requests /\ Kept(x) /\ Turned(x) /\ Repaid(x)
      BY DEF Sessions, Spendings
    <3>2. Kept(x)'
      <4>1. ASSUME NEW o \in Slots, work'[o].token = x.token PROVE o # r /\ work'[o] = work[o]
        BY <1>1, <1>5, <1>6, <3>1, <4>1
      <4> QED BY <4>1, <3>1, <1>2, <1>9 DEF Kept
    <3>3. Repaid(x)'
      <4>1. CASE x.token # n
        BY <4>1, <3>1, <1>2, <1>9 DEF Repaid
      <4>2. CASE x.token = n /\ Present(n)
        <5>1. \E b \in answered' : b.token = x.token
          BY <4>2, <1>9
        <5> QED BY <5>1 DEF Repaid, Disclosed
      <4>3. CASE x.token = n /\ ~Present(n)
        <5>1. era[x.user] > x.era
          BY <4>3, <3>1 DEF Kept
        <5> QED BY <5>1, <1>2 DEF Repaid
      <4> QED BY <4>1, <4>2, <4>3
    <3>4. Turned(x)'
      <4>1. x.refused => x.token # n
        BY <3>1 DEF Kept
      <4> QED BY <4>1, <3>1, <1>9 DEF Turned
    <3> QED BY <3>1, <3>2, <3>3, <3>4, <1>1
  <2> QED BY <1>2, <2>1 DEF Sessions, Spendings
<1>12. Apart'
  BY ApartStep DEF Sessions
<1> QED BY <1>4, <1>7, <1>8, <1>10, <1>11, <1>12 DEF Sessions

\* A code is used up by a request that goes on to its last step.
LEMMA SpendKeeps ==
    ASSUME WorkTypes, Shapes, Sessions, NEW r \in Slots, Goes(r),
           work[r].op \in {"login", "confirm"}, ~Settled(work[r]),
           Settled(work'[r]), Held(work[r]) => Held(work'[r]),
           work'[r].at # "revoke" => Held(work[r]),
           UNCHANGED sessions, NEW kind, NEW code, NEW which, Spend(r, kind, code, which),
           work[r].op = "confirm" => kind = "recovery"
    PROVE  Sessions'
<1> DEFINE n == work[r].token
           u == work[r].user
<1>0. PICK x : x = [code |-> <<kind, u, which, code>>, user |-> u, token |-> n,
                    era |-> Standing(r), refused |-> FALSE]
  OBVIOUS
<1>1. n \in 1..requests /\ requests \in Nat /\ requests' = requests /\ n # 0 /\ u \in Users
  BY DEF Shapes, Shaped, Fits, WorkTypes, Goes
<1>2. /\ table' = table /\ others' = others /\ byUser' = byUser /\ era' = era
      /\ answered' = answered /\ spent' = spent \cup {x}
  BY <1>0 DEF sessions, Spend, Receipt
<1>3. /\ x.code[1] = kind /\ ~x.refused /\ Written(x)
      /\ x.token = n /\ x.user = u /\ x.era \in Int /\ x.era <= era[u]
      /\ Present(n) \/ era[u] > x.era
  BY <1>0, <1>1 DEF Standing, Sessions, SessionTypes, Written
<1>4. SessionTypes' /\ Counted' /\ RevokedStaysOut'
  BY <1>2 DEF Sessions, SessionTypes, Counted, Size, Of, RevokedStaysOut
<1>5. /\ \A o \in Slots : o # r => work'[o] = work[o]
      /\ work'[r].token = n /\ work'[r].user = u /\ work'[r].op = work[r].op
  BY DEF Goes, Slotwise
<1>6. \A o \in Slots : work'[o].token = work[o].token
  BY <1>5
<1>7. Placed'
  <2>1. ASSUME NEW s \in table, NEW o \in Slots, work'[o].token = s.token
        PROVE  Held(work'[o]) /\ work'[o].user = s.user
    BY <1>5, <2>1 DEF Sessions, Placed
  <2> QED BY <2>1, <1>1, <1>2 DEF Sessions, Placed
<1>8. Closed' /\ Apart'
  BY <1>1, <1>2, <1>6, ApartStep DEF Sessions, Closed
<1>9. /\ \A m : Disclosed(m)' = Disclosed(m)
      /\ \A m : Serving(m) => Serving(m)'
      /\ \A m : Present(m)' = Present(m)
  BY <1>2, <1>5 DEF Serving, Disclosed, Present
<1>10. Owned'
  BY <1>2, <1>9 DEF Sessions, Owned
<1>11. Spendings'
  <2>1. ASSUME NEW y \in spent
        PROVE  /\ y.token \in 1..requests' /\ y.user \in Users
               /\ y.era \in Int /\ y.era <= era'[y.user] /\ Written(y)
               /\ Kept(y)' /\ Turned(y)' /\ Repaid(y)'
    <3>1. /\ y.token \in 1..requests /\ Kept(y) /\ Turned(y) /\ Repaid(y) /\ y.user \in Users
          /\ Written(y)
          /\ y.era \in Int /\ y.era <= era[y.user]
      BY DEF Sessions, Spendings
    <3>2. y.token # n
      BY <3>1 DEF Kept
    <3>3. Kept(y)'
      <4>1. ASSUME NEW o \in Slots, work'[o].token = y.token PROVE work'[o] = work[o]
        BY <1>5, <3>2, <4>1
      <4> QED BY <4>1, <3>1, <1>2, <1>9 DEF Kept
    <3>4. Turned(y)'
      BY <3>1, <1>9 DEF Turned
    <3> QED BY <3>1, <3>3, <3>4, <1>1, <1>2, <1>9 DEF Repaid
  <2>2. Kept(x)'
    <3>1. ASSUME NEW o \in Slots, work'[o].token = x.token
          PROVE  o = r
      <4>1. work[o].token = n /\ Apart
        BY <1>3, <1>6, <3>1 DEF Sessions
      <4> QED BY <4>1, <1>1 DEF Apart
    <3>2. work'[r].at = "revoke" \/ Present(x.token) \/ era[x.user] > x.era
      BY <1>3
    <3> QED BY <3>1, <3>2, <1>2, <1>3, <1>5, <1>9 DEF Kept
  <2>3. Repaid(x)'
    <3>1. work'[r].token = x.token /\ work'[r].op # "free"
      BY <1>3, <1>5
    <3> QED BY <3>1 DEF Repaid, Serving
  <2>4. Turned(x)'
    BY <1>3 DEF Turned
  <2> QED BY <1>1, <1>2, <1>3, <2>1, <2>2, <2>3, <2>4 DEF Spendings
<1> QED BY <1>4, <1>7, <1>8, <1>10, <1>11 DEF Sessions

\* What is kept of the codes of others when the sessions of u go.
LEMMA RevokedKeep ==
    ASSUME SessionTypes, Spendings, Placed, NEW u \in Users,
           era' = [era EXCEPT ![u] = @ + 1],
           \A s \in table : s.user # u => s \in table',
           NEW x \in spent
    PROVE  /\ era'[x.user] \in Nat /\ x.era <= era'[x.user]
           /\ x.user = u => era'[x.user] > x.era
           /\ era[x.user] > x.era => era'[x.user] > x.era
           /\ \A o \in Slots : work[o].token = x.token /\ Present(x.token) =>
                 Present(x.token)' \/ era'[x.user] > x.era
<1>1. /\ x.user \in Users /\ x.era \in Int /\ x.era <= era[x.user] /\ Kept(x)
      /\ era[x.user] \in Nat
  BY DEF Spendings, SessionTypes
<1>2. era'[x.user] = IF x.user = u THEN era[x.user] + 1 ELSE era[x.user]
  BY <1>1 DEF SessionTypes
<1>3. ASSUME NEW o \in Slots, work[o].token = x.token, Present(x.token), x.user # u
      PROVE  Present(x.token)'
  <2>1. PICK s \in table : s.token = x.token
    BY <1>3 DEF Present
  <2>2. s.user = x.user
    BY <1>1, <1>3, <2>1 DEF Placed, Kept
  <2> QED BY <1>3, <2>1, <2>2 DEF Present
<1> QED BY <1>1, <1>2, <1>3

\* All sessions of a user are revoked and the request ends.
LEMMA RevokeKeeps ==
    ASSUME WorkTypes, Shapes, Sessions, NEW r \in Slots, Ends(r),
           work[r].op = "confirm", ~Held(work[r]), RevokeAll(work[r].user), UNCHANGED spent
    PROVE  Sessions'
<1> DEFINE n == work[r].token
           u == work[r].user
<1>1. n \in 1..requests /\ requests \in Nat /\ requests' = requests /\ n # 0 /\ u \in Users
  BY DEF Shapes, Shaped, Fits, WorkTypes, Ends
<1>2. /\ Without(Of(u)) /\ table' = table \ Of(u)
      /\ others' = others /\ answered' = answered /\ spent' = spent
      /\ era' = [era EXCEPT ![u] = @ + 1]
  BY DEF RevokeAll, Without
<1>3. SessionTypes' /\ Counted' /\ RevokedStaysOut'
  <2>1. SessionTypes /\ Counted /\ Of(u) \subseteq table
    BY DEF Sessions, Of
  <2>2. answered \subseteq GrantType /\ era' \in [Users -> Nat] /\ others \in Nat
    BY <1>1, <1>2, <2>1 DEF SessionTypes
  <2>3. RevokedStaysOut'
    BY <1>2 DEF Sessions, RevokedStaysOut
  <2> QED BY <1>2, <2>1, <2>2, <2>3, WithoutCounts DEF SessionTypes
<1>4. /\ \A o \in Slots : o # r => work'[o] = work[o]
      /\ work'[r].token = 0
  BY FreeType DEF Ends, Slotwise
<1>5. \A s \in table' : s \in table /\ s.token # n /\ s.token \in 1..requests
  BY <1>2 DEF Sessions, Placed
<1>6. Placed'
  <2>1. ASSUME NEW s \in table', NEW o \in Slots, work'[o].token = s.token
        PROVE  Held(work'[o]) /\ work'[o].user = s.user
    <3>1. o # r
      BY <1>1, <1>4, <1>5, <2>1
    <3> QED BY <3>1, <1>4, <1>5, <2>1 DEF Sessions, Placed
  <2> QED BY <2>1, <1>1, <1>5 DEF Sessions, Placed
<1>7. Closed'
  <2>1. \A a \in answered : a.token \in 1..requests /\ \A o \in Slots : work[o].token # a.token
    BY DEF Sessions, Closed
  <2>2. \A a \in answered, o \in Slots : work'[o].token # a.token
    BY <2>1, <1>1, <1>4
  <2> QED BY <1>1, <1>2, <2>1, <2>2 DEF Closed
<1>8. /\ \A m : Disclosed(m) => Disclosed(m)'
      /\ \A m : m # n => (Serving(m) => Serving(m)')
      /\ \A m : Disclosed(m)' => Disclosed(m)
      /\ \A m : Present(m)' => Present(m)
  BY <1>2, <1>4 DEF Serving, Disclosed, Present
<1>9. Owned'
  <2>1. ASSUME NEW s \in table' PROVE Serving(s.token)' \/ Disclosed(s.token)'
    BY <1>5, <1>8 DEF Sessions, Owned
  <2> QED BY <2>1 DEF Owned
<1>10. \A s \in table : s.user # u => s \in table'
  BY <1>2 DEF Of
<1>11. Spendings'
  <2>1. ASSUME NEW x \in spent
        PROVE  /\ x.token \in 1..requests' /\ x.user \in Users
               /\ x.era \in Int /\ x.era <= era'[x.user] /\ Kept(x)' /\ Turned(x)'
               /\ Repaid(x)'
    <3>1. /\ x.token \in 1..requests /\ Kept(x) /\ Turned(x) /\ Repaid(x) /\ x.user \in Users
          /\ x.era \in Int
      BY DEF Sessions, Spendings
    <3>2. /\ era'[x.user] \in Nat /\ x.era <= era'[x.user]
          /\ x.user = u => era'[x.user] > x.era
          /\ era[x.user] > x.era => era'[x.user] > x.era
          /\ \A o \in Slots : work[o].token = x.token /\ Present(x.token) =>
                Present(x.token)' \/ era'[x.user] > x.era
      BY <1>1, <1>2, <1>10, RevokedKeep DEF Sessions
    <3>3. Kept(x)'
      <4>1. ASSUME NEW o \in Slots, work'[o].token = x.token
            PROVE  work'[o] = work[o]
        BY <1>1, <1>4, <3>1, <4>1
      <4>2. ASSUME NEW o \in Slots, work'[o].token = x.token
            PROVE  /\ ~x.refused /\ (work'[o].op = "confirm" => x.code[1] = "recovery")
                   /\ Settled(work'[o]) /\ work'[o].user = x.user
                   /\ work'[o].at = "revoke" \/ Present(x.token)' \/ era'[x.user] > x.era
        BY <4>1, <4>2, <3>1, <3>2 DEF Kept
      <4> QED BY <4>2 DEF Kept
    <3>4. Repaid(x)'
      <4>1. CASE x.token # n
        BY <4>1, <3>1, <3>2, <1>8 DEF Repaid
      <4>2. CASE x.token = n
        <5>1. x.user = u
          BY <4>2, <3>1 DEF Kept
        <5> QED BY <5>1, <3>2 DEF Repaid
      <4> QED BY <4>1, <4>2
    <3>5. Turned(x)'
      BY <3>1, <1>8 DEF Turned
    <3> QED BY <3>1, <3>2, <3>3, <3>4, <3>5, <1>1
  <2> QED BY <1>2, <2>1 DEF Sessions, Spendings
<1>12. Apart'
  BY ApartStep DEF Sessions
<1> QED BY <1>3, <1>6, <1>7, <1>9, <1>11, <1>12 DEF Sessions

\* A place is taken in exchange for all sessions of the user.
LEMMA ReplaceKeeps ==
    ASSUME WorkTypes, Shapes, Sessions, NEW r \in Slots, Goes(r),
           work[r].op = "change", ~Held(work[r]), ~Settled(work[r]), Held(work'[r]),
           Size - byUser[work[r].user] < Total,
           ReplaceUser(r, work[r].user), UNCHANGED spent
    PROVE  Sessions'
<1> DEFINE n == work[r].token
           u == work[r].user
<1>0. PICK new : new = [token |-> n, user |-> u]
  OBVIOUS
<1>1. n \in 1..requests /\ u \in Users /\ requests \in Nat /\ n \in Nat /\ n # 0
  BY DEF Shapes, Shaped, Fits, WorkTypes
<1>2. /\ table' = (table \ Of(u)) \cup {new} /\ byUser' = [byUser EXCEPT ![u] = 1]
      /\ others' = others /\ answered' = answered /\ spent' = spent
      /\ era' = [era EXCEPT ![u] = @ + 1]
  BY <1>0 DEF ReplaceUser
<1>3. /\ requests' = requests /\ work'[r].token = n /\ work'[r].user = u
      /\ work'[r].op = work[r].op
      /\ \A o \in Slots : o # r => work'[o] = work[o]
  BY DEF Goes, Slotwise
<1>4. \A s \in table : s.token # n
  BY DEF Sessions, Placed
<1>5. new \in SessionType /\ new.token = n /\ new.user = u /\ new \notin table
  BY <1>0, <1>1, <1>4 DEF SessionType
<1>6. table \subseteq SessionType /\ IsFiniteSet(table) /\ others \in Nat /\ byUser \in [Users -> Int]
  BY DEF Sessions, SessionTypes
<1>7. /\ IsFiniteSet(table')
      /\ Cardinality(table') = Cardinality(table) - Cardinality(Of(u)) + 1
  <2>0. PICK gone : gone = Of(u)
    OBVIOUS
  <2>1. IsFiniteSet(gone) /\ table \cap gone = gone
    BY <1>6, <2>0, FS_Subset DEF Of
  <2>2. /\ IsFiniteSet(table \ gone)
        /\ Cardinality(table \ gone) = Cardinality(table) - Cardinality(gone)
    <3>1. IsFiniteSet(table)
      BY <1>6
    <3>2. /\ IsFiniteSet(table \ gone)
          /\ Cardinality(table \ gone) = Cardinality(table) - Cardinality(table \cap gone)
      BY <3>1, FS_Difference, Zenon
    <3> QED BY <2>1, <3>2
  <2>3. PICK rest : rest = table \ gone
    OBVIOUS
  <2>4. new \notin rest /\ table' = rest \cup {new} /\ IsFiniteSet(rest)
    BY <1>2, <1>5, <2>0, <2>2, <2>3
  <2>5. IsFiniteSet(rest \cup {new}) /\ Cardinality(rest \cup {new}) = Cardinality(rest) + 1
    BY <2>4, FS_AddElement, Zenon
  <2> QED BY <2>0, <2>2, <2>3, <2>4, <2>5
<1>8. SessionTypes'
  <2>1. byUser' \in [Users -> Int]
    BY <1>1, <1>2, <1>6
  <2>2. answered \subseteq GrantType /\ era \in [Users -> Nat]
    BY DEF Sessions, SessionTypes
  <2>3. era' \in [Users -> Nat]
    BY <1>1, <1>2, <2>2
  <2> QED BY <1>2, <1>5, <1>6, <1>7, <2>1, <2>2, <2>3 DEF SessionTypes
<1>9. Counted'
  <2>1. Size' <= Total
    <3>1. byUser[u] = Cardinality(Of(u)) /\ byUser[u] \in Int
      BY <1>1, <1>6 DEF Sessions, Counted
    <3>2. Total \in Nat /\ Cardinality(table) \in Nat
      BY <1>6, FS_CardinalityType, LimitsAssumption
    <3>3. Size - byUser[u] < Total /\ Size = Cardinality(table) + others
      BY DEF Size
    <3> QED BY <1>2, <1>6, <1>7, <3>1, <3>2, <3>3 DEF Size
  <2>2. ASSUME NEW v \in Users
        PROVE  byUser'[v] = Cardinality(Of(v)') /\ byUser'[v] <= PerUser
    <3>1. CASE v = u
      <4>1. Of(v)' = {new}
        BY <1>2, <1>5, <3>1 DEF Of
      <4>2. byUser'[v] = 1 /\ 1 <= PerUser
        BY <1>2, <1>6, <3>1, LimitsAssumption
      <4> QED BY <4>1, <4>2, FS_Singleton
    <3>2. CASE v # u
      <4>1. Of(v)' = Of(v)
        BY <1>2, <1>5, <3>2 DEF Of
      <4>2. byUser'[v] = byUser[v]
        BY <1>2, <1>6, <3>2
      <4> QED BY <4>1, <4>2 DEF Sessions, Counted
    <3> QED BY <3>1, <3>2
  <2> QED BY <2>1, <2>2 DEF Counted
<1>10. \A s \in table' : s = new \/ (s \in table /\ s.token # n)
  BY <1>2, <1>4
<1>11. Placed'
  <2>1. \A s \in table' : s.token \in 1..requests'
    BY <1>1, <1>3, <1>5, <1>10 DEF Sessions, Placed
  <2>2. \A s, t \in table' : s.token = t.token => s = t
    BY <1>5, <1>10 DEF Sessions, Placed
  <2>3. ASSUME NEW s \in table', NEW o \in Slots, work'[o].token = s.token
        PROVE  Held(work'[o]) /\ work'[o].user = s.user
    <3>1. work'[o].token = work[o].token /\ work'[o].user = work[o].user
      BY <1>3
    <3>2. CASE s \in table /\ s.token # n
      <4>1. o # r
        BY <2>3, <3>1, <3>2
      <4> QED BY <4>1, <1>3, <2>3, <3>2 DEF Sessions, Placed
    <3>3. CASE s = new
      <4>1. work[o].token = n /\ n # 0
        BY <1>1, <1>5, <2>3, <3>1, <3>3
      <4>2. Apart
        BY DEF Sessions
      <4>3. o = r
        BY <4>1, <4>2 DEF Apart
      <4> QED BY <4>3, <1>3, <1>5, <3>3
    <3> QED BY <3>2, <3>3, <1>10
  <2> QED BY <2>1, <2>2, <2>3 DEF Placed
<1>12. Closed'
  <2>1. \A a \in answered : a.token \in 1..requests /\ \A o \in Slots : work[o].token # a.token
    BY DEF Sessions, Closed
  <2> QED BY <1>2, <1>3, <2>1 DEF Closed
<1>13. /\ \A m : Serving(m) => Serving(m)'
       /\ \A m : Disclosed(m)' = Disclosed(m)
  BY <1>2, <1>3 DEF Serving, Disclosed
<1>14. Owned'
  <2>1. ASSUME NEW s \in table' PROVE Serving(s.token)' \/ Disclosed(s.token)'
    <3>1. CASE s = new
      <4>1. work'[r].token = s.token /\ work'[r].op # "free"
        BY <1>3, <1>5, <3>1
      <4> QED BY <4>1 DEF Serving
    <3>2. CASE s \in table
      BY <3>2, <1>13 DEF Sessions, Owned
    <3> QED BY <3>1, <3>2, <1>10
  <2> QED BY <2>1 DEF Owned
<1>15. \A s \in table : s.user # u => s \in table'
  BY <1>2 DEF Of
<1>16. Spendings'
  <2>1. ASSUME NEW x \in spent
        PROVE  /\ x.token \in 1..requests' /\ x.user \in Users
               /\ x.era \in Int /\ x.era <= era'[x.user] /\ Kept(x)' /\ Turned(x)'
               /\ Repaid(x)'
    <3>1. /\ x.token \in 1..requests /\ Kept(x) /\ Turned(x) /\ Repaid(x) /\ x.user \in Users
          /\ x.era \in Int
      BY DEF Sessions, Spendings
    <3>2. /\ era'[x.user] \in Nat /\ x.era <= era'[x.user]
          /\ era[x.user] > x.era => era'[x.user] > x.era
          /\ \A o \in Slots : work[o].token = x.token /\ Present(x.token) =>
                Present(x.token)' \/ era'[x.user] > x.era
      BY <1>1, <1>2, <1>15, RevokedKeep DEF Sessions
    <3>3. x.token # n
      BY <3>1 DEF Kept
    <3>4. Kept(x)'
      <4>1. ASSUME NEW o \in Slots, work'[o].token = x.token
            PROVE  work'[o] = work[o]
        BY <1>3, <3>3, <4>1
      <4>2. ASSUME NEW o \in Slots, work'[o].token = x.token
            PROVE  /\ ~x.refused /\ (work'[o].op = "confirm" => x.code[1] = "recovery")
                   /\ Settled(work'[o]) /\ work'[o].user = x.user
                   /\ work'[o].at = "revoke" \/ Present(x.token)' \/ era'[x.user] > x.era
        BY <4>1, <4>2, <3>1, <3>2 DEF Kept
      <4> QED BY <4>2 DEF Kept
    <3>5. Repaid(x)'
      BY <3>1, <3>2, <1>13 DEF Repaid
    <3>6. Turned(x)'
      BY <3>1, <3>3, <1>5, <1>10, <1>13 DEF Turned, Present
    <3> QED BY <3>1, <3>2, <3>4, <3>5, <3>6, <1>3
  <2> QED BY <1>2, <2>1 DEF Sessions, Spendings
<1>17. Apart' /\ RevokedStaysOut'
  BY <1>2, ApartStep DEF Sessions, RevokedStaysOut
<1> QED BY <1>8, <1>9, <1>11, <1>12, <1>14, <1>16, <1>17 DEF Sessions

\* A session that was disclosed ends.
LEMMA LeaveKeeps ==
    ASSUME WorkTypes, Shapes, Sessions, Leave
    PROVE  Sessions'
<1>1. PICK e \in table :
         /\ Disclosed(e.token) /\ Without({e})
         /\ UNCHANGED <<others, answered, era, spent, work, requests>>
  BY DEF Leave, Disclosed
<1>2. table' = table \ {e}
  BY <1>1 DEF Without
<1>3. SessionTypes' /\ Counted' /\ RevokedStaysOut' /\ Apart'
  <2>1. SessionTypes /\ Counted
    BY DEF Sessions
  <2>2. table' \subseteq SessionType /\ IsFiniteSet(table') /\ byUser' \in [Users -> Int] /\ Counted'
    BY <1>1, <2>1, WithoutCounts
  <2>3. SessionTypes'
    BY <1>1, <2>1, <2>2 DEF SessionTypes
  <2>4. RevokedStaysOut' /\ Apart'
    BY <1>1 DEF Sessions, RevokedStaysOut, Apart
  <2> QED BY <2>2, <2>3, <2>4
<1>4. Placed' /\ Closed' /\ Owned'
  BY <1>1, <1>2 DEF Sessions, Placed, Closed, Owned, Serving, Disclosed
<1>5. Spendings'
  <2>1. ASSUME NEW x \in spent PROVE Kept(x)' /\ Turned(x)' /\ Repaid(x)'
    <3>1. Kept(x) /\ Turned(x) /\ Repaid(x)
      BY DEF Sessions, Spendings
    <3>2. ASSUME NEW o \in Slots, work[o].token = x.token, Present(x.token)
          PROVE  Present(x.token)'
      <4>1. x.token # e.token
        BY <1>1, <3>2 DEF Sessions, Closed, Disclosed
      <4> QED BY <1>2, <3>2, <4>1 DEF Present
    <3>3. Turned(x)'
      BY <3>1, <1>1, <1>2 DEF Turned, Present, Disclosed
    <3> QED BY <3>1, <3>2, <3>3, <1>1 DEF Kept, Repaid, Serving, Disclosed
  <2> QED BY <1>1, <2>1 DEF Sessions, Spendings
<1> QED BY <1>3, <1>4, <1>5 DEF Sessions

\* The other users come and go.
LEMMA OthersKeep ==
    ASSUME WorkTypes, Shapes, Sessions, Others
    PROVE  Sessions'
<1>1. UNCHANGED <<table, byUser, answered, era, spent, work, requests>>
  BY DEF Others
<1>2. others' \in Nat /\ Size' <= Total
  <2>1. others \in Nat /\ IsFiniteSet(table) /\ Size <= Total /\ Total \in Nat
    BY LimitsAssumption DEF Sessions, SessionTypes, Counted
  <2>2. Cardinality(table) \in Nat
    BY <2>1, FS_CardinalityType
  <2>3. (Size < Total /\ others' = others + 1) \/ (others > 0 /\ others' = others - 1)
    BY DEF Others
  <2> QED BY <1>1, <2>1, <2>2, <2>3 DEF Size
<1>3. SessionTypes' /\ Counted' /\ RevokedStaysOut' /\ Apart'
  BY <1>1, <1>2 DEF Sessions, SessionTypes, Counted, Of, RevokedStaysOut, Apart
<1>4. Placed' /\ Closed' /\ Owned'
  BY <1>1 DEF Sessions, Placed, Closed, Owned, Serving, Disclosed
<1>5. Spendings'
  BY <1>1 DEF Sessions, Spendings, Kept, Turned, Repaid, Serving, Disclosed, Present
<1> QED BY <1>3, <1>4, <1>5 DEF Sessions

-----------------------------------------------------------------------------
(* Each step, for the slots and the session table. *)

\* Nothing that has been made is unmade.
Grows ==
    /\ requests \in Nat /\ requests' \in Nat /\ requests <= requests'
    /\ requests' <= MaxRequests
    /\ Len(tokens) \in Nat /\ Len(tokens') \in Nat /\ Len(tokens) <= Len(tokens')
    /\ secrets \in Nat /\ secrets' \in Nat /\ secrets <= secrets'

\* What is known of a request stays true as more is made.
LEMMA FitsMore ==
    ASSUME NEW w \in WorkType, NEW n \in Nat, NEW k \in Nat, NEW m \in Nat,
           NEW i \in Nat, NEW j \in Nat, NEW l \in Nat, n <= i, k <= j, m <= l,
           Fits(w, n, k, m)
    PROVE  Fits(w, i, j, l)
<1>1. w.token \in Nat /\ w.secret \in Nat
  BY DEF WorkType
<1>2. w.token \in 1..n => w.token \in 1..i
  BY <1>1
<1>3. w.code \in 1..k => w.code \in 1..j
  OBVIOUS
<1>4. w.secret <= m => w.secret <= l
  BY <1>1
<1> QED BY <1>2, <1>3, <1>4 DEF Fits

\* One slot has changed, to a request that fits.
LEMMA CoreStep ==
    ASSUME Core, Grows, NEW r \in Slots, Slotwise(r),
           Fits(work'[r], requests', Len(tokens'), secrets')
    PROVE  Core'
<1>1. ASSUME NEW o \in Slots, o # r
      PROVE  Fits(work'[o], requests', Len(tokens'), secrets')
  <2>1. work'[o] = work[o] /\ work[o] \in WorkType
    BY <1>1 DEF Slotwise, Core, WorkTypes
  <2>2. Fits(work[o], requests, Len(tokens), secrets)
    BY DEF Core, Shapes, Shaped
  <2> QED BY <2>1, <2>2, FitsMore DEF Grows
<1>2. \A o \in Slots : Fits(work'[o], requests', Len(tokens'), secrets')
  BY <1>1
<1> QED BY <1>2 DEF Core, WorkTypes, Shapes, Shaped, Slotwise, Grows

\* One slot has become free.
LEMMA CoreEnds ==
    ASSUME Core, Grows, NEW r \in Slots, Ends(r)
    PROVE  Core'
<1>1. Fits(Free, requests', Len(tokens'), secrets')
  BY DEF Grows, Fits, Free
<1> QED BY <1>1, CoreStep DEF Ends

\* No slot has changed.
LEMMA CoreStill ==
    ASSUME Core, Grows, UNCHANGED work
    PROVE  Core'
<1>1. ASSUME NEW o \in Slots
      PROVE  Fits(work[o], requests', Len(tokens'), secrets')
  <2>1. work[o] \in WorkType
    BY DEF Core, WorkTypes
  <2>2. Fits(work[o], requests, Len(tokens), secrets)
    BY DEF Core, Shapes, Shaped
  <2> QED BY <2>1, <2>2, FitsMore DEF Grows
<1> QED BY <1>1 DEF Core, WorkTypes, Shapes, Shaped, Grows

\* A step that makes no request, recovery code or authenticator.
LEMMA NothingMade ==
    ASSUME Core, CodeTypes, TokenTypes, UNCHANGED requests, UNCHANGED secrets,
           Len(tokens') = Len(tokens)
    PROVE  Grows
BY DEF Core, WorkTypes, CodeTypes, TokenTypes, Grows

\* A new request.
LEMMA RequestMade ==
    ASSUME Core, CodeTypes, TokenTypes, NEW r \in Slots, NEW w, Begin(r, w),
           UNCHANGED secrets, Len(tokens') \in Nat, Len(tokens) <= Len(tokens')
    PROVE  Grows /\ requests' = requests + 1
BY LimitsAssumption DEF Core, WorkTypes, CodeTypes, TokenTypes, Grows, Begin

\* A request as it starts.
Fresh(op, at, u, n, k, p) ==
    [op |-> op, at |-> at, user |-> u, token |-> n, secret |-> 0, code |-> k,
     tried |-> {}, purpose |-> p]

LEMMA FreshType ==
    ASSUME NEW op \in Ops, NEW at \in Stages, NEW u \in Users, NEW n \in Nat, NEW k \in Nat,
           NEW p \in Purposes \cup {"none"}
    PROVE  /\ Fresh(op, at, u, n, k, p) \in WorkType
           /\ Fresh(op, at, u, n, k, p).op = op /\ Fresh(op, at, u, n, k, p).at = at
           /\ Fresh(op, at, u, n, k, p).user = u /\ Fresh(op, at, u, n, k, p).token = n
           /\ Fresh(op, at, u, n, k, p).secret = 0 /\ Fresh(op, at, u, n, k, p).code = k
           /\ Fresh(op, at, u, n, k, p).purpose = p
BY DEF Fresh, WorkType

\* What the handlers write into a free slot.
LEMMA FreshToken ==
    ASSUME NEW op, NEW at, NEW u, NEW n, NEW w,
           w = [Free EXCEPT !.op = op, !.at = at, !.user = u, !.token = n]
    PROVE  w = Fresh(op, at, u, n, 0, "none")
BY DEF Free, Fresh

LEMMA FreshAsk ==
    ASSUME NEW op, NEW at, NEW u, NEW k, NEW p, NEW w,
           w = [Free EXCEPT !.op = op, !.at = at, !.user = u, !.purpose = p, !.code = k]
    PROVE  w = Fresh(op, at, u, 0, k, p)
BY DEF Free, Fresh

\* A sign-in is admitted.
LEMMA LoginBeginCore ==
    ASSUME Core, Sessions, CodeTypes, TokenTypes, NEW r \in Slots, NEW u \in Users,
           LoginBegin(r, u)
    PROVE  Core' /\ Sessions'
<1> DEFINE w == Fresh("login", "password", u, requests + 1, 0, "none")
<1>0. [Free EXCEPT !.op = "login", !.at = "password", !.user = u, !.token = requests + 1] = w
  BY FreshToken
<1>1. /\ w \in WorkType /\ w.op = "login" /\ w.at = "password" /\ w.user = u
      /\ w.token = requests + 1 /\ w.secret = 0
  BY FreshType DEF Core, WorkTypes, Ops, Stages
<1>2. Begin(r, w) /\ UNCHANGED <<sessions, twoStep, tokens, spent>>
  BY <1>0 DEF LoginBegin
<1> HIDE DEF w
<1>3. Begins(r) /\ work'[r] = w
  BY <1>1, <1>2, SlotBegins DEF Core, Held, Settled
<1>4. Grows /\ requests' = requests + 1
  BY <1>2, RequestMade DEF twoStep, TokenTypes
<1>5. Fits(w, requests', Len(tokens'), secrets')
  BY <1>1, <1>4, FreeType DEF Fits, Grows
<1> QED BY <1>2, <1>3, <1>4, <1>5, CoreStep, BeginKeeps DEF Core, Begins

\* A request goes on and remembers what it read.
LEMMA SlotWrites ==
    ASSUME WorkTypes, NEW r \in Slots, NEW v \in WorkType, work' = [work EXCEPT ![r] = v],
           v.op = work[r].op, v.user = work[r].user, v.token = work[r].token,
           UNCHANGED requests
    PROVE  Goes(r) /\ work'[r] = v
BY DEF WorkTypes, Goes, Slotwise

\* A request that goes on fits, if what it was given does.
LEMMA CoreGoes ==
    ASSUME Core, Grows, NEW r \in Slots, Goes(r), work[r].op # "free",
           work'[r].op \in {"ask", "confirm"} => work'[r].code = work[r].code,
           work'[r].op = "login" /\ work'[r].at \in {"code", "backup"} => work'[r].secret # 0,
           work'[r].op = "confirm" /\ work'[r].at = "room" => work'[r].purpose = "bypass",
           work'[r].secret <= secrets
    PROVE  Core'
<1>1. work[r] \in WorkType /\ work'[r] \in WorkType
  BY DEF Core, WorkTypes, Goes, Slotwise
<1>2. Fits(work[r], requests, Len(tokens), secrets)
  BY DEF Core, Shapes, Shaped
<1>3. work[r].token \in 1..requests => work'[r].token \in 1..requests'
  BY DEF Goes, Grows
<1>4. work[r].code \in 1..Len(tokens) => work[r].code \in 1..Len(tokens')
  BY DEF Grows
<1>5. work'[r].secret <= secrets'
  BY <1>1 DEF Grows, WorkType
<1>6. work'[r].op # "free" /\ work'[r] # Free
  BY FreeType DEF Goes
<1>7. Fits(work'[r], requests', Len(tokens'), secrets')
  BY <1>2, <1>3, <1>4, <1>5, <1>6 DEF Fits, Goes
<1> QED BY <1>7, CoreStep DEF Goes

\* The password is compared.
LEMMA LoginPasswordCore ==
    ASSUME Core, Sessions, CodeTypes, Numbered, TokenTypes, NEW r \in Slots, LoginPassword(r)
    PROVE  Core' /\ Sessions'
<1>1. /\ Is(r, "login", "password")
      /\ UNCHANGED <<sessions, twoStep, tokens, spent, requests>>
  BY DEF LoginPassword
<1>2. ~Held(work[r]) /\ ~Settled(work[r]) /\ work[r].op = "login"
  BY <1>1 DEF Is, Held, Settled
<1>3. Grows
  BY <1>1, NothingMade DEF twoStep
<1>4. CASE work' = [work EXCEPT ![r].at = "reserve", ![r].secret = secret[work[r].user]]
  <2>1. work[r].user \in Users
    BY <1>2 DEF Core, Shapes, Shaped, Fits
  <2>2. secret[work[r].user] \in Nat /\ secret[work[r].user] <= secrets
    BY <2>1 DEF CodeTypes, Numbered
  <2>a. PICK w \in WorkType, k \in Nat : w = work[r] /\ k = secret[work[r].user]
    BY <2>2 DEF Core, WorkTypes
  <2>b. PICK v : v = [w EXCEPT !.at = "reserve", !.secret = k]
    OBVIOUS
  <2>c. v \in WorkType
    BY <2>a, <2>b DEF WorkType, Stages
  <2>d. /\ v.at = "reserve" /\ v.secret = k
        /\ v.op = w.op /\ v.user = w.user /\ v.token = w.token
    BY <2>a, <2>b DEF WorkType
  <2>e. work' = [work EXCEPT ![r] = v]
    BY <1>4, <2>a, <2>b DEF Core, WorkTypes
  <2>3. Goes(r) /\ work'[r].at = "reserve" /\ work'[r].secret = secret[work[r].user]
    BY <1>1, <2>a, <2>c, <2>d, <2>e, SlotWrites DEF Core
  <2>4. Core'
    BY <1>2, <1>3, <2>2, <2>3, CoreGoes DEF Goes
  <2> QED BY <1>1, <1>2, <2>3, <2>4, GoKeeps DEF Core
<1>5. CASE Done(r)
  <2>1. Ends(r)
    BY <1>1, <1>5, SlotEnds DEF Core
  <2> QED BY <1>1, <1>2, <1>3, <2>1, CoreEnds, EndKeeps DEF Core
<1> QED BY <1>4, <1>5 DEF LoginPassword

\* A place in the table is reserved, or the sign-in is over.
LEMMA LoginReserveCore ==
    ASSUME Core, Sessions, CodeTypes, TokenTypes, NEW r \in Slots, LoginReserve(r)
    PROVE  Core' /\ Sessions'
<1>1. /\ Is(r, "login", "reserve")
      /\ UNCHANGED <<twoStep, tokens, spent, requests>>
  BY DEF LoginReserve
<1>2. ~Held(work[r]) /\ ~Settled(work[r]) /\ work[r].op = "login"
  BY <1>1 DEF Is, Held, Settled
<1>3. Grows
  BY <1>1, NothingMade DEF twoStep
<1>4. CASE /\ HasRoom(work[r].user) /\ Reserved(r, work[r].user)
           /\ Goto(r, IF work[r].secret = 0 THEN "commit" ELSE "code")
  <2>1. PICK stage \in Stages : stage = IF work[r].secret = 0 THEN "commit" ELSE "code"
    BY DEF Stages
  <2>2. Goes(r) /\ work'[r].at = stage /\ work'[r].secret = work[r].secret
    BY <1>1, <1>4, <2>1, SlotGoes DEF Core
  <2>3. work[r].secret <= secrets
    BY DEF Core, Shapes, Shaped, Fits
  <2>4. Core'
    BY <1>2, <1>3, <2>1, <2>2, <2>3, CoreGoes DEF Goes
  <2>5. Held(work'[r])
    BY <1>2, <2>1, <2>2 DEF Held, Goes
  <2> QED BY <1>1, <1>2, <1>4, <2>2, <2>4, <2>5, ReserveKeeps DEF Core
<1>5. CASE Done(r) /\ UNCHANGED sessions
  <2>1. Ends(r)
    BY <1>1, <1>5, SlotEnds DEF Core
  <2> QED BY <1>1, <1>2, <1>3, <1>5, <2>1, CoreEnds, EndKeeps DEF Core
<1> QED BY <1>4, <1>5 DEF LoginReserve

\* A login that ends without a session gives its place back.
LEMMA LoginFailsCore ==
    ASSUME Core, Sessions, Grows, NEW r \in Slots, NEW valid \in BOOLEAN,
           LoginFails(r, valid), work[r].op = "login", ~Settled(work[r]),
           UNCHANGED <<spent, requests>>
    PROVE  Core' /\ Sessions'
<1>1. Cancel(r) /\ Ends(r)
  BY SlotEnds DEF LoginFails, Core
<1> QED BY <1>1, CoreEnds, CancelKeeps DEF Core

\* A code is accepted, and the login goes on to its last step.
LEMMA LoginSpends ==
    ASSUME Core, Sessions, Grows, NEW r \in Slots, work[r].op = "login",
           work[r].at \in {"code", "backup"}, Goto(r, "commit"),
           UNCHANGED <<sessions, requests>>,
           NEW kind, NEW code, NEW which,
           Spend(r, kind, code, which) \/ UNCHANGED spent
    PROVE  Core' /\ Sessions'
<1>1. ~Settled(work[r]) /\ Held(work[r])
  BY DEF Settled, Held
<1>2. Goes(r) /\ work'[r].at = "commit" /\ work'[r].secret = work[r].secret
  BY SlotGoes DEF Core, Stages
<1>3. Held(work'[r]) /\ Settled(work'[r])
  BY <1>2 DEF Held, Settled, Goes
<1>4. work[r].secret <= secrets
  BY DEF Core, Shapes, Shaped, Fits
<1>5. Core'
  BY <1>2, <1>4, CoreGoes DEF Goes
<1>6. CASE Spend(r, kind, code, which)
  BY <1>1, <1>2, <1>3, <1>5, <1>6, SpendKeeps DEF Core
<1>7. CASE UNCHANGED spent
  BY <1>1, <1>2, <1>3, <1>5, <1>7, GoKeeps DEF Core
<1> QED BY <1>5, <1>6, <1>7

\* A code of the authenticator is presented.
LEMMA LoginTotpCore ==
    ASSUME Core, Sessions, CodeTypes, TokenTypes, NEW r \in Slots, LoginTotp(r)
    PROVE  Core' /\ Sessions'
<1>1. Is(r, "login", "code") /\ UNCHANGED <<secret, secrets, backups, tokens, requests>>
  BY DEF LoginTotp
<1>2. work[r].op = "login" /\ work[r].at = "code" /\ ~Settled(work[r])
  BY <1>1 DEF Is, Settled
<1>3. Grows
  BY <1>1, NothingMade
<1>4. CASE LoginFails(r, FALSE) /\ UNCHANGED spent
  BY <1>1, <1>2, <1>3, <1>4, LoginFailsCore
<1>5. ASSUME NEW k \in Steps, Goto(r, "commit"), UNCHANGED <<sessions, guard>>,
             Spend(r, "totp", k, work[r].secret) \/ UNCHANGED spent
      PROVE  Core' /\ Sessions'
  BY <1>1, <1>2, <1>3, <1>5, LoginSpends
<1> QED BY <1>4, <1>5 DEF LoginTotp

\* No valid code is presented.
LEMMA LoginNoCodeCore ==
    ASSUME Core, Sessions, CodeTypes, TokenTypes, NEW r \in Slots, LoginNoCode(r)
    PROVE  Core' /\ Sessions'
<1>1. Is(r, "login", "code") /\ UNCHANGED <<twoStep, tokens, spent, requests>>
  BY DEF LoginNoCode
<1>2. work[r].op = "login" /\ ~Settled(work[r])
  BY <1>1 DEF Is, Settled
<1>3. Grows
  BY <1>1, NothingMade DEF twoStep
<1> QED BY <1>1, <1>2, <1>3, LoginFailsCore DEF LoginNoCode

\* A backup code is compared.
LEMMA LoginBackupCore ==
    ASSUME Core, Sessions, CodeTypes, Numbered, TokenTypes, NEW r \in Slots, LoginBackup(r)
    PROVE  Core' /\ Sessions'
<1>1. /\ Is(r, "login", "code")
      /\ UNCHANGED <<sessions, guard, twoStep, tokens, spent, requests>>
  BY DEF LoginBackup
<1>2. Held(work[r]) /\ ~Settled(work[r]) /\ work[r].op = "login"
  BY <1>1 DEF Is, Held, Settled
<1>3. Grows
  BY <1>1, NothingMade DEF twoStep
<1>4. work[r].user \in Users
  BY <1>2 DEF Core, Shapes, Shaped, Fits
<1>5. PICK b \in backups[work[r].user] :
         work' = [work EXCEPT ![r].at = "backup", ![r].secret = secret[work[r].user],
                              ![r].code = b]
  BY DEF LoginBackup
<1>6. /\ b \in BackupCodes /\ secret[work[r].user] # 0
      /\ secret[work[r].user] \in Nat /\ secret[work[r].user] <= secrets
  BY <1>4 DEF CodeTypes, Numbered
<1>7. PICK w \in WorkType, k \in Nat : w = work[r] /\ k = secret[work[r].user]
  BY <1>6 DEF Core, WorkTypes
<1>8. PICK v : v = [w EXCEPT !.at = "backup", !.secret = k, !.code = b]
  OBVIOUS
<1>9. v \in WorkType
  BY <1>6, <1>7, <1>8 DEF WorkType, Stages
<1>10. /\ v.at = "backup" /\ v.secret = k
       /\ v.op = w.op /\ v.user = w.user /\ v.token = w.token
  BY <1>7, <1>8 DEF WorkType
<1>11. work' = [work EXCEPT ![r] = v]
  BY <1>5, <1>7, <1>8 DEF Core, WorkTypes
<1>12. Goes(r) /\ work'[r].at = "backup" /\ work'[r].secret = secret[work[r].user]
  BY <1>1, <1>7, <1>9, <1>10, <1>11, SlotWrites DEF Core
<1>13. Core'
  BY <1>2, <1>3, <1>6, <1>12, CoreGoes DEF Goes
<1>14. Held(work'[r])
  BY <1>2, <1>12 DEF Held, Goes
<1> QED BY <1>1, <1>2, <1>12, <1>13, <1>14, GoKeeps DEF Core

\* The backup code that matched is taken.
LEMMA LoginBackupUseCore ==
    ASSUME Core, Sessions, CodeTypes, TokenTypes, NEW r \in Slots, LoginBackupUse(r)
    PROVE  Core' /\ Sessions'
<1>1. Is(r, "login", "backup") /\ UNCHANGED <<secret, secrets, last, tokens, requests>>
  BY DEF LoginBackupUse
<1>2. work[r].op = "login" /\ work[r].at = "backup" /\ ~Settled(work[r])
  BY <1>1 DEF Is, Settled
<1>3. Grows
  BY <1>1, NothingMade
<1>4. CASE LoginFails(r, FALSE) /\ UNCHANGED spent
  BY <1>1, <1>2, <1>3, <1>4, LoginFailsCore
<1>5. CASE /\ Spend(r, "backup", work[r].code, work[r].secret)
           /\ Goto(r, "commit") /\ UNCHANGED <<sessions, guard>>
  BY <1>1, <1>2, <1>3, <1>5, LoginSpends
<1> QED BY <1>4, <1>5 DEF LoginBackupUse

\* The session of a sign-in is disclosed.
LEMMA LoginCommitCore ==
    ASSUME Core, Sessions, CodeTypes, TokenTypes, NEW r \in Slots, LoginCommit(r)
    PROVE  Core' /\ Sessions'
<1>1. /\ Is(r, "login", "commit") /\ Commit(r) /\ Done(r)
      /\ UNCHANGED <<twoStep, tokens, spent, requests>>
  BY DEF LoginCommit
<1>2. Grows
  BY <1>1, NothingMade DEF twoStep
<1>3. Ends(r)
  BY <1>1, SlotEnds DEF Core
<1> QED BY <1>1, <1>2, <1>3, CoreEnds, CommitKeeps DEF Core, Is

\* A signed-in user changes the password or the name.
LEMMA ChangeBeginCore ==
    ASSUME Core, Sessions, CodeTypes, TokenTypes, NEW r \in Slots, NEW u \in Users,
           ChangeBegin(r, u)
    PROVE  Core' /\ Sessions'
<1> DEFINE w == Fresh("change", "replace", u, requests + 1, 0, "none")
<1>0. [Free EXCEPT !.op = "change", !.at = "replace", !.user = u, !.token = requests + 1] = w
  BY FreshToken
<1>1. /\ w \in WorkType /\ w.op = "change" /\ w.at = "replace" /\ w.user = u
      /\ w.token = requests + 1 /\ w.secret = 0
  BY FreshType DEF Core, WorkTypes, Ops, Stages
<1>2. Begin(r, w) /\ UNCHANGED <<sessions, guard, twoStep, tokens, spent>>
  BY <1>0 DEF ChangeBegin
<1> HIDE DEF w
<1>3. Begins(r) /\ work'[r] = w
  BY <1>1, <1>2, SlotBegins DEF Core, Held, Settled
<1>4. Grows /\ requests' = requests + 1
  BY <1>2, RequestMade DEF twoStep, TokenTypes
<1>5. Fits(w, requests', Len(tokens'), secrets')
  BY <1>1, <1>4, FreeType DEF Fits, Grows
<1> QED BY <1>2, <1>3, <1>4, <1>5, CoreStep, BeginKeeps DEF Core, Begins

\* One session replaces all those of the user.
LEMMA ChangeReplaceCore ==
    ASSUME Core, Sessions, CodeTypes, TokenTypes, NEW r \in Slots, ChangeReplace(r)
    PROVE  Core' /\ Sessions'
<1>1. Is(r, "change", "replace") /\ UNCHANGED <<guard, twoStep, tokens, spent, requests>>
  BY DEF ChangeReplace
<1>2. ~Held(work[r]) /\ ~Settled(work[r]) /\ work[r].op = "change"
  BY <1>1 DEF Is, Held, Settled
<1>3. Grows
  BY <1>1, NothingMade DEF twoStep
<1>4. CASE /\ Size - byUser[work[r].user] < Total /\ ReplaceUser(r, work[r].user)
           /\ Goto(r, "commit")
  <2>1. Goes(r) /\ work'[r].at = "commit" /\ work'[r].secret = work[r].secret
    BY <1>1, <1>4, SlotGoes DEF Core, Stages
  <2>2. work[r].secret <= secrets
    BY DEF Core, Shapes, Shaped, Fits
  <2>3. Core'
    BY <1>2, <1>3, <2>1, <2>2, CoreGoes DEF Goes
  <2>4. Held(work'[r])
    BY <1>2, <2>1 DEF Held, Goes
  <2> QED BY <1>1, <1>2, <1>4, <2>1, <2>3, <2>4, ReplaceKeeps DEF Core
<1>5. CASE Done(r) /\ UNCHANGED sessions
  <2>1. Ends(r)
    BY <1>1, <1>5, SlotEnds DEF Core
  <2> QED BY <1>1, <1>2, <1>3, <1>5, <2>1, CoreEnds, EndKeeps DEF Core
<1> QED BY <1>4, <1>5 DEF ChangeReplace

\* The session that replaced the others is disclosed.
LEMMA ChangeCommitCore ==
    ASSUME Core, Sessions, CodeTypes, TokenTypes, NEW r \in Slots, ChangeCommit(r)
    PROVE  Core' /\ Sessions'
<1>1. /\ Is(r, "change", "commit") /\ Commit(r) /\ Done(r)
      /\ UNCHANGED <<guard, twoStep, tokens, spent, requests>>
  BY DEF ChangeCommit
<1>2. Grows
  BY <1>1, NothingMade DEF twoStep
<1>3. Ends(r)
  BY <1>1, SlotEnds DEF Core
<1> QED BY <1>1, <1>2, <1>3, CoreEnds, CommitKeeps DEF Core, Is

-----------------------------------------------------------------------------
(* The recovery codes. *)

\* A set of numbers that is not empty has a least one; among bounded ones there is
\* a greatest.
LEMMA LeastNumber ==
    ASSUME NEW T, T \subseteq Nat, T # {}
    PROVE  \E x \in T : \A y \in T : x <= y
<1>1. \E x \in T : \A y \in T : ~(<<y, x>> \in OpToRel(<, Nat))
  BY NatLessThanWellFounded, WFMin
<1>2. ASSUME NEW x \in Nat, NEW y \in Nat, ~(<<y, x>> \in OpToRel(<, Nat)) PROVE x <= y
  BY <1>2, SMT DEF OpToRel
<1> QED BY <1>1, <1>2

LEMMA MaxIsIn ==
    ASSUME NEW n \in Nat, NEW T, T \subseteq 1..n, T # {}
    PROVE  Max(T) \in T
<1> DEFINE M == {n - x : x \in T}
<1>1. \A x \in T : n - x \in Nat /\ n - x \in M
  OBVIOUS
<1>2. PICK t \in T : TRUE
  OBVIOUS
<1>3. M \subseteq Nat /\ M # {}
  BY <1>1, <1>2
<1>4. \A y \in M : \E x \in T : y = n - x
  OBVIOUS
<1> HIDE DEF M
<1>5. PICK m \in M : \A y \in M : m <= y
  BY <1>3, LeastNumber
<1>6. PICK x \in T : m = n - x
  BY <1>4
<1>7. ASSUME NEW y \in T PROVE x >= y
  <2>1. n - x <= n - y /\ x \in Int /\ y \in Int /\ n \in Int
    BY <1>1, <1>5, <1>6
  <2> QED BY <2>1
<1> QED BY <1>7 DEF Max

\* A code in the middle of the list is changed.
LEMMA TokenChanges ==
    ASSUME TokenTypes, NEW n \in 1..Len(tokens), NEW t \in TokenType,
           tokens' = [tokens EXCEPT ![n] = t]
    PROVE  /\ TokenTypes' /\ Len(tokens') = Len(tokens)
           /\ tokens'[n] = t
           /\ \A k \in 1..Len(tokens) : k # n => tokens'[k] = tokens[k]
BY DEF TokenTypes

\* The candidates are codes that have attempts left, and the newest is one of them.
LEMMA NewestCandidate ==
    ASSUME TokenTypes, NEW w, Candidates(w) # {}
    PROVE  /\ Max(Candidates(w)) \in 1..Len(tokens)
           /\ ~tokens[Max(Candidates(w))].used
           /\ tokens[Max(Candidates(w))].attempts < TokenAttempts
<1>1. Candidates(w) \subseteq 1..Len(tokens) /\ Len(tokens) \in Nat
  BY DEF Candidates, TokenTypes
<1>2. Max(Candidates(w)) \in Candidates(w)
  BY <1>1, MaxIsIn
<1> QED BY <1>2 DEF Candidates, Usable, Unused

\* What a handler does to the code n.
Paid(t)   == [t EXCEPT !.attempts = @ + 1]
Retired(t) == [t EXCEPT !.used = TRUE]
Hashed(t)  == [t EXCEPT !.hashed = TRUE]
Mailed(t, m) == [t EXCEPT !.mail = m]

\* A code that was touched is still a code, for the same purpose of the same user.
LEMMA CodeTouched ==
    ASSUME NEW t \in TokenType, NEW m \in {"sent", "kept"}
    PROVE  /\ Retired(t) \in TokenType /\ Hashed(t) \in TokenType /\ Mailed(t, m) \in TokenType
           /\ Paid(t) \in TokenType
           /\ \A v \in {Retired(t), Hashed(t), Mailed(t, m), Paid(t)} :
                 v.user = t.user /\ v.purpose = t.purpose
<1>1. Retired(t) \in TokenType /\ Hashed(t) \in TokenType /\ Mailed(t, m) \in TokenType
  BY DEF Retired, Hashed, Mailed, TokenType
<1>2. Paid(t) \in TokenType
  BY DEF Paid, TokenType
<1> QED BY <1>1, <1>2 DEF Retired, Hashed, Mailed, Paid, TokenType

\* A handler changes the code n, and nothing that a code is for.
Touches(n) ==
    /\ TokenTypes' /\ Len(tokens') = Len(tokens)
    /\ \A k \in 1..Len(tokens) :
          /\ tokens'[k].user = tokens[k].user /\ tokens'[k].purpose = tokens[k].purpose
          /\ tokens[k].used => tokens'[k].used
          /\ k # n => tokens'[k] = tokens[k]

\* The hash of a code is stored.
LEMMA HashTouches ==
    ASSUME TokenTypes, NEW n \in 1..Len(tokens), tokens' = [tokens EXCEPT ![n].hashed = TRUE]
    PROVE  Touches(n) /\ tokens'[n] = Hashed(tokens[n])
<1>1. tokens[n] \in TokenType
  BY DEF TokenTypes
<1>2. PICK t \in TokenType : t = Hashed(tokens[n])
  BY <1>1, CodeTouched
<1>3. tokens' = [tokens EXCEPT ![n] = t]
  BY <1>2 DEF Hashed, TokenTypes
<1>4. /\ TokenTypes' /\ Len(tokens') = Len(tokens) /\ tokens'[n] = t
      /\ \A k \in 1..Len(tokens) : k # n => tokens'[k] = tokens[k]
  BY <1>3, TokenChanges
<1>5. /\ t.user = tokens[n].user /\ t.purpose = tokens[n].purpose
      /\ tokens[n].used => t.used
  BY <1>1, <1>2 DEF Hashed, TokenType
<1> QED BY <1>2, <1>4, <1>5 DEF Touches

\* The message of a code was accepted, or neither it nor the invalidation was.
LEMMA SendTouches ==
    ASSUME TokenTypes, NEW n \in 1..Len(tokens), 
           NEW m \in {"sent", "kept"}, tokens' = [tokens EXCEPT ![n].mail = m]
    PROVE  Touches(n) /\ tokens'[n] = Mailed(tokens[n], m)
<1>1. tokens[n] \in TokenType
  BY DEF TokenTypes
<1>2. PICK t \in TokenType : t = Mailed(tokens[n], m)
  BY <1>1, CodeTouched
<1>3. tokens' = [tokens EXCEPT ![n] = t]
  BY <1>2 DEF Mailed, TokenTypes
<1>4. /\ TokenTypes' /\ Len(tokens') = Len(tokens) /\ tokens'[n] = t
      /\ \A k \in 1..Len(tokens) : k # n => tokens'[k] = tokens[k]
  BY <1>3, TokenChanges
<1>5. /\ t.user = tokens[n].user /\ t.purpose = tokens[n].purpose
      /\ tokens[n].used => t.used
  BY <1>1, <1>2 DEF Mailed, TokenType
<1> QED BY <1>2, <1>4, <1>5 DEF Touches

\* A code is retired.
LEMMA RetireTouches ==
    ASSUME TokenTypes, NEW n \in 1..Len(tokens), tokens' = [tokens EXCEPT ![n].used = TRUE]
    PROVE  Touches(n) /\ tokens'[n] = Retired(tokens[n])
<1>1. tokens[n] \in TokenType
  BY DEF TokenTypes
<1>2. PICK t \in TokenType : t = Retired(tokens[n])
  BY <1>1, CodeTouched
<1>3. tokens' = [tokens EXCEPT ![n] = t]
  BY <1>2 DEF Retired, TokenTypes
<1>4. /\ TokenTypes' /\ Len(tokens') = Len(tokens) /\ tokens'[n] = t
      /\ \A k \in 1..Len(tokens) : k # n => tokens'[k] = tokens[k]
  BY <1>3, TokenChanges
<1>5. /\ t.user = tokens[n].user /\ t.purpose = tokens[n].purpose
      /\ tokens[n].used => t.used
  BY <1>1, <1>2 DEF Retired, TokenType
<1> QED BY <1>2, <1>4, <1>5 DEF Touches

\* A candidate pays one attempt.
LEMMA PayTouches ==
    ASSUME TokenTypes, NEW n \in 1..Len(tokens), tokens' = [tokens EXCEPT ![n].attempts = @ + 1]
    PROVE  Touches(n) /\ tokens'[n] = Paid(tokens[n])
<1>1. tokens[n] \in TokenType
  BY DEF TokenTypes
<1>2. PICK t \in TokenType : t = Paid(tokens[n])
  BY <1>1, CodeTouched
<1>3. tokens' = [tokens EXCEPT ![n] = t]
  BY <1>2 DEF Paid, TokenTypes
<1>4. /\ TokenTypes' /\ Len(tokens') = Len(tokens) /\ tokens'[n] = t
      /\ \A k \in 1..Len(tokens) : k # n => tokens'[k] = tokens[k]
  BY <1>3, TokenChanges
<1>5. /\ t.user = tokens[n].user /\ t.purpose = tokens[n].purpose
      /\ tokens[n].used => t.used
  BY <1>1, <1>2 DEF Paid, TokenType
<1> QED BY <1>2, <1>4, <1>5 DEF Touches

\* A recovery code is asked for.
LEMMA AskBeginCore ==
    ASSUME Core, Sessions, CodeTypes, TokenTypes, NEW r \in Slots, NEW u \in Users,
           NEW p \in Purposes, AskBegin(r, u, p)
    PROVE  Core' /\ Sessions' /\ Len(tokens') = Len(tokens) + 1 /\ TokenTypes'
<1>a. Len(tokens) \in Nat
  BY DEF TokenTypes
<1>b. PICK j \in Nat : j = Len(tokens) + 1
  BY <1>a
<1> DEFINE w == Fresh("ask", "hash", u, 0, j, p)
<1>0. [Free EXCEPT !.op = "ask", !.at = "hash", !.user = u, !.purpose = p, !.code = j] = w
  BY FreshAsk
<1>1. /\ w \in WorkType /\ w.op = "ask" /\ w.at = "hash" /\ w.user = u
      /\ w.token = 0 /\ w.secret = 0 /\ w.code = j
  BY FreshType DEF Ops, Stages
<1>2. /\ Begin(r, w) /\ UNCHANGED <<sessions, guard, twoStep, spent>>
      /\ tokens' = Append(TokensRetired(u, p), NewToken(u, p))
  BY <1>0, <1>b DEF AskBegin
<1> HIDE DEF w
<1>3. Begins(r) /\ work'[r] = w
  BY <1>1, <1>2, SlotBegins DEF Core, Held, Settled
<1>4. TokensRetired(u, p) \in Seq(TokenType) /\ Len(TokensRetired(u, p)) = Len(tokens)
  <2>1. ASSUME NEW k \in 1..Len(tokens)
        PROVE  (IF Same(k, u, p) THEN [tokens[k] EXCEPT !.used = TRUE] ELSE tokens[k]) \in TokenType
    <3>1. tokens[k] \in TokenType
      BY DEF TokenTypes
    <3> QED BY <3>1, CodeTouched DEF Retired
  <2> QED BY <2>1, <1>a DEF TokensRetired
<1>5. NewToken(u, p) \in TokenType
  BY DEF NewToken, TokenType
<1>6. TokenTypes' /\ Len(tokens') = Len(tokens) + 1
  BY <1>2, <1>4, <1>5 DEF TokenTypes
<1>7. Grows /\ requests' = requests + 1
  BY <1>2, <1>6, <1>a, RequestMade DEF twoStep
<1>8. Fits(w, requests', Len(tokens'), secrets')
  BY <1>1, <1>6, <1>7, <1>a, <1>b, FreeType DEF Fits, Grows
<1> QED BY <1>2, <1>3, <1>6, <1>7, <1>8, CoreStep, BeginKeeps DEF Core, Begins

\* The handlers of a request for a code do nothing to the session table.
LEMMA AskCore ==
    ASSUME Core, Sessions, Grows, NEW r \in Slots, work[r].op = "ask",
           UNCHANGED <<sessions, spent, requests>>,
           Goto(r, "send") \/ Done(r)
    PROVE  Core' /\ Sessions'
<1>1. ~Held(work[r]) /\ ~Settled(work[r])
  BY DEF Held, Settled
<1>2. CASE Goto(r, "send")
  <2>1. /\ Goes(r) /\ work'[r].at = "send" /\ work'[r].secret = work[r].secret
        /\ work'[r].code = work[r].code
    BY <1>2, SlotGoes DEF Core, Stages
  <2>2. work[r].secret <= secrets
    BY DEF Core, Shapes, Shaped, Fits
  <2>3. Core'
    BY <2>1, <2>2, CoreGoes DEF Goes
  <2> QED BY <1>1, <2>1, <2>3, GoKeeps DEF Core
<1>3. CASE Done(r)
  BY <1>1, <1>3, SlotEnds, CoreEnds, EndKeeps DEF Core
<1> QED BY <1>2, <1>3

\* A request of recovery is about a code that exists.
LEMMA CodeKnown ==
    ASSUME Core, NEW r \in Slots, work[r].op \in {"ask", "confirm"}
    PROVE  work[r].code \in 1..Len(tokens) /\ work[r].user \in Users
BY DEF Core, Shapes, Shaped, Fits

\* The hash of the code is stored, unless it was retired.
LEMMA AskHashCore ==
    ASSUME Core, Sessions, CodeTypes, TokenTypes, NEW r \in Slots, AskHash(r)
    PROVE  Core' /\ Sessions'
<1>1. /\ Is(r, "ask", "hash")
      /\ UNCHANGED <<sessions, guard, twoStep, spent, requests>>
  BY DEF AskHash
<1>2. work[r].op = "ask" /\ work[r].code \in 1..Len(tokens)
  BY <1>1, CodeKnown DEF Is
<1>3. Len(tokens') = Len(tokens)
  <2>1. \/ UNCHANGED tokens
        \/ tokens' = [tokens EXCEPT ![work[r].code].hashed = TRUE]
        \/ tokens' = [tokens EXCEPT ![work[r].code].used = TRUE]
    BY DEF AskHash
  <2> QED BY <1>2, <2>1, HashTouches, RetireTouches DEF Touches
<1>4. Grows
  BY <1>1, <1>3, NothingMade DEF twoStep
<1>5. Goto(r, "send") \/ Done(r)
  BY DEF AskHash
<1> QED BY <1>1, <1>2, <1>4, <1>5, AskCore

\* The message is sent.
LEMMA AskSendCore ==
    ASSUME Core, Sessions, CodeTypes, TokenTypes, NEW r \in Slots, AskSend(r)
    PROVE  Core' /\ Sessions'
<1>1. /\ Is(r, "ask", "send") /\ Done(r)
      /\ UNCHANGED <<sessions, guard, twoStep, spent, requests>>
  BY DEF AskSend
<1>2. work[r].op = "ask" /\ work[r].code \in 1..Len(tokens)
  BY <1>1, CodeKnown DEF Is
<1>3. Len(tokens') = Len(tokens)
  <2>1. \/ tokens' = [tokens EXCEPT ![work[r].code].mail = "sent"]
        \/ tokens' = [tokens EXCEPT ![work[r].code].mail = "kept"]
        \/ tokens' = [tokens EXCEPT ![work[r].code].used = TRUE]
    BY DEF AskSend
  <2> QED BY <1>2, <2>1, SendTouches, RetireTouches DEF Touches
<1>4. Grows
  BY <1>1, <1>3, NothingMade DEF twoStep
<1> QED BY <1>1, <1>2, <1>4, AskCore

\* A recovery code is presented.
LEMMA ConfirmBeginCore ==
    ASSUME Core, Sessions, CodeTypes, TokenTypes, NEW r \in Slots, NEW n, ConfirmBegin(r, n)
    PROVE  Core' /\ Sessions'
<1>a. n \in 1..Len(tokens) /\ n \in Nat
  BY DEF ConfirmBegin, TokenTypes
<1>b. tokens[n] \in TokenType
  BY <1>a DEF TokenTypes
<1>c. PICK u \in Users, p \in Purposes : u = tokens[n].user /\ p = tokens[n].purpose
  BY <1>b DEF TokenType
<1>d. PICK i \in Nat : i = requests + 1
  BY DEF Core, WorkTypes
<1>e. PICK w : w = [Free EXCEPT !.op = "confirm", !.at = "take", !.code = n, !.user = u,
                                !.purpose = p, !.token = i]
  OBVIOUS
<1>0. w = Fresh("confirm", "take", u, i, n, p)
  BY <1>e DEF Free, Fresh
<1>f. "confirm" \in Ops /\ "take" \in Stages /\ p \in Purposes \cup {"none"}
  BY <1>c DEF Ops, Stages
<1>1. /\ w \in WorkType /\ w.op = "confirm" /\ w.at = "take" /\ w.user = u
      /\ w.token = requests + 1 /\ w.secret = 0 /\ w.code = n
  BY <1>0, <1>a, <1>c, <1>d, <1>f, FreshType
<1>2. Begin(r, w) /\ UNCHANGED <<sessions, guard, twoStep, tokens, spent>>
  BY <1>e, <1>c, <1>d DEF ConfirmBegin
<1>3. Begins(r) /\ work'[r] = w
  BY <1>1, <1>2, SlotBegins DEF Core, Held, Settled
<1>4. Grows /\ requests' = requests + 1
  BY <1>2, RequestMade DEF twoStep, TokenTypes
<1>5. Fits(w, requests', Len(tokens'), secrets')
  BY <1>1, <1>2, <1>4, <1>a, <1>c, FreeType DEF Fits, Grows
<1> QED BY <1>2, <1>3, <1>4, <1>5, CoreStep, BeginKeeps DEF Core, Begins

\* What taking a candidate does to the codes and to the slot.
LEMMA ConfirmTakes ==
    ASSUME Core, CodeTypes, TokenTypes, NEW r \in Slots, ConfirmTake(r)
    PROVE  \/ Done(r) /\ UNCHANGED tokens
           \/ \E n \in 1..Len(tokens), stage \in {"take", "room", "redeem"} :
                 /\ Touches(n) /\ tokens'[n] = Paid(tokens[n])
                 /\ tokens[n].attempts < TokenAttempts
                 /\ stage = "room" => work[r].purpose = "bypass"
                 /\ Goes(r) /\ work'[r].at = stage /\ work'[r].secret = work[r].secret
                 /\ work'[r].code = work[r].code /\ work'[r].purpose = work[r].purpose
           \/ \E n \in 1..Len(tokens) :
                 Touches(n) /\ tokens'[n] = Retired(tokens[n]) /\ UNCHANGED work
<1>1. UNCHANGED requests
  BY DEF ConfirmTake
<1>2. CASE Done(r) /\ UNCHANGED tokens
  BY <1>2
<1>3. ASSUME Candidates(work[r]) # {}
      PROVE  \E n \in 1..Len(tokens) : n = Max(Candidates(work[r])) /\ tokens[n].attempts < TokenAttempts
  BY <1>3, NewestCandidate
<1>4. ASSUME NEW n \in 1..Len(tokens), tokens[n].attempts < TokenAttempts,
             tokens' = [tokens EXCEPT ![n].attempts = @ + 1],
             work' = [work EXCEPT ![r].tried = @ \cup {n},
                                  ![r].at = IF n # work[r].code THEN "take"
                                            ELSE IF work[r].purpose = "bypass" THEN "room"
                                            ELSE "redeem"]
      PROVE  \E stage \in {"take", "room", "redeem"} :
                 /\ Touches(n) /\ tokens'[n] = Paid(tokens[n])
                 /\ stage = "room" => work[r].purpose = "bypass"
                 /\ Goes(r) /\ work'[r].at = stage /\ work'[r].secret = work[r].secret
                 /\ work'[r].code = work[r].code /\ work'[r].purpose = work[r].purpose
  <2>1. Touches(n) /\ tokens'[n] = Paid(tokens[n])
    BY <1>4, PayTouches
  <2>2. PICK stage \in {"take", "room", "redeem"} :
           stage = IF n # work[r].code THEN "take"
                   ELSE IF work[r].purpose = "bypass" THEN "room" ELSE "redeem"
    OBVIOUS
  <2>3. PICK w \in WorkType : w = work[r]
    BY DEF Core, WorkTypes
  <2>4. PICK t \in SUBSET Nat : t = w.tried \cup {n}
    <3>1. n \in Nat /\ w.tried \in SUBSET Nat
      BY <2>3 DEF WorkType, TokenTypes
    <3> QED BY <3>1
  <2>5. PICK v : v = [w EXCEPT !.tried = t, !.at = stage]
    OBVIOUS
  <2>6. stage \in Stages
    BY <2>2 DEF Stages
  <2>7. v \in WorkType
    BY <2>3, <2>4, <2>5, <2>6 DEF WorkType
  <2>8. /\ v.at = stage /\ v.secret = w.secret /\ v.code = w.code /\ v.purpose = w.purpose
        /\ v.op = w.op /\ v.user = w.user /\ v.token = w.token
    BY <2>3, <2>4, <2>5 DEF WorkType
  <2>9. work' = [work EXCEPT ![r] = v]
    BY <1>4, <2>2, <2>3, <2>4, <2>5 DEF Core, WorkTypes
  <2>10. Goes(r) /\ work'[r] = v
    BY <1>1, <2>3, <2>7, <2>8, <2>9, SlotWrites DEF Core
  <2> QED BY <2>1, <2>2, <2>3, <2>8, <2>10
<1>5. ASSUME NEW n \in 1..Len(tokens), tokens' = [tokens EXCEPT ![n].used = TRUE]
      PROVE  Touches(n) /\ tokens'[n] = Retired(tokens[n])
  BY <1>5, RetireTouches
<1>6. CASE /\ Candidates(work[r]) # {}
           /\ tokens' = [tokens EXCEPT ![Max(Candidates(work[r]))].attempts = @ + 1]
           /\ work' = [work EXCEPT ![r].tried = @ \cup {Max(Candidates(work[r]))},
                                   ![r].at = IF Max(Candidates(work[r])) # work[r].code THEN "take"
                                             ELSE IF work[r].purpose = "bypass" THEN "room"
                                             ELSE "redeem"]
  <2>1. PICK n \in 1..Len(tokens) : n = Max(Candidates(work[r])) /\ tokens[n].attempts < TokenAttempts
    BY <1>3, <1>6
  <2> QED BY <1>4, <1>6, <2>1
<1>7. CASE /\ Candidates(work[r]) # {}
           /\ tokens' = [tokens EXCEPT ![Max(Candidates(work[r]))].used = TRUE]
           /\ UNCHANGED work
  <2>1. PICK n \in 1..Len(tokens) : n = Max(Candidates(work[r])) /\ tokens[n].attempts < TokenAttempts
    BY <1>3, <1>7
  <2> QED BY <1>5, <1>7, <2>1
<1> QED BY <1>2, <1>6, <1>7 DEF ConfirmTake

\* A candidate is taken, or none is left.
LEMMA ConfirmTakeCore ==
    ASSUME Core, Sessions, CodeTypes, TokenTypes, NEW r \in Slots, ConfirmTake(r)
    PROVE  Core' /\ Sessions'
<1>1. Is(r, "confirm", "take") /\ UNCHANGED <<sessions, guard, twoStep, spent, requests>>
  BY DEF ConfirmTake
<1>2. ~Held(work[r]) /\ ~Settled(work[r]) /\ work[r].op = "confirm"
  BY <1>1 DEF Is, Held, Settled
<1>3. CASE Done(r) /\ UNCHANGED tokens
  <2>1. Grows
    BY <1>1, <1>3, NothingMade DEF twoStep
  <2> QED BY <1>1, <1>2, <1>3, <2>1, SlotEnds, CoreEnds, EndKeeps DEF Core
<1>4. ASSUME NEW n \in 1..Len(tokens), NEW stage \in {"take", "room", "redeem"},
             Touches(n), Goes(r), work'[r].at = stage, work'[r].secret = work[r].secret,
             work'[r].code = work[r].code, work'[r].purpose = work[r].purpose,
             stage = "room" => work[r].purpose = "bypass"
      PROVE  Core' /\ Sessions'
  <2>1. Grows
    BY <1>1, <1>4, NothingMade DEF twoStep, Touches
  <2>2. work[r].secret <= secrets
    BY DEF Core, Shapes, Shaped, Fits
  <2>3. Core'
    BY <1>2, <1>4, <2>1, <2>2, CoreGoes DEF Goes
  <2> QED BY <1>1, <1>2, <1>4, <2>3, GoKeeps DEF Core
<1>5. ASSUME NEW n \in 1..Len(tokens), Touches(n), UNCHANGED work
      PROVE  Core' /\ Sessions'
  <2>1. Grows
    BY <1>1, <1>5, NothingMade DEF twoStep, Touches
  <2> QED BY <1>1, <1>5, <2>1, CoreStill, StillKeeps DEF Core
<1> QED BY <1>3, <1>4, <1>5, ConfirmTakes

\* A place is reserved for the sign-in without the authenticator.
LEMMA ConfirmReserveCore ==
    ASSUME Core, Sessions, CodeTypes, TokenTypes, NEW r \in Slots, ConfirmReserve(r)
    PROVE  Core' /\ Sessions'
<1>1. Is(r, "confirm", "room") /\ UNCHANGED <<guard, twoStep, tokens, spent, requests>>
  BY DEF ConfirmReserve
<1>2. ~Held(work[r]) /\ ~Settled(work[r]) /\ work[r].op = "confirm"
  BY <1>1 DEF Is, Held, Settled
<1>3. Grows
  BY <1>1, NothingMade DEF twoStep
<1>4. CASE HasRoom(work[r].user) /\ Reserved(r, work[r].user) /\ Goto(r, "redeem")
  <2>1. /\ Goes(r) /\ work'[r].at = "redeem" /\ work'[r].secret = work[r].secret
        /\ work'[r].code = work[r].code /\ work'[r].purpose = work[r].purpose
    BY <1>1, <1>4, SlotGoes DEF Core, Stages
  <2>2. work[r].secret <= secrets
    BY DEF Core, Shapes, Shaped, Fits
  <2>3. Core'
    BY <1>2, <1>3, <2>1, <2>2, CoreGoes DEF Goes
  <2>4. Held(work'[r])
    <3>1. work[r].purpose = "bypass"
      BY <1>1 DEF Is, Core, Shapes, Shaped, Fits
    <3> QED BY <1>2, <2>1, <3>1 DEF Held, Goes
  <2> QED BY <1>1, <1>2, <1>4, <2>1, <2>3, <2>4, ReserveKeeps DEF Core
<1>5. CASE Done(r) /\ UNCHANGED sessions
  <2>1. Ends(r)
    BY <1>1, <1>5, SlotEnds DEF Core
  <2> QED BY <1>1, <1>2, <1>3, <1>5, <2>1, CoreEnds, EndKeeps DEF Core
<1> QED BY <1>4, <1>5 DEF ConfirmReserve

\* The code is used up, and the request goes on or is refused, or the place is
\* given back.
LEMMA ConfirmRedeemCore ==
    ASSUME Core, Sessions, CodeTypes, TokenTypes, NEW r \in Slots, ConfirmRedeem(r)
    PROVE  Core' /\ Sessions'
<1>1. Is(r, "confirm", "redeem") /\ UNCHANGED <<guard, twoStep, requests>>
  BY DEF ConfirmRedeem
<1>2. ~Settled(work[r]) /\ work[r].op = "confirm" /\ work[r].at = "redeem"
  BY <1>1 DEF Is, Settled
<1>3. work[r].code \in 1..Len(tokens) /\ work[r].secret <= secrets
  BY <1>2 DEF Core, Shapes, Shaped, Fits
<1>4. CASE /\ tokens' = [tokens EXCEPT ![work[r].code].used = TRUE]
           /\ Spend(r, "recovery", work[r].code, 0)
           /\ Goto(r, IF work[r].purpose = "bypass" THEN "commit" ELSE "revoke")
           /\ UNCHANGED sessions
  <2>1. Grows
    BY <1>1, <1>3, <1>4, RetireTouches, NothingMade DEF twoStep, Touches
  <2>2. PICK stage \in Stages : stage = IF work[r].purpose = "bypass" THEN "commit" ELSE "revoke"
    BY DEF Stages
  <2>3. /\ Goes(r) /\ work'[r].at = stage /\ work'[r].secret = work[r].secret
        /\ work'[r].code = work[r].code
    BY <1>1, <1>4, <2>2, SlotGoes DEF Core
  <2>4. Core'
    BY <1>2, <1>3, <2>1, <2>2, <2>3, CoreGoes DEF Goes
  <2>5. /\ Settled(work'[r])
        /\ Held(work[r]) => Held(work'[r])
        /\ work'[r].at # "revoke" => Held(work[r])
    BY <1>2, <2>2, <2>3 DEF Settled, Held, Goes
  <2> QED BY <1>1, <1>2, <1>4, <2>3, <2>4, <2>5, SpendKeeps DEF Core
<1>5. CASE Cancel(r) /\ Goto(r, "take") /\ UNCHANGED <<tokens, spent>>
  <2>1. Grows
    BY <1>1, <1>5, NothingMade DEF twoStep
  <2>2. /\ Goes(r) /\ work'[r].at = "take" /\ work'[r].secret = work[r].secret
        /\ work'[r].code = work[r].code
    BY <1>1, <1>5, SlotGoes DEF Core, Stages
  <2>3. Core'
    BY <1>2, <1>3, <2>1, <2>2, CoreGoes DEF Goes
  <2>4. ~Held(work'[r])
    BY <1>2, <2>2 DEF Held, Goes
  <2> QED BY <1>1, <1>2, <1>5, <2>2, <2>3, <2>4, CancelKeeps DEF Core
<1>6. CASE /\ tokens' = [tokens EXCEPT ![work[r].code].used = TRUE]
           /\ spent' = spent \cup {Receipt(r, "recovery", work[r].code, 0, TRUE)}
           /\ Cancel(r) /\ Done(r)
  <2>1. Grows /\ Ends(r)
    BY <1>1, <1>3, <1>6, RetireTouches, NothingMade, SlotEnds DEF Core, twoStep, Touches
  <2>2. PICK x : x = Receipt(r, "recovery", work[r].code, 0, TRUE)
    OBVIOUS
  <2>3. work[r].user \in Users /\ era[work[r].user] \in Nat
    BY <1>2 DEF Core, Shapes, Shaped, Fits, Sessions, SessionTypes
  <2>4. /\ x.refused /\ x.code[1] = "recovery" /\ x.token = work[r].token
        /\ x.user \in Users /\ x.era \in Int /\ x.era <= era[x.user] /\ Written(x)
    BY <2>2, <2>3 DEF Receipt, Standing, Written
  <2>5. \A y \in spent : y.token # work[r].token
    BY <1>2 DEF Sessions, Spendings, Kept
  <2>6. spent' = spent \cup {x}
    BY <1>6, <2>2
  <2>7. \A y \in spent' :
           \/ y \in spent /\ y.token # work[r].token
           \/ /\ y.refused /\ y.code[1] = "recovery" /\ y.token = work[r].token
              /\ y.user \in Users /\ y.era \in Int /\ y.era <= era[y.user] /\ Written(y)
    BY <2>4, <2>5, <2>6
  <2>8. Core'
    BY <1>2, <2>1, CoreEnds
  <2> QED BY <1>2, <1>6, <2>1, <2>7, <2>8, RefuseKeeps DEF Core
<1>7. CASE Cancel(r) /\ Done(r) /\ UNCHANGED <<tokens, spent>>
  <2>1. Grows /\ Ends(r)
    BY <1>1, <1>7, NothingMade, SlotEnds DEF Core, twoStep
  <2> QED BY <1>1, <1>2, <1>7, <2>1, CoreEnds, CancelKeeps DEF Core
<1> QED BY <1>4, <1>5, <1>6, <1>7 DEF ConfirmRedeem

\* A new password ends every session of the user.
LEMMA ConfirmRevokeCore ==
    ASSUME Core, Sessions, CodeTypes, TokenTypes, NEW r \in Slots, ConfirmRevoke(r)
    PROVE  Core' /\ Sessions'
<1>1. /\ Is(r, "confirm", "revoke") /\ RevokeAll(work[r].user) /\ Done(r)
      /\ UNCHANGED <<guard, twoStep, tokens, spent, requests>>
  BY DEF ConfirmRevoke
<1>2. Grows
  BY <1>1, NothingMade DEF twoStep
<1>3. Ends(r) /\ ~Held(work[r]) /\ work[r].op = "confirm"
  BY <1>1, SlotEnds DEF Core, Is, Held
<1> QED BY <1>1, <1>2, <1>3, CoreEnds, RevokeKeeps DEF Core

\* The session of a recovery is disclosed, or its request is refused.
LEMMA ConfirmCommitCore ==
    ASSUME Core, Sessions, CodeTypes, TokenTypes, NEW r \in Slots, ConfirmCommit(r)
    PROVE  Core' /\ Sessions'
<1>1. /\ Is(r, "confirm", "commit") /\ Done(r)
      /\ UNCHANGED <<guard, twoStep, tokens, requests>>
  BY DEF ConfirmCommit
<1>2. Grows
  BY <1>1, NothingMade DEF twoStep
<1>3. Ends(r)
  BY <1>1, SlotEnds DEF Core
<1>4. CASE Commit(r) /\ UNCHANGED spent
  BY <1>1, <1>2, <1>3, <1>4, CoreEnds, CommitKeeps DEF Core, Is
<1>5. CASE Cancel(r) /\ spent' = RefusedNow(r)
  <2>1. work[r].op = "confirm"
    BY <1>1 DEF Is
  <2>2. ASSUME NEW x \in spent
        PROVE  /\ Written(x) /\ x.user \in Users /\ x.era \in Int /\ x.era <= era[x.user]
               /\ x.token = work[r].token => x.code[1] = "recovery"
    BY <2>1 DEF Sessions, Spendings, Kept
  <2>3. ASSUME NEW x \in spent, x.token = work[r].token, NEW y, y = [x EXCEPT !.refused = TRUE]
        PROVE  /\ y.refused /\ y.code[1] = "recovery" /\ y.token = work[r].token
               /\ y.user \in Users /\ y.era \in Int /\ y.era <= era[y.user] /\ Written(y)
    <3>1. PICK c, u, t, e, f : c = x.code /\ u = x.user /\ t = x.token /\ e = x.era
                              /\ f = x.refused
      OBVIOUS
    <3>2. x = [code |-> c, user |-> u, token |-> t, era |-> e, refused |-> f]
      BY <2>2, <3>1 DEF Written
    <3>3. y = [code |-> c, user |-> u, token |-> t, era |-> e, refused |-> TRUE]
      BY <2>3, <3>2
    <3>4. y.refused /\ y.code = c /\ y.user = u /\ y.token = t /\ y.era = e /\ Written(y)
      BY <3>3 DEF Written
    <3> QED BY <2>2, <2>3, <3>1, <3>4
  <2>4. ASSUME NEW y \in spent'
        PROVE  \/ y \in spent /\ y.token # work[r].token
               \/ /\ y.refused /\ y.code[1] = "recovery" /\ y.token = work[r].token
                  /\ y.user \in Users /\ y.era \in Int /\ y.era <= era[y.user] /\ Written(y)
    <3>1. PICK x \in spent :
             y = IF x.token = work[r].token THEN [x EXCEPT !.refused = TRUE] ELSE x
      BY <1>5 DEF RefusedNow
    <3> QED BY <2>3, <3>1
  <2> QED BY <1>2, <1>3, <1>5, <2>1, <2>4, CoreEnds, RefuseKeeps DEF Core
<1> QED BY <1>4, <1>5 DEF ConfirmCommit

\* Every step keeps the slots and the session table.
LEMMA CoreNext ==
    ASSUME Core, Sessions, CodeTypes, Numbered, TokenTypes, [Next]_vars
    PROVE  Core' /\ Sessions'
<1>1. ASSUME NEW r \in Slots, Login(r) PROVE Core' /\ Sessions'
  BY <1>1, LoginBeginCore, LoginPasswordCore, LoginReserveCore, LoginTotpCore,
     LoginNoCodeCore, LoginBackupCore, LoginBackupUseCore, LoginCommitCore DEF Login
<1>2. ASSUME NEW r \in Slots, Recovery(r) PROVE Core' /\ Sessions'
  BY <1>2, AskBeginCore, AskHashCore, AskSendCore, ConfirmBeginCore, ConfirmTakeCore,
     ConfirmReserveCore, ConfirmRedeemCore, ConfirmRevokeCore, ConfirmCommitCore DEF Recovery
<1>3. ASSUME NEW r \in Slots, Change(r) PROVE Core' /\ Sessions'
  BY <1>3, ChangeBeginCore, ChangeReplaceCore, ChangeCommitCore DEF Change
<1>4. ASSUME NEW u \in Users, Enable(u) \/ Disable(u) PROVE Core' /\ Sessions'
  <2>1. UNCHANGED <<sessions, guard, tokens, spent, work, requests>>
    BY <1>4 DEF Enable, Disable
  <2>2. secrets' = secrets + 1 \/ secrets' = secrets
    BY <1>4 DEF Enable, Disable
  <2>3. Grows
    BY <2>1, <2>2 DEF Grows, Core, WorkTypes, CodeTypes, TokenTypes
  <2> QED BY <2>1, <2>3, CoreStill, StillKeeps DEF Core
<1>5. ASSUME NEW k \in Keys, CooldownEnds(k) PROVE Core' /\ Sessions'
  <2>1. UNCHANGED <<sessions, twoStep, tokens, spent, work, requests>>
    BY <1>5 DEF CooldownEnds
  <2>2. Grows
    BY <2>1, NothingMade DEF twoStep
  <2> QED BY <2>1, <2>2, CoreStill, StillKeeps DEF Core
<1>6. CASE Leave \/ Others
  <2>1. UNCHANGED <<twoStep, tokens, work, requests>>
    BY <1>6 DEF Leave, Others
  <2>2. Grows
    BY <2>1, NothingMade DEF twoStep
  <2> QED BY <1>6, <2>1, <2>2, CoreStill, LeaveKeeps, OthersKeep DEF Core
<1>7. CASE UNCHANGED vars
  <2>1. UNCHANGED <<sessions, twoStep, tokens, spent, work, requests>>
    BY <1>7 DEF vars
  <2>2. Grows
    BY <2>1, NothingMade DEF twoStep
  <2> QED BY <2>1, <2>2, CoreStill, StillKeeps DEF Core
<1> QED BY <1>1, <1>2, <1>3, <1>4, <1>5, <1>6, <1>7 DEF Next

-----------------------------------------------------------------------------
(* The sign-in guard. *)

\* The keys of a user's attempt.
LEMMA KeysOfUser ==
    ASSUME NEW u \in Users
    PROVE  /\ u \in Keys /\ Source \in Keys /\ u # Source
           /\ \A v \in Users : v \in KeysOf(u) <=> v = u
           /\ Source \in KeysOf(u) /\ KeysOf(u) \subseteq Keys
BY KeysAssumption DEF Keys, KeysOf

\* Every attempt counts on the key of the host.
LEMMA LoginsFinite ==
    ASSUME Guard, NEW k
    PROVE  IsFiniteSet(LoginsOf(k)) /\ Cardinality(LoginsOf(k)) \in Nat
<1>1. LoginsOf(k) \subseteq LoginsOf(Source) /\ IsFiniteSet(LoginsOf(Source))
  BY DEF Guard, GuardLimits, LoginsOf, KeysOf
<1>2. IsFiniteSet(LoginsOf(k))
  BY <1>1, FS_Subset
<1> QED BY <1>2, FS_CardinalityType

\* A failure more, counted to the limit.
LEMMA OneMoreFailure ==
    ASSUME NEW n \in Nat, NEW m \in Nat, n < m
    PROVE  (n + 1) % m \in Nat /\ (n + 1) % m <= n + 1
OBVIOUS

\* A step in which no login begins or ends.
LEMMA GuardQuiet ==
    ASSUME Guard, UNCHANGED guard,
           \A o \in Slots : /\ work'[o].op = "login" <=> work[o].op = "login"
                            /\ work[o].op = "login" => work'[o].user = work[o].user
    PROVE  Guard'
<1>1. /\ fails' = fails /\ pending' = pending /\ cooling' = cooling /\ active' = active
      /\ accounts' = accounts
  BY DEF guard
<1>2. \A k : LoginsOf(k)' = LoginsOf(k)
  BY DEF LoginsOf, KeysOf
<1> QED BY <1>1, <1>2 DEF Guard, GuardTypes, GuardBalanced, GuardLimits

\* A request goes on.
LEMMA GuardGoes ==
    ASSUME Guard, UNCHANGED guard, NEW r \in Slots, Goes(r)
    PROVE  Guard'
BY GuardQuiet DEF Goes, Slotwise

\* A cooldown goes by.
LEMMA GuardCools ==
    ASSUME Guard, NEW k \in Keys, CooldownEnds(k)
    PROVE  Guard'
<1>1. /\ fails' = fails /\ pending' = pending /\ active' = active
      /\ accounts' = accounts /\ work' = work /\ cooling' \in [Keys -> BOOLEAN]
  BY DEF CooldownEnds, Guard, GuardTypes
<1>2. \A j : LoginsOf(j)' = LoginsOf(j)
  BY <1>1 DEF LoginsOf, KeysOf
<1> QED BY <1>1, <1>2 DEF Guard, GuardTypes, GuardBalanced, GuardLimits

\* An attempt is admitted.
LEMMA GuardEnters ==
    ASSUME Guard, NEW r \in Slots, NEW u \in Users, Begins(r), Admitted(u), Enter(u),
           work'[r].op = "login", work'[r].user = u
    PROVE  Guard'
<1>1. /\ fails \in [Keys -> Nat] /\ pending \in [Keys -> Int] /\ cooling \in [Keys -> BOOLEAN]
      /\ active \in Int /\ accounts \in [Users -> Int]
  BY DEF Guard, GuardTypes
<1>2. /\ fails' = fails /\ cooling' = cooling /\ active' = active + 1
      /\ accounts' = [accounts EXCEPT ![u] = @ + 1]
      /\ pending' = [k \in Keys |-> IF k \in KeysOf(u) THEN pending[k] + 1 ELSE pending[k]]
  BY DEF Enter
<1>3. GuardTypes'
  BY <1>1, <1>2 DEF GuardTypes
<1>4. work[r].op = "free" /\ \A o \in Slots : o # r => work'[o] = work[o]
  BY FreeType DEF Begins, Slotwise
<1>5. ASSUME NEW k \in Keys
      PROVE  /\ k \in KeysOf(u) => /\ Cardinality(LoginsOf(k)') = Cardinality(LoginsOf(k)) + 1
                                   /\ IsFiniteSet(LoginsOf(k)')
             /\ k \notin KeysOf(u) => LoginsOf(k)' = LoginsOf(k)
  <2>1. k \in KeysOf(u) => LoginsOf(k)' = LoginsOf(k) \cup {r}
    BY <1>4 DEF LoginsOf, KeysOf
  <2>2. k \notin KeysOf(u) => LoginsOf(k)' = LoginsOf(k)
    BY <1>4 DEF LoginsOf, KeysOf
  <2>3. r \notin LoginsOf(k)
    BY <1>4 DEF LoginsOf
  <2> QED BY <2>1, <2>2, <2>3, LoginsFinite, FS_AddElement
<1>6. \A k \in Keys : pending[k] = Cardinality(LoginsOf(k))
  BY DEF Guard, GuardBalanced
<1>7. \A k \in Keys : pending'[k] = Cardinality(LoginsOf(k)')
  BY <1>1, <1>2, <1>5, <1>6
<1>8. active' = Cardinality(LoginsOf(Source)') /\ IsFiniteSet(LoginsOf(Source)')
  <2>1. active = Cardinality(LoginsOf(Source))
    BY DEF Guard, GuardBalanced
  <2> QED BY <2>1, <1>2, <1>5, KeysOfUser
<1>9. ASSUME NEW v \in Users PROVE accounts'[v] = pending'[v] /\ accounts'[v] <= AccountLimit
  <2>1. accounts[v] = pending[v] /\ accounts[v] <= AccountLimit /\ v \in Keys
    BY KeysOfUser DEF Guard, GuardBalanced, GuardLimits
  <2>2. accounts[u] < AccountLimit /\ AccountLimit \in Nat
    BY LimitsAssumption DEF Admitted
  <2>3. v \in KeysOf(u) <=> v = u
    BY KeysOfUser
  <2>4. pending'[v] = IF v = u THEN pending[v] + 1 ELSE pending[v]
    BY <1>2, <2>1, <2>3
  <2>5. accounts'[v] = IF v = u THEN accounts[v] + 1 ELSE accounts[v]
    BY <1>1, <1>2
  <2>6. accounts[v] \in Int
    BY <1>1
  <2> QED BY <2>1, <2>2, <2>4, <2>5, <2>6
<1>10. ASSUME NEW k \in Keys PROVE fails'[k] + pending'[k] <= FailureLimit
  <2>1. fails[k] + pending[k] <= FailureLimit /\ fails[k] \in Nat /\ pending[k] \in Int
    BY <1>1 DEF Guard, GuardBalanced
  <2>2. FailureLimit \in Nat
    BY LimitsAssumption
  <2>3. CASE k \in KeysOf(u)
    <3>1. fails[k] + pending[k] < FailureLimit
      BY <2>3 DEF Admitted
    <3>2. fails'[k] = fails[k] /\ pending'[k] = pending[k] + 1
      BY <1>2, <2>3
    <3> QED BY <2>1, <2>2, <3>1, <3>2
  <2>4. CASE k \notin KeysOf(u)
    BY <1>2, <2>1, <2>4
  <2> QED BY <2>3, <2>4
<1>11. active' <= HashLimit
  <2>1. active < HashLimit /\ HashLimit \in Nat
    BY LimitsAssumption DEF Admitted
  <2> QED BY <1>1, <1>2, <2>1
<1> QED BY <1>3, <1>7, <1>8, <1>9, <1>10, <1>11 DEF Guard, GuardBalanced, GuardLimits

\* An attempt is over, on whatever way out.
LEMMA GuardFinishes ==
    ASSUME Guard, NEW r \in Slots, NEW u \in Users, NEW valid \in BOOLEAN, Ends(r),
           Finish(u, valid), work[r].op = "login", work[r].user = u
    PROVE  Guard'
<1>1. /\ fails \in [Keys -> Nat] /\ pending \in [Keys -> Int] /\ cooling \in [Keys -> BOOLEAN]
      /\ active \in Int /\ accounts \in [Users -> Int]
  BY DEF Guard, GuardTypes
<1>2. /\ active' = active - 1
      /\ accounts' = [accounts EXCEPT ![u] = @ - 1]
      /\ pending' = [k \in Keys |-> IF k \in KeysOf(u) THEN pending[k] - 1 ELSE pending[k]]
      /\ fails' = [k \in Keys |-> fails'[k]]
      /\ cooling' = [k \in Keys |-> cooling[k] \/
            (k \in KeysOf(u) /\ ~valid /\ fails[k] + 1 >= FailureLimit)]
      /\ \A k \in Keys :
            \/ fails'[k] = fails[k]
            \/ k \in KeysOf(u) /\ fails'[k] = 0
            \/ k \in KeysOf(u) /\ fails'[k] = (fails[k] + 1) % FailureLimit
  BY DEF Finish
<1>3. work'[r].op = "free" /\ \A o \in Slots : o # r => work'[o] = work[o]
  BY FreeType DEF Ends, Slotwise
<1>4. ASSUME NEW k \in Keys
      PROVE  /\ k \in KeysOf(u) => /\ Cardinality(LoginsOf(k)') = Cardinality(LoginsOf(k)) - 1
                                   /\ IsFiniteSet(LoginsOf(k)')
                                   /\ Cardinality(LoginsOf(k)) >= 1
             /\ k \notin KeysOf(u) => LoginsOf(k)' = LoginsOf(k)
  <2>1. k \in KeysOf(u) => LoginsOf(k)' = LoginsOf(k) \ {r} /\ r \in LoginsOf(k)
    BY <1>3 DEF LoginsOf, KeysOf
  <2>2. k \notin KeysOf(u) => LoginsOf(k)' = LoginsOf(k)
    BY <1>3 DEF LoginsOf, KeysOf
  <2>3. ASSUME k \in KeysOf(u)
        PROVE  /\ Cardinality(LoginsOf(k)') = Cardinality(LoginsOf(k)) - 1
               /\ IsFiniteSet(LoginsOf(k)')
    BY <2>1, <2>3, LoginsFinite, FS_RemoveElement
  <2>4. ASSUME k \in KeysOf(u) PROVE Cardinality(LoginsOf(k)) >= 1
    <3>1. Cardinality(LoginsOf(k)') \in Nat /\ Cardinality(LoginsOf(k)) \in Nat
      BY <2>3, <2>4, LoginsFinite, FS_CardinalityType
    <3> QED BY <2>3, <2>4, <3>1
  <2> QED BY <2>2, <2>3, <2>4
<1>5. \A k \in Keys : pending[k] = Cardinality(LoginsOf(k))
  BY DEF Guard, GuardBalanced
<1>6. \A k \in Keys : pending'[k] = Cardinality(LoginsOf(k)')
  BY <1>1, <1>2, <1>4, <1>5
<1>7. active' = Cardinality(LoginsOf(Source)') /\ IsFiniteSet(LoginsOf(Source)')
  <2>1. active = Cardinality(LoginsOf(Source))
    BY DEF Guard, GuardBalanced
  <2> QED BY <2>1, <1>2, <1>4, KeysOfUser
<1>8. ASSUME NEW v \in Users PROVE accounts'[v] = pending'[v] /\ accounts'[v] <= AccountLimit
  <2>1. accounts[v] = pending[v] /\ accounts[v] <= AccountLimit /\ v \in Keys
    BY KeysOfUser DEF Guard, GuardBalanced, GuardLimits
  <2>2. v \in KeysOf(u) <=> v = u
    BY KeysOfUser
  <2>3. pending'[v] = IF v = u THEN pending[v] - 1 ELSE pending[v]
    BY <1>2, <2>1, <2>2
  <2>4. accounts'[v] = IF v = u THEN accounts[v] - 1 ELSE accounts[v]
    BY <1>1, <1>2
  <2>5. accounts[v] \in Int /\ AccountLimit \in Nat
    BY <1>1, LimitsAssumption
  <2> QED BY <2>1, <2>3, <2>4, <2>5
<1>9. ASSUME NEW k \in Keys PROVE fails'[k] \in Nat /\ fails'[k] + pending'[k] <= FailureLimit
  <2>1. fails[k] + pending[k] <= FailureLimit /\ fails[k] \in Nat /\ pending[k] \in Int
    BY <1>1 DEF Guard, GuardBalanced
  <2>2. FailureLimit \in Nat
    BY LimitsAssumption
  <2>3. CASE k \in KeysOf(u)
    <3>1. pending[k] >= 1 /\ pending'[k] = pending[k] - 1
      BY <1>2, <1>4, <1>5, <2>3
    <3>2. fails[k] < FailureLimit
      BY <2>1, <2>2, <3>1
    <3>3. (fails[k] + 1) % FailureLimit \in Nat /\ (fails[k] + 1) % FailureLimit <= fails[k] + 1
      BY <2>1, <2>2, <3>2, OneMoreFailure
    <3>4. fails'[k] \in Nat /\ fails'[k] <= fails[k] + 1
      BY <1>2, <2>1, <3>3
    <3> QED BY <2>1, <2>2, <3>1, <3>4
  <2>4. CASE k \notin KeysOf(u)
    BY <1>2, <2>1, <2>4
  <2> QED BY <2>3, <2>4
<1>10. GuardTypes'
  BY <1>1, <1>2, <1>9 DEF GuardTypes
<1>11. active' <= HashLimit
  <2>1. active <= HashLimit /\ HashLimit \in Nat
    BY LimitsAssumption DEF Guard, GuardLimits
  <2> QED BY <1>1, <1>2, <2>1
<1> QED BY <1>6, <1>7, <1>8, <1>9, <1>10, <1>11 DEF Guard, GuardBalanced, GuardLimits

\* A request other than a sign-in starts, goes on, or is over.
LEMMA GuardGoto ==
    ASSUME Guard, WorkTypes, UNCHANGED guard, NEW r \in Slots, NEW stage, Goto(r, stage)
    PROVE  Guard'
<1>1. \A o \in Slots : work[o] \in WorkType
  BY DEF WorkTypes
<1>2. \A o \in Slots : work'[o].op = work[o].op /\ work'[o].user = work[o].user
  BY <1>1 DEF Goto, WorkTypes, WorkType
<1> QED BY <1>2, GuardQuiet

LEMMA GuardDone ==
    ASSUME Guard, WorkTypes, UNCHANGED guard, NEW r \in Slots, Done(r), work[r].op # "login"
    PROVE  Guard'
<1>1. work'[r] = Free /\ \A o \in Slots : o # r => work'[o] = work[o]
  BY DEF Done, WorkTypes
<1> QED BY <1>1, GuardQuiet, FreeType

LEMMA GuardBegin ==
    ASSUME Guard, WorkTypes, UNCHANGED guard, NEW r \in Slots, NEW w, Begin(r, w),
           w.op # "login"
    PROVE  Guard'
<1>1. work'[r] = w /\ work[r] = Free /\ \A o \in Slots : o # r => work'[o] = work[o]
  BY DEF Begin, WorkTypes
<1> QED BY <1>1, GuardQuiet, FreeType

\* A sign-in is over.
LEMMA GuardDrops ==
    ASSUME Guard, Core, NEW r \in Slots, NEW valid \in BOOLEAN, Done(r),
           Finish(work[r].user, valid), UNCHANGED requests, work[r].op = "login"
    PROVE  Guard'
<1>1. Ends(r)
  BY SlotEnds DEF Core
<1>2. PICK u \in Users : u = work[r].user
  BY DEF Core, Shapes, Shaped, Fits
<1> QED BY <1>1, <1>2, GuardFinishes

\* Steps of a sign-in, of recovery and of a change, for the guard.
LEMMA GuardLogin ==
    ASSUME Guard, Core, NEW r \in Slots, Login(r)
    PROVE  Guard'
<1>a. WorkTypes
  BY DEF Core
<1>1. ASSUME NEW u \in Users, LoginBegin(r, u) PROVE Guard'
  <2>1. PICK w : w = [Free EXCEPT !.op = "login", !.at = "password", !.user = u,
                                  !.token = requests + 1]
    OBVIOUS
  <2>2. w = Fresh("login", "password", u, requests + 1, 0, "none")
    BY <2>1 DEF Free, Fresh
  <2>3. /\ w \in WorkType /\ w.op = "login" /\ w.at = "password" /\ w.user = u
        /\ w.token = requests + 1
    BY <2>2, FreshType, <1>a DEF WorkTypes, Ops, Stages
  <2>4. Begin(r, w) /\ Admitted(u) /\ Enter(u)
    BY <1>1, <2>1 DEF LoginBegin
  <2>5. Begins(r) /\ work'[r] = w
    BY <1>a, <2>3, <2>4, SlotBegins DEF Held, Settled
  <2> QED BY <2>3, <2>4, <2>5, GuardEnters
<1>2. CASE LoginPassword(r)
  <2>1. Is(r, "login", "password") /\ UNCHANGED requests
    BY <1>2 DEF LoginPassword
  <2>2. CASE Done(r) /\ Finish(work[r].user, FALSE)
    BY <2>1, <2>2, GuardDrops DEF Is
  <2>3. CASE /\ work' = [work EXCEPT ![r].at = "reserve", ![r].secret = secret[work[r].user]]
             /\ UNCHANGED guard
    <3>1. \A o \in Slots : work'[o].op = work[o].op /\ work'[o].user = work[o].user
      BY <1>a, <2>3 DEF WorkTypes, WorkType
    <3> QED BY <2>3, <3>1, GuardQuiet
  <2> QED BY <1>2, <2>2, <2>3 DEF LoginPassword
<1>3. CASE LoginReserve(r)
  <2>1. Is(r, "login", "reserve") /\ UNCHANGED requests
    BY <1>3 DEF LoginReserve
  <2>2. CASE Done(r) /\ Finish(work[r].user, TRUE)
    BY <2>1, <2>2, GuardDrops DEF Is
  <2>3. CASE Goto(r, IF work[r].secret = 0 THEN "commit" ELSE "code") /\ UNCHANGED guard
    BY <1>a, <2>3, GuardGoto
  <2> QED BY <1>3, <2>2, <2>3 DEF LoginReserve
<1>4. ASSUME NEW valid \in BOOLEAN, LoginFails(r, valid), UNCHANGED requests,
             work[r].op = "login"
      PROVE  Guard'
  BY <1>4, GuardDrops DEF LoginFails
<1>5. CASE LoginTotp(r)
  <2>1. Is(r, "login", "code") /\ UNCHANGED requests
    BY <1>5 DEF LoginTotp
  <2>2. (Goto(r, "commit") /\ UNCHANGED guard) \/ LoginFails(r, FALSE)
    BY <1>5 DEF LoginTotp
  <2> QED BY <1>a, <1>4, <2>1, <2>2, GuardGoto DEF Is
<1>6. CASE LoginNoCode(r)
  BY <1>4, <1>6 DEF LoginNoCode, Is
<1>7. CASE LoginBackup(r)
  <2>1. UNCHANGED guard
    BY <1>7 DEF LoginBackup
  <2>2. PICK b \in backups[work[r].user] :
           work' = [work EXCEPT ![r].at = "backup", ![r].secret = secret[work[r].user],
                                ![r].code = b]
    BY <1>7 DEF LoginBackup
  <2>3. \A o \in Slots : work'[o].op = work[o].op /\ work'[o].user = work[o].user
    BY <1>a, <2>2 DEF WorkTypes, WorkType
  <2> QED BY <2>1, <2>3, GuardQuiet
<1>8. CASE LoginBackupUse(r)
  <2>1. Is(r, "login", "backup") /\ UNCHANGED requests
    BY <1>8 DEF LoginBackupUse
  <2>2. (Goto(r, "commit") /\ UNCHANGED guard) \/ LoginFails(r, FALSE)
    BY <1>8 DEF LoginBackupUse
  <2> QED BY <1>a, <1>4, <2>1, <2>2, GuardGoto DEF Is
<1>9. CASE LoginCommit(r)
  <2>1. /\ work[r].op = "login" /\ Finish(work[r].user, TRUE) /\ Done(r)
        /\ UNCHANGED requests
    BY <1>9 DEF LoginCommit, Is
  <2> QED BY <2>1, GuardDrops
<1> QED BY <1>1, <1>2, <1>3, <1>5, <1>6, <1>7, <1>8, <1>9 DEF Login

LEMMA GuardRecovery ==
    ASSUME Guard, Core, CodeTypes, TokenTypes, NEW r \in Slots, Recovery(r)
    PROVE  Guard'
<1>a. WorkTypes
  BY DEF Core
<1>1. ASSUME NEW u \in Users, NEW p \in Purposes, AskBegin(r, u, p) PROVE Guard'
  <2>1. PICK w : w = [Free EXCEPT !.op = "ask", !.at = "hash", !.user = u, !.purpose = p,
                                  !.code = Len(tokens) + 1]
    OBVIOUS
  <2>2. w.op = "ask" /\ Begin(r, w) /\ UNCHANGED guard
    BY <1>1, <2>1 DEF AskBegin, Free
  <2> QED BY <1>a, <2>2, GuardBegin
<1>2. CASE AskHash(r)
  <2>1. work[r].op = "ask" /\ UNCHANGED guard /\ (Goto(r, "send") \/ Done(r))
    BY <1>2 DEF AskHash, Is
  <2> QED BY <1>a, <2>1, GuardGoto, GuardDone
<1>3. CASE AskSend(r)
  <2>1. work[r].op = "ask" /\ UNCHANGED guard /\ Done(r)
    BY <1>3 DEF AskSend, Is
  <2> QED BY <1>a, <2>1, GuardDone
<1>4. ASSUME NEW n, ConfirmBegin(r, n) PROVE Guard'
  <2>1. PICK w : w = [Free EXCEPT !.op = "confirm", !.at = "take", !.code = n,
                             !.user = tokens[n].user, !.purpose = tokens[n].purpose,
                             !.token = requests + 1]
    OBVIOUS
  <2>2. w.op = "confirm"
    BY <2>1 DEF Free
  <2>3. Begin(r, w) /\ UNCHANGED guard
    BY <1>4, <2>1 DEF ConfirmBegin
  <2> QED BY <1>a, <2>2, <2>3, GuardBegin
<1>5. CASE ConfirmTake(r)
  <2>1. work[r].op = "confirm" /\ UNCHANGED guard
    BY <1>5 DEF ConfirmTake, Is
  <2>2. Done(r) \/ Goes(r) \/ UNCHANGED work
    BY <1>5, ConfirmTakes
  <2> QED BY <1>a, <2>1, <2>2, GuardDone, GuardGoes, GuardQuiet
<1>6. CASE ConfirmReserve(r)
  <2>1. work[r].op = "confirm" /\ UNCHANGED guard /\ (Goto(r, "redeem") \/ Done(r))
    BY <1>6 DEF ConfirmReserve, Is
  <2> QED BY <1>a, <2>1, GuardGoto, GuardDone
<1>7. CASE ConfirmRedeem(r)
  <2>1. /\ UNCHANGED guard
        /\ \/ Goto(r, IF work[r].purpose = "bypass" THEN "commit" ELSE "revoke")
           \/ Goto(r, "take")
           \/ Done(r)
        /\ work[r].op = "confirm"
    BY <1>7 DEF ConfirmRedeem, Is
  <2> QED BY <1>a, <2>1, GuardGoto, GuardDone
<1>8. CASE ConfirmRevoke(r) \/ ConfirmCommit(r)
  <2>1. work[r].op = "confirm" /\ UNCHANGED guard /\ Done(r)
    BY <1>8 DEF ConfirmRevoke, ConfirmCommit, Is
  <2> QED BY <1>a, <2>1, GuardDone
<1> QED BY <1>1, <1>2, <1>3, <1>4, <1>5, <1>6, <1>7, <1>8 DEF Recovery

LEMMA GuardChange ==
    ASSUME Guard, Core, NEW r \in Slots, Change(r)
    PROVE  Guard'
<1>a. WorkTypes
  BY DEF Core
<1>1. ASSUME NEW u \in Users, ChangeBegin(r, u) PROVE Guard'
  <2>1. PICK w : w = [Free EXCEPT !.op = "change", !.at = "replace", !.user = u,
                                  !.token = requests + 1]
    OBVIOUS
  <2>2. w.op = "change" /\ Begin(r, w) /\ UNCHANGED guard
    BY <1>1, <2>1 DEF ChangeBegin, Free
  <2> QED BY <1>a, <2>2, GuardBegin
<1>2. CASE ChangeReplace(r)
  <2>1. work[r].op = "change" /\ UNCHANGED guard /\ (Goto(r, "commit") \/ Done(r))
    BY <1>2 DEF ChangeReplace, Is
  <2> QED BY <1>a, <2>1, GuardGoto, GuardDone
<1>3. CASE ChangeCommit(r)
  <2>1. work[r].op = "change" /\ UNCHANGED guard /\ Done(r)
    BY <1>3 DEF ChangeCommit, Is
  <2> QED BY <1>a, <2>1, GuardDone
<1> QED BY <1>1, <1>2, <1>3 DEF Change

\* Every step keeps the sign-in guard.
LEMMA GuardNext ==
    ASSUME Guard, Core, CodeTypes, TokenTypes, [Next]_vars
    PROVE  Guard'
<1>1. ASSUME NEW r \in Slots, Login(r) \/ Recovery(r) \/ Change(r) PROVE Guard'
  BY <1>1, GuardLogin, GuardRecovery, GuardChange
<1>2. ASSUME NEW k \in Keys, CooldownEnds(k) PROVE Guard'
  BY <1>2, GuardCools
<1>3. ASSUME UNCHANGED <<guard, work>> PROVE Guard'
  BY <1>3, GuardQuiet
<1>4. ASSUME NEW u \in Users, Enable(u) \/ Disable(u) PROVE Guard'
  <2>1. UNCHANGED <<guard, work>>
    BY <1>4 DEF Enable, Disable
  <2> QED BY <1>3, <2>1
<1>5. CASE Leave \/ Others
  <2>1. UNCHANGED <<guard, work>>
    BY <1>5 DEF Leave, Others
  <2> QED BY <1>3, <2>1
<1>6. CASE UNCHANGED vars
  <2>1. UNCHANGED <<guard, work>>
    BY <1>6 DEF vars
  <2> QED BY <1>3, <2>1
<1> QED BY <1>1, <1>2, <1>4, <1>5, <1>6 DEF Next

-----------------------------------------------------------------------------
(* The codes. *)

\* An authenticator once replaced does not come back, and while it is there the
\* clock of its codes runs on, its backup codes are only used up, and a recovery
\* code that is used stays used.
Ages ==
    /\ secrets \in Nat /\ secrets' \in Nat /\ secrets <= secrets'
    /\ \A u \in Users :
          \/ /\ secret'[u] = secret[u] /\ last'[u] >= last[u]
             /\ backups'[u] \subseteq backups[u]
          \/ secret'[u] \notin 1..secrets
    /\ Len(tokens) \in Nat /\ Len(tokens') \in Nat /\ Len(tokens) <= Len(tokens')
    /\ \A k \in 1..Len(tokens) : tokens[k].used => tokens'[k].used

\* A code that is used up stays so.
LEMMA DeadStays ==
    ASSUME CodeTypes, CodeTypes', Ages, NEW c, Dead(c)
    PROVE  Dead(c)'
<1>1. c[2] \in Users
  BY DEF Dead
<1>2. CASE c[1] = "totp" /\ c[3] \in 1..secrets /\ c[4] \in Nat /\
           (c[3] = secret[c[2]] => c[4] <= last[c[2]])
  <2>1. c[3] \in 1..secrets'
    BY <1>2 DEF Ages
  <2>2. ASSUME c[3] = secret'[c[2]] PROVE c[4] <= last'[c[2]]
    <3>1. secret'[c[2]] = secret[c[2]] /\ last'[c[2]] >= last[c[2]]
      BY <1>1, <1>2, <2>2 DEF Ages
    <3>2. last[c[2]] \in Nat /\ last'[c[2]] \in Nat
      BY <1>1 DEF CodeTypes
    <3> QED BY <1>2, <2>2, <3>1, <3>2
  <2> QED BY <1>1, <1>2, <2>1, <2>2 DEF Dead
<1>3. CASE c[1] = "backup" /\ c[3] \in 1..secrets /\
           (c[3] = secret[c[2]] => c[4] \notin backups[c[2]])
  <2>1. c[3] \in 1..secrets'
    BY <1>3 DEF Ages
  <2>2. ASSUME c[3] = secret'[c[2]] PROVE c[4] \notin backups'[c[2]]
    <3>1. secret'[c[2]] = secret[c[2]] /\ backups'[c[2]] \subseteq backups[c[2]]
      BY <1>1, <1>3, <2>2 DEF Ages
    <3> QED BY <1>3, <2>2, <3>1
  <2> QED BY <1>1, <1>3, <2>1, <2>2 DEF Dead
<1>4. CASE c[1] = "recovery" /\ c[4] \in 1..Len(tokens) /\ tokens[c[4]].used
  <2>1. c[4] \in 1..Len(tokens') /\ tokens'[c[4]].used
    BY <1>4 DEF Ages
  <2> QED BY <1>1, <1>4, <2>1 DEF Dead
<1> QED BY <1>2, <1>3, <1>4 DEF Dead

\* No code is spent.
LEMMA SpentKept ==
    ASSUME CodeTypes, CodeTypes', Ages, SpentOnce, UNCHANGED spent
    PROVE  SpentOnce'
<1>1. \A x \in spent : Dead(x.code)'
  BY DeadStays DEF SpentOnce
<1> QED BY <1>1 DEF SpentOnce

\* A code that was alive and is dead now has opened one session.
LEMMA SpentMore ==
    ASSUME CodeTypes, CodeTypes', Ages, SpentOnce, NEW x, spent' = spent \cup {x},
           ~Dead(x.code), Dead(x.code)'
    PROVE  SpentOnce'
<1>1. \A y \in spent : Dead(y.code) /\ Dead(y.code)'
  BY DeadStays DEF SpentOnce
<1>2. \A y \in spent' : Dead(y.code)'
  BY <1>1
<1>3. \A y \in spent : y.code # x.code
  BY <1>1
<1>4. \A y, z \in spent' : y.code = z.code => y.token = z.token
  BY <1>3 DEF SpentOnce
<1> QED BY <1>2, <1>4 DEF SpentOnce

\* The message with this code is on its way.
Awaited(k) == \E o \in Slots : Is(o, "ask", "send") /\ work[o].code = k

\* A handler touches one code; the message of every other one is where it was.
LEMMA NewestKept ==
    ASSUME TokenTypes, NewestCodeOnly, Attempted, NEW n \in 1..Len(tokens), Touches(n),
           tokens'[n].attempts <= TokenAttempts,
           \A k \in 1..Len(tokens) : k # n /\ Awaited(k) => Awaited(k)',
           ~tokens'[n].used /\ tokens'[n].hashed => tokens'[n].mail # "none" \/ Awaited(n)'
    PROVE  NewestCodeOnly' /\ Attempted'
<1>1. /\ Len(tokens') = Len(tokens) /\ Len(tokens) \in Nat
      /\ \A k \in 1..Len(tokens) :
          /\ tokens'[k].user = tokens[k].user /\ tokens'[k].purpose = tokens[k].purpose
          /\ tokens[k].used => tokens'[k].used
          /\ k # n => tokens'[k] = tokens[k]
  BY DEF Touches, TokenTypes
<1>2. ASSUME NEW i \in 1..Len(tokens), ~tokens'[i].used,
             NEW k \in i + 1..Len(tokens)
      PROVE  ~(tokens'[k].user = tokens'[i].user /\ tokens'[k].purpose = tokens'[i].purpose)
  <2>1. k \in 1..Len(tokens) /\ ~tokens[i].used
    BY <1>1, <1>2
  <2>2. ~(tokens[k].user = tokens[i].user /\ tokens[k].purpose = tokens[i].purpose)
    BY <2>1, <1>2 DEF NewestCodeOnly, Unused, Same
  <2> QED BY <1>1, <2>1, <2>2
<1>3. ASSUME NEW i \in 1..Len(tokens), ~tokens'[i].used, tokens'[i].hashed
      PROVE  tokens'[i].mail # "none" \/ Awaited(i)'
  <2>1. CASE i = n
    BY <1>3, <2>1
  <2>2. CASE i # n
    <3>1. tokens'[i] = tokens[i]
      BY <1>1, <2>2
    <3>2. tokens[i].mail # "none" \/ Awaited(i)
      BY <1>3, <3>1 DEF NewestCodeOnly, Usable, Unused, Awaited
    <3> QED BY <2>2, <3>1, <3>2
  <2> QED BY <2>1, <2>2
<1>4. NewestCodeOnly'
  BY <1>1, <1>2, <1>3 DEF NewestCodeOnly, Usable, Unused, Same, Awaited
<1>5. Attempted'
  BY <1>1 DEF Attempted
<1> QED BY <1>4, <1>5

\* No code of the store changes and no message is on its way less.
LEMMA NewestStill ==
    ASSUME TokenTypes, NewestCodeOnly, Attempted, UNCHANGED tokens,
           \A k \in 1..Len(tokens) : Awaited(k) => Awaited(k)'
    PROVE  TokenTypes' /\ NewestCodeOnly' /\ Attempted'
<1>1. TokenTypes' /\ Attempted'
  BY DEF TokenTypes, Attempted
<1>2. \A n \in 1..Len(tokens) : Usable(n) => tokens[n].mail # "none" \/ Awaited(n)'
  BY DEF NewestCodeOnly, Awaited
<1>3. NewestCodeOnly'
  BY <1>2 DEF NewestCodeOnly, Usable, Unused, Same, Awaited
<1> QED BY <1>1, <1>3

\* One slot changes that sends no message.
LEMMA AwaitedStays ==
    ASSUME NEW r \in Slots, ~Is(r, "ask", "send"),
           \A o \in Slots : o # r => work'[o] = work[o], NEW k, Awaited(k)
    PROVE  Awaited(k)'
<1>1. PICK o \in Slots : Is(o, "ask", "send") /\ work[o].code = k
  BY DEF Awaited
<1>2. work'[o] = work[o]
  BY <1>1
<1> QED BY <1>1, <1>2 DEF Awaited, Is

\* A step of a request, or of nobody, that leaves every code as it is.
LEMMA CodesStill ==
    ASSUME Codes, UNCHANGED <<twoStep, tokens, spent>>,
           \A k \in 1..Len(tokens) : Awaited(k) => Awaited(k)'
    PROVE  Codes'
<1>1. /\ CodeTypes /\ TokenTypes /\ Numbered /\ SpentOnce /\ NewestCodeOnly /\ Attempted
      /\ secret' = secret /\ secrets' = secrets /\ last' = last /\ backups' = backups
      /\ tokens' = tokens /\ spent' = spent
  BY DEF Codes, twoStep
<1>2. CodeTypes' /\ Numbered'
  BY <1>1 DEF CodeTypes, Numbered
<1>3. Ages
  BY <1>1 DEF Ages, CodeTypes, TokenTypes
<1>4. SpentOnce'
  BY <1>1, <1>2, <1>3, SpentKept
<1>5. TokenTypes' /\ NewestCodeOnly' /\ Attempted'
  BY <1>1, NewestStill
<1> QED BY <1>2, <1>4, <1>5 DEF Codes

\* The same, for one slot that sends no message.
LEMMA CodesSlot ==
    ASSUME Codes, UNCHANGED <<twoStep, tokens, spent>>, NEW r \in Slots,
           ~Is(r, "ask", "send"), \A o \in Slots : o # r => work'[o] = work[o]
    PROVE  Codes'
BY CodesStill, AwaitedStays

\* A step leaves the other slots as they are.
LEMMA Elsewhere ==
    ASSUME WorkTypes, NEW r \in Slots, NEW stage, NEW w,
           Goto(r, stage) \/ Done(r) \/ Begin(r, w)
    PROVE  \A o \in Slots : o # r => work'[o] = work[o]
BY DEF WorkTypes, Goto, Done, Begin

\* Steps of a sign-in.
LEMMA CodesLoginBegin ==
    ASSUME Codes, Core, NEW r \in Slots, NEW u \in Users, LoginBegin(r, u)
    PROVE  Codes'
<1>1. PICK w : w = [Free EXCEPT !.op = "login", !.at = "password", !.user = u,
                                !.token = requests + 1]
  OBVIOUS
<1>2. Begin(r, w) /\ UNCHANGED <<twoStep, tokens, spent>>
  BY <1>1 DEF LoginBegin
<1>3. ~Is(r, "ask", "send")
  BY <1>2, FreeType DEF Begin, Is
<1> QED BY <1>2, <1>3, Elsewhere, CodesSlot DEF Core

LEMMA CodesLoginQuiet ==
    ASSUME Codes, Core, NEW r \in Slots,
           LoginPassword(r) \/ LoginReserve(r) \/ LoginNoCode(r) \/ LoginBackup(r) \/ LoginCommit(r)
    PROVE  Codes'
<1>1. ~Is(r, "ask", "send") /\ UNCHANGED <<twoStep, tokens, spent>>
  <2>1. LoginPassword(r) => ~Is(r, "ask", "send") /\ UNCHANGED <<twoStep, tokens, spent>>
    BY DEF LoginPassword, Is
  <2>2. LoginReserve(r) => ~Is(r, "ask", "send") /\ UNCHANGED <<twoStep, tokens, spent>>
    BY DEF LoginReserve, Is
  <2>3. LoginNoCode(r) => ~Is(r, "ask", "send") /\ UNCHANGED <<twoStep, tokens, spent>>
    BY DEF LoginNoCode, Is
  <2>4. LoginBackup(r) => ~Is(r, "ask", "send") /\ UNCHANGED <<twoStep, tokens, spent>>
    BY DEF LoginBackup, Is
  <2>5. LoginCommit(r) => ~Is(r, "ask", "send") /\ UNCHANGED <<twoStep, tokens, spent>>
    BY DEF LoginCommit, Is
  <2> QED BY <2>1, <2>2, <2>3, <2>4, <2>5
<1>2. \A o \in Slots : o # r => work'[o] = work[o]
  <2>1. \/ \E stage : Goto(r, stage)
        \/ Done(r)
        \/ work' = [work EXCEPT ![r].at = "reserve", ![r].secret = secret[work[r].user]]
        \/ \E b \in backups[work[r].user] :
              work' = [work EXCEPT ![r].at = "backup", ![r].secret = secret[work[r].user],
                                   ![r].code = b]
    BY DEF LoginPassword, LoginReserve, LoginNoCode, LoginFails, LoginBackup, LoginCommit
  <2> QED BY <2>1, Elsewhere DEF Core, WorkTypes
<1> QED BY <1>1, <1>2, CodesSlot

\* A code of the authenticator opens one session.
LEMMA CodesLoginTotp ==
    ASSUME Codes, Core, NEW r \in Slots, LoginTotp(r)
    PROVE  Codes'
<1>1. /\ CodeTypes /\ TokenTypes /\ Numbered /\ SpentOnce /\ NewestCodeOnly /\ Attempted
  BY DEF Codes
<1>2. /\ Is(r, "login", "code") /\ ~Is(r, "ask", "send")
      /\ secret' = secret /\ secrets' = secrets /\ backups' = backups /\ tokens' = tokens
  BY DEF LoginTotp, Is
<1>3. /\ work[r].user \in Users /\ work[r].secret # 0 /\ work[r].secret <= secrets
      /\ work[r].secret \in Nat
  BY <1>2 DEF Core, Shapes, Shaped, Fits, Is, WorkTypes, WorkType
<1>4. PICK u \in Users, n \in 1..secrets : u = work[r].user /\ n = work[r].secret
  BY <1>1, <1>3 DEF CodeTypes
<1>5. CASE LoginFails(r, FALSE) /\ UNCHANGED <<last, spent>>
  BY <1>2, <1>5, Elsewhere, CodesSlot DEF Core, LoginFails, twoStep
<1>6. ASSUME NEW k \in Steps, k > last[u], last' = [last EXCEPT ![u] = k],
             IF n = secret[u] THEN Spend(r, "totp", k, n) ELSE UNCHANGED spent,
             Goto(r, "commit")
      PROVE  Codes'
  <2>1. k \in Nat /\ last[u] \in Nat
    BY <1>1, LimitsAssumption DEF CodeTypes
  <2>2. CodeTypes' /\ Numbered'
    BY <1>1, <1>2, <1>6, <2>1 DEF CodeTypes, Numbered
  <2>3. last'[u] = k /\ \A v \in Users : last'[v] >= last[v]
    BY <1>1, <1>6, <2>1 DEF CodeTypes
  <2>4. Ages
    BY <1>1, <1>2, <2>3 DEF Ages, CodeTypes, TokenTypes
  <2>5. ASSUME n = secret[u], Spend(r, "totp", k, n) PROVE SpentOnce'
    <3>1. PICK x : x = [code |-> <<"totp", u, n, k>>, user |-> u,
                        token |-> work[r].token, era |-> Standing(r),
                        refused |-> FALSE]
      OBVIOUS
    <3>2. spent' = spent \cup {x}
      BY <1>4, <2>5, <3>1 DEF Spend, Receipt
    <3>3. x.code = <<"totp", u, n, k>>
      BY <3>1
    <3>4. ~(k <= last[u])
      BY <1>6, <2>1
    <3>5. ~Dead(x.code)
      BY <2>5, <3>3, <3>4 DEF Dead
    <3>6. n \in 1..secrets' /\ k <= last'[u]
      BY <1>2, <1>4, <2>1, <2>3
    <3>7. Dead(x.code)'
      BY <2>1, <3>3, <3>6 DEF Dead
    <3> QED BY <1>1, <2>2, <2>4, <3>2, <3>5, <3>7, SpentMore
  <2>6. ASSUME UNCHANGED spent PROVE SpentOnce'
    BY <1>1, <2>2, <2>4, <2>6, SpentKept
  <2>7. SpentOnce'
    BY <1>6, <2>5, <2>6
  <2>8. TokenTypes' /\ NewestCodeOnly' /\ Attempted'
    BY <1>1, <1>2, <1>6, Elsewhere, AwaitedStays, NewestStill DEF Core
  <2> QED BY <2>2, <2>7, <2>8 DEF Codes
<1>7. \/ LoginFails(r, FALSE) /\ UNCHANGED <<last, spent>>
      \/ \E k \in Steps : /\ k > last[u] /\ last' = [last EXCEPT ![u] = k]
                          /\ IF n = secret[u] THEN Spend(r, "totp", k, n) ELSE UNCHANGED spent
                          /\ Goto(r, "commit")
  BY <1>4 DEF LoginTotp
<1> QED BY <1>5, <1>6, <1>7

\* A backup code opens one session.
LEMMA CodesLoginBackupUse ==
    ASSUME Codes, Core, NEW r \in Slots, LoginBackupUse(r)
    PROVE  Codes'
<1>1. /\ CodeTypes /\ TokenTypes /\ Numbered /\ SpentOnce /\ NewestCodeOnly /\ Attempted
  BY DEF Codes
<1>2. /\ Is(r, "login", "backup") /\ ~Is(r, "ask", "send")
      /\ secret' = secret /\ secrets' = secrets /\ last' = last /\ tokens' = tokens
  BY DEF LoginBackupUse, Is
<1>3. /\ work[r].user \in Users /\ work[r].secret # 0 /\ work[r].secret <= secrets
      /\ work[r].secret \in Nat
  BY <1>2 DEF Core, Shapes, Shaped, Fits, Is, WorkTypes, WorkType
<1>4. PICK u \in Users, n \in 1..secrets : u = work[r].user /\ n = work[r].secret
  BY <1>1, <1>3 DEF CodeTypes
<1>5. PICK b : b = work[r].code
  OBVIOUS
<1>6. CASE LoginFails(r, FALSE) /\ UNCHANGED <<backups, spent>>
  BY <1>2, <1>6, Elsewhere, CodesSlot DEF Core, LoginFails, twoStep
<1>7. CASE /\ n = secret[u] /\ b \in backups[u]
           /\ backups' = [backups EXCEPT ![u] = @ \ {b}]
           /\ Spend(r, "backup", b, n) /\ Goto(r, "commit")
  <2>1. /\ backups'[u] = backups[u] \ {b} /\ backups' \in [Users -> SUBSET BackupCodes]
        /\ \A v \in Users : backups'[v] \subseteq backups[v]
    BY <1>1, <1>7 DEF CodeTypes
  <2>2. CodeTypes' /\ Numbered'
    BY <1>1, <1>2, <2>1 DEF CodeTypes, Numbered
  <2>3. Ages
    BY <1>1, <1>2, <2>1 DEF Ages, CodeTypes, TokenTypes
  <2>4. PICK x : x = [code |-> <<"backup", u, n, b>>, user |-> u,
                      token |-> work[r].token, era |-> Standing(r),
                        refused |-> FALSE]
    OBVIOUS
  <2>5. spent' = spent \cup {x} /\ x.code = <<"backup", u, n, b>>
    BY <1>4, <1>7, <2>4 DEF Spend, Receipt
  <2>6. ~Dead(x.code)
    BY <1>7, <2>5 DEF Dead
  <2>7. Dead(x.code)'
    BY <1>2, <1>4, <2>1, <2>5 DEF Dead
  <2>8. SpentOnce'
    BY <1>1, <2>2, <2>3, <2>5, <2>6, <2>7, SpentMore
  <2>9. TokenTypes' /\ NewestCodeOnly' /\ Attempted'
    BY <1>1, <1>2, <1>7, Elsewhere, AwaitedStays, NewestStill DEF Core
  <2> QED BY <2>2, <2>8, <2>9 DEF Codes
<1> QED BY <1>4, <1>5, <1>6, <1>7 DEF LoginBackupUse

\* What the handlers of one request do to the codes, if they touch one of them.
LEMMA CodesTouched ==
    ASSUME Codes, UNCHANGED twoStep, NEW n \in 1..Len(tokens), Touches(n),
           tokens'[n].attempts <= TokenAttempts,
           \A k \in 1..Len(tokens) : k # n /\ Awaited(k) => Awaited(k)',
           ~tokens'[n].used /\ tokens'[n].hashed => tokens'[n].mail # "none" \/ Awaited(n)',
           UNCHANGED spent \/ SpentOnce'
    PROVE  Codes'
<1>1. /\ CodeTypes /\ TokenTypes /\ Numbered /\ SpentOnce /\ NewestCodeOnly /\ Attempted
      /\ secret' = secret /\ secrets' = secrets /\ last' = last /\ backups' = backups
  BY DEF Codes, twoStep
<1>2. CodeTypes' /\ Numbered'
  BY <1>1 DEF CodeTypes, Numbered
<1>3. TokenTypes'
  BY DEF Touches
<1>4. Ages
  BY <1>1 DEF Ages, CodeTypes, TokenTypes, Touches
<1>5. SpentOnce'
  BY <1>1, <1>2, <1>4, SpentKept
<1>6. NewestCodeOnly' /\ Attempted'
  BY <1>1, NewestKept
<1> QED BY <1>2, <1>3, <1>5, <1>6 DEF Codes

\* A code that is asked for retires the earlier ones for its purpose.
LEMMA CodesAskBegin ==
    ASSUME Codes, Core, NEW r \in Slots, NEW u \in Users, NEW p \in Purposes, AskBegin(r, u, p),
           TokenTypes', Len(tokens') = Len(tokens) + 1
    PROVE  Codes'
<1>1. /\ CodeTypes /\ TokenTypes /\ Numbered /\ SpentOnce /\ NewestCodeOnly /\ Attempted
      /\ secret' = secret /\ secrets' = secrets /\ last' = last /\ backups' = backups
      /\ spent' = spent
  BY DEF Codes, twoStep, AskBegin
<1>2. CodeTypes' /\ Numbered'
  BY <1>1 DEF CodeTypes, Numbered
<1>3. PICK len \in Nat : len = Len(tokens)
  BY <1>1 DEF TokenTypes
<1>4. PICK t : t = NewToken(u, p)
  OBVIOUS
<1>5. /\ t.user = u /\ t.purpose = p /\ ~t.hashed /\ t.attempts = 0
  BY <1>4 DEF NewToken
<1>6. /\ tokens' = Append(TokensRetired(u, p), t)
      /\ TokensRetired(u, p) = [k \in 1..len |-> IF Same(k, u, p) THEN Retired(tokens[k]) ELSE tokens[k]]
  BY <1>3, <1>4 DEF AskBegin, TokensRetired, Retired
<1>7. \A k \in 1..len : Retired(tokens[k]) \in TokenType /\ tokens[k] \in TokenType
  BY <1>1, <1>3, CodeTouched DEF TokenTypes
<1>8. PICK ts \in Seq(TokenType) : ts = TokensRetired(u, p) /\ Len(ts) = len
  <2>1. \A k \in 1..len : (IF Same(k, u, p) THEN Retired(tokens[k]) ELSE tokens[k]) \in TokenType
    BY <1>7
  <2> QED BY <1>6, <2>1
<1>9. /\ Len(tokens') = len + 1 /\ tokens'[len + 1] = t
      /\ \A k \in 1..len : tokens'[k] = ts[k]
  BY <1>6, <1>8
<1>10. ASSUME NEW k \in 1..len
       PROVE  /\ tokens'[k].user = tokens[k].user /\ tokens'[k].purpose = tokens[k].purpose
              /\ tokens'[k].attempts = tokens[k].attempts
              /\ Same(k, u, p) => tokens'[k].used
              /\ tokens'[k].used \/ tokens'[k] = tokens[k]
  <2>1. tokens'[k] = IF Same(k, u, p) THEN Retired(tokens[k]) ELSE tokens[k]
    BY <1>6, <1>8, <1>9
  <2> QED BY <1>7, <2>1 DEF Retired, TokenType
<1>11. Ages
  <2>1. \A k \in 1..Len(tokens) : tokens[k].used => tokens'[k].used
    BY <1>3, <1>10
  <2> QED BY <1>1, <1>3, <1>9, <2>1 DEF Ages, CodeTypes
<1>12. SpentOnce'
  BY <1>1, <1>2, <1>11, SpentKept
<1>13. Attempted'
  <2>1. \A k \in 1..len : tokens'[k].attempts <= TokenAttempts
    BY <1>1, <1>3, <1>10 DEF Attempted
  <2>2. tokens'[len + 1].attempts <= TokenAttempts
    BY <1>5, <1>9, LimitsAssumption
  <2> QED BY <1>9, <2>1, <2>2 DEF Attempted
<1>14. \A k : Awaited(k) => Awaited(k)'
  <2>1. PICK w : Begin(r, w)
    BY DEF AskBegin
  <2>2. ~Is(r, "ask", "send")
    BY <2>1, FreeType DEF Begin, Is
  <2> QED BY <2>1, <2>2, Elsewhere, AwaitedStays DEF Core
<1>15. ASSUME NEW n \in 1..len + 1, ~tokens'[n].used, NEW k \in n + 1..len + 1
       PROVE  ~(tokens'[k].user = tokens'[n].user /\ tokens'[k].purpose = tokens'[n].purpose)
  <2>1. n \in 1..len /\ tokens'[n] = tokens[n]
    BY <1>10, <1>15
  <2>2. CASE k = len + 1
    <3>1. ~Same(n, u, p)
      BY <1>10, <1>15, <2>1
    <3> QED BY <1>5, <1>9, <2>1, <2>2, <3>1 DEF Same
  <2>3. CASE k # len + 1
    <3>1. k \in n + 1..len
      BY <2>3
    <3>2. k \in 1..len
      BY <2>1, <3>1
    <3>3. ~(tokens[k].user = tokens[n].user /\ tokens[k].purpose = tokens[n].purpose)
      BY <1>1, <1>3, <1>15, <2>1, <3>1 DEF NewestCodeOnly, Unused, Same
    <3> QED BY <1>10, <2>1, <3>2, <3>3
  <2> QED BY <2>2, <2>3
<1>16. ASSUME NEW n \in 1..len + 1, ~tokens'[n].used, tokens'[n].hashed
       PROVE  tokens'[n].mail # "none" \/ Awaited(n)'
  <2>1. n # len + 1
    BY <1>5, <1>9, <1>16
  <2>2. n \in 1..len
    BY <2>1
  <2>3. tokens'[n] = tokens[n]
    BY <1>10, <1>16, <2>2
  <2>4. tokens[n].mail # "none" \/ Awaited(n)
    BY <1>1, <1>3, <1>16, <2>2, <2>3 DEF NewestCodeOnly, Usable, Unused, Awaited
  <2> QED BY <1>14, <2>3, <2>4
<1>17. NewestCodeOnly'
  BY <1>9, <1>15, <1>16 DEF NewestCodeOnly, Usable, Unused, Same, Awaited
<1> QED BY <1>1, <1>2, <1>12, <1>13, <1>17 DEF Codes

\* The hash of the code is stored before its message is sent, or the code is never
\* complete.
LEMMA CodesAskHash ==
    ASSUME Codes, Core, NEW r \in Slots, AskHash(r)
    PROVE  Codes'
<1>1. /\ Is(r, "ask", "hash") /\ ~Is(r, "ask", "send") /\ work[r].op = "ask"
      /\ UNCHANGED <<twoStep, spent, requests>>
  BY DEF AskHash, Is
<1>2. work[r].code \in 1..Len(tokens) /\ TokenTypes /\ Attempted
  BY <1>1, CodeKnown DEF Codes
<1>3. PICK n \in 1..Len(tokens) : n = work[r].code
  BY <1>2
<1>4. CASE tokens' = [tokens EXCEPT ![n].hashed = TRUE] /\ Goto(r, "send")
  <2>1. Touches(n) /\ tokens'[n] = Hashed(tokens[n])
    BY <1>2, <1>4, HashTouches
  <2>2. tokens'[n].attempts <= TokenAttempts
    <3>1. tokens[n] \in TokenType /\ tokens[n].attempts <= TokenAttempts
      BY <1>2 DEF TokenTypes, Attempted
    <3> QED BY <2>1, <3>1 DEF Hashed, TokenType
  <2>3. work'[r].op = "ask" /\ work'[r].at = "send" /\ work'[r].code = n
    BY <1>1, <1>3, <1>4, SlotGoes DEF Core, Stages, Goes
  <2>4. Awaited(n)'
    BY <2>3 DEF Awaited, Is
  <2>5. \A k \in 1..Len(tokens) : k # n /\ Awaited(k) => Awaited(k)'
    BY <1>1, <1>4, Elsewhere, AwaitedStays DEF Core
  <2> QED BY <1>1, <2>1, <2>2, <2>4, <2>5, CodesTouched
<1>5. CASE UNCHANGED tokens /\ Done(r)
  BY <1>1, <1>5, Elsewhere, CodesSlot DEF Core
<1>6. CASE tokens' = [tokens EXCEPT ![n].used = TRUE] /\ Done(r)
  <2>1. Touches(n) /\ tokens'[n] = Retired(tokens[n])
    BY <1>2, <1>6, RetireTouches
  <2>2. tokens[n] \in TokenType /\ tokens[n].attempts <= TokenAttempts
    BY <1>2 DEF TokenTypes, Attempted
  <2>3. tokens'[n].used /\ tokens'[n].attempts <= TokenAttempts
    BY <2>1, <2>2 DEF Retired, TokenType
  <2>4. \A k \in 1..Len(tokens) : k # n /\ Awaited(k) => Awaited(k)'
    BY <1>1, <1>6, Elsewhere, AwaitedStays DEF Core
  <2> QED BY <1>1, <2>1, <2>3, <2>4, CodesTouched
<1> QED BY <1>3, <1>4, <1>5, <1>6 DEF AskHash

\* A message that was not accepted leaves a code that cannot be used, or one whose
\* invalidation failed.
LEMMA CodesAskSend ==
    ASSUME Codes, Core, NEW r \in Slots, AskSend(r)
    PROVE  Codes'
<1>1. Is(r, "ask", "send") /\ work[r].op = "ask" /\ Done(r) /\ UNCHANGED <<twoStep, spent>>
  BY DEF AskSend, Is
<1>2. work[r].code \in 1..Len(tokens) /\ TokenTypes /\ Attempted
  BY <1>1, CodeKnown DEF Codes
<1>3. PICK n \in 1..Len(tokens) : n = work[r].code
  BY <1>2
<1>4. tokens[n] \in TokenType /\ tokens[n].attempts <= TokenAttempts
  BY <1>2 DEF TokenTypes, Attempted
<1>5. /\ Touches(n) /\ tokens'[n].attempts <= TokenAttempts
      /\ tokens'[n].used \/ tokens'[n].mail # "none"
  <2>1. ASSUME NEW m \in {"sent", "kept"}, tokens' = [tokens EXCEPT ![n].mail = m]
        PROVE  Touches(n) /\ tokens'[n].attempts <= TokenAttempts /\ tokens'[n].mail # "none"
    <3>1. Touches(n) /\ tokens'[n] = Mailed(tokens[n], m)
      BY <1>2, <2>1, SendTouches
    <3> QED BY <1>4, <2>1, <3>1 DEF Mailed, TokenType
  <2>2. CASE tokens' = [tokens EXCEPT ![n].used = TRUE]
    <3>1. Touches(n) /\ tokens'[n] = Retired(tokens[n])
      BY <1>2, <2>2, RetireTouches
    <3> QED BY <1>4, <3>1 DEF Retired, TokenType
  <2> QED BY <1>3, <2>1, <2>2 DEF AskSend
<1>6. ASSUME NEW k \in 1..Len(tokens), k # n, Awaited(k) PROVE Awaited(k)'
  <2>1. PICK o \in Slots : Is(o, "ask", "send") /\ work[o].code = k
    BY <1>6 DEF Awaited
  <2>2. work'[o] = work[o]
    BY <1>1, <1>3, <1>6, <2>1, Elsewhere DEF Core
  <2> QED BY <2>1, <2>2 DEF Awaited, Is
<1> QED BY <1>1, <1>5, <1>6, CodesTouched

\* Steps of recovery that leave the codes as they are.
LEMMA CodesConfirmBegin ==
    ASSUME Codes, Core, NEW r \in Slots, NEW n, ConfirmBegin(r, n)
    PROVE  Codes'
<1>1. UNCHANGED <<twoStep, tokens, spent>> /\ \E w : Begin(r, w)
  BY DEF ConfirmBegin
<1>2. PICK w : Begin(r, w)
  BY <1>1
<1>3. ~Is(r, "ask", "send")
  BY <1>2, FreeType DEF Begin, Is
<1> QED BY <1>1, <1>2, <1>3, Elsewhere, CodesSlot DEF Core

\* A candidate that is tried has paid for it.
LEMMA CodesConfirmTake ==
    ASSUME Codes, Core, NEW r \in Slots, ConfirmTake(r)
    PROVE  Codes'
<1>1. /\ ~Is(r, "ask", "send") /\ UNCHANGED <<twoStep, spent, requests>>
      /\ CodeTypes /\ TokenTypes /\ NewestCodeOnly /\ Attempted
  BY DEF ConfirmTake, Is, Codes
<1>2. CASE Done(r) /\ UNCHANGED tokens
  BY <1>1, <1>2, Elsewhere, CodesSlot DEF Core
<1>3. ASSUME NEW n \in 1..Len(tokens), Touches(n), \A k : Awaited(k) => Awaited(k)',
             \/ tokens'[n] = Paid(tokens[n]) /\ tokens[n].attempts < TokenAttempts
             \/ tokens'[n] = Retired(tokens[n])
      PROVE  Codes'
  <2>1. tokens[n] \in TokenType /\ tokens[n].attempts <= TokenAttempts
    BY <1>1 DEF TokenTypes, Attempted
  <2>2. PICK i \in Nat : i = tokens[n].attempts
    BY <2>1 DEF TokenType
  <2>3. TokenAttempts \in Nat
    BY LimitsAssumption
  <2>4. /\ tokens'[n].attempts = i + 1 \/ tokens'[n].attempts = i
        /\ tokens'[n].attempts = i + 1 => i < TokenAttempts
        /\ tokens'[n].hashed = tokens[n].hashed /\ tokens'[n].mail = tokens[n].mail
    BY <1>3, <2>1, <2>2 DEF Paid, Retired, TokenType
  <2>5. tokens'[n].attempts <= TokenAttempts
    BY <2>1, <2>2, <2>3, <2>4
  <2>6. ~tokens'[n].used /\ tokens'[n].hashed => tokens'[n].mail # "none" \/ Awaited(n)'
    <3>1. ~tokens[n].used /\ tokens[n].hashed => tokens[n].mail # "none" \/ Awaited(n)
      BY <1>1 DEF NewestCodeOnly, Usable, Unused, Awaited
    <3> QED BY <1>3, <2>4, <3>1 DEF Touches
  <2> QED BY <1>1, <1>3, <2>5, <2>6, CodesTouched
<1>4. ASSUME Goes(r) \/ UNCHANGED work PROVE \A k : Awaited(k) => Awaited(k)'
  <2>1. \A o \in Slots : o # r => work'[o] = work[o]
    BY <1>4 DEF Goes, Slotwise
  <2> QED BY <1>1, <2>1, AwaitedStays
<1>5. \/ Done(r) /\ UNCHANGED tokens
      \/ \E n \in 1..Len(tokens) :
            /\ Touches(n) /\ (Goes(r) \/ UNCHANGED work)
            /\ \/ tokens'[n] = Paid(tokens[n]) /\ tokens[n].attempts < TokenAttempts
               \/ tokens'[n] = Retired(tokens[n])
  BY <1>1, ConfirmTakes
<1> QED BY <1>2, <1>3, <1>4, <1>5

\* A recovery code opens one session.
LEMMA CodesConfirmRedeem ==
    ASSUME Codes, Core, NEW r \in Slots, ConfirmRedeem(r)
    PROVE  Codes'
<1>1. /\ ~Is(r, "ask", "send") /\ UNCHANGED <<twoStep, requests>> /\ work[r].op = "confirm"
      /\ CodeTypes /\ TokenTypes /\ Numbered /\ SpentOnce /\ NewestCodeOnly /\ Attempted
  BY DEF ConfirmRedeem, Is, Codes
<1>2. work[r].code \in 1..Len(tokens) /\ work[r].user \in Users
  BY <1>1, CodeKnown
<1>3. PICK n \in 1..Len(tokens), u \in Users : n = work[r].code /\ u = work[r].user
  BY <1>2
<1>4. CASE /\ Unused(n) /\ tokens' = [tokens EXCEPT ![n].used = TRUE]
           /\ \/ Spend(r, "recovery", n, 0)
              \/ spent' = spent \cup {Receipt(r, "recovery", n, 0, TRUE)}
           /\ \/ Goto(r, IF work[r].purpose = "bypass" THEN "commit" ELSE "revoke")
              \/ Done(r)
  <2>1. Touches(n) /\ tokens'[n] = Retired(tokens[n])
    BY <1>1, <1>4, RetireTouches
  <2>2. tokens[n] \in TokenType /\ tokens[n].attempts <= TokenAttempts
    BY <1>1 DEF TokenTypes, Attempted
  <2>3. tokens'[n].used /\ tokens'[n].attempts <= TokenAttempts
    BY <2>1, <2>2 DEF Retired, TokenType
  <2>b. secret' = secret /\ secrets' = secrets /\ last' = last /\ backups' = backups
    BY <1>1 DEF twoStep
  <2>c. CodeTypes'
    BY <1>1, <2>b DEF CodeTypes
  <2>4. Ages
    BY <1>1, <2>1, <2>b DEF Ages, CodeTypes, TokenTypes, Touches
  <2>5. PICK refused \in BOOLEAN : spent' = spent \cup {Receipt(r, "recovery", n, 0, refused)}
    BY <1>4 DEF Spend
  <2>a. PICK x : x = Receipt(r, "recovery", n, 0, refused)
    OBVIOUS
  <2>6. spent' = spent \cup {x} /\ x.code = <<"recovery", u, 0, n>>
    BY <1>3, <2>5, <2>a DEF Receipt
  <2>7. ~Dead(x.code)
    BY <1>4, <2>6 DEF Dead, Unused
  <2>8. Dead(x.code)'
    BY <2>1, <2>3, <2>6 DEF Dead, Touches
  <2>9. SpentOnce'
    BY <1>1, <2>4, <2>c, <2>6, <2>7, <2>8, SpentMore
  <2>10. \A k \in 1..Len(tokens) : k # n /\ Awaited(k) => Awaited(k)'
    BY <1>1, <1>4, Elsewhere, AwaitedStays DEF Core
  <2> QED BY <1>1, <2>1, <2>3, <2>9, <2>10, CodesTouched
<1>5. CASE (Goto(r, "take") \/ Done(r)) /\ UNCHANGED <<tokens, spent>>
  BY <1>1, <1>5, Elsewhere, CodesSlot DEF Core
<1> QED BY <1>3, <1>4, <1>5 DEF ConfirmRedeem

LEMMA CodesConfirmQuiet ==
    ASSUME Codes, Core, NEW r \in Slots,
           ConfirmReserve(r) \/ ConfirmRevoke(r)
    PROVE  Codes'
<1>1. ~Is(r, "ask", "send") /\ UNCHANGED <<twoStep, tokens, spent>>
  BY DEF ConfirmReserve, ConfirmRevoke, Is
<1>2. (\E stage : Goto(r, stage)) \/ Done(r)
  BY DEF ConfirmReserve, ConfirmRevoke
<1> QED BY <1>1, <1>2, Elsewhere, CodesSlot DEF Core

\* A refusal changes nothing of what a code is or whose it was.
LEMMA CodesConfirmCommit ==
    ASSUME Codes, Core, Sessions, NEW r \in Slots, ConfirmCommit(r)
    PROVE  Codes'
<1>1. ~Is(r, "ask", "send") /\ UNCHANGED <<twoStep, tokens>> /\ Done(r)
  BY DEF ConfirmCommit, Is
<1>2. CASE UNCHANGED spent
  BY <1>1, <1>2, Elsewhere, CodesSlot DEF Core
<1>3. CASE spent' = RefusedNow(r)
  <2>1. /\ CodeTypes /\ TokenTypes /\ Numbered /\ SpentOnce /\ NewestCodeOnly /\ Attempted
        /\ secret' = secret /\ secrets' = secrets /\ last' = last /\ backups' = backups
        /\ tokens' = tokens
    BY <1>1 DEF Codes, twoStep
  <2>2. CodeTypes' /\ Numbered'
    BY <2>1 DEF CodeTypes, Numbered
  <2>3. ASSUME NEW y \in spent'
        PROVE  \E x \in spent : y.code = x.code /\ y.token = x.token
    <3>1. PICK x \in spent :
             y = IF x.token = work[r].token THEN [x EXCEPT !.refused = TRUE] ELSE x
      BY <1>3 DEF RefusedNow
    <3>2. Written(x)
      BY DEF Sessions, Spendings
    <3> QED BY <3>1, <3>2 DEF Written
  <2>4. \A c : Dead(c)' = Dead(c)
    BY <2>1 DEF Dead
  <2>5. SpentOnce'
    <3>1. \A x \in spent : Dead(x.code)
      BY <2>1 DEF SpentOnce
    <3>2. \A x, y \in spent : x.code = y.code => x.token = y.token
      BY <2>1 DEF SpentOnce
    <3>3. \A y \in spent' : Dead(y.code)'
      BY <2>3, <2>4, <3>1
    <3>4. \A y, z \in spent' : y.code = z.code => y.token = z.token
      BY <2>3, <3>2
    <3> QED BY <3>3, <3>4 DEF SpentOnce
  <2>6. \A k \in 1..Len(tokens) : Awaited(k) => Awaited(k)'
    BY <1>1, Elsewhere, AwaitedStays DEF Core
  <2>7. TokenTypes' /\ NewestCodeOnly' /\ Attempted'
    BY <2>1, <2>6, NewestStill
  <2> QED BY <2>2, <2>5, <2>7 DEF Codes
<1> QED BY <1>2, <1>3 DEF ConfirmCommit

\* Steps of a change.
LEMMA CodesChange ==
    ASSUME Codes, Core, NEW r \in Slots, Change(r)
    PROVE  Codes'
<1>1. ASSUME NEW u \in Users, ChangeBegin(r, u) PROVE Codes'
  <2>1. UNCHANGED <<twoStep, tokens, spent>> /\ \E w : Begin(r, w)
    BY <1>1 DEF ChangeBegin
  <2>2. PICK w : Begin(r, w)
    BY <2>1
  <2>3. ~Is(r, "ask", "send")
    BY <2>2, FreeType DEF Begin, Is
  <2> QED BY <2>1, <2>2, <2>3, Elsewhere, CodesSlot DEF Core
<1>2. CASE ChangeReplace(r) \/ ChangeCommit(r)
  <2>1. ~Is(r, "ask", "send") /\ UNCHANGED <<twoStep, tokens, spent>>
    BY <1>2 DEF ChangeReplace, ChangeCommit, Is
  <2>2. (\E stage : Goto(r, stage)) \/ Done(r)
    BY <1>2 DEF ChangeReplace, ChangeCommit
  <2> QED BY <2>1, <2>2, Elsewhere, CodesSlot DEF Core
<1> QED BY <1>1, <1>2 DEF Change

\* Another authenticator, or none, ends the codes of the one before.
LEMMA CodesSetup ==
    ASSUME Codes, Core, NEW u \in Users, Enable(u) \/ Disable(u)
    PROVE  Codes'
<1>1. /\ CodeTypes /\ TokenTypes /\ Numbered /\ SpentOnce /\ NewestCodeOnly /\ Attempted
      /\ UNCHANGED <<tokens, spent, work>>
  BY DEF Codes, Enable, Disable
<1>2. PICK n \in Nat, m \in Nat :
         /\ n = secrets /\ secrets' \in {n, n + 1} /\ secret' = [secret EXCEPT ![u] = m]
         /\ \/ m = n + 1 /\ secrets' = n + 1 /\ n < MaxSecrets
            \/ m = 0 /\ secrets' = n
  <2>1. secrets \in Nat
    BY <1>1 DEF CodeTypes
  <2>2. CASE Enable(u)
    <3>1. PICK n \in Nat : n = secrets
      BY <2>1
    <3>2. PICK m \in Nat : m = n + 1
      BY <3>1
    <3>3. secrets' = m /\ n < MaxSecrets /\ secret' = [secret EXCEPT ![u] = m]
      BY <2>2, <3>1, <3>2 DEF Enable
    <3> QED BY <3>1, <3>2, <3>3
  <2>3. CASE Disable(u)
    BY <2>1, <2>3 DEF Disable
  <2> QED BY <2>2, <2>3
<1>3. PICK bs \in SUBSET BackupCodes :
         /\ backups' = [backups EXCEPT ![u] = bs] /\ last' = [last EXCEPT ![u] = 0]
         /\ m = 0 => bs = {}
  <2>1. CASE Enable(u)
    <3>1. m # 0
      BY <1>1, <1>2, <2>1 DEF Enable, CodeTypes
    <3> QED BY <2>1, <3>1 DEF Enable
  <2>2. CASE Disable(u)
    BY <2>2 DEF Disable
  <2> QED BY <2>1, <2>2
<1>4. CodeTypes'
  BY <1>1, <1>2, <1>3 DEF CodeTypes
<1>5. Numbered'
  <2>1. secrets' <= MaxSecrets /\ secrets <= secrets' /\ secrets' \in Nat
    BY <1>1, <1>2, LimitsAssumption DEF Numbered
  <2>2. ASSUME NEW v \in Users
        PROVE  secret'[v] <= secrets' /\ (secret'[v] = 0 => backups'[v] = {})
    <3>1. CASE v = u
      BY <1>1, <1>2, <1>3, <3>1 DEF CodeTypes
    <3>2. CASE v # u
      <4>1. secret'[v] = secret[v] /\ backups'[v] = backups[v] /\ secret[v] \in Nat
        BY <1>1, <1>2, <1>3, <3>2 DEF CodeTypes
      <4>2. secret[v] <= secrets /\ (secret[v] = 0 => backups[v] = {}) /\ secrets \in Nat
        BY <1>1, <1>2 DEF Numbered
      <4> QED BY <2>1, <4>1, <4>2
    <3> QED BY <3>1, <3>2
  <2> QED BY <2>1, <2>2 DEF Numbered
<1>6. Ages
  <2>1. secrets \in Nat /\ secrets' \in Nat /\ secrets <= secrets' /\ m \notin 1..secrets
    BY <1>2
  <2>2. ASSUME NEW v \in Users
        PROVE  \/ /\ secret'[v] = secret[v] /\ last'[v] >= last[v]
                  /\ backups'[v] \subseteq backups[v]
               \/ secret'[v] \notin 1..secrets
    <3>1. CASE v = u
      BY <1>1, <1>2, <2>1, <3>1 DEF CodeTypes
    <3>2. CASE v # u
      BY <1>1, <1>2, <1>3, <3>2 DEF CodeTypes
    <3> QED BY <3>1, <3>2
  <2> QED BY <1>1, <2>1, <2>2 DEF Ages, TokenTypes
<1>7. SpentOnce'
  BY <1>1, <1>4, <1>6, SpentKept
<1>8. \A k : Awaited(k) => Awaited(k)'
  BY <1>1 DEF Awaited, Is
<1>9. TokenTypes' /\ NewestCodeOnly' /\ Attempted'
  BY <1>1, <1>8, NewestStill
<1> QED BY <1>4, <1>5, <1>7, <1>9 DEF Codes

\* Every step keeps the codes.
LEMMA CodesNext ==
    ASSUME Codes, Core, Sessions, [Next]_vars
    PROVE  Codes'
<1>1. ASSUME NEW r \in Slots, Login(r) PROVE Codes'
  BY <1>1, CodesLoginBegin, CodesLoginQuiet, CodesLoginTotp, CodesLoginBackupUse DEF Login
<1>2. ASSUME NEW r \in Slots, Recovery(r) PROVE Codes'
  <2>1. ASSUME NEW u \in Users, NEW p \in Purposes, AskBegin(r, u, p) PROVE Codes'
    BY <2>1, AskBeginCore, CodesAskBegin DEF Codes
  <2> QED BY <1>2, <2>1, CodesAskHash, CodesAskSend, CodesConfirmBegin, CodesConfirmTake,
             CodesConfirmRedeem, CodesConfirmQuiet, CodesConfirmCommit DEF Recovery
<1>3. ASSUME NEW r \in Slots, Change(r) PROVE Codes'
  BY <1>3, CodesChange
<1>4. ASSUME NEW u \in Users, Enable(u) \/ Disable(u) PROVE Codes'
  BY <1>4, CodesSetup
<1>5. ASSUME UNCHANGED <<twoStep, tokens, spent, work>> PROVE Codes'
  BY <1>5, CodesStill DEF Awaited, Is
<1>6. ASSUME NEW k \in Keys, CooldownEnds(k) PROVE Codes'
  BY <1>5, <1>6 DEF CooldownEnds
<1>7. CASE Leave \/ Others
  BY <1>5, <1>7 DEF Leave, Others
<1>8. CASE UNCHANGED vars
  BY <1>5, <1>8 DEF vars
<1> QED BY <1>1, <1>2, <1>3, <1>4, <1>6, <1>7, <1>8 DEF Next

-----------------------------------------------------------------------------
(* The invariant, and what follows from it. *)

\* The invariant holds at first, is kept, and holds always.
LEMMA Starts == Init => CInv
<1> SUFFICES ASSUME Init PROVE CInv
  OBVIOUS
<1>1. /\ table = {} /\ answered = {} /\ others = 0 /\ spent = {} /\ tokens = <<>>
      /\ byUser = [u \in Users |-> 0] /\ era = [u \in Users |-> 0]
      /\ fails = [k \in Keys |-> 0] /\ pending = [k \in Keys |-> 0]
      /\ cooling = [k \in Keys |-> FALSE] /\ active = 0
      /\ accounts = [u \in Users |-> 0]
      /\ secrets = 1 /\ secret \in [Users -> {0, 1}] /\ last = [u \in Users |-> 0]
      /\ backups = [u \in Users |-> IF secret[u] = 0 THEN {} ELSE BackupCodes]
      /\ work = [r \in Slots |-> Free] /\ requests = 0
  BY DEF Init
<1>2. \A r \in Slots : /\ work[r] = Free /\ work[r].op = "free" /\ work[r].token = 0
                       /\ ~Held(work[r]) /\ ~Settled(work[r])
  BY <1>1, FreeType, FreeHolds
<1>3. Core
  <2>1. WorkTypes
    BY <1>1, FreeType DEF WorkTypes
  <2>2. Fits(Free, requests, Len(tokens), secrets)
    BY <1>1 DEF Fits, Free
  <2>3. requests <= MaxRequests
    BY <1>1, LimitsAssumption
  <2> QED BY <1>2, <2>1, <2>2, <2>3 DEF Core, Shapes, Shaped
<1>4. Sessions
  <2>1. \A u : Of(u) = {} /\ Cardinality({}) = 0 /\ IsFiniteSet({})
    BY <1>1, FS_EmptySet DEF Of
  <2>2. Cardinality(table) = 0 /\ IsFiniteSet(table)
    BY <1>1, FS_EmptySet
  <2>3. SessionTypes
    BY <1>1, <2>2 DEF SessionTypes
  <2>a. 0 <= PerUser /\ 0 <= Total
    BY LimitsAssumption
  <2>4. Counted
    <3>1. Size = 0
      BY <1>1, <2>2 DEF Size
    <3>2. \A u \in Users : byUser[u] = 0 /\ Cardinality(Of(u)) = 0
      BY <1>1, <2>1
    <3> QED BY <2>a, <3>1, <3>2 DEF Counted
  <2>5. Apart /\ Placed /\ Closed /\ Owned /\ Spendings /\ RevokedStaysOut
    BY <1>1, <1>2 DEF Apart, Placed, Closed, Owned, Spendings, RevokedStaysOut
  <2> QED BY <2>3, <2>4, <2>5 DEF Sessions
<1>5. Guard
  <2>1. \A k : LoginsOf(k) = {}
    BY <1>2 DEF LoginsOf
  <2>2. IsFiniteSet({}) /\ Cardinality({}) = 0
    BY FS_EmptySet
  <2>3. GuardTypes
    BY <1>1 DEF GuardTypes
  <2>4. \A k \in Keys : pending[k] = 0 /\ fails[k] = 0
    BY <1>1
  <2>a. 0 <= FailureLimit /\ 0 <= HashLimit /\ 0 <= AccountLimit
    BY LimitsAssumption
  <2>b. \A u \in Users : u \in Keys /\ accounts[u] = 0
    BY <1>1 DEF Keys
  <2>c. \A k \in Keys : fails[k] + pending[k] <= FailureLimit
    BY <2>4, <2>a
  <2>d. \A k : IsFiniteSet(LoginsOf(k)) /\ Cardinality(LoginsOf(k)) = 0
    BY <2>1, <2>2
  <2>5. GuardBalanced
    BY <1>1, <2>4, <2>b, <2>c, <2>d DEF GuardBalanced
  <2>6. GuardLimits
    BY <1>1, <2>a, <2>b, <2>d DEF GuardLimits
  <2> QED BY <2>3, <2>5, <2>6 DEF Guard
<1>6. Codes
  <2>1. CodeTypes
    BY <1>1 DEF CodeTypes
  <2>2. TokenTypes /\ Len(tokens) = 0
    BY <1>1 DEF TokenTypes
  <2>3. Numbered
    BY <1>1, LimitsAssumption DEF Numbered
  <2>4. SpentOnce /\ NewestCodeOnly /\ Attempted
    BY <1>1, <2>2 DEF SpentOnce, NewestCodeOnly, Attempted
  <2> QED BY <2>1, <2>2, <2>3, <2>4 DEF Codes
<1> QED BY <1>3, <1>4, <1>5, <1>6 DEF CInv

LEMMA CInvStep == CInv /\ [Next]_vars => CInv'
BY CoreNext, GuardNext, CodesNext DEF CInv, Codes

LEMMA CInvHolds == Spec => []CInv
BY Starts, CInvStep, PTL DEF Spec

\* The types of the state follow: a count is not negative.
LEMMA TypesFollow == CInv => TypeOK
<1> SUFFICES ASSUME CInv PROVE TypeOK
  OBVIOUS
<1>1. /\ SessionTypes /\ Placed /\ Closed /\ Counted /\ GuardTypes /\ GuardBalanced /\ GuardLimits
      /\ CodeTypes /\ TokenTypes /\ Numbered /\ Attempted /\ Guard
  BY DEF CInv, Sessions, Guard, Codes
<1>2. requests \in Nat /\ requests <= MaxRequests /\ MaxRequests \in Nat
  BY LimitsAssumption DEF CInv, Core, WorkTypes
<1>3. /\ \A s \in table : s.user \in Users /\ s.token \in 1..MaxRequests
      /\ \A a \in answered : a.token \in 1..MaxRequests
  <2>1. \A n \in 1..requests : n \in 1..MaxRequests
    BY <1>2
  <2> QED BY <1>1, <2>1 DEF SessionTypes, SessionType, Placed, Closed
<1>4. byUser \in [Users -> 0..PerUser]
  <2>1. ASSUME NEW u \in Users PROVE byUser[u] \in 0..PerUser
    <3>1. PICK places : places = Of(u)
      OBVIOUS
    <3>2. places \subseteq table /\ IsFiniteSet(table)
      BY <1>1, <3>1 DEF Of, SessionTypes
    <3>3. IsFiniteSet(places)
      BY <3>2, FS_Subset
    <3>4. Cardinality(places) \in Nat
      BY <3>3, FS_CardinalityType
    <3>5. byUser[u] = Cardinality(places) /\ byUser[u] <= PerUser
      BY <1>1, <3>1 DEF Counted
    <3>6. PerUser \in Nat
      BY LimitsAssumption
    <3> QED BY <3>4, <3>5, <3>6
  <2> QED BY <1>1, <2>1 DEF SessionTypes
<1>5. others \in 0..Total
  <2>1. Cardinality(table) \in Nat
    BY <1>1, FS_CardinalityType DEF SessionTypes
  <2>2. others \in Nat /\ Cardinality(table) + others <= Total /\ Total \in Nat
    BY <1>1, LimitsAssumption DEF SessionTypes, Counted, Size
  <2> QED BY <2>1, <2>2
<1>6. ASSUME NEW k \in Keys
      PROVE  fails[k] \in 0..FailureLimit /\ pending[k] \in 0..FailureLimit /\ pending[k] \in Nat
  <2>1. pending[k] \in Nat
    <3>1. pending[k] = Cardinality(LoginsOf(k))
      BY <1>1 DEF GuardBalanced
    <3> QED BY <1>1, <3>1, LoginsFinite
  <2>2. fails[k] \in Nat /\ fails[k] + pending[k] <= FailureLimit /\ FailureLimit \in Nat
    BY <1>1, LimitsAssumption DEF GuardTypes, GuardBalanced
  <2> QED BY <2>1, <2>2
<1>7. /\ fails \in [Keys -> 0..FailureLimit] /\ pending \in [Keys -> 0..FailureLimit]
      /\ cooling \in [Keys -> BOOLEAN]
  BY <1>1, <1>6 DEF GuardTypes
<1>8. active \in 0..HashLimit
  <2>1. Cardinality(LoginsOf(Source)) \in Nat
    BY <1>1, LoginsFinite
  <2>2. active = Cardinality(LoginsOf(Source)) /\ active <= HashLimit /\ HashLimit \in Nat
    BY <1>1, LimitsAssumption DEF GuardBalanced, GuardLimits
  <2> QED BY <2>1, <2>2
<1>9. accounts \in [Users -> 0..AccountLimit]
  <2>1. ASSUME NEW u \in Users PROVE accounts[u] \in 0..AccountLimit
    <3>1. accounts[u] = pending[u] /\ pending[u] \in Nat
      BY <1>1, <1>6, KeysOfUser DEF GuardBalanced
    <3>2. accounts[u] <= AccountLimit /\ AccountLimit \in Nat
      BY <1>1, LimitsAssumption DEF GuardLimits
    <3> QED BY <3>1, <3>2
  <2> QED BY <1>1, <2>1 DEF GuardTypes
<1>10. secret \in [Users -> 0..MaxSecrets]
  <2>1. ASSUME NEW u \in Users PROVE secret[u] \in 0..MaxSecrets
    <3>1. secret[u] \in Nat /\ secrets \in Nat /\ MaxSecrets \in Nat
      BY <1>1, LimitsAssumption DEF CodeTypes
    <3>2. secret[u] <= secrets /\ secrets <= MaxSecrets
      BY <1>1 DEF Numbered
    <3> QED BY <3>1, <3>2
  <2> QED BY <1>1, <2>1 DEF CodeTypes
<1>11. \A n \in 1..Len(tokens) : tokens[n].attempts \in 0..TokenAttempts
  <2>1. ASSUME NEW n \in 1..Len(tokens) PROVE tokens[n].attempts \in 0..TokenAttempts
    <3>1. tokens[n] \in TokenType
      BY <1>1 DEF TokenTypes
    <3>2. tokens[n].attempts \in Nat
      BY <3>1 DEF TokenType
    <3>3. tokens[n].attempts <= TokenAttempts /\ TokenAttempts \in Nat
      BY <1>1, LimitsAssumption DEF Attempted
    <3> QED BY <3>2, <3>3
  <2> QED BY <2>1
<1>12. requests \in 0..MaxRequests
  BY <1>2
<1>13. era \in [Users -> Nat] /\ backups \in [Users -> SUBSET BackupCodes]
  BY <1>1 DEF SessionTypes, CodeTypes
<1> QED BY <1>3, <1>4, <1>5, <1>7, <1>8, <1>9, <1>10, <1>11, <1>12, <1>13 DEF TypeOK

(* What the console keeps of its sessions, of the sign-in guard and of the      *)
(* codes has its type, and every counter stays within its limit.                *)
THEOREM TypeCorrect == Spec => []TypeOK
BY CInvHolds, TypesFollow, PTL

(* Both views of the session table agree within the limits, a place in it       *)
(* belongs to a request or to a disclosed session, a session revoked while its  *)
(* request was running is never disclosed, and the sign-in guard counts exactly *)
(* the attempts that are running (Put, replaceUser, commit, cancel, finish).    *)
THEOREM AccountsBalanceHolds == Spec => []AccountsBalance
<1>1. CInv => AccountsBalance
  BY DEF CInv, Sessions, Guard, Counted, Owned, Disclosed, AccountsBalance, SessionsCounted
<1> QED BY <1>1, CInvHolds, PTL

(* A one-use code opens at most one session; its request gets the session       *)
(* unless the user's sessions were revoked or, for a recovery code, the user is *)
(* found disabled or cannot be read after the redemption, and then no session   *)
(* is left; and only the newest recovery code for a purpose works               *)
(* (ConsumeTOTPReplay, ConsumeBackupCode, RedeemRecoveryToken,                  *)
(* ReserveRecoveryToken, InvalidateRecoveryToken).                              *)
THEOREM CodesOnceHolds == Spec => []CodesOnce
<1>1. CInv => CodesOnce
  BY DEF CInv, Sessions, Codes, SpentOnce, Spendings, Turned, Repaid, CodesOnce, CodesUsedOnce
<1> QED BY <1>1, CInvHolds, PTL
=============================================================================
