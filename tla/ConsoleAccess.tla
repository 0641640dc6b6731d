-------------------------- MODULE ConsoleAccess --------------------------
(***************************************************************************)
(* How a person gets into the web console: the sign-in guard, the session  *)
(* table, two-step codes and mailbox recovery (internal/web auth_handlers, *)
(* sessions, login_guard, security_totp; internal/store totp, recovery).   *)
(*                                                                         *)
(* Requests run at the same time.  Each is a sequence of steps between     *)
(* which the others run: a lock or a database transaction is one step, and *)
(* hashing or mail delivery happens between two.  work[r] is the request a *)
(* slot serves and how far it has come.  All requests come from one host.  *)
(***************************************************************************)
EXTENDS Integers, Sequences, FiniteSets, FiniteSetsExt

CONSTANTS
    Slots,              \* requests served at the same time
    Users,
    Steps,              \* TOTP clock steps whose code can be presented
    BackupCodes,        \* backup codes of one set
    PerUser, Total,     \* sessionMaxPerUser, sessionMaxTotal
    FailureLimit,       \* loginFailureLimit
    HashLimit,          \* loginHashConcurrency
    AccountLimit,       \* loginAccountConcurrency
    TokenAttempts,      \* attempts a recovery code survives
    TokenLimit,         \* recoveryTargetLimit, within one window
    MaxRequests,        \* bound: requests that change state
    MaxSecrets          \* bound: authenticators set up

ASSUME LimitsAssumption ==
    /\ {Total, FailureLimit, HashLimit, AccountLimit, TokenAttempts, TokenLimit,
        MaxRequests} \subseteq Nat
    /\ {PerUser, MaxSecrets} \subseteq Nat \ {0}
    /\ Steps \subseteq Nat \ {0}

VARIABLES
    table,       \* SessionStore.byToken: [token, user]
    others,      \* sessions in it that belong to users not modelled
    byUser,      \* SessionStore.byUser
    answered,    \* sessions a response has disclosed: [token, user, era, now]
    era,         \* how often a user's sessions have been revoked
    fails, pending, cooling,   \* Server.logins: one state per key
    active, accounts,          \* Server.loginActive, Server.loginAccounts
    secret,      \* the authenticator of a user, 0 when two-step is off
    secrets,     \* authenticators set up so far
    last,        \* totp_replays.last_step
    backups,     \* totp_backup_codes not used yet
    tokens,      \* recovery_tokens
    spent,       \* one-use codes consumed: [code, user, token, era, refused]
    work,        \* the request of a slot
    requests     \* requests so far; each has a session token of its own

sessions == <<table, others, byUser, answered, era>>
guard    == <<fails, pending, cooling, active, accounts>>
twoStep  == <<secret, secrets, last, backups>>
vars == <<sessions, guard, twoStep, tokens, spent, work, requests>>

Source   == "source"

\* The key of the host is not the key of a user (loginKeysForHost).
ASSUME KeysAssumption == Source \notin Users

Keys     == {Source} \cup Users
KeysOf(u) == {Source, u}
Purposes == {"reset", "bypass"}

Free == [op |-> "free", at |-> "free", user |-> "none", token |-> 0,
         secret |-> 0, code |-> 0, tried |-> {}, purpose |-> "none"]

Is(r, op, at) == work[r].op = op /\ work[r].at = at
Goto(r, at)   == work' = [work EXCEPT ![r].at = at]
Done(r)       == work' = [work EXCEPT ![r] = Free]

Begin(r, w) ==
    /\ work[r] = Free
    /\ requests < MaxRequests
    /\ requests' = requests + 1
    /\ work' = [work EXCEPT ![r] = w]

-----------------------------------------------------------------------------
(* SessionStore.                                                           *)

Of(u)      == {s \in table : s.user = u}
Present(n) == \E s \in table : s.token = n

\* deleteLocked for each session of a set.
Without(gone) ==
    /\ table' = table \ gone
    /\ byUser' = [u \in Users |->
                    byUser[u] - Cardinality({s \in gone : s.user = u})]

\* Put rejects overflow rather than evicting a session.
Size == Cardinality(table) + others
HasRoom(u) == Size < Total /\ byUser[u] < PerUser
Reserved(r, u) ==
    /\ table' = table \cup {[token |-> work[r].token, user |-> u]}
    /\ byUser' = [byUser EXCEPT ![u] = @ + 1]
    /\ UNCHANGED <<others, answered, era>>

\* sessionGrant.cancel: a reservation that was not issued is given back.
Cancel(r) ==
    /\ Without({s \in table : s.token = work[r].token})
    /\ UNCHANGED <<others, answered, era>>

\* The revocations of the user when the place of this request was taken, which
\* are fewer than those until now if the place is gone again.
Standing(r) == IF Present(work[r].token) THEN era[work[r].user]
                                         ELSE era[work[r].user] - 1

Answer(r) ==
    LET w == work[r] IN
    answered' = answered \cup
       {[token |-> w.token, user |-> w.user, now |-> era[w.user], era |-> Standing(r)]}

\* Mutant: the session is disclosed without looking whether it is still there.
CommitBlind(r) == Answer(r) /\ UNCHANGED <<table, others, byUser, era>>

\* sessionGrant.commit: only a session that is still in the table is disclosed.
Commit(r) ==
    /\ IF Present(work[r].token) THEN Answer(r) ELSE UNCHANGED answered
    /\ UNCHANGED <<table, others, byUser, era>>

\* DeleteUser.
RevokeAll(u) ==
    /\ Without(Of(u))
    /\ era' = [era EXCEPT ![u] = @ + 1]
    /\ UNCHANGED <<others, answered>>

\* Mutant: the replacement is counted on top of the sessions it replaced.
ReplaceMiscounted(r, u) ==
    /\ table' = (table \ Of(u)) \cup
          {[token |-> work[r].token, user |-> u]}
    /\ byUser' = [byUser EXCEPT ![u] = @ + 1]
    /\ era' = [era EXCEPT ![u] = @ + 1]
    /\ UNCHANGED <<others, answered>>

\* replaceUser: all sessions of the user make room for one, under one lock.
ReplaceUser(r, u) ==
    /\ table' = (table \ Of(u)) \cup
          {[token |-> work[r].token, user |-> u]}
    /\ byUser' = [byUser EXCEPT ![u] = 1]
    /\ era' = [era EXCEPT ![u] = @ + 1]
    /\ UNCHANGED <<others, answered>>

-----------------------------------------------------------------------------
(* The sign-in guard.                                                      *)

\* reserveLoginAttempt: pending attempts count toward the failure budget.
Admitted(u) ==
    /\ \A k \in KeysOf(u) : ~cooling[k] /\ fails[k] + pending[k] < FailureLimit
    /\ active < HashLimit
    /\ accounts[u] < AccountLimit

\* Mutant: an attempt is counted once for each of its keys.
EnterPerKey(u) ==
    /\ pending' = [k \in Keys |-> IF k \in KeysOf(u) THEN pending[k] + 1 ELSE pending[k]]
    /\ active' = active + Cardinality(KeysOf(u))
    /\ accounts' = [accounts EXCEPT ![u] = @ + Cardinality(KeysOf(u))]
    /\ UNCHANGED <<fails, cooling>>

\* The attempt is pending on both of its keys and counts once as running.
Enter(u) ==
    /\ pending' = [k \in Keys |-> IF k \in KeysOf(u) THEN pending[k] + 1 ELSE pending[k]]
    /\ active' = active + 1
    /\ accounts' = [accounts EXCEPT ![u] = @ + 1]
    /\ UNCHANGED <<fails, cooling>>

\* Mutant: a failed attempt leaves its place taken.
FinishLeaking(u, valid) ==
    /\ fails' = [k \in Keys |->
          IF k \notin KeysOf(u) THEN fails[k]
          ELSE IF valid THEN (IF k = u THEN 0 ELSE fails[k])
          ELSE (fails[k] + 1) % FailureLimit]
    /\ cooling' = [k \in Keys |-> cooling[k] \/
          (k \in KeysOf(u) /\ ~valid /\ fails[k] + 1 >= FailureLimit)]
    /\ pending' = [k \in Keys |->
          IF k \in KeysOf(u) /\ valid THEN pending[k] - 1 ELSE pending[k]]
    /\ active' = active - 1
    /\ accounts' = [accounts EXCEPT ![u] = @ - 1]

\* finish: a valid attempt clears the failures of its own pair, a failed one
\* adds to both keys and, at the limit, starts their cooldown.
Finish(u, valid) ==
    /\ fails' = [k \in Keys |->
          IF k \notin KeysOf(u) THEN fails[k]
          ELSE IF valid THEN (IF k = u THEN 0 ELSE fails[k])
          ELSE (fails[k] + 1) % FailureLimit]
    /\ cooling' = [k \in Keys |-> cooling[k] \/
          (k \in KeysOf(u) /\ ~valid /\ fails[k] + 1 >= FailureLimit)]
    /\ pending' = [k \in Keys |-> IF k \in KeysOf(u) THEN pending[k] - 1 ELSE pending[k]]
    /\ active' = active - 1
    /\ accounts' = [accounts EXCEPT ![u] = @ - 1]

\* loginCooldown goes by.
CooldownEnds(k) ==
    /\ cooling[k]
    /\ cooling' = [cooling EXCEPT ![k] = FALSE]
    /\ UNCHANGED <<sessions, fails, pending, active, accounts, twoStep, tokens,
                   spent, work, requests>>

-----------------------------------------------------------------------------
(* login.                                                                  *)

LoginBegin(r, u) ==
    /\ Admitted(u)
    /\ Begin(r, [Free EXCEPT !.op = "login", !.at = "password", !.user = u,
                             !.token = requests + 1])
    /\ Enter(u)
    /\ UNCHANGED <<sessions, twoStep, tokens, spent>>

\* The user is read, with the authenticator, and the password is compared.
LoginPassword(r) ==
    LET u == work[r].user IN
    /\ Is(r, "login", "password")
    /\ \/ /\ work' = [work EXCEPT ![r].at = "reserve", ![r].secret = secret[u]]
          /\ UNCHANGED guard
       \/ Done(r) /\ Finish(u, FALSE)
    /\ UNCHANGED <<sessions, twoStep, tokens, spent, requests>>

\* A place in the table is reserved before a one-use code is consumed.  A full
\* table is not the caller's failure.
LoginReserve(r) ==
    LET w == work[r] IN
    /\ Is(r, "login", "reserve")
    /\ \/ /\ HasRoom(w.user)
          /\ Reserved(r, w.user)
          /\ Goto(r, IF w.secret = 0 THEN "commit" ELSE "code")
          /\ UNCHANGED guard
       \/ /\ ~HasRoom(w.user)
          /\ Done(r) /\ Finish(w.user, TRUE)
          /\ UNCHANGED sessions
    /\ UNCHANGED <<twoStep, tokens, spent, requests>>

\* Every way out of login after the reservation but the last one.
LoginFails(r, valid) ==
    /\ Cancel(r)
    /\ Finish(work[r].user, valid)
    /\ Done(r)

\* A code that has been consumed, with the session it is meant to open.
Receipt(r, kind, code, which, refused) ==
    [code |-> <<kind, work[r].user, which, code>>, user |-> work[r].user,
     token |-> work[r].token, era |-> Standing(r), refused |-> refused]
Spend(r, kind, code, which) == spent' = spent \cup {Receipt(r, kind, code, which, FALSE)}

\* Mutant: a step is accepted again as long as it is not older than the last.
LoginTotpAgain(r) ==
    LET w == work[r] IN
    /\ Is(r, "login", "code")
    /\ \E k \in Steps :
          IF k >= last[w.user]
          THEN /\ last' = [last EXCEPT ![w.user] = k]
               /\ Spend(r, "totp", k, w.secret)
               /\ Goto(r, "commit")
               /\ UNCHANGED <<sessions, guard>>
          ELSE LoginFails(r, FALSE) /\ UNCHANGED <<last, spent>>
    /\ UNCHANGED <<secret, secrets, backups, tokens, requests>>

\* A code of the authenticator that was read: ConsumeTOTPReplay accepts a
\* strictly newer step only.  What was read may have been replaced meanwhile.
LoginTotp(r) ==
    LET w == work[r] IN
    /\ Is(r, "login", "code")
    /\ \E k \in Steps :
          IF k > last[w.user]
          THEN /\ last' = [last EXCEPT ![w.user] = k]
               /\ IF w.secret = secret[w.user] THEN Spend(r, "totp", k, w.secret)
                                               ELSE UNCHANGED spent
               /\ Goto(r, "commit")
               /\ UNCHANGED <<sessions, guard>>
          ELSE LoginFails(r, FALSE) /\ UNCHANGED <<last, spent>>
    /\ UNCHANGED <<secret, secrets, backups, tokens, requests>>

\* No valid code, or an authenticator or a store that cannot be read, which is
\* not counted as a failure.
LoginNoCode(r) ==
    /\ Is(r, "login", "code")
    /\ \E valid \in BOOLEAN : LoginFails(r, valid)
    /\ UNCHANGED <<twoStep, tokens, spent, requests>>

\* ConsumeBackupCode takes the unused codes and compares them one by one,
\* outside any transaction; the one that matched is remembered.
LoginBackup(r) ==
    LET w == work[r] IN
    /\ Is(r, "login", "code")
    /\ \E b \in backups[w.user] :
          work' = [work EXCEPT ![r].at = "backup", ![r].secret = secret[w.user],
                               ![r].code = b]
    /\ UNCHANGED <<sessions, guard, twoStep, tokens, spent, requests>>

\* The conditional update takes exactly that row, if it is still there, of the
\* same set and unused.
LoginBackupUse(r) ==
    LET w == work[r] IN
    /\ Is(r, "login", "backup")
    /\ IF w.secret = secret[w.user] /\ w.code \in backups[w.user]
       THEN /\ backups' = [backups EXCEPT ![w.user] = @ \ {w.code}]
            /\ Spend(r, "backup", w.code, w.secret)
            /\ Goto(r, "commit")
            /\ UNCHANGED <<sessions, guard>>
       ELSE LoginFails(r, FALSE) /\ UNCHANGED <<backups, spent>>
    /\ UNCHANGED <<secret, secrets, last, tokens, requests>>

LoginCommit(r) ==
    /\ Is(r, "login", "commit")
    /\ Commit(r)
    /\ Finish(work[r].user, TRUE)
    /\ Done(r)
    /\ UNCHANGED <<twoStep, tokens, spent, requests>>

-----------------------------------------------------------------------------
(* Requests of a signed-in user.                                           *)

SignedIn(u) == \E a \in answered : a.user = u /\ Present(a.token)

\* logout, and sessions that expire.
Leave ==
    \E s \in table :
        /\ \E a \in answered : a.token = s.token
        /\ Without({s})
        /\ UNCHANGED <<others, answered, era, guard, twoStep, tokens, spent, work, requests>>

\* The other users sign in, and sign out or expire.
Others ==
    /\ \/ Size < Total /\ others' = others + 1
       \/ others > 0 /\ others' = others - 1
    /\ UNCHANGED <<table, byUser, answered, era, guard, twoStep, tokens, spent,
                   work, requests>>

\* changePassword and changeUsername, up to the session change.
ChangeBegin(r, u) ==
    /\ SignedIn(u)
    /\ Begin(r, [Free EXCEPT !.op = "change", !.at = "replace", !.user = u,
                             !.token = requests + 1])
    /\ UNCHANGED <<sessions, guard, twoStep, tokens, spent>>

\* replaceUserSession; without room for one session nothing is revoked.
ChangeReplace(r) ==
    LET u == work[r].user IN
    /\ Is(r, "change", "replace")
    /\ \/ /\ Size - byUser[u] < Total
          /\ ReplaceUser(r, u)
          /\ Goto(r, "commit")
       \/ /\ Size - byUser[u] >= Total
          /\ UNCHANGED sessions
          /\ Done(r)
    /\ UNCHANGED <<guard, twoStep, tokens, spent, requests>>

ChangeCommit(r) ==
    /\ Is(r, "change", "commit")
    /\ Commit(r)
    /\ Done(r)
    /\ UNCHANGED <<guard, twoStep, tokens, spent, requests>>

\* EnableTOTP replaces the authenticator, the backup codes and the replay state.
Enable(u) ==
    /\ SignedIn(u)
    /\ secrets < MaxSecrets
    /\ secrets' = secrets + 1
    /\ secret' = [secret EXCEPT ![u] = secrets + 1]
    /\ backups' = [backups EXCEPT ![u] = BackupCodes]
    /\ last' = [last EXCEPT ![u] = 0]
    /\ UNCHANGED <<sessions, guard, tokens, spent, work, requests>>

\* DisableTOTP.
Disable(u) ==
    /\ SignedIn(u)
    /\ secret[u] # 0
    /\ secret' = [secret EXCEPT ![u] = 0]
    /\ backups' = [backups EXCEPT ![u] = {}]
    /\ last' = [last EXCEPT ![u] = 0]
    /\ UNCHANGED <<sessions, guard, secrets, tokens, spent, work, requests>>

-----------------------------------------------------------------------------
(* Mailbox recovery.                                                       *)

Unused(n)  == ~tokens[n].used
Usable(n)  == Unused(n) /\ tokens[n].hashed
Same(n, u, p) == tokens[n].user = u /\ tokens[n].purpose = p

NewToken(u, p) ==
    [user |-> u, purpose |-> p, hashed |-> FALSE, used |-> FALSE,
     attempts |-> 0, mail |-> "none"]

\* Mutant: an earlier code stays valid next to the new one.
TokensKept(u, p) == tokens

TokensRetired(u, p) ==
    [n \in 1..Len(tokens) |->
        IF Same(n, u, p) THEN [tokens[n] EXCEPT !.used = TRUE] ELSE tokens[n]]

\* ReserveRecoveryToken: within the user's limit the earlier codes for this
\* purpose are retired and a place for the new one is taken, in one transaction.
AskBegin(r, u, p) ==
    /\ Cardinality({n \in 1..Len(tokens) : tokens[n].user = u}) < TokenLimit
    /\ Begin(r, [Free EXCEPT !.op = "ask", !.at = "hash", !.user = u,
                             !.purpose = p, !.code = Len(tokens) + 1])
    /\ tokens' = Append(TokensRetired(u, p), NewToken(u, p))
    /\ UNCHANGED <<sessions, guard, twoStep, spent>>

\* SetRecoveryTokenHash replaces the placeholder, unless a newer request retired
\* the reservation while the code was hashed.  If hashing or the store fails the
\* token is invalidated, and an error of that is ignored.
AskHash(r) ==
    LET n == work[r].code IN
    /\ Is(r, "ask", "hash")
    /\ \/ /\ Unused(n)
          /\ tokens' = [tokens EXCEPT ![n].hashed = TRUE]
          /\ Goto(r, "send")
       \/ tokens' = [tokens EXCEPT ![n].used = TRUE] /\ Done(r)
       \/ UNCHANGED tokens /\ Done(r)
    /\ UNCHANGED <<sessions, guard, twoStep, spent, requests>>

\* The code is mailed; one that was not accepted is invalidated, unless that
\* fails: its error is ignored too.
AskSend(r) ==
    LET n == work[r].code IN
    /\ Is(r, "ask", "send")
    /\ \/ tokens' = [tokens EXCEPT ![n].mail = "sent"]
       \/ tokens' = [tokens EXCEPT ![n].used = TRUE]
       \/ tokens' = [tokens EXCEPT ![n].mail = "kept"]
    /\ Done(r)
    /\ UNCHANGED <<sessions, guard, twoStep, spent, requests>>

\* confirmRecovery with the code of some token, which need not be valid.
ConfirmBegin(r, n) ==
    /\ n \in 1..Len(tokens)
    /\ Begin(r, [Free EXCEPT !.op = "confirm", !.at = "take", !.code = n,
                             !.user = tokens[n].user, !.purpose = tokens[n].purpose,
                             !.token = requests + 1])
    /\ UNCHANGED <<sessions, guard, twoStep, tokens, spent>>

Candidates(w) ==
    {n \in 1..Len(tokens) \ w.tried :
        /\ Same(n, w.user, w.purpose)
        /\ Usable(n)
        /\ tokens[n].attempts < TokenAttempts}

\* TakeRecoveryCandidate: the newest candidate not tried yet pays one attempt;
\* one that has expired is retired instead.  The request ends when none is left,
\* when it has tried five, or when the store fails.
ConfirmTake(r) ==
    LET w == work[r]
        n == Max(Candidates(w))
    IN
    /\ Is(r, "confirm", "take")
    /\ \/ Done(r) /\ UNCHANGED tokens
       \/ /\ Candidates(w) # {}
          /\ tokens' = [tokens EXCEPT ![n].attempts = @ + 1]
          /\ work' = [work EXCEPT ![r].tried = @ \cup {n},
                                  ![r].at = IF n # w.code THEN "take"
                                            ELSE IF w.purpose = "bypass" THEN "room"
                                            ELSE "redeem"]
       \/ /\ Candidates(w) # {}
          /\ tokens' = [tokens EXCEPT ![n].used = TRUE]
          /\ UNCHANGED work
    /\ UNCHANGED <<sessions, guard, twoStep, spent, requests>>

\* A sign-in without the authenticator needs a place in the table first.
ConfirmReserve(r) ==
    LET w == work[r] IN
    /\ Is(r, "confirm", "room")
    /\ \/ /\ HasRoom(w.user)
          /\ Reserved(r, w.user)
          /\ Goto(r, "redeem")
       \/ /\ ~HasRoom(w.user)
          /\ Done(r)
          /\ UNCHANGED sessions
    /\ UNCHANGED <<guard, twoStep, tokens, spent, requests>>

\* RedeemRecoveryToken uses the code up if nobody has yet; otherwise the place
\* is given back and the next candidate is tried.  The code of a user who turns
\* out to be disabled is used up all the same, and the request refused; if the
\* transaction fails nothing is used up.
ConfirmRedeem(r) ==
    LET w == work[r] IN
    /\ Is(r, "confirm", "redeem")
    /\ \/ /\ Unused(w.code)
          /\ tokens' = [tokens EXCEPT ![w.code].used = TRUE]
          /\ \/ /\ Spend(r, "recovery", w.code, 0)
                /\ Goto(r, IF w.purpose = "bypass" THEN "commit" ELSE "revoke")
                /\ UNCHANGED sessions
             \/ /\ spent' = spent \cup {Receipt(r, "recovery", w.code, 0, TRUE)}
                /\ Cancel(r)
                /\ Done(r)
       \/ /\ Cancel(r)
          /\ IF Unused(w.code) THEN Done(r) ELSE Goto(r, "take") \/ Done(r)
          /\ UNCHANGED <<tokens, spent>>
    /\ UNCHANGED <<guard, twoStep, requests>>

\* A new password ends every session of the user.
ConfirmRevoke(r) ==
    /\ Is(r, "confirm", "revoke")
    /\ RevokeAll(work[r].user)
    /\ Done(r)
    /\ UNCHANGED <<guard, twoStep, tokens, spent, requests>>

\* The code a request has used up, which is refused after all.
RefusedNow(r) ==
    {IF x.token = work[r].token THEN [x EXCEPT !.refused = TRUE] ELSE x : x \in spent}

\* The user is read again; one that is disabled by now, or cannot be read, gets
\* no session, and the code stays used up.
ConfirmCommit(r) ==
    /\ Is(r, "confirm", "commit")
    /\ \/ Commit(r) /\ UNCHANGED spent
       \/ Cancel(r) /\ spent' = RefusedNow(r)
    /\ Done(r)
    /\ UNCHANGED <<guard, twoStep, tokens, requests>>

-----------------------------------------------------------------------------

Init ==
    /\ table = {} /\ answered = {} /\ others = 0
    /\ byUser = [u \in Users |-> 0]
    /\ era = [u \in Users |-> 0]
    /\ fails = [k \in Keys |-> 0]
    /\ pending = [k \in Keys |-> 0]
    /\ cooling = [k \in Keys |-> FALSE]
    /\ active = 0
    /\ accounts = [u \in Users |-> 0]
    /\ secrets = 1
    /\ secret \in [Users -> {0, 1}]
    /\ last = [u \in Users |-> 0]
    /\ backups = [u \in Users |-> IF secret[u] = 0 THEN {} ELSE BackupCodes]
    /\ tokens = <<>>
    /\ spent = {}
    /\ work = [r \in Slots |-> Free]
    /\ requests = 0

Login(r) ==
    \/ \E u \in Users : LoginBegin(r, u)
    \/ LoginPassword(r) \/ LoginReserve(r) \/ LoginTotp(r) \/ LoginNoCode(r)
    \/ LoginBackup(r) \/ LoginBackupUse(r) \/ LoginCommit(r)

Recovery(r) ==
    \/ \E u \in Users, p \in Purposes : AskBegin(r, u, p)
    \/ AskHash(r) \/ AskSend(r)
    \/ \E n \in 1..Len(tokens) : ConfirmBegin(r, n)
    \/ ConfirmTake(r) \/ ConfirmReserve(r) \/ ConfirmRedeem(r)
    \/ ConfirmRevoke(r) \/ ConfirmCommit(r)

Change(r) ==
    \/ \E u \in Users : ChangeBegin(r, u)
    \/ ChangeReplace(r) \/ ChangeCommit(r)

Next ==
    \/ \E r \in Slots : Login(r) \/ Recovery(r) \/ Change(r)
    \/ \E u \in Users : Enable(u) \/ Disable(u)
    \/ \E k \in Keys : CooldownEnds(k)
    \/ Leave
    \/ Others

Spec == Init /\ [][Next]_vars

-----------------------------------------------------------------------------

TypeOK ==
    /\ \A s \in table : s.user \in Users /\ s.token \in 1..MaxRequests
    /\ byUser \in [Users -> 0..PerUser] /\ others \in 0..Total
    /\ \A a \in answered : a.token \in 1..MaxRequests
    /\ era \in [Users -> Nat]
    /\ fails \in [Keys -> 0..FailureLimit]
    /\ pending \in [Keys -> 0..FailureLimit]
    /\ cooling \in [Keys -> BOOLEAN]
    /\ active \in 0..HashLimit
    /\ accounts \in [Users -> 0..AccountLimit]
    /\ secret \in [Users -> 0..MaxSecrets]
    /\ backups \in [Users -> SUBSET BackupCodes]
    /\ \A n \in 1..Len(tokens) : tokens[n].attempts \in 0..TokenAttempts
    /\ requests \in 0..MaxRequests

Serving(n)   == \E r \in Slots : work[r].token = n /\ work[r].op # "free"
Disclosed(n) == \E a \in answered : a.token = n

\* The two views of the session table agree whatever order requests reserve,
\* cancel, replace and delete in, the limits hold, and a place in it belongs to
\* a disclosed session or to a request still being served (Put, deleteLocked,
\* replaceUser, sessionGrant.cancel).
SessionsCounted ==
    /\ \A u \in Users : byUser[u] = Cardinality(Of(u)) /\ byUser[u] <= PerUser
    /\ Size <= Total
    /\ \A s \in table : Serving(s.token) \/ Disclosed(s.token)

\* A session that was revoked while its request was still verifying is never
\* handed out afterwards: what a response discloses was reserved after the last
\* password change or reset of its user (sessionGrant.commit).
RevokedStaysOut == \A a \in answered : a.era = a.now

LoginsOf(k) == {r \in Slots : work[r].op = "login" /\ k \in KeysOf(work[r].user)}

\* The sign-in guard's counters are the attempts in progress, on every way out
\* of login, and attempts that run at the same time cannot exceed together the
\* failures that are left (reserveLoginAttempt, finish).
GuardBalanced ==
    /\ \A k \in Keys : pending[k] = Cardinality(LoginsOf(k))
    /\ active = Cardinality(LoginsOf(Source))
    /\ \A u \in Users : accounts[u] = pending[u]
    /\ \A k \in Keys : fails[k] + pending[k] <= FailureLimit

\* A one-use code opens one session at most, however many requests present it
\* at the same time.  A code of the authenticator or of its backup set is used up
\* only by a request that then gets its session, unless the user's sessions were
\* revoked in between; so is a recovery code, unless its user is found disabled
\* or cannot be read after the redemption: that request leaves no session behind.
CodesUsedOnce ==
    /\ \A x, y \in spent : x.code = y.code => x.token = y.token
    /\ \A x \in spent :
          IF x.refused
          THEN x.code[1] = "recovery" /\ ~Present(x.token) /\ ~Disclosed(x.token)
          ELSE Serving(x.token) \/ Disclosed(x.token) \/ era[x.user] > x.era

\* Of the recovery codes for one purpose only the newest can be used, and only
\* if its message was accepted or is still on its way, or if neither its delivery
\* nor its invalidation succeeded.
NewestCodeOnly ==
    \A n \in 1..Len(tokens) :
        /\ Unused(n) => \A k \in n + 1..Len(tokens) :
                             ~Same(k, tokens[n].user, tokens[n].purpose)
        /\ Usable(n) => \/ tokens[n].mail # "none"
                        \/ \E r \in Slots : Is(r, "ask", "send") /\ work[r].code = n

(* AccountsBalance: sessions are counted and revoked as a whole, and the
   sign-in guard gives back every place it took. *)
AccountsBalance == SessionsCounted /\ RevokedStaysOut /\ GuardBalanced

(* CodesOnce: a one-use code is used once, and only the newest one works. *)
CodesOnce == CodesUsedOnce /\ NewestCodeOnly
============================================================================
