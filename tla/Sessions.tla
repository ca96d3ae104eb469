------------------------------ MODULE Sessions ------------------------------
(***************************************************************************)
(* Accounts, login lockout and refresh-token rotation: the routes of       *)
(* app/api/routes/auth.py, and the tables users and refresh_tokens of      *)
(* app/db/models.py.  Access tokens are left out: they are issued with the *)
(* refresh tokens, checked by signature and deadline, and keep no state.   *)
(*                                                                         *)
(* Each request has a database session of its own.  It reads rows, decides *)
(* on what it loaded, and writes at its commit; between two awaits other   *)
(* requests read and commit.  READ COMMITTED checks nothing at the commit  *)
(* but the unique indexes, and the ORM's UPDATE sets the columns whose     *)
(* value differs from the loaded one, so a commit may overwrite what       *)
(* another request committed meanwhile, or leave it standing.              *)
(***************************************************************************)
EXTENDS Integers, FiniteSets, Combinatorics

CONSTANTS
    Requests,        \* request slots: the pooled connections
    Accounts,        \* e-mail addresses, by blind index
    Tokens,          \* JTIs of refresh tokens
    None,
    LockThreshold,   \* the 5 of login()
    LockPeriod,      \* its 15 minutes, in ticks of the model
    RefreshTTL,      \* REFRESH_TOKEN_EXPIRE_DAYS, in ticks
    LastTime,        \* bound: the clock runs over 0..LastTime
    MaxWrong         \* bound on wrong passwords per account

ASSUME SessionsAssumption ==
    /\ IsFiniteSet(Requests)
    /\ IsFiniteSet(Tokens)
    /\ None \notin Accounts \cup Tokens
    /\ LockThreshold \in Nat \ {0}
    /\ LockPeriod \in Nat \ {0}
    /\ RefreshTTL \in Nat
    /\ LastTime \in Nat /\ MaxWrong \in Nat

VARIABLES
    provider,      \* auth_provider of each account's row, "none" without one
    active,        \* is_active
    failed,        \* failed_login_attempts
    lockedUntil,   \* locked_until; NoLock is NULL
    issued,        \* the JTIs that have a row
    owner,         \* user_id of each
    revoked,
    issuedAt,      \* expires_at, less REFRESH_TOKEN_EXPIRE_DAYS
    pc,            \* per request, where it stands
    account,       \* the account it is about
    token,         \* the refresh token it presented
    seenFailed,    \* failed_login_attempts as it loaded them
    seenLock,      \* locked_until as it loaded it
    clock,         \* when it computed its deadlines, of a token or a lock
    now,
    parent,        \* history: the token each token was rotated from
    origin,        \* history: the provider of the sign-in it descends from
    wrong,         \* history: wrong passwords committed per account
    streak         \* history: those since its last successful login

row == <<provider, active>>
lockout == <<failed, lockedUntil>>
tokens == <<issued, owner, revoked, issuedAt, parent, origin>>
request == <<pc, account, token, seenFailed, seenLock, clock>>
attempts == <<wrong, streak>>
vars == <<row, lockout, tokens, request, now, attempts>>

Providers == {"email", "google"}
Steps == {"idle", "registering", "wrong_password", "signing_in", "google_new",
          "google_known", "found", "rotating", "logging_out"}
NoLock == 0
Times == 0..LastTime
Locks == 0..(LastTime + LockPeriod)

TypeOK ==
    /\ provider \in [Accounts -> Providers \cup {"none"}]
    /\ active \in [Accounts -> BOOLEAN]
    /\ failed \in [Accounts -> Nat]
    /\ lockedUntil \in [Accounts -> Locks]
    /\ issued \subseteq Tokens
    /\ owner \in [Tokens -> Accounts \cup {None}]
    /\ revoked \in [Tokens -> BOOLEAN]
    /\ issuedAt \in [Tokens -> Times]
    /\ pc \in [Requests -> Steps]
    /\ account \in [Requests -> Accounts \cup {None}]
    /\ token \in [Requests -> Tokens \cup {None}]
    /\ seenFailed \in [Requests -> Nat]
    /\ seenLock \in [Requests -> Locks]
    /\ clock \in [Requests -> Times]
    /\ now \in Times
    /\ parent \in [Tokens -> Tokens \cup {None}]
    /\ origin \in [Tokens -> Providers \cup {"none"}]
    /\ wrong \in [Accounts -> 0..MaxWrong]
    /\ streak \in [Accounts -> Nat]

Init ==
    /\ provider = [a \in Accounts |-> "none"]
    /\ active = [a \in Accounts |-> FALSE]
    /\ failed = [a \in Accounts |-> 0]
    /\ lockedUntil = [a \in Accounts |-> NoLock]
    /\ issued = {}
    /\ owner = [t \in Tokens |-> None]
    /\ revoked = [t \in Tokens |-> FALSE]
    /\ issuedAt = [t \in Tokens |-> 0]
    /\ pc = [r \in Requests |-> "idle"]
    /\ account = [r \in Requests |-> None]
    /\ token = [r \in Requests |-> None]
    /\ seenFailed = [r \in Requests |-> 0]
    /\ seenLock = [r \in Requests |-> NoLock]
    /\ clock = [r \in Requests |-> 0]
    /\ now = 0
    /\ parent = [t \in Tokens |-> None]
    /\ origin = [t \in Tokens |-> "none"]
    /\ wrong = [a \in Accounts |-> 0]
    /\ streak = [a \in Accounts |-> 0]

-----------------------------------------------------------------------------
\* Moves of one request.
At(r, step) == pc[r] = step

\* It read what it decides on, and goes on to its next read or its commit.
GoTo(r, step, a, t) ==
    /\ pc' = [pc EXCEPT ![r] = step]
    /\ account' = [account EXCEPT ![r] = a]
    /\ token' = [token EXCEPT ![r] = t]
    /\ clock' = [clock EXCEPT ![r] = now]

\* The first of these reads, from an idle slot.
Begin(r, step, a, t) ==
    /\ At(r, "idle")
    /\ GoTo(r, step, a, t)
    /\ UNCHANGED <<seenFailed, seenLock>>
    /\ UNCHANGED <<row, lockout, tokens, now, attempts>>

Leave(r) ==
    /\ pc' = [pc EXCEPT ![r] = "idle"]
    /\ account' = [account EXCEPT ![r] = None]
    /\ token' = [token EXCEPT ![r] = None]
    /\ seenFailed' = [seenFailed EXCEPT ![r] = 0]
    /\ seenLock' = [seenLock EXCEPT ![r] = NoLock]
    /\ clock' = [clock EXCEPT ![r] = 0]

Expired(t) == issuedAt[t] + RefreshTTL < now

\* A faulty variant of Usable, for mutation tests.
UsableUntilExpiry(t) == ~Expired(t)

Usable(t) == ~revoked[t] /\ ~Expired(t)

\* INSERT of a refresh token.
Insert(t, a, from, by, at) ==
    /\ t \in Tokens \ issued
    /\ issued' = issued \cup {t}
    /\ owner' = [owner EXCEPT ![t] = a]
    /\ issuedAt' = [issuedAt EXCEPT ![t] = at]
    /\ parent' = [parent EXCEPT ![t] = from]
    /\ origin' = [origin EXCEPT ![t] = by]

\* The new session of a sign-in descends from no token, and revokes none.
NewSession(r, by, at) ==
    /\ \E t \in Tokens : Insert(t, account[r], None, by, at)
    /\ UNCHANGED revoked

CreateRow(a, by) ==
    /\ provider' = [provider EXCEPT ![a] = by]
    /\ active' = [active EXCEPT ![a] = TRUE]

\* A faulty variant of what follows, for mutation tests.
CreateAccountUnindexed(r, by) ==
    /\ CreateRow(account[r], by)
    /\ NewSession(r, by, now)
    /\ Leave(r)
    /\ UNCHANGED <<lockout, now, attempts>>

\* INSERT of a user and its first session; the unique index on email_hmac
\* refuses it when another request has created the account meanwhile.
CreateAccount(r, by) ==
    /\ \/ /\ provider[account[r]] = "none"
          /\ CreateRow(account[r], by)
          /\ NewSession(r, by, now)
       \/ /\ provider[account[r]] # "none"
          /\ UNCHANGED <<row, tokens>>
    /\ Leave(r)
    /\ UNCHANGED <<lockout, now, attempts>>

-----------------------------------------------------------------------------
\* Registration and Google sign-in.  A 400 or 422 writes nothing, here and
\* below: the branches that only answer one are no actions.
RegisterSelect(r, a) ==
    /\ provider[a] = "none"
    /\ Begin(r, "registering", a, None)

RegisterCommit(r) == At(r, "registering") /\ CreateAccount(r, "email")

GoogleSelect(r, a) ==
    /\ provider[a] # "email"
    /\ Begin(r, IF provider[a] = "none" THEN "google_new" ELSE "google_known", a, None)

GoogleCreate(r) == At(r, "google_new") /\ CreateAccount(r, "google")

\* Unlike login(), this asks neither is_active nor locked_until.
GoogleCommit(r) ==
    /\ At(r, "google_known")
    /\ NewSession(r, "google", clock[r])
    /\ Leave(r)
    /\ UNCHANGED <<row, lockout, now, attempts>>

-----------------------------------------------------------------------------
(***************************************************************************)
(* Password login: one SELECT, then the password is verified on the row    *)
(* loaded.                                                                 *)
(***************************************************************************)
LoginSelect(r, a, step) ==
    /\ At(r, "idle")
    /\ provider[a] = "email"
    /\ GoTo(r, step, a, None)
    /\ seenFailed' = [seenFailed EXCEPT ![r] = failed[a]]
    /\ seenLock' = [seenLock EXCEPT ![r] = lockedUntil[a]]
    /\ UNCHANGED <<row, lockout, tokens, now, attempts>>

LoginWrong(r, a) ==
    /\ LoginSelect(r, a, "wrong_password")
    /\ wrong[a] < MaxWrong

LoginRight(r, a) ==
    /\ LoginSelect(r, a, "signing_in")
    /\ active[a]

\* Faulty variants of LockAfter, for mutation tests.
LockOneLate(a, count, at) ==
    IF count > LockThreshold
      THEN [lockedUntil EXCEPT ![a] = at + LockPeriod] ELSE lockedUntil
LockOneEarly(a, count, at) ==
    IF count + 1 >= LockThreshold
      THEN [lockedUntil EXCEPT ![a] = at + LockPeriod] ELSE lockedUntil
LockInHours(a, count, at) ==
    IF count >= LockThreshold
      THEN [lockedUntil EXCEPT ![a] = at + 60 * LockPeriod] ELSE lockedUntil

LockAfter(a, count, at) ==
    IF count >= LockThreshold
      THEN [lockedUntil EXCEPT ![a] = at + LockPeriod] ELSE lockedUntil

\* One more than the count loaded, which another request may have changed.
LoginFailed(r) ==
    LET a == account[r]
        count == seenFailed[r] + 1
    IN  /\ At(r, "wrong_password")
        /\ wrong[a] < MaxWrong
        /\ failed' = [failed EXCEPT ![a] = count]
        /\ lockedUntil' = LockAfter(a, count, clock[r])
        /\ wrong' = [wrong EXCEPT ![a] = @ + 1]
        /\ streak' = [streak EXCEPT ![a] = @ + 1]
        /\ Leave(r)
        /\ UNCHANGED <<row, tokens, now>>

\* The counter and the lock are reset only if they were loaded as set.
LoginCommit(r) ==
    LET a == account[r]
    IN  /\ At(r, "signing_in")
        /\ failed' = IF seenFailed[r] # 0 THEN [failed EXCEPT ![a] = 0] ELSE failed
        /\ lockedUntil' = IF seenLock[r] # NoLock
                            THEN [lockedUntil EXCEPT ![a] = NoLock] ELSE lockedUntil
        /\ NewSession(r, "email", clock[r])
        /\ streak' = [streak EXCEPT ![a] = 0]
        /\ Leave(r)
        /\ UNCHANGED <<row, now, wrong>>

-----------------------------------------------------------------------------
(***************************************************************************)
(* Refresh-token rotation and logout.  A client may present any token that *)
(* was ever issued, as often as it likes, from several requests at once.   *)
(***************************************************************************)
RefreshToken(r, t) ==
    /\ t \in issued /\ Usable(t)
    /\ Begin(r, "found", owner[t], t)

\* db.get(User, rt.user_id); the new token's deadline is computed here.
RefreshUser(r) ==
    /\ At(r, "found")
    /\ \/ /\ active[account[r]]
          /\ GoTo(r, "rotating", account[r], token[r])
          /\ UNCHANGED <<seenFailed, seenLock>>
       \/ /\ ~active[account[r]]
          /\ Leave(r)
    /\ UNCHANGED <<row, lockout, tokens, now, attempts>>

\* A faulty variant of RefreshCommit, for mutation tests.
RefreshCommitKeepsOld(r) ==
    /\ At(r, "rotating")
    /\ \E t \in Tokens :
          Insert(t, account[r], token[r], origin[token[r]], clock[r])
    /\ Leave(r)
    /\ UNCHANGED <<row, lockout, revoked, now, attempts>>

\* One transaction revokes the old token and inserts the new one.
RefreshCommit(r) ==
    /\ At(r, "rotating")
    /\ revoked' = [revoked EXCEPT ![token[r]] = TRUE]
    /\ \E t \in Tokens :
          Insert(t, account[r], token[r], origin[token[r]], clock[r])
    /\ Leave(r)
    /\ UNCHANGED <<row, lockout, now, attempts>>

LogoutToken(r, t) ==
    /\ t \in issued /\ ~Expired(t)
    /\ Begin(r, "logging_out", owner[t], t)

LogoutCommit(r) ==
    /\ At(r, "logging_out")
    /\ revoked' = [revoked EXCEPT ![token[r]] = TRUE]
    /\ Leave(r)
    /\ UNCHANGED <<row, lockout, issued, owner, issuedAt, parent, origin, now, attempts>>

-----------------------------------------------------------------------------
\* A request ends without a commit: its client went away, its database
\* connection failed, or the process restarted.
End(r) ==
    /\ ~At(r, "idle")
    /\ Leave(r)
    /\ UNCHANGED <<row, lockout, tokens, now, attempts>>

\* Nothing in the program writes is_active: an operator does, in the database.
SetActive(a) ==
    /\ provider[a] # "none"
    /\ active' = [active EXCEPT ![a] = ~@]
    /\ UNCHANGED <<provider, lockout, tokens, request, now, attempts>>

Tick ==
    /\ now < LastTime
    /\ now' = now + 1
    /\ UNCHANGED <<row, lockout, tokens, request, attempts>>

SignIn(r) ==
    \/ \E a \in Accounts :
          \/ RegisterSelect(r, a) \/ GoogleSelect(r, a)
          \/ LoginWrong(r, a) \/ LoginRight(r, a)
    \/ RegisterCommit(r) \/ GoogleCreate(r) \/ GoogleCommit(r)
    \/ LoginFailed(r) \/ LoginCommit(r)

Rotation(r) ==
    \/ \E t \in Tokens : RefreshToken(r, t) \/ LogoutToken(r, t)
    \/ RefreshUser(r) \/ RefreshCommit(r) \/ LogoutCommit(r)

Next ==
    \/ \E r \in Requests : SignIn(r) \/ Rotation(r) \/ End(r)
    \/ \E a \in Accounts : SetActive(a)
    \/ Tick

Spec == Init /\ [][Next]_vars

-----------------------------------------------------------------------------
(***************************************************************************)
(* Rotation.  refresh() reads the token, then the user, and only then      *)
(* commits, so several requests may rotate the same token.  This is what   *)
(* rotation guarantees all the same.                                       *)
(***************************************************************************)
Children(t) == {c \in issued : parent[c] = t}
Presenting(t) == {r \in Requests : pc[r] \in {"found", "rotating"} /\ token[r] = t}

\* A token with a successor is revoked: no interleaving of refreshes and
\* logouts, and no request that ends half-way, leaves both of them usable.
PredecessorsRevoked == \A c \in issued : parent[c] # None => revoked[parent[c]]

\* However often and from however many requests a token is replayed, it never
\* gets more successors than there are requests in flight.
ReplayBounded == \A t \in Tokens : Cardinality(Children(t)) <= Cardinality(Requests)

\* The window closes with the first commit: once a token is revoked no request
\* can begin to use it, and when those that had begun are over, its line ends.
ReplayWindowCloses ==
    [][\A t \in Tokens :
          revoked[t] =>
              /\ Presenting(t)' \subseteq Presenting(t)
              /\ Presenting(t) = {} => Children(t)' = Children(t)]_vars

\* However registrations and Google sign-ins of one address race, a session
\* never belongs to an account of the other provider, whatever it was rotated
\* through since: nobody gets into an account they did not sign in to.
SessionsMatchProvider ==
    \A t \in issued : origin[t] = provider[owner[t]]

\* Seen from its commits, the table is a store of sessions: a token is revoked
\* for good, with its successor's INSERT or by a logout and in no other way,
\* and only a request that found it live can rotate it, within its account.
Live == {t \in issued : ~revoked[t]}
Dead == {t \in issued : revoked[t]}
Held == [r \in Requests |-> IF pc[r] \in {"found", "rotating"} THEN token[r] ELSE None]

Store == INSTANCE SessionStore WITH live <- Live, dead <- Dead, holds <- Held

KeepsStore == Store!Spec

-----------------------------------------------------------------------------
\* Lockout counts on stale reads, but never too much: an account is locked
\* only after as many wrong passwords for it as the threshold asks.
LockNeedsWrongPasswords ==
    \A a \in Accounts : lockedUntil[a] # NoLock => wrong[a] >= LockThreshold

\* Concurrent wrong passwords count on the same read and lose each other's
\* increments, so five of them need not lock.  But each uses up a low count
\* that some request still holds, and those run out: so many wrong passwords
\* with no successful login between them always lock.  With one request at a
\* time this is the threshold itself; with more no smaller number would do.
BruteForceBounded ==
    LET n == Cardinality(Requests)
        Enough == choose(n + LockThreshold - 1, LockThreshold - 1)
    IN  \A a \in Accounts : streak[a] >= Enough => lockedUntil[a] # NoLock

-----------------------------------------------------------------------------
(***************************************************************************)
(* A promise of the documentation that the code does not keep.             *)
(***************************************************************************)

\* README, refresh token rotation: "stolen refresh tokens are single-use".
RefreshSingleUse == \A t \in Tokens : Cardinality(Children(t)) <= 1
=============================================================================
