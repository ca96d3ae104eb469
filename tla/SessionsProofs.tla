--------------------------- MODULE SessionsProofs ---------------------------
(***************************************************************************)
(* What Sessions guarantees for every number of requests, accounts and     *)
(* tokens.  The argument is one inductive invariant, Inv: what a request   *)
(* between its read and its commit still knows about the rows it read.     *)
(***************************************************************************)
EXTENDS Sessions, Counting, FiniteSetTheorems, TLAPS

\* An account never changes provider, so a request that read it still knows
\* it at its commit; a token that was issued stays issued.
RequestValid(r) ==
    /\ ~At(r, "idle") => account[r] \in Accounts
    /\ pc[r] \in {"wrong_password", "signing_in"} =>
          provider[account[r]] = "email"
    /\ At(r, "google_known") => provider[account[r]] = "google"
    /\ pc[r] \in {"found", "rotating", "logging_out"} =>
          token[r] \in issued /\ owner[token[r]] = account[r]

RequestsValid == \A r \in Requests : RequestValid(r)

TokenValid(t) ==
    /\ owner[t] \in Accounts
    /\ provider[owner[t]] = origin[t]
    /\ provider[owner[t]] # "none"
    /\ parent[t] # None => parent[t] \in issued /\ revoked[parent[t]]

TokensValid == \A t \in issued : TokenValid(t)

\* No count that was ever stored or loaded exceeds the wrong passwords given.
AccountCount(a) ==
    /\ failed[a] <= wrong[a]
    /\ lockedUntil[a] # NoLock => wrong[a] >= LockThreshold

RequestCount(r) ==
    At(r, "wrong_password") => seenFailed[r] <= wrong[account[r]]

CountsValid ==
    /\ \A a \in Accounts : AccountCount(a)
    /\ \A r \in Requests : RequestCount(r)

-----------------------------------------------------------------------------
(***************************************************************************)
(* Types.                                                                  *)
(***************************************************************************)
LEMMA InitValid == Init => TypeOK /\ RequestsValid /\ TokensValid /\ CountsValid
  BY SessionsAssumption
     DEF Init, TypeOK, RequestsValid, RequestValid, TokensValid, CountsValid,
         AccountCount, RequestCount, At, Steps,
         Times, Locks, NoLock, Providers

RequestType ==
    /\ pc \in [Requests -> Steps]
    /\ account \in [Requests -> Accounts \cup {None}]
    /\ token \in [Requests -> Tokens \cup {None}]
    /\ seenFailed \in [Requests -> Nat]
    /\ seenLock \in [Requests -> Locks]
    /\ clock \in [Requests -> Times]

LEMMA LeaveType ==
    ASSUME TypeOK, NEW r \in Requests, Leave(r)
    PROVE  RequestType'
  BY SessionsAssumption
     DEF TypeOK, Leave, RequestType, Steps, Times, Locks, NoLock

LEMMA GoToType ==
    ASSUME TypeOK, NEW r \in Requests, NEW step \in Steps,
           NEW a \in Accounts \cup {None}, NEW t \in Tokens \cup {None},
           GoTo(r, step, a, t)
    PROVE  /\ pc' \in [Requests -> Steps]
           /\ account' \in [Requests -> Accounts \cup {None}]
           /\ token' \in [Requests -> Tokens \cup {None}]
           /\ clock' \in [Requests -> Times]
  BY DEF TypeOK, GoTo

TokenType ==
    /\ issued \subseteq Tokens
    /\ owner \in [Tokens -> Accounts \cup {None}]
    /\ issuedAt \in [Tokens -> Times]
    /\ parent \in [Tokens -> Tokens \cup {None}]
    /\ origin \in [Tokens -> Providers \cup {"none"}]

LEMMA InsertType ==
    ASSUME TypeOK, NEW t, NEW a \in Accounts \cup {None},
           NEW from \in Tokens \cup {None},
           NEW by \in Providers \cup {"none"}, NEW at \in Times,
           Insert(t, a, from, by, at)
    PROVE  TokenType'
  BY DEF TypeOK, Insert, TokenType

RowType ==
    /\ provider \in [Accounts -> Providers \cup {"none"}]
    /\ active \in [Accounts -> BOOLEAN]

LockoutType ==
    /\ failed \in [Accounts -> Nat]
    /\ lockedUntil \in [Accounts -> Locks]

AttemptsType ==
    /\ wrong \in [Accounts -> 0..MaxWrong]
    /\ streak \in [Accounts -> Nat]

RevokedType == revoked \in [Tokens -> BOOLEAN]

LEMMA TypeParts ==
    TypeOK <=> /\ RowType /\ LockoutType /\ TokenType /\ RevokedType
               /\ RequestType /\ AttemptsType /\ now \in Times
  BY DEF TypeOK, RowType, LockoutType, TokenType, RevokedType, RequestType,
         AttemptsType

LEMMA TypeNext ==
    ASSUME RowType', LockoutType', TokenType', RevokedType', RequestType',
           AttemptsType', now' \in Times
    PROVE  TypeOK'
  BY DEF TypeOK, RowType, LockoutType, TokenType, RevokedType, RequestType,
         AttemptsType

\* What a step leaves alone keeps its type.
LEMMA UnchangedTypes ==
    ASSUME TypeOK
    PROVE  /\ UNCHANGED row => RowType'
           /\ UNCHANGED lockout => LockoutType'
           /\ UNCHANGED tokens => TokenType' /\ RevokedType'
           /\ UNCHANGED revoked => RevokedType'
           /\ UNCHANGED request => RequestType'
           /\ UNCHANGED attempts => AttemptsType'
           /\ UNCHANGED now => now' \in Times
  BY TypeParts
     DEF RowType, LockoutType, TokenType, RevokedType, RequestType,
         AttemptsType, row, lockout, tokens, request, attempts

\* The steps that only read rows.
LEMMA ReadType ==
    ASSUME TypeOK, RequestType',
           UNCHANGED <<row, lockout, tokens, now, attempts>>
    PROVE  TypeOK'
  BY UnchangedTypes, TypeNext

LEMMA BeginType ==
    ASSUME TypeOK, NEW r \in Requests, NEW step \in Steps,
           NEW a \in Accounts \cup {None}, NEW t \in Tokens \cup {None},
           Begin(r, step, a, t)
    PROVE  TypeOK'
  <1>1. /\ GoTo(r, step, a, t) /\ UNCHANGED <<seenFailed, seenLock>>
        /\ UNCHANGED <<row, lockout, tokens, now, attempts>>
    BY DEF Begin
  <1>2. RequestType'
    BY <1>1, GoToType DEF TypeOK, RequestType
  <1> QED
    BY <1>1, <1>2, ReadType

LEMMA NewSessionType ==
    ASSUME TypeOK, NEW r \in Requests, NEW by \in Providers \cup {"none"},
           NEW at \in Times, NewSession(r, by, at)
    PROVE  TokenType' /\ RevokedType'
  <1>1. PICK t \in Tokens : Insert(t, account[r], None, by, at)
    BY DEF NewSession
  <1>2. account[r] \in Accounts \cup {None}
    BY DEF TypeOK
  <1>3. TokenType'
    BY <1>1, <1>2, InsertType
  <1> QED
    BY <1>3, UnchangedTypes DEF NewSession

LEMMA CreateAccountType ==
    ASSUME TypeOK, NEW r \in Requests, NEW by \in Providers,
           CreateAccount(r, by)
    PROVE  TypeOK'
  <1>1. RequestType' /\ LockoutType' /\ AttemptsType' /\ now' \in Times
    BY LeaveType, UnchangedTypes DEF CreateAccount
  <1>2. CASE CreateRow(account[r], by) /\ NewSession(r, by, now)
    <2>1. RowType'
      BY <1>2 DEF TypeOK, RowType, CreateRow
    <2>2. TokenType' /\ RevokedType'
      BY <1>2, NewSessionType DEF TypeOK
    <2> QED
      BY <1>1, <2>1, <2>2, TypeNext
  <1>3. CASE UNCHANGED <<row, tokens>>
    BY <1>1, <1>3, UnchangedTypes, TypeNext
  <1> QED
    BY <1>2, <1>3 DEF CreateAccount

LEMMA TypeStep ==
    ASSUME TypeOK, RequestsValid, TokensValid, Next
    PROVE  TypeOK'
  <1>1. ASSUME NEW r \in Requests, NEW a \in Accounts,
               RegisterSelect(r, a) \/ GoogleSelect(r, a)
        PROVE  TypeOK'
    <2>1. PICK step \in Steps : Begin(r, step, a, None)
      BY <1>1 DEF RegisterSelect, GoogleSelect, Steps
    <2> QED
      BY <2>1, BeginType
  <1>2. ASSUME NEW r \in Requests, NEW t \in Tokens,
               RefreshToken(r, t) \/ LogoutToken(r, t)
        PROVE  TypeOK'
    <2>1. PICK step \in Steps : Begin(r, step, owner[t], t)
      BY <1>2 DEF RefreshToken, LogoutToken, Steps
    <2>2. owner[t] \in Accounts \cup {None}
      BY DEF TypeOK
    <2> QED
      BY <2>1, <2>2, BeginType
  <1>3. ASSUME NEW r \in Requests, NEW a \in Accounts,
               LoginWrong(r, a) \/ LoginRight(r, a)
        PROVE  TypeOK'
    <2>1. PICK step \in Steps : LoginSelect(r, a, step)
      BY <1>3 DEF LoginWrong, LoginRight, Steps
    <2>2. RequestType'
      BY <2>1, GoToType DEF LoginSelect, TypeOK, RequestType
    <2> QED
      BY <2>1, <2>2, ReadType DEF LoginSelect
  <1>4. ASSUME NEW r \in Requests, RegisterCommit(r) \/ GoogleCreate(r)
        PROVE  TypeOK'
    BY <1>4, CreateAccountType DEF RegisterCommit, GoogleCreate, Providers
  <1>5. ASSUME NEW r \in Requests, GoogleCommit(r)
        PROVE  TypeOK'
    <2>1. TokenType' /\ RevokedType'
      BY <1>5, NewSessionType DEF GoogleCommit, TypeOK, Providers
    <2> QED
      BY <1>5, <2>1, LeaveType, UnchangedTypes, TypeNext DEF GoogleCommit
  <1>6. ASSUME NEW r \in Requests, LoginFailed(r)
        PROVE  TypeOK'
    <2>1. /\ account[r] \in Accounts /\ wrong[account[r]] < MaxWrong
          /\ seenFailed[r] + 1 \in Nat /\ clock[r] + LockPeriod \in Locks
      BY <1>6, SessionsAssumption
         DEF LoginFailed, RequestsValid, RequestValid, TypeOK, At, Times, Locks
    <2>2. LockoutType'
      BY <1>6, <2>1 DEF LoginFailed, LockAfter, TypeOK, LockoutType
    <2>3. AttemptsType'
      BY <1>6, <2>1, SessionsAssumption DEF LoginFailed, TypeOK, AttemptsType
    <2> QED
      BY <1>6, <2>2, <2>3, LeaveType, UnchangedTypes, TypeNext DEF LoginFailed
  <1>7. ASSUME NEW r \in Requests, LoginCommit(r)
        PROVE  TypeOK'
    <2>1. LockoutType'
      <3>1. NoLock \in Locks
        BY SessionsAssumption DEF Locks, NoLock
      <3>2. failed' \in [Accounts -> Nat]
        BY <1>7 DEF LoginCommit, TypeOK
      <3>3. lockedUntil' \in [Accounts -> Locks]
        BY <1>7, <3>1 DEF LoginCommit, TypeOK
      <3> QED
        BY <3>2, <3>3 DEF LockoutType
    <2>2. AttemptsType'
      BY <1>7 DEF LoginCommit, TypeOK, AttemptsType
    <2>3. TokenType' /\ RevokedType'
      BY <1>7, NewSessionType DEF LoginCommit, TypeOK, Providers
    <2> QED
      BY <1>7, <2>1, <2>2, <2>3, LeaveType, UnchangedTypes, TypeNext
         DEF LoginCommit
  <1>8. ASSUME NEW r \in Requests, RefreshUser(r)
        PROVE  TypeOK'
    <2>1. account[r] \in Accounts \cup {None} /\ token[r] \in Tokens \cup {None}
      BY DEF TypeOK
    <2>2. RequestType'
      BY <1>8, <2>1, GoToType, LeaveType
         DEF RefreshUser, TypeOK, RequestType, Steps
    <2> QED
      BY <1>8, <2>2, ReadType DEF RefreshUser
  <1>9. ASSUME NEW r \in Requests, RefreshCommit(r)
        PROVE  TypeOK'
    <2>1. token[r] \in Tokens
      BY <1>9 DEF RefreshCommit, RequestsValid, RequestValid, TypeOK, At
    <2>2. PICK t \in Tokens :
             Insert(t, account[r], token[r], origin[token[r]], clock[r])
      BY <1>9 DEF RefreshCommit
    <2>3. TokenType'
      BY <2>1, <2>2, InsertType DEF TypeOK
    <2>4. RevokedType'
      BY <1>9 DEF RefreshCommit, TypeOK, RevokedType
    <2> QED
      BY <1>9, <2>3, <2>4, LeaveType, UnchangedTypes, TypeNext
         DEF RefreshCommit
  <1>10. ASSUME NEW r \in Requests, LogoutCommit(r)
         PROVE  TypeOK'
    <2>1. TokenType' /\ RevokedType'
      BY <1>10 DEF LogoutCommit, TypeOK, TokenType, RevokedType
    <2> QED
      BY <1>10, <2>1, LeaveType, UnchangedTypes, TypeNext DEF LogoutCommit
  <1>11. ASSUME NEW r \in Requests, End(r)
         PROVE  TypeOK'
    BY <1>11, LeaveType, ReadType DEF End
  <1>12. ASSUME NEW a \in Accounts, SetActive(a)
         PROVE  TypeOK'
    <2>1. RowType'
      BY <1>12 DEF SetActive, TypeOK, RowType
    <2> QED
      BY <1>12, <2>1, UnchangedTypes, TypeNext DEF SetActive
  <1>13. CASE Tick
    <2>1. now' \in Times
      BY <1>13, SessionsAssumption DEF Tick, TypeOK, Times
    <2> QED
      BY <1>13, <2>1, UnchangedTypes, TypeNext DEF Tick
  <1> QED
    BY <1>1, <1>2, <1>3, <1>4, <1>5, <1>6, <1>7, <1>8, <1>9, <1>10, <1>11,
       <1>12, <1>13 DEF Next, SignIn, Rotation

-----------------------------------------------------------------------------
(***************************************************************************)
(* What no step undoes.                                                    *)
(***************************************************************************)
Stable ==
    /\ \A a \in Accounts : provider[a] # "none" => provider'[a] = provider[a]
    /\ issued \subseteq issued'
    /\ \A t \in issued :
          /\ owner'[t] = owner[t]
          /\ origin'[t] = origin[t]
          /\ parent'[t] = parent[t]
          /\ revoked[t] => revoked'[t]

LEMMA StableUnchanged ==
    ASSUME UNCHANGED provider, UNCHANGED <<issued, owner, origin, parent, revoked>>
    PROVE  Stable
  BY DEF Stable

LEMMA StableInsert ==
    ASSUME TypeOK, NEW t, NEW a, NEW from, NEW by, NEW at,
           Insert(t, a, from, by, at),
           \A b \in Accounts : provider[b] # "none" => provider'[b] = provider[b],
           \A c \in issued : revoked[c] => revoked'[c]
    PROVE  Stable
  BY DEF TypeOK, Insert, Stable

LEMMA StableNewSession ==
    ASSUME TypeOK, NEW r, NEW by, NEW at, NewSession(r, by, at),
           \A b \in Accounts : provider[b] # "none" => provider'[b] = provider[b]
    PROVE  Stable
  BY StableInsert DEF NewSession

LEMMA StableCreate ==
    ASSUME TypeOK, NEW r \in Requests, NEW by, CreateAccount(r, by)
    PROVE  Stable
  <1>1. CASE /\ provider[account[r]] = "none"
             /\ CreateRow(account[r], by) /\ NewSession(r, by, now)
    <2>1. \A b \in Accounts : provider[b] # "none" => provider'[b] = provider[b]
      BY <1>1 DEF CreateRow, TypeOK
    <2> QED
      BY <1>1, <2>1, StableNewSession
  <1>2. CASE UNCHANGED <<row, tokens>>
    BY <1>2, StableUnchanged DEF row, tokens
  <1> QED
    BY <1>1, <1>2 DEF CreateAccount

LEMMA StableStep ==
    ASSUME TypeOK, RequestsValid, Next
    PROVE  Stable
  <1>1. ASSUME NEW r \in Requests, RegisterCommit(r) \/ GoogleCreate(r)
        PROVE  Stable
    BY <1>1, StableCreate DEF RegisterCommit, GoogleCreate
  <1>2. ASSUME NEW r \in Requests, GoogleCommit(r) \/ LoginCommit(r)
        PROVE  Stable
    BY <1>2, StableNewSession DEF GoogleCommit, LoginCommit, row
  <1>3. ASSUME NEW r \in Requests, RefreshCommit(r)
        PROVE  Stable
    <2>1. \A c \in issued : revoked[c] => revoked'[c]
      BY <1>3 DEF RefreshCommit, TypeOK
    <2>2. UNCHANGED provider
      BY <1>3 DEF RefreshCommit, row
    <2> QED
      BY <1>3, <2>1, <2>2, StableInsert DEF RefreshCommit
  <1>4. ASSUME NEW r \in Requests, LogoutCommit(r)
        PROVE  Stable
    <2>1. \A c \in issued : revoked[c] => revoked'[c]
      BY <1>4 DEF LogoutCommit, TypeOK
    <2> QED
      BY <1>4, <2>1 DEF LogoutCommit, Stable, row
  <1>5. ASSUME UNCHANGED <<row, tokens>>
        PROVE  Stable
    BY <1>5, StableUnchanged DEF row, tokens
  <1>6. ASSUME NEW r \in Requests, NEW a \in Accounts,
               \/ RegisterSelect(r, a) \/ GoogleSelect(r, a)
               \/ LoginWrong(r, a) \/ LoginRight(r, a)
        PROVE  Stable
    BY <1>5, <1>6 DEF RegisterSelect, GoogleSelect, LoginWrong, LoginRight,
       LoginSelect, Begin
  <1>7. ASSUME NEW r \in Requests, NEW t \in Tokens,
               RefreshToken(r, t) \/ LogoutToken(r, t)
        PROVE  Stable
    BY <1>5, <1>7 DEF RefreshToken, LogoutToken, Begin
  <1>8. ASSUME NEW r \in Requests, RefreshUser(r) \/ LoginFailed(r) \/ End(r)
        PROVE  Stable
    BY <1>5, <1>8 DEF RefreshUser, LoginFailed, End
  <1>9. ASSUME NEW a \in Accounts, SetActive(a)
        PROVE  Stable
    BY <1>9, StableUnchanged DEF SetActive, tokens
  <1>10. CASE Tick
    BY <1>5, <1>10 DEF Tick
  <1> QED
    BY <1>1, <1>2, <1>3, <1>4, <1>6, <1>7, <1>8, <1>9, <1>10
       DEF Next, SignIn, Rotation

-----------------------------------------------------------------------------
(***************************************************************************)
(* What a request still knows of the rows it read.                         *)
(***************************************************************************)
LEMMA OtherValid ==
    ASSUME TypeOK, RequestsValid, Stable, NEW q \in Requests,
           pc'[q] = pc[q], account'[q] = account[q], token'[q] = token[q]
    PROVE  RequestValid(q)'
  BY DEF RequestsValid, RequestValid, Stable, At, TypeOK

LEMMA LeaveValid ==
    ASSUME TypeOK, RequestsValid, Stable, NEW r \in Requests, Leave(r)
    PROVE  RequestsValid'
  <1> SUFFICES ASSUME NEW q \in Requests PROVE RequestValid(q)'
    BY DEF RequestsValid
  <1>1. CASE q = r
    <2>1. pc'[q] = "idle"
      BY <1>1 DEF Leave, TypeOK
    <2> QED
      BY <2>1 DEF RequestValid, At
  <1>2. CASE q # r
    BY <1>2, OtherValid DEF Leave, TypeOK
  <1> QED
    BY <1>1, <1>2

LEMMA GoToValid ==
    ASSUME TypeOK, RequestsValid, Stable, NEW r \in Requests, NEW step,
           NEW a \in Accounts, NEW t, GoTo(r, step, a, t),
           step \in {"wrong_password", "signing_in"} => provider[a] = "email",
           step = "google_known" => provider[a] = "google",
           step \in {"found", "rotating", "logging_out"} =>
               t \in issued /\ owner[t] = a
    PROVE  RequestsValid'
  <1> SUFFICES ASSUME NEW q \in Requests PROVE RequestValid(q)'
    BY DEF RequestsValid
  <1>1. CASE q = r
    <2>1. pc'[q] = step /\ account'[q] = a /\ token'[q] = t
      BY <1>1 DEF GoTo, TypeOK
    <2> QED
      BY <2>1 DEF RequestValid, At, Stable
  <1>2. CASE q # r
    BY <1>2, OtherValid DEF GoTo, TypeOK
  <1> QED
    BY <1>1, <1>2

LEMMA RequestsStep ==
    ASSUME TypeOK, RequestsValid, TokensValid, Next
    PROVE  RequestsValid'
  <1>0. Stable
    BY StableStep
  <1>1. ASSUME NEW r \in Requests, NEW a \in Accounts,
               RegisterSelect(r, a) \/ GoogleSelect(r, a)
        PROVE  RequestsValid'
    <2>1. CASE RegisterSelect(r, a)
      BY <1>0, <2>1, GoToValid DEF RegisterSelect, Begin
    <2>2. CASE GoogleSelect(r, a)
      <3>1. provider[a] \in {"none", "google"}
        BY <2>2 DEF GoogleSelect, TypeOK, Providers
      <3>2. CASE provider[a] = "none"
        BY <1>0, <2>2, <3>2, GoToValid DEF GoogleSelect, Begin
      <3>3. CASE provider[a] = "google"
        BY <1>0, <2>2, <3>3, GoToValid DEF GoogleSelect, Begin
      <3> QED
        BY <3>1, <3>2, <3>3
    <2> QED
      BY <1>1, <2>1, <2>2
  <1>2. ASSUME NEW r \in Requests, NEW t \in Tokens,
               RefreshToken(r, t) \/ LogoutToken(r, t)
        PROVE  RequestsValid'
    <2>1. PICK step \in {"found", "logging_out"} :
             t \in issued /\ GoTo(r, step, owner[t], t)
      BY <1>2 DEF RefreshToken, LogoutToken, Begin
    <2>2. owner[t] \in Accounts
      BY <2>1 DEF TokensValid, TokenValid
    <2> QED
      BY <1>0, <2>1, <2>2, GoToValid
  <1>3. ASSUME NEW r \in Requests, NEW a \in Accounts,
               LoginWrong(r, a) \/ LoginRight(r, a)
        PROVE  RequestsValid'
    <2>1. PICK step \in {"wrong_password", "signing_in"} :
             provider[a] = "email" /\ GoTo(r, step, a, None)
      BY <1>3 DEF LoginWrong, LoginRight, LoginSelect
    <2> QED
      BY <1>0, <2>1, GoToValid
  <1>4. ASSUME NEW r \in Requests, RefreshUser(r)
        PROVE  RequestsValid'
    <2>1. account[r] \in Accounts /\ token[r] \in issued
             /\ owner[token[r]] = account[r]
      BY <1>4 DEF RefreshUser, RequestsValid, RequestValid, At
    <2>2. CASE Leave(r)
      BY <1>0, <2>2, LeaveValid
    <2>3. CASE GoTo(r, "rotating", account[r], token[r])
      BY <1>0, <2>1, <2>3, GoToValid
    <2> QED
      BY <1>4, <2>2, <2>3 DEF RefreshUser
  <1>5. ASSUME NEW r \in Requests,
               \/ RegisterCommit(r) \/ GoogleCreate(r) \/ GoogleCommit(r)
               \/ LoginFailed(r) \/ LoginCommit(r) \/ RefreshCommit(r)
               \/ LogoutCommit(r) \/ End(r)
        PROVE  RequestsValid'
    <2>1. Leave(r)
      BY <1>5 DEF RegisterCommit, GoogleCreate, GoogleCommit, LoginFailed,
         LoginCommit, RefreshCommit, LogoutCommit, End, CreateAccount
    <2> QED
      BY <1>0, <2>1, LeaveValid
  <1>6. ASSUME UNCHANGED request
        PROVE  RequestsValid'
    BY <1>0, <1>6, OtherValid DEF request, RequestsValid
  <1> QED
    BY <1>1, <1>2, <1>3, <1>4, <1>5, <1>6
       DEF Next, SignIn, Rotation, SetActive, Tick

-----------------------------------------------------------------------------
(***************************************************************************)
(* Tokens: whose they are, and that their predecessors are revoked.        *)
(***************************************************************************)
LEMMA OldTokenValid ==
    ASSUME TypeOK, TokensValid, Stable, NEW t \in issued
    PROVE  TokenValid(t)'
  BY DEF TokensValid, TokenValid, Stable, TypeOK

LEMMA UnchangedTokensValid ==
    ASSUME TypeOK, TokensValid, Stable, UNCHANGED issued
    PROVE  TokensValid'
  BY OldTokenValid DEF TokensValid

LEMMA InsertValid ==
    ASSUME TypeOK, TokensValid, Stable, NEW t, NEW a \in Accounts,
           NEW from \in Tokens \cup {None}, NEW by, NEW at,
           Insert(t, a, from, by, at),
           provider'[a] = by, by # "none",
           from # None => from \in issued /\ revoked'[from]
    PROVE  TokensValid'
  <1>1. TokenValid(t)'
    <2>1. owner'[t] = a /\ parent'[t] = from /\ origin'[t] = by
      BY DEF Insert, TypeOK
    <2> QED
      BY <2>1 DEF TokenValid, Insert
  <1> QED
    BY <1>1, OldTokenValid DEF TokensValid, Insert

LEMMA NewSessionValid ==
    ASSUME TypeOK, TokensValid, Stable, NEW r \in Requests, NEW by, NEW at,
           account[r] \in Accounts, NewSession(r, by, at),
           provider'[account[r]] = by, by # "none"
    PROVE  TokensValid'
  <1>1. PICK t \in Tokens : Insert(t, account[r], None, by, at)
    BY DEF NewSession
  <1> QED
    BY <1>1, InsertValid

LEMMA CreateValid ==
    ASSUME TypeOK, TokensValid, Stable, NEW r \in Requests,
           account[r] \in Accounts, NEW by \in Providers, CreateAccount(r, by)
    PROVE  TokensValid'
  <1>1. CASE CreateRow(account[r], by) /\ NewSession(r, by, now)
    <2>1. provider'[account[r]] = by /\ by # "none"
      BY <1>1 DEF CreateRow, TypeOK, Providers
    <2> QED
      BY <1>1, <2>1, NewSessionValid
  <1>2. CASE UNCHANGED <<row, tokens>>
    BY <1>2, UnchangedTokensValid DEF tokens
  <1> QED
    BY <1>1, <1>2 DEF CreateAccount

LEMMA TokensStep ==
    ASSUME TypeOK, RequestsValid, TokensValid, Next
    PROVE  TokensValid'
  <1>0. Stable
    BY StableStep
  <1>1. ASSUME NEW r \in Requests, RegisterCommit(r) \/ GoogleCreate(r)
        PROVE  TokensValid'
    <2>1. account[r] \in Accounts
      BY <1>1 DEF RegisterCommit, GoogleCreate, RequestsValid, RequestValid, At
    <2> QED
      BY <1>0, <1>1, <2>1, CreateValid DEF RegisterCommit, GoogleCreate, Providers
  <1>2. ASSUME NEW r \in Requests, GoogleCommit(r)
        PROVE  TokensValid'
    <2>1. account[r] \in Accounts /\ provider'[account[r]] = "google"
      BY <1>2 DEF GoogleCommit, RequestsValid, RequestValid, At, row
    <2> QED
      BY <1>0, <1>2, <2>1, NewSessionValid DEF GoogleCommit
  <1>3. ASSUME NEW r \in Requests, LoginCommit(r)
        PROVE  TokensValid'
    <2>1. account[r] \in Accounts /\ provider'[account[r]] = "email"
      BY <1>3 DEF LoginCommit, RequestsValid, RequestValid, At, row
    <2> QED
      BY <1>0, <1>3, <2>1, NewSessionValid DEF LoginCommit
  <1>4. ASSUME NEW r \in Requests, RefreshCommit(r)
        PROVE  TokensValid'
    <2>1. /\ token[r] \in issued /\ owner[token[r]] = account[r]
          /\ account[r] \in Accounts
      BY <1>4 DEF RefreshCommit, RequestsValid, RequestValid, At
    <2>2. /\ provider[account[r]] = origin[token[r]]
          /\ provider[account[r]] # "none"
      BY <2>1 DEF TokensValid, TokenValid
    <2>3. provider'[account[r]] = origin[token[r]] /\ revoked'[token[r]]
      BY <1>4, <2>1, <2>2 DEF RefreshCommit, row, TypeOK
    <2>4. PICK t \in Tokens :
             Insert(t, account[r], token[r], origin[token[r]], clock[r])
      BY <1>4 DEF RefreshCommit
    <2>5. token[r] \in Tokens
      BY <2>1 DEF TypeOK
    <2> QED
      BY <1>0, <2>1, <2>2, <2>3, <2>4, <2>5, InsertValid
  <1>5. ASSUME UNCHANGED issued
        PROVE  TokensValid'
    BY <1>0, <1>5, UnchangedTokensValid
  <1>6. ASSUME NEW r \in Requests, NEW a \in Accounts,
               \/ RegisterSelect(r, a) \/ GoogleSelect(r, a)
               \/ LoginWrong(r, a) \/ LoginRight(r, a)
        PROVE  TokensValid'
    BY <1>5, <1>6 DEF RegisterSelect, GoogleSelect, LoginWrong, LoginRight,
       LoginSelect, Begin, tokens
  <1>7. ASSUME NEW r \in Requests, NEW t \in Tokens,
               RefreshToken(r, t) \/ LogoutToken(r, t)
        PROVE  TokensValid'
    BY <1>5, <1>7 DEF RefreshToken, LogoutToken, Begin, tokens
  <1>8. ASSUME NEW r \in Requests,
               RefreshUser(r) \/ LoginFailed(r) \/ End(r) \/ LogoutCommit(r)
        PROVE  TokensValid'
    BY <1>5, <1>8 DEF RefreshUser, LoginFailed, End, LogoutCommit, tokens
  <1>9. ASSUME NEW a \in Accounts, SetActive(a)
        PROVE  TokensValid'
    BY <1>5, <1>9 DEF SetActive, tokens
  <1>10. CASE Tick
    BY <1>5, <1>10 DEF Tick, tokens
  <1> QED
    BY <1>1, <1>2, <1>3, <1>4, <1>6, <1>7, <1>8, <1>9, <1>10
       DEF Next, SignIn, Rotation

-----------------------------------------------------------------------------
(***************************************************************************)
(* Lockout: what is counted was given.                                     *)
(***************************************************************************)
LEMMA CountsUnchanged ==
    ASSUME TypeOK, CountsValid, UNCHANGED <<lockout, wrong>>,
           \A r \in Requests :
               At(r, "wrong_password")' =>
                   /\ At(r, "wrong_password")
                   /\ seenFailed'[r] = seenFailed[r]
                   /\ account'[r] = account[r]
    PROVE  CountsValid'
  BY DEF CountsValid, AccountCount, RequestCount, At, lockout

\* A request that leaves, or goes on to anything but a failed login.
LEMMA NotCounting ==
    ASSUME TypeOK, NEW r \in Requests, NEW q \in Requests,
           \/ Leave(r)
           \/ /\ UNCHANGED <<seenFailed, seenLock>>
              /\ \E a, t : \E step \in Steps \ {"wrong_password"} : GoTo(r, step, a, t)
           \/ UNCHANGED request,
           At(q, "wrong_password")'
    PROVE  /\ At(q, "wrong_password")
           /\ seenFailed'[q] = seenFailed[q]
           /\ account'[q] = account[q]
  BY DEF Leave, GoTo, TypeOK, At, request

LEMMA CountsStep ==
    ASSUME TypeOK, RequestsValid, CountsValid, Next
    PROVE  CountsValid'
  <1>1. ASSUME NEW r \in Requests, Leave(r), UNCHANGED <<lockout, wrong>>
        PROVE  CountsValid'
    BY <1>1, NotCounting, CountsUnchanged
  <1>2. ASSUME NEW r \in Requests, NEW step \in Steps \ {"wrong_password"},
               NEW a, NEW t, GoTo(r, step, a, t),
               UNCHANGED <<seenFailed, seenLock>>, UNCHANGED <<lockout, wrong>>
        PROVE  CountsValid'
    BY <1>2, NotCounting, CountsUnchanged
  <1>3. ASSUME NEW r \in Requests, NEW a \in Accounts, NEW step,
               LoginSelect(r, a, step)
        PROVE  CountsValid'
    <2>1. UNCHANGED <<lockout, wrong>>
      BY <1>3 DEF LoginSelect, attempts
    <2>2. ASSUME NEW q \in Requests PROVE RequestCount(q)'
      <3>1. CASE q = r
        <4>1. seenFailed'[q] = failed[a] /\ account'[q] = a
          BY <1>3, <3>1 DEF LoginSelect, GoTo, TypeOK
        <4> QED
          BY <2>1, <4>1 DEF RequestCount, CountsValid, AccountCount
      <3>2. CASE q # r
        BY <1>3, <2>1, <3>2
           DEF LoginSelect, GoTo, TypeOK, RequestCount, CountsValid, At
      <3> QED
        BY <3>1, <3>2
    <2> QED
      BY <2>1, <2>2 DEF CountsValid, AccountCount, lockout
  <1>4. ASSUME NEW r \in Requests, LoginFailed(r)
        PROVE  CountsValid'
    <2> DEFINE b == account[r]
               count == seenFailed[r] + 1
    <2>1. /\ b \in Accounts /\ count <= wrong[b] + 1
          /\ count \in Nat /\ wrong[b] \in Nat
      BY <1>4, SessionsAssumption
         DEF LoginFailed, RequestsValid, RequestValid, CountsValid,
             RequestCount, At, TypeOK
    <2>2. wrong'[b] = wrong[b] + 1 /\ \A a \in Accounts \ {b} : wrong'[a] = wrong[a]
      BY <1>4, <2>1 DEF LoginFailed, TypeOK
    <2>3. /\ failed'[b] = count
          /\ \A a \in Accounts \ {b} : failed'[a] = failed[a]
      BY <1>4, <2>1 DEF LoginFailed, TypeOK
    <2>4. /\ lockedUntil'[b] # lockedUntil[b] => count >= LockThreshold
          /\ \A a \in Accounts \ {b} : lockedUntil'[a] = lockedUntil[a]
      BY <1>4, <2>1 DEF LoginFailed, LockAfter, TypeOK
    <2>5. ASSUME NEW a \in Accounts PROVE AccountCount(a)'
      <3>1. AccountCount(a) /\ wrong[a] \in Nat /\ LockThreshold \in Nat
        BY SessionsAssumption DEF CountsValid, TypeOK
      <3>2. CASE a = b
        <4>1. count >= LockThreshold => wrong'[b] >= LockThreshold
          BY <2>1, <2>2, <3>1
        <4>2. wrong[b] >= LockThreshold => wrong'[b] >= LockThreshold
          BY <2>1, <2>2, <3>1
        <4>3. lockedUntil'[b] # NoLock => wrong'[b] >= LockThreshold
          BY <2>4, <3>1, <3>2, <4>1, <4>2 DEF AccountCount
        <4>4. failed'[b] <= wrong'[b]
          BY <2>1, <2>2, <2>3
        <4> QED
          BY <3>2, <4>3, <4>4 DEF AccountCount
      <3>3. CASE a # b
        BY <2>2, <2>3, <2>4, <3>1, <3>3 DEF AccountCount
      <3> QED
        BY <3>2, <3>3
    <2>6. ASSUME NEW q \in Requests PROVE RequestCount(q)'
      <3> SUFFICES ASSUME At(q, "wrong_password")'
                   PROVE  seenFailed'[q] <= wrong'[account'[q]]
        BY DEF RequestCount
      <3>1. /\ At(q, "wrong_password") /\ seenFailed'[q] = seenFailed[q]
            /\ account'[q] = account[q]
        BY <1>4, NotCounting DEF LoginFailed
      <3>2. seenFailed[q] <= wrong[account[q]] /\ account[q] \in Accounts
        BY <3>1 DEF CountsValid, RequestCount, RequestsValid, RequestValid, At
      <3>3. wrong[account[q]] \in Nat /\ seenFailed[q] \in Nat
        BY <3>2, SessionsAssumption DEF TypeOK
      <3>4. wrong'[account[q]] >= wrong[account[q]]
        BY <2>1, <2>2, <3>2, <3>3
      <3>5. wrong'[account[q]] \in Nat
        BY <2>1, <2>2, <3>2, <3>3
      <3> QED
        BY <3>1, <3>2, <3>3, <3>4, <3>5
    <2> QED
      BY <2>5, <2>6 DEF CountsValid
  <1>5. ASSUME NEW r \in Requests, LoginCommit(r)
        PROVE  CountsValid'
    <2> DEFINE b == account[r]
    <2>1. UNCHANGED wrong /\ b \in Accounts
      BY <1>5 DEF LoginCommit, RequestsValid, RequestValid, At
    <2>2. ASSUME NEW a \in Accounts PROVE AccountCount(a)'
      <3>1. AccountCount(a) /\ wrong[a] \in Nat
        BY SessionsAssumption DEF CountsValid, TypeOK
      <3>2. failed'[a] \in {0, failed[a]} /\ lockedUntil'[a] \in {NoLock, lockedUntil[a]}
        BY <1>5 DEF LoginCommit, TypeOK
      <3> QED
        BY <2>1, <3>1, <3>2 DEF AccountCount
    <2>3. ASSUME NEW q \in Requests PROVE RequestCount(q)'
      BY <1>5, <2>1, NotCounting DEF LoginCommit, CountsValid, RequestCount
    <2> QED
      BY <2>2, <2>3 DEF CountsValid
  <1>6. ASSUME NEW r \in Requests, NEW a \in Accounts,
               RegisterSelect(r, a) \/ GoogleSelect(r, a)
        PROVE  CountsValid'
    <2>1. PICK step \in Steps \ {"wrong_password"} : Begin(r, step, a, None)
      BY <1>6 DEF RegisterSelect, GoogleSelect, Steps
    <2> QED
      BY <1>2, <2>1 DEF Begin, attempts
  <1>7. ASSUME NEW r \in Requests, NEW t \in Tokens,
               RefreshToken(r, t) \/ LogoutToken(r, t)
        PROVE  CountsValid'
    <2>1. PICK step \in Steps \ {"wrong_password"} : Begin(r, step, owner[t], t)
      BY <1>7 DEF RefreshToken, LogoutToken, Steps
    <2> QED
      BY <1>2, <2>1 DEF Begin, attempts
  <1>8. ASSUME NEW r \in Requests, NEW a \in Accounts,
               LoginWrong(r, a) \/ LoginRight(r, a)
        PROVE  CountsValid'
    BY <1>3, <1>8 DEF LoginWrong, LoginRight
  <1>9. ASSUME NEW r \in Requests, RefreshUser(r)
        PROVE  CountsValid'
    <2>1. CASE Leave(r)
      BY <1>1, <1>9, <2>1 DEF RefreshUser, attempts
    <2>2. CASE /\ GoTo(r, "rotating", account[r], token[r])
               /\ UNCHANGED <<seenFailed, seenLock>>
      BY <1>2, <1>9, <2>2 DEF RefreshUser, attempts, Steps
    <2> QED
      BY <1>9, <2>1, <2>2 DEF RefreshUser
  <1>10. ASSUME NEW r \in Requests,
                \/ RegisterCommit(r) \/ GoogleCreate(r) \/ GoogleCommit(r)
                \/ RefreshCommit(r) \/ LogoutCommit(r) \/ End(r)
         PROVE  CountsValid'
    BY <1>1, <1>10 DEF RegisterCommit, GoogleCreate, GoogleCommit,
       RefreshCommit, LogoutCommit, End, CreateAccount, attempts
  <1>11. ASSUME NEW a \in Accounts, SetActive(a)
         PROVE  CountsValid'
    BY <1>11, CountsUnchanged DEF SetActive, request, attempts, At
  <1>12. CASE Tick
    BY <1>12, CountsUnchanged DEF Tick, request, attempts, At
  <1> QED
    BY <1>4, <1>5, <1>6, <1>7, <1>8, <1>9, <1>10, <1>11, <1>12
       DEF Next, SignIn, Rotation

-----------------------------------------------------------------------------
(***************************************************************************)
(* Rotation: the three things a step can do to the replays of a token.     *)
(***************************************************************************)
\* Its requests drain, and its line stays as it is ...
Drains(t) ==
    Children(t)' = Children(t) /\ Presenting(t)' \subseteq Presenting(t)

\* ... or it is presented once more, which takes that it is not revoked ...
Presented(t) == Children(t)' = Children(t) /\ ~revoked[t]

\* ... or a request that presented it gives it a successor.
Succeeded(t) ==
    \E r \in Presenting(t), c \in Tokens \ Children(t) :
        /\ Presenting(t)' = Presenting(t) \ {r}
        /\ Children(t)' = Children(t) \cup {c}

LEMMA LeavePresenting ==
    ASSUME TypeOK, NEW r \in Requests, Leave(r), NEW t \in Tokens
    PROVE  Presenting(t)' = Presenting(t) \ {r}
  BY DEF TypeOK, Leave, Presenting

LEMMA GoToPresenting ==
    ASSUME TypeOK, NEW r \in Requests, NEW step, NEW a, NEW u,
           GoTo(r, step, a, u), NEW t \in Tokens,
           step \in {"found", "rotating"} /\ u = t => r \in Presenting(t)
    PROVE  Presenting(t)' \subseteq Presenting(t)
  BY DEF TypeOK, GoTo, Presenting

LEMMA SameChildren ==
    ASSUME UNCHANGED <<issued, parent>>, NEW t
    PROVE  Children(t)' = Children(t)
  BY DEF Children

LEMMA InsertChildren ==
    ASSUME TypeOK, NEW c \in Tokens, NEW a, NEW from, NEW by, NEW at,
           Insert(c, a, from, by, at), NEW t \in Tokens
    PROVE  /\ c \notin Children(t)
           /\ Children(t)' = IF from = t THEN Children(t) \cup {c} ELSE Children(t)
  BY DEF TypeOK, Insert, Children

LEMMA NewSessionChildren ==
    ASSUME TypeOK, NEW r, NEW by, NEW at, NewSession(r, by, at), NEW t \in Tokens
    PROVE  Children(t)' = Children(t)
  <1>1. PICK c \in Tokens : Insert(c, account[r], None, by, at)
    BY DEF NewSession
  <1>2. None # t
    BY SessionsAssumption
  <1> QED
    BY <1>1, <1>2, InsertChildren

LEMMA ReplayStep ==
    ASSUME TypeOK, RequestsValid, Next, NEW t \in Tokens
    PROVE  Drains(t) \/ Presented(t) \/ Succeeded(t)
  <1>1. ASSUME NEW r \in Requests, Leave(r), Children(t)' = Children(t)
        PROVE  Drains(t)
    BY <1>1, LeavePresenting DEF Drains
  <1>2. ASSUME NEW r \in Requests, NEW a,
               NEW step \in Steps \ {"found", "rotating"}, NEW u,
               GoTo(r, step, a, u), UNCHANGED tokens
        PROVE  Drains(t)
    BY <1>2, GoToPresenting, SameChildren DEF Drains, tokens
  <1>3. ASSUME NEW r \in Requests, RefreshCommit(r)
        PROVE  Drains(t) \/ Succeeded(t)
    <2>1. PICK c \in Tokens :
             Insert(c, account[r], token[r], origin[token[r]], clock[r])
      BY <1>3 DEF RefreshCommit
    <2>2. Presenting(t)' = Presenting(t) \ {r}
      BY <1>3, LeavePresenting DEF RefreshCommit
    <2>3. CASE token[r] = t
      <3>1. r \in Presenting(t)
        BY <1>3, <2>3 DEF RefreshCommit, Presenting, At
      <3>2. c \notin Children(t) /\ Children(t)' = Children(t) \cup {c}
        BY <2>1, <2>3, InsertChildren
      <3> QED
        BY <2>2, <3>1, <3>2 DEF Succeeded
    <2>4. CASE token[r] # t
      <3>1. Children(t)' = Children(t)
        BY <2>1, <2>4, InsertChildren
      <3> QED
        BY <2>2, <3>1 DEF Drains
    <2> QED
      BY <2>3, <2>4
  <1>4. ASSUME NEW r \in Requests, NEW u \in Tokens, RefreshToken(r, u)
        PROVE  Drains(t) \/ Presented(t)
    <2>1. /\ Usable(u) /\ GoTo(r, "found", owner[u], u)
          /\ Children(t)' = Children(t)
      BY <1>4, SameChildren DEF RefreshToken, Begin, tokens
    <2>2. CASE u = t
      BY <2>1, <2>2 DEF Presented, Usable
    <2>3. CASE u # t
      BY <2>1, <2>3, GoToPresenting DEF Drains
    <2> QED
      BY <2>2, <2>3
  <1>5. ASSUME NEW r \in Requests, RefreshUser(r)
        PROVE  Drains(t)
    <2>1. Children(t)' = Children(t)
      BY <1>5, SameChildren DEF RefreshUser, tokens
    <2>2. CASE Leave(r)
      BY <1>1, <2>1, <2>2
    <2>3. CASE GoTo(r, "rotating", account[r], token[r])
      <3>1. token[r] = t => r \in Presenting(t)
        BY <1>5 DEF RefreshUser, Presenting, At
      <3> QED
        BY <2>1, <2>3, <3>1, GoToPresenting DEF Drains
    <2> QED
      BY <1>5, <2>2, <2>3 DEF RefreshUser
  <1>6. ASSUME NEW r \in Requests, RegisterCommit(r) \/ GoogleCreate(r)
        PROVE  Drains(t)
    <2>1. PICK by : CreateAccount(r, by)
      BY <1>6 DEF RegisterCommit, GoogleCreate
    <2>2. Children(t)' = Children(t)
      BY <2>1, NewSessionChildren, SameChildren DEF CreateAccount, tokens
    <2> QED
      BY <1>1, <2>1, <2>2 DEF CreateAccount
  <1>7. ASSUME NEW r \in Requests, GoogleCommit(r) \/ LoginCommit(r)
        PROVE  Drains(t)
    BY <1>1, <1>7, NewSessionChildren DEF GoogleCommit, LoginCommit
  <1>8. ASSUME NEW r \in Requests, LoginFailed(r) \/ LogoutCommit(r) \/ End(r)
        PROVE  Drains(t)
    BY <1>1, <1>8, SameChildren DEF LoginFailed, LogoutCommit, End, tokens
  <1>9. ASSUME NEW r \in Requests, NEW a \in Accounts,
               \/ RegisterSelect(r, a) \/ GoogleSelect(r, a)
               \/ LoginWrong(r, a) \/ LoginRight(r, a)
        PROVE  Drains(t)
    <2>1. PICK step \in Steps \ {"found", "rotating"} : GoTo(r, step, a, None)
      BY <1>9 DEF RegisterSelect, GoogleSelect, LoginWrong,
         LoginRight, LoginSelect, Begin, Steps
    <2>2. UNCHANGED tokens
      BY <1>9 DEF RegisterSelect, GoogleSelect, LoginWrong,
         LoginRight, LoginSelect, Begin
    <2> QED
      BY <1>2, <2>1, <2>2
  <1>10. ASSUME NEW r \in Requests, NEW u \in Tokens, LogoutToken(r, u)
         PROVE  Drains(t)
    BY <1>2, <1>10 DEF LogoutToken, Begin, Steps
  <1>11. ASSUME UNCHANGED <<tokens, request>>
         PROVE  Drains(t)
    BY <1>11, SameChildren DEF Drains, Presenting, tokens, request
  <1> QED
    BY <1>3, <1>4, <1>5, <1>6, <1>7, <1>8, <1>9, <1>10, <1>11
       DEF Next, SignIn, Rotation, SetActive, Tick

-----------------------------------------------------------------------------
(***************************************************************************)
(* How many successors a token may have: each is traded for a request that *)
(* presented the token, and none begins to once there is a successor.      *)
(***************************************************************************)
ReplaysCounted ==
    \A t \in Tokens :
        Cardinality(Children(t)) + Cardinality(Presenting(t))
            <= Cardinality(Requests)

LEMMA Finiteness ==
    ASSUME TypeOK, NEW t \in Tokens
    PROVE  /\ IsFiniteSet(Requests) /\ Cardinality(Requests) \in Nat
           /\ Presenting(t) \subseteq Requests
           /\ IsFiniteSet(Presenting(t)) /\ Cardinality(Presenting(t)) \in Nat
           /\ Cardinality(Presenting(t)) <= Cardinality(Requests)
           /\ IsFiniteSet(Children(t)) /\ Cardinality(Children(t)) \in Nat
  <1>1. Presenting(t) \subseteq Requests /\ Children(t) \subseteq Tokens
    BY DEF Presenting, Children, TypeOK
  <1>2. IsFiniteSet(Requests) /\ IsFiniteSet(Tokens)
    BY SessionsAssumption
  <1> QED
    BY <1>1, <1>2, FS_Subset, FS_CardinalityType

LEMMA ChildlessUnlessRevoked ==
    ASSUME TypeOK, TokensValid, NEW t \in Tokens, ~revoked[t]
    PROVE  Children(t) = {}
  <1>1. t # None
    BY SessionsAssumption
  <1> QED
    BY <1>1 DEF TokensValid, TokenValid, Children

LEMMA ReplaysStep ==
    ASSUME TypeOK, TypeOK', RequestsValid, TokensValid, ReplaysCounted, Next
    PROVE  ReplaysCounted'
  <1> SUFFICES ASSUME NEW t \in Tokens
               PROVE  Cardinality(Children(t)') + Cardinality(Presenting(t)')
                          <= Cardinality(Requests)
    BY DEF ReplaysCounted
  <1>1. /\ Cardinality(Requests) \in Nat
        /\ IsFiniteSet(Presenting(t)) /\ Cardinality(Presenting(t)) \in Nat
        /\ IsFiniteSet(Children(t)) /\ Cardinality(Children(t)) \in Nat
        /\ Cardinality(Children(t)) + Cardinality(Presenting(t))
               <= Cardinality(Requests)
    BY Finiteness DEF ReplaysCounted
  <1>2. CASE Drains(t)
    <2>1. /\ Cardinality(Presenting(t)') \in Nat
          /\ Cardinality(Presenting(t)') <= Cardinality(Presenting(t))
      BY <1>1, <1>2, FS_Subset, FS_CardinalityType DEF Drains
    <2> QED
      BY <1>1, <1>2, <2>1 DEF Drains
  <1>3. CASE Presented(t)
    <2>1. Cardinality(Children(t)') = 0
      BY <1>3, ChildlessUnlessRevoked, FS_EmptySet DEF Presented
    <2>2. Presenting(t)' \subseteq Requests
      BY DEF Presenting
    <2>3. /\ Cardinality(Presenting(t)') \in Nat
          /\ Cardinality(Presenting(t)') <= Cardinality(Requests)
      BY <2>2, SessionsAssumption, FS_Subset, FS_CardinalityType
    <2> QED
      BY <1>1, <2>1, <2>3
  <1>4. CASE Succeeded(t)
    <2>1. PICK r \in Presenting(t), c \in Tokens \ Children(t) :
             /\ Presenting(t)' = Presenting(t) \ {r}
             /\ Children(t)' = Children(t) \cup {c}
      BY <1>4 DEF Succeeded
    <2>2. Cardinality(Presenting(t)') = Cardinality(Presenting(t)) - 1
      BY <1>1, <2>1, FS_RemoveElement
    <2>3. Cardinality(Children(t)') = Cardinality(Children(t)) + 1
      BY <1>1, <2>1, FS_AddElement
    <2> QED
      BY <1>1, <2>2, <2>3
  <1> QED
    BY <1>2, <1>3, <1>4, ReplayStep

-----------------------------------------------------------------------------
(***************************************************************************)
(* Lockout: how many wrong passwords can leave an account unlocked.  If a  *)
(* request held a count below j, its commit would set the counter back to  *)
(* less than j + 1.  So what matters at each level j below the threshold   *)
(* is how many requests would not: each failure uses one low count up,     *)
(* which raises the number of one level for good as long as no lower count *)
(* is committed, and whatever a lower one sets back is the smaller term.   *)
(***************************************************************************)
\* The requests that would not set the counter of a back to j or less.
Above(a, j) ==
    {r \in Requests :
        /\ failed[a] >= j
        /\ At(r, "wrong_password") /\ account[r] = a => seenFailed[r] >= j}

LowCounts == 1..(LockThreshold - 1)

Levels(a) == [j \in LowCounts |-> Cardinality(Above(a, j))]

\* The most failures that lead to such levels: n[j] requests above j leave the
\* room of so many multisets of LockThreshold - j of them.
Room(n) == [p \in LowCounts |-> Many(n[LockThreshold - p], p)]

Potential(n) == SumOver(Room(n), LowCounts)

StreaksCounted ==
    \A a \in Accounts :
        lockedUntil[a] = NoLock => streak[a] <= Potential(Levels(a))

LEMMA RoomType ==
    ASSUME NEW n \in [LowCounts -> Nat]
    PROVE  /\ Summable(Room(n), LowCounts)
           /\ \A p \in LowCounts : LockThreshold - p \in LowCounts /\ p \in Nat
           /\ \A p \in LowCounts : Room(n)[p] = Many(n[LockThreshold - p], p)
           /\ Potential(n) \in Nat
  <1>1. LockThreshold \in Nat
    BY SessionsAssumption
  <1>2. \A p \in LowCounts : LockThreshold - p \in LowCounts /\ p \in Nat
    BY <1>1 DEF LowCounts
  <1>3. \A p \in LowCounts : Room(n)[p] = Many(n[LockThreshold - p], p)
    BY DEF Room
  <1>4. \A p \in LowCounts : Many(n[LockThreshold - p], p) \in Nat
    BY <1>2, MultisetRules
  <1>5. IsFiniteSet(LowCounts)
    BY <1>1, FS_Interval DEF LowCounts
  <1>6. Summable(Room(n), LowCounts)
    BY <1>3, <1>4, <1>5 DEF Summable
  <1>7. SumOver(Room(n), LowCounts) \in Nat
    BY <1>6, SumType
  <1> QED
    BY <1>2, <1>3, <1>6, <1>7 DEF Potential

LEMMA PotentialMonotone ==
    ASSUME NEW n \in [LowCounts -> Nat], NEW m \in [LowCounts -> Nat],
           \A j \in LowCounts : n[j] <= m[j]
    PROVE  Potential(n) <= Potential(m)
  <1>1. \A p \in LowCounts : Room(n)[p] <= Room(m)[p]
    <2> SUFFICES ASSUME NEW p \in LowCounts
                 PROVE  Many(n[LockThreshold - p], p) <= Many(m[LockThreshold - p], p)
      BY RoomType
    <2>1. LockThreshold - p \in LowCounts /\ p \in Nat
      BY RoomType
    <2> QED
      BY <2>1, MultisetsMonotone
  <1>2. Summable(Room(n), LowCounts) /\ Summable(Room(m), LowCounts)
    BY RoomType
  <1> QED
    BY <1>1, <1>2, SumMonotone DEF Potential

\* The terms that a lower count sets back sum up to less than what the term of
\* its own level gains.
LEMMA PotentialGrows ==
    ASSUME NEW n \in [LowCounts -> Nat], NEW m \in [LowCounts -> Nat],
           NEW c \in LowCounts,
           \A j \in LowCounts : j < c => n[j] <= m[j],
           n[c] + 1 <= m[c],
           \A j \in LowCounts : j > c => n[j] <= n[c]
    PROVE  Potential(n) + 1 <= Potential(m)
  <1> DEFINE h == [q \in Nat |-> Many(n[c], q)]
  <1>0. LockThreshold \in Nat /\ c \in Nat /\ c >= 1 /\ c <= LockThreshold - 1
    BY SessionsAssumption DEF LowCounts
  <1>1. PICK d \in LowCounts : d = LockThreshold - c
    BY RoomType
  <1>2. PICK f : f = Room(n)
    OBVIOUS
  <1>3. PICK g : g = Room(m)
    OBVIOUS
  <1>4. PICK S : S = LowCounts
    OBVIOUS
  <1>5. PICK low \in SUBSET S : low = 1..d
    BY <1>0, <1>1, <1>4 DEF LowCounts
  <1>6. PICK high \in SUBSET S : high = (d + 1)..(LockThreshold - 1)
    BY <1>0, <1>1, <1>4 DEF LowCounts
  <1>7. low \cap high = {} /\ low \cup high = S /\ d \in low
    BY <1>0, <1>1, <1>4, <1>5, <1>6 DEF LowCounts
  <1>8. /\ Summable(f, S) /\ Summable(g, S)
        /\ Summable(f, low) /\ Summable(g, low) /\ Summable(f, high) /\ Summable(g, high)
    <2>1. Summable(f, S) /\ Summable(g, S)
      BY <1>2, <1>3, <1>4, RoomType
    <2> QED
      BY <2>1, FS_Subset DEF Summable
  <1>9. /\ SumOver(f, S) = SumOver(f, low) + SumOver(f, high)
        /\ SumOver(g, S) = SumOver(g, low) + SumOver(g, high)
    BY <1>7, <1>8, SumUnion
  <1>10. /\ SumOver(f, low) \in Nat /\ SumOver(f, high) \in Nat
         /\ SumOver(g, low) \in Nat /\ SumOver(g, high) \in Nat
    BY <1>8, SumType
  <1>11. SumOver(f, high) <= SumOver(g, high)
    <2>1. \A p \in high : f[p] <= g[p]
      <3> SUFFICES ASSUME NEW p \in high
                   PROVE  f[p] <= g[p]
        OBVIOUS
      <3>1. PICK j \in LowCounts : j = LockThreshold - p /\ j < c
        <4>1. p \in LowCounts /\ LockThreshold - p < c
          BY <1>0, <1>1, <1>4, <1>6
        <4> QED
          BY <4>1, RoomType
      <3>2. p \in LowCounts /\ p \in Nat
        BY <1>4, RoomType
      <3>3. f[p] = Many(n[j], p) /\ g[p] = Many(m[j], p)
        BY <1>2, <1>3, <3>1, <3>2, RoomType
      <3>4. n[j] \in Nat /\ m[j] \in Nat /\ n[j] <= m[j]
        BY <3>1
      <3> QED
        BY <3>2, <3>3, <3>4, MultisetsMonotone
    <2> QED
      BY <1>8, <2>1, SumMonotone
  <1>12. SumOver(f, low) <= SumOver(h, low)
    <2>1. \A p \in low : f[p] <= h[p] /\ h[p] \in Nat
      <3> SUFFICES ASSUME NEW p \in low
                   PROVE  f[p] <= h[p] /\ h[p] \in Nat
        OBVIOUS
      <3>1. PICK j \in LowCounts : j = LockThreshold - p /\ j >= c
        <4>1. p \in LowCounts /\ LockThreshold - p >= c
          BY <1>0, <1>1, <1>4, <1>5
        <4> QED
          BY <4>1, RoomType
      <3>2. p \in LowCounts /\ p \in Nat
        BY <1>4, RoomType
      <3>3. f[p] = Many(n[j], p) /\ h[p] = Many(n[c], p)
        BY <1>2, <3>1, <3>2, RoomType
      <3>4. n[j] \in Nat /\ n[c] \in Nat /\ n[j] <= n[c]
        <4>1. j \in Nat /\ (j = c \/ j > c)
          BY <1>0, <3>1, RoomType
        <4> QED
          BY <4>1
      <3>5. h[p] \in Nat
        BY <3>2, <3>3, <3>4, MultisetRules
      <3> QED
        BY <3>2, <3>3, <3>4, <3>5, MultisetsMonotone
    <2> HIDE DEF h
    <2>2. Summable(h, low)
      BY <1>8, <2>1 DEF Summable
    <2> QED
      BY <1>8, <2>1, <2>2, SumMonotone
  <1>13. /\ SumOver(h, low) \in Nat
         /\ 1 + SumOver(h, low) = Many(n[c] + 1, d)
    <2>1. n[c] \in Nat /\ d \in Nat
      BY RoomType
    <2>2. 1 + SumOver(h, 1..d) = Many(n[c] + 1, d)
      BY <2>1, MultisetRow
    <2>3. IsFiniteSet(low)
      BY <1>8 DEF Summable
    <2>4. \A q \in low : q \in Nat /\ h[q] \in Nat
      <3>1. \A q \in low : q \in Nat
        BY <1>5
      <3> QED
        BY <2>1, <3>1, MultisetRules
    <2> HIDE DEF h
    <2>5. Summable(h, low)
      BY <2>3, <2>4 DEF Summable
    <2>6. SumOver(h, low) \in Nat
      BY <2>5, SumType
    <2> QED
      BY <1>5, <2>2, <2>6
  <1>14. Many(n[c] + 1, d) <= SumOver(g, low)
    <2>1. n[c] + 1 \in Nat /\ m[c] \in Nat /\ d \in Nat /\ LockThreshold - d = c
      BY <1>0, <1>1, RoomType
    <2>2. Many(n[c] + 1, d) <= Many(m[c], d)
      BY <2>1, MultisetsMonotone
    <2>3. g[d] = Many(m[c], d)
      BY <1>3, <2>1, RoomType
    <2>4. PICK rest \in SUBSET low : rest = low \ {d}
      OBVIOUS
    <2>5. SumOver(g, low) = g[d] + SumOver(g, rest)
      BY <1>7, <1>8, <2>4, SumElement
    <2>6. SumOver(g, rest) \in Nat /\ g[d] \in Nat
      BY <1>7, <1>8, SumType DEF Summable
    <2>7. g[d] <= SumOver(g, low)
      BY <1>10, <2>5, <2>6
    <2>8. Many(n[c] + 1, d) \in Nat
      BY <2>1, MultisetRules
    <2> QED
      BY <1>10, <2>2, <2>3, <2>6, <2>7, <2>8
  <1>15. SumOver(f, S) + 1 <= SumOver(g, S)
    <2> HIDE DEF h
    <2>1. SumOver(f, low) + 1 <= SumOver(g, low)
      BY <1>10, <1>12, <1>13, <1>14
    <2> QED
      BY <1>9, <1>10, <1>11, <2>1
  <1> QED
    BY <1>2, <1>3, <1>4, <1>15 DEF Potential

LEMMA PotentialBound ==
    ASSUME NEW n \in [LowCounts -> Nat], NEW N \in Nat,
           \A j \in LowCounts : n[j] <= N
    PROVE  /\ choose(N + LockThreshold - 1, LockThreshold - 1) \in Nat
           /\ Potential(n) < choose(N + LockThreshold - 1, LockThreshold - 1)
  <1> DEFINE h == [q \in Nat |-> Many(N, q)]
  <1>1. PICK k \in Nat : k = LockThreshold - 1 /\ LowCounts = 1..k
    BY SessionsAssumption DEF LowCounts
  <1>2. \A p \in LowCounts : h[p] \in Nat /\ Room(n)[p] <= h[p]
    <2> SUFFICES ASSUME NEW p \in LowCounts
                 PROVE  h[p] \in Nat /\ Room(n)[p] <= h[p]
      OBVIOUS
    <2>1. PICK j \in LowCounts : j = LockThreshold - p /\ p \in Nat
      BY RoomType
    <2>2. Room(n)[p] = Many(n[j], p) /\ h[p] = Many(N, p)
      BY <2>1, RoomType
    <2>3. Many(n[j], p) <= Many(N, p) /\ Many(N, p) \in Nat
      BY <2>1, MultisetsMonotone, MultisetRules
    <2> QED
      BY <2>2, <2>3
  <1>3. 1 + SumOver(h, LowCounts) = Many(N + 1, k)
    BY <1>1, MultisetRow
  <1>4. choose(N + k, k) = Many(N + 1, k)
    BY ChooseIsMultisets
  <1> HIDE DEF h
  <1>5. Summable(Room(n), LowCounts)
    BY RoomType
  <1>6. Summable(h, LowCounts)
    BY <1>2, <1>5 DEF Summable
  <1>7. Potential(n) <= SumOver(h, LowCounts) /\ SumOver(h, LowCounts) \in Nat
    <2>1. SumOver(h, LowCounts) \in Nat
      BY <1>6, SumType
    <2> QED
      BY <1>2, <1>5, <1>6, <2>1, SumMonotone DEF Potential
  <1>8. Potential(n) \in Nat
    BY RoomType
  <1>9. N + LockThreshold - 1 = N + k
    BY <1>1, SessionsAssumption
  <1>10. Potential(n) < choose(N + k, k) /\ choose(N + k, k) \in Nat
    BY <1>3, <1>4, <1>7, <1>8
  <1> QED
    BY <1>1, <1>9, <1>10

\* What a step can do to the failures of an account: leave them, and have no
\* more requests hold low counts ...
Kept(a) ==
    /\ streak'[a] = streak[a]
    /\ lockedUntil'[a] = NoLock => lockedUntil[a] = NoLock
    /\ \A j \in LowCounts : Above(a, j) \subseteq Above(a, j)'

\* ... or commit one more, of the request r that held the count below c ...
Failed(a) ==
    \E r \in Requests, c \in LowCounts :
        /\ streak'[a] = streak[a] + 1 /\ lockedUntil'[a] = lockedUntil[a]
        /\ \A j \in LowCounts : j < c => Above(a, j) \subseteq Above(a, j)'
        /\ r \notin Above(a, c) /\ Above(a, c) \cup {r} \subseteq Above(a, c)'
        /\ \A j \in LowCounts : j > c => Above(a, j) \subseteq Above(a, c)

\* ... or end the series, by a login or a lock.
Ended(a) == streak'[a] = 0 \/ lockedUntil'[a] # NoLock

LEMMA KeptUnlessCounting ==
    ASSUME TypeOK, NEW a \in Accounts, UNCHANGED <<lockout, streak>>,
           \A q \in Requests :
               At(q, "wrong_password")' =>
                   /\ At(q, "wrong_password")
                   /\ seenFailed'[q] = seenFailed[q]
                   /\ account'[q] = account[q]
    PROVE  Kept(a)
  BY DEF Kept, Above, lockout

LEMMA StreakStep ==
    ASSUME TypeOK, RequestsValid, Next, NEW a \in Accounts
    PROVE  Kept(a) \/ Failed(a) \/ Ended(a)
  <1>1. ASSUME NEW r \in Requests, Leave(r), UNCHANGED <<lockout, streak>>
        PROVE  Kept(a)
    BY <1>1, NotCounting, KeptUnlessCounting
  <1>2. ASSUME NEW r \in Requests, NEW step \in Steps \ {"wrong_password"},
               NEW b, NEW t, GoTo(r, step, b, t),
               UNCHANGED <<seenFailed, seenLock>>, UNCHANGED <<lockout, streak>>
        PROVE  Kept(a)
    BY <1>2, NotCounting, KeptUnlessCounting
  <1>3. ASSUME NEW r \in Requests, NEW b \in Accounts, NEW step \in Steps,
               LoginSelect(r, b, step)
        PROVE  Kept(a)
    <2>1. UNCHANGED <<failed, lockedUntil, streak>>
      BY <1>3 DEF LoginSelect, attempts, lockout
    <2>2. /\ ~At(r, "wrong_password")
          /\ account'[r] = b /\ seenFailed'[r] = failed[b]
      BY <1>3 DEF LoginSelect, GoTo, At, TypeOK
    <2>3. \A q \in Requests \ {r} :
             /\ pc'[q] = pc[q] /\ account'[q] = account[q]
             /\ seenFailed'[q] = seenFailed[q]
      BY <1>3 DEF LoginSelect, GoTo, TypeOK
    <2> QED
      BY <2>1, <2>2, <2>3 DEF Kept, Above, At
  <1>4. ASSUME NEW r \in Requests, LoginFailed(r)
        PROVE  Kept(a) \/ Failed(a) \/ Ended(a)
    <2> DEFINE b == account[r]
               k == seenFailed[r]
    <2>1. b \in Accounts /\ k \in Nat
      BY <1>4 DEF LoginFailed, RequestsValid, RequestValid, At, TypeOK
    <2>2. /\ failed'[b] = k + 1
          /\ streak'[b] = streak[b] + 1
          /\ \A c \in Accounts \ {b} :
                failed'[c] = failed[c] /\ streak'[c] = streak[c]
      BY <1>4, <2>1 DEF LoginFailed, TypeOK
    <2>3. \A c \in Accounts \ {b} : lockedUntil'[c] = lockedUntil[c]
      BY <1>4, <2>1 DEF LoginFailed, LockAfter, TypeOK
    <2>4. \A q \in Requests :
             At(q, "wrong_password")' =>
                 /\ q # r
                 /\ At(q, "wrong_password")
                 /\ seenFailed'[q] = seenFailed[q]
                 /\ account'[q] = account[q]
      BY <1>4 DEF LoginFailed, Leave, At, TypeOK
    <2>5. CASE a # b
      BY <2>2, <2>3, <2>4, <2>5 DEF Kept, Above
    <2>6. CASE a = b /\ k + 1 >= LockThreshold
      <3>1. clock[r] \in Nat /\ LockPeriod \in Nat \ {0}
        BY SessionsAssumption DEF TypeOK, Times
      <3>2. lockedUntil'[b] = clock[r] + LockPeriod
        BY <1>4, <2>1, <2>6 DEF LoginFailed, LockAfter, TypeOK
      <3>3. clock[r] + LockPeriod # NoLock
        BY <3>1 DEF NoLock
      <3> QED
        BY <2>6, <3>2, <3>3 DEF Ended
    <2>7. CASE a = b /\ ~(k + 1 >= LockThreshold)
      <3>1. PICK c \in LowCounts : c = k + 1
        BY <2>1, <2>7, SessionsAssumption DEF LowCounts
      <3>2. \A j \in LowCounts : j \in Nat
        BY SessionsAssumption DEF LowCounts
      <3>3. lockedUntil'[a] = lockedUntil[a]
        BY <1>4, <2>7 DEF LoginFailed, LockAfter
      <3>4. ASSUME NEW j \in LowCounts, j <= c
            PROVE  Above(a, j) \cup {r} \subseteq Above(a, j)'
        <4>1. failed'[a] >= j
          BY <2>1, <2>2, <2>7, <3>1, <3>4
        <4>2. ~At(r, "wrong_password")'
          BY <2>4
        <4>3. \A q \in Above(a, j) :
                 At(q, "wrong_password")' /\ account'[q] = a => seenFailed'[q] >= j
          BY <2>4 DEF Above
        <4> QED
          BY <4>1, <4>2, <4>3 DEF Above
      <3>5. r \notin Above(a, c)
        <4>1. At(r, "wrong_password") /\ account[r] = a /\ ~(seenFailed[r] >= c)
          BY <1>4, <2>1, <2>7, <3>1 DEF LoginFailed
        <4> QED
          BY <4>1 DEF Above
      <3>6. ASSUME NEW j \in LowCounts, j > c
            PROVE  Above(a, j) \subseteq Above(a, c)
        <4>1. \A x \in Nat : x >= j => x >= c
          BY <3>2, <3>6
        <4>2. failed[a] \in Nat /\ \A q \in Requests : seenFailed[q] \in Nat
          BY DEF TypeOK
        <4> QED
          BY <4>1, <4>2 DEF Above
      <3>7. streak'[a] = streak[a] + 1
        BY <2>2, <2>7
      <3>8. c <= c /\ \A j \in LowCounts : j < c => j <= c
        BY <3>2
      <3> QED
        BY <3>3, <3>4, <3>5, <3>6, <3>7, <3>8 DEF Failed
    <2> QED
      BY <2>5, <2>6, <2>7
  <1>5. ASSUME NEW r \in Requests, LoginCommit(r)
        PROVE  Kept(a) \/ Ended(a)
    <2> DEFINE b == account[r]
    <2>1. b \in Accounts
      BY <1>5 DEF LoginCommit, RequestsValid, RequestValid, At
    <2>2. CASE a = b
      <3>1. streak'[a] = 0
        BY <1>5, <2>2 DEF LoginCommit, TypeOK
      <3> QED
        BY <3>1 DEF Ended
    <2>3. CASE a # b
      <3>1. /\ failed'[a] = failed[a] /\ lockedUntil'[a] = lockedUntil[a]
            /\ streak'[a] = streak[a]
        BY <1>5, <2>3 DEF LoginCommit, TypeOK
      <3>2. \A q \in Requests :
               At(q, "wrong_password")' =>
                   /\ At(q, "wrong_password")
                   /\ seenFailed'[q] = seenFailed[q]
                   /\ account'[q] = account[q]
        BY <1>5, NotCounting DEF LoginCommit
      <3> QED
        BY <3>1, <3>2 DEF Kept, Above
    <2> QED
      BY <2>2, <2>3
  <1>6. ASSUME NEW r \in Requests, NEW b \in Accounts,
               RegisterSelect(r, b) \/ GoogleSelect(r, b)
        PROVE  Kept(a)
    <2>1. PICK step \in Steps \ {"wrong_password"} : Begin(r, step, b, None)
      BY <1>6 DEF RegisterSelect, GoogleSelect, Steps
    <2> QED
      BY <1>2, <2>1 DEF Begin, attempts
  <1>7. ASSUME NEW r \in Requests, NEW t \in Tokens,
               RefreshToken(r, t) \/ LogoutToken(r, t)
        PROVE  Kept(a)
    <2>1. PICK step \in Steps \ {"wrong_password"} : Begin(r, step, owner[t], t)
      BY <1>7 DEF RefreshToken, LogoutToken, Steps
    <2> QED
      BY <1>2, <2>1 DEF Begin, attempts
  <1>8. ASSUME NEW r \in Requests, NEW b \in Accounts,
               LoginWrong(r, b) \/ LoginRight(r, b)
        PROVE  Kept(a)
    BY <1>3, <1>8 DEF LoginWrong, LoginRight, Steps
  <1>9. ASSUME NEW r \in Requests, RefreshUser(r)
        PROVE  Kept(a)
    <2>1. CASE Leave(r)
      BY <1>1, <1>9, <2>1 DEF RefreshUser, attempts
    <2>2. CASE /\ GoTo(r, "rotating", account[r], token[r])
               /\ UNCHANGED <<seenFailed, seenLock>>
      BY <1>2, <1>9, <2>2 DEF RefreshUser, attempts, Steps
    <2> QED
      BY <1>9, <2>1, <2>2 DEF RefreshUser
  <1>10. ASSUME NEW r \in Requests,
                \/ RegisterCommit(r) \/ GoogleCreate(r) \/ GoogleCommit(r)
                \/ RefreshCommit(r) \/ LogoutCommit(r) \/ End(r)
         PROVE  Kept(a)
    BY <1>1, <1>10 DEF RegisterCommit, GoogleCreate, GoogleCommit,
       RefreshCommit, LogoutCommit, End, CreateAccount, attempts
  <1>11. ASSUME NEW b \in Accounts, SetActive(b)
         PROVE  Kept(a)
    BY <1>11, KeptUnlessCounting DEF SetActive, request, attempts, At
  <1>12. ASSUME Tick
         PROVE  Kept(a)
    BY <1>12, KeptUnlessCounting DEF Tick, request, attempts, At
  <1> QED
    BY <1>4, <1>5, <1>6, <1>7, <1>8, <1>9, <1>10, <1>11, <1>12
       DEF Next, SignIn, Rotation

LEMMA LevelsType ==
    ASSUME NEW a \in Accounts
    PROVE  /\ Levels(a) \in [LowCounts -> Nat]
           /\ \A j \in LowCounts :
                 /\ Levels(a)[j] = Cardinality(Above(a, j))
                 /\ IsFiniteSet(Above(a, j)) /\ Levels(a)[j] <= Cardinality(Requests)
  <1>1. \A j \in LowCounts : Above(a, j) \subseteq Requests
    BY DEF Above
  <1>2. \A j \in LowCounts :
           /\ IsFiniteSet(Above(a, j)) /\ Cardinality(Above(a, j)) \in Nat
           /\ Cardinality(Above(a, j)) <= Cardinality(Requests)
    BY <1>1, SessionsAssumption, FS_Subset, FS_CardinalityType
  <1> QED
    BY <1>2 DEF Levels

\* The same of the next state.
LEMMA LevelsTypeNext ==
    ASSUME NEW a \in Accounts
    PROVE  /\ Levels(a)' \in [LowCounts -> Nat]
           /\ \A j \in LowCounts :
                 /\ Levels(a)'[j] = Cardinality(Above(a, j)')
                 /\ IsFiniteSet(Above(a, j)')
  <1>1. \A j \in LowCounts : Above(a, j)' \subseteq Requests
    BY DEF Above
  <1>2. \A j \in LowCounts :
           IsFiniteSet(Above(a, j)') /\ Cardinality(Above(a, j)') \in Nat
    BY <1>1, SessionsAssumption, FS_Subset, FS_CardinalityType
  <1> QED
    BY <1>2 DEF Levels

LEMMA StreaksStep ==
    ASSUME TypeOK, TypeOK', RequestsValid, StreaksCounted, Next
    PROVE  StreaksCounted'
  <1> SUFFICES ASSUME NEW a \in Accounts, lockedUntil'[a] = NoLock
               PROVE  streak'[a] <= Potential(Levels(a)')
    BY DEF StreaksCounted, Potential, Room, LowCounts
  <1>1. PICK n \in [LowCounts -> Nat] : n = Levels(a)
    BY LevelsType
  <1>2. PICK m \in [LowCounts -> Nat] : m = Levels(a)'
    BY LevelsTypeNext
  <1>3. /\ streak[a] \in Nat /\ streak'[a] \in Nat
        /\ Potential(n) \in Nat /\ Potential(m) \in Nat
    BY RoomType DEF TypeOK
  <1>4. ASSUME NEW j \in LowCounts, NEW k \in LowCounts, Above(a, j) \subseteq Above(a, k)'
        PROVE  n[j] <= m[k]
    BY <1>1, <1>2, <1>4, LevelsType, LevelsTypeNext, FS_Subset
  <1>5. lockedUntil[a] = NoLock => streak[a] <= Potential(n)
    BY <1>1 DEF StreaksCounted
  <1>6. ASSUME Kept(a)
        PROVE  streak'[a] <= Potential(m)
    <2>1. Potential(n) <= Potential(m)
      BY <1>4, <1>6, PotentialMonotone DEF Kept
    <2> QED
      BY <1>3, <1>5, <1>6, <2>1 DEF Kept
  <1>7. ASSUME Failed(a)
        PROVE  streak'[a] <= Potential(m)
    <2>1. PICK r \in Requests, c \in LowCounts :
             /\ streak'[a] = streak[a] + 1 /\ lockedUntil'[a] = lockedUntil[a]
             /\ \A j \in LowCounts : j < c => Above(a, j) \subseteq Above(a, j)'
             /\ r \notin Above(a, c) /\ Above(a, c) \cup {r} \subseteq Above(a, c)'
             /\ \A j \in LowCounts : j > c => Above(a, j) \subseteq Above(a, c)
      BY <1>7 DEF Failed
    <2>2. n[c] + 1 <= m[c]
      <3>1. /\ IsFiniteSet(Above(a, c)) /\ IsFiniteSet(Above(a, c)')
            /\ n[c] = Cardinality(Above(a, c)) /\ m[c] = Cardinality(Above(a, c)')
        BY <1>1, <1>2, LevelsType, LevelsTypeNext
      <3>2. Cardinality(Above(a, c) \cup {r}) = Cardinality(Above(a, c)) + 1
        BY <2>1, <3>1, FS_AddElement
      <3>3. Cardinality(Above(a, c) \cup {r}) <= Cardinality(Above(a, c)')
        BY <2>1, <3>1, FS_Subset
      <3> QED
        BY <3>1, <3>2, <3>3
    <2>3. \A j \in LowCounts : j > c => n[j] <= n[c]
      BY <1>1, <2>1, LevelsType, FS_Subset
    <2>4. \A j \in LowCounts : j < c => n[j] <= m[j]
      BY <1>4, <2>1
    <2>5. Potential(n) + 1 <= Potential(m)
      BY <2>2, <2>3, <2>4, PotentialGrows
    <2> QED
      BY <1>3, <1>5, <2>1, <2>5
  <1>8. ASSUME Ended(a)
        PROVE  streak'[a] <= Potential(m)
    BY <1>3, <1>8 DEF Ended
  <1>9. streak'[a] <= Potential(m)
    BY <1>6, <1>7, <1>8, StreakStep
  <1> QED
    BY <1>2, <1>9

-----------------------------------------------------------------------------
(***************************************************************************)
(* The refinement of SessionStore.                                         *)
(***************************************************************************)
\* A JTI that has no row is not revoked.
FreshTokens == \A t \in Tokens \ issued : ~revoked[t]

LEMMA FreshStep ==
    ASSUME TypeOK, RequestsValid, FreshTokens, Next
    PROVE  FreshTokens'
  <1>1. issued \subseteq issued'
    BY StableStep DEF Stable
  <1>2. \A t \in Tokens : revoked'[t] # revoked[t] => t \in issued
    <2>1. ASSUME NEW r \in Requests, RefreshCommit(r) \/ LogoutCommit(r)
          PROVE  \A t \in Tokens : revoked'[t] # revoked[t] => t \in issued
      <3>1. revoked' = [revoked EXCEPT ![token[r]] = TRUE] /\ token[r] \in issued
        BY <2>1 DEF RefreshCommit, LogoutCommit, RequestsValid, RequestValid, At
      <3> QED
        BY <3>1 DEF TypeOK
    <2>2. CASE UNCHANGED revoked
      BY <2>2
    <2> QED
      BY <2>1, <2>2
         DEF Next, SignIn, Rotation, RegisterSelect, GoogleSelect, LoginWrong, LoginRight,
             LoginSelect, Begin, RegisterCommit, GoogleCreate, GoogleCommit,
             CreateAccount, NewSession, LoginFailed, LoginCommit, RefreshToken,
             LogoutToken, RefreshUser, End, SetActive, Tick, tokens
  <1> QED
    BY <1>1, <1>2 DEF FreshTokens, TypeOK

\* What a request holds, when it leaves and when it goes on.
LEMMA HeldType ==
    ASSUME TypeOK
    PROVE  Held \in [Requests -> Tokens \cup {None}]
  BY DEF Held, TypeOK

LEMMA HeldLeave ==
    ASSUME TypeOK, NEW r \in Requests, Leave(r)
    PROVE  Held' = [Held EXCEPT ![r] = None]
  BY DEF Held, Leave, TypeOK

LEMMA HeldGoTo ==
    ASSUME TypeOK, NEW r \in Requests, NEW step \in Steps, NEW a, NEW t,
           GoTo(r, step, a, t)
    PROVE  Held' = [Held EXCEPT ![r] = IF step \in {"found", "rotating"} THEN t ELSE None]
  BY DEF Held, GoTo, TypeOK

\* The rows and the holders of a step that does not touch them.
StoreStep == Store!Next \/ UNCHANGED <<Live, Dead, owner, parent, Held>>

LEMMA StoreKept ==
    ASSUME TypeOK, UNCHANGED tokens, UNCHANGED Held
    PROVE  StoreStep
  BY DEF StoreStep, tokens, Live, Dead

LEMMA StoreReleased ==
    ASSUME TypeOK, UNCHANGED tokens, NEW r \in Requests, Leave(r)
    PROVE  StoreStep
  <1>1. Held' = [Held EXCEPT ![r] = None]
    BY HeldLeave
  <1>2. UNCHANGED <<Live, Dead, owner, parent>>
    BY DEF tokens, Live, Dead
  <1>3. Store!Release(r)
    BY <1>1, <1>2 DEF Store!Release
  <1> QED
    BY <1>3 DEF StoreStep, Store!Next

LEMMA StoreSignsIn ==
    ASSUME TypeOK, FreshTokens, NEW r \in Requests, account[r] \in Accounts,
           pc[r] \notin {"found", "rotating"}, Leave(r),
           NEW by, NEW at, NewSession(r, by, at)
    PROVE  StoreStep
  <1>1. PICK t \in Tokens : Insert(t, account[r], None, by, at)
    BY DEF NewSession
  <1>2. t \notin issued /\ issued' = issued \cup {t} /\ revoked' = revoked /\ ~revoked[t]
    BY <1>1 DEF Insert, NewSession, FreshTokens
  <1>3. Live' = Live \cup {t} /\ Dead' = Dead /\ t \notin Live \cup Dead
    BY <1>2 DEF Live, Dead
  <1>4. Held' = Held
    BY HeldLeave, HeldType DEF Held
  <1>5. Store!SignIn(t, account[r])
    BY <1>1, <1>3, <1>4 DEF Store!SignIn, Store!Issue, Insert
  <1> QED
    BY <1>5 DEF StoreStep, Store!Next

LEMMA StoreRotates ==
    ASSUME TypeOK, RequestsValid, FreshTokens, NEW r \in Requests, RefreshCommit(r)
    PROVE  StoreStep
  <1> DEFINE old == token[r]
  <1>1. old \in issued /\ old \in Tokens /\ old # None /\ owner[old] = account[r]
    BY SessionsAssumption DEF RefreshCommit, RequestsValid, RequestValid, At, TypeOK
  <1>2. Held[r] = old
    BY DEF Held, RefreshCommit, At
  <1>3. PICK t \in Tokens : Insert(t, account[r], old, origin[old], clock[r])
    BY DEF RefreshCommit
  <1>4. t \notin issued /\ issued' = issued \cup {t} /\ ~revoked[t] /\ t # old
    BY <1>1, <1>3 DEF Insert, FreshTokens
  <1>5. revoked' = [revoked EXCEPT ![old] = TRUE]
    BY DEF RefreshCommit
  <1>6. \A s \in issued' : revoked'[s] = (s = old \/ revoked[s])
    BY <1>1, <1>4, <1>5 DEF TypeOK
  <1>7. /\ Live' = (Live \ {old}) \cup {t} /\ Dead' = Dead \cup {old}
        /\ t \notin Live \cup Dead
    BY <1>1, <1>4, <1>6 DEF Live, Dead
  <1>8. Held' = [Held EXCEPT ![r] = None]
    BY HeldLeave DEF RefreshCommit
  <1>9. Store!Rotate(r, t)
    BY <1>1, <1>2, <1>3, <1>7, <1>8 DEF Store!Rotate, Store!Issue, Insert
  <1> QED
    BY <1>9 DEF StoreStep, Store!Next

LEMMA StoreRevokes ==
    ASSUME TypeOK, RequestsValid, NEW r \in Requests, LogoutCommit(r)
    PROVE  StoreStep
  <1> DEFINE t == token[r]
  <1>1. t \in issued /\ t \in Tokens
    BY DEF LogoutCommit, RequestsValid, RequestValid, At, TypeOK
  <1>2. /\ revoked' = [revoked EXCEPT ![t] = TRUE]
        /\ UNCHANGED <<issued, owner, parent>>
    BY DEF LogoutCommit
  <1>3. \A s \in issued : revoked'[s] = (s = t \/ revoked[s])
    BY <1>1, <1>2 DEF TypeOK
  <1>4. Live' = Live \ {t} /\ Dead' = Dead \cup {t}
    BY <1>1, <1>2, <1>3 DEF Live, Dead
  <1>5. Held' = Held
    BY HeldLeave, HeldType DEF LogoutCommit, Held, At
  <1>6. t \in Live \/ t \in Dead
    BY <1>1 DEF Live, Dead, TypeOK
  <1>7. CASE t \in Live
    BY <1>1, <1>2, <1>4, <1>5, <1>7 DEF Store!Revoke, Store!Next, StoreStep
  <1>8. CASE t \notin Live
    <2>1. Live' = Live /\ Dead' = Dead
      BY <1>4, <1>6, <1>8
    <2> QED
      BY <1>2, <1>5, <2>1 DEF StoreStep
  <1> QED
    BY <1>7, <1>8

LEMMA StoreSteps ==
    ASSUME TypeOK, RequestsValid, FreshTokens, Next
    PROVE  StoreStep
  <1>1. ASSUME NEW r \in Requests, NEW step \in Steps \ {"found", "rotating"},
               NEW a, NEW t, At(r, "idle"), GoTo(r, step, a, t), UNCHANGED tokens
        PROVE  StoreStep
    <2>1. Held' = [Held EXCEPT ![r] = None]
      BY <1>1, HeldGoTo
    <2>2. Held[r] = None
      BY <1>1 DEF Held, At
    <2>3. Held' = Held
      BY <2>1, <2>2, HeldType
    <2> QED
      BY <1>1, <2>3, StoreKept
  <1>2. ASSUME NEW r \in Requests, NEW a \in Accounts,
               \/ RegisterSelect(r, a) \/ GoogleSelect(r, a)
               \/ LoginWrong(r, a) \/ LoginRight(r, a)
        PROVE  StoreStep
    BY <1>1, <1>2 DEF RegisterSelect, GoogleSelect, LoginWrong, LoginRight,
       LoginSelect, Begin, Steps
  <1>3. ASSUME NEW r \in Requests, NEW t \in Tokens, LogoutToken(r, t)
        PROVE  StoreStep
    BY <1>1, <1>3 DEF LogoutToken, Begin, Steps
  <1>4. ASSUME NEW r \in Requests, NEW t \in Tokens, RefreshToken(r, t)
        PROVE  StoreStep
    <2>1. Held' = [Held EXCEPT ![r] = t]
      BY <1>4, HeldGoTo DEF RefreshToken, Begin, Steps
    <2>2. Held[r] = None
      BY <1>4 DEF RefreshToken, Begin, Held, At
    <2>3. t \in Live /\ UNCHANGED <<Live, Dead, owner, parent>>
      BY <1>4 DEF RefreshToken, Usable, Begin, Live, Dead, tokens
    <2>4. Store!Present(r, t)
      BY <2>1, <2>2, <2>3 DEF Store!Present
    <2> QED
      BY <2>4 DEF StoreStep, Store!Next
  <1>5. ASSUME NEW r \in Requests, RefreshUser(r)
        PROVE  StoreStep
    <2>1. CASE Leave(r)
      BY <1>5, <2>1, StoreReleased DEF RefreshUser
    <2>2. CASE GoTo(r, "rotating", account[r], token[r])
      <3>1. Held' = [Held EXCEPT ![r] = token[r]]
        BY <2>2, HeldGoTo DEF Steps
      <3>2. Held[r] = token[r]
        BY <1>5 DEF RefreshUser, Held, At
      <3>3. Held' = Held
        BY <3>1, <3>2, HeldType
      <3> QED
        BY <1>5, <3>3, StoreKept DEF RefreshUser
    <2> QED
      BY <1>5, <2>1, <2>2 DEF RefreshUser
  <1>6. ASSUME NEW r \in Requests, NEW by, At(r, "registering") \/ At(r, "google_new"),
               CreateAccount(r, by)
        PROVE  StoreStep
    <2>1. account[r] \in Accounts
      BY <1>6 DEF RequestsValid, RequestValid, At
    <2>2. CASE NewSession(r, by, now)
      BY <1>6, <2>1, <2>2, StoreSignsIn DEF CreateAccount, At
    <2>3. CASE UNCHANGED tokens
      BY <1>6, <2>3, StoreReleased DEF CreateAccount
    <2> QED
      BY <1>6, <2>2, <2>3 DEF CreateAccount
  <1>7. ASSUME NEW r \in Requests, GoogleCommit(r) \/ LoginCommit(r)
        PROVE  StoreStep
    <2>1. account[r] \in Accounts /\ pc[r] \notin {"found", "rotating"} /\ Leave(r)
      BY <1>7 DEF GoogleCommit, LoginCommit, RequestsValid, RequestValid, At
    <2> QED
      BY <1>7, <2>1, StoreSignsIn DEF GoogleCommit, LoginCommit
  <1>8. ASSUME NEW r \in Requests, LoginFailed(r) \/ End(r)
        PROVE  StoreStep
    BY <1>8, StoreReleased DEF LoginFailed, End
  <1>9. ASSUME NEW a \in Accounts, SetActive(a)
        PROVE  StoreStep
    BY <1>9, StoreKept DEF SetActive, request, Held
  <1>10. CASE Tick
    BY <1>10, StoreKept DEF Tick, request, Held
  <1> QED
    BY <1>2, <1>3, <1>4, <1>5, <1>6, <1>7, <1>8, <1>9, <1>10, StoreRotates, StoreRevokes
       DEF Next, SignIn, Rotation, RegisterCommit, GoogleCreate

-----------------------------------------------------------------------------
(***************************************************************************)
(* The theorems.                                                           *)
(***************************************************************************)
Inv ==
    /\ TypeOK /\ RequestsValid /\ TokensValid
    /\ CountsValid /\ ReplaysCounted /\ StreaksCounted /\ FreshTokens

LEMMA InitInv == Init => Inv
  <1> SUFFICES ASSUME Init PROVE Inv
    OBVIOUS
  <1>1. TypeOK /\ RequestsValid /\ TokensValid /\ CountsValid
    BY InitValid
  <1>2. ReplaysCounted
    <2> SUFFICES ASSUME NEW t \in Tokens
                 PROVE  Cardinality(Children(t)) + Cardinality(Presenting(t))
                            <= Cardinality(Requests)
      BY DEF ReplaysCounted
    <2>1. Children(t) = {} /\ Presenting(t) = {}
      BY DEF Init, Children, Presenting
    <2>2. Cardinality({}) = 0
      BY FS_EmptySet
    <2> QED
      BY <1>1, <2>1, <2>2, Finiteness
  <1>3. StreaksCounted
    <2> SUFFICES ASSUME NEW a \in Accounts
                 PROVE  streak[a] <= Potential(Levels(a))
      BY DEF StreaksCounted
    <2>1. Potential(Levels(a)) \in Nat
      BY LevelsType, RoomType
    <2> QED
      BY <2>1 DEF Init
  <1>4. FreshTokens
    BY DEF Init, FreshTokens
  <1> QED
    BY <1>1, <1>2, <1>3, <1>4 DEF Inv

LEMMA StutterInv == Inv /\ UNCHANGED vars => Inv'
  <1> SUFFICES ASSUME Inv, UNCHANGED vars PROVE Inv'
    OBVIOUS
  <1> USE DEF Inv, vars, row, lockout, tokens, request, attempts
  <1>1. TypeOK'
    BY DEF TypeOK
  <1>2. RequestsValid'
    BY DEF RequestsValid, RequestValid, At
  <1>3. TokensValid'
    BY DEF TokensValid, TokenValid
  <1>4. CountsValid'
    BY DEF CountsValid, AccountCount, RequestCount, At
  <1>5. ReplaysCounted'
    BY DEF ReplaysCounted, Children, Presenting, At
  <1>6. StreaksCounted'
    <2>1. \A a \in Accounts : Levels(a)' = Levels(a)
      BY DEF Levels, Above, At
    <2> QED
      BY <2>1 DEF StreaksCounted
  <1>7. FreshTokens'
    BY DEF FreshTokens
  <1> QED
    BY <1>1, <1>2, <1>3, <1>4, <1>5, <1>6, <1>7

LEMMA NextInv == Inv /\ [Next]_vars => Inv'
  <1>1. CASE UNCHANGED vars
    BY <1>1, StutterInv
  <1>2. ASSUME Inv, Next PROVE Inv'
    BY <1>2, TypeStep, RequestsStep, TokensStep, CountsStep, ReplaysStep, StreaksStep,
       FreshStep DEF Inv
  <1> QED
    BY <1>1, <1>2

THEOREM Invariant == Spec => []Inv
  BY InitInv, NextInv, PTL DEF Spec

\* Every variable keeps its type; no commit writes what a column cannot hold.
THEOREM TypeCorrect == Spec => []TypeOK
  <1>1. Inv => TypeOK
    BY DEF Inv
  <1> QED
    BY <1>1, Invariant, PTL

\* A rotated token and its successor are never both usable.
THEOREM Lineage == Spec => []PredecessorsRevoked
  <1>1. Inv => PredecessorsRevoked
    BY DEF Inv, TokensValid, TokenValid, PredecessorsRevoked
  <1> QED
    BY <1>1, Invariant, PTL

\* A token gets at most as many successors as there are pooled connections.
THEOREM Replays == Spec => []ReplayBounded
  <1>1. Inv => ReplayBounded
    <2> SUFFICES ASSUME Inv, NEW t \in Tokens
                 PROVE  Cardinality(Children(t)) <= Cardinality(Requests)
      BY DEF ReplayBounded
    <2> QED
      BY Finiteness DEF Inv, ReplaysCounted
  <1> QED
    BY <1>1, Invariant, PTL

\* The window in which a token can be replayed closes with its revocation.
THEOREM WindowCloses == Spec => ReplayWindowCloses
  <1>1. ASSUME Inv, [Next]_vars
        PROVE  [\A t \in Tokens :
                  revoked[t] =>
                      /\ Presenting(t)' \subseteq Presenting(t)
                      /\ Presenting(t) = {} => Children(t)' = Children(t)]_vars
    <2> SUFFICES ASSUME Next, NEW t \in Tokens, revoked[t]
                 PROVE  /\ Presenting(t)' \subseteq Presenting(t)
                        /\ Presenting(t) = {} => Children(t)' = Children(t)
      BY <1>1
    <2>1. Drains(t) \/ Succeeded(t)
      BY <1>1, ReplayStep DEF Inv, Presented
    <2> QED
      BY <2>1 DEF Drains, Succeeded
  <1> QED
    BY <1>1, Invariant, PTL DEF Spec, ReplayWindowCloses

\* No race of sign-ins opens an account of the other provider.
THEOREM ProviderMatches == Spec => []SessionsMatchProvider
  <1>1. Inv => SessionsMatchProvider
    BY DEF Inv, TokensValid, TokenValid, SessionsMatchProvider
  <1> QED
    BY <1>1, Invariant, PTL

\* Stale counts never lock an account that was not given enough wrong passwords.
THEOREM LocksDeserved == Spec => []LockNeedsWrongPasswords
  <1>1. Inv => LockNeedsWrongPasswords
    BY DEF Inv, CountsValid, AccountCount, LockNeedsWrongPasswords
  <1> QED
    BY <1>1, Invariant, PTL

\* However many wrong passwords are checked at once, and however their commits
\* overwrite each other's counts, so many of them lock the account.
THEOREM BruteForce == Spec => []BruteForceBounded
  <1>1. Inv => BruteForceBounded
    <2> SUFFICES ASSUME Inv, NEW a \in Accounts, lockedUntil[a] = NoLock
                 PROVE  ~(streak[a] >= choose(Cardinality(Requests) + LockThreshold - 1,
                                              LockThreshold - 1))
      BY DEF BruteForceBounded
    <2>1. PICK n \in [LowCounts -> Nat] : n = Levels(a)
      BY LevelsType
    <2>2. PICK N \in Nat : N = Cardinality(Requests)
      BY SessionsAssumption, FS_CardinalityType
    <2>3. \A j \in LowCounts : n[j] <= N
      BY <2>1, <2>2, LevelsType
    <2>4. PICK enough : enough = choose(N + LockThreshold - 1, LockThreshold - 1)
      OBVIOUS
    <2>5. enough \in Nat /\ Potential(n) < enough
      BY <2>3, <2>4, PotentialBound
    <2>6. streak[a] <= Potential(n) /\ streak[a] \in Nat /\ Potential(n) \in Nat
      BY <2>1, RoomType DEF Inv, StreaksCounted, TypeOK
    <2>7. ~(streak[a] >= enough)
      BY <2>5, <2>6
    <2> QED
      BY <2>2, <2>4, <2>7
  <1> QED
    BY <1>1, Invariant, PTL

\* However its requests interleave, the table of refresh tokens is the store of
\* sessions that SessionStore describes.
THEOREM Implements == Spec => KeepsStore
  <1>1. Init => Store!Init
    BY DEF Init, Store!Init, Live, Dead, Held
  <1>2. Inv /\ [Next]_vars => [Store!Next]_<<Live, Dead, owner, parent, Held>>
    <2>1. CASE UNCHANGED vars
      BY <2>1 DEF vars, tokens, request, Live, Dead, Held
    <2>2. ASSUME Inv, Next
          PROVE  [Store!Next]_<<Live, Dead, owner, parent, Held>>
      BY <2>2, StoreSteps DEF Inv, StoreStep
    <2> QED
      BY <2>1, <2>2
  <1> QED
    BY <1>1, <1>2, Invariant, PTL DEF Spec, KeepsStore, Store!Spec

-----------------------------------------------------------------------------
(***************************************************************************)
(* Requests that do not overlap: with one connection, the code keeps what  *)
(* the README promises of them.  Concurrency breaks it, and nothing else.  *)
(***************************************************************************)
\* README, refresh token rotation: "stolen refresh tokens are single-use".
THEOREM SingleUseAlone ==
    ASSUME Cardinality(Requests) = 1
    PROVE  Spec => []RefreshSingleUse
  <1>1. ReplayBounded => RefreshSingleUse
    BY DEF ReplayBounded, RefreshSingleUse
  <1> QED
    BY <1>1, Replays, PTL

\* The threshold of login(): so many wrong passwords lock, without a login
\* between them.
LocksAtThreshold ==
    \A a \in Accounts : streak[a] >= LockThreshold => lockedUntil[a] # NoLock

THEOREM LocksAlone ==
    ASSUME Cardinality(Requests) = 1
    PROVE  Spec => []LocksAtThreshold
  <1>1. choose(Cardinality(Requests) + LockThreshold - 1, LockThreshold - 1) = LockThreshold
    <2>1. PICK k \in Nat : k = LockThreshold - 1
      BY SessionsAssumption
    <2>2. PICK one \in Nat : one = 1
      OBVIOUS
    <2>3. choose(one + k, k) = Many(one + 1, k)
      BY ChooseIsMultisets
    <2>4. Many(2, k) = k + 1
      BY FewMultisets
    <2>5. /\ LockThreshold = k + 1
          /\ Cardinality(Requests) + LockThreshold - 1 = one + k
      BY <2>1, <2>2, SessionsAssumption
    <2> QED
      BY <2>1, <2>2, <2>3, <2>4, <2>5
  <1>2. BruteForceBounded => LocksAtThreshold
    BY <1>1 DEF BruteForceBounded, LocksAtThreshold
  <1> QED
    BY <1>2, BruteForce, PTL
=============================================================================
