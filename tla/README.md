# Candidexa backend: specification, model checking and proofs

This directory holds TLA+ models of the Candidexa backend (a FastAPI service over PostgreSQL, Redis and two AI providers), the TLC configurations that check them on small instances, and theorems about them that the TLAPS proof system (tlapm 1.4.5) checks for every value of the constants.
The models are translated from the Python code, the Lua script and the SQL schema; documentation is quoted only where a property states what it promises.

Run a model with `tlc -config X.cfg M`, where `PROJECT.json` names the module `M` of each `X.cfg`; check the proofs with `tlapm MProofs.tla`.

## 1. The system

| Component | Code | State it keeps | Operations | What is hard about it |
|---|---|---|---|---|
| AI gateway | `services/ai_gateway.py`, `core/ai_guard.py`, `api/routes/ai.py` | rows of `ai_usage_ledger` | check quotas, call the provider, record the usage | the quotas are read long before the row is written; requests run over midnight, are cancelled, or are billed after they gave up; the row may be refused or its commit fail |
| Circuit breaker | `core/ai_guard.py` | failure count and opening time, per provider, in the process | `record_failure`, `record_success`, `guard` | concurrent requests, half-open state, failures counted twice, restarts |
| Accounts and sessions | `api/routes/auth.py`, `api/deps.py`, `core/security.py` | rows of `users` and `refresh_tokens` | register, login, Google sign-in, refresh, logout; access tokens are checked without state | each reads rows, awaits, and writes at its commit; nothing is locked |
| Rate limiter | `core/rate_limit.py` | a sorted set per key in Redis | one atomic Lua script per request | the client's clock is read before the script runs; Redis may fail or its answer be lost |
| Jobs, applications, dashboard | `services/job_service.py`, `api/routes/jobs.py`, `applications.py`, `dashboard.py` | rows of `jobs`, `applications` | create, update, delete, de-duplicate, apply, summarise | each statement is a transaction of its own; cascades of the foreign keys |
| Resume records | `services/resume_service.py` | rows of `resumes` | create, upload, read, update, score, tailor, delete | a text is read in one transaction and written, or its score is, in another |
| Resume routes and object storage | `api/routes/resumes.py`, `services/storage_service.py` | rows of `resumes`, objects of a bucket | upload, read, list, delete, match | the bucket takes part in no transaction: object and row change in separate steps, and either may fail |
| Workers | `workers/celery_app.py`, `workers/tasks.py` | messages and task states in Redis, revoked ids in each worker | eight tasks, retries, status, cancel; two nightly sends | early acknowledgement, crashes, retries published before their state is stored, a cancellation that is broadcast; the bodies are placeholders |
| Field encryption | `core/crypto.py`, `db/types.py` | none | encrypt, decrypt, blind index | pure functions, but two layers of them: the routes encrypt, and the column type encrypts again |
| Start-up, middleware, errors | `main.py`, `core/headers.py`, `errors.py`, `logging_middleware.py`, `config.py` | none between requests | headers, request ids, error answers | nothing that interleaves |
| Mistral routes | `api/routes/mistral.py` | none | three proxies | not mounted |
| Schema | `supabase_schema.sql`, `db/models.py`, `migrations/env.py` | the tables | constraints | the two table definitions disagree |

How they interact:

* A protected request passes `get_current_user()`, which opens the database transaction that the request keeps to its end. The AI gateway's model starts there: its `Begin` is that SELECT, the pooled connection is the slot, and the transaction's start is the `created_at` of the ledger row.
* Login, registration and AI requests pass the rate limiter first. It only ever rejects, so in the other models a request it rejects is one that never came (Sessions) or one that is turned away (`TurnedAway`, AIGateway).
* `ai_request()` calls the breaker's methods between two awaits, in the same coroutine; AIGateway EXTENDS CircuitBreaker and composes its operators into the actions that call them.
* Applications refer to jobs and resumes by foreign keys; the `ON DELETE` rules are part of the deleting actions.
* The resume routes and `ResumeService` write the same table; the routes also write the bucket. `ResumeStore` has both, with the encryption of the columns that the two treat differently. `Tracker` has only the rows, as applications see them.
* The workers share nothing with the routes but Redis: no route sends a task.

## 2. Modules

| Module | Models | Checked by | Proved in |
|---|---|---|---|
| `CircuitBreaker` | the class `CircuitBreaker`, as operators on a record | AIGateway's runs | `AIGatewayProofs` |
| `AIGateway` | a metered AI request, the ledger, the calendar, restarts | `MCAIGateway` | `AIGatewayProofs`, `AIGatewayLedgerProofs` |
| `Budget` | what a token quota is (abstract) | refined by `AIGateway`, twice | `AIGatewayProofs` |
| `Sessions` | accounts, lockout, refresh-token rotation | `MCSessions` | `SessionsProofs` |
| `SessionStore` | what the whitelist of refresh tokens is (abstract) | refined by `Sessions` | `SessionsProofs` |
| `RateLimit` | `rate_limit()` and its Lua script, for one key | itself | `RateLimitProofs` |
| `SlidingWindow` | what the documentation promises of the limiter (abstract) | refined by `RateLimit` | `RateLimitProofs` |
| `Tracker` | jobs, applications and the rows of resumes they refer to | `MCTracker` | `TrackerProofs` |
| `ResumeStore` | resume routes, `ResumeService`, `StorageService`, encrypted columns | `MCResumeStore` | `ResumeStoreProofs` |
| `TaskQueue` | the Celery tasks: delivery, retries, status, cancellation | `MCTaskQueue` | `TaskQueueProofs` |
| `Delivery` | what a caller may rely on of a background task (abstract) | refined by `TaskQueue` | `TaskQueueProofs` |
| `Counting` | nothing: lemmas about sums, multisets and binomial coefficients | | itself |

### AIGateway and CircuitBreaker

A slot is a pooled connection (`pool_size` 5 + `max_overflow` 10 in `db/session.py`) and the request that holds it. `pc` says at which await it stands: `arrived` (rate limit and date), `daily`, `monthly` and `spend` (the three ledger queries), `calling` (the provider), `recording` (the commit of the row). Each action is the code between two awaits. `End` cuts a request short at any of them: it is cancelled, or the database fails its query or its commit. A commit that took place and whose confirmation alone is lost is `Record`.
The ledger is kept as the sums the queries ask for: `tokensSince[u][d]` is `SUM(tokens) WHERE created_at >= d`. A row is dated by the day its transaction began (`born`), as PostgreSQL's `now()` is; the windows of the check are those of the day `enforce_ai_limits()` computed (`today`). Costs are in micro-USD, rounded down by row as `int()` does.
What the provider bills is in the history `consumed`. A call may be billed whose answer nobody sees: it came after `wait_for()` gave up (`CallFailed`), after the request was cancelled (`End`) or the process restarted (`Restart`), or it did not parse (`Unparsable`); and an answer that was taken may get no row (`RecordRefused`, `End`, `Restart`). The history `lost` counts these tokens.
The breaker is one record (one provider); its age is counted by `Tick` up to the cooldown. A cancellation is not counted by it: `asyncio.CancelledError` is no `Exception`, which is all that `call_with_timeout()` catches.
`LedgerStatuses` is the set of statuses the table accepts. The ORM's table has no CHECK, so it accepts all three (`ok`, `timeout`, `error`); the deployed `supabase_schema.sql` accepts of these only `error`. Both are run.

`Budget` is the abstract view of one user's token quota in one period: a request that finds the budget not used up reserves a call's worth of it, spends later what it needed, or nothing, and a new period starts with nothing used and no reservations. `AIGateway` is shown to implement it twice for an arbitrary user `Payer`: as the budget of a day and as that of a month. `used` is the ledger's sum, and the holders of a reservation (`Holding`) are the requests past the check whose row will be dated in the period. A request that began before midnight holds no reservation of the new day even if the new day's quota was what it was checked against; it spends on the old one, which `ClosedDayBounded` accounts for.

### Sessions

A request slot loads rows, stands at a `pc` between its read and its commit, and writes at the commit what the ORM would: columns whose value differs from the one it loaded. So a stale `failed_login_attempts` overwrites a newer one, a reset is written only if the row was loaded with something to reset, and the unique index on `email_hmac` decides who creates an account. `End` is an exception, a cancelled request or a lost connection at any await: the transaction is rolled back. Times are ticks; `LockPeriod` and `RefreshTTL` are the durations of the code. `parent`, `origin`, `wrong` and `streak` are history variables that no action reads as a guard (`wrong` only for its bound).
`SessionStore` is the table of refresh tokens seen from its commits: a token is live until it is revoked for good, a request takes hold of a live one and later rotates it in one step or lets it go. `Sessions` implements it: `Live` and `Dead` are the issued tokens by their flag, `Held` the token of a request that is past its SELECT. Rotating a token that another request has rotated meanwhile is a step of the abstract store too, which is what the code does and what `SessionsReplay` holds against the documentation; that a token is issued to the owner of the one it replaces, that revocation is final, and that nothing but a rotation gives a token a predecessor is what the store adds.
Access tokens are left out: `get_current_user()` checks a signature, a deadline, `is_active` and `locked_until`, and writes nothing. `is_verified` is left out because nothing reads it.

### RateLimit and SlidingWindow

A slot read its clock at `Arrive`; its script runs up to `MaxLag` ticks later, in any order with the others. `age` is what the sorted set's scores say, by the clients' clocks; `since` is when the script really counted the request; `ttl` is the key's expiry by Redis's own clock. `FailOpen` is a Redis error: the script may or may not have run. `SlidingWindow` is the abstract limiter to within a `Lag`: it counts at most `Limit` requests in any `Window` less `Lag`, rejects only when there were `Limit` in a `Window` and `Lag`, and fails open. The limiter implements it with `Lag <- MaxLag`; for scripts that are never late that is the exact sliding window.

### Tracker

Requests are threads of the pool, and each `execute()` of the Supabase client is one statement and one transaction. Operations of one statement are one action; `create_application()`, `update_application()`, `deduplicate_jobs()` and `get_dashboard_summary()` are one action per statement, with `End` in between. Of the jobs the dashboard lists, and of the applications, one stands for each (they are looked up one by one, without state between); its counts are left out. `UniqueIndex` says whether `applications` has `UNIQUE(user_id, job_id)`: the deployed schema has it (`supabase_schema.sql:243`), the ORM's table does not. Of a resume it keeps whose it is; the rest of a resume is ResumeStore's.

### ResumeStore

A row is its user, the key of its object, its file name and its text; an object is a key in the bucket. `upload_resume()` draws a key, looks for the bucket, creates it if it must, stores the object, and inserts the row at its commit: five actions, each of which may fail, and `End` may come between any two (an exception, a lost connection, the end of the process). `delete_resume()` checks the owner in one statement and deletes by id in another; the object stays. `CleanupAbandonedUploads` is the task that beat runs each night: it removes nothing; the history `nights` counts how many of its runs in a row an object was `Abandoned`, and `Retention` is the period of the docstring, which no setting names. The operations of `ResumeService` are one action per statement.
Of a text the model keeps whose it is (`textOf`, `scored`, history variables). Of a file name it keeps how many times it is encrypted: `encrypt_field` adds a layer, `decrypt_field` removes one, the column type does each once more. A name reads well only if it comes out at 0.

### TaskQueue

`place` is where a task's message is: in its queue, held by a worker, orphaned (held by a worker that died), or acknowledged. Acknowledgement is early (Celery's default, nothing in `celery_app.py` changes it), so `Start` acknowledges and starts the body in one action. A body that raises is retried as its decorator says: `Retry` publishes the message first, and `StoreRetry` stores the state `RETRY` afterwards, with anything in between. `Store` is the result backend, which leaves a `SUCCESS` as it is but may have looked too early: the `RETRY` of an earlier attempt, stored late, replaces the state of a task that has ended meanwhile (`overtaken`, a history, as are `lost` and `expired`). `Cancel` broadcasts; each worker hears it at its own time (`Hear`, which kills a running process as `terminate=True` does), forgets it after three hours (`Forget`), or dies before it heard. `Crash` loses what runs, which was acknowledged, and orphans what was held; `Restore` is the visibility timeout.
`Delivery` is what is left of all this for a caller: a task waits once it is sent, runs, waits again, and is over for good. `Stage` is the mapping: what runs is running, what has a message anywhere waits. Fetching, orphaning, restoring and storing a state are stutters of it.
The eight tasks are records of the queue their name is routed to, their retries and whether they report progress; `kind` says which task each id is of. Celery itself is outside the repository: the actions that are Celery's are marked external in the map and follow how its options are set here.

What a reader should know about these parts of the code:

* `main.py` mounts neither the applications nor the dashboard router. The jobs router is mounted, but its dependencies hand its handlers an ORM `User` and an async session, where they subscript a dict and call `db.table(...)`. The model gives the handlers what their signatures ask for: it describes the logic as written, not what an HTTP client gets today.
* No route calls `ResumeService`. It raises on a row without content, and the rows that `upload_resume()` inserts have none: such a row is in its lists' way (`Readable`).
* Upload, delete and match are behind `get_current_user_strict()`, which compares the header with `request.state.csrf_token`. The routes that create a token leave it in the state of their own request, so the comparison fails for every later request, and the three always answer 403. Upload and delete are modelled as written. The match route also imports `validate_input`, which `ai_guard.py` does not define: it is left out.
* `db.get(Resume, resume_id)` passes the path's string for an integer column, which asyncpg may refuse.
* No code sends a task but beat, the two clean-ups. A body returns a dataclass, `TaskResult`, which Celery's JSON serializer may refuse; `Return` therefore stores `SUCCESS` or `FAILURE`.
* The deployed `applications` table also has `company` and `title` NOT NULL, which `create_application()` never supplies, and a CHECK without `Screening`, which it accepts: against that table every INSERT is refused. `UniqueIndex` TRUE stands for the ORM's table plus that index.


## 3. Runs

Passing runs (deadlock is checked in each of them; every disjunct of every next-state relation fires in at least one):

| Run | Question | Bounds, and why they are enough |
|---|---|---|
| `AIGatewayQuota` | How far can quotas be overshot by checks that precede the row, do the books balance, and is each token quota a `Budget`? | 2 slots (one race each way), 3 days in 2 months (both turns), one fault (a restart or an interrupted request, `MaxFaults`), a daily limit of 1, a monthly one of 3 (so that three days do not fit) and a spend cap of 2, so that each check both admits and refuses; calls of one token, one of them too cheap to cost a micro-USD. `MaxConsumed` (5) bounds the tokens a user is ever billed: enough to pass the monthly limit by both slots. The table accepts every status here; that it refuses some is in `AIGatewayBreaker` and in the proofs, which are for any set of statuses. |
| `AIGatewayBreaker` | Does the breaker open too early, does it recover, does every request end? | The code's threshold 5, 3 slots (half-open races need two), a cooldown of 2 ticks, two faults, the API key set or not, the deployed ledger that refuses `ok`. |
| `Sessions` | What does rotation guarantee, is the table a `SessionStore`, and is an account ever locked too early, or too late? | 2 requests, one address that both providers may create, 4 tokens (a token, two racing successors and one of theirs), threshold 3: `BruteForceBounded` then says 6 wrong passwords. 7 leave room for a successful login in between; clock 0..1 so that locks and tokens expire. The constraint `LockoutOrRotation` leaves out states in which an account has both wrong passwords and more than two sessions: the lockout reads no token. The bound was also checked for 2 and 3 requests at thresholds 2 and 3, and one less is violated there. |
| `RateLimit` | Which rate is kept when scripts are late, does the limiter implement `SlidingWindow` to within that delay, and is a client that keeps sending let through again and again? | 2 slots, limit 2, window 4, lag 1; 4 members, since a member is reused once it is out of the window. |
| `Tracker` | Does what was checked, listed or read still belong to the user when it is used, and how many duplicates can concurrent requests create? | 2 users, 2 threads, 2 jobs, 3 applications (one more than the bound on duplicates), a resume, 2 keys, no unique index. |
| `ResumeStore` | Does every row have its object, can every name be read, whose texts end up where, and is what failures leave in the bucket ever named again? | 2 users, 2 requests (one race each way), 2 objects, 3 rows: one of each user and a copy; a retention of 0 nights, since nothing here depends on it. |
| `TaskQueue` | Does the queue implement `Delivery` (how often is a body started, and in how many processes), can a task vanish, does a cancellation stop it, which states lie, does a task that is served end? | A task that reports and retries twice and one without retries, on two workers of which one does not consume `celery`; 2 crashes, so that a retry can be lost as well as its first attempt, and one cancellation. |

Some theorems are about properties that no run repeats: `OwnDeleted` and `OwnDuplicates` (what is deleted by id alone is the user's own), `Lineage` (`PredecessorsRevoked`) and `StartsBounded` (`AttemptsBounded`), which the refinements of the same runs contain, and the conditional ones of section 4.

Symmetry is used on requests, tokens, users, keys and slots in the safety runs where no constant tells them apart, never in a run with a liveness property.

Violations. Each checks what a document, docstring or comment says and finds the code's counterexample:

| Run | Property | The code instead |
|---|---|---|
| `AIGatewayCooldown` | the cooldown ends | each rejection counts as a failure and restarts it |
| `AIGatewayRefusedRows` | the answer is charged | the deployed table refuses the row of every answered call |
| `SessionsReplay` | a refresh token is single-use | two requests can rotate it |
| `TrackerDedup` | de-duplication removes duplicates | from a stale list it removes a last copy |
| `ResumeStoreCleanup` | abandoned uploads are cleaned up after the retention period | the nightly task removes nothing |

Other differences between documents and code show in the models at the action named, and have no run:

* `RecordFailedCall`: each failed call counts twice, so three open the breaker, where `README.md:94` says five. `OpensOnFailedCalls` is the bound that holds.
* `AfterGuard`: a half-open breaker lets every request through until the first ends; the comment at `ai_guard.py:77` says one.
* `Unparsable`: an answer that is not JSON leaves no ledger row; `README.md:96` says every call is logged.
* `DailyQuota`: the quota of `README.md:91` is overshot by up to a call per connection (`DailyOvershootBounded`).
* `LoginRight`, `GoogleSelect`: neither login nor Google sign-in reads `locked_until`; `README.md:22` says it is enforced. A right password signs in during the lock and clears it; only `get_current_user()` asks for the lock.
* `LoginFailed`: the threshold of five needs more than five wrong passwords when they are concurrent (`BruteForceBounded`).
* `RefreshCommit`: a refresh that loaded its token before a logout still gets a successor; `models.py:63` says the whitelist enables logout.
* `get_current_user()` never looks an access token's JTI up (`README.md:19`), and its check of `is_verified` is commented out (`README.md:23`).
* `Kept`: a late script evicts by its own stale clock what newer requests still count, so that within one window of arrivals more than the limit of `README.md:47` may pass. `RateBounded` is what holds.
* `Insertable`: without the unique index two requests insert an application for the same job, where `applications.py:63` answers that one exists.
* `Cancel`: `cancel_task()` answers True before any worker has heard; a worker that is down never does, and one forgets after three hours. `CancelledStops` is what holds.
* `UpdateWrite`: `update_application()` does not ask whose resume it attaches; the checklist item at `README.md:352` is an owner check on all resources. `NewApplicationsOwnResumes` is therefore about new applications only.

### Fairness

* `AIGateway!Fairness`: weak fairness of each slot's own steps (the event loop runs every coroutine that can run; each await ends, the provider call by `wait_for()`'s 45 s at the latest) and of the clock. Nothing is assumed of clients, of the provider's success or of restarts.
* `RateLimit!Fairness`: weak fairness of each script call (Redis answers or the client fails) and of the clock.
* `TaskQueue!FairSpec`: weak fairness of each worker's serving of its queues, of the end of each body (`task_time_limit` ends it at the latest), of the restart of a worker (a supervisor) and of `Restore` (the visibility timeout). Nothing is assumed of what a body does, of sends, of cancellations being heard or of crashes. `Settles` is said of tasks some worker consumes: five of the eight are routed to queues of their own, which a worker without `-Q` does not serve, and their messages wait for ever.
* Sessions, Tracker and ResumeStore have safety properties only.

## 4. Theorems

All proofs are for arbitrary constants under the named assumptions (`BreakerAssumption`, `GatewayAssumption`, `CalendarAssumption`, `SessionsAssumption`, `LimiterAssumption`, `TrackerAssumption`, `StoreAssumption`, `QueueAssumption`): the sets of slots, requests and tokens are finite where their size is counted, limits are natural numbers, months are intervals of days. TLC evaluates the assumptions in every run.

**AIGatewayProofs.** `TypeCorrect`; `DailyOvershoot` and `MonthlyOvershoot`: the ledger's sum stays below the limit plus one largest call per slot. The bound alone is not inductive: a request past its check may still add its row. `WithinBound` weighs every such request (`Committed`) at `MaxTokens`: a check admits only when the sum is below the limit, an answer is at most `MaxTokens`, a row turns weight into tokens. `NoFutureRows` and `Dated` take it over midnight: the new day has no rows and no request that is past a check of it. `BreakerOpensOnFailures`: `BreakerInv` says that below the threshold the breaker is closed and its count is exactly twice the failed calls; so it is failed calls alone, and half the threshold of them at least, that take it there. Rejections add to the count only once it is open.

`Refines`: `Spec => KeepsBudgets`, that is, the gateway implements `Budget` for the days and for the months of any user. What a step of a request does is said once for any window (`WindowStep`): it takes a reservation, gives one back with or without a row, or does nothing to the window. `DailyEntry` and `MonthlyEntry` show that a request only joins the holders when the window it will be dated in is not used up; the month needs `CalendarAssumption`, since the check computed its window on a day that may be over. At midnight a new window has no rows (`NoFutureRows`) and no holders (`Dated`).

**AIGatewayLedgerProofs.** `Understated`: each row's cost in micro-USD is at most its tokens at the dearer price, by the arithmetic of `CallCost`. `MonthlySpend`: `SpendWithin` weighs each request past the cap at the dearest call, as `WithinBound` does for tokens; that a new month starts with no spend follows from `Understated` and `NoFutureRows`. `ClosedDays`: `ClosedWithin` counts, beside the rows of a day, every request born on it: a day closes within its own bound and one more call per slot, and then requests of that day only end. `BooksKept`: the sum over the requests that are about to write a row (`Owed`) moves to the ledger one request at a time, by the lemmas of `Counting`; a refusal, a commit that fails or a cancellation moves it to `lost` instead, and a restart moves all of them at once, with whatever is billed unseen. So each token billed is in exactly one of the ledger, the answers about to be written, and what was lost, on any table and whatever fails. The property's own sum is a fold of the community modules; `DueIsOwed` opens it.

**Counting.** Lemmas about the counting that several proofs need. The library states induction over operators, which the installed provers cannot instantiate; `NatSetInduction` and `SubsetInduction` state it over sets (of the numbers, or of the subsets, for which a claim holds), which they can. From it: functions by recursion on a rank, sums over finite sets and what adding, removing or changing an element does to them, `Many(m, p)`, the number of multisets of at most `p` elements of `m` kinds, by its recurrence, and `ChooseIsMultisets`, that it is the `choose` of the community modules, a quotient of factorials, in which `Sessions` states its bound.

**SessionsProofs.** `TypeCorrect`, `Lineage`, `Replays`, `WindowCloses`, `ProviderMatches`, `LocksDeserved`. The invariant `RequestsValid /\ TokensValid` says what a request between read and commit still knows: an account never changes provider, an issued token keeps its owner, and only revocation can have happened meanwhile. `Replays` counts, as TLC cannot for every size: a token's successors plus the requests that still present it never exceed the requests, because once there is a successor the token is revoked and no further request begins. `CountsValid` shows that no stored or loaded count exceeds the wrong passwords given.

`BruteForce`: with n requests and threshold T, a streak of C(n + T - 1, T - 1) wrong passwords locks. Give each request the smaller of the count it loaded and the count stored, or the count stored if it has loaded none. While the account is not locked these are n values below T; `Above` counts those above each level. Loading and giving up never lower a value. A wrong password that loaded k stores k + 1: it takes one request from its value to a higher one, and whatever it lowers stays above the value left. So each wrong password moves the multiset strictly on in the lexicographic order of (how many 0s, how many 1s, ...), and no streak is longer than there are multisets. The proof makes that order a number (`Potential`, which counts the multisets passed): it grows with each wrong password (`PotentialGrows`), other steps do not lower it while a streak lasts (`PotentialMonotone`), and it is below C(n + T - 1, T - 1) (`PotentialBound`). `StreaksCounted`, the streak is at most the potential, is the invariant; TLC checked it on the instance of the run `Sessions` first.

`Implements`: `Spec => KeepsStore`, the refinement of `SessionStore`. It needs that a request past its SELECT holds an issued token, and `FreshTokens`, that one never issued is not revoked.

`SingleUseAlone` and `LocksAlone` say what concurrency costs: with one request at a time a refresh token is single-use as `README.md:31` says, and the threshold itself of wrong passwords locks. They follow from `Replays` and `BruteForce` for n = 1; the first is what `SessionsReplay` shows false for n = 2.

**RateLimitProofs.** `TypeCorrect`, `RateKept`, `KeyLives` and `KeepsPromise`, the refinement `Spec => Promised!Spec` for every lag: initial states map to initial states, and `Admit`, `Reject`, `FailOpen`, `Tick` map to their namesakes (the refinement mapping is the identity on `since` and `last`, and `Lag <- MaxLag`). The invariant relates the scores (`age`) with the true times (`since`), which differ by at most `MaxLag`.

**TrackerProofs.** `TypeCorrect`, `OwnJobs`, `OwnDuplicates`, `OwnScores`, `OwnResumesInserted`, `Duplicates`. Rows only age (`RowsAge`): ids are given out once (`Fresh`), a row never passes to another user, one that is gone stays gone. So what a request learned (`RequestValid`) survives every step of others (`RequestKept`): the row is still its user's, or no longer there, and then the foreign key refuses the INSERT. `Duplicates` counts applications of a job plus requests past the duplicate check (`Spent`): a request passes only when there are none, and each INSERT spends one. `OneEach`: with the unique index, or one request at a time, a user has at most one application for a job, as `applications.py:63` answers.

**ResumeStoreProofs.** `TypeCorrect`, `ObjectsStored`, `NamesShown`, `TextStays`, `OwnDeleted`, `NeverNamedAgain`. The invariant says of an upload which key it drew and that it is no other's, from which a row's object is its own; of a request between two statements that the row it learned of is its user's or gone, and of a text it carries that it is its user's. The action property follows since keys are drawn once, and a key that is neither a row's nor an upload's can come to be neither again.

**TaskQueueProofs.** `TypeCorrect`, `StartsBounded`, `Implements`, `NeverTwice`, `StillDelivered`, `HeardIsStopped`, `AnsweredUnlessLost`. A body runs, or a message waits, or neither, but never both: attempts are counted by the retries the message carries, plus one if it was started. A task that is over reads as unready only if its process or its retry was lost, the result expired, or the state `RETRY` of an earlier attempt was stored over its own, which needs a task declared with retries (`AnsweredUnlessLost`). `Implements`: `Spec => Delivers`. Each action moves the stage of one task or of none: a body that ends, by whatever way, is one step (`BodyEnds`), a crash ends at most the one body its worker ran, and a message that only changes hands is no step (`NoneMoves`). That a task may be begun again comes from the same count of attempts, that only a cancelled one is discarded from what the workers were told.

Only model-checked: liveness (`QuietRecovery`, `EveryRequestEnds`, `NotStarved`, `Settles`), which is out of the prover's reach, and that the bound of `BruteForceBounded` is attained (at every size tried, one less is violated).

## 5. Not modelled

* The match route (see above), and `download()`, `delete()` and `create_signed_url()` of `StorageService`, which nothing calls.
* What the tasks will do once their bodies are written. Of Celery: several processes per worker, warm shutdown, retries with a countdown that a worker holds beside its prefetched message until they are due (here a retry waits in the queue and a worker holds one message), a message that the visibility timeout gives to another worker while its holder still lives, and the loss of the broker's data.
* The Mistral routes: stateless proxies that nothing mounts. Start-up, middleware, headers, error answers, request schemas: no state between requests.
* Loss of data in Redis (a restart without persistence): every window begins anew.
* The answer of a refresh that is lost after its commit: the client holds a revoked token and has to sign in again; the code has no retry.
* Passwords, JWTs, the verification of Google's token, ciphers (`core/crypto.py` beyond the number of layers), the blind index, validation of inputs, wording and headers: abstracted to their outcome, or left out.
* How far rounding understates the spend: `SpendUnderstated` says that it never overstates it, and the code bounds no more. That a score is of the very text beside it: `OwnText` keeps the texts of different users apart, and the code promises no more. Whether a lock is due to the wrong passwords since the last sign-in: `LockNeedsWrongPasswords` counts all that were ever given, since a reset may be lost.
* Durations against each other (45 s of a provider call, 30 s of `pool_timeout`).

## 6. Plan

1. AIGateway with CircuitBreaker, Sessions, RateLimit with SlidingWindow, Tracker, ResumeStore and TaskQueue, each with its proofs: done.
2. The abstract `Budget`, and the proofs of the spend's and the closed day's bounds: done.
3. An abstract session store that Sessions implements, and the proof of `BruteForceBounded`: done, for any number of concurrent requests.
4. The ledger's books (`Accounted`), and an abstract `Delivery` that TaskQueue implements, with their proofs: done.
5. Failures of the commit and late bills in the gateway, the nightly cleanup, late `RETRY` states, the dashboard's recent applications: done.
6. Left: what deduplication does guarantee of the jobs it removes, as an action property with the list it read as history; an abstract store that ResumeStore implements; a bound on what rounding understates.
