------------------------------ MODULE TaskQueue ------------------------------
(***************************************************************************)
(* The background tasks of app/workers/tasks.py, as app/workers/           *)
(* celery_app.py has Celery run them: Redis is the broker and the result   *)
(* backend, acknowledgement is early (the default), and a body that raises *)
(* is retried as its decorator says.                                       *)
(*                                                                         *)
(* The bodies are placeholders: they log, wait, and return or raise.  What *)
(* is modelled is what the repository relies on Celery for: the delivery   *)
(* of a task, its retries, its status and its cancellation, while workers  *)
(* and their processes end at any time.  A worker here has one process.    *)
(***************************************************************************)
EXTENDS Integers, FiniteSets

CONSTANTS
    Tasks,         \* task ids
    Workers,
    None,
    kind,          \* the task of tasks.py that each id is of
    Consumes,      \* the queues each worker was started for
    MaxCrashes,    \* bound on the crashes of workers
    MaxCancels     \* bound on the cancellations

VARIABLES
    sent,          \* the ids that were sent
    place,         \* its message: "queued", "orphaned", the worker that holds it
    retries,       \* request.retries, in the message and then in the process
    status,        \* what the result backend holds of it
    expired,       \* history: the tasks whose stored state has expired
    overtaken,     \* history: those whose final state a late RETRY replaced
    up,            \* whether each worker runs
    runs,          \* the task whose body its process executes
    owes,          \* the task whose retry it published, RETRY not stored yet
    revoked,       \* the ids each worker was told to revoke and still remembers
    unheard,       \* those that were broadcast and that it has not heard yet
    attempts,      \* history: how often the body of each task was started
    lost,          \* history: the tasks whose process or retry was lost
    cancelled,     \* history: the tasks cancel_task() was called for
    crashes        \* crashes so far

result == <<status, expired, overtaken>>
process == <<runs, owes>>
control == <<revoked, unheard, cancelled>>
vars == <<sent, place, retries, result, up, process, control, attempts, lost, crashes>>

-----------------------------------------------------------------------------
\* The tasks: the queue their name is routed to, the retries of their
\* decorator, and whether they report how far they are.
Task(queue, max_retries, reports) ==
    [queue |-> queue, max_retries |-> max_retries, reports |-> reports]

process_resume_upload == Task("resumes", 3, FALSE)
generate_tailored_resumes == Task("ai-heavy", 2, TRUE)
generate_code == Task("code-generation", 2, FALSE)
push_to_github == Task("celery", 3, FALSE)
deploy_project == Task("deployment", 2, FALSE)
generate_video == Task("video-generation", 1, FALSE)
cleanup_expired_jobs == Task("celery", 0, FALSE)
cleanup_abandoned_uploads == Task("celery", 0, FALSE)

Kinds ==
    {process_resume_upload, generate_tailored_resumes, generate_code, push_to_github,
     deploy_project, generate_video, cleanup_expired_jobs, cleanup_abandoned_uploads}

ASSUME QueueAssumption ==
    /\ kind \in [Tasks -> Kinds]
    /\ None \notin Tasks
    /\ Workers \cap {"none", "queued", "orphaned"} = {}
    /\ MaxCrashes \in Nat
    /\ MaxCancels \in Nat

States == {"PENDING", "STARTED", "PROGRESS", "RETRY", "SUCCESS", "FAILURE", "REVOKED"}
ReadyStates == {"SUCCESS", "FAILURE", "REVOKED"}

TypeOK ==
    /\ sent \subseteq Tasks
    /\ place \in [Tasks -> {"none", "queued", "orphaned"} \cup Workers]
    /\ retries \in [Tasks -> Nat]
    /\ \A t \in Tasks : retries[t] <= kind[t].max_retries
    /\ status \in [Tasks -> States]
    /\ expired \subseteq Tasks
    /\ overtaken \subseteq Tasks
    /\ up \in [Workers -> BOOLEAN]
    /\ runs \in [Workers -> Tasks \cup {None}]
    /\ owes \in [Workers -> Tasks \cup {None}]
    /\ revoked \in [Workers -> SUBSET Tasks]
    /\ unheard \in [Workers -> SUBSET Tasks]
    /\ attempts \in [Tasks -> Nat]
    /\ lost \subseteq Tasks
    /\ cancelled \subseteq Tasks
    /\ crashes \in 0..MaxCrashes

Init ==
    /\ sent = {}
    /\ place = [t \in Tasks |-> "none"]
    /\ retries = [t \in Tasks |-> 0]
    /\ status = [t \in Tasks |-> "PENDING"]
    /\ expired = {}
    /\ overtaken = {}
    /\ up = [w \in Workers |-> TRUE]
    /\ runs = [w \in Workers |-> None]
    /\ owes = [w \in Workers |-> None]
    /\ revoked = [w \in Workers |-> {}]
    /\ unheard = [w \in Workers |-> {}]
    /\ attempts = [t \in Tasks |-> 0]
    /\ lost = {}
    /\ cancelled = {}
    /\ crashes = 0

Idle(w) == up[w] /\ runs[w] = None /\ owes[w] = None
Running(t) == \E w \in Workers : runs[w] = t
Owed(t) == \E w \in Workers : owes[w] = t

\* get_task_status(): the result is shown once the state is a final one.
Ready(t) == status[t] \in ReadyStates

\* The backend leaves SUCCESS as it is; but it reads before it writes, and does
\* not see a SUCCESS that is stored in between.
Store(t, state) ==
    \/ /\ status' = [status EXCEPT ![t] = state]
       /\ expired' = expired \ {t}
       /\ overtaken' = overtaken \ {t}
    \/ status[t] = "SUCCESS" /\ UNCHANGED result

-----------------------------------------------------------------------------
\* A task is sent: by beat every night, or by its caller.
Send(t) ==
    /\ t \notin sent
    /\ sent' = sent \cup {t}
    /\ place' = [place EXCEPT ![t] = "queued"]
    /\ UNCHANGED <<retries, result, up, process, control, attempts, lost, crashes>>

\* A faulty variant, for mutation tests: the worker of the queue is not asked for.
FetchOwnName(w, t) ==
    /\ up[w]
    /\ place[t] = "queued"
    /\ kind[t].queue = "celery"
    /\ place' = [place EXCEPT ![t] = w]
    /\ UNCHANGED <<sent, retries, result, up, process, control, attempts, lost, crashes>>

\* worker_prefetch_multiplier = 1: a worker holds one message per process, and
\* holds it unacknowledged while the process is busy.
Fetch(w, t) ==
    /\ up[w]
    /\ place[t] = "queued"
    /\ kind[t].queue \in Consumes[w]
    /\ \A s \in Tasks : place[s] # w
    /\ place' = [place EXCEPT ![t] = w]
    /\ UNCHANGED <<sent, retries, result, up, process, control, attempts, lost, crashes>>

\* A faulty variant, for mutation tests: acknowledged late.
StartUnacked(w, t) ==
    /\ place[t] = w
    /\ Idle(w)
    /\ t \notin revoked[w]
    /\ runs' = [runs EXCEPT ![w] = t]
    /\ attempts' = [attempts EXCEPT ![t] = @ + 1]
    /\ Store(t, "STARTED")
    /\ UNCHANGED <<sent, place, retries, up, owes, control, lost, crashes>>

\* The message is acknowledged, and the body started.
Start(w, t) ==
    /\ place[t] = w
    /\ Idle(w)
    /\ t \notin revoked[w]
    /\ place' = [place EXCEPT ![t] = "none"]
    /\ runs' = [runs EXCEPT ![w] = t]
    /\ attempts' = [attempts EXCEPT ![t] = @ + 1]
    /\ Store(t, "STARTED")
    /\ UNCHANGED <<sent, retries, up, owes, control, lost, crashes>>

\* A worker that was told to revoke it drops it.
Drop(w, t) ==
    /\ place[t] = w
    /\ t \in revoked[w]
    /\ place' = [place EXCEPT ![t] = "none"]
    /\ Store(t, "REVOKED")
    /\ UNCHANGED <<sent, retries, up, process, control, attempts, lost, crashes>>

-----------------------------------------------------------------------------
\* What the process of a worker does.
Done(w) ==
    /\ runs' = [runs EXCEPT ![w] = None]
    /\ UNCHANGED owes

\* The loop of generate_tailored_resumes() reports each job before it does it.
Progress(w) ==
    \E t \in Tasks :
        /\ runs[w] = t
        /\ kind[t].reports
        /\ Store(t, "PROGRESS")
        /\ UNCHANGED <<sent, place, retries, up, process, control, attempts, lost, crashes>>

\* The body returns.  A TaskResult that the JSON serializer refuses fails the
\* task all the same, and is not retried.
Return(w) ==
    \E t \in Tasks :
        /\ runs[w] = t
        /\ \E state \in {"SUCCESS", "FAILURE"} : Store(t, state)
        /\ Done(w)
        /\ UNCHANGED <<sent, place, retries, up, control, attempts, lost, crashes>>

\* Faulty variants, for mutation tests: one retry too many; the body goes on
\* after its retry was published.
RetryOnceMore(w, t) ==
    /\ retries[t] <= kind[t].max_retries
    /\ retries' = [retries EXCEPT ![t] = @ + 1]
    /\ place' = [place EXCEPT ![t] = "queued"]
    /\ runs' = [runs EXCEPT ![w] = None]
    /\ owes' = [owes EXCEPT ![w] = t]
    /\ UNCHANGED <<result, lost>>
RetryAndGoOn(w, t) ==
    /\ retries[t] < kind[t].max_retries
    /\ retries' = [retries EXCEPT ![t] = @ + 1]
    /\ place' = [place EXCEPT ![t] = "queued"]
    /\ UNCHANGED <<result, lost, process>>

\* autoretry_for: the retry is published first, and RETRY stored afterwards.
Retry(w, t) ==
    /\ retries[t] < kind[t].max_retries
    /\ retries' = [retries EXCEPT ![t] = @ + 1]
    /\ place' = [place EXCEPT ![t] = "queued"]
    /\ runs' = [runs EXCEPT ![w] = None]
    /\ owes' = [owes EXCEPT ![w] = t]
    /\ UNCHANGED <<result, lost>>

\* The broker does not take the retry: the task is gone, its status stays.
RetryRejected(w, t) ==
    /\ retries[t] < kind[t].max_retries
    /\ Done(w)
    /\ lost' = lost \cup {t}
    /\ UNCHANGED <<retries, place, result>>

GiveUp(w, t) ==
    /\ retries[t] >= kind[t].max_retries
    /\ Done(w)
    /\ Store(t, "FAILURE")
    /\ UNCHANGED <<retries, place, lost>>

\* The body raises, task_soft_time_limit included.
Raise(w) ==
    \E t \in Tasks :
        /\ runs[w] = t
        /\ Retry(w, t) \/ RetryRejected(w, t) \/ GiveUp(w, t)
        /\ UNCHANGED <<sent, up, control, attempts, crashes>>

\* The worker is done with the attempt.  The retry may have been run, or dropped,
\* by now: then RETRY replaces the state it ended in, and nothing replaces RETRY.
StoreRetry(w) ==
    \E t \in Tasks :
        /\ owes[w] = t
        /\ \/ /\ status' = [status EXCEPT ![t] = "RETRY"]
              /\ overtaken' = IF Ready(t) THEN overtaken \cup {t} ELSE overtaken
              /\ UNCHANGED expired
           \/ status[t] = "SUCCESS" /\ UNCHANGED result
        /\ owes' = [owes EXCEPT ![w] = None]
        /\ UNCHANGED <<sent, place, retries, up, runs, control, attempts, lost, crashes>>

\* The process of a worker ends under task t; the worker stores what became of it.
Kill(w, t, state) ==
    /\ t \in {runs[w], owes[w]}
    /\ runs' = [runs EXCEPT ![w] = None]
    /\ owes' = [owes EXCEPT ![w] = None]
    /\ Store(t, state)

\* A faulty variant, for mutation tests: nobody stores what became of it.
KilledSilently(w) ==
    \E t \in Tasks :
        /\ t \in {runs[w], owes[w]}
        /\ runs' = [runs EXCEPT ![w] = None]
        /\ owes' = [owes EXCEPT ![w] = None]
        /\ UNCHANGED <<sent, place, retries, result, up, control, attempts, lost, crashes>>

\* task_time_limit, or the system's out-of-memory killer.
Killed(w) ==
    \E t \in Tasks :
        /\ Kill(w, t, "FAILURE")
        /\ UNCHANGED <<sent, place, retries, up, control, attempts, lost, crashes>>

-----------------------------------------------------------------------------
\* cancel_task(): revoke(terminate=True) is broadcast to the workers that are
\* up, and answered with True before any of them has heard it.
Cancel(t) ==
    /\ t \notin cancelled
    /\ Cardinality(cancelled) < MaxCancels
    /\ cancelled' = cancelled \cup {t}
    /\ unheard' = [w \in Workers |-> IF up[w] THEN unheard[w] \cup {t} ELSE unheard[w]]
    /\ UNCHANGED <<sent, place, retries, result, up, process, revoked, attempts, lost, crashes>>

\* A faulty variant, for mutation tests: terminate=True is missing.
HearOnly(w, t) ==
    /\ t \in unheard[w]
    /\ unheard' = [unheard EXCEPT ![w] = @ \ {t}]
    /\ revoked' = [revoked EXCEPT ![w] = @ \cup {t}]
    /\ UNCHANGED <<sent, place, retries, result, process, up, cancelled, attempts, lost, crashes>>

Hear(w, t) ==
    /\ t \in unheard[w]
    /\ unheard' = [unheard EXCEPT ![w] = @ \ {t}]
    /\ revoked' = [revoked EXCEPT ![w] = @ \cup {t}]
    /\ \/ Kill(w, t, "REVOKED")
       \/ t \notin {runs[w], owes[w]} /\ UNCHANGED <<process, result>>
    /\ UNCHANGED <<sent, place, retries, up, cancelled, attempts, lost, crashes>>

\* A worker forgets what it was told to revoke after three hours.
Forget(w, t) ==
    /\ t \in revoked[w]
    /\ runs[w] # t
    /\ revoked' = [revoked EXCEPT ![w] = @ \ {t}]
    /\ UNCHANGED <<sent, place, retries, result, up, process, unheard, cancelled,
                   attempts, lost, crashes>>

\* result_expires, a day after the last state was stored.
Expire(t) ==
    /\ ~Running(t) /\ ~Owed(t)
    /\ status' = [status EXCEPT ![t] = "PENDING"]
    /\ expired' = IF status[t] = "PENDING" THEN expired ELSE expired \cup {t}
    /\ UNCHANGED <<overtaken, sent, place, retries, up, process, control, attempts, lost, crashes>>

-----------------------------------------------------------------------------
\* A faulty variant, for mutation tests: messages are acknowledged on receipt.
CrashDropsHeld(w) ==
    /\ up[w]
    /\ crashes < MaxCrashes
    /\ crashes' = crashes + 1
    /\ up' = [up EXCEPT ![w] = FALSE]
    /\ runs' = [runs EXCEPT ![w] = None]
    /\ owes' = [owes EXCEPT ![w] = None]
    /\ lost' = lost \cup ({runs[w]} \cap Tasks)
    /\ place' = [t \in Tasks |-> IF place[t] = w THEN "none" ELSE place[t]]
    /\ revoked' = [revoked EXCEPT ![w] = {}]
    /\ unheard' = [unheard EXCEPT ![w] = {}]
    /\ UNCHANGED <<sent, retries, result, cancelled, attempts>>

\* A worker ends with its process: what it ran was acknowledged, and is lost;
\* what it held is not, and what it was told to revoke is forgotten.
Crash(w) ==
    /\ up[w]
    /\ crashes < MaxCrashes
    /\ crashes' = crashes + 1
    /\ up' = [up EXCEPT ![w] = FALSE]
    /\ runs' = [runs EXCEPT ![w] = None]
    /\ owes' = [owes EXCEPT ![w] = None]
    /\ lost' = lost \cup ({runs[w]} \cap Tasks)
    /\ place' = [t \in Tasks |-> IF place[t] = w THEN "orphaned" ELSE place[t]]
    /\ revoked' = [revoked EXCEPT ![w] = {}]
    /\ unheard' = [unheard EXCEPT ![w] = {}]
    /\ UNCHANGED <<sent, retries, result, cancelled, attempts>>

\* A new worker asks the others what is revoked, and may get no answer in time.
Restart(w) ==
    /\ ~up[w]
    /\ up' = [up EXCEPT ![w] = TRUE]
    /\ \E known \in {{}, UNION {revoked[v] : v \in Workers}} :
          revoked' = [revoked EXCEPT ![w] = known]
    /\ UNCHANGED <<sent, place, retries, result, process, unheard, cancelled, attempts,
                   lost, crashes>>

\* After the visibility timeout any worker returns a message of a dead one.
Restore(t) ==
    /\ place[t] = "orphaned"
    /\ \E w \in Workers : up[w]
    /\ place' = [place EXCEPT ![t] = "queued"]
    /\ UNCHANGED <<sent, retries, result, up, process, control, attempts, lost, crashes>>

-----------------------------------------------------------------------------
Serve(w) == \E t \in Tasks : Fetch(w, t) \/ Start(w, t) \/ Drop(w, t)
Finish(w) == Return(w) \/ Raise(w) \/ StoreRetry(w) \/ Killed(w)

Next ==
    \/ \E t \in Tasks :
          \/ Send(t)
          \/ Cancel(t)
          \/ Restore(t)
          \/ Expire(t)
    \/ \E w \in Workers :
          \/ Serve(w)
          \/ Finish(w)
          \/ Progress(w)
          \/ \E t \in Tasks : Hear(w, t) \/ Forget(w, t)
          \/ Crash(w)
          \/ Restart(w)

Spec == Init /\ [][Next]_vars

\* Workers serve their queues; task_time_limit ends every body; a supervisor
\* starts a worker again.
FairSpec ==
    /\ Spec
    /\ \A w \in Workers : WF_vars(Serve(w)) /\ WF_vars(Finish(w)) /\ WF_vars(Restart(w))
    /\ \A t \in Tasks : WF_vars(Restore(t))

-----------------------------------------------------------------------------
\* However workers crash and retries race with the process that published them,
\* the body of a task is started at most once more than its decorator says.
AttemptsBounded ==
    \A t \in Tasks : attempts[t] <= kind[t].max_retries + 1

\* No two processes are in the body of a task, and none is while a message of
\* it waits to start another.
OneProcess ==
    /\ \A t \in Tasks : Running(t) => place[t] = "none"
    /\ \A v, w \in Workers : runs[v] = runs[w] /\ runs[v] # None => v = w

\* Until its body was started or it was cancelled, a task has a message,
\* whichever workers held it and ended.
NothingVanishes ==
    \A t \in sent : attempts[t] = 0 /\ t \notin cancelled => place[t] # "none"

\* A worker that has heard of a cancellation does not run the task.
CancelledStops == \A w \in Workers : runs[w] \notin revoked[w]

Over(t) == place[t] = "none" /\ ~Running(t)

\* A task that is over has its final state in the backend, unless its process or
\* its retry was lost, a day has passed, or a worker that was slow to store RETRY
\* replaced it.  That last, where a client waits in vain for a task that may have
\* succeeded, takes a task declared with retries.
UnreadyExplained ==
    \A t \in sent :
        Over(t) /\ ~Ready(t) =>
            \/ t \in lost \cup expired
            \/ t \in overtaken /\ status[t] = "RETRY" /\ kind[t].max_retries > 0

\* A task that a worker serves is over some time, however often it is retried.
Settles ==
    \A t \in Tasks :
        (\E w \in Workers : kind[t].queue \in Consumes[w]) => (t \in sent ~> Over(t))

-----------------------------------------------------------------------------
\* How the queue keeps its promise: a message in any place is a task that waits,
\* and what runs was acknowledged, so a task that neither waits nor runs is over.
Stage ==
    [t \in Tasks |-> IF Running(t) THEN "running"
                     ELSE IF place[t] # "none" THEN "waiting"
                     ELSE IF t \in sent THEN "over" ELSE "unsent"]

Promised == INSTANCE Delivery WITH
    Starts <- [t \in Tasks |-> kind[t].max_retries + 1], stage <- Stage, begun <- attempts

\* However its message is fetched, orphaned, restored and published again, a
\* task is delivered as Delivery says: one body at a time, begun no oftener than
\* its decorator lets it, dropped only if it was cancelled, and never begun
\* again once it is over (Start, Retry, Drop, Crash, Restore).
Delivers == Promised!Spec
=============================================================================
