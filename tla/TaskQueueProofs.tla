--------------------------- MODULE TaskQueueProofs ---------------------------
(***************************************************************************)
(* Proofs about TaskQueue, for any tasks, workers, queues and bounds.      *)
(* The invariant says for each task where its attempts went, and for each  *)
(* worker what it was told to revoke; each action is one lemma.            *)
(***************************************************************************)
EXTENDS TaskQueue, TLAPS

\* A body was started once per retry published, and once more if the message
\* of the last is gone.
Counted(t) ==
    /\ attempts[t] <= retries[t] + 1
    /\ place[t] # "none" => attempts[t] <= retries[t]

Located(t) ==
    /\ t \notin sent => place[t] = "none" /\ attempts[t] = 0 /\ ~Running(t)
    /\ Running(t) => place[t] = "none" /\ attempts[t] > 0
    /\ t \in sent /\ attempts[t] = 0 /\ t \notin cancelled => place[t] # "none"

Answered(t) ==
    t \in sent /\ Over(t) /\ ~Ready(t) =>
        \/ t \in lost \cup expired
        \/ t \in overtaken /\ status[t] = "RETRY" /\ kind[t].max_retries > 0

TaskInv(t) == Counted(t) /\ Located(t) /\ Answered(t)

WorkerInv(w) ==
    /\ revoked[w] \cup unheard[w] \subseteq cancelled
    /\ runs[w] \notin revoked[w]
    /\ ~up[w] => runs[w] = None
    /\ owes[w] # None => runs[w] = None /\ kind[owes[w]].max_retries > 0

Apart == \A v, w \in Workers : runs[v] = runs[w] /\ runs[v] # None => v = w

Inv ==
    /\ TypeOK
    /\ \A t \in Tasks : TaskInv(t)
    /\ \A w \in Workers : WorkerInv(w)
    /\ Apart

LEMMA RetriesAreNat == \A t \in Tasks : kind[t].max_retries \in Nat
  <1>1. \A k \in Kinds : k.max_retries \in Nat
    BY DEF Kinds, Task, process_resume_upload, generate_tailored_resumes,
       generate_code, push_to_github, deploy_project, generate_video, cleanup_expired_jobs,
       cleanup_abandoned_uploads
  <1>2. QED
    BY <1>1, QueueAssumption

LEMMA SendStep ==
    ASSUME Inv, NEW t \in Tasks, Send(t) PROVE Inv'
  <1> USE QueueAssumption DEF Inv, TypeOK
  <1>1. TypeOK'
    BY DEF Send, States, process, control, result
  <1>2. ASSUME NEW s \in Tasks PROVE TaskInv(s)'
    BY <1>2 DEF Send, TaskInv, Counted, Located, Answered, Over, Running,
       Ready, process, control, result
  <1>3. ASSUME NEW v \in Workers PROVE WorkerInv(v)'
    BY <1>3 DEF Send, WorkerInv, process, control, result
  <1>4. Apart'
    BY DEF Send, Apart, process
  <1>5. QED
    BY <1>1, <1>2, <1>3, <1>4

LEMMA FetchStep ==
    ASSUME Inv, NEW w \in Workers, NEW t \in Tasks, Fetch(w, t) PROVE Inv'
  <1> USE QueueAssumption DEF Inv, TypeOK
  <1>1. TypeOK'
    BY DEF Fetch, States, process, control, result
  <1>2. ASSUME NEW s \in Tasks PROVE TaskInv(s)'
    BY <1>2 DEF Fetch, TaskInv, Counted, Located, Answered, Over, Running,
       Ready, process, control, result
  <1>3. ASSUME NEW v \in Workers PROVE WorkerInv(v)'
    BY <1>3 DEF Fetch, WorkerInv, process, control, result
  <1>4. Apart'
    BY DEF Fetch, Apart, process
  <1>5. QED
    BY <1>1, <1>2, <1>3, <1>4

LEMMA StartStep ==
    ASSUME Inv, NEW w \in Workers, NEW t \in Tasks, Start(w, t) PROVE Inv'
  <1> USE QueueAssumption DEF Inv, TypeOK
  <1>1. TypeOK'
    BY DEF Start, Store, States, control, result
  <1>2. ASSUME NEW s \in Tasks PROVE TaskInv(s)'
    BY <1>2 DEF Start, Store, Idle, TaskInv, Counted, Located, Answered,
       Over, Running, Ready, control, result
  <1>3. ASSUME NEW v \in Workers PROVE WorkerInv(v)'
    BY <1>3 DEF Start, Idle, WorkerInv, control, result
  <1>4. Apart'
    BY DEF Start, Apart, TaskInv, Located, Running
  <1>5. QED
    BY <1>1, <1>2, <1>3, <1>4

LEMMA DropStep ==
    ASSUME Inv, NEW w \in Workers, NEW t \in Tasks, Drop(w, t) PROVE Inv'
  <1> USE QueueAssumption DEF Inv, TypeOK
  <1>1. TypeOK'
    BY DEF Drop, Store, States, process, control, result
  <1>2. ASSUME NEW s \in Tasks PROVE TaskInv(s)'
    BY <1>2 DEF Drop, Store, TaskInv, Counted, Located, Answered, Over,
       Running, Ready, ReadyStates, WorkerInv, process, control, result
  <1>3. ASSUME NEW v \in Workers PROVE WorkerInv(v)'
    BY <1>3 DEF Drop, WorkerInv, process, control, result
  <1>4. Apart'
    BY DEF Drop, Apart, process
  <1>5. QED
    BY <1>1, <1>2, <1>3, <1>4

LEMMA ProgressStep ==
    ASSUME Inv, NEW w \in Workers, Progress(w) PROVE Inv'
  <1> USE QueueAssumption DEF Inv, TypeOK
  <1>1. TypeOK'
    BY DEF Progress, Store, States, process, control, result
  <1>2. ASSUME NEW s \in Tasks PROVE TaskInv(s)'
    BY <1>2 DEF Progress, Store, TaskInv, Counted, Located, Answered, Over,
       Running, Ready, process, control, result
  <1>3. ASSUME NEW v \in Workers PROVE WorkerInv(v)'
    BY <1>3 DEF Progress, WorkerInv, process, control, result
  <1>4. Apart'
    BY DEF Progress, Apart, process
  <1>5. QED
    BY <1>1, <1>2, <1>3, <1>4

LEMMA ReturnStep ==
    ASSUME Inv, NEW w \in Workers, Return(w) PROVE Inv'
  <1> USE QueueAssumption DEF Inv, TypeOK
  <1>1. TypeOK'
    BY DEF Return, Store, Done, States, process, control, result
  <1>2. ASSUME NEW s \in Tasks PROVE TaskInv(s)'
    BY <1>2 DEF Return, Store, Done, TaskInv, Counted, Located, Answered,
       Over, Running, Ready, ReadyStates, process, control, result
  <1>3. ASSUME NEW v \in Workers PROVE WorkerInv(v)'
    BY <1>3 DEF Return, Store, Done, WorkerInv, TaskInv, Located, process, control, result
  <1>4. Apart'
    BY DEF Return, Store, Done, Apart, TaskInv, Located, Running, process, control, result
  <1>5. QED
    BY <1>1, <1>2, <1>3, <1>4

LEMMA RaiseStep ==
    ASSUME Inv, NEW w \in Workers, Raise(w) PROVE Inv'
  <1> USE QueueAssumption DEF Inv, TypeOK
  <1>1. PICK t \in Tasks :
            /\ runs[w] = t
            /\ Retry(w, t) \/ RetryRejected(w, t) \/ GiveUp(w, t)
            /\ UNCHANGED <<sent, up, control, attempts, crashes>>
    BY DEF Raise
  <1>2. CASE Retry(w, t)
    <2>1. TypeOK'
      BY <1>1, <1>2, RetriesAreNat DEF Retry, control, result
    <2>2. ASSUME NEW s \in Tasks PROVE TaskInv(s)'
      <3>1. CASE s = t
        <4>1. ~Running(t)'
          BY <1>1, <1>2 DEF Retry, Apart, Running
        <4>2. Counted(s)'
          BY <1>1, <1>2, <3>1 DEF Retry, TaskInv, Counted
        <4>3. QED
          BY <1>1, <1>2, <3>1, <4>1, <4>2
             DEF Retry, TaskInv, Located, Answered, Over, Running, control, result
      <3>2. CASE s # t
        <4>1. Running(s)' <=> Running(s)
          BY <1>1, <1>2, <3>2 DEF Retry, Running
        <4>2. QED
          BY <1>1, <1>2, <2>2, <3>2, <4>1
             DEF Retry, TaskInv, Counted, Located, Answered, Over, Ready, control, result
      <3>3. QED
        BY <3>1, <3>2
    <2>3. ASSUME NEW v \in Workers PROVE WorkerInv(v)'
      <3>1. kind[t].max_retries > 0
        BY <1>1, <1>2, RetriesAreNat DEF Retry
      <3>2. QED
        BY <1>1, <1>2, <2>3, <3>1 DEF Retry, WorkerInv, control
    <2>4. Apart'
      BY <1>1, <1>2 DEF Retry, Apart
    <2>5. QED
      BY <2>1, <2>2, <2>3, <2>4
  <1>3. CASE RetryRejected(w, t)
    <2>1. TypeOK'
      BY <1>1, <1>3 DEF RetryRejected, Done, control, result
    <2>2. ASSUME NEW s \in Tasks PROVE TaskInv(s)'
      BY <1>1, <1>3, <2>2 DEF RetryRejected, Done, TaskInv, Counted,
         Located, Answered, Over, Running, Ready, control, result
    <2>3. ASSUME NEW v \in Workers PROVE WorkerInv(v)'
      BY <1>1, <1>3, <2>3 DEF RetryRejected, Done, WorkerInv, control, result
    <2>4. Apart'
      BY <1>1, <1>3 DEF RetryRejected, Done, Apart
    <2>5. QED
      BY <2>1, <2>2, <2>3, <2>4
  <1>4. CASE GiveUp(w, t)
    <2>1. TypeOK'
      BY <1>1, <1>4 DEF GiveUp, Done, Store, States, control, result
    <2>2. ASSUME NEW s \in Tasks PROVE TaskInv(s)'
      BY <1>1, <1>4, <2>2 DEF GiveUp, Done, Store, ReadyStates, TaskInv, Counted,
         Located, Answered, Over, Running, Ready, control, result
    <2>3. ASSUME NEW v \in Workers PROVE WorkerInv(v)'
      BY <1>1, <1>4, <2>3 DEF GiveUp, Done, Store, WorkerInv, control, result
    <2>4. Apart'
      BY <1>1, <1>4 DEF GiveUp, Done, Store, Apart
    <2>5. QED
      BY <2>1, <2>2, <2>3, <2>4
  <1>5. QED
    BY <1>1, <1>2, <1>3, <1>4

LEMMA StoreRetryStep ==
    ASSUME Inv, NEW w \in Workers, StoreRetry(w) PROVE Inv'
  <1> USE QueueAssumption DEF Inv, TypeOK
  <1>1. TypeOK'
    BY DEF StoreRetry, Store, States, process, control, result
  <1>2. ASSUME NEW s \in Tasks PROVE TaskInv(s)'
    <2>1. PICK t \in Tasks :
             /\ owes[w] = t
             /\ \/ /\ status' = [status EXCEPT ![t] = "RETRY"]
                   /\ overtaken' = IF Ready(t) THEN overtaken \cup {t} ELSE overtaken
                   /\ UNCHANGED expired
                \/ status[t] = "SUCCESS" /\ UNCHANGED result
      BY DEF StoreRetry
    <2>2. UNCHANGED <<sent, place, retries, runs, attempts, lost, cancelled>>
      BY DEF StoreRetry, control
    <2>3. Counted(s)' /\ Located(s)'
      BY <1>2, <2>2 DEF TaskInv, Counted, Located, Running
    <2>4. kind[t].max_retries > 0
      BY <2>1 DEF WorkerInv
    <2>5. CASE UNCHANGED result
      BY <1>2, <2>2, <2>3, <2>5 DEF TaskInv, Answered, Over, Running, Ready, result
    <2>6. CASE /\ status' = [status EXCEPT ![t] = "RETRY"]
               /\ overtaken' = IF Ready(t) THEN overtaken \cup {t} ELSE overtaken
               /\ UNCHANGED expired
      <3>1. CASE s = t
        BY <1>2, <2>2, <2>3, <2>4, <2>6, <3>1 DEF TaskInv, Answered, Over, Running, Ready
      <3>2. CASE s # t
        BY <1>2, <2>2, <2>3, <2>6, <3>2 DEF TaskInv, Answered, Over, Running, Ready
      <3>3. QED
        BY <3>1, <3>2
    <2>7. QED
      BY <2>1, <2>5, <2>6
  <1>3. ASSUME NEW v \in Workers PROVE WorkerInv(v)'
    BY <1>3 DEF StoreRetry, Store, WorkerInv, TaskInv, Located, process, control, result
  <1>4. Apart'
    BY DEF StoreRetry, Store, Apart, TaskInv, Located, Running, process, control, result
  <1>5. QED
    BY <1>1, <1>2, <1>3, <1>4

\* The process of a worker ends: nothing of another task changes.
LEMMA KillTasks ==
    ASSUME Inv, NEW w \in Workers, NEW t \in Tasks,
           NEW state \in ReadyStates, Kill(w, t, state),
           UNCHANGED <<place, retries, attempts, sent, cancelled, lost>>,
           NEW s \in Tasks
    PROVE  TaskInv(s)'
  <1> USE QueueAssumption DEF Inv, TypeOK
  <1>1. Running(s)' => Running(s)
    BY DEF Kill, Running
  <1>2. Counted(s)' /\ Located(s)'
    BY <1>1 DEF TaskInv, Counted, Located
  <1>3. CASE s = t
    BY <1>2, <1>3 DEF Kill, Store, TaskInv, Answered, Ready, ReadyStates, result
  <1>4. CASE s # t
    <2>1. runs[w] # s
      BY <1>4 DEF Kill, WorkerInv
    <2>2. Running(s) => Running(s)'
      BY <2>1 DEF Kill, Running
    <2>3. /\ status'[s] = status[s]
          /\ s \in expired' <=> s \in expired
          /\ s \in overtaken' <=> s \in overtaken
      BY <1>4 DEF Kill, Store, result
    <2>4. Answered(s)'
      BY <1>1, <2>2, <2>3 DEF TaskInv, Answered, Over, Ready
    <2>5. QED
      BY <1>2, <2>4 DEF TaskInv
  <1>5. QED
    BY <1>3, <1>4

LEMMA KilledStep ==
    ASSUME Inv, NEW w \in Workers, Killed(w) PROVE Inv'
  <1> USE QueueAssumption DEF Inv, TypeOK
  <1>1. TypeOK'
    BY DEF Killed, Kill, Store, States, process, control, result
  <1>2. ASSUME NEW s \in Tasks PROVE TaskInv(s)'
    BY <1>2, KillTasks DEF Killed, ReadyStates, control, result
  <1>3. ASSUME NEW v \in Workers PROVE WorkerInv(v)'
    BY <1>3 DEF Killed, Kill, Store, WorkerInv, TaskInv, Located, process, control, result
  <1>4. Apart'
    BY DEF Killed, Kill, Store, Apart, TaskInv, Located, Running, process, control, result
  <1>5. QED
    BY <1>1, <1>2, <1>3, <1>4

LEMMA CancelStep ==
    ASSUME Inv, NEW t \in Tasks, Cancel(t) PROVE Inv'
  <1> USE QueueAssumption DEF Inv, TypeOK
  <1>1. TypeOK'
    BY DEF Cancel, States, process, control, result
  <1>2. ASSUME NEW s \in Tasks PROVE TaskInv(s)'
    BY <1>2 DEF Cancel, TaskInv, Counted, Located, Answered, Over, Running,
       Ready, ReadyStates, process, control, result
  <1>3. ASSUME NEW v \in Workers PROVE WorkerInv(v)'
    BY <1>3 DEF Cancel, WorkerInv, TaskInv, Located, process, control, result
  <1>4. Apart'
    BY DEF Cancel, Apart, TaskInv, Located, Running, process, control, result
  <1>5. QED
    BY <1>1, <1>2, <1>3, <1>4

LEMMA HearStep ==
    ASSUME Inv, NEW w \in Workers, NEW t \in Tasks, Hear(w, t) PROVE Inv'
  <1> USE QueueAssumption DEF Inv, TypeOK
  <1>1. TypeOK'
    BY DEF Hear, Kill, Store, States, process, control, result
  <1>2. ASSUME NEW s \in Tasks PROVE TaskInv(s)'
    <2>1. CASE Kill(w, t, "REVOKED")
      BY <1>2, <2>1, KillTasks DEF Hear, ReadyStates
    <2>2. CASE UNCHANGED <<process, result>>
      BY <1>2, <2>2 DEF Hear, TaskInv, Counted, Located, Answered, Over,
         Running, Ready, process, result
    <2>3. QED
      BY <2>1, <2>2 DEF Hear
  <1>3. ASSUME NEW v \in Workers PROVE WorkerInv(v)'
    BY <1>3 DEF Hear, Kill, Store, WorkerInv, TaskInv, Located, process, control, result
  <1>4. Apart'
    BY DEF Hear, Kill, Store, Apart, TaskInv, Located, Running, process, control, result
  <1>5. QED
    BY <1>1, <1>2, <1>3, <1>4

LEMMA ForgetStep ==
    ASSUME Inv, NEW w \in Workers, NEW t \in Tasks, Forget(w, t) PROVE Inv'
  <1> USE QueueAssumption DEF Inv, TypeOK
  <1>1. TypeOK'
    BY DEF Forget, States, process, control, result
  <1>2. ASSUME NEW s \in Tasks PROVE TaskInv(s)'
    BY <1>2 DEF Forget, TaskInv, Counted, Located, Answered, Over, Running,
       Ready, ReadyStates, process, control, result
  <1>3. ASSUME NEW v \in Workers PROVE WorkerInv(v)'
    BY <1>3 DEF Forget, WorkerInv, TaskInv, Located, process, control, result
  <1>4. Apart'
    BY DEF Forget, Apart, TaskInv, Located, Running, process, control, result
  <1>5. QED
    BY <1>1, <1>2, <1>3, <1>4

LEMMA ExpireStep ==
    ASSUME Inv, NEW t \in Tasks, Expire(t) PROVE Inv'
  <1> USE QueueAssumption DEF Inv, TypeOK
  <1>1. TypeOK'
    BY DEF Expire, States, process, control, result
  <1>2. ASSUME NEW s \in Tasks PROVE TaskInv(s)'
    BY <1>2 DEF Expire, TaskInv, Counted, Located, Answered, Over, Running,
       Ready, ReadyStates, process, control, result
  <1>3. ASSUME NEW v \in Workers PROVE WorkerInv(v)'
    BY <1>3 DEF Expire, WorkerInv, TaskInv, Located, process, control, result
  <1>4. Apart'
    BY DEF Expire, Apart, TaskInv, Located, Running, process, control, result
  <1>5. QED
    BY <1>1, <1>2, <1>3, <1>4

LEMMA CrashStep ==
    ASSUME Inv, NEW w \in Workers, Crash(w) PROVE Inv'
  <1> USE QueueAssumption DEF Inv, TypeOK
  <1>1. TypeOK'
    BY DEF Crash, States, process, control, result
  <1>2. ASSUME NEW s \in Tasks PROVE TaskInv(s)'
    BY <1>2 DEF Crash, TaskInv, Counted, Located, Answered, Over, Running,
       Ready, ReadyStates, process, control, result
  <1>3. ASSUME NEW v \in Workers PROVE WorkerInv(v)'
    BY <1>3 DEF Crash, WorkerInv, TaskInv, Located, process, control, result
  <1>4. Apart'
    BY DEF Crash, Apart, TaskInv, Located, Running, process, control, result
  <1>5. QED
    BY <1>1, <1>2, <1>3, <1>4

LEMMA RestartStep ==
    ASSUME Inv, NEW w \in Workers, Restart(w) PROVE Inv'
  <1> USE QueueAssumption DEF Inv, TypeOK
  <1>1. TypeOK'
    BY DEF Restart, States, process, control, result
  <1>2. ASSUME NEW s \in Tasks PROVE TaskInv(s)'
    BY <1>2 DEF Restart, TaskInv, Counted, Located, Answered, Over, Running,
       Ready, ReadyStates, process, control, result
  <1>3. ASSUME NEW v \in Workers PROVE WorkerInv(v)'
    BY <1>3 DEF Restart, WorkerInv, TaskInv, Located, process, control, result
  <1>4. Apart'
    BY DEF Restart, Apart, TaskInv, Located, Running, process, control, result
  <1>5. QED
    BY <1>1, <1>2, <1>3, <1>4

LEMMA RestoreStep ==
    ASSUME Inv, NEW t \in Tasks, Restore(t) PROVE Inv'
  <1> USE QueueAssumption DEF Inv, TypeOK
  <1>1. TypeOK'
    BY DEF Restore, States, process, control, result
  <1>2. ASSUME NEW s \in Tasks PROVE TaskInv(s)'
    BY <1>2 DEF Restore, TaskInv, Counted, Located, Answered, Over, Running,
       Ready, ReadyStates, process, control, result
  <1>3. ASSUME NEW v \in Workers PROVE WorkerInv(v)'
    BY <1>3 DEF Restore, WorkerInv, TaskInv, Located, process, control, result
  <1>4. Apart'
    BY DEF Restore, Apart, TaskInv, Located, Running, process, control, result
  <1>5. QED
    BY <1>1, <1>2, <1>3, <1>4

LEMMA InitInv == Init => Inv
  <1> SUFFICES ASSUME Init PROVE Inv
    OBVIOUS
  <1> USE QueueAssumption DEF Init
  <1>1. TypeOK
    BY RetriesAreNat DEF TypeOK, States
  <1>2. ASSUME NEW t \in Tasks PROVE TaskInv(t)
    BY <1>2 DEF TaskInv, Counted, Located, Answered, Running
  <1>3. ASSUME NEW w \in Workers PROVE WorkerInv(w)
    BY <1>3 DEF WorkerInv
  <1>4. QED
    BY <1>1, <1>2, <1>3 DEF Inv, Apart

LEMMA Stutter == ASSUME Inv, UNCHANGED vars PROVE Inv'
  <1> USE DEF Inv, vars, process, control, result
  <1>1. TypeOK'
    BY DEF TypeOK
  <1>2. ASSUME NEW t \in Tasks PROVE TaskInv(t)'
    BY <1>2 DEF TaskInv, Counted, Located, Answered, Over, Running, Ready
  <1>3. ASSUME NEW w \in Workers PROVE WorkerInv(w)'
    BY <1>3 DEF WorkerInv
  <1>4. Apart'
    BY DEF Apart
  <1>5. QED
    BY <1>1, <1>2, <1>3, <1>4

LEMMA NextInv == Inv /\ [Next]_vars => Inv'
  <1> SUFFICES ASSUME Inv, [Next]_vars PROVE Inv'
    OBVIOUS
  <1>1. ASSUME NEW t \in Tasks, Send(t) \/ Cancel(t) \/ Restore(t) \/ Expire(t)
        PROVE  Inv'
    BY <1>1, SendStep, CancelStep, RestoreStep, ExpireStep
  <1>2. ASSUME NEW w \in Workers, Serve(w) PROVE Inv'
    BY <1>2, FetchStep, StartStep, DropStep DEF Serve
  <1>3. ASSUME NEW w \in Workers, Finish(w) \/ Progress(w) PROVE Inv'
    BY <1>3, ReturnStep, RaiseStep, StoreRetryStep, KilledStep, ProgressStep
       DEF Finish
  <1>4. ASSUME NEW w \in Workers,
               \/ \E t \in Tasks : Hear(w, t) \/ Forget(w, t)
               \/ Crash(w) \/ Restart(w)
        PROVE  Inv'
    BY <1>4, HearStep, ForgetStep, CrashStep, RestartStep
  <1>5. QED
    BY <1>1, <1>2, <1>3, <1>4, Stutter DEF Next

LEMMA Invariance == Spec => []Inv
  <1>1. QED
    BY InitInv, NextInv, PTL DEF Spec

-----------------------------------------------------------------------------
\* Every reachable state is well typed; no task is retried more often than its
\* decorator says.
THEOREM TypeCorrect == Spec => []TypeOK
  <1>1. Inv => TypeOK
    BY DEF Inv
  <1>2. QED
    BY <1>1, Invariance, PTL

\* However workers crash and retries race, a body is started at most once more
\* than its decorator says (Retry, StoreRetry, Crash, Restore).
THEOREM StartsBounded == Spec => []AttemptsBounded
  <1>1. Inv => AttemptsBounded
    BY RetriesAreNat DEF Inv, TypeOK, TaskInv, Counted, AttemptsBounded
  <1>2. QED
    BY <1>1, Invariance, PTL

\* A task is in one process at most, and then has no message that could start
\* another: acknowledgement comes before the body.
THEOREM NeverTwice == Spec => []OneProcess
  <1>1. Inv => OneProcess
    BY DEF Inv, TaskInv, Located, Apart, OneProcess
  <1>2. QED
    BY <1>1, Invariance, PTL

\* A task that never started and was not cancelled is still to be delivered.
THEOREM StillDelivered == Spec => []NothingVanishes
  <1>1. Inv => NothingVanishes
    BY DEF Inv, TypeOK, TaskInv, Located, NothingVanishes
  <1>2. QED
    BY <1>1, Invariance, PTL

\* A worker that heard of a cancellation, and remembers, never runs the task.
THEOREM HeardIsStopped == Spec => []CancelledStops
  <1>1. Inv => CancelledStops
    BY DEF Inv, WorkerInv, CancelledStops
  <1>2. QED
    BY <1>1, Invariance, PTL

\* A task that is over reads otherwise only if it was lost, its state expired, or
\* a RETRY that was stored late replaced it; a task that is never retried does not.
THEOREM AnsweredUnlessLost == Spec => []UnreadyExplained
  <1>1. Inv => UnreadyExplained
    BY DEF Inv, TypeOK, TaskInv, Answered, UnreadyExplained
  <1>2. QED
    BY <1>1, Invariance, PTL

-----------------------------------------------------------------------------
(***************************************************************************)
(* The queue implements Delivery: each action moves one task, or none.     *)
(***************************************************************************)
DeliveryStep == Promised!Next \/ UNCHANGED <<Stage, attempts, cancelled>>

\* Where the messages are no longer matters to a caller, only whether there is one.
SamePlaces == \A s \in Tasks : place'[s] = "none" <=> place[s] = "none"

LEMMA OneMoves ==
    ASSUME NEW t \in Tasks, NEW to, Stage'[t] = to,
           \A s \in Tasks \ {t} : /\ Running(s)' <=> Running(s)
                                  /\ place'[s] = "none" <=> place[s] = "none"
                                  /\ s \in sent' <=> s \in sent
    PROVE  Stage' = [Stage EXCEPT ![t] = to]
  BY DEF Stage

LEMMA NoneMoves ==
    ASSUME UNCHANGED <<sent, runs, attempts, cancelled>>, SamePlaces
    PROVE  DeliveryStep
  <1>1. \A s \in Tasks : Running(s)' <=> Running(s)
    BY DEF Running
  <1>2. Stage' = Stage
    BY <1>1 DEF Stage, SamePlaces
  <1>3. QED
    BY <1>2 DEF DeliveryStep

\* A body ends, however: it returns, gives up, is killed or dies with its worker.
LEMMA BodyEnds ==
    ASSUME Inv, NEW w \in Workers, NEW t \in Tasks, runs[w] = t,
           runs' = [runs EXCEPT ![w] = None],
           UNCHANGED <<sent, attempts, cancelled>>, SamePlaces
    PROVE  DeliveryStep
  <1> USE QueueAssumption DEF Inv, TypeOK
  <1>1. \A s \in Tasks : Running(s)' <=> (Running(s) /\ s # t)
    BY DEF Running, Apart
  <1>2. t \in sent /\ Running(t) /\ place[t] = "none"
    BY DEF Running, TaskInv, Located
  <1>3. Stage[t] = "running" /\ Stage'[t] = "over"
    BY <1>1, <1>2 DEF Stage, SamePlaces
  <1>4. Stage' = [Stage EXCEPT ![t] = "over"]
    BY <1>1, <1>3, OneMoves DEF SamePlaces
  <1>5. Promised!End(t)
    BY <1>3, <1>4 DEF Promised!End, Promised!Move
  <1>6. QED
    BY <1>5 DEF DeliveryStep, Promised!Next

LEMMA KillEnds ==
    ASSUME Inv, NEW w \in Workers, NEW t \in Tasks, NEW state, Kill(w, t, state),
           UNCHANGED <<place, sent, attempts, cancelled>>
    PROVE  DeliveryStep
  <1> USE QueueAssumption DEF Inv, TypeOK
  <1>1. SamePlaces
    BY DEF SamePlaces
  <1>2. CASE runs[w] = t
    BY <1>1, <1>2, BodyEnds DEF Kill
  <1>3. CASE runs[w] # t
    <2>1. runs[w] = None
      BY <1>3 DEF Kill, WorkerInv
    <2>2. runs' = runs
      BY <2>1 DEF Kill
    <2>3. QED
      BY <1>1, <2>2, NoneMoves
  <1>4. QED
    BY <1>2, <1>3

LEMMA SendDelivers ==
    ASSUME Inv, NEW t \in Tasks, Send(t) PROVE DeliveryStep
  <1> USE QueueAssumption DEF Inv, TypeOK
  <1>1. \A s \in Tasks : Running(s)' <=> Running(s)
    BY DEF Send, process, Running
  <1>2. Stage[t] = "unsent" /\ Stage'[t] = "waiting"
    BY <1>1 DEF Send, Stage, TaskInv, Located
  <1>3. Stage' = [Stage EXCEPT ![t] = "waiting"]
    BY <1>1, <1>2, OneMoves DEF Send
  <1>4. Promised!Send(t)
    BY <1>2, <1>3 DEF Promised!Send, Promised!Move, Send, control, result
  <1>5. QED
    BY <1>4 DEF DeliveryStep, Promised!Next

LEMMA StartDelivers ==
    ASSUME Inv, NEW w \in Workers, NEW t \in Tasks, Start(w, t) PROVE DeliveryStep
  <1> USE QueueAssumption DEF Inv, TypeOK
  <1>1. ~Running(t) /\ place[t] # "none"
    BY DEF Start, TaskInv, Located
  <1>2. \A s \in Tasks : Running(s)' <=> (Running(s) \/ s = t)
    BY DEF Start, Idle, Running
  <1>3. Stage[t] = "waiting" /\ Stage'[t] = "running"
    BY <1>1, <1>2 DEF Stage
  <1>4. Stage' = [Stage EXCEPT ![t] = "running"]
    BY <1>2, <1>3, OneMoves DEF Start
  <1>5. attempts[t] < kind[t].max_retries + 1
    BY <1>1, RetriesAreNat DEF TaskInv, Counted
  <1>6. Promised!Begin(t)
    BY <1>3, <1>4, <1>5 DEF Promised!Begin, Promised!Move, Start, control, result
  <1>7. QED
    BY <1>6 DEF DeliveryStep, Promised!Next

LEMMA DropDelivers ==
    ASSUME Inv, NEW w \in Workers, NEW t \in Tasks, Drop(w, t) PROVE DeliveryStep
  <1> USE QueueAssumption DEF Inv, TypeOK
  <1>1. ~Running(t) /\ place[t] # "none" /\ t \in sent
    BY DEF Drop, TaskInv, Located
  <1>2. \A s \in Tasks : Running(s)' <=> Running(s)
    BY DEF Drop, process, Running
  <1>3. Stage[t] = "waiting" /\ Stage'[t] = "over"
    BY <1>1, <1>2 DEF Stage, Drop
  <1>4. Stage' = [Stage EXCEPT ![t] = "over"]
    BY <1>2, <1>3, OneMoves DEF Drop
  <1>5. t \in cancelled
    BY DEF Drop, WorkerInv
  <1>6. Promised!Discard(t)
    BY <1>3, <1>4, <1>5 DEF Promised!Discard, Promised!Move, Drop, control, result
  <1>7. QED
    BY <1>6 DEF DeliveryStep, Promised!Next

LEMMA RetryDelivers ==
    ASSUME Inv, NEW w \in Workers, NEW t \in Tasks, runs[w] = t, Retry(w, t),
           UNCHANGED <<sent, attempts, cancelled>>
    PROVE  DeliveryStep
  <1> USE QueueAssumption DEF Inv, TypeOK
  <1>1. Running(t)
    BY DEF Running
  <1>2. \A s \in Tasks : Running(s)' <=> (Running(s) /\ s # t)
    BY DEF Retry, Running, Apart
  <1>3. Stage[t] = "running" /\ Stage'[t] = "waiting"
    BY <1>1, <1>2 DEF Stage, Retry
  <1>4. Stage' = [Stage EXCEPT ![t] = "waiting"]
    BY <1>2, <1>3, OneMoves DEF Retry
  <1>5. attempts[t] < kind[t].max_retries + 1
    BY RetriesAreNat DEF TaskInv, Counted, Retry
  <1>6. Promised!Again(t)
    BY <1>3, <1>4, <1>5 DEF Promised!Again, Promised!Move
  <1>7. QED
    BY <1>6 DEF DeliveryStep, Promised!Next

LEMMA RaiseDelivers ==
    ASSUME Inv, NEW w \in Workers, Raise(w) PROVE DeliveryStep
  <1>1. PICK t \in Tasks :
            /\ runs[w] = t
            /\ Retry(w, t) \/ RetryRejected(w, t) \/ GiveUp(w, t)
            /\ UNCHANGED <<sent, attempts, cancelled>>
    BY DEF Raise, control, result
  <1>2. CASE Retry(w, t)
    BY <1>1, <1>2, RetryDelivers
  <1>3. CASE RetryRejected(w, t) \/ GiveUp(w, t)
    BY <1>1, <1>3, BodyEnds DEF RetryRejected, GiveUp, Done, SamePlaces
  <1>4. QED
    BY <1>1, <1>2, <1>3

LEMMA CrashDelivers ==
    ASSUME Inv, NEW w \in Workers, Crash(w) PROVE DeliveryStep
  <1> USE QueueAssumption DEF Inv, TypeOK
  <1>1. SamePlaces
    BY DEF Crash, SamePlaces
  <1>2. CASE runs[w] \in Tasks
    BY <1>1, <1>2, BodyEnds DEF Crash
  <1>3. CASE runs[w] = None
    <2>1. runs' = runs
      BY <1>3 DEF Crash
    <2>2. QED
      BY <1>1, <2>1, NoneMoves DEF Crash
  <1>4. QED
    BY <1>2, <1>3

LEMMA CancelDelivers ==
    ASSUME NEW t \in Tasks, Cancel(t) PROVE DeliveryStep
  <1>1. Stage' = Stage
    BY DEF Cancel, process, Stage, Running
  <1>2. Promised!Cancel(t)
    BY <1>1 DEF Promised!Cancel, Cancel
  <1>3. QED
    BY <1>2 DEF DeliveryStep, Promised!Next

\* What moves no task: its message changes hands, or its state is stored.
LEMMA QuietDelivers ==
    ASSUME Inv, NEW w \in Workers, NEW t \in Tasks,
           \/ Fetch(w, t) \/ Forget(w, t) \/ Restart(w)
           \/ Progress(w) \/ StoreRetry(w)
    PROVE  DeliveryStep
  <1>1. UNCHANGED <<sent, runs, attempts, cancelled>>
    BY DEF Fetch, Forget, Restart, Progress, StoreRetry, process, control, result
  <1>2. SamePlaces
    BY QueueAssumption
       DEF Fetch, Forget, Restart, Progress, StoreRetry, SamePlaces, Inv, TypeOK
  <1>3. QED
    BY <1>1, <1>2, NoneMoves

LEMMA DeliverySteps == ASSUME Inv, Next PROVE DeliveryStep
  <1>1. ASSUME NEW t \in Tasks, Send(t) \/ Cancel(t) PROVE DeliveryStep
    BY <1>1, SendDelivers, CancelDelivers
  <1>2. ASSUME NEW t \in Tasks, Restore(t) \/ Expire(t) PROVE DeliveryStep
    <2>1. UNCHANGED <<sent, runs, attempts, cancelled>> /\ SamePlaces
      BY <1>2, QueueAssumption DEF Restore, Expire, SamePlaces, process, control, result, Inv, TypeOK
    <2>2. QED
      BY <2>1, NoneMoves
  <1>3. ASSUME NEW w \in Workers, Serve(w) PROVE DeliveryStep
    BY <1>3, QuietDelivers, StartDelivers, DropDelivers DEF Serve
  <1>4. ASSUME NEW w \in Workers, Return(w) PROVE DeliveryStep
    BY <1>4, BodyEnds DEF Return, Done, SamePlaces, control, result
  <1>5. ASSUME NEW w \in Workers, Killed(w) PROVE DeliveryStep
    BY <1>5, KillEnds DEF Killed, control, result
  <1>6. ASSUME NEW w \in Workers, StoreRetry(w) \/ Progress(w) PROVE DeliveryStep
    BY <1>6, QuietDelivers DEF StoreRetry, Progress
  <1>7. ASSUME NEW w \in Workers, NEW t \in Tasks, Hear(w, t) PROVE DeliveryStep
    <2>1. CASE Kill(w, t, "REVOKED")
      BY <1>7, <2>1, KillEnds DEF Hear
    <2>2. CASE UNCHANGED <<process, result>>
      BY <1>7, <2>2, NoneMoves DEF Hear, process, SamePlaces
    <2>3. QED
      BY <1>7, <2>1, <2>2 DEF Hear
  <1>8. ASSUME NEW w \in Workers, NEW t \in Tasks, Forget(w, t) PROVE DeliveryStep
    BY <1>8, QuietDelivers
  <1>9. ASSUME NEW w \in Workers, Restart(w) PROVE DeliveryStep
    BY <1>9, NoneMoves DEF Restart, process, SamePlaces
  <1>10. QED
    BY <1>1, <1>2, <1>3, <1>4, <1>5, <1>6, <1>7, <1>8, <1>9, RaiseDelivers, CrashDelivers
       DEF Next, Finish

\* However workers crash and retries race, the queue delivers as Delivery says.
THEOREM Implements == Spec => Delivers
  <1>1. Init => Promised!Init
    BY QueueAssumption DEF Init, Promised!Init, Stage, Running
  <1>2. Inv /\ [Next]_vars => [Promised!Next]_<<Stage, attempts, cancelled>>
    <2>1. CASE UNCHANGED vars
      BY <2>1 DEF vars, process, control, result, Stage, Running
    <2>2. ASSUME Inv, Next
          PROVE  [Promised!Next]_<<Stage, attempts, cancelled>>
      BY <2>2, DeliverySteps DEF DeliveryStep
    <2>3. QED
      BY <2>1, <2>2
  <1>3. QED
    BY <1>1, <1>2, Invariance, PTL DEF Spec, Delivers, Promised!Spec
=============================================================================
