------------------------------- MODULE Tracker -------------------------------
(***************************************************************************)
(* Jobs and applications: JobService of app/services, the handlers of      *)
(* app/api/routes/applications.py and dashboard.py, and the foreign keys   *)
(* of app/db/models.py.  Of the resumes, which ResumeStore models, there   *)
(* are only the rows an application may name.                              *)
(*                                                                         *)
(* The code talks to the database through the Supabase client, where each  *)
(* execute() is a statement and a transaction of its own: a handler that   *)
(* checks and then writes is interleaved with others in between, and one   *)
(* that fails half-way keeps what it wrote.  Handlers are synchronous and  *)
(* run on the threads of a pool.  Titles, texts, scores and statuses are   *)
(* left out but for what makes two jobs duplicates.                        *)
(***************************************************************************)
EXTENDS Integers, FiniteSets

CONSTANTS
    Requests,      \* threads of the pool
    Users,
    Keys,          \* (title, company), lower-cased and stripped
    None,
    UniqueIndex,   \* whether applications has UNIQUE(user_id, job_id)
    MaxJobs,       \* bounds on the ids given out
    MaxApps,
    MaxResumes

ASSUME TrackerAssumption ==
    /\ IsFiniteSet(Requests)
    /\ None \notin Users \cup Keys \cup Int
    /\ UniqueIndex \in BOOLEAN
    /\ MaxJobs \in Nat /\ MaxApps \in Nat /\ MaxResumes \in Nat

JobIds == 1..MaxJobs
AppIds == 1..MaxApps
ResumeIds == 1..MaxResumes

VARIABLES
    lastJob, lastApp, lastResume,   \* the serial ids given out so far
    jobUser,       \* user_id of each job; None if there is no such row
    jobKey,
    appUser,       \* user_id of each application; None if there is no such row
    appJob,        \* job_id
    appResume,     \* resume_id; None is NULL
    resumeUser,    \* user_id of each resume; None if there is no such row
    pc,            \* per request, where it stands
    by,            \* its user
    job,           \* the job it applies for, or shows
    app,           \* the application it updates
    resume,        \* the resume it attaches
    doomed         \* the duplicates it is yet to delete

serials == <<lastJob, lastApp, lastResume>>
jobs == <<jobUser, jobKey>>
apps == <<appUser, appJob, appResume>>
request == <<pc, by, job, app, resume, doomed>>
vars == <<serials, jobs, apps, resumeUser, request>>

Steps == {"idle", "check_resume", "check_duplicate", "inserting", "updating",
          "deduplicating", "scores", "recent", "titles"}

TypeOK ==
    /\ lastJob \in 0..MaxJobs /\ lastApp \in 0..MaxApps /\ lastResume \in 0..MaxResumes
    /\ jobUser \in [JobIds -> Users \cup {None}]
    /\ jobKey \in [JobIds -> Keys \cup {None}]
    /\ appUser \in [AppIds -> Users \cup {None}]
    /\ appJob \in [AppIds -> JobIds \cup {None}]
    /\ appResume \in [AppIds -> ResumeIds \cup {None}]
    /\ resumeUser \in [ResumeIds -> Users \cup {None}]
    /\ pc \in [Requests -> Steps]
    /\ by \in [Requests -> Users \cup {None}]
    /\ job \in [Requests -> JobIds \cup {None}]
    /\ app \in [Requests -> AppIds \cup {None}]
    /\ resume \in [Requests -> ResumeIds \cup {None}]
    /\ doomed \in [Requests -> SUBSET JobIds]

Init ==
    /\ lastJob = 0 /\ lastApp = 0 /\ lastResume = 0
    /\ jobUser = [j \in JobIds |-> None]
    /\ jobKey = [j \in JobIds |-> None]
    /\ appUser = [a \in AppIds |-> None]
    /\ appJob = [a \in AppIds |-> None]
    /\ appResume = [a \in AppIds |-> None]
    /\ resumeUser = [x \in ResumeIds |-> None]
    /\ pc = [r \in Requests |-> "idle"]
    /\ by = [r \in Requests |-> None]
    /\ job = [r \in Requests |-> None]
    /\ app = [r \in Requests |-> None]
    /\ resume = [r \in Requests |-> None]
    /\ doomed = [r \in Requests |-> {}]

JobsOf(u) == {j \in JobIds : jobUser[j] = u}
ResumesOf(u) == {x \in ResumeIds : resumeUser[x] = u}
AppsOf(u) == {a \in AppIds : appUser[a] = u}
Applications(u, j) == {a \in AppsOf(u) : appJob[a] = j}

-----------------------------------------------------------------------------
\* Moves of one request.
At(r, step) == pc[r] = step

GoTo(r, step) ==
    /\ pc' = [pc EXCEPT ![r] = step]
    /\ UNCHANGED <<by, job, app, resume, doomed>>

Leave(r) ==
    /\ pc' = [pc EXCEPT ![r] = "idle"]
    /\ by' = [by EXCEPT ![r] = None]
    /\ job' = [job EXCEPT ![r] = None]
    /\ app' = [app EXCEPT ![r] = None]
    /\ resume' = [resume EXCEPT ![r] = None]
    /\ doomed' = [doomed EXCEPT ![r] = {}]

\* A resume_id is None or names a row.
Attachable(x) == x = None \/ \E u \in Users : x \in ResumesOf(u)

\* DELETE of a job takes its applications along: ON DELETE CASCADE.
RemoveJob(j) ==
    LET Kept(value) == [a \in AppIds |-> IF appJob[a] = j THEN None ELSE value[a]]
    IN  /\ jobUser' = [jobUser EXCEPT ![j] = None]
        /\ jobKey' = [jobKey EXCEPT ![j] = None]
        /\ appUser' = Kept(appUser)
        /\ appJob' = Kept(appJob)
        /\ appResume' = Kept(appResume)

-----------------------------------------------------------------------------
\* Operations of one statement.
CreateJob(u, k) ==
    /\ lastJob < MaxJobs
    /\ lastJob' = lastJob + 1
    /\ jobUser' = [jobUser EXCEPT ![lastJob + 1] = u]
    /\ jobKey' = [jobKey EXCEPT ![lastJob + 1] = k]
    /\ UNCHANGED <<lastApp, lastResume, apps, resumeUser, request>>

UpdateJob(u, j, k) ==
    /\ j \in JobsOf(u)
    /\ jobKey' = [jobKey EXCEPT ![j] = k]
    /\ UNCHANGED <<serials, jobUser, apps, resumeUser, request>>

\* A faulty variant of DeleteJob, for mutation tests: no cascade.
DeleteJobOnly(u, j) ==
    /\ j \in JobsOf(u)
    /\ jobUser' = [jobUser EXCEPT ![j] = None]
    /\ jobKey' = [jobKey EXCEPT ![j] = None]
    /\ UNCHANGED <<serials, apps, resumeUser, request>>

DeleteJob(u, j) ==
    /\ j \in JobsOf(u)
    /\ RemoveJob(j)
    /\ UNCHANGED <<serials, resumeUser, request>>

\* Resumes come and go: ResumeStore says how.
CreateResume(u) ==
    /\ lastResume < MaxResumes
    /\ lastResume' = lastResume + 1
    /\ resumeUser' = [resumeUser EXCEPT ![lastResume + 1] = u]
    /\ UNCHANGED <<lastJob, lastApp, jobs, apps, request>>

\* Its applications keep no resume: ON DELETE SET NULL.
DeleteResume(u, x) ==
    /\ x \in ResumesOf(u)
    /\ resumeUser' = [resumeUser EXCEPT ![x] = None]
    /\ appResume' = [a \in AppIds |-> IF appResume[a] = x THEN None ELSE appResume[a]]
    /\ UNCHANGED <<serials, jobs, appUser, appJob, request>>

DeleteApplication(u, a) ==
    /\ a \in AppsOf(u)
    /\ appUser' = [appUser EXCEPT ![a] = None]
    /\ appJob' = [appJob EXCEPT ![a] = None]
    /\ appResume' = [appResume EXCEPT ![a] = None]
    /\ UNCHANGED <<serials, jobs, resumeUser, request>>

-----------------------------------------------------------------------------
(***************************************************************************)
(* create_application(): is the job the user's, is the resume, has the     *)
(* user applied already, and only then the INSERT.  The client may name    *)
(* any job and any resume.                                                 *)
(***************************************************************************)
\* A faulty variant of Apply, for mutation tests: any job will do.
ApplyForAnyJob(r, u, j, x) ==
    /\ At(r, "idle")
    /\ pc' = [pc EXCEPT ![r] = IF x = None THEN "check_duplicate" ELSE "check_resume"]
    /\ by' = [by EXCEPT ![r] = u]
    /\ job' = [job EXCEPT ![r] = j]
    /\ resume' = [resume EXCEPT ![r] = x]
    /\ UNCHANGED <<serials, jobs, apps, resumeUser, app, doomed>>

Apply(r, u, j, x) ==
    /\ At(r, "idle")
    /\ j \in JobsOf(u)
    /\ pc' = [pc EXCEPT ![r] = IF x = None THEN "check_duplicate" ELSE "check_resume"]
    /\ by' = [by EXCEPT ![r] = u]
    /\ job' = [job EXCEPT ![r] = j]
    /\ resume' = [resume EXCEPT ![r] = x]
    /\ UNCHANGED <<serials, jobs, apps, resumeUser, app, doomed>>

\* A faulty variant of ApplyResume, for mutation tests: any resume will do.
ApplyAnyResume(r) ==
    /\ At(r, "check_resume")
    /\ GoTo(r, "check_duplicate")
    /\ UNCHANGED <<serials, jobs, apps, resumeUser>>

ApplyResume(r) ==
    /\ At(r, "check_resume")
    /\ IF resume[r] \in ResumesOf(by[r]) THEN GoTo(r, "check_duplicate") ELSE Leave(r)
    /\ UNCHANGED <<serials, jobs, apps, resumeUser>>

\* A faulty variant of ApplyDuplicate, for mutation tests: no check.
ApplyUnchecked(r) ==
    /\ At(r, "check_duplicate")
    /\ GoTo(r, "inserting")
    /\ UNCHANGED <<serials, jobs, apps, resumeUser>>

ApplyDuplicate(r) ==
    /\ At(r, "check_duplicate")
    /\ IF Applications(by[r], job[r]) = {} THEN GoTo(r, "inserting") ELSE Leave(r)
    /\ UNCHANGED <<serials, jobs, apps, resumeUser>>

\* The constraints of the table, as they stand when the INSERT runs.
Insertable(r) ==
    /\ \E u \in Users : job[r] \in JobsOf(u)
    /\ Attachable(resume[r])
    /\ UniqueIndex => Applications(by[r], job[r]) = {}

\* A faulty variant of ApplyInsert, for mutation tests: job_id and resume_id
\* change places.
ApplyInsertSwapped(r) ==
    /\ At(r, "inserting")
    /\ Insertable(r) /\ lastApp < MaxApps
    /\ lastApp' = lastApp + 1
    /\ appUser' = [appUser EXCEPT ![lastApp + 1] = by[r]]
    /\ appJob' = [appJob EXCEPT ![lastApp + 1] = resume[r]]
    /\ appResume' = [appResume EXCEPT ![lastApp + 1] = job[r]]
    /\ Leave(r)
    /\ UNCHANGED <<lastJob, lastResume, jobs, resumeUser>>

ApplyInsert(r) ==
    /\ At(r, "inserting")
    /\ Insertable(r) /\ lastApp < MaxApps
    /\ lastApp' = lastApp + 1
    /\ appUser' = [appUser EXCEPT ![lastApp + 1] = by[r]]
    /\ appJob' = [appJob EXCEPT ![lastApp + 1] = job[r]]
    /\ appResume' = [appResume EXCEPT ![lastApp + 1] = resume[r]]
    /\ Leave(r)
    /\ UNCHANGED <<lastJob, lastResume, jobs, resumeUser>>

ApplyRefused(r) ==
    /\ At(r, "inserting")
    /\ ~Insertable(r)
    /\ Leave(r)
    /\ UNCHANGED <<serials, jobs, apps, resumeUser>>

-----------------------------------------------------------------------------
\* update_application(): the resume it names need only exist.
UpdateSelect(r, u, a, x) ==
    /\ At(r, "idle")
    /\ a \in AppsOf(u)
    /\ pc' = [pc EXCEPT ![r] = "updating"]
    /\ by' = [by EXCEPT ![r] = u]
    /\ app' = [app EXCEPT ![r] = a]
    /\ resume' = [resume EXCEPT ![r] = x]
    /\ UNCHANGED <<serials, jobs, apps, resumeUser, job, doomed>>

\* exclude_none: a resume_id that is None is not written.
UpdateWrite(r) ==
    /\ At(r, "updating")
    /\ \/ /\ app[r] \in AppsOf(by[r]) /\ resume[r] # None /\ Attachable(resume[r])
          /\ appResume' = [appResume EXCEPT ![app[r]] = resume[r]]
       \/ /\ app[r] \notin AppsOf(by[r]) \/ resume[r] = None \/ ~Attachable(resume[r])
          /\ UNCHANGED appResume
    /\ Leave(r)
    /\ UNCHANGED <<serials, jobs, appUser, appJob, resumeUser>>

-----------------------------------------------------------------------------
(***************************************************************************)
(* deduplicate_jobs(): the user's jobs in the order the database happens   *)
(* to return them; the first of each key is kept, the others are deleted   *)
(* one by one, by id.                                                      *)
(***************************************************************************)
Listed(u) == JobsOf(u)

\* A choice of the first job of each key.
FirstOfEach(found) ==
    {first \in SUBSET found :
        \A j \in found : Cardinality({f \in first : jobKey[f] = jobKey[j]}) = 1}

DedupSelect(r, u) ==
    /\ At(r, "idle")
    /\ \E first \in FirstOfEach(Listed(u)) :
          /\ Listed(u) # first
          /\ doomed' = [doomed EXCEPT ![r] = Listed(u) \ first]
    /\ pc' = [pc EXCEPT ![r] = "deduplicating"]
    /\ by' = [by EXCEPT ![r] = u]
    /\ UNCHANGED <<serials, jobs, apps, resumeUser, job, app, resume>>

DedupDelete(r, j) ==
    /\ At(r, "deduplicating")
    /\ j \in doomed[r]
    /\ RemoveJob(j)
    /\ \/ doomed[r] = {j} /\ Leave(r)
       \/ /\ doomed[r] # {j}
          /\ doomed' = [doomed EXCEPT ![r] = @ \ {j}]
          /\ UNCHANGED <<pc, by, job, app, resume>>
    /\ UNCHANGED <<serials, resumeUser>>

-----------------------------------------------------------------------------
(***************************************************************************)
(* get_dashboard_summary(): it lists jobs of the user and asks for the     *)
(* application of each by its job_id alone, then lists applications and    *)
(* asks for the job of each by its id alone.  One of each list stands for  *)
(* all; the counts before them are left out.                               *)
(***************************************************************************)
DashboardJobs(r, u) ==
    /\ At(r, "idle")
    /\ pc' = [pc EXCEPT ![r] = "scores"]
    /\ by' = [by EXCEPT ![r] = u]
    /\ \E j \in JobsOf(u) \cup {None} : job' = [job EXCEPT ![r] = j]
    /\ UNCHANGED <<serials, jobs, apps, resumeUser, app, resume, doomed>>

\* The applications whose score may be shown beside a job.
Scored(j) == {a \in AppIds : appUser[a] # None /\ appJob[a] = j}

DashboardScores(r) ==
    /\ At(r, "scores")
    /\ pc' = [pc EXCEPT ![r] = "recent"]
    /\ job' = [job EXCEPT ![r] = None]
    /\ UNCHANGED <<serials, jobs, apps, resumeUser, by, app, resume, doomed>>

DashboardApplications(r) ==
    /\ At(r, "recent")
    /\ pc' = [pc EXCEPT ![r] = "titles"]
    /\ \E j \in {appJob[a] : a \in AppsOf(by[r])} \cup {None} :
          job' = [job EXCEPT ![r] = j]
    /\ UNCHANGED <<serials, jobs, apps, resumeUser, by, app, resume, doomed>>

DashboardTitles(r) ==
    /\ At(r, "titles")
    /\ Leave(r)
    /\ UNCHANGED <<serials, jobs, apps, resumeUser>>

\* A statement fails, or the process ends: what was written stays.
End(r) ==
    /\ ~At(r, "idle")
    /\ Leave(r)
    /\ UNCHANGED <<serials, jobs, apps, resumeUser>>

-----------------------------------------------------------------------------
Statement(u) ==
    \/ \E k \in Keys : CreateJob(u, k)
    \/ \E j \in JobIds, k \in Keys : UpdateJob(u, j, k)
    \/ \E j \in JobIds : DeleteJob(u, j)
    \/ CreateResume(u)
    \/ \E x \in ResumeIds : DeleteResume(u, x)
    \/ \E a \in AppIds : DeleteApplication(u, a)

Start(r, u) ==
    \/ \E j \in JobIds, x \in ResumeIds \cup {None} : Apply(r, u, j, x)
    \/ \E a \in AppIds, x \in ResumeIds \cup {None} : UpdateSelect(r, u, a, x)
    \/ DedupSelect(r, u)
    \/ DashboardJobs(r, u)

Continue(r) ==
    \/ ApplyResume(r) \/ ApplyDuplicate(r) \/ ApplyInsert(r) \/ ApplyRefused(r)
    \/ UpdateWrite(r)
    \/ \E j \in JobIds : DedupDelete(r, j)
    \/ DashboardScores(r) \/ DashboardApplications(r) \/ DashboardTitles(r)
    \/ End(r)

Next ==
    \/ \E u \in Users : Statement(u)
    \/ \E r \in Requests : Continue(r) \/ \E u \in Users : Start(r, u)

Spec == Init /\ [][Next]_vars

-----------------------------------------------------------------------------
(***************************************************************************)
(* Ownership across the tables.                                            *)
(***************************************************************************)

\* An application is always on a job of the same user, though the job is
\* checked two statements before the INSERT and may be deleted in between.
\* get_dashboard_summary() relies on it: it looks an application's job up, and a
\* job's applications, without asking whose they are.
ApplicationsOnOwnJobs ==
    \A a \in AppIds :
        appUser[a] # None => appJob[a] # None /\ jobUser[appJob[a]] = appUser[a]

\* The summary never shows another user's score or title, though it asks for
\* them without saying whose they are and its lists may be out of date.
DashboardShowsOwn ==
    \A r \in Requests :
        /\ At(r, "scores") => \A a \in Scored(job[r]) : appUser[a] = by[r]
        /\ At(r, "titles") => \A u \in Users : job[r] \in JobsOf(u) => u = by[r]

\* A new application comes with a resume of its user or with none, though the
\* resume too is checked before and may be gone by then.
NewApplicationsOwnResumes ==
    [][\A a \in AppIds :
          appUser[a] = None /\ appUser'[a] # None =>
              appResume'[a] = None \/ resumeUser[appResume'[a]] = appUser'[a]]_vars

\* deduplicate_jobs() deletes by id alone, from a list that may be long out of
\* date; no job on it is ever another user's.
DoomedAreOwn ==
    \A r \in Requests : \A j \in doomed[r] : jobUser[j] \in {by[r], None}

\* Without a unique index the duplicate check can be outrun, but by concurrent
\* requests only: a job never has more applications than there are threads.
DuplicatesBounded ==
    \A u \in Users, j \in JobIds : Cardinality(Applications(u, j)) <= Cardinality(Requests)

-----------------------------------------------------------------------------
(***************************************************************************)
(* A promise the code does not keep.                                       *)
(***************************************************************************)

\* job_service.py, deduplicate_jobs(): "Remove duplicate jobs": what it removes
\* is a duplicate of a job that stays.
DedupRemovesDuplicates ==
    [][\A r \in Requests, j \in JobIds :
          j \in doomed[r] \ doomed'[r] /\ jobUser[j] # None /\ jobUser'[j] = None =>
              \E k \in JobsOf(jobUser[j]) \ {j} : jobKey[k] = jobKey[j]]_vars
=============================================================================
