---------------------------- MODULE TrackerProofs ----------------------------
(***************************************************************************)
(* What Tracker guarantees for every number of requests, users and rows.   *)
(* Rows only age: an id is given out once, its row is never passed on to   *)
(* another user, and a row that is gone stays gone.  So what a request     *)
(* learned about a row from an earlier statement still holds when it uses  *)
(* it, or the row is no longer there.                                      *)
(***************************************************************************)
EXTENDS Tracker, FiniteSetTheorems, TLAPS

\* Ids not given out yet have no row.
Fresh ==
    /\ \A j \in JobIds : j > lastJob => jobUser[j] = None
    /\ \A a \in AppIds : a > lastApp => appUser[a] = None
    /\ \A x \in ResumeIds : x > lastResume => resumeUser[x] = None

RowsValid == Fresh /\ ApplicationsOnOwnJobs

JobKnown(j, u) == j \in JobIds /\ j <= lastJob /\ jobUser[j] \in {u, None}

ResumeKnown(x, u) ==
    x \in ResumeIds /\ x <= lastResume /\ resumeUser[x] \in {u, None}

RequestValid(r) ==
    /\ ~At(r, "idle") => by[r] \in Users
    /\ pc[r] \in {"check_resume", "check_duplicate", "inserting"} =>
          JobKnown(job[r], by[r])
    /\ pc[r] \in {"scores", "titles"} => job[r] = None \/ JobKnown(job[r], by[r])
    /\ pc[r] \in {"check_duplicate", "inserting"} =>
          resume[r] = None \/ ResumeKnown(resume[r], by[r])
    /\ At(r, "updating") => app[r] \in AppIds
    /\ doomed[r] # {} => At(r, "deduplicating")
    /\ \A j \in doomed[r] : JobKnown(j, by[r])

RequestsValid == \A r \in Requests : RequestValid(r)

Inv == TypeOK /\ RowsValid /\ RequestsValid

-----------------------------------------------------------------------------
(***************************************************************************)
(* What a step does to the rows.                                           *)
(***************************************************************************)
RowType ==
    /\ lastJob \in 0..MaxJobs /\ lastApp \in 0..MaxApps /\ lastResume \in 0..MaxResumes
    /\ jobUser \in [JobIds -> Users \cup {None}]
    /\ jobKey \in [JobIds -> Keys \cup {None}]
    /\ appUser \in [AppIds -> Users \cup {None}]
    /\ appJob \in [AppIds -> JobIds \cup {None}]
    /\ appResume \in [AppIds -> ResumeIds \cup {None}]
    /\ resumeUser \in [ResumeIds -> Users \cup {None}]

RequestType ==
    /\ pc \in [Requests -> Steps]
    /\ by \in [Requests -> Users \cup {None}]
    /\ job \in [Requests -> JobIds \cup {None}]
    /\ app \in [Requests -> AppIds \cup {None}]
    /\ resume \in [Requests -> ResumeIds \cup {None}]
    /\ doomed \in [Requests -> SUBSET JobIds]

LEMMA TypeParts == TypeOK <=> RowType /\ RequestType
  BY DEF TypeOK, RowType, RequestType

LEMMA TypeNext == ASSUME RowType', RequestType' PROVE TypeOK'
  BY DEF TypeOK, RowType, RequestType

RowsAge ==
    /\ lastJob' >= lastJob
    /\ \A j \in JobIds : j <= lastJob => jobUser'[j] \in {jobUser[j], None}
    /\ lastResume' >= lastResume
    /\ \A x \in ResumeIds : x <= lastResume => resumeUser'[x] \in {resumeUser[x], None}

NewApplicationOwn ==
    \A a \in AppIds :
        appUser[a] = None /\ appUser'[a] # None =>
            appResume'[a] = None \/ resumeUser[appResume'[a]] = appUser'[a]

RowsNext == RowType' /\ RowsValid' /\ RowsAge /\ NewApplicationOwn

LEMMA RowsUnchanged ==
    ASSUME RowType, RowsValid, UNCHANGED <<serials, jobs, apps, resumeUser>>
    PROVE  RowsNext
  BY DEF RowType, RowsValid, Fresh, ApplicationsOnOwnJobs, RowsAge,
         NewApplicationOwn, RowsNext, serials, jobs, apps, JobIds,
         AppIds, ResumeIds

LEMMA CreateJobRows ==
    ASSUME RowType, RowsValid, NEW u \in Users, NEW k \in Keys, CreateJob(u, k)
    PROVE  RowsNext
  <1> USE TrackerAssumption
  <1>1. RowType'
    BY DEF RowType, CreateJob, apps, JobIds, AppIds, ResumeIds
  <1>2. Fresh' /\ RowsAge /\ NewApplicationOwn
    BY DEF RowType, RowsValid, Fresh, RowsAge, NewApplicationOwn, CreateJob, apps, JobIds, AppIds, ResumeIds
  <1>3. ApplicationsOnOwnJobs'
    BY DEF RowType, RowsValid, Fresh, ApplicationsOnOwnJobs, CreateJob, apps,
           JobIds, AppIds
  <1>4. QED
    BY <1>1, <1>2, <1>3 DEF RowsNext, RowsValid

LEMMA UpdateJobRows ==
    ASSUME RowType, RowsValid, NEW u \in Users, NEW j \in JobIds, NEW k \in Keys,
           UpdateJob(u, j, k)
    PROVE  RowsNext
  BY DEF RowType, RowsValid, Fresh, ApplicationsOnOwnJobs, RowsAge,
         NewApplicationOwn, RowsNext, UpdateJob, serials, apps, JobIds,
         AppIds, ResumeIds

LEMMA RemoveJobRows ==
    ASSUME RowType, RowsValid, NEW j \in JobIds, RemoveJob(j),
           UNCHANGED <<serials, resumeUser>>
    PROVE  RowsNext
  <1> USE TrackerAssumption
  <1>1. RowType'
    BY DEF RowType, RemoveJob, serials
  <1>2. Fresh' /\ RowsAge /\ NewApplicationOwn
    BY DEF RowType, RowsValid, Fresh, RowsAge, NewApplicationOwn, RemoveJob,
           serials, JobIds, AppIds, ResumeIds
  <1>3. ApplicationsOnOwnJobs'
    BY DEF RowType, RowsValid, ApplicationsOnOwnJobs, RemoveJob
  <1>4. QED
    BY <1>1, <1>2, <1>3 DEF RowsNext, RowsValid

LEMMA CreateResumeRows ==
    ASSUME RowType, RowsValid, NEW u \in Users, CreateResume(u)
    PROVE  RowsNext
  <1> USE TrackerAssumption
  <1>1. RowType'
    BY DEF RowType, CreateResume, jobs, apps, JobIds, AppIds, ResumeIds
  <1>2. Fresh' /\ RowsAge /\ NewApplicationOwn
    BY DEF RowType, RowsValid, Fresh, RowsAge, NewApplicationOwn, CreateResume,
           jobs, apps, JobIds, AppIds, ResumeIds
  <1>3. ApplicationsOnOwnJobs'
    BY DEF RowsValid, ApplicationsOnOwnJobs, CreateResume, jobs, apps
  <1>4. QED
    BY <1>1, <1>2, <1>3 DEF RowsNext, RowsValid

LEMMA DeleteResumeRows ==
    ASSUME RowType, RowsValid, NEW u \in Users, NEW x \in ResumeIds,
           DeleteResume(u, x)
    PROVE  RowsNext
  BY DEF RowType, RowsValid, Fresh, ApplicationsOnOwnJobs, RowsAge,
         NewApplicationOwn, RowsNext, DeleteResume, serials, jobs, JobIds, AppIds,
         ResumeIds

LEMMA DeleteApplicationRows ==
    ASSUME RowType, RowsValid, NEW u \in Users, NEW a \in AppIds,
           DeleteApplication(u, a)
    PROVE  RowsNext
  BY DEF RowType, RowsValid, Fresh, ApplicationsOnOwnJobs, RowsAge,
         NewApplicationOwn, RowsNext, DeleteApplication, serials, jobs,
         JobIds, AppIds, ResumeIds

LEMMA ApplyInsertRows ==
    ASSUME RowType, RequestType, RowsValid, NEW r \in Requests, RequestValid(r),
           ApplyInsert(r)
    PROVE  RowsNext
  <1> USE TrackerAssumption
  <1>0. /\ by[r] \in Users /\ job[r] \in JobIds /\ jobUser[job[r]] = by[r]
        /\ \/ resume[r] = None
           \/ resume[r] \in ResumeIds /\ resumeUser[resume[r]] = by[r]
    BY DEF RequestValid, ApplyInsert, Insertable, Attachable, At, JobsOf,
           ResumesOf, JobKnown, ResumeKnown
  <1>1. RowType'
    BY <1>0 DEF RowType, ApplyInsert, jobs, JobIds, AppIds, ResumeIds
  <1>2. Fresh' /\ RowsAge /\ NewApplicationOwn
    BY <1>0 DEF RowType, RowsValid, Fresh, RowsAge, NewApplicationOwn, ApplyInsert,
           jobs, JobIds, AppIds, ResumeIds
  <1>3. ApplicationsOnOwnJobs'
    BY <1>0 DEF RowType, RowsValid, ApplicationsOnOwnJobs, ApplyInsert, jobs,
           AppIds, JobIds
  <1>4. QED
    BY <1>1, <1>2, <1>3 DEF RowsNext, RowsValid

LEMMA UpdateWriteRows ==
    ASSUME RowType, RequestType, RowsValid, NEW r \in Requests, UpdateWrite(r)
    PROVE  RowsNext
  <1>1. resume[r] \in ResumeIds \cup {None}
    BY DEF RequestType
  <1>2. QED
    BY <1>1 DEF RowType, RowsValid, Fresh, ApplicationsOnOwnJobs,
         RowsAge, NewApplicationOwn, RowsNext, UpdateWrite, serials, jobs,
         JobIds, AppIds, ResumeIds

-----------------------------------------------------------------------------
(***************************************************************************)
(* What a step does to the requests.                                       *)
(***************************************************************************)
\* A request that does nothing still knows what it knew.
LEMMA RequestKept ==
    ASSUME RowType, RowsNext, NEW r \in Requests, RequestValid(r),
           pc'[r] = pc[r], by'[r] = by[r], job'[r] = job[r], app'[r] = app[r],
           resume'[r] = resume[r], doomed'[r] = doomed[r]
    PROVE  RequestValid(r)'
  <1> USE DEF RowsNext, RowsAge, RowType
  <1>1. \A j, u : JobKnown(j, u) => JobKnown(j, u)'
    BY DEF JobKnown, JobIds
  <1>2. \A x, u : ResumeKnown(x, u) => ResumeKnown(x, u)'
    BY DEF ResumeKnown, ResumeIds
  <1>3. QED
    BY <1>1, <1>2 DEF RequestValid, At

LEMMA RequestsKept ==
    ASSUME RowType, RequestsValid, RowsNext, UNCHANGED request
    PROVE  RequestsValid'
  BY RequestKept DEF RequestsValid, request

\* A step of r leaves the other requests alone.
OthersSame(r) ==
    \A s \in Requests \ {r} :
        /\ pc'[s] = pc[s] /\ by'[s] = by[s] /\ job'[s] = job[s]
        /\ app'[s] = app[s] /\ resume'[s] = resume[s] /\ doomed'[s] = doomed[s]

LEMMA OthersKept ==
    ASSUME RowType, RequestsValid, RowsNext, NEW r \in Requests, OthersSame(r),
           RequestValid(r)'
    PROVE  RequestsValid'
  BY RequestKept DEF RequestsValid, OthersSame

LEMMA Left ==
    ASSUME RequestType, NEW r \in Requests, Leave(r)
    PROVE  RequestType' /\ OthersSame(r) /\ RequestValid(r)'
  BY DEF RequestType, Leave, OthersSame, RequestValid, At, Steps

LEMMA LeaveStep ==
    ASSUME Inv, RowsNext, NEW r \in Requests, Leave(r)
    PROVE  Inv'
  BY TypeParts, TypeNext, Left, OthersKept DEF Inv, RowsNext

LEMMA StatementStep ==
    ASSUME Inv, RowsNext, UNCHANGED request
    PROVE  Inv'
  <1>1. RequestType'
    BY TypeParts DEF Inv, RequestType, request
  <1>2. QED
    BY <1>1, TypeParts, TypeNext, RequestsKept DEF Inv, RowsNext

\* A request reads rows and goes on.
LEMMA ReadStep ==
    ASSUME Inv, UNCHANGED <<serials, jobs, apps, resumeUser>>, RequestType',
           NEW r \in Requests, OthersSame(r), RequestValid(r)'
    PROVE  RowsNext /\ Inv'
  <1>1. RowType /\ RowsNext
    BY TypeParts, RowsUnchanged DEF Inv
  <1>2. RequestsValid'
    BY <1>1, OthersKept DEF Inv
  <1>3. QED
    BY <1>1, <1>2, TypeNext DEF Inv, RowsNext

LEMMA ReadLeaveStep ==
    ASSUME Inv, UNCHANGED <<serials, jobs, apps, resumeUser>>,
           NEW r \in Requests, Leave(r)
    PROVE  RowsNext /\ Inv'
  BY TypeParts, Left, ReadStep DEF Inv

\* A row that is there was given out.
LEMMA Given ==
    ASSUME RowType, Fresh, NEW u \in Users
    PROVE  /\ \A j \in JobsOf(u) : JobKnown(j, u)
           /\ \A x \in ResumesOf(u) : ResumeKnown(x, u)
  BY TrackerAssumption
     DEF RowType, Fresh, JobsOf, ResumesOf, JobKnown, ResumeKnown, JobIds, ResumeIds

-----------------------------------------------------------------------------
(***************************************************************************)
(* Each step in turn.                                                      *)
(***************************************************************************)
LEMMA ApplyStep ==
    ASSUME Inv, NEW r \in Requests, NEW u \in Users, NEW j \in JobIds,
           NEW x \in ResumeIds \cup {None}, Apply(r, u, j, x)
    PROVE  RowsNext /\ Inv'
  <1>1. RowType /\ RequestType /\ RequestValid(r) /\ Fresh
    BY TypeParts DEF Inv, RequestsValid, RowsValid
  <1>2. JobKnown(j, u) /\ UNCHANGED <<serials, jobs, apps, resumeUser>>
    BY <1>1, Given DEF Apply
  <1>3. RequestType' /\ OthersSame(r)
    BY <1>1 DEF RequestType, Apply, Steps, OthersSame
  <1>4. RequestValid(r)'
    <2>1. JobKnown(j, u)'
      BY <1>2 DEF JobKnown, serials, jobs
    <2>2. /\ pc'[r] = IF x = None THEN "check_duplicate" ELSE "check_resume"
          /\ by'[r] = u /\ job'[r] = j /\ resume'[r] = x /\ doomed'[r] = doomed[r]
      BY <1>1 DEF RequestType, Apply
    <2>3. doomed[r] = {}
      BY <1>1 DEF RequestValid, Apply, At
    <2>4. QED
      BY <2>1, <2>2, <2>3 DEF RequestValid, At
  <1>5. QED
    BY <1>2, <1>3, <1>4, ReadStep

LEMMA ApplyResumeStep ==
    ASSUME Inv, NEW r \in Requests, ApplyResume(r)
    PROVE  RowsNext /\ Inv'
  <1>1. RowType /\ RequestType /\ RequestValid(r) /\ Fresh
    BY TypeParts DEF Inv, RequestsValid, RowsValid
  <1>2. UNCHANGED <<serials, jobs, apps, resumeUser>>
    BY DEF ApplyResume
  <1>3. CASE resume[r] \in ResumesOf(by[r])
    <2>1. by[r] \in Users /\ ResumeKnown(resume[r], by[r]) /\ JobKnown(job[r], by[r])
      BY <1>1, <1>3, Given DEF ApplyResume, RequestValid, At
    <2>2. ResumeKnown(resume[r], by[r])' /\ JobKnown(job[r], by[r])'
      BY <1>2, <1>3, <2>1
         DEF ApplyResume, GoTo, ResumeKnown, JobKnown, serials, jobs
    <2>3. RequestType' /\ OthersSame(r)
      BY <1>1, <1>3 DEF RequestType, ApplyResume, GoTo, Steps, OthersSame
    <2>4. RequestValid(r)'
      BY <1>1, <1>3, <2>1, <2>2
         DEF RequestType, ApplyResume, GoTo, RequestValid, At
    <2>5. QED
      BY <1>2, <2>3, <2>4, ReadStep
  <1>4. CASE resume[r] \notin ResumesOf(by[r])
    BY <1>2, <1>4, ReadLeaveStep DEF ApplyResume
  <1>5. QED
    BY <1>3, <1>4

LEMMA ApplyDuplicateStep ==
    ASSUME Inv, NEW r \in Requests, ApplyDuplicate(r)
    PROVE  RowsNext /\ Inv'
  <1>1. RowType /\ RequestType /\ RequestValid(r)
    BY TypeParts DEF Inv, RequestsValid
  <1>2. UNCHANGED <<serials, jobs, apps, resumeUser>>
    BY DEF ApplyDuplicate
  <1>3. CASE GoTo(r, "inserting")
    <2>1. RequestType' /\ OthersSame(r)
      BY <1>1, <1>3 DEF RequestType, GoTo, Steps, OthersSame
    <2>2. JobKnown(job[r], by[r])' /\ (resume[r] = None \/ ResumeKnown(resume[r], by[r]))'
      BY <1>1, <1>2, <1>3
         DEF ApplyDuplicate, RequestValid, At, GoTo, ResumeKnown, JobKnown, serials,
             jobs
    <2>3. RequestValid(r)'
      BY <1>1, <1>3, <2>2
         DEF RequestType, ApplyDuplicate, GoTo, RequestValid, At
    <2>4. QED
      BY <1>2, <2>1, <2>3, ReadStep
  <1>4. CASE Leave(r)
    BY <1>2, <1>4, ReadLeaveStep
  <1>5. QED
    BY <1>3, <1>4 DEF ApplyDuplicate

LEMMA UpdateSelectStep ==
    ASSUME Inv, NEW r \in Requests, NEW u \in Users, NEW a \in AppIds,
           NEW x \in ResumeIds \cup {None}, UpdateSelect(r, u, a, x)
    PROVE  RowsNext /\ Inv'
  <1>1. RequestType /\ RequestValid(r)
    BY TypeParts DEF Inv, RequestsValid
  <1>2. RequestType' /\ OthersSame(r)
    BY <1>1 DEF RequestType, UpdateSelect, Steps, OthersSame
  <1>3. RequestValid(r)'
    BY <1>1 DEF RequestType, UpdateSelect, RequestValid, At
  <1>4. UNCHANGED <<serials, jobs, apps, resumeUser>>
    BY DEF UpdateSelect
  <1>5. QED
    BY <1>2, <1>3, <1>4, ReadStep

LEMMA DedupSelectStep ==
    ASSUME Inv, NEW r \in Requests, NEW u \in Users, DedupSelect(r, u)
    PROVE  RowsNext /\ Inv'
  <1>1. RowType /\ RequestType /\ RequestValid(r) /\ Fresh
    BY TypeParts DEF Inv, RequestsValid, RowsValid
  <1>2. UNCHANGED <<serials, jobs, apps, resumeUser>>
    BY DEF DedupSelect
  <1>3. PICK D \in SUBSET JobsOf(u) : doomed' = [doomed EXCEPT ![r] = D]
    BY DEF DedupSelect, Listed
  <1>4. /\ pc' = [pc EXCEPT ![r] = "deduplicating"] /\ by' = [by EXCEPT ![r] = u]
        /\ UNCHANGED <<job, app, resume>>
    BY DEF DedupSelect
  <1>5. \A j \in D : JobKnown(j, u)'
    BY <1>1, <1>2, Given DEF JobKnown, serials, jobs
  <1>6. D \in SUBSET JobIds
    BY DEF JobsOf
  <1>7. RequestType' /\ OthersSame(r)
    BY <1>1, <1>3, <1>4, <1>6 DEF RequestType, Steps, OthersSame
  <1>8. RequestValid(r)'
    BY <1>1, <1>3, <1>4, <1>5 DEF RequestType, RequestValid, At
  <1>9. QED
    BY <1>2, <1>7, <1>8, ReadStep

LEMMA DedupDeleteStep ==
    ASSUME Inv, NEW r \in Requests, NEW j \in JobIds, DedupDelete(r, j)
    PROVE  RowsNext /\ Inv'
  <1>1. RowType /\ RequestType /\ RequestValid(r)
    BY TypeParts DEF Inv, RequestsValid
  <1>2. RowsNext
    BY <1>1, RemoveJobRows DEF Inv, DedupDelete
  <1>3. CASE Leave(r)
    BY <1>2, <1>3, LeaveStep
  <1>4. CASE /\ doomed' = [doomed EXCEPT ![r] = @ \ {j}]
             /\ UNCHANGED <<pc, by, job, app, resume>>
    <2>1. RequestType' /\ OthersSame(r)
      BY <1>1, <1>4 DEF RequestType, OthersSame
    <2>2. /\ pc'[r] = "deduplicating" /\ by'[r] = by[r] /\ by[r] \in Users
          /\ doomed'[r] \subseteq doomed[r]
      BY <1>1, <1>4 DEF RequestType, RequestValid, DedupDelete, At
    <2>3. \A i \in doomed[r] : JobKnown(i, by[r])'
      BY <1>1, <1>2, <1>4
         DEF RequestValid, JobKnown, RowsNext, RowsAge, RowType, JobIds
    <2>4. RequestValid(r)'
      BY <2>2, <2>3 DEF RequestValid, At
    <2>5. QED
      BY <1>1, <1>2, <2>1, <2>4, OthersKept, TypeNext DEF Inv, RowsNext
  <1>5. QED
    BY <1>3, <1>4 DEF DedupDelete

LEMMA DashboardJobsStep ==
    ASSUME Inv, NEW r \in Requests, NEW u \in Users, DashboardJobs(r, u)
    PROVE  RowsNext /\ Inv'
  <1>1. RowType /\ RequestType /\ RequestValid(r) /\ Fresh
    BY TypeParts DEF Inv, RequestsValid, RowsValid
  <1>2. UNCHANGED <<serials, jobs, apps, resumeUser>>
    BY DEF DashboardJobs
  <1>3. PICK j \in JobsOf(u) \cup {None} : job' = [job EXCEPT ![r] = j]
    BY DEF DashboardJobs
  <1>4. j = None \/ JobKnown(j, u)'
    BY <1>1, <1>2, Given DEF JobKnown, serials, jobs
  <1>5. RequestType' /\ OthersSame(r)
    BY <1>1, <1>3 DEF RequestType, DashboardJobs, Steps, OthersSame, JobsOf
  <1>6. RequestValid(r)'
    BY <1>1, <1>3, <1>4 DEF RequestType, DashboardJobs, RequestValid, At
  <1>7. QED
    BY <1>2, <1>5, <1>6, ReadStep

LEMMA DashboardScoresStep ==
    ASSUME Inv, NEW r \in Requests, DashboardScores(r)
    PROVE  RowsNext /\ Inv'
  <1>1. RequestType /\ RequestValid(r)
    BY TypeParts DEF Inv, RequestsValid
  <1>2. RequestType' /\ OthersSame(r)
    BY <1>1 DEF RequestType, DashboardScores, Steps, OthersSame
  <1>3. RequestValid(r)'
    BY <1>1 DEF RequestType, DashboardScores, RequestValid, At
  <1>4. UNCHANGED <<serials, jobs, apps, resumeUser>>
    BY DEF DashboardScores
  <1>5. QED
    BY <1>2, <1>3, <1>4, ReadStep

LEMMA DashboardApplicationsStep ==
    ASSUME Inv, NEW r \in Requests, DashboardApplications(r)
    PROVE  RowsNext /\ Inv'
  <1>1. RowType /\ RequestType /\ RequestValid(r) /\ RowsValid
    BY TypeParts DEF Inv, RequestsValid
  <1>2. UNCHANGED <<serials, jobs, apps, resumeUser>>
    BY DEF DashboardApplications
  <1>3. PICK j \in {appJob[a] : a \in AppsOf(by[r])} \cup {None} :
             job' = [job EXCEPT ![r] = j]
    BY DEF DashboardApplications
  <1>4. by[r] \in Users
    BY <1>1 DEF RequestValid, DashboardApplications, At
  <1>5. j \in JobIds \cup {None} /\ (j = None \/ j \in JobsOf(by[r]))
    BY <1>1, <1>4, TrackerAssumption
       DEF RowType, RowsValid, ApplicationsOnOwnJobs, AppsOf, JobsOf
  <1>6. j = None \/ JobKnown(j, by[r])'
    <2>1. j = None \/ JobKnown(j, by[r])
      BY <1>1, <1>4, <1>5, Given DEF RowsValid
    <2>2. by'[r] = by[r]
      BY DEF DashboardApplications
    <2>3. QED
      BY <1>2, <2>1, <2>2 DEF JobKnown, serials, jobs
  <1>7. RequestType' /\ OthersSame(r)
    BY <1>1, <1>3, <1>5 DEF RequestType, DashboardApplications, Steps, OthersSame
  <1>8. RequestValid(r)'
    BY <1>1, <1>3, <1>4, <1>6 DEF RequestType, DashboardApplications, RequestValid, At
  <1>9. QED
    BY <1>2, <1>7, <1>8, ReadStep

LEMMA StartStep ==
    ASSUME Inv, NEW r \in Requests, NEW u \in Users, Start(r, u)
    PROVE  RowsNext /\ Inv'
  BY ApplyStep, UpdateSelectStep, DedupSelectStep, DashboardJobsStep
     DEF Start

LEMMA ContinueStep ==
    ASSUME Inv, NEW r \in Requests, Continue(r)
    PROVE  RowsNext /\ Inv'
  <1>1. RowType /\ RequestType /\ RowsValid /\ RequestValid(r)
    BY TypeParts DEF Inv, RequestsValid
  <1>2. CASE ApplyInsert(r)
    BY <1>1, <1>2, ApplyInsertRows, LeaveStep DEF ApplyInsert
  <1>3. CASE UpdateWrite(r)
    BY <1>1, <1>3, UpdateWriteRows, LeaveStep DEF UpdateWrite
  <1>4. CASE ApplyRefused(r) \/ DashboardTitles(r) \/ End(r)
    BY <1>4, ReadLeaveStep DEF ApplyRefused, DashboardTitles, End
  <1>5. QED
    BY <1>2, <1>3, <1>4, ApplyResumeStep, ApplyDuplicateStep, DedupDeleteStep,
       DashboardScoresStep, DashboardApplicationsStep
       DEF Continue

LEMMA StatementRows ==
    ASSUME Inv, NEW u \in Users, Statement(u)
    PROVE  RowsNext /\ Inv'
  <1>1. RowType /\ RowsValid
    BY TypeParts DEF Inv
  <1>2. UNCHANGED request
    BY DEF Statement, CreateJob, UpdateJob, DeleteJob, CreateResume, DeleteResume,
           DeleteApplication
  <1>3. CASE \E j \in JobIds : DeleteJob(u, j)
    BY <1>1, <1>2, <1>3, RemoveJobRows, StatementStep DEF DeleteJob
  <1>4. CASE CreateResume(u)
    BY <1>1, <1>2, <1>4, CreateResumeRows, StatementStep DEF CreateResume
  <1>5. QED
    BY <1>1, <1>2, <1>3, <1>4, CreateJobRows, UpdateJobRows, DeleteResumeRows,
       DeleteApplicationRows, StatementStep DEF Statement

-----------------------------------------------------------------------------
(***************************************************************************)
(* The theorems.                                                           *)
(***************************************************************************)
LEMMA InitInv == Init => Inv
  BY TrackerAssumption
     DEF Init, Inv, TypeOK, RowsValid, Fresh, ApplicationsOnOwnJobs,
         RequestsValid, RequestValid, At, Steps, JobIds, AppIds, ResumeIds

LEMMA NextInv == Inv /\ [Next]_vars => RowsNext /\ Inv'
  <1> SUFFICES ASSUME Inv, [Next]_vars PROVE RowsNext /\ Inv'
    OBVIOUS
  <1>1. CASE Next
    BY <1>1, StatementRows, StartStep, ContinueStep DEF Next
  <1>2. CASE UNCHANGED vars
    <2>1. UNCHANGED <<serials, jobs, apps, resumeUser>> /\ UNCHANGED request
      BY <1>2 DEF vars
    <2>2. QED
      BY <2>1, TypeParts, RowsUnchanged, StatementStep DEF Inv
  <1>3. QED
    BY <1>1, <1>2

LEMMA Invariance == Spec => []Inv
  BY InitInv, NextInv, PTL DEF Spec

\* Every reachable state of jobs, applications, resumes and requests is well typed.
THEOREM TypeCorrect == Spec => []TypeOK
  <1>1. Inv => TypeOK
    BY DEF Inv
  <1>2. QED
    BY <1>1, Invariance, PTL

\* An application is always on a job of the same user, whatever happens between
\* create_application()'s look at the job and its INSERT.
THEOREM OwnJobs == Spec => []ApplicationsOnOwnJobs
  <1>1. Inv => ApplicationsOnOwnJobs
    BY DEF Inv, RowsValid
  <1>2. QED
    BY <1>1, Invariance, PTL

\* deduplicate_jobs() never deletes a job of another user, however old its list.
THEOREM OwnDuplicates == Spec => []DoomedAreOwn
  <1>1. Inv => DoomedAreOwn
    BY DEF Inv, RequestsValid, RequestValid, JobKnown, DoomedAreOwn
  <1>2. QED
    BY <1>1, Invariance, PTL

\* get_dashboard_summary() shows scores and titles of its own user only.
THEOREM OwnScores == Spec => []DashboardShowsOwn
  <1>1. Inv => DashboardShowsOwn
    <2> SUFFICES ASSUME Inv, NEW r \in Requests
                 PROVE  /\ At(r, "scores") => \A a \in Scored(job[r]) : appUser[a] = by[r]
                        /\ At(r, "titles") =>
                              \A u \in Users : job[r] \in JobsOf(u) => u = by[r]
      BY DEF DashboardShowsOwn
    <2>1. pc[r] \in {"scores", "titles"} => job[r] = None \/ JobKnown(job[r], by[r])
      BY DEF Inv, RequestsValid, RequestValid
    <2>2. ASSUME At(r, "scores"), NEW a \in Scored(job[r])
          PROVE  appUser[a] = by[r]
      <3>1. a \in AppIds /\ appUser[a] # None /\ appJob[a] = job[r]
        BY DEF Scored
      <3>2. job[r] # None /\ jobUser[job[r]] = appUser[a]
        BY <3>1 DEF Inv, RowsValid, ApplicationsOnOwnJobs
      <3>3. QED
        BY <2>1, <2>2, <3>1, <3>2 DEF JobKnown, At
    <2>3. ASSUME At(r, "titles"), NEW u \in Users, job[r] \in JobsOf(u)
          PROVE  u = by[r]
      BY <2>1, <2>3, TrackerAssumption DEF JobKnown, JobsOf, JobIds, At
    <2>4. QED
      BY <2>2, <2>3
  <1>2. QED
    BY <1>1, Invariance, PTL

\* No INSERT of an application ever attaches another user's resume.
THEOREM OwnResumesInserted == Spec => NewApplicationsOwnResumes
  <1>1. Inv /\ [Next]_vars => [NewApplicationOwn]_vars
    BY NextInv DEF RowsNext
  <1>2. QED
    BY <1>1, Invariance, PTL DEF Spec, NewApplicationsOwnResumes, NewApplicationOwn

-----------------------------------------------------------------------------
(***************************************************************************)
(* How many duplicates concurrent requests can create: an application of a *)
(* job spends the request that inserts it, and none passes the check again *)
(* while there is one.                                                     *)
(***************************************************************************)
Inserting(u, j) == {r \in Requests : At(r, "inserting") /\ by[r] = u /\ job[r] = j}

SpentOn(u, j) ==
    Cardinality(Applications(u, j)) + Cardinality(Inserting(u, j)) <= Cardinality(Requests)

Spent == \A u \in Users, j \in JobIds : SpentOn(u, j)

LEMMA Finite ==
    ASSUME NEW u, NEW j
    PROVE  /\ IsFiniteSet(Applications(u, j)) /\ IsFiniteSet(Inserting(u, j))
           /\ IsFiniteSet(Applications(u, j)') /\ IsFiniteSet(Inserting(u, j)')
           /\ IsFiniteSet(Requests)
  <1>1. IsFiniteSet(AppIds) /\ IsFiniteSet(Requests)
    BY TrackerAssumption, FS_Interval DEF AppIds
  <1>2. /\ Applications(u, j) \subseteq AppIds /\ Applications(u, j)' \subseteq AppIds
        /\ Inserting(u, j) \subseteq Requests /\ Inserting(u, j)' \subseteq Requests
    BY DEF Applications, AppsOf, Inserting
  <1>3. QED
    BY <1>1, <1>2, FS_Subset

\* Neither an application nor a request about to insert one is new.
NoneNew(u, j) ==
    /\ Applications(u, j)' \subseteq Applications(u, j)
    /\ Inserting(u, j)' \subseteq Inserting(u, j)

LEMMA NoneNewSpent ==
    ASSUME NEW u, NEW j, SpentOn(u, j), NoneNew(u, j)
    PROVE  SpentOn(u, j)'
  <1>1. /\ Cardinality(Applications(u, j)') <= Cardinality(Applications(u, j))
        /\ Cardinality(Inserting(u, j)') <= Cardinality(Inserting(u, j))
    BY Finite, FS_Subset DEF NoneNew
  <1>2. /\ Cardinality(Applications(u, j)') \in Nat /\ Cardinality(Applications(u, j)) \in Nat
        /\ Cardinality(Inserting(u, j)') \in Nat /\ Cardinality(Inserting(u, j)) \in Nat
        /\ Cardinality(Requests) \in Nat
    BY Finite, FS_CardinalityType
  <1>3. QED
    BY <1>1, <1>2 DEF SpentOn

LEMMA LeaveSpends ==
    ASSUME RequestType, NEW r \in Requests, Leave(r), NEW u \in Users, NEW j
    PROVE  Inserting(u, j)' = Inserting(u, j) \ {r}
  BY DEF RequestType, Leave, Inserting, At

\* The check lets a request pass when there is no application yet.
LEMMA DuplicateSpent ==
    ASSUME TypeOK, NEW u \in Users, NEW j \in JobIds, SpentOn(u, j),
           NEW r \in Requests, ApplyDuplicate(r)
    PROVE  SpentOn(u, j)'
  <1>0. RequestType /\ Applications(u, j)' = Applications(u, j)
    BY TypeParts DEF ApplyDuplicate, Applications, AppsOf, apps
  <1>1. CASE Leave(r) \/ by[r] # u \/ job[r] # j
    <2>1. Inserting(u, j)' \subseteq Inserting(u, j)
      BY <1>0, <1>1, LeaveSpends DEF RequestType, ApplyDuplicate, GoTo, Inserting, At
    <2>2. QED
      BY <1>0, <2>1, NoneNewSpent DEF NoneNew
  <1>2. CASE ~Leave(r) /\ by[r] = u /\ job[r] = j
    <2>1. Applications(u, j)' = {}
      BY <1>0, <1>2 DEF ApplyDuplicate
    <2>2. Cardinality(Inserting(u, j)') <= Cardinality(Requests)
      BY Finite, FS_Subset DEF Inserting
    <2>3. Cardinality(Inserting(u, j)') \in Nat /\ Cardinality({}) = 0
      BY Finite, FS_CardinalityType, FS_EmptySet
    <2>4. QED
      BY <2>1, <2>2, <2>3, Finite, FS_CardinalityType DEF SpentOn
  <1>3. QED
    BY <1>1, <1>2

LEMMA InsertSpent ==
    ASSUME TypeOK, NEW u \in Users, NEW j \in JobIds, SpentOn(u, j),
           NEW r \in Requests, ApplyInsert(r)
    PROVE  SpentOn(u, j)'
  <1>0. RowType /\ RequestType /\ Inserting(u, j)' = Inserting(u, j) \ {r}
    BY TypeParts, LeaveSpends DEF ApplyInsert
  <1>1. Applications(u, j)' \subseteq Applications(u, j) \cup {lastApp + 1}
    BY <1>0 DEF RowType, ApplyInsert, Applications, AppsOf
  <1>2. CASE by[r] # u \/ job[r] # j
    <2>1. Applications(u, j)' \subseteq Applications(u, j)
      BY <1>0, <1>2 DEF RowType, ApplyInsert, Applications, AppsOf
    <2>2. QED
      BY <1>0, <2>1, NoneNewSpent DEF NoneNew
  <1>3. CASE by[r] = u /\ job[r] = j
    <2>1. r \in Inserting(u, j)
      BY <1>3 DEF ApplyInsert, Inserting
    <2>2. Cardinality(Inserting(u, j)') = Cardinality(Inserting(u, j)) - 1
      BY <1>0, <2>1, Finite, FS_RemoveElement
    <2>3. Cardinality(Applications(u, j)') <= Cardinality(Applications(u, j)) + 1
      <3> DEFINE A == Applications(u, j)
                 B == A \cup {lastApp + 1}
      <3>a. IsFiniteSet(A) /\ Cardinality(A) \in Nat
        BY Finite, FS_CardinalityType
      <3>b. /\ IsFiniteSet(B)
            /\ Cardinality(B) = IF lastApp + 1 \in A THEN Cardinality(A)
                                                    ELSE Cardinality(A) + 1
        BY ONLY <3>a, FS_AddElement
      <3>1. IsFiniteSet(B) /\ Cardinality(B) <= Cardinality(A) + 1
        BY <3>a, <3>b
      <3>2. Cardinality(A') <= Cardinality(B)
        BY <1>1, <3>1, FS_Subset
      <3>3. QED
        BY <3>1, <3>2, Finite, FS_CardinalityType
    <2>4. QED
      BY <2>2, <2>3, Finite, FS_CardinalityType DEF SpentOn
  <1>4. QED
    BY <1>2, <1>3

LEMMA StartSpent ==
    ASSUME TypeOK, NEW u \in Users, NEW j \in JobIds,
           NEW r \in Requests, NEW v \in Users, Start(r, v)
    PROVE  NoneNew(u, j)
  <1>1. RequestType /\ UNCHANGED apps /\ At(r, "idle")
    BY TypeParts DEF Start, Apply, UpdateSelect, DedupSelect, DashboardJobs
  <1>2. /\ pc'[r] # "inserting"
        /\ \A s \in Requests \ {r} :
              pc'[s] = pc[s] /\ by'[s] = by[s] /\ job'[s] = job[s]
    BY <1>1 DEF RequestType, Start, Apply, UpdateSelect, DedupSelect,
                DashboardJobs
  <1>3. QED
    BY <1>1, <1>2 DEF NoneNew, Applications, AppsOf, apps, Inserting, At

LEMMA StatementSpent ==
    ASSUME TypeOK, NEW u \in Users, NEW j \in JobIds, NEW v \in Users, Statement(v)
    PROVE  NoneNew(u, j)
  <1>1. RowType
    BY TypeParts
  <1>2. Inserting(u, j)' = Inserting(u, j)
    BY DEF Statement, CreateJob, UpdateJob, DeleteJob, CreateResume, DeleteResume,
           DeleteApplication, Inserting, At, request
  <1>3. Applications(u, j)' \subseteq Applications(u, j)
    BY <1>1, TrackerAssumption
       DEF RowType, Statement, CreateJob, UpdateJob, DeleteJob, RemoveJob, CreateResume,
           DeleteResume, DeleteApplication, apps, Applications, AppsOf
  <1>4. QED
    BY <1>2, <1>3 DEF NoneNew

LEMMA ContinueSpent ==
    ASSUME TypeOK, NEW u \in Users, NEW j \in JobIds, SpentOn(u, j),
           NEW r \in Requests, Continue(r)
    PROVE  SpentOn(u, j)'
  <1>1. RowType /\ RequestType
    BY TypeParts
  <1>2. CASE ApplyDuplicate(r) \/ ApplyInsert(r)
    BY <1>2, DuplicateSpent, InsertSpent
  <1>3. CASE ApplyResume(r)
    <2>1. Inserting(u, j)' \subseteq Inserting(u, j)
      BY <1>1, <1>3, LeaveSpends DEF RequestType, ApplyResume, GoTo, Inserting, At
    <2>2. QED
      BY <1>3, <2>1, NoneNewSpent DEF NoneNew, ApplyResume, Applications, AppsOf, apps
  <1>4. CASE \E i \in JobIds : DedupDelete(r, i)
    <2>1. Inserting(u, j)' \subseteq Inserting(u, j)
      BY <1>1, <1>4, LeaveSpends DEF DedupDelete, Inserting, At
    <2>2. Applications(u, j)' \subseteq Applications(u, j)
      BY <1>1, <1>4, TrackerAssumption
         DEF RowType, DedupDelete, RemoveJob, Applications, AppsOf
    <2>3. QED
      BY <2>1, <2>2, NoneNewSpent DEF NoneNew
  <1>5. CASE ApplyRefused(r) \/ UpdateWrite(r)
             \/ DashboardTitles(r) \/ End(r)
    <2>1. Leave(r) /\ UNCHANGED <<appUser, appJob>>
      BY <1>5 DEF ApplyRefused, UpdateWrite, DashboardTitles, End, apps
    <2>2. QED
      BY <1>1, <2>1, LeaveSpends, NoneNewSpent DEF NoneNew, Applications, AppsOf
  <1>6. CASE DashboardScores(r) \/ DashboardApplications(r)
    <2>1. Inserting(u, j)' \subseteq Inserting(u, j)
      BY <1>1, <1>6
         DEF RequestType, DashboardScores, DashboardApplications, Inserting, At
    <2>2. UNCHANGED apps
      BY <1>6 DEF DashboardScores, DashboardApplications
    <2>3. QED
      BY <2>1, <2>2, NoneNewSpent DEF NoneNew, Applications, AppsOf, apps
  <1>7. QED
    BY <1>2, <1>3, <1>4, <1>5, <1>6 DEF Continue

LEMMA SpentNext == TypeOK /\ Spent /\ [Next]_vars => Spent'
  <1> SUFFICES ASSUME TypeOK, Spent, [Next]_vars, NEW u \in Users, NEW j \in JobIds
               PROVE  SpentOn(u, j)'
    BY DEF Spent
  <1>1. SpentOn(u, j)
    BY DEF Spent
  <1>2. CASE Next
    BY <1>1, <1>2, StatementSpent, StartSpent, ContinueSpent, NoneNewSpent DEF Next
  <1>3. CASE UNCHANGED vars
    BY <1>1, <1>3
       DEF vars, apps, request, SpentOn, Applications, AppsOf, Inserting, At
  <1>4. QED
    BY <1>2, <1>3

LEMMA SpentInit == Init => Spent
  <1> SUFFICES ASSUME Init, NEW u \in Users, NEW j \in JobIds PROVE SpentOn(u, j)
    BY DEF Spent
  <1>1. Applications(u, j) = {} /\ Inserting(u, j) = {}
    BY TrackerAssumption DEF Init, Applications, AppsOf, Inserting, At
  <1>2. Cardinality(Applications(u, j)) = 0 /\ Cardinality(Inserting(u, j)) = 0
    BY <1>1, FS_EmptySet
  <1>3. Cardinality(Requests) \in Nat
    BY Finite, FS_CardinalityType
  <1>4. QED
    BY <1>2, <1>3 DEF SpentOn

\* Without a unique index, a job never has more applications of its user than
\* the server has threads to handle create_application().
THEOREM Duplicates == Spec => []DuplicatesBounded
  <1>1. Spec => []Spent
    BY SpentInit, SpentNext, TypeCorrect, PTL DEF Spec
  <1>2. Spent => DuplicatesBounded
    <2> SUFFICES ASSUME Spent, NEW u \in Users, NEW j \in JobIds
                 PROVE  Cardinality(Applications(u, j)) <= Cardinality(Requests)
      BY DEF DuplicatesBounded
    <2>1. QED
      BY Finite, FS_CardinalityType DEF Spent, SpentOn
  <1>3. QED
    BY <1>1, <1>2, PTL

-----------------------------------------------------------------------------
(***************************************************************************)
(* What rules duplicates out: the unique index of the deployed schema, or  *)
(* a single thread.                                                        *)
(***************************************************************************)
OneApplication ==
    \A u \in Users, j \in JobIds : \A a, b \in Applications(u, j) : a = b

LEMMA OneStep ==
    ASSUME UniqueIndex, TypeOK, OneApplication, [Next]_vars
    PROVE  OneApplication'
  <1> SUFFICES ASSUME NEW u \in Users, NEW j \in JobIds
               PROVE  \A a, b \in Applications(u, j)' : a = b
    BY DEF OneApplication
  <1>0. RowType /\ \A a, b \in Applications(u, j) : a = b
    BY TypeParts DEF OneApplication
  <1>1. ASSUME Applications(u, j)' \subseteq Applications(u, j)
        PROVE  \A a, b \in Applications(u, j)' : a = b
    BY <1>0, <1>1
  <1>2. ASSUME NEW v \in Users, Statement(v)
        PROVE  Applications(u, j)' \subseteq Applications(u, j)
    BY <1>2, StatementSpent DEF NoneNew
  <1>3. ASSUME NEW r \in Requests, NEW v \in Users, Start(r, v)
        PROVE  Applications(u, j)' \subseteq Applications(u, j)
    BY <1>3, StartSpent DEF NoneNew
  <1>4. ASSUME NEW r \in Requests, ApplyInsert(r)
        PROVE  \A a, b \in Applications(u, j)' : a = b
    <2>1. CASE by[r] = u /\ job[r] = j
      <3>1. Applications(u, j) = {}
        BY <1>4, <2>1 DEF ApplyInsert, Insertable
      <3>2. Applications(u, j)' \subseteq Applications(u, j) \cup {lastApp + 1}
        BY <1>0, <1>4 DEF RowType, ApplyInsert, Applications, AppsOf
      <3>3. QED
        BY <3>1, <3>2
    <2>2. CASE by[r] # u \/ job[r] # j
      <3>1. Applications(u, j)' \subseteq Applications(u, j)
        BY <1>0, <1>4, <2>2 DEF RowType, ApplyInsert, Applications, AppsOf
      <3>2. QED
        BY <1>1, <3>1
    <2>3. QED
      BY <2>1, <2>2
  <1>5. ASSUME NEW r \in Requests, NEW i \in JobIds, DedupDelete(r, i)
        PROVE  Applications(u, j)' \subseteq Applications(u, j)
    BY <1>0, <1>5, TrackerAssumption
       DEF RowType, DedupDelete, RemoveJob, Applications, AppsOf
  <1>6. ASSUME \/ UNCHANGED vars
               \/ \E r \in Requests :
                     \/ ApplyResume(r) \/ ApplyDuplicate(r) \/ ApplyRefused(r)
                     \/ UpdateWrite(r) \/ End(r) \/ DashboardScores(r)
                     \/ DashboardApplications(r) \/ DashboardTitles(r)
        PROVE  Applications(u, j)' \subseteq Applications(u, j)
    BY <1>6 DEF ApplyResume, ApplyDuplicate, ApplyRefused, UpdateWrite, DashboardScores,
       DashboardApplications, DashboardTitles, End, Applications, AppsOf, apps, vars
  <1>7. QED
    BY <1>1, <1>2, <1>3, <1>4, <1>5, <1>6 DEF Next, Continue

\* applications.py:63 answers that an application for the job exists: with the
\* unique index, or one request at a time, a user has at most one for a job.
THEOREM OneEach ==
    ASSUME UniqueIndex \/ Cardinality(Requests) = 1
    PROVE  Spec => []OneApplication
  <1>1. ASSUME UniqueIndex
        PROVE  Spec => []OneApplication
    <2>1. Init => OneApplication
      BY TrackerAssumption DEF Init, OneApplication, Applications, AppsOf
    <2>2. TypeOK /\ OneApplication /\ [Next]_vars => OneApplication'
      BY <1>1, OneStep
    <2>3. QED
      BY <2>1, <2>2, TypeCorrect, PTL DEF Spec
  <1>2. ASSUME Cardinality(Requests) = 1
        PROVE  Spec => []OneApplication
    <2>1. DuplicatesBounded => OneApplication
      <3> SUFFICES ASSUME DuplicatesBounded, NEW u \in Users, NEW j \in JobIds,
                          NEW a \in Applications(u, j), NEW b \in Applications(u, j)
                   PROVE  a = b
        BY DEF OneApplication
      <3>1. Cardinality(Applications(u, j)) <= 1
        BY <1>2 DEF DuplicatesBounded
      <3>2. IsFiniteSet(Applications(u, j)) /\ Cardinality(Applications(u, j)) \in Nat
        BY Finite, FS_CardinalityType
      <3>3. Cardinality(Applications(u, j)) # 0
        BY <3>2, FS_EmptySet
      <3>4. PICK one : Applications(u, j) = {one}
        BY <3>1, <3>2, <3>3, FS_Singleton
      <3>5. QED
        BY <3>4
    <2>2. QED
      BY <2>1, Duplicates, PTL
  <1>3. QED
    BY <1>1, <1>2
=============================================================================
