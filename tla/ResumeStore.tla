----------------------------- MODULE ResumeStore -----------------------------
(***************************************************************************)
(* Resumes: the rows of the table `resumes` and the objects of the bucket, *)
(* as app/api/routes/resumes.py, ResumeService and StorageService write    *)
(* them.                                                                   *)
(*                                                                         *)
(* The routes use one SQLAlchemy transaction per request; the service uses *)
(* the Supabase client, where each execute() is a transaction of its own.  *)
(* The bucket takes part in no transaction: what was stored stays when the *)
(* request that stored it fails or its process ends.  Requests are those   *)
(* of any number of processes.                                             *)
(***************************************************************************)
EXTENDS Integers, FiniteSets

CONSTANTS
    Requests,
    Users,
    Objects,       \* storage keys, resumes/<user>/<uuid4>; never drawn twice
    None,
    Retention,     \* the retention period of the nightly cleanup, in nights
    MaxResumes     \* bound on the ids given out

ASSUME StoreAssumption ==
    /\ None \notin Users \cup Objects \cup Int
    /\ Retention \in Nat
    /\ MaxResumes \in Nat

ResumeIds == 1..MaxResumes

VARIABLES
    lastResume,    \* the serial ids given out so far
    userOf,        \* user_id of each row; None if there is no such row
    keyOf,         \* storage_key_enc; None is NULL
    nameOf,        \* filename_enc: how many times it is encrypted; None is NULL
    textOf,        \* history: the user whose text the content is; None is NULL
    scored,        \* history: the user whose text the ats_score is of
    bucket,        \* whether the bucket exists
    objects,       \* the objects in it
    drawn,         \* the keys drawn so far
    nights,        \* history: how many cleanups in a row left an object abandoned
    pc,            \* per request, where it stands
    by,            \* its user
    resume,        \* the row it deletes or scores
    object,        \* the key it uploads to
    text           \* the text it read

rows == <<lastResume, userOf, keyOf, nameOf, textOf, scored>>
storage == <<bucket, objects, drawn, nights>>
request == <<pc, by, resume, object, text>>
vars == <<rows, storage, request>>

Uploading == {"get_bucket", "create_bucket", "upload", "insert"}
Steps == {"idle", "delete", "score", "tailor"} \cup Uploading
Owner == Users \cup {None}

TypeOK ==
    /\ lastResume \in 0..MaxResumes
    /\ userOf \in [ResumeIds -> Owner]
    /\ keyOf \in [ResumeIds -> Objects \cup {None}]
    /\ nameOf \in [ResumeIds -> Int \cup {None}]
    /\ textOf \in [ResumeIds -> Owner]
    /\ scored \in [ResumeIds -> Owner]
    /\ bucket \in BOOLEAN
    /\ objects \subseteq Objects
    /\ drawn \subseteq Objects
    /\ nights \in [Objects -> 0..(Retention + 1)]
    /\ pc \in [Requests -> Steps]
    /\ by \in [Requests -> Owner]
    /\ resume \in [Requests -> ResumeIds \cup {None}]
    /\ object \in [Requests -> Objects \cup {None}]
    /\ text \in [Requests -> Owner]

Init ==
    /\ lastResume = 0
    /\ userOf = [x \in ResumeIds |-> None]
    /\ keyOf = [x \in ResumeIds |-> None]
    /\ nameOf = [x \in ResumeIds |-> None]
    /\ textOf = [x \in ResumeIds |-> None]
    /\ scored = [x \in ResumeIds |-> None]
    /\ bucket = FALSE
    /\ objects = {}
    /\ drawn = {}
    /\ nights = [o \in Objects |-> 0]
    /\ pc = [r \in Requests |-> "idle"]
    /\ by = [r \in Requests |-> None]
    /\ resume = [r \in Requests |-> None]
    /\ object = [r \in Requests |-> None]
    /\ text = [r \in Requests |-> None]

Rows == {x \in ResumeIds : userOf[x] # None}
ResumesOf(u) == {x \in ResumeIds : userOf[x] = u}

-----------------------------------------------------------------------------
(***************************************************************************)
(* Encryption of a column: what matters is how often a value is encrypted, *)
(* 0 for plain text.  A value that is not decrypted exactly as often as it *)
(* was encrypted cannot be read: the routes encrypt, and the column's type *)
(* encrypts once more.                                                     *)
(***************************************************************************)
encrypt_field(value) == IF value = None THEN None ELSE value + 1
decrypt_field(value) == IF value = None THEN None ELSE value - 1
process_bind_param(value) == encrypt_field(value)
process_result_value(value) == decrypt_field(value)

\* What get_resume() and list_resumes() answer for the column.
Shown(column) == decrypt_field(process_result_value(column))

-----------------------------------------------------------------------------
\* Moves of one request.
At(r, step) == pc[r] = step

GoTo(r, step) ==
    /\ pc' = [pc EXCEPT ![r] = step]
    /\ UNCHANGED <<by, resume, object, text>>

Begin(r, u, step, x, o, v) ==
    /\ At(r, "idle")
    /\ pc' = [pc EXCEPT ![r] = step]
    /\ by' = [by EXCEPT ![r] = u]
    /\ resume' = [resume EXCEPT ![r] = x]
    /\ object' = [object EXCEPT ![r] = o]
    /\ text' = [text EXCEPT ![r] = v]

Leave(r) ==
    /\ pc' = [pc EXCEPT ![r] = "idle"]
    /\ by' = [by EXCEPT ![r] = None]
    /\ resume' = [resume EXCEPT ![r] = None]
    /\ object' = [object EXCEPT ![r] = None]
    /\ text' = [text EXCEPT ![r] = None]

\* INSERT of a row: its user, its object, its file name, whose text it holds.
Insert(u, o, name, v) ==
    LET x == lastResume + 1
    IN  /\ lastResume < MaxResumes
        /\ lastResume' = x
        /\ userOf' = [userOf EXCEPT ![x] = u]
        /\ keyOf' = [keyOf EXCEPT ![x] = o]
        /\ nameOf' = [nameOf EXCEPT ![x] = name]
        /\ textOf' = [textOf EXCEPT ![x] = v]
        /\ UNCHANGED scored

\* DELETE of a row; the history of its text goes with it.
Remove(x) ==
    /\ userOf' = [userOf EXCEPT ![x] = None]
    /\ keyOf' = [keyOf EXCEPT ![x] = None]
    /\ nameOf' = [nameOf EXCEPT ![x] = None]
    /\ textOf' = [textOf EXCEPT ![x] = None]
    /\ scored' = [scored EXCEPT ![x] = None]
    /\ UNCHANGED lastResume

-----------------------------------------------------------------------------
(***************************************************************************)
(* upload_resume(): size and type are checked, the object is stored under  *)
(* a random key, and then the row that names it is inserted and committed. *)
(***************************************************************************)
\* Faulty variants, for mutation tests: the key is the user's, and taken anew
\* by a later upload; the object is uploaded when the row is in.
UploadSameKey(r, u) ==
    /\ \E o \in Objects : Begin(r, u, "get_bucket", None, o, None)
    /\ UNCHANGED <<rows, storage>>
UploadRowFirst(r, u) ==
    \E o \in Objects \ drawn :
        /\ drawn' = drawn \cup {o}
        /\ Begin(r, u, "insert", None, o, None)
        /\ UNCHANGED <<rows, bucket, objects, nights>>

UploadResume(r, u) ==
    \E o \in Objects \ drawn :
        /\ drawn' = drawn \cup {o}
        /\ Begin(r, u, "get_bucket", None, o, None)
        /\ UNCHANGED <<rows, bucket, objects, nights>>

\* get_bucket() raises if there is no bucket, or if it cannot tell.
GetBucket(r) ==
    /\ At(r, "get_bucket")
    /\ \/ bucket /\ GoTo(r, "upload")
       \/ GoTo(r, "create_bucket")
    /\ UNCHANGED <<rows, storage>>

\* create_bucket() raises if there is one by now, and the upload fails.
CreateBucket(r) ==
    /\ At(r, "create_bucket")
    /\ \/ ~bucket /\ bucket' = TRUE /\ GoTo(r, "upload")
       \/ bucket' \in {bucket, TRUE} /\ Leave(r)
    /\ UNCHANGED <<rows, objects, drawn, nights>>

\* The object is stored; or it is not; or it is, and the answer is lost.
StoreObject(r) ==
    /\ At(r, "upload")
    /\ bucket
    /\ \/ objects' = objects \cup {object[r]} /\ GoTo(r, "insert")
       \/ objects' \in {objects, objects \cup {object[r]}} /\ Leave(r)
    /\ UNCHANGED <<rows, bucket, drawn, nights>>

\* Faulty variants, for mutation tests: the column alone encrypts the name; the
\* two encrypted columns are swapped.
InsertUploadPlain(r) ==
    /\ At(r, "insert")
    /\ \E name \in {0, None} : Insert(by[r], object[r], process_bind_param(name), None)
    /\ Leave(r)
    /\ UNCHANGED storage
InsertUploadSwapped(r) ==
    /\ At(r, "insert")
    /\ \E name \in {0, None} :
          Insert(by[r], process_bind_param(encrypt_field(name)), object[r], None)
    /\ Leave(r)
    /\ UNCHANGED storage

\* INSERT and commit.  The client may have sent no file name.
InsertUpload(r) ==
    /\ At(r, "insert")
    /\ \E name \in {0, None} :
          Insert(by[r], object[r], process_bind_param(encrypt_field(name)), None)
    /\ Leave(r)
    /\ UNCHANGED storage

-----------------------------------------------------------------------------
(***************************************************************************)
(* delete_resume(): the row is loaded and its owner checked; the DELETE    *)
(* names it by id alone, and finds nothing if it is gone.  The object is   *)
(* left where it is.                                                       *)
(***************************************************************************)
LoadResume(r, u, x) ==
    /\ x \in ResumesOf(u)
    /\ Begin(r, u, "delete", x, None, None)
    /\ UNCHANGED <<rows, storage>>

\* 404: no such row, or another user's; the two are not told apart.
NotFound(r, u) ==
    /\ At(r, "idle")
    /\ ResumesOf(u) # ResumeIds
    /\ UNCHANGED vars

DeleteRow(r) ==
    /\ At(r, "delete")
    /\ Remove(resume[r])
    /\ Leave(r)
    /\ UNCHANGED storage

-----------------------------------------------------------------------------
(***************************************************************************)
(* ResumeService.  Its rows have no object and no file name; every row it  *)
(* reads must have a content, or ResumeInDB is not made and it raises.     *)
(***************************************************************************)
\* get_resume()
Readable(u) == {x \in ResumesOf(u) : textOf[x] # None}

\* create_resume()
CreateResume(u) ==
    /\ Insert(u, None, None, u)
    /\ UNCHANGED <<storage, request>>

\* upload_resume_file() checks type and size, and creates a row whose content
\* tells of the file: nothing is stored.
UploadResumeFile(u) == CreateResume(u)

\* update_resume(): one UPDATE of the columns that were given.  A row without
\* content is updated all the same, and only then does the call raise.  A score
\* that the caller gives is left out.
UpdateResume(u, x) ==
    /\ x \in ResumesOf(u)
    /\ textOf' \in {textOf, [textOf EXCEPT ![x] = u]}
    /\ UNCHANGED <<lastResume, userOf, keyOf, nameOf, scored, storage, request>>

ServiceDelete(u, x) ==
    /\ x \in ResumesOf(u)
    /\ Remove(x)
    /\ UNCHANGED <<storage, request>>

\* analyze_resume_match() reads the text, ...
ScoreRead(r, u, x) ==
    /\ x \in Readable(u)
    /\ Begin(r, u, "score", x, None, textOf[x])
    /\ UNCHANGED <<rows, storage>>

\* ... and writes the score, to the row of that user and id if there is one.
ScoreWrite(r) ==
    /\ At(r, "score")
    /\ IF resume[r] \in ResumesOf(by[r])
       THEN scored' = [scored EXCEPT ![resume[r]] = text[r]]
       ELSE UNCHANGED scored
    /\ Leave(r)
    /\ UNCHANGED <<lastResume, userOf, keyOf, nameOf, textOf, storage>>

\* A faulty variant, for mutation tests: no owner check.
TailorAny(r, u, x) ==
    /\ x \in Rows /\ textOf[x] # None
    /\ Begin(r, u, "tailor", None, None, textOf[x])
    /\ UNCHANGED <<rows, storage>>

\* generate_tailored_resume(): the master's text is read, then inserted anew,
\* whatever became of the master.
TailorRead(r, u, x) ==
    /\ x \in Readable(u)
    /\ Begin(r, u, "tailor", None, None, textOf[x])
    /\ UNCHANGED <<rows, storage>>

TailorInsert(r) ==
    /\ At(r, "tailor")
    /\ Insert(by[r], None, None, text[r])
    /\ Leave(r)
    /\ UNCHANGED storage

-----------------------------------------------------------------------------
(***************************************************************************)
(* The nightly cleanup_abandoned_uploads() of app/workers/tasks.py.        *)
(***************************************************************************)
\* An object is abandoned when no row names it and no upload is on its way to
\* insert one.
Held == {keyOf[x] : x \in Rows} \cup {object[r] : r \in {s \in Requests : pc[s] \in Uploading}}
Abandoned == objects \ Held

\* It logs, and reports that it has cleaned nothing: no row is read, no object
\* removed.  The history counts up to one night more than the retention period.
CleanupAbandonedUploads ==
    /\ nights' = [o \in Objects |->
          IF o \notin Abandoned THEN 0
          ELSE IF nights[o] <= Retention THEN nights[o] + 1 ELSE nights[o]]
    /\ UNCHANGED <<rows, bucket, objects, drawn, request>>

-----------------------------------------------------------------------------
\* A statement fails and is rolled back, or the process ends: get_db() undoes
\* what the transaction did, and nothing undoes what is in the bucket.
End(r) ==
    /\ ~At(r, "idle")
    /\ Leave(r)
    /\ UNCHANGED <<rows, storage>>

Statement(u) ==
    \/ CreateResume(u) \/ UploadResumeFile(u)
    \/ \E x \in ResumeIds : UpdateResume(u, x) \/ ServiceDelete(u, x)

Start(r, u) ==
    \/ UploadResume(r, u)
    \/ NotFound(r, u)
    \/ \E x \in ResumeIds :
          LoadResume(r, u, x) \/ ScoreRead(r, u, x) \/ TailorRead(r, u, x)

Continue(r) ==
    \/ GetBucket(r) \/ CreateBucket(r) \/ StoreObject(r) \/ InsertUpload(r)
    \/ DeleteRow(r)
    \/ ScoreWrite(r)
    \/ TailorInsert(r)
    \/ End(r)

Next ==
    \/ \E u \in Users : Statement(u)
    \/ \E r \in Requests : Continue(r) \/ \E u \in Users : Start(r, u)
    \/ CleanupAbandonedUploads

Spec == Init /\ [][Next]_vars

-----------------------------------------------------------------------------
\* Whatever fails or ends in between, a row that names an object names one that
\* is stored, and that no other row names: upload_resume() stores first.
RowsHaveObjects ==
    /\ \A x \in Rows : keyOf[x] # None => keyOf[x] \in objects
    /\ \A x, y \in Rows : keyOf[x] = keyOf[y] /\ keyOf[x] # None => x = y

\* What failed uploads and deletions leave in the bucket is nobody's for good:
\* however uploads race and fail, no row and no upload comes to name it again, and
\* least of all another user's.
LeftoversUnnamed == [][Abandoned \cap Held' = {}]_vars

\* Every file name can be shown: it was encrypted as often as the routes and
\* their column type decrypt it, whichever code inserted the row.  One row that
\* was not would fail list_resumes() as a whole.
NamesReadable == \A x \in Rows : Shown(nameOf[x]) \in {0, None}

\* However tailoring and scoring race with edits and deletions, no text of one
\* user, and no score of it, ends up in a row of another.
OwnText ==
    \A x \in Rows : textOf[x] \in {userOf[x], None} /\ scored[x] \in {userOf[x], None}

\* The row delete_resume() is about to delete, by id alone, is the one its user
\* was seen to own, or gone.
DeletesOwn == \A r \in Requests : At(r, "delete") => userOf[resume[r]] \in {by[r], None}

-----------------------------------------------------------------------------
(***************************************************************************)
(* A promise of the documentation that the code does not keep.             *)
(***************************************************************************)

\* tasks.py, of the task beat runs each night: "Clean up abandoned file uploads
\* older than retention period".  Whatever that period is, in whole nights (no
\* setting names one), no object is left abandoned by more cleanups than that.
AbandonedCleaned == \A o \in Objects : nights[o] <= Retention
=============================================================================
