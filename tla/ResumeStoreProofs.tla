-------------------------- MODULE ResumeStoreProofs --------------------------
(***************************************************************************)
(* What ResumeStore guarantees for every number of requests, users, keys   *)
(* and rows.  A key is drawn once: it is the key of one upload, and then   *)
(* of one row; and it is in the bucket before the row is in the table.     *)
(***************************************************************************)
EXTENDS ResumeStore, TLAPS

RowsValid ==
    /\ \A x \in ResumeIds : x > lastResume => userOf[x] = None
    /\ \A x \in ResumeIds : userOf[x] = None => scored[x] = None
    /\ RowsHaveObjects /\ NamesReadable /\ OwnText
    /\ objects \subseteq drawn

RowKnown(x, u) == x \in ResumeIds /\ x <= lastResume /\ userOf[x] \in {u, None}

Drawn(o) == o \in drawn /\ \A x \in Rows : keyOf[x] # o

RequestValid(r) ==
    /\ ~At(r, "idle") => by[r] \in Users
    /\ At(r, "delete") => RowKnown(resume[r], by[r])
    /\ pc[r] \in {"score", "tailor"} => text[r] = by[r]
    /\ At(r, "score") => resume[r] \in ResumeIds
    /\ pc[r] \in Uploading => Drawn(object[r])
    /\ At(r, "insert") => object[r] \in objects

RequestsValid == \A r \in Requests : RequestValid(r)

\* No two uploads have the same key.
Apart ==
    \A r, s \in Requests :
        pc[r] \in Uploading /\ pc[s] \in Uploading /\ object[r] = object[s] => r = s

Inv == TypeOK /\ RowsValid /\ RequestsValid /\ Apart

-----------------------------------------------------------------------------
(***************************************************************************)
(* What a step does to rows and bucket: rows and objects only age, and a   *)
(* key that is new in the table is one of the set K.                       *)
(***************************************************************************)
RowType ==
    /\ lastResume \in 0..MaxResumes
    /\ userOf \in [ResumeIds -> Owner]
    /\ keyOf \in [ResumeIds -> Objects \cup {None}]
    /\ nameOf \in [ResumeIds -> Int \cup {None}]
    /\ textOf \in [ResumeIds -> Owner]
    /\ scored \in [ResumeIds -> Owner]
    /\ bucket \in BOOLEAN
    /\ objects \subseteq Objects
    /\ drawn \subseteq Objects
    /\ nights \in [Objects -> 0..(Retention + 1)]

RequestType ==
    /\ pc \in [Requests -> Steps]
    /\ by \in [Requests -> Owner]
    /\ resume \in [Requests -> ResumeIds \cup {None}]
    /\ object \in [Requests -> Objects \cup {None}]
    /\ text \in [Requests -> Owner]

LEMMA TypeParts == TypeOK <=> RowType /\ RequestType
  BY DEF TypeOK, RowType, RequestType

Aged(K) ==
    /\ drawn \subseteq drawn' /\ objects \subseteq objects' /\ lastResume <= lastResume'
    /\ \A x \in ResumeIds : x <= lastResume => userOf'[x] \in {userOf[x], None}
    /\ \A x \in Rows' : \/ x \in Rows /\ keyOf'[x] = keyOf[x]
                        \/ keyOf'[x] \in K \cup {None}

RowsNext(K) == RowType' /\ RowsValid' /\ Aged(K)

\* The rows stay as they are, whatever is drawn, stored or counted.
LEMMA BucketGrows ==
    ASSUME RowType, RowsValid, UNCHANGED rows, bucket' \in BOOLEAN,
           objects \subseteq objects', objects' \subseteq drawn',
           drawn \subseteq drawn', drawn' \subseteq Objects,
           nights' \in [Objects -> 0..(Retention + 1)], NEW K
    PROVE  RowsNext(K)
  <1>1. RowType'
    BY DEF RowType, rows
  <1>2. RowsHaveObjects' /\ OwnText' /\ NamesReadable'
    BY DEF RowsValid, RowsHaveObjects, OwnText, NamesReadable, Shown, Rows, rows,
           decrypt_field, process_result_value
  <1>3. RowsValid'
    BY <1>2 DEF RowsValid, rows
  <1>4. Aged(K)
    BY DEF Aged, RowType, Rows, rows, ResumeIds
  <1>5. QED
    BY <1>1, <1>3, <1>4 DEF RowsNext

LEMMA RowsSame ==
    ASSUME RowType, RowsValid, UNCHANGED <<rows, storage>>, NEW K
    PROVE  RowsNext(K)
  BY BucketGrows DEF RowType, RowsValid, storage

LEMMA InsertRows ==
    ASSUME RowType, RowsValid, UNCHANGED storage,
           NEW u \in Users, NEW o \in objects \cup {None}, NEW v \in {u, None},
           NEW name \in Int \cup {None}, Shown(name) \in {0, None},
           o # None => \A x \in Rows : keyOf[x] # o,
           Insert(u, o, name, v)
    PROVE  RowsNext({o})
  <1> USE StoreAssumption
  <1> DEFINE n == lastResume + 1
  <1>1. /\ n \in ResumeIds /\ userOf[n] = None /\ scored[n] = None
        /\ lastResume' = n /\ lastResume \in Int /\ scored' = scored
        /\ userOf' = [userOf EXCEPT ![n] = u]
        /\ keyOf' = [keyOf EXCEPT ![n] = o]
        /\ nameOf' = [nameOf EXCEPT ![n] = name]
        /\ textOf' = [textOf EXCEPT ![n] = v]
    BY DEF Insert, RowType, RowsValid, ResumeIds
  <1> HIDE DEF n
  <1>2. RowType'
    BY <1>1 DEF RowType, storage, Owner, ResumeIds
  <1>3. /\ userOf'[n] = u /\ keyOf'[n] = o /\ nameOf'[n] = name /\ textOf'[n] = v
        /\ \A x \in ResumeIds \ {n} :
              /\ userOf'[x] = userOf[x] /\ keyOf'[x] = keyOf[x]
              /\ nameOf'[x] = nameOf[x] /\ textOf'[x] = textOf[x]
    BY <1>1 DEF RowType
  <1>4. Rows' = Rows \cup {n} /\ n \notin Rows
    BY <1>1, <1>3 DEF Rows
  <1>5. RowsHaveObjects'
    BY <1>3, <1>4 DEF RowsValid, RowsHaveObjects, storage, Rows
  <1>6. NamesReadable'
    BY <1>3, <1>4 DEF RowsValid, NamesReadable, Shown, decrypt_field,
                      process_result_value, Rows
  <1>7. OwnText'
    BY <1>1, <1>3, <1>4 DEF RowsValid, OwnText, Rows
  <1>8. /\ \A x \in ResumeIds : x > lastResume' => userOf'[x] = None
        /\ \A x \in ResumeIds : userOf'[x] = None => scored'[x] = None
    BY <1>1, <1>3 DEF RowsValid, n, ResumeIds
  <1>9. Aged({o})
    BY <1>1, <1>3, <1>4 DEF Aged, storage, Rows, n, ResumeIds
  <1>10. QED
    BY <1>2, <1>5, <1>6, <1>7, <1>8, <1>9 DEF RowsNext, RowsValid, storage

LEMMA RemoveRows ==
    ASSUME RowType, RowsValid, UNCHANGED storage, NEW x \in ResumeIds, Remove(x), NEW K
    PROVE  RowsNext(K)
  <1>1. RowType'
    BY DEF RowType, Remove, storage, Owner
  <1>2. Rows' = Rows \ {x}
    BY DEF Rows, Remove, RowType
  <1>3. \A y \in Rows' :
           /\ userOf'[y] = userOf[y] /\ keyOf'[y] = keyOf[y] /\ nameOf'[y] = nameOf[y]
           /\ textOf'[y] = textOf[y] /\ scored'[y] = scored[y]
    BY <1>2 DEF Rows, Remove, RowType
  <1>4. RowsHaveObjects' /\ OwnText'
    BY <1>2, <1>3 DEF RowsValid, RowsHaveObjects, OwnText, storage
  <1>5. NamesReadable'
    BY <1>2, <1>3 DEF RowsValid, NamesReadable, Shown, decrypt_field, process_result_value
  <1>6. /\ \A y \in ResumeIds : y > lastResume' => userOf'[y] = None
        /\ \A y \in ResumeIds : userOf'[y] = None => scored'[y] = None
    BY DEF RowsValid, Remove, RowType
  <1>7. Aged(K)
    BY <1>2, <1>3 DEF Aged, Remove, RowType, storage
  <1>8. QED
    BY <1>1, <1>4, <1>5, <1>6, <1>7 DEF RowsNext, RowsValid, storage

\* A text or a score of its own user is written to a row.
LEMMA WriteRows ==
    ASSUME RowType, RowsValid, UNCHANGED <<lastResume, userOf, keyOf, nameOf, storage>>,
           NEW u \in Users, NEW x \in ResumesOf(u), NEW K,
           textOf' \in {textOf, [textOf EXCEPT ![x] = u]},
           scored' \in {scored, [scored EXCEPT ![x] = u]}
    PROVE  RowsNext(K)
  <1> USE StoreAssumption
  <1>1. x \in Rows /\ userOf[x] = u /\ Rows' = Rows
    BY DEF ResumesOf, Rows
  <1>2. RowType'
    BY <1>1 DEF RowType, Owner, storage, Rows
  <1>3. OwnText'
    BY <1>1 DEF RowsValid, OwnText, RowType, Rows
  <1>4. RowsHaveObjects' /\ NamesReadable'
    BY <1>1 DEF RowsValid, RowsHaveObjects, NamesReadable, Shown, decrypt_field,
                process_result_value, storage
  <1>5. \A y \in ResumeIds : userOf'[y] = None => scored'[y] = None
    BY <1>1 DEF RowsValid, RowType, Rows
  <1>6. QED
    BY <1>1, <1>2, <1>3, <1>4, <1>5 DEF RowsNext, RowsValid, Aged, RowType, storage, ResumeIds

-----------------------------------------------------------------------------
(***************************************************************************)
(* What a step does to the requests.                                       *)
(***************************************************************************)
OthersSame(r) ==
    \A s \in Requests \ {r} :
        /\ pc'[s] = pc[s] /\ by'[s] = by[s] /\ resume'[s] = resume[s]
        /\ object'[s] = object[s] /\ text'[s] = text[s]

\* A request that does nothing still knows what it knew.
LEMMA RequestKept ==
    ASSUME RowType, RequestType, NEW s \in Requests, RequestValid(s), NEW K, RowsNext(K),
           pc[s] \in Uploading => object[s] \notin K,
           pc'[s] = pc[s], by'[s] = by[s], resume'[s] = resume[s],
           object'[s] = object[s], text'[s] = text[s]
    PROVE  RequestValid(s)'
  <1>1. At(s, "delete") => RowKnown(resume[s], by[s])'
    BY DEF RequestValid, RowKnown, RowsNext, Aged, RowType, ResumeIds
  <1>2. pc[s] \in Uploading => Drawn(object[s])'
    BY StoreAssumption DEF RequestValid, Drawn, RowsNext, Aged, RowType
  <1>3. QED
    BY <1>1, <1>2 DEF RequestValid, At, RowsNext, Aged

\* The key that enters the table, if any, is that of the request that moves.
KeyOf(r) == IF pc[r] \in Uploading THEN {object[r]} ELSE {}

\* The invariant holds again, and nobody has come to hold what was abandoned.
InvNext == Inv' /\ Abandoned \cap Held' = {}

LEMMA MoveStep ==
    ASSUME Inv, NEW r \in Requests, RowsNext(KeyOf(r)), OthersSame(r), RequestType',
           RequestValid(r)',
           pc'[r] \in Uploading =>
              \/ object'[r] \notin drawn
              \/ pc[r] \in Uploading /\ object'[r] = object[r]
    PROVE  InvNext
  <1>1. RowType /\ RequestType
    BY TypeParts DEF Inv
  <1>2. ASSUME NEW s \in Requests
        PROVE  RequestValid(s)'
    <2>1. CASE s = r
      BY <2>1
    <2>2. CASE s # r
      <3>1. pc[s] \in Uploading => object[s] \notin KeyOf(r)
        BY <2>2 DEF Inv, Apart, KeyOf
      <3>2. RequestValid(s) /\ s \in Requests \ {r}
        BY <2>2 DEF Inv, RequestsValid
      <3>3. QED
        BY <1>1, <3>1, <3>2, RequestKept DEF OthersSame
    <2>3. QED
      BY <2>1, <2>2
  <1>3. Apart'
    BY DEF Inv, Apart, OthersSame, RequestsValid, RequestValid, Drawn
  <1>4. TypeOK'
    BY TypeParts DEF RowsNext, TypeOK, RowType, RequestType
  <1>5. Abandoned \cap Held' = {}
    <2> SUFFICES ASSUME NEW o \in Abandoned, o \in Held' PROVE FALSE
      OBVIOUS
    <2>1. o \in objects /\ o \in drawn /\ o # None
      BY <1>1, StoreAssumption DEF Abandoned, Inv, RowsValid, RowType
    <2>2. CASE \E x \in Rows' : o = keyOf'[x]
      BY <1>1, <2>1, <2>2 DEF Abandoned, Held, RowsNext, Aged, KeyOf
    <2>3. CASE \E s \in Requests : pc'[s] \in Uploading /\ o = object'[s]
      BY <2>1, <2>3 DEF Abandoned, Held, OthersSame
    <2>4. QED
      BY <2>2, <2>3 DEF Held
  <1>6. QED
    BY <1>2, <1>3, <1>4, <1>5 DEF Inv, InvNext, RequestsValid, RowsNext

LEMMA LeaveStep ==
    ASSUME Inv, NEW r \in Requests, RowsNext(KeyOf(r)), Leave(r)
    PROVE  InvNext
  <1>1. RequestType
    BY TypeParts DEF Inv
  <1>2. RequestType' /\ OthersSame(r) /\ pc'[r] = "idle"
    BY <1>1 DEF RequestType, Leave, Steps, Owner, OthersSame
  <1>3. RequestValid(r)' /\ pc'[r] \notin Uploading
    BY <1>2 DEF RequestValid, At, Uploading
  <1>4. QED
    BY <1>2, <1>3, MoveStep

LEMMA StatementStep ==
    ASSUME Inv, RowsNext({}), UNCHANGED request
    PROVE  InvNext
  <1>1. RowType /\ RequestType
    BY TypeParts DEF Inv
  <1>2. RequestsValid'
    BY <1>1, RequestKept DEF Inv, RequestsValid, request
  <1>3. Apart'
    BY DEF Inv, Apart, request
  <1>4. TypeOK'
    BY <1>1 DEF RowsNext, TypeOK, RowType, RequestType, request
  <1>5. Abandoned \cap Held' = {}
    <2> SUFFICES ASSUME NEW o \in Abandoned, o \in Held' PROVE FALSE
      OBVIOUS
    <2>1. o # None
      BY <1>1, StoreAssumption DEF Abandoned, RowType
    <2>2. QED
      BY <2>1 DEF Abandoned, Held, RowsNext, Aged, request
  <1>6. QED
    BY <1>2, <1>3, <1>4, <1>5 DEF Inv, InvNext, RowsNext

-----------------------------------------------------------------------------
(***************************************************************************)
(* Each step in turn.                                                      *)
(***************************************************************************)
\* A request begins on a row, having read it.
LEMMA BeginStep ==
    ASSUME Inv, UNCHANGED <<rows, storage>>, NEW r \in Requests, NEW u \in Users,
           NEW x \in ResumesOf(u), NEW step \in {"delete", "score", "tailor"},
           NEW y \in {x, None}, NEW v \in {u, None},
           step \in {"delete", "score"} => y = x, step \in {"score", "tailor"} => v = u,
           Begin(r, u, step, y, None, v)
    PROVE  InvNext
  <1>1. RowType /\ RequestType
    BY TypeParts DEF Inv
  <1>2. RowsNext(KeyOf(r))
    BY <1>1, RowsSame DEF Inv
  <1>3. RowKnown(x, u)'
    BY StoreAssumption
       DEF Inv, RowsValid, TypeOK, RowKnown, ResumesOf, ResumeIds, rows
  <1>4. /\ pc'[r] = step /\ by'[r] = u /\ resume'[r] = y /\ text'[r] = v
        /\ OthersSame(r) /\ RequestType'
    BY <1>1 DEF Begin, RequestType, OthersSame, Steps, Owner, ResumesOf
  <1>5. RequestValid(r)' /\ pc'[r] \notin Uploading
    BY <1>3, <1>4 DEF RequestValid, At, Uploading, RowKnown
  <1>6. QED
    BY <1>2, <1>4, <1>5, MoveStep

LEMMA ReadStep ==
    ASSUME Inv, NEW r \in Requests, NEW u \in Users, NEW x \in ResumeIds,
           LoadResume(r, u, x) \/ ScoreRead(r, u, x) \/ TailorRead(r, u, x)
    PROVE  InvNext
  <1>1. CASE LoadResume(r, u, x)
    BY <1>1, BeginStep DEF LoadResume
  <1>2. CASE ScoreRead(r, u, x) \/ TailorRead(r, u, x)
    <2>1. x \in ResumesOf(u) /\ textOf[x] = u
      BY <1>2, StoreAssumption
         DEF Inv, RowsValid, OwnText, ScoreRead, TailorRead, Readable, ResumesOf, Rows
    <2>2. QED
      BY <1>2, <2>1, BeginStep DEF ScoreRead, TailorRead
  <1>3. QED
    BY <1>1, <1>2

LEMMA UploadStep ==
    ASSUME Inv, NEW r \in Requests, NEW u \in Users, UploadResume(r, u)
    PROVE  InvNext
  <1>1. RowType /\ RequestType
    BY TypeParts DEF Inv
  <1>2. PICK o \in Objects \ drawn :
           /\ drawn' = drawn \cup {o}
           /\ Begin(r, u, "get_bucket", None, o, None)
           /\ UNCHANGED <<rows, bucket, objects, nights>>
    BY DEF UploadResume
  <1>3. RowsNext(KeyOf(r))
    <2>1. /\ RowType /\ RowsValid /\ bucket' \in BOOLEAN
          /\ objects \subseteq objects' /\ objects' \subseteq drawn'
          /\ drawn \subseteq drawn' /\ drawn' \subseteq Objects
          /\ nights' \in [Objects -> 0..(Retention + 1)]
      BY <1>1, <1>2 DEF Inv, RowType, RowsValid
    <2>2. QED
      BY <1>2, <2>1, BucketGrows
  <1>4. /\ pc'[r] = "get_bucket" /\ by'[r] = u /\ object'[r] = o
        /\ OthersSame(r) /\ RequestType'
    BY <1>1, <1>2 DEF Begin, RequestType, OthersSame, Steps, Uploading, Owner
  <1>5. Drawn(o)'
    BY <1>1, <1>2, StoreAssumption
       DEF Inv, RowsValid, RowsHaveObjects, Drawn, Rows, RowType, rows
  <1>6. RequestValid(r)'
    BY <1>4, <1>5 DEF RequestValid, At
  <1>7. QED
    BY <1>2, <1>3, <1>4, <1>6, MoveStep

\* An upload goes on with its key, and the bucket may have grown.
LEMMA UploadOnStep ==
    ASSUME Inv, NEW r \in Requests, pc[r] \in Uploading, UNCHANGED <<rows, drawn, nights>>,
           bucket' \in BOOLEAN, objects' \in {objects, objects \cup {object[r]}},
           \/ Leave(r)
           \/ \E step \in Uploading :
                 GoTo(r, step) /\ (step = "insert" => object[r] \in objects')
    PROVE  InvNext
  <1>1. RowType /\ RequestType /\ RequestValid(r)
    BY TypeParts DEF Inv, RequestsValid
  <1>2. Drawn(object[r]) /\ by[r] \in Users
    BY <1>1 DEF RequestValid, At, Uploading
  <1>3. RowsNext(KeyOf(r))
    <2>1. /\ RowType /\ RowsValid
          /\ objects \subseteq objects' /\ objects' \subseteq drawn'
          /\ drawn \subseteq drawn' /\ drawn' \subseteq Objects
          /\ nights' \in [Objects -> 0..(Retention + 1)]
      BY <1>1, <1>2 DEF Inv, RowType, RowsValid, Drawn
    <2>2. QED
      BY <2>1, BucketGrows
  <1>4. CASE Leave(r)
    BY <1>3, <1>4, LeaveStep
  <1>5. ASSUME NEW step \in Uploading, GoTo(r, step), step = "insert" => object[r] \in objects'
        PROVE  InvNext
    <2>1. /\ pc'[r] = step /\ by'[r] = by[r] /\ object'[r] = object[r]
          /\ OthersSame(r) /\ RequestType'
      BY <1>1, <1>5 DEF GoTo, RequestType, OthersSame, Steps
    <2>2. Drawn(object[r])'
      BY <1>2, <2>1 DEF Drawn, Rows, rows
    <2>3. RequestValid(r)'
      BY <1>2, <1>5, <2>1, <2>2 DEF RequestValid, At, Uploading
    <2>4. QED
      BY <1>3, <2>1, <2>3, MoveStep
  <1>6. QED
    BY <1>4, <1>5

LEMMA InsertUploadStep ==
    ASSUME Inv, NEW r \in Requests, InsertUpload(r)
    PROVE  InvNext
  <1>1. RowType /\ RequestType /\ RequestValid(r) /\ RowsValid
    BY TypeParts DEF Inv, RequestsValid
  <1>2. PICK name \in {0, None} :
           Insert(by[r], object[r], process_bind_param(encrypt_field(name)), None)
    BY DEF InsertUpload
  <1>3. /\ process_bind_param(encrypt_field(name)) \in Int \cup {None}
        /\ Shown(process_bind_param(encrypt_field(name))) \in {0, None}
    BY StoreAssumption DEF process_bind_param, encrypt_field, Shown, decrypt_field,
                           process_result_value
  <1>4. /\ by[r] \in Users /\ object[r] \in objects /\ KeyOf(r) = {object[r]}
        /\ \A x \in Rows : keyOf[x] # object[r]
    BY <1>1 DEF InsertUpload, RequestValid, At, Uploading, Drawn, KeyOf
  <1>5. RowsNext({object[r]})
    BY <1>1, <1>2, <1>3, <1>4, InsertRows DEF InsertUpload
  <1>6. QED
    BY <1>4, <1>5, LeaveStep DEF InsertUpload

LEMMA PlainInsertRows ==
    ASSUME RowType, RowsValid, UNCHANGED storage, NEW u \in Users, NEW K,
           Insert(u, None, None, u)
    PROVE  RowsNext(K)
  <1>1. Shown(None) \in {0, None}
    BY DEF Shown, decrypt_field, process_result_value
  <1>2. RowsNext({None})
    BY <1>1, InsertRows
  <1>3. QED
    BY <1>2 DEF RowsNext, Aged

LEMMA ContinueStep ==
    ASSUME Inv, NEW r \in Requests, Continue(r)
    PROVE  InvNext
  <1>1. RowType /\ RequestType /\ RequestValid(r) /\ RowsValid
    BY TypeParts DEF Inv, RequestsValid
  <1>2. CASE GetBucket(r)
    BY <1>1, <1>2, UploadOnStep DEF GetBucket, At, Uploading, RowType, storage
  <1>3. CASE CreateBucket(r)
    BY <1>1, <1>3, UploadOnStep DEF CreateBucket, At, Uploading, RowType
  <1>4. CASE StoreObject(r)
    BY <1>1, <1>4, UploadOnStep DEF StoreObject, At, Uploading, RowType
  <1>5. CASE DeleteRow(r)
    <2>1. resume[r] \in ResumeIds
      BY <1>1, <1>5 DEF DeleteRow, RequestValid, RowKnown
    <2>2. QED
      BY <1>1, <1>5, <2>1, RemoveRows, LeaveStep DEF DeleteRow
  <1>6. CASE ScoreWrite(r)
    <2>1. by[r] \in Users /\ text[r] = by[r]
      BY <1>1, <1>6 DEF ScoreWrite, RequestValid, At
    <2>2. CASE resume[r] \in ResumesOf(by[r])
      BY <1>1, <1>6, <2>1, <2>2, WriteRows, LeaveStep DEF ScoreWrite
    <2>3. CASE resume[r] \notin ResumesOf(by[r])
      BY <1>1, <1>6, <2>3, RowsSame, LeaveStep DEF ScoreWrite, rows
    <2>4. QED
      BY <2>2, <2>3
  <1>7. CASE TailorInsert(r)
    <2>1. by[r] \in Users /\ text[r] = by[r]
      BY <1>1, <1>7 DEF TailorInsert, RequestValid, At
    <2>2. QED
      BY <1>1, <1>7, <2>1, PlainInsertRows, LeaveStep DEF TailorInsert
  <1>8. CASE End(r)
    BY <1>1, <1>8, RowsSame, LeaveStep DEF End
  <1>9. QED
    BY <1>2, <1>3, <1>4, <1>5, <1>6, <1>7, <1>8, InsertUploadStep DEF Continue

LEMMA StatementsStep ==
    ASSUME Inv, NEW u \in Users, Statement(u)
    PROVE  InvNext
  <1>1. RowType /\ RowsValid
    BY TypeParts DEF Inv
  <1>2. CASE CreateResume(u)
    BY <1>1, <1>2, PlainInsertRows, StatementStep DEF CreateResume
  <1>3. ASSUME NEW x \in ResumeIds, UpdateResume(u, x)
        PROVE  InvNext
    BY <1>1, <1>3, WriteRows, StatementStep DEF UpdateResume
  <1>4. ASSUME NEW x \in ResumeIds, ServiceDelete(u, x)
        PROVE  InvNext
    BY <1>1, <1>4, RemoveRows, StatementStep DEF ServiceDelete
  <1>5. QED
    BY <1>2, <1>3, <1>4 DEF Statement, UploadResumeFile

\* The nightly cleanup touches neither the rows nor the bucket.
LEMMA CleanupStep == ASSUME Inv, CleanupAbandonedUploads PROVE InvNext
  <1>1. RowType /\ RowsValid
    BY TypeParts DEF Inv
  <1>2. /\ UNCHANGED <<rows, bucket, objects, drawn, request>>
        /\ nights' \in [Objects -> 0..(Retention + 1)]
    BY <1>1, StoreAssumption DEF CleanupAbandonedUploads, RowType
  <1>3. RowsNext({})
    BY <1>1, <1>2, BucketGrows DEF RowType, RowsValid
  <1>4. QED
    BY <1>2, <1>3, StatementStep

LEMMA Stutter == ASSUME Inv, UNCHANGED vars PROVE InvNext
  <1>1. RowType /\ RowsValid
    BY TypeParts DEF Inv
  <1>2. QED
    BY <1>1, RowsSame, StatementStep DEF vars

LEMMA NextInv == Inv /\ [Next]_vars => InvNext
  <1> SUFFICES ASSUME Inv, [Next]_vars PROVE InvNext
    OBVIOUS
  <1>1. ASSUME NEW r \in Requests, NEW u \in Users, Start(r, u)
        PROVE  InvNext
    BY <1>1, UploadStep, ReadStep, Stutter DEF Start, NotFound
  <1>2. QED
    BY <1>1, StatementsStep, ContinueStep, CleanupStep, Stutter DEF Next

LEMMA InitInv == Init => Inv
  <1> SUFFICES ASSUME Init PROVE Inv
    OBVIOUS
  <1>1. TypeOK
    <2>1. RowType
      <3>1. lastResume \in 0..MaxResumes
        BY StoreAssumption DEF Init
      <3>2. None \in Owner /\ None \in Objects \cup {None} /\ None \in Int \cup {None}
        BY DEF Owner
      <3>3. /\ userOf \in [ResumeIds -> Owner]
            /\ keyOf \in [ResumeIds -> Objects \cup {None}]
        BY <3>2 DEF Init
      <3>4. nameOf \in [ResumeIds -> Int \cup {None}]
        BY <3>2 DEF Init
      <3>5. /\ textOf \in [ResumeIds -> Owner]
            /\ scored \in [ResumeIds -> Owner]
        BY <3>2 DEF Init
      <3>6. bucket \in BOOLEAN /\ objects \subseteq Objects /\ drawn \subseteq Objects
        BY DEF Init
      <3>7. nights \in [Objects -> 0..(Retention + 1)]
        BY StoreAssumption DEF Init
      <3>8. QED
        BY <3>1, <3>3, <3>4, <3>5, <3>6, <3>7 DEF RowType
    <2>2. RequestType
      BY DEF Init, RequestType, Owner, Steps
    <2>3. QED
      BY <2>1, <2>2, TypeParts
  <1>2. Rows = {} /\ \A r \in Requests : pc[r] = "idle"
    BY DEF Init, Rows
  <1>3. RowsValid
    BY <1>2 DEF Init, RowsValid, RowsHaveObjects, NamesReadable, OwnText
  <1>4. RequestsValid /\ Apart
    BY <1>2 DEF RequestsValid, RequestValid, At, Uploading, Apart
  <1>5. QED
    BY <1>1, <1>3, <1>4 DEF Inv

LEMMA Invariance == Spec => []Inv
  <1>1. Inv /\ [Next]_vars => Inv'
    BY NextInv DEF InvNext
  <1>2. QED
    BY <1>1, InitInv, PTL DEF Spec

-----------------------------------------------------------------------------
\* Every reachable state of rows, bucket and requests is well typed.
THEOREM TypeCorrect == Spec => []TypeOK
  BY Invariance, PTL DEF Inv

\* A committed row always names an object that is stored, and its own.
THEOREM ObjectsStored == Spec => []RowsHaveObjects
  <1>1. Inv => RowsHaveObjects
    BY DEF Inv, RowsValid
  <1>2. QED
    BY <1>1, Invariance, PTL

\* Every file name is encrypted as often as it will be decrypted.
THEOREM NamesShown == Spec => []NamesReadable
  <1>1. Inv => NamesReadable
    BY DEF Inv, RowsValid
  <1>2. QED
    BY <1>1, Invariance, PTL

\* A row holds text of its own user, and a score of such text, whatever became of
\* the row they were read from.
THEOREM TextStays == Spec => []OwnText
  <1>1. Inv => OwnText
    BY DEF Inv, RowsValid
  <1>2. QED
    BY <1>1, Invariance, PTL

\* The row a request deletes by id is its user's, or gone.
THEOREM OwnDeleted == Spec => []DeletesOwn
  <1>1. Inv => DeletesOwn
    BY DEF Inv, RequestsValid, RequestValid, RowKnown, DeletesOwn
  <1>2. QED
    BY <1>1, Invariance, PTL

\* What uploads and deletions left in the bucket no row and no upload ever names
\* again, for a key is drawn once and its holder alone can pass it on.
THEOREM NeverNamedAgain == Spec => LeftoversUnnamed
  <1>1. Inv /\ [Next]_vars => [Abandoned \cap Held' = {}]_vars
    BY NextInv DEF InvNext
  <1>2. QED
    BY <1>1, Invariance, PTL DEF Spec, LeftoversUnnamed
=============================================================================
