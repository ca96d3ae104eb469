-------------------------- MODULE RateLimitProofs --------------------------
(***************************************************************************)
(* The rate limiter keeps its rate and implements SlidingWindow for every  *)
(* limit, window and delay.                                                *)
(***************************************************************************)
EXTENDS RateLimit, FiniteSetTheorems, TLAPS

LEMMA AgingType ==
    ASSUME NEW bound \in Nat, NEW n \in 0..bound
    PROVE  Older(n, bound) \in 0..bound
  BY DEF Older

\* Whatever a step does to the sorted set and its history.
SetType ==
    /\ zset \subseteq Members
    /\ age \in [Members -> 0..Oldest]
    /\ ttl \in 0..Window
    /\ since \in [Members -> 0..Oldest]

Untouched == UNCHANGED <<zset, age, ttl, since>>
Script(s) == Untouched \/ Add(s) \/ Refuse(s)

\* The three answers, by what they do to the sorted set.
LEMMA AnsweredIsScript ==
    ASSUME NEW s \in Slots, Answered(s)
    PROVE  \/ Untouched
           \/ Cardinality(Kept(s)) < Limit /\ Add(s)
           \/ Refuse(s)
  BY DEF Answered, Admit, Reject, FailOpen, Untouched

LEMMA AddType ==
    ASSUME TypeOK, NEW s \in Slots, Add(s)
    PROVE  SetType'
  <1>1. PICK m \in Members \ (zset \cup Recent) :
           /\ zset' = Kept(s) \cup {m}
           /\ age' = [age EXCEPT ![m] = lag[s]]
           /\ ttl' = Window
           /\ since' = [since EXCEPT ![m] = 0]
    BY DEF Add
  <1>2. lag[s] \in 0..Oldest /\ Window \in 0..Window /\ 0 \in 0..Window
    BY LimiterAssumption DEF TypeOK, Oldest
  <1>3. zset' \subseteq Members
    BY <1>1 DEF TypeOK, Kept
  <1>4. age' \in [Members -> 0..Oldest]
    BY <1>1, <1>2 DEF TypeOK
  <1>5. since' \in [Members -> 0..Oldest]
    BY <1>1, <1>2, LimiterAssumption DEF TypeOK, Oldest
  <1> QED
    BY <1>1, <1>2, <1>3, <1>4, <1>5 DEF SetType

LEMMA TypeStep ==
    ASSUME TypeOK, [Next]_vars
    PROVE  TypeOK'
  <1>1. ASSUME NEW s \in Slots, Arrive(s)
        PROVE  TypeOK'
    BY <1>1, LimiterAssumption DEF Arrive, TypeOK
  <1>2. ASSUME NEW s \in Slots, Answered(s)
        PROVE  TypeOK'
    <2>1. PICK answer \in Answers : Answer(s, answer)
      BY <1>2 DEF Answered, Admit, Reject, FailOpen, Answers
    <2>2. /\ waiting' \subseteq Slots /\ lag' \in [Slots -> 0..MaxLag]
          /\ last' \in Answers
      BY <2>1 DEF Answer, TypeOK
    <2>3. CASE Untouched
      BY <2>3, <2>2 DEF Untouched, TypeOK
    <2>4. CASE Add(s)
      BY <2>2, <2>4, AddType DEF TypeOK, SetType
    <2>5. CASE Refuse(s)
      BY <2>2, <2>5 DEF Refuse, Kept, TypeOK
    <2> QED
      BY <1>2, <2>3, <2>4, <2>5, AnsweredIsScript
  <1>3. CASE Tick
    <2>1. Oldest \in Nat /\ Window \in Nat /\ MaxLag \in Nat
      BY LimiterAssumption DEF Oldest
    <2>2. lag' \in [Slots -> 0..MaxLag]
      BY <1>3, <2>1 DEF Tick, TypeOK
    <2>3. age' \in [Members -> 0..Oldest] /\ since' \in [Members -> 0..Oldest]
      BY <1>3, <2>1, AgingType DEF Tick, TypeOK
    <2>4. ttl' \in 0..Window
      BY <1>3, <2>1 DEF Tick, TypeOK
    <2>5. zset' \subseteq Members /\ waiting' \subseteq Slots /\ last' \in Answers
      BY <1>3 DEF Tick, TypeOK
    <2> QED
      BY <2>2, <2>3, <2>4, <2>5 DEF TypeOK
  <1>4. CASE UNCHANGED vars
    BY <1>4 DEF vars, TypeOK
  <1> QED
    BY <1>1, <1>2, <1>3, <1>4 DEF Next

-----------------------------------------------------------------------------
(***************************************************************************)
(* The invariant.  A request the script added is still in the sorted set   *)
(* unless it is older than any request that may come can tell, and the key *)
(* does not expire before the last of them.                                *)
(***************************************************************************)
Fresh(m) == since[m] < Window - MaxLag

Remembered ==
    /\ Cardinality(zset) <= Limit
    /\ \A m \in Members : since[m] <= age[m] /\ age[m] <= since[m] + MaxLag
    /\ \A m \in Members : Fresh(m) => m \in zset
    /\ \A m \in Recent : since[m] + ttl >= Window

LEMMA KeptBounds ==
    ASSUME TypeOK, Remembered, NEW s \in Slots
    PROVE  /\ Kept(s) \subseteq zset
           /\ \A m \in Members : Fresh(m) => m \in Kept(s)
           /\ \A m \in Kept(s) : since[m] < Oldest
  <1>1. ASSUME NEW m \in Members, Fresh(m)
        PROVE  m \in Kept(s)
    <2>1. /\ age[m] \in Nat /\ since[m] \in Nat /\ lag[s] \in Nat
          /\ Window \in Nat /\ MaxLag \in Nat
      BY LimiterAssumption DEF TypeOK
    <2>2. since[m] < Window - MaxLag /\ m \in zset
      BY <1>1 DEF Remembered, Fresh
    <2>3. age[m] <= since[m] + MaxLag
      BY <2>1, <2>2 DEF Remembered
    <2> QED
      BY <2>1, <2>2, <2>3 DEF Kept
  <1>2. ASSUME NEW m \in Kept(s)
        PROVE  since[m] < Oldest
    <2>1. m \in Members /\ age[m] < lag[s] + Window
      BY DEF Kept, TypeOK
    <2>2. /\ age[m] \in Nat /\ since[m] \in Nat /\ lag[s] \in 0..MaxLag
          /\ Window \in Nat /\ MaxLag \in Nat /\ since[m] <= age[m]
      BY <2>1, LimiterAssumption DEF TypeOK, Remembered, Oldest
    <2> QED
      BY <2>1, <2>2 DEF Oldest
  <1> QED
    BY <1>1, <1>2 DEF Kept

LEMMA FiniteSets ==
    ASSUME TypeOK, NEW T \in SUBSET Members
    PROVE  IsFiniteSet(T) /\ Cardinality(T) \in Nat
  BY LimiterAssumption, FS_Subset, FS_CardinalityType

LEMMA AddRemembered ==
    ASSUME TypeOK, Remembered, NEW s \in Slots, Add(s),
           Cardinality(Kept(s)) < Limit
    PROVE  Remembered'
  <1>1. PICK m \in Members \ (zset \cup Recent) :
           /\ zset' = Kept(s) \cup {m}
           /\ age' = [age EXCEPT ![m] = lag[s]]
           /\ ttl' = Window
           /\ since' = [since EXCEPT ![m] = 0]
    BY DEF Add
  <1>2. Kept(s) \in SUBSET Members
    BY DEF Kept, TypeOK
  <1>3. Cardinality(zset') <= Limit
    <2>1. IsFiniteSet(Kept(s)) /\ Cardinality(Kept(s)) \in Nat
      BY <1>2, FiniteSets
    <2>2. Cardinality(Kept(s) \cup {m}) =
             IF m \in Kept(s) THEN Cardinality(Kept(s)) ELSE Cardinality(Kept(s)) + 1
      BY <2>1, FS_AddElement
    <2>3. m \notin Kept(s)
      BY DEF Kept
    <2>4. Cardinality(zset') = Cardinality(Kept(s)) + 1
      BY <1>1, <2>2, <2>3
    <2> QED
      BY <2>1, <2>4, LimiterAssumption
  <1>4. /\ age'[m] = lag[s] /\ since'[m] = 0
        /\ \A n \in Members \ {m} : age'[n] = age[n] /\ since'[n] = since[n]
    BY <1>1 DEF TypeOK
  <1>5. lag[s] \in 0..MaxLag /\ MaxLag \in Nat /\ Window \in Nat
    BY LimiterAssumption DEF TypeOK
  <1>6. \A n \in Members : since'[n] <= age'[n] /\ age'[n] <= since'[n] + MaxLag
    BY <1>4, <1>5 DEF Remembered
  <1>7. \A n \in Members : Fresh(n)' => n \in zset'
    BY <1>1, <1>4, KeptBounds DEF Fresh
  <1>8. \A n \in Members : since'[n] \in Nat
    BY <1>4, LimiterAssumption DEF TypeOK
  <1>9. \A n \in Recent' : since'[n] + ttl' >= Window
    BY <1>1, <1>5, <1>8 DEF Recent
  <1> QED
    BY <1>3, <1>6, <1>7, <1>9 DEF Remembered

LEMMA TickRemembered ==
    ASSUME TypeOK, Remembered, Tick
    PROVE  Remembered'
  <1>0. /\ Window \in Nat \ {0} /\ MaxLag \in Nat /\ Oldest \in Nat
        /\ Oldest = Window + MaxLag /\ ttl \in 0..Window
    BY LimiterAssumption DEF TypeOK, Oldest
  <1>1. ASSUME NEW m \in Members
        PROVE  /\ age[m] \in 0..Oldest /\ since[m] \in 0..Oldest
               /\ age'[m] = Older(age[m], Oldest)
               /\ since'[m] = Older(since[m], Oldest)
    BY DEF Tick, TypeOK
  <1>2. Cardinality(zset') <= Limit
    BY FS_EmptySet, LimiterAssumption DEF Tick, Remembered
  <1>3. ASSUME NEW m \in Members
        PROVE  since'[m] <= age'[m] /\ age'[m] <= since'[m] + MaxLag
    BY <1>0, <1>1, <1>3 DEF Remembered, Older
  <1>4. ASSUME NEW m \in Recent'
        PROVE  m \in Recent /\ since'[m] = since[m] + 1 /\ since'[m] + ttl' >= Window
    <2>1. m \in Members /\ since'[m] < Window
      BY <1>4 DEF Recent
    <2>2. since[m] < Window /\ since'[m] = since[m] + 1
      BY <1>0, <1>1, <2>1 DEF Older
    <2>3. since[m] + ttl >= Window
      BY <2>1, <2>2 DEF Remembered, Recent
    <2>4. ttl # 0
      BY <1>0, <1>1, <2>1, <2>2, <2>3
    <2>5. ttl' = ttl - 1
      BY <2>4 DEF Tick
    <2> QED
      BY <1>0, <1>1, <2>1, <2>2, <2>3, <2>5 DEF Recent
  <1>5. ASSUME NEW m \in Members, Fresh(m)'
        PROVE  m \in zset'
    <2>1. since'[m] < Window - MaxLag
      BY <1>5 DEF Fresh
    <2>2. m \in Recent'
      BY <1>0, <1>1, <2>1 DEF Recent, Older
    <2>3. since'[m] = since[m] + 1 /\ since'[m] + ttl' >= Window
      BY <1>4, <2>2
    <2>4. m \in zset
      BY <1>0, <1>1, <2>1, <2>3 DEF Remembered, Fresh
    <2>5. since'[m] < Window
      BY <2>2 DEF Recent
    <2>6. ~(ttl <= 1)
      BY <1>0, <1>1, <2>3, <2>5 DEF Tick
    <2> QED
      BY <2>4, <2>6 DEF Tick
  <1> QED
    BY <1>2, <1>3, <1>4, <1>5 DEF Remembered

LEMMA RememberedStep ==
    ASSUME TypeOK, Remembered, [Next]_vars
    PROVE  Remembered'
  <1>1. ASSUME UNCHANGED <<zset, age, ttl, since>>
        PROVE  Remembered'
    BY <1>1 DEF Remembered, Fresh, Recent
  <1>2. ASSUME NEW s \in Slots, Refuse(s)
        PROVE  Remembered'
    <2>1. zset \in SUBSET Members /\ zset' \in SUBSET zset
      BY <1>2, KeptBounds DEF Refuse, TypeOK
    <2>2. Cardinality(zset') <= Limit
      <3>1. IsFiniteSet(zset) /\ Cardinality(zset) \in Nat
        BY <2>1, FiniteSets
      <3>2. Cardinality(zset') <= Cardinality(zset) /\ Cardinality(zset') \in Nat
        BY <2>1, <3>1, FS_Subset, FS_CardinalityType
      <3> QED
        BY <3>1, <3>2, LimiterAssumption DEF Remembered
    <2>3. \A m \in Members : Fresh(m)' => m \in zset'
      BY <1>2, KeptBounds DEF Refuse, Fresh
    <2> QED
      BY <1>2, <2>2, <2>3 DEF Refuse, Remembered, Recent
  <1>3. ASSUME NEW s \in Slots, Answered(s)
        PROVE  Remembered'
    BY <1>1, <1>2, <1>3, AnsweredIsScript, AddRemembered DEF Untouched
  <1>4. ASSUME NEW s \in Slots, Arrive(s)
        PROVE  Remembered'
    BY <1>1, <1>4 DEF Arrive
  <1> QED
    BY <1>1, <1>3, <1>4, TickRemembered DEF Next, vars

LEMMA InitRemembered == Init => TypeOK /\ Remembered
  <1> SUFFICES ASSUME Init PROVE TypeOK /\ Remembered
    OBVIOUS
  <1>0. Window \in Nat \ {0} /\ MaxLag \in Nat /\ Limit \in Nat
    BY LimiterAssumption
  <1>1. TypeOK
    BY <1>0 DEF Init, TypeOK, Oldest, Answers
  <1>2. /\ Recent = {}
        /\ \A m \in Members : ~Fresh(m) /\ since[m] = Oldest /\ age[m] = Oldest
    BY <1>0 DEF Init, Recent, Fresh, Oldest
  <1>3. Cardinality(zset) <= Limit
    BY <1>0, FS_EmptySet DEF Init
  <1> QED
    BY <1>0, <1>1, <1>2, <1>3 DEF Remembered, Oldest

THEOREM Invariant == Spec => [](TypeOK /\ Remembered)
  <1>1. TypeOK /\ Remembered /\ [Next]_vars => (TypeOK /\ Remembered)'
    BY TypeStep, RememberedStep
  <1> QED
    BY <1>1, InitRemembered, PTL DEF Spec

\* Every variable keeps its type.
THEOREM TypeCorrect == Spec => []TypeOK
  BY Invariant, PTL

\* However late and in whatever order the script sees the requests, it counts at
\* most Limit of them in any Window less MaxLag.
THEOREM RateKept == Spec => []RateBounded
  <1>1. TypeOK /\ Remembered => RateBounded
    <2> SUFFICES ASSUME TypeOK, Remembered
                 PROVE  Cardinality({m \in Members : Fresh(m)}) <= Limit
      BY DEF RateBounded, Fresh
    <2>1. /\ zset \in SUBSET Members
          /\ {m \in Members : Fresh(m)} \in SUBSET zset
      BY DEF Remembered, TypeOK
    <2>2. IsFiniteSet(zset) /\ Cardinality(zset) \in Nat
      BY <2>1, FiniteSets
    <2>3. /\ Cardinality({m \in Members : Fresh(m)}) \in Nat
          /\ Cardinality({m \in Members : Fresh(m)}) <= Cardinality(zset)
      BY <2>1, <2>2, FS_Subset, FS_CardinalityType
    <2> QED
      BY <2>2, <2>3, LimiterAssumption DEF Remembered
  <1> QED
    BY <1>1, Invariant, PTL

\* Redis never drops the key while it holds a request still in the window.
THEOREM KeyLives == Spec => []KeyOutlivesRequests
  <1>1. Remembered => KeyOutlivesRequests
    BY DEF Remembered, KeyOutlivesRequests
  <1> QED
    BY <1>1, Invariant, PTL

-----------------------------------------------------------------------------
(***************************************************************************)
(* Refinement.  The script keeps every request it counted in the Window    *)
(* less MaxLag, and only requests it counted in Window and MaxLag.         *)
(***************************************************************************)
LEMMA SameCardinality == \A S : Promised!Cardinality(S) = Cardinality(S)
  BY DEF Promised!Cardinality, Cardinality

LEMMA KeptBetween ==
    ASSUME TypeOK, Remembered, NEW s \in Slots
    PROVE  /\ Cardinality(Promised!Within(Window - MaxLag)) <= Cardinality(Kept(s))
           /\ Cardinality(Kept(s)) <= Cardinality(Promised!Within(Window + MaxLag))
           /\ Cardinality(Kept(s)) \in Nat
           /\ Cardinality(Promised!Within(Window - MaxLag)) \in Nat
           /\ Cardinality(Promised!Within(Window + MaxLag)) \in Nat
  <1>1. /\ Promised!Within(Window - MaxLag) \in SUBSET Kept(s)
        /\ Kept(s) \in SUBSET Promised!Within(Window + MaxLag)
    BY KeptBounds DEF Promised!Within, Fresh, Oldest, Kept, TypeOK
  <1>2. Promised!Within(Window + MaxLag) \in SUBSET Members
    BY DEF Promised!Within
  <1>3. IsFiniteSet(Kept(s)) /\ IsFiniteSet(Promised!Within(Window + MaxLag))
    BY <1>1, <1>2, FiniteSets
  <1> QED
    BY <1>1, <1>3, FS_Subset, FS_CardinalityType

\* Each step of the limiter is a step of the promised one, or none.
LEMMA StepRefines ==
    ASSUME TypeOK, Remembered, [Next]_vars
    PROVE  [Promised!Next]_<<since, last>>
  <1>1. ASSUME NEW s \in Slots, Add(s), Cardinality(Kept(s)) < Limit
        PROVE  \E m \in Members : Promised!Count(m)
    <2>1. Cardinality(Promised!Within(Window - MaxLag)) < Limit
      BY <1>1, KeptBetween, LimiterAssumption
    <2>2. Recent = Promised!Within(Window)
      BY DEF Recent, Promised!Within
    <2> QED
      BY <1>1, <2>1, <2>2, SameCardinality DEF Add, Promised!Count
  <1>2. ASSUME NEW s \in Slots, Admit(s)
        PROVE  Promised!Next
    <2>1. last' = "admitted" /\ \E m \in Members : Promised!Count(m)
      BY <1>1, <1>2 DEF Admit, Answer
    <2> QED
      BY <2>1 DEF Promised!Next, Promised!Admit
  <1>3. ASSUME NEW s \in Slots, Reject(s)
        PROVE  Promised!Next
    <2>1. Cardinality(Promised!Within(Window + MaxLag)) >= Limit
      BY <1>3, KeptBetween, LimiterAssumption DEF Reject
    <2>2. Promised!Reject
      BY <1>3, <2>1, SameCardinality DEF Reject, Answer, Refuse, Promised!Reject
    <2> QED
      BY <2>2 DEF Promised!Next
  <1>4. ASSUME NEW s \in Slots, FailOpen(s)
        PROVE  Promised!Next
    <2>1. last' = "open" /\ (UNCHANGED since \/ \E m \in Members : Promised!Count(m))
      BY <1>1, <1>4 DEF FailOpen, Answer, Refuse
    <2> QED
      BY <2>1 DEF Promised!Next, Promised!FailOpen
  <1>5. CASE Tick
    <2>1. Promised!Tick
      BY <1>5 DEF Tick, Older, Oldest, Promised!Tick, Promised!Oldest
    <2> QED
      BY <2>1 DEF Promised!Next
  <1>6. ASSUME NEW s \in Slots, Arrive(s)
        PROVE  UNCHANGED <<since, last>>
    BY <1>6 DEF Arrive
  <1> QED
    BY <1>2, <1>3, <1>4, <1>5, <1>6 DEF Next, Answered, vars

\* However late and in whatever order its requests reach the script, the limiter
\* implements SlidingWindow to within their delay: removing late, letting keys
\* expire and counting by the client's clock change nothing else a client can
\* tell.
THEOREM KeepsPromise == Spec => Promise
  <1>1. Init => Promised!Init
    BY DEF Init, Promised!Init, Oldest, Promised!Oldest
  <1>2. TypeOK /\ Remembered /\ [Next]_vars => [Promised!Next]_<<since, last>>
    BY StepRefines
  <1> QED
    BY <1>1, <1>2, Invariant, PTL DEF Spec, Promise, Promised!Spec
=============================================================================
