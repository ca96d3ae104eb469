------------------------------ MODULE RateLimit ------------------------------
(***************************************************************************)
(* The Redis sliding-window rate limiter of app/core/rate_limit.py, for    *)
(* one key: rate_limit(), its Lua script on the key's sorted set, and the  *)
(* expiry of the key.                                                      *)
(*                                                                         *)
(* rate_limit() reads the clock, then awaits the script's evaluation, so   *)
(* the script sees the times of the requests late and in any order.  Only  *)
(* differences of times are ever compared; the model keeps ages, which     *)
(* saturate where nothing depends on them any more.                        *)
(***************************************************************************)
EXTENDS Integers, FiniteSets

CONSTANTS
    Slots,     \* requests of this key that may be in flight
    Members,   \* members of the sorted set: `now:uuid`, reused when forgotten
    Limit,     \* limit_per_min
    Window,    \* 60_000 ms, in ticks of the model
    MaxLag     \* the longest wait between reading the clock and the script

ASSUME LimiterAssumption ==
    /\ IsFiniteSet(Members)
    /\ Limit \in Nat \ {0}
    /\ Window \in Nat \ {0}
    /\ MaxLag \in Nat

VARIABLES
    waiting,   \* the slots that await the script
    lag,       \* per slot, the ticks since it read `now`
    zset,      \* the members of the key's sorted set
    age,       \* per member, the ticks since the time that is its score
    ttl,       \* ticks until the key expires; 0 if it does not exist
    since,     \* history: per member, ticks since the script added it
    last       \* how the last request was answered

vars == <<waiting, lag, zset, age, ttl, since, last>>

Answers == {"none", "admitted", "rejected", "open"}
Oldest == Window + MaxLag

TypeOK ==
    /\ waiting \subseteq Slots
    /\ lag \in [Slots -> 0..MaxLag]
    /\ zset \subseteq Members
    /\ age \in [Members -> 0..Oldest]
    /\ ttl \in 0..Window
    /\ since \in [Members -> 0..Oldest]
    /\ last \in Answers

Init ==
    /\ waiting = {}
    /\ lag = [s \in Slots |-> 0]
    /\ zset = {}
    /\ age = [m \in Members |-> Oldest]
    /\ ttl = 0
    /\ since = [m \in Members |-> Oldest]
    /\ last = "none"

Recent == {m \in Members : since[m] < Window}
Older(n, bound) == IF n < bound THEN n + 1 ELSE bound

-----------------------------------------------------------------------------
\* Faulty variants of the definitions below, for mutation tests.
KeptTooFew(s) == {m \in zset : age[m] + 1 < lag[s] + Window}
KeptTooMany(s) == {m \in zset : age[m] <= lag[s] + Window}
AddWithoutExpire(s) ==
    \E m \in Members \ (zset \cup Recent) :
        /\ zset' = {n \in zset : age[n] < lag[s] + Window} \cup {m}
        /\ age' = [age EXCEPT ![m] = lag[s]]
        /\ ttl' = IF ttl = 0 THEN Window ELSE ttl
        /\ since' = [since EXCEPT ![m] = 0]
AddForSeconds(s) ==
    \E m \in Members \ (zset \cup Recent) :
        /\ zset' = {n \in zset : age[n] < lag[s] + Window} \cup {m}
        /\ age' = [age EXCEPT ![m] = lag[s]]
        /\ ttl' = 1000 * Window
        /\ since' = [since EXCEPT ![m] = 0]
RefuseAndRecord(s) ==
    \E m \in zset :
        /\ zset' = {n \in zset : age[n] < lag[s] + Window} \cup {m}
        /\ age' = [age EXCEPT ![m] = lag[s]]
        /\ ttl' = Window
        /\ UNCHANGED since

-----------------------------------------------------------------------------
\* rate_limit() reads the clock and sends the script.
Arrive(s) ==
    /\ s \notin waiting
    /\ waiting' = waiting \cup {s}
    /\ lag' = [lag EXCEPT ![s] = 0]
    /\ UNCHANGED <<zset, age, ttl, since, last>>

\* The request is answered.
Answer(s, answer) ==
    /\ s \in waiting
    /\ waiting' = waiting \ {s}
    /\ last' = answer
    /\ UNCHANGED lag

(***************************************************************************)
(* The script, which Redis runs atomically.                                *)
(***************************************************************************)
\* ZREMRANGEBYSCORE key 0 (now - window)
Kept(s) == {m \in zset : age[m] < lag[s] + Window}

\* ZADD and PEXPIRE.
Add(s) ==
    \E m \in Members \ (zset \cup Recent) :
        /\ zset' = Kept(s) \cup {m}
        /\ age' = [age EXCEPT ![m] = lag[s]]
        /\ ttl' = Window
        /\ since' = [since EXCEPT ![m] = 0]

Refuse(s) ==
    /\ zset' = Kept(s)
    /\ UNCHANGED <<age, ttl, since>>

Admit(s) ==
    /\ Answer(s, "admitted")
    /\ Cardinality(Kept(s)) < Limit
    /\ Add(s)

Reject(s) ==
    /\ Answer(s, "rejected")
    /\ Cardinality(Kept(s)) >= Limit
    /\ Refuse(s)

\* Any exception lets the request through: the script did not run, or it did
\* and its result was lost.
FailOpen(s) ==
    /\ Answer(s, "open")
    /\ \/ UNCHANGED <<zset, age, ttl, since>>
       \/ Cardinality(Kept(s)) < Limit /\ Add(s)
       \/ Cardinality(Kept(s)) >= Limit /\ Refuse(s)

\* Time passes; a key whose time is up is gone.  MaxLag bounds what a request
\* may wait.
Tick ==
    /\ \A s \in waiting : lag[s] < MaxLag
    /\ lag' = [s \in Slots |-> IF s \in waiting THEN lag[s] + 1 ELSE lag[s]]
    /\ age' = [m \in Members |-> Older(age[m], Oldest)]
    /\ since' = [m \in Members |-> Older(since[m], Oldest)]
    /\ ttl' = IF ttl = 0 THEN 0 ELSE ttl - 1
    /\ zset' = IF ttl <= 1 THEN {} ELSE zset
    /\ UNCHANGED <<waiting, last>>

Answered(s) == Admit(s) \/ Reject(s) \/ FailOpen(s)

Next == Tick \/ \E s \in Slots : Arrive(s) \/ Answered(s)

Spec == Init /\ [][Next]_vars

\* Redis answers or fails, and the clock advances; clients do as they like.
Fairness == WF_vars(Tick) /\ \A s \in Slots : WF_vars(Answered(s))

FairSpec == Spec /\ Fairness

-----------------------------------------------------------------------------
\* Of the requests the script counted, at most Limit fall in any period of
\* Window less MaxLag: a request that is late by MaxLag makes the window that
\* much shorter, and no reordering makes it shorter still.
RateBounded ==
    Cardinality({m \in Members : since[m] < Window - MaxLag}) <= Limit

\* The key never expires under a request that is still in the window.
KeyOutlivesRequests == \A m \in Recent : since[m] + ttl >= Window

\* A client that keeps sending is let through again and again: its rejected
\* requests do not extend its own window.
NotStarved == []<>(waiting # {}) => []<>(last # "rejected")

\* The limiter is the promised one to within the delay of its requests: it
\* admits no more than Limit in a Window less MaxLag, and rejects only after
\* Limit in a Window and MaxLag.
Promised == INSTANCE SlidingWindow WITH Lag <- MaxLag
Promise == Promised!Spec
=============================================================================
