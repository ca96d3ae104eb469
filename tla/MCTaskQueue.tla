----------------------------- MODULE MCTaskQueue -----------------------------
(* A batch and a nightly task; one of the two workers serves its queue only. *)
EXTENDS TaskQueue, TLC

CONSTANTS t1, t2, w1, w2

MCKind == t1 :> generate_tailored_resumes @@ t2 :> cleanup_expired_jobs
MCConsumes == w1 :> {"celery", "ai-heavy"} @@ w2 :> {"ai-heavy"}
=============================================================================
