----------------------------- MODULE MCPunchSync -----------------------------
(* PunchSync for TLC: the values its configurations share. *)
EXTENDS PunchSync, TLC

CONSTANTS e1, e2, p1, p2, j1, j2, j3, s1, s2

\* Two punches of one employee; a single punch.
OneEmployee  == p1 :> e1 @@ p2 :> e1
SinglePunch  == p1 :> e1

\* ARQ's ctx holds its Redis connection and the job's own data, and no "pool".
ArqCtx == {"redis", "job_id", "job_try", "enqueue_time", "score"}
\* What retry_failed_punches expects of it.
CtxWithPool == ArqCtx \union {"pool"}

JobSymmetry == Permutations(Jobs)
==============================================================================
