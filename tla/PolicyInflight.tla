--------------------------- MODULE PolicyInflight --------------------------
(***************************************************************************)
(* Notebook 02, section 6: inflight_requests_policy, the default policy as *)
(* the course prints it.  It answers a fraction of replicas, which Serve   *)
(* rounds up; its rounding errors only reach a count beyond max_replicas.  *)
(***************************************************************************)
EXTENDS Integers

TARGET_ONGOING_REQUESTS == 2

\* Serve's math.ceil of a quotient.
RoundedUp(n, d) == (n + d - 1) \div d

\* Mutant of InflightRequests: the ratio is not scaled by what runs.
InflightRatio(ctx) ==
    IF ctx.current = 0 THEN ctx.target
    ELSE RoundedUp(ctx.total, TARGET_ONGOING_REQUESTS * ctx.current)

\* The replicas that would each have the target number of requests; none up
\* means the target is held.
InflightRequests(ctx) ==
    IF ctx.current = 0 THEN ctx.target
    ELSE RoundedUp(ctx.current * ctx.total, TARGET_ONGOING_REQUESTS * ctx.current)
=============================================================================
