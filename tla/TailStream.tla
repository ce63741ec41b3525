------------------------------ MODULE TailStream ------------------------------
(* The online Chan tail (services/collector/collector/chan_c_stream.py with  *)
(* storage/chan_c_stream_postgres.py and storage/chan_postgres.py), for one  *)
(* symbol and one level, whose K-lines have that level as their timeframe.   *)
(* Stream workers discover stale heads, claim their tail tasks under a lease,*)
(* read the K-lines, compute, and publish by compare-and-swap, while the     *)
(* K-line writers commit new and corrected bars, a full recompute replaces   *)
(* heads, leases expire and workers die.                                     *)
(*                                                                           *)
(* Time is what the code asks of it: a lease is live or expired, a task is   *)
(* due or not, a number of week/month periods is closed.  The content of a   *)
(* bar is the change_version of its last write; what a run computed is the   *)
(* bars it saw (Chan's own algorithm is a function of them).                 *)
EXTENDS PublishedHead, FiniteSets

CONSTANTS
    Workers,      \* chan_c_stream processes
    Period,       \* [Ends -> Nat]: the logical key of a bar (its week, month; itself)
    Higher,       \* TRUE for 1w and 1m, whose open period is not published
    TailBarLimit, \* --tail-bar-limit
    ContextBars,  \* --context-bars
    MaxClaims,    \* bound: claims of one task
    MaxFaults,    \* bound: crashes, exceptions, leases that expire under their holder
    MaxRecomputes \* bound: full recomputes started

ASSUME ModesAssumption == Modes # {}
ASSUME BoundsAssumption == MaxFaults \in Nat /\ MaxRecomputes \in Nat
ASSUME ClaimAssumption == MaxClaims \in Nat
ASSUME LimitAssumption == TailBarLimit \in Nat /\ ContextBars \in Nat
ASSUME PeriodAssumption ==
    /\ Higher \in BOOLEAN
    /\ Period \in [Ends -> Nat]
    /\ \A d, e \in Ends : d <= e => Period[d] <= Period[e]
    /\ ~Higher => Period = [e \in Ends |-> e]

VARIABLES
    task,    \* scheme2_chan_c_tail_tasks, one row per mode
    closed,  \* the last period (week, month) that is over
    run,     \* the last run id inserted in chan_c_runs
    pc,      \* where each worker is in run_once
    rows,    \* the candidate rows, then the claimed rows, a worker holds
    todo,    \* the modes of its batch a worker still has to handle
    bars,    \* the K-lines a worker has read
    plan,    \* the publication a worker has verified: mode, endpoint, prefix
    err,     \* the class of the exception a worker is reporting
    recompute, \* the full recompute of the level, when one runs
    faults   \* faults injected so far

db == <<klines, ingest, head, task, closed, run>>
worker == <<pc, rows, todo, bars, plan, err>>
vars == <<db, worker, recompute, faults>>

NoBars == [e \in Ends |-> 0]
NoRow == [token |-> 0, anchor |-> 0, target |-> 0, version |-> 0, expRun |-> 0, expTo |-> 0]
NoRows == [m \in Modes |-> NoRow]
NoTask == [status |-> "none", leases |-> 0, token |-> 0, live |-> FALSE, due |-> FALSE,
           anchor |-> 0, target |-> 0, version |-> 0,
           claimedTarget |-> 0, claimedVersion |-> 0, expRun |-> 0, expTo |-> 0]
NoPlan == [mode |-> CHOOSE m \in Modes : TRUE, to |-> 0, prefix |-> NoBars]
Idle == [step |-> "idle", left |-> MaxRecomputes, expRun |-> [m \in Modes |-> 0], target |-> 0, read |-> NoBars]

Errors == {"none", "stale", "refused", "other"}

Max0(S) == IF S = {} THEN 0 ELSE CHOOSE x \in S : \A y \in S : y <= x
P(e) == IF e \in Ends THEN Period[e] ELSE 0

Present(b) == {e \in Ends : b[e] # 0}

\* The end the stream should reach: the last bar, or the last of a closed period.
TargetEnd ==
    IF Higher THEN Max0({e \in Present(klines) : Period[e] <= closed}) ELSE ingest.last

\* Mutant: only new bars make a head stale, not corrected ones.
StaleEndOnly(m) == TargetEnd # 0 /\ P(TargetEnd) > P(head[m].to)

\* ensure_tail_tasks_for_stale_heads: the published heads that are behind.
Stale(m) ==
    /\ TargetEnd # 0
    /\ \/ P(TargetEnd) > P(head[m].to)
       \/ P(TargetEnd) = P(head[m].to) /\ ingest.version > head[m].consumed

CandidateRow(m) ==
    [token |-> 0, anchor |-> head[m].anchor, target |-> TargetEnd, version |-> ingest.version,
     expRun |-> head[m].run, expTo |-> head[m].to]

\* Mutant: a corrected bar is no reason to claim a task.
ClaimableEndOnly(m) ==
    /\ \/ task[m].status \in {"pending", "failed", "success"}
       \/ task[m].status = "running" /\ ~task[m].live
    /\ P(task[m].target) > P(head[m].to)
    /\ task[m].due
    /\ task[m].leases < MaxClaims

\* claim_tail_tasks: what the claim statement selects.
Claimable(m) ==
    /\ \/ task[m].status \in {"pending", "failed", "success"}
       \/ task[m].status = "running" /\ ~task[m].live
    /\ \/ P(task[m].target) > P(head[m].to)
       \/ (Higher \/ task[m].target = head[m].to) /\ ingest.version > head[m].consumed
    /\ task[m].due
    /\ task[m].leases < MaxClaims

\* The rows get_bars_chunk returns: at most TailBarLimit rows after the context.
Window(after) ==
    {e \in Ends : /\ e > after
                  /\ klines[e] # 0
                  /\ Cardinality({d \in Ends : d > after /\ d <= e /\ klines[d] # 0})
                        <= TailBarLimit}

Batch(w) == {m \in Modes : rows[w][m].token # 0}

Init ==
    /\ HeadInit
    /\ task = [m \in Modes |-> NoTask]
    /\ closed = 0
    /\ run = 1
    /\ pc = [w \in Workers |-> "idle"]
    /\ rows = [w \in Workers |-> NoRows]
    /\ todo = [w \in Workers |-> {}]
    /\ bars = [w \in Workers |-> NoBars]
    /\ plan = [w \in Workers |-> NoPlan]
    /\ err = [w \in Workers |-> "none"]
    /\ recompute = Idle
    /\ faults = 0

-----------------------------------------------------------------------------
(* The environment: K-line writers, the calendar, the clock.                 *)

\* _upsert_bars_rows and _upsert_ingest_watermarks: one canonical transaction.
WriteBars(S) ==
    /\ CommitBars(S)
    /\ UNCHANGED <<task, closed, run, worker, recompute, faults>>

\* A week or month ends: closed_period_cutoffs_utc moves past its bars.
ClosePeriod ==
    /\ Higher
    /\ closed < Period[MaxEnd]
    /\ closed' = closed + 1
    /\ UNCHANGED <<klines, ingest, head, task, run, worker, recompute, faults>>

Held(m) == \E w \in Workers : rows[w][m].token # 0 /\ rows[w][m].token = task[m].token

\* lease_until passes; under a worker that is still at it this is a fault.
Expire(m) ==
    /\ task[m].status = "running" /\ task[m].live
    /\ task' = [task EXCEPT ![m].live = FALSE]
    /\ IF Held(m) THEN faults < MaxFaults /\ faults' = faults + 1 ELSE faults' = faults
    /\ UNCHANGED <<klines, ingest, head, closed, run, worker, recompute>>

\* next_run_at and backoff_until pass.
BecomeDue(m) ==
    /\ task[m].status # "none" /\ ~task[m].due
    /\ task' = [task EXCEPT ![m].due = TRUE]
    /\ UNCHANGED <<klines, ingest, head, closed, run, worker, recompute, faults>>

-----------------------------------------------------------------------------
(* One pass of a worker (run_once).                                          *)

NewPeriod(m) == P(TargetEnd) > P(head[m].to)

(* normalize_higher_timeframe_targets: the tasks of 1w and 1m that no live   *)
(* lease protects are set back to the closed period, and to success when the *)
(* head has reached it.                                                      *)
Normalized(m) ==
    /\ task[m].status # "none"
    /\ ~(task[m].status = "running" /\ task[m].live)
    /\ \/ task[m].status = "running"
       \/ task[m].target # TargetEnd
       \/ NewPeriod(m) # (task[m].status # "success")

Normalize(w) ==
    /\ pc[w] = "idle"
    /\ pc' = [pc EXCEPT ![w] = "discover"]
    /\ task' = [m \in Modes |->
          IF Higher /\ Normalized(m)
          THEN [task[m] EXCEPT !.target = TargetEnd,
                               !.status = IF NewPeriod(m) THEN "pending" ELSE "success",
                               !.due = NewPeriod(m),
                               !.token = 0, !.live = FALSE, !.claimedTarget = 0]
          ELSE task[m]]
    /\ UNCHANGED <<klines, ingest, head, closed, run, rows, todo, bars, plan, err,
                   recompute, faults>>

\* ensure_tail_tasks_for_stale_heads, its snapshot: heads and watermark are read.
Discover(w) ==
    /\ pc[w] = "discover"
    /\ rows' = [rows EXCEPT ![w] = [m \in Modes |-> IF Stale(m) THEN CandidateRow(m) ELSE NoRow]]
    /\ pc' = [pc EXCEPT ![w] = "ensure"]
    /\ UNCHANGED <<db, todo, bars, plan, err, recompute, faults>>

\* Mutant: the upsert takes a running task back although its lease is live.
UpsertedAlways(m, row) ==
    [task[m] EXCEPT
        !.status = "pending", !.due = TRUE, !.anchor = row.anchor,
        !.target = Max0({task[m].target, row.target}),
        !.version = Max0({task[m].version, row.version}),
        !.expRun = row.expRun, !.expTo = row.expTo]

(* ensure_tail_tasks_for_stale_heads, its upsert: the task rows may have been*)
(* locked by a publication meanwhile, so the rows are older than the tasks.  *)
Upserted(m, row) ==
    [task[m] EXCEPT
        !.status = IF task[m].status = "running" /\ task[m].live THEN "running" ELSE "pending",
        !.due = TRUE,
        !.anchor = row.anchor,
        !.target = Max0({task[m].target, row.target}),
        !.version = Max0({task[m].version, row.version}),
        !.expRun = row.expRun,
        !.expTo = row.expTo]

Ensure(w) ==
    /\ pc[w] = "ensure"
    /\ task' = [m \in Modes |-> IF rows[w][m].target # 0 THEN Upserted(m, rows[w][m]) ELSE task[m]]
    /\ rows' = [rows EXCEPT ![w] = NoRows]
    /\ pc' = [pc EXCEPT ![w] = "claim"]
    /\ UNCHANGED <<klines, ingest, head, closed, run, todo, bars, plan, err, recompute, faults>>

\* Mutant: a claim does not take a new lease_version.
ClaimedSameLease(m) ==
    [task[m] EXCEPT !.status = "running", !.token = task[m].leases + 1,
                    !.live = TRUE,
                    !.version = Max0({task[m].version, ingest.version}),
                    !.claimedTarget = task[m].target,
                    !.claimedVersion = ingest.version,
                    !.expRun = head[m].run, !.expTo = head[m].to]

\* claim_tail_tasks: the lease freezes the target and the input version.
Claimed(m) ==
    [task[m] EXCEPT !.status = "running", !.leases = @ + 1, !.token = task[m].leases + 1,
                    !.live = TRUE,
                    !.version = Max0({task[m].version, ingest.version}),
                    !.claimedTarget = task[m].target,
                    !.claimedVersion = ingest.version,
                    !.expRun = head[m].run, !.expTo = head[m].to]

ClaimedRow(m) ==
    [token |-> task[m].leases + 1, anchor |-> task[m].anchor, target |-> task[m].target,
     version |-> ingest.version, expRun |-> head[m].run, expTo |-> head[m].to]

Claim(w) ==
    /\ pc[w] = "claim"
    /\ \E S \in SUBSET {m \in Modes : Claimable(m)} :
          /\ S # {}
          /\ task' = [m \in Modes |-> IF m \in S THEN Claimed(m) ELSE task[m]]
          /\ rows' = [rows EXCEPT ![w] = [m \in Modes |-> IF m \in S THEN ClaimedRow(m) ELSE NoRow]]
          /\ todo' = [todo EXCEPT ![w] = S]
    /\ pc' = [pc EXCEPT ![w] = "read"]
    /\ UNCHANGED <<klines, ingest, head, closed, run, bars, plan, err, recompute, faults>>

Release(w) ==
    /\ rows' = [rows EXCEPT ![w] = NoRows]
    /\ todo' = [todo EXCEPT ![w] = {}]
    /\ bars' = [bars EXCEPT ![w] = NoBars]
    /\ plan' = [plan EXCEPT ![w] = NoPlan]
    /\ err' = [err EXCEPT ![w] = "none"]

NothingToClaim(w) ==
    /\ pc[w] = "claim"
    /\ \A m \in Modes : ~Claimable(m)
    /\ pc' = [pc EXCEPT ![w] = "idle"]
    /\ UNCHANGED <<db, rows, todo, bars, plan, err, recompute, faults>>

\* An exception in process_symbol_tail: every job of the batch will be reported.
Raise(w, class) ==
    /\ pc' = [pc EXCEPT ![w] = "failing"]
    /\ todo' = [todo EXCEPT ![w] = Batch(w)]
    /\ err' = [err EXCEPT ![w] = class]

(* get_bars_chunk after the oldest anchor and its context, at most the limit;*)
(* the bars must reach the period of the furthest target of the batch.       *)
ReadBars(w) ==
    /\ pc[w] = "read"
    /\ \E oldest \in {rows[w][m].anchor : m \in Batch(w)} :
          /\ \A m \in Batch(w) : oldest <= rows[w][m].anchor
          /\ LET read == Window(oldest - ContextBars)
             IN IF read # {} /\ \A m \in Batch(w) : P(rows[w][m].target) <= P(Max0(read))
                THEN /\ bars' = [bars EXCEPT ![w] =
                           [e \in Ends |-> IF e \in read THEN klines[e] ELSE 0]]
                     /\ pc' = [pc EXCEPT ![w] = "compute"]
                     /\ UNCHANGED <<todo, err>>
                ELSE Raise(w, "other") /\ UNCHANGED bars
    /\ UNCHANGED <<db, rows, plan, recompute, faults>>

\* bars_through_claimed_period: the last bar read of the claimed period, if any.
PublicationEnd(w, m) ==
    LET end == Max0({e \in Present(bars[w]) : Period[e] <= P(rows[w][m].target)})
    IN IF P(end) = P(rows[w][m].target) THEN end ELSE 0

(* replace_incremental_analysis before its transaction: the head and the     *)
(* watermark are read and compared with the claim, and the prefix is copied  *)
(* from the run the head names.                                              *)
CheckHead(w, m) ==
    LET to == PublicationEnd(w, m)
        class == IF to = 0 THEN "other"
                 ELSE IF head[m].run # rows[w][m].expRun \/ head[m].to # rows[w][m].expTo
                         \/ ingest.version # rows[w][m].version THEN "stale"
                 ELSE IF to < head[m].to
                         \/ (to = head[m].to /\ rows[w][m].version <= head[m].consumed)
                      THEN "refused"
                 ELSE "none"
    IN /\ pc[w] = "compute" /\ m \in todo[w]
       /\ IF class = "none"
          THEN /\ plan' = [plan EXCEPT ![w] = [mode |-> m, to |-> to, prefix |-> head[m].input]]
               /\ pc' = [pc EXCEPT ![w] = "publish"]
               /\ UNCHANGED <<todo, err>>
          ELSE Raise(w, class) /\ UNCHANGED plan
       /\ UNCHANGED <<db, rows, bars, recompute, faults>>

\* _lock_tail_publication_task: the task is still the one that was claimed.
Fenced(w, m) ==
    /\ task[m].status = "running"
    /\ task[m].token = rows[w][m].token
    /\ task[m].live
    /\ task[m].anchor = rows[w][m].anchor
    /\ task[m].claimedTarget = rows[w][m].target
    /\ task[m].claimedVersion = rows[w][m].version
    /\ task[m].target >= rows[w][m].target
    /\ task[m].expRun = rows[w][m].expRun
    /\ task[m].expTo = rows[w][m].expTo

\* Mutant: the UPDATE does not compare the watermark's change_version.
HeadCasAnyInput(m, expRun, to, version) ==
    /\ head[m].run = expRun
    /\ Newer(head[m], to, version)

\* _publish_heads_cas: the condition of its UPDATE.
HeadCas(m, expRun, to, version) ==
    /\ head[m].run = expRun
    /\ ingest.version = version
    /\ Newer(head[m], to, version)

\* _complete_tail_publication_task
Completed(m, to) ==
    LET again == P(task[m].target) > P(to) \/ task[m].version > task[m].claimedVersion
    IN [task[m] EXCEPT !.status = IF again THEN "pending" ELSE "success",
                       !.due = again,
                       !.token = 0, !.live = FALSE, !.claimedTarget = 0, !.claimedVersion = 0]

\* The transaction of replace_incremental_analysis.
Publish(w) ==
    LET m == plan[w].mode
        row == rows[w][m]
        to == plan[w].to
    IN /\ pc[w] = "publish"
       /\ Fenced(w, m)
       /\ HeadCas(m, row.expRun, to, row.version)
       /\ run < MaxRun
       /\ run' = run + 1
       /\ \E anchor \in row.anchor .. to :
             head' = [head EXCEPT ![m] =
                [run |-> run + 1, to |-> to, consumed |-> row.version, anchor |-> anchor,
                 from |-> row.anchor, online |-> TRUE, config |-> TailConfig,
                 input |-> Combine(plan[w].prefix, row.anchor, bars[w], to)]]
       /\ task' = [task EXCEPT ![m] = Completed(m, to)]
       /\ pc' = [pc EXCEPT ![w] = "announce"]
       /\ plan' = [plan EXCEPT ![w] = NoPlan]
       /\ todo' = [todo EXCEPT ![w] = @ \ {m}]
       /\ UNCHANGED <<klines, ingest, closed, rows, bars, err, recompute, faults>>

\* The transaction rolls back: the lease fence, or the compare-and-swap, failed.
PublishRejected(w) ==
    LET m == plan[w].mode
    IN /\ pc[w] = "publish"
       /\ ~(Fenced(w, m) /\ HeadCas(m, rows[w][m].expRun, plan[w].to, rows[w][m].version))
       /\ Raise(w, IF Fenced(w, m) THEN "stale" ELSE "other")
       /\ plan' = [plan EXCEPT ![w] = NoPlan]
       /\ UNCHANGED <<db, rows, bars, recompute, faults>>

\* publish_chan_head_update succeeds; the next job, or the end of the pass.
Announce(w) ==
    /\ pc[w] = "announce"
    /\ IF todo[w] = {}
       THEN Release(w) /\ pc' = [pc EXCEPT ![w] = "idle"]
       ELSE pc' = [pc EXCEPT ![w] = "compute"] /\ UNCHANGED <<rows, todo, bars, plan, err>>
    /\ UNCHANGED <<db, recompute, faults>>

(* The computation, a database call or the last of the Redis attempts raises;*)
(* after a commit this reports the batch although its head is published.     *)
Fault(w) ==
    /\ pc[w] \in {"read", "compute", "publish", "announce"}
    /\ faults < MaxFaults /\ faults' = faults + 1
    /\ Raise(w, "other")
    /\ plan' = [plan EXCEPT ![w] = NoPlan]
    /\ UNCHANGED <<db, rows, bars, recompute>>

\* Mutant: an aborted compare-and-swap counts as done, like one that is refused.
ReportedStaleDone(m, class) ==
    [task[m] EXCEPT !.status = IF class \in {"refused", "stale"} THEN "success" ELSE "failed",
                    !.due = FALSE,
                    !.token = 0, !.live = FALSE, !.claimedTarget = 0, !.claimedVersion = 0]

\* Mutant: the class of the exception is stored as the status.
ReportedClass(m, class) ==
    [task[m] EXCEPT !.status = class, !.due = FALSE,
                    !.token = 0, !.live = FALSE, !.claimedTarget = 0, !.claimedVersion = 0]

\* What complete_tail_task makes of a task whose job raised an exception of `class`.
Reported(m, class) ==
    [task[m] EXCEPT !.status = CASE class = "refused" -> "success"
                                 [] class = "stale" -> "pending"
                                 [] OTHER -> "failed",
                    !.due = (class = "stale"),
                    !.token = 0, !.live = FALSE, !.claimedTarget = 0, !.claimedVersion = 0]

(* complete_tail_task with an error: only the claim token is compared, so it *)
(* does nothing for a job already published or claimed by another worker.    *)
ReportError(w, m) ==
    /\ pc[w] = "failing" /\ m \in todo[w]
    /\ IF task[m].status = "running" /\ task[m].token = rows[w][m].token
       THEN task' = [task EXCEPT ![m] = Reported(m, err[w])]
       ELSE UNCHANGED task
    /\ IF todo[w] = {m}
       THEN Release(w) /\ pc' = [pc EXCEPT ![w] = "idle"]
       ELSE todo' = [todo EXCEPT ![w] = @ \ {m}] /\ UNCHANGED <<pc, rows, bars, plan, err>>
    /\ UNCHANGED <<klines, ingest, head, closed, run, recompute, faults>>

\* The worker process dies and is started again; its claims stay in the table.
Crash(w) ==
    /\ pc[w] # "idle"
    /\ faults < MaxFaults /\ faults' = faults + 1
    /\ pc' = [pc EXCEPT ![w] = "idle"]
    /\ Release(w)
    /\ UNCHANGED <<db, recompute>>

-----------------------------------------------------------------------------
(* A full recompute of the level, as far as the published heads see it.      *)

\* ensure_recompute_batch_on_connection freezes the target and the heads.
PlanRecompute ==
    /\ recompute.step = "idle" /\ recompute.left > 0
    /\ recompute' = [recompute EXCEPT !.step = "read", !.left = @ - 1, !.target = ingest.last,
                                      !.expRun = [m \in Modes |-> head[m].run]]
    /\ UNCHANGED <<db, worker, faults>>

\* process_claimed_task reads every bar up to the frozen target.
ReadRecompute ==
    /\ recompute.step = "read"
    /\ recompute' = [recompute EXCEPT !.step = "publish",
          !.read = [e \in Ends |-> IF e <= recompute.target THEN klines[e] ELSE 0]]
    /\ UNCHANGED <<db, worker, faults>>

Replaces(m) ==
    \/ head[m].to < recompute.target
    \/ head[m].to = recompute.target /\ head[m].config # BaseConfig

\* The heads after the recompute; one run id for the modes that advance.
RecomputedHead(m, anchor, consumed) ==
    IF Replaces(m)
    THEN [run |-> run + 1, to |-> recompute.target, consumed |-> consumed,
          anchor |-> anchor, from |-> 0, online |-> FALSE, config |-> BaseConfig,
          input |-> recompute.read]
    ELSE head[m]

(* replace_analysis and _upsert_published_heads: all modes or none are       *)
(* compared with the frozen heads; a mode that would not advance is kept.    *)
PublishRecompute ==
    /\ recompute.step = "publish"
    /\ run < MaxRun
    /\ \A m \in Modes : head[m].run = recompute.expRun[m]
    /\ run' = run + 1
    /\ \E anchor \in 1 .. recompute.target :
          head' = [m \in Modes |-> RecomputedHead(m, anchor, head[m].consumed)]
    /\ recompute' = [Idle EXCEPT !.left = recompute.left]
    /\ UNCHANGED <<klines, ingest, task, closed, worker, faults>>

\* The recompute gives up: a head moved under it, or its process failed.
AbandonRecompute ==
    /\ recompute.step # "idle"
    /\ recompute' = [Idle EXCEPT !.left = recompute.left]
    /\ UNCHANGED <<db, worker, faults>>

-----------------------------------------------------------------------------
WorkerStep(w) ==
    \/ Normalize(w) \/ Discover(w) \/ Ensure(w) \/ Claim(w) \/ NothingToClaim(w)
    \/ ReadBars(w) \/ \E m \in Modes : CheckHead(w, m)
    \/ Publish(w) \/ PublishRejected(w) \/ Announce(w)
    \/ \E m \in Modes : ReportError(w, m)

Next ==
    \/ \E S \in SUBSET Ends : S # {} /\ WriteBars(S)
    \/ ClosePeriod
    \/ \E m \in Modes : Expire(m) \/ BecomeDue(m)
    \/ \E w \in Workers : WorkerStep(w) \/ Fault(w) \/ Crash(w)
    \/ PlanRecompute \/ ReadRecompute \/ PublishRecompute \/ AbandonRecompute

Spec == Init /\ [][Next]_vars

(* The workers are polled for ever and the clock runs; writes, faults and    *)
(* recomputes need not happen.  A lease is waited for only when its holder   *)
(* is gone.                                                                  *)
Fairness ==
    /\ \A w \in Workers : WF_vars(WorkerStep(w))
    /\ \A m \in Modes : WF_vars(BecomeDue(m)) /\ WF_vars(Expire(m) /\ ~Held(m))

FairSpec == Spec /\ Fairness

-----------------------------------------------------------------------------
Row == [token : 0 .. MaxClaims, anchor : 0 .. MaxEnd, target : 0 .. MaxEnd,
        version : Versions, expRun : 0 .. MaxRun, expTo : 0 .. MaxEnd]
TaskRow == [status : {"none", "pending", "running", "success", "failed"},
            leases : 0 .. MaxClaims, token : 0 .. MaxClaims,
            live : BOOLEAN, due : BOOLEAN,
            anchor : 0 .. MaxEnd, target : 0 .. MaxEnd, version : Versions,
            claimedTarget : 0 .. MaxEnd, claimedVersion : Versions,
            expRun : 0 .. MaxRun, expTo : 0 .. MaxEnd]

TypeOK ==
    /\ HeadTypeOK
    /\ task \in [Modes -> TaskRow]
    /\ closed \in Nat
    /\ run \in Runs
    /\ pc \in [Workers -> {"idle", "discover", "ensure", "claim", "read", "compute",
                           "publish", "announce", "failing"}]
    /\ rows \in [Workers -> [Modes -> Row]]
    /\ todo \in [Workers -> SUBSET Modes]
    /\ bars \in [Workers -> Input]
    /\ plan \in [Workers -> [mode : Modes, to : 0 .. MaxEnd, prefix : Input]]
    /\ err \in [Workers -> Errors]
    /\ recompute \in [step : {"idle", "read", "publish"}, left : 0 .. MaxRecomputes,
                      expRun : [Modes -> 0 .. MaxRun], target : 0 .. MaxEnd, read : Input]
    /\ faults \in 0 .. MaxFaults

\* The stream implements the one-step publication of PublishedHead.
Implements == HeadSpec

(* A task is claimed by one worker at a time: of all the workers that hold a *)
(* claim on a mode only one has the token the task row carries, and the row  *)
(* of a running task carries a token and the version it was claimed at.      *)
OneClaimant ==
    \A m \in Modes :
        /\ \A v, w \in Workers :
              (rows[v][m].token # 0 /\ rows[v][m].token = rows[w][m].token) => v = w
        /\ task[m].status = "running" => task[m].token # 0

(* While a lease is live nobody but its holder ends or changes the claim.    *)
LiveLeaseKept ==
    [][\A m \in Modes, w \in Workers :
         (/\ task[m].live /\ rows[w][m].token = task[m].token
          /\ UNCHANGED <<pc[w], rows[w], todo[w]>>)
             => /\ task'[m].token = task[m].token
                /\ task'[m].claimedTarget = task[m].claimedTarget
                /\ task'[m].claimedVersion = task[m].claimedVersion]_vars

(* A task is only left in success when the head holds all the work the task  *)
(* knew of: nothing that was asked for while it ran is forgotten.  (1w and 1m*)
(* tasks may be closed by the normalization before an input is consumed.)    *)
SuccessIsDone ==
    Higher \/ \A m \in Modes : task[m].status = "success" =>
        task[m].target <= head[m].to /\ task[m].version <= head[m].consumed

\* The head shows the end the scope should show, from its last version.
AtRest(m) ==
    /\ P(TargetEnd) <= P(head[m].to)
    /\ P(TargetEnd) = P(head[m].to) => head[m].consumed = ingest.version

(* When the writers pause, every head comes to rest at the end and version   *)
(* of the K-lines, whatever crashed, expired or failed before.               *)
CatchesUp == \A m \in Modes : <>[]AtRest(m)
=============================================================================
