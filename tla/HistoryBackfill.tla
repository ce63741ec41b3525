---------------------------- MODULE HistoryBackfill ----------------------------
(* The historical K-line backfill: services/collector/collector/             *)
(* history_backfill.py with storage/backfill_postgres.py and                 *)
(* commit_history_backfill_page of storage/postgres.py.  Worker processes    *)
(* claim tasks (a symbol at one timeframe) in batches, page through the      *)
(* provider from its newest bar to older ones, write each page and its       *)
(* checkpoint in one fenced transaction, and yield or finish the task.       *)
(* Leases expire, heartbeats are lost, transactions are not acknowledged,    *)
(* workers die; meanwhile the market produces bars, which shifts every       *)
(* offset.  A worker with --loop makes pass after pass over all tasks; a     *)
(* scoped run is one process that fills the gap (StopAt, Through] of its     *)
(* tasks and ends, with an error unless all of them are done.                *)
(*                                                                           *)
(* A bar is its number: the provider of a task has 1 .. provider[t].         *)
EXTENDS Integers, FiniteSets

CONSTANTS
    Tasks, Workers,
    MaxBar,      \* bound: bars the market produces
    PageSize,    \* --page-size
    TaskLimit,   \* --task-limit
    Concurrency, \* --concurrency
    MaxPages,    \* --max-pages-per-task, 0 for no limit
    MaxAttempts, \* --max-attempts
    Kinds,       \* the kinds of run: with --symbols-file (scoped) or without
    StopAt,      \* --stop-at of a scoped run
    Through,     \* --expected-through of a scoped run
    FirstBars,   \* how many bars a provider may have at the start
    MaxLeases,   \* bound: claims of one task
    MaxFaults,   \* bound: crashes, exceptions, lost heartbeats, acknowledgements and answers
    MaxResets    \* bound: passes with --reset

ASSUME BarsAssumption == MaxBar \in Nat /\ FirstBars \subseteq 0 .. MaxBar
ASSUME SizesAssumption ==
    /\ PageSize \in Nat \ {0} /\ TaskLimit \in Nat \ {0} /\ Concurrency \in Nat \ {0}
    /\ MaxPages \in Nat /\ MaxAttempts \in Nat \ {0}
ASSUME ScopeAssumption ==
    /\ Kinds \subseteq BOOLEAN
    /\ StopAt \in Nat /\ Through \in 0 .. MaxBar /\ StopAt < Through
ASSUME BoundsAssumption == MaxLeases \in Nat /\ MaxFaults \in Nat /\ MaxResets \in Nat

VARIABLES
    scoped,   \* the kind of this run
    provider, \* how many bars the provider of each task has
    klines,   \* the bars stored
    task,     \* historical_backfill_tasks
    live,     \* the running tasks whose lease_until is in the future
    cut,      \* history: the tasks that a missing answer of the provider ended
    pc,       \* each worker: between passes, about to claim, in a batch, or ended
    job,      \* process_task of each task of a worker's batch
    faults,   \* faults injected so far
    resets    \* passes with --reset so far

db == <<klines, task, live, cut>>
vars == <<scoped, provider, db, pc, job, faults, resets>>

Bars == 1 .. MaxBar

\* The bars a run is to fetch: those after Stop, up to Last.
Stop == IF scoped THEN StopAt ELSE 0
Last == IF scoped THEN Through ELSE MaxBar

NoJob == [pc |-> "none", token |-> 0, offset |-> 0, pages |-> 0, proven |-> 0, top |-> 0]
NoJobs == [t \in Tasks |-> NoJob]
NewTask == [status |-> "pending", leases |-> 0, token |-> 0, offset |-> 0, attempts |-> 0,
            newest |-> 0, proven |-> 0]

Larger(a, b) == IF a >= b THEN a ELSE b
Smaller(a, b) == IF a <= b THEN a ELSE b

Init ==
    /\ scoped \in Kinds
    /\ provider \in [Tasks -> FirstBars]
    /\ klines = [t \in Tasks |-> 1 .. Stop]
    /\ task = [t \in Tasks |-> NewTask]
    /\ live = {} /\ cut = {}
    /\ pc = [w \in Workers |-> "off"]
    /\ job = [w \in Workers |-> NoJobs]
    /\ faults = 0
    /\ resets = 0

-----------------------------------------------------------------------------
(* The environment.                                                          *)

\* The market produces a bar: every older bar is one offset further.
NewBar(t) ==
    /\ provider[t] < MaxBar
    /\ provider' = [provider EXCEPT ![t] = @ + 1]
    /\ UNCHANGED <<scoped, db, pc, job, faults, resets>>

Slots(w) == Concurrency - Cardinality({t \in Tasks : job[w][t].pc \in {"fetch", "page", "yield", "fail"}})

\* A process that runs the job renews its lease, or is about to end it.
Kept(t) ==
    \E w \in Workers :
        /\ job[w][t].token = task[t].token
        /\ \/ job[w][t].pc \in {"fetch", "page", "yield", "fail"}
           \/ job[w][t].pc = "queued" /\ Slots(w) > 0

\* lease_until passes; under a job whose heartbeat runs this is a fault.
Expire(t) ==
    /\ t \in live
    /\ live' = live \ {t}
    /\ IF Kept(t) THEN faults < MaxFaults /\ faults' = faults + 1 ELSE faults' = faults
    /\ UNCHANGED <<scoped, provider, klines, task, cut, pc, job, resets>>

-----------------------------------------------------------------------------
(* A pass of a worker (run_once).                                            *)

Running(t) == task[t].status = "running"

\* ensure_scoped_run_tasks: what the catalog must hold to resume a scoped run.
Progressed(t) == task[t].status = "success" \/ task[t].offset > 0 \/ task[t].proven > 0
CatalogAgrees(t) ==
    LET end == IF Progressed(t) THEN Last ELSE Stop
    IN end \in klines[t] /\ \A b \in klines[t] : b <= end

ResumeAccepted == scoped => \A t \in Tasks : CatalogAgrees(t)

\* Where a worker is after a pass: a loop sleeps until its next one, a scoped
\* process ends.
PassOver == IF scoped THEN "ended" ELSE "off"

\* ensure_tasks or ensure_scoped_run_tasks, for tasks that exist.
StartPass(w) ==
    /\ pc[w] = "off" /\ ResumeAccepted
    /\ pc' = [pc EXCEPT ![w] = "claim"]
    /\ UNCHANGED <<scoped, provider, db, job, faults, resets>>

\* ensure_scoped_run_tasks raises, and the process ends.
RefusePass(w) ==
    /\ pc[w] = "off" /\ ~ResumeAccepted
    /\ pc' = [pc EXCEPT ![w] = PassOver]
    /\ UNCHANGED <<scoped, provider, db, job, faults, resets>>

\* An operator starts a scoped process again.
Rerun(w) ==
    /\ pc[w] = "ended"
    /\ pc' = [pc EXCEPT ![w] = "off"]
    /\ UNCHANGED <<scoped, provider, db, job, faults, resets>>

Resettable(t) == ~Running(t) \/ t \notin live

ResetTask(t) == [NewTask EXCEPT !.leases = task[t].leases, !.proven = task[t].proven]

\* ensure_tasks with --reset: everything but lease_version and provider_newest_ts.
ResetPass(w) ==
    /\ pc[w] = "off" /\ ~scoped
    /\ resets < MaxResets /\ resets' = resets + 1
    /\ task' = [t \in Tasks |-> IF Resettable(t) THEN ResetTask(t) ELSE task[t]]
    /\ live' = {t \in live : ~Resettable(t)}
    /\ cut' = {t \in cut : ~Resettable(t)}
    /\ pc' = [pc EXCEPT ![w] = "claim"]
    /\ UNCHANGED <<scoped, provider, klines, job, faults>>

\* The attempt a task loses when its lease ran out.
Reclaimed(t) == IF Running(t) THEN task[t].attempts + 1 ELSE task[t].attempts

Released(t) ==
    [task[t] EXCEPT !.status = IF Reclaimed(t) >= MaxAttempts THEN "dead_letter" ELSE "pending",
                    !.attempts = Reclaimed(t), !.token = 0]

\* reset_running, after ensure: the tasks whose lease is over are released.
ReleasePass(w) ==
    /\ pc[w] = "off" /\ ResumeAccepted
    /\ task' = [t \in Tasks |-> IF Running(t) /\ t \notin live THEN Released(t) ELSE task[t]]
    /\ pc' = [pc EXCEPT ![w] = "claim"]
    /\ UNCHANGED <<scoped, provider, klines, live, cut, job, faults, resets>>

\* Mutant: a running task with an expired lease is never claimed.
WaitingIdleOnly(t) == task[t].status \in {"pending", "failed"}

Waiting(t) ==
    \/ task[t].status \in {"pending", "failed"}
    \/ Running(t) /\ t \notin live

Claimable(t) == Waiting(t) /\ Reclaimed(t) < MaxAttempts /\ task[t].leases < MaxLeases

ClaimLimit == IF scoped THEN Smaller(TaskLimit, Concurrency) ELSE TaskLimit

\* Mutant: a claim takes no new lease_version.
ClaimedSameLease(t) ==
    [task[t] EXCEPT !.status = "running", !.token = task[t].leases + 1, !.attempts = Reclaimed(t)]

Claimed(t) ==
    [task[t] EXCEPT !.status = "running", !.leases = @ + 1, !.token = task[t].leases + 1,
                    !.attempts = Reclaimed(t)]

\* The row claim_tasks returns, which process_task works from until it ends.
ClaimedJob(t) ==
    [pc |-> "queued", token |-> task[t].leases + 1, offset |-> task[t].offset,
     pages |-> 0, proven |-> task[t].proven, top |-> 0]

DeadLetter(t) == [task[t] EXCEPT !.status = "dead_letter", !.attempts = Reclaimed(t), !.token = 0]

(* claim_tasks: tasks out of attempts become dead letters, and a batch of    *)
(* others is claimed.  A scoped run ends when there is nothing to claim.     *)
Claim(w) ==
    /\ pc[w] = "claim"
    /\ \E S \in SUBSET {t \in Tasks : Claimable(t)} :
          /\ S = {} => \A t \in Tasks : ~Claimable(t)
          /\ Cardinality(S) <= ClaimLimit
          /\ task' = [t \in Tasks |->
                IF t \in S THEN Claimed(t)
                ELSE IF Waiting(t) /\ Reclaimed(t) >= MaxAttempts THEN DeadLetter(t)
                ELSE task[t]]
          /\ live' = live \union S
          /\ job' = [job EXCEPT ![w] = [t \in Tasks |-> IF t \in S THEN ClaimedJob(t) ELSE NoJob]]
          /\ pc' = [pc EXCEPT ![w] = IF S = {} THEN PassOver ELSE "batch"]
    /\ UNCHANGED <<scoped, provider, klines, cut, faults, resets>>

(* asyncio.gather returns.  A scoped run claims again unless a lease was     *)
(* lost or every task is done; another run sleeps until its next pass.       *)
EndBatch(w) ==
    /\ pc[w] = "batch"
    /\ \A t \in Tasks : job[w][t].pc \in {"none", "done", "lost"}
    /\ pc' = [pc EXCEPT ![w] =
          IF /\ scoped
             /\ \A t \in Tasks : job[w][t].pc # "lost"
             /\ \E t \in Tasks : task[t].status # "success"
          THEN "claim" ELSE PassOver]
    /\ job' = [job EXCEPT ![w] = NoJobs]
    /\ UNCHANGED <<scoped, provider, db, faults, resets>>

\* The process dies: its leases stay in the table.  The container of a loop is
\* started again.
Crash(w) ==
    /\ pc[w] \in {"claim", "batch"}
    /\ faults < MaxFaults /\ faults' = faults + 1
    /\ pc' = [pc EXCEPT ![w] = PassOver]
    /\ job' = [job EXCEPT ![w] = NoJobs]
    /\ UNCHANGED <<scoped, provider, db, resets>>

-----------------------------------------------------------------------------
(* One job (process_task).                                                   *)

\* A job that ends, or has only its end to report, works from its claim alone.
Stopped(j, where) ==
    [pc |-> where, token |-> j.token, offset |-> 0, pages |-> 0, proven |-> 0, top |-> 0]
Becomes(w, t, where) == job' = [job EXCEPT ![w][t] = Stopped(@, where)]

\* The claim is still the job's: status, claim_token, lease_version, lease_until.
Owns(w, t) == Running(t) /\ task[t].token = job[w][t].token /\ t \in live

\* The semaphore lets the job in.
Enter(w, t) ==
    /\ job[w][t].pc = "queued" /\ Slots(w) > 0
    /\ job' = [job EXCEPT ![w][t].pc = "fetch"]
    /\ UNCHANGED <<scoped, provider, db, pc, faults, resets>>

\* The provider answers with the bars after `offset`, counted from its newest.
Fetch(w, t) ==
    /\ job[w][t].pc = "fetch"
    /\ job' = [job EXCEPT ![w][t] = [@ EXCEPT !.pc = "page", !.top = provider[t]]]
    /\ UNCHANGED <<scoped, provider, db, pc, faults, resets>>

\* An answer is missing, and `get_security_bars(...) or []` makes it an empty page:
\* the page of a provider that has no bars.
FetchNothing(w, t) ==
    /\ job[w][t].pc = "fetch"
    /\ faults < MaxFaults /\ faults' = faults + 1
    /\ job' = [job EXCEPT ![w][t] = [@ EXCEPT !.pc = "page", !.top = 0]]
    /\ UNCHANGED <<scoped, provider, db, pc, resets>>

\* maintain_lease finds the lease gone, and the job is abandoned before its next step.
HeartbeatLost(w, t) ==
    /\ job[w][t].pc \in {"fetch", "page"}
    /\ IF Owns(w, t) THEN faults < MaxFaults /\ faults' = faults + 1 ELSE faults' = faults
    /\ Becomes(w, t, "lost")
    /\ UNCHANGED <<scoped, provider, db, pc, resets>>

Page(j) == {b \in Bars : j.top - j.offset - PageSize < b /\ b <= j.top - j.offset}

\* raw_rows_read
Rows(j) == Larger(0, Smaller(PageSize, j.top - j.offset))

\* The newest bar the provider is known to have: the claimed row's, or this page's.
ProvenBy(j) == IF Rows(j) > 0 THEN Larger(j.proven, j.top - j.offset) ELSE j.proven

StopReached(j) == \E b \in Page(j) : b <= Stop

\* Mutant: nothing proves that the provider has the expected bars.
RefusedStopOnly(j) == scoped /\ Rows(j) < PageSize /\ ~StopReached(j)

\* The errors of a scoped run.
Refused(j) ==
    scoped /\ (ProvenBy(j) < Last \/ (Rows(j) < PageSize /\ ~StopReached(j)))

Exhausted(j) == IF scoped THEN StopReached(j) ELSE Rows(j) < PageSize

\* Mutant: the bar next to the stop is taken for stored.
WrittenOffByOne(j) == {b \in Page(j) : Stop + 1 < b /\ b <= Last}

\* The bars of the page that are written.
Written(j) == {b \in Page(j) : Stop < b /\ b <= Last}

PageRefused(w, t) ==
    /\ job[w][t].pc = "page" /\ Refused(job[w][t])
    /\ Becomes(w, t, "fail")
    /\ UNCHANGED <<scoped, provider, db, pc, faults, resets>>

\* Mutant: the commit does not compare the claim token.
CommittableAnyToken(w, t) == Running(t) /\ t \in live

\* The FOR UPDATE select of commit_history_backfill_page.
Committable(w, t) == Owns(w, t) /\ task[t].offset = job[w][t].offset

\* Mutant: the offset moves by the page size, whatever the provider answered.
CheckpointFullPage(t, j) ==
    [task[t] EXCEPT !.offset = j.offset + PageSize,
                    !.attempts = 0,
                    !.newest = Larger(@, Smaller(Last, j.top - j.offset)),
                    !.proven = Larger(@, ProvenBy(j)),
                    !.status = IF Exhausted(j) THEN "success" ELSE "running",
                    !.token = IF Exhausted(j) THEN 0 ELSE @]

\* The checkpoint that is written with the page.
Checkpoint(t, j) ==
    [task[t] EXCEPT !.offset = j.offset + Rows(j),
                    !.attempts = 0,
                    !.newest = IF Written(j) = {} THEN @
                               ELSE Larger(@, Smaller(Last, j.top - j.offset)),
                    !.proven = Larger(@, ProvenBy(j)),
                    !.status = IF Exhausted(j) THEN "success" ELSE "running",
                    !.token = IF Exhausted(j) THEN 0 ELSE @]

\* commit_history_backfill_page: the page and its checkpoint, or neither.
CommitEffect(w, t) ==
    LET j == job[w][t]
    IN /\ j.pc = "page" /\ ~Refused(j) /\ Committable(w, t)
       /\ klines' = [klines EXCEPT ![t] = @ \union Written(j)]
       /\ task' = [task EXCEPT ![t] = Checkpoint(t, j)]
       /\ live' = IF Exhausted(j) THEN live \ {t} ELSE live
       /\ cut' = IF Exhausted(j) /\ j.top < j.offset THEN cut \union {t} ELSE cut

AfterPage(j) ==
    IF Exhausted(j) THEN Stopped(j, "done")
    ELSE IF MaxPages # 0 /\ j.pages + 1 >= MaxPages THEN Stopped(j, "yield")
    ELSE [j EXCEPT !.pc = "fetch", !.offset = j.offset + Rows(j),
                   !.pages = Smaller(j.pages + 1, MaxPages), !.top = 0]

CommitPage(w, t) ==
    /\ CommitEffect(w, t)
    /\ job' = [job EXCEPT ![w][t] = AfterPage(@)]
    /\ UNCHANGED <<scoped, provider, pc, faults, resets>>

\* LostBackfillLease: nothing is written.
CommitLost(w, t) ==
    /\ job[w][t].pc = "page" /\ ~Refused(job[w][t]) /\ ~Committable(w, t)
    /\ Becomes(w, t, "lost")
    /\ UNCHANGED <<scoped, provider, db, pc, faults, resets>>

Yielded(t) == [task[t] EXCEPT !.status = "pending", !.token = 0]

\* yield_task after the pages of this claim.
Yield(w, t) ==
    /\ job[w][t].pc = "yield"
    /\ IF Owns(w, t)
       THEN /\ task' = [task EXCEPT ![t] = Yielded(t)]
            /\ live' = live \ {t}
            /\ Becomes(w, t, "done")
       ELSE UNCHANGED <<task, live>> /\ Becomes(w, t, "lost")
    /\ UNCHANGED <<scoped, provider, klines, cut, pc, faults, resets>>

\* An exception in the job; after a commit the acknowledgement was lost.
Fault(w, t) ==
    /\ job[w][t].pc \in {"fetch", "page", "yield"}
    /\ faults < MaxFaults /\ faults' = faults + 1
    /\ Becomes(w, t, "fail")
    /\ CommitEffect(w, t) \/ UNCHANGED db
    /\ UNCHANGED <<scoped, provider, pc, resets>>

\* What record_failure makes of the task.
Failed(t) ==
    [task[t] EXCEPT !.status = IF task[t].attempts + 1 >= MaxAttempts THEN "dead_letter" ELSE "failed",
                    !.attempts = @ + 1, !.token = 0]

\* record_failure
RecordFailure(w, t) ==
    /\ job[w][t].pc = "fail"
    /\ IF Owns(w, t)
       THEN /\ task' = [task EXCEPT ![t] = Failed(t)]
            /\ live' = live \ {t}
            /\ Becomes(w, t, "done")
       ELSE UNCHANGED <<task, live>> /\ Becomes(w, t, "lost")
    /\ UNCHANGED <<scoped, provider, klines, cut, pc, faults, resets>>

-----------------------------------------------------------------------------
PassStep(w) == StartPass(w) \/ RefusePass(w) \/ Claim(w) \/ EndBatch(w)

JobStep(w, t) ==
    \/ Enter(w, t) \/ Fetch(w, t) \/ PageRefused(w, t) \/ CommitPage(w, t)
    \/ CommitLost(w, t) \/ Yield(w, t) \/ RecordFailure(w, t)

Next ==
    \/ \E t \in Tasks : NewBar(t) \/ Expire(t)
    \/ \E w \in Workers :
          \/ PassStep(w) \/ Rerun(w) \/ ResetPass(w) \/ ReleasePass(w) \/ Crash(w)
          \/ \E t \in Tasks :
                JobStep(w, t) \/ FetchNothing(w, t) \/ HeartbeatLost(w, t) \/ Fault(w, t)

Spec == Init /\ [][Next]_vars

(* A worker goes on with its pass, one with --loop starts another, its jobs  *)
(* run independently, and a lease that nobody renews ends.  Nothing starts   *)
(* an ended process again.                                                   *)
Fairness ==
    /\ \A w \in Workers : WF_vars(PassStep(w))
    /\ \A w \in Workers, t \in Tasks : WF_vars(JobStep(w, t))
    /\ \A t \in Tasks : WF_vars(Expire(t) /\ ~Kept(t))

FairSpec == Spec /\ Fairness

-----------------------------------------------------------------------------
TaskRow == [status : {"pending", "running", "success", "failed", "dead_letter"},
            leases : 0 .. MaxLeases, token : 0 .. MaxLeases, offset : 0 .. MaxBar,
            attempts : 0 .. MaxAttempts, newest : 0 .. MaxBar, proven : 0 .. MaxBar]
JobRow == [pc : {"none", "queued", "fetch", "page", "yield", "fail", "done", "lost"},
           token : 0 .. MaxLeases, offset : 0 .. MaxBar, pages : 0 .. MaxPages,
           proven : 0 .. MaxBar, top : 0 .. MaxBar]

(* Types, and the bounds of the table: no task is tried more than            *)
(* max_attempts times without a page in between.                             *)
TypeOK ==
    /\ scoped \in BOOLEAN
    /\ provider \in [Tasks -> 0 .. MaxBar]
    /\ klines \in [Tasks -> SUBSET Bars]
    /\ task \in [Tasks -> TaskRow]
    /\ live \subseteq {t \in Tasks : Running(t)}
    /\ cut \subseteq {t \in Tasks : task[t].status = "success"}
    /\ pc \in [Workers -> {"off", "claim", "batch", "ended"}]
    /\ job \in [Workers -> [Tasks -> JobRow]]
    /\ faults \in 0 .. MaxFaults
    /\ resets \in 0 .. MaxResets

\* The newest bar a task answers for: what it has seen, or what its run asks for.
Upto(t) == IF scoped THEN Last ELSE task[t].newest

(* A checkpoint never lies: whatever fails between reading a page and        *)
(* recording it, and however many bars the market adds meanwhile, every bar  *)
(* that next_offset passes over is stored.                                   *)
Covered ==
    \A t \in Tasks : \A b \in Bars :
        (/\ task[t].offset > 0
         /\ provider[t] - task[t].offset < b /\ Stop < b /\ b <= Upto(t)) => b \in klines[t]

(* A task is only marked success when its whole range is stored without a    *)
(* gap, and a scoped task only when it got as far as was expected.  Outside  *)
(* scoped runs a missing answer is taken for the end of the history.         *)
SuccessComplete ==
    \A t \in Tasks : \A b \in Bars :
        (/\ task[t].status = "success" /\ (scoped \/ t \notin cut)
         /\ Stop < b /\ b <= Upto(t)) => b \in klines[t]

(* A claim belongs to one job; a task has a token exactly while it runs.     *)
OneOwner ==
    \A t \in Tasks :
        /\ task[t].token # 0 <=> Running(t)
        /\ \A v, w \in Workers :
              (job[v][t].token # 0 /\ job[v][t].token = job[w][t].token) => v = w

(* While its lease is live nobody but the job itself moves the checkpoint of *)
(* a task or takes the claim: not a reset, a release, a claim, or a job that *)
(* was slow, whose lease ran out and that comes back.                        *)
ClaimKept ==
    [][\A w \in Workers, t \in Tasks :
         (Owns(w, t) /\ job'[w][t] = job[w][t])
             => /\ task'[t].token = task[t].token /\ task'[t].offset = task[t].offset
                /\ task'[t].attempts = task[t].attempts]_vars

(* Every run comes to an end.  Every task of looping workers is done or is   *)
(* reported as a dead letter, and stays so: whatever expires, fails or dies, *)
(* and though claimed jobs that wait for the semaphore lose their leases.  A *)
(* scoped process ends, also when the tasks are not done, another process    *)
(* holds them, or its start is refused.                                      *)
TasksEnd == \A t \in Tasks : <>[](task[t].status \in {"success", "dead_letter"})
ProcessesEnd == \A w \in Workers : []<>(pc[w] = "ended")
Finishes == (~scoped => TasksEnd) /\ (scoped => ProcessesEnd)

=============================================================================
