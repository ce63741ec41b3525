--------------------------- MODULE FullRecompute ---------------------------
(***************************************************************************)
(* One full-recompute batch of Module C: the control commands that prepare, *)
(* activate and seal it, the sharded workers that claim its tasks, compute  *)
(* and publish, and what others do to the same heads meanwhile.  A scope is *)
(* a symbol and a level; its task freezes a target bar and the runs that    *)
(* its two heads show.  How a run comes from K-lines is PublishedHead's     *)
(* subject, what observers do with an outbox row LifecycleObserver's.       *)
(***************************************************************************)
EXTENDS Integers

CONSTANTS
    Scopes,       \* rows of the eligibility build
    Eligible,     \* those with eligible = true
    Headed,       \* those that have heads already
    Modes,
    Workers,
    ShardOf,      \* shard_bucket mod shard_count of a scope
    ShardWorked,  \* --shard-index of a worker
    MaxAttempts,  \* effective_config.max_attempts
    MaxMoves,     \* bound: publications by others
    MaxFaults     \* bound: exceptions, workers that die, deactivations

ASSUME EligibleAssumption == Eligible \subseteq Scopes /\ Headed \subseteq Eligible
ASSUME AttemptsAssumption == MaxAttempts \in Nat \ {0}
ASSUME BoundsAssumption == MaxMoves \in Nat /\ MaxFaults \in Nat

VARIABLES
    parent,    \* chan_c_batches.status; "none" before prepare
    child,     \* chan_c_full_recompute_batches.status
    task,      \* chan_c_full_recompute_tasks
    head,      \* scheme2_chan_c_published_heads of the eligible scopes
    waiting,   \* outbox rows of these heads that are not completed
    active,    \* symbols.is_active
    worker,    \* what each process holds
    moves,     \* bound
    faults,    \* bound
    published, \* history: the claims of each scope whose publication committed
    died       \* history: a worker died

vars == <<parent, child, task, head, waiting, active, worker, moves, faults,
          published, died>>

\* Bar ends relative to the frozen cutoff: before it, it, after it.
Target == 1

\* `by` and `n` identify the run: of a task, by its claim, or of others;
\* `mine` says that its batch_id, which a tail publication inherits from the
\* head it replaces, is this batch, and `same` that its config_hash is the batch's.
NoHead == [by |-> "none", n |-> 0, to |-> 0, mine |-> FALSE, same |-> FALSE]

\* The heads of earlier batches: behind the frozen cutoff or at it, under any
\* configuration.
EarlierHeads ==
    [by : {"other"}, n : {0}, to : {Target - 1, Target}, mine : {FALSE}, same : BOOLEAN]

NoRun == [by |-> "none", n |-> 0]
RunOf(h) == [by |-> h.by, n |-> h.n]

NoTask == [status |-> "none", attempts |-> 0, live |-> FALSE,
           expected |-> [m \in Modes |-> NoRun]]
Off == [pc |-> "new", scope |-> "none", lease |-> 0]

\* No head is beyond the canonical K-lines when the build audits them.
Init ==
    /\ parent = "none" /\ child = "none"
    /\ task = [s \in Scopes |-> NoTask]
    /\ \E old \in [Headed -> EarlierHeads] :
         head = [s \in Eligible |-> [m \in Modes |-> IF s \in Headed THEN old[s] ELSE NoHead]]
    /\ waiting = {}
    /\ active = [s \in Scopes |-> TRUE]
    /\ worker = [w \in Workers |-> Off]
    /\ moves = 0 /\ faults = 0
    /\ published = [s \in Scopes |-> {}]
    /\ died = FALSE

-----------------------------------------------------------------------------
(* module_c_batch_control. *)

Frozen(s) ==
    IF s \in Eligible
    THEN [NoTask EXCEPT !.status = "pending",
                        !.expected = [m \in Modes |-> RunOf(head[s][m])]]
    ELSE [NoTask EXCEPT !.status = "excluded"]

\* A second prepare of the same key finds every row and inserts nothing.
Prepare ==
    /\ parent = "none"
    /\ parent' = "planned" /\ child' = "pending"
    /\ task' = [s \in Scopes |-> Frozen(s)]
    /\ UNCHANGED <<head, waiting, active, worker, moves, faults,
                   published, died>>

\* Every task is as prepare would write it now: no head has moved since.
Pristine == \A s \in Scopes : task[s] = Frozen(s)

Activate ==
    /\ parent = "planned" /\ child = "pending"
    /\ Pristine
    /\ parent' = "running" /\ child' = "running"
    /\ UNCHANGED <<task, head, waiting, active, worker, moves, faults,
                   published, died>>

\* Mutant: any head that reaches the target will do.
CoveredAnyRun(h, expected) == h.to >= Target

\* HEAD_COVERAGE_SQL: of this batch, or the recorded run and at the target.
Covered(h, expected) ==
    \/ h.mine
    \/ RunOf(h) = expected /\ h.to = Target

\* seal_batch: complete, covered, of the configuration of the batch, observed.
Seal ==
    /\ parent = "running" /\ child = "completed"
    /\ \A s \in Eligible : task[s].status = "completed"
    /\ \A s \in Eligible, m \in Modes :
         Covered(head[s][m], task[s].expected[m]) /\ head[s][m].same
    /\ waiting = {}
    /\ parent' = "sealed"
    /\ UNCHANGED <<child, task, head, waiting, active, worker, moves, faults,
                   published, died>>

-----------------------------------------------------------------------------
(* Claims. *)

\* A worker goes on with its task, or leaves it behind.
Goto(w, pc) == worker' = [worker EXCEPT ![w].pc = pc]
Leave(w, pc) == worker' = [worker EXCEPT ![w] = [Off EXCEPT !.pc = pc]]

\* A worker verifies the batch before it works; one that ended may be run again.
Start(w) ==
    /\ worker[w].pc \in {"new", "done"}
    /\ parent = "running" /\ child = "running"
    /\ Leave(w, "claim")
    /\ UNCHANGED <<parent, child, task, head, waiting, active, moves, faults,
                   published, died>>

\* Mutant: an expired lease is never taken over.
ClaimableNoTakeover(t, on) ==
    /\ on
    /\ t.attempts < MaxAttempts
    /\ t.status \in {"pending", "failed"}

\* Mutant: attempts are not bounded.
ClaimableAgain(t, on) ==
    /\ on
    /\ \/ t.status \in {"pending", "failed"}
       \/ t.status = "running" /\ ~t.live

\* The candidate of claim_recompute_task, whatever its shard.
Claimable(t, on) ==
    /\ on
    /\ t.attempts < MaxAttempts
    /\ \/ t.status \in {"pending", "failed"}
       \/ t.status = "running" /\ ~t.live

Candidates(w) ==
    {s \in Scopes : ShardOf[s] = ShardWorked[w] /\ Claimable(task[s], active[s])}

Running == parent = "running" /\ child = "running"

Claim(w) ==
    /\ worker[w].pc = "claim"
    /\ Running
    /\ \E s \in Candidates(w) :
         /\ \A other \in Candidates(w) : task[s].attempts <= task[other].attempts
         /\ task' = [task EXCEPT ![s].status = "running", ![s].live = TRUE,
                                 ![s].attempts = @ + 1]
         /\ worker' = [worker EXCEPT ![w] =
                [pc |-> "compute", scope |-> s, lease |-> task[s].attempts + 1]]
    /\ UNCHANGED <<parent, child, head, waiting, active, moves, faults,
                   published, died>>

NothingToClaim(w) ==
    /\ worker[w].pc = "claim"
    /\ Running => Candidates(w) = {}
    /\ Goto(w, "finalize")
    /\ UNCHANGED <<parent, child, task, head, waiting, active, moves, faults,
                   published, died>>

\* Mutant: the claim that holds the task is not compared.
FencedAnyClaim(t, lease) == t.status = "running" /\ t.live

\* status, claim_token, lease_version and lease_until of the row; a claim, and
\* nothing else, moves token, version and attempts.
Fenced(t, lease) == t.status = "running" /\ t.attempts = lease /\ t.live

Owns(w) == Running /\ Fenced(task[worker[w].scope], worker[w].lease)

\* lease_until is passed: no heartbeat came in time.
Expire(s) ==
    /\ task[s].status = "running" /\ task[s].live
    /\ task' = [task EXCEPT ![s].live = FALSE]
    /\ UNCHANGED <<parent, child, head, waiting, active, worker, moves, faults,
                   published, died>>

-----------------------------------------------------------------------------
(* process_claimed_task. *)

\* The bars are read and computed; the last heartbeat decides.
Computed(w) ==
    /\ worker[w].pc = "compute"
    /\ Goto(w, IF Owns(w) THEN "publish" ELSE "failing")
    /\ UNCHANGED <<parent, child, task, head, waiting, active, moves, faults,
                   published, died>>

\* The frozen cutoff is not there, the engine or the database raises.
Raise(w) ==
    /\ worker[w].pc \in {"compute", "publish"}
    /\ faults < MaxFaults
    /\ faults' = faults + 1
    /\ Goto(w, "failing")
    /\ UNCHANGED <<parent, child, task, head, waiting, active, moves,
                   published, died>>

\* The upsert inserts the first head, and replaces one that is behind, or that
\* another configuration brought to the same end.
Advances(h) == h.by = "none" \/ h.to < Target \/ (h.to = Target /\ ~h.same)

\* Mutant: the heads are not compared with those of the freeze.
HeadsAsFrozenBlind(s) == s \in Eligible

\* Every head shows the run that the task recorded.
HeadsAsFrozen(s) ==
    s \in Eligible /\ \A m \in Modes : RunOf(head[s][m]) = task[s].expected[m]

\* replace_analysis: run, heads, outbox rows and completion in one transaction.
Publish(w) ==
    LET s == worker[w].scope
        advancing == {m \in Modes : Advances(head[s][m])}
    IN  /\ worker[w].pc = "publish"
        /\ active[s] /\ Owns(w) /\ HeadsAsFrozen(s)
        /\ head' = [head EXCEPT ![s] = [m \in Modes |->
               IF m \in advancing
               THEN [by |-> "task", n |-> worker[w].lease, to |-> Target,
                     mine |-> TRUE, same |-> TRUE]
               ELSE head[s][m]]]
        /\ waiting' = waiting \union ({s} \X advancing)
        /\ task' = [task EXCEPT ![s].status = "completed", ![s].live = FALSE]
        /\ published' = [published EXCEPT ![s] = @ \union {worker[w].lease}]
        /\ Leave(w, "claim")
        /\ UNCHANGED <<parent, child, active, moves, faults, died>>

\* A fence or a head refuses and the transaction is rolled back.
RefusePublish(w) ==
    /\ worker[w].pc = "publish"
    /\ ~(active[worker[w].scope] /\ Owns(w) /\ HeadsAsFrozen(worker[w].scope))
    /\ Goto(w, "failing")
    /\ UNCHANGED <<parent, child, task, head, waiting, active, moves, faults,
                   published, died>>

\* fail_recompute_task: fenced too, so a late failure leaves the task running.
Fail(w) ==
    LET s == worker[w].scope
    IN  /\ worker[w].pc = "failing"
        /\ task' = IF Owns(w)
                   THEN [task EXCEPT ![s].status = "failed", ![s].live = FALSE]
                   ELSE task
        /\ Leave(w, "claim")
        /\ UNCHANGED <<parent, child, head, waiting, active, moves, faults,
                       published, died>>

-----------------------------------------------------------------------------
(* The end of a worker. *)

\* Mutant: a running task does not keep the batch open.
UnfinishedIdle(t) ==
    \/ t.status = "pending"
    \/ t.status = "failed" /\ t.attempts < MaxAttempts

\* The tasks that keep the batch open.
Unfinished(t) ==
    \/ t.status \in {"pending", "running"}
    \/ t.status = "failed" /\ t.attempts < MaxAttempts

Exhausted(t) == t.status = "failed" /\ t.attempts >= MaxAttempts

Finalize(w) ==
    /\ worker[w].pc = "finalize"
    /\ child' = IF Running /\ ~\E s \in Scopes : Unfinished(task[s])
                THEN IF \E s \in Scopes : Exhausted(task[s])
                     THEN "failed" ELSE "completed"
                ELSE child
    /\ Leave(w, "done")
    /\ UNCHANGED <<parent, task, head, waiting, active, moves, faults,
                   published, died>>

\* The process dies; the task it holds keeps its lease until that runs out.
Die(w) ==
    /\ worker[w].pc \notin {"new", "done"}
    /\ faults < MaxFaults
    /\ faults' = faults + 1
    /\ Leave(w, "done")
    /\ died' = TRUE
    /\ UNCHANGED <<parent, child, task, head, waiting, active, moves, published>>

-----------------------------------------------------------------------------
(* Others. *)

\* The tail stream publishes a head under its own configuration: the same end
\* again, or a later one.
Move(s, m) ==
    /\ head[s][m].by # "none"
    /\ moves < MaxMoves
    /\ moves' = moves + 1
    /\ \E to \in head[s][m].to .. Target + 1, same \in BOOLEAN :
         head' = [head EXCEPT ![s][m] =
             [by |-> "other", n |-> moves + 1, to |-> to, mine |-> @.mine,
              same |-> same]]
    /\ waiting' = waiting \union {<<s, m>>}
    /\ UNCHANGED <<parent, child, task, active, worker, faults,
                   published, died>>

\* The lifecycle observer completes the rows of a head.
Observe(s, m) ==
    /\ <<s, m>> \in waiting
    /\ waiting' = waiting \ {<<s, m>>}
    /\ UNCHANGED <<parent, child, task, head, active, worker, moves, faults,
                   published, died>>

\* The catalog takes a symbol out of the active universe.
Deactivate(s) ==
    /\ active[s]
    /\ faults < MaxFaults
    /\ faults' = faults + 1
    /\ active' = [active EXCEPT ![s] = FALSE]
    /\ UNCHANGED <<parent, child, task, head, waiting, worker, moves,
                   published, died>>

-----------------------------------------------------------------------------
Work(w) ==
    \/ Claim(w) \/ NothingToClaim(w) \/ Computed(w)
    \/ Publish(w) \/ RefusePublish(w) \/ Fail(w) \/ Finalize(w)

Next ==
    \/ Prepare \/ Activate \/ Seal
    \/ \E w \in Workers : Start(w) \/ Work(w) \/ Raise(w) \/ Die(w)
    \/ \E s \in Scopes : Expire(s) \/ Deactivate(s)
    \/ \E s \in Eligible, m \in Modes : Move(s, m) \/ Observe(s, m)

Spec == Init /\ [][Next]_vars

\* Every shard's worker is run once after the activation; nothing runs one
\* again (restart: "no"), and no command is promised to be given.
Fairness ==
    /\ \A w \in Workers : WF_vars(worker[w].pc = "new" /\ Start(w))
    /\ \A w \in Workers : WF_vars(Work(w))
    /\ \A s \in Scopes : WF_vars(Expire(s))

FairSpec == Spec /\ Fairness

-----------------------------------------------------------------------------
(* Properties. *)

Runs == [by : {"none", "task", "other"}, n : Nat]

HeadRow == [by : {"none", "task", "other"}, n : Nat, to : 0 .. Target + 1,
            mine : BOOLEAN, same : BOOLEAN]

Task == [status : {"none", "excluded", "pending", "running", "failed", "completed"},
         attempts : 0 .. MaxAttempts, live : BOOLEAN, expected : [Modes -> Runs]]

Process == [pc : {"new", "claim", "compute", "publish", "failing", "finalize", "done"},
            scope : Scopes \union {"none"}, lease : 0 .. MaxAttempts]

\* Every variable keeps its type; no task is claimed more than MaxAttempts times.
TypeOK ==
    /\ parent \in {"none", "planned", "running", "sealed"}
    /\ child \in {"none", "pending", "running", "completed", "failed"}
    /\ task \in [Scopes -> Task]
    /\ head \in [Eligible -> [Modes -> HeadRow]]
    /\ waiting \subseteq Eligible \X Modes
    /\ active \in [Scopes -> BOOLEAN]
    /\ worker \in [Workers -> Process]
    /\ moves \in 0 .. MaxMoves /\ faults \in 0 .. MaxFaults
    /\ published \in [Scopes -> SUBSET (1 .. MaxAttempts)]
    /\ died \in BOOLEAN

(* A scope is published at most once by the batch, by the last of its claims, *)
(* and that is what completed says: a worker that lost its lease to another   *)
(* one can neither publish nor complete (replace_analysis' two fences).       *)
PublishedByLastClaim ==
    \A s \in Scopes :
        published[s] = IF task[s].status = "completed" THEN {task[s].attempts} ELSE {}

(* A completed task leaves heads that pass the coverage gate of the seal,     *)
(* whether the upsert replaced them or found them at the target; one that     *)
(* does not was moved by the tail stream since the build was made.            *)
CompletedCovered ==
    \A s \in Eligible, m \in Modes :
        task[s].status = "completed" =>
            \/ Covered(head[s][m], task[s].expected[m])
            \/ head[s][m].by = "other" /\ head[s][m].n > 0

(* The batch ends when it is over: completed means that every eligible scope  *)
(* is, failed that what is not completed has used up its attempts, and no     *)
(* worker, late or restarted, can change a task afterwards.                   *)
EndIsEnd ==
    /\ child = "completed" => \A s \in Eligible : task[s].status = "completed"
    /\ child = "failed" =>
         /\ \A s \in Eligible : task[s].status = "completed" \/ Exhausted(task[s])
         /\ \E s \in Eligible : Exhausted(task[s])

(* A step never puts a run of the batch over a head that someone else moved   *)
(* after the manifest was frozen, however long ago that was.                  *)
ForeignHeadKept ==
    [][\A s \in Eligible, m \in Modes :
          head[s][m].by = "other" /\ head[s][m].n > task[s].expected[m].n
              => head'[s][m].by # "task"]_vars

(* What the seal attests: every eligible scope is published, its heads reach  *)
(* the frozen target under the configuration of the batch and are of the      *)
(* batch, of a publication on top of it, or the recorded run itself, and      *)
(* every outbox row of theirs is observed.                                    *)
SealedIsPublished ==
    [][parent # "sealed" /\ parent' = "sealed" =>
          /\ waiting = {}
          /\ \A s \in Eligible :
               /\ published[s] # {}
               /\ \A m \in Modes :
                    /\ head[s][m].to >= Target /\ head[s][m].same
                    /\ head[s][m].mine \/ RunOf(head[s][m]) = task[s].expected[m]]_vars

\* What nothing in the code ends: a last attempt whose lease ran out, and a
\* task whose symbol is no longer active.
Abandoned ==
    \E s \in Eligible :
        \/ task[s].status = "running" /\ ~task[s].live /\ task[s].attempts = MaxAttempts
        \/ ~active[s] /\ Unfinished(task[s])

(* A batch that runs ends without another command, unless a worker dies or a  *)
(* task is left that no worker may claim: failures, lost leases, takeovers    *)
(* and heads that moved do not keep it open.                                  *)
Ends == child = "running" ~> child # "running" \/ died \/ Abandoned

=============================================================================
