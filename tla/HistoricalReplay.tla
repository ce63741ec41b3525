--------------------------- MODULE HistoricalReplay ---------------------------
(***************************************************************************)
(* A batch of historical replay: Module C computed again at past cutoffs,  *)
(* for one symbol and level.  Workers claim the cutoffs in order and       *)
(* publish, per mode, a head, its history row with the run it follows, and *)
(* an outbox row from which the lifecycle observer plans events.  Sealing  *)
(* the batch accepts it as evidence; a repair corrects history rows that   *)
(* were published before the head they should follow.                      *)
(*                                                                         *)
(* The run of a cutoff is resumed under its replay identity, so that a run *)
(* is named by its cutoff, and 0 is no run.  lease_version and attempts    *)
(* grow together, in the claim and nowhere else: attempts stands for both. *)
(* A head, its history row and its outbox row are inserted by one          *)
(* transaction and never deleted: together they are one row here.          *)
(***************************************************************************)
EXTENDS Integers, FiniteSets

CONSTANTS
    Modes,        \* confirmed, predictive
    MaxCutoff,    \* the native bars that can be cutoffs are 1 .. MaxCutoff
    Workers,      \* replay workers
    MaxAttempts,  \* --max-attempts
    Repairs       \* repair_ids of manifests

ASSUME BoundsAssumption == MaxCutoff \in Nat /\ MaxAttempts \in Nat

VARIABLES
    parent,    \* status of the row in chan_c_batches
    child,     \* status of the row in chan_c_historical_replay_batches
    task,      \* chan_c_historical_replay_tasks
    work,      \* what each worker is doing
    row,       \* head, history and outbox of a mode and a cutoff, and its events
    observer,  \* the row the lifecycle observer holds its session lock for
    repair     \* chan_c_historical_replay_prefix_repairs and their snapshots

vars == <<parent, child, task, work, row, observer, repair>>

Cutoffs == 1 .. MaxCutoff
Runs == 0 .. MaxCutoff
Scopes == Modes \X Cutoffs

NotRead == -1

NoTask == [status |-> "none", attempts |-> 0, lease |-> FALSE]
Idle == [pc |-> "idle", cutoff |-> 0, attempts |-> 0, found |-> [m \in Modes |-> NotRead]]
NoRow == [status |-> "none", old |-> 0, payload |-> 0, planned |-> {}]
NoRepair == [status |-> "none", before |-> <<>>, target |-> <<>>]
Unlocked == [held |-> {}, read |-> 0]

Init ==
    /\ parent = "planned"
    /\ child = "none"
    /\ task = [c \in Cutoffs |-> NoTask]
    /\ work = [w \in Workers |-> Idle]
    /\ row = [s \in Scopes |-> NoRow]
    /\ observer = Unlocked
    /\ repair = [r \in Repairs |-> NoRepair]

-----------------------------------------------------------------------------
(* The batch and its tasks. *)

\* Writers hold both rows of the batch for share while they find it executable.
Executable == parent = "planned" /\ child \in {"planned", "running"}

Seeded == {c \in Cutoffs : task[c].status # "none"}
Completed == {c \in Cutoffs : task[c].status = "completed"}

Seed(S) == task' = [c \in Cutoffs |->
    IF c \in S \ Seeded THEN [NoTask EXCEPT !.status = "pending"] ELSE task[c]]

\* prepare-canary and prepare-full, once or again, until the first claim.
Prepare(S) ==
    /\ parent = "planned" /\ child \in {"none", "planned"}
    /\ child' = "planned"
    /\ Seed(S)
    /\ UNCHANGED <<parent, work, row, observer, repair>>

\* prepare-intraday adds the cutoffs of forward windows to a running batch.
PrepareIntraday(S) ==
    /\ parent = "planned" /\ child = "running"
    /\ ~(S \subseteq Seeded)
    /\ Seed(S)
    /\ UNCHANGED <<parent, child, work, row, observer, repair>>

-----------------------------------------------------------------------------
(* Workers. *)

Publishing(w) == work[w].pc = "publish"

\* Mutant: attempts are not counted.
ClaimableForever(c) ==
    /\ \/ task[c].status \in {"pending", "failed"}
       \/ task[c].status = "running" /\ ~task[c].lease
    /\ \A w \in Workers : ~(Publishing(w) /\ work[w].cutoff = c)

\* An open publication holds the row of its task.
Claimable(c) ==
    /\ task[c].attempts < MaxAttempts
    /\ \/ task[c].status \in {"pending", "failed"}
       \/ task[c].status = "running" /\ ~task[c].lease
    /\ \A w \in Workers : ~(Publishing(w) /\ work[w].cutoff = c)

\* The tasks are claimed in the order of their cutoffs, locked ones are skipped.
Claim(w, c) ==
    /\ work[w].pc = "idle"
    /\ Executable
    /\ Claimable(c)
    /\ \A d \in Cutoffs : Claimable(d) => c <= d
    /\ task' = [task EXCEPT ![c] =
           [status |-> "running", attempts |-> @.attempts + 1, lease |-> TRUE]]
    /\ work' = [work EXCEPT ![w] =
           [Idle EXCEPT !.pc = "compute", !.cutoff = c, !.attempts = task[c].attempts + 1]]
    /\ child' = "running"
    /\ UNCHANGED <<parent, row, observer, repair>>

LeaseExpires(c) ==
    /\ task[c].status = "running" /\ task[c].lease
    /\ task' = [task EXCEPT ![c].lease = FALSE]
    /\ UNCHANGED <<parent, child, work, row, observer, repair>>

\* The claim of w is the last one, and not reported yet.
Claimed(w) ==
    /\ task[work[w].cutoff].status = "running"
    /\ task[work[w].cutoff].attempts = work[w].attempts

\* The heartbeat after the computation and the fence of the publication, which
\* locks the task's row.  now() is the start of the transaction: a lease that
\* runs out later does not matter.
BeginPublish(w) ==
    /\ work[w].pc = "compute"
    /\ Executable
    /\ Claimed(w)
    /\ task[work[w].cutoff].lease
    /\ work' = [work EXCEPT ![w].pc = "publish"]
    /\ UNCHANGED <<parent, child, task, row, observer, repair>>

Published(m) == {c \in Cutoffs : row[<<m, c>>].status # "none"}

\* The last of these cutoffs before c, or 0.
LastBefore(S, c) ==
    LET earlier == {d \in S : d < c}
    IN IF earlier = {} THEN 0 ELSE CHOOSE d \in earlier : \A e \in earlier : e <= d

\* Each mode looks for its predecessor in a statement of its own, which sees what
\* other publications have committed by then.
ReadPrevious(w, m) ==
    /\ Publishing(w)
    /\ work[w].found[m] = NotRead
    /\ work' = [work EXCEPT ![w].found[m] = LastBefore(Published(m), work[w].cutoff)]
    /\ UNCHANGED <<parent, child, task, row, observer, repair>>

\* The commit: heads, histories, outbox rows and the completion of the task.
Publish(w) ==
    /\ Publishing(w)
    /\ \A m \in Modes : work[w].found[m] # NotRead
    /\ Claimed(w)
    /\ row' = [s \in Scopes |->
           IF s[2] = work[w].cutoff
           THEN [status |-> "pending", old |-> work[w].found[s[1]],
                 payload |-> work[w].found[s[1]], planned |-> {}]
           ELSE row[s]]
    /\ task' = [task EXCEPT ![work[w].cutoff].status = "completed",
                            ![work[w].cutoff].lease = FALSE]
    /\ work' = [work EXCEPT ![w] = Idle]
    /\ UNCHANGED <<parent, child, observer, repair>>

\* The computation, a fence or the publication raises; a claim that is not the
\* last one reports in vain.
Fail(w) ==
    /\ work[w].pc # "idle"
    /\ Executable
    /\ task' = IF Claimed(w)
               THEN [task EXCEPT ![work[w].cutoff].status = "failed",
                                 ![work[w].cutoff].lease = FALSE]
               ELSE task
    /\ work' = [work EXCEPT ![w] = Idle]
    /\ UNCHANGED <<parent, child, row, observer, repair>>

\* The process is killed, or the report of its failure raises as well.
Die(w) ==
    /\ work[w].pc # "idle"
    /\ work' = [work EXCEPT ![w] = Idle]
    /\ UNCHANGED <<parent, child, task, row, observer, repair>>

-----------------------------------------------------------------------------
(* The lifecycle observer.  A replay row is planned from its two runs alone,  *)
(* whatever was observed before: any row may be the next one.                 *)

Free == observer = Unlocked

\* Takes the session lock, claims a row and reads its history.  A row in
\* processing is one whose observer died.
Observe(s) ==
    /\ Free
    /\ row[s].status \in {"pending", "processing"}
    /\ row' = [row EXCEPT ![s].status = "processing"]
    /\ observer' = [held |-> {s}, read |-> row[s].old]
    /\ UNCHANGED <<parent, child, task, work, repair>>

\* Events, the acknowledgement and the watermark are one transaction.  Events that
\* are there already are left alone.
Persist(s) ==
    /\ s \in observer.held
    /\ row[s].status = "processing"
    /\ row[s].payload = observer.read
    /\ row' = [row EXCEPT ![s].status = "completed",
                          ![s].planned = @ \union {observer.read}]
    /\ observer' = Unlocked
    /\ UNCHANGED <<parent, child, task, work, repair>>

\* A failed row waits for its retry like a pending one, a dead letter for ever.
ObserverFails(s) ==
    /\ s \in observer.held
    /\ \E after \in {"pending", "dead_letter"} : row' = [row EXCEPT ![s].status = after]
    /\ observer' = Unlocked
    /\ UNCHANGED <<parent, child, task, work, repair>>

ObserverDies ==
    /\ ~Free
    /\ observer' = Unlocked
    /\ UNCHANGED <<parent, child, task, work, row, repair>>

-----------------------------------------------------------------------------
(* Sealing. *)

\* What the history of a head should say: the head before it.
Predecessor(s) == LastBefore(Published(s[1]), s[2])

Rows == {s \in Scopes : row[s].status # "none"}

\* Mutant: <> instead of is distinct from, which a null old_run_id satisfies.
ChainedUnlessNull(s) == row[s].old = 0 \/ row[s].old = Predecessor(s)

Chained(s) == row[s].old = Predecessor(s)
Anomalies == {s \in Rows : ~Chained(s) \/ row[s].payload # row[s].old}

\* All counts of the finalizer but invalid_history are zero, and the lifecycle is
\* reconciled.
Drained ==
    /\ Seeded # {} /\ Seeded = Completed
    /\ \A m \in Modes : Published(m) = Completed
    /\ \A s \in Rows : row[s].status = "completed"

Finalizable == Drained /\ Anomalies = {}

\* Both rows are locked for update, so no publication is open.
Quiet == \A w \in Workers : ~Publishing(w)

Finalize ==
    /\ Quiet
    /\ child \in {"planned", "running"}
    /\ Finalizable
    /\ parent' = "sealed" /\ child' = "sealed"
    /\ UNCHANGED <<task, work, row, observer, repair>>

\* The parent alone is sealed by hand: what repairs start from, and what the
\* finalizer calls a sealed parent with a still-running child.
SealParent ==
    /\ Quiet
    /\ parent = "planned" /\ child = "running"
    /\ parent' = "sealed"
    /\ UNCHANGED <<child, task, work, row, observer, repair>>

-----------------------------------------------------------------------------
(* The repair of a prefix, version 1: exactly two histories without a         *)
(* predecessor that should have one.  The session lock excludes the observer. *)

Applied(r) == repair[r].status \in {"applied", "verified"}
Entries(r) == DOMAIN repair[r].target

Repairable ==
    /\ Drained
    /\ Cardinality(Anomalies) = 2
    /\ \A s \in Anomalies : row[s].old = 0 /\ row[s].payload = 0

\* Mutant: the events of the declared rows stay.
ResetKeepingEvents(s) ==
    [row[s] EXCEPT !.status = "pending", !.old = Predecessor(s), !.payload = Predecessor(s)]

\* What becomes of a declared row; its events are deleted.
Reset(s) == [status |-> "pending", old |-> Predecessor(s), payload |-> Predecessor(s),
             planned |-> {}]

Apply(r) ==
    /\ Free
    /\ parent = "sealed" /\ child = "running"
    /\ repair[r].status = "none"
    /\ Repairable
    /\ repair' = [repair EXCEPT ![r] =
           [status |-> "applied", before |-> [s \in Anomalies |-> row[s]],
            target |-> [s \in Anomalies |-> Predecessor(s)]]]
    /\ row' = [s \in Scopes |-> IF s \in Anomalies THEN Reset(s) ELSE row[s]]
    /\ UNCHANGED <<parent, child, task, work, observer>>

\* The declared rows are what the repair made of them.
AtTarget(r) == \A s \in Entries(r) :
    row[s].old = repair[r].target[s] /\ row[s].payload = repair[r].target[s]

Verify(r) ==
    /\ Free
    /\ parent = "sealed" /\ child \in {"running", "sealed"}
    /\ repair[r].status = "applied"
    /\ AtTarget(r)
    /\ \A s \in Entries(r) : row[s].planned = {repair[r].target[s]}
    /\ Finalizable
    /\ repair' = [repair EXCEPT ![r].status = "verified"]
    /\ UNCHANGED <<parent, child, task, work, row, observer>>

\* Evidence that is sealed is never rolled back.
Reversible == parent = "sealed" /\ child = "running"

\* Mutant: the row of the outbox keeps the status the observer left it in.
RestoredData(r, s) == [repair[r].before[s] EXCEPT !.status = row[s].status]

Restored(r, s) == repair[r].before[s]

Rollback(r) ==
    /\ Free
    /\ Reversible
    /\ Applied(r)
    /\ AtTarget(r)
    /\ \A s \in Entries(r) :
         row[s].planned = IF row[s].status = "completed" THEN {repair[r].target[s]} ELSE {}
    /\ row' = [s \in Scopes |-> IF s \in Entries(r) THEN Restored(r, s) ELSE row[s]]
    /\ repair' = [repair EXCEPT ![r].status = "rolled_back"]
    /\ UNCHANGED <<parent, child, task, work, observer>>

-----------------------------------------------------------------------------
Next ==
    \/ \E S \in SUBSET Cutoffs : Prepare(S) \/ PrepareIntraday(S)
    \/ \E w \in Workers :
         \/ \E c \in Cutoffs : Claim(w, c)
         \/ \E m \in Modes : ReadPrevious(w, m)
         \/ BeginPublish(w) \/ Publish(w) \/ Fail(w) \/ Die(w)
    \/ \E c \in Cutoffs : LeaseExpires(c)
    \/ \E s \in Scopes : Observe(s) \/ Persist(s) \/ ObserverFails(s)
    \/ ObserverDies
    \/ Finalize \/ SealParent
    \/ \E r \in Repairs : Apply(r) \/ Verify(r) \/ Rollback(r)

Spec == Init /\ [][Next]_vars

-----------------------------------------------------------------------------
(* Properties. *)

Row == [status : {"none", "pending", "processing", "dead_letter", "completed"},
        old : Runs, payload : Runs, planned : SUBSET Runs]

\* Types, and the status constraints of db/sql/037 and 042.
TypeOK ==
    /\ parent \in {"planned", "sealed"}
    /\ child \in {"none", "planned", "running", "sealed"}
    /\ task \in [Cutoffs -> [status : {"none", "pending", "running", "completed", "failed"},
                             attempts : 0 .. MaxAttempts, lease : BOOLEAN]]
    /\ work \in [Workers -> [pc : {"idle", "compute", "publish"}, cutoff : Runs,
                             attempts : 0 .. MaxAttempts, found : [Modes -> Runs \union {NotRead}]]]
    /\ row \in [Scopes -> Row]
    /\ observer \in [held : SUBSET Scopes, read : Runs]
    /\ \A r \in Repairs :
         /\ repair[r].status \in {"none", "applied", "verified", "rolled_back"}
         /\ Entries(r) \subseteq Scopes
         /\ repair[r].target \in [Entries(r) -> Runs]
         /\ repair[r].before \in [Entries(r) -> Row]

(* The events of a row are those between the runs its history names, complete *)
(* when the outbox row is completed and absent before: through observers that *)
(* die and retry, and through a repair that rewrites the history and has the  *)
(* row observed a second time, or takes that back.                            *)
EventsExact ==
    \A s \in Scopes :
        row[s].planned = IF row[s].status = "completed" THEN {row[s].old} ELSE {}

(* A sealed batch is evidence: every task that was seeded is completed, every *)
(* head follows the head before it, in whatever order workers published them, *)
(* and the lifecycle events say so.                                           *)
SealedChain ==
    child = "sealed" =>
        /\ Seeded # {}
        /\ \A c \in Seeded : task[c].status = "completed"
        /\ \A m \in Modes : \A c \in Seeded :
             /\ row[<<m, c>>].old = LastBefore(Seeded, c)
             /\ row[<<m, c>>].planned = {LastBefore(Seeded, c)}

(* A verified repair leaves no broken predecessor in the batch; a repair that *)
(* was rolled back, whatever the observer had made of it by then, leaves its  *)
(* rows and events exactly as they were, until another repair is applied.     *)
RepairExact ==
    \A r \in Repairs :
        /\ repair[r].status = "verified" => Finalizable
        /\ repair[r].status = "rolled_back" /\ (\A q \in Repairs : ~Applied(q)) =>
             \A s \in Entries(r) : row[s] = repair[r].before[s]
=============================================================================
