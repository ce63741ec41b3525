------------------------- MODULE HistoryBackfillProofs -------------------------
(* Theorems of HistoryBackfill, for any tasks, workers, page size, limits    *)
(* and bounds: the types, exclusive claims, and that a checkpoint never      *)
(* passes over a bar that is not stored.                                     *)
EXTENDS HistoryBackfill, TLAPS

-----------------------------------------------------------------------------
(* The inductive invariant.                                                  *)

Statuses == {"pending", "running", "success", "failed", "dead_letter"}
JobPCs == {"none", "queued", "fetch", "page", "yield", "fail", "done", "lost"}

\* A task that runs has an attempt left; the token of a claim is its lease version.
ClaimsOK ==
    \A t \in Tasks :
        /\ Running(t) => task[t].attempts < MaxAttempts
        /\ task[t].token <= task[t].leases
        /\ \A w \in Workers : job[w][t].token <= task[t].leases

\* What tasks and jobs know of a provider, it has.
ProviderOK ==
    \A t \in Tasks :
        /\ task[t].newest <= provider[t] /\ task[t].proven <= provider[t]
        /\ \A w \in Workers : job[w][t].proven <= provider[t] /\ job[w][t].top <= provider[t]
        /\ (scoped /\ task[t].offset > 0) => Last <= provider[t]
        /\ task[t].offset = 0 => task[t].newest = 0

(* A job that has read a page of the checkpoint it still owns: everything    *)
(* above the page was stored when the page was read.  A missing answer tells *)
(* a job nothing, and it writes nothing from it.                             *)
PageOK ==
    \A w \in Workers, t \in Tasks :
        (/\ job[w][t].pc = "page" /\ job[w][t].top > 0
         /\ task[t].token # 0 /\ task[t].token = job[w][t].token /\ task[t].offset = job[w][t].offset)
            => /\ job[w][t].proven <= job[w][t].top /\ task[t].newest <= job[w][t].top
               /\ \A b \in Bars :
                     (/\ task[t].offset > 0 /\ job[w][t].top - task[t].offset < b
                      /\ Stop < b /\ b <= Upto(t)) => b \in klines[t]

IInv == TypeOK /\ OneOwner /\ ClaimsOK /\ ProviderOK /\ Covered /\ SuccessComplete /\ PageOK

-----------------------------------------------------------------------------
(* Numbers and rows.                                                         *)

LEMMA Constants ==
    /\ MaxBar \in Nat /\ MaxLeases \in Nat /\ MaxFaults \in Nat /\ MaxResets \in Nat
    /\ PageSize \in Nat \ {0} /\ MaxPages \in Nat /\ MaxAttempts \in Nat \ {0}
    /\ StopAt \in 0 .. MaxBar /\ Through \in 0 .. MaxBar
    /\ Kinds \subseteq BOOLEAN /\ FirstBars \subseteq 0 .. MaxBar
  BY BarsAssumption, SizesAssumption, ScopeAssumption, BoundsAssumption

\* The range of a run, which no step changes.
LEMMA RunRange ==
    ASSUME TypeOK
    PROVE  /\ scoped \in BOOLEAN /\ Stop \in 0 .. MaxBar /\ Last \in 0 .. MaxBar
           /\ ~scoped => Last = MaxBar
  <1>1. scoped \in BOOLEAN /\ 0 \in 0 .. MaxBar /\ MaxBar \in 0 .. MaxBar
    BY Constants DEF TypeOK
  <1> QED BY <1>1, Constants DEF Stop, Last

LEMMA RunRangeKept ==
    ASSUME [Next]_vars
    PROVE  scoped' = scoped /\ Stop' = Stop /\ Last' = Last
  <1>1. scoped' = scoped
    <2>1. ASSUME NEW t \in Tasks, NewBar(t) \/ Expire(t) PROVE scoped' = scoped
      BY <2>1 DEF NewBar, Expire
    <2>2. ASSUME NEW w \in Workers,
                 PassStep(w) \/ Rerun(w) \/ ResetPass(w) \/ ReleasePass(w) \/ Crash(w)
          PROVE  scoped' = scoped
      BY <2>2 DEF PassStep, StartPass, RefusePass, Claim, EndBatch, Rerun, ResetPass, ReleasePass, Crash
    <2>3. ASSUME NEW w \in Workers, NEW t \in Tasks, JobStep(w, t) PROVE scoped' = scoped
      BY <2>3 DEF JobStep, Enter, Fetch, PageRefused, CommitPage, CommitLost, Yield, RecordFailure
    <2>4. ASSUME NEW w \in Workers, NEW t \in Tasks,
                 FetchNothing(w, t) \/ HeartbeatLost(w, t) \/ Fault(w, t)
          PROVE  scoped' = scoped
      BY <2>4 DEF FetchNothing, HeartbeatLost, Fault
    <2>5. UNCHANGED vars => scoped' = scoped
      BY DEF vars
    <2> QED BY <2>1, <2>2, <2>3, <2>4, <2>5 DEF Next
  <1> QED BY <1>1 DEF Stop, Last

LEMMA ResetIsRow ==
    ASSUME NEW l \in 0 .. MaxLeases, NEW p \in 0 .. MaxBar
    PROVE  [NewTask EXCEPT !.leases = l, !.proven = p] \in TaskRow
  <1>1. 0 \in 0 .. MaxLeases /\ 0 \in 0 .. MaxBar /\ 0 \in 0 .. MaxAttempts
    BY Constants
  <1> QED BY <1>1 DEF NewTask, TaskRow

LEMMA EndedIsRow ==
    ASSUME NEW r \in TaskRow, NEW s \in Statuses, NEW a \in 0 .. MaxAttempts, NEW k \in 0 .. MaxLeases
    PROVE  [r EXCEPT !.status = s, !.attempts = a, !.token = k] \in TaskRow
  BY Zenon DEF TaskRow, Statuses

LEMMA YieldedIsRow ==
    ASSUME NEW r \in TaskRow, NEW s \in Statuses, NEW k \in 0 .. MaxLeases
    PROVE  [r EXCEPT !.status = s, !.token = k] \in TaskRow
  BY Zenon DEF TaskRow, Statuses

LEMMA ClaimedIsRow ==
    ASSUME NEW r \in TaskRow, NEW s \in Statuses, NEW l \in 0 .. MaxLeases, NEW k \in 0 .. MaxLeases,
           NEW a \in 0 .. MaxAttempts
    PROVE  [r EXCEPT !.status = s, !.leases = l, !.token = k, !.attempts = a] \in TaskRow
  BY Zenon DEF TaskRow, Statuses

LEMMA CheckpointIsRow ==
    ASSUME NEW r \in TaskRow, NEW o \in 0 .. MaxBar, NEW a \in 0 .. MaxAttempts, NEW n \in 0 .. MaxBar,
           NEW p \in 0 .. MaxBar, NEW s \in Statuses, NEW k \in 0 .. MaxLeases
    PROVE  [r EXCEPT !.offset = o, !.attempts = a, !.newest = n, !.proven = p,
                     !.status = s, !.token = k] \in TaskRow
  BY Zenon DEF TaskRow, Statuses

LEMMA RowsInRange ==
    ASSUME NEW j \in JobRow
    PROVE  /\ Rows(j) \in Nat /\ Rows(j) <= PageSize /\ j.offset + Rows(j) \in 0 .. MaxBar
           /\ Rows(j) > 0 => j.top - j.offset \in 1 .. MaxBar /\ Rows(j) <= j.top - j.offset
           /\ Rows(j) < PageSize => Rows(j) >= j.top - j.offset
           /\ Rows(j) = 0 => j.top <= j.offset
  <1>1. j.offset \in 0 .. MaxBar /\ j.top \in 0 .. MaxBar
    BY DEF JobRow
  <1> QED BY <1>1, Constants DEF Rows, Larger, Smaller

\* A page is the rows that follow the offset.
LEMMA PageRows ==
    ASSUME NEW j \in JobRow, NEW b \in Bars
    PROVE  b \in Page(j) <=> (j.top - j.offset - Rows(j) < b /\ b <= j.top - j.offset)
  <1>1. j.offset \in 0 .. MaxBar /\ j.top \in 0 .. MaxBar /\ b \in Nat /\ b >= 1
    BY Constants DEF JobRow, Bars
  <1> QED BY <1>1, Constants DEF Page, Rows, Larger, Smaller

LEMMA CheckpointFields ==
    ASSUME TypeOK, NEW t \in Tasks, NEW j \in JobRow
    PROVE  /\ Checkpoint(t, j) \in TaskRow
           /\ Checkpoint(t, j).offset = j.offset + Rows(j)
           /\ Checkpoint(t, j).leases = task[t].leases
           /\ Checkpoint(t, j).attempts = 0
           /\ Checkpoint(t, j).newest = IF Written(j) = {} THEN task[t].newest
                                        ELSE Larger(task[t].newest, Smaller(Last, j.top - j.offset))
           /\ Checkpoint(t, j).proven = Larger(task[t].proven, ProvenBy(j))
           /\ Checkpoint(t, j).status = IF Exhausted(j) THEN "success" ELSE "running"
           /\ Checkpoint(t, j).token = IF Exhausted(j) THEN 0 ELSE task[t].token
  <1>1. task[t] \in TaskRow
    BY DEF TypeOK
  <1>2. /\ task[t].newest \in 0 .. MaxBar /\ task[t].proven \in 0 .. MaxBar
        /\ task[t].token \in 0 .. MaxLeases /\ Last \in 0 .. MaxBar
        /\ j.offset \in 0 .. MaxBar /\ j.top \in 0 .. MaxBar /\ j.proven \in 0 .. MaxBar
    BY <1>1, RunRange DEF TaskRow, JobRow
  <1> DEFINE n == IF Written(j) = {} THEN task[t].newest
                  ELSE Larger(task[t].newest, Smaller(Last, j.top - j.offset))
             p == Larger(task[t].proven, ProvenBy(j))
             s == IF Exhausted(j) THEN "success" ELSE "running"
             k == IF Exhausted(j) THEN 0 ELSE task[t].token
  <1>3. n \in 0 .. MaxBar
    <2>1. CASE Written(j) = {}
      BY <1>2, <2>1
    <2>2. CASE Written(j) # {}
      <3>1. PICK b \in Bars : b <= j.top - j.offset
        BY <2>2 DEF Written, Page
      <3>2. j.top - j.offset \in 0 .. MaxBar
        BY <1>2, <3>1, Constants DEF Bars
      <3> QED BY <1>2, <2>2, <3>2, Constants DEF Larger, Smaller
    <2> QED BY <2>1, <2>2
  <1>4. p \in 0 .. MaxBar
    BY <1>2, RowsInRange, Constants DEF ProvenBy, Larger
  <1>5. s \in Statuses /\ k \in 0 .. MaxLeases /\ 0 \in 0 .. MaxAttempts
    BY <1>2, Constants DEF Statuses
  <1>6. Checkpoint(t, j) = [task[t] EXCEPT !.offset = j.offset + Rows(j), !.attempts = 0, !.newest = n,
                                           !.proven = p, !.status = s, !.token = k]
    BY DEF Checkpoint
  <1>7. j.offset + Rows(j) \in 0 .. MaxBar
    BY RowsInRange
  <1> HIDE DEF n, p, s, k
  <1>8. [task[t] EXCEPT !.offset = j.offset + Rows(j), !.attempts = 0, !.newest = n,
                        !.proven = p, !.status = s, !.token = k] \in TaskRow
    BY <1>1, <1>3, <1>4, <1>5, <1>7, CheckpointIsRow
  <1>9. /\ Checkpoint(t, j).offset = j.offset + Rows(j)
        /\ Checkpoint(t, j).leases = task[t].leases
        /\ Checkpoint(t, j).attempts = 0 /\ Checkpoint(t, j).newest = n
        /\ Checkpoint(t, j).proven = p /\ Checkpoint(t, j).status = s /\ Checkpoint(t, j).token = k
    BY <1>1, <1>6 DEF TaskRow
  <1> QED BY <1>6, <1>8, <1>9 DEF n, p, s, k

LEMMA EndedFields ==
    ASSUME NEW r \in TaskRow, NEW s, NEW a, NEW k
    PROVE  /\ [r EXCEPT !.status = s, !.attempts = a, !.token = k].status = s
           /\ [r EXCEPT !.status = s, !.attempts = a, !.token = k].attempts = a
           /\ [r EXCEPT !.status = s, !.attempts = a, !.token = k].token = k
           /\ [r EXCEPT !.status = s, !.attempts = a, !.token = k].leases = r.leases
           /\ [r EXCEPT !.status = s, !.attempts = a, !.token = k].offset = r.offset
           /\ [r EXCEPT !.status = s, !.attempts = a, !.token = k].newest = r.newest
           /\ [r EXCEPT !.status = s, !.attempts = a, !.token = k].proven = r.proven
  BY DEF TaskRow

-----------------------------------------------------------------------------
(* What a step does to one task and to one job.                              *)

EndedAs(t, s, a) == [task[t] EXCEPT !.status = s, !.attempts = a, !.token = 0]

\* Every step but a page commit leaves a task, ends its claim, claims it or resets it.
Move(t) ==
    \/ task'[t] = task[t]
    \/ \E s \in {"pending", "failed", "dead_letter"}, a \in 0 .. MaxAttempts : task'[t] = EndedAs(t, s, a)
    \/ Claimable(t) /\ task'[t] = Claimed(t)
    \/ ~scoped /\ task'[t] = ResetTask(t)

LEMMA ReclaimedInRange ==
    ASSUME IInv, NEW t \in Tasks
    PROVE  Reclaimed(t) \in 0 .. MaxAttempts /\ task[t] \in TaskRow
  <1>1. task[t] \in TaskRow /\ (Running(t) => task[t].attempts < MaxAttempts)
    BY DEF IInv, TypeOK, ClaimsOK
  <1>2. task[t].attempts \in 0 .. MaxAttempts
    BY <1>1 DEF TaskRow
  <1> QED BY <1>1, <1>2, Constants DEF Reclaimed

LEMMA ResetMoves ==
    ASSUME IInv, NEW w \in Workers, ResetPass(w), NEW t \in Tasks
    PROVE  Move(t) /\ klines'[t] = klines[t]
  BY DEF ResetPass, Move

LEMMA ReleaseMoves ==
    ASSUME IInv, NEW w \in Workers, ReleasePass(w), NEW t \in Tasks
    PROVE  Move(t) /\ klines'[t] = klines[t]
  <1>1. Released(t) = EndedAs(t, IF Reclaimed(t) >= MaxAttempts THEN "dead_letter" ELSE "pending",
                              Reclaimed(t))
    BY DEF Released, EndedAs
  <1>2. \E s \in {"pending", "failed", "dead_letter"}, a \in 0 .. MaxAttempts : Released(t) = EndedAs(t, s, a)
    BY <1>1, ReclaimedInRange
  <1>3. task'[t] = task[t] \/ task'[t] = Released(t)
    BY DEF ReleasePass
  <1> QED BY <1>2, <1>3 DEF ReleasePass, Move

LEMMA ClaimMoves ==
    ASSUME IInv, NEW w \in Workers, Claim(w), NEW t \in Tasks
    PROVE  Move(t) /\ klines'[t] = klines[t]
  <1>1. DeadLetter(t) = EndedAs(t, "dead_letter", Reclaimed(t))
    BY DEF DeadLetter, EndedAs
  <1>2. \E s \in {"pending", "failed", "dead_letter"}, a \in 0 .. MaxAttempts :
           DeadLetter(t) = EndedAs(t, s, a)
    BY <1>1, ReclaimedInRange
  <1>3. \/ task'[t] = task[t] \/ task'[t] = DeadLetter(t)
        \/ Claimable(t) /\ task'[t] = Claimed(t)
    BY DEF Claim
  <1> QED BY <1>2, <1>3 DEF Claim, Move

LEMMA YieldMoves ==
    ASSUME IInv, NEW w \in Workers, NEW u \in Tasks, Yield(w, u), NEW t \in Tasks
    PROVE  Move(t) /\ klines'[t] = klines[t]
  <1>1. task[u] \in TaskRow /\ task \in [Tasks -> TaskRow]
    BY DEF IInv, TypeOK
  <1>2. task[u].attempts \in 0 .. MaxAttempts
    BY <1>1 DEF TaskRow
  <1>3. Yielded(u) = EndedAs(u, "pending", task[u].attempts)
    BY <1>1 DEF Yielded, EndedAs, TaskRow
  <1>4. task' = task \/ task' = [task EXCEPT ![u] = Yielded(u)]
    BY DEF Yield
  <1> QED BY <1>1, <1>2, <1>3, <1>4 DEF Yield, Move

LEMMA FailureMoves ==
    ASSUME IInv, NEW w \in Workers, NEW u \in Tasks, RecordFailure(w, u), NEW t \in Tasks
    PROVE  Move(t) /\ klines'[t] = klines[t]
  <1>1. task[u] \in TaskRow /\ task \in [Tasks -> TaskRow]
    BY DEF IInv, TypeOK
  <1>2. Running(u) => task[u].attempts + 1 \in 0 .. MaxAttempts
    BY <1>1, Constants DEF IInv, ClaimsOK, TaskRow
  <1>3. Failed(u) = EndedAs(u, IF task[u].attempts + 1 >= MaxAttempts THEN "dead_letter" ELSE "failed",
                            task[u].attempts + 1)
    BY DEF Failed, EndedAs
  <1>4. task' = task \/ (Running(u) /\ task' = [task EXCEPT ![u] = Failed(u)])
    BY DEF RecordFailure, Owns
  <1>5. Running(u) => \E s \in {"pending", "failed", "dead_letter"}, a \in 0 .. MaxAttempts :
                         Failed(u) = EndedAs(u, s, a)
    BY <1>2, <1>3
  <1> QED BY <1>1, <1>4, <1>5 DEF RecordFailure, Move

LEMMA CommitMoves ==
    ASSUME IInv, NEW w \in Workers, NEW u \in Tasks, CommitEffect(w, u), NEW t \in Tasks
    PROVE  t = u \/ (Move(t) /\ klines'[t] = klines[t])
  <1>1. task \in [Tasks -> TaskRow] /\ klines \in [Tasks -> SUBSET Bars]
    BY DEF IInv, TypeOK
  <1> QED BY <1>1 DEF CommitEffect, Move

\* The steps that change neither a task nor the bars.
Quiet ==
    \/ \E t \in Tasks : NewBar(t) \/ Expire(t)
    \/ \E w \in Workers : StartPass(w) \/ RefusePass(w) \/ Rerun(w) \/ EndBatch(w) \/ Crash(w)
    \/ \E w \in Workers, t \in Tasks :
          \/ Enter(w, t) \/ Fetch(w, t) \/ FetchNothing(w, t)
          \/ PageRefused(w, t) \/ CommitLost(w, t) \/ HeartbeatLost(w, t)
    \/ UNCHANGED vars

LEMMA QuietKeeps ==
    ASSUME Quiet
    PROVE  task' = task /\ klines' = klines /\ cut' = cut /\ live' \subseteq live
  <1> DEFINE Same == task' = task /\ klines' = klines /\ cut' = cut /\ live' \subseteq live
  <1>1. ASSUME NEW t \in Tasks, NewBar(t) \/ Expire(t) PROVE Same
    BY <1>1 DEF NewBar, Expire, db
  <1>2. ASSUME NEW w \in Workers, StartPass(w) \/ RefusePass(w) \/ Rerun(w) \/ EndBatch(w) \/ Crash(w)
        PROVE  Same
    BY <1>2 DEF StartPass, RefusePass, Rerun, EndBatch, Crash, db
  <1>3. ASSUME NEW w \in Workers, NEW t \in Tasks,
               \/ Enter(w, t) \/ Fetch(w, t) \/ FetchNothing(w, t)
               \/ PageRefused(w, t) \/ CommitLost(w, t) \/ HeartbeatLost(w, t)
        PROVE  Same
    BY <1>3 DEF Enter, Fetch, FetchNothing, PageRefused, CommitLost, HeartbeatLost, db
  <1>4. ASSUME UNCHANGED vars PROVE Same
    BY <1>4 DEF vars, db
  <1> QED BY <1>1, <1>2, <1>3, <1>4 DEF Quiet

LEMMA NextCases ==
    ASSUME [Next]_vars
    PROVE  \/ Quiet
           \/ \E w \in Workers : ResetPass(w) \/ ReleasePass(w) \/ Claim(w)
           \/ \E w \in Workers, t \in Tasks :
                 CommitPage(w, t) \/ Yield(w, t) \/ RecordFailure(w, t) \/ Fault(w, t)
  BY DEF Next, PassStep, JobStep, Quiet

LEMMA TaskMoves ==
    ASSUME IInv, [Next]_vars, NEW t \in Tasks
    PROVE  \/ Move(t) /\ klines'[t] = klines[t]
           \/ \E w \in Workers : CommitEffect(w, t)
  <1>1. CASE Quiet
    BY <1>1, QuietKeeps DEF Move
  <1>2. CASE \E w \in Workers : ResetPass(w) \/ ReleasePass(w) \/ Claim(w)
    BY <1>2, ResetMoves, ReleaseMoves, ClaimMoves
  <1>3. ASSUME NEW w \in Workers, NEW u \in Tasks, CommitPage(w, u) \/ Yield(w, u) \/ RecordFailure(w, u)
        PROVE  \/ Move(t) /\ klines'[t] = klines[t]
               \/ \E v \in Workers : CommitEffect(v, t)
    BY <1>3, CommitMoves, YieldMoves, FailureMoves DEF CommitPage
  <1>4. ASSUME NEW w \in Workers, NEW u \in Tasks, Fault(w, u)
        PROVE  \/ Move(t) /\ klines'[t] = klines[t]
               \/ \E v \in Workers : CommitEffect(v, t)
    <2>1. CASE CommitEffect(w, u)
      BY <2>1, CommitMoves
    <2>2. CASE UNCHANGED db
      BY <2>2 DEF db, Move
    <2> QED BY <1>4, <2>1, <2>2 DEF Fault
  <1> QED BY <1>1, <1>2, <1>3, <1>4, NextCases

LEMMA MoveRow ==
    ASSUME IInv, NEW t \in Tasks, Move(t)
    PROVE  /\ task'[t] \in TaskRow
           /\ task'[t].token # 0 <=> task'[t].status = "running"
           /\ task'[t].status = "running" => task'[t].attempts < MaxAttempts
           /\ task'[t].leases >= task[t].leases
           /\ \/ task'[t].token = 0
              \/ task'[t] = task[t]
              \/ task'[t].token = task[t].leases + 1 /\ task'[t].leases = task[t].leases + 1
           /\ \/ /\ task'[t].offset = task[t].offset /\ task'[t].newest = task[t].newest
                 /\ task'[t].status = "success" => task[t].status = "success"
              \/ ~scoped /\ task'[t].offset = 0 /\ task'[t].newest = 0 /\ task'[t].status # "success"
           /\ task'[t].proven = task[t].proven
  <1>1. /\ task[t] \in TaskRow /\ (task[t].token # 0 <=> Running(t))
        /\ Running(t) => task[t].attempts < MaxAttempts
    BY DEF IInv, TypeOK, OneOwner, ClaimsOK
  <1>2. /\ task[t].leases \in 0 .. MaxLeases /\ task[t].proven \in 0 .. MaxBar
        /\ 0 \in 0 .. MaxLeases
    BY <1>1, Constants DEF TaskRow
  <1>3. CASE task'[t] = task[t]
    BY <1>1, <1>2, <1>3 DEF Running
  <1>4. CASE \E s \in {"pending", "failed", "dead_letter"}, a \in 0 .. MaxAttempts : task'[t] = EndedAs(t, s, a)
    <2>1. PICK s \in {"pending", "failed", "dead_letter"}, a \in 0 .. MaxAttempts : task'[t] = EndedAs(t, s, a)
      BY <1>4
    <2>2. s \in Statuses
      BY DEF Statuses
    <2>3. [task[t] EXCEPT !.status = s, !.attempts = a, !.token = 0] \in TaskRow
      BY <1>1, <1>2, <2>2, EndedIsRow
    <2>5. task'[t] \in TaskRow
      BY <2>1, <2>3 DEF EndedAs
    <2>4. /\ task'[t].status = s /\ task'[t].token = 0 /\ task'[t].leases = task[t].leases
          /\ task'[t].offset = task[t].offset /\ task'[t].newest = task[t].newest
          /\ task'[t].proven = task[t].proven
      BY <1>1, <2>1, EndedFields DEF EndedAs
    <2> QED BY <1>2, <2>4, <2>5
  <1>5. CASE Claimable(t) /\ task'[t] = Claimed(t)
    <2>1. /\ Reclaimed(t) < MaxAttempts /\ task[t].leases < MaxLeases /\ "running" \in Statuses
          /\ Reclaimed(t) \in 0 .. MaxAttempts
      BY <1>5, ReclaimedInRange DEF Claimable, Statuses
    <2>2. task[t].leases + 1 \in 0 .. MaxLeases /\ task[t].leases + 1 # 0
      BY <1>2, <2>1, Constants
    <2>5. Claimed(t) = [task[t] EXCEPT !.status = "running", !.leases = task[t].leases + 1,
                                       !.token = task[t].leases + 1, !.attempts = Reclaimed(t)]
      BY DEF Claimed
    <2>6. [task[t] EXCEPT !.status = "running", !.leases = task[t].leases + 1,
                          !.token = task[t].leases + 1, !.attempts = Reclaimed(t)] \in TaskRow
      BY <1>1, <2>1, <2>2, ClaimedIsRow
    <2>3. task'[t] \in TaskRow
      BY <1>5, <2>5, <2>6
    <2>4. /\ task'[t].status = "running" /\ task'[t].token = task[t].leases + 1
          /\ task'[t].leases = task[t].leases + 1 /\ task'[t].attempts = Reclaimed(t)
          /\ task'[t].offset = task[t].offset /\ task'[t].newest = task[t].newest
          /\ task'[t].proven = task[t].proven
      BY <1>1, <1>5 DEF Claimed, TaskRow
    <2> QED BY <1>2, <2>1, <2>2, <2>3, <2>4
  <1>6. CASE ~scoped /\ task'[t] = ResetTask(t)
    <2>1. task'[t] \in TaskRow
      BY <1>2, <1>6, ResetIsRow DEF ResetTask
    <2>2. /\ task'[t].status = "pending" /\ task'[t].token = 0 /\ task'[t].leases = task[t].leases
          /\ task'[t].offset = 0 /\ task'[t].newest = 0 /\ task'[t].proven = task[t].proven
      BY <1>6 DEF ResetTask, NewTask
    <2> QED BY <1>2, <1>6, <2>1, <2>2
  <1> QED BY <1>3, <1>4, <1>5, <1>6 DEF Move

LEMMA CommitRow ==
    ASSUME IInv, NEW w \in Workers, NEW t \in Tasks, CommitEffect(w, t)
    PROVE  /\ task'[t] = Checkpoint(t, job[w][t]) /\ task'[t] \in TaskRow
           /\ klines'[t] = klines[t] \union Written(job[w][t])
           /\ task'[t].token # 0 <=> task'[t].status = "running"
           /\ task'[t].status = "running" => task'[t].attempts < MaxAttempts
           /\ task'[t].leases = task[t].leases
           /\ task'[t].token = 0 \/ task'[t].token = task[t].token
           /\ job[w][t] \in JobRow /\ job[w][t].pc = "page"
           /\ task[t].token = job[w][t].token /\ task[t].offset = job[w][t].offset
           /\ task[t].token # 0 /\ t \in live
           /\ job[w][t].top = 0 => /\ Rows(job[w][t]) = 0 /\ klines'[t] = klines[t]
                                   /\ task'[t].offset = task[t].offset
                                   /\ task'[t].newest = task[t].newest
  <1>1. /\ task \in [Tasks -> TaskRow] /\ klines \in [Tasks -> SUBSET Bars] /\ job[w][t] \in JobRow
        /\ TypeOK
    BY DEF IInv, TypeOK
  <1>2. /\ job[w][t].pc = "page" /\ Running(t) /\ t \in live
        /\ task[t].token = job[w][t].token /\ task[t].offset = job[w][t].offset
    BY DEF CommitEffect, Committable, Owns
  <1>3. task[t].token # 0
    BY <1>2 DEF IInv, OneOwner
  <1>4. /\ task'[t] = Checkpoint(t, job[w][t])
        /\ klines'[t] = klines[t] \union Written(job[w][t])
    BY <1>1 DEF CommitEffect
  <1>5. 0 < MaxAttempts
    BY Constants
  <1>6. ASSUME job[w][t].top = 0
        PROVE  /\ Rows(job[w][t]) = 0 /\ klines'[t] = klines[t]
               /\ task'[t].offset = task[t].offset /\ task'[t].newest = task[t].newest
    <2>1. job[w][t].offset \in Nat
      BY <1>1, Constants DEF JobRow
    <2>2. Rows(job[w][t]) = 0
      BY <1>6, <2>1, Constants DEF Rows, Larger, Smaller
    <2>3. Written(job[w][t]) = {}
      BY <1>6, <2>1 DEF Written, Page, Bars
    <2>4. task'[t].offset = job[w][t].offset + 0 /\ task'[t].newest = task[t].newest
      BY <1>1, <1>4, <2>2, <2>3, CheckpointFields
    <2> QED BY <1>1, <1>2, <1>4, <2>1, <2>2, <2>3, <2>4
  <1> QED BY <1>1, <1>2, <1>3, <1>4, <1>5, <1>6, CheckpointFields

LEMMA TasksTyped ==
    ASSUME IInv, [Next]_vars
    PROVE  task' \in [Tasks -> TaskRow] /\ klines' \in [Tasks -> SUBSET Bars]
  <1>1. task \in [Tasks -> TaskRow] /\ klines \in [Tasks -> SUBSET Bars]
    BY DEF IInv, TypeOK
  <1>2. \A t \in Tasks : task'[t] \in TaskRow /\ klines'[t] \in SUBSET Bars
    <2> SUFFICES ASSUME NEW t \in Tasks PROVE task'[t] \in TaskRow /\ klines'[t] \in SUBSET Bars
      OBVIOUS
    <2>1. CASE Move(t) /\ klines'[t] = klines[t]
      BY <1>1, <2>1, MoveRow
    <2>2. ASSUME NEW w \in Workers, CommitEffect(w, t)
          PROVE  task'[t] \in TaskRow /\ klines'[t] \in SUBSET Bars
      BY <1>1, <2>2, CommitRow DEF Written, Page
    <2> QED BY <2>1, <2>2, TaskMoves
  <1>3. (\E f : task' = [t \in Tasks |-> f[t]]) /\ (\E g : klines' = [t \in Tasks |-> g[t]])
    <2>1. CASE Quiet
      BY <1>1, <2>1, QuietKeeps
    <2>2. CASE \E w \in Workers : ResetPass(w) \/ ReleasePass(w) \/ Claim(w)
      <3>1. klines' = klines
        BY <2>2 DEF ResetPass, ReleasePass, Claim
      <3>2. \E f : task' = [t \in Tasks |-> f[t]]
        <4>1. ASSUME NEW w \in Workers, ResetPass(w) PROVE task' = [t \in Tasks |-> task'[t]]
          BY <4>1 DEF ResetPass
        <4>2. ASSUME NEW w \in Workers, ReleasePass(w) PROVE task' = [t \in Tasks |-> task'[t]]
          BY <4>2 DEF ReleasePass
        <4>3. ASSUME NEW w \in Workers, Claim(w) PROVE task' = [t \in Tasks |-> task'[t]]
          BY <4>3 DEF Claim
        <4> QED BY <2>2, <4>1, <4>2, <4>3
      <3> QED BY <1>1, <3>1, <3>2
    <2>3. ASSUME NEW w \in Workers, NEW u \in Tasks, CommitEffect(w, u)
          PROVE  task' = [t \in Tasks |-> task'[t]] /\ klines' = [t \in Tasks |-> klines'[t]]
      BY <1>1, <2>3 DEF CommitEffect
    <2>4. ASSUME NEW w \in Workers, NEW u \in Tasks, Yield(w, u) \/ RecordFailure(w, u)
          PROVE  task' = [t \in Tasks |-> task'[t]] /\ klines' = klines
      BY <1>1, <2>4 DEF Yield, RecordFailure
    <2>5. ASSUME NEW w \in Workers, NEW u \in Tasks, UNCHANGED db
          PROVE  task' = task /\ klines' = klines
      BY <2>5 DEF db
    <2> QED BY <1>1, <2>1, <2>2, <2>3, <2>4, <2>5, NextCases DEF CommitPage, Fault
  <1> QED BY <1>2, <1>3

\* How a step changes the jobs.
LEMMA JobCases ==
    ASSUME [Next]_vars
    PROVE  \/ job' = job
           \/ \E w \in Workers : job' = [job EXCEPT ![w] = NoJobs]
           \/ \E w \in Workers : Claim(w)
           \/ \E w \in Workers, t \in Tasks :
                 Enter(w, t) \/ Fetch(w, t) \/ FetchNothing(w, t) \/ CommitPage(w, t)
           \/ \E w \in Workers, t \in Tasks, p \in JobPCs \ {"page"} : Becomes(w, t, p)
  <1>1. {"fail", "lost", "done"} \subseteq JobPCs \ {"page"}
    BY DEF JobPCs
  <1>2. ASSUME NEW t \in Tasks, NewBar(t) \/ Expire(t) PROVE job' = job
    BY <1>2 DEF NewBar, Expire
  <1>3. ASSUME NEW w \in Workers,
               StartPass(w) \/ RefusePass(w) \/ Rerun(w) \/ ResetPass(w) \/ ReleasePass(w)
        PROVE  job' = job
    BY <1>3 DEF StartPass, RefusePass, Rerun, ResetPass, ReleasePass
  <1>4. ASSUME NEW w \in Workers, EndBatch(w) \/ Crash(w) PROVE job' = [job EXCEPT ![w] = NoJobs]
    BY <1>4 DEF EndBatch, Crash
  <1>5. ASSUME NEW w \in Workers, NEW t \in Tasks,
               \/ PageRefused(w, t) \/ CommitLost(w, t) \/ Yield(w, t) \/ RecordFailure(w, t)
               \/ HeartbeatLost(w, t) \/ Fault(w, t)
        PROVE  \E p \in {"fail", "lost", "done"} : Becomes(w, t, p)
    BY <1>5 DEF PageRefused, CommitLost, Yield, RecordFailure, HeartbeatLost, Fault
  <1>6. ASSUME UNCHANGED vars PROVE job' = job
    BY <1>6 DEF vars
  <1> QED BY <1>1, <1>2, <1>3, <1>4, <1>5, <1>6 DEF Next, PassStep, JobStep

LEMMA JobFields ==
    ASSUME NEW j \in JobRow
    PROVE  /\ j.token \in 0 .. MaxLeases /\ j.offset \in 0 .. MaxBar /\ j.pages \in 0 .. MaxPages
           /\ j.proven \in 0 .. MaxBar /\ j.top \in 0 .. MaxBar
           /\ NoJob \in JobRow
           /\ \A p \in JobPCs : [j EXCEPT !.pc = p] \in JobRow
           /\ \A p \in JobPCs, x \in 0 .. MaxBar : [j EXCEPT !.pc = p, !.top = x] \in JobRow
  <1>1. /\ j.token \in 0 .. MaxLeases /\ j.offset \in 0 .. MaxBar /\ j.pages \in 0 .. MaxPages
        /\ j.proven \in 0 .. MaxBar /\ j.top \in 0 .. MaxBar
    BY Zenon DEF JobRow
  <1>2. 0 \in 0 .. MaxLeases /\ 0 \in 0 .. MaxBar /\ 0 \in 0 .. MaxPages
    BY Constants
  <1>3. NoJob \in JobRow
    BY <1>2 DEF NoJob, JobRow
  <1>4. ASSUME NEW p \in JobPCs PROVE [j EXCEPT !.pc = p] \in JobRow
    BY Zenon DEF JobRow, JobPCs
  <1>5. ASSUME NEW p \in JobPCs, NEW x \in 0 .. MaxBar
        PROVE  [j EXCEPT !.pc = p, !.top = x] \in JobRow
    BY Zenon DEF JobRow, JobPCs
  <1> QED BY <1>1, <1>3, <1>4, <1>5

LEMMA StoppedFields ==
    ASSUME NEW j \in JobRow, NEW p \in JobPCs
    PROVE  /\ Stopped(j, p) \in JobRow /\ Stopped(j, p).pc = p /\ Stopped(j, p).token = j.token
           /\ Stopped(j, p).proven = 0 /\ Stopped(j, p).top = 0
  <1>1. j.token \in 0 .. MaxLeases
    BY Zenon DEF JobRow
  <1>2. 0 \in 0 .. MaxBar /\ 0 \in 0 .. MaxPages
    BY Constants
  <1> QED BY <1>1, <1>2 DEF Stopped, JobRow, JobPCs

LEMMA JobNumbers ==
    ASSUME NEW j \in JobRow
    PROVE  /\ j.token \in Nat
           /\ j.offset \in Nat /\ j.proven \in Nat /\ j.top \in Nat
           /\ j.offset <= MaxBar /\ j.proven <= MaxBar /\ j.top <= MaxBar
  <1>1. /\ j.token \in 0 .. MaxLeases
        /\ j.offset \in 0 .. MaxBar /\ j.proven \in 0 .. MaxBar /\ j.top \in 0 .. MaxBar
    BY JobFields
  <1> QED BY <1>1, Constants

LEMMA AfterPageIsRow ==
    ASSUME NEW j \in JobRow
    PROVE  /\ AfterPage(j) \in JobRow /\ AfterPage(j).pc # "page"
           /\ AfterPage(j).token = j.token /\ AfterPage(j).proven \in {0, j.proven}
           /\ AfterPage(j).top = 0
  <1> DEFINE n == Smaller(j.pages + 1, MaxPages)
             o == j.offset + Rows(j)
             next == [j EXCEPT !.pc = "fetch", !.offset = o, !.pages = n, !.top = 0]
  <1>1. {"done", "yield"} \subseteq JobPCs
    BY DEF JobPCs
  <1>2. j.pages \in 0 .. MaxPages /\ o \in 0 .. MaxBar
    BY JobFields, RowsInRange
  <1>3. n \in 0 .. MaxPages /\ o \in 0 .. MaxBar /\ 0 \in 0 .. MaxBar
    BY <1>2, Constants DEF Smaller
  <1>4. AfterPage(j) \in {Stopped(j, "done"), Stopped(j, "yield"), next}
    BY DEF AfterPage
  <1>5. /\ next \in JobRow /\ next.pc = "fetch" /\ next.top = 0
        /\ next.token = j.token /\ next.proven = j.proven
    <2> HIDE DEF n, o
    <2>1. next \in JobRow
      BY <1>3, Zenon DEF JobRow
    <2>2. next.pc = "fetch" /\ next.top = 0 /\ next.token = j.token /\ next.proven = j.proven
      BY DEF JobRow
    <2> QED BY <2>1, <2>2
  <1> HIDE DEF next
  <1>6. /\ Stopped(j, "done") \in JobRow /\ Stopped(j, "done").pc = "done"
        /\ Stopped(j, "done").token = j.token
        /\ Stopped(j, "done").proven = 0 /\ Stopped(j, "done").top = 0
    BY <1>1, StoppedFields
  <1>7. /\ Stopped(j, "yield") \in JobRow /\ Stopped(j, "yield").pc = "yield"
        /\ Stopped(j, "yield").token = j.token
        /\ Stopped(j, "yield").proven = 0 /\ Stopped(j, "yield").top = 0
    BY <1>1, StoppedFields
  <1> QED BY <1>4, <1>5, <1>6, <1>7

LEMMA ClaimedJobIsRow ==
    ASSUME IInv, NEW t \in Tasks, Claimable(t)
    PROVE  /\ ClaimedJob(t) \in JobRow /\ ClaimedJob(t).pc = "queued"
           /\ ClaimedJob(t).token = task[t].leases + 1
           /\ ClaimedJob(t).proven = task[t].proven /\ ClaimedJob(t).top = 0
  <1>1. task[t] \in TaskRow /\ task[t].leases < MaxLeases
    BY DEF IInv, TypeOK, Claimable
  <1>2. task[t].leases + 1 \in 0 .. MaxLeases /\ 0 \in 0 .. MaxBar /\ 0 \in 0 .. MaxPages
    BY <1>1, Constants DEF TaskRow
  <1> QED BY <1>1, <1>2 DEF ClaimedJob, JobRow, TaskRow

\* What a claim leaves of the jobs of a worker, and of the task.
LEMMA ClaimStep ==
    ASSUME IInv, NEW w \in Workers, Claim(w), NEW t \in Tasks
    PROVE  /\ \A v \in Workers \ {w} : job'[v] = job[v]
           /\ \/ job'[w][t] = NoJob
              \/ Claimable(t) /\ job'[w][t] = ClaimedJob(t) /\ task'[t] = Claimed(t)
           /\ job' \in [Workers -> [Tasks -> JobRow]]
  <1>1. job \in [Workers -> [Tasks -> JobRow]]
    BY DEF IInv, TypeOK
  <1>2. PICK S \in SUBSET {u \in Tasks : Claimable(u)} :
           /\ task' = [u \in Tasks |-> IF u \in S THEN Claimed(u)
                        ELSE IF Waiting(u) /\ Reclaimed(u) >= MaxAttempts THEN DeadLetter(u)
                        ELSE task[u]]
           /\ job' = [job EXCEPT ![w] = [u \in Tasks |-> IF u \in S THEN ClaimedJob(u) ELSE NoJob]]
    BY DEF Claim
  <1>3. \A u \in Tasks : (IF u \in S THEN ClaimedJob(u) ELSE NoJob) \in JobRow
    BY <1>1, ClaimedJobIsRow, JobFields
  <1>4. [u \in Tasks |-> IF u \in S THEN ClaimedJob(u) ELSE NoJob] \in [Tasks -> JobRow]
    BY <1>3
  <1>5. /\ \A v \in Workers \ {w} : job'[v] = job[v]
        /\ job'[w] = [u \in Tasks |-> IF u \in S THEN ClaimedJob(u) ELSE NoJob]
        /\ job' \in [Workers -> [Tasks -> JobRow]]
    BY <1>1, <1>2, <1>4, Zenon
  <1>6. job'[w][t] = (IF t \in S THEN ClaimedJob(t) ELSE NoJob)
    BY <1>5
  <1> QED BY <1>2, <1>5, <1>6

LEMMA JobsTyped ==
    ASSUME IInv, [Next]_vars
    PROVE  job' \in [Workers -> [Tasks -> JobRow]]
  <1>1. job \in [Workers -> [Tasks -> JobRow]] /\ provider \in [Tasks -> 0 .. MaxBar]
    BY DEF IInv, TypeOK
  <1>2. ASSUME NEW w \in Workers, job' = [job EXCEPT ![w] = NoJobs]
        PROVE  job' \in [Workers -> [Tasks -> JobRow]]
    <2>1. \A t \in Tasks : NoJob \in JobRow
      BY <1>1, JobFields
    <2>2. NoJobs \in [Tasks -> JobRow]
      BY <2>1 DEF NoJobs
    <2> QED BY <1>1, <1>2, <2>2, Zenon
  <1>3. ASSUME NEW w \in Workers, NEW t \in Tasks, NEW j \in JobRow, job' = [job EXCEPT ![w][t] = j]
        PROVE  job' \in [Workers -> [Tasks -> JobRow]]
    BY <1>1, <1>3
  <1>4. ASSUME NEW w \in Workers, NEW t \in Tasks, Fetch(w, t)
        PROVE  \E j \in JobRow : job' = [job EXCEPT ![w][t] = j]
    <2>1. "page" \in JobPCs /\ job[w][t] \in JobRow /\ provider[t] \in 0 .. MaxBar
      BY <1>1 DEF JobPCs
    <2>2. [job[w][t] EXCEPT !.pc = "page", !.top = provider[t]] \in JobRow
      BY <2>1, JobFields
    <2> QED BY <1>4, <2>2 DEF Fetch
  <1>8. ASSUME NEW w \in Workers, NEW t \in Tasks, Enter(w, t) \/ FetchNothing(w, t)
        PROVE  \E j \in JobRow : job' = [job EXCEPT ![w][t] = j]
    <2>1. {"page", "fetch"} \subseteq JobPCs /\ job[w][t] \in JobRow /\ 0 \in 0 .. MaxBar
      BY <1>1, Constants DEF JobPCs
    <2>2. /\ [job[w][t] EXCEPT !.pc = "page", !.top = 0] \in JobRow
          /\ [job[w][t] EXCEPT !.pc = "fetch"] \in JobRow
      BY <2>1, JobFields
    <2>3. CASE Enter(w, t)
      BY <1>1, <2>2, <2>3 DEF Enter
    <2>4. CASE FetchNothing(w, t)
      BY <2>2, <2>4 DEF FetchNothing
    <2> QED BY <1>8, <2>3, <2>4
  <1>5. ASSUME NEW w \in Workers, NEW t \in Tasks, CommitPage(w, t)
        PROVE  \E j \in JobRow : job' = [job EXCEPT ![w][t] = j]
    BY <1>1, <1>5, AfterPageIsRow DEF CommitPage
  <1>6. ASSUME NEW w \in Workers, NEW t \in Tasks, NEW p \in JobPCs \ {"page"}, Becomes(w, t, p)
        PROVE  \E j \in JobRow : job' = [job EXCEPT ![w][t] = j]
    <2>1. Stopped(job[w][t], p) \in JobRow
      BY <1>1, StoppedFields
    <2> QED BY <1>6, <2>1 DEF Becomes
  <1>7. ASSUME NEW w \in Workers, Claim(w) PROVE job' \in [Workers -> [Tasks -> JobRow]]
    <2>1. CASE Tasks = {}
      BY <1>1, <1>7, <2>1 DEF Claim
    <2>2. CASE Tasks # {}
      BY <1>7, <2>2, ClaimStep
    <2> QED BY <2>1, <2>2
  <1> QED BY <1>1, <1>2, <1>3, <1>4, <1>5, <1>6, <1>7, <1>8, JobCases

\* What a step makes of one job.
JobMove(w, t) ==
    \/ job'[w][t] = job[w][t]
    \/ job'[w][t] = NoJob
    \/ /\ job'[w][t] = ClaimedJob(t) /\ Claimable(t) /\ task'[t] = Claimed(t)
       /\ \A v \in Workers \ {w} : job'[v][t] = job[v][t]
    \/ job'[w][t] = [job[w][t] EXCEPT !.pc = "fetch"]
    \/ /\ UNCHANGED <<provider, db>>
       /\ \E x \in {0, provider[t]} : job'[w][t] = [job[w][t] EXCEPT !.pc = "page", !.top = x]
    \/ job'[w][t] = AfterPage(job[w][t])
    \/ \E p \in JobPCs \ {"page"} : job'[w][t] = Stopped(job[w][t], p)

LEMMA JobMoves ==
    ASSUME IInv, [Next]_vars, NEW w \in Workers, NEW t \in Tasks
    PROVE  JobMove(w, t)
  <1>1. job \in [Workers -> [Tasks -> JobRow]]
    BY DEF IInv, TypeOK
  <1>2. ASSUME NEW v \in Workers, job' = [job EXCEPT ![v] = NoJobs] PROVE JobMove(w, t)
    BY <1>1, <1>2 DEF NoJobs, JobMove
  <1>3. ASSUME NEW v \in Workers, Claim(v) PROVE JobMove(w, t)
    BY <1>3, ClaimStep DEF JobMove
  <1>4. ASSUME NEW v \in Workers, NEW u \in Tasks, Enter(v, u) PROVE JobMove(w, t)
    BY <1>1, <1>4 DEF Enter, JobMove
  <1>8. ASSUME NEW v \in Workers, NEW u \in Tasks, Fetch(v, u) \/ FetchNothing(v, u) PROVE JobMove(w, t)
    <2>1. PICK x \in {0, provider[u]} : job' = [job EXCEPT ![v][u] = [@ EXCEPT !.pc = "page", !.top = x]]
      BY <1>8 DEF Fetch, FetchNothing
    <2>2. UNCHANGED <<provider, db>>
      BY <1>8 DEF Fetch, FetchNothing
    <2>3. CASE v = w /\ u = t
      <3>1. job'[w][t] = [job[w][t] EXCEPT !.pc = "page", !.top = x]
        BY <1>1, <2>1, <2>3
      <3> QED BY <2>2, <2>3, <3>1 DEF JobMove
    <2>4. CASE v # w \/ u # t
      <3>1. job'[w][t] = job[w][t]
        BY <1>1, <2>1, <2>4
      <3> QED BY <3>1 DEF JobMove
    <2> QED BY <2>3, <2>4
  <1>5. ASSUME NEW v \in Workers, NEW u \in Tasks, CommitPage(v, u) PROVE JobMove(w, t)
    BY <1>1, <1>5 DEF CommitPage, JobMove
  <1>6. ASSUME NEW v \in Workers, NEW u \in Tasks, NEW p \in JobPCs \ {"page"}, Becomes(v, u, p)
        PROVE  JobMove(w, t)
    BY <1>1, <1>6 DEF Becomes, JobMove
  <1>7. job' = job => JobMove(w, t)
    BY DEF JobMove
  <1> QED BY <1>2, <1>3, <1>4, <1>5, <1>6, <1>7, <1>8, JobCases

LEMMA JobTokens ==
    ASSUME IInv, [Next]_vars, NEW w \in Workers, NEW t \in Tasks
    PROVE  /\ \/ job'[w][t].token = 0
              \/ job'[w][t].token = job[w][t].token
              \/ /\ job'[w][t].token = task[t].leases + 1 /\ task'[t].leases = task[t].leases + 1
                 /\ \A v \in Workers \ {w} : job'[v][t] = job[v][t]
           /\ job'[w][t].proven \in {0, job[w][t].proven, task[t].proven}
           /\ job'[w][t].top \in {0, job[w][t].top, provider[t]}
           /\ job'[w][t].pc = "page" =>
                 \/ job'[w][t] = job[w][t]
                 \/ /\ UNCHANGED <<provider, db>> /\ job'[w][t].top \in {0, provider[t]}
                    /\ job'[w][t].token = job[w][t].token /\ job'[w][t].offset = job[w][t].offset
                    /\ job'[w][t].proven = job[w][t].proven
  <1>1. job[w][t] \in JobRow /\ task[t] \in TaskRow
    BY DEF IInv, TypeOK
  <1>2. CASE job'[w][t] = job[w][t]
    BY <1>2
  <1>3. CASE job'[w][t] = NoJob
    BY <1>3 DEF NoJob
  <1>4. CASE /\ job'[w][t] = ClaimedJob(t) /\ Claimable(t) /\ task'[t] = Claimed(t)
             /\ \A v \in Workers \ {w} : job'[v][t] = job[v][t]
    <2>1. task'[t].leases = task[t].leases + 1
      BY <1>1, <1>4 DEF Claimed, TaskRow
    <2> QED BY <1>4, <2>1, ClaimedJobIsRow
  <1>8. CASE job'[w][t] = [job[w][t] EXCEPT !.pc = "fetch"]
    BY <1>1, <1>8 DEF JobRow
  <1>5. CASE /\ UNCHANGED <<provider, db>>
             /\ \E x \in {0, provider[t]} : job'[w][t] = [job[w][t] EXCEPT !.pc = "page", !.top = x]
    <2>2. /\ job'[w][t].top \in {0, provider[t]} /\ job'[w][t].token = job[w][t].token
          /\ job'[w][t].offset = job[w][t].offset /\ job'[w][t].proven = job[w][t].proven
      BY <1>1, <1>5 DEF JobRow
    <2> QED BY <1>5, <2>2
  <1>6. CASE job'[w][t] = AfterPage(job[w][t])
    BY <1>1, <1>6, AfterPageIsRow
  <1>7. CASE \E p \in JobPCs \ {"page"} : job'[w][t] = Stopped(job[w][t], p)
    <2>1. PICK p \in JobPCs \ {"page"} : job'[w][t] = Stopped(job[w][t], p)
      BY <1>7
    <2>2. /\ job'[w][t].pc = p /\ job'[w][t].token = job[w][t].token
          /\ job'[w][t].proven = 0 /\ job'[w][t].top = 0
      BY <1>1, <2>1, StoppedFields
    <2> QED BY <2>2
  <1> QED BY <1>2, <1>3, <1>4, <1>5, <1>6, <1>7, <1>8, JobMoves DEF JobMove

LEMMA ProviderGrows ==
    ASSUME IInv, [Next]_vars
    PROVE  /\ provider' \in [Tasks -> 0 .. MaxBar]
           /\ \A t \in Tasks : provider[t] \in 0 .. MaxBar /\ provider'[t] >= provider[t]
  <1>1. provider \in [Tasks -> 0 .. MaxBar]
    BY DEF IInv, TypeOK
  <1>2. ASSUME NEW u \in Tasks, NewBar(u)
        PROVE  provider' \in [Tasks -> 0 .. MaxBar] /\ \A t \in Tasks : provider'[t] >= provider[t]
    <2>1. provider[u] \in 0 .. MaxBar /\ provider[u] + 1 \in 0 .. MaxBar
      BY <1>1, <1>2, Constants DEF NewBar
    <2>2. provider' = [provider EXCEPT ![u] = provider[u] + 1]
      BY <1>2 DEF NewBar
    <2>3. provider' \in [Tasks -> 0 .. MaxBar]
      BY <1>1, <2>1, <2>2
    <2>4. ASSUME NEW t \in Tasks PROVE provider'[t] >= provider[t]
      <3>1. provider[t] \in 0 .. MaxBar /\ (provider'[t] = provider[t] \/ provider'[t] = provider[t] + 1)
        BY <1>1, <2>2
      <3> QED BY <3>1, Constants
    <2> QED BY <2>3, <2>4
  <1>3. (\E u \in Tasks : NewBar(u)) \/ provider' = provider
    <2>1. ASSUME NEW u \in Tasks, Expire(u) PROVE provider' = provider
      BY <2>1 DEF Expire
    <2>2. ASSUME NEW w \in Workers,
                 PassStep(w) \/ Rerun(w) \/ ResetPass(w) \/ ReleasePass(w) \/ Crash(w)
          PROVE  provider' = provider
      BY <2>2 DEF PassStep, StartPass, RefusePass, Claim, EndBatch, Rerun, ResetPass, ReleasePass, Crash
    <2>3. ASSUME NEW w \in Workers, NEW u \in Tasks, JobStep(w, u) PROVE provider' = provider
      BY <2>3 DEF JobStep, Enter, Fetch, PageRefused, CommitPage, CommitLost, Yield, RecordFailure
    <2>4. ASSUME NEW w \in Workers, NEW u \in Tasks,
                 FetchNothing(w, u) \/ HeartbeatLost(w, u) \/ Fault(w, u)
          PROVE  provider' = provider
      BY <2>4 DEF FetchNothing, HeartbeatLost, Fault
    <2>5. UNCHANGED vars => provider' = provider
      BY DEF vars
    <2> QED BY <2>1, <2>2, <2>3, <2>4, <2>5 DEF Next
  <1> QED BY <1>1, <1>2, <1>3, Constants

-----------------------------------------------------------------------------
(* The parts of the invariant, one lemma each.                               *)

LEMMA LiveKept ==
    ASSUME IInv, [Next]_vars
    PROVE  live' \subseteq {t \in Tasks : task'[t].status = "running"}
  <1>1. /\ live \subseteq {t \in Tasks : Running(t)} /\ task \in [Tasks -> TaskRow]
        /\ job \in [Workers -> [Tasks -> JobRow]] /\ TypeOK
    BY DEF IInv, TypeOK
  <1>2. CASE Quiet
    BY <1>1, <1>2, QuietKeeps DEF Running
  <1>3. ASSUME NEW w \in Workers, ResetPass(w) \/ ReleasePass(w)
        PROVE  \A t \in live' : t \in live /\ task'[t] = task[t]
    BY <1>1, <1>3 DEF ResetPass, ReleasePass
  <1>4. ASSUME NEW w \in Workers, Claim(w)
        PROVE  \A t \in live' : t \in Tasks /\ task'[t].status = "running"
    <2>1. PICK S \in SUBSET {u \in Tasks : Claimable(u)} :
             /\ task' = [u \in Tasks |-> IF u \in S THEN Claimed(u)
                          ELSE IF Waiting(u) /\ Reclaimed(u) >= MaxAttempts THEN DeadLetter(u)
                          ELSE task[u]]
             /\ live' = live \union S
      BY <1>4 DEF Claim
    <2>2. \A t \in Tasks : Claimed(t).status = "running"
      BY <1>1 DEF Claimed, TaskRow
    <2>3. \A t \in live : t \in Tasks /\ Running(t) /\ ~Waiting(t)
      BY <1>1 DEF Running, Waiting
    <2> QED BY <2>1, <2>2, <2>3 DEF Running
  <1>5. ASSUME NEW w \in Workers, NEW u \in Tasks, CommitEffect(w, u)
        PROVE  \A t \in live' : t \in Tasks /\ task'[t].status = "running"
    <2>1. task'[u].status = IF Exhausted(job[w][u]) THEN "success" ELSE "running"
      BY <1>1, <1>5, CommitRow, CheckpointFields
    <2>2. /\ live' \subseteq live /\ (Exhausted(job[w][u]) => u \notin live')
          /\ \A t \in Tasks \ {u} : task'[t] = task[t]
      BY <1>1, <1>5 DEF CommitEffect
    <2> QED BY <1>1, <2>1, <2>2 DEF Running
  <1>6. ASSUME NEW w \in Workers, NEW u \in Tasks, Yield(w, u) \/ RecordFailure(w, u)
        PROVE  \A t \in live' : t \in live /\ task'[t] = task[t]
    BY <1>1, <1>6 DEF Yield, RecordFailure
  <1>7. UNCHANGED db => live' = live /\ task' = task
    BY DEF db
  <1> QED BY <1>1, <1>2, <1>3, <1>4, <1>5, <1>6, <1>7, NextCases DEF Running, CommitPage, Fault

LEMMA CutKept ==
    ASSUME IInv, [Next]_vars
    PROVE  cut' \subseteq {t \in Tasks : task'[t].status = "success"}
  <1>1. /\ cut \subseteq {t \in Tasks : task[t].status = "success"} /\ task \in [Tasks -> TaskRow]
        /\ job \in [Workers -> [Tasks -> JobRow]] /\ TypeOK
    BY DEF IInv, TypeOK
  <1>2. CASE Quiet
    BY <1>1, <1>2, QuietKeeps
  <1>3. ASSUME NEW w \in Workers, ResetPass(w) \/ ReleasePass(w) \/ Claim(w)
        PROVE  \A t \in cut' : t \in cut /\ task'[t] = task[t]
    <2>1. \A t \in cut : ~Running(t) /\ ~Waiting(t) /\ ~Claimable(t)
      BY <1>1 DEF Running, Waiting, Claimable
    <2>2. CASE ResetPass(w)
      BY <1>1, <2>1, <2>2 DEF ResetPass
    <2>3. CASE ReleasePass(w)
      BY <1>1, <2>1, <2>3 DEF ReleasePass
    <2>4. CASE Claim(w)
      BY <1>1, <2>1, <2>4 DEF Claim
    <2> QED BY <1>3, <2>2, <2>3, <2>4
  <1>4. ASSUME NEW w \in Workers, NEW u \in Tasks, CommitEffect(w, u)
        PROVE  \A t \in cut' : t \in Tasks /\ task'[t].status = "success"
    <2>1. task'[u].status = IF Exhausted(job[w][u]) THEN "success" ELSE "running"
      BY <1>1, <1>4, CommitRow, CheckpointFields
    <2>2. u \notin cut
      BY <1>1, <1>4 DEF CommitEffect, Committable, Owns, Running
    <2>3. /\ cut' = cut \/ (Exhausted(job[w][u]) /\ cut' = cut \union {u})
          /\ \A t \in Tasks \ {u} : task'[t] = task[t]
      BY <1>1, <1>4 DEF CommitEffect
    <2> QED BY <1>1, <2>1, <2>2, <2>3
  <1>5. ASSUME NEW w \in Workers, NEW u \in Tasks, Yield(w, u) \/ RecordFailure(w, u)
        PROVE  \A t \in cut' : t \in cut /\ task'[t] = task[t]
    BY <1>1, <1>5 DEF Yield, RecordFailure, Owns, Running
  <1>6. UNCHANGED db => cut' = cut /\ task' = task
    BY DEF db
  <1> QED BY <1>1, <1>2, <1>3, <1>4, <1>5, <1>6, NextCases DEF CommitPage, Fault

\* A task that a missing answer ended stays so until a reset takes its status.
LEMMA CutStays ==
    ASSUME IInv, [Next]_vars, NEW t \in cut, t \in Tasks, task'[t].status = "success"
    PROVE  t \in cut'
  <1>1. task[t].status = "success" /\ task \in [Tasks -> TaskRow]
    BY DEF IInv, TypeOK
  <1>2. CASE Quiet
    BY <1>2, QuietKeeps
  <1>3. ASSUME NEW w \in Workers, ResetPass(w) PROVE t \in cut'
    BY <1>1, <1>3 DEF ResetPass, Resettable, ResetTask, NewTask, Running
  <1>4. ASSUME NEW w \in Workers, ReleasePass(w) \/ Claim(w) PROVE t \in cut'
    BY <1>4 DEF ReleasePass, Claim
  <1>5. ASSUME NEW w \in Workers, NEW u \in Tasks, CommitEffect(w, u) \/ UNCHANGED db PROVE t \in cut'
    BY <1>5 DEF CommitEffect, db
  <1>6. ASSUME NEW w \in Workers, NEW u \in Tasks, Yield(w, u) \/ RecordFailure(w, u) PROVE t \in cut'
    BY <1>6 DEF Yield, RecordFailure
  <1> QED BY <1>2, <1>3, <1>4, <1>5, <1>6, NextCases DEF CommitPage, Fault

LEMMA PassKept ==
    ASSUME IInv, [Next]_vars
    PROVE  /\ pc' \in [Workers -> {"off", "claim", "batch", "ended"}]
           /\ faults' \in 0 .. MaxFaults /\ resets' \in 0 .. MaxResets
  <1>1. /\ pc \in [Workers -> {"off", "claim", "batch", "ended"}]
        /\ faults \in 0 .. MaxFaults /\ resets \in 0 .. MaxResets
        /\ MaxFaults \in Nat /\ MaxResets \in Nat
    BY Constants DEF IInv, TypeOK
  <1>2. ASSUME NEW t \in Tasks, NewBar(t) \/ Expire(t)
        PROVE  pc' = pc /\ resets' = resets /\ faults' \in 0 .. MaxFaults
    BY <1>1, <1>2 DEF NewBar, Expire
  <1>3. ASSUME NEW w \in Workers,
               PassStep(w) \/ Rerun(w) \/ ResetPass(w) \/ ReleasePass(w) \/ Crash(w)
        PROVE  /\ pc' \in [Workers -> {"off", "claim", "batch", "ended"}]
               /\ faults' \in 0 .. MaxFaults /\ resets' \in 0 .. MaxResets
    <2>1. CASE StartPass(w) \/ RefusePass(w) \/ Rerun(w) \/ ReleasePass(w)
      BY <1>1, <2>1 DEF StartPass, RefusePass, Rerun, ReleasePass, PassOver
    <2>2. CASE Claim(w)
      BY <1>1, <2>2 DEF Claim, PassOver
    <2>3. CASE EndBatch(w)
      BY <1>1, <2>3 DEF EndBatch, PassOver
    <2>4. CASE ResetPass(w)
      BY <1>1, <2>4 DEF ResetPass
    <2>5. CASE Crash(w)
      BY <1>1, <2>5 DEF Crash, PassOver
    <2> QED BY <1>3, <2>1, <2>2, <2>3, <2>4, <2>5 DEF PassStep
  <1>4. ASSUME NEW w \in Workers, NEW t \in Tasks,
               JobStep(w, t) \/ FetchNothing(w, t) \/ HeartbeatLost(w, t) \/ Fault(w, t)
        PROVE  pc' = pc /\ resets' = resets /\ faults' \in 0 .. MaxFaults
    <2>1. CASE JobStep(w, t)
      BY <1>1, <2>1 DEF JobStep, Enter, Fetch, PageRefused, CommitPage, CommitLost, Yield, RecordFailure
    <2>2. CASE FetchNothing(w, t) \/ HeartbeatLost(w, t) \/ Fault(w, t)
      BY <1>1, <2>2 DEF FetchNothing, HeartbeatLost, Fault
    <2> QED BY <1>4, <2>1, <2>2
  <1>5. CASE UNCHANGED vars
    BY <1>1, <1>5 DEF vars
  <1> QED BY <1>1, <1>2, <1>3, <1>4, <1>5 DEF Next

LEMMA TypesKept == ASSUME IInv, [Next]_vars PROVE TypeOK'
  <1>1. scoped' \in BOOLEAN
    BY RunRangeKept DEF IInv, TypeOK
  <1> QED BY <1>1, TasksTyped, JobsTyped, ProviderGrows, LiveKept, CutKept, PassKept DEF TypeOK, Running

LEMMA ClaimsKept ==
    ASSUME IInv, [Next]_vars
    PROVE  OneOwner' /\ ClaimsOK'
  <1>1. \A t \in Tasks : /\ task[t] \in TaskRow /\ task[t].leases \in Nat /\ task[t].token \in Nat
                         /\ task[t].token <= task[t].leases
                         /\ \A w \in Workers : /\ job[w][t] \in JobRow /\ job[w][t].token \in Nat
                                               /\ job[w][t].token <= task[t].leases
    <2> SUFFICES ASSUME NEW t \in Tasks
                 PROVE  /\ task[t] \in TaskRow /\ task[t].leases \in Nat /\ task[t].token \in Nat
                        /\ task[t].token <= task[t].leases
                        /\ \A w \in Workers : /\ job[w][t] \in JobRow /\ job[w][t].token \in Nat
                                              /\ job[w][t].token <= task[t].leases
      OBVIOUS
    <2>1. task[t] \in TaskRow /\ \A w \in Workers : job[w][t] \in JobRow
      BY DEF IInv, TypeOK
    <2>2. task[t].leases \in Nat /\ task[t].token \in Nat
      BY <2>1, Constants DEF TaskRow
    <2>3. ASSUME NEW w \in Workers PROVE job[w][t].token \in Nat
      <3>1. job[w][t].token \in 0 .. MaxLeases
        BY <2>1, JobFields
      <3> QED BY <3>1, Constants
    <2> QED BY <2>1, <2>2, <2>3 DEF IInv, ClaimsOK
  <1>2. ASSUME NEW t \in Tasks
        PROVE  /\ task'[t].token # 0 <=> task'[t].status = "running"
               /\ task'[t].status = "running" => task'[t].attempts < MaxAttempts
               /\ task'[t].token <= task'[t].leases /\ task'[t].leases >= task[t].leases
               /\ task'[t].leases \in Nat
    <2>1. task'[t] \in TaskRow
      BY TasksTyped
    <2>2. task'[t].leases \in Nat
      BY <2>1, Constants DEF TaskRow
    <2>3. CASE Move(t)
      BY <1>1, <2>2, <2>3, MoveRow
    <2>4. ASSUME NEW w \in Workers, CommitEffect(w, t)
          PROVE  /\ task'[t].token # 0 <=> task'[t].status = "running"
                 /\ task'[t].status = "running" => task'[t].attempts < MaxAttempts
                 /\ task'[t].token <= task'[t].leases /\ task'[t].leases >= task[t].leases
      BY <1>1, <2>4, CommitRow
    <2> QED BY <2>2, <2>3, <2>4, TaskMoves
  <1>3. ASSUME NEW t \in Tasks, NEW w \in Workers
        PROVE  job'[w][t].token <= task'[t].leases
    BY <1>1, <1>2, JobTokens
  <1>4. ASSUME NEW t \in Tasks, NEW v \in Workers, NEW w \in Workers,
               job'[v][t].token # 0, job'[v][t].token = job'[w][t].token
        PROVE  v = w
    <2> SUFFICES ASSUME v # w PROVE FALSE
      OBVIOUS
    <2>6. /\ task[t].leases \in Nat
          /\ job[v][t].token \in Nat /\ job[v][t].token <= task[t].leases
          /\ job[w][t].token \in Nat /\ job[w][t].token <= task[t].leases
      BY <1>1
    <2>1. CASE job'[v][t].token = job[v][t].token /\ job'[w][t].token = job[w][t].token
      BY <1>4, <2>1 DEF IInv, OneOwner
    <2>2. CASE job'[v][t].token = task[t].leases + 1 /\ job'[w][t] = job[w][t]
      <3>1. job[w][t].token = task[t].leases + 1
        BY <1>4, <2>2
      <3> QED BY <2>6, <3>1
    <2>3. CASE job'[w][t].token = task[t].leases + 1 /\ job'[v][t] = job[v][t]
      <3>1. job[v][t].token = task[t].leases + 1
        BY <1>4, <2>3
      <3> QED BY <2>6, <3>1
    <2>4. \/ job'[v][t].token = job[v][t].token
          \/ job'[v][t].token = task[t].leases + 1 /\ job'[w][t] = job[w][t]
      BY <1>4, JobTokens
    <2>5. \/ job'[w][t].token = job[w][t].token
          \/ job'[w][t].token = task[t].leases + 1 /\ job'[v][t] = job[v][t]
      BY <1>4, JobTokens
    <2> QED BY <2>1, <2>2, <2>3, <2>4, <2>5
  <1> QED BY <1>2, <1>3, <1>4 DEF OneOwner, ClaimsOK, Running

\* What a job knows of its provider when it commits a page.
LEMMA CommitKnows ==
    ASSUME IInv, NEW w \in Workers, NEW t \in Tasks, CommitEffect(w, t)
    PROVE  /\ job[w][t].top <= provider[t] /\ ProvenBy(job[w][t]) <= provider[t]
           /\ ProvenBy(job[w][t]) \in 0 .. MaxBar
           /\ scoped => Last <= ProvenBy(job[w][t])
           /\ task'[t].newest <= provider[t] /\ task'[t].proven <= provider[t]
  <1> DEFINE j == job[w][t]
  <1>1. /\ TypeOK /\ j \in JobRow /\ task[t] \in TaskRow /\ provider[t] \in 0 .. MaxBar
        /\ j.top <= provider[t] /\ j.proven <= provider[t]
        /\ task[t].newest <= provider[t] /\ task[t].proven <= provider[t]
    BY DEF IInv, TypeOK, ProviderOK
  <1>2. /\ j.offset \in 0 .. MaxBar /\ j.top \in 0 .. MaxBar /\ j.proven \in 0 .. MaxBar
        /\ Last \in 0 .. MaxBar
    BY <1>1, JobFields, RunRange
  <1>3. task[t].newest \in 0 .. MaxBar /\ task[t].proven \in 0 .. MaxBar
    BY <1>1 DEF TaskRow
  <1>4. ProvenBy(j) \in 0 .. MaxBar /\ ProvenBy(j) <= provider[t]
    BY <1>1, <1>2, RowsInRange, Constants DEF ProvenBy, Larger
  <1>5. ~Refused(j)
    BY DEF CommitEffect
  <1>6. scoped => Last <= ProvenBy(j)
    BY <1>2, <1>4, <1>5, Constants DEF Refused
  <1>7. /\ task'[t].newest = task[t].newest
           \/ task'[t].newest = Larger(task[t].newest, Smaller(Last, j.top - j.offset))
        /\ task'[t].proven = Larger(task[t].proven, ProvenBy(j))
    BY <1>1, CommitRow, CheckpointFields
  <1>8. task'[t].newest <= provider[t]
    BY <1>1, <1>2, <1>3, <1>7, Constants DEF Larger, Smaller
  <1>9. task'[t].proven <= provider[t]
    BY <1>1, <1>3, <1>4, <1>7, Constants DEF Larger
  <1> QED BY <1>1, <1>4, <1>6, <1>8, <1>9

LEMMA ProviderKept == ASSUME IInv, [Next]_vars PROVE ProviderOK'
  <1>1. ASSUME NEW t \in Tasks
        PROVE  /\ task'[t].newest <= provider'[t] /\ task'[t].proven <= provider'[t]
               /\ (scoped' /\ task'[t].offset > 0) => Last' <= provider'[t]
               /\ task'[t].offset = 0 => task'[t].newest = 0
    <2>1. /\ scoped' = scoped /\ Last' = Last /\ Last \in 0 .. MaxBar /\ scoped \in BOOLEAN
          /\ provider[t] \in 0 .. MaxBar /\ provider'[t] \in 0 .. MaxBar /\ provider'[t] >= provider[t]
          /\ task'[t] \in TaskRow /\ task[t] \in TaskRow
      BY RunRangeKept, RunRange, ProviderGrows, TasksTyped DEF IInv, TypeOK
    <2>2. /\ task[t].newest \in 0 .. MaxBar /\ task[t].proven \in 0 .. MaxBar /\ task[t].offset \in 0 .. MaxBar
          /\ task'[t].newest \in 0 .. MaxBar /\ task'[t].proven \in 0 .. MaxBar
      BY <2>1 DEF TaskRow
    <2>3. /\ task[t].newest <= provider[t] /\ task[t].proven <= provider[t]
          /\ (scoped /\ task[t].offset > 0) => Last <= provider[t]
          /\ task[t].offset = 0 => task[t].newest = 0
      BY DEF IInv, ProviderOK
    <2>4. CASE Move(t)
      <3>1. /\ task'[t].proven = task[t].proven
            /\ \/ task'[t].offset = task[t].offset /\ task'[t].newest = task[t].newest
               \/ ~scoped /\ task'[t].newest = 0
        BY <2>4, MoveRow
      <3> QED BY <2>1, <2>2, <2>3, <3>1, Constants
    <2>5. ASSUME NEW w \in Workers, CommitEffect(w, t)
          PROVE  /\ task'[t].newest <= provider'[t] /\ task'[t].proven <= provider'[t]
                 /\ scoped => Last <= provider'[t]
                 /\ task'[t].offset = 0 => task'[t].newest = 0
      <3>2. ASSUME task'[t].offset = 0 PROVE task'[t].newest = 0
        <4> DEFINE j == job[w][t]
        <4>1. /\ j \in JobRow /\ TypeOK /\ task[t].offset = j.offset
              /\ task'[t] = Checkpoint(t, j)
          BY <2>5, CommitRow DEF IInv
        <4>2. task'[t].offset = j.offset + Rows(j) /\ j.offset \in Nat /\ Rows(j) \in Nat
          BY <4>1, CheckpointFields, RowsInRange, JobNumbers
        <4>3. j.offset = 0 /\ Rows(j) = 0
          BY <3>2, <4>2
        <4>4. j.top \in Nat /\ j.top <= 0
          BY <4>1, <4>3, RowsInRange, JobNumbers
        <4>5. j.top = 0
          BY <4>4
        <4> QED BY <2>3, <2>5, <4>1, <4>3, <4>5, CommitRow
      <3>1. /\ ProvenBy(job[w][t]) <= provider[t] /\ ProvenBy(job[w][t]) \in 0 .. MaxBar
            /\ scoped => Last <= ProvenBy(job[w][t])
            /\ task'[t].newest <= provider[t] /\ task'[t].proven <= provider[t]
        BY <2>5, CommitKnows
      <3> QED BY <2>1, <2>2, <3>1, <3>2, Constants
    <2> QED BY <2>1, <2>4, <2>5, TaskMoves
  <1>2. ASSUME NEW t \in Tasks, NEW w \in Workers
        PROVE  job'[w][t].proven <= provider'[t] /\ job'[w][t].top <= provider'[t]
    <2>1. /\ provider[t] \in 0 .. MaxBar /\ provider'[t] \in 0 .. MaxBar /\ provider'[t] >= provider[t]
          /\ job[w][t] \in JobRow /\ task[t] \in TaskRow
      BY ProviderGrows DEF IInv, TypeOK
    <2>2. /\ job[w][t].proven \in 0 .. MaxBar /\ job[w][t].top \in 0 .. MaxBar
          /\ task[t].proven \in 0 .. MaxBar
      BY <2>1, JobFields DEF TaskRow
    <2>3. /\ job[w][t].proven <= provider[t] /\ job[w][t].top <= provider[t]
          /\ task[t].proven <= provider[t]
      BY DEF IInv, ProviderOK
    <2>4. /\ job'[w][t].proven \in {0, job[w][t].proven, task[t].proven}
          /\ job'[w][t].top \in {0, job[w][t].top, provider[t]}
      BY JobTokens
    <2> QED BY <2>1, <2>2, <2>3, <2>4, Constants
  <1> QED BY <1>1, <1>2 DEF ProviderOK

\* After a commit every bar from the page upwards is stored.
LEMMA CommitCovers ==
    ASSUME IInv, NEW w \in Workers, NEW t \in Tasks, CommitEffect(w, t), job[w][t].top > 0,
           NEW b \in Bars, Stop < b, b <= IF scoped THEN Last ELSE task'[t].newest,
           job[w][t].top - job[w][t].offset - Rows(job[w][t]) < b
    PROVE  b \in klines'[t]
  <1> DEFINE j == job[w][t]
  <1>1. /\ TypeOK /\ j \in JobRow /\ task[t] \in TaskRow /\ klines'[t] = klines[t] \union Written(j)
        /\ j.pc = "page" /\ task[t].token # 0 /\ task[t].token = j.token /\ task[t].offset = j.offset
    BY CommitRow DEF IInv, TypeOK
  <1>7. j.offset \in Nat /\ j.top \in Nat /\ j.proven \in Nat /\ j.top <= MaxBar
    BY <1>1, JobNumbers
  <1>8. task[t].newest \in 0 .. MaxBar
    BY <1>1 DEF TaskRow
  <1>9. Last \in 0 .. MaxBar /\ scoped \in BOOLEAN /\ (~scoped => Last = MaxBar)
    BY <1>1, RunRange
  <1>2. /\ j.top \in 0 .. MaxBar /\ j.proven \in Nat /\ j.offset \in Nat
        /\ task[t].newest \in 0 .. MaxBar /\ b \in Nat /\ b <= MaxBar /\ b > 0
    BY <1>7, <1>8, Constants DEF Bars
  <1>3. /\ j.proven <= j.top /\ task[t].newest <= j.top
        /\ (/\ j.offset > 0 /\ j.top - j.offset < b /\ b <= Upto(t)) => b \in klines[t]
    BY <1>1 DEF IInv, PageOK
  <1>4. /\ \/ task'[t].newest = task[t].newest
           \/ task'[t].newest = Larger(task[t].newest, Smaller(Last, j.top - j.offset))
    BY <1>1, CommitRow, CheckpointFields
  <1>5. CASE b <= j.top - j.offset
    <2>1. b \in Page(j)
      BY <1>1, <1>5, PageRows
    <2>2. b <= Last
      BY <1>2, <1>9
    <2> QED BY <1>1, <2>1, <2>2 DEF Written
  <1>6. CASE j.top - j.offset < b
    <2>1. b <= Upto(t)
      <3>1. CASE scoped
        BY <3>1 DEF Upto
      <3>2. CASE ~scoped
        BY <1>2, <1>4, <1>6, <1>9, <3>2, Constants DEF Upto, Larger, Smaller
      <3> QED BY <3>1, <3>2
    <2>2. j.offset > 0
      <3> SUFFICES ASSUME j.offset = 0 PROVE FALSE
        BY <1>2, Constants
      <3>1. j.top < b
        BY <1>2, <1>6
      <3>2. CASE ~scoped
        BY <1>2, <1>3, <2>1, <3>1, <3>2, Constants DEF Upto
      <3>3. CASE scoped
        <4>1. Last <= ProvenBy(j)
          BY <3>3, CommitKnows
        <4>2. ProvenBy(j) <= j.top
          BY <1>2, <1>3, Constants DEF ProvenBy, Larger
        <4> QED BY <1>2, <1>9, <3>1, <3>3, <4>1, <4>2, CommitKnows, Constants
      <3> QED BY <3>2, <3>3
    <2> QED BY <1>1, <1>3, <1>6, <2>1, <2>2
  <1> QED BY <1>2, <1>5, <1>6, Constants

LEMMA CoveredKept == ASSUME IInv, [Next]_vars PROVE Covered'
  <1> SUFFICES ASSUME NEW t \in Tasks, NEW b \in Bars, task'[t].offset > 0,
                      provider'[t] - task'[t].offset < b, Stop < b,
                      b <= IF scoped THEN Last ELSE task'[t].newest
               PROVE  b \in klines'[t]
    BY RunRangeKept DEF Covered, Upto
  <1>1. /\ provider[t] \in 0 .. MaxBar /\ provider'[t] \in 0 .. MaxBar /\ provider'[t] >= provider[t]
        /\ task'[t] \in TaskRow /\ b \in Nat
    BY ProviderGrows, TasksTyped, Constants DEF Bars
  <1>2. task'[t].offset \in 0 .. MaxBar
    BY <1>1 DEF TaskRow
  <1>3. ASSUME klines'[t] = klines[t], task'[t].offset = task[t].offset, task'[t].newest = task[t].newest
        PROVE  b \in klines'[t]
    <2>1. provider[t] - task[t].offset < b
      BY <1>1, <1>2, <1>3, Constants
    <2> QED BY <1>3, <2>1 DEF IInv, Covered, Upto
  <1>4. CASE Move(t) /\ klines'[t] = klines[t]
    <2>1. task'[t].offset = task[t].offset /\ task'[t].newest = task[t].newest
      BY <1>2, <1>4, MoveRow, Constants
    <2> QED BY <1>3, <1>4, <2>1
  <1>5. ASSUME NEW w \in Workers, CommitEffect(w, t) PROVE b \in klines'[t]
    <2>1. job[w][t] \in JobRow /\ job[w][t].top <= provider[t]
          /\ task'[t].offset = job[w][t].offset + Rows(job[w][t])
      BY <1>5, CommitRow, CheckpointFields, CommitKnows DEF IInv
    <2>2. job[w][t].top \in Nat /\ job[w][t].offset \in Nat /\ Rows(job[w][t]) \in Nat
      BY <2>1, JobNumbers, RowsInRange
    <2>3. job[w][t].top - job[w][t].offset - Rows(job[w][t]) < b
      BY <1>1, <2>1, <2>2, Constants
    <2>4. CASE job[w][t].top > 0
      BY <1>5, <2>3, <2>4, CommitCovers
    <2>5. CASE job[w][t].top = 0
      BY <1>3, <1>5, <2>5, CommitRow
    <2> QED BY <2>2, <2>4, <2>5
  <1> QED BY <1>4, <1>5, TaskMoves

LEMMA SuccessKept == ASSUME IInv, [Next]_vars PROVE SuccessComplete'
  <1> SUFFICES ASSUME NEW t \in Tasks, NEW b \in Bars, task'[t].status = "success",
                      scoped \/ t \notin cut', Stop < b,
                      b <= IF scoped THEN Last ELSE task'[t].newest
               PROVE  b \in klines'[t]
    BY RunRangeKept DEF SuccessComplete, Upto
  <1>1. CASE Move(t) /\ klines'[t] = klines[t]
    <2>1. task[t].status = "success" /\ task'[t].newest = task[t].newest
      BY <1>1, MoveRow
    <2>2. scoped \/ t \notin cut
      BY <2>1, CutStays
    <2> QED BY <1>1, <2>1, <2>2 DEF IInv, SuccessComplete, Upto
  <1>2. ASSUME NEW w \in Workers, CommitEffect(w, t) PROVE b \in klines'[t]
    <2> DEFINE j == job[w][t]
    <2>1. j \in JobRow /\ task'[t].status = IF Exhausted(j) THEN "success" ELSE "running"
      BY <1>2, CommitRow, CheckpointFields DEF IInv
    <2>2. Exhausted(j) /\ b \in Nat /\ b > 0 /\ Stop \in Nat /\ scoped \in BOOLEAN
      BY <2>1, Constants, RunRange DEF Bars, IInv
    <2>3. j.top \in Nat /\ j.offset \in Nat /\ Rows(j) \in Nat
      BY <2>1, JobNumbers, RowsInRange
    <2>4. j.top - j.offset - Rows(j) < b
      <3>1. CASE scoped
        <4>1. PICK p \in Page(j) : p <= Stop
          BY <2>2, <3>1 DEF Exhausted, StopReached
        <4>2. p \in Bars /\ p \in Nat
          BY <4>1, Constants DEF Page, Bars
        <4>3. j.top - j.offset - Rows(j) < p
          BY <2>1, <4>1, <4>2, PageRows
        <4> QED BY <2>2, <2>3, <4>1, <4>2, <4>3
      <3>2. CASE ~scoped
        <4>1. Rows(j) >= j.top - j.offset
          BY <2>1, <2>2, <3>2, RowsInRange DEF Exhausted
        <4> QED BY <2>2, <2>3, <4>1
      <3> QED BY <2>2, <3>1, <3>2
    <2>5. j.top > 0
      <3> SUFFICES ASSUME j.top = 0 PROVE FALSE
        BY <2>3
      <3>1. CASE scoped
        <4>1. PICK p \in Page(j) : TRUE
          BY <2>2, <3>1 DEF Exhausted, StopReached
        <4>2. p \in Bars /\ p <= 0 - j.offset
          BY <4>1 DEF Page
        <4> QED BY <2>3, <4>2, Constants DEF Bars
      <3>2. CASE ~scoped
        <4>1. ~(j.top < j.offset)
          BY <1>2, <2>2, <3>2 DEF CommitEffect
        <4>2. task[t].offset = 0 /\ task'[t].newest = task[t].newest
          BY <1>2, <2>3, <4>1, CommitRow
        <4>3. task'[t].newest = 0
          BY <4>2 DEF IInv, ProviderOK
        <4> QED BY <2>2, <3>2, <4>3
      <3> QED BY <2>2, <3>1, <3>2
    <2> QED BY <1>2, <2>4, <2>5, CommitCovers
  <1> QED BY <1>1, <1>2, TaskMoves

LEMMA PageKept == ASSUME IInv, [Next]_vars PROVE PageOK'
  <1> SUFFICES ASSUME NEW w \in Workers, NEW t \in Tasks, job'[w][t].pc = "page", job'[w][t].top > 0,
                      task'[t].token # 0, task'[t].token = job'[w][t].token,
                      task'[t].offset = job'[w][t].offset
               PROVE  /\ job'[w][t].proven <= job'[w][t].top /\ task'[t].newest <= job'[w][t].top
                      /\ \A b \in Bars :
                            (/\ task'[t].offset > 0 /\ job'[w][t].top - task'[t].offset < b
                             /\ Stop < b /\ b <= IF scoped THEN Last ELSE task'[t].newest)
                                => b \in klines'[t]
    BY RunRangeKept DEF PageOK, Upto
  <1>1. CASE /\ UNCHANGED <<provider, db>> /\ job'[w][t].top = provider[t]
             /\ job'[w][t].token = job[w][t].token /\ job'[w][t].offset = job[w][t].offset
             /\ job'[w][t].proven = job[w][t].proven
    <2>1. provider' = provider /\ klines' = klines /\ task' = task
      BY <1>1 DEF db
    <2>2. job[w][t].proven <= provider[t] /\ task[t].newest <= provider[t]
      BY DEF IInv, ProviderOK
    <2>3. \A b \in Bars : (/\ task[t].offset > 0 /\ provider[t] - task[t].offset < b
                           /\ Stop < b /\ b <= Upto(t)) => b \in klines[t]
      BY DEF IInv, Covered
    <2> QED BY <1>1, <2>1, <2>2, <2>3 DEF Upto
  <1>2. CASE job'[w][t] = job[w][t]
    <2>1. /\ job[w][t] \in JobRow /\ task[t] \in TaskRow
          /\ job[w][t].token <= task[t].leases /\ job[w][t].pc = "page" /\ job[w][t].token # 0
      BY <1>2 DEF IInv, TypeOK, ClaimsOK
    <2>2. task[t].leases \in Nat /\ job[w][t].token \in Nat
      BY <2>1, JobNumbers, Constants DEF TaskRow
    <2>3. CASE Move(t) /\ klines'[t] = klines[t]
      <3>1. task'[t].token = job[w][t].token /\ task'[t].token # task[t].leases + 1
        BY <1>2, <2>1, <2>2
      <3>2. task'[t] = task[t]
        BY <2>3, <3>1, MoveRow
      <3> QED BY <1>2, <2>3, <3>2 DEF IInv, PageOK, Upto
    <2>4. ASSUME NEW v \in Workers, CommitEffect(v, t) PROVE FALSE
      <3> DEFINE j == job[v][t]
      <3>1. /\ task'[t].token = task[t].token /\ task[t].token = j.token /\ task[t].offset = j.offset
            /\ j \in JobRow /\ task[t].token # 0 /\ TypeOK
            /\ task'[t] = Checkpoint(t, j)
        BY <2>4, CommitRow DEF IInv
      <3>2. v = w
        BY <1>2, <3>1 DEF IInv, OneOwner
      <3>3. task'[t].offset = j.offset + Rows(j) /\ ~Exhausted(j)
        BY <3>1, CheckpointFields
      <3>4. ~Refused(j) /\ Rows(j) \in Nat /\ j.offset \in Nat
        BY <2>4, <3>1, RowsInRange, JobNumbers DEF CommitEffect
      <3>5. Rows(j) > 0
        BY <3>1, <3>3, <3>4, Constants, RunRange DEF Exhausted, Refused
      <3>6. task'[t].offset = j.offset
        BY <1>2, <3>2
      <3> QED BY <3>3, <3>4, <3>5, <3>6
    <2> QED BY <2>3, <2>4, TaskMoves
  <1>3. CASE job'[w][t].top = 0
    BY <1>3
  <1> QED BY <1>1, <1>2, <1>3, JobTokens

-----------------------------------------------------------------------------
(* The theorems.                                                             *)

LEMMA InitHolds == Init => IInv
  <1> SUFFICES ASSUME Init PROVE IInv
    OBVIOUS
  <1>1. 0 \in 0 .. MaxBar /\ 0 \in 0 .. MaxLeases /\ 0 \in 0 .. MaxAttempts /\ 0 \in 0 .. MaxPages
        /\ 0 \in 0 .. MaxFaults /\ 0 \in 0 .. MaxResets /\ 0 < MaxAttempts
    BY Constants
  <1>2. NewTask \in TaskRow /\ NoJob \in JobRow
    BY <1>1 DEF NewTask, TaskRow, NoJob, JobRow
  <1>3. \A t \in Tasks : task[t] = NewTask /\ \A w \in Workers : job[w][t] = NoJob
    BY DEF Init, NoJobs
  <1>4. \A t \in Tasks : provider[t] \in 0 .. MaxBar
    BY Constants DEF Init
  <1>11. scoped \in BOOLEAN /\ Stop \in 0 .. MaxBar
    BY <1>1, Constants DEF Init, Stop
  <1>5. klines \in [Tasks -> SUBSET Bars]
    <2>1. 1 .. Stop \subseteq Bars
      BY <1>11, Constants DEF Bars
    <2> QED BY <2>1 DEF Init
  <1>6. TypeOK
    BY <1>1, <1>2, <1>3, <1>4, <1>5, <1>11 DEF Init, TypeOK, NoJobs
  <1>7. OneOwner /\ ClaimsOK
    BY <1>1, <1>3 DEF OneOwner, ClaimsOK, Running, NewTask, NoJob
  <1>8. ProviderOK
    <2>1. \A t \in Tasks : 0 <= provider[t]
      BY <1>4, Constants
    <2> QED BY <1>3, <2>1 DEF ProviderOK, NewTask, NoJob
  <1>9. Covered /\ SuccessComplete
    BY <1>3 DEF Covered, SuccessComplete, NewTask
  <1>10. PageOK
    BY <1>3 DEF PageOK, NoJob
  <1> QED BY <1>6, <1>7, <1>8, <1>9, <1>10 DEF IInv

LEMMA StepKeeps == IInv /\ [Next]_vars => IInv'
  BY TypesKept, ClaimsKept, ProviderKept, CoveredKept, SuccessKept, PageKept DEF IInv

\* The parts of the invariant hold together in every state the backfill reaches.
THEOREM BackfillInvariant == Spec => []IInv
  BY InitHolds, StepKeeps, PTL DEF Spec

(* Tasks and jobs keep their types, a live lease belongs to a running task,  *)
(* and no task is tried more than max_attempts times (claim_tasks,           *)
(* reset_running, record_failure).                                           *)
THEOREM BackfillTypes == Spec => []TypeOK
  <1>1. IInv => TypeOK
    BY DEF IInv
  <1> QED BY <1>1, BackfillInvariant, PTL

(* lease_version makes every claim unique: two jobs never hold the same one, *)
(* and a task has a claim token exactly while it is running.                 *)
THEOREM ClaimsAreExclusive == Spec => []OneOwner
  <1>1. IInv => OneOwner
    BY DEF IInv
  <1> QED BY <1>1, BackfillInvariant, PTL

(* The checkpoint that commit_history_backfill_page writes never passes over *)
(* a bar that is not stored, whatever arrives, expires, fails or dies.       *)
THEOREM CheckpointNeverLies == Spec => []Covered
  <1>1. IInv => Covered
    BY DEF IInv
  <1> QED BY <1>1, BackfillInvariant, PTL

(* A task that became success has every bar of its range, without a gap.     *)
THEOREM SuccessMeansComplete == Spec => []SuccessComplete
  <1>1. IInv => SuccessComplete
    BY DEF IInv
  <1> QED BY <1>1, BackfillInvariant, PTL

\* Nobody but the job itself moves the task of a live claim.
LEMMA OthersLeave ==
    ASSUME IInv, [Next]_vars, NEW w \in Workers, NEW t \in Tasks, Owns(w, t),
           job'[w][t] = job[w][t]
    PROVE  task'[t] = task[t]
  <1>1. /\ Running(t) /\ task[t].token = job[w][t].token /\ t \in live /\ task[t].token # 0
        /\ task \in [Tasks -> TaskRow] /\ job \in [Workers -> [Tasks -> JobRow]]
    BY DEF IInv, TypeOK, OneOwner, Owns
  <1>2. \A v \in Workers : job[v][t].token = task[t].token => v = w
    BY <1>1 DEF IInv, OneOwner
  <1>3. CASE Quiet
    BY <1>3, QuietKeeps
  <1>4. ASSUME NEW v \in Workers, ResetPass(v) \/ ReleasePass(v) \/ Claim(v) PROVE task'[t] = task[t]
    <2>1. ~Resettable(t) /\ ~Waiting(t) /\ ~Claimable(t)
      BY <1>1 DEF Resettable, Waiting, Claimable, Running
    <2>2. CASE ResetPass(v)
      BY <2>1, <2>2 DEF ResetPass
    <2>3. CASE ReleasePass(v)
      BY <1>1, <2>3 DEF ReleasePass
    <2>4. CASE Claim(v)
      BY <2>1, <2>4 DEF Claim
    <2> QED BY <1>4, <2>2, <2>3, <2>4
  <1>5. ASSUME NEW v \in Workers, NEW u \in Tasks, Yield(v, u) \/ RecordFailure(v, u) PROVE task'[t] = task[t]
    <2>1. CASE u # t
      BY <1>1, <1>5, <2>1 DEF Yield, RecordFailure
    <2>2. CASE u = t /\ ~Owns(v, u)
      BY <1>5, <2>2 DEF Yield, RecordFailure
    <2>3. CASE u = t /\ Owns(v, u)
      <3>1. v = w
        BY <1>2, <2>3 DEF Owns
      <3>2. job[w][t].pc \in {"yield", "fail"} /\ Becomes(w, t, "done")
        BY <1>5, <2>3, <3>1 DEF Yield, RecordFailure
      <3>3. job'[w][t].pc = "done"
        BY <1>1, <3>2 DEF Becomes, Stopped
      <3> QED BY <3>2, <3>3
    <2> QED BY <2>1, <2>2, <2>3
  <1>6. ASSUME NEW v \in Workers, NEW u \in Tasks, CommitPage(v, u) \/ Fault(v, u) PROVE task'[t] = task[t]
    <2>1. CASE ~CommitEffect(v, u)
      BY <1>6, <2>1 DEF CommitPage, Fault, db
    <2>2. CASE CommitEffect(v, u) /\ u # t
      BY <1>1, <2>2 DEF CommitEffect
    <2>3. CASE CommitEffect(v, u) /\ u = t
      <3>1. v = w /\ job[w][t].pc = "page"
        BY <1>2, <2>3, CommitRow
      <3>2. CASE CommitPage(w, t)
        <4>1. job'[w][t] = AfterPage(job[w][t]) /\ job[w][t] \in JobRow
          BY <1>1, <3>2 DEF CommitPage
        <4> QED BY <3>1, <4>1, AfterPageIsRow
      <3>3. CASE Fault(w, t)
        <4>1. job'[w][t].pc = "fail"
          BY <1>1, <3>3 DEF Fault, Becomes, Stopped
        <4> QED BY <3>1, <4>1
      <3> QED BY <1>6, <2>3, <3>1, <3>2, <3>3
    <2> QED BY <2>1, <2>2, <2>3
  <1> QED BY <1>3, <1>4, <1>5, <1>6, NextCases

(* While its lease is live, only the job that holds a claim moves the task:  *)
(* every other worker, however late, reset or restarted, leaves it alone.    *)
THEOREM LiveClaimsAreKept == Spec => ClaimKept
  <1>1. ASSUME IInv, [Next]_vars, NEW w \in Workers, NEW t \in Tasks, Owns(w, t), job'[w][t] = job[w][t]
        PROVE  /\ task'[t].token = task[t].token /\ task'[t].offset = task[t].offset
               /\ task'[t].attempts = task[t].attempts
    BY <1>1, OthersLeave
  <1>2. IInv /\ [Next]_vars =>
          [\A w \in Workers, t \in Tasks :
              (Owns(w, t) /\ job'[w][t] = job[w][t])
                  => /\ task'[t].token = task[t].token /\ task'[t].offset = task[t].offset
                     /\ task'[t].attempts = task[t].attempts]_vars
    BY <1>1
  <1> QED BY <1>2, BackfillInvariant, PTL DEF Spec, ClaimKept

==============================================================================
