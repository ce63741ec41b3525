------------------------- MODULE FullRecomputeProofs -------------------------
(* Theorems of FullRecompute, for any scopes, shards, modes, workers and     *)
(* bounds: the types, that a scope is published once and by its last claim,  *)
(* that an ended batch stays as it ended, that nobody else's head is         *)
(* replaced, and what the seal attests.                                      *)
EXTENDS FullRecompute, TLAPS

-----------------------------------------------------------------------------
(* The inductive invariant.  What a completed task says is lasting because   *)
(* every change of a task needs a running batch, and a batch stops running   *)
(* only when no task is left to change.                                      *)

TaskShape ==
    \A s \in Scopes :
        /\ task[s].status = "running" => task[s].attempts >= 1
        /\ s \notin Eligible => task[s].status \in {"none", "excluded"}
        /\ s \in Eligible => task[s].status # "excluded"
        /\ s \in Eligible /\ child # "none" => task[s].status # "none"
        /\ parent = "none" => task[s].status = "none"
        /\ child \in {"completed", "failed"} => ~Unfinished(task[s])

ControlShape == parent = "none" => child = "none"

Holding == {"compute", "publish", "failing"}

WorkerShape ==
    \A w \in Workers : worker[w].pc \in Holding =>
        worker[w].scope \in Scopes /\ worker[w].lease >= 1

HeadShape ==
    \A s \in Eligible, m \in Modes :
        /\ head[s][m].mine => head[s][m].to >= Target
        /\ head[s][m].by = "task" => head[s][m].mine
        /\ head[s][m].by = "other" /\ head[s][m].n = 0 => head[s][m].to <= Target

IInv ==
    /\ TypeOK /\ TaskShape /\ ControlShape /\ WorkerShape /\ HeadShape
    /\ PublishedByLastClaim /\ CompletedCovered /\ EndIsEnd

-----------------------------------------------------------------------------
(* The records the actions build.                                            *)

LEMMA Records ==
    /\ NoHead \in HeadRow /\ EarlierHeads \subseteq HeadRow
    /\ NoTask \in Task /\ Off \in Process
  <1>1. 0 \in 0 .. MaxAttempts
    BY AttemptsAssumption
  <1>2. NoHead \in HeadRow /\ EarlierHeads \subseteq HeadRow
    <2>1. NoHead \in HeadRow
      BY DEF NoHead, HeadRow, Target
    <2>2. ASSUME NEW h \in EarlierHeads PROVE h \in HeadRow
      <3>1. /\ h = [by |-> h.by, n |-> h.n, to |-> h.to, mine |-> h.mine, same |-> h.same]
            /\ h.by = "other" /\ h.n = 0 /\ h.mine = FALSE /\ h.same \in BOOLEAN
            /\ h.to \in {Target - 1, Target}
        BY <2>2 DEF EarlierHeads
      <3>2. h.to \in 0 .. Target + 1 /\ h.n \in Nat
        BY <3>1 DEF Target
      <3> QED BY <3>1, <3>2 DEF HeadRow
    <2> QED BY <2>1, <2>2
  <1>3. [m \in Modes |-> NoRun] \in [Modes -> Runs]
    BY DEF NoRun, Runs
  <1>4. NoTask \in Task
    BY <1>1, <1>3 DEF NoTask, Task
  <1>5. Off \in Process
    BY <1>1 DEF Off, Process
  <1> QED BY <1>2, <1>4, <1>5

\* A frozen task is a task, pending exactly when the scope is eligible.
LEMMA FrozenType ==
    ASSUME TypeOK, NEW s \in Scopes
    PROVE  /\ Frozen(s) \in Task
           /\ Frozen(s).attempts = 0
           /\ Frozen(s).status = IF s \in Eligible THEN "pending" ELSE "excluded"
  <1>1. CASE s \in Eligible
    <2>1. [m \in Modes |-> RunOf(head[s][m])] \in [Modes -> Runs]
      <3>1. \A m \in Modes : head[s][m] \in HeadRow
        BY <1>1 DEF TypeOK
      <3>2. \A m \in Modes : RunOf(head[s][m]) \in Runs
        BY <3>1 DEF HeadRow, RunOf, Runs
      <3> QED BY <3>2
    <2>2. Frozen(s) = [status |-> "pending", attempts |-> 0, live |-> FALSE,
                       expected |-> [m \in Modes |-> RunOf(head[s][m])]]
      BY <1>1 DEF Frozen, NoTask
    <2> QED BY <1>1, <2>1, <2>2, AttemptsAssumption DEF Task
  <1>2. CASE s \notin Eligible
    <2>1. [m \in Modes |-> NoRun] \in [Modes -> Runs]
      BY DEF NoRun, Runs
    <2>2. Frozen(s) = [status |-> "excluded", attempts |-> 0, live |-> FALSE,
                       expected |-> [m \in Modes |-> NoRun]]
      BY <1>2 DEF Frozen, NoTask
    <2> QED BY <1>2, <2>1, <2>2, AttemptsAssumption DEF Task
  <1> QED BY <1>1, <1>2

LEMMA InitOK == Init => IInv
  <1> SUFFICES ASSUME Init PROVE IInv
    OBVIOUS
  <1> USE DEF Init
  <1>1. PICK old \in [Headed -> EarlierHeads] :
            head = [s \in Eligible |-> [m \in Modes |->
                       IF s \in Headed THEN old[s] ELSE NoHead]]
    OBVIOUS
  <1>2. \A s \in Eligible, m \in Modes : head[s][m] \in EarlierHeads \union {NoHead}
    BY <1>1
  <1>3. head \in [Eligible -> [Modes -> HeadRow]]
    BY <1>1, Records
  <1>4. TypeOK
    <2>1. task \in [Scopes -> Task] /\ worker \in [Workers -> Process]
      BY Records
    <2>2. moves \in 0 .. MaxMoves /\ faults \in 0 .. MaxFaults
      BY BoundsAssumption
    <2>3. active \in [Scopes -> BOOLEAN] /\ published \in [Scopes -> SUBSET (1 .. MaxAttempts)]
      OBVIOUS
    <2> HIDE DEF Init
    <2>4. waiting \subseteq Eligible \X Modes /\ died \in BOOLEAN
      BY DEF Init
    <2>5. /\ parent \in {"none", "planned", "running", "sealed"}
          /\ child \in {"none", "pending", "running", "completed", "failed"}
      BY DEF Init
    <2> QED BY <1>3, <2>1, <2>2, <2>3, <2>4, <2>5 DEF TypeOK
  <1>5. TaskShape /\ ControlShape /\ EndIsEnd
    BY DEF TaskShape, ControlShape, EndIsEnd, NoTask
  <1>6. WorkerShape
    BY DEF WorkerShape, Holding, Off
  <1>7. HeadShape
    <2> HIDE DEF Init
    <2>1. \A s \in Eligible, m \in Modes :
              head[s][m].mine = FALSE /\ head[s][m].by # "task" /\ head[s][m].to <= Target
      <3>1. ASSUME NEW h \in EarlierHeads
            PROVE  h.mine = FALSE /\ h.by # "task" /\ h.to <= Target
        <4>1. h.by = "other" /\ h.mine = FALSE /\ h.to \in {Target - 1, Target}
          BY DEF EarlierHeads
        <4> QED BY <4>1 DEF Target
      <3>2. NoHead.mine = FALSE /\ NoHead.by = "none" /\ NoHead.to <= Target
        BY DEF NoHead, Target
      <3>3. TAKE s \in Eligible, m \in Modes
      <3>4. CASE head[s][m] \in EarlierHeads
        BY <3>1, <3>4
      <3>5. CASE head[s][m] = NoHead
        BY <3>2, <3>5
      <3> QED BY <1>2, <3>4, <3>5
    <2> QED BY <2>1 DEF HeadShape
  <1>8. PublishedByLastClaim /\ CompletedCovered
    BY EligibleAssumption DEF PublishedByLastClaim, CompletedCovered, NoTask
  <1> QED BY <1>4, <1>5, <1>6, <1>7, <1>8 DEF IInv

-----------------------------------------------------------------------------
(* The types.                                                                *)

LEMMA TypeStep ==
    ASSUME IInv, Next
    PROVE  TypeOK'
  <1> USE DEF IInv
  <1>1. /\ task \in [Scopes -> Task] /\ worker \in [Workers -> Process]
        /\ head \in [Eligible -> [Modes -> HeadRow]]
    BY DEF TypeOK
  <1>3. ASSUME NEW w \in Workers,
               NEW pc \in {"new", "claim", "compute", "publish", "failing", "finalize", "done"}
        PROVE  /\ Goto(w, pc) => worker' \in [Workers -> Process]
               /\ Leave(w, pc) => worker' \in [Workers -> Process]
    BY <1>1, Records DEF Goto, Leave, Process
  <1>4. ASSUME faults < MaxFaults, faults' = faults + 1
        PROVE  faults' \in 0 .. MaxFaults
    BY <1>4, BoundsAssumption DEF TypeOK
  <1>5. CASE Prepare
    <2>1. task' \in [Scopes -> Task]
      BY <1>5, FrozenType DEF Prepare
    <2> QED BY <1>1, <1>5, <2>1 DEF Prepare, TypeOK
  <1>6. CASE Activate
    BY <1>1, <1>6 DEF Activate, TypeOK
  <1>7. CASE Seal
    BY <1>1, <1>7 DEF Seal, TypeOK
  <1>8. ASSUME NEW w \in Workers, Start(w) \/ NothingToClaim(w) \/ Computed(w)
                                  \/ RefusePublish(w)
        PROVE  TypeOK'
    BY <1>1, <1>3, <1>8 DEF Start, NothingToClaim, Computed, RefusePublish, TypeOK
  <1>9. ASSUME NEW w \in Workers, Claim(w)
        PROVE  TypeOK'
    <2>1. PICK s \in Candidates(w) :
              /\ task' = [task EXCEPT ![s].status = "running", ![s].live = TRUE,
                                      ![s].attempts = @ + 1]
              /\ worker' = [worker EXCEPT ![w] =
                     [pc |-> "compute", scope |-> s, lease |-> task[s].attempts + 1]]
      BY <1>9 DEF Claim
    <2>2. s \in Scopes /\ task[s].attempts < MaxAttempts
      BY <2>1 DEF Candidates, Claimable
    <2>3. task[s].attempts + 1 \in 0 .. MaxAttempts
      BY <1>1, <2>2, AttemptsAssumption DEF Task
    <2>4. task' \in [Scopes -> Task] /\ worker' \in [Workers -> Process]
      BY <1>1, <2>1, <2>2, <2>3 DEF Task, Process
    <2> QED BY <1>1, <1>9, <2>4 DEF Claim, TypeOK
  <1>10. ASSUME NEW w \in Workers, Raise(w) \/ Die(w)
         PROVE  TypeOK'
    BY <1>1, <1>3, <1>4, <1>10 DEF Raise, Die, TypeOK
  <1>11. ASSUME NEW w \in Workers, Publish(w)
         PROVE  TypeOK'
    <2> DEFINE s == worker[w].scope
    <2>1. s \in Eligible /\ s \in Scopes /\ Owns(w)
      BY <1>11, EligibleAssumption DEF Publish, HeadsAsFrozen
    <2>2. worker[w].lease \in 1 .. MaxAttempts
      BY <1>1, <1>11 DEF Publish, WorkerShape, Holding, Process
    <2>3. task' \in [Scopes -> Task]
      BY <1>1, <1>11 DEF Publish, Task
    <2>4. head' \in [Eligible -> [Modes -> HeadRow]]
      <3>1. [by |-> "task", n |-> worker[w].lease, to |-> Target,
             mine |-> TRUE, same |-> TRUE] \in HeadRow
        BY <2>2, AttemptsAssumption DEF HeadRow, Target
      <3> QED BY <1>1, <1>11, <3>1 DEF Publish
    <2>5. published' \in [Scopes -> SUBSET (1 .. MaxAttempts)]
      BY <1>11, <2>2 DEF Publish, TypeOK
    <2>6. waiting' \subseteq Eligible \X Modes
      BY <1>11, <2>1 DEF Publish, TypeOK
    <2> QED BY <1>1, <1>3, <1>11, <2>3, <2>4, <2>5, <2>6 DEF Publish, TypeOK
  <1>12. ASSUME NEW w \in Workers, Fail(w)
         PROVE  TypeOK'
    <2>1. task' \in [Scopes -> Task]
      BY <1>1, <1>12 DEF Fail, Task
    <2> QED BY <1>1, <1>3, <1>12, <2>1 DEF Fail, TypeOK
  <1>13. ASSUME NEW w \in Workers, Finalize(w)
         PROVE  TypeOK'
    BY <1>1, <1>3, <1>13 DEF Finalize, TypeOK
  <1>14. ASSUME NEW s \in Scopes, Expire(s)
         PROVE  TypeOK'
    <2>1. task' \in [Scopes -> Task]
      BY <1>1, <1>14 DEF Expire, Task
    <2> QED BY <1>1, <1>14, <2>1 DEF Expire, TypeOK
  <1>15. ASSUME NEW s \in Scopes, Deactivate(s)
         PROVE  TypeOK'
    BY <1>1, <1>4, <1>15 DEF Deactivate, TypeOK
  <1>16. ASSUME NEW s \in Eligible, NEW m \in Modes, Move(s, m)
         PROVE  TypeOK'
    <2>1. PICK to \in head[s][m].to .. Target + 1, same \in BOOLEAN :
              head' = [head EXCEPT ![s][m] =
                  [by |-> "other", n |-> moves + 1, to |-> to, mine |-> @.mine,
                   same |-> same]]
      BY <1>16 DEF Move
    <2>2. head[s][m] \in HeadRow
      BY <1>1
    <2>3. to \in 0 .. Target + 1 /\ moves + 1 \in Nat
      BY <2>1, <2>2 DEF HeadRow, Target, TypeOK
    <2>4. [by |-> "other", n |-> moves + 1, to |-> to, mine |-> head[s][m].mine,
           same |-> same] \in HeadRow
      BY <2>2, <2>3 DEF HeadRow
    <2>5. head' \in [Eligible -> [Modes -> HeadRow]]
      BY <1>1, <2>1, <2>4
    <2>6. moves' \in 0 .. MaxMoves
      BY <1>16, BoundsAssumption DEF Move, TypeOK
    <2>7. waiting' \subseteq Eligible \X Modes
      BY <1>16 DEF Move, TypeOK
    <2> QED BY <1>1, <1>16, <2>5, <2>6, <2>7 DEF Move, TypeOK
  <1>17. ASSUME NEW s \in Eligible, NEW m \in Modes, Observe(s, m)
         PROVE  TypeOK'
    BY <1>1, <1>17 DEF Observe, TypeOK
  <1> QED BY <1>5, <1>6, <1>7, <1>8, <1>9, <1>10, <1>11, <1>12, <1>13, <1>14,
             <1>15, <1>16, <1>17 DEF Next, Work

-----------------------------------------------------------------------------
(* The shapes.                                                               *)

LEMMA ShapeStep ==
    ASSUME IInv, Next
    PROVE  TaskShape' /\ ControlShape' /\ WorkerShape' /\ HeadShape'
  <1> USE DEF IInv
  <1>1. /\ task \in [Scopes -> Task] /\ worker \in [Workers -> Process]
        /\ head \in [Eligible -> [Modes -> HeadRow]]
    BY DEF TypeOK
  <1>2. ASSUME UNCHANGED <<parent, child, task>>
        PROVE  TaskShape' /\ ControlShape'
    BY <1>2 DEF TaskShape, ControlShape, Unfinished
  <1>3. ASSUME UNCHANGED worker PROVE WorkerShape'
    BY <1>3 DEF WorkerShape
  <1>4. ASSUME UNCHANGED head PROVE HeadShape'
    BY <1>4 DEF HeadShape
  <1>5. ASSUME NEW w \in Workers, NEW pc, Leave(w, pc), pc \notin Holding
        PROVE  WorkerShape'
    BY <1>1, <1>5 DEF WorkerShape, Leave, Off
  <1>6. ASSUME NEW w \in Workers, NEW pc, Goto(w, pc),
               worker[w].pc \in Holding \/ pc \notin Holding
        PROVE  WorkerShape'
    BY <1>1, <1>6 DEF WorkerShape, Goto
  <1>7. CASE Prepare
    <2>1. TaskShape'
      BY <1>7, FrozenType DEF Prepare, TaskShape, Unfinished
    <2>2. ControlShape'
      BY <1>7 DEF Prepare, ControlShape
    <2> QED BY <1>3, <1>4, <1>7, <2>1, <2>2 DEF Prepare
  <1>8. CASE Activate
    <2>1. TaskShape' /\ ControlShape'
      BY <1>8 DEF Activate, TaskShape, ControlShape, Unfinished
    <2> QED BY <1>3, <1>4, <1>8, <2>1 DEF Activate
  <1>9. CASE Seal
    <2>1. TaskShape' /\ ControlShape'
      BY <1>9 DEF Seal, TaskShape, ControlShape, Unfinished
    <2> QED BY <1>3, <1>4, <1>9, <2>1 DEF Seal
  <1>10. ASSUME NEW w \in Workers,
                \/ Start(w) \/ NothingToClaim(w) \/ Computed(w) \/ Raise(w)
                \/ RefusePublish(w) \/ Die(w)
         PROVE  TaskShape' /\ ControlShape' /\ WorkerShape' /\ HeadShape'
    <2>1. UNCHANGED <<parent, child, task, head>>
      BY <1>10 DEF Start, NothingToClaim, Computed, Raise, RefusePublish, Die
    <2>2. WorkerShape'
      BY <1>5, <1>6, <1>10
      DEF Start, NothingToClaim, Computed, Raise, RefusePublish, Die, Holding
    <2> QED BY <1>2, <1>4, <2>1, <2>2
  <1>11. ASSUME NEW w \in Workers, Claim(w)
         PROVE  TaskShape' /\ ControlShape' /\ WorkerShape' /\ HeadShape'
    <2>1. PICK s \in Candidates(w) :
              /\ task' = [task EXCEPT ![s].status = "running", ![s].live = TRUE,
                                      ![s].attempts = @ + 1]
              /\ worker' = [worker EXCEPT ![w] =
                     [pc |-> "compute", scope |-> s, lease |-> task[s].attempts + 1]]
      BY <1>11 DEF Claim
    <2>2. s \in Scopes /\ task[s].status \in {"pending", "failed", "running"}
      BY <2>1 DEF Candidates, Claimable
    <2>3. task[s] \in Task /\ task[s].attempts + 1 >= 1
      BY <1>1, <2>2, AttemptsAssumption DEF Task
    <2>4. parent' = "running" /\ child' = "running" /\ s \in Eligible
      BY <1>11, <2>2 DEF Claim, Running, TaskShape
    <2>5. TaskShape' /\ ControlShape'
      BY <1>1, <1>11, <2>1, <2>3, <2>4
      DEF Claim, Running, TaskShape, ControlShape, Task
    <2>6. WorkerShape'
      BY <1>1, <2>1, <2>2, <2>3 DEF WorkerShape
    <2> QED BY <1>4, <1>11, <2>5, <2>6 DEF Claim
  <1>12. ASSUME NEW w \in Workers, Publish(w)
         PROVE  TaskShape' /\ ControlShape' /\ WorkerShape' /\ HeadShape'
    <2>1. Running /\ parent' = parent /\ child' = child
      BY <1>12 DEF Publish, Owns
    <2>2. worker[w].scope \in Eligible /\ worker[w].scope \in Scopes
      BY <1>12, EligibleAssumption DEF Publish, HeadsAsFrozen
    <2>3. TaskShape' /\ ControlShape'
      BY <1>1, <1>12, <2>1, <2>2 DEF Publish, Running, TaskShape, ControlShape, Task
    <2>4. HeadShape'
      BY <1>1, <1>12 DEF Publish, HeadShape, Target
    <2> QED BY <1>5, <1>12, <2>3, <2>4 DEF Publish, Holding
  <1>13. ASSUME NEW w \in Workers, Fail(w)
         PROVE  TaskShape' /\ ControlShape' /\ WorkerShape' /\ HeadShape'
    <2>1. TaskShape' /\ ControlShape'
      <3>1. CASE Owns(w)
        <4>1. task' = [task EXCEPT ![worker[w].scope].status = "failed",
                                   ![worker[w].scope].live = FALSE]
          BY <1>13, <3>1 DEF Fail
        <4>2. worker[w].scope \in Scopes
          BY <1>13 DEF Fail, WorkerShape, Holding
        <4>3. worker[w].scope \in Eligible
          BY <3>1, <4>2 DEF Owns, Fenced, TaskShape
        <4> QED BY <1>1, <1>13, <3>1, <4>1, <4>2, <4>3
                DEF Fail, Owns, Running, TaskShape, ControlShape, Task
      <3>2. CASE ~Owns(w)
        BY <1>2, <1>13, <3>2 DEF Fail
      <3> QED BY <3>1, <3>2
    <2> QED BY <1>4, <1>5, <1>13, <2>1 DEF Fail, Holding
  <1>14. ASSUME NEW w \in Workers, Finalize(w)
         PROVE  TaskShape' /\ ControlShape' /\ WorkerShape' /\ HeadShape'
    <2>1. TaskShape' /\ ControlShape'
      <3>1. CASE Running /\ ~\E s \in Scopes : Unfinished(task[s])
        BY <1>14, <3>1 DEF Finalize, Running, TaskShape, ControlShape, Unfinished
      <3>2. CASE ~(Running /\ ~\E s \in Scopes : Unfinished(task[s]))
        BY <1>2, <1>14, <3>2 DEF Finalize
      <3> QED BY <3>1, <3>2
    <2> QED BY <1>4, <1>5, <1>14, <2>1 DEF Finalize, Holding
  <1>15. ASSUME NEW s \in Scopes, Expire(s)
         PROVE  TaskShape' /\ ControlShape' /\ WorkerShape' /\ HeadShape'
    <2>1. TaskShape' /\ ControlShape'
      BY <1>1, <1>15 DEF Expire, TaskShape, ControlShape, Unfinished, Task
    <2> QED BY <1>3, <1>4, <1>15, <2>1 DEF Expire
  <1>16. ASSUME NEW s \in Scopes, Deactivate(s)
         PROVE  TaskShape' /\ ControlShape' /\ WorkerShape' /\ HeadShape'
    BY <1>2, <1>3, <1>4, <1>16 DEF Deactivate
  <1>17. ASSUME NEW s \in Eligible, NEW m \in Modes, Move(s, m)
         PROVE  TaskShape' /\ ControlShape' /\ WorkerShape' /\ HeadShape'
    <2>1. PICK to \in head[s][m].to .. Target + 1, same \in BOOLEAN :
              head' = [head EXCEPT ![s][m] =
                  [by |-> "other", n |-> moves + 1, to |-> to, mine |-> @.mine,
                   same |-> same]]
      BY <1>17 DEF Move
    <2>2. moves + 1 > 0 /\ head[s][m].to \in Nat /\ to >= head[s][m].to
      <3>1. head[s][m] \in HeadRow
        BY <1>1
      <3> QED BY <2>1, <3>1 DEF TypeOK, HeadRow, Target
    <2>3. HeadShape'
      <3> DEFINE moved == [by |-> "other", n |-> moves + 1, to |-> to,
                           mine |-> head[s][m].mine, same |-> same]
      <3>1. head' = [head EXCEPT ![s] = [head[s] EXCEPT ![m] = moved]]
        BY <2>1
      <3>2. \A t \in Eligible, k \in Modes :
                head'[t][k] = IF t = s /\ k = m THEN moved ELSE head[t][k]
        BY <1>1, <3>1
      <3>3. moved.mine => moved.to >= Target
        BY <2>2 DEF HeadShape, Target
      <3>4. moved.by # "task" /\ moved.n # 0
        BY <2>2
      <3> QED BY <3>2, <3>3, <3>4 DEF HeadShape
    <2> QED BY <1>2, <1>3, <1>17, <2>3 DEF Move
  <1>18. ASSUME NEW s \in Eligible, NEW m \in Modes, Observe(s, m)
         PROVE  TaskShape' /\ ControlShape' /\ WorkerShape' /\ HeadShape'
    BY <1>2, <1>3, <1>4, <1>18 DEF Observe
  <1> QED BY <1>7, <1>8, <1>9, <1>10, <1>11, <1>12, <1>13, <1>14, <1>15, <1>16,
             <1>17, <1>18 DEF Next, Work

-----------------------------------------------------------------------------
(* The invariants.                                                           *)

\* The actions that leave the tasks, the batch and what was published alone.
Quiet == UNCHANGED <<child, task, published>>

LEMMA PublishedStep ==
    ASSUME IInv, Next
    PROVE  PublishedByLastClaim'
  <1> USE DEF IInv
  <1>1. task \in [Scopes -> Task] /\ published \in [Scopes -> SUBSET (1 .. MaxAttempts)]
    BY DEF TypeOK
  <1>2. ASSUME Quiet PROVE PublishedByLastClaim'
    BY <1>2 DEF Quiet, PublishedByLastClaim
  <1>3. CASE Prepare
    BY <1>3, FrozenType DEF Prepare, TaskShape, PublishedByLastClaim
  <1>4. ASSUME NEW w \in Workers, Claim(w)
        PROVE  PublishedByLastClaim'
    <2>1. PICK s \in Candidates(w) :
              task' = [task EXCEPT ![s].status = "running", ![s].live = TRUE,
                                   ![s].attempts = @ + 1]
      BY <1>4 DEF Claim
    <2>2. s \in Scopes /\ task[s].status # "completed"
      BY <2>1 DEF Candidates, Claimable
    <2>3. task'[s].status = "running" /\ published'[s] = {}
      BY <1>1, <1>4, <2>1, <2>2 DEF Claim, PublishedByLastClaim, Task
    <2>4. \A t \in Scopes \ {s} : task'[t] = task[t] /\ published'[t] = published[t]
      BY <1>1, <1>4, <2>1 DEF Claim
    <2> QED BY <2>3, <2>4 DEF PublishedByLastClaim
  <1>5. ASSUME NEW w \in Workers, Publish(w)
        PROVE  PublishedByLastClaim'
    <2> DEFINE s == worker[w].scope
    <2>1. s \in Scopes /\ Fenced(task[s], worker[w].lease)
      BY <1>5, EligibleAssumption DEF Publish, HeadsAsFrozen, Owns
    <2>2. published[s] = {}
      BY <2>1 DEF Fenced, PublishedByLastClaim
    <2>3. /\ task'[s].status = "completed" /\ task'[s].attempts = worker[w].lease
          /\ published'[s] = {worker[w].lease}
      BY <1>1, <1>5, <2>1, <2>2 DEF Publish, Fenced, Task
    <2>4. \A t \in Scopes \ {s} : task'[t] = task[t] /\ published'[t] = published[t]
      BY <1>1, <1>5 DEF Publish
    <2> QED BY <2>3, <2>4 DEF PublishedByLastClaim
  <1>6. ASSUME NEW w \in Workers, Fail(w)
        PROVE  PublishedByLastClaim'
    <2>1. CASE Owns(w)
      <3>1. worker[w].scope \in Scopes
        BY <1>6 DEF Fail, WorkerShape, Holding
      <3> QED BY <1>1, <1>6, <2>1, <3>1 DEF Fail, Owns, Fenced, PublishedByLastClaim, Task
    <2>2. CASE ~Owns(w)
      BY <1>6, <2>2 DEF Fail, PublishedByLastClaim
    <2> QED BY <2>1, <2>2
  <1>7. ASSUME NEW w \in Workers, Finalize(w)
        PROVE  PublishedByLastClaim'
    BY <1>7 DEF Finalize, PublishedByLastClaim
  <1>8. ASSUME NEW s \in Scopes, Expire(s)
        PROVE  PublishedByLastClaim'
    BY <1>1, <1>8 DEF Expire, PublishedByLastClaim, Task
  <1>9. CASE Activate \/ Seal
    BY <1>9 DEF Activate, Seal, PublishedByLastClaim
  <1>10. ASSUME NEW w \in Workers,
                \/ Start(w) \/ NothingToClaim(w) \/ Computed(w) \/ Raise(w)
                \/ RefusePublish(w) \/ Die(w)
         PROVE  PublishedByLastClaim'
    BY <1>2, <1>10
    DEF Start, NothingToClaim, Computed, Raise, RefusePublish, Die, Quiet
  <1>11. ASSUME NEW s \in Scopes, Deactivate(s)
         PROVE  PublishedByLastClaim'
    BY <1>2, <1>11 DEF Deactivate, Quiet
  <1>12. ASSUME NEW s \in Eligible, NEW m \in Modes, Move(s, m) \/ Observe(s, m)
         PROVE  PublishedByLastClaim'
    BY <1>2, <1>12 DEF Move, Observe, Quiet
  <1> QED BY <1>3, <1>4, <1>5, <1>6, <1>7, <1>8, <1>9, <1>10, <1>11, <1>12
          DEF Next, Work

\* Claim, Publish and Fail need a running batch; nothing else changes a task
\* that is no longer unfinished.
LEMMA EndStep ==
    ASSUME IInv, Next, TypeOK', TaskShape'
    PROVE  EndIsEnd'
  <1> USE DEF IInv
  <1>1. /\ task \in [Scopes -> Task] /\ task' \in [Scopes -> Task]
        /\ Eligible \subseteq Scopes
    BY EligibleAssumption DEF TypeOK
  <1>2. ASSUME child' = "completed", child' = child
        PROVE  \A s \in Eligible : task'[s].status # "failed"
    <2>1. \A s \in Eligible : task[s].status = "completed"
      BY <1>2 DEF EndIsEnd
    <2>2. ~Running
      BY <1>2 DEF Running
    <2>3. \A s \in Eligible : task'[s].status # "failed"
      <3>1. CASE task' = task
        BY <2>1, <3>1
      <3>2. CASE Prepare
        BY <1>2, <3>2 DEF Prepare
      <3>3. ASSUME NEW s \in Scopes, Expire(s)
            PROVE  \A t \in Eligible : task'[t].status # "failed"
        BY <1>1, <2>1, <3>3 DEF Expire, Task
      <3>4. ASSUME NEW w \in Workers, Claim(w) \/ Publish(w) \/ Fail(w)
            PROVE  \A t \in Eligible : task'[t].status # "failed"
        BY <2>1, <2>2, <3>4 DEF Claim, Publish, Fail, Owns
      <3> QED BY <3>1, <3>2, <3>3, <3>4
              DEF Next, Work, Activate, Seal, Start, NothingToClaim, Computed,
                  RefusePublish, Finalize, Raise, Die, Deactivate, Move, Observe
    <2> QED BY <2>3
  <1>3. ASSUME child' = "failed", child' = child
        PROVE  \E s \in Eligible : Exhausted(task'[s])
    <2>1. PICK s \in Eligible : Exhausted(task[s])
      BY <1>3 DEF EndIsEnd
    <2>2. ~Running
      BY <1>3 DEF Running
    <2>3. task'[s] = task[s]
      <3>1. CASE Prepare
        BY <1>3, <3>1 DEF Prepare
      <3>2. ASSUME NEW t \in Scopes, Expire(t)
            PROVE  task'[s] = task[s]
        BY <1>1, <2>1, <3>2 DEF Expire, Exhausted
      <3>3. ASSUME NEW w \in Workers, Claim(w) \/ Publish(w) \/ Fail(w)
            PROVE  task'[s] = task[s]
        BY <2>2, <3>3 DEF Claim, Publish, Fail, Owns
      <3> QED BY <3>1, <3>2, <3>3
              DEF Next, Work, Activate, Seal, Start, NothingToClaim, Computed,
                  RefusePublish, Finalize, Raise, Die, Deactivate, Move, Observe
    <2> QED BY <2>1, <2>3
  <1>4. ASSUME child' \in {"completed", "failed"}, child' # child
        PROVE  /\ child' = "completed" => \A s \in Eligible : task'[s].status # "failed"
               /\ child' = "failed" => \E s \in Eligible : Exhausted(task'[s])
    <2>1. PICK w \in Workers : Finalize(w)
      BY <1>4 DEF Next, Work, Prepare, Activate, Seal, Start, Claim, NothingToClaim,
                  Computed, Publish, RefusePublish, Fail, Raise, Die, Expire,
                  Deactivate, Move, Observe
    <2>2. /\ task' = task /\ \A s \in Scopes : ~Unfinished(task[s])
          /\ child' = IF \E s \in Scopes : Exhausted(task[s]) THEN "failed" ELSE "completed"
      BY <1>4, <2>1 DEF Finalize
    <2>3. \A s \in Scopes : Exhausted(task[s]) => s \in Eligible
      BY DEF Exhausted, TaskShape
    <2>4. \A s \in Scopes : task[s].status = "failed" => Exhausted(task[s])
      BY <1>1, <2>2, AttemptsAssumption DEF Unfinished, Exhausted, Task
    <2> QED BY <1>1, <2>2, <2>3, <2>4
  <1>5. ASSUME child' \in {"completed", "failed"}, NEW s \in Eligible
        PROVE  task'[s].status \in {"failed", "completed"} /\ ~Unfinished(task'[s])
    BY <1>1, <1>5 DEF TaskShape, Unfinished, Task
  <1>6. \A s \in Eligible : task'[s].status = "failed" /\ ~Unfinished(task'[s])
            => Exhausted(task'[s])
    BY <1>1, AttemptsAssumption DEF Unfinished, Exhausted, Task
  <1> QED BY <1>2, <1>3, <1>4, <1>5, <1>6 DEF EndIsEnd, Exhausted

LEMMA CoveredStep ==
    ASSUME IInv, Next
    PROVE  CompletedCovered'
  <1> USE DEF IInv
  <1>1. /\ task \in [Scopes -> Task] /\ head \in [Eligible -> [Modes -> HeadRow]]
        /\ Eligible \subseteq Scopes
    BY EligibleAssumption DEF TypeOK
  <1>2. ASSUME UNCHANGED <<task, head>> PROVE CompletedCovered'
    BY <1>2 DEF CompletedCovered
  <1>3. ASSUME UNCHANGED head,
               \A s \in Eligible : task'[s].status = "completed" => task'[s] = task[s]
        PROVE  CompletedCovered'
    BY <1>3 DEF CompletedCovered
  <1>4. CASE Prepare
    BY <1>1, <1>3, <1>4, FrozenType DEF Prepare
  <1>5. ASSUME NEW w \in Workers, Claim(w)
        PROVE  CompletedCovered'
    <2>1. PICK s \in Candidates(w) :
              task' = [task EXCEPT ![s].status = "running", ![s].live = TRUE,
                                   ![s].attempts = @ + 1]
      BY <1>5 DEF Claim
    <2> QED BY <1>1, <1>3, <1>5, <2>1 DEF Claim, Task
  <1>6. ASSUME NEW w \in Workers, Fail(w)
        PROVE  CompletedCovered'
    BY <1>1, <1>2, <1>3, <1>6 DEF Fail, Task
  <1>7. ASSUME NEW s \in Scopes, Expire(s)
        PROVE  CompletedCovered'
    BY <1>1, <1>3, <1>7 DEF Expire, Task
  <1>8. ASSUME NEW w \in Workers, Publish(w)
        PROVE  CompletedCovered'
    <2> DEFINE s == worker[w].scope
    <2>1. s \in Eligible /\ \A m \in Modes : RunOf(head[s][m]) = task[s].expected[m]
      BY <1>8 DEF Publish, HeadsAsFrozen
    <2>2. /\ task'[s].expected = task[s].expected
          /\ \A m \in Modes :
                head'[s][m] = IF Advances(head[s][m])
                              THEN [by |-> "task", n |-> worker[w].lease, to |-> Target,
                                    mine |-> TRUE, same |-> TRUE]
                              ELSE head[s][m]
      BY <1>1, <1>8, <2>1 DEF Publish, Task
    <2>3. ASSUME NEW m \in Modes
          PROVE  \/ Covered(head'[s][m], task'[s].expected[m])
                 \/ head'[s][m].by = "other" /\ head'[s][m].n > 0
      <3>1. CASE Advances(head[s][m])
        BY <2>2, <3>1 DEF Covered
      <3>2. CASE ~Advances(head[s][m])
        <4>1. head[s][m] \in HeadRow /\ head'[s][m] = head[s][m]
          BY <1>1, <2>1, <2>2, <3>2
        <4>2. head[s][m].by \in {"task", "other"} /\ head[s][m].to >= Target
          BY <3>2, <4>1 DEF Advances, HeadRow, Target
        <4>3. CASE head[s][m].to = Target
          BY <2>1, <2>2, <4>1, <4>3 DEF Covered
        <4>4. CASE head[s][m].to # Target /\ head[s][m].by = "task"
          BY <2>1, <4>1, <4>4 DEF Covered, HeadShape
        <4>5. CASE head[s][m].to # Target /\ head[s][m].by = "other"
          BY <2>1, <4>1, <4>2, <4>5 DEF HeadShape, HeadRow, Target
        <4> QED BY <4>2, <4>3, <4>4, <4>5
      <3> QED BY <3>1, <3>2
    <2>4. \A t \in Eligible \ {s} : task'[t] = task[t] /\ head'[t] = head[t]
      BY <1>1, <1>8 DEF Publish
    <2> QED BY <2>3, <2>4 DEF CompletedCovered
  <1>9. ASSUME NEW s \in Eligible, NEW m \in Modes, Move(s, m)
        PROVE  CompletedCovered'
    <2>1. PICK to \in head[s][m].to .. Target + 1, same \in BOOLEAN :
              head' = [head EXCEPT ![s][m] =
                  [by |-> "other", n |-> moves + 1, to |-> to, mine |-> @.mine,
                   same |-> same]]
      BY <1>9 DEF Move
    <2>2. head'[s][m].by = "other" /\ head'[s][m].n > 0
      BY <1>1, <2>1 DEF TypeOK
    <2>3. \A t \in Eligible, k \in Modes : t # s \/ k # m => head'[t][k] = head[t][k]
      BY <1>1, <2>1
    <2> QED BY <1>9, <2>2, <2>3 DEF Move, CompletedCovered
  <1>10. ASSUME NEW w \in Workers,
                \/ Start(w) \/ NothingToClaim(w) \/ Computed(w) \/ Raise(w)
                \/ RefusePublish(w) \/ Die(w) \/ Finalize(w)
         PROVE  CompletedCovered'
    BY <1>2, <1>10
    DEF Start, NothingToClaim, Computed, Raise, RefusePublish, Die, Finalize
  <1>11. CASE Activate \/ Seal
    BY <1>2, <1>11 DEF Activate, Seal
  <1>12. ASSUME NEW s \in Scopes, Deactivate(s)
         PROVE  CompletedCovered'
    BY <1>2, <1>12 DEF Deactivate
  <1>13. ASSUME NEW s \in Eligible, NEW m \in Modes, Observe(s, m)
         PROVE  CompletedCovered'
    BY <1>2, <1>13 DEF Observe
  <1> QED BY <1>4, <1>5, <1>6, <1>7, <1>8, <1>9, <1>10, <1>11, <1>12, <1>13
          DEF Next, Work

LEMMA StepOK == IInv /\ [Next]_vars => IInv'
  <1>1. ASSUME IInv, Next PROVE IInv'
    BY <1>1, TypeStep, ShapeStep, PublishedStep, EndStep, CoveredStep DEF IInv
  <1>2. ASSUME IInv, UNCHANGED vars PROVE IInv'
    <2>1. TypeOK' /\ TaskShape' /\ ControlShape' /\ WorkerShape' /\ HeadShape'
      BY <1>2 DEF IInv, vars, TypeOK, TaskShape, ControlShape, WorkerShape, HeadShape,
                  Unfinished
    <2>2. PublishedByLastClaim' /\ CompletedCovered' /\ EndIsEnd'
      BY <1>2 DEF IInv, vars, PublishedByLastClaim, CompletedCovered, EndIsEnd, Exhausted
    <2> QED BY <2>1, <2>2 DEF IInv
  <1> QED BY <1>1, <1>2

LEMMA Inductive == Spec => []IInv
  BY InitOK, StepOK, PTL DEF Spec

-----------------------------------------------------------------------------
(* The theorems.                                                             *)

\* Every variable keeps its type, and no task is claimed more than MaxAttempts
\* times (claim_recompute_task).
THEOREM TypeCorrect == Spec => []TypeOK
  <1>1. IInv => TypeOK
    BY DEF IInv
  <1> QED BY <1>1, Inductive, PTL

\* A scope is published at most once by the batch, by the last claim of its
\* task (the fences of replace_analysis).
THEOREM PublishesOnce == Spec => []PublishedByLastClaim
  <1>1. IInv => PublishedByLastClaim
    BY DEF IInv
  <1> QED BY <1>1, Inductive, PTL

\* A completed task leaves heads that the coverage gate of seal_batch accepts,
\* unless the tail stream has published one since the build.
THEOREM CompletedIsCovered == Spec => []CompletedCovered
  <1>1. IInv => CompletedCovered
    BY DEF IInv
  <1> QED BY <1>1, Inductive, PTL

\* What the final status of a batch says of its tasks stays true
\* (process_claimed_tasks).
THEOREM EndedStaysEnded == Spec => []EndIsEnd
  <1>1. IInv => EndIsEnd
    BY DEF IInv
  <1> QED BY <1>1, Inductive, PTL

\* A step never puts a run of the batch over a head that someone else moved
\* after the freeze (the expected_heads of _upsert_published_heads).
THEOREM KeepsForeignHeads == Spec => ForeignHeadKept
  <1>1. IInv /\ [Next]_vars =>
            [\A s \in Eligible, m \in Modes :
                head[s][m].by = "other" /\ head[s][m].n > task[s].expected[m].n
                    => head'[s][m].by # "task"]_vars
    <2> SUFFICES ASSUME IInv, Next, NEW s \in Eligible, NEW m \in Modes,
                        head[s][m].by = "other", head[s][m].n > task[s].expected[m].n
                 PROVE  head'[s][m].by # "task"
      OBVIOUS
    <2>1. head \in [Eligible -> [Modes -> HeadRow]]
      BY DEF IInv, TypeOK
    <2>2. ASSUME NEW w \in Workers, Publish(w) PROVE head'[s][m].by # "task"
      <3>1. CASE worker[w].scope = s
        <4>1. head[s][m].n = task[s].expected[m].n
          <5>1. HeadsAsFrozen(s)
            BY <2>2, <3>1 DEF Publish
          <5>2. RunOf(head[s][m]) = task[s].expected[m]
            BY <5>1 DEF HeadsAsFrozen
          <5> QED BY <5>2 DEF RunOf
        <4>2. head[s][m].n \in Nat
          <5>1. head[s][m] \in HeadRow
            BY <2>1
          <5> QED BY <5>1 DEF HeadRow
        <4>3. FALSE
          BY <4>1, <4>2
        <4> QED BY <4>3
      <3>2. CASE worker[w].scope # s
        BY <2>1, <2>2, <3>2 DEF Publish
      <3> QED BY <3>1, <3>2
    <2>3. ASSUME NEW t \in Eligible, NEW k \in Modes, Move(t, k)
          PROVE  head'[s][m].by # "task"
      BY <2>1, <2>3 DEF Move
    <2>4. CASE head' = head
      BY <2>4
    <2> QED BY <2>2, <2>3, <2>4
        DEF Next, Work, Prepare, Activate, Seal, Start, Claim, NothingToClaim, Computed,
            RefusePublish, Fail, Finalize, Raise, Die, Expire, Deactivate, Observe
  <1> QED BY <1>1, Inductive, PTL DEF Spec, ForeignHeadKept

\* What seal_batch attests: every eligible scope was published, its heads
\* reach the target under its configuration and are of the batch or the recorded
\* ones, all observed.
THEOREM SealAttests == Spec => SealedIsPublished
  <1>1. IInv /\ [Next]_vars =>
            [parent # "sealed" /\ parent' = "sealed" =>
                /\ waiting = {}
                /\ \A s \in Eligible :
                     /\ published[s] # {}
                     /\ \A m \in Modes :
                          /\ head[s][m].to >= Target /\ head[s][m].same
                          /\ head[s][m].mine \/ RunOf(head[s][m]) = task[s].expected[m]]_vars
    <2> SUFFICES ASSUME IInv, Next, parent # "sealed", parent' = "sealed"
                 PROVE  /\ waiting = {}
                        /\ \A s \in Eligible :
                             /\ published[s] # {}
                             /\ \A m \in Modes :
                                  /\ head[s][m].to >= Target /\ head[s][m].same
                                  /\ \/ head[s][m].mine
                                     \/ RunOf(head[s][m]) = task[s].expected[m]
      OBVIOUS
    <2>1. Seal
      BY DEF Next, Work, Prepare, Activate, Start, Claim, NothingToClaim, Computed,
             Publish, RefusePublish, Fail, Finalize, Raise, Die, Expire, Deactivate,
             Move, Observe
    <2>2. \A s \in Eligible : published[s] = {task[s].attempts}
      BY <2>1, EligibleAssumption DEF Seal, IInv, PublishedByLastClaim
    <2>3. ASSUME NEW s \in Eligible, NEW m \in Modes
          PROVE  /\ head[s][m].to >= Target /\ head[s][m].same
                 /\ head[s][m].mine \/ RunOf(head[s][m]) = task[s].expected[m]
      BY <2>1 DEF Seal, Covered, IInv, HeadShape, Target
    <2> QED BY <2>1, <2>2, <2>3 DEF Seal
  <1> QED BY <1>1, Inductive, PTL DEF Spec, SealedIsPublished
=============================================================================
