----------------------- MODULE HistoricalReplayProofs -----------------------
(* Theorems of HistoricalReplay, for any modes, cutoffs, workers, attempts   *)
(* and repairs.  The argument: a cutoff that is published is completed and   *)
(* never claimed again; once the parent is sealed nothing is published, so   *)
(* that predecessors no longer move; then only the rows of the one applied   *)
(* repair are observed again, and what a rollback restores is what it found. *)
EXTENDS HistoricalReplay, NaturalsInduction, WellFoundedInduction, FiniteSetTheorems, TLAPS

-----------------------------------------------------------------------------
(* The inductive invariant.                                                  *)

\* A worker with a claim has a cutoff, and publishes only into an open batch.
WorkOK ==
    \A w \in Workers :
        /\ work[w].pc # "idle" => work[w].cutoff \in Cutoffs
        /\ Publishing(w) => parent = "planned"

\* A cutoff that is published is completed: nobody will publish it again.
PublishedDone ==
    \A s \in Scopes : row[s].status # "none" => task[s[2]].status = "completed"

\* The one row an observer holds is being processed.
HeldOK ==
    \A s \in observer.held : /\ observer.held = {s} /\ s \in Scopes
                             /\ row[s].status = "processing"

\* The payload of an outbox row names the run its history names.
PayloadIsOld == \A s \in Scopes : row[s].payload = row[s].old

\* All of it is published: what predecessors are no longer depends on workers.
AllPublished ==
    /\ Seeded # {} /\ Seeded = Completed
    /\ \A m \in Modes : Published(m) = Completed

SealedOK ==
    child = "sealed" => parent = "sealed" /\ Finalizable

RepairShape ==
    repair = [r \in Repairs |-> [status |-> repair[r].status, before |-> repair[r].before,
                                 target |-> repair[r].target]]

\* A repair starts from a parent that is sealed, and from rows that were observed.
RepairStart ==
    \A r \in Repairs :
        /\ repair[r].status # "none" => parent = "sealed"
        /\ \A s \in Entries(r) :
               /\ repair[r].before[s].status = "completed"
               /\ repair[r].before[s].payload = repair[r].before[s].old
               /\ repair[r].before[s].planned = {repair[r].before[s].old}
               /\ row[s].status # "none"

\* While a repair is applied, all histories are right, its rows alone are observed
\* again, and no other repair finds anything to do.
RepairAlone ==
    \A r \in Repairs : Applied(r) =>
        /\ AllPublished /\ Anomalies = {}
        /\ \A s \in Rows \ Entries(r) : row[s].status = "completed"
        /\ \A q \in Repairs : Applied(q) => q = r

\* A repair that was rolled back left rows that only an applied one has changed
\* since, and that one knows what they were.
RolledBack ==
    \A r \in Repairs : repair[r].status = "rolled_back" => \A s \in Entries(r) :
        /\ (\A q \in Repairs : Applied(q) => s \notin Entries(q)) => row[s] = repair[r].before[s]
        /\ \A q \in Repairs : Applied(q) /\ s \in Entries(q)
                                 => repair[q].before[s] = repair[r].before[s]

VerifiedOK == \A r \in Repairs : repair[r].status = "verified" => Finalizable

IInv ==
    /\ TypeOK /\ WorkOK /\ PublishedDone /\ HeldOK /\ PayloadIsOld /\ EventsExact
    /\ SealedOK /\ RepairShape /\ RepairStart /\ RepairAlone /\ RolledBack /\ VerifiedOK

-----------------------------------------------------------------------------
(* Operators.                                                                *)

\* Some cutoff is the least of a set of cutoffs, and some the greatest.
LEMMA LeastCutoff ==
    ASSUME NEW S \in SUBSET Cutoffs, S # {}
    PROVE  \E c \in S : \A d \in S : c <= d
  <1>1. S \subseteq Nat
    BY BoundsAssumption DEF Cutoffs
  <1>2. PICK n \in S : \A k \in S : ~ (<<k, n>> \in OpToRel(<, Nat))
    BY <1>1, WFMin, NatLessThanWellFounded
  <1>3. \A k \in S : n <= k
    <2> SUFFICES ASSUME NEW k \in S, k < n PROVE FALSE
      BY <1>1
    <2>1. <<k, n>> \in OpToRel(<, Nat)
      BY <1>1 DEF OpToRel
    <2> QED BY <1>2, <2>1
  <1> QED BY <1>3

LEMMA GreatestCutoff ==
    ASSUME NEW S \in SUBSET Cutoffs, S # {}
    PROVE  \E c \in S : \A d \in S : d <= c
  <1> DEFINE T == {n \in Cutoffs : MaxCutoff + 1 - n \in S}
  <1>1. \A c \in S : MaxCutoff + 1 - c \in T
    BY BoundsAssumption DEF Cutoffs
  <1>2. T \in SUBSET Cutoffs /\ T # {}
    BY <1>1
  <1> HIDE DEF T
  <1>3. PICK n \in T : \A k \in T : n <= k
    BY <1>2, LeastCutoff
  <1>4. MaxCutoff + 1 - n \in S
    BY <1>3 DEF T
  <1>5. ASSUME NEW c \in S PROVE c <= MaxCutoff + 1 - n
    <2>1. n <= MaxCutoff + 1 - c
      BY <1>1, <1>3
    <2> QED BY <2>1, <1>2, <1>3, BoundsAssumption DEF Cutoffs
  <1> QED BY <1>4, <1>5

\* The predecessor of a cutoff is the greatest published one before it, or no run.
LEMMA LastBeforeIs ==
    ASSUME NEW S \in SUBSET Cutoffs, NEW c
    PROVE  /\ LastBefore(S, c) \in Runs
           /\ (\A d \in S : ~(d < c)) => LastBefore(S, c) = 0
           /\ (\E d \in S : d < c) => /\ LastBefore(S, c) \in S /\ LastBefore(S, c) < c
                                      /\ \A d \in S : d < c => d <= LastBefore(S, c)
  <1> DEFINE earlier == {d \in S : d < c}
             last == CHOOSE d \in earlier : \A e \in earlier : e <= d
  <1>1. LastBefore(S, c) = IF earlier = {} THEN 0 ELSE last
    BY DEF LastBefore
  <1>2. CASE earlier = {}
    BY <1>1, <1>2, BoundsAssumption DEF Runs
  <1>3. CASE earlier # {}
    <2>1. PICK d \in earlier : \A e \in earlier : e <= d
      BY <1>3, GreatestCutoff
    <2>2. last \in earlier /\ \A e \in earlier : e <= last
      BY <2>1
    <2> HIDE DEF last
    <2> QED BY <1>1, <1>3, <2>2, BoundsAssumption DEF Runs, Cutoffs
  <1> QED BY <1>2, <1>3

\* A scope is a mode and a cutoff.
LEMMA ScopeIs == \A s \in Scopes : s[1] \in Modes /\ s[2] \in Cutoffs /\ s = <<s[1], s[2]>>
  BY DEF Scopes

LEMMA PredecessorIs ==
    ASSUME NEW s \in Scopes
    PROVE  Predecessor(s) \in Runs
  BY LastBeforeIs DEF Predecessor, Published

\* The chain of heads stays while histories stay and no head is published.
SameChain ==
    \A s \in Scopes : /\ row'[s].old = row[s].old /\ row'[s].payload = row[s].payload
                      /\ row'[s].status = "none" <=> row[s].status = "none"

LEMMA ChainKept ==
    ASSUME SameChain
    PROVE  /\ \A m \in Modes : Published(m)' = Published(m)
           /\ Rows' = Rows /\ Anomalies' = Anomalies
           /\ \A s \in Scopes : Predecessor(s)' = Predecessor(s)
  <1>1. \A m \in Modes : Published(m)' = Published(m)
    BY DEF SameChain, Published, Scopes
  <1>2. Rows' = Rows
    BY DEF SameChain, Rows
  <1>3. ASSUME NEW s \in Scopes PROVE Predecessor(s)' = Predecessor(s)
    <2>1. Published(s[1])' = Published(s[1])
      BY <1>1, ScopeIs
    <2> QED BY <2>1 DEF Predecessor
  <1>4. Rows \subseteq Scopes
    BY DEF Rows
  <1>5. Anomalies' = Anomalies
    BY <1>2, <1>3, <1>4 DEF Anomalies, Chained, SameChain
  <1> QED BY <1>1, <1>2, <1>3, <1>5

SameTasks == \A c \in Cutoffs : task'[c].status = task[c].status

LEMMA TasksKept ==
    ASSUME SameTasks
    PROVE  Seeded' = Seeded /\ Completed' = Completed
  BY DEF SameTasks, Seeded, Completed

\* What the finalizer looks at.
LEMMA FinalizableIs ==
    Finalizable <=> /\ AllPublished /\ Anomalies = {}
                    /\ \A s \in Rows : row[s].status = "completed"
  BY DEF Finalizable, Drained, AllPublished

LEMMA AllPublishedKept ==
    ASSUME SameChain, SameTasks
    PROVE  AllPublished' <=> AllPublished
  BY ChainKept, TasksKept DEF AllPublished

LEMMA FinalizableKept ==
    ASSUME UNCHANGED row, SameTasks
    PROVE  Finalizable' <=> Finalizable
  <1>1. SameChain
    BY DEF SameChain
  <1> QED BY <1>1, ChainKept, AllPublishedKept, FinalizableIs DEF Finalizable, Drained, AllPublished

\* The record of a repair changes its status, and nothing else.
SetStatus(r, st) == repair' = [repair EXCEPT ![r].status = st]

LEMMA RepairUpdate ==
    ASSUME RepairShape, NEW r \in Repairs, NEW st, SetStatus(r, st)
    PROVE  /\ RepairShape'
           /\ \A q \in Repairs : /\ repair'[q].before = repair[q].before
                                 /\ repair'[q].target = repair[q].target
                                 /\ repair'[q].status = IF q = r THEN st ELSE repair[q].status
  <1>1. DOMAIN repair = Repairs
    BY DEF RepairShape
  <1>2. repair[r] = [status |-> repair[r].status, before |-> repair[r].before,
                     target |-> repair[r].target]
    BY DEF RepairShape
  <1>3. [repair[r] EXCEPT !.status = st] = [status |-> st, before |-> repair[r].before,
                                            target |-> repair[r].target]
    BY <1>2
  <1>4. repair' = [q \in Repairs |-> IF q = r THEN [repair[r] EXCEPT !.status = st] ELSE repair[q]]
    BY <1>1 DEF SetStatus
  <1>5. \A q \in Repairs : repair'[q] = [status |-> repair'[q].status, before |-> repair'[q].before,
                                         target |-> repair'[q].target]
    BY <1>3, <1>4 DEF RepairShape
  <1>6. repair' = [q \in Repairs |-> repair'[q]]
    BY <1>4
  <1>7. RepairShape'
    BY <1>5, <1>6 DEF RepairShape
  <1> QED BY <1>3, <1>4, <1>7

-----------------------------------------------------------------------------
(* Steps.                                                                    *)

\* An observer changes the row it holds or takes, and no history.
ObserverAt(s) == Observe(s) \/ Persist(s) \/ ObserverFails(s)

LEMMA ObserverIs ==
    ASSUME TypeOK, HeldOK, NEW s \in Scopes, ObserverAt(s)
    PROVE  /\ row[s].status \in {"pending", "processing"}
           /\ row' \in [Scopes -> Row] /\ SameChain
           /\ \A t \in Scopes : t # s => row'[t] = row[t]
           /\ UNCHANGED <<parent, child, task, work, repair>>
  <1>1. row \in [Scopes -> Row] /\ observer.read \in Runs
    BY DEF TypeOK
  <1>2. CASE Observe(s)
    BY <1>1, <1>2 DEF Observe, SameChain, Row
  <1>3. CASE Persist(s)
    <2>1. row' = [row EXCEPT ![s] = [row[s] EXCEPT !.status = "completed",
                                                  !.planned = row[s].planned \union {observer.read}]]
      BY <1>1, <1>3 DEF Persist
    <2>2. row[s].planned \union {observer.read} \in SUBSET Runs
      BY <1>1 DEF Row
    <2>3. row[s].status = "processing"
      BY <1>3 DEF Persist
    <2>4. UNCHANGED <<parent, child, task, work, repair>>
      BY <1>3 DEF Persist
    <2>5. PICK X \in SUBSET Runs : X = row[s].planned \union {observer.read}
      BY <2>2
    <2>6. row' = [row EXCEPT ![s] = [row[s] EXCEPT !.status = "completed", !.planned = X]]
      BY <2>1, <2>5
    <2> QED BY <1>1, <2>3, <2>4, <2>6 DEF SameChain, Row
  <1>4. CASE ObserverFails(s)
    <2>1. PICK after \in {"pending", "dead_letter"} : row' = [row EXCEPT ![s].status = after]
      BY <1>4 DEF ObserverFails
    <2>2. row[s].status = "processing"
      BY <1>4 DEF HeldOK, ObserverFails
    <2> QED BY <1>1, <1>4, <2>1, <2>2 DEF ObserverFails, SameChain, Row
  <1> QED BY <1>2, <1>3, <1>4 DEF ObserverAt

\* A publication makes a pending row of every mode of its cutoff.
LEMMA PublishIs ==
    ASSUME TypeOK, WorkOK, NEW w \in Workers, Publish(w)
    PROVE  /\ parent = "planned" /\ work[w].cutoff \in Cutoffs
           /\ task[work[w].cutoff].status = "running"
           /\ task'[work[w].cutoff].status = "completed"
           /\ \A c \in Cutoffs : c # work[w].cutoff => task'[c] = task[c]
           /\ \A s \in Scopes : s[2] # work[w].cutoff => row'[s] = row[s]
           /\ \A s \in Scopes : s[2] = work[w].cutoff =>
                  /\ row'[s] \in Row /\ row'[s].status = "pending"
                  /\ row'[s].payload = row'[s].old /\ row'[s].planned = {}
           /\ row' \in [Scopes -> Row]
           /\ task' \in [Cutoffs -> [status : {"none", "pending", "running", "completed", "failed"},
                             attempts : 0 .. MaxAttempts, lease : BOOLEAN]]
           /\ UNCHANGED <<parent, child, observer, repair>>
  <1>1. PICK c : c = work[w].cutoff
    OBVIOUS
  <1>2. parent = "planned" /\ c \in Cutoffs
    BY <1>1 DEF Publish, Publishing, WorkOK
  <1>3. task[c].status = "running"
    BY <1>1 DEF Publish, Claimed
  <1>4. task' = [task EXCEPT ![c].status = "completed", ![c].lease = FALSE]
    BY <1>1 DEF Publish
  <1>5. /\ task'[c].status = "completed" /\ \A d \in Cutoffs : d # c => task'[d] = task[d]
        /\ task' \in [Cutoffs -> [status : {"none", "pending", "running", "completed", "failed"},
                             attempts : 0 .. MaxAttempts, lease : BOOLEAN]]
    <2>1. task \in [Cutoffs -> [status : {"none", "pending", "running", "completed", "failed"},
                              attempts : 0 .. MaxAttempts, lease : BOOLEAN]]
      BY DEF TypeOK
    <2> QED BY <1>2, <1>4, <2>1
  <1>6. row' = [s \in Scopes |->
           IF s[2] = c
           THEN [status |-> "pending", old |-> work[w].found[s[1]],
                 payload |-> work[w].found[s[1]], planned |-> {}]
           ELSE row[s]]
    BY <1>1 DEF Publish
  <1>7. \A m \in Modes : work[w].found[m] \in Runs
    BY DEF Publish, TypeOK
  <1>8. \A s \in Scopes : s[2] = c =>
                  /\ row'[s] \in Row /\ row'[s].status = "pending"
                  /\ row'[s].payload = row'[s].old /\ row'[s].planned = {}
    BY <1>6, <1>7, ScopeIs DEF Row
  <1>9. \A s \in Scopes : s[2] # c => row'[s] = row[s] /\ row[s] \in Row
    BY <1>6 DEF TypeOK
  <1>10. row' \in [Scopes -> Row]
    BY <1>6, <1>8, <1>9
  <1>11. UNCHANGED <<parent, child, observer, repair>>
    BY DEF Publish
  <1> QED BY <1>1, <1>2, <1>3, <1>5, <1>8, <1>9, <1>10, <1>11

\* A repair takes the anomalies for its rows and resets them to their predecessors.
LEMMA ApplyIs ==
    ASSUME TypeOK, PayloadIsOld, EventsExact, RepairShape, NEW r \in Repairs, Apply(r)
    PROVE  /\ repair[r].status = "none" /\ parent = "sealed"
           /\ Anomalies # {} /\ Anomalies \subseteq Rows /\ AllPublished
           /\ \A s \in Rows : row[s].status = "completed"
           /\ RepairShape' /\ row' \in [Scopes -> Row]
           /\ repair'[r].status = "applied" /\ Entries(r)' = Anomalies
           /\ repair'[r].before = [s \in Anomalies |-> row[s]]
           /\ repair'[r].target = [s \in Anomalies |-> Predecessor(s)]
           /\ \A q \in Repairs : q # r => repair'[q] = repair[q]
           /\ \A s \in Scopes \ Anomalies : row'[s] = row[s]
           /\ \A s \in Anomalies : /\ row'[s].status = "pending" /\ row'[s].planned = {}
                                   /\ row'[s].old = Predecessor(s)
                                   /\ row'[s].payload = Predecessor(s)
           /\ observer.held = {}
           /\ UNCHANGED <<parent, child, task, work, observer>>
  <1>1. /\ repair[r].status = "none" /\ parent = "sealed" /\ Repairable /\ observer = Unlocked
        /\ repair' = [repair EXCEPT ![r] =
             [status |-> "applied", before |-> [s \in Anomalies |-> row[s]],
              target |-> [s \in Anomalies |-> Predecessor(s)]]]
        /\ row' = [s \in Scopes |-> IF s \in Anomalies THEN Reset(s) ELSE row[s]]
        /\ UNCHANGED <<parent, child, task, work, observer>>
    BY DEF Apply, Free
  <1>2. Anomalies # {}
    <2>1. Cardinality(Anomalies) = 2
      BY <1>1 DEF Repairable
    <2>2. Cardinality({}) # 2
      BY FS_EmptySet
    <2> QED BY <2>1, <2>2, Zenon
  <1>3. AllPublished /\ \A s \in Rows : row[s].status = "completed"
    BY <1>1 DEF Repairable, Drained, AllPublished
  <1>4. Anomalies \subseteq Rows /\ Rows \subseteq Scopes
    BY DEF Anomalies, Rows
  <1>5. \A s \in Scopes : Predecessor(s) \in Runs
    BY PredecessorIs
  <1>6. DOMAIN repair = Repairs
    BY DEF RepairShape
  <1> DEFINE R == [status |-> "applied", before |-> [s \in Anomalies |-> row[s]],
                   target |-> [s \in Anomalies |-> Predecessor(s)]]
  <1>7. R = [status |-> R.status, before |-> R.before, target |-> R.target]
    OBVIOUS
  <1>8. /\ R.status = "applied" /\ R.before = [s \in Anomalies |-> row[s]]
        /\ R.target = [s \in Anomalies |-> Predecessor(s)] /\ DOMAIN R.target = Anomalies
    OBVIOUS
  <1>9. repair' = [repair EXCEPT ![r] = R]
    BY <1>1
  <1> HIDE DEF R
  <1>10. repair'[r] = R /\ \A q \in Repairs : q # r => repair'[q] = repair[q]
    BY <1>6, <1>9
  <1>11. repair' = [q \in Repairs |-> repair'[q]]
    BY <1>6, <1>9
  <1>12. \A q \in Repairs : repair'[q] = [status |-> repair'[q].status, before |-> repair'[q].before,
                                          target |-> repair'[q].target]
    BY <1>7, <1>10 DEF RepairShape
  <1>13. RepairShape'
    BY <1>11, <1>12 DEF RepairShape
  <1>14. \A s \in Anomalies : Reset(s) \in Row
    BY <1>4, <1>5 DEF Reset, Row
  <1>15. row' \in [Scopes -> Row]
    BY <1>1, <1>14 DEF TypeOK
  <1>16. \A s \in Anomalies : /\ row'[s].status = "pending" /\ row'[s].planned = {}
                              /\ row'[s].old = Predecessor(s) /\ row'[s].payload = Predecessor(s)
    BY <1>1, <1>4 DEF Reset
  <1>17. Entries(r)' = Anomalies
    BY <1>8, <1>10 DEF Entries
  <1>18. observer.held = {}
    BY <1>1 DEF Unlocked
  <1> QED BY <1>1, <1>2, <1>3, <1>4, <1>8, <1>10, <1>13, <1>15, <1>16, <1>17, <1>18

\* A rollback puts the rows of the repair back.
LEMMA RollbackIs ==
    ASSUME TypeOK, RepairShape, NEW r \in Repairs, Rollback(r)
    PROVE  /\ Applied(r) /\ RepairShape' /\ row' \in [Scopes -> Row]
           /\ Entries(r) \subseteq Scopes
           /\ \A s \in Scopes : row'[s] = IF s \in Entries(r) THEN repair[r].before[s] ELSE row[s]
           /\ \A q \in Repairs : /\ repair'[q].before = repair[q].before
                                 /\ repair'[q].target = repair[q].target
                                 /\ Entries(q)' = Entries(q)
                                 /\ repair'[q].status = IF q = r THEN "rolled_back"
                                                                 ELSE repair[q].status
           /\ observer.held = {} /\ child # "sealed"
           /\ UNCHANGED <<parent, child, task, work, observer>>
  <1>1. /\ Applied(r) /\ child # "sealed" /\ observer.held = {}
        /\ UNCHANGED <<parent, child, task, work, observer>>
    BY DEF Rollback, Reversible, Free, Unlocked
  <1>2. row' = [s \in Scopes |-> IF s \in Entries(r) THEN repair[r].before[s] ELSE row[s]]
    BY DEF Rollback, Restored
  <1>3. Entries(r) \subseteq Scopes /\ \A s \in Entries(r) : repair[r].before[s] \in Row
    BY DEF TypeOK
  <1>4. row' \in [Scopes -> Row]
    BY <1>2, <1>3 DEF TypeOK
  <1>5. /\ RepairShape'
        /\ \A q \in Repairs : /\ repair'[q].before = repair[q].before
                              /\ repair'[q].target = repair[q].target
                              /\ repair'[q].status = IF q = r THEN "rolled_back"
                                                              ELSE repair[q].status
    <2>1. SetStatus(r, "rolled_back")
      BY DEF Rollback, SetStatus
    <2> QED BY <2>1, RepairUpdate
  <1>6. \A q \in Repairs : Entries(q)' = Entries(q)
    BY <1>5 DEF Entries
  <1> QED BY <1>1, <1>2, <1>3, <1>4, <1>5, <1>6

LEMMA VerifyIs ==
    ASSUME RepairShape, NEW r \in Repairs, Verify(r)
    PROVE  /\ repair[r].status = "applied" /\ Finalizable /\ RepairShape'
           /\ \A q \in Repairs : /\ repair'[q].before = repair[q].before
                                 /\ repair'[q].target = repair[q].target
                                 /\ Entries(q)' = Entries(q)
                                 /\ repair'[q].status = IF q = r THEN "verified"
                                                                 ELSE repair[q].status
           /\ UNCHANGED <<parent, child, task, work, row, observer>>
  <1>1. /\ RepairShape'
        /\ \A q \in Repairs : /\ repair'[q].before = repair[q].before
                              /\ repair'[q].target = repair[q].target
                              /\ repair'[q].status = IF q = r THEN "verified"
                                                              ELSE repair[q].status
    <2>1. SetStatus(r, "verified")
      BY DEF Verify, SetStatus
    <2> QED BY <2>1, RepairUpdate
  <1>2. \A q \in Repairs : Entries(q)' = Entries(q)
    BY <1>1 DEF Entries
  <1> QED BY <1>1, <1>2 DEF Verify

\* The steps of workers and of preparation leave the rows alone, need an open parent
\* or change no task's status, and never seal.
OpenStep ==
    \/ \E S \in SUBSET Cutoffs : Prepare(S) \/ PrepareIntraday(S)
    \/ \E w \in Workers :
         \/ \E c \in Cutoffs : Claim(w, c)
         \/ BeginPublish(w) \/ Fail(w)
         \/ \E m \in Modes : ReadPrevious(w, m)

LEMMA OpenIs ==
    ASSUME TypeOK, WorkOK, OpenStep
    PROVE  parent = "planned" /\ (child' = child \/ child' \in {"planned", "running"})
           /\ UNCHANGED <<parent, row, observer, repair>>
  BY DEF OpenStep, Prepare, PrepareIntraday, Claim, BeginPublish, Fail, ReadPrevious, Executable,
         WorkOK

QuietStep ==
    \/ \E c \in Cutoffs : LeaseExpires(c)
    \/ \E w \in Workers : Die(w)
    \/ UNCHANGED vars

LEMMA QuietIs ==
    ASSUME TypeOK, QuietStep
    PROVE  SameTasks /\ UNCHANGED <<parent, child, row, observer, repair>>
  BY DEF QuietStep, LeaseExpires, Die, vars, SameTasks, TypeOK

LEMMA NextIs ==
    ASSUME [Next]_vars
    PROVE  \/ OpenStep \/ QuietStep
           \/ \E w \in Workers : Publish(w)
           \/ \E s \in Scopes : ObserverAt(s)
           \/ ObserverDies \/ Finalize \/ SealParent
           \/ \E r \in Repairs : Apply(r) \/ Verify(r) \/ Rollback(r)
  BY DEF Next, OpenStep, QuietStep, ObserverAt

-----------------------------------------------------------------------------
(* Types and workers.                                                        *)

TaskSet == [status : {"none", "pending", "running", "completed", "failed"},
            attempts : 0 .. MaxAttempts, lease : BOOLEAN]
WorkSet == [pc : {"idle", "compute", "publish"}, cutoff : Runs,
            attempts : 0 .. MaxAttempts, found : [Modes -> Runs \union {NotRead}]]

\* The types of all but the repairs, and of the repairs.
VarTypes ==
    /\ parent \in {"planned", "sealed"}
    /\ child \in {"none", "planned", "running", "sealed"}
    /\ task \in [Cutoffs -> TaskSet]
    /\ work \in [Workers -> WorkSet]
    /\ row \in [Scopes -> Row]
    /\ observer \in [held : SUBSET Scopes, read : Runs]
RepairTypes ==
    \A r \in Repairs :
         /\ repair[r].status \in {"none", "applied", "verified", "rolled_back"}
         /\ Entries(r) \subseteq Scopes
         /\ repair[r].target \in [Entries(r) -> Runs]
         /\ repair[r].before \in [Entries(r) -> Row]

LEMMA TypeParts == TypeOK <=> VarTypes /\ RepairTypes
  BY DEF TypeOK, VarTypes, RepairTypes, TaskSet, WorkSet

LEMMA VarTypesStep ==
    ASSUME TypeOK, WorkOK, HeldOK, PayloadIsOld, EventsExact, RepairShape, [Next]_vars
    PROVE  VarTypes'
  <1>0. VarTypes /\ MaxCutoff \in Nat /\ MaxAttempts \in Nat /\ Idle \in WorkSet /\ NoTask \in TaskSet
        /\ Unlocked \in [held : SUBSET Scopes, read : Runs]
    BY TypeParts, BoundsAssumption DEF Idle, NoTask, WorkSet, TaskSet, Runs, Unlocked
  <1>1. ASSUME NEW S \in SUBSET Cutoffs, Prepare(S) \/ PrepareIntraday(S) PROVE VarTypes'
    <2>0. [NoTask EXCEPT !.status = "pending"] \in TaskSet
      BY <1>0 DEF NoTask, TaskSet
    <2>1. PICK new \in TaskSet : new = [NoTask EXCEPT !.status = "pending"]
      BY <2>0
    <2>2. task' = [c \in Cutoffs |-> IF c \in S \ Seeded THEN new ELSE task[c]]
      BY <1>1, <2>1 DEF Prepare, PrepareIntraday, Seed
    <2>3. task' \in [Cutoffs -> TaskSet]
      BY <1>0, <2>2 DEF VarTypes
    <2> QED BY <1>0, <1>1, <2>3 DEF Prepare, PrepareIntraday, VarTypes
  <1>2. ASSUME NEW w \in Workers, NEW c \in Cutoffs, Claim(w, c) PROVE VarTypes'
    <2>1. task[c].attempts + 1 \in 0 .. MaxAttempts
      BY <1>0, <1>2 DEF Claim, Claimable, VarTypes, TaskSet
    <2>2. c \in Runs
      BY <1>0 DEF Cutoffs, Runs
    <2>3. task' \in [Cutoffs -> TaskSet]
      BY <1>0, <1>2, <2>1 DEF Claim, VarTypes, TaskSet
    <2>4. [Idle EXCEPT !.pc = "compute", !.cutoff = c, !.attempts = task[c].attempts + 1] \in WorkSet
      BY <1>0, <2>1, <2>2 DEF WorkSet
    <2>5. work' \in [Workers -> WorkSet]
      BY <1>0, <1>2, <2>4 DEF Claim, VarTypes
    <2> QED BY <1>0, <1>2, <2>3, <2>5 DEF Claim, VarTypes
  <1>3. ASSUME NEW w \in Workers, NEW m \in Modes, ReadPrevious(w, m) PROVE VarTypes'
    <2>1. PICK x \in Runs : x = LastBefore(Published(m), work[w].cutoff)
      BY LastBeforeIs DEF Published
    <2>2. work' = [work EXCEPT ![w].found[m] = x]
      BY <1>3, <2>1 DEF ReadPrevious
    <2>3. work \in [Workers -> WorkSet]
      BY <1>0 DEF VarTypes
    <2>4. [work[w] EXCEPT !.found = [work[w].found EXCEPT ![m] = x]] \in WorkSet
      BY <2>3 DEF WorkSet
    <2>5. work' \in [Workers -> WorkSet]
      BY <2>2, <2>3, <2>4
    <2> QED BY <1>0, <1>3, <2>5 DEF ReadPrevious, VarTypes
  <1>4. ASSUME NEW w \in Workers, BeginPublish(w) PROVE VarTypes'
    <2>1. work' \in [Workers -> WorkSet]
      BY <1>0, <1>4 DEF BeginPublish, VarTypes, WorkSet
    <2> QED BY <1>0, <1>4, <2>1 DEF BeginPublish, VarTypes
  <1>5. ASSUME NEW w \in Workers, Publish(w) PROVE VarTypes'
    <2>1. work' \in [Workers -> WorkSet]
      BY <1>0, <1>5 DEF Publish, VarTypes
    <2>2. row' \in [Scopes -> Row] /\ task' \in [Cutoffs -> TaskSet]
          /\ UNCHANGED <<parent, child, observer>>
      BY <1>5, PublishIs DEF TaskSet
    <2> QED BY <1>0, <2>1, <2>2 DEF VarTypes
  <1>6. ASSUME NEW w \in Workers, Fail(w) PROVE VarTypes'
    <2>1. PICK c \in Cutoffs : c = work[w].cutoff
      BY <1>6 DEF Fail, WorkOK
    <2>2. task' = task \/ task' = [task EXCEPT ![c].status = "failed", ![c].lease = FALSE]
      BY <1>6, <2>1 DEF Fail
    <2>3. task' \in [Cutoffs -> TaskSet]
      BY <1>0, <2>2 DEF VarTypes, TaskSet
    <2>4. work' \in [Workers -> WorkSet]
      BY <1>0, <1>6 DEF Fail, VarTypes
    <2> QED BY <1>0, <1>6, <2>3, <2>4 DEF Fail, VarTypes
  <1>7. ASSUME NEW w \in Workers, Die(w) PROVE VarTypes'
    BY <1>0, <1>7 DEF Die, VarTypes
  <1>8. ASSUME NEW c \in Cutoffs, LeaseExpires(c) PROVE VarTypes'
    <2>1. task' \in [Cutoffs -> TaskSet]
      BY <1>0, <1>8 DEF LeaseExpires, VarTypes, TaskSet
    <2> QED BY <1>0, <1>8, <2>1 DEF LeaseExpires, VarTypes
  <1>9. ASSUME NEW s \in Scopes, ObserverAt(s) PROVE VarTypes'
    <2>1. row' \in [Scopes -> Row] /\ UNCHANGED <<parent, child, task, work>>
      BY <1>9, ObserverIs
    <2>2. row[s].old \in Runs
      BY <1>0 DEF VarTypes, Row
    <2>3. observer' \in [held : SUBSET Scopes, read : Runs]
      BY <1>0, <1>9, <2>2 DEF ObserverAt, Observe, Persist, ObserverFails
    <2> QED BY <1>0, <2>1, <2>3 DEF VarTypes
  <1>10. CASE ObserverDies
    BY <1>0, <1>10 DEF ObserverDies, VarTypes
  <1>11. CASE Finalize \/ SealParent
    BY <1>0, <1>11 DEF Finalize, SealParent, VarTypes
  <1>12. ASSUME NEW r \in Repairs, Apply(r) PROVE VarTypes'
    <2>1. row' \in [Scopes -> Row] /\ UNCHANGED <<parent, child, task, work, observer>>
      BY <1>12, ApplyIs
    <2> QED BY <1>0, <2>1 DEF VarTypes
  <1>13. ASSUME NEW r \in Repairs, Verify(r) PROVE VarTypes'
    BY <1>0, <1>13 DEF Verify, VarTypes
  <1>14. ASSUME NEW r \in Repairs, Rollback(r) PROVE VarTypes'
    <2>1. row' \in [Scopes -> Row] /\ UNCHANGED <<parent, child, task, work, observer>>
      BY <1>14, RollbackIs
    <2> QED BY <1>0, <2>1 DEF VarTypes
  <1>15. CASE UNCHANGED vars
    BY <1>0, <1>15 DEF vars, VarTypes
  <1> QED BY <1>1, <1>2, <1>3, <1>4, <1>5, <1>6, <1>7, <1>8, <1>9, <1>10, <1>11, <1>12, <1>13,
             <1>14, <1>15 DEF Next, ObserverAt

\* The repairs change in three steps.
LEMMA RepairSteps ==
    ASSUME TypeOK, WorkOK, HeldOK, [Next]_vars
    PROVE  repair' = repair \/ \E r \in Repairs : Apply(r) \/ Verify(r) \/ Rollback(r)
  <1>1. ASSUME ObserverDies \/ Finalize \/ SealParent PROVE repair' = repair
    BY <1>1 DEF ObserverDies, Finalize, SealParent
  <1> QED BY <1>1, NextIs, OpenIs, QuietIs, PublishIs, ObserverIs

LEMMA RepairTypesStep ==
    ASSUME TypeOK, WorkOK, HeldOK, PayloadIsOld, EventsExact, RepairShape, [Next]_vars
    PROVE  RepairTypes' /\ RepairShape'
  <1>0. RepairTypes
    BY TypeParts
  <1>1. CASE repair' = repair
    BY <1>0, <1>1 DEF RepairTypes, RepairShape, Entries
  <1>2. ASSUME NEW r \in Repairs, Apply(r) PROVE RepairTypes' /\ RepairShape'
    <2>1. /\ Anomalies \subseteq Rows /\ RepairShape'
          /\ repair'[r].status = "applied" /\ Entries(r)' = Anomalies
          /\ repair'[r].before = [s \in Anomalies |-> row[s]]
          /\ repair'[r].target = [s \in Anomalies |-> Predecessor(s)]
          /\ \A q \in Repairs : q # r => repair'[q] = repair[q]
      BY <1>2, ApplyIs
    <2>2. Anomalies \subseteq Scopes
      BY <2>1 DEF Rows
    <2>3. /\ repair'[r].before \in [Anomalies -> Row]
          /\ repair'[r].target \in [Anomalies -> Runs]
      BY <2>1, <2>2, PredecessorIs DEF TypeOK
    <2>4. \A q \in Repairs : q # r => Entries(q)' = Entries(q)
      BY <2>1 DEF Entries
    <2>5. RepairTypes'
      BY <1>0, <2>1, <2>2, <2>3, <2>4 DEF RepairTypes
    <2> QED BY <2>1, <2>5
  <1>3. ASSUME NEW r \in Repairs, Verify(r) PROVE RepairTypes' /\ RepairShape'
    BY <1>0, <1>3, VerifyIs DEF RepairTypes
  <1>4. ASSUME NEW r \in Repairs, Rollback(r) PROVE RepairTypes' /\ RepairShape'
    BY <1>0, <1>4, RollbackIs DEF RepairTypes
  <1> QED BY <1>1, <1>2, <1>3, <1>4, RepairSteps

LEMMA TypeStep ==
    ASSUME TypeOK, WorkOK, HeldOK, PayloadIsOld, EventsExact, RepairShape, [Next]_vars
    PROVE  TypeOK' /\ RepairShape'
  <1>1. VarTypes' /\ RepairTypes' /\ RepairShape'
    BY VarTypesStep, RepairTypesStep
  <1>2. TypeOK'
    BY <1>1 DEF TypeOK, VarTypes, RepairTypes, TaskSet, WorkSet
  <1> QED BY <1>1, <1>2

\* Sealing waits for open publications, so that a publication finds the batch open.
LEMMA WorkStep ==
    ASSUME TypeOK, WorkOK, HeldOK, [Next]_vars
    PROVE  WorkOK'
  <1>1. ASSUME NEW w \in Workers, work' = [work EXCEPT ![w] = Idle], parent' = parent PROVE WorkOK'
    BY <1>1 DEF WorkOK, Publishing, Idle, TypeOK
  <1>2. CASE UNCHANGED <<work, parent>>
    BY <1>2 DEF WorkOK, Publishing
  <1>3. ASSUME NEW w \in Workers, NEW c \in Cutoffs, Claim(w, c) PROVE WorkOK'
    <2>1. /\ \A v \in Workers : v # w => work'[v] = work[v]
          /\ work'[w].pc = "compute" /\ work'[w].cutoff = c /\ parent' = parent
      BY <1>3 DEF Claim, TypeOK, Idle
    <2> QED BY <2>1 DEF WorkOK, Publishing
  <1>4. ASSUME NEW w \in Workers, NEW m \in Modes, ReadPrevious(w, m) PROVE WorkOK'
    <2>1. /\ \A v \in Workers : work'[v].pc = work[v].pc /\ work'[v].cutoff = work[v].cutoff
          /\ parent' = parent
      BY <1>4 DEF ReadPrevious, TypeOK
    <2> QED BY <2>1 DEF WorkOK, Publishing
  <1>5. ASSUME NEW w \in Workers, BeginPublish(w) PROVE WorkOK'
    <2>1. /\ \A v \in Workers : work'[v].cutoff = work[v].cutoff
          /\ \A v \in Workers : v # w => work'[v].pc = work[v].pc
          /\ work[w].pc # "idle" /\ parent = "planned" /\ parent' = parent
      BY <1>5 DEF BeginPublish, Executable, TypeOK
    <2> QED BY <2>1 DEF WorkOK, Publishing
  <1>6. CASE Finalize \/ SealParent
    BY <1>6 DEF Finalize, SealParent, Quiet, WorkOK, Publishing
  <1>7. ASSUME NEW S \in SUBSET Cutoffs, Prepare(S) \/ PrepareIntraday(S) PROVE UNCHANGED <<work, parent>>
    BY <1>7 DEF Prepare, PrepareIntraday
  <1>8. ASSUME NEW w \in Workers, Publish(w) \/ Fail(w) \/ Die(w)
        PROVE  work' = [work EXCEPT ![w] = Idle] /\ parent' = parent
    BY <1>8 DEF Publish, Fail, Die
  <1>9. ASSUME NEW c \in Cutoffs, LeaseExpires(c) PROVE UNCHANGED <<work, parent>>
    BY <1>9 DEF LeaseExpires
  <1>10. ASSUME NEW s \in Scopes, ObserverAt(s) PROVE UNCHANGED <<work, parent>>
    BY <1>10, ObserverIs
  <1>11. CASE ObserverDies \/ UNCHANGED vars
    BY <1>2, <1>11 DEF ObserverDies, vars
  <1>12. ASSUME NEW r \in Repairs, Apply(r) \/ Verify(r) \/ Rollback(r) PROVE UNCHANGED <<work, parent>>
    BY <1>12 DEF Apply, Verify, Rollback
  <1> QED BY <1>1, <1>2, <1>3, <1>4, <1>5, <1>6, <1>7, <1>8, <1>9, <1>10, <1>11, <1>12
          DEF Next, ObserverAt

-----------------------------------------------------------------------------
(* Rows and events.                                                          *)

\* A completed task is never claimed, nor fails, nor is seeded again.
LEMMA CompletedKept ==
    ASSUME IInv, [Next]_vars
    PROVE  \A c \in Cutoffs : task[c].status = "completed" => task'[c].status = "completed"
  <1> SUFFICES ASSUME NEW c \in Cutoffs, task[c].status = "completed"
               PROVE  task'[c].status = "completed"
    OBVIOUS
  <1>0. TypeOK /\ WorkOK /\ HeldOK /\ PayloadIsOld /\ EventsExact /\ RepairShape /\ DOMAIN task = Cutoffs
    BY DEF IInv, TypeOK
  <1>1. ASSUME NEW S \in SUBSET Cutoffs, Prepare(S) \/ PrepareIntraday(S) PROVE task'[c] = task[c]
    BY <1>1 DEF Prepare, PrepareIntraday, Seed, Seeded
  <1>2. ASSUME NEW w \in Workers, NEW d \in Cutoffs, Claim(w, d) PROVE task'[c] = task[c]
    BY <1>0, <1>2 DEF Claim, Claimable
  <1>3. ASSUME NEW w \in Workers, Fail(w) PROVE task'[c] = task[c]
    BY <1>0, <1>3 DEF Fail, Claimed, WorkOK
  <1>4. ASSUME NEW d \in Cutoffs, LeaseExpires(d) PROVE task'[c] = task[c]
    BY <1>0, <1>4 DEF LeaseExpires
  <1>5. ASSUME NEW w \in Workers, Publish(w) PROVE task'[c].status = "completed"
    BY <1>0, <1>5, PublishIs
  <1>6. ASSUME NEW s \in Scopes, ObserverAt(s) PROVE task' = task
    BY <1>0, <1>6, ObserverIs
  <1>7. ASSUME NEW w \in Workers, BeginPublish(w) \/ Die(w) \/ \E m \in Modes : ReadPrevious(w, m)
        PROVE  task' = task
    BY <1>7 DEF BeginPublish, Die, ReadPrevious
  <1>8. ASSUME ObserverDies \/ Finalize \/ SealParent \/ UNCHANGED vars PROVE task' = task
    BY <1>8 DEF ObserverDies, Finalize, SealParent, vars
  <1>9. ASSUME NEW r \in Repairs, Apply(r) \/ Verify(r) \/ Rollback(r) PROVE task' = task
    BY <1>9 DEF Apply, Verify, Rollback
  <1> QED BY <1>1, <1>2, <1>3, <1>4, <1>5, <1>6, <1>7, <1>8, <1>9 DEF Next, ObserverAt

\* Steps that are neither a publication's, nor an observer's, nor a repair's leave
\* the rows and the repairs alone.
LEMMA ElseIs ==
    ASSUME IInv, [Next]_vars
    PROVE  \/ UNCHANGED <<row, repair>> /\ (UNCHANGED observer \/ ObserverDies)
           \/ \E w \in Workers : Publish(w)
           \/ \E s \in Scopes : ObserverAt(s)
           \/ \E r \in Repairs : Apply(r) \/ Verify(r) \/ Rollback(r)
  <1>1. TypeOK /\ WorkOK
    BY DEF IInv
  <1>2. ASSUME OpenStep \/ QuietStep PROVE UNCHANGED <<row, repair, observer>>
    BY <1>1, <1>2, OpenIs, QuietIs
  <1>3. ASSUME ObserverDies \/ Finalize \/ SealParent
        PROVE  UNCHANGED <<row, repair>> /\ (UNCHANGED observer \/ ObserverDies)
    BY <1>3 DEF ObserverDies, Finalize, SealParent
  <1> QED BY <1>2, <1>3, NextIs

\* Rows are never deleted, and only a publication makes them.
LEMMA RowsStep ==
    ASSUME IInv, [Next]_vars, NEW s \in Scopes
    PROVE  /\ row[s].status # "none" => row'[s].status # "none"
           /\ row'[s].status # "none" => row[s].status # "none" \/ task'[s[2]].status = "completed"
  <1>0. TypeOK /\ WorkOK /\ HeldOK /\ PayloadIsOld /\ EventsExact /\ RepairShape /\ RepairStart
    BY DEF IInv
  <1>1. CASE UNCHANGED <<row, repair>>
    BY <1>1
  <1>2. ASSUME NEW w \in Workers, Publish(w)
        PROVE  /\ row[s].status # "none" => row'[s].status # "none"
               /\ row'[s].status # "none" => row[s].status # "none" \/ task'[s[2]].status = "completed"
    BY <1>0, <1>2, PublishIs
  <1>3. ASSUME NEW t \in Scopes, ObserverAt(t) PROVE row'[s].status = "none" <=> row[s].status = "none"
    BY <1>0, <1>3, ObserverIs DEF SameChain
  <1>4. ASSUME NEW r \in Repairs, Apply(r) PROVE row'[s].status = "none" <=> row[s].status = "none"
    <2>1. \A t \in Anomalies : t \in Rows /\ row'[t].status = "pending"
      BY <1>0, <1>4, ApplyIs
    <2>2. s \notin Anomalies => row'[s] = row[s]
      BY <1>0, <1>4, ApplyIs
    <2> QED BY <2>1, <2>2 DEF Rows
  <1>5. ASSUME NEW r \in Repairs, Verify(r) PROVE row' = row
    BY <1>0, <1>5, VerifyIs
  <1>6. ASSUME NEW r \in Repairs, Rollback(r) PROVE row'[s].status = "none" <=> row[s].status = "none"
    <2>1. row'[s] = IF s \in Entries(r) THEN repair[r].before[s] ELSE row[s]
      BY <1>0, <1>6, RollbackIs
    <2> QED BY <1>0, <2>1 DEF RepairStart
  <1> QED BY <1>1, <1>2, <1>3, <1>4, <1>5, <1>6, ElseIs

LEMMA PublishedDoneStep ==
    ASSUME IInv, [Next]_vars
    PROVE  PublishedDone'
  <1> SUFFICES ASSUME NEW s \in Scopes, row'[s].status # "none"
               PROVE  task'[s[2]].status = "completed"
    BY DEF PublishedDone
  <1>1. row[s].status # "none" => task[s[2]].status = "completed"
    BY DEF IInv, PublishedDone
  <1> QED BY <1>1, CompletedKept, RowsStep, ScopeIs

\* Whatever else happens, the row under the observer's lock stays where it is.
LEMMA HeldStep ==
    ASSUME IInv, [Next]_vars
    PROVE  HeldOK'
  <1>0. TypeOK /\ WorkOK /\ HeldOK /\ PayloadIsOld /\ EventsExact /\ RepairShape /\ PublishedDone
    BY DEF IInv
  <1>1. ASSUME observer'.held = {} PROVE HeldOK'
    BY <1>1 DEF HeldOK
  <1>2. CASE UNCHANGED <<row, observer>>
    BY <1>0, <1>2 DEF HeldOK
  <1>3. ASSUME NEW w \in Workers, Publish(w) PROVE HeldOK'
    <2>1. task[work[w].cutoff].status = "running" /\ observer' = observer
          /\ \A s \in Scopes : s[2] # work[w].cutoff => row'[s] = row[s]
      BY <1>0, <1>3, PublishIs
    <2>2. \A s \in observer.held : s \in Scopes /\ s[2] # work[w].cutoff
      BY <1>0, <2>1 DEF HeldOK, PublishedDone
    <2> QED BY <1>0, <2>1, <2>2 DEF HeldOK
  <1>4. ASSUME NEW s \in Scopes, Observe(s) PROVE HeldOK'
    <2>1. observer'.held = {s} /\ row' = [row EXCEPT ![s].status = "processing"]
      BY <1>4 DEF Observe
    <2>2. row'[s].status = "processing"
      BY <1>0, <2>1 DEF TypeOK, Row
    <2> QED BY <2>1, <2>2 DEF HeldOK
  <1>5. ASSUME (\E s \in Scopes : Persist(s) \/ ObserverFails(s)) \/ ObserverDies PROVE observer'.held = {}
    <2>1. observer' = Unlocked
      BY <1>5, Zenon DEF Persist, ObserverFails, ObserverDies
    <2> QED BY <2>1 DEF Unlocked
  <1>6. ASSUME NEW r \in Repairs, Apply(r) \/ Rollback(r) PROVE observer'.held = {}
    BY <1>6 DEF Apply, Rollback, Free, Unlocked
  <1>7. ASSUME NEW r \in Repairs, Verify(r) PROVE UNCHANGED <<row, observer>>
    BY <1>7 DEF Verify
  <1> QED BY <1>1, <1>2, <1>3, <1>4, <1>5, <1>6, <1>7, ElseIs DEF ObserverAt

\* The observer reads the run that the row's payload names, and plans from it once.
LEMMA EventsStep ==
    ASSUME IInv, [Next]_vars
    PROVE  PayloadIsOld' /\ EventsExact'
  <1>0. TypeOK /\ WorkOK /\ HeldOK /\ PayloadIsOld /\ EventsExact /\ RepairShape /\ RepairStart
    BY DEF IInv
  <1>1. CASE UNCHANGED <<row, repair>>
    BY <1>0, <1>1 DEF PayloadIsOld, EventsExact
  <1>2. ASSUME NEW w \in Workers, Publish(w) PROVE PayloadIsOld' /\ EventsExact'
    <2>1. ASSUME NEW s \in Scopes
          PROVE  \/ row'[s] = row[s]
                 \/ row'[s].payload = row'[s].old /\ row'[s].planned = {} /\ row'[s].status = "pending"
      BY <1>0, <1>2, PublishIs
    <2> QED BY <1>0, <2>1 DEF PayloadIsOld, EventsExact
  <1>3. ASSUME NEW s \in Scopes, ObserverAt(s) PROVE PayloadIsOld' /\ EventsExact'
    <2>1. /\ row[s].status \in {"pending", "processing"} /\ SameChain
          /\ \A t \in Scopes : t # s => row'[t] = row[t]
      BY <1>0, <1>3, ObserverIs
    <2>2. row[s].planned = {} /\ row[s] \in Row /\ DOMAIN row = Scopes
      BY <1>0, <2>1 DEF EventsExact, TypeOK
    <2>3. row'[s].planned = IF row'[s].status = "completed" THEN {row[s].old} ELSE {}
      <3>1. CASE Observe(s)
        BY <2>2, <3>1 DEF Observe, Row
      <3>2. CASE Persist(s)
        <4>1. observer.read = row[s].old
          BY <1>0, <3>2 DEF Persist, PayloadIsOld
        <4>2. row[s].planned \union {observer.read} = {row[s].old}
          BY <2>2, <4>1
        <4>3. row' = [row EXCEPT ![s] = [row[s] EXCEPT !.status = "completed",
                                         !.planned = row[s].planned \union {observer.read}]]
          BY <2>2, <3>2 DEF Persist
        <4>4. row' = [row EXCEPT ![s] = [row[s] EXCEPT !.status = "completed",
                                                      !.planned = {row[s].old}]]
          BY <4>2, <4>3
        <4> QED BY <2>2, <4>4 DEF Row
      <3>3. CASE ObserverFails(s)
        <4>1. PICK after \in {"pending", "dead_letter"} : row' = [row EXCEPT ![s].status = after]
          BY <3>3 DEF ObserverFails
        <4> QED BY <2>2, <4>1 DEF Row
      <3> QED BY <1>3, <3>1, <3>2, <3>3 DEF ObserverAt
    <2>4. PayloadIsOld'
      BY <1>0, <2>1 DEF PayloadIsOld, SameChain
    <2>5. row'[s].old = row[s].old
      BY <2>1 DEF SameChain
    <2>6. EventsExact'
      BY <1>0, <2>1, <2>3, <2>5 DEF EventsExact
    <2> QED BY <2>4, <2>6
  <1>4. ASSUME NEW r \in Repairs, Apply(r) PROVE PayloadIsOld' /\ EventsExact'
    <2>1. ASSUME NEW s \in Scopes
          PROVE  \/ row'[s] = row[s]
                 \/ row'[s].payload = row'[s].old /\ row'[s].planned = {} /\ row'[s].status = "pending"
      <3>1. s \notin Anomalies => row'[s] = row[s]
        BY <1>0, <1>4, ApplyIs
      <3>2. s \in Anomalies => /\ row'[s].status = "pending" /\ row'[s].planned = {}
                               /\ row'[s].old = Predecessor(s) /\ row'[s].payload = Predecessor(s)
        BY <1>0, <1>4, ApplyIs
      <3> QED BY <3>1, <3>2
    <2> QED BY <1>0, <2>1 DEF PayloadIsOld, EventsExact
  <1>5. ASSUME NEW r \in Repairs, Verify(r) PROVE UNCHANGED <<row, repair>> \/ row' = row
    BY <1>0, <1>5, VerifyIs
  <1>6. ASSUME row' = row PROVE PayloadIsOld' /\ EventsExact'
    BY <1>0, <1>6 DEF PayloadIsOld, EventsExact
  <1>7. ASSUME NEW r \in Repairs, Rollback(r) PROVE PayloadIsOld' /\ EventsExact'
    <2>1. ASSUME NEW s \in Scopes
          PROVE  \/ row'[s] = row[s]
                 \/ row'[s] = repair[r].before[s] /\ s \in Entries(r)
      BY <1>0, <1>7, RollbackIs
    <2>2. \A s \in Entries(r) : /\ repair[r].before[s].payload = repair[r].before[s].old
                                /\ repair[r].before[s].status = "completed"
                                /\ repair[r].before[s].planned = {repair[r].before[s].old}
      BY <1>0 DEF RepairStart
    <2> QED BY <1>0, <2>1, <2>2 DEF PayloadIsOld, EventsExact
  <1> QED BY <1>1, <1>2, <1>3, <1>4, <1>5, <1>6, <1>7, ElseIs

-----------------------------------------------------------------------------
(* Sealing and repairs.                                                      *)

\* Once the parent is sealed, only observers and repairs change anything that counts.
LEMMA AfterSealing ==
    ASSUME IInv, [Next]_vars, parent = "sealed"
    PROVE  /\ parent' = "sealed"
           /\ \/ UNCHANGED <<row, repair>> /\ SameTasks /\ (child' = child \/ Finalize)
              \/ \E s \in Scopes : ObserverAt(s)
              \/ \E r \in Repairs : Apply(r) \/ Verify(r) \/ Rollback(r)
  <1>0. TypeOK /\ WorkOK /\ HeldOK
    BY DEF IInv
  <1>1. ~OpenStep /\ ~(\E w \in Workers : Publish(w)) /\ ~SealParent
    BY <1>0, OpenIs, PublishIs DEF SealParent
  <1>2. CASE QuietStep
    BY <1>0, <1>2, QuietIs
  <1>3. CASE ObserverDies
    BY <1>3 DEF ObserverDies, SameTasks
  <1>4. CASE Finalize
    BY <1>4 DEF Finalize, SameTasks
  <1>5. ASSUME NEW s \in Scopes, ObserverAt(s) PROVE parent' = parent
    BY <1>0, <1>5, ObserverIs
  <1>6. ASSUME NEW r \in Repairs, Apply(r) \/ Verify(r) \/ Rollback(r) PROVE parent' = parent
    BY <1>6 DEF Apply, Verify, Rollback
  <1> QED BY <1>1, <1>2, <1>3, <1>4, <1>5, <1>6, NextIs

\* Evidence that is sealed stays as the finalizer found it.
LEMMA SealedStep ==
    ASSUME IInv, [Next]_vars
    PROVE  SealedOK'
  <1>0. /\ TypeOK /\ WorkOK /\ HeldOK /\ PayloadIsOld /\ EventsExact /\ RepairShape /\ SealedOK
        /\ child = "sealed" => parent = "sealed" /\ Finalizable
    BY DEF IInv, SealedOK
  <1>1. CASE Finalize
    <2>1. UNCHANGED <<row, task>> /\ Finalizable /\ parent' = "sealed"
      BY <1>1 DEF Finalize
    <2>2. SameTasks
      BY <2>1 DEF SameTasks
    <2> QED BY <2>1, <2>2, FinalizableKept DEF SealedOK
  <1>2. CASE child = "sealed"
    <2>1. /\ parent' = "sealed"
          /\ \/ UNCHANGED <<row, repair>> /\ SameTasks
             \/ \E s \in Scopes : ObserverAt(s)
             \/ \E r \in Repairs : Apply(r) \/ Verify(r) \/ Rollback(r)
      BY <1>0, <1>2, AfterSealing
    <2>2. CASE UNCHANGED <<row, repair>> /\ SameTasks
      BY <1>0, <1>2, <2>1, <2>2, FinalizableKept DEF SealedOK
    <2>3. ASSUME NEW s \in Scopes, ObserverAt(s) PROVE FALSE
      <3>1. row[s].status \in {"pending", "processing"}
        BY <1>0, <2>3, ObserverIs
      <3> QED BY <1>0, <1>2, <3>1, FinalizableIs DEF Rows
    <2>4. ASSUME NEW r \in Repairs, Apply(r) PROVE FALSE
      BY <1>2, <2>4 DEF Apply
    <2>5. ASSUME NEW r \in Repairs, Verify(r) PROVE SealedOK'
      <3>1. UNCHANGED <<row, task>> /\ SameTasks
        BY <2>5 DEF Verify, SameTasks
      <3> QED BY <1>0, <1>2, <2>1, <3>1, FinalizableKept DEF SealedOK
    <2>6. ASSUME NEW r \in Repairs, Rollback(r) PROVE FALSE
      BY <1>2, <2>6 DEF Rollback, Reversible
    <2> QED BY <2>1, <2>2, <2>3, <2>4, <2>5, <2>6
  <1>3. CASE child # "sealed" /\ ~Finalize
    <2>1. OpenStep \/ QuietStep \/ (\E w \in Workers : Publish(w)) => child' # "sealed"
      BY <1>0, <1>3, OpenIs, QuietIs, PublishIs
    <2>2. ASSUME NEW s \in Scopes, ObserverAt(s) PROVE child' = child
      BY <1>0, <2>2, ObserverIs
    <2>3. ASSUME ObserverDies \/ SealParent \/ \E r \in Repairs : Apply(r) \/ Verify(r) \/ Rollback(r)
          PROVE  child' = child
      BY <2>3 DEF ObserverDies, SealParent, Apply, Verify, Rollback
    <2>4. child' # "sealed"
      BY <1>3, <2>1, <2>2, <2>3, NextIs
    <2> QED BY <2>4 DEF SealedOK
  <1> QED BY <1>1, <1>2, <1>3

\* What a repair records are rows that were published and observed.
LEMMA RepairStartStep ==
    ASSUME IInv, [Next]_vars
    PROVE  RepairStart'
  <1>0. TypeOK /\ WorkOK /\ HeldOK /\ PayloadIsOld /\ EventsExact /\ RepairShape /\ RepairStart
    BY DEF IInv
  <1>1. parent = "sealed" => parent' = "sealed"
    BY AfterSealing
  <1>2. \A s \in Scopes : row[s].status # "none" => row'[s].status # "none"
    BY RowsStep
  <1>3. \A q \in Repairs : Entries(q) \subseteq Scopes
    BY <1>0 DEF TypeOK
  <1>4. ASSUME NEW q \in Repairs, repair'[q].before = repair[q].before, Entries(q)' = Entries(q),
               repair'[q].status # "none" => repair[q].status # "none"
        PROVE  /\ repair'[q].status # "none" => parent' = "sealed"
               /\ \A s \in Entries(q)' :
                    /\ repair'[q].before[s].status = "completed"
                    /\ repair'[q].before[s].payload = repair'[q].before[s].old
                    /\ repair'[q].before[s].planned = {repair'[q].before[s].old}
                    /\ row'[s].status # "none"
    BY <1>0, <1>1, <1>2, <1>3, <1>4 DEF RepairStart
  <1>5. CASE repair' = repair
    <2>1. \A q \in Repairs : Entries(q)' = Entries(q)
      BY <1>5 DEF Entries
    <2> QED BY <1>4, <1>5, <2>1 DEF RepairStart
  <1>6. ASSUME NEW r \in Repairs, Apply(r) PROVE RepairStart'
    <2>1. /\ parent = "sealed" /\ Anomalies \subseteq Rows /\ \A s \in Rows : row[s].status = "completed"
          /\ repair'[r].before = [s \in Anomalies |-> row[s]] /\ Entries(r)' = Anomalies
          /\ \A q \in Repairs : q # r => repair'[q] = repair[q]
      BY <1>0, <1>6, ApplyIs
    <2>2. \A s \in Anomalies : s \in Scopes /\ row[s].status = "completed"
      BY <2>1 DEF Rows
    <2>3. \A s \in Anomalies : /\ row[s].payload = row[s].old /\ row[s].planned = {row[s].old}
                               /\ row'[s].status # "none"
      BY <1>0, <1>2, <2>2 DEF PayloadIsOld, EventsExact
    <2>4. \A q \in Repairs : q # r => Entries(q)' = Entries(q)
      BY <2>1 DEF Entries
    <2> QED BY <1>1, <1>4, <2>1, <2>2, <2>3, <2>4 DEF RepairStart
  <1>7. ASSUME NEW r \in Repairs, Verify(r) PROVE RepairStart'
    <2>1. \A q \in Repairs : /\ repair'[q].before = repair[q].before /\ Entries(q)' = Entries(q)
                             /\ repair'[q].status # "none" => repair[q].status # "none"
      BY <1>0, <1>7, VerifyIs
    <2> QED BY <1>4, <2>1 DEF RepairStart
  <1>8. ASSUME NEW r \in Repairs, Rollback(r) PROVE RepairStart'
    <2>1. \A q \in Repairs : /\ repair'[q].before = repair[q].before /\ Entries(q)' = Entries(q)
                             /\ repair'[q].status # "none" => repair[q].status # "none"
      BY <1>0, <1>8, RollbackIs DEF Applied
    <2> QED BY <1>4, <2>1 DEF RepairStart
  <1> QED BY <1>0, <1>5, <1>6, <1>7, <1>8, RepairSteps

\* A repair applies where no other one is applied, and mends all there is to mend.
LEMMA RepairAloneStep ==
    ASSUME IInv, [Next]_vars
    PROVE  RepairAlone'
  <1>0. /\ TypeOK /\ WorkOK /\ HeldOK /\ PayloadIsOld /\ EventsExact /\ RepairShape
        /\ RepairStart /\ RepairAlone
    BY DEF IInv
  <1>1. \A q \in Repairs : Applied(q) => parent = "sealed"
    BY <1>0 DEF Applied, RepairStart
  <1>2. CASE UNCHANGED <<row, repair>> /\ SameTasks
    <2>1. SameChain
      BY <1>2 DEF SameChain
    <2>2. \A q \in Repairs : (Applied(q)' <=> Applied(q)) /\ Entries(q)' = Entries(q)
      BY <1>2 DEF Applied, Entries
    <2> QED BY <1>0, <1>2, <2>1, <2>2, ChainKept, AllPublishedKept DEF RepairAlone
  <1>3. ASSUME NEW s \in Scopes, ObserverAt(s) PROVE RepairAlone'
    <2>1. /\ row[s].status \in {"pending", "processing"} /\ SameChain /\ repair' = repair /\ task' = task
          /\ \A t \in Scopes : t # s => row'[t] = row[t]
      BY <1>0, <1>3, ObserverIs
    <2>2. SameTasks
      BY <2>1 DEF SameTasks
    <2>3. /\ Rows' = Rows /\ Anomalies' = Anomalies /\ (AllPublished' <=> AllPublished)
      BY <2>1, <2>2, ChainKept, AllPublishedKept
    <2>4. \A q \in Repairs : (Applied(q)' <=> Applied(q)) /\ Entries(q)' = Entries(q)
      BY <2>1 DEF Applied, Entries
    <2>5. s \in Rows /\ row[s].status # "completed" /\ Rows \subseteq Scopes
      BY <2>1 DEF Rows
    <2>6. ASSUME NEW q \in Repairs, Applied(q), NEW t \in Rows \ Entries(q)
          PROVE  row'[t].status = "completed"
      <3>1. t # s
        BY <1>0, <2>5, <2>6 DEF RepairAlone
      <3> QED BY <1>0, <2>1, <2>5, <2>6, <3>1 DEF RepairAlone
    <2> QED BY <1>0, <2>3, <2>4, <2>6 DEF RepairAlone
  <1>4. ASSUME NEW r \in Repairs, Apply(r) PROVE RepairAlone'
    <2>1. /\ Anomalies # {} /\ Anomalies \subseteq Rows /\ AllPublished
          /\ \A s \in Rows : row[s].status = "completed"
          /\ Entries(r)' = Anomalies
          /\ \A q \in Repairs : q # r => repair'[q] = repair[q]
          /\ \A s \in Scopes : s \notin Anomalies => row'[s] = row[s]
          /\ \A s \in Anomalies : /\ row'[s].status = "pending"
                                  /\ row'[s].old = Predecessor(s) /\ row'[s].payload = Predecessor(s)
          /\ task' = task
      BY <1>0, <1>4, ApplyIs
    <2>2. \A q \in Repairs : Applied(q)' => q = r
      <3> SUFFICES ASSUME NEW q \in Repairs, Applied(q)', q # r PROVE FALSE
        OBVIOUS
      <3>1. Applied(q)
        BY <2>1 DEF Applied
      <3> QED BY <1>0, <2>1, <3>1 DEF RepairAlone
    <2>3. \A s \in Scopes : row'[s].status = "none" <=> row[s].status = "none"
      BY <2>1 DEF Rows
    <2>4. Rows' = Rows /\ Rows \subseteq Scopes
      BY <2>3 DEF Rows
    <2>5. \A m \in Modes : Published(m)' = Published(m)
      BY <2>3 DEF Published, Scopes
    <2>6. \A s \in Scopes : Predecessor(s)' = Predecessor(s)
      <3> SUFFICES ASSUME NEW s \in Scopes PROVE Predecessor(s)' = Predecessor(s)
        OBVIOUS
      <3>1. Published(s[1])' = Published(s[1])
        BY <2>5, ScopeIs
      <3> QED BY <3>1 DEF Predecessor
    <2>7. Anomalies' = {}
      <3> SUFFICES ASSUME NEW s \in Rows
                   PROVE  row'[s].old = Predecessor(s) /\ row'[s].payload = row'[s].old
        BY <2>4, <2>6 DEF Anomalies, Chained
      <3> QED BY <2>1, <2>4 DEF Anomalies, Chained
    <2>8. SameTasks
      BY <2>1 DEF SameTasks
    <2>9. AllPublished'
      BY <2>1, <2>5, <2>8, TasksKept DEF AllPublished
    <2>10. \A s \in Rows \ Anomalies : row'[s].status = "completed"
      BY <2>1, <2>4
    <2> QED BY <2>1, <2>2, <2>4, <2>7, <2>9, <2>10 DEF RepairAlone
  <1>5. ASSUME NEW r \in Repairs, Verify(r) PROVE RepairAlone'
    <2>1. /\ row' = row /\ task' = task /\ Applied(r)
          /\ \A q \in Repairs : Entries(q)' = Entries(q)
          /\ \A q \in Repairs : repair'[q].status = IF q = r THEN "verified" ELSE repair[q].status
      BY <1>0, <1>5, VerifyIs DEF Applied
    <2>2. SameChain /\ SameTasks
      BY <2>1 DEF SameChain, SameTasks
    <2>3. \A q \in Repairs : Applied(q)' <=> Applied(q)
      BY <2>1 DEF Applied
    <2> QED BY <1>0, <2>1, <2>2, <2>3, ChainKept, AllPublishedKept DEF RepairAlone
  <1>6. ASSUME NEW r \in Repairs, Rollback(r) PROVE RepairAlone'
    <2>1. /\ Applied(r)
          /\ \A q \in Repairs : repair'[q].status = IF q = r THEN "rolled_back" ELSE repair[q].status
      BY <1>0, <1>6, RollbackIs
    <2>2. \A q \in Repairs : Applied(q)' => Applied(q) /\ q # r
      BY <2>1 DEF Applied
    <2>3. \A q \in Repairs : ~Applied(q)'
      BY <1>0, <2>1, <2>2 DEF RepairAlone
    <2> QED BY <2>3 DEF RepairAlone
  <1>7. CASE parent # "sealed" /\ repair' = repair
    <2>1. \A q \in Repairs : ~Applied(q)'
      BY <1>1, <1>7 DEF Applied
    <2> QED BY <2>1 DEF RepairAlone
  <1>8. ASSUME parent # "sealed", NEW r \in Repairs, Apply(r) \/ Verify(r) \/ Rollback(r) PROVE FALSE
    BY <1>8 DEF Apply, Verify, Rollback, Reversible
  <1> QED BY <1>0, <1>2, <1>3, <1>4, <1>5, <1>6, <1>7, <1>8, AfterSealing, RepairSteps

\* A rollback leaves nothing applied, and its rows as the repair found them.
LEMMA RolledBackStep ==
    ASSUME IInv, [Next]_vars
    PROVE  RolledBack'
  <1>0. /\ TypeOK /\ WorkOK /\ HeldOK /\ PayloadIsOld /\ EventsExact /\ RepairShape
        /\ RepairStart /\ RepairAlone /\ RolledBack
    BY DEF IInv
  <1>1. \A q \in Repairs : Entries(q) \subseteq Scopes
    BY <1>0 DEF TypeOK
  <1>2. CASE row' = row /\ repair' = repair
    BY <1>0, <1>2 DEF RolledBack, Applied, Entries
  <1>3. ASSUME NEW t \in Scopes, ObserverAt(t) PROVE RolledBack'
    <2>1. /\ row[t].status \in {"pending", "processing"} /\ repair' = repair
          /\ \A s \in Scopes : s # t => row'[s] = row[s]
      BY <1>0, <1>3, ObserverIs
    <2>2. ASSUME NEW p \in Repairs, NEW s \in Entries(p), row[s] = repair[p].before[s]
          PROVE  row'[s] = row[s]
      <3>1. row[s].status = "completed"
        BY <1>0, <2>2 DEF RepairStart
      <3> QED BY <1>1, <2>1, <2>2, <3>1
    <2> QED BY <1>0, <2>1, <2>2 DEF RolledBack, Applied, Entries
  <1>4. ASSUME NEW r \in Repairs, Apply(r) PROVE RolledBack'
    <2>1. /\ Anomalies # {} /\ Anomalies \subseteq Rows
          /\ repair'[r].status = "applied" /\ Entries(r)' = Anomalies
          /\ repair'[r].before = [s \in Anomalies |-> row[s]]
          /\ \A q \in Repairs : q # r => repair'[q] = repair[q]
          /\ \A s \in Scopes : s \notin Anomalies => row'[s] = row[s]
      BY <1>0, <1>4, ApplyIs
    <2>2. \A q \in Repairs : ~Applied(q)
      BY <1>0, <2>1 DEF RepairAlone
    <2>3. \A q \in Repairs : q # r => (Applied(q)' <=> Applied(q)) /\ Entries(q)' = Entries(q)
      BY <2>1 DEF Applied, Entries
    <2>4. ASSUME NEW p \in Repairs, repair'[p].status = "rolled_back", NEW s \in Entries(p)'
          PROVE  /\ repair'[p] = repair[p] /\ row[s] = repair[p].before[s] /\ s \in Scopes
      <3>1. p # r /\ repair'[p] = repair[p] /\ Entries(p)' = Entries(p)
        BY <2>1, <2>3, <2>4
      <3> QED BY <1>0, <1>1, <2>2, <2>4, <3>1 DEF RolledBack
    <2>5. Applied(r)'
      BY <2>1 DEF Applied
    <2>6. \A q \in Repairs : Applied(q)' => q = r
      BY <2>2, <2>3
    <2> QED BY <2>1, <2>4, <2>5, <2>6 DEF RolledBack
  <1>5. ASSUME NEW r \in Repairs, Verify(r) PROVE RolledBack'
    <2>1. /\ row' = row /\ Applied(r)
          /\ \A q \in Repairs : /\ repair'[q].before = repair[q].before /\ Entries(q)' = Entries(q)
                                /\ repair'[q].status = IF q = r THEN "verified" ELSE repair[q].status
      BY <1>0, <1>5, VerifyIs DEF Applied
    <2>2. \A q \in Repairs : /\ Applied(q)' <=> Applied(q)
                             /\ repair'[q].status = "rolled_back" => repair[q].status = "rolled_back"
      BY <2>1 DEF Applied
    <2> QED BY <1>0, <2>1, <2>2 DEF RolledBack
  <1>6. ASSUME NEW r \in Repairs, Rollback(r) PROVE RolledBack'
    <2>1. /\ Applied(r) /\ Entries(r) \subseteq Scopes
          /\ \A s \in Scopes : row'[s] = IF s \in Entries(r) THEN repair[r].before[s] ELSE row[s]
          /\ \A q \in Repairs : /\ repair'[q].before = repair[q].before /\ Entries(q)' = Entries(q)
                                /\ repair'[q].status = IF q = r THEN "rolled_back" ELSE repair[q].status
      BY <1>0, <1>6, RollbackIs
    <2>2. \A q \in Repairs : Applied(q) => q = r
      BY <1>0, <2>1 DEF RepairAlone
    <2>3. \A q \in Repairs : ~Applied(q)'
      BY <2>1, <2>2 DEF Applied
    <2>4. ASSUME NEW p \in Repairs, repair'[p].status = "rolled_back", NEW s \in Entries(p)
          PROVE  row'[s] = repair[p].before[s]
      <3>1. CASE p = r
        BY <1>1, <2>1, <3>1, <2>4
      <3>2. CASE p # r /\ s \in Entries(r)
        <4>1. repair[p].status = "rolled_back"
          BY <2>1, <2>4, <3>2
        <4>2. repair[r].before[s] = repair[p].before[s]
          BY <1>0, <2>1, <2>4, <3>2, <4>1 DEF RolledBack
        <4> QED BY <1>1, <2>1, <3>2, <4>2
      <3>3. CASE p # r /\ s \notin Entries(r)
        <4>1. repair[p].status = "rolled_back"
          BY <2>1, <2>4, <3>3
        <4>2. \A q \in Repairs : Applied(q) => s \notin Entries(q)
          BY <2>2, <3>3
        <4>3. row[s] = repair[p].before[s]
          BY <1>0, <2>4, <4>1, <4>2 DEF RolledBack
        <4> QED BY <1>1, <2>1, <2>4, <3>3, <4>3
      <3> QED BY <3>1, <3>2, <3>3
    <2> QED BY <2>1, <2>3, <2>4 DEF RolledBack
  <1>7. CASE repair' = repair /\ parent # "sealed"
    <2>1. \A p \in Repairs : repair'[p].status # "rolled_back"
      BY <1>0, <1>7 DEF RepairStart
    <2> QED BY <2>1 DEF RolledBack
  <1>8. ASSUME parent # "sealed", NEW r \in Repairs, Apply(r) \/ Verify(r) \/ Rollback(r) PROVE FALSE
    BY <1>8 DEF Apply, Verify, Rollback, Reversible
  <1> QED BY <1>0, <1>2, <1>3, <1>4, <1>5, <1>6, <1>7, <1>8, AfterSealing, RepairSteps

LEMMA VerifiedStep ==
    ASSUME IInv, [Next]_vars
    PROVE  VerifiedOK'
  <1>0. /\ TypeOK /\ WorkOK /\ HeldOK /\ PayloadIsOld /\ EventsExact /\ RepairShape
        /\ RepairStart /\ RepairAlone /\ VerifiedOK
    BY DEF IInv
  <1> SUFFICES ASSUME NEW p \in Repairs, repair'[p].status = "verified" PROVE Finalizable'
    BY DEF VerifiedOK
  <1>1. CASE repair' = repair
    <2>1. Finalizable /\ parent = "sealed" /\ repair[p].status = "verified"
      BY <1>0, <1>1 DEF VerifiedOK, RepairStart
    <2>2. ASSUME NEW s \in Scopes, ObserverAt(s) PROVE FALSE
      <3>1. row[s].status \in {"pending", "processing"}
        BY <1>0, <2>2, ObserverIs
      <3> QED BY <2>1, <3>1, FinalizableIs DEF Rows
    <2>3. ASSUME NEW r \in Repairs, Apply(r) \/ Verify(r) \/ Rollback(r)
          PROVE  repair'[r].status # repair[r].status
      BY <1>0, <2>3, ApplyIs, VerifyIs, RollbackIs DEF Applied
    <2>4. UNCHANGED row /\ SameTasks
      BY <1>1, <2>1, <2>2, <2>3, AfterSealing
    <2> QED BY <2>1, <2>4, FinalizableKept
  <1>2. ASSUME NEW r \in Repairs, Apply(r) PROVE FALSE
    <2>1. /\ repair'[r].status = "applied" /\ Anomalies # {}
          /\ \A q \in Repairs : q # r => repair'[q] = repair[q]
      BY <1>0, <1>2, ApplyIs
    <2>2. repair[p].status = "verified"
      BY <2>1
    <2> QED BY <1>0, <2>1, <2>2 DEF VerifiedOK, Finalizable
  <1>3. ASSUME NEW r \in Repairs, Verify(r) PROVE Finalizable'
    <2>1. Finalizable /\ UNCHANGED <<row, task>>
      BY <1>0, <1>3, VerifyIs
    <2>2. SameTasks
      BY <2>1 DEF SameTasks
    <2> QED BY <2>1, <2>2, FinalizableKept
  <1>4. ASSUME NEW r \in Repairs, Rollback(r) PROVE FALSE
    <2>1. /\ Applied(r)
          /\ \A q \in Repairs : repair'[q].status = IF q = r THEN "rolled_back" ELSE repair[q].status
      BY <1>0, <1>4, RollbackIs
    <2>2. p # r /\ Applied(p)
      BY <2>1 DEF Applied
    <2> QED BY <1>0, <2>1, <2>2 DEF RepairAlone
  <1> QED BY <1>0, <1>1, <1>2, <1>3, <1>4, RepairSteps

-----------------------------------------------------------------------------
(* The invariant.                                                            *)

LEMMA IInvInit == Init => IInv
  <1> SUFFICES ASSUME Init PROVE IInv
    OBVIOUS
  <1>1. /\ parent = "planned" /\ child = "none" /\ task = [c \in Cutoffs |-> NoTask]
        /\ work = [w \in Workers |-> Idle] /\ row = [s \in Scopes |-> NoRow]
        /\ observer = Unlocked /\ repair = [r \in Repairs |-> NoRepair]
    BY DEF Init
  <1>2. /\ NoTask \in TaskSet /\ Idle \in WorkSet /\ NoRow \in Row
        /\ Unlocked \in [held : SUBSET Scopes, read : Runs]
    BY BoundsAssumption DEF NoTask, Idle, NoRow, Unlocked, TaskSet, WorkSet, Row, Runs
  <1>3. VarTypes
    BY <1>1, <1>2 DEF VarTypes
  <1>4. \A r \in Repairs : Entries(r) = {} /\ repair[r] = NoRepair
    BY <1>1 DEF Entries, NoRepair
  <1>5. RepairTypes
    <2>1. <<>> \in [{} -> Runs] /\ <<>> \in [{} -> Row]
      OBVIOUS
    <2>2. NoRepair.status = "none" /\ NoRepair.before = <<>> /\ NoRepair.target = <<>>
      BY DEF NoRepair
    <2> QED BY <1>4, <2>1, <2>2 DEF RepairTypes
  <1>6. RepairShape
    BY <1>1 DEF RepairShape, NoRepair
  <1>7. WorkOK
    BY <1>1 DEF WorkOK, Publishing, Idle
  <1>8. PublishedDone /\ HeldOK /\ PayloadIsOld /\ EventsExact /\ SealedOK
    <2>1. \A s \in Scopes : row[s] = NoRow
      BY <1>1
    <2>2. observer.held = {}
      BY <1>1 DEF Unlocked
    <2> QED BY <1>1, <2>1, <2>2 DEF PublishedDone, HeldOK, PayloadIsOld, EventsExact, SealedOK, NoRow
  <1>9. RepairStart /\ RepairAlone /\ RolledBack /\ VerifiedOK
    BY <1>4 DEF RepairStart, RepairAlone, RolledBack, VerifiedOK, Applied, NoRepair
  <1> QED BY <1>3, <1>5, <1>6, <1>7, <1>8, <1>9, TypeParts DEF IInv

LEMMA IInvStep == IInv /\ [Next]_vars => IInv'
  <1> SUFFICES ASSUME IInv, [Next]_vars PROVE IInv'
    OBVIOUS
  <1>1. TypeOK /\ WorkOK /\ HeldOK /\ PayloadIsOld /\ EventsExact /\ RepairShape
    BY DEF IInv
  <1> QED BY <1>1, TypeStep, WorkStep, PublishedDoneStep, HeldStep, EventsStep, SealedStep,
             RepairStartStep, RepairAloneStep, RolledBackStep, VerifiedStep DEF IInv

\* In every reachable state the strengthened invariant holds.
THEOREM Invariance == Spec => []IInv
  BY IInvInit, IInvStep, PTL DEF Spec

-----------------------------------------------------------------------------
(* What follows from it.                                                     *)

\* Types: a batch, its tasks, rows and repairs have the statuses that the
\* constraints of their tables allow.
THEOREM TypeCorrect == Spec => []TypeOK
  <1>1. IInv => TypeOK
    BY DEF IInv
  <1> QED BY <1>1, Invariance, PTL

\* The events of a row are those between the runs its history names, complete
\* when its outbox row is completed and absent before: whatever order workers
\* publish in, however often observers die, and through repairs and rollbacks.
THEOREM EventsAreExact == Spec => []EventsExact
  <1>1. IInv => EventsExact
    BY DEF IInv
  <1> QED BY <1>1, Invariance, PTL

\* Evidence that is sealed is whole: every seeded cutoff is computed, every head
\* follows the head before it, and its events were planned from that one.
THEOREM SealedIsChained == Spec => []SealedChain
  <1>1. IInv => SealedChain
    <2> SUFFICES ASSUME IInv, child = "sealed"
                 PROVE  /\ Seeded # {}
                        /\ \A c \in Seeded : task[c].status = "completed"
                        /\ \A m \in Modes : \A c \in Seeded :
                             /\ row[<<m, c>>].old = LastBefore(Seeded, c)
                             /\ row[<<m, c>>].planned = {LastBefore(Seeded, c)}
      BY DEF SealedChain
    <2>1. /\ AllPublished /\ Anomalies = {} /\ EventsExact
          /\ \A s \in Rows : row[s].status = "completed"
      BY FinalizableIs DEF IInv, SealedOK
    <2>2. /\ Seeded # {} /\ Seeded = Completed /\ \A m \in Modes : Published(m) = Seeded
      BY <2>1 DEF AllPublished
    <2>3. \A c \in Seeded : task[c].status = "completed"
      BY <2>2 DEF Completed
    <2>4. ASSUME NEW m \in Modes, NEW c \in Seeded
          PROVE  /\ row[<<m, c>>].old = LastBefore(Seeded, c)
                 /\ row[<<m, c>>].planned = {LastBefore(Seeded, c)}
      <3>0. <<m, c>> \in Scopes
        BY DEF Seeded, Scopes
      <3>1. PICK s \in Scopes : s = <<m, c>> /\ s[1] = m /\ s[2] = c
        BY <3>0
      <3>2. c \in Published(m)
        BY <2>2
      <3>3. s \in Rows
        <4>1. row[<<m, c>>].status # "none"
          BY <3>2 DEF Published
        <4> QED BY <3>1, <4>1 DEF Rows
      <3>4. row[s].old = Predecessor(s)
        BY <2>1, <3>3 DEF Anomalies, Chained
      <3>5. Predecessor(s) = LastBefore(Seeded, c)
        BY <2>2, <3>1 DEF Predecessor
      <3>6. row[s].planned = {row[s].old}
        BY <2>1, <3>3 DEF EventsExact
      <3> QED BY <3>1, <3>4, <3>5, <3>6
    <2> QED BY <2>2, <2>3, <2>4
  <1> QED BY <1>1, Invariance, PTL

\* A verified repair leaves a batch that can be sealed; one that was rolled back
\* leaves its rows and events exactly as it found them, until another is applied.
THEOREM RepairsAreExact == Spec => []RepairExact
  <1>1. IInv => RepairExact
    BY DEF IInv, RepairExact, VerifiedOK, RolledBack
  <1> QED BY <1>1, Invariance, PTL
=============================================================================
