------------------------- MODULE LifecycleObserver -------------------------
(***************************************************************************)
(* The structure lifecycle of one symbol and level: publications of its    *)
(* heads, each with an outbox row, and the observers that turn the rows    *)
(* into events and into the projection chan_structure_lifecycle_current.   *)
(* A structure is a fingerprint, which leaves out the mode and the run: the *)
(* confirmed and the predictive head of a level share it.  published_at    *)
(* and the outbox id are both taken inside the transaction, so the id      *)
(* stands for either; a transaction may commit after one with a larger id. *)
(***************************************************************************)
EXTENDS Integers, FiniteSets

CONSTANTS
    Heads,          \* published heads of the symbol and level
    ModeOf,         \* the mode of each head
    NoHead,
    Things,         \* fingerprints
    Observers,      \* processes, each under an observer name of its own
    Nobody,
    MaxId,          \* bound: publications
    MaxAttempts,    \* --max-attempts
    MaxBaselines,   \* bound: publications of full recomputes
    MaxFaults       \* bound: exceptions and observers that die

ASSUME HeadsAssumption ==
    /\ NoHead \notin Heads
    /\ ModeOf \in [Heads -> {"confirmed", "predictive"}]
ASSUME ObserversAssumption == Nobody \notin Observers
ASSUME BoundsAssumption ==
    /\ MaxId \in Nat /\ MaxAttempts \in Nat \ {0}
    /\ MaxBaselines \in Nat /\ MaxFaults \in Nat

Ids == 1 .. MaxId

VARIABLES
    row,        \* chan_c_head_outbox joined with chan_c_head_history
    head,       \* what each head shows
    events,     \* chan_structure_lifecycle_events
    current,    \* chan_structure_lifecycle_current
    watermark,  \* chan_lifecycle_observer_watermarks.last_outbox_id
    lock,       \* holder of the session advisory lock
    observer,   \* what each process holds
    faults,     \* bound
    late,       \* history: a row was committed after one with a larger id
    rebuilt     \* history: a rebuild from the events changed the projection

vars == <<row, head, events, current, watermark, lock, observer, faults,
          late, rebuilt>>

\* Of the tail stream and of full recomputes; a replay batch writes events
\* that the projection leaves out.
Profiles == {"online", "baseline"}
ModeNames == {"confirmed", "predictive"}
Unseen == [status |-> "none", mode |-> "none"]

\* No row yet; "writing" until its transaction commits.  One that is rolled
\* back would leave a hole in the ids and nothing else.
NoRow == [head |-> NoHead, old |-> {}, new |-> {}, profile |-> "online",
          status |-> "free", attempts |-> 0, due |-> TRUE]
Idle == [pc |-> "idle", id |-> 0, lease |-> 0, plan |-> {}]

Init ==
    /\ row = [i \in Ids |-> NoRow]
    /\ head = [h \in Heads |-> {}]
    /\ events = {}
    /\ current = [s \in Things |-> Unseen]
    /\ watermark = 0
    /\ lock = Nobody
    /\ observer = [o \in Observers |-> Idle]
    /\ faults = 0
    /\ late = FALSE
    /\ rebuilt = FALSE

-----------------------------------------------------------------------------
(* Publications. *)

Unfinished == {"pending", "processing", "failed"}
Visible == Unfinished \union {"completed", "dead_letter"}

\* The insert takes the next id; the row of the head is locked from here on.
BeginPublication(h, content, profile) ==
    /\ profile = "baseline" =>
         Cardinality({i \in Ids : row[i].profile = "baseline"}) < MaxBaselines
    /\ \A i \in Ids : ~(row[i].head = h /\ row[i].status = "writing")
    /\ \E i \in Ids :
         /\ row[i].status = "free"
         /\ \A j \in Ids : j < i => row[j].status # "free"
         /\ row' = [row EXCEPT ![i] =
                [NoRow EXCEPT !.head = h, !.old = head[h], !.new = content,
                              !.profile = profile, !.status = "writing"]]
    /\ UNCHANGED <<head, events, current, watermark, lock, observer, faults,
                   late, rebuilt>>

\* The head and the outbox row become visible together.
CommitPublication(i) ==
    /\ row[i].status = "writing"
    /\ row' = [row EXCEPT ![i].status = "pending"]
    /\ head' = [head EXCEPT ![row[i].head] = row[i].new]
    /\ late' = (late \/ \E j \in Ids : j > i /\ row[j].status \in Visible)
    /\ UNCHANGED <<events, current, watermark, lock, observer, faults, rebuilt>>

-----------------------------------------------------------------------------
(* Claims. *)

\* Mutant: the first row that is due, whatever waits before it.
ClaimableAnyDue(r, i) ==
    r[i].status \in Unfinished /\ r[i].due

\* limit 1: the first unfinished row, and only if it is due.
Claimable(r, i) ==
    /\ r[i].status \in Unfinished
    /\ \A j \in Ids : j < i => r[j].status \notin Unfinished
    /\ r[i].due

Claim(o) ==
    /\ observer[o] = Idle
    /\ lock = Nobody
    /\ \E i \in Ids :
         /\ Claimable(row, i)
         /\ row' = [row EXCEPT ![i].status = "processing", ![i].due = FALSE,
                               ![i].attempts = @ + 1]
         /\ observer' = [observer EXCEPT ![o] =
                [pc |-> "claimed", id |-> i, lease |-> row[i].attempts + 1,
                 plan |-> {}]]
    /\ lock' = o
    /\ UNCHANGED <<head, events, current, watermark, faults, late, rebuilt>>

\* The condition of every write that renews, acknowledges or fails a row; a
\* claim, and nothing else, increments both lease_version and attempts.
Fenced(o) ==
    LET r == row[observer[o].id]
    IN  r.status = "processing" /\ r.attempts = observer[o].lease

\* Mutant: a lease never runs out.
ComesDueFailedOnly(i) ==
    /\ row[i].status = "failed"
    /\ ~row[i].due
    /\ row' = [row EXCEPT ![i].due = TRUE]
    /\ UNCHANGED <<head, events, current, watermark, lock, observer, faults,
                   late, rebuilt>>

\* next_attempt_at of a failed row, or lease_until of a claimed one, is passed.
ComesDue(i) ==
    /\ row[i].status \in {"failed", "processing"}
    /\ ~row[i].due
    /\ row' = [row EXCEPT ![i].due = TRUE]
    /\ UNCHANGED <<head, events, current, watermark, lock, observer, faults,
                   late, rebuilt>>

-----------------------------------------------------------------------------
(* Events of a publication. *)

\* What the structures of publication i are compared with: the projection,
\* else the replaced run.
PriorState(s, i) ==
    IF current[s] # Unseen
    THEN current[s]
    ELSE IF s \in row[i].old
         THEN [status |-> "visible", mode |-> ModeOf[row[i].head]]
         ELSE Unseen

\* "none" when the structure is there as before.
Transition(s, i) ==
    LET prior == PriorState(s, i)
    IN  IF row[i].profile = "baseline" THEN "baseline_observed"
        ELSE IF prior = Unseen THEN "first_seen"
        ELSE IF prior.status = "disappeared" THEN "reappeared"
        ELSE IF prior.mode = "predictive" /\ ModeOf[row[i].head] = "confirmed"
             THEN "confirmed"
        ELSE "none"

Event(s, type, i) ==
    [thing |-> s, type |-> type, pub |-> i,
     mode |-> IF type = "disappeared" THEN "none" ELSE ModeOf[row[i].head]]

\* A structure is gone when no head of the level shows it now.
ShownNow(s) == \E h \in Heads : s \in head[h]

Appeared(i) ==
    {Event(s, Transition(s, i), i) :
        s \in {t \in row[i].new : Transition(t, i) # "none"}}

Disappeared(i) ==
    {Event(s, "disappeared", i) :
        s \in {t \in row[i].old \ row[i].new :
                 row[i].profile # "baseline" /\ ~ShownNow(t)}}

PlannedEvents(i) == Appeared(i) \union Disappeared(i)

\* The lease is renewed, then the runs, the projection and the heads are read.
Plan(o) ==
    /\ observer[o].pc = "claimed"
    /\ Fenced(o)
    /\ row' = [row EXCEPT ![observer[o].id].due = FALSE]
    /\ observer' = [observer EXCEPT ![o].pc = "planned",
                                    ![o].plan = PlannedEvents(observer[o].id)]
    /\ UNCHANGED <<head, events, current, watermark, lock, faults, late, rebuilt>>

-----------------------------------------------------------------------------
(* Persistence. *)

\* The row an event leaves in the projection.
StateAfter(e) ==
    [status |-> CASE e.type = "disappeared"       -> "disappeared"
                  [] e.type = "baseline_observed" -> "baseline_observed"
                  [] OTHER                        -> "visible",
     mode |-> e.mode]

\* The projection after the events of a publication are applied to it.
Projected(plan) ==
    [s \in Things |->
        IF \E e \in plan : e.thing = s
        THEN StateAfter(CHOOSE e \in plan : e.thing = s)
        ELSE current[s]]

\* Mutant: the last completed row.
WatermarkLastDone(r) ==
    LET done == {i \in Ids : r[i].status = "completed"}
    IN  IF done = {} THEN 0 ELSE CHOOSE i \in done : \A j \in done : j <= i
\* Mutant: the next id to come instead of the last.
WatermarkNext(r) == Cardinality({i \in Ids : r[i].status \in Visible}) + 1

\* Never past the first visible row that is not completed.
Watermark(r) ==
    LET seen == {i \in Ids : r[i].status \in Visible}
        unfinished == {i \in seen : r[i].status # "completed"}
    IN  IF unfinished # {}
        THEN (CHOOSE i \in unfinished : \A j \in unfinished : i <= j) - 1
        ELSE IF seen # {} THEN CHOOSE i \in seen : \A j \in seen : j <= i
                          ELSE 0

\* The process returns to its loop and the session lock is released.
Release(o) ==
    /\ observer' = [observer EXCEPT ![o] = Idle]
    /\ lock' = Nobody

\* Events, projection, acknowledgement and watermark, in one transaction.
Persist(o) ==
    LET i == observer[o].id
    IN  /\ observer[o].pc = "planned"
        /\ Fenced(o)
        /\ events' = events \union observer[o].plan
        /\ current' = Projected(observer[o].plan)
        /\ row' = [row EXCEPT ![i].status = "completed"]
        /\ watermark' = Watermark(row')
        /\ Release(o)
        /\ UNCHANGED <<head, faults, late, rebuilt>>

\* Mutant: the events are written outside the transaction.
FailRowAfterEvents(o) ==
    LET i == observer[o].id
    IN  /\ faults < MaxFaults
        /\ observer[o].pc # "idle"
        /\ Fenced(o)
        /\ faults' = faults + 1
        /\ row' = [row EXCEPT ![i].due = FALSE,
                ![i].status = IF row[i].attempts >= MaxAttempts
                              THEN "dead_letter" ELSE "failed"]
        /\ Release(o)
        /\ events' = events \union observer[o].plan
        /\ UNCHANGED <<head, current, watermark, late, rebuilt>>

\* Any exception, before or in the transaction, which leaves nothing behind.
FailRow(o) ==
    LET i == observer[o].id
    IN  /\ faults < MaxFaults
        /\ observer[o].pc # "idle"
        /\ Fenced(o)
        /\ faults' = faults + 1
        /\ row' = [row EXCEPT ![i].due = FALSE,
                ![i].status = IF row[i].attempts >= MaxAttempts
                              THEN "dead_letter" ELSE "failed"]
        /\ Release(o)
        /\ UNCHANGED <<head, events, current, watermark, late, rebuilt>>

\* The process dies, and its session and lock with it; the row stays claimed.
Crash(o) ==
    /\ faults < MaxFaults
    /\ observer[o].pc # "idle"
    /\ faults' = faults + 1
    /\ Release(o)
    /\ UNCHANGED <<row, head, events, current, watermark, late, rebuilt>>

\* With nothing to take, or while another process has the lock.
Pulse(o) ==
    /\ observer[o] = Idle
    /\ lock # Nobody \/ \A i \in Ids : ~Claimable(row, i)
    /\ watermark' = Watermark(row)
    /\ UNCHANGED <<row, head, events, current, lock, observer, faults, late,
                   rebuilt>>

\* Mutant: the first event instead of the last.
ReplayedFirst ==
    [s \in Things |->
        LET own == {e \in events : e.thing = s}
        IN  IF own = {} THEN Unseen
            ELSE StateAfter(CHOOSE e \in own : \A f \in own : f.pub >= e.pub)]

\* The projection the events give: per structure the last event by published_at.
Replayed ==
    [s \in Things |->
        LET own == {e \in events : e.thing = s}
        IN  IF own = {} THEN Unseen
            ELSE StateAfter(CHOOSE e \in own : \A f \in own : f.pub <= e.pub)]

\* --rebuild-current, under the same advisory lock.
Rebuild(o) ==
    /\ observer[o] = Idle
    /\ lock = Nobody
    /\ current' = Replayed
    /\ rebuilt' = (rebuilt \/ current' # current)
    /\ UNCHANGED <<row, head, events, watermark, lock, observer, faults, late>>

-----------------------------------------------------------------------------
Next ==
    \/ \E h \in Heads, content \in SUBSET Things, profile \in Profiles :
            BeginPublication(h, content, profile)
    \/ \E i \in Ids : CommitPublication(i) \/ ComesDue(i)
    \/ \E o \in Observers :
            \/ Claim(o) \/ Plan(o) \/ Persist(o) \/ FailRow(o)
            \/ Crash(o) \/ Pulse(o) \/ Rebuild(o)

Spec == Init /\ [][Next]_vars

\* Transactions end, time passes, and the processes go on; nothing obliges a
\* head to be published, a process to die or a projection to be rebuilt.
Fairness ==
    /\ \A i \in Ids : WF_vars(CommitPublication(i))
    /\ \A i \in Ids : WF_vars(ComesDue(i))
    /\ WF_vars(\E o \in Observers : Claim(o))
    /\ \A o \in Observers : WF_vars(Plan(o)) /\ WF_vars(Persist(o))

FairSpec == Spec /\ Fairness

-----------------------------------------------------------------------------
(* Properties. *)

\* Types of the rows, the events, the projection and the processes.
EventSet == [thing : Things, pub : Ids, mode : ModeNames \union {"none"},
             type : {"first_seen", "baseline_observed", "reappeared",
                     "confirmed", "disappeared"}]

TypeOK ==
    /\ row \in [Ids -> [head : Heads \union {NoHead}, old : SUBSET Things,
                        new : SUBSET Things, profile : Profiles,
                        status : Visible \union {"free", "writing"},
                        attempts : Nat, due : BOOLEAN]]
    /\ head \in [Heads -> SUBSET Things]
    /\ events \subseteq EventSet
    /\ current \in [Things -> [status : {"none", "visible", "disappeared",
                                        "baseline_observed"},
                               mode : ModeNames \union {"none"}]]
    /\ watermark \in 0 .. MaxId
    /\ lock \in Observers \union {Nobody}
    /\ observer \in [Observers -> [pc : {"idle", "claimed", "planned"},
                                   id : Nat, lease : Nat,
                                   plan : SUBSET EventSet]]
    /\ faults \in Nat
    /\ late \in BOOLEAN
    /\ rebuilt \in BOOLEAN

(* Publications are observed or given up once, in the order of their head,  *)
(* and their events are written in the step that observes them: by one      *)
(* process, whatever retries, dies or loses its lease.                      *)
Feed == INSTANCE HeadFeed WITH
    headOf <- [i \in Ids |-> IF row[i].status \in Visible THEN row[i].head
                                                         ELSE NoHead],
    observed <- {i \in Ids : row[i].status = "completed"},
    abandoned <- {i \in Ids : row[i].status = "dead_letter"},
    told <- events
FollowsHeads == Feed!Spec

\* The publications that concern s are all observed.
Settled(s) ==
    \A i \in Ids :
        s \in row[i].old \union row[i].new
            => row[i].status \in {"writing", "completed"}

\* A baseline replaced a run with s by one without, and says nothing of s.
DroppedByBaseline(s) ==
    \E i \in Ids :
        /\ row[i].status = "completed"
        /\ row[i].profile = "baseline"
        /\ s \in row[i].old \ row[i].new

(* What the projection says of a structure once its publications are        *)
(* observed is what the heads show, although a disappearance is judged by   *)
(* the heads of the moment it is processed, not of its publication, and is  *)
(* dropped for good when another head shows the structure then.  Two        *)
(* exceptions: a baseline never reports a disappearance, and a rebuild may  *)
(* change the projection (RebuildAgrees says when).                         *)
ProjectionExact ==
    \A s \in Things :
        Settled(s) /\ ~rebuilt =>
            /\ ShownNow(s)
               => current[s].status \in {"visible", "baseline_observed"}
            /\ current[s].status \in {"visible", "baseline_observed"}
               => ShownNow(s) \/ DroppedByBaseline(s)

(* The rebuilt projection is the one the observers keep, as long as rows    *)
(* are committed in the order of their ids.  After a late commit the two    *)
(* may differ, which lifecycle_reconciliation.py:126 then reports and       *)
(* --rebuild-current settles in favour of published_at.                     *)
RebuildAgrees == ~late => current = Replayed

(* No row at or below the watermark is unfinished, unless it was committed  *)
(* after one with a larger id.                                              *)
WatermarkSafe ==
    ~late => \A i \in Ids : i <= watermark
                => row[i].status \in {"writing", "completed"}

(* Every committed publication ends observed or as a dead letter.           *)
Drains ==
    \A i \in Ids :
        <>[](row[i].status \in {"free", "completed", "dead_letter"})
=============================================================================
