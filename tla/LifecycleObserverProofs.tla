----------------------- MODULE LifecycleObserverProofs -----------------------
(* Theorems of LifecycleObserver, for any heads, structures, observers,      *)
(* publications and faults: observation follows the heads (HeadFeed), and    *)
(* projection, watermark and rebuild say what they should.  The argument:    *)
(* per head the rows are a chain in the order of their ids, of which only    *)
(* the last may be open, and under the session lock what was planned is      *)
(* still right when it is written, or a row that will correct it is waiting. *)
EXTENDS LifecycleObserver, NaturalsInduction, WellFoundedInduction, TLAPS

-----------------------------------------------------------------------------
(* The inductive invariant.                                                  *)

\* A row is blank until it is inserted, and ids are used from below.
RowShape ==
    \A i \in Ids :
        /\ row[i].status = "free" => row[i] = NoRow
        /\ row[i].status # "free" => row[i].head \in Heads
        /\ \A j \in Ids : row[i].status = "free" /\ i < j => row[j].status = "free"

\* An open publication is the last one of its head and replaces what it shows.
OpenIsLast ==
    \A i \in Ids : row[i].status = "writing" =>
        /\ row[i].old = head[row[i].head]
        /\ \A j \in Ids : row[j].head = row[i].head => j <= i

\* The rows of a head are a chain: what one replaces an earlier one published,
\* and what one published is shown until a later one removes it.
Chained ==
    /\ \A h \in Heads : \A s \in head[h] : \E j \in Ids :
           row[j].head = h /\ row[j].status \in Visible /\ s \in row[j].new
    /\ \A i \in Ids : \A s \in row[i].old : \E j \in Ids :
           /\ j < i /\ row[j].head = row[i].head
           /\ row[j].status \in Visible /\ s \in row[j].new
    /\ \A i \in Ids : row[i].status \in Visible => \A s \in row[i].new :
           \/ s \in head[row[i].head]
           \/ \E k \in Ids : /\ i < k /\ row[k].head = row[i].head
                             /\ row[k].status \in Visible
                             /\ s \in row[k].old \ row[k].new

\* No row that was taken follows an unfinished one of its head, or of any head
\* while rows are committed in the order of their ids.
Untaken == {"free", "writing", "pending"}

InOrder ==
    \A i, j \in Ids :
        /\ j < i /\ row[j].status \in Unfinished
        /\ ~late \/ row[j].head = row[i].head
        => row[i].status \in Untaken

\* A process at work has the lock and a row that is committed.
LockOK ==
    \A o \in Observers : observer[o].pc # "idle" =>
        /\ lock = o
        /\ observer[o].id \in Ids
        /\ row[observer[o].id].status \in Visible

OneEventEach(E) == \A e, f \in E : e.thing = f.thing /\ e.pub = f.pub => e = f

\* Events belong to completed rows, one for a structure and a row.
EventsOK ==
    /\ OneEventEach(events)
    /\ \A e \in events : row[e.pub].status = "completed"

Present == {"visible", "baseline_observed"}

CurrentShape == \A s \in Things : current[s].status = "none" => current[s] = Unseen

Open == Unfinished \union {"dead_letter"}

\* A row that has yet to report the appearance, or the disappearance, of s.
WillShow(s, h) ==
    \E k \in Ids : row[k].head = h /\ row[k].status \in Open /\ s \in row[k].new
WillRemove(s) ==
    \E k \in Ids : row[k].status \in Open /\ s \in row[k].old \ row[k].new

\* The events a process has planned are those of its row.
PlanShape(o) ==
    LET r == row[observer[o].id]
    IN  /\ OneEventEach(observer[o].plan)
        /\ \A e \in observer[o].plan :
               /\ e.pub = observer[o].id
               /\ e.thing \in r.old \union r.new
               /\ e.type = "disappeared" <=> e.thing \notin r.new

Planned(o, s) == \E e \in observer[o].plan : e.thing = s

(* What was planned is still right: nothing to say of s means that it is     *)
(* there, or that a row before should have said so; a disappearance that is  *)
(* or is not reported is right by now, or another row will correct it.       *)
PlanFresh(o) ==
    LET r == row[observer[o].id]
    IN  /\ \A s \in r.new :
               \/ Planned(o, s)
               \/ current[s].status \in Present
               \/ current[s] = Unseen /\ s \in r.old
        /\ \A s \in r.old \ r.new :
               r.profile # "baseline" /\ ~Planned(o, s) =>
                   \/ ShownNow(s)
                   \/ \E k \in Ids \ {observer[o].id} :
                          row[k].status \in Open /\ s \in row[k].old \ row[k].new
        /\ \A s \in r.old \ r.new :
               Planned(o, s) => \A h \in Heads : s \in head[h] => WillShow(s, h)

PlansOK == \A o \in Observers : observer[o].pc = "planned" => PlanShape(o) /\ PlanFresh(o)

\* What a completed row published has been seen, unless one before was given up.
SeenOK ==
    \A i \in Ids : row[i].status = "completed" => \A s \in row[i].new :
        \/ current[s] # Unseen
        \/ \E j \in Ids : /\ row[j].head = row[i].head /\ row[j].status = "dead_letter"
                          /\ s \in row[j].new

\* What a head shows the projection shows, and the converse, or a row will say so.
ShownOK == \A h \in Heads : \A s \in head[h] : current[s].status \in Present \/ WillShow(s, h)
GoneOK ==
    \A s \in Things :
        current[s].status \in Present =>
            ShownNow(s) \/ WillRemove(s) \/ DroppedByBaseline(s)

ProjectionOK == ~rebuilt => SeenOK /\ ShownOK /\ GoneOK

\* The watermark has not passed the last committed row.
WatermarkOK ==
    /\ WatermarkSafe
    /\ watermark # 0 => \E j \in Ids : watermark <= j /\ row[j].status \in Visible

IInv ==
    /\ TypeOK /\ RowShape /\ OpenIsLast /\ Chained /\ InOrder /\ LockOK
    /\ EventsOK /\ CurrentShape /\ PlansOK /\ ProjectionOK /\ WatermarkOK
    /\ RebuildAgrees

-----------------------------------------------------------------------------
(* Operators.                                                                *)

\* Some id is the least of a set of ids, and some the greatest.
LEMMA LeastId ==
    ASSUME NEW S \in SUBSET Ids, S # {}
    PROVE  \E i \in S : \A j \in S : i <= j
  <1>1. S \subseteq Nat
    BY BoundsAssumption DEF Ids
  <1>2. PICK n \in S : \A k \in S : ~ (<<k, n>> \in OpToRel(<, Nat))
    BY <1>1, WFMin, NatLessThanWellFounded
  <1>3. \A k \in S : n <= k
    <2> SUFFICES ASSUME NEW k \in S, k < n PROVE FALSE
      BY <1>1
    <2>1. <<k, n>> \in OpToRel(<, Nat)
      BY <1>1 DEF OpToRel
    <2> QED BY <1>2, <2>1
  <1> QED BY <1>3

LEMMA GreatestId ==
    ASSUME NEW S \in SUBSET Ids, S # {}
    PROVE  \E i \in S : \A j \in S : j <= i
  <1> DEFINE T == {n \in Ids : MaxId + 1 - n \in S}
  <1>1. \A i \in S : MaxId + 1 - i \in T
    BY BoundsAssumption DEF Ids
  <1>2. T \in SUBSET Ids /\ T # {}
    BY <1>1
  <1> HIDE DEF T
  <1>3. PICK n \in T : \A k \in T : n <= k
    BY <1>2, LeastId
  <1>4. MaxId + 1 - n \in S
    BY <1>3 DEF T
  <1>5. ASSUME NEW i \in S PROVE i <= MaxId + 1 - n
    <2>1. n <= MaxId + 1 - i
      BY <1>1, <1>3
    <2> QED BY <2>1, <1>2, <1>3, BoundsAssumption DEF Ids
  <1> QED BY <1>4, <1>5

(* The watermark is an id or 0; up to it every committed row is completed,    *)
(* and there is a committed row from it on.                                  *)
LEMMA WatermarkIs ==
    ASSUME NEW r
    PROVE  /\ Watermark(r) \in 0 .. MaxId
           /\ \A i \in Ids : i <= Watermark(r) /\ r[i].status \in Visible
                  => r[i].status = "completed"
           /\ Watermark(r) # 0 =>
                  \E j \in Ids : Watermark(r) <= j /\ r[j].status \in Visible
  <1> DEFINE seen == {i \in Ids : r[i].status \in Visible}
             unfinished == {i \in seen : r[i].status # "completed"}
  <1>1. CASE unfinished # {}
    <2>1. PICK m \in unfinished : \A j \in unfinished : m <= j
      BY <1>1, LeastId
    <2> DEFINE c == CHOOSE i \in unfinished : \A j \in unfinished : i <= j
    <2>2. c \in unfinished /\ \A j \in unfinished : c <= j
      BY <2>1
    <2>3. Watermark(r) = c - 1
      BY <1>1 DEF Watermark
    <2>4. c \in Ids /\ r[c].status \in Visible
      BY <2>2
    <2> HIDE DEF c
    <2>5. \A i \in Ids : r[i].status \in Visible /\ r[i].status # "completed" => c <= i
      BY <2>2
    <2> QED BY <2>3, <2>4, <2>5, BoundsAssumption DEF Ids
  <1>2. CASE unfinished = {} /\ seen # {}
    <2>1. PICK m \in seen : \A j \in seen : j <= m
      BY <1>2, GreatestId
    <2> DEFINE c == CHOOSE i \in seen : \A j \in seen : j <= i
    <2>2. c \in seen /\ \A j \in seen : j <= c
      BY <2>1
    <2>3. Watermark(r) = c
      BY <1>2 DEF Watermark
    <2>4. c \in Ids /\ r[c].status \in Visible
      BY <2>2
    <2> HIDE DEF c
    <2> QED BY <1>2, <2>3, <2>4, BoundsAssumption DEF Ids
  <1>3. CASE unfinished = {} /\ seen = {}
    <2>1. Watermark(r) = 0
      BY <1>3 DEF Watermark
    <2> QED BY <1>3, <2>1, BoundsAssumption DEF Ids
  <1> QED BY <1>1, <1>2, <1>3

\* What an event leaves in the projection.
LEMMA StateAfterIs ==
    ASSUME NEW e \in EventSet
    PROVE  /\ StateAfter(e) \in [status : {"visible", "disappeared", "baseline_observed"},
                                 mode : ModeNames \union {"none"}]
           /\ StateAfter(e).status \in Present <=> e.type # "disappeared"
           /\ StateAfter(e) # Unseen /\ StateAfter(e).status # "none"
  BY DEF EventSet, StateAfter, Present, Unseen

\* The events of a publication: its own, one for a structure, and what they say.
LEMMA PlannedIs ==
    ASSUME TypeOK, RowShape, NEW i \in Ids, row[i].status # "free"
    PROVE  /\ PlannedEvents(i) \in SUBSET EventSet
           /\ OneEventEach(PlannedEvents(i))
           /\ \A e \in PlannedEvents(i) :
                  /\ e.pub = i
                  /\ e.thing \in row[i].old \union row[i].new
                  /\ e.type = "disappeared" <=> e.thing \notin row[i].new
           /\ \A s \in row[i].new : (\E e \in PlannedEvents(i) : e.thing = s)
                                    <=> Transition(s, i) # "none"
           /\ \A s \in row[i].old \ row[i].new :
                  (\E e \in PlannedEvents(i) : e.thing = s)
                  <=> row[i].profile # "baseline" /\ ~ShownNow(s)
  <1>1. row[i].old \subseteq Things /\ row[i].new \subseteq Things
    BY DEF TypeOK
  <1>2. ModeOf[row[i].head] \in ModeNames
    BY HeadsAssumption DEF RowShape, ModeNames
  <1>3. \A s : Transition(s, i) \in {"baseline_observed", "first_seen", "reappeared", "confirmed", "none"}
    BY DEF Transition
  <1>4. ASSUME NEW e \in Appeared(i)
        PROVE  /\ e \in EventSet /\ e.pub = i /\ e.thing \in row[i].new
               /\ e.type # "disappeared" /\ e = Event(e.thing, Transition(e.thing, i), i)
               /\ Transition(e.thing, i) # "none"
    <2>1. PICK s \in row[i].new : Transition(s, i) # "none" /\ e = Event(s, Transition(s, i), i)
      BY DEF Appeared
    <2>2. Transition(s, i) \in {"baseline_observed", "first_seen", "reappeared", "confirmed"}
      BY <1>3, <2>1
    <2>3. e = [thing |-> s, type |-> Transition(s, i), pub |-> i, mode |-> ModeOf[row[i].head]]
      BY <2>1, <2>2 DEF Event
    <2>4. e.thing = s /\ e.type = Transition(s, i) /\ e.pub = i
      BY <2>3
    <2>5. e \in EventSet
      BY <1>1, <1>2, <2>1, <2>2, <2>3 DEF EventSet
    <2> QED BY <2>1, <2>2, <2>4, <2>5
  <1>5. ASSUME NEW e \in Disappeared(i)
        PROVE  /\ e \in EventSet /\ e.pub = i /\ e.thing \in row[i].old \ row[i].new
               /\ e.type = "disappeared" /\ e = Event(e.thing, "disappeared", i)
               /\ row[i].profile # "baseline" /\ ~ShownNow(e.thing)
    <2>1. PICK s \in row[i].old \ row[i].new :
              row[i].profile # "baseline" /\ ~ShownNow(s) /\ e = Event(s, "disappeared", i)
      BY DEF Disappeared
    <2>2. e = [thing |-> s, type |-> "disappeared", pub |-> i, mode |-> "none"]
      BY <2>1 DEF Event
    <2> QED BY <1>1, <2>1, <2>2 DEF EventSet
  <1>6. ASSUME NEW s \in row[i].new, Transition(s, i) # "none"
        PROVE  \E e \in Appeared(i) : e.thing = s
    <2>1. Event(s, Transition(s, i), i) \in Appeared(i)
      BY <1>6 DEF Appeared
    <2> QED BY <2>1 DEF Event
  <1>7. ASSUME NEW s \in row[i].old \ row[i].new, row[i].profile # "baseline", ~ShownNow(s)
        PROVE  \E e \in Disappeared(i) : e.thing = s
    <2>1. Event(s, "disappeared", i) \in Disappeared(i)
      BY <1>7 DEF Disappeared
    <2> QED BY <2>1 DEF Event
  <1>8. \A e \in PlannedEvents(i) : e \in Appeared(i) \/ e \in Disappeared(i)
    BY DEF PlannedEvents
  <1>9. Appeared(i) \subseteq PlannedEvents(i) /\ Disappeared(i) \subseteq PlannedEvents(i)
    BY DEF PlannedEvents
  <1>10. OneEventEach(PlannedEvents(i))
    <2> SUFFICES ASSUME NEW e \in PlannedEvents(i), NEW f \in PlannedEvents(i), e.thing = f.thing
                 PROVE  e = f
      BY DEF OneEventEach
    <2>1. CASE e \in Appeared(i)
      BY <1>4, <1>5, <1>8, <2>1
    <2>2. CASE e \in Disappeared(i)
      BY <1>4, <1>5, <1>8, <2>2
    <2> QED BY <1>8, <2>1, <2>2
  <1>11. PlannedEvents(i) \in SUBSET EventSet
    BY <1>4, <1>5, <1>8
  <1>12. \A e \in PlannedEvents(i) :
             /\ e.pub = i
             /\ e.thing \in row[i].old \union row[i].new
             /\ e.type = "disappeared" <=> e.thing \notin row[i].new
    BY <1>4, <1>5, <1>8
  <1>13. \A s \in row[i].new : (\E e \in PlannedEvents(i) : e.thing = s) <=> Transition(s, i) # "none"
    BY <1>4, <1>5, <1>6, <1>8, <1>9
  <1>14. \A s \in row[i].old \ row[i].new :
             (\E e \in PlannedEvents(i) : e.thing = s) <=> row[i].profile # "baseline" /\ ~ShownNow(s)
    BY <1>4, <1>5, <1>7, <1>8, <1>9
  <1> QED BY <1>10, <1>11, <1>12, <1>13, <1>14

\* A structure of a row that has nothing to report is there, or comes from the row before.
LEMMA NoTransition ==
    ASSUME NEW s, NEW i, Transition(s, i) = "none", CurrentShape, TypeOK, s \in Things
    PROVE  current[s].status \in Present \/ (current[s] = Unseen /\ s \in row[i].old)
  <1>1. PriorState(s, i) # Unseen /\ PriorState(s, i).status # "disappeared"
    BY DEF Transition
  <1>2. CASE current[s] = Unseen
    BY <1>1, <1>2 DEF PriorState
  <1>3. CASE current[s] # Unseen
    <2>1. current[s].status \in {"none", "visible", "disappeared", "baseline_observed"}
      BY DEF TypeOK
    <2>2. current[s].status # "none"
      BY <1>3 DEF CurrentShape
    <2>3. current[s].status # "disappeared"
      BY <1>1, <1>3 DEF PriorState
    <2> QED BY <2>1, <2>2, <2>3 DEF Present
  <1> QED BY <1>2, <1>3

\* The projection after a plan of at most one event for a structure.
LEMMA ProjectedIs ==
    ASSUME NEW plan \in SUBSET EventSet,
           \A e, f \in plan : e.thing = f.thing => e = f
    PROVE  /\ \A s \in Things : (~\E e \in plan : e.thing = s) => Projected(plan)[s] = current[s]
           /\ \A e \in plan : Projected(plan)[e.thing] = StateAfter(e)
  <1>1. ASSUME NEW e \in plan PROVE Projected(plan)[e.thing] = StateAfter(e)
    <2>1. (CHOOSE f \in plan : f.thing = e.thing) = e
      OBVIOUS
    <2>2. e.thing \in Things
      BY DEF EventSet
    <2> QED BY <2>1, <2>2 DEF Projected
  <1> QED BY <1>1 DEF Projected

\* What a replay of events makes of a structure: unseen without events, else the
\* state after the last of them.
StateOf(own) ==
    IF own = {} THEN Unseen
    ELSE StateAfter(CHOOSE e \in own : \A f \in own : f.pub <= e.pub)
StateFrom(E, s) == StateOf({e \in E : e.thing = s})

LEMMA StateFromIs ==
    ASSUME NEW E \in SUBSET EventSet, NEW s
    PROVE  /\ (~\E e \in E : e.thing = s) => StateFrom(E, s) = Unseen
           /\ (\E e \in E : e.thing = s) =>
                  \E e \in E : /\ e.thing = s /\ StateFrom(E, s) = StateAfter(e)
                               /\ \A f \in E : f.thing = s => f.pub <= e.pub
  <1> DEFINE own == {e \in E : e.thing = s}
             pubs == {e.pub : e \in own}
             last == CHOOSE e \in own : \A f \in own : f.pub <= e.pub
  <1>1. StateFrom(E, s) = IF own = {} THEN Unseen ELSE StateAfter(last)
    BY DEF StateFrom, StateOf
  <1>2. CASE own # {}
    <2>1. pubs \in SUBSET Ids /\ pubs # {}
      BY <1>2 DEF EventSet
    <2>2. PICK p \in pubs : \A q \in pubs : q <= p
      BY <2>1, GreatestId
    <2>3. PICK e \in own : e.pub = p
      BY <2>2
    <2>4. \A f \in own : f.pub <= e.pub
      BY <2>2, <2>3
    <2>5. last \in own /\ \A f \in own : f.pub <= last.pub
      BY <2>3, <2>4
    <2> HIDE DEF last
    <2> QED BY <1>1, <1>2, <2>5
  <1>3. CASE own = {}
    BY <1>1, <1>3
  <1> QED BY <1>2, <1>3

LEMMA ReplayedIs == Replayed = [s \in Things |-> StateFrom(events, s)]
  BY DEF Replayed, StateFrom, StateOf

-----------------------------------------------------------------------------
(* Steps.                                                                    *)

RowSet == [head : Heads \union {NoHead}, old : SUBSET Things, new : SUBSET Things,
           profile : Profiles, status : Visible \union {"free", "writing"},
           attempts : Nat, due : BOOLEAN]

\* The rows but i are left as they were, and i keeps what it says of its head.
Same(i) ==
    /\ row' \in [Ids -> RowSet]
    /\ \A j \in Ids : j # i => row'[j] = row[j]
    /\ \A j \in Ids : /\ row'[j].head = row[j].head /\ row'[j].old = row[j].old
                      /\ row'[j].new = row[j].new /\ row'[j].profile = row[j].profile

\* A step on an unfinished row, which is the first one if nobody has taken it yet.
Work(i) ==
    /\ i \in Ids /\ row[i].status \in Unfinished
    /\ row[i].status = "pending" => \A j \in Ids : j < i => row[j].status \notin Unfinished
    /\ Same(i)
    /\ row'[i].status \in Visible
    /\ head' = head /\ late' = late

\* A row of which only status, attempts and due time change.
LEMMA RowUpdate ==
    ASSUME TypeOK, NEW i \in Ids, NEW st \in Visible, NEW n \in Nat, NEW d \in BOOLEAN,
           row' = [row EXCEPT ![i] = [row[i] EXCEPT !.status = st, !.attempts = n, !.due = d]]
    PROVE  Same(i) /\ row'[i].status = st
  <1>1. row \in [Ids -> RowSet]
    BY DEF TypeOK, RowSet
  <1>2. row[i] \in RowSet
    BY <1>1
  <1> DEFINE r == row[i]
             t == [r EXCEPT !.status = st, !.attempts = n, !.due = d]
  <1>3. r \in RowSet
    BY <1>2
  <1>4. row' = [row EXCEPT ![i] = t]
    OBVIOUS
  <1> HIDE DEF r
  <1>5. t \in RowSet
    BY <1>3 DEF RowSet
  <1>6. /\ t.head = r.head /\ t.old = r.old /\ t.new = r.new /\ t.profile = r.profile
        /\ t.status = st
    BY <1>3 DEF RowSet
  <1> HIDE DEF t
  <1>7. row' \in [Ids -> RowSet] /\ row'[i] = t /\ \A j \in Ids : j # i => row'[j] = row[j]
    BY <1>1, <1>4, <1>5
  <1>8. \A j \in Ids : /\ row'[j].head = row[j].head /\ row'[j].old = row[j].old
                       /\ row'[j].new = row[j].new /\ row'[j].profile = row[j].profile
    BY <1>6, <1>7 DEF r
  <1> QED BY <1>6, <1>7, <1>8 DEF Same

\* The steps that work on a row.
LEMMA ClaimWorks ==
    ASSUME TypeOK, NEW o \in Observers, Claim(o)
    PROVE  \E i \in Ids : /\ Work(i) /\ row'[i].status = "processing"
                          /\ observer' = [observer EXCEPT ![o] =
                                [pc |-> "claimed", id |-> i, lease |-> row[i].attempts + 1,
                                 plan |-> {}]]
  <1>1. PICK i \in Ids :
         /\ Claimable(row, i)
         /\ row' = [row EXCEPT ![i].status = "processing", ![i].due = FALSE,
                               ![i].attempts = @ + 1]
         /\ observer' = [observer EXCEPT ![o] =
                [pc |-> "claimed", id |-> i, lease |-> row[i].attempts + 1,
                 plan |-> {}]]
    BY DEF Claim
  <1>2. /\ row[i].attempts + 1 \in Nat /\ "processing" \in Visible
        /\ row \in [Ids -> RowSet] /\ row[i] \in RowSet
    BY DEF TypeOK, RowSet, Visible, Unfinished
  <1>3. row' = [row EXCEPT ![i] = [row[i] EXCEPT !.status = "processing", !.due = FALSE,
                                       !.attempts = row[i].attempts + 1]]
    BY <1>1, <1>2 DEF RowSet
  <1>a. [row[i] EXCEPT !.status = "processing", !.due = FALSE, !.attempts = row[i].attempts + 1]
          = [row[i] EXCEPT !.status = "processing", !.attempts = row[i].attempts + 1, !.due = FALSE]
    BY <1>2 DEF RowSet
  <1>4. Same(i) /\ row'[i].status = "processing"
    BY <1>2, <1>3, <1>a, RowUpdate
  <1>5. Work(i)
    BY <1>1, <1>2, <1>4 DEF Work, Claimable, Claim
  <1> QED BY <1>1, <1>4, <1>5

LEMMA ComesDueWorks ==
    ASSUME TypeOK, NEW i \in Ids, ComesDue(i)
    PROVE  Work(i) /\ row'[i].status = row[i].status
  <1>1. row[i].status \in Unfinished /\ row[i].status \in Visible /\ row[i].status # "pending"
    BY DEF ComesDue, Visible, Unfinished
  <1>2. row[i].attempts \in Nat /\ row[i] \in RowSet
    BY DEF TypeOK, RowSet
  <1>3. row' = [row EXCEPT ![i] = [row[i] EXCEPT !.status = row[i].status,
                                       !.attempts = row[i].attempts, !.due = TRUE]]
    BY <1>2 DEF ComesDue, TypeOK, RowSet
  <1>4. Same(i) /\ row'[i].status = row[i].status
    BY <1>1, <1>2, <1>3, RowUpdate
  <1> QED BY <1>1, <1>4 DEF Work, ComesDue

LEMMA PlanWorks ==
    ASSUME TypeOK, LockOK, NEW o \in Observers, Plan(o)
    PROVE  /\ Work(observer[o].id) /\ row[observer[o].id].status = "processing"
           /\ row'[observer[o].id].status = "processing"
  <1>0. PICK i : i = observer[o].id
    OBVIOUS
  <1>1. i \in Ids /\ row[i].status = "processing"
    BY <1>0 DEF Plan, Fenced, LockOK
  <1>2. row[i].attempts \in Nat /\ row[i] \in RowSet
    BY <1>1 DEF TypeOK, RowSet
  <1>3. row' = [row EXCEPT ![i] = [row[i] EXCEPT !.due = FALSE]]
    BY <1>0 DEF Plan
  <1>4. row' = [row EXCEPT ![i] = [row[i] EXCEPT !.status = "processing",
                                       !.attempts = row[i].attempts, !.due = FALSE]]
    BY <1>1, <1>2, <1>3 DEF RowSet
  <1>5. "processing" \in Visible /\ "processing" \in Unfinished
    BY DEF Visible, Unfinished
  <1>6. Same(i) /\ row'[i].status = "processing"
    BY <1>1, <1>2, <1>4, <1>5, RowUpdate
  <1> QED BY <1>0, <1>1, <1>5, <1>6 DEF Work, Plan

LEMMA PersistWorks ==
    ASSUME TypeOK, LockOK, NEW o \in Observers, Persist(o)
    PROVE  /\ Work(observer[o].id) /\ row[observer[o].id].status = "processing"
           /\ row'[observer[o].id].status = "completed"
  <1>0. PICK i : i = observer[o].id
    OBVIOUS
  <1>1. i \in Ids /\ row[i].status = "processing"
    BY <1>0 DEF Persist, Fenced, LockOK
  <1>2. row[i].attempts \in Nat /\ row[i].due \in BOOLEAN /\ row[i] \in RowSet
    BY <1>1 DEF TypeOK, RowSet
  <1>3. row' = [row EXCEPT ![i] = [row[i] EXCEPT !.status = "completed"]]
    BY <1>0 DEF Persist
  <1>4. row' = [row EXCEPT ![i] = [row[i] EXCEPT !.status = "completed",
                                       !.attempts = row[i].attempts, !.due = row[i].due]]
    BY <1>2, <1>3 DEF RowSet
  <1>5. "completed" \in Visible /\ "processing" \in Unfinished
    BY DEF Visible, Unfinished
  <1>6. Same(i) /\ row'[i].status = "completed"
    BY <1>1, <1>2, <1>4, <1>5, RowUpdate
  <1> QED BY <1>0, <1>1, <1>5, <1>6 DEF Work, Persist

LEMMA FailRowWorks ==
    ASSUME TypeOK, LockOK, NEW o \in Observers, FailRow(o)
    PROVE  /\ Work(observer[o].id) /\ row[observer[o].id].status = "processing"
           /\ row'[observer[o].id].status \in {"failed", "dead_letter"}
  <1>0. PICK i : i = observer[o].id
    OBVIOUS
  <1> DEFINE st == IF row[i].attempts >= MaxAttempts THEN "dead_letter" ELSE "failed"
  <1>1. i \in Ids /\ row[i].status = "processing"
    BY <1>0 DEF FailRow, Fenced, LockOK
  <1>2. row[i].attempts \in Nat /\ row[i] \in RowSet
    BY <1>1 DEF TypeOK, RowSet
  <1>3. row' = [row EXCEPT ![i].due = FALSE, ![i].status = st]
    BY <1>0 DEF FailRow
  <1>4. row' = [row EXCEPT ![i] = [row[i] EXCEPT !.status = st,
                                       !.attempts = row[i].attempts, !.due = FALSE]]
    BY <1>2, <1>3 DEF RowSet, TypeOK
  <1>5. st \in {"failed", "dead_letter"} /\ st \in Visible /\ "processing" \in Unfinished
    BY DEF Visible, Unfinished
  <1>6. Same(i) /\ row'[i].status = st
    <2> HIDE DEF st
    <2> QED BY <1>1, <1>2, <1>4, <1>5, RowUpdate
  <1> QED BY <1>0, <1>1, <1>5, <1>6 DEF Work, FailRow

\* A publication that begins takes the first free id.
LEMMA BeginIs ==
    ASSUME TypeOK, NEW h \in Heads, NEW content \in SUBSET Things, NEW profile \in Profiles,
           BeginPublication(h, content, profile)
    PROVE  \E i \in Ids :
               /\ row[i].status = "free"
               /\ \A j \in Ids : j < i => row[j].status # "free"
               /\ \A j \in Ids : j # i => row'[j] = row[j]
               /\ row'[i].head = h /\ row'[i].old = head[h] /\ row'[i].new = content
               /\ row'[i].status = "writing"
               /\ row' \in [Ids -> RowSet]
  <1>1. PICK i \in Ids :
         /\ row[i].status = "free"
         /\ \A j \in Ids : j < i => row[j].status # "free"
         /\ row' = [row EXCEPT ![i] =
                [NoRow EXCEPT !.head = h, !.old = head[h], !.new = content,
                              !.profile = profile, !.status = "writing"]]
    BY DEF BeginPublication
  <1>2. row'[i] = [head |-> h, old |-> head[h], new |-> content, profile |-> profile,
                   status |-> "writing", attempts |-> 0, due |-> TRUE]
    BY <1>1 DEF TypeOK, NoRow
  <1>3. head[h] \in SUBSET Things
    BY DEF TypeOK
  <1>4. \A j \in Ids : j # i => row'[j] = row[j]
    BY <1>1 DEF TypeOK
  <1>5. row'[i] \in RowSet
    BY <1>2, <1>3 DEF RowSet
  <1>6. row' \in [Ids -> RowSet]
    BY <1>1, <1>4, <1>5 DEF TypeOK, RowSet
  <1> QED BY <1>1, <1>2, <1>4, <1>6

\* One that is committed shows what it published.
LEMMA CommitIs ==
    ASSUME TypeOK, RowShape, NEW i \in Ids, CommitPublication(i)
    PROVE  /\ row[i].status = "writing" /\ row[i].head \in Heads
           /\ Same(i) /\ row'[i].status = "pending"
           /\ head'[row[i].head] = row[i].new
           /\ \A h \in Heads : h # row[i].head => head'[h] = head[h]
           /\ head' \in [Heads -> SUBSET Things]
  <1>1. row[i].status = "writing" /\ row' = [row EXCEPT ![i] = [row[i] EXCEPT !.status = "pending"]]
    BY DEF CommitPublication
  <1>2. row[i].head \in Heads
    BY <1>1 DEF RowShape
  <1>3. head' = [head EXCEPT ![row[i].head] = row[i].new]
    BY DEF CommitPublication
  <1>4. row[i] \in RowSet
    BY DEF TypeOK, RowSet
  <1>5. /\ head'[row[i].head] = row[i].new
        /\ \A h \in Heads : h # row[i].head => head'[h] = head[h]
        /\ head' \in [Heads -> SUBSET Things]
    BY <1>2, <1>3, <1>4 DEF TypeOK, RowSet
  <1>6. "pending" \in Visible /\ row[i].attempts \in Nat /\ row[i].due \in BOOLEAN
    BY <1>4 DEF Visible, Unfinished, RowSet
  <1>7. row' = [row EXCEPT ![i] = [row[i] EXCEPT !.status = "pending",
                                       !.attempts = row[i].attempts, !.due = row[i].due]]
    BY <1>1, <1>4 DEF RowSet
  <1>8. Same(i) /\ row'[i].status = "pending"
    BY <1>6, <1>7, RowUpdate
  <1> QED BY <1>1, <1>2, <1>5, <1>8

-----------------------------------------------------------------------------
(* The rows and the heads.                                                   *)

RowsOK == RowShape /\ OpenIsLast /\ Chained

\* A row that is inserted is the last one and replaces what its head shows.
LEMMA BeginKeepsRows ==
    ASSUME TypeOK, RowsOK, InOrder,
           NEW h \in Heads, NEW content \in SUBSET Things, NEW profile \in Profiles,
           BeginPublication(h, content, profile)
    PROVE  RowsOK' /\ InOrder'
  <1>1. PICK i \in Ids :
               /\ row[i].status = "free"
               /\ \A j \in Ids : j < i => row[j].status # "free"
               /\ \A j \in Ids : j # i => row'[j] = row[j]
               /\ row'[i].head = h /\ row'[i].old = head[h] /\ row'[i].new = content
               /\ row'[i].status = "writing"
    BY BeginIs
  <1>2. head' = head /\ late' = late
    BY DEF BeginPublication
  <1>3. \A j \in Ids : i < j => row[j].status = "free" /\ row[j].head = NoHead
    BY <1>1 DEF RowsOK, RowShape, NoRow
  <1>4. "free" \notin Visible /\ "writing" \notin Visible /\ "free" \notin Unfinished
        /\ "writing" \notin Unfinished /\ "writing" \in Untaken
    BY DEF Visible, Unfinished, Untaken
  <1>5. \A j \in Ids : row[j].head = h => j < i
    <2> SUFFICES ASSUME NEW j \in Ids, row[j].head = h, ~(j < i) PROVE FALSE
      OBVIOUS
    <2>1. row[i].head = NoHead
      BY <1>1 DEF RowsOK, RowShape, NoRow
    <2> QED BY <1>3, <2>1, HeadsAssumption DEF Ids
  <1>6. RowShape'
    <2>1. \A j \in Ids : row'[j].status = "free" => row'[j] = NoRow
      BY <1>1 DEF RowsOK, RowShape
    <2>2. \A j \in Ids : row'[j].status # "free" => row'[j].head \in Heads
      BY <1>1 DEF RowsOK, RowShape
    <2>3. \A j, k \in Ids : row'[j].status = "free" /\ j < k => row'[k].status = "free"
      BY <1>1 DEF RowsOK, RowShape, Ids
    <2> QED BY <2>1, <2>2, <2>3 DEF RowShape
  <1>7. OpenIsLast'
    <2> SUFFICES ASSUME NEW j \in Ids, row'[j].status = "writing"
                 PROVE  /\ row'[j].old = head[row'[j].head]
                        /\ \A k \in Ids : row'[k].head = row'[j].head => k <= j
      BY <1>2 DEF OpenIsLast
    <2>1. CASE j = i
      BY <1>1, <1>5, <2>1 DEF Ids
    <2>2. CASE j # i
      <3>1. row[j].status = "writing" /\ row[j].head # h
        BY <1>1, <2>2 DEF BeginPublication
      <3> QED BY <1>1, <2>2, <3>1 DEF RowsOK, OpenIsLast
    <2> QED BY <2>1, <2>2
  <1>8. \A j \in Ids : row[j].status \in Visible => row'[j] = row[j]
    BY <1>1, <1>4
  <1>9. Chained'
    <2>1. \A g \in Heads : \A s \in head[g] : \E j \in Ids :
             row'[j].head = g /\ row'[j].status \in Visible /\ s \in row'[j].new
      BY <1>8 DEF RowsOK, Chained
    <2>2. ASSUME NEW k \in Ids, NEW s \in row'[k].old
          PROVE  \E j \in Ids : /\ j < k /\ row'[j].head = row'[k].head
                                /\ row'[j].status \in Visible /\ s \in row'[j].new
      <3>1. CASE k = i
        <4>1. PICK j \in Ids : row[j].head = h /\ row[j].status \in Visible /\ s \in row[j].new
          BY <1>1, <2>2, <3>1 DEF RowsOK, Chained
        <4> QED BY <1>1, <1>5, <1>8, <3>1, <4>1
      <3>2. CASE k # i
        <4>1. PICK j \in Ids : j < k /\ row[j].head = row[k].head
                               /\ row[j].status \in Visible /\ s \in row[j].new
          BY <1>1, <2>2, <3>2 DEF RowsOK, Chained
        <4> QED BY <1>1, <1>8, <3>2, <4>1
      <3> QED BY <3>1, <3>2
    <2>3. ASSUME NEW j \in Ids, row'[j].status \in Visible, NEW s \in row'[j].new
          PROVE  \/ s \in head[row'[j].head]
                 \/ \E k \in Ids : /\ j < k /\ row'[k].head = row'[j].head
                                   /\ row'[k].status \in Visible
                                   /\ s \in row'[k].old \ row'[k].new
      <3>1. row'[j] = row[j]
        BY <1>1, <1>4, <2>3
      <3> QED BY <1>8, <2>3, <3>1 DEF RowsOK, Chained
    <2> QED BY <1>2, <2>1, <2>2, <2>3 DEF Chained
  <1>10. InOrder'
    <2> SUFFICES ASSUME NEW k \in Ids, NEW j \in Ids, j < k, row'[j].status \in Unfinished,
                        ~late \/ row'[j].head = row'[k].head
                 PROVE  row'[k].status \in Untaken
      BY <1>2 DEF InOrder
    <2>1. CASE k = i
      BY <1>1, <1>4, <2>1
    <2>2. CASE k # i
      BY <1>1, <1>4, <2>2 DEF InOrder
    <2> QED BY <2>1, <2>2
  <1> QED BY <1>6, <1>7, <1>9, <1>10 DEF RowsOK

\* A row that is committed continues the chain of its head.
LEMMA CommitKeepsRows ==
    ASSUME TypeOK, RowsOK, InOrder, NEW i \in Ids, CommitPublication(i)
    PROVE  RowsOK' /\ InOrder'
  <1>1. /\ row[i].status = "writing" /\ row[i].head \in Heads
        /\ Same(i) /\ row'[i].status = "pending"
        /\ head'[row[i].head] = row[i].new
        /\ \A h \in Heads : h # row[i].head => head'[h] = head[h]
    BY CommitIs DEF RowsOK
  <1>2. \A j \in Ids : /\ row'[j].head = row[j].head /\ row'[j].old = row[j].old
                       /\ row'[j].new = row[j].new /\ (j # i => row'[j] = row[j])
    BY <1>1 DEF Same
  <1>3. late' = (late \/ \E j \in Ids : j > i /\ row[j].status \in Visible)
    BY DEF CommitPublication
  <1>4. /\ row[i].old = head[row[i].head]
        /\ \A j \in Ids : row[j].head = row[i].head => j <= i
    BY <1>1 DEF RowsOK, OpenIsLast
  <1>5. "pending" \in Visible /\ "pending" \in Untaken /\ "writing" \notin Visible
        /\ Untaken = {"free", "writing", "pending"} /\ Unfinished \subseteq Visible
    BY DEF Visible, Unfinished, Untaken
  <1>6. \A j \in Ids : row[j].status \in Visible => row'[j] = row[j]
    BY <1>1, <1>2, <1>5
  <1>7. RowShape'
    BY <1>1, <1>2 DEF RowsOK, RowShape
  <1>8. OpenIsLast'
    <2> SUFFICES ASSUME NEW j \in Ids, row'[j].status = "writing"
                 PROVE  /\ row'[j].old = head'[row'[j].head]
                        /\ \A k \in Ids : row'[k].head = row'[j].head => k <= j
      BY DEF OpenIsLast
    <2>1. j # i /\ row[j].status = "writing" /\ row[j].head \in Heads
      BY <1>1, <1>2 DEF RowsOK, RowShape
    <2>2. row[j].head # row[i].head
      BY <1>1, <1>4, <2>1 DEF RowsOK, OpenIsLast, Ids
    <2> QED BY <1>1, <1>2, <2>1, <2>2 DEF RowsOK, OpenIsLast
  <1>9. Chained'
    <2>1. ASSUME NEW h \in Heads, NEW s \in head'[h]
          PROVE  \E j \in Ids : row'[j].head = h /\ row'[j].status \in Visible /\ s \in row'[j].new
      <3>1. CASE h = row[i].head
        BY <1>1, <1>2, <1>5, <2>1, <3>1
      <3>2. CASE h # row[i].head
        BY <1>1, <1>6, <2>1, <3>2 DEF RowsOK, Chained
      <3> QED BY <3>1, <3>2
    <2>2. ASSUME NEW k \in Ids, NEW s \in row'[k].old
          PROVE  \E j \in Ids : /\ j < k /\ row'[j].head = row'[k].head
                                /\ row'[j].status \in Visible /\ s \in row'[j].new
      <3>1. PICK j \in Ids : /\ j < k /\ row[j].head = row[k].head
                             /\ row[j].status \in Visible /\ s \in row[j].new
        BY <1>2, <2>2 DEF RowsOK, Chained
      <3> QED BY <1>2, <1>6, <3>1
    <2>3. ASSUME NEW j \in Ids, row'[j].status \in Visible, NEW s \in row'[j].new
          PROVE  \/ s \in head'[row'[j].head]
                 \/ \E k \in Ids : /\ j < k /\ row'[k].head = row'[j].head
                                   /\ row'[k].status \in Visible
                                   /\ s \in row'[k].old \ row'[k].new
      <3>1. CASE j = i
        BY <1>1, <1>2, <2>3, <3>1
      <3>2. CASE j # i
        <4>1. row'[j] = row[j] /\ row[j].head \in Heads
          BY <1>2, <1>5, <2>3, <3>2 DEF RowsOK, RowShape, Visible, Unfinished
        <4>2. CASE \E k \in Ids : /\ j < k /\ row[k].head = row[j].head
                                  /\ row[k].status \in Visible
                                  /\ s \in row[k].old \ row[k].new
          BY <1>6, <4>1, <4>2
        <4>3. CASE s \in head[row[j].head]
          <5>1. CASE row[j].head # row[i].head
            BY <1>1, <4>1, <4>3, <5>1
          <5>2. CASE row[j].head = row[i].head /\ s \in row[i].new
            BY <1>1, <4>1, <5>2
          <5>3. CASE row[j].head = row[i].head /\ s \notin row[i].new
            <6>1. j < i /\ s \in row[i].old
              BY <1>4, <3>2, <4>3, <5>3 DEF Ids
            <6> QED BY <1>1, <1>2, <1>5, <4>1, <5>3, <6>1
          <5> QED BY <5>1, <5>2, <5>3
        <4> QED BY <2>3, <4>1, <4>2, <4>3 DEF RowsOK, Chained
      <3> QED BY <3>1, <3>2
    <2> QED BY <2>1, <2>2, <2>3 DEF Chained
  <1>10. InOrder'
    <2> SUFFICES ASSUME NEW k \in Ids, NEW j \in Ids, j < k, row'[j].status \in Unfinished,
                        ~late' \/ row'[j].head = row'[k].head
                 PROVE  row'[k].status \in Untaken
      BY DEF InOrder
    <2>1. CASE k = i
      BY <1>1, <1>5, <2>1
    <2>2. CASE k # i /\ j # i
      BY <1>2, <1>3, <2>2 DEF InOrder
    <2>3. CASE k # i /\ j = i
      <3>1. row'[k] = row[k] /\ row[k].head # row[i].head
        BY <1>2, <1>4, <2>3 DEF Ids
      <3>2. row[k].status \notin Visible
        BY <1>2, <1>3, <2>3, <3>1 DEF Ids
      <3>3. row[k].status \in Visible \union {"free", "writing"}
        BY DEF TypeOK
      <3> QED BY <1>5, <3>1, <3>2, <3>3
    <2> QED BY <2>1, <2>2, <2>3
  <1> QED BY <1>7, <1>8, <1>9, <1>10 DEF RowsOK

\* Work on a row leaves the chains alone, and takes rows in their order.
LEMMA WorkKeepsRows ==
    ASSUME TypeOK, RowsOK, InOrder, NEW i \in Ids, Work(i)
    PROVE  RowsOK' /\ InOrder'
  <1>1. /\ row[i].status \in Unfinished /\ row'[i].status \in Visible
        /\ \A j \in Ids : /\ row'[j].head = row[j].head /\ row'[j].old = row[j].old
                          /\ row'[j].new = row[j].new /\ (j # i => row'[j] = row[j])
        /\ head' = head /\ late' = late
        /\ row[i].status = "pending" => \A j \in Ids : j < i => row[j].status \notin Unfinished
    BY DEF Work, Same
  <1>2. /\ "free" \notin Visible /\ "writing" \notin Visible /\ Unfinished \subseteq Visible
        /\ Untaken = {"free", "writing", "pending"}
    BY DEF Visible, Unfinished, Untaken
  <1>3. \A j \in Ids : /\ (row'[j].status \in Visible <=> row[j].status \in Visible)
                       /\ (row'[j].status = "writing" => row[j].status = "writing")
                       /\ (row'[j].status = "free" <=> row[j].status = "free")
                       /\ (row'[j].status \in Unfinished => row[j].status \in Unfinished)
    BY <1>1, <1>2
  <1>4. RowShape'
    BY <1>1, <1>2, <1>3 DEF RowsOK, RowShape
  <1>5. OpenIsLast'
    BY <1>1, <1>3 DEF RowsOK, OpenIsLast
  <1>6. Chained'
    <2>1. \A h \in Heads : \A s \in head'[h] : \E j \in Ids :
             row'[j].head = h /\ row'[j].status \in Visible /\ s \in row'[j].new
      BY <1>1, <1>3 DEF RowsOK, Chained
    <2>2. ASSUME NEW k \in Ids, NEW s \in row'[k].old
          PROVE  \E j \in Ids : /\ j < k /\ row'[j].head = row'[k].head
                                /\ row'[j].status \in Visible /\ s \in row'[j].new
      <3>1. PICK j \in Ids : /\ j < k /\ row[j].head = row[k].head
                             /\ row[j].status \in Visible /\ s \in row[j].new
        BY <1>1, <2>2 DEF RowsOK, Chained
      <3> QED BY <1>1, <1>3, <3>1
    <2>3. ASSUME NEW j \in Ids, row'[j].status \in Visible, NEW s \in row'[j].new
          PROVE  \/ s \in head'[row'[j].head]
                 \/ \E k \in Ids : /\ j < k /\ row'[k].head = row'[j].head
                                   /\ row'[k].status \in Visible
                                   /\ s \in row'[k].old \ row'[k].new
      BY <1>1, <1>3, <2>3 DEF RowsOK, Chained
    <2> QED BY <2>1, <2>2, <2>3 DEF Chained
  <1>7. InOrder'
    <2> SUFFICES ASSUME NEW k \in Ids, NEW j \in Ids, j < k, row'[j].status \in Unfinished,
                        ~late \/ row[j].head = row[k].head
                 PROVE  row'[k].status \in Untaken
      BY <1>1 DEF InOrder
    <2>1. row[j].status \in Unfinished /\ row[k].status \in Untaken
      BY <1>3 DEF InOrder
    <2>2. k # i
      BY <1>1, <1>2, <2>1
    <2> QED BY <1>1, <2>1, <2>2
  <1> QED BY <1>4, <1>5, <1>6, <1>7 DEF RowsOK

-----------------------------------------------------------------------------
(* Types, processes and events.                                              *)

\* An observer with a row, one whose plan is made, and one that is released.
LEMMA TypeStep ==
    ASSUME TypeOK, RowsOK, LockOK, CurrentShape, [Next]_vars
    PROVE  TypeOK'
  <1>0. /\ row \in [Ids -> RowSet] /\ MaxId \in Nat
        /\ Unseen \in [status : {"none", "visible", "disappeared", "baseline_observed"},
                       mode : ModeNames \union {"none"}]
    BY BoundsAssumption DEF TypeOK, RowSet, Unseen
  <1>1. ASSUME NEW h \in Heads, NEW content \in SUBSET Things, NEW profile \in Profiles,
               BeginPublication(h, content, profile)
        PROVE  TypeOK'
    <2>1. row' \in [Ids -> RowSet]
      BY <1>1, BeginIs
    <2> QED BY <1>1, <2>1 DEF BeginPublication, TypeOK, RowSet
  <1>2. ASSUME NEW i \in Ids, CommitPublication(i) PROVE TypeOK'
    <2>1. row' \in [Ids -> RowSet] /\ head' \in [Heads -> SUBSET Things]
      BY <1>2, CommitIs DEF RowsOK, Same
    <2>2. late' \in BOOLEAN
      BY <1>2 DEF CommitPublication, TypeOK
    <2> QED BY <1>2, <2>1, <2>2 DEF CommitPublication, TypeOK, RowSet
  <1>3. ASSUME NEW i \in Ids, ComesDue(i) PROVE TypeOK'
    <2>1. row' \in [Ids -> RowSet]
      BY <1>3, ComesDueWorks DEF Work, Same
    <2> QED BY <1>3, <2>1 DEF ComesDue, TypeOK, RowSet
  <1>4. ASSUME NEW o \in Observers, Claim(o) PROVE TypeOK'
    <2>1. PICK i \in Ids : /\ Work(i)
                           /\ observer' = [observer EXCEPT ![o] =
                                [pc |-> "claimed", id |-> i, lease |-> row[i].attempts + 1,
                                 plan |-> {}]]
      BY <1>4, ClaimWorks
    <2>2. row' \in [Ids -> RowSet]
      BY <2>1 DEF Work, Same
    <2>3. row[i].attempts + 1 \in Nat /\ i \in Nat
      BY <1>0 DEF RowSet, Ids
    <2>4. [pc |-> "claimed", id |-> i, lease |-> row[i].attempts + 1, plan |-> {}]
            \in [pc : {"idle", "claimed", "planned"}, id : Nat, lease : Nat, plan : SUBSET EventSet]
      BY <2>3
    <2>5. observer' \in [Observers -> [pc : {"idle", "claimed", "planned"},
                                       id : Nat, lease : Nat, plan : SUBSET EventSet]]
      BY <2>1, <2>4 DEF TypeOK
    <2> QED BY <1>4, <2>2, <2>5 DEF Claim, TypeOK, RowSet
  <1>5. ASSUME NEW o \in Observers, Plan(o) PROVE TypeOK'
    <2>1. row' \in [Ids -> RowSet] /\ observer[o].id \in Ids
      BY <1>5, PlanWorks DEF Work, Same
    <2>2. row[observer[o].id].status # "free"
      BY <1>5, PlanWorks
    <2>3. PlannedEvents(observer[o].id) \in SUBSET EventSet
      BY <2>1, <2>2, PlannedIs DEF RowsOK
    <2>4. observer' \in [Observers -> [pc : {"idle", "claimed", "planned"},
                                       id : Nat, lease : Nat, plan : SUBSET EventSet]]
      <3> DEFINE P == PlannedEvents(observer[o].id)
      <3>1. observer' = [observer EXCEPT ![o].pc = "planned", ![o].plan = P]
        BY <1>5 DEF Plan
      <3> HIDE DEF P
      <3>2. P \in SUBSET EventSet
        BY <2>3 DEF P
      <3> DEFINE E == EventSet
      <3>3. observer \in [Observers -> [pc : {"idle", "claimed", "planned"},
                                       id : Nat, lease : Nat, plan : SUBSET E]]
        BY DEF TypeOK
      <3>4. P \in SUBSET E
        BY <3>2
      <3> HIDE DEF E
      <3>5. observer' \in [Observers -> [pc : {"idle", "claimed", "planned"},
                                        id : Nat, lease : Nat, plan : SUBSET E]]
        BY <3>1, <3>3, <3>4
      <3> QED BY <3>5 DEF E
    <2> QED BY <1>5, <2>1, <2>4 DEF Plan, TypeOK, RowSet
  <1>6. ASSUME NEW o \in Observers, Release(o)
        PROVE  /\ observer' \in [Observers -> [pc : {"idle", "claimed", "planned"},
                                       id : Nat, lease : Nat, plan : SUBSET EventSet]]
               /\ lock' \in Observers \union {Nobody}
    BY <1>6 DEF Release, TypeOK, Idle
  <1>7. ASSUME NEW o \in Observers, Persist(o) PROVE TypeOK'
    <2>1. row' \in [Ids -> RowSet] /\ observer[o].plan \in SUBSET EventSet
      BY <1>7, PersistWorks DEF Work, Same, TypeOK
    <2>2. events' \subseteq EventSet
      BY <1>7, <2>1 DEF Persist, TypeOK
    <2>3. current' \in [Things -> [status : {"none", "visible", "disappeared", "baseline_observed"},
                                   mode : ModeNames \union {"none"}]]
      <3>1. ASSUME NEW s \in Things, NEW e, e = CHOOSE d \in observer[o].plan : d.thing = s,
                   \E f \in observer[o].plan : f.thing = s
            PROVE  StateAfter(e) \in [status : {"none", "visible", "disappeared", "baseline_observed"},
                                      mode : ModeNames \union {"none"}]
        <4>1. e \in EventSet
          BY <2>1, <3>1
        <4> QED BY <4>1, StateAfterIs
      <3> QED BY <1>7, <3>1 DEF Persist, Projected, TypeOK
    <2>4. watermark' \in 0 .. MaxId
      BY <1>7, WatermarkIs DEF Persist
    <2>5. Release(o) /\ UNCHANGED <<head, faults, late, rebuilt>>
      BY <1>7 DEF Persist
    <2>6. /\ observer' \in [Observers -> [pc : {"idle", "claimed", "planned"},
                                       id : Nat, lease : Nat, plan : SUBSET EventSet]]
          /\ lock' \in Observers \union {Nobody}
      BY <1>6, <2>5
    <2>7. /\ head' \in [Heads -> SUBSET Things]
          /\ faults' \in Nat /\ late' \in BOOLEAN /\ rebuilt' \in BOOLEAN
      BY <2>5 DEF TypeOK
    <2>8. row' \in [Ids -> RowSet]
      BY <2>1
    <2> HIDE DEF ModeNames
    <2> QED BY <2>2, <2>3, <2>4, <2>6, <2>7, <2>8, Zenon DEF TypeOK, RowSet
  <1>8. ASSUME NEW o \in Observers, FailRow(o) PROVE TypeOK'
    <2>1. row' \in [Ids -> RowSet]
      BY <1>8, FailRowWorks DEF Work, Same
    <2>2. /\ Release(o) /\ faults' = faults + 1
          /\ UNCHANGED <<head, events, current, watermark, late, rebuilt>>
      BY <1>8 DEF FailRow
    <2>3. /\ observer' \in [Observers -> [pc : {"idle", "claimed", "planned"},
                                       id : Nat, lease : Nat, plan : SUBSET EventSet]]
          /\ lock' \in Observers \union {Nobody}
      BY <1>6, <2>2
    <2> QED BY <2>1, <2>2, <2>3 DEF TypeOK, RowSet
  <1>9. ASSUME NEW o \in Observers, Crash(o) PROVE TypeOK'
    <2>1. Release(o) /\ faults' = faults + 1
      BY <1>9 DEF Crash
    <2> QED BY <1>6, <1>9, <2>1 DEF Crash, TypeOK
  <1>10. ASSUME NEW o \in Observers, Pulse(o) PROVE TypeOK'
    <2>1. watermark' \in 0 .. MaxId
      BY <1>10, WatermarkIs DEF Pulse
    <2> QED BY <1>10, <2>1 DEF Pulse, TypeOK
  <1>11. ASSUME NEW o \in Observers, Rebuild(o) PROVE TypeOK'
    <2>1. events \in SUBSET EventSet
      BY DEF TypeOK
    <2>2. ASSUME NEW s \in Things
          PROVE  StateFrom(events, s) \in
                   [status : {"none", "visible", "disappeared", "baseline_observed"},
                    mode : ModeNames \union {"none"}]
      <3>1. CASE \E e \in events : e.thing = s
        <4>1. PICK e \in events : StateFrom(events, s) = StateAfter(e)
          BY <2>1, <3>1, StateFromIs
        <4> QED BY <2>1, <4>1, StateAfterIs
      <3>2. CASE ~\E e \in events : e.thing = s
        BY <1>0, <2>1, <3>2, StateFromIs
      <3> QED BY <3>1, <3>2
    <2>3. current' \in [Things -> [status : {"none", "visible", "disappeared", "baseline_observed"},
                                   mode : ModeNames \union {"none"}]]
      BY <1>11, <2>2, ReplayedIs DEF Rebuild
    <2>4. rebuilt' \in BOOLEAN
      BY <1>11 DEF Rebuild, TypeOK
    <2> QED BY <1>11, <2>3, <2>4 DEF Rebuild, TypeOK
  <1>12. CASE UNCHANGED vars
    BY <1>12 DEF vars, TypeOK
  <1> QED BY <1>1, <1>2, <1>3, <1>4, <1>5, <1>7, <1>8, <1>9, <1>10, <1>11, <1>12 DEF Next

\* Committed rows stay committed, and a process keeps the lock until it is idle.
LEMMA LockStep ==
    ASSUME TypeOK, RowsOK, LockOK, [Next]_vars
    PROVE  LockOK' /\ \A i \in Ids : row[i].status \in Visible => row'[i].status \in Visible
  <1> DEFINE Stay == \A i \in Ids : row[i].status \in Visible => row'[i].status \in Visible
  <1>0. "free" \notin Visible /\ "writing" \notin Visible
    BY DEF Visible, Unfinished
  <1>1. ASSUME NEW i \in Ids, Work(i) PROVE Stay
    BY <1>1 DEF Work, Same
  <1>2. ASSUME Stay, UNCHANGED <<observer, lock>> PROVE LockOK'
    BY <1>2 DEF LockOK
  <1>3. ASSUME NEW o \in Observers, Release(o), observer[o].pc # "idle" PROVE LockOK'
    <2>1. \A p \in Observers : observer[p].pc # "idle" => p = o
      BY <1>3 DEF LockOK
    <2>2. \A p \in Observers : observer'[p].pc = "idle"
      BY <1>3, <2>1 DEF Release, Idle, TypeOK
    <2> QED BY <2>2 DEF LockOK
  <1>4. ASSUME NEW h \in Heads, NEW content \in SUBSET Things, NEW profile \in Profiles,
               BeginPublication(h, content, profile)
        PROVE  LockOK' /\ Stay
    <2>1. Stay
      BY <1>0, <1>4, BeginIs
    <2> QED BY <1>2, <1>4, <2>1 DEF BeginPublication
  <1>5. ASSUME NEW i \in Ids, CommitPublication(i) PROVE LockOK' /\ Stay
    <2>1. Stay
      BY <1>0, <1>5, CommitIs DEF RowsOK, Same
    <2> QED BY <1>2, <1>5, <2>1 DEF CommitPublication
  <1>6. ASSUME NEW i \in Ids, ComesDue(i) PROVE LockOK' /\ Stay
    <2>1. Stay
      BY <1>1, <1>6, ComesDueWorks
    <2> QED BY <1>2, <1>6, <2>1 DEF ComesDue
  <1>7. ASSUME NEW o \in Observers, Claim(o) PROVE LockOK' /\ Stay
    <2>1. PICK i \in Ids : /\ Work(i)
                           /\ observer' = [observer EXCEPT ![o] =
                                [pc |-> "claimed", id |-> i, lease |-> row[i].attempts + 1,
                                 plan |-> {}]]
      BY <1>7, ClaimWorks
    <2>2. lock = Nobody /\ lock' = o
      BY <1>7 DEF Claim
    <2>3. \A p \in Observers : observer[p].pc = "idle"
      BY <2>2, ObserversAssumption DEF LockOK
    <2>4. \A p \in Observers : observer'[p].pc # "idle" => p = o
      BY <2>1, <2>3 DEF TypeOK
    <2>5. observer'[o].id = i
      BY <2>1 DEF TypeOK
    <2>6. row'[i].status \in Visible
      BY <2>1 DEF Work
    <2> QED BY <1>1, <2>1, <2>2, <2>4, <2>5, <2>6 DEF LockOK
  <1>8. ASSUME NEW o \in Observers, Plan(o) PROVE LockOK' /\ Stay
    <2>1. Stay
      BY <1>1, <1>8, PlanWorks DEF Work
    <2>2. /\ \A p \in Observers : observer'[p].id = observer[p].id
          /\ \A p \in Observers : observer'[p].pc # "idle" => observer[p].pc # "idle"
          /\ lock' = lock
      BY <1>8 DEF Plan, TypeOK
    <2> QED BY <2>1, <2>2 DEF LockOK
  <1>9. ASSUME NEW o \in Observers, Persist(o) PROVE LockOK' /\ Stay
    <2>1. Stay /\ Release(o) /\ observer[o].pc # "idle"
      BY <1>1, <1>9, PersistWorks DEF Work, Persist
    <2> QED BY <1>3, <2>1
  <1>10. ASSUME NEW o \in Observers, FailRow(o) PROVE LockOK' /\ Stay
    <2>1. Stay /\ Release(o) /\ observer[o].pc # "idle"
      BY <1>1, <1>10, FailRowWorks DEF Work, FailRow
    <2> QED BY <1>3, <2>1
  <1>11. ASSUME NEW o \in Observers, Crash(o) PROVE LockOK' /\ Stay
    BY <1>3, <1>11 DEF Crash
  <1>12. ASSUME NEW o \in Observers, Pulse(o) \/ Rebuild(o) PROVE LockOK' /\ Stay
    BY <1>2, <1>12 DEF Pulse, Rebuild
  <1>13. CASE UNCHANGED vars
    BY <1>2, <1>13 DEF vars
  <1> HIDE DEF Stay
  <1> QED BY <1>4, <1>5, <1>6, <1>7, <1>8, <1>9, <1>10, <1>11, <1>12, <1>13 DEF Next, Stay

\* What a persisting process does to the row, the events and the projection.
LEMMA PersistIs ==
    ASSUME TypeOK, LockOK, PlansOK, NEW o \in Observers, Persist(o),
           NEW i, i = observer[o].id, NEW plan, plan = observer[o].plan
    PROVE  /\ i \in Ids /\ Same(i) /\ row[i].status = "processing" /\ row'[i].status = "completed"
           /\ plan \in SUBSET EventSet
           /\ \A e, f \in plan : e.thing = f.thing => e = f
           /\ \A e \in plan : /\ e.pub = i /\ e.thing \in row[i].old \union row[i].new
                              /\ e.type = "disappeared" <=> e.thing \notin row[i].new
           /\ events' = events \union plan
           /\ \A s \in Things : (~\E e \in plan : e.thing = s) => current'[s] = current[s]
           /\ \A e \in plan : current'[e.thing] = StateAfter(e)
           /\ watermark' = Watermark(row')
           /\ UNCHANGED <<head, late, rebuilt>>
  <1>1. i \in Ids /\ Same(i) /\ row[i].status = "processing" /\ row'[i].status = "completed"
    BY PersistWorks DEF Work
  <1>2. plan \in SUBSET EventSet
    BY DEF TypeOK
  <1>3. PlanShape(o)
    BY DEF Persist, PlansOK
  <1>4. \A e \in plan : /\ e.pub = i /\ e.thing \in row[i].old \union row[i].new
                        /\ e.type = "disappeared" <=> e.thing \notin row[i].new
    BY <1>3 DEF PlanShape
  <1>5. \A e, f \in plan : e.thing = f.thing => e = f
    BY <1>3, <1>4 DEF PlanShape, OneEventEach
  <1>6. /\ events' = events \union plan /\ current' = Projected(plan)
        /\ watermark' = Watermark(row')
        /\ UNCHANGED <<head, late, rebuilt>>
    BY DEF Persist
  <1>7. /\ \A s \in Things : (~\E e \in plan : e.thing = s) => current'[s] = current[s]
        /\ \A e \in plan : current'[e.thing] = StateAfter(e)
    BY <1>2, <1>5, <1>6, ProjectedIs
  <1> QED BY <1>1, <1>2, <1>4, <1>5, <1>6, <1>7

\* Completed rows stay completed, and dead letters too; only persisting completes one.
LEMMA FinishedStay ==
    ASSUME TypeOK, RowsOK, LockOK, [Next]_vars
    PROVE  \A j \in Ids : /\ row[j].status = "completed" => row'[j] = row[j]
                          /\ row[j].status = "dead_letter" => row'[j] = row[j]
  <1>0. /\ "completed" \notin Unfinished /\ "dead_letter" \notin Unfinished
        /\ "processing" \in Unfinished
    BY DEF Unfinished
  <1>1. ASSUME NEW i \in Ids, Work(i)
        PROVE  \A j \in Ids : /\ row[j].status = "completed" => row'[j] = row[j]
                              /\ row[j].status = "dead_letter" => row'[j] = row[j]
    BY <1>0, <1>1 DEF Work, Same
  <1>2. ASSUME NEW h \in Heads, NEW content \in SUBSET Things, NEW profile \in Profiles,
               BeginPublication(h, content, profile)
        PROVE  \A j \in Ids : /\ row[j].status = "completed" => row'[j] = row[j]
                              /\ row[j].status = "dead_letter" => row'[j] = row[j]
    BY <1>2, BeginIs
  <1>3. ASSUME NEW i \in Ids, CommitPublication(i)
        PROVE  \A j \in Ids : /\ row[j].status = "completed" => row'[j] = row[j]
                              /\ row[j].status = "dead_letter" => row'[j] = row[j]
    BY <1>3, CommitIs DEF RowsOK, Same
  <1>4. ASSUME NEW i \in Ids, ComesDue(i) PROVE \E j \in Ids : Work(j)
    BY <1>4, ComesDueWorks
  <1>5. ASSUME NEW o \in Observers, Claim(o) \/ Plan(o) \/ Persist(o) \/ FailRow(o)
        PROVE  \E j \in Ids : Work(j)
    BY <1>5, ClaimWorks, PlanWorks, PersistWorks, FailRowWorks DEF Work
  <1>6. ASSUME NEW o \in Observers, Crash(o) \/ Pulse(o) \/ Rebuild(o) PROVE row' = row
    BY <1>6 DEF Crash, Pulse, Rebuild
  <1>7. CASE UNCHANGED vars
    BY <1>7 DEF vars
  <1> QED BY <1>1, <1>2, <1>3, <1>4, <1>5, <1>6, <1>7 DEF Next

\* The steps that leave events and projection alone.
LEMMA QuietSteps ==
    ASSUME [Next]_vars,
           ~\E o \in Observers : Persist(o) \/ Rebuild(o)
    PROVE  UNCHANGED <<events, current, rebuilt>>
  BY DEF Next, vars, BeginPublication, CommitPublication, ComesDue, Claim, Plan, FailRow, Crash, Pulse

\* Events are of completed rows, one for a structure and a row.
LEMMA EventsStep ==
    ASSUME TypeOK, RowsOK, LockOK, PlansOK, EventsOK, [Next]_vars
    PROVE  EventsOK'
  <1>0. \A e \in events : e.pub \in Ids
    BY DEF TypeOK, EventSet
  <1>1. CASE events' = events
    BY <1>0, <1>1, FinishedStay DEF EventsOK
  <1>2. ASSUME NEW o \in Observers, Persist(o) PROVE EventsOK'
    <2>1. PICK i, plan : i = observer[o].id /\ plan = observer[o].plan
      OBVIOUS
    <2>2. /\ i \in Ids /\ row[i].status = "processing" /\ row'[i].status = "completed"
          /\ \A e, f \in plan : e.thing = f.thing => e = f
          /\ \A e \in plan : e.pub = i
          /\ events' = events \union plan
      BY <1>2, <2>1, PersistIs
    <2>3. \A e \in events' : row'[e.pub].status = "completed"
      BY <1>0, <2>2, FinishedStay DEF EventsOK
    <2>4. ASSUME NEW e \in events', NEW f \in events', e.thing = f.thing, e.pub = f.pub
          PROVE  e = f
      <3>1. e \in events => e.pub # i
        BY <2>2 DEF EventsOK
      <3>2. f \in events => f.pub # i
        BY <2>2 DEF EventsOK
      <3> QED BY <2>2, <2>4, <3>1, <3>2 DEF EventsOK, OneEventEach
    <2> QED BY <2>3, <2>4 DEF EventsOK, OneEventEach
  <1>3. ASSUME NEW o \in Observers, Rebuild(o) PROVE events' = events
    BY <1>3 DEF Rebuild
  <1> QED BY <1>1, <1>2, <1>3, QuietSteps

\* A structure without a status was never seen.
LEMMA CurrentStep ==
    ASSUME TypeOK, LockOK, PlansOK, CurrentShape, [Next]_vars
    PROVE  CurrentShape'
  <1>1. CASE current' = current
    BY <1>1 DEF CurrentShape
  <1>2. ASSUME NEW o \in Observers, Persist(o) PROVE CurrentShape'
    <2>1. PICK i, plan : i = observer[o].id /\ plan = observer[o].plan
      OBVIOUS
    <2>2. /\ plan \in SUBSET EventSet
          /\ \A s \in Things : (~\E e \in plan : e.thing = s) => current'[s] = current[s]
          /\ \A e \in plan : current'[e.thing] = StateAfter(e)
      BY <1>2, <2>1, PersistIs
    <2>3. \A e \in plan : StateAfter(e).status # "none"
      BY <2>2, StateAfterIs
    <2> QED BY <2>2, <2>3 DEF CurrentShape
  <1>3. ASSUME NEW o \in Observers, Rebuild(o) PROVE CurrentShape'
    <2>1. \A s \in Things : current'[s] = StateFrom(events, s)
      BY <1>3, ReplayedIs DEF Rebuild
    <2>2. \A s \in Things : StateFrom(events, s) = Unseen \/ \E e \in events : StateFrom(events, s) = StateAfter(e)
      BY StateFromIs DEF TypeOK
    <2>3. \A e \in events : StateAfter(e).status # "none"
      BY StateAfterIs DEF TypeOK
    <2> QED BY <2>1, <2>2, <2>3 DEF CurrentShape
  <1> QED BY <1>1, <1>2, <1>3, QuietSteps

-----------------------------------------------------------------------------
(* Watermark and rebuild.                                                    *)

\* Moved to where the rows now allow it, the watermark is safe.
LEMMA WatermarkMoves ==
    ASSUME TypeOK', RowShape', watermark' = Watermark(row')
    PROVE  WatermarkOK'
  <1>1. /\ \A i \in Ids : i <= watermark' /\ row'[i].status \in Visible => row'[i].status = "completed"
        /\ watermark' # 0 => \E j \in Ids : watermark' <= j /\ row'[j].status \in Visible
        /\ watermark' \in 0 .. MaxId
    BY WatermarkIs
  <1>2. ASSUME NEW i \in Ids, i <= watermark' PROVE row'[i].status \in {"writing", "completed"}
    <2>1. row'[i].status \in Visible \union {"free", "writing"}
      BY DEF TypeOK
    <2>2. PICK j \in Ids : watermark' <= j /\ row'[j].status \in Visible
      BY <1>1, <1>2, BoundsAssumption DEF Ids
    <2>3. row'[j].status # "free"
      BY <2>2 DEF Visible, Unfinished
    <2>4. i <= j
      BY <1>1, <1>2, <2>2, BoundsAssumption DEF Ids
    <2>5. row'[i].status # "free"
      BY <2>3, <2>4, BoundsAssumption DEF RowShape, Ids
    <2> QED BY <1>1, <1>2, <2>1, <2>5
  <1> QED BY <1>1, <1>2 DEF WatermarkOK, WatermarkSafe

\* Left where it is, it is safe while the rows below it stay as they are.
LEMMA WatermarkStep ==
    ASSUME TypeOK, TypeOK', RowsOK, RowsOK', LockOK, WatermarkOK, [Next]_vars
    PROVE  WatermarkOK'
  <1>0. watermark \in 0 .. MaxId /\ MaxId \in Nat /\ "free" \notin Visible /\ "writing" \notin Visible
        /\ {"writing", "completed"} \intersect Unfinished = {}
    BY BoundsAssumption DEF TypeOK, Visible, Unfinished
  <1>1. \A i \in Ids : row[i].status \in Visible => row'[i].status \in Visible
    BY LockStep
  <1>2. ASSUME watermark' = watermark, WatermarkSafe' PROVE WatermarkOK'
    BY <1>1, <1>2 DEF WatermarkOK
  <1>3. ASSUME NEW i \in Ids, Work(i), watermark' = watermark PROVE WatermarkSafe'
    BY <1>0, <1>3 DEF Work, Same, WatermarkOK, WatermarkSafe
  <1>4. ASSUME NEW h \in Heads, NEW content \in SUBSET Things, NEW profile \in Profiles,
               BeginPublication(h, content, profile)
        PROVE  WatermarkOK'
    <2>1. watermark' = watermark /\ late' = late
      BY <1>4 DEF BeginPublication
    <2>2. WatermarkSafe'
      BY <1>4, <2>1, BeginIs DEF WatermarkOK, WatermarkSafe
    <2> QED BY <1>2, <2>1, <2>2
  <1>5. ASSUME NEW i \in Ids, CommitPublication(i) PROVE WatermarkOK'
    <2>1. /\ row[i].status = "writing" /\ \A j \in Ids : j # i => row'[j] = row[j]
      BY <1>5, CommitIs DEF RowsOK, Same
    <2>2. watermark' = watermark /\ late' = (late \/ \E j \in Ids : j > i /\ row[j].status \in Visible)
      BY <1>5 DEF CommitPublication
    <2>3. ASSUME i <= watermark PROVE late'
      <3>1. PICK j \in Ids : watermark <= j /\ row[j].status \in Visible
        BY <1>0, <2>3 DEF WatermarkOK, Ids
      <3>2. j # i
        BY <1>0, <2>1, <3>1
      <3>3. j > i
        BY <1>0, <2>3, <3>1, <3>2 DEF Ids
      <3> QED BY <2>2, <3>1, <3>3
    <2>4. WatermarkSafe'
      BY <2>1, <2>2, <2>3 DEF WatermarkOK, WatermarkSafe
    <2> QED BY <1>2, <2>2, <2>4
  <1>6. ASSUME NEW i \in Ids, ComesDue(i) PROVE WatermarkOK'
    <2>1. watermark' = watermark
      BY <1>6 DEF ComesDue
    <2> QED BY <1>2, <1>3, <1>6, <2>1, ComesDueWorks
  <1>7. ASSUME NEW o \in Observers, Claim(o) PROVE WatermarkOK'
    <2>1. watermark' = watermark
      BY <1>7 DEF Claim
    <2> QED BY <1>2, <1>3, <1>7, <2>1, ClaimWorks
  <1>8. ASSUME NEW o \in Observers, Plan(o) PROVE WatermarkOK'
    <2>1. watermark' = watermark
      BY <1>8 DEF Plan
    <2>2. Work(observer[o].id) /\ observer[o].id \in Ids
      BY <1>8, PlanWorks DEF Work
    <2> QED BY <1>2, <1>3, <2>1, <2>2
  <1>9. ASSUME NEW o \in Observers, FailRow(o) PROVE WatermarkOK'
    <2>1. watermark' = watermark
      BY <1>9 DEF FailRow
    <2>2. Work(observer[o].id) /\ observer[o].id \in Ids
      BY <1>9, FailRowWorks DEF Work
    <2> QED BY <1>2, <1>3, <2>1, <2>2
  <1>10. ASSUME NEW o \in Observers, Persist(o) PROVE WatermarkOK'
    <2>1. watermark' = Watermark(row')
      BY <1>10 DEF Persist
    <2> QED BY <2>1, WatermarkMoves DEF RowsOK
  <1>11. ASSUME NEW o \in Observers, Pulse(o) PROVE WatermarkOK'
    <2>1. watermark' = Watermark(row')
      BY <1>11 DEF Pulse
    <2> QED BY <2>1, WatermarkMoves DEF RowsOK
  <1>12. ASSUME NEW o \in Observers, Crash(o) \/ Rebuild(o) PROVE WatermarkOK'
    BY <1>12 DEF Crash, Rebuild, WatermarkOK, WatermarkSafe
  <1>13. CASE UNCHANGED vars
    BY <1>13 DEF vars, WatermarkOK, WatermarkSafe
  <1> QED BY <1>4, <1>5, <1>6, <1>7, <1>8, <1>9, <1>10, <1>11, <1>12, <1>13 DEF Next

\* A row that is late stays late.
LEMMA LateStays ==
    ASSUME TypeOK, [Next]_vars
    PROVE  late => late'
  BY DEF Next, vars, TypeOK, BeginPublication, CommitPublication, ComesDue, Claim, Plan, Persist,
         FailRow, Crash, Pulse, Rebuild

\* In the order of the ids the events of a row are the last ones of their structures.
LEMMA RebuildStep ==
    ASSUME TypeOK, TypeOK', LockOK, InOrder, PlansOK, EventsOK, EventsOK', RebuildAgrees, [Next]_vars
    PROVE  RebuildAgrees'
  <1>1. CASE UNCHANGED <<events, current>>
    <2>1. Replayed' = Replayed
      BY <1>1 DEF Replayed
    <2> QED BY <1>1, <2>1, LateStays DEF RebuildAgrees
  <1>2. ASSUME NEW o \in Observers, Rebuild(o) PROVE RebuildAgrees'
    <2>1. current' = Replayed /\ events' = events
      BY <1>2 DEF Rebuild
    <2> QED BY <2>1 DEF RebuildAgrees, Replayed
  <1>3. ASSUME NEW o \in Observers, Persist(o) PROVE RebuildAgrees'
    <2>1. PICK i, plan : i = observer[o].id /\ plan = observer[o].plan
      OBVIOUS
    <2>2. /\ i \in Ids /\ row[i].status = "processing"
          /\ \A e \in plan : e.pub = i
          /\ events' = events \union plan
          /\ \A s \in Things : (~\E e \in plan : e.thing = s) => current'[s] = current[s]
          /\ \A e \in plan : current'[e.thing] = StateAfter(e)
          /\ late' = late
      BY <1>3, <2>1, PersistIs
    <2> SUFFICES ASSUME ~late PROVE current' = Replayed'
      BY <2>2 DEF RebuildAgrees
    <2>3. current = Replayed
      BY DEF RebuildAgrees
    <2>4. events' \in SUBSET EventSet
      BY DEF TypeOK
    <2>5. \A e \in events' : e.pub \in Ids
      BY <2>4 DEF EventSet
    <2>6. ASSUME NEW f \in events' PROVE f.pub <= i
      <3>1. CASE f \in plan
        BY <2>2, <3>1 DEF Ids
      <3>2. CASE f \in events
        <4>1. row[f.pub].status = "completed" /\ f.pub \in Ids
          BY <2>5, <3>2 DEF EventsOK
        <4>2. ~(i < f.pub)
          BY <2>2, <4>1 DEF InOrder, Unfinished, Untaken
        <4> QED BY <2>2, <4>1, <4>2, BoundsAssumption DEF Ids
      <3> QED BY <2>2, <3>1, <3>2
    <2>7. ASSUME NEW s \in Things PROVE current'[s] = StateFrom(events', s)
      <3>1. CASE \E e \in plan : e.thing = s
        <4>1. PICK e \in plan : e.thing = s
          BY <3>1
        <4>2. e \in events' /\ e.pub = i
          BY <2>2, <4>1
        <4>3. PICK g \in events' : /\ g.thing = s /\ StateFrom(events', s) = StateAfter(g)
                                   /\ \A f \in events' : f.thing = s => f.pub <= g.pub
          BY <2>4, <4>1, <4>2, StateFromIs
        <4>4. g.pub = i
          BY <2>2, <2>5, <2>6, <4>1, <4>2, <4>3, BoundsAssumption DEF Ids
        <4>5. g = e
          BY <4>1, <4>2, <4>3, <4>4 DEF EventsOK, OneEventEach
        <4> QED BY <2>2, <4>1, <4>3, <4>5
      <3>2. CASE ~\E e \in plan : e.thing = s
        <4>1. {e \in events' : e.thing = s} = {e \in events : e.thing = s}
          BY <2>2, <3>2
        <4>2. StateFrom(events', s) = StateFrom(events, s)
          BY <4>1 DEF StateFrom
        <4>3. Replayed[s] = StateFrom(events, s)
          BY ReplayedIs
        <4>4. current'[s] = Replayed[s]
          BY <2>2, <2>3, <3>2
        <4> QED BY <4>2, <4>3, <4>4
      <3> QED BY <3>1, <3>2
    <2>8. Replayed' = [s \in Things |-> StateFrom(events', s)]
      BY DEF Replayed, StateFrom, StateOf
    <2>9. current' = [s \in Things |-> current'[s]]
      BY DEF TypeOK
    <2> QED BY <2>7, <2>8, <2>9
  <1> QED BY <1>1, <1>2, <1>3, QuietSteps

-----------------------------------------------------------------------------
(* Plans and projection.                                                     *)

\* No row is completed, and what a committed row says of its head stays.
NoReport ==
    \A j \in Ids :
        /\ row[j].status \in Visible =>
               /\ row'[j].status \in Visible
               /\ row'[j].head = row[j].head /\ row'[j].old = row[j].old
               /\ row'[j].new = row[j].new /\ row'[j].profile = row[j].profile
        /\ row'[j].status = "completed" <=> row[j].status = "completed"
        /\ row[j].status = "dead_letter" => row'[j].status = "dead_letter"

\* Rows that wait for their turn go on to wait.
LEMMA StillOpen ==
    ASSUME NoReport, NEW j \in Ids
    PROVE  row[j].status \in Open => row'[j].status \in Open
  BY DEF NoReport, Open, Visible, Unfinished

LEMMA WorkNoReport ==
    ASSUME NEW i \in Ids, Work(i), row'[i].status # "completed", row[i].status # "dead_letter"
    PROVE  NoReport
  BY DEF Work, Same, NoReport, Visible, Unfinished

\* The steps on the rows that complete none.
LEMMA RowNoReport ==
    ASSUME TypeOK, RowsOK, LockOK, [Next]_vars, ~\E o \in Observers : Persist(o)
    PROVE  NoReport
  <1>0. "completed" \notin Unfinished /\ "dead_letter" \notin Unfinished /\ "writing" \notin Visible
        /\ "pending" \in Visible /\ "free" \notin Visible /\ {"completed", "dead_letter"} \subseteq Visible
        /\ "processing" \in Unfinished
    BY DEF Unfinished, Visible
  <1>1. ASSUME NEW h \in Heads, NEW content \in SUBSET Things, NEW profile \in Profiles,
               BeginPublication(h, content, profile)
        PROVE  NoReport
    BY <1>0, <1>1, BeginIs DEF NoReport
  <1>2. ASSUME NEW i \in Ids, CommitPublication(i) PROVE NoReport
    BY <1>0, <1>2, CommitIs DEF NoReport, RowsOK, Same
  <1>3. ASSUME NEW i \in Ids, ComesDue(i) PROVE NoReport
    BY <1>0, <1>3, ComesDueWorks, WorkNoReport DEF Work
  <1>4. ASSUME NEW o \in Observers, Claim(o) PROVE NoReport
    BY <1>0, <1>4, ClaimWorks, WorkNoReport DEF Work
  <1>5. ASSUME NEW o \in Observers, Plan(o) PROVE NoReport
    <2>1. PICK i \in Ids : Work(i) /\ row[i].status = "processing" /\ row'[i].status = "processing"
      BY <1>5, PlanWorks DEF Work
    <2> QED BY <2>1, WorkNoReport
  <1>6. ASSUME NEW o \in Observers, FailRow(o) PROVE NoReport
    <2>1. PICK i \in Ids : Work(i) /\ row[i].status = "processing"
                           /\ row'[i].status \in {"failed", "dead_letter"}
      BY <1>6, FailRowWorks DEF Work
    <2> QED BY <2>1, WorkNoReport
  <1>7. ASSUME NEW o \in Observers, Crash(o) \/ Pulse(o) \/ Rebuild(o) PROVE NoReport
    BY <1>7 DEF Crash, Pulse, Rebuild, NoReport
  <1>8. CASE UNCHANGED vars
    BY <1>8 DEF vars, NoReport
  <1> QED BY <1>1, <1>2, <1>3, <1>4, <1>5, <1>6, <1>7, <1>8 DEF Next

\* A plan outlives the steps that leave projection, heads and process alone.
LEMMA PlansKept ==
    ASSUME LockOK, PlansOK, NoReport, UNCHANGED <<head, current, observer>>
    PROVE  PlansOK'
  <1> SUFFICES ASSUME NEW o \in Observers, observer[o].pc = "planned"
               PROVE  PlanShape(o)' /\ PlanFresh(o)'
    BY DEF PlansOK
  <1>1. PlanShape(o) /\ PlanFresh(o)
    BY DEF PlansOK
  <1>2. PICK i : i = observer[o].id
    OBVIOUS
  <1>3. /\ i \in Ids /\ row'[i].old = row[i].old /\ row'[i].new = row[i].new
        /\ row'[i].profile = row[i].profile
    BY <1>2 DEF LockOK, NoReport
  <1>4. ASSUME NEW k \in Ids, row[k].status \in Open
        PROVE  /\ row'[k].status \in Open /\ row'[k].head = row[k].head
               /\ row'[k].old = row[k].old /\ row'[k].new = row[k].new
    BY <1>4, StillOpen DEF NoReport, Open, Visible
  <1>5. PlanShape(o)'
    BY <1>1, <1>2, <1>3 DEF PlanShape
  <1>6. \A s, h : WillShow(s, h) => WillShow(s, h)'
    BY <1>4 DEF WillShow
  <1>7. \A s \in row[i].new :
               \/ Planned(o, s)
               \/ current[s].status \in Present
               \/ current[s] = Unseen /\ s \in row[i].old
    BY <1>1, <1>2 DEF PlanFresh
  <1>8. \A s \in row[i].old \ row[i].new :
               row[i].profile # "baseline" /\ ~Planned(o, s) =>
                   \/ ShownNow(s)
                   \/ \E k \in Ids \ {i} :
                          row[k].status \in Open /\ s \in row[k].old \ row[k].new
    BY <1>1, <1>2 DEF PlanFresh
  <1>9. \A s \in row[i].old \ row[i].new :
               Planned(o, s) => \A h \in Heads : s \in head[h] => WillShow(s, h)
    BY <1>1, <1>2 DEF PlanFresh
  <1>10. \A s : Planned(o, s)' <=> Planned(o, s)
    BY DEF Planned
  <1>11. \A s : ShownNow(s)' <=> ShownNow(s)
    BY DEF ShownNow
  <1>12. \A s \in row[i].old \ row[i].new :
               row[i].profile # "baseline" /\ ~Planned(o, s) =>
                   \/ ShownNow(s)'
                   \/ \E k \in Ids \ {i} :
                          row'[k].status \in Open /\ s \in row'[k].old \ row'[k].new
    BY <1>4, <1>8, <1>11
  <1>13. observer'[o].id = i
    BY <1>2
  <1>14. PlanFresh(o)'
    BY <1>3, <1>6, <1>7, <1>9, <1>10, <1>12, <1>13 DEF PlanFresh
  <1> QED BY <1>5, <1>14

\* A commit removes what a head showed, and then its own row is to say so; it
\* shows what it published, and then its own row is to say that.
LEMMA CommitKeepsPlans ==
    ASSUME TypeOK, RowsOK, LockOK, PlansOK, NEW n \in Ids, CommitPublication(n), NoReport
    PROVE  PlansOK'
  <1>0. UNCHANGED <<current, observer>>
    BY DEF CommitPublication
  <1> SUFFICES ASSUME NEW o \in Observers, observer[o].pc = "planned"
               PROVE  PlanShape(o)' /\ PlanFresh(o)'
    BY <1>0 DEF PlansOK
  <1>1. PlanShape(o) /\ PlanFresh(o)
    BY DEF PlansOK
  <1>2. PICK i : i = observer[o].id
    OBVIOUS
  <1>3. /\ i \in Ids /\ row'[i].old = row[i].old /\ row'[i].new = row[i].new
        /\ row'[i].profile = row[i].profile
    BY <1>2 DEF LockOK, NoReport
  <1>4. ASSUME NEW k \in Ids, row[k].status \in Open
        PROVE  /\ row'[k].status \in Open /\ row'[k].head = row[k].head
               /\ row'[k].old = row[k].old /\ row'[k].new = row[k].new
    BY <1>4, StillOpen DEF NoReport, Open, Visible
  <1>5. PlanShape(o)'
    BY <1>0, <1>1, <1>2, <1>3 DEF PlanShape
  <1>6. /\ row[n].status = "writing" /\ row[n].head \in Heads
        /\ row'[n].head = row[n].head /\ row'[n].old = row[n].old /\ row'[n].new = row[n].new
        /\ row'[n].status = "pending" /\ head'[row[n].head] = row[n].new
        /\ \A h \in Heads : h # row[n].head => head'[h] = head[h]
    BY CommitIs DEF RowsOK, Same
  <1>7. row[n].old = head[row[n].head] /\ row'[n].status \in Open
    BY <1>6 DEF RowsOK, OpenIsLast, Open, Unfinished
  <1>8. n # i
    BY <1>2, <1>6 DEF LockOK, Visible, Unfinished
  <1>9. \A s : Planned(o, s)' <=> Planned(o, s)
    BY <1>0 DEF Planned
  <1>10. \A s \in row[i].new :
               \/ Planned(o, s)
               \/ current[s].status \in Present
               \/ current[s] = Unseen /\ s \in row[i].old
    BY <1>1, <1>2 DEF PlanFresh
  <1>11. ASSUME NEW s \in row[i].old \ row[i].new, row[i].profile # "baseline", ~Planned(o, s)
         PROVE  \/ ShownNow(s)'
                \/ \E k \in Ids \ {i} :
                       row'[k].status \in Open /\ s \in row'[k].old \ row'[k].new
    <2>1. \/ ShownNow(s)
          \/ \E k \in Ids \ {i} : row[k].status \in Open /\ s \in row[k].old \ row[k].new
      BY <1>1, <1>2, <1>11 DEF PlanFresh
    <2>2. CASE \E k \in Ids \ {i} : row[k].status \in Open /\ s \in row[k].old \ row[k].new
      BY <1>4, <2>2
    <2>3. CASE ShownNow(s)
      <3>1. PICK h \in Heads : s \in head[h]
        BY <2>3 DEF ShownNow
      <3>2. CASE s \in head'[h]
        BY <3>2 DEF ShownNow
      <3>3. CASE s \notin head'[h]
        BY <1>6, <1>7, <1>8, <3>1, <3>3
      <3> QED BY <3>2, <3>3
    <2> QED BY <2>1, <2>2, <2>3
  <1>12. ASSUME NEW s \in row[i].old \ row[i].new, Planned(o, s), NEW h \in Heads, s \in head'[h]
         PROVE  WillShow(s, h)'
    <2>1. CASE h = row[n].head
      BY <1>6, <1>7, <1>12, <2>1 DEF WillShow
    <2>2. CASE h # row[n].head
      <3>1. WillShow(s, h)
        BY <1>1, <1>2, <1>6, <1>12, <2>2 DEF PlanFresh
      <3> QED BY <1>4, <3>1 DEF WillShow
    <2> QED BY <2>1, <2>2
  <1>13. observer'[o].id = i
    BY <1>0, <1>2
  <1>14. PlanFresh(o)'
    BY <1>0, <1>3, <1>9, <1>10, <1>11, <1>12, <1>13 DEF PlanFresh
  <1> QED BY <1>5, <1>14

\* A plan that is made is right at once.
LEMMA PlanKeepsPlans ==
    ASSUME TypeOK, RowsOK, LockOK, CurrentShape, NEW o \in Observers, Plan(o)
    PROVE  PlansOK'
  <1>1. PICK i : i = observer[o].id
    OBVIOUS
  <1>2. /\ i \in Ids /\ row[i].status = "processing"
        /\ \A j \in Ids : /\ row'[j].head = row[j].head /\ row'[j].old = row[j].old
                          /\ row'[j].new = row[j].new /\ row'[j].profile = row[j].profile
    BY <1>1, PlanWorks DEF Work, Same
  <1>3. UNCHANGED <<head, current>> /\ lock = o
    BY DEF Plan, LockOK
  <1>4. \A p \in Observers : observer'[p].pc = "planned" => p = o
    BY <1>3 DEF Plan, LockOK, TypeOK
  <1> DEFINE P == PlannedEvents(i)
  <1>5. observer'[o].plan = P /\ observer'[o].id = i
    BY <1>1 DEF Plan, TypeOK
  <1>6. /\ OneEventEach(P)
        /\ \A e \in P :
                  /\ e.pub = i
                  /\ e.thing \in row[i].old \union row[i].new
                  /\ e.type = "disappeared" <=> e.thing \notin row[i].new
        /\ \A s \in row[i].new : (\E e \in P : e.thing = s) <=> Transition(s, i) # "none"
        /\ \A s \in row[i].old \ row[i].new :
                  (\E e \in P : e.thing = s) <=> row[i].profile # "baseline" /\ ~ShownNow(s)
    BY <1>2, PlannedIs DEF RowsOK
  <1> HIDE DEF P
  <1>7. PlanShape(o)'
    BY <1>2, <1>5, <1>6 DEF PlanShape
  <1>8. \A s \in row[i].new :
               \/ Planned(o, s)'
               \/ current'[s].status \in Present
               \/ current'[s] = Unseen /\ s \in row[i].old
    <2> SUFFICES ASSUME NEW s \in row[i].new, ~Planned(o, s)'
                 PROVE  current[s].status \in Present \/ (current[s] = Unseen /\ s \in row[i].old)
      BY <1>3
    <2>1. Transition(s, i) = "none"
      BY <1>5, <1>6 DEF Planned
    <2>2. s \in Things
      BY <1>2 DEF TypeOK
    <2> QED BY <2>1, <2>2, NoTransition
  <1>9. \A s : ShownNow(s)' <=> ShownNow(s)
    BY <1>3 DEF ShownNow
  <1>10. \A s \in row[i].old \ row[i].new :
               row[i].profile # "baseline" /\ ~Planned(o, s)' => ShownNow(s)'
    BY <1>5, <1>6, <1>9 DEF Planned
  <1>11. \A s \in row[i].old \ row[i].new :
               Planned(o, s)' => \A h \in Heads : s \notin head'[h]
    BY <1>3, <1>5, <1>6 DEF Planned, ShownNow
  <1>12. PlanFresh(o)'
    BY <1>2, <1>5, <1>8, <1>10, <1>11 DEF PlanFresh
  <1> QED BY <1>4, <1>7, <1>12 DEF PlansOK

LEMMA PlansStep ==
    ASSUME TypeOK, RowsOK, LockOK, CurrentShape, PlansOK, [Next]_vars
    PROVE  PlansOK'
  <1>1. ASSUME NEW o \in Observers, Release(o), observer[o].pc # "idle" PROVE PlansOK'
    <2>1. \A p \in Observers : observer[p].pc # "idle" => p = o
      BY <1>1 DEF LockOK
    <2>2. \A p \in Observers : observer'[p].pc = "idle"
      BY <1>1, <2>1 DEF Release, Idle, TypeOK
    <2> QED BY <2>2 DEF PlansOK
  <1>2. ASSUME NEW o \in Observers, Claim(o) PROVE PlansOK'
    <2>1. \A p \in Observers : observer[p].pc = "idle"
      BY <1>2, ObserversAssumption DEF LockOK, Claim
    <2>2. \A p \in Observers : observer'[p].pc # "planned"
      BY <1>2, <2>1, ClaimWorks DEF TypeOK
    <2> QED BY <2>2 DEF PlansOK
  <1>3. ASSUME NEW o \in Observers, Rebuild(o) PROVE PlansOK'
    <2>1. \A p \in Observers : observer'[p].pc = "idle"
      BY <1>3, ObserversAssumption DEF LockOK, Rebuild
    <2> QED BY <2>1 DEF PlansOK
  <1>4. CASE UNCHANGED <<head, current, observer>> /\ ~\E o \in Observers : Persist(o)
    BY <1>4, PlansKept, RowNoReport
  <1>5. ASSUME NEW i \in Ids, CommitPublication(i), ~\E o \in Observers : Persist(o)
        PROVE  PlansOK'
    BY <1>5, RowNoReport, CommitKeepsPlans
  <1>6. ASSUME NEW o \in Observers, Plan(o) PROVE PlansOK'
    BY <1>6, PlanKeepsPlans
  <1>7. ASSUME NEW o \in Observers, Persist(o) \/ FailRow(o) \/ Crash(o) PROVE PlansOK'
    BY <1>1, <1>7 DEF Persist, FailRow, Crash
  <1>8. ASSUME NEW h \in Heads, NEW content \in SUBSET Things, NEW profile \in Profiles,
               BeginPublication(h, content, profile)
        PROVE  UNCHANGED <<head, current, observer>>
    BY <1>8 DEF BeginPublication
  <1>9. ASSUME NEW i \in Ids, ComesDue(i) PROVE UNCHANGED <<head, current, observer>>
    BY <1>9 DEF ComesDue
  <1>10. ASSUME NEW o \in Observers, Pulse(o) PROVE UNCHANGED <<head, current, observer>>
    BY <1>10 DEF Pulse
  <1>11. CASE UNCHANGED vars
    BY <1>4, <1>7, <1>11 DEF vars
  <1> QED BY <1>2, <1>3, <1>4, <1>5, <1>6, <1>7, <1>8, <1>9, <1>10, <1>11 DEF Next

\* Without a report the projection stays as right as it was; a commit has its own
\* row to say what it changed.
LEMMA ProjectionKept ==
    ASSUME TypeOK, RowsOK, NoReport, SeenOK, ShownOK, GoneOK, UNCHANGED current,
           head' = head \/ \E i \in Ids : CommitPublication(i)
    PROVE  SeenOK' /\ ShownOK' /\ GoneOK'
  <1>1. ASSUME NEW k \in Ids, row[k].status \in Open
        PROVE  /\ row'[k].status \in Open /\ row'[k].head = row[k].head
               /\ row'[k].old = row[k].old /\ row'[k].new = row[k].new
    BY <1>1, StillOpen DEF NoReport, Open, Visible
  <1>2. \A k \in Ids : row[k].status \in {"completed", "dead_letter"} =>
            /\ row'[k].status = row[k].status /\ row'[k].head = row[k].head
            /\ row'[k].old = row[k].old /\ row'[k].new = row[k].new
            /\ row'[k].profile = row[k].profile
    BY DEF NoReport, Visible
  <1>3. \A k \in Ids : row'[k].status = "completed" => row[k].status = "completed"
    BY DEF NoReport
  <1>4. \A s : /\ \A h : WillShow(s, h) => WillShow(s, h)'
               /\ WillRemove(s) => WillRemove(s)'
    BY <1>1 DEF WillShow, WillRemove
  <1>5. \A s : DroppedByBaseline(s) => DroppedByBaseline(s)'
    BY <1>2 DEF DroppedByBaseline
  <1>6. SeenOK'
    <2> SUFFICES ASSUME NEW i \in Ids, row'[i].status = "completed", NEW s \in row'[i].new,
                        current[s] = Unseen
                 PROVE  \E j \in Ids : /\ row'[j].head = row'[i].head
                                       /\ row'[j].status = "dead_letter" /\ s \in row'[j].new
      BY DEF SeenOK
    <2>1. row[i].status = "completed" /\ s \in row[i].new /\ row'[i].head = row[i].head
      BY <1>2, <1>3
    <2>2. PICK j \in Ids : row[j].head = row[i].head /\ row[j].status = "dead_letter" /\ s \in row[j].new
      BY <2>1 DEF SeenOK
    <2> QED BY <1>2, <2>1, <2>2
  <1>7. CASE head' = head
    <2>1. \A s : ShownNow(s)' <=> ShownNow(s)
      BY <1>7 DEF ShownNow
    <2> QED BY <1>4, <1>5, <1>6, <1>7, <2>1 DEF ShownOK, GoneOK
  <1>8. ASSUME NEW n \in Ids, CommitPublication(n) PROVE ShownOK' /\ GoneOK'
    <2>1. /\ row[n].status = "writing" /\ row[n].head \in Heads
          /\ row'[n].head = row[n].head /\ row'[n].old = row[n].old /\ row'[n].new = row[n].new
          /\ row'[n].status = "pending" /\ head'[row[n].head] = row[n].new
          /\ \A h \in Heads : h # row[n].head => head'[h] = head[h]
      BY <1>8, CommitIs DEF RowsOK, Same
    <2>2. row[n].old = head[row[n].head] /\ row'[n].status \in Open
      BY <2>1 DEF RowsOK, OpenIsLast, Open, Unfinished
    <2>3. ASSUME NEW h \in Heads, NEW s \in head'[h]
          PROVE  current[s].status \in Present \/ WillShow(s, h)'
      <3>1. CASE h = row[n].head
        BY <2>1, <2>2, <2>3, <3>1 DEF WillShow
      <3>2. CASE h # row[n].head
        BY <1>4, <2>1, <2>3, <3>2 DEF ShownOK
      <3> QED BY <3>1, <3>2
    <2>4. ASSUME NEW s \in Things, ShownNow(s) PROVE ShownNow(s)' \/ WillRemove(s)'
      <3>1. PICK h \in Heads : s \in head[h]
        BY <2>4 DEF ShownNow
      <3>2. CASE s \in head'[h]
        BY <3>2 DEF ShownNow
      <3>3. CASE s \notin head'[h]
        BY <2>1, <2>2, <3>1, <3>3 DEF WillRemove
      <3> QED BY <3>2, <3>3
    <2> QED BY <1>4, <1>5, <2>3, <2>4 DEF ShownOK, GoneOK
  <1> QED BY <1>6, <1>7, <1>8

\* What a row that has its turn replaces an earlier row published, and that one is
\* finished: it was seen, or it was given up.
LEMMA BeforeIsDone ==
    ASSUME TypeOK, RowsOK, InOrder, SeenOK,
           NEW i \in Ids, row[i].status = "processing", NEW s \in row[i].old, current[s] = Unseen
    PROVE  \E j \in Ids : /\ row[j].head = row[i].head /\ row[j].status = "dead_letter"
                          /\ s \in row[j].new
  <1>1. PICK j \in Ids : /\ j < i /\ row[j].head = row[i].head
                         /\ row[j].status \in Visible /\ s \in row[j].new
    BY DEF RowsOK, Chained
  <1>2. row[j].status \notin Unfinished
    BY <1>1 DEF InOrder, Untaken
  <1>3. row[j].status \in {"completed", "dead_letter"}
    BY <1>1, <1>2 DEF Visible
  <1> QED BY <1>1, <1>3 DEF SeenOK

\* Writing a plan leaves the projection right, or another row to correct it.
LEMMA PersistKeepsProjection ==
    ASSUME TypeOK, RowsOK, InOrder, LockOK, CurrentShape, PlansOK, SeenOK, ShownOK, GoneOK,
           NEW o \in Observers, Persist(o)
    PROVE  SeenOK' /\ ShownOK' /\ GoneOK'
  <1>1. PICK i, plan : i = observer[o].id /\ plan = observer[o].plan
    OBVIOUS
  <1>2. /\ i \in Ids /\ Same(i) /\ row[i].status = "processing" /\ row'[i].status = "completed"
        /\ plan \in SUBSET EventSet
        /\ \A e \in plan : /\ e.thing \in row[i].old \union row[i].new
                           /\ e.type = "disappeared" <=> e.thing \notin row[i].new
        /\ \A s \in Things : (~\E e \in plan : e.thing = s) => current'[s] = current[s]
        /\ \A e \in plan : current'[e.thing] = StateAfter(e)
        /\ head' = head
    BY <1>1, PersistIs
  <1>3. \A j \in Ids : /\ row'[j].head = row[j].head /\ row'[j].old = row[j].old
                       /\ row'[j].new = row[j].new /\ row'[j].profile = row[j].profile
                       /\ (j # i => row'[j] = row[j])
    BY <1>2 DEF Same
  <1>4. \A e \in plan : /\ current'[e.thing] # Unseen
                        /\ current'[e.thing].status \in Present <=> e.thing \in row[i].new
    BY <1>2, StateAfterIs
  <1>5. PlanFresh(o)
    BY DEF Persist, PlansOK
  <1>6. \A s : Planned(o, s) <=> \E e \in plan : e.thing = s
    BY <1>1 DEF Planned
  <1>7. \A s \in Things : ~Planned(o, s) => current'[s] = current[s]
    BY <1>2, <1>6
  <1>8. \A s \in Things : Planned(o, s) => /\ current'[s] # Unseen
                                           /\ current'[s].status \in Present <=> s \in row[i].new
    BY <1>4, <1>6
  <1>9. /\ \A s \in row[i].new :
               \/ Planned(o, s)
               \/ current[s].status \in Present
               \/ current[s] = Unseen /\ s \in row[i].old
        /\ \A s \in row[i].old \ row[i].new :
               row[i].profile # "baseline" /\ ~Planned(o, s) =>
                   \/ ShownNow(s)
                   \/ \E k \in Ids \ {i} :
                          row[k].status \in Open /\ s \in row[k].old \ row[k].new
        /\ \A s \in row[i].old \ row[i].new :
               Planned(o, s) => \A h \in Heads : s \in head[h] => WillShow(s, h)
    BY <1>1, <1>5 DEF PlanFresh
  <1>10. \A s : Planned(o, s) => s \in row[i].old \union row[i].new
    BY <1>2, <1>6
  <1>11. \A j \in Ids : row[j].old \subseteq Things /\ row[j].new \subseteq Things
    BY DEF TypeOK
  <1>12. \A j \in Ids : row[j].status = "dead_letter" => row'[j] = row[j]
    BY <1>2, <1>3
  <1>13. \A s \in Things : current[s] # Unseen => current'[s] # Unseen
    BY <1>7, <1>8
  <1>14. SeenOK'
    <2> SUFFICES ASSUME NEW k \in Ids, row'[k].status = "completed", NEW s \in row[k].new,
                        current'[s] = Unseen
                 PROVE  \E j \in Ids : /\ row[j].head = row[k].head
                                       /\ row[j].status = "dead_letter" /\ s \in row[j].new
      BY <1>3, <1>12 DEF SeenOK
    <2>1. s \in Things /\ current[s] = Unseen
      BY <1>11, <1>13
    <2>2. CASE k # i
      BY <1>3, <2>1, <2>2 DEF SeenOK
    <2>3. CASE k = i
      <3>1. ~Planned(o, s)
        BY <1>8, <2>1
      <3>2. current[s].status \notin Present
        BY <2>1 DEF Unseen, Present
      <3>3. s \in row[i].old
        BY <1>9, <2>3, <3>1, <3>2
      <3> QED BY <1>2, <2>1, <2>3, <3>3, BeforeIsDone
    <2> QED BY <2>2, <2>3
  <1>15. \A k \in Ids : row[k].status \in Open /\ k # i => row'[k] = row[k] /\ row'[k].status \in Open
    BY <1>3
  <1>16. ShownOK'
    <2> SUFFICES ASSUME NEW h \in Heads, NEW s \in head[h], current'[s].status \notin Present
                 PROVE  WillShow(s, h)'
      BY <1>2 DEF ShownOK
    <2>1. s \in Things
      BY DEF TypeOK
    <2>2. CASE Planned(o, s)
      <3>1. s \in row[i].old \ row[i].new
        BY <1>8, <1>10, <2>1, <2>2
      <3>2. WillShow(s, h)
        BY <1>9, <2>2, <3>1
      <3>3. PICK k \in Ids : row[k].head = h /\ row[k].status \in Open /\ s \in row[k].new
        BY <3>2 DEF WillShow
      <3> QED BY <1>15, <3>1, <3>3 DEF WillShow
    <2>3. CASE ~Planned(o, s)
      <3>1. current[s].status \notin Present
        BY <1>7, <2>1, <2>3
      <3>2. PICK k \in Ids : row[k].head = h /\ row[k].status \in Open /\ s \in row[k].new
        BY <3>1 DEF ShownOK, WillShow
      <3>3. CASE k # i
        BY <1>15, <3>2, <3>3 DEF WillShow
      <3>4. CASE k = i
        <4>1. current[s] = Unseen /\ s \in row[i].old
          BY <1>9, <2>3, <3>1, <3>2, <3>4
        <4>2. PICK j \in Ids : /\ row[j].head = row[i].head /\ row[j].status = "dead_letter"
                               /\ s \in row[j].new
          BY <1>2, <4>1, BeforeIsDone
        <4> QED BY <1>12, <3>2, <3>4, <4>2 DEF WillShow, Open
      <3> QED BY <3>3, <3>4
    <2> QED BY <2>2, <2>3
  <1>17. GoneOK'
    <2> SUFFICES ASSUME NEW s \in Things, current'[s].status \in Present, ~ShownNow(s)
                 PROVE  WillRemove(s)' \/ DroppedByBaseline(s)'
      BY <1>2 DEF GoneOK, ShownNow
    <2>1. CASE Planned(o, s)
      <3>1. s \in row[i].new
        BY <1>8, <2>1
      <3>2. row[i].head \in Heads
        BY <1>2 DEF RowsOK, RowShape
      <3>3. "processing" \in Visible /\ "processing" \in Unfinished
        BY DEF Visible, Unfinished
      <3>4. s \notin head[row[i].head]
        BY <3>2 DEF ShownNow
      <3>5. PICK k \in Ids : /\ i < k /\ row[k].head = row[i].head
                             /\ row[k].status \in Visible
                             /\ s \in row[k].old \ row[k].new
        BY <1>2, <3>1, <3>3, <3>4 DEF RowsOK, Chained
      <3>6. row[k].status \in Untaken
        BY <1>2, <3>3, <3>5 DEF InOrder
      <3>7. row[k].status \in Open
        BY <3>5, <3>6 DEF Visible, Untaken, Open, Unfinished
      <3>8. k # i
        BY <3>5 DEF Ids
      <3> QED BY <1>15, <3>5, <3>7, <3>8 DEF WillRemove
    <2>2. CASE ~Planned(o, s)
      <3>1. WillRemove(s) \/ DroppedByBaseline(s)
        BY <1>7, <2>2 DEF GoneOK
      <3>2. CASE DroppedByBaseline(s)
        <4>1. PICK k \in Ids : /\ row[k].status = "completed" /\ row[k].profile = "baseline"
                               /\ s \in row[k].old \ row[k].new
          BY <3>2 DEF DroppedByBaseline
        <4> QED BY <1>2, <1>3, <4>1 DEF DroppedByBaseline
      <3>3. CASE WillRemove(s)
        <4>1. PICK k \in Ids : row[k].status \in Open /\ s \in row[k].old \ row[k].new
          BY <3>3 DEF WillRemove
        <4>2. CASE k # i
          BY <1>15, <4>1, <4>2 DEF WillRemove
        <4>3. CASE k = i /\ row[i].profile = "baseline"
          BY <1>2, <1>3, <4>1, <4>3 DEF DroppedByBaseline
        <4>4. CASE k = i /\ row[i].profile # "baseline"
          <5>1. PICK n \in Ids \ {i} : row[n].status \in Open /\ s \in row[n].old \ row[n].new
            BY <1>9, <2>2, <4>1, <4>4
          <5> QED BY <1>15, <5>1 DEF WillRemove
        <4> QED BY <4>2, <4>3, <4>4
      <3> QED BY <3>1, <3>2, <3>3
    <2> QED BY <2>1, <2>2
  <1> QED BY <1>14, <1>16, <1>17

LEMMA ProjectionStep ==
    ASSUME TypeOK, TypeOK', RowsOK, InOrder, LockOK, CurrentShape, PlansOK, ProjectionOK, [Next]_vars
    PROVE  ProjectionOK'
  <1>1. CASE UNCHANGED <<current, rebuilt>> /\ ~\E o \in Observers : Persist(o)
    <2>1. head' = head \/ \E i \in Ids : CommitPublication(i)
      BY DEF Next, vars, BeginPublication, ComesDue, Claim, Plan, Persist, FailRow, Crash, Pulse, Rebuild
    <2> QED BY <1>1, <2>1, RowNoReport, ProjectionKept DEF ProjectionOK
  <1>2. ASSUME NEW o \in Observers, Persist(o) PROVE ProjectionOK'
    <2>1. rebuilt' = rebuilt
      BY <1>2 DEF Persist
    <2> QED BY <1>2, <2>1, PersistKeepsProjection DEF ProjectionOK
  <1>3. ASSUME NEW o \in Observers, Rebuild(o), ~rebuilt' PROVE UNCHANGED <<current, rebuilt>>
    BY <1>3 DEF Rebuild, TypeOK
  <1>4. ASSUME NEW o \in Observers, Rebuild(o) PROVE ~\E p \in Observers : Persist(p)
    <2>1. \A p \in Observers : observer[p].pc = "idle"
      BY <1>4, ObserversAssumption DEF LockOK, Rebuild
    <2> QED BY <2>1 DEF Persist
  <1>5. ASSUME NEW o \in Observers, Rebuild(o) PROVE ProjectionOK'
    BY <1>1, <1>3, <1>4, <1>5 DEF ProjectionOK
  <1> QED BY <1>1, <1>2, <1>5, QuietSteps

-----------------------------------------------------------------------------
(* Theorems.                                                                 *)

LEMMA IInvInit == Init => IInv
  <1> SUFFICES ASSUME Init PROVE IInv
    OBVIOUS
  <1>1. /\ \A i \in Ids : row[i] = NoRow
        /\ \A s \in Things : current[s] = Unseen
        /\ \A h \in Heads : head[h] = {}
        /\ \A o \in Observers : observer[o] = Idle
        /\ events = {} /\ watermark = 0
    BY DEF Init
  <1>2. /\ "free" \notin Visible /\ "free" \notin Unfinished /\ NoRow.status = "free"
        /\ NoRow.old = {} /\ Idle.pc = "idle"
    BY DEF Visible, Unfinished, NoRow, Idle
  <1>3. Unseen.status \notin Present
    BY DEF Unseen, Present
  <1>4. TypeOK
    <2>1. NoRow \in RowSet
      BY DEF NoRow, RowSet, Profiles
    <2>2. row \in [Ids -> RowSet]
      BY <2>1 DEF Init
    <2>3. Idle \in [pc : {"idle", "claimed", "planned"}, id : Nat, lease : Nat,
                    plan : SUBSET EventSet]
      BY DEF Idle
    <2>4. Unseen \in [status : {"none", "visible", "disappeared", "baseline_observed"},
                      mode : ModeNames \union {"none"}]
      BY DEF Unseen
    <2>5. current \in [Things -> [status : {"none", "visible", "disappeared", "baseline_observed"},
                                 mode : ModeNames \union {"none"}]]
      BY <2>4 DEF Init
    <2>6. observer \in [Observers -> [pc : {"idle", "claimed", "planned"}, id : Nat, lease : Nat,
                                     plan : SUBSET EventSet]]
      BY <2>3 DEF Init
    <2>7. /\ head \in [Heads -> SUBSET Things] /\ events \subseteq EventSet
          /\ watermark \in 0 .. MaxId /\ lock \in Observers \union {Nobody}
          /\ faults \in Nat /\ late \in BOOLEAN /\ rebuilt \in BOOLEAN
      <3>1. 0 \in 0 .. MaxId
        BY BoundsAssumption
      <3>2. head \in [Heads -> SUBSET Things]
        BY DEF Init
      <3> QED BY <3>1, <3>2 DEF Init
    <2> HIDE DEF Init
    <2> QED BY <2>2, <2>5, <2>6, <2>7 DEF TypeOK, RowSet
  <1>5. RowShape /\ OpenIsLast /\ Chained /\ InOrder
    BY <1>1, <1>2 DEF RowShape, OpenIsLast, Chained, InOrder
  <1>6. LockOK /\ PlansOK
    BY <1>1, <1>2 DEF LockOK, PlansOK
  <1>7. EventsOK /\ CurrentShape
    BY <1>1 DEF EventsOK, OneEventEach, CurrentShape
  <1>8. SeenOK /\ ShownOK /\ GoneOK
    BY <1>1, <1>2, <1>3 DEF SeenOK, ShownOK, GoneOK
  <1>9. WatermarkOK
    BY <1>1, BoundsAssumption DEF WatermarkOK, WatermarkSafe, Ids
  <1>10. RebuildAgrees
    BY <1>1 DEF Init, RebuildAgrees, Replayed
  <1> QED BY <1>4, <1>5, <1>6, <1>7, <1>8, <1>9, <1>10 DEF IInv, ProjectionOK

LEMMA RowsStep ==
    ASSUME TypeOK, RowsOK, InOrder, LockOK, [Next]_vars
    PROVE  RowsOK' /\ InOrder'
  <1>1. ASSUME NEW h \in Heads, NEW content \in SUBSET Things, NEW profile \in Profiles,
               BeginPublication(h, content, profile)
        PROVE  RowsOK' /\ InOrder'
    BY <1>1, BeginKeepsRows
  <1>2. ASSUME NEW i \in Ids, CommitPublication(i) PROVE RowsOK' /\ InOrder'
    BY <1>2, CommitKeepsRows
  <1>3. ASSUME NEW i \in Ids, ComesDue(i) PROVE RowsOK' /\ InOrder'
    BY <1>3, ComesDueWorks, WorkKeepsRows
  <1>4. ASSUME NEW o \in Observers, Claim(o) \/ Plan(o) \/ Persist(o) \/ FailRow(o)
        PROVE  RowsOK' /\ InOrder'
    <2>1. PICK i \in Ids : Work(i)
      BY <1>4, ClaimWorks, PlanWorks, PersistWorks, FailRowWorks DEF Work
    <2> QED BY <2>1, WorkKeepsRows
  <1>5. CASE UNCHANGED <<row, head, late>>
    BY <1>5 DEF RowsOK, RowShape, OpenIsLast, Chained, InOrder
  <1>6. ASSUME NEW o \in Observers, Crash(o) \/ Pulse(o) \/ Rebuild(o)
        PROVE  UNCHANGED <<row, head, late>>
    BY <1>6 DEF Crash, Pulse, Rebuild
  <1>7. CASE UNCHANGED vars
    BY <1>5, <1>7 DEF vars
  <1> QED BY <1>1, <1>2, <1>3, <1>4, <1>5, <1>6, <1>7 DEF Next

LEMMA IInvStep == IInv /\ [Next]_vars => IInv'
  <1> SUFFICES ASSUME IInv, [Next]_vars PROVE IInv'
    OBVIOUS
  <1>1. /\ TypeOK /\ RowsOK /\ InOrder /\ LockOK /\ EventsOK /\ CurrentShape
        /\ PlansOK /\ ProjectionOK /\ WatermarkOK /\ RebuildAgrees
    BY DEF IInv, RowsOK
  <1>2. TypeOK'
    BY <1>1, TypeStep
  <1>3. RowsOK' /\ InOrder'
    BY <1>1, RowsStep
  <1>4. LockOK'
    BY <1>1, LockStep
  <1>5. EventsOK' /\ CurrentShape' /\ PlansOK'
    BY <1>1, EventsStep, CurrentStep, PlansStep
  <1>6. ProjectionOK'
    BY <1>1, <1>2, ProjectionStep
  <1>7. WatermarkOK'
    BY <1>1, <1>2, <1>3, WatermarkStep
  <1>8. RebuildAgrees'
    BY <1>1, <1>2, <1>5, RebuildStep
  <1> QED BY <1>2, <1>3, <1>4, <1>5, <1>6, <1>7, <1>8 DEF IInv, RowsOK

LEMMA Invariance == Spec => []IInv
  BY IInvInit, IInvStep, PTL DEF Spec

\* Rows, events, projection and processes keep their types, whatever is published,
\* claimed, retried or killed.
THEOREM TypeCorrect == Spec => []TypeOK
  <1>1. IInv => TypeOK
    BY DEF IInv
  <1> QED BY <1>1, Invariance, PTL

\* Once the publications that concern a structure are observed, the projection says
\* of it what the heads show, up to baselines and rebuilds: a disappearance that was
\* judged by heads that have changed since always has another row to correct it.
THEOREM ProjectionIsExact == Spec => []ProjectionExact
  <1>1. ASSUME IInv PROVE ProjectionExact
    <2> SUFFICES ASSUME NEW s \in Things, Settled(s), ~rebuilt
                 PROVE  /\ ShownNow(s)
                           => current[s].status \in {"visible", "baseline_observed"}
                        /\ current[s].status \in {"visible", "baseline_observed"}
                           => ShownNow(s) \/ DroppedByBaseline(s)
      BY DEF ProjectionExact
    <2>1. SeenOK /\ ShownOK /\ GoneOK
      BY <1>1 DEF IInv, ProjectionOK
    <2>2. \A k \in Ids : s \in row[k].old \union row[k].new => row[k].status \notin Open
      BY DEF Settled, Open, Unfinished
    <2>3. ~WillRemove(s) /\ \A h : ~WillShow(s, h)
      BY <2>2 DEF WillRemove, WillShow
    <2> QED BY <2>1, <2>3 DEF ShownOK, GoneOK, ShownNow, Present
  <1> QED BY <1>1, Invariance, PTL

\* As long as rows are committed in the order of their ids, a rebuild from the events
\* gives the projection the observers keep.
THEOREM RebuildsAgree == Spec => []RebuildAgrees
  <1>1. IInv => RebuildAgrees
    BY DEF IInv
  <1> QED BY <1>1, Invariance, PTL

\* As long as rows are committed in the order of their ids, none at or below the
\* watermark is left unobserved.
THEOREM WatermarkIsSafe == Spec => []WatermarkSafe
  <1>1. IInv => WatermarkSafe
    BY DEF IInv, WatermarkOK
  <1> QED BY <1>1, Invariance, PTL

-----------------------------------------------------------------------------
(* The feed.                                                                 *)

headOfBar == [i \in Ids |-> IF row[i].status \in Visible THEN row[i].head ELSE NoHead]
observedBar == {i \in Ids : row[i].status = "completed"}
abandonedBar == {i \in Ids : row[i].status = "dead_letter"}

\* A step that finishes no row and commits none is not seen in the feed.
LEMMA FeedUnmoved ==
    ASSUME \A j \in Ids : /\ row'[j].status \in Visible <=> row[j].status \in Visible
                          /\ row'[j].status \in Visible => row'[j].head = row[j].head
                          /\ row'[j].status = "completed" <=> row[j].status = "completed"
                          /\ row'[j].status = "dead_letter" <=> row[j].status = "dead_letter",
           events' = events
    PROVE  UNCHANGED Feed!feedVars
  <1>1. headOfBar' = headOfBar
    BY DEF headOfBar
  <1>2. observedBar' = observedBar /\ abandonedBar' = abandonedBar
    BY DEF observedBar, abandonedBar
  <1> QED BY <1>1, <1>2 DEF Feed!feedVars, headOfBar, observedBar, abandonedBar

\* A row that has its turn has it in the feed.
LEMMA TurnInFeed ==
    ASSUME TypeOK, RowsOK, InOrder, NEW i \in Ids, row[i].status = "processing"
    PROVE  Feed!Turn(i)
  <1>1. "processing" \in Visible /\ "processing" \in Unfinished
    BY DEF Visible, Unfinished
  <1>2. row[i].head \in Heads
    BY DEF RowsOK, RowShape
  <1>3. headOfBar[i] # NoHead
    BY <1>1, <1>2, HeadsAssumption DEF headOfBar
  <1>4. i \notin observedBar \union abandonedBar
    BY DEF observedBar, abandonedBar
  <1>5. ASSUME NEW j \in Ids, j < i, headOfBar[j] = headOfBar[i]
        PROVE  j \in observedBar \union abandonedBar
    <2>1. row[j].status \in Visible /\ row[j].head = row[i].head
      BY <1>1, <1>3, <1>5 DEF headOfBar
    <2>2. row[j].status \notin Unfinished
      BY <1>5, <2>1 DEF InOrder, Untaken
    <2> QED BY <2>1, <2>2 DEF Visible, observedBar, abandonedBar
  <1> QED BY <1>3, <1>4, <1>5 DEF Feed!Turn, headOfBar, observedBar, abandonedBar

\* A commit publishes, a persisting process observes, a last failure abandons.
LEMMA FeedStep ==
    ASSUME TypeOK, RowsOK, InOrder, LockOK, PlansOK, [Next]_vars
    PROVE  [Feed!Next]_Feed!feedVars
  <1>0. /\ "completed" \notin Unfinished /\ "dead_letter" \notin Unfinished
        /\ "free" \notin Visible /\ "writing" \notin Visible /\ Unfinished \subseteq Visible
        /\ "pending" \in Unfinished /\ "failed" \in Unfinished /\ "processing" \in Unfinished
        /\ "completed" \in Visible /\ "dead_letter" \in Visible
    BY DEF Visible, Unfinished
  <1>1. ASSUME NEW i \in Ids, Work(i), events' = events,
               row'[i].status \notin {"completed", "dead_letter"}
        PROVE  UNCHANGED Feed!feedVars
    BY <1>0, <1>1, FeedUnmoved DEF Work, Same
  <1>2. ASSUME NEW h \in Heads, NEW content \in SUBSET Things, NEW profile \in Profiles,
               BeginPublication(h, content, profile)
        PROVE  UNCHANGED Feed!feedVars
    <2>1. events' = events
      BY <1>2 DEF BeginPublication
    <2>2. PICK i \in Ids : /\ row[i].status = "free" /\ row'[i].status = "writing"
                           /\ \A j \in Ids : j # i => row'[j] = row[j]
      BY <1>2, BeginIs
    <2>3. /\ row[i].status \notin Visible /\ row'[i].status \notin Visible
          /\ row[i].status \notin {"completed", "dead_letter"}
          /\ row'[i].status \notin {"completed", "dead_letter"}
      BY <1>0, <2>2
    <2> QED BY <2>1, <2>2, <2>3, FeedUnmoved
  <1>3. ASSUME NEW i \in Ids, CommitPublication(i) PROVE Feed!Next
    <2>1. /\ row[i].status = "writing" /\ row[i].head \in Heads
          /\ row'[i].head = row[i].head /\ row'[i].status = "pending"
          /\ \A j \in Ids : j # i => row'[j] = row[j]
      BY <1>3, CommitIs DEF RowsOK, Same
    <2>2. headOfBar[i] = NoHead
      BY <1>0, <2>1 DEF headOfBar
    <2>3. ASSUME NEW j \in Ids, headOfBar[j] = row[i].head PROVE j < i
      <3>1. row[j].status \in Visible /\ row[j].head = row[i].head
        BY <2>1, <2>3, HeadsAssumption DEF headOfBar
      <3>2. j <= i /\ j # i
        BY <1>0, <2>1, <3>1 DEF RowsOK, OpenIsLast
      <3> QED BY <3>2 DEF Ids
    <2>4. headOfBar' = [headOfBar EXCEPT ![i] = row[i].head]
      BY <1>0, <2>1 DEF headOfBar
    <2>5. observedBar' = observedBar /\ abandonedBar' = abandonedBar
      BY <1>0, <2>1 DEF observedBar, abandonedBar
    <2>6. events' = events
      BY <1>3 DEF CommitPublication
    <2>7. PICK h \in Heads : h = row[i].head
      BY <2>1
    <2>8. Feed!Publish(i, h)
      BY <2>2, <2>3, <2>4, <2>5, <2>6, <2>7 DEF Feed!Publish, headOfBar, observedBar, abandonedBar
    <2> QED BY <2>8 DEF Feed!Next
  <1>4. ASSUME NEW i \in Ids, ComesDue(i) PROVE UNCHANGED Feed!feedVars
    <2>1. events' = events /\ row[i].status \notin {"completed", "dead_letter"}
      BY <1>4 DEF ComesDue
    <2> QED BY <1>1, <1>4, <2>1, ComesDueWorks
  <1>5. ASSUME NEW o \in Observers, Claim(o) PROVE UNCHANGED Feed!feedVars
    <2>1. events' = events
      BY <1>5 DEF Claim
    <2> QED BY <1>1, <1>5, <2>1, ClaimWorks
  <1>6. ASSUME NEW o \in Observers, Plan(o) PROVE UNCHANGED Feed!feedVars
    <2>1. events' = events
      BY <1>6 DEF Plan
    <2>2. PICK i \in Ids : Work(i) /\ row'[i].status = "processing"
      BY <1>6, PlanWorks DEF Work
    <2> QED BY <1>1, <2>1, <2>2
  <1>7. ASSUME NEW o \in Observers, Persist(o) PROVE Feed!Next
    <2>1. PICK i, plan : i = observer[o].id /\ plan = observer[o].plan
      OBVIOUS
    <2>2. /\ i \in Ids /\ Same(i) /\ row[i].status = "processing" /\ row'[i].status = "completed"
          /\ \A e \in plan : e.pub = i
          /\ events' = events \union plan
      BY <1>7, <2>1, PersistIs
    <2>3. Feed!Turn(i)
      BY <2>2, TurnInFeed
    <2>4. headOfBar' = headOfBar
      BY <1>0, <2>2 DEF headOfBar, Same
    <2>5. observedBar' = observedBar \union {i} /\ abandonedBar' = abandonedBar
      BY <1>0, <2>2 DEF observedBar, abandonedBar, Same
    <2>6. Feed!Observe(i)
      BY <2>2, <2>3, <2>4, <2>5 DEF Feed!Observe, headOfBar, observedBar, abandonedBar
    <2> QED BY <2>2, <2>6, Zenon DEF Feed!Next
  <1>8. ASSUME NEW o \in Observers, FailRow(o) PROVE [Feed!Next]_Feed!feedVars
    <2>1. events' = events
      BY <1>8 DEF FailRow
    <2>2. PICK i \in Ids : /\ Work(i) /\ row[i].status = "processing"
                           /\ row'[i].status \in {"failed", "dead_letter"}
      BY <1>8, FailRowWorks DEF Work
    <2>3. CASE row'[i].status = "failed"
      BY <1>1, <2>1, <2>2, <2>3
    <2>4. CASE row'[i].status = "dead_letter"
      <3>1. Feed!Turn(i)
        BY <2>2, TurnInFeed
      <3>2. headOfBar' = headOfBar
        BY <1>0, <2>2, <2>4 DEF headOfBar, Work, Same
      <3>3. abandonedBar' = abandonedBar \union {i} /\ observedBar' = observedBar
        BY <1>0, <2>2, <2>4 DEF observedBar, abandonedBar, Work, Same
      <3>4. Feed!Abandon(i)
        BY <2>1, <3>1, <3>2, <3>3 DEF Feed!Abandon, headOfBar, observedBar, abandonedBar
      <3> QED BY <3>4 DEF Feed!Next
    <2> QED BY <2>2, <2>3, <2>4
  <1>9. CASE row' = row /\ events' = events
    BY <1>9, FeedUnmoved
  <1>10. ASSUME NEW o \in Observers, Crash(o) \/ Pulse(o) \/ Rebuild(o)
         PROVE  row' = row /\ events' = events
    BY <1>10 DEF Crash, Pulse, Rebuild
  <1>11. CASE UNCHANGED vars
    BY <1>9, <1>11 DEF vars
  <1> QED BY <1>2, <1>3, <1>4, <1>5, <1>6, <1>7, <1>8, <1>9, <1>10, <1>11 DEF Next

\* Every publication is observed or given up at most once, in the order of its head,
\* with its events written in the same step: the observers implement HeadFeed.
THEOREM FollowsFeed == Spec => FollowsHeads
  <1>1. Init => Feed!Init
    BY DEF Init, Feed!Init, NoRow, Visible, Unfinished
  <1>2. IInv /\ [Next]_vars => [Feed!Next]_Feed!feedVars
    BY FeedStep DEF IInv, RowsOK
  <1>3. Spec => Feed!Spec
    BY <1>1, <1>2, Invariance, PTL DEF Spec, Feed!Spec
  <1> QED BY <1>3 DEF FollowsHeads
=============================================================================
