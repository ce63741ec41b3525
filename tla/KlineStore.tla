------------------------------ MODULE KlineStore ------------------------------
(***************************************************************************)
(* The store of K-lines and what is derived from them in the transaction   *)
(* that writes them: the ingest watermark with its change_version, by      *)
(* which the tail stream notices new input, and the scope catalog, whose   *)
(* exact empty rows spare readers the K-lines.  A transaction (upsert,     *)
(* staged import, deletion, audit, bootstrap of the catalog) is a sequence *)
(* of statements that see what is committed when they start, as READ       *)
(* COMMITTED has it, and hold the rows they write until the commit.        *)
(*                                                                         *)
(* A transaction writes one scope.  Of a bar the model keeps updated_at:   *)
(* whether a stored bar gives way to a new one (source, completeness,      *)
(* revision) is not decided here, only that it may.                        *)
(***************************************************************************)
EXTENDS Integers, FiniteSets

CONSTANTS
    Scopes,   \* a symbol and a timeframe
    MaxEnd,   \* bar ends are 1 .. MaxEnd
    Procs,    \* connections
    MaxTx,    \* bound: the clock, which every transaction that changes bars advances
    MaxGen    \* bound: catalog generations

ASSUME BoundsAssumption == MaxEnd \in Nat /\ MaxTx \in Nat \ {0} /\ MaxGen \in Nat
ASSUME ScopesAssumption == Scopes # {}

VARIABLES
    bars,       \* klines, committed: the updated_at of each bar, 0 if there is none
    mark,       \* scheme2_ingest_watermarks: last_bar_end, change_version, updated_at
    generation, \* kline_scope_catalog_generations
    control,    \* kline_scope_catalog_control
    catalog,    \* kline_scope_catalog, committed
    tx,         \* what each connection's transaction has done so far
    clock,      \* the time that transactions read
    raced       \* history: catalog rows a deletion and a writer missed each other on

vars == <<bars, mark, generation, control, catalog, tx, clock, raced>>

Ends == 1 .. MaxEnd
Gens == 1 .. MaxGen

Lowest(S) == IF S = {} THEN 0 ELSE CHOOSE e \in S : \A f \in S : e <= f
Highest(S) == IF S = {} THEN 0 ELSE CHOOSE e \in S : \A f \in S : f <= e

Present(s) == {e \in Ends : bars[s][e] # 0}

Unknown == [state |-> "unknown", complete |-> FALSE, min |-> 0, max |-> 0, ver |-> 0]
NoRow == [Unknown EXCEPT !.state = "none"]
NoGeneration == [status |-> "none", active |-> 0, revision |-> 0]

Idle == [kind |-> "none", pc |-> "idle", scope |-> CHOOSE s \in Scopes : TRUE,
         stamp |-> 0, offered |-> {}, wrote |-> {}, removed |-> {},
         seen |-> [g \in Gens |-> NoRow], found |-> {},
         rows |-> [g \in Gens |-> NoRow], within |-> {}, overtaken |-> FALSE]

\* Some scopes hold bars already, one transaction's; there is no catalog yet.
Init ==
    /\ \E old \in [Scopes -> SUBSET Ends] :
         /\ bars = [s \in Scopes |-> [e \in Ends |-> IF e \in old[s] THEN 1 ELSE 0]]
         /\ mark = [s \in Scopes |->
                IF old[s] = {} THEN [last |-> 0, version |-> 0, stamp |-> 0]
                ELSE [last |-> Highest(old[s]), version |-> 1, stamp |-> 1]]
    /\ generation = [g \in Gens |-> NoGeneration]
    /\ control = [active |-> 0, revision |-> 0]
    /\ catalog = [g \in Gens |-> [s \in Scopes |-> NoRow]]
    /\ tx = [p \in Procs |-> Idle]
    /\ clock = 1
    /\ raced = {}

-----------------------------------------------------------------------------
(* What a statement of p sees and what it waits for. *)

\* Another transaction holds this bar, or this row of the catalog.  ON CONFLICT
\* DO UPDATE holds the stored bars that it decides to keep as well.
BarHeld(p, s, e) ==
    \E q \in Procs \ {p} : tx[q].scope = s /\ e \in tx[q].offered \union tx[q].removed
RowHeld(p, g, s) ==
    \E q \in Procs \ {p} : tx[q].scope = s /\ tx[q].rows[g] # NoRow

\* The control row is shared from the first catalog statement to the commit.
HoldsControl(p) == tx[p].pc \in {"scan", "cas", "invalidate", "commit"}

\* The rows of a scope that writers maintain: the building generation's and the
\* active one's.
Maintained(g) ==
    \/ generation[g].status = "building"
    \/ generation[g].status = "complete" /\ control.active = g

\* The rows that open writers of s left alone, since their bars are within.
Unaware(s) ==
    {<<g, s>> : g \in {k \in Gens :
        \E q \in Procs : tx[q].scope = s /\ k \in tx[q].within}}

Set(p, fields) == tx' = [tx EXCEPT ![p] = fields]

-----------------------------------------------------------------------------
(* Writers: _upsert_bars_rows and the staged imports. *)

\* What the statement of a writer makes of the bars it offers: every new one is
\* inserted, a stored one is replaced or kept, one that another transaction holds
\* is waited for.
Written(p, t) ==
    \E offered \in (SUBSET Ends) \ {{}} :
       /\ \A e \in offered : ~BarHeld(p, t.scope, e)
       /\ \E kept \in SUBSET (offered \intersect Present(t.scope)) :
            Set(p, [t EXCEPT !.pc = "record", !.offered = offered, !.wrote = offered \ kept])

\* pg_advisory_xact_lock: upserts of a scope exclude each other, and no one else.
\* Their updated_at is the clock_timestamp() of the statement.
Upsert(p, s) ==
    /\ tx[p].pc = "idle"
    /\ \A q \in Procs : ~(tx[q].kind = "upsert" /\ tx[q].scope = s)
    /\ clock < MaxTx
    /\ clock' = clock + 1
    /\ Written(p, [Idle EXCEPT !.kind = "upsert", !.scope = s, !.stamp = clock + 1])
    /\ UNCHANGED <<bars, mark, generation, control, catalog, raced>>

\* now() of an import is the start of its transaction.
BeginImport(p, s) ==
    /\ tx[p].pc = "idle"
    /\ clock < MaxTx
    /\ clock' = clock + 1
    /\ Set(p, [Idle EXCEPT !.kind = "import", !.pc = "write", !.scope = s,
                           !.stamp = clock + 1])
    /\ UNCHANGED <<bars, mark, generation, control, catalog, raced>>

Import(p) ==
    /\ tx[p].pc = "write"
    /\ Written(p, tx[p])
    /\ UNCHANGED <<bars, mark, generation, control, catalog, clock, raced>>

\* RECORD_PRESENT_SCOPE_SQL: the rows it selects, and what it makes of them.
Widens(row, lo, hi) ==
    /\ row.state # "none"
    /\ row.state # "present" \/ row.min = 0 \/ row.max = 0 \/ lo < row.min \/ row.max < hi

Widened(row, lo, hi) ==
    [state |-> "present",
     complete |-> row.state # "unknown" /\ row.complete,
     min |-> IF row.min = 0 THEN lo ELSE Lowest({row.min, lo}),
     max |-> Highest({row.max, hi}),
     ver |-> row.ver + 1]

\* record_present_scopes, under the control row that finalize_generation excludes.
Record(p) ==
    LET t == tx[p]
        lo == Lowest(t.offered)
        hi == Highest(t.offered)
        touched == {g \in Gens : Maintained(g) /\ Widens(catalog[g][t.scope], lo, hi)}
        within == {g \in Gens : Maintained(g)} \ touched
    IN  /\ t.pc = "record"
        /\ \A g \in touched : ~RowHeld(p, g, t.scope)
        /\ Set(p, [t EXCEPT !.pc = "commit", !.within = within,
                !.rows = [g \in Gens |-> IF g \in touched
                          THEN Widened(catalog[g][t.scope], lo, hi) ELSE NoRow]])
        /\ raced' = raced \union
               {<<g, t.scope>> : g \in {k \in within : \E q \in Procs :
                    tx[q].kind = "delete" /\ tx[q].scope = t.scope
                        /\ tx[q].pc \in {"cas", "invalidate", "commit"}}}
        /\ UNCHANGED <<bars, mark, generation, control, catalog, clock>>

-----------------------------------------------------------------------------
(* Deletions: delete_bars, and the repairs of kline_canonical_audit. *)

\* DELETE finds the bars that are committed when it starts ...
BeginDelete(p, s) ==
    /\ tx[p].pc = "idle"
    /\ clock < MaxTx
    /\ clock' = clock + 1
    /\ Set(p, [Idle EXCEPT !.kind = "delete", !.pc = "remove", !.scope = s,
                           !.found = Present(s)])
    /\ UNCHANGED <<bars, mark, generation, control, catalog, raced>>

\* ... and removes them once nobody else holds them.
Remove(p) ==
    LET t == tx[p]
    IN  /\ t.pc = "remove"
        /\ \A e \in t.found : ~BarHeld(p, t.scope, e)
        /\ Set(p, [t EXCEPT !.pc = "select", !.removed = t.found \intersect Present(t.scope),
                            !.found = {}])
        /\ UNCHANGED <<bars, mark, generation, control, catalog, clock, raced>>

\* _catalog_targets: the rows to refresh, with their versions.
Select(p) ==
    LET t == tx[p]
    IN  /\ t.pc = "select"
        /\ Set(p, [t EXCEPT !.pc = "scan",
               !.seen = [g \in Gens |-> IF Maintained(g) THEN catalog[g][t.scope] ELSE NoRow]])
        /\ UNCHANGED <<bars, mark, generation, control, catalog, clock, raced>>

\* apply_actions: the losing duplicates go, unless they changed meanwhile.  Some of
\* these bars are not losers but at the wrong end: _normalize_timestamp inserts them
\* at the right one, where no bar may be, with the transaction's now().
Audit(p, s) ==
    /\ tx[p].pc = "idle"
    /\ clock < MaxTx
    /\ clock' = clock + 1
    /\ \E losers \in SUBSET Present(s), moved \in SUBSET (Ends \ Present(s)) :
         /\ losers # {} /\ Cardinality(moved) <= Cardinality(losers)
         /\ \A e \in losers \union moved : ~BarHeld(p, s, e)
         /\ Set(p, [Idle EXCEPT !.kind = "audit", !.pc = "forget", !.scope = s,
                                !.stamp = clock + 1, !.offered = moved, !.wrote = moved,
                                !.removed = losers])
    /\ UNCHANGED <<bars, mark, generation, control, catalog, raced>>

-----------------------------------------------------------------------------
(* Exact bounds: refresh_scopes_exact and bootstrap_generation_batch. *)

\* A batch of one incomplete scope of the building generation.
Bootstrap(p, g, s) ==
    /\ tx[p].pc = "idle"
    /\ generation[g].status = "building"
    /\ ~catalog[g][s].complete
    /\ Set(p, [Idle EXCEPT !.kind = "bootstrap", !.pc = "scan", !.scope = s,
                           !.seen[g] = catalog[g][s]])
    /\ UNCHANGED <<bars, mark, generation, control, catalog, clock, raced>>

\* SCAN_SCOPES_SQL.
Scan(p) ==
    LET t == tx[p]
    IN  /\ t.pc = "scan"
        /\ Set(p, [t EXCEPT !.pc = "cas", !.found = Present(t.scope) \ t.removed])
        /\ raced' = IF t.kind = "delete" THEN raced \union Unaware(t.scope) ELSE raced
        /\ UNCHANGED <<bars, mark, generation, control, catalog, clock>>

\* Mutant: a scan that finds nothing is taken for present as well.
ExactPresent(S, ver) ==
    [state |-> "present", complete |-> TRUE,
     min |-> Lowest(S), max |-> Highest(S), ver |-> ver]

Exact(S, ver) ==
    [state |-> IF S = {} THEN "empty" ELSE "present", complete |-> TRUE,
     min |-> Lowest(S), max |-> Highest(S), ver |-> ver]

\* Mutant: the row is not compared with the version that was selected.
CurrentAny(row, seen) == row.state # "none"

\* CAS_EXACT_SCOPES_SQL and BOOTSTRAP_CAS_EXACT_SCOPES_SQL.
Current(row, seen) == row.ver = seen.ver

Cas(p) ==
    LET t == tx[p]
        targets == {g \in Gens : t.seen[g] # NoRow}
        current == {g \in targets : Current(catalog[g][t.scope], t.seen[g])}
    IN  /\ t.pc = "cas"
        /\ \A g \in current : ~RowHeld(p, g, t.scope)
        /\ Set(p, [t EXCEPT
               !.pc = IF t.kind = "delete" /\ current # targets THEN "invalidate" ELSE "commit",
               !.rows = [g \in Gens |-> IF g \in current
                         THEN Exact(t.found, t.seen[g].ver + 1) ELSE NoRow],
               !.found = {}, !.seen = Idle.seen])
        /\ UNCHANGED <<bars, mark, generation, control, catalog, clock, raced>>

\* invalidate_scopes: every maintained row, whatever it says by now.
Invalidate(p) ==
    LET t == tx[p]
        targets == {g \in Gens : Maintained(g) /\ catalog[g][t.scope] # NoRow}
        last(g) == IF t.rows[g] # NoRow THEN t.rows[g].ver ELSE catalog[g][t.scope].ver
    IN  /\ t.pc \in {"invalidate", "forget"}
        /\ \A g \in targets : ~RowHeld(p, g, t.scope)
        /\ Set(p, [t EXCEPT !.pc = "commit",
               !.rows = [g \in Gens |-> IF g \in targets
                         THEN [Unknown EXCEPT !.ver = last(g) + 1] ELSE t.rows[g]]])
        /\ UNCHANGED <<bars, mark, generation, control, catalog, clock, raced>>

-----------------------------------------------------------------------------
(* The end of a transaction, and its watermark. *)

\* Mutant: an earlier bar that was corrected does not count.
MarkedEndOnly(m, last, changed) ==
    [last |-> Highest({m.last, last}),
     version |-> m.version + (IF last > m.last THEN 1 ELSE 0),
     stamp |-> Highest({m.stamp, changed})]

\* _upsert_ingest_watermarks: a bar younger than the watermark is a change.
Marked(m, last, changed) ==
    [last |-> Highest({m.last, last}),
     version |-> m.version + (IF changed > m.stamp THEN 1 ELSE 0),
     stamp |-> Highest({m.stamp, changed})]

\* _upsert_watermarks_from_stage: updated_at is now(), the version stays.
Imported(m, last, now) == [m EXCEPT !.last = Highest({m.last, last}), !.stamp = now]

\* The range of an upsert as its transaction sees it.
Range(t) == Lowest(t.offered) .. Highest(t.offered)
Stored(t, e) == IF e \in t.wrote THEN t.stamp ELSE bars[t.scope][e]

Commit(p) ==
    LET t == tx[p]
        s == t.scope
        written == {Stored(t, e) : e \in Range(t) \intersect Ends}
    IN  /\ t.pc = "commit"
        /\ bars' = [bars EXCEPT ![s] = [e \in Ends |->
                IF e \in t.wrote THEN t.stamp
                ELSE IF e \in t.removed THEN 0 ELSE bars[s][e]]]
        /\ mark' = [mark EXCEPT ![s] =
                CASE t.kind = "upsert" ->
                       Marked(@, Highest({e \in Ends : e \in Range(t) /\ Stored(t, e) # 0}),
                              Highest(written))
                  [] t.kind = "import" -> Imported(@, Highest(t.offered), t.stamp)
                  [] OTHER -> @]
        /\ catalog' = [g \in Gens |-> [catalog[g] EXCEPT ![s] =
                IF t.rows[g] # NoRow THEN t.rows[g] ELSE @]]
        /\ tx' = [q \in Procs |->
                IF q = p THEN Idle
                ELSE IF /\ t.kind = "import"
                        /\ tx[q].kind = "upsert" /\ tx[q].scope = s
                        /\ tx[q].pc \in {"record", "commit"} /\ tx[q].stamp < t.stamp
                     THEN [tx[q] EXCEPT !.overtaken = TRUE] ELSE tx[q]]
        /\ raced' = IF t.kind = "audit" THEN raced \union Unaware(s) ELSE raced
        /\ UNCHANGED <<generation, control, clock>>

\* An error, a timeout or a lost connection; a member or page whose lease is lost.
Rollback(p) ==
    /\ tx[p].pc # "idle"
    /\ Set(p, Idle)
    /\ UNCHANGED <<bars, mark, generation, control, catalog, clock, raced>>

-----------------------------------------------------------------------------
(* Generations: each of these takes the control row for update. *)

Quiet == \A p \in Procs : ~HoldsControl(p)

CreateGeneration(g) ==
    /\ Quiet
    /\ generation[g].status = "none"
    /\ \A k \in Gens : k < g => generation[k].status # "none"
    /\ \A k \in Gens : generation[k].status # "building"
    /\ generation' = [generation EXCEPT ![g] =
           [status |-> "building", active |-> control.active, revision |-> control.revision]]
    /\ catalog' = [catalog EXCEPT ![g] = [s \in Scopes |-> Unknown]]
    /\ UNCHANGED <<bars, mark, control, tx, clock, raced>>

FinalizeGeneration(g) ==
    /\ Quiet
    /\ generation[g].status = "building"
    /\ generation[g].active = control.active
    /\ generation[g].revision = control.revision
    /\ \A s \in Scopes : catalog[g][s].complete
    /\ generation' = [k \in Gens |->
           IF k = g THEN [generation[k] EXCEPT !.status = "complete"]
           ELSE IF k = control.active THEN [generation[k] EXCEPT !.status = "superseded"]
           ELSE generation[k]]
    /\ control' = [active |-> g, revision |-> control.revision + 1]
    /\ UNCHANGED <<bars, mark, catalog, tx, clock, raced>>

\* fail_generation waits for a bootstrap, which shares the generation's row.
FailGeneration(g) ==
    /\ generation[g].status = "building"
    /\ \A p \in Procs : tx[p].kind # "bootstrap"
    /\ generation' = [generation EXCEPT ![g].status = "failed"]
    /\ UNCHANGED <<bars, mark, control, catalog, tx, clock, raced>>

-----------------------------------------------------------------------------
Next ==
    \/ \E p \in Procs, s \in Scopes :
         \/ Upsert(p, s) \/ BeginImport(p, s) \/ BeginDelete(p, s) \/ Audit(p, s)
         \/ \E g \in Gens : Bootstrap(p, g, s)
    \/ \E p \in Procs :
         \/ Import(p) \/ Record(p) \/ Remove(p) \/ Select(p) \/ Scan(p) \/ Cas(p)
         \/ Invalidate(p) \/ Commit(p) \/ Rollback(p)
    \/ \E g \in Gens : CreateGeneration(g) \/ FinalizeGeneration(g) \/ FailGeneration(g)

Spec == Init /\ [][Next]_vars

-----------------------------------------------------------------------------
(* Properties. *)

CatalogRow == [state : {"none", "unknown", "present", "empty"}, complete : BOOLEAN,
               min : 0 .. MaxEnd, max : 0 .. MaxEnd, ver : Nat]

Transaction ==
    [kind : {"none", "upsert", "import", "delete", "audit", "bootstrap"},
     pc : {"idle", "write", "record", "remove", "select", "forget", "scan", "cas",
           "invalidate", "commit"},
     scope : Scopes, stamp : 0 .. MaxTx, offered : SUBSET Ends, wrote : SUBSET Ends,
     removed : SUBSET Ends, seen : [Gens -> CatalogRow], found : SUBSET Ends,
     rows : [Gens -> CatalogRow], within : SUBSET Gens, overtaken : BOOLEAN]

\* The check constraints of the catalog, besides the types.
WellFormed(row) ==
    /\ row.state = "unknown" => ~row.complete /\ row.min = 0 /\ row.max = 0
    /\ row.state = "present" => row.min \in 1 .. row.max
    /\ row.state = "empty" => row.complete /\ row.min = 0 /\ row.max = 0

\* Types, and the check constraints of db/sql/040_kline_scope_catalog.sql.
TypeOK ==
    /\ bars \in [Scopes -> [Ends -> 0 .. MaxTx]]
    /\ mark \in [Scopes -> [last : 0 .. MaxEnd, version : Nat, stamp : 0 .. MaxTx]]
    /\ generation \in [Gens -> [status : {"none", "building", "complete", "superseded",
                                          "failed"},
                                active : 0 .. MaxGen, revision : Nat]]
    /\ control \in [active : 0 .. MaxGen, revision : Nat]
    /\ catalog \in [Gens -> [Scopes -> CatalogRow]]
    /\ \A g \in Gens, s \in Scopes : WellFormed(catalog[g][s])
    /\ tx \in [Procs -> Transaction]
    /\ clock \in 1 .. MaxTx
    /\ raced \subseteq Gens \X Scopes

(* A complete row of a maintained generation has the exact bounds of the     *)
(* committed K-lines, whoever inserts, corrects, scans or switches            *)
(* generations at the same time: a reader may trust "empty".  The exception  *)
(* is a row on which a deletion and a writer missed each other: the writer's *)
(* bar was within the old bounds, so it left the row and its version alone,  *)
(* and the deletion did not see the bar.                                     *)
CatalogExact ==
    \A g \in Gens, s \in Scopes :
        Maintained(g) /\ catalog[g][s].complete /\ <<g, s>> \notin raced =>
            /\ catalog[g][s].state = IF Present(s) = {} THEN "empty" ELSE "present"
            /\ catalog[g][s].min = Lowest(Present(s))
            /\ catalog[g][s].max = Highest(Present(s))

(* A committed upsert that changed a bar, however early, advances the change *)
(* version in the same step.  Bars change without it only by an import, a    *)
(* deletion or an audit, and by an upsert overtaken by an import that began  *)
(* after the upsert's statement: its now() is the younger timestamp.         *)
ChangesCount ==
    [][\A s \in Scopes :
         bars'[s] # bars[s] =>
           \/ mark'[s].version > mark[s].version
           \/ \E p \in Procs : /\ tx[p].pc = "commit" /\ tx'[p].pc = "idle"
                               /\ tx[p].kind # "upsert" \/ tx[p].overtaken]_vars
=============================================================================
