-------------------------- MODULE KlineStoreProofs --------------------------
(* Theorems of KlineStore, for any scopes, bar ends, connections, clocks and *)
(* generations.  The argument: a row of the catalog that another transaction *)
(* changes meanwhile has another version; a writer that leaves the row alone *)
(* has found it wide enough, and both of its bounds are bars; only a         *)
(* deletion makes a row narrower, and where it meets such a writer the row   *)
(* is one of raced.                                                          *)
EXTENDS KlineStore, NaturalsInduction, WellFoundedInduction, TLAPS

-----------------------------------------------------------------------------
(* The inductive invariant.                                                  *)

Writer(t) == t.kind \in {"upsert", "import"}

\* What a transaction of a kind has done by the time it is at a statement.
Shape(t) ==
    /\ t.kind = "none" <=> t.pc = "idle"
    /\ t.kind = "upsert" => t.pc \in {"record", "commit"}
    /\ t.kind = "import" => t.pc \in {"write", "record", "commit"}
    /\ t.kind = "delete" => t.pc \in {"remove", "select", "scan", "cas", "invalidate", "commit"}
    /\ t.kind = "audit" => t.pc \in {"forget", "commit"}
    /\ t.kind = "bootstrap" => t.pc \in {"scan", "cas", "commit"}
    /\ Writer(t) => t.stamp > 0 /\ (t.pc # "write" => t.offered # {})
    /\ ~Writer(t) => t.within = {} /\ (t.kind # "audit" => t.offered = {})
    /\ t.kind = "audit" => t.stamp > 0 /\ t.offered = t.wrote /\ t.wrote \intersect t.removed = {}
    /\ t.wrote \subseteq t.offered
    /\ t.kind \notin {"delete", "audit"} => t.removed = {}
    /\ t.pc # "commit" => t.within = {}
    /\ t.pc \notin {"scan", "cas"} => \A g \in Gens : t.seen[g] = NoRow
    /\ t.pc \notin {"invalidate", "commit"} => \A g \in Gens : t.rows[g] = NoRow

ShapeOK == \A p \in Procs : Shape(tx[p])

\* No time is later than the clock's, and no two writers have the same one.
ClockOK ==
    /\ \A s \in Scopes : mark[s].stamp <= clock /\ \A e \in Ends : bars[s][e] <= clock
    /\ \A p \in Procs : tx[p].stamp <= clock
    /\ \A p, q \in Procs : p # q /\ tx[p].stamp = tx[q].stamp => tx[p].stamp = 0

\* The upserts of a scope exclude each other, and one that no import has overtaken
\* is younger than its watermark.
UpsertOK ==
    \A p \in Procs : tx[p].kind = "upsert" =>
        /\ \A q \in Procs : tx[q].kind = "upsert" /\ tx[q].scope = tx[p].scope => q = p
        /\ ~tx[p].overtaken => mark[tx[p].scope].stamp < tx[p].stamp

\* A bar is in the hands of one transaction, and what a writer keeps is there.
BarsHeld ==
    /\ \A p, q \in Procs : p # q /\ tx[p].scope = tx[q].scope =>
         (tx[p].offered \union tx[p].removed) \intersect (tx[q].offered \union tx[q].removed) = {}
    /\ \A p \in Procs : tx[p].offered \ tx[p].wrote \subseteq Present(tx[p].scope)

\* So is a row of the catalog.
RowsHeld ==
    \A p, q \in Procs, g \in Gens :
        tx[p].scope = tx[q].scope /\ tx[p].rows[g] # NoRow /\ tx[q].rows[g] # NoRow => p = q

RowOK(row) == row = NoRow \/ (row.state # "none" /\ WellFormed(row))

\* Rows exist from the creation of their generation on, and versions grow.
RowsOK ==
    /\ \A g \in Gens, s \in Scopes :
         /\ RowOK(catalog[g][s])
         /\ catalog[g][s] = NoRow <=> generation[g].status = "none"
    /\ control.active \in Gens => generation[control.active].status # "none"
    /\ \A p \in Procs, g \in Gens :
         /\ RowOK(tx[p].rows[g])
         /\ tx[p].rows[g] # NoRow => /\ generation[g].status # "none"
                                     /\ catalog[g][tx[p].scope].ver < tx[p].rows[g].ver
         /\ tx[p].seen[g] # NoRow => /\ generation[g].status # "none"
                                     /\ tx[p].seen[g].ver <= catalog[g][tx[p].scope].ver

\* No maintained row is forgotten by a transaction that commits.
AllCovered ==
    \A p \in Procs, g \in Gens : Maintained(g) =>
        /\ Writer(tx[p]) /\ tx[p].pc = "commit" => tx[p].rows[g] # NoRow \/ g \in tx[p].within
        /\ tx[p].kind = "delete" /\ tx[p].pc \in {"scan", "cas"} => tx[p].seen[g] # NoRow
        /\ tx[p].kind \in {"delete", "audit"} /\ tx[p].pc = "commit" => tx[p].rows[g] # NoRow

\* A writer widens the row as it is.
WidenedOK ==
    \A p \in Procs, g \in Gens :
        Writer(tx[p]) /\ tx[p].rows[g] # NoRow =>
            tx[p].rows[g] = Widened(catalog[g][tx[p].scope], Lowest(tx[p].offered), Highest(tx[p].offered))

Kept(g, s) == Maintained(g) /\ <<g, s>> \notin raced

\* A row that a writer left alone is still wide enough, and no deletion that has
\* scanned the bars is about to change it.
WithinOK ==
    \A p \in Procs, g \in Gens :
        g \in tx[p].within /\ Kept(g, tx[p].scope) =>
            /\ catalog[g][tx[p].scope].state = "present"
            /\ catalog[g][tx[p].scope].min <= Lowest(tx[p].offered)
            /\ Highest(tx[p].offered) <= catalog[g][tx[p].scope].max
            /\ \A q \in Procs : ~ /\ tx[q].kind = "delete" /\ tx[q].scope = tx[p].scope
                                  /\ tx[q].pc \in {"cas", "invalidate", "commit"}

\* Both bounds of a row are bars.
BoundsAreBars ==
    \A g \in Gens, s \in Scopes :
        Kept(g, s) /\ catalog[g][s].state = "present" =>
            catalog[g][s].min \in Present(s) /\ catalog[g][s].max \in Present(s)

SameBounds(S, T) == /\ S = {} <=> T = {}
                    /\ Lowest(S) = Lowest(T) /\ Highest(S) = Highest(T)

Rest(p) == Present(tx[p].scope) \ tx[p].removed

\* What was scanned is exact until the row changes, also when it is written.
ScannedOK ==
    \A p \in Procs, g \in Gens : ~Writer(tx[p]) /\ Kept(g, tx[p].scope) =>
        /\ tx[p].pc = "cas" /\ tx[p].seen[g] # NoRow /\ tx[p].seen[g].ver = catalog[g][tx[p].scope].ver
             => SameBounds(tx[p].found, Rest(p))
        /\ tx[p].pc = "commit" /\ tx[p].rows[g] # NoRow =>
             \/ tx[p].kind # "bootstrap" /\ tx[p].rows[g].state = "unknown"
             \/ tx[p].kind # "audit" /\ tx[p].rows[g] = Exact(Rest(p), tx[p].rows[g].ver)

IInv ==
    /\ TypeOK /\ ShapeOK /\ ClockOK /\ UpsertOK /\ BarsHeld /\ RowsHeld /\ RowsOK
    /\ AllCovered /\ WidenedOK /\ WithinOK /\ BoundsAreBars /\ ScannedOK /\ CatalogExact

-----------------------------------------------------------------------------
(* Operators.                                                                *)

LEMMA LowestIs ==
    ASSUME NEW S \in SUBSET Nat, S # {}
    PROVE  Lowest(S) \in S /\ \A f \in S : Lowest(S) <= f
  <1>1. PICK n \in S : \A k \in S : ~ (<<k, n>> \in OpToRel(<, Nat))
    BY WFMin, NatLessThanWellFounded
  <1>2. \A k \in S : n <= k
    <2> SUFFICES ASSUME NEW k \in S, k < n PROVE FALSE
      OBVIOUS
    <2>1. <<k, n>> \in OpToRel(<, Nat)
      BY DEF OpToRel
    <2> QED BY <1>1, <2>1
  <1> DEFINE low == CHOOSE e \in S : \A f \in S : e <= f
  <1>3. low \in S /\ \A f \in S : low <= f
    BY <1>2
  <1>4. Lowest(S) = low
    BY DEF Lowest
  <1> HIDE DEF low
  <1> QED BY <1>3, <1>4

LEMMA HighestIs ==
    ASSUME NEW n \in Nat, NEW S \in SUBSET (0 .. n), S # {}
    PROVE  Highest(S) \in S /\ \A f \in S : f <= Highest(S)
  <1> DEFINE T == {k \in Nat : n - k \in S}
  <1>1. \A e \in S : n - e \in T
    OBVIOUS
  <1>2. T \in SUBSET Nat /\ T # {}
    BY <1>1
  <1> HIDE DEF T
  <1>3. PICK low \in T : \A k \in T : low <= k
    BY <1>2, LowestIs
  <1>4. n - low \in S
    BY <1>3 DEF T
  <1>5. \A e \in S : e <= n - low
    BY <1>1, <1>2, <1>3
  <1> DEFINE high == CHOOSE e \in S : \A f \in S : f <= e
  <1>6. high \in S /\ \A f \in S : f <= high
    BY <1>4, <1>5
  <1>7. Highest(S) = high
    BY DEF Highest
  <1> HIDE DEF high
  <1> QED BY <1>6, <1>7

\* The bounds of a set of bar ends.
LEMMA BoundsAre ==
    ASSUME NEW S \in SUBSET Ends
    PROVE  /\ S = {} => Lowest(S) = 0 /\ Highest(S) = 0
           /\ S # {} => /\ Lowest(S) \in S /\ Highest(S) \in S
                        /\ \A e \in S : Lowest(S) <= e /\ e <= Highest(S)
           /\ Lowest(S) \in 0 .. MaxEnd /\ Highest(S) \in 0 .. MaxEnd
  <1>1. S \in SUBSET Nat /\ S \in SUBSET (0 .. MaxEnd) /\ MaxEnd \in Nat
    BY BoundsAssumption DEF Ends
  <1>2. CASE S = {}
    BY <1>1, <1>2 DEF Lowest, Highest
  <1>3. CASE S # {}
    <2>1. Lowest(S) \in S /\ \A f \in S : Lowest(S) <= f
      BY <1>1, <1>3, LowestIs
    <2>2. Highest(S) \in S /\ \A f \in S : f <= Highest(S)
      BY <1>1, <1>3, HighestIs
    <2> QED BY <1>1, <1>3, <2>1, <2>2
  <1> QED BY <1>2, <1>3

\* A set that is bounded by members of another one within it has the same bounds.
LEMMA SameBoundsIf ==
    ASSUME NEW S \in SUBSET Ends, NEW T \in SUBSET Ends, S \subseteq T,
           \A e \in T : \E f \in S : f <= e, \A e \in T : \E f \in S : e <= f
    PROVE  SameBounds(S, T)
  <1>1. CASE T = {}
    BY <1>1 DEF SameBounds
  <1>2. CASE T # {}
    <2>1. S # {}
      BY <1>2
    <2>2. /\ Lowest(S) \in S /\ Highest(S) \in S /\ Lowest(T) \in T /\ Highest(T) \in T
          /\ \A e \in S : Lowest(S) <= e /\ e <= Highest(S)
          /\ \A e \in T : Lowest(T) <= e /\ e <= Highest(T)
      BY <1>2, <2>1, BoundsAre
    <2>3. S \subseteq Int /\ T \subseteq Int
      BY BoundsAssumption DEF Ends
    <2>4. PICK a \in S, b \in T : /\ a = Lowest(S) /\ \A e \in S : a <= e
                                  /\ b = Lowest(T) /\ \A e \in T : b <= e
      BY <2>2
    <2>5. PICK c \in S, d \in T : /\ c = Highest(S) /\ \A e \in S : e <= c
                                  /\ d = Highest(T) /\ \A e \in T : e <= d
      BY <2>2
    <2>6. PICK f \in S : f <= b
      OBVIOUS
    <2>7. PICK h \in S : d <= h
      OBVIOUS
    <2>8. a = b
      <3>1. a \in Int /\ b \in Int /\ f \in Int
        BY <2>3
      <3>2. a <= f /\ f <= b
        BY <2>4, <2>6
      <3>3. b <= a
        BY <2>4
      <3> QED BY <3>1, <3>2, <3>3
    <2>9. c = d
      <3>1. c \in Int /\ d \in Int /\ h \in Int
        BY <2>3
      <3>2. h <= c /\ d <= h
        BY <2>5, <2>7
      <3>3. c <= d
        BY <2>5
      <3> QED BY <3>1, <3>2, <3>3
    <2> QED BY <1>2, <2>1, <2>4, <2>5, <2>8, <2>9 DEF SameBounds
  <1> QED BY <1>1, <1>2

LEMMA PairIs ==
    ASSUME NEW a \in 0 .. MaxEnd, NEW b \in 0 .. MaxEnd
    PROVE  /\ Lowest({a, b}) = IF a <= b THEN a ELSE b
           /\ Highest({a, b}) = IF a <= b THEN b ELSE a
  <1>1. {a, b} \in SUBSET Nat /\ {a, b} \in SUBSET (0 .. MaxEnd) /\ {a, b} # {} /\ MaxEnd \in Nat
    BY BoundsAssumption
  <1>2. Lowest({a, b}) \in {a, b} /\ \A f \in {a, b} : Lowest({a, b}) <= f
    BY <1>1, LowestIs
  <1>3. Highest({a, b}) \in {a, b} /\ \A f \in {a, b} : f <= Highest({a, b})
    BY <1>1, HighestIs
  <1> QED BY <1>1, <1>2, <1>3

\* A widened row covers what it covered and the new bars, and its bounds are theirs.
LEMMA WidenedIs ==
    ASSUME NEW row \in CatalogRow, row.state # "none", WellFormed(row),
           NEW lo \in Ends, NEW hi \in Ends, lo <= hi
    PROVE  LET new == Widened(row, lo, hi) IN
           /\ new \in CatalogRow /\ WellFormed(new) /\ new.state = "present" /\ new.ver = row.ver + 1
           /\ new.complete = (row.state # "unknown" /\ row.complete)
           /\ row.state # "present" => new.min = lo /\ new.max = hi
           /\ row.state = "present" => /\ new.min = IF row.min <= lo THEN row.min ELSE lo
                                       /\ new.max = IF row.max <= hi THEN hi ELSE row.max
  <1>1. /\ MaxEnd \in Nat /\ lo \in 1 .. MaxEnd /\ hi \in 1 .. MaxEnd /\ lo \in 0 .. MaxEnd /\ hi \in 0 .. MaxEnd
        /\ row.min \in 0 .. MaxEnd /\ row.max \in 0 .. MaxEnd /\ row.ver \in Nat /\ row.complete \in BOOLEAN
        /\ row.state \in {"unknown", "present", "empty"}
    BY BoundsAssumption DEF Ends, CatalogRow
  <1>2. /\ row.state # "present" => row.min = 0 /\ row.max = 0
        /\ row.state = "present" => 1 <= row.min /\ row.min <= row.max
    BY <1>1 DEF WellFormed
  <1>3. PICK low \in 0 .. MaxEnd : low = (IF row.min = 0 THEN lo ELSE Lowest({row.min, lo}))
        /\ (row.state # "present" => low = lo)
        /\ (row.state = "present" => low = IF row.min <= lo THEN row.min ELSE lo)
    BY <1>1, <1>2, PairIs
  <1>4. PICK high \in 0 .. MaxEnd : high = Highest({row.max, hi})
        /\ (row.state # "present" => high = hi)
        /\ (row.state = "present" => high = IF row.max <= hi THEN hi ELSE row.max)
    <2>1. Highest({row.max, hi}) = IF row.max <= hi THEN hi ELSE row.max
      BY <1>1, PairIs
    <2> QED BY <1>1, <1>2, <2>1
  <1>5. PICK cpl \in BOOLEAN : cpl = (row.state # "unknown" /\ row.complete)
    OBVIOUS
  <1>6. Widened(row, lo, hi) = [state |-> "present", complete |-> cpl, min |-> low, max |-> high,
                                ver |-> row.ver + 1]
    BY <1>3, <1>4, <1>5 DEF Widened
  <1>7. low \in 1 .. high
    BY <1>1, <1>2, <1>3, <1>4
  <1> QED BY <1>1, <1>3, <1>4, <1>5, <1>6, <1>7 DEF CatalogRow, WellFormed

LEMMA ExactIs ==
    ASSUME NEW S \in SUBSET Ends, NEW ver \in Nat
    PROVE  LET new == Exact(S, ver) IN
           /\ new \in CatalogRow /\ WellFormed(new) /\ new.state # "none" /\ new.ver = ver /\ new.complete
           /\ new.state = IF S = {} THEN "empty" ELSE "present"
           /\ new.min = Lowest(S) /\ new.max = Highest(S)
  <1>1. /\ Lowest(S) \in 0 .. MaxEnd /\ Highest(S) \in 0 .. MaxEnd
        /\ S = {} => Lowest(S) = 0 /\ Highest(S) = 0
    BY BoundsAre
  <1>2. S # {} => Lowest(S) \in 1 .. Highest(S)
    BY BoundsAre, BoundsAssumption DEF Ends
  <1> QED BY <1>1, <1>2 DEF Exact, CatalogRow, WellFormed

LEMMA RowsAre ==
    /\ NoRow.state = "none" /\ NoRow.ver = 0 /\ ~NoRow.complete
    /\ NoRow \in CatalogRow /\ WellFormed(NoRow)
    /\ Unknown \in CatalogRow /\ WellFormed(Unknown) /\ Unknown # NoRow
    /\ \A v \in Nat : LET new == [Unknown EXCEPT !.ver = v] IN
           new \in CatalogRow /\ WellFormed(new) /\ new.state = "unknown" /\ ~new.complete /\ new.ver = v
  <1>1. PICK no \in BOOLEAN : no = FALSE
    OBVIOUS
  <1>2. PICK u : u = [state |-> "unknown", complete |-> no, min |-> 0, max |-> 0, ver |-> 0]
    OBVIOUS
  <1>3. u = Unknown
    BY <1>1, <1>2, Zenon DEF Unknown
  <1>4. u \in CatalogRow
    BY <1>2, BoundsAssumption DEF CatalogRow
  <1>5. [u EXCEPT !.state = "none"]
           = [state |-> "none", complete |-> no, min |-> 0, max |-> 0, ver |-> 0]
    BY <1>2
  <1>6. NoRow = [state |-> "none", complete |-> no, min |-> 0, max |-> 0, ver |-> 0]
    BY <1>5, <1>3 DEF NoRow
  <1>7. NoRow \in CatalogRow /\ WellFormed(NoRow)
    BY <1>6, BoundsAssumption DEF CatalogRow, WellFormed
  <1>8. Unknown \in CatalogRow /\ WellFormed(Unknown) /\ Unknown # NoRow
    BY <1>1, <1>2, <1>6, <1>3, <1>4 DEF WellFormed
  <1>9. ASSUME NEW v \in Nat
        PROVE  LET new == [Unknown EXCEPT !.ver = v] IN
               new \in CatalogRow /\ WellFormed(new) /\ new.state = "unknown" /\ ~new.complete /\ new.ver = v
    <2>1. [u EXCEPT !.ver = v]
             = [state |-> "unknown", complete |-> no, min |-> 0, max |-> 0, ver |-> v]
      BY <1>2
    <2>2. PICK w : w = [state |-> "unknown", complete |-> no, min |-> 0, max |-> 0, ver |-> v]
      OBVIOUS
    <2>3. w \in CatalogRow
      BY <2>2, BoundsAssumption DEF CatalogRow
    <2>4. w.state = "unknown" /\ ~w.complete /\ w.min = 0 /\ w.max = 0 /\ w.ver = v
      BY <1>1, <2>2
    <2>5. w = [Unknown EXCEPT !.ver = v]
      BY <1>3, <2>1, <2>2
    <2> QED BY <2>3, <2>4, <2>5 DEF WellFormed
  <1> QED BY <1>1, <1>6, <1>7, <1>8, <1>9

-----------------------------------------------------------------------------
(* Statements.                                                               *)

LEMMA IdleIs ==
    /\ Idle \in Transaction
    /\ Idle.kind = "none" /\ Idle.pc = "idle" /\ Idle.stamp = 0 /\ Idle.scope \in Scopes
    /\ Idle.offered = {} /\ Idle.wrote = {} /\ Idle.removed = {} /\ Idle.within = {} /\ Idle.found = {}
    /\ ~Idle.overtaken
    /\ \A g \in Gens : Idle.seen[g] = NoRow /\ Idle.rows[g] = NoRow
    /\ Idle.seen \in [Gens -> CatalogRow]
  <1>1. PICK s \in Scopes : s = CHOOSE x \in Scopes : TRUE
    BY ScopesAssumption
  <1>2. NoRow \in CatalogRow
    BY RowsAre
  <1>3. PICK none \in [Gens -> CatalogRow] : none = [g \in Gens |-> NoRow]
    BY <1>2
  <1>4. PICK no \in BOOLEAN : no = FALSE
    OBVIOUS
  <1>5. PICK u : u = [kind |-> "none", pc |-> "idle", scope |-> s, stamp |-> 0, offered |-> {},
                      wrote |-> {}, removed |-> {}, seen |-> none, found |-> {}, rows |-> none,
                      within |-> {}, overtaken |-> no]
    OBVIOUS
  <1>6. Idle = u
    BY <1>1, <1>3, <1>4, <1>5, Zenon DEF Idle
  <1>7. u \in Transaction
    BY <1>3, <1>5, BoundsAssumption DEF Transaction
  <1> QED BY <1>3, <1>4, <1>5, <1>6, <1>7

\* A statement of p changes what p has done, and nothing that is committed.
OnlyTx(p) ==
    /\ \A q \in Procs : q # p => tx'[q] = tx[q]
    /\ tx' \in [Procs -> Transaction]
    /\ UNCHANGED <<bars, mark, generation, control, catalog>>
    /\ clock <= clock' /\ clock' \in 1 .. MaxTx
    /\ raced \subseteq raced' /\ raced' \subseteq Gens \X Scopes

LEMMA SetIs ==
    ASSUME TypeOK, NEW p \in Procs, NEW u \in Transaction, Set(p, u)
    PROVE  tx'[p] = u /\ tx' \in [Procs -> Transaction] /\ \A q \in Procs : q # p => tx'[q] = tx[q]
  BY DEF Set, TypeOK

\* The transaction says nothing of the catalog.
Blank(t) == t.within = {} /\ \A g \in Gens : t.seen[g] = NoRow /\ t.rows[g] = NoRow

Begun(p, s) ==
    /\ OnlyTx(p)
    /\ tx[p].pc = "idle"
    /\ tx'[p].scope = s
    /\ ~tx'[p].overtaken

\* What the statement of a writer leaves behind it.
HasWritten(p, s) ==
    /\ tx'[p].pc = "record" /\ tx'[p].removed = {} /\ Blank(tx'[p])
    /\ tx'[p].offered # {} /\ tx'[p].wrote \subseteq tx'[p].offered
    /\ tx'[p].offered \ tx'[p].wrote \subseteq Present(s)
    /\ \A e \in tx'[p].offered : ~BarHeld(p, s, e)

LEMMA WrittenIs ==
    ASSUME TypeOK, NEW p \in Procs, NEW t \in Transaction, Written(p, t), t.removed = {}, Blank(t)
    PROVE  /\ HasWritten(p, t.scope) /\ tx' \in [Procs -> Transaction]
           /\ tx'[p].kind = t.kind /\ tx'[p].scope = t.scope /\ tx'[p].stamp = t.stamp
           /\ tx'[p].overtaken = t.overtaken
           /\ \A q \in Procs : q # p => tx'[q] = tx[q]
  <1>1. PICK offered \in (SUBSET Ends) \ {{}} :
          /\ \A e \in offered : ~BarHeld(p, t.scope, e)
          /\ \E kept \in SUBSET (offered \intersect Present(t.scope)) :
               Set(p, [t EXCEPT !.pc = "record", !.offered = offered, !.wrote = offered \ kept])
    BY DEF Written
  <1>2. PICK kept \in SUBSET (offered \intersect Present(t.scope)) :
          Set(p, [t EXCEPT !.pc = "record", !.offered = offered, !.wrote = offered \ kept])
    BY <1>1
  <1>3. PICK wrote \in SUBSET Ends : wrote = offered \ kept
    BY <1>1
  <1>4. PICK u : u = [t EXCEPT !.pc = "record", !.offered = offered, !.wrote = wrote]
    OBVIOUS
  <1>5. u \in Transaction
    BY <1>4, <1>1, <1>3 DEF Transaction
  <1>6. /\ u.pc = "record" /\ u.offered = offered /\ u.wrote = wrote
        /\ u.kind = t.kind /\ u.scope = t.scope /\ u.stamp = t.stamp /\ u.removed = t.removed
        /\ u.seen = t.seen /\ u.rows = t.rows /\ u.within = t.within /\ u.overtaken = t.overtaken
    BY <1>4 DEF Transaction
  <1>7. Set(p, u)
    BY <1>4, <1>2, <1>3, <1>6
  <1>8. tx'[p] = u /\ tx' \in [Procs -> Transaction] /\ \A q \in Procs : q # p => tx'[q] = tx[q]
    BY <1>7, <1>5, SetIs
  <1>9. offered # {} /\ wrote \subseteq offered /\ offered \ wrote \subseteq Present(t.scope)
    <2>1. offered # {}
      <3>1. offered \notin {{}}
        OBVIOUS
      <3> QED BY <3>1, Zenon
    <2>2. kept \subseteq Present(t.scope)
      BY <1>2
    <2>3. wrote \subseteq offered /\ offered \ wrote \subseteq kept
      BY <1>3
    <2> QED BY <2>1, <2>3, <2>2
  <1>10. HasWritten(p, t.scope)
    BY <1>1, <1>6, <1>8, <1>9 DEF HasWritten, Blank
  <1> QED BY <1>6, <1>8, <1>10

LEMMA UpsertIs ==
    ASSUME TypeOK, NEW p \in Procs, NEW s \in Scopes, Upsert(p, s)
    PROVE  /\ Begun(p, s) /\ HasWritten(p, s) /\ clock' = clock + 1
           /\ tx'[p].kind = "upsert" /\ tx'[p].stamp = clock'
           /\ \A q \in Procs : ~(tx[q].kind = "upsert" /\ tx[q].scope = s)
  <1>1. clock < MaxTx /\ clock' = clock + 1 /\ clock \in 1 .. MaxTx /\ MaxTx \in Nat
    BY BoundsAssumption DEF Upsert, TypeOK
  <1>2. PICK stamp \in 0 .. MaxTx : stamp = clock + 1
    BY <1>1
  <1>3. Idle \in Transaction
    BY IdleIs
  <1>4. PICK t : t = [Idle EXCEPT !.kind = "upsert", !.scope = s, !.stamp = stamp]
    OBVIOUS
  <1>5. t \in Transaction
    BY <1>4, <1>3 DEF Transaction
  <1>6. /\ t.kind = "upsert" /\ t.scope = s /\ t.stamp = stamp /\ t.removed = Idle.removed
        /\ t.seen = Idle.seen /\ t.rows = Idle.rows /\ t.within = Idle.within
        /\ t.overtaken = Idle.overtaken
    BY <1>4, <1>3 DEF Transaction
  <1>7. Written(p, t)
    BY <1>4, <1>2, <1>6 DEF Upsert
  <1>8. t.removed = {} /\ Blank(t) /\ ~t.overtaken
    BY <1>6, IdleIs DEF Blank
  <1>9. /\ HasWritten(p, s) /\ tx' \in [Procs -> Transaction]
        /\ tx'[p].kind = "upsert" /\ tx'[p].scope = s /\ tx'[p].stamp = stamp /\ ~tx'[p].overtaken
        /\ \A q \in Procs : q # p => tx'[q] = tx[q]
    BY <1>6, <1>7, <1>8, <1>5, WrittenIs
  <1> QED BY <1>1, <1>2, <1>9 DEF Upsert, Begun, OnlyTx, TypeOK

LEMMA BeginImportIs ==
    ASSUME TypeOK, NEW p \in Procs, NEW s \in Scopes, BeginImport(p, s)
    PROVE  /\ Begun(p, s) /\ clock' = clock + 1 /\ Blank(tx'[p])
           /\ tx'[p].kind = "import" /\ tx'[p].pc = "write" /\ tx'[p].stamp = clock'
           /\ tx'[p].offered = {} /\ tx'[p].wrote = {} /\ tx'[p].removed = {}
  <1>1. clock < MaxTx /\ clock' = clock + 1 /\ clock \in 1 .. MaxTx /\ MaxTx \in Nat
    BY BoundsAssumption DEF BeginImport, TypeOK
  <1>2. PICK stamp \in 0 .. MaxTx : stamp = clock + 1
    BY <1>1
  <1>3. Idle \in Transaction
    BY IdleIs
  <1>4. PICK t : t = [Idle EXCEPT !.kind = "import", !.pc = "write", !.scope = s, !.stamp = stamp]
    OBVIOUS
  <1>5. t \in Transaction
    BY <1>4, <1>3 DEF Transaction
  <1>6. /\ t.kind = "import" /\ t.pc = "write" /\ t.scope = s /\ t.stamp = stamp
        /\ t.offered = Idle.offered /\ t.wrote = Idle.wrote /\ t.removed = Idle.removed
        /\ t.seen = Idle.seen /\ t.rows = Idle.rows /\ t.within = Idle.within
        /\ t.overtaken = Idle.overtaken
    BY <1>4, <1>3 DEF Transaction
  <1>7. Set(p, t)
    BY <1>4, <1>2, <1>6 DEF BeginImport
  <1>8. Blank(t)
    BY <1>6, IdleIs DEF Blank
  <1>9. tx'[p] = t /\ tx' \in [Procs -> Transaction] /\ \A q \in Procs : q # p => tx'[q] = tx[q]
    BY <1>7, <1>5, SetIs
  <1> QED BY <1>1, <1>2, <1>6, <1>8, <1>9, IdleIs DEF BeginImport, Begun, OnlyTx, TypeOK

\* A deletion starts without a stamp of its own.
LEMMA BeginDeleteIs ==
    ASSUME TypeOK, NEW p \in Procs, NEW s \in Scopes, BeginDelete(p, s)
    PROVE  /\ Begun(p, s) /\ Blank(tx'[p])
           /\ tx'[p].kind = "delete" /\ tx'[p].pc = "remove" /\ tx'[p].stamp = 0
           /\ tx'[p].offered = {} /\ tx'[p].wrote = {} /\ tx'[p].removed = {}
  <1>1. clock < MaxTx /\ clock' = clock + 1 /\ clock \in 1 .. MaxTx /\ MaxTx \in Nat
    BY BoundsAssumption DEF BeginDelete, TypeOK
  <1>2. PICK found \in SUBSET Ends : found = Present(s)
    BY DEF Present
  <1>3. Idle \in Transaction
    BY IdleIs
  <1>4. PICK t : t = [Idle EXCEPT !.kind = "delete", !.pc = "remove", !.scope = s, !.found = found]
    OBVIOUS
  <1>5. t \in Transaction
    BY <1>4, <1>3 DEF Transaction
  <1>6. /\ t.kind = "delete" /\ t.pc = "remove" /\ t.scope = s /\ t.stamp = Idle.stamp
        /\ t.offered = Idle.offered /\ t.wrote = Idle.wrote /\ t.removed = Idle.removed
        /\ t.seen = Idle.seen /\ t.rows = Idle.rows /\ t.within = Idle.within
        /\ t.overtaken = Idle.overtaken
    BY <1>4, <1>3 DEF Transaction
  <1>7. Set(p, t)
    BY <1>4, <1>2, <1>6 DEF BeginDelete
  <1>8. Blank(t)
    BY <1>6, IdleIs DEF Blank
  <1>9. tx'[p] = t /\ tx' \in [Procs -> Transaction] /\ \A q \in Procs : q # p => tx'[q] = tx[q]
    BY <1>7, <1>5, SetIs
  <1> QED BY <1>1, <1>6, <1>8, <1>9, IdleIs DEF BeginDelete, Begun, OnlyTx, TypeOK

LEMMA AuditIs ==
    ASSUME TypeOK, NEW p \in Procs, NEW s \in Scopes, Audit(p, s)
    PROVE  /\ Begun(p, s) /\ clock' = clock + 1 /\ Blank(tx'[p])
           /\ tx'[p].kind = "audit" /\ tx'[p].pc = "forget" /\ tx'[p].stamp = clock'
           /\ tx'[p].offered = tx'[p].wrote /\ tx'[p].wrote \intersect tx'[p].removed = {}
           /\ \A e \in tx'[p].offered \union tx'[p].removed : ~BarHeld(p, s, e)
  <1>1. clock < MaxTx /\ clock' = clock + 1 /\ clock \in 1 .. MaxTx /\ MaxTx \in Nat
    BY BoundsAssumption DEF Audit, TypeOK
  <1>2. PICK losers \in SUBSET Present(s), moved \in SUBSET (Ends \ Present(s)) :
          /\ \A e \in losers \union moved : ~BarHeld(p, s, e)
          /\ Set(p, [Idle EXCEPT !.kind = "audit", !.pc = "forget", !.scope = s,
                                 !.stamp = clock + 1, !.offered = moved, !.wrote = moved,
                                 !.removed = losers])
    BY DEF Audit
  <1>3. losers \in SUBSET Ends /\ moved \in SUBSET Ends /\ moved \intersect losers = {}
    BY DEF Present
  <1>4. Idle \in Transaction
    BY IdleIs
  <1>5. PICK stamp \in 0 .. MaxTx : stamp = clock + 1
    BY <1>1
  <1>6. PICK t : t = [Idle EXCEPT !.kind = "audit", !.pc = "forget", !.scope = s,
                                  !.stamp = stamp, !.offered = moved, !.wrote = moved,
                                  !.removed = losers]
    OBVIOUS
  <1>7. t \in Transaction
    BY <1>6, <1>3, <1>4 DEF Transaction
  <1>8. /\ t.kind = "audit" /\ t.pc = "forget" /\ t.scope = s /\ t.stamp = stamp
        /\ t.offered = moved /\ t.wrote = moved /\ t.removed = losers
        /\ t.seen = Idle.seen /\ t.rows = Idle.rows /\ t.within = Idle.within
        /\ t.overtaken = Idle.overtaken
    BY <1>6, <1>4 DEF Transaction
  <1>9. Set(p, t)
    BY <1>6, <1>2, <1>5, <1>8
  <1>10. Blank(t)
    BY <1>8, IdleIs DEF Blank
  <1>11. tx'[p] = t /\ tx' \in [Procs -> Transaction] /\ \A q \in Procs : q # p => tx'[q] = tx[q]
    BY <1>9, <1>7, SetIs
  <1> QED BY <1>1, <1>2, <1>3, <1>5, <1>8, <1>10, <1>11, IdleIs DEF Audit, Begun, OnlyTx, TypeOK

LEMMA BootstrapIs ==
    ASSUME TypeOK, NEW p \in Procs, NEW g \in Gens, NEW s \in Scopes, Bootstrap(p, g, s)
    PROVE  /\ Begun(p, s)
           /\ tx'[p].kind = "bootstrap" /\ tx'[p].pc = "scan" /\ tx'[p].stamp = 0
           /\ tx'[p].offered = {} /\ tx'[p].wrote = {} /\ tx'[p].removed = {} /\ tx'[p].within = {}
           /\ \A k \in Gens : /\ tx'[p].rows[k] = NoRow
                              /\ tx'[p].seen[k] = IF k = g THEN catalog[g][s] ELSE NoRow
           /\ generation[g].status = "building"
  <1>1. catalog[g][s] \in CatalogRow
    BY DEF TypeOK
  <1>2. PICK none \in [Gens -> CatalogRow] : none = Idle.seen /\ \A k \in Gens : none[k] = NoRow
    BY IdleIs
  <1>3. PICK r \in CatalogRow : r = catalog[g][s]
    BY <1>1
  <1>4. PICK seen \in [Gens -> CatalogRow] :
          seen = [Idle.seen EXCEPT ![g] = catalog[g][s]] /\ seen = [none EXCEPT ![g] = r]
    BY <1>2, <1>3
  <1>5. \A k \in Gens : seen[k] = IF k = g THEN catalog[g][s] ELSE NoRow
    BY <1>4, <1>2, <1>3
  <1>6. Idle \in Transaction
    BY IdleIs
  <1>7. PICK t : t = [Idle EXCEPT !.kind = "bootstrap", !.pc = "scan", !.scope = s, !.seen = seen]
    OBVIOUS
  <1>8. t \in Transaction
    BY <1>7, <1>6 DEF Transaction
  <1>9. /\ t.kind = "bootstrap" /\ t.pc = "scan" /\ t.scope = s /\ t.stamp = Idle.stamp
        /\ t.offered = Idle.offered /\ t.wrote = Idle.wrote /\ t.removed = Idle.removed
        /\ t.seen = seen /\ t.rows = Idle.rows /\ t.within = Idle.within
        /\ t.overtaken = Idle.overtaken
    BY <1>7, <1>6 DEF Transaction
  <1>10. Set(p, t)
    BY <1>7, <1>4, <1>9 DEF Bootstrap
  <1>11. tx'[p] = t /\ tx' \in [Procs -> Transaction] /\ \A q \in Procs : q # p => tx'[q] = tx[q]
    BY <1>10, <1>8, SetIs
  <1> QED BY <1>9, <1>11, <1>5, IdleIs DEF Bootstrap, Begun, OnlyTx, TypeOK

\* A transaction goes on.
Goes(p) ==
    /\ OnlyTx(p) /\ clock' = clock
    /\ tx'[p].kind = tx[p].kind /\ tx'[p].scope = tx[p].scope /\ tx'[p].stamp = tx[p].stamp
    /\ tx'[p].overtaken = tx[p].overtaken

GoesOn(p) == Goes(p) /\ tx'[p].offered = tx[p].offered /\ tx'[p].wrote = tx[p].wrote

LEMMA ImportIs ==
    ASSUME IInv, NEW p \in Procs, Import(p)
    PROVE  /\ tx[p].kind = "import" /\ Goes(p) /\ HasWritten(p, tx[p].scope)
  <1>1. TypeOK /\ Shape(tx[p])
    BY DEF IInv, ShapeOK
  <1>2. tx[p].pc = "write" /\ Written(p, tx[p]) /\ tx[p] \in Transaction
    BY <1>1 DEF Import, TypeOK
  <1>3. tx[p].kind = "import"
    BY <1>1, <1>2 DEF Shape, Transaction
  <1>4. tx[p].removed = {} /\ Blank(tx[p])
    BY <1>1, <1>2, <1>3 DEF Shape, Blank
  <1>5. PICK t \in Transaction : t = tx[p]
    BY <1>2
  <1>6. /\ HasWritten(p, t.scope) /\ tx' \in [Procs -> Transaction]
        /\ tx'[p].kind = t.kind /\ tx'[p].scope = t.scope /\ tx'[p].stamp = t.stamp
        /\ tx'[p].overtaken = t.overtaken
        /\ \A q \in Procs : q # p => tx'[q] = tx[q]
    BY <1>1, <1>2, <1>4, <1>5, WrittenIs
  <1> QED BY <1>1, <1>3, <1>5, <1>6 DEF Import, Goes, OnlyTx, TypeOK

\* The offered bars of a writer have bounds.
LEMMA OfferedIs ==
    ASSUME IInv, NEW p \in Procs, Writer(tx[p]), tx[p].pc # "write"
    PROVE  /\ tx[p].offered # {} /\ tx[p].offered \in SUBSET Ends
           /\ Lowest(tx[p].offered) \in tx[p].offered /\ Highest(tx[p].offered) \in tx[p].offered
           /\ \A e \in tx[p].offered : Lowest(tx[p].offered) <= e /\ e <= Highest(tx[p].offered)
           /\ Lowest(tx[p].offered) \in Ends /\ Highest(tx[p].offered) \in Ends
           /\ Lowest(tx[p].offered) <= Highest(tx[p].offered)
  <1>1. tx[p] \in Transaction /\ Shape(tx[p])
    BY DEF IInv, TypeOK, ShapeOK
  <1>2. PICK S \in SUBSET Ends : S = tx[p].offered /\ S # {}
    BY <1>1 DEF Transaction, Shape
  <1> QED BY <1>2, BoundsAre

\* Record: the rows that are widened, and those that need not be.
LEMMA RecordIs ==
    ASSUME IInv, NEW p \in Procs, Record(p)
    PROVE  /\ tx[p].pc = "record" /\ tx'[p].pc = "commit" /\ GoesOn(p) /\ Writer(tx[p])
           /\ tx'[p].removed = {}
           /\ \A g \in Gens :
                /\ tx'[p].seen[g] = NoRow
                /\ g \in tx'[p].within => /\ Maintained(g)
                                          /\ ~Widens(catalog[g][tx[p].scope], Lowest(tx[p].offered),
                                                     Highest(tx[p].offered))
                /\ tx'[p].rows[g] # NoRow =>
                     /\ Maintained(g) /\ ~RowHeld(p, g, tx[p].scope)
                     /\ catalog[g][tx[p].scope].state # "none"
                     /\ tx'[p].rows[g] = Widened(catalog[g][tx[p].scope], Lowest(tx[p].offered),
                                                 Highest(tx[p].offered))
                     /\ WellFormed(tx'[p].rows[g]) /\ tx'[p].rows[g].state = "present"
                     /\ tx'[p].rows[g].ver = catalog[g][tx[p].scope].ver + 1
                /\ Maintained(g) => tx'[p].rows[g] # NoRow \/ g \in tx'[p].within
                /\ g \in tx'[p].within =>
                     \A q \in Procs : /\ tx[q].kind = "delete" /\ tx[q].scope = tx[p].scope
                                      /\ tx[q].pc \in {"cas", "invalidate", "commit"}
                                      => <<g, tx[p].scope>> \in raced'
  <1>1. TypeOK /\ Shape(tx[p]) /\ RowsOK
    BY DEF IInv, ShapeOK
  <1>2. PICK t \in Transaction : t = tx[p] /\ t.pc = "record" /\ Shape(t)
    BY <1>1 DEF Record, TypeOK
  <1>3. Writer(t) /\ t.removed = {} /\ \A g \in Gens : t.seen[g] = NoRow
    BY <1>2 DEF Shape, Writer, Transaction
  <1>4. PICK lo \in Ends : lo = Lowest(t.offered)
    BY <1>2, <1>3, OfferedIs
  <1>5. PICK hi \in Ends : hi = Highest(t.offered)
    BY <1>2, <1>3, OfferedIs
  <1>6. lo <= hi
    BY <1>2, <1>3, <1>4, <1>5, OfferedIs
  <1>7. PICK touched \in SUBSET Gens :
          touched = {g \in Gens : Maintained(g) /\ Widens(catalog[g][t.scope], lo, hi)}
    OBVIOUS
  <1>8. PICK within \in SUBSET Gens : within = {g \in Gens : Maintained(g)} \ touched
    OBVIOUS
  <1>9. t.scope \in Scopes
    BY DEF Transaction
  <1>10. \A g \in touched : /\ catalog[g][t.scope] \in CatalogRow /\ catalog[g][t.scope].state # "none"
                            /\ WellFormed(catalog[g][t.scope])
    BY <1>1, <1>7, <1>9 DEF Widens, TypeOK
  <1>11. \A g \in touched : LET new == Widened(catalog[g][t.scope], lo, hi) IN
           /\ new \in CatalogRow /\ WellFormed(new) /\ new.state = "present"
           /\ new.ver = catalog[g][t.scope].ver + 1
    BY <1>6, <1>10, WidenedIs
  <1>12. NoRow \in CatalogRow /\ NoRow.state = "none"
    BY RowsAre
  <1>13. PICK rows \in [Gens -> CatalogRow] :
           rows = [g \in Gens |-> IF g \in touched THEN Widened(catalog[g][t.scope], lo, hi) ELSE NoRow]
    BY <1>11, <1>12
  <1>14. /\ \A g \in touched : ~RowHeld(p, g, t.scope)
         /\ Set(p, [t EXCEPT !.pc = "commit", !.within = within, !.rows = rows])
         /\ raced' = raced \union
              {<<g, t.scope>> : g \in {k \in within : \E q \in Procs :
                   tx[q].kind = "delete" /\ tx[q].scope = t.scope
                       /\ tx[q].pc \in {"cas", "invalidate", "commit"}}}
         /\ UNCHANGED <<bars, mark, generation, control, catalog, clock>>
    BY <1>2, <1>4, <1>5, <1>7, <1>8, <1>13 DEF Record
  <1>15. PICK u : u = [t EXCEPT !.pc = "commit", !.within = within, !.rows = rows]
    OBVIOUS
  <1>16. u \in Transaction
    BY <1>15 DEF Transaction
  <1>17. /\ u.pc = "commit" /\ u.within = within /\ u.rows = rows
         /\ u.kind = t.kind /\ u.scope = t.scope /\ u.stamp = t.stamp /\ u.removed = t.removed
         /\ u.seen = t.seen /\ u.offered = t.offered /\ u.wrote = t.wrote /\ u.overtaken = t.overtaken
    BY <1>15 DEF Transaction
  <1>18. tx'[p] = u /\ tx' \in [Procs -> Transaction] /\ \A q \in Procs : q # p => tx'[q] = tx[q]
    BY <1>1, <1>14, <1>15, <1>16, SetIs
  <1>19. raced \subseteq raced' /\ raced' \subseteq Gens \X Scopes
    BY <1>1, <1>9, <1>14 DEF TypeOK
  <1>20. GoesOn(p)
    BY <1>1, <1>2, <1>14, <1>17, <1>18, <1>19 DEF GoesOn, Goes, OnlyTx, TypeOK
  <1>21. ASSUME NEW g \in Gens
         PROVE  /\ g \in within => Maintained(g) /\ ~Widens(catalog[g][t.scope], lo, hi)
                /\ rows[g] # NoRow => g \in touched /\ rows[g] = Widened(catalog[g][t.scope], lo, hi)
                /\ g \in touched => rows[g] = Widened(catalog[g][t.scope], lo, hi) /\ rows[g] # NoRow
                /\ g \in touched => Maintained(g)
                /\ Maintained(g) => g \in touched \/ g \in within
    BY <1>7, <1>8, <1>11, <1>12, <1>13
  <1>22. ASSUME NEW g \in within, NEW q \in Procs, tx[q].kind = "delete", tx[q].scope = t.scope,
                tx[q].pc \in {"cas", "invalidate", "commit"}
         PROVE  <<g, t.scope>> \in raced'
    BY <1>14, <1>22
  <1> HIDE DEF Maintained, Widens, RowHeld
  <1>23. tx[p].pc = "record" /\ tx'[p].pc = "commit" /\ Writer(tx[p]) /\ tx'[p].removed = {}
         /\ \A g \in Gens : tx'[p].seen[g] = NoRow
    BY <1>2, <1>3, <1>17, <1>18
  <1>24. ASSUME NEW g \in Gens
         PROVE  /\ g \in tx'[p].within => Maintained(g) /\ ~Widens(catalog[g][t.scope], lo, hi)
                /\ tx'[p].rows[g] # NoRow =>
                     /\ Maintained(g) /\ ~RowHeld(p, g, t.scope)
                     /\ catalog[g][t.scope].state # "none"
                     /\ tx'[p].rows[g] = Widened(catalog[g][t.scope], lo, hi)
                     /\ WellFormed(tx'[p].rows[g]) /\ tx'[p].rows[g].state = "present"
                     /\ tx'[p].rows[g].ver = catalog[g][t.scope].ver + 1
                /\ Maintained(g) => tx'[p].rows[g] # NoRow \/ g \in tx'[p].within
    BY <1>10, <1>11, <1>14, <1>17, <1>18, <1>21
  <1>25. \A g \in Gens : g \in tx'[p].within =>
           \A q \in Procs : /\ tx[q].kind = "delete" /\ tx[q].scope = t.scope
                            /\ tx[q].pc \in {"cas", "invalidate", "commit"}
                            => <<g, t.scope>> \in raced'
    <2>1. tx'[p].within = within
      BY <1>17, <1>18
    <2> QED BY <1>22, <2>1
  <1> QED BY <1>2, <1>4, <1>5, <1>20, <1>23, <1>24, <1>25

LEMMA RemoveIs ==
    ASSUME IInv, NEW p \in Procs, Remove(p)
    PROVE  /\ tx[p].kind = "delete" /\ tx'[p].pc = "select" /\ GoesOn(p) /\ Blank(tx'[p])
           /\ \A e \in tx'[p].removed : ~BarHeld(p, tx[p].scope, e)
  <1>1. TypeOK
    BY DEF IInv
  <1>2. PICK t \in Transaction : t = tx[p] /\ t.pc = "remove" /\ Shape(t)
    BY <1>1 DEF Remove, TypeOK, IInv, ShapeOK
  <1>3. t.kind = "delete" /\ Blank(t)
    BY <1>2 DEF Shape, Writer, Blank, Transaction
  <1>4. PICK removed \in SUBSET Ends : removed = t.found \intersect Present(t.scope)
    BY DEF Transaction, Present
  <1>5. PICK u : u = [t EXCEPT !.pc = "select", !.removed = removed, !.found = {}]
    OBVIOUS
  <1>6. u \in Transaction
    BY <1>5 DEF Transaction
  <1>7. /\ u.pc = "select" /\ u.within = t.within /\ u.rows = t.rows /\ u.removed = removed
        /\ u.kind = t.kind /\ u.scope = t.scope /\ u.stamp = t.stamp
        /\ u.seen = t.seen /\ u.offered = t.offered /\ u.wrote = t.wrote /\ u.overtaken = t.overtaken
    BY <1>5 DEF Transaction
  <1>8. /\ \A e \in t.found : ~BarHeld(p, t.scope, e)
        /\ Set(p, u) /\ UNCHANGED <<bars, mark, generation, control, catalog, clock, raced>>
    BY <1>2, <1>4, <1>5 DEF Remove
  <1>9. tx'[p] = u /\ tx' \in [Procs -> Transaction] /\ \A q \in Procs : q # p => tx'[q] = tx[q]
    BY <1>1, <1>6, <1>8, SetIs
  <1>10. GoesOn(p)
    BY <1>1, <1>2, <1>7, <1>8, <1>9 DEF GoesOn, Goes, OnlyTx, TypeOK
  <1> QED BY <1>2, <1>3, <1>4, <1>7, <1>8, <1>9, <1>10 DEF Blank

LEMMA SelectIs ==
    ASSUME IInv, NEW p \in Procs, Select(p)
    PROVE  /\ tx[p].kind = "delete" /\ tx'[p].pc = "scan" /\ GoesOn(p)
           /\ tx'[p].removed = tx[p].removed /\ tx'[p].within = {}
           /\ \A g \in Gens : /\ tx'[p].rows[g] = NoRow
                              /\ tx'[p].seen[g] = IF Maintained(g) THEN catalog[g][tx[p].scope] ELSE NoRow
  <1>1. TypeOK
    BY DEF IInv
  <1>2. PICK t \in Transaction : t = tx[p] /\ t.pc = "select" /\ Shape(t)
    BY <1>1 DEF Select, TypeOK, IInv, ShapeOK
  <1>3. t.kind = "delete" /\ Blank(t)
    BY <1>2 DEF Shape, Writer, Blank, Transaction
  <1>4. t.scope \in Scopes /\ NoRow \in CatalogRow
    BY RowsAre DEF Transaction
  <1>5. PICK seen \in [Gens -> CatalogRow] :
          seen = [g \in Gens |-> IF Maintained(g) THEN catalog[g][t.scope] ELSE NoRow]
    BY <1>1, <1>4 DEF TypeOK
  <1>6. PICK u : u = [t EXCEPT !.pc = "scan", !.seen = seen]
    OBVIOUS
  <1>7. u \in Transaction
    BY <1>6 DEF Transaction
  <1>8. /\ u.pc = "scan" /\ u.within = t.within /\ u.rows = t.rows /\ u.removed = t.removed
        /\ u.kind = t.kind /\ u.scope = t.scope /\ u.stamp = t.stamp
        /\ u.seen = seen /\ u.offered = t.offered /\ u.wrote = t.wrote /\ u.overtaken = t.overtaken
    BY <1>6 DEF Transaction
  <1>9. Set(p, u) /\ UNCHANGED <<bars, mark, generation, control, catalog, clock, raced>>
    BY <1>2, <1>5, <1>6 DEF Select
  <1>10. tx'[p] = u /\ tx' \in [Procs -> Transaction] /\ \A q \in Procs : q # p => tx'[q] = tx[q]
    BY <1>1, <1>7, <1>9, SetIs
  <1>11. GoesOn(p)
    BY <1>1, <1>2, <1>8, <1>9, <1>10 DEF GoesOn, Goes, OnlyTx, TypeOK
  <1> QED BY <1>2, <1>3, <1>5, <1>8, <1>10, <1>11 DEF Blank

LEMMA ScanIs ==
    ASSUME IInv, NEW p \in Procs, Scan(p)
    PROVE  /\ tx[p].kind \in {"delete", "bootstrap"} /\ tx[p].pc = "scan" /\ tx'[p].pc = "cas"
           /\ GoesOn(p) /\ tx'[p].removed = tx[p].removed /\ tx'[p].within = {}
           /\ tx'[p].seen = tx[p].seen /\ tx'[p].found = Rest(p)
           /\ \A g \in Gens : tx'[p].rows[g] = NoRow
           /\ tx[p].kind = "delete" =>
                \A q \in Procs, g \in Gens :
                    tx[q].scope = tx[p].scope /\ g \in tx[q].within => <<g, tx[p].scope>> \in raced'
  <1>1. TypeOK
    BY DEF IInv
  <1>2. PICK t \in Transaction : t = tx[p] /\ t.pc = "scan" /\ Shape(t)
    BY <1>1 DEF Scan, TypeOK, IInv, ShapeOK
  <1>3. t.kind \in {"delete", "bootstrap"} /\ t.within = {} /\ \A g \in Gens : t.rows[g] = NoRow
    BY <1>2 DEF Shape, Writer, Transaction
  <1>4. PICK found \in SUBSET Ends : found = Present(t.scope) \ t.removed
    BY DEF Present
  <1>5. PICK u : u = [t EXCEPT !.pc = "cas", !.found = found]
    OBVIOUS
  <1>6. u \in Transaction
    BY <1>5 DEF Transaction
  <1>7. /\ u.pc = "cas" /\ u.within = t.within /\ u.rows = t.rows /\ u.removed = t.removed
        /\ u.kind = t.kind /\ u.scope = t.scope /\ u.stamp = t.stamp /\ u.found = found
        /\ u.seen = t.seen /\ u.offered = t.offered /\ u.wrote = t.wrote /\ u.overtaken = t.overtaken
    BY <1>5 DEF Transaction
  <1>8. /\ Set(p, u) /\ UNCHANGED <<bars, mark, generation, control, catalog, clock>>
        /\ raced' = IF t.kind = "delete" THEN raced \union Unaware(t.scope) ELSE raced
    BY <1>2, <1>4, <1>5 DEF Scan
  <1>9. tx'[p] = u /\ tx' \in [Procs -> Transaction] /\ \A q \in Procs : q # p => tx'[q] = tx[q]
    BY <1>1, <1>6, <1>8, SetIs
  <1>10. t.scope \in Scopes
    BY DEF Transaction
  <1>11. Unaware(t.scope) \subseteq Gens \X Scopes
    BY <1>10 DEF Unaware
  <1>12. raced \subseteq raced' /\ raced' \subseteq Gens \X Scopes
    BY <1>1, <1>8, <1>11 DEF TypeOK
  <1>13. ASSUME NEW q \in Procs, NEW g \in Gens, tx[q].scope = t.scope, g \in tx[q].within
         PROVE  <<g, t.scope>> \in Unaware(t.scope)
    BY <1>13 DEF Unaware
  <1>14. GoesOn(p)
    BY <1>1, <1>2, <1>7, <1>8, <1>9, <1>12 DEF GoesOn, Goes, OnlyTx, TypeOK
  <1>15. Rest(p) = found
    BY <1>2, <1>4 DEF Rest
  <1> QED BY <1>2, <1>3, <1>7, <1>8, <1>9, <1>13, <1>14, <1>15

LEMMA CasIs ==
    ASSUME IInv, NEW p \in Procs, Cas(p)
    PROVE  /\ tx[p].kind \in {"delete", "bootstrap"} /\ tx[p].pc = "cas"
           /\ tx'[p].pc \in {"invalidate", "commit"}
           /\ tx[p].kind = "bootstrap" => tx'[p].pc = "commit"
           /\ GoesOn(p) /\ tx'[p].removed = tx[p].removed /\ tx'[p].within = {}
           /\ \A g \in Gens :
                /\ tx'[p].seen[g] = NoRow
                /\ tx'[p].rows[g] # NoRow =>
                     /\ tx[p].seen[g] # NoRow /\ tx[p].seen[g].ver = catalog[g][tx[p].scope].ver
                     /\ ~RowHeld(p, g, tx[p].scope)
                     /\ tx'[p].rows[g] = Exact(tx[p].found, tx[p].seen[g].ver + 1)
                     /\ tx'[p].rows[g].ver = tx[p].seen[g].ver + 1
                     /\ WellFormed(tx'[p].rows[g]) /\ tx'[p].rows[g].state # "none"
                /\ tx[p].kind = "delete" /\ tx'[p].pc = "commit" /\ tx[p].seen[g] # NoRow
                     => tx'[p].rows[g] # NoRow
  <1>1. TypeOK
    BY DEF IInv
  <1>2. PICK t \in Transaction : t = tx[p] /\ t.pc = "cas" /\ Shape(t)
    BY <1>1 DEF Cas, TypeOK, IInv, ShapeOK
  <1>3. t.kind \in {"delete", "bootstrap"} /\ t.within = {} /\ \A g \in Gens : t.rows[g] = NoRow
    BY <1>2 DEF Shape, Writer, Transaction
  <1>4. PICK targets \in SUBSET Gens : targets = {g \in Gens : t.seen[g] # NoRow}
    OBVIOUS
  <1>5. PICK current \in SUBSET Gens : current = {g \in targets : Current(catalog[g][t.scope], t.seen[g])}
    OBVIOUS
  <1>6. t.found \in SUBSET Ends /\ t.seen \in [Gens -> CatalogRow]
    BY DEF Transaction
  <1>7. \A g \in Gens : t.seen[g].ver \in Nat /\ t.seen[g].ver + 1 \in Nat
    BY <1>6 DEF CatalogRow
  <1>8. \A g \in Gens : LET new == Exact(t.found, t.seen[g].ver + 1) IN
          /\ new \in CatalogRow /\ WellFormed(new) /\ new.state # "none" /\ new.ver = t.seen[g].ver + 1
    BY <1>6, <1>7, ExactIs
  <1>9. NoRow \in CatalogRow /\ NoRow.state = "none"
    BY RowsAre
  <1>10. PICK rows \in [Gens -> CatalogRow] :
           rows = [g \in Gens |-> IF g \in current THEN Exact(t.found, t.seen[g].ver + 1) ELSE NoRow]
    BY <1>8, <1>9
  <1>11. PICK pc \in {"invalidate", "commit"} :
           pc = IF t.kind = "delete" /\ current # targets THEN "invalidate" ELSE "commit"
    OBVIOUS
  <1>12. PICK none \in [Gens -> CatalogRow] : none = Idle.seen /\ \A g \in Gens : none[g] = NoRow
    BY IdleIs
  <1>13. PICK u : u = [t EXCEPT !.pc = pc, !.rows = rows, !.found = {}, !.seen = none]
    OBVIOUS
  <1>14. u \in Transaction
    BY <1>13 DEF Transaction
  <1>15. /\ u.pc = pc /\ u.within = t.within /\ u.rows = rows /\ u.removed = t.removed
         /\ u.kind = t.kind /\ u.scope = t.scope /\ u.stamp = t.stamp
         /\ u.seen = none /\ u.offered = t.offered /\ u.wrote = t.wrote /\ u.overtaken = t.overtaken
    BY <1>13 DEF Transaction
  <1>16. /\ \A g \in current : ~RowHeld(p, g, t.scope)
         /\ Set(p, [t EXCEPT !.pc = pc, !.rows = rows, !.found = {}, !.seen = Idle.seen])
         /\ UNCHANGED <<bars, mark, generation, control, catalog, clock, raced>>
    BY <1>2, <1>4, <1>5, <1>10, <1>11 DEF Cas
  <1>17. tx'[p] = u /\ tx' \in [Procs -> Transaction] /\ \A q \in Procs : q # p => tx'[q] = tx[q]
    BY <1>1, <1>12, <1>13, <1>14, <1>16, SetIs
  <1>18. GoesOn(p)
    BY <1>1, <1>2, <1>15, <1>16, <1>17 DEF GoesOn, Goes, OnlyTx, TypeOK
  <1>19. ASSUME NEW g \in Gens
         PROVE  /\ rows[g] # NoRow =>
                     /\ t.seen[g] # NoRow /\ t.seen[g].ver = catalog[g][t.scope].ver
                     /\ ~RowHeld(p, g, t.scope)
                     /\ rows[g] = Exact(t.found, t.seen[g].ver + 1)
                /\ g \in current => rows[g] = Exact(t.found, t.seen[g].ver + 1) /\ rows[g] # NoRow
                /\ t.kind = "delete" /\ pc = "commit" /\ t.seen[g] # NoRow => g \in current
    BY <1>4, <1>5, <1>8, <1>9, <1>10, <1>11, <1>16 DEF Current
  <1>20. ASSUME NEW g \in Gens
         PROVE  /\ tx'[p].seen[g] = NoRow
                /\ tx'[p].rows[g] # NoRow =>
                     /\ t.seen[g] # NoRow /\ t.seen[g].ver = catalog[g][t.scope].ver
                     /\ ~RowHeld(p, g, t.scope)
                     /\ tx'[p].rows[g] = Exact(t.found, t.seen[g].ver + 1)
                     /\ tx'[p].rows[g].ver = t.seen[g].ver + 1
                     /\ WellFormed(tx'[p].rows[g]) /\ tx'[p].rows[g].state # "none"
                /\ t.kind = "delete" /\ tx'[p].pc = "commit" /\ t.seen[g] # NoRow
                     => tx'[p].rows[g] # NoRow
    BY <1>8, <1>12, <1>15, <1>17, <1>19
  <1>21. t.kind = "bootstrap" => pc = "commit"
    BY <1>11
  <1> QED BY <1>2, <1>3, <1>15, <1>17, <1>18, <1>20, <1>21

LEMMA InvalidateIs ==
    ASSUME IInv, NEW p \in Procs, Invalidate(p)
    PROVE  /\ tx[p].kind \in {"delete", "audit"} /\ tx[p].pc \in {"invalidate", "forget"}
           /\ tx'[p].pc = "commit"
           /\ GoesOn(p) /\ tx'[p].removed = tx[p].removed /\ tx'[p].within = {}
           /\ \A g \in Gens :
                /\ tx'[p].seen[g] = NoRow
                /\ Maintained(g) /\ catalog[g][tx[p].scope] # NoRow =>
                     /\ ~RowHeld(p, g, tx[p].scope)
                     /\ tx'[p].rows[g].state = "unknown" /\ WellFormed(tx'[p].rows[g])
                     /\ tx'[p].rows[g] # NoRow
                     /\ catalog[g][tx[p].scope].ver < tx'[p].rows[g].ver
                /\ ~(Maintained(g) /\ catalog[g][tx[p].scope] # NoRow) => tx'[p].rows[g] = tx[p].rows[g]
  <1>1. TypeOK /\ RowsOK
    BY DEF IInv
  <1>2. PICK t \in Transaction : t = tx[p] /\ t.pc \in {"invalidate", "forget"} /\ Shape(t)
    BY <1>1 DEF Invalidate, TypeOK, IInv, ShapeOK
  <1>3. /\ t.kind \in {"delete", "audit"} /\ t.within = {}
        /\ \A g \in Gens : t.seen[g] = NoRow
    BY <1>2 DEF Shape, Writer, Transaction
  <1>4. PICK targets \in SUBSET Gens :
          targets = {g \in Gens : Maintained(g) /\ catalog[g][t.scope] # NoRow}
    OBVIOUS
  <1>5. t.scope \in Scopes /\ t.rows \in [Gens -> CatalogRow]
    BY DEF Transaction
  <1>6. PICK ver \in [Gens -> Nat] :
          ver = [g \in Gens |-> (IF t.rows[g] # NoRow THEN t.rows[g].ver ELSE catalog[g][t.scope].ver) + 1]
    <2>1. \A g \in Gens : t.rows[g].ver \in Nat /\ catalog[g][t.scope].ver \in Nat
      BY <1>1, <1>5 DEF TypeOK, CatalogRow
    <2>2. \A g \in Gens : (IF t.rows[g] # NoRow THEN t.rows[g].ver ELSE catalog[g][t.scope].ver) + 1 \in Nat
      BY <2>1
    <2> QED BY <2>2
  <1>7. \A g \in Gens : catalog[g][t.scope].ver < ver[g]
    <2>1. \A g \in Gens : t.rows[g] # NoRow => catalog[g][t.scope].ver < t.rows[g].ver
      BY <1>1, <1>2 DEF RowsOK
    <2>2. \A g \in Gens : t.rows[g].ver \in Nat /\ catalog[g][t.scope].ver \in Nat
      BY <1>1, <1>5 DEF TypeOK, CatalogRow
    <2> QED BY <1>6, <2>1, <2>2
  <1>8. \A g \in Gens : LET new == [Unknown EXCEPT !.ver = ver[g]] IN
           new \in CatalogRow /\ WellFormed(new) /\ new.state = "unknown" /\ new.ver = ver[g]
    BY <1>6, RowsAre
  <1>9. NoRow.state = "none"
    BY RowsAre
  <1>10. PICK rows \in [Gens -> CatalogRow] :
           rows = [g \in Gens |-> IF g \in targets THEN [Unknown EXCEPT !.ver = ver[g]] ELSE t.rows[g]]
    BY <1>5, <1>8
  <1>11. PICK u : u = [t EXCEPT !.pc = "commit", !.rows = rows]
    OBVIOUS
  <1>12. u \in Transaction
    BY <1>11 DEF Transaction
  <1>13. /\ u.pc = "commit" /\ u.within = t.within /\ u.rows = rows /\ u.removed = t.removed
         /\ u.kind = t.kind /\ u.scope = t.scope /\ u.stamp = t.stamp
         /\ u.seen = t.seen /\ u.offered = t.offered /\ u.wrote = t.wrote /\ u.overtaken = t.overtaken
    BY <1>11 DEF Transaction
  <1>14. rows = [g \in Gens |-> IF g \in targets
                 THEN [Unknown EXCEPT !.ver = (IF t.rows[g] # NoRow THEN t.rows[g].ver
                                               ELSE catalog[g][t.scope].ver) + 1]
                 ELSE t.rows[g]]
    BY <1>6, <1>10
  <1>15. /\ \A g \in targets : ~RowHeld(p, g, t.scope)
         /\ Set(p, [t EXCEPT !.pc = "commit", !.rows = rows])
         /\ UNCHANGED <<bars, mark, generation, control, catalog, clock, raced>>
    BY <1>2, <1>4, <1>14 DEF Invalidate
  <1>16. tx'[p] = u /\ tx' \in [Procs -> Transaction] /\ \A q \in Procs : q # p => tx'[q] = tx[q]
    BY <1>1, <1>11, <1>12, <1>15, SetIs
  <1>17. GoesOn(p)
    BY <1>1, <1>2, <1>13, <1>15, <1>16 DEF GoesOn, Goes, OnlyTx, TypeOK
  <1>18. ASSUME NEW g \in Gens
         PROVE  /\ g \in targets => /\ ~RowHeld(p, g, t.scope) /\ rows[g].state = "unknown"
                                    /\ WellFormed(rows[g]) /\ rows[g] # NoRow
                                    /\ catalog[g][t.scope].ver < rows[g].ver
                /\ g \notin targets => rows[g] = t.rows[g]
    BY <1>7, <1>8, <1>9, <1>10, <1>15
  <1>19. ASSUME NEW g \in Gens
         PROVE  /\ tx'[p].seen[g] = NoRow
                /\ Maintained(g) /\ catalog[g][t.scope] # NoRow =>
                     /\ ~RowHeld(p, g, t.scope)
                     /\ tx'[p].rows[g].state = "unknown" /\ WellFormed(tx'[p].rows[g])
                     /\ tx'[p].rows[g] # NoRow
                     /\ catalog[g][t.scope].ver < tx'[p].rows[g].ver
                /\ ~(Maintained(g) /\ catalog[g][t.scope] # NoRow) => tx'[p].rows[g] = t.rows[g]
    BY <1>3, <1>4, <1>13, <1>16, <1>18
  <1> QED BY <1>2, <1>3, <1>13, <1>16, <1>17, <1>19

LEMMA RollbackIs ==
    ASSUME TypeOK, NEW p \in Procs, Rollback(p)
    PROVE  /\ OnlyTx(p) /\ clock' = clock /\ tx'[p] = Idle
  <1>1. Set(p, Idle) /\ UNCHANGED <<bars, mark, generation, control, catalog, clock, raced>>
    BY DEF Rollback
  <1>2. Idle \in Transaction
    BY IdleIs
  <1>3. tx'[p] = Idle /\ tx' \in [Procs -> Transaction] /\ \A q \in Procs : q # p => tx'[q] = tx[q]
    BY <1>1, <1>2, SetIs
  <1> QED BY <1>1, <1>3 DEF OnlyTx, TypeOK

\* What a commit leaves as it is of another transaction.
Untouched(q) ==
    /\ tx'[q].kind = tx[q].kind /\ tx'[q].pc = tx[q].pc /\ tx'[q].scope = tx[q].scope
    /\ tx'[q].stamp = tx[q].stamp /\ tx'[q].offered = tx[q].offered /\ tx'[q].wrote = tx[q].wrote
    /\ tx'[q].removed = tx[q].removed /\ tx'[q].seen = tx[q].seen /\ tx'[q].found = tx[q].found
    /\ tx'[q].rows = tx[q].rows /\ tx'[q].within = tx[q].within

LEMMA CommitTx ==
    ASSUME TypeOK, NEW p \in Procs, Commit(p)
    PROVE  /\ tx[p].pc = "commit" /\ tx'[p] = Idle
           /\ tx' \in [Procs -> Transaction]
           /\ \A q \in Procs : q # p =>
                /\ Untouched(q)
                /\ tx[q].overtaken => tx'[q].overtaken
                /\ /\ tx[p].kind = "import" /\ tx[q].kind = "upsert" /\ tx[q].scope = tx[p].scope
                   /\ tx[q].pc \in {"record", "commit"} /\ tx[q].stamp < tx[p].stamp
                   => tx'[q].overtaken
           /\ UNCHANGED <<generation, control, clock>>
           /\ raced \subseteq raced' /\ raced' \subseteq Gens \X Scopes
           /\ tx[p].kind = "audit" =>
                \A q \in Procs, g \in Gens :
                    tx[q].scope = tx[p].scope /\ g \in tx[q].within => <<g, tx[p].scope>> \in raced'
  <1>1. PICK t \in Transaction : t = tx[p]
    BY DEF TypeOK
  <1>2. /\ t.pc = "commit"
        /\ tx' = [q \in Procs |->
                IF q = p THEN Idle
                ELSE IF /\ t.kind = "import"
                        /\ tx[q].kind = "upsert" /\ tx[q].scope = t.scope
                        /\ tx[q].pc \in {"record", "commit"} /\ tx[q].stamp < t.stamp
                     THEN [tx[q] EXCEPT !.overtaken = TRUE] ELSE tx[q]]
        /\ raced' = IF t.kind = "audit" THEN raced \union Unaware(t.scope) ELSE raced
        /\ UNCHANGED <<generation, control, clock>>
    BY <1>1 DEF Commit
  <1>3. Idle \in Transaction
    BY IdleIs
  <1>4. ASSUME NEW x \in Transaction
        PROVE  LET y == [x EXCEPT !.overtaken = TRUE] IN
               /\ y \in Transaction /\ y.overtaken
               /\ y.kind = x.kind /\ y.pc = x.pc /\ y.scope = x.scope /\ y.stamp = x.stamp
               /\ y.offered = x.offered /\ y.wrote = x.wrote /\ y.removed = x.removed
               /\ y.seen = x.seen /\ y.found = x.found /\ y.rows = x.rows /\ y.within = x.within
    BY DEF Transaction
  <1>5. tx \in [Procs -> Transaction]
    BY DEF TypeOK
  <1>6. tx' \in [Procs -> Transaction]
    BY <1>2, <1>3, <1>4, <1>5
  <1>7. ASSUME NEW q \in Procs, q # p
        PROVE  /\ Untouched(q)
               /\ tx[q].overtaken => tx'[q].overtaken
               /\ /\ t.kind = "import" /\ tx[q].kind = "upsert" /\ tx[q].scope = t.scope
                  /\ tx[q].pc \in {"record", "commit"} /\ tx[q].stamp < t.stamp
                  => tx'[q].overtaken
    <2>1. PICK x \in Transaction : x = tx[q]
      BY <1>5
    <2>2. CASE /\ t.kind = "import" /\ tx[q].kind = "upsert" /\ tx[q].scope = t.scope
               /\ tx[q].pc \in {"record", "commit"} /\ tx[q].stamp < t.stamp
      <3>1. tx'[q] = [x EXCEPT !.overtaken = TRUE]
        BY <1>2, <1>7, <2>1, <2>2
      <3> QED BY <1>4, <2>1, <3>1 DEF Untouched
    <2>3. CASE ~ /\ t.kind = "import" /\ tx[q].kind = "upsert" /\ tx[q].scope = t.scope
                 /\ tx[q].pc \in {"record", "commit"} /\ tx[q].stamp < t.stamp
      <3>1. tx'[q] = tx[q]
        BY <1>2, <1>7, <2>3
      <3> QED BY <2>3, <3>1 DEF Untouched
    <2> QED BY <2>2, <2>3
  <1>8. t.scope \in Scopes
    BY DEF Transaction
  <1>9. Unaware(t.scope) \subseteq Gens \X Scopes
    BY <1>8 DEF Unaware
  <1>10. ASSUME NEW q \in Procs, NEW g \in Gens, tx[q].scope = t.scope, g \in tx[q].within
         PROVE  <<g, t.scope>> \in Unaware(t.scope)
    BY <1>10 DEF Unaware
  <1>11. raced \subseteq raced' /\ raced' \subseteq Gens \X Scopes
    BY <1>2, <1>9 DEF TypeOK
  <1>12. tx'[p] = Idle
    BY <1>2
  <1> HIDE DEF Unaware
  <1> QED BY <1>1, <1>2, <1>6, <1>7, <1>10, <1>11, <1>12

\* The bars and the catalog after a commit.
LEMMA CommitStore ==
    ASSUME IInv, NEW p \in Procs, Commit(p)
    PROVE  /\ \A s \in Scopes : s # tx[p].scope =>
                /\ bars'[s] = bars[s] /\ mark'[s] = mark[s] /\ Present(s)' = Present(s)
                /\ \A g \in Gens : catalog'[g][s] = catalog[g][s]
           /\ \A g \in Gens : catalog'[g][tx[p].scope] =
                IF tx[p].rows[g] # NoRow THEN tx[p].rows[g] ELSE catalog[g][tx[p].scope]
           /\ \A s \in Scopes : s = tx[p].scope =>
                Present(s)' = (Present(s) \union tx[p].wrote) \ tx[p].removed
           /\ bars' \in [Scopes -> [Ends -> 0 .. MaxTx]]
           /\ catalog' \in [Gens -> [Scopes -> CatalogRow]]
           /\ \A e \in Ends : bars'[tx[p].scope][e] =
                IF e \in tx[p].wrote THEN tx[p].stamp
                ELSE IF e \in tx[p].removed THEN 0 ELSE bars[tx[p].scope][e]
  <1>1. TypeOK
    BY DEF IInv
  <1>2. PICK t \in Transaction : t = tx[p] /\ Shape(t)
    BY <1>1 DEF IInv, ShapeOK, TypeOK
  <1>3. PICK s \in Scopes : s = t.scope
    BY DEF Transaction
  <1>4. /\ bars' = [bars EXCEPT ![s] = [e \in Ends |->
                IF e \in t.wrote THEN t.stamp ELSE IF e \in t.removed THEN 0 ELSE bars[s][e]]]
        /\ catalog' = [g \in Gens |-> [catalog[g] EXCEPT ![s] =
                IF t.rows[g] # NoRow THEN t.rows[g] ELSE catalog[g][s]]]
    BY <1>1, <1>2, <1>3 DEF Commit, TypeOK
  <1>5. /\ bars \in [Scopes -> [Ends -> 0 .. MaxTx]] /\ catalog \in [Gens -> [Scopes -> CatalogRow]]
        /\ t.stamp \in 0 .. MaxTx /\ 0 \in 0 .. MaxTx /\ t.rows \in [Gens -> CatalogRow]
        /\ t.wrote \in SUBSET Ends /\ t.removed \in SUBSET Ends
    BY <1>1, BoundsAssumption DEF TypeOK, Transaction
  <1>6. \A r \in Scopes : r # s => bars'[r] = bars[r] /\ \A g \in Gens : catalog'[g][r] = catalog[g][r]
    BY <1>4, <1>5
  <1>7. \A r \in Scopes : r # s => mark'[r] = mark[r]
    <2>1. PICK m : mark' = [mark EXCEPT ![s] = m]
      BY <1>2, <1>3 DEF Commit
    <2> QED BY <1>1, <2>1 DEF TypeOK
  <1>8. \A g \in Gens : catalog'[g][s] = IF t.rows[g] # NoRow THEN t.rows[g] ELSE catalog[g][s]
    BY <1>4, <1>5
  <1>9. catalog' \in [Gens -> [Scopes -> CatalogRow]]
    <2>1. \A g \in Gens : [catalog[g] EXCEPT ![s] =
                IF t.rows[g] # NoRow THEN t.rows[g] ELSE catalog[g][s]] \in [Scopes -> CatalogRow]
      BY <1>5
    <2> QED BY <1>4, <2>1
  <1>10. \A e \in Ends : bars'[s][e] =
           IF e \in t.wrote THEN t.stamp ELSE IF e \in t.removed THEN 0 ELSE bars[s][e]
    BY <1>4, <1>5
  <1>11. bars' \in [Scopes -> [Ends -> 0 .. MaxTx]]
    <2>1. [e \in Ends |-> IF e \in t.wrote THEN t.stamp
                          ELSE IF e \in t.removed THEN 0 ELSE bars[s][e]] \in [Ends -> 0 .. MaxTx]
      BY <1>5
    <2> QED BY <1>4, <1>5, <2>1
  <1>12. /\ t.wrote # {} => t.stamp > 0
         /\ t.wrote \intersect t.removed = {}
    BY <1>2 DEF Shape, Writer
  <1>13. Present(s)' = (Present(s) \union t.wrote) \ t.removed
    BY <1>5, <1>10, <1>12 DEF Present
  <1>14. \A r \in Scopes : r # s => Present(r)' = Present(r)
    BY <1>6 DEF Present
  <1>15. s = tx[p].scope /\ t = tx[p]
    BY <1>2, <1>3
  <1>16. \A r \in Scopes : r # s =>
           /\ bars'[r] = bars[r] /\ mark'[r] = mark[r] /\ Present(r)' = Present(r)
           /\ \A g \in Gens : catalog'[g][r] = catalog[g][r]
    BY <1>6, <1>7, <1>14
  <1>17. \A r \in Scopes : r = s => Present(r)' = (Present(r) \union t.wrote) \ t.removed
    BY <1>13
  <1> QED BY <1>8, <1>9, <1>10, <1>11, <1>15, <1>16, <1>17

MarkSet == [last : 0 .. MaxEnd, version : Nat, stamp : 0 .. MaxTx]

\* The watermark after a commit.
LEMMA CommitMark ==
    ASSUME IInv, NEW p \in Procs, Commit(p)
    PROVE  /\ mark' \in [Scopes -> MarkSet]
           /\ mark'[tx[p].scope].stamp <= clock
           /\ tx[p].kind \notin {"upsert", "import"} => mark' = mark
           /\ tx[p].kind = "import" => mark'[tx[p].scope].stamp = tx[p].stamp
           /\ /\ tx[p].kind = "upsert" /\ ~tx[p].overtaken /\ tx[p].wrote # {}
              => mark[tx[p].scope].version < mark'[tx[p].scope].version
  <1>1. TypeOK /\ ClockOK
    BY DEF IInv
  <1>2. PICK t \in Transaction : t = tx[p] /\ Shape(t) /\ t.pc = "commit" /\ t.stamp <= clock
    BY <1>1 DEF IInv, ShapeOK, TypeOK, Commit, ClockOK
  <1>3. PICK s \in Scopes : s = t.scope
    BY DEF Transaction
  <1>4. PICK m \in MarkSet : m = mark[s]
    BY <1>1 DEF TypeOK, MarkSet
  <1>5. /\ mark \in [Scopes -> MarkSet] /\ m.stamp <= clock /\ clock \in 0 .. MaxTx
        /\ m.stamp \in 0 .. MaxTx /\ m.last \in 0 .. MaxEnd /\ m.version \in Nat
        /\ t.stamp \in 0 .. MaxTx /\ MaxTx \in Nat
    BY <1>1, <1>4, BoundsAssumption DEF TypeOK, ClockOK, MarkSet, Transaction
  <1>6. CASE t.kind \notin {"upsert", "import"}
    <2>1. mark' = [mark EXCEPT ![s] = mark[s]]
      BY <1>2, <1>3, <1>6 DEF Commit
    <2>2. mark' = mark
      BY <1>5, <2>1
    <2> QED BY <1>2, <1>3, <1>4, <1>5, <1>6, <2>2
  <1>7. ASSUME NEW S \in SUBSET Ends, S # {}
        PROVE  Highest(S) \in 0 .. MaxEnd
    BY BoundsAre
  <1>8. ASSUME NEW last \in 0 .. MaxEnd PROVE Highest({m.last, last}) \in 0 .. MaxEnd
    BY <1>5, <1>8, PairIs
  <1>9. Writer(t) => Highest(t.offered) \in 0 .. MaxEnd
    BY BoundsAre DEF Transaction
  <1>10. CASE t.kind = "import"
    <2>1. PICK last \in 0 .. MaxEnd : last = Highest({m.last, Highest(t.offered)})
      BY <1>8, <1>9, <1>10 DEF Writer
    <2>2. PICK new : new = [m EXCEPT !.last = last, !.stamp = t.stamp]
      OBVIOUS
    <2>3. new \in MarkSet /\ new.stamp = t.stamp
      BY <1>5, <2>2 DEF MarkSet
    <2>4. mark' = [mark EXCEPT ![s] = new]
      BY <1>2, <1>3, <1>4, <1>10, <2>1, <2>2 DEF Commit, Imported
    <2>5. mark' \in [Scopes -> MarkSet] /\ mark'[s] = new
      BY <1>5, <2>3, <2>4
    <2> QED BY <1>2, <1>3, <1>10, <2>3, <2>5
  <1>11. CASE t.kind = "upsert"
    <2> DEFINE written == {Stored(t, e) : e \in Range(t) \intersect Ends}
               ends == {e \in Ends : e \in Range(t) /\ Stored(t, e) # 0}
    <2>1. \A e \in Ends : Stored(t, e) \in 0 .. clock
      <3>1. \A e \in Ends : bars[s][e] \in 0 .. MaxTx /\ bars[s][e] <= clock
        BY <1>1, <1>3 DEF TypeOK, ClockOK
      <3> QED BY <1>2, <1>3, <1>5, <3>1 DEF Stored
    <2>2. written \in SUBSET (0 .. clock)
      BY <2>1
    <2>3. /\ t.offered # {} /\ \A e \in t.offered : e \in Range(t)
          /\ t.wrote \subseteq t.offered /\ t.offered \in SUBSET Ends
      <3>1. t.offered # {} /\ t.wrote \subseteq t.offered /\ t.offered \in SUBSET Ends
        BY <1>2, <1>11 DEF Shape, Writer, Transaction
      <3>2. \A e \in t.offered : Lowest(t.offered) <= e /\ e <= Highest(t.offered)
                                 /\ Lowest(t.offered) \in Int /\ Highest(t.offered) \in Int /\ e \in Int
        BY <3>1, BoundsAre, BoundsAssumption DEF Ends
      <3> QED BY <3>1, <3>2 DEF Range
    <2>4. written # {}
      BY <2>3
    <2>5. t.wrote # {} => t.stamp \in written
      <3> SUFFICES ASSUME NEW e \in t.wrote PROVE t.stamp \in written
        OBVIOUS
      <3>1. e \in Range(t) \intersect Ends /\ Stored(t, e) = t.stamp
        BY <2>3 DEF Stored
      <3> QED BY <3>1
    <2>6. ends \in SUBSET Ends
      OBVIOUS
    <2> HIDE DEF written, ends
    <2>7. PICK changed \in written : changed = Highest(written) /\ \A f \in written : f <= changed
      <3>1. clock \in Nat
        BY <1>5
      <3>2. Highest(written) \in written /\ \A f \in written : f <= Highest(written)
        BY <2>2, <2>4, <3>1, HighestIs
      <3> QED BY <3>2
    <2>8. changed \in 0 .. clock /\ (t.wrote # {} => t.stamp <= changed)
      BY <2>2, <2>5, <2>7
    <2>9. PICK last \in 0 .. MaxEnd : last = Highest({m.last, Highest(ends)})
      BY <1>8, <2>6, BoundsAre
    <2>10. PICK stamp \in 0 .. clock : stamp = Highest({m.stamp, changed})
      <3>1. {m.stamp, changed} \in SUBSET (0 .. clock) /\ {m.stamp, changed} # {} /\ clock \in Nat
        BY <1>5, <2>8
      <3> QED BY <3>1, HighestIs
    <2>11. PICK version \in Nat : version = m.version + (IF changed > m.stamp THEN 1 ELSE 0)
      BY <1>5
    <2>12. mark' = [mark EXCEPT ![s] = Marked(m, Highest(ends), Highest(written))]
      BY <1>2, <1>3, <1>4, <1>11 DEF Commit, written, ends
    <2>13. Marked(m, Highest(ends), Highest(written)) = [last |-> last, version |-> version, stamp |-> stamp]
      BY <2>7, <2>9, <2>10, <2>11 DEF Marked
    <2>14. PICK new : new = [last |-> last, version |-> version, stamp |-> stamp]
      OBVIOUS
    <2>15. new \in MarkSet /\ new.stamp = stamp /\ new.version = version
      <3>1. stamp \in 0 .. MaxTx
        BY <1>5, <2>10
      <3> QED BY <2>14, <3>1 DEF MarkSet
    <2>16. mark' \in [Scopes -> MarkSet] /\ mark'[s] = new
      BY <1>5, <2>12, <2>13, <2>15, <2>14
    <2>17. ~t.overtaken => m.stamp < t.stamp
      BY <1>2, <1>3, <1>4, <1>11 DEF IInv, UpsertOK
    <2>18. ~t.overtaken /\ t.wrote # {} => m.version < version
      BY <1>5, <2>8, <2>11, <2>17
    <2> QED BY <1>2, <1>3, <1>4, <1>5, <1>11, <2>10, <2>15, <2>16, <2>18
  <1> QED BY <1>6, <1>10, <1>11

-----------------------------------------------------------------------------
(* A statement of p fits what is committed and what the others have done.    *)

Late(t) == t.kind = "delete" /\ t.pc \in {"cas", "invalidate", "commit"}

ClockFits(p) ==
    /\ tx'[p].stamp <= clock'
    /\ \A q \in Procs : q # p => tx'[p].stamp # tx[q].stamp \/ tx'[p].stamp = 0

UpsertFits(p) ==
    tx'[p].kind = "upsert" =>
        /\ \A q \in Procs : tx[q].kind = "upsert" /\ tx[q].scope = tx'[p].scope => q = p
        /\ ~tx'[p].overtaken => mark[tx'[p].scope].stamp < tx'[p].stamp

BarsFit(p) ==
    /\ \A q \in Procs : q # p /\ tx[q].scope = tx'[p].scope =>
         (tx'[p].offered \union tx'[p].removed) \intersect (tx[q].offered \union tx[q].removed) = {}
    /\ tx'[p].offered \ tx'[p].wrote \subseteq Present(tx'[p].scope)

RowsFit(p) ==
    \A g \in Gens :
        /\ RowOK(tx'[p].rows[g])
        /\ tx'[p].rows[g] # NoRow =>
             /\ generation[g].status # "none"
             /\ catalog[g][tx'[p].scope].ver < tx'[p].rows[g].ver
             /\ \A q \in Procs : q # p /\ tx[q].scope = tx'[p].scope => tx[q].rows[g] = NoRow
        /\ tx'[p].seen[g] # NoRow =>
             /\ generation[g].status # "none"
             /\ tx'[p].seen[g].ver <= catalog[g][tx'[p].scope].ver

CoverFits(p) ==
    \A g \in Gens : Maintained(g) =>
        /\ Writer(tx'[p]) /\ tx'[p].pc = "commit" => tx'[p].rows[g] # NoRow \/ g \in tx'[p].within
        /\ tx'[p].kind = "delete" /\ tx'[p].pc \in {"scan", "cas"} => tx'[p].seen[g] # NoRow
        /\ tx'[p].kind \in {"delete", "audit"} /\ tx'[p].pc = "commit" => tx'[p].rows[g] # NoRow

WidenFits(p) ==
    \A g \in Gens :
        Writer(tx'[p]) /\ tx'[p].rows[g] # NoRow =>
            tx'[p].rows[g] = Widened(catalog[g][tx'[p].scope], Lowest(tx'[p].offered),
                                     Highest(tx'[p].offered))

\* Also of the rows that others left alone.
WithinFits(p) ==
    \A g \in Gens : Maintained(g) /\ <<g, tx'[p].scope>> \notin raced' =>
        /\ g \in tx'[p].within =>
             /\ catalog[g][tx'[p].scope].state = "present"
             /\ catalog[g][tx'[p].scope].min <= Lowest(tx'[p].offered)
             /\ Highest(tx'[p].offered) <= catalog[g][tx'[p].scope].max
             /\ \A q \in Procs : ~(Late(tx[q]) /\ tx[q].scope = tx'[p].scope)
        /\ Late(tx'[p]) => \A q \in Procs :
             ~(q # p /\ tx[q].scope = tx'[p].scope /\ g \in tx[q].within)

ScanFits(p) ==
    \A g \in Gens : ~Writer(tx'[p]) /\ Maintained(g) /\ <<g, tx'[p].scope>> \notin raced' =>
        /\ tx'[p].pc = "cas" /\ tx'[p].seen[g] # NoRow
              /\ tx'[p].seen[g].ver = catalog[g][tx'[p].scope].ver
             => SameBounds(tx'[p].found, Present(tx'[p].scope) \ tx'[p].removed)
        /\ tx'[p].pc = "commit" /\ tx'[p].rows[g] # NoRow =>
             \/ tx'[p].kind # "bootstrap" /\ tx'[p].rows[g].state = "unknown"
             \/ /\ tx'[p].kind # "audit"
                /\ tx'[p].rows[g] = Exact(Present(tx'[p].scope) \ tx'[p].removed, tx'[p].rows[g].ver)

CatalogFits(p) == RowsFit(p) /\ CoverFits(p) /\ WidenFits(p) /\ WithinFits(p) /\ ScanFits(p)

LEMMA StatementKeepsTx ==
    ASSUME IInv, NEW p \in Procs, OnlyTx(p), Shape(tx'[p]),
           ClockFits(p), UpsertFits(p), BarsFit(p), RowsFit(p)
    PROVE  TypeOK' /\ ShapeOK' /\ ClockOK' /\ UpsertOK' /\ BarsHeld' /\ RowsHeld' /\ RowsOK'
  <1>1. /\ TypeOK /\ ShapeOK /\ ClockOK /\ UpsertOK /\ BarsHeld /\ RowsHeld /\ RowsOK
    BY DEF IInv
  <1>2. /\ \A q \in Procs : q # p => tx'[q] = tx[q]
        /\ tx' \in [Procs -> Transaction]
        /\ bars' = bars /\ mark' = mark /\ generation' = generation /\ control' = control
        /\ catalog' = catalog
        /\ clock <= clock' /\ clock' \in 1 .. MaxTx
        /\ raced \subseteq raced' /\ raced' \subseteq Gens \X Scopes
    BY DEF OnlyTx
  <1>3. TypeOK'
    BY <1>1, <1>2 DEF TypeOK
  <1>4. ShapeOK'
    <2> SUFFICES ASSUME NEW q \in Procs PROVE Shape(tx'[q])
      BY DEF ShapeOK
    <2> QED BY <1>1, <1>2 DEF ShapeOK
  <1>5. ClockOK'
    <2>1. clock \in Int /\ clock' \in Int /\ \A q \in Procs : tx[q].stamp \in Int
      BY <1>1, <1>2, BoundsAssumption DEF TypeOK, Transaction
    <2>2. \A s \in Scopes : mark[s].stamp \in Int /\ \A e \in Ends : bars[s][e] \in Int
      BY <1>1, BoundsAssumption DEF TypeOK
    <2>3. \A s \in Scopes : mark'[s].stamp <= clock' /\ \A e \in Ends : bars'[s][e] <= clock'
      BY <1>1, <1>2, <2>1, <2>2 DEF ClockOK
    <2>4. \A q \in Procs : tx'[q].stamp <= clock'
      BY <1>1, <1>2, <2>1 DEF ClockOK, ClockFits
    <2>5. ASSUME NEW a \in Procs, NEW b \in Procs, a # b, tx'[a].stamp = tx'[b].stamp
          PROVE  tx'[a].stamp = 0
      BY <1>1, <1>2, <2>5 DEF ClockOK, ClockFits
    <2> QED BY <2>3, <2>4, <2>5 DEF ClockOK
  <1>6. UpsertOK'
    <2> SUFFICES ASSUME NEW a \in Procs, tx'[a].kind = "upsert"
                 PROVE  /\ \A b \in Procs : tx'[b].kind = "upsert" /\ tx'[b].scope = tx'[a].scope => b = a
                        /\ ~tx'[a].overtaken => mark'[tx'[a].scope].stamp < tx'[a].stamp
      BY DEF UpsertOK
    <2>1. CASE a = p
      BY <1>2, <2>1 DEF UpsertFits
    <2>2. CASE a # p
      <3>1. tx'[a] = tx[a]
        BY <1>2, <2>2
      <3>2. ~tx'[a].overtaken => mark'[tx'[a].scope].stamp < tx'[a].stamp
        BY <1>1, <1>2, <3>1 DEF UpsertOK
      <3>3. ASSUME NEW b \in Procs, tx'[b].kind = "upsert", tx'[b].scope = tx'[a].scope, b # a
            PROVE  FALSE
        BY <1>1, <1>2, <2>2, <3>1, <3>3 DEF UpsertOK, UpsertFits
      <3> QED BY <3>2, <3>3
    <2> QED BY <2>1, <2>2
  <1>7. BarsHeld'
    <2>1. ASSUME NEW a \in Procs, NEW b \in Procs, a # b, tx'[a].scope = tx'[b].scope
          PROVE  (tx'[a].offered \union tx'[a].removed) \intersect (tx'[b].offered \union tx'[b].removed) = {}
      <3>1. CASE a = p
        BY <1>2, <2>1, <3>1 DEF BarsFit
      <3>2. CASE b = p
        BY <1>2, <2>1, <3>2 DEF BarsFit
      <3>3. CASE a # p /\ b # p
        <4>1. tx'[a] = tx[a] /\ tx'[b] = tx[b]
          BY <1>2, <3>3
        <4> QED BY <1>1, <2>1, <4>1 DEF BarsHeld
      <3> QED BY <3>1, <3>2, <3>3
    <2>2. ASSUME NEW a \in Procs
          PROVE  tx'[a].offered \ tx'[a].wrote \subseteq Present(tx'[a].scope)
      <3>1. CASE a = p
        BY <3>1 DEF BarsFit
      <3>2. CASE a # p
        <4>1. tx'[a] = tx[a]
          BY <1>2, <3>2
        <4> QED BY <1>1, <4>1 DEF BarsHeld
      <3> QED BY <3>1, <3>2
    <2>3. \A s : Present(s)' = Present(s)
      BY <1>2 DEF Present
    <2>4. \A a \in Procs : tx'[a].offered \ tx'[a].wrote \subseteq Present(tx[a].scope)'
      BY <1>2, <2>2 DEF Present
    <2> QED BY <2>1, <2>4 DEF BarsHeld
  <1>8. RowsHeld'
    <2> SUFFICES ASSUME NEW a \in Procs, NEW b \in Procs, NEW g \in Gens, tx'[a].scope = tx'[b].scope,
                        tx'[a].rows[g] # NoRow, tx'[b].rows[g] # NoRow, a # b
                 PROVE  FALSE
      BY DEF RowsHeld
    <2>1. CASE a = p
      BY <1>2, <2>1 DEF RowsFit
    <2>2. CASE b = p
      BY <1>2, <2>2 DEF RowsFit
    <2>3. CASE a # p /\ b # p
      <3>1. tx'[a] = tx[a] /\ tx'[b] = tx[b]
        BY <1>2, <2>3
      <3> QED BY <1>1, <3>1 DEF RowsHeld
    <2> QED BY <2>1, <2>2, <2>3
  <1>9. RowsOK'
    <2>1. ASSUME NEW a \in Procs, NEW g \in Gens
          PROVE  /\ RowOK(tx'[a].rows[g])
                 /\ tx'[a].rows[g] # NoRow => /\ generation[g].status # "none"
                                              /\ catalog[g][tx'[a].scope].ver < tx'[a].rows[g].ver
                 /\ tx'[a].seen[g] # NoRow => /\ generation[g].status # "none"
                                              /\ tx'[a].seen[g].ver <= catalog[g][tx'[a].scope].ver
      <3>1. CASE a = p
        BY <3>1 DEF RowsFit
      <3>2. CASE a # p
        <4>1. tx'[a] = tx[a]
          BY <1>2, <3>2
        <4> QED BY <1>1, <4>1 DEF RowsOK
      <3> QED BY <3>1, <3>2
    <2> QED BY <1>1, <1>2, <2>1 DEF RowsOK
  <1> QED BY <1>3, <1>4, <1>5, <1>6, <1>7, <1>8, <1>9

LEMMA StatementKeepsCatalog ==
    ASSUME IInv, NEW p \in Procs, OnlyTx(p), Shape(tx'[p]), CoverFits(p), WidenFits(p), WithinFits(p), ScanFits(p)
    PROVE  AllCovered' /\ WidenedOK' /\ WithinOK' /\ BoundsAreBars' /\ ScannedOK' /\ CatalogExact'
  <1>1. AllCovered /\ WidenedOK /\ WithinOK /\ BoundsAreBars /\ ScannedOK /\ CatalogExact
    BY DEF IInv
  <1>2. /\ \A q \in Procs : q # p => tx'[q] = tx[q]
        /\ bars' = bars /\ generation' = generation /\ control' = control /\ catalog' = catalog
        /\ raced \subseteq raced'
    BY DEF OnlyTx
  <1>3. \A g \in Gens : Maintained(g)' <=> Maintained(g)
    BY <1>2 DEF Maintained
  <1>4. \A s \in Scopes : Present(s)' = Present(s)
    BY <1>2 DEF Present
  <1>5. ASSUME NEW g \in Gens, NEW s \in Scopes
        PROVE  Kept(g, s)' => Kept(g, s) /\ Maintained(g) /\ <<g, s>> \notin raced'
    BY <1>2, <1>3 DEF Kept
  <1>6. \A a \in Procs : tx'[a].scope \in Scopes
    BY DEF OnlyTx, Transaction
  <1>7. AllCovered'
    <2> SUFFICES ASSUME NEW a \in Procs, NEW g \in Gens, Maintained(g)'
                 PROVE /\ Writer(tx'[a]) /\ tx'[a].pc = "commit" => tx'[a].rows[g] # NoRow \/ g \in tx'[a].within
                       /\ tx'[a].kind = "delete" /\ tx'[a].pc \in {"scan", "cas"} => tx'[a].seen[g] # NoRow
                       /\ tx'[a].kind \in {"delete", "audit"} /\ tx'[a].pc = "commit" => tx'[a].rows[g] # NoRow
      BY DEF AllCovered, Writer
    <2>1. Maintained(g)
      BY <1>3
    <2>2. CASE a = p
      BY <2>1, <2>2 DEF CoverFits
    <2>3. CASE a # p
      <3>1. tx'[a] = tx[a]
        BY <1>2, <2>3
      <3> QED BY <1>1, <2>1, <3>1 DEF AllCovered
    <2> QED BY <2>2, <2>3
  <1>8. WidenedOK'
    <2> SUFFICES ASSUME NEW a \in Procs, NEW g \in Gens, Writer(tx'[a]), tx'[a].rows[g] # NoRow
                 PROVE  tx'[a].rows[g] = Widened(catalog'[g][tx'[a].scope], Lowest(tx'[a].offered),
                                                 Highest(tx'[a].offered))
      BY DEF WidenedOK, Writer
    <2>1. CASE a = p
      BY <1>2, <2>1 DEF WidenFits
    <2>2. CASE a # p
      <3>1. tx'[a] = tx[a]
        BY <1>2, <2>2
      <3> QED BY <1>1, <1>2, <3>1 DEF WidenedOK
    <2> QED BY <2>1, <2>2
  <1>9. WithinOK'
    <2> SUFFICES ASSUME NEW a \in Procs, NEW g \in Gens, g \in tx'[a].within, Kept(g, tx[a].scope)'
                 PROVE /\ catalog'[g][tx'[a].scope].state = "present"
                       /\ catalog'[g][tx'[a].scope].min <= Lowest(tx'[a].offered)
                       /\ Highest(tx'[a].offered) <= catalog'[g][tx'[a].scope].max
                       /\ \A b \in Procs : ~ /\ tx'[b].kind = "delete" /\ tx'[b].scope = tx'[a].scope
                                             /\ tx'[b].pc \in {"cas", "invalidate", "commit"}
      BY DEF WithinOK
    <2>1. PICK s \in Scopes : s = tx'[a].scope
      BY <1>6
    <2>2. Kept(g, s) /\ Maintained(g) /\ <<g, s>> \notin raced'
      BY <1>2, <1>3, <2>1 DEF Kept
    <2>3. CASE a = p
      <3>1. ~Late(tx'[p])
        BY <2>3 DEF Shape, Late, Writer
      <3>2. \A b \in Procs : ~ (Late(tx[b]) /\ tx[b].scope = s)
        BY <2>1, <2>2, <2>3 DEF WithinFits
      <3>3. \A b \in Procs : ~ (Late(tx'[b]) /\ tx'[b].scope = s)
        BY <1>2, <3>1, <3>2
      <3> QED BY <1>2, <2>1, <2>2, <2>3, <3>3 DEF WithinFits, Late
    <2>4. CASE a # p
      <3>1. tx'[a] = tx[a]
        BY <1>2, <2>4
      <3>2. /\ catalog[g][s].state = "present"
            /\ catalog[g][s].min <= Lowest(tx[a].offered)
            /\ Highest(tx[a].offered) <= catalog[g][s].max
            /\ \A b \in Procs : ~ (Late(tx[b]) /\ tx[b].scope = s)
        BY <1>1, <2>1, <2>2, <3>1 DEF WithinOK, Late
      <3>3. ~ (Late(tx'[p]) /\ tx'[p].scope = s)
        BY <2>1, <2>2, <2>4, <3>1 DEF WithinFits
      <3>4. \A b \in Procs : ~ (Late(tx'[b]) /\ tx'[b].scope = s)
        BY <1>2, <3>2, <3>3
      <3> QED BY <1>2, <2>1, <3>1, <3>2, <3>4 DEF Late
    <2> QED BY <2>3, <2>4
  <1>10. BoundsAreBars'
    BY <1>1, <1>2, <1>4, <1>5 DEF BoundsAreBars
  <1>11. ScannedOK'
    <2> SUFFICES ASSUME NEW a \in Procs, NEW g \in Gens, ~Writer(tx'[a]), Kept(g, tx[a].scope)'
                 PROVE  /\ tx'[a].pc = "cas" /\ tx'[a].seen[g] # NoRow
                              /\ tx'[a].seen[g].ver = catalog'[g][tx'[a].scope].ver
                             => SameBounds(tx'[a].found, Rest(a)')
                        /\ tx'[a].pc = "commit" /\ tx'[a].rows[g] # NoRow =>
                             \/ tx'[a].kind # "bootstrap" /\ tx'[a].rows[g].state = "unknown"
                             \/ tx'[a].kind # "audit" /\ tx'[a].rows[g] = Exact(Rest(a)', tx'[a].rows[g].ver)
      BY DEF ScannedOK, Writer, SameBounds, Lowest, Highest, Exact
    <2>1. PICK s \in Scopes : s = tx'[a].scope
      BY <1>6
    <2>2. Kept(g, s) /\ Maintained(g) /\ <<g, s>> \notin raced'
      BY <1>2, <1>3, <2>1 DEF Kept
    <2>3. Rest(a)' = Present(s) \ tx'[a].removed
      BY <1>2, <2>1 DEF Rest, Present
    <2>4. CASE a = p
      BY <1>2, <2>1, <2>2, <2>3, <2>4 DEF ScanFits
    <2>5. CASE a # p
      <3>1. tx'[a] = tx[a]
        BY <1>2, <2>5
      <3>2. Rest(a) = Rest(a)'
        BY <2>1, <2>3, <3>1 DEF Rest
      <3> QED BY <1>1, <1>2, <2>1, <2>2, <3>1, <3>2 DEF ScannedOK
    <2> QED BY <2>4, <2>5
  <1>12. CatalogExact'
    <2> SUFFICES ASSUME NEW g \in Gens, NEW s \in Scopes, Maintained(g)', catalog'[g][s].complete,
                        <<g, s>> \notin raced'
                 PROVE  /\ catalog'[g][s].state = IF Present(s)' = {} THEN "empty" ELSE "present"
                        /\ catalog'[g][s].min = Lowest(Present(s)')
                        /\ catalog'[g][s].max = Highest(Present(s)')
      BY DEF CatalogExact, Lowest, Highest
    <2> QED BY <1>1, <1>2, <1>3, <1>4 DEF CatalogExact
  <1> QED BY <1>7, <1>8, <1>9, <1>10, <1>11, <1>12

LEMMA StatementKeeps ==
    ASSUME IInv, NEW p \in Procs, OnlyTx(p), Shape(tx'[p]), ClockFits(p), UpsertFits(p), BarsFit(p), CatalogFits(p)
    PROVE  IInv'
  BY StatementKeepsTx, StatementKeepsCatalog DEF IInv, CatalogFits

-----------------------------------------------------------------------------
(* Every statement fits.                                                     *)

\* A maintained generation has a row of every scope.
LEMMA MaintainedRow ==
    ASSUME IInv, NEW g \in Gens, NEW s \in Scopes, Maintained(g)
    PROVE  /\ generation[g].status # "none" /\ catalog[g][s] # NoRow
           /\ catalog[g][s].state # "none" /\ WellFormed(catalog[g][s])
  <1>1. generation[g].status # "none"
    BY DEF Maintained
  <1>2. catalog[g][s] # NoRow
    BY <1>1 DEF IInv, RowsOK
  <1> QED BY <1>1, <1>2 DEF IInv, RowsOK, RowOK

\* A transaction that says nothing of the catalog.
LEMMA BlankFits ==
    ASSUME IInv, NEW p \in Procs, OnlyTx(p), Blank(tx'[p]),
           tx'[p].pc \notin {"scan", "cas", "invalidate", "commit"}
    PROVE  CatalogFits(p)
  <1>1. RowsFit(p)
    BY DEF Blank, RowsFit, RowOK
  <1>2. CoverFits(p)
    BY DEF CoverFits
  <1>3. WidenFits(p)
    BY DEF WidenFits, Blank
  <1>4. WithinFits(p)
    BY DEF WithinFits, Blank, Late
  <1>5. ScanFits(p)
    BY DEF ScanFits
  <1> QED BY <1>1, <1>2, <1>3, <1>4, <1>5 DEF CatalogFits

LEMMA NewStampFits ==
    ASSUME IInv, NEW p \in Procs, OnlyTx(p), tx'[p].stamp = 0 \/ (tx'[p].stamp = clock' /\ clock' = clock + 1)
    PROVE  ClockFits(p)
  <1>1. /\ clock \in Int /\ clock' \in Int /\ 0 <= clock' /\ MaxTx \in Int
        /\ \A q \in Procs : tx[q].stamp \in Int /\ tx[q].stamp <= clock
    BY BoundsAssumption DEF IInv, TypeOK, Transaction, ClockOK, OnlyTx
  <1> QED BY <1>1 DEF ClockFits

LEMMA GoesFits ==
    ASSUME IInv, NEW p \in Procs, Goes(p)
    PROVE  ClockFits(p) /\ UpsertFits(p) /\ OnlyTx(p)
  <1>1. OnlyTx(p) /\ ClockOK /\ UpsertOK
    BY DEF IInv, Goes
  <1>2. ClockFits(p)
    BY <1>1 DEF Goes, ClockFits, ClockOK
  <1>3. UpsertFits(p)
    BY <1>1 DEF Goes, UpsertFits, UpsertOK
  <1> QED BY <1>1, <1>2, <1>3

LEMMA GoesOnBars ==
    ASSUME IInv, NEW p \in Procs, GoesOn(p), tx'[p].removed = tx[p].removed
    PROVE  BarsFit(p)
  BY DEF IInv, BarsHeld, BarsFit, GoesOn, Goes

\* Bars that nobody else holds.
LEMMA UnheldBars ==
    ASSUME NEW p \in Procs, tx'[p].offered \ tx'[p].wrote \subseteq Present(tx'[p].scope),
           \A e \in tx'[p].offered \union tx'[p].removed : ~BarHeld(p, tx'[p].scope, e)
    PROVE  BarsFit(p)
  <1> SUFFICES ASSUME NEW q \in Procs, q # p, tx[q].scope = tx'[p].scope
               PROVE  (tx'[p].offered \union tx'[p].removed) \intersect (tx[q].offered \union tx[q].removed) = {}
    BY DEF BarsFit
  <1> SUFFICES ASSUME NEW e \in tx'[p].offered \union tx'[p].removed, e \in tx[q].offered \union tx[q].removed
               PROVE  FALSE
    OBVIOUS
  <1>1. BarHeld(p, tx'[p].scope, e)
    BY DEF BarHeld
  <1> QED BY <1>1

LEMMA UpsertStep ==
    ASSUME IInv, NEW p \in Procs, NEW s \in Scopes, Upsert(p, s)
    PROVE  IInv'
  <1>1. TypeOK
    BY DEF IInv
  <1>2. /\ OnlyTx(p) /\ tx'[p].scope = s /\ HasWritten(p, s) /\ clock' = clock + 1
        /\ tx'[p].kind = "upsert" /\ tx'[p].stamp = clock'
        /\ \A q \in Procs : ~(tx[q].kind = "upsert" /\ tx[q].scope = s)
    BY <1>1, UpsertIs DEF Begun
  <1>3. clock \in Int /\ clock' > 0 /\ mark[s].stamp \in Int /\ mark[s].stamp <= clock
    BY <1>1, <1>2, BoundsAssumption DEF TypeOK, IInv, ClockOK, OnlyTx
  <1>4. Shape(tx'[p])
    BY <1>2, <1>3 DEF Shape, HasWritten, Blank, Writer
  <1>5. ClockFits(p)
    BY <1>2, NewStampFits
  <1>6. UpsertFits(p)
    BY <1>2, <1>3 DEF UpsertFits
  <1>7. BarsFit(p)
    BY <1>2, UnheldBars DEF HasWritten
  <1>8. CatalogFits(p)
    BY <1>2, BlankFits DEF HasWritten
  <1> QED BY <1>2, <1>4, <1>5, <1>6, <1>7, <1>8, StatementKeeps

LEMMA BeginImportStep ==
    ASSUME IInv, NEW p \in Procs, NEW s \in Scopes, BeginImport(p, s)
    PROVE  IInv'
  <1>1. TypeOK
    BY DEF IInv
  <1>2. /\ OnlyTx(p) /\ tx'[p].scope = s /\ clock' = clock + 1 /\ Blank(tx'[p])
        /\ tx'[p].kind = "import" /\ tx'[p].pc = "write" /\ tx'[p].stamp = clock'
        /\ tx'[p].offered = {} /\ tx'[p].wrote = {} /\ tx'[p].removed = {}
    BY <1>1, BeginImportIs DEF Begun
  <1>3. clock \in Int /\ clock' > 0
    BY <1>1, <1>2, BoundsAssumption DEF TypeOK, OnlyTx
  <1>4. Shape(tx'[p])
    BY <1>2, <1>3 DEF Shape, Blank, Writer
  <1>5. ClockFits(p) /\ UpsertFits(p)
    BY <1>2, NewStampFits DEF UpsertFits
  <1>6. BarsFit(p)
    BY <1>2 DEF BarsFit
  <1>7. CatalogFits(p)
    BY <1>2, BlankFits
  <1> QED BY <1>2, <1>4, <1>5, <1>6, <1>7, StatementKeeps

LEMMA BeginDeleteStep ==
    ASSUME IInv, NEW p \in Procs, NEW s \in Scopes, BeginDelete(p, s)
    PROVE  IInv'
  <1>1. TypeOK
    BY DEF IInv
  <1>2. /\ OnlyTx(p) /\ tx'[p].scope = s /\ Blank(tx'[p])
        /\ tx'[p].kind = "delete" /\ tx'[p].pc = "remove" /\ tx'[p].stamp = 0
        /\ tx'[p].offered = {} /\ tx'[p].wrote = {} /\ tx'[p].removed = {}
    BY <1>1, BeginDeleteIs DEF Begun
  <1>3. Shape(tx'[p])
    BY <1>2 DEF Shape, Blank, Writer
  <1>4. ClockFits(p) /\ UpsertFits(p)
    BY <1>2, NewStampFits DEF UpsertFits
  <1>5. BarsFit(p)
    BY <1>2 DEF BarsFit
  <1>6. CatalogFits(p)
    BY <1>2, BlankFits
  <1> QED BY <1>2, <1>3, <1>4, <1>5, <1>6, StatementKeeps

LEMMA AuditStep ==
    ASSUME IInv, NEW p \in Procs, NEW s \in Scopes, Audit(p, s)
    PROVE  IInv'
  <1>1. TypeOK
    BY DEF IInv
  <1>2. /\ OnlyTx(p) /\ tx'[p].scope = s /\ Blank(tx'[p]) /\ clock' = clock + 1
        /\ tx'[p].kind = "audit" /\ tx'[p].pc = "forget" /\ tx'[p].stamp = clock'
        /\ tx'[p].offered = tx'[p].wrote /\ tx'[p].wrote \intersect tx'[p].removed = {}
        /\ \A e \in tx'[p].offered \union tx'[p].removed : ~BarHeld(p, s, e)
    BY <1>1, AuditIs DEF Begun
  <1>3. tx'[p].stamp > 0
    BY <1>1, <1>2 DEF TypeOK
  <1>4. Shape(tx'[p])
    BY <1>2, <1>3 DEF Shape, Blank, Writer
  <1>5. ClockFits(p) /\ UpsertFits(p)
    BY <1>2, NewStampFits DEF UpsertFits
  <1>6. BarsFit(p)
    BY <1>2, UnheldBars
  <1>7. CatalogFits(p)
    BY <1>2, BlankFits
  <1> QED BY <1>2, <1>4, <1>5, <1>6, <1>7, StatementKeeps

LEMMA ImportStep ==
    ASSUME IInv, NEW p \in Procs, Import(p)
    PROVE  IInv'
  <1>1. Shape(tx[p]) /\ tx[p].kind = "import" /\ Goes(p) /\ HasWritten(p, tx[p].scope)
    BY ImportIs DEF IInv, ShapeOK
  <1>2. OnlyTx(p) /\ tx'[p].kind = "import" /\ tx'[p].stamp = tx[p].stamp /\ tx'[p].scope = tx[p].scope
    BY <1>1 DEF Goes
  <1>3. Shape(tx'[p])
    BY <1>1, <1>2 DEF Shape, HasWritten, Blank, Writer
  <1>4. ClockFits(p) /\ UpsertFits(p)
    BY <1>1, GoesFits
  <1>5. BarsFit(p)
    BY <1>1, <1>2, UnheldBars DEF HasWritten
  <1>6. CatalogFits(p)
    BY <1>1, <1>2, BlankFits DEF HasWritten
  <1> QED BY <1>2, <1>3, <1>4, <1>5, <1>6, StatementKeeps

LEMMA RemoveStep ==
    ASSUME IInv, NEW p \in Procs, Remove(p)
    PROVE  IInv'
  <1>1. /\ Shape(tx[p]) /\ tx[p].kind = "delete" /\ tx'[p].pc = "select" /\ GoesOn(p) /\ Blank(tx'[p])
        /\ \A e \in tx'[p].removed : ~BarHeld(p, tx[p].scope, e)
    BY RemoveIs DEF IInv, ShapeOK
  <1>2. /\ Goes(p) /\ OnlyTx(p) /\ tx'[p].kind = "delete" /\ tx'[p].scope = tx[p].scope
        /\ tx'[p].offered = {} /\ tx'[p].wrote = {}
    BY <1>1 DEF GoesOn, Goes, Shape, Writer
  <1>3. Shape(tx'[p])
    BY <1>1, <1>2 DEF Shape, Blank, Writer
  <1>4. ClockFits(p) /\ UpsertFits(p)
    BY <1>2, GoesFits
  <1>5. BarsFit(p)
    BY <1>1, <1>2, UnheldBars
  <1>6. CatalogFits(p)
    BY <1>1, <1>2, BlankFits
  <1> QED BY <1>2, <1>3, <1>4, <1>5, <1>6, StatementKeeps

LEMMA RollbackStep ==
    ASSUME IInv, NEW p \in Procs, Rollback(p)
    PROVE  IInv'
  <1>1. OnlyTx(p) /\ tx'[p] = Idle
    BY RollbackIs DEF IInv
  <1>2. /\ tx'[p].kind = "none" /\ tx'[p].pc = "idle" /\ tx'[p].stamp = 0 /\ Blank(tx'[p])
        /\ tx'[p].offered = {} /\ tx'[p].wrote = {} /\ tx'[p].removed = {}
    BY <1>1, IdleIs DEF Blank
  <1>3. Shape(tx'[p])
    BY <1>2 DEF Shape, Blank, Writer
  <1>4. ClockFits(p) /\ UpsertFits(p)
    BY <1>1, <1>2, NewStampFits DEF UpsertFits
  <1>5. BarsFit(p)
    BY <1>2 DEF BarsFit
  <1>6. CatalogFits(p)
    BY <1>1, <1>2, BlankFits
  <1> QED BY <1>1, <1>3, <1>4, <1>5, <1>6, StatementKeeps

LEMMA BootstrapStep ==
    ASSUME IInv, NEW p \in Procs, NEW g \in Gens, NEW s \in Scopes, Bootstrap(p, g, s)
    PROVE  IInv'
  <1>1. TypeOK
    BY DEF IInv
  <1>2. /\ OnlyTx(p) /\ tx'[p].scope = s
        /\ tx'[p].kind = "bootstrap" /\ tx'[p].pc = "scan" /\ tx'[p].stamp = 0
        /\ tx'[p].offered = {} /\ tx'[p].wrote = {} /\ tx'[p].removed = {} /\ tx'[p].within = {}
        /\ \A k \in Gens : /\ tx'[p].rows[k] = NoRow
                           /\ tx'[p].seen[k] = IF k = g THEN catalog[g][s] ELSE NoRow
        /\ generation[g].status = "building"
    BY <1>1, BootstrapIs DEF Begun
  <1>3. Shape(tx'[p])
    BY <1>2 DEF Shape, Writer
  <1>4. ClockFits(p) /\ UpsertFits(p)
    BY <1>2, NewStampFits DEF UpsertFits
  <1>5. BarsFit(p)
    BY <1>2 DEF BarsFit
  <1>6. RowsFit(p)
    <2>1. catalog[g][s].ver \in Nat
      BY <1>1 DEF TypeOK, CatalogRow
    <2>2. catalog[g][s].ver <= catalog[g][s].ver
      BY <2>1
    <2> QED BY <1>2, <2>2 DEF RowsFit, RowOK
  <1>7. CoverFits(p) /\ WidenFits(p)
    BY <1>2 DEF CoverFits, WidenFits, Writer
  <1>8. WithinFits(p) /\ ScanFits(p)
    BY <1>2 DEF WithinFits, ScanFits, Late
  <1> QED BY <1>2, <1>3, <1>4, <1>5, <1>6, <1>7, <1>8, StatementKeeps DEF CatalogFits

LEMMA RecordStep ==
    ASSUME IInv, NEW p \in Procs, Record(p)
    PROVE  IInv'
  <1> DEFINE lo == Lowest(tx[p].offered)
             hi == Highest(tx[p].offered)
             row(g) == catalog[g][tx[p].scope]
  <1>1. /\ Shape(tx[p]) /\ tx'[p].pc = "commit" /\ GoesOn(p) /\ Writer(tx[p])
        /\ tx[p].pc = "record" /\ tx'[p].removed = {}
    BY RecordIs DEF IInv, ShapeOK
  <1>2. ASSUME NEW g \in Gens
        PROVE  /\ tx'[p].seen[g] = NoRow
               /\ g \in tx'[p].within => Maintained(g) /\ ~Widens(row(g), lo, hi)
               /\ tx'[p].rows[g] # NoRow =>
                     /\ Maintained(g) /\ ~RowHeld(p, g, tx[p].scope)
                     /\ tx'[p].rows[g] = Widened(row(g), lo, hi)
                     /\ WellFormed(tx'[p].rows[g]) /\ tx'[p].rows[g].state = "present"
                     /\ tx'[p].rows[g].ver = row(g).ver + 1
               /\ Maintained(g) => tx'[p].rows[g] # NoRow \/ g \in tx'[p].within
               /\ g \in tx'[p].within =>
                     \A q \in Procs : /\ tx[q].kind = "delete" /\ tx[q].scope = tx[p].scope
                                      /\ tx[q].pc \in {"cas", "invalidate", "commit"}
                                      => <<g, tx[p].scope>> \in raced'
    BY <1>2, RecordIs
  <1>3. /\ Goes(p) /\ OnlyTx(p) /\ tx'[p].kind = tx[p].kind /\ tx'[p].scope = tx[p].scope
        /\ tx'[p].offered = tx[p].offered /\ tx'[p].wrote = tx[p].wrote
        /\ tx'[p].stamp = tx[p].stamp /\ tx[p] \in Transaction
    BY <1>1 DEF GoesOn, Goes, IInv, TypeOK
  <1>4. tx'[p].removed = tx[p].removed
    BY <1>1 DEF Shape, Writer
  <1>5. Shape(tx'[p])
    BY <1>1, <1>2, <1>3 DEF Shape, Writer
  <1>6. ClockFits(p) /\ UpsertFits(p) /\ BarsFit(p)
    BY <1>1, <1>3, <1>4, GoesFits, GoesOnBars
  <1>7. tx[p].scope \in Scopes
    BY <1>3 DEF Transaction
  <1>8. ASSUME NEW g \in Gens PROVE row(g) \in CatalogRow
    BY <1>7 DEF IInv, TypeOK
  <1>9. RowsFit(p)
    <2> SUFFICES ASSUME NEW g \in Gens, tx'[p].rows[g] # NoRow
                 PROVE  /\ RowOK(tx'[p].rows[g]) /\ generation[g].status # "none"
                        /\ row(g).ver < tx'[p].rows[g].ver
                        /\ \A q \in Procs : q # p /\ tx[q].scope = tx[p].scope => tx[q].rows[g] = NoRow
      BY <1>2, <1>3 DEF RowsFit, RowOK
    <2>1. /\ Maintained(g) /\ ~RowHeld(p, g, tx[p].scope)
          /\ WellFormed(tx'[p].rows[g]) /\ tx'[p].rows[g].state = "present"
          /\ tx'[p].rows[g].ver = row(g).ver + 1
      BY <1>2
    <2>2. row(g).ver \in Nat
      BY <1>8 DEF CatalogRow
    <2>3. row(g).ver < tx'[p].rows[g].ver
      BY <2>1, <2>2
    <2>4. generation[g].status # "none" /\ RowOK(tx'[p].rows[g])
      BY <2>1 DEF Maintained, RowOK
    <2>5. \A q \in Procs : q # p /\ tx[q].scope = tx[p].scope => tx[q].rows[g] = NoRow
      BY <2>1 DEF RowHeld
    <2> QED BY <2>3, <2>4, <2>5
  <1>10. CoverFits(p)
    BY <1>1, <1>2, <1>3 DEF CoverFits, Writer
  <1>11. WidenFits(p)
    BY <1>2, <1>3 DEF WidenFits
  <1>12. WithinFits(p)
    <2>1. ~Late(tx'[p])
      BY <1>1, <1>3 DEF Late, Writer
    <2>2. ASSUME NEW g \in Gens, g \in tx'[p].within
          PROVE  row(g).state = "present" /\ row(g).min <= lo /\ hi <= row(g).max
      <3>1. Maintained(g) /\ ~Widens(row(g), lo, hi)
        BY <1>2, <2>2
      <3>2. row(g).state # "none"
        BY <1>7, <3>1, MaintainedRow
      <3>3. row(g).state = "present" /\ ~(lo < row(g).min) /\ ~(row(g).max < hi)
        BY <3>1, <3>2 DEF Widens
      <3>4. PICK a \in Int, b \in Int : a = lo /\ b = hi
        BY <1>1, OfferedIs, BoundsAssumption DEF Ends
      <3>5. row(g).min \in Int /\ row(g).max \in Int
        BY <1>8, BoundsAssumption DEF CatalogRow
      <3> HIDE DEF lo, hi, row
      <3> QED BY <3>3, <3>4, <3>5
    <2>3. ASSUME NEW g \in Gens, g \in tx'[p].within, <<g, tx[p].scope>> \notin raced',
                 NEW q \in Procs, Late(tx[q]), tx[q].scope = tx[p].scope
          PROVE  FALSE
      BY <1>2, <2>3 DEF Late
    <2> QED BY <1>3, <2>1, <2>2, <2>3 DEF WithinFits
  <1>13. ScanFits(p)
    BY <1>1, <1>3 DEF ScanFits, Writer
  <1> QED BY <1>3, <1>5, <1>6, <1>9, <1>10, <1>11, <1>12, <1>13, StatementKeeps DEF CatalogFits

LEMMA SelectStep ==
    ASSUME IInv, NEW p \in Procs, Select(p)
    PROVE  IInv'
  <1>1. /\ Shape(tx[p]) /\ tx[p].kind = "delete" /\ tx'[p].pc = "scan" /\ GoesOn(p)
        /\ tx'[p].removed = tx[p].removed /\ tx'[p].within = {}
        /\ \A g \in Gens : /\ tx'[p].rows[g] = NoRow
                           /\ tx'[p].seen[g] = IF Maintained(g) THEN catalog[g][tx[p].scope] ELSE NoRow
    BY SelectIs DEF IInv, ShapeOK
  <1>2. /\ Goes(p) /\ OnlyTx(p) /\ tx'[p].kind = "delete" /\ tx'[p].scope = tx[p].scope
        /\ tx'[p].offered = tx[p].offered /\ tx'[p].wrote = tx[p].wrote
    BY <1>1 DEF GoesOn, Goes
  <1>3. Shape(tx'[p])
    BY <1>1, <1>2 DEF Shape, Writer
  <1>4. ClockFits(p) /\ UpsertFits(p) /\ BarsFit(p)
    BY <1>1, <1>2, GoesFits, GoesOnBars
  <1>5. tx[p].scope \in Scopes
    BY DEF IInv, TypeOK, Transaction
  <1>6. ASSUME NEW g \in Gens
        PROVE  catalog[g][tx[p].scope].ver <= catalog[g][tx[p].scope].ver
    BY <1>5 DEF IInv, TypeOK, CatalogRow
  <1>7. RowsFit(p)
    <2> SUFFICES ASSUME NEW g \in Gens, tx'[p].seen[g] # NoRow
                 PROVE  generation[g].status # "none" /\ tx'[p].seen[g].ver <= catalog[g][tx[p].scope].ver
      BY <1>1, <1>2 DEF RowsFit, RowOK
    <2> QED BY <1>1, <1>6 DEF Maintained
  <1>8. CoverFits(p)
    BY <1>1, <1>2, <1>5, MaintainedRow DEF CoverFits, Writer
  <1>9. WidenFits(p) /\ WithinFits(p) /\ ScanFits(p)
    BY <1>1, <1>2 DEF WidenFits, WithinFits, ScanFits, Writer, Late
  <1> QED BY <1>2, <1>3, <1>4, <1>7, <1>8, <1>9, StatementKeeps DEF CatalogFits

\* A deletion that has scanned the bars goes on past it.
LEMMA LateStays ==
    ASSUME IInv, NEW p \in Procs, Late(tx[p]), OnlyTx(p), NEW g \in Gens, Maintained(g),
           <<g, tx[p].scope>> \notin raced', NEW q \in Procs, tx[q].scope = tx[p].scope
    PROVE  g \notin tx[q].within
  <1>1. Kept(g, tx[q].scope)
    BY DEF Kept, OnlyTx
  <1> QED BY <1>1 DEF IInv, WithinOK, Late

LEMMA ScanStep ==
    ASSUME IInv, NEW p \in Procs, Scan(p)
    PROVE  IInv'
  <1>1. /\ Shape(tx[p]) /\ tx[p].kind \in {"delete", "bootstrap"} /\ tx[p].pc = "scan" /\ tx'[p].pc = "cas"
        /\ GoesOn(p) /\ tx'[p].removed = tx[p].removed /\ tx'[p].within = {}
        /\ tx'[p].seen = tx[p].seen /\ tx'[p].found = Rest(p)
        /\ \A g \in Gens : tx'[p].rows[g] = NoRow
        /\ tx[p].kind = "delete" =>
             \A q \in Procs, g \in Gens :
                 tx[q].scope = tx[p].scope /\ g \in tx[q].within => <<g, tx[p].scope>> \in raced'
    BY ScanIs DEF IInv, ShapeOK
  <1>2. /\ Goes(p) /\ OnlyTx(p) /\ tx'[p].kind = tx[p].kind /\ tx'[p].scope = tx[p].scope
        /\ tx'[p].offered = tx[p].offered /\ tx'[p].wrote = tx[p].wrote
    BY <1>1 DEF GoesOn, Goes
  <1>3. Shape(tx'[p])
    BY <1>1, <1>2 DEF Shape, Writer
  <1>4. ClockFits(p) /\ UpsertFits(p) /\ BarsFit(p)
    BY <1>1, <1>2, GoesFits, GoesOnBars
  <1>5. RowsFit(p)
    BY <1>1, <1>2 DEF RowsFit, RowOK, IInv, RowsOK
  <1>6. CoverFits(p)
    BY <1>1, <1>2 DEF CoverFits, IInv, AllCovered, Writer
  <1>7. WidenFits(p) /\ WithinFits(p)
    BY <1>1, <1>2 DEF WidenFits, WithinFits, Writer, Late
  <1>8. ScanFits(p)
    <2>1. SameBounds(tx'[p].found, Present(tx'[p].scope) \ tx'[p].removed)
      BY <1>1, <1>2 DEF Rest, SameBounds
    <2> QED BY <1>1, <2>1 DEF ScanFits
  <1> QED BY <1>2, <1>3, <1>4, <1>5, <1>6, <1>7, <1>8, StatementKeeps DEF CatalogFits

LEMMA CasStep ==
    ASSUME IInv, NEW p \in Procs, Cas(p)
    PROVE  IInv'
  <1>1. /\ Shape(tx[p]) /\ tx[p].kind \in {"delete", "bootstrap"} /\ tx[p].pc = "cas"
        /\ tx'[p].pc \in {"invalidate", "commit"}
        /\ tx[p].kind = "bootstrap" => tx'[p].pc = "commit"
        /\ GoesOn(p) /\ tx'[p].removed = tx[p].removed /\ tx'[p].within = {}
    BY CasIs DEF IInv, ShapeOK
  <1>2. ASSUME NEW g \in Gens
        PROVE  /\ tx'[p].seen[g] = NoRow
               /\ tx'[p].rows[g] # NoRow =>
                    /\ tx[p].seen[g] # NoRow /\ tx[p].seen[g].ver = catalog[g][tx[p].scope].ver
                    /\ ~RowHeld(p, g, tx[p].scope)
                    /\ tx'[p].rows[g] = Exact(tx[p].found, tx[p].seen[g].ver + 1)
                    /\ tx'[p].rows[g].ver = tx[p].seen[g].ver + 1
                    /\ WellFormed(tx'[p].rows[g]) /\ tx'[p].rows[g].state # "none"
               /\ tx[p].kind = "delete" /\ tx'[p].pc = "commit" /\ tx[p].seen[g] # NoRow
                    => tx'[p].rows[g] # NoRow
    BY <1>2, CasIs
  <1>3. /\ Goes(p) /\ OnlyTx(p) /\ tx'[p].kind = tx[p].kind /\ tx'[p].scope = tx[p].scope
        /\ tx'[p].offered = tx[p].offered /\ tx'[p].wrote = tx[p].wrote
    BY <1>1 DEF GoesOn, Goes
  <1>4. Shape(tx'[p])
    BY <1>1, <1>2, <1>3 DEF Shape, Writer
  <1>5. ClockFits(p) /\ UpsertFits(p) /\ BarsFit(p)
    BY <1>1, <1>3, GoesFits, GoesOnBars
  <1>6. tx[p].scope \in Scopes
    BY DEF IInv, TypeOK, Transaction
  <1>7. RowsFit(p)
    <2> SUFFICES ASSUME NEW g \in Gens, tx'[p].rows[g] # NoRow
                 PROVE  /\ RowOK(tx'[p].rows[g]) /\ generation[g].status # "none"
                        /\ catalog[g][tx[p].scope].ver < tx'[p].rows[g].ver
                        /\ \A q \in Procs : q # p /\ tx[q].scope = tx[p].scope => tx[q].rows[g] = NoRow
      BY <1>2, <1>3 DEF RowsFit, RowOK
    <2>1. /\ tx[p].seen[g] # NoRow /\ tx[p].seen[g].ver = catalog[g][tx[p].scope].ver
          /\ ~RowHeld(p, g, tx[p].scope) /\ tx'[p].rows[g].ver = tx[p].seen[g].ver + 1
          /\ WellFormed(tx'[p].rows[g]) /\ tx'[p].rows[g].state # "none"
      BY <1>2
    <2>2. catalog[g][tx[p].scope].ver \in Nat
      BY <1>6 DEF IInv, TypeOK, CatalogRow
    <2>3. catalog[g][tx[p].scope].ver < tx'[p].rows[g].ver
      BY <2>1, <2>2
    <2>4. generation[g].status # "none"
      BY <2>1 DEF IInv, RowsOK
    <2>5. \A q \in Procs : q # p /\ tx[q].scope = tx[p].scope => tx[q].rows[g] = NoRow
      BY <2>1 DEF RowHeld
    <2> QED BY <2>1, <2>3, <2>4, <2>5 DEF RowOK
  <1>8. CoverFits(p)
    <2> SUFFICES ASSUME NEW g \in Gens, Maintained(g), tx[p].kind = "delete", tx'[p].pc = "commit"
                 PROVE  tx'[p].rows[g] # NoRow
      BY <1>1, <1>3 DEF CoverFits, Writer
    <2>1. tx[p].seen[g] # NoRow
      BY <1>1 DEF IInv, AllCovered
    <2> QED BY <1>2, <2>1
  <1>9. WidenFits(p)
    BY <1>1, <1>3 DEF WidenFits, Writer
  <1>10. WithinFits(p)
    <2> SUFFICES ASSUME NEW g \in Gens, Maintained(g), <<g, tx[p].scope>> \notin raced', Late(tx'[p]),
                        NEW q \in Procs, tx[q].scope = tx[p].scope
                 PROVE  g \notin tx[q].within
      BY <1>1, <1>3 DEF WithinFits
    <2>1. Late(tx[p])
      BY <1>1, <1>3 DEF Late
    <2> QED BY <1>3, <2>1, LateStays
  <1>11. ScanFits(p)
    <2> SUFFICES ASSUME NEW g \in Gens, Maintained(g), <<g, tx[p].scope>> \notin raced', tx'[p].rows[g] # NoRow
                 PROVE  tx'[p].rows[g] = Exact(Rest(p), tx'[p].rows[g].ver)
      BY <1>1, <1>3 DEF ScanFits, Rest
    <2>1. /\ tx[p].seen[g] # NoRow /\ tx[p].seen[g].ver = catalog[g][tx[p].scope].ver
          /\ tx'[p].rows[g] = Exact(tx[p].found, tx'[p].rows[g].ver)
      BY <1>2
    <2>2. Kept(g, tx[p].scope) /\ ~Writer(tx[p])
      BY <1>1, <1>3 DEF Kept, OnlyTx, Writer
    <2>3. SameBounds(tx[p].found, Rest(p))
      BY <1>1, <2>1, <2>2 DEF IInv, ScannedOK
    <2> QED BY <2>1, <2>3 DEF SameBounds, Exact
  <1> QED BY <1>3, <1>4, <1>5, <1>7, <1>8, <1>9, <1>10, <1>11, StatementKeeps DEF CatalogFits

LEMMA InvalidateStep ==
    ASSUME IInv, NEW p \in Procs, Invalidate(p)
    PROVE  IInv'
  <1>1. /\ Shape(tx[p]) /\ tx[p].kind \in {"delete", "audit"} /\ tx[p].pc \in {"invalidate", "forget"}
        /\ tx'[p].pc = "commit"
        /\ GoesOn(p) /\ tx'[p].removed = tx[p].removed /\ tx'[p].within = {}
    BY InvalidateIs DEF IInv, ShapeOK
  <1>2. ASSUME NEW g \in Gens
        PROVE  /\ tx'[p].seen[g] = NoRow
               /\ Maintained(g) /\ catalog[g][tx[p].scope] # NoRow =>
                    /\ ~RowHeld(p, g, tx[p].scope)
                    /\ tx'[p].rows[g].state = "unknown" /\ WellFormed(tx'[p].rows[g])
                    /\ tx'[p].rows[g] # NoRow
                    /\ catalog[g][tx[p].scope].ver < tx'[p].rows[g].ver
               /\ ~(Maintained(g) /\ catalog[g][tx[p].scope] # NoRow) => tx'[p].rows[g] = tx[p].rows[g]
    BY <1>2, InvalidateIs
  <1>3. /\ Goes(p) /\ OnlyTx(p) /\ tx'[p].kind = tx[p].kind /\ tx'[p].scope = tx[p].scope
        /\ tx'[p].offered = tx[p].offered /\ tx'[p].wrote = tx[p].wrote
    BY <1>1 DEF GoesOn, Goes
  <1>4. Shape(tx'[p])
    <2>1. tx'[p].stamp = tx[p].stamp
      BY <1>1 DEF GoesOn, Goes
    <2> QED BY <1>1, <1>2, <1>3, <2>1 DEF Shape, Writer
  <1>5. ClockFits(p) /\ UpsertFits(p) /\ BarsFit(p)
    BY <1>1, <1>3, GoesFits, GoesOnBars
  <1>6. tx[p].scope \in Scopes
    BY DEF IInv, TypeOK, Transaction
  <1>7. RowsFit(p)
    <2> SUFFICES ASSUME NEW g \in Gens
                 PROVE  /\ RowOK(tx'[p].rows[g])
                        /\ tx'[p].rows[g] # NoRow =>
                             /\ generation[g].status # "none"
                             /\ catalog[g][tx[p].scope].ver < tx'[p].rows[g].ver
                             /\ \A q \in Procs : q # p /\ tx[q].scope = tx[p].scope => tx[q].rows[g] = NoRow
      BY <1>2, <1>3 DEF RowsFit
    <2>1. CASE Maintained(g) /\ catalog[g][tx[p].scope] # NoRow
      <3>1. generation[g].status # "none"
        BY <2>1 DEF Maintained
      <3>2. \A q \in Procs : q # p /\ tx[q].scope = tx[p].scope => tx[q].rows[g] = NoRow
        BY <1>2, <2>1 DEF RowHeld
      <3> QED BY <1>2, <2>1, <3>1, <3>2 DEF RowOK
    <2>2. CASE ~(Maintained(g) /\ catalog[g][tx[p].scope] # NoRow)
      <3>1. tx'[p].rows[g] = tx[p].rows[g]
        BY <1>2, <2>2
      <3> QED BY <3>1 DEF IInv, RowsOK, RowsHeld
    <2> QED BY <2>1, <2>2
  <1>8. ASSUME NEW g \in Gens, Maintained(g)
        PROVE  tx'[p].rows[g] # NoRow /\ tx'[p].rows[g].state = "unknown"
    BY <1>2, <1>6, <1>8, MaintainedRow
  <1>9. CoverFits(p)
    BY <1>1, <1>3, <1>8 DEF CoverFits, Writer
  <1>10. WidenFits(p)
    BY <1>1, <1>3 DEF WidenFits, Writer
  <1>11. WithinFits(p)
    <2> SUFFICES ASSUME NEW g \in Gens, Maintained(g), <<g, tx[p].scope>> \notin raced', Late(tx'[p]),
                        NEW q \in Procs, tx[q].scope = tx[p].scope
                 PROVE  g \notin tx[q].within
      BY <1>1, <1>3 DEF WithinFits
    <2>1. Late(tx[p])
      BY <1>1, <1>3 DEF Late, Shape
    <2> QED BY <1>3, <2>1, LateStays
  <1>12. ScanFits(p)
    BY <1>1, <1>3, <1>8 DEF ScanFits
  <1> QED BY <1>3, <1>4, <1>5, <1>7, <1>9, <1>10, <1>11, <1>12, StatementKeeps DEF CatalogFits

-----------------------------------------------------------------------------
(* A commit.                                                                 *)

\* The bars it leaves, by what the transaction is.
LEMMA CommitPresent ==
    ASSUME IInv, NEW p \in Procs, Commit(p), NEW s \in Scopes, s = tx[p].scope
    PROVE  /\ tx[p].pc = "commit"
           /\ Writer(tx[p]) => Present(s)' = Present(s) \union tx[p].offered
           /\ ~Writer(tx[p]) => /\ tx[p].kind \in {"delete", "audit", "bootstrap"}
                                /\ tx[p].kind # "audit" => Present(s)' = Rest(p)
           /\ tx[p].kind = "bootstrap" => Present(s)' = Present(s)
           /\ tx[p].kind \in {"delete", "audit"} =>
                \A g \in Gens : Maintained(g) => tx[p].rows[g] # NoRow
           /\ Present(s) \in SUBSET Ends /\ Present(s)' \in SUBSET Ends
  <1>1. Shape(tx[p]) /\ tx[p].pc = "commit" /\ tx[p] \in Transaction /\ BarsHeld /\ AllCovered
    BY DEF IInv, ShapeOK, TypeOK, Commit
  <1>2. Present(s)' = (Present(s) \union tx[p].wrote) \ tx[p].removed
    BY CommitStore
  <1>3. CASE Writer(tx[p])
    <2>1. tx[p].removed = {} /\ tx[p].wrote \subseteq tx[p].offered
      BY <1>1, <1>3 DEF Shape, Writer
    <2>2. tx[p].offered \ tx[p].wrote \subseteq Present(s)
      BY <1>1 DEF BarsHeld
    <2>3. Present(s)' = Present(s) \union tx[p].offered
      BY <1>2, <2>1, <2>2
    <2> QED BY <1>1, <1>3, <2>3 DEF Writer, Present
  <1>4. CASE ~Writer(tx[p])
    <2>1. tx[p].kind \in {"delete", "audit", "bootstrap"}
      BY <1>1, <1>4 DEF Shape, Writer, Transaction
    <2>2. tx[p].kind # "audit" => tx[p].wrote = {}
      BY <1>1, <1>4 DEF Shape
    <2>3. tx[p].kind # "audit" => Present(s)' = Rest(p)
      BY <1>2, <2>2 DEF Rest
    <2>4. tx[p].kind = "bootstrap" => Present(s)' = Present(s)
      BY <1>1, <1>2, <2>2 DEF Shape
    <2>5. tx[p].kind \in {"delete", "audit"} => \A g \in Gens : Maintained(g) => tx[p].rows[g] # NoRow
      BY <1>1 DEF AllCovered
    <2> QED BY <1>1, <1>4, <2>1, <2>3, <2>4, <2>5 DEF Present
  <1> QED BY <1>3, <1>4

\* A maintained row that it does not change keeps its bounds.
LEMMA CommitSame ==
    ASSUME IInv, NEW p \in Procs, Commit(p), NEW s \in Scopes, s = tx[p].scope,
           NEW g \in Gens, Kept(g, s), tx[p].rows[g] = NoRow
    PROVE  /\ Present(s) \subseteq Present(s)' /\ SameBounds(Present(s), Present(s)')
           /\ tx[p].kind \notin {"delete", "audit"}
           /\ Writer(tx[p]) => g \in tx[p].within
  <1>1. Maintained(g) /\ Shape(tx[p])
    BY DEF Kept, IInv, ShapeOK
  <1>2. tx[p].kind \notin {"delete", "audit"}
    BY <1>1, CommitPresent
  <1>3. CASE ~Writer(tx[p])
    <2>1. Present(s)' = Present(s)
      BY <1>2, <1>3, CommitPresent
    <2> QED BY <1>2, <1>3, <2>1 DEF SameBounds
  <1>4. CASE Writer(tx[p])
    <2>1. g \in tx[p].within
      BY <1>1, <1>4, CommitPresent DEF IInv, AllCovered
    <2>2. PICK row \in CatalogRow : row = catalog[g][s]
      BY DEF IInv, TypeOK
    <2>3. PICK lo \in Ends, hi \in Ends :
            /\ lo = Lowest(tx[p].offered) /\ hi = Highest(tx[p].offered)
            /\ \A e \in tx[p].offered : lo <= e /\ e <= hi
      BY <1>4, CommitPresent, OfferedIs
    <2>4. row.state = "present" /\ row.min <= lo /\ hi <= row.max
      BY <2>1, <2>2, <2>3 DEF IInv, WithinOK
    <2>5. PICK a \in Present(s), b \in Present(s) : a = row.min /\ b = row.max
      BY <2>2, <2>4 DEF IInv, BoundsAreBars
    <2>6. Present(s)' = Present(s) \union tx[p].offered /\ Present(s) \in SUBSET Ends /\ Present(s)' \in SUBSET Ends
      BY <1>4, CommitPresent
    <2>7. \A e \in Ends : e \in Int
      BY BoundsAssumption DEF Ends
    <2>8. PICK P \in SUBSET Ends, Q \in SUBSET Ends : P = Present(s) /\ Q = Present(s)'
      BY <2>6
    <2>9. ASSUME NEW e \in Q PROVE (\E f \in P : f <= e) /\ (\E f \in P : e <= f)
      <3>1. CASE e \in P
        <4>1. e <= e
          BY <2>7
        <4> QED BY <3>1, <4>1
      <3>2. CASE e \notin P
        <4>1. e \in tx[p].offered
          BY <2>6, <2>8, <2>9, <3>2
        <4>2. lo <= e /\ e <= hi
          BY <2>3, <4>1
        <4>3. a <= lo /\ hi <= b
          BY <2>4, <2>5
        <4>4. a \in Int /\ b \in Int /\ lo \in Int /\ hi \in Int /\ e \in Int
          BY <2>5, <2>6, <2>7
        <4>5. a <= e /\ e <= b
          BY <4>2, <4>3, <4>4
        <4> QED BY <2>5, <2>8, <4>5
      <3> QED BY <3>1, <3>2
    <2>10. P \subseteq Q
      BY <2>6, <2>8
    <2>11. SameBounds(P, Q)
      BY <2>9, <2>10, SameBoundsIf
    <2> QED BY <1>2, <2>1, <2>8, <2>10, <2>11
  <1> QED BY <1>3, <1>4

\* A set and the bars that are added to it.
LEMMA UnionBounds ==
    ASSUME NEW P \in SUBSET Ends, NEW S \in SUBSET Ends, S # {}
    PROVE  /\ P \union S # {}
           /\ Lowest(P \union S) = IF P = {} THEN Lowest(S)
                                   ELSE IF Lowest(P) <= Lowest(S) THEN Lowest(P) ELSE Lowest(S)
           /\ Highest(P \union S) = IF P = {} THEN Highest(S)
                                    ELSE IF Highest(P) <= Highest(S) THEN Highest(S) ELSE Highest(P)
  <1>1. CASE P = {}
    BY <1>1
  <1>2. CASE P # {}
    <2>1. PICK U \in SUBSET Ends : U = P \union S
      OBVIOUS
    <2>2. U # {}
      BY <2>1
    <2>3. \A e \in Ends : e \in Int
      BY BoundsAssumption DEF Ends
    <2>4. PICK a \in P, b \in P : a = Lowest(P) /\ b = Highest(P) /\ \A e \in P : a <= e /\ e <= b
      BY <1>2, BoundsAre
    <2>5. PICK c \in S, d \in S : c = Lowest(S) /\ d = Highest(S) /\ \A e \in S : c <= e /\ e <= d
      BY BoundsAre
    <2>6. PICK m \in U, n \in U : m = Lowest(U) /\ n = Highest(U) /\ \A e \in U : m <= e /\ e <= n
      BY <2>2, BoundsAre
    <2>7. a \in Int /\ b \in Int /\ c \in Int /\ d \in Int /\ m \in Int /\ n \in Int
      BY <2>3, <2>4, <2>5, <2>6
    <2>8. a \in U /\ b \in U /\ c \in U /\ d \in U
      BY <2>1, <2>4, <2>5
    <2>9. m <= a /\ m <= c /\ b <= n /\ d <= n
      BY <2>6, <2>8
    <2>10. (m \in P \/ m \in S) /\ (n \in P \/ n \in S)
      BY <2>1, <2>6
    <2>11. (a <= m \/ c <= m) /\ (n <= b \/ n <= d)
      BY <2>4, <2>5, <2>10
    <2>12. m = (IF a <= c THEN a ELSE c) /\ n = (IF b <= d THEN d ELSE b)
      BY <2>7, <2>9, <2>11
    <2> QED BY <1>2, <2>1, <2>2, <2>4, <2>5, <2>6, <2>12
  <1> QED BY <1>1, <1>2

\* A row that it changes has bars for bounds, exact ones if it is complete.
LEMMA CommitRow ==
    ASSUME IInv, NEW p \in Procs, Commit(p), NEW s \in Scopes, s = tx[p].scope,
           NEW g \in Gens, Kept(g, s), tx[p].rows[g] # NoRow
    PROVE  LET new == tx[p].rows[g] IN
           /\ new.state = "present" => new.min \in Present(s)' /\ new.max \in Present(s)'
           /\ new.complete => /\ new.state = IF Present(s)' = {} THEN "empty" ELSE "present"
                              /\ new.min = Lowest(Present(s)') /\ new.max = Highest(Present(s)')
  <1>1. Maintained(g) /\ <<g, s>> \notin raced
    BY DEF Kept
  <1>2. CASE ~Writer(tx[p])
    <2>1. PICK S \in SUBSET Ends : S = Present(s)' /\ (tx[p].kind # "audit" => S = Rest(p))
      BY <1>2, CommitPresent
    <2>2. PICK new \in CatalogRow : new = tx[p].rows[g]
      BY DEF IInv, TypeOK, Transaction
    <2>3. new.state = "unknown" \/ new = Exact(S, new.ver)
      BY <1>2, <2>1, <2>2, CommitPresent DEF IInv, ScannedOK
    <2>4. CASE new.state = "unknown"
      <3>1. WellFormed(new)
        BY <2>2, <2>4 DEF IInv, RowsOK, RowOK
      <3> QED BY <2>2, <2>4, <3>1 DEF WellFormed
    <2>5. CASE new = Exact(S, new.ver)
      <3>1. new.ver \in Nat
        BY DEF CatalogRow
      <3>2. /\ new.state = IF S = {} THEN "empty" ELSE "present"
            /\ new.min = Lowest(S) /\ new.max = Highest(S)
        BY <2>5, <3>1, ExactIs
      <3>3. S # {} => new.min \in S /\ new.max \in S
        BY <3>2, BoundsAre
      <3> QED BY <2>1, <2>2, <3>2, <3>3
    <2> QED BY <2>3, <2>4, <2>5
  <1>3. CASE Writer(tx[p])
    <2>1. PICK row \in CatalogRow : row = catalog[g][s]
      BY DEF IInv, TypeOK
    <2>2. PICK S \in SUBSET Ends : /\ S = tx[p].offered /\ S # {}
                                   /\ Lowest(S) \in S /\ Highest(S) \in S /\ Lowest(S) <= Highest(S)
      BY <1>3, CommitPresent, OfferedIs
    <2>3. PICK P \in SUBSET Ends, Q \in SUBSET Ends : P = Present(s) /\ Q = Present(s)' /\ Q = P \union S
      BY <1>3, <2>2, CommitPresent
    <2>4. PICK lo \in S, hi \in S : lo = Lowest(S) /\ hi = Highest(S) /\ lo <= hi
      BY <2>2
    <2>5. row.state # "none" /\ WellFormed(row)
      BY <1>1, <2>1, MaintainedRow
    <2>6. PICK new \in CatalogRow : new = tx[p].rows[g] /\ new = Widened(row, lo, hi)
      BY <1>3, <2>1, <2>2, <2>4 DEF IInv, WidenedOK, TypeOK, Transaction
    <2>7. /\ new.state = "present"
          /\ new.complete = (row.state # "unknown" /\ row.complete)
          /\ row.state # "present" => new.min = lo /\ new.max = hi
          /\ row.state = "present" => /\ new.min = IF row.min <= lo THEN row.min ELSE lo
                                      /\ new.max = IF row.max <= hi THEN hi ELSE row.max
      BY <2>4, <2>5, <2>6, WidenedIs
    <2>8. row.state = "present" => row.min \in P /\ row.max \in P
      BY <2>1, <2>3 DEF IInv, BoundsAreBars
    <2>9. new.min \in Q /\ new.max \in Q
      BY <2>3, <2>7, <2>8
    <2>10. ASSUME new.complete PROVE new.min = Lowest(Q) /\ new.max = Highest(Q) /\ Q # {}
      <3>1. /\ row.complete /\ row.state = IF P = {} THEN "empty" ELSE "present"
            /\ row.min = Lowest(P) /\ row.max = Highest(P)
        BY <1>1, <2>1, <2>3, <2>7, <2>10 DEF IInv, CatalogExact
      <3>2. /\ P \union S # {}
            /\ Lowest(P \union S) = IF P = {} THEN lo ELSE IF Lowest(P) <= lo THEN Lowest(P) ELSE lo
            /\ Highest(P \union S) = IF P = {} THEN hi ELSE IF Highest(P) <= hi THEN hi ELSE Highest(P)
        BY <2>2, <2>4, UnionBounds
      <3> QED BY <2>3, <2>7, <3>1, <3>2
    <2> QED BY <2>3, <2>6, <2>7, <2>9, <2>10
  <1> QED BY <1>2, <1>3

LEMMA CommitKeepsTx ==
    ASSUME IInv, NEW p \in Procs, Commit(p)
    PROVE  TypeOK' /\ ShapeOK' /\ ClockOK' /\ UpsertOK' /\ BarsHeld' /\ RowsHeld' /\ RowsOK'
  <1>1. /\ TypeOK /\ ShapeOK /\ ClockOK /\ UpsertOK /\ BarsHeld /\ RowsHeld /\ RowsOK
    BY DEF IInv
  <1>2. PICK s \in Scopes : s = tx[p].scope
    BY <1>1 DEF TypeOK, Transaction
  <1>3. /\ tx[p].pc = "commit" /\ tx'[p] = Idle /\ tx' \in [Procs -> Transaction]
        /\ \A q \in Procs : q # p => Untouched(q) /\ (tx[q].overtaken => tx'[q].overtaken)
        /\ generation' = generation /\ control' = control /\ clock' = clock
        /\ raced \subseteq raced' /\ raced' \subseteq Gens \X Scopes
    BY <1>1, CommitTx
  <1>4. /\ tx'[p].kind = "none" /\ tx'[p].pc = "idle" /\ tx'[p].stamp = 0
        /\ tx'[p].offered = {} /\ tx'[p].wrote = {} /\ tx'[p].removed = {} /\ tx'[p].within = {}
        /\ \A g \in Gens : tx'[p].seen[g] = NoRow /\ tx'[p].rows[g] = NoRow
    BY <1>3, IdleIs
  <1>5. /\ \A r \in Scopes : r # s =>
             /\ bars'[r] = bars[r] /\ mark'[r] = mark[r] /\ Present(r)' = Present(r)
             /\ \A g \in Gens : catalog'[g][r] = catalog[g][r]
        /\ \A g \in Gens : catalog'[g][s] = IF tx[p].rows[g] # NoRow THEN tx[p].rows[g] ELSE catalog[g][s]
        /\ Present(s)' = (Present(s) \union tx[p].wrote) \ tx[p].removed
        /\ bars' \in [Scopes -> [Ends -> 0 .. MaxTx]] /\ catalog' \in [Gens -> [Scopes -> CatalogRow]]
        /\ \A e \in Ends : bars'[s][e] = IF e \in tx[p].wrote THEN tx[p].stamp
                                         ELSE IF e \in tx[p].removed THEN 0 ELSE bars[s][e]
    BY <1>2, CommitStore
  <1>6. /\ mark' \in [Scopes -> MarkSet] /\ mark'[s].stamp <= clock
        /\ tx[p].kind \notin {"upsert", "import"} => mark' = mark
        /\ tx[p].kind = "import" => mark'[s].stamp = tx[p].stamp
    BY <1>2, CommitMark
  <1>7. ASSUME NEW q \in Procs, q # p
        PROVE  /\ tx'[q].kind = tx[q].kind /\ tx'[q].pc = tx[q].pc /\ tx'[q].scope = tx[q].scope
               /\ tx'[q].stamp = tx[q].stamp /\ tx'[q].offered = tx[q].offered /\ tx'[q].wrote = tx[q].wrote
               /\ tx'[q].removed = tx[q].removed /\ tx'[q].seen = tx[q].seen /\ tx'[q].found = tx[q].found
               /\ tx'[q].rows = tx[q].rows /\ tx'[q].within = tx[q].within
    BY <1>3, <1>7 DEF Untouched
  <1>8. \A q \in Procs : tx[q].scope \in Scopes /\ tx[q].stamp \in Int
    BY <1>1, BoundsAssumption DEF TypeOK, Transaction
  <1>9. \A g \in Gens, r \in Scopes : RowOK(catalog'[g][r])
    <2> SUFFICES ASSUME NEW g \in Gens, NEW r \in Scopes PROVE RowOK(catalog'[g][r])
      OBVIOUS
    <2>1. RowOK(tx[p].rows[g]) /\ RowOK(catalog[g][r])
      BY <1>1 DEF RowsOK
    <2> QED BY <1>5, <2>1
  <1>10. TypeOK'
    <2>1. \A g \in Gens, r \in Scopes : WellFormed(catalog'[g][r])
      BY <1>9, RowsAre DEF RowOK
    <2> QED BY <1>1, <1>3, <1>5, <1>6, <2>1 DEF TypeOK, MarkSet
  <1>11. ShapeOK'
    <2> SUFFICES ASSUME NEW q \in Procs PROVE Shape(tx'[q])
      BY DEF ShapeOK
    <2>1. CASE q = p
      BY <1>4, <2>1 DEF Shape, Writer
    <2>2. CASE q # p
      <3>1. Shape(tx[q])
        BY <1>1 DEF ShapeOK
      <3> QED BY <1>7, <2>2, <3>1 DEF Shape, Writer
    <2> QED BY <2>1, <2>2
  <1>12. ClockOK'
    <2>1. clock \in Nat /\ tx[p].stamp <= clock /\ \A r \in Scopes, e \in Ends : bars[r][e] <= clock
      BY <1>1, BoundsAssumption DEF TypeOK, ClockOK
    <2>2. \A r \in Scopes : mark'[r].stamp <= clock
      BY <1>1, <1>5, <1>6 DEF ClockOK
    <2>3. ASSUME NEW r \in Scopes, NEW e \in Ends PROVE bars'[r][e] <= clock
      BY <1>5, <2>1, <1>2
    <2>4. ASSUME NEW a \in Procs
          PROVE  tx'[a].stamp <= clock
      BY <1>1, <1>4, <1>7, <2>1 DEF ClockOK
    <2>5. ASSUME NEW a \in Procs, NEW b \in Procs, a # b, tx'[a].stamp = tx'[b].stamp
          PROVE  tx'[a].stamp = 0
      BY <1>1, <1>4, <1>7, <2>5 DEF ClockOK
    <2> QED BY <1>3, <2>2, <2>3, <2>4, <2>5 DEF ClockOK
  <1>13. UpsertOK'
    <2> SUFFICES ASSUME NEW a \in Procs, tx'[a].kind = "upsert"
                 PROVE  /\ \A b \in Procs : tx'[b].kind = "upsert" /\ tx'[b].scope = tx'[a].scope => b = a
                        /\ ~tx'[a].overtaken => mark'[tx'[a].scope].stamp < tx'[a].stamp
      BY DEF UpsertOK
    <2>1. a # p /\ tx[a].kind = "upsert" /\ tx'[a].scope = tx[a].scope /\ tx'[a].stamp = tx[a].stamp
      BY <1>4, <1>7
    <2>2. \A b \in Procs : tx[b].kind = "upsert" /\ tx[b].scope = tx[a].scope => b = a
      BY <1>1, <2>1 DEF UpsertOK
    <2>3. \A b \in Procs : tx'[b].kind = "upsert" /\ tx'[b].scope = tx'[a].scope => b = a
      BY <1>4, <1>7, <2>1, <2>2
    <2>4. ASSUME ~tx'[a].overtaken PROVE mark'[tx[a].scope].stamp < tx[a].stamp
      <3>1. mark[tx[a].scope].stamp < tx[a].stamp
        BY <1>1, <1>3, <2>1, <2>4 DEF UpsertOK
      <3>2. CASE tx[a].scope # s
        BY <1>5, <1>8, <3>1, <3>2
      <3>3. CASE tx[a].scope = s /\ tx[p].kind = "import"
        <4>1. Shape(tx[a]) /\ Shape(tx[p])
          BY <1>1 DEF ShapeOK
        <4>2. tx[a].pc \in {"record", "commit"} /\ tx[p].stamp > 0
          BY <2>1, <3>3, <4>1 DEF Shape, Writer
        <4>3. ~(tx[a].stamp < tx[p].stamp)
          BY <1>1, <1>2, <2>1, <2>4, <3>3, <4>2, CommitTx
        <4>4. tx[a].stamp # tx[p].stamp
          BY <1>1, <1>8, <2>1, <4>2 DEF ClockOK
        <4>5. tx[p].stamp < tx[a].stamp
          BY <1>8, <4>3, <4>4
        <4> QED BY <1>6, <3>3, <4>5
      <3>4. CASE tx[a].scope = s /\ tx[p].kind # "import"
        <4>1. tx[p].kind # "upsert"
          BY <1>2, <2>1, <2>2, <3>4
        <4> QED BY <1>6, <3>1, <3>4, <4>1
      <3> QED BY <3>2, <3>3, <3>4
    <2> QED BY <2>1, <2>3, <2>4
  <1>14. BarsHeld'
    <2>1. ASSUME NEW a \in Procs, NEW b \in Procs, a # b, tx'[a].scope = tx'[b].scope
          PROVE  (tx'[a].offered \union tx'[a].removed) \intersect (tx'[b].offered \union tx'[b].removed) = {}
      <3>1. CASE a = p \/ b = p
        BY <1>4, <3>1
      <3>2. CASE a # p /\ b # p
        BY <1>1, <1>7, <2>1, <3>2 DEF BarsHeld
      <3> QED BY <3>1, <3>2
    <2>2. ASSUME NEW a \in Procs
          PROVE  tx'[a].offered \ tx'[a].wrote \subseteq Present(tx[a].scope)'
      <3>1. CASE a = p
        BY <1>4, <3>1
      <3>2. CASE a # p
        <4>1. PICK r \in Scopes : r = tx[a].scope
          BY <1>8
        <4>2. tx[a].offered \ tx[a].wrote \subseteq Present(r)
          BY <1>1, <4>1 DEF BarsHeld
        <4>3. tx[a].offered \ tx[a].wrote \subseteq Present(r)'
          <5>1. CASE r # s
            BY <1>5, <4>2, <5>1
          <5>2. CASE r = s
            <6>1. tx[a].offered \intersect tx[p].removed = {}
              BY <1>1, <1>2, <3>2, <4>1, <5>2 DEF BarsHeld
            <6> QED BY <1>5, <4>2, <5>2, <6>1
          <5> QED BY <5>1, <5>2
        <4>4. tx'[a].scope = r /\ tx'[a].offered = tx[a].offered /\ tx'[a].wrote = tx[a].wrote
          BY <1>7, <3>2, <4>1
        <4>5. Present(tx[a].scope)' = Present(r)'
          BY <4>4 DEF Present
        <4> QED BY <4>3, <4>4, <4>5
      <3> QED BY <3>1, <3>2
    <2> QED BY <2>1, <2>2 DEF BarsHeld
  <1>15. RowsHeld'
    BY <1>1, <1>4, <1>7 DEF RowsHeld
  <1>16. RowsOK'
    <2>1. ASSUME NEW g \in Gens, NEW r \in Scopes
          PROVE  catalog'[g][r] = NoRow <=> generation[g].status = "none"
      BY <1>1, <1>2, <1>5 DEF RowsOK
    <2>2. ASSUME NEW g \in Gens, NEW a \in Procs
          PROVE  /\ RowOK(tx'[a].rows[g])
                 /\ tx'[a].rows[g] # NoRow => /\ generation[g].status # "none"
                                              /\ catalog'[g][tx'[a].scope].ver < tx'[a].rows[g].ver
                 /\ tx'[a].seen[g] # NoRow => /\ generation[g].status # "none"
                                              /\ tx'[a].seen[g].ver <= catalog'[g][tx'[a].scope].ver
      <3>1. CASE a = p
        BY <1>4, <3>1 DEF RowOK
      <3>2. CASE a # p
        <4>1. PICK t \in Transaction : t = tx[a]
          BY <1>1 DEF TypeOK
        <4>2. tx'[a].scope = t.scope /\ tx'[a].rows = t.rows /\ tx'[a].seen = t.seen
          BY <1>7, <3>2, <4>1
        <4>3. /\ RowOK(t.rows[g])
              /\ t.rows[g] # NoRow => generation[g].status # "none" /\ catalog[g][t.scope].ver < t.rows[g].ver
              /\ t.seen[g] # NoRow => generation[g].status # "none" /\ t.seen[g].ver <= catalog[g][t.scope].ver
          BY <1>1, <4>1 DEF RowsOK
        <4>4. CASE t.scope # s \/ tx[p].rows[g] = NoRow
          <5>1. catalog'[g][t.scope] = catalog[g][t.scope]
            BY <1>5, <1>8, <4>1, <4>4
          <5> QED BY <4>2, <4>3, <5>1
        <4>5. CASE t.scope = s /\ tx[p].rows[g] # NoRow
          <5>1. t.rows[g] = NoRow
            BY <1>1, <1>2, <3>2, <4>1, <4>5 DEF RowsHeld
          <5>2. catalog'[g][s] = tx[p].rows[g] /\ catalog[g][s].ver < tx[p].rows[g].ver
            BY <1>1, <1>2, <1>5, <4>5 DEF RowsOK
          <5>3. catalog[g][s].ver \in Int /\ tx[p].rows[g].ver \in Int /\ t.seen[g].ver \in Int
            BY <1>1 DEF TypeOK, Transaction, CatalogRow
          <5>4. t.seen[g] # NoRow => t.seen[g].ver <= catalog'[g][s].ver
            BY <4>3, <4>5, <5>2, <5>3
          <5> QED BY <4>2, <4>3, <4>5, <5>1, <5>4
        <4> QED BY <4>4, <4>5
      <3> QED BY <3>1, <3>2
    <2> QED BY <1>1, <1>3, <1>9, <2>1, <2>2 DEF RowsOK
  <1> QED BY <1>10, <1>11, <1>12, <1>13, <1>14, <1>15, <1>16

LEMMA CommitKeepsCatalog ==
    ASSUME IInv, NEW p \in Procs, Commit(p)
    PROVE  AllCovered' /\ WidenedOK' /\ WithinOK' /\ BoundsAreBars' /\ ScannedOK' /\ CatalogExact'
  <1>1. /\ TypeOK /\ ShapeOK /\ RowsHeld /\ RowsOK /\ AllCovered /\ WidenedOK /\ WithinOK
        /\ BoundsAreBars /\ ScannedOK /\ CatalogExact
    BY DEF IInv
  <1>2. PICK s \in Scopes : s = tx[p].scope
    BY <1>1 DEF TypeOK, Transaction
  <1>3. /\ tx[p].pc = "commit" /\ tx'[p] = Idle
        /\ \A q \in Procs : q # p => Untouched(q)
        /\ generation' = generation /\ control' = control
        /\ raced \subseteq raced'
        /\ tx[p].kind = "audit" => \A q \in Procs, g \in Gens :
               tx[q].scope = s /\ g \in tx[q].within => <<g, s>> \in raced'
    BY <1>1, <1>2, CommitTx
  <1>4. /\ tx'[p].kind = "none" /\ tx'[p].pc = "idle" /\ tx'[p].within = {}
        /\ \A g \in Gens : tx'[p].seen[g] = NoRow /\ tx'[p].rows[g] = NoRow
    BY <1>3, IdleIs
  <1>5. ASSUME NEW q \in Procs, q # p
        PROVE  /\ tx'[q].kind = tx[q].kind /\ tx'[q].pc = tx[q].pc /\ tx'[q].scope = tx[q].scope
               /\ tx'[q].offered = tx[q].offered /\ tx'[q].removed = tx[q].removed
               /\ tx'[q].seen = tx[q].seen /\ tx'[q].found = tx[q].found
               /\ tx'[q].rows = tx[q].rows /\ tx'[q].within = tx[q].within
    BY <1>3, <1>5 DEF Untouched
  <1>6. \A r \in Scopes : r # s =>
          /\ Present(r)' = Present(r) /\ \A g \in Gens : catalog'[g][r] = catalog[g][r]
    BY <1>2, CommitStore
  <1>7. \A g \in Gens : catalog'[g][s] = IF tx[p].rows[g] # NoRow THEN tx[p].rows[g] ELSE catalog[g][s]
    BY <1>2, CommitStore
  <1>8. \A g \in Gens : Maintained(g)' <=> Maintained(g)
    BY <1>3 DEF Maintained
  <1>9. ASSUME NEW g \in Gens, NEW r \in Scopes, Kept(g, r)'
        PROVE  Kept(g, r) /\ Maintained(g) /\ <<g, r>> \notin raced'
    BY <1>3, <1>8, <1>9 DEF Kept
  <1>10. AllCovered'
    BY <1>1, <1>4, <1>5, <1>8 DEF AllCovered, Writer
  <1>11. WidenedOK'
    <2> SUFFICES ASSUME NEW a \in Procs, NEW g \in Gens, Writer(tx'[a]), tx'[a].rows[g] # NoRow
                 PROVE  tx'[a].rows[g] = Widened(catalog'[g][tx'[a].scope], Lowest(tx'[a].offered),
                                                 Highest(tx'[a].offered))
      BY DEF WidenedOK, Writer
    <2>1. a # p /\ Writer(tx[a]) /\ tx'[a].rows = tx[a].rows /\ tx'[a].scope = tx[a].scope
          /\ tx'[a].offered = tx[a].offered
      BY <1>4, <1>5 DEF Writer
    <2>2. PICK r \in Scopes : r = tx[a].scope
      BY <1>1 DEF TypeOK, Transaction
    <2>3. r = s => tx[p].rows[g] = NoRow
      <3>1. tx[a].rows[g] # NoRow
        BY <2>1
      <3> QED BY <1>1, <1>2, <2>1, <2>2, <3>1 DEF RowsHeld
    <2>4. catalog'[g][r] = catalog[g][r]
      BY <1>6, <1>7, <2>3
    <2> QED BY <1>1, <2>1, <2>2, <2>4 DEF WidenedOK
  <1>12. WithinOK'
    <2> SUFFICES ASSUME NEW a \in Procs, NEW g \in Gens, g \in tx'[a].within, Kept(g, tx[a].scope)'
                 PROVE /\ catalog'[g][tx'[a].scope].state = "present"
                       /\ catalog'[g][tx'[a].scope].min <= Lowest(tx'[a].offered)
                       /\ Highest(tx'[a].offered) <= catalog'[g][tx'[a].scope].max
                       /\ \A b \in Procs : ~ /\ tx'[b].kind = "delete" /\ tx'[b].scope = tx'[a].scope
                                             /\ tx'[b].pc \in {"cas", "invalidate", "commit"}
      BY DEF WithinOK
    <2>1. a # p
      BY <1>4
    <2>2. g \in tx[a].within /\ tx'[a].offered = tx[a].offered /\ tx'[a].scope = tx[a].scope
      BY <1>5, <2>1
    <2>3. PICK r \in Scopes : r = tx[a].scope
      BY <1>1 DEF TypeOK, Transaction
    <2>4. Kept(g, r)'
      BY <2>2, <2>3 DEF Kept, Maintained
    <2>5. Kept(g, r) /\ Maintained(g) /\ <<g, r>> \notin raced'
      BY <1>9, <2>4
    <2>6. /\ catalog[g][r].state = "present"
          /\ catalog[g][r].min <= Lowest(tx[a].offered) /\ Highest(tx[a].offered) <= catalog[g][r].max
          /\ \A b \in Procs : ~ /\ tx[b].kind = "delete" /\ tx[b].scope = r
                                /\ tx[b].pc \in {"cas", "invalidate", "commit"}
      BY <1>1, <2>2, <2>3, <2>5 DEF WithinOK
    <2>7. \A b \in Procs : ~ /\ tx'[b].kind = "delete" /\ tx'[b].scope = r
                             /\ tx'[b].pc \in {"cas", "invalidate", "commit"}
      <3> SUFFICES ASSUME NEW b \in Procs, tx'[b].kind = "delete", tx'[b].scope = r,
                          tx'[b].pc \in {"cas", "invalidate", "commit"}
                   PROVE  FALSE
        OBVIOUS
      <3>1. b # p
        BY <1>4
      <3>2. tx[b].kind = "delete" /\ tx[b].scope = r /\ tx[b].pc \in {"cas", "invalidate", "commit"}
        BY <1>5, <3>1
      <3> QED BY <2>6, <3>2
    <2>8. /\ catalog'[g][r].state = "present"
          /\ catalog'[g][r].min <= Lowest(tx[a].offered) /\ Highest(tx[a].offered) <= catalog'[g][r].max
      <3>1. CASE r # s \/ tx[p].rows[g] = NoRow
        <4>1. catalog'[g][r] = catalog[g][r]
          BY <1>6, <1>7, <3>1
        <4> QED BY <2>6, <4>1
      <3>2. CASE r = s /\ tx[p].rows[g] # NoRow
        <4>1. PICK row \in CatalogRow, new \in CatalogRow :
                row = catalog[g][s] /\ new = tx[p].rows[g] /\ new = catalog'[g][s]
          BY <1>1, <1>7, <3>2 DEF TypeOK, Transaction
        <4>2. tx[p].kind # "delete" /\ tx[p].kind # "audit"
          BY <1>2, <1>3, <2>2, <2>3, <2>5, <2>6, <3>2
        <4>3. Shape(tx[a]) /\ tx[a] \in Transaction
          BY <1>1 DEF ShapeOK, TypeOK
        <4>4. tx[a].offered # {} /\ tx[a].offered \in SUBSET Ends
          <5>1. Writer(tx[a]) /\ tx[a].pc = "commit"
            BY <2>2, <4>3 DEF Shape
          <5> QED BY <4>3, <5>1 DEF Shape, Transaction
        <4>5. PICK lo \in Ends, hi \in Ends : lo = Lowest(tx[a].offered) /\ hi = Highest(tx[a].offered)
          BY <4>4, BoundsAre
        <4>6. row.state = "present" /\ row.min <= lo /\ hi <= row.max
          BY <2>6, <3>2, <4>1, <4>5
        <4>7. /\ lo \in Int /\ hi \in Int /\ row.min \in Int /\ row.max \in Int
              /\ new.min \in Int /\ new.max \in Int
          BY BoundsAssumption DEF Ends, CatalogRow
        <4>8. new.state = "present" /\ new.min <= row.min /\ row.max <= new.max
          <5>1. CASE Writer(tx[p])
            <6>1. PICK low \in Ends, high \in Ends :
                    low = Lowest(tx[p].offered) /\ high = Highest(tx[p].offered) /\ low <= high
              BY <1>3, <5>1, OfferedIs
            <6>2. new = Widened(row, low, high)
              BY <1>1, <1>2, <3>2, <4>1, <5>1, <6>1 DEF WidenedOK
            <6>3. WellFormed(row)
              BY <1>1, <4>1 DEF TypeOK
            <6>4. /\ new.state = "present"
                  /\ new.min = IF row.min <= low THEN row.min ELSE low
                  /\ new.max = IF row.max <= high THEN high ELSE row.max
              BY <4>6, <6>1, <6>2, <6>3, WidenedIs
            <6>5. low \in Int /\ high \in Int
              BY BoundsAssumption DEF Ends
            <6> QED BY <4>7, <6>4, <6>5
          <5>2. CASE ~Writer(tx[p])
            <6>1. tx[p].kind = "bootstrap" /\ Present(s)' = Present(s) /\ Present(s)' = Rest(p)
              BY <1>2, <4>2, <5>2, CommitPresent
            <6>2. new = Exact(Rest(p), new.ver)
              BY <1>1, <1>2, <1>3, <2>5, <3>2, <4>1, <5>2, <6>1 DEF ScannedOK
            <6>3. PICK P \in SUBSET Ends : P = Present(s) /\ P = Rest(p)
              BY <6>1 DEF Present
            <6>4. row.min \in P /\ row.max \in P
              BY <1>1, <2>5, <3>2, <4>1, <4>6, <6>3 DEF BoundsAreBars
            <6>5. new.ver \in Nat
              BY DEF CatalogRow
            <6>6. /\ new.state = IF P = {} THEN "empty" ELSE "present"
                  /\ new.min = Lowest(P) /\ new.max = Highest(P)
              BY <6>2, <6>3, <6>5, ExactIs
            <6> QED BY <6>4, <6>6, BoundsAre
          <5> QED BY <5>1, <5>2
        <4>9. new.min <= lo /\ hi <= new.max
          BY <4>6, <4>7, <4>8
        <4> QED BY <3>2, <4>1, <4>5, <4>8, <4>9
      <3> QED BY <3>1, <3>2
    <2> QED BY <2>2, <2>3, <2>7, <2>8
  <1>13. BoundsAreBars'
    <2> SUFFICES ASSUME NEW g \in Gens, NEW r \in Scopes, Kept(g, r)', catalog'[g][r].state = "present"
                 PROVE  catalog'[g][r].min \in Present(r)' /\ catalog'[g][r].max \in Present(r)'
      BY DEF BoundsAreBars
    <2>1. Kept(g, r)
      BY <1>9
    <2>2. CASE r # s
      BY <1>1, <1>6, <2>1, <2>2 DEF BoundsAreBars
    <2>3. CASE r = s /\ tx[p].rows[g] # NoRow
      BY <1>2, <1>7, <2>1, <2>3, CommitRow
    <2>4. CASE r = s /\ tx[p].rows[g] = NoRow
      <3>1. Present(s) \subseteq Present(s)'
        BY <1>2, <2>1, <2>4, CommitSame
      <3> QED BY <1>1, <1>7, <2>1, <2>4, <3>1 DEF BoundsAreBars
    <2> QED BY <2>2, <2>3, <2>4
  <1>14. ScannedOK'
    <2> SUFFICES ASSUME NEW a \in Procs, NEW g \in Gens, ~Writer(tx'[a]), Kept(g, tx[a].scope)'
                 PROVE  /\ tx'[a].pc = "cas" /\ tx'[a].seen[g] # NoRow
                              /\ tx'[a].seen[g].ver = catalog'[g][tx'[a].scope].ver
                             => SameBounds(tx'[a].found, Rest(a)')
                        /\ tx'[a].pc = "commit" /\ tx'[a].rows[g] # NoRow =>
                             \/ tx'[a].kind # "bootstrap" /\ tx'[a].rows[g].state = "unknown"
                             \/ tx'[a].kind # "audit" /\ tx'[a].rows[g] = Exact(Rest(a)', tx'[a].rows[g].ver)
      BY DEF ScannedOK, Writer, SameBounds, Lowest, Highest, Exact
    <2>1. CASE a = p
      BY <1>4, <2>1
    <2>2. CASE a # p
      <3>1. PICK r \in Scopes : r = tx[a].scope /\ r = tx'[a].scope
        BY <1>1, <1>5, <2>2 DEF TypeOK, Transaction
      <3>2. Kept(g, r)'
        BY <3>1 DEF Kept, Maintained
      <3>3. Kept(g, r) /\ Maintained(g)
        BY <1>9, <3>2
      <3>4. PICK t \in Transaction : t = tx[a] /\ Shape(t) /\ ~Writer(t)
        BY <1>1, <1>5, <2>2 DEF TypeOK, ShapeOK, Writer
      <3>5. /\ tx'[a].pc = t.pc /\ tx'[a].kind = t.kind /\ tx'[a].rows = t.rows /\ tx'[a].seen = t.seen
            /\ tx'[a].found = t.found /\ tx'[a].removed = t.removed
        BY <1>5, <2>2, <3>4
      <3>6. PICK P \in SUBSET Ends, Q \in SUBSET Ends : P = Present(r) /\ Q = Present(r)'
        BY DEF Present
      <3>7. Rest(a) = P \ t.removed /\ Rest(a)' = Q \ t.removed
        BY <3>1, <3>4, <3>5, <3>6 DEF Rest, Present
      <3>8. /\ t.pc = "cas" /\ t.seen[g] # NoRow /\ t.seen[g].ver = catalog[g][r].ver
               => SameBounds(t.found, P \ t.removed)
            /\ t.pc = "commit" /\ t.rows[g] # NoRow =>
                 \/ t.kind # "bootstrap" /\ t.rows[g].state = "unknown"
                 \/ t.kind # "audit" /\ t.rows[g] = Exact(P \ t.removed, t.rows[g].ver)
        BY <1>1, <3>1, <3>3, <3>4, <3>7 DEF ScannedOK
      <3>9. CASE r # s
        BY <1>6, <3>1, <3>5, <3>6, <3>7, <3>8, <3>9
      <3>10. CASE r = s /\ tx[p].rows[g] # NoRow
        <4>1. t.rows[g] = NoRow
          BY <1>1, <1>2, <2>2, <3>1, <3>4, <3>10 DEF RowsHeld
        <4>2. catalog[g][s].ver < tx[p].rows[g].ver /\ catalog'[g][s] = tx[p].rows[g]
          BY <1>1, <1>2, <1>7, <3>10 DEF RowsOK
        <4>3. t.seen[g] # NoRow => t.seen[g].ver <= catalog[g][s].ver
          BY <1>1, <3>1, <3>4, <3>10 DEF RowsOK
        <4>4. catalog[g][s].ver \in Int /\ tx[p].rows[g].ver \in Int /\ t.seen[g].ver \in Int
          BY <1>1 DEF TypeOK, Transaction, CatalogRow
        <4>5. t.seen[g] # NoRow => t.seen[g].ver # catalog'[g][s].ver
          BY <4>2, <4>3, <4>4
        <4> QED BY <3>1, <3>5, <3>10, <4>1, <4>5
      <3>11. CASE r = s /\ tx[p].rows[g] = NoRow
        <4>1. /\ SameBounds(P, Q) /\ tx[p].kind \notin {"delete", "audit"}
              /\ Writer(tx[p]) => g \in tx[p].within
          BY <1>2, <3>3, <3>6, <3>11, CommitSame
        <4>2. catalog'[g][r] = catalog[g][r]
          BY <1>7, <3>11
        <4>3. CASE ~Writer(tx[p])
          <5>1. P = Q
            BY <1>2, <3>6, <3>11, <4>1, <4>3, CommitPresent
          <5> QED BY <3>1, <3>5, <3>7, <3>8, <4>2, <5>1
        <4>4. CASE Writer(tx[p])
          <5>1. ~(t.kind = "delete" /\ t.pc \in {"cas", "invalidate", "commit"})
            BY <1>1, <1>2, <3>1, <3>3, <3>4, <3>11, <4>1, <4>4 DEF WithinOK
          <5>2. CASE t.kind = "audit"
            <6>1. t.pc # "cas"
              BY <3>4, <5>2 DEF Shape
            <6> QED BY <3>5, <3>8, <5>2, <6>1
          <5>3. CASE t.kind # "audit"
            <6>1. t.pc \in {"cas", "commit"} => t.kind = "bootstrap" /\ t.removed = {}
              BY <3>4, <5>1, <5>3 DEF Shape, Writer, Transaction
            <6>2. t.pc \in {"cas", "commit"} => P \ t.removed = P /\ Q \ t.removed = Q
              BY <6>1
            <6>3. \A v : Exact(P, v) = Exact(Q, v)
              BY <4>1 DEF SameBounds, Exact
            <6>4. t.pc = "cas" /\ t.seen[g] # NoRow /\ t.seen[g].ver = catalog[g][r].ver
                    => SameBounds(t.found, Q \ t.removed)
              BY <3>8, <4>1, <6>2 DEF SameBounds
            <6>5. t.pc = "commit" /\ t.rows[g] # NoRow =>
                   t.kind # "audit" /\ t.rows[g] = Exact(Q \ t.removed, t.rows[g].ver)
              BY <3>8, <5>3, <6>1, <6>2, <6>3
            <6> QED BY <3>1, <3>5, <3>7, <4>2, <6>4, <6>5
          <5> QED BY <5>2, <5>3
        <4> QED BY <4>3, <4>4
      <3> QED BY <3>9, <3>10, <3>11
    <2> QED BY <2>1, <2>2
  <1>15. CatalogExact'
    <2> SUFFICES ASSUME NEW g \in Gens, NEW r \in Scopes, Maintained(g)', catalog'[g][r].complete,
                        <<g, r>> \notin raced'
                 PROVE  /\ catalog'[g][r].state = IF Present(r)' = {} THEN "empty" ELSE "present"
                        /\ catalog'[g][r].min = Lowest(Present(r)')
                        /\ catalog'[g][r].max = Highest(Present(r)')
      BY DEF CatalogExact, Lowest, Highest
    <2>1. Kept(g, r) /\ Maintained(g) /\ <<g, r>> \notin raced
      BY <1>3, <1>8 DEF Kept
    <2>2. CASE r # s
      BY <1>1, <1>6, <2>1, <2>2 DEF CatalogExact
    <2>3. CASE r = s /\ tx[p].rows[g] # NoRow
      BY <1>2, <1>7, <2>1, <2>3, CommitRow
    <2>4. CASE r = s /\ tx[p].rows[g] = NoRow
      <3>1. SameBounds(Present(s), Present(s)')
        BY <1>2, <2>1, <2>4, CommitSame
      <3>2. catalog'[g][s] = catalog[g][s]
        BY <1>7, <2>4
      <3>3. /\ catalog[g][s].state = IF Present(s) = {} THEN "empty" ELSE "present"
            /\ catalog[g][s].min = Lowest(Present(s)) /\ catalog[g][s].max = Highest(Present(s))
        BY <1>1, <2>1, <2>4, <3>2 DEF CatalogExact
      <3> QED BY <2>4, <3>1, <3>2, <3>3 DEF SameBounds
    <2> QED BY <2>2, <2>3, <2>4
  <1> QED BY <1>10, <1>11, <1>12, <1>13, <1>14, <1>15

-----------------------------------------------------------------------------
(* Generations.                                                              *)

\* Fewer rows are maintained, and nothing else changes.
LEMMA FewerMaintained ==
    ASSUME IInv, UNCHANGED <<bars, mark, catalog, tx, clock, raced>>,
           \A g \in Gens : Maintained(g)' => Maintained(g), TypeOK', RowsOK'
    PROVE  IInv'
  <1>1. /\ ShapeOK /\ ClockOK /\ UpsertOK /\ BarsHeld /\ RowsHeld
        /\ AllCovered /\ WidenedOK /\ WithinOK /\ BoundsAreBars /\ ScannedOK /\ CatalogExact
    BY DEF IInv
  <1>2. bars' = bars /\ mark' = mark /\ catalog' = catalog /\ tx' = tx /\ clock' = clock /\ raced' = raced
    OBVIOUS
  <1>3. \A g \in Gens, s \in Scopes : Kept(g, s)' => Kept(g, s)
    BY <1>2 DEF Kept
  <1>4. \A p \in Procs : tx[p].scope \in Scopes
    BY DEF IInv, TypeOK, Transaction
  <1>5. \A s \in Scopes : Present(s)' = Present(s)
    BY <1>2 DEF Present
  <1>6. ShapeOK' /\ ClockOK' /\ UpsertOK' /\ RowsHeld' /\ WidenedOK'
    BY <1>1, <1>2 DEF ShapeOK, ClockOK, UpsertOK, RowsHeld, WidenedOK
  <1>7. BarsHeld'
    BY <1>1, <1>2 DEF BarsHeld, Present
  <1>8. AllCovered'
    BY <1>1, <1>2 DEF AllCovered
  <1>9. \A p \in Procs, g \in Gens : Kept(g, tx[p].scope)' => Kept(g, tx[p].scope)
    BY <1>2 DEF Kept
  <1>10. WithinOK'
    BY <1>1, <1>2, <1>9 DEF WithinOK
  <1>11. BoundsAreBars'
    BY <1>1, <1>2, <1>3, <1>5 DEF BoundsAreBars
  <1>12. \A p \in Procs : Rest(p)' = Rest(p)
    BY <1>2 DEF Rest, Present
  <1>13. ScannedOK'
    <2> SUFFICES ASSUME NEW a \in Procs, NEW g \in Gens, ~Writer(tx[a]), Kept(g, tx[a].scope)'
                 PROVE  /\ tx[a].pc = "cas" /\ tx[a].seen[g] # NoRow
                              /\ tx[a].seen[g].ver = catalog[g][tx[a].scope].ver
                             => SameBounds(tx[a].found, Rest(a))
                        /\ tx[a].pc = "commit" /\ tx[a].rows[g] # NoRow =>
                             \/ tx[a].kind # "bootstrap" /\ tx[a].rows[g].state = "unknown"
                             \/ tx[a].kind # "audit" /\ tx[a].rows[g] = Exact(Rest(a), tx[a].rows[g].ver)
      BY <1>2, <1>12 DEF ScannedOK
    <2> QED BY <1>1, <1>9 DEF ScannedOK
  <1>14. CatalogExact'
    BY <1>1, <1>2, <1>5 DEF CatalogExact
  <1> QED BY <1>6, <1>7, <1>8, <1>10, <1>11, <1>13, <1>14 DEF IInv

LEMMA FinalizeStep ==
    ASSUME IInv, NEW g \in Gens, FinalizeGeneration(g)
    PROVE  IInv'
  <1>1. TypeOK /\ RowsOK /\ g # 0 /\ g \in 0 .. MaxGen
    BY BoundsAssumption DEF IInv, Gens
  <1>2. /\ generation[g].status = "building"
        /\ generation' = [k \in Gens |->
               IF k = g THEN [generation[k] EXCEPT !.status = "complete"]
               ELSE IF k = control.active THEN [generation[k] EXCEPT !.status = "superseded"]
               ELSE generation[k]]
        /\ control' = [active |-> g, revision |-> control.revision + 1]
        /\ UNCHANGED <<bars, mark, catalog, tx, clock, raced>>
    BY DEF FinalizeGeneration
  <1> DEFINE GenRow == [status : {"none", "building", "complete", "superseded", "failed"},
                        active : 0 .. MaxGen, revision : Nat]
  <1>3. generation \in [Gens -> GenRow]
    BY <1>1 DEF TypeOK
  <1>4. ASSUME NEW r \in GenRow
        PROVE  /\ [r EXCEPT !.status = "complete"] \in GenRow /\ [r EXCEPT !.status = "complete"].status = "complete"
               /\ [r EXCEPT !.status = "superseded"] \in GenRow
               /\ [r EXCEPT !.status = "superseded"].status = "superseded"
    OBVIOUS
  <1>5. generation' \in [Gens -> GenRow]
    BY <1>2, <1>3, <1>4
  <1>6. control' \in [active : 0 .. MaxGen, revision : Nat] /\ control'.active = g
    <2>1. control.revision + 1 \in Nat
      BY <1>1 DEF TypeOK
    <2> QED BY <1>1, <1>2, <2>1
  <1>7. TypeOK'
    BY <1>1, <1>2, <1>5, <1>6 DEF TypeOK, Present
  <1>8. ASSUME NEW k \in Gens
        PROVE  generation'[k].status = IF k = g THEN "complete"
                                       ELSE IF k = control.active THEN "superseded" ELSE generation[k].status
    BY <1>2, <1>3, <1>4
  <1>9. RowsOK'
    <2>1. \A k \in Gens : generation'[k].status = "none" <=> generation[k].status = "none"
      BY <1>1, <1>2, <1>8 DEF RowsOK
    <2>2. control'.active \in Gens => generation'[control'.active].status # "none"
      BY <1>6, <1>8
    <2> QED BY <1>1, <1>2, <2>1, <2>2 DEF RowsOK
  <1>10. \A k \in Gens : Maintained(k)' => Maintained(k)
    BY <1>2, <1>6, <1>8 DEF Maintained
  <1> QED BY <1>2, <1>7, <1>9, <1>10, FewerMaintained

LEMMA FailStep ==
    ASSUME IInv, NEW g \in Gens, FailGeneration(g)
    PROVE  IInv'
  <1>1. TypeOK /\ RowsOK
    BY DEF IInv
  <1>2. /\ generation[g].status = "building"
        /\ generation' = [generation EXCEPT ![g].status = "failed"]
        /\ control' = control
        /\ UNCHANGED <<bars, mark, catalog, tx, clock, raced>>
    BY DEF FailGeneration
  <1> DEFINE GenRow == [status : {"none", "building", "complete", "superseded", "failed"},
                        active : 0 .. MaxGen, revision : Nat]
  <1>3. generation \in [Gens -> GenRow]
    BY <1>1 DEF TypeOK
  <1>4. ASSUME NEW r \in GenRow
        PROVE  [r EXCEPT !.status = "failed"] \in GenRow /\ [r EXCEPT !.status = "failed"].status = "failed"
    OBVIOUS
  <1>5. generation' = [generation EXCEPT ![g] = [generation[g] EXCEPT !.status = "failed"]]
    BY <1>2
  <1>6. PICK new \in GenRow : new = [generation[g] EXCEPT !.status = "failed"] /\ new.status = "failed"
    BY <1>3, <1>4
  <1>7. generation' \in [Gens -> GenRow]
    BY <1>3, <1>5, <1>6
  <1>8. \A k \in Gens : generation'[k].status = IF k = g THEN "failed" ELSE generation[k].status
    BY <1>3, <1>5, <1>6
  <1>9. TypeOK'
    BY <1>1, <1>2, <1>7 DEF TypeOK
  <1>10. RowsOK'
    <2>1. \A k \in Gens : generation'[k].status = "none" <=> generation[k].status = "none"
      BY <1>2, <1>8
    <2> QED BY <1>1, <1>2, <2>1 DEF RowsOK
  <1>11. \A k \in Gens : Maintained(k)' => Maintained(k)
    BY <1>2, <1>8 DEF Maintained
  <1> QED BY <1>2, <1>9, <1>10, <1>11, FewerMaintained

LEMMA CreateStep ==
    ASSUME IInv, NEW g \in Gens, CreateGeneration(g)
    PROVE  IInv'
  <1>1. /\ TypeOK /\ ShapeOK /\ ClockOK /\ UpsertOK /\ BarsHeld /\ RowsHeld /\ RowsOK
        /\ BoundsAreBars /\ CatalogExact
    BY DEF IInv
  <1>2. /\ Quiet /\ generation[g].status = "none"
        /\ generation' = [generation EXCEPT ![g] =
               [status |-> "building", active |-> control.active, revision |-> control.revision]]
        /\ catalog' = [catalog EXCEPT ![g] = [s \in Scopes |-> Unknown]]
        /\ bars' = bars /\ mark' = mark /\ control' = control /\ tx' = tx /\ clock' = clock /\ raced' = raced
    BY DEF CreateGeneration
  <1> DEFINE GenRow == [status : {"none", "building", "complete", "superseded", "failed"},
                        active : 0 .. MaxGen, revision : Nat]
  <1>3. generation \in [Gens -> GenRow]
    BY <1>1 DEF TypeOK
  <1>4. PICK new : new = [status |-> "building", active |-> control.active, revision |-> control.revision]
    OBVIOUS
  <1>5. new \in GenRow /\ new.status = "building"
    BY <1>1, <1>4 DEF TypeOK
  <1>6. generation' \in [Gens -> GenRow]
    BY <1>2, <1>3, <1>4, <1>5
  <1>7. \A k \in Gens : generation'[k] = IF k = g THEN new ELSE generation[k]
    BY <1>2, <1>3, <1>4
  <1>8. Unknown \in CatalogRow /\ WellFormed(Unknown) /\ Unknown # NoRow /\ ~Unknown.complete /\ Unknown.state = "unknown"
    <2>1. [Unknown EXCEPT !.ver = 0] = Unknown
      BY DEF Unknown
    <2> QED BY <2>1, RowsAre
  <1>9. catalog' \in [Gens -> [Scopes -> CatalogRow]]
    BY <1>1, <1>2, <1>8 DEF TypeOK
  <1>10. \A k \in Gens, s \in Scopes : catalog'[k][s] = IF k = g THEN Unknown ELSE catalog[k][s]
    BY <1>1, <1>2 DEF TypeOK
  <1>11. \A k \in Gens : k # g => (Maintained(k)' <=> Maintained(k))
    BY <1>2, <1>7 DEF Maintained
  <1>12. ASSUME NEW p \in Procs
         PROVE  /\ tx[p].pc \notin {"scan", "cas", "invalidate", "commit"}
                /\ tx[p].within = {} /\ \A k \in Gens : tx[p].seen[k] = NoRow /\ tx[p].rows[k] = NoRow
    <2>1. tx[p].pc \notin {"scan", "cas", "invalidate", "commit"}
      BY <1>2 DEF Quiet, HoldsControl
    <2>2. Shape(tx[p])
      BY <1>1 DEF ShapeOK
    <2> QED BY <2>1, <2>2 DEF Shape
  <1>13. TypeOK'
    BY <1>1, <1>2, <1>6, <1>8, <1>9, <1>10 DEF TypeOK
  <1>14. ShapeOK' /\ ClockOK' /\ UpsertOK' /\ RowsHeld'
    BY <1>1, <1>2 DEF ShapeOK, ClockOK, UpsertOK, RowsHeld
  <1>15. BarsHeld'
    BY <1>1, <1>2 DEF BarsHeld, Present
  <1>16. RowsOK'
    <2>1. ASSUME NEW k \in Gens, NEW s \in Scopes
          PROVE  RowOK(catalog'[k][s]) /\ (catalog'[k][s] = NoRow <=> generation'[k].status = "none")
      BY <1>1, <1>5, <1>7, <1>8, <1>10 DEF RowsOK, RowOK
    <2>2. control'.active \in Gens => generation'[control'.active].status # "none"
      BY <1>1, <1>2, <1>5, <1>7 DEF RowsOK
    <2>3. ASSUME NEW p \in Procs, NEW k \in Gens
          PROVE  tx'[p].rows[k] = NoRow /\ tx'[p].seen[k] = NoRow
      BY <1>2, <1>12
    <2> QED BY <2>1, <2>2, <2>3 DEF RowsOK, RowOK
  <1>17. AllCovered' /\ WidenedOK' /\ WithinOK'
    BY <1>2, <1>12 DEF AllCovered, WidenedOK, WithinOK
  <1>18. ScannedOK'
    BY <1>2, <1>12 DEF ScannedOK
  <1>19. \A s \in Scopes : Present(s)' = Present(s)
    BY <1>2 DEF Present
  <1>20. BoundsAreBars'
    <2> SUFFICES ASSUME NEW k \in Gens, NEW s \in Scopes, Kept(k, s)', catalog'[k][s].state = "present"
                 PROVE  catalog'[k][s].min \in Present(s)' /\ catalog'[k][s].max \in Present(s)'
      BY DEF BoundsAreBars
    <2>1. k # g
      BY <1>8, <1>10
    <2>2. Kept(k, s)
      BY <1>2, <1>11, <2>1 DEF Kept
    <2> QED BY <1>1, <1>10, <1>19, <2>1, <2>2 DEF BoundsAreBars
  <1>21. CatalogExact'
    <2> SUFFICES ASSUME NEW k \in Gens, NEW s \in Scopes, Maintained(k)', catalog'[k][s].complete,
                        <<k, s>> \notin raced'
                 PROVE  /\ catalog'[k][s].state = IF Present(s)' = {} THEN "empty" ELSE "present"
                        /\ catalog'[k][s].min = Lowest(Present(s)')
                        /\ catalog'[k][s].max = Highest(Present(s)')
      BY DEF CatalogExact, Lowest, Highest
    <2>1. k # g
      BY <1>8, <1>10
    <2>2. Maintained(k)
      BY <1>11, <2>1
    <2> QED BY <1>1, <1>2, <1>10, <1>19, <2>1, <2>2 DEF CatalogExact
  <1> QED BY <1>13, <1>14, <1>15, <1>16, <1>17, <1>18, <1>20, <1>21 DEF IInv

-----------------------------------------------------------------------------
(* The theorems.                                                             *)

LEMMA IInvInit == Init => IInv
  <1> SUFFICES ASSUME Init PROVE IInv
    OBVIOUS
  <1>1. PICK old \in [Scopes -> SUBSET Ends] :
          /\ bars = [s \in Scopes |-> [e \in Ends |-> IF e \in old[s] THEN 1 ELSE 0]]
          /\ mark = [s \in Scopes |->
                 IF old[s] = {} THEN [last |-> 0, version |-> 0, stamp |-> 0]
                 ELSE [last |-> Highest(old[s]), version |-> 1, stamp |-> 1]]
    BY DEF Init
  <1>2. /\ generation = [g \in Gens |-> NoGeneration]
        /\ control = [active |-> 0, revision |-> 0]
        /\ catalog = [g \in Gens |-> [s \in Scopes |-> NoRow]]
        /\ tx = [p \in Procs |-> Idle] /\ clock = 1 /\ raced = {}
    BY DEF Init
  <1>3. 0 \in 0 .. MaxTx /\ 1 \in 0 .. MaxTx /\ 1 \in 1 .. MaxTx /\ 0 \in 0 .. MaxEnd /\ 0 \in 0 .. MaxGen
    BY BoundsAssumption
  <1>4. /\ Idle \in Transaction /\ Idle.kind = "none" /\ Idle.pc = "idle" /\ Idle.stamp = 0
        /\ Idle.offered = {} /\ Idle.wrote = {} /\ Idle.removed = {} /\ Idle.within = {}
        /\ \A g \in Gens : Idle.seen[g] = NoRow /\ Idle.rows[g] = NoRow
    BY IdleIs
  <1>5. /\ \A p \in Procs : tx[p] = Idle
        /\ \A g \in Gens, s \in Scopes : catalog[g][s] = NoRow
        /\ \A g \in Gens : generation[g] = NoGeneration
    BY <1>2
  <1>6. NoRow \in CatalogRow /\ WellFormed(NoRow) /\ ~NoRow.complete /\ NoRow.state = "none"
    BY RowsAre
  <1>7. /\ NoGeneration.status = "none"
        /\ NoGeneration \in [status : {"none", "building", "complete", "superseded", "failed"},
                              active : 0 .. MaxGen, revision : Nat]
    BY <1>3 DEF NoGeneration
  <1>8. \A g \in Gens : ~Maintained(g)
    BY <1>5, <1>7 DEF Maintained
  <1>9. ASSUME NEW s \in Scopes
        PROVE  /\ mark[s] \in [last : 0 .. MaxEnd, version : Nat, stamp : 0 .. MaxTx]
               /\ mark[s].stamp <= 1
               /\ bars[s] \in [Ends -> 0 .. MaxTx] /\ \A e \in Ends : bars[s][e] <= 1
    <2>1. CASE old[s] = {}
      BY <1>1, <1>3, <2>1
    <2>2. CASE old[s] # {}
      <3>1. PICK h \in 0 .. MaxEnd : h = Highest(old[s])
        BY BoundsAre
      <3>2. mark[s] = [last |-> h, version |-> 1, stamp |-> 1]
        BY <1>1, <2>2, <3>1
      <3> QED BY <1>1, <1>3, <3>2
    <2> QED BY <2>1, <2>2
  <1>10. /\ mark \in [Scopes -> [last : 0 .. MaxEnd, version : Nat, stamp : 0 .. MaxTx]]
         /\ bars \in [Scopes -> [Ends -> 0 .. MaxTx]]
    <2>1. PICK m : m = [s \in Scopes |-> mark[s]] /\ m = mark
      BY <1>1
    <2>2. PICK b : b = [s \in Scopes |-> bars[s]] /\ b = bars
      BY <1>1
    <2> QED BY <1>9, <2>1, <2>2
  <1>11. TypeOK
    <2>1. control \in [active : 0 .. MaxGen, revision : Nat]
      BY <1>2, <1>3
    <2>2. tx \in [Procs -> Transaction]
      BY <1>2, <1>4
    <2>3. /\ catalog \in [Gens -> [Scopes -> CatalogRow]]
          /\ \A g \in Gens, s \in Scopes : WellFormed(catalog[g][s])
      BY <1>2, <1>6
    <2>4. generation \in [Gens -> [status : {"none", "building", "complete", "superseded", "failed"},
                                   active : 0 .. MaxGen, revision : Nat]]
      BY <1>2, <1>7
    <2>5. clock \in 1 .. MaxTx /\ raced \subseteq Gens \X Scopes
      BY <1>2, <1>3
    <2> QED BY <1>10, <2>1, <2>2, <2>3, <2>4, <2>5 DEF TypeOK
  <1>12. ShapeOK
    BY <1>4, <1>5 DEF ShapeOK, Shape, Writer
  <1>13. ClockOK
    BY <1>2, <1>4, <1>5, <1>9 DEF ClockOK
  <1>14. UpsertOK /\ RowsHeld
    BY <1>4, <1>5 DEF UpsertOK, RowsHeld
  <1>15. BarsHeld
    BY <1>4, <1>5 DEF BarsHeld
  <1>16. RowsOK
    <2>1. control.active \notin Gens
      BY <1>2, BoundsAssumption DEF Gens
    <2> QED BY <1>4, <1>5, <1>7, <2>1 DEF RowsOK, RowOK
  <1>17. AllCovered /\ WidenedOK /\ WithinOK /\ BoundsAreBars /\ ScannedOK /\ CatalogExact
    BY <1>4, <1>5, <1>8 DEF AllCovered, WidenedOK, WithinOK, BoundsAreBars, ScannedOK, CatalogExact, Kept
  <1> QED BY <1>11, <1>12, <1>13, <1>14, <1>15, <1>16, <1>17 DEF IInv

LEMMA StutterStep == IInv /\ UNCHANGED vars => IInv'
  <1> SUFFICES ASSUME IInv, UNCHANGED vars PROVE IInv'
    OBVIOUS
  <1>1. UNCHANGED <<bars, mark, catalog, tx, clock, raced>> /\ generation' = generation /\ control' = control
    BY DEF vars
  <1>2. \A g \in Gens : Maintained(g)' => Maintained(g)
    BY <1>1 DEF Maintained
  <1>3. TypeOK' /\ RowsOK'
    BY <1>1 DEF IInv, TypeOK, RowsOK
  <1> QED BY <1>1, <1>2, <1>3, FewerMaintained

LEMMA IInvStep == IInv /\ [Next]_vars => IInv'
  <1> SUFFICES ASSUME IInv, [Next]_vars PROVE IInv'
    OBVIOUS
  <1>1. ASSUME NEW p \in Procs, NEW s \in Scopes, Upsert(p, s) PROVE IInv'
    BY <1>1, UpsertStep
  <1>2. ASSUME NEW p \in Procs, NEW s \in Scopes, BeginImport(p, s) PROVE IInv'
    BY <1>2, BeginImportStep
  <1>3. ASSUME NEW p \in Procs, NEW s \in Scopes, BeginDelete(p, s) PROVE IInv'
    BY <1>3, BeginDeleteStep
  <1>4. ASSUME NEW p \in Procs, NEW s \in Scopes, Audit(p, s) PROVE IInv'
    BY <1>4, AuditStep
  <1>5. ASSUME NEW p \in Procs, NEW s \in Scopes, NEW g \in Gens, Bootstrap(p, g, s) PROVE IInv'
    BY <1>5, BootstrapStep
  <1>6. ASSUME NEW p \in Procs, Import(p) PROVE IInv'
    BY <1>6, ImportStep
  <1>7. ASSUME NEW p \in Procs, Record(p) PROVE IInv'
    BY <1>7, RecordStep
  <1>8. ASSUME NEW p \in Procs, Remove(p) PROVE IInv'
    BY <1>8, RemoveStep
  <1>9. ASSUME NEW p \in Procs, Select(p) PROVE IInv'
    BY <1>9, SelectStep
  <1>10. ASSUME NEW p \in Procs, Scan(p) PROVE IInv'
    BY <1>10, ScanStep
  <1>11. ASSUME NEW p \in Procs, Cas(p) PROVE IInv'
    BY <1>11, CasStep
  <1>12. ASSUME NEW p \in Procs, Invalidate(p) PROVE IInv'
    BY <1>12, InvalidateStep
  <1>13. ASSUME NEW p \in Procs, Commit(p) PROVE IInv'
    BY <1>13, CommitKeepsTx, CommitKeepsCatalog DEF IInv
  <1>14. ASSUME NEW p \in Procs, Rollback(p) PROVE IInv'
    BY <1>14, RollbackStep
  <1>15. ASSUME NEW g \in Gens, CreateGeneration(g) PROVE IInv'
    BY <1>15, CreateStep
  <1>16. ASSUME NEW g \in Gens, FinalizeGeneration(g) PROVE IInv'
    BY <1>16, FinalizeStep
  <1>17. ASSUME NEW g \in Gens, FailGeneration(g) PROVE IInv'
    BY <1>17, FailStep
  <1>18. CASE UNCHANGED vars
    BY <1>18, StutterStep
  <1> QED BY <1>1, <1>2, <1>3, <1>4, <1>5, <1>6, <1>7, <1>8, <1>9, <1>10, <1>11, <1>12, <1>13, <1>14,
             <1>15, <1>16, <1>17, <1>18 DEF Next

\* The inductive invariant.
LEMMA Invariance == Spec => []IInv
  BY IInvInit, IInvStep, PTL DEF Spec

\* Types, and the check constraints of the catalog.
THEOREM TypeCorrect == Spec => []TypeOK
  <1>1. IInv => TypeOK
    BY DEF IInv
  <1> QED BY <1>1, Invariance, PTL

\* A complete row of a maintained generation has the exact bounds of the bars that
\* are committed, however many connections insert, correct, import, delete, audit,
\* bootstrap and switch generations meanwhile, unless a deletion and a writer that
\* left the row alone missed each other on it.
THEOREM CatalogIsExact == Spec => []CatalogExact
  <1>1. IInv => CatalogExact
    BY DEF IInv
  <1> QED BY <1>1, Invariance, PTL

\* Bars change at commits only; the commit of an upsert that no younger import has
\* overtaken advances the change version of its scope.
LEMMA ChangeStep ==
    ASSUME IInv, [Next]_vars, NEW s \in Scopes, bars'[s] # bars[s]
    PROVE  \/ mark'[s].version > mark[s].version
           \/ \E p \in Procs : /\ tx[p].pc = "commit" /\ tx'[p].pc = "idle"
                               /\ tx[p].kind # "upsert" \/ tx[p].overtaken
  <1>1. PICK p \in Procs : Commit(p)
    BY DEF Next, vars, Upsert, BeginImport, BeginDelete, Audit, Bootstrap, Import, Record, Remove, Select,
           Scan, Cas, Invalidate, Rollback, CreateGeneration, FinalizeGeneration, FailGeneration
  <1>2. tx[p].pc = "commit" /\ tx'[p].pc = "idle"
    BY <1>1, CommitTx, IdleIs DEF IInv
  <1>3. CASE tx[p].kind # "upsert" \/ tx[p].overtaken
    BY <1>2, <1>3
  <1>4. CASE tx[p].kind = "upsert" /\ ~tx[p].overtaken
    <2>1. s = tx[p].scope
      BY <1>1, CommitStore
    <2>2. Shape(tx[p])
      BY DEF IInv, ShapeOK
    <2>3. ASSUME tx[p].wrote = {} PROVE FALSE
      <3>1. tx[p].removed = {}
        BY <1>4, <2>2 DEF Shape
      <3>2. \A e \in Ends : bars'[s][e] = bars[s][e]
        BY <1>1, <2>1, <2>3, <3>1, CommitStore
      <3>3. bars[s] \in [Ends -> 0 .. MaxTx] /\ bars'[s] \in [Ends -> 0 .. MaxTx]
        BY <1>1, CommitStore DEF IInv, TypeOK
      <3> QED BY <3>2, <3>3
    <2>4. mark[s].version < mark'[s].version
      BY <1>1, <1>4, <2>1, <2>3, CommitMark
    <2> QED BY <1>1, <2>4, CommitMark DEF IInv, TypeOK, MarkSet
  <1> QED BY <1>3, <1>4

\* An upsert that changed a bar is noticed: its change version grows in the step
\* that makes the bars visible, save where an import has overtaken it.
THEOREM ChangesAreCounted == Spec => ChangesCount
  <1>1. IInv /\ [Next]_vars =>
          [\A s \in Scopes :
             bars'[s] # bars[s] =>
               \/ mark'[s].version > mark[s].version
               \/ \E p \in Procs : /\ tx[p].pc = "commit" /\ tx'[p].pc = "idle"
                                   /\ tx[p].kind # "upsert" \/ tx[p].overtaken]_vars
    BY ChangeStep
  <1> QED BY <1>1, Invariance, PTL DEF Spec, ChangesCount
=============================================================================
