--------------------------- MODULE TailStreamProofs ---------------------------
(* Proofs about TailStream: the workers' optimistic protocol implements the  *)
(* one-step publication of PublishedHead, for any number of workers, modes,  *)
(* bars and faults.  The argument is a rely condition: whatever step is      *)
(* taken, what a worker has read stays usable or its compare-and-swap fails. *)
(* A second invariant, on top of the first, says what the task rows promise. *)
EXTENDS TailStream, FiniteSetTheorems, WellFoundedInduction, TLAPS

-----------------------------------------------------------------------------
(* What a published head promises, for any number of bars, versions, runs    *)
(* and modes.                                                                *)

(* No version is used before it is committed: neither the last change of a   *)
(* bar nor what a head consumed is beyond the watermark's change_version.    *)
VersionsBehind ==
    /\ \A e \in Ends : klines[e] <= ingest.version
    /\ \A m \in Modes : head[m].consumed <= ingest.version

HeadInv == HeadTypeOK /\ VersionsBehind /\ NothingMissed /\ NothingNewer

\* Combining a prefix and a tail gives an input: one version for every bar.
LEMMA CombineType ==
    ASSUME NEW prefix \in Input, NEW read \in Input, NEW from \in Int, NEW to \in Int
    PROVE  Combine(prefix, from, read, to) \in Input
  BY VersionAssumption DEF Combine, Input, Versions

LEMMA HeadInvInit == HeadInit => HeadInv
  <1> USE EndAssumption, VersionAssumption, RunAssumption
  <1> SUFFICES ASSUME HeadInit PROVE HeadInv
    OBVIOUS
  <1>1. PICK last \in Ends :
            /\ klines = [e \in Ends |-> IF e <= last THEN 1 ELSE 0]
            /\ ingest = [last |-> last, version |-> 1]
            /\ head \in [Modes -> [run : {1}, to : {last}, consumed : {0}, anchor : 1 .. last,
                                   from : {0}, online : {FALSE}, config : {BaseConfig},
                                   input : {klines}]]
    BY DEF HeadInit
  <1>2. klines \in Input
    BY <1>1 DEF Input, Versions
  <1>3. \A m \in Modes :
           /\ head[m] \in HeadRow
           /\ head[m].consumed = 0 /\ head[m].online = FALSE /\ head[m].input = klines
    <2> SUFFICES ASSUME NEW m \in Modes
                 PROVE  /\ head[m] \in HeadRow
                        /\ head[m].consumed = 0 /\ head[m].online = FALSE
                        /\ head[m].input = klines
      OBVIOUS
    <2> DEFINE Row0 == [run : {1}, to : {last}, consumed : {0}, anchor : 1 .. last,
                        from : {0}, online : {FALSE}, config : {BaseConfig}, input : {klines}]
    <2>1. head[m] \in Row0
      BY <1>1
    <2>2. /\ {1} \subseteq Runs /\ {last} \subseteq Ends /\ {0} \subseteq Versions
          /\ 1 .. last \subseteq Ends /\ {0} \subseteq 0 .. MaxEnd
          /\ {FALSE} \subseteq BOOLEAN /\ {klines} \subseteq Input
          /\ {BaseConfig} \subseteq {TailConfig, BaseConfig}
      BY <1>2 DEF Ends, Runs, Versions
    <2>3. head[m] \in HeadRow
      BY <2>1, <2>2, Zenon DEF HeadRow
    <2>4. head[m].consumed = 0 /\ head[m].online = FALSE /\ head[m].input = klines
      BY <2>1
    <2> QED BY <2>3, <2>4
  <1>4. HeadTypeOK
    <2>1. DOMAIN head = Modes /\ head = [m \in Modes |-> head[m]]
      BY <1>1
    <2>2. head \in [Modes -> HeadRow]
      BY <1>3, <2>1
    <2>3. ingest \in [last : Ends, version : Versions]
      BY <1>1 DEF Versions
    <2> QED BY <1>2, <2>2, <2>3 DEF HeadTypeOK, Versions
  <1>5. VersionsBehind
    <2>1. ingest.version = 1 /\ \A e \in Ends : klines[e] \in {0, 1}
      BY <1>1
    <2> QED BY <1>3, <2>1 DEF VersionsBehind
  <1>6. NothingMissed /\ NothingNewer
    BY <1>3 DEF NothingMissed, NothingNewer
  <1> QED BY <1>4, <1>5, <1>6 DEF HeadInv

\* A committed write gives the bars it changes a version no head has consumed.
LEMMA WriteInv ==
    ASSUME HeadInv, NEW S \in SUBSET Ends, CommitBars(S)
    PROVE  HeadInv'
  <1> USE EndAssumption, VersionAssumption, RunAssumption
  <1> USE DEF HeadInv, CommitBars
  <1>1. HeadTypeOK'
    <2>1. klines' \in Input
      BY DEF HeadTypeOK, Input, Versions
    <2>2. ingest' \in [last : Ends, version : Versions]
      BY DEF HeadTypeOK, Versions
    <2> QED BY <2>1, <2>2 DEF HeadTypeOK, Versions
  <1>2. /\ ingest'.version = ingest.version + 1
        /\ \A e \in Ends : klines'[e] = ingest.version + 1 \/ klines'[e] = klines[e]
        /\ head' = head
    OBVIOUS
  <1>3. VersionsBehind'
    BY <1>2 DEF VersionsBehind, HeadTypeOK, Input, HeadRow, Versions
  <1>4. NothingMissed'
    BY <1>2 DEF NothingMissed, VersionsBehind, HeadTypeOK, HeadRow, Versions
  <1>5. NothingNewer'
    BY <1>2 DEF NothingNewer
  <1> QED BY <1>1, <1>3, <1>4, <1>5

\* The tail is taken from the K-lines as they are, at the version they have.
LEMMA TailInv ==
    ASSUME HeadInv, NEW m \in Modes, TailPublish(m)
    PROVE  HeadInv'
  <1> USE EndAssumption, VersionAssumption, RunAssumption
  <1> USE DEF HeadInv
  <1>1. PICK id \in Runs, from \in 0 .. MaxEnd, to \in Ends, anchor \in Ends :
            head' = [head EXCEPT ![m] =
              [run |-> id, to |-> to, consumed |-> ingest.version,
               anchor |-> anchor, from |-> from, online |-> TRUE,
               config |-> TailConfig,
               input |-> Combine(head[m].input, from, klines, to)]]
    BY DEF TailPublish
  <1>2. klines' = klines /\ ingest' = ingest
    BY DEF TailPublish
  <1>3. Combine(head[m].input, from, klines, to) \in Input
    <2>1. head[m].input \in Input /\ klines \in Input /\ from \in Int /\ to \in Int
      BY DEF HeadTypeOK, HeadRow, Ends
    <2> QED BY <2>1, CombineType
  <1>4. HeadTypeOK'
    <2>1. head'[m] \in HeadRow
      BY <1>1, <1>3 DEF HeadTypeOK, HeadRow
    <2>2. head' \in [Modes -> HeadRow]
      BY <1>1, <2>1 DEF HeadTypeOK
    <2> QED BY <1>2, <2>2 DEF HeadTypeOK
  <1>5. \A n \in Modes : n # m => head'[n] = head[n]
    BY <1>1 DEF HeadTypeOK
  <1>6. /\ head'[m].consumed = ingest.version
        /\ head'[m].from = from /\ head'[m].to = to /\ head'[m].online = TRUE
        /\ \A e \in Ends : /\ e > from /\ e <= to => head'[m].input[e] = klines[e]
                           /\ e > from => head'[m].input[e] \in {0, klines[e]}
    BY <1>1 DEF HeadTypeOK, Combine, Ends
  <1>7. VersionsBehind'
    BY <1>2, <1>5, <1>6 DEF VersionsBehind, HeadTypeOK, Versions
  <1>8. NothingMissed'
    BY <1>2, <1>5, <1>6 DEF NothingMissed
  <1>9. NothingNewer'
    BY <1>2, <1>5, <1>6 DEF NothingNewer, VersionsBehind, HeadTypeOK, Versions
  <1> QED BY <1>4, <1>7, <1>8, <1>9

\* A recompute keeps the consumed version and has every bar it covers.
LEMMA RecomputeInv ==
    ASSUME HeadInv, NEW S \in SUBSET Modes, RecomputePublish(S)
    PROVE  HeadInv'
  <1> USE EndAssumption, VersionAssumption, RunAssumption
  <1> USE DEF HeadInv
  <1>1. PICK id \in Runs, to \in Ends, anchor \in Ends, read \in Input :
            /\ \A m \in S :
                  /\ id > head[m].run
                  /\ head[m].to <= to
                  /\ \A e \in 1 .. to : klines[e] <= head[m].consumed => read[e] = klines[e]
            /\ head' = [m \in Modes |->
                  IF m \in S
                  THEN [run |-> id, to |-> to, consumed |-> head[m].consumed,
                        anchor |-> anchor, from |-> 0, online |-> FALSE,
                        config |-> BaseConfig, input |-> read]
                  ELSE head[m]]
            /\ UNCHANGED <<klines, ingest>>
    BY Zenon DEF RecomputePublish, ReplaceHeads
  <1>2. klines' = klines /\ ingest' = ingest
    BY <1>1
  <1>3. \A m \in Modes : head'[m] \in HeadRow
    BY <1>1 DEF HeadTypeOK, HeadRow
  <1>4. HeadTypeOK'
    <2>1. head' \in [Modes -> HeadRow]
      BY <1>1, <1>3
    <2> QED BY <1>2, <2>1 DEF HeadTypeOK
  <1>5. \A m \in Modes : \/ head'[m] = head[m]
                         \/ /\ m \in S
                            /\ head'[m].consumed = head[m].consumed
                            /\ head'[m].from = 0 /\ head'[m].to = to
                            /\ head'[m].online = FALSE /\ head'[m].input = read
    BY <1>1
  <1>6. VersionsBehind'
    BY <1>2, <1>5 DEF VersionsBehind
  <1>7. NothingMissed'
    BY <1>1, <1>2, <1>5 DEF NothingMissed, Ends
  <1>8. NothingNewer'
    BY <1>2, <1>5 DEF NothingNewer
  <1> QED BY <1>4, <1>6, <1>7, <1>8

LEMMA StepInv == HeadInv /\ [HeadNext]_headVars => HeadInv'
  <1> SUFFICES ASSUME HeadInv, [HeadNext]_headVars PROVE HeadInv'
    OBVIOUS
  <1>1. CASE \E S \in SUBSET Ends : S # {} /\ CommitBars(S)
    BY <1>1, WriteInv
  <1>2. CASE \E m \in Modes : TailPublish(m)
    BY <1>2, TailInv
  <1>3. CASE \E S \in SUBSET Modes : RecomputePublish(S)
    BY <1>3, RecomputeInv
  <1>4. CASE UNCHANGED headVars
    BY <1>4 DEF headVars, HeadInv, HeadTypeOK, VersionsBehind, NothingMissed, NothingNewer
  <1> QED BY <1>1, <1>2, <1>3, <1>4 DEF HeadNext

\* The invariants of the published heads, for every value of the constants.
THEOREM HeadInvariant == HeadSpec => []HeadInv
  BY HeadInvInit, StepInv, PTL DEF HeadSpec

(* No bar at or before the consumed version is missing from the recomputed   *)
(* tail of a head, whatever is written and whoever publishes.                *)
THEOREM NeverMissed == HeadSpec => []NothingMissed
  <1>1. HeadInv => NothingMissed
    BY DEF HeadInv
  <1> QED BY <1>1, HeadInvariant, PTL

(* A head the stream published holds nothing newer than it consumed.         *)
THEOREM NeverNewer == HeadSpec => []NothingNewer
  <1>1. HeadInv => NothingNewer
    BY DEF HeadInv
  <1> QED BY <1>1, HeadInvariant, PTL

\* Heads only advance: in run, in the bar they reach and in consumed version.
Advance == \A m \in Modes : /\ head[m].run <= head'[m].run
                            /\ head[m].to <= head'[m].to
                            /\ head[m].consumed <= head'[m].consumed

LEMMA StepAdvances == HeadInv /\ [HeadNext]_headVars => [Advance]_headVars
  <1> USE EndAssumption, VersionAssumption, RunAssumption
  <1> SUFFICES ASSUME HeadInv, [HeadNext]_headVars PROVE Advance
    OBVIOUS
  <1> USE DEF HeadInv
  <1>1. \A m \in Modes : /\ head[m].run \in Int /\ head[m].to \in Int
                         /\ head[m].consumed \in Int
    BY DEF HeadTypeOK, HeadRow, Runs, Ends, Versions
  <1>2. CASE head' = head
    BY <1>1, <1>2 DEF Advance
  <1>3. ASSUME NEW m \in Modes, TailPublish(m) PROVE Advance
    <2>1. PICK id \in Runs, to \in Ends :
            /\ id > head[m].run
            /\ Newer(head[m], to, ingest.version)
            /\ head'[m].run = id /\ head'[m].to = to /\ head'[m].consumed = ingest.version
            /\ \A n \in Modes : n # m => head'[n] = head[n]
      BY <1>3 DEF TailPublish, HeadTypeOK
    <2>2. ingest.version \in Int
      BY DEF HeadTypeOK, Versions
    <2> QED BY <1>1, <2>1, <2>2 DEF Advance, Newer, Runs, Ends
  <1>4. ASSUME NEW S \in SUBSET Modes, RecomputePublish(S) PROVE Advance
    BY <1>1, <1>4 DEF RecomputePublish, ReplaceHeads, Advance, Runs, Ends
  <1>5. ASSUME NEW S \in SUBSET Ends, CommitBars(S) PROVE head' = head
    BY <1>5 DEF CommitBars
  <1> QED BY <1>2, <1>3, <1>4, <1>5 DEF HeadNext, headVars

THEOREM AlwaysAdvances == HeadSpec => HeadAdvances
  <1>1. HeadSpec => [][Advance]_headVars
    BY HeadInvariant, StepAdvances, PTL DEF HeadSpec
  <1> QED BY <1>1 DEF HeadAdvances, Advance

-----------------------------------------------------------------------------
(* Operators.                                                                *)

\* A non-empty set of naturals with an upper bound has a greatest element.
LEMMA MaxExists ==
    ASSUME NEW N \in Nat, NEW S \in SUBSET (0 .. N), S # {}
    PROVE  \E x \in S : \A y \in S : y <= x
  <1> DEFINE T == {n \in Nat : n <= N /\ N - n \in S}
  <1>1. PICK s \in S : TRUE
    OBVIOUS
  <1>2. N - s \in T
    OBVIOUS
  <1>3. T \subseteq Nat /\ T # {}
    BY <1>2
  <1> HIDE DEF T
  <1>4. PICK n \in T : \A k \in T : ~ (<<k, n>> \in OpToRel(<, Nat))
    BY <1>3, WFMin, NatLessThanWellFounded
  <1>5. \A k \in T : n <= k
    <2> SUFFICES ASSUME NEW k \in T, k < n PROVE FALSE
      BY <1>3
    <2>1. <<k, n>> \in OpToRel(<, Nat)
      BY <1>3 DEF OpToRel
    <2> QED BY <1>4, <2>1
  <1>6. N - n \in S
    BY <1>4 DEF T
  <1>7. ASSUME NEW y \in S PROVE y <= N - n
    <2>1. N - y \in T
      BY DEF T
    <2>2. n <= N - y
      BY <1>5, <2>1
    <2> QED BY <2>2, <1>3
  <1> QED BY <1>6, <1>7

LEMMA Max0Property ==
    ASSUME NEW N \in Nat, NEW S \in SUBSET (0 .. N)
    PROVE  /\ Max0(S) \in 0 .. N
           /\ S # {} => Max0(S) \in S /\ \A y \in S : y <= Max0(S)
           /\ S = {} => Max0(S) = 0
  <1>1. CASE S = {}
    BY <1>1 DEF Max0
  <1>2. CASE S # {}
    <2>1. \E x \in S : \A y \in S : y <= x
      BY <1>2, MaxExists
    <2>2. Max0(S) = CHOOSE x \in S : \A y \in S : y <= x
      BY <1>2 DEF Max0
    <2>3. Max0(S) \in S /\ \A y \in S : y <= Max0(S)
      BY <2>1, <2>2
    <2> QED BY <1>2, <2>3
  <1> QED BY <1>1, <1>2

LEMMA TargetEndType == HeadTypeOK => TargetEnd \in 0 .. MaxEnd
  <1> SUFFICES ASSUME HeadTypeOK PROVE TargetEnd \in 0 .. MaxEnd
    OBVIOUS
  <1>1. MaxEnd \in Nat
    BY EndAssumption
  <1>2. {e \in Present(klines) : Period[e] <= closed} \in SUBSET (0 .. MaxEnd)
    BY <1>1 DEF Present, Ends
  <1>3. Max0({e \in Present(klines) : Period[e] <= closed}) \in 0 .. MaxEnd
    BY <1>1, <1>2, Max0Property
  <1>4. ingest.last \in 0 .. MaxEnd
    BY <1>1 DEF HeadTypeOK, Ends
  <1> QED BY <1>3, <1>4 DEF TargetEnd

(* The rows a read returns have no gap: a row between the start of the read  *)
(* and a returned row is returned too.                                       *)
LEMMA WindowNoGap ==
    ASSUME NEW after \in Int, NEW x \in Window(after), NEW e \in Ends,
           after < e, e <= x, klines[e] # 0
    PROVE  e \in Window(after)
  <1> DEFINE C(n) == {d \in Ends : d > after /\ d <= n /\ klines[d] # 0}
  <1>1. IsFiniteSet(Ends)
    BY EndAssumption, FS_Interval DEF Ends
  <1>2. C(e) \subseteq C(x) /\ C(x) \subseteq Ends
    BY DEF Window, Ends
  <1>3. IsFiniteSet(C(x))
    BY <1>1, <1>2, FS_Subset
  <1>4. Cardinality(C(e)) <= Cardinality(C(x)) /\ Cardinality(C(e)) \in Nat
        /\ Cardinality(C(x)) \in Nat
    BY <1>2, <1>3, FS_Subset, FS_CardinalityType
  <1>5. Cardinality(C(x)) <= TailBarLimit
    BY DEF Window
  <1>6. Cardinality(C(e)) <= TailBarLimit
    BY <1>4, <1>5, LimitAssumption
  <1> QED BY <1>6 DEF Window

-----------------------------------------------------------------------------
(* The inductive invariant.                                                  *)

\* What a worker's candidate or claimed rows say was true when it took them.
RowsOK(w) ==
    \A m \in Modes :
        /\ rows[w][m].version <= ingest.version
        /\ rows[w][m].expRun <= run
        /\ rows[w][m].token <= task[m].leases
        /\ rows[w][m].token # 0 \/ rows[w][m].target # 0 => rows[w][m].anchor \in Ends

(* Of the bars after the anchor, up to any bar it has read, a worker has the *)
(* ones of the version it claimed, unless they were written again since.     *)
BarsOK(w) ==
    /\ \A x \in Ends : bars[w][x] # 0 => klines[x] # 0
    /\ \A m \in Modes : \A e, x \in Ends :
          (/\ rows[w][m].token # 0 /\ rows[w][m].anchor < e /\ e <= x
           /\ bars[w][x] # 0 /\ klines[e] <= rows[w][m].version)
              => bars[w][e] = klines[e]

\* Before it has claimed, a worker has no job and no bars; then its jobs are its claims.
StageOK(w) ==
    /\ pc[w] \in {"idle", "discover", "ensure", "claim"} => todo[w] = {} /\ bars[w] = NoBars
    /\ \A m \in todo[w] : rows[w][m].token # 0

\* The prefix a worker copied is that of the head, as long as the head is the expected one.
PlanOK(w) ==
    pc[w] = "publish" =>
        LET m == plan[w].mode
        IN /\ m \in todo[w]
           /\ plan[w].to \in Ends
           /\ bars[w][plan[w].to] # 0
           /\ head[m].run = rows[w][m].expRun => plan[w].prefix = head[m].input

WorkerOK(w) == RowsOK(w) /\ BarsOK(w) /\ StageOK(w) /\ PlanOK(w)

TasksOK ==
    \A m \in Modes :
        /\ task[m].token <= task[m].leases
        /\ task[m].status # "none" => task[m].anchor \in Ends

\* A run id belongs to one publication: no head, and no expected head, is ahead of the sequence.
RunsUsed == \A m \in Modes : head[m].run <= run /\ recompute.expRun[m] <= run

\* A recompute has every bar that the heads it was planned on have consumed.
RecomputeOK ==
    /\ recompute.step # "idle" => recompute.target \in Ends
    /\ recompute.step = "publish" =>
          \A m \in Modes : \A e \in Ends :
              (/\ head[m].run = recompute.expRun[m]
               /\ e <= recompute.target /\ klines[e] <= head[m].consumed)
                  => recompute.read[e] = klines[e]

IInv ==
    /\ TypeOK
    /\ HeadInv
    /\ OneClaimant
    /\ TasksOK
    /\ RunsUsed
    /\ RecomputeOK
    /\ \A w \in Workers : WorkerOK(w)

Constants ==
    /\ MaxEnd \in Nat \ {0} /\ MaxVersion \in Nat \ {0} /\ MaxRun \in Nat \ {0}
    /\ MaxClaims \in Nat /\ MaxFaults \in Nat /\ MaxRecomputes \in Nat

\* The constants are naturals, as the assumptions say.
LEMMA ConstantTypes == Constants
  BY EndAssumption, VersionAssumption, RunAssumption, ClaimAssumption, BoundsAssumption
     DEF Constants

-----------------------------------------------------------------------------
(* Types.                                                                    *)

LEMMA Zeros ==
    0 \in 0 .. MaxClaims /\ 0 \in 0 .. MaxEnd /\ 0 \in 0 .. MaxRun /\ 0 \in Versions
  BY ConstantTypes DEF Constants, Versions

LEMMA NoRowsType == NoRows \in [Modes -> Row] /\ NoBars \in Input
  BY ConstantTypes DEF Constants, NoRows, NoRow, Row, NoBars, Input, Versions, Ends

LEMMA NoPlanType == NoPlan \in [mode : Modes, to : 0 .. MaxEnd, prefix : Input]
  BY ConstantTypes, NoRowsType, ModesAssumption DEF Constants, NoPlan

LEMMA IdleType ==
    ASSUME NEW left \in 0 .. MaxRecomputes
    PROVE  [Idle EXCEPT !.left = left]
              \in [step : {"idle", "read", "publish"}, left : 0 .. MaxRecomputes,
                   expRun : [Modes -> 0 .. MaxRun], target : 0 .. MaxEnd, read : Input]
  BY ConstantTypes, NoRowsType DEF Constants, Idle

LEMMA TypeInit == Init => TypeOK
  <1> SUFFICES ASSUME Init PROVE TypeOK
    OBVIOUS
  <1> USE ConstantTypes DEF Constants, Init
  <1>1. HeadTypeOK
    BY HeadInvInit DEF HeadInv
  <1>2. task \in [Modes -> TaskRow]
    BY DEF NoTask, TaskRow, Versions
  <1>3. recompute \in [step : {"idle", "read", "publish"}, left : 0 .. MaxRecomputes,
                      expRun : [Modes -> 0 .. MaxRun], target : 0 .. MaxEnd, read : Input]
    BY NoRowsType DEF Idle
  <1>4. /\ rows \in [Workers -> [Modes -> Row]]
        /\ bars \in [Workers -> Input]
        /\ plan \in [Workers -> [mode : Modes, to : 0 .. MaxEnd, prefix : Input]]
    BY NoRowsType, NoPlanType
  <1>5. /\ closed \in Nat /\ run \in Runs
        /\ pc \in [Workers -> {"idle", "discover", "ensure", "claim", "read", "compute",
                               "publish", "announce", "failing"}]
        /\ todo \in [Workers -> SUBSET Modes]
        /\ err \in [Workers -> Errors]
        /\ faults \in 0 .. MaxFaults
    BY DEF Runs, Errors
  <1> QED BY <1>1, <1>2, <1>3, <1>4, <1>5 DEF TypeOK

\* What TypeOK says of the head and watermark rows, for the rows that copy them.
LEMMA DbTypes ==
    ASSUME TypeOK, NEW m \in Modes
    PROVE  /\ head[m].run \in 0 .. MaxRun /\ head[m].to \in 0 .. MaxEnd
           /\ head[m].anchor \in 0 .. MaxEnd /\ head[m].anchor \in Ends
           /\ head[m].consumed \in Versions /\ head[m].input \in Input
           /\ ingest.version \in Versions /\ ingest.last \in Ends
           /\ TargetEnd \in 0 .. MaxEnd
           /\ klines \in Input
  <1>1. HeadTypeOK
    BY DEF TypeOK
  <1>2. TargetEnd \in 0 .. MaxEnd
    BY <1>1, TargetEndType
  <1> QED BY <1>1, <1>2, ConstantTypes DEF Constants, HeadTypeOK, HeadRow, Runs, Ends

LEMMA MaxOfTwo ==
    ASSUME NEW N \in Nat, NEW a \in 0 .. N, NEW b \in 0 .. N
    PROVE  Max0({a, b}) \in 0 .. N /\ Max0({a, b}) >= a /\ Max0({a, b}) >= b
  <1>1. {a, b} \in SUBSET (0 .. N) /\ {a, b} # {}
    OBVIOUS
  <1> QED BY <1>1, Max0Property

LEMMA ClaimedIsRow ==
    ASSUME NEW r \in TaskRow, NEW l \in 0 .. MaxClaims, NEW version \in Versions,
           NEW target \in 0 .. MaxEnd, NEW input \in Versions,
           NEW id \in 0 .. MaxRun, NEW to \in 0 .. MaxEnd
    PROVE  [r EXCEPT !.status = "running", !.leases = l, !.token = l, !.live = TRUE,
                     !.version = version, !.claimedTarget = target, !.claimedVersion = input,
                     !.expRun = id, !.expTo = to] \in TaskRow
  BY Zenon DEF TaskRow

LEMMA ClaimTypes ==
    ASSUME TypeOK, NEW m \in Modes
    PROVE  /\ CandidateRow(m) \in Row
           /\ Claimable(m) => Claimed(m) \in TaskRow /\ ClaimedRow(m) \in Row
  <1> USE ConstantTypes, DbTypes DEF Constants
  <1>1. CandidateRow(m) \in Row
    BY DEF CandidateRow, Row
  <1>2. ASSUME Claimable(m) PROVE Claimed(m) \in TaskRow /\ ClaimedRow(m) \in Row
    <2>1. task[m] \in TaskRow /\ task[m].leases < MaxClaims
      BY <1>2 DEF TypeOK, Claimable
    <2>2. task[m].version \in 0 .. MaxVersion /\ ingest.version \in 0 .. MaxVersion
      BY <2>1 DEF TaskRow, Versions
    <2> DEFINE version == Max0({task[m].version, ingest.version})
    <2>3. version \in Versions
      BY <2>2, MaxOfTwo DEF Versions
    <2>4. task[m].leases + 1 \in 0 .. MaxClaims
      BY <2>1 DEF TaskRow
    <2>5. Claimed(m) = [task[m] EXCEPT
             !.status = "running", !.leases = task[m].leases + 1, !.token = task[m].leases + 1,
             !.live = TRUE, !.version = version, !.claimedTarget = task[m].target,
             !.claimedVersion = ingest.version, !.expRun = head[m].run, !.expTo = head[m].to]
      BY DEF Claimed
    <2> HIDE DEF version
    <2>6. Claimed(m) \in TaskRow
      <3>1. task[m].target \in 0 .. MaxEnd
        BY <2>1 DEF TaskRow
      <3>2. ingest.version \in Versions /\ head[m].run \in 0 .. MaxRun /\ head[m].to \in 0 .. MaxEnd
        OBVIOUS
      <3>3. [task[m] EXCEPT
               !.status = "running", !.leases = task[m].leases + 1, !.token = task[m].leases + 1,
               !.live = TRUE, !.version = version, !.claimedTarget = task[m].target,
               !.claimedVersion = ingest.version, !.expRun = head[m].run, !.expTo = head[m].to]
              \in TaskRow
        BY <2>1, <2>3, <2>4, <3>1, <3>2, ClaimedIsRow
      <3> QED BY <2>5, <3>3, Zenon
    <2>7. ClaimedRow(m) \in Row
      BY <2>1 DEF ClaimedRow, Row, TaskRow
    <2> QED BY <2>6, <2>7
  <1> QED BY <1>1, <1>2

LEMMA UpsertType ==
    ASSUME TypeOK, NEW m \in Modes, NEW row \in Row
    PROVE  Upserted(m, row) \in TaskRow
  <1> USE ConstantTypes DEF Constants
  <1>1. task[m] \in TaskRow
    BY DEF TypeOK
  <1>2. Max0({task[m].target, row.target}) \in 0 .. MaxEnd
    BY <1>1, MaxOfTwo DEF TaskRow, Row
  <1>3. Max0({task[m].version, row.version}) \in Versions
    BY <1>1, MaxOfTwo DEF TaskRow, Row, Versions
  <1> QED BY <1>1, <1>2, <1>3 DEF Upserted, TaskRow, Row

LEMMA CompletedType ==
    ASSUME TypeOK, NEW m \in Modes, NEW to
    PROVE  Completed(m, to) \in TaskRow
  <1>1. task[m] \in TaskRow
    BY DEF TypeOK
  <1>2. \A again \in BOOLEAN, status \in {"pending", "success"} :
           [task[m] EXCEPT !.status = status, !.due = again,
                           !.token = 0, !.live = FALSE, !.claimedTarget = 0,
                           !.claimedVersion = 0] \in TaskRow
    BY <1>1, Zeros, Zenon DEF TaskRow
  <1>3. (P(task[m].target) > P(to) \/ task[m].version > task[m].claimedVersion) \in BOOLEAN
    OBVIOUS
  <1>4. (IF P(task[m].target) > P(to) \/ task[m].version > task[m].claimedVersion
         THEN "pending" ELSE "success") \in {"pending", "success"}
    OBVIOUS
  <1> QED BY <1>2, <1>3, <1>4, Zenon DEF Completed

LEMMA NormalizedType ==
    ASSUME TypeOK, NEW m \in Modes
    PROVE  [task[m] EXCEPT !.target = TargetEnd,
                           !.status = IF NewPeriod(m) THEN "pending" ELSE "success",
                           !.due = NewPeriod(m),
                           !.token = 0, !.live = FALSE, !.claimedTarget = 0] \in TaskRow
  <1>1. task[m] \in TaskRow
    BY DEF TypeOK
  <1>2. \A new \in BOOLEAN, status \in {"pending", "success"} :
           [task[m] EXCEPT !.target = TargetEnd,
                           !.status = status, !.due = new,
                           !.token = 0, !.live = FALSE, !.claimedTarget = 0] \in TaskRow
    BY <1>1, Zeros, DbTypes, Zenon DEF TaskRow
  <1>3. /\ NewPeriod(m) \in BOOLEAN
        /\ (IF NewPeriod(m) THEN "pending" ELSE "success") \in {"pending", "success"}
    BY DEF NewPeriod
  <1> QED BY <1>2, <1>3, Zenon

LEMMA PublicationEndType ==
    ASSUME NEW w \in Workers, NEW m \in Modes
    PROVE  /\ PublicationEnd(w, m) \in 0 .. MaxEnd
           /\ PublicationEnd(w, m) # 0 =>
                 /\ PublicationEnd(w, m) \in Ends
                 /\ bars[w][PublicationEnd(w, m)] # 0
  <1> DEFINE S == {e \in Present(bars[w]) : Period[e] <= P(rows[w][m].target)}
  <1>1. S \in SUBSET (0 .. MaxEnd) /\ S \subseteq Present(bars[w])
    BY ConstantTypes DEF Constants, Present, Ends
  <1>2. Max0(S) \in 0 .. MaxEnd /\ (S # {} => Max0(S) \in S) /\ (S = {} => Max0(S) = 0)
    BY <1>1, Max0Property, ConstantTypes DEF Constants
  <1>3. PublicationEnd(w, m) \in {0, Max0(S)}
    BY DEF PublicationEnd
  <1> HIDE DEF S
  <1>4. Max0(S) # 0 => Max0(S) \in Present(bars[w])
    BY <1>1, <1>2
  <1> QED BY <1>2, <1>3, <1>4, ConstantTypes DEF Constants, Present, Ends

-----------------------------------------------------------------------------
(* Every step is a step of PublishedHead, or leaves its variables alone.     *)

(* A publication that passes the compare-and-swap is the publication of the  *)
(* K-lines as they are: neither the bars nor the prefix have become stale.   *)
LEMMA PublishSimulates ==
    ASSUME IInv, NEW w \in Workers, Publish(w)
    PROVE  \E m \in Modes : TailPublish(m)
  <1> DEFINE m == plan[w].mode
             row == rows[w][m]
             to == plan[w].to
  <1> USE ConstantTypes DEF Constants
  <1>1. pc[w] = "publish" /\ Fenced(w, m) /\ HeadCas(m, row.expRun, to, row.version)
        /\ run < MaxRun
    BY DEF Publish
  <1>2. m \in Modes /\ row \in Row /\ bars[w] \in Input /\ plan[w].prefix \in Input
    BY DEF IInv, TypeOK
  <1>3. /\ m \in todo[w] /\ to \in Ends /\ bars[w][to] # 0
        /\ head[m].run = row.expRun => plan[w].prefix = head[m].input
    BY <1>1 DEF IInv, WorkerOK, PlanOK
  <1>4. head[m].run = row.expRun /\ ingest.version = row.version
        /\ Newer(head[m], to, ingest.version)
    BY <1>1 DEF HeadCas
  <1>5. row.token # 0 /\ row.anchor \in Ends
    BY <1>2, <1>3 DEF IInv, WorkerOK, StageOK, RowsOK
  <1>6. \A e \in Ends : klines[e] <= row.version
    BY <1>4 DEF IInv, HeadInv, VersionsBehind
  <1>7. klines[to] # 0
    BY <1>3 DEF IInv, WorkerOK, BarsOK
  <1>8. \A e \in Ends : row.anchor < e /\ e <= to => bars[w][e] = klines[e]
    BY <1>2, <1>3, <1>5, <1>6 DEF IInv, WorkerOK, BarsOK
  <1>9. Combine(plan[w].prefix, row.anchor, bars[w], to)
          = Combine(head[m].input, row.anchor, klines, to)
    <2>1. plan[w].prefix = head[m].input
      BY <1>3, <1>4
    <2>2. row.anchor \in Int /\ to \in Int /\ \A e \in Ends : e \in Int
      BY <1>3, <1>5 DEF Ends
    <2>3. ASSUME NEW e \in Ends, ~(e > to), ~(e <= row.anchor) PROVE bars[w][e] = klines[e]
      BY <1>8, <2>2, <2>3
    <2> HIDE DEF m, row, to
    <2> QED BY <2>1, <2>3 DEF Combine
  <1>10. run + 1 \in Runs /\ run + 1 > head[m].run
    BY <1>1, <1>2, DbTypes DEF IInv, RunsUsed, TypeOK, Runs
  <1>11. PICK anchor \in row.anchor .. to :
            head' = [head EXCEPT ![m] =
                [run |-> run + 1, to |-> to, consumed |-> row.version, anchor |-> anchor,
                 from |-> row.anchor, online |-> TRUE, config |-> TailConfig,
                 input |-> Combine(plan[w].prefix, row.anchor, bars[w], to)]]
    BY DEF Publish
  <1>12. anchor \in Ends /\ row.anchor \in 0 .. MaxEnd
    BY <1>3, <1>5 DEF Ends
  <1>13. UNCHANGED <<klines, ingest>>
    BY DEF Publish
  <1> HIDE DEF m, row, to
  <1>14. head' = [head EXCEPT ![m] =
                [run |-> run + 1, to |-> to, consumed |-> ingest.version, anchor |-> anchor,
                 from |-> row.anchor, online |-> TRUE, config |-> TailConfig,
                 input |-> Combine(head[m].input, row.anchor, klines, to)]]
    BY <1>4, <1>9, <1>11
  <1>15. TailPublish(m)
    BY <1>3, <1>4, <1>7, <1>10, <1>12, <1>13, <1>14, Zenon DEF TailPublish
  <1> QED BY <1>2, <1>15

(* A recompute that finds the heads it was planned on has all they consumed. *)
LEMMA RecomputeSimulates ==
    ASSUME IInv, PublishRecompute
    PROVE  \E S \in SUBSET Modes : RecomputePublish(S)
  <1> DEFINE S == {m \in Modes : Replaces(m)}
             to == recompute.target
             read == recompute.read
  <1> USE ConstantTypes DEF Constants
  <1>1. recompute.step = "publish" /\ run < MaxRun
        /\ (\A m \in Modes : head[m].run = recompute.expRun[m])
    BY DEF PublishRecompute
  <1>2. to \in Ends /\ read \in Input
    BY <1>1 DEF IInv, RecomputeOK, TypeOK
  <1>3. \A m \in Modes : \A e \in 1 .. to : klines[e] <= head[m].consumed => read[e] = klines[e]
    BY <1>1, <1>2 DEF IInv, RecomputeOK, Ends
  <1>4. \A m \in S : head[m].to <= to
    <2> SUFFICES ASSUME NEW m \in Modes, Replaces(m) PROVE head[m].to <= to
      OBVIOUS
    <2>1. head[m].to \in 0 .. MaxEnd
      BY DbTypes DEF IInv
    <2> QED BY <1>2, <2>1 DEF Replaces, Ends
  <1>5. run + 1 \in Runs /\ \A m \in Modes : run + 1 > head[m].run
    BY <1>1, DbTypes DEF IInv, RunsUsed, TypeOK, Runs
  <1>6. PICK anchor \in 1 .. to : head' = [m \in Modes |-> RecomputedHead(m, anchor, head[m].consumed)]
    BY DEF PublishRecompute
  <1>7. anchor \in Ends
    BY <1>2 DEF Ends
  <1>8. head' = [m \in Modes |->
              IF m \in S
              THEN [run |-> run + 1, to |-> to, consumed |-> head[m].consumed,
                    anchor |-> anchor, from |-> 0, online |-> FALSE, config |-> BaseConfig,
                    input |-> read]
              ELSE head[m]]
    BY <1>6 DEF RecomputedHead
  <1>9. UNCHANGED <<klines, ingest>>
    BY DEF PublishRecompute
  <1>10. S \in SUBSET Modes
    OBVIOUS
  <1>11. \A m \in S : /\ run + 1 > head[m].run /\ head[m].to <= to
                      /\ \A e \in 1 .. to : klines[e] <= head[m].consumed => read[e] = klines[e]
    BY <1>3, <1>4, <1>5
  <1> HIDE DEF S, to, read
  <1>12. ReplaceHeads(S, run + 1, to, anchor, read)
    BY <1>8, <1>9, <1>11 DEF ReplaceHeads
  <1>13. RecomputePublish(S)
    BY <1>2, <1>5, <1>7, <1>12 DEF RecomputePublish
  <1> QED BY <1>10, <1>13

LEMMA Simulates == ASSUME IInv, [Next]_vars PROVE [HeadNext]_headVars
  <1>1. ASSUME NEW S \in SUBSET Ends, S # {}, WriteBars(S) PROVE HeadNext
    BY <1>1 DEF WriteBars, HeadNext
  <1>2. ASSUME NEW w \in Workers, Publish(w) PROVE HeadNext
    BY <1>2, PublishSimulates DEF HeadNext
  <1>3. ASSUME PublishRecompute PROVE HeadNext
    BY <1>3, RecomputeSimulates DEF HeadNext
  <1>4. ASSUME NEW w \in Workers, WorkerStep(w), ~Publish(w) PROVE UNCHANGED headVars
    BY <1>4 DEF WorkerStep, headVars, db, Normalize, Discover, Ensure, Claim, NothingToClaim,
                ReadBars, CheckHead, PublishRejected, Announce, ReportError
  <1>5. ASSUME NEW w \in Workers, Fault(w) \/ Crash(w) PROVE UNCHANGED headVars
    BY <1>5 DEF Fault, Crash, headVars, db
  <1>6. ASSUME ClosePeriod \/ \E m \in Modes : Expire(m) \/ BecomeDue(m) PROVE UNCHANGED headVars
    BY <1>6 DEF ClosePeriod, Expire, BecomeDue, headVars
  <1>7. ASSUME PlanRecompute \/ ReadRecompute \/ AbandonRecompute PROVE UNCHANGED headVars
    BY <1>7 DEF PlanRecompute, ReadRecompute, AbandonRecompute, headVars, db
  <1>8. ASSUME UNCHANGED vars PROVE UNCHANGED headVars
    BY <1>8 DEF vars, headVars, db
  <1> QED BY <1>1, <1>2, <1>3, <1>4, <1>5, <1>6, <1>7, <1>8 DEF Next

-----------------------------------------------------------------------------
(* What a worker relies on: the ways the database may change under it.       *)

SharedStep ==
    /\ ingest'.version >= ingest.version
    /\ run' >= run
    /\ \A m \in Modes : task'[m].leases >= task[m].leases
    /\ \A e \in Ends : klines'[e] = klines[e] \/ klines'[e] > ingest.version
    /\ \A m \in Modes : head'[m] = head[m] \/ head'[m].run > run

SameWorker(w) ==
    /\ pc'[w] = pc[w] /\ rows'[w] = rows[w] /\ todo'[w] = todo[w]
    /\ bars'[w] = bars[w] /\ plan'[w] = plan[w]

LEMMA SharedTypes ==
    ASSUME TypeOK
    PROVE  /\ ingest.version \in Int /\ run \in Int
           /\ \A m \in Modes : task[m].leases \in Int /\ head[m].run \in Int
           /\ \A e \in Ends : klines[e] \in Int
  <1>1. HeadTypeOK /\ run \in Runs /\ task \in [Modes -> TaskRow]
    BY DEF TypeOK
  <1> QED BY <1>1 DEF HeadTypeOK, HeadRow, Runs, Input, Versions, TaskRow

\* A task row that is written keeps its lease_version or takes the next one.
LEMMA LeasesGrow ==
    ASSUME IInv, [Next]_vars, NEW m \in Modes
    PROVE  task'[m].leases >= task[m].leases
  <1> USE SharedTypes DEF IInv
  <1>0. task \in [Modes -> TaskRow] /\ task[m] \in TaskRow /\ task[m].leases \in Int
    BY DEF TypeOK
  <1>1. ASSUME NEW w \in Workers, Normalize(w) PROVE task'[m].leases = task[m].leases
    BY <1>0, <1>1 DEF Normalize, TaskRow
  <1>2. ASSUME NEW w \in Workers, Ensure(w) PROVE task'[m].leases = task[m].leases
    BY <1>0, <1>2 DEF Ensure, Upserted, TaskRow
  <1>3. ASSUME NEW w \in Workers, Claim(w) PROVE task'[m].leases >= task[m].leases
    <2>1. task'[m] = Claimed(m) \/ task'[m] = task[m]
      BY <1>3 DEF Claim
    <2>2. Claimed(m).leases = task[m].leases + 1
      BY <1>0 DEF Claimed, TaskRow
    <2> QED BY <1>0, <2>1, <2>2
  <1>4. ASSUME NEW w \in Workers, Publish(w) PROVE task'[m].leases = task[m].leases
    BY <1>0, <1>4 DEF Publish, Completed, TaskRow
  <1>5. ASSUME NEW w \in Workers, NEW n \in Modes, ReportError(w, n)
        PROVE  task'[m].leases = task[m].leases
    <2>1. task'[m] = task[m] \/ task'[m] = Reported(m, err[w])
      BY <1>0, <1>5 DEF ReportError
    <2>2. Reported(m, err[w]).leases = task[m].leases
      BY <1>0 DEF Reported, TaskRow
    <2> QED BY <2>1, <2>2
  <1>6. ASSUME NEW n \in Modes, Expire(n) \/ BecomeDue(n) PROVE task'[m].leases = task[m].leases
    BY <1>0, <1>6 DEF Expire, BecomeDue, TaskRow
  <1>7. ASSUME NEW w \in Workers,
               \/ Discover(w) \/ NothingToClaim(w) \/ ReadBars(w)
               \/ \E n \in Modes : CheckHead(w, n)
               \/ PublishRejected(w) \/ Announce(w) \/ Fault(w) \/ Crash(w)
        PROVE  task' = task
    BY <1>7 DEF Discover, NothingToClaim, ReadBars, CheckHead, PublishRejected, Announce,
                Fault, Crash, db
  <1>8. ASSUME \/ \E S \in SUBSET Ends : WriteBars(S)
               \/ ClosePeriod \/ PlanRecompute \/ ReadRecompute \/ PublishRecompute
               \/ AbandonRecompute \/ UNCHANGED vars
        PROVE  task' = task
    BY <1>8 DEF WriteBars, ClosePeriod, PlanRecompute, ReadRecompute, PublishRecompute,
                AbandonRecompute, vars, db
  <1> QED BY <1>0, <1>1, <1>2, <1>3, <1>4, <1>5, <1>6, <1>7, <1>8 DEF Next, WorkerStep

\* Every step is one a worker may rely on.
LEMMA PublishedRun ==
    ASSUME NEW w \in Workers, Publish(w), head \in [Modes -> HeadRow]
    PROVE  \A m \in Modes : head'[m] = head[m] \/ head'[m].run = run + 1
  <1>1. \E h : h.run = run + 1 /\ head' = [head EXCEPT ![plan[w].mode] = h]
    <2>1. PICK anchor \in rows[w][plan[w].mode].anchor .. plan[w].to :
             head' = [head EXCEPT ![plan[w].mode] =
                [run |-> run + 1, to |-> plan[w].to, consumed |-> rows[w][plan[w].mode].version,
                 anchor |-> anchor, from |-> rows[w][plan[w].mode].anchor,
                 online |-> TRUE, config |-> TailConfig,
                 input |-> Combine(plan[w].prefix, rows[w][plan[w].mode].anchor, bars[w], plan[w].to)]]
      BY Zenon DEF Publish
    <2> DEFINE h == [run |-> run + 1, to |-> plan[w].to, consumed |-> rows[w][plan[w].mode].version,
                     anchor |-> anchor, from |-> rows[w][plan[w].mode].anchor,
                     online |-> TRUE, config |-> TailConfig,
                     input |-> Combine(plan[w].prefix, rows[w][plan[w].mode].anchor, bars[w], plan[w].to)]
    <2>2. h.run = run + 1
      OBVIOUS
    <2>3. head' = [head EXCEPT ![plan[w].mode] = h]
      BY <2>1
    <2> HIDE DEF h
    <2> QED BY <2>2, <2>3
  <1> QED BY <1>1

LEMMA AllSharedSteps == ASSUME IInv, [Next]_vars PROVE SharedStep
  <1> USE SharedTypes DEF IInv
  <1>1. \A m \in Modes : task'[m].leases >= task[m].leases
    BY LeasesGrow
  <1>2. ASSUME NEW S \in SUBSET Ends, WriteBars(S)
        PROVE  /\ ingest'.version >= ingest.version /\ run' >= run /\ head' = head
               /\ \A e \in Ends : klines'[e] = klines[e] \/ klines'[e] > ingest.version
    BY <1>2 DEF WriteBars, CommitBars
  <1>3. ASSUME NEW w \in Workers, Publish(w)
        PROVE  /\ UNCHANGED <<klines, ingest>> /\ run' >= run
               /\ \A m \in Modes : head'[m] = head[m] \/ head'[m].run > run
    <2>1. head \in [Modes -> HeadRow]
      BY DEF TypeOK, HeadTypeOK
    <2>2. UNCHANGED <<klines, ingest>> /\ run' = run + 1
      BY <1>3 DEF Publish
    <2>3. \A m \in Modes : head'[m] = head[m] \/ head'[m].run = run + 1
      BY <1>3, <2>1, PublishedRun
    <2> QED BY <2>2, <2>3
  <1>4. ASSUME PublishRecompute
        PROVE  /\ UNCHANGED <<klines, ingest>> /\ run' >= run
               /\ \A m \in Modes : head'[m] = head[m] \/ head'[m].run > run
    BY <1>4 DEF PublishRecompute, RecomputedHead
  <1>5. ASSUME NEW w \in Workers, WorkerStep(w), ~Publish(w) PROVE UNCHANGED <<klines, ingest, head, run>>
    BY <1>5 DEF WorkerStep, db, Normalize, Discover, Ensure, Claim, NothingToClaim,
                ReadBars, CheckHead, PublishRejected, Announce, ReportError
  <1>6. ASSUME NEW w \in Workers, Fault(w) \/ Crash(w) PROVE UNCHANGED <<klines, ingest, head, run>>
    BY <1>6 DEF Fault, Crash, db
  <1>7. ASSUME \/ ClosePeriod \/ \E m \in Modes : Expire(m) \/ BecomeDue(m)
               \/ PlanRecompute \/ ReadRecompute \/ AbandonRecompute \/ UNCHANGED vars
        PROVE  UNCHANGED <<klines, ingest, head, run>>
    BY <1>7 DEF ClosePeriod, Expire, BecomeDue, PlanRecompute, ReadRecompute,
                AbandonRecompute, vars, db
  <1>8. ASSUME UNCHANGED <<klines, ingest, head, run>> PROVE SharedStep
    BY <1>1, <1>8 DEF SharedStep
  <1>9. ASSUME NEW w \in Workers, Publish(w) PROVE SharedStep
    BY <1>1, <1>3, <1>9 DEF SharedStep
  <1>10. ASSUME PublishRecompute PROVE SharedStep
    BY <1>1, <1>4, <1>10 DEF SharedStep
  <1>11. ASSUME NEW S \in SUBSET Ends, WriteBars(S) PROVE SharedStep
    BY <1>1, <1>2, <1>11 DEF SharedStep
  <1> QED BY <1>5, <1>6, <1>7, <1>8, <1>9, <1>10, <1>11 DEF Next

\* What a worker holds stays usable under every step of the others.
LEMMA RowsKept ==
    ASSUME IInv, SharedStep, TypeOK', NEW w \in Workers, rows'[w] = rows[w]
    PROVE  RowsOK(w)'
  <1>1. \A m \in Modes : /\ rows[w][m].version \in Int /\ rows[w][m].expRun \in Int
                         /\ rows[w][m].token \in Int
    BY DEF IInv, TypeOK, Row, Versions
  <1>2. /\ ingest.version \in Int /\ run \in Int /\ \A m \in Modes : task[m].leases \in Int
        /\ ingest'.version \in Int /\ run' \in Int /\ \A m \in Modes : task'[m].leases \in Int
    BY SharedTypes DEF IInv, TypeOK, HeadTypeOK, Versions, Runs, TaskRow
  <1>3. RowsOK(w)
    BY DEF IInv, WorkerOK
  <1> QED BY <1>1, <1>2, <1>3 DEF RowsOK, SharedStep

LEMMA BarsKept ==
    ASSUME IInv, SharedStep, TypeOK', NEW w \in Workers, rows'[w] = rows[w], bars'[w] = bars[w]
    PROVE  BarsOK(w)'
  <1>1. BarsOK(w) /\ RowsOK(w)
    BY DEF IInv, WorkerOK
  <1>2. /\ ingest.version \in Nat
        /\ \A e \in Ends : klines[e] \in Int /\ klines'[e] \in Int
        /\ \A m \in Modes : rows[w][m].version \in Int
    BY DEF IInv, TypeOK, HeadTypeOK, Versions, Input, Row
  <1>3. \A x \in Ends : bars'[w][x] # 0 => klines'[x] # 0
    BY <1>1, <1>2 DEF BarsOK, SharedStep
  <1>4. \A m \in Modes : \A e \in Ends :
           klines'[e] <= rows[w][m].version => klines'[e] = klines[e]
    BY <1>1, <1>2 DEF RowsOK, SharedStep
  <1> QED BY <1>1, <1>3, <1>4 DEF BarsOK

LEMMA WorkerKept ==
    ASSUME IInv, SharedStep, TypeOK', NEW w \in Workers, SameWorker(w)
    PROVE  WorkerOK(w)'
  <1>1. RowsOK(w)' /\ BarsOK(w)'
    BY RowsKept, BarsKept DEF SameWorker
  <1>2. StageOK(w)'
    BY DEF IInv, WorkerOK, StageOK, SameWorker
  <1>3. PlanOK(w)'
    <2> SUFFICES ASSUME pc[w] = "publish" PROVE PlanOK(w)'
      BY DEF PlanOK, SameWorker
    <2> DEFINE m == plan[w].mode
    <2>1. /\ m \in todo[w] /\ plan[w].to \in Ends /\ bars[w][plan[w].to] # 0
          /\ head[m].run = rows[w][m].expRun => plan[w].prefix = head[m].input
      BY DEF IInv, WorkerOK, PlanOK
    <2>2. m \in Modes /\ rows[w][m].expRun <= run /\ rows[w][m].expRun \in Int /\ run \in Int
      BY <2>1 DEF IInv, TypeOK, WorkerOK, RowsOK, Row, Runs
    <2>3. head'[m].run \in Int
      BY <2>2 DEF TypeOK, HeadTypeOK, HeadRow, Runs
    <2>4. head'[m].run = rows[w][m].expRun => head'[m] = head[m]
      BY <2>2, <2>3 DEF SharedStep
    <2> HIDE DEF m
    <2>5. head'[m].run = rows[w][m].expRun => plan[w].prefix = head'[m].input
      BY <2>1, <2>4
    <2> QED BY <2>1, <2>5 DEF PlanOK, SameWorker, m
  <1> QED BY <1>1, <1>2, <1>3 DEF WorkerOK

-----------------------------------------------------------------------------
(* Types are preserved.  The types of the heads and K-lines come with the    *)
(* invariant of PublishedHead; the rest is split into what a step changes.   *)

PCs == {"idle", "discover", "ensure", "claim", "read", "compute", "publish", "announce", "failing"}

WorkersTypeOK ==
    /\ pc \in [Workers -> PCs]
    /\ rows \in [Workers -> [Modes -> Row]]
    /\ todo \in [Workers -> SUBSET Modes]
    /\ bars \in [Workers -> Input]
    /\ plan \in [Workers -> [mode : Modes, to : 0 .. MaxEnd, prefix : Input]]
    /\ err \in [Workers -> Errors]

TasksTypeOK == task \in [Modes -> TaskRow] /\ closed \in Nat /\ run \in Runs

RestTypeOK ==
    /\ recompute \in [step : {"idle", "read", "publish"}, left : 0 .. MaxRecomputes,
                      expRun : [Modes -> 0 .. MaxRun], target : 0 .. MaxEnd, read : Input]
    /\ faults \in 0 .. MaxFaults

LEMMA TypeParts == TypeOK <=> HeadTypeOK /\ WorkersTypeOK /\ TasksTypeOK /\ RestTypeOK
  BY DEF TypeOK, WorkersTypeOK, TasksTypeOK, RestTypeOK, PCs

LEMMA RaiseType ==
    ASSUME WorkersTypeOK, NEW w \in Workers, NEW class \in Errors, Raise(w, class)
    PROVE  /\ pc' \in [Workers -> PCs] /\ todo' \in [Workers -> SUBSET Modes]
           /\ err' \in [Workers -> Errors]
  <1>1. Batch(w) \in SUBSET Modes /\ "failing" \in PCs
    BY DEF Batch, PCs
  <1> QED BY <1>1 DEF WorkersTypeOK, Raise

LEMMA ReleaseType ==
    ASSUME WorkersTypeOK, NEW w \in Workers, Release(w)
    PROVE  /\ rows' \in [Workers -> [Modes -> Row]] /\ todo' \in [Workers -> SUBSET Modes]
           /\ bars' \in [Workers -> Input]
           /\ plan' \in [Workers -> [mode : Modes, to : 0 .. MaxEnd, prefix : Input]]
           /\ err' \in [Workers -> Errors]
  <1>1. "none" \in Errors /\ {} \in SUBSET Modes
    BY DEF Errors
  <1> QED BY <1>1, NoRowsType, NoPlanType DEF WorkersTypeOK, Release

LEMMA WorkersTypeStep ==
    ASSUME TypeOK, [Next]_vars
    PROVE  WorkersTypeOK'
  <1> USE TypeParts
  <1>1. WorkersTypeOK
    OBVIOUS
  <1>2. /\ PCs = {"idle", "discover", "ensure", "claim", "read", "compute", "publish",
                  "announce", "failing"}
        /\ Errors = {"none", "stale", "refused", "other"}
    BY DEF PCs, Errors
  <1>3. ASSUME NEW w \in Workers, Normalize(w) \/ NothingToClaim(w) PROVE WorkersTypeOK'
    BY <1>1, <1>2, <1>3 DEF WorkersTypeOK, Normalize, NothingToClaim
  <1>4. ASSUME NEW w \in Workers, Discover(w) PROVE WorkersTypeOK'
    <2>1. [m \in Modes |-> IF Stale(m) THEN CandidateRow(m) ELSE NoRow] \in [Modes -> Row]
      BY ClaimTypes, NoRowsType DEF NoRows
    <2> QED BY <1>1, <1>2, <1>4, <2>1 DEF WorkersTypeOK, Discover
  <1>5. ASSUME NEW w \in Workers, Ensure(w) PROVE WorkersTypeOK'
    BY <1>1, <1>2, <1>5, NoRowsType DEF WorkersTypeOK, Ensure
  <1>6. ASSUME NEW w \in Workers, Claim(w) PROVE WorkersTypeOK'
    <2>1. PICK S \in SUBSET {m \in Modes : Claimable(m)} :
             /\ rows' = [rows EXCEPT ![w] = [m \in Modes |-> IF m \in S THEN ClaimedRow(m) ELSE NoRow]]
             /\ todo' = [todo EXCEPT ![w] = S]
      BY <1>6 DEF Claim
    <2>2. [m \in Modes |-> IF m \in S THEN ClaimedRow(m) ELSE NoRow] \in [Modes -> Row]
      BY ClaimTypes, NoRowsType DEF NoRows
    <2>3. S \in SUBSET Modes
      OBVIOUS
    <2> QED BY <1>1, <1>2, <1>6, <2>1, <2>2, <2>3 DEF WorkersTypeOK, Claim
  <1>7. ASSUME NEW w \in Workers, ReadBars(w) PROVE WorkersTypeOK'
    <2>1. \A S : [e \in Ends |-> IF e \in S THEN klines[e] ELSE 0] \in Input
      BY DbTypes, Zeros, ModesAssumption DEF Input
    <2>2. CASE \E S : /\ bars' = [bars EXCEPT ![w] = [e \in Ends |-> IF e \in S THEN klines[e] ELSE 0]]
                      /\ pc' = [pc EXCEPT ![w] = "compute"]
                      /\ UNCHANGED <<todo, err>>
      <3>1. PICK b \in Input : bars' = [bars EXCEPT ![w] = b]
        BY <2>1, <2>2
      <3>2. bars' \in [Workers -> Input]
        BY <1>1, <3>1 DEF WorkersTypeOK
      <3>3. rows' = rows /\ plan' = plan /\ todo' = todo /\ err' = err
        BY <1>7, <2>2 DEF ReadBars
      <3>4. pc' \in [Workers -> PCs]
        BY <1>1, <1>2, <2>2 DEF WorkersTypeOK
      <3> QED BY <1>1, <3>2, <3>3, <3>4 DEF WorkersTypeOK
    <2>3. CASE Raise(w, "other") /\ UNCHANGED bars
      BY <1>1, <1>2, <1>7, <2>3, RaiseType DEF WorkersTypeOK, ReadBars
    <2> QED BY <1>7, <2>2, <2>3 DEF ReadBars
  <1>8. ASSUME NEW w \in Workers, NEW m \in Modes, CheckHead(w, m) PROVE WorkersTypeOK'
    <2>1. CASE /\ plan' = [plan EXCEPT ![w] = [mode |-> m, to |-> PublicationEnd(w, m),
                                              prefix |-> head[m].input]]
               /\ pc' = [pc EXCEPT ![w] = "publish"]
               /\ UNCHANGED <<todo, err>>
      <3>1. [mode |-> m, to |-> PublicationEnd(w, m), prefix |-> head[m].input]
               \in [mode : Modes, to : 0 .. MaxEnd, prefix : Input]
        BY PublicationEndType, DbTypes
      <3>2. plan' \in [Workers -> [mode : Modes, to : 0 .. MaxEnd, prefix : Input]]
        <4>1. PICK p \in [mode : Modes, to : 0 .. MaxEnd, prefix : Input] :
                 plan' = [plan EXCEPT ![w] = p]
          BY <2>1, <3>1
        <4> QED BY <1>1, <4>1 DEF WorkersTypeOK
      <3>3. rows' = rows /\ bars' = bars
        BY <1>8 DEF CheckHead
      <3> QED BY <1>1, <1>2, <2>1, <3>2, <3>3 DEF WorkersTypeOK
    <2>2. CASE UNCHANGED plan /\ \E class \in Errors : Raise(w, class)
      BY <1>1, <1>8, <2>2, RaiseType DEF WorkersTypeOK, CheckHead
    <2> QED BY <1>2, <1>8, <2>1, <2>2 DEF CheckHead
  <1>9. ASSUME NEW w \in Workers, Publish(w) PROVE WorkersTypeOK'
    BY <1>1, <1>2, <1>9, NoPlanType DEF WorkersTypeOK, Publish
  <1>10. ASSUME NEW w \in Workers, PublishRejected(w) PROVE WorkersTypeOK'
    <2>1. \E class \in Errors : Raise(w, class)
      BY <1>2, <1>10 DEF PublishRejected
    <2> QED BY <1>1, <1>10, <2>1, RaiseType, NoPlanType DEF WorkersTypeOK, PublishRejected
  <1>11. ASSUME NEW w \in Workers, Announce(w) PROVE WorkersTypeOK'
    BY <1>1, <1>2, <1>11, ReleaseType DEF WorkersTypeOK, Announce
  <1>12. ASSUME NEW w \in Workers, Fault(w) PROVE WorkersTypeOK'
    BY <1>1, <1>2, <1>12, RaiseType, NoPlanType DEF WorkersTypeOK, Fault
  <1>13. ASSUME NEW w \in Workers, Crash(w) PROVE WorkersTypeOK'
    BY <1>1, <1>2, <1>13, ReleaseType DEF WorkersTypeOK, Crash
  <1>14. ASSUME NEW w \in Workers, NEW m \in Modes, ReportError(w, m) PROVE WorkersTypeOK'
    <2>1. CASE Release(w) /\ pc' = [pc EXCEPT ![w] = "idle"]
      <3>1. "idle" \in PCs
        BY <1>2
      <3>2. pc' \in [Workers -> PCs]
        BY <1>1, <2>1, <3>1 DEF WorkersTypeOK
      <3> QED BY <1>1, <2>1, <3>2, ReleaseType DEF WorkersTypeOK
    <2>2. CASE todo' = [todo EXCEPT ![w] = @ \ {m}] /\ UNCHANGED <<pc, rows, bars, plan, err>>
      <3>1. todo' \in [Workers -> SUBSET Modes]
        BY <1>1, <2>2 DEF WorkersTypeOK
      <3> QED BY <1>1, <2>2, <3>1 DEF WorkersTypeOK
    <2> QED BY <1>14, <2>1, <2>2 DEF ReportError
  <1>15. ASSUME \/ \E S \in SUBSET Ends : WriteBars(S)
                \/ ClosePeriod \/ \E m \in Modes : Expire(m) \/ BecomeDue(m)
                \/ PlanRecompute \/ ReadRecompute \/ PublishRecompute \/ AbandonRecompute
                \/ UNCHANGED vars
         PROVE  WorkersTypeOK'
    BY <1>1, <1>15 DEF WriteBars, ClosePeriod, Expire, BecomeDue, PlanRecompute, ReadRecompute,
                PublishRecompute, AbandonRecompute, vars, worker, WorkersTypeOK
  <1> QED BY <1>3, <1>4, <1>5, <1>6, <1>7, <1>8, <1>9, <1>10, <1>11, <1>12, <1>13, <1>14, <1>15
          DEF Next, WorkerStep

LEMMA ReportedType ==
    ASSUME TypeOK, NEW m \in Modes, NEW class
    PROVE  Reported(m, class) \in TaskRow
  <1>1. task[m] \in TaskRow
    BY DEF TypeOK
  <1>2. \A due \in BOOLEAN, status \in {"success", "pending", "failed"} :
           [task[m] EXCEPT !.status = status, !.due = due,
                           !.token = 0, !.live = FALSE, !.claimedTarget = 0,
                           !.claimedVersion = 0] \in TaskRow
    BY <1>1, Zeros, Zenon DEF TaskRow
  <1>3. (class = "stale") \in BOOLEAN
    OBVIOUS
  <1>4. (CASE class = "refused" -> "success" [] class = "stale" -> "pending" [] OTHER -> "failed")
           \in {"success", "pending", "failed"}
    OBVIOUS
  <1> QED BY <1>2, <1>3, <1>4, Zenon DEF Reported

LEMMA TasksTypeStep ==
    ASSUME TypeOK, [Next]_vars
    PROVE  TasksTypeOK'
  <1> USE TypeParts
  <1>1. task \in [Modes -> TaskRow] /\ closed \in Nat /\ run \in Runs
    BY DEF TasksTypeOK
  <1>2. ASSUME NEW w \in Workers, Normalize(w) PROVE TasksTypeOK'
    <2>1. task' \in [Modes -> TaskRow]
      BY <1>1, <1>2, NormalizedType DEF Normalize
    <2> QED BY <1>1, <1>2, <2>1 DEF TasksTypeOK, Normalize
  <1>3. ASSUME NEW w \in Workers, Ensure(w) PROVE TasksTypeOK'
    <2>1. \A m \in Modes : rows[w][m] \in Row
      BY DEF WorkersTypeOK
    <2>2. task' \in [Modes -> TaskRow]
      BY <1>1, <1>3, <2>1, UpsertType DEF Ensure
    <2> QED BY <1>1, <1>3, <2>2 DEF TasksTypeOK, Ensure
  <1>4. ASSUME NEW w \in Workers, Claim(w) PROVE TasksTypeOK'
    <2>1. task' \in [Modes -> TaskRow]
      BY <1>1, <1>4, ClaimTypes DEF Claim
    <2> QED BY <1>1, <1>4, <2>1 DEF TasksTypeOK, Claim
  <1>5. ASSUME NEW w \in Workers, Publish(w) PROVE TasksTypeOK'
    <2>1. plan[w].mode \in Modes
      BY DEF WorkersTypeOK
    <2>2. task' \in [Modes -> TaskRow]
      <3>1. Completed(plan[w].mode, plan[w].to) \in TaskRow
        BY <2>1, CompletedType
      <3>2. task' = [task EXCEPT ![plan[w].mode] = Completed(plan[w].mode, plan[w].to)]
        BY <1>5 DEF Publish
      <3> QED BY <1>1, <2>1, <3>1, <3>2
    <2>3. run' \in Runs
      <3>1. run' = run + 1 /\ run < MaxRun
        BY <1>5 DEF Publish
      <3> QED BY <1>1, <3>1, ConstantTypes DEF Constants, Runs
    <2> QED BY <1>1, <1>5, <2>2, <2>3 DEF TasksTypeOK, Publish
  <1>6. ASSUME NEW w \in Workers, NEW m \in Modes, ReportError(w, m) PROVE TasksTypeOK'
    <2>1. task' \in [Modes -> TaskRow]
      <3>1. Reported(m, err[w]) \in TaskRow
        BY ReportedType
      <3>2. task' = task \/ task' = [task EXCEPT ![m] = Reported(m, err[w])]
        BY <1>6 DEF ReportError
      <3> QED BY <1>1, <3>1, <3>2
    <2> QED BY <1>1, <1>6, <2>1 DEF TasksTypeOK, ReportError
  <1>7. ASSUME NEW m \in Modes, Expire(m) \/ BecomeDue(m) PROVE TasksTypeOK'
    <2>1. /\ [task[m] EXCEPT !.live = FALSE] \in TaskRow
          /\ [task[m] EXCEPT !.due = TRUE] \in TaskRow
      <3>1. task[m] \in TaskRow /\ TRUE \in BOOLEAN /\ FALSE \in BOOLEAN
        BY <1>1
      <3>2. \A b \in BOOLEAN : [task[m] EXCEPT !.live = b] \in TaskRow
        BY <3>1, Zenon DEF TaskRow
      <3>3. \A b \in BOOLEAN : [task[m] EXCEPT !.due = b] \in TaskRow
        BY <3>1, Zenon DEF TaskRow
      <3> QED BY <3>1, <3>2, <3>3, Zenon
    <2>2. \/ task' = [task EXCEPT ![m] = [task[m] EXCEPT !.live = FALSE]]
          \/ task' = [task EXCEPT ![m] = [task[m] EXCEPT !.due = TRUE]]
      BY <1>1, <1>7 DEF Expire, BecomeDue
    <2>3. task' \in [Modes -> TaskRow]
      BY <1>1, <2>1, <2>2
    <2> QED BY <1>1, <1>7, <2>3 DEF TasksTypeOK, Expire, BecomeDue
  <1>8. ASSUME ClosePeriod PROVE TasksTypeOK'
    BY <1>1, <1>8 DEF ClosePeriod, TasksTypeOK
  <1>9. ASSUME PublishRecompute PROVE TasksTypeOK'
    BY <1>1, <1>9, ConstantTypes DEF Constants, PublishRecompute, TasksTypeOK, Runs
  <1>10. ASSUME NEW w \in Workers,
                \/ Discover(w) \/ NothingToClaim(w) \/ ReadBars(w)
                \/ \E n \in Modes : CheckHead(w, n)
                \/ PublishRejected(w) \/ Announce(w) \/ Fault(w) \/ Crash(w)
         PROVE  TasksTypeOK'
    BY <1>1, <1>10 DEF Discover, NothingToClaim, ReadBars, CheckHead, PublishRejected, Announce,
                Fault, Crash, db, TasksTypeOK
  <1>11. ASSUME \/ \E S \in SUBSET Ends : WriteBars(S)
                \/ PlanRecompute \/ ReadRecompute \/ AbandonRecompute \/ UNCHANGED vars
         PROVE  TasksTypeOK'
    BY <1>1, <1>11 DEF WriteBars, PlanRecompute, ReadRecompute, AbandonRecompute, vars, db, TasksTypeOK
  <1> QED BY <1>2, <1>3, <1>4, <1>5, <1>6, <1>7, <1>8, <1>9, <1>10, <1>11 DEF Next, WorkerStep

LEMMA RestTypeStep ==
    ASSUME TypeOK, [Next]_vars
    PROVE  RestTypeOK'
  <1> DEFINE Rec == [step : {"idle", "read", "publish"}, left : 0 .. MaxRecomputes,
                     expRun : [Modes -> 0 .. MaxRun], target : 0 .. MaxEnd, read : Input]
  <1> USE ConstantTypes DEF Constants
  <1>1. recompute \in Rec /\ faults \in 0 .. MaxFaults
    BY TypeParts DEF RestTypeOK
  <1>2. recompute.left \in 0 .. MaxRecomputes
    BY <1>1
  <1>3. ASSUME PlanRecompute PROVE recompute' \in Rec
    <2>1. [m \in Modes |-> head[m].run] \in [Modes -> 0 .. MaxRun] /\ ingest.last \in 0 .. MaxEnd
      BY DbTypes, ModesAssumption DEF Ends
    <2>2. recompute' = [recompute EXCEPT !.step = "read", !.left = recompute.left - 1,
                           !.target = ingest.last, !.expRun = [m \in Modes |-> head[m].run]]
      BY <1>1, <1>3 DEF PlanRecompute
    <2>3. recompute.left - 1 \in 0 .. MaxRecomputes
      BY <1>2, <1>3 DEF PlanRecompute
    <2> QED BY <1>1, <2>1, <2>2, <2>3, Zenon
  <1>4. ASSUME ReadRecompute PROVE recompute' \in Rec
    <2>1. [e \in Ends |-> IF e <= recompute.target THEN klines[e] ELSE 0] \in Input
      BY DbTypes, Zeros, ModesAssumption DEF Input
    <2> QED BY <1>1, <1>4, <2>1, Zenon DEF ReadRecompute
  <1>5. ASSUME PublishRecompute \/ AbandonRecompute PROVE recompute' \in Rec
    BY <1>2, <1>5, IdleType DEF PublishRecompute, AbandonRecompute
  <1>6. ASSUME PlanRecompute \/ ReadRecompute \/ PublishRecompute \/ AbandonRecompute
        PROVE  faults' = faults
    BY <1>6 DEF PlanRecompute, ReadRecompute, PublishRecompute, AbandonRecompute
  <1>7. ASSUME NEW w \in Workers, WorkerStep(w) PROVE recompute' = recompute /\ faults' = faults
    BY <1>7 DEF WorkerStep, Normalize, Discover, Ensure, Claim, NothingToClaim, ReadBars,
                CheckHead, Publish, PublishRejected, Announce, ReportError
  <1>8. ASSUME NEW w \in Workers, Fault(w) \/ Crash(w)
        PROVE  recompute' = recompute /\ faults' \in 0 .. MaxFaults
    BY <1>1, <1>8 DEF Fault, Crash
  <1>9. ASSUME NEW m \in Modes, Expire(m) \/ BecomeDue(m)
        PROVE  recompute' = recompute /\ faults' \in 0 .. MaxFaults
    BY <1>1, <1>9 DEF Expire, BecomeDue
  <1>10. ASSUME \/ \E S \in SUBSET Ends : WriteBars(S)
                \/ ClosePeriod \/ UNCHANGED vars
         PROVE  recompute' = recompute /\ faults' = faults
    BY <1>10 DEF WriteBars, ClosePeriod, vars
  <1>11. recompute' \in Rec /\ faults' \in 0 .. MaxFaults
    BY <1>1, <1>3, <1>4, <1>5, <1>6, <1>7, <1>8, <1>9, <1>10 DEF Next
  <1> QED BY <1>11 DEF RestTypeOK

LEMMA HeadInvStep == ASSUME IInv, [Next]_vars PROVE HeadInv'
  BY Simulates, StepInv DEF IInv

LEMMA TypeStep == ASSUME IInv, [Next]_vars PROVE TypeOK'
  <1>1. HeadTypeOK'
    BY HeadInvStep DEF HeadInv
  <1>2. TypeOK
    BY DEF IInv
  <1>3. WorkersTypeOK' /\ TasksTypeOK' /\ RestTypeOK'
    BY <1>2, WorkersTypeStep, TasksTypeStep, RestTypeStep
  <1> QED BY <1>1, <1>3, TypeParts, PTL

-----------------------------------------------------------------------------
(* The worker that takes the step.                                           *)

\* A worker that lets go of its batch has nothing to be wrong about.
LEMMA ReleaseOK ==
    ASSUME IInv, SharedStep, TypeOK', NEW w \in Workers, Release(w), pc'[w] = "idle"
    PROVE  WorkerOK(w)'
  <1>1. /\ rows'[w] = NoRows /\ todo'[w] = {} /\ bars'[w] = NoBars
    BY DEF Release, IInv, TypeOK
  <1>2. /\ ingest'.version \in Nat /\ run' \in Nat
        /\ \A m \in Modes : task'[m].leases \in Nat
    BY DEF TypeOK, HeadTypeOK, Versions, Runs, TaskRow
  <1>3. RowsOK(w)'
    BY <1>1, <1>2 DEF RowsOK, NoRows, NoRow
  <1>4. BarsOK(w)'
    BY <1>1 DEF BarsOK, NoBars
  <1>5. StageOK(w)' /\ PlanOK(w)'
    BY <1>1 DEF StageOK, PlanOK
  <1> QED BY <1>3, <1>4, <1>5 DEF WorkerOK

\* A worker whose job raised keeps its claims and its bars.
LEMMA RaiseOK ==
    ASSUME IInv, SharedStep, TypeOK', NEW w \in Workers, NEW class, Raise(w, class),
           rows'[w] = rows[w], bars'[w] = bars[w]
    PROVE  WorkerOK(w)'
  <1>1. RowsOK(w)' /\ BarsOK(w)'
    BY RowsKept, BarsKept
  <1>2. pc'[w] = "failing" /\ todo'[w] = Batch(w)
    BY DEF Raise, IInv, TypeOK
  <1>3. StageOK(w)' /\ PlanOK(w)'
    BY <1>2 DEF StageOK, PlanOK, Batch
  <1> QED BY <1>1, <1>3 DEF WorkerOK

\* The first half of a pass: candidates are taken, upserted, claimed.
LEMMA ClaimStepsOK ==
    ASSUME IInv, SharedStep, TypeOK', NEW w \in Workers,
           Normalize(w) \/ Discover(w) \/ Ensure(w) \/ Claim(w) \/ NothingToClaim(w)
    PROVE  WorkerOK(w)'
  <1>1. /\ pc \in [Workers -> PCs] /\ rows \in [Workers -> [Modes -> Row]]
        /\ todo \in [Workers -> SUBSET Modes] /\ TypeOK
    BY TypeParts DEF IInv, WorkersTypeOK
  <1>2. todo[w] = {} /\ bars[w] = NoBars /\ bars' = bars
    BY DEF IInv, WorkerOK, StageOK, Normalize, Discover, Ensure, Claim, NothingToClaim
  <1>3. /\ ingest'.version \in Nat /\ run' \in Nat
        /\ \A m \in Modes : task'[m].leases \in Nat
    BY DEF TypeOK, HeadTypeOK, Versions, Runs, TaskRow
  <1>4. BarsOK(w)'
    BY <1>2 DEF BarsOK, NoBars
  <1>5. CASE Normalize(w) \/ NothingToClaim(w)
    <2>1. RowsOK(w)'
      BY <1>5, RowsKept DEF Normalize, NothingToClaim
    <2>2. StageOK(w)' /\ PlanOK(w)'
      BY <1>1, <1>2, <1>5 DEF StageOK, PlanOK, Normalize, NothingToClaim
    <2> QED BY <1>4, <2>1, <2>2 DEF WorkerOK
  <1>6. CASE Discover(w)
    <2>1. \A m \in Modes : rows'[w][m] = CandidateRow(m) \/ rows'[w][m] = NoRow
      BY <1>1, <1>6 DEF Discover
    <2>2. UNCHANGED <<ingest, run, head, task>>
      BY <1>6 DEF Discover, db
    <2>3. \A m \in Modes : head[m].run <= run /\ head[m].anchor \in Ends /\ ingest.version \in Int
      BY <1>1, DbTypes DEF IInv, RunsUsed, Versions
    <2>4. RowsOK(w)'
      <3> SUFFICES ASSUME NEW m \in Modes
                   PROVE  /\ rows'[w][m].version <= ingest'.version
                          /\ rows'[w][m].expRun <= run'
                          /\ rows'[w][m].token <= task'[m].leases
                          /\ rows'[w][m].token # 0 \/ rows'[w][m].target # 0 => rows'[w][m].anchor \in Ends
        BY DEF RowsOK
      <3>1. CASE rows'[w][m] = CandidateRow(m)
        <4>1. /\ rows'[w][m].version = ingest.version /\ rows'[w][m].expRun = head[m].run
              /\ rows'[w][m].token = 0 /\ rows'[w][m].anchor = head[m].anchor
          BY <3>1 DEF CandidateRow
        <4> QED BY <1>3, <2>2, <2>3, <4>1
      <3>2. CASE rows'[w][m] = NoRow
        BY <1>3, <3>2 DEF NoRow
      <3> QED BY <2>1, <3>1, <3>2
    <2>5. StageOK(w)' /\ PlanOK(w)'
      BY <1>1, <1>2, <1>6 DEF StageOK, PlanOK, Discover
    <2> QED BY <1>4, <2>4, <2>5 DEF WorkerOK
  <1>7. CASE Ensure(w)
    <2>1. rows'[w] = NoRows
      BY <1>1, <1>7 DEF Ensure
    <2>2. RowsOK(w)'
      BY <1>3, <2>1 DEF RowsOK, NoRows, NoRow
    <2>3. StageOK(w)' /\ PlanOK(w)'
      BY <1>1, <1>2, <1>7 DEF StageOK, PlanOK, Ensure
    <2> QED BY <1>4, <2>2, <2>3 DEF WorkerOK
  <1>8. CASE Claim(w)
    <2>1. PICK S \in SUBSET {m \in Modes : Claimable(m)} :
             /\ task' = [m \in Modes |-> IF m \in S THEN Claimed(m) ELSE task[m]]
             /\ rows' = [rows EXCEPT ![w] = [m \in Modes |-> IF m \in S THEN ClaimedRow(m) ELSE NoRow]]
             /\ todo' = [todo EXCEPT ![w] = S]
      BY <1>8 DEF Claim
    <2>2. \A m \in Modes : rows'[w][m] = IF m \in S THEN ClaimedRow(m) ELSE NoRow
      BY <1>1, <2>1
    <2>3. UNCHANGED <<ingest, run, head>> /\ \A m \in S : rows'[w][m] = ClaimedRow(m)
      BY <1>8, <2>2 DEF Claim
    <2>11. \A m \in Modes : /\ ClaimedRow(m).version = ingest.version
                            /\ ClaimedRow(m).expRun = head[m].run
                            /\ ClaimedRow(m).token = task[m].leases + 1
                            /\ ClaimedRow(m).anchor = task[m].anchor
      BY DEF ClaimedRow
    <2>4. \A m \in Modes : /\ task[m] \in TaskRow /\ task[m].leases \in Nat
                           /\ ingest.version \in Int
      BY <1>1, DbTypes DEF TypeOK, TaskRow, Versions
    <2>5. \A m \in S : /\ m \in Modes /\ task[m].anchor \in Ends
                       /\ task'[m].leases = task[m].leases + 1
      <3> SUFFICES ASSUME NEW m \in S
                   PROVE  /\ m \in Modes /\ task[m].anchor \in Ends
                          /\ task'[m].leases = task[m].leases + 1
        OBVIOUS
      <3>1. m \in Modes /\ task[m].status # "none"
        BY DEF Claimable
      <3>2. task[m].anchor \in Ends
        BY <3>1 DEF IInv, TasksOK
      <3>3. Claimed(m).leases = task[m].leases + 1
        BY <2>4, <3>1 DEF Claimed, TaskRow
      <3> QED BY <2>1, <3>1, <3>2, <3>3
    <2>6. \A m \in Modes : head[m].run <= run
      BY DEF IInv, RunsUsed
    <2>7. RowsOK(w)'
      <3> SUFFICES ASSUME NEW m \in Modes
                   PROVE  /\ rows'[w][m].version <= ingest'.version
                          /\ rows'[w][m].expRun <= run'
                          /\ rows'[w][m].token <= task'[m].leases
                          /\ rows'[w][m].token # 0 \/ rows'[w][m].target # 0 => rows'[w][m].anchor \in Ends
        BY DEF RowsOK
      <3>1. CASE m \in S
        <4>1. /\ rows'[w][m].version = ingest.version /\ rows'[w][m].expRun = head[m].run
              /\ rows'[w][m].token = task[m].leases + 1 /\ rows'[w][m].anchor = task[m].anchor
          BY <2>3, <2>11, <3>1
        <4> QED BY <2>3, <2>4, <2>5, <2>6, <3>1, <4>1
      <3>2. CASE m \notin S
        BY <1>3, <2>2, <3>2 DEF NoRow
      <3> QED BY <3>1, <3>2
    <2>8. todo'[w] = S /\ pc'[w] = "read"
      BY <1>1, <1>8, <2>1 DEF Claim
    <2>9. \A m \in S : rows'[w][m].token # 0
      <3> SUFFICES ASSUME NEW m \in S PROVE rows'[w][m].token # 0
        OBVIOUS
      <3>1. m \in Modes /\ rows'[w][m].token = task[m].leases + 1
        BY <2>3, <2>5, <2>11
      <3> QED BY <2>4, <3>1
    <2>10. StageOK(w)' /\ PlanOK(w)'
      BY <2>8, <2>9 DEF StageOK, PlanOK
    <2> QED BY <1>4, <2>7, <2>10 DEF WorkerOK
  <1> QED BY <1>5, <1>6, <1>7, <1>8

(* The bars read start before the anchor of every job and have no gap, so up *)
(* to the last of them they are the K-lines.                                 *)
LEMMA ReadStepOK ==
    ASSUME IInv, SharedStep, TypeOK', NEW w \in Workers, ReadBars(w)
    PROVE  WorkerOK(w)'
  <1>1. /\ pc \in [Workers -> PCs] /\ rows \in [Workers -> [Modes -> Row]]
        /\ todo \in [Workers -> SUBSET Modes] /\ bars \in [Workers -> Input] /\ TypeOK
    BY TypeParts DEF IInv, WorkersTypeOK
  <1>2. UNCHANGED <<klines, ingest, head, run, rows, plan>>
    BY DEF ReadBars, db
  <1>3. PICK oldest \in {rows[w][m].anchor : m \in Batch(w)} :
          /\ \A m \in Batch(w) : oldest <= rows[w][m].anchor
          /\ \/ /\ bars' = [bars EXCEPT ![w] =
                        [e \in Ends |-> IF e \in Window(oldest - ContextBars) THEN klines[e] ELSE 0]]
                /\ pc' = [pc EXCEPT ![w] = "compute"]
                /\ UNCHANGED <<todo, err>>
             \/ Raise(w, "other") /\ UNCHANGED bars
    BY DEF ReadBars
  <1>4. CASE Raise(w, "other") /\ UNCHANGED bars
    BY <1>2, <1>4, RaiseOK
  <1>5. CASE /\ bars' = [bars EXCEPT ![w] =
                   [e \in Ends |-> IF e \in Window(oldest - ContextBars) THEN klines[e] ELSE 0]]
             /\ pc' = [pc EXCEPT ![w] = "compute"]
             /\ UNCHANGED <<todo, err>>
    <2> DEFINE after == oldest - ContextBars
    <2>1. \A e \in Ends : bars'[w][e] = IF e \in Window(after) THEN klines[e] ELSE 0
      BY <1>1, <1>5
    <2>2. oldest \in Int /\ ContextBars \in Nat /\ after \in Int /\ after <= oldest
          /\ \A m \in Modes : rows[w][m].anchor \in Int
      BY <1>1, LimitAssumption DEF Batch, Row
    <2> HIDE DEF after
    <2>3. RowsOK(w)'
      BY <1>2, RowsKept
    <2>4. ASSUME NEW x \in Ends, bars'[w][x] # 0 PROVE klines[x] # 0 /\ x \in Window(after)
      BY <2>1, <2>4
    <2>5. ASSUME NEW m \in Modes, NEW e \in Ends, NEW x \in Ends,
                 rows[w][m].token # 0, rows[w][m].anchor < e, e <= x, bars'[w][x] # 0
          PROVE  bars'[w][e] = klines[e]
      <3>1. x \in Window(after)
        BY <2>4, <2>5
      <3>2. after < e
        <4>1. oldest <= rows[w][m].anchor
          BY <1>3, <2>5 DEF Batch
        <4> QED BY <2>2, <2>5, <4>1 DEF Ends
      <3>3. CASE klines[e] = 0
        BY <2>1, <3>3
      <3>4. CASE klines[e] # 0
        BY <2>1, <2>2, <2>5, <3>1, <3>2, <3>4, WindowNoGap
      <3> QED BY <3>3, <3>4
    <2>6. BarsOK(w)'
      BY <1>2, <2>4, <2>5 DEF BarsOK
    <2>7. pc'[w] = "compute" /\ todo'[w] = todo[w]
      BY <1>1, <1>5
    <2>8. StageOK(w)' /\ PlanOK(w)'
      BY <1>2, <2>7 DEF IInv, WorkerOK, StageOK, PlanOK
    <2> QED BY <2>3, <2>6, <2>8 DEF WorkerOK
  <1> QED BY <1>3, <1>4, <1>5

LEMMA CheckStepOK ==
    ASSUME IInv, SharedStep, TypeOK', NEW w \in Workers, NEW m \in Modes, CheckHead(w, m)
    PROVE  WorkerOK(w)'
  <1> DEFINE to == PublicationEnd(w, m)
  <1>1. /\ pc \in [Workers -> PCs] /\ plan \in [Workers -> [mode : Modes, to : 0 .. MaxEnd, prefix : Input]]
    BY TypeParts DEF IInv, WorkersTypeOK
  <1>2. UNCHANGED <<db, rows, bars>> /\ pc[w] = "compute" /\ m \in todo[w]
    BY DEF CheckHead
  <1>3. CASE /\ to # 0
             /\ plan' = [plan EXCEPT ![w] = [mode |-> m, to |-> to, prefix |-> head[m].input]]
             /\ pc' = [pc EXCEPT ![w] = "publish"]
             /\ UNCHANGED <<todo, err>>
    <2>1. to \in Ends /\ bars[w][to] # 0
      BY <1>3, PublicationEndType
    <2>2. RowsOK(w)' /\ BarsOK(w)'
      BY <1>2, RowsKept, BarsKept
    <2> HIDE DEF to
    <2>3. /\ pc'[w] = "publish" /\ todo'[w] = todo[w]
          /\ plan'[w].mode = m /\ plan'[w].to = to /\ plan'[w].prefix = head[m].input
      BY <1>1, <1>3
    <2>4. head' = head /\ bars'[w] = bars[w] /\ rows'[w] = rows[w]
      BY <1>2 DEF db
    <2>5. StageOK(w)' /\ PlanOK(w)'
      BY <1>2, <2>1, <2>3, <2>4 DEF IInv, WorkerOK, StageOK, PlanOK
    <2> QED BY <2>2, <2>5 DEF WorkerOK
  <1>4. CASE \E class : Raise(w, class)
    BY <1>2, <1>4, RaiseOK
  <1> QED BY <1>3, <1>4 DEF CheckHead

\* The rest of a pass only lets go of jobs, or reports them.
LEMMA LastStepsOK ==
    ASSUME IInv, SharedStep, TypeOK', NEW w \in Workers,
           \/ Publish(w) \/ PublishRejected(w) \/ Announce(w) \/ Fault(w) \/ Crash(w)
           \/ \E m \in Modes : ReportError(w, m)
    PROVE  WorkerOK(w)'
  <1>1. /\ pc \in [Workers -> PCs] /\ todo \in [Workers -> SUBSET Modes]
    BY TypeParts DEF IInv, WorkersTypeOK
  <1>2. StageOK(w)
    BY DEF IInv, WorkerOK
  <1>3. CASE Publish(w)
    <2>1. RowsOK(w)' /\ BarsOK(w)'
      BY <1>3, RowsKept, BarsKept DEF Publish
    <2>2. pc'[w] = "announce" /\ todo'[w] \subseteq todo[w] /\ rows' = rows
      BY <1>1, <1>3 DEF Publish
    <2>3. StageOK(w)' /\ PlanOK(w)'
      BY <1>2, <2>2 DEF StageOK, PlanOK
    <2> QED BY <2>1, <2>3 DEF WorkerOK
  <1>4. CASE PublishRejected(w)
    <2>1. rows' = rows /\ bars' = bars /\ \E class : Raise(w, class)
      BY <1>4 DEF PublishRejected
    <2> QED BY <2>1, RaiseOK
  <1>5. CASE Fault(w)
    <2>1. rows' = rows /\ bars' = bars /\ Raise(w, "other")
      BY <1>5 DEF Fault
    <2> QED BY <2>1, RaiseOK
  <1>6. CASE Release(w) /\ pc' = [pc EXCEPT ![w] = "idle"]
    BY <1>1, <1>6, ReleaseOK
  <1>7. CASE /\ pc[w] \in {"announce", "failing"}
             /\ pc'[w] \in {"compute", "failing"} /\ todo'[w] \subseteq todo[w]
             /\ rows' = rows /\ bars' = bars
    <2>1. RowsOK(w)' /\ BarsOK(w)'
      BY <1>7, RowsKept, BarsKept
    <2>2. StageOK(w)' /\ PlanOK(w)'
      BY <1>2, <1>7 DEF StageOK, PlanOK
    <2> QED BY <2>1, <2>2 DEF WorkerOK
  <1>8. CASE Announce(w)
    BY <1>1, <1>6, <1>7, <1>8 DEF Announce
  <1>9. CASE Crash(w)
    BY <1>6, <1>9 DEF Crash
  <1>10. ASSUME NEW m \in Modes, ReportError(w, m) PROVE WorkerOK(w)'
    BY <1>1, <1>6, <1>7, <1>10 DEF ReportError
  <1> QED BY <1>3, <1>4, <1>5, <1>8, <1>9, <1>10

\* The workers that do not take the step.
LEMMA OthersSame ==
    ASSUME TypeOK, NEW v \in Workers, NEW w \in Workers, v # w,
           WorkerStep(v) \/ Fault(v) \/ Crash(v)
    PROVE  SameWorker(w)
  <1>1. WorkersTypeOK
    BY TypeParts
  <1>2. CASE Normalize(v) \/ Discover(v) \/ Ensure(v) \/ Claim(v) \/ NothingToClaim(v)
    BY <1>1, <1>2 DEF WorkersTypeOK, SameWorker, Normalize, Discover, Ensure, Claim, NothingToClaim
  <1>3. CASE ReadBars(v) \/ \E m \in Modes : CheckHead(v, m)
    BY <1>1, <1>3 DEF WorkersTypeOK, SameWorker, ReadBars, CheckHead, Raise
  <1>4. CASE Publish(v) \/ PublishRejected(v) \/ Fault(v)
    BY <1>1, <1>4 DEF WorkersTypeOK, SameWorker, Publish, PublishRejected, Fault, Raise
  <1>5. CASE Announce(v) \/ Crash(v) \/ \E m \in Modes : ReportError(v, m)
    BY <1>1, <1>5 DEF WorkersTypeOK, SameWorker, Announce, Crash, ReportError, Release
  <1> QED BY <1>2, <1>3, <1>4, <1>5 DEF WorkerStep

LEMMA WorkersStep ==
    ASSUME IInv, [Next]_vars, NEW w \in Workers
    PROVE  WorkerOK(w)'
  <1>1. SharedStep /\ TypeOK' /\ TypeOK
    BY AllSharedSteps, TypeStep DEF IInv
  <1>2. CASE WorkerStep(w) \/ Fault(w) \/ Crash(w)
    BY <1>1, <1>2, ClaimStepsOK, ReadStepOK, CheckStepOK, LastStepsOK DEF WorkerStep
  <1>3. CASE \E v \in Workers : v # w /\ (WorkerStep(v) \/ Fault(v) \/ Crash(v))
    BY <1>1, <1>3, OthersSame, WorkerKept
  <1>4. CASE \/ \E S \in SUBSET Ends : WriteBars(S)
             \/ ClosePeriod \/ \E m \in Modes : Expire(m) \/ BecomeDue(m)
             \/ PlanRecompute \/ ReadRecompute \/ PublishRecompute \/ AbandonRecompute
             \/ UNCHANGED vars
    <2>1. SameWorker(w)
      BY <1>4 DEF WriteBars, ClosePeriod, Expire, BecomeDue, PlanRecompute, ReadRecompute,
                  PublishRecompute, AbandonRecompute, vars, worker, SameWorker
    <2> QED BY <1>1, <2>1, WorkerKept
  <1> QED BY <1>2, <1>3, <1>4 DEF Next

-----------------------------------------------------------------------------
(* Task rows, claims, runs and the recompute.                                *)

\* What the invariant says of one task row.
TaskRowOK(t) ==
    /\ t.token <= t.leases
    /\ t.status # "none" => t.anchor \in Ends
    /\ t.status = "running" => t.token # 0

LEMMA TaskRowsStep ==
    ASSUME IInv, [Next]_vars, NEW m \in Modes
    PROVE  TaskRowOK(task'[m])
  <1> USE DEF IInv
  <1>0. /\ task \in [Modes -> TaskRow] /\ task[m] \in TaskRow
        /\ task[m].leases \in Nat /\ task[m].token \in Nat
    BY DEF TypeOK, TaskRow
  <1>1. TaskRowOK(task[m])
    BY DEF TasksOK, OneClaimant, TaskRowOK
  <1>2. ASSUME NEW w \in Workers, Normalize(w) PROVE TaskRowOK(task'[m])
    <2>1. CASE task'[m] = task[m]
      BY <1>1, <2>1
    <2>2. CASE Normalized(m) /\ task'[m] = [task[m] EXCEPT !.target = TargetEnd,
                               !.status = IF NewPeriod(m) THEN "pending" ELSE "success",
                               !.due = NewPeriod(m),
                               !.token = 0, !.live = FALSE, !.claimedTarget = 0]
      <3>1. /\ task'[m].token = 0 /\ task'[m].leases = task[m].leases
            /\ task'[m].status # "running" /\ task'[m].anchor = task[m].anchor
        BY <1>0, <2>2 DEF TaskRow
      <3>2. task[m].anchor \in Ends
        BY <1>1, <2>2 DEF TaskRowOK, Normalized
      <3> QED BY <1>0, <3>1, <3>2 DEF TaskRowOK
    <2> QED BY <1>2, <2>1, <2>2 DEF Normalize
  <1>3. ASSUME NEW w \in Workers, Ensure(w) PROVE TaskRowOK(task'[m])
    <2>1. CASE task'[m] = task[m]
      BY <1>1, <2>1
    <2>2. CASE rows[w][m].target # 0 /\ task'[m] = Upserted(m, rows[w][m])
      <3>1. /\ task'[m].token = task[m].token /\ task'[m].leases = task[m].leases
            /\ task'[m].status = "running" => task[m].status = "running"
            /\ task'[m].anchor = rows[w][m].anchor
        BY <1>0, <2>2 DEF TaskRow, Upserted
      <3>2. rows[w][m].anchor \in Ends
        BY <2>2 DEF WorkerOK, RowsOK
      <3> QED BY <1>1, <3>1, <3>2 DEF TaskRowOK
    <2> QED BY <1>3, <2>1, <2>2 DEF Ensure
  <1>4. ASSUME NEW w \in Workers, Claim(w) PROVE TaskRowOK(task'[m])
    <2>1. CASE task'[m] = task[m]
      BY <1>1, <2>1
    <2>2. CASE Claimable(m) /\ task'[m] = Claimed(m)
      <3>1. /\ task'[m].token = task[m].leases + 1 /\ task'[m].leases = task[m].leases + 1
            /\ task'[m].anchor = task[m].anchor
        BY <1>0, <2>2 DEF TaskRow, Claimed
      <3>2. task[m].anchor \in Ends
        BY <1>1, <2>2 DEF TaskRowOK, Claimable
      <3> QED BY <1>0, <3>1, <3>2 DEF TaskRowOK
    <2> QED BY <1>4, <2>1, <2>2 DEF Claim
  <1>5. ASSUME NEW w \in Workers, Publish(w) PROVE TaskRowOK(task'[m])
    <2>1. CASE task'[m] = task[m]
      BY <1>1, <2>1
    <2>2. CASE task[m].status = "running" /\ \E to : task'[m] = Completed(m, to)
      <3>1. /\ task'[m].token = 0 /\ task'[m].leases = task[m].leases
            /\ task'[m].status # "running" /\ task'[m].anchor = task[m].anchor
        BY <1>0, <2>2 DEF TaskRow, Completed
      <3> QED BY <1>0, <1>1, <2>2, <3>1 DEF TaskRowOK
    <2> QED BY <1>0, <1>5, <2>1, <2>2 DEF Publish, Fenced
  <1>6. ASSUME NEW w \in Workers, NEW n \in Modes, ReportError(w, n) PROVE TaskRowOK(task'[m])
    <2>1. CASE task'[m] = task[m]
      BY <1>1, <2>1
    <2>2. CASE task[m].status = "running" /\ task'[m] = Reported(m, err[w])
      <3>1. /\ task'[m].token = 0 /\ task'[m].leases = task[m].leases
            /\ task'[m].status # "running" /\ task'[m].anchor = task[m].anchor
        BY <1>0, <2>2 DEF TaskRow, Reported
      <3> QED BY <1>0, <1>1, <2>2, <3>1 DEF TaskRowOK
    <2> QED BY <1>0, <1>6, <2>1, <2>2 DEF ReportError
  <1>7. ASSUME NEW n \in Modes, Expire(n) \/ BecomeDue(n) PROVE TaskRowOK(task'[m])
    <2>1. /\ task'[m].token = task[m].token /\ task'[m].leases = task[m].leases
          /\ task'[m].status = task[m].status /\ task'[m].anchor = task[m].anchor
      BY <1>0, <1>7 DEF Expire, BecomeDue, TaskRow
    <2> QED BY <1>1, <2>1 DEF TaskRowOK
  <1>8. ASSUME NEW w \in Workers,
               \/ Discover(w) \/ NothingToClaim(w) \/ ReadBars(w)
               \/ \E n \in Modes : CheckHead(w, n)
               \/ PublishRejected(w) \/ Announce(w) \/ Fault(w) \/ Crash(w)
        PROVE  task' = task
    BY <1>8 DEF Discover, NothingToClaim, ReadBars, CheckHead, PublishRejected, Announce,
                Fault, Crash, db
  <1>9. ASSUME \/ \E S \in SUBSET Ends : WriteBars(S)
               \/ ClosePeriod \/ PlanRecompute \/ ReadRecompute \/ PublishRecompute
               \/ AbandonRecompute \/ UNCHANGED vars
        PROVE  task' = task
    BY <1>9 DEF WriteBars, ClosePeriod, PlanRecompute, ReadRecompute, PublishRecompute,
                AbandonRecompute, vars, db
  <1> QED BY <1>1, <1>2, <1>3, <1>4, <1>5, <1>6, <1>7, <1>8, <1>9 DEF Next, WorkerStep

\* The claims a worker holds: only a claim adds one, with a token nobody has had.
LEMMA ClaimsStep ==
    ASSUME IInv, [Next]_vars, NEW m \in Modes
    PROVE  \/ \A w \in Workers : rows'[w][m].token \in {0, rows[w][m].token}
           \/ \E v \in Workers :
                 /\ rows'[v][m].token = task[m].leases + 1
                 /\ \A w \in Workers : w # v => rows'[w][m].token = rows[w][m].token
  <1>1. rows \in [Workers -> [Modes -> Row]]
    BY DEF IInv, TypeOK
  <1>2. ASSUME NEW v \in Workers, Claim(v)
        PROVE  \/ \A w \in Workers : rows'[w][m].token \in {0, rows[w][m].token}
               \/ /\ rows'[v][m].token = task[m].leases + 1
                  /\ \A w \in Workers : w # v => rows'[w][m].token = rows[w][m].token
    <2>1. \A w \in Workers : w # v => rows'[w] = rows[w]
      BY <1>1, <1>2 DEF Claim
    <2>2. rows'[v][m] = ClaimedRow(m) \/ rows'[v][m] = NoRow
      BY <1>1, <1>2 DEF Claim
    <2>3. ClaimedRow(m).token = task[m].leases + 1 /\ NoRow.token = 0
      BY DEF ClaimedRow, NoRow
    <2>4. rows'[v][m].token = task[m].leases + 1 \/ rows'[v][m].token = 0
      BY <2>2, <2>3, Zenon
    <2> QED BY <2>1, <2>4
  <1>3. ASSUME NEW v \in Workers, WorkerStep(v) \/ Fault(v) \/ Crash(v), ~Claim(v)
        PROVE  \A w \in Workers : rows'[w][m].token \in {0, rows[w][m].token}
    <2>1. CASE rows' = rows
      BY <2>1
    <2>2. CASE rows' = [rows EXCEPT ![v] = NoRows]
      BY <1>1, <2>2 DEF NoRows, NoRow
    <2>3. CASE Discover(v)
      <3>1. \A w \in Workers : w # v => rows'[w] = rows[w]
        BY <1>1, <2>3 DEF Discover
      <3>2. rows'[v][m] = CandidateRow(m) \/ rows'[v][m] = NoRow
        BY <1>1, <2>3 DEF Discover
      <3>3. CandidateRow(m).token = 0 /\ NoRow.token = 0
        BY DEF CandidateRow, NoRow
      <3> QED BY <3>1, <3>2, <3>3, Zenon
    <2>4. Discover(v) \/ rows' = rows \/ rows' = [rows EXCEPT ![v] = NoRows]
      BY <1>3 DEF WorkerStep, Fault, Crash, Release, Normalize, Ensure, NothingToClaim, ReadBars,
                  CheckHead, Publish, PublishRejected, Announce, ReportError
    <2> QED BY <2>1, <2>2, <2>3, <2>4
  <1>4. ASSUME \/ \E S \in SUBSET Ends : WriteBars(S)
               \/ ClosePeriod \/ \E n \in Modes : Expire(n) \/ BecomeDue(n)
               \/ PlanRecompute \/ ReadRecompute \/ PublishRecompute \/ AbandonRecompute
               \/ UNCHANGED vars
        PROVE  rows' = rows
    BY <1>4 DEF WriteBars, ClosePeriod, Expire, BecomeDue, PlanRecompute, ReadRecompute,
                PublishRecompute, AbandonRecompute, vars, worker
  <1> QED BY <1>2, <1>3, <1>4 DEF Next

LEMMA ClaimantStep ==
    ASSUME IInv, [Next]_vars
    PROVE  OneClaimant' /\ TasksOK'
  <1>1. TasksOK'
    BY TaskRowsStep DEF TasksOK, TaskRowOK
  <1>2. ASSUME NEW m \in Modes, NEW v \in Workers, NEW w \in Workers,
               rows'[v][m].token # 0, rows'[v][m].token = rows'[w][m].token
        PROVE  v = w
    <2>1. \A u \in Workers : rows[u][m].token <= task[m].leases /\ rows[u][m].token \in Int
      BY DEF IInv, WorkerOK, RowsOK, TypeOK, Row
    <2>2. task[m].leases \in Int
      BY DEF IInv, TypeOK, TaskRow
    <2>3. \A x, y \in Workers :
             (rows[x][m].token # 0 /\ rows[x][m].token = rows[y][m].token) => x = y
      BY DEF IInv, OneClaimant
    <2>4. CASE \A u \in Workers : rows'[u][m].token \in {0, rows[u][m].token}
      BY <1>2, <2>3, <2>4
    <2>5. CASE \E u \in Workers :
                 /\ rows'[u][m].token = task[m].leases + 1
                 /\ \A x \in Workers : x # u => rows'[x][m].token = rows[x][m].token
      BY <1>2, <2>1, <2>2, <2>3, <2>5
    <2> QED BY <2>4, <2>5, ClaimsStep
  <1>3. \A m \in Modes : task'[m].status = "running" => task'[m].token # 0
    BY TaskRowsStep DEF TaskRowOK
  <1> QED BY <1>1, <1>2, <1>3 DEF OneClaimant

LEMMA RecomputeStep ==
    ASSUME IInv, [Next]_vars
    PROVE  RunsUsed' /\ RecomputeOK'
  <1>1. /\ SharedStep /\ TypeOK /\ TypeOK' /\ RunsUsed /\ RecomputeOK /\ VersionsBehind
    BY AllSharedSteps, TypeStep DEF IInv, HeadInv
  <1>2. /\ run \in Int /\ run' \in Int /\ run' >= run /\ ingest.version \in Int
        /\ \A m \in Modes : /\ head[m].run \in Int /\ head'[m].run \in Int
                             /\ head[m].consumed \in Int /\ head'[m].consumed \in Int
                             /\ recompute.expRun[m] \in Int
        /\ \A e \in Ends : klines[e] \in Int /\ klines'[e] \in Int
    BY <1>1, ConstantTypes DEF Constants, TypeOK, HeadTypeOK, HeadRow, Runs, Versions, Input, SharedStep
  <1>3. \A m \in Modes : head'[m].run <= run'
    <2>1. CASE \E w \in Workers : Publish(w)
      <3>1. PICK w \in Workers : Publish(w)
        BY <2>1
      <3>2. run' = run + 1 /\ head \in [Modes -> HeadRow]
        BY <1>1, <3>1 DEF Publish, TypeOK, HeadTypeOK
      <3>3. \A m \in Modes : head'[m] = head[m] \/ head'[m].run = run + 1
        BY <3>1, <3>2, PublishedRun
      <3> QED BY <1>1, <1>2, <3>2, <3>3 DEF RunsUsed
    <2>2. CASE PublishRecompute
      BY <1>1, <1>2, <2>2 DEF PublishRecompute, RecomputedHead, RunsUsed
    <2>3. CASE head' = head
      BY <1>1, <1>2, <2>3 DEF RunsUsed
    <2>4. ASSUME NEW w \in Workers, WorkerStep(w) \/ Fault(w) \/ Crash(w), ~Publish(w)
          PROVE  head' = head
      <3>1. CASE Normalize(w) \/ Discover(w) \/ Ensure(w) \/ Claim(w) \/ NothingToClaim(w)
        BY <3>1 DEF Normalize, Discover, Ensure, Claim, NothingToClaim, db
      <3>2. CASE \/ ReadBars(w) \/ PublishRejected(w) \/ Announce(w)
                 \/ \E m \in Modes : CheckHead(w, m) \/ ReportError(w, m)
        BY <3>2 DEF ReadBars, CheckHead, PublishRejected, Announce, ReportError, db
      <3>3. CASE Fault(w) \/ Crash(w)
        BY <3>3 DEF Fault, Crash, db
      <3> QED BY <2>4, <3>1, <3>2, <3>3 DEF WorkerStep
    <2>5. ASSUME \/ \E S \in SUBSET Ends : WriteBars(S)
                 \/ ClosePeriod \/ \E m \in Modes : Expire(m) \/ BecomeDue(m)
                 \/ PlanRecompute \/ ReadRecompute \/ AbandonRecompute \/ UNCHANGED vars
          PROVE  head' = head
      BY <2>5 DEF WriteBars, CommitBars, ClosePeriod, Expire, BecomeDue, PlanRecompute,
                  ReadRecompute, AbandonRecompute, vars, db
    <2>6. \/ \E w \in Workers : Publish(w)
          \/ PublishRecompute
          \/ head' = head
      BY <2>4, <2>5 DEF Next
    <2> QED BY <2>1, <2>2, <2>3, <2>6
  <1>4. CASE recompute' = recompute
    <2>1. RunsUsed'
      BY <1>1, <1>2, <1>3, <1>4 DEF RunsUsed
    <2>2. ASSUME NEW m \in Modes, NEW e \in Ends, recompute.step = "publish",
                 head'[m].run = recompute.expRun[m], e <= recompute.target,
                 klines'[e] <= head'[m].consumed
          PROVE  recompute.read[e] = klines'[e]
      <3>1. head'[m] = head[m]
        BY <1>1, <1>2, <2>2 DEF SharedStep, RunsUsed
      <3>2. klines'[e] = klines[e]
        BY <1>1, <1>2, <2>2, <3>1 DEF SharedStep, VersionsBehind
      <3> QED BY <1>1, <2>2, <3>1, <3>2 DEF RecomputeOK
    <2>3. RecomputeOK'
      BY <1>1, <1>4, <2>2 DEF RecomputeOK
    <2> QED BY <2>1, <2>3
  <1>5. CASE PlanRecompute
    <2>1. /\ recompute'.step = "read" /\ recompute'.target = ingest.last
          /\ \A m \in Modes : recompute'.expRun[m] = head[m].run
          /\ run' = run /\ ingest.last \in Ends
      BY <1>1, <1>5 DEF PlanRecompute, db, TypeOK, HeadTypeOK
    <2> QED BY <1>1, <1>3, <2>1 DEF RunsUsed, RecomputeOK
  <1>6. CASE ReadRecompute
    <2>1. /\ recompute'.step = "publish" /\ recompute'.target = recompute.target
          /\ recompute'.expRun = recompute.expRun
          /\ \A e \in Ends : e <= recompute.target => recompute'.read[e] = klines[e]
          /\ UNCHANGED <<klines, run>> /\ recompute.target \in Ends
      BY <1>1, <1>6 DEF ReadRecompute, db, TypeOK, RecomputeOK
    <2> QED BY <1>1, <1>3, <2>1 DEF RunsUsed, RecomputeOK
  <1>7. CASE PublishRecompute \/ AbandonRecompute
    <2>1. recompute'.step = "idle" /\ \A m \in Modes : recompute'.expRun[m] = 0
      BY <1>7 DEF PublishRecompute, AbandonRecompute, Idle
    <2>2. 0 <= run'
      BY <1>1 DEF TypeOK, Runs
    <2> QED BY <1>3, <2>1, <2>2 DEF RunsUsed, RecomputeOK
  <1>8. ASSUME NEW w \in Workers, WorkerStep(w) \/ Fault(w) \/ Crash(w) PROVE recompute' = recompute
    <2>1. CASE Normalize(w) \/ Discover(w) \/ Ensure(w) \/ Claim(w) \/ NothingToClaim(w) \/ ReadBars(w)
      BY <2>1 DEF Normalize, Discover, Ensure, Claim, NothingToClaim, ReadBars
    <2>2. CASE \E m \in Modes : CheckHead(w, m) \/ ReportError(w, m)
      BY <2>2 DEF CheckHead, ReportError
    <2>3. CASE Publish(w) \/ PublishRejected(w) \/ Announce(w) \/ Fault(w) \/ Crash(w)
      BY <2>3 DEF Publish, PublishRejected, Announce, Fault, Crash
    <2> QED BY <1>8, <2>1, <2>2, <2>3 DEF WorkerStep
  <1>9. ASSUME \/ \E S \in SUBSET Ends : WriteBars(S)
               \/ ClosePeriod \/ \E m \in Modes : Expire(m) \/ BecomeDue(m)
               \/ UNCHANGED vars
        PROVE  recompute' = recompute
    BY <1>9 DEF WriteBars, ClosePeriod, Expire, BecomeDue, vars
  <1>10. \/ recompute' = recompute \/ PlanRecompute \/ ReadRecompute
         \/ PublishRecompute \/ AbandonRecompute
    BY <1>8, <1>9 DEF Next
  <1> QED BY <1>4, <1>5, <1>6, <1>7, <1>10

LEMMA IInvInit == Init => IInv
  <1> SUFFICES ASSUME Init PROVE IInv
    OBVIOUS
  <1>1. HeadInv /\ TypeOK
    BY HeadInvInit, TypeInit DEF Init
  <1>2. \A w \in Workers : rows[w] = NoRows /\ bars[w] = NoBars /\ todo[w] = {} /\ pc[w] = "idle"
    BY DEF Init
  <1>3. \A m \in Modes : task[m] = NoTask /\ head[m].run = 1 /\ recompute.expRun[m] = 0
    BY DEF Init, HeadInit, Idle
  <1>4. run = 1 /\ recompute.step = "idle" /\ ingest.version = 1
    BY DEF Init, HeadInit, Idle
  <1>5. OneClaimant /\ TasksOK /\ RunsUsed /\ RecomputeOK
    BY <1>2, <1>3, <1>4 DEF OneClaimant, TasksOK, RunsUsed, RecomputeOK, NoTask, NoRows, NoRow
  <1>6. ASSUME NEW w \in Workers PROVE WorkerOK(w)
    BY <1>2, <1>3, <1>4 DEF WorkerOK, RowsOK, BarsOK, StageOK, PlanOK, NoRows, NoRow, NoBars, NoTask
  <1> QED BY <1>1, <1>5, <1>6 DEF IInv

LEMMA IInvStep == IInv /\ [Next]_vars => IInv'
  <1> SUFFICES ASSUME IInv, [Next]_vars PROVE IInv'
    OBVIOUS
  <1> QED BY TypeStep, HeadInvStep, ClaimantStep, RecomputeStep, WorkersStep DEF IInv

-----------------------------------------------------------------------------
(* What a task row says about work: a second invariant, on top of IInv.      *)

\* A claimed row asks for an end, or for a version, that head `h` does not have.
Behind(h, row) ==
    h.to < row.target \/ (h.to = row.target /\ h.consumed < row.version)

LiveRuns == \A m \in Modes : task[m].live => task[m].status = "running"

(* A claim is for work the head it was taken on has not done, so that no job *)
(* is refused, and a task is in success only when its work is done.          *)
WorkOK ==
    /\ \A w \in Workers, m \in Modes :
          (rows[w][m].token # 0 /\ head[m].run = rows[w][m].expRun) => Behind(head[m], rows[w][m])
    /\ \A w \in Workers : err[w] # "refused"
    /\ SuccessIsDone

DoneInv == LiveRuns /\ (Higher \/ WorkOK)

(* The ways a task row may change: its claim is left alone; it is rewritten  *)
(* while no live lease protects it; or the worker that holds it ends it.     *)
Untouched(m) ==
    /\ task'[m].token = task[m].token
    /\ task'[m].claimedTarget = task[m].claimedTarget
    /\ task'[m].claimedVersion = task[m].claimedVersion
    /\ task'[m].live => task[m].live /\ task'[m].status = "running"
    /\ task'[m].status = "success" =>
          /\ task[m].status = "success"
          /\ task'[m].target = task[m].target /\ task'[m].version = task[m].version

Rewritten(m) ==
    /\ ~(task[m].status = "running" /\ task[m].live)
    /\ task'[m].live => task'[m].status = "running"
    /\ task'[m].status = "success" => Higher

Ended(m) ==
    \E w \in Workers :
        /\ task[m].status = "running" /\ task[m].token = rows[w][m].token
        /\ ~(pc'[w] = pc[w] /\ rows'[w] = rows[w] /\ todo'[w] = todo[w])
        /\ ~task'[m].live
        /\ task'[m].status = "success" =>
              Higher \/ (task'[m].target <= head'[m].to /\ task'[m].version <= head'[m].consumed)

\* Bars are their own period outside 1w and 1m: what is published is the target.
LEMMA PublicationIsTarget ==
    ASSUME TypeOK, ~Higher, NEW w \in Workers, NEW m \in Modes, PublicationEnd(w, m) # 0
    PROVE  PublicationEnd(w, m) = rows[w][m].target /\ rows[w][m].target \in Ends
  <1>1. PICK end : end = PublicationEnd(w, m)
    OBVIOUS
  <1>2. end \in Ends
    BY <1>1, PublicationEndType
  <1>3. P(end) = P(rows[w][m].target)
    BY <1>1 DEF PublicationEnd
  <1>4. \A e \in Ends : Period[e] = e
    BY PeriodAssumption
  <1>5. end # 0
    BY <1>1
  <1> QED BY <1>1, <1>2, <1>3, <1>4, <1>5 DEF P

\* The same of P on the ends a row may carry.
LEMMA PeriodIsEnd ==
    ASSUME ~Higher, NEW e \in 0 .. MaxEnd
    PROVE  P(e) = e
  <1>1. \A d \in Ends : Period[d] = d
    BY PeriodAssumption
  <1> QED BY <1>1, ConstantTypes DEF Constants, P, Ends

\* A claimed row is behind the head it was claimed on.
LEMMA ClaimIsBehind ==
    ASSUME TypeOK, ~Higher, NEW m \in Modes, Claimable(m)
    PROVE  Behind(head[m], ClaimedRow(m))
  <1>1. task[m].target \in 0 .. MaxEnd /\ head[m].to \in 0 .. MaxEnd
    BY DbTypes DEF TypeOK, TaskRow
  <1>2. P(task[m].target) = task[m].target /\ P(head[m].to) = head[m].to
    BY <1>1, PeriodIsEnd
  <1>3. \/ task[m].target > head[m].to
        \/ task[m].target = head[m].to /\ ingest.version > head[m].consumed
    BY <1>2 DEF Claimable
  <1>4. ClaimedRow(m).target = task[m].target /\ ClaimedRow(m).version = ingest.version
    BY DEF ClaimedRow
  <1>5. PICK h, v : h = head[m] /\ v = ingest.version
    OBVIOUS
  <1>6. h.to \in Int /\ h.consumed \in Int /\ v \in Int /\ task[m].target \in Int
    BY <1>1, <1>5, DbTypes DEF Versions
  <1> QED BY <1>3, <1>4, <1>5, <1>6 DEF Behind

\* No check refuses a job: one that fails is stale, or reads too little.
LEMMA NoneRefused ==
    ASSUME IInv, ~Higher, WorkOK, NEW w \in Workers, NEW m \in Modes, CheckHead(w, m)
    PROVE  \A v \in Workers : err'[v] # "refused"
  <1>1. PICK to : to = PublicationEnd(w, m)
    OBVIOUS
  <1>2. PICK row \in Row : row = rows[w][m]
    BY DEF IInv, TypeOK
  <1>3. PICK h : h = head[m]
    OBVIOUS
  <1>4. m \in todo[w] /\ row.token # 0
    BY <1>2 DEF CheckHead, IInv, WorkerOK, StageOK
  <1>5. h.run = row.expRun => Behind(h, row)
    BY <1>2, <1>3, <1>4 DEF WorkOK
  <1>6. to # 0 => to = row.target
    BY <1>1, <1>2, PublicationIsTarget DEF IInv
  <1>7. h.to \in Int /\ h.consumed \in Int /\ row.target \in Int /\ row.version \in Int
    BY <1>2, <1>3, DbTypes DEF IInv, Row, Versions
  <1>8. (to # 0 /\ h.run = row.expRun) =>
           ~(to < h.to \/ (to = h.to /\ row.version <= h.consumed))
    BY <1>5, <1>6, <1>7 DEF Behind
  <1> DEFINE class == IF to = 0 THEN "other"
                 ELSE IF h.run # row.expRun \/ h.to # row.expTo
                         \/ ingest.version # row.version THEN "stale"
                 ELSE IF to < h.to \/ (to = h.to /\ row.version <= h.consumed)
                      THEN "refused"
                 ELSE "none"
  <1>9. class \in {"other", "stale", "none"}
    BY <1>8
  <1>10. UNCHANGED err \/ Raise(w, class)
    BY <1>1, <1>2, <1>3 DEF CheckHead
  <1> HIDE DEF class
  <1>11. err \in [Workers -> Errors]
    BY DEF IInv, TypeOK
  <1> QED BY <1>9, <1>10, <1>11 DEF Raise, WorkOK

\* The errors of the other steps are none of them refusals.
LEMMA ErrorsStep ==
    ASSUME IInv, [Next]_vars, ~Higher, WorkOK
    PROVE  \A v \in Workers : err'[v] # "refused"
  <1>1. err \in [Workers -> Errors] /\ \A v \in Workers : err[v] # "refused"
    BY DEF IInv, TypeOK, WorkOK
  <1>2. ASSUME NEW w \in Workers, NEW class, class # "refused", err' = [err EXCEPT ![w] = class]
        PROVE  \A v \in Workers : err'[v] # "refused"
    BY <1>1, <1>2
  <1>3. CASE UNCHANGED err
    BY <1>1, <1>3
  <1>4. ASSUME NEW w \in Workers,
               \/ Normalize(w) \/ Discover(w) \/ Ensure(w) \/ Claim(w) \/ NothingToClaim(w)
               \/ Publish(w)
        PROVE  UNCHANGED err
    BY <1>4 DEF Normalize, Discover, Ensure, Claim, NothingToClaim, Publish
  <1>5. ASSUME NEW w \in Workers, ReadBars(w) \/ Fault(w)
        PROVE  UNCHANGED err \/ err' = [err EXCEPT ![w] = "other"]
    BY <1>5 DEF ReadBars, Fault, Raise
  <1>6. ASSUME NEW w \in Workers, PublishRejected(w)
        PROVE  err' = [err EXCEPT ![w] = "stale"] \/ err' = [err EXCEPT ![w] = "other"]
    BY <1>6 DEF PublishRejected, Raise
  <1>7. ASSUME NEW w \in Workers, Announce(w) \/ Crash(w) \/ \E n \in Modes : ReportError(w, n)
        PROVE  UNCHANGED err \/ err' = [err EXCEPT ![w] = "none"]
    BY <1>7 DEF Announce, Crash, ReportError, Release
  <1>8. ASSUME \/ \E S \in SUBSET Ends : WriteBars(S)
               \/ ClosePeriod \/ \E n \in Modes : Expire(n) \/ BecomeDue(n)
               \/ PlanRecompute \/ ReadRecompute \/ PublishRecompute \/ AbandonRecompute
               \/ UNCHANGED vars
        PROVE  UNCHANGED err
    BY <1>8 DEF WriteBars, ClosePeriod, Expire, BecomeDue, PlanRecompute, ReadRecompute,
                PublishRecompute, AbandonRecompute, vars, worker
  <1>9. ASSUME NEW w \in Workers, WorkerStep(w) \/ Fault(w) \/ Crash(w)
        PROVE  \A v \in Workers : err'[v] # "refused"
    BY <1>2, <1>3, <1>4, <1>5, <1>6, <1>7, <1>9, NoneRefused DEF WorkerStep
  <1> QED BY <1>3, <1>8, <1>9 DEF Next

\* Rows a worker holds are behind the head they were claimed on.
LEMMA BehindStep ==
    ASSUME IInv, [Next]_vars, ~Higher, WorkOK, NEW w \in Workers, NEW m \in Modes,
           rows'[w][m].token # 0, head'[m].run = rows'[w][m].expRun
    PROVE  Behind(head'[m], rows'[w][m])
  <1>1. SharedStep /\ IInv' /\ rows \in [Workers -> [Modes -> Row]]
    BY AllSharedSteps, IInvStep DEF IInv, TypeOK
  <1>2. CASE rows'[w][m] = rows[w][m]
    <2>1. PICK row \in Row : row = rows[w][m]
      BY <1>1
    <2>2. row.expRun <= run /\ row.expRun \in Int /\ run \in Int /\ head'[m].run \in Int
      BY <1>1, <2>1 DEF IInv, TypeOK, WorkerOK, RowsOK, Row, Runs, HeadTypeOK, HeadRow
    <2>3. head'[m].run = row.expRun
      BY <1>2, <2>1
    <2>4. head'[m] = head[m]
      BY <1>1, <2>2, <2>3 DEF SharedStep
    <2> QED BY <1>2, <2>1, <2>3, <2>4 DEF WorkOK
  <1>3. CASE rows'[w][m] # rows[w][m]
    <2>1. CASE Claim(w)
      <3>1. PICK S \in SUBSET {n \in Modes : Claimable(n)} :
               rows' = [rows EXCEPT ![w] = [n \in Modes |-> IF n \in S THEN ClaimedRow(n) ELSE NoRow]]
        BY <2>1 DEF Claim
      <3>2. m \in S /\ rows'[w][m] = ClaimedRow(m)
        BY <1>1, <3>1 DEF NoRow
      <3>3. head' = head /\ Claimable(m)
        BY <2>1, <3>2 DEF Claim
      <3>4. Behind(head[m], ClaimedRow(m))
        BY <3>3, ClaimIsBehind DEF IInv
      <3> QED BY <3>2, <3>3, <3>4
    <2>2. CASE Discover(w)
      <3>1. rows'[w][m] = CandidateRow(m) \/ rows'[w][m] = NoRow
        BY <1>1, <2>2 DEF Discover
      <3> QED BY <3>1 DEF CandidateRow, NoRow
    <2>3. CASE Ensure(w) \/ rows' = [rows EXCEPT ![w] = NoRows]
      BY <1>1, <2>3 DEF Ensure, NoRows, NoRow
    <2>4. Claim(w) \/ Discover(w) \/ Ensure(w) \/ rows' = [rows EXCEPT ![w] = NoRows]
      <3>1. ASSUME NEW v \in Workers, WorkerStep(v) \/ Fault(v) \/ Crash(v) PROVE v = w
        BY <1>3, <3>1, OthersSame DEF SameWorker, IInv
      <3>2. ASSUME WorkerStep(w) \/ Fault(w) \/ Crash(w)
            PROVE  \/ Claim(w) \/ Discover(w) \/ Ensure(w)
                   \/ rows' = [rows EXCEPT ![w] = NoRows] \/ rows' = rows
        BY <3>2 DEF WorkerStep, Fault, Crash, Release, Normalize, NothingToClaim, ReadBars,
                    CheckHead, Publish, PublishRejected, Announce, ReportError
      <3>3. ASSUME \/ \E S \in SUBSET Ends : WriteBars(S)
                   \/ ClosePeriod \/ \E n \in Modes : Expire(n) \/ BecomeDue(n)
                   \/ PlanRecompute \/ ReadRecompute \/ PublishRecompute \/ AbandonRecompute
                   \/ UNCHANGED vars
            PROVE  rows' = rows
        BY <3>3 DEF WriteBars, ClosePeriod, Expire, BecomeDue, PlanRecompute, ReadRecompute,
                    PublishRecompute, AbandonRecompute, vars, worker
      <3> QED BY <1>3, <3>1, <3>2, <3>3 DEF Next
    <2> QED BY <2>1, <2>2, <2>3, <2>4
  <1> QED BY <1>2, <1>3

\* A publication ends the task, in success only if the head has all it asks for.
LEMMA PublishEnds ==
    ASSUME IInv, NEW w \in Workers, Publish(w), NEW m \in Modes, m = plan[w].mode
    PROVE  Ended(m)
  <1>1. PICK t \in TaskRow : t = task[m]
    BY DEF IInv, TypeOK
  <1>2. PICK row \in Row : row = rows[w][m]
    BY DEF IInv, TypeOK
  <1>3. PICK to : to = plan[w].to
    OBVIOUS
  <1>4. pc[w] = "publish" /\ Fenced(w, m) /\ pc' = [pc EXCEPT ![w] = "announce"]
        /\ task' = [task EXCEPT ![m] = Completed(m, to)]
    BY <1>3 DEF Publish
  <1>5. t.status = "running" /\ t.token = row.token /\ t.claimedVersion = row.version
    BY <1>1, <1>2, <1>4 DEF Fenced
  <1>6. pc'[w] # pc[w]
    BY <1>4 DEF IInv, TypeOK
  <1>7. PICK again \in BOOLEAN : again = (P(t.target) > P(to) \/ t.version > t.claimedVersion)
    OBVIOUS
  <1>8. PICK no \in BOOLEAN : no = FALSE
    OBVIOUS
  <1>9. task'[m] = [t EXCEPT !.status = IF again THEN "pending" ELSE "success", !.due = again,
                             !.token = 0, !.live = no, !.claimedTarget = 0, !.claimedVersion = 0]
    BY <1>1, <1>4, <1>7, <1>8 DEF Completed, IInv, TypeOK
  <1>10. /\ task'[m].live = no /\ task'[m].target = t.target /\ task'[m].version = t.version
         /\ task'[m].status = IF again THEN "pending" ELSE "success"
    BY <1>9 DEF TaskRow
  <1>11. head'[m].to = to /\ head'[m].consumed = row.version
    <2>1. head \in [Modes -> HeadRow]
      BY DEF IInv, TypeOK, HeadTypeOK
    <2> QED BY <1>2, <1>3, <2>1 DEF Publish
  <1>12. ASSUME ~again, ~Higher PROVE t.target <= to /\ t.version <= row.version
    <2>1. to \in Ends /\ to \in 0 .. MaxEnd
      BY <1>3, <1>4, ConstantTypes DEF IInv, WorkerOK, PlanOK, Constants, Ends
    <2>2. P(t.target) = t.target /\ P(to) = to
      BY <1>12, <2>1, PeriodIsEnd DEF TaskRow
    <2>3. t.target \in Int /\ to \in Int /\ t.version \in Int /\ row.version \in Int
      BY <2>1, ConstantTypes DEF TaskRow, Row, Versions, Constants
    <2>4. ~(P(t.target) > P(to)) /\ ~(t.version > t.claimedVersion)
      BY <1>7, <1>12, Zenon
    <2> QED BY <1>5, <2>2, <2>3, <2>4
  <1>13. task'[m].status = "success" =>
            Higher \/ (task'[m].target <= head'[m].to /\ task'[m].version <= head'[m].consumed)
    BY <1>10, <1>11, <1>12
  <1> QED BY <1>1, <1>2, <1>5, <1>6, <1>8, <1>10, <1>13 DEF Ended

\* So does the report of an error; only a refusal would make it a success.
LEMMA ReportEnds ==
    ASSUME IInv, NEW w \in Workers, NEW m \in Modes, ReportError(w, m),
           task[m].status = "running", task[m].token = rows[w][m].token,
           Higher \/ err[w] # "refused"
    PROVE  Ended(m)
  <1>1. PICK t \in TaskRow : t = task[m]
    BY DEF IInv, TypeOK
  <1>2. PICK due \in BOOLEAN : due = (err[w] = "stale")
    OBVIOUS
  <1>3. PICK no \in BOOLEAN : no = FALSE
    OBVIOUS
  <1>4. PICK s : s = CASE err[w] = "refused" -> "success" [] err[w] = "stale" -> "pending"
                      [] OTHER -> "failed"
    OBVIOUS
  <1>5. err[w] # "refused" => s # "success"
    BY <1>4
  <1>6. task'[m] = [t EXCEPT !.status = s, !.due = due,
                             !.token = 0, !.live = no, !.claimedTarget = 0, !.claimedVersion = 0]
    BY <1>1, <1>2, <1>3, <1>4 DEF ReportError, Reported, IInv, TypeOK
  <1>7. task'[m].live = no /\ task'[m].status = s
    BY <1>6 DEF TaskRow
  <1>8. ~(pc'[w] = pc[w] /\ rows'[w] = rows[w] /\ todo'[w] = todo[w])
    <2>1. pc[w] = "failing" /\ m \in todo[w]
      BY DEF ReportError
    <2>2. CASE todo[w] = {m}
      <3>1. pc'[w] = "idle"
        BY <2>2 DEF ReportError, IInv, TypeOK
      <3> QED BY <2>1, <3>1
    <2>3. CASE todo[w] # {m}
      <3>1. todo'[w] = todo[w] \ {m}
        BY <2>3 DEF ReportError, IInv, TypeOK
      <3> QED BY <2>1, <3>1
    <2> QED BY <2>2, <2>3
  <1> QED BY <1>3, <1>5, <1>7, <1>8 DEF Ended

\* Every step changes a task row in one of the three ways.
LEMMA TaskMoves ==
    ASSUME IInv, LiveRuns, [Next]_vars, NEW m \in Modes,
           Higher \/ \A w \in Workers : err[w] # "refused"
    PROVE  Untouched(m) \/ Rewritten(m) \/ Ended(m)
  <1>0. PICK t \in TaskRow : t = task[m]
    BY DEF IInv, TypeOK
  <1>00. task \in [Modes -> TaskRow] /\ (t.live => t.status = "running")
    BY <1>0 DEF IInv, TypeOK, LiveRuns
  <1>1. ASSUME task'[m] = task[m] PROVE Untouched(m)
    BY <1>1 DEF Untouched, LiveRuns
  <1>2. ASSUME NEW w \in Workers, Normalize(w) PROVE Untouched(m) \/ Rewritten(m)
    <2>1. CASE Higher /\ Normalized(m)
      <3>1. PICK no \in BOOLEAN : no = FALSE
        OBVIOUS
      <3>2. PICK new \in BOOLEAN : new = NewPeriod(m)
        <4>1. NewPeriod(m) \in BOOLEAN
          BY DEF NewPeriod
        <4> QED BY <4>1
      <3>3. PICK to : to = TargetEnd
        OBVIOUS
      <3>4. task'[m] = [t EXCEPT !.target = to,
                               !.status = IF new THEN "pending" ELSE "success",
                               !.due = new, !.token = 0, !.live = no, !.claimedTarget = 0]
        BY <1>0, <1>2, <2>1, <3>1, <3>2, <3>3 DEF Normalize
      <3>5. task'[m].live = no
        BY <3>4 DEF TaskRow
      <3> QED BY <2>1, <3>1, <3>5 DEF Rewritten, Normalized
    <2> QED BY <1>1, <1>2, <2>1 DEF Normalize
  <1>3. ASSUME NEW w \in Workers, Ensure(w) PROVE Untouched(m)
    <2>1. CASE rows[w][m].target # 0
      <3>1. task'[m] = Upserted(m, rows[w][m])
        BY <1>3, <2>1 DEF Ensure
      <3>2. PICK u : u = Upserted(m, rows[w][m])
        OBVIOUS
      <3>3. PICK status : status = IF t.status = "running" /\ t.live THEN "running" ELSE "pending"
        OBVIOUS
      <3>4. u.status = status /\ u.token = t.token /\ u.live = t.live
            /\ u.claimedTarget = t.claimedTarget /\ u.claimedVersion = t.claimedVersion
        BY <1>0, <3>2, <3>3 DEF Upserted, TaskRow
      <3> QED BY <1>0, <1>00, <3>1, <3>2, <3>3, <3>4 DEF Untouched
    <2> QED BY <1>1, <1>3, <2>1 DEF Ensure
  <1>4. ASSUME NEW w \in Workers, Claim(w) PROVE Untouched(m) \/ Rewritten(m)
    <2>1. CASE Claimable(m) /\ task'[m] = Claimed(m)
      <3>1. PICK u : u = Claimed(m)
        OBVIOUS
      <3>2. u.status = "running"
        BY <1>0, <3>1 DEF Claimed, TaskRow
      <3>3. ~(task[m].status = "running" /\ task[m].live)
        BY <2>1 DEF Claimable
      <3> QED BY <2>1, <3>1, <3>2, <3>3 DEF Rewritten
    <2> QED BY <1>1, <1>4, <2>1 DEF Claim
  <1>5. ASSUME NEW w \in Workers, Publish(w) PROVE Untouched(m) \/ Ended(m)
    <2>1. CASE m = plan[w].mode
      BY <1>5, <2>1, PublishEnds
    <2>2. CASE m # plan[w].mode
      <3>1. task'[m] = task[m]
        BY <1>00, <1>5, <2>2 DEF Publish
      <3> QED BY <1>1, <3>1
    <2> QED BY <2>1, <2>2
  <1>6. ASSUME NEW w \in Workers, NEW n \in Modes, ReportError(w, n) PROVE Untouched(m) \/ Ended(m)
    <2>1. CASE n = m /\ task[m].status = "running" /\ task[m].token = rows[w][m].token
      BY <1>6, <2>1, ReportEnds
    <2>2. CASE ~(n = m /\ task[m].status = "running" /\ task[m].token = rows[w][m].token)
      <3>1. task'[m] = task[m]
        BY <1>00, <1>6, <2>2 DEF ReportError
      <3> QED BY <1>1, <3>1
    <2> QED BY <2>1, <2>2
  <1>7. ASSUME NEW n \in Modes, Expire(n) \/ BecomeDue(n) PROVE Untouched(m)
    <2>1. CASE n # m
      <3>1. task'[m] = task[m]
        BY <1>00, <1>7, <2>1 DEF Expire, BecomeDue
      <3> QED BY <1>1, <3>1
    <2>2. CASE n = m /\ Expire(n)
      <3>1. PICK no \in BOOLEAN : no = FALSE
        OBVIOUS
      <3>2. task'[m] = [t EXCEPT !.live = no]
        BY <1>0, <1>00, <2>2, <3>1 DEF Expire
      <3>3. task'[m].live = no /\ task'[m].status = t.status /\ task'[m].token = t.token
            /\ task'[m].target = t.target /\ task'[m].version = t.version
            /\ task'[m].claimedTarget = t.claimedTarget
            /\ task'[m].claimedVersion = t.claimedVersion
        BY <3>2 DEF TaskRow
      <3> QED BY <1>0, <3>1, <3>3 DEF Untouched
    <2>3. CASE n = m /\ BecomeDue(n)
      <3>1. PICK yes \in BOOLEAN : yes = TRUE
        OBVIOUS
      <3>2. task'[m] = [t EXCEPT !.due = yes]
        BY <1>0, <1>00, <2>3, <3>1 DEF BecomeDue
      <3>3. task'[m].live = t.live /\ task'[m].status = t.status /\ task'[m].token = t.token
            /\ task'[m].target = t.target /\ task'[m].version = t.version
            /\ task'[m].claimedTarget = t.claimedTarget
            /\ task'[m].claimedVersion = t.claimedVersion
        BY <3>2 DEF TaskRow
      <3> QED BY <1>0, <1>00, <3>3 DEF Untouched
    <2> QED BY <1>7, <2>1, <2>2, <2>3
  <1>8. ASSUME NEW w \in Workers,
               \/ Discover(w) \/ NothingToClaim(w) \/ ReadBars(w)
               \/ \E n \in Modes : CheckHead(w, n)
               \/ PublishRejected(w) \/ Announce(w) \/ Fault(w) \/ Crash(w)
        PROVE  task' = task
    BY <1>8 DEF Discover, NothingToClaim, ReadBars, CheckHead, PublishRejected, Announce,
                Fault, Crash, db
  <1>9. ASSUME \/ \E S \in SUBSET Ends : WriteBars(S)
               \/ ClosePeriod \/ PlanRecompute \/ ReadRecompute \/ PublishRecompute
               \/ AbandonRecompute \/ UNCHANGED vars
        PROVE  task' = task
    BY <1>9 DEF WriteBars, ClosePeriod, PlanRecompute, ReadRecompute, PublishRecompute,
                AbandonRecompute, vars, db
  <1> QED BY <1>1, <1>2, <1>3, <1>4, <1>5, <1>6, <1>7, <1>8, <1>9 DEF Next, WorkerStep

\* At first there are no tasks and no claims.
LEMMA DoneInit == Init => DoneInv
  <1> SUFFICES ASSUME Init PROVE DoneInv
    OBVIOUS
  <1>1. \A m \in Modes : task[m].status = "none" /\ task[m].live = FALSE
    BY DEF Init, NoTask
  <1>2. \A w \in Workers : err[w] = "none" /\ \A m \in Modes : rows[w][m].token = 0
    BY DEF Init, NoRows, NoRow
  <1> QED BY <1>1, <1>2 DEF DoneInv, LiveRuns, WorkOK, SuccessIsDone

\* The second invariant is inductive on top of the first.
LEMMA DoneStep == IInv /\ DoneInv /\ [Next]_vars => DoneInv'
  <1> SUFFICES ASSUME IInv, DoneInv, [Next]_vars PROVE DoneInv'
    OBVIOUS
  <1>1. LiveRuns /\ (Higher \/ WorkOK)
    BY DEF DoneInv
  <1>2. \A m \in Modes : Untouched(m) \/ Rewritten(m) \/ Ended(m)
    BY <1>1, TaskMoves DEF WorkOK
  <1>3. LiveRuns'
    BY <1>2 DEF LiveRuns, Untouched, Rewritten, Ended
  <1>4. ASSUME ~Higher PROVE WorkOK'
    <2>1. WorkOK
      BY <1>1, <1>4
    <2>2. \A w \in Workers, m \in Modes :
             (rows'[w][m].token # 0 /\ head'[m].run = rows'[w][m].expRun)
                => Behind(head'[m], rows'[w][m])
      BY <1>4, <2>1, BehindStep
    <2>3. \A w \in Workers : err'[w] # "refused"
      BY <1>4, <2>1, ErrorsStep
    <2>4. ASSUME NEW m \in Modes, task'[m].status = "success"
          PROVE  task'[m].target <= head'[m].to /\ task'[m].version <= head'[m].consumed
      <3>1. CASE Untouched(m)
        <4>1. /\ task'[m].target = task[m].target /\ task'[m].version = task[m].version
              /\ task[m].target <= head[m].to /\ task[m].version <= head[m].consumed
          BY <1>4, <2>1, <2>4, <3>1 DEF Untouched, WorkOK, SuccessIsDone
        <4>2. [Advance]_headVars
          BY Simulates, StepAdvances DEF IInv
        <4>3. head[m].to <= head'[m].to /\ head[m].consumed <= head'[m].consumed
          <5>1. head[m].to \in Int /\ head[m].consumed \in Int
            BY DbTypes DEF IInv, Versions
          <5> QED BY <4>2, <5>1 DEF Advance, headVars
        <4>4. IInv'
          BY IInvStep
        <4>5. /\ task[m].target \in Int /\ task[m].version \in Int
              /\ head[m].to \in Int /\ head[m].consumed \in Int
              /\ head'[m].to \in Int /\ head'[m].consumed \in Int
          BY <4>4 DEF IInv, TypeOK, HeadTypeOK, HeadRow, TaskRow, Versions, Ends
        <4> QED BY <4>1, <4>3, <4>5
      <3>2. CASE Rewritten(m) \/ Ended(m)
        BY <1>4, <2>4, <3>2 DEF Rewritten, Ended
      <3> QED BY <1>2, <3>1, <3>2
    <2> QED BY <2>2, <2>3, <2>4 DEF WorkOK, SuccessIsDone
  <1> QED BY <1>3, <1>4 DEF DoneInv

\* While its lease is live, a claim changes only by a step of its holder.
ClaimUnderLease ==
    \A m \in Modes, w \in Workers :
        (/\ task[m].live /\ rows[w][m].token = task[m].token
         /\ UNCHANGED <<pc[w], rows[w], todo[w]>>)
            => /\ task'[m].token = task[m].token
               /\ task'[m].claimedTarget = task[m].claimedTarget
               /\ task'[m].claimedVersion = task[m].claimedVersion

\* A step that does not move the holder of a live lease does not move its claim.
LEMMA LeaseStep == IInv /\ DoneInv /\ [Next]_vars => [ClaimUnderLease]_vars
  <1> SUFFICES ASSUME IInv, DoneInv, [Next]_vars PROVE ClaimUnderLease
    OBVIOUS
  <1> SUFFICES ASSUME NEW m \in Modes, NEW w \in Workers,
                      task[m].live, rows[w][m].token = task[m].token,
                      pc'[w] = pc[w], rows'[w] = rows[w], todo'[w] = todo[w]
               PROVE  /\ task'[m].token = task[m].token
                      /\ task'[m].claimedTarget = task[m].claimedTarget
                      /\ task'[m].claimedVersion = task[m].claimedVersion
    BY DEF ClaimUnderLease
  <1>1. Untouched(m) \/ Rewritten(m) \/ Ended(m)
    BY TaskMoves DEF DoneInv, WorkOK
  <1>2. task[m].status = "running"
    BY DEF DoneInv, LiveRuns
  <1>3. ~Rewritten(m)
    BY <1>2 DEF Rewritten
  <1>4. ~Ended(m)
    <2> SUFFICES ASSUME NEW v \in Workers, task[m].token = rows[v][m].token PROVE v = w
      BY DEF Ended
    <2>1. task[m].token # 0
      BY <1>2 DEF IInv, OneClaimant
    <2> QED BY <2>1 DEF IInv, OneClaimant
  <1> QED BY <1>1, <1>3, <1>4 DEF Untouched

-----------------------------------------------------------------------------
(* The results.                                                              *)

\* The inductive invariant holds in every state of the stream.
THEOREM Invariant == Spec => []IInv
  BY IInvInit, IInvStep, PTL DEF Spec

(* Type correctness of the tail tasks, the workers and the heads.            *)
THEOREM TypeCorrect == Spec => []TypeOK
  <1>1. IInv => TypeOK
    BY DEF IInv
  <1> QED BY <1>1, Invariant, PTL

(* The claim, read, compute and compare-and-swap of chan_c_stream, run by    *)
(* any number of workers among writers, recomputes, expired leases and       *)
(* crashes, implements publication in one step.                              *)
THEOREM StreamImplementsHead == Spec => Implements
  <1>1. IInv /\ [Next]_vars => [HeadNext]_headVars
    BY Simulates
  <1>2. Init => HeadInit
    BY DEF Init
  <1> QED BY <1>1, <1>2, Invariant, PTL DEF Spec, HeadSpec, Implements

(* No publication of the stream misses a bar it says it consumed.            *)
THEOREM StreamNeverMisses == Spec => []NothingMissed
  <1>1. IInv => NothingMissed
    BY DEF IInv, HeadInv
  <1> QED BY <1>1, Invariant, PTL

(* No publication of the stream contains a bar newer than it says.           *)
THEOREM StreamNeverNewer == Spec => []NothingNewer
  <1>1. IInv => NothingNewer
    BY DEF IInv, HeadInv
  <1> QED BY <1>1, Invariant, PTL

(* Whatever workers and recomputes race, a published head never goes back.   *)
THEOREM StreamAdvances == Spec => HeadAdvances
  <1>1. Spec => HeadSpec
    BY StreamImplementsHead DEF Implements
  <1> QED BY <1>1, AlwaysAdvances

(* Two workers never hold the same claim of a task, for any number of both.  *)
THEOREM ClaimsExclusive == Spec => []OneClaimant
  <1>1. IInv => OneClaimant
    BY DEF IInv
  <1> QED BY <1>1, Invariant, PTL

(* The second invariant holds in every state: claims are for work not done, *)
(* no job is refused, and success means done.                               *)
THEOREM WorkInvariant == Spec => []DoneInv
  BY Invariant, DoneInit, DoneStep, PTL DEF Spec

(* A task that is left in success has no work left: outside 1w and 1m, the   *)
(* head reaches its target and has consumed its version, whatever was asked  *)
(* for while the task ran.                                                   *)
THEOREM SuccessMeansDone == Spec => []SuccessIsDone
  <1>1. DoneInv => SuccessIsDone
    BY DEF DoneInv, WorkOK, SuccessIsDone
  <1> QED BY <1>1, WorkInvariant, PTL

(* While the lease of a task is live, its claim is ended or changed only by  *)
(* the worker that holds it, for any number of workers.                      *)
THEOREM LeasesProtect == Spec => LiveLeaseKept
  <1>1. Spec => [][ClaimUnderLease]_vars
    BY Invariant, WorkInvariant, LeaseStep, PTL DEF Spec
  <1> QED BY <1>1 DEF LiveLeaseKept, ClaimUnderLease
=============================================================================
