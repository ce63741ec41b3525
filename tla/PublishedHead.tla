---------------------------- MODULE PublishedHead ----------------------------
(* What a published Chan head promises, without the tail tasks, leases and    *)
(* workers that keep it.  A scope (one symbol, one native timeframe) has its  *)
(* canonical K-lines and an ingest watermark whose change_version counts the  *)
(* committed changes.  One head per mode names the run that is published, the *)
(* bar it reaches and the input version it consumed.  Here a head is advanced *)
(* in ONE step that reads the K-lines, computes and publishes; TailStream     *)
(* extends this module: it spreads that step over a claim, a read, a          *)
(* computation and a compare-and-swap, and implements HeadSpec.               *)
EXTENDS Integers

CONSTANTS
    Modes,      \* confirmed, predictive: one head each
    MaxEnd,     \* the bars of the scope are numbered 1 .. MaxEnd by bar end
    TailConfig, \* config_hash of the heads the stream publishes
    BaseConfig, \* config_hash of the heads a full recompute publishes: the same
                \* MODULE_C_CONFIG_HASH, unless it runs the next release
    MaxVersion, \* bound: committed changes of the K-lines
    MaxRun      \* bound: runs inserted (chan_c_runs ids are 1 .. MaxRun)

ASSUME EndAssumption == MaxEnd \in Nat \ {0}
ASSUME VersionAssumption == MaxVersion \in Nat \ {0}
ASSUME RunAssumption == MaxRun \in Nat \ {0}

VARIABLES
    klines,  \* [Ends -> change_version of the last write of that bar, 0: no row]
    ingest,  \* scheme2_ingest_watermarks: last_bar_end and change_version
    head     \* scheme2_chan_c_published_heads, one row per mode

headVars == <<klines, ingest, head>>

Ends == 1 .. MaxEnd
Runs == 1 .. MaxRun
Versions == 0 .. MaxVersion

\* The bars a run was computed from: the version of each bar it has seen.
Input == [Ends -> Versions]

\* Mutant: the bar after the anchor is inherited too.
CombinePastAnchor(prefix, anchor, read, to) ==
    [e \in Ends |-> IF e > to THEN 0 ELSE IF e <= anchor + 1 THEN prefix[e] ELSE read[e]]

(* The prefix (up to the anchor) comes from the run that is replaced, the    *)
(* tail from `read`; nothing beyond `to` belongs to the run.                 *)
Combine(prefix, anchor, read, to) ==
    [e \in Ends |-> IF e > to THEN 0 ELSE IF e <= anchor THEN prefix[e] ELSE read[e]]

HeadRow == [run : Runs, to : Ends, consumed : Versions, anchor : Ends,
            from : 0 .. MaxEnd, online : BOOLEAN, config : {TailConfig, BaseConfig}, input : Input]

(* A committed write of the canonical K-lines: the bars it changes carry the *)
(* new version, and the watermark advances with them in one transaction.     *)
CommitBars(S) ==
    /\ ingest.version < MaxVersion
    /\ klines' = [e \in Ends |-> IF e \in S THEN ingest.version + 1 ELSE klines[e]]
    /\ \E last \in S \cup {ingest.last} :
          /\ \A e \in S \cup {ingest.last} : e <= last
          /\ ingest' = [last |-> last, version |-> ingest.version + 1]
    /\ UNCHANGED head

\* Newer(h, to, version): publishing up to `to` from `version` advances row h.
Newer(h, to, version) ==
    \/ h.to < to /\ h.consumed <= version
    \/ h.to = to /\ h.consumed < version

\* Mutant: a tail without bars is published too.
TailPublishEmpty(m) ==
    \E id \in Runs, from \in 0 .. MaxEnd, to \in 0 .. MaxEnd, anchor \in Ends :
        /\ id > head[m].run
        /\ head' = [head EXCEPT ![m] =
              [run |-> id, to |-> to, consumed |-> ingest.version,
               anchor |-> anchor, from |-> from, online |-> TRUE,
               config |-> TailConfig,
               input |-> Combine(head[m].input, from, klines, to)]]
        /\ UNCHANGED <<klines, ingest>>

(* The head is advanced from the K-lines as they are now: everything after   *)
(* some bar `from` is recomputed, what is before it is inherited.            *)
TailPublish(m) ==
    \E id \in Runs, from \in 0 .. MaxEnd, to \in Ends, anchor \in Ends :
        /\ id > head[m].run
        /\ klines[to] # 0
        /\ Newer(head[m], to, ingest.version)
        /\ head' = [head EXCEPT ![m] =
              [run |-> id, to |-> to, consumed |-> ingest.version,
               anchor |-> anchor, from |-> from, online |-> TRUE,
               config |-> TailConfig,
               input |-> Combine(head[m].input, from, klines, to)]]
        /\ UNCHANGED <<klines, ingest>>

\* Mutant: an empty or older target replaces the head too.
ReplaceHeadsAnyEnd(S, id, to, anchor, read) ==
    /\ \A m \in S :
          /\ id > head[m].run
          /\ \A e \in 1 .. to : klines[e] <= head[m].consumed => read[e] = klines[e]
    /\ head' = [m \in Modes |->
          IF m \in S
          THEN [run |-> id, to |-> to, consumed |-> head[m].consumed,
                anchor |-> anchor, from |-> 0, online |-> FALSE, config |-> BaseConfig,
                input |-> read]
          ELSE head[m]]
    /\ UNCHANGED <<klines, ingest>>

(* A full recompute replaces the rows of some modes by one run over all bars *)
(* it read, up to `to`.  It leaves consumed as it is, and it must not have   *)
(* missed a bar that the replaced head had consumed.                         *)
ReplaceHeads(S, id, to, anchor, read) ==
    /\ \A m \in S :
          /\ id > head[m].run
          /\ head[m].to <= to
          /\ \A e \in 1 .. to : klines[e] <= head[m].consumed => read[e] = klines[e]
    /\ head' = [m \in Modes |->
          IF m \in S
          THEN [run |-> id, to |-> to, consumed |-> head[m].consumed,
                anchor |-> anchor, from |-> 0, online |-> FALSE, config |-> BaseConfig,
                input |-> read]
          ELSE head[m]]
    /\ UNCHANGED <<klines, ingest>>

RecomputePublish(S) ==
    \E id \in Runs, to \in Ends, anchor \in Ends, read \in Input :
        ReplaceHeads(S, id, to, anchor, read)

\* The scope is loaded and a baseline recompute has published it once.
HeadInit ==
    \E last \in Ends :
        /\ klines = [e \in Ends |-> IF e <= last THEN 1 ELSE 0]
        /\ ingest = [last |-> last, version |-> 1]
        /\ head \in [Modes -> [run : {1}, to : {last}, consumed : {0}, anchor : 1 .. last,
                               from : {0}, online : {FALSE}, config : {BaseConfig},
                               input : {klines}]]

HeadNext ==
    \/ \E S \in SUBSET Ends : S # {} /\ CommitBars(S)
    \/ \E m \in Modes : TailPublish(m)
    \/ \E S \in SUBSET Modes : RecomputePublish(S)

HeadSpec == HeadInit /\ [][HeadNext]_headVars

-----------------------------------------------------------------------------
HeadTypeOK ==
    /\ klines \in Input
    /\ ingest \in [last : Ends, version : Versions]
    /\ head \in [Modes -> HeadRow]

(* No lost update.  Every bar after the anchor whose last change is at or    *)
(* before the version a head says it consumed is in the head's input as it   *)
(* is in the K-lines.                                                        *)
NothingMissed ==
    \A m \in Modes : \A e \in Ends :
        (e > head[m].from /\ e <= head[m].to /\ klines[e] <= head[m].consumed)
            => head[m].input[e] = klines[e]

(* The consumed version is exact for heads the stream publishes: nothing     *)
(* newer than the consumed version leaked into the recomputed tail.          *)
NothingNewer ==
    \A m \in Modes : \A e \in Ends :
        (head[m].online /\ e > head[m].from) => head[m].input[e] <= head[m].consumed

(* A published head never goes back: not in the bar it reaches, not in the   *)
(* version it consumed; run numbers only grow.                               *)
HeadAdvances ==
    [][\A m \in Modes :
          /\ head[m].run <= head'[m].run
          /\ head[m].to <= head'[m].to
          /\ head[m].consumed <= head'[m].consumed]_headVars
=============================================================================
