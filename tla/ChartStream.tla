------------------------------ MODULE ChartStream ------------------------------
(* The live Chan overlay of one chart: the announcements of the stream       *)
(* (chan_c_stream.py, realtime_publisher.py), one subscription of one        *)
(* websocket (services/api/app/routes/chart_ws.py), and the browser's bridge *)
(* (chanRealtimeOverlayBridge.ts, ChartWorkspace.tsx, chartDataManager.ts)   *)
(* with its HTTP resync.  A version is the run of each stream that is shown; *)
(* what a run shows of a stream in the subscribed window is one value, Shape.*)
(* The rounds of the producer that find nothing new, error replies and       *)
(* objects outside the window leave no trace here.                           *)
EXTENDS Integers, Sequences

CONSTANTS
    Streams,      \* the (level, mode) pairs of the subscription
    MaxRun,       \* bound: runs published
    Shape,        \* [1 .. MaxRun -> Nat \ {0}]: the stable objects of a run
    OutboxSize,   \* MAX_CHART_OUTBOX_MESSAGES
    Recomputes,   \* full recomputes replace heads, without an announcement
    MaxUpsets     \* bound: K-line writes that hide a head, and failures, together

ASSUME RunsAssumption == MaxRun \in Nat \ {0} /\ Shape \in [1 .. MaxRun -> Nat \ {0}]
ASSUME SizeAssumption == OutboxSize \in Nat \ {0}
ASSUME SwitchAssumption == Recomputes \in BOOLEAN
ASSUME BoundAssumption == MaxUpsets \in Nat

VARIABLES
    head,    \* the published run of each stream
    hidden,  \* the streams whose head is behind the watermark
    run,     \* the last run published
    counter, \* chan:head_sequence of each stream, in Redis
    jobs,    \* publications not yet announced
    conn,    \* the socket: down, or how its producer works: redis, polling, off
    channel, \* head events the producer's Redis subscription has buffered
    prod,    \* the producer: where it is, its event, the decision on it, its message
    sub,     \* _ChartSubscription
    outbox,  \* _ChartSender's queue and the network
    client,  \* the bridge's Entry
    http,    \* the fetchFresh in flight, and whether the last one failed
    upsets   \* how many writes and failures there were

db == <<head, hidden, run>>
redis == <<counter, jobs>>
server == <<conn, prod, sub>>
vars == <<db, redis, server, channel, outbox, client, http, upsets>>

Runs == 1 .. MaxRun
Versions == [Streams -> -1 .. MaxRun]
None == [s \in Streams |-> -1]
Empty == [s \in Streams |-> 0]

\* get_windowed_module_c_overlay_db: all heads of one snapshot, or an empty overlay.
Overlay == IF hidden = {} THEN head ELSE Empty

\* overlay_objects: what a version shows of each stream in the window, 0 for nothing.
Objects(v) == [s \in Streams |-> IF v[s] > 0 THEN Shape[v[s]] ELSE 0]
Kept == -1

\* diff_objects
Diff(base, v) == [s \in Streams |-> IF Objects(base)[s] = Objects(v)[s] THEN Kept ELSE Objects(v)[s]]
Applied(objects, changes) ==
    [s \in Streams |-> IF changes[s] = Kept THEN objects[s] ELSE changes[s]]

NoEvent == [run |-> 0, seq |-> 0]
NoChange == [s \in Streams |-> Kept]
NoMessage == [type |-> "none", seq |-> 0, version |-> None, base |-> None, changes |-> NoChange]
NewSub == [version |-> None, seq |-> 0, sources |-> [s \in Streams |-> NoEvent],
           pending |-> [s \in Streams |-> 0]]
Waiting == [pc |-> "wait", of |-> {}, event |-> NoEvent, decision |-> "poll",
            message |-> NoMessage, then |-> "wait"]
NoFetch == [pc |-> "none", version |-> None, failed |-> FALSE]

Init ==
    /\ head = [s \in Streams |-> 1]
    /\ hidden = {}
    /\ run = 1
    /\ counter = [s \in Streams |-> 0]
    /\ jobs = {}
    /\ conn = "redis"
    /\ channel = <<>>
    /\ prod = Waiting
    /\ sub = NewSub
    /\ outbox = <<>>
    /\ client = [version |-> head, objects |-> Objects(head), seen |-> 0, pending |-> FALSE]
    /\ http = NoFetch
    /\ upsets = 0

Upset ==
    /\ upsets < MaxUpsets
    /\ upsets' = upsets + 1

-----------------------------------------------------------------------------
(* The database and the announcements.                                       *)

\* K-lines are written: the head is too far behind the watermark to be shown.
Ingest(s) ==
    /\ s \notin hidden /\ Upset
    /\ hidden' = hidden \union {s}
    /\ UNCHANGED <<head, run, redis, server, channel, outbox, client, http>>

\* The stream publishes a head, which has caught up with the watermark.
Publish(s) ==
    /\ run < MaxRun /\ run' = run + 1
    /\ head' = [head EXCEPT ![s] = run + 1]
    /\ hidden' = hidden \ {s}
    /\ jobs' = jobs \union {[stream |-> s, run |-> run + 1, seq |-> 0]}
    /\ UNCHANGED <<counter, server, channel, outbox, client, http, upsets>>

\* A full recompute publishes a head; it announces nothing.
PublishQuietly(s) ==
    /\ Recomputes
    /\ run < MaxRun /\ run' = run + 1
    /\ head' = [head EXCEPT ![s] = run + 1]
    /\ hidden' \in {hidden, hidden \ {s}}
    /\ UNCHANGED <<redis, server, channel, outbox, client, http, upsets>>

\* publish_chan_head_update, first half: INCR.
Incr(j) ==
    /\ j.seq = 0
    /\ counter' = [counter EXCEPT ![j.stream] = @ + 1]
    /\ jobs' = (jobs \ {j}) \union {[j EXCEPT !.seq = counter[j.stream] + 1]}
    /\ UNCHANGED <<db, server, channel, outbox, client, http, upsets>>

\* PUBLISH reaches the connections that are subscribed at that moment.
Deliver(j) ==
    channel' = IF conn = "redis"
               THEN Append(channel, [stream |-> j.stream, run |-> j.run, seq |-> j.seq])
               ELSE channel

Announce(j) ==
    /\ j.seq # 0
    /\ Deliver(j)
    /\ jobs' = jobs \ {j}
    /\ UNCHANGED <<db, counter, server, outbox, client, http, upsets>>

(* Redis does not answer: the event may have been delivered, and is announced*)
(* again under a new sequence; or the attempts are used up, or the process   *)
(* dies.                                                                     *)
AnnounceFails(j) ==
    /\ Upset
    /\ (j.seq # 0 /\ Deliver(j)) \/ UNCHANGED channel
    /\ jobs' \in {jobs \ {j}, (jobs \ {j}) \union {[j EXCEPT !.seq = 0]}}
    /\ UNCHANGED <<db, counter, server, outbox, client, http>>

-----------------------------------------------------------------------------
(* The producer of the connection (_publish_chan_updates).                   *)

\* _accept_source_event
Decision(s, event) ==
    LET previous == sub.sources[s]
    IN IF previous # NoEvent /\ (event.seq <= previous.seq \/ event.run = previous.run) THEN "ignore"
       ELSE IF previous # NoEvent /\ event.seq # previous.seq + 1 THEN "gap"
       ELSE "next"

Accepted(s, event) ==
    [sub.sources EXCEPT ![s] = IF event.seq > @.seq THEN event ELSE @]

Resync(seq) == [NoMessage EXCEPT !.type = "resync", !.seq = seq]

\* An event arrives; after a gap in the source sequence a resync is asked for first.
TakeEvent ==
    /\ conn = "redis" /\ prod.pc = "wait" /\ channel # <<>>
    /\ LET s == Head(channel).stream
           event == [run |-> Head(channel).run, seq |-> Head(channel).seq]
           decision == Decision(s, event)
           taken == [Waiting EXCEPT !.of = {s}, !.event = event, !.decision = decision, !.pc = "build"]
       IN CASE decision = "ignore" ->
                  /\ sub' = [sub EXCEPT !.sources = Accepted(s, event)]
                  /\ UNCHANGED prod
            [] decision = "next" ->
                  /\ sub' = [sub EXCEPT !.sources = Accepted(s, event)]
                  /\ prod' = taken
            [] decision = "gap" ->
                  /\ sub' = [sub EXCEPT !.sources = Accepted(s, event),
                                        !.pending[s] = event.run, !.seq = @ + 1]
                  /\ prod' = [taken EXCEPT !.pc = "send", !.message = Resync(sub.seq + 1),
                                           !.then = "build"]
    /\ channel' = Tail(channel)
    /\ UNCHANGED <<db, redis, conn, outbox, client, http, upsets>>

\* CHAN_SNAPSHOT_INTERVAL_SECONDS pass without an event.
Polls == prod.pc = "wait" /\ (conn = "polling" \/ (conn = "redis" /\ channel = <<>>))

\* _send_overlay_event: a delta against what was sent last, or everything.
OverlayMessage(v, force) ==
    IF sub.version = None \/ force \/ Diff(sub.version, v) = NoChange
    THEN [type |-> "snapshot", seq |-> sub.seq + 1, version |-> v, base |-> None,
          changes |-> Objects(v)]
    ELSE [type |-> "delta", seq |-> sub.seq + 1, version |-> v, base |-> sub.version,
          changes |-> Diff(sub.version, v)]

\* _overlay_contains_source_head
Contains(v, s, r) == v[s] = r

\* Mutant: the pending heads are not cleared by the overlay that shows them.
StillOwedAfterAll(v) == {s \in Streams : sub.pending[s] # 0}

\* The heads the overlay must show before anything is sent again.
StillOwed(v) ==
    {s \in Streams : sub.pending[s] # 0 /\ s \notin prod.of /\ ~Contains(v, s, sub.pending[s])}

\* The head of the event is not in the overlay: it is owed.
BuildMismatch(v) ==
    /\ \E s \in prod.of :
          /\ ~Contains(v, s, prod.event.run)
          /\ sub' = [sub EXCEPT !.pending[s] = prod.event.run,
                                !.seq = IF prod.decision = "gap" THEN @ ELSE @ + 1]
    /\ prod' = IF prod.decision = "gap" THEN Waiting
               ELSE [Waiting EXCEPT !.pc = "send", !.message = Resync(sub.seq + 1)]

BuildOverlay(v) ==
    /\ \A s \in prod.of : Contains(v, s, prod.event.run)
    /\ LET pending == [s \in Streams |-> IF s \in prod.of THEN 0 ELSE sub.pending[s]]
           force == prod.decision = "gap" \/ \E s \in Streams : pending[s] # 0
       IN IF StillOwed(v) # {}
          THEN sub' = [sub EXCEPT !.pending = pending] /\ prod' = Waiting
          ELSE IF sub.version = v /\ ~force
          THEN sub' = [sub EXCEPT !.pending = NewSub.pending] /\ prod' = Waiting
          ELSE /\ sub' = [sub EXCEPT !.pending = NewSub.pending, !.seq = @ + 1]
               /\ prod' = [Waiting EXCEPT !.pc = "send", !.message = OverlayMessage(v, force)]

\* The rest of _send_chan_subscription_updates, from build_chan_overlay on.
Build ==
    /\ prod.pc = "build" \/ Polls
    /\ BuildMismatch(Overlay) \/ BuildOverlay(Overlay)
    /\ UNCHANGED <<db, redis, conn, channel, outbox, client, http, upsets>>

\* The query fails or finds no slot; the event was accepted already.
BuildFails ==
    /\ prod.pc = "build" \/ Polls
    /\ Upset
    /\ prod' = Waiting
    /\ UNCHANGED <<db, redis, conn, sub, channel, outbox, client, http>>

\* Mutant: a queue with its last place taken still has room.
RoomAtLimit == Len(outbox) <= OutboxSize

\* not self._outbox.full()
Room == Len(outbox) < OutboxSize

Send ==
    /\ prod.pc = "send" /\ Room
    /\ outbox' = Append(outbox, prod.message)
    /\ sub' = IF prod.message.type = "resync" THEN sub
              ELSE [sub EXCEPT !.version = prod.message.version]
    /\ prod' = [prod EXCEPT !.pc = prod.then, !.message = NoMessage, !.then = "wait"]
    /\ UNCHANGED <<db, redis, conn, channel, client, http, upsets>>

\* The queue stays full: the message is lost, its sequence is used.
SendTimesOut ==
    /\ prod.pc = "send" /\ ~Room /\ Upset
    /\ prod' = Waiting
    /\ UNCHANGED <<db, redis, conn, sub, channel, outbox, client, http>>

(* get_message raises, or the error report does not fit in the queue either: *)
(* the producer polls from now on; when it was polling already, it ends.     *)
Fallback ==
    /\ \/ conn = "redis" /\ prod.pc = "wait"
       \/ conn \in {"redis", "polling"} /\ prod.pc # "wait" /\ ~Room
    /\ Upset
    /\ conn' = IF conn = "redis" THEN "polling" ELSE "off"
    /\ channel' = <<>>
    /\ prod' = Waiting
    /\ UNCHANGED <<db, redis, sub, outbox, client, http>>

-----------------------------------------------------------------------------
(* The browser.                                                              *)

\* The socket closes: the handler's subscription and queue are gone.
Disconnect ==
    /\ conn # "down" /\ Upset
    /\ conn' = "down"
    /\ channel' = <<>> /\ outbox' = <<>>
    /\ prod' = Waiting /\ sub' = NewSub
    /\ UNCHANGED <<db, redis, client, http>>

\* replaySubscriptions and resetTransportEpoch; the server may find no Redis.
Reconnect ==
    /\ conn = "down"
    /\ conn' \in {"redis", "polling"}
    /\ client' = [client EXCEPT !.seen = 0, !.pending = FALSE]
    /\ UNCHANGED <<db, redis, prod, sub, channel, outbox, http, upsets>>

\* refreshHttp: one fetch at a time.
Fetch == http' = IF http.pc = "none" THEN [NoFetch EXCEPT !.pc = "asked"] ELSE http

InSequence(m) == client.seen = 0 \/ m.seq = client.seen + 1

\* Mutant: a delta is applied to whatever is shown.
FitsAlways(m) == m.type = "snapshot" \/ (m.type = "delta" /\ ~client.pending)

\* A snapshot, or a delta against the version that is shown.
Fits(m) ==
    m.type = "snapshot" \/ (m.type = "delta" /\ ~client.pending /\ m.base = client.version)

\* requestResync
RequestResync(m) ==
    /\ client' = [client EXCEPT !.seen = m.seq, !.pending = TRUE]
    /\ IF client.pending THEN UNCHANGED http ELSE Fetch

\* bridge.apply
Receive ==
    /\ outbox # <<>>
    /\ LET m == Head(outbox)
       IN IF m.seq <= client.seen THEN UNCHANGED <<client, http>>
          ELSE IF InSequence(m) /\ Fits(m)
          THEN /\ client' = [version |-> m.version, seen |-> m.seq,
                             objects |-> IF m.type = "snapshot" THEN m.changes
                                         ELSE Applied(client.objects, m.changes),
                             pending |-> FALSE]
               /\ UNCHANGED http
          ELSE RequestResync(m)
    /\ outbox' = Tail(outbox)
    /\ UNCHANGED <<db, redis, server, channel, upsets>>

\* ChanRealtimePollingGate, while the socket is down.
PollHttp ==
    /\ conn = "down" /\ http.pc = "none"
    /\ Fetch
    /\ UNCHANGED <<db, redis, server, channel, outbox, client, upsets>>

\* The overlay route reads the database.
HttpRead ==
    /\ http.pc = "asked"
    /\ http' = [http EXCEPT !.pc = "answered", !.version = Overlay]
    /\ UNCHANGED <<db, redis, server, channel, outbox, client, upsets>>

\* Mutant: the resync that was asked for is not over.
HydratedStillPending(v) == [client EXCEPT !.version = v, !.objects = Objects(v)]

\* hydrateHttp
Hydrated(v) == [client EXCEPT !.version = v, !.objects = Objects(v), !.pending = FALSE]

HttpAnswer ==
    /\ http.pc = "answered"
    /\ client' = Hydrated(http.version)
    /\ http' = NoFetch
    /\ UNCHANGED <<db, redis, server, channel, outbox, upsets>>

HttpFails ==
    /\ http.pc # "none" /\ Upset
    /\ http' = [NoFetch EXCEPT !.failed = TRUE]
    /\ UNCHANGED <<db, redis, server, channel, outbox, client>>

-----------------------------------------------------------------------------
ProducerStep == TakeEvent \/ Build \/ Send

Next ==
    \/ \E s \in Streams : Ingest(s) \/ Publish(s) \/ PublishQuietly(s)
    \/ \E j \in jobs : Incr(j) \/ Announce(j) \/ AnnounceFails(j)
    \/ ProducerStep \/ BuildFails \/ SendTimesOut \/ Fallback
    \/ Disconnect \/ Reconnect \/ Receive \/ PollHttp
    \/ HttpRead \/ HttpAnswer \/ HttpFails

Spec == Init /\ [][Next]_vars

(* The producer runs on (asyncio schedules it), the browser reads its socket *)
(* and reconnects; announcements, HTTP answers and new heads need not come.  *)
Fairness ==
    /\ WF_vars(ProducerStep) /\ WF_vars(Receive) /\ WF_vars(Reconnect)

FairSpec == Spec /\ Fairness

-----------------------------------------------------------------------------
Event == [run : 0 .. MaxRun, seq : Nat]
Announcement == [stream : Streams, run : Runs, seq : Nat]
Changes == [Streams -> Nat \union {Kept}]
Message == [type : {"none", "resync", "snapshot", "delta"}, seq : Nat, version : Versions,
            base : Versions, changes : Changes]
Producer == [pc : {"wait", "build", "send"}, of : SUBSET Streams, event : Event,
             decision : {"poll", "next", "gap"}, message : Message, then : {"wait", "build"}]
Subscription == [version : Versions, seq : Nat, sources : [Streams -> Event],
                 pending : [Streams -> 0 .. MaxRun]]
Entry == [version : Versions, objects : [Streams -> Nat], seen : Nat, pending : BOOLEAN]

TypeOK ==
    /\ head \in [Streams -> Runs] /\ hidden \subseteq Streams /\ run \in Runs
    /\ counter \in [Streams -> Nat]
    /\ jobs \subseteq Announcement
    /\ conn \in {"down", "redis", "polling", "off"}
    /\ channel \in Seq(Announcement)
    /\ prod \in Producer
    /\ sub \in Subscription
    /\ outbox \in Seq(Message) /\ Len(outbox) <= OutboxSize
    /\ client \in Entry
    /\ http \in [pc : {"none", "asked", "answered"}, version : Versions, failed : BOOLEAN]
    /\ upsets \in 0 .. MaxUpsets

(* What the chart shows is exactly what the version it claims to show        *)
(* contains, whatever deltas, snapshots, HTTP answers and reconnects crossed.*)
Consistent == client.objects = Objects(client.version)

(* The browser ignores deltas only while an HTTP overlay is on its way; only *)
(* a fetch that failed leaves it waiting for the next snapshot.              *)
ResyncUnderWay == client.pending => http.pc # "none" \/ http.failed

\* A head the server was told of and does not see in the overlay.
Owed(s) == sub.pending[s] # 0 /\ ~Contains(Overlay, s, sub.pending[s])

(* When publications pause, the server has sent the newest overlay of every  *)
(* stream, whatever was lost, failed, timed out or raced; only a head it was *)
(* told of and does not see can keep it, or a producer that ended.           *)
CatchesUp == <>[](conn = "off" \/ sub.version = Overlay \/ \E s \in Streams : Owed(s))

(* chart_ws.py:465 says of a Redis failure: "Keep the last valid             *)
(* per-subscription state while polling recovers Redis loss."  Then a        *)
(* connection that polls ends up with the newest overlay.                    *)
PollingRecovers == <>[](conn = "polling" /\ hidden = {} => sub.version = Overlay)
=============================================================================
