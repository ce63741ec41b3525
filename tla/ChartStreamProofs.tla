--------------------------- MODULE ChartStreamProofs ---------------------------
(* Theorems of ChartStream, for any streams, runs, queue size and number of  *)
(* upsets: the types, that the objects shown are those of the version shown, *)
(* and that a resync the browser waits for is under way.                     *)
EXTENDS ChartStream, TLAPS

-----------------------------------------------------------------------------
(* The inductive invariant.  What the browser shows is right because every   *)
(* message on its way carries what it claims to carry.                       *)

Carries(m) ==
    /\ m.type = "snapshot" => m.changes = Objects(m.version)
    /\ m.type = "delta" => m.changes = Diff(m.base, m.version)

MessagesOK ==
    /\ Carries(prod.message)
    /\ \A i \in 1 .. Len(outbox) : Carries(outbox[i])

IInv == TypeOK /\ MessagesOK /\ Consistent /\ ResyncUnderWay

-----------------------------------------------------------------------------
(* Versions and what they show.                                              *)

LEMMA Constants ==
    /\ None \in Versions /\ Empty \in Versions /\ NoChange \in Changes
    /\ NoEvent \in Event /\ NoMessage \in Message /\ NewSub \in Subscription
    /\ Waiting \in Producer
  <1>1. MaxRun \in Nat /\ MaxRun >= 1
    BY RunsAssumption
  <1>2. -1 \in -1 .. MaxRun /\ 0 \in -1 .. MaxRun /\ 0 \in 0 .. MaxRun /\ 0 \in Nat
    BY <1>1
  <1>3. None \in Versions /\ Empty \in Versions
    BY <1>2 DEF None, Empty, Versions
  <1>4. NoChange \in Changes
    BY DEF NoChange, Changes
  <1>5. NoEvent \in Event
    BY <1>2 DEF NoEvent, Event
  <1>6. NoMessage \in Message
    BY <1>2, <1>3, <1>4 DEF NoMessage, Message
  <1>7. NewSub \in Subscription
    BY <1>2, <1>3, <1>5 DEF NewSub, Subscription
  <1>8. Waiting \in Producer
    BY <1>5, <1>6 DEF Waiting, Producer
  <1> QED BY <1>3, <1>4, <1>5, <1>6, <1>7, <1>8

LEMMA ObjectsType ==
    ASSUME NEW v \in Versions
    PROVE  Objects(v) \in [Streams -> Nat]
  <1>1. SUFFICES ASSUME NEW s \in Streams, v[s] > 0
                 PROVE  Shape[v[s]] \in Nat
    BY DEF Objects
  <1>2. v[s] \in 1 .. MaxRun
    BY <1>1, RunsAssumption DEF Versions
  <1> QED BY <1>2, RunsAssumption

LEMMA DiffType ==
    ASSUME NEW v \in Versions, NEW b
    PROVE  Diff(b, v) \in Changes
  BY ObjectsType DEF Diff, Changes

LEMMA ChangesType == ASSUME NEW v \in Versions PROVE Objects(v) \in Changes
  BY ObjectsType DEF Changes

(* What diff_objects takes out of two versions, applied to the first, gives  *)
(* the second.                                                               *)
LEMMA DiffApplies ==
    ASSUME NEW v \in Versions, NEW b
    PROVE  Applied(Objects(b), Diff(b, v)) = Objects(v)
  <1>1. ASSUME NEW s \in Streams
        PROVE  (IF Diff(b, v)[s] = Kept THEN Objects(b)[s] ELSE Diff(b, v)[s]) = Objects(v)[s]
    <2>1. Objects(v)[s] # Kept
      BY ObjectsType DEF Kept
    <2>2. Diff(b, v)[s] = IF Objects(b)[s] = Objects(v)[s] THEN Kept ELSE Objects(v)[s]
      BY DEF Diff
    <2> QED BY <2>1, <2>2
  <1>2. Applied(Objects(b), Diff(b, v)) = [s \in Streams |-> Objects(v)[s]]
    BY <1>1 DEF Applied
  <1> QED BY <1>2 DEF Objects

LEMMA OverlayType == TypeOK => Overlay \in Versions
  BY Constants, RunsAssumption DEF TypeOK, Overlay, Versions, Runs

-----------------------------------------------------------------------------
(* The producer.                                                             *)

LEMMA MessageTypes ==
    ASSUME TypeOK, NEW v \in Versions, NEW force \in BOOLEAN
    PROVE  /\ OverlayMessage(v, force) \in Message /\ Carries(OverlayMessage(v, force))
           /\ Resync(sub.seq + 1) \in Message /\ Carries(Resync(sub.seq + 1))
  <1>1. sub.seq + 1 \in Nat /\ sub.version \in Versions /\ None \in Versions
    BY Constants DEF TypeOK, Subscription
  <1>2. Objects(v) \in Changes /\ Diff(sub.version, v) \in Changes
    BY ChangesType, DiffType
  <1>3. OverlayMessage(v, force) \in Message /\ Carries(OverlayMessage(v, force))
    BY <1>1, <1>2 DEF OverlayMessage, Message, Carries
  <1>4. Resync(sub.seq + 1) \in Message /\ Resync(sub.seq + 1).type = "resync"
    BY <1>1, Constants DEF Resync, Message
  <1> QED BY <1>3, <1>4 DEF Carries

LEMMA WaitingCarries == Carries(Waiting.message)
  BY DEF Carries, Waiting, NoMessage

LEMMA AcceptedType ==
    ASSUME TypeOK, NEW s \in Streams, NEW event \in Event
    PROVE  Accepted(s, event) \in [Streams -> Event]
  BY DEF TypeOK, Subscription, Accepted

LEMMA SubscriptionUpdated ==
    ASSUME NEW u \in Subscription, NEW f \in [Streams -> Event],
           NEW g \in [Streams -> 0 .. MaxRun], NEW n \in Nat
    PROVE  /\ [u EXCEPT !.pending = g] \in Subscription
           /\ [u EXCEPT !.pending = g, !.seq = n] \in Subscription
           /\ [u EXCEPT !.sources = f, !.pending = g, !.seq = n] \in Subscription
  BY DEF Subscription

LEMMA SubscriptionFields ==
    ASSUME NEW u \in Subscription
    PROVE  /\ u.seq \in Nat /\ u.seq + 1 \in Nat
           /\ u.pending \in [Streams -> 0 .. MaxRun] /\ u.sources \in [Streams -> Event]
  BY DEF Subscription

LEMMA TakeEventKeeps ==
    ASSUME TypeOK, MessagesOK, TakeEvent
    PROVE  prod' \in Producer /\ sub' \in Subscription /\ Carries(prod'.message)
           /\ channel' \in Seq(Announcement)
  <1> DEFINE a == Head(channel)
             event == [run |-> a.run, seq |-> a.seq]
             decision == Decision(a.stream, event)
             taken == [Waiting EXCEPT !.of = {a.stream}, !.event = event,
                                      !.decision = decision, !.pc = "build"]
  <1>1. a \in Announcement /\ channel' \in Seq(Announcement)
    BY DEF TypeOK, TakeEvent
  <1>2. a.stream \in Streams /\ event \in Event /\ a.run \in 0 .. MaxRun
    BY <1>1, RunsAssumption DEF Announcement, Event, Runs
  <1>3. Accepted(a.stream, event) \in [Streams -> Event]
    BY <1>2, AcceptedType
  <1>4. decision \in {"ignore", "next", "gap"}
    BY DEF Decision
  <1>5. sub \in Subscription /\ prod \in Producer /\ Carries(prod.message)
    BY DEF TypeOK, MessagesOK
  <1>6. Resync(sub.seq + 1) \in Message /\ Carries(Resync(sub.seq + 1))
    BY Constants, MessageTypes
  <1>7. decision # "ignore" => /\ taken \in Producer /\ taken.message = NoMessage
                               /\ [taken EXCEPT !.pc = "send", !.message = Resync(sub.seq + 1),
                                                !.then = "build"] \in Producer
    BY <1>2, <1>4, <1>6, Constants DEF Producer, Waiting
  <1>8. Carries(taken.message)
    BY WaitingCarries DEF Waiting
  <1>9. CASE decision = "ignore"
    BY <1>1, <1>3, <1>5, <1>9 DEF TakeEvent, Subscription
  <1>10. CASE decision = "next"
    <2>1. prod' = taken /\ sub' = [sub EXCEPT !.sources = Accepted(a.stream, event)]
      BY <1>10 DEF TakeEvent
    <2> QED BY <1>1, <1>3, <1>5, <1>7, <1>8, <1>10, <2>1 DEF Subscription
  <1>11. CASE decision = "gap"
    <2>1. /\ prod' = [taken EXCEPT !.pc = "send", !.message = Resync(sub.seq + 1), !.then = "build"]
          /\ sub' = [sub EXCEPT !.sources = Accepted(a.stream, event),
                                !.pending[a.stream] = event.run, !.seq = @ + 1]
      BY <1>11 DEF TakeEvent
    <2>2. sub' \in Subscription
      <3> DEFINE g == [sub.pending EXCEPT ![a.stream] = event.run]
      <3>1. g \in [Streams -> 0 .. MaxRun]
        BY <1>2, <1>5, SubscriptionFields
      <3>2. sub' = [sub EXCEPT !.sources = Accepted(a.stream, event), !.pending = g,
                              !.seq = sub.seq + 1]
        BY <1>5, <2>1 DEF Subscription
      <3>3. sub.seq + 1 \in Nat
        BY <1>5, SubscriptionFields
      <3> HIDE DEF g
      <3> QED BY <1>3, <1>5, <3>1, <3>2, <3>3, SubscriptionUpdated
    <2>3. prod'.message = Resync(sub.seq + 1)
      BY <2>1 DEF Waiting
    <2> QED BY <1>1, <1>6, <1>7, <1>11, <2>1, <2>2, <2>3
  <1> QED BY <1>4, <1>9, <1>10, <1>11

LEMMA BuildKeeps ==
    ASSUME TypeOK, MessagesOK, Build
    PROVE  prod' \in Producer /\ sub' \in Subscription /\ Carries(prod'.message)
  <1>1. Overlay \in Versions
    BY OverlayType
  <1>2. sub \in Subscription /\ prod \in Producer /\ prod.of \subseteq Streams
        /\ prod.event.run \in 0 .. MaxRun
    BY DEF TypeOK, Producer, Event
  <1>3. \A force \in BOOLEAN :
           /\ [Waiting EXCEPT !.pc = "send", !.message = OverlayMessage(Overlay, force)] \in Producer
           /\ Carries(OverlayMessage(Overlay, force))
    BY <1>1, MessageTypes, Constants DEF Producer, Waiting
  <1>4. /\ [Waiting EXCEPT !.pc = "send", !.message = Resync(sub.seq + 1)] \in Producer
        /\ Carries(Resync(sub.seq + 1))
    BY <1>1, MessageTypes, Constants DEF Producer, Waiting
  <1>5. NewSub.pending \in [Streams -> 0 .. MaxRun]
    BY Constants DEF Subscription
  <1>6. CASE BuildMismatch(Overlay)
    <2>1. sub' \in Subscription
      <3>1. PICK s \in prod.of :
               sub' = [sub EXCEPT !.pending[s] = prod.event.run,
                                  !.seq = IF prod.decision = "gap" THEN @ ELSE @ + 1]
        BY <1>6 DEF BuildMismatch
      <3> DEFINE g == [sub.pending EXCEPT ![s] = prod.event.run]
                 n == IF prod.decision = "gap" THEN sub.seq ELSE sub.seq + 1
      <3>2. g \in [Streams -> 0 .. MaxRun] /\ n \in Nat
        BY <1>2, SubscriptionFields
      <3>3. sub' = [sub EXCEPT !.pending = g, !.seq = n]
        BY <1>2, <3>1 DEF Subscription
      <3> HIDE DEF g, n
      <3> QED BY <1>2, <3>2, <3>3, SubscriptionUpdated, SubscriptionFields
    <2>2. \/ prod' = Waiting
          \/ prod' = [Waiting EXCEPT !.pc = "send", !.message = Resync(sub.seq + 1)]
      BY <1>6 DEF BuildMismatch
    <2>3. [Waiting EXCEPT !.pc = "send", !.message = Resync(sub.seq + 1)].message = Resync(sub.seq + 1)
      BY DEF Waiting
    <2> QED BY <1>4, <2>1, <2>2, <2>3, Constants, WaitingCarries
  <1>7. CASE BuildOverlay(Overlay)
    <2> DEFINE pending == [s \in Streams |-> IF s \in prod.of THEN 0 ELSE sub.pending[s]]
               force == prod.decision = "gap" \/ \E s \in Streams : pending[s] # 0
    <2>1. pending \in [Streams -> 0 .. MaxRun]
      BY <1>2, RunsAssumption DEF Subscription
    <2>2. \/ sub' = [sub EXCEPT !.pending = pending] /\ prod' = Waiting
          \/ sub' = [sub EXCEPT !.pending = NewSub.pending] /\ prod' = Waiting
          \/ /\ sub' = [sub EXCEPT !.pending = NewSub.pending, !.seq = @ + 1]
             /\ prod' = [Waiting EXCEPT !.pc = "send", !.message = OverlayMessage(Overlay, force)]
      BY <1>7 DEF BuildOverlay
    <2>3. sub' \in Subscription
      <3>1. sub.seq + 1 \in Nat /\ sub.sources \in [Streams -> Event]
        BY <1>2, SubscriptionFields
      <3>2. \A g \in [Streams -> 0 .. MaxRun] :
               /\ [sub EXCEPT !.pending = g] \in Subscription
               /\ [sub EXCEPT !.pending = g, !.seq = sub.seq + 1] \in Subscription
        BY <1>2, <3>1, SubscriptionUpdated
      <3> HIDE DEF pending, force
      <3>3. [sub EXCEPT !.pending = NewSub.pending, !.seq = @ + 1]
              = [sub EXCEPT !.pending = NewSub.pending, !.seq = sub.seq + 1]
        BY <1>2 DEF Subscription
      <3> QED BY <1>5, <2>1, <2>2, <3>2, <3>3
    <2>4. force \in BOOLEAN
      OBVIOUS
    <2>5. [Waiting EXCEPT !.pc = "send", !.message = OverlayMessage(Overlay, force)].message
            = OverlayMessage(Overlay, force)
      BY DEF Waiting
    <2> QED BY <1>3, <2>2, <2>3, <2>4, <2>5, Constants, WaitingCarries
  <1> QED BY <1>6, <1>7 DEF Build

-----------------------------------------------------------------------------
(* Types.                                                                    *)

LEMMA TypeInit == Init => TypeOK
  <1> SUFFICES ASSUME Init PROVE TypeOK
    OBVIOUS
  <1>1. 1 \in Runs /\ MaxRun \in Nat /\ OutboxSize \in Nat /\ 0 \in 0 .. MaxUpsets
    BY RunsAssumption, SizeAssumption, BoundAssumption DEF Runs
  <1>2. head \in [Streams -> Runs] /\ head \in Versions
    BY <1>1 DEF Init, Versions, Runs
  <1>3. client \in Entry
    BY <1>2, ObjectsType DEF Init, Entry
  <1>4. http \in [pc : {"none", "asked", "answered"}, version : Versions, failed : BOOLEAN]
    BY Constants DEF Init, NoFetch
  <1>5. outbox \in Seq(Message) /\ Len(outbox) <= OutboxSize /\ channel \in Seq(Announcement)
    BY <1>1 DEF Init
  <1> QED BY <1>1, <1>2, <1>3, <1>4, <1>5, Constants DEF Init, TypeOK

\* The database, the counters and the announcements.
DbTypeOK ==
    /\ head \in [Streams -> Runs] /\ hidden \subseteq Streams /\ run \in Runs
    /\ counter \in [Streams -> Nat] /\ jobs \subseteq Announcement
    /\ channel \in Seq(Announcement)

LEMMA DeliverType ==
    ASSUME DbTypeOK, NEW j \in jobs, Deliver(j)
    PROVE  channel' \in Seq(Announcement)
  <1>1. [stream |-> j.stream, run |-> j.run, seq |-> j.seq] \in Announcement
    BY DEF DbTypeOK, Announcement
  <1> QED BY <1>1 DEF DbTypeOK, Deliver

LEMMA DbKept ==
    ASSUME TypeOK, MessagesOK, Next
    PROVE  DbTypeOK'
  <1>1. DbTypeOK
    BY DEF TypeOK, DbTypeOK
  <1>2. ASSUME NEW s \in Streams, Ingest(s) PROVE DbTypeOK'
    BY <1>1, <1>2 DEF Ingest, DbTypeOK, redis, server
  <1>3. ASSUME NEW s \in Streams, Publish(s) PROVE DbTypeOK'
    <2>1. run + 1 \in Runs /\ head' \in [Streams -> Runs]
      BY <1>1, <1>3, RunsAssumption DEF Publish, DbTypeOK, Runs
    <2>2. [stream |-> s, run |-> run + 1, seq |-> 0] \in Announcement
      BY <2>1 DEF Announcement
    <2> QED BY <1>1, <1>3, <2>1, <2>2 DEF Publish, DbTypeOK
  <1>4. ASSUME NEW s \in Streams, PublishQuietly(s) PROVE DbTypeOK'
    <2>1. run + 1 \in Runs /\ head' \in [Streams -> Runs]
      BY <1>1, <1>4, RunsAssumption DEF PublishQuietly, DbTypeOK, Runs
    <2> QED BY <1>1, <1>4, <2>1 DEF PublishQuietly, DbTypeOK, redis
  <1>5. ASSUME NEW j \in jobs, Incr(j) PROVE DbTypeOK'
    <2>1. j \in Announcement /\ counter[j.stream] + 1 \in Nat
      BY <1>1 DEF DbTypeOK, Announcement
    <2>2. [j EXCEPT !.seq = counter[j.stream] + 1] \in Announcement
      BY <2>1 DEF Announcement
    <2>3. jobs' \subseteq Announcement /\ counter' \in [Streams -> Nat]
      BY <1>1, <1>5, <2>1, <2>2 DEF Incr, DbTypeOK, Announcement
    <2> QED BY <1>1, <1>5, <2>3 DEF Incr, DbTypeOK, db
  <1>6. ASSUME NEW j \in jobs, Announce(j) PROVE DbTypeOK'
    <2>1. channel' \in Seq(Announcement)
      BY <1>1, <1>6, DeliverType DEF Announce
    <2> QED BY <1>1, <1>6, <2>1 DEF Announce, DbTypeOK, db
  <1>7. ASSUME NEW j \in jobs, AnnounceFails(j) PROVE DbTypeOK'
    <2>1. channel' \in Seq(Announcement)
      BY <1>1, <1>7, DeliverType DEF AnnounceFails, DbTypeOK
    <2>2. [j EXCEPT !.seq = 0] \in Announcement
      BY <1>1 DEF DbTypeOK, Announcement
    <2> QED BY <1>1, <1>7, <2>1, <2>2 DEF AnnounceFails, DbTypeOK, db
  <1>8. CASE TakeEvent
    BY <1>1, <1>8, TakeEventKeeps DEF TakeEvent, DbTypeOK, db, redis
  <1>9. CASE Build \/ Send \/ BuildFails \/ SendTimesOut
    BY <1>1, <1>9 DEF Build, Send, BuildFails, SendTimesOut, DbTypeOK, db, redis
  <1>10. CASE Fallback \/ Disconnect \/ Reconnect
    <2>1. <<>> \in Seq(Announcement)
      OBVIOUS
    <2>2. UNCHANGED <<db, redis>> /\ (channel' = <<>> \/ channel' = channel)
      BY <1>10 DEF Fallback, Disconnect, Reconnect
    <2> QED BY <1>1, <2>1, <2>2 DEF DbTypeOK, db, redis
  <1>11. CASE Receive \/ PollHttp \/ HttpRead \/ HttpAnswer \/ HttpFails
    BY <1>1, <1>11 DEF Receive, PollHttp, HttpRead, HttpAnswer, HttpFails, DbTypeOK, db, redis
  <1> QED BY <1>2, <1>3, <1>4, <1>5, <1>6, <1>7, <1>8, <1>9, <1>10, <1>11 DEF Next, ProducerStep

\* The server's side of the connection.
ServerOK == /\ conn \in {"down", "redis", "polling", "off"}
            /\ prod \in Producer /\ sub \in Subscription /\ Carries(prod.message)

LEMMA SendKeeps ==
    ASSUME TypeOK, MessagesOK, Send
    PROVE  prod' \in Producer /\ sub' \in Subscription /\ Carries(prod'.message)
  <1>1. prod \in Producer /\ sub \in Subscription /\ prod.message \in Message
    BY DEF TypeOK, Producer
  <1>2. sub' \in Subscription
    BY <1>1 DEF Send, Subscription, Message
  <1>3. prod' \in Producer /\ prod'.message = NoMessage
    BY <1>1, Constants DEF Send, Producer
  <1> QED BY <1>2, <1>3 DEF Carries, NoMessage

LEMMA ServerKept ==
    ASSUME TypeOK, MessagesOK, Next
    PROVE  ServerOK'
  <1>1. ServerOK
    BY DEF TypeOK, MessagesOK, ServerOK
  <1>2. ASSUME UNCHANGED server PROVE ServerOK'
    BY <1>1, <1>2 DEF ServerOK, server, Carries, Objects, Diff
  <1>3. ASSUME prod' \in Producer, sub' \in Subscription, Carries(prod'.message), conn' = conn
        PROVE  ServerOK'
    BY <1>1, <1>3 DEF ServerOK, Carries, Objects, Diff
  <1>4. ASSUME prod' \in {prod, Waiting}, sub' \in {sub, NewSub},
               conn' \in {"down", "redis", "polling", "off"}
        PROVE  ServerOK'
    <2>1. prod' \in Producer /\ sub' \in Subscription /\ Carries(prod'.message)
      BY <1>1, <1>4, Constants, WaitingCarries DEF ServerOK
    <2> QED BY <1>4, <2>1 DEF ServerOK, Carries, Objects, Diff
  <1>5. ASSUME NEW s \in Streams, Ingest(s) \/ Publish(s) \/ PublishQuietly(s)
        PROVE  ServerOK'
    BY <1>2, <1>5 DEF Ingest, Publish, PublishQuietly
  <1>6. ASSUME NEW j \in jobs, Incr(j) \/ Announce(j) \/ AnnounceFails(j)
        PROVE  ServerOK'
    BY <1>2, <1>6 DEF Incr, Announce, AnnounceFails
  <1>7. CASE TakeEvent
    BY <1>3, <1>7, TakeEventKeeps DEF TakeEvent
  <1>8. CASE Build
    BY <1>3, <1>8, BuildKeeps DEF Build
  <1>9. CASE Send
    BY <1>3, <1>9, SendKeeps DEF Send
  <1>10. CASE BuildFails \/ SendTimesOut
    <2>1. prod' = Waiting /\ sub' = sub /\ conn' = conn
      BY <1>10 DEF BuildFails, SendTimesOut
    <2> QED BY <1>1, <1>4, <2>1 DEF ServerOK
  <1>12. CASE Fallback
    <2>1. prod' = Waiting /\ sub' = sub /\ conn' \in {"polling", "off"}
      BY <1>12 DEF Fallback
    <2> QED BY <1>4, <2>1
  <1>13. CASE Disconnect
    <2>1. prod' = Waiting /\ sub' = NewSub /\ conn' = "down"
      BY <1>13 DEF Disconnect
    <2> QED BY <1>4, <2>1
  <1>14. CASE Reconnect
    <2>1. prod' = prod /\ sub' = sub /\ conn' \in {"redis", "polling"}
      BY <1>14 DEF Reconnect
    <2> QED BY <1>4, <2>1
  <1>11. CASE Receive \/ PollHttp \/ HttpRead \/ HttpAnswer \/ HttpFails
    BY <1>2, <1>11 DEF Receive, PollHttp, HttpRead, HttpAnswer, HttpFails
  <1> QED BY <1>5, <1>6, <1>7, <1>8, <1>9, <1>10, <1>11, <1>12, <1>13, <1>14
          DEF Next, ProducerStep

-----------------------------------------------------------------------------
(* The queue and the browser.                                                *)

OutboxOK == /\ outbox \in Seq(Message) /\ Len(outbox) <= OutboxSize
            /\ \A i \in 1 .. Len(outbox) : Carries(outbox[i])

LEMMA OutboxKept ==
    ASSUME TypeOK, MessagesOK, Next
    PROVE  OutboxOK'
  <1>1. OutboxOK /\ prod.message \in Message /\ Carries(prod.message) /\ OutboxSize \in Nat
    BY SizeAssumption DEF TypeOK, MessagesOK, OutboxOK, Producer
  <1>2. ASSUME outbox' = outbox PROVE OutboxOK'
    <2>1. outbox' \in Seq(Message) /\ Len(outbox') <= OutboxSize
      BY <1>1, <1>2 DEF OutboxOK
    <2>2. \A i \in 1 .. Len(outbox') : Carries(outbox'[i])
      BY <1>1, <1>2 DEF OutboxOK
    <2> QED BY <2>1, <2>2 DEF OutboxOK, Carries, Objects, Diff
  <1>3. CASE Send
    <2>1. outbox' = Append(outbox, prod.message) /\ Len(outbox) < OutboxSize
      BY <1>3 DEF Send, Room
    <2>2. outbox' \in Seq(Message) /\ Len(outbox') <= OutboxSize
      BY <1>1, <2>1 DEF OutboxOK
    <2>3. \A i \in 1 .. Len(outbox') :
             \/ outbox'[i] = outbox[i] /\ i \in 1 .. Len(outbox)
             \/ outbox'[i] = prod.message
      BY <1>1, <2>1 DEF OutboxOK
    <2>4. \A i \in 1 .. Len(outbox') : Carries(outbox'[i])
      BY <1>1, <2>3 DEF OutboxOK
    <2> QED BY <2>2, <2>4 DEF OutboxOK, Carries, Objects, Diff
  <1>4. CASE Disconnect
    <2>1. outbox' = <<>>
      BY <1>4 DEF Disconnect
    <2> QED BY <1>1, <2>1 DEF OutboxOK
  <1>5. CASE Receive
    <2>1. outbox' = Tail(outbox) /\ outbox # <<>>
      BY <1>5 DEF Receive
    <2>2. outbox' \in Seq(Message) /\ Len(outbox') <= OutboxSize
      BY <1>1, <2>1 DEF OutboxOK
    <2>3. \A i \in 1 .. Len(outbox') : outbox'[i] = outbox[i + 1] /\ i + 1 \in 1 .. Len(outbox)
      BY <1>1, <2>1 DEF OutboxOK
    <2>4. \A i \in 1 .. Len(outbox') : Carries(outbox'[i])
      BY <1>1, <2>3 DEF OutboxOK
    <2> QED BY <2>2, <2>4 DEF OutboxOK, Carries, Objects, Diff
  <1>6. ASSUME NEW s \in Streams, Ingest(s) \/ Publish(s) \/ PublishQuietly(s)
        PROVE  OutboxOK'
    BY <1>2, <1>6 DEF Ingest, Publish, PublishQuietly
  <1>7. ASSUME NEW j \in jobs, Incr(j) \/ Announce(j) \/ AnnounceFails(j)
        PROVE  OutboxOK'
    BY <1>2, <1>7 DEF Incr, Announce, AnnounceFails
  <1>8. CASE TakeEvent \/ Build \/ BuildFails \/ SendTimesOut \/ Fallback \/ Reconnect
    BY <1>2, <1>8 DEF TakeEvent, Build, BuildFails, SendTimesOut, Fallback, Reconnect
  <1>9. CASE PollHttp \/ HttpRead \/ HttpAnswer \/ HttpFails
    BY <1>2, <1>9 DEF PollHttp, HttpRead, HttpAnswer, HttpFails
  <1> QED BY <1>3, <1>4, <1>5, <1>6, <1>7, <1>8, <1>9 DEF Next, ProducerStep

BrowserOK ==
    /\ client \in Entry
    /\ http \in [pc : {"none", "asked", "answered"}, version : Versions, failed : BOOLEAN]
    /\ Consistent /\ ResyncUnderWay

LEMMA FetchType ==
    ASSUME BrowserOK, Fetch
    PROVE  /\ http' \in [pc : {"none", "asked", "answered"}, version : Versions, failed : BOOLEAN]
           /\ http'.pc # "none"
  BY Constants DEF BrowserOK, Fetch, NoFetch

LEMMA ReceiveKeeps ==
    ASSUME TypeOK, MessagesOK, BrowserOK, Receive
    PROVE  BrowserOK'
  <1> DEFINE m == Head(outbox)
  <1>1. m \in Message /\ Carries(m)
    <2>1. outbox \in Seq(Message) /\ outbox # <<>>
      BY DEF TypeOK, Receive
    <2>2. m \in Message /\ m = outbox[1] /\ 1 \in 1 .. Len(outbox)
      BY <2>1
    <2> QED BY <2>2 DEF MessagesOK
  <1>2. m.seq \in Nat /\ m.version \in Versions
    BY <1>1 DEF Message
  <1> HIDE DEF m
  <1>3. CASE UNCHANGED <<client, http>>
    BY <1>3 DEF BrowserOK, Consistent, ResyncUnderWay, Objects
  <1>4. CASE InSequence(m) /\ Fits(m) /\ UNCHANGED http
             /\ client' = [version |-> m.version, seen |-> m.seq,
                           objects |-> IF m.type = "snapshot" THEN m.changes
                                       ELSE Applied(client.objects, m.changes),
                           pending |-> FALSE]
    <2>1. CASE m.type = "snapshot"
      <3>1. client'.objects = Objects(m.version) /\ client'.version = m.version /\ ~client'.pending
        BY <1>1, <1>4, <2>1 DEF Carries
      <3>2. client' \in Entry
        BY <1>1, <1>2, <1>4, <2>1, ObjectsType DEF Carries, Entry
      <3> QED BY <1>4, <3>1, <3>2 DEF BrowserOK, Consistent, ResyncUnderWay, Objects
    <2>2. CASE m.type # "snapshot"
      <3>1. m.type = "delta" /\ m.base = client.version
        BY <1>4, <2>2 DEF Fits
      <3>2. client.objects = Objects(m.base) /\ m.changes = Diff(m.base, m.version)
        BY <1>1, <3>1 DEF Carries, BrowserOK, Consistent
      <3>3. Applied(client.objects, m.changes) = Objects(m.version)
        BY <1>2, <3>2, DiffApplies
      <3>4. client'.objects = Objects(m.version) /\ client'.version = m.version /\ ~client'.pending
        BY <1>4, <2>2, <3>3
      <3>5. client' \in Entry
        BY <1>2, <1>4, <2>2, <3>3, ObjectsType DEF Entry
      <3> QED BY <1>4, <3>4, <3>5 DEF BrowserOK, Consistent, ResyncUnderWay, Objects
    <2> QED BY <2>1, <2>2
  <1>5. CASE RequestResync(m)
    <2>1. /\ client' \in Entry /\ client'.objects = client.objects
          /\ client'.version = client.version
      BY <1>2, <1>5 DEF RequestResync, BrowserOK, Entry
    <2>2. CASE client.pending
      BY <1>5, <2>1, <2>2 DEF RequestResync, BrowserOK, Consistent, ResyncUnderWay, Objects
    <2>3. CASE ~client.pending
      <3>1. Fetch
        BY <1>5, <2>3 DEF RequestResync
      <3> QED BY <2>1, <3>1, FetchType DEF BrowserOK, Consistent, ResyncUnderWay, Objects
    <2> QED BY <2>2, <2>3
  <1> QED BY <1>3, <1>4, <1>5 DEF Receive, m

LEMMA BrowserKept ==
    ASSUME TypeOK, MessagesOK, Consistent, ResyncUnderWay, Next
    PROVE  BrowserOK'
  <1>1. BrowserOK
    BY DEF TypeOK, BrowserOK
  <1>2. ASSUME UNCHANGED <<client, http>> PROVE BrowserOK'
    BY <1>1, <1>2 DEF BrowserOK, Consistent, ResyncUnderWay, Objects
  <1>3. CASE Receive
    BY <1>1, <1>3, ReceiveKeeps
  <1>4. CASE Reconnect
    BY <1>1, <1>4 DEF Reconnect, BrowserOK, Entry, Consistent, ResyncUnderWay, Objects
  <1>5. CASE PollHttp
    <2>1. Fetch /\ client' = client
      BY <1>5 DEF PollHttp
    <2> QED BY <1>1, <2>1, FetchType DEF BrowserOK, Consistent, ResyncUnderWay, Objects
  <1>6. CASE HttpRead
    <2>1. Overlay \in Versions
      BY OverlayType
    <2> QED BY <1>1, <1>6, <2>1 DEF HttpRead, BrowserOK, Consistent, ResyncUnderWay, Objects
  <1>7. CASE HttpAnswer
    <2>1. http.version \in Versions /\ client' = Hydrated(http.version) /\ http' = NoFetch
      BY <1>1, <1>7 DEF HttpAnswer, BrowserOK
    <2>2. /\ client' \in Entry /\ ~client'.pending
          /\ client'.objects = Objects(client'.version)
      BY <1>1, <2>1, ObjectsType DEF Hydrated, BrowserOK, Entry
    <2>3. http' \in [pc : {"none", "asked", "answered"}, version : Versions, failed : BOOLEAN]
      BY <2>1, Constants DEF NoFetch
    <2> QED BY <2>2, <2>3 DEF BrowserOK, Consistent, ResyncUnderWay, Objects
  <1>8. CASE HttpFails
    BY <1>1, <1>8, Constants
       DEF HttpFails, NoFetch, BrowserOK, Consistent, ResyncUnderWay, Objects
  <1>9. ASSUME NEW s \in Streams, Ingest(s) \/ Publish(s) \/ PublishQuietly(s)
        PROVE  BrowserOK'
    BY <1>2, <1>9 DEF Ingest, Publish, PublishQuietly
  <1>10. ASSUME NEW j \in jobs, Incr(j) \/ Announce(j) \/ AnnounceFails(j)
         PROVE  BrowserOK'
    BY <1>2, <1>10 DEF Incr, Announce, AnnounceFails
  <1>11. CASE ProducerStep \/ BuildFails \/ SendTimesOut \/ Fallback \/ Disconnect
    BY <1>2, <1>11
       DEF ProducerStep, TakeEvent, Build, Send, BuildFails, SendTimesOut, Fallback, Disconnect
  <1> QED BY <1>3, <1>4, <1>5, <1>6, <1>7, <1>8, <1>9, <1>10, <1>11 DEF Next

LEMMA UpsetsKept ==
    ASSUME TypeOK, Next
    PROVE  upsets' \in 0 .. MaxUpsets
  <1>1. upsets \in 0 .. MaxUpsets /\ MaxUpsets \in Nat
    BY BoundAssumption DEF TypeOK
  <1>2. CASE Upset
    BY <1>1, <1>2 DEF Upset
  <1>3. CASE upsets' = upsets
    BY <1>1, <1>3
  <1>4. Upset \/ upsets' = upsets
    BY DEF Next, ProducerStep, Ingest, Publish, PublishQuietly, Incr, Announce, AnnounceFails,
           TakeEvent, Build, Send, BuildFails, SendTimesOut, Fallback, Disconnect, Reconnect,
           Receive, PollHttp, HttpRead, HttpAnswer, HttpFails
  <1> QED BY <1>2, <1>3, <1>4

-----------------------------------------------------------------------------
(* The invariant is inductive, and the theorems.                             *)

LEMMA InitHolds == Init => IInv
  <1> SUFFICES ASSUME Init PROVE IInv
    OBVIOUS
  <1>1. prod.message = Waiting.message /\ Len(outbox) = 0
    BY DEF Init
  <1>2. MessagesOK
    BY <1>1, WaitingCarries DEF MessagesOK
  <1>3. Consistent /\ ResyncUnderWay
    BY DEF Init, Consistent, ResyncUnderWay
  <1> QED BY <1>2, <1>3, TypeInit DEF IInv

LEMMA StepKeeps == IInv /\ [Next]_vars => IInv'
  <1> SUFFICES ASSUME IInv, [Next]_vars PROVE IInv'
    OBVIOUS
  <1>1. TypeOK /\ MessagesOK /\ Consistent /\ ResyncUnderWay
    BY DEF IInv
  <1>2. CASE Next
    <2>1. DbTypeOK' /\ ServerOK' /\ OutboxOK' /\ BrowserOK' /\ upsets' \in 0 .. MaxUpsets
      BY <1>1, <1>2, DbKept, ServerKept, OutboxKept, BrowserKept, UpsetsKept
    <2>2. TypeOK'
      BY <2>1 DEF TypeOK, DbTypeOK, ServerOK, OutboxOK, BrowserOK
    <2>3. MessagesOK'
      BY <2>1 DEF MessagesOK, ServerOK, OutboxOK
    <2> QED BY <2>1, <2>2, <2>3 DEF IInv, BrowserOK
  <1>3. CASE UNCHANGED vars
    <2>1. TypeOK'
      BY <1>1, <1>3 DEF TypeOK, vars, db, redis, server
    <2>2. prod' = prod /\ outbox' = outbox /\ client' = client /\ http' = http
      BY <1>3 DEF vars, server
    <2>3. Consistent' /\ ResyncUnderWay'
      BY <1>1, <2>2 DEF Consistent, ResyncUnderWay, Objects
    <2>4. Carries(prod.message)' /\ \A i \in 1 .. Len(outbox) : Carries(outbox'[i])
      <3>1. Carries(prod.message) /\ \A i \in 1 .. Len(outbox) : Carries(outbox[i])
        BY <1>1 DEF MessagesOK
      <3>2. Carries(prod.message)'
        BY <3>1, <2>2 DEF Carries, Objects, Diff
      <3> QED BY <3>1, <3>2, <2>2
    <2>5. MessagesOK'
      BY <2>2, <2>4 DEF MessagesOK, Carries, Objects, Diff
    <2> QED BY <2>1, <2>3, <2>5 DEF IInv
  <1> QED BY <1>2, <1>3

(* Whatever is published, announced, lost, reordered, timed out or           *)
(* reconnected, the invariant holds: every message on its way to the browser *)
(* carries what it claims to carry.                                          *)
THEOREM ChartInvariant == Spec => []IInv
  <1> QED BY InitHolds, StepKeeps, PTL DEF Spec

(* The variables keep their types, and the queue of a socket never holds     *)
(* more than MAX_CHART_OUTBOX_MESSAGES.                                      *)
THEOREM ChartTypes == Spec => []TypeOK
  <1>1. IInv => TypeOK
    BY DEF IInv
  <1> QED BY <1>1, ChartInvariant, PTL

(* What the chart shows is what the version it claims to show contains,      *)
(* for any streams, runs, queue size and number of failures.                 *)
THEOREM ShownIsConsistent == Spec => []Consistent
  <1>1. IInv => Consistent
    BY DEF IInv
  <1> QED BY <1>1, ChartInvariant, PTL

(* The bridge ignores deltas only while the resync it asked for is under     *)
(* way, or after it failed: requestResync never sets pending without a fetch.*)
THEOREM ResyncIsUnderWay == Spec => []ResyncUnderWay
  <1>1. IInv => ResyncUnderWay
    BY DEF IInv
  <1> QED BY <1>1, ChartInvariant, PTL

=============================================================================
