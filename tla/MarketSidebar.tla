----------------------------- MODULE MarketSidebar -----------------------------
(* The market sidebar of one browser: its store and transport                *)
(* (marketSidebarStore.ts, marketSidebar.ts, chartDataManager.ts), the       *)
(* socket's sidebar task and its Redis relay (routes/realtime.py) with the   *)
(* aggregator (market_sidebar/service.py), and the collector that fills the  *)
(* trading-day cache (market_data_provider.py, market_data/coordinator.py).  *)
(* The confirmed chart symbol alternates between two symbols, so that an     *)
(* epoch is not told by its symbol.  The cached domains (quotes, profile,    *)
(* news, ...) are filled and published together and are one value, ext; the  *)
(* published Chan structures and strategy signals are another one, loc.      *)
(* Two of the five channels of a stream stand for all: active_profile        *)
(* carries ext and loc, chan_strategy loc only.                              *)
EXTENDS Integers, Sequences

CONSTANTS
    MaxSequence, \* bound: events of one stream
    MaxUpsets    \* bound: changes of the context, local publications and faults, together

ASSUME BoundsAssumption == MaxSequence \in Nat /\ MaxUpsets \in Nat

VARIABLES
    browser,     \* the store's context and stream identity, the transport's cursor
    shown,       \* profileBySymbol
    fetch,       \* the HTTP bootstrap
    socket,      \* the websocket: contexts on their way up, events on their way down
    server,      \* the socket's sidebar task, relay, and its streams in the aggregator
    data,        \* the cache and the local projection, by symbol
    unannounced, \* symbols with a local publication that is not announced yet
    requests,    \* the refresh requests of the Redis stream not acknowledged
    collector,   \* the request the collector is at
    upsets,      \* how many changes, local publications and faults there were
    floor,       \* history: the data of the chart symbol when it was chosen
    missed       \* history: updates no notice will make the server read, and "profile"
                 \* when the stream began after the profile of its batch

vars == <<browser, shown, fetch, socket, server, data, unannounced, requests, collector, upsets, floor, missed>>
world == <<data, unannounced, requests, collector>>

Symbols == {0, 1}
SymbolOf(epoch) == epoch % 2
Changes == 0 .. MaxUpsets
Connections == 1 .. MaxUpsets + 1
Content == [ext : 0 .. 1, loc : Changes]
Nothing == [ext |-> 0, loc |-> 0]

\* sidebar_stream_id: the connection and the epoch.
NoStream == <<0, 0>>
Stream(conn, epoch) == <<conn, epoch>>

IdleServer == [known |-> FALSE, epoch |-> 0, revision |-> 0, after |-> 0, relay |-> "none",
               pc |-> "idle", mode |-> "delta", ext |-> 0, out |-> <<>>, notices |-> 0,
               sequence |-> 0, fences |-> {}, hash |-> <<>>]

NoFetch == [at |-> "none", epoch |-> 0, revision |-> 0, content |-> Nothing]
Idle == [busy |-> FALSE, epoch |-> 0, revision |-> 0]

Init ==
    /\ browser = [epoch |-> 0, revision |-> 0, confirmed |-> FALSE, subscribed |-> FALSE,
                  status |-> "unavailable", active |-> NoStream, retired |-> {}, cursor |-> 0]
    /\ shown = [s \in Symbols |-> Nothing]
    /\ fetch = NoFetch
    /\ socket = [conn |-> 0, up |-> FALSE, contexts |-> <<>>, events |-> <<>>]
    /\ server = IdleServer
    /\ data = [s \in Symbols |-> Nothing]
    /\ unannounced = {} /\ requests = {}
    /\ collector = Idle
    /\ upsets = 0
    /\ floor = Nothing
    /\ missed = {}

\* request_refresh.  A request whose symbol is cached for the day changes nothing.
Requested(epoch, revision) ==
    IF data[SymbolOf(epoch)].ext = 0 THEN requests \union {<<epoch, revision>>} ELSE requests

-----------------------------------------------------------------------------
(* The browser.                                                              *)

\* set_sidebar_context
Message(b) == [epoch |-> b.epoch, revision |-> b.revision, after |-> b.cursor]
\* updateSidebarContext: sent when the socket is open, replayed when it opens.
Sent(b) == IF socket.up THEN [socket EXCEPT !.contexts = Append(@, Message(b))] ELSE socket

\* resetStreamIdentity
WithoutStream(b) == [b EXCEPT !.retired = @ \union ({b.active} \ {NoStream}), !.active = NoStream]

Upset == upsets < MaxUpsets /\ upsets' = upsets + 1

\* confirmChartSymbol, the first time: the one bootstrap of the store.
Confirm ==
    /\ ~browser.confirmed
    /\ browser' = [browser EXCEPT !.confirmed = TRUE, !.subscribed = TRUE]
    /\ socket' = Sent(browser')
    /\ fetch' = [fetch EXCEPT !.at = "sent", !.epoch = browser.epoch, !.revision = browser.revision]
    /\ UNCHANGED <<shown, server, world, floor, missed, upsets>>

\* confirmChartSymbol with another symbol
ChangeSymbol ==
    /\ browser.confirmed /\ Upset
    /\ browser' = [WithoutStream(browser) EXCEPT !.epoch = @ + 1, !.status = "unavailable", !.cursor = 0]
    /\ socket' = Sent(browser')
    /\ floor' = data[SymbolOf(browser.epoch + 1)]
    /\ missed' = missed \ {"profile"}
    /\ UNCHANGED <<shown, fetch, server, world>>

\* setWatchlistSymbols; setContext subscribes even before a symbol was confirmed.
ChangeWatchlist ==
    /\ Upset
    /\ browser' = [browser EXCEPT !.revision = @ + 1, !.subscribed = TRUE]
    /\ socket' = Sent(browser')
    /\ missed' = missed \ {"profile"}
    /\ UNCHANGED <<shown, fetch, server, world, floor>>

\* The server's answer to the bootstrap; it asks the collector for a refresh.
AnswerBootstrap ==
    /\ fetch.at = "sent"
    /\ fetch' = [fetch EXCEPT !.at = "answered", !.content = data[SymbolOf(fetch.epoch)]]
    /\ requests' = Requested(fetch.epoch, fetch.revision)
    /\ UNCHANGED <<browser, shown, socket, server, data, unannounced, collector, floor, missed, upsets>>

\* bootstrap: an answer for another context is ignored.
AcceptBootstrap ==
    /\ fetch.at = "answered"
    /\ fetch' = [NoFetch EXCEPT !.at = "done"]
    /\ IF fetch.epoch = browser.epoch /\ fetch.revision = browser.revision
       THEN /\ browser' = [WithoutStream(browser) EXCEPT !.status = "ready"]
            /\ shown' = [s \in Symbols |-> IF s = SymbolOf(browser.epoch) THEN fetch.content ELSE Nothing]
       ELSE UNCHANGED <<browser, shown>>
    /\ UNCHANGED <<socket, server, world, floor, missed, upsets>>

\* The request or its answer fails: markParserError, whatever the context is by then.
FailBootstrap ==
    /\ Upset
    /\ fetch.at \in {"sent", "answered"}
    /\ fetch' = [NoFetch EXCEPT !.at = "done"]
    /\ browser' = [browser EXCEPT !.status = "error"]
    /\ shown' = [s \in Symbols |-> [shown[s] EXCEPT !.ext = 0]]
    /\ UNCHANGED <<socket, server, world, floor, missed>>

\* Mutant: events are told by their symbol instead of its epoch.
FitsBySymbol(ev) ==
    /\ SymbolOf(ev.epoch) = SymbolOf(browser.epoch) /\ ev.revision = browser.revision
    /\ ev.stream \notin browser.retired
    /\ browser.active \in {NoStream, ev.stream} \/ ev.type = "resync"
    /\ browser.active = ev.stream => ev.sequence > browser.cursor

\* fence, acceptStreamIdentity and the sequence check.  A stream that is no longer
\* active is retired for good, so that the cursor stands for streamSequences.
Fits(ev) ==
    /\ ev.epoch = browser.epoch /\ ev.revision = browser.revision
    /\ ev.stream \notin browser.retired
    /\ browser.active \in {NoStream, ev.stream} \/ ev.type = "resync"
    /\ browser.active = ev.stream => ev.sequence > browser.cursor

\* acceptEvent's change of the store, and the transport's cursor
Accepted(ev) ==
    [browser EXCEPT !.active = ev.stream, !.cursor = ev.sequence,
                    !.retired = @ \union ({browser.active} \ {NoStream, ev.stream}),
                    !.status = IF ev.type = "chan" THEN @ ELSE "ready"]

ShownAfter(ev) ==
    LET chart == SymbolOf(browser.epoch)
    IN CASE ev.type = "resync" -> [s \in Symbols |-> IF s = chart THEN ev.content ELSE Nothing]
         [] ev.type = "profile" -> [shown EXCEPT ![chart] = ev.content]
         [] ev.type = "chan" -> [shown EXCEPT ![chart].loc = ev.content.loc]

\* A stream that begins with a chan event: the profile of the batch was refused while
\* another stream was active, and the cursor hides it from the server.
MissedAfter(ev) ==
    CASE Fits(ev) /\ ev.type # "chan" -> missed \ {"profile"}
      [] Fits(ev) /\ ev.type = "chan" /\ browser.active # ev.stream -> missed \union {"profile"}
      [] OTHER -> missed

\* receive: whether the store took the event or not, the context is sent again.
Receive ==
    /\ socket.up /\ socket.events # <<>>
    /\ LET ev == Head(socket.events)
       IN /\ IF Fits(ev)
             THEN browser' = Accepted(ev) /\ shown' = ShownAfter(ev)
             ELSE UNCHANGED <<browser, shown>>
          /\ missed' = MissedAfter(ev)
    /\ socket' = [Sent(browser') EXCEPT !.events = Tail(@)]
    /\ UNCHANGED <<fetch, server, world, floor, upsets>>

\* onopen, replaySubscriptions; the server starts a task of its own for each socket.
Connect ==
    /\ browser.subscribed /\ ~socket.up
    /\ socket' = [conn |-> socket.conn + 1, up |-> TRUE, contexts |-> <<Message(browser)>>, events |-> <<>>]
    /\ UNCHANGED <<browser, shown, fetch, server, world, floor, missed, upsets>>

\* The socket closes; aggregator.disconnect
Disconnect ==
    /\ Upset
    /\ socket.up
    /\ socket' = [socket EXCEPT !.up = FALSE, !.contexts = <<>>, !.events = <<>>]
    /\ server' = IdleServer
    /\ UNCHANGED <<browser, shown, fetch, world, floor, missed>>

-----------------------------------------------------------------------------
(* The socket's task of the API.                                             *)

\* Mutant: every context cleans the streams of the connection.
StreamStateFresh(m) == IdleServer

\* The streams the aggregator keeps for a context: cleaned when the stream id changes.
StreamState(m) ==
    IF server.known /\ server.epoch = m.epoch THEN server ELSE IdleServer

\* set_sidebar_context: the sidebar task and the relay are cancelled wherever they are.
HandleContext ==
    /\ socket.contexts # <<>> /\ server.relay # "starting"
    /\ LET m == Head(socket.contexts)
       IN server' = [StreamState(m) EXCEPT
              !.known = TRUE, !.epoch = m.epoch, !.revision = m.revision, !.after = m.after,
              !.relay = "starting", !.pc = "idle", !.ext = 0, !.out = <<>>, !.notices = 1]
    /\ socket' = [socket EXCEPT !.contexts = Tail(@)]
    /\ UNCHANGED <<browser, shown, fetch, world, floor, missed, upsets>>

\* The relay has subscribed in time: a refresh is requested.
RelayReady ==
    /\ server.relay = "starting"
    /\ server' = [server EXCEPT !.relay = "on"]
    /\ requests' = Requested(server.epoch, server.revision)
    /\ UNCHANGED <<browser, shown, fetch, socket, data, unannounced, collector, floor, missed, upsets>>

\* wait_for(relay_ready, 1.0) runs out; the relay may subscribe all the same.
RelayTimeout ==
    /\ Upset
    /\ server.relay = "starting"
    /\ server' = [server EXCEPT !.relay = "late"]
    /\ UNCHANGED <<browser, shown, fetch, socket, world, floor, missed>>

RelayLate ==
    /\ server.relay = "late"
    /\ server' = [server EXCEPT !.relay = "on"]
    /\ UNCHANGED <<browser, shown, fetch, socket, world, floor, missed, upsets>>

\* Mutant: only a cursor ahead of the stream is a mismatch.
MismatchAhead == server.after > server.sequence

\* delta_events: the cursor of the context is neither 0 nor that of the stream.
Mismatch == server.after # 0 /\ server.after # server.sequence

\* event_queue.get: a mismatch that was answered before is not answered again.
TakeNotice ==
    /\ server.pc = "idle" /\ server.notices > 0
    /\ Mismatch /\ server.after \in server.fences
    /\ server' = [server EXCEPT !.notices = @ - 1]
    /\ UNCHANGED <<browser, shown, fetch, socket, world, floor, missed, upsets>>

\* Otherwise _read_snapshot reads the cache, then the local projection; the fence is
\* there before.
ReadCache ==
    /\ server.pc = "idle" /\ server.notices > 0
    /\ Mismatch => server.after \notin server.fences
    /\ server' = [server EXCEPT
           !.notices = @ - 1, !.pc = "read", !.ext = data[SymbolOf(server.epoch)].ext,
           !.mode = IF Mismatch THEN "resync" ELSE "delta",
           !.fences = IF Mismatch THEN @ \union {server.after} ELSE @]
    /\ missed' = missed \ {"ext"}
    /\ UNCHANGED <<browser, shown, fetch, socket, world, floor, upsets>>

\* The payload of both channels is the whole profile: one hash stands for both.
Hash(content) == <<server.revision, content>>

Events(content) ==
    LET types == IF server.mode = "resync" THEN <<"resync">>
                 ELSE IF server.hash = Hash(content) THEN <<>> ELSE <<"profile", "chan">>
    IN [i \in DOMAIN types |->
           [type |-> types[i], stream |-> Stream(socket.conn, server.epoch), epoch |-> server.epoch,
            revision |-> server.revision, sequence |-> server.sequence + i, content |-> content]]

\* The local projection is read; then, with no await between them, the end of
\* delta_events and the first send_json.  A resync leaves the hash as it is.
ReadLocal ==
    /\ server.pc = "read"
    /\ LET content == [ext |-> server.ext, loc |-> data[SymbolOf(server.epoch)].loc]
           events == Events(content)
       IN /\ server.sequence + Len(events) <= MaxSequence
          /\ server' = [server EXCEPT
                 !.pc = IF Len(events) > 1 THEN "send" ELSE "idle",
                 !.hash = IF server.mode = "resync" THEN @ ELSE Hash(content), !.sequence = @ + Len(events), !.ext = 0, !.mode = "delta",
                 !.after = IF events = <<>> THEN @ ELSE Head(events).sequence,
                 !.out = IF events = <<>> THEN <<>> ELSE Tail(events)]
          /\ socket' = [socket EXCEPT !.events = IF events = <<>> THEN @ ELSE Append(@, Head(events))]
    /\ missed' = missed \ {"loc"}
    /\ UNCHANGED <<browser, shown, fetch, world, floor, upsets>>

\* The next event of the batch
Send ==
    /\ server.pc = "send"
    /\ socket' = [socket EXCEPT !.events = Append(@, Head(server.out))]
    /\ server' = [server EXCEPT !.after = Head(server.out).sequence, !.out = Tail(@),
                                !.pc = IF Tail(server.out) = <<>> THEN "idle" ELSE "send"]
    /\ UNCHANGED <<browser, shown, fetch, world, floor, missed, upsets>>

-----------------------------------------------------------------------------
(* The data and its notices.                                                 *)

\* An update of a part of a symbol is published: the relay that is subscribed and
\* finds that it matches its context queues a notice, and nobody else will.
Notify(symbol, part, matches) ==
    IF server.relay = "on" /\ matches
    THEN server' = [server EXCEPT !.notices = @ + 1] /\ UNCHANGED missed
    ELSE /\ missed' = IF server.known /\ SymbolOf(server.epoch) = symbol
                      THEN missed \union {part} ELSE missed
         /\ UNCHANGED server

\* A Chan head or a strategy signal is committed, and announced afterwards.
LocalCommit(s) ==
    /\ s = SymbolOf(browser.epoch)
    /\ Upset
    /\ data' = [data EXCEPT ![s].loc = @ + 1]
    /\ unannounced' = unannounced \union {s}
    /\ UNCHANGED <<browser, shown, fetch, socket, server, requests, collector, floor, missed>>

Announce(s) ==
    /\ s \in unannounced
    /\ unannounced' = unannounced \ {s}
    /\ Notify(s, "loc", SymbolOf(server.epoch) = s)
    /\ UNCHANGED <<browser, shown, fetch, socket, data, requests, collector, floor, upsets>>

\* load_context: what the trading day's cache misses is fetched and put; the other
\* requests for the symbol will find nothing missing.
Fill(r) ==
    /\ ~collector.busy
    /\ collector' = [busy |-> TRUE, epoch |-> r[1], revision |-> r[2]]
    /\ data' = [data EXCEPT ![SymbolOf(r[1])].ext = 1]
    /\ requests' = {q \in requests : SymbolOf(q[1]) # SymbolOf(r[1])}
    /\ UNCHANGED <<browser, shown, fetch, socket, server, unannounced, floor, missed, upsets>>

\* handle_message publishes after the puts; _sidebar_update_matches compares the
\* epoch and the revision of the request.
PublishFill ==
    /\ collector.busy
    /\ collector' = Idle
    /\ Notify(SymbolOf(collector.epoch), "ext",
              server.epoch = collector.epoch /\ server.revision = collector.revision)
    /\ UNCHANGED <<browser, shown, fetch, socket, data, unannounced, requests, floor, upsets>>

\* The collector stops between the two: the request, pending in the stream, is
\* replayed, finds the cache filled and publishes nothing.
StopCollector ==
    /\ collector.busy /\ Upset
    /\ collector' = Idle
    /\ missed' = IF server.known /\ SymbolOf(server.epoch) = SymbolOf(collector.epoch)
                 THEN missed \union {"ext"} ELSE missed
    /\ UNCHANGED <<browser, shown, fetch, socket, server, data, unannounced, requests, floor>>

Next ==
    \/ Confirm \/ ChangeSymbol \/ ChangeWatchlist
    \/ AnswerBootstrap \/ AcceptBootstrap \/ FailBootstrap
    \/ Receive \/ Connect \/ Disconnect
    \/ HandleContext \/ RelayReady \/ RelayTimeout \/ RelayLate
    \/ TakeNotice \/ ReadCache \/ ReadLocal \/ Send
    \/ \E s \in Symbols : LocalCommit(s) \/ Announce(s)
    \/ \E r \in requests : Fill(r)
    \/ PublishFill \/ StopCollector

Spec == Init /\ [][Next]_vars

-----------------------------------------------------------------------------
(* Properties.                                                               *)

TypeOK ==
    /\ browser \in [epoch : Changes, revision : Changes, confirmed : BOOLEAN, subscribed : BOOLEAN,
                    status : {"unavailable", "ready", "error"}, cursor : 0 .. MaxSequence, active : ({0} \union Connections) \X Changes,
                    retired : SUBSET (Connections \X Changes)]
    /\ shown \in [Symbols -> Content] /\ data \in [Symbols -> Content] /\ floor \in Content
    /\ missed \subseteq {"ext", "loc", "profile"} /\ unannounced \subseteq Symbols
    /\ requests \subseteq Changes \X Changes
    /\ server.sequence \in 0 .. MaxSequence /\ server.fences \subseteq 1 .. MaxSequence
    /\ server.pc \in {"idle", "read", "send"} /\ server.notices \in Nat
    /\ \A i \in DOMAIN socket.events :
           socket.events[i].epoch = server.epoch => socket.events[i].sequence \in 1 .. server.sequence

\* A sidebar that says it is ready shows nothing older than what there was when
\* its symbol was chosen: after A -> B -> A a late event or answer of the first A
\* does not come back (the fence of acceptEvent and the check of bootstrap).
ReadyIsFresh ==
    browser.status = "ready" =>
        LET s == shown[SymbolOf(browser.epoch)] IN s.ext >= floor.ext /\ s.loc >= floor.loc

\* Nothing is on its way any more.
AtRest ==
    /\ fetch.at = "done" /\ socket.up /\ socket.contexts = <<>> /\ socket.events = <<>>
    /\ server.relay # "starting" /\ server.pc = "idle" /\ server.notices = 0
    /\ unannounced = {} /\ requests = {} /\ ~collector.busy

\* At rest the sidebar shows the current data, whatever was cancelled, rejected,
\* reordered or reconnected on the way, but for five cases: the bootstrap retired the
\* live stream, the cursor was already answered once, the stream began after the
\* profile of its batch was refused, the update was published when nobody listened,
\* or the error mark has not been replaced.
RestIsFresh ==
    AtRest =>
        \/ Stream(socket.conn, browser.epoch) \in browser.retired
        \/ Mismatch
        \/ "profile" \in missed
        \/ browser.status = "error"
        \/ \A part \in {"ext", "loc"} \ missed :
               shown[SymbolOf(browser.epoch)][part] = data[SymbolOf(browser.epoch)][part]

=============================================================================
