--------------------------- MODULE MarketSidebarProofs ---------------------------
(* Proofs about MarketSidebar: a ready sidebar never shows the past of its   *)
(* symbol, and at rest it shows the present, for any number of changes,      *)
(* connections and events.  The argument follows one content from the read   *)
(* to the browser: events leave the server in order and never get older, so  *)
(* the content that the server has hashed, and will not send again, is either*)
(* on its way or shown.                                                      *)
EXTENDS MarketSidebar, SequenceTheorems, TLAPS

-----------------------------------------------------------------------------
(* The inductive invariant.                                                  *)

Context == [epoch : Changes, revision : Changes, after : 0 .. MaxSequence]
Event == [type : {"resync", "profile", "chan"}, stream : Connections \X Changes, epoch : Changes,
          revision : Changes, sequence : 1 .. MaxSequence, content : Content]
Fetches == [at : {"none", "sent", "answered", "done"}, epoch : Changes, revision : Changes,
            content : Content]
Browsers == [epoch : Changes, revision : Changes, confirmed : BOOLEAN, subscribed : BOOLEAN,
             status : {"unavailable", "ready", "error"}, active : {NoStream} \union (Connections \X Changes),
             retired : SUBSET (Connections \X Changes), cursor : 0 .. MaxSequence]
Sockets == [conn : {0} \union Connections, up : BOOLEAN, contexts : Seq(Context), events : Seq(Event)]
Hashes == {<<>>} \union (Changes \X Content)
Servers == [known : BOOLEAN, epoch : Changes, revision : Changes, after : 0 .. MaxSequence,
            relay : {"none", "starting", "late", "on"}, pc : {"idle", "read", "send"},
            mode : {"delta", "resync"}, ext : 0 .. 1, out : Seq(Event), notices : Nat,
            sequence : 0 .. MaxSequence, fences : SUBSET (1 .. MaxSequence), hash : Hashes]
Collectors == [busy : BOOLEAN, epoch : Changes, revision : Changes]

Types ==
    /\ browser \in Browsers /\ fetch \in Fetches /\ socket \in Sockets /\ server \in Servers
    /\ shown \in [Symbols -> Content] /\ data \in [Symbols -> Content] /\ floor \in Content
    /\ missed \subseteq {"ext", "loc", "profile"} /\ unannounced \subseteq Symbols
    /\ requests \subseteq Changes \X Changes /\ collector \in Collectors
    /\ upsets \in Changes

\* Everything that is counted is paid for by an upset.
CountsOK ==
    /\ browser.epoch <= upsets /\ browser.revision <= upsets
    /\ \A s \in Symbols : data[s].loc <= upsets
    /\ socket.conn <= upsets + 1 /\ (~socket.up => socket.conn <= upsets)

\* A socket that is down carries nothing, and the server knows a context of one that has none left.
SocketOK ==
    /\ socket.up => socket.conn \in Connections
    /\ ~socket.up => socket.contexts = <<>>
    /\ socket.up /\ socket.contexts = <<>> => server.known
    /\ ~server.known => server = IdleServer /\ socket.events = <<>>
    /\ server.known => socket.up

\* Contexts arrive in the order they were sent; the last one is that of the browser.
ContextsOK ==
    LET c == socket.contexts
    IN /\ server.epoch <= browser.epoch /\ server.revision <= browser.revision
       /\ \A i \in DOMAIN c : /\ server.epoch <= c[i].epoch /\ c[i].epoch <= browser.epoch
                              /\ server.revision <= c[i].revision /\ c[i].revision <= browser.revision
       /\ \A i, j \in DOMAIN c : i <= j => c[i].epoch <= c[j].epoch /\ c[i].revision <= c[j].revision
       /\ socket.up =>
             IF c = <<>>
             THEN server.epoch = browser.epoch /\ server.revision = browser.revision
             ELSE c[Len(c)].epoch = browser.epoch /\ c[Len(c)].revision = browser.revision

AtMost(c, d) == c.ext <= d.ext /\ c.loc <= d.loc
DataOf(epoch) == data[SymbolOf(epoch)]

\* Event `e` was sent on this connection, from the data of its symbol.
SentHere(e) ==
    /\ e.epoch <= server.epoch /\ e.stream = Stream(socket.conn, e.epoch)
    /\ e.epoch = server.epoch => e.sequence <= server.sequence
    /\ AtMost(e.content, DataOf(e.epoch))

\* Event `d` was sent after event `e`: with a higher sequence, and no older content.
After(e, d) == e.epoch = d.epoch => e.sequence < d.sequence /\ AtMost(e.content, d.content)

\* The browser has not passed event `e`.
Ahead(e) == browser.active = e.stream => browser.cursor < e.sequence

EventsOK ==
    /\ \A i \in DOMAIN socket.events : SentHere(socket.events[i]) /\ Ahead(socket.events[i])
    /\ \A i, j \in DOMAIN socket.events : i < j => After(socket.events[i], socket.events[j])

\* The one event a batch has left, and the content that a read has so far.
OutOK ==
    /\ server.pc # "send" => server.out = <<>>
    /\ server.pc = "send" =>
          \E e \in Event :
              /\ server.out = <<e>> /\ e.type = "chan" /\ e.epoch = server.epoch
              /\ SentHere(e) /\ Ahead(e)
              /\ \A i \in DOMAIN socket.events : After(socket.events[i], e)
              /\ server.hash # <<>> /\ server.hash[1] = server.revision
              /\ AtMost(server.hash[2], e.content)

ReadOK ==
    server.pc = "read" =>
        /\ server.mode = "resync" <=> Mismatch
        /\ server.ext <= DataOf(server.epoch).ext
        /\ \A i \in DOMAIN socket.events :
               socket.events[i].epoch = server.epoch => socket.events[i].content.ext <= server.ext
        /\ server.hash # <<>> => server.hash[2].ext <= server.ext

\* The stream the browser follows is of this or an earlier connection, and not ahead of the server.
CursorOK ==
    /\ browser.active[1] <= socket.conn
    /\ browser.active # NoStream => browser.cursor # 0
    /\ socket.up /\ ~server.known => browser.active[1] # socket.conn
    /\ (server.known /\ browser.active[1] = socket.conn) =>
          /\ browser.active[2] <= server.epoch
          /\ browser.active[2] = server.epoch => browser.cursor <= server.sequence

HashOK ==
    server.hash # <<>> =>
        /\ server.hash[1] <= server.revision
        /\ AtMost(server.hash[2], DataOf(server.epoch))

\* Nothing is shown or answered that was not in the data.
ShownOK ==
    /\ \A s \in Symbols : AtMost(shown[s], data[s])
    /\ fetch.at = "answered" => AtMost(fetch.content, DataOf(fetch.epoch))
    /\ fetch.epoch <= browser.epoch

\* What is read for the present epoch was read after the symbol was chosen.
FloorOK ==
    /\ AtMost(floor, DataOf(browser.epoch))
    /\ \A i \in DOMAIN socket.events :
           socket.events[i].epoch = browser.epoch => AtMost(floor, socket.events[i].content)
    /\ (server.pc = "send" /\ server.epoch = browser.epoch) => AtMost(floor, server.out[1].content)
    /\ (server.pc = "read" /\ server.epoch = browser.epoch) => floor.ext <= server.ext
    /\ (fetch.at = "answered" /\ fetch.epoch = browser.epoch) => AtMost(floor, fetch.content)

\* An update of a part of the server's symbol of which the notice is still to come, or was lost.
Due(part) ==
    \/ part \in missed
    \/ part = "ext" /\ collector.busy /\ SymbolOf(collector.epoch) = SymbolOf(server.epoch)
    \/ part = "loc" /\ SymbolOf(server.epoch) \in unannounced

(* What a read has is current, or another read will follow.  A server with   *)
(* no notice left, all of whose events were answered by a context, has hashed*)
(* the current data, or it has answered the cursor before.                   *)
CurrentOK ==
    /\ (server.pc = "read" /\ server.notices = 0) =>
          Due("ext") \/ server.ext = DataOf(server.epoch).ext
    /\ (/\ server.known /\ socket.contexts = <<>> /\ socket.events = <<>>
        /\ server.pc = "idle" /\ server.notices = 0) =>
          \/ Mismatch
          \/ /\ server.hash # <<>> /\ server.hash[1] = server.revision
             /\ \A part \in {"ext", "loc"} :
                   Due(part) \/ server.hash[2][part] = DataOf(server.epoch)[part]

\* An event on its way that will show the content of the hash, or a later one.
Carried ==
    \E i \in DOMAIN socket.events :
        LET e == socket.events[i]
        IN /\ e.type # "chan" /\ e.epoch = browser.epoch /\ e.revision = browser.revision
           /\ AtMost(server.hash[2], e.content)

\* The browser shows it, or has not begun the stream that carried it, or began it too
\* late; what is on its way is no older.
Delivered ==
    /\ \A i \in DOMAIN socket.events :
          socket.events[i].epoch = browser.epoch => AtMost(server.hash[2], socket.events[i].content)
    /\ \/ "profile" \in missed
       \/ browser.active # Stream(socket.conn, browser.epoch) /\ browser.cursor # 0
       \/ /\ browser.active = Stream(socket.conn, browser.epoch)
          /\ \/ browser.status = "error"
             \/ AtMost(server.hash[2], shown[SymbolOf(browser.epoch)])

(* The content the server has hashed for the present context, so that it will*)
(* not send it again, is shown or on its way.                                *)
DeliveryOK ==
    (/\ server.hash # <<>> /\ server.epoch = browser.epoch /\ server.hash[1] = browser.revision
     /\ Stream(socket.conn, browser.epoch) \notin browser.retired)
        => Carried \/ Delivered

\* The cursor of the browser is in its last context, and at rest the server has it.
AfterOK ==
    LET c == socket.contexts
    IN /\ (socket.up /\ c # <<>>) => c[Len(c)].after = browser.cursor
       /\ (server.known /\ c = <<>> /\ socket.events = <<>> /\ server.pc # "send") =>
             server.after = browser.cursor

\* A resync for the present context is on its way.
ResyncComing ==
    \E i \in DOMAIN socket.events :
        LET e == socket.events[i]
        IN e.type = "resync" /\ e.epoch = browser.epoch /\ e.revision = browser.revision

\* The browser keeps the cursor of another stream than the present one.
Behind ==
    LET present == Stream(socket.conn, browser.epoch)
    IN browser.active # present /\ browser.cursor # 0 /\ present \notin browser.retired

(* As long as the browser is behind, it sends no other cursor.  Once the     *)
(* server has sent something else than a resync for the present context, its *)
(* stream is ahead of that cursor: a mismatch.                               *)
BehindOK ==
    Behind =>
        /\ \A i \in DOMAIN socket.contexts :
              socket.contexts[i].epoch = browser.epoch => socket.contexts[i].after = browser.cursor
        /\ (/\ server.known /\ server.epoch = browser.epoch /\ server.revision = browser.revision
            /\ \/ server.after # browser.cursor
               \/ server.hash # <<>> /\ server.hash[1] = browser.revision)
              => browser.cursor < server.sequence \/ ResyncComing

IInv ==
    /\ Types /\ CountsOK /\ SocketOK /\ ContextsOK /\ EventsOK /\ OutOK /\ ReadOK /\ CursorOK
    /\ HashOK /\ ShownOK /\ FloorOK /\ ReadyIsFresh /\ CurrentOK /\ DeliveryOK /\ AfterOK
    /\ BehindOK
-----------------------------------------------------------------------------
(* Operators.                                                                *)

\* Symbols and contents.
LEMMA SymbolType == ASSUME NEW e \in Nat PROVE SymbolOf(e) \in Symbols
  BY DEF SymbolOf, Symbols

LEMMA ChangesAreNat == /\ MaxUpsets \in Nat /\ MaxSequence \in Nat
                       /\ Changes \subseteq Nat /\ 0 \in Changes /\ 1 \in Connections
                       /\ Connections \subseteq Nat
  BY BoundsAssumption DEF Changes, Connections

LEMMA ContentType ==
    ASSUME NEW c \in Content
    PROVE  c.ext \in 0 .. 1 /\ c.loc \in Changes /\ c.ext \in Int /\ c.loc \in Int
  <1>1. c.ext \in 0 .. 1 /\ c.loc \in Changes
    BY DEF Content
  <1>2. PICK x \in 0 .. 1, y \in Changes : x = c.ext /\ y = c.loc
    BY <1>1
  <1>3. x \in Int /\ y \in Int
    BY <1>2, ChangesAreNat
  <1> QED BY <1>1, <1>2, <1>3

LEMMA NothingIsContent == Nothing \in Content
  BY ChangesAreNat DEF Nothing, Content

LEMMA AtMostOrders ==
    /\ \A c \in Content : AtMost(c, c) /\ AtMost(Nothing, c)
    /\ \A c, d, e \in Content : AtMost(c, d) /\ AtMost(d, e) => AtMost(c, e)
  <1>1. \A c \in Content : c.ext \in Int /\ c.loc \in Int /\ 0 <= c.ext /\ 0 <= c.loc
    BY ContentType, ChangesAreNat
  <1>2. Nothing.ext = 0 /\ Nothing.loc = 0
    BY DEF Nothing
  <1> QED BY <1>1, <1>2 DEF AtMost

LEMMA DataType ==
    ASSUME Types, NEW e \in Changes
    PROVE  DataOf(e) \in Content /\ SymbolOf(e) \in Symbols
  BY SymbolType, ChangesAreNat DEF Types, DataOf

\* A sequence with one element more.
LEMMA AppendIs ==
    ASSUME NEW S, NEW s \in Seq(S), NEW e \in S, NEW t, t = Append(s, e)
    PROVE  /\ t \in Seq(S) /\ Len(t) = Len(s) + 1 /\ t # <<>>
           /\ Len(s) \in Nat /\ DOMAIN s = 1 .. Len(s) /\ DOMAIN t = 1 .. Len(s) + 1
           /\ t[Len(s) + 1] = e
           /\ \A i \in DOMAIN s : i \in DOMAIN t /\ t[i] = s[i]
           /\ \A i \in DOMAIN t : i \in DOMAIN s \/ i = Len(s) + 1
  <1>1. Len(s) \in Nat /\ DOMAIN s = 1 .. Len(s)
    BY LenProperties
  <1>2. /\ t \in Seq(S) /\ t # <<>> /\ Len(t) = Len(s) + 1
        /\ (\A i \in 1 .. Len(s) : t[i] = s[i]) /\ t[Len(s) + 1] = e
    BY AppendProperties
  <1>3. DOMAIN t = 1 .. Len(s) + 1
    BY <1>2, LenProperties
  <1> QED BY <1>1, <1>2, <1>3

\* A sequence without its first element.
LEMMA TailIs ==
    ASSUME NEW S, NEW s \in Seq(S), s # <<>>, NEW t, t = Tail(s)
    PROVE  /\ t \in Seq(S) /\ Head(s) \in S /\ Head(s) = s[1]
           /\ Len(s) \in Nat \ {0} /\ DOMAIN s = 1 .. Len(s) /\ DOMAIN t = 1 .. Len(s) - 1
           /\ Len(t) = Len(s) - 1 /\ 1 \in DOMAIN s
           /\ \A i \in DOMAIN t : i + 1 \in DOMAIN s /\ t[i] = s[i + 1] /\ i \in Nat
           /\ t = <<>> => Len(s) = 1
           /\ t # <<>> => Len(t) \in DOMAIN t /\ t[Len(t)] = s[Len(s)]
  <1>1. Len(s) \in Nat /\ DOMAIN s = 1 .. Len(s) /\ Len(s) # 0
    BY LenProperties, EmptySeq
  <1>2. Head(s) \in S /\ t \in Seq(S) /\ Len(t) = Len(s) - 1
        /\ \A i \in 1 .. Len(t) : t[i] = s[i + 1]
    BY HeadTailProperties
  <1>3. DOMAIN t = 1 .. Len(t) /\ (t = <<>> => Len(t) = 0) /\ (t # <<>> => Len(t) # 0)
    BY <1>2, LenProperties, EmptySeq
  <1>4. Head(s) = s[1]
    BY <1>1
  <1>5. t # <<>> => Len(t) \in 1 .. Len(t)
    BY <1>1, <1>2, <1>3
  <1> QED BY <1>1, <1>2, <1>3, <1>4, <1>5

\* What is in the sequence of a type is of the type.
LEMMA ElementType ==
    ASSUME NEW S, NEW s \in Seq(S), NEW i \in DOMAIN s
    PROVE  s[i] \in S /\ i \in Nat \ {0}
  BY LenProperties, ElementOfSeq

-----------------------------------------------------------------------------
(* Types of what the steps build.                                            *)

LEMMA BrowserFields ==
    ASSUME NEW b \in Browsers
    PROVE  /\ b.epoch \in Changes /\ b.revision \in Changes /\ b.confirmed \in BOOLEAN
           /\ b.subscribed \in BOOLEAN /\ b.status \in {"unavailable", "ready", "error"}
           /\ b.active \in {NoStream} \union (Connections \X Changes)
           /\ b.retired \in SUBSET (Connections \X Changes) /\ b.cursor \in 0 .. MaxSequence
  BY DEF Browsers

LEMMA SocketFields ==
    ASSUME NEW s \in Sockets
    PROVE  /\ s.conn \in {0} \union Connections /\ s.up \in BOOLEAN
           /\ s.contexts \in Seq(Context) /\ s.events \in Seq(Event)
  BY DEF Sockets

LEMMA ServerFields ==
    ASSUME NEW v \in Servers
    PROVE  /\ v.known \in BOOLEAN /\ v.epoch \in Changes /\ v.revision \in Changes
           /\ v.after \in 0 .. MaxSequence /\ v.relay \in {"none", "starting", "late", "on"}
           /\ v.pc \in {"idle", "read", "send"} /\ v.mode \in {"delta", "resync"}
           /\ v.ext \in 0 .. 1 /\ v.out \in Seq(Event) /\ v.notices \in Nat
           /\ v.sequence \in 0 .. MaxSequence /\ v.fences \in SUBSET (1 .. MaxSequence)
           /\ v.hash \in Hashes
  BY DEF Servers

LEMMA EventFields ==
    ASSUME NEW e \in Event
    PROVE  /\ e.type \in {"resync", "profile", "chan"} /\ e.stream \in Connections \X Changes
           /\ e.epoch \in Changes /\ e.revision \in Changes /\ e.sequence \in 1 .. MaxSequence
           /\ e.content \in Content /\ e.epoch \in Int /\ e.revision \in Int /\ e.sequence \in Int
  <1>1. /\ e.type \in {"resync", "profile", "chan"} /\ e.stream \in Connections \X Changes
        /\ e.epoch \in Changes /\ e.revision \in Changes /\ e.sequence \in 1 .. MaxSequence
        /\ e.content \in Content
    BY DEF Event
  <1>2. \A x \in Changes : x \in Int
    BY ChangesAreNat
  <1>3. \A x \in 1 .. MaxSequence : x \in Int
    BY ChangesAreNat
  <1> QED BY <1>1, <1>2, <1>3

LEMMA ContextFields ==
    ASSUME NEW c \in Context
    PROVE  c.epoch \in Changes /\ c.revision \in Changes /\ c.after \in 0 .. MaxSequence
  BY DEF Context

LEMMA MessageIs ==
    ASSUME NEW b \in Browsers
    PROVE  /\ Message(b) \in Context /\ Message(b).epoch = b.epoch
           /\ Message(b).revision = b.revision /\ Message(b).after = b.cursor
  BY BrowserFields DEF Message, Context

\* A context is put at the end of what is on its way up, when the socket is up.
LEMMA SentIs ==
    ASSUME Types, NEW b \in Browsers
    PROVE  /\ Sent(b) \in Sockets /\ Sent(b).conn = socket.conn /\ Sent(b).up = socket.up
           /\ Sent(b).events = socket.events
           /\ Sent(b).contexts = IF socket.up THEN Append(socket.contexts, Message(b))
                                 ELSE socket.contexts
  <1>1. PICK s \in Sockets : s = socket
    BY DEF Types
  <1>2. PICK c : c = Append(s.contexts, Message(b))
    OBVIOUS
  <1>3. c \in Seq(Context)
    BY <1>2, MessageIs, SocketFields, AppendProperties
  <1>4. CASE s.up
    <2>1. Sent(b) = [s EXCEPT !.contexts = c]
      BY <1>1, <1>2, <1>4 DEF Sent
    <2>2. [s EXCEPT !.contexts = c] \in Sockets
      BY <1>3 DEF Sockets
    <2> QED BY <1>1, <1>2, <1>4, <2>1, <2>2 DEF Sockets
  <1>5. CASE ~s.up
    BY <1>1, <1>5 DEF Sent
  <1> QED BY <1>4, <1>5

\* The browser without the stream it follows.
LEMMA WithoutStreamIs ==
    ASSUME NEW b \in Browsers, NEW u, u = WithoutStream(b)
    PROVE  /\ u \in Browsers /\ u.active = NoStream
           /\ b.retired \subseteq u.retired /\ (b.active # NoStream => b.active \in u.retired)
           /\ u.epoch = b.epoch /\ u.revision = b.revision /\ u.confirmed = b.confirmed
           /\ u.subscribed = b.subscribed /\ u.status = b.status /\ u.cursor = b.cursor
  <1>1. PICK r : r = b.retired \union ({b.active} \ {NoStream})
    OBVIOUS
  <1>2. b.active # NoStream => b.active \in Connections \X Changes
    BY BrowserFields
  <1>3. r \in SUBSET (Connections \X Changes)
    BY <1>1, <1>2, BrowserFields
  <1>5. PICK n : n = NoStream
    OBVIOUS
  <1>6. u = [b EXCEPT !.retired = r, !.active = n]
    BY <1>1, <1>5 DEF WithoutStream
  <1>7. u \in Browsers /\ u.active = n /\ u.retired = r
    BY <1>3, <1>5, <1>6 DEF Browsers
  <1>8. /\ u.epoch = b.epoch /\ u.revision = b.revision /\ u.confirmed = b.confirmed
        /\ u.subscribed = b.subscribed /\ u.status = b.status /\ u.cursor = b.cursor
    BY <1>6 DEF Browsers
  <1> QED BY <1>1, <1>5, <1>7, <1>8

\* The event of a batch at place `i`.
SentEvent(type, i, content) ==
    [type |-> type, stream |-> Stream(socket.conn, server.epoch), epoch |-> server.epoch,
     revision |-> server.revision, sequence |-> server.sequence + i, content |-> content]

LEMMA SentEventIs ==
    ASSUME Types, socket.conn \in Connections, NEW content \in Content, NEW i \in {1, 2},
           server.sequence + i <= MaxSequence, NEW type \in {"resync", "profile", "chan"},
           NEW e, e = SentEvent(type, i, content)
    PROVE  /\ e \in Event /\ e.type = type /\ e.stream = Stream(socket.conn, server.epoch)
           /\ e.epoch = server.epoch /\ e.revision = server.revision
           /\ e.sequence = server.sequence + i /\ e.content = content
  <1>1. PICK v \in Servers : v = server
    BY DEF Types
  <1>2. v.epoch \in Changes /\ v.revision \in Changes /\ v.sequence \in 0 .. MaxSequence
    BY <1>1, ServerFields
  <1>3. v.sequence + i \in 1 .. MaxSequence
    BY <1>1, <1>2, ChangesAreNat
  <1>4. Stream(socket.conn, v.epoch) \in Connections \X Changes
    BY <1>2 DEF Stream
  <1> QED BY <1>1, <1>2, <1>3, <1>4 DEF SentEvent, Event

\* A batch is a resync, or nothing when the hash is the same, or both channels.
LEMMA BatchIs ==
    ASSUME NEW content
    PROVE  /\ server.mode = "resync" => Events(content) = <<SentEvent("resync", 1, content)>>
           /\ (server.mode # "resync" /\ server.hash = Hash(content)) => Events(content) = <<>>
           /\ (server.mode # "resync" /\ server.hash # Hash(content)) =>
                 Events(content) = <<SentEvent("profile", 1, content), SentEvent("chan", 2, content)>>
  <1> DEFINE one == <<"resync">>
             two == <<"profile", "chan">>
             F(types) == [i \in DOMAIN types |-> SentEvent(types[i], i, content)]
  <1>1. Events(content) = F(IF server.mode = "resync" THEN one
                            ELSE IF server.hash = Hash(content) THEN <<>> ELSE two)
    BY DEF Events, SentEvent
  <1>2. F(one) = <<SentEvent("resync", 1, content)>>
    OBVIOUS
  <1>3. F(<<>>) = <<>>
    OBVIOUS
  <1>4. F(two) = <<SentEvent("profile", 1, content), SentEvent("chan", 2, content)>>
    OBVIOUS
  <1> HIDE DEF F, one, two
  <1> QED BY <1>1, <1>2, <1>3, <1>4

-----------------------------------------------------------------------------
(* What the steps do, field by field.                                        *)

\* The set of changes is closed under what an upset allows.
LEMMA UpsetIs ==
    ASSUME Types, Upset
    PROVE  /\ upsets' = upsets + 1 /\ upsets' \in Changes
           /\ \A x \in Changes : x <= upsets => x + 1 \in Changes
           /\ upsets + 1 \in Connections
  <1>1. PICK n \in Nat, u \in Nat : n = MaxUpsets /\ u = upsets /\ u <= n
    BY BoundsAssumption DEF Types, Changes
  <1>2. u < n /\ upsets' = u + 1
    BY <1>1 DEF Upset
  <1>3. u + 1 \in 0 .. n /\ u + 1 \in 1 .. n + 1 /\ \A x \in 0 .. n : x <= u => x + 1 \in 0 .. n
    BY <1>2
  <1> QED BY <1>1, <1>2, <1>3 DEF Changes, Connections

\* A browser that confirms keeps everything else.
LEMMA ConfirmIs ==
    ASSUME Types, Confirm
    PROVE  /\ browser' \in Browsers /\ fetch' \in Fetches
           /\ browser'.epoch = browser.epoch /\ browser'.revision = browser.revision
           /\ browser'.status = browser.status /\ browser'.active = browser.active
           /\ browser'.retired = browser.retired /\ browser'.cursor = browser.cursor
           /\ fetch'.at = "sent" /\ fetch'.epoch = browser.epoch
  <1>1. PICK b \in Browsers, f \in Fetches, yes \in BOOLEAN : b = browser /\ f = fetch /\ yes = TRUE
    BY DEF Types
  <1>2. PICK u : u = [b EXCEPT !.confirmed = yes, !.subscribed = yes]
    OBVIOUS
  <1>3. /\ u \in Browsers /\ u.epoch = b.epoch /\ u.revision = b.revision /\ u.status = b.status
        /\ u.active = b.active /\ u.retired = b.retired /\ u.cursor = b.cursor
    BY <1>2 DEF Browsers
  <1>4. PICK g : g = [f EXCEPT !.at = "sent", !.epoch = b.epoch, !.revision = b.revision]
    OBVIOUS
  <1>5. g \in Fetches /\ g.at = "sent" /\ g.epoch = b.epoch
    BY <1>4, BrowserFields DEF Fetches
  <1>6. browser' = u /\ fetch' = g
    BY <1>1, <1>2, <1>4 DEF Confirm
  <1> QED BY <1>1, <1>3, <1>5, <1>6

\* Another symbol: the next epoch, no stream, nothing shown as ready.
LEMMA ChangeSymbolIs ==
    ASSUME Types, CountsOK, ChangeSymbol
    PROVE  /\ browser' \in Browsers
           /\ browser'.epoch = browser.epoch + 1 /\ browser'.revision = browser.revision
           /\ browser'.status = "unavailable" /\ browser'.active = NoStream /\ browser'.cursor = 0
           /\ floor' = DataOf(browser'.epoch)
  <1>1. PICK b \in Browsers : b = browser
    BY DEF Types
  <1>2. PICK w : w = WithoutStream(b)
    OBVIOUS
  <1>3. w \in Browsers /\ w.epoch = b.epoch /\ w.revision = b.revision /\ w.active = NoStream
    BY <1>2, WithoutStreamIs
  <1>4. PICK new \in Changes : new = b.epoch + 1
    BY <1>1, BrowserFields, UpsetIs DEF CountsOK, ChangeSymbol
  <1>5. PICK u : u = [w EXCEPT !.epoch = @ + 1, !.status = "unavailable", !.cursor = 0]
    OBVIOUS
  <1>6. PICK none \in 0 .. MaxSequence : none = 0
    BY ChangesAreNat
  <1>7. u = [w EXCEPT !.epoch = new, !.status = "unavailable", !.cursor = none]
    BY <1>3, <1>4, <1>5, <1>6
  <1>8. /\ u \in Browsers /\ u.epoch = new /\ u.revision = w.revision
        /\ u.status = "unavailable" /\ u.active = w.active /\ u.cursor = none
    BY <1>3, <1>7 DEF Browsers
  <1>9. browser' = u
    BY <1>1, <1>2, <1>5 DEF ChangeSymbol
  <1>10. floor' = data[SymbolOf(b.epoch + 1)]
    BY <1>1 DEF ChangeSymbol
  <1> QED BY <1>1, <1>3, <1>4, <1>6, <1>8, <1>9, <1>10 DEF DataOf

\* Another watchlist: the next revision.
LEMMA ChangeWatchlistIs ==
    ASSUME Types, CountsOK, ChangeWatchlist
    PROVE  /\ browser' \in Browsers
           /\ browser'.epoch = browser.epoch /\ browser'.revision = browser.revision + 1
           /\ browser'.status = browser.status /\ browser'.active = browser.active
           /\ browser'.retired = browser.retired /\ browser'.cursor = browser.cursor
  <1>1. PICK b \in Browsers, yes \in BOOLEAN : b = browser /\ yes = TRUE
    BY DEF Types
  <1>2. PICK r \in Changes : r = b.revision + 1
    BY <1>1, BrowserFields, UpsetIs DEF CountsOK, ChangeWatchlist
  <1>3. PICK u : u = [b EXCEPT !.revision = r, !.subscribed = yes]
    OBVIOUS
  <1>4. /\ u \in Browsers /\ u.epoch = b.epoch /\ u.revision = r /\ u.status = b.status
        /\ u.active = b.active /\ u.retired = b.retired /\ u.cursor = b.cursor
    BY <1>3 DEF Browsers
  <1>5. browser' = u
    BY <1>1, <1>2, <1>3 DEF ChangeWatchlist
  <1> QED BY <1>1, <1>2, <1>4, <1>5

\* The bootstrap's answer carries the data of its symbol.
LEMMA AnswerIs ==
    ASSUME Types, AnswerBootstrap
    PROVE  /\ fetch' \in Fetches /\ fetch'.at = "answered" /\ fetch'.epoch = fetch.epoch
           /\ fetch'.content = DataOf(fetch.epoch)
  <1>1. PICK f \in Fetches : f = fetch
    BY DEF Types
  <1>2. f.epoch \in Changes
    BY DEF Fetches
  <1>3. PICK c \in Content : c = DataOf(f.epoch)
    BY <1>2, DataType
  <1>4. PICK g : g = [f EXCEPT !.at = "answered", !.content = c]
    OBVIOUS
  <1>5. g \in Fetches /\ g.at = "answered" /\ g.epoch = f.epoch /\ g.content = c
    BY <1>4 DEF Fetches
  <1>6. fetch' = g
    BY <1>1, <1>3, <1>4 DEF AnswerBootstrap, DataOf
  <1> QED BY <1>1, <1>3, <1>5, <1>6

\* A fetch that is over has nothing to answer.
LEMMA DoneIs ==
    ASSUME NEW f, f = [NoFetch EXCEPT !.at = "done"]
    PROVE  f \in Fetches /\ f.at = "done" /\ f.epoch = 0
  <1>1. PICK c \in Content, z \in Changes : c = Nothing /\ z = 0
    BY NothingIsContent, ChangesAreNat
  <1>2. PICK n : n = [at |-> "none", epoch |-> z, revision |-> z, content |-> c]
    OBVIOUS
  <1>3. f = [n EXCEPT !.at = "done"]
    BY <1>1, <1>2 DEF NoFetch
  <1>4. n \in Fetches /\ n.epoch = z
    BY <1>2 DEF Fetches
  <1>5. f \in Fetches /\ f.at = "done" /\ f.epoch = z
    BY <1>3, <1>4 DEF Fetches
  <1> QED BY <1>1, <1>5

\* The bootstrap's answer for the present context is shown, without a stream.
LEMMA AcceptIs ==
    ASSUME Types, AcceptBootstrap
    PROVE  /\ fetch' \in Fetches /\ fetch'.at = "done" /\ fetch'.epoch = 0
           /\ \/ browser' = browser /\ shown' = shown
              \/ /\ fetch.at = "answered" /\ fetch.epoch = browser.epoch
                 /\ browser' \in Browsers
                 /\ browser'.epoch = browser.epoch /\ browser'.revision = browser.revision
                 /\ browser'.status = "ready" /\ browser'.active = NoStream
                 /\ browser'.cursor = browser.cursor
                 /\ browser.retired \subseteq browser'.retired
                 /\ browser.active # NoStream => browser.active \in browser'.retired
                 /\ shown' \in [Symbols -> Content]
                 /\ \A s \in Symbols : shown'[s] = IF s = SymbolOf(browser.epoch) THEN fetch.content
                                                   ELSE Nothing
  <1>1. fetch' \in Fetches /\ fetch'.at = "done" /\ fetch'.epoch = 0
    BY DoneIs DEF AcceptBootstrap
  <1>2. CASE ~(fetch.epoch = browser.epoch /\ fetch.revision = browser.revision)
    BY <1>1, <1>2 DEF AcceptBootstrap
  <1>3. CASE fetch.epoch = browser.epoch /\ fetch.revision = browser.revision
    <2>1. PICK b \in Browsers, f \in Fetches : b = browser /\ f = fetch
      BY DEF Types
    <2>2. PICK w : w = WithoutStream(b)
      OBVIOUS
    <2>3. /\ w \in Browsers /\ w.epoch = b.epoch /\ w.revision = b.revision /\ w.active = NoStream
          /\ b.retired \subseteq w.retired /\ (b.active # NoStream => b.active \in w.retired)
          /\ w.cursor = b.cursor
      BY <2>2, WithoutStreamIs
    <2>4. PICK u : u = [w EXCEPT !.status = "ready"]
      OBVIOUS
    <2>5. /\ u \in Browsers /\ u.epoch = w.epoch /\ u.revision = w.revision /\ u.status = "ready"
          /\ u.active = w.active /\ u.retired = w.retired /\ u.cursor = w.cursor
      BY <2>3, <2>4 DEF Browsers
    <2>6. browser' = u
      BY <1>3, <2>1, <2>2, <2>4 DEF AcceptBootstrap
    <2>7. shown' = [s \in Symbols |-> IF s = SymbolOf(browser.epoch) THEN fetch.content ELSE Nothing]
      BY <1>3 DEF AcceptBootstrap
    <2>8. fetch.content \in Content /\ Nothing \in Content
      BY <2>1, NothingIsContent DEF Fetches
    <2>9. /\ shown' \in [Symbols -> Content]
          /\ \A s \in Symbols : shown'[s] = IF s = SymbolOf(browser.epoch) THEN fetch.content ELSE Nothing
      BY <2>7, <2>8
    <2>10. fetch.at = "answered"
      BY DEF AcceptBootstrap
    <2> QED BY <1>1, <1>3, <2>1, <2>3, <2>5, <2>6, <2>9, <2>10
  <1> QED BY <1>2, <1>3

\* A failure marks the sidebar and wipes what was fetched.
LEMMA FailIs ==
    ASSUME Types, FailBootstrap
    PROVE  /\ fetch' \in Fetches /\ fetch'.at = "done" /\ fetch'.epoch = 0
           /\ browser' \in Browsers
           /\ browser'.epoch = browser.epoch /\ browser'.revision = browser.revision
           /\ browser'.status = "error" /\ browser'.active = browser.active
           /\ browser'.retired = browser.retired /\ browser'.cursor = browser.cursor
           /\ shown' \in [Symbols -> Content]
           /\ \A s \in Symbols : AtMost(shown'[s], shown[s])
  <1>1. fetch' \in Fetches /\ fetch'.at = "done" /\ fetch'.epoch = 0
    BY DoneIs DEF FailBootstrap
  <1>2. PICK b \in Browsers : b = browser
    BY DEF Types
  <1>3. PICK u : u = [b EXCEPT !.status = "error"]
    OBVIOUS
  <1>4. /\ u \in Browsers /\ u.epoch = b.epoch /\ u.revision = b.revision /\ u.status = "error"
        /\ u.active = b.active /\ u.retired = b.retired /\ u.cursor = b.cursor
    BY <1>3 DEF Browsers
  <1>5. browser' = u
    BY <1>2, <1>3 DEF FailBootstrap
  <1>6. ASSUME NEW s \in Symbols, NEW c \in Content, c = shown[s]
        PROVE  [c EXCEPT !.ext = 0] \in Content /\ AtMost([c EXCEPT !.ext = 0], c)
    <2>1. PICK d : d = [c EXCEPT !.ext = 0]
      OBVIOUS
    <2>2. d \in Content /\ d.ext = 0 /\ d.loc = c.loc
      BY <2>1 DEF Content
    <2>3. c.ext \in 0 .. 1 /\ c.loc \in Int
      BY ContentType
    <2> QED BY <2>1, <2>2, <2>3 DEF AtMost
  <1>7. shown' = [s \in Symbols |-> [shown[s] EXCEPT !.ext = 0]]
    BY DEF FailBootstrap
  <1>8. \A s \in Symbols : shown[s] \in Content
    BY DEF Types
  <1>9. \A s \in Symbols : shown'[s] \in Content /\ AtMost(shown'[s], shown[s])
    BY <1>6, <1>7, <1>8
  <1>10. shown' \in [Symbols -> Content]
    BY <1>7, <1>9
  <1> QED BY <1>1, <1>2, <1>4, <1>5, <1>9, <1>10

\* A socket with other events on their way down.
LEMMA SocketMoves ==
    ASSUME NEW t \in Sockets, NEW es \in Seq(Event), NEW s, s = [t EXCEPT !.events = es]
    PROVE  /\ s \in Sockets /\ s.conn = t.conn /\ s.up = t.up /\ s.events = es
           /\ s.contexts = t.contexts
  BY DEF Sockets

\* The event at the head of the socket.
LEMMA ReceivedIs ==
    ASSUME Types, Receive
    PROVE  /\ socket.up /\ socket.events # <<>>
           /\ Head(socket.events) \in Event /\ Head(socket.events) = socket.events[1]
           /\ 1 \in DOMAIN socket.events
           /\ missed' = MissedAfter(Head(socket.events))
           /\ missed \subseteq missed' \union {"profile"}
           /\ missed' \subseteq missed \union {"profile"}
  <1>1. socket.events \in Seq(Event) /\ socket.events # <<>> /\ socket.up
    BY SocketFields DEF Types, Receive
  <1>2. PICK t : t = Tail(socket.events)
    OBVIOUS
  <1>3. missed' = MissedAfter(Head(socket.events))
    BY DEF Receive
  <1>4. missed' \in {missed, missed \ {"profile"}, missed \union {"profile"}}
    BY <1>3 DEF MissedAfter
  <1>5. /\ Head(socket.events) \in Event /\ Head(socket.events) = socket.events[1]
        /\ 1 \in DOMAIN socket.events
    BY <1>1, <1>2, TailIs
  <1>6. missed \subseteq missed' \union {"profile"} /\ missed' \subseteq missed \union {"profile"}
    BY <1>4
  <1> QED BY <1>1, <1>3, <1>5, <1>6

\* The browser after an event that fits: it follows the event's stream.
LEMMA AcceptedIs ==
    ASSUME Types, NEW ev \in Event, NEW u, u = Accepted(ev)
    PROVE  /\ u \in Browsers
           /\ u.epoch = browser.epoch /\ u.revision = browser.revision
           /\ u.active = ev.stream /\ u.cursor = ev.sequence
           /\ browser.retired \subseteq u.retired
           /\ u.retired \subseteq browser.retired \union {browser.active}
           /\ browser.active # NoStream /\ browser.active # ev.stream => browser.active \in u.retired
           /\ browser.active = ev.stream => u.retired = browser.retired
           /\ u.status = IF ev.type = "chan" THEN browser.status ELSE "ready"
  <1>1. PICK b \in Browsers : b = browser
    BY DEF Types
  <1>2. PICK r : r = b.retired \union ({b.active} \ {NoStream, ev.stream})
    OBVIOUS
  <1>3. b.active # NoStream => b.active \in Connections \X Changes
    BY BrowserFields
  <1>4. r \in SUBSET (Connections \X Changes)
    BY <1>2, <1>3, BrowserFields
  <1>5. PICK st \in {"unavailable", "ready", "error"} : st = IF ev.type = "chan" THEN b.status ELSE "ready"
    BY BrowserFields
  <1>6. PICK a \in Connections \X Changes, q \in 0 .. MaxSequence : a = ev.stream /\ q = ev.sequence
    BY EventFields, ChangesAreNat
  <1>7. u = [b EXCEPT !.active = a, !.cursor = q, !.retired = r, !.status = st]
    BY <1>1, <1>2, <1>5, <1>6 DEF Accepted
  <1>8. /\ u \in Browsers /\ u.epoch = b.epoch /\ u.revision = b.revision /\ u.active = a
        /\ u.cursor = q /\ u.retired = r /\ u.status = st
    BY <1>4, <1>7 DEF Browsers
  <1> QED BY <1>1, <1>2, <1>5, <1>6, <1>8

\* What is shown after an event that fits.
LEMMA ShownIs ==
    ASSUME Types, NEW ev \in Event, NEW u, u = ShownAfter(ev),
           NEW chart, chart = SymbolOf(browser.epoch)
    PROVE  /\ u \in [Symbols -> Content] /\ chart \in Symbols
           /\ ev.type # "chan" => u[chart] = ev.content
           /\ ev.type = "chan" => u[chart].ext = shown[chart].ext /\ u[chart].loc = ev.content.loc
           /\ \A s \in Symbols : s # chart => u[s] \in {shown[s], Nothing}
  <1>1. PICK c \in Content : c = ev.content
    BY EventFields
  <1>2. chart \in Symbols
    BY BrowserFields, ChangesAreNat, SymbolType DEF Types
  <1>3. PICK f \in [Symbols -> Content], none \in Content : f = shown /\ none = Nothing
    BY NothingIsContent DEF Types
  <1>4. ev.type \in {"resync", "profile", "chan"}
    BY EventFields
  <1>5. CASE ev.type = "resync"
    <2>1. u = [s \in Symbols |-> IF s = chart THEN c ELSE none]
      BY <1>1, <1>3, <1>5 DEF ShownAfter
    <2> QED BY <1>1, <1>2, <1>3, <1>5, <2>1
  <1>6. CASE ev.type = "profile"
    <2>1. u = [f EXCEPT ![chart] = c]
      BY <1>1, <1>3, <1>6 DEF ShownAfter
    <2> QED BY <1>1, <1>2, <1>3, <1>6, <2>1
  <1>7. CASE ev.type = "chan"
    <2>1. u = [f EXCEPT ![chart].loc = c.loc]
      BY <1>1, <1>3, <1>7 DEF ShownAfter
    <2>2. PICK d \in Content : d = f[chart]
      BY <1>2
    <2>3. PICK e : e = [d EXCEPT !.loc = c.loc]
      OBVIOUS
    <2>4. e \in Content /\ e.ext = d.ext /\ e.loc = c.loc
      BY <2>3, ContentType DEF Content
    <2>5. u = [f EXCEPT ![chart] = e]
      BY <2>1, <2>2, <2>3
    <2> QED BY <1>1, <1>2, <1>3, <1>7, <2>2, <2>4, <2>5
  <1> QED BY <1>4, <1>5, <1>6, <1>7

\* Receiving takes one event and sends the context of the browser after it.
LEMMA ReceiveIs ==
    ASSUME Types, Receive, NEW ev, ev = Head(socket.events)
    PROVE  /\ \/ ~Fits(ev) /\ browser' = browser /\ shown' = shown
              \/ Fits(ev) /\ browser' = Accepted(ev) /\ shown' = ShownAfter(ev)
           /\ browser' \in Browsers /\ shown' \in [Symbols -> Content]
           /\ browser'.epoch = browser.epoch /\ browser'.revision = browser.revision
           /\ socket' \in Sockets /\ socket'.conn = socket.conn /\ socket'.up = socket.up
           /\ socket'.contexts = Append(socket.contexts, Message(browser'))
           /\ socket'.events = Tail(socket.events)
  <1>1. ev \in Event
    BY ReceivedIs
  <1>2. \/ ~Fits(ev) /\ browser' = browser /\ shown' = shown
        \/ Fits(ev) /\ browser' = Accepted(ev) /\ shown' = ShownAfter(ev)
    BY DEF Receive
  <1>3. /\ browser' \in Browsers /\ shown' \in [Symbols -> Content]
        /\ browser'.epoch = browser.epoch /\ browser'.revision = browser.revision
    BY <1>1, <1>2, AcceptedIs, ShownIs DEF Types
  <1>4. PICK b \in Browsers : b = browser'
    BY <1>3
  <1>5. socket.events \in Seq(Event) /\ socket.events # <<>> /\ socket.up
    BY SocketFields DEF Types, Receive
  <1>6. PICK t \in Seq(Event) : t = Tail(socket.events)
    BY <1>5, TailIs
  <1>7. PICK u \in Sockets : /\ u = Sent(b) /\ u.events = socket.events
                             /\ u.conn = socket.conn /\ u.up = socket.up
    BY SentIs
  <1>8. /\ socket' \in Sockets /\ socket'.conn = socket.conn /\ socket'.up = socket.up
        /\ socket'.events = t /\ socket'.contexts = Sent(b).contexts
    <2>1. PICK s : s = [u EXCEPT !.events = t]
      OBVIOUS
    <2>2. s \in Sockets /\ s.conn = u.conn /\ s.up = u.up /\ s.events = t /\ s.contexts = u.contexts
      BY <2>1, SocketMoves
    <2>3. socket' = [Sent(browser') EXCEPT !.events = Tail(Sent(browser').events)]
      BY DEF Receive
    <2>4. socket' = s
      BY <1>4, <1>6, <1>7, <2>1, <2>3
    <2> QED BY <1>7, <2>2, <2>4
  <1>9. Sent(b).contexts = Append(socket.contexts, Message(b))
    BY <1>5, SentIs
  <1> QED BY <1>2, <1>3, <1>4, <1>6, <1>8, <1>9

\* The server without a context.
LEMMA IdleServerIs ==
    ASSUME NEW v, v = IdleServer
    PROVE  /\ v \in Servers /\ ~v.known /\ v.epoch = 0 /\ v.revision = 0 /\ v.relay = "none"
           /\ v.pc = "idle" /\ v.out = <<>> /\ v.notices = 0 /\ v.sequence = 0 /\ v.fences = {}
           /\ v.hash = <<>> /\ v.after = 0 /\ v.mode = "delta" /\ v.ext = 0
  <1>1. PICK no \in BOOLEAN, z \in Changes, q \in 0 .. MaxSequence, o \in Seq(Event),
             n \in Nat, f \in SUBSET (1 .. MaxSequence), h \in Hashes, x \in 0 .. 1 :
            no = FALSE /\ z = 0 /\ q = 0 /\ o = <<>> /\ n = 0 /\ f = {} /\ h = <<>> /\ x = 0
    <2>1. 0 \in 0 .. MaxSequence /\ 0 \in 0 .. 1 /\ 0 \in Changes /\ <<>> \in Hashes
      BY ChangesAreNat DEF Hashes
    <2>2. <<>> \in Seq(Event) /\ {} \in SUBSET (1 .. MaxSequence)
      BY EmptySeq
    <2> QED BY <2>1, <2>2
  <1>2. v = [known |-> no, epoch |-> z, revision |-> z, after |-> q, relay |-> "none",
             pc |-> "idle", mode |-> "delta", ext |-> x, out |-> o, notices |-> n,
             sequence |-> q, fences |-> f, hash |-> h]
    BY <1>1 DEF IdleServer
  <1>3. v \in Servers
    BY <1>2 DEF Servers
  <1>4. /\ v.known = no /\ v.epoch = z /\ v.revision = z /\ v.relay = "none"
        /\ v.pc = "idle" /\ v.out = o /\ v.notices = n /\ v.sequence = q /\ v.fences = f
        /\ v.hash = h /\ v.after = q /\ v.mode = "delta" /\ v.ext = x
    BY <1>2
  <1> QED BY <1>1, <1>3, <1>4

\* A new connection carries the context, and nothing yet that was sent on it.
LEMMA ConnectIs ==
    ASSUME Types, CountsOK, Connect
    PROVE  /\ ~socket.up /\ socket' \in Sockets /\ socket'.up /\ socket'.conn = socket.conn + 1
           /\ socket'.conn \in Connections
           /\ socket'.contexts = <<Message(browser)>> /\ socket'.events = <<>>
  <1>1. PICK yes \in BOOLEAN : yes = TRUE
    OBVIOUS
  <1>2. PICK n \in {0} \union Connections, u \in Changes : n = socket.conn /\ u = upsets /\ n <= u
    BY SocketFields DEF Types, CountsOK, Connect
  <1>3. n = socket.conn /\ u = upsets /\ n <= u /\ u \in Nat /\ u <= MaxUpsets
    BY <1>2, ChangesAreNat DEF Changes
  <1>4. n \in Nat
    BY <1>2, ChangesAreNat
  <1>5. PICK c \in Connections : c = n + 1
    BY <1>3, <1>4, ChangesAreNat DEF Connections
  <1>6. PICK m \in Context : m = Message(browser)
    BY MessageIs DEF Types
  <1>7. PICK cs \in Seq(Context), es \in Seq(Event) : cs = <<m>> /\ es = <<>>
    <2>1. <<m>> \in Seq(Context) /\ <<>> \in Seq(Event)
      BY EmptySeq
    <2> QED BY <2>1
  <1>8. PICK s : s = [conn |-> c, up |-> yes, contexts |-> cs, events |-> es]
    OBVIOUS
  <1>9. s \in Sockets /\ s.up = yes /\ s.conn = c /\ s.contexts = cs /\ s.events = es
    BY <1>8 DEF Sockets
  <1>10. ~socket.up /\ socket' = s
    BY <1>1, <1>3, <1>5, <1>6, <1>7, <1>8 DEF Connect
  <1> QED BY <1>1, <1>3, <1>5, <1>6, <1>7, <1>9, <1>10

\* What a closed socket carried is lost, and the server forgets its context.
LEMMA DisconnectIs ==
    ASSUME Types, Disconnect
    PROVE  /\ socket.up /\ socket' \in Sockets /\ ~socket'.up /\ socket'.conn = socket.conn
           /\ socket'.contexts = <<>> /\ socket'.events = <<>>
           /\ server' = IdleServer /\ upsets' = upsets + 1
  <1>1. PICK t \in Sockets, no \in BOOLEAN : t = socket /\ no = FALSE
    BY DEF Types
  <1>2. PICK cs \in Seq(Context), es \in Seq(Event) : cs = <<>> /\ es = <<>>
    BY EmptySeq
  <1>3. PICK s : s = [t EXCEPT !.up = no, !.contexts = cs, !.events = es]
    OBVIOUS
  <1>4. s \in Sockets /\ s.up = no /\ s.conn = t.conn /\ s.contexts = cs /\ s.events = es
    BY <1>3 DEF Sockets
  <1>5. socket' = s
    BY <1>1, <1>2, <1>3 DEF Disconnect
  <1>6. socket.up /\ server' = IdleServer /\ upsets' = upsets + 1
    BY DEF Disconnect, Upset
  <1> QED BY <1>1, <1>2, <1>4, <1>5, <1>6

\* The server takes a context; it keeps its streams if the epoch is the same.
LEMMA HandleIs ==
    ASSUME Types, HandleContext
    PROVE  \E m \in Context :
              /\ socket.contexts # <<>> /\ m = socket.contexts[1] /\ 1 \in DOMAIN socket.contexts
              /\ socket' \in Sockets /\ socket'.conn = socket.conn /\ socket'.up = socket.up
              /\ socket'.contexts = Tail(socket.contexts) /\ socket'.events = socket.events
              /\ server' \in Servers /\ server'.known /\ server'.epoch = m.epoch
              /\ server'.revision = m.revision /\ server'.pc = "idle" /\ server'.out = <<>>
              /\ server'.notices = 1 /\ server'.relay = "starting" /\ server'.after = m.after
              /\ \/ /\ server.known /\ server.epoch = m.epoch
                    /\ server'.sequence = server.sequence /\ server'.hash = server.hash
                 \/ /\ ~(server.known /\ server.epoch = m.epoch)
                    /\ server'.sequence = 0 /\ server'.hash = <<>>
  <1>1. PICK s \in Sockets : s = socket
    BY DEF Types
  <1>2. s.contexts \in Seq(Context) /\ s.contexts # <<>>
    BY <1>1, SocketFields DEF HandleContext
  <1>3. PICK tl \in Seq(Context) : tl = Tail(s.contexts)
    BY <1>2, TailIs
  <1>4. PICK m \in Context : m = Head(s.contexts) /\ m = s.contexts[1] /\ 1 \in DOMAIN s.contexts
    BY <1>2, <1>3, TailIs
  <1>5. PICK r : r = [s EXCEPT !.contexts = tl]
    OBVIOUS
  <1>6. r \in Sockets /\ r.conn = s.conn /\ r.up = s.up /\ r.events = s.events /\ r.contexts = tl
    BY <1>5 DEF Sockets
  <1>7. socket' = r
    BY <1>1, <1>3, <1>5 DEF HandleContext
  <1>8. PICK v \in Servers : v = StreamState(m)
    BY IdleServerIs DEF StreamState, Types
  <1>9. PICK yes \in BOOLEAN, o \in Seq(Event), one \in Nat, x \in 0 .. 1 :
            yes = TRUE /\ o = <<>> /\ one = 1 /\ x = 0
    <2>1. <<>> \in Seq(Event) /\ 1 \in Nat /\ 0 \in 0 .. 1
      BY EmptySeq
    <2> QED BY <2>1
  <1>10. PICK w : w = [v EXCEPT !.known = yes, !.epoch = m.epoch, !.revision = m.revision,
                                !.after = m.after, !.relay = "starting", !.pc = "idle",
                                !.ext = x, !.out = o, !.notices = one]
    OBVIOUS
  <1>11. /\ w \in Servers /\ w.known = yes /\ w.epoch = m.epoch /\ w.revision = m.revision
         /\ w.pc = "idle" /\ w.out = o /\ w.notices = one /\ w.relay = "starting" /\ w.after = m.after
         /\ w.sequence = v.sequence /\ w.hash = v.hash
    BY <1>10, ContextFields DEF Servers
  <1>12. server' = w
    BY <1>1, <1>4, <1>8, <1>9, <1>10 DEF HandleContext
  <1>13. \/ /\ server.known /\ server.epoch = m.epoch
            /\ v.sequence = server.sequence /\ v.hash = server.hash
         \/ /\ ~(server.known /\ server.epoch = m.epoch)
            /\ v.sequence = 0 /\ v.hash = <<>>
    BY <1>8, IdleServerIs DEF StreamState
  <1>14. /\ socket' \in Sockets /\ socket'.conn = socket.conn /\ socket'.up = socket.up
         /\ socket'.contexts = Tail(socket.contexts) /\ socket'.events = socket.events
    BY <1>1, <1>3, <1>6, <1>7
  <1>15. /\ server' \in Servers /\ server'.known /\ server'.epoch = m.epoch
         /\ server'.revision = m.revision /\ server'.pc = "idle" /\ server'.out = <<>>
         /\ server'.notices = 1 /\ server'.relay = "starting" /\ server'.after = m.after
         /\ server'.sequence = v.sequence /\ server'.hash = v.hash
    BY <1>9, <1>11, <1>12
  <1>16. m = socket.contexts[1] /\ socket.contexts # <<>> /\ 1 \in DOMAIN socket.contexts
    BY <1>1, <1>2, <1>4
  <1> WITNESS m \in Context
  <1> QED BY <1>13, <1>14, <1>15, <1>16

\* The server as far as the events it sent and will send are concerned.
Alike(v, w) ==
    /\ w.known = v.known /\ w.epoch = v.epoch /\ w.revision = v.revision /\ w.after = v.after
    /\ w.pc = v.pc /\ w.mode = v.mode /\ w.ext = v.ext /\ w.out = v.out /\ w.sequence = v.sequence /\ w.hash = v.hash

LEMMA RelayIs ==
    ASSUME NEW v \in Servers, NEW r \in {"none", "starting", "late", "on"}, NEW w,
           w = [v EXCEPT !.relay = r]
    PROVE  w \in Servers /\ Alike(v, w) /\ w.notices = v.notices /\ w.relay = r
  BY DEF Servers, Alike

LEMMA NoticesIs ==
    ASSUME NEW v \in Servers, NEW n \in Nat, NEW w, w = [v EXCEPT !.notices = n]
    PROVE  w \in Servers /\ Alike(v, w) /\ w.notices = n /\ w.relay = v.relay
  BY DEF Servers, Alike

LEMMA AlikeSame == ASSUME NEW v PROVE Alike(v, v)
  BY DEF Alike

\* The data of a symbol never goes back.
Grows == \A s \in Symbols : AtMost(data[s], data'[s])

LEMMA StaysGrows == ASSUME Types, data' = data PROVE Grows
  BY AtMostOrders DEF Types, Grows

\* A step that sends nothing and shows nothing.
Quiet ==
    /\ UNCHANGED <<browser, shown, socket, floor>>
    /\ server' \in Servers /\ Alike(server, server') /\ (server' # server => server.known)
    /\ data' \in [Symbols -> Content] /\ Grows

\* A relay, a notice or a read is that of a context.
LEMMA ContextIsKnown ==
    ASSUME Types, SocketOK
    PROVE  server.relay # "none" \/ server.notices # 0 \/ server.pc # "idle" => server.known
  BY IdleServerIs DEF SocketOK

LEMMA NotifyIs ==
    ASSUME Types, SocketOK, NEW symbol \in Symbols, NEW part \in {"ext", "loc"},
           NEW matches \in BOOLEAN, Notify(symbol, part, matches)
    PROVE  /\ server' \in Servers /\ Alike(server, server') /\ (server' # server => server.known)
           /\ missed \subseteq missed' /\ missed' \subseteq missed \union {part}
           /\ \/ matches /\ server'.notices = server.notices + 1 /\ missed' = missed
              \/ /\ server' = server
                 /\ (server.known /\ SymbolOf(server.epoch) = symbol) => part \in missed'
  <1>1. PICK v \in Servers : v = server
    BY DEF Types
  <1>2. CASE server.relay = "on" /\ matches
    <2>1. PICK n \in Nat : n = v.notices + 1
      BY ServerFields
    <2>2. PICK w : w = [v EXCEPT !.notices = n]
      OBVIOUS
    <2>3. w \in Servers /\ Alike(v, w) /\ w.notices = n
      BY <2>1, <2>2, NoticesIs
    <2>4. server' = w /\ missed' = missed
      BY <1>1, <1>2, <2>1, <2>2 DEF Notify
    <2>5. server.known
      BY <1>2, ContextIsKnown
    <2> QED BY <1>1, <1>2, <2>1, <2>3, <2>4, <2>5
  <1>3. CASE ~(server.relay = "on" /\ matches)
    <2>1. /\ server' = server
          /\ missed' = IF server.known /\ SymbolOf(server.epoch) = symbol
                       THEN missed \union {part} ELSE missed
      BY <1>3 DEF Notify
    <2> QED BY <1>1, <2>1, AlikeSame
  <1> QED BY <1>2, <1>3

\* The read of the cache: what it found is the present data.
LEMMA ReadCacheIs ==
    ASSUME Types, SocketOK, ReadCache
    PROVE  /\ server.known /\ server.pc = "idle"
           /\ server' \in Servers /\ server'.known /\ server'.epoch = server.epoch
           /\ server'.revision = server.revision /\ server'.pc = "read"
           /\ server'.ext = DataOf(server.epoch).ext /\ server'.out = server.out
           /\ server'.sequence = server.sequence /\ server'.hash = server.hash
           /\ server'.after = server.after /\ (server'.mode = "resync" <=> Mismatch)
           /\ server'.notices = server.notices - 1
  <1>1. PICK v \in Servers : v = server
    BY DEF Types
  <1>2. v.notices \in Nat /\ v.notices > 0 /\ v.pc = "idle"
    BY <1>1, ServerFields DEF ReadCache
  <1>3. server.known
    BY <1>1, <1>2, ContextIsKnown
  <1>4. PICK n \in Nat : n = v.notices - 1
    BY <1>2
  <1>5. PICK x \in 0 .. 1 : x = DataOf(v.epoch).ext
    BY <1>1, ServerFields, DataType, ContentType
  <1>6. PICK md \in {"delta", "resync"} : md = IF Mismatch THEN "resync" ELSE "delta"
    OBVIOUS
  <1>7. PICK fs \in SUBSET (1 .. MaxSequence) : fs = IF Mismatch THEN v.fences \union {v.after} ELSE v.fences
    <2>1. v.fences \in SUBSET (1 .. MaxSequence) /\ v.after \in 0 .. MaxSequence
      BY ServerFields
    <2>2. Mismatch => v.after # 0
      BY <1>1 DEF Mismatch
    <2>3. v.after # 0 => v.after \in 1 .. MaxSequence
      BY <2>1, ChangesAreNat
    <2> QED BY <2>1, <2>2, <2>3
  <1>8. PICK w : w = [v EXCEPT !.notices = n, !.pc = "read", !.ext = x, !.mode = md, !.fences = fs]
    OBVIOUS
  <1>9. /\ w \in Servers /\ w.known = v.known /\ w.epoch = v.epoch /\ w.revision = v.revision
        /\ w.pc = "read" /\ w.ext = x /\ w.out = v.out /\ w.sequence = v.sequence /\ w.hash = v.hash
        /\ w.after = v.after /\ w.mode = md /\ w.notices = n
    BY <1>8 DEF Servers
  <1>10. server' = w
    BY <1>1, <1>4, <1>5, <1>6, <1>7, <1>8 DEF ReadCache, DataOf
  <1> QED BY <1>1, <1>2, <1>3, <1>4, <1>5, <1>6, <1>9, <1>10

\* The read of the local projection makes a content; the hash of another one is replaced,
\* and the first event of the batch is sent.
Found == [ext |-> server.ext, loc |-> DataOf(server.epoch).loc]

LEMMA FoundIs ==
    ASSUME Types
    PROVE  Found \in Content /\ Found.ext = server.ext /\ Found.loc = DataOf(server.epoch).loc
  BY ServerFields, DataType, ContentType DEF Found, Content, Types

LEMMA ReadLocalIs ==
    ASSUME Types, SocketOK, ReadLocal
    PROVE  /\ server.known /\ socket.up /\ socket.conn \in Connections /\ server.pc = "read"
           /\ server' \in Servers /\ server'.known /\ server'.epoch = server.epoch
           /\ server'.revision = server.revision /\ server'.notices = server.notices
           /\ socket' \in Sockets /\ socket'.conn = socket.conn /\ socket'.up = socket.up
           /\ socket'.contexts = socket.contexts
           /\ \/ /\ server.mode # "resync"
                 /\ server'.pc = "idle" /\ server'.hash = Hash(Found)
                 /\ server'.sequence = server.sequence /\ server'.after = server.after
                 /\ server'.out = <<>> /\ server'.hash = server.hash
                 /\ socket'.events = socket.events
              \/ \E type \in {"resync", "profile"} : \E e \in Event :
                    /\ e.type = type /\ e.stream = Stream(socket.conn, server.epoch)
                    /\ e.epoch = server.epoch /\ e.revision = server.revision
                    /\ e.sequence = server.sequence + 1 /\ e.content = Found
                    /\ socket'.events = Append(socket.events, e)
                    /\ server'.after = e.sequence
                    /\ \/ /\ type = "resync" /\ server.mode = "resync" /\ server'.pc = "idle" /\ server'.out = <<>>
                          /\ server'.sequence = server.sequence + 1 /\ server'.hash = server.hash
                       \/ /\ type = "profile" /\ server.mode # "resync" /\ server'.pc = "send"
                          /\ server'.sequence = server.sequence + 2 /\ server'.hash = Hash(Found)
                          /\ \E d \in Event :
                                /\ server'.out = <<d>> /\ d.type = "chan"
                                /\ d.stream = Stream(socket.conn, server.epoch)
                                /\ d.epoch = server.epoch /\ d.revision = server.revision
                                /\ d.sequence = server.sequence + 2 /\ d.content = Found
  <1>1. PICK v \in Servers, s \in Sockets : v = server /\ s = socket
    BY DEF Types
  <1>2. server.pc = "read" /\ server.known /\ socket.up /\ socket.conn \in Connections
    <2>1. server.pc = "read"
      BY DEF ReadLocal
    <2>2. server.known
      BY <2>1, ContextIsKnown
    <2> QED BY <2>1, <2>2 DEF SocketOK
  <1>3. PICK c \in Content : c = Found
    BY FoundIs
  <1>4. PICK es : es = Events(c)
    OBVIOUS
  <1>5. PICK z \in 0 .. 1 : z = 0
    OBVIOUS
  <1>6. PICK h : h = IF v.mode = "resync" THEN v.hash ELSE Hash(c)
    OBVIOUS
  <1>7. h \in Hashes
    <2>1. v.revision \in Changes /\ v.hash \in Hashes
      BY ServerFields
    <2> QED BY <1>1, <1>6, <2>1 DEF Hash, Hashes
  <1>8. /\ v.sequence + Len(es) <= MaxSequence
        /\ server' = [v EXCEPT
               !.pc = IF Len(es) > 1 THEN "send" ELSE "idle", !.hash = h,
               !.sequence = v.sequence + Len(es), !.ext = z, !.mode = "delta",
               !.after = IF es = <<>> THEN v.after ELSE Head(es).sequence,
               !.out = IF es = <<>> THEN <<>> ELSE Tail(es)]
        /\ socket' = [s EXCEPT !.events = IF es = <<>> THEN s.events ELSE Append(s.events, Head(es))]
    BY <1>1, <1>3, <1>4, <1>5, <1>6 DEF ReadLocal, Found, DataOf
  <1>9. ASSUME NEW pc \in {"idle", "send"}, NEW q \in 0 .. MaxSequence, NEW a \in 0 .. MaxSequence,
               NEW o \in Seq(Event), NEW ev \in Seq(Event),
               pc = IF Len(es) > 1 THEN "send" ELSE "idle", q = v.sequence + Len(es),
               a = IF es = <<>> THEN v.after ELSE Head(es).sequence,
               o = IF es = <<>> THEN <<>> ELSE Tail(es),
               ev = IF es = <<>> THEN s.events ELSE Append(s.events, Head(es))
        PROVE  /\ server' \in Servers /\ server'.known /\ server'.epoch = server.epoch
               /\ server'.revision = server.revision /\ server'.notices = server.notices
               /\ server'.pc = pc /\ server'.hash = h /\ server'.sequence = q
               /\ server'.after = a /\ server'.out = o
               /\ socket' \in Sockets /\ socket'.conn = socket.conn /\ socket'.up = socket.up
               /\ socket'.contexts = socket.contexts /\ socket'.events = ev
    <2>1. PICK w : w = [v EXCEPT !.pc = pc, !.hash = h, !.sequence = q, !.ext = z, !.mode = "delta",
                                 !.after = a, !.out = o]
      OBVIOUS
    <2>2. /\ w \in Servers /\ w.known = v.known /\ w.epoch = v.epoch /\ w.revision = v.revision
          /\ w.notices = v.notices /\ w.pc = pc /\ w.hash = h /\ w.sequence = q /\ w.after = a
          /\ w.out = o
      BY <1>7, <2>1 DEF Servers
    <2>3. server' = w
      BY <1>8, <1>9, <2>1
    <2>4. PICK t : t = [s EXCEPT !.events = ev]
      OBVIOUS
    <2>5. /\ t \in Sockets /\ t.conn = s.conn /\ t.up = s.up /\ t.contexts = s.contexts
          /\ t.events = ev
      BY <2>4, SocketMoves
    <2>6. socket' = t
      BY <1>8, <1>9, <2>4
    <2> QED BY <1>1, <1>2, <2>2, <2>3, <2>5, <2>6
  <1>10. v.sequence \in 0 .. MaxSequence /\ v.after \in 0 .. MaxSequence /\ s.events \in Seq(Event)
    BY ServerFields, SocketFields
  <1>11. CASE v.mode # "resync" /\ v.hash = Hash(c)
    <2>1. es = <<>> /\ Len(es) = 0
      BY <1>1, <1>4, <1>11, BatchIs
    <2>2. <<>> \in Seq(Event)
      BY EmptySeq
    <2>3. /\ server' \in Servers /\ server'.known /\ server'.epoch = server.epoch
          /\ server'.revision = server.revision /\ server'.notices = server.notices
          /\ server'.pc = "idle" /\ server'.hash = h /\ server'.sequence = v.sequence
          /\ server'.after = v.after /\ server'.out = <<>>
          /\ socket' \in Sockets /\ socket'.conn = socket.conn /\ socket'.up = socket.up
          /\ socket'.contexts = socket.contexts /\ socket'.events = s.events
      <3>1. PICK pc \in {"idle", "send"}, a \in 0 .. MaxSequence, q \in 0 .. MaxSequence,
                 o \in Seq(Event), ev \in Seq(Event) :
                pc = "idle" /\ a = v.after /\ q = v.sequence /\ o = <<>> /\ ev = s.events
        BY <1>10, <2>2
      <3>2. /\ pc = IF Len(es) > 1 THEN "send" ELSE "idle"
            /\ q = v.sequence + Len(es)
            /\ a = IF es = <<>> THEN v.after ELSE Head(es).sequence
            /\ o = IF es = <<>> THEN <<>> ELSE Tail(es)
            /\ ev = IF es = <<>> THEN s.events ELSE Append(s.events, Head(es))
        BY <1>10, <2>1, <3>1
      <3>3. /\ server' \in Servers /\ server'.known /\ server'.epoch = server.epoch
            /\ server'.revision = server.revision /\ server'.notices = server.notices
            /\ server'.pc = pc /\ server'.hash = h /\ server'.sequence = q
            /\ server'.after = a /\ server'.out = o
            /\ socket' \in Sockets /\ socket'.conn = socket.conn /\ socket'.up = socket.up
            /\ socket'.contexts = socket.contexts /\ socket'.events = ev
        BY <1>9, <3>2, Zenon
      <3> QED BY <3>1, <3>3
    <2> QED BY <1>1, <1>2, <1>3, <1>6, <1>11, <2>3
  <1>12. CASE v.mode = "resync"
    <2>1. PICK e : e = SentEvent("resync", 1, c)
      OBVIOUS
    <2>2. es = <<e>> /\ Len(es) = 1 /\ es # <<>> /\ Head(es) = e /\ Tail(es) = <<>>
      <3>1. es = <<e>>
        BY <1>1, <1>4, <1>12, <2>1, BatchIs
      <3> QED BY <3>1
    <2>3. server.sequence + 1 <= MaxSequence
      BY <1>1, <1>8, <2>2
    <2>4. /\ e \in Event /\ e.type = "resync" /\ e.stream = Stream(socket.conn, server.epoch)
          /\ e.epoch = server.epoch /\ e.revision = server.revision
          /\ e.sequence = server.sequence + 1 /\ e.content = c
      BY <1>2, <2>1, <2>3, SentEventIs
    <2>5. PICK o \in Seq(Event), ev \in Seq(Event), q \in 0 .. MaxSequence :
              o = <<>> /\ ev = Append(s.events, e) /\ q = v.sequence + 1
      <3>1. <<>> \in Seq(Event) /\ Append(s.events, e) \in Seq(Event)
        BY <1>10, <2>4, EmptySeq, AppendProperties
      <3>2. v.sequence + 1 \in 0 .. MaxSequence
        BY <1>1, <1>10, <2>3, ChangesAreNat
      <3> QED BY <3>1, <3>2
    <2>6. e.sequence \in 0 .. MaxSequence
      BY <2>4, EventFields, ChangesAreNat
    <2>7. /\ server' \in Servers /\ server'.known /\ server'.epoch = server.epoch
          /\ server'.revision = server.revision /\ server'.notices = server.notices
          /\ server'.pc = "idle" /\ server'.hash = h /\ server'.sequence = q
          /\ server'.after = e.sequence /\ server'.out = o
          /\ socket' \in Sockets /\ socket'.conn = socket.conn /\ socket'.up = socket.up
          /\ socket'.contexts = socket.contexts /\ socket'.events = ev
      <3>1. PICK pc \in {"idle", "send"}, a \in 0 .. MaxSequence : pc = "idle" /\ a = e.sequence
        BY <2>6
      <3>2. /\ pc = IF Len(es) > 1 THEN "send" ELSE "idle"
            /\ q = v.sequence + Len(es)
            /\ a = IF es = <<>> THEN v.after ELSE Head(es).sequence
            /\ o = IF es = <<>> THEN <<>> ELSE Tail(es)
            /\ ev = IF es = <<>> THEN s.events ELSE Append(s.events, Head(es))
        BY <2>2, <2>5, <3>1
      <3>3. /\ server' \in Servers /\ server'.known /\ server'.epoch = server.epoch
            /\ server'.revision = server.revision /\ server'.notices = server.notices
            /\ server'.pc = pc /\ server'.hash = h /\ server'.sequence = q
            /\ server'.after = a /\ server'.out = o
            /\ socket' \in Sockets /\ socket'.conn = socket.conn /\ socket'.up = socket.up
            /\ socket'.contexts = socket.contexts /\ socket'.events = ev
        BY <1>9, <3>2, Zenon
      <3> QED BY <3>1, <3>3
    <2> QED BY <1>1, <1>2, <1>3, <1>6, <1>12, <2>4, <2>5, <2>7
  <1>13. CASE v.mode # "resync" /\ v.hash # Hash(c)
    <2>1. PICK e, d : e = SentEvent("profile", 1, c) /\ d = SentEvent("chan", 2, c)
      OBVIOUS
    <2>2. es = <<e, d>> /\ Len(es) = 2 /\ es # <<>> /\ Head(es) = e /\ Tail(es) = <<d>>
      <3>1. es = <<e, d>>
        BY <1>1, <1>4, <1>13, <2>1, BatchIs
      <3> QED BY <3>1
    <2>3. server.sequence + 2 <= MaxSequence /\ server.sequence + 1 <= MaxSequence
      BY <1>1, <1>8, <1>10, <2>2, ChangesAreNat
    <2>4. /\ e \in Event /\ e.type = "profile" /\ e.stream = Stream(socket.conn, server.epoch)
          /\ e.epoch = server.epoch /\ e.revision = server.revision
          /\ e.sequence = server.sequence + 1 /\ e.content = c
      BY <1>2, <2>1, <2>3, SentEventIs
    <2>5. /\ d \in Event /\ d.type = "chan" /\ d.stream = Stream(socket.conn, server.epoch)
          /\ d.epoch = server.epoch /\ d.revision = server.revision
          /\ d.sequence = server.sequence + 2 /\ d.content = c
      BY <1>2, <2>1, <2>3, SentEventIs
    <2>6. PICK o \in Seq(Event), ev \in Seq(Event), q \in 0 .. MaxSequence :
              o = <<d>> /\ ev = Append(s.events, e) /\ q = v.sequence + 2
      <3>1. <<d>> \in Seq(Event) /\ Append(s.events, e) \in Seq(Event)
        BY <1>10, <2>4, <2>5, AppendProperties
      <3>2. v.sequence + 2 \in 0 .. MaxSequence
        BY <1>1, <1>10, <2>3, ChangesAreNat
      <3> QED BY <3>1, <3>2
    <2>7. e.sequence \in 0 .. MaxSequence
      BY <2>4, EventFields, ChangesAreNat
    <2>8. /\ server' \in Servers /\ server'.known /\ server'.epoch = server.epoch
          /\ server'.revision = server.revision /\ server'.notices = server.notices
          /\ server'.pc = "send" /\ server'.hash = h /\ server'.sequence = q
          /\ server'.after = e.sequence /\ server'.out = o
          /\ socket' \in Sockets /\ socket'.conn = socket.conn /\ socket'.up = socket.up
          /\ socket'.contexts = socket.contexts /\ socket'.events = ev
      <3>1. PICK pc \in {"idle", "send"}, a \in 0 .. MaxSequence : pc = "send" /\ a = e.sequence
        BY <2>7
      <3>2. /\ pc = IF Len(es) > 1 THEN "send" ELSE "idle"
            /\ q = v.sequence + Len(es)
            /\ a = IF es = <<>> THEN v.after ELSE Head(es).sequence
            /\ o = IF es = <<>> THEN <<>> ELSE Tail(es)
            /\ ev = IF es = <<>> THEN s.events ELSE Append(s.events, Head(es))
        BY <2>2, <2>6, <3>1
      <3>3. /\ server' \in Servers /\ server'.known /\ server'.epoch = server.epoch
            /\ server'.revision = server.revision /\ server'.notices = server.notices
            /\ server'.pc = pc /\ server'.hash = h /\ server'.sequence = q
            /\ server'.after = a /\ server'.out = o
            /\ socket' \in Sockets /\ socket'.conn = socket.conn /\ socket'.up = socket.up
            /\ socket'.contexts = socket.contexts /\ socket'.events = ev
        BY <1>9, <3>2, Zenon
      <3> QED BY <3>1, <3>3
    <2> QED BY <1>1, <1>2, <1>3, <1>6, <1>13, <2>4, <2>5, <2>6, <2>8
  <1> QED BY <1>11, <1>12, <1>13

\* The last event of the batch is sent.
LEMMA SendIs ==
    ASSUME Types, SocketOK, Send, NEW e \in Event, server.out = <<e>>
    PROVE  /\ server.known /\ server.pc = "send"
           /\ server' \in Servers /\ server'.known /\ server'.epoch = server.epoch
           /\ server'.revision = server.revision /\ server'.notices = server.notices
           /\ server'.pc = "idle" /\ server'.out = <<>> /\ server'.after = e.sequence
           /\ server'.sequence = server.sequence /\ server'.hash = server.hash
           /\ socket' \in Sockets /\ socket'.conn = socket.conn /\ socket'.up = socket.up
           /\ socket'.contexts = socket.contexts /\ socket'.events = Append(socket.events, e)
  <1>1. PICK v \in Servers, s \in Sockets : v = server /\ s = socket
    BY DEF Types
  <1>2. server.pc = "send" /\ server.known
    BY ContextIsKnown DEF Send
  <1>3. Head(server.out) = e /\ Tail(server.out) = <<>>
    OBVIOUS
  <1>4. PICK o \in Seq(Event), ev \in Seq(Event), a \in 0 .. MaxSequence :
            o = <<>> /\ ev = Append(s.events, e) /\ a = e.sequence
    <2>1. <<>> \in Seq(Event) /\ Append(s.events, e) \in Seq(Event)
      BY SocketFields, EmptySeq, AppendProperties
    <2>2. e.sequence \in 0 .. MaxSequence
      BY EventFields, ChangesAreNat
    <2> QED BY <2>1, <2>2
  <1>5. PICK w : w = [v EXCEPT !.after = a, !.out = o, !.pc = "idle"]
    OBVIOUS
  <1>6. /\ w \in Servers /\ w.known = v.known /\ w.epoch = v.epoch /\ w.revision = v.revision
        /\ w.notices = v.notices /\ w.pc = "idle" /\ w.out = o /\ w.after = a
        /\ w.sequence = v.sequence /\ w.hash = v.hash
    BY <1>5 DEF Servers
  <1>7. server' = w
    BY <1>1, <1>3, <1>4, <1>5 DEF Send
  <1>8. PICK t : t = [s EXCEPT !.events = ev]
    OBVIOUS
  <1>9. t \in Sockets /\ t.conn = s.conn /\ t.up = s.up /\ t.contexts = s.contexts /\ t.events = ev
    BY <1>8, SocketMoves
  <1>10. socket' = t
    BY <1>1, <1>3, <1>4, <1>8 DEF Send
  <1> QED BY <1>1, <1>2, <1>4, <1>6, <1>7, <1>9, <1>10

\* A local publication: the next value, paid for by an upset.
LEMMA LocalCommitIs ==
    ASSUME Types, CountsOK, NEW s, LocalCommit(s)
    PROVE  /\ s \in Symbols /\ data' \in [Symbols -> Content] /\ Grows
           /\ \A t \in Symbols : data'[t].ext = data[t].ext /\ (t # s => data'[t] = data[t])
           /\ data'[s].loc <= upsets' /\ unannounced' = unannounced \union {s}
  <1>1. PICK d \in [Symbols -> Content] : d = data
    BY DEF Types
  <1>2. s \in Symbols
    BY BrowserFields, ChangesAreNat, SymbolType DEF LocalCommit, Types
  <1>3. PICK c \in Content : c = d[s]
    BY <1>2
  <1>4. PICK n \in Changes : n = c.loc + 1
    BY <1>1, <1>2, <1>3, ContentType, UpsetIs DEF CountsOK, LocalCommit
  <1>5. PICK e : e = [c EXCEPT !.loc = n]
    OBVIOUS
  <1>6. e \in Content /\ e.ext = c.ext /\ e.loc = n
    BY <1>5 DEF Content
  <1>7. data' = [d EXCEPT ![s] = e]
    BY <1>1, <1>2, <1>3, <1>4, <1>5 DEF LocalCommit
  <1>8. AtMost(c, e)
    BY <1>4, <1>6, ContentType DEF AtMost
  <1>9. /\ data' \in [Symbols -> Content]
        /\ \A t \in Symbols : data'[t] = IF t = s THEN e ELSE data[t]
    BY <1>1, <1>2, <1>6, <1>7
  <1>10. Grows
    BY <1>1, <1>3, <1>8, <1>9, AtMostOrders DEF Grows
  <1>11. n <= upsets'
    BY <1>1, <1>2, <1>3, <1>4, UpsetIs, ContentType, ChangesAreNat DEF CountsOK, LocalCommit, Types
  <1>12. unannounced' = unannounced \union {s}
    BY DEF LocalCommit
  <1> QED BY <1>1, <1>2, <1>3, <1>6, <1>9, <1>10, <1>11, <1>12

\* The fetched domains of a symbol are there afterwards.
LEMMA FillIs ==
    ASSUME Types, NEW r \in requests, Fill(r)
    PROVE  /\ r[1] \in Changes /\ r[2] \in Changes
           /\ data' \in [Symbols -> Content] /\ Grows
           /\ \A t \in Symbols : data'[t].loc = data[t].loc
           /\ \A t \in Symbols : t # SymbolOf(r[1]) => data'[t] = data[t]
           /\ collector' \in Collectors /\ collector'.busy /\ collector'.epoch = r[1]
  <1>1. PICK d \in [Symbols -> Content], e, n \in Changes : d = data /\ r = <<e, n>>
    BY DEF Types
  <1>2. PICK s \in Symbols : s = SymbolOf(r[1])
    BY <1>1, SymbolType, ChangesAreNat
  <1>3. PICK c \in Content : c = d[s]
    OBVIOUS
  <1>4. PICK f : f = [c EXCEPT !.ext = 1]
    OBVIOUS
  <1>5. f \in Content /\ f.ext = 1 /\ f.loc = c.loc
    BY <1>4 DEF Content
  <1>6. data' = [d EXCEPT ![s] = f]
    BY <1>1, <1>2, <1>3, <1>4 DEF Fill
  <1>7. AtMost(c, f)
    BY <1>5, ContentType DEF AtMost
  <1>8. /\ data' \in [Symbols -> Content]
        /\ \A t \in Symbols : data'[t] = IF t = s THEN f ELSE data[t]
    BY <1>1, <1>5, <1>6
  <1>9. Grows
    BY <1>1, <1>3, <1>7, <1>8, AtMostOrders DEF Grows
  <1>10. PICK yes \in BOOLEAN : yes = TRUE
    OBVIOUS
  <1>11. PICK k : k = [busy |-> yes, epoch |-> e, revision |-> n]
    OBVIOUS
  <1>12. k \in Collectors /\ k.busy = yes /\ k.epoch = e
    BY <1>1, <1>11 DEF Collectors
  <1>13. collector' = k
    BY <1>1, <1>10, <1>11 DEF Fill
  <1>14. r[1] = e /\ r[2] = n /\ e \in Changes /\ n \in Changes
    BY <1>1
  <1> QED BY <1>1, <1>2, <1>3, <1>5, <1>8, <1>9, <1>10, <1>12, <1>13, <1>14

LEMMA IdleIs == Idle \in Collectors /\ ~Idle.busy
  <1>1. PICK no \in BOOLEAN, z \in Changes : no = FALSE /\ z = 0
    BY ChangesAreNat
  <1>2. PICK k : k = [busy |-> no, epoch |-> z, revision |-> z]
    OBVIOUS
  <1>3. k \in Collectors /\ k.busy = no
    BY <1>2 DEF Collectors
  <1> QED BY <1>1, <1>2, <1>3 DEF Idle

LEMMA RequestedIs ==
    ASSUME Types, NEW e \in Changes, NEW n \in Changes
    PROVE  Requested(e, n) \subseteq Changes \X Changes
  BY DEF Requested, Types

LEMMA CollectorFields ==
    ASSUME Types
    PROVE  collector.epoch \in Changes /\ SymbolOf(collector.epoch) \in Symbols
  <1>1. collector.epoch \in Changes
    BY DEF Types, Collectors
  <1> QED BY <1>1, SymbolType, ChangesAreNat

-----------------------------------------------------------------------------
(* The steps that send and show nothing.                                     *)

QuietStep ==
    \/ AnswerBootstrap \/ RelayReady \/ RelayTimeout \/ RelayLate \/ TakeNotice
    \/ \E s \in Symbols : LocalCommit(s) \/ Announce(s)
    \/ \E r \in requests : Fill(r)
    \/ PublishFill \/ StopCollector

LEMMA RelayStepIs ==
    ASSUME Types, SocketOK, NEW r \in {"none", "starting", "late", "on"}, server.relay # "none",
           server' = [server EXCEPT !.relay = r]
    PROVE  /\ server' \in Servers /\ Alike(server, server') /\ server.known
           /\ server'.notices = server.notices
  <1>1. PICK v \in Servers : v = server
    BY DEF Types
  <1>2. PICK w : w = [v EXCEPT !.relay = r]
    OBVIOUS
  <1>3. w \in Servers /\ Alike(v, w) /\ w.notices = v.notices
    BY <1>2, RelayIs
  <1>4. server' = w
    BY <1>1, <1>2
  <1> QED BY <1>1, <1>3, <1>4, ContextIsKnown

LEMMA TakeNoticeIs ==
    ASSUME Types, SocketOK, TakeNotice
    PROVE  /\ server' \in Servers /\ Alike(server, server') /\ server.known
           /\ server.notices > 0 /\ server'.notices = server.notices - 1 /\ Mismatch
  <1>1. PICK v \in Servers : v = server
    BY DEF Types
  <1>2. v.notices \in Nat /\ v.notices > 0 /\ Mismatch
    BY <1>1, ServerFields DEF TakeNotice
  <1>3. PICK n \in Nat : n = v.notices - 1
    BY <1>2
  <1>4. PICK w : w = [v EXCEPT !.notices = n]
    OBVIOUS
  <1>5. w \in Servers /\ Alike(v, w) /\ w.notices = n
    BY <1>4, NoticesIs
  <1>6. server' = w
    BY <1>1, <1>3, <1>4 DEF TakeNotice
  <1>7. server.known
    BY <1>1, <1>2, ContextIsKnown
  <1> QED BY <1>1, <1>2, <1>3, <1>5, <1>6, <1>7

LEMMA QuietIs == Types /\ CountsOK /\ SocketOK /\ QuietStep => Quiet
  <1> SUFFICES ASSUME Types, CountsOK, SocketOK, QuietStep PROVE Quiet
    OBVIOUS
  <1>1. server \in Servers /\ data \in [Symbols -> Content]
    BY DEF Types
  <1>2. CASE UNCHANGED <<browser, shown, socket, server, data, floor>>
    BY <1>1, <1>2, AlikeSame, StaysGrows DEF Quiet
  <1>3. CASE AnswerBootstrap \/ StopCollector
    BY <1>2, <1>3 DEF AnswerBootstrap, StopCollector
  <1>4. ASSUME NEW r \in {"none", "starting", "late", "on"}, server.relay # "none",
               server' = [server EXCEPT !.relay = r], UNCHANGED <<browser, shown, socket, data, floor>>
        PROVE  Quiet
    BY <1>1, <1>4, RelayStepIs, StaysGrows DEF Quiet
  <1>5. CASE RelayReady
    BY <1>4, <1>5 DEF RelayReady
  <1>6. CASE RelayTimeout
    BY <1>4, <1>6 DEF RelayTimeout, world
  <1>7. CASE RelayLate
    BY <1>4, <1>7 DEF RelayLate, world
  <1>8. CASE TakeNotice
    <2>1. UNCHANGED <<browser, shown, socket, data, floor>>
      BY <1>8 DEF TakeNotice, world
    <2> QED BY <1>1, <1>8, <2>1, TakeNoticeIs, StaysGrows DEF Quiet
  <1>9. ASSUME NEW s \in Symbols, LocalCommit(s) PROVE Quiet
    <2>1. UNCHANGED <<browser, shown, socket, server, floor>>
      BY <1>9 DEF LocalCommit
    <2> QED BY <1>1, <1>9, <2>1, LocalCommitIs, AlikeSame DEF Quiet
  <1>10. ASSUME NEW s \in Symbols, NEW part \in {"ext", "loc"}, NEW matches \in BOOLEAN,
                Notify(s, part, matches), UNCHANGED <<browser, shown, socket, data, floor>>
         PROVE  Quiet
    BY <1>1, <1>10, NotifyIs, StaysGrows DEF Quiet
  <1>11. ASSUME NEW s \in Symbols, Announce(s) PROVE Quiet
    <2>1. Notify(s, "loc", SymbolOf(server.epoch) = s)
      BY <1>11 DEF Announce
    <2>2. UNCHANGED <<browser, shown, socket, data, floor>>
      BY <1>11 DEF Announce
    <2> QED BY <1>10, <2>1, <2>2
  <1>12. ASSUME NEW r \in requests, Fill(r) PROVE Quiet
    <2>1. UNCHANGED <<browser, shown, socket, server, floor>>
      BY <1>12 DEF Fill
    <2> QED BY <1>1, <1>12, <2>1, FillIs, AlikeSame DEF Quiet
  <1>13. CASE PublishFill
    <2>1. Notify(SymbolOf(collector.epoch), "ext",
                 server.epoch = collector.epoch /\ server.revision = collector.revision)
      BY <1>13 DEF PublishFill
    <2>2. UNCHANGED <<browser, shown, socket, data, floor>>
      BY <1>13 DEF PublishFill
    <2> QED BY <1>10, <2>1, <2>2, CollectorFields
  <1> QED BY <1>3, <1>5, <1>6, <1>7, <1>8, <1>9, <1>11, <1>12, <1>13 DEF QuietStep

-----------------------------------------------------------------------------
(* Types are kept.                                                           *)

\* The requests, the collector and what is not announced keep their types.
LEMMA WorldTypes ==
    ASSUME Types, Next
    PROVE  /\ unannounced' \subseteq Symbols /\ requests' \subseteq Changes \X Changes
           /\ collector' \in Collectors
  <1> USE DEF Types
  <1>1. CASE UNCHANGED <<unannounced, requests, collector>>
    BY <1>1
  <1>2. fetch.epoch \in Changes /\ fetch.revision \in Changes
    BY DEF Fetches
  <1>3. server.epoch \in Changes /\ server.revision \in Changes
    BY ServerFields
  <1>4. CASE AnswerBootstrap
    BY <1>2, <1>4, RequestedIs DEF AnswerBootstrap
  <1>5. CASE RelayReady
    BY <1>3, <1>5, RequestedIs DEF RelayReady
  <1>6. ASSUME NEW s \in Symbols, LocalCommit(s) \/ Announce(s)
        PROVE  /\ unannounced' \subseteq Symbols /\ requests' = requests /\ collector' = collector
    BY <1>6 DEF LocalCommit, Announce
  <1>7. ASSUME NEW r \in requests, Fill(r)
        PROVE  /\ unannounced' = unannounced /\ requests' \subseteq requests
               /\ collector' \in Collectors
    BY <1>7, FillIs DEF Fill
  <1>8. CASE PublishFill \/ StopCollector
    BY <1>8, IdleIs DEF PublishFill, StopCollector
  <1>9. CASE \/ Confirm \/ ChangeSymbol \/ ChangeWatchlist \/ AcceptBootstrap \/ FailBootstrap
             \/ Receive \/ Connect \/ Disconnect \/ HandleContext \/ RelayTimeout \/ RelayLate
             \/ TakeNotice \/ ReadCache \/ ReadLocal \/ Send
    <2>1. UNCHANGED <<unannounced, requests, collector>>
      BY <1>9 DEF Confirm, ChangeSymbol, ChangeWatchlist, AcceptBootstrap, FailBootstrap, Receive,
            Connect, Disconnect, HandleContext, RelayTimeout, RelayLate, TakeNotice, ReadCache,
            ReadLocal, Send, world
    <2> QED BY <1>1, <2>1
  <1> QED BY <1>4, <1>5, <1>6, <1>7, <1>8, <1>9 DEF Next

\* The history variables and the counter of upsets keep their types.
LEMMA HistoryTypes ==
    ASSUME Types, CountsOK, SocketOK, Next
    PROVE  floor' \in Content /\ missed' \subseteq {"ext", "loc", "profile"} /\ upsets' \in Changes
  <1>1. upsets' \in Changes
    <2>1. upsets' = upsets \/ Upset
      BY DEF Next, Confirm, ChangeSymbol, ChangeWatchlist, AnswerBootstrap, AcceptBootstrap,
         FailBootstrap, Receive, Connect, Disconnect, HandleContext, RelayReady, RelayTimeout,
         RelayLate, TakeNotice, ReadCache, ReadLocal, Send, LocalCommit, Announce, Fill,
         PublishFill, StopCollector
    <2> QED BY <2>1, UpsetIs DEF Types
  <1>2. floor' \in Content
    <2>1. floor' = floor \/ ChangeSymbol
      BY DEF Next, Confirm, ChangeWatchlist, AnswerBootstrap, AcceptBootstrap,
         FailBootstrap, Receive, Connect, Disconnect, HandleContext, RelayReady, RelayTimeout,
         RelayLate, TakeNotice, ReadCache, ReadLocal, Send, LocalCommit, Announce, Fill,
         PublishFill, StopCollector
    <2>2. CASE ChangeSymbol
      <3>1. PICK e \in Changes : e = browser'.epoch /\ browser'.epoch = browser.epoch + 1
        BY <2>2, ChangeSymbolIs, BrowserFields
      <3>2. floor' = data[SymbolOf(e)]
        BY <2>2, <3>1 DEF ChangeSymbol
      <3>3. SymbolOf(e) \in Symbols
        BY <3>1, SymbolType, ChangesAreNat
      <3> QED BY <3>2, <3>3 DEF Types
    <2> QED BY <2>1, <2>2 DEF Types
  <1>3. missed' \subseteq {"ext", "loc", "profile"}
    <2> USE DEF Types
    <2>1. CASE \/ UNCHANGED missed
               \/ missed' = missed \ {"profile"} \/ missed' = missed \ {"ext"}
               \/ missed' = missed \ {"loc"} \/ missed' = missed \union {"ext"}
      BY <2>1
    <2>2. CASE Receive
      BY <2>2, ReceivedIs
    <2>3. ASSUME NEW s \in Symbols, Announce(s) PROVE missed' \subseteq missed \union {"loc"}
      BY <2>3 DEF Announce, Notify
    <2>4. PublishFill => missed' \subseteq missed \union {"ext"}
      BY DEF PublishFill, Notify
    <2>5. \/ Receive \/ (\E s \in Symbols : Announce(s)) \/ PublishFill
          \/ UNCHANGED missed
          \/ missed' = missed \ {"profile"} \/ missed' = missed \ {"ext"}
          \/ missed' = missed \ {"loc"} \/ missed' = missed \union {"ext"}
      BY DEF Next, Confirm, ChangeSymbol, ChangeWatchlist, AnswerBootstrap, AcceptBootstrap,
         FailBootstrap, Connect, Disconnect, HandleContext, RelayReady, RelayTimeout,
         RelayLate, TakeNotice, ReadCache, ReadLocal, Send, LocalCommit, Fill, StopCollector
    <2> QED BY <2>1, <2>2, <2>3, <2>4, <2>5
  <1> QED BY <1>1, <1>2, <1>3

\* The step of an action that sends a context.
LEMMA SentTypes ==
    ASSUME Types, NEW b \in Browsers, socket' = Sent(b)
    PROVE  /\ socket' \in Sockets /\ socket'.conn = socket.conn /\ socket'.up = socket.up
           /\ socket'.events = socket.events
           /\ socket'.contexts = IF socket.up THEN Append(socket.contexts, Message(b))
                                 ELSE socket.contexts
  BY SentIs

LEMMA BusyTypes ==
    ASSUME Types, CountsOK, SocketOK, OutOK, Next
    PROVE  /\ browser' \in Browsers /\ fetch' \in Fetches /\ socket' \in Sockets
           /\ server' \in Servers /\ shown' \in [Symbols -> Content]
           /\ data' \in [Symbols -> Content]
  <1>1. /\ browser \in Browsers /\ fetch \in Fetches /\ socket \in Sockets
        /\ server \in Servers /\ shown \in [Symbols -> Content] /\ data \in [Symbols -> Content]
    BY DEF Types
  <1>2. CASE Confirm
    BY <1>1, <1>2, ConfirmIs, SentTypes DEF Confirm, world
  <1>3. CASE ChangeSymbol
    BY <1>1, <1>3, ChangeSymbolIs, SentTypes DEF ChangeSymbol, world
  <1>4. CASE ChangeWatchlist
    BY <1>1, <1>4, ChangeWatchlistIs, SentTypes DEF ChangeWatchlist, world
  <1>5. CASE AcceptBootstrap
    BY <1>1, <1>5, AcceptIs DEF AcceptBootstrap, world
  <1>6. CASE FailBootstrap
    BY <1>1, <1>6, FailIs DEF FailBootstrap, world
  <1>7. CASE Receive
    BY <1>1, <1>7, ReceiveIs DEF Receive, world
  <1>8. CASE Connect
    BY <1>1, <1>8, ConnectIs DEF Connect, world
  <1>9. CASE Disconnect
    BY <1>1, <1>9, DisconnectIs, IdleServerIs DEF Disconnect, world
  <1>10. CASE HandleContext
    BY <1>1, <1>10, HandleIs DEF HandleContext, world
  <1>11. CASE ReadCache
    BY <1>1, <1>11, ReadCacheIs DEF ReadCache, world
  <1>12. CASE ReadLocal
    BY <1>1, <1>12, ReadLocalIs DEF ReadLocal, world
  <1>13. CASE Send
    <2>1. server.pc = "send"
      BY <1>13 DEF Send
    <2>2. PICK e \in Event : server.out = <<e>>
      BY <2>1 DEF OutOK
    <2> QED BY <1>1, <1>13, <2>2, SendIs DEF Send, world
  <1>14. CASE QuietStep
    <2>1. Quiet
      BY <1>14, QuietIs
    <2>2. fetch' \in Fetches
      BY <1>1, <1>14, AnswerIs DEF QuietStep, RelayReady, RelayTimeout, RelayLate, TakeNotice,
            LocalCommit, Announce, Fill, PublishFill, StopCollector
    <2> QED BY <1>1, <2>1, <2>2 DEF Quiet
  <1> QED BY <1>2, <1>3, <1>4, <1>5, <1>6, <1>7, <1>8, <1>9, <1>10, <1>11, <1>12, <1>13, <1>14
          DEF Next, QuietStep

LEMMA TypesStep == Types /\ CountsOK /\ SocketOK /\ OutOK /\ [Next]_vars => Types'
  <1>1. Types /\ UNCHANGED vars => Types'
    BY DEF Types, vars
  <1> QED BY <1>1, WorldTypes, HistoryTypes, BusyTypes DEF Types

-----------------------------------------------------------------------------
(* Counters, connections and contexts.                                       *)

\* Only a change of the context moves the browser to another one.
LEMMA BrowserMoves ==
    ASSUME Types, CountsOK, SocketOK, Next
    PROVE  \/ browser'.epoch = browser.epoch /\ browser'.revision = browser.revision
           \/ ChangeSymbol
           \/ ChangeWatchlist
  <1>1. CASE Confirm
    BY <1>1, ConfirmIs
  <1>2. CASE AcceptBootstrap
    BY <1>2, AcceptIs
  <1>3. CASE FailBootstrap
    BY <1>3, FailIs
  <1>4. CASE Receive
    BY <1>4, ReceiveIs
  <1>5. CASE QuietStep
    BY <1>5, QuietIs DEF Quiet
  <1>6. CASE Connect \/ Disconnect \/ HandleContext \/ ReadCache \/ ReadLocal \/ Send
    BY <1>6 DEF Connect, Disconnect, HandleContext, ReadCache, ReadLocal, Send
  <1> QED BY <1>1, <1>2, <1>3, <1>4, <1>5, <1>6 DEF Next, QuietStep

\* Only connecting and disconnecting change the connection.
LEMMA ConnectionMoves ==
    ASSUME Types, CountsOK, SocketOK, OutOK, Next
    PROVE  \/ socket'.conn = socket.conn /\ socket'.up = socket.up
           \/ Connect
           \/ Disconnect
  <1>1. CASE Confirm
    BY <1>1, ConfirmIs, SentTypes DEF Confirm
  <1>2. CASE ChangeSymbol
    BY <1>2, ChangeSymbolIs, SentTypes DEF ChangeSymbol
  <1>3. CASE ChangeWatchlist
    BY <1>3, ChangeWatchlistIs, SentTypes DEF ChangeWatchlist
  <1>4. CASE Receive
    BY <1>4, ReceiveIs
  <1>5. CASE HandleContext
    BY <1>5, HandleIs
  <1>6. CASE ReadLocal
    BY <1>6, ReadLocalIs
  <1>7. CASE Send
    <2>1. PICK e \in Event : server.out = <<e>>
      BY <1>7 DEF OutOK, Send
    <2> QED BY <1>7, <2>1, SendIs
  <1>8. CASE QuietStep
    BY <1>8, QuietIs DEF Quiet
  <1>9. CASE AcceptBootstrap \/ FailBootstrap \/ ReadCache
    BY <1>9 DEF AcceptBootstrap, FailBootstrap, ReadCache
  <1> QED BY <1>1, <1>2, <1>3, <1>4, <1>5, <1>6, <1>7, <1>8, <1>9 DEF Next, QuietStep

LEMMA UpsetsGrow ==
    ASSUME Types, Next
    PROVE  upsets \in Nat /\ upsets' \in Nat /\ upsets <= upsets'
  <1>1. upsets \in Nat
    BY ChangesAreNat DEF Types
  <1>2. upsets' = upsets \/ upsets' = upsets + 1
    BY DEF Next, Confirm, ChangeSymbol, ChangeWatchlist, AnswerBootstrap, AcceptBootstrap,
       FailBootstrap, Receive, Connect, Disconnect, HandleContext, RelayReady, RelayTimeout,
       RelayLate, TakeNotice, ReadCache, ReadLocal, Send, LocalCommit, Announce, Fill,
       PublishFill, StopCollector, Upset
  <1> QED BY <1>1, <1>2

\* The data of a symbol grow, and only by what an upset pays for.
LEMMA DataMoves ==
    ASSUME Types, CountsOK, SocketOK, Next
    PROVE  /\ Grows
           /\ \/ data' = data
              \/ \E s \in Symbols : LocalCommit(s)
              \/ \E r \in requests : Fill(r)
  <1>1. CASE data' = data
    BY <1>1, StaysGrows
  <1>2. ASSUME NEW s \in Symbols, LocalCommit(s) PROVE Grows
    BY <1>2, LocalCommitIs
  <1>3. ASSUME NEW r \in requests, Fill(r) PROVE Grows
    BY <1>3, FillIs
  <1>4. \/ data' = data
        \/ \E s \in Symbols : LocalCommit(s)
        \/ \E r \in requests : Fill(r)
    BY DEF Next, Confirm, ChangeSymbol, ChangeWatchlist, AnswerBootstrap, AcceptBootstrap,
       FailBootstrap, Receive, Connect, Disconnect, HandleContext, RelayReady, RelayTimeout,
       RelayLate, TakeNotice, ReadCache, ReadLocal, Send, Announce,
       PublishFill, StopCollector, world
  <1> QED BY <1>1, <1>2, <1>3, <1>4

LEMMA CountsStep == Types /\ CountsOK /\ SocketOK /\ OutOK /\ [Next]_vars => CountsOK'
  <1>1. CountsOK /\ UNCHANGED vars => CountsOK'
    BY DEF CountsOK, vars
  <1> SUFFICES ASSUME Types, CountsOK, SocketOK, OutOK, Next PROVE CountsOK'
    BY <1>1
  <1>3. PICK u, n \in Nat : u = upsets /\ n = upsets' /\ u <= n
    BY UpsetsGrow
  <1>4. browser'.epoch <= n /\ browser'.revision <= n
    <2>1. PICK e, r \in Changes : e = browser.epoch /\ r = browser.revision /\ e <= u /\ r <= u
      BY <1>3, BrowserFields DEF Types, CountsOK
    <2>2. e \in Nat /\ r \in Nat
      BY ChangesAreNat
    <2>3. \/ browser'.epoch = e /\ browser'.revision = r
          \/ browser'.epoch = e + 1 /\ browser'.revision = r /\ n = u + 1
          \/ browser'.epoch = e /\ browser'.revision = r + 1 /\ n = u + 1
      BY <1>3, <2>1, BrowserMoves, ChangeSymbolIs, ChangeWatchlistIs DEF ChangeSymbol, ChangeWatchlist, Upset
    <2> QED BY <1>3, <2>1, <2>2, <2>3
  <1>5. ASSUME NEW s \in Symbols PROVE data'[s].loc <= n
    <2>1. PICK x \in Changes : x = data[s].loc /\ x <= u
      BY <1>3, ContentType DEF Types, CountsOK
    <2>2. x <= n
      BY <1>3, <2>1, ChangesAreNat
    <2>3. CASE data' = data
      BY <2>1, <2>2, <2>3
    <2>4. ASSUME NEW t \in Symbols, LocalCommit(t) PROVE data'[s].loc <= n
      BY <1>3, <2>1, <2>2, <2>4, LocalCommitIs
    <2>5. ASSUME NEW r \in requests, Fill(r) PROVE data'[s].loc <= n
      BY <2>1, <2>2, <2>5, FillIs
    <2> QED BY <2>3, <2>4, <2>5, DataMoves
  <1>6. socket'.conn <= n + 1 /\ (~socket'.up => socket'.conn <= n)
    <2>1. PICK c \in Nat : c = socket.conn /\ c <= u + 1 /\ (~socket.up => c <= u)
      BY <1>3, SocketFields, ChangesAreNat DEF Types, CountsOK
    <2>2. \/ socket'.conn = c /\ socket'.up = socket.up
          \/ ~socket.up /\ socket'.conn = c + 1 /\ socket'.up
          \/ socket'.conn = c /\ ~socket'.up /\ n = u + 1
      BY <1>3, <2>1, ConnectionMoves, ConnectIs, DisconnectIs
    <2> QED BY <1>3, <2>1, <2>2
  <1> QED BY <1>3, <1>4, <1>5, <1>6 DEF CountsOK

\* A server without a context is idle and has sent nothing, one with a context has a socket.
LEMMA SocketStep == Types /\ CountsOK /\ SocketOK /\ OutOK /\ [Next]_vars => SocketOK'
  <1>1. SocketOK /\ UNCHANGED vars => SocketOK'
    BY DEF SocketOK, vars
  <1> SUFFICES ASSUME Types, CountsOK, SocketOK, OutOK, Next PROVE SocketOK'
    BY <1>1
  <1>3. CASE QuietStep
    <2>1. socket' = socket /\ server'.known = server.known /\ (server' = server \/ server.known)
      BY <1>3, QuietIs DEF Quiet, Alike
    <2> QED BY <2>1 DEF SocketOK
  <1>4. ASSUME NEW b \in Browsers, socket' = Sent(b), server' = server PROVE SocketOK'
    <2>1. /\ socket'.conn = socket.conn /\ socket'.up = socket.up /\ socket'.events = socket.events
          /\ socket'.contexts = IF socket.up THEN Append(socket.contexts, Message(b)) ELSE socket.contexts
      BY <1>4, SentTypes
    <2>2. socket.contexts \in Seq(Context) /\ Message(b) \in Context
      BY SocketFields, MessageIs DEF Types
    <2>3. socket.up => socket'.contexts # <<>>
      BY <2>1, <2>2, AppendIs
    <2> QED BY <1>4, <2>1, <2>3 DEF SocketOK
  <1>5. CASE Confirm
    BY <1>4, <1>5, ConfirmIs DEF Confirm
  <1>6. CASE ChangeSymbol
    BY <1>4, <1>6, ChangeSymbolIs DEF ChangeSymbol
  <1>7. CASE ChangeWatchlist
    BY <1>4, <1>7, ChangeWatchlistIs DEF ChangeWatchlist
  <1>8. CASE AcceptBootstrap \/ FailBootstrap
    BY <1>8 DEF AcceptBootstrap, FailBootstrap, SocketOK
  <1>9. CASE Receive
    <2>1. /\ socket'.conn = socket.conn /\ socket'.up = socket.up /\ server' = server /\ socket.up
          /\ socket'.contexts = Append(socket.contexts, Message(browser'))
          /\ browser' \in Browsers /\ socket.events # <<>>
      BY <1>9, ReceiveIs, ReceivedIs DEF Receive
    <2>2. socket.contexts \in Seq(Context) /\ Message(browser') \in Context
      BY <2>1, SocketFields, MessageIs DEF Types
    <2>3. socket'.contexts # <<>>
      BY <2>1, <2>2, AppendIs
    <2> QED BY <2>1, <2>3 DEF SocketOK
  <1>10. CASE Connect
    <2>1. server' = server /\ ~server.known
      BY <1>10 DEF Connect, SocketOK
    <2>2. /\ socket'.conn \in Connections /\ socket'.up /\ socket'.events = <<>>
          /\ socket'.contexts = <<Message(browser)>>
      BY <1>10, ConnectIs
    <2>3. socket'.contexts # <<>>
      BY <2>2
    <2> QED BY <2>1, <2>2, <2>3 DEF SocketOK
  <1>11. CASE Disconnect
    BY <1>11, DisconnectIs, IdleServerIs DEF SocketOK
  <1>12. CASE HandleContext
    <2>1. /\ socket'.conn = socket.conn /\ socket'.up = socket.up /\ socket'.events = socket.events
          /\ server'.known /\ socket.contexts # <<>>
      BY <1>12, HandleIs
    <2>2. socket.up
      BY <2>1 DEF SocketOK
    <2> QED BY <2>1, <2>2 DEF SocketOK
  <1>13. CASE ReadCache
    <2>1. socket' = socket /\ server'.known /\ server.known
      BY <1>13, ReadCacheIs DEF ReadCache
    <2> QED BY <2>1 DEF SocketOK
  <1>14. CASE ReadLocal
    <2>1. /\ socket'.conn = socket.conn /\ socket'.up = socket.up /\ socket'.contexts = socket.contexts
          /\ server'.known /\ server.known
      BY <1>14, ReadLocalIs
    <2> QED BY <2>1 DEF SocketOK
  <1>15. CASE Send
    <2>1. PICK e \in Event : server.out = <<e>>
      BY <1>15 DEF OutOK, Send
    <2>2. /\ socket'.conn = socket.conn /\ socket'.up = socket.up /\ socket'.contexts = socket.contexts
          /\ server'.known /\ server.known
      BY <1>15, <2>1, SendIs
    <2> QED BY <2>2 DEF SocketOK
  <1> QED BY <1>3, <1>5, <1>6, <1>7, <1>8, <1>9, <1>10, <1>11, <1>12, <1>13, <1>14, <1>15
          DEF Next, QuietStep

LEMMA ContextInts ==
    ASSUME Types
    PROVE  /\ socket.contexts \in Seq(Context)
           /\ \A i \in DOMAIN socket.contexts :
                 /\ i \in Nat \ {0} /\ socket.contexts[i] \in Context
                 /\ socket.contexts[i].epoch \in Nat /\ socket.contexts[i].revision \in Nat
           /\ server.epoch \in Nat /\ server.revision \in Nat
           /\ browser.epoch \in Nat /\ browser.revision \in Nat
  <1>1. socket.contexts \in Seq(Context)
    BY SocketFields DEF Types
  <1>2. \A i \in DOMAIN socket.contexts :
            i \in Nat \ {0} /\ socket.contexts[i] \in Context
    BY <1>1, ElementType
  <1>3. \A m \in Context : m.epoch \in Nat /\ m.revision \in Nat
    BY ContextFields, ChangesAreNat
  <1>4. /\ server.epoch \in Nat /\ server.revision \in Nat
        /\ browser.epoch \in Nat /\ browser.revision \in Nat
    BY ServerFields, BrowserFields, ChangesAreNat DEF Types
  <1> QED BY <1>1, <1>2, <1>3, <1>4

\* The browser's context, when it is no older than before, keeps the order.
LEMMA ContextSent ==
    ASSUME Types, SocketOK, ContextsOK, NEW b \in Browsers,
           browser.epoch <= b.epoch, browser.revision <= b.revision,
           browser'.epoch = b.epoch, browser'.revision = b.revision,
           server'.epoch = server.epoch, server'.revision = server.revision,
           socket'.up = socket.up,
           socket'.contexts = IF socket.up THEN Append(socket.contexts, Message(b)) ELSE socket.contexts
    PROVE  ContextsOK'
  <1>1. PICK c : c = socket.contexts
    OBVIOUS
  <1>2. PICK m \in Context : m = Message(b) /\ m.epoch = b.epoch /\ m.revision = b.revision
    BY MessageIs
  <1>3. PICK be, br, se, sr, ne, nr \in Nat :
            /\ be = browser.epoch /\ br = browser.revision /\ se = server.epoch
            /\ sr = server.revision /\ ne = b.epoch /\ nr = b.revision
    BY ContextInts, BrowserFields, ChangesAreNat
  <1>4. be <= ne /\ br <= nr /\ se <= be /\ sr <= br
    BY <1>3 DEF ContextsOK
  <1>5. /\ c \in Seq(Context)
        /\ \A i \in DOMAIN c : c[i].epoch \in Nat /\ c[i].revision \in Nat
        /\ \A i \in DOMAIN c : /\ se <= c[i].epoch /\ c[i].epoch <= be
                               /\ sr <= c[i].revision /\ c[i].revision <= br
        /\ \A i, j \in DOMAIN c : i <= j => c[i].epoch <= c[j].epoch /\ c[i].revision <= c[j].revision
    BY <1>1, <1>3, ContextInts DEF ContextsOK
  <1>6. CASE socket.up
    <2>1. PICK t : t = Append(c, m)
      OBVIOUS
    <2>2. /\ Len(t) = Len(c) + 1 /\ t # <<>> /\ DOMAIN c = 1 .. Len(c) /\ Len(c) \in Nat
          /\ t[Len(c) + 1] = m
          /\ \A i \in DOMAIN c : i \in DOMAIN t /\ t[i] = c[i]
          /\ \A i \in DOMAIN t : i \in DOMAIN c \/ i = Len(c) + 1
      BY <1>5, <2>1, AppendIs
    <2>3. \A i \in DOMAIN t : /\ se <= t[i].epoch /\ t[i].epoch <= ne
                              /\ sr <= t[i].revision /\ t[i].revision <= nr
      <3> TAKE i \in DOMAIN t
      <3>1. CASE i \in DOMAIN c
        BY <1>4, <1>5, <2>2, <3>1
      <3>2. CASE i = Len(c) + 1
        BY <1>2, <1>3, <1>4, <2>2, <3>2
      <3> QED BY <2>2, <3>1, <3>2
    <2>4. \A i, j \in DOMAIN t : i <= j => t[i].epoch <= t[j].epoch /\ t[i].revision <= t[j].revision
      <3> SUFFICES ASSUME NEW i \in DOMAIN t, NEW j \in DOMAIN t, i <= j
                   PROVE  t[i].epoch <= t[j].epoch /\ t[i].revision <= t[j].revision
        OBVIOUS
      <3>1. CASE j = Len(c) + 1
        BY <1>2, <1>3, <2>2, <2>3, <3>1
      <3>2. CASE j \in DOMAIN c
        <4>1. i \in DOMAIN c
          BY <2>2, <3>2
        <4> QED BY <1>5, <2>2, <3>2, <4>1
      <3> QED BY <2>2, <3>1, <3>2
    <2>5. t[Len(t)].epoch = ne /\ t[Len(t)].revision = nr
      BY <1>2, <1>3, <2>2
    <2>6. socket'.contexts = t
      BY <1>1, <1>2, <1>6, <2>1
    <2>7. se <= ne /\ sr <= nr
      BY <1>4
    <2> QED BY <1>3, <2>2, <2>3, <2>4, <2>5, <2>6, <2>7 DEF ContextsOK
  <1>7. CASE ~socket.up
    <2>1. c = <<>> /\ socket'.contexts = c
      BY <1>1, <1>7 DEF SocketOK
    <2>2. DOMAIN c = {}
      BY <2>1
    <2>3. se <= ne /\ sr <= nr
      BY <1>4
    <2> QED BY <1>3, <1>7, <2>1, <2>2, <2>3 DEF ContextsOK
  <1> QED BY <1>6, <1>7

LEMMA ContextsStep ==
    Types /\ CountsOK /\ SocketOK /\ OutOK /\ ContextsOK /\ [Next]_vars => ContextsOK'
  <1>1. ASSUME ContextsOK, socket'.contexts = socket.contexts, socket'.up = socket.up,
               browser'.epoch = browser.epoch, browser'.revision = browser.revision,
               server'.epoch = server.epoch, server'.revision = server.revision
        PROVE  ContextsOK'
    BY <1>1 DEF ContextsOK
  <1>2. ContextsOK /\ UNCHANGED vars => ContextsOK'
    BY <1>1 DEF vars
  <1> SUFFICES ASSUME Types, CountsOK, SocketOK, OutOK, ContextsOK, Next PROVE ContextsOK'
    BY <1>2
  <1>3. CASE QuietStep
    BY <1>1, <1>3, QuietIs DEF Quiet, Alike
  <1>4. CASE AcceptBootstrap
    BY <1>1, <1>4, AcceptIs DEF AcceptBootstrap
  <1>5. CASE FailBootstrap
    BY <1>1, <1>5, FailIs DEF FailBootstrap
  <1>6. CASE ReadCache
    BY <1>1, <1>6, ReadCacheIs DEF ReadCache
  <1>7. CASE ReadLocal
    BY <1>1, <1>7, ReadLocalIs DEF ReadLocal
  <1>8. CASE Send
    <2>1. PICK e \in Event : server.out = <<e>>
      BY <1>8 DEF OutOK, Send
    <2> QED BY <1>1, <1>8, <2>1, SendIs DEF Send
  <1>9. PICK be, br \in Nat : be = browser.epoch /\ br = browser.revision
    BY ContextInts
  <1>10. CASE Confirm
    <2>1. browser' \in Browsers /\ socket' = Sent(browser') /\ server' = server
          /\ browser'.epoch = be /\ browser'.revision = br
      BY <1>9, <1>10, ConfirmIs DEF Confirm
    <2> QED BY <1>9, <2>1, SentTypes, ContextSent
  <1>11. CASE ChangeSymbol
    <2>1. browser' \in Browsers /\ socket' = Sent(browser') /\ server' = server
          /\ browser'.epoch = be + 1 /\ browser'.revision = br
      BY <1>9, <1>11, ChangeSymbolIs DEF ChangeSymbol
    <2> QED BY <1>9, <2>1, SentTypes, ContextSent
  <1>12. CASE ChangeWatchlist
    <2>1. browser' \in Browsers /\ socket' = Sent(browser') /\ server' = server
          /\ browser'.epoch = be /\ browser'.revision = br + 1
      BY <1>9, <1>12, ChangeWatchlistIs DEF ChangeWatchlist
    <2> QED BY <1>9, <2>1, SentTypes, ContextSent
  <1>13. CASE Receive
    <2>1. browser' \in Browsers /\ server' = server /\ socket.up /\ socket'.up = socket.up
          /\ browser'.epoch = be /\ browser'.revision = br
          /\ socket'.contexts = Append(socket.contexts, Message(browser'))
      BY <1>9, <1>13, ReceiveIs DEF Receive
    <2> QED BY <1>9, <2>1, ContextSent
  <1>14. CASE Connect
    <2>1. PICK m \in Context : m = Message(browser) /\ m.epoch = be /\ m.revision = br
      BY <1>9, MessageIs DEF Types
    <2>2. PICK t : t = <<m>>
      OBVIOUS
    <2>3. DOMAIN t = {1} /\ t[1] = m /\ Len(t) = 1 /\ t # <<>>
      BY <2>2
    <2>4. socket'.contexts = t /\ ~socket.up
      BY <1>14, <2>1, <2>2, ConnectIs
    <2>5. server.epoch = 0 /\ server.revision = 0 /\ server' = server /\ browser' = browser
      BY <1>14, <2>4, IdleServerIs DEF SocketOK, Connect
    <2>6. 0 <= be /\ 0 <= br /\ be <= be /\ br <= br
      BY <1>9
    <2>7. \A i \in DOMAIN t : t[i].epoch = be /\ t[i].revision = br
      BY <2>1, <2>3
    <2>8. t # <<>> /\ t[Len(t)].epoch = be /\ t[Len(t)].revision = br
      BY <2>1, <2>3
    <2>9. /\ socket'.contexts = t /\ server'.epoch = 0 /\ server'.revision = 0
          /\ browser'.epoch = be /\ browser'.revision = br
      BY <1>9, <2>4, <2>5
    <2>10. /\ \A i \in DOMAIN t : /\ 0 <= t[i].epoch /\ t[i].epoch <= be
                                  /\ 0 <= t[i].revision /\ t[i].revision <= br
           /\ \A i, j \in DOMAIN t : i <= j => t[i].epoch <= t[j].epoch /\ t[i].revision <= t[j].revision
      BY <2>6, <2>7
    <2> QED BY <2>6, <2>8, <2>9, <2>10 DEF ContextsOK
  <1>15. CASE Disconnect
    <2>1. socket'.contexts = <<>> /\ ~socket'.up /\ server' = IdleServer /\ browser' = browser
      BY <1>15, DisconnectIs DEF Disconnect
    <2>2. server'.epoch = 0 /\ server'.revision = 0
      BY <2>1, IdleServerIs
    <2>3. DOMAIN <<>> = {} /\ 0 <= be /\ 0 <= br
      BY <1>9
    <2> QED BY <1>9, <2>1, <2>2, <2>3 DEF ContextsOK
  <1>16. CASE HandleContext
    <2>1. PICK m \in Context :
             /\ socket.contexts # <<>> /\ m = socket.contexts[1] /\ 1 \in DOMAIN socket.contexts
             /\ socket'.up = socket.up /\ socket'.contexts = Tail(socket.contexts)
             /\ server'.epoch = m.epoch /\ server'.revision = m.revision
      BY <1>16, HandleIs
    <2>2. PICK c : c = socket.contexts
      OBVIOUS
    <2>3. PICK t : t = Tail(c)
      OBVIOUS
    <2>4. c \in Seq(Context) /\ c # <<>>
      BY <2>1, <2>2, ContextInts
    <2>5. /\ Len(c) \in Nat \ {0} /\ DOMAIN c = 1 .. Len(c) /\ DOMAIN t = 1 .. Len(c) - 1
          /\ Len(t) = Len(c) - 1
          /\ \A i \in DOMAIN t : i + 1 \in DOMAIN c /\ t[i] = c[i + 1] /\ i \in Nat
          /\ t = <<>> => Len(c) = 1
          /\ t # <<>> => Len(t) \in DOMAIN t /\ t[Len(t)] = c[Len(c)]
      BY <2>3, <2>4, TailIs
    <2>6. /\ \A i \in DOMAIN c : /\ c[i].epoch <= be /\ c[i].revision <= br
                                 /\ c[i].epoch \in Nat /\ c[i].revision \in Nat
          /\ \A i, j \in DOMAIN c : i <= j => c[i].epoch <= c[j].epoch /\ c[i].revision <= c[j].revision
          /\ 1 \in DOMAIN c /\ m = c[1]
      BY <1>9, <2>1, <2>2, ContextInts DEF ContextsOK
    <2>7. socket.up /\ c[Len(c)].epoch = be /\ c[Len(c)].revision = br
      BY <1>9, <2>1, <2>2 DEF ContextsOK, SocketOK
    <2>8. /\ \A i \in DOMAIN t : /\ m.epoch <= t[i].epoch /\ t[i].epoch <= be
                                 /\ m.revision <= t[i].revision /\ t[i].revision <= br
          /\ m.epoch <= be /\ m.revision <= br
      <3>1. \A i \in DOMAIN t : 1 <= i + 1
        BY <2>5
      <3> QED BY <2>5, <2>6, <3>1
    <2>9. \A i, j \in DOMAIN t : i <= j => t[i].epoch <= t[j].epoch /\ t[i].revision <= t[j].revision
      <3> SUFFICES ASSUME NEW i \in DOMAIN t, NEW j \in DOMAIN t, i <= j
                   PROVE  t[i].epoch <= t[j].epoch /\ t[i].revision <= t[j].revision
        OBVIOUS
      <3>1. i + 1 <= j + 1 /\ i + 1 \in DOMAIN c /\ j + 1 \in DOMAIN c
        BY <2>5
      <3> QED BY <2>5, <2>6, <3>1
    <2>10. IF t = <<>> THEN m.epoch = be /\ m.revision = br
           ELSE t[Len(t)].epoch = be /\ t[Len(t)].revision = br
      BY <2>5, <2>6, <2>7
    <2>11. browser' = browser
      BY <1>16 DEF HandleContext
    <2>12. socket'.contexts = t
      BY <2>1, <2>2, <2>3
    <2> QED BY <1>9, <2>1, <2>8, <2>9, <2>10, <2>11, <2>12 DEF ContextsOK
  <1> QED BY <1>3, <1>4, <1>5, <1>6, <1>7, <1>8, <1>10, <1>11, <1>12, <1>13, <1>14, <1>15, <1>16
          DEF Next, QuietStep

-----------------------------------------------------------------------------
(* What every step does to the server, the events and the data.              *)

LEMMA DataGrows ==
    ASSUME Types, data' \in [Symbols -> Content], Grows, NEW e \in Changes
    PROVE  /\ DataOf(e) \in Content /\ data'[SymbolOf(e)] \in Content
           /\ AtMost(DataOf(e), data'[SymbolOf(e)])
           /\ \A c \in Content : AtMost(c, DataOf(e)) => AtMost(c, data'[SymbolOf(e)])
  <1>1. SymbolOf(e) \in Symbols /\ DataOf(e) \in Content
    BY DataType
  <1>2. data'[SymbolOf(e)] \in Content /\ AtMost(DataOf(e), data'[SymbolOf(e)])
    BY <1>1 DEF Grows, DataOf
  <1> QED BY <1>1, <1>2, AtMostOrders

\* Most steps leave what the server sends alone.
LEMMA ServerStays ==
    ASSUME Types, CountsOK, SocketOK, Next
    PROVE  \/ Alike(server, server')
           \/ Disconnect \/ HandleContext \/ ReadCache \/ ReadLocal \/ Send
  <1>1. CASE QuietStep
    BY <1>1, QuietIs DEF Quiet
  <1>2. CASE \/ Confirm \/ ChangeSymbol \/ ChangeWatchlist \/ AcceptBootstrap \/ FailBootstrap
             \/ Receive \/ Connect
    <2>1. server' = server
      BY <1>2 DEF Confirm, ChangeSymbol, ChangeWatchlist, AcceptBootstrap, FailBootstrap, Receive, Connect
    <2> QED BY <2>1, AlikeSame
  <1> QED BY <1>1, <1>2 DEF Next, QuietStep

LEMMA EventsAre ==
    ASSUME Types
    PROVE  /\ socket.events \in Seq(Event)
           /\ \A i \in DOMAIN socket.events : i \in Nat \ {0} /\ socket.events[i] \in Event
  BY SocketFields, ElementType DEF Types

\* The events on their way are the same, unless the step sends or receives one
\* or the connection is another one.
LEMMA EventsStay ==
    ASSUME Types, CountsOK, SocketOK, Next
    PROVE  \/ socket'.events = socket.events /\ socket'.conn = socket.conn
           \/ Receive \/ Connect \/ Disconnect \/ ReadLocal \/ Send
  <1>1. CASE QuietStep
    BY <1>1, QuietIs DEF Quiet
  <1>2. CASE Confirm
    BY <1>2, ConfirmIs, SentTypes DEF Confirm
  <1>3. CASE ChangeSymbol
    BY <1>3, ChangeSymbolIs, SentTypes DEF ChangeSymbol
  <1>4. CASE ChangeWatchlist
    BY <1>4, ChangeWatchlistIs, SentTypes DEF ChangeWatchlist
  <1>5. CASE HandleContext
    BY <1>5, HandleIs
  <1>6. CASE AcceptBootstrap \/ FailBootstrap \/ ReadCache
    BY <1>6 DEF AcceptBootstrap, FailBootstrap, ReadCache
  <1> QED BY <1>1, <1>2, <1>3, <1>4, <1>5, <1>6 DEF Next, QuietStep

\* The browser keeps its place in the stream, unless it gives it up or receives an event.
LEMMA BrowserStays ==
    ASSUME Types, CountsOK, SocketOK, Next
    PROVE  \/ browser'.active = browser.active /\ browser'.cursor = browser.cursor
           \/ browser'.active = NoStream /\ (ChangeSymbol \/ AcceptBootstrap)
           \/ Receive
  <1>1. CASE Confirm
    BY <1>1, ConfirmIs
  <1>2. CASE ChangeSymbol
    BY <1>2, ChangeSymbolIs
  <1>3. CASE ChangeWatchlist
    BY <1>3, ChangeWatchlistIs
  <1>4. CASE AcceptBootstrap
    BY <1>4, AcceptIs
  <1>5. CASE FailBootstrap
    BY <1>5, FailIs
  <1>6. CASE QuietStep
    BY <1>6, QuietIs DEF Quiet
  <1>7. CASE Connect \/ Disconnect \/ HandleContext \/ ReadCache \/ ReadLocal \/ Send
    BY <1>7 DEF Connect, Disconnect, HandleContext, ReadCache, ReadLocal, Send
  <1> QED BY <1>1, <1>2, <1>3, <1>4, <1>5, <1>6, <1>7 DEF Next, QuietStep

LEMMA HashFields ==
    ASSUME NEW h \in Hashes, h # <<>>
    PROVE  h[1] \in Changes /\ h[1] \in Int /\ h[2] \in Content
  <1>1. PICK n \in Changes, c \in Content : h = <<n, c>>
    BY DEF Hashes
  <1>2. h[1] = n /\ h[2] = c /\ n \in Int
    BY <1>1, ChangesAreNat
  <1> QED BY <1>1, <1>2

\* The hashed content was in the data.
LEMMA HashStep ==
    Types /\ CountsOK /\ SocketOK /\ OutOK /\ ContextsOK /\ ReadOK /\ HashOK /\ [Next]_vars => HashOK'
  <1>1. HashOK /\ UNCHANGED vars => HashOK'
    BY DEF HashOK, DataOf, vars
  <1> SUFFICES ASSUME Types, CountsOK, SocketOK, OutOK, ContextsOK, ReadOK, HashOK, Next PROVE HashOK'
    BY <1>1
  <1>2. data' \in [Symbols -> Content] /\ Grows
    BY BusyTypes, DataMoves
  <1>3. server.epoch \in Changes /\ server.hash \in Hashes
    BY ServerFields DEF Types
  <1>4. ASSUME server'.hash = server.hash, server'.epoch = server.epoch,
               NEW n \in Int, n = server.revision, NEW r \in Int, r = server'.revision, n <= r
        PROVE  HashOK'
    <2> SUFFICES ASSUME server.hash # <<>>
                 PROVE  server.hash[1] <= r /\ AtMost(server.hash[2], data'[SymbolOf(server.epoch)])
      BY <1>4 DEF HashOK, DataOf
    <2>1. PICK h \in Int, c \in Content : h = server.hash[1] /\ c = server.hash[2]
      BY <1>3, HashFields
    <2>2. h <= n /\ AtMost(c, DataOf(server.epoch))
      BY <1>4, <2>1 DEF HashOK
    <2>3. h <= r
      BY <1>4, <2>2
    <2>4. AtMost(c, data'[SymbolOf(server.epoch)])
      BY <1>2, <1>3, <2>2, DataGrows
    <2> QED BY <2>1, <2>3, <2>4
  <1>5. PICK n \in Int : n = server.revision
    BY ContextInts
  <1>6. CASE Alike(server, server')
    <2>1. server'.hash = server.hash /\ server'.epoch = server.epoch /\ server'.revision = n /\ n <= n
      BY <1>5, <1>6 DEF Alike
    <2> QED BY <1>4, <1>5, <2>1
  <1>7. CASE Disconnect
    BY <1>7, DisconnectIs, IdleServerIs DEF HashOK
  <1>8. CASE HandleContext
    <2>1. PICK m \in Context :
             /\ 1 \in DOMAIN socket.contexts /\ m = socket.contexts[1]
             /\ server'.epoch = m.epoch /\ server'.revision = m.revision
             /\ \/ server.epoch = m.epoch /\ server'.hash = server.hash
                \/ server'.hash = <<>>
      BY <1>8, HandleIs
    <2>2. PICK r \in Int : r = m.revision /\ n <= r
      BY <1>5, <2>1, ContextInts DEF ContextsOK
    <2>3. CASE server'.hash = <<>>
      BY <2>3 DEF HashOK
    <2>4. CASE server.epoch = m.epoch /\ server'.hash = server.hash
      BY <1>4, <1>5, <2>1, <2>2, <2>4
    <2> QED BY <2>1, <2>3, <2>4
  <1>9. CASE ReadCache
    <2>1. server'.hash = server.hash /\ server'.epoch = server.epoch /\ server'.revision = n /\ n <= n
      BY <1>5, <1>9, ReadCacheIs
    <2> QED BY <1>4, <1>5, <2>1
  <1>10. CASE Send
    <2>1. PICK e \in Event : server.out = <<e>>
      BY <1>10 DEF OutOK, Send
    <2>2. server'.hash = server.hash /\ server'.epoch = server.epoch /\ server'.revision = n /\ n <= n
      BY <1>5, <1>10, <2>1, SendIs
    <2> QED BY <1>4, <1>5, <2>2
  <1>11. CASE ReadLocal
    <2>1. /\ server'.epoch = server.epoch /\ server'.revision = n /\ n <= n
          /\ server'.hash \in {server.hash, Hash(Found)} /\ server.pc = "read"
      BY <1>5, <1>11, ReadLocalIs
    <2>2. CASE server'.hash = server.hash
      BY <1>4, <1>5, <2>1, <2>2
    <2>3. CASE server'.hash = Hash(Found)
      <3>1. PICK c \in Content : c = Found /\ c.ext = server.ext /\ c.loc = DataOf(server.epoch).loc
        BY FoundIs
      <3>2. server'.hash[1] = n /\ server'.hash[2] = c
        BY <1>5, <2>3, <3>1 DEF Hash
      <3>3. AtMost(c, DataOf(server.epoch))
        <4>1. c.loc \in Int
          BY ContentType
        <4> QED BY <2>1, <3>1, <4>1 DEF ReadOK, AtMost
      <3>4. AtMost(c, data'[SymbolOf(server.epoch)])
        BY <1>2, <1>3, <3>3, DataGrows
      <3> QED BY <2>1, <3>2, <3>4 DEF HashOK, DataOf
    <2> QED BY <2>1, <2>2, <2>3
  <1> QED BY <1>6, <1>7, <1>8, <1>9, <1>10, <1>11, ServerStays

-----------------------------------------------------------------------------
(* The events are in order.                                                  *)

\* Stream ids tell connections and epochs apart.
LEMMA StreamIs ==
    ASSUME NEW c \in Nat, NEW e \in Nat
    PROVE  /\ Stream(c, e)[1] = c /\ Stream(c, e)[2] = e
           /\ c # 0 => Stream(c, e) # NoStream
           /\ \A f \in Nat : Stream(c, e) = Stream(c, f) => e = f
  BY DEF Stream, NoStream

\* What was sent stays so while the server goes on.
LEMMA SentStays ==
    ASSUME Types, data' \in [Symbols -> Content], Grows, socket'.conn = socket.conn,
           NEW e \in Event, SentHere(e),
           NEW oe \in Int, NEW os \in Int, NEW ne \in Int, NEW ns \in Int,
           oe = server.epoch, os = server.sequence, ne = server'.epoch, ns = server'.sequence,
           oe <= ne, oe = ne => os <= ns
    PROVE  SentHere(e)'
  <1>1. PICK x \in Int, q \in Int : x = e.epoch /\ q = e.sequence
    BY EventFields
  <1>2. x <= oe /\ (x = oe => q <= os) /\ e.stream = Stream(socket.conn, x)
    BY <1>1 DEF SentHere
  <1>3. x <= ne /\ (x = ne => q <= ns)
    BY <1>2
  <1>4. AtMost(e.content, data'[SymbolOf(e.epoch)])
    <2>1. e.epoch \in Changes /\ e.content \in Content
      BY EventFields
    <2> QED BY <2>1, DataGrows DEF SentHere
  <1> QED BY <1>1, <1>2, <1>3, <1>4 DEF SentHere, DataOf

\* An event ahead of the browser stays so while it keeps its place or gives it up.
LEMMA AheadStays ==
    ASSUME NEW e \in Event, Ahead(e),
           \/ browser'.active = browser.active /\ browser'.cursor = browser.cursor
           \/ browser'.active = NoStream
    PROVE  Ahead(e)'
  <1>1. e.stream # NoStream
    BY EventFields, ChangesAreNat DEF NoStream, Connections
  <1> QED BY <1>1 DEF Ahead

\* What comes after an accepted event is ahead of the browser.
LEMMA AheadAccepted ==
    ASSUME Types, NEW ev \in Event, NEW e \in Event, browser' = Accepted(ev),
           ev.stream = Stream(socket.conn, ev.epoch), e.stream = Stream(socket.conn, e.epoch),
           After(ev, e)
    PROVE  Ahead(e)'
  <1>1. browser'.active = ev.stream /\ browser'.cursor = ev.sequence
    BY AcceptedIs
  <1>2. ev.stream = e.stream => ev.epoch = e.epoch
    BY EventFields, ChangesAreNat DEF Stream
  <1> QED BY <1>1, <1>2 DEF Ahead, After

LEMMA SequenceInts ==
    ASSUME NEW v \in Servers
    PROVE  v.epoch \in Int /\ v.sequence \in Int
  <1>1. PICK e \in Changes, q \in 0 .. MaxSequence : e = v.epoch /\ q = v.sequence
    BY ServerFields
  <1>2. e \in Int /\ q \in Int
    BY ChangesAreNat
  <1> QED BY <1>1, <1>2

LEMMA ServerInts ==
    /\ Types => server.epoch \in Int /\ server.sequence \in Int
    /\ Types' => server'.epoch \in Int /\ server'.sequence \in Int
  BY SequenceInts DEF Types

\* The server moves on: to a later context, or to a later event of the same one.
LEMMA ServerMoves ==
    ASSUME Types, Types', CountsOK, SocketOK, OutOK, ContextsOK, Next
    PROVE  \/ /\ server.epoch <= server'.epoch
              /\ server.epoch = server'.epoch => server.sequence <= server'.sequence
           \/ ~server.known
           \/ Disconnect
  <1>1. PICK oe \in Int, os \in Int : oe = server.epoch /\ os = server.sequence
    BY ServerInts
  <1>2. CASE Alike(server, server')
    BY <1>1, <1>2 DEF Alike
  <1>3. CASE HandleContext
    <2>1. PICK m \in Context :
             /\ 1 \in DOMAIN socket.contexts /\ m = socket.contexts[1]
             /\ server'.epoch = m.epoch
             /\ \/ server'.sequence = server.sequence
                \/ ~(server.known /\ server.epoch = m.epoch)
      BY <1>3, HandleIs
    <2>2. server.epoch <= m.epoch
      BY <2>1 DEF ContextsOK
    <2> QED BY <1>1, <2>1, <2>2
  <1>4. CASE ReadCache
    BY <1>1, <1>4, ReadCacheIs
  <1>5. CASE ReadLocal
    <2>1. /\ server'.epoch = server.epoch
          /\ server'.sequence \in {server.sequence, server.sequence + 1, server.sequence + 2}
      BY <1>5, ReadLocalIs
    <2> QED BY <1>1, <2>1
  <1>6. CASE Send
    <2>1. PICK e \in Event : server.out = <<e>>
      BY <1>6 DEF OutOK, Send
    <2> QED BY <1>1, <1>6, <2>1, SendIs
  <1> QED BY <1>2, <1>3, <1>4, <1>5, <1>6, ServerStays

\* An event is after what was sent before on the connection.
LEMMA NewIsAfter ==
    ASSUME Types, ReadOK, server.pc = "read", NEW i \in DOMAIN socket.events,
           SentHere(socket.events[i]), NEW e \in Event, NEW k \in {1, 2},
           e.epoch = server.epoch, e.sequence = server.sequence + k, e.content = Found
    PROVE  After(socket.events[i], e)
  <1>1. PICK d \in Event : d = socket.events[i]
    BY EventsAre
  <1> SUFFICES ASSUME d.epoch = e.epoch PROVE d.sequence < e.sequence /\ AtMost(d.content, e.content)
    BY <1>1 DEF After
  <1>2. PICK os \in Int, q \in Int : os = server.sequence /\ q = d.sequence
    BY ServerInts, EventFields
  <1>3. q <= os
    BY <1>1, <1>2 DEF SentHere
  <1>4. d.sequence < e.sequence
    BY <1>2, <1>3
  <1>5. PICK c \in Content, f \in Content : c = d.content /\ f = Found
    BY EventFields, FoundIs
  <1>6. c.ext <= f.ext
    BY <1>1, <1>5, FoundIs DEF ReadOK
  <1>7. c.loc <= f.loc
    BY <1>1, <1>5, FoundIs DEF SentHere, AtMost
  <1> QED BY <1>4, <1>5, <1>6, <1>7 DEF AtMost

\* The events that the server sends next are of this connection, and ahead.
LEMMA NewIsSent ==
    ASSUME Types, Types', SocketOK, ReadOK, CursorOK, ReadLocal,
           NEW e \in Event, NEW k \in {1, 2},
           e.stream = Stream(socket.conn, server.epoch), e.epoch = server.epoch,
           e.sequence = server.sequence + k, e.content = Found,
           server'.sequence \in {e.sequence, e.sequence + 1}
    PROVE  SentHere(e)' /\ Ahead(e)'
  <1>1. /\ server.known /\ server.pc = "read" /\ server'.epoch = server.epoch
        /\ socket'.conn = socket.conn /\ socket.conn \in Connections
    BY ReadLocalIs
  <1>2. PICK oe \in Int, os \in Int, ns \in Int :
            oe = server.epoch /\ os = server.sequence /\ ns = server'.sequence
    BY ServerInts
  <1>3. e.epoch <= server'.epoch /\ e.sequence <= server'.sequence
    BY <1>1, <1>2
  <1>4. AtMost(e.content, DataOf(e.epoch))
    <2>1. PICK f \in Content : f = Found /\ f.ext = server.ext /\ f.loc = DataOf(server.epoch).loc
      BY FoundIs
    <2>2. f.loc \in Int /\ f.ext <= DataOf(server.epoch).ext
      BY <1>1, <2>1, ContentType DEF ReadOK
    <2> QED BY <2>1, <2>2 DEF AtMost
  <1>5. data' = data /\ browser' = browser
    BY DEF ReadLocal, world
  <1>6. SentHere(e)'
    BY <1>1, <1>3, <1>4, <1>5 DEF SentHere, DataOf
  <1>7. ASSUME browser.active = e.stream PROVE browser.cursor < e.sequence
    <2>1. e.stream[1] = socket.conn /\ e.stream[2] = server.epoch
      BY DEF Stream
    <2>2. browser.cursor <= server.sequence
      BY <1>1, <1>7, <2>1 DEF CursorOK
    <2>3. PICK q \in Int : q = browser.cursor
      BY BrowserFields, ChangesAreNat DEF Types
    <2> QED BY <1>2, <2>2, <2>3
  <1> QED BY <1>5, <1>6, <1>7 DEF Ahead

\* The steps that neither send nor receive an event keep it as it is.
LEMMA EventStays ==
    ASSUME Types, Types', CountsOK, SocketOK, OutOK, ContextsOK, Next, NEW e \in Event,
           SentHere(e), Ahead(e), server.known, ~Disconnect, ~Connect, ~Receive
    PROVE  SentHere(e)' /\ Ahead(e)'
  <1>1. data' \in [Symbols -> Content] /\ Grows
    BY BusyTypes, DataMoves
  <1>2. socket'.conn = socket.conn
    BY ConnectionMoves
  <1>3. PICK oe \in Int, os \in Int, ne \in Int, ns \in Int :
            /\ oe = server.epoch /\ os = server.sequence
            /\ ne = server'.epoch /\ ns = server'.sequence
    BY ServerInts
  <1>4. oe <= ne /\ (oe = ne => os <= ns)
    BY <1>3, ServerMoves
  <1>5. SentHere(e)'
    BY <1>1, <1>2, <1>3, <1>4, SentStays
  <1>6. Ahead(e)'
    BY BrowserStays, AheadStays
  <1> QED BY <1>5, <1>6

\* A sequence in order, with one event more.
LEMMA EventAppended ==
    ASSUME Types, EventsOK, NEW e \in Event, socket'.events = Append(socket.events, e),
           SentHere(e)', Ahead(e)',
           \A d \in Event : SentHere(d) /\ Ahead(d) => SentHere(d)' /\ Ahead(d)',
           \A i \in DOMAIN socket.events : After(socket.events[i], e)
    PROVE  EventsOK'
  <1>1. PICK es, t : es = socket.events /\ t = Append(es, e) /\ t = socket'.events
    OBVIOUS
  <1>2. /\ DOMAIN es = 1 .. Len(es) /\ Len(es) \in Nat /\ t[Len(es) + 1] = e
        /\ \A i \in DOMAIN es : i \in DOMAIN t /\ t[i] = es[i]
        /\ \A i \in DOMAIN t : i \in DOMAIN es \/ i = Len(es) + 1
    BY <1>1, EventsAre, AppendIs
  <1>3. /\ \A i \in DOMAIN es : SentHere(es[i]) /\ Ahead(es[i]) /\ es[i] \in Event
        /\ \A i, j \in DOMAIN es : i < j => After(es[i], es[j])
        /\ \A i \in DOMAIN es : After(es[i], e)
    BY <1>1, EventsAre DEF EventsOK
  <1>4. \A i \in DOMAIN t : SentHere(t[i])' /\ Ahead(t[i])'
    <2> TAKE i \in DOMAIN t
    <2>1. CASE i = Len(es) + 1
      BY <1>2, <2>1
    <2>2. CASE i \in DOMAIN es
      <3>1. PICK d \in Event : d = es[i] /\ d = t[i]
        BY <1>2, <1>3, <2>2
      <3>2. SentHere(d) /\ Ahead(d)
        BY <1>3, <2>2, <3>1
      <3>3. SentHere(d)' /\ Ahead(d)'
        BY <3>2
      <3> QED BY <3>1, <3>3
    <2> QED BY <1>2, <2>1, <2>2
  <1>5. \A i, j \in DOMAIN t : i < j => After(t[i], t[j])
    <2> SUFFICES ASSUME NEW i \in DOMAIN t, NEW j \in DOMAIN t, i < j PROVE After(t[i], t[j])
      OBVIOUS
    <2>1. i \in DOMAIN es
      BY <1>2
    <2>2. CASE j \in DOMAIN es
      BY <1>2, <1>3, <2>1, <2>2
    <2>3. CASE j = Len(es) + 1
      BY <1>2, <1>3, <2>1, <2>3
    <2> QED BY <1>2, <2>2, <2>3
  <1> QED BY <1>1, <1>4, <1>5 DEF EventsOK

\* What is left when the first event was received.
LEMMA EventsLeft ==
    ASSUME Types, CountsOK, SocketOK, EventsOK, Receive, NEW es, es = socket.events, NEW t, t = Tail(es)
    PROVE  /\ socket'.events = t /\ es[1] \in Event /\ 1 \in DOMAIN es /\ Head(socket.events) = es[1]
           /\ SentHere(es[1]) /\ Ahead(es[1])
           /\ \A i \in DOMAIN t : i + 1 \in DOMAIN es /\ t[i] = es[i + 1] /\ i \in Nat
           /\ \A i \in DOMAIN t : t[i] \in Event /\ SentHere(t[i]) /\ Ahead(t[i]) /\ After(es[1], t[i])
           /\ \A i \in DOMAIN es : i = 1 \/ \E j \in DOMAIN t : t[j] = es[i]
  <1>1. es \in Seq(Event) /\ es # <<>>
    BY EventsAre, ReceivedIs
  <1>2. /\ DOMAIN es = 1 .. Len(es) /\ Len(es) \in Nat \ {0} /\ DOMAIN t = 1 .. Len(es) - 1
        /\ 1 \in DOMAIN es /\ Head(es) = es[1] /\ es[1] \in Event
        /\ \A i \in DOMAIN t : i + 1 \in DOMAIN es /\ t[i] = es[i + 1] /\ i \in Nat
    BY <1>1, TailIs
  <1>3. /\ \A i \in DOMAIN es : SentHere(es[i]) /\ Ahead(es[i]) /\ es[i] \in Event
        /\ \A i, j \in DOMAIN es : i < j => After(es[i], es[j])
    BY EventsAre DEF EventsOK
  <1>4. ASSUME NEW i \in DOMAIN t
        PROVE  t[i] \in Event /\ SentHere(t[i]) /\ Ahead(t[i]) /\ After(es[1], t[i])
    <2>1. 1 < i + 1 /\ i + 1 \in DOMAIN es /\ t[i] = es[i + 1]
      BY <1>2
    <2> QED BY <1>2, <1>3, <2>1
  <1>5. ASSUME NEW i \in DOMAIN es, i # 1 PROVE \E j \in DOMAIN t : t[j] = es[i]
    <2>1. PICK j : j = i - 1
      OBVIOUS
    <2>2. j \in DOMAIN t /\ j + 1 = i
      BY <1>2, <1>5, <2>1
    <2> QED BY <1>2, <2>2
  <1>6. socket'.events = t
    BY ReceiveIs
  <1> QED BY <1>2, <1>3, <1>4, <1>5, <1>6

LEMMA EventsStep ==
    Types /\ Types' /\ CountsOK /\ SocketOK /\ OutOK /\ ContextsOK /\ ReadOK /\ CursorOK
    /\ EventsOK /\ [Next]_vars => EventsOK'
  <1>1. EventsOK /\ UNCHANGED vars => EventsOK'
    BY DEF EventsOK, SentHere, Ahead, DataOf, vars
  <1> SUFFICES ASSUME Types, Types', CountsOK, SocketOK, OutOK, ContextsOK, ReadOK, CursorOK,
                      EventsOK, Next
               PROVE  EventsOK'
    BY <1>1
  <1>2. PICK es : es = socket.events
    OBVIOUS
  <1>3. CASE socket'.events = <<>>
    BY <1>3 DEF EventsOK
  <1>4. CASE Connect
    BY <1>3, <1>4, ConnectIs
  <1>5. CASE Disconnect
    BY <1>3, <1>5, DisconnectIs
  <1>6. ~server.known => es = <<>>
    BY <1>2 DEF SocketOK
  <1>7. \/ Disconnect \/ Connect \/ Receive \/ ~server.known
        \/ \A d \in Event : SentHere(d) /\ Ahead(d) => SentHere(d)' /\ Ahead(d)'
    BY EventStays
  <1>8. CASE socket'.events = es /\ ~Receive
    <2>1. CASE es = <<>>
      BY <1>3, <1>8, <2>1
    <2>2. CASE \A d \in Event : SentHere(d) /\ Ahead(d) => SentHere(d)' /\ Ahead(d)'
      <3>1. /\ \A i \in DOMAIN es : SentHere(es[i]) /\ Ahead(es[i]) /\ es[i] \in Event
            /\ \A i, j \in DOMAIN es : i < j => After(es[i], es[j])
        BY <1>2, EventsAre DEF EventsOK
      <3>2. \A i \in DOMAIN es : SentHere(es[i])' /\ Ahead(es[i])'
        BY <2>2, <3>1
      <3> QED BY <1>8, <3>1, <3>2 DEF EventsOK
    <2> QED BY <1>4, <1>5, <1>6, <1>7, <1>8, <2>1, <2>2
  <1>9. CASE Receive
    <2>1. PICK t : t = Tail(es)
      OBVIOUS
    <2>2. PICK ev \in Event : ev = es[1] /\ ev = Head(socket.events) /\ SentHere(ev) /\ Ahead(ev)
      BY <1>2, <1>9, <2>1, EventsLeft
    <2>3. /\ socket'.events = t
          /\ \A i \in DOMAIN t : i + 1 \in DOMAIN es /\ t[i] = es[i + 1] /\ i \in Nat
          /\ \A i \in DOMAIN t : t[i] \in Event /\ SentHere(t[i]) /\ Ahead(t[i]) /\ After(ev, t[i])
      <3>1. socket'.events = t
        BY <1>2, <1>9, <2>1, EventsLeft
      <3>2. \A i \in DOMAIN t : i + 1 \in DOMAIN es /\ t[i] = es[i + 1] /\ i \in Nat
        <4>1. es \in Seq(Event) /\ es # <<>>
          BY <1>2, <1>9, EventsAre, ReceivedIs
        <4> QED BY <2>1, <4>1, TailIs
      <3>3. \A i \in DOMAIN t : t[i] \in Event /\ SentHere(t[i]) /\ Ahead(t[i]) /\ After(es[1], t[i])
        BY <1>2, <1>9, <2>1, EventsLeft, Zenon
      <3> QED BY <2>2, <3>1, <3>2, <3>3, Zenon
    <2>4. ASSUME NEW e \in Event, SentHere(e), Ahead(e), After(ev, e)
          PROVE  SentHere(e)' /\ Ahead(e)'
      <3>1. server' = server /\ data' = data /\ socket'.conn = socket.conn
        BY <1>9, ReceiveIs DEF Receive, world
      <3>2. SentHere(e)'
        BY <2>4, <3>1 DEF SentHere, DataOf
      <3>3. CASE browser' = browser
        BY <2>4, <3>2, <3>3 DEF Ahead
      <3>4. CASE browser' = Accepted(ev)
        <4>1. ev.stream = Stream(socket.conn, ev.epoch) /\ e.stream = Stream(socket.conn, e.epoch)
          BY <2>2, <2>4 DEF SentHere
        <4> QED BY <2>4, <3>2, <3>4, <4>1, AheadAccepted
      <3> QED BY <1>9, <2>2, <3>2, <3>3, <3>4, ReceiveIs
    <2>5. \A i \in DOMAIN t : SentHere(t[i])' /\ Ahead(t[i])'
      BY <2>3, <2>4
    <2>6. \A i, j \in DOMAIN t : i < j => After(t[i], t[j])
      <3>1. \A i, j \in DOMAIN es : i < j => After(es[i], es[j])
        BY <1>2 DEF EventsOK
      <3>2. \A i, j \in DOMAIN t : i < j => i + 1 < j + 1
        BY <2>3
      <3> QED BY <2>3, <3>1, <3>2
    <2> QED BY <2>3, <2>5, <2>6 DEF EventsOK
  <1>10. CASE ReadLocal
    <2>1. CASE socket'.events = es
      BY <1>8, <1>9, <2>1
    <2>2. ASSUME NEW e \in Event, socket'.events = Append(socket.events, e),
                 e.stream = Stream(socket.conn, server.epoch), e.epoch = server.epoch,
                 e.sequence = server.sequence + 1, e.content = Found,
                 server'.sequence \in {e.sequence, e.sequence + 1}
          PROVE  EventsOK'
      <3>1. SentHere(e)' /\ Ahead(e)'
        BY <1>10, <2>2, NewIsSent
      <3>2. ~Disconnect /\ ~Connect /\ ~Receive /\ server.known /\ server.pc = "read"
        <4>1. server'.known /\ socket'.up /\ socket.up /\ server.known /\ server.pc = "read"
          BY <1>10, ReadLocalIs
        <4>2. Receive => server' = server
          BY DEF Receive
        <4>3. server' # server
          <5>1. PICK os \in Int, ns \in Int : os = server.sequence /\ ns = server'.sequence
            BY ServerInts
          <5>2. ns # os
            BY <2>2, <5>1
          <5> QED BY <5>1, <5>2
        <4> QED BY <4>1, <4>2, <4>3, DisconnectIs, ConnectIs
      <3>3. \A d \in Event : SentHere(d) /\ Ahead(d) => SentHere(d)' /\ Ahead(d)'
        BY <3>2, EventStays
      <3>4. \A i \in DOMAIN socket.events : After(socket.events[i], e)
        <4>1. \A i \in DOMAIN socket.events : SentHere(socket.events[i])
          BY DEF EventsOK
        <4> QED BY <2>2, <3>2, <4>1, NewIsAfter
      <3> QED BY <2>2, <3>1, <3>3, <3>4, EventAppended
    <2>3. \/ socket'.events = es
          \/ \E e \in Event : /\ socket'.events = Append(socket.events, e)
                              /\ e.stream = Stream(socket.conn, server.epoch) /\ e.epoch = server.epoch
                              /\ e.sequence = server.sequence + 1 /\ e.content = Found
                              /\ server'.sequence \in {server.sequence + 1, server.sequence + 2}
      BY <1>2, <1>10, ReadLocalIs
    <2>4. server.sequence + 2 = (server.sequence + 1) + 1
      BY ServerInts
    <2> QED BY <2>1, <2>2, <2>3, <2>4
  <1>11. CASE Send
    <2>1. PICK e \in Event : /\ server.out = <<e>> /\ SentHere(e) /\ Ahead(e)
                             /\ \A i \in DOMAIN socket.events : After(socket.events[i], e)
      BY <1>11 DEF OutOK, Send
    <2>2. socket'.events = Append(socket.events, e) /\ server.known /\ server'.pc = "idle"
          /\ server.pc = "send" /\ server'.known /\ socket'.up = socket.up
      BY <1>11, <2>1, SendIs
    <2>3. ~Disconnect /\ ~Connect /\ ~Receive
      <3>1. Receive => server' = server
        BY DEF Receive
      <3> QED BY <2>2, <3>1, DisconnectIs, ConnectIs, IdleServerIs DEF SocketOK
    <2>4. \A d \in Event : SentHere(d) /\ Ahead(d) => SentHere(d)' /\ Ahead(d)'
      BY <2>2, <2>3, EventStays
    <2> QED BY <2>1, <2>2, <2>4, EventAppended
  <1> QED BY <1>2, <1>4, <1>5, <1>8, <1>9, <1>10, <1>11, EventsStay

\* No event is on its way that was not before, unless the server sent it.
LEMMA EventsShrink ==
    ASSUME Types, CountsOK, SocketOK, EventsOK, Next, ~ReadLocal, ~Send,
           NEW es, es = socket.events, NEW t, t = socket'.events
    PROVE  \A i \in DOMAIN t : \E j \in DOMAIN es : t[i] = es[j]
  <1>1. CASE t = <<>>
    BY <1>1
  <1>2. CASE t = es
    BY <1>2
  <1>3. CASE Receive
    <2>1. t = Tail(es)
      BY <1>3, ReceiveIs
    <2>2. \A i \in DOMAIN t : i + 1 \in DOMAIN es /\ t[i] = es[i + 1] /\ i \in Nat
      <3>1. es \in Seq(Event) /\ es # <<>>
        BY <1>3, EventsAre, ReceivedIs
      <3> QED BY <2>1, <3>1, TailIs
    <2> QED BY <2>2
  <1> QED BY <1>1, <1>2, <1>3, EventsStay, ConnectIs, DisconnectIs

\* An event after all that the browser has received stays as it is.
LEMMA ReceiveKeeps ==
    ASSUME Types, CountsOK, SocketOK, EventsOK, Receive, NEW e \in Event, SentHere(e), Ahead(e),
           NEW ev \in Event, ev = Head(socket.events), After(ev, e)
    PROVE  SentHere(e)' /\ Ahead(e)'
  <1>1. server' = server /\ data' = data /\ socket'.conn = socket.conn
    BY ReceiveIs DEF Receive, world
  <1>2. SentHere(e)'
    BY <1>1 DEF SentHere, DataOf
  <1>3. CASE browser' = browser
    BY <1>2, <1>3 DEF Ahead
  <1>4. CASE browser' = Accepted(ev)
    <2>1. SentHere(ev)
      BY EventsLeft
    <2>2. ev.stream = Stream(socket.conn, ev.epoch) /\ e.stream = Stream(socket.conn, e.epoch)
      BY <2>1 DEF SentHere
    <2> QED BY <1>2, <1>4, <2>2, AheadAccepted
  <1> QED BY <1>3, <1>4, ReceiveIs

LEMMA OutStep ==
    Types /\ Types' /\ CountsOK /\ SocketOK /\ OutOK /\ ContextsOK /\ ReadOK /\ CursorOK
    /\ EventsOK /\ [Next]_vars => OutOK'
  <1>1. OutOK /\ UNCHANGED vars => OutOK'
    BY DEF OutOK, SentHere, Ahead, DataOf, vars
  <1> SUFFICES ASSUME Types, Types', CountsOK, SocketOK, OutOK, ContextsOK, ReadOK, CursorOK,
                      EventsOK, Next
               PROVE  OutOK'
    BY <1>1
  <1>2. PICK es, t : es = socket.events /\ t = socket'.events
    OBVIOUS
  <1>3. CASE server'.pc # "send" /\ server'.out = <<>>
    BY <1>3 DEF OutOK
  <1>4. CASE Alike(server, server') /\ server.pc # "send"
    BY <1>3, <1>4 DEF OutOK, Alike
  <1>5. CASE Alike(server, server') /\ server.pc = "send"
    <2>1. PICK e \in Event :
             /\ server.out = <<e>> /\ e.type = "chan" /\ e.epoch = server.epoch
             /\ SentHere(e) /\ Ahead(e)
             /\ \A i \in DOMAIN es : After(es[i], e)
             /\ server.hash # <<>> /\ server.hash[1] = server.revision
             /\ AtMost(server.hash[2], e.content)
      BY <1>2, <1>5 DEF OutOK
    <2>2. /\ server'.out = <<e>> /\ e.epoch = server'.epoch /\ server'.hash = server.hash
          /\ server'.revision = server.revision /\ server'.pc = "send" /\ server.known
      BY <1>5, <2>1, ContextIsKnown DEF Alike
    <2>3. ~Disconnect /\ ~Connect /\ ~ReadLocal /\ ~Send
      <3>1. ReadLocal => server.pc = "read"
        BY DEF ReadLocal
      <3>2. Send => server'.pc = "idle"
        BY <2>1, SendIs
      <3> QED BY <1>5, <2>2, <3>1, <3>2, DisconnectIs, ConnectIs, IdleServerIs DEF SocketOK
    <2>4. SentHere(e)' /\ Ahead(e)'
      <3>1. CASE Receive
        <4>1. PICK ev \in Event : ev = es[1] /\ ev = Head(socket.events) /\ 1 \in DOMAIN es
          BY <1>2, <3>1, EventsLeft
        <4> QED BY <2>1, <3>1, <4>1, ReceiveKeeps
      <3>2. CASE ~Receive
        BY <2>1, <2>2, <2>3, <3>2, EventStays
      <3> QED BY <3>1, <3>2
    <2>5. \A i \in DOMAIN t : After(t[i], e)
      <3>1. \A i \in DOMAIN t : \E j \in DOMAIN es : t[i] = es[j]
        BY <1>2, <2>3, EventsShrink
      <3> QED BY <2>1, <3>1
    <2> QED BY <1>2, <2>1, <2>2, <2>4, <2>5 DEF OutOK
  <1>6. CASE Disconnect
    BY <1>3, <1>6, DisconnectIs, IdleServerIs
  <1>7. CASE HandleContext
    BY <1>3, <1>7, HandleIs
  <1>8. CASE ReadCache
    BY <1>3, <1>8, ReadCacheIs DEF OutOK
  <1>9. CASE Send
    <2>1. PICK e \in Event : server.out = <<e>>
      BY <1>9 DEF OutOK, Send
    <2> QED BY <1>3, <1>9, <2>1, SendIs
  <1>10. CASE ReadLocal
    <2>1. CASE server'.pc = "idle" /\ server'.out = <<>>
      BY <1>3, <2>1
    <2>2. ASSUME NEW e \in Event, NEW d \in Event,
                 e.epoch = server.epoch, e.sequence = server.sequence + 1, e.content = Found,
                 t = Append(es, e), server'.hash = Hash(Found), server'.out = <<d>>,
                 server'.sequence = server.sequence + 2, d.type = "chan",
                 d.stream = Stream(socket.conn, server.epoch), d.epoch = server.epoch,
                 d.sequence = server.sequence + 2, d.content = Found, server'.pc = "send"
          PROVE  OutOK'
      <3>1. server.pc = "read" /\ server'.epoch = server.epoch /\ server'.revision = server.revision
        BY <1>10, ReadLocalIs
      <3>2. SentHere(d)' /\ Ahead(d)'
        BY <1>10, <2>2, NewIsSent
      <3>3. \A i \in DOMAIN es : After(es[i], d)
        <4>1. \A i \in DOMAIN socket.events : SentHere(socket.events[i])
          BY DEF EventsOK
        <4> QED BY <1>2, <2>2, <3>1, <4>1, NewIsAfter
      <3>4. AtMost(Found, Found)
        BY FoundIs, AtMostOrders
      <3>5. After(e, d)
        <4>1. e.sequence < d.sequence
          BY <2>2, ServerInts
        <4> QED BY <2>2, <3>4, <4>1 DEF After
      <3>6. \A i \in DOMAIN t : After(t[i], d)
        <4>1. /\ \A i \in DOMAIN es : t[i] = es[i]
              /\ \A i \in DOMAIN t : i \in DOMAIN es \/ i = Len(es) + 1
              /\ t[Len(es) + 1] = e
          BY <1>2, <2>2, EventsAre, AppendIs
        <4> QED BY <3>3, <3>5, <4>1
      <3>7. server'.hash # <<>> /\ server'.hash[1] = server'.revision /\ AtMost(server'.hash[2], d.content)
        BY <2>2, <3>1, <3>4 DEF Hash
      <3> QED BY <1>2, <2>2, <3>1, <3>2, <3>6, <3>7 DEF OutOK
    <2>3. \/ server'.pc = "idle" /\ server'.out = <<>>
          \/ \E e, d \in Event :
                /\ e.epoch = server.epoch /\ e.sequence = server.sequence + 1 /\ e.content = Found
                /\ t = Append(es, e) /\ server'.hash = Hash(Found) /\ server'.out = <<d>>
                /\ server'.sequence = server.sequence + 2 /\ d.type = "chan"
                /\ d.stream = Stream(socket.conn, server.epoch) /\ d.epoch = server.epoch
                /\ d.sequence = server.sequence + 2 /\ d.content = Found /\ server'.pc = "send"
      BY <1>2, <1>10, ReadLocalIs
    <2> QED BY <2>1, <2>2, <2>3
  <1> QED BY <1>4, <1>5, <1>6, <1>7, <1>8, <1>9, <1>10, ServerStays

\* A read goes on with what it has, in the mode it began with.
LEMMA ReadStep ==
    Types /\ Types' /\ CountsOK /\ SocketOK /\ OutOK /\ ContextsOK /\ ReadOK /\ HashOK
    /\ EventsOK /\ [Next]_vars => ReadOK'
  <1>1. ReadOK /\ UNCHANGED vars => ReadOK'
    BY DEF ReadOK, Mismatch, DataOf, vars
  <1> SUFFICES ASSUME Types, Types', CountsOK, SocketOK, OutOK, ContextsOK, ReadOK, HashOK,
                      EventsOK, Next
               PROVE  ReadOK'
    BY <1>1
  <1>2. PICK es, t : es = socket.events /\ t = socket'.events
    OBVIOUS
  <1>3. CASE server'.pc # "read"
    BY <1>3 DEF ReadOK
  <1>4. data' \in [Symbols -> Content] /\ Grows
    BY BusyTypes, DataMoves
  <1>5. PICK ep \in Changes : ep = server.epoch
    BY ServerFields DEF Types
  <1>6. PICK od \in Content, nd \in Content : od = DataOf(ep) /\ nd = data'[SymbolOf(ep)] /\ od.ext <= nd.ext
    BY <1>4, DataGrows DEF AtMost
  <1>7. CASE Alike(server, server') /\ server.pc = "read" /\ ~ReadLocal
    <2>1. PICK x \in 0 .. 1 : x = server.ext
      BY ServerFields DEF Types
    <2>2. /\ server'.mode = server.mode /\ server'.ext = x /\ server'.hash = server.hash
          /\ server'.epoch = ep /\ server'.after = server.after /\ server'.sequence = server.sequence
      BY <1>5, <1>7, <2>1 DEF Alike
    <2>3. server.mode = "resync" <=> Mismatch
      BY <1>7 DEF ReadOK
    <2>4. server'.mode = "resync" <=> Mismatch'
      BY <2>2, <2>3 DEF Mismatch
    <2>5. x <= nd.ext
      <3>1. x <= od.ext
        BY <1>5, <1>6, <1>7, <2>1 DEF ReadOK
      <3> QED BY <1>6, <2>1, <3>1, ContentType
    <2>6. \A i \in DOMAIN t : t[i].epoch = ep => t[i].content.ext <= x
      <3>1. ~Send
        BY <1>7 DEF Send
      <3>2. \A i \in DOMAIN t : \E j \in DOMAIN es : t[i] = es[j]
        BY <1>2, <1>7, <3>1, EventsShrink
      <3>3. \A j \in DOMAIN es : es[j].epoch = ep => es[j].content.ext <= x
        BY <1>2, <1>5, <1>7, <2>1 DEF ReadOK
      <3> QED BY <3>2, <3>3
    <2>7. server.hash # <<>> => server.hash[2].ext <= x
      BY <1>7, <2>1 DEF ReadOK
    <2> QED BY <1>2, <1>6, <2>2, <2>4, <2>5, <2>6, <2>7 DEF ReadOK, DataOf
  <1>8. CASE ReadCache
    <2>1. /\ server'.ext = DataOf(server.epoch).ext /\ server'.hash = server.hash
          /\ server'.epoch = ep /\ server'.after = server.after /\ server'.sequence = server.sequence
          /\ server'.mode = "resync" <=> Mismatch
      BY <1>5, <1>8, ReadCacheIs
    <2>2. server'.mode = "resync" <=> Mismatch'
      BY <2>1 DEF Mismatch
    <2>3. socket' = socket /\ data' = data
      BY <1>8 DEF ReadCache, world
    <2>4. PICK x \in 0 .. 1 : x = od.ext /\ x = server'.ext /\ x <= x
      BY <1>5, <1>6, <2>1, ContentType
    <2>5. \A i \in DOMAIN es : es[i].epoch = ep => es[i].content.ext <= x
      BY <1>2, <1>6, <2>4 DEF EventsOK, SentHere, AtMost
    <2>6. server.hash # <<>> => server.hash[2].ext <= x
      BY <1>5, <1>6, <2>4 DEF HashOK, AtMost
    <2>7. x <= DataOf(ep).ext
      BY <1>6, <2>4
    <2> QED BY <1>2, <2>1, <2>2, <2>3, <2>4, <2>5, <2>6, <2>7 DEF ReadOK, DataOf
  <1>9. CASE HandleContext
    BY <1>3, <1>9, HandleIs
  <1>10. CASE ReadLocal
    <2>1. server'.pc \in {"idle", "send"}
      BY <1>10, ReadLocalIs
    <2> QED BY <1>3, <2>1
  <1>11. CASE Send
    <2>1. PICK e \in Event : server.out = <<e>>
      BY <1>11 DEF OutOK, Send
    <2> QED BY <1>3, <1>11, <2>1, SendIs
  <1>12. CASE Disconnect
    BY <1>3, <1>12, DisconnectIs, IdleServerIs
  <1>13. CASE Alike(server, server') /\ server.pc # "read"
    BY <1>3, <1>13 DEF Alike
  <1> QED BY <1>7, <1>8, <1>9, <1>10, <1>11, <1>12, <1>13, ServerStays

-----------------------------------------------------------------------------
(* The place of the browser, and what it shows.                              *)

LEMMA ActiveIs ==
    ASSUME NEW b \in Browsers
    PROVE  b.active[1] \in Nat /\ b.active[2] \in Nat /\ b.cursor \in Nat
  <1>1. b.cursor \in Nat
    BY BrowserFields, ChangesAreNat
  <1>2. CASE b.active = NoStream
    BY <1>1, <1>2 DEF NoStream
  <1>3. CASE b.active # NoStream
    <2>1. PICK c \in Connections, e \in Changes : b.active = <<c, e>>
      BY <1>3, BrowserFields
    <2>2. c \in Nat /\ e \in Nat
      BY ChangesAreNat
    <2> QED BY <1>1, <2>1, <2>2
  <1> QED BY <1>2, <1>3

\* A connection that is up is none of NoStream.
LEMMA ConnectionIs ==
    ASSUME Types
    PROVE  /\ socket.conn \in Nat
           /\ \A c \in Connections : c \in Nat /\ c # 0
           /\ \A s \in Connections \X Changes : s # NoStream
           /\ NoStream[1] = 0 /\ NoStream[2] = 0
  <1>1. \A c \in Connections : c \in Nat /\ c # 0
    BY ChangesAreNat DEF Connections
  <1>2. socket.conn \in Nat
    BY <1>1, SocketFields DEF Types
  <1> QED BY <1>1, <1>2 DEF NoStream

LEMMA CursorStep ==
    Types /\ Types' /\ CountsOK /\ SocketOK /\ SocketOK' /\ OutOK /\ ContextsOK /\ CursorOK
    /\ EventsOK /\ [Next]_vars => CursorOK'
  <1>1. CursorOK /\ UNCHANGED vars => CursorOK'
    BY DEF CursorOK, vars
  <1> SUFFICES ASSUME Types, Types', CountsOK, SocketOK, SocketOK', OutOK, ContextsOK, CursorOK,
                      EventsOK, Next
               PROVE  CursorOK'
    BY <1>1
  <1>2. PICK c \in Nat, a1 \in Nat, a2 \in Nat, q \in Nat, ep \in Int, sq \in Int :
            /\ c = socket.conn /\ a1 = browser.active[1] /\ a2 = browser.active[2]
            /\ q = browser.cursor /\ ep = server.epoch /\ sq = server.sequence
    BY ConnectionIs, ActiveIs, ServerInts DEF Types
  <1>3. /\ a1 <= c
        /\ browser.active # NoStream => q # 0
        /\ socket.up /\ ~server.known => a1 # c
        /\ (server.known /\ a1 = c) => a2 <= ep /\ (a2 = ep => q <= sq)
    BY <1>2 DEF CursorOK
  <1>4. ASSUME browser'.active = NoStream PROVE CursorOK'
    <2>1. PICK d \in Nat : d = socket'.conn /\ (socket'.up => d # 0)
      <3>1. socket'.conn \in {0} \union Connections
        BY SocketFields DEF Types
      <3>2. socket'.conn \in Nat
        BY <3>1, ConnectionIs
      <3>3. socket'.up => socket'.conn # 0
        BY ConnectionIs DEF SocketOK
      <3> QED BY <3>2, <3>3
    <2>2. server'.known => socket'.up
      BY DEF SocketOK
    <2>3. browser'.active[1] = 0
      BY <1>4, ConnectionIs
    <2> QED BY <1>4, <2>1, <2>2, <2>3 DEF CursorOK
  <1>5. ASSUME browser'.active = browser.active, browser'.cursor = browser.cursor,
               socket'.conn = c, socket'.up = socket.up, (server'.known <=> server.known),
               NEW np \in Int, NEW ns \in Int, np = server'.epoch, ns = server'.sequence,
               ep <= np, server.known => (ep = np => sq <= ns)
        PROVE  CursorOK'
    <2>1. (server.known /\ a1 = c) => a2 <= np /\ (a2 = np => q <= ns)
      BY <1>3, <1>5
    <2> QED BY <1>2, <1>3, <1>5, <2>1 DEF CursorOK
  <1>6. CASE Receive
    <2>1. /\ server' = server /\ socket'.conn = c /\ socket'.up = socket.up
      BY <1>2, <1>6, ReceiveIs DEF Receive
    <2>2. CASE browser' = browser
      <3>1. ep <= ep /\ sq <= sq
        OBVIOUS
      <3> QED BY <1>2, <1>5, <2>1, <2>2, <3>1
    <2>3. PICK ev \in Event : ev = Head(socket.events) /\ SentHere(ev)
      BY <1>6, EventsLeft
    <2>4. CASE browser' = Accepted(ev)
      <3>1. browser'.active = ev.stream /\ browser'.cursor = ev.sequence
        BY <2>4, AcceptedIs
      <3>2. ev.stream = Stream(c, ev.epoch) /\ ev.epoch <= ep /\ (ev.epoch = ep => ev.sequence <= sq)
        BY <1>2, <2>3 DEF SentHere
      <3>3. browser'.active[1] = c /\ browser'.active[2] = ev.epoch
        BY <3>1, <3>2 DEF Stream
      <3>4. server.known
        BY <1>6, ReceivedIs DEF SocketOK
      <3>5. ev.sequence # 0 /\ c <= c
        BY EventFields, ChangesAreNat
      <3> QED BY <1>2, <2>1, <3>1, <3>2, <3>3, <3>4, <3>5 DEF CursorOK
    <2> QED BY <1>6, <2>2, <2>3, <2>4, ReceiveIs
  <1>7. CASE Connect
    <2>1. browser' = browser /\ server' = server /\ socket'.conn = c + 1 /\ ~server.known
      BY <1>2, <1>7, ConnectIs DEF Connect, SocketOK
    <2>2. a1 <= c + 1 /\ a1 # c + 1
      BY <1>3
    <2> QED BY <1>2, <1>3, <2>1, <2>2 DEF CursorOK
  <1>8. CASE Disconnect
    <2>1. browser' = browser /\ socket'.conn = c /\ ~socket'.up /\ ~server'.known
      BY <1>2, <1>8, DisconnectIs, IdleServerIs DEF Disconnect
    <2> QED BY <1>2, <1>3, <2>1 DEF CursorOK
  <1>9. CASE HandleContext
    <2>1. browser' = browser /\ socket'.conn = c /\ socket'.up = socket.up /\ server'.known /\ socket.up
      BY <1>2, <1>9, HandleIs DEF HandleContext, SocketOK
    <2>2. CASE ~server.known
      BY <1>2, <1>3, <2>1, <2>2 DEF CursorOK
    <2>3. CASE server.known
      <3>1. PICK np \in Int, ns \in Int : np = server'.epoch /\ ns = server'.sequence
        BY ServerInts
      <3>2. ~Disconnect
        BY <2>1, DisconnectIs
      <3>3. ep <= np /\ (ep = np => sq <= ns)
        BY <1>2, <2>3, <3>1, <3>2, ServerMoves
      <3> QED BY <1>5, <2>1, <2>3, <3>1, <3>3
    <2> QED BY <2>2, <2>3
  <1>10. CASE /\ browser'.active = browser.active /\ browser'.cursor = browser.cursor
              /\ ~Receive /\ ~Connect /\ ~Disconnect /\ ~HandleContext
    <2>1. socket'.conn = c /\ socket'.up = socket.up
      BY <1>2, <1>10, ConnectionMoves
    <2>2. PICK np \in Int, ns \in Int : np = server'.epoch /\ ns = server'.sequence
      BY ServerInts
    <2>3. (server'.known <=> server.known) /\ np = ep /\ sq <= ns
      <3>1. CASE Alike(server, server')
        BY <1>2, <2>2, <3>1 DEF Alike
      <3>2. CASE ReadCache
        BY <1>2, <2>2, <3>2, ReadCacheIs DEF SocketOK
      <3>3. CASE ReadLocal
        <4>1. ns \in {sq, sq + 1, sq + 2}
          BY <1>2, <2>2, <3>3, ReadLocalIs
        <4> QED BY <1>2, <2>2, <3>3, <4>1, ReadLocalIs
      <3>4. CASE Send
        <4>1. PICK e \in Event : server.out = <<e>>
          BY <3>4 DEF OutOK, Send
        <4> QED BY <1>2, <2>2, <3>4, <4>1, SendIs
      <3> QED BY <1>10, <3>1, <3>2, <3>3, <3>4, ServerStays
    <2>4. ep <= np
      BY <2>3
    <2> QED BY <1>5, <1>10, <2>1, <2>2, <2>3, <2>4
  <1> QED BY <1>4, <1>6, <1>7, <1>8, <1>9, <1>10, BrowserStays

\* What the bootstrap holds goes on to be in the data.
LEMMA FetchStays ==
    ASSUME Types, Next
    PROVE  fetch' = fetch \/ Confirm \/ AnswerBootstrap \/ AcceptBootstrap \/ FailBootstrap
  BY DEF Next, ChangeSymbol, ChangeWatchlist, Receive, Connect, Disconnect, HandleContext, RelayReady,
     RelayTimeout, RelayLate, TakeNotice, ReadCache, ReadLocal, Send, LocalCommit, Announce, Fill,
     PublishFill, StopCollector

LEMMA FetchFields ==
    ASSUME NEW f \in Fetches
    PROVE  f.epoch \in Changes /\ f.epoch \in Int /\ f.content \in Content
  <1>1. PICK e \in Changes : e = f.epoch
    BY DEF Fetches
  <1>2. e \in Int
    BY ChangesAreNat
  <1>3. f.content \in Content
    BY DEF Fetches
  <1> QED BY <1>1, <1>2, <1>3

LEMMA ShownStays ==
    ASSUME Types, Next
    PROVE  shown' = shown \/ AcceptBootstrap \/ FailBootstrap \/ Receive
  BY DEF Next, Confirm, AnswerBootstrap, ChangeSymbol, ChangeWatchlist, Connect, Disconnect,
     HandleContext, RelayReady, RelayTimeout, RelayLate, TakeNotice, ReadCache, ReadLocal, Send,
     LocalCommit, Announce, Fill, PublishFill, StopCollector

LEMMA ShownStep ==
    Types /\ Types' /\ CountsOK /\ SocketOK /\ EventsOK /\ ShownOK /\ [Next]_vars => ShownOK'
  <1>1. ShownOK /\ UNCHANGED vars => ShownOK'
    BY DEF ShownOK, DataOf, vars
  <1> SUFFICES ASSUME Types, Types', CountsOK, SocketOK, EventsOK, ShownOK, Next PROVE ShownOK'
    BY <1>1
  <1>2. PICK old, new \in [Symbols -> Content], sh, sn \in [Symbols -> Content] :
            old = data /\ new = data' /\ sh = shown /\ sn = shown'
    BY DEF Types
  <1>3. /\ \A s \in Symbols : AtMost(sh[s], old[s]) /\ AtMost(old[s], new[s])
        /\ \A c \in Content : \A s \in Symbols : AtMost(c, old[s]) => AtMost(c, new[s])
    <2>1. \A s \in Symbols : AtMost(sh[s], old[s]) /\ AtMost(old[s], new[s])
      BY <1>2, DataMoves DEF ShownOK, Grows
    <2> QED BY <2>1, AtMostOrders
  <1>4. PICK be \in Int, ne \in Int : be = browser.epoch /\ ne = browser'.epoch /\ be <= ne
    <2>1. PICK be \in Nat : be = browser.epoch
      BY ContextInts
    <2>2. browser'.epoch = be \/ browser'.epoch = be + 1
      BY <2>1, BrowserMoves, ChangeSymbolIs, ChangeWatchlistIs
    <2>3. be \in Int /\ be + 1 \in Int /\ be <= be /\ be <= be + 1
      OBVIOUS
    <2> QED BY <2>1, <2>2, <2>3
  <1>5. \A s \in Symbols : AtMost(sn[s], new[s])
    <2>1. CASE shown' = shown
      BY <1>2, <1>3, <2>1
    <2>2. CASE AcceptBootstrap
      <3>1. CASE shown' = shown
        BY <2>1, <3>1
      <3>2. CASE /\ fetch.at = "answered" /\ fetch.epoch = browser.epoch
                 /\ \A s \in Symbols : shown'[s] = IF s = SymbolOf(browser.epoch) THEN fetch.content
                                                   ELSE Nothing
        <4>1. fetch.content \in Content /\ AtMost(fetch.content, old[SymbolOf(browser.epoch)])
          BY <1>2, <3>2, FetchFields DEF Types, ShownOK, DataOf
        <4>2. \A s \in Symbols : AtMost(Nothing, new[s])
          BY AtMostOrders
        <4> QED BY <1>2, <1>3, <3>2, <4>1, <4>2
      <3> QED BY <2>2, <3>1, <3>2, AcceptIs
    <2>3. CASE FailBootstrap
      <3>1. \A s \in Symbols : AtMost(sn[s], sh[s])
        BY <1>2, <2>3, FailIs
      <3> QED BY <1>3, <3>1, AtMostOrders
    <2>4. CASE Receive
      <3>1. PICK ev \in Event : ev = Head(socket.events) /\ SentHere(ev)
        BY <2>4, EventsLeft
      <3>2. CASE shown' = shown
        BY <2>1, <3>2
      <3>3. CASE Fits(ev) /\ shown' = ShownAfter(ev)
        <4>1. PICK chart \in Symbols, c \in Content :
                 /\ chart = SymbolOf(browser.epoch) /\ c = ev.content
                 /\ \A s \in Symbols : s # chart => sn[s] \in {sh[s], Nothing}
                 /\ ev.type # "chan" => sn[chart] = c
                 /\ ev.type = "chan" => sn[chart].ext = sh[chart].ext /\ sn[chart].loc = c.loc
          BY <1>2, <3>3, ShownIs, EventFields
        <4>2. AtMost(c, old[chart])
          BY <1>2, <3>1, <3>3, <4>1 DEF SentHere, Fits, DataOf
        <4>3. AtMost(sn[chart], old[chart])
          <5>1. CASE ev.type # "chan"
            BY <4>1, <4>2, <5>1
          <5>2. CASE ev.type = "chan"
            BY <1>3, <4>1, <4>2, <5>2 DEF AtMost
          <5> QED BY <5>1, <5>2
        <4>4. \A s \in Symbols : AtMost(Nothing, new[s])
          BY AtMostOrders
        <4>5. AtMost(sn[chart], new[chart]) /\ \A s \in Symbols : AtMost(sh[s], new[s])
          BY <1>3, <4>3
        <4> QED BY <4>1, <4>4, <4>5
      <3> QED BY <2>4, <3>1, <3>2, <3>3, ReceiveIs
    <2> QED BY <2>1, <2>2, <2>3, <2>4, ShownStays
  <1>6. /\ fetch'.at = "answered" => AtMost(fetch'.content, new[SymbolOf(fetch'.epoch)])
        /\ fetch'.epoch <= ne
    <2>1. PICK f \in Fetches : f = fetch
      BY DEF Types
    <2>2. PICK fe \in Int : fe = f.epoch /\ fe <= be
      BY <1>4, <2>1, FetchFields DEF ShownOK
    <2>3. SymbolOf(f.epoch) \in Symbols /\ f.content \in Content
      BY FetchFields, SymbolType, ChangesAreNat
    <2>4. CASE fetch' = fetch
      <3>1. f.at = "answered" => AtMost(f.content, old[SymbolOf(f.epoch)])
        BY <1>2, <2>1 DEF ShownOK, DataOf
      <3>2. fe <= ne
        BY <1>4, <2>2
      <3> QED BY <1>3, <2>1, <2>2, <2>3, <2>4, <3>1, <3>2
    <2>5. CASE Confirm
      BY <1>4, <2>5, ConfirmIs
    <2>6. CASE AnswerBootstrap
      <3>1. /\ fetch'.epoch = fe /\ fetch'.content = old[SymbolOf(f.epoch)] /\ fe <= ne
        BY <1>2, <1>4, <2>1, <2>2, <2>6, AnswerIs DEF DataOf
      <3> QED BY <1>3, <2>2, <2>3, <3>1
    <2>7. CASE AcceptBootstrap \/ FailBootstrap
      <3>1. fetch'.at = "done" /\ fetch'.epoch = 0
        BY <2>7, AcceptIs, FailIs
      <3>2. 0 <= ne
        <4>1. browser'.epoch \in Nat
          BY BrowserFields, ChangesAreNat DEF Types
        <4> QED BY <1>4, <4>1
      <3> QED BY <3>1, <3>2
    <2> QED BY <2>4, <2>5, <2>6, <2>7, FetchStays
  <1> QED BY <1>2, <1>4, <1>5, <1>6 DEF ShownOK, DataOf

-----------------------------------------------------------------------------
(* What is shown as ready is not of the past of the symbol.                  *)

LEMMA FloorStays ==
    ASSUME Types, CountsOK, SocketOK, Next, ~ChangeSymbol
    PROVE  floor' = floor /\ browser'.epoch = browser.epoch
  <1>1. floor' = floor
    BY DEF Next, Confirm, ChangeWatchlist, AnswerBootstrap, AcceptBootstrap, FailBootstrap, Receive,
       Connect, Disconnect, HandleContext, RelayReady, RelayTimeout, RelayLate, TakeNotice, ReadCache,
       ReadLocal, Send, LocalCommit, Announce, Fill, PublishFill, StopCollector
  <1>2. browser'.epoch = browser.epoch
    BY BrowserMoves, ChangeWatchlistIs
  <1> QED BY <1>1, <1>2

\* What is sent for the present epoch was read after the symbol was chosen.
LEMMA FoundIsFresh ==
    ASSUME Types, FloorOK, server.pc = "read", server.epoch = browser.epoch
    PROVE  AtMost(floor, Found)
  <1>1. PICK f \in Content, d \in Content : f = Found /\ d = DataOf(browser.epoch)
    BY FoundIs, DataType, BrowserFields DEF Types
  <1>2. f.ext = server.ext /\ f.loc = d.loc
    BY <1>1, FoundIs
  <1> QED BY <1>1, <1>2 DEF FloorOK, AtMost

\* Another symbol: nothing on its way is of the new epoch.
LEMMA FloorChanges ==
    ASSUME Types, Types', CountsOK, SocketOK, ContextsOK, EventsOK, ShownOK, ChangeSymbol
    PROVE  FloorOK'
  <1>1. PICK be \in Nat, se \in Nat : be = browser.epoch /\ se = server.epoch /\ se <= be
    BY ContextInts DEF ContextsOK
  <1>2. /\ browser'.epoch = be + 1 /\ floor' = DataOf(browser'.epoch) /\ browser' \in Browsers
        /\ server' = server /\ data' = data /\ fetch' = fetch /\ socket'.events = socket.events
    BY <1>1, ChangeSymbolIs, SentTypes DEF ChangeSymbol, world
  <1>3. PICK es : es = socket.events
    OBVIOUS
  <1>4. \A i \in DOMAIN es : es[i].epoch # be + 1
    <2> TAKE i \in DOMAIN es
    <2>1. PICK x \in Int : x = es[i].epoch
      BY <1>3, EventsAre, EventFields
    <2>2. x <= se
      BY <1>1, <1>3, <2>1 DEF EventsOK, SentHere
    <2> QED BY <1>1, <2>1, <2>2
  <1>5. se # be + 1
    BY <1>1
  <1>6. fetch.epoch # be + 1
    <2>1. PICK x \in Int : x = fetch.epoch /\ x <= be
      BY <1>1, FetchFields DEF Types, ShownOK
    <2> QED BY <1>1, <2>1
  <1>7. PICK c \in Content : c = floor' /\ AtMost(c, c)
    BY AtMostOrders DEF Types
  <1>8. DataOf(browser'.epoch) = data[SymbolOf(browser'.epoch)]
    BY DEF DataOf
  <1>9. AtMost(floor', data'[SymbolOf(browser'.epoch)])
    BY <1>2, <1>7, <1>8
  <1> QED BY <1>1, <1>2, <1>3, <1>4, <1>5, <1>6, <1>9 DEF FloorOK, DataOf

LEMMA FloorStep ==
    Types /\ Types' /\ CountsOK /\ SocketOK /\ OutOK /\ ContextsOK /\ EventsOK /\ ReadOK /\ ShownOK
    /\ FloorOK /\ [Next]_vars => FloorOK'
  <1>1. FloorOK /\ UNCHANGED vars => FloorOK'
    BY DEF FloorOK, DataOf, vars
  <1> SUFFICES ASSUME Types, Types', CountsOK, SocketOK, OutOK, ContextsOK, EventsOK, ReadOK,
                      ShownOK, FloorOK, Next, ~ChangeSymbol
               PROVE  FloorOK'
    BY <1>1, FloorChanges
  <1>2. PICK be \in Changes, fl \in Content, es, t \in Seq(Event) :
            /\ be = browser.epoch /\ be = browser'.epoch /\ fl = floor /\ fl = floor'
            /\ es = socket.events /\ t = socket'.events
    BY FloorStays, BrowserFields, SocketFields DEF Types
  <1>3. data' \in [Symbols -> Content] /\ Grows
    BY BusyTypes, DataMoves
  <1>4. AtMost(fl, data'[SymbolOf(be)])
    BY <1>2, <1>3, DataGrows DEF FloorOK
  <1>5. \A i \in DOMAIN es : es[i].epoch = be => AtMost(fl, es[i].content)
    BY <1>2 DEF FloorOK
  <1>6. (server.pc = "read" /\ server.epoch = be) => AtMost(fl, Found)
    BY <1>2, FoundIsFresh
  <1>7. ASSUME NEW e \in Event, t = Append(es, e), e.epoch = be => AtMost(fl, e.content)
        PROVE  \A i \in DOMAIN t : t[i].epoch = be => AtMost(fl, t[i].content)
    <2>1. /\ \A i \in DOMAIN es : t[i] = es[i]
          /\ \A i \in DOMAIN t : i \in DOMAIN es \/ i = Len(es) + 1
          /\ t[Len(es) + 1] = e
      BY <1>2, <1>7, EventsAre, AppendIs
    <2> QED BY <1>5, <1>7, <2>1
  <1>8. \A i \in DOMAIN t : t[i].epoch = be => AtMost(fl, t[i].content)
    <2>1. CASE ~ReadLocal /\ ~Send
      <3>1. \A i \in DOMAIN t : \E j \in DOMAIN es : t[i] = es[j]
        BY <1>2, <2>1, EventsShrink
      <3> QED BY <1>5, <3>1
    <2>2. CASE ReadLocal
      <3>1. \/ t = es
            \/ \E e \in Event : t = Append(es, e) /\ e.epoch = server.epoch /\ e.content = Found
        BY <1>2, <2>2, ReadLocalIs
      <3>2. server.pc = "read"
        BY <2>2, ReadLocalIs
      <3> QED BY <1>5, <1>6, <1>7, <3>1, <3>2
    <2>3. CASE Send
      <3>1. PICK e \in Event : server.out = <<e>> /\ e.epoch = server.epoch
        BY <2>3 DEF OutOK, Send
      <3>2. t = Append(es, e) /\ server.pc = "send"
        BY <1>2, <2>3, <3>1, SendIs
      <3>3. e.epoch = be => AtMost(fl, e.content)
        BY <1>2, <3>1, <3>2 DEF FloorOK
      <3> QED BY <1>7, <3>2, <3>3
    <2> QED BY <2>1, <2>2, <2>3
  <1>9. (server'.pc = "send" /\ server'.epoch = be) => AtMost(fl, server'.out[1].content)
    <2> SUFFICES ASSUME server'.pc = "send", server'.epoch = be
                 PROVE  AtMost(fl, server'.out[1].content)
      OBVIOUS
    <2>1. CASE Alike(server, server')
      BY <1>2, <2>1 DEF Alike, FloorOK
    <2>2. CASE ReadLocal
      <3>1. /\ server.pc = "read" /\ server'.epoch = server.epoch
            /\ server'.pc = "idle" \/ \E d \in Event : server'.out = <<d>> /\ d.content = Found
        BY <2>2, ReadLocalIs
      <3>2. PICK d \in Event : server'.out = <<d>> /\ d.content = Found
        BY <3>1
      <3> QED BY <1>6, <3>1, <3>2
    <2>3. ~Disconnect /\ ~HandleContext /\ ~ReadCache
      BY DisconnectIs, IdleServerIs, HandleIs, ReadCacheIs
    <2>4. ~Send
      <3> SUFFICES ASSUME Send PROVE FALSE
        OBVIOUS
      <3>1. PICK e \in Event : server.out = <<e>>
        BY DEF OutOK, Send
      <3> QED BY <3>1, SendIs
    <2> QED BY <2>1, <2>2, <2>3, <2>4, ServerStays
  <1>10. (server'.pc = "read" /\ server'.epoch = be) => fl.ext <= server'.ext
    <2> SUFFICES ASSUME server'.pc = "read", server'.epoch = be PROVE fl.ext <= server'.ext
      OBVIOUS
    <2>1. CASE Alike(server, server')
      BY <1>2, <2>1 DEF Alike, FloorOK
    <2>2. CASE ReadCache
      <3>1. server'.ext = DataOf(be).ext
        BY <2>2, ReadCacheIs
      <3> QED BY <1>2, <3>1 DEF FloorOK, AtMost
    <2>3. ~Disconnect /\ ~HandleContext
      BY DisconnectIs, IdleServerIs, HandleIs
    <2>4. ~Send
      <3> SUFFICES ASSUME Send PROVE FALSE
        OBVIOUS
      <3>1. PICK e \in Event : server.out = <<e>>
        BY DEF OutOK, Send
      <3> QED BY <3>1, SendIs
    <2>5. ReadLocal => server'.pc \in {"idle", "send"}
      BY ReadLocalIs
    <2> QED BY <2>1, <2>2, <2>3, <2>4, <2>5, ServerStays
  <1>11. (fetch'.at = "answered" /\ fetch'.epoch = be) => AtMost(fl, fetch'.content)
    <2>1. CASE fetch' = fetch
      BY <1>2, <2>1 DEF FloorOK
    <2>2. CASE Confirm
      BY <2>2, ConfirmIs
    <2>3. CASE AnswerBootstrap
      BY <1>2, <2>3, AnswerIs DEF FloorOK
    <2>4. CASE AcceptBootstrap \/ FailBootstrap
      BY <2>4, AcceptIs, FailIs
    <2> QED BY <2>1, <2>2, <2>3, <2>4, FetchStays
  <1> QED BY <1>2, <1>4, <1>8, <1>9, <1>10, <1>11 DEF FloorOK, DataOf

LEMMA ReadyStep ==
    Types /\ Types' /\ CountsOK /\ SocketOK /\ EventsOK /\ FloorOK
    /\ ReadyIsFresh /\ [Next]_vars => ReadyIsFresh'
  <1>1. ReadyIsFresh /\ UNCHANGED vars => ReadyIsFresh'
    BY DEF ReadyIsFresh, vars
  <1> SUFFICES ASSUME Types, Types', CountsOK, SocketOK, EventsOK, FloorOK, ReadyIsFresh, Next,
                      browser'.status = "ready"
               PROVE  AtMost(floor', shown'[SymbolOf(browser'.epoch)])
    <2>1. ASSUME AtMost(floor', shown'[SymbolOf(browser'.epoch)]), Types' PROVE ReadyIsFresh'
      <3>1. PICK f \in Content, c \in Content : f = floor' /\ c = shown'[SymbolOf(browser'.epoch)]
        <4>1. SymbolOf(browser'.epoch) \in Symbols
          BY <2>1, BrowserFields, SymbolType, ChangesAreNat DEF Types
        <4> QED BY <2>1, <4>1 DEF Types
      <3>2. f.ext \in Int /\ f.loc \in Int /\ c.ext \in Int /\ c.loc \in Int
        BY ContentType
      <3>3. c.ext >= f.ext /\ c.loc >= f.loc
        BY <2>1, <3>1, <3>2 DEF AtMost
      <3> QED BY <3>1, <3>3 DEF ReadyIsFresh
    <2> QED BY <1>1, <2>1 DEF ReadyIsFresh
  <1>2. ~ChangeSymbol
    BY ChangeSymbolIs
  <1>3. PICK be \in Changes, fl \in Content, s \in Symbols, sh, sn \in [Symbols -> Content] :
            /\ be = browser.epoch /\ be = browser'.epoch /\ fl = floor /\ fl = floor'
            /\ s = SymbolOf(be) /\ sh = shown /\ sn = shown'
    BY <1>2, FloorStays, BrowserFields, SymbolType, ChangesAreNat DEF Types
  <1>4. browser.status = "ready" => AtMost(fl, sh[s])
    <2> SUFFICES ASSUME browser.status = "ready" PROVE AtMost(fl, sh[s])
      OBVIOUS
    <2>1. PICK c \in Content : c = sh[s]
      BY <1>3
    <2>2. fl.ext \in Int /\ fl.loc \in Int /\ c.ext \in Int /\ c.loc \in Int
      BY ContentType
    <2>3. c.ext >= fl.ext /\ c.loc >= fl.loc
      BY <1>3, <2>1 DEF ReadyIsFresh
    <2> QED BY <2>1, <2>2, <2>3 DEF AtMost
  <1>5. CASE AcceptBootstrap
    <2>1. CASE browser' = browser /\ shown' = shown
      BY <1>3, <1>4, <2>1
    <2>2. CASE /\ fetch.at = "answered" /\ fetch.epoch = browser.epoch
               /\ \A x \in Symbols : shown'[x] = IF x = SymbolOf(browser.epoch) THEN fetch.content
                                                 ELSE Nothing
      <3>1. sn[s] = fetch.content
        BY <1>3, <2>2
      <3> QED BY <1>3, <2>2, <3>1 DEF FloorOK
    <2> QED BY <1>5, <2>1, <2>2, AcceptIs
  <1>6. ~FailBootstrap
    BY FailIs
  <1>7. CASE Receive
    <2>1. PICK ev \in Event : ev = Head(socket.events) /\ SentHere(ev)
      BY <1>7, EventsLeft
    <2>2. CASE browser' = browser /\ shown' = shown
      BY <1>3, <1>4, <2>2
    <2>3. CASE Fits(ev) /\ browser' = Accepted(ev) /\ shown' = ShownAfter(ev)
      <3>1. AtMost(fl, ev.content)
        <4>1. ev.epoch = be
          BY <1>3, <2>3 DEF Fits
        <4>2. ev = socket.events[1] /\ 1 \in DOMAIN socket.events
          BY <1>7, <2>1, ReceivedIs
        <4> QED BY <1>3, <4>1, <4>2 DEF FloorOK
      <3>2. /\ ev.type # "chan" => sn[s] = ev.content
            /\ ev.type = "chan" => sn[s].ext = sh[s].ext /\ sn[s].loc = ev.content.loc
        BY <1>3, <2>3, ShownIs
      <3>3. ev.type = "chan" => browser.status = "ready"
        BY <2>3, AcceptedIs
      <3> QED BY <1>3, <1>4, <3>1, <3>2, <3>3 DEF AtMost
    <2> QED BY <1>7, <2>1, <2>2, <2>3, ReceiveIs
  <1>8. CASE ~AcceptBootstrap /\ ~Receive
    <2>1. browser'.status = browser.status
      <3>1. CASE Confirm \/ ChangeWatchlist
        BY <3>1, ConfirmIs, ChangeWatchlistIs
      <3>2. CASE ~Confirm /\ ~ChangeWatchlist
        <4>1. QuietStep => browser' = browser
          BY QuietIs DEF Quiet
        <4>2. Connect \/ Disconnect \/ HandleContext \/ ReadCache \/ ReadLocal \/ Send => browser' = browser
          BY DEF Connect, Disconnect, HandleContext, ReadCache, ReadLocal, Send
        <4> QED BY <1>2, <1>6, <1>8, <3>2, <4>1, <4>2 DEF Next, QuietStep
      <3> QED BY <3>1, <3>2
    <2>2. shown' = shown
      BY <1>6, <1>8, ShownStays
    <2> QED BY <1>3, <1>4, <2>1, <2>2
  <1> QED BY <1>5, <1>7, <1>8

-----------------------------------------------------------------------------
(* What a read has, and what the server has hashed, is current or due.       *)

\* The server goes on, and what it has not read is due.
LEMMA CurrentGoesOn ==
    ASSUME SocketOK, Types, CurrentOK, Alike(server, server'),
           server'.notices = 0 => server.notices = 0,
           (socket'.contexts = <<>> /\ socket'.events = <<>>)
               => (socket.contexts = <<>> /\ socket.events = <<>>),
           NEW s, s = SymbolOf(server.epoch),
           server.known => \A part \in {"ext", "loc"} :
                               /\ Due(part) => Due(part)'
                               /\ data'[s][part] = data[s][part] \/ Due(part)'
    PROVE  CurrentOK'
  <1>1. /\ server'.known = server.known /\ server'.pc = server.pc /\ server'.ext = server.ext
        /\ server'.hash = server.hash /\ server'.revision = server.revision
        /\ server'.epoch = server.epoch /\ server'.after = server.after
        /\ server'.sequence = server.sequence
    BY DEF Alike
  <1>2. Mismatch' <=> Mismatch
    BY <1>1 DEF Mismatch
  <1>3. ASSUME server'.pc = "read", server'.notices = 0
        PROVE  Due("ext")' \/ server'.ext = data'[SymbolOf(server'.epoch)].ext
    <2>1. server.known
      BY <1>1, <1>3, ContextIsKnown
    <2>2. Due("ext") \/ server.ext = data[s].ext
      BY <1>1, <1>3 DEF CurrentOK, DataOf
    <2>3. (Due("ext") => Due("ext")') /\ (data'[s]["ext"] = data[s]["ext"] \/ Due("ext")')
      BY <2>1
    <2> QED BY <1>1, <2>2, <2>3
  <1>4. ASSUME server'.known, socket'.contexts = <<>>, socket'.events = <<>>,
               server'.pc = "idle", server'.notices = 0, ~Mismatch
        PROVE  /\ server'.hash # <<>> /\ server'.hash[1] = server'.revision
               /\ \A part \in {"ext", "loc"} :
                     Due(part)' \/ server'.hash[2][part] = data'[SymbolOf(server'.epoch)][part]
    <2>1. /\ server.hash # <<>> /\ server.hash[1] = server.revision
          /\ \A part \in {"ext", "loc"} : Due(part) \/ server.hash[2][part] = data[s][part]
      BY <1>1, <1>4 DEF CurrentOK, DataOf
    <2>2. server.known
      BY <1>1, <1>4
    <2>3. \A part \in {"ext", "loc"} : Due(part)' \/ server.hash[2][part] = data'[s][part]
      <3> TAKE part \in {"ext", "loc"}
      <3>1. (Due(part) => Due(part)') /\ (data'[s][part] = data[s][part] \/ Due(part)')
        BY <2>2
      <3> QED BY <2>1, <3>1
    <2> QED BY <1>1, <2>1, <2>3
  <1> QED BY <1>2, <1>3, <1>4 DEF CurrentOK, DataOf

\* What is due stays so as long as its notice was neither sent nor read.
LEMMA DueStays ==
    ASSUME missed \subseteq missed' \union {"profile"}, collector' = collector,
           unannounced \subseteq unannounced', server'.epoch = server.epoch
    PROVE  \A part \in {"ext", "loc"} : Due(part) => Due(part)'
  BY DEF Due

LEMMA CurrentStep ==
    Types /\ Types' /\ CountsOK /\ SocketOK /\ SocketOK' /\ OutOK /\ CurrentOK /\ [Next]_vars => CurrentOK'
  <1>1. CurrentOK /\ UNCHANGED vars => CurrentOK'
    BY DEF CurrentOK, Due, Mismatch, DataOf, vars
  <1> SUFFICES ASSUME Types, Types', CountsOK, SocketOK, SocketOK', OutOK, CurrentOK, Next
               PROVE  CurrentOK'
    BY <1>1
  <1>2. PICK s \in Symbols : s = SymbolOf(server.epoch)
    BY ServerFields, SymbolType, ChangesAreNat DEF Types
  <1>3. CASE /\ Alike(server, server') /\ server'.notices = server.notices /\ data' = data
             /\ missed \subseteq missed' \union {"profile"} /\ collector' = collector
             /\ unannounced' = unannounced
             /\ (socket'.contexts = <<>> /\ socket'.events = <<>>)
                    => (socket.contexts = <<>> /\ socket.events = <<>>)
    <2>1. server'.epoch = server.epoch
      BY <1>3 DEF Alike
    <2>2. \A part \in {"ext", "loc"} : Due(part) => Due(part)'
      BY <1>3, <2>1, DueStays
    <2> QED BY <1>2, <1>3, <2>2, CurrentGoesOn
  <1>4. ASSUME NEW b \in Browsers, socket' = Sent(b), server' = server, data' = data,
               missed \subseteq missed' \union {"profile"}, collector' = collector,
               unannounced' = unannounced
        PROVE  CurrentOK'
    <2>1. /\ socket'.events = socket.events
          /\ socket'.contexts = IF socket.up THEN Append(socket.contexts, Message(b)) ELSE socket.contexts
      BY <1>4, SentTypes
    <2>2. socket.up => socket'.contexts # <<>>
      <3>1. PICK c \in Seq(Context), m \in Context : c = socket.contexts /\ m = Message(b)
        BY SocketFields, MessageIs DEF Types
      <3>2. PICK t : t = Append(c, m)
        OBVIOUS
      <3>3. t # <<>>
        BY <3>2, AppendIs
      <3> QED BY <2>1, <3>1, <3>2, <3>3
    <2>3. (socket'.contexts = <<>> /\ socket'.events = <<>>)
              => (socket.contexts = <<>> /\ socket.events = <<>>)
      BY <2>1, <2>2
    <2>4. Alike(server, server') /\ server'.notices = server.notices
      BY <1>4, AlikeSame
    <2> QED BY <1>3, <1>4, <2>3, <2>4
  <1>5. CASE Confirm
    BY <1>4, <1>5, ConfirmIs DEF Confirm, world
  <1>6. CASE ChangeSymbol
    BY <1>4, <1>6, ChangeSymbolIs DEF ChangeSymbol, world
  <1>7. CASE ChangeWatchlist
    BY <1>4, <1>7, ChangeWatchlistIs DEF ChangeWatchlist, world
  <1>8. CASE AnswerBootstrap
    BY <1>3, <1>8, AlikeSame DEF AnswerBootstrap
  <1>9. CASE AcceptBootstrap \/ FailBootstrap
    BY <1>3, <1>9, AlikeSame DEF AcceptBootstrap, FailBootstrap, world
  <1>10. CASE Receive
    <2>1. /\ socket'.contexts = Append(socket.contexts, Message(browser')) /\ browser' \in Browsers
          /\ missed \subseteq missed' \union {"profile"}
      BY <1>10, ReceiveIs, ReceivedIs
    <2>2. socket'.contexts # <<>>
      BY <2>1, SocketFields, MessageIs, AppendIs DEF Types
    <2> QED BY <1>3, <1>10, <2>1, <2>2, AlikeSame DEF Receive, world
  <1>11. CASE Connect
    <2>1. server' = server /\ ~server.known /\ server.pc = "idle"
      BY <1>11, ConnectIs, IdleServerIs DEF Connect, SocketOK
    <2> QED BY <2>1 DEF CurrentOK
  <1>12. CASE Disconnect
    BY <1>12, DisconnectIs, IdleServerIs DEF CurrentOK
  <1>13. CASE HandleContext
    <2>1. server'.pc = "idle" /\ server'.notices = 1
      BY <1>13, HandleIs
    <2> QED BY <2>1 DEF CurrentOK
  <1>14. ASSUME NEW r \in {"none", "starting", "late", "on"}, server.relay # "none",
                server' = [server EXCEPT !.relay = r],
                UNCHANGED <<socket, data, missed, collector, unannounced>>
         PROVE  CurrentOK'
    BY <1>3, <1>14, RelayStepIs
  <1>15. CASE RelayReady \/ RelayTimeout \/ RelayLate
    BY <1>14, <1>15 DEF RelayReady, RelayTimeout, RelayLate, world
  <1>16. CASE TakeNotice
    <2>1. Alike(server, server') /\ Mismatch /\ server.pc = "idle"
      BY <1>16, TakeNoticeIs DEF TakeNotice
    <2>2. Mismatch' /\ server'.pc = "idle"
      BY <2>1 DEF Alike, Mismatch
    <2> QED BY <2>2 DEF CurrentOK
  <1>17. CASE ReadCache
    <2>1. server'.pc = "read" /\ server'.ext = data[SymbolOf(server.epoch)].ext /\ server'.epoch = server.epoch
      BY <1>17, ReadCacheIs DEF DataOf
    <2>2. data' = data
      BY <1>17 DEF ReadCache, world
    <2> QED BY <2>1, <2>2 DEF CurrentOK, DataOf
  <1>18. CASE ReadLocal
    <2>1. /\ server.pc = "read" /\ server'.epoch = server.epoch /\ server'.revision = server.revision
          /\ server'.pc # "read" /\ server'.notices = server.notices
      BY <1>18, ReadLocalIs
    <2>2. CASE socket'.events # <<>>
      BY <2>1, <2>2 DEF CurrentOK
    <2>3. CASE server'.hash = Hash(Found)
      <3> SUFFICES ASSUME server'.notices = 0
                   PROVE  /\ server'.hash # <<>> /\ server'.hash[1] = server'.revision
                          /\ \A part \in {"ext", "loc"} :
                                Due(part)' \/ server'.hash[2][part] = data'[SymbolOf(server'.epoch)][part]
        BY <2>1 DEF CurrentOK, DataOf
      <3>1. PICK f \in Content : f = Found /\ f.ext = server.ext /\ f.loc = data[s].loc
        BY <1>2, FoundIs DEF DataOf
      <3>2. server'.hash # <<>> /\ server'.hash[1] = server'.revision /\ server'.hash[2] = f
        BY <2>1, <2>3, <3>1 DEF Hash
      <3>3. /\ data' = data /\ missed' = missed \ {"loc"} /\ collector' = collector
        BY <1>18 DEF ReadLocal, world
      <3>4. Due("ext") \/ f.ext = data[s].ext
        BY <1>2, <2>1, <3>1 DEF CurrentOK, DataOf
      <3>5. Due("ext") => Due("ext")'
        BY <2>1, <3>3 DEF Due
      <3> QED BY <1>2, <2>1, <3>1, <3>2, <3>3, <3>4, <3>5
    <2>4. socket'.events # <<>> \/ server'.hash = Hash(Found)
      <3>1. \A e \in Event : Append(socket.events, e) # <<>>
        BY EventsAre, AppendIs
      <3> QED BY <1>18, <3>1, ReadLocalIs
    <2> QED BY <2>2, <2>3, <2>4
  <1>19. CASE Send
    <2>1. PICK e \in Event : server.out = <<e>>
      BY <1>19 DEF OutOK, Send
    <2>2. socket'.events = Append(socket.events, e) /\ server'.pc = "idle"
      BY <1>19, <2>1, SendIs
    <2>3. socket'.events # <<>>
      BY <2>2, EventsAre, AppendIs
    <2> QED BY <2>2, <2>3 DEF CurrentOK
  <1>20. ASSUME NEW x \in Symbols, LocalCommit(x) PROVE CurrentOK'
    <2>1. /\ \A t \in Symbols : data'[t].ext = data[t].ext /\ (t # x => data'[t] = data[t])
          /\ unannounced' = unannounced \union {x}
      BY <1>20, LocalCommitIs
    <2>2. UNCHANGED <<socket, server, collector, missed>>
      BY <1>20 DEF LocalCommit
    <2>3. \A part \in {"ext", "loc"} : Due(part) => Due(part)'
      BY <2>1, <2>2, DueStays
    <2>4. s = x => Due("loc")'
      BY <1>2, <2>1, <2>2 DEF Due
    <2>5. \A part \in {"ext", "loc"} : data'[s][part] = data[s][part] \/ Due(part)'
      BY <1>2, <2>1, <2>4
    <2> QED BY <1>2, <2>2, <2>3, <2>5, AlikeSame, CurrentGoesOn
  <1>21. ASSUME NEW x \in Symbols, NEW part \in {"ext", "loc"}, NEW matches \in BOOLEAN,
                Notify(x, part, matches), UNCHANGED <<socket, data>>,
                NEW other \in {"ext", "loc"}, other # part, Due(other) => Due(other)' \/ other \in missed,
                server'.epoch = server.epoch => (Due(part) => Due(part)' \/ s = x \/ part \in missed)
         PROVE  CurrentOK'
    <2>1. /\ Alike(server, server') /\ missed \subseteq missed'
          /\ \/ server'.notices = server.notices + 1
             \/ server' = server /\ ((server.known /\ s = x) => part \in missed')
      BY <1>2, <1>21, NotifyIs
    <2>2. \/ server'.notices # 0
          \/ server'.notices = server.notices /\ ((server.known /\ s = x) => part \in missed')
      BY <2>1, ServerFields DEF Types
    <2>3. CASE server'.notices # 0
      BY <2>3 DEF CurrentOK
    <2>4. CASE server'.notices = server.notices /\ ((server.known /\ s = x) => part \in missed')
      <3>1. \A p \in {"ext", "loc"} : p \in missed' => Due(p)'
        BY DEF Due
      <3>2. server.known => \A p \in {"ext", "loc"} : Due(p) => Due(p)'
        <4>1. server'.epoch = server.epoch
          BY <2>1 DEF Alike
        <4>2. \A p \in {"ext", "loc"} : p = part \/ p = other
          BY <1>21
        <4> QED BY <1>21, <2>1, <2>4, <3>1, <4>1, <4>2
      <3> QED BY <1>2, <1>21, <2>1, <2>4, <3>2, CurrentGoesOn
    <2> QED BY <2>2, <2>3, <2>4
  <1>22. ASSUME NEW x \in Symbols, Announce(x) PROVE CurrentOK'
    <2>1. Notify(x, "loc", SymbolOf(server.epoch) = x)
      BY <1>22 DEF Announce
    <2>2. UNCHANGED <<socket, data, collector>> /\ unannounced' = unannounced \ {x}
      BY <1>22 DEF Announce
    <2>3. server'.epoch = server.epoch /\ missed \subseteq missed'
      BY <2>1, NotifyIs DEF Alike
    <2>4. Due("ext") => Due("ext")'
      BY <2>2, <2>3 DEF Due
    <2>5. Due("loc") => Due("loc")' \/ s = x \/ "loc" \in missed
      BY <1>2, <2>2, <2>3 DEF Due
    <2> QED BY <1>21, <2>1, <2>2, <2>4, <2>5
  <1>23. ASSUME NEW r \in requests, Fill(r) PROVE CurrentOK'
    <2>1. /\ \A t \in Symbols : data'[t].loc = data[t].loc
          /\ \A t \in Symbols : t # SymbolOf(r[1]) => data'[t] = data[t]
          /\ collector'.busy /\ collector'.epoch = r[1]
      BY <1>23, FillIs
    <2>2. UNCHANGED <<socket, server, unannounced, missed>> /\ ~collector.busy
      BY <1>23 DEF Fill
    <2>3. s = SymbolOf(r[1]) => Due("ext")'
      BY <1>2, <2>1, <2>2 DEF Due
    <2>4. \A part \in {"ext", "loc"} : Due(part) => Due(part)'
      BY <2>2 DEF Due
    <2>5. \A part \in {"ext", "loc"} : data'[s][part] = data[s][part] \/ Due(part)'
      BY <1>2, <2>1, <2>3
    <2> QED BY <1>2, <2>2, <2>4, <2>5, AlikeSame, CurrentGoesOn
  <1>24. CASE PublishFill
    <2>1. PICK x \in Symbols : x = SymbolOf(collector.epoch)
      BY CollectorFields
    <2>2. Notify(x, "ext", server.epoch = collector.epoch /\ server.revision = collector.revision)
      BY <1>24, <2>1 DEF PublishFill
    <2>3. UNCHANGED <<socket, data, unannounced>>
      BY <1>24 DEF PublishFill
    <2>4. server'.epoch = server.epoch /\ missed \subseteq missed'
      BY <2>2, NotifyIs DEF Alike
    <2>5. Due("loc") => Due("loc")'
      BY <2>3, <2>4 DEF Due
    <2>6. Due("ext") => s = x \/ "ext" \in missed
      BY <1>2, <2>1 DEF Due
    <2> QED BY <1>21, <2>2, <2>3, <2>5, <2>6
  <1>25. CASE StopCollector
    <2>1. /\ UNCHANGED <<socket, server, data, unannounced>>
          /\ missed' = IF server.known /\ s = SymbolOf(collector.epoch) THEN missed \union {"ext"} ELSE missed
      BY <1>2, <1>25 DEF StopCollector
    <2>2. server.known => \A part \in {"ext", "loc"} : Due(part) => Due(part)'
      BY <1>2, <2>1 DEF Due
    <2> QED BY <1>2, <2>1, <2>2, AlikeSame, CurrentGoesOn
  <1> QED BY <1>5, <1>6, <1>7, <1>8, <1>9, <1>10, <1>11, <1>12, <1>13, <1>15, <1>16, <1>17, <1>18,
            <1>19, <1>20, <1>22, <1>23, <1>24, <1>25 DEF Next

-----------------------------------------------------------------------------
(* The cursor, and the one that the server knows.                            *)

\* The last context is the one just sent.
LEMMA LastIs ==
    ASSUME NEW S, NEW c \in Seq(S), NEW m \in S, NEW t, t = Append(c, m)
    PROVE  t # <<>> /\ t[Len(t)] = m
  BY AppendIs

\* Receiving and changing the context aside, the cursor stays.
LEMMA CursorStays ==
    ASSUME Types, CountsOK, SocketOK, Next
    PROVE  browser'.cursor = browser.cursor \/ ChangeSymbol \/ Receive
  BY BrowserStays, AcceptIs

\* The server takes contexts and answers.
LEMMA ContextsStay ==
    ASSUME Types, CountsOK, SocketOK, Next
    PROVE  \/ socket'.contexts = socket.contexts /\ socket'.up = socket.up
           \/ Confirm \/ ChangeSymbol \/ ChangeWatchlist \/ Receive
           \/ Connect \/ Disconnect \/ HandleContext \/ Send
  <1>1. CASE QuietStep
    BY <1>1, QuietIs DEF Quiet
  <1>2. CASE AcceptBootstrap \/ FailBootstrap \/ ReadCache
    BY <1>2 DEF AcceptBootstrap, FailBootstrap, ReadCache
  <1>3. CASE ReadLocal
    BY <1>3, ReadLocalIs
  <1> QED BY <1>1, <1>2, <1>3 DEF Next, QuietStep

LEMMA AfterStep ==
    Types /\ Types' /\ CountsOK /\ SocketOK /\ OutOK /\ AfterOK /\ [Next]_vars => AfterOK'
  <1>1. AfterOK /\ UNCHANGED vars => AfterOK'
    BY DEF AfterOK, vars
  <1> SUFFICES ASSUME Types, Types', CountsOK, SocketOK, OutOK, AfterOK, Next PROVE AfterOK'
    BY <1>1
  <1>2. PICK c \in Seq(Context), es \in Seq(Event) : c = socket.contexts /\ es = socket.events
    BY SocketFields DEF Types
  <1>3. PICK q : q = browser.cursor
    OBVIOUS
  <1>4. /\ (socket.up /\ c # <<>>) => c[Len(c)].after = q
        /\ (server.known /\ c = <<>> /\ es = <<>> /\ server.pc # "send") => server.after = q
    BY <1>2, <1>3 DEF AfterOK
  <1>5. ASSUME NEW b \in Browsers, b = browser', socket'.up = socket.up, server' = server,
               socket'.contexts = IF socket.up THEN Append(c, Message(b)) ELSE c
        PROVE  AfterOK'
    <2>1. CASE socket.up
      <3>1. PICK m \in Context : m = Message(b) /\ m.after = b.cursor
        BY MessageIs
      <3>2. PICK t : t = Append(c, m)
        OBVIOUS
      <3>3. t # <<>> /\ t[Len(t)] = m
        BY <3>2, LastIs
      <3>4. socket'.contexts = t
        BY <1>5, <2>1, <3>1, <3>2
      <3> QED BY <1>5, <3>1, <3>3, <3>4 DEF AfterOK
    <2>2. CASE ~socket.up
      <3>1. ~socket'.up /\ ~server'.known
        BY <1>5, <2>2 DEF SocketOK
      <3> QED BY <3>1 DEF AfterOK
    <2> QED BY <2>1, <2>2
  <1>6. CASE Confirm
    BY <1>2, <1>5, <1>6, ConfirmIs, SentTypes DEF Confirm
  <1>7. CASE ChangeSymbol
    BY <1>2, <1>5, <1>7, ChangeSymbolIs, SentTypes DEF ChangeSymbol
  <1>8. CASE ChangeWatchlist
    BY <1>2, <1>5, <1>8, ChangeWatchlistIs, SentTypes DEF ChangeWatchlist
  <1>9. CASE Receive
    <2>1. socket.up /\ socket'.up = socket.up /\ server' = server /\ browser' \in Browsers
          /\ socket'.contexts = Append(c, Message(browser'))
      BY <1>2, <1>9, ReceiveIs, ReceivedIs DEF Receive
    <2> QED BY <1>5, <2>1
  <1>10. CASE Connect
    <2>1. server' = server /\ ~server.known /\ browser' = browser
      BY <1>10, ConnectIs DEF Connect, SocketOK
    <2>2. PICK m : m = Message(browser) /\ m.after = q
      BY <1>3, MessageIs DEF Types
    <2>3. PICK t : t = <<m>>
      OBVIOUS
    <2>4. Len(t) = 1 /\ t[1] = m
      BY <2>3
    <2>5. socket'.contexts = t
      BY <1>10, <2>2, <2>3, ConnectIs
    <2> QED BY <1>3, <2>1, <2>2, <2>4, <2>5 DEF AfterOK
  <1>11. CASE Disconnect
    BY <1>11, DisconnectIs, IdleServerIs DEF AfterOK
  <1>12. CASE HandleContext
    <2>1. PICK m \in Context :
             /\ c # <<>> /\ m = c[1] /\ socket'.up = socket.up
             /\ socket'.contexts = Tail(c) /\ server'.after = m.after
      BY <1>2, <1>12, HandleIs
    <2>2. PICK t : t = Tail(c)
      OBVIOUS
    <2>3. /\ t = <<>> => Len(c) = 1
          /\ t # <<>> => t[Len(t)] = c[Len(c)]
      <3>1. c # <<>> /\ t = Tail(c)
        BY <2>1, <2>2
      <3> QED BY <3>1, TailIs
    <2>4. browser' = browser /\ socket.up
      BY <1>2, <1>12, <2>1 DEF HandleContext, SocketOK
    <2>5. t = <<>> => m.after = q
      BY <1>4, <2>1, <2>3, <2>4
    <2>6. t # <<>> => t[Len(t)].after = q
      BY <1>4, <2>1, <2>3, <2>4
    <2> QED BY <1>3, <2>1, <2>2, <2>4, <2>5, <2>6 DEF AfterOK
  <1>13. CASE Send
    <2>1. PICK e \in Event : server.out = <<e>>
      BY <1>13 DEF OutOK, Send
    <2>2. socket'.events = Append(es, e) /\ socket'.contexts = c /\ socket'.up = socket.up /\ browser' = browser
      BY <1>2, <1>13, <2>1, SendIs DEF Send
    <2>3. socket'.events # <<>>
      BY <2>2, AppendIs
    <2> QED BY <1>3, <1>4, <2>2, <2>3 DEF AfterOK
  <1>14. CASE ReadLocal
    <2>1. socket'.contexts = c /\ socket'.up = socket.up /\ browser' = browser /\ server.pc = "read"
          /\ server.known
      BY <1>2, <1>14, ReadLocalIs DEF ReadLocal
    <2>2. CASE socket'.events = es /\ server'.after = server.after
      BY <1>3, <1>4, <2>1, <2>2 DEF AfterOK
    <2>3. CASE socket'.events # <<>>
      BY <1>3, <1>4, <2>1, <2>3 DEF AfterOK
    <2>4. \/ socket'.events = es /\ server'.after = server.after
          \/ socket'.events # <<>>
      <3>1. \A e \in Event : Append(es, e) # <<>>
        BY AppendIs
      <3> QED BY <1>2, <1>14, <3>1, ReadLocalIs
    <2> QED BY <2>2, <2>3, <2>4
  <1>15. CASE /\ socket'.contexts = socket.contexts /\ socket'.up = socket.up
              /\ ~ChangeSymbol /\ ~Receive /\ ~Disconnect /\ ~HandleContext /\ ~ReadLocal /\ ~Send /\ ~Connect
    <2>1. browser'.cursor = q /\ socket'.events = es
      BY <1>2, <1>3, <1>15, CursorStays, EventsStay
    <2>2. server'.after = server.after
          /\ (server'.known /\ server'.pc # "send" => server.known /\ server.pc # "send")
      <3>1. CASE Alike(server, server')
        BY <3>1 DEF Alike
      <3>2. CASE ReadCache
        BY <3>2, ReadCacheIs
      <3> QED BY <1>15, <3>1, <3>2, ServerStays
    <2> QED BY <1>2, <1>4, <1>15, <2>1, <2>2 DEF AfterOK
  <1> QED BY <1>6, <1>7, <1>8, <1>9, <1>10, <1>11, <1>12, <1>13, <1>14, <1>15, ContextsStay

\* Streams are retired for good.
LEMMA RetiredGrows ==
    ASSUME Types, CountsOK, SocketOK, Next, ~ChangeSymbol
    PROVE  browser.retired \subseteq browser'.retired
  <1>1. CASE Confirm
    BY <1>1, ConfirmIs
  <1>2. CASE ChangeWatchlist
    BY <1>2, ChangeWatchlistIs
  <1>3. CASE AcceptBootstrap
    BY <1>3, AcceptIs
  <1>4. CASE FailBootstrap
    BY <1>4, FailIs
  <1>5. CASE Receive
    <2>1. PICK ev \in Event : ev = Head(socket.events)
      BY <1>5, ReceivedIs
    <2> QED BY <1>5, <2>1, ReceiveIs, AcceptedIs
  <1>6. CASE QuietStep
    BY <1>6, QuietIs DEF Quiet
  <1>7. CASE Connect \/ Disconnect \/ HandleContext \/ ReadCache \/ ReadLocal \/ Send
    BY <1>7 DEF Connect, Disconnect, HandleContext, ReadCache, ReadLocal, Send
  <1> QED BY <1>1, <1>2, <1>3, <1>4, <1>5, <1>6, <1>7 DEF Next, QuietStep

\* Accepting an event of the present epoch, the browser follows the present stream.
LEMMA AcceptedIsPresent ==
    ASSUME Types, CountsOK, SocketOK, EventsOK, Receive, NEW ev \in Event, ev = Head(socket.events),
           Fits(ev), browser' = Accepted(ev)
    PROVE  /\ ev.epoch = browser.epoch /\ ev.revision = browser.revision
           /\ ev.stream = Stream(socket.conn, browser.epoch)
           /\ browser'.active = Stream(socket'.conn, browser'.epoch)
  <1>1. SentHere(ev)
    BY EventsLeft
  <1>2. ev.epoch = browser.epoch /\ ev.revision = browser.revision
        /\ ev.stream = Stream(socket.conn, browser.epoch)
    BY <1>1 DEF Fits, SentHere
  <1>3. browser'.active = ev.stream /\ browser'.epoch = browser.epoch /\ socket'.conn = socket.conn
    BY AcceptedIs, ReceiveIs
  <1> QED BY <1>2, <1>3

\* A browser that is behind was so before, with the same cursor.
LEMMA BehindWas ==
    ASSUME Types, CountsOK, SocketOK, EventsOK, Next, ~ChangeSymbol, socket'.conn = socket.conn, Behind'
    PROVE  /\ Behind /\ browser'.cursor = browser.cursor /\ browser'.epoch = browser.epoch
           /\ Receive => browser' = browser /\ ~Fits(Head(socket.events))
  <1>1. browser'.epoch = browser.epoch /\ browser.retired \subseteq browser'.retired
    BY FloorStays, RetiredGrows
  <1>2. PICK s : s = Stream(socket.conn, browser.epoch)
    OBVIOUS
  <1>3. browser'.active # s /\ browser'.cursor # 0 /\ s \notin browser'.retired
    BY <1>1, <1>2 DEF Behind
  <1>4. CASE Receive
    <2>1. PICK ev \in Event : ev = Head(socket.events)
      BY <1>4, ReceivedIs
    <2>2. ~(Fits(ev) /\ browser' = Accepted(ev))
      BY <1>1, <1>2, <1>3, <1>4, <2>1, AcceptedIsPresent, ReceiveIs
    <2>3. browser' = browser /\ ~Fits(ev)
      BY <1>4, <2>1, <2>2, ReceiveIs
    <2> QED BY <1>1, <1>2, <1>3, <2>1, <2>3 DEF Behind
  <1>5. CASE AcceptBootstrap
    <2>1. \/ browser' = browser
          \/ /\ browser'.active = NoStream /\ browser'.cursor = browser.cursor
             /\ browser.active # NoStream => browser.active \in browser'.retired
      BY <1>5, AcceptIs
    <2>2. browser.active # s
      BY <1>3, <2>1
    <2>3. ~Receive
      <3>1. Receive => fetch' = fetch
        BY DEF Receive
      <3> QED BY <1>5, <3>1, AcceptIs DEF AcceptBootstrap
    <2> QED BY <1>1, <1>2, <1>3, <2>1, <2>2, <2>3 DEF Behind
  <1>6. CASE ~Receive /\ ~AcceptBootstrap
    <2>1. browser'.active = browser.active /\ browser'.cursor = browser.cursor
      BY <1>6, BrowserStays
    <2> QED BY <1>1, <1>2, <1>3, <1>6, <2>1 DEF Behind
  <1> QED BY <1>4, <1>5, <1>6

\* What the browser sends while it is behind has its cursor.
LEMMA BehindContexts ==
    ASSUME Types, Types', CountsOK, SocketOK, EventsOK, OutOK, BehindOK, Next, Behind',
           NEW i \in DOMAIN socket'.contexts, socket'.contexts[i].epoch = browser'.epoch
    PROVE  socket'.contexts[i].after = browser'.cursor
  <1>1. PICK c, t \in Seq(Context) : c = socket.contexts /\ t = socket'.contexts
    BY SocketFields DEF Types
  <1>2. ~ChangeSymbol
    BY ChangeSymbolIs DEF Behind
  <1>3. ~Disconnect
    BY DisconnectIs
  <1>4. CASE Connect
    <2>1. PICK m : m = Message(browser) /\ m.after = browser.cursor
      BY MessageIs DEF Types
    <2>2. t = <<m>>
      BY <1>1, <1>4, <2>1, ConnectIs
    <2>3. t[i] = m
      BY <1>1, <2>2
    <2>4. browser' = browser
      BY <1>4 DEF Connect
    <2> QED BY <1>1, <2>1, <2>3, <2>4
  <1>5. CASE ~Connect
    <2>1. socket'.conn = socket.conn
      BY <1>3, <1>5, ConnectionMoves
    <2>2. Behind /\ browser'.cursor = browser.cursor /\ browser'.epoch = browser.epoch
      BY <1>2, <2>1, BehindWas
    <2>3. PICK q, be : q = browser.cursor /\ be = browser.epoch
      OBVIOUS
    <2>4. \A j \in DOMAIN c : c[j].epoch = be => c[j].after = q
      BY <1>1, <2>2, <2>3 DEF BehindOK
    <2>5. t[i].epoch = be /\ i \in DOMAIN t
      BY <1>1, <2>2, <2>3
    <2>6. CASE t = c
      BY <1>1, <2>2, <2>3, <2>4, <2>5, <2>6
    <2>7. ASSUME NEW b \in Browsers, b = browser', t = IF socket.up THEN Append(c, Message(b)) ELSE c
          PROVE  t[i].after = q
      <3>1. PICK m \in Context : m = Message(b) /\ m.after = b.cursor
        BY MessageIs
      <3>2. CASE t = Append(c, m)
        <4>1. /\ \A j \in DOMAIN c : t[j] = c[j]
              /\ \A j \in DOMAIN t : j \in DOMAIN c \/ j = Len(c) + 1
              /\ t[Len(c) + 1] = m
          BY <3>2, AppendIs
        <4> QED BY <2>2, <2>3, <2>4, <2>5, <2>7, <3>1, <4>1
      <3>3. CASE t = c
        BY <2>4, <2>5, <3>3
      <3> QED BY <2>7, <3>1, <3>2, <3>3
    <2>8. CASE Confirm
      BY <1>1, <2>2, <2>3, <2>7, <2>8, ConfirmIs, SentTypes DEF Confirm
    <2>9. CASE ChangeWatchlist
      BY <1>1, <2>2, <2>3, <2>7, <2>9, ChangeWatchlistIs, SentTypes DEF ChangeWatchlist
    <2>10. CASE Receive
      BY <1>1, <2>2, <2>3, <2>7, <2>10, ReceiveIs, ReceivedIs
    <2>11. CASE HandleContext
      <3>1. c # <<>> /\ t = Tail(c)
        BY <1>1, <2>11, HandleIs
      <3>2. \A j \in DOMAIN t : j + 1 \in DOMAIN c /\ t[j] = c[j + 1]
        BY <3>1, TailIs
      <3> QED BY <1>1, <2>2, <2>3, <2>4, <2>5, <3>2
    <2>12. CASE Send
      <3>1. PICK e \in Event : server.out = <<e>>
        BY <2>12 DEF OutOK, Send
      <3> QED BY <1>1, <2>6, <2>12, <3>1, SendIs
    <2> QED BY <1>1, <1>2, <1>3, <1>5, <2>2, <2>3, <2>6, <2>8, <2>9, <2>10, <2>11, <2>12, ContextsStay
  <1> QED BY <1>4, <1>5

\* A resync that a browser which is behind refuses is not of the present context.
LEMMA ResyncFits ==
    ASSUME Types, CountsOK, SocketOK, EventsOK, Receive, NEW ev \in Event, ev = Head(socket.events),
           Behind, ev.type = "resync", ev.epoch = browser.epoch, ev.revision = browser.revision
    PROVE  Fits(ev)
  <1>1. SentHere(ev)
    BY EventsLeft
  <1>2. ev.stream = Stream(socket.conn, browser.epoch)
    BY <1>1 DEF SentHere
  <1> QED BY <1>2 DEF Behind, Fits

\* Of a sequence only the first element is lost with its head.
LEMMA TailKeeps ==
    ASSUME NEW S, NEW s \in Seq(S), s # <<>>, NEW t, t = Tail(s), NEW i \in DOMAIN s, i # 1
    PROVE  \E j \in DOMAIN t : t[j] = s[i]
  <1>1. /\ DOMAIN s = 1 .. Len(s) /\ Len(s) \in Nat \ {0} /\ DOMAIN t = 1 .. Len(s) - 1
        /\ \A j \in DOMAIN t : t[j] = s[j + 1]
    BY TailIs
  <1>2. PICK k : k = i - 1
    OBVIOUS
  <1>3. k \in DOMAIN t /\ k + 1 = i
    BY <1>1, <1>2
  <1> QED BY <1>1, <1>3

\* A resync on its way stays there while the browser is behind.
LEMMA ResyncStays ==
    ASSUME Types, Types', CountsOK, SocketOK, EventsOK, OutOK, Next, ~Connect, ~Disconnect, ~ChangeSymbol,
           ~ChangeWatchlist, Behind, Receive => browser' = browser /\ ~Fits(Head(socket.events)),
           ResyncComing
    PROVE  ResyncComing'
  <1>1. PICK es, t \in Seq(Event) : es = socket.events /\ t = socket'.events
    BY SocketFields DEF Types
  <1>2. PICK i \in DOMAIN es : /\ es[i].type = "resync" /\ es[i].epoch = browser.epoch
                               /\ es[i].revision = browser.revision
    BY <1>1 DEF ResyncComing
  <1>3. browser'.epoch = browser.epoch /\ browser'.revision = browser.revision
    BY BrowserMoves
  <1>4. \E j \in DOMAIN t : t[j] = es[i]
    <2>1. CASE t = es
      BY <1>2, <2>1
    <2>2. CASE Receive
      <3>1. t = Tail(es)
        BY <1>1, <2>2, ReceiveIs
      <3>2. es # <<>>
        BY <1>1, <2>2, ReceivedIs
      <3>3. PICK ev \in Event : ev = es[1] /\ ev = Head(socket.events)
        BY <1>1, <2>2, ReceivedIs
      <3>4. i # 1
        BY <1>2, <2>2, <3>3, ResyncFits
      <3> QED BY <3>1, <3>2, <3>4, TailKeeps
    <2>3. ASSUME NEW e \in Event, t = Append(es, e) PROVE \E j \in DOMAIN t : t[j] = es[i]
      BY <1>2, <2>3, AppendIs
    <2>4. CASE ReadLocal
      BY <1>1, <2>1, <2>3, <2>4, ReadLocalIs
    <2>5. CASE Send
      <3>1. PICK e \in Event : server.out = <<e>>
        BY <2>5 DEF OutOK, Send
      <3> QED BY <1>1, <2>3, <2>5, <3>1, SendIs
    <2> QED BY <1>1, <2>1, <2>2, <2>4, <2>5, EventsStay
  <1> QED BY <1>1, <1>2, <1>3, <1>4 DEF ResyncComing

LEMMA BehindStep ==
    Types /\ Types' /\ CountsOK /\ SocketOK /\ OutOK /\ ContextsOK /\ EventsOK /\ ReadOK /\ HashOK
    /\ BehindOK /\ [Next]_vars => BehindOK'
  <1>1. BehindOK /\ UNCHANGED vars => BehindOK'
    BY DEF BehindOK, Behind, ResyncComing, vars
  <1> SUFFICES ASSUME Types, Types', CountsOK, SocketOK, OutOK, ContextsOK, EventsOK, ReadOK, HashOK,
                      BehindOK, Next, Behind', server'.known, server'.epoch = browser'.epoch,
                      server'.revision = browser'.revision,
                      \/ server'.after # browser'.cursor
                      \/ server'.hash # <<>> /\ server'.hash[1] = browser'.revision
               PROVE  browser'.cursor < server'.sequence \/ ResyncComing'
    BY <1>1, BehindContexts DEF BehindOK
  <1>2. ~ChangeSymbol /\ ~Disconnect
    BY ChangeSymbolIs, DisconnectIs, IdleServerIs DEF Behind
  <1>3. ~Connect
    BY ConnectIs DEF Connect, SocketOK
  <1>4. ~ChangeWatchlist
    <2> SUFFICES ASSUME ChangeWatchlist PROVE FALSE
      OBVIOUS
    <2>1. PICK br \in Nat, sr \in Nat : br = browser.revision /\ sr = server.revision /\ sr <= br
      BY ContextInts DEF ContextsOK
    <2>2. browser'.revision = br + 1 /\ server' = server
      BY <2>1, ChangeWatchlistIs DEF ChangeWatchlist
    <2> QED BY <2>1, <2>2
  <1>5. /\ Behind /\ browser'.cursor = browser.cursor /\ browser'.epoch = browser.epoch
        /\ browser'.revision = browser.revision
        /\ Receive => browser' = browser /\ ~Fits(Head(socket.events))
    <2>1. socket'.conn = socket.conn
      BY <1>2, <1>3, ConnectionMoves
    <2>2. browser'.revision = browser.revision
      BY <1>2, <1>4, BrowserMoves
    <2> QED BY <1>2, <2>1, <2>2, BehindWas
  <1>6. PICK q \in Nat, be \in Changes, br \in Changes :
            q = browser.cursor /\ be = browser.epoch /\ br = browser.revision
    BY BrowserFields, ActiveIs DEF Types
  <1>7. ResyncComing => ResyncComing'
    BY <1>2, <1>3, <1>4, <1>5, ResyncStays
  <1>8. (/\ server.known /\ server.epoch = be /\ server.revision = br
         /\ \/ server.after # q
            \/ server.hash # <<>> /\ server.hash[1] = br) => q < server.sequence \/ ResyncComing
    BY <1>5, <1>6 DEF BehindOK
  <1>9. CASE /\ server.known /\ server'.epoch = server.epoch /\ server'.revision = server.revision
             /\ server'.hash = server.hash /\ server'.sequence = server.sequence
             /\ \/ server'.after = server.after
                \/ server.hash # <<>> /\ server.hash[1] = server.revision
    BY <1>5, <1>6, <1>7, <1>8, <1>9
  <1>10. CASE Alike(server, server')
    BY <1>9, <1>10 DEF Alike
  <1>11. CASE ReadCache
    BY <1>9, <1>11, ReadCacheIs
  <1>12. CASE Send
    <2>1. PICK e \in Event : /\ server.out = <<e>> /\ server.hash # <<>>
                             /\ server.hash[1] = server.revision
      BY <1>12 DEF OutOK, Send
    <2> QED BY <1>9, <1>12, <2>1, SendIs
  <1>13. CASE HandleContext
    <2>1. PICK m \in Context :
             /\ socket.contexts # <<>> /\ m = socket.contexts[1] /\ 1 \in DOMAIN socket.contexts
             /\ server'.epoch = m.epoch /\ server'.revision = m.revision /\ server'.after = m.after
             /\ \/ /\ server.known /\ server.epoch = m.epoch
                   /\ server'.sequence = server.sequence /\ server'.hash = server.hash
                \/ server'.hash = <<>>
      BY <1>13, HandleIs
    <2>2. m.after = q
      BY <1>5, <1>6, <2>1 DEF BehindOK
    <2>3. server'.hash # <<>> /\ server'.hash[1] = br
      BY <1>5, <1>6, <2>1, <2>2
    <2>4. server.hash[1] = br /\ server.hash # <<>> /\ server.known /\ server.epoch = be
          /\ server'.sequence = server.sequence
      BY <1>5, <1>6, <2>1, <2>3
    <2>5. server.revision = br
      <3>1. PICK n \in Int, r \in Int : n = server.revision /\ r = br
        BY <1>6, ContextInts
      <3>2. r <= n
        BY <2>4, <3>1 DEF HashOK
      <3>3. n <= r
        BY <1>6, <3>1 DEF ContextsOK
      <3> QED BY <3>1, <3>2, <3>3
    <2> QED BY <1>5, <1>6, <1>7, <1>8, <2>4, <2>5
  <1>14. CASE ReadLocal
    <2>1. /\ server.known /\ server.pc = "read" /\ server.epoch = be /\ server.revision = br
      BY <1>5, <1>6, <1>14, ReadLocalIs
    <2>2. CASE /\ server'.hash = server.hash /\ server'.sequence = server.sequence
               /\ server'.after = server.after
      BY <1>5, <1>6, <1>7, <1>8, <2>1, <2>2
    <2>3. ASSUME NEW e \in Event, e.type = "resync", e.epoch = server.epoch,
                 e.revision = server.revision, socket'.events = Append(socket.events, e)
          PROVE  ResyncComing'
      <3>1. PICK es, t \in Seq(Event) : es = socket.events /\ t = socket'.events
        BY SocketFields DEF Types
      <3>2. Len(es) + 1 \in DOMAIN t /\ t[Len(es) + 1] = e
        BY <2>3, <3>1, AppendIs
      <3> QED BY <1>5, <1>6, <2>1, <2>3, <3>1, <3>2 DEF ResyncComing
    <2>4. CASE server.mode # "resync" /\ server'.sequence = server.sequence + 2
      <3>1. PICK sq \in Int, af \in Int : sq = server.sequence /\ af = server.after
        <4>1. PICK sv \in Servers : sv = server
          BY DEF Types
        <4> QED BY <4>1, ServerFields, ServerInts, ChangesAreNat
      <3>2. af = 0 \/ af = sq
        BY <2>1, <2>4, <3>1 DEF ReadOK, Mismatch
      <3>3. q # 0
        BY <1>5, <1>6 DEF Behind
      <3>4. CASE af = q
        <4>1. q = sq
          BY <3>2, <3>3, <3>4
        <4> QED BY <1>5, <1>6, <2>4, <3>1, <4>1
      <3>5. CASE af # q
        <4>1. q < sq \/ ResyncComing
          BY <1>8, <2>1, <3>1, <3>5
        <4>2. q < sq => q < sq + 2
          OBVIOUS
        <4> QED BY <1>5, <1>6, <1>7, <2>4, <3>1, <4>1, <4>2
      <3> QED BY <3>4, <3>5
    <2>5. \/ /\ server'.hash = server.hash /\ server'.sequence = server.sequence
             /\ server'.after = server.after
          \/ \E e \in Event : /\ e.type = "resync" /\ e.epoch = server.epoch
                              /\ e.revision = server.revision
                              /\ socket'.events = Append(socket.events, e)
          \/ server.mode # "resync" /\ server'.sequence = server.sequence + 2
      BY <1>14, ReadLocalIs
    <2> QED BY <2>2, <2>3, <2>4, <2>5
  <1>15. Alike(server, server') => server.known
    BY DEF Alike
  <1> QED BY <1>2, <1>10, <1>11, <1>12, <1>13, <1>14, ServerStays

-----------------------------------------------------------------------------
(* What the server has hashed is delivered.                                  *)

\* Only another context, or an event that is received, forgets a missed profile.
LEMMA ProfileStays ==
    ASSUME Types, Next, ~ChangeSymbol, ~ChangeWatchlist, ~Receive, "profile" \in missed
    PROVE  "profile" \in missed'
  <1>1. CASE missed' = missed
    BY <1>1
  <1>2. CASE ReadCache \/ ReadLocal
    BY <1>2 DEF ReadCache, ReadLocal
  <1>3. CASE (\E s \in Symbols : Announce(s)) \/ PublishFill
    BY <1>3 DEF Announce, PublishFill, Notify
  <1>4. CASE StopCollector
    BY <1>4 DEF StopCollector
  <1>5. CASE Confirm \/ AnswerBootstrap \/ AcceptBootstrap \/ FailBootstrap \/ Connect \/ Disconnect
    BY <1>1, <1>5 DEF Confirm, AnswerBootstrap, AcceptBootstrap, FailBootstrap, Connect, Disconnect
  <1>6. CASE HandleContext \/ RelayReady \/ RelayTimeout \/ RelayLate \/ TakeNotice \/ Send
    BY <1>1, <1>6 DEF HandleContext, RelayReady, RelayTimeout, RelayLate, TakeNotice, Send
  <1>7. CASE (\E s \in Symbols : LocalCommit(s)) \/ (\E r \in requests : Fill(r))
    BY <1>1, <1>7 DEF LocalCommit, Fill
  <1> QED BY <1>2, <1>3, <1>4, <1>5, <1>6, <1>7 DEF Next

\* What carries the hashed content goes on to carry it as long as it is on its way.
LEMMA CarriedStays ==
    ASSUME NEW i \in DOMAIN socket.events, NEW e, e = socket.events[i], NEW t, t = socket'.events,
           e.type # "chan", e.epoch = browser.epoch, e.revision = browser.revision,
           NEW c, c = server'.hash[2], AtMost(c, e.content),
           browser'.epoch = browser.epoch, browser'.revision = browser.revision,
           \E j \in DOMAIN t : t[j] = e
    PROVE  Carried'
  <1>1. PICK j \in DOMAIN t : t[j] = e
    OBVIOUS
  <1>2. /\ t[j].type # "chan" /\ t[j].epoch = browser'.epoch /\ t[j].revision = browser'.revision
        /\ AtMost(c, t[j].content)
    BY <1>1
  <1> QED BY <1>2 DEF Carried, AtMost

\* What comes after the events `es` is not older than the content `c`.
NoneOlder(es, t, c) == \A j \in DOMAIN t : (\E i \in DOMAIN es : t[j] = es[i]) \/ AtMost(c, t[j].content)

\* What is delivered stays so while the browser stays, if nothing older is sent.
LEMMA DeliveredStays ==
    ASSUME NEW es, es = socket.events, NEW t, t = socket'.events,
           NEW c, c = server.hash[2], c = server'.hash[2],
           browser'.epoch = browser.epoch, socket'.conn = socket.conn,
           NoneOlder(es, t, c),
           "profile" \in missed => "profile" \in missed',
           browser'.active = browser.active, browser'.cursor = browser.cursor,
           browser'.status = "error" \/ (browser'.status = browser.status /\ shown' = shown),
           Delivered
    PROVE  Delivered'
  <1>1. PICK be, st : be = browser.epoch /\ st = Stream(socket.conn, browser.epoch)
    OBVIOUS
  <1>2. \A i \in DOMAIN es : es[i].epoch = be => AtMost(c, es[i].content)
    BY <1>1 DEF Delivered, AtMost
  <1>3. \A j \in DOMAIN t : t[j].epoch = be => AtMost(c, t[j].content)
    BY <1>2 DEF NoneOlder
  <1>4. \/ "profile" \in missed
        \/ browser.active # st /\ browser.cursor # 0
        \/ browser.active = st /\ (browser.status = "error" \/ AtMost(c, shown[SymbolOf(be)]))
    BY <1>1 DEF Delivered, AtMost
  <1>5. \/ "profile" \in missed'
        \/ browser'.active # st /\ browser'.cursor # 0
        \/ browser'.active = st /\ (browser'.status = "error" \/ AtMost(c, shown'[SymbolOf(be)]))
    BY <1>4
  <1>6. browser'.epoch = be /\ Stream(socket'.conn, browser'.epoch) = st
    BY <1>1
  <1> QED BY <1>3, <1>5, <1>6 DEF Delivered, AtMost

\* The server sends an event that is no older than what it has hashed.
LEMMA DeliveryAppended ==
    ASSUME Types, NEW e \in Event, socket'.events = Append(socket.events, e),
           NEW c, c = server.hash[2], c = server'.hash[2], AtMost(c, e.content),
           browser' = browser, shown' = shown, socket'.conn = socket.conn,
           "profile" \in missed => "profile" \in missed',
           Carried \/ Delivered
    PROVE  Carried' \/ Delivered'
  <1>1. PICK es \in Seq(Event) : es = socket.events
    BY EventsAre
  <1>2. PICK t : t = Append(es, e)
    OBVIOUS
  <1>3. /\ \A i \in DOMAIN es : i \in DOMAIN t /\ t[i] = es[i]
        /\ \A j \in DOMAIN t : (\E i \in DOMAIN es : t[j] = es[i]) \/ t[j] = e
    BY <1>2, AppendIs
  <1>4. CASE Carried
    <2>1. PICK i \in DOMAIN es : /\ es[i].type # "chan" /\ es[i].epoch = browser.epoch
                                 /\ es[i].revision = browser.revision /\ AtMost(c, es[i].content)
      BY <1>1, <1>4 DEF Carried, AtMost
    <2>2. PICK d : d = es[i]
      OBVIOUS
    <2>3. \E j \in DOMAIN t : t[j] = d
      BY <1>3, <2>2
    <2> QED BY <1>1, <1>2, <2>1, <2>2, <2>3, CarriedStays
  <1>5. CASE Delivered
    <2>1. NoneOlder(es, t, c)
      BY <1>3 DEF NoneOlder
    <2>2. /\ browser'.epoch = browser.epoch /\ browser'.active = browser.active
          /\ browser'.cursor = browser.cursor
          /\ browser'.status = "error" \/ (browser'.status = browser.status /\ shown' = shown)
      OBVIOUS
    <2>3. es = socket.events /\ t = socket'.events
      BY <1>1, <1>2
    <2> QED BY <1>5, <2>1, <2>2, <2>3, DeliveredStays
  <1> QED BY <1>4, <1>5

\* Receiving: what carries the content is shown when it is accepted; a stream
\* that refuses it is not the present one.
LEMMA DeliveryReceived ==
    ASSUME Types, Types', CountsOK, SocketOK, EventsOK, CursorOK, Receive, server.hash # <<>>,
           Stream(socket.conn, browser.epoch) \notin browser.retired,
           Carried \/ Delivered
    PROVE  Carried' \/ Delivered'
  <1>1. PICK es \in Seq(Event), ev \in Event :
            es = socket.events /\ es # <<>> /\ ev = es[1] /\ ev = Head(socket.events) /\ 1 \in DOMAIN es
    BY EventsAre, ReceivedIs
  <1>2. PICK t : t = Tail(es)
    OBVIOUS
  <1>3. PICK c \in Content : c = server.hash[2] /\ c = server'.hash[2]
    <2>1. server' = server /\ server.hash \in Hashes
      BY ServerFields DEF Receive, Types
    <2> QED BY <2>1, HashFields
  <1>4. PICK be, br, st : /\ be = browser.epoch /\ br = browser.revision /\ be \in Changes
                          /\ st = Stream(socket.conn, browser.epoch)
    BY BrowserFields DEF Types
  <1>5. PICK chart \in Symbols : chart = SymbolOf(be)
    BY <1>4, SymbolType, ChangesAreNat
  <1>6. /\ browser'.epoch = be /\ browser'.revision = br /\ socket'.conn = socket.conn
        /\ socket'.events = t /\ Stream(socket'.conn, browser'.epoch) = st
    BY <1>1, <1>2, <1>4, ReceiveIs
  <1>7. \A i \in DOMAIN t : i + 1 \in DOMAIN es /\ t[i] = es[i + 1] /\ i \in Nat
    BY <1>1, <1>2, TailIs
  <1>8. \A i \in DOMAIN t : t[i] \in Event /\ After(ev, t[i])
    <2> SUFFICES ASSUME NEW i \in DOMAIN t PROVE t[i] \in Event /\ After(ev, t[i])
      OBVIOUS
    <2>1. PICK k \in DOMAIN es : t[i] = es[k] /\ 1 < k
      <3>1. i + 1 \in DOMAIN es /\ t[i] = es[i + 1] /\ i \in DOMAIN t /\ DOMAIN t = 1 .. Len(es) - 1
        BY <1>1, <1>2, <1>7, TailIs
      <3> QED BY <3>1
    <2>2. After(es[1], es[k])
      BY <1>1, <2>1 DEF EventsOK
    <2> QED BY <1>1, <2>1, <2>2, EventsAre
  <1>9. SentHere(ev) /\ Ahead(ev)
    BY <1>1, <1>2, EventsLeft
  <1>10. ev.epoch = be => ev.stream = st
    BY <1>4, <1>9 DEF SentHere
  <1>11. ev.content \in Content /\ shown' \in [Symbols -> Content] /\ shown \in [Symbols -> Content]
    BY EventFields, ReceiveIs DEF Types
  \* To show Delivered', its parts in terms of the constants.
  <1>12. ASSUME \A j \in DOMAIN t : t[j].epoch = be => AtMost(c, t[j].content),
                \/ "profile" \in missed'
                \/ browser'.active # st /\ browser'.cursor # 0
                \/ browser'.active = st /\ (browser'.status = "error" \/ AtMost(c, shown'[chart]))
         PROVE  Delivered'
    BY <1>3, <1>5, <1>6, <1>12 DEF Delivered, AtMost
  <1>13. ASSUME AtMost(c, ev.content), ev.epoch = be
         PROVE  \A j \in DOMAIN t : t[j].epoch = be => AtMost(c, t[j].content)
    <2> SUFFICES ASSUME NEW j \in DOMAIN t, t[j].epoch = be PROVE AtMost(c, t[j].content)
      OBVIOUS
    <2>1. PICK d \in Event : d = t[j] /\ After(ev, d)
      BY <1>8
    <2>2. AtMost(ev.content, d.content) /\ d.content \in Content
      BY <1>13, <2>1, EventFields DEF After
    <2> QED BY <1>11, <1>13, <2>1, <2>2, AtMostOrders
  <1>14. CASE Carried
    <2>1. PICK i \in DOMAIN es : /\ es[i].type # "chan" /\ es[i].epoch = be
                                 /\ es[i].revision = br /\ AtMost(c, es[i].content)
      BY <1>1, <1>3, <1>4, <1>14 DEF Carried, AtMost
    <2>2. PICK d : d = es[i]
      OBVIOUS
    <2>3. CASE i # 1
      <3>1. es # <<>>
        BY <1>1
      <3>2. \E j \in DOMAIN t : t[j] = es[i]
        BY <1>2, <2>3, <3>1, TailKeeps
      <3> QED BY <1>1, <1>3, <1>4, <1>6, <2>1, <2>2, <3>2, CarriedStays
    <2>4. CASE i = 1
      <3>1. ev.type # "chan" /\ ev.epoch = be /\ ev.revision = br /\ AtMost(c, ev.content)
        BY <1>1, <2>1, <2>4
      <3>2. \A j \in DOMAIN t : t[j].epoch = be => AtMost(c, t[j].content)
        BY <1>13, <3>1
      <3>3. CASE Fits(ev) /\ browser' = Accepted(ev) /\ shown' = ShownAfter(ev)
        <4>1. browser'.active = st
          BY <1>10, <3>1, <3>3, AcceptedIs
        <4>2. shown'[chart] = ev.content
          BY <1>4, <1>5, <3>1, <3>3, ShownIs
        <4> QED BY <1>12, <3>1, <3>2, <4>1, <4>2
      <3>4. CASE ~Fits(ev) /\ browser' = browser
        <4>1. browser.active # st /\ browser.active # NoStream
          BY <1>4, <1>9, <1>10, <3>1, <3>4 DEF Fits, Ahead
        <4>2. browser.cursor # 0
          BY <4>1 DEF CursorOK
        <4> QED BY <1>12, <3>2, <3>4, <4>1, <4>2
      <3> QED BY <1>1, <3>3, <3>4, ReceiveIs
    <2> QED BY <2>3, <2>4
  <1>15. CASE Delivered
    <2>1. \A i \in DOMAIN es : es[i].epoch = be => AtMost(c, es[i].content)
      BY <1>1, <1>3, <1>4, <1>15 DEF Delivered, AtMost
    <2>2. \A j \in DOMAIN t : t[j].epoch = be => AtMost(c, t[j].content)
      BY <1>7, <2>1
    <2>3. \/ "profile" \in missed
          \/ browser.active # st /\ browser.cursor # 0
          \/ browser.active = st /\ (browser.status = "error" \/ AtMost(c, shown[chart]))
      BY <1>3, <1>4, <1>5, <1>15 DEF Delivered, AtMost
    <2>4. missed' = MissedAfter(ev)
      BY <1>1, ReceivedIs
    <2>5. CASE ~Fits(ev) /\ browser' = browser /\ shown' = shown
      <3>1. missed' = missed
        BY <2>4, <2>5 DEF MissedAfter
      <3> QED BY <1>12, <2>2, <2>3, <2>5, <3>1
    <2>6. CASE Fits(ev) /\ browser' = Accepted(ev) /\ shown' = ShownAfter(ev)
      <3>1. ev.epoch = be /\ ev.stream = st /\ browser'.active = st
        BY <1>4, <1>10, <2>6, AcceptedIs DEF Fits
      <3>2. AtMost(c, ev.content)
        BY <1>1, <2>1, <3>1
      <3>3. CASE ev.type # "chan"
        <4>1. shown'[chart] = ev.content
          BY <1>4, <1>5, <2>6, <3>3, ShownIs
        <4> QED BY <1>12, <2>2, <3>1, <3>2, <4>1
      <3>4. CASE ev.type = "chan" /\ browser.active # ev.stream
        <4>1. "profile" \in missed'
          BY <2>4, <2>6, <3>4 DEF MissedAfter
        <4> QED BY <1>12, <2>2, <4>1
      <3>5. CASE ev.type = "chan" /\ browser.active = ev.stream
        <4>1. missed' = missed
          BY <2>4, <2>6, <3>5 DEF MissedAfter
        <4>2. browser'.status = browser.status
          BY <2>6, <3>5, AcceptedIs
        <4>3. AtMost(c, shown[chart]) => AtMost(c, shown'[chart])
          <5>1. PICK u : u = shown'
            OBVIOUS
          <5>2. u[chart].ext = shown[chart].ext /\ u[chart].loc = ev.content.loc
            BY <1>4, <1>5, <2>6, <3>5, <5>1, ShownIs
          <5> QED BY <3>2, <5>1, <5>2 DEF AtMost
        <4> QED BY <1>12, <2>2, <2>3, <3>1, <3>5, <4>1, <4>2, <4>3
      <3> QED BY <3>3, <3>4, <3>5
    <2> QED BY <1>1, <2>5, <2>6, ReceiveIs
  <1> QED BY <1>14, <1>15

LEMMA DeliveryStep ==
    Types /\ Types' /\ CountsOK /\ SocketOK /\ OutOK /\ ContextsOK /\ ReadOK /\ HashOK /\ CursorOK
    /\ EventsOK /\ DeliveryOK /\ [Next]_vars => DeliveryOK'
  <1>1. DeliveryOK /\ UNCHANGED vars => DeliveryOK'
    BY DEF DeliveryOK, Carried, Delivered, vars
  <1> SUFFICES ASSUME Types, Types', CountsOK, SocketOK, OutOK, ContextsOK, ReadOK, HashOK, CursorOK,
                      EventsOK, DeliveryOK, Next,
                      server'.hash # <<>>, server'.epoch = browser'.epoch,
                      server'.hash[1] = browser'.revision,
                      Stream(socket'.conn, browser'.epoch) \notin browser'.retired
               PROVE  Carried' \/ Delivered'
    BY <1>1 DEF DeliveryOK
  <1>2. PICK es \in Seq(Event) : es = socket.events
    BY EventsAre
  <1>3. PICK be \in Nat, br \in Nat, se \in Nat, sr \in Nat :
            /\ be = browser.epoch /\ br = browser.revision
            /\ se = server.epoch /\ sr = server.revision /\ se <= be /\ sr <= br
    BY ContextInts DEF ContextsOK
  <1>4. ~ChangeSymbol
    <2> SUFFICES ASSUME ChangeSymbol PROVE FALSE
      OBVIOUS
    <2>1. browser'.epoch = be + 1 /\ server'.epoch = se
      BY <1>3, ChangeSymbolIs DEF ChangeSymbol
    <2> QED BY <1>3, <2>1
  <1>5. ~ChangeWatchlist
    <2> SUFFICES ASSUME ChangeWatchlist PROVE FALSE
      OBVIOUS
    <2>1. browser'.revision = br + 1 /\ server' = server
      BY <1>3, ChangeWatchlistIs DEF ChangeWatchlist
    <2>2. PICK h \in Int : h = server.hash[1] /\ h <= sr
      <3>1. server.hash \in Hashes /\ server.hash # <<>>
        BY <2>1, ServerFields DEF Types
      <3> QED BY <1>3, <3>1, HashFields DEF HashOK
    <2> QED BY <1>3, <2>1, <2>2
  <1>6. CASE Connect \/ Disconnect
    <2>1. server'.hash = <<>>
      BY <1>6, ConnectIs, DisconnectIs, IdleServerIs DEF Connect, SocketOK
    <2> QED BY <2>1
  <1> SUFFICES ASSUME ~Connect, ~Disconnect PROVE Carried' \/ Delivered'
    BY <1>6
  <1>7. /\ browser'.epoch = browser.epoch /\ browser'.revision = browser.revision
        /\ browser.retired \subseteq browser'.retired /\ socket'.conn = socket.conn
    BY <1>4, <1>5, BrowserMoves, RetiredGrows, ConnectionMoves
  <1>8. ASSUME server'.hash = server.hash, server'.epoch = server.epoch
        PROVE  Carried \/ Delivered
    BY <1>7, <1>8 DEF DeliveryOK
  <1>9. CASE Receive
    <2>1. server' = server
      BY <1>9 DEF Receive
    <2> QED BY <1>7, <1>8, <1>9, <2>1, DeliveryReceived
  <1> SUFFICES ASSUME ~Receive PROVE Carried' \/ Delivered'
    BY <1>9
  <1>10. "profile" \in missed => "profile" \in missed'
    BY <1>4, <1>5, ProfileStays
  <1>11. ASSUME server'.hash = server.hash, server'.epoch = server.epoch, socket'.events = socket.events
         PROVE  Carried => Carried'
    BY <1>7, <1>11 DEF Carried
  <1>12. ASSUME server'.hash = server.hash, server'.epoch = server.epoch, socket'.events = socket.events,
                browser'.active = browser.active, browser'.cursor = browser.cursor,
                browser'.status = "error" \/ (browser'.status = browser.status /\ shown' = shown)
         PROVE  Carried' \/ Delivered'
    <2>1. CASE Carried
      BY <1>11, <1>12, <2>1
    <2>2. CASE Delivered
      <3>1. PICK c : c = server.hash[2]
        OBVIOUS
      <3>2. NoneOlder(es, es, c)
        BY DEF NoneOlder
      <3> QED BY <1>2, <1>7, <1>10, <1>12, <2>2, <3>1, <3>2, DeliveredStays
    <2> QED BY <1>8, <1>12, <2>1, <2>2
  <1>13. CASE Confirm
    BY <1>12, <1>13, ConfirmIs, SentTypes DEF Confirm
  <1>14. CASE FailBootstrap
    BY <1>12, <1>14, FailIs DEF FailBootstrap
  <1>15. CASE QuietStep
    <2>1. Alike(server, server') /\ UNCHANGED <<browser, shown, socket>>
      BY <1>15, QuietIs DEF Quiet
    <2> QED BY <1>12, <2>1 DEF Alike
  <1>16. CASE AcceptBootstrap
    <2>1. server' = server /\ socket' = socket
      BY <1>16 DEF AcceptBootstrap
    <2>2. CASE browser' = browser /\ shown' = shown
      BY <1>12, <2>1, <2>2
    <2>3. CASE /\ browser'.active = NoStream /\ browser'.cursor = browser.cursor
               /\ browser.active # NoStream => browser.active \in browser'.retired
      <3>1. CASE Carried
        BY <1>11, <2>1, <3>1
      <3>2. CASE Delivered
        <4>1. PICK st : st = Stream(socket.conn, browser.epoch)
          OBVIOUS
        <4>2. st # NoStream
          <5>1. socket.conn \in Connections
            BY <2>1, IdleServerIs DEF SocketOK
          <5>2. PICK n \in Nat : n = socket.conn /\ n # 0
            BY <5>1, ConnectionIs
          <5> QED BY <1>3, <4>1, <5>2, StreamIs
        <4>3. st \notin browser'.retired
          BY <1>7, <4>1
        <4>4. browser.active # st
          BY <2>3, <4>2, <4>3
        <4>5. "profile" \in missed \/ browser.cursor # 0
          BY <3>2, <4>1, <4>4 DEF Delivered
        <4>6. \A i \in DOMAIN socket.events : socket.events[i].epoch = browser.epoch =>
                  AtMost(server.hash[2], socket.events[i].content)
          BY <3>2 DEF Delivered
        <4> QED BY <1>7, <1>10, <2>1, <2>3, <4>1, <4>2, <4>5, <4>6 DEF Delivered, AtMost
      <3> QED BY <1>8, <2>1, <3>1, <3>2
    <2> QED BY <1>16, <2>2, <2>3, AcceptIs
  <1>17. CASE HandleContext
    <2>1. /\ socket'.events = socket.events
          /\ server'.hash = server.hash /\ server'.epoch = server.epoch
      BY <1>17, HandleIs
    <2> QED BY <1>12, <1>17, <2>1 DEF HandleContext
  <1>18. CASE ReadCache
    <2>1. server'.hash = server.hash /\ server'.epoch = server.epoch
      BY <1>18, ReadCacheIs
    <2> QED BY <1>12, <1>18, <2>1 DEF ReadCache
  <1>19. CASE Send
    <2>1. PICK e \in Event : server.out = <<e>> /\ AtMost(server.hash[2], e.content)
      BY <1>19 DEF OutOK, Send
    <2>2. /\ server'.hash = server.hash /\ server'.epoch = server.epoch
          /\ socket'.events = Append(socket.events, e)
      BY <1>19, <2>1, SendIs
    <2>3. browser' = browser /\ shown' = shown
      BY <1>19 DEF Send
    <2>4. PICK c : c = server.hash[2] /\ c = server'.hash[2] /\ AtMost(c, e.content)
      BY <2>1, <2>2 DEF AtMost
    <2> QED BY <1>7, <1>8, <1>10, <2>2, <2>3, <2>4, DeliveryAppended
  <1>20. CASE ReadLocal
    <2>1. browser' = browser /\ shown' = shown /\ server'.epoch = server.epoch /\ server.pc = "read"
      BY <1>20, ReadLocalIs DEF ReadLocal
    <2>2. CASE server'.hash = server.hash /\ socket'.events = socket.events
      BY <1>12, <2>1, <2>2
    <2>3. ASSUME NEW e \in Event, e.content = Found, e.epoch = server.epoch,
                 e.revision = server.revision, socket'.events = Append(socket.events, e),
                 \/ server'.hash = server.hash
                 \/ server'.hash = Hash(Found) /\ e.type = "profile"
          PROVE  Carried' \/ Delivered'
      <3>1. CASE server'.hash = server.hash
        <4>1. PICK h \in Hashes : h = server.hash /\ h # <<>>
          BY <3>1, ServerFields DEF Types
        <4>2. PICK c \in Content : c = h[2] /\ c = server.hash[2] /\ c = server'.hash[2]
          BY <3>1, <4>1, HashFields
        <4>3. c.ext <= server.ext /\ AtMost(c, DataOf(server.epoch))
          BY <2>1, <4>1, <4>2 DEF ReadOK, HashOK
        <4>4. AtMost(c, e.content)
          BY <2>3, <4>3, FoundIs DEF AtMost
        <4> QED BY <1>7, <1>8, <1>10, <2>1, <2>3, <3>1, <4>2, <4>4, DeliveryAppended
      <3>2. CASE server'.hash = Hash(Found) /\ e.type = "profile"
        <4>1. PICK t : t = Append(es, e)
          OBVIOUS
        <4>2. PICK n : n \in DOMAIN t /\ t[n] = e
          BY <1>2, <4>1, AppendIs
        <4>3. PICK c \in Content : c = Found /\ AtMost(c, c)
          BY FoundIs, AtMostOrders
        <4>4. server'.hash[1] = server.revision /\ server'.hash[2] = c
          BY <3>2, <4>3 DEF Hash
        <4>5. e.epoch = browser'.epoch /\ e.revision = browser'.revision
          BY <2>1, <2>3, <4>4
        <4>6. /\ t[n].type # "chan" /\ t[n].epoch = browser'.epoch /\ t[n].revision = browser'.revision
              /\ AtMost(c, t[n].content)
          BY <2>3, <3>2, <4>2, <4>3, <4>5
        <4> QED BY <1>2, <2>3, <4>1, <4>2, <4>4, <4>6 DEF Carried
      <3> QED BY <2>3, <3>1, <3>2
    <2> QED BY <1>20, <2>2, <2>3, ReadLocalIs
  <1> QED BY <1>4, <1>5, <1>13, <1>14, <1>15, <1>16, <1>17, <1>18, <1>19, <1>20 DEF Next, QuietStep

-----------------------------------------------------------------------------
(* The theorems.                                                             *)

LEMMA InitTypes == Init => Types
  <1> SUFFICES ASSUME Init PROVE Types
    OBVIOUS
  <1>1. PICK no \in BOOLEAN, z \in Changes, q \in 0 .. MaxSequence, none \in Content,
             zero \in {0} \union Connections :
            no = FALSE /\ z = 0 /\ q = 0 /\ none = Nothing /\ zero = 0
    <2>1. /\ 0 \in Changes /\ 0 \in 0 .. MaxSequence /\ Nothing \in Content
          /\ 0 \in {0} \union Connections
      BY NothingIsContent, ChangesAreNat
    <2> QED BY <2>1
  <1>2. browser \in Browsers
    <2>1. PICK a \in {NoStream} : a = NoStream
      OBVIOUS
    <2>2. PICK r \in SUBSET (Connections \X Changes) : r = {}
      OBVIOUS
    <2>3. browser = [epoch |-> z, revision |-> z, confirmed |-> no, subscribed |-> no,
                     status |-> "unavailable", active |-> a, retired |-> r, cursor |-> q]
      BY <1>1, <2>1, <2>2 DEF Init
    <2> QED BY <2>3 DEF Browsers
  <1>3. fetch \in Fetches
    <2>1. fetch = [at |-> "none", epoch |-> z, revision |-> z, content |-> none]
      BY <1>1 DEF Init, NoFetch
    <2> QED BY <2>1 DEF Fetches
  <1>4. socket \in Sockets
    <2>1. PICK cs \in Seq(Context), es \in Seq(Event) : cs = <<>> /\ es = <<>>
      BY EmptySeq
    <2>2. socket = [conn |-> zero, up |-> no, contexts |-> cs, events |-> es]
      BY <1>1, <2>1 DEF Init
    <2> QED BY <2>2 DEF Sockets
  <1>5. server \in Servers
    BY IdleServerIs DEF Init
  <1>6. shown \in [Symbols -> Content] /\ data \in [Symbols -> Content] /\ floor \in Content
    BY NothingIsContent DEF Init
  <1>7. collector \in Collectors
    BY IdleIs DEF Init
  <1>8. upsets \in Changes
    BY ChangesAreNat DEF Init
  <1> QED BY <1>2, <1>3, <1>4, <1>5, <1>6, <1>7, <1>8 DEF Types, Init

LEMMA InitInv == Init => IInv
  <1> SUFFICES ASSUME Init, Types PROVE IInv
    BY InitTypes
  <1>1. /\ browser.epoch = 0 /\ browser.revision = 0 /\ browser.status = "unavailable"
        /\ browser.active = NoStream /\ browser.cursor = 0
    BY DEF Init
  <1>2. socket.conn = 0 /\ ~socket.up /\ socket.contexts = <<>> /\ socket.events = <<>>
    BY DEF Init
  <1>3. /\ server = IdleServer /\ ~server.known /\ server.epoch = 0 /\ server.revision = 0
        /\ server.pc = "idle" /\ server.out = <<>> /\ server.hash = <<>>
    BY IdleServerIs DEF Init
  <1>4. /\ \A s \in Symbols : data[s] = Nothing /\ shown[s] = Nothing
        /\ floor = Nothing /\ fetch.at = "none" /\ fetch.epoch = 0 /\ upsets = 0
    BY DEF Init, NoFetch
  <1>5. NoStream[1] = 0 /\ AtMost(Nothing, Nothing) /\ Nothing.loc = 0
    BY ConnectionIs, NothingIsContent, AtMostOrders DEF Nothing
  <1>6. SymbolOf(browser.epoch) \in Symbols
    BY BrowserFields, ChangesAreNat, SymbolType DEF Types
  <1>7. CountsOK
    BY <1>1, <1>2, <1>4, <1>5 DEF CountsOK
  <1>8. SocketOK
    BY <1>2, <1>3 DEF SocketOK
  <1>9. ContextsOK
    BY <1>1, <1>2, <1>3 DEF ContextsOK
  <1>10. EventsOK /\ OutOK /\ ReadOK /\ HashOK
    BY <1>2, <1>3 DEF EventsOK, OutOK, ReadOK, HashOK
  <1>11. CursorOK
    BY <1>1, <1>2, <1>3, <1>5 DEF CursorOK
  <1>12. ShownOK
    BY <1>1, <1>4, <1>5 DEF ShownOK
  <1>13. FloorOK
    BY <1>2, <1>3, <1>4, <1>5, <1>6 DEF FloorOK, DataOf
  <1>14. ReadyIsFresh /\ CurrentOK /\ DeliveryOK
    BY <1>1, <1>3 DEF ReadyIsFresh, CurrentOK, DeliveryOK
  <1>15. AfterOK /\ BehindOK
    BY <1>1, <1>2, <1>3 DEF AfterOK, BehindOK, Behind
  <1> QED BY <1>7, <1>8, <1>9, <1>10, <1>11, <1>12, <1>13, <1>14, <1>15 DEF IInv

LEMMA Inductive == IInv /\ [Next]_vars => IInv'
  <1> SUFFICES ASSUME Types, CountsOK, SocketOK, ContextsOK, EventsOK, OutOK, ReadOK, CursorOK, HashOK,
                      ShownOK, FloorOK, ReadyIsFresh, CurrentOK, DeliveryOK, AfterOK, BehindOK,
                      [Next]_vars
               PROVE  IInv'
    BY DEF IInv
  <1>1. Types'
    BY TypesStep
  <1>2. CountsOK' /\ SocketOK'
    BY CountsStep, SocketStep
  <1>3. ContextsOK' /\ HashOK'
    BY ContextsStep, HashStep
  <1>4. EventsOK' /\ OutOK' /\ ReadOK'
    BY <1>1, EventsStep, OutStep, ReadStep
  <1>5. CursorOK' /\ ShownOK' /\ FloorOK' /\ ReadyIsFresh'
    BY <1>1, <1>2, CursorStep, ShownStep, FloorStep, ReadyStep
  <1>6. CurrentOK' /\ DeliveryOK'
    BY <1>1, <1>2, CurrentStep, DeliveryStep
  <1>7. AfterOK' /\ BehindOK'
    BY <1>1, AfterStep, BehindStep
  <1> QED BY <1>1, <1>2, <1>3, <1>4, <1>5, <1>6, <1>7 DEF IInv

\* The inductive invariant holds: whatever is read, hashed, on its way and shown is
\* related as its parts say.
THEOREM Invariance == Spec => []IInv
  <1>1. Init => IInv
    BY InitInv
  <1>2. IInv /\ [Next]_vars => IInv'
    BY Inductive
  <1> QED BY <1>1, <1>2, PTL DEF Spec

LEMMA InvTypes == IInv => TypeOK
  <1> SUFFICES ASSUME Types, SocketOK, EventsOK PROVE TypeOK
    BY DEF IInv
  <1>1. PICK b \in Browsers : b = browser
    BY DEF Types
  <1>2. b.active \in ({0} \union Connections) \X Changes
    <2>1. NoStream \in ({0} \union Connections) \X Changes
      BY ChangesAreNat DEF NoStream
    <2> QED BY <2>1, BrowserFields
  <1>3. browser \in [epoch : Changes, revision : Changes, confirmed : BOOLEAN, subscribed : BOOLEAN,
                     status : {"unavailable", "ready", "error"}, cursor : 0 .. MaxSequence,
                     active : ({0} \union Connections) \X Changes,
                     retired : SUBSET (Connections \X Changes)]
    BY <1>1, <1>2, BrowserFields DEF Browsers
  <1>4. /\ server.sequence \in 0 .. MaxSequence /\ server.fences \subseteq 1 .. MaxSequence
        /\ server.pc \in {"idle", "read", "send"} /\ server.notices \in Nat
    BY ServerFields DEF Types
  <1>5. ASSUME NEW i \in DOMAIN socket.events, socket.events[i].epoch = server.epoch
        PROVE  socket.events[i].sequence \in 1 .. server.sequence
    <2>1. PICK e \in Event : e = socket.events[i] /\ SentHere(e)
      BY EventsAre DEF EventsOK
    <2>2. PICK n \in Int, q \in Int : n = e.sequence /\ q = server.sequence /\ 1 <= n /\ n <= q
      <3>1. e.sequence \in 1 .. MaxSequence /\ e.sequence \in Int /\ server.sequence \in Int
        BY EventFields, ServerInts
      <3>2. 1 <= e.sequence
        BY <3>1, ChangesAreNat
      <3> QED BY <1>5, <2>1, <3>1, <3>2 DEF SentHere
    <2> QED BY <2>1, <2>2
  <1> QED BY <1>3, <1>4, <1>5 DEF TypeOK, Types

\* Every variable keeps its type, and no event on its way was numbered past the
\* sequence of its stream (next_sequence).
THEOREM TypeCorrect == Spec => []TypeOK
  BY Invariance, InvTypes, PTL

\* A ready sidebar shows nothing older than what there was when its symbol was
\* chosen, however many symbols were chosen since and whatever is still on its way
\* (the fence of acceptEvent and the check of bootstrap).
THEOREM ReadyNeverPast == Spec => []ReadyIsFresh
  <1>1. IInv => ReadyIsFresh
    BY DEF IInv
  <1> QED BY <1>1, Invariance, PTL

\* At rest: the server has hashed the data, what is hashed is shown, and nothing
\* shown is newer than the data.
LEMMA RestFresh == IInv => RestIsFresh
  <1> SUFFICES ASSUME Types, SocketOK, ContextsOK, CursorOK, ShownOK, CurrentOK, DeliveryOK, AfterOK,
                      BehindOK, AtRest,
                      Stream(socket.conn, browser.epoch) \notin browser.retired, ~Mismatch,
                      "profile" \notin missed, browser.status # "error",
                      NEW part \in {"ext", "loc"} \ missed
               PROVE  shown[SymbolOf(browser.epoch)][part] = data[SymbolOf(browser.epoch)][part]
    BY DEF IInv, RestIsFresh
  <1>1. /\ socket.up /\ socket.contexts = <<>> /\ socket.events = <<>> /\ server.pc = "idle"
        /\ server.notices = 0 /\ unannounced = {} /\ ~collector.busy
    BY DEF AtRest
  <1>2. server.known /\ server.epoch = browser.epoch /\ server.revision = browser.revision
    BY <1>1 DEF SocketOK, ContextsOK
  <1>3. PICK s \in Symbols : s = SymbolOf(browser.epoch)
    BY BrowserFields, ChangesAreNat, SymbolType DEF Types
  <1>4. /\ server.hash # <<>> /\ server.hash[1] = server.revision
        /\ \A p \in {"ext", "loc"} : Due(p) \/ server.hash[2][p] = DataOf(server.epoch)[p]
    BY <1>1, <1>2 DEF CurrentOK
  <1>5. ~Due(part)
    BY <1>1 DEF Due
  <1>6. PICK c \in Content, d \in Content, w \in Content :
            c = server.hash[2] /\ d = data[s] /\ w = shown[s]
    <2>1. server.hash \in Hashes
      BY ServerFields DEF Types
    <2> QED BY <1>4, <2>1, HashFields DEF Types
  <1>7. c[part] = d[part]
    BY <1>2, <1>3, <1>4, <1>5, <1>6 DEF DataOf
  <1>8. Delivered
    <2>1. ~Carried
      BY <1>1 DEF Carried
    <2> QED BY <1>2, <1>4, <2>1 DEF DeliveryOK
  <1>9. ~(browser.active # Stream(socket.conn, browser.epoch) /\ browser.cursor # 0)
    <2> SUFFICES ASSUME Behind PROVE FALSE
      BY DEF Behind
    <2>1. ~ResyncComing
      BY <1>1 DEF ResyncComing
    <2>2. PICK k \in Int, q \in Int : k = browser.cursor /\ q = server.sequence
      BY ServerInts, ActiveIs DEF Types
    <2>3. k < q
      BY <1>2, <1>4, <2>1, <2>2 DEF BehindOK
    <2>4. server.after = k
      BY <1>1, <1>2, <2>2 DEF AfterOK
    <2>5. k # 0
      BY <2>2 DEF Behind
    <2> QED BY <2>2, <2>3, <2>4, <2>5 DEF Mismatch
  <1>10. AtMost(c, w)
    BY <1>3, <1>6, <1>8, <1>9 DEF Delivered, AtMost
  <1>11. AtMost(w, d)
    BY <1>3, <1>6 DEF ShownOK
  <1>12. w[part] = d[part]
    <2>1. PICK ce \in Int, cl \in Int, de \in Int, dl \in Int, we \in Int, wl \in Int :
              ce = c.ext /\ cl = c.loc /\ de = d.ext /\ dl = d.loc /\ we = w.ext /\ wl = w.loc
      BY ContentType
    <2>2. ce <= we /\ cl <= wl /\ we <= de /\ wl <= dl
      BY <1>10, <1>11, <2>1 DEF AtMost
    <2>3. CASE part = "ext"
      BY <1>7, <2>1, <2>2, <2>3
    <2>4. CASE part = "loc"
      BY <1>7, <2>1, <2>2, <2>4
    <2> QED BY <2>3, <2>4
  <1> QED BY <1>3, <1>6, <1>12

\* At rest the sidebar shows the present data but for the five named cases, for any
\* number of changes of the context, local publications, timeouts and connections
\* (delta_events, the hashes of its streams, and the store's fences).
THEOREM RestShowsPresent == Spec => []RestIsFresh
  BY Invariance, RestFresh, PTL
=============================================================================
