# pico-radio in TLA+

A verification project for [pico-radio](../src/README.md), a network library for
the Raspberry Pi Pico W: Wi-Fi bring-up, a DHCP server, TCP and UDP wrappers,
a WebSocket client and server, and on top of them a NetworkTables 4.1 (NT4)
server. The models follow the code under `src/`; line numbers below are of those
files.

## 1. The system

### Components, their state and their operations

| Component | State | Operations |
|---|---|---|
| **NetworkTables server**, `src/nt/ntinstance.cpp`, `include/nt/ntinstance.h` | `topics` (name → value, properties), `clients` (guid → `ClientData`: name, subscriptions, publishers, `topicData` with an id and `initialPublish` per topic, `nextTopicIdAssigned`, `textCache`, `binaryCache`), `thisClient`, `stateMutex` | callbacks `clientConnected`, `clientDisconnected`, `messageReceived`; `_handleFrame` (subscribe, unsubscribe, publish, unpublish, setproperties, values, RTT); the application's `subscribe`, `unsubscribe`, `publish`, `unpublish`, `setProperties`, `updateTopic`, `flush` |
| **WsServer**, `src/wsserver.cpp` | `clients` (a vector of entries), `listener`, `dispatchQueue` | `acceptConnections`, `handleRawConnection` (one task per connection), `disconnectClient`, `ping`, `send`, `joinDispatchQueue`, `start`, `stop` |
| **WebSocket**, `src/websocket.cpp` | `tcp`, `closeFrameSent`, `gracefullyClosed`, `currentFrame`, `sendMutex` | `initiateHandshake`, `enterPollLoop`, `parseFrameHeader`, `handleFrame`, `send`, `sendFrame`, `ping`, `pong`, `close`, `disconnect` |
| **Facade**, `src/nt/ntsubscriber.cpp`, `ntpublisher.cpp`, `ntentry.cpp`, `nttopic.cpp` | a static table per instance: subscribers waiting for an announcement, last update per topic id; static uid counters | constructors, `get`, `set`, `close`, the three callbacks of the instance |
| **DHCP server**, `src/dhcpserver.c` | eight leases: MAC and 16 bits of expiry | DISCOVER, REQUEST |
| **TCP client and listener, UDP socket, TextStream** | a socket, a line buffer | thin calls of lwIP |
| **Radio**, `src/radio.cpp` | the driver's link state | start-up with retries |
| **EventHandler, Guid, SHA-1, MessagePack, JSON** | containers and pure functions | |

### How they interact

The listener's task accepts a connection and starts a task for it, which stays in
`WsServer::handleRawConnection` until the connection is over: it answers the HTTP
request, pushes an entry on `WsServer::clients`, runs the `clientConnected`
handlers, reads frames in `WebSocket::enterPollLoop` (a frame runs `receivedCallback`,
hence `messageReceived` and `_handleFrame`, in the same task), and at the end runs the
`clientDisconnected` handlers and erases its entry. The application is one more
task, which calls the hybrid functions and `disconnectClient`; the last may run
`clientDisconnected` in the application's task. All handlers of
`NetworkTableInstance` share its state under `stateMutex`, for which they wait
`MUTEX_TIMEOUT` and then give up. What a handler tells a client goes through
`textCache` and `binaryCache`, which are sent when the next message would not fit
or at certain flushes.

### What is hard about it

* **Interleavings.** The mutex is given back between the messages of one text frame
  (`ntinstance.cpp:756`, ... `971`); the handlers of other clients run there.
* **Ordering.** Announcements and values travel in two caches with different flushes.
* **Timeouts.** Every wait for the mutex is bounded, and each caller gives up differently.
* **Partial failure.** Some early returns leave the mutex taken (`607`, `1053`).
* **Closing.** Two sides may close, twice, with and without a status code, while the
  connection is dropped; each order calls `clientDisconnected` in another place or not at all. `close()` sends
  its frame before it remembers that it did (`websocket.cpp:243-244`), and the answer may come in between.
* **Stale reads.** The capacity is checked long before the client is listed.
* **`operator[]`** on a map inserts a null pointer or a zero id for an unknown key.

`PROJECT.json` lists these and the others as hazards, each at its line, with the
properties that cover it.

### What would make each component correct

* *NT server*: ids distinct and stable per client; no announcement lost; a client's copy of
  a value current; whoever subscribed before or after a topic's publication is
  told of it; meta-topics exact; names distinct; types stable; a client served at the end of its frame.
* *Connections*: handlers exclusive; the list exact; every end reported once; nothing
  left of a client that is gone; the mutex given back; every dropped connection ends; the capacity respected.
* *Framing*: what one side sends as messages the other receives as the same
  messages, whatever the fragment size, as long as the tasks that send are kept apart by a mutex.
* *DHCP*: no address is used by two hosts, each within its lease, on a clock that wraps; what is
  offered is in use by nobody else; a host is ignored for the leases' sake only.
* *Facade*: a subscriber reads the last value of its topic, never another's, whichever of subscriber and
  topic came first; what a set accepts is stored, if the publisher was declared.
* *Dispatch queue*: one task, each call made once and in order, its bytes alive until then.

## 2. The modules

| Module | What it is |
|---|---|
| `NTServer` | the NT server's state and every handler; properties |
| `NTServer_lemmas` | the handlers' operators and the one step each of them is of `Leads`, what handlers do to a map, a cache, a list of ids |
| `NTServer_proofs` | theorems: ids, announcements, copies of values, for clients and the application; service at a frame's end |
| `NTServer_meta_proofs` | theorems: names, meta-topics, who is told, types, null pointers |
| `NTFacade` | subscribers, publishers and entries of the application: extends `NTServer`, whose steps its own are composed with |
| `NTFacade_proofs`, `MCNTFacade` | theorems: what handles hold, read, are told and accept; small instances (one name or two) |
| `MCNTServer` | small instances (names, subscriptions, an order of the map) |
| `NTSession` | the life of a connection across `WsServer`, `WebSocket` and `NetworkTableInstance`, and `stateMutex` |
| `NTSession_proofs` | theorems: the inductive invariant of `NTSession` and its consequences |
| `MCNTSession` | small instances (what peers and the application do) |
| `DispatchQueue` | the queue of calls from interrupts and the task that makes them |
| `DispatchQueue_proofs`, `MCDispatchQueue` | theorems: one task, calls in order, payloads; a small instance |
| `WsMessages` | what sending over a WebSocket promises: of each sender some messages are pending, the foremost arrives whole, or its send fails |
| `WsFrames` | `send`, `sendFrame` and `handleFrame`: fragments on the wire; implements `WsMessages` |
| `WsFrames_proofs`, `MCWsFrames` | theorems: no use of a freed payload, `WsFrames` implements `WsMessages`; small instances (messages of one to three packets) |
| `DhcpServer` | the lease table, the hosts and the clock |
| `DhcpServer_proofs`, `MCDhcpServer` | theorems: types and every property of the table; a small instance |

`NTServer` and `NTSession` cut the system at `stateMutex`. `NTSession` has the mutex, its waits, the
tasks and the closing handshakes, and of the instance only which connections have a
`ClientData`. `NTServer` has what happens inside the mutex, a handler being one action:
`HandlersExclusive`, proved in `NTSession_proofs`, is what justifies this.

### NTServer

`topics`, `clients` and `inFrame` (the clients whose text frame is between two critical
sections). A handler is a composition of operators that take a record
`[topics, clients]` to the next one, an operator for each member function, in the
order of the calls: `Subscribe` is `subscriptions[uid] = ...`, `updateClientSubMetaTopic`,
`updateTopicSubMetaTopic` for each matching topic, and `announceCachedTopics`
(`ntinstance.cpp:672-758`).

* Names are sequences of pieces, `"$sub$a"` is `<<"$", "sub", "a">>`: a prefix of
  characters is a prefix of pieces. Values are a type and a datum; the value of a meta-topic
  is the set its array lists. Messages are records.
* A loop over an `unordered_map` is a comprehension. Where its order shows (ids, order of
  announcements, order of values) it is `Rank`, any injection.
* A cache holds `TextLimit` or `BinaryLimit` messages in place of 512 bytes. All messages
  of one handler are appended at once: `Overflow` says how many have been sent by then.
* Each client has a record `peer` of what was sent to it: ids announced (`known`), last value
  of each id (`vals`), and whether a value came before its announcement (`early`). For the
  server's own application, whose callbacks run at once, it is what they were told. It
  is history: no guard reads it.
* Unknown uids and names leave a null pointer in a map (`Null`, `NullTopic`), as `operator[]` does. The next walk over
  that map dereferences it; what follows is undefined and no action is enabled (`NoNullEntry`).
* The application's callbacks may return false, for the names in `AnnounceRefused` and `UpdateRefused`. A refused
  announcement ends `publishTopic` (`ntinstance.cpp:1578`, `1600`, `1626`) with the topic in the map and not all of its meta-topics
  (`Refused`), and the assertion that next looks for one of them fails (`SetMeta`, `LeaveNull`). A refused update ends the loop of
  `sendTopicUpdate` (`1556`) before it comes to the clients of `Later` (`Missed`), which are left with the value they had.
* Several values in one binary frame take the mutex one by one and are several `BinaryFrame` steps.
* A connection is served by one task, so its own handlers do not overlap:
  `clientDisconnected` comes between two of its frames (`BetweenFrames`). The application's
  second `disconnectClient`, which breaks this rule, is in `NTSession` only.

* A value has the type it was made with and is sent with another: `ApiType` is `getAPIType`, so an
  unsigned number goes out as an integer. `Assign` compares the two as they are sent and keeps the topic's
  own type (`NTDataValue::assign`); `WireType` is what is left of a type that a peer writes in a publish.

### NTFacade

A handle (`sub`, `pub`) is a uid that is used once, as the static counters give them out. The two parts of a
constructor are two steps: `NewSubscriber` puts the subscriber in the queue of its name, `Subscribes` calls
`subscribe` (`ntsubscriber.cpp:83-107`); `Publishes` calls `publish`, `SetsDefault` sets the default value
(`ntpublisher.cpp:19-65`). Between them, as between any two steps, a remote client may act. Each step
that announces something to the application ends in `CallBack`, which empties the queues of the names announced
(`NT_topicAnnouncedCallback`), so `RemotePublishes` is `Publish` of `NTServer` and `CallBack`.
`NT_topicCallbacks[nt].updates` is what `NTServer` already keeps for the application, `peer.vals` of
`Self`, and what it has for no id is `Unassigned`. `GetAs` is any of the typed getters: a value comes with the type it is sent with,
so an unsigned topic is read by `getInt`, never by `getUInt`. The functions of the instance that may time out are given by `InVain`; `SubscribeGivesUp` and the like are
their early returns, after which the handle exists all the same: a publisher has a topic without name, of type Bool and id -1
(`ntinstance.cpp:2046`), so it goes on to accept booleans, and the first one it accepts leaves a null pointer, for its uid was never declared;
closing a handle that was never declared does too. An entry is a subscriber and, from its first set to `unpublish`, a publisher (`owned`).
A call of a destroyed subscriber is recorded in `dangled`, and nothing follows it.

### NTSession

`pc[c]` is where the task of connection `c` stands: `idle`, `handshake`, `accepted`,
`connecting` (waiting for the mutex in `clientConnected`), `registering` (inside),
`open` (in the message loop), `message`/`inMessage`, `closing` (between the close frame it sent and
`closeFrameSent`), `disconnecting`, `closeCallback`/`inCloseCallback`
(`clientDisconnected` out of `close`), `loopExit`/`inLoopExit` (out of
`handleRawConnection`), `erase`, `done`, `rejected`. `app` is the same for the
application. Taking the mutex, giving up on it and the end of a handler are steps
of their own. `arriving[c]` is what the peer sent last: nothing, a close frame with or without a
status code, or the end of the connection. `asked` are the connections whose peer was sent a close frame,
`sentClose` those whose `closeFrameSent` is set: a peer answers the former, `close()` looks at the latter.
`told`, `gaveUp` and `overtaken` are history; `overtaken` are the connections whose task handled a close frame while the
application's was between the two.

What connections may do is given per connection by constants: speak the RTT protocol (`MayRtt`),
open the closing handshake (`PeerOpens`), answer it (`PeerAnswers`), be closed by the
application a number of times (`AppCloses`). `WellBehaved(c)` names those for which the code
keeps its promises: NT protocol, closing left to the server, answered with a status
code, closed once at most. Properties of one such connection hold *whatever the others do*. Even such a
connection is not reported, and its `ClientData` stays, if it is overtaken: `ToldOnce` and `NoGhostClient` say so. The
application is taken to call `disconnectClient` for connected clients only (`close()`
asserts it) and RTT connections to send time requests only (a value would be a frame of a client
without `ClientData`, which is in the model for NT connections).

### WsFrames

Two ends of this library, one sending, the other receiving. `cursor` and `left` are where each sending task is
in `send` (`left` is `bytesLeft` between two fragments), `wire` the frames that are under way, `held`
and `freed` the memory of `currentFrame.payload`. Bytes are numbered by message and place, a packet has `Room`
for two of them. One frame is written in one step, as under `sendMutex`. The tasks of `Locked` hold `stateMutex` for
whole messages, as those that run `flushText` and `flushBinary` do; the others begin a message at any time, as the answer to a
timestamp (`ntinstance.cpp:1011`), the dispatch queue (`wsserver.cpp:309`, `312`) and the application do with `WsServer::send`;
pings come at any time too. `mixed` remembers that a message was begun between the frames of another's.
A payload that comes short disconnects the receiving end (`ReceiveShort`); what is written after that TCP may
take and lose, and the send returns true. A header of which one byte comes is dropped and the loop goes on (`TearHeader`): the
end is out of step (`inStep`), and takes for a frame of any kind what it reads, or disconnects (`ReceiveAdrift`).
`Intact` says that neither has happened. Once it is false nothing is claimed of the connection: in the code
`handleFrame` then joins fragments of two messages to one, or reads the payload it has freed.

`SentAsMessages` is the refinement: a message is pending until its bytes are delivered together or its send
returned false, and `delivered`, read as messages, is what arrived. `WsMessages` promises this while it is `intact`, and allows
that to end (`Break`) only when two messages are pending of tasks not both `Locked`, or headers may be torn. A message of three fragments or more
does not arrive as it was sent (run `ws_long`), so of these `Carries` asks the number and the origin of the bytes only.

### DispatchQueue

`at[t]` is where a task is in `joinDispatchQueue`: at the outer condition (`loop`), at the front of the queue
(`front`), between the call and the `pop`, past the loop with the flag still set (`leave`), or not there (`none`).
`QueueCall` and `MakeCall` are `disconnectClient`, `ping` and `send` in an interrupt, with the queue running or not;
all five branches do the same but for the bytes that two of them copy (`WithPayload`, `payloads`).
`called`, `direct` and `made` are history. Calls from tasks do not touch the queue and are left to `NTSession` and `WsFrames`.
`RestartsEarly` says whether the application calls `startDispatchQueue` while `isDispatchQueueRunning()`: the
code does not keep it from doing so, and nothing below is claimed when it does.

### DhcpServer

`lease` is the table. The clock has `2 * Half` ticks where the code has 2^32 ms, an expiry is a multiple of `Coarse` of
them where the code keeps the upper 16 bits. `Plus` and `Minus` are the unsigned operations, a difference of `Half` or
more is what the code's cast reads as negative. `left[m][i]` is for how long host `m` may still use the address it was granted; `Leave` and
`Tick` are the environment, `RequestLost` is a granted request whose answer is lost, and a host may
name any address in its request, offered or not. The loop over the slots is told in two parts: `Offer`, which slot is
offered, and `Discover`, what it clears. That is the first slot before the host's own that is free or has run
out, and it is cleared even if the host's own is offered in the end (`dhcpserver.c:250-264`).
`since` is history.

Definitions named `Fault...` are variants of the definition they precede, each
with a plausible bug. They take part in nothing: put in the place of that definition they show that
the property meant to notice the bug does.

## 3. The runs

| Run | Instance | States | Shows |
|---|---|---|---|
| `nt_clients` | 2 clients with one base name, a topic, subscriptions to the topic and `$clients`, or to the topic's announcements only, text cache of 1, binary cache of 2 | 180,618 | ids, copies, announcements, meta-topics, names, service at frame end |
| `nt_app` | a client and the application, both publish, and subscribe by prefix to every ordinary topic, two types, `cached` switched off, mutex timeouts | 268,446 | the same across the hybrid functions; types; the application's copy |
| `nt_session` | a well-behaved connection and one that may do anything, timeouts, the application, with fairness | 569,981 | exclusion, listing, reporting, cleaning up, the mutex given back, dropped connections end |
| `facade_handles` | two subscribers, one an entry's, a publisher, a remote client that publishes, an unsigned and a boolean type, `subscribe` and `publish` that give up | 830,980 | subscribers know and read their topic, destroyed ones are called only if they still waited, what is accepted is stored if the publisher is declared |
| `dispatch_queue` | four calls, two of them with bytes, two tasks, server and queue stopped and started at any time, with fairness | 8,976 | one task, calls once and in order, bytes kept, no call waits for ever |
| `ws_messages` | two locked tasks and one that is not, messages of one packet and of two and a byte, timeouts, payloads and headers that come short, a ping, with fairness | 135,324 | `WsFrames` implements `WsMessages`; no freed payload is read; every message is settled; until two tasks' messages mix or a header is torn |
| `dhcp_leases` | three hosts, two addresses, a clock of 16 ticks, leases of 3 rounded to 4 | 14,328 | addresses not shared, offers unused, hosts ignored only for the leases' sake |

The other runs each end in a counterexample to what the sources say of the code:

| Run | Property | Disagreement |
|---|---|---|
| `facade_ids` | `ReadsOwnTopic` | topics the application publishes before it subscribes all get id 0, and a subscriber reads another topic's value (`ntinstance.cpp:1613`) |
| `nt_early_value` | `AnnouncedBeforeValue` | a value reaches a client before the announcement of its id (`971`, `1067`) |
| `nt_session_missed` | `EveryEndReported` | a peer that opens the closing handshake with a status code leaves without `clientDisconnected` (`websocket.cpp:491`) |
| `nt_session_leak` | `MutexNeverLeaks` | the end of an RTT connection leaves `stateMutex` taken (`ntinstance.cpp:607`) |
| `ws_long` | `DeliveredAsSent` | a middle fragment repeats the first one (`websocket.cpp:605`) |

### Bounds, and why they are enough

* `Client` (2, or 1 with the application), `Conn` (2). Records of clients only meet in shared
  topics and in flushes for all; two are enough for one to change what the other reads, to
  compete for a name and to leave in between. The proofs lift this bound and all the others below for every invariant and action property,
  under the hypotheses of section 4.
* `MaxSuffix`: a name with a larger number is not given; with two clients of one base name, 2.
* One ordinary topic, with its two meta-topics and the three to seven about clients, so six
  to ten names in all; two in `facade_ids`, where they are needed. `SubUid` and `PubUid`: one uid
  per client, which is declared, replaced and withdrawn; uids of one client only meet in `isSubscribed`.
* `TextLimit`, `BinaryLimit` of 1 or 2: with 1 every second message overflows, with 2 messages of
  several handlers wait together.
* `CachedUpdates`: in `nt_app` topics only stop being cached. A topic that becomes cached
  is not announced to earlier subscribers (`TODO` at `ntinstance.cpp:1160`), so no run has one.
* `AnnounceRefused` and `UpdateRefused` are empty in the runs: the callbacks of the facade, the only ones the repository has,
  return true (`ntsubscriber.cpp:38-79`). For callbacks that refuse, `ReplicaCurrent` and `MetaTopicsExist` say what they
  except; `ClientsCurrent` is proved for them, the meta-topics are not.
* Names as sequences of pieces have the prefixes of characters as long as no piece subscribed to as a
  prefix is a proper beginning of another: the empty name is none, `$clients` (of `$clientsub`) is one, and the runs subscribe to it exactly.
* `Room` of 2 bytes and messages of 1, 2 and 5: every branch on `bytesLeft`; `FramesImplementMessages` is proved for every size.
  Two locked tasks contend for the mutex, a third needs none: a message mixes with one other. What is read out of step is one frame of any kind for each
  that was written; it does not matter to the properties, which end there.
* Facade: one name, since handles of different names meet only in ids (`facade_ids`); two subscribers, so
  that a queue holds one that is told and one that is not; one uid to publish with on either side, for the publisher or the entry.
  `uint` and `bool`: a type that is sent as another, and the one that is not and that a publisher has whose publish was in vain.
* Dispatch queue: four calls, so that a task may leave some behind and find more on its next start; two
  tasks, one more than is claimed to run.
* DHCP: with two slots the first is offered or the second, and three hosts leave one without; a lease of 3 rounded to 4 ends 3 to 6
  ticks after it was granted, well within the half range of 8, and no step bounds the clock, which goes round for ever. Hosts are symmetric.
* `AppCloses` 1 and 2: a second `close()` takes another path, a third repeats the second.
* The clients of `nt_clients` are symmetric: names carry the base, which is equal, and a number;
  no liveness property is checked there.
* `CHECK_DEADLOCK FALSE` in the `NTSession` runs: a connection is used once, so when all are
  over, or the mutex is lost and no timeout allowed, nothing is left to do. In the `NTFacade` runs: uids are
  used once, and after a null entry or a call of a destroyed subscriber no action is enabled.

### Fairness

Three properties need it. `EveryCallMade`: weak fairness of each task in `joinDispatchQueue`, under the
condition that from some time on the server listens and the queue runs; the application and the interrupts need
do nothing. `EveryMessageSettled`: weak fairness of each sending task and of the receiving
one, since FreeRTOS runs ready tasks and the wait for `sendMutex` is bounded; pings may never come.
`DroppedConnectionEnds`: weak fairness of each connection's task (FreeRTOS runs
ready tasks, a bounded wait for the mutex ends one way or the other), and of the application
inside a handler or a `close()` it has begun (`AppGive`, `AppCallbackDone`, `AppCloseSent`). Nothing is asked of peers, of
new frames (`ReceiveData` is not in `TaskStep`), nor of the application's calls. Weak fairness is enough:
a task that waits for the mutex may either take it or, when it is taken, give up, so some step of the
task is enabled as long as it waits.

## 4. The proofs

**`NTSession_proofs`**, for every set of connections, capacity and behaviour of peers and
application. `Inv` is the type invariant,
`HandlersExclusive` and `ListedExactly`, which are inductive together, and three parts that say
stage by stage how a connection comes to its end: `Reported(c)` (a task past its loop was reported or
is graceful), and for a well-behaved connection `Once(c)` (`told[c]` at each stage: a close frame
on its way is the answer to the only one the application asked for, and it is `graceful` just when that answer
was reported or overtook the application's task) and, when none of its handlers gave up, `Clean(c)` (from which stage to which it has a
`ClientData` unless it was overtaken, and that it holds the mutex only inside a handler). `AbnormalEndReported`, `ToldOnce`,
`NoGhostClient` and `MutexGivenBack` speak of the end alone and are not inductive without them. One
lemma per conjunct and one proof step per action; from `Invariance` follow `TypeCorrect`, `MutualExclusion`, `Listing`, `EndsReported`, `ReportedOnce`, `NoGhost`, `GivenBack`.

**`NTServer_lemmas`**, about what handlers are composed of. `InOrder` is a permutation of its set: `Position`
maps a finite set of names one to one onto `1..Cardinality`. `Told(cl)` and `Final(cl)` are what the peer of `cl`
will have been told and sent when both caches are empty; appending to a cache changes them by the messages
appended, whether it overflows on the way or not (`PushTextProperties`, `PushBinaryProperties`, `ReadBinary`), so no later proof mentions `Overflow`.

**`NTServer_proofs`**, for every set of clients, names, subscriptions, values, cache sizes and map order.
None of the invariants is inductive alone. `Inv` adds that the ids of a remote client lie below its `nextId`
(otherwise the next one might be in use), that what it will have been told is exactly the announcements of its ids,
and, for values, that `Final` has the value of every topic whose `initialPublish` is set: the copy as it is *now* may be
stale while a newer value waits in the cache. Handlers are compositions of operators, and the
proof follows them. `Quiet(cl, r, N)` says of an operator on one `ClientData` that it gives new ids to topics of `N` at most,
below `nextId`, and changes no value, `QuietTold` that it announces each; `Leads(s, t)` says of an operator on the state
that it leads from a good state to a good one in which clients that stay kept their ids and their copies are current.
`Leads` is transitive, and there is one lemma for each operator and each handler. Assigning a value and
sending it are the one place where copies are stale in between: `SendToCurrent` says that sending makes up for
what assigning did, for each client and for the application, whose copy is current only if no two of its
topics share an id (`AppCurrent`). The application may refuse announcements and updates: a publication that ends early is fewer of the same
operators, and what a client of `Later` misses is what `Overlooked` excepts. The results are `IdsOfClientsDistinct`, `IdsOfClientsStable`, `AnnouncementsArrive`,
`ClientsCurrent`, `ApplicationCurrent`, and, since the end of a frame is the flush that leaves nothing in
the caches, `FramesServed`, under `~MayTimeOut`: a frame whose handler gives up is not served.

**`NTServer_meta_proofs`**, as general, except that the application refuses no announcement (`AnnounceRefused = {}`, a hypothesis of each
theorem): after one that is refused an ordinary topic is there without its meta-topics, and the assertions on them do fail. A topic is `Truthful` if its value is the one its update function would give it now.
The invariant `Whole(s, {}, {}, {})` says that every topic is truthful, every topic the server needs is there, and
every client has an id for each cached topic it subscribes to. No handler keeps it at each of its calls: `Subscribe`
first changes the client's list, so that its `$clientsub$` topic and `$sub$` of the topics that match are stale,
then refreshes one after the other. `Whole(s, B, H, C)` therefore excepts the topics `B` that are stale, `H` that are missing and
the clients `C` that are owed announcements; each operator removes what it refreshes, publishes or announces, and each handler
ends with all three empty. `Carries(s, t)` is what all of them keep: names, declarations, types. `NamesStayDistinct` needs neither truth nor presence of topics, but that
`nextClientWithName` takes a number above all in use. The others hold until a
null pointer is left in a map (`NoNullEntry`); no step follows a state with one, and `NullOnlyFromUnknownNames` says that there is
never one if no uid or topic is named that was not declared (`~UnknownNames`). `SubscribersHear` also needs `TRUE \notin CachedUpdates`, as a topic that becomes cached
is not announced to earlier subscribers. `TypeCorrect` is `TypeOK`. That a topic holds a value of the kind its name tells needs `Fits`, a part of `Whole`,
for stale topics too, whose last value is still of that kind. `MetasAreThere` is why no assertion fails. A null pointer is left where the
handler stops, with topics stale and announcements owed; `Loose` is what the types need of such a state, and all that is proved of it.

**`DispatchQueue_proofs`**, for every set of calls and tasks, if the queue is not started while it runs
(`~RestartsEarly`). `MadeOnceInOrder` alone does not say that a popped call has been made. The invariant adds
that the flag is set as long as a task is there, that the queue is a suffix of `called` and `made` a prefix, one ahead of
what has left the queue while a call is between being made and popped (`Ahead`), and that every call
was queued once, so that popping one frees nobody else's bytes. One lemma per action; from `Invariance` follow
`TypeCorrect`, `OneTaskAtATime`, `MadeInOrder`, `PayloadsKept`.

**`DhcpServer_proofs`**, for every number of hosts and slots and every clock, rounding and lease time with
`LeaseTime + Coarse <= Half`: a day and 65.5 s against 24.8 days in the code. `Until(i)` is how far the end in the table is
ahead of the clock, going round. `HolderListed`: a host that may use an address is the one in the table and its time is at most
`Until(i)`, which is below `Half`, so the lease has not run out. `EndApproached`: as long as the last grant is less
than `Half` ago, `Until(i)` and the time since add up, going round, to a lease time and less than one rounding.
`NotShared` and `OfferUnused` follow from the first, `IgnoredRightly` from the second.

**`NTFacade_proofs`**, for every set of handles, names, ids and functions that give up. `DanglesOnlyUnassigned` speaks of a subscriber
after it was destroyed; the invariant says what holds before: a subscriber is only in the announce queue of its own name, and
only as long as its topic is not assigned, so one whose topic is assigned is in no queue for its destructor to leave behind.
That gives `DestroyedUnassigned`. The other theorems are about what a handle knows of its topic, and rest on what each
handler of `NTServer` leaves of the application's `ClientData`. `Spares(s, t)` says of an operator that it takes no
topic, type, id or subscription from the application; `Onward` of a step, that a value it
changes is sent to the application if it wants it; `Adds`, `Listens` and `Forgets` say what the application's own calls change. The invariant is then about each live
subscriber: it subscribes to its name (`Subscribed`), waits in the queue if it has no id (`StillWaiting`) and if it has, it has the one
the application was given and the type of the topic (`AssignedRight`), and it has one if the topic is cached (`CachedAssigned`); the value it reads was
sent under that id or the topic has its default (`ValueSent`). With `AppReplicaCurrent`, proved above,
that gives `SubscribersCurrent`, until a null pointer is left and if ids are not shared; `GettersAgree` is why one getter reads what `get` does. `SubscribersAssigned` has the
hypothesis of `SubscribersHear`. `AcceptedStored` needs that a live publisher has the type its topic has, for good, or Bool if its publish was in vain (`PublisherTopics`), `FacadeTyped` the parts about types.

**`WsFrames_proofs`**, for any tasks, locked or not, messages, packet size, timeouts and short reads.
`NoUseAfterFree` is about the end that reads and depends on what is still on the wire. `Open(w, gone, k)` says
that a payload is held once the first `k` frames of `w` have been read: the last to begin a message was followed by none that
ends one, or there was one held and nothing has ended it. Every continuation on the wire is open where it stands, and
the wire's end is open for as long as a task is in the middle of a message; at most one task is, for
as long as nothing has mixed. All of this is claimed while the connection is `Intact`, which never comes back (`IntactEnds`). `AppendOpen` and `TailOpen` say what writing and reading a frame do to `Open`; each action cites one of
`WriteInv` and `ReadInv`. The result is `ContinuationsSafe`.

For the refinement, `Story` says that the frames on the wire can be read one after the other, from what is held to what the task that writes
has begun: there are readings (a message and how many of its bytes are held) from one to the next of which each
frame leads (`Reads`). They are under an existential quantifier, so that a step need only
exhibit the next ones: a frame that is written appends one, a frame that is read takes the first away. `Order` says where each
message is: what was sent is delivered, failed or ended by a frame on the wire (`Brings`), in its sender's order, and what was not
sent is none of these. The last frame of a message delivers its own bytes, or, from the third fragment on, as many of the same message (`Carries`).
`FramesImplementMessages` is the initial condition and one step lemma per action, each a step of `WsMessages` or a stutter;
the step that ends `Intact` is `Break`, whose guard it meets (`MeetsAsTold`), and what comes after is `Broken`. `LockedStaysIntact` says that
nothing ends it if every task is locked and headers are read whole: the two theorems then hold unconditionally.

**Assumptions**: the named assumptions of the modules (`NTServerAssumption`, `NTSessionAssumption`, `NTFacadeAssumption`,
`WsFramesAssumption`, `DispatchQueueAssumption`, `DhcpServerAssumption`), evaluated by every run of theirs. Those that are not of
the kind "a positive number" or "a finite set": the topics of applications have names that do not begin with `$`, written as sequences
of strings (`$` is the server's, as in the NT4 protocol); `Rank` orders the names; `Null`, which stands for a null pointer or no id, is no
number and no subscription; the application behind the facade refuses nothing, as its callbacks do (`NTFacadeAssumption` only); there is a datum to publish; what a subscriber of the facade asks for, its own topic, is among the
subscriptions; an entry is one of the subscribers; if its `subscribe` or `publish` may give up, uids are named that were never declared.

**Only model-checked**: `DroppedConnectionEnds`, `EveryMessageSettled` and `EveryCallMade`, as liveness under fairness is beyond
the prover; and the counterexamples of section 3.

## 5. Not modelled

* The client mode of NetworkTables: its handlers are empty branches in the code.
* `stop()` and a second `startServer`: `server` is deleted under the tasks of its connections.
* Torn accesses to `WsServer::clients` and the use of a `WebSocket` freed by another task: undefined
  behaviour with no useful set of outcomes; each access is atomic in the model.
* Persistent and retained properties, `publisherCount`, timestamps: nothing reads them.
* What follows undefined behaviour or a failed assertion: a null entry in a map (`ntinstance.cpp:1056`, `1946`), a call of a destroyed subscriber
  (`ntsubscriber.cpp:44`). The models stop there. So destructors of handles that were closed before, which unpublish a uid that is
  gone (`ntpublisher.cpp:67`), are left out.
* The capacity of the server as a promise: `NTSession` has the check of `wsserver.cpp:185` and its gap, no property claims the limit.
* DHCP options and the checks before the table is looked at; hosts that use an address never granted to them.
* Parsing and printing (HTTP request, JSON, MessagePack, GUIDs, SHA-1), sockets, radio start-up.

## 6. Plan

1. An abstract specification of the NT server, a table of topics and for each client the set it was
   told, implemented by `NTServer` under a refinement mapping; its refinement as a theorem, on the frame of `Leads`.
2. `WsFrames`: the masking client, the payload of pings, the frames of a peer of another make.
3. The composition of `DispatchQueue` with `NTSession`: `disconnectClient` of a client that is gone by the time it is made.
