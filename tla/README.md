# A formal model of CuteIPC

CuteIPC lets Qt programs call each other's methods and connect to each other's
signals over local or TCP sockets. This directory holds TLA+ modules that model
its core, the TLC configurations that check them, and TLAPS proofs.
`PROJECT.json` says which lines of the source every definition translates.
Paths below are relative to the repository; `Service.cpp` stands for
`src/CuteIPCService.cpp`, and so on.

To run: `tlc -config X.cfg M` for a run, `tlapm M_proofs.tla` for the proofs (some
ten minutes for `Delivery_proofs`).

## The system

| Component | State | Operations |
|---|---|---|
| `CuteIPCService` | `m_signalHandlers` (signature -> handler), `m_longLivedConnections` (id -> connection), `m_subject`, the two servers | listen, listenTcp, close, new connection; requests from connections (subscribe, unsubscribe, initialize); deletion of a connection or handler |
| `CuteIPCServiceConnection` | socket, `m_nextBlockSize`, `m_block`, subject | readyRead, processMessage (invoke, respond, pass requests on), sendSignal, sendAboutToQuit, socket errors |
| `CuteIPCSignalHandler` | `m_listeners` (a list, with duplicates), its Qt connections | relaySlot, addListener, removeListener, listenerDestroyed |
| `CuteIPCInterface` | `m_connections` (signal -> receivers), `m_localSignalHandlers`, server address, last error | connectToServer, disconnectFromServer, remoteConnect, disconnectSignal, remoteSlotConnect, disconnectSlot, call, callNoReply |
| `CuteIPCInterfaceWorker` (its own thread) | `m_socket`, `m_connection` | connectToServer, connectToTcpServer, disconnectFromServer, sendCallRequest, connectionId |
| `CuteIPCInterfaceConnection` | socket, `m_nextBlockSize`, `m_block`, `m_lastCallSuccessful` | sendCallRequest, readyRead (response, error, signal, about to close) |
| `CuteIPCMarshaller`, `CuteIPCMessage` | none | conversion between messages and bytes |

How they interact:

* A client has one *long-lived* socket, owned by the worker thread, over which
  it sends asynchronous calls and receives signals. It tells the service an id
  for it. Every synchronous request (`call`, and the requests behind
  `remoteConnect` and `disconnectSignal`) opens a *socket of its own* and names
  the long-lived connection by its id. Requests of one client are therefore not
  ordered among each other.
* Blocking calls block in a *nested event loop*. The application's timers and
  slots run in it and may call again; nested calls return in reverse order. The
  worker waits for the answer to its id in a nested loop, and a remotely invoked
  method may run one.
* Objects die by `deleteLater`, at some later turn of an event loop; until then
  they are doomed, and still receive signals.
* The service and its handlers point at connections by plain pointers and rely
  on `destroyed` signals to forget them.

What is hard here, then, is nesting, requests that overtake each other, objects
between their end and their deletion, the client's idea of what the server knows,
and the end of a connection at any moment. There is no persistence and nothing
is retried. The full list of hazards, each at its line, is in `PROJECT.json`.

What makes each component correct:

* *Service and handlers*: no pointer to a deleted connection; a request never
  joins a doomed handler; a handler lives exactly as long as somebody listens;
  one client's requests never touch another's subscriptions.
* *Service, listening*: it is found where it was told to listen, also where another
  was killed before, and nowhere else; once closed it is not found.
* *Interface, remote signals*: a signal reaches every receiver connected when it was
  emitted, in order, and no object that is gone; it is sent no oftener than was asked
  for; both ends agree on who is subscribed; the id leads to the
  client's own connection; blocking calls return.
* *Interface, local signals*: an emission is relayed at most once to each remote
  method; what is connected can be disconnected, and nothing else is.
* *Worker*: no use of a deleted socket or connection; connectToServer returns
  what its own attempt found, and only when the id is known; both calls return.
* *Synchronous calls*: true means invoked and false means not; every call
  returns, and one that nothing answers holds up no others but those beneath it; a method's connection outlives the method.
* *Connections*: messages are processed whole, once, in order and in the end.
* *Marshaller*: arguments and results arrive as what they are; a call does what
  `invokeMethod` would.

## Modules

| Module | Models | Composes |
|---|---|---|
| `Subscriptions` | abstract: a set of subscriptions (connection, signal) | |
| `SignalService` | the service's registry, its handlers, deletions | implements `Subscriptions` |
| `RemoteSignals` | the client's remote-signal operations, requests in flight | `SignalService` |
| `Delivery` | signals from the emission to the receivers, over sockets and event queues | `RemoteSignals` |
| `Serving` | services that listen, close, end and are killed; subjects; the addresses clients remember | |
| `FrameChannel` | abstract: a channel that delivers every message once, in order | |
| `Framing` | `readyRead`/`readMessageFromSocket` of both connection classes, byte by byte | implements `FrameChannel` |
| `InterfaceWorker` | the application's thread, the worker's thread and the long-lived socket | |
| `SyncCall` | synchronous requests between programs that are clients and services | |
| `Links` | abstract: a set of links from a local signal to a remote method | |
| `LocalSignals` | `remoteSlotConnect`, `remoteConnect` of a local signal, `disconnectSlot`, `disconnectRemoteMethod`, the client's handlers | implements `Links` |
| `Marshalling` | one call's arguments and result through `CuteIPCMarshaller` | |
| `SignalService_proofs`, `RemoteSignals_proofs`, `Delivery_proofs`, `Serving_proofs`, `InterfaceWorker_proofs`, `SyncCall_proofs`, `LocalSignals_proofs`, `Wire_proofs` (`Framing` and `Marshalling`) | theorems and proofs | |
| `MC...` | constants and symmetries for TLC | |

**SignalService.** `connState` is the life of every connection object (none,
open, closed with its deletion pending), `longLived` is
`m_longLivedConnections`, `registered` is `m_signalHandlers`. A handler is
"live", or "doomed" once it has emitted `destroyed(QString)`; `listeners` is its
list as a bag, and `wired` counts the connections of `signalCaptured` to each
`sendSignal`, which `removeListener` leaves in place. The actions are the service's
slots. Deletions are actions of their own, which happen when they happen; under
`PromptSpec` they happen before anything else does. Each request is one action,
since its handlers call each other directly. Nothing here depends on what the
clients do: every request may come at any time.

**RemoteSignals.** Every client has `connections` (`m_connections` as bags),
`conn` and `myId` (its long-lived connection and what `connectionId()` returns),
and `ops`, the stack of its blocked operations, each with its request and reply.
An operation's call is one action, up to its `loop.exec()`; `Return` is what
follows. The server handles any waiting request in any order. A client's
reconnection may reuse the address of the old connection object and so its id; one
that connects again without disconnecting has its pointers overwritten, and keeps the
old sockets (`overwritten`). The constant `Uses` says what applications do;
`MaxNested = 1` makes them wait for every call. The server is always reachable.

**Delivery.** `wire` is what lies in every long-lived socket, `events` what is posted to
every application's thread: signals the worker has read, and invocations that
`_q_invokeRemoteSignal` posts for the entries of `m_connections` it finds. Emissions are
numbered and have no arguments. The subject's emission is one action, since
`relaySlot` and `sendSignal` are called directly; everything of `RemoteSignals` may happen
between the stations. `owed`, `granted` and `last` are history: what receivers connected
at an emission are still to get, the requests granted to a connection, and
the last emission a receiver was invoked for. Qt drops invocations posted to
an object that is destroyed; here they stay, addressed to nobody. A receiver is an
object at an address: the next one may be there.

**Serving.** `m_localServer` and `m_tcpServer` are null, idle or an address;
`owner` is the server an address leads to. What Qt does is modelled
thus: a local name is a file, which stays when its program is killed, and which
`removeServer` and the closing of any server of that name delete; `listen` fails on a server that
listens already or at an address that is taken; closing drops sockets not handed out yet.
`link` is a client's long-lived connection with the subject it was given when
it was handed out, if it was. Programs do as they like: services listen again, at both
kinds of address and with other subjects, clients connect to whatever there is. History
tells the cases apart in which the code does not keep its promises: `asked` is where a
service should be found, which is not at a name it has been told twice; `replaced` says
that it has had another subject, `failed` that a client's last attempt was in vain. Only
that a service is told to listen at the name of another one that is alive is left to a
constant, `Contested`; see the table below.

**Framing.** Bytes are positions in the stream. `Arrive` delivers any number of
bytes, also while a message is processed, since a method may run an event loop;
then no `readyRead` follows. What four bytes that are no header would spell is
any of `Garbage`. `Fetch` is one call of `readMessageFromSocket` after the header.

**InterfaceWorker.** `calls` is the application's stack of blocked calls, each
with its `connected` variable; `queue` holds the events posted to the worker's
thread, among them deferred deletions; `waits` is the worker's stack of event
loops that wait for the answer to an id. Sockets are numbered, and `m_socket` and
`m_connection` are operators: QPointers to the last one. What Qt does is modelled
thus: posted events are handled in order; a deferred deletion is carried out by
the loop that was running when it was posted, or one further out; a loop told to
quit by a socket's event ends at once, one told to by a posted event ends after
the other events posted so far; a write that fails closes the socket and emits
`disconnected` within the call. After a use of a deleted object the model goes
on as if nothing had happened; the properties speak of the moment before. `Faults`
says what goes wrong, `Overlap` what is called while another call
blocks.

**SyncCall.** Every program is client and service in one thread, with one
`stack` of calls and methods under way. A method is plain, runs an event
loop, or has a result that cannot be marshalled ("mute"); any may call. A message of size
0, request or response, is read and nothing comes of it. `BeginDestroy` to `EndDestroy` is `~CuteIPCService`, with
its event loop of a tenth of a second, which ends at any time; `Kill` ends a
program anywhere. Socket data is not lost when a socket is closed. A service
is deleted by its program, not by a method invoked through it. The properties are
conditional where the code is: `AnswerIsTrue` speaks of a service that is still
there, and `CallReturns` of calls that are not held up. `HeldUp` is the least set of calls
with those that nothing answers (`Lost`: an empty request or response whose service
stays, a write that failed) and those beneath them on a stack. So a lost call
excuses itself and those that wait for it, as long as it is lost; every other call has to return.

**LocalSignals.** `entries` is `m_localSignalHandlers`, `wired` the Qt connections from
objects' signals to `relaySlot`, `existing` the handlers with their `m_signature`.
`ops` are the calls that wait for the server's answer; `Return` is what
follows in `handleLocalSignalRequest`. Objects and handlers are addresses, used again.
An object whose call is waiting is not destroyed. Handlers of destroyed objects
leave `entries` and stay in `existing`: the code deletes them with the interface (`Interface.cpp:255`).

**Marshalling.** A stream is a sequence of items, one for each `<<` and its `>>`; so
what is read depends on what the reader takes it for, as in the code. Three
steps follow one call: `Request`, `ProcessMessage` (with what
`QMetaObject::invokeMethod` does), `ReadResponse`. Types are those that
either side has registered, and those with stream operators. `QList<QImage>` stands
for the four containers. The names of its specification (`CallSpec`, `CallTypeOK`) leave
room for those of `Framing`, with which it shares the module of proofs.

## Runs

| Run | Question | Bounds |
|---|---|---|
| `registry` | Is the registry free of dangling pointers, doomed and idle handlers, and is it a set of subscriptions? | 2 connections, 2 ids, 2 signals, 3 handlers |
| `delivery` | Do signals reach those who are connected, in order, and nobody too often? | 2 clients that connect once, one of which also unsubscribes, disconnects and destroys receivers; 2 receivers, 2 emissions; 4 and 2 calls, one at a time |
| `remote_signals_pairs` | Do both ends agree when calls come in pairs, and can every handler in service be found? | 2 clients, 2 signals, disconnections, prompt deletions |
| `remote_signals_return` | Does the id lead home after reconnections, and do blocking calls return? | 2 clients, 3 connections, nested three deep, addresses reused, connecting twice |
| `serving` | Is a service found where it was told to listen, and does a client deal with one service and subject? | 2 services, 2 names, 2 ports, 2 subjects, all ends and returns; 1 client, as clients share nothing here |
| `framing` | Are messages processed whole, once, in order, in the end? | 4 messages of 1 to 3 bytes, every fragmentation |
| `worker` | Does the worker use deleted objects, and does connectToServer return? | one call at a time, 4 calls, 2 sends, 2 sockets, server may leave |
| `worker_overlap` | Does the caller wait for its own attempt, and does true mean registered? | sends and disconnections during other calls, server may leave, writes may fail |
| `sync_call` | Are answers true, do connections last and do calls return? | 2 programs, 2 calls of methods that run loops, cannot answer or do not exist, and of empty requests; services deleted, programs killed, writes that fail |
| `local_signals` | Are handlers a set of links, and relayed once each? | 2 objects, 2 signals, 2 methods, 3 handlers, 3 connecting calls, 2 at once |
| `marshalling` | Do arguments and results arrive, and does a call do what `invokeMethod` would? | 6 overloads, 6 types, up to 2 arguments, 2 images |

These pass. The bounds are enough for what the properties tell apart: two
clients for interference; three handlers for a doomed one, its successor and
another signal's; an object and its successor (two sockets, two ids); three
nested operations for one between two others; two calls for one made from within
the other, back to its caller; two emissions for an order; four calls for a receiver
that is connected, lost and connected again; two services for one that follows another at its address, or is
elsewhere when it comes back; four messages for a piece of one, whole ones and a
piece of the next in one read.

One run checks a statement of the repository, quoted in `PROJECT.json` under
"findings", and fails: in `sync_call_gone`, `call` returns true when the service
goes away before invoking the method (`InterfaceConnection.cpp:51`).

Properties that pass do so under restrictions on what applications do and on what
goes wrong, which a configuration states. They are needed; this is what happens without:

| Configuration | Change | Fails | Why |
|---|---|---|---|
| `SignalService` | check `LiveHandlerRegistered` | `LiveHandlerRegistered` | a doomed handler still wired to a connection emits `destroyed(m_signature)` again when that is deleted, and the service removes its successor |
| `Delivery` | `MaxNested = 2` | `OwedOnTheWay` | a `disconnectSignal` inside a waiting `remoteConnect` undoes its subscription (`Interface.cpp:451-454`) |
| `Delivery` | `MaxConnects = 2`, 3 connections | `OwedOnTheWay` | neither end of a connection clears `m_connections`: after a reconnection `remoteConnect` returns true without asking the server (`Interface.cpp:450`) |
| `Delivery` | "destroyWaiting" in `Uses` | `NoDeadReceiver` | a receiver destroyed while its `remoteConnect` waits is entered after its end (`Interface.cpp:454`) |
| `Delivery` | at most one copy of an emission in a socket | that | the server is not told of a destroyed receiver (`Interface.cpp:282`), and `removeListener` leaves the Qt connection (`SignalHandler.cpp:91`): the next subscription is one too many |
| `RemoteSignalsReturn` | one address for both clients | `IdIsMine` | two processes with connection objects at the same address share an id (`InterfaceWorker.cpp:145`) |
| `InterfaceWorker` | `Overlap = {"send"}` | `NoDeadSocket` | a request posted during `disconnectFromServer` is written to the deleted socket (`InterfaceWorker.cpp:129`) |
| `InterfaceWorker` | `Faults = {"write"}` | `ConnectReturns` | the server is gone when the id is written, and the loop that then starts is never told to quit (`InterfaceWorker.cpp:60`) |
| `InterfaceWorker` | check `Blocked("disconnect") ~> ~Blocked("disconnect")` | that | `disconnectFromServer` without a socket never returns, and the server's leaving is enough to lose it (`InterfaceWorker.cpp:121`) |
| `InterfaceWorkerOverlap` | `Overlap = {"connect"}` | `CallerWaits` | of two nested `connectToServer` calls the inner one returns an uninitialised variable (`Interface.cpp:350`) |
| `InterfaceWorkerOverlap` | check `ConnectionOutlivesWait` | `ConnectionOutlivesWait` | a request that closes the socket during the worker's wait makes it read through a null `m_connection` (`InterfaceWorker.cpp:63`) |
| `SyncCall` | check `TrueMeansInvoked` | `TrueMeansInvoked` | as `sync_call_gone` |
| `SyncCall` | `ConnectionAwaitsMethod` for killed callers, too | that | the connection of a killed client is deleted in the method's event loop and then used (`ServiceConnection.cpp:157`) |
| `SyncCall` | `Waiting(n) ~> ~Waiting(n)` | that | an argument or a result that cannot be marshalled makes an empty message (`Marshaller.cpp:33`), which is swallowed as a request (`ServiceConnection.cpp:110`) and never finished as a response (`InterfaceConnection.cpp:76`): the call waits until the service goes; a write that fails ends a loop that has not begun (`Interface.cpp:137-140`) |
| `Serving` | `Contested = {n1}` | both | `listen` takes the name away from a service that is alive (`Service.cpp:320`) |
| `Serving` | `asked` keeps a name that is told again | `ListensAsTold` | a second `listen` fails, removes the service's own name and returns false (`Service.cpp:320`), though the subject is replaced: "Previous subject will be replaced" (`Service.cpp:303`) cannot be had in this way |
| `Serving` | no exception for ports | `ListensAsTold` | `close` closes the TCP server only when there is no local one (`Service.cpp:351-354`), though its comment says both (`Service.cpp:345`) |
| `Serving` | without `failed` | `OneCounterpart` | a failed reconnection changes the address (`Interface.cpp:354`) |
| `Serving` | also for a client that has come from a name to a port | `OneCounterpart` | requests prefer the local address, which is not forgotten (`Interface.cpp:118`) |
| `Serving` | without `replaced` | `OneCounterpart` | connections there are keep the old subject (`Service.cpp:102`) |
| `Marshalling` | `"QList<QImage>"` not in `ClientTypes` | `ReturnArrives` | a result of a type the client has not registered is read as a container of images, as both are type 0 (`Marshaller.cpp:127`) |

A client that lacks the type of a result gets true and no value; a server that
lacks the type of an argument drops it and those behind it, and may invoke an overload
without them (`ArgumentsArrive` says so); a type without stream operators loses the
call, also as a result (`LikeInvokeMethod` excludes it).

Three more things the code does are in the models and in no property: after an
unsubscription the handler goes on relaying to the client while another client
listens, because `removeListener` leaves the Qt connection (`SignalHandler.cpp:91`,
`wired` in `SignalService`); an invocation already posted reaches its receiver after
`disconnectSignal`; and a client with two long-lived sockets gets the signals of the
overwritten one, too, in whatever order they come.

**Fairness.** `Framing`: the network delivers and `readyRead` runs to its end.
`RemoteSignals`, `InterfaceWorker`, `SyncCall`: every event loop runs (the
application's, the worker's, the service's), which is what Qt's loops do, and a
wait that is over is returned from when it is innermost; in `SyncCall` methods return
and the teardown's timer fires. Nobody is obliged to make a call. The fair
specifications are used where something must happen. Deadlock is checked in `registry` and
`serving`; elsewhere applications may stop calling, and a call may
hang in the ways the table shows.

## Proofs

For every value of the constants, within `SignalService`:

* `RegistryTyped`, `NoPointerDangles` (`NoDanglingPointers`), `HandlersInUse`
  (`RegisteredHandlerInUse`) and `NoneIdle` (`NoIdleHandler`). They are not
  inductive by themselves. The invariant `RegistryInv` adds that a listener is wired
  (`ListenersAreWired`), that exactly the
  handlers that exist have a signature and an address without one is wired to
  nothing (`HandlersSigned`), that only live handlers list anybody
  (`OnlyLiveHandlersList`), and that whoever is wired exists
  (`WiredConnectionsExist`). There is one lemma per action; the deletion of a
  connection, which walks all handlers, is the largest.
* `RegistryImplementsSubscriptions`: from `RegistryInv`, each action is an action
  of `Subscriptions` or a stutter; one simulation lemma per action. The stutters
  are a connection's closing and a handler's deletion.
* `PromptHandlersRegistered`: under `PromptSpec`, `LiveHandlerRegistered` (whose
  instance in `RemoteSignals` `remote_signals_pairs` checks); the
  strengthening says that no live handler has the signature of a doomed one.

Within `RemoteSignals`, for any number of clients, signals, receivers and calls:

* `ServiceAsSpecified`: every behaviour is one of `SignalService`, so `RegistryInv`
  holds here, too. `LinkInv` says that a client's socket is open at both ends and that a
  `connectToServer` that waits asks for the id of the connection there is.
* `HandlersFound`: `LiveHandlerRegistered` under `PromptSpec`.
* `IdLeadsHome`: `IdIsMine`. The invariant `IdRegistered` is what the property says
  already before the call has returned, from the answer on. The hypothesis
  `DistinctIds`, that the connection objects of two clients never have one address,
  is what the code takes for granted of programs (`InterfaceWorker.cpp:145`).
* `EndsStayAgreed`: `EndsAgree` under the hypothesis `InPairs`, which is what
  `remote_signals_pairs` instantiates: one connection in a client's life, one call at a
  time, and the four operations that connect and disconnect. `PairsInv` says what both
  ends know while a request is under way (`UnsettledAgree`: the client has no receiver,
  and the server lists it exactly when it has said so), that an id not yet registered
  is nobody's and listed nowhere (`Fresh`), that no connection is listed twice
  (`ListedOnce`: one disconnect request removes one entry), and that no connection has
  two ids (`OneIdEach`: another client's requests never touch it). A disconnect request
  finds the entry because of `LiveHandlerRegistered`.
* `ReceiversAreListed`: the half of that on which delivery depends, `HeldAreListed`, without
  prompt deletions and whatever is called, under the hypothesis `OneAtATime` (one
  connection in a client's life, one call at a time, `DistinctIds`): the server lists a
  connected client for every signal it holds a receiver for. The other half does not
  hold then: a destroyed receiver leaves its subscription behind. `HeldInv`
  speaks also of the subscription a waiting `remoteConnect` has been granted,
  and of a waiting `disconnectSignal`, whose signal has no receiver left.
* `ClientsTyped`: type correctness of the clients and the server, for any calls.

Within `LocalSignals`:

* `LocalSignalsTyped`, `EmissionsRelayedOnce` (`RelayedOnce`) and `EntriesAreWired`
  (`EntriesMatchWiring`). The
  invariant `LinksInv` adds that an address holds one handler (`HandlersDistinct`),
  that entries name handlers that exist (`EntriesHaveHandlers`) and that no two
  share one (`OneLinkEach`): without the last, disconnecting one link could take
  another along. The handlers and the waiting calls are treated by separate lemmas.
* `LocalSignalsImplementLinks`: a connecting call asks, its return settles, and a
  disconnection or an object's end takes exactly its links away (`StepLinks`).

Within `Framing`, for every header size, every set of message sizes
and every fragmentation:

* `FramingTyped`, also with empty messages and whatever number is read at a wrong place:
  the header is read before its block and never past what has arrived (`HeaderRead`).
* `ReceiverInStep` and `AtMostAPieceIsLeft` (`NothingLeftBehind`), where no message is
  empty. The invariant
  `FramingInv` says where messages lie in the stream (`StreamInv`: without gap
  or overlap) and where the receiver stands in it (`ReceiverInv`: at the start of the
  next message or as far into it as its block says). `HeaderFound`, that the number
  read as a header is that of the next message, is where absence of overlap
  is needed.
* `FramingInOrder`: likewise, each step is a step of `FrameChannel` or a stutter.

Within `Marshalling`, for any types, values and methods, any number of arguments, and
containers of any size:

* `ArgumentsCross` (`ArgumentsArrive`) and `CallsWorkAsLocally` (`LikeInvokeMethod`), whatever
  types the two sides have registered; `ResultCrosses` (`ReturnArrives`) and `CallTyped`
  (`CallTypeOK`) under the hypothesis `ResultsTold`, that the client knows the type of
  containers, or that of every result (the table shows what happens otherwise).
  The library registers no container; its test does (`TestMessageMarshalling.cpp:15`).
  The invariant `Story` says what each stage has made of the one before: the message that
  was sent, which method was invoked for it with which arguments, the response, the value
  that was stored. Every property follows from it without a further step. It rests on
  `ReadBack`, that an argument in front of the rest of a stream is read as it was written
  and the rest is left; `ArgumentsRead` does it for all of them, up to the first of an unknown type,
  after which nothing more is read. What is written and read of several arguments
  is a recursive function; that each is well defined (`WrittenExists`, `ReadExists`)
  and what it holds at each number is proved by counting up from 0 (`Ascending`).

Within `Delivery`, for any number of clients, receivers, calls and emissions:

* `ReceiversExist`: `NoDeadReceiver` without "destroyWaiting". It needs that a receiver
  whose `remoteConnect` waits exists (`AwaitedExist`), for it is entered when the call returns.
* `SignalsInOrder`: `InOrder`. The invariant `OrderInv` says in which order what is under
  way will get to a receiver (`Ordered`): what it was invoked for last, the
  invocations posted, the signals posted, the socket. A signal posted behind an
  invocation of a later emission would overtake it; there is none, since
  invocations are posted when their signal is at the head of the queue. A new
  connection begins with an empty socket (`ClosedEmpty`) because the server's end of a
  socket a client holds is open (`SocketsOpen`). One lemma per action, on top of lemmas
  about one queue.
* `DeliveryImplementsRemoteSignals`: every behaviour is one of `RemoteSignals`, for which
  the queues and the history are nothing; what is proved of the clients and the registry
  holds here. `DeliveryTyped`: type correctness.
* `SignalsSentOnce`: `OncePerRequest`, without any hypothesis. The invariant `CopiesGranted`
  bounds the Qt connections of all live and doomed handlers of a signal to one connection by
  the requests that connection was granted. A request grants one and makes at most one
  Qt connection; removals and deletions make none. So no emission, by whichever handlers, is sent
  more often.
* `NoSignalIsLost`: `OwedOnTheWay`, under `OneAtATime` (in `RemoteSignals` above). What is owed lies in one of the queues
  of its client (`OwedWay`), and only to a receiver that is still held (`OwedHeld`), so that it
  finds an entry when it leaves the socket's queue; at the emission it gets into the
  socket by `ReceiversAreListed`, as whoever is listed is wired. `OneOwner` says that no two clients share a socket: what one reads is not
  another's. The hypothesis is needed: the table shows what nested calls and second
  connections do.

Within `Serving`, for any number of services, addresses, subjects and clients:

* `ServingTyped`, whatever programs do.
* `ServicesListenAsTold`: `ListensAsTold` under the hypothesis `Contested = {}`, that nobody
  is told to listen at the name of a service that is alive; services listen as often, at
  as many kinds of address and with as many subjects as they are told. `ServersInv` says
  that one service at most listens at a name (`NamesHeld`), that a port leads to the
  server that listens there and to no other (`PortsHeld`), that a service listens and
  leads wherever it should be found (`AskedOwn`), and that it is found nowhere else
  (`OwnersAsked`). `PortsHeld` is why `listenTcp` needs no second attempt; names have no such
  invariant, since a killed service's name leads to it still, and that is why `listen` does.
* `ClientsMeetOneCounterpart`: `OneCounterpart` under the same hypothesis. A connection
  came from the address of its kind that the client was told last, unless its last attempt failed
  (`LinksRemembered`), and has its service's subject, unless that was replaced
  (`LinksServed`); that the address leads to that service is `ServersInv`.

Within `InterfaceWorker`, for any number of calls, sockets and nested loops, and all
`Faults`:

* `WorkerTyped`, whatever overlaps: a deletion is left to a loop that exists because every
  wait has a socket of its own.
* `CallersWait` and `ConnectedIsRegistered`: `CallerWaits` and `RegisteredOnReturn`, when
  "connect" is not in `Overlap`. `OneAttempt` says that there is one attempt at a time, an
  event or a wait, and that it belongs to the outermost call, which has not been told
  anything: that call cannot return, and whatever else is called returns before it.
  `Confirmed` says that an id is the first message on its socket, so that no answer
  of any kind comes before it is registered, and that whatever ends a wait but an
  answer means that the socket is lost.
* `RequestsReachSockets` and `ConnectionsOutliveWaits`: `NoDeadSocket` and
  `ConnectionOutlivesWait`, when `Overlap` is empty.
  `Orderly` adds that the call's own event is followed by deletions only (`InOrder`),
  that nothing but deletions is left during a wait (`Waiting`), and that a connection whose
  socket is gone has its deletion in the queue before any request (`DeletedIsNext`,
  with `ClosedIsDoomed` for the socket that was lost before it is deleted).

Within `SyncCall`, for any programs, kinds, faults and number of calls:

* `SyncCallTyped`, `AnswersAreTrue` (`AnswerIsTrue`) and `ConnectionsAwaitMethods`
  (`ConnectionAwaitsMethod`). The
  invariant follows a call through its stages: one that is not made has left no trace
  (`Unmade`); one that is under way is on its caller's stack once it waits, and what the
  service has read, answered and run agrees (`UnderWay`); a method on a stack was
  invoked through a connection that is there and is not answered (`Methods`). A
  service closes with its teardown on the stack and no method below it
  (`Teardowns`): without that, a method could outlive its connection.

The assumptions are the named ones on the constants. `0 \notin Sizes` in `Framing`, `OneAtATime`,
`InPairs`, `DistinctIds`, `ResultsTold` and
what is said of `Uses`, `Contested` and `Overlap` are hypotheses, not assumptions: with them dropped the
properties fail as the table shows; an empty message is what `SyncCall` calls
"empty". The configurations of the runs satisfy each of them.

With this every invariant that a run checks is a theorem. Only model-checked are the
liveness properties (`AllProcessed`, `CallsReturn`, `CallReturns`, `ConnectReturns`, `DisconnectReturns`): the prover handles neither ENABLED
nor liveness under fairness.

## Not modelled

* The meta-object of `CuteIPCSignalHandler` (hand-written, sequential: a switch).
* The pixels of an image and the release of memory in `CuteIPCMarshaller`.
* The arguments of signals: `relaySlot` marshals them as calls are, in
  `Marshalling`, but without the limit of ten.
* Socket errors other than the end of a connection: Qt decides which come.
* The destruction of a `CuteIPCInterface`: its thread quits and what was posted is lost;
  nothing is left to state a property of.
* The race on the worker's `m_connection`, which `connectionId()` reads from the
  application's thread: the models read it in one step.
* Error texts, getters, tests, examples and build files. (`tcpPort` returns -1 as an unsigned
  16-bit number, 65535, when nothing listens: `Service.cpp:270`.)

## Plan

1. `SignalService` with `Subscriptions`; proofs. Done.
2. `RemoteSignals` on top of it; proofs. Done.
3. `Framing` with `FrameChannel`; proofs. Done.
4. `InterfaceWorker` and `SyncCall`; proofs. Done.
5. `LocalSignals` with `Links`, and proofs; `Marshalling`; proofs. Done.
6. `Serving`: listening, closing, subjects, the choice between addresses; proofs. Done.
7. `Delivery` on top of `RemoteSignals`; proofs. Done.
