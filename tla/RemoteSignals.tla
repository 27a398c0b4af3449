--------------------------- MODULE RemoteSignals ---------------------------
(***************************************************************************)
(* Remote signals end to end: the bookkeeping of CuteIPCInterface on the   *)
(* client side, the requests it has in flight, and the registry of         *)
(* SignalService at the other end.                                         *)
(*                                                                         *)
(* A request blocks its caller in a nested event loop, over a socket of    *)
(* its own, so requests of one client are not ordered at the server, and   *)
(* application code that runs in the nested loop may start another         *)
(* blocking operation before the first returns: a client has a stack of    *)
(* operations, and only the innermost can return.                          *)
(*                                                                         *)
(* The server is reachable throughout; the sockets of the requests are not *)
(* in Conns, since nothing of them is ever listed.                         *)
(***************************************************************************)
EXTENDS Naturals, Sequences, FiniteSets, FiniteSetsExt, SequencesExt

CONSTANTS
    Conns, Handlers, Ids, Signatures, Exposed, \* as in SignalService
    NoConn, NoHandler, NoSignature, MaxWired,
    Clients,     \* CuteIPCInterface objects
    Receivers,   \* the local objects (with a slot) signals are connected to
    NoReceiver,  \* the receiver of an operation that has none
    IdsOf,       \* addresses at which a client's m_connection may be allocated
    NullId,      \* the id of a null m_connection: "0"
    Uses,        \* the operations each application uses
    MaxCalls,    \* bound: calls each application makes
    MaxConnects, \* bound: of them to connectToServer
    MaxNested    \* bound: operations blocked at once in one client

Operations == {"connectToServer", "connectAgain", "disconnectFromServer", "remoteConnect",
               "remoteConnectToSignal", "disconnectSignal", "destroyReceiver",
               "destroyWaiting"}

\* What SignalService assumes.
ASSUME ServiceAssumption ==
    /\ Exposed \subseteq Signatures
    /\ NoConn \notin Conns /\ NoHandler \notin Handlers /\ NoSignature \notin Signatures
    /\ MaxWired \in Nat
ASSUME UsesAssumption == Uses \in [Clients -> SUBSET Operations]
ASSUME IdsAssumption == /\ IdsOf \in [Clients -> SUBSET Ids]
                        /\ NullId \notin Ids
ASSUME BoundsAssumption == /\ MaxCalls \in [Clients -> Nat]
                           /\ MaxConnects \in Nat /\ MaxNested \in Nat

VARIABLES
    connState, longLived, registered, handlerState, signature, listeners, wired,
    conn,        \* the server's end of each client's long-lived connection
    myId,        \* what m_worker->connectionId() returns
    overwritten, \* both, of the connections m_socket and m_connection pointed
                 \* to before, whose sockets are still open
    serverKnown, \* m_localServer or m_tcpAddress is set
    connections, \* m_connections: signal -> receivers, as a multiset
    ops,         \* the blocked operations, innermost last
    calls,       \* how many calls each application has made (bound)
    connects     \* how many of them to connectToServer (bound)

serviceVars == <<connState, longLived, registered, handlerState, signature, listeners, wired>>
linkVars == <<conn, myId, overwritten>>
vars == <<serviceVars, linkVars, serverKnown, connections, ops, calls, connects>>

Service == INSTANCE SignalService

BlockingKinds == {"connectToServer", "remoteConnect", "remoteConnectToSignal",
                  "disconnectSignal"}

Request == [kind : BlockingKinds,
            sig : Signatures \cup {NoSignature},
            rcv : Receivers \cup {NoReceiver},
            id : Ids \cup {NullId},
            reply : {"none", "ok", "error"}]

TypeOK ==
    /\ Service!TypeOK
    /\ conn \in [Clients -> Conns \cup {NoConn}]
    /\ myId \in [Clients -> Ids \cup {NullId}]
    /\ overwritten \in [Clients -> SUBSET (Conns \X Ids)]
    /\ serverKnown \in [Clients -> BOOLEAN]
    /\ connections \in [Clients -> [Signatures -> [Receivers -> Nat]]]
    /\ ops \in [Clients -> BoundedSeq(Request, MaxNested)]
    /\ \A cl \in Clients : calls[cl] \in 0..MaxCalls[cl]
    /\ connects \in [Clients -> 0..MaxConnects]

Init ==
    /\ Service!Init
    /\ conn = [cl \in Clients |-> NoConn]
    /\ myId = [cl \in Clients |-> NullId]
    /\ overwritten = [cl \in Clients |-> {}]
    /\ serverKnown = [cl \in Clients |-> FALSE]
    /\ connections = [cl \in Clients |-> [s \in Signatures |-> [r \in Receivers |-> 0]]]
    /\ ops = [cl \in Clients |-> <<>>]
    /\ calls = [cl \in Clients |-> 0]
    /\ connects = [cl \in Clients |-> 0]

-----------------------------------------------------------------------------
(* The application calls.                                                  *)

Calls(cl, operation) ==
    /\ operation \in Uses[cl]
    /\ calls[cl] < MaxCalls[cl]
    /\ Len(ops[cl]) < MaxNested
    /\ calls' = [calls EXCEPT ![cl] = @ + 1]

Blocks(cl, kind, sig, rcv, id) ==
    ops' = [ops EXCEPT ![cl] = Append(@,
              [kind |-> kind, sig |-> sig, rcv |-> rcv, id |-> id, reply |-> "none"])]

\* m_connections.contains(s)
HasReceiver(cl, s) == \E r \in Receivers : connections[cl][s][r] > 0

Connecting(cl) == \E i \in DOMAIN ops[cl] : ops[cl][i].kind = "connectToServer"

\* The long-lived connections of the client whose sockets are open.
Sockets(cl) == {conn[cl]} \cup {old[1] : old \in overwritten[cl]}

\* The worker opens the long-lived socket and sends its id.  Applications call
\* it when there is no connection, and with "connectAgain" when there is one:
\* the code does not check, overwrites its pointers and leaves the old socket
\* open.  The worker's thread does this later than the call, which waits for it:
\* InterfaceWorker has these steps.  Here they are one, as no property depends on it.
ConnectToServer(cl) ==
    /\ Calls(cl, "connectToServer")
    /\ connects[cl] < MaxConnects
    /\ connects' = [connects EXCEPT ![cl] = @ + 1]
    /\ \/ /\ conn[cl] = NoConn /\ myId[cl] = NullId
          /\ UNCHANGED overwritten
       \/ /\ "connectAgain" \in Uses[cl]
          /\ conn[cl] # NoConn /\ ~Connecting(cl)
          /\ overwritten' = [overwritten EXCEPT ![cl] = @ \cup {<<conn[cl], myId[cl]>>}]
    /\ \E c \in Conns, id \in IdsOf[cl] :
          /\ Service!OpenConnection(c)
          /\ connState'[c] = "open"
          /\ conn' = [conn EXCEPT ![cl] = c]
          /\ \A old \in overwritten'[cl] : old[2] # id
          /\ myId' = [myId EXCEPT ![cl] = id]
          /\ Blocks(cl, "connectToServer", NoSignature, NoReceiver, id)
    /\ UNCHANGED <<serverKnown, connections>>

\* The socket goes at once, m_connection when the worker's event loop runs
\* again, and m_connections stays as it is.  That the call waits for the worker,
\* for ever without a socket, is in InterfaceWorker.
DisconnectFromServer(cl) ==
    /\ Calls(cl, "disconnectFromServer")
    /\ conn[cl] # NoConn
    /\ ~Connecting(cl)
    /\ conn' = [conn EXCEPT ![cl] = NoConn]
    /\ UNCHANGED <<serviceVars, myId, overwritten, serverKnown, connections, ops, connects>>

\* The worker's deferred deletion of m_connection.
ForgetConnection(cl) ==
    /\ conn[cl] = NoConn
    /\ myId[cl] # NullId
    /\ myId' = [myId EXCEPT ![cl] = NullId]
    /\ UNCHANGED <<serviceVars, conn, overwritten, serverKnown, connections, ops, calls, connects>>

\* remoteConnect(signal, object, method): the server is asked only when no
\* receiver is connected to the signal.
RemoteConnect(cl, s, r) ==
    /\ Calls(cl, "remoteConnect")
    /\ IF HasReceiver(cl, s)
       THEN /\ connections' = [connections EXCEPT ![cl][s][r] = @ + 1]
            /\ UNCHANGED ops
       ELSE /\ serverKnown[cl]
            /\ Blocks(cl, "remoteConnect", s, r, myId[cl])
            /\ UNCHANGED connections
    /\ UNCHANGED <<serviceVars, linkVars, serverKnown, connects>>

\* remoteConnect(object, signal, remote signal): a connection request serves
\* to find out whether the remote signal exists.
RemoteConnectToSignal(cl, s) ==
    /\ Calls(cl, "remoteConnectToSignal")
    /\ serverKnown[cl]
    /\ Blocks(cl, "remoteConnectToSignal", s, NoReceiver, myId[cl])
    /\ UNCHANGED <<serviceVars, linkVars, serverKnown, connections, connects>>

\* Mutant: one entry goes, found or not.
WithoutOne(cl, s, r) == [connections EXCEPT ![cl][s][r] = @ - 1]

Without(cl, s, r) == [connections EXCEPT ![cl][s][r] = 0]

\* Mutant: the server is never told.
Never(cl, s, r) == FALSE

\* Once r's entries are gone m_connections no longer contains the signal.
LeavesNone(cl, s, r) == \A q \in Receivers \ {r} : connections[cl][s][q] = 0

\* disconnectSignal removes every entry of the pair, then tells the server if
\* no receiver is left (or if there was none).
DisconnectSignal(cl, s, r) ==
    /\ Calls(cl, "disconnectSignal")
    /\ connections' = Without(cl, s, r)
    /\ IF serverKnown[cl] /\ LeavesNone(cl, s, r)
       THEN Blocks(cl, "disconnectSignal", s, r, myId[cl])
       ELSE UNCHANGED ops
    /\ UNCHANGED <<serviceVars, linkVars, serverKnown, connects>>

\* Mutant: the search stops at the receiver's first entry.
ForgetOneEntry(cl, r) ==
    connections' = [connections EXCEPT ![cl] =
                       [s \in Signatures |-> [@[s] EXCEPT ![r] = IF @ > 0 THEN @ - 1 ELSE 0]]]

ForgetReceiver(cl, r) ==
    connections' = [connections EXCEPT ![cl] =
                       [s \in Signatures |-> [@[s] EXCEPT ![r] = 0]]]

AwaitedBy(cl, r) ==
    \E i \in DOMAIN ops[cl] : ops[cl][i].kind = "remoteConnect" /\ ops[cl][i].rcv = r

\* A receiver is destroyed, whether or not calls are waiting: its entries go, and
\* the server is not told.  One whose own remoteConnect waits, only with
\* "destroyWaiting".
DestroyReceiver(cl, r) ==
    /\ "destroyReceiver" \in Uses[cl]
    /\ AwaitedBy(cl, r) => "destroyWaiting" \in Uses[cl]
    /\ calls[cl] < MaxCalls[cl]
    /\ calls' = [calls EXCEPT ![cl] = @ + 1]
    /\ ForgetReceiver(cl, r)
    /\ UNCHANGED <<serviceVars, linkVars, serverKnown, ops, connects>>

\* The reply to the innermost operation ends its event loop.
Return(cl) ==
    /\ ops[cl] # <<>>
    /\ LET op == Last(ops[cl]) IN
          /\ op.reply # "none"
          /\ ops' = [ops EXCEPT ![cl] = Front(@)]
          /\ connections' =
                IF op.kind = "remoteConnect" /\ op.reply = "ok"
                THEN [connections EXCEPT ![cl][op.sig][op.rcv] = @ + 1]
                ELSE connections
          /\ serverKnown' =
                [serverKnown EXCEPT ![cl] = @ \/ op.kind = "connectToServer"]
    /\ UNCHANGED <<serviceVars, linkVars, calls, connects>>

-----------------------------------------------------------------------------
(* The server handles the requests, in any order.                          *)

Reply(cl, i, reply) ==
    /\ ops' = [ops EXCEPT ![cl][i].reply = reply]
    /\ UNCHANGED <<linkVars, serverKnown, connections, calls, connects>>

Pending(cl, i) == ops[cl][i].reply = "none"

HandleInitialize(cl, i) ==
    /\ Pending(cl, i)
    /\ ops[cl][i].kind = "connectToServer"
    /\ Service!InitializeConnection(conn[cl], ops[cl][i].id)
    /\ Reply(cl, i, "ok")

KnownId(id) == id # NullId /\ longLived[id] # NoConn

HandleSubscribe(cl, i) ==
    LET op == ops[cl][i] IN
    /\ Pending(cl, i)
    /\ op.kind \in {"remoteConnect", "remoteConnectToSignal"}
    /\ \/ /\ op.sig \in Exposed /\ KnownId(op.id)
          /\ Service!HandleSignalRequest(op.sig, op.id)
          /\ Reply(cl, i, "ok")
       \/ /\ ~(op.sig \in Exposed /\ KnownId(op.id))
          /\ UNCHANGED serviceVars
          /\ Reply(cl, i, "error")

\* Mutant: no reply when no handler is registered.
HandleKnownUnsubscribe(cl, i) ==
    LET op == ops[cl][i] IN
    /\ Pending(cl, i)
    /\ op.kind = "disconnectSignal"
    /\ registered[op.sig] # NoHandler /\ KnownId(op.id)
    /\ Service!HandleSignalDisconnect(op.sig, op.id)
    /\ Reply(cl, i, "ok")

\* An unknown id is the null pointer, which no handler lists.
HandleUnsubscribe(cl, i) ==
    LET op == ops[cl][i] IN
    /\ Pending(cl, i)
    /\ op.kind = "disconnectSignal"
    /\ IF registered[op.sig] # NoHandler /\ KnownId(op.id)
       THEN Service!HandleSignalDisconnect(op.sig, op.id)
       ELSE UNCHANGED serviceVars
    /\ Reply(cl, i, "ok")

Handle(cl) ==
    \E i \in DOMAIN ops[cl] :
       HandleInitialize(cl, i) \/ HandleSubscribe(cl, i) \/ HandleUnsubscribe(cl, i)

\* The server notices that the client has closed its end.
NoticeClose(c) ==
    /\ \A cl \in Clients : c \notin Sockets(cl)
    /\ Service!CloseConnection(c)

Delete ==
    \/ \E c \in Conns : Service!DeleteConnection(c)
    \/ \E h \in Handlers : Service!DeleteHandler(h)

ClientNext(cl) ==
    \/ ConnectToServer(cl)
    \/ DisconnectFromServer(cl)
    \/ ForgetConnection(cl)
    \/ \E s \in Signatures :
          \/ RemoteConnectToSignal(cl, s)
          \/ \E r \in Receivers : RemoteConnect(cl, s, r) \/ DisconnectSignal(cl, s, r)
    \/ \E r \in Receivers : DestroyReceiver(cl, r)
    \/ Return(cl)

ServerNext ==
    \/ \E cl \in Clients : Handle(cl)
    \/ /\ (\E c \in Conns : NoticeClose(c)) \/ Delete
       /\ UNCHANGED <<linkVars, serverKnown, connections, ops, calls, connects>>

Next == ServerNext \/ \E cl \in Clients : ClientNext(cl)

Spec == Init /\ [][Next]_vars

\* The event loops of both sides keep running: the server reads the requests,
\* notices closed sockets and deletes what it has doomed; a client's loop
\* delivers the reply.  Nothing makes an application call.
Fairness ==
    /\ WF_vars(ServerNext)
    /\ \A cl \in Clients : WF_vars(Handle(cl)) /\ WF_vars(Return(cl))

FairSpec == Spec /\ Fairness

\* Deletions that come before anything else, as in SignalService.
PromptNext ==
    \/ Delete /\ UNCHANGED <<linkVars, serverKnown, connections, ops, calls, connects>>
    \/ ~Service!DeletionPending /\ Next

PromptSpec == Init /\ [][PromptNext]_vars

-----------------------------------------------------------------------------
(* Properties                                                              *)

Connected(cl) == conn[cl] # NoConn /\ ~Connecting(cl)

\* No operation of the client on the signal is under way.
Settled(cl, s) == \A i \in DOMAIN ops[cl] : ops[cl][i].sig # s

\* The two ends agree: the server lists a client's connection for a signal
\* exactly while the client holds a receiver for it.  It needs applications
\* that connect and disconnect in pairs, one call at a time.
EndsAgree ==
    \A cl \in Clients, s \in Signatures :
        Connected(cl) /\ Settled(cl, s) =>
            (Service!Subscribed(conn[cl], s) <=> HasReceiver(cl, s))

\* The id a client puts in its requests leads to its own connection, through
\* reconnections, reused addresses and the late end of an old connection.
\* (The README of the library and the class comment of CuteIPCService let
\* several clients connect to one service.)
IdIsMine ==
    \A cl \in Clients : Connected(cl) => longLived[myId[cl]] = conn[cl]

\* While clients come and go, share handlers, subscribe and unsubscribe, every
\* handler in service can be found again, and no end of a handler takes another
\* out of m_signalHandlers.  It takes PromptSpec, under which no successor meets a
\* doomed handler; without it the property does not hold (see SignalService).
LiveHandlerRegistered == Service!LiveHandlerRegistered

\* Every blocking call returns, however the calls are nested.
CallsReturn == \A cl \in Clients : ops[cl] # <<>> ~> ops[cl] = <<>>
=============================================================================
