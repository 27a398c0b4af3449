------------------------------ MODULE Delivery ------------------------------
(***************************************************************************)
(* What becomes of a relayed signal: from the subject's emission, through  *)
(* the handlers that relay it, over the clients' long-lived sockets, to    *)
(* the receivers.  Who is subscribed, and who holds which receivers, is    *)
(* RemoteSignals; this module adds the signals under way.                  *)
(*                                                                         *)
(* Three queues lie between the emission and a receiver: the socket, which *)
(* the client's worker thread reads; the events of the application's       *)
(* thread, to which the worker posts every signal it has read; and those   *)
(* same events again, to which _q_invokeRemoteSignal posts an invocation   *)
(* for every receiver it finds in m_connections.  The application's events *)
(* are carried out by whatever event loop runs there, also while it waits  *)
(* for a reply.  Emissions are numbered.                                   *)
(***************************************************************************)
EXTENDS Naturals, Sequences, FiniteSets, SequencesExt

CONSTANTS
    Conns, Handlers, Ids, Signatures, Exposed, \* as in SignalService
    NoConn, NoHandler, NoSignature, MaxWired,
    Clients, Receivers, NoReceiver, IdsOf, NullId, \* as in RemoteSignals
    Uses, MaxCalls, MaxConnects, MaxNested,
    MaxEmits  \* bound: emissions of the subject

ASSUME MaxEmitsAssumption == MaxEmits \in Nat
\* As in RemoteSignals; and there are finitely many handlers and receivers.
ASSUME ConstantsAssumption ==
    /\ IsFiniteSet(Handlers) /\ IsFiniteSet(Receivers) /\ NoReceiver \notin Receivers
    /\ Exposed \subseteq Signatures
    /\ NoConn \notin Conns /\ NoHandler \notin Handlers
    /\ NoSignature \notin Signatures /\ NullId \notin Ids
    /\ IdsOf \in [Clients -> SUBSET Ids]
    /\ MaxWired \in Nat /\ MaxConnects \in Nat /\ MaxNested \in Nat
    /\ MaxCalls \in [Clients -> Nat]

VARIABLES
    connState, longLived, registered, handlerState, signature, listeners, wired,
    conn, myId, overwritten, serverKnown, connections, ops, calls, connects,
    emitted,  \* the signals emitted
    wire,     \* the emissions in each long-lived socket
    events,   \* the events of each application's thread
    existing, \* the receivers that exist
    last,     \* the emission each receiver was last invoked for (history)
    granted,  \* connection requests granted to each connection (history)
    owed      \* <<client, receiver, emission>>: who is to get what (history)

clientVars == <<connState, longLived, registered, handlerState, signature, listeners, wired,
                conn, myId, overwritten, serverKnown, connections, ops, calls, connects>>
vars == <<clientVars, emitted, wire, events, existing, last, granted, owed>>

Client == INSTANCE RemoteSignals

ASSUME UsesAssumption == Uses \in [Clients -> SUBSET Client!Operations]

Emissions == 1..MaxEmits
Event == [kind : {"signal"}, n : Emissions, rcv : {NoReceiver}]
         \cup [kind : {"invocation"}, n : Emissions, rcv : Receivers \cup {NoReceiver}]

TypeOK ==
    /\ Client!TypeOK
    /\ emitted \in BoundedSeq(Exposed, MaxEmits)
    /\ wire \in [Conns -> Seq(Emissions)]
    /\ events \in [Clients -> Seq(Event)]
    /\ existing \in [Clients -> SUBSET Receivers]
    /\ last \in [Clients -> [Receivers -> 0..Len(emitted)]]
    /\ granted \in [Conns -> [Signatures -> Nat]]
    /\ owed \subseteq Clients \X Receivers \X Emissions

Init ==
    /\ Client!Init
    /\ emitted = <<>> /\ owed = {}
    /\ wire = [c \in Conns |-> <<>>]
    /\ events = [cl \in Clients |-> <<>>]
    /\ existing = [cl \in Clients |-> Receivers]
    /\ last = [cl \in Clients |-> [r \in Receivers |-> 0]]
    /\ granted = [c \in Conns |-> [s \in Signatures |-> 0]]

-----------------------------------------------------------------------------
(* The server                                                              *)

\* The Qt connections that addListener has made between the signal's handlers,
\* those about to be deleted included, and the connection.
Relaying(s, c) ==
    {q \in Handlers \X (1..MaxWired) :
        /\ signature[q[1]] = s /\ Client!Service!Relays(q[1], c)
        /\ q[2] <= wired[q[1]][c]}

\* The signal is sent once over each.
Copies(s, c) == Cardinality(Relaying(s, c))

ClientOpen(c) == \E cl \in Clients : c \in Client!Sockets(cl)

\* Nobody's call on the signal is under way, and the receiver is connected.
Entitled(s, n) ==
    {o \in Clients \X Receivers \X {n} :
        /\ Client!Connected(o[1]) /\ Client!Settled(o[1], s)
        /\ connections[o[1]][s][o[2]] > 0}

\* The subject emits: relaySlot, signalCaptured and sendSignal, in the one call.
\* What is sent to a client that has closed its end is lost.
Emit(s) ==
    LET n == Len(emitted) + 1 IN
    /\ s \in Exposed /\ n \in Emissions
    /\ emitted' = Append(emitted, s)
    /\ wire' = [c \in Conns |->
          IF ClientOpen(c) THEN wire[c] \o [k \in 1..Copies(s, c) |-> n] ELSE <<>>]
    /\ owed' = owed \cup Entitled(s, n)
    /\ UNCHANGED <<clientVars, events, existing, last, granted>>

\* A connection request is granted or refused.
HandleSubscribe(cl, i) ==
    LET op == ops[cl][i] IN
    /\ Client!HandleSubscribe(cl, i)
    /\ granted' = IF ops'[cl][i].reply = "ok"
                  THEN [granted EXCEPT ![longLived[op.id]][op.sig] = @ + 1] ELSE granted

HandleOther(cl, i) ==
    /\ Client!HandleInitialize(cl, i) \/ Client!HandleUnsubscribe(cl, i)
    /\ UNCHANGED granted

HouseKeep ==
    /\ \/ \E c \in Conns : Client!NoticeClose(c) /\ UNCHANGED granted
       \/ \E c \in Conns :
             /\ Client!Service!DeleteConnection(c)
             /\ granted' = [granted EXCEPT ![c] = [s \in Signatures |-> 0]]
       \/ \E h \in Handlers : Client!Service!DeleteHandler(h) /\ UNCHANGED granted
    /\ UNCHANGED <<conn, myId, overwritten, serverKnown, connections, ops, calls, connects>>

Server ==
    /\ \/ HouseKeep
       \/ \E cl \in Clients : \E i \in DOMAIN ops[cl] : HandleSubscribe(cl, i) \/ HandleOther(cl, i)
    /\ UNCHANGED <<emitted, wire, events, existing, last, owed>>

-----------------------------------------------------------------------------
(* The client's worker thread                                              *)

\* Mutant: what arrives first is handled last.
PostFirst(queue, es) == es \o queue

\* Queued connections and queued invocations go to the end of the queue.
Post(queue, es) == queue \o es

\* readMessageFromSocket takes a MessageSignal from a long-lived socket and
\* invokeRemoteSignal hands it to the application's thread.
ReadSignal(cl, c) ==
    /\ c \in Client!Sockets(cl) \ {NoConn} /\ wire[c] # <<>>
    /\ wire' = [wire EXCEPT ![c] = Tail(@)]
    /\ events' = [events EXCEPT ![cl] =
          Post(@, <<[kind |-> "signal", n |-> Head(wire[c]), rcv |-> NoReceiver]>>)]
    /\ UNCHANGED <<clientVars, emitted, existing, last, granted, owed>>

-----------------------------------------------------------------------------
(* The application's thread                                                *)

\* Mutant: value() for values(): one receiver is looked up.
OneEntry(cl, s) ==
    LET held == {r \in Receivers : connections[cl][s][r] > 0} IN
    IF held = {} THEN {} ELSE {<<CHOOSE r \in held : TRUE, 1>>}

\* m_connections.values(signal): one for every entry.
Entries(cl, s) ==
    {e \in Receivers \X (1..MaxCalls[cl]) : e[2] <= connections[cl][s][e[1]]}

NextEvent(cl, kind) == events[cl] # <<>> /\ Head(events[cl]).kind = kind

\* _q_invokeRemoteSignal posts an invocation to every receiver connected by now,
\* in any order.
InvokeRemoteSignal(cl) ==
    /\ NextEvent(cl, "signal")
    /\ LET n == Head(events[cl]).n IN
          \E list \in SetToSeqs(Entries(cl, emitted[n])) :
             events' = [events EXCEPT ![cl] = Post(Tail(@),
                [i \in DOMAIN list |-> [kind |-> "invocation", n |-> n, rcv |-> list[i][1]]])]
    /\ UNCHANGED <<clientVars, emitted, wire, existing, last, granted, owed>>

\* An invocation whose receiver has been destroyed is for nobody.
InvokeReceiver(cl) ==
    LET e == Head(events[cl]) IN
    /\ NextEvent(cl, "invocation")
    /\ events' = [events EXCEPT ![cl] = Tail(@)]
    /\ last' = IF e.rcv = NoReceiver THEN last ELSE [last EXCEPT ![cl][e.rcv] = e.n]
    /\ owed' = owed \ {<<cl, e.rcv, e.n>>}
    /\ UNCHANGED <<clientVars, emitted, wire, existing, granted>>

\* Those who are no longer to get what has been emitted.
Waive(who) == owed' = {o \in owed : <<o[1], o[2], emitted[o[3]]>> \notin who}

Call(cl) ==
    \/ Client!ConnectToServer(cl) \/ Client!ForgetConnection(cl) \/ Client!Return(cl)
    \/ \E s \in Signatures : Client!RemoteConnectToSignal(cl, s)

\* A call that touches neither what is under way nor any receiver.
OtherCall(cl) ==
    /\ Call(cl)
    /\ UNCHANGED <<emitted, wire, events, existing, last, granted, owed>>

\* The receiver of the call exists, as a new object perhaps at an old address.
RemoteConnect(cl, s, r) ==
    /\ Client!RemoteConnect(cl, s, r)
    /\ existing' = [existing EXCEPT ![cl] = @ \cup {r}]
    /\ UNCHANGED <<emitted, wire, events, last, granted, owed>>

DisconnectSignal(cl, s, r) ==
    /\ Client!DisconnectSignal(cl, s, r)
    /\ Waive({<<cl, r, s>>})
    /\ UNCHANGED <<emitted, wire, events, existing, last, granted>>

\* What lies in the socket is lost with it.
DisconnectFromServer(cl) ==
    /\ Client!DisconnectFromServer(cl)
    /\ wire' = [wire EXCEPT ![conn[cl]] = <<>>]
    /\ Waive({cl} \X Receivers \X Signatures)
    /\ UNCHANGED <<emitted, events, existing, last, granted>>

\* Qt drops the events posted to an object that is destroyed.
DropEvents(queue, r) ==
    [i \in DOMAIN queue |-> [queue[i] EXCEPT !.rcv = IF @ = r THEN NoReceiver ELSE @]]

DestroyReceiver(cl, r) ==
    /\ r \in existing[cl]
    /\ Client!DestroyReceiver(cl, r)
    /\ existing' = [existing EXCEPT ![cl] = @ \ {r}]
    /\ events' = [events EXCEPT ![cl] = DropEvents(@, r)]
    /\ Waive({cl} \X {r} \X Signatures)
    /\ UNCHANGED <<emitted, wire, last, granted>>

-----------------------------------------------------------------------------

Deliver(cl) ==
    \/ InvokeRemoteSignal(cl) \/ InvokeReceiver(cl)
    \/ \E c \in Conns : ReadSignal(cl, c)

Next ==
    \/ Server
    \/ \E s \in Signatures : Emit(s)
    \/ \E cl \in Clients :
          \/ Deliver(cl) \/ OtherCall(cl) \/ DisconnectFromServer(cl)
          \/ \E s \in Signatures, r \in Receivers :
                RemoteConnect(cl, s, r) \/ DisconnectSignal(cl, s, r)
          \/ \E r \in Receivers : DestroyReceiver(cl, r)

Spec == Init /\ [][Next]_vars

-----------------------------------------------------------------------------
(* Properties                                                              *)

\* "After the connection being established, signals will be delivered": an
\* emission owed to a receiver, as it was connected when the subject emitted and
\* has been neither disconnected nor destroyed since, is on its way to it: in a
\* socket its client reads, or among its application's events.
OwedOnTheWay ==
    \A o \in owed :
        \/ \E c \in Client!Sockets(o[1]) \ {NoConn} : o[3] \in ToSet(wire[c])
        \/ \E e \in ToSet(events[o[1]]) : e.n = o[3] /\ (e.kind = "signal" \/ e.rcv = o[2])

\* A receiver gets the emissions in the order they were made, unless its client
\* has two long-lived sockets.
InOrder ==
    [][\A cl \in Clients, r \in Receivers :
          overwritten[cl] = {} => last'[cl][r] >= last[cl][r]]_vars

\* An emission is sent over a connection at most once for every connection
\* request granted to it: once, to a client whose request was granted once,
\* however many receivers it has and whoever else subscribes.
OncePerRequest ==
    \A c \in Conns, n \in DOMAIN emitted :
        Cardinality({i \in DOMAIN wire[c] : wire[c][i] = n}) <= granted[c][emitted[n]]

\* m_connections points to receivers that exist: _q_invokeRemoteSignal uses the
\* pointers without a test that would tell.
NoDeadReceiver ==
    \A cl \in Clients, s \in Signatures, r \in Receivers :
        connections[cl][s][r] > 0 => r \in existing[cl]
=============================================================================
