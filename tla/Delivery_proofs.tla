-------------------------- MODULE Delivery_proofs --------------------------
(***************************************************************************)
(* Proofs about Delivery.  m_connections points to receivers that exist    *)
(* (ReceiversExist), a receiver gets the emissions in order                *)
(* (SignalsInOrder), a connection gets an emission once for a request      *)
(* (SignalsSentOnce), and none that is owed is lost (NoSignalIsLost).      *)
(*                                                                         *)
(* Each rests on an invariant of its own: ReceiversInv; OrderInv, about    *)
(* the three queues; CopiesGranted, which bounds what the handlers relay   *)
(* by what was granted; and OwedWay with OwedHeld, OneOwner and Silent.    *)
(* DeliveryImplementsRemoteSignals brings in what RemoteSignals_proofs     *)
(* knows of the clients and of the registry.                               *)
(***************************************************************************)
EXTENDS Delivery, TLAPS, SequenceTheorems, FiniteSetTheorems

-----------------------------------------------------------------------------
(* Receivers                                                               *)

ReceiverTypes ==
    /\ connections \in [Clients -> [Signatures -> [Receivers -> Nat]]]
    /\ ops \in [Clients -> Seq(Client!Request)]
    /\ existing \in [Clients -> SUBSET Receivers]
    /\ myId \in [Clients -> Ids \cup {NullId}]

\* A receiver whose remoteConnect waits exists.
AwaitedExist ==
    \A cl \in Clients : \A i \in DOMAIN ops[cl] :
        ops[cl][i].kind = "remoteConnect" => ops[cl][i].rcv \in existing[cl]

ReceiversInv == ReceiverTypes /\ AwaitedExist /\ NoDeadReceiver

receiverVars == <<connections, ops, existing, myId>>

\* "destroyWaiting" is not used.
NoneDestroyedWaiting == \A cl \in Clients : "destroyWaiting" \notin Uses[cl]

LEMMA ReceiversStart == Init => ReceiversInv
PROOF
  <1> SUFFICES ASSUME Init PROVE ReceiversInv
    OBVIOUS
  <1>1. ReceiverTypes
    BY DEF Init, Client!Init, ReceiverTypes
  <1>2. AwaitedExist /\ NoDeadReceiver
    BY DEF Init, Client!Init, AwaitedExist, NoDeadReceiver
  <1> QED  BY <1>1, <1>2 DEF ReceiversInv

LEMMA ReceiversStay == ReceiversInv /\ UNCHANGED receiverVars => ReceiversInv'
  BY DEF ReceiversInv, receiverVars, ReceiverTypes, AwaitedExist, NoDeadReceiver

\* An operation that begins to wait, for a receiver that exists if it has one.
LEMMA BlocksKeeps ==
  ASSUME ReceiverTypes, AwaitedExist, NEW cl \in Clients,
         NEW kind \in Client!BlockingKinds, NEW sig \in Signatures \cup {NoSignature},
         NEW rcv \in Receivers \cup {NoReceiver}, NEW id \in Ids \cup {NullId},
         Client!Blocks(cl, kind, sig, rcv, id),
         existing' \in [Clients -> SUBSET Receivers],
         \A d \in Clients : existing[d] \subseteq existing'[d],
         kind = "remoteConnect" => rcv \in existing'[cl]
  PROVE  ops' \in [Clients -> Seq(Client!Request)] /\ AwaitedExist'
PROOF
  <1> DEFINE op == [kind |-> kind, sig |-> sig, rcv |-> rcv, id |-> id, reply |-> "none"]
  <1>1. op \in Client!Request
    BY DEF Client!Request
  <1>2. ops' = [ops EXCEPT ![cl] = Append(@, op)]
    BY DEF Client!Blocks
  <1> HIDE DEF op
  <1>3. ops[cl] \in Seq(Client!Request)
    BY DEF ReceiverTypes
  <1>4. /\ Append(ops[cl], op) \in Seq(Client!Request)
        /\ Len(Append(ops[cl], op)) = Len(ops[cl]) + 1
        /\ \A i \in 1..Len(ops[cl]) : Append(ops[cl], op)[i] = ops[cl][i]
        /\ Append(ops[cl], op)[Len(ops[cl]) + 1] = op
    BY <1>1, <1>3, AppendProperties
  <1>5. ops' \in [Clients -> Seq(Client!Request)]
    BY <1>2, <1>4 DEF ReceiverTypes
  <1>6. ASSUME NEW d \in Clients, NEW i \in DOMAIN ops'[d],
               ops'[d][i].kind = "remoteConnect"
        PROVE  ops'[d][i].rcv \in existing'[d]
    <2>1. CASE d # cl
      BY <1>2, <1>6, <2>1 DEF ReceiverTypes, AwaitedExist
    <2>2. CASE d = cl
      <3>1. ops'[d] = Append(ops[cl], op)
        BY <1>2, <2>2 DEF ReceiverTypes
      <3>2. /\ DOMAIN ops[cl] = 1..Len(ops[cl]) /\ Len(ops[cl]) \in Nat
            /\ DOMAIN ops'[d] = 1..(Len(ops[cl]) + 1)
        BY <1>3, <1>4, <3>1, LenProperties
      <3>3. CASE i \in 1..Len(ops[cl])
        BY <1>4, <1>6, <2>2, <3>1, <3>2, <3>3 DEF AwaitedExist
      <3>4. CASE i = Len(ops[cl]) + 1
        <4>1. op.kind = "remoteConnect" /\ ops'[d][i].rcv = op.rcv
          BY <1>4, <1>6, <3>1, <3>4
        <4> QED  BY <2>2, <4>1 DEF op
      <3> QED  BY <3>2, <3>3, <3>4
    <2> QED  BY <2>1, <2>2
  <1> QED  BY <1>5, <1>6 DEF AwaitedExist

LEMMA ReplyKeeps ==
  ASSUME ReceiversInv, NEW cl \in Clients, NEW i \in DOMAIN ops[cl],
         NEW reply \in {"ok", "error"}, Client!Reply(cl, i, reply), UNCHANGED existing
  PROVE  ReceiversInv'
PROOF
  <1> DEFINE op == [ops[cl][i] EXCEPT !.reply = reply]
  <1>1. ops[cl] \in Seq(Client!Request) /\ i \in 1..Len(ops[cl]) /\ ops[cl][i] \in Client!Request
    BY LenProperties, ElementOfSeq DEF ReceiversInv, ReceiverTypes
  <1>2. op \in Client!Request /\ op.kind = ops[cl][i].kind /\ op.rcv = ops[cl][i].rcv
    BY <1>1 DEF Client!Request
  <1>3. /\ ops' = [ops EXCEPT ![cl] = [@ EXCEPT ![i] = op]]
        /\ UNCHANGED <<connections, myId>>
    BY DEF Client!Reply, Client!linkVars
  <1> HIDE DEF op
  <1>4. [ops[cl] EXCEPT ![i] = op] \in Seq(Client!Request)
    BY <1>1, <1>2, ExceptSeq
  <1>5. ReceiverTypes'
    BY <1>3, <1>4 DEF ReceiversInv, ReceiverTypes
  <1>6. ASSUME NEW d \in Clients
        PROVE  /\ DOMAIN ops'[d] = DOMAIN ops[d]
               /\ \A j \in DOMAIN ops[d] : /\ ops'[d][j].kind = ops[d][j].kind
                                           /\ ops'[d][j].rcv = ops[d][j].rcv
    BY <1>2, <1>3 DEF ReceiversInv, ReceiverTypes
  <1>7. AwaitedExist'
    BY <1>6 DEF ReceiversInv, AwaitedExist
  <1> QED  BY <1>3, <1>5, <1>7 DEF ReceiversInv, NoDeadReceiver

LEMMA ConnectToServerKeepsReceivers ==
  ASSUME ReceiversInv, NEW cl \in Clients, Client!ConnectToServer(cl), UNCHANGED existing
  PROVE  ReceiversInv'
PROOF
  <1>1. PICK id \in IdsOf[cl] :
           /\ myId' = [myId EXCEPT ![cl] = id]
           /\ Client!Blocks(cl, "connectToServer", NoSignature, NoReceiver, id)
    BY DEF Client!ConnectToServer
  <1>2. id \in Ids
    BY <1>1, ConstantsAssumption
  <1>3. UNCHANGED connections
    BY DEF Client!ConnectToServer
  <1>4. ops' \in [Clients -> Seq(Client!Request)] /\ AwaitedExist'
    BY <1>1, <1>2, BlocksKeeps DEF ReceiversInv, ReceiverTypes, Client!BlockingKinds
  <1> QED  BY <1>1, <1>2, <1>3, <1>4 DEF ReceiversInv, ReceiverTypes, NoDeadReceiver

LEMMA RemoteConnectToSignalKeepsReceivers ==
  ASSUME ReceiversInv, NEW cl \in Clients, NEW s \in Signatures,
         Client!RemoteConnectToSignal(cl, s), UNCHANGED existing
  PROVE  ReceiversInv'
PROOF
  <1>1. /\ Client!Blocks(cl, "remoteConnectToSignal", s, NoReceiver, myId[cl])
        /\ UNCHANGED <<connections, myId>>
    BY DEF Client!RemoteConnectToSignal, Client!linkVars
  <1>2. ops' \in [Clients -> Seq(Client!Request)] /\ AwaitedExist'
    BY <1>1, BlocksKeeps DEF ReceiversInv, ReceiverTypes, Client!BlockingKinds
  <1> QED  BY <1>1, <1>2 DEF ReceiversInv, ReceiverTypes, NoDeadReceiver

LEMMA OneMore ==
  ASSUME NEW row \in [Receivers -> Nat], NEW q
  PROVE  [row EXCEPT ![q] = @ + 1] \in [Receivers -> Nat]
PROOF
  <1>1. CASE q \in Receivers
    BY <1>1
  <1>2. CASE q \notin Receivers
    BY <1>2
  <1> QED  BY <1>1, <1>2

LEMMA ReturnKeepsReceivers ==
  ASSUME ReceiversInv, NEW cl \in Clients, Client!Return(cl), UNCHANGED existing
  PROVE  ReceiversInv'
PROOF
  <1> DEFINE op == Last(ops[cl])
  <1>1. /\ ops[cl] # <<>>
        /\ ops' = [ops EXCEPT ![cl] = Front(@)]
        /\ connections' = IF op.kind = "remoteConnect" /\ op.reply = "ok"
                          THEN [connections EXCEPT ![cl][op.sig][op.rcv] = @ + 1]
                          ELSE connections
        /\ UNCHANGED myId
    BY DEF Client!Return, Client!linkVars, Client!Last, Client!Front, Last, Front
  <1>2. ops[cl] \in Seq(Client!Request) /\ Len(ops[cl]) \in Nat \ {0}
    BY <1>1, EmptySeq DEF ReceiversInv, ReceiverTypes
  <1>3. op \in Client!Request /\ op = ops[cl][Len(ops[cl])] /\ Len(ops[cl]) \in DOMAIN ops[cl]
    BY <1>2, ElementOfSeq, LenProperties DEF Last
  <1> HIDE DEF op
  <1>4. /\ Front(ops[cl]) \in Seq(Client!Request)
        /\ Len(Front(ops[cl])) = Len(ops[cl]) - 1
        /\ \A i \in 1..(Len(ops[cl]) - 1) : Front(ops[cl])[i] = ops[cl][i]
    <2>1. \A i \in 1..(Len(ops[cl]) - 1) : ops[cl][i] \in Client!Request
      BY <1>2, ElementOfSeq
    <2> QED  BY <1>2, <2>1, SubSeqProperties DEF Front
  <1>5. op.kind = "remoteConnect" => op.rcv \in existing[cl]
    BY <1>3 DEF ReceiversInv, AwaitedExist
  <1>6. \A d \in Clients, s \in Signatures, r \in Receivers :
           /\ connections'[d][s][r] \in Nat
           /\ connections'[d][s][r] > 0 => r \in existing[d]
    <2>1. ASSUME NEW d \in Clients, NEW s \in Signatures, NEW r \in Receivers
          PROVE  /\ connections'[d][s][r] \in Nat
                 /\ \/ connections'[d][s][r] = connections[d][s][r]
                    \/ op.kind = "remoteConnect" /\ d = cl /\ r = op.rcv
      <3>1. CASE connections' = connections
        BY <3>1 DEF ReceiversInv, ReceiverTypes
      <3>2. CASE /\ op.kind = "remoteConnect"
                 /\ connections' = [connections EXCEPT ![cl][op.sig][op.rcv] = @ + 1]
        BY <3>2 DEF ReceiversInv, ReceiverTypes
      <3> QED  BY <1>1, <3>1, <3>2
    <2> QED  BY <1>5, <2>1 DEF ReceiversInv, NoDeadReceiver
  <1>7. connections' \in [Clients -> [Signatures -> [Receivers -> Nat]]]
    <2>1. CASE connections' = connections
      BY <2>1 DEF ReceiversInv, ReceiverTypes
    <2>2. CASE connections' = [connections EXCEPT ![cl][op.sig][op.rcv] = @ + 1]
      <3> DEFINE held == connections[cl]
                 row == [held[op.sig] EXCEPT ![op.rcv] = @ + 1]
      <3>1. held \in [Signatures -> [Receivers -> Nat]]
        BY DEF ReceiversInv, ReceiverTypes
      <3>2. op.sig \in Signatures => row \in [Receivers -> Nat]
        BY <3>1, OneMore
      <3> HIDE DEF row
      <3>3. [held EXCEPT ![op.sig] = row] \in [Signatures -> [Receivers -> Nat]]
        BY <3>1, <3>2
      <3>4. connections' = [connections EXCEPT ![cl] = [held EXCEPT ![op.sig] = row]]
        BY <2>2 DEF row
      <3> HIDE DEF held
      <3> QED  BY <3>3, <3>4 DEF ReceiversInv, ReceiverTypes
    <2> QED  BY <1>1, <2>1, <2>2
  <1>8. ops' \in [Clients -> Seq(Client!Request)]
    BY <1>1, <1>4 DEF ReceiversInv, ReceiverTypes
  <1>9. ASSUME NEW d \in Clients, NEW i \in DOMAIN ops'[d]
        PROVE  i \in DOMAIN ops[d] /\ ops'[d][i] = ops[d][i]
    <2>1. CASE d # cl
      BY <1>1, <1>9, <2>1 DEF ReceiversInv, ReceiverTypes
    <2>2. CASE d = cl
      <3>1. ops'[d] = Front(ops[cl])
        BY <1>1, <2>2 DEF ReceiversInv, ReceiverTypes
      <3>2. i \in 1..(Len(ops[cl]) - 1) /\ DOMAIN ops[cl] = 1..Len(ops[cl])
        BY <1>2, <1>4, <1>9, <3>1, LenProperties
      <3> QED  BY <1>2, <1>4, <2>2, <3>1, <3>2
    <2> QED  BY <2>1, <2>2
  <1>10. AwaitedExist'
    BY <1>9 DEF ReceiversInv, AwaitedExist
  <1> QED  BY <1>1, <1>6, <1>7, <1>8, <1>10 DEF ReceiversInv, ReceiverTypes, NoDeadReceiver

LEMMA RemoteConnectKeepsReceivers ==
  ASSUME ReceiversInv, NEW cl \in Clients, NEW s \in Signatures, NEW r \in Receivers,
         RemoteConnect(cl, s, r)
  PROVE  ReceiversInv'
PROOF
  <1>1. existing' = [existing EXCEPT ![cl] = @ \cup {r}] /\ UNCHANGED myId
    BY DEF RemoteConnect, Client!RemoteConnect, Client!linkVars
  <1>2. /\ existing' \in [Clients -> SUBSET Receivers] /\ r \in existing'[cl]
        /\ \A d \in Clients : existing[d] \subseteq existing'[d]
    BY <1>1 DEF ReceiversInv, ReceiverTypes
  <1>3. CASE connections' = [connections EXCEPT ![cl][s][r] = @ + 1] /\ UNCHANGED ops
    <2>1. connections' \in [Clients -> [Signatures -> [Receivers -> Nat]]]
      BY <1>3 DEF ReceiversInv, ReceiverTypes
    <2>2. \A d \in Clients, t \in Signatures, q \in Receivers :
             connections'[d][t][q] = connections[d][t][q] \/ (d = cl /\ q = r)
      BY <1>3 DEF ReceiversInv, ReceiverTypes
    <2> QED  BY <1>1, <1>2, <1>3, <2>1, <2>2
             DEF ReceiversInv, ReceiverTypes, AwaitedExist, NoDeadReceiver
  <1>4. CASE Client!Blocks(cl, "remoteConnect", s, r, myId[cl]) /\ UNCHANGED connections
    <2>1. ops' \in [Clients -> Seq(Client!Request)] /\ AwaitedExist'
      BY <1>2, <1>4, BlocksKeeps DEF ReceiversInv, ReceiverTypes, Client!BlockingKinds
    <2> QED  BY <1>1, <1>2, <1>4, <2>1 DEF ReceiversInv, ReceiverTypes, NoDeadReceiver
  <1> QED  BY <1>3, <1>4 DEF RemoteConnect, Client!RemoteConnect

LEMMA DisconnectSignalKeepsReceivers ==
  ASSUME ReceiversInv, NEW cl \in Clients, NEW s \in Signatures, NEW r \in Receivers,
         DisconnectSignal(cl, s, r)
  PROVE  ReceiversInv'
PROOF
  <1>1. /\ connections' = [connections EXCEPT ![cl][s][r] = 0]
        /\ UNCHANGED <<existing, myId>>
        /\ Client!Blocks(cl, "disconnectSignal", s, r, myId[cl]) \/ UNCHANGED ops
    BY DEF DisconnectSignal, Client!DisconnectSignal, Client!Without, Client!linkVars
  <1>2. connections' \in [Clients -> [Signatures -> [Receivers -> Nat]]]
    BY <1>1 DEF ReceiversInv, ReceiverTypes
  <1>3. \A d \in Clients, t \in Signatures, q \in Receivers :
           connections'[d][t][q] > 0 => connections[d][t][q] > 0
    BY <1>1 DEF ReceiversInv, ReceiverTypes
  <1>4. ops' \in [Clients -> Seq(Client!Request)] /\ AwaitedExist'
    <2>1. CASE UNCHANGED ops
      BY <1>1, <2>1 DEF ReceiversInv, ReceiverTypes, AwaitedExist
    <2>2. CASE Client!Blocks(cl, "disconnectSignal", s, r, myId[cl])
      BY <1>1, <2>2, BlocksKeeps DEF ReceiversInv, ReceiverTypes, Client!BlockingKinds
    <2> QED  BY <1>1, <2>1, <2>2
  <1> QED  BY <1>1, <1>2, <1>3, <1>4 DEF ReceiversInv, ReceiverTypes, NoDeadReceiver

LEMMA DestroyReceiverKeepsReceivers ==
  ASSUME ReceiversInv, NoneDestroyedWaiting, NEW cl \in Clients, NEW r \in Receivers,
         DestroyReceiver(cl, r)
  PROVE  ReceiversInv'
PROOF
  <1>1. /\ existing' = [existing EXCEPT ![cl] = @ \ {r}]
        /\ connections' = [connections EXCEPT ![cl] =
                              [s \in Signatures |-> [@[s] EXCEPT ![r] = 0]]]
        /\ ~Client!AwaitedBy(cl, r)
        /\ UNCHANGED <<ops, myId>>
    BY DEF DestroyReceiver, Client!DestroyReceiver, Client!ForgetReceiver, Client!linkVars,
           NoneDestroyedWaiting
  <1>2. /\ existing' \in [Clients -> SUBSET Receivers]
        /\ \A d \in Clients : \A q \in existing[d] : q \in existing'[d] \/ (d = cl /\ q = r)
    BY <1>1 DEF ReceiversInv, ReceiverTypes
  <1>3. connections' \in [Clients -> [Signatures -> [Receivers -> Nat]]]
    BY <1>1 DEF ReceiversInv, ReceiverTypes
  <1>4. \A d \in Clients, t \in Signatures, q \in Receivers :
           connections'[d][t][q] > 0 => connections[d][t][q] > 0 /\ ~(d = cl /\ q = r)
    BY <1>1 DEF ReceiversInv, ReceiverTypes
  <1>5. AwaitedExist'
    BY <1>1, <1>2 DEF ReceiversInv, AwaitedExist, Client!AwaitedBy
  <1> QED  BY <1>1, <1>2, <1>3, <1>4, <1>5 DEF ReceiversInv, ReceiverTypes, NoDeadReceiver

LEMMA ForgetConnectionKeepsReceivers ==
  ASSUME ReceiversInv, NEW cl \in Clients, Client!ForgetConnection(cl), UNCHANGED existing
  PROVE  ReceiversInv'
  BY DEF Client!ForgetConnection, ReceiversInv, ReceiverTypes, AwaitedExist, NoDeadReceiver

LEMMA ServerKeepsReceivers == ReceiversInv /\ Server => ReceiversInv'
PROOF
  <1> SUFFICES ASSUME ReceiversInv, Server PROVE ReceiversInv'
    OBVIOUS
  <1>1. CASE HouseKeep
    BY <1>1, ReceiversStay DEF Server, HouseKeep, receiverVars
  <1>2. ASSUME NEW cl \in Clients, NEW i \in DOMAIN ops[cl],
               HandleSubscribe(cl, i) \/ HandleOther(cl, i)
        PROVE  ReceiversInv'
    <2>1. UNCHANGED existing
      BY DEF Server
    <2>2. \E reply \in {"ok", "error"} : Client!Reply(cl, i, reply)
      BY <1>2 DEF HandleSubscribe, HandleOther, Client!HandleSubscribe, Client!HandleInitialize,
                  Client!HandleUnsubscribe
    <2> QED  BY <2>1, <2>2, ReplyKeeps
  <1> QED  BY <1>1, <1>2 DEF Server

LEMMA ReceiversStep ==
  ASSUME ReceiversInv, NoneDestroyedWaiting, [Next]_vars
  PROVE  ReceiversInv'
PROOF
  <1>1. CASE Server
    BY <1>1, ServerKeepsReceivers
  <1>2. ASSUME NEW s \in Signatures, Emit(s) PROVE ReceiversInv'
    BY <1>2, ReceiversStay DEF Emit, clientVars, receiverVars
  <1>3. ASSUME NEW cl \in Clients, Deliver(cl) PROVE ReceiversInv'
    BY <1>3, ReceiversStay
    DEF Deliver, InvokeRemoteSignal, InvokeReceiver, ReadSignal, clientVars, receiverVars
  <1>4. ASSUME NEW cl \in Clients, OtherCall(cl) PROVE ReceiversInv'
    BY <1>4, ConnectToServerKeepsReceivers, ForgetConnectionKeepsReceivers,
       ReturnKeepsReceivers, RemoteConnectToSignalKeepsReceivers DEF OtherCall, Call
  <1>5. ASSUME NEW cl \in Clients, DisconnectFromServer(cl) PROVE ReceiversInv'
    BY <1>5, ReceiversStay DEF DisconnectFromServer, Client!DisconnectFromServer, receiverVars
  <1>6. CASE UNCHANGED vars
    BY <1>6, ReceiversStay DEF vars, clientVars, receiverVars
  <1> QED  BY <1>1, <1>2, <1>3, <1>4, <1>5, <1>6, RemoteConnectKeepsReceivers,
              DisconnectSignalKeepsReceivers, DestroyReceiverKeepsReceivers DEF Next

\* m_connections never points to a receiver that has been destroyed
\* (_q_removeRemoteConnectionsOfObject), for any number of clients, receivers and
\* nested calls, as long as no receiver is destroyed while its own remoteConnect
\* waits.
THEOREM ReceiversExist ==
  ASSUME NoneDestroyedWaiting
  PROVE  Spec => []NoDeadReceiver
PROOF
  <1>1. ReceiversInv /\ [Next]_vars => ReceiversInv'
    BY ReceiversStep
  <1>2. ReceiversInv => NoDeadReceiver
    BY DEF ReceiversInv
  <1> QED  BY <1>1, <1>2, ReceiversStart, PTL DEF Spec

-----------------------------------------------------------------------------
(* Queues                                                                  *)

Inside(queue, i) == i \in 1..Len(queue)

\* What is under way to a receiver, in the order in which it will get there:
\* the invocations among the events, the signals among them, the socket.
Ordered(queue, socket, got) ==
    /\ \A i, j \in 1..Len(queue) :
          \/ i < j /\ queue[i].kind = queue[j].kind
          \/ queue[i].kind = "invocation" /\ queue[j].kind = "signal"
          => queue[i].n <= queue[j].n
    /\ \A i \in 1..Len(queue), k \in 1..Len(socket) : queue[i].n <= socket[k]
    /\ \A r \in Receivers, i \in 1..Len(queue) : got[r] <= queue[i].n
    /\ \A r \in Receivers, k \in 1..Len(socket) : got[r] <= socket[k]

Sorted(socket) ==
    \A i, k \in 1..Len(socket) : i < k => socket[i] <= socket[k]

LEMMA EventNumber == \A e \in Event : e.n \in Nat /\ e.kind \in {"signal", "invocation"}
  BY MaxEmitsAssumption DEF Event, Emissions

LEMMA TypedQueue ==
  ASSUME NEW queue \in Seq(Event)
  PROVE  /\ Len(queue) \in Nat
         /\ \A i \in 1..Len(queue) : /\ queue[i] \in Event /\ queue[i].n \in Nat
                                     /\ queue[i].kind \in {"signal", "invocation"}
  BY LenProperties, ElementOfSeq, EventNumber

LEMMA TypedSocket ==
  ASSUME NEW socket \in Seq(Emissions)
  PROVE  /\ Len(socket) \in Nat
         /\ \A k \in 1..Len(socket) : socket[k] \in Nat
  BY LenProperties, ElementOfSeq, MaxEmitsAssumption DEF Emissions

\* A socket that has lost some of what was in it.
LEMMA OrderedLess ==
  ASSUME NEW queue, NEW socket, NEW rest, NEW got, Ordered(queue, socket, got),
         \A k \in 1..Len(rest) : \E j \in 1..Len(socket) : rest[k] = socket[j]
  PROVE  Ordered(queue, rest, got)
  BY DEF Ordered

LEMMA SortedTail ==
  ASSUME NEW socket \in Seq(Emissions), socket # <<>>, Sorted(socket)
  PROVE  /\ Tail(socket) \in Seq(Emissions) /\ Sorted(Tail(socket))
         /\ \A k \in 1..Len(Tail(socket)) : \E j \in 1..Len(socket) : Tail(socket)[k] = socket[j]
         /\ \A k \in 1..Len(Tail(socket)) : Head(socket) <= Tail(socket)[k]
         /\ Head(socket) \in Emissions /\ Head(socket) = socket[1] /\ 1 \in 1..Len(socket)
PROOF
  <1>1. Len(socket) \in Nat \ {0}
    BY EmptySeq
  <1>2. /\ Tail(socket) \in Seq(Emissions) /\ Len(Tail(socket)) = Len(socket) - 1
        /\ \A k \in 1..Len(Tail(socket)) : Tail(socket)[k] = socket[k + 1]
        /\ Head(socket) \in Emissions
    BY HeadTailProperties
  <1>3. \A k \in 1..Len(Tail(socket)) : k + 1 \in 1..Len(socket)
    BY <1>1, <1>2
  <1>4. Sorted(Tail(socket))
    BY <1>1, <1>2, <1>3 DEF Sorted
  <1>5. Head(socket) = socket[1] /\ 1 \in 1..Len(socket)
    BY <1>1
  <1>6. \A k \in 1..Len(Tail(socket)) : Head(socket) <= Tail(socket)[k]
    BY <1>1, <1>2, <1>3, <1>5 DEF Sorted
  <1> QED  BY <1>2, <1>3, <1>4, <1>5, <1>6

\* ReadSignal
LEMMA OrderedRead ==
  ASSUME NEW queue \in Seq(Event), NEW socket \in Seq(Emissions), socket # <<>>,
         NEW got \in [Receivers -> Nat], Sorted(socket), Ordered(queue, socket, got)
  PROVE  LET e == [kind |-> "signal", n |-> Head(socket), rcv |-> NoReceiver] IN
         queue \o <<e>> \in Seq(Event) /\ Ordered(queue \o <<e>>, Tail(socket), got)
PROOF
  <1> DEFINE e == [kind |-> "signal", n |-> Head(socket), rcv |-> NoReceiver]
             more == queue \o <<e>>
             rest == Tail(socket)
  <1>1. /\ Head(socket) \in Emissions /\ Head(socket) = socket[1] /\ 1 \in 1..Len(socket)
        /\ \A k \in 1..Len(rest) : \E j \in 1..Len(socket) : rest[k] = socket[j]
        /\ \A k \in 1..Len(rest) : Head(socket) <= rest[k]
    BY SortedTail
  <1>2. e \in Event /\ e.kind = "signal" /\ e.n = socket[1]
    BY <1>1 DEF Event
  <1> HIDE DEF e
  <1>3. /\ <<e>> \in Seq(Event) /\ Len(<<e>>) = 1 /\ <<e>>[1] = e
    BY <1>2
  <1>4. /\ more \in Seq(Event) /\ Len(more) = Len(queue) + 1
        /\ \A i \in 1..(Len(queue) + 1) :
              more[i] = IF i <= Len(queue) THEN queue[i] ELSE <<e>>[i - Len(queue)]
    BY <1>3, ConcatProperties
  <1>5. /\ Len(queue) \in Nat
        /\ \A i \in 1..Len(queue) : queue[i].n \in Nat
    BY TypedQueue
  <1> HIDE DEF more, rest
  <1>6. \A i \in 1..Len(more) : (i \in 1..Len(queue) /\ more[i] = queue[i])
                                \/ (i = Len(queue) + 1 /\ more[i] = e)
    <2> SUFFICES ASSUME NEW i \in 1..Len(more)
                 PROVE  (i \in 1..Len(queue) /\ more[i] = queue[i])
                        \/ (i = Len(queue) + 1 /\ more[i] = e)
      OBVIOUS
    <2>1. CASE i <= Len(queue)
      BY <1>4, <1>5, <2>1
    <2>2. CASE i > Len(queue)
      <3>1. i = Len(queue) + 1 /\ i - Len(queue) = 1
        BY <1>4, <1>5, <2>2
      <3> QED  BY <1>3, <1>4, <1>5, <2>2, <3>1
    <2> QED  BY <1>4, <1>5, <2>1, <2>2
  <1>7. socket[1] \in Nat
    BY <1>1, MaxEmitsAssumption DEF Emissions
  <1>8. ASSUME NEW i \in 1..Len(more), NEW j \in 1..Len(more),
               \/ i < j /\ more[i].kind = more[j].kind
               \/ more[i].kind = "invocation" /\ more[j].kind = "signal"
        PROVE  more[i].n <= more[j].n
    <2>1. CASE i \in 1..Len(queue) /\ j \in 1..Len(queue)
      BY <1>5, <1>6, <1>8, <2>1 DEF Ordered
    <2>2. CASE i \in 1..Len(queue) /\ j = Len(queue) + 1
      BY <1>1, <1>2, <1>5, <1>6, <2>2 DEF Ordered
    <2>3. CASE i = Len(queue) + 1 /\ j \in 1..Len(queue)
      BY <1>2, <1>5, <1>6, <1>8, <2>3
    <2>4. CASE i = j
      BY <1>2, <1>5, <1>6, <1>7, <2>4
    <2> QED  BY <1>6, <2>1, <2>2, <2>3, <2>4
  <1>9. \A i \in 1..Len(more), k \in 1..Len(rest) : more[i].n <= rest[k]
    BY <1>1, <1>2, <1>6 DEF Ordered
  <1>10. \A r \in Receivers, i \in 1..Len(more) : got[r] <= more[i].n
    BY <1>1, <1>2, <1>6 DEF Ordered
  <1>11. \A r \in Receivers, k \in 1..Len(rest) : got[r] <= rest[k]
    BY <1>1 DEF Ordered
  <1>12. Ordered(more, rest, got)
    BY <1>8, <1>9, <1>10, <1>11 DEF Ordered
  <1> QED  BY <1>4, <1>12 DEF more, rest, e

\* InvokeRemoteSignal
LEMMA OrderedInvocations ==
  ASSUME NEW queue \in Seq(Event), queue # <<>>, Head(queue).kind = "signal",
         NEW posted \in Seq(Event),
         \A i \in 1..Len(posted) : posted[i].kind = "invocation" /\ posted[i].n = Head(queue).n,
         NEW socket, NEW got, Ordered(queue, socket, got)
  PROVE  Ordered(Tail(queue) \o posted, socket, got)
PROOF
  <1> DEFINE rest == Tail(queue)
             more == rest \o posted
             n == Head(queue).n
  <1>1. Len(queue) \in Nat \ {0} /\ Head(queue) = queue[1] /\ 1 \in 1..Len(queue)
    BY EmptySeq
  <1>2. /\ rest \in Seq(Event) /\ Len(rest) = Len(queue) - 1
        /\ \A i \in 1..Len(rest) : rest[i] = queue[i + 1]
    BY HeadTailProperties
  <1> HIDE DEF rest
  <1>3. /\ more \in Seq(Event) /\ Len(more) = Len(rest) + Len(posted)
        /\ \A i \in 1..(Len(rest) + Len(posted)) :
              more[i] = IF i <= Len(rest) THEN rest[i] ELSE posted[i - Len(rest)]
    BY <1>2, ConcatProperties
  <1>4. Len(posted) \in Nat /\ Len(rest) \in Nat
    BY <1>2, TypedQueue
  <1>5. \A i \in 1..Len(more) :
           \/ i <= Len(rest) /\ i + 1 \in 1..Len(queue) /\ more[i] = queue[i + 1]
           \/ i > Len(rest) /\ more[i].kind = "invocation" /\ more[i].n = n
    <2> SUFFICES ASSUME NEW i \in 1..Len(more)
                 PROVE  \/ i <= Len(rest) /\ i + 1 \in 1..Len(queue) /\ more[i] = queue[i + 1]
                        \/ i > Len(rest) /\ more[i].kind = "invocation" /\ more[i].n = n
      OBVIOUS
    <2>1. CASE i <= Len(rest)
      BY <1>1, <1>2, <1>3, <1>4, <2>1
    <2>2. CASE i > Len(rest)
      <3>1. i - Len(rest) \in 1..Len(posted) /\ more[i] = posted[i - Len(rest)]
        BY <1>3, <1>4, <2>2
      <3> QED  BY <2>2, <3>1
    <2> QED  BY <1>4, <2>1, <2>2
  <1> HIDE DEF more
  <1>6. queue[1].kind = "signal" /\ queue[1].n = n
    BY <1>1
  <1>7. n \in Nat
    BY <1>1, <1>6, TypedQueue
  <1> HIDE DEF n
  <1>8. ASSUME NEW i \in 1..Len(more), NEW j \in 1..Len(more),
               \/ i < j /\ more[i].kind = more[j].kind
               \/ more[i].kind = "invocation" /\ more[j].kind = "signal"
        PROVE  more[i].n <= more[j].n
    <2>1. CASE i <= Len(rest) /\ j <= Len(rest)
      <3>1. /\ i + 1 \in 1..Len(queue) /\ j + 1 \in 1..Len(queue)
            /\ more[i] = queue[i + 1] /\ more[j] = queue[j + 1]
            /\ i < j => i + 1 < j + 1
        BY <1>4, <1>5, <2>1
      <3> QED  BY <1>8, <3>1 DEF Ordered
    <2>2. CASE i <= Len(rest) /\ j > Len(rest)
      <3>1. /\ i + 1 \in 1..Len(queue) /\ more[i] = queue[i + 1]
            /\ more[j].kind = "invocation" /\ more[j].n = n
        BY <1>4, <1>5, <2>2
      <3>2. queue[i + 1].kind = "invocation"
        BY <1>8, <3>1
      <3> QED  BY <1>1, <1>6, <3>1, <3>2 DEF Ordered
    <2>3. CASE i > Len(rest) /\ j <= Len(rest)
      <3>1. /\ j + 1 \in 1..Len(queue) /\ more[j] = queue[j + 1] /\ 1 < j + 1
            /\ more[i].kind = "invocation" /\ more[i].n = n /\ ~(i < j)
        BY <1>4, <1>5, <2>3
      <3>2. queue[j + 1].kind = "signal"
        BY <1>8, <3>1
      <3> QED  BY <1>1, <1>6, <3>1, <3>2 DEF Ordered
    <2>4. CASE i > Len(rest) /\ j > Len(rest)
      BY <1>4, <1>5, <1>7, <2>4
    <2> QED  BY <1>4, <2>1, <2>2, <2>3, <2>4
  <1>9. \A i \in 1..Len(more) : \E j \in 1..Len(queue) : more[i].n = queue[j].n
    BY <1>1, <1>5, <1>6
  <1>10. Ordered(more, socket, got)
    BY <1>8, <1>9 DEF Ordered
  <1> QED  BY <1>10 DEF more, rest

\* InvokeReceiver
LEMMA OrderedInvoke ==
  ASSUME NEW queue \in Seq(Event), queue # <<>>, Head(queue).kind = "invocation",
         NEW socket \in Seq(Emissions), NEW got \in [Receivers -> Nat],
         NEW now \in [Receivers -> Nat], Ordered(queue, socket, got),
         \A r \in Receivers : now[r] = got[r] \/ now[r] = Head(queue).n
  PROVE  Tail(queue) \in Seq(Event) /\ Ordered(Tail(queue), socket, now)
PROOF
  <1> DEFINE rest == Tail(queue)
  <1>1. Len(queue) \in Nat \ {0} /\ Head(queue) = queue[1] /\ 1 \in 1..Len(queue)
    BY EmptySeq
  <1>2. /\ rest \in Seq(Event) /\ Len(rest) = Len(queue) - 1
        /\ \A i \in 1..Len(rest) : rest[i] = queue[i + 1]
    BY HeadTailProperties
  <1>3. \A i \in 1..Len(rest) : i + 1 \in 1..Len(queue) /\ 1 < i + 1
    BY <1>1, <1>2
  <1> HIDE DEF rest
  <1>4. \A i \in 1..Len(rest) : queue[1].n <= rest[i].n
    BY <1>1, <1>2, <1>3, TypedQueue DEF Ordered
  <1>5. \A i, j \in 1..Len(rest) : i < j => i + 1 < j + 1
    BY <1>1, <1>2
  <1>6. \A i, j \in 1..Len(rest) :
           \/ i < j /\ rest[i].kind = rest[j].kind
           \/ rest[i].kind = "invocation" /\ rest[j].kind = "signal"
           => rest[i].n <= rest[j].n
    BY <1>2, <1>3, <1>5 DEF Ordered
  <1>7. \A i \in 1..Len(rest), k \in 1..Len(socket) : rest[i].n <= socket[k]
    BY <1>2, <1>3 DEF Ordered
  <1>8. \A r \in Receivers, i \in 1..Len(rest) : now[r] <= rest[i].n
    BY <1>1, <1>2, <1>3, <1>4 DEF Ordered
  <1>9. \A r \in Receivers, k \in 1..Len(socket) : now[r] <= socket[k]
    BY <1>1 DEF Ordered
  <1>10. Ordered(rest, socket, now)
    BY <1>6, <1>7, <1>8, <1>9 DEF Ordered
  <1> QED  BY <1>2, <1>10 DEF rest

\* DestroyReceiver
LEMMA OrderedDrop ==
  ASSUME NEW queue \in Seq(Event), NEW r \in Receivers
  PROVE  /\ DropEvents(queue, r) \in Seq(Event)
         /\ \A socket, got : Ordered(queue, socket, got) => Ordered(DropEvents(queue, r), socket, got)
         /\ Len(DropEvents(queue, r)) = Len(queue)
         /\ \A i \in 1..Len(queue) : DropEvents(queue, r)[i].n = queue[i].n
PROOF
  <1> DEFINE left == DropEvents(queue, r)
  <1>1. Len(queue) \in Nat /\ DOMAIN queue = 1..Len(queue)
        /\ \A i \in 1..Len(queue) : queue[i] \in Event
    BY LenProperties, ElementOfSeq
  <1>2. \A i \in 1..Len(queue) :
           left[i] \in Event /\ left[i].kind = queue[i].kind /\ left[i].n = queue[i].n
    BY <1>1 DEF DropEvents, Event
  <1>3. left = [i \in 1..Len(queue) |-> left[i]]
    BY <1>1 DEF DropEvents
  <1> HIDE DEF left
  <1>4. left \in [1..Len(queue) -> Event]
    BY <1>2, <1>3
  <1>5. left \in Seq(Event) /\ Len(left) = Len(queue)
    BY <1>1, <1>4
  <1> QED  BY <1>2, <1>5 DEF left, Ordered

-----------------------------------------------------------------------------
(* Order                                                                   *)

QueueTypes ==
    /\ conn \in [Clients -> Conns \cup {NoConn}]
    /\ DOMAIN overwritten = Clients
    /\ connState \in [Conns -> {"none", "open", "doomed"}]
    /\ emitted \in Seq(Exposed)
    /\ wire \in [Conns -> Seq(Emissions)]
    /\ events \in [Clients -> Seq(Event)]
    /\ last \in [Clients -> [Receivers -> Nat]]

\* The server's end of a socket that a client holds open is open, and a socket
\* that nobody holds is empty.
SocketsOpen ==
    \A cl \in Clients, c \in Conns : c \in Client!Sockets(cl) => connState[c] = "open"
ClosedEmpty == \A c \in Conns : wire[c] # <<>> => ClientOpen(c)

\* Nothing is under way that has not been emitted.
Past ==
    /\ \A c \in Conns : \A k \in 1..Len(wire[c]) : wire[c][k] <= Len(emitted)
    /\ \A cl \in Clients : \A i \in 1..Len(events[cl]) : events[cl][i].n <= Len(emitted)
    /\ \A cl \in Clients, r \in Receivers : last[cl][r] <= Len(emitted)

WiresSorted == \A c \in Conns : Sorted(wire[c])

SocketOf(cl) == IF conn[cl] \in Conns THEN wire[conn[cl]] ELSE <<>>

QueuesOrdered ==
    \A cl \in Clients : overwritten[cl] = {} => Ordered(events[cl], SocketOf(cl), last[cl])

OrderInv == QueueTypes /\ SocketsOpen /\ ClosedEmpty /\ Past /\ WiresSorted /\ QueuesOrdered

queueVars == <<conn, overwritten, connState, emitted, wire, events, last>>

\* What a step does to the emissions that receivers get.
StepInOrder ==
    \A cl \in Clients, r \in Receivers :
        overwritten[cl] = {} => last'[cl][r] >= last[cl][r]

LEMMA OrderStart == Init => OrderInv
PROOF
  <1> SUFFICES ASSUME Init PROVE OrderInv
    OBVIOUS
  <1>1. QueueTypes
    BY DEF Init, Client!Init, Client!Service!Init, QueueTypes
  <1>2. \A cl \in Clients : Client!Sockets(cl) = {NoConn}
    BY DEF Init, Client!Init, Client!Sockets
  <1>3. SocketsOpen /\ ClosedEmpty
    BY <1>2, ConstantsAssumption DEF Init, SocketsOpen, ClosedEmpty
  <1>4. Past /\ WiresSorted
    BY DEF Init, Past, WiresSorted, Sorted
  <1>5. QueuesOrdered
    BY ConstantsAssumption DEF Init, Client!Init, QueuesOrdered, Ordered, SocketOf
  <1> QED  BY <1>1, <1>3, <1>4, <1>5 DEF OrderInv

LEMMA LastStays ==
  ASSUME OrderInv, UNCHANGED last
  PROVE  StepInOrder
  BY DEF OrderInv, QueueTypes, StepInOrder

LEMMA OrderStays ==
  ASSUME OrderInv, UNCHANGED queueVars
  PROVE  OrderInv'
PROOF
  <1>1. QueueTypes' /\ Past' /\ WiresSorted'
    BY DEF OrderInv, queueVars, QueueTypes, Past, WiresSorted, Sorted
  <1>2. SocketsOpen' /\ ClosedEmpty'
    BY DEF OrderInv, queueVars, SocketsOpen, ClosedEmpty, ClientOpen, Client!Sockets
  <1>3. QueuesOrdered'
    BY DEF OrderInv, queueVars, QueuesOrdered, Ordered, SocketOf
  <1> QED  BY <1>1, <1>2, <1>3 DEF OrderInv

\* Steps that leave the queues and the sockets alone.
LEMMA OrderStaysWithQueues ==
  ASSUME OrderInv, UNCHANGED <<conn, overwritten, emitted, wire, events, last>>,
         connState' \in [Conns -> {"none", "open", "doomed"}],
         SocketsOpen'
  PROVE  OrderInv'
PROOF
  <1>1. QueueTypes' /\ Past' /\ WiresSorted'
    BY DEF OrderInv, QueueTypes, Past, WiresSorted, Sorted
  <1>2. ClosedEmpty'
    BY DEF OrderInv, ClosedEmpty, ClientOpen, Client!Sockets
  <1>3. QueuesOrdered'
    BY DEF OrderInv, QueuesOrdered, Ordered, SocketOf
  <1> QED  BY <1>1, <1>2, <1>3 DEF OrderInv

LEMMA HouseKeepKeepsOrder ==
  ASSUME OrderInv, HouseKeep, UNCHANGED <<emitted, wire, events, last>>
  PROVE  OrderInv'
PROOF
  <1>1. UNCHANGED <<conn, overwritten>>
    BY DEF HouseKeep
  <1>2. ASSUME NEW c \in Conns, Client!NoticeClose(c) PROVE OrderInv'
    <2>1. /\ \A cl \in Clients : c \notin Client!Sockets(cl)
          /\ connState' = [connState EXCEPT ![c] = "doomed"]
      BY <1>2 DEF Client!NoticeClose, Client!Service!CloseConnection
    <2>2. SocketsOpen'
      BY <1>1, <2>1 DEF OrderInv, QueueTypes, SocketsOpen, Client!Sockets
    <2> QED  BY <1>1, <2>1, <2>2, OrderStaysWithQueues DEF OrderInv, QueueTypes
  <1>3. ASSUME NEW c \in Conns, Client!Service!DeleteConnection(c) PROVE OrderInv'
    <2>1. /\ connState[c] = "doomed"
          /\ connState' = [connState EXCEPT ![c] = "none"]
      BY <1>3 DEF Client!Service!DeleteConnection
    <2>2. SocketsOpen'
      BY <1>1, <2>1 DEF OrderInv, QueueTypes, SocketsOpen, Client!Sockets
    <2> QED  BY <1>1, <2>1, <2>2, OrderStaysWithQueues DEF OrderInv, QueueTypes
  <1>4. ASSUME NEW h \in Handlers, Client!Service!DeleteHandler(h) PROVE OrderInv'
    BY <1>1, <1>4, OrderStays DEF Client!Service!DeleteHandler, queueVars
  <1> QED  BY <1>2, <1>3, <1>4 DEF HouseKeep

LEMMA ServerKeepsOrder == OrderInv /\ Server => OrderInv'
PROOF
  <1> SUFFICES ASSUME OrderInv, Server PROVE OrderInv'
    OBVIOUS
  <1>1. UNCHANGED <<emitted, wire, events, existing, last>>
    BY DEF Server
  <1>2. ASSUME NEW cl \in Clients, NEW i \in DOMAIN ops[cl],
               HandleSubscribe(cl, i) \/ HandleOther(cl, i)
        PROVE  UNCHANGED <<conn, overwritten, connState>>
    <2>1. CASE HandleSubscribe(cl, i)
      BY <2>1 DEF HandleSubscribe, Client!HandleSubscribe, Client!Reply, Client!linkVars,
         Client!serviceVars, Client!Service!HandleSignalRequest,
         Client!Service!SubscribeToExisting, Client!Service!SubscribeToNew
    <2>2. CASE HandleOther(cl, i)
      BY <2>2 DEF HandleOther, Client!HandleInitialize, Client!HandleUnsubscribe, Client!Reply,
         Client!linkVars, Client!serviceVars, Client!Service!InitializeConnection,
         Client!Service!HandleSignalDisconnect
    <2> QED  BY <1>2, <2>1, <2>2
  <1> QED  BY <1>1, <1>2, HouseKeepKeepsOrder, OrderStays DEF Server, queueVars

LEMMA CopiesFinite == ASSUME NEW s, NEW c PROVE Copies(s, c) \in Nat
PROOF
  <1>1. 1 \in Int /\ MaxWired \in Int
    BY ConstantsAssumption
  <1>2. IsFiniteSet(1..MaxWired)
    BY <1>1, FS_Interval
  <1>3. IsFiniteSet(Handlers \X (1..MaxWired))
    BY <1>2, ConstantsAssumption, FS_Product
  <1>4. Relaying(s, c) \in SUBSET (Handlers \X (1..MaxWired))
    BY DEF Relaying
  <1>5. IsFiniteSet(Relaying(s, c))
    BY <1>3, <1>4, FS_Subset
  <1> QED  BY <1>5, FS_CardinalityType DEF Copies

\* A socket that an emission has been sent to.
LEMMA Sent ==
  ASSUME NEW socket \in Seq(Emissions), NEW n \in Emissions, NEW m \in Nat
  PROVE  LET more == socket \o [k \in 1..m |-> n] IN
         /\ more \in Seq(Emissions)
         /\ \A k \in 1..Len(more) :
               \/ k \in 1..Len(socket) /\ more[k] = socket[k]
               \/ more[k] = n /\ \A j \in 1..Len(socket) : j < k
PROOF
  <1> DEFINE copies == [k \in 1..m |-> n]
             more == socket \o copies
  <1>1. copies \in Seq(Emissions) /\ Len(copies) = m /\ \A k \in 1..m : copies[k] = n
    OBVIOUS
  <1> HIDE DEF copies
  <1>2. /\ more \in Seq(Emissions) /\ Len(more) = Len(socket) + Len(copies)
        /\ \A k \in 1..(Len(socket) + Len(copies)) :
              more[k] = IF k <= Len(socket) THEN socket[k] ELSE copies[k - Len(socket)]
    BY <1>1, ConcatProperties
  <1>3. Len(socket) \in Nat
    BY LenProperties
  <1> HIDE DEF more
  <1>4. ASSUME NEW k \in 1..Len(more)
        PROVE  \/ k \in 1..Len(socket) /\ more[k] = socket[k]
               \/ more[k] = n /\ \A j \in 1..Len(socket) : j < k
    <2>1. CASE k <= Len(socket)
      BY <1>1, <1>2, <1>3, <2>1
    <2>2. CASE k > Len(socket)
      <3>1. k - Len(socket) \in 1..m /\ \A j \in 1..Len(socket) : j < k
        BY <1>1, <1>2, <1>3, <2>2
      <3> QED  BY <1>1, <1>2, <1>3, <2>2, <3>1
    <2> QED  BY <1>2, <1>3, <2>1, <2>2
  <1> QED  BY <1>2, <1>4 DEF more, copies

LEMMA EmitKeepsOrder ==
  ASSUME OrderInv, NEW s \in Signatures, Emit(s)
  PROVE  OrderInv'
PROOF
  <1> DEFINE n == Len(emitted) + 1
  <1>1. /\ s \in Exposed /\ n \in Emissions /\ emitted' = Append(emitted, s)
        /\ wire' = [c \in Conns |->
              IF ClientOpen(c) THEN wire[c] \o [k \in 1..Copies(s, c) |-> n] ELSE <<>>]
        /\ UNCHANGED <<conn, overwritten, connState, events, last>>
    BY DEF Emit, clientVars
  <1>2. Len(emitted) \in Nat /\ emitted' \in Seq(Exposed) /\ Len(emitted') = n
    BY <1>1, LenProperties, AppendProperties DEF OrderInv, QueueTypes
  <1>3. ASSUME NEW c \in Conns
        PROVE  /\ wire'[c] \in Seq(Emissions)
               /\ \A k \in 1..Len(wire'[c]) :
                     \/ k \in 1..Len(wire[c]) /\ wire'[c][k] = wire[c][k]
                     \/ wire'[c][k] = n /\ \A j \in 1..Len(wire[c]) : j < k
    <2>1. CASE ~ClientOpen(c)
      <3>1. wire'[c] = <<>>
        BY <1>1, <2>1
      <3> QED  BY <3>1
    <2>2. CASE ClientOpen(c)
      <3> DEFINE m == Copies(s, c)
                 socket == wire[c]
      <3>1. m \in Nat /\ socket \in Seq(Emissions) /\ n \in Emissions
        BY <1>1, CopiesFinite DEF OrderInv, QueueTypes
      <3>2. wire'[c] = socket \o [k \in 1..m |-> n]
        BY <1>1, <2>2
      <3> HIDE DEF m, socket, n
      <3>3. LET more == socket \o [k \in 1..m |-> n] IN
            /\ more \in Seq(Emissions)
            /\ \A k \in 1..Len(more) :
                  \/ k \in 1..Len(socket) /\ more[k] = socket[k]
                  \/ more[k] = n /\ \A j \in 1..Len(socket) : j < k
        BY <3>1, Sent
      <3> QED  BY <3>2, <3>3 DEF socket
    <2> QED  BY <2>1, <2>2
  <1>4. QueueTypes'
    BY <1>1, <1>2, <1>3 DEF OrderInv, QueueTypes
  <1>5. SocketsOpen' /\ ClosedEmpty'
    BY <1>1 DEF OrderInv, SocketsOpen, ClosedEmpty, ClientOpen, Client!Sockets
  <1>6. \A c \in Conns : \A k \in 1..Len(wire[c]) : wire[c][k] <= Len(emitted) /\ wire[c][k] \in Nat
    BY TypedSocket DEF OrderInv, QueueTypes, Past
  <1>7. \A cl \in Clients : \A i \in 1..Len(events[cl]) :
           events[cl][i].n <= Len(emitted) /\ events[cl][i].n \in Nat
    BY TypedQueue DEF OrderInv, QueueTypes, Past
  <1>8. \A cl \in Clients, r \in Receivers : last[cl][r] <= Len(emitted) /\ last[cl][r] \in Nat
    BY DEF OrderInv, QueueTypes, Past
  <1>9. Past'
    <2>1. \A c \in Conns : \A k \in 1..Len(wire'[c]) : wire'[c][k] <= Len(emitted')
      <3> SUFFICES ASSUME NEW c \in Conns, NEW k \in 1..Len(wire'[c])
                   PROVE  wire'[c][k] <= Len(emitted')
        OBVIOUS
      <3>1. \/ k \in 1..Len(wire[c]) /\ wire'[c][k] = wire[c][k]
            \/ wire'[c][k] = n
        BY <1>3
      <3> QED  BY <1>2, <1>6, <3>1
    <2>2. \A cl \in Clients : \A i \in 1..Len(events'[cl]) : events'[cl][i].n <= Len(emitted')
      BY <1>1, <1>2, <1>7
    <2>3. \A cl \in Clients, r \in Receivers : last'[cl][r] <= Len(emitted')
      BY <1>1, <1>2, <1>8
    <2> QED  BY <2>1, <2>2, <2>3 DEF Past
  <1>10. ASSUME NEW c \in Conns, NEW j \in 1..Len(wire'[c]), NEW k \in 1..Len(wire'[c]), j < k
         PROVE  wire'[c][j] <= wire'[c][k]
    <2>1. Len(wire'[c]) \in Nat /\ Len(wire[c]) \in Nat
      BY <1>3, LenProperties DEF OrderInv, QueueTypes
    <2>2. CASE k \in 1..Len(wire[c]) /\ wire'[c][k] = wire[c][k]
      <3>1. j \in 1..Len(wire[c]) /\ wire'[c][j] = wire[c][j]
        BY <1>3, <1>10, <2>1, <2>2
      <3> QED  BY <1>10, <2>2, <3>1 DEF OrderInv, WiresSorted, Sorted
    <2>3. CASE wire'[c][k] = n
      BY <1>2, <1>3, <1>6, <2>3
    <2> QED  BY <1>3, <2>2, <2>3
  <1>11. QueuesOrdered'
    <2> SUFFICES ASSUME NEW cl \in Clients, overwritten'[cl] = {}
                 PROVE  Ordered(events'[cl], SocketOf(cl)', last'[cl])
      BY DEF QueuesOrdered
    <2>1. Ordered(events[cl], SocketOf(cl), last[cl])
      BY <1>1 DEF OrderInv, QueuesOrdered
    <2>2. \A k \in 1..Len(SocketOf(cl)') :
             \/ k \in 1..Len(SocketOf(cl)) /\ SocketOf(cl)'[k] = SocketOf(cl)[k]
             \/ SocketOf(cl)'[k] = n
      BY <1>1, <1>3 DEF SocketOf
    <2>3. \A i \in 1..Len(events[cl]) : events[cl][i].n <= n
      BY <1>2, <1>7
    <2>4. \A r \in Receivers : last[cl][r] <= n
      BY <1>2, <1>8
    <2> QED  BY <1>1, <2>1, <2>2, <2>3, <2>4 DEF Ordered
  <1> QED  BY <1>4, <1>5, <1>9, <1>10, <1>11 DEF OrderInv, WiresSorted, Sorted

\* The events of a thread to which others have been posted.
LEMMA Posted ==
  ASSUME NEW queue \in Seq(Event), NEW es \in Seq(Event)
  PROVE  /\ queue \o es \in Seq(Event)
         /\ \A i \in 1..Len(queue \o es) :
               \/ \E j \in 1..Len(queue) : (queue \o es)[i] = queue[j]
               \/ \E j \in 1..Len(es) : (queue \o es)[i] = es[j]
PROOF
  <1> DEFINE more == queue \o es
  <1>1. /\ more \in Seq(Event) /\ Len(more) = Len(queue) + Len(es)
        /\ \A i \in 1..(Len(queue) + Len(es)) :
              more[i] = IF i <= Len(queue) THEN queue[i] ELSE es[i - Len(queue)]
    BY ConcatProperties
  <1>2. Len(queue) \in Nat /\ Len(es) \in Nat
    BY LenProperties
  <1> HIDE DEF more
  <1>3. ASSUME NEW i \in 1..Len(more)
        PROVE  \/ \E j \in 1..Len(queue) : more[i] = queue[j]
               \/ \E j \in 1..Len(es) : more[i] = es[j]
    <2>1. CASE i <= Len(queue)
      BY <1>1, <1>2, <2>1
    <2>2. CASE i > Len(queue)
      <3>1. i - Len(queue) \in 1..Len(es) /\ more[i] = es[i - Len(queue)]
        BY <1>1, <1>2, <2>2
      <3> QED  BY <3>1
    <2> QED  BY <1>1, <1>2, <2>1, <2>2
  <1> QED  BY <1>1, <1>3 DEF more

LEMMA ReadSignalKeepsOrder ==
  ASSUME OrderInv, NEW cl \in Clients, NEW c \in Conns, ReadSignal(cl, c)
  PROVE  OrderInv'
PROOF
  <1> DEFINE e == [kind |-> "signal", n |-> Head(wire[c]), rcv |-> NoReceiver]
  <1>1. /\ c \in Client!Sockets(cl) /\ wire[c] # <<>>
        /\ wire' = [wire EXCEPT ![c] = Tail(wire[c])]
        /\ events' = [events EXCEPT ![cl] = events[cl] \o <<e>>]
        /\ UNCHANGED <<conn, overwritten, connState, emitted, last>>
    BY DEF ReadSignal, Post, clientVars
  <1>2. /\ wire[c] \in Seq(Emissions) /\ Sorted(wire[c])
        /\ events[cl] \in Seq(Event) /\ last[cl] \in [Receivers -> Nat]
    BY DEF OrderInv, QueueTypes, WiresSorted
  <1>3. /\ Tail(wire[c]) \in Seq(Emissions) /\ Sorted(Tail(wire[c]))
        /\ \A k \in 1..Len(Tail(wire[c])) : \E j \in 1..Len(wire[c]) : Tail(wire[c])[k] = wire[c][j]
        /\ Head(wire[c]) \in Emissions /\ Head(wire[c]) = wire[c][1] /\ 1 \in 1..Len(wire[c])
    BY <1>1, <1>2, SortedTail
  <1>4. e \in Event /\ e.n = wire[c][1]
    BY <1>3 DEF Event
  <1>5. overwritten[cl] = {} =>
           Ordered(events[cl], wire[c], last[cl]) /\ SocketOf(cl) = wire[c] /\ conn[cl] = c
    BY <1>1 DEF OrderInv, QueuesOrdered, SocketOf, Client!Sockets
  <1>6. overwritten[cl] = {} => Ordered(events[cl] \o <<e>>, Tail(wire[c]), last[cl])
    BY <1>1, <1>2, <1>5, OrderedRead
  <1> HIDE DEF e
  <1>7. <<e>> \in Seq(Event) /\ Len(<<e>>) = 1 /\ <<e>>[1] = e
    BY <1>4
  <1>8. /\ events[cl] \o <<e>> \in Seq(Event)
        /\ \A i \in 1..Len(events[cl] \o <<e>>) :
              \/ \E j \in 1..Len(events[cl]) : (events[cl] \o <<e>>)[i] = events[cl][j]
              \/ (events[cl] \o <<e>>)[i] = e
    <2>1. \A j \in 1..Len(<<e>>) : <<e>>[j] = e
      BY <1>7
    <2> QED  BY <1>2, <1>7, <2>1, Posted
  <1>9. QueueTypes'
    BY <1>1, <1>3, <1>8 DEF OrderInv, QueueTypes
  <1>10. SocketsOpen' /\ ClosedEmpty'
    <2>1. \A d \in Conns : wire'[d] # <<>> => wire[d] # <<>>
      BY <1>1 DEF OrderInv, QueueTypes
    <2> QED  BY <1>1, <2>1 DEF OrderInv, SocketsOpen, ClosedEmpty, ClientOpen, Client!Sockets
  <1>11. \A d \in Conns : wire'[d] = wire[d] \/ (d = c /\ wire'[d] = Tail(wire[c]))
    BY <1>1 DEF OrderInv, QueueTypes
  <1>12. \A d \in Clients : events'[d] = events[d] \/ (d = cl /\ events'[d] = events[cl] \o <<e>>)
    BY <1>1 DEF OrderInv, QueueTypes
  <1>13. Past'
    <2>1. \A d \in Conns : \A k \in 1..Len(wire'[d]) : wire'[d][k] <= Len(emitted')
      BY <1>1, <1>3, <1>11 DEF OrderInv, Past
    <2>2. \A d \in Clients : \A i \in 1..Len(events'[d]) : events'[d][i].n <= Len(emitted')
      <3>1. /\ e.n <= Len(emitted)
            /\ \A d \in Clients : \A i \in 1..Len(events[d]) : events[d][i].n <= Len(emitted)
        BY <1>3, <1>4 DEF OrderInv, Past
      <3>2. \A i \in 1..Len(events[cl] \o <<e>>) : (events[cl] \o <<e>>)[i].n <= Len(emitted)
        BY <1>8, <3>1
      <3> QED  BY <1>1, <1>12, <3>1, <3>2
    <2>3. \A d \in Clients, r \in Receivers : last'[d][r] <= Len(emitted')
      BY <1>1 DEF OrderInv, Past
    <2> QED  BY <2>1, <2>2, <2>3 DEF Past
  <1>14. WiresSorted'
    BY <1>3, <1>11 DEF OrderInv, WiresSorted
  <1>15. ASSUME NEW d \in Clients, overwritten'[d] = {}
         PROVE  Ordered(events'[d], SocketOf(d)', last'[d])
    <2>1. CASE d = cl
      <3>1. /\ events'[d] = events[cl] \o <<e>> /\ last'[d] = last[cl]
            /\ SocketOf(d)' = Tail(wire[c])
        BY <1>1, <1>5, <1>15, <2>1 DEF OrderInv, QueueTypes, SocketOf
      <3> QED  BY <1>1, <1>6, <1>15, <2>1, <3>1
    <2>2. CASE d # cl
      <3>1. /\ Ordered(events[d], SocketOf(d), last[d])
            /\ events'[d] = events[d] /\ last'[d] = last[d]
        BY <1>1, <1>15, <2>2 DEF OrderInv, QueueTypes, QueuesOrdered
      <3>2. \A k \in 1..Len(SocketOf(d)') : \E j \in 1..Len(SocketOf(d)) :
               SocketOf(d)'[k] = SocketOf(d)[j]
        BY <1>1, <1>3, <1>11 DEF SocketOf
      <3> QED  BY <3>1, <3>2, OrderedLess
    <2> QED  BY <2>1, <2>2
  <1> QED  BY <1>9, <1>10, <1>13, <1>14, <1>15 DEF OrderInv, QueuesOrdered

\* Steps that leave the sockets alone.
LEMMA EventsKeepOrder ==
  ASSUME OrderInv, UNCHANGED <<conn, overwritten, connState, emitted, wire>>,
         events' \in [Clients -> Seq(Event)], last' \in [Clients -> [Receivers -> Nat]],
         \A d \in Clients : \A i \in 1..Len(events'[d]) : \E j \in 1..Len(events[d]) :
            events'[d][i].n = events[d][j].n,
         \A d \in Clients, r \in Receivers :
            \/ last'[d][r] = last[d][r]
            \/ \E j \in 1..Len(events[d]) : last'[d][r] = events[d][j].n,
         \A d \in Clients : Ordered(events[d], SocketOf(d), last[d])
                            => Ordered(events'[d], SocketOf(d), last'[d])
  PROVE  OrderInv'
PROOF
  <1>1. QueueTypes' /\ WiresSorted'
    BY DEF OrderInv, QueueTypes, WiresSorted, Sorted
  <1>2. SocketsOpen' /\ ClosedEmpty'
    BY DEF OrderInv, SocketsOpen, ClosedEmpty, ClientOpen, Client!Sockets
  <1>3. Past'
    <2>1. \A c \in Conns : \A k \in 1..Len(wire'[c]) : wire'[c][k] <= Len(emitted')
      BY DEF OrderInv, Past
    <2>2. \A d \in Clients : \A i \in 1..Len(events'[d]) : events'[d][i].n <= Len(emitted')
      BY DEF OrderInv, Past
    <2>3. \A d \in Clients, r \in Receivers : last'[d][r] <= Len(emitted')
      BY DEF OrderInv, Past
    <2> QED  BY <2>1, <2>2, <2>3 DEF Past
  <1>4. \A d \in Clients : SocketOf(d)' = SocketOf(d)
    BY DEF SocketOf
  <1>5. QueuesOrdered'
    BY <1>4 DEF OrderInv, QueuesOrdered
  <1> QED  BY <1>1, <1>2, <1>3, <1>5 DEF OrderInv

LEMMA InvokeRemoteSignalKeepsOrder ==
  ASSUME OrderInv, NEW cl \in Clients, InvokeRemoteSignal(cl)
  PROVE  OrderInv'
PROOF
  <1> DEFINE queue == events[cl]
             n == Head(queue).n
             found == Entries(cl, emitted[n])
  <1>1. PICK list \in SetToSeqs(found) :
           events' = [events EXCEPT ![cl] = Tail(queue) \o
              [i \in DOMAIN list |-> [kind |-> "invocation", n |-> n, rcv |-> list[i][1]]]]
    BY DEF InvokeRemoteSignal, Post
  <1>2. /\ queue # <<>> /\ Head(queue).kind = "signal"
        /\ UNCHANGED <<conn, overwritten, connState, emitted, wire, last>>
    BY DEF InvokeRemoteSignal, NextEvent, clientVars
  <1>3. /\ queue \in Seq(Event) /\ Tail(queue) \in Seq(Event) /\ Len(queue) \in Nat \ {0}
        /\ Head(queue) = queue[1] /\ 1 \in 1..Len(queue) /\ queue[1] \in Event
        /\ Len(Tail(queue)) = Len(queue) - 1
        /\ \A i \in 1..Len(Tail(queue)) : Tail(queue)[i] = queue[i + 1]
    BY <1>2, EmptySeq, HeadTailProperties, ElementOfSeq DEF OrderInv, QueueTypes
  <1>4. found \in SUBSET (Receivers \X (1..MaxCalls[cl]))
    BY DEF Entries
  <1>5. Cardinality(found) \in Nat
    <2>1. 1 \in Int /\ MaxCalls[cl] \in Int
      BY ConstantsAssumption
    <2>2. IsFiniteSet(1..MaxCalls[cl])
      BY <2>1, FS_Interval
    <2>3. IsFiniteSet(Receivers \X (1..MaxCalls[cl]))
      BY <2>2, ConstantsAssumption, FS_Product
    <2> QED  BY <1>4, <2>3, FS_Subset, FS_CardinalityType
  <1> DEFINE m == Cardinality(found)
             posted == [i \in 1..m |-> [kind |-> "invocation", n |-> n, rcv |-> list[i][1]]]
  <1>6. list \in [1..m -> found]
    BY <1>1 DEF SetToSeqs
  <1>7. n \in Emissions
    BY <1>3 DEF Event
  <1> HIDE DEF m, found, n
  <1>8. /\ m \in Nat
        /\ \A i \in 1..m : [kind |-> "invocation", n |-> n, rcv |-> list[i][1]] \in Event
    BY <1>4, <1>5, <1>6, <1>7 DEF m, Event
  <1>9. posted \in Seq(Event) /\ Len(posted) = m
    BY <1>8
  <1>10. \A i \in 1..Len(posted) : posted[i].kind = "invocation" /\ posted[i].n = n
    BY <1>9
  <1>11. events' = [events EXCEPT ![cl] = Tail(queue) \o posted]
    BY <1>1, <1>6
  <1> HIDE DEF posted
  <1>12. /\ Tail(queue) \o posted \in Seq(Event)
         /\ \A i \in 1..Len(Tail(queue) \o posted) : \E j \in 1..Len(queue) :
               (Tail(queue) \o posted)[i].n = queue[j].n
    <2>1. \A i \in 1..Len(Tail(queue)) : i + 1 \in 1..Len(queue)
      BY <1>3
    <2>2. \A i \in 1..Len(Tail(queue)) : \E j \in 1..Len(queue) : Tail(queue)[i].n = queue[j].n
      BY <1>3, <2>1
    <2>3. \A i \in 1..Len(posted) : posted[i].n = queue[1].n
      BY <1>3, <1>10 DEF n
    <2>4. /\ Tail(queue) \o posted \in Seq(Event)
          /\ \A i \in 1..Len(Tail(queue) \o posted) :
                \/ \E j \in 1..Len(Tail(queue)) : (Tail(queue) \o posted)[i] = Tail(queue)[j]
                \/ \E j \in 1..Len(posted) : (Tail(queue) \o posted)[i] = posted[j]
      BY <1>3, <1>9, Posted
    <2> DEFINE more == Tail(queue) \o posted
               rest == Tail(queue)
    <2> HIDE DEF queue, more, rest
    <2>5. ASSUME NEW i \in 1..Len(more)
          PROVE  \E j \in 1..Len(queue) : more[i].n = queue[j].n
      <3>1. CASE \E j \in 1..Len(rest) : more[i] = rest[j]
        BY <2>2, <3>1 DEF rest
      <3>2. CASE \E j \in 1..Len(posted) : more[i] = posted[j]
        BY <1>3, <2>3, <3>2
      <3> QED  BY <2>4, <3>1, <3>2 DEF more, rest
    <2> QED  BY <2>4, <2>5 DEF more
  <1>13. \A d \in Clients : Ordered(events[d], SocketOf(d), last[d])
                            => Ordered(events'[d], SocketOf(d), last'[d])
    <2> SUFFICES ASSUME NEW d \in Clients, Ordered(events[d], SocketOf(d), last[d])
                 PROVE  Ordered(events'[d], SocketOf(d), last'[d])
      OBVIOUS
    <2>1. CASE d = cl
      <3>1. events'[d] = Tail(queue) \o posted /\ Ordered(queue, SocketOf(d), last[d])
        BY <1>11, <2>1 DEF OrderInv, QueueTypes
      <3>2. \A i \in 1..Len(posted) : posted[i].kind = "invocation" /\ posted[i].n = Head(queue).n
        BY <1>10 DEF n
      <3>3. Ordered(Tail(queue) \o posted, SocketOf(d), last[d])
        BY <1>2, <1>3, <1>9, <3>1, <3>2, OrderedInvocations
      <3> QED  BY <1>2, <3>1, <3>3
    <2>2. CASE d # cl
      BY <1>2, <1>11, <2>2 DEF OrderInv, QueueTypes
    <2> QED  BY <2>1, <2>2
  <1>14. events' \in [Clients -> Seq(Event)]
    BY <1>11, <1>12 DEF OrderInv, QueueTypes
  <1>15. \A d \in Clients : \A i \in 1..Len(events'[d]) : \E j \in 1..Len(events[d]) :
            events'[d][i].n = events[d][j].n
    <2> SUFFICES ASSUME NEW d \in Clients, NEW i \in 1..Len(events'[d])
                 PROVE  \E j \in 1..Len(events[d]) : events'[d][i].n = events[d][j].n
      OBVIOUS
    <2>1. CASE d = cl
      <3>1. events'[d] = Tail(queue) \o posted /\ events[d] = queue
        BY <1>11, <2>1 DEF OrderInv, QueueTypes
      <3> HIDE DEF queue
      <3> QED  BY <1>12, <3>1
    <2>2. CASE d # cl
      BY <1>11, <2>2 DEF OrderInv, QueueTypes
    <2> QED  BY <2>1, <2>2
  <1>16. /\ last' \in [Clients -> [Receivers -> Nat]]
         /\ \A d \in Clients, r \in Receivers : last'[d][r] = last[d][r]
    BY <1>2 DEF OrderInv, QueueTypes
  <1> QED  BY <1>2, <1>13, <1>14, <1>15, <1>16, EventsKeepOrder

LEMMA InvokeReceiverKeepsOrder ==
  ASSUME OrderInv, NEW cl \in Clients, InvokeReceiver(cl)
  PROVE  OrderInv' /\ StepInOrder
PROOF
  <1> DEFINE queue == events[cl]
             e == Head(queue)
  <1>1. /\ queue # <<>> /\ e.kind = "invocation"
        /\ events' = [events EXCEPT ![cl] = Tail(queue)]
        /\ last' = IF e.rcv = NoReceiver THEN last ELSE [last EXCEPT ![cl][e.rcv] = e.n]
        /\ UNCHANGED <<conn, overwritten, connState, emitted, wire>>
    BY DEF InvokeReceiver, NextEvent, clientVars
  <1>2. /\ queue \in Seq(Event) /\ Tail(queue) \in Seq(Event) /\ Len(queue) \in Nat \ {0}
        /\ e = queue[1] /\ 1 \in 1..Len(queue) /\ queue[1] \in Event
        /\ Len(Tail(queue)) = Len(queue) - 1
        /\ \A i \in 1..Len(Tail(queue)) : Tail(queue)[i] = queue[i + 1]
    BY <1>1, EmptySeq, HeadTailProperties, ElementOfSeq DEF OrderInv, QueueTypes
  <1>3. e.rcv \in Receivers \cup {NoReceiver} /\ e.n \in Nat
    BY <1>2, EventNumber DEF Event
  <1> HIDE DEF e
  <1>4. last' \in [Clients -> [Receivers -> Nat]]
    <2>1. CASE e.rcv = NoReceiver
      BY <1>1, <2>1 DEF OrderInv, QueueTypes
    <2>2. CASE e.rcv \in Receivers /\ e.rcv # NoReceiver
      BY <1>1, <1>3, <2>2 DEF OrderInv, QueueTypes
    <2> QED  BY <1>3, <2>1, <2>2
  <1>5. \A d \in Clients, r \in Receivers :
           last'[d][r] = last[d][r] \/ (d = cl /\ last'[d][r] = e.n)
    BY <1>1, <1>3 DEF OrderInv, QueueTypes
  <1>6. events' \in [Clients -> Seq(Event)]
    BY <1>1, <1>2 DEF OrderInv, QueueTypes
  <1>7. \A d \in Clients : \A i \in 1..Len(events'[d]) : \E j \in 1..Len(events[d]) :
           events'[d][i].n = events[d][j].n
    <2> SUFFICES ASSUME NEW d \in Clients, NEW i \in 1..Len(events'[d])
                 PROVE  \E j \in 1..Len(events[d]) : events'[d][i].n = events[d][j].n
      OBVIOUS
    <2>1. CASE d = cl
      <3>1. events'[d] = Tail(queue) /\ i + 1 \in 1..Len(queue)
        BY <1>1, <1>2, <2>1 DEF OrderInv, QueueTypes
      <3> QED  BY <1>2, <2>1, <3>1
    <2>2. CASE d # cl
      BY <1>1, <2>2 DEF OrderInv, QueueTypes
    <2> QED  BY <2>1, <2>2
  <1>8. \A d \in Clients, r \in Receivers :
           \/ last'[d][r] = last[d][r]
           \/ \E j \in 1..Len(events[d]) : last'[d][r] = events[d][j].n
    BY <1>2, <1>5
  <1>9. \A d \in Clients : Ordered(events[d], SocketOf(d), last[d])
                           => Ordered(events'[d], SocketOf(d), last'[d])
    <2> SUFFICES ASSUME NEW d \in Clients, Ordered(events[d], SocketOf(d), last[d])
                 PROVE  Ordered(events'[d], SocketOf(d), last'[d])
      OBVIOUS
    <2>1. CASE d = cl
      <3>1. /\ SocketOf(d) \in Seq(Emissions) /\ last[d] \in [Receivers -> Nat]
            /\ last'[d] \in [Receivers -> Nat] /\ events'[d] = Tail(queue)
            /\ Ordered(queue, SocketOf(d), last[d])
            /\ \A r \in Receivers : last'[d][r] = last[d][r] \/ last'[d][r] = Head(queue).n
        BY <1>1, <1>4, <1>5, <2>1 DEF OrderInv, QueueTypes, SocketOf, e
      <3>2. Head(queue).kind = "invocation"
        BY <1>1 DEF e
      <3>3. Ordered(Tail(queue), SocketOf(d), last'[d])
        BY <1>1, <1>2, <3>1, <3>2, OrderedInvoke
      <3> QED  BY <3>1, <3>3
    <2>2. CASE d # cl
      BY <1>1, <2>2 DEF OrderInv, QueueTypes
    <2> QED  BY <2>1, <2>2
  <1>10. OrderInv'
    BY <1>1, <1>4, <1>6, <1>7, <1>8, <1>9, EventsKeepOrder
  <1>11. ASSUME NEW d \in Clients, NEW r \in Receivers, overwritten[d] = {}
         PROVE  last'[d][r] >= last[d][r]
    <2>1. Ordered(events[d], SocketOf(d), last[d])
      BY <1>11 DEF OrderInv, QueuesOrdered
    <2>2. last[d][r] \in Nat /\ last'[d][r] \in Nat
      BY <1>4 DEF OrderInv, QueueTypes
    <2>3. CASE last'[d][r] = last[d][r]
      BY <2>2, <2>3
    <2>4. CASE d = cl /\ last'[d][r] = e.n
      <3>1. last[d][r] <= e.n
        BY <1>2, <2>1, <2>4 DEF Ordered
      <3> QED  BY <2>2, <2>4, <3>1
    <2> QED  BY <1>5, <2>3, <2>4
  <1> QED  BY <1>10, <1>11 DEF StepInOrder

LEMMA DestroyReceiverKeepsOrder ==
  ASSUME OrderInv, NEW cl \in Clients, NEW r \in Receivers, DestroyReceiver(cl, r)
  PROVE  OrderInv'
PROOF
  <1>1. /\ events' = [events EXCEPT ![cl] = DropEvents(events[cl], r)]
        /\ UNCHANGED <<conn, overwritten, connState, emitted, wire, last>>
    BY DEF DestroyReceiver, Client!DestroyReceiver, Client!serviceVars, Client!linkVars
  <1>2. events[cl] \in Seq(Event)
    BY DEF OrderInv, QueueTypes
  <1>3. /\ DropEvents(events[cl], r) \in Seq(Event)
        /\ \A socket, got : Ordered(events[cl], socket, got)
                            => Ordered(DropEvents(events[cl], r), socket, got)
        /\ \A i \in 1..Len(DropEvents(events[cl], r)) : \E j \in 1..Len(events[cl]) :
              DropEvents(events[cl], r)[i].n = events[cl][j].n
    BY <1>2, OrderedDrop
  <1>4. \A d \in Clients : events'[d] = events[d]
                           \/ (d = cl /\ events'[d] = DropEvents(events[cl], r))
    BY <1>1 DEF OrderInv, QueueTypes
  <1>5. events' \in [Clients -> Seq(Event)]
    BY <1>1, <1>3 DEF OrderInv, QueueTypes
  <1>6. /\ last' \in [Clients -> [Receivers -> Nat]]
        /\ \A d \in Clients, q \in Receivers : last'[d][q] = last[d][q]
    BY <1>1 DEF OrderInv, QueueTypes
  <1>7. \A d \in Clients : \A i \in 1..Len(events'[d]) : \E j \in 1..Len(events[d]) :
           events'[d][i].n = events[d][j].n
    BY <1>3, <1>4
  <1>8. \A d \in Clients : Ordered(events[d], SocketOf(d), last[d])
                           => Ordered(events'[d], SocketOf(d), last'[d])
    BY <1>1, <1>3, <1>4
  <1> QED  BY <1>1, <1>5, <1>6, <1>7, <1>8, EventsKeepOrder

\* Steps that change which sockets a client holds: those it holds no longer are
\* empty, and nothing else is changed in any of them.
LEMMA SocketsKeepOrder ==
  ASSUME OrderInv, UNCHANGED <<emitted, events, last>>,
         conn' \in [Clients -> Conns \cup {NoConn}], DOMAIN overwritten' = Clients,
         connState' \in [Conns -> {"none", "open", "doomed"}],
         SocketsOpen', ClosedEmpty',
         wire' \in [Conns -> Seq(Emissions)],
         \A c \in Conns : wire'[c] = wire[c] \/ wire'[c] = <<>>,
         \A cl \in Clients : overwritten'[cl] = {} =>
            /\ overwritten[cl] = {}
            /\ SocketOf(cl)' = SocketOf(cl) \/ SocketOf(cl)' = <<>>
  PROVE  OrderInv'
PROOF
  <1>1. QueueTypes'
    BY DEF OrderInv, QueueTypes
  <1>2. Past' /\ WiresSorted'
    <2>1. \A c \in Conns : \A k \in 1..Len(wire'[c]) : k \in 1..Len(wire[c]) /\ wire'[c] = wire[c]
      OBVIOUS
    <2>2. \A c \in Conns : \A k \in 1..Len(wire'[c]) : wire'[c][k] <= Len(emitted')
      BY <2>1 DEF OrderInv, Past
    <2>3. Past'
      BY <2>2 DEF OrderInv, Past
    <2>4. WiresSorted'
      BY <2>1 DEF OrderInv, WiresSorted, Sorted
    <2> QED  BY <2>3, <2>4
  <1>3. ASSUME NEW cl \in Clients, overwritten'[cl] = {}
        PROVE  Ordered(events'[cl], SocketOf(cl)', last'[cl])
    <2>1. Ordered(events[cl], SocketOf(cl), last[cl])
      BY <1>3 DEF OrderInv, QueuesOrdered
    <2>2. \A k \in 1..Len(SocketOf(cl)') : \E j \in 1..Len(SocketOf(cl)) :
             SocketOf(cl)'[k] = SocketOf(cl)[j]
      BY <1>3
    <2> QED  BY <2>1, <2>2, OrderedLess
  <1> QED  BY <1>1, <1>2, <1>3 DEF OrderInv, QueuesOrdered

LEMMA ConnectToServerKeepsOrder ==
  ASSUME OrderInv, NEW cl \in Clients, Client!ConnectToServer(cl),
         UNCHANGED <<emitted, wire, events, last>>
  PROVE  OrderInv'
PROOF
  <1>1. PICK c \in Conns :
           /\ connState[c] = "none" /\ connState' = [connState EXCEPT ![c] = "open"]
           /\ conn' = [conn EXCEPT ![cl] = c]
    <2>1. PICK c \in Conns : /\ Client!Service!OpenConnection(c) /\ connState'[c] = "open"
                             /\ conn' = [conn EXCEPT ![cl] = c]
      BY DEF Client!ConnectToServer
    <2> QED  BY <2>1 DEF Client!Service!OpenConnection, OrderInv, QueueTypes
  <1>2. \/ UNCHANGED overwritten
        \/ overwritten' = [overwritten EXCEPT ![cl] = @ \cup {<<conn[cl], myId[cl]>>}]
    BY DEF Client!ConnectToServer
  <1>3. UNCHANGED overwritten => conn[cl] = NoConn \/ overwritten'[cl] # {}
    BY DEF Client!ConnectToServer, OrderInv, QueueTypes
  <1>4. wire[c] = <<>>
    BY <1>1 DEF OrderInv, SocketsOpen, ClosedEmpty, ClientOpen
  <1>5. \A d \in Clients :
           Client!Sockets(d)' \subseteq Client!Sockets(d) \cup {c}
    BY <1>1, <1>2 DEF OrderInv, QueueTypes, Client!Sockets
  <1>6. \A d \in Clients : \A b \in Conns : b \in Client!Sockets(d) => b \in Client!Sockets(d)'
    <2> SUFFICES ASSUME NEW d \in Clients, NEW b \in Conns, b \in Client!Sockets(d)
                 PROVE  b \in Client!Sockets(d)'
      OBVIOUS
    <2>1. CASE d # cl
      BY <1>1, <1>2, <2>1 DEF OrderInv, QueueTypes, Client!Sockets
    <2>2. CASE d = cl
      <3>1. CASE b = conn[cl]
        <4>1. overwritten' = [overwritten EXCEPT ![cl] = @ \cup {<<conn[cl], myId[cl]>>}]
          BY <1>3, <3>1, ConstantsAssumption DEF Client!ConnectToServer
        <4> DEFINE old == <<conn[cl], myId[cl]>>
        <4>2. old \in overwritten'[cl] /\ old[1] = b
          BY <3>1, <4>1 DEF OrderInv, QueueTypes
        <4> HIDE DEF old
        <4> QED  BY <2>2, <4>2 DEF Client!Sockets
      <3>2. CASE \E old \in overwritten[cl] : b = old[1]
        BY <1>2, <2>2, <3>2 DEF OrderInv, QueueTypes, Client!Sockets
      <3> QED  BY <2>2, <3>1, <3>2 DEF Client!Sockets
    <2> QED  BY <2>1, <2>2
  <1>7. SocketsOpen'
    BY <1>1, <1>5 DEF OrderInv, QueueTypes, SocketsOpen
  <1>8. ClosedEmpty'
    BY <1>6 DEF OrderInv, ClosedEmpty, ClientOpen
  <1>9. ASSUME NEW d \in Clients, overwritten'[d] = {}
        PROVE  /\ overwritten[d] = {}
               /\ SocketOf(d)' = SocketOf(d) \/ SocketOf(d)' = <<>>
    BY <1>1, <1>2, <1>4, <1>9 DEF OrderInv, QueueTypes, SocketOf
  <1>10. /\ conn' \in [Clients -> Conns \cup {NoConn}] /\ DOMAIN overwritten' = Clients
         /\ connState' \in [Conns -> {"none", "open", "doomed"}]
         /\ wire' \in [Conns -> Seq(Emissions)] /\ \A b \in Conns : wire'[b] = wire[b]
    BY <1>1, <1>2 DEF OrderInv, QueueTypes
  <1> QED  BY <1>7, <1>8, <1>9, <1>10, SocketsKeepOrder

LEMMA DisconnectFromServerKeepsOrder ==
  ASSUME OrderInv, NEW cl \in Clients, DisconnectFromServer(cl)
  PROVE  OrderInv'
PROOF
  <1>1. /\ conn' = [conn EXCEPT ![cl] = NoConn] /\ conn[cl] # NoConn
        /\ wire' = [wire EXCEPT ![conn[cl]] = <<>>]
        /\ UNCHANGED <<overwritten, connState, emitted, events, last>>
    BY DEF DisconnectFromServer, Client!DisconnectFromServer, Client!serviceVars
  <1>2. /\ conn[cl] \in Conns
        /\ \A c \in Conns : wire'[c] = IF c = conn[cl] THEN <<>> ELSE wire[c]
    BY <1>1 DEF OrderInv, QueueTypes
  <1>3. \A d \in Clients : /\ Client!Sockets(d)' \subseteq Client!Sockets(d) \cup {NoConn}
                           /\ Client!Sockets(d) \ {conn[cl]} \subseteq Client!Sockets(d)'
    BY <1>1 DEF OrderInv, QueueTypes, Client!Sockets
  <1>4. SocketsOpen'
    BY <1>1, <1>3, ConstantsAssumption DEF OrderInv, SocketsOpen
  <1>5. ClosedEmpty'
    BY <1>2, <1>3 DEF OrderInv, ClosedEmpty, ClientOpen
  <1>6. \A d \in Clients : SocketOf(d)' = SocketOf(d) \/ SocketOf(d)' = <<>>
    BY <1>1, <1>2, ConstantsAssumption DEF OrderInv, QueueTypes, SocketOf
  <1>7. /\ conn' \in [Clients -> Conns \cup {NoConn}] /\ DOMAIN overwritten' = Clients
        /\ connState' \in [Conns -> {"none", "open", "doomed"}]
        /\ wire' \in [Conns -> Seq(Emissions)]
    BY <1>1, <1>2 DEF OrderInv, QueueTypes
  <1> QED  BY <1>1, <1>2, <1>4, <1>5, <1>6, <1>7, SocketsKeepOrder

LEMMA OrderStep ==
  ASSUME OrderInv, [Next]_vars
  PROVE  OrderInv' /\ StepInOrder
PROOF
  <1>1. CASE Server
    <2>1. UNCHANGED last
      BY <1>1 DEF Server
    <2> QED  BY <1>1, <2>1, ServerKeepsOrder, LastStays
  <1>2. ASSUME NEW s \in Signatures, Emit(s) PROVE OrderInv' /\ StepInOrder
    BY <1>2, EmitKeepsOrder, LastStays DEF Emit
  <1>3. ASSUME NEW cl \in Clients, Deliver(cl) PROVE OrderInv' /\ StepInOrder
    <2>1. CASE InvokeRemoteSignal(cl)
      <3>1. UNCHANGED last
        BY <2>1 DEF InvokeRemoteSignal
      <3> QED  BY <2>1, <3>1, InvokeRemoteSignalKeepsOrder, LastStays
    <2>2. CASE InvokeReceiver(cl)
      BY <2>2, InvokeReceiverKeepsOrder
    <2>3. ASSUME NEW c \in Conns, ReadSignal(cl, c) PROVE OrderInv' /\ StepInOrder
      <3>1. UNCHANGED last
        BY <2>3 DEF ReadSignal
      <3> QED  BY <2>3, <3>1, ReadSignalKeepsOrder, LastStays
    <2> QED  BY <1>3, <2>1, <2>2, <2>3 DEF Deliver
  <1>4. ASSUME NEW cl \in Clients, OtherCall(cl) PROVE OrderInv' /\ StepInOrder
    <2>1. UNCHANGED <<emitted, wire, events, last>>
      BY <1>4 DEF OtherCall
    <2>2. CASE Client!ConnectToServer(cl)
      BY <2>1, <2>2, ConnectToServerKeepsOrder, LastStays
    <2>3. CASE Client!ForgetConnection(cl) \/ Client!Return(cl)
               \/ \E s \in Signatures : Client!RemoteConnectToSignal(cl, s)
      <3>1. UNCHANGED <<conn, overwritten, connState>>
        BY <2>3 DEF Client!ForgetConnection, Client!Return, Client!RemoteConnectToSignal,
                    Client!linkVars, Client!serviceVars
      <3> QED  BY <2>1, <3>1, OrderStays, LastStays DEF queueVars
    <2> QED  BY <1>4, <2>2, <2>3 DEF OtherCall, Call
  <1>5. ASSUME NEW cl \in Clients, DisconnectFromServer(cl) PROVE OrderInv' /\ StepInOrder
    BY <1>5, DisconnectFromServerKeepsOrder, LastStays DEF DisconnectFromServer
  <1>6. ASSUME NEW cl \in Clients, NEW s \in Signatures, NEW r \in Receivers,
               RemoteConnect(cl, s, r) \/ DisconnectSignal(cl, s, r)
        PROVE  OrderInv' /\ StepInOrder
    <2>1. UNCHANGED queueVars
      BY <1>6 DEF RemoteConnect, DisconnectSignal, Client!RemoteConnect, Client!DisconnectSignal,
                  Client!linkVars, Client!serviceVars, queueVars
    <2> QED  BY <2>1, OrderStays, LastStays DEF queueVars
  <1>7. ASSUME NEW cl \in Clients, NEW r \in Receivers, DestroyReceiver(cl, r)
        PROVE  OrderInv' /\ StepInOrder
    BY <1>7, DestroyReceiverKeepsOrder, LastStays DEF DestroyReceiver
  <1>8. CASE UNCHANGED vars
    BY <1>8, OrderStays, LastStays DEF vars, clientVars, queueVars
  <1> QED  BY <1>1, <1>2, <1>3, <1>4, <1>5, <1>6, <1>7, <1>8 DEF Next

\* A receiver of a client with one long-lived socket is invoked for the
\* emissions in the order in which they were made, over the socket, the
\* thread's events and the invocations posted behind them, for any number of
\* clients, receivers, subscriptions and emissions, and whoever connects,
\* disconnects, reconnects or is destroyed meanwhile.
THEOREM SignalsInOrder == Spec => InOrder
PROOF
  <1>1. OrderInv /\ [Next]_vars => OrderInv'
    BY OrderStep
  <1>2. OrderInv /\ [Next]_vars =>
           [\A cl \in Clients, r \in Receivers :
               overwritten[cl] = {} => last'[cl][r] >= last[cl][r]]_vars
    BY OrderStep DEF StepInOrder
  <1> QED  BY <1>1, <1>2, OrderStart, PTL DEF Spec, InOrder
-----------------------------------------------------------------------------
(* The clients and the registry                                            *)

Remote == INSTANCE RemoteSignals_proofs

LEMMA RemoteAssumptions ==
  /\ Remote!ServiceAssumption /\ Remote!UsesAssumption
  /\ Remote!IdsAssumption /\ Remote!BoundsAssumption
  BY ConstantsAssumption, UsesAssumption
  DEF Remote!ServiceAssumption, Remote!UsesAssumption, Remote!IdsAssumption,
      Remote!BoundsAssumption, Remote!Operations, Client!Operations

\* The two instances of RemoteSignals, here and in its proofs, are the same.
LEMMA SameServer ==
  ASSUME NEW cl, NEW i, NEW c, NEW h
  PROVE  /\ Client!HandleInitialize(cl, i) <=> Remote!HandleInitialize(cl, i)
         /\ Client!HandleSubscribe(cl, i) <=> Remote!HandleSubscribe(cl, i)
         /\ Client!HandleUnsubscribe(cl, i) <=> Remote!HandleUnsubscribe(cl, i)
         /\ Client!NoticeClose(c) <=> Remote!NoticeClose(c)
         /\ Client!Service!DeleteConnection(c) <=> Remote!Registry!DeleteConnection(c)
         /\ Client!Service!DeleteConnection(c) <=> Remote!Service!DeleteConnection(c)
         /\ Client!Service!DeleteHandler(h) <=> Remote!Registry!DeleteHandler(h)
         /\ Client!Service!DeleteHandler(h) <=> Remote!Service!DeleteHandler(h)
PROOF
  <1>1. Client!HandleInitialize(cl, i) <=> Remote!HandleInitialize(cl, i)
    BY DEF Client!HandleInitialize, Remote!HandleInitialize, Client!Pending, Remote!Pending,
           Client!Service!InitializeConnection, Remote!Service!InitializeConnection,
           Client!Reply, Remote!Reply, Client!linkVars, Remote!linkVars
  <1>2. Client!HandleSubscribe(cl, i) <=> Remote!HandleSubscribe(cl, i)
    <2>1. \A s, id : Client!Service!HandleSignalRequest(s, id)
                     <=> Remote!Service!HandleSignalRequest(s, id)
      BY DEF Client!Service!HandleSignalRequest, Remote!Service!HandleSignalRequest,
             Client!Service!SubscribeToExisting, Remote!Service!SubscribeToExisting,
             Client!Service!SubscribeToNew, Remote!Service!SubscribeToNew,
             Client!Service!AddListener, Remote!Service!AddListener,
             Client!Service!Accepts, Remote!Service!Accepts
    <2>2. \A reply : Client!Reply(cl, i, reply) <=> Remote!Reply(cl, i, reply)
      BY DEF Client!Reply, Remote!Reply, Client!linkVars, Remote!linkVars
    <2>3. /\ Client!Pending(cl, i) <=> Remote!Pending(cl, i)
          /\ \A id : Client!KnownId(id) <=> Remote!KnownId(id)
          /\ UNCHANGED Client!serviceVars <=> UNCHANGED Remote!serviceVars
      BY DEF Client!Pending, Remote!Pending, Client!KnownId, Remote!KnownId,
             Client!serviceVars, Remote!serviceVars
    <2> QED  BY <2>1, <2>2, <2>3 DEF Client!HandleSubscribe, Remote!HandleSubscribe
  <1>3. Client!HandleUnsubscribe(cl, i) <=> Remote!HandleUnsubscribe(cl, i)
    <2>1. \A s, id : Client!Service!HandleSignalDisconnect(s, id)
                     <=> Remote!Service!HandleSignalDisconnect(s, id)
      BY DEF Client!Service!HandleSignalDisconnect, Remote!Service!HandleSignalDisconnect,
             Client!Service!RemoveListener, Remote!Service!RemoveListener,
             Client!Service!RemoveOne, Remote!Service!RemoveOne,
             Client!Service!EmitDestroyed, Remote!Service!EmitDestroyed,
             Client!Service!NoListener, Remote!Service!NoListener
    <2>2. \A reply : Client!Reply(cl, i, reply) <=> Remote!Reply(cl, i, reply)
      BY DEF Client!Reply, Remote!Reply, Client!linkVars, Remote!linkVars
    <2>3. /\ Client!Pending(cl, i) <=> Remote!Pending(cl, i)
          /\ \A id : Client!KnownId(id) <=> Remote!KnownId(id)
          /\ UNCHANGED Client!serviceVars <=> UNCHANGED Remote!serviceVars
      BY DEF Client!Pending, Remote!Pending, Client!KnownId, Remote!KnownId,
             Client!serviceVars, Remote!serviceVars
    <2> QED  BY <2>1, <2>2, <2>3 DEF Client!HandleUnsubscribe, Remote!HandleUnsubscribe
  <1>4. Client!NoticeClose(c) <=> Remote!NoticeClose(c)
    BY DEF Client!NoticeClose, Remote!NoticeClose, Client!Sockets, Remote!Sockets,
           Client!Service!CloseConnection, Remote!Service!CloseConnection
  <1>5. /\ Client!Service!DeleteConnection(c) <=> Remote!Registry!DeleteConnection(c)
        /\ Client!Service!DeleteConnection(c) <=> Remote!Service!DeleteConnection(c)
    BY DEF Client!Service!DeleteConnection, Remote!Registry!DeleteConnection,
           Remote!Service!DeleteConnection,
           Client!Service!ForgetIds, Remote!Registry!ForgetIds, Remote!Service!ForgetIds,
           Client!Service!EmitDestroyed, Remote!Registry!EmitDestroyed,
           Remote!Service!EmitDestroyed,
           Client!Service!Minus, Remote!Registry!Minus, Remote!Service!Minus,
           Client!Service!NoListener, Remote!Registry!NoListener, Remote!Service!NoListener
  <1>6. /\ Client!Service!DeleteHandler(h) <=> Remote!Registry!DeleteHandler(h)
        /\ Client!Service!DeleteHandler(h) <=> Remote!Service!DeleteHandler(h)
    BY DEF Client!Service!DeleteHandler, Remote!Registry!DeleteHandler,
           Remote!Service!DeleteHandler
  <1> QED  BY <1>1, <1>2, <1>3, <1>4, <1>5, <1>6

LEMMA SameCalls ==
  ASSUME NEW cl
  PROVE  Client!ClientNext(cl) <=> Remote!ClientNext(cl)
PROOF
  <1>1. /\ \A operation : Client!Calls(cl, operation) <=> Remote!Calls(cl, operation)
        /\ \A kind, sig, rcv, id :
              Client!Blocks(cl, kind, sig, rcv, id) <=> Remote!Blocks(cl, kind, sig, rcv, id)
        /\ UNCHANGED Client!serviceVars <=> UNCHANGED Remote!serviceVars
        /\ UNCHANGED Client!linkVars <=> UNCHANGED Remote!linkVars
        /\ Client!Connecting(cl) <=> Remote!Connecting(cl)
        /\ \A s : Client!HasReceiver(cl, s) <=> Remote!HasReceiver(cl, s)
    BY DEF Client!Calls, Remote!Calls, Client!Blocks, Remote!Blocks, Client!serviceVars,
           Remote!serviceVars, Client!linkVars, Remote!linkVars, Client!Connecting,
           Remote!Connecting, Client!HasReceiver, Remote!HasReceiver
  <1>2. Client!ConnectToServer(cl) <=> Remote!ConnectToServer(cl)
    <2>1. \A c : Client!Service!OpenConnection(c) <=> Remote!Service!OpenConnection(c)
      BY DEF Client!Service!OpenConnection, Remote!Service!OpenConnection
    <2> QED  BY <1>1, <2>1 DEF Client!ConnectToServer, Remote!ConnectToServer
  <1>3. Client!DisconnectFromServer(cl) <=> Remote!DisconnectFromServer(cl)
    BY <1>1 DEF Client!DisconnectFromServer, Remote!DisconnectFromServer,
                Client!serviceVars, Remote!serviceVars
  <1>4. Client!ForgetConnection(cl) <=> Remote!ForgetConnection(cl)
    BY DEF Client!ForgetConnection, Remote!ForgetConnection,
           Client!serviceVars, Remote!serviceVars
  <1>5. \A s, r : Client!RemoteConnect(cl, s, r) <=> Remote!RemoteConnect(cl, s, r)
    BY <1>1 DEF Client!RemoteConnect, Remote!RemoteConnect, Client!serviceVars,
                Remote!serviceVars, Client!linkVars, Remote!linkVars
  <1>6. \A s : Client!RemoteConnectToSignal(cl, s) <=> Remote!RemoteConnectToSignal(cl, s)
    BY <1>1 DEF Client!RemoteConnectToSignal, Remote!RemoteConnectToSignal,
                Client!serviceVars, Remote!serviceVars, Client!linkVars, Remote!linkVars
  <1>7. \A s, r : Client!DisconnectSignal(cl, s, r) <=> Remote!DisconnectSignal(cl, s, r)
    <2>1. \A s, r : /\ Client!Without(cl, s, r) = Remote!Without(cl, s, r)
                    /\ Client!LeavesNone(cl, s, r) <=> Remote!LeavesNone(cl, s, r)
      BY DEF Client!Without, Remote!Without, Client!LeavesNone, Remote!LeavesNone
    <2> QED  BY <1>1, <2>1
             DEF Client!DisconnectSignal, Remote!DisconnectSignal, Client!serviceVars,
                 Remote!serviceVars, Client!linkVars, Remote!linkVars
  <1>8. \A r : Client!DestroyReceiver(cl, r) <=> Remote!DestroyReceiver(cl, r)
    <2>1. \A r : /\ Client!AwaitedBy(cl, r) <=> Remote!AwaitedBy(cl, r)
                 /\ Client!ForgetReceiver(cl, r) <=> Remote!ForgetReceiver(cl, r)
      BY DEF Client!AwaitedBy, Remote!AwaitedBy, Client!ForgetReceiver, Remote!ForgetReceiver
    <2> QED  BY <2>1 DEF Client!DestroyReceiver, Remote!DestroyReceiver, Client!serviceVars,
                         Remote!serviceVars, Client!linkVars, Remote!linkVars
  <1>9. Client!Return(cl) <=> Remote!Return(cl)
    BY DEF Client!Return, Remote!Return, Client!Last, Remote!Last, Client!Front, Remote!Front,
           Client!serviceVars, Remote!serviceVars, Client!linkVars, Remote!linkVars
  <1> QED  BY <1>2, <1>3, <1>4, <1>5, <1>6, <1>7, <1>8, <1>9
           DEF Client!ClientNext, Remote!ClientNext

\* The steps of this module are steps of the clients and the server, or take
\* place beside them.
LEMMA RemoteStep == [Next]_vars => [Client!Next]_(Client!vars)
PROOF
  <1> SUFFICES ASSUME [Next]_vars PROVE [Client!Next]_(Client!vars)
    OBVIOUS
  <1>1. CASE Server
    <2>1. CASE HouseKeep
      BY <2>1 DEF HouseKeep, Client!Next, Client!ServerNext, Client!Delete, Client!linkVars
    <2>2. ASSUME NEW cl \in Clients, NEW i \in DOMAIN ops[cl],
                 HandleSubscribe(cl, i) \/ HandleOther(cl, i)
          PROVE  Client!Next
      BY <2>2 DEF HandleSubscribe, HandleOther, Client!Next, Client!ServerNext, Client!Handle
    <2> QED  BY <1>1, <2>1, <2>2 DEF Server
  <1>2. CASE UNCHANGED clientVars
    BY <1>2 DEF clientVars, Client!vars, Client!serviceVars, Client!linkVars
  <1>3. ASSUME NEW s \in Signatures, Emit(s) PROVE UNCHANGED clientVars
    BY <1>3 DEF Emit
  <1>4. ASSUME NEW cl \in Clients, Deliver(cl) PROVE UNCHANGED clientVars
    BY <1>4 DEF Deliver, InvokeRemoteSignal, InvokeReceiver, ReadSignal
  <1>5. ASSUME NEW cl \in Clients,
               \/ OtherCall(cl) \/ DisconnectFromServer(cl)
               \/ \E s \in Signatures, r \in Receivers :
                     RemoteConnect(cl, s, r) \/ DisconnectSignal(cl, s, r)
               \/ \E r \in Receivers : DestroyReceiver(cl, r)
        PROVE  Client!Next
    BY <1>5 DEF OtherCall, Call, DisconnectFromServer, RemoteConnect, DisconnectSignal,
                DestroyReceiver, Client!Next, Client!ClientNext
  <1> QED  BY <1>1, <1>2, <1>3, <1>4, <1>5 DEF Next, vars

\* Whatever the subject emits and whoever gets it, the clients and the server
\* behave as RemoteSignals says.
THEOREM DeliveryImplementsRemoteSignals == Spec => Client!Spec
PROOF
  <1>1. Init => Client!Init
    BY DEF Init
  <1> QED  BY <1>1, RemoteStep, PTL DEF Spec, Client!Spec

\* What is proved of RemoteSignals holds here.
LEMMA RemoteHolds == Spec => Remote!Spec
PROOF
  <1>1. Init => Remote!Init
    BY DEF Init, Client!Init, Remote!Init, Client!Service!Init, Remote!Service!Init
  <1>2. Client!Next => Remote!Next
    <2> SUFFICES ASSUME Client!Next PROVE Remote!Next
      OBVIOUS
    <2>1. ASSUME NEW cl \in Clients, Client!Handle(cl) PROVE Remote!Next
      BY <2>1, SameServer DEF Client!Handle, Remote!Handle, Remote!Next, Remote!ServerNext
    <2>2. CASE /\ (\E c \in Conns : Client!NoticeClose(c)) \/ Client!Delete
               /\ UNCHANGED <<Client!linkVars, serverKnown, connections, ops, calls, connects>>
      BY <2>2, SameServer DEF Client!Delete, Remote!Delete, Remote!Next, Remote!ServerNext,
         Client!linkVars, Remote!linkVars
    <2>3. ASSUME NEW cl \in Clients, Client!ClientNext(cl) PROVE Remote!Next
      BY <2>3, SameCalls DEF Remote!Next
    <2> QED  BY <2>1, <2>2, <2>3 DEF Client!Next, Client!ServerNext
  <1>3. UNCHANGED Client!vars => UNCHANGED Remote!vars
    BY DEF Client!vars, Remote!vars, Client!serviceVars, Remote!serviceVars, Client!linkVars,
           Remote!linkVars
  <1>4. [Next]_vars => [Remote!Next]_(Remote!vars)
    BY <1>2, <1>3, RemoteStep
  <1> QED  BY <1>1, <1>4, PTL DEF Spec, Remote!Spec
-----------------------------------------------------------------------------
(* Types                                                                   *)

\* What the invariants above leave to be typed.
HistoryTypes ==
    /\ Len(emitted) <= MaxEmits
    /\ existing \in [Clients -> SUBSET Receivers]
    /\ granted \in [Conns -> [Signatures -> Nat]]
    /\ owed \subseteq Clients \X Receivers \X Emissions

LEMMA HistoryStart == Init => HistoryTypes
  BY MaxEmitsAssumption DEF Init, HistoryTypes

LEMMA HistoryStays ==
  HistoryTypes /\ UNCHANGED <<emitted, existing, granted, owed>> => HistoryTypes'
  BY DEF HistoryTypes

\* A granted request is counted.
LEMMA GrantTyped ==
  ASSUME NEW count \in [Conns -> [Signatures -> Nat]], NEW c, NEW s
  PROVE  [count EXCEPT ![c][s] = @ + 1] \in [Conns -> [Signatures -> Nat]]
PROOF
  <1> DEFINE row == count[c]
             more == [row EXCEPT ![s] = @ + 1]
  <1>1. ASSUME c \in Conns PROVE more \in [Signatures -> Nat]
    <2>1. row \in [Signatures -> Nat]
      BY <1>1
    <2> HIDE DEF row
    <2>2. CASE s \in Signatures
      BY <2>1, <2>2
    <2>3. CASE s \notin Signatures
      BY <2>1, <2>3
    <2> QED  BY <2>2, <2>3
  <1> HIDE DEF more
  <1>2. [count EXCEPT ![c] = more] \in [Conns -> [Signatures -> Nat]]
    BY <1>1
  <1> QED  BY <1>2 DEF more

LEMMA ServerTyped ==
  ASSUME HistoryTypes, Server
  PROVE  HistoryTypes'
PROOF
  <1>1. UNCHANGED <<emitted, existing, owed>>
    BY DEF Server
  <1>2. granted \in [Conns -> [Signatures -> Nat]]
    BY DEF HistoryTypes
  <1>3. granted' \in [Conns -> [Signatures -> Nat]]
    <2>1. CASE HouseKeep
      BY <1>2, <2>1 DEF HouseKeep
    <2>2. ASSUME NEW cl \in Clients, NEW i \in DOMAIN ops[cl], HandleSubscribe(cl, i)
          PROVE  granted' \in [Conns -> [Signatures -> Nat]]
      <3>1. PICK c, s : UNCHANGED granted \/ granted' = [granted EXCEPT ![c][s] = @ + 1]
        BY <2>2 DEF HandleSubscribe
      <3> QED  BY <1>2, <3>1, GrantTyped
    <2>3. ASSUME NEW cl \in Clients, NEW i \in DOMAIN ops[cl], HandleOther(cl, i)
          PROVE  granted' \in [Conns -> [Signatures -> Nat]]
      BY <1>2, <2>3 DEF HandleOther
    <2> QED  BY <2>1, <2>2, <2>3 DEF Server
  <1> QED  BY <1>1, <1>3 DEF HistoryTypes

LEMMA HistoryStep ==
  ASSUME OrderInv, HistoryTypes, [Next]_vars
  PROVE  HistoryTypes'
PROOF
  <1>1. ASSUME NEW s \in Signatures, Emit(s) PROVE HistoryTypes'
    <2>1. /\ Len(emitted) + 1 \in Emissions /\ emitted' = Append(emitted, s) /\ s \in Exposed
          /\ owed' = owed \cup Entitled(s, Len(emitted) + 1)
          /\ UNCHANGED <<existing, granted>>
      BY <1>1 DEF Emit
    <2>2. Len(emitted') = Len(emitted) + 1
      BY <2>1, AppendProperties DEF OrderInv, QueueTypes
    <2>3. Entitled(s, Len(emitted) + 1) \subseteq Clients \X Receivers \X Emissions
      BY <2>1 DEF Entitled
    <2> QED  BY <2>1, <2>2, <2>3 DEF HistoryTypes, Emissions
  <1>2. ASSUME NEW cl \in Clients,
               \/ Deliver(cl) \/ OtherCall(cl) \/ DisconnectFromServer(cl)
               \/ \E s \in Signatures, r \in Receivers :
                     RemoteConnect(cl, s, r) \/ DisconnectSignal(cl, s, r)
               \/ \E r \in Receivers : DestroyReceiver(cl, r)
        PROVE  HistoryTypes'
    <2>1. UNCHANGED <<emitted, granted>> /\ owed' \subseteq owed
      BY <1>2 DEF Deliver, ReadSignal, InvokeRemoteSignal, InvokeReceiver, OtherCall,
                  DisconnectFromServer, RemoteConnect, DisconnectSignal, DestroyReceiver, Waive
    <2>2. \/ UNCHANGED existing
          \/ \E r \in Receivers : \/ existing' = [existing EXCEPT ![cl] = @ \cup {r}]
                                  \/ existing' = [existing EXCEPT ![cl] = @ \ {r}]
      BY <1>2 DEF Deliver, ReadSignal, InvokeRemoteSignal, InvokeReceiver, OtherCall,
                  DisconnectFromServer, RemoteConnect, DisconnectSignal, DestroyReceiver
    <2>3. existing' \in [Clients -> SUBSET Receivers]
      BY <2>2 DEF HistoryTypes
    <2> QED  BY <2>1, <2>3 DEF HistoryTypes
  <1>3. CASE UNCHANGED vars
    BY <1>3, HistoryStays DEF vars
  <1> QED  BY <1>1, <1>2, <1>3, ServerTyped DEF Next

\* Every variable has its type: nothing is under way, to anybody, that is not an
\* emission made.
THEOREM DeliveryTyped == Spec => []TypeOK
PROOF
  <1>1. ASSUME OrderInv, HistoryTypes, Remote!TypeOK PROVE TypeOK
    <2>1. Client!TypeOK
      <3>1. Client!Service!TypeOK
        BY <1>1 DEF Remote!TypeOK, Client!Service!TypeOK, Remote!Service!TypeOK
      <3>2. Client!BoundedSeq(Client!Request, MaxNested) = Remote!BoundedSeq(Remote!Request, MaxNested)
        BY DEF Client!BoundedSeq, Remote!BoundedSeq, Client!SeqOf, Remote!SeqOf,
               Client!Request, Remote!Request, Client!BlockingKinds, Remote!BlockingKinds
      <3> QED  BY <1>1, <3>1, <3>2 DEF Remote!TypeOK, Client!TypeOK
    <2>2. emitted \in BoundedSeq(Exposed, MaxEmits)
      <3>1. emitted \in Seq(Exposed) /\ Len(emitted) \in Nat /\ Len(emitted) <= MaxEmits
        BY <1>1, LenProperties DEF OrderInv, QueueTypes, HistoryTypes
      <3>2. emitted \in [1..Len(emitted) -> Exposed] /\ Len(emitted) \in 0..MaxEmits
        BY <3>1, LenProperties, MaxEmitsAssumption
      <3> QED  BY <3>2 DEF BoundedSeq, SeqOf
    <2>3. last \in [Clients -> [Receivers -> 0..Len(emitted)]]
      <3>1. Len(emitted) \in Nat
        BY <1>1, LenProperties DEF OrderInv, QueueTypes
      <3>2. \A cl \in Clients, r \in Receivers : last[cl][r] \in 0..Len(emitted)
        BY <1>1, <3>1 DEF OrderInv, QueueTypes, Past
      <3> QED  BY <1>1, <3>2 DEF OrderInv, QueueTypes
    <2> QED  BY <1>1, <2>1, <2>2, <2>3 DEF TypeOK, OrderInv, QueueTypes, HistoryTypes
  <1>2. OrderInv /\ [Next]_vars => OrderInv'
    BY OrderStep
  <1>3. OrderInv /\ HistoryTypes /\ [Next]_vars => HistoryTypes'
    BY HistoryStep
  <1>4. Remote!Spec => []Remote!TypeOK
    BY RemoteAssumptions, Remote!ClientsTyped
  <1>5. OrderInv /\ HistoryTypes /\ Remote!TypeOK => TypeOK
    BY <1>1
  <1> QED  BY <1>2, <1>3, <1>4, <1>5, OrderStart, HistoryStart, RemoteHolds, PTL DEF Spec
-----------------------------------------------------------------------------
(* Copies                                                                  *)

Sendings(socket, n) == {k \in DOMAIN socket : socket[k] = n}

LEMMA SendingsFinite ==
  ASSUME NEW socket \in Seq(Emissions), NEW n
  PROVE  /\ IsFiniteSet(Sendings(socket, n)) /\ Cardinality(Sendings(socket, n)) \in Nat
         /\ Sendings(socket, n) \subseteq 1..Len(socket)
PROOF
  <1>1. Len(socket) \in Nat /\ DOMAIN socket = 1..Len(socket)
    BY LenProperties
  <1>2. IsFiniteSet(1..Len(socket))
    BY <1>1, FS_Interval
  <1>3. Sendings(socket, n) \in SUBSET (1..Len(socket))
    BY <1>1 DEF Sendings
  <1>4. IsFiniteSet(Sendings(socket, n))
    BY <1>2, <1>3, FS_Subset
  <1> QED  BY <1>3, <1>4, FS_CardinalityType

LEMMA SendingsLess ==
  ASSUME NEW socket \in Seq(Emissions), NEW rest \in Seq(Emissions), NEW n,
         Sendings(rest, n) \subseteq Sendings(socket, n)
  PROVE  Cardinality(Sendings(rest, n)) <= Cardinality(Sendings(socket, n))
PROOF
  <1>1. IsFiniteSet(Sendings(socket, n)) /\ Sendings(rest, n) \in SUBSET Sendings(socket, n)
    BY SendingsFinite
  <1> QED  BY <1>1, FS_Subset

LEMMA SendingsEmpty == \A n : Cardinality(Sendings(<<>>, n)) = 0
PROOF
  <1>1. \A n : Sendings(<<>>, n) = {}
    BY DEF Sendings
  <1> QED  BY <1>1, FS_EmptySet

\* What has been read was sent once.
LEMMA SendingsRead ==
  ASSUME NEW socket \in Seq(Emissions), socket # <<>>, NEW n
  PROVE  Cardinality(Sendings(Tail(socket), n)) <= Cardinality(Sendings(socket, n))
PROOF
  <1> DEFINE rest == Tail(socket)
             next == [k \in Sendings(rest, n) |-> k + 1]
  <1>1. Len(socket) \in Nat \ {0}
    BY EmptySeq
  <1>2. /\ rest \in Seq(Emissions) /\ Len(rest) = Len(socket) - 1
        /\ \A k \in 1..Len(rest) : rest[k] = socket[k + 1]
    BY HeadTailProperties
  <1> HIDE DEF rest
  <1>3. DOMAIN socket = 1..Len(socket) /\ DOMAIN rest = 1..(Len(socket) - 1)
    BY <1>2, LenProperties
  <1>4. \A k \in Sendings(rest, n) : k \in Nat /\ k + 1 \in Sendings(socket, n)
    BY <1>1, <1>2, <1>3 DEF Sendings
  <1>5. next \in [Sendings(rest, n) -> Sendings(socket, n)]
    BY <1>4
  <1>6. \A j, k \in Sendings(rest, n) : next[j] = next[k] => j = k
    BY <1>4
  <1> HIDE DEF next
  <1>7. next \in Injection(Sendings(rest, n), Sendings(socket, n))
    BY <1>5, <1>6 DEF Injection, IsInjective
  <1>8. IsFiniteSet(Sendings(socket, n))
    BY SendingsFinite
  <1>9. Cardinality(Sendings(rest, n)) <= Cardinality(Sendings(socket, n))
    BY <1>7, <1>8, FS_Injection
  <1> QED  BY <1>9 DEF rest

\* An emission that has just been sent m times.
LEMMA SendingsSent ==
  ASSUME NEW socket \in Seq(Emissions), NEW n \in Emissions, NEW m \in Nat,
         \A k \in 1..Len(socket) : socket[k] # n,
         NEW more, more = socket \o [k \in 1..m |-> n]
  PROVE  /\ Cardinality(Sendings(more, n)) <= m
         /\ \A p : p # n => Sendings(more, p) \subseteq Sendings(socket, p)
PROOF
  <1> DEFINE copies == [k \in 1..m |-> n]
             after == (Len(socket) + 1)..(Len(socket) + m)
  <1>1. copies \in Seq(Emissions) /\ Len(copies) = m /\ \A k \in 1..m : copies[k] = n
    OBVIOUS
  <1>c. more = socket \o copies
    OBVIOUS
  <1> HIDE DEF copies
  <1>2. /\ more \in Seq(Emissions) /\ Len(more) = Len(socket) + Len(copies)
        /\ \A k \in 1..(Len(socket) + Len(copies)) :
              more[k] = IF k <= Len(socket) THEN socket[k] ELSE copies[k - Len(socket)]
    BY <1>c, <1>1, ConcatProperties
  <1>3. Len(socket) \in Nat /\ DOMAIN socket = 1..Len(socket)
    BY LenProperties
  <1>4. DOMAIN more = 1..(Len(socket) + m)
    BY <1>1, <1>2, LenProperties
  <1>5. ASSUME NEW k \in DOMAIN more
        PROVE  \/ k \in 1..Len(socket) /\ more[k] = socket[k]
               \/ k \in after /\ more[k] = n
    <2>1. CASE k <= Len(socket)
      BY <1>1, <1>2, <1>3, <1>4, <2>1
    <2>2. CASE k > Len(socket)
      <3>1. k - Len(socket) \in 1..m /\ k \in after
        BY <1>3, <1>4, <2>2
      <3> QED  BY <1>1, <1>2, <1>3, <1>4, <2>2, <3>1
    <2> QED  BY <1>3, <1>4, <2>1, <2>2
  <1>6. IsFiniteSet(after) /\ Cardinality(after) <= m
    <2>1. PICK len \in Nat : len = Len(socket)
      BY <1>3
    <2>2. len + 1 \in Int /\ len + m \in Int /\ (len + m) - (len + 1) + 1 = m
      BY <2>1
    <2>3. /\ IsFiniteSet((len + 1)..(len + m))
          /\ Cardinality((len + 1)..(len + m)) =
                IF len + 1 > len + m THEN 0 ELSE (len + m) - (len + 1) + 1
      BY <2>2, FS_Interval
    <2> QED  BY <2>1, <2>2, <2>3
  <1> HIDE DEF after
  <1>7. Sendings(more, n) \in SUBSET after
    BY <1>5 DEF Sendings
  <1>8. /\ Cardinality(Sendings(more, n)) <= Cardinality(after)
        /\ Cardinality(after) \in Nat /\ Cardinality(Sendings(more, n)) \in Nat
    BY <1>6, <1>7, FS_Subset, FS_CardinalityType
  <1>9. Cardinality(Sendings(more, n)) <= m
    BY <1>6, <1>8
  <1>10. \A p : p # n => Sendings(more, p) \subseteq Sendings(socket, p)
    BY <1>3, <1>5 DEF Sendings
  <1> QED  BY <1>9, <1>10

-----------------------------------------------------------------------------
(* Requests granted                                                        *)

\* What the handlers of a signal relay to a connection, it has been granted.
CopiesGranted == \A c \in Conns, s \in Signatures : Copies(s, c) <= granted[c][s]

LEMMA RelayingFinite == ASSUME NEW s, NEW c PROVE IsFiniteSet(Relaying(s, c))
PROOF
  <1>1. 1 \in Int /\ MaxWired \in Int
    BY ConstantsAssumption
  <1>2. IsFiniteSet(1..MaxWired)
    BY <1>1, FS_Interval
  <1>3. IsFiniteSet(Handlers \X (1..MaxWired))
    BY <1>2, ConstantsAssumption, FS_Product
  <1>4. Relaying(s, c) \in SUBSET (Handlers \X (1..MaxWired))
    BY DEF Relaying
  <1> QED  BY <1>3, <1>4, FS_Subset

\* Nothing more is relayed.
LEMMA RelayingLess ==
  ASSUME NEW s, NEW c,
         \A q \in Handlers \X (1..MaxWired) :
            q \in Relaying(s, c)' => q \in Relaying(s, c)
  PROVE  Copies(s, c)' <= Copies(s, c)
PROOF
  <1>1. \A S, T : IsFiniteSet(S) /\ T \in SUBSET S => Cardinality(T) <= Cardinality(S)
    BY FS_Subset
  <1>2. Relaying(s, c)' \in SUBSET Relaying(s, c)
    BY DEF Relaying
  <1> QED  BY <1>1, <1>2, RelayingFinite DEF Copies

\* One more is relayed at most.
LEMMA RelayingMore ==
  ASSUME NEW s, NEW c, NEW x,
         \A q \in Handlers \X (1..MaxWired) :
            q \in Relaying(s, c)' => q \in Relaying(s, c) \/ q = x
  PROVE  Copies(s, c)' <= Copies(s, c) + 1
PROOF
  <1>1. \A S, T : IsFiniteSet(S) /\ T \in SUBSET S => Cardinality(T) <= Cardinality(S)
    BY FS_Subset
  <1>2. Relaying(s, c)' \in SUBSET (Relaying(s, c) \cup {x})
    BY DEF Relaying
  <1>3. /\ IsFiniteSet(Relaying(s, c) \cup {x}) /\ Copies(s, c) \in Nat
        /\ Cardinality(Relaying(s, c) \cup {x}) <= Copies(s, c) + 1
    BY RelayingFinite, CopiesFinite, FS_AddElement DEF Copies
  <1>4. Copies(s, c)' <= Cardinality(Relaying(s, c) \cup {x})
    BY <1>1, <1>2, <1>3 DEF Copies
  <1>5. Copies(s, c)' \in Nat /\ Cardinality(Relaying(s, c) \cup {x}) \in Nat
    <2>1. IsFiniteSet(Relaying(s, c)')
      BY <1>2, <1>3, FS_Subset
    <2> QED  BY <1>3, <2>1, FS_CardinalityType DEF Copies
  <1> QED  BY <1>3, <1>4, <1>5

LEMMA WiredNumbers ==
  ASSUME Remote!Registry!RegistryInv
  PROVE  /\ wired \in [Handlers -> [Conns -> Nat]]
         /\ handlerState \in [Handlers -> {"none", "live", "doomed"}]
         /\ signature \in [Handlers -> Signatures \cup {NoSignature}]
  BY ConstantsAssumption DEF Remote!Registry!RegistryInv, Remote!Registry!TypeOK

LEMMA CopiesStay == ASSUME NEW s, NEW c PROVE Copies(s, c)' \in Nat
PROOF
  <1>1. IsFiniteSet(Handlers \X (1..MaxWired))
    <2>1. 1 \in Int /\ MaxWired \in Int
      BY ConstantsAssumption
    <2>2. IsFiniteSet(1..MaxWired)
      BY <2>1, FS_Interval
    <2> QED  BY <2>2, ConstantsAssumption, FS_Product
  <1>2. Relaying(s, c)' \in SUBSET (Handlers \X (1..MaxWired))
    BY DEF Relaying
  <1>3. IsFiniteSet(Relaying(s, c)')
    BY <1>1, <1>2, FS_Subset
  <1> QED  BY <1>3, FS_CardinalityType DEF Copies

LEMMA InRelaying ==
  ASSUME NEW s, NEW c, NEW h \in Handlers, NEW k \in 1..MaxWired
  PROVE  <<h, k>> \in Relaying(s, c) <=>
            /\ signature[h] = s /\ handlerState[h] # "none"
            /\ wired[h][c] > 0 /\ k <= wired[h][c]
  BY DEF Relaying, Client!Service!Relays

LEMMA InRelayingNext ==
  ASSUME NEW s, NEW c, NEW h \in Handlers, NEW k \in 1..MaxWired
  PROVE  <<h, k>> \in Relaying(s, c)' <=>
            /\ signature'[h] = s /\ handlerState'[h] # "none"
            /\ wired'[h][c] > 0 /\ k <= wired'[h][c]
  BY DEF Relaying, Client!Service!Relays

\* No handler begins to relay, and none is wired to anybody anew.
LEMMA WiredLess ==
  ASSUME CopiesGranted, HistoryTypes, Remote!Registry!RegistryInv, Remote!Registry!RegistryInv',
         \A h \in Handlers : handlerState'[h] # "none" =>
            /\ handlerState[h] # "none" \/ \A c \in Conns : wired'[h][c] = 0
            /\ signature'[h] = signature[h]
            /\ \A c \in Conns : wired'[h][c] <= wired[h][c],
         \A c \in Conns : \/ granted'[c] = granted[c]
                          \/ /\ granted'[c] = [s \in Signatures |-> 0]
                             /\ \A h \in Handlers : wired'[h][c] = 0
  PROVE  CopiesGranted'
PROOF
  <1> SUFFICES ASSUME NEW c \in Conns, NEW s \in Signatures
               PROVE  Copies(s, c)' <= granted'[c][s]
    BY DEF CopiesGranted
  <1>1. wired \in [Handlers -> [Conns -> Nat]] /\ wired' \in [Handlers -> [Conns -> Nat]]
    <2>1. wired' \in [Handlers -> [Conns -> 0..MaxWired]]
      BY DEF Remote!Registry!RegistryInv, Remote!Registry!TypeOK
    <2> QED  BY <2>1, WiredNumbers, ConstantsAssumption
  <1>2. ASSUME NEW h \in Handlers, NEW k \in 1..MaxWired, <<h, k>> \in Relaying(s, c)'
        PROVE  <<h, k>> \in Relaying(s, c) /\ wired'[h][c] > 0
    <2>1. /\ signature'[h] = s /\ handlerState'[h] # "none"
          /\ wired'[h][c] > 0 /\ k <= wired'[h][c]
      BY <1>2, InRelayingNext
    <2>2. handlerState[h] # "none" /\ signature[h] = s /\ wired'[h][c] <= wired[h][c]
      BY <1>1, <2>1
    <2>3. wired[h][c] \in Nat /\ wired'[h][c] \in Nat
      BY <1>1
    <2>4. wired[h][c] > 0 /\ k <= wired[h][c]
      BY <2>1, <2>2, <2>3, ConstantsAssumption
    <2> QED  BY <2>1, <2>2, <2>4, InRelaying
  <1>3. CASE granted'[c] = granted[c]
    <2>1. Copies(s, c)' <= Copies(s, c)
      BY <1>2, RelayingLess
    <2>2. Copies(s, c) <= granted[c][s] /\ granted[c][s] \in Nat /\ Copies(s, c) \in Nat
      BY CopiesFinite DEF CopiesGranted, HistoryTypes
    <2> QED  BY <1>3, <2>1, <2>2, CopiesStay
  <1>4. CASE granted'[c] = [t \in Signatures |-> 0] /\ \A h \in Handlers : wired'[h][c] = 0
    <2>1. Relaying(s, c)' = {}
      BY <1>4, <1>2 DEF Relaying
    <2>2. Copies(s, c)' = 0
      BY <2>1, FS_EmptySet DEF Copies
    <2> QED  BY <1>4, <2>2
  <1> QED  BY <1>3, <1>4

\* A granted request makes one handler relay once more, to the one connection.
LEMMA RequestGranted ==
  ASSUME CopiesGranted, HistoryTypes, Remote!Registry!RegistryInv, Remote!Registry!RegistryInv',
         NEW s \in Signatures, NEW id \in Ids, Client!Service!HandleSignalRequest(s, id),
         granted' = [granted EXCEPT ![longLived[id]][s] = @ + 1]
  PROVE  CopiesGranted'
PROOF
  <1> DEFINE owner == longLived[id]
  <1>1. owner \in Conns
    BY DEF Client!Service!HandleSignalRequest, Client!Service!SubscribeToExisting,
           Client!Service!SubscribeToNew, Client!Service!Accepts,
           Remote!Registry!RegistryInv, Remote!Registry!TypeOK
  <1>2. PICK h \in Handlers :
           /\ handlerState'[h] # "none" /\ signature'[h] = s
           /\ wired' = [wired EXCEPT ![h][owner] = @ + 1]
           /\ \A g \in Handlers : g # h =>
                 handlerState'[g] = handlerState[g] /\ signature'[g] = signature[g]
           /\ \/ handlerState[h] # "none" /\ signature[h] = s
              \/ \A c \in Conns : wired[h][c] = 0
    <2>1. CASE Client!Service!SubscribeToExisting(s, id)
      <3>1. /\ registered[s] \in Handlers /\ signature[registered[s]] = s
            /\ handlerState[registered[s]] = "live"
        BY <2>1 DEF Client!Service!SubscribeToExisting, Remote!Registry!RegistryInv,
                    Remote!Registry!TypeOK, Remote!Registry!RegisteredHandlerInUse
      <3> QED  BY <2>1, <3>1 DEF Client!Service!SubscribeToExisting, Client!Service!AddListener
    <2>2. CASE Client!Service!SubscribeToNew(s, id)
      <3>1. PICK h \in Handlers :
               /\ handlerState[h] = "none"
               /\ handlerState' = [handlerState EXCEPT ![h] = "live"]
               /\ signature' = [signature EXCEPT ![h] = s]
               /\ wired' = [wired EXCEPT ![h][owner] = @ + 1]
        BY <2>2 DEF Client!Service!SubscribeToNew, Client!Service!AddListener
      <3>2. \A c \in Conns : wired[h][c] = 0
        BY <3>1 DEF Remote!Registry!RegistryInv, Remote!Registry!HandlersSigned
      <3> HIDE DEF owner
      <3>3. /\ handlerState'[h] # "none" /\ signature'[h] = s
            /\ \A g \in Handlers : g # h =>
                  handlerState'[g] = handlerState[g] /\ signature'[g] = signature[g]
        BY <3>1, WiredNumbers
      <3> QED  BY <3>1, <3>2, <3>3
    <2> QED  BY <2>1, <2>2 DEF Client!Service!HandleSignalRequest
  <1>3. granted' = [granted EXCEPT ![owner][s] = @ + 1]
    OBVIOUS
  <1> HIDE DEF owner
  <1>4. wired \in [Handlers -> [Conns -> Nat]]
    BY WiredNumbers
  <1>5. \A g \in Handlers, c \in Conns :
           wired'[g][c] = IF g = h /\ c = owner THEN wired[g][c] + 1 ELSE wired[g][c]
    BY <1>1, <1>2, <1>4
  <1>6. granted \in [Conns -> [Signatures -> Nat]]
    BY DEF HistoryTypes
  <1>7. \A c \in Conns, t \in Signatures :
           granted'[c][t] = IF c = owner /\ t = s THEN granted[c][t] + 1 ELSE granted[c][t]
    BY <1>1, <1>3, <1>6
  <1>8. ASSUME NEW c \in Conns, NEW t \in Signatures, NEW g \in Handlers, NEW k \in 1..MaxWired,
               <<g, k>> \in Relaying(t, c)'
        PROVE  \/ <<g, k>> \in Relaying(t, c)
               \/ c = owner /\ t = s /\ g = h /\ k = wired'[h][owner]
    <2>1. /\ signature'[g] = t /\ handlerState'[g] # "none"
          /\ wired'[g][c] > 0 /\ k <= wired'[g][c]
      BY <1>8, InRelayingNext
    <2>2. wired[g][c] \in Nat /\ k \in Nat \ {0}
      BY <1>4, ConstantsAssumption
    <2>3. CASE ~(g = h /\ c = owner)
      <3>1. wired[g][c] > 0 /\ k <= wired[g][c]
        BY <1>5, <2>1, <2>3
      <3>2. signature[g] = t /\ handlerState[g] # "none"
        BY <1>2, <2>1, <2>2, <3>1
      <3> QED  BY <3>1, <3>2, InRelaying
    <2>4. CASE g = h /\ c = owner /\ k # wired'[h][owner]
      <3>1. k <= wired[g][c] /\ wired[g][c] > 0
        BY <1>5, <2>1, <2>2, <2>4
      <3>2. signature[g] = t /\ handlerState[g] # "none"
        BY <1>2, <2>1, <2>2, <2>4, <3>1
      <3> QED  BY <3>1, <3>2, InRelaying
    <2>5. CASE g = h /\ c = owner /\ k = wired'[h][owner]
      BY <1>2, <2>1, <2>5
    <2> QED  BY <2>3, <2>4, <2>5
  <1>9. ASSUME NEW c \in Conns, NEW t \in Signatures PROVE Copies(t, c)' <= granted'[c][t]
    <2>1. /\ Copies(t, c) <= granted[c][t] /\ granted[c][t] \in Nat
          /\ Copies(t, c) \in Nat /\ Copies(t, c)' \in Nat
      BY <1>6, CopiesFinite, CopiesStay DEF CopiesGranted
    <2>2. CASE c = owner /\ t = s
      <3>1. PICK x : x = <<h, wired'[h][owner]>>
        OBVIOUS
      <3>2. \A q \in Handlers \X (1..MaxWired) :
               q \in Relaying(t, c)' => q \in Relaying(t, c) \/ q = x
        BY <1>8, <3>1
      <3>3. Copies(t, c)' <= Copies(t, c) + 1
        BY <3>2, RelayingMore
      <3> QED  BY <1>7, <2>1, <2>2, <3>3
    <2>3. CASE ~(c = owner /\ t = s)
      <3>1. Copies(t, c)' <= Copies(t, c)
        BY <1>8, <2>3, RelayingLess
      <3> QED  BY <1>7, <2>1, <2>3, <3>1
    <2> QED  BY <2>2, <2>3
  <1> QED  BY <1>9 DEF CopiesGranted

\* A connection request is granted, and one handler more listens for it, or
\* refused, and nothing changes.
LEMMA SubscribeGrants ==
  ASSUME Remote!LinkInv, NEW cl \in Clients, NEW i \in DOMAIN ops[cl], HandleSubscribe(cl, i)
  PROVE  \/ \E s \in Signatures, id \in Ids :
               /\ Client!Service!HandleSignalRequest(s, id)
               /\ granted' = [granted EXCEPT ![longLived[id]][s] = @ + 1]
         \/ UNCHANGED <<Client!serviceVars, granted>>
PROOF
  <1> DEFINE op == ops[cl][i]
  <1>1. ops \in [Clients -> Seq(Remote!Request)] /\ op \in Remote!Request
    BY LenProperties, ElementOfSeq DEF Remote!LinkInv, Remote!LinkTypes
  <1>2. op.id \in Ids \cup {NullId}
    BY <1>1 DEF Remote!Request
  <1>3. ASSUME NEW reply, Client!Reply(cl, i, reply) PROVE ops'[cl][i].reply = reply
    <2>1. ops' = [ops EXCEPT ![cl] = [ops[cl] EXCEPT ![i] = [op EXCEPT !.reply = reply]]]
      BY <1>3 DEF Client!Reply
    <2>2. [op EXCEPT !.reply = reply].reply = reply
      BY <1>1 DEF Remote!Request
    <2> HIDE DEF op
    <2>3. ops'[cl][i] = [op EXCEPT !.reply = reply]
      BY <1>1, <2>1
    <2> QED  BY <2>2, <2>3
  <1>4. granted' = IF ops'[cl][i].reply = "ok"
                   THEN [granted EXCEPT ![longLived[op.id]][op.sig] = @ + 1] ELSE granted
    BY DEF HandleSubscribe
  <1>5. CASE /\ op.sig \in Exposed /\ Client!KnownId(op.id)
             /\ Client!Service!HandleSignalRequest(op.sig, op.id) /\ Client!Reply(cl, i, "ok")
    BY <1>2, <1>3, <1>4, <1>5, ConstantsAssumption DEF Client!KnownId
  <1>6. CASE UNCHANGED Client!serviceVars /\ Client!Reply(cl, i, "error")
    BY <1>3, <1>4, <1>6
  <1> QED  BY <1>5, <1>6 DEF HandleSubscribe, Client!HandleSubscribe

RegistryKept == Remote!Registry!RegistryInv /\ Remote!Registry!RegistryInv'

LEMMA CopiesStayGranted ==
  ASSUME CopiesGranted, HistoryTypes, RegistryKept,
         UNCHANGED <<handlerState, signature, wired, granted>>
  PROVE  CopiesGranted'
  BY DEF CopiesGranted, Copies, Relaying, Client!Service!Relays

LEMMA ServerKeepsCopies ==
  ASSUME CopiesGranted, HistoryTypes, RegistryKept, Remote!LinkInv, Server
  PROVE  CopiesGranted'
PROOF
  <1>1. /\ wired \in [Handlers -> [Conns -> Nat]]
        /\ handlerState \in [Handlers -> {"none", "live", "doomed"}]
        /\ signature \in [Handlers -> Signatures \cup {NoSignature}]
        /\ granted \in [Conns -> [Signatures -> Nat]]
    BY WiredNumbers DEF RegistryKept, HistoryTypes
  <1>2. ASSUME NEW c \in Conns, Client!Service!DeleteConnection(c),
               granted' = [granted EXCEPT ![c] = [s \in Signatures |-> 0]]
        PROVE  CopiesGranted'
    <2>1. wired' = [h \in Handlers |-> [wired[h] EXCEPT ![c] = 0]] /\ UNCHANGED signature
      BY <1>2 DEF Client!Service!DeleteConnection
    <2>2. \A h \in Handlers, d \in Conns : wired'[h][d] = IF d = c THEN 0 ELSE wired[h][d]
      BY <1>1, <2>1
    <2>3. \A h \in Handlers : handlerState'[h] # "none" => handlerState[h] # "none"
      BY <1>2, ConstantsAssumption
      DEF Client!Service!DeleteConnection, Client!Service!EmitDestroyed, RegistryKept,
          Remote!Registry!RegistryInv, Remote!Registry!HandlersSigned
    <2>4. \A h \in Handlers, d \in Conns : wired'[h][d] <= wired[h][d]
      BY <1>1, <2>2
    <2>5. \A d \in Conns : \/ granted'[d] = granted[d]
                           \/ /\ granted'[d] = [s \in Signatures |-> 0]
                              /\ \A h \in Handlers : wired'[h][d] = 0
      BY <1>1, <1>2, <2>2
    <2> QED  BY <2>1, <2>3, <2>4, <2>5, WiredLess DEF RegistryKept
  <1>3. ASSUME NEW h \in Handlers, Client!Service!DeleteHandler(h), UNCHANGED granted
        PROVE  CopiesGranted'
    <2>1. /\ handlerState' = [handlerState EXCEPT ![h] = "none"]
          /\ signature' = [signature EXCEPT ![h] = NoSignature]
          /\ wired' = [wired EXCEPT ![h] = [c \in Conns |-> 0]]
      BY <1>3 DEF Client!Service!DeleteHandler
    <2>2. \A g \in Handlers : handlerState'[g] # "none" =>
             /\ handlerState[g] # "none" /\ signature'[g] = signature[g]
             /\ \A c \in Conns : wired'[g][c] <= wired[g][c]
      BY <1>1, <2>1
    <2> QED  BY <1>3, <2>2, WiredLess DEF RegistryKept
  <1>4. CASE HouseKeep
    <2>1. ASSUME NEW c \in Conns, Client!NoticeClose(c), UNCHANGED granted
          PROVE  CopiesGranted'
      BY <2>1, CopiesStayGranted DEF Client!NoticeClose, Client!Service!CloseConnection
    <2> QED  BY <1>2, <1>3, <1>4, <2>1 DEF HouseKeep
  <1>5. ASSUME NEW cl \in Clients, NEW i \in DOMAIN ops[cl], HandleSubscribe(cl, i)
        PROVE  CopiesGranted'
    <2>1. CASE UNCHANGED <<Client!serviceVars, granted>>
      BY <2>1, CopiesStayGranted DEF Client!serviceVars
    <2> QED  BY <1>5, <2>1, SubscribeGrants, RequestGranted DEF RegistryKept
  <1>6. ASSUME NEW cl \in Clients, NEW i \in DOMAIN ops[cl], HandleOther(cl, i)
        PROVE  CopiesGranted'
    <2>1. UNCHANGED granted
      BY <1>6 DEF HandleOther
    <2>2. ASSUME NEW s \in Signatures, NEW id, Client!Service!HandleSignalDisconnect(s, id)
          PROVE  CopiesGranted'
      <3>1. UNCHANGED <<signature, wired>>
        BY <2>2 DEF Client!Service!HandleSignalDisconnect
      <3>2. \E finished : /\ finished \subseteq {registered[s]}
                          /\ handlerState' = [h \in Handlers |->
                                IF h \in finished THEN "doomed" ELSE handlerState[h]]
        BY <2>2 DEF Client!Service!HandleSignalDisconnect, Client!Service!RemoveListener,
                    Client!Service!EmitDestroyed
      <3>3. registered[s] # NoHandler
        BY <2>2 DEF Client!Service!HandleSignalDisconnect
      <3>4. handlerState[registered[s]] = "live"
        BY <3>3 DEF RegistryKept, Remote!Registry!RegistryInv,
                    Remote!Registry!RegisteredHandlerInUse
      <3>5. \A h \in Handlers : handlerState'[h] # "none" => handlerState[h] # "none"
        BY <3>2, <3>4
      <3>6. \A h \in Handlers, c \in Conns : wired'[h][c] <= wired[h][c]
        BY <1>1, <3>1
      <3> QED  BY <2>1, <3>1, <3>5, <3>6, WiredLess DEF RegistryKept
    <2>3. CASE UNCHANGED <<handlerState, signature, wired>>
      BY <2>1, <2>3, CopiesStayGranted
    <2>4. Client!HandleUnsubscribe(cl, i) => ops[cl][i].sig \in Signatures
      BY DEF Client!HandleUnsubscribe, Remote!LinkInv, Remote!NamesSignal
    <2> QED  BY <1>6, <2>2, <2>3, <2>4
             DEF HandleOther, Client!HandleInitialize, Client!HandleUnsubscribe,
                 Client!Service!InitializeConnection, Client!serviceVars
  <1> QED  BY <1>4, <1>5, <1>6 DEF Server

LEMMA CopiesStep ==
  ASSUME CopiesGranted, HistoryTypes, RegistryKept, Remote!LinkInv, [Next]_vars
  PROVE  CopiesGranted'
PROOF
  <1>1. ASSUME UNCHANGED <<handlerState, signature, wired, granted>> PROVE CopiesGranted'
    BY <1>1, CopiesStayGranted
  <1>2. ASSUME NEW cl \in Clients, OtherCall(cl) PROVE CopiesGranted'
    BY <1>1, <1>2 DEF OtherCall, Call, Client!ConnectToServer, Client!ForgetConnection,
       Client!Return, Client!RemoteConnectToSignal, Client!serviceVars,
       Client!Service!OpenConnection
  <1>3. ASSUME NEW cl \in Clients,
               \/ DisconnectFromServer(cl)
               \/ \E s \in Signatures, r \in Receivers :
                     RemoteConnect(cl, s, r) \/ DisconnectSignal(cl, s, r)
               \/ \E r \in Receivers : DestroyReceiver(cl, r)
        PROVE  CopiesGranted'
    BY <1>1, <1>3
    DEF DisconnectFromServer, RemoteConnect, DisconnectSignal, DestroyReceiver,
        Client!DisconnectFromServer, Client!RemoteConnect, Client!DisconnectSignal,
        Client!DestroyReceiver, Client!serviceVars
  <1>4. ASSUME NEW cl \in Clients, Deliver(cl) PROVE CopiesGranted'
    BY <1>1, <1>4 DEF Deliver, ReadSignal, InvokeRemoteSignal, InvokeReceiver, clientVars
  <1>5. ASSUME NEW s \in Signatures, Emit(s) PROVE CopiesGranted'
    BY <1>1, <1>5 DEF Emit, clientVars
  <1>6. CASE UNCHANGED vars
    BY <1>1, <1>6 DEF vars, clientVars
  <1> QED  BY <1>2, <1>3, <1>4, <1>5, <1>6, ServerKeepsCopies DEF Next

-----------------------------------------------------------------------------
(* Emissions sent                                                          *)

SentGranted(c, n) == Cardinality(Sendings(wire[c], n)) <= granted[c][emitted[n]]

LEMMA OnceIsSentGranted ==
  OncePerRequest <=> \A c \in Conns, n \in DOMAIN emitted : SentGranted(c, n)
  BY DEF OncePerRequest, SentGranted, Sendings

LEMMA OnceStart == Init => OncePerRequest
PROOF
  <1> SUFFICES ASSUME Init, NEW c \in Conns, NEW n \in DOMAIN emitted PROVE FALSE
    BY DEF OncePerRequest
  <1> QED  BY DEF Init

\* Steps that make no emission: nothing is sent anew, and where a grant is taken
\* back nothing is in the socket.
LEMMA NoneSent ==
  ASSUME OrderInv, OrderInv', HistoryTypes, HistoryTypes', OncePerRequest, UNCHANGED emitted,
         \A c \in Conns : \/ wire'[c] = wire[c]
                          \/ wire[c] # <<>> /\ wire'[c] = Tail(wire[c])
                          \/ wire'[c] = <<>>,
         \A c \in Conns : \/ wire'[c] = <<>>
                          \/ \A s \in Signatures : granted[c][s] <= granted'[c][s]
  PROVE  OncePerRequest'
PROOF
  <1>1. ASSUME NEW c \in Conns, NEW n \in DOMAIN emitted PROVE SentGranted(c, n)'
    <2>1. wire[c] \in Seq(Emissions) /\ wire'[c] \in Seq(Emissions)
      BY DEF OrderInv, QueueTypes
    <2>2. emitted[n] \in Signatures
      BY <1>1, ConstantsAssumption, ElementOfSeq, LenProperties DEF OrderInv, QueueTypes
    <2>3. /\ granted[c][emitted[n]] \in Nat /\ granted'[c][emitted[n]] \in Nat
      BY <2>2 DEF HistoryTypes
    <2>4. /\ Cardinality(Sendings(wire[c], n)) \in Nat
          /\ Cardinality(Sendings(wire'[c], n)) \in Nat
      BY <2>1, SendingsFinite
    <2>5. CASE wire'[c] = <<>>
      <3>1. Cardinality(Sendings(wire'[c], n)) = 0
        BY <2>5, SendingsEmpty
      <3> QED  BY <2>3, <3>1 DEF SentGranted, Sendings
    <2>6. CASE /\ wire'[c] = wire[c] \/ (wire[c] # <<>> /\ wire'[c] = Tail(wire[c]))
               /\ \A s \in Signatures : granted[c][s] <= granted'[c][s]
      <3>1. Cardinality(Sendings(wire[c], n)) <= granted[c][emitted[n]]
        BY OnceIsSentGranted DEF SentGranted
      <3>2. Cardinality(Sendings(wire'[c], n)) <= Cardinality(Sendings(wire[c], n))
        <4>1. CASE wire'[c] = wire[c]
          BY <2>4, <4>1
        <4>2. CASE wire[c] # <<>> /\ wire'[c] = Tail(wire[c])
          BY <2>1, <4>2, SendingsRead
        <4> QED  BY <2>6, <4>1, <4>2
      <3>3. Cardinality(Sendings(wire'[c], n)) <= granted'[c][emitted[n]]
        BY <2>2, <2>3, <2>4, <2>6, <3>1, <3>2
      <3> QED  BY <3>3 DEF SentGranted, Sendings
    <2> QED  BY <2>5, <2>6
  <1> QED  BY <1>1 DEF OncePerRequest, SentGranted, Sendings

LEMMA EmitSendsOnce ==
  ASSUME OrderInv, OrderInv', HistoryTypes, OncePerRequest, CopiesGranted,
         NEW s \in Signatures, Emit(s)
  PROVE  OncePerRequest'
PROOF
  <1> DEFINE p == Len(emitted) + 1
  <1>1. /\ s \in Exposed /\ p \in Emissions /\ emitted' = Append(emitted, s)
        /\ wire' = [c \in Conns |->
              IF ClientOpen(c) THEN wire[c] \o [k \in 1..Copies(s, c) |-> p] ELSE <<>>]
        /\ UNCHANGED granted
    BY DEF Emit
  <1>2. /\ emitted \in Seq(Exposed) /\ Len(emitted) \in Nat /\ DOMAIN emitted = 1..Len(emitted)
        /\ DOMAIN emitted' = 1..p /\ emitted'[p] = s
        /\ \A n \in DOMAIN emitted : emitted'[n] = emitted[n] /\ emitted[n] \in Signatures
    <2>1. emitted \in Seq(Exposed)
      BY DEF OrderInv, QueueTypes
    <2>2. /\ Len(emitted) \in Nat /\ DOMAIN emitted = 1..Len(emitted)
          /\ \A n \in 1..Len(emitted) : emitted[n] \in Exposed
      BY <2>1, LenProperties, ElementOfSeq
    <2>3. /\ Append(emitted, s) \in Seq(Exposed) /\ Len(Append(emitted, s)) = Len(emitted) + 1
          /\ \A n \in 1..Len(emitted) : Append(emitted, s)[n] = emitted[n]
          /\ Append(emitted, s)[Len(emitted) + 1] = s
      BY <1>1, <2>1, AppendProperties
    <2>4. DOMAIN Append(emitted, s) = 1..(Len(emitted) + 1)
      BY <2>3, LenProperties
    <2> QED  BY <1>1, <2>1, <2>2, <2>3, <2>4, ConstantsAssumption
  <1>3. ASSUME NEW c \in Conns, NEW n \in 1..p
        PROVE  Cardinality(Sendings(wire'[c], n)) <= granted'[c][emitted'[n]]
    <2>1. granted[c] \in [Signatures -> Nat]
      BY DEF HistoryTypes
    <2>2. CASE ~ClientOpen(c)
      <3>1. wire'[c] = <<>>
        BY <1>1, <2>2
      <3>2. Cardinality(Sendings(wire'[c], n)) = 0
        BY <3>1, SendingsEmpty
      <3>3. emitted'[n] \in Signatures
        BY <1>2, <1>3, ConstantsAssumption
      <3> QED  BY <1>1, <2>1, <3>2, <3>3
    <2>3. CASE ClientOpen(c)
      <3>1. PICK socket, m : socket = wire[c] /\ m = Copies(s, c)
        OBVIOUS
      <3>2. socket \in Seq(Emissions) /\ m \in Nat /\ wire'[c] = socket \o [k \in 1..m |-> p]
        BY <1>1, <2>3, <3>1, CopiesFinite DEF OrderInv, QueueTypes
      <3>3. \A k \in 1..Len(socket) : socket[k] # p
        <4>1. \A k \in 1..Len(socket) : socket[k] \in Nat /\ socket[k] <= Len(emitted)
          BY <3>1, <3>2, TypedSocket DEF OrderInv, Past
        <4> QED  BY <1>2, <4>1
      <3>4. wire'[c] \in Seq(Emissions)
        BY DEF OrderInv, QueueTypes
      <3>5. PICK q : q = p
        OBVIOUS
      <3>6. /\ Cardinality(Sendings(wire'[c], q)) <= m
            /\ \A o : o # q => Sendings(wire'[c], o) \subseteq Sendings(socket, o)
        <4>1. /\ q \in Emissions /\ \A k \in 1..Len(socket) : socket[k] # q
              /\ socket \in Seq(Emissions) /\ m \in Nat
              /\ wire'[c] = socket \o [k \in 1..m |-> q]
          BY <1>1, <3>2, <3>3, <3>5
        <4>2. PICK more : more = wire'[c]
          OBVIOUS
        <4>3. more = socket \o [k \in 1..m |-> q]
          BY <4>1, <4>2
        <4>4. /\ Cardinality(Sendings(more, q)) <= m
              /\ \A o : o # q => Sendings(more, o) \subseteq Sendings(socket, o)
          BY <4>1, <4>3, SendingsSent
        <4> QED  BY <4>2, <4>4
      <3>7. CASE n = p
        <4>1. m <= granted[c][s] /\ granted[c][s] \in Nat
          BY <2>1, <3>1 DEF CopiesGranted
        <4>2. Cardinality(Sendings(wire'[c], n)) \in Nat
          BY <3>4, SendingsFinite
        <4>3. Cardinality(Sendings(wire'[c], n)) <= m
          BY <3>5, <3>6, <3>7
        <4> QED  BY <1>1, <1>2, <3>2, <3>7, <4>1, <4>2, <4>3
      <3>8. CASE n # p
        <4>1. n \in DOMAIN emitted /\ emitted'[n] = emitted[n] /\ emitted[n] \in Signatures
          BY <1>2, <1>3, <3>8
        <4>2. Cardinality(Sendings(wire'[c], n)) <= Cardinality(Sendings(socket, n))
          BY <3>2, <3>4, <3>5, <3>6, <3>8, SendingsLess
        <4>3. Cardinality(Sendings(socket, n)) <= granted[c][emitted[n]]
          BY <3>1, <4>1, OnceIsSentGranted DEF SentGranted
        <4>4. /\ Cardinality(Sendings(wire'[c], n)) \in Nat
              /\ Cardinality(Sendings(socket, n)) \in Nat
          BY <3>2, <3>4, SendingsFinite
        <4>5. granted[c][emitted[n]] \in Nat
          BY <2>1, <4>1
        <4> QED  BY <1>1, <4>1, <4>2, <4>3, <4>4, <4>5
      <3> QED  BY <3>7, <3>8
    <2> QED  BY <2>2, <2>3
  <1> QED  BY <1>2, <1>3 DEF OncePerRequest, Sendings

\* A connection that is about to be deleted has nothing in its socket.
LEMMA ServerSendsNone ==
  ASSUME OrderInv, OrderInv', HistoryTypes, HistoryTypes', OncePerRequest, Server
  PROVE  OncePerRequest'
PROOF
  <1>1. UNCHANGED <<emitted, wire>>
    BY DEF Server
  <1>2. granted \in [Conns -> [Signatures -> Nat]]
    BY DEF HistoryTypes
  <1>3. CASE UNCHANGED granted
    <2>1. \A c \in Conns, s \in Signatures : granted[c][s] <= granted'[c][s]
      BY <1>2, <1>3
    <2> QED  BY <1>1, <2>1, NoneSent
  <1>4. ASSUME NEW c \in Conns, Client!Service!DeleteConnection(c),
               granted' = [granted EXCEPT ![c] = [s \in Signatures |-> 0]]
        PROVE  OncePerRequest'
    <2>1. wire[c] = <<>>
      BY <1>4 DEF Client!Service!DeleteConnection, OrderInv, SocketsOpen, ClosedEmpty, ClientOpen
    <2>2. \A d \in Conns : wire'[d] = <<>> \/ \A s \in Signatures : granted[d][s] <= granted'[d][s]
      BY <1>1, <1>2, <1>4, <2>1
    <2> QED  BY <1>1, <2>2, NoneSent
  <1>5. ASSUME NEW cl \in Clients, NEW i \in DOMAIN ops[cl], HandleSubscribe(cl, i)
        PROVE  OncePerRequest'
    <2>1. PICK c, s : UNCHANGED granted \/ granted' = [granted EXCEPT ![c][s] = @ + 1]
      BY <1>5 DEF HandleSubscribe
    <2>2. \A d \in Conns, t \in Signatures : granted[d][t] <= granted'[d][t]
      BY <1>2, <2>1
    <2> QED  BY <1>1, <2>2, NoneSent
  <1> QED  BY <1>3, <1>4, <1>5 DEF Server, HouseKeep, HandleOther

LEMMA OnceStep ==
  ASSUME OrderInv, OrderInv', HistoryTypes, HistoryTypes', CopiesGranted, OncePerRequest,
         [Next]_vars
  PROVE  OncePerRequest'
PROOF
  <1>1. granted \in [Conns -> [Signatures -> Nat]] /\ wire \in [Conns -> Seq(Emissions)]
    BY DEF HistoryTypes, OrderInv, QueueTypes
  <1>2. ASSUME UNCHANGED <<emitted, granted>>,
               \A c \in Conns : \/ wire'[c] = wire[c]
                                \/ wire[c] # <<>> /\ wire'[c] = Tail(wire[c])
                                \/ wire'[c] = <<>>
        PROVE  OncePerRequest'
    <2>1. \A c \in Conns, s \in Signatures : granted[c][s] <= granted'[c][s]
      BY <1>1, <1>2
    <2> QED  BY <1>2, <2>1, NoneSent
  <1>3. ASSUME NEW cl \in Clients, Deliver(cl) PROVE OncePerRequest'
    <2>1. ASSUME NEW c \in Conns, ReadSignal(cl, c) PROVE OncePerRequest'
      BY <1>1, <1>2, <2>1 DEF ReadSignal
    <2> QED  BY <1>2, <1>3, <2>1 DEF Deliver, InvokeRemoteSignal, InvokeReceiver
  <1>4. ASSUME NEW cl \in Clients, OtherCall(cl) PROVE OncePerRequest'
    BY <1>2, <1>4 DEF OtherCall
  <1>5. ASSUME NEW cl \in Clients, DisconnectFromServer(cl) PROVE OncePerRequest'
    BY <1>1, <1>2, <1>5 DEF DisconnectFromServer
  <1>6. ASSUME NEW cl \in Clients,
               \/ \E s \in Signatures, r \in Receivers :
                     RemoteConnect(cl, s, r) \/ DisconnectSignal(cl, s, r)
               \/ \E r \in Receivers : DestroyReceiver(cl, r)
        PROVE  OncePerRequest'
    BY <1>2, <1>6 DEF RemoteConnect, DisconnectSignal, DestroyReceiver
  <1>7. CASE UNCHANGED vars
    BY <1>2, <1>7 DEF vars
  <1> QED  BY <1>3, <1>4, <1>5, <1>6, <1>7, EmitSendsOnce, ServerSendsNone DEF Next

LEMMA CopiesStart == Init => CopiesGranted
PROOF
  <1> SUFFICES ASSUME Init, NEW c \in Conns, NEW s \in Signatures
               PROVE  Copies(s, c) <= granted[c][s]
    BY DEF CopiesGranted
  <1>1. Relaying(s, c) = {}
    BY DEF Init, Client!Init, Client!Service!Init, Relaying, Client!Service!Relays
  <1> QED  BY <1>1, FS_EmptySet DEF Copies, Init

\* The registry's invariant and the clients', with these emissions.
LEMMA RemoteInvariants ==
  Spec => []Remote!LinkInv /\ []Remote!Registry!RegistryInv /\ []HistoryTypes /\ []OrderInv
PROOF
  <1>1. Remote!Spec => []Remote!LinkInv
    BY RemoteAssumptions, Remote!LinksHold
  <1>2. Remote!Spec => []Remote!Registry!RegistryInv
    BY RemoteAssumptions, Remote!RegistryHolds
  <1>3. OrderInv /\ [Next]_vars => OrderInv'
    BY OrderStep
  <1>4. OrderInv /\ HistoryTypes /\ [Next]_vars => HistoryTypes'
    BY HistoryStep
  <1> QED  BY <1>1, <1>2, <1>3, <1>4, OrderStart, HistoryStart, RemoteHolds, PTL DEF Spec

LEMMA CopiesHold == Spec => []CopiesGranted
PROOF
  <1>1. /\ CopiesGranted /\ HistoryTypes /\ Remote!LinkInv /\ [Next]_vars
        /\ Remote!Registry!RegistryInv /\ Remote!Registry!RegistryInv'
        => CopiesGranted'
    BY CopiesStep DEF RegistryKept
  <1> QED  BY <1>1, CopiesStart, RemoteInvariants, PTL DEF Spec

\* A connection gets an emission at most once for every request granted to it,
\* whoever else subscribes, whichever handlers are registered or about to be
\* deleted, and however its receivers come and go, for any number of clients,
\* handlers, signals and emissions.
THEOREM SignalsSentOnce == Spec => []OncePerRequest
PROOF
  <1>1. /\ OrderInv /\ OrderInv' /\ HistoryTypes /\ HistoryTypes' /\ CopiesGranted
        /\ OncePerRequest /\ [Next]_vars
        => OncePerRequest'
    BY OnceStep
  <1> QED  BY <1>1, OnceStart, CopiesHold, RemoteInvariants, PTL DEF Spec
-----------------------------------------------------------------------------
(* What is coming                                                          *)

\* Among the events of a thread: the signal, or the invocation of the receiver.
Coming(queue, n, r) ==
    \E i \in 1..Len(queue) :
        queue[i].n = n /\ (queue[i].kind = "signal" \/ queue[i].rcv = r)

Carries(socket, n) == \E k \in 1..Len(socket) : socket[k] = n

LEMMA ComingPosted ==
  ASSUME NEW queue \in Seq(Event), NEW es \in Seq(Event), NEW n, NEW r,
         Coming(queue, n, r) \/ Coming(es, n, r)
  PROVE  Coming(queue \o es, n, r)
PROOF
  <1> DEFINE more == queue \o es
  <1>1. /\ more \in Seq(Event) /\ Len(more) = Len(queue) + Len(es)
        /\ \A i \in 1..(Len(queue) + Len(es)) :
              more[i] = IF i <= Len(queue) THEN queue[i] ELSE es[i - Len(queue)]
    BY ConcatProperties
  <1>2. Len(queue) \in Nat /\ Len(es) \in Nat
    BY LenProperties
  <1> HIDE DEF more
  <1>3. \A i \in 1..Len(queue) : i \in 1..Len(more) /\ more[i] = queue[i]
    BY <1>1, <1>2
  <1>4. ASSUME NEW i \in 1..Len(es)
        PROVE  i + Len(queue) \in 1..Len(more) /\ more[i + Len(queue)] = es[i]
    <2>1. PICK len, rest \in Nat : len = Len(queue) /\ rest = Len(es)
      BY <1>2
    <2>2. /\ i + len \in 1..(len + rest) /\ ~(i + len <= len) /\ (i + len) - len = i
      BY <2>1
    <2> QED  BY <1>1, <2>1, <2>2
  <1>5. Coming(more, n, r)
    <2>1. CASE Coming(queue, n, r)
      BY <1>3, <2>1 DEF Coming
    <2>2. CASE Coming(es, n, r)
      <3>1. PICK i \in 1..Len(es) : es[i].n = n /\ (es[i].kind = "signal" \/ es[i].rcv = r)
        BY <2>2 DEF Coming
      <3> QED  BY <1>4, <3>1 DEF Coming
    <2> QED  BY <2>1, <2>2
  <1> QED  BY <1>5 DEF more

LEMMA ComingTail ==
  ASSUME NEW queue \in Seq(Event), queue # <<>>, NEW n, NEW r, Coming(queue, n, r),
         ~(Head(queue).n = n /\ (Head(queue).kind = "signal" \/ Head(queue).rcv = r))
  PROVE  Coming(Tail(queue), n, r)
PROOF
  <1>1. /\ Tail(queue) \in Seq(Event) /\ Len(queue) \in Nat \ {0}
        /\ Head(queue) = queue[1] /\ Len(Tail(queue)) = Len(queue) - 1
        /\ \A i \in 1..Len(Tail(queue)) : Tail(queue)[i] = queue[i + 1]
    BY EmptySeq, HeadTailProperties
  <1>2. PICK i \in 1..Len(queue) : queue[i].n = n /\ (queue[i].kind = "signal" \/ queue[i].rcv = r)
    BY DEF Coming
  <1>3. i # 1
    BY <1>1, <1>2
  <1>4. i - 1 \in 1..Len(Tail(queue)) /\ (i - 1) + 1 = i
    BY <1>1, <1>3
  <1>5. Tail(queue)[i - 1] = queue[i]
    BY <1>1, <1>4
  <1> QED  BY <1>2, <1>4, <1>5 DEF Coming

LEMMA ComingDrop ==
  ASSUME NEW queue \in Seq(Event), NEW n, NEW r, NEW q, r # q, Coming(queue, n, r)
  PROVE  Coming(DropEvents(queue, q), n, r)
PROOF
  <1> DEFINE left == DropEvents(queue, q)
  <1>1. PICK i \in 1..Len(queue) : queue[i].n = n /\ (queue[i].kind = "signal" \/ queue[i].rcv = r)
    BY DEF Coming
  <1>2. DOMAIN queue = 1..Len(queue) /\ Len(queue) \in Nat /\ queue[i] \in Event
    BY LenProperties, ElementOfSeq
  <1>3. left[i] = [queue[i] EXCEPT !.rcv = IF @ = q THEN NoReceiver ELSE @]
    BY <1>2 DEF DropEvents
  <1>4. left[i].n = n /\ (left[i].kind = "signal" \/ left[i].rcv = r)
    BY <1>1, <1>2, <1>3 DEF Event
  <1>5. Len(left) = Len(queue)
    BY <1>2 DEF DropEvents
  <1> QED  BY <1>4, <1>5 DEF Coming

LEMMA CarriesTail ==
  ASSUME NEW socket \in Seq(Emissions), socket # <<>>, NEW n, Carries(socket, n),
         Head(socket) # n
  PROVE  Carries(Tail(socket), n)
PROOF
  <1>1. /\ Tail(socket) \in Seq(Emissions) /\ Len(socket) \in Nat \ {0}
        /\ Head(socket) = socket[1] /\ Len(Tail(socket)) = Len(socket) - 1
        /\ \A i \in 1..Len(Tail(socket)) : Tail(socket)[i] = socket[i + 1]
    BY EmptySeq, HeadTailProperties
  <1>2. PICK i \in 1..Len(socket) : socket[i] = n
    BY DEF Carries
  <1>3. i - 1 \in 1..Len(Tail(socket)) /\ (i - 1) + 1 = i
    BY <1>1, <1>2
  <1>4. Tail(socket)[i - 1] = socket[i]
    BY <1>1, <1>3
  <1> QED  BY <1>2, <1>3, <1>4 DEF Carries

\* What is in a socket stays there when more is sent, and what is sent gets there.
LEMMA CarriesSent ==
  ASSUME NEW socket \in Seq(Emissions), NEW p \in Emissions, NEW m \in Nat,
         NEW more, more = socket \o [k \in 1..m |-> p]
  PROVE  /\ \A n : Carries(socket, n) => Carries(more, n)
         /\ m > 0 => Carries(more, p)
PROOF
  <1> DEFINE copies == [k \in 1..m |-> p]
  <1>1. copies \in Seq(Emissions) /\ Len(copies) = m /\ \A k \in 1..m : copies[k] = p
    OBVIOUS
  <1>2. more = socket \o copies
    OBVIOUS
  <1> HIDE DEF copies
  <1>3. /\ more \in Seq(Emissions) /\ Len(more) = Len(socket) + Len(copies)
        /\ \A k \in 1..(Len(socket) + Len(copies)) :
              more[k] = IF k <= Len(socket) THEN socket[k] ELSE copies[k - Len(socket)]
    BY <1>1, <1>2, ConcatProperties
  <1>4. PICK len \in Nat : len = Len(socket)
    BY LenProperties
  <1>5. \A k \in 1..len : k \in 1..Len(more) /\ more[k] = socket[k]
    BY <1>1, <1>3, <1>4
  <1>6. m > 0 => len + 1 \in 1..Len(more) /\ more[len + 1] = p
    <2> SUFFICES ASSUME m > 0 PROVE len + 1 \in 1..Len(more) /\ more[len + 1] = p
      OBVIOUS
    <2>1. len + 1 \in 1..Len(more) /\ ~(len + 1 <= len) /\ (len + 1) - len = 1 /\ 1 \in 1..m
      BY <1>1, <1>3, <1>4
    <2> QED  BY <1>1, <1>3, <1>4, <2>1
  <1> QED  BY <1>4, <1>5, <1>6 DEF Carries

\* An ordering of a set has all of it.
LEMMA ListHasAll ==
  ASSUME NEW S, IsFiniteSet(S), NEW list \in SetToSeqs(S), NEW e \in S
  PROVE  \E i \in 1..Cardinality(S) : list[i] = e
PROOF
  <1>1. PICK m \in Nat : m = Cardinality(S)
    BY FS_CardinalityType
  <1>2. list \in [1..m -> S] /\ \A i, j \in 1..m : i # j => list[i] # list[j]
    BY <1>1 DEF SetToSeqs
  <1>3. list \in Injection(1..m, S)
    BY <1>2 DEF Injection, IsInjective
  <1>4. Cardinality(1..m) = m
    BY <1>1, FS_Interval
  <1>5. list \in Surjection(1..m, S)
    BY <1>1, <1>3, <1>4, FS_Injection
  <1> QED  BY <1>1, <1>5 DEF Surjection
-----------------------------------------------------------------------------
(* What is owed is on the way                                              *)

Way(d, r, n) ==
    \/ Coming(events[d], n, r)
    \/ \E c \in Conns : c \in Client!Sockets(d) /\ Carries(wire[c], n)

OwedWay ==
    \A d \in Clients, r \in Receivers, n \in Emissions : <<d, r, n>> \in owed => Way(d, r, n)

\* An emission is owed only to a receiver that is still held for its signal.
OwedHeld ==
    \A d \in Clients, r \in Receivers, n \in Emissions : <<d, r, n>> \in owed =>
        n \in DOMAIN emitted /\ connections[d][emitted[n]][r] > 0

\* No two clients share a socket.
OneOwner ==
    \A d, e \in Clients, c \in Conns :
        c \in Client!Sockets(d) /\ c \in Client!Sockets(e) => d = e

\* An application that makes no call holds no receiver.
Silent ==
    \A d \in Clients : MaxCalls[d] = 0 =>
        ops[d] = <<>> /\ \A s \in Signatures, r \in Receivers : connections[d][s][r] = 0

WayTypes == OrderInv /\ HistoryTypes /\ Remote!LinkInv /\ Remote!RestTyped

LEMMA ConnectSockets ==
  ASSUME OrderInv, NEW cl \in Clients, Client!ConnectToServer(cl)
  PROVE  \E c \in Conns :
            /\ connState[c] = "none"
            /\ \A d \in Clients, b \in Conns :
                  b \in Client!Sockets(d)' => b \in Client!Sockets(d) \/ (d = cl /\ b = c)
            /\ \A d \in Clients, b \in Conns : b \in Client!Sockets(d) => b \in Client!Sockets(d)'
PROOF
  <1>1. PICK c \in Conns : connState[c] = "none" /\ conn' = [conn EXCEPT ![cl] = c]
    BY DEF Client!ConnectToServer, Client!Service!OpenConnection
  <1>2. \/ UNCHANGED overwritten /\ conn[cl] = NoConn
        \/ overwritten' = [overwritten EXCEPT ![cl] = @ \cup {<<conn[cl], myId[cl]>>}]
    BY DEF Client!ConnectToServer
  <1> DEFINE old == <<conn[cl], myId[cl]>>
  <1>3. old[1] = conn[cl]
    OBVIOUS
  <1>4. \/ UNCHANGED overwritten /\ conn[cl] = NoConn
        \/ overwritten' = [overwritten EXCEPT ![cl] = @ \cup {old}]
    BY <1>2
  <1> HIDE DEF old
  <1>5. ASSUME NEW d \in Clients, NEW b \in Conns, b \in Client!Sockets(d)'
        PROVE  b \in Client!Sockets(d) \/ (d = cl /\ b = c)
    <2>1. conn'[d] = b \/ \E o \in overwritten'[d] : o[1] = b
      BY <1>5 DEF Client!Sockets
    <2>2. CASE d # cl
      BY <1>1, <1>4, <2>1, <2>2 DEF OrderInv, QueueTypes, Client!Sockets
    <2>3. CASE d = cl
      BY <1>1, <1>3, <1>4, <2>1, <2>3 DEF OrderInv, QueueTypes, Client!Sockets
    <2> QED  BY <2>2, <2>3
  <1>6. ASSUME NEW d \in Clients, NEW b \in Conns, b \in Client!Sockets(d)
        PROVE  b \in Client!Sockets(d)'
    <2>1. conn[d] = b \/ \E o \in overwritten[d] : o[1] = b
      BY <1>6 DEF Client!Sockets
    <2>2. CASE d # cl
      BY <1>1, <1>4, <2>1, <2>2 DEF OrderInv, QueueTypes, Client!Sockets
    <2>3. CASE d = cl
      BY <1>1, <1>3, <1>4, <2>1, <2>3, ConstantsAssumption
      DEF OrderInv, QueueTypes, Client!Sockets
    <2> QED  BY <2>2, <2>3
  <1> QED  BY <1>1, <1>5, <1>6

LEMMA OwnersStep ==
  ASSUME OrderInv, OneOwner, [Next]_vars
  PROVE  OneOwner'
PROOF
  <1>1. ASSUME UNCHANGED <<conn, overwritten>> PROVE OneOwner'
    BY <1>1 DEF OneOwner, Client!Sockets
  <1>2. ASSUME NEW cl \in Clients, Client!ConnectToServer(cl) PROVE OneOwner'
    <2>1. PICK c \in Conns :
             /\ connState[c] = "none"
             /\ \A d \in Clients, b \in Conns :
                   b \in Client!Sockets(d)' => b \in Client!Sockets(d) \/ (d = cl /\ b = c)
      BY <1>2, ConnectSockets
    <2>2. \A d \in Clients : c \notin Client!Sockets(d)
      BY <2>1 DEF OrderInv, SocketsOpen
    <2> QED  BY <2>1, <2>2 DEF OneOwner
  <1>3. ASSUME NEW cl \in Clients, Client!DisconnectFromServer(cl) PROVE OneOwner'
    <2>1. conn' = [conn EXCEPT ![cl] = NoConn] /\ UNCHANGED overwritten
      BY <1>3 DEF Client!DisconnectFromServer
    <2>2. \A d \in Clients, b \in Conns : b \in Client!Sockets(d)' => b \in Client!Sockets(d)
      BY <2>1, ConstantsAssumption DEF OrderInv, QueueTypes, Client!Sockets
    <2> QED  BY <2>2 DEF OneOwner
  <1>4. ASSUME Client!Next PROVE OneOwner'
    <2>1. ASSUME NEW cl \in Clients, Client!ClientNext(cl) PROVE OneOwner'
      BY <1>1, <1>2, <1>3, <2>1
      DEF Client!ClientNext, Client!ForgetConnection, Client!RemoteConnectToSignal,
          Client!RemoteConnect, Client!DisconnectSignal, Client!DestroyReceiver, Client!Return,
          Client!linkVars
    <2>2. CASE Client!ServerNext
      BY <1>1, <2>2 DEF Client!ServerNext, Client!Handle, Client!HandleInitialize,
         Client!HandleSubscribe, Client!HandleUnsubscribe, Client!Reply, Client!linkVars
    <2> QED  BY <1>4, <2>1, <2>2 DEF Client!Next
  <1>5. UNCHANGED Client!vars => OneOwner'
    BY <1>1 DEF Client!vars, Client!linkVars
  <1> QED  BY <1>4, <1>5, RemoteStep

LEMMA SilentStep ==
  ASSUME WayTypes, Silent, [Next]_vars
  PROVE  Silent'
PROOF
  <1> SUFFICES ASSUME NEW d \in Clients, MaxCalls[d] = 0
               PROVE  /\ ops'[d] = <<>>
                      /\ \A s \in Signatures, r \in Receivers : connections'[d][s][r] = 0
    BY DEF Silent
  <1>1. ops[d] = <<>> /\ \A s \in Signatures, r \in Receivers : connections[d][s][r] = 0
    BY DEF Silent
  <1>2. ops'[d] = ops[d] /\ connections'[d] = connections[d]
    <2>1. /\ ops \in [Clients -> Seq(Remote!Request)]
          /\ connections \in [Clients -> [Signatures -> [Receivers -> Nat]]]
      BY DEF WayTypes, Remote!LinkInv, Remote!LinkTypes, Remote!RestTyped
    <2>2. ~(calls[d] < MaxCalls[d])
      BY DEF WayTypes, Remote!RestTyped
    <2>3. ASSUME NEW cl \in Clients, Client!ClientNext(cl)
          PROVE  ops'[d] = ops[d] /\ connections'[d] = connections[d]
      <3>1. CASE cl = d
        <4>1. Client!ForgetConnection(d)
          BY <1>1, <2>2, <2>3, <3>1
          DEF Client!ClientNext, Client!ConnectToServer, Client!DisconnectFromServer,
              Client!RemoteConnectToSignal, Client!RemoteConnect, Client!DisconnectSignal,
              Client!DestroyReceiver, Client!Return, Client!Calls
        <4> QED  BY <4>1 DEF Client!ForgetConnection
      <3>2. CASE cl # d
        <4>1. \/ UNCHANGED ops
              \/ \E new : ops' = [ops EXCEPT ![cl] = new]
          BY <2>3 DEF Client!ClientNext, Client!ConnectToServer, Client!DisconnectFromServer,
             Client!ForgetConnection, Client!RemoteConnectToSignal, Client!RemoteConnect,
             Client!DisconnectSignal, Client!DestroyReceiver, Client!Return, Client!Blocks
        <4>2. \/ UNCHANGED connections
              \/ \E new : connections' = [connections EXCEPT ![cl] = new]
          BY <2>3 DEF Client!ClientNext, Client!ConnectToServer, Client!DisconnectFromServer,
             Client!ForgetConnection, Client!RemoteConnectToSignal, Client!RemoteConnect,
             Client!DisconnectSignal, Client!DestroyReceiver, Client!Return,
             Client!Without, Client!ForgetReceiver
        <4> QED  BY <2>1, <3>2, <4>1, <4>2
      <3> QED  BY <3>1, <3>2
    <2>4. ASSUME NEW cl \in Clients, Client!Handle(cl)
          PROVE  ops'[d] = ops[d] /\ connections'[d] = connections[d]
      <3>1. cl # d
        BY <1>1, <2>4 DEF Client!Handle
      <3>2. UNCHANGED connections /\ \E i, reply : ops' = [ops EXCEPT ![cl][i].reply = reply]
        BY <2>4 DEF Client!Handle, Client!HandleInitialize, Client!HandleSubscribe,
           Client!HandleUnsubscribe, Client!Reply
      <3> QED  BY <2>1, <3>1, <3>2
    <2>5. UNCHANGED Client!vars => ops'[d] = ops[d] /\ connections'[d] = connections[d]
      BY DEF Client!vars
    <2> QED  BY <2>3, <2>4, <2>5, RemoteStep DEF Client!Next, Client!ServerNext
  <1> QED  BY <1>1, <1>2

\* What is on the way stays there while the queues do and no socket is closed.
LEMMA WayStays ==
  ASSUME OwedWay, UNCHANGED <<wire, events>>,
         \A o \in Clients \X Receivers \X Emissions : o \in owed' => o \in owed,
         \A d \in Clients, b \in Conns : b \in Client!Sockets(d) => b \in Client!Sockets(d)'
  PROVE  OwedWay'
PROOF
  <1> SUFFICES ASSUME NEW d \in Clients, NEW r \in Receivers, NEW n \in Emissions,
                      <<d, r, n>> \in owed'
               PROVE  Way(d, r, n)'
    BY DEF OwedWay
  <1>1. Way(d, r, n)
    BY DEF OwedWay
  <1>2. CASE Coming(events[d], n, r)
    BY <1>2 DEF Way
  <1>3. ASSUME NEW c \in Conns, c \in Client!Sockets(d), Carries(wire[c], n)
        PROVE  Way(d, r, n)'
    BY <1>3 DEF Way
  <1> QED  BY <1>1, <1>2, <1>3 DEF Way

LEMMA CallsKeepWay ==
  ASSUME OrderInv, OwedWay, NEW cl \in Clients,
         \/ OtherCall(cl)
         \/ \E s \in Signatures, r \in Receivers :
               RemoteConnect(cl, s, r) \/ DisconnectSignal(cl, s, r)
  PROVE  OwedWay'
PROOF
  <1>1. CASE Client!ConnectToServer(cl) /\ UNCHANGED <<wire, events, owed>>
    <2>1. \A d \in Clients, b \in Conns : b \in Client!Sockets(d) => b \in Client!Sockets(d)'
      BY <1>1, ConnectSockets
    <2> QED  BY <1>1, <2>1, WayStays
  <1>2. ASSUME UNCHANGED <<conn, overwritten, wire, events>>,
               UNCHANGED owed \/ \E who : Waive(who)
        PROVE  OwedWay'
    <2>1. \A d \in Clients : Client!Sockets(d)' = Client!Sockets(d)
      BY <1>2 DEF Client!Sockets
    <2>2. \A o \in Clients \X Receivers \X Emissions : o \in owed' => o \in owed
      BY <1>2 DEF Waive
    <2> QED  BY <1>2, <2>1, <2>2, WayStays
  <1>3. CASE OtherCall(cl)
    BY <1>1, <1>2, <1>3 DEF OtherCall, Call, Client!ForgetConnection, Client!Return,
       Client!RemoteConnectToSignal, Client!linkVars
  <1>4. ASSUME NEW s \in Signatures, NEW r \in Receivers,
               RemoteConnect(cl, s, r) \/ DisconnectSignal(cl, s, r)
        PROVE  OwedWay'
    BY <1>2, <1>4 DEF RemoteConnect, DisconnectSignal, Client!RemoteConnect,
       Client!DisconnectSignal, Client!linkVars
  <1> QED  BY <1>3, <1>4

LEMMA ServerKeepsWay ==
  ASSUME OwedWay, Server
  PROVE  OwedWay'
PROOF
  <1>1. UNCHANGED <<conn, overwritten, wire, events, owed>>
    BY DEF Server, HouseKeep, HandleSubscribe, HandleOther, Client!HandleSubscribe,
       Client!HandleInitialize, Client!HandleUnsubscribe, Client!Reply, Client!linkVars
  <1>2. \A d \in Clients : Client!Sockets(d)' = Client!Sockets(d)
    BY <1>1 DEF Client!Sockets
  <1> QED  BY <1>1, <1>2, WayStays

\* A client that the server lists is sent what the subject emits.
LEMMA ListedAreSent ==
  ASSUME Remote!Registry!RegistryInv, NEW s \in Signatures, NEW c \in Conns,
         Remote!Service!Subscribed(c, s)
  PROVE  Copies(s, c) > 0
PROOF
  <1>1. PICK h \in Handlers : signature[h] = s /\ listeners[h][c] > 0
    BY DEF Remote!Service!Subscribed
  <1>2. listeners[h][c] \in 0..MaxWired /\ wired[h][c] \in 0..MaxWired
    BY DEF Remote!Registry!RegistryInv, Remote!Registry!TypeOK
  <1>3. listeners[h][c] <= wired[h][c]
    BY DEF Remote!Registry!RegistryInv, Remote!Registry!ListenersAreWired
  <1>4. wired[h][c] > 0 /\ 1 <= wired[h][c] /\ 1 \in 1..MaxWired
    BY <1>1, <1>2, <1>3, ConstantsAssumption
  <1>5. handlerState[h] = "live"
    <2>1. handlerState[h] # "live" => listeners[h][c] = 0
      BY DEF Remote!Registry!RegistryInv, Remote!Registry!OnlyLiveHandlersList,
         Remote!Registry!NoListener
    <2> QED  BY <1>1, <2>1
  <1>6. <<h, 1>> \in Relaying(s, c)
    BY <1>1, <1>4, <1>5, InRelaying
  <1>7. Cardinality(Relaying(s, c)) # 0
    BY <1>6, RelayingFinite, FS_EmptySet
  <1> QED  BY <1>7, CopiesFinite DEF Copies

LEMMA EmitKeepsWay ==
  ASSUME WayTypes, Remote!Registry!RegistryInv, Remote!HeldAreListed, OwedWay,
         NEW s \in Signatures, Emit(s)
  PROVE  OwedWay'
PROOF
  <1> DEFINE n == Len(emitted) + 1
  <1>1. /\ n \in Emissions /\ UNCHANGED <<conn, overwritten, ops, events>>
        /\ owed' = owed \cup Entitled(s, n)
        /\ wire' = [c \in Conns |->
              IF ClientOpen(c) THEN wire[c] \o [k \in 1..Copies(s, c) |-> n] ELSE <<>>]
    BY DEF Emit, clientVars
  <1> HIDE DEF n
  <1>2. ASSUME NEW d \in Clients, NEW c \in Conns, c \in Client!Sockets(d)
        PROVE  /\ c \in Client!Sockets(d)'
               /\ \A k : Carries(wire[c], k) => Carries(wire'[c], k)
               /\ Copies(s, c) > 0 => Carries(wire'[c], n)
    <2>1. wire'[c] = wire[c] \o [k \in 1..Copies(s, c) |-> n]
      BY <1>1, <1>2 DEF ClientOpen
    <2>2. wire[c] \in Seq(Emissions) /\ Copies(s, c) \in Nat
      BY CopiesFinite DEF WayTypes, OrderInv, QueueTypes
    <2>3. /\ \A k : Carries(wire[c], k) => Carries(wire'[c], k)
          /\ Copies(s, c) > 0 => Carries(wire'[c], n)
      BY <1>1, <2>1, <2>2, CarriesSent
    <2> QED  BY <1>1, <1>2, <2>3 DEF Client!Sockets
  <1> SUFFICES ASSUME NEW d \in Clients, NEW r \in Receivers, NEW k \in Emissions,
                      <<d, r, k>> \in owed'
               PROVE  Way(d, r, k)'
    BY DEF OwedWay
  <1>3. CASE <<d, r, k>> \in owed
    <2>1. Way(d, r, k)
      BY <1>3 DEF OwedWay
    <2>2. CASE Coming(events[d], k, r)
      BY <1>1, <2>2 DEF Way
    <2>3. ASSUME NEW c \in Conns, c \in Client!Sockets(d), Carries(wire[c], k)
          PROVE  Way(d, r, k)'
      BY <1>2, <2>3 DEF Way
    <2> QED  BY <2>1, <2>2, <2>3 DEF Way
  <1>4. CASE <<d, r, k>> \in Entitled(s, n)
    <2>1. k = n /\ Client!Connected(d) /\ connections[d][s][r] > 0
      BY <1>4 DEF Entitled
    <2>2. conn[d] \in Conns /\ conn[d] \in Client!Sockets(d)
      BY <2>1 DEF WayTypes, OrderInv, QueueTypes, Client!Connected, Client!Sockets
    <2>3. Remote!Connected(d) /\ Remote!HasReceiver(d, s)
      BY <2>1 DEF Client!Connected, Remote!Connected, Client!Connecting, Remote!Connecting,
         Remote!HasReceiver
    <2>4. Copies(s, conn[d]) > 0
      BY <2>2, <2>3, ListedAreSent DEF Remote!HeldAreListed
    <2> QED  BY <1>2, <2>1, <2>2, <2>4 DEF Way
  <1> QED  BY <1>1, <1>3, <1>4

LEMMA ReadSignalKeepsWay ==
  ASSUME WayTypes, OneOwner, OwedWay, NEW cl \in Clients, NEW c \in Conns, ReadSignal(cl, c)
  PROVE  OwedWay'
PROOF
  <1> DEFINE n == Head(wire[c])
             new == <<[kind |-> "signal", n |-> n, rcv |-> NoReceiver]>>
  <1>1. /\ c \in Client!Sockets(cl) /\ wire[c] # <<>>
        /\ wire' = [wire EXCEPT ![c] = Tail(@)]
        /\ events' = [events EXCEPT ![cl] = @ \o new]
        /\ UNCHANGED <<conn, overwritten, owed>>
    BY DEF ReadSignal, Post, clientVars
  <1>2. /\ wire \in [Conns -> Seq(Emissions)] /\ events \in [Clients -> Seq(Event)]
        /\ n \in Emissions
    <2>1. wire[c] \in Seq(Emissions) /\ wire \in [Conns -> Seq(Emissions)]
          /\ events \in [Clients -> Seq(Event)]
      BY DEF WayTypes, OrderInv, QueueTypes
    <2> QED  BY <1>1, <2>1, HeadTailProperties
  <1> HIDE DEF n
  <1>3. /\ new \in Seq(Event)
        /\ \A r : Coming(new, n, r)
    <2>1. [kind |-> "signal", n |-> n, rcv |-> NoReceiver] \in Event
      BY <1>2 DEF Event
    <2> QED  BY <2>1 DEF Coming
  <1> HIDE DEF new
  <1> SUFFICES ASSUME NEW d \in Clients, NEW r \in Receivers, NEW k \in Emissions,
                      <<d, r, k>> \in owed
               PROVE  Way(d, r, k)'
    BY <1>1 DEF OwedWay
  <1>4. \A b \in Conns : b \in Client!Sockets(d) => b \in Client!Sockets(d)'
    BY <1>1 DEF Client!Sockets
  <1>5. CASE Coming(events[d], k, r)
    <2>1. Coming(events'[d], k, r)
      <3>1. CASE d = cl
        <4>1. events'[d] = events[d] \o new /\ events[d] \in Seq(Event)
          BY <1>1, <1>2, <3>1
        <4> QED  BY <1>3, <1>5, <4>1, ComingPosted
      <3>2. CASE d # cl
        BY <1>1, <1>2, <1>5, <3>2
      <3> QED  BY <3>1, <3>2
    <2> QED  BY <2>1 DEF Way
  <1>6. ASSUME NEW b \in Conns, b \in Client!Sockets(d), Carries(wire[b], k)
        PROVE  Way(d, r, k)'
    <2>1. CASE b # c
      <3>1. wire'[b] = wire[b]
        BY <1>1, <1>2, <2>1
      <3> QED  BY <1>4, <1>6, <3>1 DEF Way
    <2>2. CASE b = c /\ k # n
      <3>1. wire'[b] = Tail(wire[b]) /\ wire[b] \in Seq(Emissions) /\ wire[b] # <<>>
        BY <1>1, <1>2, <2>2
      <3>2. Carries(Tail(wire[b]), k)
        BY <1>6, <2>2, <3>1, CarriesTail DEF n
      <3> QED  BY <1>4, <1>6, <3>1, <3>2 DEF Way
    <2>3. CASE b = c /\ k = n
      <3>1. d = cl
        BY <1>1, <1>6, <2>3 DEF OneOwner
      <3>2. events'[d] = events[d] \o new /\ events[d] \in Seq(Event)
        BY <1>1, <1>2, <3>1
      <3>3. Coming(events'[d], k, r)
        BY <1>3, <2>3, <3>2, ComingPosted
      <3> QED  BY <3>3 DEF Way
    <2> QED  BY <2>1, <2>2, <2>3
  <1>7. Way(d, r, k)
    BY DEF OwedWay
  <1> QED  BY <1>5, <1>6, <1>7 DEF Way

\* One client's events change, and its sockets stay.
LEMMA EventsKeepWay ==
  ASSUME OwedWay, NEW cl \in Clients, UNCHANGED <<conn, overwritten, wire>>,
         \A d \in Clients : d # cl => events'[d] = events[d],
         \A o \in Clients \X Receivers \X Emissions : o \in owed' => o \in owed,
         \A r \in Receivers, n \in Emissions :
            <<cl, r, n>> \in owed' /\ Coming(events[cl], n, r) => Coming(events'[cl], n, r)
  PROVE  OwedWay'
PROOF
  <1> SUFFICES ASSUME NEW d \in Clients, NEW r \in Receivers, NEW n \in Emissions,
                      <<d, r, n>> \in owed'
               PROVE  Way(d, r, n)'
    BY DEF OwedWay
  <1>1. Way(d, r, n)
    BY DEF OwedWay
  <1>2. CASE Coming(events[d], n, r)
    <2>1. Coming(events'[d], n, r)
      BY <1>2
    <2> QED  BY <2>1 DEF Way
  <1>3. ASSUME NEW c \in Conns, c \in Client!Sockets(d), Carries(wire[c], n)
        PROVE  Way(d, r, n)'
    BY <1>3 DEF Way, Client!Sockets
  <1> QED  BY <1>1, <1>2, <1>3 DEF Way

LEMMA EntriesFinite ==
  ASSUME NEW cl \in Clients, NEW s
  PROVE  /\ IsFiniteSet(Entries(cl, s)) /\ Cardinality(Entries(cl, s)) \in Nat
         /\ Entries(cl, s) \in SUBSET (Receivers \X (1..MaxCalls[cl]))
PROOF
  <1>1. 1 \in Int /\ MaxCalls[cl] \in Int
    BY ConstantsAssumption
  <1>2. IsFiniteSet(1..MaxCalls[cl])
    BY <1>1, FS_Interval
  <1>3. IsFiniteSet(Receivers \X (1..MaxCalls[cl]))
    BY <1>2, ConstantsAssumption, FS_Product
  <1>4. Entries(cl, s) \in SUBSET (Receivers \X (1..MaxCalls[cl]))
    BY DEF Entries
  <1>5. IsFiniteSet(Entries(cl, s))
    BY <1>3, <1>4, FS_Subset
  <1> QED  BY <1>4, <1>5, FS_CardinalityType

\* Every receiver held is among the entries looked up.
LEMMA HeldIsEntry ==
  ASSUME WayTypes, Silent, NEW cl \in Clients, NEW s \in Signatures, NEW r \in Receivers,
         connections[cl][s][r] > 0
  PROVE  <<r, 1>> \in Entries(cl, s)
PROOF
  <1>1. connections[cl][s][r] \in Nat /\ 1 <= connections[cl][s][r]
    <2>1. connections \in [Clients -> [Signatures -> [Receivers -> Nat]]]
      BY DEF WayTypes, Remote!RestTyped
    <2> QED  BY <2>1
  <1>2. MaxCalls[cl] # 0
    BY <1>1 DEF Silent
  <1>3. 1 \in 1..MaxCalls[cl]
    BY <1>2, ConstantsAssumption
  <1> QED  BY <1>1, <1>3 DEF Entries

LEMMA InvokeRemoteSignalKeepsWay ==
  ASSUME WayTypes, Silent, OwedHeld, OwedWay, NEW cl \in Clients, InvokeRemoteSignal(cl)
  PROVE  OwedWay'
PROOF
  <1> DEFINE queue == events[cl]
             n == Head(queue).n
             found == Entries(cl, emitted[n])
  <1>1. PICK list \in SetToSeqs(found) :
           events' = [events EXCEPT ![cl] = Tail(queue) \o
              [i \in DOMAIN list |-> [kind |-> "invocation", n |-> n, rcv |-> list[i][1]]]]
    BY DEF InvokeRemoteSignal, Post
  <1>2. /\ queue # <<>> /\ Head(queue).kind = "signal"
        /\ UNCHANGED <<conn, overwritten, wire, owed>>
    BY DEF InvokeRemoteSignal, NextEvent, clientVars
  <1>3. events \in [Clients -> Seq(Event)] /\ emitted \in Seq(Exposed)
    BY DEF WayTypes, OrderInv, QueueTypes
  <1>4. queue \in Seq(Event) /\ Tail(queue) \in Seq(Event) /\ n \in Emissions
    <2>1. queue \in Seq(Event) /\ Tail(queue) \in Seq(Event) /\ Head(queue) \in Event
      BY <1>2, <1>3, HeadTailProperties
    <2> QED  BY <2>1 DEF Event
  <1>5. IsFiniteSet(found) /\ found \in SUBSET (Receivers \X (1..MaxCalls[cl]))
    BY EntriesFinite
  <1> DEFINE m == Cardinality(found)
             posted == [i \in 1..m |-> [kind |-> "invocation", n |-> n, rcv |-> list[i][1]]]
  <1>6. list \in [1..m -> found] /\ m \in Nat
    BY <1>1, EntriesFinite DEF SetToSeqs
  <1>7. \A r \in Receivers : <<r, 1>> \in found => \E i \in 1..m : list[i] = <<r, 1>>
    BY <1>1, <1>5, ListHasAll
  <1>8. events' = [events EXCEPT ![cl] = Tail(queue) \o posted]
    BY <1>1, <1>6
  <1> HIDE DEF m, found, n
  <1>9. \A i \in 1..m : [kind |-> "invocation", n |-> n, rcv |-> list[i][1]] \in Event
    BY <1>4, <1>5, <1>6 DEF Event
  <1>10. posted \in Seq(Event) /\ Len(posted) = m
    BY <1>6, <1>9
  <1>11. \A i \in 1..m : posted[i].n = n /\ posted[i].rcv = list[i][1]
    OBVIOUS
  <1> HIDE DEF posted
  <1>12. ASSUME NEW r \in Receivers, NEW k \in Emissions, <<cl, r, k>> \in owed,
                Coming(events[cl], k, r)
         PROVE  Coming(events'[cl], k, r)
    <2>1. events'[cl] = Tail(queue) \o posted
      BY <1>3, <1>8
    <2>2. CASE k # n
      <3>1. Coming(Tail(queue), k, r)
        BY <1>2, <1>4, <1>12, <2>2, ComingTail DEF n
      <3> QED  BY <1>4, <1>10, <2>1, <3>1, ComingPosted
    <2>3. CASE k = n
      <3>1. k \in DOMAIN emitted /\ connections[cl][emitted[k]][r] > 0
        BY <1>12 DEF OwedHeld
      <3>2. emitted[k] \in Signatures
        BY <1>3, <3>1, ConstantsAssumption
      <3>3. <<r, 1>> \in found
        BY <2>3, <3>1, <3>2, HeldIsEntry DEF found
      <3>4. PICK i \in 1..m : list[i] = <<r, 1>>
        BY <1>7, <3>3
      <3>5. i \in 1..Len(posted) /\ posted[i].n = k /\ posted[i].rcv = r
        BY <1>10, <1>11, <2>3, <3>4
      <3>6. Coming(posted, k, r)
        BY <3>5 DEF Coming
      <3> QED  BY <1>4, <1>10, <2>1, <3>6, ComingPosted
    <2> QED  BY <2>2, <2>3
  <1>13. \A d \in Clients : d # cl => events'[d] = events[d]
    BY <1>3, <1>8
  <1> QED  BY <1>2, <1>12, <1>13, EventsKeepWay

LEMMA InvokeReceiverKeepsWay ==
  ASSUME WayTypes, OwedWay, NEW cl \in Clients, InvokeReceiver(cl)
  PROVE  OwedWay'
PROOF
  <1> DEFINE e == Head(events[cl])
  <1>1. /\ events[cl] # <<>> /\ e.kind = "invocation"
        /\ events' = [events EXCEPT ![cl] = Tail(@)]
        /\ owed' = owed \ {<<cl, e.rcv, e.n>>}
        /\ UNCHANGED <<conn, overwritten, wire>>
    BY DEF InvokeReceiver, NextEvent, clientVars
  <1>2. events \in [Clients -> Seq(Event)]
    BY DEF WayTypes, OrderInv, QueueTypes
  <1>3. ASSUME NEW r \in Receivers, NEW n \in Emissions, <<cl, r, n>> \in owed',
               Coming(events[cl], n, r)
        PROVE  Coming(events'[cl], n, r)
    <2>1. events'[cl] = Tail(events[cl]) /\ events[cl] \in Seq(Event)
      BY <1>1, <1>2
    <2>2. ~(e.n = n /\ e.rcv = r)
      BY <1>1, <1>3
    <2>3. ~(e.n = n /\ (e.kind = "signal" \/ e.rcv = r))
      BY <1>1, <2>2
    <2>4. Coming(Tail(events[cl]), n, r)
      BY <1>1, <1>3, <2>1, <2>3, ComingTail
    <2> QED  BY <2>1, <2>4
  <1>4. \A d \in Clients : d # cl => events'[d] = events[d]
    BY <1>1, <1>2
  <1>5. \A o \in Clients \X Receivers \X Emissions : o \in owed' => o \in owed
    BY <1>1
  <1> QED  BY <1>1, <1>3, <1>4, <1>5, EventsKeepWay

LEMMA DisconnectFromServerKeepsWay ==
  ASSUME WayTypes, OneOwner, OwedHeld, OwedWay, NEW cl \in Clients, DisconnectFromServer(cl)
  PROVE  OwedWay'
PROOF
  <1>1. /\ wire' = [wire EXCEPT ![conn[cl]] = <<>>] /\ conn' = [conn EXCEPT ![cl] = NoConn]
        /\ conn[cl] # NoConn
        /\ Waive({cl} \X Receivers \X Signatures)
        /\ UNCHANGED <<events, overwritten>>
    BY DEF DisconnectFromServer, Client!DisconnectFromServer
  <1>2. /\ wire \in [Conns -> Seq(Emissions)] /\ conn \in [Clients -> Conns \cup {NoConn}]
        /\ emitted \in Seq(Exposed)
    BY DEF WayTypes, OrderInv, QueueTypes
  <1>3. conn[cl] \in Conns /\ conn[cl] \in Client!Sockets(cl)
    BY <1>1, <1>2 DEF Client!Sockets
  <1> SUFFICES ASSUME NEW d \in Clients, NEW r \in Receivers, NEW n \in Emissions,
                      <<d, r, n>> \in owed'
               PROVE  Way(d, r, n)'
    BY DEF OwedWay
  <1>4. <<d, r, n>> \in owed /\ <<d, r, emitted[n]>> \notin {cl} \X Receivers \X Signatures
    BY <1>1 DEF Waive
  <1>5. d # cl
    <2>1. n \in DOMAIN emitted
      BY <1>4 DEF OwedHeld
    <2>2. emitted[n] \in Signatures
      BY <1>2, <2>1, ConstantsAssumption
    <2> QED  BY <1>4, <2>2
  <1>6. Way(d, r, n)
    BY <1>4 DEF OwedWay
  <1>7. CASE Coming(events[d], n, r)
    BY <1>1, <1>7 DEF Way
  <1>8. ASSUME NEW c \in Conns, c \in Client!Sockets(d), Carries(wire[c], n)
        PROVE  Way(d, r, n)'
    <2>1. c # conn[cl]
      BY <1>3, <1>5, <1>8 DEF OneOwner
    <2>2. wire'[c] = wire[c]
      BY <1>1, <1>2, <2>1
    <2>3. c \in Client!Sockets(d)'
      BY <1>1, <1>2, <1>5, <1>8 DEF Client!Sockets
    <2> QED  BY <1>8, <2>2, <2>3 DEF Way
  <1> QED  BY <1>6, <1>7, <1>8 DEF Way

LEMMA DestroyReceiverKeepsWay ==
  ASSUME WayTypes, OwedHeld, OwedWay, NEW cl \in Clients, NEW q \in Receivers,
         DestroyReceiver(cl, q)
  PROVE  OwedWay'
PROOF
  <1>1. /\ events' = [events EXCEPT ![cl] = DropEvents(events[cl], q)]
        /\ Waive({cl} \X {q} \X Signatures)
        /\ UNCHANGED <<conn, overwritten, wire>>
    BY DEF DestroyReceiver, Client!DestroyReceiver, Client!linkVars
  <1>2. events \in [Clients -> Seq(Event)] /\ emitted \in Seq(Exposed)
    BY DEF WayTypes, OrderInv, QueueTypes
  <1>3. ASSUME NEW r \in Receivers, NEW n \in Emissions, <<cl, r, n>> \in owed',
               Coming(events[cl], n, r)
        PROVE  Coming(events'[cl], n, r)
    <2>1. <<cl, r, n>> \in owed /\ <<cl, r, emitted[n]>> \notin {cl} \X {q} \X Signatures
      BY <1>1, <1>3 DEF Waive
    <2>2. n \in DOMAIN emitted
      BY <2>1 DEF OwedHeld
    <2>3. r # q
      BY <1>2, <2>1, <2>2, ConstantsAssumption
    <2>4. events[cl] \in Seq(Event) /\ events'[cl] = DropEvents(events[cl], q)
      BY <1>1, <1>2
    <2> QED  BY <1>3, <2>3, <2>4, ComingDrop
  <1>4. \A d \in Clients : d # cl => events'[d] = events[d]
    BY <1>1, <1>2
  <1>5. \A o \in Clients \X Receivers \X Emissions : o \in owed' => o \in owed
    BY <1>1 DEF Waive
  <1> QED  BY <1>1, <1>3, <1>4, <1>5, EventsKeepWay

\* A receiver that is still owed something keeps an entry.
LEMMA HeldStays ==
  ASSUME OwedHeld, UNCHANGED emitted,
         \A d \in Clients, r \in Receivers, n \in Emissions : <<d, r, n>> \in owed' =>
            <<d, r, n>> \in owed,
         \A d \in Clients, r \in Receivers, n \in Emissions :
            <<d, r, n>> \in owed' /\ n \in DOMAIN emitted
            /\ connections[d][emitted[n]][r] > 0 => connections'[d][emitted[n]][r] > 0
  PROVE  OwedHeld'
  BY DEF OwedHeld

LEMMA HeldMore ==
  ASSUME WayTypes, OwedHeld, UNCHANGED emitted,
         \A o \in Clients \X Receivers \X Emissions : o \in owed' => o \in owed,
         NEW d, NEW s, NEW r,
         UNCHANGED connections \/ connections' = [connections EXCEPT ![d][s][r] = @ + 1]
  PROVE  OwedHeld'
PROOF
  <1>1. connections \in [Clients -> [Signatures -> [Receivers -> Nat]]]
    BY DEF WayTypes, Remote!RestTyped
  <1>2. emitted \in Seq(Exposed)
    BY DEF WayTypes, OrderInv, QueueTypes
  <1>3. ASSUME NEW e \in Clients, NEW t \in Signatures, NEW q \in Receivers,
               connections[e][t][q] > 0
        PROVE  connections'[e][t][q] > 0
    <2>1. connections[e][t][q] \in Nat
      BY <1>1
    <2>2. CASE UNCHANGED connections
      BY <1>3, <2>2
    <2>3. CASE connections' = [connections EXCEPT ![d][s][r] = @ + 1]
      <3> DEFINE row == [connections[d][s] EXCEPT ![r] = @ + 1]
                 table == [connections[d] EXCEPT ![s] = row]
      <3>1. connections' = [connections EXCEPT ![d] = table]
        BY <2>3
      <3>2. s = t /\ d = e => row[q] > 0
        <4>1. CASE q = r
          BY <1>1, <1>3, <2>1, <4>1
        <4>2. CASE q # r
          BY <1>1, <1>3, <4>2
        <4> QED  BY <4>1, <4>2
      <3> HIDE DEF row
      <3>3. d = e => table[t][q] > 0
        BY <1>1, <1>3, <3>2
      <3> HIDE DEF table
      <3> QED  BY <1>1, <1>3, <3>1, <3>3
    <2> QED  BY <2>2, <2>3
  <1>4. \A n \in DOMAIN emitted : emitted[n] \in Signatures
    BY <1>2, ConstantsAssumption
  <1> QED  BY <1>3, <1>4, HeldStays

LEMMA CallsKeepHeld ==
  ASSUME WayTypes, OwedHeld, NEW cl \in Clients,
         \/ OtherCall(cl)
         \/ \E s \in Signatures, r \in Receivers : RemoteConnect(cl, s, r)
  PROVE  OwedHeld'
PROOF
  <1>1. UNCHANGED <<emitted, owed>>
    BY DEF OtherCall, RemoteConnect
  <1>2. \A o \in Clients \X Receivers \X Emissions : o \in owed' => o \in owed
    BY <1>1
  <1>3. PICK s, r : UNCHANGED connections \/ connections' = [connections EXCEPT ![cl][s][r] = @ + 1]
    BY DEF OtherCall, Call, RemoteConnect, Client!ConnectToServer, Client!ForgetConnection,
       Client!Return, Client!RemoteConnectToSignal, Client!RemoteConnect
  <1> QED  BY <1>1, <1>2, <1>3, HeldMore

LEMMA DisconnectSignalKeepsHeld ==
  ASSUME WayTypes, OwedHeld, NEW cl \in Clients, NEW s \in Signatures, NEW r \in Receivers,
         DisconnectSignal(cl, s, r)
  PROVE  OwedHeld'
PROOF
  <1>1. /\ connections' = [connections EXCEPT ![cl][s][r] = 0]
        /\ Waive({<<cl, r, s>>}) /\ UNCHANGED emitted
    BY DEF DisconnectSignal, Client!DisconnectSignal, Client!Without
  <1>2. /\ connections \in [Clients -> [Signatures -> [Receivers -> Nat]]]
        /\ emitted \in Seq(Exposed)
    BY DEF WayTypes, Remote!RestTyped, OrderInv, QueueTypes
  <1>3. \A n \in DOMAIN emitted : emitted[n] \in Signatures
    BY <1>2, ConstantsAssumption
  <1>4. ASSUME NEW d \in Clients, NEW q \in Receivers, NEW n \in Emissions,
               <<d, q, n>> \in owed', n \in DOMAIN emitted, connections[d][emitted[n]][q] > 0
        PROVE  connections'[d][emitted[n]][q] > 0
    <2>1. <<d, q, emitted[n]>> # <<cl, r, s>>
      BY <1>1, <1>4 DEF Waive
    <2>2. ~(d = cl /\ q = r /\ emitted[n] = s)
      BY <2>1
    <2>3. PICK t \in Signatures : t = emitted[n]
      BY <1>3, <1>4
    <2> QED  BY <1>1, <1>2, <1>4, <2>2, <2>3
  <1>5. \A d \in Clients, q \in Receivers, n \in Emissions :
           <<d, q, n>> \in owed' => <<d, q, n>> \in owed
    BY <1>1 DEF Waive
  <1> QED  BY <1>1, <1>4, <1>5, HeldStays

LEMMA DestroyReceiverKeepsHeld ==
  ASSUME WayTypes, OwedHeld, NEW cl \in Clients, NEW r \in Receivers, DestroyReceiver(cl, r)
  PROVE  OwedHeld'
PROOF
  <1>1. /\ connections' = [connections EXCEPT ![cl] =
                              [s \in Signatures |-> [@[s] EXCEPT ![r] = 0]]]
        /\ Waive({cl} \X {r} \X Signatures) /\ UNCHANGED emitted
    BY DEF DestroyReceiver, Client!DestroyReceiver, Client!ForgetReceiver
  <1>2. /\ connections \in [Clients -> [Signatures -> [Receivers -> Nat]]]
        /\ emitted \in Seq(Exposed)
    BY DEF WayTypes, Remote!RestTyped, OrderInv, QueueTypes
  <1>3. \A n \in DOMAIN emitted : emitted[n] \in Signatures
    BY <1>2, ConstantsAssumption
  <1>4. ASSUME NEW d \in Clients, NEW q \in Receivers, NEW n \in Emissions,
               <<d, q, n>> \in owed', n \in DOMAIN emitted, connections[d][emitted[n]][q] > 0
        PROVE  connections'[d][emitted[n]][q] > 0
    <2>1. <<d, q, emitted[n]>> \notin {cl} \X {r} \X Signatures
      BY <1>1, <1>4 DEF Waive
    <2>2. ~(d = cl /\ q = r)
      BY <1>3, <1>4, <2>1
    <2>3. PICK t \in Signatures : t = emitted[n]
      BY <1>3, <1>4
    <2> QED  BY <1>1, <1>2, <1>4, <2>2, <2>3
  <1>5. \A d \in Clients, q \in Receivers, n \in Emissions :
           <<d, q, n>> \in owed' => <<d, q, n>> \in owed
    BY <1>1 DEF Waive
  <1> QED  BY <1>1, <1>4, <1>5, HeldStays

LEMMA EmitKeepsHeld ==
  ASSUME WayTypes, OwedHeld, NEW s \in Signatures, Emit(s)
  PROVE  OwedHeld'
PROOF
  <1>1. PICK n : n = Len(emitted) + 1
    OBVIOUS
  <1>2. /\ emitted' = Append(emitted, s) /\ s \in Exposed /\ UNCHANGED connections
        /\ owed' = owed \cup Entitled(s, n)
    BY <1>1 DEF Emit, clientVars
  <1>3. emitted \in Seq(Exposed)
    BY DEF WayTypes, OrderInv, QueueTypes
  <1>4. PICK len \in Nat : len = Len(emitted) /\ DOMAIN emitted = 1..len
    BY <1>3, LenProperties
  <1>5. /\ DOMAIN emitted' = 1..(len + 1)
        /\ \A k \in 1..len : emitted'[k] = emitted[k]
        /\ emitted'[len + 1] = s
    BY <1>2, <1>3, <1>4, AppendProperties
  <1> SUFFICES ASSUME NEW d \in Clients, NEW r \in Receivers, NEW k \in Emissions,
                      <<d, r, k>> \in owed'
               PROVE  k \in DOMAIN emitted' /\ connections[d][emitted'[k]][r] > 0
    BY <1>2 DEF OwedHeld
  <1>6. CASE <<d, r, k>> \in owed
    <2>1. k \in 1..len /\ connections[d][emitted[k]][r] > 0
      BY <1>4, <1>6 DEF OwedHeld
    <2>2. k \in 1..(len + 1)
      BY <2>1
    <2> QED  BY <1>5, <2>1, <2>2
  <1>7. CASE <<d, r, k>> \in Entitled(s, n)
    <2>1. k = n /\ connections[d][s][r] > 0
      BY <1>7 DEF Entitled
    <2>2. k = len + 1 /\ k \in 1..(len + 1)
      BY <1>1, <1>4, <2>1
    <2> QED  BY <1>5, <2>1, <2>2
  <1> QED  BY <1>2, <1>6, <1>7

LEMMA HeldStep ==
  ASSUME WayTypes, OwedHeld, [Next]_vars
  PROVE  OwedHeld'
PROOF
  <1>1. ASSUME UNCHANGED <<emitted, connections>>,
               \A o \in Clients \X Receivers \X Emissions : o \in owed' => o \in owed
        PROVE  OwedHeld'
    BY <1>1, HeldMore
  <1>2. CASE Server
    BY <1>1, <1>2 DEF Server, HouseKeep, HandleSubscribe, HandleOther, Client!HandleSubscribe,
       Client!HandleInitialize, Client!HandleUnsubscribe, Client!Reply
  <1>3. ASSUME NEW cl \in Clients, Deliver(cl) PROVE OwedHeld'
    BY <1>1, <1>3 DEF Deliver, InvokeRemoteSignal, InvokeReceiver, ReadSignal, clientVars
  <1>4. ASSUME NEW cl \in Clients, DisconnectFromServer(cl) PROVE OwedHeld'
    BY <1>1, <1>4 DEF DisconnectFromServer, Client!DisconnectFromServer, Waive
  <1>5. CASE UNCHANGED vars
    BY <1>1, <1>5 DEF vars, clientVars
  <1> QED  BY <1>2, <1>3, <1>4, <1>5, CallsKeepHeld, DisconnectSignalKeepsHeld,
              DestroyReceiverKeepsHeld, EmitKeepsHeld DEF Next

LEMMA WayStep ==
  ASSUME WayTypes, Remote!Registry!RegistryInv, Remote!HeldAreListed,
         OneOwner, Silent, OwedHeld, OwedWay, [Next]_vars
  PROVE  OwedWay'
PROOF
  <1>1. CASE UNCHANGED vars
    <2>1. UNCHANGED <<conn, overwritten, wire, events, owed>>
      BY <1>1 DEF vars, clientVars
    <2>2. \A d \in Clients : Client!Sockets(d)' = Client!Sockets(d)
      BY <2>1 DEF Client!Sockets
    <2> QED  BY <2>1, <2>2, WayStays
  <1>2. ASSUME NEW cl \in Clients, Deliver(cl) PROVE OwedWay'
    BY <1>2, InvokeRemoteSignalKeepsWay, InvokeReceiverKeepsWay, ReadSignalKeepsWay DEF Deliver
  <1>3. ASSUME NEW cl \in Clients,
               \/ OtherCall(cl)
               \/ \E s \in Signatures, r \in Receivers :
                     RemoteConnect(cl, s, r) \/ DisconnectSignal(cl, s, r)
        PROVE  OwedWay'
    BY <1>3, CallsKeepWay DEF WayTypes
  <1> QED  BY <1>1, <1>2, <1>3, ServerKeepsWay, EmitKeepsWay, DisconnectFromServerKeepsWay,
              DestroyReceiverKeepsWay DEF Next

LEMMA WayStart == Init => OneOwner /\ Silent /\ OwedHeld /\ OwedWay
PROOF
  <1> SUFFICES ASSUME Init PROVE OneOwner /\ Silent /\ OwedHeld /\ OwedWay
    OBVIOUS
  <1>1. \A cl \in Clients : Client!Sockets(cl) = {NoConn}
    BY DEF Init, Client!Init, Client!Sockets
  <1>2. OneOwner
    BY <1>1, ConstantsAssumption DEF OneOwner
  <1>3. Silent
    BY DEF Init, Client!Init, Silent
  <1>4. OwedHeld /\ OwedWay
    BY DEF Init, OwedHeld, OwedWay
  <1> QED  BY <1>2, <1>3, <1>4

LEMMA WayIsOnTheWay ==
  ASSUME WayTypes, OwedWay
  PROVE  OwedOnTheWay
PROOF
  <1> SUFFICES ASSUME NEW o \in owed
               PROVE  \/ \E c \in Client!Sockets(o[1]) \ {NoConn} : o[3] \in ToSet(wire[c])
                      \/ \E e \in ToSet(events[o[1]]) :
                            e.n = o[3] /\ (e.kind = "signal" \/ e.rcv = o[2])
    BY DEF OwedOnTheWay
  <1>1. PICK d \in Clients, r \in Receivers, n \in Emissions : o = <<d, r, n>>
    BY DEF WayTypes, HistoryTypes
  <1>2. wire \in [Conns -> Seq(Emissions)] /\ events \in [Clients -> Seq(Event)]
    BY DEF WayTypes, OrderInv, QueueTypes
  <1>3. Way(d, r, n)
    BY <1>1 DEF OwedWay
  <1>4. CASE Coming(events[d], n, r)
    <2>1. PICK i \in 1..Len(events[d]) :
             events[d][i].n = n /\ (events[d][i].kind = "signal" \/ events[d][i].rcv = r)
      BY <1>4 DEF Coming
    <2>2. events[d][i] \in ToSet(events[d])
      BY <1>2, <2>1, LenProperties DEF ToSet
    <2> QED  BY <1>1, <2>1, <2>2
  <1>5. ASSUME NEW c \in Conns, c \in Client!Sockets(d), Carries(wire[c], n)
        PROVE  \E b \in Client!Sockets(d) \ {NoConn} : n \in ToSet(wire[b])
    <2>1. PICK k \in 1..Len(wire[c]) : wire[c][k] = n
      BY <1>5 DEF Carries
    <2>2. n \in ToSet(wire[c])
      BY <1>2, <2>1, LenProperties DEF ToSet
    <2> QED  BY <1>5, <2>2, ConstantsAssumption
  <1> QED  BY <1>1, <1>3, <1>4, <1>5 DEF Way

LEMMA ListedHere ==
  ASSUME Remote!OneAtATime
  PROVE  Spec => []Remote!HeldAreListed
PROOF
  <1>1. Remote!Spec => []Remote!HeldAreListed
    BY RemoteAssumptions, Remote!ReceiversAreListed
  <1> QED  BY <1>1, RemoteHolds, PTL

LEMMA TypesHere == Spec => []WayTypes
PROOF
  <1>1. Remote!Spec => []Remote!RestTyped
    BY RemoteAssumptions, Remote!RestHolds
  <1>2. OrderInv /\ HistoryTypes /\ Remote!LinkInv /\ Remote!RestTyped => WayTypes
    BY DEF WayTypes
  <1> QED  BY <1>1, <1>2, RemoteInvariants, RemoteHolds, PTL

\* What a receiver was connected for when the subject emitted reaches it unless
\* it is disconnected or destroyed first: at any time the emission lies in a
\* socket its client still reads, or among the events of its application, however
\* many of them are under way and whoever else comes and goes.  It takes clients
\* that use one connection and make one call at a time, and ids that no two of
\* them share.
THEOREM NoSignalIsLost ==
  ASSUME Remote!OneAtATime
  PROVE  Spec => []OwedOnTheWay
PROOF
  <1>1. WayTypes /\ Silent /\ [Next]_vars => Silent'
    BY SilentStep
  <1>2. WayTypes /\ OneOwner /\ [Next]_vars => OneOwner'
    BY OwnersStep DEF WayTypes
  <1>3. WayTypes /\ OwedHeld /\ [Next]_vars => OwedHeld'
    BY HeldStep
  <1>4. /\ WayTypes /\ Remote!Registry!RegistryInv /\ Remote!HeldAreListed
        /\ OneOwner /\ Silent /\ OwedHeld /\ OwedWay /\ [Next]_vars
        => OwedWay'
    BY WayStep
  <1>5. WayTypes /\ OwedWay => OwedOnTheWay
    BY WayIsOnTheWay
  <1> QED  BY <1>1, <1>2, <1>3, <1>4, <1>5, WayStart, ListedHere, TypesHere, RemoteInvariants, PTL
           DEF Spec
=============================================================================
