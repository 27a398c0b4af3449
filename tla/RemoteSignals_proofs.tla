------------------------ MODULE RemoteSignals_proofs ------------------------
(***************************************************************************)
(* Proofs about clients and the registry together.  The registry's own     *)
(* invariants come from SignalService_proofs, once what the clients do is  *)
(* known to be a behaviour of SignalService.                               *)
(***************************************************************************)
EXTENDS RemoteSignals, SequenceTheorems, TLAPS

Registry == INSTANCE SignalService_proofs

LEMMA RegistryAssumptions ==
  Registry!ExposedAssumption /\ Registry!NullAssumption /\ Registry!MaxWiredAssumption
  BY ServiceAssumption
  DEF Registry!ExposedAssumption, Registry!NullAssumption, Registry!MaxWiredAssumption

-----------------------------------------------------------------------------
(* The clients' long-lived connections                                     *)

LinkTypes ==
    /\ conn \in [Clients -> Conns \cup {NoConn}]
    /\ myId \in [Clients -> Ids \cup {NullId}]
    /\ connState \in [Conns -> {"none", "open", "doomed"}]
    /\ ops \in [Clients -> Seq(Request)]

\* A client's socket is open at both ends, and its connection object exists.
SocketOpen ==
    \A cl \in Clients : conn[cl] # NoConn =>
        conn[cl] \in Conns /\ connState[conn[cl]] = "open" /\ myId[cl] \in IdsOf[cl]

\* A connectToServer that waits has sent the id of the connection there is.
AsksForOwnId ==
    \A cl \in Clients : \A i \in DOMAIN ops[cl] :
        ops[cl][i].kind = "connectToServer" => conn[cl] # NoConn /\ ops[cl][i].id = myId[cl]

\* The other operations name a signal.
NamesSignal ==
    \A cl \in Clients : \A i \in DOMAIN ops[cl] :
        ops[cl][i].kind # "connectToServer" => ops[cl][i].sig \in Signatures

LinkInv == LinkTypes /\ SocketOpen /\ AsksForOwnId /\ NamesSignal

LEMMA LinkStart == Init => LinkInv
PROOF
  <1> SUFFICES ASSUME Init PROVE LinkInv
    OBVIOUS
  <1>1. LinkTypes
    BY DEF Init, LinkTypes, Service!Init
  <1>2. SocketOpen /\ AsksForOwnId /\ NamesSignal
    BY DEF Init, SocketOpen, AsksForOwnId, NamesSignal
  <1> QED  BY <1>1, <1>2 DEF LinkInv

\* An operation is added to the blocked ones.
LEMMA BlocksAdds ==
  ASSUME LinkTypes, NEW cl \in Clients, NEW kind \in BlockingKinds,
         NEW sig \in Signatures \cup {NoSignature}, NEW rcv \in Receivers \cup {NoReceiver},
         NEW id \in Ids \cup {NullId}, Blocks(cl, kind, sig, rcv, id)
  PROVE  LET op == [kind |-> kind, sig |-> sig, rcv |-> rcv, id |-> id, reply |-> "none"] IN
         /\ ops' \in [Clients -> Seq(Request)]
         /\ op \in Request
         /\ \A d \in Clients : d # cl => ops'[d] = ops[d]
         /\ Len(ops[cl]) \in Nat /\ DOMAIN ops[cl] = 1..Len(ops[cl])
         /\ DOMAIN ops'[cl] = 1..(Len(ops[cl]) + 1)
         /\ \A i \in 1..Len(ops[cl]) : ops'[cl][i] = ops[cl][i]
         /\ ops'[cl][Len(ops[cl]) + 1] = op
PROOF
  <1> DEFINE op == [kind |-> kind, sig |-> sig, rcv |-> rcv, id |-> id, reply |-> "none"]
  <1>1. op \in Request
    BY DEF Request
  <1>2. ops' = [ops EXCEPT ![cl] = Append(@, op)] /\ ops[cl] \in Seq(Request)
    BY DEF Blocks, LinkTypes
  <1> HIDE DEF op
  <1>3. /\ Append(ops[cl], op) \in Seq(Request)
        /\ Len(Append(ops[cl], op)) = Len(ops[cl]) + 1
        /\ \A i \in 1..Len(ops[cl]) : Append(ops[cl], op)[i] = ops[cl][i]
        /\ Append(ops[cl], op)[Len(ops[cl]) + 1] = op
    BY <1>1, <1>2, AppendProperties
  <1>4. /\ Len(ops[cl]) \in Nat /\ DOMAIN ops[cl] = 1..Len(ops[cl])
        /\ DOMAIN Append(ops[cl], op) = 1..(Len(ops[cl]) + 1)
    BY <1>2, <1>3, LenProperties
  <1>5. ops'[cl] = Append(ops[cl], op) /\ \A d \in Clients : d # cl => ops'[d] = ops[d]
    BY <1>2 DEF LinkTypes
  <1>6. ops' \in [Clients -> Seq(Request)]
    BY <1>2, <1>3 DEF LinkTypes
  <1> QED  BY <1>1, <1>3, <1>4, <1>5, <1>6 DEF op

\* A reply changes nothing else of an operation.
LEMMA ReplySets ==
  ASSUME LinkTypes, NEW cl \in Clients, NEW i \in DOMAIN ops[cl],
         NEW reply \in {"ok", "error"}, Reply(cl, i, reply)
  PROVE  /\ ops' \in [Clients -> Seq(Request)]
         /\ \A d \in Clients : DOMAIN ops'[d] = DOMAIN ops[d]
         /\ \A d \in Clients : \A j \in DOMAIN ops[d] :
               /\ ops'[d][j].kind = ops[d][j].kind /\ ops'[d][j].sig = ops[d][j].sig
               /\ ops'[d][j].rcv = ops[d][j].rcv /\ ops'[d][j].id = ops[d][j].id
               /\ ops'[d][j].reply = IF d = cl /\ j = i THEN reply ELSE ops[d][j].reply
         /\ ops[cl][i] \in Request
         /\ UNCHANGED <<conn, myId, overwritten, serverKnown, connections, calls, connects>>
PROOF
  <1> DEFINE op == [ops[cl][i] EXCEPT !.reply = reply]
  <1>1. ops[cl] \in Seq(Request) /\ i \in 1..Len(ops[cl]) /\ ops[cl][i] \in Request
    BY LenProperties, ElementOfSeq DEF LinkTypes
  <1>2. /\ op \in Request /\ op.kind = ops[cl][i].kind /\ op.sig = ops[cl][i].sig
        /\ op.rcv = ops[cl][i].rcv /\ op.id = ops[cl][i].id /\ op.reply = reply
    BY <1>1 DEF Request
  <1>3. /\ ops' = [ops EXCEPT ![cl] = [@ EXCEPT ![i] = op]]
        /\ UNCHANGED <<conn, myId, overwritten, serverKnown, connections, calls, connects>>
    BY DEF Reply, linkVars
  <1> HIDE DEF op
  <1>4. [ops[cl] EXCEPT ![i] = op] \in Seq(Request)
    BY <1>1, <1>2, ExceptSeq
  <1>5. ops' \in [Clients -> Seq(Request)]
    BY <1>3, <1>4 DEF LinkTypes
  <1>6. ASSUME NEW d \in Clients
        PROVE  /\ DOMAIN ops'[d] = DOMAIN ops[d]
               /\ \A j \in DOMAIN ops[d] :
                     ops'[d][j] = IF d = cl /\ j = i THEN op ELSE ops[d][j]
    BY <1>3 DEF LinkTypes
  <1> QED  BY <1>1, <1>2, <1>3, <1>5, <1>6

\* The innermost operation goes.
LEMMA ReturnPops ==
  ASSUME LinkTypes, NEW cl \in Clients, Return(cl)
  PROVE  /\ ops' \in [Clients -> Seq(Request)]
         /\ \A d \in Clients : d # cl => ops'[d] = ops[d]
         /\ Len(ops[cl]) \in Nat \ {0} /\ DOMAIN ops[cl] = 1..Len(ops[cl])
         /\ DOMAIN ops'[cl] = 1..(Len(ops[cl]) - 1)
         /\ \A i \in 1..(Len(ops[cl]) - 1) : ops'[cl][i] = ops[cl][i]
         /\ Last(ops[cl]) = ops[cl][Len(ops[cl])]
         /\ Last(ops[cl]) \in Request /\ Last(ops[cl]).reply # "none"
PROOF
  <1>1. /\ ops[cl] # <<>> /\ ops' = [ops EXCEPT ![cl] = Front(@)]
        /\ Last(ops[cl]).reply # "none"
    BY DEF Return
  <1>2. ops[cl] \in Seq(Request) /\ Len(ops[cl]) \in Nat \ {0}
    BY <1>1, EmptySeq DEF LinkTypes
  <1>3. Last(ops[cl]) = ops[cl][Len(ops[cl])] /\ Last(ops[cl]) \in Request
    BY <1>2, ElementOfSeq DEF Last
  <1>4. /\ Front(ops[cl]) \in Seq(Request)
        /\ Len(Front(ops[cl])) = Len(ops[cl]) - 1
        /\ \A i \in 1..(Len(ops[cl]) - 1) : Front(ops[cl])[i] = ops[cl][i]
    <2>1. \A i \in 1..(Len(ops[cl]) - 1) : ops[cl][i] \in Request
      BY <1>2, ElementOfSeq
    <2> QED  BY <1>2, <2>1, SubSeqProperties DEF Front
  <1>5. ops' \in [Clients -> Seq(Request)]
    BY <1>1, <1>4 DEF LinkTypes
  <1>6. ops'[cl] = Front(ops[cl]) /\ \A d \in Clients : d # cl => ops'[d] = ops[d]
    BY <1>1 DEF LinkTypes
  <1>7. /\ DOMAIN ops[cl] = 1..Len(ops[cl])
        /\ DOMAIN Front(ops[cl]) = 1..(Len(ops[cl]) - 1)
    BY <1>2, <1>4, LenProperties
  <1> QED  BY <1>1, <1>2, <1>3, <1>4, <1>5, <1>6, <1>7

LEMMA ConnectToServerKeepsLinks ==
  ASSUME LinkInv, NEW cl \in Clients, ConnectToServer(cl)
  PROVE  LinkInv'
PROOF
  <1>1. PICK c \in Conns, id \in IdsOf[cl] :
           /\ connState[c] = "none" /\ connState' = [connState EXCEPT ![c] = "open"]
           /\ conn' = [conn EXCEPT ![cl] = c] /\ myId' = [myId EXCEPT ![cl] = id]
           /\ Blocks(cl, "connectToServer", NoSignature, NoReceiver, id)
    <2>1. PICK c \in Conns, id \in IdsOf[cl] :
             /\ Service!OpenConnection(c) /\ connState'[c] = "open"
             /\ conn' = [conn EXCEPT ![cl] = c] /\ myId' = [myId EXCEPT ![cl] = id]
             /\ Blocks(cl, "connectToServer", NoSignature, NoReceiver, id)
      BY DEF ConnectToServer
    <2> QED  BY <2>1 DEF Service!OpenConnection, LinkInv, LinkTypes
  <1>2. id \in Ids
    BY <1>1, IdsAssumption
  <1> DEFINE op == [kind |-> "connectToServer", sig |-> NoSignature, rcv |-> NoReceiver,
                    id |-> id, reply |-> "none"]
  <1>3. /\ ops' \in [Clients -> Seq(Request)]
        /\ \A d \in Clients : d # cl => ops'[d] = ops[d]
        /\ Len(ops[cl]) \in Nat /\ DOMAIN ops[cl] = 1..Len(ops[cl])
        /\ DOMAIN ops'[cl] = 1..(Len(ops[cl]) + 1)
        /\ \A i \in 1..Len(ops[cl]) : ops'[cl][i] = ops[cl][i]
        /\ ops'[cl][Len(ops[cl]) + 1] = op
    <2>1. "connectToServer" \in BlockingKinds /\ LinkTypes /\ id \in Ids \cup {NullId}
      BY <1>2 DEF LinkInv, BlockingKinds
    <2>2. NoSignature \in Signatures \cup {NoSignature} /\ NoReceiver \in Receivers \cup {NoReceiver}
      OBVIOUS
    <2> QED  BY <1>1, <2>1, <2>2, BlocksAdds
  <1>4. op.kind = "connectToServer" /\ op.id = id
    OBVIOUS
  <1> HIDE DEF op
  <1>5. \A i \in DOMAIN ops[cl] : ops[cl][i].kind # "connectToServer"
    <2>1. conn[cl] = NoConn \/ ~Connecting(cl)
      BY DEF ConnectToServer
    <2> QED  BY <2>1 DEF LinkInv, AsksForOwnId, Connecting
  <1>6. LinkTypes'
    BY <1>1, <1>2, <1>3 DEF LinkInv, LinkTypes
  <1>7. SocketOpen'
    BY <1>1 DEF LinkInv, LinkTypes, SocketOpen
  <1>8. AsksForOwnId'
    <2> SUFFICES ASSUME NEW d \in Clients, NEW i \in DOMAIN ops'[d],
                        ops'[d][i].kind = "connectToServer"
                 PROVE  conn'[d] # NoConn /\ ops'[d][i].id = myId'[d]
      BY DEF AsksForOwnId
    <2>1. CASE d # cl
      BY <1>1, <1>3, <2>1 DEF LinkInv, LinkTypes, AsksForOwnId
    <2>2. CASE d = cl
      <3>1. i = Len(ops[cl]) + 1
        BY <1>3, <1>5, <2>2
      <3> QED  BY <1>1, <1>3, <1>4, <2>2, <3>1, ServiceAssumption DEF LinkInv, LinkTypes
    <2> QED  BY <2>1, <2>2
  <1>9. NamesSignal'
    <2> SUFFICES ASSUME NEW d \in Clients, NEW i \in DOMAIN ops'[d],
                        ops'[d][i].kind # "connectToServer"
                 PROVE  ops'[d][i].sig \in Signatures
      BY DEF NamesSignal
    <2>1. CASE d # cl
      BY <1>3, <2>1 DEF LinkInv, NamesSignal
    <2>2. CASE d = cl
      <3>1. i \in 1..Len(ops[cl])
        BY <1>3, <1>4, <2>2
      <3> QED  BY <1>3, <2>2, <3>1 DEF LinkInv, NamesSignal
    <2> QED  BY <2>1, <2>2
  <1> QED  BY <1>6, <1>7, <1>8, <1>9 DEF LinkInv

\* Other operations that may block.
LEMMA OtherCallKeepsLinks ==
  ASSUME LinkInv, NEW cl \in Clients, UNCHANGED <<conn, myId, connState>>,
         NEW kind \in BlockingKinds \ {"connectToServer"},
         NEW sig \in Signatures, NEW rcv \in Receivers \cup {NoReceiver},
         Blocks(cl, kind, sig, rcv, myId[cl])
  PROVE  LinkInv'
PROOF
  <1> DEFINE op == [kind |-> kind, sig |-> sig, rcv |-> rcv, id |-> myId[cl], reply |-> "none"]
  <1>1. myId[cl] \in Ids \cup {NullId} /\ kind \in BlockingKinds
    BY DEF LinkInv, LinkTypes
  <1>2. /\ ops' \in [Clients -> Seq(Request)]
        /\ \A d \in Clients : d # cl => ops'[d] = ops[d]
        /\ Len(ops[cl]) \in Nat /\ DOMAIN ops[cl] = 1..Len(ops[cl])
        /\ DOMAIN ops'[cl] = 1..(Len(ops[cl]) + 1)
        /\ \A i \in 1..Len(ops[cl]) : ops'[cl][i] = ops[cl][i]
        /\ ops'[cl][Len(ops[cl]) + 1] = op
    BY <1>1, BlocksAdds DEF LinkInv
  <1>3. op.kind # "connectToServer" /\ op.sig \in Signatures
    OBVIOUS
  <1> HIDE DEF op
  <1>4. LinkTypes' /\ SocketOpen'
    BY <1>2 DEF LinkInv, LinkTypes, SocketOpen
  <1>5. AsksForOwnId'
    <2> SUFFICES ASSUME NEW d \in Clients, NEW i \in DOMAIN ops'[d],
                        ops'[d][i].kind = "connectToServer"
                 PROVE  conn'[d] # NoConn /\ ops'[d][i].id = myId'[d]
      BY DEF AsksForOwnId
    <2>1. CASE d # cl
      BY <1>2, <2>1 DEF LinkInv, AsksForOwnId
    <2>2. CASE d = cl
      <3>1. i \in 1..Len(ops[cl])
        BY <1>2, <1>3, <2>2
      <3> QED  BY <1>2, <2>2, <3>1 DEF LinkInv, AsksForOwnId
    <2> QED  BY <2>1, <2>2
  <1>6. NamesSignal'
    <2> SUFFICES ASSUME NEW d \in Clients, NEW i \in DOMAIN ops'[d],
                        ops'[d][i].kind # "connectToServer"
                 PROVE  ops'[d][i].sig \in Signatures
      BY DEF NamesSignal
    <2>1. CASE d # cl
      BY <1>2, <2>1 DEF LinkInv, NamesSignal
    <2>2. CASE d = cl /\ i \in 1..Len(ops[cl])
      BY <1>2, <2>2 DEF LinkInv, NamesSignal
    <2>3. CASE d = cl /\ i = Len(ops[cl]) + 1
      BY <1>2, <1>3, <2>3
    <2> QED  BY <1>2, <2>1, <2>2, <2>3
  <1> QED  BY <1>4, <1>5, <1>6 DEF LinkInv

LEMMA LinksStay ==
  ASSUME LinkInv, UNCHANGED <<conn, myId, connState, ops>>
  PROVE  LinkInv'
  BY DEF LinkInv, LinkTypes, SocketOpen, AsksForOwnId, NamesSignal

LEMMA ClientKeepsLinks ==
  ASSUME LinkInv, NEW cl \in Clients, ClientNext(cl)
  PROVE  LinkInv'
PROOF
  <1>1. CASE DisconnectFromServer(cl)
    <2>1. /\ conn' = [conn EXCEPT ![cl] = NoConn] /\ ~Connecting(cl)
          /\ UNCHANGED <<myId, connState, ops>>
      BY <1>1 DEF DisconnectFromServer, serviceVars
    <2> QED  BY <2>1 DEF LinkInv, LinkTypes, SocketOpen, AsksForOwnId, NamesSignal, Connecting
  <1>2. CASE ForgetConnection(cl)
    <2>1. /\ conn[cl] = NoConn /\ myId' = [myId EXCEPT ![cl] = NullId]
          /\ UNCHANGED <<conn, connState, ops>>
      BY <1>2 DEF ForgetConnection, serviceVars
    <2> QED  BY <2>1 DEF LinkInv, LinkTypes, SocketOpen, AsksForOwnId, NamesSignal
  <1>3. ASSUME NEW s \in Signatures, RemoteConnectToSignal(cl, s) PROVE LinkInv'
    BY <1>3, OtherCallKeepsLinks
    DEF RemoteConnectToSignal, serviceVars, linkVars, BlockingKinds
  <1>4. ASSUME NEW s \in Signatures, NEW r \in Receivers, RemoteConnect(cl, s, r) PROVE LinkInv'
    <2>1. UNCHANGED <<conn, myId, connState>>
      BY <1>4 DEF RemoteConnect, serviceVars, linkVars
    <2>2. CASE UNCHANGED ops
      BY <2>1, <2>2, LinksStay
    <2>3. CASE Blocks(cl, "remoteConnect", s, r, myId[cl])
      BY <2>1, <2>3, OtherCallKeepsLinks DEF BlockingKinds
    <2> QED  BY <1>4, <2>2, <2>3 DEF RemoteConnect
  <1>5. ASSUME NEW s \in Signatures, NEW r \in Receivers, DisconnectSignal(cl, s, r) PROVE LinkInv'
    <2>1. UNCHANGED <<conn, myId, connState>>
      BY <1>5 DEF DisconnectSignal, serviceVars, linkVars
    <2>2. CASE UNCHANGED ops
      BY <2>1, <2>2, LinksStay
    <2>3. CASE Blocks(cl, "disconnectSignal", s, r, myId[cl])
      BY <2>1, <2>3, OtherCallKeepsLinks DEF BlockingKinds
    <2> QED  BY <1>5, <2>2, <2>3 DEF DisconnectSignal
  <1>6. ASSUME NEW r \in Receivers, DestroyReceiver(cl, r) PROVE LinkInv'
    BY <1>6, LinksStay DEF DestroyReceiver, serviceVars, linkVars
  <1>7. CASE Return(cl)
    <2>1. /\ ops' \in [Clients -> Seq(Request)]
          /\ \A d \in Clients : \A i \in DOMAIN ops'[d] :
                i \in DOMAIN ops[d] /\ ops'[d][i] = ops[d][i]
          /\ UNCHANGED <<conn, myId, connState>>
      <3>1. /\ ops' \in [Clients -> Seq(Request)]
            /\ \A d \in Clients : d # cl => ops'[d] = ops[d]
            /\ Len(ops[cl]) \in Nat /\ DOMAIN ops[cl] = 1..Len(ops[cl])
            /\ DOMAIN ops'[cl] = 1..(Len(ops[cl]) - 1)
            /\ \A i \in 1..(Len(ops[cl]) - 1) : ops'[cl][i] = ops[cl][i]
        BY <1>7, ReturnPops DEF LinkInv
      <3>2. \A i \in 1..(Len(ops[cl]) - 1) : i \in 1..Len(ops[cl])
        BY <3>1
      <3>3. \A d \in Clients : \A i \in DOMAIN ops'[d] :
               i \in DOMAIN ops[d] /\ ops'[d][i] = ops[d][i]
        BY <3>1, <3>2
      <3>4. UNCHANGED <<conn, myId, connState>>
        BY <1>7 DEF Return, serviceVars, linkVars
      <3> QED  BY <3>1, <3>3, <3>4
    <2> QED  BY <2>1 DEF LinkInv, LinkTypes, SocketOpen, AsksForOwnId, NamesSignal
  <1> QED  BY <1>1, <1>2, <1>3, <1>4, <1>5, <1>6, <1>7, ConnectToServerKeepsLinks
           DEF ClientNext

LEMMA HandleKeepsLinks ==
  ASSUME LinkInv, NEW cl \in Clients, Handle(cl)
  PROVE  LinkInv'
PROOF
  <1>1. PICK i \in DOMAIN ops[cl] :
           HandleInitialize(cl, i) \/ HandleSubscribe(cl, i) \/ HandleUnsubscribe(cl, i)
    BY DEF Handle
  <1>2. PICK reply \in {"ok", "error"} : Reply(cl, i, reply)
    BY <1>1 DEF HandleInitialize, HandleSubscribe, HandleUnsubscribe
  <1>3. UNCHANGED connState
    BY <1>1 DEF HandleInitialize, HandleSubscribe, HandleUnsubscribe, serviceVars,
       Service!InitializeConnection, Service!HandleSignalRequest, Service!SubscribeToExisting,
       Service!SubscribeToNew, Service!HandleSignalDisconnect
  <1>4. /\ ops' \in [Clients -> Seq(Request)]
        /\ \A d \in Clients : DOMAIN ops'[d] = DOMAIN ops[d]
        /\ \A d \in Clients : \A j \in DOMAIN ops[d] :
              /\ ops'[d][j].kind = ops[d][j].kind /\ ops'[d][j].id = ops[d][j].id
              /\ ops'[d][j].sig = ops[d][j].sig
        /\ UNCHANGED <<conn, myId>>
    BY <1>2, ReplySets DEF LinkInv
  <1>5. LinkTypes' /\ SocketOpen'
    BY <1>3, <1>4 DEF LinkInv, LinkTypes, SocketOpen
  <1>6. AsksForOwnId'
    BY <1>4 DEF LinkInv, AsksForOwnId
  <1>7. NamesSignal'
    BY <1>4 DEF LinkInv, NamesSignal
  <1> QED  BY <1>5, <1>6, <1>7 DEF LinkInv

LEMMA LinkStep == LinkInv /\ [Next]_vars => LinkInv'
PROOF
  <1> SUFFICES ASSUME LinkInv, [Next]_vars PROVE LinkInv'
    OBVIOUS
  <1>1. ASSUME NEW c \in Conns, NoticeClose(c), UNCHANGED <<linkVars, ops>> PROVE LinkInv'
    <2>1. /\ \A cl \in Clients : c # conn[cl]
          /\ connState' = [connState EXCEPT ![c] = "doomed"]
          /\ UNCHANGED <<conn, myId, ops>>
      BY <1>1 DEF NoticeClose, Service!CloseConnection, Sockets, linkVars
    <2> QED  BY <2>1 DEF LinkInv, LinkTypes, SocketOpen, AsksForOwnId, NamesSignal
  <1>2. ASSUME NEW c \in Conns, Service!DeleteConnection(c), UNCHANGED <<linkVars, ops>>
        PROVE  LinkInv'
    <2>1. /\ connState[c] = "doomed" /\ connState' = [connState EXCEPT ![c] = "none"]
          /\ UNCHANGED <<conn, myId, ops>>
      BY <1>2 DEF Service!DeleteConnection, linkVars
    <2> QED  BY <2>1 DEF LinkInv, LinkTypes, SocketOpen, AsksForOwnId, NamesSignal
  <1>3. ASSUME NEW h \in Handlers, Service!DeleteHandler(h), UNCHANGED <<linkVars, ops>>
        PROVE  LinkInv'
    BY <1>3, LinksStay DEF Service!DeleteHandler, linkVars
  <1>4. CASE UNCHANGED vars
    BY <1>4, LinksStay DEF vars, serviceVars, linkVars
  <1> QED  BY <1>1, <1>2, <1>3, <1>4, ClientKeepsLinks, HandleKeepsLinks
           DEF Next, ServerNext, Delete

-----------------------------------------------------------------------------
(* The registry with these clients                                         *)

\* A handled request is one that SignalService expects.
LEMMA HandleIsRequest ==
  ASSUME LinkInv, NEW cl \in Clients, Handle(cl)
  PROVE  Service!Next \/ UNCHANGED serviceVars
PROOF
  <1>1. PICK i \in DOMAIN ops[cl] :
           HandleInitialize(cl, i) \/ HandleSubscribe(cl, i) \/ HandleUnsubscribe(cl, i)
    BY DEF Handle
  <1>2. ops[cl][i] \in Request
    BY LenProperties, ElementOfSeq DEF LinkInv, LinkTypes
  <1>3. CASE HandleInitialize(cl, i)
    <2>1. conn[cl] \in Conns /\ ops[cl][i].id \in Ids
      BY <1>3, IdsAssumption DEF HandleInitialize, LinkInv, SocketOpen, AsksForOwnId
    <2> QED  BY <1>3, <2>1 DEF HandleInitialize, Service!Next
  <1>4. CASE HandleSubscribe(cl, i)
    BY <1>2, <1>4, ServiceAssumption DEF HandleSubscribe, KnownId, Request, Service!Next
  <1>5. CASE HandleUnsubscribe(cl, i)
    <2>1. CASE UNCHANGED serviceVars
      BY <2>1
    <2>2. CASE /\ registered[ops[cl][i].sig] # NoHandler /\ KnownId(ops[cl][i].id)
               /\ Service!HandleSignalDisconnect(ops[cl][i].sig, ops[cl][i].id)
      <3>1. ops[cl][i].sig \in Signatures /\ ops[cl][i].id \in Ids
        BY <1>2, <1>5, <2>2 DEF HandleUnsubscribe, KnownId, Request, LinkInv, NamesSignal
      <3> QED  BY <2>2, <3>1 DEF Service!Next
    <2> QED  BY <1>5, <2>1, <2>2 DEF HandleUnsubscribe
  <1> QED  BY <1>1, <1>3, <1>4, <1>5

LEMMA NextIsServiceNext ==
  ASSUME LinkInv, [Next]_vars
  PROVE  Service!Next \/ UNCHANGED serviceVars
PROOF
  <1>1. ASSUME NEW cl \in Clients, ClientNext(cl)
        PROVE  Service!Next \/ UNCHANGED serviceVars
    <2>1. CASE ConnectToServer(cl)
      <3>1. PICK c \in Conns : Service!OpenConnection(c)
        BY <2>1 DEF ConnectToServer
      <3> QED  BY <3>1 DEF Service!Next
    <2>2. CASE ~ConnectToServer(cl)
      BY <1>1, <2>2 DEF ClientNext, DisconnectFromServer, ForgetConnection,
         RemoteConnectToSignal, RemoteConnect, DisconnectSignal, DestroyReceiver, Return
    <2> QED  BY <2>1, <2>2
  <1>2. ASSUME NEW c \in Conns, NoticeClose(c) PROVE Service!Next
    BY <1>2 DEF NoticeClose, Service!Next
  <1>3. CASE Delete
    BY <1>3 DEF Delete, Service!Next
  <1> QED  BY <1>1, <1>2, <1>3, HandleIsRequest DEF Next, ServerNext, vars

\* The same actions under the names they have where they are proved about.
LEMMA SameRegistry ==
  /\ Service!Init <=> Registry!Init
  /\ Service!Next <=> Registry!Next
  /\ UNCHANGED serviceVars <=> UNCHANGED Registry!vars
  /\ Service!DeletionPending <=> Registry!DeletionPending
  /\ \A c \in Conns : Service!DeleteConnection(c) <=> Registry!DeleteConnection(c)
  /\ \A h \in Handlers : Service!DeleteHandler(h) <=> Registry!DeleteHandler(h)
  /\ \A s, id : Service!HandleSignalRequest(s, id) <=> Registry!HandleSignalRequest(s, id)
  /\ \A s, id : Service!HandleSignalDisconnect(s, id) <=> Registry!HandleSignalDisconnect(s, id)
PROOF
  <1>1. \A c : /\ Service!OpenConnection(c) <=> Registry!OpenConnection(c)
               /\ Service!CloseConnection(c) <=> Registry!CloseConnection(c)
    BY DEF Service!OpenConnection, Registry!OpenConnection,
           Service!CloseConnection, Registry!CloseConnection
  <1>2. \A c, id : Service!InitializeConnection(c, id) <=> Registry!InitializeConnection(c, id)
    BY DEF Service!InitializeConnection, Registry!InitializeConnection
  <1>3. \A c : Service!DeleteConnection(c) <=> Registry!DeleteConnection(c)
    BY DEF Service!DeleteConnection, Registry!DeleteConnection, Service!ForgetIds,
           Registry!ForgetIds, Service!EmitDestroyed, Registry!EmitDestroyed, Service!Minus,
           Registry!Minus, Service!NoListener, Registry!NoListener
  <1>4. \A s, id : Service!HandleSignalRequest(s, id) <=> Registry!HandleSignalRequest(s, id)
    BY DEF Service!HandleSignalRequest, Registry!HandleSignalRequest,
           Service!SubscribeToExisting, Registry!SubscribeToExisting, Service!SubscribeToNew,
           Registry!SubscribeToNew, Service!AddListener, Registry!AddListener,
           Service!Accepts, Registry!Accepts
  <1>5. \A s, id : Service!HandleSignalDisconnect(s, id) <=> Registry!HandleSignalDisconnect(s, id)
    BY DEF Service!HandleSignalDisconnect, Registry!HandleSignalDisconnect,
           Service!RemoveListener, Registry!RemoveListener, Service!RemoveOne,
           Registry!RemoveOne, Service!EmitDestroyed, Registry!EmitDestroyed,
           Service!NoListener, Registry!NoListener
  <1>6. \A h : Service!DeleteHandler(h) <=> Registry!DeleteHandler(h)
    BY DEF Service!DeleteHandler, Registry!DeleteHandler
  <1>7. Service!Next <=> Registry!Next
    BY <1>1, <1>2, <1>3, <1>4, <1>5, <1>6 DEF Service!Next, Registry!Next
  <1>8. Service!DeletionPending <=> Registry!DeletionPending
    BY DEF Service!DeletionPending, Registry!DeletionPending
  <1> QED  BY <1>3, <1>4, <1>5, <1>6, <1>7, <1>8
           DEF Service!Init, Registry!Init, serviceVars, Registry!vars

\* Whatever clients do, the server behaves as SignalService says: what is proved
\* of the registry holds with these clients.
THEOREM ServiceAsSpecified == Spec => Service!Spec
PROOF
  <1>1. Init => Service!Init
    BY DEF Init
  <1>2. LinkInv /\ [Next]_vars => [Service!Next]_(Service!vars)
    BY NextIsServiceNext DEF serviceVars, Service!vars
  <1> QED  BY <1>1, <1>2, LinkStart, LinkStep, PTL DEF Spec, Service!Spec

THEOREM RegistryHolds == Spec => []Registry!RegistryInv
PROOF
  <1>1. Init => Registry!Init
    BY SameRegistry DEF Init
  <1>2. LinkInv /\ [Next]_vars => [Registry!Next]_(Registry!vars)
    BY NextIsServiceNext, SameRegistry
  <1>3. Spec => Registry!Spec
    BY <1>1, <1>2, LinkStart, LinkStep, PTL DEF Spec, Registry!Spec
  <1>4. Registry!Spec => []Registry!RegistryInv
    BY RegistryAssumptions, Registry!RegistryInvariant
  <1> QED  BY <1>3, <1>4, PTL

LEMMA PromptIsNext == PromptSpec => Spec
PROOF
  <1>1. [PromptNext]_vars => [Next]_vars
    BY DEF PromptNext, Next, ServerNext
  <1> QED  BY <1>1, PTL DEF PromptSpec, Spec

\* With prompt deletions every handler in service can be found by the next
\* request, whatever the clients call, nested or not.
THEOREM HandlersFound == PromptSpec => []LiveHandlerRegistered
PROOF
  <1>1. Init => Registry!Init
    BY SameRegistry DEF Init
  <1>2. LinkInv /\ [PromptNext]_vars => [Registry!PromptNext]_(Registry!vars)
    <2> SUFFICES ASSUME LinkInv, [PromptNext]_vars
                 PROVE  Registry!PromptNext \/ UNCHANGED Registry!vars
      OBVIOUS
    <2>1. CASE Delete
      BY <2>1, SameRegistry DEF Delete, Registry!PromptNext
    <2>2. CASE ~Service!DeletionPending /\ Next
      BY <2>2, NextIsServiceNext, SameRegistry DEF Registry!PromptNext
    <2>3. CASE UNCHANGED vars
      BY <2>3 DEF vars, serviceVars, Registry!vars
    <2> QED  BY <2>1, <2>2, <2>3 DEF PromptNext
  <1>3. LinkInv /\ [PromptNext]_vars => LinkInv'
    BY LinkStep DEF PromptNext, Next, ServerNext
  <1>4. PromptSpec => Registry!PromptSpec
    BY <1>1, <1>2, <1>3, LinkStart, PTL DEF PromptSpec, Registry!PromptSpec
  <1>5. Registry!PromptSpec => []Registry!LiveHandlerRegistered
    BY RegistryAssumptions, Registry!PromptHandlersRegistered
  <1>6. Registry!LiveHandlerRegistered => LiveHandlerRegistered
    BY DEF LiveHandlerRegistered, Service!LiveHandlerRegistered, Registry!LiveHandlerRegistered
  <1> QED  BY <1>4, <1>5, <1>6, PTL

-----------------------------------------------------------------------------
(* Ids                                                                     *)

\* The connection objects of two clients never have the same address.
DistinctIds == \A cl, d \in Clients : cl # d => IdsOf[cl] \cap IdsOf[d] = {}

\* The id has been sent and not yet answered.
AwaitsAnswer(cl) ==
    \E i \in DOMAIN ops[cl] : ops[cl][i].kind = "connectToServer" /\ ops[cl][i].reply = "none"

IdRegistered ==
    \A cl \in Clients : conn[cl] # NoConn /\ ~AwaitsAnswer(cl) => longLived[myId[cl]] = conn[cl]

LEMMA IdStays ==
  ASSUME IdRegistered, UNCHANGED longLived,
         \A cl \in Clients :
            \/ conn'[cl] = NoConn
            \/ AwaitsAnswer(cl)'
            \/ conn'[cl] = conn[cl] /\ myId'[cl] = myId[cl] /\ ~AwaitsAnswer(cl)
  PROVE  IdRegistered'
  BY DEF IdRegistered

\* An operation of another kind begins.
LEMMA BlocksKeepsAnswers ==
  ASSUME LinkInv, NEW cl \in Clients, NEW kind \in BlockingKinds,
         NEW sig \in Signatures, NEW rcv \in Receivers \cup {NoReceiver},
         Blocks(cl, kind, sig, rcv, myId[cl])
  PROVE  \A d \in Clients : AwaitsAnswer(d) => AwaitsAnswer(d)'
PROOF
  <1>1. myId[cl] \in Ids \cup {NullId} /\ sig \in Signatures \cup {NoSignature} /\ LinkTypes
    BY DEF LinkInv, LinkTypes
  <1>2. /\ \A d \in Clients : d # cl => ops'[d] = ops[d]
        /\ Len(ops[cl]) \in Nat /\ DOMAIN ops[cl] = 1..Len(ops[cl])
        /\ DOMAIN ops'[cl] = 1..(Len(ops[cl]) + 1)
        /\ \A i \in 1..Len(ops[cl]) : ops'[cl][i] = ops[cl][i]
    BY <1>1, BlocksAdds
  <1>3. \A i \in DOMAIN ops[cl] : i \in DOMAIN ops'[cl] /\ ops'[cl][i] = ops[cl][i]
    BY <1>2
  <1> QED  BY <1>2, <1>3 DEF AwaitsAnswer

LEMMA ClientKeepsIds ==
  ASSUME LinkInv, IdRegistered, NEW cl \in Clients, ClientNext(cl)
  PROVE  IdRegistered'
PROOF
  <1>1. CASE ConnectToServer(cl)
    <2>1. PICK c \in Conns, id \in IdsOf[cl] :
             /\ Service!OpenConnection(c)
             /\ conn' = [conn EXCEPT ![cl] = c] /\ myId' = [myId EXCEPT ![cl] = id]
             /\ Blocks(cl, "connectToServer", NoSignature, NoReceiver, id)
      BY <1>1 DEF ConnectToServer
    <2> DEFINE op == [kind |-> "connectToServer", sig |-> NoSignature, rcv |-> NoReceiver,
                      id |-> id, reply |-> "none"]
    <2>2. /\ \A d \in Clients : d # cl => ops'[d] = ops[d]
          /\ Len(ops[cl]) \in Nat /\ DOMAIN ops'[cl] = 1..(Len(ops[cl]) + 1)
          /\ ops'[cl][Len(ops[cl]) + 1] = op
      <3>1. "connectToServer" \in BlockingKinds /\ LinkTypes /\ id \in Ids \cup {NullId}
        BY <2>1, IdsAssumption DEF LinkInv, BlockingKinds
      <3>2. /\ NoSignature \in Signatures \cup {NoSignature}
            /\ NoReceiver \in Receivers \cup {NoReceiver}
        OBVIOUS
      <3> QED  BY <2>1, <3>1, <3>2, BlocksAdds
    <2>3. op.kind = "connectToServer" /\ op.reply = "none"
      OBVIOUS
    <2> HIDE DEF op
    <2>4. AwaitsAnswer(cl)'
      <3>1. Len(ops[cl]) + 1 \in DOMAIN ops'[cl]
        BY <2>2
      <3> QED  BY <2>2, <2>3, <3>1 DEF AwaitsAnswer
    <2>5. ASSUME NEW d \in Clients, d # cl
          PROVE  /\ conn'[d] = conn[d] /\ myId'[d] = myId[d]
                 /\ AwaitsAnswer(d)' <=> AwaitsAnswer(d)
      BY <2>1, <2>2, <2>5 DEF LinkInv, LinkTypes, AwaitsAnswer
    <2>6. UNCHANGED longLived
      BY <2>1 DEF Service!OpenConnection
    <2> QED  BY <2>4, <2>5, <2>6, IdStays DEF IdRegistered
  <1>2. CASE DisconnectFromServer(cl)
    <2>1. conn' = [conn EXCEPT ![cl] = NoConn] /\ UNCHANGED <<longLived, myId, ops>>
      BY <1>2 DEF DisconnectFromServer, serviceVars
    <2> QED  BY <2>1 DEF LinkInv, LinkTypes, IdRegistered, AwaitsAnswer
  <1>3. CASE ForgetConnection(cl)
    <2>1. /\ conn[cl] = NoConn /\ myId' = [myId EXCEPT ![cl] = NullId]
          /\ UNCHANGED <<longLived, conn, ops>>
      BY <1>3 DEF ForgetConnection, serviceVars
    <2> QED  BY <2>1 DEF LinkInv, LinkTypes, IdRegistered, AwaitsAnswer
  <1>4. CASE /\ UNCHANGED <<longLived, conn, myId>>
             /\ \A d \in Clients : AwaitsAnswer(d) => AwaitsAnswer(d)'
    BY <1>4 DEF IdRegistered
  <1>5. ASSUME NEW s \in Signatures,
               \/ RemoteConnectToSignal(cl, s)
               \/ \E r \in Receivers : RemoteConnect(cl, s, r) \/ DisconnectSignal(cl, s, r)
        PROVE  IdRegistered'
    <2>1. UNCHANGED <<longLived, conn, myId>>
      BY <1>5 DEF RemoteConnectToSignal, RemoteConnect, DisconnectSignal, serviceVars, linkVars
    <2>2. \/ UNCHANGED ops
          \/ \E kind \in BlockingKinds, rcv \in Receivers \cup {NoReceiver} :
                Blocks(cl, kind, s, rcv, myId[cl])
      BY <1>5 DEF RemoteConnectToSignal, RemoteConnect, DisconnectSignal, BlockingKinds
    <2> QED  BY <1>4, <2>1, <2>2, BlocksKeepsAnswers DEF AwaitsAnswer
  <1>6. ASSUME NEW r \in Receivers, DestroyReceiver(cl, r) PROVE IdRegistered'
    BY <1>4, <1>6 DEF DestroyReceiver, serviceVars, linkVars, AwaitsAnswer
  <1>7. CASE Return(cl)
    <2>1. UNCHANGED <<longLived, conn, myId>>
      BY <1>7 DEF Return, serviceVars, linkVars
    <2>2. /\ \A d \in Clients : d # cl => ops'[d] = ops[d]
          /\ Len(ops[cl]) \in Nat /\ DOMAIN ops[cl] = 1..Len(ops[cl])
          /\ DOMAIN ops'[cl] = 1..(Len(ops[cl]) - 1)
          /\ \A i \in 1..(Len(ops[cl]) - 1) : ops'[cl][i] = ops[cl][i]
          /\ ops[cl][Len(ops[cl])].reply # "none"
      BY <1>7, ReturnPops DEF LinkInv
    <2>3. \A i \in DOMAIN ops[cl] :
             i = Len(ops[cl]) \/ (i \in DOMAIN ops'[cl] /\ ops'[cl][i] = ops[cl][i])
      BY <2>2
    <2>4. \A d \in Clients : AwaitsAnswer(d) => AwaitsAnswer(d)'
      BY <2>2, <2>3 DEF AwaitsAnswer
    <2> QED  BY <1>4, <2>1, <2>4
  <1> QED  BY <1>1, <1>2, <1>3, <1>5, <1>6, <1>7 DEF ClientNext

LEMMA HandleKeepsIds ==
  ASSUME DistinctIds, LinkInv, Registry!TypeOK, IdRegistered, NEW cl \in Clients, Handle(cl)
  PROVE  IdRegistered'
PROOF
  <1>1. PICK i \in DOMAIN ops[cl] :
           HandleInitialize(cl, i) \/ HandleSubscribe(cl, i) \/ HandleUnsubscribe(cl, i)
    BY DEF Handle
  <1>2. PICK reply \in {"ok", "error"} : Reply(cl, i, reply)
    BY <1>1 DEF HandleInitialize, HandleSubscribe, HandleUnsubscribe
  <1>3. /\ \A d \in Clients : DOMAIN ops'[d] = DOMAIN ops[d]
        /\ \A d \in Clients : \A j \in DOMAIN ops[d] :
              /\ ops'[d][j].kind = ops[d][j].kind
              /\ ops'[d][j].reply = IF d = cl /\ j = i THEN reply ELSE ops[d][j].reply
        /\ UNCHANGED <<conn, myId>>
    BY <1>2, ReplySets DEF LinkInv
  <1>4. CASE HandleInitialize(cl, i)
    <2>1. /\ conn[cl] \in Conns /\ myId[cl] \in IdsOf[cl] /\ IdsOf[cl] \subseteq Ids
          /\ longLived' = [longLived EXCEPT ![myId[cl]] = conn[cl]]
      BY <1>4, IdsAssumption
      DEF HandleInitialize, LinkInv, SocketOpen, AsksForOwnId, Service!InitializeConnection
    <2>2. ASSUME NEW d \in Clients, conn'[d] # NoConn, ~AwaitsAnswer(d)'
          PROVE  longLived'[myId'[d]] = conn'[d]
      <3>1. CASE d = cl
        BY <1>3, <2>1, <3>1 DEF Registry!TypeOK
      <3>2. CASE d # cl
        <4>1. myId[d] \in IdsOf[d] /\ myId[d] # myId[cl]
          BY <1>3, <2>1, <2>2, <3>2 DEF LinkInv, SocketOpen, DistinctIds
        <4>2. ~AwaitsAnswer(d)
          BY <1>3, <2>2, <3>2 DEF AwaitsAnswer
        <4> QED  BY <1>3, <2>1, <2>2, <4>1, <4>2 DEF IdRegistered, Registry!TypeOK
      <3> QED  BY <3>1, <3>2
    <2> QED  BY <2>2 DEF IdRegistered
  <1>5. CASE HandleSubscribe(cl, i) \/ HandleUnsubscribe(cl, i)
    <2>1. UNCHANGED longLived
      BY <1>5 DEF HandleSubscribe, HandleUnsubscribe, serviceVars,
         Service!HandleSignalRequest, Service!SubscribeToExisting, Service!SubscribeToNew,
         Service!HandleSignalDisconnect
    <2>2. ops[cl][i].kind # "connectToServer"
      BY <1>5 DEF HandleSubscribe, HandleUnsubscribe
    <2>3. \A d \in Clients : AwaitsAnswer(d) => AwaitsAnswer(d)'
      BY <1>3, <2>2 DEF AwaitsAnswer
    <2> QED  BY <1>3, <2>1, <2>3 DEF IdRegistered
  <1> QED  BY <1>1, <1>4, <1>5

LEMMA IdStep ==
  ASSUME DistinctIds, LinkInv, Registry!TypeOK, IdRegistered, [Next]_vars
  PROVE  IdRegistered'
PROOF
  <1>1. CASE UNCHANGED <<longLived, conn, myId, ops>>
    BY <1>1 DEF IdRegistered, AwaitsAnswer
  <1>2. ASSUME NEW c \in Conns, NoticeClose(c), UNCHANGED <<linkVars, ops>> PROVE IdRegistered'
    BY <1>1, <1>2 DEF NoticeClose, Service!CloseConnection, linkVars
  <1>3. ASSUME NEW c \in Conns, Service!DeleteConnection(c), UNCHANGED <<linkVars, ops>>
        PROVE  IdRegistered'
    <2>1. /\ connState[c] = "doomed"
          /\ longLived' = [id \in Ids |-> IF longLived[id] = c THEN NoConn ELSE longLived[id]]
          /\ UNCHANGED <<conn, myId, ops>>
      BY <1>3 DEF Service!DeleteConnection, Service!ForgetIds, linkVars
    <2>2. ASSUME NEW d \in Clients, conn[d] # NoConn
          PROVE  conn[d] # c /\ myId[d] \in Ids
      BY <2>1, <2>2, IdsAssumption DEF LinkInv, SocketOpen
    <2> QED  BY <2>1, <2>2 DEF IdRegistered, AwaitsAnswer
  <1>4. ASSUME NEW h \in Handlers, Service!DeleteHandler(h), UNCHANGED <<linkVars, ops>>
        PROVE  IdRegistered'
    BY <1>1, <1>4 DEF Service!DeleteHandler, linkVars
  <1>5. CASE UNCHANGED vars
    BY <1>1, <1>5 DEF vars, serviceVars, linkVars
  <1> QED  BY <1>2, <1>3, <1>4, <1>5, ClientKeepsIds, HandleKeepsIds
           DEF Next, ServerNext, Delete

\* The id a connected client puts in its requests leads the server to that
\* client's connection, however calls are nested, through reconnections,
\* reused addresses, connections overwritten, and the late end of old ones, as
\* long as no other client's connection object has the same address.
THEOREM IdLeadsHome ==
  ASSUME DistinctIds
  PROVE  Spec => []IdIsMine
PROOF
  <1>1. Init => IdRegistered
    BY DEF Init, IdRegistered
  <1>2. LinkInv /\ Registry!RegistryInv /\ IdRegistered /\ [Next]_vars => IdRegistered'
    BY IdStep DEF Registry!RegistryInv
  <1>3. IdRegistered => IdIsMine
    BY DEF IdRegistered, IdIsMine, Connected, Connecting, AwaitsAnswer
  <1> QED  BY <1>1, <1>2, <1>3, LinkStart, LinkStep, RegistryHolds, PTL DEF Spec

-----------------------------------------------------------------------------
(* Both ends                                                               *)

\* Applications connect once, make one call at a time, and connect and
\* disconnect signals in pairs.
InPairs ==
    /\ DistinctIds
    /\ MaxConnects <= 1 /\ MaxNested <= 1
    /\ \A cl \in Clients : Uses[cl] \subseteq
          {"connectToServer", "disconnectFromServer", "remoteConnect", "disconnectSignal"}

InSubs(id, s) == <<longLived[id], s>> \in Registry!Subs

PairTypes ==
    /\ connections \in [Clients -> [Signatures -> [Receivers -> Nat]]]
    /\ serverKnown \in [Clients -> BOOLEAN]
    /\ connects \in [Clients -> Nat]

\* What the client waits for.
OneOperation(cl) ==
    /\ Len(ops[cl]) <= 1
    /\ \A i \in DOMAIN ops[cl] :
          /\ ops[cl][i].kind \in {"connectToServer", "remoteConnect", "disconnectSignal"}
          /\ ops[cl][i].kind = "connectToServer" => ops[cl][i].sig = NoSignature
          /\ ops[cl][i].kind = "remoteConnect" => ops[cl][i].rcv \in Receivers

\* A client has one connection in its life, and nothing before it.
OneConnection(cl) ==
    /\ connects[cl] = 0 => ops[cl] = <<>> /\ myId[cl] = NullId /\ ~serverKnown[cl]
    /\ \A i \in DOMAIN ops[cl] : ops[cl][i].kind = "connectToServer" <=> ~serverKnown[cl]
    /\ ~serverKnown[cl] => \A s \in Signatures : ~HasReceiver(cl, s)

\* Its requests carry its id.
OneId(cl) ==
    /\ myId[cl] \in IdsOf[cl] \cup {NullId}
    /\ \A i \in DOMAIN ops[cl] :
          /\ ops[cl][i].id \in IdsOf[cl] \cup {NullId}
          /\ myId[cl] = NullId \/ myId[cl] = ops[cl][i].id

\* A connection whose id is not registered is nobody's and listed nowhere.
Fresh(cl) ==
    AwaitsAnswer(cl) => /\ \A id \in Ids : longLived[id] # conn[cl]
                        /\ \A s \in Signatures : <<conn[cl], s>> \notin Registry!Subs

\* What the two ends know when nothing is under way, and when something is.
SettledAgree(cl) ==
    KnownId(myId[cl]) /\ ~AwaitsAnswer(cl) =>
        \A s \in Signatures : Settled(cl, s) => (InSubs(myId[cl], s) <=> HasReceiver(cl, s))

UnsettledAgree(cl) ==
    \A i \in DOMAIN ops[cl] :
        LET op == ops[cl][i] IN
        /\ op.kind = "remoteConnect" =>
              /\ ~HasReceiver(cl, op.sig)
              /\ KnownId(op.id) => (InSubs(op.id, op.sig) <=> op.reply = "ok")
        /\ op.kind = "disconnectSignal" =>
              /\ ~HasReceiver(cl, op.sig)
              /\ KnownId(op.id) /\ op.reply # "none" => ~InSubs(op.id, op.sig)

ClientAgrees(cl) ==
    /\ OneOperation(cl) /\ OneConnection(cl) /\ OneId(cl)
    /\ Fresh(cl) /\ SettledAgree(cl) /\ UnsettledAgree(cl)

\* No connection is listed twice, nor has two ids or two clients.
ListedOnce == \A h \in Handlers, c \in Conns : listeners[h][c] <= 1
OneIdEach ==
    \A id, other \in Ids : longLived[id] = longLived[other] /\ longLived[id] # NoConn => id = other
OneClientEach ==
    \A cl, d \in Clients : conn[cl] = conn[d] /\ conn[cl] # NoConn => cl = d

PairsInv ==
    /\ PairTypes /\ ListedOnce /\ OneIdEach /\ OneClientEach
    /\ \A cl \in Clients : ClientAgrees(cl)

LEMMA PairsStart == Init => PairsInv
PROOF
  <1> SUFFICES ASSUME Init PROVE PairsInv
    OBVIOUS
  <1>1. PairTypes /\ ListedOnce /\ OneIdEach /\ OneClientEach
    BY DEF Init, Service!Init, PairTypes, ListedOnce, OneIdEach, OneClientEach
  <1>2. ASSUME NEW cl \in Clients PROVE ClientAgrees(cl)
    <2>1. ops[cl] = <<>> /\ myId[cl] = NullId /\ ~serverKnown[cl] /\ connects[cl] = 0
      BY DEF Init
    <2>2. \A s \in Signatures : ~HasReceiver(cl, s)
      BY DEF Init, HasReceiver
    <2> QED  BY <2>1, <2>2 DEF ClientAgrees, OneOperation, OneConnection, OneId, Fresh,
             SettledAgree, UnsettledAgree, AwaitsAnswer, KnownId
  <1> QED  BY <1>1, <1>2 DEF PairsInv

\* A client that does nothing, while nothing changes at its own ids.
LEMMA Undisturbed ==
  ASSUME NEW cl \in Clients, ClientAgrees(cl),
         ops'[cl] = ops[cl], conn'[cl] = conn[cl], myId'[cl] = myId[cl],
         serverKnown'[cl] = serverKnown[cl], connections'[cl] = connections[cl],
         connects'[cl] = connects[cl],
         \A id \in IdsOf[cl] : longLived'[id] # NoConn =>
            /\ longLived'[id] = longLived[id]
            /\ \A s \in Signatures : InSubs(id, s)' <=> InSubs(id, s),
         AwaitsAnswer(cl) => /\ \A id \in Ids : longLived'[id] # conn[cl]
                             /\ \A s \in Signatures : <<conn[cl], s>> \notin Registry!Subs',
         LinkInv
  PROVE  ClientAgrees(cl)'
PROOF
  <1>1. /\ \A s : HasReceiver(cl, s)' <=> HasReceiver(cl, s)
        /\ \A s : Settled(cl, s)' <=> Settled(cl, s)
        /\ AwaitsAnswer(cl)' <=> AwaitsAnswer(cl)
    BY DEF HasReceiver, Settled, AwaitsAnswer
  <1>2. OneOperation(cl)' /\ OneConnection(cl)' /\ OneId(cl)'
    BY <1>1 DEF ClientAgrees, OneOperation, OneConnection, OneId
  <1>3. Fresh(cl)'
    BY <1>1 DEF Fresh
  <1>4. ASSUME NEW id \in IdsOf[cl] \cup {NullId}, KnownId(id)'
        PROVE  KnownId(id) /\ \A s \in Signatures : InSubs(id, s)' <=> InSubs(id, s)
    BY <1>4 DEF KnownId
  <1>5. SettledAgree(cl)'
    BY <1>1, <1>4 DEF ClientAgrees, OneId, SettledAgree
  <1>6. UnsettledAgree(cl)'
    BY <1>1, <1>4 DEF ClientAgrees, OneOperation, OneId, UnsettledAgree, LinkInv, NamesSignal
  <1> QED  BY <1>2, <1>3, <1>5, <1>6 DEF ClientAgrees

-----------------------------------------------------------------------------
(* The clients' steps                                                      *)

\* Nothing that the server lists changes when a client calls or returns.
LEMMA ClientActs ==
  ASSUME PairsInv, LinkInv, NEW cl \in Clients,
         UNCHANGED <<longLived, signature, listeners>>, PairTypes', OneClientEach',
         \A d \in Clients \ {cl} :
            /\ ops'[d] = ops[d] /\ conn'[d] = conn[d] /\ myId'[d] = myId[d]
            /\ serverKnown'[d] = serverKnown[d] /\ connections'[d] = connections[d]
            /\ connects'[d] = connects[d],
         ClientAgrees(cl)'
  PROVE  PairsInv'
PROOF
  <1>1. Registry!Subs' = Registry!Subs
    BY DEF Registry!Subs, Registry!Subscribed
  <1>2. ListedOnce' /\ OneIdEach'
    BY DEF PairsInv, ListedOnce, OneIdEach
  <1>3. ASSUME NEW d \in Clients, d # cl PROVE ClientAgrees(d)'
    <2>1. ClientAgrees(d)
      BY DEF PairsInv
    <2>2. /\ \A id \in IdsOf[d], s \in Signatures : InSubs(id, s)' <=> InSubs(id, s)
          /\ \A s \in Signatures : <<conn[d], s>> \in Registry!Subs' <=> <<conn[d], s>> \in Registry!Subs
      BY <1>1 DEF InSubs
    <2>3. AwaitsAnswer(d) => /\ \A id \in Ids : longLived'[id] # conn[d]
                             /\ \A s \in Signatures : <<conn[d], s>> \notin Registry!Subs'
      BY <2>1, <2>2 DEF ClientAgrees, Fresh
    <2> QED  BY <1>3, <2>1, <2>2, <2>3, Undisturbed
  <1> QED  BY <1>2, <1>3 DEF PairsInv

\* An application that makes one call at a time calls when nothing waits.
LEMMA NothingWaits ==
  ASSUME MaxNested <= 1, LinkInv, NEW cl \in Clients, NEW operation, Calls(cl, operation)
  PROVE  ops[cl] = <<>> /\ operation \in Uses[cl]
PROOF
  <1>1. ops[cl] \in Seq(Request) /\ Len(ops[cl]) \in Nat
    BY LenProperties DEF LinkInv, LinkTypes
  <1>2. Len(ops[cl]) < MaxNested /\ MaxNested \in Nat
    BY BoundsAssumption DEF Calls
  <1>3. Len(ops[cl]) = 0
    BY <1>1, <1>2
  <1> QED  BY <1>1, <1>3, EmptySeq DEF Calls

LEMMA NoOperation ==
  ASSUME InPairs, LinkInv, NEW cl \in Clients, NEW operation, Calls(cl, operation)
  PROVE  ops[cl] = <<>> /\ operation \in Uses[cl]
  BY NothingWaits DEF InPairs

\* The operation that begins is the only one.
LEMMA OnlyOperation ==
  ASSUME LinkInv, NEW cl \in Clients, ops[cl] = <<>>, NEW op, ops' = [ops EXCEPT ![cl] = Append(@, op)]
  PROVE  /\ ops'[cl] = <<op>> /\ Len(ops'[cl]) = 1 /\ DOMAIN ops'[cl] = {1} /\ ops'[cl][1] = op
         /\ \A d \in Clients \ {cl} : ops'[d] = ops[d]
  BY DEF LinkInv, LinkTypes

LEMMA ConnectToServerKeepsPairs ==
  ASSUME InPairs, PairsInv, LinkInv, Registry!RegistryInv, NEW cl \in Clients, ConnectToServer(cl)
  PROVE  PairsInv'
PROOF
  <1>1. PICK c \in Conns, id \in IdsOf[cl] :
           /\ Service!OpenConnection(c)
           /\ conn' = [conn EXCEPT ![cl] = c] /\ myId' = [myId EXCEPT ![cl] = id]
           /\ Blocks(cl, "connectToServer", NoSignature, NoReceiver, id)
    BY DEF ConnectToServer
  <1>2. ops[cl] = <<>>
    BY NoOperation DEF ConnectToServer
  <1> DEFINE op == [kind |-> "connectToServer", sig |-> NoSignature, rcv |-> NoReceiver,
                    id |-> id, reply |-> "none"]
  <1>3. ops' = [ops EXCEPT ![cl] = Append(@, op)]
    BY <1>1 DEF Blocks
  <1>4. /\ op.kind = "connectToServer" /\ op.id = id /\ op.sig = NoSignature
        /\ op.reply = "none"
    OBVIOUS
  <1> HIDE DEF op
  <1>5. /\ Len(ops'[cl]) = 1 /\ DOMAIN ops'[cl] = {1} /\ ops'[cl][1] = op
        /\ \A d \in Clients \ {cl} : ops'[d] = ops[d]
    BY <1>2, <1>3, OnlyOperation
  <1>6. /\ connects[cl] < MaxConnects /\ connects' = [connects EXCEPT ![cl] = @ + 1]
        /\ UNCHANGED <<serverKnown, connections>>
    BY DEF ConnectToServer
  <1>7. connects[cl] = 0 /\ connects'[cl] = 1 /\ ~serverKnown[cl]
    BY <1>6, BoundsAssumption DEF InPairs, PairsInv, PairTypes, ClientAgrees, OneConnection
  <1>8. /\ connState[c] = "none"
        /\ UNCHANGED <<longLived, signature, listeners>>
    BY <1>1 DEF Service!OpenConnection
  <1>9. /\ \A other \in Ids : longLived[other] # c
        /\ \A s \in Signatures : <<c, s>> \notin Registry!Subs
        /\ \A d \in Clients : conn[d] # c
    <2>1. \A other \in Ids : longLived[other] # c
      BY <1>8, ServiceAssumption DEF Registry!RegistryInv, Registry!NoDanglingPointers
    <2>2. \A h \in Handlers : ~(listeners[h][c] > 0)
      BY <1>8 DEF Registry!RegistryInv, Registry!NoDanglingPointers
    <2>3. \A d \in Clients : conn[d] # c
      BY <1>8, ServiceAssumption DEF LinkInv, SocketOpen
    <2> QED  BY <2>1, <2>2, <2>3 DEF Registry!Subs, Registry!Subscribed
  <1>10. Registry!Subs' = Registry!Subs
    BY <1>8 DEF Registry!Subs, Registry!Subscribed
  <1>11. conn'[cl] = c /\ myId'[cl] = id
    BY <1>1 DEF LinkInv, LinkTypes
  <1>12. ClientAgrees(cl)'
    <2>1. \A s \in Signatures : ~HasReceiver(cl, s)'
      BY <1>6, <1>7 DEF PairsInv, ClientAgrees, OneConnection, HasReceiver
    <2>2. AwaitsAnswer(cl)'
      BY <1>4, <1>5 DEF AwaitsAnswer
    <2>3. OneOperation(cl)' /\ OneConnection(cl)' /\ OneId(cl)'
      BY <1>4, <1>5, <1>6, <1>7, <1>11, <2>1 DEF OneOperation, OneConnection, OneId
    <2>4. Fresh(cl)'
      BY <1>8, <1>9, <1>10, <1>11 DEF Fresh
    <2>5. SettledAgree(cl)' /\ UnsettledAgree(cl)'
      BY <1>4, <1>5, <2>2 DEF SettledAgree, UnsettledAgree
    <2> QED  BY <2>3, <2>4, <2>5 DEF ClientAgrees
  <1>13. OneClientEach'
    BY <1>1, <1>9 DEF PairsInv, OneClientEach, LinkInv, LinkTypes
  <1>14. PairTypes'
    BY <1>6 DEF PairsInv, PairTypes
  <1>15. \A d \in Clients \ {cl} :
            /\ conn'[d] = conn[d] /\ myId'[d] = myId[d]
            /\ serverKnown'[d] = serverKnown[d] /\ connections'[d] = connections[d]
            /\ connects'[d] = connects[d]
    BY <1>1, <1>6 DEF LinkInv, LinkTypes, PairsInv, PairTypes
  <1> QED  BY <1>5, <1>8, <1>12, <1>13, <1>14, <1>15, ClientActs

\* A client whose own state changes in nothing that this invariant sees.
LEMMA Unnoticed ==
  ASSUME PairsInv, NEW cl \in Clients,
         UNCHANGED <<longLived, signature, listeners>>,
         ops'[cl] = ops[cl], conn'[cl] = conn[cl], myId'[cl] = myId[cl],
         serverKnown'[cl] = serverKnown[cl], connects'[cl] = connects[cl],
         \A s \in Signatures : HasReceiver(cl, s)' <=> HasReceiver(cl, s),
         LinkInv
  PROVE  ClientAgrees(cl)'
PROOF
  <1>1. ClientAgrees(cl)
    BY DEF PairsInv
  <1>2. Registry!Subs' = Registry!Subs
    BY DEF Registry!Subs, Registry!Subscribed
  <1>3. /\ \A s : Settled(cl, s)' <=> Settled(cl, s)
        /\ AwaitsAnswer(cl)' <=> AwaitsAnswer(cl)
        /\ \A id : KnownId(id)' <=> KnownId(id)
        /\ \A id, s : InSubs(id, s)' <=> InSubs(id, s)
    BY <1>2 DEF Settled, AwaitsAnswer, KnownId, InSubs
  <1>4. OneOperation(cl)' /\ OneConnection(cl)' /\ OneId(cl)'
    BY <1>1 DEF ClientAgrees, OneOperation, OneConnection, OneId
  <1>5. Fresh(cl)' /\ SettledAgree(cl)'
    BY <1>1, <1>2, <1>3 DEF ClientAgrees, Fresh, SettledAgree
  <1>6. UnsettledAgree(cl)'
    BY <1>1, <1>3 DEF ClientAgrees, UnsettledAgree, LinkInv, NamesSignal
  <1> QED  BY <1>4, <1>5, <1>6 DEF ClientAgrees

LEMMA DisconnectFromServerKeepsPairs ==
  ASSUME InPairs, PairsInv, LinkInv, NEW cl \in Clients, DisconnectFromServer(cl)
  PROVE  PairsInv'
PROOF
  <1>1. ops[cl] = <<>>
    BY NoOperation DEF DisconnectFromServer
  <1>2. /\ conn' = [conn EXCEPT ![cl] = NoConn]
        /\ UNCHANGED <<longLived, signature, listeners, myId, serverKnown, connections, ops, connects>>
    BY DEF DisconnectFromServer, serviceVars
  <1>3. Registry!Subs' = Registry!Subs
    BY <1>2 DEF Registry!Subs, Registry!Subscribed
  <1>4. ClientAgrees(cl)
    BY DEF PairsInv
  <1>5. ~AwaitsAnswer(cl) /\ ~AwaitsAnswer(cl)'
    BY <1>1, <1>2 DEF AwaitsAnswer
  <1>6. OneOperation(cl)' /\ OneConnection(cl)' /\ OneId(cl)'
    BY <1>2, <1>4 DEF ClientAgrees, OneOperation, OneConnection, OneId, HasReceiver
  <1>7. SettledAgree(cl)'
    BY <1>2, <1>3, <1>4, <1>5 DEF ClientAgrees, SettledAgree, Settled, InSubs, KnownId, HasReceiver
  <1>8. Fresh(cl)' /\ UnsettledAgree(cl)'
    BY <1>1, <1>2, <1>5 DEF Fresh, UnsettledAgree
  <1>9. PairTypes' /\ OneClientEach'
    BY <1>2 DEF PairsInv, PairTypes, OneClientEach, LinkInv, LinkTypes
  <1>10. \A d \in Clients \ {cl} : conn'[d] = conn[d]
    BY <1>2 DEF LinkInv, LinkTypes
  <1> QED  BY <1>2, <1>6, <1>7, <1>8, <1>9, <1>10, ClientActs DEF ClientAgrees

LEMMA ForgetConnectionKeepsPairs ==
  ASSUME InPairs, PairsInv, LinkInv, NEW cl \in Clients, ForgetConnection(cl)
  PROVE  PairsInv'
PROOF
  <1>1. /\ conn[cl] = NoConn
        /\ myId' = [myId EXCEPT ![cl] = NullId]
        /\ UNCHANGED <<longLived, signature, listeners, conn, serverKnown, connections, ops, connects>>
    BY DEF ForgetConnection, serviceVars
  <1>2. Registry!Subs' = Registry!Subs
    BY <1>1 DEF Registry!Subs, Registry!Subscribed
  <1>3. ClientAgrees(cl)
    BY DEF PairsInv
  <1>4. myId'[cl] = NullId /\ \A d \in Clients \ {cl} : myId'[d] = myId[d]
    BY <1>1 DEF LinkInv, LinkTypes
  <1>5. ~AwaitsAnswer(cl) /\ ~AwaitsAnswer(cl)'
    BY <1>1 DEF AwaitsAnswer, LinkInv, AsksForOwnId
  <1>6. OneOperation(cl)' /\ OneConnection(cl)' /\ OneId(cl)'
    BY <1>1, <1>3, <1>4 DEF ClientAgrees, OneOperation, OneConnection, OneId, HasReceiver
  <1>7. SettledAgree(cl)' /\ Fresh(cl)'
    BY <1>4, <1>5 DEF SettledAgree, KnownId, Fresh
  <1>8. UnsettledAgree(cl)'
    <2>1. /\ \A s : HasReceiver(cl, s)' <=> HasReceiver(cl, s)
          /\ \A id : KnownId(id)' <=> KnownId(id)
          /\ \A id, s : InSubs(id, s)' <=> InSubs(id, s)
      BY <1>1, <1>2 DEF HasReceiver, KnownId, InSubs
    <2> QED  BY <1>1, <1>3, <2>1 DEF ClientAgrees, UnsettledAgree
  <1>9. PairTypes' /\ OneClientEach'
    BY <1>1 DEF PairsInv, PairTypes, OneClientEach
  <1> QED  BY <1>1, <1>4, <1>6, <1>7, <1>8, <1>9, ClientActs DEF ClientAgrees

\* A request about a signal that no receiver is, or remains, connected to.
LEMMA RequestKeepsPairs ==
  ASSUME InPairs, PairsInv, LinkInv, NEW cl \in Clients, ops[cl] = <<>>,
         UNCHANGED <<longLived, signature, listeners, conn, myId, serverKnown, connects>>,
         serverKnown[cl], PairTypes', NEW s \in Signatures, NEW r \in Receivers,
         \A d \in Clients \ {cl} : connections'[d] = connections[d],
         \A t \in Signatures \ {s} : HasReceiver(cl, t)' <=> HasReceiver(cl, t),
         ~HasReceiver(cl, s)',
         \/ Blocks(cl, "remoteConnect", s, r, myId[cl]) /\ ~HasReceiver(cl, s)
         \/ Blocks(cl, "disconnectSignal", s, r, myId[cl])
  PROVE  PairsInv'
PROOF
  <1>1. PICK op : /\ ops' = [ops EXCEPT ![cl] = Append(@, op)]
                  /\ op.kind \in {"remoteConnect", "disconnectSignal"}
                  /\ op.sig = s /\ op.rcv = r /\ op.id = myId[cl] /\ op.reply = "none"
                  /\ op.kind = "remoteConnect" => ~HasReceiver(cl, s)
    <2> DEFINE started(kind) == [kind |-> kind, sig |-> s, rcv |-> r, id |-> myId[cl],
                                 reply |-> "none"]
    <2>1. CASE Blocks(cl, "remoteConnect", s, r, myId[cl]) /\ ~HasReceiver(cl, s)
      <3>1. ops' = [ops EXCEPT ![cl] = Append(@, started("remoteConnect"))]
        BY <2>1 DEF Blocks
      <3>2. /\ started("remoteConnect").kind = "remoteConnect"
            /\ started("remoteConnect").sig = s /\ started("remoteConnect").rcv = r
            /\ started("remoteConnect").id = myId[cl] /\ started("remoteConnect").reply = "none"
        OBVIOUS
      <3> HIDE DEF started
      <3> QED  BY <2>1, <3>1, <3>2
    <2>2. CASE Blocks(cl, "disconnectSignal", s, r, myId[cl])
      <3>1. ops' = [ops EXCEPT ![cl] = Append(@, started("disconnectSignal"))]
        BY <2>2 DEF Blocks
      <3>2. /\ started("disconnectSignal").kind = "disconnectSignal"
            /\ started("disconnectSignal").sig = s /\ started("disconnectSignal").rcv = r
            /\ started("disconnectSignal").id = myId[cl] /\ started("disconnectSignal").reply = "none"
        OBVIOUS
      <3> HIDE DEF started
      <3> QED  BY <2>2, <3>1, <3>2
    <2> QED  BY <2>1, <2>2
  <1>2. /\ Len(ops'[cl]) = 1 /\ DOMAIN ops'[cl] = {1} /\ ops'[cl][1] = op
        /\ \A d \in Clients \ {cl} : ops'[d] = ops[d]
    BY <1>1, OnlyOperation
  <1>3. ClientAgrees(cl)
    BY DEF PairsInv
  <1>4. Registry!Subs' = Registry!Subs
    BY DEF Registry!Subs, Registry!Subscribed
  <1>5. /\ \A id : KnownId(id)' <=> KnownId(id)
        /\ \A id, t : InSubs(id, t)' <=> InSubs(id, t)
        /\ ~AwaitsAnswer(cl) /\ ~AwaitsAnswer(cl)'
        /\ \A t \in Signatures : Settled(cl, t) /\ (Settled(cl, t)' => t # s)
    BY <1>1, <1>2, <1>4 DEF KnownId, InSubs, AwaitsAnswer, Settled
  <1>6. KnownId(myId[cl]) => \A t \in Signatures : InSubs(myId[cl], t) <=> HasReceiver(cl, t)
    BY <1>3, <1>5 DEF ClientAgrees, SettledAgree
  <1>7. OneOperation(cl)' /\ OneConnection(cl)' /\ OneId(cl)'
    BY <1>1, <1>2, <1>3 DEF ClientAgrees, OneOperation, OneConnection, OneId
  <1>8. SettledAgree(cl)' /\ Fresh(cl)'
    BY <1>5, <1>6 DEF SettledAgree, Fresh
  <1>9. UnsettledAgree(cl)'
    BY <1>1, <1>2, <1>5, <1>6 DEF UnsettledAgree
  <1>10. OneClientEach'
    BY DEF PairsInv, OneClientEach
  <1> QED  BY <1>2, <1>7, <1>8, <1>9, <1>10, ClientActs DEF ClientAgrees

LEMMA RemoteConnectKeepsPairs ==
  ASSUME InPairs, PairsInv, LinkInv, NEW cl \in Clients, NEW s \in Signatures,
         NEW r \in Receivers, RemoteConnect(cl, s, r)
  PROVE  PairsInv'
PROOF
  <1>1. ops[cl] = <<>>
    BY NoOperation DEF RemoteConnect
  <1>2. UNCHANGED <<longLived, signature, listeners, conn, myId, serverKnown, connects>>
    BY DEF RemoteConnect, serviceVars, linkVars
  <1>3. CASE HasReceiver(cl, s)
    <2>1. connections' = [connections EXCEPT ![cl][s][r] = @ + 1] /\ UNCHANGED ops
      BY <1>3 DEF RemoteConnect
    <2>2. PairTypes' /\ \A d \in Clients \ {cl} : connections'[d] = connections[d]
      BY <1>2, <2>1 DEF PairsInv, PairTypes
    <2>3. \A t \in Signatures, q \in Receivers :
             connections'[cl][t][q] >= connections[cl][t][q]
             /\ (t # s => connections'[cl][t][q] = connections[cl][t][q])
      BY <2>1 DEF PairsInv, PairTypes
    <2>4. \A t \in Signatures : HasReceiver(cl, t)' <=> HasReceiver(cl, t)
      BY <1>3, <2>2, <2>3 DEF HasReceiver, PairsInv, PairTypes
    <2>5. ClientAgrees(cl)' /\ OneClientEach'
      BY <1>2, <2>1, <2>4, Unnoticed DEF PairsInv, OneClientEach
    <2> QED  BY <1>2, <2>1, <2>2, <2>5, ClientActs
  <1>4. CASE ~HasReceiver(cl, s)
    <2>1. /\ serverKnown[cl] /\ Blocks(cl, "remoteConnect", s, r, myId[cl])
          /\ UNCHANGED connections
      BY <1>4 DEF RemoteConnect
    <2>2. PairTypes' /\ \A t : HasReceiver(cl, t)' <=> HasReceiver(cl, t)
      BY <1>2, <2>1 DEF PairsInv, PairTypes, HasReceiver
    <2> QED  BY <1>1, <1>2, <1>4, <2>1, <2>2, RequestKeepsPairs
  <1> QED  BY <1>3, <1>4

LEMMA DisconnectSignalKeepsPairs ==
  ASSUME InPairs, PairsInv, LinkInv, NEW cl \in Clients, NEW s \in Signatures,
         NEW r \in Receivers, DisconnectSignal(cl, s, r)
  PROVE  PairsInv'
PROOF
  <1>1. ops[cl] = <<>>
    BY NoOperation DEF DisconnectSignal
  <1>2. UNCHANGED <<longLived, signature, listeners, conn, myId, serverKnown, connects>>
    BY DEF DisconnectSignal, serviceVars, linkVars
  <1>3. connections' = [connections EXCEPT ![cl][s][r] = 0]
    BY DEF DisconnectSignal, Without
  <1>4. PairTypes' /\ \A d \in Clients \ {cl} : connections'[d] = connections[d]
    BY <1>2, <1>3 DEF PairsInv, PairTypes
  <1>5. \A t \in Signatures, q \in Receivers :
           connections'[cl][t][q] = IF t = s /\ q = r THEN 0 ELSE connections[cl][t][q]
    BY <1>3 DEF PairsInv, PairTypes
  <1>6. \A t \in Signatures \ {s} : HasReceiver(cl, t)' <=> HasReceiver(cl, t)
    BY <1>5 DEF HasReceiver
  <1>7. CASE serverKnown[cl] /\ LeavesNone(cl, s, r)
    <2>1. ~HasReceiver(cl, s)'
      BY <1>5, <1>7 DEF HasReceiver, LeavesNone
    <2>2. Blocks(cl, "disconnectSignal", s, r, myId[cl])
      BY <1>7 DEF DisconnectSignal
    <2> QED  BY <1>1, <1>2, <1>4, <1>6, <1>7, <2>1, <2>2, RequestKeepsPairs
  <1>8. CASE ~(serverKnown[cl] /\ LeavesNone(cl, s, r))
    <2>1. UNCHANGED ops
      BY <1>8 DEF DisconnectSignal
    <2>2. ~serverKnown[cl] => ~HasReceiver(cl, s) /\ ~HasReceiver(cl, s)'
      BY <1>5 DEF PairsInv, ClientAgrees, OneConnection, HasReceiver
    <2>3. ASSUME ~LeavesNone(cl, s, r) PROVE HasReceiver(cl, s) /\ HasReceiver(cl, s)'
      <3>1. PICK q \in Receivers \ {r} : connections[cl][s][q] # 0
        BY <2>3 DEF LeavesNone
      <3>2. connections[cl][s][q] > 0 /\ connections'[cl][s][q] > 0
        BY <1>5, <3>1 DEF PairsInv, PairTypes
      <3> QED  BY <3>2 DEF HasReceiver
    <2>4. \A t \in Signatures : HasReceiver(cl, t)' <=> HasReceiver(cl, t)
      BY <1>6, <1>8, <2>2, <2>3
    <2>5. ClientAgrees(cl)' /\ OneClientEach'
      BY <1>2, <2>1, <2>4, Unnoticed DEF PairsInv, OneClientEach
    <2> QED  BY <1>2, <1>4, <2>1, <2>5, ClientActs
  <1> QED  BY <1>7, <1>8

LEMMA ReturnKeepsPairs ==
  ASSUME InPairs, PairsInv, LinkInv, NEW cl \in Clients, Return(cl)
  PROVE  PairsInv'
PROOF
  <1> DEFINE op == ops[cl][1]
  <1>1. ClientAgrees(cl)
    BY DEF PairsInv
  <1>2. /\ DOMAIN ops[cl] = {1} /\ DOMAIN ops'[cl] = {}
        /\ Last(ops[cl]) = op /\ op \in Request /\ op.reply # "none"
        /\ \A d \in Clients \ {cl} : ops'[d] = ops[d]
    <2>1. /\ ops' \in [Clients -> Seq(Request)]
          /\ \A d \in Clients : d # cl => ops'[d] = ops[d]
          /\ Len(ops[cl]) \in Nat \ {0} /\ DOMAIN ops[cl] = 1..Len(ops[cl])
          /\ DOMAIN ops'[cl] = 1..(Len(ops[cl]) - 1)
          /\ Last(ops[cl]) = ops[cl][Len(ops[cl])]
          /\ Last(ops[cl]) \in Request /\ Last(ops[cl]).reply # "none"
      BY ReturnPops DEF LinkInv
    <2>2. Len(ops[cl]) <= 1
      BY <1>1 DEF ClientAgrees, OneOperation
    <2> QED  BY <2>1, <2>2
  <1>3. ops'[cl] = <<>>
    BY <1>2, ReturnPops, LenProperties, EmptySeq DEF LinkInv
  <1>4. /\ UNCHANGED <<longLived, signature, listeners, conn, myId, connects>>
        /\ connections' = IF op.kind = "remoteConnect" /\ op.reply = "ok"
                          THEN [connections EXCEPT ![cl][op.sig][op.rcv] = @ + 1]
                          ELSE connections
        /\ serverKnown' = [serverKnown EXCEPT ![cl] = @ \/ op.kind = "connectToServer"]
    BY <1>2 DEF Return, serviceVars, linkVars
  <1>5. /\ op.kind \in {"connectToServer", "remoteConnect", "disconnectSignal"}
        /\ op.kind = "connectToServer" => op.sig = NoSignature
        /\ op.kind = "remoteConnect" => op.rcv \in Receivers
        /\ op.kind # "connectToServer" => op.sig \in Signatures
        /\ myId[cl] = NullId \/ myId[cl] = op.id
    BY <1>1, <1>2 DEF ClientAgrees, OneOperation, OneId, LinkInv, NamesSignal
  <1> HIDE DEF op
  <1>s. PICK s : s = op.sig
    OBVIOUS
  <1>6. Registry!Subs' = Registry!Subs
    BY <1>4 DEF Registry!Subs, Registry!Subscribed
  <1>7. /\ KnownId(myId[cl])' <=> KnownId(myId[cl])
        /\ \A t : InSubs(myId[cl], t)' <=> InSubs(myId[cl], t)
        /\ ~AwaitsAnswer(cl) /\ ~AwaitsAnswer(cl)'
    BY <1>2, <1>4, <1>6 DEF KnownId, InSubs, AwaitsAnswer, op
  <1>8. /\ PairTypes'
        /\ \A d \in Clients \ {cl} :
              serverKnown'[d] = serverKnown[d] /\ connections'[d] = connections[d]
    BY <1>s, <1>4, <1>5 DEF PairsInv, PairTypes
  <1>9. /\ serverKnown[cl] => serverKnown'[cl]
        /\ op.kind = "connectToServer" => serverKnown'[cl]
    BY <1>4 DEF PairsInv, PairTypes
  <1>10. serverKnown'[cl]
    BY <1>1, <1>2, <1>9 DEF ClientAgrees, OneConnection, op
  <1>11. \A t \in Signatures : t # s =>
            /\ Settled(cl, t)
            /\ HasReceiver(cl, t)' <=> HasReceiver(cl, t)
    <2>1. ASSUME NEW t \in Signatures, t # s PROVE Settled(cl, t)
      BY <1>s, <1>2, <2>1 DEF Settled, op
    <2>2. ASSUME NEW t \in Signatures, t # s PROVE connections'[cl][t] = connections[cl][t]
      BY <1>s, <1>4, <1>5, <2>2 DEF PairsInv, PairTypes
    <2> QED  BY <2>1, <2>2 DEF HasReceiver
  <1>12. \A t \in Signatures : t # s /\ KnownId(myId[cl]) =>
            (InSubs(myId[cl], t) <=> HasReceiver(cl, t)')
    BY <1>1, <1>7, <1>11 DEF ClientAgrees, SettledAgree
  <1>13. op.kind = "disconnectSignal" /\ KnownId(myId[cl]) =>
            ~InSubs(myId[cl], s) /\ ~HasReceiver(cl, s)'
    <2> SUFFICES ASSUME op.kind = "disconnectSignal", KnownId(myId[cl])
                 PROVE  ~InSubs(myId[cl], s) /\ ~HasReceiver(cl, s)'
      OBVIOUS
    <2>1. myId[cl] = op.id /\ connections' = connections
      BY <1>s, <1>4, <1>5 DEF KnownId
    <2> QED  BY <1>s, <1>1, <1>2, <2>1 DEF ClientAgrees, UnsettledAgree, HasReceiver, op
  <1>14. op.kind = "remoteConnect" /\ KnownId(myId[cl]) =>
            (InSubs(myId[cl], s) <=> HasReceiver(cl, s)')
    <2> SUFFICES ASSUME op.kind = "remoteConnect", KnownId(myId[cl])
                 PROVE  InSubs(myId[cl], s) <=> HasReceiver(cl, s)'
      OBVIOUS
    <2>1. myId[cl] = op.id
      BY <1>5 DEF KnownId
    <2>2. /\ ~HasReceiver(cl, s)
          /\ InSubs(myId[cl], s) <=> op.reply = "ok"
      BY <1>s, <1>1, <1>2, <2>1 DEF ClientAgrees, UnsettledAgree, op
    <2>3. CASE op.reply = "ok"
      <3>1. connections'[cl][s][op.rcv] > 0
        BY <1>s, <1>4, <1>5, <2>3 DEF PairsInv, PairTypes
      <3> QED  BY <1>s, <1>5, <2>2, <2>3, <3>1 DEF HasReceiver
    <2>4. CASE op.reply # "ok"
      BY <1>4, <2>2, <2>4 DEF HasReceiver
    <2> QED  BY <2>3, <2>4
  <1>15. KnownId(myId[cl]) =>
            \A t \in Signatures : InSubs(myId[cl], t) <=> HasReceiver(cl, t)'
    BY <1>s, <1>5, <1>12, <1>13, <1>14, ServiceAssumption
  <1>16. SettledAgree(cl)'
    BY <1>4, <1>7, <1>15 DEF SettledAgree
  <1>17. OneConnection(cl)'
    BY <1>1, <1>2, <1>4, <1>10 DEF ClientAgrees, OneConnection, OneId
  <1>18. OneOperation(cl)' /\ OneId(cl)' /\ Fresh(cl)' /\ UnsettledAgree(cl)'
    BY <1>1, <1>2, <1>3, <1>4, <1>7, EmptySeq
    DEF ClientAgrees, OneOperation, OneId, Fresh, UnsettledAgree
  <1>19. OneClientEach'
    BY <1>4 DEF PairsInv, OneClientEach
  <1> QED  BY <1>2, <1>4, <1>8, <1>16, <1>17, <1>18, <1>19, ClientActs DEF ClientAgrees

LEMMA ClientKeepsPairs ==
  ASSUME InPairs, PairsInv, LinkInv, Registry!RegistryInv, NEW cl \in Clients, ClientNext(cl)
  PROVE  PairsInv'
PROOF
  <1>1. /\ \A s \in Signatures : ~RemoteConnectToSignal(cl, s)
        /\ \A r \in Receivers : ~DestroyReceiver(cl, r)
    BY DEF InPairs, RemoteConnectToSignal, DestroyReceiver, Calls
  <1> QED  BY <1>1, ConnectToServerKeepsPairs, DisconnectFromServerKeepsPairs,
              ForgetConnectionKeepsPairs, RemoteConnectKeepsPairs, DisconnectSignalKeepsPairs,
              ReturnKeepsPairs
           DEF ClientNext

-----------------------------------------------------------------------------
(* The server's steps                                                      *)

\* The operation that waits gets its reply.
LEMMA OnlyAnswered ==
  ASSUME PairTypes, OneClientEach, LinkInv, NEW cl \in Clients, Len(ops[cl]) <= 1,
         NEW i \in DOMAIN ops[cl],
         NEW reply \in {"ok", "error"}, Reply(cl, i, reply)
  PROVE  /\ i = 1 /\ DOMAIN ops[cl] = {1} /\ DOMAIN ops'[cl] = {1} /\ Len(ops'[cl]) = 1
         /\ ops[cl] # <<>>
         /\ ops'[cl][1].kind = ops[cl][1].kind /\ ops'[cl][1].sig = ops[cl][1].sig
         /\ ops'[cl][1].rcv = ops[cl][1].rcv /\ ops'[cl][1].id = ops[cl][1].id
         /\ ops'[cl][1].reply = reply
         /\ \A d \in Clients \ {cl} : ops'[d] = ops[d]
         /\ UNCHANGED <<conn, myId, serverKnown, connections, connects>>
         /\ PairTypes' /\ OneClientEach'
         /\ \A s : HasReceiver(cl, s)' <=> HasReceiver(cl, s)
         /\ \A s : Settled(cl, s)' <=> Settled(cl, s)
PROOF
  <1>1. /\ ops[cl] \in Seq(Request) /\ ops'[cl] \in Seq(Request)
        /\ DOMAIN ops'[cl] = DOMAIN ops[cl]
        /\ ops'[cl][i].kind = ops[cl][i].kind /\ ops'[cl][i].sig = ops[cl][i].sig
        /\ ops'[cl][i].rcv = ops[cl][i].rcv /\ ops'[cl][i].id = ops[cl][i].id
        /\ ops'[cl][i].reply = reply
        /\ UNCHANGED <<conn, myId, serverKnown, connections, connects>>
    BY ReplySets DEF LinkInv, LinkTypes
  <1>3. /\ Len(ops[cl]) \in Nat /\ DOMAIN ops[cl] = 1..Len(ops[cl])
        /\ Len(ops'[cl]) \in Nat /\ DOMAIN ops'[cl] = 1..Len(ops'[cl])
    BY <1>1, LenProperties
  <1>4. i = 1 /\ Len(ops[cl]) = 1 /\ DOMAIN ops[cl] = {1} /\ DOMAIN ops'[cl] = {1}
    <2>1. PICK n \in Nat : n = Len(ops[cl]) /\ i \in 1..n /\ n <= 1
      BY <1>3
    <2>2. n = 1 /\ i = 1
      <3>1. \A m \in Nat : \A j \in 1..m : m <= 1 => m = 1 /\ j = 1
        OBVIOUS
      <3> QED  BY <2>1, <3>1
    <2>3. DOMAIN ops[cl] = {1}
      BY <1>3, <2>1, <2>2
    <2> QED  BY <1>1, <2>1, <2>2, <2>3
  <1>5. Len(ops'[cl]) = 1 /\ ops[cl] # <<>>
    BY <1>1, <1>3, <1>4, EmptySeq
  <1>6. \A d \in Clients \ {cl} : ops'[d] = ops[d]
    BY DEF Reply, LinkInv, LinkTypes
  <1>7. PairTypes' /\ OneClientEach' /\ \A s : HasReceiver(cl, s)' <=> HasReceiver(cl, s)
    BY <1>1 DEF PairTypes, OneClientEach, HasReceiver
  <1>8. \A s : Settled(cl, s)' <=> Settled(cl, s)
    BY <1>1, <1>4 DEF Settled
  <1> QED  BY <1>1, <1>4, <1>5, <1>6, <1>7, <1>8

LEMMA OperationAnswered ==
  ASSUME PairsInv, LinkInv, NEW cl \in Clients, NEW i \in DOMAIN ops[cl],
         NEW reply \in {"ok", "error"}, Reply(cl, i, reply)
  PROVE  /\ i = 1 /\ DOMAIN ops[cl] = {1} /\ DOMAIN ops'[cl] = {1} /\ Len(ops'[cl]) = 1
         /\ ops[cl] # <<>>
         /\ ops'[cl][1].kind = ops[cl][1].kind /\ ops'[cl][1].sig = ops[cl][1].sig
         /\ ops'[cl][1].rcv = ops[cl][1].rcv /\ ops'[cl][1].id = ops[cl][1].id
         /\ ops'[cl][1].reply = reply
         /\ \A d \in Clients \ {cl} : ops'[d] = ops[d]
         /\ UNCHANGED <<conn, myId, serverKnown, connections, connects>>
         /\ PairTypes' /\ OneClientEach'
         /\ \A s : HasReceiver(cl, s)' <=> HasReceiver(cl, s)
         /\ \A s : Settled(cl, s)' <=> Settled(cl, s)
PROOF
  <1>1. Len(ops[cl]) <= 1 /\ PairTypes /\ OneClientEach
    BY DEF PairsInv, ClientAgrees, OneOperation
  <1> QED  BY <1>1, OnlyAnswered

\* A reply leaves what a client asks for as it is.
LEMMA StillOneOperation ==
  ASSUME PairsInv, NEW cl \in Clients,
         DOMAIN ops[cl] = {1}, DOMAIN ops'[cl] = {1}, Len(ops'[cl]) = 1, ops[cl] # <<>>,
         ops'[cl][1].kind = ops[cl][1].kind, ops'[cl][1].sig = ops[cl][1].sig,
         ops'[cl][1].rcv = ops[cl][1].rcv, ops'[cl][1].id = ops[cl][1].id,
         UNCHANGED <<myId, serverKnown, connections, connects>>
  PROVE  OneOperation(cl)' /\ OneConnection(cl)' /\ OneId(cl)'
PROOF
  <1>1. OneOperation(cl) /\ OneConnection(cl) /\ OneId(cl)
    BY DEF PairsInv, ClientAgrees
  <1> QED  BY <1>1 DEF OneOperation, OneConnection, OneId, HasReceiver

\* A request on a signal is answered, and changes at most the subscription that
\* it names.
LEMMA RequestAnswered ==
  ASSUME InPairs, PairsInv, LinkInv, NEW cl \in Clients, NEW i \in DOMAIN ops[cl],
         NEW reply \in {"ok", "error"}, Reply(cl, i, reply), UNCHANGED longLived,
         NEW op, op = ops[cl][i], op.kind # "connectToServer", ListedOnce',
         \A c \in Conns, t \in Signatures :
            ~KnownId(op.id) \/ c # longLived[op.id] \/ t # op.sig =>
               (<<c, t>> \in Registry!Subs' <=> <<c, t>> \in Registry!Subs),
         KnownId(op.id) =>
            (<<longLived[op.id], op.sig>> \in Registry!Subs'
                <=> op.kind = "remoteConnect" /\ reply = "ok")
  PROVE  PairsInv'
PROOF
  <1>1. /\ i = 1 /\ DOMAIN ops[cl] = {1} /\ DOMAIN ops'[cl] = {1} /\ Len(ops'[cl]) = 1
        /\ ops[cl] # <<>>
        /\ ops'[cl][1].kind = op.kind /\ ops'[cl][1].sig = op.sig
        /\ ops'[cl][1].rcv = op.rcv /\ ops'[cl][1].id = op.id
        /\ ops'[cl][1].reply = reply
        /\ \A d \in Clients \ {cl} : ops'[d] = ops[d]
        /\ UNCHANGED <<conn, myId, serverKnown, connections, connects>>
        /\ PairTypes' /\ OneClientEach'
        /\ \A s : HasReceiver(cl, s)' <=> HasReceiver(cl, s)
        /\ \A s : Settled(cl, s)' <=> Settled(cl, s)
    BY OperationAnswered
  <1>2. ClientAgrees(cl) /\ OneIdEach /\ OneIdEach'
    BY DEF PairsInv, OneIdEach
  <1>3. \A c, t : <<c, t>> \in Registry!Subs => c \in Conns /\ t \in Signatures
    BY DEF Registry!Subs
  <1>3a. \A c, t : <<c, t>> \in Registry!Subs' => c \in Conns /\ t \in Signatures
    BY DEF Registry!Subs
  <1>4. \A c, t : ~KnownId(op.id) \/ c # longLived[op.id] \/ t # op.sig =>
           (<<c, t>> \in Registry!Subs' <=> <<c, t>> \in Registry!Subs)
    BY <1>3, <1>3a
  <1>5. ~AwaitsAnswer(cl) /\ ~AwaitsAnswer(cl)'
    BY <1>1 DEF AwaitsAnswer
  <1>6. /\ op.kind \in {"remoteConnect", "disconnectSignal"} /\ op.sig \in Signatures
        /\ op.id \in IdsOf[cl] \cup {NullId}
        /\ myId[cl] = NullId \/ myId[cl] = op.id
        /\ op.kind = "remoteConnect" => ~HasReceiver(cl, op.sig)
        /\ op.kind = "disconnectSignal" => ~HasReceiver(cl, op.sig)
    BY <1>1, <1>2
    DEF ClientAgrees, OneOperation, OneId, UnsettledAgree, LinkInv, NamesSignal
  <1>7. \A id : KnownId(id)' <=> KnownId(id)
    BY DEF KnownId
  <1>8. ClientAgrees(cl)'
    <2>1. SettledAgree(cl)'
      <3> SUFFICES ASSUME KnownId(myId[cl]), NEW t \in Signatures, Settled(cl, t)
                   PROVE  InSubs(myId[cl], t)' <=> HasReceiver(cl, t)
        BY <1>1, <1>7 DEF SettledAgree
      <3>1. InSubs(myId[cl], t) <=> HasReceiver(cl, t)
        BY <1>2, <1>5 DEF ClientAgrees, SettledAgree
      <3>2. t # op.sig
        BY <1>1 DEF Settled
      <3> QED  BY <1>1, <1>4, <3>1, <3>2 DEF InSubs
    <2>2. UnsettledAgree(cl)'
      BY <1>1, <1>6, <1>7 DEF UnsettledAgree, InSubs
    <2>3. Fresh(cl)'
      BY <1>5 DEF Fresh
    <2>4. OneOperation(cl)' /\ OneConnection(cl)' /\ OneId(cl)'
      BY <1>1, StillOneOperation
    <2> QED  BY <2>1, <2>2, <2>3, <2>4 DEF ClientAgrees
  <1>9. ASSUME NEW d \in Clients, d # cl PROVE ClientAgrees(d)'
    <2>1. ClientAgrees(d)
      BY DEF PairsInv
    <2>2. ASSUME NEW id \in IdsOf[d], longLived[id] # NoConn, KnownId(op.id)
          PROVE  longLived[id] # longLived[op.id]
      <3>1. op.id \in IdsOf[cl] /\ id \in Ids /\ op.id \in Ids
        BY <1>6, <2>2, IdsAssumption DEF KnownId
      <3>2. id # op.id
        BY <1>9, <3>1 DEF InPairs, DistinctIds
      <3> QED  BY <1>2, <2>2, <3>1, <3>2 DEF OneIdEach
    <2>3. \A id \in IdsOf[d] : longLived[id] # NoConn =>
             \A t \in Signatures : InSubs(id, t)' <=> InSubs(id, t)
      BY <1>4, <2>2 DEF InSubs
    <2>4. AwaitsAnswer(d) => /\ \A id \in Ids : longLived[id] # conn[d]
                             /\ \A t \in Signatures : <<conn[d], t>> \notin Registry!Subs'
      <3> SUFFICES ASSUME AwaitsAnswer(d)
                   PROVE  /\ \A id \in Ids : longLived[id] # conn[d]
                          /\ \A t \in Signatures : <<conn[d], t>> \notin Registry!Subs'
        OBVIOUS
      <3>1. /\ \A id \in Ids : longLived[id] # conn[d]
            /\ \A t \in Signatures : <<conn[d], t>> \notin Registry!Subs
        BY <2>1 DEF ClientAgrees, Fresh
      <3>2. KnownId(op.id) => op.id \in Ids
        BY <1>6, IdsAssumption DEF KnownId
      <3> QED  BY <1>4, <3>1, <3>2
    <2> QED  BY <1>1, <1>9, <2>1, <2>3, <2>4, Undisturbed
  <1> QED  BY <1>1, <1>2, <1>8, <1>9 DEF PairsInv

LEMMA HandleSubscribeKeepsPairs ==
  ASSUME InPairs, PairsInv, LinkInv, Registry!RegistryInv,
         NEW cl \in Clients, NEW i \in DOMAIN ops[cl], HandleSubscribe(cl, i)
  PROVE  PairsInv'
PROOF
  <1> DEFINE op == ops[cl][i]
  <1>1. /\ op.reply = "none"
        /\ op.kind \in {"remoteConnect", "remoteConnectToSignal"}
    BY DEF HandleSubscribe, Pending
  <1>2. op.kind = "remoteConnect" /\ op.sig \in Signatures /\ op.id \in Ids \cup {NullId}
    <2>1. op.id \in IdsOf[cl] \cup {NullId} /\ op.kind # "remoteConnectToSignal"
      BY DEF PairsInv, ClientAgrees, OneOperation, OneId
    <2> QED  BY <1>1, <2>1, IdsAssumption DEF LinkInv, NamesSignal
  <1>3. KnownId(op.id) => <<longLived[op.id], op.sig>> \notin Registry!Subs
    BY <1>1, <1>2 DEF PairsInv, ClientAgrees, UnsettledAgree, InSubs
  <1>4. CASE /\ KnownId(op.id) /\ Service!HandleSignalRequest(op.sig, op.id)
             /\ Reply(cl, i, "ok")
    <2> PICK s, id, c : s = op.sig /\ id = op.id /\ c = longLived[op.id]
      OBVIOUS
    <2>1. Registry!HandleSignalRequest(s, id) /\ s \in Signatures /\ id \in Ids
      BY <1>2, <1>4, SameRegistry DEF KnownId
    <2>2. Registry!Subs' = Registry!Subs \cup {<<c, s>>} /\ UNCHANGED longLived
      BY <2>1, RegistryAssumptions, Registry!SubscribeSimulation
      DEF Registry!Abstract!Subscribe
    <2>3. \A d \in Conns, t \in Signatures :
             d # c \/ t # s => (<<d, t>> \in Registry!Subs' <=> <<d, t>> \in Registry!Subs)
      BY <2>2
    <2>4. <<c, s>> \in Registry!Subs'
      BY <2>2
    <2>5. ListedOnce'
      <3>1. c \in Conns /\ \A h \in Handlers : signature[h] = s => ~(listeners[h][c] > 0)
        <4>1. c \in Conns
          BY <1>2, <1>4 DEF KnownId, Registry!RegistryInv, Registry!TypeOK
        <4> QED  BY <1>3, <1>4, <2>1, <4>1 DEF Registry!Subs, Registry!Subscribed
      <3>2. PICK h \in Handlers : /\ listeners' = [listeners EXCEPT ![h][c] = @ + 1]
                                  /\ listeners[h][c] = 0
        <4>1. CASE Registry!SubscribeToExisting(s, id)
          <5>1. registered[s] \in Handlers /\ signature[registered[s]] = s
            BY <2>1, <4>1
            DEF Registry!SubscribeToExisting, Registry!RegistryInv, Registry!TypeOK,
                Registry!RegisteredHandlerInUse
          <5>2. listeners[registered[s]][c] = 0
            BY <3>1, <5>1, ServiceAssumption DEF Registry!RegistryInv, Registry!TypeOK
          <5> QED  BY <4>1, <5>1, <5>2 DEF Registry!SubscribeToExisting, Registry!AddListener
        <4>2. CASE Registry!SubscribeToNew(s, id)
          <5>1. PICK h \in Handlers :
                   /\ handlerState[h] = "none"
                   /\ listeners' = [listeners EXCEPT ![h][c] = @ + 1]
            BY <4>2 DEF Registry!SubscribeToNew, Registry!AddListener
          <5>2. listeners[h][c] = 0
            BY <3>1, <5>1
            DEF Registry!RegistryInv, Registry!OnlyLiveHandlersList, Registry!NoListener
          <5> QED  BY <5>1, <5>2
        <4> QED  BY <2>1, <4>1, <4>2 DEF Registry!HandleSignalRequest
      <3> QED  BY <3>1, <3>2, ServiceAssumption
               DEF PairsInv, ListedOnce, Registry!RegistryInv, Registry!TypeOK
    <2>6. op.kind # "connectToServer" /\ Reply(cl, i, "ok")
      BY <1>2, <1>4
    <2>7. /\ \A d \in Conns, t \in Signatures :
                ~KnownId(op.id) \/ d # longLived[op.id] \/ t # op.sig =>
                   (<<d, t>> \in Registry!Subs' <=> <<d, t>> \in Registry!Subs)
          /\ KnownId(op.id) =>
                (<<longLived[op.id], op.sig>> \in Registry!Subs'
                    <=> op.kind = "remoteConnect" /\ "ok" = "ok")
      BY <1>2, <1>4, <2>3, <2>4
    <2> HIDE DEF op
    <2>8. UNCHANGED longLived
      BY <2>2
    <2> QED  BY <2>5, <2>6, <2>7, <2>8, RequestAnswered DEF op
  <1>5. CASE UNCHANGED serviceVars /\ Reply(cl, i, "error")
    <2>1. Registry!Subs' = Registry!Subs /\ ListedOnce' /\ UNCHANGED longLived
      BY <1>5 DEF serviceVars, Registry!Subs, Registry!Subscribed, PairsInv, ListedOnce
    <2> QED  BY <1>2, <1>3, <1>5, <2>1, RequestAnswered
  <1> QED  BY <1>4, <1>5 DEF HandleSubscribe

\* With every handler in service registered, a disconnect request finds the one
\* entry of the connection.
LEMMA HandleUnsubscribeKeepsPairs ==
  ASSUME InPairs, PairsInv, LinkInv, Registry!RegistryInv, LiveHandlerRegistered,
         NEW cl \in Clients, NEW i \in DOMAIN ops[cl], HandleUnsubscribe(cl, i)
  PROVE  PairsInv'
PROOF
  <1> DEFINE op == ops[cl][i]
  <1>1. op.kind = "disconnectSignal" /\ Reply(cl, i, "ok")
    BY DEF HandleUnsubscribe
  <1>2. op.sig \in Signatures /\ op.id \in Ids \cup {NullId}
    <2>1. op.id \in IdsOf[cl] \cup {NullId}
      BY DEF PairsInv, ClientAgrees, OneId
    <2> QED  BY <1>1, <2>1, IdsAssumption DEF LinkInv, NamesSignal
  <1> PICK s, id, c : s = op.sig /\ id = op.id /\ c = longLived[op.id]
    OBVIOUS
  <1>3. \A h \in Handlers, d \in Conns :
           listeners[h][d] > 0 => handlerState[h] = "live" /\ registered[signature[h]] = h
    <2>1. \A h \in Handlers, d \in Conns : listeners[h][d] > 0 => handlerState[h] = "live"
      BY DEF Registry!RegistryInv, Registry!OnlyLiveHandlersList, Registry!NoListener
    <2> QED  BY <2>1 DEF LiveHandlerRegistered, Service!LiveHandlerRegistered
  <1>4. CASE registered[s] # NoHandler /\ KnownId(id)
    <2>1. Registry!HandleSignalDisconnect(s, id) /\ s \in Signatures /\ id \in Ids
      BY <1>2, <1>4, SameRegistry DEF KnownId, HandleUnsubscribe
    <2>2. /\ UNCHANGED longLived
          /\ Registry!Subs' = Registry!Subs \ {<<c, s>>} \/ Registry!Subs' = Registry!Subs
      BY <2>1, RegistryAssumptions, Registry!UnsubscribeSimulation
      DEF Registry!Abstract!Unsubscribe
    <2> DEFINE h == registered[s]
    <2>3. /\ h \in Handlers /\ c \in Conns
          /\ listeners' = [listeners EXCEPT ![h] = Registry!RemoveOne(listeners[h], c)]
          /\ signature' = signature
      BY <1>4, <2>1
      DEF KnownId, Registry!HandleSignalDisconnect, Registry!RemoveListener,
          Registry!RegistryInv, Registry!TypeOK
    <2> HIDE DEF h
    <2>4. \A g \in Handlers, d \in Conns :
             listeners'[g][d] = IF g = h /\ d = c THEN 0 ELSE listeners[g][d]
      BY <2>3, ServiceAssumption
      DEF Registry!RemoveOne, Registry!RegistryInv, Registry!TypeOK, PairsInv, ListedOnce
    <2>5. ListedOnce'
      BY <2>4 DEF PairsInv, ListedOnce
    <2>6. <<c, s>> \notin Registry!Subs'
      BY <1>3, <2>3, <2>4 DEF Registry!Subs, Registry!Subscribed, h
    <2>7. \A d \in Conns, t \in Signatures :
             d # c \/ t # s => (<<d, t>> \in Registry!Subs' <=> <<d, t>> \in Registry!Subs)
      BY <2>2
    <2>8. /\ \A d \in Conns, t \in Signatures :
                ~KnownId(op.id) \/ d # longLived[op.id] \/ t # op.sig =>
                   (<<d, t>> \in Registry!Subs' <=> <<d, t>> \in Registry!Subs)
          /\ KnownId(op.id) =>
                (<<longLived[op.id], op.sig>> \in Registry!Subs'
                    <=> op.kind = "remoteConnect" /\ "ok" = "ok")
          /\ op.kind # "connectToServer"
      BY <1>1, <1>4, <2>6, <2>7
    <2> HIDE DEF op
    <2> QED  BY <1>1, <2>2, <2>5, <2>8, RequestAnswered DEF op
  <1>5. CASE ~(registered[s] # NoHandler /\ KnownId(id))
    <2>1. UNCHANGED serviceVars
      BY <1>5 DEF HandleUnsubscribe
    <2>2. Registry!Subs' = Registry!Subs /\ ListedOnce' /\ UNCHANGED longLived
      BY <2>1 DEF serviceVars, Registry!Subs, Registry!Subscribed, PairsInv, ListedOnce
    <2>3. KnownId(id) => <<c, s>> \notin Registry!Subs
      BY <1>3, <1>5, ServiceAssumption DEF Registry!Subs, Registry!Subscribed
    <2> QED  BY <1>1, <2>2, <2>3, RequestAnswered
  <1> QED  BY <1>4, <1>5

LEMMA HandleInitializeKeepsPairs ==
  ASSUME InPairs, PairsInv, LinkInv, Registry!RegistryInv,
         NEW cl \in Clients, NEW i \in DOMAIN ops[cl], HandleInitialize(cl, i)
  PROVE  PairsInv'
PROOF
  <1>1. /\ ops[cl][i].kind = "connectToServer" /\ ops[cl][i].reply = "none"
        /\ Service!InitializeConnection(conn[cl], ops[cl][i].id)
        /\ Reply(cl, i, "ok")
    BY DEF HandleInitialize, Pending
  <1>2. /\ i = 1 /\ DOMAIN ops[cl] = {1} /\ DOMAIN ops'[cl] = {1} /\ Len(ops'[cl]) = 1
        /\ ops[cl] # <<>>
        /\ ops'[cl][1].kind = ops[cl][1].kind /\ ops'[cl][1].sig = ops[cl][1].sig
        /\ ops'[cl][1].rcv = ops[cl][1].rcv /\ ops'[cl][1].id = ops[cl][1].id
        /\ ops'[cl][1].reply = "ok"
        /\ \A d \in Clients \ {cl} : ops'[d] = ops[d]
        /\ UNCHANGED <<conn, myId, serverKnown, connections, connects>>
        /\ PairTypes' /\ OneClientEach'
        /\ \A s : HasReceiver(cl, s)' <=> HasReceiver(cl, s)
        /\ \A s : Settled(cl, s)' <=> Settled(cl, s)
    BY <1>1, OperationAnswered
  <1> PICK c, id : c = conn[cl] /\ id = myId[cl]
    OBVIOUS
  <1>3. c \in Conns /\ c # NoConn /\ id \in IdsOf[cl] /\ id \in Ids /\ ops[cl][i].id = id
    BY <1>1, IdsAssumption, ServiceAssumption DEF LinkInv, SocketOpen, AsksForOwnId
  <1>4. longLived' = [longLived EXCEPT ![id] = c] /\ UNCHANGED <<signature, listeners>>
    BY <1>1, <1>3 DEF Service!InitializeConnection
  <1>5. /\ longLived'[id] = c
        /\ \A other \in Ids \ {id} : longLived'[other] = longLived[other]
    BY <1>3, <1>4 DEF Registry!RegistryInv, Registry!TypeOK
  <1>6. Registry!Subs' = Registry!Subs
    BY <1>4 DEF Registry!Subs, Registry!Subscribed
  <1>7. ClientAgrees(cl) /\ OneClientEach
    BY DEF PairsInv
  <1>8. AwaitsAnswer(cl) /\ ~AwaitsAnswer(cl)'
    BY <1>1, <1>2 DEF AwaitsAnswer
  <1>9. /\ \A other \in Ids : longLived[other] # c
        /\ \A s \in Signatures : <<c, s>> \notin Registry!Subs
    BY <1>7, <1>8 DEF ClientAgrees, Fresh
  <1>10. \A s \in Signatures : ~HasReceiver(cl, s)
    BY <1>1, <1>2, <1>7 DEF ClientAgrees, OneConnection
  <1>11. ListedOnce' /\ OneIdEach'
    <2>1. ListedOnce'
      BY <1>4 DEF PairsInv, ListedOnce
    <2>2. OneIdEach'
      BY <1>5, <1>9 DEF PairsInv, OneIdEach
    <2> QED  BY <2>1, <2>2
  <1>12. ClientAgrees(cl)'
    <2>1. OneOperation(cl)' /\ OneConnection(cl)' /\ OneId(cl)'
      BY <1>2, StillOneOperation
    <2>2. Fresh(cl)'
      BY <1>8 DEF Fresh
    <2>3. SettledAgree(cl)'
      BY <1>2, <1>5, <1>6, <1>9, <1>10 DEF SettledAgree, InSubs
    <2>4. UnsettledAgree(cl)'
      BY <1>1, <1>2 DEF UnsettledAgree
    <2> QED  BY <2>1, <2>2, <2>3, <2>4 DEF ClientAgrees
  <1>13. ASSUME NEW d \in Clients, d # cl PROVE ClientAgrees(d)'
    <2>1. ClientAgrees(d)
      BY DEF PairsInv
    <2>2. \A other \in IdsOf[d] : longLived'[other] = longLived[other]
      BY <1>3, <1>5, <1>13, IdsAssumption DEF InPairs, DistinctIds
    <2>3. \A other \in IdsOf[d], s \in Signatures : InSubs(other, s)' <=> InSubs(other, s)
      BY <1>6, <2>2 DEF InSubs
    <2>4. AwaitsAnswer(d) => /\ \A other \in Ids : longLived'[other] # conn[d]
                             /\ \A s \in Signatures : <<conn[d], s>> \notin Registry!Subs'
      BY <1>3, <1>5, <1>6, <1>7, <1>13, <2>1 DEF ClientAgrees, Fresh, OneClientEach
    <2> QED  BY <1>2, <1>13, <2>1, <2>2, <2>3, <2>4, Undisturbed
  <1> QED  BY <1>2, <1>11, <1>12, <1>13 DEF PairsInv

\* The server does something of its own: subscriptions only end, and an id that
\* stays registered keeps its connection and its subscriptions.
LEMMA ServerActs ==
  ASSUME PairsInv, LinkInv,
         UNCHANGED <<ops, conn, myId, serverKnown, connections, connects>>,
         \A id \in Ids : longLived'[id] # NoConn =>
            /\ longLived'[id] = longLived[id]
            /\ \A s \in Signatures : InSubs(id, s)' <=> InSubs(id, s),
         \A id \in Ids : longLived'[id] \in {longLived[id], NoConn},
         Registry!Subs' \subseteq Registry!Subs,
         ListedOnce'
  PROVE  PairsInv'
PROOF
  <1>1. PairTypes' /\ OneClientEach' /\ OneIdEach'
    BY DEF PairsInv, PairTypes, OneClientEach, OneIdEach
  <1>2. ASSUME NEW d \in Clients PROVE ClientAgrees(d)'
    <2>1. ClientAgrees(d) /\ IdsOf[d] \subseteq Ids
      BY IdsAssumption DEF PairsInv
    <2>2. AwaitsAnswer(d) => conn[d] # NoConn
      BY DEF AwaitsAnswer, LinkInv, AsksForOwnId
    <2>3. AwaitsAnswer(d) => /\ \A id \in Ids : longLived'[id] # conn[d]
                             /\ \A s \in Signatures : <<conn[d], s>> \notin Registry!Subs'
      BY <2>1, <2>2 DEF ClientAgrees, Fresh
    <2> QED  BY <2>1, <2>3, Undisturbed
  <1> QED  BY <1>1, <1>2 DEF PairsInv

LEMMA PairsStep ==
  ASSUME InPairs, PairsInv, LinkInv, Registry!RegistryInv, LiveHandlerRegistered, [Next]_vars
  PROVE  PairsInv'
PROOF
  <1>1. CASE UNCHANGED <<longLived, signature, listeners, ops, conn, myId, serverKnown,
                         connections, connects>>
    <2>1. Registry!Subs' = Registry!Subs
      BY <1>1 DEF Registry!Subs, Registry!Subscribed
    <2>2. \A id, s : InSubs(id, s)' <=> InSubs(id, s)
      BY <1>1, <2>1 DEF InSubs
    <2>3. ListedOnce'
      BY <1>1 DEF PairsInv, ListedOnce
    <2> QED  BY <1>1, <2>1, <2>2, <2>3, ServerActs
  <1>2. ASSUME NEW cl \in Clients, Handle(cl) PROVE PairsInv'
    BY <1>2, HandleInitializeKeepsPairs, HandleSubscribeKeepsPairs,
       HandleUnsubscribeKeepsPairs DEF Handle
  <1>3. ASSUME NEW c \in Conns, NoticeClose(c),
               UNCHANGED <<linkVars, serverKnown, connections, ops, connects>>
        PROVE  PairsInv'
    BY <1>1, <1>3 DEF NoticeClose, Service!CloseConnection, linkVars
  <1>4. ASSUME NEW c \in Conns, Service!DeleteConnection(c),
               UNCHANGED <<linkVars, serverKnown, connections, ops, connects>>
        PROVE  PairsInv'
    <2>1. Registry!DeleteConnection(c)
      BY <1>4, SameRegistry
    <2>2. Registry!Subs' = {p \in Registry!Subs : p[1] # c}
      BY <2>1, RegistryAssumptions, Registry!DropSimulation DEF Registry!Abstract!Drop
    <2>3. longLived' = [id \in Ids |-> IF longLived[id] = c THEN NoConn ELSE longLived[id]]
      BY <2>1 DEF Registry!DeleteConnection, Registry!ForgetIds
    <2>4. \A id \in Ids : longLived'[id] # NoConn =>
             /\ longLived'[id] = longLived[id]
             /\ \A s \in Signatures : InSubs(id, s)' <=> InSubs(id, s)
      BY <2>2, <2>3 DEF InSubs
    <2>5. \A id \in Ids : longLived'[id] \in {longLived[id], NoConn}
      BY <2>3
    <2>6. Registry!Subs' \subseteq Registry!Subs
      BY <2>2
    <2>7. ListedOnce'
      <3>1. ASSUME NEW h \in Handlers, NEW d \in Conns
            PROVE  listeners'[h][d] <= listeners[h][d]
        <4>1. /\ listeners[h] \in [Conns -> 0..MaxWired] /\ wired[h][c] \in 0..MaxWired
              /\ listeners'[h] = [listeners[h] EXCEPT
                                     ![c] = Registry!Minus(listeners[h][c], wired[h][c])]
          BY <2>1 DEF Registry!DeleteConnection, Registry!RegistryInv, Registry!TypeOK
        <4> QED  BY <4>1, ServiceAssumption DEF Registry!Minus
      <3>2. \A h \in Handlers, d \in Conns : listeners'[h][d] \in Nat /\ listeners[h][d] \in Nat
        <4>1. Registry!RegistryInv'
          BY <2>1, RegistryAssumptions, Registry!DeleteConnectionStep
        <4> QED  BY <4>1, ServiceAssumption DEF Registry!RegistryInv, Registry!TypeOK
      <3> QED  BY <3>1, <3>2 DEF PairsInv, ListedOnce
    <2> QED  BY <1>4, <2>4, <2>5, <2>6, <2>7, ServerActs DEF linkVars
  <1>5. ASSUME NEW h \in Handlers, Service!DeleteHandler(h),
               UNCHANGED <<linkVars, serverKnown, connections, ops, connects>>
        PROVE  PairsInv'
    <2>1. Registry!DeleteHandler(h)
      BY <1>5, SameRegistry
    <2>2. UNCHANGED <<Registry!Subs, longLived>>
      BY <2>1, RegistryAssumptions, Registry!DeleteHandlerStutters
    <2>3. \A id \in Ids, s \in Signatures : InSubs(id, s)' <=> InSubs(id, s)
      BY <2>2 DEF InSubs
    <2>4. ListedOnce'
      BY <2>1 DEF Registry!DeleteHandler, PairsInv, ListedOnce, Registry!RegistryInv,
                  Registry!TypeOK
    <2> QED  BY <1>5, <2>2, <2>3, <2>4, ServerActs DEF linkVars
  <1>6. CASE UNCHANGED vars
    BY <1>1, <1>6 DEF vars, serviceVars, linkVars
  <1> QED  BY <1>2, <1>3, <1>4, <1>5, <1>6, ClientKeepsPairs DEF Next, ServerNext, Delete

\* Between applications that connect and disconnect in pairs and a server that
\* deletes promptly, the two ends of every subscription agree whenever neither
\* is changing it, whatever the number of clients, signals and receivers and in
\* whatever order the server reads the requests.
THEOREM EndsStayAgreed ==
  ASSUME InPairs
  PROVE  PromptSpec => []EndsAgree
PROOF
  <1>1. LinkInv /\ Registry!RegistryInv /\ LiveHandlerRegistered /\ PairsInv
        /\ [Next]_vars => PairsInv'
    BY PairsStep
  <1>2. PairsInv /\ IdIsMine /\ LinkInv /\ Registry!RegistryInv => EndsAgree
    <2> SUFFICES ASSUME PairsInv, IdIsMine, LinkInv, Registry!RegistryInv,
                        NEW cl \in Clients, NEW s \in Signatures, Connected(cl), Settled(cl, s)
                 PROVE  Service!Subscribed(conn[cl], s) <=> HasReceiver(cl, s)
      BY DEF EndsAgree
    <2>1. /\ conn[cl] # NoConn /\ conn[cl] \in Conns /\ longLived[myId[cl]] = conn[cl]
          /\ myId[cl] # NullId /\ ~AwaitsAnswer(cl)
      BY IdsAssumption
      DEF Connected, Connecting, IdIsMine, AwaitsAnswer, LinkInv, SocketOpen
    <2>2. InSubs(myId[cl], s) <=> HasReceiver(cl, s)
      BY <2>1 DEF PairsInv, ClientAgrees, SettledAgree, KnownId
    <2>3. InSubs(myId[cl], s) <=> Service!Subscribed(conn[cl], s)
      BY <2>1 DEF InSubs, Registry!Subs, Registry!Subscribed, Service!Subscribed
    <2> QED  BY <2>2, <2>3
  <1>3. DistinctIds
    BY DEF InPairs
  <1>4. Spec => []IdIsMine
    BY <1>3, IdLeadsHome
  <1> QED  BY <1>1, <1>2, <1>4, LinkStart, LinkStep, PairsStart, PromptIsNext, RegistryHolds,
              HandlersFound, PTL DEF Spec

-----------------------------------------------------------------------------
(* What a receiver is held for is listed, whatever else applications call  *)

\* Applications connect once and make one call at a time.
OneAtATime == DistinctIds /\ MaxConnects <= 1 /\ MaxNested <= 1

\* While a client is connected the server lists it for every signal that it
\* holds a receiver for: it goes on hearing what it was told it would hear.
HeldAreListed ==
    \A cl \in Clients, s \in Signatures :
        Connected(cl) /\ HasReceiver(cl, s) => Service!Subscribed(conn[cl], s)

\* A client's requests carry its id, and no other client's id leads to it.
OwnId(cl) ==
    /\ \A i \in DOMAIN ops[cl] :
          /\ ops[cl][i].id \in IdsOf[cl] \cup {NullId}
          /\ conn[cl] # NoConn => ops[cl][i].id = myId[cl]
    /\ myId[cl] \in IdsOf[cl] \cup {NullId}
    /\ conn[cl] # NoConn => \A id \in Ids : longLived[id] = conn[cl] => id \in IdsOf[cl]

\* The subscriptions behind its receivers, and those it is about to rely on.  A
\* signal it asks to be taken off has no receiver left.
HeldListed(cl) ==
    /\ conn[cl] # NoConn =>
          \A s \in Signatures : HasReceiver(cl, s) => <<conn[cl], s>> \in Registry!Subs
    /\ \A i \in DOMAIN ops[cl] :
          LET op == ops[cl][i] IN
          /\ op.kind = "remoteConnect" => op.rcv \in Receivers
          /\ op.kind = "remoteConnect" /\ op.reply = "ok" /\ conn[cl] # NoConn =>
                <<conn[cl], op.sig>> \in Registry!Subs
          /\ op.kind = "disconnectSignal" => ~HasReceiver(cl, op.sig)

ClientListed(cl) == Len(ops[cl]) <= 1 /\ OneConnection(cl) /\ OwnId(cl) /\ HeldListed(cl)

HeldInv == PairTypes /\ OneClientEach /\ \A cl \in Clients : ClientListed(cl)

LEMMA HeldStart == Init => HeldInv
PROOF
  <1> SUFFICES ASSUME Init PROVE HeldInv
    OBVIOUS
  <1>1. PairTypes /\ OneClientEach
    BY DEF Init, PairTypes, OneClientEach
  <1>2. ASSUME NEW cl \in Clients PROVE ClientListed(cl)
    <2>1. /\ ops[cl] = <<>> /\ myId[cl] = NullId /\ ~serverKnown[cl] /\ connects[cl] = 0
          /\ conn[cl] = NoConn
      BY <1>1 DEF Init
    <2>2. \A s \in Signatures : ~HasReceiver(cl, s)
      BY DEF Init, HasReceiver
    <2> QED  BY <2>1, <2>2 DEF ClientListed, OneConnection, OwnId, HeldListed
  <1> QED  BY <1>1, <1>2 DEF HeldInv

\* A client that does nothing, and loses nothing.
LEMMA NothingLost ==
  ASSUME NEW cl \in Clients, ClientListed(cl), LinkInv,
         ops'[cl] = ops[cl], conn'[cl] = conn[cl], myId'[cl] = myId[cl],
         serverKnown'[cl] = serverKnown[cl], connections'[cl] = connections[cl],
         connects'[cl] = connects[cl],
         conn[cl] # NoConn =>
            /\ \A id \in Ids : longLived'[id] = conn[cl] =>
                  longLived[id] = conn[cl] \/ id \in IdsOf[cl]
            /\ \A s \in Signatures :
                  <<conn[cl], s>> \in Registry!Subs => <<conn[cl], s>> \in Registry!Subs'
  PROVE  ClientListed(cl)'
PROOF
  <1>1. \A s : HasReceiver(cl, s)' <=> HasReceiver(cl, s)
    BY DEF HasReceiver
  <1>2. OneConnection(cl)' /\ OwnId(cl)'
    BY <1>1 DEF ClientListed, OneConnection, OwnId
  <1>3. HeldListed(cl)'
    BY <1>1 DEF ClientListed, HeldListed, LinkInv, NamesSignal
  <1> QED  BY <1>2, <1>3 DEF ClientListed

\* Nothing that the server lists changes when a client calls or returns.
LEMMA OnlyClientMoves ==
  ASSUME HeldInv, LinkInv, NEW cl \in Clients,
         UNCHANGED <<longLived, signature, listeners>>, PairTypes', OneClientEach',
         \A d \in Clients \ {cl} :
            /\ ops'[d] = ops[d] /\ conn'[d] = conn[d] /\ myId'[d] = myId[d]
            /\ serverKnown'[d] = serverKnown[d] /\ connections'[d] = connections[d]
            /\ connects'[d] = connects[d],
         ClientListed(cl)'
  PROVE  HeldInv'
PROOF
  <1>1. Registry!Subs' = Registry!Subs
    BY DEF Registry!Subs, Registry!Subscribed
  <1>2. ASSUME NEW d \in Clients, d # cl PROVE ClientListed(d)'
    BY <1>1, <1>2, NothingLost DEF HeldInv
  <1> QED  BY <1>2 DEF HeldInv

LEMMA ConnectToServerKeepsHeld ==
  ASSUME OneAtATime, HeldInv, LinkInv, Registry!RegistryInv,
         NEW cl \in Clients, ConnectToServer(cl)
  PROVE  HeldInv'
PROOF
  <1>1. PICK c \in Conns, id \in IdsOf[cl] :
           /\ Service!OpenConnection(c)
           /\ conn' = [conn EXCEPT ![cl] = c] /\ myId' = [myId EXCEPT ![cl] = id]
           /\ Blocks(cl, "connectToServer", NoSignature, NoReceiver, id)
    BY DEF ConnectToServer
  <1>2. ops[cl] = <<>>
    BY NothingWaits DEF ConnectToServer, OneAtATime
  <1> DEFINE op == [kind |-> "connectToServer", sig |-> NoSignature, rcv |-> NoReceiver,
                    id |-> id, reply |-> "none"]
  <1>3. ops' = [ops EXCEPT ![cl] = Append(@, op)]
    BY <1>1 DEF Blocks
  <1>4. op.kind = "connectToServer" /\ op.id = id
    OBVIOUS
  <1> HIDE DEF op
  <1>5. /\ Len(ops'[cl]) = 1 /\ DOMAIN ops'[cl] = {1} /\ ops'[cl][1] = op
        /\ \A d \in Clients \ {cl} : ops'[d] = ops[d]
    BY <1>2, <1>3, OnlyOperation
  <1>6. /\ connects[cl] < MaxConnects /\ connects' = [connects EXCEPT ![cl] = @ + 1]
        /\ UNCHANGED <<serverKnown, connections>>
    BY DEF ConnectToServer
  <1>7. connects[cl] = 0 /\ connects'[cl] = 1 /\ ~serverKnown[cl]
    BY <1>6, BoundsAssumption DEF OneAtATime, HeldInv, PairTypes, ClientListed, OneConnection
  <1>8. connState[c] = "none" /\ UNCHANGED <<longLived, signature, listeners>>
    BY <1>1 DEF Service!OpenConnection
  <1>9. /\ \A other \in Ids : longLived[other] # c
        /\ \A d \in Clients : conn[d] # c
    BY <1>8, ServiceAssumption
    DEF Registry!RegistryInv, Registry!NoDanglingPointers, LinkInv, SocketOpen
  <1>10. conn'[cl] = c /\ myId'[cl] = id
    BY <1>1 DEF LinkInv, LinkTypes
  <1>11. \A s \in Signatures : ~HasReceiver(cl, s)'
    BY <1>6, <1>7 DEF HeldInv, ClientListed, OneConnection, HasReceiver
  <1>12. ClientListed(cl)'
    <2>1. OneConnection(cl)'
      BY <1>4, <1>5, <1>6, <1>7, <1>11 DEF OneConnection
    <2>2. OwnId(cl)'
      BY <1>4, <1>5, <1>8, <1>9, <1>10 DEF OwnId
    <2>3. HeldListed(cl)'
      BY <1>4, <1>5, <1>11 DEF HeldListed
    <2> QED  BY <1>5, <2>1, <2>2, <2>3 DEF ClientListed
  <1>13. PairTypes' /\ OneClientEach'
    BY <1>1, <1>6, <1>9 DEF HeldInv, PairTypes, OneClientEach, LinkInv, LinkTypes
  <1>14. \A d \in Clients \ {cl} :
            /\ conn'[d] = conn[d] /\ myId'[d] = myId[d]
            /\ serverKnown'[d] = serverKnown[d] /\ connections'[d] = connections[d]
            /\ connects'[d] = connects[d]
    BY <1>1, <1>6 DEF LinkInv, LinkTypes, HeldInv, PairTypes
  <1> QED  BY <1>5, <1>8, <1>12, <1>13, <1>14, OnlyClientMoves

\* The connection goes, in one step or two.
LEMMA LeavingKeepsHeld ==
  ASSUME HeldInv, LinkInv, NEW cl \in Clients,
         DisconnectFromServer(cl) \/ ForgetConnection(cl)
  PROVE  HeldInv'
PROOF
  <1>1. /\ UNCHANGED <<longLived, signature, listeners, serverKnown, connections, ops, connects>>
        /\ conn'[cl] = NoConn /\ conn' \in [Clients -> Conns \cup {NoConn}]
        /\ myId'[cl] \in {myId[cl], NullId}
        /\ \A d \in Clients \ {cl} : conn'[d] = conn[d] /\ myId'[d] = myId[d]
    BY DEF DisconnectFromServer, ForgetConnection, serviceVars, LinkInv, LinkTypes
  <1>2. ClientListed(cl)
    BY DEF HeldInv
  <1>3. \A s : HasReceiver(cl, s)' <=> HasReceiver(cl, s)
    BY <1>1 DEF HasReceiver
  <1>4. OneConnection(cl)' /\ OwnId(cl)' /\ HeldListed(cl)'
    BY <1>1, <1>2, <1>3 DEF ClientListed, OneConnection, OwnId, HeldListed
  <1>5. PairTypes' /\ OneClientEach'
    BY <1>1 DEF HeldInv, PairTypes, OneClientEach
  <1> QED  BY <1>1, <1>2, <1>4, <1>5, OnlyClientMoves DEF ClientListed

\* A client gains no receiver and asks nothing.
LEMMA LosingReceiversKeepsHeld ==
  ASSUME HeldInv, LinkInv, NEW cl \in Clients,
         UNCHANGED <<longLived, signature, listeners, conn, myId, serverKnown, ops, connects>>,
         PairTypes', \A d \in Clients \ {cl} : connections'[d] = connections[d],
         \A s \in Signatures : HasReceiver(cl, s)' => HasReceiver(cl, s)
  PROVE  HeldInv'
PROOF
  <1>1. Registry!Subs' = Registry!Subs
    BY DEF Registry!Subs, Registry!Subscribed
  <1>2. ClientListed(cl)
    BY DEF HeldInv
  <1>3. OneConnection(cl)' /\ OwnId(cl)'
    BY <1>2 DEF ClientListed, OneConnection, OwnId
  <1>4. HeldListed(cl)'
    BY <1>1, <1>2 DEF ClientListed, HeldListed, LinkInv, NamesSignal
  <1>5. OneClientEach'
    BY DEF HeldInv, OneClientEach
  <1> QED  BY <1>2, <1>3, <1>4, <1>5, OnlyClientMoves DEF ClientListed

\* A request that names a signal begins.
LEMMA RequestKeepsHeld ==
  ASSUME HeldInv, LinkInv, NEW cl \in Clients, ops[cl] = <<>>,
         UNCHANGED <<longLived, signature, listeners, conn, myId, serverKnown, connects>>,
         serverKnown[cl], PairTypes',
         \A d \in Clients \ {cl} : connections'[d] = connections[d],
         \A t \in Signatures : HasReceiver(cl, t)' => HasReceiver(cl, t),
         NEW kind \in {"remoteConnect", "remoteConnectToSignal", "disconnectSignal"},
         NEW s \in Signatures, NEW rcv, kind = "remoteConnect" => rcv \in Receivers,
         kind = "disconnectSignal" => ~HasReceiver(cl, s)',
         Blocks(cl, kind, s, rcv, myId[cl])
  PROVE  HeldInv'
PROOF
  <1> DEFINE op == [kind |-> kind, sig |-> s, rcv |-> rcv, id |-> myId[cl], reply |-> "none"]
  <1>1. ops' = [ops EXCEPT ![cl] = Append(@, op)]
    BY DEF Blocks
  <1>2. /\ op.kind = kind /\ op.sig = s /\ op.rcv = rcv /\ op.id = myId[cl]
        /\ op.reply = "none"
    OBVIOUS
  <1> HIDE DEF op
  <1>3. /\ Len(ops'[cl]) = 1 /\ DOMAIN ops'[cl] = {1} /\ ops'[cl][1] = op
        /\ \A d \in Clients \ {cl} : ops'[d] = ops[d]
    BY <1>1, OnlyOperation
  <1>4. Registry!Subs' = Registry!Subs
    BY DEF Registry!Subs, Registry!Subscribed
  <1>5. ClientListed(cl)
    BY DEF HeldInv
  <1>6. OneConnection(cl)'
    BY <1>2, <1>3, <1>5 DEF ClientListed, OneConnection
  <1>7. OwnId(cl)'
    BY <1>2, <1>3, <1>5 DEF ClientListed, OwnId
  <1>8. HeldListed(cl)'
    BY <1>2, <1>3, <1>4, <1>5 DEF ClientListed, HeldListed
  <1>9. OneClientEach'
    BY DEF HeldInv, OneClientEach
  <1>10. ClientListed(cl)'
    BY <1>3, <1>6, <1>7, <1>8 DEF ClientListed
  <1> QED  BY <1>3, <1>9, <1>10, OnlyClientMoves

LEMMA RemoteConnectKeepsHeld ==
  ASSUME OneAtATime, HeldInv, LinkInv, NEW cl \in Clients, NEW s \in Signatures,
         NEW r \in Receivers, RemoteConnect(cl, s, r)
  PROVE  HeldInv'
PROOF
  <1>1. ops[cl] = <<>>
    BY NothingWaits DEF RemoteConnect, OneAtATime
  <1>2. UNCHANGED <<longLived, signature, listeners, conn, myId, serverKnown, connects>>
    BY DEF RemoteConnect, serviceVars, linkVars
  <1>3. CASE HasReceiver(cl, s)
    <2>1. connections' = [connections EXCEPT ![cl][s][r] = @ + 1] /\ UNCHANGED ops
      BY <1>3 DEF RemoteConnect
    <2>2. PairTypes' /\ \A d \in Clients \ {cl} : connections'[d] = connections[d]
      BY <1>2, <2>1 DEF HeldInv, PairTypes
    <2>3. \A t \in Signatures, q \in Receivers :
             t # s => connections'[cl][t][q] = connections[cl][t][q]
      BY <2>1 DEF HeldInv, PairTypes
    <2>4. \A t \in Signatures : HasReceiver(cl, t)' => HasReceiver(cl, t)
      BY <1>3, <2>3 DEF HasReceiver
    <2> QED  BY <1>2, <2>1, <2>2, <2>4, LosingReceiversKeepsHeld
  <1>4. CASE ~HasReceiver(cl, s)
    <2>1. /\ serverKnown[cl] /\ Blocks(cl, "remoteConnect", s, r, myId[cl])
          /\ UNCHANGED connections
      BY <1>4 DEF RemoteConnect
    <2>2. PairTypes' /\ \A t : HasReceiver(cl, t)' => HasReceiver(cl, t)
      BY <1>2, <2>1 DEF HeldInv, PairTypes, HasReceiver
    <2> QED  BY <1>1, <1>2, <2>1, <2>2, RequestKeepsHeld
  <1> QED  BY <1>3, <1>4

LEMMA RemoteConnectToSignalKeepsHeld ==
  ASSUME OneAtATime, HeldInv, LinkInv, NEW cl \in Clients, NEW s \in Signatures,
         RemoteConnectToSignal(cl, s)
  PROVE  HeldInv'
PROOF
  <1>1. ops[cl] = <<>>
    BY NothingWaits DEF RemoteConnectToSignal, OneAtATime
  <1>2. /\ serverKnown[cl] /\ Blocks(cl, "remoteConnectToSignal", s, NoReceiver, myId[cl])
        /\ UNCHANGED <<longLived, signature, listeners, conn, myId, serverKnown, connections,
                       connects>>
    BY DEF RemoteConnectToSignal, serviceVars, linkVars
  <1>3. PairTypes' /\ \A t : HasReceiver(cl, t)' => HasReceiver(cl, t)
    BY <1>2 DEF HeldInv, PairTypes, HasReceiver
  <1> QED  BY <1>1, <1>2, <1>3, RequestKeepsHeld

LEMMA DisconnectSignalKeepsHeld ==
  ASSUME OneAtATime, HeldInv, LinkInv, NEW cl \in Clients, NEW s \in Signatures,
         NEW r \in Receivers, DisconnectSignal(cl, s, r)
  PROVE  HeldInv'
PROOF
  <1>1. ops[cl] = <<>>
    BY NothingWaits DEF DisconnectSignal, OneAtATime
  <1>2. UNCHANGED <<longLived, signature, listeners, conn, myId, serverKnown, connects>>
    BY DEF DisconnectSignal, serviceVars, linkVars
  <1>3. connections' = [connections EXCEPT ![cl][s][r] = 0]
    BY DEF DisconnectSignal, Without
  <1>4. PairTypes' /\ \A d \in Clients \ {cl} : connections'[d] = connections[d]
    BY <1>2, <1>3 DEF HeldInv, PairTypes
  <1>5. \A t \in Signatures, q \in Receivers :
           connections'[cl][t][q] = IF t = s /\ q = r THEN 0 ELSE connections[cl][t][q]
    BY <1>3 DEF HeldInv, PairTypes
  <1>6. \A t \in Signatures : HasReceiver(cl, t)' => HasReceiver(cl, t)
    BY <1>5 DEF HasReceiver
  <1>7. CASE serverKnown[cl] /\ LeavesNone(cl, s, r)
    <2>1. ~HasReceiver(cl, s)'
      BY <1>5, <1>7 DEF HasReceiver, LeavesNone
    <2>2. Blocks(cl, "disconnectSignal", s, r, myId[cl])
      BY <1>7 DEF DisconnectSignal
    <2> QED  BY <1>1, <1>2, <1>4, <1>6, <1>7, <2>1, <2>2, RequestKeepsHeld
  <1>8. CASE ~(serverKnown[cl] /\ LeavesNone(cl, s, r))
    <2>1. UNCHANGED ops
      BY <1>8 DEF DisconnectSignal
    <2> QED  BY <1>2, <1>4, <1>6, <2>1, LosingReceiversKeepsHeld
  <1> QED  BY <1>7, <1>8

\* A receiver's end tells the server nothing, and takes nothing from the others.
LEMMA DestroyReceiverKeepsHeld ==
  ASSUME HeldInv, LinkInv, NEW cl \in Clients, NEW r \in Receivers, DestroyReceiver(cl, r)
  PROVE  HeldInv'
PROOF
  <1>1. /\ UNCHANGED <<longLived, signature, listeners, conn, myId, serverKnown, ops, connects>>
        /\ connections' = [connections EXCEPT ![cl] =
                              [s \in Signatures |-> [@[s] EXCEPT ![r] = 0]]]
    BY DEF DestroyReceiver, ForgetReceiver, serviceVars, linkVars
  <1>2. PairTypes' /\ \A d \in Clients \ {cl} : connections'[d] = connections[d]
    BY <1>1 DEF HeldInv, PairTypes
  <1>3. \A t \in Signatures, q \in Receivers :
           connections'[cl][t][q] = IF q = r THEN 0 ELSE connections[cl][t][q]
    BY <1>1 DEF HeldInv, PairTypes
  <1>4. \A t \in Signatures : HasReceiver(cl, t)' => HasReceiver(cl, t)
    BY <1>3 DEF HasReceiver
  <1> QED  BY <1>1, <1>2, <1>4, LosingReceiversKeepsHeld

\* The receiver that a remoteConnect adds is for a signal the server lists.
LEMMA ReturnKeepsHeld ==
  ASSUME HeldInv, LinkInv, NEW cl \in Clients, Return(cl)
  PROVE  HeldInv'
PROOF
  <1> DEFINE op == ops[cl][1]
  <1>1. ClientListed(cl)
    BY DEF HeldInv
  <1>2. /\ DOMAIN ops[cl] = {1} /\ DOMAIN ops'[cl] = {}
        /\ Last(ops[cl]) = op /\ op \in Request /\ op.reply # "none"
        /\ \A d \in Clients \ {cl} : ops'[d] = ops[d]
    <2>1. /\ ops' \in [Clients -> Seq(Request)]
          /\ \A d \in Clients : d # cl => ops'[d] = ops[d]
          /\ Len(ops[cl]) \in Nat \ {0} /\ DOMAIN ops[cl] = 1..Len(ops[cl])
          /\ DOMAIN ops'[cl] = 1..(Len(ops[cl]) - 1)
          /\ Last(ops[cl]) = ops[cl][Len(ops[cl])]
          /\ Last(ops[cl]) \in Request /\ Last(ops[cl]).reply # "none"
      BY ReturnPops DEF LinkInv
    <2>2. Len(ops[cl]) <= 1
      BY <1>1 DEF ClientListed
    <2> QED  BY <2>1, <2>2
  <1>3. ops'[cl] = <<>>
    BY <1>2, ReturnPops, LenProperties, EmptySeq DEF LinkInv
  <1>4. /\ UNCHANGED <<longLived, signature, listeners, conn, myId, connects>>
        /\ connections' = IF op.kind = "remoteConnect" /\ op.reply = "ok"
                          THEN [connections EXCEPT ![cl][op.sig][op.rcv] = @ + 1]
                          ELSE connections
        /\ serverKnown' = [serverKnown EXCEPT ![cl] = @ \/ op.kind = "connectToServer"]
    BY <1>2 DEF Return, serviceVars, linkVars
  <1>5. /\ op.kind = "remoteConnect" => op.rcv \in Receivers /\ op.sig \in Signatures
        /\ op.kind = "remoteConnect" /\ op.reply = "ok" /\ conn[cl] # NoConn =>
              <<conn[cl], op.sig>> \in Registry!Subs
        /\ op.kind = "connectToServer" <=> ~serverKnown[cl]
    BY <1>1, <1>2 DEF ClientListed, HeldListed, OneConnection, LinkInv, NamesSignal
  <1>6. connects[cl] # 0
    BY <1>1, <1>2 DEF ClientListed, OneConnection
  <1> HIDE DEF op
  <1>s. PICK s : s = op.sig
    OBVIOUS
  <1>7. Registry!Subs' = Registry!Subs
    BY <1>4 DEF Registry!Subs, Registry!Subscribed
  <1>8. /\ PairTypes'
        /\ \A d \in Clients \ {cl} :
              serverKnown'[d] = serverKnown[d] /\ connections'[d] = connections[d]
    BY <1>s, <1>4, <1>5 DEF HeldInv, PairTypes
  <1>8a. serverKnown'[cl]
    BY <1>4, <1>5 DEF HeldInv, PairTypes
  <1>9. ASSUME NEW t \in Signatures, HasReceiver(cl, t)'
        PROVE  \/ HasReceiver(cl, t)
               \/ op.kind = "remoteConnect" /\ op.reply = "ok" /\ t = s
    <2>1. CASE op.kind = "remoteConnect" /\ op.reply = "ok" /\ t # s
      <3>1. connections'[cl][t] = connections[cl][t]
        BY <1>s, <1>4, <1>5, <2>1 DEF HeldInv, PairTypes
      <3> QED  BY <1>9, <3>1 DEF HasReceiver
    <2>2. CASE ~(op.kind = "remoteConnect" /\ op.reply = "ok")
      BY <1>4, <1>9, <2>2 DEF HasReceiver
    <2> QED  BY <2>1, <2>2
  <1>10. OneConnection(cl)' /\ OwnId(cl)'
    BY <1>1, <1>2, <1>4, <1>6, <1>8a DEF ClientListed, OneConnection, OwnId
  <1>11. HeldListed(cl)'
    <2>1. ASSUME conn[cl] # NoConn, NEW t \in Signatures, HasReceiver(cl, t)'
          PROVE  <<conn[cl], t>> \in Registry!Subs
      BY <1>s, <1>1, <1>5, <1>9, <2>1 DEF ClientListed, HeldListed
    <2> QED  BY <1>2, <1>4, <1>7, <2>1 DEF HeldListed
  <1>12. ClientListed(cl)'
    BY <1>3, <1>10, <1>11, EmptySeq DEF ClientListed
  <1>13. OneClientEach'
    BY <1>4 DEF HeldInv, OneClientEach
  <1> QED  BY <1>2, <1>4, <1>8, <1>12, <1>13, OnlyClientMoves

LEMMA ClientKeepsHeld ==
  ASSUME OneAtATime, HeldInv, LinkInv, Registry!RegistryInv, NEW cl \in Clients, ClientNext(cl)
  PROVE  HeldInv'
  BY ConnectToServerKeepsHeld, LeavingKeepsHeld, RemoteConnectKeepsHeld,
     RemoteConnectToSignalKeepsHeld, DisconnectSignalKeepsHeld, DestroyReceiverKeepsHeld,
     ReturnKeepsHeld
  DEF ClientNext

\* The server answers one request: no other subscription goes than the one a
\* disconnectSignal names, and an "ok" to a remoteConnect means that it is there.
LEMMA AnswerKeepsHeld ==
  ASSUME OneAtATime, HeldInv, LinkInv, IdRegistered,
         NEW cl \in Clients, NEW i \in DOMAIN ops[cl],
         NEW reply \in {"ok", "error"}, Reply(cl, i, reply), UNCHANGED longLived,
         NEW op, op = ops[cl][i], op.kind # "connectToServer",
         \A c \in Conns, t \in Signatures :
            <<c, t>> \in Registry!Subs =>
               \/ <<c, t>> \in Registry!Subs'
               \/ op.kind = "disconnectSignal" /\ KnownId(op.id) /\ c = longLived[op.id] /\ t = op.sig,
         op.kind = "remoteConnect" /\ reply = "ok" =>
            <<longLived[op.id], op.sig>> \in Registry!Subs'
  PROVE  HeldInv'
PROOF
  <1>1. /\ i = 1 /\ DOMAIN ops[cl] = {1} /\ DOMAIN ops'[cl] = {1} /\ Len(ops'[cl]) = 1
        /\ ops'[cl][1].kind = op.kind /\ ops'[cl][1].sig = op.sig
        /\ ops'[cl][1].rcv = op.rcv /\ ops'[cl][1].id = op.id
        /\ ops'[cl][1].reply = reply /\ ops[cl] # <<>>
        /\ \A d \in Clients \ {cl} : ops'[d] = ops[d]
        /\ UNCHANGED <<conn, myId, serverKnown, connections, connects>>
        /\ PairTypes' /\ OneClientEach'
        /\ \A s : HasReceiver(cl, s)' <=> HasReceiver(cl, s)
    BY OnlyAnswered DEF HeldInv, ClientListed
  <1>2. ClientListed(cl) /\ op.sig \in Signatures
    BY DEF HeldInv, LinkInv, NamesSignal
  <1>3. OneConnection(cl)' /\ OwnId(cl)'
    BY <1>1, <1>2 DEF ClientListed, OneConnection, OwnId
  <1>4. HeldListed(cl)'
    <2>1. conn[cl] # NoConn => conn[cl] \in Conns
      BY DEF LinkInv, SocketOpen
    <2>2. conn[cl] # NoConn => longLived[op.id] = conn[cl]
      <3>1. ~AwaitsAnswer(cl)
        BY <1>1 DEF AwaitsAnswer
      <3> QED  BY <1>1, <1>2, <3>1 DEF IdRegistered, ClientListed, OwnId
    <2>3. /\ op.kind = "remoteConnect" => op.rcv \in Receivers
          /\ op.kind = "disconnectSignal" => ~HasReceiver(cl, op.sig)
          /\ conn[cl] # NoConn =>
                \A s \in Signatures : HasReceiver(cl, s) => <<conn[cl], s>> \in Registry!Subs
      BY <1>1, <1>2 DEF ClientListed, HeldListed
    <2>4. conn[cl] # NoConn =>
             \A s \in Signatures : HasReceiver(cl, s) => <<conn[cl], s>> \in Registry!Subs'
      BY <2>1, <2>3
    <2> QED  BY <1>1, <2>2, <2>3, <2>4 DEF HeldListed
  <1>5. ASSUME NEW d \in Clients, d # cl PROVE ClientListed(d)'
    <2>1. ClientListed(d) /\ (conn[d] # NoConn => conn[d] \in Conns)
      BY DEF HeldInv, LinkInv, SocketOpen
    <2>2. conn[d] # NoConn /\ KnownId(op.id) => longLived[op.id] # conn[d]
      <3>1. KnownId(op.id) => op.id \in IdsOf[cl] /\ op.id \in Ids
        BY <1>1, <1>2, IdsAssumption DEF ClientListed, OwnId, KnownId
      <3> QED  BY <1>5, <2>1, <3>1 DEF ClientListed, OwnId, OneAtATime, DistinctIds
    <2>3. conn[d] # NoConn => \A s \in Signatures :
             <<conn[d], s>> \in Registry!Subs => <<conn[d], s>> \in Registry!Subs'
      BY <2>1, <2>2
    <2> QED  BY <1>1, <1>5, <2>1, <2>3, NothingLost
  <1>6. ClientListed(cl)'
    BY <1>1, <1>3, <1>4 DEF ClientListed
  <1> QED  BY <1>1, <1>5, <1>6 DEF HeldInv

LEMMA HandleSubscribeKeepsHeld ==
  ASSUME OneAtATime, HeldInv, LinkInv, IdRegistered, Registry!RegistryInv,
         NEW cl \in Clients, NEW i \in DOMAIN ops[cl], HandleSubscribe(cl, i)
  PROVE  HeldInv'
PROOF
  <1> DEFINE op == ops[cl][i]
  <1>1. op.kind \in {"remoteConnect", "remoteConnectToSignal"}
    BY DEF HandleSubscribe
  <1>2. op.sig \in Signatures /\ op.id \in Ids \cup {NullId}
    <2>1. op.id \in IdsOf[cl] \cup {NullId}
      BY DEF HeldInv, ClientListed, OwnId
    <2> QED  BY <1>1, <2>1, IdsAssumption DEF LinkInv, NamesSignal
  <1>3. CASE /\ KnownId(op.id) /\ Service!HandleSignalRequest(op.sig, op.id)
             /\ Reply(cl, i, "ok")
    <2> PICK s, id, c : s = op.sig /\ id = op.id /\ c = longLived[op.id]
      OBVIOUS
    <2>1. Registry!HandleSignalRequest(s, id) /\ s \in Signatures /\ id \in Ids
      BY <1>2, <1>3, SameRegistry DEF KnownId
    <2>2. Registry!Subs' = Registry!Subs \cup {<<c, s>>} /\ UNCHANGED longLived
      BY <2>1, RegistryAssumptions, Registry!SubscribeSimulation
      DEF Registry!Abstract!Subscribe
    <2>3. /\ \A d \in Conns, t \in Signatures :
                <<d, t>> \in Registry!Subs => <<d, t>> \in Registry!Subs'
          /\ <<longLived[op.id], op.sig>> \in Registry!Subs'
          /\ op.kind # "connectToServer"
      BY <1>1, <2>2
    <2> HIDE DEF op
    <2> QED  BY <1>3, <2>2, <2>3, AnswerKeepsHeld DEF op
  <1>4. CASE UNCHANGED serviceVars /\ Reply(cl, i, "error")
    <2>1. Registry!Subs' = Registry!Subs /\ UNCHANGED longLived /\ op.kind # "connectToServer"
      BY <1>1, <1>4 DEF serviceVars, Registry!Subs, Registry!Subscribed
    <2> HIDE DEF op
    <2> QED  BY <1>4, <2>1, AnswerKeepsHeld DEF op
  <1> QED  BY <1>3, <1>4 DEF HandleSubscribe

LEMMA HandleUnsubscribeKeepsHeld ==
  ASSUME OneAtATime, HeldInv, LinkInv, IdRegistered, Registry!RegistryInv,
         NEW cl \in Clients, NEW i \in DOMAIN ops[cl], HandleUnsubscribe(cl, i)
  PROVE  HeldInv'
PROOF
  <1> DEFINE op == ops[cl][i]
  <1>1. op.kind = "disconnectSignal" /\ Reply(cl, i, "ok")
    BY DEF HandleUnsubscribe
  <1>2. op.sig \in Signatures /\ op.id \in Ids \cup {NullId}
    <2>1. op.id \in IdsOf[cl] \cup {NullId}
      BY DEF HeldInv, ClientListed, OwnId
    <2> QED  BY <1>1, <2>1, IdsAssumption DEF LinkInv, NamesSignal
  <1> PICK s, id, c : s = op.sig /\ id = op.id /\ c = longLived[op.id]
    OBVIOUS
  <1>3. CASE registered[s] # NoHandler /\ KnownId(id)
    <2>1. Registry!HandleSignalDisconnect(s, id) /\ s \in Signatures /\ id \in Ids
      BY <1>2, <1>3, SameRegistry DEF KnownId, HandleUnsubscribe
    <2>2. /\ UNCHANGED longLived
          /\ Registry!Subs' = Registry!Subs \ {<<c, s>>} \/ Registry!Subs' = Registry!Subs
      BY <2>1, RegistryAssumptions, Registry!UnsubscribeSimulation
      DEF Registry!Abstract!Unsubscribe
    <2>3. \A d \in Conns, t \in Signatures :
             <<d, t>> \in Registry!Subs =>
                \/ <<d, t>> \in Registry!Subs'
                \/ /\ op.kind = "disconnectSignal" /\ KnownId(op.id)
                   /\ d = longLived[op.id] /\ t = op.sig
      BY <1>1, <1>3, <2>2
    <2>4. /\ op.kind # "connectToServer" /\ op.kind # "remoteConnect"
          /\ Reply(cl, i, "ok") /\ UNCHANGED longLived
      BY <1>1, <2>2
    <2> HIDE DEF op
    <2> QED  BY <2>3, <2>4, AnswerKeepsHeld DEF op
  <1>4. CASE ~(registered[s] # NoHandler /\ KnownId(id))
    <2>1. Registry!Subs' = Registry!Subs /\ UNCHANGED longLived
      BY <1>4 DEF HandleUnsubscribe, serviceVars, Registry!Subs, Registry!Subscribed
    <2> HIDE DEF op
    <2> QED  BY <1>1, <2>1, AnswerKeepsHeld DEF op
  <1> QED  BY <1>3, <1>4

LEMMA HandleInitializeKeepsHeld ==
  ASSUME OneAtATime, HeldInv, LinkInv, Registry!RegistryInv,
         NEW cl \in Clients, NEW i \in DOMAIN ops[cl], HandleInitialize(cl, i)
  PROVE  HeldInv'
PROOF
  <1>1. /\ ops[cl][i].kind = "connectToServer"
        /\ Service!InitializeConnection(conn[cl], ops[cl][i].id)
        /\ Reply(cl, i, "ok")
    BY DEF HandleInitialize
  <1>2. /\ i = 1 /\ DOMAIN ops[cl] = {1} /\ DOMAIN ops'[cl] = {1} /\ Len(ops'[cl]) = 1
        /\ ops[cl] # <<>>
        /\ ops'[cl][1].kind = ops[cl][1].kind /\ ops'[cl][1].sig = ops[cl][1].sig
        /\ ops'[cl][1].rcv = ops[cl][1].rcv /\ ops'[cl][1].id = ops[cl][1].id
        /\ \A d \in Clients \ {cl} : ops'[d] = ops[d]
        /\ UNCHANGED <<conn, myId, serverKnown, connections, connects>>
        /\ PairTypes' /\ OneClientEach'
        /\ \A s : HasReceiver(cl, s)' <=> HasReceiver(cl, s)
    BY <1>1, OnlyAnswered DEF HeldInv, ClientListed
  <1> PICK c, id : c = conn[cl] /\ id = myId[cl]
    OBVIOUS
  <1>3. c \in Conns /\ c # NoConn /\ id \in IdsOf[cl] /\ id \in Ids /\ ops[cl][i].id = id
    BY <1>1, IdsAssumption, ServiceAssumption DEF LinkInv, SocketOpen, AsksForOwnId
  <1>4. longLived' = [longLived EXCEPT ![id] = c] /\ UNCHANGED <<signature, listeners>>
    BY <1>1, <1>3 DEF Service!InitializeConnection
  <1>5. \A other \in Ids : longLived'[other] = IF other = id THEN c ELSE longLived[other]
    BY <1>3, <1>4 DEF Registry!RegistryInv, Registry!TypeOK
  <1>6. Registry!Subs' = Registry!Subs
    BY <1>4 DEF Registry!Subs, Registry!Subscribed
  <1>7. ClientListed(cl)'
    <2>1. ClientListed(cl)
      BY DEF HeldInv
    <2>2. OneConnection(cl)'
      BY <1>2, <2>1 DEF ClientListed, OneConnection
    <2>3. OwnId(cl)'
      BY <1>2, <1>3, <1>5, <2>1 DEF ClientListed, OwnId
    <2>4. HeldListed(cl)'
      BY <1>1, <1>2, <1>6, <2>1 DEF ClientListed, HeldListed
    <2> QED  BY <1>2, <2>2, <2>3, <2>4 DEF ClientListed
  <1>8. ASSUME NEW d \in Clients, d # cl PROVE ClientListed(d)'
    <2>1. ClientListed(d) /\ (conn[d] # NoConn => conn[d] # c)
      BY <1>3, <1>8 DEF HeldInv, OneClientEach
    <2>2. conn[d] # NoConn => \A other \in Ids :
             longLived'[other] = conn[d] => longLived[other] = conn[d]
      BY <1>5, <2>1
    <2> QED  BY <1>2, <1>6, <1>8, <2>1, <2>2, NothingLost
  <1> QED  BY <1>2, <1>7, <1>8 DEF HeldInv

\* What the server does of its own takes nothing from a connected client.
LEMMA ServerLeavesHeld ==
  ASSUME HeldInv, LinkInv,
         UNCHANGED <<ops, conn, myId, serverKnown, connections, connects>>,
         \A id \in Ids : longLived'[id] \in {longLived[id], NoConn},
         \A cl \in Clients : conn[cl] # NoConn => \A s \in Signatures :
            <<conn[cl], s>> \in Registry!Subs => <<conn[cl], s>> \in Registry!Subs'
  PROVE  HeldInv'
PROOF
  <1>1. PairTypes' /\ OneClientEach'
    BY DEF HeldInv, PairTypes, OneClientEach
  <1>2. ASSUME NEW cl \in Clients PROVE ClientListed(cl)'
    BY NothingLost DEF HeldInv
  <1> QED  BY <1>1, <1>2 DEF HeldInv

LEMMA HeldStep ==
  ASSUME OneAtATime, HeldInv, LinkInv, IdRegistered, Registry!RegistryInv, [Next]_vars
  PROVE  HeldInv'
PROOF
  <1>1. CASE UNCHANGED <<longLived, signature, listeners, ops, conn, myId, serverKnown,
                         connections, connects>>
    <2>1. Registry!Subs' = Registry!Subs
      BY <1>1 DEF Registry!Subs, Registry!Subscribed
    <2> QED  BY <1>1, <2>1, ServerLeavesHeld
  <1>2. ASSUME NEW cl \in Clients, Handle(cl) PROVE HeldInv'
    BY <1>2, HandleInitializeKeepsHeld, HandleSubscribeKeepsHeld,
       HandleUnsubscribeKeepsHeld DEF Handle
  <1>3. ASSUME NEW c \in Conns, NoticeClose(c),
               UNCHANGED <<linkVars, serverKnown, connections, ops, connects>>
        PROVE  HeldInv'
    BY <1>1, <1>3 DEF NoticeClose, Service!CloseConnection, linkVars
  <1>4. ASSUME NEW c \in Conns, Service!DeleteConnection(c),
               UNCHANGED <<linkVars, serverKnown, connections, ops, connects>>
        PROVE  HeldInv'
    <2>1. Registry!DeleteConnection(c) /\ connState[c] = "doomed"
      BY <1>4, SameRegistry DEF Service!DeleteConnection
    <2>2. Registry!Subs' = {p \in Registry!Subs : p[1] # c}
      BY <2>1, RegistryAssumptions, Registry!DropSimulation DEF Registry!Abstract!Drop
    <2>3. longLived' = [id \in Ids |-> IF longLived[id] = c THEN NoConn ELSE longLived[id]]
      BY <2>1 DEF Registry!DeleteConnection, Registry!ForgetIds
    <2>4. \A cl \in Clients : conn[cl] # NoConn => conn[cl] # c
      BY <2>1 DEF LinkInv, SocketOpen
    <2> QED  BY <1>4, <2>2, <2>3, <2>4, ServerLeavesHeld DEF linkVars
  <1>5. ASSUME NEW h \in Handlers, Service!DeleteHandler(h),
               UNCHANGED <<linkVars, serverKnown, connections, ops, connects>>
        PROVE  HeldInv'
    <2>1. UNCHANGED <<Registry!Subs, longLived>>
      BY <1>5, SameRegistry, RegistryAssumptions, Registry!DeleteHandlerStutters
    <2> QED  BY <1>5, <2>1, ServerLeavesHeld DEF linkVars
  <1>6. CASE UNCHANGED vars
    BY <1>1, <1>6 DEF vars, serviceVars, linkVars
  <1> QED  BY <1>2, <1>3, <1>4, <1>5, <1>6, ClientKeepsHeld DEF Next, ServerNext, Delete

\* A client that is connected is listed for every signal it holds a receiver
\* for, whatever the application calls, one call at a time, over its one
\* connection: receivers destroyed, signals probed, requests in flight and
\* deletions late, with any number of other clients at work.
THEOREM ReceiversAreListed ==
  ASSUME OneAtATime
  PROVE  Spec => []HeldAreListed
PROOF
  <1>1. Init => IdRegistered
    BY DEF Init, IdRegistered
  <1>2. DistinctIds
    BY DEF OneAtATime
  <1>3. LinkInv /\ Registry!RegistryInv /\ IdRegistered /\ [Next]_vars => IdRegistered'
    BY <1>2, IdStep DEF Registry!RegistryInv
  <1>4. LinkInv /\ Registry!RegistryInv /\ IdRegistered /\ HeldInv /\ [Next]_vars => HeldInv'
    BY HeldStep
  <1>5. HeldInv => HeldAreListed
    BY DEF HeldInv, ClientListed, HeldListed, HeldAreListed, Connected, Service!Subscribed,
           Registry!Subs, Registry!Subscribed
  <1> QED  BY <1>1, <1>3, <1>4, <1>5, LinkStart, LinkStep, HeldStart, RegistryHolds, PTL DEF Spec

-----------------------------------------------------------------------------
(* Types                                                                   *)

LEMMA LinksHold == Spec => []LinkInv
  BY LinkStart, LinkStep, PTL DEF Spec

\* What LinkInv and the registry's invariant leave to be typed.
RestTyped ==
    /\ overwritten \in [Clients -> SUBSET (Conns \X Ids)]
    /\ serverKnown \in [Clients -> BOOLEAN]
    /\ connections \in [Clients -> [Signatures -> [Receivers -> Nat]]]
    /\ \A cl \in Clients : Len(ops[cl]) <= MaxNested
    /\ calls \in [Clients -> Nat] /\ \A cl \in Clients : calls[cl] <= MaxCalls[cl]
    /\ connects \in [Clients -> 0..MaxConnects]

LEMMA RestTypedStart == Init => RestTyped
PROOF
  <1> SUFFICES ASSUME Init PROVE RestTyped
    OBVIOUS
  <1>1. \A cl \in Clients : MaxCalls[cl] \in Nat /\ ops[cl] = <<>> /\ calls[cl] = 0
    BY BoundsAssumption DEF Init
  <1>2. overwritten \in [Clients -> SUBSET (Conns \X Ids)]
    BY DEF Init
  <1> QED  BY <1>1, <1>2, BoundsAssumption DEF Init, RestTyped

\* A call is counted.
LEMMA CallCounted ==
  ASSUME RestTyped, NEW cl \in Clients, calls[cl] < MaxCalls[cl],
         calls' = [calls EXCEPT ![cl] = @ + 1]
  PROVE  calls' \in [Clients -> Nat] /\ \A d \in Clients : calls'[d] <= MaxCalls[d]
PROOF
  <1>1. /\ calls \in [Clients -> Nat] /\ calls[cl] \in Nat
        /\ \A d \in Clients : calls[d] <= MaxCalls[d] /\ MaxCalls[d] \in Nat
    BY BoundsAssumption DEF RestTyped
  <1>2. calls' \in [Clients -> Nat]
    BY <1>1
  <1>3. calls'[cl] = calls[cl] + 1 /\ \A d \in Clients : d # cl => calls'[d] = calls[d]
    BY <1>1
  <1>4. ASSUME NEW n \in Nat, NEW most \in Nat, n < most PROVE n + 1 <= most
    BY <1>4
  <1>5. calls'[cl] <= MaxCalls[cl]
    BY <1>1, <1>3, <1>4
  <1> QED  BY <1>1, <1>2, <1>3, <1>5

\* An operation finds room.
LEMMA OperationFits ==
  ASSUME LinkInv, RestTyped, NEW cl \in Clients, NEW operation, Calls(cl, operation),
         \/ UNCHANGED ops
         \/ \E kind, sig, rcv, id : Blocks(cl, kind, sig, rcv, id)
  PROVE  \A d \in Clients : Len(ops'[d]) <= MaxNested
PROOF
  <1>1. ops[cl] \in Seq(Request) /\ Len(ops[cl]) < MaxNested /\ MaxNested \in Nat
    BY BoundsAssumption DEF Calls, LinkInv, LinkTypes
  <1>2. CASE UNCHANGED ops
    BY <1>2 DEF RestTyped
  <1>3. ASSUME NEW op, ops' = [ops EXCEPT ![cl] = Append(@, op)]
        PROVE  \A d \in Clients : Len(ops'[d]) <= MaxNested
    <2>1. ops'[cl] = Append(ops[cl], op) /\ \A d \in Clients : d # cl => ops'[d] = ops[d]
      BY <1>3 DEF LinkInv, LinkTypes
    <2>2. Len(Append(ops[cl], op)) = Len(ops[cl]) + 1 /\ Len(ops[cl]) \in Nat
      BY <1>1, AppendProperties, LenProperties
    <2>3. Len(ops'[cl]) <= MaxNested
      <3>1. PICK n \in Nat : n = Len(ops[cl])
        BY <2>2
      <3>2. n + 1 <= MaxNested
        BY <1>1, <3>1
      <3> QED  BY <2>1, <2>2, <3>1, <3>2
    <2>4. \A d \in Clients : d # cl => Len(ops'[d]) <= MaxNested
      BY <2>1 DEF RestTyped
    <2> QED  BY <2>3, <2>4
  <1> QED  BY <1>2, <1>3 DEF Blocks

\* One entry more, or none, for one receiver of one signal.
LEMMA EntriesTyped ==
  ASSUME NEW held \in [Clients -> [Signatures -> [Receivers -> Nat]]],
         NEW cl \in Clients, NEW s, NEW r
  PROVE  /\ [held EXCEPT ![cl][s][r] = @ + 1] \in [Clients -> [Signatures -> [Receivers -> Nat]]]
         /\ [held EXCEPT ![cl][s][r] = 0] \in [Clients -> [Signatures -> [Receivers -> Nat]]]
PROOF
  <1> DEFINE row == held[cl][s]
             more == [row EXCEPT ![r] = @ + 1]
             none == [row EXCEPT ![r] = 0]
             table == held[cl]
  <1>1. ASSUME s \in Signatures
        PROVE  more \in [Receivers -> Nat] /\ none \in [Receivers -> Nat]
    <2>1. row \in [Receivers -> Nat]
      BY <1>1
    <2> HIDE DEF row
    <2>2. CASE r \in Receivers
      BY <2>1, <2>2
    <2>3. CASE r \notin Receivers
      BY <2>1, <2>3
    <2> QED  BY <2>2, <2>3
  <1>2. table \in [Signatures -> [Receivers -> Nat]]
    OBVIOUS
  <1> HIDE DEF more, none, table
  <1>3. /\ [table EXCEPT ![s] = more] \in [Signatures -> [Receivers -> Nat]]
        /\ [table EXCEPT ![s] = none] \in [Signatures -> [Receivers -> Nat]]
    BY <1>1, <1>2
  <1>4. /\ [held EXCEPT ![cl] = [table EXCEPT ![s] = more]]
              \in [Clients -> [Signatures -> [Receivers -> Nat]]]
        /\ [held EXCEPT ![cl] = [table EXCEPT ![s] = none]]
              \in [Clients -> [Signatures -> [Receivers -> Nat]]]
    BY <1>3
  <1> QED  BY <1>4 DEF more, none, table

LEMMA ConnectToServerTyped ==
  ASSUME LinkInv, RestTyped, NEW cl \in Clients, ConnectToServer(cl)
  PROVE  RestTyped'
PROOF
  <1>1. /\ Calls(cl, "connectToServer")
        /\ connects[cl] < MaxConnects /\ connects' = [connects EXCEPT ![cl] = @ + 1]
        /\ \E kind, sig, rcv, id : Blocks(cl, kind, sig, rcv, id)
        /\ UNCHANGED <<serverKnown, connections>>
    BY DEF ConnectToServer
  <1>2. \/ UNCHANGED overwritten
        \/ conn[cl] # NoConn
           /\ overwritten' = [overwritten EXCEPT ![cl] = @ \cup {<<conn[cl], myId[cl]>>}]
    BY DEF ConnectToServer
  <1>3. overwritten' \in [Clients -> SUBSET (Conns \X Ids)]
    <2>1. conn[cl] # NoConn => <<conn[cl], myId[cl]>> \in Conns \X Ids
      BY IdsAssumption DEF LinkInv, SocketOpen
    <2> DEFINE old == <<conn[cl], myId[cl]>>
    <2>2. conn[cl] # NoConn => old \in Conns \X Ids
      BY <2>1
    <2>3. \/ UNCHANGED overwritten
          \/ conn[cl] # NoConn /\ overwritten' = [overwritten EXCEPT ![cl] = @ \cup {old}]
      BY <1>2
    <2> HIDE DEF old
    <2> DEFINE pairs == Conns \X Ids
    <2>4. overwritten \in [Clients -> SUBSET pairs] /\ (conn[cl] # NoConn => old \in pairs)
      BY <2>2 DEF RestTyped
    <2> HIDE DEF pairs
    <2>5. overwritten' \in [Clients -> SUBSET pairs]
      BY <2>3, <2>4
    <2> QED  BY <2>5 DEF pairs
  <1>4. calls' \in [Clients -> Nat] /\ \A d \in Clients : calls'[d] <= MaxCalls[d]
    BY <1>1, CallCounted DEF Calls
  <1>5. \A d \in Clients : Len(ops'[d]) <= MaxNested
    BY <1>1, OperationFits
  <1>6. connects' \in [Clients -> 0..MaxConnects]
    BY <1>1, BoundsAssumption DEF RestTyped
  <1> QED  BY <1>1, <1>3, <1>4, <1>5, <1>6 DEF RestTyped

LEMMA ClientTyped ==
  ASSUME LinkInv, RestTyped, NEW cl \in Clients, ClientNext(cl)
  PROVE  RestTyped'
PROOF
  <1>1. CASE DisconnectFromServer(cl)
    <2>1. /\ calls' \in [Clients -> Nat] /\ \A d \in Clients : calls'[d] <= MaxCalls[d]
      BY <1>1, CallCounted DEF DisconnectFromServer, Calls
    <2> QED  BY <1>1, <2>1 DEF DisconnectFromServer, RestTyped
  <1>2. CASE ForgetConnection(cl)
    BY <1>2 DEF ForgetConnection, RestTyped
  <1>3. ASSUME NEW s \in Signatures,
               \/ RemoteConnectToSignal(cl, s)
               \/ \E r \in Receivers : RemoteConnect(cl, s, r) \/ DisconnectSignal(cl, s, r)
        PROVE  RestTyped'
    <2>1. /\ \E operation : Calls(cl, operation)
          /\ \/ UNCHANGED ops
             \/ \E kind, sig, rcv, id : Blocks(cl, kind, sig, rcv, id)
          /\ UNCHANGED <<overwritten, serverKnown, connects>>
      BY <1>3 DEF RemoteConnectToSignal, RemoteConnect, DisconnectSignal, linkVars
    <2>2. calls' \in [Clients -> Nat] /\ \A d \in Clients : calls'[d] <= MaxCalls[d]
      BY <2>1, CallCounted DEF Calls
    <2>3. \A d \in Clients : Len(ops'[d]) <= MaxNested
      BY <2>1, OperationFits
    <2>4. connections' \in [Clients -> [Signatures -> [Receivers -> Nat]]]
      <3>1. \/ UNCHANGED connections
            \/ \E r : \/ connections' = [connections EXCEPT ![cl][s][r] = @ + 1]
                      \/ connections' = [connections EXCEPT ![cl][s][r] = 0]
        BY <1>3 DEF RemoteConnectToSignal, RemoteConnect, DisconnectSignal, Without
      <3>2. connections \in [Clients -> [Signatures -> [Receivers -> Nat]]]
        BY DEF RestTyped
      <3>3. CASE UNCHANGED connections
        BY <3>2, <3>3
      <3>4. ASSUME NEW r, connections' = [connections EXCEPT ![cl][s][r] = @ + 1]
            PROVE  connections' \in [Clients -> [Signatures -> [Receivers -> Nat]]]
        BY <3>2, <3>4, EntriesTyped
      <3>5. ASSUME NEW r, connections' = [connections EXCEPT ![cl][s][r] = 0]
            PROVE  connections' \in [Clients -> [Signatures -> [Receivers -> Nat]]]
        BY <3>2, <3>5, EntriesTyped
      <3> QED  BY <3>1, <3>3, <3>4, <3>5
    <2> QED  BY <2>1, <2>2, <2>3, <2>4 DEF RestTyped
  <1>4. ASSUME NEW r \in Receivers, DestroyReceiver(cl, r) PROVE RestTyped'
    <2>1. calls' \in [Clients -> Nat] /\ \A d \in Clients : calls'[d] <= MaxCalls[d]
      BY <1>4, CallCounted DEF DestroyReceiver
    <2>2. connections' \in [Clients -> [Signatures -> [Receivers -> Nat]]]
      BY <1>4 DEF DestroyReceiver, ForgetReceiver, RestTyped
    <2> QED  BY <1>4, <2>1, <2>2 DEF DestroyReceiver, linkVars, RestTyped
  <1>5. CASE Return(cl)
    <2>1. /\ connections' \in {connections,
                 [connections EXCEPT ![cl][Last(ops[cl]).sig][Last(ops[cl]).rcv] = @ + 1]}
          /\ serverKnown' = [serverKnown EXCEPT
                                ![cl] = @ \/ Last(ops[cl]).kind = "connectToServer"]
          /\ UNCHANGED <<overwritten, calls, connects>>
      BY <1>5 DEF Return, linkVars
    <2>2. connections' \in [Clients -> [Signatures -> [Receivers -> Nat]]]
      <3>1. connections \in [Clients -> [Signatures -> [Receivers -> Nat]]]
        BY DEF RestTyped
      <3>2. PICK s, r : s = Last(ops[cl]).sig /\ r = Last(ops[cl]).rcv
        OBVIOUS
      <3>3. connections' \in {connections, [connections EXCEPT ![cl][s][r] = @ + 1]}
        BY <2>1, <3>2
      <3>4. CASE UNCHANGED connections
        BY <3>1, <3>4
      <3>5. CASE connections' = [connections EXCEPT ![cl][s][r] = @ + 1]
        BY <3>1, <3>5, EntriesTyped
      <3> QED  BY <3>3, <3>4, <3>5
    <2>3. serverKnown' \in [Clients -> BOOLEAN]
      BY <2>1 DEF RestTyped
    <2>4. \A d \in Clients : Len(ops'[d]) <= MaxNested
      <3>1. /\ ops' \in [Clients -> Seq(Request)]
            /\ \A d \in Clients : d # cl => ops'[d] = ops[d]
            /\ Len(ops[cl]) \in Nat \ {0}
            /\ DOMAIN ops'[cl] = 1..(Len(ops[cl]) - 1)
        BY <1>5, ReturnPops DEF LinkInv
      <3>2. PICK n \in Nat : n = Len(ops'[cl]) /\ DOMAIN ops'[cl] = 1..n
        BY <3>1, LenProperties
      <3>3. PICK m \in Nat \ {0} : m = Len(ops[cl])
        BY <3>1
      <3>4. DOMAIN ops'[cl] = 1..(m - 1) /\ m - 1 \in Nat
        BY <3>1, <3>3
      <3>5. n <= m
        BY <3>2, <3>4
      <3>6. m <= MaxNested
        BY <3>3 DEF RestTyped
      <3>7. Len(ops'[cl]) <= MaxNested
        BY <3>2, <3>5, <3>6, BoundsAssumption
      <3>8. \A d \in Clients : d # cl => Len(ops'[d]) <= MaxNested
        BY <3>1 DEF RestTyped
      <3> QED  BY <3>7, <3>8
    <2> QED  BY <2>1, <2>2, <2>3, <2>4 DEF RestTyped
  <1> QED  BY <1>1, <1>2, <1>3, <1>4, <1>5, ConnectToServerTyped DEF ClientNext

LEMMA TypesStep ==
  ASSUME LinkInv, RestTyped, [Next]_vars
  PROVE  RestTyped'
PROOF
  <1>1. ASSUME NEW cl \in Clients, Handle(cl) PROVE RestTyped'
    <2>1. PICK i \in DOMAIN ops[cl], reply \in {"ok", "error"} : Reply(cl, i, reply)
      BY <1>1 DEF Handle, HandleInitialize, HandleSubscribe, HandleUnsubscribe
    <2>2. /\ ops' \in [Clients -> Seq(Request)]
          /\ \A d \in Clients : DOMAIN ops'[d] = DOMAIN ops[d]
          /\ UNCHANGED <<overwritten, serverKnown, connections, calls, connects>>
      BY <2>1, ReplySets DEF LinkInv
    <2>3. \A d \in Clients : Len(ops'[d]) = Len(ops[d])
      BY <2>2, LenProperties DEF LinkInv, LinkTypes
    <2> QED  BY <2>2, <2>3 DEF RestTyped
  <1>2. CASE UNCHANGED <<linkVars, serverKnown, connections, ops, calls, connects>>
    BY <1>2 DEF linkVars, RestTyped
  <1> QED  BY <1>1, <1>2, ClientTyped DEF Next, ServerNext, vars

LEMMA RestHolds == Spec => []RestTyped
PROOF
  <1>1. LinkInv /\ RestTyped /\ [Next]_vars => RestTyped'
    BY TypesStep
  <1> QED  BY <1>1, RestTypedStart, LinksHold, PTL DEF Spec

\* Every variable has its type: no table of the clients points outside what
\* there is, and no client has more operations waiting than it may nest.
THEOREM ClientsTyped == Spec => []TypeOK
PROOF
  <1>1. ASSUME LinkInv, RestTyped, Registry!RegistryInv PROVE TypeOK
    <2>1. Service!TypeOK
      BY <1>1 DEF Registry!RegistryInv, Registry!TypeOK, Service!TypeOK
    <2>2. conn \in [Clients -> Conns \cup {NoConn}] /\ myId \in [Clients -> Ids \cup {NullId}]
      BY <1>1 DEF LinkInv, LinkTypes
    <2>3. ASSUME NEW cl \in Clients PROVE ops[cl] \in BoundedSeq(Request, MaxNested)
      <3>1. ops[cl] \in Seq(Request) /\ Len(ops[cl]) \in Nat /\ Len(ops[cl]) <= MaxNested
        BY <1>1, LenProperties DEF LinkInv, LinkTypes, RestTyped
      <3>2. ops[cl] \in [1..Len(ops[cl]) -> Request] /\ Len(ops[cl]) \in 0..MaxNested
        BY <3>1, LenProperties, BoundsAssumption
      <3> QED  BY <3>2 DEF BoundedSeq, SeqOf
    <2>4. ops \in [Clients -> BoundedSeq(Request, MaxNested)]
      BY <1>1, <2>3 DEF LinkInv, LinkTypes
    <2>5. \A cl \in Clients : calls[cl] \in 0..MaxCalls[cl]
      BY <1>1, BoundsAssumption DEF RestTyped
    <2> QED  BY <1>1, <2>1, <2>2, <2>4, <2>5 DEF TypeOK, RestTyped
  <1>2. LinkInv /\ RestTyped /\ Registry!RegistryInv => TypeOK
    BY <1>1
  <1> QED  BY <1>2, RestHolds, LinksHold, RegistryHolds, PTL
=============================================================================
