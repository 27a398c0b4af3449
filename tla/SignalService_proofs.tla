----------------------- MODULE SignalService_proofs -----------------------
(***************************************************************************)
(* Proofs about the signal registry, for any number of connections,        *)
(* handlers, ids and signatures.                                           *)
(*                                                                         *)
(* The invariants of SignalService are not inductive by themselves: that a *)
(* registered handler is in use needs that no doomed handler lists anybody *)
(* and that an address without an object is blank, so that a new handler   *)
(* starts empty; and that pointers do not dangle needs that whatever is    *)
(* wired to a connection loses the connection with it.                     *)
(***************************************************************************)
EXTENDS SignalService, TLAPS

\* An address that holds no handler is blank, and one that does is signed.
HandlersSigned ==
    \A h \in Handlers :
        /\ handlerState[h] = "none" => \A c \in Conns : wired[h][c] = 0
        /\ handlerState[h] = "none" <=> signature[h] = NoSignature

\* Only a handler in service lists anybody.
OnlyLiveHandlersList ==
    \A h \in Handlers : handlerState[h] # "live" => NoListener(listeners[h])

\* What is wired to a connection vanishes with it.
WiredConnectionsExist ==
    \A h \in Handlers, c \in Conns : wired[h][c] > 0 => connState[c] # "none"

RegistryInv ==
    /\ TypeOK
    /\ NoDanglingPointers
    /\ RegisteredHandlerInUse
    /\ NoIdleHandler
    /\ ListenersAreWired
    /\ HandlersSigned
    /\ OnlyLiveHandlersList
    /\ WiredConnectionsExist

-----------------------------------------------------------------------------
(* What the list operations do, whatever the list.                         *)

\* Minus stays below its first argument, and reaches 0 when it takes as much.
LEMMA MinusBounds ==
    ASSUME NEW m \in 0..MaxWired, NEW n \in 0..MaxWired
    PROVE  /\ Minus(m, n) \in 0..MaxWired
           /\ Minus(m, n) <= m
           /\ m <= n => Minus(m, n) = 0
           /\ n = 0 => Minus(m, n) = m
  BY MaxWiredAssumption DEF Minus

\* removeOne never grows a list and touches one entry only.
LEMMA RemoveOneBounds ==
    ASSUME NEW list \in [Conns -> 0..MaxWired], NEW c
    PROVE  /\ RemoveOne(list, c) \in [Conns -> 0..MaxWired]
           /\ \A d \in Conns : /\ RemoveOne(list, c)[d] <= list[d]
                               /\ d # c => RemoveOne(list, c)[d] = list[d]
  BY MaxWiredAssumption DEF RemoveOne

-----------------------------------------------------------------------------
(* The inductive invariant                                                 *)

THEOREM InitRegistryInv == Init => RegistryInv
  BY NullAssumption, MaxWiredAssumption
  DEF Init, RegistryInv, TypeOK, NoDanglingPointers, RegisteredHandlerInUse,
      NoIdleHandler, ListenersAreWired, HandlersSigned, OnlyLiveHandlersList,
      WiredConnectionsExist, NoListener

\* Opening, closing and initialising a connection move no listener.
LEMMA ConnectionStep ==
    ASSUME RegistryInv, NEW c \in Conns, OpenConnection(c) \/ CloseConnection(c)
    PROVE  RegistryInv'
<1>1. /\ UNCHANGED <<longLived, registered, handlerState, signature, listeners, wired>>
      /\ connState' \in [Conns -> {"none", "open", "doomed"}]
      /\ \A d \in Conns : connState[d] # "none" => connState'[d] # "none"
  BY DEF OpenConnection, CloseConnection, RegistryInv, TypeOK
<1>2. QED
  BY <1>1
  DEF RegistryInv, TypeOK, NoDanglingPointers, RegisteredHandlerInUse, NoIdleHandler,
      ListenersAreWired, HandlersSigned, OnlyLiveHandlersList, WiredConnectionsExist,
      NoListener

LEMMA InitializeStep ==
    ASSUME RegistryInv, NEW c \in Conns, NEW id \in Ids, InitializeConnection(c, id)
    PROVE  RegistryInv'
  BY NullAssumption
  DEF InitializeConnection, RegistryInv, TypeOK, NoDanglingPointers,
      RegisteredHandlerInUse, NoIdleHandler, ListenersAreWired, HandlersSigned,
      OnlyLiveHandlersList, WiredConnectionsExist, NoListener

\* A request adds one entry and one wire, to the registered handler or to a
\* blank one that becomes the registered handler.
LEMMA RequestStep ==
    ASSUME RegistryInv, NEW s \in Signatures, NEW id \in Ids,
           HandleSignalRequest(s, id)
    PROVE  RegistryInv'
<1>c. longLived[id] \in Conns /\ connState[longLived[id]] # "none"
  BY DEF HandleSignalRequest, SubscribeToExisting, SubscribeToNew, Accepts,
         RegistryInv, TypeOK, NoDanglingPointers
<1> DEFINE c == longLived[id]
<1>1. CASE SubscribeToExisting(s, id)
  <2> DEFINE h == registered[s]
  <2>1. h \in Handlers /\ handlerState[h] = "live"
    BY <1>1 DEF SubscribeToExisting, RegistryInv, TypeOK, RegisteredHandlerInUse
  <2>2. /\ wired[h][c] < MaxWired
        /\ listeners' = [listeners EXCEPT ![h][c] = @ + 1]
        /\ wired' = [wired EXCEPT ![h][c] = @ + 1]
        /\ UNCHANGED <<connState, longLived, registered, handlerState, signature>>
    BY <1>1 DEF SubscribeToExisting, AddListener
  <2> HIDE DEF c, h
  <2>3. TypeOK'
    BY <1>c, <2>1, <2>2, MaxWiredAssumption
    DEF RegistryInv, TypeOK, ListenersAreWired, c
  <2>4. \A g \in Handlers, d \in Conns : listeners[g][d] <= listeners'[g][d]
    BY <1>c, <2>1, <2>2, MaxWiredAssumption DEF RegistryInv, TypeOK, c
  <2>5. NoDanglingPointers' /\ WiredConnectionsExist'
    BY <1>c, <2>1, <2>2 DEF RegistryInv, TypeOK, NoDanglingPointers, WiredConnectionsExist, c
  <2>6. RegisteredHandlerInUse' /\ NoIdleHandler'
    BY <2>1, <2>2, <2>3, <2>4, MaxWiredAssumption
    DEF RegistryInv, TypeOK, RegisteredHandlerInUse, NoIdleHandler, NoListener
  <2>7. ListenersAreWired' /\ HandlersSigned' /\ OnlyLiveHandlersList'
    BY <1>c, <2>1, <2>2
    DEF RegistryInv, TypeOK, ListenersAreWired, HandlersSigned, OnlyLiveHandlersList,
        NoListener, c
  <2>8. QED  BY <2>3, <2>5, <2>6, <2>7 DEF RegistryInv
<1>2. CASE SubscribeToNew(s, id)
  <2>1. PICK h \in Handlers :
          /\ handlerState[h] = "none"
          /\ handlerState' = [handlerState EXCEPT ![h] = "live"]
          /\ signature' = [signature EXCEPT ![h] = s]
          /\ registered' = [registered EXCEPT ![s] = h]
          /\ wired[h][c] < MaxWired
          /\ listeners' = [listeners EXCEPT ![h][c] = @ + 1]
          /\ wired' = [wired EXCEPT ![h][c] = @ + 1]
    BY <1>2 DEF SubscribeToNew, AddListener
  <2>2. UNCHANGED <<connState, longLived>>
    BY <1>2 DEF SubscribeToNew
  <2> HIDE DEF c
  <2>3. TypeOK'
    BY <1>c, <2>1, <2>2, MaxWiredAssumption
    DEF RegistryInv, TypeOK, ListenersAreWired, c
  <2>4. listeners'[h][c] > 0
    BY <1>c, <2>1, MaxWiredAssumption DEF RegistryInv, TypeOK, c
  <2>5. NoDanglingPointers' /\ WiredConnectionsExist'
    BY <1>c, <2>1, <2>2 DEF RegistryInv, TypeOK, NoDanglingPointers, WiredConnectionsExist, c
  <2>6. RegisteredHandlerInUse' /\ NoIdleHandler'
    BY <1>c, <2>1, <2>4, NullAssumption
    DEF RegistryInv, TypeOK, RegisteredHandlerInUse, NoIdleHandler, NoListener, c
  <2>7. ListenersAreWired' /\ HandlersSigned' /\ OnlyLiveHandlersList'
    BY <1>c, <2>1, NullAssumption
    DEF RegistryInv, TypeOK, ListenersAreWired, HandlersSigned, OnlyLiveHandlersList,
        NoListener, c
  <2>8. QED  BY <2>3, <2>5, <2>6, <2>7 DEF RegistryInv
<1>3. QED  BY <1>1, <1>2 DEF HandleSignalRequest

\* A disconnect request takes at most one entry from the registered handler,
\* and takes the handler out of service with its last entry.
LEMMA DisconnectStep ==
    ASSUME RegistryInv, NEW s \in Signatures, NEW id \in Ids,
           HandleSignalDisconnect(s, id)
    PROVE  RegistryInv'
<1> DEFINE h == registered[s]
           left == RemoveOne(listeners[h], longLived[id])
           finished == IF NoListener(left) THEN {h} ELSE {}
<1>1. h \in Handlers /\ handlerState[h] = "live" /\ signature[h] = s
  BY DEF HandleSignalDisconnect, RegistryInv, TypeOK, RegisteredHandlerInUse
<1>2. /\ listeners' = [listeners EXCEPT ![h] = left]
      /\ registered' = [t \in Signatures |->
            IF \E g \in finished : signature[g] = t THEN NoHandler ELSE registered[t]]
      /\ handlerState' = [g \in Handlers |->
            IF g \in finished THEN "doomed" ELSE handlerState[g]]
      /\ UNCHANGED <<connState, longLived, signature, wired>>
  BY DEF HandleSignalDisconnect, RemoveListener, EmitDestroyed
<1>3. /\ left \in [Conns -> 0..MaxWired]
      /\ \A d \in Conns : left[d] <= listeners[h][d]
  BY <1>1, RemoveOneBounds DEF RegistryInv, TypeOK
<1> HIDE DEF h, left
<1>4. TypeOK'
  BY <1>1, <1>2, <1>3 DEF RegistryInv, TypeOK
<1>5. NoDanglingPointers' /\ ListenersAreWired' /\ WiredConnectionsExist'
  BY <1>1, <1>2, <1>3, MaxWiredAssumption
  DEF RegistryInv, TypeOK, NoDanglingPointers, ListenersAreWired, WiredConnectionsExist
<1>6. HandlersSigned'
  BY <1>1, <1>2 DEF RegistryInv, TypeOK, HandlersSigned
<1>7. OnlyLiveHandlersList' /\ NoIdleHandler'
  BY <1>1, <1>2, <1>3 DEF RegistryInv, TypeOK, OnlyLiveHandlersList, NoIdleHandler
<1>8. RegisteredHandlerInUse'
  BY <1>1, <1>2, <1>7, NullAssumption
  DEF RegistryInv, TypeOK, RegisteredHandlerInUse, NoIdleHandler
<1>9. QED  BY <1>4, <1>5, <1>6, <1>7, <1>8 DEF RegistryInv

\* The end of a connection clears every entry and every wire of it, and takes
\* out of service every handler that it leaves with nobody.
LEMMA DeleteConnectionStep ==
    ASSUME RegistryInv, NEW c \in Conns, DeleteConnection(c)
    PROVE  RegistryInv'
<1> DEFINE finished == {h \in Handlers : wired[h][c] > 0 /\ NoListener(listeners'[h])}
<1>1. /\ connState' = [connState EXCEPT ![c] = "none"]
      /\ longLived' = [id \in Ids |-> IF longLived[id] = c THEN NoConn ELSE longLived[id]]
      /\ listeners' = [h \in Handlers |->
            [listeners[h] EXCEPT ![c] = Minus(@, wired[h][c])]]
      /\ wired' = [h \in Handlers |-> [wired[h] EXCEPT ![c] = 0]]
      /\ registered' = [s \in Signatures |->
            IF \E h \in finished : signature[h] = s THEN NoHandler ELSE registered[s]]
      /\ handlerState' = [h \in Handlers |->
            IF h \in finished THEN "doomed" ELSE handlerState[h]]
      /\ UNCHANGED signature
  BY DEF DeleteConnection, ForgetIds, EmitDestroyed
<1>2. ASSUME NEW h \in Handlers
      PROVE  /\ listeners'[h] \in [Conns -> 0..MaxWired]
             /\ listeners'[h][c] = 0
             /\ wired[h][c] = 0 => listeners[h][c] = 0
             /\ \A d \in Conns \ {c} : listeners'[h][d] = listeners[h][d]
  <2>1. /\ listeners[h][c] \in 0..MaxWired
        /\ wired[h][c] \in 0..MaxWired
        /\ listeners[h][c] <= wired[h][c]
    BY DEF RegistryInv, TypeOK, ListenersAreWired
  <2>2. Minus(listeners[h][c], wired[h][c]) = 0
    BY <2>1, MinusBounds
  <2>3. listeners'[h] = [listeners[h] EXCEPT ![c] = 0]
    BY <1>1, <2>2
  <2>4. QED  BY <2>1, <2>3, MaxWiredAssumption DEF RegistryInv, TypeOK
<1> HIDE DEF finished
<1>3. TypeOK'
  <2>1. listeners' \in [Handlers -> [Conns -> 0..MaxWired]]
    BY <1>1, <1>2
  <2>2. wired' \in [Handlers -> [Conns -> 0..MaxWired]]
    BY <1>1, MaxWiredAssumption DEF RegistryInv, TypeOK
  <2>3. QED  BY <1>1, <2>1, <2>2 DEF RegistryInv, TypeOK
<1>4. \A h \in Handlers : NoListener(listeners[h]) => NoListener(listeners'[h])
  BY <1>2 DEF NoListener
<1>5. \A h \in Handlers :
        h \notin finished => (NoListener(listeners'[h]) => NoListener(listeners[h]))
  BY <1>2 DEF finished, NoListener, RegistryInv, TypeOK
<1>6. NoDanglingPointers'
  BY <1>1, <1>2, NullAssumption DEF RegistryInv, TypeOK, NoDanglingPointers
<1>7. ListenersAreWired' /\ WiredConnectionsExist'
  BY <1>1, <1>2 DEF RegistryInv, TypeOK, ListenersAreWired, WiredConnectionsExist
<1>8. HandlersSigned'
  BY <1>1 DEF RegistryInv, TypeOK, HandlersSigned, finished
<1>9. OnlyLiveHandlersList' /\ NoIdleHandler'
  BY <1>1, <1>4, <1>5 DEF RegistryInv, TypeOK, OnlyLiveHandlersList, NoIdleHandler, finished
<1>10. RegisteredHandlerInUse'
  BY <1>1, <1>5, <1>9, NullAssumption
  DEF RegistryInv, TypeOK, RegisteredHandlerInUse, NoIdleHandler
<1>11. QED  BY <1>3, <1>6, <1>7, <1>8, <1>9, <1>10 DEF RegistryInv

\* A doomed handler is registered nowhere and lists nobody: nothing that
\* remains refers to it.
LEMMA DeleteHandlerStep ==
    ASSUME RegistryInv, NEW h \in Handlers, DeleteHandler(h)
    PROVE  RegistryInv'
<1>1. TypeOK'
  BY MaxWiredAssumption DEF RegistryInv, TypeOK, DeleteHandler
<1>2. NoDanglingPointers' /\ ListenersAreWired' /\ WiredConnectionsExist'
  BY DEF RegistryInv, TypeOK, DeleteHandler, NoDanglingPointers, ListenersAreWired,
         WiredConnectionsExist
<1>3. RegisteredHandlerInUse' /\ NoIdleHandler'
  BY DEF RegistryInv, TypeOK, DeleteHandler, RegisteredHandlerInUse, NoIdleHandler
<1>4. HandlersSigned' /\ OnlyLiveHandlersList'
  BY NullAssumption
  DEF RegistryInv, TypeOK, DeleteHandler, HandlersSigned, OnlyLiveHandlersList, NoListener
<1>5. QED  BY <1>1, <1>2, <1>3, <1>4 DEF RegistryInv

\* RegistryInv holds in every reachable state of the server.
LEMMA NextRegistryInv == RegistryInv /\ [Next]_vars => RegistryInv'
<1> SUFFICES ASSUME RegistryInv, [Next]_vars
             PROVE  RegistryInv'
  OBVIOUS
<1>1. ASSUME NEW c \in Conns,
             \/ OpenConnection(c) \/ CloseConnection(c) \/ DeleteConnection(c)
             \/ \E id \in Ids : InitializeConnection(c, id)
      PROVE  RegistryInv'
  BY <1>1, ConnectionStep, DeleteConnectionStep, InitializeStep
<1>2. ASSUME NEW s \in Signatures, NEW id \in Ids,
             HandleSignalRequest(s, id) \/ HandleSignalDisconnect(s, id)
      PROVE  RegistryInv'
  BY <1>2, RequestStep, DisconnectStep
<1>3. ASSUME NEW h \in Handlers, DeleteHandler(h)
      PROVE  RegistryInv'
  BY <1>3, DeleteHandlerStep
<1>4. CASE UNCHANGED vars
  BY <1>4
  DEF vars, RegistryInv, TypeOK, NoDanglingPointers, RegisteredHandlerInUse,
      NoIdleHandler, ListenersAreWired, HandlersSigned, OnlyLiveHandlersList,
      WiredConnectionsExist, NoListener
<1>5. QED  BY <1>1, <1>2, <1>3, <1>4 DEF Next

THEOREM RegistryInvariant == Spec => []RegistryInv
  BY InitRegistryInv, NextRegistryInv, PTL DEF Spec

LEMMA RegistryTells ==
    RegistryInv => /\ TypeOK
                   /\ NoDanglingPointers
                   /\ RegisteredHandlerInUse
                   /\ NoIdleHandler
  BY DEF RegistryInv

\* The tables of CuteIPCService and of its signal handlers are well typed in
\* every reachable state: a handler counts at most MaxWired connections.
THEOREM RegistryTyped == Spec => []TypeOK
  BY RegistryTells, RegistryInvariant, PTL

\* Neither the service nor a handler keeps a pointer to a connection that has
\* been deleted (connectionDestroyed, removeListener).
THEOREM NoPointerDangles == Spec => []NoDanglingPointers
  BY RegistryTells, RegistryInvariant, PTL

\* A handler found under a signature serves that signature, and is not about to
\* be deleted (handleSignalRequest, handlerDestroyed).
THEOREM HandlersInUse == Spec => []RegisteredHandlerInUse
  BY RegistryTells, RegistryInvariant, PTL

\* A handler without listeners is deleted: none stays behind (removeListener).
THEOREM NoneIdle == Spec => []NoIdleHandler
  BY RegistryTells, RegistryInvariant, PTL

-----------------------------------------------------------------------------
(* The registry implements the set of subscriptions.                       *)

LEMMA OpenSimulation ==
    ASSUME RegistryInv, NEW c \in Conns, OpenConnection(c)
    PROVE  Abstract!Open(c)
<1>1. c \notin Known /\ Known' = Known \cup {c}
  BY DEF OpenConnection, Known, RegistryInv, TypeOK
<1>2. UNCHANGED <<longLived, Subs>>
  BY DEF OpenConnection, Subs, Subscribed
<1>3. QED  BY <1>1, <1>2 DEF Abstract!Open

LEMMA RegisterSimulation ==
    ASSUME RegistryInv, NEW c \in Conns, NEW id \in Ids, InitializeConnection(c, id)
    PROVE  Abstract!Register(c, id)
  BY DEF InitializeConnection, Abstract!Register, Known, Subs, Subscribed, RegistryInv, TypeOK

\* The requesting client's own connection gets the subscription.
LEMMA SubscribeSimulation ==
    ASSUME RegistryInv, NEW s \in Signatures, NEW id \in Ids, HandleSignalRequest(s, id)
    PROVE  Abstract!Subscribe(s, id)
<1> DEFINE c == longLived[id]
<1>1. c \in Conns /\ c \in Known
  BY DEF HandleSignalRequest, SubscribeToExisting, SubscribeToNew, Accepts, Known,
         RegistryInv, TypeOK, NoDanglingPointers
<1>2. UNCHANGED <<Known, longLived>>
  BY DEF HandleSignalRequest, SubscribeToExisting, SubscribeToNew, Known
<1>3. PICK h \in Handlers :
        /\ listeners' = [listeners EXCEPT ![h][c] = @ + 1]
        /\ signature'[h] = s
        /\ \A g \in Handlers \ {h} : signature'[g] = signature[g]
        /\ signature[h] = s \/ NoListener(listeners[h])
  <2>1. CASE SubscribeToExisting(s, id)
    <3>1. /\ registered[s] \in Handlers
          /\ signature[registered[s]] = s
      BY <2>1 DEF SubscribeToExisting, RegistryInv, TypeOK, RegisteredHandlerInUse
    <3>2. QED  BY <2>1, <3>1 DEF SubscribeToExisting, AddListener
  <2>2. CASE SubscribeToNew(s, id)
    BY <2>2 DEF SubscribeToNew, AddListener, RegistryInv, TypeOK, OnlyLiveHandlersList
  <2>3. QED  BY <2>1, <2>2 DEF HandleSignalRequest
<1> HIDE DEF c
<1>4. \A g \in Handlers, d \in Conns :
        listeners'[g][d] > 0 <=> listeners[g][d] > 0 \/ (g = h /\ d = c)
  BY <1>1, <1>3, MaxWiredAssumption DEF RegistryInv, TypeOK
<1>5. ASSUME NEW d \in Conns, NEW t \in Signatures
      PROVE  Subscribed(d, t)' <=> Subscribed(d, t) \/ (d = c /\ t = s)
  <2>1. listeners[h][d] > 0 => signature[h] = s
    BY <1>3 DEF NoListener
  <2>2. QED  BY <1>3, <1>4, <2>1 DEF Subscribed
<1>6. Subs' = Subs \cup {<<c, s>>}
  BY <1>1, <1>5 DEF Subs
<1>7. QED  BY <1>1, <1>2, <1>6 DEF Abstract!Subscribe, c

\* A disconnect request ends the subscription of the connection it names, or
\* nothing: the id may be unknown, and other entries of it may remain.
LEMMA UnsubscribeSimulation ==
    ASSUME RegistryInv, NEW s \in Signatures, NEW id \in Ids, HandleSignalDisconnect(s, id)
    PROVE  Abstract!Unsubscribe(s, id) \/ UNCHANGED <<Known, longLived, Subs>>
<1>c. PICK c : c = longLived[id]
  OBVIOUS
<1> DEFINE h == registered[s]
           left == RemoveOne(listeners[h], c)
<1>1. h \in Handlers /\ signature[h] = s
  BY DEF HandleSignalDisconnect, RegistryInv, TypeOK, RegisteredHandlerInUse
<1>2. /\ listeners' = [listeners EXCEPT ![h] = left]
      /\ UNCHANGED <<longLived, signature, Known>>
  BY <1>c DEF HandleSignalDisconnect, RemoveListener, Known
<1>3. \A d \in Conns : d # c => left[d] = listeners[h][d]
  BY <1>1, RemoveOneBounds DEF RegistryInv, TypeOK
<1>4. \A d \in Conns : left[d] > 0 => listeners[h][d] > 0
  BY <1>1, RemoveOneBounds, MaxWiredAssumption DEF RegistryInv, TypeOK
<1> HIDE DEF h, left
<1>5. ASSUME NEW d \in Conns, NEW t \in Signatures
      PROVE  /\ Subscribed(d, t)' => Subscribed(d, t)
             /\ d # c \/ t # s => (Subscribed(d, t)' <=> Subscribed(d, t))
  BY <1>1, <1>2, <1>3, <1>4 DEF Subscribed, RegistryInv, TypeOK
<1>6. CASE c \in Conns /\ Subscribed(c, s) /\ ~Subscribed(c, s)'
  <2>1. c \in Known
    BY <1>6 DEF Subscribed, Known, RegistryInv, NoDanglingPointers
  <2>2. ASSUME NEW d \in Conns, NEW t \in Signatures
        PROVE  Subscribed(d, t)' <=> Subscribed(d, t) /\ <<d, t>> # <<c, s>>
    BY <1>5, <1>6
  <2>3. Subs' = Subs \ {<<c, s>>}
    BY <2>2 DEF Subs
  <2>4. QED  BY <1>c, <1>2, <2>1, <2>3 DEF Abstract!Unsubscribe
<1>7. CASE ~(c \in Conns /\ Subscribed(c, s) /\ ~Subscribed(c, s)')
  <2>1. ASSUME NEW d \in Conns, NEW t \in Signatures
        PROVE  Subscribed(d, t)' <=> Subscribed(d, t)
    BY <1>5, <1>7
  <2>2. Subs' = Subs
    BY <2>1 DEF Subs
  <2>3. QED  BY <1>2, <2>2
<1>8. QED  BY <1>6, <1>7

\* A connection takes its own subscriptions with it and no other.
LEMMA DropSimulation ==
    ASSUME RegistryInv, NEW c \in Conns, DeleteConnection(c)
    PROVE  Abstract!Drop(c)
<1>1. c \in Known /\ Known' = Known \ {c}
  BY DEF DeleteConnection, Known, RegistryInv, TypeOK
<1>2. \A h \in Handlers, d \in Conns :
        listeners'[h][d] = IF d = c THEN 0 ELSE listeners[h][d]
  <2>1. ASSUME NEW h \in Handlers
        PROVE  Minus(listeners[h][c], wired[h][c]) = 0
    BY MinusBounds DEF RegistryInv, TypeOK, ListenersAreWired
  <2>2. listeners' = [h \in Handlers |->
            [listeners[h] EXCEPT ![c] = Minus(@, wired[h][c])]]
    BY DEF DeleteConnection
  <2>3. QED  BY <2>1, <2>2 DEF RegistryInv, TypeOK
<1>3. ASSUME NEW d \in Conns, NEW t \in Signatures
      PROVE  Subscribed(d, t)' <=> Subscribed(d, t) /\ d # c
  BY <1>2 DEF Subscribed, DeleteConnection
<1>4. Subs' = {p \in Subs : p[1] # c}
  BY <1>3 DEF Subs
<1>5. QED  BY <1>1, <1>4 DEF Abstract!Drop, DeleteConnection, ForgetIds

\* A handler that is deleted lists nobody.
LEMMA DeleteHandlerStutters ==
    ASSUME RegistryInv, NEW h \in Handlers, DeleteHandler(h)
    PROVE  UNCHANGED <<Known, longLived, Subs>>
<1>1. \A g \in Handlers, d \in Conns :
        /\ listeners'[g][d] = listeners[g][d]
        /\ signature'[g] = signature[g] \/ listeners[g][d] = 0
  BY DEF DeleteHandler, RegistryInv, TypeOK, OnlyLiveHandlersList, NoListener
<1>2. \A d \in Conns, t \in Signatures : Subscribed(d, t)' <=> Subscribed(d, t)
  BY <1>1 DEF Subscribed, DeleteHandler, RegistryInv, TypeOK
<1>3. QED  BY <1>2 DEF Subs, Known, DeleteHandler

\* The registry implements Subscriptions: each operation of the server is one
\* operation of the abstract registry, or changes nothing in it.
THEOREM RegistryImplementsSubscriptions == Spec => ImplementsSubscriptions
<1>1. Init => Abstract!Init
  BY DEF Init, Abstract!Init, Known, Subs, Subscribed
<1>2. RegistryInv /\ [Next]_vars => [Abstract!Next]_<<Known, longLived, Subs>>
  <2> SUFFICES ASSUME RegistryInv, [Next]_vars
               PROVE  Abstract!Next \/ UNCHANGED <<Known, longLived, Subs>>
    OBVIOUS
  <2>1. ASSUME NEW c \in Conns,
               OpenConnection(c) \/ DeleteConnection(c)
               \/ \E id \in Ids : InitializeConnection(c, id)
        PROVE  Abstract!Next
    BY <2>1, OpenSimulation, DropSimulation, RegisterSimulation DEF Abstract!Next
  <2>2. ASSUME NEW c \in Conns, CloseConnection(c)
        PROVE  UNCHANGED <<Known, longLived, Subs>>
    BY <2>2 DEF CloseConnection, Known, Subs, Subscribed, RegistryInv, TypeOK
  <2>3. ASSUME NEW s \in Signatures, NEW id \in Ids, HandleSignalRequest(s, id)
        PROVE  Abstract!Next
    BY <2>3, SubscribeSimulation DEF Abstract!Next
  <2>4. ASSUME NEW s \in Signatures, NEW id \in Ids, HandleSignalDisconnect(s, id)
        PROVE  Abstract!Next \/ UNCHANGED <<Known, longLived, Subs>>
    BY <2>4, UnsubscribeSimulation DEF Abstract!Next
  <2>5. ASSUME NEW h \in Handlers, DeleteHandler(h)
        PROVE  UNCHANGED <<Known, longLived, Subs>>
    BY <2>5, DeleteHandlerStutters
  <2>6. CASE UNCHANGED vars
    BY <2>6 DEF vars, Known, Subs, Subscribed
  <2>7. QED  BY <2>1, <2>2, <2>3, <2>4, <2>5, <2>6 DEF Next
<1>3. QED  BY <1>1, <1>2, RegistryInvariant, PTL DEF Spec, ImplementsSubscriptions, Abstract!Spec

-----------------------------------------------------------------------------
(* Prompt deletions                                                        *)

\* While deletions are prompt no handler is created under the signature of a
\* doomed one, so the second destroyed(m_signature) of a doomed handler finds
\* nothing to unregister.
DoomedSignaturesFree ==
    \A h \in Handlers : handlerState[h] = "doomed" => registered[signature[h]] = NoHandler

PromptInv == RegistryInv /\ LiveHandlerRegistered /\ DoomedSignaturesFree

LEMMA PromptDisconnect ==
    ASSUME PromptInv, NEW s \in Signatures, NEW id \in Ids, HandleSignalDisconnect(s, id)
    PROVE  LiveHandlerRegistered' /\ DoomedSignaturesFree'
<1> DEFINE h == registered[s]
           finished == IF NoListener(RemoveOne(listeners[h], longLived[id])) THEN {h} ELSE {}
<1>1. h \in Handlers /\ handlerState[h] = "live" /\ signature[h] = s
  BY DEF HandleSignalDisconnect, PromptInv, RegistryInv, TypeOK, RegisteredHandlerInUse
<1>2. /\ registered' = [t \in Signatures |->
            IF \E g \in finished : signature[g] = t THEN NoHandler ELSE registered[t]]
      /\ handlerState' = [g \in Handlers |->
            IF g \in finished THEN "doomed" ELSE handlerState[g]]
      /\ signature' = signature
  BY DEF HandleSignalDisconnect, RemoveListener, EmitDestroyed
<1>3. finished \subseteq {h}
  OBVIOUS
<1> HIDE DEF h, finished
<1>4. \A g \in Handlers : handlerState[g] # "none" => signature[g] \in Signatures
  BY DEF PromptInv, RegistryInv, TypeOK, HandlersSigned
<1>5. QED
  BY <1>1, <1>2, <1>3, <1>4 DEF PromptInv, LiveHandlerRegistered, DoomedSignaturesFree, h

LEMMA PromptDeleteConnection ==
    ASSUME PromptInv, NEW c \in Conns, DeleteConnection(c)
    PROVE  LiveHandlerRegistered' /\ DoomedSignaturesFree'
<1> DEFINE finished == {h \in Handlers : wired[h][c] > 0 /\ NoListener(listeners'[h])}
<1>1. /\ registered' = [s \in Signatures |->
            IF \E h \in finished : signature[h] = s THEN NoHandler ELSE registered[s]]
      /\ handlerState' = [h \in Handlers |->
            IF h \in finished THEN "doomed" ELSE handlerState[h]]
      /\ signature' = signature
  BY DEF DeleteConnection, EmitDestroyed
<1>2. \A h \in finished : handlerState[h] \in {"live", "doomed"}
  BY DEF PromptInv, RegistryInv, TypeOK, HandlersSigned
<1> HIDE DEF finished
<1>3. \A h \in Handlers : handlerState[h] # "none" => signature[h] \in Signatures
  BY DEF PromptInv, RegistryInv, TypeOK, HandlersSigned
<1>4. finished \subseteq Handlers
  BY DEF finished
<1>5. LiveHandlerRegistered'
  BY <1>1, <1>2, <1>3, <1>4, NullAssumption
  DEF PromptInv, LiveHandlerRegistered, DoomedSignaturesFree
<1>6. DoomedSignaturesFree'
  BY <1>1, <1>2, <1>3, <1>4 DEF PromptInv, DoomedSignaturesFree
<1>7. QED  BY <1>5, <1>6

\* When deletions are prompt, a handler in service is the one registered
\* under its signature.
THEOREM PromptHandlersRegistered == PromptSpec => []LiveHandlerRegistered
<1>1. Init => PromptInv
  BY InitRegistryInv
  DEF Init, PromptInv, LiveHandlerRegistered, DoomedSignaturesFree
<1>2. PromptInv /\ [PromptNext]_vars => PromptInv'
  <2> SUFFICES ASSUME PromptInv, [PromptNext]_vars
               PROVE  PromptInv'
    OBVIOUS
  <2>1. RegistryInv'
    BY NextRegistryInv DEF PromptInv, PromptNext, Next
  <2> SUFFICES LiveHandlerRegistered' /\ DoomedSignaturesFree'
    BY <2>1 DEF PromptInv
  <2>2. ASSUME NEW c \in Conns, DeleteConnection(c)
        PROVE  LiveHandlerRegistered' /\ DoomedSignaturesFree'
    BY <2>2, PromptDeleteConnection
  <2>3. ASSUME NEW h \in Handlers, DeleteHandler(h)
        PROVE  LiveHandlerRegistered' /\ DoomedSignaturesFree'
    BY <2>3
    DEF DeleteHandler, PromptInv, RegistryInv, TypeOK, LiveHandlerRegistered,
        DoomedSignaturesFree
  <2>4. ASSUME NEW s \in Signatures, NEW id \in Ids, HandleSignalDisconnect(s, id)
        PROVE  LiveHandlerRegistered' /\ DoomedSignaturesFree'
    BY <2>4, PromptDisconnect
  <2>5. ASSUME ~DeletionPending, NEW s \in Signatures, NEW id \in Ids,
               HandleSignalRequest(s, id)
        PROVE  LiveHandlerRegistered' /\ DoomedSignaturesFree'
    <3>1. CASE SubscribeToExisting(s, id)
      BY <3>1
      DEF SubscribeToExisting, PromptInv, LiveHandlerRegistered, DoomedSignaturesFree
    <3>2. CASE SubscribeToNew(s, id)
      <4>1. \A h \in Handlers : handlerState[h] # "doomed"
        BY <2>5 DEF DeletionPending
      <4>2. PICK h \in Handlers :
              /\ handlerState' = [handlerState EXCEPT ![h] = "live"]
              /\ signature' = [signature EXCEPT ![h] = s]
              /\ registered' = [registered EXCEPT ![s] = h]
              /\ registered[s] = NoHandler
        BY <3>2 DEF SubscribeToNew
      <4>3. DoomedSignaturesFree'
        BY <4>1, <4>2 DEF PromptInv, RegistryInv, TypeOK, DoomedSignaturesFree
      <4>4. LiveHandlerRegistered'
        BY <4>2, NullAssumption
        DEF PromptInv, RegistryInv, TypeOK, HandlersSigned, LiveHandlerRegistered
      <4>5. QED  BY <4>3, <4>4
    <3>3. QED  BY <2>5, <3>1, <3>2 DEF HandleSignalRequest
  <2>6. ASSUME UNCHANGED <<registered, handlerState, signature>>
        PROVE  LiveHandlerRegistered' /\ DoomedSignaturesFree'
    BY <2>6 DEF PromptInv, LiveHandlerRegistered, DoomedSignaturesFree
  <2>7. ASSUME NEW c \in Conns,
               \/ OpenConnection(c) \/ CloseConnection(c)
               \/ \E id \in Ids : InitializeConnection(c, id)
        PROVE  LiveHandlerRegistered' /\ DoomedSignaturesFree'
    BY <2>6, <2>7 DEF OpenConnection, CloseConnection, InitializeConnection
  <2>8. QED
    BY <2>2, <2>3, <2>4, <2>5, <2>6, <2>7 DEF PromptNext, Next, vars
<1>3. QED  BY <1>1, <1>2, PTL DEF PromptSpec, PromptInv
=============================================================================
