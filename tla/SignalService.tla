--------------------------- MODULE SignalService ---------------------------
(***************************************************************************)
(* The server's registry of remote-signal subscriptions: CuteIPCService    *)
(* (with its private part), its CuteIPCServiceConnection objects and its   *)
(* CuteIPCSignalHandler objects.                                           *)
(*                                                                         *)
(* Everything here runs in the server's one thread.  An action is one slot *)
(* run to completion.  deleteLater() only dooms an object; the deletion    *)
(* itself is an action of its own.  Doomed objects may be deleted in any   *)
(* order and at any later moment: Qt deletes them when control returns to  *)
(* the event loop that was running when they were doomed, and an invoked   *)
(* method of the subject may run event loops of its own (as                *)
(* ServiceTestObject::testCallWithRemoteSignal does), so an object doomed  *)
(* later, inside such a loop, goes before one doomed earlier outside it.   *)
(*                                                                         *)
(* A member of Conns or Handlers is an address: "none" when no object      *)
(* lives there, and free to be used again after a deletion.                *)
(***************************************************************************)
EXTENDS Naturals

CONSTANTS
    Conns,       \* addresses of CuteIPCServiceConnection objects
    Handlers,    \* addresses of CuteIPCSignalHandler objects
    Ids,         \* connection ids, the strings clients choose
    Signatures,  \* signal signatures that clients ask for
    Exposed,     \* those the subject's meta object really has
    NoConn,      \* the null connection pointer
    NoHandler,   \* the null handler pointer
    NoSignature, \* m_signature of an address that holds no handler
    MaxWired     \* bound: Qt connections between one handler and one listener

ASSUME ExposedAssumption == Exposed \subseteq Signatures
ASSUME NullAssumption == /\ NoConn \notin Conns
                         /\ NoHandler \notin Handlers
                         /\ NoSignature \notin Signatures
ASSUME MaxWiredAssumption == MaxWired \in Nat

VARIABLES
    connState,    \* life of each connection object
    longLived,    \* m_longLivedConnections: id -> connection
    registered,   \* m_signalHandlers: signature -> handler
    handlerState, \* life of each handler object
    signature,    \* m_signature of each handler
    listeners,    \* m_listeners of each handler, as a multiset
    wired         \* the Qt connections addListener has made, per handler and
                  \* listener: signalCaptured -> sendSignal, and with it
                  \* destroyed -> listenerDestroyed

vars == <<connState, longLived, registered, handlerState, signature, listeners, wired>>

TypeOK ==
    /\ connState \in [Conns -> {"none", "open", "doomed"}]
    /\ longLived \in [Ids -> Conns \cup {NoConn}]
    /\ registered \in [Signatures -> Handlers \cup {NoHandler}]
    /\ handlerState \in [Handlers -> {"none", "live", "doomed"}]
    /\ signature \in [Handlers -> Signatures \cup {NoSignature}]
    /\ listeners \in [Handlers -> [Conns -> 0..MaxWired]]
    /\ wired \in [Handlers -> [Conns -> 0..MaxWired]]

Init ==
    /\ connState = [c \in Conns |-> "none"]
    /\ longLived = [id \in Ids |-> NoConn]
    /\ registered = [s \in Signatures |-> NoHandler]
    /\ handlerState = [h \in Handlers |-> "none"]
    /\ signature = [h \in Handlers |-> NoSignature]
    /\ listeners = [h \in Handlers |-> [c \in Conns |-> 0]]
    /\ wired = [h \in Handlers |-> [c \in Conns |-> 0]]

-----------------------------------------------------------------------------
(* Connections                                                             *)

\* A socket is accepted.  An object whose socket cannot be opened dooms
\* itself in its constructor.
OpenConnection(c) ==
    /\ connState[c] = "none"
    /\ \E opened \in BOOLEAN :
          connState' = [connState EXCEPT ![c] = IF opened THEN "open" ELSE "doomed"]
    /\ UNCHANGED <<longLived, registered, handlerState, signature, listeners, wired>>

\* The peer closes, or the socket reports an error: the object is doomed.
CloseConnection(c) ==
    /\ connState[c] = "open"
    /\ connState' = [connState EXCEPT ![c] = "doomed"]
    /\ UNCHANGED <<longLived, registered, handlerState, signature, listeners, wired>>

\* Mutant: an id that is taken stays with the connection that took it first.
InitializeConnectionOnce(c, id) ==
    /\ connState[c] = "open"
    /\ longLived' = [longLived EXCEPT ![id] = IF @ = NoConn THEN c ELSE @]
    /\ UNCHANGED <<connState, registered, handlerState, signature, listeners, wired>>

\* ConnectionInitialize, the first message on a long-lived connection.
\* Whoever registers an id last owns it.
InitializeConnection(c, id) ==
    /\ connState[c] = "open"
    /\ longLived' = [longLived EXCEPT ![id] = c]
    /\ UNCHANGED <<connState, registered, handlerState, signature, listeners, wired>>

-----------------------------------------------------------------------------
(* Signal requests.  They arrive on a socket of their own and name the     *)
(* long-lived connection by its id.                                        *)

Accepts(s, id) == s \in Exposed /\ longLived[id] # NoConn

\* Mutant: connected twice.
AddListenerTwice(h, c) ==
    /\ wired[h][c] + 1 < MaxWired
    /\ listeners' = [listeners EXCEPT ![h][c] = @ + 1]
    /\ wired' = [wired EXCEPT ![h][c] = @ + 2]

\* One entry in the list and one pair of Qt connections, even for a connection
\* that is in the list already.
AddListener(h, c) ==
    /\ wired[h][c] < MaxWired
    /\ listeners' = [listeners EXCEPT ![h][c] = @ + 1]
    /\ wired' = [wired EXCEPT ![h][c] = @ + 1]

SubscribeToExisting(s, id) ==
    /\ Accepts(s, id)
    /\ registered[s] # NoHandler
    /\ AddListener(registered[s], longLived[id])
    /\ UNCHANGED <<connState, longLived, registered, handlerState, signature>>

SubscribeToNew(s, id) ==
    /\ Accepts(s, id)
    /\ registered[s] = NoHandler
    /\ \E h \in Handlers :
          /\ handlerState[h] = "none"
          /\ handlerState' = [handlerState EXCEPT ![h] = "live"]
          /\ signature' = [signature EXCEPT ![h] = s]
          /\ registered' = [registered EXCEPT ![s] = h]
          /\ AddListener(h, longLived[id])
    /\ UNCHANGED <<connState, longLived>>

HandleSignalRequest(s, id) == SubscribeToExisting(s, id) \/ SubscribeToNew(s, id)

\* Mutant: the comparison inverted.
RemoveOthers(list, c) ==
    [d \in Conns |-> IF d # c /\ list[d] > 0 THEN list[d] - 1 ELSE list[d]]

\* m_listeners after removeOne(c); the null pointer is never in the list.
RemoveOne(list, c) ==
    [d \in Conns |-> IF d = c /\ list[d] > 0 THEN list[d] - 1 ELSE list[d]]

NoListener(list) == \A c \in Conns : list[c] = 0

\* Mutant: a finished handler stays registered until it is deleted.
DoomOnly(finished) ==
    /\ registered' = registered
    /\ handlerState' = [h \in Handlers |->
          IF h \in finished THEN "doomed" ELSE handlerState[h]]

\* Mutant: the end of a handler clears m_signalHandlers.
EmitDestroyedAll(finished) ==
    /\ registered' = [s \in Signatures |->
          IF finished # {} THEN NoHandler ELSE registered[s]]
    /\ handlerState' = [h \in Handlers |->
          IF h \in finished THEN "doomed" ELSE handlerState[h]]

\* destroyed(m_signature) unregisters by signature, whichever handler is
\* registered under it; deleteLater() dooms the emitter.
EmitDestroyed(finished) ==
    /\ registered' = [s \in Signatures |->
          IF \E h \in finished : signature[h] = s THEN NoHandler ELSE registered[s]]
    /\ handlerState' = [h \in Handlers |->
          IF h \in finished THEN "doomed" ELSE handlerState[h]]

\* Mutant: the list may become empty unnoticed.
RemoveListenerOnly(h, c) ==
    /\ listeners' = [listeners EXCEPT ![h] = RemoveOne(listeners[h], c)]
    /\ EmitDestroyed({})

\* The signalCaptured -> sendSignal connection stays: wired is unchanged.
RemoveListener(h, c) ==
    LET left == RemoveOne(listeners[h], c) IN
    /\ listeners' = [listeners EXCEPT ![h] = left]
    /\ EmitDestroyed(IF NoListener(left) THEN {h} ELSE {})

HandleSignalDisconnect(s, id) ==
    /\ registered[s] # NoHandler
    /\ RemoveListener(registered[s], longLived[id])
    /\ UNCHANGED <<connState, longLived, signature, wired>>

-----------------------------------------------------------------------------
(* Deferred deletions                                                      *)

\* Mutant: listenerDestroyed takes an entry it has not found.
MinusUnchecked(m, n) == m - n

Minus(m, n) == IF m > n THEN m - n ELSE 0

\* Mutant: the search stops at the first id that maps to the object.
ForgetOneId(c) ==
    LET found == {id \in Ids : longLived[id] = c} IN
    longLived' = [id \in Ids |->
        IF found # {} /\ id = CHOOSE i \in found : TRUE THEN NoConn ELSE longLived[id]]

\* _q_connectionDestroyed searches the ids by value.
ForgetIds(c) ==
    longLived' = [id \in Ids |-> IF longLived[id] = c THEN NoConn ELSE longLived[id]]

\* ~CuteIPCServiceConnection emits destroyed(QObject*): the service forgets
\* every id that maps to the object, and listenerDestroyed runs once per
\* connection addListener made, in every handler that has one, doomed
\* handlers included.  Qt then drops the connections.
DeleteConnection(c) ==
    /\ connState[c] = "doomed"
    /\ connState' = [connState EXCEPT ![c] = "none"]
    /\ ForgetIds(c)
    /\ listeners' = [h \in Handlers |->
          [listeners[h] EXCEPT ![c] = Minus(@, wired[h][c])]]
    /\ wired' = [h \in Handlers |-> [wired[h] EXCEPT ![c] = 0]]
    /\ EmitDestroyed({h \in Handlers : wired[h][c] > 0 /\ NoListener(listeners'[h])})
    /\ UNCHANGED signature

DeleteHandler(h) ==
    /\ handlerState[h] = "doomed"
    /\ handlerState' = [handlerState EXCEPT ![h] = "none"]
    /\ signature' = [signature EXCEPT ![h] = NoSignature]
    /\ listeners' = [listeners EXCEPT ![h] = [c \in Conns |-> 0]]
    /\ wired' = [wired EXCEPT ![h] = [c \in Conns |-> 0]]
    /\ UNCHANGED <<connState, longLived, registered>>

Next ==
    \/ \E c \in Conns :
          \/ OpenConnection(c)
          \/ CloseConnection(c)
          \/ DeleteConnection(c)
          \/ \E id \in Ids : InitializeConnection(c, id)
    \/ \E s \in Signatures, id \in Ids :
          \/ HandleSignalRequest(s, id)
          \/ HandleSignalDisconnect(s, id)
    \/ \E h \in Handlers : DeleteHandler(h)

Spec == Init /\ [][Next]_vars

\* The same server when it deletes what it has doomed before anything else
\* happens: one event per pass of the event loop, and no nested loop.
DeletionPending ==
    \/ \E c \in Conns : connState[c] = "doomed"
    \/ \E h \in Handlers : handlerState[h] = "doomed"

PromptNext ==
    \/ ~DeletionPending /\ Next
    \/ \E c \in Conns : DeleteConnection(c)
    \/ \E h \in Handlers : DeleteHandler(h)

PromptSpec == Init /\ [][PromptNext]_vars

-----------------------------------------------------------------------------
(* Relaying.  Every handler object is connected to the subject's signal    *)
(* until it is deleted, so a doomed one still relays.                      *)

Relays(h, c) == handlerState[h] # "none" /\ wired[h][c] > 0

-----------------------------------------------------------------------------
(* Properties                                                              *)

\* Every connection pointer the registry keeps, in m_longLivedConnections or
\* in a handler's list, points to an object that has not been deleted, so
\* that addListener, removeListener and sendAboutToQuit never touch a dead
\* connection (they use the pointers without checking them).
NoDanglingPointers ==
    /\ \A id \in Ids : longLived[id] # NoConn => connState[longLived[id]] # "none"
    /\ \A h \in Handlers, c \in Conns : listeners[h][c] > 0 => connState[c] # "none"

\* m_signalHandlers maps a signature only to a handler of that signature that
\* is not waiting to be deleted and that somebody listens to: a request never
\* joins a handler about to vanish.
RegisteredHandlerInUse ==
    \A s \in Signatures : registered[s] # NoHandler =>
        LET h == registered[s] IN
        /\ handlerState[h] = "live"
        /\ signature[h] = s
        /\ ~NoListener(listeners[h])

\* No handler is kept for nobody: a handler that has lost its last listener is
\* on its way out, so the subject's signal is not marshalled in vain for ever.
NoIdleHandler ==
    \A h \in Handlers : handlerState[h] = "live" => ~NoListener(listeners[h])

\* A listed connection is wired to its handler: a subscriber the server counts
\* gets the signals, and its death reaches listenerDestroyed once per entry.
ListenersAreWired ==
    \A h \in Handlers, c \in Conns : listeners[h][c] <= wired[h][c]

\* A handler in service can be found again, which is what a later disconnect
\* request needs.  It takes prompt deletions (PromptSpec) and fails under Spec: a
\* doomed handler that is still wired to a connection emits
\* destroyed(m_signature) once more when the connection is deleted, and
\* unregisters its successor.
LiveHandlerRegistered ==
    \A h \in Handlers : handlerState[h] = "live" => registered[signature[h]] = h

\* The registry implements the plain set of subscriptions: every begin and end
\* of a subscription is asked for by the client it belongs to, or comes with
\* the end of that client's connection, however many handlers, duplicate
\* entries and pending deletions stand behind it.
Subscribed(c, s) ==
    \E h \in Handlers : signature[h] = s /\ listeners[h][c] > 0

Known == {c \in Conns : connState[c] # "none"}
Subs == {p \in Conns \X Signatures : Subscribed(p[1], p[2])}

Abstract == INSTANCE Subscriptions WITH known <- Known, route <- longLived, subs <- Subs

ImplementsSubscriptions == Abstract!Spec
=============================================================================
