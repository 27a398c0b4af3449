--------------------------- MODULE Subscriptions ---------------------------
(***************************************************************************)
(* What the server's signal registry promises, without handlers, lists or  *)
(* deferred deletions: a set of subscriptions, each of one connection to   *)
(* one signal.  A subscription begins with a request that names the        *)
(* connection by its id and ends only with a request that does, or with    *)
(* the connection itself; what one client does never begins or ends the    *)
(* subscription of another.                                                *)
(***************************************************************************)
CONSTANTS Conns, Ids, Signatures, NoConn

VARIABLES
    known,  \* the connections that exist
    route,  \* the connection each id stands for
    subs    \* the subscriptions: pairs <<connection, signature>>

Init ==
    /\ known = {}
    /\ route = [id \in Ids |-> NoConn]
    /\ subs = {}

Open(c) ==
    /\ c \notin known
    /\ known' = known \cup {c}
    /\ UNCHANGED <<route, subs>>

Register(c, id) ==
    /\ c \in known
    /\ route' = [route EXCEPT ![id] = c]
    /\ UNCHANGED <<known, subs>>

Subscribe(s, id) ==
    /\ route[id] \in known
    /\ subs' = subs \cup {<<route[id], s>>}
    /\ UNCHANGED <<known, route>>

Unsubscribe(s, id) ==
    /\ route[id] \in known
    /\ subs' = subs \ {<<route[id], s>>}
    /\ UNCHANGED <<known, route>>

Drop(c) ==
    /\ c \in known
    /\ known' = known \ {c}
    /\ route' = [id \in Ids |-> IF route[id] = c THEN NoConn ELSE route[id]]
    /\ subs' = {p \in subs : p[1] # c}

Next ==
    \/ \E c \in Conns : Open(c) \/ Drop(c) \/ \E id \in Ids : Register(c, id)
    \/ \E s \in Signatures, id \in Ids : Subscribe(s, id) \/ Unsubscribe(s, id)

Spec == Init /\ [][Next]_<<known, route, subs>>
=============================================================================
