---------------------------- MODULE MCDelivery ----------------------------
(* Small instances of Delivery.                                           *)
EXTENDS Delivery, TLC

CONSTANTS c1, c2, c3, h1, h2, id1, id2, id3, s1, s2, r1, r2, cl1, cl2

OwnIds == [cl \in Clients |-> IF cl = cl1 THEN {id1, id3} \cap Ids ELSE {id2}]

\* Bounds on the calls of each client.
FourAndTwo == [cl \in Clients |-> IF cl = cl1 THEN 4 ELSE 2]

\* One client does everything but ask for a signal without a receiver; the
\* other subscribes, in every way.
Everything == {"connectToServer", "disconnectFromServer", "remoteConnect",
               "disconnectSignal", "destroyReceiver"}
Subscribing == {"connectToServer", "remoteConnect", "remoteConnectToSignal"}
Roles == [cl \in Clients |-> IF cl = cl1 THEN Everything ELSE Subscribing]

Symmetry == Permutations({c1, c2, c3} \cap Conns) \cup Permutations({h1, h2})
            \cup Permutations({r1, r2})
=============================================================================
