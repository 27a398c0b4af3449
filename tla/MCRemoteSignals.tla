-------------------------- MODULE MCRemoteSignals --------------------------
(* Small instances of RemoteSignals.                                        *)
EXTENDS RemoteSignals, TLC

CONSTANTS c1, c2, c3, h1, h2, id1, id2, id3, s1, s2, r1, r2, cl1, cl2

\* Every client allocates in its own address space, and uses an address again.
OwnIds == [cl \in Clients |-> IF cl = cl1 THEN {id1, id3} \cap Ids ELSE {id2}]

\* Bounds on the calls of each client.
FourEach == [cl \in Clients |-> 4]
ThreeAndTwo == [cl \in Clients |-> IF cl = cl1 THEN 3 ELSE 2]

\* What both clients use.
Pairs == [cl \in Clients |->
            {"connectToServer", "disconnectFromServer", "remoteConnect", "disconnectSignal"}]
Reconnecting == [cl \in Clients |->
                   Pairs[cl] \cup {"connectAgain", "remoteConnectToSignal", "destroyReceiver",
                                   "destroyWaiting"}]

Symmetry == Permutations({c1, c2, c3}) \cup Permutations({h1, h2})
            \cup Permutations({r1, r2})
=============================================================================
