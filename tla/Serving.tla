------------------------------ MODULE Serving ------------------------------
(***************************************************************************)
(* Who answers where: services that listen, close and end, the object      *)
(* (the subject) they serve, and clients that remember addresses.          *)
(*                                                                         *)
(* A CuteIPCService has a local server and a TCP server, each made when it *)
(* is first told to listen.  What Qt and the system do is external: a      *)
(* local name is a file that leads to the server that made it last, stays  *)
(* behind when its program is killed and goes when any server of that name *)
(* closes; a TCP port belongs to one server at a time.  A client has one   *)
(* long-lived connection, and opens a socket for every synchronous         *)
(* request, to an address it remembers.                                    *)
(***************************************************************************)
EXTENDS FiniteSets

CONSTANTS
    Services, Nobody,
    Names, Ports,        \* local and TCP addresses
    NoServer, Idle,      \* a null server pointer, and a server that does not listen
    Subjects, NoSubject, \* objects with methods and signals
    Clients, NoAddress,
    Contested            \* names where one may listen while another service does

ASSUME ContestedAssumption == Contested \subseteq Names
ASSUME AddressesAssumption ==
    /\ Names \cap Ports = {}
    /\ {NoServer, Idle, NoAddress} \cap (Names \cup Ports) = {}
    /\ Nobody \notin Services /\ NoSubject \notin Subjects /\ NoServer # Idle

Addresses == Names \cup Ports
NoLink == [service |-> Nobody, address |-> NoAddress, subject |-> NoSubject]

VARIABLES
    m_localServer, m_tcpServer, \* of each service: the address listened at
    m_subject,
    owner,       \* the server that each address leads to, if it still listens
    asked,       \* where each service should be found, by what it was told, and
    replaced,    \* whether it has been told another subject (history)
    localName,   \* m_localServer and
    tcpAddress,  \* m_tcpAddress of each client
    failed,      \* whether its last connectToServer returned false (history)
    link         \* its long-lived connection, and the subject that got

serviceVars == <<m_localServer, m_tcpServer, m_subject, owner, asked, replaced>>
clientVars == <<localName, tcpAddress, failed>>
vars == <<serviceVars, clientVars, link>>

TypeOK ==
    /\ m_localServer \in [Services -> Names \cup {NoServer, Idle}]
    /\ m_tcpServer \in [Services -> Ports \cup {NoServer, Idle}]
    /\ m_subject \in [Services -> Subjects \cup {NoSubject}]
    /\ owner \in [Addresses -> Services \cup {Nobody}]
    /\ asked \in [Services -> SUBSET Addresses]
    /\ replaced \in [Services -> BOOLEAN]
    /\ localName \in [Clients -> Names \cup {NoAddress}]
    /\ tcpAddress \in [Clients -> Ports \cup {NoAddress}]
    /\ failed \in [Clients -> BOOLEAN]
    /\ link \in [Clients -> [service : Services, address : Addresses,
                             subject : Subjects \cup {NoSubject}] \cup {NoLink}]

Init ==
    /\ m_localServer = [sv \in Services |-> NoServer]
    /\ m_tcpServer = [sv \in Services |-> NoServer]
    /\ m_subject = [sv \in Services |-> NoSubject]
    /\ owner = [a \in Addresses |-> Nobody]
    /\ asked = [sv \in Services |-> {}]
    /\ replaced = [sv \in Services |-> FALSE]
    /\ localName = [cl \in Clients |-> NoAddress]
    /\ tcpAddress = [cl \in Clients |-> NoAddress]
    /\ failed = [cl \in Clients |-> FALSE]
    /\ link = [cl \in Clients |-> NoLink]

-----------------------------------------------------------------------------
(* Services                                                                *)

Listens(sv, a) == a \in {m_localServer[sv], m_tcpServer[sv]}

\* Who accepts a socket that connects to the address.
Answers(a) ==
    IF a # NoAddress /\ owner[a] # Nobody /\ Listens(owner[a], a) THEN owner[a] ELSE Nobody

\* Mutant: a name that is taken is not tried again.
ListenOnce(sv, a) ==
    IF m_localServer[sv] \in Names \/ owner[a] # Nobody
    THEN UNCHANGED <<m_localServer, owner>>
    ELSE /\ m_localServer' = [m_localServer EXCEPT ![sv] = a]
         /\ owner' = [owner EXCEPT ![a] = sv]

\* QLocalServer::listen; when it fails, because the server listens already or
\* the name is taken, removeServer takes the name away from whoever has it and
\* listen is tried again, which helps in the second case only.
ListenOrRemove(sv, a) ==
    IF m_localServer[sv] \in Names
    THEN /\ owner' = [owner EXCEPT ![a] = Nobody]
         /\ UNCHANGED m_localServer
    ELSE /\ m_localServer' = [m_localServer EXCEPT ![sv] = a]
         /\ owner' = [owner EXCEPT ![a] = sv]

\* The subject is replaced whether or not the server listens.
SetSubject(sv, subject) ==
    /\ m_subject' = [m_subject EXCEPT ![sv] = subject]
    /\ replaced' = [replaced EXCEPT ![sv] = @ \/ m_subject[sv] \notin {subject, NoSubject}]

\* A service that listens at a name stays there; told that name again, it loses it.
Listen(sv, a, subject) ==
    /\ a \in Contested \/ \A other \in Services \ {sv} : m_localServer[other] # a
    /\ ListenOrRemove(sv, a)
    /\ asked' = [asked EXCEPT ![sv] =
          IF m_localServer[sv] \in Names THEN @ \ {a} ELSE @ \cup {a}]
    /\ SetSubject(sv, subject)
    /\ UNCHANGED <<m_tcpServer, clientVars, link>>

\* QTcpServer::listen fails when the server listens already or the port is taken.
ListenTcp(sv, a, subject) ==
    /\ IF m_tcpServer[sv] \in Ports \/ owner[a] # Nobody
       THEN /\ m_tcpServer' = [m_tcpServer EXCEPT ![sv] = IF @ = NoServer THEN Idle ELSE @]
            /\ UNCHANGED owner
       ELSE /\ m_tcpServer' = [m_tcpServer EXCEPT ![sv] = a]
            /\ owner' = [owner EXCEPT ![a] = sv]
    /\ asked' = [asked EXCEPT ![sv] =
          IF m_tcpServer[sv] \in Ports \/ \E other \in Services : m_tcpServer[other] = a
          THEN @ ELSE @ \cup {a}]
    /\ SetSubject(sv, subject)
    /\ UNCHANGED <<m_localServer, clientVars, link>>

\* A server that closes frees its address, and drops the sockets it has not
\* handed out yet.
Free(sv, address) ==
    /\ owner' = [a \in Addresses |-> IF a = address THEN Nobody ELSE owner[a]]
    /\ link' = [cl \in Clients |->
          IF link[cl] = [service |-> sv, address |-> address, subject |-> NoSubject]
          THEN NoLink ELSE link[cl]]

\* The connections there are stay.
CloseLocal(sv) ==
    /\ m_localServer[sv] # NoServer
    /\ m_localServer' = [m_localServer EXCEPT ![sv] = Idle]
    /\ Free(sv, m_localServer[sv])
    /\ UNCHANGED m_tcpServer

CloseTcp(sv) ==
    /\ m_tcpServer[sv] # NoServer
    /\ m_tcpServer' = [m_tcpServer EXCEPT ![sv] = Idle]
    /\ Free(sv, m_tcpServer[sv])
    /\ UNCHANGED m_localServer

\* The TCP server only when there is no local one.
Close(sv) ==
    /\ CloseLocal(sv) \/ (m_localServer[sv] = NoServer /\ CloseTcp(sv))
    /\ asked' = [asked EXCEPT ![sv] = {}]
    /\ UNCHANGED <<m_subject, replaced, clientVars>>

\* The service is gone, and another may take its place.
Gone(sv, freed) ==
    /\ m_localServer' = [m_localServer EXCEPT ![sv] = NoServer]
    /\ m_tcpServer' = [m_tcpServer EXCEPT ![sv] = NoServer]
    /\ m_subject' = [m_subject EXCEPT ![sv] = NoSubject]
    /\ asked' = [asked EXCEPT ![sv] = {}]
    /\ replaced' = [replaced EXCEPT ![sv] = FALSE]
    /\ owner' = [a \in Addresses |-> IF a \in freed THEN Nobody ELSE owner[a]]
    /\ link' = [cl \in Clients |-> IF link[cl].service = sv THEN NoLink ELSE link[cl]]
    /\ UNCHANGED clientVars

Running(sv) == m_localServer[sv] # NoServer \/ m_tcpServer[sv] # NoServer

\* ~CuteIPCService: its servers and sockets are its children, or theirs.
Destroy(sv) == Running(sv) /\ Gone(sv, {m_localServer[sv], m_tcpServer[sv]})

\* The file of a local server stays.
Kill(sv) == Running(sv) /\ Gone(sv, {m_tcpServer[sv]})

\* _q_newLocalConnection, _q_newTcpConnection
NewConnection(cl) ==
    /\ link[cl] # NoLink /\ link[cl].subject = NoSubject
    /\ link' = [link EXCEPT ![cl].subject = m_subject[link[cl].service]]
    /\ UNCHANGED <<serviceVars, clientVars>>

-----------------------------------------------------------------------------
(* Clients                                                                 *)

\* Mutant: m_connection is set before it is known whether there is one.
LinkAnyway(cl, a) ==
    link' = [link EXCEPT ![cl] = [service |-> Answers(a), address |-> a, subject |-> NoSubject]]

\* A failed attempt leaves the connection there is; a successful one replaces it.
Link(cl, a) ==
    link' = [link EXCEPT ![cl] =
        IF Answers(a) = Nobody THEN @
        ELSE [service |-> Answers(a), address |-> a, subject |-> NoSubject]]

\* Mutant: the first address is kept.
KeepFirst(old, a) == IF old = NoAddress THEN a ELSE old

\* The address is set, whether or not the attempt succeeds.
Remember(old, a) == a

ConnectToServer(cl, a) ==
    /\ Link(cl, a)
    /\ localName' = [localName EXCEPT ![cl] = Remember(@, a)]
    /\ failed' = [failed EXCEPT ![cl] = Answers(a) = Nobody]
    /\ UNCHANGED <<serviceVars, tcpAddress>>

ConnectToTcpServer(cl, a) ==
    /\ Link(cl, a)
    /\ tcpAddress' = [tcpAddress EXCEPT ![cl] = Remember(@, a)]
    /\ failed' = [failed EXCEPT ![cl] = Answers(a) = Nobody]
    /\ UNCHANGED <<serviceVars, localName>>

\* The addresses are not forgotten.
DisconnectFromServer(cl) ==
    /\ link[cl] # NoLink
    /\ link' = [link EXCEPT ![cl] = NoLink]
    /\ UNCHANGED <<serviceVars, clientVars>>

\* sendSynchronousRequest prefers the local address.
RequestAddress(cl) == IF localName[cl] # NoAddress THEN localName[cl] ELSE tcpAddress[cl]

-----------------------------------------------------------------------------

Next ==
    \/ \E sv \in Services :
          \/ \E subject \in Subjects :
                \/ \E a \in Names : Listen(sv, a, subject)
                \/ \E a \in Ports : ListenTcp(sv, a, subject)
          \/ Close(sv) \/ Destroy(sv) \/ Kill(sv)
    \/ \E cl \in Clients :
          \/ \E a \in Names : ConnectToServer(cl, a)
          \/ \E a \in Ports : ConnectToTcpServer(cl, a)
          \/ NewConnection(cl) \/ DisconnectFromServer(cl)

Spec == Init /\ [][Next]_vars

-----------------------------------------------------------------------------
(* Properties                                                              *)

\* A service is found where it was told to listen, also at a name whose last
\* owner was killed, and nowhere else, and no longer once it has been closed: but
\* for the port of a service that has ever listened at a name, which close leaves.
ListensAsTold ==
    \A sv \in Services, a \in Addresses :
        /\ a \in asked[sv] => Answers(a) = sv
        /\ Answers(a) = sv =>
              a \in asked[sv] \/ (a \in Ports /\ m_localServer[sv] # NoServer)

\* Whatever other clients and services do, a client's requests, which go to an
\* address it remembers, meet the service its long-lived connection leads to, as
\* long as that listens there as told: when the client's last connectToServer
\* returned true, and it has not come from a name to a port.  They meet the same
\* subject, too, unless that service has been given another.
OneCounterpart ==
    \A cl \in Clients :
        LET found == link[cl] IN
        /\ found # NoLink /\ found.address \in asked[found.service]
        /\ ~failed[cl] /\ (found.address \in Names \/ localName[cl] = NoAddress)
        => /\ Answers(RequestAddress(cl)) = found.service
           /\ replaced[found.service]
              \/ found.subject \in {m_subject[found.service], NoSubject}
=============================================================================
