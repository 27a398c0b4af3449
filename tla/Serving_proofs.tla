--------------------------- MODULE Serving_proofs ---------------------------
(***************************************************************************)
(* Proofs about who answers where, for any services, clients, subjects and *)
(* addresses.                                                              *)
(*                                                                         *)
(* ListensAsTold is inductive only with what the system knows of each      *)
(* address: that one service at most listens at a name, that a port leads  *)
(* to the server that listens there and to no other; for a name, which     *)
(* leads to servers long gone, that need not be.  OneCounterpart then      *)
(* needs where the connection came from whose attempt succeeded last.      *)
(***************************************************************************)
EXTENDS Serving, TLAPS

ServiceTypes ==
    /\ m_localServer \in [Services -> Names \cup {NoServer, Idle}]
    /\ m_tcpServer \in [Services -> Ports \cup {NoServer, Idle}]
    /\ m_subject \in [Services -> Subjects \cup {NoSubject}]
    /\ owner \in [Addresses -> Services \cup {Nobody}]
    /\ asked \in [Services -> SUBSET Addresses]
    /\ replaced \in [Services -> BOOLEAN]

LinkType == [service : Services, address : Addresses, subject : Subjects \cup {NoSubject}]

ClientTypes ==
    /\ localName \in [Clients -> Names \cup {NoAddress}]
    /\ tcpAddress \in [Clients -> Ports \cup {NoAddress}]
    /\ failed \in [Clients -> BOOLEAN]
    /\ link \in [Clients -> LinkType \cup {NoLink}]

LEMMA TypesSplit ==
    /\ TypeOK <=> ServiceTypes /\ ClientTypes
    /\ TypeOK' <=> ServiceTypes' /\ ClientTypes'
  BY DEF TypeOK, ServiceTypes, ClientTypes, LinkType

LEMMA TypesStart == Init => TypeOK
  BY DEF Init, TypeOK

\* Whoever answers at an address is a service.
LEMMA AnswersType ==
    ASSUME ServiceTypes, NEW a \in Addresses
    PROVE  /\ Answers(a) \in Services \cup {Nobody}
           /\ Answers(a) # Nobody => owner[a] = Answers(a) /\ Listens(Answers(a), a)
  BY DEF Answers, ServiceTypes

LEMMA ListenTypes ==
    ASSUME TypeOK, NEW sv \in Services, NEW a \in Addresses, NEW subject \in Subjects,
           (a \in Names /\ Listen(sv, a, subject)) \/ (a \in Ports /\ ListenTcp(sv, a, subject))
    PROVE  TypeOK'
PROOF
  <1>0. ServiceTypes /\ ClientTypes
    BY TypesSplit
  <1>u. UNCHANGED <<localName, tcpAddress, failed, link>>
    BY DEF Listen, ListenTcp, clientVars
  <1>1. ClientTypes' /\ ServiceTypes
    BY <1>0, <1>u DEF ClientTypes
  <1>2. m_subject' \in [Services -> Subjects \cup {NoSubject}] /\ replaced' \in [Services -> BOOLEAN]
    <2>1. SetSubject(sv, subject)
      BY DEF Listen, ListenTcp
    <2> QED  BY <1>1, <2>1 DEF SetSubject, ServiceTypes
  <1>3. asked' \in [Services -> SUBSET Addresses]
    BY <1>1 DEF Listen, ListenTcp, ServiceTypes
  <1>4. CASE a \in Names /\ Listen(sv, a, subject)
    BY <1>1, <1>2, <1>3, <1>4, TypesSplit DEF Listen, ListenOrRemove, ServiceTypes
  <1>5. CASE a \in Ports /\ ListenTcp(sv, a, subject)
    BY <1>1, <1>2, <1>3, <1>5, TypesSplit DEF ListenTcp, ServiceTypes
  <1> QED  BY <1>4, <1>5

LEMMA CloseTypes ==
    ASSUME TypeOK, NEW sv \in Services, Close(sv)
    PROVE  TypeOK'
PROOF
  <1>1. PICK address : Free(sv, address)
    BY DEF Close, CloseLocal, CloseTcp
  <1>2. link' \in [Clients -> LinkType \cup {NoLink}] /\ owner' \in [Addresses -> Services \cup {Nobody}]
    BY <1>1, TypesSplit DEF Free, ClientTypes, ServiceTypes
  <1>3. ServiceTypes'
    BY <1>2, TypesSplit DEF Close, CloseLocal, CloseTcp, ServiceTypes
  <1> QED  BY <1>2, <1>3, TypesSplit DEF Close, clientVars, ClientTypes

LEMMA GoneTypes ==
    ASSUME TypeOK, NEW sv \in Services, NEW freed, Gone(sv, freed)
    PROVE  TypeOK'
  BY TypesSplit DEF Gone, clientVars, ClientTypes, ServiceTypes

LEMMA LinkTypes ==
    ASSUME TypeOK, NEW cl \in Clients, NEW a \in Addresses, Link(cl, a)
    PROVE  link' \in [Clients -> LinkType \cup {NoLink}]
PROOF
  <1>1. Answers(a) # Nobody =>
            [service |-> Answers(a), address |-> a, subject |-> NoSubject] \in LinkType
    BY AnswersType, TypesSplit DEF LinkType
  <1> QED  BY <1>1, TypesSplit DEF Link, ClientTypes

LEMMA NewConnectionTypes ==
    ASSUME TypeOK, NEW cl \in Clients, NewConnection(cl)
    PROVE  TypeOK'
PROOF
  <1>1. link[cl] \in LinkType /\ ServiceTypes /\ ClientTypes
    BY TypesSplit DEF NewConnection, ClientTypes
  <1>2. [link[cl] EXCEPT !.subject = m_subject[link[cl].service]] \in LinkType
    BY <1>1 DEF LinkType, ServiceTypes
  <1>3. link' = [link EXCEPT ![cl] = [link[cl] EXCEPT !.subject = m_subject[link[cl].service]]]
    BY <1>1 DEF NewConnection, ClientTypes
  <1>4. link' \in [Clients -> LinkType \cup {NoLink}]
    BY <1>1, <1>2, <1>3 DEF ClientTypes
  <1> QED  BY <1>1, <1>4, TypesSplit DEF NewConnection, serviceVars, clientVars, ServiceTypes, ClientTypes

LEMMA TypesStep == TypeOK /\ [Next]_vars => TypeOK'
PROOF
  <1> SUFFICES ASSUME TypeOK, [Next]_vars PROVE TypeOK'
    OBVIOUS
  <1>1. ASSUME NEW sv \in Services, NEW subject \in Subjects, NEW a \in Addresses,
               (a \in Names /\ Listen(sv, a, subject)) \/ (a \in Ports /\ ListenTcp(sv, a, subject))
        PROVE  TypeOK'
    BY <1>1, ListenTypes
  <1>2. ASSUME NEW sv \in Services, Close(sv) \/ Destroy(sv) \/ Kill(sv)
        PROVE  TypeOK'
    BY <1>2, CloseTypes, GoneTypes DEF Destroy, Kill
  <1>3. ASSUME NEW cl \in Clients, NEW a \in Addresses,
               (a \in Names /\ ConnectToServer(cl, a)) \/ (a \in Ports /\ ConnectToTcpServer(cl, a))
        PROVE  TypeOK'
    <2>1. ServiceTypes' /\ ClientTypes
      BY <1>3, TypesSplit DEF ConnectToServer, ConnectToTcpServer, serviceVars, ServiceTypes
    <2>2. link' \in [Clients -> LinkType \cup {NoLink}]
      BY <1>3, LinkTypes DEF ConnectToServer, ConnectToTcpServer, Addresses
    <2> QED  BY <1>3, <2>1, <2>2, TypesSplit
                DEF ConnectToServer, ConnectToTcpServer, ClientTypes, Remember
  <1>4. ASSUME NEW cl \in Clients, DisconnectFromServer(cl)
        PROVE  TypeOK'
    BY <1>4 DEF DisconnectFromServer, serviceVars, clientVars, TypeOK
  <1>5. CASE UNCHANGED vars
    BY <1>5 DEF vars, serviceVars, clientVars, TypeOK
  <1> QED  BY <1>1, <1>2, <1>3, <1>4, <1>5, NewConnectionTypes DEF Next, Addresses

\* The variables stay in their ranges, whatever programs do.
THEOREM ServingTyped == Spec => []TypeOK
  BY TypesStart, TypesStep, PTL DEF Spec

-----------------------------------------------------------------------------
(* Who listens.                                                            *)

\* One service at most listens at a name.
NamesHeld ==
    \A sv, other \in Services :
        m_localServer[sv] \in Names /\ m_localServer[other] = m_localServer[sv] => other = sv

\* A port leads to the server that listens there, and to no other.
PortsHeld ==
    /\ \A sv \in Services : m_tcpServer[sv] \in Ports => owner[m_tcpServer[sv]] = sv
    /\ \A a \in Ports : owner[a] # Nobody => m_tcpServer[owner[a]] = a

AskedOwn == \A sv \in Services : \A a \in asked[sv] : Listens(sv, a) /\ owner[a] = sv

OwnersAsked ==
    \A sv \in Services, a \in Addresses :
        owner[a] = sv /\ Listens(sv, a) =>
            a \in asked[sv] \/ (a \in Ports /\ m_localServer[sv] # NoServer)

ServersInv == ServiceTypes /\ NamesHeld /\ PortsHeld /\ AskedOwn /\ OwnersAsked

\* Names are for local servers and ports for the others.
LEMMA WhichServer ==
    ASSUME ServiceTypes, NEW sv \in Services
    PROVE  /\ \A a \in Names : Listens(sv, a) <=> m_localServer[sv] = a
           /\ \A a \in Ports : Listens(sv, a) <=> m_tcpServer[sv] = a
  BY AddressesAssumption DEF ServiceTypes, Listens, Addresses

LEMMA ServersInvTells == ServersInv => ListensAsTold
PROOF
  <1> SUFFICES ASSUME ServersInv, NEW sv \in Services, NEW a \in Addresses
               PROVE  /\ a \in asked[sv] => Answers(a) = sv
                      /\ Answers(a) = sv =>
                            a \in asked[sv] \/ (a \in Ports /\ m_localServer[sv] # NoServer)
    BY DEF ListensAsTold
  <1>1. a # NoAddress /\ sv # Nobody
    BY AddressesAssumption DEF Addresses
  <1>2. Answers(a) = sv <=> owner[a] = sv /\ Listens(sv, a)
    BY <1>1 DEF Answers
  <1> QED  BY <1>2 DEF ServersInv, AskedOwn, OwnersAsked

LEMMA ServersStart == Init => ServersInv
  BY AddressesAssumption DEF Init, ServersInv, ServiceTypes, NamesHeld, PortsHeld, AskedOwn,
     OwnersAsked, Listens, Addresses

\* A service that is told a name while it has another, or that one.
LEMMA ListenInVain ==
    ASSUME ServersInv, ServiceTypes', Contested = {}, NEW sv \in Services, NEW a \in Names,
           NEW subject, Listen(sv, a, subject), m_localServer[sv] \in Names
    PROVE  ServersInv'
PROOF
  <1>1. \A other \in Services \ {sv} : m_localServer[other] # a
    BY DEF Listen
  <1>2. /\ owner' = [owner EXCEPT ![a] = Nobody]
        /\ asked' = [asked EXCEPT ![sv] = @ \ {a}]
        /\ UNCHANGED <<m_localServer, m_tcpServer>>
    BY DEF Listen, ListenOrRemove
  <1>3. \A b \in Addresses : owner'[b] = IF b = a THEN Nobody ELSE owner[b]
    BY <1>2 DEF ServersInv, ServiceTypes
  <1>4. \A other \in Services : asked'[other] = IF other = sv THEN asked[sv] \ {a} ELSE asked[other]
    BY <1>2 DEF ServersInv, ServiceTypes
  <1>5. \A other \in Services, b \in Addresses : Listens(other, b)' <=> Listens(other, b)
    BY <1>2 DEF Listens
  <1>6. a \in Addresses /\ a \notin Ports /\ Nobody \notin Services
    BY AddressesAssumption DEF Addresses
  <1>7. NamesHeld' /\ PortsHeld'
    BY <1>2, <1>3, <1>6 DEF ServersInv, NamesHeld, PortsHeld, Addresses
  <1>8. AskedOwn'
    <2> SUFFICES ASSUME NEW other \in Services, NEW b \in asked'[other]
                 PROVE  Listens(other, b)' /\ owner'[b] = other
      BY DEF AskedOwn
    <2>1. b \in asked[other] /\ b \in Addresses /\ (other = sv => b # a)
      BY <1>4 DEF ServersInv, ServiceTypes
    <2>2. Listens(other, b) /\ owner[b] = other
      BY <2>1 DEF ServersInv, AskedOwn
    <2>3. b # a
      BY <1>1, <2>1, <2>2, WhichServer DEF ServersInv
    <2> QED  BY <1>3, <1>5, <2>1, <2>2, <2>3
  <1>9. OwnersAsked'
    <2> SUFFICES ASSUME NEW other \in Services, NEW b \in Addresses,
                        owner'[b] = other, Listens(other, b)'
                 PROVE  b \in asked'[other] \/ (b \in Ports /\ m_localServer'[other] # NoServer)
      BY DEF OwnersAsked
    <2>1. b # a /\ owner[b] = other /\ Listens(other, b)
      BY <1>3, <1>5, <1>6
    <2> QED  BY <1>2, <1>4, <2>1 DEF ServersInv, OwnersAsked
  <1> QED  BY <1>7, <1>8, <1>9 DEF ServersInv

\* A service that begins to listen, where nobody does.
LEMMA ListenAfresh ==
    ASSUME ServersInv, ServiceTypes', NEW sv \in Services, NEW a \in Addresses,
           owner' = [owner EXCEPT ![a] = sv],
           asked' = [asked EXCEPT ![sv] = @ \cup {a}],
           \A other \in Services, b \in Addresses :
              Listens(other, b)' <=> Listens(other, b) \/ (other = sv /\ b = a),
           \A other \in Services : ~Listens(other, a),
           \A other \in Services : m_localServer[other] # NoServer => m_localServer'[other] # NoServer,
           \A b \in Ports : Listens(sv, b) /\ a \in Ports => FALSE
    PROVE  ServersInv'
PROOF
  <1>1. \A b \in Addresses : owner'[b] = IF b = a THEN sv ELSE owner[b]
    BY DEF ServersInv, ServiceTypes
  <1>2. \A other \in Services :
            asked'[other] = IF other = sv THEN asked[sv] \cup {a} ELSE asked[other]
    BY DEF ServersInv, ServiceTypes
  <1>3. NamesHeld'
    <2> SUFFICES ASSUME NEW x \in Services, NEW y \in Services, m_localServer'[x] \in Names,
                        m_localServer'[y] = m_localServer'[x]
                 PROVE  y = x
      BY DEF NamesHeld
    <2>1. PICK b \in Names : b = m_localServer'[x]
      OBVIOUS
    <2>2. Listens(x, b)' /\ Listens(y, b)' /\ b \in Addresses
      BY <2>1 DEF Listens, Addresses
    <2>3. b = a => x = sv /\ y = sv
      BY <2>2
    <2>4. b # a => Listens(x, b) /\ Listens(y, b)
      BY <2>2
    <2> QED  BY <2>1, <2>3, <2>4, WhichServer DEF ServersInv, NamesHeld
  <1>4. PortsHeld'
    <2>1. ASSUME NEW x \in Services, m_tcpServer'[x] \in Ports
          PROVE  owner'[m_tcpServer'[x]] = x
      <3>1. PICK b \in Ports : b = m_tcpServer'[x]
        BY <2>1
      <3>2. Listens(x, b)' /\ b \in Addresses
        BY <3>1 DEF Listens, Addresses
      <3>3. b # a => owner[b] = x
        BY <3>2, WhichServer DEF ServersInv, PortsHeld
      <3> QED  BY <1>1, <3>1, <3>2, <3>3
    <2>2. ASSUME NEW b \in Ports, owner'[b] # Nobody
          PROVE  m_tcpServer'[owner'[b]] = b
      <3>1. b \in Addresses /\ (b # a => owner[b] # Nobody /\ owner'[b] = owner[b])
        BY <1>1, <2>2 DEF Addresses
      <3>2. PICK x \in Services : x = owner'[b]
        BY <1>1, <2>2, <3>1 DEF ServersInv, ServiceTypes
      <3>3. b # a => Listens(x, b)
        BY <3>1, <3>2, WhichServer DEF ServersInv, PortsHeld
      <3>4. Listens(x, b)'
        BY <1>1, <3>1, <3>2, <3>3
      <3>5. m_tcpServer'[x] = b
        BY <3>4, AddressesAssumption DEF Listens, ServiceTypes, Addresses
      <3> QED  BY <3>2, <3>5
    <2> QED  BY <2>1, <2>2 DEF PortsHeld
  <1>5. AskedOwn'
    <2> SUFFICES ASSUME NEW x \in Services, NEW b \in asked'[x]
                 PROVE  Listens(x, b)' /\ owner'[b] = x
      BY DEF AskedOwn
    <2>1. b \in Addresses /\ (b \in asked[x] \/ (x = sv /\ b = a))
      BY <1>2 DEF ServersInv, ServiceTypes
    <2>2. b \in asked[x] => Listens(x, b) /\ owner[b] = x /\ b # a
      BY DEF ServersInv, AskedOwn
    <2> QED  BY <1>1, <2>1, <2>2
  <1>6. OwnersAsked'
    <2> SUFFICES ASSUME NEW x \in Services, NEW b \in Addresses, owner'[b] = x, Listens(x, b)'
                 PROVE  b \in asked'[x] \/ (b \in Ports /\ m_localServer'[x] # NoServer)
      BY DEF OwnersAsked
    <2>1. CASE b = a
      BY <1>1, <1>2, <2>1
    <2>2. CASE b # a
      <3>1. owner[b] = x /\ Listens(x, b)
        BY <1>1, <2>2
      <3> QED  BY <1>2, <3>1 DEF ServersInv, OwnersAsked
    <2> QED  BY <2>1, <2>2
  <1> QED  BY <1>3, <1>4, <1>5, <1>6 DEF ServersInv

LEMMA ListenServers ==
    ASSUME ServersInv, ServiceTypes', Contested = {}, NEW sv \in Services, NEW a \in Names,
           NEW subject, Listen(sv, a, subject)
    PROVE  ServersInv'
PROOF
  <1>1. CASE m_localServer[sv] \in Names
    BY <1>1, ListenInVain
  <1>2. CASE m_localServer[sv] \notin Names
    <2>1. /\ m_localServer' = [m_localServer EXCEPT ![sv] = a] /\ UNCHANGED m_tcpServer
          /\ owner' = [owner EXCEPT ![a] = sv]
          /\ asked' = [asked EXCEPT ![sv] = @ \cup {a}]
          /\ \A other \in Services \ {sv} : m_localServer[other] # a
      BY <1>2 DEF Listen, ListenOrRemove
    <2>2. /\ \A other \in Services :
                m_localServer'[other] = IF other = sv THEN a ELSE m_localServer[other]
          /\ a \in Addresses /\ a \notin Ports /\ a # NoServer
      BY <2>1, AddressesAssumption DEF ServersInv, ServiceTypes, Addresses
    <2>3. \A other \in Services : ~Listens(other, a)
      BY <1>2, <2>1, WhichServer DEF ServersInv
    <2>4. \A other \in Services, b \in Addresses :
              Listens(other, b)' <=> Listens(other, b) \/ (other = sv /\ b = a)
      BY <1>2, <2>1, <2>2, AddressesAssumption DEF Listens, ServersInv, ServiceTypes, Addresses
    <2> QED  BY <2>1, <2>2, <2>3, <2>4, ListenAfresh
  <1> QED  BY <1>1, <1>2

LEMMA ListenTcpServers ==
    ASSUME ServersInv, ServiceTypes', NEW sv \in Services, NEW a \in Ports, NEW subject,
           ListenTcp(sv, a, subject)
    PROVE  ServersInv'
PROOF
  <1>0. a \in Addresses
    BY DEF Addresses
  <1>1. owner[a] # Nobody <=> \E other \in Services : m_tcpServer[other] = a
    BY <1>0, AddressesAssumption DEF ServersInv, PortsHeld, ServiceTypes
  <1>2. CASE m_tcpServer[sv] \in Ports \/ owner[a] # Nobody
    <2>1. UNCHANGED <<m_localServer, owner>>
          /\ m_tcpServer' = [m_tcpServer EXCEPT ![sv] = IF @ = NoServer THEN Idle ELSE @]
      BY <1>2 DEF ListenTcp
    <2>2. asked' = asked
      BY <1>1, <1>2 DEF ListenTcp, ServersInv, ServiceTypes
    <2>3. \A other \in Services, b \in Addresses : m_tcpServer'[other] = b <=> m_tcpServer[other] = b
      BY <2>1, AddressesAssumption DEF ServersInv, ServiceTypes, Addresses
    <2>4. \A other \in Services, b \in Addresses : Listens(other, b)' <=> Listens(other, b)
      BY <2>1, <2>3 DEF Listens
    <2>5. NamesHeld' /\ OwnersAsked'
      BY <2>1, <2>2, <2>4 DEF ServersInv, NamesHeld, OwnersAsked
    <2>6. AskedOwn'
      BY <2>1, <2>2, <2>4 DEF ServersInv, AskedOwn, ServiceTypes
    <2>7. PortsHeld'
      <3>1. ASSUME NEW x \in Services, m_tcpServer'[x] \in Ports PROVE owner'[m_tcpServer'[x]] = x
        <4>1. m_tcpServer'[x] = m_tcpServer[x]
          BY <2>3, <3>1 DEF Addresses
        <4> QED  BY <2>1, <3>1, <4>1 DEF ServersInv, PortsHeld
      <3>2. ASSUME NEW b \in Ports, owner'[b] # Nobody PROVE m_tcpServer'[owner'[b]] = b
        <4>1. b \in Addresses /\ owner'[b] = owner[b]
          BY <2>1 DEF Addresses
        <4>2. PICK x \in Services : x = owner[b]
          BY <3>2, <4>1 DEF ServersInv, ServiceTypes
        <4>3. m_tcpServer[x] = b
          BY <3>2, <4>1, <4>2 DEF ServersInv, PortsHeld
        <4> QED  BY <2>3, <4>1, <4>2, <4>3
      <3> QED  BY <3>1, <3>2 DEF PortsHeld
    <2> QED  BY <2>5, <2>6, <2>7 DEF ServersInv
  <1>3. CASE m_tcpServer[sv] \notin Ports /\ owner[a] = Nobody
    <2>1. /\ m_tcpServer' = [m_tcpServer EXCEPT ![sv] = a] /\ UNCHANGED m_localServer
          /\ owner' = [owner EXCEPT ![a] = sv]
      BY <1>3 DEF ListenTcp
    <2>2. asked' = [asked EXCEPT ![sv] = @ \cup {a}]
      BY <1>1, <1>3 DEF ListenTcp
    <2>3. \A other \in Services : m_tcpServer'[other] = IF other = sv THEN a ELSE m_tcpServer[other]
      BY <2>1 DEF ServersInv, ServiceTypes
    <2>4. \A other \in Services : ~Listens(other, a)
      BY <1>1, <1>3, WhichServer DEF ServersInv
    <2>5. \A other \in Services, b \in Addresses :
              Listens(other, b)' <=> Listens(other, b) \/ (other = sv /\ b = a)
      BY <1>3, <2>1, <2>3, AddressesAssumption DEF Listens, ServersInv, ServiceTypes, Addresses
    <2>6. \A b \in Ports : ~Listens(sv, b)
      BY <1>3, WhichServer DEF ServersInv
    <2> QED  BY <1>0, <2>1, <2>2, <2>4, <2>5, <2>6, ListenAfresh
  <1> QED  BY <1>2, <1>3

\* A service that closes or ends, in whatever way, stops listening somewhere and
\* takes no more than its own addresses with it.
LEMMA VacateServers ==
    ASSUME ServersInv, ServiceTypes', NEW sv \in Services,
           \A other \in Services \ {sv} :
              /\ m_localServer'[other] = m_localServer[other]
              /\ m_tcpServer'[other] = m_tcpServer[other]
              /\ asked'[other] = asked[other],
           asked'[sv] = {},
           \A b \in Names : m_localServer'[sv] # b,
           \A b \in Ports : m_tcpServer'[sv] = b => m_tcpServer[sv] = b /\ m_localServer'[sv] # NoServer,
           \A b \in Addresses : owner'[b] = owner[b] \/ (owner'[b] = Nobody /\ Listens(sv, b)),
           \A b \in Ports : Listens(sv, b) => owner'[b] = IF m_tcpServer'[sv] = b THEN sv ELSE Nobody
    PROVE  ServersInv'
PROOF
  <1>1. \A other \in Services \ {sv}, b \in Addresses : Listens(other, b)' <=> Listens(other, b)
    BY DEF Listens
  <1>2. \A b \in Addresses : Listens(sv, b)' =>
            b \in Ports /\ m_tcpServer'[sv] = b /\ m_localServer'[sv] # NoServer
    BY AddressesAssumption DEF Listens, Addresses, ServiceTypes
  <1>3. NamesHeld'
    BY DEF ServersInv, NamesHeld
  <1>4. \A other \in Services \ {sv}, b \in Addresses :
            owner[b] = other /\ Listens(other, b) => owner'[b] = other
    <2> SUFFICES ASSUME NEW other \in Services \ {sv}, NEW b \in Addresses,
                        owner[b] = other, Listens(other, b), Listens(sv, b)
                 PROVE  FALSE
      OBVIOUS
    <2>1. CASE b \in Names
      BY <2>1, WhichServer DEF ServersInv, NamesHeld
    <2>2. CASE b \in Ports
      BY <2>2, WhichServer DEF ServersInv, PortsHeld
    <2> QED  BY <2>1, <2>2 DEF Addresses
  <1>5. PortsHeld'
    <2>1. ASSUME NEW x \in Services, m_tcpServer'[x] \in Ports PROVE owner'[m_tcpServer'[x]] = x
      <3>1. PICK b \in Ports : b = m_tcpServer'[x]
        BY <2>1
      <3>2. m_tcpServer[x] = b /\ b \in Addresses
        BY <3>1 DEF Addresses
      <3>3. owner[b] = x /\ Listens(x, b)
        BY <3>2, WhichServer DEF ServersInv, PortsHeld
      <3> QED  BY <1>4, <3>1, <3>2, <3>3
    <2>2. ASSUME NEW b \in Ports, owner'[b] # Nobody PROVE m_tcpServer'[owner'[b]] = b
      <3>1. b \in Addresses /\ owner'[b] = owner[b]
        BY <2>2 DEF Addresses
      <3>2. PICK x \in Services : x = owner[b]
        BY <2>2, <3>1 DEF ServersInv, ServiceTypes
      <3>3. m_tcpServer[x] = b /\ Listens(x, b)
        BY <2>2, <3>1, <3>2, WhichServer DEF ServersInv, PortsHeld
      <3>4. x = sv => m_tcpServer'[sv] = b
        BY <2>2, <3>3
      <3> QED  BY <3>1, <3>2, <3>3, <3>4
    <2> QED  BY <2>1, <2>2 DEF PortsHeld
  <1>6. AskedOwn'
    <2> SUFFICES ASSUME NEW x \in Services, NEW b \in asked'[x]
                 PROVE  Listens(x, b)' /\ owner'[b] = x
      BY DEF AskedOwn
    <2>1. x # sv /\ b \in asked[x] /\ b \in Addresses
      BY DEF ServiceTypes
    <2>2. Listens(x, b) /\ owner[b] = x
      BY <2>1 DEF ServersInv, AskedOwn
    <2> QED  BY <1>1, <1>4, <2>1, <2>2
  <1>7. OwnersAsked'
    <2> SUFFICES ASSUME NEW x \in Services, NEW b \in Addresses, owner'[b] = x, Listens(x, b)'
                 PROVE  b \in asked'[x] \/ (b \in Ports /\ m_localServer'[x] # NoServer)
      BY DEF OwnersAsked
    <2>1. CASE x = sv
      BY <1>2, <2>1
    <2>2. CASE x # sv
      <3>1. owner[b] = x /\ Listens(x, b)
        BY <1>1, <2>2, AddressesAssumption
      <3> QED  BY <2>2, <3>1 DEF ServersInv, OwnersAsked
    <2> QED  BY <2>1, <2>2
  <1> QED  BY <1>3, <1>5, <1>6, <1>7 DEF ServersInv

LEMMA CloseServers ==
    ASSUME ServersInv, ServiceTypes', NEW sv \in Services, Close(sv)
    PROVE  ServersInv'
PROOF
  <1>1. /\ asked'[sv] = {}
        /\ \A other \in Services \ {sv} : asked'[other] = asked[other]
    BY DEF Close, ServersInv, ServiceTypes
  <1>2. CASE CloseLocal(sv)
    <2>1. /\ m_localServer'[sv] = Idle /\ m_tcpServer' = m_tcpServer
          /\ \A other \in Services \ {sv} : m_localServer'[other] = m_localServer[other]
          /\ \A b \in Addresses : owner'[b] = IF b = m_localServer[sv] THEN Nobody ELSE owner[b]
      BY <1>2 DEF CloseLocal, Free, ServersInv, ServiceTypes
    <2>2. \A b \in Ports : b # m_localServer[sv]
      BY AddressesAssumption DEF ServersInv, ServiceTypes, Addresses
    <2>3. \A b \in Ports : Listens(sv, b) => owner'[b] = sv /\ m_tcpServer'[sv] = b
      BY <2>1, <2>2, WhichServer DEF ServersInv, PortsHeld, Addresses
    <2>4. \A b \in Addresses : owner'[b] = owner[b] \/ (owner'[b] = Nobody /\ Listens(sv, b))
      BY <2>1 DEF Listens
    <2>5. Idle \notin Names /\ Idle # NoServer
      BY AddressesAssumption DEF Addresses
    <2> QED  BY <1>1, <2>1, <2>3, <2>4, <2>5, VacateServers
  <1>3. CASE m_localServer[sv] = NoServer /\ CloseTcp(sv)
    <2>1. /\ m_tcpServer'[sv] = Idle /\ m_localServer' = m_localServer
          /\ \A other \in Services \ {sv} : m_tcpServer'[other] = m_tcpServer[other]
          /\ \A b \in Addresses : owner'[b] = IF b = m_tcpServer[sv] THEN Nobody ELSE owner[b]
      BY <1>3 DEF CloseTcp, Free, ServersInv, ServiceTypes
    <2>2. \A b \in Ports : Listens(sv, b) => owner'[b] = Nobody
      BY <2>1, WhichServer DEF ServersInv, Addresses
    <2>3. \A b \in Addresses : owner'[b] = owner[b] \/ (owner'[b] = Nobody /\ Listens(sv, b))
      BY <2>1 DEF Listens
    <2>4. Idle \notin Ports /\ NoServer \notin Names
      BY AddressesAssumption DEF Addresses
    <2> QED  BY <1>1, <1>3, <2>1, <2>2, <2>3, <2>4, VacateServers
  <1> QED  BY <1>2, <1>3 DEF Close

LEMMA GoneServers ==
    ASSUME ServersInv, ServiceTypes', NEW sv \in Services, Destroy(sv) \/ Kill(sv)
    PROVE  ServersInv'
PROOF
  <1>1. PICK freed \in SUBSET {m_localServer[sv], m_tcpServer[sv]} :
            m_tcpServer[sv] \in freed /\ Gone(sv, freed)
    BY DEF Destroy, Kill
  <1>2. /\ m_localServer'[sv] = NoServer /\ m_tcpServer'[sv] = NoServer /\ asked'[sv] = {}
        /\ \A other \in Services \ {sv} :
              /\ m_localServer'[other] = m_localServer[other]
              /\ m_tcpServer'[other] = m_tcpServer[other]
              /\ asked'[other] = asked[other]
        /\ \A b \in Addresses : owner'[b] = IF b \in freed THEN Nobody ELSE owner[b]
    BY <1>1 DEF Gone, ServersInv, ServiceTypes
  <1>3. \A b \in Addresses : owner'[b] = owner[b] \/ (owner'[b] = Nobody /\ Listens(sv, b))
    BY <1>1, <1>2 DEF Listens
  <1>4. \A b \in Ports : Listens(sv, b) => owner'[b] = Nobody
    BY <1>1, <1>2, WhichServer DEF ServersInv, Addresses
  <1>5. NoServer \notin Addresses
    BY AddressesAssumption DEF Addresses
  <1> QED  BY <1>2, <1>3, <1>4, <1>5, VacateServers DEF Addresses

LEMMA ServersStep == ServersInv /\ TypeOK /\ Contested = {} /\ [Next]_vars => ServersInv'
PROOF
  <1> SUFFICES ASSUME ServersInv, TypeOK, Contested = {}, [Next]_vars PROVE ServersInv'
    OBVIOUS
  <1>1. ServiceTypes'
    BY TypesStep, TypesSplit
  <1>2. CASE UNCHANGED serviceVars
    BY <1>1, <1>2 DEF serviceVars, ServersInv, NamesHeld, PortsHeld, AskedOwn, OwnersAsked, Listens
  <1>3. CASE \E sv \in Services : Close(sv) \/ Destroy(sv) \/ Kill(sv)
    BY <1>1, <1>3, CloseServers, GoneServers
  <1>4. CASE \E sv \in Services, subject \in Subjects :
                \/ \E a \in Names : Listen(sv, a, subject)
                \/ \E a \in Ports : ListenTcp(sv, a, subject)
    BY <1>1, <1>4, ListenServers, ListenTcpServers
  <1> QED  BY <1>2, <1>3, <1>4
              DEF Next, vars, NewConnection, ConnectToServer, ConnectToTcpServer, DisconnectFromServer

\* A service is found where it was told to listen, and nowhere else
\* (CuteIPCService::listen, listenTcp, close), when nobody listens at a name where
\* another service does: whichever kinds of address it uses, however often it is
\* told, and whichever subjects it serves.
THEOREM ServicesListenAsTold == ASSUME Contested = {} PROVE Spec => []ListensAsTold
PROOF
  <1>1. Init => TypeOK /\ ServersInv
    BY TypesStart, ServersStart
  <1>2. TypeOK /\ ServersInv /\ [Next]_vars => TypeOK' /\ ServersInv'
    BY TypesStep, ServersStep
  <1> QED  BY <1>1, <1>2, ServersInvTells, PTL DEF Spec

-----------------------------------------------------------------------------
(* Whom clients meet.                                                      *)

\* A connection came from the address of its kind that its client was told last,
\* if there was one then.
LinksRemembered ==
    \A cl \in Clients : link[cl] # NoLink /\ ~failed[cl] =>
        /\ link[cl].address \in Names => localName[cl] = link[cl].address
        /\ link[cl].address \in Ports => tcpAddress[cl] = link[cl].address

\* A connection that has got a subject has the service's, if that is the only one.
LinksServed ==
    \A cl \in Clients :
        link[cl].subject # NoSubject /\ ~replaced[link[cl].service] =>
            m_subject[link[cl].service] = link[cl].subject

ClientsInv == LinksRemembered /\ LinksServed

LEMMA ClientsStart == Init => ClientsInv
  BY DEF Init, ClientsInv, LinksRemembered, LinksServed, NoLink

LEMMA InvTells == TypeOK /\ ServersInv /\ ClientsInv => OneCounterpart
PROOF
  <1> SUFFICES ASSUME TypeOK, ServersInv, ClientsInv, NEW cl \in Clients,
                      link[cl] # NoLink, link[cl].address \in asked[link[cl].service],
                      ~failed[cl], link[cl].address \in Names \/ localName[cl] = NoAddress
               PROVE  /\ Answers(RequestAddress(cl)) = link[cl].service
                      /\ replaced[link[cl].service]
                         \/ link[cl].subject \in {m_subject[link[cl].service], NoSubject}
    BY DEF OneCounterpart
  <1>1. link[cl].service \in Services /\ link[cl].address \in Addresses
    BY DEF TypeOK
  <1>2. Answers(link[cl].address) = link[cl].service
    BY <1>1, ServersInvTells DEF ListensAsTold
  <1>3. RequestAddress(cl) = link[cl].address
    BY <1>1, AddressesAssumption DEF ClientsInv, LinksRemembered, RequestAddress, Addresses
  <1> QED  BY <1>2, <1>3 DEF ClientsInv, LinksServed

LEMMA ListenClients ==
    ASSUME TypeOK, ClientsInv, NEW sv \in Services, NEW a, NEW subject,
           Listen(sv, a, subject) \/ ListenTcp(sv, a, subject)
    PROVE  ClientsInv'
PROOF
  <1>1. /\ SetSubject(sv, subject)
        /\ UNCHANGED <<localName, tcpAddress, failed, link>>
    BY DEF Listen, ListenTcp, clientVars
  <1>2. LinksServed'
    <2> SUFFICES ASSUME NEW cl \in Clients, link[cl].subject # NoSubject,
                        ~replaced'[link[cl].service]
                 PROVE  m_subject'[link[cl].service] = link[cl].subject
      BY <1>1 DEF LinksServed
    <2>1. PICK x \in Services : x = link[cl].service
      BY DEF TypeOK, NoLink
    <2>2. ~replaced[x] /\ (x = sv => m_subject[x] \in {subject, NoSubject})
      BY <1>1, <2>1 DEF SetSubject, TypeOK
    <2>3. m_subject[x] = link[cl].subject
      BY <2>1, <2>2 DEF ClientsInv, LinksServed
    <2> QED  BY <1>1, <2>1, <2>2, <2>3 DEF SetSubject, TypeOK
  <1> QED  BY <1>1, <1>2 DEF ClientsInv, LinksRemembered

\* Connections that end, and a subject that goes with those of its service.
LEMMA UnlinkClients ==
    ASSUME TypeOK, ClientsInv, UNCHANGED clientVars,
           \A cl \in Clients :
              \/ link'[cl] = NoLink
              \/ /\ link'[cl] = link[cl]
                 /\ m_subject'[link[cl].service] = m_subject[link[cl].service]
                 /\ replaced'[link[cl].service] = replaced[link[cl].service]
    PROVE  ClientsInv'
  BY DEF clientVars, ClientsInv, LinksRemembered, LinksServed, NoLink

LEMMA EndClients ==
    ASSUME TypeOK, ClientsInv, NEW sv \in Services, Close(sv) \/ Destroy(sv) \/ Kill(sv)
    PROVE  ClientsInv'
PROOF
  <1>1. CASE Close(sv)
    <2>1. UNCHANGED <<m_subject, replaced, clientVars>>
      BY <1>1 DEF Close
    <2>2. \A cl \in Clients : link'[cl] \in {NoLink, link[cl]}
      BY <1>1 DEF Close, CloseLocal, CloseTcp, Free
    <2> QED  BY <2>1, <2>2, UnlinkClients
  <1>2. CASE \E freed : Gone(sv, freed)
    <2>1. /\ UNCHANGED clientVars
          /\ m_subject' = [m_subject EXCEPT ![sv] = NoSubject]
          /\ replaced' = [replaced EXCEPT ![sv] = FALSE]
          /\ \A cl \in Clients :
                link'[cl] = IF link[cl].service = sv THEN NoLink ELSE link[cl]
      BY <1>2 DEF Gone
    <2>2. \A x : x # sv => m_subject'[x] = m_subject[x] /\ replaced'[x] = replaced[x]
      BY <2>1 DEF TypeOK
    <2> QED  BY <2>1, <2>2, UnlinkClients
  <1> QED  BY <1>1, <1>2 DEF Destroy, Kill

LEMMA ConnectClients ==
    ASSUME TypeOK, ClientsInv, NEW cl \in Clients, NEW a \in Addresses,
           (a \in Names /\ ConnectToServer(cl, a)) \/ (a \in Ports /\ ConnectToTcpServer(cl, a))
    PROVE  ClientsInv'
PROOF
  <1> DEFINE new == [service |-> Answers(a), address |-> a, subject |-> NoSubject]
  <1>1. /\ Link(cl, a) /\ UNCHANGED <<m_subject, replaced>>
        /\ failed' = [failed EXCEPT ![cl] = Answers(a) = Nobody]
    BY DEF ConnectToServer, ConnectToTcpServer, serviceVars
  <1>2. /\ link'[cl] = IF Answers(a) = Nobody THEN link[cl] ELSE new
        /\ failed'[cl] <=> Answers(a) = Nobody
        /\ \A other \in Clients \ {cl} : link'[other] = link[other] /\ failed'[other] = failed[other]
    BY <1>1 DEF Link, TypeOK
  <1>3. \A other \in Clients \ {cl} :
            localName'[other] = localName[other] /\ tcpAddress'[other] = tcpAddress[other]
    BY DEF ConnectToServer, ConnectToTcpServer, TypeOK
  <1>4. (a \in Names => localName'[cl] = a) /\ (a \in Ports => tcpAddress'[cl] = a)
    BY AddressesAssumption DEF ConnectToServer, ConnectToTcpServer, Remember, TypeOK
  <1>5. new.address = a /\ new.subject = NoSubject
    OBVIOUS
  <1>6. LinksRemembered'
    <2> SUFFICES ASSUME NEW other \in Clients, link'[other] # NoLink, ~failed'[other]
                 PROVE  /\ link'[other].address \in Names => localName'[other] = link'[other].address
                        /\ link'[other].address \in Ports => tcpAddress'[other] = link'[other].address
      BY DEF LinksRemembered
    <2>1. CASE other = cl
      BY <1>2, <1>4, <1>5, <2>1
    <2>2. CASE other # cl
      BY <1>2, <1>3, <2>2 DEF ClientsInv, LinksRemembered
    <2> QED  BY <2>1, <2>2
  <1>7. LinksServed'
    BY <1>1, <1>2, <1>5 DEF ClientsInv, LinksServed
  <1> QED  BY <1>6, <1>7 DEF ClientsInv

LEMMA NewConnectionClients ==
    ASSUME TypeOK, ClientsInv, NEW cl \in Clients, NewConnection(cl)
    PROVE  ClientsInv'
PROOF
  <1> DEFINE new == [link[cl] EXCEPT !.subject = m_subject[link[cl].service]]
  <1>1. link[cl] # NoLink /\ link[cl] \in LinkType
    BY DEF NewConnection, TypeOK, LinkType
  <1>2. /\ link' = [link EXCEPT ![cl] = new]
        /\ UNCHANGED <<m_subject, replaced, localName, tcpAddress, failed>>
    BY DEF NewConnection, TypeOK, serviceVars, clientVars
  <1>3. /\ new.service = link[cl].service /\ new.address = link[cl].address
        /\ new.subject = m_subject[link[cl].service]
    BY <1>1 DEF LinkType
  <1>4. \A other \in Clients : link'[other] = IF other = cl THEN new ELSE link[other]
    BY <1>2 DEF TypeOK
  <1>5. LinksRemembered'
    BY <1>1, <1>2, <1>3, <1>4 DEF ClientsInv, LinksRemembered
  <1>6. LinksServed'
    BY <1>2, <1>3, <1>4 DEF ClientsInv, LinksServed
  <1> QED  BY <1>5, <1>6 DEF ClientsInv

LEMMA ClientsStep == TypeOK /\ ClientsInv /\ [Next]_vars => ClientsInv'
PROOF
  <1> SUFFICES ASSUME TypeOK, ClientsInv, [Next]_vars PROVE ClientsInv'
    OBVIOUS
  <1>1. ASSUME NEW cl \in Clients, DisconnectFromServer(cl) PROVE ClientsInv'
    <2>1. \A other \in Clients : link'[other] \in {NoLink, link[other]}
      BY <1>1 DEF DisconnectFromServer, TypeOK
    <2> QED  BY <1>1, <2>1, UnlinkClients DEF DisconnectFromServer, serviceVars
  <1>2. CASE UNCHANGED vars
    BY <1>2, UnlinkClients DEF vars, serviceVars
  <1> QED  BY <1>1, <1>2, ListenClients, EndClients, ConnectClients, NewConnectionClients
              DEF Next, Addresses

\* A client's requests meet the service, and unless that has been given another
\* the subject, whose signals its long-lived connection brings
\* (sendSynchronousRequest, setSubject): after an attempt that succeeded and at an
\* address it does not prefer another to, whatever it did before, and whatever
\* other clients and services do short of taking each other's names.
THEOREM ClientsMeetOneCounterpart == ASSUME Contested = {} PROVE Spec => []OneCounterpart
PROOF
  <1> DEFINE Inv == TypeOK /\ ServersInv /\ ClientsInv
  <1>1. Init => Inv
    BY TypesStart, ServersStart, ClientsStart
  <1>2. Inv /\ [Next]_vars => Inv'
    BY TypesStep, ServersStep, ClientsStep
  <1> QED  BY <1>1, <1>2, InvTells, PTL DEF Spec
=============================================================================
