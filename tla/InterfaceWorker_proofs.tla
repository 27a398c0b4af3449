----------------------- MODULE InterfaceWorker_proofs -----------------------
(***************************************************************************)
(* The worker's requests and events, for any number of calls, sockets and  *)
(* nested loops: what is called while a call blocks is all that matters.   *)
(***************************************************************************)
EXTENDS InterfaceWorker, SequenceTheorems, TLAPS

-----------------------------------------------------------------------------
(* The invariants                                                          *)

Kinds == {"none", "open", "closed", "deleted"}

\* Every wait has a socket of its own, and nothing is sent to a socket that
\* has not been opened.
CallsTyped == calls \in Seq(Call) /\ Len(calls) <= MaxNested /\ made \in 0..MaxCalls
QueueTyped ==
    /\ queue \in Seq(Event)
    /\ \A i \in DOMAIN queue : queue[i].kind = "delete" => queue[i].socket <= opened
WaitsTyped == waits \in Seq(Wait) /\ Len(waits) <= opened
SocketsTyped ==
    /\ opened \in 0..MaxSockets
    /\ state \in [Sockets -> Kinds]
    /\ \A s \in Sockets : s > opened <=> state[s] = "none"
    /\ live \subseteq 1..opened
ServerTyped ==
    /\ toServer \in [Sockets -> Seq({"init", "call"})]
    /\ toClient \in [Sockets -> Seq({"response", "error"})]
    /\ registered \subseteq 1..opened /\ left \subseteq 1..opened
    /\ \A s \in Sockets : s > opened => toServer[s] = <<>>
Typed == CallsTyped /\ sends \in 0..MaxSends /\ QueueTyped /\ WaitsTyped /\ SocketsTyped /\ ServerTyped

\* The call that an attempt to connect is made for is the outermost one, and
\* has not been told anything.
Pending(cs, id) ==
    /\ cs # <<>> /\ cs[1].id = id /\ cs[1].kind = "connect"
    /\ ~cs[1].quit /\ cs[1].connected = "unset"

\* One attempt at a time: an event, or a wait.
OneConnect ==
    \A i \in DOMAIN queue : queue[i].kind = "connect" =>
        /\ waits = <<>> /\ Pending(calls, queue[i].call)
        /\ \A j \in DOMAIN queue : queue[j].kind = "connect" => j = i
OneWait ==
    /\ Len(waits) <= 1
    /\ waits # <<>> => Pending(calls, waits[1].call) /\ waits[1].socket = opened
OuterConnect == \A i \in DOMAIN calls : calls[i].kind = "connect" => i = 1
OneAttempt == OneConnect /\ OneWait /\ OuterConnect

\* The sockets whose id the server knows, and those that are lost.
Known == {s \in 1..opened : s \in registered \cup left \/ state[s] # "open"}

\* An id is the first message on its socket, and an answer comes after it.
IdFirst ==
    \A s \in Sockets : s \notin registered =>
        /\ toClient[s] = <<>>
        /\ s <= opened /\ s \notin left => toServer[s] # <<>> /\ toServer[s][1] = "init"
EndOfWait == \A i \in DOMAIN waits : waits[i].loop # "running" => waits[i].socket \in Known
Answer == calls # <<>> /\ calls[1].kind = "connect" /\ calls[1].connected = "yes" => opened \in Known
Confirmed == IdFirst /\ EndOfWait /\ Answer

\* One call at a time: the queue ends with its event, but for deletions.
Main == {"connect", "disconnect"}
InOrder ==
    /\ Len(calls) <= 1
    /\ \A i \in DOMAIN queue : queue[i].kind \in Main =>
        /\ calls # <<>> /\ calls[1].kind = queue[i].kind /\ ~calls[1].quit
        /\ \A j \in DOMAIN queue : j > i => queue[j].kind = "delete"
Waiting ==
    waits # <<>> =>
        /\ \A i \in DOMAIN queue : queue[i].kind = "delete"
        /\ waits[1].loop # "drain"
        /\ waits[1].loop = "quit" => opened \in live
        /\ opened \in live => state[opened] # "deleted"

\* A connection whose socket is gone is about to be deleted.
Doomed(i) == queue[i].kind = "delete" /\ queue[i].socket = opened
ClosedIsDoomed ==
    opened \in live /\ state[opened] = "closed" => \E i \in DOMAIN queue : Doomed(i)
DeletedIsNext ==
    opened \in live /\ state[opened] = "deleted" =>
        \E i \in DOMAIN queue : Doomed(i) /\ \A j \in DOMAIN queue : j < i => queue[j].kind = "delete"
Orderly == InOrder /\ Waiting /\ ClosedIsDoomed /\ DeletedIsNext

-----------------------------------------------------------------------------
(* Sequences                                                               *)

LEMMA FunctionIsSeq ==
    ASSUME NEW T, NEW n \in Nat, NEW f \in [1..n -> T]
    PROVE  f \in Seq(T) /\ Len(f) = n /\ DOMAIN f = 1..n
  OBVIOUS

LEMMA FrontOf ==
    ASSUME NEW T, NEW q \in Seq(T), q # <<>>
    PROVE  /\ Front(q) \in Seq(T) /\ Len(Front(q)) = Len(q) - 1
           /\ \A i \in DOMAIN Front(q) : i \in DOMAIN q /\ i < Len(q) /\ Front(q)[i] = q[i]
           /\ Last(q) = q[Len(q)] /\ Len(q) \in DOMAIN q
PROOF
  <1>1. Len(q) \in Nat /\ Len(q) >= 1 /\ DOMAIN q = 1..Len(q)
    BY EmptySeq, LenProperties
  <1>2. 1 \in 1..(Len(q) + 1) /\ Len(q) - 1 \in 0..Len(q)
    BY <1>1
  <1>3. SubSeq(q, 1, Len(q) - 1) \in Seq(T)
    BY <1>1
  <1>4. /\ Len(SubSeq(q, 1, Len(q) - 1)) = Len(q) - 1
        /\ \A i \in 1..(Len(q) - 1) : SubSeq(q, 1, Len(q) - 1)[i] = q[i]
    BY <1>1
  <1> QED  BY <1>1, <1>3, <1>4, LenProperties DEF Front, Last

LEMMA OfOne ==
    ASSUME NEW T, NEW q \in Seq(T), q # <<>>, Len(q) <= 1
    PROVE  Len(q) = 1 /\ Last(q) = q[1] /\ Len(Front(q)) = 0
PROOF
  <1>1. PICK n \in Nat \ {0} : n = Len(q)
    BY EmptySeq
  <1>2. n <= 1 => n = 1
    OBVIOUS
  <1>3. Len(q) = 1
    BY <1>1, <1>2
  <1> QED  BY <1>3, FrontOf

\* What is left of a sequence, and where it was.
LEMMA Removed ==
    ASSUME NEW T, NEW q \in Seq(T), NEW i \in DOMAIN q
    PROVE  /\ RemoveAt(q, i) \in Seq(T)
           /\ Len(RemoveAt(q, i)) = Len(q) - 1
           /\ DOMAIN RemoveAt(q, i) = 1..(Len(q) - 1)
           /\ \A k \in 1..(Len(q) - 1) : RemoveAt(q, i)[k] = IF k < i THEN q[k] ELSE q[k + 1]
PROOF
  <1>1. Len(q) \in Nat /\ DOMAIN q = 1..Len(q) /\ i \in 1..Len(q)
    BY LenProperties
  <1> DEFINE a == SubSeq(q, 1, i - 1)
             b == SubSeq(q, i + 1, Len(q))
  <1>2. /\ a \in Seq(T) /\ Len(a) = i - 1
        /\ \A k \in 1..(i - 1) : a[k] = q[k]
    BY <1>1
  <1>3. /\ b \in Seq(T) /\ Len(b) = Len(q) - i
        /\ \A k \in 1..(Len(q) - i) : b[k] = q[i + k]
    BY <1>1
  <1>4. RemoveAt(q, i) = a \o b
    BY DEF RemoveAt
  <1> HIDE DEF a, b
  <1>5. /\ a \o b \in Seq(T) /\ Len(a \o b) = Len(q) - 1
        /\ \A k \in 1..(Len(q) - 1) : (a \o b)[k] = IF k <= i - 1 THEN a[k] ELSE b[k - (i - 1)]
    <2>1. /\ a \o b \in Seq(T) /\ Len(a \o b) = Len(a) + Len(b)
          /\ \A k \in 1..(Len(a) + Len(b)) :
                (a \o b)[k] = IF k <= Len(a) THEN a[k] ELSE b[k - Len(a)]
      BY <1>2, <1>3, ConcatProperties
    <2>2. Len(a) + Len(b) = Len(q) - 1
      BY <1>1, <1>2, <1>3
    <2> QED  BY <1>2, <2>1, <2>2
  <1>6. ASSUME NEW k \in 1..(Len(q) - 1)
        PROVE  (a \o b)[k] = IF k < i THEN q[k] ELSE q[k + 1]
    <2>1. CASE k < i
      BY <1>1, <1>2, <1>5, <2>1
    <2>2. CASE ~(k < i)
      <3>1. /\ k \in Int /\ i \in Int /\ Len(q) \in Int /\ k <= Len(q) - 1 /\ i <= k
            /\ k - (i - 1) \in 1..(Len(q) - i) /\ i + (k - (i - 1)) = k + 1
            /\ ~(k <= i - 1)
        BY <1>1, <2>2
      <3> QED  BY <1>1, <1>3, <1>5, <2>2, <3>1
    <2> QED  BY <1>1, <2>1, <2>2
  <1> QED  BY <1>1, <1>4, <1>5, <1>6, LenProperties

-----------------------------------------------------------------------------
(* Type correctness                                                        *)

LEMMA ToldKeeps ==
    ASSUME NEW cs \in Seq(Call), NEW kind
    PROVE  /\ Told(kind, cs) \in Seq(Call) /\ Len(Told(kind, cs)) = Len(cs)
           /\ DOMAIN Told(kind, cs) = DOMAIN cs
           /\ \A i \in DOMAIN cs :
                 /\ Told(kind, cs)[i].id = cs[i].id /\ Told(kind, cs)[i].kind = cs[i].kind
                 /\ Told(kind, cs)[i].connected = cs[i].connected
                 /\ cs[i].kind = kind => Told(kind, cs)[i].quit
                 /\ cs[i].kind # kind => Told(kind, cs)[i] = cs[i]
PROOF
  <1>1. Len(cs) \in Nat /\ DOMAIN cs = 1..Len(cs) /\ \A i \in DOMAIN cs : cs[i] \in Call
    BY LenProperties, ElementOfSeq
  <1>2. \A i \in DOMAIN cs : [cs[i] EXCEPT !.quit = TRUE] \in Call
    BY <1>1 DEF Call
  <1>3. Told(kind, cs) \in [1..Len(cs) -> Call]
    BY <1>1, <1>2 DEF Told
  <1>4. \A i \in DOMAIN cs : cs[i] \in [id : 1..MaxCalls, kind : {"connect", "disconnect"},
                                       quit : BOOLEAN, connected : {"unset", "yes", "no"}]
    BY <1>1 DEF Call
  <1>5. \A i \in DOMAIN cs :
            /\ [cs[i] EXCEPT !.quit = TRUE].id = cs[i].id
            /\ [cs[i] EXCEPT !.quit = TRUE].kind = cs[i].kind
            /\ [cs[i] EXCEPT !.quit = TRUE].connected = cs[i].connected
            /\ [cs[i] EXCEPT !.quit = TRUE].quit = TRUE
    BY <1>4
  <1> QED  BY <1>1, <1>3, <1>5, FunctionIsSeq DEF Told

LEMMA AnsweredKeeps ==
    ASSUME NEW cs \in Seq(Call), NEW id, NEW connected \in {"yes", "no"}
    PROVE  /\ Answered(id, connected, cs) \in Seq(Call)
           /\ Len(Answered(id, connected, cs)) = Len(cs)
           /\ DOMAIN Answered(id, connected, cs) = DOMAIN cs
           /\ \A i \in DOMAIN cs :
                 /\ Answered(id, connected, cs)[i].id = cs[i].id
                 /\ Answered(id, connected, cs)[i].kind = cs[i].kind
                 /\ Answered(id, connected, cs)[i].quit = cs[i].quit
                 /\ cs[i].id = id => Answered(id, connected, cs)[i].connected = connected
PROOF
  <1>1. Len(cs) \in Nat /\ DOMAIN cs = 1..Len(cs) /\ \A i \in DOMAIN cs : cs[i] \in Call
    BY LenProperties, ElementOfSeq
  <1>2. \A i \in DOMAIN cs : [cs[i] EXCEPT !.connected = connected] \in Call
    BY <1>1 DEF Call
  <1>3. Answered(id, connected, cs) \in [1..Len(cs) -> Call]
    BY <1>1, <1>2 DEF Answered
  <1>4. \A i \in DOMAIN cs : cs[i] \in [id : 1..MaxCalls, kind : {"connect", "disconnect"},
                                       quit : BOOLEAN, connected : {"unset", "yes", "no"}]
    BY <1>1 DEF Call
  <1>5. \A i \in DOMAIN cs :
            /\ [cs[i] EXCEPT !.connected = connected].id = cs[i].id
            /\ [cs[i] EXCEPT !.connected = connected].kind = cs[i].kind
            /\ [cs[i] EXCEPT !.connected = connected].quit = cs[i].quit
            /\ [cs[i] EXCEPT !.connected = connected].connected = connected
    BY <1>4
  <1> QED  BY <1>1, <1>3, <1>5, FunctionIsSeq DEF Answered

LEMMA QuitKeeps ==
    ASSUME waits \in Seq(Wait), NEW s, NEW how \in {"quit", "drain"}
    PROVE  /\ Quit(s, how) \in Seq(Wait) /\ Len(Quit(s, how)) = Len(waits)
           /\ DOMAIN Quit(s, how) = DOMAIN waits
           /\ \A i \in DOMAIN waits :
                 /\ Quit(s, how)[i].socket = waits[i].socket
                 /\ Quit(s, how)[i].call = waits[i].call
                 /\ waits[i].socket = s /\ waits[i].loop = "running" => Quit(s, how)[i].loop = how
                 /\ ~(waits[i].socket = s /\ waits[i].loop = "running") => Quit(s, how)[i] = waits[i]
PROOF
  <1>1. Len(waits) \in Nat /\ DOMAIN waits = 1..Len(waits) /\ \A i \in DOMAIN waits : waits[i] \in Wait
    BY LenProperties, ElementOfSeq
  <1>2. \A i \in DOMAIN waits : [waits[i] EXCEPT !.loop = how] \in Wait
    BY <1>1 DEF Wait
  <1>3. Quit(s, how) \in [1..Len(waits) -> Wait]
    BY <1>1, <1>2 DEF Quit
  <1>4. \A i \in DOMAIN waits : waits[i] \in [socket : Sockets, call : 1..MaxCalls,
                                             loop : {"running", "quit", "drain"}]
    BY <1>1 DEF Wait
  <1>5. \A i \in DOMAIN waits :
            /\ [waits[i] EXCEPT !.loop = how].socket = waits[i].socket
            /\ [waits[i] EXCEPT !.loop = how].call = waits[i].call
            /\ [waits[i] EXCEPT !.loop = how].loop = how
    BY <1>4
  <1> QED  BY <1>1, <1>3, <1>5, FunctionIsSeq DEF Quit

LEMMA EventOf ==
    ASSUME QueueTyped, NEW i \in DOMAIN queue
    PROVE  /\ queue[i] \in Event /\ queue[i].kind \in {"connect", "disconnect", "send", "delete"}
           /\ queue[i].kind = "connect" => queue[i].call \in 1..MaxCalls
           /\ queue[i].kind = "delete" => /\ queue[i].socket \in Sockets /\ queue[i].socket <= opened
                                          /\ queue[i].level \in 0..MaxSockets
  BY ElementOfSeq DEF QueueTyped, Event

LEMMA DeleteIsEvent ==
    ASSUME WaitsTyped, SocketsTyped, NEW s \in Sockets
    PROVE  DeleteLater(s) \in Event /\ DeleteLater(s).kind = "delete" /\ DeleteLater(s).socket = s
PROOF
  <1>1. Len(waits) \in 0..MaxSockets
    BY BoundsAssumption, LenProperties DEF WaitsTyped, SocketsTyped
  <1> QED  BY <1>1 DEF DeleteLater, Event

\* An event is taken from the queue, one is posted, or both.
Shorter == {queue} \cup {RemoveAt(queue, i) : i \in DOMAIN queue}

LEMMA QueueStaysTyped ==
    ASSUME QueueTyped, SocketsTyped, opened' \in {opened, opened + 1}, NEW q \in Shorter,
           \/ queue' = q
           \/ \E e \in Event : (e.kind = "delete" => e.socket <= opened') /\ queue' = Append(q, e)
    PROVE  QueueTyped'
PROOF
  <1>1. opened \in Nat /\ opened' \in Nat /\ opened <= opened'
    BY BoundsAssumption DEF SocketsTyped
  <1>2. /\ q \in Seq(Event)
        /\ \A i \in DOMAIN q : q[i].kind = "delete" => q[i].socket <= opened'
    <2>1. \A i \in DOMAIN queue : queue[i].kind = "delete" => queue[i].socket <= opened'
      BY <1>1, EventOf DEF Sockets
    <2>2. CASE q = queue
      BY <2>1, <2>2 DEF QueueTyped
    <2>3. ASSUME NEW i \in DOMAIN queue, q = RemoveAt(queue, i)
          PROVE  /\ q \in Seq(Event)
                 /\ \A k \in DOMAIN q : q[k].kind = "delete" => q[k].socket <= opened'
      <3>1. /\ q \in Seq(Event) /\ DOMAIN q = 1..(Len(queue) - 1)
            /\ \A k \in 1..(Len(queue) - 1) : q[k] = IF k < i THEN queue[k] ELSE queue[k + 1]
        BY <2>3, Removed DEF QueueTyped
      <3>2. Len(queue) \in Nat /\ DOMAIN queue = 1..Len(queue)
        BY LenProperties DEF QueueTyped
      <3>3. ASSUME NEW k \in DOMAIN q
            PROVE  \E j \in DOMAIN queue : q[k] = queue[j]
        <4>1. k \in DOMAIN queue /\ k + 1 \in DOMAIN queue
          BY <3>1, <3>2
        <4> QED  BY <3>1, <4>1
      <3> QED  BY <2>1, <3>1, <3>3
    <2> QED  BY <2>2, <2>3 DEF Shorter
  <1>3. CASE queue' = q
    BY <1>2, <1>3 DEF QueueTyped
  <1>4. ASSUME NEW e \in Event, e.kind = "delete" => e.socket <= opened', queue' = Append(q, e)
        PROVE  QueueTyped'
    <2>1. /\ queue' \in Seq(Event) /\ Len(queue') = Len(q) + 1 /\ queue'[Len(q) + 1] = e
          /\ \A i \in 1..Len(q) : queue'[i] = q[i]
      BY <1>2, <1>4, AppendProperties
    <2>2. /\ Len(q) \in Nat /\ DOMAIN q = 1..Len(q) /\ DOMAIN queue' = 1..Len(queue')
      BY <1>2, <2>1, LenProperties
    <2>3. ASSUME NEW i \in DOMAIN queue', queue'[i].kind = "delete"
          PROVE  queue'[i].socket <= opened'
      <3>1. i \in 1..Len(q) \/ i = Len(q) + 1
        BY <2>1, <2>2
      <3> QED  BY <1>2, <1>4, <2>1, <2>2, <2>3, <3>1
    <2> QED  BY <2>1, <2>3 DEF QueueTyped
  <1> QED  BY <1>3, <1>4

LEMMA TypedStart == Init => Typed
PROOF
  <1> SUFFICES ASSUME Init PROVE Typed
    OBVIOUS
  <1>1. MaxCalls \in Nat /\ MaxSends \in Nat /\ MaxNested \in Nat /\ MaxSockets \in Nat
    BY BoundsAssumption
  <1>2. CallsTyped /\ QueueTyped /\ WaitsTyped /\ sends \in 0..MaxSends
    BY <1>1 DEF Init, CallsTyped, QueueTyped, WaitsTyped
  <1>3. SocketsTyped /\ ServerTyped
    BY <1>1 DEF Init, SocketsTyped, ServerTyped, Sockets, Kinds
  <1> QED  BY <1>2, <1>3 DEF Typed

\* The application blocks.
LEMMA BlockAdds ==
    ASSUME CallsTyped, NEW kind \in {"connect", "disconnect"}, Block(kind)
    PROVE  LET c == [id |-> made + 1, kind |-> kind, quit |-> FALSE, connected |-> "unset"]
           IN  /\ c \in Call /\ calls' = Append(calls, c) /\ CallsTyped'
               /\ made + 1 \in 1..MaxCalls
               /\ Len(calls') = Len(calls) + 1 /\ DOMAIN calls' = 1..(Len(calls) + 1)
               /\ calls'[Len(calls) + 1] = c
               /\ \A i \in 1..Len(calls) : calls'[i] = calls[i]
PROOF
  <1> DEFINE c == [id |-> made + 1, kind |-> kind, quit |-> FALSE, connected |-> "unset"]
  <1>1. MaxCalls \in Nat /\ MaxNested \in Nat /\ calls \in Seq(Call) /\ Len(calls) \in Nat
    BY BoundsAssumption, LenProperties DEF CallsTyped
  <1>2. made + 1 \in 1..MaxCalls /\ made' = made + 1 /\ Len(calls) < MaxNested
    BY <1>1 DEF Block, CallsTyped
  <1>3. c \in Call /\ calls' = Append(calls, c)
    BY <1>2 DEF Block, Call
  <1> HIDE DEF c
  <1>4. /\ calls' \in Seq(Call) /\ Len(calls') = Len(calls) + 1
        /\ calls'[Len(calls) + 1] = c /\ \A i \in 1..Len(calls) : calls'[i] = calls[i]
    BY <1>1, <1>3, AppendProperties
  <1>5. DOMAIN calls' = 1..(Len(calls) + 1)
    BY <1>4, LenProperties
  <1>6. CallsTyped'
    BY <1>1, <1>2, <1>4 DEF CallsTyped
  <1> QED  BY <1>2, <1>3, <1>4, <1>5, <1>6 DEF c

\* A socket is opened for the attempt of the event.
LEMMA OpenTyped ==
    ASSUME Typed, NEW i \in DOMAIN queue, queue[i].kind = "connect", OpenSocket(i),
           NEW st \in {"open", "closed"}, state' = [state EXCEPT ![opened + 1] = st]
    PROVE  LET w == [socket |-> opened + 1, call |-> queue[i].call, loop |-> "running"]
           IN  /\ SocketsTyped' /\ WaitsTyped' /\ opened + 1 \in Sockets /\ opened \in Nat
               /\ opened' = opened + 1 /\ w \in Wait /\ waits' = Append(waits, w)
PROOF
  <1> DEFINE w == [socket |-> opened + 1, call |-> queue[i].call, loop |-> "running"]
  <1>1. /\ MaxSockets \in Nat /\ opened \in Nat /\ opened + 1 \in Sockets /\ opened' = opened + 1
    BY BoundsAssumption DEF Typed, SocketsTyped, OpenSocket, Sockets
  <1>2. w \in Wait /\ waits' = Append(waits, w)
    BY <1>1, EventOf DEF Typed, OpenSocket, AwaitAnswer, Wait
  <1>3. WaitsTyped'
    BY <1>1, <1>2, AppendProperties, LenProperties DEF Typed, WaitsTyped
  <1>4. SocketsTyped'
    <2>1. opened' \in 0..MaxSockets /\ state' \in [Sockets -> Kinds]
      BY <1>1 DEF Typed, SocketsTyped, Kinds, Sockets
    <2>2. ASSUME NEW s \in Sockets PROVE s > opened' <=> state'[s] = "none"
      <3>1. CASE s = opened + 1
        BY <1>1, <3>1 DEF Typed, SocketsTyped, Sockets
      <3>2. CASE s # opened + 1
        BY <1>1, <3>2 DEF Typed, SocketsTyped, Sockets
      <3> QED  BY <3>1, <3>2
    <2>3. live' \subseteq 1..opened'
      BY <1>1 DEF Typed, SocketsTyped, OpenSocket
    <2> QED  BY <2>1, <2>2, <2>3 DEF SocketsTyped
  <1> QED  BY <1>1, <1>2, <1>3, <1>4

\* A socket that has been opened is closed or deleted, and its connection may be.
LEMMA CloseTyped ==
    ASSUME SocketsTyped, NEW s \in Sockets, s <= opened, NEW st \in {"closed", "deleted"},
           state' = [state EXCEPT ![s] = st], opened' = opened, live' \subseteq live
    PROVE  SocketsTyped'
  BY DEF SocketsTyped, Sockets, Kinds

LEMMA SocketOf ==
    ASSUME SocketsTyped
    PROVE  /\ opened \in Nat
           /\ m_socket # Null => /\ m_socket = opened /\ opened \in Sockets
                                 /\ state[opened] # "deleted"
           /\ m_connection # Null => m_connection = opened /\ opened \in Sockets /\ opened \in live
           /\ m_connection = Null => opened \notin live
           /\ opened \notin live => m_connection = Null
           /\ \A s \in live : s \in Sockets
PROOF
  <1>1. /\ opened \in Nat /\ MaxSockets \in Nat /\ 1..opened \subseteq Sockets
        /\ opened # 0 => opened \in Sockets
    BY BoundsAssumption DEF SocketsTyped, Sockets
  <1>2. live \subseteq 1..opened /\ 0 \notin live
    BY DEF SocketsTyped
  <1> QED  BY <1>1, <1>2 DEF m_socket, m_connection, Null

\* The application waits for the worker, and is told.
LEMMA ToldTyped ==
    ASSUME CallsTyped, made' = made, NEW kind,
           \/ calls' = Told(kind, calls)
           \/ \E id, c : c \in {"yes", "no"} /\ calls' = Told(kind, Answered(id, c, calls))
    PROVE  CallsTyped'
PROOF
  <1>1. calls \in Seq(Call) /\ Len(calls) <= MaxNested
    BY DEF CallsTyped
  <1>2. CASE calls' = Told(kind, calls)
    BY <1>1, <1>2, ToldKeeps DEF CallsTyped
  <1>3. ASSUME NEW id, NEW c \in {"yes", "no"}, calls' = Told(kind, Answered(id, c, calls))
        PROVE  CallsTyped'
    <2>1. Answered(id, c, calls) \in Seq(Call) /\ Len(Answered(id, c, calls)) <= MaxNested
      BY <1>1, AnsweredKeeps
    <2> QED  BY <1>3, <2>1, ToldKeeps DEF CallsTyped
  <1> QED  BY <1>2, <1>3

LEMMA QuitTyped ==
    ASSUME WaitsTyped, opened' = opened, NEW s, NEW how \in {"quit", "drain"},
           waits' = Quit(s, how) \/ waits' = waits
    PROVE  WaitsTyped'
  BY QuitKeeps DEF WaitsTyped

LEMMA TypedStep == Typed /\ [Next]_vars => Typed'
PROOF
  <1> SUFFICES ASSUME Typed, [Next]_vars PROVE Typed'
    OBVIOUS
  <1>1. CallsTyped /\ sends \in 0..MaxSends /\ QueueTyped /\ WaitsTyped /\ SocketsTyped /\ ServerTyped
    BY DEF Typed
  <1>2. MaxCalls \in Nat /\ MaxSends \in Nat /\ MaxNested \in Nat /\ MaxSockets \in Nat
    BY BoundsAssumption
  <1>3. opened \in Nat /\ opened \in {opened, opened + 1} /\ queue \in Shorter
    BY <1>2 DEF SocketsTyped, Typed, Shorter
  <1>4. ASSUME NEW kind \in {"connect", "disconnect"}, Block(kind),
               NEW e \in Event, e.kind # "delete", queue' = Append(queue, e)
        PROVE  Typed'
    <2>1. CallsTyped'
      BY <1>1, <1>4, BlockAdds
    <2>2. UNCHANGED <<sends, waits, socketVars, serverVars>>
      BY <1>4 DEF Block
    <2>3. QueueTyped'
      BY <1>1, <1>3, <1>4, <2>2, QueueStaysTyped DEF socketVars
    <2> QED
      BY <1>1, <2>1, <2>2, <2>3 DEF Typed, WaitsTyped, SocketsTyped, ServerTyped, socketVars, serverVars
  <1>5. CASE ConnectToServer
    <2>1. Block("connect") /\ queue' = Append(queue, [kind |-> "connect", call |-> made + 1])
      BY <1>5 DEF ConnectToServer
    <2>2. [kind |-> "connect", call |-> made + 1] \in Event
      BY <1>1, <2>1, BlockAdds DEF Event
    <2> QED  BY <1>4, <2>1, <2>2
  <1>6. CASE DisconnectFromServer
    BY <1>4, <1>6 DEF DisconnectFromServer, Event
  <1>7. CASE CallNoReply
    <2>1. /\ sends' = sends + 1 /\ sends < MaxSends
          /\ queue' = Append(queue, [kind |-> "send"])
          /\ UNCHANGED <<calls, made, waits, socketVars, serverVars>>
      BY <1>7 DEF CallNoReply
    <2>2. [kind |-> "send"] \in Event
      BY DEF Event
    <2>3. QueueTyped'
      BY <1>1, <1>3, <2>1, <2>2, QueueStaysTyped DEF socketVars
    <2>4. sends' \in 0..MaxSends
      BY <1>1, <1>2, <2>1
    <2> QED
      BY <1>1, <2>1, <2>3, <2>4
      DEF Typed, CallsTyped, WaitsTyped, SocketsTyped, ServerTyped, socketVars, serverVars
  <1>8. CASE Return
    <2>1. /\ calls # <<>> /\ calls' = Front(calls)
          /\ UNCHANGED <<made, sends, queue, waits, socketVars, serverVars>>
      BY <1>8 DEF Return
    <2>2. CallsTyped'
      BY <1>1, <1>2, <2>1, FrontOf, LenProperties DEF CallsTyped
    <2> QED
      BY <1>1, <2>1, <2>2
      DEF Typed, QueueTyped, WaitsTyped, SocketsTyped, ServerTyped, socketVars, serverVars
  <1>9. ASSUME NEW i \in DOMAIN queue, RefuseConnection(i)
        PROVE  Typed'
    <2>1. /\ calls' = Told("connect", Answered(queue[i].call, "no", calls))
          /\ queue' = RemoveAt(queue, i)
          /\ UNCHANGED <<made, sends, waits, socketVars, serverVars>>
      BY <1>9 DEF RefuseConnection
    <2>2. CallsTyped'
      BY <1>1, <2>1, ToldTyped
    <2>3. QueueTyped'
      <3>1. RemoveAt(queue, i) \in Shorter
        BY DEF Shorter
      <3> QED  BY <1>1, <1>3, <2>1, <3>1, QueueStaysTyped DEF socketVars
    <2> QED
      BY <1>1, <2>1, <2>2, <2>3 DEF Typed, WaitsTyped, SocketsTyped, ServerTyped, socketVars, serverVars
  <1>10. ASSUME NEW i \in DOMAIN queue, OpenConnection(i)
         PROVE  Typed'
    <2>1. /\ queue[i].kind = "connect" /\ OpenSocket(i)
          /\ state' = [state EXCEPT ![opened + 1] = "open"]
          /\ toServer' = [toServer EXCEPT ![opened + 1] = <<"init">>]
          /\ queue' = RemoveAt(queue, i)
          /\ UNCHANGED <<mainVars, toClient, registered, left>>
      BY <1>10 DEF OpenConnection, Takes
    <2>2. /\ SocketsTyped' /\ WaitsTyped' /\ opened + 1 \in Sockets /\ opened' = opened + 1
      BY <2>1, OpenTyped
    <2>3. QueueTyped'
      <3>1. RemoveAt(queue, i) \in Shorter
        BY DEF Shorter
      <3> QED  BY <1>1, <1>3, <2>1, <2>2, <3>1, QueueStaysTyped
    <2>4. ServerTyped'
      <3>1. toServer' \in [Sockets -> Seq({"init", "call"})]
        BY <1>1, <2>1, <2>2 DEF ServerTyped
      <3>2. \A s \in Sockets : s > opened' => toServer'[s] = <<>>
        BY <1>1, <1>3, <2>1, <2>2 DEF ServerTyped, Sockets
      <3> QED  BY <1>1, <1>3, <2>1, <2>2, <3>1, <3>2 DEF ServerTyped
    <2> QED  BY <1>1, <2>1, <2>2, <2>3, <2>4 DEF Typed, CallsTyped, mainVars
  <1>11. ASSUME NEW i \in DOMAIN queue, OpenBrokenConnection(i)
         PROVE  Typed'
    <2>1. /\ queue[i].kind = "connect" /\ OpenSocket(i)
          /\ state' = [state EXCEPT ![opened + 1] = "closed"]
          /\ left' = left \cup {opened + 1}
          /\ queue' = Append(RemoveAt(queue, i), DeleteLater(opened + 1))
          /\ UNCHANGED <<mainVars, toServer, toClient, registered>>
      BY <1>11 DEF OpenBrokenConnection, Takes
    <2>2. /\ SocketsTyped' /\ WaitsTyped' /\ opened + 1 \in Sockets /\ opened' = opened + 1
      BY <2>1, OpenTyped
    <2>3. QueueTyped'
      <3>1. RemoveAt(queue, i) \in Shorter
        BY DEF Shorter
      <3>2. DeleteLater(opened + 1) \in Event /\ DeleteLater(opened + 1).socket <= opened'
        BY <1>1, <1>3, <2>2, DeleteIsEvent
      <3> QED  BY <1>1, <1>3, <2>1, <2>2, <3>1, <3>2, QueueStaysTyped
    <2>4. ServerTyped'
      <3>1. \A s \in Sockets : s > opened' => toServer'[s] = <<>>
        BY <1>1, <1>3, <2>1, <2>2 DEF ServerTyped, Sockets
      <3>2. registered' \subseteq 1..opened' /\ left' \subseteq 1..opened'
        BY <1>1, <1>3, <2>1, <2>2 DEF ServerTyped
      <3> QED  BY <1>1, <2>1, <3>1, <3>2 DEF ServerTyped
    <2> QED  BY <1>1, <2>1, <2>2, <2>3, <2>4 DEF Typed, CallsTyped, mainVars
  <1>12. CASE FinishConnection
    <2>1. /\ calls' = Told("connect", Answered(Last(waits).call, "yes", calls))
          /\ waits' = Front(waits)
          /\ UNCHANGED <<made, sends, queue, socketVars, serverVars>>
      BY <1>12 DEF FinishConnection
    <2>2. CallsTyped'
      BY <1>1, <2>1, ToldTyped
    <2>3. WaitsTyped'
      <3>1. waits # <<>>
        BY <1>12 DEF FinishConnection, WaitOver, Loop
      <3> QED  BY <1>1, <1>3, <2>1, <3>1, FrontOf, LenProperties DEF WaitsTyped, socketVars
    <2> QED
      BY <1>1, <2>1, <2>2, <2>3 DEF Typed, QueueTyped, SocketsTyped, ServerTyped, socketVars, serverVars
  <1>13. ASSUME NEW i \in DOMAIN queue, IgnoreDisconnect(i)
         PROVE  Typed'
    <2>1. queue' = RemoveAt(queue, i) /\ UNCHANGED <<mainVars, waits, socketVars, serverVars>>
      BY <1>13 DEF IgnoreDisconnect
    <2>2. QueueTyped'
      <3>1. RemoveAt(queue, i) \in Shorter
        BY DEF Shorter
      <3> QED  BY <1>1, <1>3, <2>1, <3>1, QueueStaysTyped DEF socketVars
    <2> QED
      BY <1>1, <2>1, <2>2
      DEF Typed, CallsTyped, WaitsTyped, SocketsTyped, ServerTyped, mainVars, socketVars, serverVars
  \* A socket is closed, and a deletion posted or not.
  <1>14. ASSUME NEW i \in DOMAIN queue, NEW q \in {queue, RemoveAt(queue, i)}, NEW s \in Sockets, s <= opened,
                NEW st \in {"closed", "deleted"}, state' = [state EXCEPT ![s] = st],
                queue' \in {q, Append(q, DeleteLater(s))}, NEW how \in {"quit", "drain"},
                waits' = Quit(s, how) \/ waits' = waits, opened' = opened, live' \subseteq live
         PROVE  SocketsTyped' /\ WaitsTyped' /\ QueueTyped'
    <2>1. SocketsTyped'
      BY <1>1, <1>14, CloseTyped
    <2>2. WaitsTyped'
      BY <1>1, <1>14, QuitTyped
    <2>3. q \in Shorter
      BY <1>14 DEF Shorter
    <2>4. DeleteLater(s) \in Event /\ DeleteLater(s).socket <= opened'
      BY <1>1, <1>14, DeleteIsEvent
    <2>5. QueueTyped'
      BY <1>1, <1>3, <1>14, <2>3, <2>4, QueueStaysTyped
    <2> QED  BY <2>1, <2>2, <2>5
  <1>15. ASSUME NEW i \in DOMAIN queue, CloseSocket(i)
         PROVE  Typed'
    <2>1. m_socket # Null /\ m_socket = opened /\ opened \in Sockets /\ opened <= opened
      BY <1>1, <1>3, <1>15, SocketOf DEF CloseSocket
    <2>2. /\ state' = [state EXCEPT ![opened] = "deleted"]
          /\ queue' \in {RemoveAt(queue, i), Append(RemoveAt(queue, i), DeleteLater(opened))}
          /\ waits' = Quit(opened, "drain") \/ waits' = waits
          /\ calls' = Told("disconnect", calls)
          /\ UNCHANGED <<made, sends, opened, live, serverVars>>
      BY <1>15, <2>1 DEF CloseSocket
    <2>3. SocketsTyped' /\ WaitsTyped' /\ QueueTyped'
      BY <1>14, <2>1, <2>2
    <2>4. CallsTyped'
      BY <1>1, <2>2, ToldTyped
    <2> QED  BY <1>1, <2>2, <2>3, <2>4 DEF Typed, ServerTyped, serverVars
  <1>16. ASSUME NEW i \in DOMAIN queue, SendCallRequest(i)
         PROVE  Typed'
    <2>1. UNCHANGED <<mainVars, opened, live, toClient, registered, left>>
      BY <1>16 DEF SendCallRequest
    <2>2. CASE queue' = RemoveAt(queue, i) /\ UNCHANGED <<waits, state, toServer>>
      <3>1. RemoveAt(queue, i) \in Shorter
        BY DEF Shorter
      <3>2. QueueTyped'
        BY <1>1, <1>3, <2>1, <2>2, <3>1, QueueStaysTyped
      <3> QED
        BY <1>1, <2>1, <2>2, <3>2
        DEF Typed, CallsTyped, WaitsTyped, SocketsTyped, ServerTyped, mainVars
    <2>3. ASSUME m_connection # Null, queue' = RemoveAt(queue, i), UNCHANGED <<waits, state>>,
                 toServer' = [toServer EXCEPT ![opened] = Append(@, "call")]
          PROVE  Typed'
      <3>1. RemoveAt(queue, i) \in Shorter
        BY DEF Shorter
      <3>2. QueueTyped'
        BY <1>1, <1>3, <2>1, <2>3, <3>1, QueueStaysTyped
      <3>3. opened \in Sockets
        BY <1>1, <2>3, SocketOf
      <3>4. ServerTyped'
        <4>1. Append(toServer[opened], "call") \in Seq({"init", "call"})
          BY <1>1, <3>3, AppendProperties DEF ServerTyped
        <4>2. toServer' \in [Sockets -> Seq({"init", "call"})]
          BY <1>1, <2>3, <4>1 DEF ServerTyped
        <4>3. \A t \in Sockets : t > opened' => toServer'[t] = <<>>
          BY <1>1, <1>3, <2>1, <2>3 DEF ServerTyped, Sockets
        <4> QED  BY <1>1, <2>1, <4>2, <4>3 DEF ServerTyped
      <3> QED
        BY <1>1, <2>1, <2>3, <3>2, <3>4
        DEF Typed, CallsTyped, WaitsTyped, SocketsTyped, mainVars
    <2>4. ASSUME m_connection # Null, state' = [state EXCEPT ![opened] = "closed"],
                 queue' = Append(RemoveAt(queue, i), DeleteLater(opened)),
                 waits' = Quit(opened, "drain"), UNCHANGED toServer
          PROVE  Typed'
      <3>1. opened \in Sockets /\ opened <= opened
        BY <1>1, <1>3, <2>4, SocketOf
      <3>2. SocketsTyped' /\ WaitsTyped' /\ QueueTyped'
        BY <1>14, <2>1, <2>4, <3>1
      <3> QED  BY <1>1, <2>1, <2>4, <3>2 DEF Typed, CallsTyped, ServerTyped, mainVars
    <2> QED  BY <1>16, <2>2, <2>3, <2>4 DEF SendCallRequest
  <1>17. ASSUME NEW i \in DOMAIN queue, DeleteConnection(i)
         PROVE  Typed'
    <2>1. /\ queue[i].kind = "delete" /\ live' = live \ {queue[i].socket}
          /\ state' = [state EXCEPT ![queue[i].socket] = "deleted"]
          /\ queue' = RemoveAt(queue, i)
          /\ UNCHANGED <<mainVars, waits, opened, serverVars>>
      BY <1>17 DEF DeleteConnection, Takes
    <2>2. queue[i].socket \in Sockets /\ queue[i].socket <= opened
      BY <1>1, <2>1, EventOf
    <2>3. SocketsTyped' /\ WaitsTyped' /\ QueueTyped'
      BY <1>14, <2>1, <2>2
    <2> QED  BY <1>1, <2>1, <2>3 DEF Typed, CallsTyped, ServerTyped, mainVars, serverVars
  <1>18. ASSUME NEW s \in Sockets, ReadReply(s)
         PROVE  Typed'
    <2>1. /\ toClient[s] # <<>> /\ toClient' = [toClient EXCEPT ![s] = Tail(@)]
          /\ waits' = Quit(s, "quit")
          /\ UNCHANGED <<mainVars, queue, socketVars, toServer, registered, left>>
      BY <1>18 DEF ReadReply
    <2>2. WaitsTyped'
      BY <1>1, <2>1, QuitTyped DEF socketVars
    <2>3. toClient' \in [Sockets -> Seq({"response", "error"})]
      <3>1. Tail(toClient[s]) \in Seq({"response", "error"})
        BY <1>1, <2>1, HeadTailProperties DEF ServerTyped
      <3> QED  BY <1>1, <2>1, <3>1 DEF ServerTyped
    <2> QED
      BY <1>1, <2>1, <2>2, <2>3
      DEF Typed, CallsTyped, QueueTyped, SocketsTyped, ServerTyped, mainVars, socketVars
  <1>19. ASSUME NEW s \in Sockets, NoticeDisconnect(s)
         PROVE  Typed'
    <2>1. /\ s \in live /\ state' = [state EXCEPT ![s] = "closed"]
          /\ queue' = Append(queue, DeleteLater(s)) /\ waits' = Quit(s, "quit")
          /\ UNCHANGED <<mainVars, opened, live, serverVars>>
      BY <1>19 DEF NoticeDisconnect
    <2>2. s <= opened
      BY <1>1, <1>3, <2>1 DEF SocketsTyped
    <2>3. SocketsTyped' /\ WaitsTyped'
      BY <1>1, <2>1, <2>2, CloseTyped, QuitTyped
    <2>4. QueueTyped'
      <3>1. DeleteLater(s) \in Event /\ DeleteLater(s).socket <= opened'
        BY <1>1, <2>1, <2>2, DeleteIsEvent
      <3> QED  BY <1>1, <1>3, <2>1, <3>1, QueueStaysTyped
    <2> QED  BY <1>1, <2>1, <2>3, <2>4 DEF Typed, CallsTyped, ServerTyped, mainVars, serverVars
  <1>20. ASSUME NEW s \in Sockets, Handle(s)
         PROVE  Typed'
    <2>1. /\ toServer[s] # <<>> /\ toServer' = [toServer EXCEPT ![s] = Tail(@)]
          /\ registered' \in {registered, registered \cup {s}}
          /\ \/ toClient' = toClient
             \/ \E m \in {"response", "error"} : toClient' = [toClient EXCEPT ![s] = Append(@, m)]
          /\ UNCHANGED <<mainVars, queue, waits, socketVars, left>>
      BY <1>20 DEF Handle
    <2>2. s \in 1..opened
      BY <1>1, <1>3, <2>1 DEF ServerTyped, Sockets
    <2>3. toServer' \in [Sockets -> Seq({"init", "call"})]
      <3>1. Tail(toServer[s]) \in Seq({"init", "call"})
        BY <1>1, <2>1, HeadTailProperties DEF ServerTyped
      <3> QED  BY <1>1, <2>1, <3>1 DEF ServerTyped
    <2>4. toClient' \in [Sockets -> Seq({"response", "error"})]
      <3>1. \A m \in {"response", "error"} : Append(toClient[s], m) \in Seq({"response", "error"})
        BY <1>1, AppendProperties DEF ServerTyped
      <3> QED  BY <1>1, <2>1, <3>1 DEF ServerTyped
    <2>5. \A t \in Sockets : t > opened' => toServer'[t] = <<>>
      BY <1>1, <1>3, <2>1, <2>2 DEF ServerTyped, socketVars
    <2>6. registered' \subseteq 1..opened' /\ left' \subseteq 1..opened'
      BY <1>1, <2>1, <2>2 DEF ServerTyped, socketVars
    <2> QED
      BY <1>1, <2>1, <2>3, <2>4, <2>5, <2>6
      DEF Typed, CallsTyped, QueueTyped, WaitsTyped, SocketsTyped, ServerTyped, mainVars, socketVars
  <1>21. ASSUME NEW s \in Sockets, Leave(s)
         PROVE  Typed'
    <2>1. /\ state[s] = "open" /\ left' = left \cup {s}
          /\ toServer' = [toServer EXCEPT ![s] = <<>>]
          /\ UNCHANGED <<mainVars, queue, waits, socketVars, toClient, registered>>
      BY <1>21 DEF Leave
    <2>2. s \in 1..opened
      BY <1>1, <1>3, <2>1 DEF SocketsTyped, Sockets
    <2>3. ServerTyped'
      BY <1>1, <2>1, <2>2 DEF ServerTyped, socketVars
    <2> QED
      BY <1>1, <2>1, <2>3
      DEF Typed, CallsTyped, QueueTyped, WaitsTyped, SocketsTyped, mainVars, socketVars
  <1>22. CASE UNCHANGED vars
    BY <1>1, <1>22
    DEF Typed, CallsTyped, QueueTyped, WaitsTyped, SocketsTyped, ServerTyped, vars, mainVars, socketVars,
        serverVars
  <1> QED
    BY <1>5, <1>6, <1>7, <1>8, <1>9, <1>10, <1>11, <1>12, <1>13, <1>15, <1>16, <1>17, <1>18, <1>19, <1>20,
       <1>21, <1>22
    DEF Next, Worker, Server

LEMMA TypedTypes == Typed => TypeOK
PROOF
  <1> SUFFICES ASSUME Typed PROVE TypeOK
    OBVIOUS
  <1>1. calls \in BoundedSeq(Call, MaxNested)
    <2>1. Len(calls) \in 0..MaxNested /\ calls \in [1..Len(calls) -> Call]
      BY BoundsAssumption, LenProperties, ElementOfSeq DEF Typed, CallsTyped
    <2> QED  BY <2>1 DEF BoundedSeq, SeqOf
  <1>2. waits \in BoundedSeq(Wait, MaxSockets)
    <2>1. Len(waits) \in 0..MaxSockets /\ waits \in [1..Len(waits) -> Wait]
      BY BoundsAssumption, LenProperties, ElementOfSeq DEF Typed, WaitsTyped, SocketsTyped
    <2> QED  BY <2>1 DEF BoundedSeq, SeqOf
  <1> QED
    BY <1>1, <1>2 DEF Typed, CallsTyped, QueueTyped, SocketsTyped, ServerTyped, TypeOK, Kinds

\* In every reachable state, whatever applications call while another call blocks and
\* whatever goes wrong, requests, waits, sockets and messages are what the worker
\* (CuteIPCInterfaceWorker) takes them for: a deletion is left to a loop that exists,
\* and every wait has a socket of its own (type correctness).
THEOREM WorkerTyped == Spec => []TypeOK
  BY TypedStart, TypedStep, TypedTypes, PTL DEF Spec

-----------------------------------------------------------------------------
(* The order of events                                                     *)

\* The queue without its i-th event, or the whole of it, and where its events were.
QueueBut(i) == IF i = 0 THEN queue ELSE RemoveAt(queue, i)
LenBut(i) == IF i = 0 THEN Len(queue) ELSE Len(queue) - 1
Before(i, k) == IF i # 0 /\ k >= i THEN k + 1 ELSE k

LEMMA Moves ==
    ASSUME QueueTyped, NEW i \in {0} \cup DOMAIN queue, NEW e \in Event,
           queue' \in {QueueBut(i), Append(QueueBut(i), e)}
    PROVE  /\ LenBut(i) \in Nat /\ DOMAIN queue' = 1..Len(queue')
           /\ \/ Len(queue') = LenBut(i) /\ queue' = QueueBut(i)
              \/ Len(queue') = LenBut(i) + 1 /\ queue'[LenBut(i) + 1] = e
           /\ queue' = Append(QueueBut(i), e) => Len(queue') = LenBut(i) + 1
           /\ queue' = QueueBut(i) => Len(queue') = LenBut(i)
           /\ \A k \in DOMAIN queue' : k \in 1..LenBut(i) \/ queue'[k] = e
           /\ \A k \in 1..LenBut(i) : k \in 1..Len(queue') /\ k \in Nat /\ k <= LenBut(i)
           /\ \A k \in 1..LenBut(i), l \in DOMAIN queue' : l < k => l \in 1..LenBut(i)
           /\ \A k \in 1..LenBut(i) :
                 Before(i, k) \in DOMAIN queue /\ Before(i, k) # i /\ queue'[k] = queue[Before(i, k)]
           /\ \A j \in DOMAIN queue : j # i => \E k \in 1..LenBut(i) : Before(i, k) = j
PROOF
  <1>1. /\ queue \in Seq(Event) /\ Len(queue) \in Nat /\ DOMAIN queue = 1..Len(queue)
        /\ i \in Nat /\ (i # 0 => i \in 1..Len(queue))
    BY LenProperties DEF QueueTyped
  <1>2. /\ QueueBut(i) \in Seq(Event) /\ Len(QueueBut(i)) = LenBut(i) /\ LenBut(i) \in Nat
        /\ \A k \in 1..LenBut(i) : QueueBut(i)[k] = queue[Before(i, k)]
    <2>1. CASE i = 0
      BY <1>1, <2>1 DEF QueueBut, LenBut, Before
    <2>2. CASE i # 0
      <3>1. /\ RemoveAt(queue, i) \in Seq(Event) /\ Len(RemoveAt(queue, i)) = Len(queue) - 1
            /\ \A k \in 1..(Len(queue) - 1) :
                  RemoveAt(queue, i)[k] = IF k < i THEN queue[k] ELSE queue[k + 1]
        BY <1>1, <2>2, Removed
      <3>2. \A k \in 1..(Len(queue) - 1) : Before(i, k) = IF k < i THEN k ELSE k + 1
        BY <1>1, <2>2 DEF Before
      <3>3. QueueBut(i) = RemoveAt(queue, i) /\ LenBut(i) = Len(queue) - 1
        BY <2>2 DEF QueueBut, LenBut
      <3>4. Len(queue) - 1 \in Nat
        BY <1>1, <2>2
      <3> QED  BY <3>1, <3>2, <3>3, <3>4
    <2> QED  BY <2>1, <2>2
  <1>3. \A k \in 1..LenBut(i) : Before(i, k) \in 1..Len(queue) /\ Before(i, k) # i
    BY <1>1 DEF LenBut, Before
  <1>4. \A j \in 1..Len(queue) : j # i => \E k \in 1..LenBut(i) : Before(i, k) = j
    <2> SUFFICES ASSUME NEW j \in 1..Len(queue), j # i
                 PROVE  \E k \in 1..LenBut(i) : Before(i, k) = j
      OBVIOUS
    <2>1. CASE i # 0 /\ j > i
      <3>1. j - 1 \in 1..LenBut(i) /\ Before(i, j - 1) = j
        BY <1>1, <2>1 DEF LenBut, Before
      <3> QED  BY <3>1
    <2>2. CASE i = 0 \/ j < i
      <3>1. j \in 1..LenBut(i) /\ Before(i, j) = j
        BY <1>1, <2>2 DEF LenBut, Before
      <3> QED  BY <3>1
    <2> QED  BY <1>1, <2>1, <2>2
  <1>5. \A k \in 1..LenBut(i) : k \in Nat /\ k <= LenBut(i) /\ k >= 1
    BY <1>1 DEF LenBut
  <1>6. CASE queue' = QueueBut(i)
    <2>1. Len(Append(QueueBut(i), e)) = LenBut(i) + 1
      BY <1>2, AppendProperties
    <2>2. queue' # Append(QueueBut(i), e)
      BY <1>2, <1>6, <2>1
    <2>3. DOMAIN queue' = 1..Len(queue')
      BY <1>2, <1>6, LenProperties
    <2> QED  BY <1>1, <1>2, <1>3, <1>4, <1>5, <1>6, <2>2, <2>3
  <1>7. CASE queue' = Append(QueueBut(i), e)
    <2>1. /\ queue' \in Seq(Event) /\ Len(queue') = LenBut(i) + 1 /\ queue'[LenBut(i) + 1] = e
          /\ \A k \in 1..LenBut(i) : queue'[k] = QueueBut(i)[k]
      BY <1>2, <1>7, AppendProperties
    <2>2. DOMAIN queue' = 1..Len(queue')
      BY <2>1, LenProperties
    <2>3. queue' # QueueBut(i)
      BY <1>2, <2>1
    <2> QED  BY <1>1, <1>2, <1>3, <1>4, <1>5, <2>1, <2>2, <2>3
  <1> QED  BY <1>6, <1>7

-----------------------------------------------------------------------------
(* One attempt at a time                                                   *)

LEMMA AttemptsStart == Init => OneAttempt /\ Confirmed
PROOF
  <1> SUFFICES ASSUME Init PROVE OneAttempt /\ Confirmed
    OBVIOUS
  <1>1. OneAttempt
    BY DEF Init, OneAttempt, OneConnect, OneWait, OuterConnect
  <1>2. Confirmed
    BY DEF Init, Confirmed, IdFirst, EndOfWait, Answer
  <1> QED  BY <1>1, <1>2

\* No attempt is posted.
LEMMA AttemptKept ==
    ASSUME Typed, OneAttempt, NEW i \in {0} \cup DOMAIN queue, NEW e \in Event, e.kind # "connect",
           queue' \in {QueueBut(i), Append(QueueBut(i), e)},
           NEW s, NEW how \in {"quit", "drain"}, waits' = Quit(s, how) \/ waits' = waits,
           opened' = opened, \A id : Pending(calls, id) => Pending(calls', id), OuterConnect'
    PROVE  OneAttempt'
PROOF
  <1>1. Len(waits') = Len(waits) /\ Len(waits) \in Nat
        /\ (waits = <<>> => waits' = <<>>) /\ (waits' # <<>> => waits # <<>>)
    <2>1. waits \in Seq(Wait) /\ waits' \in Seq(Wait) /\ Len(waits') = Len(waits)
      BY QuitKeeps DEF Typed, WaitsTyped
    <2> QED  BY <2>1, EmptySeq, LenProperties
  <1>2. OneConnect'
    <2> SUFFICES ASSUME NEW k \in DOMAIN queue', queue'[k].kind = "connect"
                 PROVE  /\ waits' = <<>> /\ Pending(calls', queue'[k].call)
                        /\ \A l \in DOMAIN queue' : queue'[l].kind = "connect" => l = k
      BY DEF OneConnect
    <2>1. \A l \in DOMAIN queue' : queue'[l].kind = "connect" =>
            /\ l \in 1..LenBut(i) /\ Before(i, l) \in DOMAIN queue /\ queue'[l] = queue[Before(i, l)]
      BY Moves DEF Typed
    <2>2. Pending(calls, queue[Before(i, k)].call) /\ waits = <<>>
      BY <2>1 DEF OneAttempt, OneConnect
    <2>3. ASSUME NEW l \in DOMAIN queue', queue'[l].kind = "connect" PROVE l = k
      <3>1. Before(i, l) = Before(i, k)
        BY <2>1, <2>3 DEF OneAttempt, OneConnect
      <3>2. l \in 1..LenBut(i) /\ k \in 1..LenBut(i) /\ LenBut(i) \in Nat
        BY <2>1, <2>3, Moves DEF Typed
      <3>3. i \in Nat
        BY LenProperties DEF Typed, QueueTyped
      <3> QED  BY <3>1, <3>2, <3>3 DEF Before
    <2>4. Pending(calls', queue'[k].call)
      <3>1. Pending(calls', queue[Before(i, k)].call)
        BY <2>2
      <3> QED  BY <2>1, <3>1
    <2> QED  BY <1>1, <2>2, <2>3, <2>4
  <1>3. OneWait'
    <2>1. ASSUME waits' # <<>> PROVE Pending(calls', waits'[1].call) /\ waits'[1].socket = opened'
      <3>1. waits # <<>> /\ 1 \in DOMAIN waits
        BY <1>1, <2>1, EmptySeq, LenProperties DEF Typed, WaitsTyped
      <3>2. waits'[1].call = waits[1].call /\ waits'[1].socket = waits[1].socket
        BY <3>1, QuitKeeps DEF Typed, WaitsTyped
      <3> QED  BY <3>1, <3>2 DEF OneAttempt, OneWait
    <2> QED  BY <1>1, <2>1 DEF OneAttempt, OneWait
  <1> QED  BY <1>2, <1>3 DEF OneAttempt

\* The attempt is taken from the queue: there is no other.
LEMMA AttemptTaken ==
    ASSUME Typed, OneAttempt, NEW i \in DOMAIN queue, queue[i].kind = "connect",
           NEW e \in Event, e.kind # "connect", queue' \in {RemoveAt(queue, i), Append(RemoveAt(queue, i), e)}
    PROVE  /\ \A k \in DOMAIN queue' : queue'[k].kind # "connect"
           /\ waits = <<>> /\ Pending(calls, queue[i].call)
PROOF
  <1>1. QueueBut(i) = RemoveAt(queue, i)
    BY LenProperties DEF QueueBut, Typed, QueueTyped
  <1>2. ASSUME NEW k \in DOMAIN queue', queue'[k].kind = "connect" PROVE FALSE
    <2>1. k \in 1..LenBut(i)
      <3>1. QueueTyped /\ i \in {0} \cup DOMAIN queue /\ queue' \in {QueueBut(i), Append(QueueBut(i), e)}
        BY <1>1 DEF Typed
      <3>2. k \in 1..LenBut(i) \/ queue'[k] = e
        BY <3>1, Moves
      <3> QED  BY <1>2, <3>2
    <2>2. /\ Before(i, k) \in DOMAIN queue /\ Before(i, k) # i /\ queue'[k] = queue[Before(i, k)]
      BY <1>1, <2>1, Moves DEF Typed
    <2> QED  BY <1>2, <2>2 DEF OneAttempt, OneConnect
  <1> QED  BY <1>2 DEF OneAttempt, OneConnect

LEMMA PendingStays ==
    ASSUME CallsTyped, NEW id, Pending(calls, id),
           \/ calls' = calls \/ calls' = Told("disconnect", calls)
           \/ \E kind \in {"connect", "disconnect"} : Block(kind)
           \/ Return
    PROVE  Pending(calls', id)
PROOF
  <1>1. calls \in Seq(Call) /\ Len(calls) \in Nat /\ Len(calls) >= 1 /\ 1 \in DOMAIN calls
    BY EmptySeq, LenProperties DEF CallsTyped, Pending
  <1>2. CASE calls' = calls
    BY <1>2
  <1>3. CASE calls' = Told("disconnect", calls)
    <2>1. calls'[1] = calls[1] /\ Len(calls') = Len(calls)
      BY <1>1, <1>3, ToldKeeps DEF Pending
    <2>2. calls' # <<>>
      BY <1>1, <2>1
    <2> QED  BY <2>1, <2>2 DEF Pending
  <1>4. ASSUME NEW kind \in {"connect", "disconnect"}, Block(kind)
        PROVE  Pending(calls', id)
    <2>1. calls'[1] = calls[1] /\ Len(calls') = Len(calls) + 1
      BY <1>1, <1>4, BlockAdds
    <2>2. calls' # <<>>
      BY <1>1, <2>1
    <2> QED  BY <2>1, <2>2 DEF Pending
  <1>5. CASE Return
    <2>1. calls' = Front(calls) /\ calls[Len(calls)].quit
      BY <1>1, <1>5, FrontOf, EmptySeq DEF Return
    <2>2. Len(calls) # 1
      BY <2>1 DEF Pending
    <2>3. calls' \in Seq(Call) /\ Len(calls') = Len(calls) - 1
      BY <1>1, <2>1, FrontOf, EmptySeq
    <2>4. 1 \in DOMAIN calls' /\ calls' # <<>>
      BY <1>1, <2>2, <2>3, LenProperties, EmptySeq
    <2>5. calls'[1] = calls[1]
      BY <1>1, <2>1, <2>4, FrontOf, EmptySeq
    <2> QED  BY <2>4, <2>5 DEF Pending
  <1> QED  BY <1>2, <1>3, <1>4, <1>5

LEMMA OuterStays ==
    ASSUME CallsTyped, OuterConnect,
           \/ calls' = calls \/ calls' = Told("disconnect", calls)
           \/ \E id, c : c \in {"yes", "no"} /\ calls' = Told("connect", Answered(id, c, calls))
           \/ Block("disconnect") \/ Return
    PROVE  OuterConnect'
PROOF
  <1>1. calls \in Seq(Call) /\ Len(calls) \in Nat /\ DOMAIN calls = 1..Len(calls)
    BY LenProperties DEF CallsTyped
  <1>2. CASE calls' = calls
    BY <1>2 DEF OuterConnect
  <1>3. CASE calls' = Told("disconnect", calls)
    BY <1>1, <1>3, ToldKeeps DEF OuterConnect
  <1>4. ASSUME NEW id, NEW c \in {"yes", "no"}, calls' = Told("connect", Answered(id, c, calls))
        PROVE  OuterConnect'
    <2> DEFINE a == Answered(id, c, calls)
    <2>1. a \in Seq(Call) /\ DOMAIN a = DOMAIN calls /\ \A i \in DOMAIN calls : a[i].kind = calls[i].kind
      BY <1>1, AnsweredKeeps
    <2> HIDE DEF a
    <2>2. DOMAIN calls' = DOMAIN a /\ \A i \in DOMAIN a : calls'[i].kind = a[i].kind
      BY <1>4, <2>1, ToldKeeps DEF a
    <2> QED  BY <2>1, <2>2 DEF OuterConnect
  <1>5. CASE Block("disconnect")
    <2>1. /\ DOMAIN calls' = 1..(Len(calls) + 1) /\ calls'[Len(calls) + 1].kind = "disconnect"
          /\ \A i \in 1..Len(calls) : calls'[i] = calls[i]
      BY <1>5, BlockAdds
    <2> QED  BY <1>1, <2>1 DEF OuterConnect
  <1>6. CASE Return
    <2>1. calls # <<>> /\ calls' = Front(calls)
      BY <1>6 DEF Return
    <2>2. \A i \in DOMAIN calls' : i \in DOMAIN calls /\ calls'[i] = calls[i]
      BY <1>1, <2>1, FrontOf
    <2> QED  BY <2>2 DEF OuterConnect
  <1> QED  BY <1>2, <1>3, <1>4, <1>5, <1>6

LEMMA AttemptStep ==
    ASSUME "connect" \notin Overlap, Typed, OneAttempt, [Next]_vars
    PROVE  OneAttempt'
PROOF
  <1>1. CallsTyped /\ QueueTyped /\ WaitsTyped /\ SocketsTyped
    BY DEF Typed
  <1>2. [kind |-> "send"] \in Event /\ [kind |-> "disconnect"] \in Event /\ "send" # "connect"
    BY DEF Event
  <1>3. /\ queue = QueueBut(0) /\ 0 \in {0} \cup DOMAIN queue
        /\ \A i \in DOMAIN queue : QueueBut(i) = RemoveAt(queue, i) /\ i \in {0} \cup DOMAIN queue
    BY LenProperties DEF QueueBut, Typed, QueueTyped
  <1>4. OneWait /\ OneConnect /\ OuterConnect
    BY DEF OneAttempt
  \* Nothing but deletions is posted, and calls are told about disconnections at most.
  <1>5. ASSUME NEW i \in {0} \cup DOMAIN queue, NEW e \in Event, e.kind # "connect",
               queue' \in {QueueBut(i), Append(QueueBut(i), e)},
               NEW s, NEW how \in {"quit", "drain"}, waits' = Quit(s, how) \/ waits' = waits,
               opened' = opened,
               \/ calls' = calls \/ calls' = Told("disconnect", calls)
               \/ Block("disconnect") \/ Return
        PROVE  OneAttempt'
    <2>1. \A id : Pending(calls, id) => Pending(calls', id)
      BY <1>1, <1>5, PendingStays
    <2>2. OuterConnect'
      BY <1>1, <1>4, <1>5, OuterStays
    <2> QED  BY <1>5, <2>1, <2>2, AttemptKept
  <1>6. CASE ConnectToServer
    <2>1. /\ Block("connect") /\ calls = <<>>
          /\ queue' = Append(queue, [kind |-> "connect", call |-> made + 1])
          /\ UNCHANGED <<waits, opened>>
      BY <1>6 DEF ConnectToServer, Block, May, socketVars
    <2>2. waits = <<>> /\ \A i \in DOMAIN queue : queue[i].kind # "connect"
      BY <1>4, <2>1 DEF OneWait, OneConnect, Pending
    <2>3. [kind |-> "connect", call |-> made + 1] \in Event
      BY <1>1, <2>1, BlockAdds DEF Event
    <2>4. /\ DOMAIN queue' = 1..(Len(queue) + 1) /\ Len(queue) \in Nat /\ DOMAIN queue = 1..Len(queue)
          /\ queue'[Len(queue) + 1] = [kind |-> "connect", call |-> made + 1]
          /\ \A i \in 1..Len(queue) : queue'[i] = queue[i]
      <3>1. queue' \in Seq(Event) /\ Len(queue') = Len(queue) + 1
        BY <1>1, <2>1, <2>3, AppendProperties DEF QueueTyped
      <3> QED  BY <1>1, <2>1, <2>3, <3>1, AppendProperties, LenProperties DEF QueueTyped
    <2>5. \A i \in DOMAIN queue' : queue'[i].kind = "connect" => i = Len(queue) + 1
      BY <2>2, <2>4
    <2>6. /\ DOMAIN calls' = 1..1 /\ calls' # <<>>
          /\ calls'[1] = [id |-> made + 1, kind |-> "connect", quit |-> FALSE, connected |-> "unset"]
      <3>1. Len(calls) = 0
        BY <2>1, EmptySeq
      <3>2. /\ DOMAIN calls' = 1..1 /\ Len(calls') = 1
            /\ calls'[1] = [id |-> made + 1, kind |-> "connect", quit |-> FALSE, connected |-> "unset"]
        BY <1>1, <2>1, <3>1, BlockAdds
      <3> QED  BY <3>2
    <2>7. Pending(calls', made + 1)
      BY <2>6 DEF Pending
    <2>8. OneConnect'
      BY <2>1, <2>2, <2>4, <2>5, <2>7 DEF OneConnect
    <2>9. OneWait' /\ OuterConnect'
      BY <1>4, <2>1, <2>2, <2>6 DEF OneWait, OuterConnect
    <2> QED  BY <2>8, <2>9 DEF OneAttempt
  <1>7. CASE DisconnectFromServer
    <2>1. /\ Block("disconnect") /\ queue' = Append(queue, [kind |-> "disconnect"])
          /\ UNCHANGED <<waits, opened>>
      BY <1>7 DEF DisconnectFromServer, Block, socketVars
    <2> QED  BY <1>2, <1>3, <1>5, <2>1
  <1>8. CASE CallNoReply
    <2>1. /\ queue' = Append(queue, [kind |-> "send"]) /\ UNCHANGED <<calls, waits, opened>>
      BY <1>8 DEF CallNoReply, socketVars
    <2> QED  BY <1>2, <1>3, <1>5, <2>1
  <1>9. CASE Return
    <2>1. UNCHANGED <<queue, waits, opened>>
      BY <1>9 DEF Return, socketVars
    <2> QED  BY <1>2, <1>3, <1>5, <1>9, <2>1
  <1>10. ASSUME NEW i \in DOMAIN queue, RefuseConnection(i)
         PROVE  OneAttempt'
    <2>1. /\ queue[i].kind = "connect" /\ queue' = RemoveAt(queue, i) /\ UNCHANGED waits
          /\ calls' = Told("connect", Answered(queue[i].call, "no", calls))
      BY <1>10 DEF RefuseConnection, Takes
    <2>2. /\ \A k \in DOMAIN queue' : queue'[k].kind # "connect"
          /\ waits = <<>>
      BY <1>2, <2>1, AttemptTaken
    <2>3. OuterConnect'
      BY <1>1, <1>4, <2>1, OuterStays
    <2> QED  BY <1>4, <2>1, <2>2, <2>3 DEF OneAttempt, OneConnect, OneWait
  <1>11. ASSUME NEW i \in DOMAIN queue, queue[i].kind = "connect", OpenSocket(i), UNCHANGED calls,
                NEW st \in {"open", "closed"}, state' = [state EXCEPT ![opened + 1] = st],
                queue' \in {RemoveAt(queue, i), Append(RemoveAt(queue, i), DeleteLater(opened + 1))}
         PROVE  OneAttempt'
    <2> DEFINE w == [socket |-> opened + 1, call |-> queue[i].call, loop |-> "running"]
    <2>1. /\ opened + 1 \in Sockets /\ opened' = opened + 1 /\ w \in Wait /\ waits' = Append(waits, w)
      BY <1>11, OpenTyped
    <2>2. DeleteLater(opened + 1) \in Event /\ DeleteLater(opened + 1).kind # "connect"
      BY <1>1, <2>1, DeleteIsEvent
    <2>3. /\ \A k \in DOMAIN queue' : queue'[k].kind # "connect"
          /\ waits = <<>> /\ Pending(calls, queue[i].call)
      BY <1>11, <2>2, AttemptTaken
    <2>4. Len(waits') = 1 /\ waits'[1] = w
      BY <2>1, <2>3
    <2>5. OneWait'
      BY <1>11, <2>1, <2>3, <2>4 DEF OneWait
    <2> QED  BY <1>4, <1>11, <2>3, <2>5 DEF OneAttempt, OneConnect, OuterConnect
  <1>12. ASSUME NEW i \in DOMAIN queue, OpenConnection(i)
         PROVE  OneAttempt'
    BY <1>11, <1>12 DEF OpenConnection, Takes, mainVars
  <1>13. ASSUME NEW i \in DOMAIN queue, OpenBrokenConnection(i)
         PROVE  OneAttempt'
    BY <1>11, <1>13 DEF OpenBrokenConnection, Takes, mainVars
  <1>14. CASE FinishConnection
    <2>1. /\ waits # <<>> /\ waits' = Front(waits) /\ UNCHANGED queue
          /\ calls' = Told("connect", Answered(Last(waits).call, "yes", calls))
      BY <1>14 DEF FinishConnection, WaitOver, Loop
    <2>2. waits' = <<>>
      <3>1. waits' \in Seq(Wait) /\ Len(waits') = Len(waits) - 1 /\ Len(waits) \in Nat
        BY <1>1, <2>1, FrontOf, LenProperties DEF WaitsTyped
      <3> QED  BY <1>4, <3>1, EmptySeq, LenProperties DEF OneWait
    <2>3. \A i \in DOMAIN queue : queue[i].kind # "connect"
      BY <1>4, <2>1 DEF OneConnect
    <2>4. OuterConnect'
      BY <1>1, <1>4, <2>1, OuterStays
    <2>5. OneConnect' /\ OneWait'
      BY <2>1, <2>2, <2>3 DEF OneConnect, OneWait
    <2> QED  BY <2>4, <2>5 DEF OneAttempt
  <1>15. ASSUME NEW i \in DOMAIN queue, IgnoreDisconnect(i)
         PROVE  OneAttempt'
    <2>1. queue' = RemoveAt(queue, i) /\ UNCHANGED <<calls, waits, opened>>
      BY <1>15 DEF IgnoreDisconnect, mainVars, socketVars
    <2> QED  BY <1>2, <1>3, <1>5, <2>1
  <1>16. ASSUME NEW i \in DOMAIN queue, CloseSocket(i)
         PROVE  OneAttempt'
    <2>1. m_socket \in Sockets
      BY <1>1, <1>16, SocketOf DEF CloseSocket
    <2>2. DeleteLater(m_socket) \in Event /\ DeleteLater(m_socket).kind # "connect"
      BY <1>1, <2>1, DeleteIsEvent
    <2>3. /\ queue' \in {RemoveAt(queue, i), Append(RemoveAt(queue, i), DeleteLater(m_socket))}
          /\ waits' = Quit(m_socket, "drain") \/ waits' = waits
          /\ calls' = Told("disconnect", calls) /\ opened' = opened
      BY <1>16 DEF CloseSocket
    <2> QED  BY <1>3, <1>5, <2>2, <2>3
  <1>17. ASSUME NEW i \in DOMAIN queue, SendCallRequest(i)
         PROVE  OneAttempt'
    <2>1. UNCHANGED <<calls, opened>>
      BY <1>17 DEF SendCallRequest, mainVars
    <2>2. CASE queue' = RemoveAt(queue, i) /\ UNCHANGED waits
      BY <1>2, <1>3, <1>5, <2>1, <2>2
    <2>3. CASE /\ m_connection # Null /\ waits' = Quit(opened, "drain")
               /\ queue' = Append(RemoveAt(queue, i), DeleteLater(opened))
      <3>1. opened \in Sockets
        BY <1>1, <2>3, SocketOf
      <3>2. DeleteLater(opened) \in Event /\ DeleteLater(opened).kind # "connect"
        BY <1>1, <3>1, DeleteIsEvent
      <3> QED  BY <1>3, <1>5, <2>1, <2>3, <3>2
    <2> QED  BY <1>17, <2>2, <2>3 DEF SendCallRequest
  <1>18. ASSUME NEW i \in DOMAIN queue, DeleteConnection(i)
         PROVE  OneAttempt'
    <2>1. queue' = RemoveAt(queue, i) /\ UNCHANGED <<calls, waits, opened>>
      BY <1>18 DEF DeleteConnection, mainVars
    <2> QED  BY <1>2, <1>3, <1>5, <2>1
  <1>19. ASSUME NEW s \in Sockets, ReadReply(s)
         PROVE  OneAttempt'
    <2>1. waits' = Quit(s, "quit") /\ UNCHANGED <<queue, calls, opened>>
      BY <1>19 DEF ReadReply, mainVars, socketVars
    <2> QED  BY <1>2, <1>3, <1>5, <2>1
  <1>20. ASSUME NEW s \in Sockets, NoticeDisconnect(s)
         PROVE  OneAttempt'
    <2>1. /\ waits' = Quit(s, "quit") /\ queue' = Append(queue, DeleteLater(s))
          /\ UNCHANGED <<calls, opened>>
      BY <1>20 DEF NoticeDisconnect, mainVars
    <2>2. DeleteLater(s) \in Event /\ DeleteLater(s).kind # "connect"
      BY <1>1, DeleteIsEvent
    <2> QED  BY <1>3, <1>5, <2>1, <2>2
  <1>21. ASSUME NEW s \in Sockets, Handle(s) \/ Leave(s)
         PROVE  OneAttempt'
    <2>1. UNCHANGED <<queue, waits, calls, opened>>
      BY <1>21 DEF Handle, Leave, mainVars, socketVars
    <2> QED  BY <1>2, <1>3, <1>5, <2>1
  <1>22. CASE UNCHANGED vars
    BY <1>2, <1>3, <1>5, <1>22 DEF vars, mainVars, socketVars
  <1> QED
    BY <1>6, <1>7, <1>8, <1>9, <1>10, <1>12, <1>13, <1>14, <1>15, <1>16, <1>17, <1>18, <1>19, <1>20, <1>21,
       <1>22
    DEF Next, Worker, Server

\* As long as the worker is to attempt a connection, its caller waits for it.
LEMMA AttemptTells == Typed /\ OneAttempt => CallerWaits
PROOF
  <1> SUFFICES ASSUME Typed, OneAttempt PROVE CallerWaits
    OBVIOUS
  <1>1. ASSUME NEW id, Pending(calls, id)
        PROVE  \E i \in DOMAIN calls : calls[i].id = id /\ ~calls[i].quit
    <2>1. 1 \in DOMAIN calls
      BY <1>1, EmptySeq, LenProperties DEF Pending, Typed, CallsTyped
    <2> QED  BY <1>1, <2>1 DEF Pending
  <1>2. ASSUME NEW i \in DOMAIN queue, queue[i].kind = "connect"
        PROVE  Pending(calls, queue[i].call)
    BY <1>2 DEF OneAttempt, OneConnect
  <1>3. ASSUME NEW i \in DOMAIN waits PROVE Pending(calls, waits[i].call)
    <2>1. waits # <<>> /\ i = 1
      BY <1>3, EmptySeq, LenProperties DEF OneAttempt, OneWait, Typed, WaitsTyped
    <2> QED  BY <2>1 DEF OneAttempt, OneWait
  <1> QED  BY <1>1, <1>2, <1>3 DEF CallerWaits

\* What is known of a socket stays known.
LEMMA EndOfWaitKept ==
    ASSUME WaitsTyped, EndOfWait, Known \subseteq Known',
           NEW t, NEW how \in {"quit", "drain"},
           waits' = waits \/ (waits' = Quit(t, how) /\ t \in Known')
    PROVE  EndOfWait'
PROOF
  <1> SUFFICES ASSUME NEW i \in DOMAIN waits', waits'[i].loop # "running"
               PROVE  waits'[i].socket \in Known'
    BY DEF EndOfWait
  <1>1. /\ i \in DOMAIN waits /\ waits'[i].socket = waits[i].socket
        /\ waits[i].loop # "running" \/ (waits[i].socket = t /\ t \in Known')
    BY QuitKeeps DEF WaitsTyped
  <1> QED  BY <1>1 DEF EndOfWait

LEMMA AnswerKept ==
    ASSUME CallsTyped, SocketsTyped, Answer, opened' = opened,
           Known \subseteq Known',
           \/ calls' = calls \/ calls' = Told("disconnect", calls)
           \/ \E kind \in {"connect", "disconnect"} : Block(kind)
           \/ Return
    PROVE  Answer'
PROOF
  <1> SUFFICES ASSUME calls' # <<>>, calls'[1].kind = "connect", calls'[1].connected = "yes"
               PROVE  opened' \in Known'
    BY DEF Answer
  <1>1. calls \in Seq(Call) /\ Len(calls) \in Nat /\ DOMAIN calls = 1..Len(calls)
    BY LenProperties DEF CallsTyped
  <1>2. calls # <<>> /\ calls[1].kind = "connect" /\ calls[1].connected = "yes"
    <2>1. CASE calls' = calls
      BY <2>1
    <2>2. CASE calls' = Told("disconnect", calls)
      <3>1. Len(calls') = Len(calls) /\ calls' \in Seq(Call)
        BY <1>1, <2>2, ToldKeeps
      <3>2. calls # <<>> /\ 1 \in DOMAIN calls
        BY <1>1, <3>1, EmptySeq
      <3> QED  BY <1>1, <2>2, <3>2, ToldKeeps
    <2>3. ASSUME NEW kind \in {"connect", "disconnect"}, Block(kind)
          PROVE  calls # <<>> /\ calls[1].kind = "connect" /\ calls[1].connected = "yes"
      <3>1. /\ calls'[Len(calls) + 1].connected = "unset"
            /\ \A i \in 1..Len(calls) : calls'[i] = calls[i]
        BY <2>3, BlockAdds
      <3>2. 1 \in 1..Len(calls)
        BY <1>1, <3>1
      <3> QED  BY <1>1, <3>1, <3>2, EmptySeq
    <2>4. CASE Return
      <3>1. calls # <<>> /\ calls' = Front(calls)
        BY <2>4 DEF Return
      <3>2. calls' \in Seq(Call) /\ \A i \in DOMAIN calls' : calls'[i] = calls[i]
        BY <1>1, <3>1, FrontOf
      <3>3. 1 \in DOMAIN calls'
        BY <3>2, EmptySeq, LenProperties
      <3> QED  BY <3>1, <3>2, <3>3
    <2> QED  BY <2>1, <2>2, <2>3, <2>4
  <1> QED  BY <1>2 DEF Answer

LEMMA KnownGrows ==
    ASSUME opened' = opened, registered \subseteq registered', left \subseteq left',
           \A s \in 1..opened : state'[s] = "open" => state[s] = "open"
    PROVE  Known \subseteq Known'
  BY DEF Known

LEMMA ConfirmedStep ==
    ASSUME Typed, OneAttempt, Confirmed, "connect" \notin Overlap, [Next]_vars
    PROVE  Confirmed'
PROOF
  <1>1. CallsTyped /\ QueueTyped /\ WaitsTyped /\ SocketsTyped /\ ServerTyped /\ opened \in Nat
    BY BoundsAssumption DEF Typed, SocketsTyped
  <1>2. OneWait /\ OneConnect /\ OuterConnect /\ IdFirst /\ EndOfWait /\ Answer
    BY DEF OneAttempt, Confirmed
  \* Messages, waits and answers, where the step leaves the connection attempt alone.
  <1>3. ASSUME opened' = opened, registered' = registered, left' = left,
               \A s \in 1..opened : state'[s] = "open" => state[s] = "open",
               NEW t, NEW how \in {"quit", "drain"},
               waits' = waits \/ (waits' = Quit(t, how) /\ t \in Known'),
               \/ calls' = calls \/ calls' = Told("disconnect", calls)
               \/ \E kind \in {"connect", "disconnect"} : Block(kind)
               \/ Return
        PROVE  EndOfWait' /\ Answer'
    <2>1. Known \subseteq Known'
      BY <1>3, KnownGrows
    <2> QED  BY <1>1, <1>2, <1>3, <2>1, EndOfWaitKept, AnswerKept
  <1>4. ASSUME UNCHANGED <<opened, state, toServer, toClient, registered, left, waits>>,
               \/ calls' = calls
               \/ \E kind \in {"connect", "disconnect"} : Block(kind)
               \/ Return
        PROVE  Confirmed'
    BY <1>2, <1>3, <1>4 DEF Confirmed, IdFirst
  <1>5. CASE ConnectToServer \/ DisconnectFromServer
    <2>1. UNCHANGED <<opened, state, toServer, toClient, registered, left, waits>>
      BY <1>5 DEF ConnectToServer, DisconnectFromServer, Block, socketVars, serverVars
    <2> QED  BY <1>4, <1>5, <2>1 DEF ConnectToServer, DisconnectFromServer
  <1>6. CASE CallNoReply
    BY <1>4, <1>6 DEF CallNoReply, socketVars, serverVars
  <1>7. CASE Return
    BY <1>4, <1>7 DEF Return, socketVars, serverVars
  <1>8. ASSUME NEW i \in DOMAIN queue, RefuseConnection(i)
        PROVE  Confirmed'
    <2>1. /\ queue[i].kind = "connect" /\ calls' = Told("connect", Answered(queue[i].call, "no", calls))
          /\ UNCHANGED <<waits, opened, state, toServer, toClient, registered, left>>
      BY <1>8 DEF RefuseConnection, Takes, socketVars, serverVars
    <2>2. Pending(calls, queue[i].call)
      BY <1>2, <2>1 DEF OneConnect
    <2> DEFINE a == Answered(queue[i].call, "no", calls)
    <2>3. calls \in Seq(Call) /\ 1 \in DOMAIN calls
      BY <1>1, <2>2, EmptySeq, LenProperties DEF CallsTyped, Pending
    <2>4. a \in Seq(Call) /\ 1 \in DOMAIN a /\ a[1].connected = "no"
      BY <2>2, <2>3, AnsweredKeeps DEF Pending
    <2> HIDE DEF a
    <2>5. calls'[1].connected = "no"
      BY <2>1, <2>4, ToldKeeps DEF a
    <2> QED  BY <1>2, <2>1, <2>5 DEF Confirmed, IdFirst, EndOfWait, Answer, Known
  <1>9. ASSUME NEW i \in DOMAIN queue, queue[i].kind = "connect", OpenSocket(i), UNCHANGED calls,
               NEW st \in {"open", "closed"}, state' = [state EXCEPT ![opened + 1] = st], IdFirst'
        PROVE  Confirmed'
    <2> DEFINE w == [socket |-> opened + 1, call |-> queue[i].call, loop |-> "running"]
    <2>1. w \in Wait /\ waits' = Append(waits, w)
      BY <1>9, OpenTyped
    <2>2. waits = <<>> /\ Pending(calls, queue[i].call)
      BY <1>2, <1>9 DEF OneConnect
    <2>3. DOMAIN waits' = 1..1 /\ waits'[1] = w
      BY <2>1, <2>2
    <2>4. EndOfWait'
      BY <2>3 DEF EndOfWait
    <2>5. Answer'
      BY <1>9, <2>2 DEF Answer, Pending
    <2> QED  BY <1>9, <2>4, <2>5 DEF Confirmed
  <1>10. ASSUME NEW i \in DOMAIN queue, OpenConnection(i)
         PROVE  Confirmed'
    <2>1. /\ queue[i].kind = "connect" /\ OpenSocket(i) /\ UNCHANGED <<calls, toClient, registered, left>>
          /\ state' = [state EXCEPT ![opened + 1] = "open"]
          /\ toServer' = [toServer EXCEPT ![opened + 1] = <<"init">>]
      BY <1>10 DEF OpenConnection, Takes, mainVars
    <2>2. opened' = opened + 1
      BY <2>1 DEF OpenSocket
    <2>3. ASSUME NEW s \in Sockets, s \notin registered
          PROVE  /\ toClient[s] = <<>>
                 /\ s <= opened' /\ s \notin left => toServer'[s] # <<>> /\ toServer'[s][1] = "init"
      <3>1. CASE s = opened + 1
        BY <1>1, <1>2, <2>1, <2>3, <3>1 DEF IdFirst, ServerTyped
      <3>2. CASE s # opened + 1
        BY <1>1, <1>2, <2>1, <2>2, <2>3, <3>2 DEF IdFirst, ServerTyped, Sockets
      <3> QED  BY <3>1, <3>2
    <2>4. IdFirst'
      BY <2>1, <2>3 DEF IdFirst
    <2> QED  BY <1>9, <2>1, <2>4
  <1>11. ASSUME NEW i \in DOMAIN queue, OpenBrokenConnection(i)
         PROVE  Confirmed'
    <2>1. /\ queue[i].kind = "connect" /\ OpenSocket(i) /\ UNCHANGED <<calls, toServer, toClient, registered>>
          /\ state' = [state EXCEPT ![opened + 1] = "closed"]
          /\ left' = left \cup {opened + 1} /\ opened' = opened + 1
      BY <1>11 DEF OpenBrokenConnection, Takes, mainVars, OpenSocket
    <2>2. IdFirst'
      BY <1>1, <1>2, <2>1 DEF IdFirst, Sockets
    <2> QED  BY <1>9, <2>1, <2>2
  <1>12. CASE FinishConnection
    <2>1. /\ waits # <<>> /\ Last(waits).loop # "running" /\ waits' = Front(waits)
          /\ calls' = Told("connect", Answered(Last(waits).call, "yes", calls))
          /\ UNCHANGED <<queue, opened, state, toServer, toClient, registered, left>>
      BY <1>12 DEF FinishConnection, WaitOver, Loop, socketVars, serverVars
    <2>2. Len(waits) = 1 /\ 1 \in DOMAIN waits /\ Last(waits) = waits[1]
      <3>1. waits \in Seq(Wait) /\ Len(waits) \in Nat /\ DOMAIN waits = 1..Len(waits) /\ Len(waits) <= 1
        BY <1>1, <1>2, LenProperties DEF OneWait, WaitsTyped
      <3>2. Last(waits) = waits[Len(waits)] /\ Len(waits) \in DOMAIN waits
        BY <2>1, <3>1, FrontOf
      <3> QED  BY <3>1, <3>2
    <2>3. opened \in Known
      BY <1>2, <2>1, <2>2 DEF OneWait, EndOfWait
    <2>4. waits' \in Seq(Wait) /\ \A i \in DOMAIN waits' : i \in DOMAIN waits /\ waits'[i] = waits[i]
      BY <1>1, <2>1, FrontOf DEF WaitsTyped
    <2>5. EndOfWait'
      BY <1>2, <2>1, <2>4 DEF EndOfWait, Known
    <2> QED  BY <1>2, <2>1, <2>3, <2>5 DEF Confirmed, IdFirst, Answer, Known
  <1>13. ASSUME NEW i \in DOMAIN queue, IgnoreDisconnect(i)
         PROVE  Confirmed'
    BY <1>4, <1>13 DEF IgnoreDisconnect, mainVars, socketVars, serverVars
  <1>14. ASSUME NEW i \in DOMAIN queue, CloseSocket(i)
         PROVE  Confirmed'
    <2>1. m_socket = opened /\ opened \in Sockets
      BY <1>1, <1>14, SocketOf DEF CloseSocket
    <2>2. /\ state' = [state EXCEPT ![opened] = "deleted"]
          /\ waits' = Quit(opened, "drain") \/ waits' = waits
          /\ calls' = Told("disconnect", calls)
          /\ UNCHANGED <<opened, toServer, toClient, registered, left>>
      BY <1>14, <2>1 DEF CloseSocket, serverVars
    <2>3. opened \in Known' /\ \A s \in 1..opened : state'[s] = "open" => state[s] = "open"
      BY <1>1, <2>1, <2>2 DEF Known, SocketsTyped, Sockets
    <2>4. EndOfWait' /\ Answer'
      BY <1>3, <2>2, <2>3
    <2> QED  BY <1>2, <2>2, <2>4 DEF Confirmed, IdFirst
  <1>15. ASSUME NEW i \in DOMAIN queue, SendCallRequest(i)
         PROVE  Confirmed'
    <2>1. UNCHANGED <<calls, opened, toClient, registered, left>>
      BY <1>15 DEF SendCallRequest, mainVars
    <2>2. CASE UNCHANGED <<waits, state, toServer>>
      BY <1>4, <2>1, <2>2
    <2>3. ASSUME m_connection # Null, UNCHANGED <<waits, state>>,
                 toServer' = [toServer EXCEPT ![opened] = Append(@, "call")]
          PROVE  Confirmed'
      <3>1. opened \in Sockets
        BY <1>1, <2>3, SocketOf
      <3>2. ASSUME NEW s \in Sockets, toServer[s] # <<>>, toServer[s][1] = "init"
            PROVE  toServer'[s] # <<>> /\ toServer'[s][1] = "init"
        <4>1. CASE s = opened
          <5>1. toServer'[s] = Append(toServer[s], "call") /\ toServer[s] \in Seq({"init", "call"})
            BY <1>1, <2>3, <3>1, <4>1 DEF ServerTyped
          <5>2. Len(toServer[s]) \in Nat /\ 1 \in 1..Len(toServer[s])
            BY <3>2, <5>1, EmptySeq, LenProperties
          <5>3. /\ Len(toServer'[s]) = Len(toServer[s]) + 1
                /\ toServer'[s][1] = toServer[s][1]
            BY <5>1, <5>2, AppendProperties
          <5> QED  BY <3>2, <5>2, <5>3
        <4>2. CASE s # opened
          BY <1>1, <2>3, <3>1, <3>2, <4>2 DEF ServerTyped
        <4> QED  BY <4>1, <4>2
      <3>3. IdFirst'
        BY <1>2, <2>1, <3>2 DEF IdFirst
      <3> QED  BY <1>3, <2>1, <2>3, <3>3 DEF Confirmed
    <2>4. ASSUME m_connection # Null, state' = [state EXCEPT ![opened] = "closed"],
                 waits' = Quit(opened, "drain"), UNCHANGED toServer
          PROVE  Confirmed'
      <3>1. opened \in Sockets
        BY <1>1, <2>4, SocketOf
      <3>2. opened \in Known' /\ \A s \in 1..opened : state'[s] = "open" => state[s] = "open"
        BY <1>1, <2>1, <2>4, <3>1 DEF Known, SocketsTyped, Sockets
      <3>3. EndOfWait' /\ Answer'
        BY <1>3, <2>1, <2>4, <3>2
      <3> QED  BY <1>2, <2>1, <2>4, <3>3 DEF Confirmed, IdFirst
    <2> QED  BY <1>15, <2>2, <2>3, <2>4 DEF SendCallRequest
  <1>16. ASSUME NEW i \in DOMAIN queue, DeleteConnection(i)
         PROVE  Confirmed'
    <2>1. /\ queue[i].kind = "delete" /\ state' = [state EXCEPT ![queue[i].socket] = "deleted"]
          /\ UNCHANGED <<calls, waits, opened, toServer, toClient, registered, left>>
      BY <1>16 DEF DeleteConnection, Takes, mainVars, serverVars
    <2>2. \A s \in 1..opened : state'[s] = "open" => state[s] = "open"
      BY <1>1, <2>1 DEF SocketsTyped, Sockets
    <2>3. EndOfWait' /\ Answer'
      BY <1>3, <2>1, <2>2
    <2> QED  BY <1>2, <2>1, <2>3 DEF Confirmed, IdFirst
  <1>17. ASSUME NEW s \in Sockets, ReadReply(s)
         PROVE  Confirmed'
    <2>1. /\ toClient[s] # <<>> /\ toClient' = [toClient EXCEPT ![s] = Tail(@)]
          /\ waits' = Quit(s, "quit") /\ s \in live
          /\ UNCHANGED <<calls, opened, state, toServer, registered, left>>
      BY <1>17 DEF ReadReply, mainVars, socketVars
    <2>2. s \in registered /\ s \in Known'
      BY <1>1, <1>2, <2>1 DEF IdFirst, Known, SocketsTyped
    <2>3. EndOfWait' /\ Answer'
      BY <1>3, <2>1, <2>2
    <2>4. IdFirst'
      BY <1>1, <1>2, <2>1, <2>2 DEF IdFirst, ServerTyped
    <2> QED  BY <2>3, <2>4 DEF Confirmed
  <1>18. ASSUME NEW s \in Sockets, NoticeDisconnect(s)
         PROVE  Confirmed'
    <2>1. /\ s \in live /\ s \in left /\ state' = [state EXCEPT ![s] = "closed"]
          /\ waits' = Quit(s, "quit")
          /\ UNCHANGED <<calls, opened, toServer, toClient, registered, left>>
      BY <1>18 DEF NoticeDisconnect, mainVars, serverVars
    <2>2. s \in Known' /\ \A t \in 1..opened : state'[t] = "open" => state[t] = "open"
      BY <1>1, <2>1 DEF Known, SocketsTyped, Sockets
    <2>3. EndOfWait' /\ Answer'
      BY <1>3, <2>1, <2>2
    <2> QED  BY <1>2, <2>1, <2>3 DEF Confirmed, IdFirst
  \* The server reads or leaves.
  <1>19. ASSUME UNCHANGED <<calls, waits, opened, state>>, registered \subseteq registered', left \subseteq left'
         PROVE  EndOfWait' /\ Answer'
    <2>1. Known \subseteq Known'
      BY <1>19, KnownGrows
    <2> QED  BY <1>1, <1>2, <1>19, <2>1, EndOfWaitKept, AnswerKept
  <1>20. ASSUME NEW s \in Sockets, Handle(s)
         PROVE  Confirmed'
    <2>1. /\ s \notin left /\ toServer[s] # <<>> /\ toServer' = [toServer EXCEPT ![s] = Tail(@)]
          /\ UNCHANGED <<calls, waits, opened, state, left>>
          /\ \/ registered' = registered \cup {s} /\ \A t \in Sockets : t # s => toClient'[t] = toClient[t]
             \/ /\ toServer[s][1] # "init" /\ registered' = registered
                /\ \A t \in Sockets : t # s => toClient'[t] = toClient[t]
      BY <1>1, <1>20 DEF Handle, ServerTyped, mainVars, socketVars
    <2>2. s <= opened
      BY <1>1, <2>1 DEF ServerTyped, Sockets
    <2>3. s \in registered' /\ registered \subseteq registered'
      BY <1>2, <2>1, <2>2 DEF IdFirst
    <2>4. IdFirst'
      BY <1>1, <1>2, <2>1, <2>3 DEF IdFirst, ServerTyped
    <2> QED  BY <1>19, <2>1, <2>3, <2>4 DEF Confirmed
  <1>21. ASSUME NEW s \in Sockets, Leave(s)
         PROVE  Confirmed'
    <2>1. /\ left' = left \cup {s} /\ toServer' = [toServer EXCEPT ![s] = <<>>]
          /\ UNCHANGED <<calls, waits, opened, state, toClient, registered>>
      BY <1>21 DEF Leave, mainVars, socketVars
    <2>2. IdFirst'
      BY <1>1, <1>2, <2>1 DEF IdFirst, ServerTyped
    <2> QED  BY <1>19, <2>1, <2>2 DEF Confirmed
  <1>22. CASE UNCHANGED vars
    BY <1>4, <1>22 DEF vars, mainVars, socketVars, serverVars
  <1> QED
    BY <1>5, <1>6, <1>7, <1>8, <1>10, <1>11, <1>12, <1>13, <1>14, <1>15, <1>16, <1>17, <1>18, <1>20, <1>21,
       <1>22
    DEF Next, Worker, Server

\* A call returns with what is known.
LEMMA ReturnsKnown ==
    ASSUME Typed, OneAttempt, Confirmed, "connect" \notin Overlap, [Next]_vars,
           Len(calls') < Len(calls), Last(calls).kind = "connect", Last(calls).connected = "yes"
    PROVE  opened \in registered \cup left \/ state[opened] # "open"
PROOF
  <1>1. calls \in Seq(Call) /\ Len(calls) \in Nat
    BY LenProperties DEF Typed, CallsTyped
  <1>2. calls # <<>>
    <2>1. Typed'
      BY TypedStep
    <2>2. Len(calls') \in Nat
      BY <2>1, LenProperties DEF Typed, CallsTyped
    <2> QED  BY <1>1, <2>2
  <1>3. Last(calls) = calls[Len(calls)] /\ Len(calls) \in DOMAIN calls
    BY <1>1, <1>2, FrontOf
  <1>4. Len(calls) = 1
    BY <1>3 DEF OneAttempt, OuterConnect
  <1> QED  BY <1>2, <1>3, <1>4 DEF Confirmed, Answer, Known

\* Where no connection is attempted while another call blocks, every
\* attempt the worker is to make has a caller that waits for it, so that the pointer
\* handed to CuteIPCInterfaceWorker::connectToServer is not that of a call that has
\* returned; whatever else is called meanwhile, and whatever goes wrong.
THEOREM CallersWait ==
    ASSUME "connect" \notin Overlap
    PROVE  Spec => []CallerWaits
PROOF
  <1>1. Init => Typed /\ OneAttempt
    BY TypedStart, AttemptsStart
  <1>2. (Typed /\ OneAttempt) /\ [Next]_vars => (Typed /\ OneAttempt)'
    BY TypedStep, AttemptStep
  <1> QED  BY <1>1, <1>2, AttemptTells, PTL DEF Spec

\* Under the same condition, a connectToServer that returns true leaves a connection
\* whose id the server knows, or one that is lost.
THEOREM ConnectedIsRegistered ==
    ASSUME "connect" \notin Overlap
    PROVE  Spec => RegisteredOnReturn
PROOF
  <1> DEFINE Inv == Typed /\ OneAttempt /\ Confirmed
  <1>1. Init => Inv
    BY TypedStart, AttemptsStart
  <1>2. Inv /\ [Next]_vars => Inv'
    BY TypedStep, AttemptStep, ConfirmedStep
  <1>3. Inv /\ [Next]_vars =>
            [Len(calls') < Len(calls) /\ Last(calls).kind = "connect" /\ Last(calls).connected = "yes"
             => opened \in registered \cup left \/ state[opened] # "open"]_vars
    BY ReturnsKnown
  <1> QED  BY <1>1, <1>2, <1>3, PTL DEF Spec, RegisteredOnReturn

-----------------------------------------------------------------------------
(* One call at a time                                                      *)

OneCall == Typed /\ OneAttempt /\ Orderly

LEMMA OrderlyStart == Init => Orderly
PROOF
  <1> SUFFICES ASSUME Init PROVE Orderly
    OBVIOUS
  <1>1. InOrder /\ Waiting
    BY DEF Init, InOrder, Waiting
  <1>2. ClosedIsDoomed /\ DeletedIsNext
    BY DEF Init, ClosedIsDoomed, DeletedIsNext
  <1> QED  BY <1>1, <1>2 DEF Orderly

LEMMA TheLoop ==
    ASSUME WaitsTyped, OneWait
    PROVE  /\ waits # <<>> => Len(waits) = 1 /\ DOMAIN waits = 1..1 /\ Loop = waits[1].loop
           /\ waits = <<>> => Loop = "running" /\ Len(waits) = 0
PROOF
  <1>1. waits \in Seq(Wait) /\ Len(waits) \in Nat /\ Len(waits) <= 1 /\ DOMAIN waits = 1..Len(waits)
    BY LenProperties DEF WaitsTyped, OneWait
  <1>2. waits # <<>> => Len(waits) = 1 /\ Last(waits) = waits[1]
    BY <1>1, EmptySeq DEF Last
  <1> QED  BY <1>1, <1>2, EmptySeq DEF Loop

\* Outside a wait, the first event is taken.
LEMMA TakesFirst ==
    ASSUME QueueTyped, waits = <<>>, NEW kind, NEW i \in DOMAIN queue, Takes(kind, i)
    PROVE  i = 1
PROOF
  <1>1. Len(queue) \in Nat /\ DOMAIN queue = 1..Len(queue) /\ 1 \in DOMAIN queue
    BY LenProperties DEF QueueTyped
  <1>2. 1 \in Ready
    <2>1. queue[1].kind = "delete" => queue[1].level >= Len(waits)
      BY <1>1, EventOf, BoundsAssumption
    <2> QED  BY <1>1, <2>1 DEF Ready
  <1> QED  BY <1>1, <1>2 DEF Takes

\* A request of the application is taken outside a wait, first of all, and leaves
\* deletions only if its caller waits for it.
LEMMA TakesRequest ==
    ASSUME OneCall, NEW i \in DOMAIN queue, NEW kind \in {"connect", "disconnect", "send"}, Takes(kind, i)
    PROVE  /\ waits = <<>> /\ i = 1 /\ ~Doomed(i)
           /\ kind \in Main => \A j \in DOMAIN queue : j # i => queue[j].kind = "delete"
PROOF
  <1>1. queue[i].kind = kind
    BY DEF Takes
  <1>2. waits = <<>>
    BY <1>1 DEF OneCall, Orderly, Waiting
  <1>3. i = 1
    BY <1>2, TakesFirst DEF OneCall, Typed
  <1>4. DOMAIN queue = 1..Len(queue) /\ Len(queue) \in Nat
    BY LenProperties DEF OneCall, Typed, QueueTyped
  <1>5. kind \in Main => \A j \in DOMAIN queue : j # i => queue[j].kind = "delete"
    <2>1. ASSUME kind \in Main PROVE \A j \in DOMAIN queue : j > i => queue[j].kind = "delete"
      BY <1>1, <2>1 DEF OneCall, Orderly, InOrder
    <2> QED  BY <1>3, <1>4, <2>1
  <1> QED  BY <1>1, <1>2, <1>3, <1>5 DEF Doomed

\* An event is taken, or none, and a deletion is posted, or nothing.
Leaves(i, e) ==
    \/ queue' = QueueBut(i)
    \/ e.kind = "delete" /\ queue' = Append(QueueBut(i), e)

LEMMA LeavesMoves ==
    ASSUME QueueTyped, NEW i \in {0} \cup DOMAIN queue, NEW e \in Event, Leaves(i, e)
    PROVE  \A k \in DOMAIN queue' :
              \/ queue'[k].kind = "delete"
              \/ /\ k \in 1..LenBut(i) /\ Before(i, k) \in DOMAIN queue /\ Before(i, k) # i
                 /\ queue'[k] = queue[Before(i, k)]
PROOF
  <1>1. queue' \in {QueueBut(i), Append(QueueBut(i), e)}
    BY DEF Leaves
  <1>2. DOMAIN queue' = 1..Len(queue') /\ LenBut(i) \in Nat
    BY <1>1, Moves
  <1>3. \A k \in 1..LenBut(i) :
            Before(i, k) \in DOMAIN queue /\ Before(i, k) # i /\ queue'[k] = queue[Before(i, k)]
    BY <1>1, Moves
  <1>4. CASE queue' = QueueBut(i)
    <2>1. Len(queue') = LenBut(i)
      BY <1>1, <1>4, Moves
    <2> QED  BY <1>2, <1>3, <2>1
  <1>5. CASE e.kind = "delete" /\ queue' = Append(QueueBut(i), e)
    <2>1. Len(queue') = LenBut(i) + 1 /\ (Len(queue') = LenBut(i) \/ queue'[LenBut(i) + 1] = e)
      BY <1>1, <1>5, Moves
    <2>2. queue'[LenBut(i) + 1].kind = "delete"
      BY <1>2, <1>5, <2>1
    <2>3. \A k \in DOMAIN queue' : k \in 1..LenBut(i) \/ k = LenBut(i) + 1
      BY <1>2, <2>1
    <2> QED  BY <1>3, <2>2, <2>3
  <1> QED  BY <1>4, <1>5 DEF Leaves

\* What is left is in order, too.
LEMMA InOrderKept ==
    ASSUME QueueTyped, InOrder, NEW i \in {0} \cup DOMAIN queue, NEW e \in Event,
           Leaves(i, e), calls' = calls
    PROVE  InOrder'
PROOF
  <1>1. \A k \in DOMAIN queue' :
            \/ queue'[k].kind = "delete"
            \/ /\ k \in 1..LenBut(i) /\ Before(i, k) \in DOMAIN queue
               /\ queue'[k] = queue[Before(i, k)]
    BY LeavesMoves
  <1>2. queue' \in {QueueBut(i), Append(QueueBut(i), e)}
    BY DEF Leaves
  <1>3. ASSUME NEW k \in DOMAIN queue', queue'[k].kind \in Main
        PROVE  /\ calls' # <<>> /\ calls'[1].kind = queue'[k].kind /\ ~calls'[1].quit
               /\ \A l \in DOMAIN queue' : l > k => queue'[l].kind = "delete"
    <2>1. /\ k \in 1..LenBut(i) /\ Before(i, k) \in DOMAIN queue /\ queue'[k] = queue[Before(i, k)]
      BY <1>1, <1>3 DEF Main
    <2>2. /\ calls # <<>> /\ calls[1].kind = queue'[k].kind /\ ~calls[1].quit
          /\ \A j \in DOMAIN queue : j > Before(i, k) => queue[j].kind = "delete"
      BY <1>3, <2>1 DEF InOrder
    <2>3. ASSUME NEW l \in DOMAIN queue', l > k PROVE queue'[l].kind = "delete"
      <3>1. CASE l \in 1..LenBut(i)
        <4>1. i \in Nat
          BY LenProperties DEF QueueTyped
        <4>2. Before(i, l) > Before(i, k)
          <5>1. k \in Int /\ l \in Int
            BY <1>2, <2>1, <3>1, Moves
          <5> QED  BY <2>3, <4>1, <5>1 DEF Before
        <4>3. queue'[l].kind = "delete" \/ (Before(i, l) \in DOMAIN queue /\ queue'[l] = queue[Before(i, l)])
          BY <1>1
        <4> QED  BY <2>2, <4>2, <4>3
      <3> QED  BY <1>1, <3>1
    <2> QED  BY <1>3, <2>2, <2>3
  <1> QED  BY <1>3 DEF InOrder

LEMMA OnlyDeletes ==
    ASSUME QueueTyped, NEW i \in {0} \cup DOMAIN queue, NEW e \in Event, Leaves(i, e),
           \A j \in DOMAIN queue : j # i => queue[j].kind = "delete"
    PROVE  \A k \in DOMAIN queue' : queue'[k].kind = "delete"
  BY LeavesMoves

\* A deletion stays in the queue, as near to its turn.
LEMMA DoomedStays ==
    ASSUME QueueTyped, opened' = opened, NEW i \in {0} \cup DOMAIN queue, NEW e \in Event,
           queue' \in {QueueBut(i), Append(QueueBut(i), e)},
           NEW j \in DOMAIN queue, Doomed(j), j # i
    PROVE  \E k \in DOMAIN queue' :
              /\ Doomed(k)'
              /\ (\A l \in DOMAIN queue : l < j => queue[l].kind = "delete")
                 => \A l \in DOMAIN queue' : l < k => queue'[l].kind = "delete"
PROOF
  <1>1. PICK k \in 1..LenBut(i) : Before(i, k) = j
    BY Moves
  <1>2. /\ LenBut(i) \in Nat /\ DOMAIN queue' = 1..Len(queue')
        /\ Len(queue') = LenBut(i) \/ Len(queue') = LenBut(i) + 1
        /\ k \in 1..Len(queue') /\ k \in Nat /\ k <= LenBut(i)
    BY Moves
  <1>3. \A l \in 1..LenBut(i) : Before(i, l) \in DOMAIN queue /\ queue'[l] = queue[Before(i, l)]
    BY Moves
  <1>4. k \in DOMAIN queue' /\ Doomed(k)'
    <2>1. queue'[k] = queue[j]
      BY <1>1, <1>3
    <2>2. k \in DOMAIN queue'
      BY <1>1, <1>2
    <2> QED  BY <2>1, <2>2 DEF Doomed
  <1>5. ASSUME \A l \in DOMAIN queue : l < j => queue[l].kind = "delete",
               NEW l \in DOMAIN queue', l < k
        PROVE  queue'[l].kind = "delete"
    <2>1. l \in 1..LenBut(i)
      BY <1>5, Moves
    <2>2. i \in Nat
      BY LenProperties DEF QueueTyped
    <2>3. Before(i, l) < j
      BY <1>1, <1>5, <2>1, <2>2 DEF Before
    <2> QED  BY <1>3, <1>5, <2>1, <2>3
  <1> QED  BY <1>4, <1>5

LEMMA DoomKept ==
    ASSUME QueueTyped, ClosedIsDoomed, DeletedIsNext, opened' = opened,
           NEW i \in {0} \cup DOMAIN queue, NEW e \in Event,
           queue' \in {QueueBut(i), Append(QueueBut(i), e)}, i # 0 => ~Doomed(i),
           opened \in live' => opened \in live /\ state'[opened] = state[opened]
    PROVE  ClosedIsDoomed' /\ DeletedIsNext'
PROOF
  <1>1. ASSUME NEW j \in DOMAIN queue, Doomed(j) PROVE j # i
    BY <1>1, LenProperties DEF QueueTyped
  <1>2. ClosedIsDoomed'
    <2> SUFFICES ASSUME opened \in live', state'[opened] = "closed"
                 PROVE  \E k \in DOMAIN queue' : Doomed(k)'
      BY DEF ClosedIsDoomed, Doomed
    <2>1. PICK j \in DOMAIN queue : Doomed(j)
      BY DEF ClosedIsDoomed
    <2> QED  BY <1>1, <2>1, DoomedStays
  <1>3. DeletedIsNext'
    <2> SUFFICES ASSUME opened \in live', state'[opened] = "deleted"
                 PROVE  \E k \in DOMAIN queue' :
                            Doomed(k)' /\ \A l \in DOMAIN queue' : l < k => queue'[l].kind = "delete"
      BY DEF DeletedIsNext, Doomed
    <2>1. PICK j \in DOMAIN queue : Doomed(j) /\ \A l \in DOMAIN queue : l < j => queue[l].kind = "delete"
      BY DEF DeletedIsNext
    <2> QED  BY <1>1, <2>1, DoomedStays
  <1> QED  BY <1>2, <1>3

\* A deletion is posted for the last socket.
LEMMA DoomPosted ==
    ASSUME QueueTyped, NEW i \in {0} \cup DOMAIN queue, NEW e \in Event, e.kind = "delete",
           e.socket = opened', queue' = Append(QueueBut(i), e)
    PROVE  \E k \in DOMAIN queue' : Doomed(k)'
PROOF
  <1>1. /\ LenBut(i) \in Nat /\ DOMAIN queue' = 1..Len(queue') /\ Len(queue') = LenBut(i) + 1
        /\ Len(queue') = LenBut(i) \/ queue'[LenBut(i) + 1] = e
    BY Moves
  <1>2. LenBut(i) + 1 \in DOMAIN queue' /\ queue'[LenBut(i) + 1] = e
    BY <1>1
  <1> QED  BY <1>2 DEF Doomed

LEMMA OrderlyStep ==
    ASSUME Overlap = {}, OneCall, [Next]_vars
    PROVE  Orderly'
PROOF
  <1>1. /\ CallsTyped /\ QueueTyped /\ WaitsTyped /\ SocketsTyped /\ ServerTyped
        /\ OneWait /\ InOrder /\ Waiting /\ ClosedIsDoomed /\ DeletedIsNext
        /\ opened \in Nat
    BY BoundsAssumption DEF OneCall, Typed, OneAttempt, Orderly, SocketsTyped
  <1>2. /\ queue = QueueBut(0) /\ 0 \in {0} \cup DOMAIN queue
        /\ \A i \in DOMAIN queue : QueueBut(i) = RemoveAt(queue, i) /\ i \in {0} \cup DOMAIN queue
    BY <1>1, LenProperties DEF QueueBut, QueueTyped
  <1>3. [kind |-> "send"] \in Event /\ [kind |-> "disconnect"] \in Event
    BY DEF Event
  <1>4. \A s \in Sockets :
            DeleteLater(s) \in Event /\ DeleteLater(s).kind = "delete" /\ DeleteLater(s).socket = s
    BY <1>1, DeleteIsEvent
  <1>5. PICK any \in Event : any.kind = "send"
    BY <1>3
  <1>6. waits # <<>> => /\ Len(waits) = 1 /\ DOMAIN waits = 1..1 /\ Loop = waits[1].loop
                        /\ waits[1].socket = opened
    BY <1>1, TheLoop DEF OneWait
  \* Calls begin when none blocks: no request of theirs is left.
  <1>7. ASSUME calls = <<>>
        PROVE  waits = <<>> /\ \A i \in DOMAIN queue : queue[i].kind \notin Main
    BY <1>1, <1>7 DEF OneWait, Pending, InOrder
  <1>8. ASSUME NEW e \in Event, calls = <<>>, queue' = Append(queue, e),
               UNCHANGED <<waits, opened, state, live>>,
               \/ e.kind = "send" /\ UNCHANGED calls
               \/ e.kind \in Main /\ Block(e.kind)
        PROVE  Orderly'
    <2>1. Waiting'
      BY <1>7, <1>8 DEF Waiting
    <2>2. ClosedIsDoomed' /\ DeletedIsNext'
      BY <1>1, <1>2, <1>8, DoomKept
    <2>3. /\ queue \in Seq(Event) /\ Len(queue) \in Nat /\ DOMAIN queue = 1..Len(queue)
          /\ DOMAIN queue' = 1..(Len(queue) + 1) /\ queue'[Len(queue) + 1] = e
          /\ \A k \in 1..Len(queue) : queue'[k] = queue[k]
      <3>1. queue \in Seq(Event) /\ Len(queue) \in Nat /\ DOMAIN queue = 1..Len(queue)
        BY <1>1, LenProperties DEF QueueTyped
      <3>2. /\ queue' \in Seq(Event) /\ Len(queue') = Len(queue) + 1 /\ queue'[Len(queue) + 1] = e
            /\ \A k \in 1..Len(queue) : queue'[k] = queue[k]
        BY <1>8, <3>1, AppendProperties
      <3> QED  BY <3>1, <3>2, LenProperties
    <2>4. \A k \in DOMAIN queue' : queue'[k].kind \in Main => k = Len(queue) + 1
      BY <1>7, <1>8, <2>3
    <2>5. InOrder'
      <3>1. ASSUME e.kind = "send" /\ UNCHANGED calls PROVE InOrder'
        BY <1>1, <2>3, <2>4, <3>1 DEF InOrder, Main
      <3>2. ASSUME e.kind \in Main /\ Block(e.kind) PROVE InOrder'
        <4>1. Len(calls) = 0
          BY <1>8
        <4>2. Len(calls') = 1 /\ calls'[1].kind = e.kind /\ ~calls'[1].quit
          BY <1>1, <3>2, <4>1, BlockAdds DEF Main
        <4>3. calls' # <<>>
          BY <4>2
        <4>4. \A k \in DOMAIN queue' : queue'[k].kind \in Main => \A l \in DOMAIN queue' : ~(l > k)
          BY <2>3, <2>4
        <4> QED  BY <2>3, <2>4, <4>2, <4>3, <4>4 DEF InOrder
      <3> QED  BY <1>8, <3>1, <3>2
    <2> QED  BY <2>1, <2>2, <2>5 DEF Orderly
  <1>9. CASE ConnectToServer
    <2>1. /\ Block("connect") /\ calls = <<>> /\ UNCHANGED <<waits, opened, state, live>>
          /\ queue' = Append(queue, [kind |-> "connect", call |-> made + 1])
      BY <1>9 DEF ConnectToServer, Block, May, socketVars
    <2>2. [kind |-> "connect", call |-> made + 1] \in Event
      BY <1>1, <2>1, BlockAdds DEF Event
    <2> QED  BY <1>8, <2>1, <2>2 DEF Main
  <1>10. CASE DisconnectFromServer
    <2>1. /\ Block("disconnect") /\ calls = <<>> /\ UNCHANGED <<waits, opened, state, live>>
          /\ queue' = Append(queue, [kind |-> "disconnect"])
      BY <1>10 DEF DisconnectFromServer, Block, May, socketVars
    <2> QED  BY <1>3, <1>8, <2>1 DEF Main
  <1>11. CASE CallNoReply
    BY <1>3, <1>8, <1>11 DEF CallNoReply, May, socketVars
  <1>12. CASE Return
    <2>1. /\ calls # <<>> /\ Last(calls).quit /\ calls' = Front(calls)
          /\ UNCHANGED <<queue, waits, opened, state, live>>
      BY <1>12 DEF Return, socketVars
    <2>2. Len(calls) = 1 /\ calls[1].quit /\ Len(calls') = 0
      <3>1. calls \in Seq(Call) /\ Len(calls) <= 1
        BY <1>1 DEF CallsTyped, InOrder
      <3> QED  BY <2>1, <3>1, OfOne
    <2>3. \A i \in DOMAIN queue : queue[i].kind \notin Main
      BY <1>1, <2>2 DEF InOrder
    <2>4. InOrder'
      BY <2>1, <2>2, <2>3 DEF InOrder
    <2> QED
      BY <1>1, <2>1, <2>4 DEF Orderly, Waiting, ClosedIsDoomed, DeletedIsNext, Doomed
  \* A connection or a disconnection is carried out: only deletions are left.
  <1>13. ASSUME NEW i \in DOMAIN queue, NEW kind \in Main, Takes(kind, i),
                NEW e \in Event, Leaves(i, e), Len(calls') <= 1
         PROVE  /\ waits = <<>> /\ ~Doomed(i) /\ InOrder'
                /\ \A k \in DOMAIN queue' : queue'[k].kind = "delete"
    <2>1. /\ waits = <<>> /\ ~Doomed(i)
          /\ \A j \in DOMAIN queue : j # i => queue[j].kind = "delete"
      BY <1>13, TakesRequest DEF Main
    <2>2. \A k \in DOMAIN queue' : queue'[k].kind = "delete"
      BY <1>1, <1>2, <1>13, <2>1, OnlyDeletes
    <2> QED  BY <1>13, <2>1, <2>2 DEF InOrder, Main
  <1>14. \A kind : Len(Told(kind, calls)) <= 1
    BY <1>1, ToldKeeps DEF CallsTyped, InOrder
  <1>15. \A kind, id : \A c \in {"yes", "no"} : Len(Told(kind, Answered(id, c, calls))) <= 1
    BY <1>1, ToldKeeps, AnsweredKeeps DEF CallsTyped, InOrder
  <1>16. ASSUME NEW i \in DOMAIN queue, RefuseConnection(i)
         PROVE  Orderly'
    <2>1. /\ Takes("connect", i) /\ queue' = QueueBut(i) /\ UNCHANGED <<waits, opened, state, live>>
          /\ calls' = Told("connect", Answered(queue[i].call, "no", calls))
      BY <1>2, <1>16 DEF RefuseConnection, socketVars
    <2>2. waits = <<>> /\ ~Doomed(i) /\ InOrder'
      BY <1>5, <1>13, <1>15, <2>1 DEF Leaves, Main
    <2>3. Waiting'
      BY <2>1, <2>2 DEF Waiting
    <2>4. ClosedIsDoomed' /\ DeletedIsNext'
      BY <1>1, <1>2, <1>5, <2>1, <2>2, DoomKept
    <2> QED  BY <2>2, <2>3, <2>4 DEF Orderly
  <1>17. ASSUME NEW i \in DOMAIN queue, Takes("connect", i), OpenSocket(i), UNCHANGED calls,
                NEW e \in Event, Leaves(i, e),
                NEW st \in {"open", "closed"}, state' = [state EXCEPT ![opened + 1] = st],
                st = "closed" => \E k \in DOMAIN queue' : Doomed(k)'
         PROVE  Orderly'
    <2> DEFINE w == [socket |-> opened + 1, call |-> queue[i].call, loop |-> "running"]
    <2>1. /\ opened + 1 \in Sockets /\ opened' = opened + 1 /\ w \in Wait /\ waits' = Append(waits, w)
      BY <1>17, OpenTyped DEF OneCall, Takes
    <2>2. waits = <<>> /\ InOrder' /\ \A k \in DOMAIN queue' : queue'[k].kind = "delete"
      BY <1>1, <1>13, <1>17 DEF InOrder, Main
    <2>3. waits'[1] = w
      BY <2>1, <2>2
    <2>4. state'[opened'] = st
      BY <1>1, <1>17, <2>1 DEF SocketsTyped
    <2>5. Waiting'
      BY <1>17, <2>2, <2>3, <2>4 DEF Waiting
    <2>6. ClosedIsDoomed' /\ DeletedIsNext'
      BY <1>17, <2>4 DEF ClosedIsDoomed, DeletedIsNext, Doomed
    <2> QED  BY <2>2, <2>5, <2>6 DEF Orderly
  <1>18. ASSUME NEW i \in DOMAIN queue, OpenConnection(i)
         PROVE  Orderly'
    <2>1. /\ Takes("connect", i) /\ OpenSocket(i) /\ UNCHANGED calls
          /\ state' = [state EXCEPT ![opened + 1] = "open"] /\ queue' = QueueBut(i)
      BY <1>2, <1>18 DEF OpenConnection, mainVars
    <2> QED  BY <1>5, <1>17, <2>1 DEF Leaves
  <1>19. ASSUME NEW i \in DOMAIN queue, OpenBrokenConnection(i)
         PROVE  Orderly'
    <2>1. /\ Takes("connect", i) /\ OpenSocket(i) /\ UNCHANGED calls
          /\ state' = [state EXCEPT ![opened + 1] = "closed"]
          /\ queue' = Append(QueueBut(i), DeleteLater(opened + 1))
      BY <1>2, <1>19 DEF OpenBrokenConnection, mainVars
    <2>2. opened + 1 \in Sockets /\ opened' = opened + 1
      BY <2>1, OpenTyped DEF OneCall, Takes
    <2>3. \E k \in DOMAIN queue' : Doomed(k)'
      BY <1>1, <1>2, <1>4, <2>1, <2>2, DoomPosted
    <2> QED  BY <1>4, <1>17, <2>1, <2>2, <2>3 DEF Leaves
  <1>20. CASE FinishConnection
    <2>1. /\ waits # <<>> /\ waits' = Front(waits) /\ UNCHANGED <<queue, opened, state, live>>
          /\ calls' = Told("connect", Answered(Last(waits).call, "yes", calls))
      BY <1>20 DEF FinishConnection, WaitOver, Loop, socketVars
    <2>2. waits' = <<>>
      <3>1. waits' \in Seq(Wait) /\ Len(waits') = 0
        BY <1>1, <1>6, <2>1, FrontOf DEF WaitsTyped
      <3> QED  BY <3>1, EmptySeq
    <2>3. InOrder'
      BY <1>1, <1>15, <2>1 DEF Waiting, InOrder, Main
    <2> QED  BY <1>1, <2>1, <2>2, <2>3 DEF Orderly, Waiting, ClosedIsDoomed, DeletedIsNext, Doomed
  <1>21. ASSUME NEW i \in DOMAIN queue, IgnoreDisconnect(i)
         PROVE  Orderly'
    <2>1. Takes("disconnect", i) /\ queue' = QueueBut(i) /\ UNCHANGED <<calls, waits, opened, state, live>>
      BY <1>2, <1>21 DEF IgnoreDisconnect, mainVars, socketVars
    <2>2. waits = <<>> /\ ~Doomed(i) /\ InOrder'
      BY <1>1, <1>5, <1>13, <2>1 DEF Leaves, Main, InOrder
    <2>3. ClosedIsDoomed' /\ DeletedIsNext'
      BY <1>1, <1>2, <1>5, <2>1, <2>2, DoomKept
    <2> QED  BY <2>1, <2>2, <2>3 DEF Orderly, Waiting
  <1>22. ASSUME NEW i \in DOMAIN queue, CloseSocket(i)
         PROVE  Orderly'
    <2>1. m_socket = opened /\ opened \in Sockets /\ state[opened] # "deleted"
      BY <1>1, <1>22, SocketOf DEF CloseSocket
    <2>2. /\ Takes("disconnect", i) /\ state' = [state EXCEPT ![opened] = "deleted"]
          /\ \/ state[opened] = "open" /\ queue' = Append(QueueBut(i), DeleteLater(opened))
                /\ waits' = Quit(opened, "drain")
             \/ state[opened] # "open" /\ queue' = QueueBut(i) /\ waits' = waits
          /\ calls' = Told("disconnect", calls) /\ UNCHANGED <<opened, live>>
      BY <1>2, <1>22, <2>1 DEF CloseSocket
    <2>3. /\ DeleteLater(opened) \in Event /\ DeleteLater(opened).kind = "delete"
          /\ DeleteLater(opened).socket = opened'
      BY <1>4, <2>1, <2>2
    <2>4. Leaves(i, DeleteLater(opened))
      BY <2>2, <2>3 DEF Leaves
    <2>5. waits = <<>> /\ ~Doomed(i) /\ InOrder' /\ \A k \in DOMAIN queue' : queue'[k].kind = "delete"
      BY <1>13, <1>14, <2>2, <2>3, <2>4 DEF Main
    <2>6. waits' = <<>>
      <3>1. Quit(opened, "drain") \in Seq(Wait) /\ Len(Quit(opened, "drain")) = Len(waits)
        BY <1>1, QuitKeeps DEF WaitsTyped
      <3> QED  BY <2>2, <2>5, <3>1, EmptySeq
    <2>7. state'[opened'] = "deleted"
      BY <1>1, <2>1, <2>2 DEF SocketsTyped
    <2>8. ASSUME opened \in live PROVE \E k \in DOMAIN queue' : Doomed(k)'
      <3>1. CASE state[opened] = "open"
        BY <1>1, <1>2, <2>2, <2>3, <3>1, DoomPosted
      <3>2. CASE state[opened] = "closed"
        <4>1. PICK j \in DOMAIN queue : Doomed(j)
          BY <1>1, <2>8, <3>2 DEF ClosedIsDoomed
        <4>2. j # i /\ queue' \in {QueueBut(i), Append(QueueBut(i), DeleteLater(opened))}
          BY <2>2, <2>5, <4>1
        <4> QED  BY <1>1, <1>2, <2>2, <2>3, <4>1, <4>2, DoomedStays
      <3>3. state[opened] \in {"open", "closed"}
        <4>1. state[opened] \in Kinds /\ state[opened] # "none"
          BY <1>1, <2>1 DEF SocketsTyped
        <4> QED  BY <2>1, <4>1 DEF Kinds
      <3> QED  BY <3>1, <3>2, <3>3
    <2>9. DeletedIsNext'
      BY <2>2, <2>5, <2>8 DEF DeletedIsNext, Doomed
    <2>10. ClosedIsDoomed' /\ Waiting'
      BY <2>6, <2>7 DEF ClosedIsDoomed, Waiting
    <2> QED  BY <2>5, <2>9, <2>10 DEF Orderly
  <1>23. ASSUME NEW i \in DOMAIN queue, SendCallRequest(i)
         PROVE  Orderly'
    <2>1. Takes("send", i) /\ UNCHANGED <<calls, opened, live>>
      BY <1>23 DEF SendCallRequest, mainVars
    <2>2. waits = <<>> /\ ~Doomed(i)
      BY <2>1, TakesRequest
    <2>3. CASE queue' = RemoveAt(queue, i) /\ UNCHANGED <<waits, state>>
      <3>1. queue' = QueueBut(i)
        BY <1>2, <2>3
      <3>2. InOrder'
        BY <1>1, <1>2, <1>5, <2>1, <3>1, InOrderKept DEF Leaves
      <3>3. ClosedIsDoomed' /\ DeletedIsNext'
        BY <1>1, <1>2, <1>5, <2>1, <2>2, <2>3, <3>1, DoomKept
      <3> QED  BY <2>2, <2>3, <3>2, <3>3 DEF Orderly, Waiting
    <2>4. CASE /\ m_connection # Null /\ state' = [state EXCEPT ![opened] = "closed"]
               /\ queue' = Append(RemoveAt(queue, i), DeleteLater(opened))
               /\ waits' = Quit(opened, "drain")
      <3>1. opened \in Sockets /\ queue' = Append(QueueBut(i), DeleteLater(opened))
        BY <1>1, <1>2, <2>4, SocketOf
      <3>2. /\ DeleteLater(opened) \in Event /\ DeleteLater(opened).kind = "delete"
            /\ DeleteLater(opened).socket = opened'
        BY <1>4, <2>1, <3>1
      <3>3. InOrder'
        BY <1>1, <1>2, <2>1, <3>1, <3>2, InOrderKept DEF Leaves
      <3>4. \E k \in DOMAIN queue' : Doomed(k)'
        BY <1>1, <1>2, <3>1, <3>2, DoomPosted
      <3>5. waits' = <<>>
        <4>1. Quit(opened, "drain") \in Seq(Wait) /\ Len(Quit(opened, "drain")) = Len(waits)
          BY <1>1, QuitKeeps DEF WaitsTyped
        <4> QED  BY <2>2, <2>4, <4>1, EmptySeq
      <3>6. state'[opened'] = "closed"
        BY <1>1, <2>1, <2>4, <3>1 DEF SocketsTyped
      <3> QED  BY <3>3, <3>4, <3>5, <3>6 DEF Orderly, Waiting, ClosedIsDoomed, DeletedIsNext
    <2> QED  BY <1>23, <2>3, <2>4 DEF SendCallRequest
  <1>24. ASSUME NEW i \in DOMAIN queue, DeleteConnection(i)
         PROVE  Orderly'
    <2>1. /\ queue[i].kind = "delete" /\ Loop # "quit" /\ queue' = QueueBut(i)
          /\ live' = live \ {queue[i].socket} /\ state' = [state EXCEPT ![queue[i].socket] = "deleted"]
          /\ UNCHANGED <<calls, waits, opened>>
      BY <1>2, <1>24 DEF DeleteConnection, Takes, mainVars
    <2>2. InOrder'
      BY <1>1, <1>2, <1>5, <2>1, InOrderKept DEF Leaves
    <2>3. opened \in live' => /\ opened \in live /\ queue[i].socket # opened /\ ~Doomed(i)
                              /\ state'[opened] = state[opened]
      <3>1. opened \in live => opened \in Sockets
        BY <1>1, SocketOf
      <3> QED  BY <1>1, <2>1, <3>1 DEF SocketsTyped, Doomed
    <2>4. ClosedIsDoomed' /\ DeletedIsNext'
      <3>1. CASE opened \notin live'
        BY <2>1, <3>1 DEF ClosedIsDoomed, DeletedIsNext
      <3>2. CASE opened \in live'
        BY <1>1, <1>2, <1>5, <2>1, <2>3, <3>2, DoomKept
      <3> QED  BY <3>1, <3>2
    <2>5. Waiting'
      <3> SUFFICES ASSUME waits # <<>>
                   PROVE  /\ \A k \in DOMAIN queue' : queue'[k].kind = "delete"
                          /\ waits[1].loop # "drain" /\ waits[1].loop # "quit"
                          /\ opened \in live' => state'[opened] # "deleted"
        BY <2>1 DEF Waiting
      <3>1. \A k \in DOMAIN queue : queue[k].kind = "delete"
        BY <1>1 DEF Waiting
      <3>2. \A k \in DOMAIN queue' : queue'[k].kind = "delete"
        BY <1>1, <1>2, <1>5, <2>1, <3>1, OnlyDeletes DEF Leaves
      <3> QED  BY <1>1, <1>6, <2>1, <2>3, <3>2 DEF Waiting
    <2> QED  BY <2>2, <2>4, <2>5 DEF Orderly
  \* The innermost wait ends because of its own socket.
  <1>25. ASSUME NEW s \in Sockets, s \in live, Loop = "running", waits' = Quit(s, "quit"), waits # <<>>
         PROVE  waits'[1].loop # "drain" /\ (waits'[1].loop = "quit" => opened \in live)
    <2>1. 1 \in DOMAIN waits /\ waits[1].loop = "running" /\ waits[1].socket = opened
      BY <1>6, <1>25
    <2>2. /\ waits[1].socket = s => waits'[1].loop = "quit"
          /\ waits[1].socket # s => waits'[1] = waits[1]
      BY <1>1, <1>25, <2>1, QuitKeeps DEF WaitsTyped
    <2> QED  BY <1>25, <2>1, <2>2
  <1>26. ASSUME NEW s, waits' = Quit(s, "quit"), waits = <<>>
         PROVE  waits' = <<>>
    <2>1. Quit(s, "quit") \in Seq(Wait) /\ Len(Quit(s, "quit")) = Len(waits)
      BY <1>1, QuitKeeps DEF WaitsTyped
    <2> QED  BY <1>26, <2>1, EmptySeq
  <1>27. ASSUME NEW s \in Sockets, ReadReply(s)
         PROVE  Orderly'
    <2>1. /\ s \in live /\ Loop = "running" /\ waits' = Quit(s, "quit")
          /\ UNCHANGED <<calls, queue, opened, state, live>>
      BY <1>27 DEF ReadReply, mainVars, socketVars
    <2>2. Waiting'
      BY <1>1, <1>25, <1>26, <2>1 DEF Waiting
    <2> QED  BY <1>1, <2>1, <2>2 DEF Orderly, InOrder, ClosedIsDoomed, DeletedIsNext, Doomed
  <1>28. ASSUME NEW s \in Sockets, NoticeDisconnect(s)
         PROVE  Orderly'
    <2>1. /\ s \in live /\ Loop = "running" /\ waits' = Quit(s, "quit") /\ state[s] = "open"
          /\ state' = [state EXCEPT ![s] = "closed"] /\ queue' = Append(QueueBut(0), DeleteLater(s))
          /\ UNCHANGED <<calls, opened, live>>
      BY <1>2, <1>28 DEF NoticeDisconnect, mainVars
    <2>2. DeleteLater(s) \in Event /\ DeleteLater(s).kind = "delete" /\ DeleteLater(s).socket = s
      BY <1>4
    <2>3. InOrder'
      BY <1>1, <1>2, <2>1, <2>2, InOrderKept DEF Leaves
    <2>4. Waiting'
      <3>1. ASSUME waits' # <<>>
            PROVE  /\ \A k \in DOMAIN queue' : queue'[k].kind = "delete"
                   /\ waits'[1].loop # "drain" /\ (waits'[1].loop = "quit" => opened' \in live')
                   /\ opened' \in live' => state'[opened'] # "deleted"
        <4>1. waits # <<>>
          BY <1>26, <2>1, <3>1
        <4>2. \A k \in DOMAIN queue' : queue'[k].kind = "delete"
          BY <1>1, <1>2, <2>1, <2>2, <4>1, OnlyDeletes DEF Leaves, Waiting
        <4>3. waits'[1].loop # "drain" /\ (waits'[1].loop = "quit" => opened' \in live')
          BY <1>25, <2>1, <4>1
        <4>4. opened' \in live' => state'[opened'] # "deleted"
          <5>1. opened \in live => opened \in Sockets /\ state[opened] # "deleted"
            BY <1>1, <4>1, SocketOf DEF Waiting
          <5> QED  BY <1>1, <2>1, <5>1 DEF SocketsTyped
        <4> QED  BY <4>2, <4>3, <4>4
      <3> QED  BY <3>1 DEF Waiting
    <2>5. ClosedIsDoomed' /\ DeletedIsNext'
      <3>1. CASE s = opened
        <4>1. state'[opened'] = "closed"
          BY <1>1, <2>1, <3>1 DEF SocketsTyped
        <4>2. \E k \in DOMAIN queue' : Doomed(k)'
          BY <1>1, <1>2, <2>1, <2>2, <3>1, DoomPosted
        <4> QED  BY <4>1, <4>2 DEF ClosedIsDoomed, DeletedIsNext
      <3>2. CASE s # opened
        <4>1. state'[opened] = state[opened]
          BY <1>1, <2>1, <3>2 DEF SocketsTyped
        <4> QED  BY <1>1, <1>2, <2>1, <2>2, <4>1, DoomKept
      <3> QED  BY <3>1, <3>2
    <2> QED  BY <2>3, <2>4, <2>5 DEF Orderly
  <1>29. ASSUME UNCHANGED <<calls, queue, waits, opened, state, live>>
         PROVE  Orderly'
    BY <1>1, <1>29 DEF Orderly, InOrder, Waiting, ClosedIsDoomed, DeletedIsNext, Doomed
  <1>30. ASSUME NEW s \in Sockets, Handle(s) \/ Leave(s)
         PROVE  Orderly'
    BY <1>29, <1>30 DEF Handle, Leave, mainVars, socketVars
  <1>31. CASE UNCHANGED vars
    BY <1>29, <1>31 DEF vars, mainVars, socketVars
  <1> QED
    BY <1>9, <1>10, <1>11, <1>12, <1>16, <1>18, <1>19, <1>20, <1>21, <1>22, <1>23, <1>24, <1>27, <1>28, <1>30,
       <1>31
    DEF Next, Worker, Server

LEMMA OrderlyTells == OneCall => NoDeadSocket /\ ConnectionOutlivesWait
PROOF
  <1> SUFFICES ASSUME OneCall PROVE NoDeadSocket /\ ConnectionOutlivesWait
    OBVIOUS
  <1>1. WaitsTyped /\ SocketsTyped /\ QueueTyped /\ OneWait /\ Waiting /\ DeletedIsNext
    BY DEF OneCall, Typed, OneAttempt, Orderly
  <1>2. NoDeadSocket
    <2> SUFFICES ASSUME NEW i \in DOMAIN queue, Takes("send", i), m_connection # Null,
                        state[m_connection] = "deleted"
                 PROVE  FALSE
      BY DEF NoDeadSocket
    <2>1. m_connection = opened /\ opened \in live
      BY <1>1, SocketOf
    <2>2. PICK k \in DOMAIN queue : Doomed(k) /\ \A j \in DOMAIN queue : j < k => queue[j].kind = "delete"
      BY <1>1, <2>1 DEF DeletedIsNext
    <2>3. i = 1 /\ ~Doomed(i) /\ queue[i].kind = "send"
      BY TakesRequest DEF Takes
    <2>4. k > 1
      BY <1>1, <2>2, <2>3, LenProperties DEF QueueTyped
    <2> QED  BY <2>2, <2>3, <2>4
  <1>3. ConnectionOutlivesWait
    <2> SUFFICES ASSUME WaitOver PROVE m_connection # Null
      BY DEF ConnectionOutlivesWait
    <2>1. Loop \in {"quit", "drain"}
      BY DEF WaitOver
    <2>2. waits # <<>> /\ Loop = waits[1].loop
      BY <1>1, <2>1, TheLoop
    <2>3. opened \in live
      BY <1>1, <2>1, <2>2 DEF Waiting
    <2> QED  BY <1>1, <2>3, SocketOf
  <1> QED  BY <1>2, <1>3

LEMMA OneCallHolds ==
    ASSUME Overlap = {}
    PROVE  Spec => []OneCall
PROOF
  <1>1. Init => OneCall
    BY TypedStart, AttemptsStart, OrderlyStart DEF OneCall
  <1>2. OneCall /\ [Next]_vars => OneCall'
    BY TypedStep, AttemptStep, OrderlyStep DEF OneCall
  <1> QED  BY <1>1, <1>2, PTL DEF Spec

\* Where the application makes one call at a time, whatever goes wrong, sendCallRequest
\* never writes to a socket that has been deleted.
THEOREM RequestsReachSockets ==
    ASSUME Overlap = {}
    PROVE  Spec => []NoDeadSocket
  BY OneCallHolds, OrderlyTells, PTL

\* Likewise, the m_connection that connectToServer reads when its wait is over is
\* still there.
THEOREM ConnectionsOutliveWaits ==
    ASSUME Overlap = {}
    PROVE  Spec => []ConnectionOutlivesWait
  BY OneCallHolds, OrderlyTells, PTL
=============================================================================
