-------------------------- MODULE InterfaceWorker --------------------------
(***************************************************************************)
(* The client's two threads.  The application's thread calls               *)
(* CuteIPCInterface; connectToServer and disconnectFromServer post a       *)
(* request to CuteIPCInterfaceWorker and block in a nested event loop,     *)
(* callNoReply (and the relay of a local signal) only posts.  The worker   *)
(* thread runs the requests in order, owns the long-lived socket and its   *)
(* CuteIPCInterfaceConnection, and blocks in a nested event loop of its    *)
(* own, in which it goes on with other requests, while the server has not  *)
(* answered the connection's id.                                           *)
(*                                                                         *)
(* Sockets are numbered as they are opened.  m_socket and m_connection are *)
(* QPointers to the last one: they read null when that object is deleted.  *)
(***************************************************************************)
EXTENDS Integers, Sequences, SequencesExt

CONSTANTS
    Overlap,    \* what applications call while another call blocks
    Faults,     \* what goes wrong: the server may "leave", a "write" may find
                \* the connection broken
    MaxCalls,   \* bound: calls that block
    MaxSends,   \* bound: calls of callNoReply
    MaxNested,  \* bound: calls that block at once
    MaxSockets  \* bound: sockets opened

ASSUME UsesAssumption == /\ Overlap \subseteq {"connect", "disconnect", "send"}
                         /\ Faults \subseteq {"leave", "write"}
ASSUME BoundsAssumption == /\ {MaxCalls, MaxSends, MaxNested} \subseteq Nat
                           /\ MaxSockets \in Nat

Sockets == 1..MaxSockets
Null == 0

VARIABLES
    calls,      \* the application's blocked calls, innermost last
    made,       \* calls made that block
    sends,      \* calls of callNoReply made (bound)
    queue,      \* events posted to the worker
    waits,      \* its waits for an answer to an id, innermost last
    opened,     \* sockets opened
    state,      \* of every socket, at the client
    live,       \* sockets with a CuteIPCInterfaceConnection
    toServer, toClient, \* messages under way on every socket
    registered, \* sockets whose id the server knows
    left        \* sockets the server has closed

mainVars == <<calls, made, sends>>
socketVars == <<opened, state, live>>
serverVars == <<toServer, toClient, registered, left>>
vars == <<mainVars, queue, waits, socketVars, serverVars>>

m_socket == IF opened # 0 /\ state[opened] # "deleted" THEN opened ELSE Null
m_connection == IF opened \in live THEN opened ELSE Null

Call == [id : 1..MaxCalls, kind : {"connect", "disconnect"}, quit : BOOLEAN,
         connected : {"unset", "yes", "no"}]

\* A deletion is carried out by the event loop that posted it, or by one
\* further out.
Event == [kind : {"connect"}, call : 1..MaxCalls] \cup [kind : {"disconnect", "send"}]
         \cup [kind : {"delete"}, socket : Sockets, level : 0..MaxSockets]

\* A wait ends at once when its loop is told to quit from a socket's event,
\* and after the other events posted so far when told from one of them.
Wait == [socket : Sockets, call : 1..MaxCalls, loop : {"running", "quit", "drain"}]

TypeOK ==
    /\ calls \in BoundedSeq(Call, MaxNested)
    /\ made \in 0..MaxCalls /\ sends \in 0..MaxSends
    /\ queue \in Seq(Event)
    /\ waits \in BoundedSeq(Wait, MaxSockets)
    /\ opened \in 0..MaxSockets
    /\ state \in [Sockets -> {"none", "open", "closed", "deleted"}]
    /\ \A s \in Sockets : s > opened <=> state[s] = "none"
    /\ live \subseteq 1..opened
    /\ toServer \in [Sockets -> Seq({"init", "call"})]
    /\ toClient \in [Sockets -> Seq({"response", "error"})]
    /\ registered \subseteq 1..opened /\ left \subseteq 1..opened

Init ==
    /\ calls = <<>> /\ made = 0 /\ sends = 0
    /\ queue = <<>> /\ waits = <<>>
    /\ opened = 0 /\ live = {} /\ registered = {} /\ left = {}
    /\ state = [s \in Sockets |-> "none"]
    /\ toServer = [s \in Sockets |-> <<>>]
    /\ toClient = [s \in Sockets |-> <<>>]

-----------------------------------------------------------------------------
(* The application's thread                                                *)

May(kind) == calls = <<>> \/ kind \in Overlap

Block(kind) ==
    /\ May(kind) /\ Len(calls) < MaxNested /\ made < MaxCalls
    /\ made' = made + 1
    /\ calls' = Append(calls, [id |-> made + 1, kind |-> kind, quit |-> FALSE, connected |-> "unset"])
    /\ UNCHANGED <<sends, waits, socketVars, serverVars>>

ConnectToServer ==
    /\ Block("connect")
    /\ queue' = Append(queue, [kind |-> "connect", call |-> made + 1])

DisconnectFromServer ==
    /\ Block("disconnect")
    /\ queue' = Append(queue, [kind |-> "disconnect"])

CallNoReply ==
    /\ May("send") /\ sends < MaxSends
    /\ sends' = sends + 1
    /\ queue' = Append(queue, [kind |-> "send"])
    /\ UNCHANGED <<calls, made, waits, socketVars, serverVars>>

\* Only the innermost loop can end.
Return ==
    /\ calls # <<>> /\ Last(calls).quit
    /\ calls' = Front(calls)
    /\ UNCHANGED <<made, sends, queue, waits, socketVars, serverVars>>

\* connectToServerFinished and disconnectFromServerFinished quit the loops of
\* all the calls that wait for them.
Told(kind, cs) ==
    [i \in DOMAIN cs |-> IF cs[i].kind = kind THEN [cs[i] EXCEPT !.quit = TRUE] ELSE cs[i]]

\* *successful = connected, for the call that handed out the pointer.
Answered(id, connected, cs) ==
    [i \in DOMAIN cs |-> IF cs[i].id = id THEN [cs[i] EXCEPT !.connected = connected] ELSE cs[i]]

-----------------------------------------------------------------------------
(* The worker's thread                                                     *)

\* The innermost event loop; the thread's own one always runs.
Loop == IF waits = <<>> THEN "running" ELSE Last(waits).loop

\* The events that the innermost loop carries out, of which it takes the first.
Ready == {i \in DOMAIN queue : queue[i].kind = "delete" => queue[i].level >= Len(waits)}

Takes(kind, i) ==
    /\ Loop # "quit"
    /\ i \in Ready /\ \A j \in Ready : i <= j
    /\ queue[i].kind = kind

\* loop.quit() of every wait for the socket.
Quit(s, how) ==
    [i \in DOMAIN waits |->
        IF waits[i].socket = s /\ waits[i].loop = "running"
        THEN [waits[i] EXCEPT !.loop = how] ELSE waits[i]]

\* Mutant: the deletion is left to the loop further out.
DeleteFurtherOut(s) == [kind |-> "delete", socket |-> s, level |-> Len(waits) - 1]

\* The deleteLater calls on socketDisconnected.
DeleteLater(s) == [kind |-> "delete", socket |-> s, level |-> Len(waits)]

\* The attempt fails: no server, or none within five seconds.
RefuseConnection(i) ==
    /\ Takes("connect", i)
    /\ calls' = Told("connect", Answered(queue[i].call, "no", calls))
    /\ queue' = RemoveAt(queue, i)
    /\ UNCHANGED <<made, sends, waits, socketVars, serverVars>>

\* Mutant: the loop that waits for the answer is left out.
AwaitNothing(s, id) == waits' = Append(waits, [socket |-> s, call |-> id, loop |-> "quit"])

\* loop.exec(), until the server answers or the socket is disconnected.
AwaitAnswer(s, id) == waits' = Append(waits, [socket |-> s, call |-> id, loop |-> "running"])

\* The new socket replaces whatever there was.
OpenSocket(i) ==
    /\ opened < MaxSockets
    /\ opened' = opened + 1
    /\ live' = live \cup {opened + 1}
    /\ AwaitAnswer(opened + 1, queue[i].call)

\* Mutant: connectToServerFinished is emitted before the server has answered.
FinishEarly(i) ==
    /\ Takes("connect", i)
    /\ OpenSocket(i)
    /\ state' = [state EXCEPT ![opened + 1] = "open"]
    /\ toServer' = [toServer EXCEPT ![opened + 1] = <<"init">>]
    /\ queue' = RemoveAt(queue, i)
    /\ calls' = Told("connect", Answered(queue[i].call, "yes", calls))
    /\ UNCHANGED <<made, sends, toClient, registered, left>>

\* Connected: the id is sent, and a loop waits for the answer.
OpenConnection(i) ==
    /\ Takes("connect", i)
    /\ OpenSocket(i)
    /\ state' = [state EXCEPT ![opened + 1] = "open"]
    /\ toServer' = [toServer EXCEPT ![opened + 1] = <<"init">>]
    /\ queue' = RemoveAt(queue, i)
    /\ UNCHANGED <<mainVars, toClient, registered, left>>

\* Connected, but the server has gone when the id is written: socketDisconnected
\* comes before loop.exec(), and quits nothing.
OpenBrokenConnection(i) ==
    /\ "write" \in Faults
    /\ Takes("connect", i)
    /\ OpenSocket(i)
    /\ state' = [state EXCEPT ![opened + 1] = "closed"]
    /\ left' = left \cup {opened + 1}
    /\ queue' = Append(RemoveAt(queue, i), DeleteLater(opened + 1))
    /\ UNCHANGED <<mainVars, toServer, toClient, registered>>

WaitOver ==
    \/ Loop = "quit"
    \/ Loop = "drain" /\ Ready = {}

\* Whatever ended the wait, the call returns true.
FinishConnection ==
    /\ WaitOver
    /\ calls' = Told("connect", Answered(Last(waits).call, "yes", calls))
    /\ waits' = Front(waits)
    /\ UNCHANGED <<made, sends, queue, socketVars, serverVars>>

\* disconnectFromServer without a socket: an early return, and no signal.
IgnoreDisconnect(i) ==
    /\ Takes("disconnect", i)
    /\ m_socket = Null
    /\ queue' = RemoveAt(queue, i)
    /\ UNCHANGED <<mainVars, waits, socketVars, serverVars>>

\* Mutant: nobody listens to socketDisconnected.
CloseOnly(i) ==
    /\ Takes("disconnect", i)
    /\ m_socket # Null
    /\ state' = [state EXCEPT ![m_socket] = "deleted"]
    /\ queue' = RemoveAt(queue, i)
    /\ calls' = Told("disconnect", calls)
    /\ UNCHANGED <<made, sends, waits, opened, live, serverVars>>

\* Mutant: nobody is told.
CloseSilently(i) ==
    /\ Takes("disconnect", i)
    /\ m_socket # Null
    /\ state' = [state EXCEPT ![m_socket] = "deleted"]
    /\ IF state[m_socket] = "open"
       THEN /\ queue' = Append(RemoveAt(queue, i), DeleteLater(m_socket))
            /\ waits' = Quit(m_socket, "drain")
       ELSE queue' = RemoveAt(queue, i) /\ UNCHANGED waits
    /\ UNCHANGED <<mainVars, opened, live, serverVars>>

\* The socket is closed and deleted at once, its connection later.
CloseSocket(i) ==
    /\ Takes("disconnect", i)
    /\ m_socket # Null
    /\ state' = [state EXCEPT ![m_socket] = "deleted"]
    /\ IF state[m_socket] = "open"
       THEN /\ queue' = Append(RemoveAt(queue, i), DeleteLater(m_socket))
            /\ waits' = Quit(m_socket, "drain")
       ELSE queue' = RemoveAt(queue, i) /\ UNCHANGED waits
    /\ calls' = Told("disconnect", calls)
    /\ UNCHANGED <<made, sends, opened, live, serverVars>>

\* A request is dropped when there is no connection, or a closed socket, or one
\* the server has closed, which the write may notice.
SendCallRequest(i) ==
    /\ Takes("send", i)
    /\ IF m_connection # Null /\ state[opened] = "open"
       THEN \/ /\ toServer' = IF opened \in left THEN toServer
                              ELSE [toServer EXCEPT ![opened] = Append(@, "call")]
               /\ queue' = RemoveAt(queue, i)
               /\ UNCHANGED <<waits, state>>
            \/ /\ "write" \in Faults /\ opened \in left
               /\ state' = [state EXCEPT ![opened] = "closed"]
               /\ queue' = Append(RemoveAt(queue, i), DeleteLater(opened))
               /\ waits' = Quit(opened, "drain")
               /\ UNCHANGED toServer
       ELSE queue' = RemoveAt(queue, i) /\ UNCHANGED <<waits, state, toServer>>
    /\ UNCHANGED <<mainVars, opened, live, toClient, registered, left>>

DeleteConnection(i) ==
    /\ Takes("delete", i)
    /\ live' = live \ {queue[i].socket}
    /\ state' = [state EXCEPT ![queue[i].socket] = "deleted"]
    /\ queue' = RemoveAt(queue, i)
    /\ UNCHANGED <<mainVars, waits, opened, serverVars>>

\* A response or an error: callFinished.
ReadReply(s) ==
    /\ Loop = "running"
    /\ s \in live /\ state[s] = "open" /\ toClient[s] # <<>>
    /\ toClient' = [toClient EXCEPT ![s] = Tail(@)]
    /\ waits' = Quit(s, "quit")
    /\ UNCHANGED <<mainVars, queue, socketVars, toServer, registered, left>>

\* Mutant: the loop does not quit on socketDisconnected.
NoticeAndWait(s) ==
    /\ Loop = "running"
    /\ s \in live /\ state[s] = "open" /\ s \in left /\ toClient[s] = <<>>
    /\ state' = [state EXCEPT ![s] = "closed"]
    /\ queue' = Append(queue, DeleteLater(s))
    /\ UNCHANGED <<mainVars, waits, opened, live, serverVars>>

\* Mutant: the connection is deleted on socketDisconnected, not later.
NoticeAndDelete(s) ==
    /\ Loop = "running"
    /\ s \in live /\ state[s] = "open" /\ s \in left /\ toClient[s] = <<>>
    /\ state' = [state EXCEPT ![s] = "deleted"]
    /\ live' = live \ {s}
    /\ waits' = Quit(s, "quit")
    /\ UNCHANGED <<mainVars, queue, opened, serverVars>>

\* The end of the stream: socketDisconnected.
NoticeDisconnect(s) ==
    /\ Loop = "running"
    /\ s \in live /\ state[s] = "open" /\ s \in left /\ toClient[s] = <<>>
    /\ state' = [state EXCEPT ![s] = "closed"]
    /\ queue' = Append(queue, DeleteLater(s))
    /\ waits' = Quit(s, "quit")
    /\ UNCHANGED <<mainVars, opened, live, serverVars>>

Worker ==
    \/ \E i \in DOMAIN queue :
          \/ RefuseConnection(i) \/ OpenConnection(i) \/ OpenBrokenConnection(i)
          \/ IgnoreDisconnect(i) \/ CloseSocket(i) \/ SendCallRequest(i) \/ DeleteConnection(i)
    \/ FinishConnection
    \/ \E s \in Sockets : ReadReply(s) \/ NoticeDisconnect(s)

-----------------------------------------------------------------------------
(* The server                                                              *)

\* An id is registered and confirmed; an asynchronous call is answered only
\* when it cannot be invoked.
Handle(s) ==
    /\ s \notin left /\ toServer[s] # <<>>
    /\ toServer' = [toServer EXCEPT ![s] = Tail(@)]
    /\ IF Head(toServer[s]) = "init"
       THEN /\ registered' = registered \cup {s}
            /\ toClient' = [toClient EXCEPT ![s] = Append(@, "response")]
       ELSE /\ \/ UNCHANGED toClient
               \/ toClient' = [toClient EXCEPT ![s] = Append(@, "error")]
            /\ UNCHANGED registered
    /\ UNCHANGED <<mainVars, queue, waits, socketVars, left>>

Leave(s) ==
    /\ "leave" \in Faults
    /\ s \notin left /\ state[s] = "open"
    /\ left' = left \cup {s}
    /\ toServer' = [toServer EXCEPT ![s] = <<>>]
    /\ UNCHANGED <<mainVars, queue, waits, socketVars, toClient, registered>>

Server == \E s \in Sockets : Handle(s) \/ Leave(s)

Next == ConnectToServer \/ DisconnectFromServer \/ CallNoReply \/ Return \/ Worker \/ Server

Spec == Init /\ [][Next]_vars

\* All three event loops run.
FairSpec == /\ Spec /\ WF_vars(Worker) /\ WF_vars(Return)
            /\ \A s \in Sockets : WF_vars(Handle(s))

-----------------------------------------------------------------------------
(* Properties                                                              *)

\* No request is written to a socket that has been deleted: whoever is sent a
\* request through m_connection finds the m_socket it was made with
\* (CuteIPCInterfaceConnection keeps a plain pointer to it).
NoDeadSocket ==
    (\E i \in DOMAIN queue : Takes("send", i)) /\ m_connection # Null
    => state[m_connection] # "deleted"

\* When the wait for the answer is over, m_connection, of which the worker
\* reads lastCallSuccessful() without a test, is still there.
ConnectionOutlivesWait == WaitOver => m_connection # Null

\* As long as the worker is to attempt a connection, the caller waits for it:
\* connectToServer returns what its own attempt has set, and the worker never
\* writes through the pointer of a call that has returned.
CallerWaits ==
    LET attempts == {queue[i].call : i \in {j \in DOMAIN queue : queue[j].kind = "connect"}}
                    \cup {waits[i].call : i \in DOMAIN waits}
    IN \A id \in attempts : \E i \in DOMAIN calls : calls[i].id = id /\ ~calls[i].quit

\* When connectToServer returns true, the server knows the connection's id,
\* unless the connection is already lost: the remoteConnect that comes next
\* goes over another socket and would be refused.
RegisteredOnReturn ==
    [][Len(calls') < Len(calls) /\ Last(calls).kind = "connect" /\ Last(calls).connected = "yes"
       => opened \in registered \cup left \/ state[opened] # "open"]_vars

Blocked(kind) == \E i \in DOMAIN calls : calls[i].kind = kind

\* connectToServer returns, whatever the server does while it waits.
ConnectReturns == Blocked("connect") ~> ~Blocked("connect")

\* disconnectFromServer returns, if there is a socket when it is called and the
\* server does not leave; without a socket the worker tells nobody.
DisconnectReturns ==
    Blocked("disconnect") /\ m_socket # Null ~> ~Blocked("disconnect") \/ opened \in left
=============================================================================
