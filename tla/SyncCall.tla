------------------------------ MODULE SyncCall ------------------------------
(***************************************************************************)
(* Synchronous requests between programs, each of which may be a client    *)
(* and a service: CuteIPCInterface::call, over sendSynchronousRequest, and *)
(* CuteIPCServiceConnection::processMessage at the other end.              *)
(*                                                                         *)
(* A request has a socket and a connection of its own.  Its caller waits   *)
(* in a nested event loop, in which the program answers requests itself    *)
(* and its application makes other calls; a method that is invoked may run *)
(* an event loop, too.  So every program has a stack of calls and methods  *)
(* under way, and only the top one can end.                                *)
(***************************************************************************)
EXTENDS Naturals, Sequences, FiniteSets, SequencesExt

CONSTANTS
    Programs,
    Kinds,    \* of requests: see the next comment
    Faults,   \* a service is deleted ("destroy"), a program killed ("kill"),
              \* a "write" finds its connection broken
    MaxCalls  \* bound: calls made

\* What a call invokes: a "plain" method, one that runs an event loop, one whose
\* result cannot be marshalled ("mute"), or one that does not exist.  An argument
\* that cannot be marshalled makes the request an "empty" message.
ASSUME KindsAssumption == Kinds \subseteq {"plain", "loops", "mute", "missing", "empty"}
ASSUME FaultsAssumption == Faults \subseteq {"destroy", "kill", "write"}
ASSUME MaxCallsAssumption == MaxCalls \in Nat

Calls == 1..MaxCalls

VARIABLES
    made,       \* calls made
    call,       \* who called whom, and for what
    stack,      \* of every program, top last
    service,    \* of every program
    request,    \* where the request of every call is
    connection, \* the service's end of its socket
    reply,      \* what has been answered
    successful, \* m_lastCallSuccessful at the caller
    quit,       \* the caller's loop is to end
    broken,     \* the socket is closed by the service, or for it
    returned,   \* what the call has returned
    invoked     \* the calls whose method has run

vars == <<made, call, stack, service, request, connection, reply, successful, quit, broken,
          returned, invoked>>

Frame == [what : {"call", "method"}, n : Calls] \cup [what : {"teardown"}]

TypeOK ==
    /\ made \in 0..MaxCalls
    /\ call \in [1..made -> [caller : Programs, callee : Programs, kind : Kinds]]
    /\ stack \in [Programs -> Seq(Frame)]
    /\ service \in [Programs -> {"up", "closing", "gone", "killed"}]
    /\ \A p \in Programs :
          service[p] = "closing" <=> [what |-> "teardown"] \in ToSet(stack[p])
    /\ request \in [Calls -> {"none", "sent", "taken"}]
    /\ connection \in [Calls -> {"none", "alive", "deleted"}]
    /\ reply \in [Calls -> {"none", "response", "error", "empty"}]
    /\ {successful, quit, broken} \subseteq [Calls -> BOOLEAN]
    /\ returned \in [Calls -> {"none", "true", "false"}]
    /\ invoked \subseteq 1..made

Init ==
    /\ made = 0 /\ call = <<>> /\ invoked = {}
    /\ stack = [p \in Programs |-> <<>>]
    /\ service = [p \in Programs |-> "up"]
    /\ request = [n \in Calls |-> "none"]
    /\ connection = [n \in Calls |-> "none"]
    /\ reply = [n \in Calls |-> "none"]
    /\ successful = [n \in Calls |-> FALSE]
    /\ quit = [n \in Calls |-> FALSE]
    /\ broken = [n \in Calls |-> FALSE]
    /\ returned = [n \in Calls |-> "none"]

Push(p, frame) == stack' = [stack EXCEPT ![p] = Append(@, frame)]
Pop(p) == stack' = [stack EXCEPT ![p] = Front(@)]

Tops(p, what) == stack[p] # <<>> /\ Last(stack[p]).what = what

\* The program is in an event loop, its main one or a nested one.
LoopRuns(p) ==
    /\ service[p] # "killed"
    /\ Tops(p, "method") => call[Last(stack[p]).n].kind = "loops"

-----------------------------------------------------------------------------
(* The caller                                                              *)

\* sendSynchronousRequest: false when nobody listens; else the request is
\* written and a loop waits.  When the write fails, socketDisconnected comes
\* before loop.exec(), and quits nothing.
Call(p, q, kind) ==
    LET n == made + 1 IN
    /\ n \in Calls /\ service[p] # "killed"
    /\ made' = n
    /\ call' = Append(call, [caller |-> p, callee |-> q, kind |-> kind])
    /\ \/ /\ service[q] \in {"gone", "killed"}
          /\ returned' = [returned EXCEPT ![n] = "false"]
          /\ UNCHANGED <<stack, request, successful, broken>>
       \/ /\ service[q] \in {"up", "closing"}
          /\ Push(p, [what |-> "call", n |-> n])
          /\ request' = [request EXCEPT ![n] = "sent"]
          /\ successful' = [successful EXCEPT ![n] = TRUE]
          /\ UNCHANGED <<returned, broken>>
       \/ /\ "write" \in Faults
          /\ Push(p, [what |-> "call", n |-> n])
          /\ successful' = [successful EXCEPT ![n] = TRUE]
          /\ broken' = [broken EXCEPT ![n] = TRUE]
          /\ UNCHANGED <<returned, request>>
    /\ UNCHANGED <<service, connection, reply, quit, invoked>>

Waits(n) == \E i \in DOMAIN stack[call[n].caller] :
                stack[call[n].caller][i] = [what |-> "call", n |-> n]

\* A message of size 0 is no answer: its size is read and nothing comes of it.
Answered(n) == reply[n] \in {"response", "error"}

\* Mutant: an error message ends the wait and nothing else.
QuitOnReply(n) ==
    /\ LoopRuns(call[n].caller) /\ Waits(n) /\ ~quit[n]
    /\ Answered(n)
    /\ quit' = [quit EXCEPT ![n] = TRUE]
    /\ UNCHANGED <<made, call, stack, service, request, connection, reply, successful, broken,
                   returned, invoked>>

\* The answer to any call of the stack is read in the innermost loop.
ReadReply(n) ==
    /\ LoopRuns(call[n].caller) /\ Waits(n) /\ ~quit[n]
    /\ Answered(n)
    /\ successful' = [successful EXCEPT ![n] = reply[n] = "response"]
    /\ quit' = [quit EXCEPT ![n] = TRUE]
    /\ UNCHANGED <<made, call, stack, service, request, connection, reply, broken, returned,
                   invoked>>

\* The service has closed the socket: socketDisconnected, and no more.
NoticeClose(n) ==
    /\ LoopRuns(call[n].caller) /\ Waits(n) /\ ~quit[n]
    /\ broken[n] /\ request[n] # "none" /\ ~Answered(n)
    /\ quit' = [quit EXCEPT ![n] = TRUE]
    /\ UNCHANGED <<made, call, stack, service, request, connection, reply, successful, broken,
                   returned, invoked>>

\* return connection.lastCallSuccessful()
Return(n) ==
    LET p == call[n].caller IN
    /\ service[p] # "killed"
    /\ Tops(p, "call") /\ Last(stack[p]).n = n /\ quit[n]
    /\ Pop(p)
    /\ returned' = [returned EXCEPT ![n] = IF successful[n] THEN "true" ELSE "false"]
    /\ UNCHANGED <<made, call, service, request, connection, reply, successful, quit, broken,
                   invoked>>

-----------------------------------------------------------------------------
(* The service                                                             *)

\* A connection for the next socket of the server.
Accept(n) ==
    LET q == call[n].callee IN
    /\ LoopRuns(q) /\ service[q] \in {"up", "closing"}
    /\ request[n] = "sent" /\ connection[n] = "none"
    /\ connection' = [connection EXCEPT ![n] = "alive"]
    /\ UNCHANGED <<made, call, stack, service, request, reply, successful, quit, broken,
                   returned, invoked>>

\* Mutant: a service takes no request while it is busy.
TakeWhenIdle(n) ==
    /\ stack[call[n].callee] = <<>> /\ LoopRuns(call[n].callee)
    /\ connection[n] = "alive" /\ request[n] = "sent"
    /\ request' = [request EXCEPT ![n] = "taken"]
    /\ UNCHANGED <<made, call, service, connection, successful, quit, broken, returned, invoked>>

\* readyRead: the request is read in whatever event loop the program is in.
Take(n) ==
    /\ LoopRuns(call[n].callee)
    /\ connection[n] = "alive" /\ request[n] = "sent"
    /\ request' = [request EXCEPT ![n] = "taken"]
    /\ UNCHANGED <<made, call, service, connection, successful, quit, broken, returned, invoked>>

\* A message of size 0 with nothing behind it is not looked at.  (Looked at, it
\* would read as type 0, a call of a method without a name, and be refused.)
Swallow(n) ==
    /\ call[n].kind = "empty"
    /\ Take(n)
    /\ UNCHANGED <<stack, reply>>

\* The invocation fails: there is no such method, or no longer, as ~CuteIPCService
\* runs its event loop when the object is no more than a CuteIPCService.
Refuse(n) ==
    /\ \/ call[n].kind = "missing"
       \/ call[n].kind # "empty" /\ service[call[n].callee] = "closing"
    /\ Take(n)
    /\ reply' = [reply EXCEPT ![n] = "error"]
    /\ UNCHANGED stack

\* Mutant: the response is sent before the method is invoked.
InvokeAnswered(n) ==
    /\ call[n].kind \in {"plain", "loops", "mute"}
    /\ Take(n)
    /\ Push(call[n].callee, [what |-> "method", n |-> n])
    /\ reply' = [reply EXCEPT ![n] = "response"]

\* The method runs, perhaps an event loop, perhaps calls of its own.
Invoke(n) ==
    /\ call[n].kind \in {"plain", "loops", "mute"}
    /\ Take(n)
    /\ Push(call[n].callee, [what |-> "method", n |-> n])
    /\ UNCHANGED reply

\* marshallMessage gives up at the first value that it cannot write.
Response(kind) == IF kind = "mute" THEN "empty" ELSE "response"

\* The method has returned: the response.
Respond(n) ==
    LET q == call[n].callee IN
    /\ service[q] # "killed"
    /\ Tops(q, "method") /\ Last(stack[q]).n = n
    /\ Pop(q)
    /\ invoked' = invoked \cup {n}
    /\ reply' = [reply EXCEPT ![n] = Response(call[n].kind)]
    /\ UNCHANGED <<made, call, service, request, connection, successful, quit, broken, returned>>

\* The caller has closed the socket, or is no more: the connection is deleted,
\* by the event loop that runs, in the midst of processMessage perhaps.
HangUp(n) ==
    /\ LoopRuns(call[n].callee)
    /\ connection[n] = "alive"
    /\ returned[n] # "none" \/ service[call[n].caller] = "killed"
    /\ connection' = [connection EXCEPT ![n] = "deleted"]
    /\ UNCHANGED <<made, call, stack, service, request, reply, successful, quit, broken,
                   returned, invoked>>

\* Mutant: no event loop waits for the clients.
BeginOnly(q) ==
    /\ "destroy" \in Faults
    /\ service[q] = "up"
    /\ \A i \in DOMAIN stack[q] : stack[q][i].what = "call"
    /\ service' = [service EXCEPT ![q] = "closing"]
    /\ UNCHANGED <<made, call, stack, request, connection, reply, successful, quit, broken,
                   returned, invoked>>

CallsTo(q) == {n \in DOMAIN call : call[n].callee = q}

\* The deletion of a service, by its program and not by one of its own
\* methods, gives the long-lived connections time to react ...
BeginDestroy(q) ==
    /\ "destroy" \in Faults
    /\ service[q] = "up"
    /\ \A i \in DOMAIN stack[q] : stack[q][i].what = "call"
    /\ service' = [service EXCEPT ![q] = "closing"]
    /\ Push(q, [what |-> "teardown"])
    /\ UNCHANGED <<made, call, request, connection, reply, successful, quit, broken, returned,
                   invoked>>

\* The sockets of the program are closed, accepted or not.
CloseSockets(q) ==
    /\ broken' = [n \in Calls |-> broken[n] \/ n \in CallsTo(q)]
    /\ connection' = [n \in Calls |->
          IF n \in CallsTo(q) /\ connection[n] = "alive" THEN "deleted" ELSE connection[n]]

\* ... and then deletes all connections, and whatever they have to answer.
EndDestroy(q) ==
    /\ Tops(q, "teardown")
    /\ service[q] # "killed"
    /\ Pop(q)
    /\ service' = [service EXCEPT ![q] = "gone"]
    /\ CloseSockets(q)
    /\ UNCHANGED <<made, call, request, reply, successful, quit, returned, invoked>>

\* Its sockets are closed by the system.
Kill(q) ==
    /\ "kill" \in Faults
    /\ service[q] # "killed"
    /\ service' = [service EXCEPT ![q] = "killed"]
    /\ CloseSockets(q)
    /\ stack' = [stack EXCEPT ![q] = <<>>]
    /\ UNCHANGED <<made, call, request, reply, successful, quit, returned, invoked>>

-----------------------------------------------------------------------------

EventOf(n) == ReadReply(n) \/ NoticeClose(n) \/ Return(n) \/ Accept(n)
              \/ Swallow(n) \/ Refuse(n) \/ Invoke(n) \/ Respond(n) \/ HangUp(n)

Next ==
    \/ \E p, q \in Programs, kind \in Kinds : Call(p, q, kind)
    \/ \E n \in DOMAIN call : EventOf(n)
    \/ \E q \in Programs : BeginDestroy(q) \/ EndDestroy(q) \/ Kill(q)

Spec == Init /\ [][Next]_vars

\* Event loops run, methods return and the timer of the teardown fires.
FairSpec ==
    /\ Spec
    /\ \A n \in Calls : WF_vars(n \in DOMAIN call /\ EventOf(n))
    /\ \A q \in Programs : WF_vars(EndDestroy(q))

-----------------------------------------------------------------------------
(* Properties                                                              *)

\* While the service is there, a call returns true exactly when its method has
\* been invoked and has returned, and false when it has not been and will not be.
AnswerIsTrue ==
    \A n \in DOMAIN call :
        returned[n] # "none" /\ service[call[n].callee] \in {"up", "closing"} =>
            (returned[n] = "true" <=> n \in invoked)

\* "Returns true if the invokation was successful, false otherwise": with no
\* proviso.
TrueMeansInvoked == \A n \in DOMAIN call : returned[n] = "true" => n \in invoked

\* While a method runs, however many event loops deep, the connection it was
\* called through is there for the response, unless its caller has been killed.
ConnectionAwaitsMethod ==
    \A q \in Programs : \A i \in DOMAIN stack[q] :
        LET n == stack[q][i].n IN
        stack[q][i].what = "method" /\ service[call[n].caller] # "killed" =>
            connection[n] = "alive"

Waiting(n) ==
    /\ n \in DOMAIN call /\ returned[n] = "none"
    /\ service[call[n].caller] # "killed"

\* Calls that nothing answers: the request or the response is empty, and only the
\* end of the service is noticed; or the write failed, and nothing is.
Lost(n) ==
    \/ (call[n].kind = "empty" \/ reply[n] = "empty") /\ ~broken[n]
    \/ broken[n] /\ request[n] = "none"

\* In some program m, or its method, cannot end before k returns.
Behind(m, k) ==
    \E p \in Programs : \E i, j \in DOMAIN stack[p] :
        /\ i < j
        /\ stack[p][i] \in [what : {"call", "method"}, n : {m}]
        /\ stack[p][j] = [what |-> "call", n |-> k]

\* The calls that wait for a lost one: the least set with the lost ones and
\* whatever is behind one of its members.
HeldUp(n) ==
    \A held \in SUBSET DOMAIN call :
        (\A m \in DOMAIN call : Lost(m) \/ (\E k \in held : Behind(m, k)) => m \in held)
            => n \in held

\* Every call returns, in whatever way programs call each other and themselves
\* and calls and methods pile up, while services go and programs are killed,
\* unless its own program is killed or it waits for a lost call: one that is lost
\* holds up those beneath it and no others, and most are lost no longer than
\* their service is there.
CallReturns == \A n \in Calls : Waiting(n) ~> (~Waiting(n) \/ HeldUp(n))
=============================================================================
