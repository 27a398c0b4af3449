---------------------------- MODULE LocalSignals ----------------------------
(***************************************************************************)
(* Local signals connected to remote methods: remoteSlotConnect, the       *)
(* remoteConnect of a local signal, disconnectSlot, disconnectRemoteMethod *)
(* and the CuteIPCSignalHandlers of one CuteIPCInterface.                  *)
(*                                                                         *)
(* A handler catches the signal of one local object and posts a message    *)
(* for one remote method.  Connecting asks the server whether the method   *)
(* exists, in a nested event loop; only then is m_localSignalHandlers      *)
(* consulted.  A handler is a child of the interface, not of the object.   *)
(***************************************************************************)
EXTENDS Naturals, Sequences, FiniteSets, SequencesExt

CONSTANTS
    Objects,   \* addresses of local objects
    Signals,   \* the signals every object has
    Methods,   \* remote slots and signals
    Handlers,  \* addresses of handlers (bound: as many exist at once)
    MaxCalls,  \* bound: calls that connect
    MaxNested  \* bound: of them waiting at once

ASSUME BoundsAssumption == MaxCalls \in Nat /\ MaxNested \in Nat

Link == [object : Objects, signal : Signals, method : Methods]

VARIABLES
    alive,    \* objects that exist
    entries,  \* m_localSignalHandlers
    existing, \* handlers that exist, each with its m_signature
    wired,    \* the connections of objects' signals to relaySlot
    ops,      \* calls that wait for the server's answer, innermost last
    calls     \* calls made (bound)

vars == <<alive, entries, existing, wired, ops, calls>>

TypeOK ==
    /\ alive \subseteq Objects
    /\ existing \in SUBSET [handler : Handlers, method : Methods]
    /\ \A h, k \in existing : h.handler = k.handler => h = k
    /\ \A e \in entries \cup wired :
          /\ e \in [object : Objects, signal : Signals, handler : Handlers]
          /\ \E h \in existing : h.handler = e.handler
    /\ ops \in BoundedSeq([link : Link, reply : {"none", "ok", "error"}], MaxNested)
    /\ calls \in 0..MaxCalls

Init ==
    /\ alive = {} /\ entries = {} /\ existing = {} /\ wired = {}
    /\ ops = <<>> /\ calls = 0

-----------------------------------------------------------------------------

\* An object, perhaps where another one was.
Create(o) ==
    /\ o \notin alive
    /\ alive' = alive \cup {o}
    /\ UNCHANGED <<entries, existing, wired, ops, calls>>

\* checkRemoteSlotExistance or sendRemoteConnectRequest: a synchronous request.
Connect(l) ==
    /\ l.object \in alive
    /\ calls < MaxCalls /\ Len(ops) < MaxNested
    /\ calls' = calls + 1
    /\ ops' = Append(ops, [link |-> l, reply |-> "none"])
    /\ UNCHANGED <<alive, entries, existing, wired>>

\* The server has the method or not; a connection that is lost before the
\* server has said so counts as either.
Answer(i) ==
    /\ ops[i].reply = "none"
    /\ \E reply \in {"ok", "error"} : ops' = [ops EXCEPT ![i] = [link |-> @.link, reply |-> reply]]
    /\ UNCHANGED <<alive, entries, existing, wired, calls>>

\* Mutant: every call has a handler of its own.
NoneOf(l) == {}

\* The handlers in m_localSignalHandlers under the object and the signal that
\* have the method for a signature.
HandlersOf(l) ==
    {h \in existing :
        /\ h.method = l.method
        /\ [object |-> l.object, signal |-> l.signal, handler |-> h.handler] \in entries}

AddHandler(l, h) ==
    LET entry == [object |-> l.object, signal |-> l.signal, handler |-> h] IN
    /\ \A k \in existing : k.handler # h
    /\ existing' = existing \cup {[handler |-> h, method |-> l.method]}
    /\ entries' = entries \cup {entry}
    /\ wired' = wired \cup {entry}

\* handleLocalSignalRequest
HandleLocalSignalRequest(l) ==
    IF HandlersOf(l) = {}
    THEN \E h \in Handlers : AddHandler(l, h)
    ELSE UNCHANGED <<entries, existing, wired>>

\* Only the innermost call can return.
Return ==
    /\ ops # <<>> /\ Last(ops).reply # "none"
    /\ ops' = Front(ops)
    /\ IF Last(ops).reply = "ok"
       THEN HandleLocalSignalRequest(Last(ops).link)
       ELSE UNCHANGED <<entries, existing, wired>>
    /\ UNCHANGED <<alive, calls>>

Keep(S, hs) == {e \in S : \A h \in hs : h.handler # e.handler}

\* Mutant: the handlers are taken out of m_localSignalHandlers and not deleted.
Forget(hs) ==
    /\ entries' = Keep(entries, hs)
    /\ UNCHANGED <<existing, wired>>

\* Mutant: the handlers are deleted and stay in m_localSignalHandlers.
DeleteOnly(hs) ==
    /\ existing' = existing \ hs
    /\ wired' = Keep(wired, hs)
    /\ UNCHANGED entries

Delete(hs) ==
    /\ existing' = existing \ hs
    /\ wired' = Keep(wired, hs)
    /\ entries' = Keep(entries, hs)

\* Mutant: the method is not compared.
DisconnectAll(l) ==
    /\ l.object \in alive
    /\ Delete({h \in existing :
          [object |-> l.object, signal |-> l.signal, handler |-> h.handler] \in entries})
    /\ UNCHANGED <<alive, ops, calls>>

\* disconnectSlot and disconnectRemoteMethod.
Disconnect(l) ==
    /\ l.object \in alive
    /\ Delete(HandlersOf(l))
    /\ UNCHANGED <<alive, ops, calls>>

\* _q_removeSignalHandlersOfObject: the entries go; the handlers, which nothing
\* calls any more, stay.  (An application that destroys an object for which one
\* of its calls waits makes that call go on with a dead pointer.)
Destroy(o) ==
    /\ o \in alive
    /\ \A i \in DOMAIN ops : ops[i].link.object # o
    /\ alive' = alive \ {o}
    /\ entries' = {e \in entries : e.object # o}
    /\ wired' = {e \in wired : e.object # o}
    /\ UNCHANGED <<existing, ops, calls>>

Next ==
    \/ \E o \in Objects : Create(o) \/ Destroy(o)
    \/ \E l \in Link : Connect(l) \/ Disconnect(l)
    \/ \E i \in DOMAIN ops : Answer(i)
    \/ Return

Spec == Init /\ [][Next]_vars

-----------------------------------------------------------------------------
(* Properties                                                              *)

\* relaySlot: what the emission of a signal posts.
Relays(h, l) ==
    /\ h \in existing /\ h.method = l.method
    /\ [object |-> l.object, signal |-> l.signal, handler |-> h.handler] \in wired

\* An emission is relayed at most once to a remote method, however often and
\* however nested the two were connected.
RelayedOnce ==
    \A l \in Link : \A h, k \in existing : Relays(h, l) /\ Relays(k, l) => h = k

\* m_localSignalHandlers and the Qt connections agree: no signal is caught by
\* a handler that disconnectSlot would not find, and disconnectSlot finds no
\* handler that catches nothing.
EntriesMatchWiring == entries = wired

\* The handlers implement the plain set of links.
Abstract == INSTANCE Links WITH
    asked <- {ops[i].link : i \in DOMAIN ops},
    links <- {l \in Link : \E h \in existing : Relays(h, l)}

ImplementsLinks == Abstract!Spec
=============================================================================
