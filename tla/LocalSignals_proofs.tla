------------------------ MODULE LocalSignals_proofs ------------------------
(***************************************************************************)
(* Proofs about the handlers of local signals, for any objects, signals,   *)
(* methods and numbers of calls.                                           *)
(*                                                                         *)
(* RelayedOnce is inductive only together with what makes an entry of      *)
(* m_localSignalHandlers mean a link: handlers at one address are one      *)
(* handler, entries name handlers that exist, and no two entries share     *)
(* one, so that a handler that goes takes one link along.                  *)
(***************************************************************************)
EXTENDS LocalSignals, TLAPS

Entry == [object : Objects, signal : Signals, handler : Handlers]
Handler == [handler : Handlers, method : Methods]
Op == [link : Link, reply : {"none", "ok", "error"}]

HandlersDistinct == \A h, k \in existing : h.handler = k.handler => h = k

EntriesHaveHandlers ==
    entries \subseteq Entry /\ \A e \in entries : \E h \in existing : h.handler = e.handler

\* A handler serves one signal of one object.
OneLinkEach == \A d, e \in entries : d.handler = e.handler => d = e

HandlersInv ==
    /\ existing \subseteq Handler
    /\ HandlersDistinct
    /\ EntriesHaveHandlers
    /\ EntriesMatchWiring
    /\ OneLinkEach
    /\ RelayedOnce

CallsInv == alive \subseteq Objects /\ ops \in Seq(Op) /\ Len(ops) <= MaxNested /\ calls \in 0..MaxCalls

LinksInv == HandlersInv /\ CallsInv

\* The links there are, as Links is told of them.
Linked == {l \in Link : \E h \in existing : Relays(h, l)}

-----------------------------------------------------------------------------
(* What becomes of the handlers.                                           *)

\* With entries and wiring in agreement, the handlers that disconnectSlot
\* finds are those that relay.
LEMMA FoundIsRelaying ==
    ASSUME HandlersInv, NEW l \in Link
    PROVE  HandlersOf(l) = {h \in existing : Relays(h, l)}
  BY DEF HandlersInv, EntriesMatchWiring, HandlersOf, Relays

LEMMA AddHandlerKeeps ==
    ASSUME HandlersInv, NEW l \in Link, NEW h \in Handlers, HandlersOf(l) = {}, AddHandler(l, h)
    PROVE  HandlersInv' /\ Linked' = Linked \cup {l}
PROOF
  <1> DEFINE new == [handler |-> h, method |-> l.method]
             entry == [object |-> l.object, signal |-> l.signal, handler |-> h]
  <1>1. /\ existing' = existing \cup {new} /\ \A k \in existing : k.handler # h
        /\ entries' = entries \cup {entry} /\ wired' = wired \cup {entry}
    BY DEF AddHandler
  <1>2. new \in Handler /\ entry \in Entry
    BY DEF Handler, Entry, Link
  <1>3. \A e \in entries : e.handler # h
    BY <1>1 DEF HandlersInv, EntriesHaveHandlers
  <1>4. ASSUME NEW k \in existing', NEW m \in Link
        PROVE  Relays(k, m)' <=> (Relays(k, m) \/ (k = new /\ m = l))
    <2>1. CASE k \in existing
      <3>1. \A e \in Entry : e.handler = k.handler => (e \in wired' <=> e \in wired)
        BY <1>1, <2>1
      <3>2. [object |-> m.object, signal |-> m.signal, handler |-> k.handler] \in Entry
        BY <2>1 DEF Link, Entry, HandlersInv, Handler
      <3> QED  BY <1>1, <2>1, <3>1, <3>2 DEF Relays
    <2>2. CASE k \notin existing
      <3>1. k = new
        BY <1>1, <2>2
      <3>2. Relays(k, m)' <=> m.method = l.method /\ m.object = l.object /\ m.signal = l.signal
        BY <1>1, <1>3, <3>1 DEF Relays, HandlersInv, EntriesMatchWiring
      <3>3. (m.method = l.method /\ m.object = l.object /\ m.signal = l.signal) <=> m = l
        BY DEF Link
      <3> QED  BY <2>2, <3>1, <3>2, <3>3 DEF Relays
    <2> QED  BY <2>1, <2>2
  <1>5. ~\E k \in existing : Relays(k, l)
    BY FoundIsRelaying
  <1>6. existing' \subseteq Handler /\ HandlersDistinct'
    BY <1>1, <1>2 DEF HandlersInv, HandlersDistinct
  <1>7. EntriesHaveHandlers'
    BY <1>1, <1>2 DEF HandlersInv, EntriesHaveHandlers
  <1>8. EntriesMatchWiring' /\ OneLinkEach'
    BY <1>1, <1>3 DEF HandlersInv, EntriesMatchWiring, OneLinkEach
  <1>9. RelayedOnce'
    <2>1. SUFFICES ASSUME NEW m \in Link, NEW k1 \in existing', NEW k2 \in existing',
                          Relays(k1, m)', Relays(k2, m)'
                   PROVE  k1 = k2
      BY DEF RelayedOnce
    <2>2. \A k \in existing' : Relays(k, m) => k \in existing
      BY DEF Relays
    <2> QED  BY <1>4, <1>5, <2>1, <2>2 DEF HandlersInv, RelayedOnce
  <1>10. Linked' = Linked \cup {l}
    <2>1. \A m \in Link : (\E k \in existing' : Relays(k, m)') <=> (\E k \in existing : Relays(k, m)) \/ m = l
      BY <1>1, <1>4 DEF Relays
    <2> QED  BY <2>1 DEF Linked
  <1> QED  BY <1>6, <1>7, <1>8, <1>9, <1>10 DEF HandlersInv

LEMMA DeleteKeeps ==
    ASSUME HandlersInv, NEW l \in Link, Delete(HandlersOf(l))
    PROVE  HandlersInv' /\ Linked' = Linked \ {l}
PROOF
  <1> DEFINE hs == HandlersOf(l)
  <1>1. /\ existing' = existing \ hs
        /\ entries' = {e \in entries : \A h \in hs : h.handler # e.handler}
        /\ wired' = {e \in wired : \A h \in hs : h.handler # e.handler}
    BY DEF Delete, Keep
  <1>2. EntriesMatchWiring' /\ OneLinkEach' /\ HandlersDistinct' /\ existing' \subseteq Handler
    BY <1>1 DEF HandlersInv, EntriesMatchWiring, OneLinkEach, HandlersDistinct
  <1>3. EntriesHaveHandlers'
    <2>1. SUFFICES ASSUME NEW e \in entries' PROVE \E h \in existing' : h.handler = e.handler
      BY <1>1 DEF HandlersInv, EntriesHaveHandlers
    <2>2. PICK h \in existing : h.handler = e.handler
      BY <1>1 DEF HandlersInv, EntriesHaveHandlers
    <2> QED  BY <1>1, <2>2
  <1>4. ASSUME NEW k \in existing, NEW m \in Link
        PROVE  (k \in existing' /\ Relays(k, m)') <=> (Relays(k, m) /\ k \notin hs)
    <2>1. \A h \in hs : h.handler = k.handler => h = k
      BY DEF HandlersOf, HandlersInv, HandlersDistinct
    <2> DEFINE e == [object |-> m.object, signal |-> m.signal, handler |-> k.handler]
    <2>2. k \notin hs => (e \in wired' <=> e \in wired)
      BY <1>1, <2>1
    <2> QED  BY <1>1, <2>2 DEF Relays
  <1>5. RelayedOnce'
    BY <1>1, <1>4 DEF RelayedOnce, HandlersInv
  <1>6. ASSUME NEW k \in existing, NEW m \in Link, Relays(k, m)
        PROVE  k \in hs <=> m = l
    <2> DEFINE em == [object |-> m.object, signal |-> m.signal, handler |-> k.handler]
               el == [object |-> l.object, signal |-> l.signal, handler |-> k.handler]
    <2>1. k \in hs <=> k.method = l.method /\ el \in entries
      BY DEF HandlersOf
    <2>2. em \in entries /\ k.method = m.method
      BY <1>6 DEF Relays, HandlersInv, EntriesMatchWiring
    <2>3. el \in entries => em = el
      BY <2>2 DEF HandlersInv, OneLinkEach
    <2>4. em = el <=> m.object = l.object /\ m.signal = l.signal
      OBVIOUS
    <2>5. m = l <=> m.object = l.object /\ m.signal = l.signal /\ m.method = l.method
      BY DEF Link
    <2> QED  BY <2>1, <2>2, <2>3, <2>4, <2>5
  <1>7. \A m \in Link : (\E k \in existing' : Relays(k, m)') <=> (\E k \in existing : Relays(k, m)) /\ m # l
    BY <1>1, <1>4, <1>6
  <1>8. Linked' = Linked \ {l}
    BY <1>7 DEF Linked
  <1> QED  BY <1>2, <1>3, <1>5, <1>8 DEF HandlersInv

LEMMA DestroyKeeps ==
    ASSUME HandlersInv, NEW o \in Objects, Destroy(o)
    PROVE  HandlersInv' /\ Linked' = {l \in Linked : l.object # o}
PROOF
  <1>1. /\ entries' = {e \in entries : e.object # o}
        /\ wired' = {e \in wired : e.object # o}
        /\ existing' = existing
    BY DEF Destroy
  <1>2. ASSUME NEW k \in existing, NEW m \in Link
        PROVE  Relays(k, m)' <=> Relays(k, m) /\ m.object # o
    BY <1>1 DEF Relays
  <1>3. RelayedOnce'
    BY <1>1, <1>2 DEF RelayedOnce, HandlersInv
  <1>4. /\ existing' \subseteq Handler /\ HandlersDistinct' /\ EntriesHaveHandlers'
        /\ EntriesMatchWiring' /\ OneLinkEach'
    BY <1>1 DEF HandlersInv, HandlersDistinct, EntriesHaveHandlers, EntriesMatchWiring, OneLinkEach
  <1>5. Linked' = {l \in Linked : l.object # o}
    BY <1>1, <1>2 DEF Linked
  <1> QED  BY <1>3, <1>4, <1>5 DEF HandlersInv

\* What leaves m_localSignalHandlers, the handlers and the connections alone
\* leaves the links alone.
LEMMA UnchangedKeeps ==
    ASSUME HandlersInv, UNCHANGED <<entries, existing, wired>>
    PROVE  HandlersInv' /\ Linked' = Linked
  BY DEF HandlersInv, HandlersDistinct, EntriesHaveHandlers, EntriesMatchWiring, OneLinkEach,
         RelayedOnce, Relays, Linked

-----------------------------------------------------------------------------
(* What becomes of the calls that wait.                                    *)

Asked == {ops[i].link : i \in DOMAIN ops}

LEMMA ConnectAsks ==
    ASSUME CallsInv, NEW l \in Link, Connect(l)
    PROVE  CallsInv' /\ Asked' = Asked \cup {l}
PROOF
  <1> DEFINE op == [link |-> l, reply |-> "none"]
  <1>1. op \in Op /\ ops \in Seq(Op) /\ ops' = Append(ops, op)
    BY DEF Op, Connect, CallsInv
  <1>2. /\ ops' \in Seq(Op) /\ Len(ops') = Len(ops) + 1
        /\ \A i \in 1..Len(ops) : ops'[i] = ops[i]
        /\ ops'[Len(ops) + 1] = op
    BY <1>1
  <1>3. CallsInv'
    BY <1>2, BoundsAssumption DEF CallsInv, Connect
  <1>4. \A i \in DOMAIN ops' : i \in DOMAIN ops \/ i = Len(ops) + 1
    BY <1>1, <1>2
  <1>5. DOMAIN ops \subseteq DOMAIN ops' /\ Len(ops) + 1 \in DOMAIN ops' /\ DOMAIN ops = 1..Len(ops)
    BY <1>1, <1>2
  <1>6. Asked' = Asked \cup {l}
    BY <1>2, <1>4, <1>5 DEF Asked
  <1> QED  BY <1>3, <1>6

LEMMA AnswerAsksNothing ==
    ASSUME CallsInv, NEW i \in DOMAIN ops, Answer(i)
    PROVE  CallsInv' /\ Asked' = Asked
PROOF
  <1>1. PICK reply \in {"ok", "error"} : ops' = [ops EXCEPT ![i] = [link |-> ops[i].link, reply |-> reply]]
    BY DEF Answer
  <1>2. ops \in Seq(Op) /\ [link |-> ops[i].link, reply |-> reply] \in Op
    <2>1. ops \in Seq(Op)
      BY DEF CallsInv
    <2>2. ops[i] \in Op
      BY <2>1
    <2> QED  BY <2>1, <2>2 DEF Op
  <1>3. ops' \in Seq(Op) /\ Len(ops') = Len(ops) /\ DOMAIN ops' = DOMAIN ops
    BY <1>1, <1>2
  <1>4. \A j \in DOMAIN ops : ops'[j].link = ops[j].link
    BY <1>1, <1>2
  <1>5. CallsInv'
    BY <1>3 DEF CallsInv, Answer
  <1> QED  BY <1>3, <1>4, <1>5 DEF Asked

\* A call that returns leaves the others, which may wait for the same link.
LEMMA ReturnSettles ==
    ASSUME CallsInv, Return
    PROVE  /\ CallsInv'
           /\ Last(ops).link \in Asked \cap Link
           /\ Asked' \in {Asked, Asked \ {Last(ops).link}}
PROOF
  <1> DEFINE n == Len(ops)
             l == Last(ops).link
  <1>1. ops \in Seq(Op) /\ n \in Nat /\ n >= 1 /\ n \in DOMAIN ops /\ Last(ops) = ops[n]
    BY DEF CallsInv, Return, Last
  <1>2. /\ ops' \in Seq(Op) /\ Len(ops') = n - 1 /\ DOMAIN ops' = 1..(n - 1)
        /\ \A i \in 1..(n - 1) : ops'[i] = ops[i]
    <2>1. ops' = SubSeq(ops, 1, n - 1)
      BY DEF Return, Front
    <2>2. \A i \in 1..(n - 1) : ops[i] \in Op
      BY <1>1
    <2>3. ops' = [i \in 1..(n - 1) |-> ops[i]]
      BY <1>1, <2>1
    <2> QED  BY <1>1, <2>2, <2>3
  <1>3. CallsInv'
    BY <1>1, <1>2, BoundsAssumption DEF CallsInv, Return
  <1>4. l \in Asked /\ l \in Link
    <2>1. ops[n] \in Op
      BY <1>1
    <2>2. ops[n].link \in Link
      BY <2>1 DEF Op
    <2> QED  BY <1>1, <2>2 DEF Asked
  <1>5. DOMAIN ops = DOMAIN ops' \cup {n}
    BY <1>1, <1>2
  <1>6. Asked = Asked' \cup {l}
    BY <1>1, <1>2, <1>5 DEF Asked
  <1> QED  BY <1>3, <1>4, <1>6

-----------------------------------------------------------------------------
(* The invariant                                                           *)

\* The parts of the invariant say what the type invariant does.
LEMMA LinksInvTypes == LinksInv => TypeOK
PROOF
  <1> SUFFICES ASSUME LinksInv PROVE TypeOK
    OBVIOUS
  <1>1. ops \in BoundedSeq(Op, MaxNested)
    <2>1. Len(ops) \in 0..MaxNested /\ ops \in [1..Len(ops) -> Op]
      BY BoundsAssumption DEF LinksInv, CallsInv
    <2> QED  BY <2>1 DEF BoundedSeq, SeqOf
  <1>2. \A e \in entries \cup wired : e \in Entry /\ \E h \in existing : h.handler = e.handler
    BY DEF LinksInv, HandlersInv, EntriesHaveHandlers, EntriesMatchWiring
  <1> QED  BY <1>1, <1>2 DEF TypeOK, LinksInv, HandlersInv, HandlersDistinct, CallsInv, Entry, Handler, Op

LEMMA InitLinks == Init => LinksInv /\ Linked = {} /\ Asked = {}
  BY BoundsAssumption
  DEF Init, LinksInv, HandlersInv, HandlersDistinct, EntriesHaveHandlers, EntriesMatchWiring, OneLinkEach,
      RelayedOnce, Relays, CallsInv, Linked, Asked

\* What each step does to the invariant, to the links and to what is asked for.
LEMMA StepLinks ==
    ASSUME LinksInv, [Next]_vars
    PROVE  /\ LinksInv'
           /\ \/ Linked' = Linked /\ Asked' = Asked
              \/ \E l \in Link : Asked' = Asked \cup {l} /\ Linked' = Linked
              \/ \E l \in Link : /\ l \in Asked /\ Asked' \in {Asked, Asked \ {l}}
                                 /\ Linked' \in {Linked, Linked \cup {l}}
              \/ \E l \in Link : Linked' = Linked \ {l} /\ Asked' = Asked
              \/ \E o \in Objects : Linked' = {l \in Linked : l.object # o} /\ Asked' = Asked
PROOF
  <1>1. HandlersInv /\ CallsInv
    BY DEF LinksInv
  <1>2. ASSUME UNCHANGED ops, CallsInv' \/ UNCHANGED <<alive, calls>>
        PROVE  CallsInv' /\ Asked' = Asked
    BY <1>1, <1>2 DEF CallsInv, Asked
  <1>3. ASSUME NEW o \in Objects, Create(o)
        PROVE  LinksInv' /\ Linked' = Linked /\ Asked' = Asked
    <2>1. CallsInv'
      BY <1>1, <1>3 DEF Create, CallsInv
    <2> QED  BY <1>1, <1>2, <1>3, <2>1, UnchangedKeeps DEF Create, LinksInv
  <1>4. ASSUME NEW l \in Link, Connect(l)
        PROVE  LinksInv' /\ Linked' = Linked /\ Asked' = Asked \cup {l}
    <2>1. UNCHANGED <<entries, existing, wired>>
      BY <1>4 DEF Connect
    <2> QED  BY <1>1, <1>4, <2>1, ConnectAsks, UnchangedKeeps DEF LinksInv
  <1>5. ASSUME NEW i \in DOMAIN ops, Answer(i)
        PROVE  LinksInv' /\ Linked' = Linked /\ Asked' = Asked
    <2>1. UNCHANGED <<entries, existing, wired>>
      BY <1>5 DEF Answer
    <2> QED  BY <1>1, <1>5, <2>1, AnswerAsksNothing, UnchangedKeeps DEF LinksInv
  <1>6. ASSUME Return
        PROVE  /\ LinksInv'
               /\ \E l \in Link : /\ l \in Asked /\ Asked' \in {Asked, Asked \ {l}}
                                  /\ Linked' \in {Linked, Linked \cup {l}}
    <2> DEFINE l == Last(ops).link
    <2>1. CallsInv' /\ l \in Asked /\ l \in Link /\ Asked' \in {Asked, Asked \ {l}}
      BY <1>1, <1>6, ReturnSettles
    <2>2. \/ UNCHANGED <<entries, existing, wired>>
          \/ HandlersOf(l) = {} /\ \E h \in Handlers : AddHandler(l, h)
      BY <1>6 DEF Return, HandleLocalSignalRequest
    <2>3. HandlersInv' /\ Linked' \in {Linked, Linked \cup {l}}
      BY <1>1, <2>1, <2>2, AddHandlerKeeps, UnchangedKeeps
    <2> QED  BY <2>1, <2>3 DEF LinksInv
  <1>7. ASSUME NEW l \in Link, Disconnect(l)
        PROVE  LinksInv' /\ Linked' = Linked \ {l} /\ Asked' = Asked
    <2>1. Delete(HandlersOf(l)) /\ UNCHANGED <<alive, ops, calls>>
      BY <1>7 DEF Disconnect
    <2> QED  BY <1>1, <1>2, <2>1, DeleteKeeps DEF LinksInv
  <1>8. ASSUME NEW o \in Objects, Destroy(o)
        PROVE  LinksInv' /\ Linked' = {l \in Linked : l.object # o} /\ Asked' = Asked
    <2>1. CallsInv' /\ UNCHANGED ops
      BY <1>1, <1>8 DEF Destroy, CallsInv
    <2> QED  BY <1>1, <1>2, <1>8, <2>1, DestroyKeeps DEF LinksInv
  <1>9. CASE UNCHANGED vars
    BY <1>1, <1>2, <1>9, UnchangedKeeps DEF vars, LinksInv
  <1> QED  BY <1>3, <1>4, <1>5, <1>6, <1>7, <1>8, <1>9 DEF Next

-----------------------------------------------------------------------------
(* Theorems                                                                *)

LEMMA LinksInvHolds == Spec => []LinksInv
PROOF
  <1>1. Init => LinksInv
    BY InitLinks
  <1>2. LinksInv /\ [Next]_vars => LinksInv'
    BY StepLinks
  <1> QED  BY <1>1, <1>2, PTL DEF Spec

LEMMA LinksInvTells == LinksInv => TypeOK /\ RelayedOnce /\ EntriesMatchWiring
  BY LinksInvTypes DEF LinksInv, HandlersInv

\* The handlers and the calls of every client are well typed in every reachable
\* state, however calls overlap and objects come and go.
THEOREM LocalSignalsTyped == Spec => []TypeOK
  BY LinksInvHolds, LinksInvTells, PTL

\* Likewise, an emission is relayed at most once to a remote method
\* (handleLocalSignalRequest).
THEOREM EmissionsRelayedOnce == Spec => []RelayedOnce
  BY LinksInvHolds, LinksInvTells, PTL

\* Likewise, m_localSignalHandlers has an entry for what is connected, and for
\* nothing else (handleLocalSignalRequest, disconnectSlot, destroyed objects).
THEOREM EntriesAreWired == Spec => []EntriesMatchWiring
  BY LinksInvHolds, LinksInvTells, PTL

\* The handlers of CuteIPCInterface implement the abstract set of links: a
\* connecting call asks for a link, and every step after it makes, breaks or
\* drops links as Links allows, or leaves them alone.
THEOREM LocalSignalsImplementLinks == Spec => ImplementsLinks
PROOF
  <1>1. Init => Abstract!Init /\ LinksInv
    BY InitLinks DEF Abstract!Init, Linked, Asked
  <1>2. LinksInv /\ [Next]_vars
        => LinksInv' /\ [Abstract!Next]_<<Asked, Linked>>
    BY StepLinks DEF Abstract!Next, Abstract!Ask, Abstract!Settle, Abstract!Break, Abstract!Drop,
                     Abstract!Link, Link, Linked, Asked
  <1> QED  BY <1>1, <1>2, PTL DEF Spec, ImplementsLinks, Abstract!Spec, Linked, Asked
=============================================================================
