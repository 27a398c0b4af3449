-------------------------- MODULE SyncCall_proofs --------------------------
(***************************************************************************)
(* Proofs about synchronous calls, for any programs and any number of      *)
(* calls, nested in any way.                                               *)
(*                                                                         *)
(* That answers are true rests on what the stacks look like: a method is   *)
(* under way once, at its callee, while its request has been taken and not *)
(* answered; and on what the end of a service leaves: a teardown has only  *)
(* calls below it, so that no method outlives its service, and connections *)
(* end with their service.                                                 *)
(***************************************************************************)
EXTENDS SyncCall, SequenceTheorems, TLAPS

CallRecord == [caller : Programs, callee : Programs, kind : Kinds]

Types ==
    /\ made \in 0..MaxCalls
    /\ call \in Seq(CallRecord) /\ Len(call) = made
    /\ stack \in [Programs -> Seq(Frame)]
    /\ service \in [Programs -> {"up", "closing", "gone", "killed"}]
    /\ request \in [Calls -> {"none", "sent", "taken"}]
    /\ connection \in [Calls -> {"none", "alive", "deleted"}]
    /\ reply \in [Calls -> {"none", "response", "error", "empty"}]
    /\ successful \in [Calls -> BOOLEAN]
    /\ quit \in [Calls -> BOOLEAN]
    /\ broken \in [Calls -> BOOLEAN]
    /\ returned \in [Calls -> {"none", "true", "false"}]
    /\ invoked \subseteq 1..made

Gone(q) == service[q] \in {"gone", "killed"}

Is(q, i, what) == i \in DOMAIN stack[q] /\ stack[q][i].what = what

\* A teardown runs while its service closes, above calls only; a service that
\* has gone runs no method.
Teardowns ==
    \A q \in Programs :
        /\ service[q] = "closing" <=> \E i \in Nat : Is(q, i, "teardown")
        /\ \A i, j \in DOMAIN stack[q] :
              i < j /\ Is(q, j, "teardown") => Is(q, i, "call")
        /\ Gone(q) => \A i \in DOMAIN stack[q] : Is(q, i, "call")

\* What holds of a call while its method is under way at q.
UnderWay(q, n) ==
    /\ n \in 1..made /\ call[n].callee = q
    /\ request[n] = "taken" /\ reply[n] = "none"
    /\ service[call[n].caller] # "killed" => connection[n] = "alive"

Methods ==
    \A q \in Programs, i \in Nat :
        Is(q, i, "method") =>
            /\ UnderWay(q, stack[q][i].n)
            /\ \A j \in Nat : Is(q, j, "method") /\ stack[q][j].n = stack[q][i].n => j = i

Unmade(n) ==
    /\ request[n] = "none" /\ connection[n] = "none" /\ reply[n] = "none"
    /\ ~quit[n] /\ ~broken[n] /\ returned[n] = "none"

\* What the variables say of a call that has been made, whose callee is there.
Answers(n) ==
    /\ reply[n] \in {"response", "empty"} <=> n \in invoked
    /\ reply[n] # "none" => request[n] = "taken"
    /\ Gone(call[n].callee) => connection[n] # "alive"
    /\ ~Gone(call[n].callee) =>
          /\ ~(broken[n] /\ request[n] # "none")
          /\ quit[n] => Answered(n) /\ (successful[n] <=> reply[n] = "response")
          /\ returned[n] # "none" =>
                Answered(n) /\ (returned[n] = "true" <=> reply[n] = "response")

CallsInv == \A n \in Calls : IF n <= made THEN Answers(n) ELSE Unmade(n)

Inv == Types /\ Teardowns /\ Methods /\ CallsInv

USE MaxCallsAssumption

-----------------------------------------------------------------------------
(* Stacks                                                                  *)

LEMMA PushFrame ==
    ASSUME Types, NEW p \in Programs, NEW frame \in Frame, Push(p, frame)
    PROVE  /\ stack' \in [Programs -> Seq(Frame)]
           /\ \A q \in Programs \ {p} : stack'[q] = stack[q]
           /\ Len(stack[p]) \in Nat
           /\ DOMAIN stack[p] = 1..Len(stack[p])
           /\ DOMAIN stack'[p] = 1..(Len(stack[p]) + 1)
           /\ \A i \in DOMAIN stack[p] : stack'[p][i] = stack[p][i]
           /\ stack'[p][Len(stack[p]) + 1] = frame
PROOF
  <1>1. stack[p] \in Seq(Frame) /\ stack' = [stack EXCEPT ![p] = Append(stack[p], frame)]
    BY DEF Types, Push
  <1>2. stack'[p] = Append(stack[p], frame) /\ \A q \in Programs \ {p} : stack'[q] = stack[q]
    BY <1>1 DEF Types
  <1>3. /\ Append(stack[p], frame) \in Seq(Frame)
        /\ Len(Append(stack[p], frame)) = Len(stack[p]) + 1
        /\ \A i \in 1..Len(stack[p]) : Append(stack[p], frame)[i] = stack[p][i]
        /\ Append(stack[p], frame)[Len(stack[p]) + 1] = frame
    BY <1>1, AppendProperties
  <1>4. Len(stack[p]) \in Nat /\ DOMAIN stack[p] = 1..Len(stack[p])
    BY <1>1, LenProperties
  <1>5. DOMAIN Append(stack[p], frame) = 1..(Len(stack[p]) + 1)
    BY <1>3, LenProperties
  <1>6. stack' \in [Programs -> Seq(Frame)]
    BY <1>1, <1>3 DEF Types
  <1> QED  BY <1>2, <1>3, <1>4, <1>5, <1>6

LEMMA PopFrame ==
    ASSUME Types, NEW p \in Programs, stack[p] # <<>>, Pop(p)
    PROVE  /\ stack' \in [Programs -> Seq(Frame)]
           /\ \A q \in Programs \ {p} : stack'[q] = stack[q]
           /\ Len(stack[p]) \in Nat \ {0}
           /\ DOMAIN stack[p] = 1..Len(stack[p])
           /\ DOMAIN stack'[p] = 1..(Len(stack[p]) - 1)
           /\ \A i \in DOMAIN stack'[p] : stack'[p][i] = stack[p][i]
PROOF
  <1>1. stack[p] \in Seq(Frame) /\ stack' = [stack EXCEPT ![p] = SubSeq(stack[p], 1, Len(stack[p]) - 1)]
    BY DEF Types, Pop, Front
  <1>2. /\ stack'[p] = SubSeq(stack[p], 1, Len(stack[p]) - 1)
        /\ \A q \in Programs \ {p} : stack'[q] = stack[q]
    BY <1>1 DEF Types
  <1>3. Len(stack[p]) \in Nat \ {0} /\ DOMAIN stack[p] = 1..Len(stack[p])
    BY <1>1, LenProperties, EmptySeq
  <1>4. /\ SubSeq(stack[p], 1, Len(stack[p]) - 1) \in Seq(Frame)
        /\ DOMAIN SubSeq(stack[p], 1, Len(stack[p]) - 1) = 1..(Len(stack[p]) - 1)
        /\ \A i \in 1..(Len(stack[p]) - 1) :
              SubSeq(stack[p], 1, Len(stack[p]) - 1)[i] = stack[p][i]
    BY <1>1, <1>3
  <1>5. stack' \in [Programs -> Seq(Frame)]
    BY <1>1, <1>4 DEF Types
  <1> QED  BY <1>2, <1>3, <1>4, <1>5

\* A call that has been made.
LEMMA Made ==
    ASSUME Types, NEW n \in DOMAIN call
    PROVE  /\ n \in 1..made /\ n \in Calls /\ n \in Nat
           /\ call[n] \in CallRecord
           /\ call[n].caller \in Programs /\ call[n].callee \in Programs
PROOF
  <1>1. DOMAIN call = 1..made
    BY LenProperties DEF Types
  <1>2. n \in 1..made /\ n \in Calls /\ n \in Nat
    BY <1>1 DEF Types, Calls
  <1>3. call[n] \in CallRecord
    BY <1>2, ElementOfSeq DEF Types
  <1> QED  BY <1>2, <1>3 DEF CallRecord

\* The frames of calls come and go without effect on the rest.
LEMMA PushCall ==
    ASSUME Types, Teardowns, NEW p \in Programs, NEW n \in Calls,
           Push(p, [what |-> "call", n |-> n]), service' = service
    PROVE  /\ Teardowns'
           /\ \A q \in Programs, i \in Nat :
                 Is(q, i, "method")' => Is(q, i, "method") /\ stack'[q][i] = stack[q][i]
PROOF
  <1> DEFINE frame == [what |-> "call", n |-> n]
             l == Len(stack[p]) + 1
  <1>1. frame \in Frame /\ frame.what = "call"
    BY DEF Frame
  <1>2. /\ \A q \in Programs \ {p} : stack'[q] = stack[q]
        /\ DOMAIN stack[p] = 1..(l - 1) /\ DOMAIN stack'[p] = 1..l /\ l \in Nat
        /\ \A i \in DOMAIN stack[p] : stack'[p][i] = stack[p][i]
        /\ stack'[p][l] = frame
    BY <1>1, PushFrame
  <1>3. \A q \in Programs, i \in Nat, what \in {"call", "method", "teardown"} :
            Is(q, i, what)' <=> Is(q, i, what) \/ (q = p /\ i = l /\ what = "call")
    BY <1>1, <1>2 DEF Is
  <1>4. Teardowns'
    <2> SUFFICES ASSUME NEW q \in Programs
                 PROVE  /\ service'[q] = "closing" <=> \E i \in Nat : Is(q, i, "teardown")'
                        /\ \A i, j \in DOMAIN stack'[q] :
                              i < j /\ Is(q, j, "teardown")' => Is(q, i, "call")'
                        /\ Gone(q)' => \A i \in DOMAIN stack'[q] : Is(q, i, "call")'
      BY DEF Teardowns
    <2>1. service'[q] = "closing" <=> \E i \in Nat : Is(q, i, "teardown")'
      BY <1>3 DEF Teardowns
    <2>2. CASE q = p
      <3>1. \A i \in DOMAIN stack'[p] : i \in Nat /\ (i \in DOMAIN stack[p] \/ i = l)
        BY <1>2
      <3>2. \A i, j \in DOMAIN stack'[q] : i < j /\ Is(q, j, "teardown")' => Is(q, i, "call")'
        BY <1>2, <1>3, <2>2, <3>1 DEF Teardowns, Is
      <3>3. Gone(q)' => \A i \in DOMAIN stack'[q] : Is(q, i, "call")'
        BY <1>3, <2>2, <3>1 DEF Teardowns, Gone
      <3> QED  BY <2>1, <3>2, <3>3
    <2>3. CASE q # p
      <3>1. stack'[q] = stack[q]
        BY <1>2, <2>3
      <3> QED  BY <2>1, <3>1 DEF Teardowns, Gone, Is
    <2> QED  BY <2>2, <2>3
  <1>5. \A q \in Programs, i \in Nat :
            Is(q, i, "method")' => Is(q, i, "method") /\ stack'[q][i] = stack[q][i]
    <2> SUFFICES ASSUME NEW q \in Programs, NEW i \in Nat, Is(q, i, "method")'
                 PROVE  Is(q, i, "method") /\ stack'[q][i] = stack[q][i]
      OBVIOUS
    <2>1. Is(q, i, "method")
      BY <1>3
    <2> QED  BY <1>2, <2>1 DEF Is
  <1> QED  BY <1>4, <1>5

LEMMA CallKeeps ==
    ASSUME Inv, NEW p \in Programs, NEW q \in Programs, NEW kind \in Kinds, Call(p, q, kind)
    PROVE  Inv'
PROOF
  <1>0. PICK n : n = made + 1
    OBVIOUS
  <1> DEFINE record == [caller |-> p, callee |-> q, kind |-> kind]
  <1>1. /\ Types /\ Teardowns /\ Methods /\ CallsInv
        /\ n \in Calls /\ made \in Nat /\ made' = n /\ n \notin 1..made
    BY <1>0 DEF Inv, Types, Call
  <1>2. record \in CallRecord /\ record.callee = q
    BY DEF CallRecord
  <1>3. /\ call' \in Seq(CallRecord) /\ Len(call') = n /\ call'[n] = record
        /\ \A m \in 1..made : call'[m] = call[m]
    BY <1>0, <1>1, <1>2, AppendProperties DEF Types, Call
  <1>4. UNCHANGED <<service, connection, reply, quit, invoked>>
    BY DEF Call
  <1>5. /\ request' \in {request, [request EXCEPT ![n] = "sent"]}
        /\ successful' \in {successful, [successful EXCEPT ![n] = TRUE]}
        /\ broken' \in {broken, [broken EXCEPT ![n] = TRUE]}
        /\ returned' \in {returned, [returned EXCEPT ![n] = "false"]}
        /\ stack' = stack \/ Push(p, [what |-> "call", n |-> n])
    BY <1>0 DEF Call
  <1>6. \A m \in Calls : m # n =>
            /\ request'[m] = request[m] /\ successful'[m] = successful[m]
            /\ broken'[m] = broken[m] /\ returned'[m] = returned[m]
    BY <1>1, <1>5 DEF Types
  <1>7. Types'
    <2>1. stack' \in [Programs -> Seq(Frame)]
      <3>1. [what |-> "call", n |-> n] \in Frame
        BY <1>1 DEF Frame
      <3> QED  BY <1>1, <1>5, <3>1, PushFrame DEF Types
    <2>2. made' \in 0..MaxCalls /\ invoked' \subseteq 1..made'
      BY <1>0, <1>1, <1>4 DEF Types, Calls
    <2>3. UNCHANGED <<service, connection, reply, quit>>
      BY <1>4
    <2>4. /\ request' \in [Calls -> {"none", "sent", "taken"}]
          /\ successful' \in [Calls -> BOOLEAN] /\ broken' \in [Calls -> BOOLEAN]
          /\ returned' \in [Calls -> {"none", "true", "false"}]
      BY <1>1, <1>5 DEF Types
    <2> QED  BY <1>1, <1>3, <2>1, <2>2, <2>3, <2>4 DEF Types
  <1>8. /\ Teardowns'
        /\ \A r \in Programs, i \in Nat :
              Is(r, i, "method")' => Is(r, i, "method") /\ stack'[r][i] = stack[r][i]
    <2>1. CASE stack' = stack
      BY <1>1, <1>4, <2>1 DEF Teardowns, Gone, Is
    <2>2. CASE Push(p, [what |-> "call", n |-> n])
      BY <1>1, <1>4, <2>2, PushCall
    <2> QED  BY <1>5, <2>1, <2>2
  <1>9. Methods'
    <2> SUFFICES ASSUME NEW r \in Programs, NEW i \in Nat, Is(r, i, "method")'
                 PROVE  /\ UnderWay(r, stack[r][i].n)'
                        /\ \A j \in Nat :
                              Is(r, j, "method")' /\ stack'[r][j].n = stack'[r][i].n => j = i
      BY DEF Methods
    <2> DEFINE m == stack[r][i].n
    <2>1. UnderWay(r, m) /\ stack'[r][i].n = m
      BY <1>1, <1>8 DEF Methods
    <2>2. m \in Calls /\ m # n /\ m \in 1..made'
      BY <1>0, <1>1, <2>1 DEF UnderWay, Calls
    <2>3. UnderWay(r, stack[r][i].n)'
      BY <1>3, <1>4, <1>6, <2>1, <2>2 DEF UnderWay
    <2> QED  BY <1>1, <1>8, <2>3 DEF Methods
  <1>10. CallsInv'
    <2> SUFFICES ASSUME NEW m \in Calls PROVE IF m <= n THEN Answers(m)' ELSE Unmade(m)'
      BY <1>0, <1>1 DEF CallsInv
    <2>1. CASE m < n
      <3>1. Answers(m) /\ m \in 1..made
        BY <1>0, <1>1, <2>1 DEF CallsInv, Calls
      <3> QED  BY <1>3, <1>4, <1>6, <2>1, <3>1 DEF Answers, Answered, Gone
    <2>2. CASE m = n
      <3>1. Unmade(m)
        BY <1>0, <1>1, <2>2 DEF CallsInv
      <3>2. m \notin invoked
        BY <1>0, <1>1, <2>2 DEF Types
      <3>3. call'[m].callee = q
        BY <1>2, <1>3, <2>2
      <3>4. /\ returned' = returned
               \/ service[q] \in {"gone", "killed"}
            /\ ~(broken'[m] /\ request'[m] # "none")
        BY <1>0, <1>1, <2>2, <3>1 DEF Call, Unmade, Types
      <3>5. Answers(m)'
        BY <1>4, <2>2, <3>1, <3>2, <3>3, <3>4 DEF Answers, Answered, Gone, Unmade
      <3> QED  BY <1>0, <1>1, <2>2, <3>5 DEF Calls
    <2>3. CASE m > n
      <3>1. Unmade(m)
        BY <1>0, <1>1, <2>3 DEF CallsInv, Calls
      <3> QED  BY <1>1, <1>4, <1>6, <2>3, <3>1 DEF Unmade, Calls
    <2> QED  BY <1>1, <2>1, <2>2, <2>3 DEF Calls
  <1> QED  BY <1>7, <1>8, <1>9, <1>10 DEF Inv

-----------------------------------------------------------------------------
(* Events of a call                                                        *)

\* Types and the call itself, of every action after the call.
LEMMA CallOf ==
    ASSUME Inv, NEW n \in DOMAIN call
    PROVE  /\ Types /\ Teardowns /\ Methods /\ CallsInv
           /\ n \in 1..made /\ n \in Calls /\ Answers(n)
           /\ call[n].caller \in Programs /\ call[n].callee \in Programs
           /\ made \in Nat /\ \A m \in 1..made : m \in Calls
PROOF
  <1>1. Types /\ Teardowns /\ Methods /\ CallsInv
    BY DEF Inv
  <1>2. /\ n \in 1..made /\ n \in Calls /\ n \in Nat /\ n <= made
        /\ call[n].caller \in Programs /\ call[n].callee \in Programs
    BY <1>1, Made
  <1>3. Answers(n)
    BY <1>1, <1>2 DEF CallsInv
  <1>4. made \in Nat /\ \A m \in 1..made : m \in Calls
    BY <1>1 DEF Types, Calls
  <1> QED  BY <1>1, <1>2, <1>3, <1>4

\* Methods stay under way while no new one is and what matters to them is left.
LEMMA MethodsRemain ==
    ASSUME Methods,
           \A q \in Programs, i \in Nat :
              Is(q, i, "method")' => Is(q, i, "method") /\ stack'[q][i] = stack[q][i],
           \A q \in Programs, i \in Nat, m \in 1..made :
              Is(q, i, "method")' /\ UnderWay(q, m) => UnderWay(q, m)'
    PROVE  Methods'
PROOF
  <1> SUFFICES ASSUME NEW q \in Programs, NEW i \in Nat, Is(q, i, "method")'
               PROVE  /\ UnderWay(q, stack[q][i].n)'
                      /\ \A j \in Nat :
                            Is(q, j, "method")' /\ stack'[q][j].n = stack'[q][i].n => j = i
    BY DEF Methods
  <1>1. /\ UnderWay(q, stack[q][i].n)
        /\ \A j \in Nat : Is(q, j, "method") /\ stack[q][j].n = stack[q][i].n => j = i
    BY DEF Methods
  <1>2. PICK m : m = stack[q][i].n
    OBVIOUS
  <1>3. stack'[q][i].n = m /\ UnderWay(q, m) /\ m \in 1..made
    BY <1>1, <1>2 DEF UnderWay
  <1>4. UnderWay(q, m)'
    BY <1>3
  <1>5. UnderWay(q, stack[q][i].n)'
    BY <1>3, <1>4 DEF UnderWay
  <1> QED  BY <1>1, <1>5

\* An event that leaves the stacks alone.
LEMMA StacksStay ==
    ASSUME Inv, UNCHANGED <<made, call, stack, service>>,
           \A q \in Programs, m \in 1..made : UnderWay(q, m) => UnderWay(q, m)'
    PROVE  Teardowns' /\ Methods'
PROOF
  <1>1. Teardowns'
    BY DEF Inv, Teardowns, Gone, Is
  <1>2. Methods'
    BY MethodsRemain DEF Inv, Is
  <1> QED  BY <1>1, <1>2

\* An event of one call leaves what is said of the others alone.
LEMMA OthersStay ==
    ASSUME Inv, NEW n \in DOMAIN call, UNCHANGED <<made, call, service>>, Answers(n)',
           invoked' \in {invoked, invoked \cup {n}},
           \A m \in Calls \ {n} :
              /\ request'[m] = request[m] /\ connection'[m] = connection[m]
              /\ reply'[m] = reply[m] /\ successful'[m] = successful[m]
              /\ quit'[m] = quit[m] /\ broken'[m] = broken[m] /\ returned'[m] = returned[m]
    PROVE  CallsInv'
PROOF
  <1> SUFFICES ASSUME NEW m \in Calls PROVE IF m <= made THEN Answers(m)' ELSE Unmade(m)'
    BY DEF CallsInv
  <1>1. IF m <= made THEN Answers(m) ELSE Unmade(m)
    BY DEF Inv, CallsInv
  <1>2. n \in 1..made /\ n \in Nat /\ made \in Nat
    BY CallOf
  <1>3. CASE m = n
    <2>1. Answers(m)'
      BY <1>3 DEF Answers, Answered, Gone
    <2> QED  BY <1>2, <1>3, <2>1
  <1>4. CASE m # n
    <2>1. m \in invoked' <=> m \in invoked
      BY <1>4
    <2>2. /\ request'[m] = request[m] /\ connection'[m] = connection[m]
          /\ reply'[m] = reply[m] /\ successful'[m] = successful[m]
          /\ quit'[m] = quit[m] /\ broken'[m] = broken[m] /\ returned'[m] = returned[m]
      BY <1>4
    <2> QED  BY <1>1, <2>1, <2>2 DEF Answers, Answered, Unmade, Gone
  <1> QED  BY <1>3, <1>4

LEMMA ReadReplyKeeps ==
    ASSUME Inv, NEW n \in DOMAIN call, ReadReply(n) \/ NoticeClose(n)
    PROVE  Inv'
PROOF
  <1>1. /\ UNCHANGED <<made, call, stack, service, request, connection, reply, broken, returned,
                       invoked>>
        /\ quit' = [quit EXCEPT ![n] = TRUE]
        /\ \/ /\ Answered(n)
              /\ successful' = [successful EXCEPT ![n] = reply[n] = "response"]
           \/ broken[n] /\ request[n] # "none" /\ successful' = successful
    BY DEF ReadReply, NoticeClose
  <1>2. Types' /\ n \in Calls
    BY <1>1, CallOf DEF Types
  <1>3. Answers(n)'
    BY <1>1, <1>2, CallOf DEF Types, Answers, Answered, Gone
  <1>4. CallsInv'
    BY <1>1, <1>3, OthersStay, CallOf DEF Types
  <1>5. Teardowns' /\ Methods'
    BY <1>1, StacksStay DEF UnderWay
  <1> QED  BY <1>2, <1>4, <1>5 DEF Inv

LEMMA AcceptKeeps ==
    ASSUME Inv, NEW n \in DOMAIN call, Accept(n)
    PROVE  Inv'
PROOF
  <1>1. /\ UNCHANGED <<made, call, stack, service, request, reply, successful, quit, broken,
                       returned, invoked>>
        /\ connection' = [connection EXCEPT ![n] = "alive"]
        /\ ~Gone(call[n].callee)
    BY DEF Accept, Gone
  <1>2. Types' /\ n \in Calls
    BY <1>1, CallOf DEF Types
  <1>3. Answers(n)'
    BY <1>1, <1>2, CallOf DEF Types, Answers, Answered, Gone
  <1>4. CallsInv'
    BY <1>1, <1>3, OthersStay, CallOf DEF Types
  <1>5. \A m \in Calls : connection[m] = "alive" => connection'[m] = "alive"
    BY <1>1, CallOf DEF Types
  <1>6. Teardowns' /\ Methods'
    BY <1>1, <1>5, StacksStay, CallOf DEF UnderWay
  <1> QED  BY <1>2, <1>4, <1>6 DEF Inv

\* A connection ends when nothing is under way that would use it.
LEMMA HangUpKeeps ==
    ASSUME Inv, NEW n \in DOMAIN call, HangUp(n)
    PROVE  Inv'
PROOF
  <1>1. /\ UNCHANGED <<made, call, stack, service, request, reply, successful, quit, broken,
                       returned, invoked>>
        /\ connection' = [connection EXCEPT ![n] = "deleted"]
        /\ connection[n] = "alive"
        /\ returned[n] # "none" \/ service[call[n].caller] = "killed"
    BY DEF HangUp
  <1>2. Types' /\ n \in Calls
    BY <1>1, CallOf DEF Types
  <1>3. Answers(n)'
    BY <1>1, <1>2, CallOf DEF Types, Answers, Answered, Gone
  <1>4. CallsInv'
    BY <1>1, <1>3, OthersStay, CallOf DEF Types
  <1>5. \A m \in Calls : m # n => connection'[m] = connection[m]
    BY <1>1, CallOf DEF Types
  <1>6. reply[n] = "none" => service[call[n].caller] = "killed"
    BY <1>1, CallOf DEF Answers, Answered
  <1>7. ASSUME NEW q \in Programs, NEW m \in 1..made, UnderWay(q, m) PROVE UnderWay(q, m)'
    BY <1>1, <1>5, <1>6, <1>7, CallOf DEF UnderWay
  <1>8. Teardowns' /\ Methods'
    BY <1>1, <1>7, StacksStay
  <1> QED  BY <1>2, <1>4, <1>8 DEF Inv

\* A request that has been sent to a service that is there is unanswered.
LEMMA SentIsOpen ==
    ASSUME Inv, NEW n \in DOMAIN call, Take(n)
    PROVE  /\ ~Gone(call[n].callee)
           /\ reply[n] = "none" /\ ~quit[n] /\ returned[n] = "none" /\ n \notin invoked
           /\ request' = [request EXCEPT ![n] = "taken"] /\ request[n] = "sent"
           /\ UNCHANGED <<made, call, service, connection, successful, quit, broken, returned,
                          invoked>>
           /\ ~broken[n]
  BY CallOf DEF Answers, Answered, Take, Types

LEMMA SwallowKeeps ==
    ASSUME Inv, NEW n \in DOMAIN call, Swallow(n) \/ Refuse(n)
    PROVE  Inv'
PROOF
  <1>1. /\ Take(n) /\ stack' = stack
        /\ reply' \in {reply, [reply EXCEPT ![n] = "error"]}
    BY DEF Swallow, Refuse
  <1>2. Types' /\ n \in Calls
    BY <1>1, SentIsOpen, CallOf DEF Types
  <1>3. Answers(n)'
    BY <1>1, <1>2, SentIsOpen, CallOf DEF Types, Answers, Answered, Gone
  <1>4. \A m \in Calls : m # n => request'[m] = request[m] /\ reply'[m] = reply[m]
    BY <1>1, SentIsOpen, CallOf DEF Types
  <1>5. CallsInv'
    BY <1>1, <1>3, <1>4, SentIsOpen, OthersStay
  <1>6. ASSUME NEW q \in Programs, NEW m \in 1..made, UnderWay(q, m) PROVE UnderWay(q, m)'
    <2>1. m # n
      BY <1>1, <1>6, SentIsOpen DEF UnderWay
    <2> QED  BY <1>1, <1>4, <1>6, <2>1, SentIsOpen, CallOf DEF UnderWay
  <1>7. Teardowns' /\ Methods'
    BY <1>1, <1>6, SentIsOpen, StacksStay
  <1> QED  BY <1>2, <1>5, <1>7 DEF Inv

\* A frame that ends takes nothing along.
LEMMA PopKeeps ==
    ASSUME Types, Teardowns, NEW p \in Programs, stack[p] # <<>>, Pop(p), service' = service,
           Last(stack[p]).what # "teardown"
    PROVE  /\ Teardowns'
           /\ \A q \in Programs, i \in Nat :
                 Is(q, i, "method")' => /\ Is(q, i, "method") /\ stack'[q][i] = stack[q][i]
                                        /\ q = p => i # Len(stack[p])
PROOF
  <1> DEFINE l == Len(stack[p])
  <1>1. /\ \A q \in Programs \ {p} : stack'[q] = stack[q]
        /\ DOMAIN stack[p] = 1..l /\ DOMAIN stack'[p] = 1..(l - 1) /\ l \in Nat \ {0}
        /\ \A i \in DOMAIN stack'[p] : stack'[p][i] = stack[p][i]
    BY PopFrame
  <1>2. ~Is(p, l, "teardown")
    BY DEF Is, Last
  <1>3. \A q \in Programs, i \in Nat, what \in {"call", "method", "teardown"} :
            Is(q, i, what)' <=> Is(q, i, what) /\ (q = p => i # l)
    BY <1>1 DEF Is
  <1>4. ASSUME NEW q \in Programs, NEW i \in Nat, Is(q, i, "method")'
        PROVE  Is(q, i, "method") /\ stack'[q][i] = stack[q][i] /\ (q = p => i # l)
    <2>1. Is(q, i, "method") /\ (q = p => i # l)
      BY <1>3, <1>4
    <2> QED  BY <1>1, <1>4, <2>1 DEF Is
  <1>5. Teardowns'
    <2> SUFFICES ASSUME NEW q \in Programs
                 PROVE  /\ service'[q] = "closing" <=> \E i \in Nat : Is(q, i, "teardown")'
                        /\ \A i, j \in DOMAIN stack'[q] :
                              i < j /\ Is(q, j, "teardown")' => Is(q, i, "call")'
                        /\ Gone(q)' => \A i \in DOMAIN stack'[q] : Is(q, i, "call")'
      BY DEF Teardowns
    <2>1. service'[q] = "closing" <=> \E i \in Nat : Is(q, i, "teardown")'
      BY <1>2, <1>3 DEF Teardowns
    <2>2. CASE q = p
      <3>1. \A i \in DOMAIN stack'[p] : i \in Nat /\ i \in DOMAIN stack[p] /\ i # l
        BY <1>1
      <3> QED  BY <1>3, <2>1, <2>2, <3>1 DEF Teardowns, Gone
    <2>3. CASE q # p
      <3>1. stack'[q] = stack[q]
        BY <1>1, <2>3
      <3> QED  BY <2>1, <3>1 DEF Teardowns, Gone, Is
    <2> QED  BY <2>2, <2>3
  <1> QED  BY <1>4, <1>5

LEMMA ReturnKeeps ==
    ASSUME Inv, NEW n \in DOMAIN call, Return(n)
    PROVE  Inv'
PROOF
  <1> DEFINE p == call[n].caller
  <1>1. /\ UNCHANGED <<made, call, service, request, connection, reply, successful, quit, broken,
                       invoked>>
        /\ returned' = [returned EXCEPT ![n] = IF successful[n] THEN "true" ELSE "false"]
        /\ quit[n] /\ stack[p] # <<>> /\ Last(stack[p]).what = "call" /\ Pop(p)
    BY DEF Return, Tops
  <1>2. p \in Programs /\ n \in Calls
    BY CallOf
  <1>3. stack' \in [Programs -> Seq(Frame)]
    BY <1>1, <1>2, PopFrame, CallOf
  <1>4. Types'
    BY <1>1, <1>2, <1>3, CallOf DEF Types
  <1>5. Answers(n)'
    BY <1>1, <1>2, CallOf DEF Types, Answers, Answered, Gone
  <1>6. CallsInv'
    BY <1>1, <1>5, OthersStay, CallOf DEF Types
  <1>7. /\ Teardowns'
        /\ \A q \in Programs, i \in Nat :
              Is(q, i, "method")' => Is(q, i, "method") /\ stack'[q][i] = stack[q][i]
    BY <1>1, <1>2, PopKeeps, CallOf
  <1>8. Methods'
    BY <1>1, <1>7, MethodsRemain, CallOf DEF UnderWay
  <1> QED  BY <1>4, <1>6, <1>7, <1>8 DEF Inv

LEMMA RespondKeeps ==
    ASSUME Inv, NEW n \in DOMAIN call, Respond(n)
    PROVE  Inv'
PROOF
  <1>0. PICK p \in Programs : p = call[n].callee
    BY CallOf
  <1>1. /\ UNCHANGED <<made, call, service, request, connection, successful, quit, broken, returned>>
        /\ reply' = [reply EXCEPT ![n] = Response(call[n].kind)] /\ invoked' = invoked \cup {n}
        /\ stack[p] # <<>> /\ Pop(p)
        /\ Last(stack[p]).what = "method" /\ Last(stack[p]).n = n
    BY <1>0 DEF Respond, Tops
  <1>r. Response(call[n].kind) \in {"response", "empty"}
    BY DEF Response
  <1>2. stack' \in [Programs -> Seq(Frame)] /\ Len(stack[p]) \in Nat \ {0}
        /\ DOMAIN stack[p] = 1..Len(stack[p])
    BY <1>1, PopFrame, CallOf
  <1>3. Types' /\ n \in Calls /\ n \in 1..made
    BY <1>1, <1>r, <1>2, CallOf DEF Types
  <1>4. Is(p, Len(stack[p]), "method") /\ stack[p][Len(stack[p])].n = n
    BY <1>1, <1>2 DEF Is, Last
  <1>5. UnderWay(p, n) /\ ~Gone(p)
        /\ \A j \in Nat : Is(p, j, "method") /\ stack[p][j].n = n => j = Len(stack[p])
    <2>1. UnderWay(p, n)
          /\ \A j \in Nat : Is(p, j, "method") /\ stack[p][j].n = n => j = Len(stack[p])
      BY <1>2, <1>4, CallOf DEF Methods
    <2>2. ~Is(p, Len(stack[p]), "call")
      BY <1>4 DEF Is
    <2>3. ~Gone(p)
      BY <1>2, <2>2, CallOf DEF Teardowns
    <2> QED  BY <2>1, <2>3
  <1>6. Answers(n)'
    BY <1>0, <1>1, <1>r, <1>3, <1>5, CallOf DEF Types, Answers, Answered, Gone, UnderWay
  <1>7. \A m \in Calls : m # n => reply'[m] = reply[m]
    BY <1>1, CallOf DEF Types
  <1>8. CallsInv'
    BY <1>1, <1>6, <1>7, OthersStay
  <1>9. /\ Teardowns'
        /\ \A q \in Programs, i \in Nat :
              Is(q, i, "method")' => /\ Is(q, i, "method") /\ stack'[q][i] = stack[q][i]
                                     /\ q = p => i # Len(stack[p])
    BY <1>1, PopKeeps, CallOf
  <1>10. Methods'
    <2> SUFFICES ASSUME NEW q \in Programs, NEW i \in Nat, Is(q, i, "method")'
                 PROVE  /\ UnderWay(q, stack[q][i].n)'
                        /\ \A j \in Nat :
                              Is(q, j, "method")' /\ stack'[q][j].n = stack'[q][i].n => j = i
      BY DEF Methods
    <2>1. PICK m : m = stack[q][i].n
      OBVIOUS
    <2>2. UnderWay(q, m) /\ stack'[q][i].n = m /\ m \in Calls
      BY <1>9, <2>1, CallOf DEF Methods, UnderWay
    <2>3. m # n
      BY <1>0, <1>5, <1>9, <2>1, <2>2 DEF UnderWay
    <2>4. UnderWay(q, stack[q][i].n)'
      BY <1>1, <1>7, <2>2, <2>3 DEF UnderWay
    <2> QED  BY <1>9, <2>4, CallOf DEF Methods
  <1> QED  BY <1>3, <1>8, <1>9, <1>10 DEF Inv

LEMMA InvokeKeeps ==
    ASSUME Inv, NEW n \in DOMAIN call, Invoke(n)
    PROVE  Inv'
PROOF
  <1>0. PICK p \in Programs : p = call[n].callee
    BY CallOf
  <1> DEFINE frame == [what |-> "method", n |-> n]
             l == Len(stack[p]) + 1
  <1>1. /\ Take(n) /\ Push(p, frame) /\ reply' = reply /\ connection[n] = "alive"
        /\ UNCHANGED <<made, call, service, connection, successful, quit, broken, returned, invoked>>
    BY <1>0 DEF Invoke, Take
  <1>2. n \in Calls /\ n \in 1..made /\ frame \in Frame /\ frame.what = "method" /\ frame.n = n
    BY CallOf DEF Frame
  <1>3. /\ stack' \in [Programs -> Seq(Frame)]
        /\ \A q \in Programs \ {p} : stack'[q] = stack[q]
        /\ DOMAIN stack[p] = 1..(l - 1) /\ DOMAIN stack'[p] = 1..l /\ l \in Nat
        /\ \A i \in DOMAIN stack[p] : stack'[p][i] = stack[p][i]
        /\ stack'[p][l] = frame
    BY <1>1, <1>2, PushFrame, CallOf
  <1>4. Types'
    BY <1>1, <1>3, SentIsOpen, CallOf DEF Types
  <1>5. \A m \in Calls : m # n => request'[m] = request[m]
    BY <1>1, SentIsOpen, CallOf DEF Types
  <1>6. request'[n] = "taken" /\ request[n] = "sent" /\ reply[n] = "none" /\ ~Gone(p)
    BY <1>0, <1>1, <1>2, SentIsOpen, CallOf DEF Types
  <1>7. Answers(n)'
    BY <1>1, <1>2, <1>6, SentIsOpen, CallOf DEF Answers, Answered, Gone
  <1>8. CallsInv'
    BY <1>1, <1>5, <1>7, OthersStay
  <1>9. \A q \in Programs, i \in Nat, what \in {"call", "method", "teardown"} :
            Is(q, i, what)' <=> Is(q, i, what) \/ (q = p /\ i = l /\ what = "method")
    BY <1>2, <1>3 DEF Is
  <1>10. Teardowns'
    <2> SUFFICES ASSUME NEW q \in Programs
                 PROVE  /\ service'[q] = "closing" <=> \E i \in Nat : Is(q, i, "teardown")'
                        /\ \A i, j \in DOMAIN stack'[q] :
                              i < j /\ Is(q, j, "teardown")' => Is(q, i, "call")'
                        /\ Gone(q)' => \A i \in DOMAIN stack'[q] : Is(q, i, "call")'
      BY DEF Teardowns
    <2>1. service'[q] = "closing" <=> \E i \in Nat : Is(q, i, "teardown")'
      BY <1>1, <1>9, CallOf DEF Teardowns
    <2>2. CASE q = p
      <3>1. \A i \in DOMAIN stack'[p] : i \in Nat /\ (i \in DOMAIN stack[p] \/ i = l)
        BY <1>3
      <3>2. \A i, j \in DOMAIN stack'[q] : i < j /\ Is(q, j, "teardown")' => Is(q, i, "call")'
        BY <1>3, <1>9, <2>2, <3>1, CallOf DEF Teardowns, Is
      <3> QED  BY <1>1, <1>6, <2>1, <2>2, <3>2 DEF Gone
    <2>3. CASE q # p
      <3>1. stack'[q] = stack[q]
        BY <1>3, <2>3
      <3> QED  BY <1>1, <2>1, <3>1, CallOf DEF Teardowns, Gone, Is
    <2> QED  BY <2>2, <2>3
  <1>11. \A q \in Programs, m \in 1..made : UnderWay(q, m) => m # n /\ UnderWay(q, m)'
    BY <1>1, <1>5, <1>6, CallOf DEF UnderWay
  <1>12. UnderWay(p, n)'
    BY <1>0, <1>1, <1>2, <1>6 DEF UnderWay
  <1>13. Methods'
    <2> SUFFICES ASSUME NEW q \in Programs, NEW i \in Nat, Is(q, i, "method")'
                 PROVE  /\ UnderWay(q, stack[q][i].n)'
                        /\ \A j \in Nat :
                              Is(q, j, "method")' /\ stack'[q][j].n = stack'[q][i].n => j = i
      BY DEF Methods
    <2>1. ASSUME NEW j \in Nat, Is(q, j, "method")'
          PROVE  \/ q = p /\ j = l /\ stack'[q][j].n = n
                 \/ /\ Is(q, j, "method") /\ stack'[q][j] = stack[q][j]
                    /\ UnderWay(q, stack[q][j].n) /\ stack[q][j].n # n
      <3>1. CASE q = p /\ j = l
        BY <1>2, <1>3, <3>1
      <3>2. CASE ~(q = p /\ j = l)
        <4>1. Is(q, j, "method") /\ stack'[q][j] = stack[q][j]
          BY <1>3, <1>9, <2>1, <3>2 DEF Is
        <4>2. UnderWay(q, stack[q][j].n)
          BY <4>1, CallOf DEF Methods
        <4> QED  BY <1>11, <4>1, <4>2 DEF UnderWay
      <3> QED  BY <3>1, <3>2
    <2>2. PICK m : m = stack'[q][i].n
      OBVIOUS
    <2>3. m \in 1..made /\ (UnderWay(q, m) \/ (q = p /\ m = n))
      BY <1>2, <2>1, <2>2 DEF UnderWay
    <2>4. UnderWay(q, m)'
      BY <1>11, <1>12, <2>3
    <2>5. UnderWay(q, stack[q][i].n)'
      BY <2>2, <2>4 DEF UnderWay
    <2>6. ASSUME NEW j \in Nat, Is(q, j, "method")', stack'[q][j].n = m PROVE j = i
      BY <2>1, <2>2, <2>6, CallOf DEF Methods
    <2> QED  BY <2>2, <2>5, <2>6
  <1> QED  BY <1>4, <1>8, <1>10, <1>13 DEF Inv

-----------------------------------------------------------------------------
(* The end of services and programs                                        *)

LEMMA BeginDestroyKeeps ==
    ASSUME Inv, NEW q \in Programs, BeginDestroy(q)
    PROVE  Inv'
PROOF
  <1>0. PICK l, frame : l = Len(stack[q]) + 1 /\ frame = [what |-> "teardown"]
    OBVIOUS
  <1>1. /\ service[q] = "up" /\ \A i \in DOMAIN stack[q] : stack[q][i].what = "call"
        /\ service' = [service EXCEPT ![q] = "closing"] /\ Push(q, frame)
        /\ UNCHANGED <<made, call, request, connection, reply, successful, quit, broken, returned,
                       invoked>>
    BY <1>0 DEF BeginDestroy
  <1>2. Types /\ Teardowns /\ Methods /\ CallsInv /\ frame \in Frame /\ frame.what = "teardown"
    BY <1>0 DEF Inv, Frame
  <1>3. /\ stack' \in [Programs -> Seq(Frame)]
        /\ \A r \in Programs \ {q} : stack'[r] = stack[r]
        /\ DOMAIN stack[q] = 1..(l - 1) /\ DOMAIN stack'[q] = 1..l /\ l \in Nat \ {0}
        /\ \A i \in DOMAIN stack[q] : stack'[q][i] = stack[q][i]
        /\ stack'[q][l] = frame
    BY <1>0, <1>1, <1>2, PushFrame
  <1>4. \A r \in Programs : service'[r] = IF r = q THEN "closing" ELSE service[r]
    BY <1>1, <1>2 DEF Types
  <1>5. Types'
    BY <1>1, <1>2, <1>3 DEF Types
  <1>6. \A r \in Programs : Gone(r)' <=> Gone(r)
    BY <1>1, <1>4 DEF Gone
  <1>7. \A n \in 1..made : call[n].callee \in Programs /\ call[n].caller \in Programs
    BY <1>2, Made, LenProperties DEF Types
  <1>8. CallsInv'
    <2> SUFFICES ASSUME NEW n \in Calls PROVE IF n <= made THEN Answers(n)' ELSE Unmade(n)'
      BY <1>1 DEF CallsInv
    <2>1. IF n <= made THEN Answers(n) ELSE Unmade(n)
      BY <1>2 DEF CallsInv
    <2>2. n <= made => (Gone(call[n].callee)' <=> Gone(call[n].callee))
      BY <1>1, <1>2, <1>6, <1>7 DEF Calls, Types, Gone
    <2> QED  BY <1>1, <2>1, <2>2 DEF Answers, Answered, Unmade
  <1>9. Teardowns'
    <2> SUFFICES ASSUME NEW r \in Programs
                 PROVE  /\ service'[r] = "closing" <=> \E i \in Nat : Is(r, i, "teardown")'
                        /\ \A i, j \in DOMAIN stack'[r] :
                              i < j /\ Is(r, j, "teardown")' => Is(r, i, "call")'
                        /\ Gone(r)' => \A i \in DOMAIN stack'[r] : Is(r, i, "call")'
      BY DEF Teardowns
    <2>1. CASE r = q
      <3>1. \A i \in 1..(l - 1) : Is(r, i, "call")'
        BY <1>1, <1>3, <2>1 DEF Is
      <3>2. Is(r, l, "teardown")' /\ service'[r] = "closing" /\ ~Gone(r)'
        BY <1>2, <1>3, <1>4, <2>1 DEF Is, Gone
      <3> QED  BY <1>3, <2>1, <3>1, <3>2
    <2>2. CASE r # q
      <3>1. stack'[r] = stack[r] /\ service'[r] = service[r]
        BY <1>3, <1>4, <2>2
      <3> QED  BY <1>2, <3>1 DEF Teardowns, Gone, Is
    <2> QED  BY <2>1, <2>2
  <1>10. \A r \in Programs, i \in Nat :
            Is(r, i, "method")' => Is(r, i, "method") /\ stack'[r][i] = stack[r][i]
    <2> SUFFICES ASSUME NEW r \in Programs, NEW i \in Nat, Is(r, i, "method")'
                 PROVE  Is(r, i, "method") /\ stack'[r][i] = stack[r][i]
      OBVIOUS
    <2>1. CASE r = q
      BY <1>1, <1>2, <1>3, <2>1 DEF Is
    <2>2. CASE r # q
      BY <1>3, <2>2 DEF Is
    <2> QED  BY <2>1, <2>2
  <1>11. Methods'
    BY <1>1, <1>2, <1>4, <1>7, <1>10, MethodsRemain DEF UnderWay
  <1> QED  BY <1>5, <1>8, <1>9, <1>11 DEF Inv

\* A service that ends with nothing but calls on its program's stack.
LEMMA GoneKeeps ==
    ASSUME Inv, NEW q \in Programs, NEW end \in {"gone", "killed"}, service[q] # "killed",
           service' = [service EXCEPT ![q] = end], CloseSockets(q),
           UNCHANGED <<made, call, request, reply, successful, quit, returned, invoked>>,
           stack' \in [Programs -> Seq(Frame)],
           \A r \in Programs \ {q} : stack'[r] = stack[r],
           \A i \in DOMAIN stack'[q] : stack'[q][i].what = "call"
    PROVE  Inv'
PROOF
  <1>1. Types /\ Teardowns /\ Methods /\ CallsInv
    BY DEF Inv
  <1>2. DOMAIN call = 1..made /\ \A n \in 1..made : n \in Calls /\ n <= made
    BY <1>1, LenProperties DEF Types, Calls
  <1>3. \A n \in Calls : broken'[n] = (broken[n] \/ n \in CallsTo(q))
        /\ connection'[n] = IF n \in CallsTo(q) /\ connection[n] = "alive" THEN "deleted" ELSE connection[n]
    BY DEF CloseSockets
  <1>4. \A n \in Calls : n \in CallsTo(q) <=> n \in 1..made /\ call[n].callee = q
    BY <1>2 DEF CallsTo
  <1>5. \A r \in Programs : service'[r] = IF r = q THEN end ELSE service[r]
    BY <1>1 DEF Types
  <1>6. Types'
    BY <1>1 DEF Types, CloseSockets
  <1>7. CallsInv'
    <2> SUFFICES ASSUME NEW n \in Calls PROVE IF n <= made THEN Answers(n)' ELSE Unmade(n)'
      BY DEF CallsInv
    <2>1. IF n <= made THEN Answers(n) ELSE Unmade(n)
      BY <1>1 DEF CallsInv
    <2>2. CASE n > made
      <3>1. n \notin CallsTo(q)
        BY <1>1, <1>4, <2>2 DEF Types
      <3> QED  BY <1>1, <1>3, <2>1, <2>2, <3>1 DEF Unmade, Types, Calls
    <2>3. CASE n <= made
      <3>0. n \in 1..made
        BY <1>1, <2>3 DEF Calls, Types
      <3>1. n \in 1..made /\ call[n].callee \in Programs
        BY <1>1, <1>2, <3>0, Made
      <3>2. CASE call[n].callee = q
        <4>1. Gone(call[n].callee)' /\ connection'[n] # "alive"
          BY <1>3, <1>4, <1>5, <3>1, <3>2 DEF Gone
        <4> QED  BY <2>1, <2>3, <4>1 DEF Answers, Answered
      <3>3. CASE call[n].callee # q
        <4>1. /\ connection'[n] = connection[n] /\ broken'[n] = broken[n]
              /\ Gone(call[n].callee)' <=> Gone(call[n].callee)
          <5>1. n \notin CallsTo(q)
            BY <1>4, <3>3
          <5>2. connection'[n] = connection[n] /\ broken'[n] = broken[n]
            BY <1>1, <1>3, <5>1 DEF Types
          <5>3. call' = call /\ service'[call[n].callee] = service[call[n].callee]
            BY <1>5, <3>1, <3>3
          <5> QED  BY <5>2, <5>3 DEF Gone
        <4>2. Answered(n)' <=> Answered(n)
          BY DEF Answered
        <4> QED  BY <2>1, <2>3, <4>1, <4>2 DEF Answers
      <3> QED  BY <3>2, <3>3
    <2> QED  BY <1>1, <2>2, <2>3 DEF Types, Calls
  <1>8. Teardowns'
    <2> SUFFICES ASSUME NEW r \in Programs
                 PROVE  /\ service'[r] = "closing" <=> \E i \in Nat : Is(r, i, "teardown")'
                        /\ \A i, j \in DOMAIN stack'[r] :
                              i < j /\ Is(r, j, "teardown")' => Is(r, i, "call")'
                        /\ Gone(r)' => \A i \in DOMAIN stack'[r] : Is(r, i, "call")'
      BY DEF Teardowns
    <2>1. CASE r = q
      BY <1>5, <2>1 DEF Is
    <2>2. CASE r # q
      <3>1. stack'[r] = stack[r] /\ service'[r] = service[r]
        BY <1>5, <2>2
      <3>2. \A i, what : Is(r, i, what)' <=> Is(r, i, what)
        BY <3>1 DEF Is
      <3> QED  BY <1>1, <3>1, <3>2 DEF Teardowns, Gone
    <2> QED  BY <2>1, <2>2
  <1>9. \A r \in Programs, i \in Nat :
            Is(r, i, "method")' => r # q /\ Is(r, i, "method") /\ stack'[r][i] = stack[r][i]
    BY DEF Is
  <1>10. ASSUME NEW r \in Programs, NEW n \in 1..made, r # q, UnderWay(r, n)
         PROVE  UnderWay(r, n)'
    <2>1. connection'[n] = connection[n] /\ call[n].caller \in Programs
      BY <1>1, <1>2, <1>3, <1>4, <1>10, Made DEF UnderWay
    <2>2. service'[call[n].caller] # "killed" => service[call[n].caller] # "killed" \/ call[n].caller = q
      BY <1>5, <2>1
    <2> QED  BY <1>10, <2>1, <2>2 DEF UnderWay
  <1>11. Methods'
    BY <1>1, <1>9, <1>10, MethodsRemain
  <1> QED  BY <1>6, <1>7, <1>8, <1>11 DEF Inv

LEMMA EndDestroyKeeps ==
    ASSUME Inv, NEW q \in Programs, EndDestroy(q)
    PROVE  Inv'
PROOF
  <1>1. /\ Types /\ Teardowns /\ stack[q] # <<>> /\ Pop(q) /\ Last(stack[q]).what = "teardown"
        /\ service[q] # "killed" /\ service' = [service EXCEPT ![q] = "gone"] /\ CloseSockets(q)
        /\ UNCHANGED <<made, call, request, reply, successful, quit, returned, invoked>>
    BY DEF Inv, EndDestroy, Tops
  <1>2. /\ stack' \in [Programs -> Seq(Frame)]
        /\ \A r \in Programs \ {q} : stack'[r] = stack[r]
        /\ Len(stack[q]) \in Nat \ {0}
        /\ DOMAIN stack[q] = 1..Len(stack[q])
        /\ DOMAIN stack'[q] = 1..(Len(stack[q]) - 1)
        /\ \A i \in DOMAIN stack'[q] : stack'[q][i] = stack[q][i]
    BY <1>1, PopFrame
  <1>3. Is(q, Len(stack[q]), "teardown")
    BY <1>1, <1>2 DEF Is, Last
  <1>4. \A i \in DOMAIN stack'[q] : i \in DOMAIN stack[q] /\ i < Len(stack[q])
    BY <1>2
  <1>5. \A i \in DOMAIN stack'[q] : Is(q, i, "call")
    BY <1>1, <1>2, <1>3, <1>4 DEF Teardowns
  <1>6. \A i \in DOMAIN stack'[q] : stack'[q][i].what = "call"
    BY <1>2, <1>5 DEF Is
  <1> QED  BY <1>1, <1>2, <1>6, GoneKeeps

LEMMA KillKeeps ==
    ASSUME Inv, NEW q \in Programs, Kill(q)
    PROVE  Inv'
PROOF
  <1>1. /\ service[q] # "killed" /\ service' = [service EXCEPT ![q] = "killed"] /\ CloseSockets(q)
        /\ stack' = [stack EXCEPT ![q] = <<>>]
        /\ UNCHANGED <<made, call, request, reply, successful, quit, returned, invoked>>
    BY DEF Kill
  <1>2. stack \in [Programs -> Seq(Frame)] /\ <<>> \in Seq(Frame)
    BY DEF Inv, Types
  <1>3. /\ stack' \in [Programs -> Seq(Frame)]
        /\ \A r \in Programs \ {q} : stack'[r] = stack[r]
        /\ stack'[q] = <<>>
    BY <1>1, <1>2
  <1>4. \A i \in DOMAIN stack'[q] : stack'[q][i].what = "call"
    BY <1>3
  <1> QED  BY <1>1, <1>3, <1>4, GoneKeeps

-----------------------------------------------------------------------------

LEMMA InvStart == Init => Inv
PROOF
  <1> SUFFICES ASSUME Init PROVE Inv
    OBVIOUS
  <1>1. Types
    BY DEF Init, Types
  <1>2. \A q \in Programs : \A i, what : ~Is(q, i, what)
    BY DEF Init, Is
  <1>3. Teardowns /\ Methods
    BY <1>2 DEF Init, Teardowns, Methods, Gone
  <1>4. CallsInv
    BY DEF Init, CallsInv, Unmade, Calls
  <1> QED  BY <1>1, <1>3, <1>4 DEF Inv

LEMMA InvStep == Inv /\ [Next]_vars => Inv'
PROOF
  <1> SUFFICES ASSUME Inv, [Next]_vars PROVE Inv'
    OBVIOUS
  <1>1. ASSUME NEW n \in DOMAIN call, EventOf(n) PROVE Inv'
    BY <1>1, ReadReplyKeeps, ReturnKeeps, AcceptKeeps, SwallowKeeps, InvokeKeeps, RespondKeeps,
       HangUpKeeps DEF EventOf
  <1>2. CASE UNCHANGED vars
    <2>1. Types' /\ CallsInv'
      BY <1>2 DEF vars, Inv, Types, CallsInv, Answers, Answered, Unmade, Gone
    <2>2. Teardowns' /\ Methods'
      BY <1>2, StacksStay DEF vars, UnderWay
    <2> QED  BY <2>1, <2>2 DEF Inv
  <1> QED  BY <1>1, <1>2, CallKeeps, BeginDestroyKeeps, EndDestroyKeeps, KillKeeps DEF Next

LEMMA InvTyped == Inv => TypeOK
PROOF
  <1> SUFFICES ASSUME Inv PROVE TypeOK
    OBVIOUS
  <1>1. Types /\ Teardowns
    BY DEF Inv
  <1>2. call \in [1..made -> CallRecord]
    BY <1>1, LenProperties DEF Types
  <1>3. ASSUME NEW p \in Programs
        PROVE  service[p] = "closing" <=> [what |-> "teardown"] \in ToSet(stack[p])
    <2>1. stack[p] \in Seq(Frame) /\ DOMAIN stack[p] = 1..Len(stack[p]) /\ Len(stack[p]) \in Nat
      BY <1>1, LenProperties DEF Types
    <2>2. \A i \in DOMAIN stack[p] : stack[p][i] \in Frame /\ i \in Nat
      BY <2>1, ElementOfSeq
    <2>3. \A f \in Frame : f.what = "teardown" <=> f = [what |-> "teardown"]
      BY DEF Frame
    <2>4. (\E i \in Nat : Is(p, i, "teardown")) <=> [what |-> "teardown"] \in ToSet(stack[p])
      BY <2>2, <2>3 DEF Is, ToSet
    <2> QED  BY <1>1, <2>4 DEF Teardowns
  <1> QED  BY <1>1, <1>2, <1>3 DEF TypeOK, Types, CallRecord

LEMMA InvTells == Inv => AnswerIsTrue /\ ConnectionAwaitsMethod
PROOF
  <1> SUFFICES ASSUME Inv PROVE AnswerIsTrue /\ ConnectionAwaitsMethod
    OBVIOUS
  <1>1. AnswerIsTrue
    BY CallOf DEF AnswerIsTrue, Answers, Answered, Gone
  <1>2. ConnectionAwaitsMethod
    <2> SUFFICES ASSUME NEW q \in Programs, NEW i \in DOMAIN stack[q],
                        stack[q][i].what = "method",
                        service[call[stack[q][i].n].caller] # "killed"
                 PROVE  connection[stack[q][i].n] = "alive"
      BY DEF ConnectionAwaitsMethod
    <2>1. i \in Nat
      BY LenProperties DEF Inv, Types
    <2>2. UnderWay(q, stack[q][i].n)
      BY <2>1 DEF Inv, Methods, Is
    <2> QED  BY <2>2 DEF UnderWay
  <1> QED  BY <1>1, <1>2

\* Whatever programs call, whichever services are deleted and programs killed,
\* the stacks are those of nested calls and methods (type correctness).
THEOREM SyncCallTyped == Spec => []TypeOK
  BY InvStart, InvStep, InvTyped, PTL DEF Spec

\* Likewise, call (CuteIPCInterface::call) has returned true exactly for methods
\* that were invoked, as long as the service is there.
THEOREM AnswersAreTrue == Spec => []AnswerIsTrue
  BY InvStart, InvStep, InvTells, PTL DEF Spec

\* Likewise, the connection a method was called through
\* (CuteIPCServiceConnection::processMessage) is there for its response.
THEOREM ConnectionsAwaitMethods == Spec => []ConnectionAwaitsMethod
  BY InvStart, InvStep, InvTells, PTL DEF Spec
=============================================================================
