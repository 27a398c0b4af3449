---------------------------- MODULE Wire_proofs ----------------------------
(***************************************************************************)
(* What two sides make of each other's bytes: Framing delivers messages    *)
(* whole, once and in order, whatever their sizes, provided that none is   *)
(* empty; and by Marshalling a call is read as it was written, as far as   *)
(* the reader knows the types.                                             *)
(*                                                                         *)
(* The invariant of Framing has two parts: where the messages lie in the   *)
(* stream, and where the receiver stands in it.  The one of Marshalling    *)
(* tells the story of the call: what each stage has made of the last.      *)
(***************************************************************************)
EXTENDS Framing, Marshalling, TLAPS, SequenceTheorems, WellFoundedInduction

-----------------------------------------------------------------------------
(* Framing                                                                 *)

End(message) == message.at + Header + message.size

\* The messages follow each other without gap or overlap, from the first byte
\* of the stream to the last one written.
StreamInv ==
    /\ sent = <<>> => written = 0
    /\ \A i \in DOMAIN sent :
          /\ sent[i].size \in Sizes
          /\ End(sent[i]) <= written
          /\ i = 1 => sent[i].at = 0
          /\ i = Len(sent) => written = End(sent[i])
          /\ i < Len(sent) => sent[i + 1].at = End(sent[i])
          /\ \A j \in DOMAIN sent : i < j => End(sent[i]) <= sent[j].at

\* Where the message after the first n begins, or will.
Start(n) == IF n < Len(sent) THEN sent[n + 1].at ELSE written

\* The receiver stands at the start of the next message, or inside it with the
\* block it has collected; what it has processed is what was sent.
ReceiverInv ==
    LET n == Len(processed) IN
    /\ n <= Len(sent)
    /\ \A i \in DOMAIN processed : processed[i] = sent[i]
    /\ nextBlockSize = 0 => blockSize = 0 /\ pc # "process"
    /\ pc = "process" \/ nextBlockSize = 0 => consumed = Start(n)
    /\ pc # "process" /\ nextBlockSize # 0 =>
          /\ n < Len(sent)
          /\ nextBlockSize = sent[n + 1].size
          /\ blockSize < nextBlockSize
          /\ consumed = sent[n + 1].at + Header + blockSize

FramingInv == TypeOK /\ StreamInv /\ ReceiverInv /\ NothingLeftBehind

-----------------------------------------------------------------------------

\* The invariant holds at the beginning.
THEOREM InitFramingInv == Init => FramingInv
  BY HeaderAssumption, MaxMessagesAssumption
  DEF Init, FramingInv, TypeOK, StreamInv, ReceiverInv, NothingLeftBehind, Start, Message,
      Available

\* A new message begins where the stream ended: the messages sent before, and
\* the place of the receiver, are what they were.
LEMMA SendStep ==
    ASSUME FramingInv, Send
    PROVE  FramingInv' /\ Channel!Send
<1>1. PICK size \in Sizes :
        /\ sent' = Append(sent, [at |-> written, size |-> size])
        /\ written' = written + Header + size
  BY DEF Send
<1>2. size \in Nat /\ Header \in Nat
  BY SizesAssumption, HeaderAssumption
<1>3. /\ Len(sent) < MaxMessages
      /\ UNCHANGED <<arrived, consumed, nextBlockSize, blockSize, pc, processed>>
  BY DEF Send
<1>4. /\ sent \in Seq(Message) /\ written \in Nat
      /\ [at |-> written, size |-> size] \in Message
  BY <1>2 DEF FramingInv, TypeOK, Message
<1>5. /\ sent' \in Seq(Message)
      /\ Len(sent') = Len(sent) + 1
      /\ DOMAIN sent' = 1..(Len(sent) + 1)
      /\ \A i \in DOMAIN sent : sent'[i] = sent[i]
      /\ sent'[Len(sent) + 1] = [at |-> written, size |-> size]
  BY <1>1, <1>4
<1>6. TypeOK'
  BY <1>1, <1>2, <1>3, <1>5, MaxMessagesAssumption DEF FramingInv, TypeOK
<1>7. StreamInv'
  <2>1. sent' # <<>>
    BY <1>5, <1>4
  <2>2. ASSUME NEW i \in DOMAIN sent'
        PROVE  /\ sent'[i].size \in Sizes
               /\ End(sent'[i]) <= written'
               /\ i = 1 => sent'[i].at = 0
               /\ i = Len(sent') => written' = End(sent'[i])
               /\ i < Len(sent') => sent'[i + 1].at = End(sent'[i])
               /\ \A j \in DOMAIN sent' : i < j => End(sent'[i]) <= sent'[j].at
    <3>1. CASE i = Len(sent) + 1
      <4>1. sent'[i].at = written /\ sent'[i].size = size
        BY <3>1, <1>5
      <4>2. i = 1 => sent'[i].at = 0
        BY <3>1, <4>1, <1>4 DEF FramingInv, StreamInv
      <4>3. QED  BY <3>1, <4>1, <4>2, <1>1, <1>2, <1>4, <1>5 DEF End
    <3>2. CASE i \in DOMAIN sent
      <4>1. sent'[i] = sent[i] /\ i \in 1..Len(sent) /\ sent[i] \in Message
        BY <3>2, <1>4, <1>5
      <4>2. /\ sent[i].size \in Sizes
            /\ End(sent[i]) <= written
            /\ i = 1 => sent[i].at = 0
            /\ i = Len(sent) => written = End(sent[i])
            /\ i < Len(sent) => sent[i + 1].at = End(sent[i])
            /\ \A j \in DOMAIN sent : i < j => End(sent[i]) <= sent[j].at
        BY <3>2 DEF FramingInv, StreamInv
      <4>3. End(sent[i]) \in Nat
        BY <4>1, <1>2 DEF End, Message
      <4>4. sent'[i + 1].at = End(sent[i])
        BY <4>1, <4>2, <1>4, <1>5
      <4>5. \A j \in DOMAIN sent' : i < j => End(sent[i]) <= sent'[j].at
        BY <4>1, <4>2, <1>4, <1>5
      <4>6. QED  BY <4>1, <4>2, <4>3, <4>4, <4>5, <1>1, <1>2, <1>4, <1>5
    <3>3. QED  BY <3>1, <3>2, <1>4, <1>5
  <2>3. QED  BY <2>1, <2>2 DEF StreamInv, End
<1>8. ReceiverInv' /\ NothingLeftBehind'
  <2>1. processed \in Seq(Message) /\ Len(processed) <= Len(sent)
    BY DEF FramingInv, TypeOK, ReceiverInv
  <2>2. Start(Len(processed))' = Start(Len(processed))
    BY <1>3, <1>4, <1>5, <2>1 DEF Start
  <2>3. Len(processed) < Len(sent) =>
          sent'[Len(processed) + 1] = sent[Len(processed) + 1]
    BY <1>4, <1>5, <2>1
  <2>4. \A i \in DOMAIN processed : sent'[i] = sent[i]
    BY <1>4, <1>5, <2>1
  <2>5. NothingLeftBehind'
    BY <1>3 DEF FramingInv, NothingLeftBehind, Available
  <2>6. QED
    BY <1>3, <1>4, <1>5, <2>1, <2>2, <2>3, <2>4, <2>5 DEF FramingInv, ReceiverInv
<1>9. Channel!Send
  BY <1>3, <1>5 DEF Channel!Send
<1>10. QED  BY <1>6, <1>7, <1>8, <1>9 DEF FramingInv

\* Bytes arrive beyond what the receiver has read: nothing it knows changes.
LEMMA ArriveStep ==
    ASSUME FramingInv, Arrive
    PROVE  FramingInv'
<1>1. TypeOK'
  BY DEF Arrive, FramingInv, TypeOK
<1>2. StreamInv'
  BY DEF Arrive, FramingInv, StreamInv, End
<1>3. Start(Len(processed))' = Start(Len(processed))
  BY DEF Arrive, Start
<1>4. ReceiverInv'
  BY <1>3 DEF Arrive, FramingInv, TypeOK, ReceiverInv
<1>5. NothingLeftBehind'
  BY DEF Arrive, FramingInv, TypeOK, NothingLeftBehind
<1>6. QED  BY <1>1, <1>2, <1>4, <1>5 DEF FramingInv

LEMMA AwaitHeaderStep ==
    ASSUME FramingInv, AwaitHeader
    PROVE  FramingInv'
<1>1. TypeOK'
  BY DEF AwaitHeader, FramingInv, TypeOK
<1>2. StreamInv'
  BY DEF AwaitHeader, FramingInv, StreamInv, End
<1>3. Start(Len(processed))' = Start(Len(processed))
  BY DEF AwaitHeader, Start
<1>4. ReceiverInv'
  BY <1>3 DEF AwaitHeader, FramingInv, ReceiverInv
<1>5. NothingLeftBehind'
  BY DEF AwaitHeader, NothingLeftBehind, Available
<1>6. QED  BY <1>1, <1>2, <1>4, <1>5 DEF FramingInv

LEMMA FinishBlockStep ==
    ASSUME FramingInv, FinishBlock
    PROVE  FramingInv'
<1>1. TypeOK'
  BY DEF FinishBlock, FramingInv, TypeOK
<1>2. StreamInv'
  BY DEF FinishBlock, FramingInv, StreamInv, End
<1>3. Start(Len(processed))' = Start(Len(processed))
  BY DEF FinishBlock, Start
<1>4. ReceiverInv'
  BY <1>3 DEF FinishBlock, FramingInv, ReceiverInv
<1>5. NothingLeftBehind'
  BY HeaderAssumption DEF FinishBlock, FramingInv, TypeOK, NothingLeftBehind, Available
<1>6. QED  BY <1>1, <1>2, <1>4, <1>5 DEF FramingInv

\* What one read takes: no more than is needed or has arrived, and all of one.
LEMMA LeastBounds ==
    ASSUME NEW need \in Nat, NEW have \in Nat
    PROVE  /\ Least(need, have) \in Nat
           /\ Least(need, have) <= need
           /\ Least(need, have) <= have
           /\ Least(need, have) < need => Least(need, have) = have
  BY DEF Least

\* Where that leaves a receiver that had b bytes of a block of s bytes, the
\* next one at f, when all up to a have arrived.
LEMMA Taken ==
    ASSUME NEW p \in Nat, NEW h \in Nat, NEW b \in Nat, NEW s \in Nat, NEW f \in Nat,
           NEW a \in Nat, NEW l \in Nat,
           f = p + h + b, b < s, f <= a, l <= s - b, l <= a - f, l < s - b => l = a - f
    PROVE  /\ f + l \in 0..a /\ b + l \in 0..s
           /\ f + l = p + h + (b + l)
           /\ b + l = s => f + l = p + h + s /\ (p + h + s) - s - h = p
           /\ ~(f # a /\ b + l = s) => f + l = a /\ b + l < s
  OBVIOUS

\* One readMessageFromSocket inside the next message to be processed: either
\* the block is full and that message is delivered, or the data has run out.
LEMMA FetchStep ==
    ASSUME FramingInv, pc = "read",
           NEW size \in Nat, NEW from \in Nat,
           Len(processed) < Len(sent),
           size = sent[Len(processed) + 1].size,
           from = sent[Len(processed) + 1].at + Header + blockSize,
           blockSize < size, from <= arrived,
           Fetch(size, from), UNCHANGED <<sent, written, arrived>>
    PROVE  FramingInv' /\ [Channel!Next]_Channel!vars
<1> DEFINE n == Len(processed)
           length == Least(size - blockSize, arrived - from)
           message == sent[n + 1]
<1>1. /\ n \in Nat /\ n + 1 \in DOMAIN sent /\ message \in Message
      /\ blockSize \in Nat /\ arrived \in Nat /\ written \in Nat /\ arrived <= written
      /\ sent \in Seq(Message) /\ processed \in Seq(Message)
      /\ Header \in Nat
  BY HeaderAssumption DEF FramingInv, TypeOK
<1>2. /\ message.at \in Nat /\ message.size \in Nat
      /\ message = [at |-> message.at, size |-> message.size]
  BY <1>1 DEF Message
<1>3. /\ length \in Nat
      /\ length <= size - blockSize
      /\ length <= arrived - from
      /\ length < size - blockSize => length = arrived - from
  <2>1. size - blockSize \in Nat /\ arrived - from \in Nat
    BY <1>1
  <2>2. QED  BY <2>1, LeastBounds
<1>4. /\ nextBlockSize' = size
      /\ consumed' = from + length
      /\ blockSize' = blockSize + length
      /\ IF from # arrived /\ blockSize + length = size
         THEN /\ pc' = "process"
              /\ processed' = Append(processed, [at |-> consumed' - size - Header, size |-> size])
         ELSE pc' = "idle" /\ processed' = processed
  BY DEF Fetch
<1>5. from = message.at + Header + blockSize /\ size = message.size
  OBVIOUS
<1> HIDE DEF length, message
<1>6. /\ from + length \in 0..arrived /\ blockSize + length \in 0..size
      /\ from + length = message.at + Header + (blockSize + length)
      /\ blockSize + length = size =>
            /\ from + length = message.at + Header + size
            /\ (message.at + Header + size) - size - Header = message.at
      /\ ~(from # arrived /\ blockSize + length = size) =>
            from + length = arrived /\ blockSize + length < size
  <2>1. /\ message.at \in Nat /\ Header \in Nat /\ blockSize \in Nat /\ size \in Nat
        /\ from \in Nat /\ arrived \in Nat /\ length \in Nat
    BY <1>1, <1>2, <1>3
  <2>2. from = message.at + Header + blockSize /\ blockSize < size /\ from <= arrived
    BY <1>5
  <2>3. QED  BY ONLY <2>1, <2>2, <1>3, Taken
<1>7. StreamInv'
  BY DEF FramingInv, StreamInv, End
<1>8. CASE from # arrived /\ blockSize + length = size
  <2>1. /\ pc' = "process"
        /\ processed' = Append(processed, [at |-> consumed' - size - Header, size |-> size])
    BY <1>4, <1>8
  <2>2. consumed' = message.at + Header + size
    BY <1>4, <1>6, <1>8
  <2>3. consumed' - size - Header = message.at
    BY <1>6, <1>8, <2>2
  <2>4. processed' = Append(processed, message)
    BY <1>2, <1>5, <2>1, <2>3
  <2>5. /\ processed' \in Seq(Message) /\ Len(processed') = n + 1
        /\ \A i \in DOMAIN processed : processed'[i] = processed[i]
        /\ processed'[n + 1] = message
    BY <1>1, <2>4
  <2>6. TypeOK'
    BY <1>1, <1>4, <1>6, <2>1, <2>5 DEF FramingInv, TypeOK
  <2>7. consumed' = End(message)
    BY <1>5, <2>2 DEF End
  <2>8. Start(Len(processed))' = End(message)
    <3>1. /\ n + 1 = Len(sent) => written = End(message)
          /\ n + 1 < Len(sent) => sent[(n + 1) + 1].at = End(message)
      BY <1>1 DEF message, FramingInv, StreamInv
    <3>2. QED  BY <1>1, <2>5, <3>1 DEF Start
  <2>9. \A i \in DOMAIN processed' : processed'[i] = sent'[i]
    <3>1. \A i \in DOMAIN processed : processed[i] = sent[i]
      BY DEF FramingInv, ReceiverInv
    <3>2. DOMAIN processed' = 1..(n + 1) /\ DOMAIN processed = 1..n
      BY <1>1, <2>5
    <3>3. QED  BY <1>1, <2>5, <3>1, <3>2 DEF message
  <2>10. ReceiverInv'
    <3>1. Len(processed') <= Len(sent')
      BY <1>1, <2>5
    <3>2. nextBlockSize' # 0
      <4>1. nextBlockSize' = size /\ size \in Nat /\ blockSize \in Nat /\ blockSize < size
        BY <1>1, <1>4
      <4>2. QED  BY ONLY <4>1
    <3>3. consumed' = Start(Len(processed))'
      BY <2>7, <2>8
    <3>4. pc' = "process"
      BY <2>1
    <3>5. QED  BY <2>9, <3>1, <3>2, <3>3, <3>4 DEF ReceiverInv
  <2>11. NothingLeftBehind'
    BY <2>1 DEF NothingLeftBehind
  <2>12. Channel!Deliver
    BY <2>4 DEF message, Channel!Deliver
  <2>13. QED
    BY <1>7, <2>6, <2>10, <2>11, <2>12 DEF FramingInv, Channel!Next
<1>9. CASE ~(from # arrived /\ blockSize + length = size)
  <2>1. pc' = "idle" /\ processed' = processed
    BY <1>4, <1>9
  <2>2. consumed' = arrived /\ blockSize' < size
    BY <1>4, <1>6, <1>9
  <2>3. TypeOK'
    BY <1>1, <1>4, <1>6, <2>1 DEF FramingInv, TypeOK
  <2>4. consumed' = message.at + Header + blockSize'
    BY <1>4, <1>6
  <2>5. ReceiverInv'
    <3>1. /\ pc' # "process" /\ size # 0 /\ n < Len(sent)
          /\ \A i \in DOMAIN processed : processed[i] = sent[i]
      BY <2>1, <1>1 DEF FramingInv, ReceiverInv
    <3>2. consumed' = sent'[n + 1].at + Header + blockSize' /\ size = sent'[n + 1].size
      BY <2>4, <1>5 DEF message
    <3>3. QED  BY <1>1, <1>4, <2>1, <2>2, <3>1, <3>2 DEF ReceiverInv
  <2>6. NothingLeftBehind'
    BY <1>1, <2>2, HeaderAssumption DEF NothingLeftBehind, Available
  <2>7. QED
    BY <1>7, <2>1, <2>3, <2>5, <2>6 DEF FramingInv, Channel!vars
<1>10. QED  BY <1>8, <1>9

\* The number read as a header is that of the next message: messages do not
\* overlap, so no other one starts there.
LEMMA HeaderFound ==
    ASSUME FramingInv, Len(processed) < Len(sent),
           consumed = sent[Len(processed) + 1].at
    PROVE  HeadersAt(consumed) = {sent[Len(processed) + 1].size}
<1> DEFINE k == Len(processed) + 1
<1>1. k \in DOMAIN sent /\ sent \in Seq(Message) /\ processed \in Seq(Message)
  BY DEF FramingInv, TypeOK
<1>2. ASSUME NEW i \in DOMAIN sent, sent[i].at = consumed
      PROVE  i = k
  <2>0. \A a \in DOMAIN sent : sent[a].at \in Nat /\ sent[a].size \in Nat
    <3>1. \A a \in DOMAIN sent : sent[a] \in Message
      BY <1>1
    <3>2. QED  BY <3>1 DEF Message
  <2>1. \A a, b \in DOMAIN sent : a < b => End(sent[a]) <= sent[b].at
    BY DEF FramingInv, StreamInv
  <2>2. \A a \in DOMAIN sent : sent[a].at < End(sent[a])
    BY <2>0, HeaderAssumption DEF End
  <2>3. \A a \in DOMAIN sent : sent[a].at \in Nat /\ End(sent[a]) \in Nat
    BY <2>0, HeaderAssumption DEF End
  <2>4. i \in Nat /\ k \in Nat
    BY <1>1
  <2>5. ~(i < k)
    BY <1>1, <1>2, <2>1, <2>2, <2>3
  <2>6. ~(k < i)
    BY <1>1, <1>2, <2>1, <2>2, <2>3
  <2>7. QED  BY <2>4, <2>5, <2>6
<1>3. {j \in DOMAIN sent : sent[j].at = consumed} = {k}
  BY <1>1, <1>2
<1>4. QED  BY <1>1, <1>3 DEF HeadersAt

\* A header lies in what has arrived, so there is a next message.
LEMMA StartBlockStep ==
    ASSUME 0 \notin Sizes, FramingInv, StartBlock
    PROVE  FramingInv' /\ [Channel!Next]_Channel!vars
<1>1. /\ pc = "read" /\ nextBlockSize = 0 /\ arrived - consumed >= Header
      /\ UNCHANGED <<sent, written, arrived>>
  BY DEF StartBlock, Available
<1>2. /\ arrived \in Nat /\ written \in Nat /\ consumed \in Nat /\ arrived <= written
      /\ sent \in Seq(Message) /\ processed \in Seq(Message)
      /\ Header \in Nat /\ Header > 0
  BY HeaderAssumption DEF FramingInv, TypeOK
<1>3. /\ consumed = Start(Len(processed)) /\ Len(processed) <= Len(sent)
      /\ blockSize = 0
  BY <1>1 DEF FramingInv, ReceiverInv
<1>4. Len(processed) < Len(sent) /\ consumed = sent[Len(processed) + 1].at
  BY <1>1, <1>2, <1>3 DEF Start
<1>5. Fetch(sent[Len(processed) + 1].size, consumed + Header)
  BY <1>4, HeaderFound DEF StartBlock
<1>6. Len(processed) + 1 \in DOMAIN sent
  BY <1>2, <1>4
<1>7. sent[Len(processed) + 1].size \in Sizes
  BY <1>6 DEF FramingInv, StreamInv
<1>8. \A s \in Sizes : s \in Nat /\ 0 < s
  BY SizesAssumption
<1>9. QED
  <2> DEFINE size == sent[Len(processed) + 1].size
             from == consumed + Header
  <2>1. size \in Nat /\ 0 < size
    BY <1>7, <1>8
  <2>2. /\ from \in Nat /\ from <= arrived
        /\ from = sent[Len(processed) + 1].at + Header + blockSize
    BY <1>1, <1>2, <1>3, <1>4
  <2>3. blockSize < size
    BY <1>3, <2>1
  <2>4. Fetch(size, from)
    BY <1>5
  <2> HIDE DEF from
  <2>5. QED  BY <1>1, <1>4, <2>1, <2>2, <2>3, <2>4, FetchStep

LEMMA ContinueBlockStep ==
    ASSUME FramingInv, ContinueBlock
    PROVE  FramingInv' /\ [Channel!Next]_Channel!vars
<1>1. /\ pc = "read" /\ nextBlockSize # 0
      /\ Fetch(nextBlockSize, consumed)
      /\ UNCHANGED <<sent, written, arrived>>
  BY DEF ContinueBlock
<1>2. /\ Len(processed) < Len(sent)
      /\ nextBlockSize = sent[Len(processed) + 1].size
      /\ blockSize < nextBlockSize
      /\ consumed = sent[Len(processed) + 1].at + Header + blockSize
  BY <1>1 DEF FramingInv, ReceiverInv
<1>3. nextBlockSize \in Nat /\ consumed \in Nat /\ consumed <= arrived
  BY DEF FramingInv, TypeOK
<1>4. QED
  BY <1>1, <1>2, <1>3, FetchStep

-----------------------------------------------------------------------------

\* Every step keeps the invariant and is a step of the channel, or none.
LEMMA FramingStep ==
    ASSUME 0 \notin Sizes, FramingInv, [Next]_vars
    PROVE  FramingInv' /\ [Channel!Next]_Channel!vars
<1>1. CASE Send
  BY <1>1, SendStep DEF Channel!Next
<1>2. CASE Arrive
  BY <1>2, ArriveStep DEF Arrive, Channel!vars
<1>3. CASE AwaitHeader
  BY <1>3, AwaitHeaderStep DEF AwaitHeader, Channel!vars
<1>4. CASE StartBlock
  BY <1>4, StartBlockStep
<1>5. CASE ContinueBlock
  BY <1>5, ContinueBlockStep
<1>6. CASE FinishBlock
  BY <1>6, FinishBlockStep DEF FinishBlock, Channel!vars
<1>7. CASE UNCHANGED vars
  BY <1>7 DEF vars, FramingInv, TypeOK, StreamInv, ReceiverInv, NothingLeftBehind,
     Start, End, Available, Channel!vars
<1>8. QED
  BY <1>1, <1>2, <1>3, <1>4, <1>5, <1>6, <1>7 DEF Next, ReadyRead

\* When no message is empty, readMessageFromSocket stays in step with the
\* stream.
THEOREM ReceiverInStep ==
    ASSUME 0 \notin Sizes
    PROVE  Spec => []FramingInv
<1>1. Init => FramingInv
  BY InitFramingInv
<1>2. FramingInv /\ [Next]_vars => FramingInv'
  BY FramingStep
<1>3. QED
  BY <1>1, <1>2, PTL DEF Spec

\* Likewise, what it leaves in the socket at rest is at most a piece of a header.
THEOREM AtMostAPieceIsLeft ==
    ASSUME 0 \notin Sizes
    PROVE  Spec => []NothingLeftBehind
<1>1. FramingInv => NothingLeftBehind
  BY DEF FramingInv
<1>2. QED
  BY <1>1, ReceiverInStep, PTL

-----------------------------------------------------------------------------
(* Types, whatever the sizes.                                              *)

\* A block under way has its header before it.
HeaderRead == nextBlockSize # 0 => Header + blockSize <= consumed

LEMMA FetchTyped ==
    ASSUME TypeOK, NEW size \in Nat, NEW from \in Nat, Fetch(size, from),
           Header + blockSize <= from, from <= arrived, blockSize <= size,
           UNCHANGED <<sent, written, arrived>>
    PROVE  TypeOK' /\ HeaderRead'
<1>1. PICK length : length = Least(size - blockSize, arrived - from)
  OBVIOUS
<1>2. /\ blockSize \in Nat /\ arrived \in Nat /\ Header \in Nat /\ written \in Nat
      /\ arrived <= written
  BY HeaderAssumption DEF TypeOK
<1>3. length \in Nat /\ length <= size - blockSize /\ length <= arrived - from
  BY <1>1, <1>2 DEF Least
<1>4. /\ nextBlockSize' = size /\ consumed' = from + length /\ blockSize' = blockSize + length
      /\ \/ pc' = "idle" /\ UNCHANGED processed
         \/ /\ pc' = "process" /\ blockSize + length = size
            /\ processed' = Append(processed, [at |-> consumed' - size - Header, size |-> size])
  BY <1>1 DEF Fetch
<1>5. blockSize + length = size => consumed' - size - Header \in Nat
  BY <1>2, <1>3, <1>4
<1>6. processed' \in Seq(Message)
  <2>1. processed \in Seq(Message)
    BY DEF TypeOK
  <2>2. CASE blockSize + length = size
    <3>1. [at |-> consumed' - size - Header, size |-> size] \in Message
      BY <1>5, <2>2 DEF Message
    <3>2. QED
      BY <1>4, <2>1, <3>1
  <2>3. QED
    BY <1>4, <2>1, <2>2
<1>7. consumed' \in 0..arrived /\ blockSize' \in 0..size /\ Header + blockSize' <= consumed'
  BY <1>2, <1>3, <1>4
<1>8. QED
  BY <1>4, <1>6, <1>7 DEF TypeOK, HeaderRead

LEMMA TypesStep ==
    ASSUME TypeOK, HeaderRead, nextBlockSize = 0 => blockSize = 0, [Next]_vars
    PROVE  TypeOK' /\ HeaderRead'
<1>1. CASE Send
  <2>1. PICK size \in Sizes :
          /\ sent' = Append(sent, [at |-> written, size |-> size])
          /\ written' = written + Header + size
    BY <1>1 DEF Send
  <2>2. size \in Nat /\ Header \in Nat /\ written \in Nat /\ [at |-> written, size |-> size] \in Message
    BY SizesAssumption, HeaderAssumption DEF TypeOK, Message
  <2>3. sent' \in Seq(Message) /\ Len(sent') = Len(sent) + 1 /\ Len(sent) \in Nat
    BY <2>1, <2>2 DEF TypeOK
  <2>4. written' \in Nat /\ written <= written'
    BY <2>1, <2>2
  <2>5. arrived' \in 0..written'
    BY <1>1, <2>2, <2>4 DEF Send, TypeOK
  <2>6. QED
    BY <1>1, <2>3, <2>4, <2>5, MaxMessagesAssumption DEF Send, TypeOK, HeaderRead
<1>2. CASE Arrive
  BY <1>2 DEF Arrive, TypeOK, HeaderRead
<1>3. CASE AwaitHeader
  BY <1>3 DEF AwaitHeader, TypeOK, HeaderRead
<1>4. CASE StartBlock
  <2>1. PICK size \in HeadersAt(consumed) : Fetch(size, consumed + Header)
    BY <1>4 DEF StartBlock
  <2>2. size \in Nat
    <3>1. \A i \in DOMAIN sent : sent[i].size \in Nat
      <4>1. sent \in Seq(Message)
        BY DEF TypeOK
      <4>2. \A i \in DOMAIN sent : sent[i] \in Message
        BY <4>1
      <4>3. QED
        BY <4>2 DEF Message
    <3>2. CASE \E i \in DOMAIN sent : sent[i].at = consumed
      BY <2>1, <3>1, <3>2 DEF HeadersAt
    <3>3. CASE ~\E i \in DOMAIN sent : sent[i].at = consumed
      BY <2>1, <3>3, SizesAssumption DEF HeadersAt
    <3>4. QED
      BY <3>2, <3>3
  <2>3. /\ nextBlockSize = 0 /\ blockSize = 0 /\ arrived - consumed >= Header
        /\ UNCHANGED <<sent, written, arrived>>
    BY <1>4 DEF StartBlock, Available
  <2>4. /\ consumed + Header \in Nat /\ Header + blockSize <= consumed + Header
        /\ consumed + Header <= arrived /\ blockSize <= size
    BY <2>2, <2>3, HeaderAssumption DEF TypeOK
  <2>5. QED
    BY <2>1, <2>2, <2>3, <2>4, FetchTyped
<1>5. CASE ContinueBlock
  <2>1. /\ nextBlockSize # 0 /\ Fetch(nextBlockSize, consumed)
        /\ UNCHANGED <<sent, written, arrived>>
    BY <1>5 DEF ContinueBlock
  <2>2. /\ consumed \in Nat /\ nextBlockSize \in Nat /\ consumed <= arrived
        /\ blockSize <= nextBlockSize /\ Header + blockSize <= consumed
    BY <2>1 DEF TypeOK, HeaderRead
  <2>3. QED
    BY <2>1, <2>2, FetchTyped
<1>6. CASE FinishBlock
  BY <1>6 DEF FinishBlock, TypeOK, HeaderRead
<1>7. CASE UNCHANGED vars
  BY <1>7 DEF vars, TypeOK, HeaderRead
<1>8. QED
  BY <1>1, <1>2, <1>3, <1>4, <1>5, <1>6, <1>7 DEF Next, ReadyRead

\* Whatever the sizes, empty messages included, and whatever readMessageFromSocket
\* takes for a header when it is out of step: it never counts more than has
\* arrived, and m_block never outgrows m_nextBlockSize (type correctness).
THEOREM FramingTyped == Spec => []TypeOK
<1>1. Init => TypeOK /\ HeaderRead
  BY MaxMessagesAssumption DEF Init, TypeOK, HeaderRead
<1>2. TypeOK => (nextBlockSize = 0 => blockSize = 0)
  BY DEF TypeOK
<1>3. TypeOK /\ HeaderRead /\ [Next]_vars => TypeOK' /\ HeaderRead'
  BY <1>2, TypesStep
<1>4. QED
  BY <1>1, <1>3, PTL DEF Spec

-----------------------------------------------------------------------------

\* When no message is empty, the receiver processes the messages that were
\* sent, whole, once and in order.
THEOREM FramingInOrder ==
    ASSUME 0 \notin Sizes
    PROVE  Spec => InOrder
<1>1. Init => FramingInv
  BY InitFramingInv
<1>2. FramingInv /\ [Next]_vars => FramingInv' /\ [Channel!Next]_Channel!vars
  BY FramingStep
<1>3. Init => Channel!Init
  BY DEF Init, Channel!Init
<1>4. QED
  BY <1>1, <1>2, <1>3, PTL DEF Spec, InOrder, Channel!Spec

-----------------------------------------------------------------------------
(* Counting up, and the two functions that are defined that way            *)

\* A set of numbers has a least one.
LEMMA LeastOf ==
  ASSUME NEW T \in SUBSET Nat, T # {}
  PROVE  \E n \in T : \A m \in T : n <= m
PROOF
  <1> DEFINE R == OpToRel(<, Nat)
  <1>1. IsWellFoundedOn(R, Nat)
    BY NatLessThanWellFounded
  <1>2. \A m, n \in Nat : <<m, n>> \in R <=> m < n
    BY DEF OpToRel
  <1> HIDE DEF R
  <1>3. \E n \in T : \A m \in T : ~(<<m, n>> \in R)
    BY <1>1, WFMin
  <1>4. PICK n \in T : \A m \in T : ~(<<m, n>> \in R)
    BY <1>3
  <1>5. \A m \in T : m \in Nat /\ n \in Nat /\ ~(m < n)
    BY <1>2, <1>4
  <1>6. \A m \in T : n <= m
    BY <1>5
  <1> QED  BY <1>4, <1>6

\* A set that holds 0, and with every number the next, holds all of them.
LEMMA Ascending ==
  ASSUME NEW N \in Nat, NEW P, 0 \in P,
         \A n \in 0..N : n < N /\ n \in P => n + 1 \in P
  PROVE  \A n \in 0..N : n \in P
PROOF
  <1> SUFFICES ASSUME NEW bad \in 0..N, bad \notin P
               PROVE  FALSE
    OBVIOUS
  <1> DEFINE T == {n \in 0..N : n \notin P}
  <1>0. T \in SUBSET Nat /\ T # {}
    OBVIOUS
  <1>1. PICK n \in T : \A m \in T : n <= m
    <2> HIDE DEF T
    <2> QED  BY <1>0, LeastOf
  <1>2. n # 0 /\ n \in 1..N
    BY <1>1
  <1>3. n - 1 \in 0..N /\ n - 1 < N /\ n - 1 \notin T /\ (n - 1) + 1 = n
    BY <1>1, <1>2
  <1>4. n - 1 \in P
    BY <1>3
  <1> QED  BY <1>1, <1>3, <1>4

\* Written is a function that satisfies its own definition.
LEMMA WrittenExists ==
  ASSUME NEW args, Len(args) \in Nat
  PROVE  Written(args) = [n \in 0..Len(args) |->
             IF n = 0 THEN <<>>
             ELSE MarshallArgument(args[Len(args) - n + 1]) \o Written(args)[n - 1]]
PROOF
  <1> DEFINE Body(f, n) == IF n = 0 THEN <<>>
                           ELSE MarshallArgument(args[Len(args) - n + 1]) \o f[n - 1]
             P == {n \in 0..Len(args) : \E f : f = [i \in 0..n |-> Body(f, i)]}
  <1>1. 0 \in P
    <2> DEFINE f == [i \in 0..0 |-> <<>>]
    <2>1. \A i \in 0..0 : i = 0
      OBVIOUS
    <2>2. f = [i \in 0..0 |-> Body(f, i)]
      BY <2>1
    <2>3. 0 \in 0..Len(args)
      OBVIOUS
    <2> HIDE DEF f, Body
    <2> QED  BY <2>2, <2>3
  <1>2. ASSUME NEW n \in 0..Len(args), n < Len(args), n \in P
        PROVE  n + 1 \in P
    <2>1. PICK f : f = [i \in 0..n |-> Body(f, i)]
      BY <1>2
    <2> DEFINE g == [i \in 0..(n + 1) |-> Body(f, i)]
    <2>2. \A i \in 0..n : g[i] = f[i]
      <3>1. \A i \in 0..n : g[i] = Body(f, i)
        OBVIOUS
      <3>2. \A i \in 0..n : f[i] = Body(f, i)
        BY <2>1
      <3> QED  BY <3>1, <3>2
    <2>3. \A i \in 0..(n + 1) : Body(g, i) = Body(f, i)
      <3> SUFFICES ASSUME NEW i \in 0..(n + 1)
                   PROVE  Body(g, i) = Body(f, i)
        OBVIOUS
      <3>1. CASE i = 0
        BY <3>1
      <3>2. CASE i # 0
        <4>1. i - 1 \in 0..n
          BY <3>2
        <4>2. g[i - 1] = f[i - 1]
          BY <4>1, <2>2
        <4> HIDE DEF g
        <4> QED  BY <4>2, <3>2
      <3> QED  BY <3>1, <3>2
    <2>4. g = [i \in 0..(n + 1) |-> Body(g, i)]
      <3> HIDE DEF Body
      <3> QED  BY <2>3
    <2>5. n + 1 \in 0..Len(args)
      BY <1>2
    <2> HIDE DEF g, Body
    <2> QED  BY <2>4, <2>5
  <1>3. Len(args) \in P
    <2> HIDE DEF P
    <2>1. PICK N \in Nat : N = Len(args)
      OBVIOUS
    <2>2. \A n \in 0..N : n < N /\ n \in P => n + 1 \in P
      BY <1>2, <2>1
    <2>3. \A n \in 0..N : n \in P
      BY <1>1, <2>2, Ascending
    <2> QED  BY <2>1, <2>3
  <1>4. \E f : f = [i \in 0..Len(args) |-> Body(f, i)]
    BY <1>3
  <1> QED  BY <1>4 DEF Written

\* So is Read.
LEMMA ReadExists ==
  ASSUME NEW s, NEW argc \in Nat, NEW types
  PROVE  Read(s, argc, types) = [n \in 0..argc |->
             IF n = 0 THEN [ok |-> TRUE, rest |-> s, arguments |-> <<>>]
             ELSE NextArgument(Read(s, argc, types)[n - 1], types)]
PROOF
  <1> DEFINE Body(f, n) == IF n = 0 THEN [ok |-> TRUE, rest |-> s, arguments |-> <<>>]
                           ELSE NextArgument(f[n - 1], types)
             P == {n \in 0..argc : \E f : f = [i \in 0..n |-> Body(f, i)]}
  <1>1. 0 \in P
    <2> DEFINE f == [i \in 0..0 |-> [ok |-> TRUE, rest |-> s, arguments |-> <<>>]]
    <2>1. \A i \in 0..0 : i = 0
      OBVIOUS
    <2>2. f = [i \in 0..0 |-> Body(f, i)]
      BY <2>1
    <2>3. 0 \in 0..argc
      OBVIOUS
    <2> HIDE DEF f, Body
    <2> QED  BY <2>2, <2>3
  <1>2. ASSUME NEW n \in 0..argc, n < argc, n \in P
        PROVE  n + 1 \in P
    <2>1. PICK f : f = [i \in 0..n |-> Body(f, i)]
      BY <1>2
    <2> DEFINE g == [i \in 0..(n + 1) |-> Body(f, i)]
    <2>2. \A i \in 0..n : g[i] = f[i]
      <3>1. \A i \in 0..n : g[i] = Body(f, i)
        OBVIOUS
      <3>2. \A i \in 0..n : f[i] = Body(f, i)
        BY <2>1
      <3> QED  BY <3>1, <3>2
    <2>3. \A i \in 0..(n + 1) : Body(g, i) = Body(f, i)
      <3> SUFFICES ASSUME NEW i \in 0..(n + 1)
                   PROVE  Body(g, i) = Body(f, i)
        OBVIOUS
      <3>1. CASE i = 0
        BY <3>1
      <3>2. CASE i # 0
        <4>1. i - 1 \in 0..n
          BY <3>2
        <4>2. g[i - 1] = f[i - 1]
          BY <4>1, <2>2
        <4> HIDE DEF g
        <4> QED  BY <4>2, <3>2
      <3> QED  BY <3>1, <3>2
    <2>4. g = [i \in 0..(n + 1) |-> Body(g, i)]
      <3> HIDE DEF Body
      <3> QED  BY <2>3
    <2>5. n + 1 \in 0..argc
      BY <1>2
    <2> HIDE DEF g, Body
    <2> QED  BY <2>4, <2>5
  <1>3. argc \in P
    <2> HIDE DEF P
    <2> QED  BY <1>1, <1>2, Ascending
  <1>4. \E f : f = [i \in 0..argc |-> Body(f, i)]
    BY <1>3
  <1> QED  BY <1>4 DEF Read

-----------------------------------------------------------------------------
(* What is written of an argument                                          *)

\* What a stream consists of.
Items == Types \cup {""} \cup {m.name : m \in Methods} \cup {"call", "response", "error"}
         \cup Nat \cup Values \cup Images \cup {MarshallQImage(image) : image \in Images}

\* Bounded sequences are sequences, and the other way round.
LEMMA BoundedIsSeq ==
  ASSUME NEW S, NEW n \in Nat, NEW s \in BoundedSeq(S, n)
  PROVE  s \in Seq(S) /\ Len(s) \in 0..n
PROOF
  <1>1. PICK m \in 0..n : s \in [1..m -> S]
    BY DEF BoundedSeq, SeqOf
  <1> QED  BY <1>1

LEMMA SeqIsBounded ==
  ASSUME NEW S, NEW n \in Nat, NEW s \in Seq(S), Len(s) <= n
  PROVE  s \in BoundedSeq(S, n)
PROOF
  <1>1. Len(s) \in 0..n /\ s \in [1..Len(s) -> S]
    BY LenProperties
  <1> QED  BY <1>1 DEF BoundedSeq, SeqOf

\* An argument is a type and a value of it.
LEMMA ArgumentIs ==
  ASSUME NEW arg \in Argument
  PROVE  /\ arg.name \in Types
         /\ arg.data \in Data(arg.name)
         /\ arg = [name |-> arg.name, data |-> arg.data]
PROOF
  <1>1. PICK t \in Types : arg \in [name : {t}, data : Data(t)]
    BY DEF Argument
  <1>2. arg.name = t /\ arg.data \in Data(t) /\ arg = [name |-> arg.name, data |-> arg.data]
    BY <1>1
  <1> QED  BY <1>2

LEMMA IsArgument ==
  ASSUME NEW t \in Types, NEW d \in Data(t)
  PROVE  [name |-> t, data |-> d] \in Argument
PROOF
  <1>1. [name |-> t, data |-> d] \in [name : {t}, data : Data(t)]
    OBVIOUS
  <1> QED  BY <1>1 DEF Argument

\* The three ways to be an argument.
LEMMA ArgumentKinds ==
  ASSUME NEW arg \in Argument
  PROVE  \/ arg.name = "QImage" /\ arg.data \in Images /\ MarshallArgument(arg) = MarshallQImage(arg.data)
         \/ /\ arg.name = "QList<QImage>"
            /\ arg.data \in Seq(Images) /\ Len(arg.data) \in 0..MaxImages
            /\ MarshallArgument(arg) = MarshallContainerOfQImages(arg.data)
         \/ /\ arg.name \in Plain /\ arg.name \notin {"QImage", "QList<QImage>"}
            /\ arg.data \in Values
            /\ MarshallArgument(arg) = <<arg.name, arg.data>>
PROOF
  <1>1. arg.name \in Types /\ arg.data \in Data(arg.name)
    BY ArgumentIs
  <1>2. CASE arg.name = "QImage"
    BY <1>1, <1>2 DEF Data, MarshallArgument
  <1>3. CASE arg.name = "QList<QImage>"
    <2>1. arg.data \in BoundedSeq(Images, MaxImages)
      BY <1>1, <1>3 DEF Data
    <2>2. arg.data \in Seq(Images) /\ Len(arg.data) \in 0..MaxImages
      BY <2>1, BoundedIsSeq, BoundsAssumption
    <2> QED  BY <1>3, <2>2 DEF MarshallArgument
  <1>4. CASE arg.name \notin {"QImage", "QList<QImage>"}
    <2>1. arg.name \in Plain
      BY <1>1, <1>4 DEF Types
    <2> QED  BY <1>1, <1>4, <2>1 DEF Data, MarshallArgument
  <1> QED  BY <1>2, <1>3, <1>4

\* Where the items are of two sequences in one.
LEMMA Joined ==
  ASSUME NEW S, NEW h \in Seq(S), NEW q \in Seq(S), NEW m \in Nat, NEW n \in Nat,
         Len(h) = m, Len(q) = n
  PROVE  /\ h \o q \in Seq(S) /\ Len(h \o q) = m + n
         /\ \A i \in 1..m : (h \o q)[i] = h[i]
         /\ \A i \in 1..n : (h \o q)[m + i] = q[i]
PROOF
  <1> DEFINE s == h \o q
  <1>1. s \in Seq(S) /\ Len(s) = m + n
    BY ConcatProperties
  <1>2. \A i \in 1..Len(h) + Len(q) : s[i] = IF i <= Len(h) THEN h[i] ELSE q[i - Len(h)]
    BY ConcatProperties
  <1> HIDE DEF s
  <1>3. \A i \in 1..m + n : s[i] = IF i <= m THEN h[i] ELSE q[i - m]
    BY <1>2
  <1>4. ASSUME NEW i \in 1..m
        PROVE  s[i] = h[i]
    BY <1>3
  <1>5. ASSUME NEW i \in 1..n
        PROVE  s[m + i] = q[i]
    <2>1. m + i \in 1..m + n /\ ~(m + i <= m) /\ (m + i) - m = i
      OBVIOUS
    <2> QED  BY <1>3, <2>1
  <1> QED  BY <1>1, <1>4, <1>5 DEF s

LEMMA JoinedTail ==
  ASSUME NEW S, NEW h \in Seq(S), NEW q \in Seq(S)
  PROVE  \A i \in 1..Len(q) : (h \o q)[Len(h) + i] = q[i]
PROOF
  <1>1. PICK m \in Nat, n \in Nat : Len(h) = m /\ Len(q) = n
    BY LenProperties
  <1>2. \A i \in 1..n : (h \o q)[m + i] = q[i]
    BY <1>1, Joined
  <1> QED  BY <1>1, <1>2

\* What is written of a container: its type, how many, and each image with its type.
LEMMA ContainerWritten ==
  ASSUME NEW images \in Seq(Images)
  PROVE  LET s == MarshallContainerOfQImages(images) IN
         /\ s \in Seq(Items) /\ Len(s) = 2 + Len(images)
         /\ s[1] = "QList<QImage>" /\ s[2] = Len(images)
         /\ \A i \in 1..Len(images) : s[2 + i] = MarshallQImage(images[i])
PROOF
  <1> DEFINE Q == [i \in DOMAIN images |-> MarshallQImage(images[i])]
             h == <<"QList<QImage>", Len(images)>>
  <1>1. \A i \in 1..Len(images) : images[i] \in Images /\ MarshallQImage(images[i]) \in Items
    BY ElementOfSeq DEF Items
  <1>2. Q \in Seq(Items) /\ Len(Q) = Len(images) /\ \A i \in 1..Len(images) : Q[i] = MarshallQImage(images[i])
    <2> HIDE DEF Items
    <2>1. Q \in [1..Len(images) -> Items]
      BY <1>1, LenProperties
    <2>2. Len(images) \in Nat /\ DOMAIN images = 1..Len(images)
      BY LenProperties
    <2> QED  BY <2>1, <2>2
  <1>3. h \in Seq(Items) /\ Len(h) = 2 /\ h[1] = "QList<QImage>" /\ h[2] = Len(images)
    <2>1. "QList<QImage>" \in Items /\ Len(images) \in Items
      BY LenProperties DEF Items, Types
    <2> QED  BY <2>1
  <1>4. MarshallContainerOfQImages(images) = h \o Q
    BY DEF MarshallContainerOfQImages
  <1> HIDE DEF h, Q
  <1>5. PICK n \in Nat : n = Len(images)
    BY LenProperties
  <1>6. /\ h \o Q \in Seq(Items) /\ Len(h \o Q) = 2 + n
        /\ \A i \in 1..2 : (h \o Q)[i] = h[i]
        /\ \A i \in 1..n : (h \o Q)[2 + i] = Q[i]
    <2> HIDE DEF Items
    <2>1. PICK m \in Nat : m = 2
      OBVIOUS
    <2>2. /\ h \o Q \in Seq(Items) /\ Len(h \o Q) = m + n
          /\ \A i \in 1..m : (h \o Q)[i] = h[i]
          /\ \A i \in 1..n : (h \o Q)[m + i] = Q[i]
      <3>1. h \in Seq(Items) /\ Len(h) = m /\ Q \in Seq(Items) /\ Len(Q) = n
        BY <1>2, <1>3, <1>5, <2>1
      <3>2. h \o Q \in Seq(Items) /\ Len(h \o Q) = m + n
        BY <3>1, Joined
      <3>3. \A i \in 1..m : (h \o Q)[i] = h[i]
        BY <3>1, Joined
      <3>4. \A i \in 1..n : (h \o Q)[m + i] = Q[i]
        <4>1. \A i \in 1..Len(Q) : (h \o Q)[Len(h) + i] = Q[i]
          BY <3>1, JoinedTail
        <4> QED  BY <3>1, <4>1
      <3> QED  BY <3>2, <3>3, <3>4
    <2> QED  BY <2>1, <2>2
  <1>7. (h \o Q)[1] = h[1] /\ (h \o Q)[2] = h[2]
    BY <1>6
  <1>8. \A i \in 1..Len(images) : (h \o Q)[2 + i] = MarshallQImage(images[i])
    BY <1>2, <1>5, <1>6
  <1> HIDE DEF Items
  <1> QED  BY <1>3, <1>4, <1>5, <1>6, <1>7, <1>8

\* Whatever is written of an argument begins with its type.
LEMMA ArgumentWritten ==
  ASSUME NEW arg \in Argument
  PROVE  /\ MarshallArgument(arg) \in Seq(Items)
         /\ Len(MarshallArgument(arg)) \in Nat \ {0, 1}
         /\ MarshallArgument(arg)[1] = arg.name
PROOF
  <1>1. CASE arg.name = "QImage" /\ arg.data \in Images /\ MarshallArgument(arg) = MarshallQImage(arg.data)
    <2>1. "QImage" \in Items /\ arg.data \in Items
      BY <1>1 DEF Items, Types
    <2> QED  BY <1>1, <2>1 DEF MarshallQImage
  <1>2. CASE /\ arg.name = "QList<QImage>"
             /\ arg.data \in Seq(Images) /\ Len(arg.data) \in 0..MaxImages
             /\ MarshallArgument(arg) = MarshallContainerOfQImages(arg.data)
    <2>1. PICK n \in Nat : n = Len(arg.data)
      BY <1>2, BoundsAssumption
    <2> QED  BY <1>2, <2>1, ContainerWritten
  <1>3. CASE /\ arg.name \in Plain /\ arg.name \notin {"QImage", "QList<QImage>"}
             /\ arg.data \in Values
             /\ MarshallArgument(arg) = <<arg.name, arg.data>>
    <2>1. arg.name \in Items /\ arg.data \in Items
      BY <1>3 DEF Items, Types
    <2> QED  BY <1>3, <2>1
  <1> QED  BY <1>1, <1>2, <1>3, ArgumentKinds

\* An argument in front of the rest of a stream is read back, and the rest left.
LEMMA ReadBackPair ==
  ASSUME NEW name \in Items, NEW data \in Items, NEW rest \in Seq(Items)
  PROVE  LET s == <<name, data>> \o rest IN
         Head(s) = name /\ Head(Tail(s)) = data /\ Tail(Tail(s)) = rest
PROOF
  <1> DEFINE h == <<name, data>>
  <1>1. h \in Seq(Items) /\ Len(h) = 2 /\ h[1] = name /\ h[2] = data
    OBVIOUS
  <1> HIDE DEF h, Items
  <1>2. PICK n \in Nat : n = Len(rest)
    BY LenProperties
  <1> DEFINE s == h \o rest
  <1>3. /\ s \in Seq(Items) /\ Len(s) = 2 + n
        /\ \A i \in 1..2 : s[i] = h[i]
        /\ \A i \in 1..n : s[2 + i] = rest[i]
    <2>1. PICK m \in Nat : m = 2
      OBVIOUS
    <2>2. /\ s \in Seq(Items) /\ Len(s) = m + n
          /\ \A i \in 1..m : s[i] = h[i]
          /\ \A i \in 1..n : s[m + i] = rest[i]
      <3>1. h \in Seq(Items) /\ Len(h) = m /\ Len(rest) = n
        BY <1>1, <1>2, <2>1
      <3> HIDE DEF Items
      <3> QED  BY <3>1, Joined
    <2> QED  BY <2>1, <2>2
  <1> HIDE DEF s
  <1>4. s # <<>>
    BY <1>2, <1>3, EmptySeq
  <1>5. Head(s) = s[1] /\ s[1] = name
    BY <1>1, <1>2, <1>3, <1>4, HeadTailProperties
  <1> DEFINE t == Tail(s)
  <1>6. t \in Seq(Items) /\ Len(t) = 1 + n /\ \A i \in 1..1 + n : t[i] = s[i + 1]
    BY <1>2, <1>3, <1>4, HeadTailProperties
  <1> HIDE DEF t
  <1>7. t # <<>>
    BY <1>2, <1>6, EmptySeq
  <1>8. Head(t) = t[1] /\ t[1] = s[2] /\ s[2] = data
    BY <1>1, <1>2, <1>3, <1>6, <1>7, HeadTailProperties
  <1>9. Tail(t) \in Seq(Items) /\ Len(Tail(t)) = n /\ \A i \in 1..n : Tail(t)[i] = t[i + 1]
    BY <1>2, <1>6, <1>7, HeadTailProperties
  <1>10. \A i \in 1..n : Tail(t)[i] = rest[i]
    <2> SUFFICES ASSUME NEW i \in 1..n
                 PROVE  Tail(t)[i] = rest[i]
      OBVIOUS
    <2>1. i + 1 \in 1..1 + n /\ (i + 1) + 1 = 2 + i
      BY <1>2
    <2>2. Tail(t)[i] = t[i + 1] /\ t[i + 1] = s[(i + 1) + 1] /\ s[2 + i] = rest[i]
      BY <1>3, <1>6, <1>9, <2>1
    <2> QED  BY <2>1, <2>2
  <1>11. Tail(t) = rest
    BY <1>2, <1>9, <1>10, SeqEqual
  <1> QED  BY <1>5, <1>8, <1>11 DEF s, t, h

-----------------------------------------------------------------------------
(* What is read back of it                                                 *)

\* Every image of a container is read back, and what follows is left.
LEMMA ReadBackContainer ==
  ASSUME NEW images \in Seq(Images), NEW rest \in Seq(Items)
  PROVE  LET s == MarshallContainerOfQImages(images) \o rest IN
         Head(s) = "QList<QImage>" /\ LoadContainerOfQImages(Tail(s)) = Loaded(images, rest)
PROOF
  <1> DEFINE h == MarshallContainerOfQImages(images)
  <1>1. PICK n \in Nat : n = Len(images)
    BY LenProperties
  <1>2. /\ h \in Seq(Items) /\ Len(h) = 2 + n /\ h[1] = "QList<QImage>" /\ h[2] = n
        /\ \A i \in 1..n : h[2 + i] = MarshallQImage(images[i])
    <2> HIDE DEF Items
    <2> QED  BY <1>1, ContainerWritten
  <1> HIDE DEF h, Items
  <1>3. PICK r \in Nat : r = Len(rest)
    BY LenProperties
  <1> DEFINE s == h \o rest
  <1>a. h \in Seq(Items) /\ Len(h) = 2 + n /\ 2 + n \in Nat /\ Len(rest) = r
    BY <1>2, <1>3
  <1>4. s \in Seq(Items) /\ Len(s) = (2 + n) + r
    BY <1>a, Joined
  <1>5. \A i \in 1..2 + n : s[i] = h[i]
    BY <1>a, Joined
  <1>6. \A i \in 1..r : s[(2 + n) + i] = rest[i]
    <2>1. \A i \in 1..Len(rest) : s[Len(h) + i] = rest[i]
      BY <1>2, JoinedTail
    <2> QED  BY <1>2, <1>3, <2>1
  <1> HIDE DEF s
  <1>7. s # <<>>
    BY <1>4, EmptySeq
  <1>8. Head(s) = "QList<QImage>"
    <2>1. Head(s) = s[1]
      BY <1>4, <1>7, HeadTailProperties
    <2>2. s[1] = h[1]
      BY <1>5
    <2> QED  BY <1>2, <2>1, <2>2
  <1> DEFINE t == Tail(s)
  <1>9. t \in Seq(Items) /\ Len(t) = (1 + n) + r /\ \A i \in 1..(1 + n) + r : t[i] = s[i + 1]
    BY <1>4, <1>7, HeadTailProperties
  <1> HIDE DEF t
  <1>10. t # <<>>
    BY <1>9, EmptySeq
  <1>11. Head(t) = n
    <2>1. Head(t) = t[1]
      BY <1>9, <1>10, HeadTailProperties
    <2>2. t[1] = s[2]
      BY <1>9
    <2>3. s[2] = h[2]
      BY <1>5
    <2> QED  BY <1>2, <2>1, <2>2, <2>3
  <1>12. \A i \in 1..n : t[1 + i] = MarshallQImage(images[i])
    <2> SUFFICES ASSUME NEW i \in 1..n
                 PROVE  t[1 + i] = MarshallQImage(images[i])
      OBVIOUS
    <2>1. t[1 + i] = s[(1 + i) + 1] /\ (1 + i) + 1 = 2 + i
      BY <1>9
    <2>2. s[2 + i] = h[2 + i]
      BY <1>5
    <2> QED  BY <1>2, <2>1, <2>2
  <1> DEFINE box == SubSeq(t, 2, 1 + n)
  <1>13. box \in Seq(Items) /\ Len(box) = n /\ \A i \in 1..n : box[i] = MarshallQImage(images[i])
    <2>1. \A i \in 2..1 + n : t[i] \in Items
      BY <1>9, ElementOfSeq
    <2>2. /\ box \in Seq(Items)
          /\ Len(box) = IF 2 <= 1 + n THEN (1 + n) - 2 + 1 ELSE 0
          /\ \A i \in 1..(1 + n) - 2 + 1 : box[i] = t[2 + i - 1]
      BY <2>1, SubSeqProperties
    <2>3. \A i \in 1..n : box[i] = t[1 + i]
      <3>1. (1 + n) - 2 + 1 = n /\ \A i \in 1..n : 2 + i - 1 = 1 + i
        OBVIOUS
      <3> QED  BY <2>2, <3>1
    <2> QED  BY <1>12, <2>2, <2>3
  <1> HIDE DEF box
  <1>14. \A i \in 1..n : box[i][1] = "QImage" /\ Len(box[i]) = 2 /\ box[i][2] = images[i]
    <2>1. \A x : <<"QImage", x>>[1] = "QImage" /\ Len(<<"QImage", x>>) = 2 /\ <<"QImage", x>>[2] = x
      OBVIOUS
    <2>2. \A i \in 1..n : box[i] = <<"QImage", images[i]>>
      BY <1>13 DEF MarshallQImage
    <2> SUFFICES ASSUME NEW i \in 1..n
                 PROVE  box[i][1] = "QImage" /\ Len(box[i]) = 2 /\ box[i][2] = images[i]
      OBVIOUS
    <2>3. PICK x : x = images[i]
      OBVIOUS
    <2>4. box[i] = <<"QImage", x>>
      BY <2>2, <2>3
    <2> QED  BY <2>1, <2>3, <2>4
  <1>15. DOMAIN box = 1..n
    BY <1>13, LenProperties
  <1>16. [i \in DOMAIN box |-> box[i][2]] = images
    <2>1. images \in [1..n -> Images]
      BY <1>1, LenProperties
    <2> QED  BY <1>14, <1>15, <2>1
  <1> DEFINE left == SubSeq(t, 2 + n, (1 + n) + r)
  <1>17. left = rest
    <2>1. \A i \in 2 + n..(1 + n) + r : t[i] \in Items
      BY <1>9, ElementOfSeq
    <2>2. /\ left \in Seq(Items)
          /\ Len(left) = IF 2 + n <= (1 + n) + r THEN ((1 + n) + r) - (2 + n) + 1 ELSE 0
          /\ \A i \in 1..((1 + n) + r) - (2 + n) + 1 : left[i] = t[(2 + n) + i - 1]
      BY <2>1, SubSeqProperties
    <2>3. Len(left) = r
      BY <2>2
    <2>4. ASSUME NEW i \in 1..r
          PROVE  left[i] = rest[i]
      <3>1. i \in 1..((1 + n) + r) - (2 + n) + 1 /\ (2 + n) + i - 1 = (1 + n) + i
        OBVIOUS
      <3>2. left[i] = t[(1 + n) + i]
        BY <2>2, <3>1
      <3>3. (1 + n) + i \in 1..(1 + n) + r /\ ((1 + n) + i) + 1 = (2 + n) + i
        OBVIOUS
      <3>4. t[(1 + n) + i] = s[(2 + n) + i]
        BY <1>9, <3>3
      <3> QED  BY <1>6, <3>2, <3>4
    <2> HIDE DEF left
    <2> QED  BY <1>3, <2>2, <2>3, <2>4, SeqEqual
  <1>18. LoadContainerOfQImages(t) = Loaded(images, rest)
    <2>1. LoadContainerOfQImages(t) =
            IF \A i \in DOMAIN box : box[i][1] = "QImage" /\ Len(box[i]) = 2
            THEN Loaded([i \in DOMAIN box |-> box[i][2]], left) ELSE Failed
      BY <1>9, <1>11 DEF LoadContainerOfQImages, box
    <2> HIDE DEF left
    <2> QED  BY <1>14, <1>15, <1>16, <1>17, <2>1
  <1> QED  BY <1>8, <1>18 DEF s, t, h

\* What DemarshallArgument makes of an argument that is well written.
LEMMA ReadBack ==
  ASSUME NEW arg \in Argument, NEW rest \in Seq(Items), NEW types
  PROVE  LET s == MarshallArgument(arg) \o rest IN
         /\ Head(s) = arg.name
         /\ arg.name \notin types => DemarshallArgument(s, types) = Failed
         /\ Marshallable(arg, types) => DemarshallArgument(s, types) = Loaded(arg.data, rest)
PROOF
  <1> DEFINE s == MarshallArgument(arg) \o rest
  <1>0. \A x, y \in Items : \A q \in Seq(Items) :
            Head(<<x, y>> \o q) = x /\ Head(Tail(<<x, y>> \o q)) = y /\ Tail(Tail(<<x, y>> \o q)) = q
    <2> HIDE DEF Items
    <2> QED  BY ReadBackPair
  <1>1. CASE arg.name = "QImage" /\ arg.data \in Images /\ MarshallArgument(arg) = MarshallQImage(arg.data)
    <2>1. arg.name \in Items /\ arg.data \in Items /\ s = <<arg.name, arg.data>> \o rest
      BY <1>1 DEF Items, Types, MarshallQImage
    <2> HIDE DEF Items, s
    <2>2. Head(s) = arg.name /\ Head(Tail(s)) = arg.data /\ Tail(Tail(s)) = rest
      BY <1>0, <2>1
    <2>3. Load(arg.name, Tail(s)) = Loaded(arg.data, rest)
      BY <1>1, <2>2 DEF Load
    <2> QED  BY <2>2, <2>3 DEF DemarshallArgument, Marshallable, s
  <1>2. CASE /\ arg.name = "QList<QImage>"
             /\ arg.data \in Seq(Images) /\ Len(arg.data) \in 0..MaxImages
             /\ MarshallArgument(arg) = MarshallContainerOfQImages(arg.data)
    <2>1. Head(s) = arg.name /\ LoadContainerOfQImages(Tail(s)) = Loaded(arg.data, rest)
      <3> HIDE DEF Items
      <3> QED  BY <1>2, ReadBackContainer
    <2> HIDE DEF s
    <2>2. Load(arg.name, Tail(s)) = Loaded(arg.data, rest)
      <3>1. "QList<QImage>" \notin Streamable \cup {"QImage"}
        BY TypesAssumption
      <3>2. Load("QList<QImage>", Tail(s)) = LoadContainerOfQImages(Tail(s))
        BY <3>1 DEF Load
      <3> QED  BY <1>2, <2>1, <3>2
    <2> QED  BY <2>1, <2>2 DEF DemarshallArgument, Marshallable, s
  <1>3. CASE /\ arg.name \in Plain /\ arg.name \notin {"QImage", "QList<QImage>"}
             /\ arg.data \in Values
             /\ MarshallArgument(arg) = <<arg.name, arg.data>>
    <2>1. arg.name \in Items /\ arg.data \in Items /\ s = <<arg.name, arg.data>> \o rest
      BY <1>3 DEF Items, Types
    <2> HIDE DEF Items, s
    <2>2. Head(s) = arg.name /\ Head(Tail(s)) = arg.data /\ Tail(Tail(s)) = rest
      BY <1>0, <2>1
    <2>3. arg.name \in Streamable => Load(arg.name, Tail(s)) = Loaded(arg.data, rest)
      BY <1>3, <2>2 DEF Load
    <2>4. Marshallable(arg, types) => arg.name \in types /\ arg.name \in Streamable
      BY <1>3 DEF Marshallable
    <2> QED  BY <2>2, <2>3, <2>4 DEF DemarshallArgument, s
  <1> QED  BY <1>1, <1>2, <1>3, ArgumentKinds

-----------------------------------------------------------------------------
(* What is read back of all of them                                        *)

\* The four items that a message begins with.
LEMMA FirstItemsRead ==
  ASSUME NEW a \in Items, NEW b \in Items, NEW c \in Items, NEW d \in Items,
         NEW rest \in Seq(Items)
  PROVE  LET s == <<a, b, c, d>> \o rest IN
         /\ s \in Seq(Items) /\ s # <<>>
         /\ s[1] = a /\ s[2] = b /\ s[3] = c /\ s[4] = d
         /\ SubSeq(s, 5, Len(s)) = rest
         /\ rest # <<>> => s[5] = rest[1]
PROOF
  <1> DEFINE h == <<a, b, c, d>>
  <1>1. h \in Seq(Items) /\ Len(h) = 4 /\ h[1] = a /\ h[2] = b /\ h[3] = c /\ h[4] = d
    BY SMT
  <1> HIDE DEF h, Items
  <1>2. PICK r \in Nat : r = Len(rest)
    BY LenProperties
  <1>3. PICK m \in Nat : m = 4
    OBVIOUS
  <1>a. h \in Seq(Items) /\ Len(h) = m /\ Len(rest) = r
    BY <1>1, <1>2, <1>3
  <1> DEFINE s == h \o rest
  <1>4. s \in Seq(Items) /\ Len(s) = m + r
    BY <1>a, Joined
  <1>5. \A i \in 1..m : s[i] = h[i]
    BY <1>a, Joined
  <1>6. \A i \in 1..r : s[m + i] = rest[i]
    <2>1. \A i \in 1..Len(rest) : s[Len(h) + i] = rest[i]
      BY <1>a, JoinedTail
    <2> QED  BY <1>a, <2>1
  <1> HIDE DEF s
  <1>7. s # <<>>
    BY <1>3, <1>4, EmptySeq
  <1>8. s[1] = a /\ s[2] = b /\ s[3] = c /\ s[4] = d
    BY <1>1, <1>3, <1>5
  <1> DEFINE left == SubSeq(s, m + 1, m + r)
  <1>9. left = rest
    <2>1. \A i \in m + 1..m + r : s[i] \in Items
      <3>1. \A i \in 1..m + r : s[i] \in Items
        BY <1>4, ElementOfSeq
      <3> QED  BY <3>1
    <2>2. /\ left \in Seq(Items)
          /\ Len(left) = IF m + 1 <= m + r THEN (m + r) - (m + 1) + 1 ELSE 0
          /\ \A i \in 1..(m + r) - (m + 1) + 1 : left[i] = s[(m + 1) + i - 1]
      BY <2>1, SubSeqProperties
    <2>3. Len(left) = r
      BY <2>2
    <2>4. ASSUME NEW i \in 1..r
          PROVE  left[i] = rest[i]
      <3>1. i \in 1..(m + r) - (m + 1) + 1 /\ (m + 1) + i - 1 = m + i
        OBVIOUS
      <3> QED  BY <1>6, <2>2, <3>1
    <2> HIDE DEF left
    <2> QED  BY <1>2, <2>2, <2>3, <2>4, SeqEqual
  <1>10. SubSeq(s, 5, Len(s)) = rest
    BY <1>3, <1>4, <1>9
  <1>11. rest # <<>> => s[5] = rest[1]
    <2> SUFFICES ASSUME rest # <<>>
                 PROVE  s[5] = rest[1]
      OBVIOUS
    <2>1. 1 \in 1..r
      BY <1>2, EmptySeq
    <2>2. s[m + 1] = rest[1]
      BY <1>6, <2>1
    <2> QED  BY <1>3, <2>2
  <1> QED  BY <1>4, <1>7, <1>8, <1>10, <1>11 DEF s, h

\* What is written of the last arguments is one argument and the ones behind it.
LEMMA WrittenIs ==
  ASSUME NEW args \in Seq(Argument)
  PROVE  /\ Written(args)[0] = <<>>
         /\ \A n \in 1..Len(args) :
               Written(args)[n] = MarshallArgument(args[Len(args) - n + 1]) \o Written(args)[n - 1]
         /\ \A n \in 0..Len(args) : Written(args)[n] \in Seq(Items)
PROOF
  <1> DEFINE W == Written(args)
  <1>0. PICK N \in Nat : N = Len(args)
    BY LenProperties
  <1>1. W = [n \in 0..N |-> IF n = 0 THEN <<>>
                            ELSE MarshallArgument(args[N - n + 1]) \o W[n - 1]]
    BY <1>0, WrittenExists
  <1> HIDE DEF W, Items
  <1>2. W[0] = <<>>
    BY <1>1
  <1>3. \A n \in 1..N : W[n] = MarshallArgument(args[N - n + 1]) \o W[n - 1]
    <2> SUFFICES ASSUME NEW n \in 1..N
                 PROVE  W[n] = MarshallArgument(args[N - n + 1]) \o W[n - 1]
      OBVIOUS
    <2>1. n \in 0..N /\ n # 0
      OBVIOUS
    <2> DEFINE F(k) == IF k = 0 THEN <<>> ELSE MarshallArgument(args[N - k + 1]) \o W[k - 1]
    <2>2. W = [k \in 0..N |-> F(k)]
      BY <1>1
    <2>3. F(n) = MarshallArgument(args[N - n + 1]) \o W[n - 1]
      BY <2>1
    <2> HIDE DEF F
    <2>4. W[n] = F(n)
      BY <2>1, <2>2
    <2> QED  BY <2>3, <2>4
  <1> DEFINE P == {n \in 0..N : W[n] \in Seq(Items)}
  <1>4. 0 \in P
    <2>1. W[0] \in Seq(Items)
      BY <1>2, EmptySeq
    <2> QED  BY <2>1
  <1>5. ASSUME NEW n \in 0..N, n < N, n \in P
        PROVE  n + 1 \in P
    <2> DEFINE arg == args[N - (n + 1) + 1]
    <2>1. n + 1 \in 1..N /\ (n + 1) - 1 = n /\ N - (n + 1) + 1 \in 1..N
      BY <1>5
    <2>2. W[n + 1] = MarshallArgument(arg) \o W[n]
      BY <1>3, <2>1
    <2>3. arg \in Argument
      BY <1>0, <2>1, ElementOfSeq
    <2>4. MarshallArgument(arg) \in Seq(Items)
      BY <2>3, ArgumentWritten
    <2>5. W[n] \in Seq(Items)
      BY <1>5
    <2> HIDE DEF arg, Items
    <2>6. MarshallArgument(arg) \o W[n] \in Seq(Items)
      BY <2>4, <2>5, ConcatProperties
    <2>7. W[n + 1] \in Seq(Items) /\ n + 1 \in 0..N
      BY <2>1, <2>2, <2>6
    <2> QED  BY <2>7
  <1>6. \A n \in 0..N : n \in P
    <2> HIDE DEF P
    <2> QED  BY <1>4, <1>5, Ascending
  <1> QED  BY <1>0, <1>2, <1>3, <1>6 DEF W

\* Where the arguments that are understood end.
LEMMA UnderstoodIs ==
  ASSUME NEW args \in Seq(Argument)
  PROVE  \E k \in 0..Len(args) :
            /\ \A i \in 1..k : args[i].name \in ServerTypes
            /\ k < Len(args) => args[k + 1].name \notin ServerTypes
            /\ Understood(args) = SubSeq(args, 1, k)
PROOF
  <1>0. PICK N \in Nat : N = Len(args)
    BY LenProperties
  <1> DEFINE Ends(n) == /\ \A i \in 1..n : args[i].name \in ServerTypes
                        /\ n < N => args[n + 1].name \notin ServerTypes
             T == {n \in 0..N : n < N => args[n + 1].name \notin ServerTypes}
             k == CHOOSE n \in 0..N : Ends(n)
  <1>1. T \in SUBSET Nat /\ N \in T
    OBVIOUS
  <1>2. PICK n \in T : \A m \in T : n <= m
    <2> HIDE DEF T
    <2> QED  BY <1>1, LeastOf
  <1>3. Ends(n)
    <2> SUFFICES ASSUME NEW i \in 1..n
                 PROVE  args[i].name \in ServerTypes
      BY <1>2
    <2>1. i - 1 \in 0..N /\ i - 1 < N /\ (i - 1) + 1 = i /\ ~(n <= i - 1)
      BY <1>2
    <2>2. i - 1 \notin T
      BY <1>2, <2>1
    <2> QED  BY <2>1, <2>2
  <1>4. n \in 0..N
    BY <1>2
  <1> HIDE DEF Ends, T
  <1>5. k \in 0..N /\ Ends(k)
    BY <1>3, <1>4
  <1>6. Understood(args) = SubSeq(args, 1, k)
    BY <1>0 DEF Understood, k, Ends
  <1> HIDE DEF k
  <1> QED  BY <1>0, <1>5, <1>6 DEF Ends

\* Reading that has failed stays as it is.
LEMMA Stuck ==
  ASSUME NEW b, NEW x, NEW y
  PROVE  [[ok |-> b, rest |-> x, arguments |-> y] EXCEPT !.ok = FALSE]
         = [ok |-> FALSE, rest |-> x, arguments |-> y]
PROOF
  <1> DEFINE r == [ok |-> b, rest |-> x, arguments |-> y]
             e == [r EXCEPT !.ok = FALSE]
  <1>1. r \in [ok : {b}, rest : {x}, arguments : {y}]
    OBVIOUS
  <1> HIDE DEF r
  <1>2. e \in [ok : {FALSE}, rest : {x}, arguments : {y}]
    BY <1>1
  <1> HIDE DEF e
  <1>3. e = [ok |-> FALSE, rest |-> x, arguments |-> y]
    BY <1>2
  <1> QED  BY <1>3 DEF e, r

\* The receiver reads the arguments up to the first whose type it does not know.
LEMMA ArgumentsRead ==
  ASSUME NEW args \in Seq(Argument),
         \A i \in 1..Len(args) : Marshallable(args[i], ClientTypes)
  PROVE  Read(Written(args)[Len(args)], Len(args), ServerTypes)[Len(args)].arguments = Understood(args)
PROOF
  <1>0. PICK N \in Nat : N = Len(args)
    BY LenProperties
  <1>1. PICK k \in 0..N : /\ \A i \in 1..k : args[i].name \in ServerTypes
                          /\ k < N => args[k + 1].name \notin ServerTypes
                          /\ Understood(args) = SubSeq(args, 1, k)
    BY <1>0, UnderstoodIs
  <1> DEFINE W == Written(args)
             R == Read(W[N], N, ServerTypes)
             Good(n) == [ok |-> TRUE, rest |-> W[N - n], arguments |-> SubSeq(args, 1, n)]
             Bad == [ok |-> FALSE, rest |-> W[N - k], arguments |-> SubSeq(args, 1, k)]
  <1>2. /\ \A n \in 1..N : W[n] = MarshallArgument(args[N - n + 1]) \o W[n - 1]
        /\ \A n \in 0..N : W[n] \in Seq(Items)
    BY <1>0, WrittenIs
  <1> HIDE DEF W, Items
  <1>3. R = [n \in 0..N |-> IF n = 0 THEN [ok |-> TRUE, rest |-> W[N], arguments |-> <<>>]
                            ELSE NextArgument(R[n - 1], ServerTypes)]
    <2>1. PICK s : s = W[N]
      OBVIOUS
    <2>2. Read(s, N, ServerTypes) =
            [n \in 0..N |-> IF n = 0 THEN [ok |-> TRUE, rest |-> s, arguments |-> <<>>]
                            ELSE NextArgument(Read(s, N, ServerTypes)[n - 1], ServerTypes)]
      BY ReadExists
    <2> QED  BY <2>1, <2>2
  <1> HIDE DEF R
  <1>4. R[0] = [ok |-> TRUE, rest |-> W[N], arguments |-> <<>>]
    BY <1>3
  <1>5. \A n \in 0..N : n < N => R[n + 1] = NextArgument(R[n], ServerTypes)
    <2> SUFFICES ASSUME NEW n \in 0..N, n < N
                 PROVE  R[n + 1] = NextArgument(R[n], ServerTypes)
      OBVIOUS
    <2>1. n + 1 \in 0..N /\ n + 1 # 0 /\ (n + 1) - 1 = n
      OBVIOUS
    <2> QED  BY <1>3, <2>1
  \* What lies in front of the reader.
  <1>6. ASSUME NEW n \in 0..N, n < N
        PROVE  /\ args[n + 1] \in Argument
               /\ W[N - n] = MarshallArgument(args[n + 1]) \o W[N - (n + 1)]
               /\ W[N - (n + 1)] \in Seq(Items)
    <2>1. N - n \in 1..N /\ N - (N - n) + 1 = n + 1 /\ (N - n) - 1 = N - (n + 1)
          /\ N - (n + 1) \in 0..N /\ n + 1 \in 1..N
      BY <1>6
    <2>2. args[n + 1] \in Argument
      BY <1>0, <2>1, ElementOfSeq
    <2> QED  BY <1>2, <2>1, <2>2
  <1>7. SubSeq(args, 1, 0) = <<>>
    BY SubSeqEmpty
  <1> DEFINE P == {n \in 0..N : n <= k => R[n] = Good(n)}
  <1>8. 0 \in P
    <2>1. N - 0 = N /\ 0 \in 0..N
      OBVIOUS
    <2>2. Good(0) = [ok |-> TRUE, rest |-> W[N], arguments |-> <<>>]
      BY <1>7, <2>1
    <2> HIDE DEF Good
    <2> QED  BY <1>4, <2>1, <2>2
  <1>9. ASSUME NEW n \in 0..N, n < N, n \in P
        PROVE  n + 1 \in P
    <2> SUFFICES ASSUME n + 1 <= k
                 PROVE  R[n + 1] = Good(n + 1)
      BY <1>9
    <2> DEFINE arg == args[n + 1]
    <2>1. n <= k /\ n + 1 \in 1..k /\ n + 1 \in 1..N
      BY <1>9
    <2>2. R[n] = Good(n)
      BY <1>9, <2>1
    <2>3. arg \in Argument /\ W[N - n] = MarshallArgument(arg) \o W[N - (n + 1)] /\ W[N - (n + 1)] \in Seq(Items)
      BY <1>6, <1>9
    <2>4. arg.name \in ServerTypes /\ Marshallable(arg, ClientTypes)
      BY <1>0, <1>1, <2>1
    <2>5. Marshallable(arg, ServerTypes)
      BY <2>4 DEF Marshallable
    <2>6. arg = [name |-> arg.name, data |-> arg.data]
      BY <2>3, ArgumentIs
    <2> HIDE DEF arg, P
    <2>7. /\ Head(W[N - n]) = arg.name
          /\ DemarshallArgument(W[N - n], ServerTypes) = Loaded(arg.data, W[N - (n + 1)])
      BY <2>3, <2>5, ReadBack
    <2> DEFINE read == R[n]
    <2>8. read.ok = TRUE /\ read.rest = W[N - n] /\ read.arguments = SubSeq(args, 1, n)
      BY <2>2
    <2> HIDE DEF read
    <2>9. NextArgument(read, ServerTypes) =
            [ok |-> TRUE, rest |-> W[N - (n + 1)], arguments |-> Append(SubSeq(args, 1, n), arg)]
      <3> DEFINE x == DemarshallArgument(read.rest, ServerTypes)
      <3>1. x.ok = TRUE /\ x.data = arg.data /\ x.rest = W[N - (n + 1)]
        BY <2>7, <2>8 DEF Loaded
      <3>2. Head(read.rest) = arg.name
        BY <2>7, <2>8
      <3>3. NextArgument(read, ServerTypes) =
              IF read.ok /\ x.ok
              THEN [ok |-> TRUE, rest |-> x.rest,
                    arguments |-> Append(read.arguments, [name |-> Head(read.rest), data |-> x.data])]
              ELSE [read EXCEPT !.ok = FALSE]
        BY DEF NextArgument
      <3> HIDE DEF x
      <3>4. [name |-> Head(read.rest), data |-> x.data] = arg
        BY <2>6, <3>1, <3>2
      <3> QED  BY <2>8, <3>1, <3>3, <3>4
    <2>10. Append(SubSeq(args, 1, n), arg) = SubSeq(args, 1, n + 1)
      <3>1. SubSeq(args, 1, n + 1) = SubSeq(args, 1, (n + 1) - 1) \o <<args[n + 1]>>
        <4>1. 1 \in 1..Len(args) /\ n + 1 \in 1..Len(args)
          BY <1>0, <2>1
        <4> QED  BY <4>1, SubSeqRecursiveSecond
      <3>2. SubSeq(args, 1, n) \in Seq(Argument)
        <4>1. \A i \in 1..n : args[i] \in Argument
          BY <1>0, <1>9, ElementOfSeq
        <4> QED  BY <4>1, SubSeqProperties
      <3>3. (n + 1) - 1 = n
        OBVIOUS
      <3> QED  BY <2>3, <3>1, <3>2, <3>3, AppendIsConcat DEF arg
    <2>11. R[n + 1] = NextArgument(read, ServerTypes)
      BY <1>5, <1>9 DEF read
    <2> QED  BY <2>9, <2>10, <2>11
  <1>10. \A n \in 0..N : n \in P
    <2> HIDE DEF P
    <2> QED  BY <1>8, <1>9, Ascending
  <1>11. R[k] = Good(k)
    BY <1>10
  <1>12. CASE k = N
    <2>1. R[N].arguments = SubSeq(args, 1, k)
      BY <1>11, <1>12
    <2> QED  BY <1>0, <1>1, <2>1 DEF R, W
  <1>13. CASE k < N
    <2> DEFINE S == {n \in 0..N : k < n => R[n] = Bad}
    <2> HIDE DEF P
    <2>1. 0 \in S
      OBVIOUS
    <2>2. ASSUME NEW n \in 0..N, n < N, n \in S
          PROVE  n + 1 \in S
      <3> SUFFICES ASSUME k <= n
                   PROVE  R[n + 1] = Bad
        BY <2>2
      <3> DEFINE read == R[n]
      <3>1. R[n + 1] = NextArgument(read, ServerTypes)
        BY <1>5, <2>2
      <3>2. CASE n = k
        <4>1. args[k + 1] \in Argument
              /\ W[N - k] = MarshallArgument(args[k + 1]) \o W[N - (k + 1)] /\ W[N - (k + 1)] \in Seq(Items)
          BY <1>6, <1>13
        <4>2. args[k + 1].name \notin ServerTypes
          BY <1>1, <1>13
        <4>3. DemarshallArgument(W[N - k], ServerTypes) = Failed
          BY <4>1, <4>2, ReadBack
        <4>4. read = Good(k)
          BY <1>11, <3>2
        <4> HIDE DEF read
        <4>5. read.rest = W[N - k]
          BY <4>4
        <4>6. NextArgument(read, ServerTypes) = [read EXCEPT !.ok = FALSE]
          BY <4>3, <4>5 DEF NextArgument, Failed
        <4>7. [Good(k) EXCEPT !.ok = FALSE] = Bad
          BY Stuck
        <4> QED  BY <3>1, <4>4, <4>6, <4>7
      <3>3. CASE k < n
        <4>1. read = Bad
          BY <2>2, <3>3
        <4> HIDE DEF read
        <4>2. read.ok = FALSE
          BY <4>1
        <4>3. NextArgument(read, ServerTypes) = [read EXCEPT !.ok = FALSE]
          BY <4>2 DEF NextArgument
        <4>4. [Bad EXCEPT !.ok = FALSE] = Bad
          BY Stuck
        <4> QED  BY <3>1, <4>1, <4>3, <4>4
      <3> QED  BY <3>2, <3>3
    <2>3. \A n \in 0..N : n \in S
      <3> HIDE DEF S
      <3> QED  BY <2>1, <2>2, Ascending
    <2>4. R[N] = Bad
      <3>1. N \in 0..N
        OBVIOUS
      <3> HIDE DEF Bad
      <3> QED  BY <1>13, <2>3, <3>1
    <2>5. R[N].arguments = SubSeq(args, 1, k)
      BY <2>4
    <2> QED  BY <1>0, <1>1, <2>5 DEF R, W
  <1> QED  BY <1>12, <1>13

-----------------------------------------------------------------------------
(* Calls, responses and errors                                             *)

\* Every argument can be marshalled.
Carries(args, types) == \A i \in 1..Len(args) : Marshallable(args[i], types)

\* A message is its four items, and what is written of its arguments.
LEMMA MessageWritten ==
  ASSUME NEW type \in Items, NEW method \in Items, NEW returnType \in Items,
         NEW args \in Seq(Argument), NEW types, Carries(args, types)
  PROVE  LET s == MarshallMessage([type |-> type, method |-> method, returnType |-> returnType,
                                   arguments |-> args], types) IN
         /\ s \in Seq(Items) /\ s # <<>>
         /\ s[1] = type /\ s[2] = method /\ s[3] = returnType /\ s[4] = Len(args)
         /\ SubSeq(s, 5, Len(s)) = Written(args)[Len(args)]
         /\ Written(args)[Len(args)] # <<>> => s[5] = Written(args)[Len(args)][1]
PROOF
  <1> DEFINE m == [type |-> type, method |-> method, returnType |-> returnType, arguments |-> args]
             w == Written(args)[Len(args)]
  <1>1. PICK n \in Nat : n = Len(args)
    BY LenProperties
  <1>2. n \in Items
    BY DEF Items
  <1> HIDE DEF Items
  <1>3. w \in Seq(Items)
    <2>1. Len(args) \in 0..Len(args)
      BY <1>1
    <2> QED  BY <2>1, WrittenIs
  <1>4. \A i \in DOMAIN m.arguments : Marshallable(m.arguments[i], types)
    BY LenProperties DEF Carries
  <1>5. m.type = type /\ m.method = method /\ m.returnType = returnType /\ m.arguments = args
    OBVIOUS
  <1> HIDE DEF m
  <1>6. MarshallMessage(m, types) = <<type, method, returnType, n>> \o w
    BY <1>1, <1>4, <1>5 DEF MarshallMessage
  <1> HIDE DEF w
  <1> DEFINE s == MarshallMessage(m, types)
  <1>7. /\ s \in Seq(Items) /\ s # <<>>
        /\ s[1] = type /\ s[2] = method /\ s[3] = returnType /\ s[4] = n
        /\ SubSeq(s, 5, Len(s)) = w
        /\ w # <<>> => s[5] = w[1]
    BY <1>2, <1>3, <1>6, FirstItemsRead
  <1> HIDE DEF s
  <1> QED  BY <1>1, <1>7 DEF s, m, w

\* A message of which an argument cannot be marshalled is empty.
LEMMA MessageEmpty ==
  ASSUME NEW m, m.arguments \in Seq(Argument), NEW types, ~Carries(m.arguments, types)
  PROVE  MarshallMessage(m, types) = <<>>
PROOF
  <1>1. DOMAIN m.arguments = 1..Len(m.arguments)
    BY LenProperties
  <1> QED  BY <1>1 DEF MarshallMessage, Carries

\* What is known of a call.
LEMMA CallIs ==
  ASSUME NEW c \in Calls
  PROVE  /\ c = [type |-> c.type, method |-> c.method, returnType |-> c.returnType, arguments |-> c.arguments]
         /\ c.type = "call" /\ \E m \in Methods : c.method = m.name
         /\ c.returnType \in Types \cup {""}
         /\ c.arguments \in Seq(Argument) /\ Len(c.arguments) <= MaxArguments
PROOF
  <1>1. /\ c = [type |-> c.type, method |-> c.method, returnType |-> c.returnType, arguments |-> c.arguments]
        /\ c.type = "call" /\ c.method \in {m.name : m \in Methods}
        /\ c.returnType \in Types \cup {""} /\ c.arguments \in BoundedSeq(Argument, MaxArguments)
    BY DEF Calls
  <1>2. c.arguments \in Seq(Argument) /\ Len(c.arguments) \in 0..MaxArguments
    BY <1>1, BoundsAssumption, BoundedIsSeq
  <1>3. Len(c.arguments) <= MaxArguments
    BY <1>2, BoundsAssumption
  <1>4. \E m \in Methods : c.method = m.name
    BY <1>1
  <1> QED  BY <1>1, <1>2, <1>3, <1>4

\* The message that the server makes of a call's.
HeardOf(c) == [type |-> c.type, method |-> c.method, returnType |-> c.returnType,
               arguments |-> Understood(c.arguments)]

\* A call whose arguments can be marshalled is heard.
LEMMA CallHeard ==
  ASSUME NEW c \in Calls, Carries(c.arguments, ClientTypes)
  PROVE  /\ MarshallMessage(c, ClientTypes) # <<>>
         /\ DemarshallMessage(MarshallMessage(c, ClientTypes), ServerTypes) = HeardOf(c)
PROOF
  <1> DEFINE s == MarshallMessage(c, ClientTypes)
             args == c.arguments
  <1>1. /\ c = [type |-> c.type, method |-> c.method, returnType |-> c.returnType, arguments |-> args]
        /\ args \in Seq(Argument)
    BY CallIs
  <1>2. c.type \in Items /\ c.method \in Items /\ c.returnType \in Items
    BY CallIs DEF Items
  <1> HIDE DEF Items
  <1>3. /\ s # <<>>
        /\ s[1] = c.type /\ s[2] = c.method /\ s[3] = c.returnType /\ s[4] = Len(args)
        /\ SubSeq(s, 5, Len(s)) = Written(args)[Len(args)]
    BY <1>1, <1>2, MessageWritten
  <1> HIDE DEF s
  <1>4. Read(Written(args)[Len(args)], Len(args), ServerTypes)[Len(args)].arguments = Understood(args)
    BY <1>1, ArgumentsRead DEF Carries
  <1>5. DemarshallMessage(s, ServerTypes) = HeardOf(c)
    BY <1>3, <1>4 DEF DemarshallMessage, HeardOf
  <1> QED  BY <1>3, <1>5 DEF s

\* What is known of a method.
LEMMA MethodIs ==
  ASSUME NEW m \in Methods
  PROVE  m.name \in Items /\ m.returns \in Types \cup {""}
BY MethodsAssumption DEF Items

\* Sequences of one argument, or none, and when they can be marshalled.
LEMMA Single ==
  ASSUME NEW S, NEW x \in S
  PROVE  <<x>> \in Seq(S) /\ Len(<<x>>) = 1 /\ <<x>>[1] = x
  OBVIOUS

LEMMA NoneCarried ==
  ASSUME NEW none \in Seq(Argument), Len(none) = 0, NEW types
  PROVE  Carries(none, types)
  BY DEF Carries

LEMMA OneCarried ==
  ASSUME NEW args \in Seq(Argument), Len(args) = 1, NEW types
  PROVE  Carries(args, types) <=> Marshallable(args[1], types)
PROOF
  <1>1. \A i \in 1..Len(args) : i = 1
    OBVIOUS
  <1>2. 1 \in 1..Len(args)
    OBVIOUS
  <1> QED  BY <1>1, <1>2 DEF Carries

\* What a response consists of, and an error, which has no arguments.
LEMMA ResponseWritten ==
  ASSUME NEW m \in Methods, NEW args \in Seq(Argument), Carries(args, ServerTypes)
  PROVE  LET s == MarshallMessage(Response(m.name, args), ServerTypes) IN
         /\ s # <<>> /\ s[1] = "response" /\ s[4] = Len(args)
         /\ SubSeq(s, 5, Len(s)) = Written(args)[Len(args)]
         /\ Written(args)[Len(args)] # <<>> => s[5] = Written(args)[Len(args)][1]
PROOF
  <1>1. PICK a \in Items : a = "response"
    BY DEF Items
  <1>2. PICK b \in Items : b = m.name
    BY MethodIs
  <1>3. PICK c \in Items : c = ""
    BY DEF Items
  <1> DEFINE w == Written(args)[Len(args)]
  <1> HIDE DEF Items, w
  <1>4. LET s == MarshallMessage([type |-> a, method |-> b, returnType |-> c, arguments |-> args], ServerTypes)
        IN  /\ s # <<>> /\ s[1] = a /\ s[4] = Len(args)
            /\ SubSeq(s, 5, Len(s)) = w
            /\ w # <<>> => s[5] = w[1]
    BY MessageWritten DEF w
  <1> QED  BY <1>1, <1>2, <1>3, <1>4 DEF Response, w

\* An error has no arguments.
LEMMA ErrorWritten ==
  LET s == MarshallMessage(Error, ServerTypes) IN s # <<>> /\ s[1] = "error" /\ s[4] = 0
PROOF
  <1>1. PICK a \in Items : a = "error"
    BY DEF Items
  <1>3. PICK c \in Items : c = ""
    BY DEF Items
  <1>4. PICK none \in Seq(Argument) : none = <<>> /\ Len(none) = 0
    BY EmptySeq
  <1> HIDE DEF Items
  <1>5. Carries(none, ServerTypes)
    BY <1>4, NoneCarried
  <1>6. LET s == MarshallMessage([type |-> a, method |-> a, returnType |-> c, arguments |-> none], ServerTypes)
        IN  s # <<>> /\ s[1] = a /\ s[4] = Len(none)
    BY <1>5, MessageWritten
  <1> QED  BY <1>1, <1>3, <1>4, <1>6 DEF Error

\* Nothing is loaded from a message without arguments.
LEMMA NothingLoaded ==
  ASSUME NEW s, s[4] = 0, NEW wanted, NEW types
  PROVE  DemarshallResponse(s, wanted, types) = {Failed}
  BY DEF DemarshallResponse

\* Neither has the response to a call that wants nothing back.
LEMMA EmptyResponse ==
  ASSUME NEW m \in Methods
  PROVE  /\ Carries(<<>>, ServerTypes)
         /\ LET s == MarshallMessage(Response(m.name, <<>>), ServerTypes) IN
            s # <<>> /\ s[1] = "response" /\ s[4] = 0
PROOF
  <1>1. PICK none \in Seq(Argument) : none = <<>> /\ Len(none) = 0
    BY EmptySeq
  <1>2. Carries(none, ServerTypes)
    BY <1>1, NoneCarried
  <1>3. LET s == MarshallMessage(Response(m.name, none), ServerTypes) IN
        s # <<>> /\ s[1] = "response" /\ s[4] = Len(none)
    BY <1>2, ResponseWritten
  <1> QED  BY <1>1, <1>2, <1>3

\* The whole of what is written of one argument.
LEMMA OneWritten ==
  ASSUME NEW args \in Seq(Argument), Len(args) = 1
  PROVE  LET w == Written(args)[Len(args)] IN
         w = MarshallArgument(args[1]) \o <<>> /\ w # <<>> /\ w[1] = args[1].name
PROOF
  <1> DEFINE w == Written(args)[Len(args)]
             arg == args[1]
  <1>1. arg \in Argument
    BY ElementOfSeq
  <1>2. /\ Written(args)[0] = <<>>
        /\ \A n \in 1..Len(args) :
               Written(args)[n] = MarshallArgument(args[Len(args) - n + 1]) \o Written(args)[n - 1]
    BY WrittenIs
  <1>3. 1 \in 1..Len(args) /\ Len(args) - 1 + 1 = 1 /\ 1 - 1 = 0
    OBVIOUS
  <1>4. Written(args)[1] = MarshallArgument(arg) \o Written(args)[0]
    BY <1>2, <1>3
  <1>5. w = MarshallArgument(arg) \o <<>>
    BY <1>2, <1>4
  <1> HIDE DEF arg
  <1>6. /\ MarshallArgument(arg) \in Seq(Items)
        /\ Len(MarshallArgument(arg)) \in Nat \ {0, 1}
        /\ MarshallArgument(arg)[1] = arg.name
    BY <1>1, ArgumentWritten
  <1> HIDE DEF w, Items
  <1>7. w = MarshallArgument(arg)
    BY <1>5, <1>6, ConcatEmptySeq
  <1>8. Len(w) # 0 /\ w[1] = arg.name
    BY <1>6, <1>7
  <1>9. w # <<>>
    BY <1>8, EmptySeq
  <1> QED  BY <1>5, <1>8, <1>9 DEF w, arg

\* A response with a result: the caller reads it back, if it knows the type.
LEMMA ResultRead ==
  ASSUME NEW m \in Methods, NEW arg \in Argument, Marshallable(arg, ServerTypes), NEW types
  PROVE  LET s == MarshallMessage(Response(m.name, <<arg>>), ServerTypes) IN
         /\ s # <<>> /\ s[1] = "response" /\ s[5] = arg.name
         /\ \A wanted : wanted # "" =>
               /\ arg.name \in types => DemarshallResponse(s, wanted, types) = {Loaded(arg.data, <<>>)}
               /\ arg.name \notin types /\ "QList<QImage>" \in types =>
                     DemarshallResponse(s, wanted, types) = {Failed}
PROOF
  <1>1. PICK args \in Seq(Argument) : args = <<arg>> /\ Len(args) = 1 /\ args[1] = arg
    BY Single
  <1>2. Carries(args, ServerTypes)
    BY <1>1, OneCarried
  <1> DEFINE s == MarshallMessage(Response(m.name, args), ServerTypes)
             w == Written(args)[Len(args)]
  <1>3. w = MarshallArgument(arg) \o <<>> /\ w # <<>> /\ w[1] = arg.name
    BY <1>1, OneWritten
  <1>4. /\ s # <<>> /\ s[1] = "response" /\ s[4] = Len(args)
        /\ SubSeq(s, 5, Len(s)) = w
        /\ w # <<>> => s[5] = w[1]
    BY <1>2, ResponseWritten
  <1> HIDE DEF w, s
  <1>5. s[4] # 0 /\ s[5] = arg.name
    BY <1>1, <1>3, <1>4
  <1>6. /\ arg.name \notin types => DemarshallArgument(w, types) = Failed
        /\ Marshallable(arg, types) => DemarshallArgument(w, types) = Loaded(arg.data, <<>>)
    <2>1. <<>> \in Seq(Items)
      BY EmptySeq
    <2> QED  BY <1>3, <2>1, ReadBack
  <1>7. arg.name \in types => Marshallable(arg, types)
    BY DEF Marshallable
  <1>8. ASSUME NEW wanted, wanted # "", {s[5], "QList<QImage>"} \cap types # {}
        PROVE  DemarshallResponse(s, wanted, types) = {DemarshallArgument(w, types)}
    BY <1>4, <1>5, <1>8 DEF DemarshallResponse
  <1> QED  BY <1>1, <1>4, <1>5, <1>6, <1>7, <1>8 DEF s

-----------------------------------------------------------------------------
(* The story of a call                                                     *)

Returns(c, m, r) ==
    IF c.returnType = "" THEN r = <<>>
    ELSE \E data \in Data(m.returns) : r = <<[name |-> m.returns, data |-> data]>>

\* The server has invoked the method for the call, and got the result.
Invokes(c, m, i, r) ==
    /\ Matches(m, HeardOf(c))
    /\ i = {[method |-> m, arguments |-> Understood(c.arguments)]}
    /\ Returns(c, m, r)

\* What the server has done, and the message it has sent of that.
Answers(c, s, i, r) ==
    \/ /\ ~\E m \in Methods : Matches(m, HeardOf(c))
       /\ i = {} /\ r = <<>>
       /\ s = MarshallMessage(Error, ServerTypes)
    \/ \E m \in Methods :
          /\ Invokes(c, m, i, r)
          /\ Carries(r, ServerTypes)
          /\ s = MarshallMessage(Response(m.name, r), ServerTypes)

\* What becomes of that at the client.
Outcome(i, r, st, an) ==
    /\ an = IF i = {} THEN "false" ELSE "true"
    /\ r = <<>> => st = <<>>
    /\ \A arg \in Argument : r = <<arg>> =>
          /\ arg.name \in ClientTypes => st = r
          /\ arg.name \notin ClientTypes /\ "QList<QImage>" \in ClientTypes => st = <<>>

Story ==
    /\ call \in Calls
    /\ at \in {"call", "request", "response", "returned", "lost"}
    /\ at \in {"call", "request"} => invoked = {} /\ result = <<>>
    /\ at = "request" => /\ Carries(call.arguments, ClientTypes)
                         /\ stream = MarshallMessage(call, ClientTypes)
    /\ at \in {"response", "returned"} => /\ Carries(call.arguments, ClientTypes)
                                          /\ Answers(call, stream, invoked, result)
    /\ at = "lost" => \/ invoked = {} /\ result = <<>> /\ ~Carries(call.arguments, ClientTypes)
                      \/ \E m \in Methods : /\ Invokes(call, m, invoked, result)
                                            /\ ~Carries(result, ServerTypes)
    /\ at # "returned" => stored = <<>> /\ answer = "none"
    /\ at = "returned" => Outcome(invoked, result, stored, answer)

\* A method that is invoked gives a result of the type that is asked for, or none.
LEMMA ResultIs ==
  ASSUME NEW c \in Calls, NEW m \in Methods, NEW i, NEW r, Invokes(c, m, i, r)
  PROVE  \/ c.returnType = "" /\ r = <<>>
         \/ /\ c.returnType # "" /\ c.returnType = m.returns /\ c.returnType \in ServerTypes
            /\ \E arg \in Argument : r = <<arg>> /\ arg.name = c.returnType
PROOF
  <1>1. c.returnType = "" \/ (c.returnType \in ServerTypes /\ c.returnType = m.returns)
    BY DEF Invokes, Matches, HeardOf
  <1>2. CASE c.returnType = ""
    BY <1>2 DEF Invokes, Returns
  <1>3. CASE c.returnType # ""
    <2>1. PICK data \in Data(m.returns) : r = <<[name |-> m.returns, data |-> data]>>
      BY <1>3 DEF Invokes, Returns
    <2>2. m.returns \in Types /\ c.returnType = m.returns /\ c.returnType \in ServerTypes
      BY <1>1, <1>3, TypesAssumption
    <2>3. PICK arg \in Argument : arg = [name |-> m.returns, data |-> data]
      BY <2>1, <2>2, IsArgument
    <2>4. r = <<arg>> /\ arg.name = c.returnType
      BY <2>1, <2>2, <2>3
    <2> QED  BY <1>3, <2>2, <2>4
  <1> QED  BY <1>2, <1>3

\* So the result is one argument at most.
LEMMA ResultSeq ==
  ASSUME NEW c \in Calls, NEW m \in Methods, NEW i, NEW r, Invokes(c, m, i, r)
  PROVE  r \in Seq(Argument) /\ Len(r) <= 1
PROOF
  <1>1. CASE r = <<>>
    BY <1>1, EmptySeq
  <1>2. CASE \E arg \in Argument : r = <<arg>>
    <2>1. PICK arg \in Argument : r = <<arg>>
      BY <1>2
    <2>2. r \in Seq(Argument) /\ Len(r) = 1
      BY <2>1, Single
    <2> QED  BY <2>2
  <1>3. r = <<>> \/ \E arg \in Argument : r = <<arg>>
    <2>1. \/ c.returnType = "" /\ r = <<>>
          \/ /\ c.returnType # "" /\ c.returnType = m.returns /\ c.returnType \in ServerTypes
             /\ \E arg \in Argument : r = <<arg>> /\ arg.name = c.returnType
      BY ResultIs, Zenon
    <2> QED  BY <2>1
  <1> QED  BY <1>1, <1>2, <1>3

\* The story holds of every state: each action goes on with it.
LEMMA StoryBegins == CallInit => Story
  BY DEF CallInit, Story

LEMMA RequestStory ==
  ASSUME Story, Request
  PROVE  Story'
PROOF
  <1>1. PICK c \in Calls : c = call
    BY DEF Story
  <1>2. /\ at = "call" /\ UNCHANGED <<call, invoked, result, answer, stored>>
        /\ stream' = MarshallMessage(c, ClientTypes)
        /\ at' = IF stream' = <<>> THEN "lost" ELSE "request"
    BY <1>1 DEF Request, SendMessage
  <1>3. call' = c /\ invoked' = {} /\ result' = <<>> /\ stored' = <<>> /\ answer' = "none"
    BY <1>1, <1>2 DEF Story
  <1>4. CASE Carries(c.arguments, ClientTypes)
    <2>1. at' = "request"
      BY <1>2, <1>4, CallHeard
    <2> QED  BY <1>2, <1>3, <1>4, <2>1 DEF Story
  <1>5. CASE ~Carries(c.arguments, ClientTypes)
    <2>1. c.arguments \in Seq(Argument)
      BY CallIs
    <2>2. at' = "lost"
      BY <1>2, <1>5, <2>1, MessageEmpty
    <2> QED  BY <1>2, <1>3, <1>5, <2>2 DEF Story
  <1> QED  BY <1>4, <1>5

LEMMA ProcessMessageStory ==
  ASSUME Story, ProcessMessage
  PROVE  Story'
PROOF
  <1>1. PICK c \in Calls : c = call
    BY DEF Story
  <1>2. at = "request" /\ UNCHANGED <<call, answer, stored>>
    BY DEF ProcessMessage
  <1>3. /\ Carries(c.arguments, ClientTypes) /\ stream = MarshallMessage(c, ClientTypes)
        /\ invoked = {} /\ result = <<>> /\ call' = c /\ stored' = <<>> /\ answer' = "none"
    BY <1>1, <1>2 DEF Story
  <1>4. DemarshallMessage(stream, ServerTypes) = HeardOf(c)
    BY <1>3, CallHeard
  <1>5. \/ \E m \in Methods :
              /\ Matches(m, HeardOf(c))
              /\ invoked' = {[method |-> m, arguments |-> HeardOf(c).arguments]}
              /\ IF HeardOf(c).returnType = "" THEN result' = <<>>
                 ELSE \E data \in Data(m.returns) : result' = <<[name |-> m.returns, data |-> data]>>
              /\ SendMessage(Response(m.name, result'), ServerTypes, "response")
        \/ /\ ~\E m \in Methods : Matches(m, HeardOf(c))
           /\ SendMessage(Error, ServerTypes, "response")
           /\ UNCHANGED <<invoked, result>>
    BY <1>4 DEF ProcessMessage
  <1>6. ASSUME NEW m \in Methods,
               Matches(m, HeardOf(c)),
               invoked' = {[method |-> m, arguments |-> HeardOf(c).arguments]},
               IF HeardOf(c).returnType = "" THEN result' = <<>>
               ELSE \E data \in Data(m.returns) : result' = <<[name |-> m.returns, data |-> data]>>,
               SendMessage(Response(m.name, result'), ServerTypes, "response")
        PROVE  Story'
    <2>1. PICK i, r, s : i = invoked' /\ r = result' /\ s = stream'
      OBVIOUS
    <2>2. HeardOf(c).arguments = Understood(c.arguments) /\ HeardOf(c).returnType = c.returnType
      BY DEF HeardOf
    <2>3. Invokes(c, m, i, r)
      BY <1>6, <2>1, <2>2 DEF Invokes, Returns
    <2>4. s = MarshallMessage(Response(m.name, r), ServerTypes) /\ at' = IF s = <<>> THEN "lost" ELSE "response"
      BY <1>6, <2>1 DEF SendMessage
    <2>5. r \in Seq(Argument)
      BY <2>3, ResultSeq
    <2>6. CASE Carries(r, ServerTypes)
      <3>1. at' = "response"
        BY <2>4, <2>5, <2>6, ResponseWritten
      <3>2. Answers(c, s, i, r)
        BY <2>3, <2>4, <2>6 DEF Answers
      <3> QED  BY <1>3, <2>1, <3>1, <3>2 DEF Story
    <2>7. CASE ~Carries(r, ServerTypes)
      <3>1. Response(m.name, r).arguments = r
        BY DEF Response
      <3>2. s = <<>>
        BY <2>4, <2>5, <2>7, <3>1, MessageEmpty
      <3>3. at' = "lost"
        BY <2>4, <3>2
      <3> QED  BY <1>3, <2>1, <2>3, <2>7, <3>3 DEF Story
    <2> QED  BY <2>6, <2>7
  <1>7. ASSUME ~\E m \in Methods : Matches(m, HeardOf(c)),
               SendMessage(Error, ServerTypes, "response"), UNCHANGED <<invoked, result>>
        PROVE  Story'
    <2>1. PICK s : s = stream'
      OBVIOUS
    <2>2. s = MarshallMessage(Error, ServerTypes) /\ at' = "response"
      BY <1>7, <2>1, ErrorWritten DEF SendMessage
    <2>3. Answers(c, s, {}, <<>>)
      BY <1>7, <2>2 DEF Answers
    <2>4. invoked' = {} /\ result' = <<>>
      BY <1>3, <1>7
    <2> QED  BY <1>3, <2>1, <2>2, <2>3, <2>4 DEF Story
  <1> QED  BY <1>5, <1>6, <1>7

LEMMA ReadResponseStory ==
  ASSUME Story, ReadResponse
  PROVE  Story'
PROOF
  <1>1. PICK c, s, i, r : c = call /\ s = stream /\ i = invoked /\ r = result
    OBVIOUS
  <1>2. PICK value \in DemarshallResponse(s, c.returnType, ClientTypes) :
            stored' = IF s[1] = "response" /\ value.ok
                      THEN <<[name |-> s[5], data |-> value.data]>> ELSE <<>>
    BY <1>1 DEF ReadResponse
  <1>3. /\ at = "response" /\ at' = "returned"
        /\ answer' = IF s[1] = "error" THEN "false" ELSE "true"
        /\ call' = c /\ stream' = s /\ invoked' = i /\ result' = r
    BY <1>1 DEF ReadResponse
  <1>4. c \in Calls /\ Carries(c.arguments, ClientTypes) /\ Answers(c, s, i, r)
    BY <1>1, <1>3 DEF Story
  <1>5. PICK st, an : st = stored' /\ an = answer'
    OBVIOUS
  <1>6. Failed.ok = FALSE
    BY DEF Failed
  <1>7. Outcome(i, r, st, an)
    <2>1. CASE i = {} /\ r = <<>> /\ s = MarshallMessage(Error, ServerTypes)
      <3>1. s[1] = "error"
        BY <2>1, ErrorWritten
      <3>2. st = <<>> /\ an = "false"
        BY <1>2, <1>3, <1>5, <3>1
      <3>3. \A arg \in Argument : r # <<arg>>
        BY <2>1
      <3> QED  BY <2>1, <3>2, <3>3 DEF Outcome
    <2>2. ASSUME NEW m \in Methods, Invokes(c, m, i, r), Carries(r, ServerTypes),
                 s = MarshallMessage(Response(m.name, r), ServerTypes)
          PROVE  Outcome(i, r, st, an)
      <3>1. i # {}
        BY <2>2 DEF Invokes
      <3>2. CASE c.returnType = "" /\ r = <<>>
        <4>1. s[1] = "response" /\ s[4] = 0
          BY <2>2, <3>2, EmptyResponse
        <4>2. value = Failed
          BY <1>2, <4>1, NothingLoaded
        <4>3. st = <<>> /\ an = "true"
          BY <1>2, <1>3, <1>5, <1>6, <4>1, <4>2
        <4>4. \A arg \in Argument : r # <<arg>>
          BY <3>2
        <4> QED  BY <3>1, <3>2, <4>3, <4>4 DEF Outcome
      <3>3. ASSUME c.returnType # "", NEW arg \in Argument, r = <<arg>>
            PROVE  Outcome(i, r, st, an)
        <4>1. r \in Seq(Argument) /\ Len(r) = 1 /\ r[1] = arg
          BY <3>3, Single
        <4>2. Marshallable(arg, ServerTypes)
          BY <2>2, <4>1, OneCarried
        <4>r. LET t == MarshallMessage(Response(m.name, <<arg>>), ServerTypes) IN
              /\ t # <<>> /\ t[1] = "response" /\ t[5] = arg.name
              /\ \A wanted : wanted # "" =>
                    /\ arg.name \in ClientTypes =>
                          DemarshallResponse(t, wanted, ClientTypes) = {Loaded(arg.data, <<>>)}
                    /\ arg.name \notin ClientTypes /\ "QList<QImage>" \in ClientTypes =>
                          DemarshallResponse(t, wanted, ClientTypes) = {Failed}
          BY <4>2, ResultRead
        <4>3. /\ s[1] = "response" /\ s[5] = arg.name
              /\ arg.name \in ClientTypes =>
                    DemarshallResponse(s, c.returnType, ClientTypes) = {Loaded(arg.data, <<>>)}
              /\ arg.name \notin ClientTypes /\ "QList<QImage>" \in ClientTypes =>
                    DemarshallResponse(s, c.returnType, ClientTypes) = {Failed}
          BY <2>2, <3>3, <4>r
        <4>4. an = "true"
          BY <1>3, <1>5, <4>3
        <4>5. arg = [name |-> arg.name, data |-> arg.data]
          BY ArgumentIs
        <4>6. ASSUME arg.name \in ClientTypes
              PROVE  st = r
          <5>1. value = Loaded(arg.data, <<>>)
            BY <1>2, <4>3, <4>6
          <5>2. value.ok /\ value.data = arg.data
            BY <5>1 DEF Loaded
          <5> QED  BY <1>2, <1>5, <3>3, <4>3, <4>5, <5>2
        <4>7. ASSUME arg.name \notin ClientTypes, "QList<QImage>" \in ClientTypes
              PROVE  st = <<>>
          <5>1. value = Failed
            BY <1>2, <4>3, <4>7
          <5> QED  BY <1>2, <1>5, <1>6, <5>1
        <4>8. r # <<>> /\ \A other \in Argument : r = <<other>> => other = arg
          BY <3>3
        <4> QED  BY <3>1, <4>4, <4>6, <4>7, <4>8 DEF Outcome
      <3>4. \/ c.returnType = "" /\ r = <<>>
            \/ /\ c.returnType # "" /\ c.returnType = m.returns /\ c.returnType \in ServerTypes
               /\ \E arg \in Argument : r = <<arg>> /\ arg.name = c.returnType
        <4>1. c \in Calls /\ Invokes(c, m, i, r)
          BY <1>4, <2>2
        <4> QED  BY <4>1, ResultIs, Zenon
      <3>5. CASE c.returnType # "" /\ \E arg \in Argument : r = <<arg>>
        BY <3>3, <3>5
      <3> QED  BY <3>2, <3>4, <3>5
    <2> QED  BY <1>4, <2>1, <2>2 DEF Answers
  <1> QED  BY <1>3, <1>4, <1>5, <1>7 DEF Story

LEMMA StoryGoesOn == Story /\ [CallNext]_callVars => Story'
PROOF
  <1> SUFFICES ASSUME Story, [CallNext]_callVars
               PROVE  Story'
    OBVIOUS
  <1>1. CASE Request
    BY <1>1, RequestStory
  <1>2. CASE ProcessMessage
    BY <1>2, ProcessMessageStory
  <1>3. CASE ReadResponse
    BY <1>3, ReadResponseStory
  <1>4. CASE UNCHANGED callVars
    <2>1. UNCHANGED <<at, call, stream, invoked, result, answer, stored>>
      BY <1>4 DEF callVars
    <2> QED  BY <2>1 DEF Story
  <1> QED  BY <1>1, <1>2, <1>3, <1>4 DEF CallNext

LEMMA StoryHolds == CallSpec => []Story
PROOF
  <1> QED  BY StoryBegins, StoryGoesOn, PTL DEF CallSpec

-----------------------------------------------------------------------------
(* What the story tells                                                    *)

\* The client can tell what any method returns from a container: it knows the
\* type, or that of containers.
ResultsTold ==
    \A m \in Methods : m.returns = "" \/ {m.returns, "QList<QImage>"} \cap ClientTypes # {}

\* A method that has been invoked was invoked for the call.
LEMMA InvokedIs ==
  ASSUME Story
  PROVE  \/ /\ invoked = {} /\ result = <<>>
         \/ \E m \in Methods : Invokes(call, m, invoked, result)
  BY DEF Story, Answers

\* ArgumentsArrive, whatever types the two sides know: processMessage invokes a
\* method with the arguments of the call up to the first it does not understand.
THEOREM ArgumentsCross == CallSpec => []ArgumentsArrive
PROOF
  <1>1. ASSUME Story
        PROVE  ArgumentsArrive
    <2>1. CASE invoked = {}
      BY <2>1 DEF ArgumentsArrive
    <2>2. ASSUME NEW m \in Methods, Invokes(call, m, invoked, result)
          PROVE  ArgumentsArrive
      <3>1. invoked = {[method |-> m, arguments |-> Understood(call.arguments)]}
        BY <2>2 DEF Invokes
      <3>2. m.name = call.method
        BY <2>2 DEF Invokes, Matches, HeardOf
      <3> QED  BY <3>1, <3>2 DEF ArgumentsArrive
    <2> QED  BY <1>1, <2>1, <2>2, InvokedIs
  <1> QED  BY <1>1, StoryHolds, PTL

\* What the application gets, once the call has returned.
LEMMA ReturnedIs ==
  ASSUME Story, at = "returned", ResultsTold
  PROVE  \/ invoked = {} /\ answer = "false" /\ stored = <<>>
         \/ /\ invoked # {} /\ answer = "true"
            /\ call.returnType = "" /\ result = <<>> /\ stored = <<>>
         \/ /\ invoked # {} /\ answer = "true" /\ call.returnType # ""
            /\ \E arg \in Argument :
                  /\ result = <<arg>> /\ arg.name = call.returnType
                  /\ stored = IF arg.name \in ClientTypes THEN <<arg>> ELSE <<>>
PROOF
  <1>1. call \in Calls /\ Outcome(invoked, result, stored, answer)
    BY DEF Story
  <1>2. CASE invoked = {} /\ result = <<>>
    BY <1>1, <1>2 DEF Outcome
  <1>3. ASSUME NEW m \in Methods, Invokes(call, m, invoked, result)
        PROVE  \/ /\ invoked # {} /\ answer = "true"
                  /\ call.returnType = "" /\ result = <<>> /\ stored = <<>>
               \/ /\ invoked # {} /\ answer = "true" /\ call.returnType # ""
                  /\ \E arg \in Argument :
                        /\ result = <<arg>> /\ arg.name = call.returnType
                        /\ stored = IF arg.name \in ClientTypes THEN <<arg>> ELSE <<>>
    <2>1. invoked # {}
      BY <1>3 DEF Invokes
    <2>2. answer = "true"
      BY <1>1, <2>1 DEF Outcome
    <2>3. \/ call.returnType = "" /\ result = <<>>
          \/ /\ call.returnType # "" /\ call.returnType = m.returns /\ call.returnType \in ServerTypes
             /\ \E arg \in Argument : result = <<arg>> /\ arg.name = call.returnType
      <3>1. PICK c, i, r : c = call /\ i = invoked /\ r = result
        OBVIOUS
      <3>2. c \in Calls /\ Invokes(c, m, i, r)
        BY <1>1, <1>3, <3>1
      <3>3. \/ c.returnType = "" /\ r = <<>>
            \/ /\ c.returnType # "" /\ c.returnType = m.returns /\ c.returnType \in ServerTypes
               /\ \E arg \in Argument : r = <<arg>> /\ arg.name = c.returnType
        BY <3>2, ResultIs, Zenon
      <3> QED  BY <3>1, <3>3
    <2>4. CASE call.returnType = "" /\ result = <<>>
      BY <1>1, <2>1, <2>2, <2>4 DEF Outcome
    <2>5. ASSUME call.returnType # "", call.returnType = m.returns,
                 NEW arg \in Argument, result = <<arg>>, arg.name = call.returnType
          PROVE  stored = IF arg.name \in ClientTypes THEN <<arg>> ELSE <<>>
      <3>1. /\ arg.name \in ClientTypes => stored = <<arg>>
            /\ arg.name \notin ClientTypes /\ "QList<QImage>" \in ClientTypes => stored = <<>>
        BY <1>1, <2>5 DEF Outcome
      <3>2. arg.name \notin ClientTypes => "QList<QImage>" \in ClientTypes
        BY <2>5 DEF ResultsTold
      <3> QED  BY <3>1, <3>2
    <2> QED  BY <2>1, <2>2, <2>3, <2>4, <2>5
  <1> QED  BY <1>2, <1>3, InvokedIs

\* ReturnArrives, if the client can tell results from containers: call returns
\* true only for a method that was invoked, and stores what that returned, as the
\* type that was asked for.
THEOREM ResultCrosses ==
  ASSUME ResultsTold
  PROVE  CallSpec => []ReturnArrives
PROOF
  <1>1. ASSUME Story
        PROVE  ReturnArrives
    <2> SUFFICES ASSUME answer = "true"
                 PROVE  /\ invoked # {}
                        /\ IF call.returnType \in ClientTypes
                           THEN stored = result /\ [i \in DOMAIN stored |-> stored[i].name] = <<call.returnType>>
                           ELSE stored = <<>>
      BY DEF ReturnArrives
    <2>1. at = "returned"
      BY <1>1 DEF Story
    <2>2. "" \notin ClientTypes
      BY TypesAssumption
    <2>3. CASE call.returnType = "" /\ invoked # {} /\ stored = <<>>
      BY <2>2, <2>3
    <2>4. ASSUME invoked # {}, NEW arg \in Argument, result = <<arg>>, arg.name = call.returnType,
                 stored = IF arg.name \in ClientTypes THEN <<arg>> ELSE <<>>
          PROVE  IF call.returnType \in ClientTypes
                 THEN stored = result /\ [i \in DOMAIN stored |-> stored[i].name] = <<call.returnType>>
                 ELSE stored = <<>>
      <3>1. CASE call.returnType \in ClientTypes
        <4>1. stored = <<arg>>
          BY <2>4, <3>1
        <4>2. [i \in DOMAIN <<arg>> |-> <<arg>>[i].name] = <<arg.name>>
          OBVIOUS
        <4> QED  BY <2>4, <3>1, <4>1, <4>2
      <3>2. CASE call.returnType \notin ClientTypes
        BY <2>4, <3>2
      <3> QED  BY <3>1, <3>2
    <2> QED  BY <1>1, <2>1, <2>3, <2>4, ReturnedIs
  <1> QED  BY <1>1, StoryHolds, PTL

\* CallTypeOK, likewise: what is invoked fits the parameters of its method, and
\* what is stored for the caller is a value of its type.
THEOREM CallTyped ==
  ASSUME ResultsTold
  PROVE  CallSpec => []CallTypeOK
PROOF
  <1>1. ASSUME Story
        PROVE  CallTypeOK
    <2>1. at \in {"call", "request", "response", "returned", "lost"} /\ call \in Calls
      BY <1>1 DEF Story
    <2>2. /\ \A i \in invoked : i.method \in Methods /\ [j \in DOMAIN i.arguments |->
                                                        i.arguments[j].name] = i.method.parameters
          /\ result \in Seq(Argument) /\ Len(result) <= 1
      <3>1. CASE invoked = {} /\ result = <<>>
        BY <3>1, EmptySeq
      <3>2. ASSUME NEW m \in Methods, Invokes(call, m, invoked, result)
            PROVE  /\ \A i \in invoked : i.method \in Methods /\ [j \in DOMAIN i.arguments |->
                                                        i.arguments[j].name] = i.method.parameters
                   /\ result \in Seq(Argument) /\ Len(result) <= 1
        <4>1. invoked = {[method |-> m, arguments |-> Understood(call.arguments)]}
          BY <3>2 DEF Invokes
        <4>2. m.parameters = [j \in DOMAIN Understood(call.arguments) |-> Understood(call.arguments)[j].name]
          BY <3>2 DEF Invokes, Matches, HeardOf
        <4>3. PICK c, i, r : c = call /\ i = invoked /\ r = result
          OBVIOUS
        <4>4. c \in Calls /\ Invokes(c, m, i, r)
          BY <2>1, <3>2, <4>3
        <4>5. r \in Seq(Argument) /\ Len(r) <= 1
          BY <4>4, ResultSeq
        <4> QED  BY <4>1, <4>2, <4>3, <4>5
      <3> QED  BY <1>1, <3>1, <3>2, InvokedIs
    <2>3. result \in BoundedSeq(Argument, 1)
      BY <2>2, SeqIsBounded
    <2>4. answer \in {"none", "true", "false"} /\ stored \in Seq(Argument) /\ Len(stored) <= 1
      <3>1. CASE at # "returned"
        <4>1. stored = <<>> /\ answer = "none"
          BY <1>1, <3>1 DEF Story
        <4> QED  BY <4>1, EmptySeq
      <3>2. CASE at = "returned"
        <4>1. answer \in {"true", "false"}
              /\ (stored = <<>> \/ \E arg \in Argument : stored = <<arg>>)
          BY <1>1, <3>2, ReturnedIs
        <4>2. CASE stored = <<>>
          BY <4>1, <4>2, EmptySeq
        <4>3. ASSUME NEW arg \in Argument, stored = <<arg>>
              PROVE  stored \in Seq(Argument) /\ Len(stored) <= 1
          <5>1. <<arg>> \in Seq(Argument) /\ Len(<<arg>>) = 1
            BY Single
          <5> QED  BY <4>3, <5>1
        <4> QED  BY <4>1, <4>2, <4>3
      <3> QED  BY <3>1, <3>2
    <2>5. stored \in BoundedSeq(Argument, 1)
      BY <2>4, SeqIsBounded
    <2> QED  BY <2>1, <2>2, <2>3, <2>4, <2>5 DEF CallTypeOK
  <1> QED  BY <1>1, StoryHolds, PTL

\* When the server knows all types, it understands every argument.
LEMMA AllUnderstood ==
  ASSUME NEW args \in Seq(Argument), \A i \in 1..Len(args) : args[i].name \in ServerTypes
  PROVE  Understood(args) = args
PROOF
  <1>1. PICK n \in Nat : n = Len(args)
    BY LenProperties
  <1>2. PICK k \in 0..n : /\ k < n => args[k + 1].name \notin ServerTypes
                          /\ Understood(args) = SubSeq(args, 1, k)
    BY <1>1, UnderstoodIs
  <1>3. k < n => k + 1 \in 1..n
    OBVIOUS
  <1>4. k = n
    BY <1>1, <1>2, <1>3
  <1> QED  BY <1>1, <1>2, <1>4, SubSeqFull

\* LikeInvokeMethod: whatever both sides know and can carry, call does as
\* QMetaObject::invokeMethod would.
THEOREM CallsWorkAsLocally == CallSpec => []LikeInvokeMethod
PROOF
  <1> DEFINE Carried == (ClientTypes \cap ServerTypes) \ (Plain \ Streamable)
  <1>1. \A arg \in Argument : arg.name \in Carried =>
            Marshallable(arg, ClientTypes) /\ Marshallable(arg, ServerTypes)
    <2> SUFFICES ASSUME NEW arg \in Argument, arg.name \in Carried
                 PROVE  Marshallable(arg, ClientTypes) /\ Marshallable(arg, ServerTypes)
      OBVIOUS
    <2>1. arg.name \in Types
      BY ArgumentIs
    <2>2. arg.name \in Streamable \cup {"QImage", "QList<QImage>"}
      BY <2>1 DEF Types
    <2> QED  BY <2>2 DEF Marshallable
  <1>2. ASSUME Story
        PROVE  LikeInvokeMethod
    <2> DEFINE parameters == [i \in DOMAIN call.arguments |-> call.arguments[i].name]
    <2> SUFFICES ASSUME at \in {"returned", "lost"},
                        ToSet(parameters) \cup {call.returnType} \subseteq Carried \cup {""}
                 PROVE  /\ at = "returned"
                        /\ answer = "true" <=> \E m \in Methods :
                              m.name = call.method /\ m.parameters = parameters
                              /\ call.returnType \in {"", m.returns}
      BY DEF LikeInvokeMethod
    <2>1. PICK c \in Calls : c = call
      BY <1>2 DEF Story
    <2>2. c.arguments \in Seq(Argument) /\ c.returnType \in Carried \cup {""}
      BY <2>1, CallIs
    <2>3. PICK args \in Seq(Argument) : args = c.arguments
      BY <2>2
    <2>4. \A i \in 1..Len(args) : args[i] \in Argument /\ args[i].name \in Carried
      <3> SUFFICES ASSUME NEW i \in 1..Len(args)
                   PROVE  args[i] \in Argument /\ args[i].name \in Carried
        OBVIOUS
      <3>1. args[i] \in Argument /\ i \in DOMAIN args
        BY ElementOfSeq, LenProperties
      <3>2. args[i].name \in Types
        BY <3>1, ArgumentIs
      <3>3. parameters[i] = args[i].name /\ i \in DOMAIN parameters
        BY <2>1, <2>3, <3>1
      <3>4. parameters[i] \in ToSet(parameters)
        BY <3>3 DEF ToSet
      <3>5. args[i].name # ""
        BY <3>2, TypesAssumption
      <3> QED  BY <3>1, <3>3, <3>4, <3>5
    <2>5. Carries(args, ClientTypes)
      BY <1>1, <2>4 DEF Carries
    <2>6. Understood(args) = args
      BY <2>4, AllUnderstood
    <2> HIDE DEF Carried
    <2>7. ASSUME NEW m \in Methods, NEW i, NEW r, Invokes(c, m, i, r)
          PROVE  Carries(r, ServerTypes)
      <3>1. \/ c.returnType = "" /\ r = <<>>
            \/ /\ c.returnType # "" /\ c.returnType = m.returns /\ c.returnType \in ServerTypes
               /\ \E arg \in Argument : r = <<arg>> /\ arg.name = c.returnType
        BY <2>7, ResultIs, Zenon
      <3>2. CASE r = <<>>
        <4>1. PICK none \in Seq(Argument) : none = <<>> /\ Len(none) = 0
          BY EmptySeq
        <4> QED  BY <3>2, <4>1, NoneCarried
      <3>3. ASSUME NEW arg \in Argument, r = <<arg>>, arg.name = c.returnType, c.returnType # ""
            PROVE  Carries(r, ServerTypes)
        <4>1. r \in Seq(Argument) /\ Len(r) = 1 /\ r[1] = arg
          BY <3>3, Single
        <4>2. Marshallable(arg, ServerTypes)
          BY <1>1, <2>2, <3>3
        <4> QED  BY <4>1, <4>2, OneCarried
      <3> QED  BY <3>1, <3>2, <3>3
    <2>8. at # "lost"
      <3> SUFFICES ASSUME at = "lost"
                   PROVE  FALSE
        OBVIOUS
      <3>1. PICK i, r : i = invoked /\ r = result
        OBVIOUS
      <3>2. \/ ~Carries(args, ClientTypes)
            \/ \E m \in Methods : Invokes(c, m, i, r) /\ ~Carries(r, ServerTypes)
        BY <1>2, <2>1, <2>3, <3>1 DEF Story
      <3> QED  BY <2>5, <2>7, <3>2
    <2>9. at = "returned"
      BY <2>8
    <2>10. \A m \in Methods : Matches(m, HeardOf(c)) <=>
              m.name = call.method /\ m.parameters = parameters /\ call.returnType \in {"", m.returns}
      <3> SUFFICES ASSUME NEW m \in Methods
                   PROVE  Matches(m, HeardOf(c)) <=>
                             m.name = call.method /\ m.parameters = parameters
                             /\ call.returnType \in {"", m.returns}
        OBVIOUS
      <3>1. /\ HeardOf(c).method = call.method /\ HeardOf(c).returnType = call.returnType
            /\ HeardOf(c).arguments = call.arguments
        BY <2>1, <2>3, <2>6 DEF HeardOf
      <3>2. Matches(m, HeardOf(c)) <=>
              /\ m.name = call.method /\ m.parameters = parameters
              /\ call.returnType = "" \/ call.returnType \in ServerTypes \cap {m.returns}
        BY <3>1 DEF Matches
      <3>3. call.returnType = "" \/ call.returnType \in ServerTypes
        BY <2>1, <2>2 DEF Carried
      <3> HIDE DEF parameters
      <3> QED  BY <3>2, <3>3
    <2>11. answer = "true" <=> invoked # {}
      BY <1>2, <2>9 DEF Story, Outcome
    <2>12. invoked # {} <=> \E m \in Methods : Matches(m, HeardOf(c))
      <3>1. PICK s, i, r : s = stream /\ i = invoked /\ r = result
        OBVIOUS
      <3>2. Answers(c, s, i, r)
        BY <1>2, <2>1, <2>9, <3>1 DEF Story
      <3> QED  BY <3>1, <3>2 DEF Answers, Invokes
    <2> HIDE DEF parameters
    <2> QED  BY <2>9, <2>10, <2>11, <2>12
  <1> QED  BY <1>2, StoryHolds, PTL
=============================================================================
