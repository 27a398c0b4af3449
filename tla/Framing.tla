------------------------------ MODULE Framing ------------------------------
(***************************************************************************)
(* Messages on a socket: a quint32 with the size of the block, then the    *)
(* block.  The sender is sendCallRequest or sendResponse; the receiver is  *)
(* the readyRead / readMessageFromSocket pair, which                       *)
(* CuteIPCServiceConnection and CuteIPCInterfaceConnection both have.      *)
(*                                                                         *)
(* A byte is its position in the stream, so that a header read at the      *)
(* wrong place yields any number.  Bytes reach the receiver in pieces of   *)
(* any length.  They do so while its event loop runs: between two runs of  *)
(* readyRead, or inside an invoked method that runs an event loop of its   *)
(* own, and then without another readyRead, which Qt does not emit         *)
(* recursively.                                                            *)
(***************************************************************************)
EXTENDS Naturals, Sequences

CONSTANTS
    Header,      \* sizeof(quint32)
    Sizes,       \* sizes of the marshalled messages
    Garbage,     \* sizes that bytes which are no header may spell
    MaxMessages  \* bound: messages sent

ASSUME HeaderAssumption == Header \in Nat \ {0}
ASSUME SizesAssumption == Sizes \subseteq Nat /\ Garbage \subseteq Nat
ASSUME MaxMessagesAssumption == MaxMessages \in Nat

VARIABLES
    sent,          \* the messages, each with the position of its header
    written,       \* bytes the sender has written
    arrived,       \* bytes that have reached the receiver's socket
    consumed,      \* bytes read from it
    nextBlockSize, \* m_nextBlockSize
    blockSize,     \* m_block.size(): the block is the last bytes consumed
    pc,            \* where the receiver is
    processed      \* the messages processed, as it found them

vars == <<sent, written, arrived, consumed, nextBlockSize, blockSize, pc, processed>>

Message == [at : Nat, size : Nat]

TypeOK ==
    /\ sent \in Seq(Message) /\ Len(sent) <= MaxMessages
    /\ written \in Nat /\ arrived \in 0..written /\ consumed \in 0..arrived
    /\ nextBlockSize \in Nat
    /\ blockSize \in 0..nextBlockSize
    /\ pc \in {"idle", "read", "process"}
    /\ processed \in Seq(Message)

Init ==
    /\ sent = <<>> /\ processed = <<>>
    /\ written = 0 /\ arrived = 0 /\ consumed = 0
    /\ nextBlockSize = 0 /\ blockSize = 0
    /\ pc = "idle"

-----------------------------------------------------------------------------

Send ==
    /\ Len(sent) < MaxMessages
    /\ \E size \in Sizes :
          /\ sent' = Append(sent, [at |-> written, size |-> size])
          /\ written' = written + Header + size
    /\ UNCHANGED <<arrived, consumed, nextBlockSize, blockSize, pc, processed>>

\* Bytes arrive.  readyRead follows, unless it is running already.
Arrive ==
    /\ pc # "read"
    /\ arrived' \in (arrived + 1)..written
    /\ pc' = IF pc = "idle" THEN "read" ELSE pc
    /\ UNCHANGED <<sent, written, consumed, nextBlockSize, blockSize, processed>>

Available == arrived - consumed

\* Mutant: read() takes whatever has arrived.
Second(m, n) == n

Least(m, n) == IF m < n THEN m ELSE n

\* What a quint32 read at a position yields.
HeadersAt(p) ==
    IF \E i \in DOMAIN sent : sent[i].at = p
    THEN {sent[i].size : i \in {j \in DOMAIN sent : sent[j].at = p}}
    ELSE Garbage

\* Not even a header: wait for the next readyRead.
AwaitHeader ==
    /\ pc = "read" /\ nextBlockSize = 0
    /\ Available < Header
    /\ pc' = "idle"
    /\ UNCHANGED <<sent, written, arrived, consumed, nextBlockSize, blockSize, processed>>

\* Mutant: the block starts anew at every readyRead.
FetchAnew(size, from) ==
    LET length == Least(size, arrived - from) IN
    /\ nextBlockSize' = size
    /\ consumed' = from + length
    /\ blockSize' = length
    /\ IF length = size
       THEN /\ pc' = "process"
            /\ processed' = Append(processed, [at |-> consumed' - size - Header, size |-> size])
       ELSE pc' = "idle" /\ UNCHANGED processed

\* The rest of one call of readMessageFromSocket, for a block of the given
\* size of which the next byte is at the given position.  At the end of the
\* data it waits; else it takes what there is and processes a full block.
\* (When it takes less than it needs nothing is left, so both versions of the
\* closing bytesAvailable() test end the run of readyRead.)
Fetch(size, from) ==
    LET length == Least(size - blockSize, arrived - from) IN
    /\ nextBlockSize' = size
    /\ consumed' = from + length
    /\ blockSize' = blockSize + length
    /\ IF from # arrived /\ blockSize + length = size
       THEN /\ pc' = "process"
            /\ processed' = Append(processed, [at |-> consumed' - size - Header, size |-> size])
       ELSE pc' = "idle" /\ UNCHANGED processed

StartBlock ==
    /\ pc = "read" /\ nextBlockSize = 0
    /\ Available >= Header
    /\ \E size \in HeadersAt(consumed) : Fetch(size, consumed + Header)
    /\ UNCHANGED <<sent, written, arrived>>

ContinueBlock ==
    /\ pc = "read" /\ nextBlockSize # 0
    /\ Fetch(nextBlockSize, consumed)
    /\ UNCHANGED <<sent, written, arrived>>

\* Mutant: readyRead ends after one message.
FinishOne ==
    /\ pc = "process"
    /\ nextBlockSize' = 0 /\ blockSize' = 0
    /\ pc' = "idle"
    /\ UNCHANGED <<sent, written, arrived, consumed, processed>>

\* The message has been processed: go on while there are bytes.
FinishBlock ==
    /\ pc = "process"
    /\ nextBlockSize' = 0 /\ blockSize' = 0
    /\ pc' = IF Available > 0 THEN "read" ELSE "idle"
    /\ UNCHANGED <<sent, written, arrived, consumed, processed>>

ReadyRead == AwaitHeader \/ StartBlock \/ ContinueBlock \/ FinishBlock

Next == Send \/ Arrive \/ ReadyRead

Spec == Init /\ [][Next]_vars

\* The network delivers what was written, and readyRead runs to its end.
FairSpec == Spec /\ WF_vars(Arrive) /\ WF_vars(ReadyRead)

-----------------------------------------------------------------------------
(* Properties                                                              *)

Channel == INSTANCE FrameChannel

\* However the bytes are cut up on their way, the receiver processes the
\* messages that were sent, whole, once and in order.
InOrder == Channel!Spec

\* Every message sent is processed in the end: no piece of the stream, and no
\* point at which readyRead stops, leaves a message lying in the buffer.
AllProcessed ==
    \A n \in 1..MaxMessages : Len(sent) >= n ~> Len(processed) >= n

\* At rest the receiver has left at most a piece of a header in the socket.
NothingLeftBehind ==
    pc = "idle" => Available < Header /\ (nextBlockSize # 0 => Available = 0)
=============================================================================
