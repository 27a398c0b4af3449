---------------------------- MODULE Marshalling ----------------------------
(***************************************************************************)
(* What becomes of the arguments and the result of one call on the way     *)
(* through CuteIPCMarshaller: sendCallRequest, processMessage, and the     *)
(* response.                                                               *)
(*                                                                         *)
(* A stream is a sequence of items, one for whatever one operator of       *)
(* QDataStream writes and its counterpart reads: a number, a name, a value *)
(* (QMetaType::save and load), an image, or an array of bytes, which is a  *)
(* stream itself.  Nothing in a stream says of what kind the next item is. *)
(***************************************************************************)
EXTENDS Naturals, Sequences, FiniteSets, SequencesExt

CONSTANTS
    Streamable,   \* plain types with stream operators
    Plain,        \* all plain types
    ClientTypes,  \* types registered with the metaobject system at the client
    ServerTypes,  \* ... and at the server
    Values,       \* of every plain type
    Images,
    Methods,      \* the subject's: [name, parameters, returns]
    MaxArguments, \* bound: arguments of a call
    MaxImages     \* bound: images in a container

Types == Plain \cup {"QImage", "QList<QImage>"}

\* "" is no type at all: nothing is returned, or nobody asks for it.
ASSUME TypesAssumption == /\ Streamable \subseteq Plain
                          /\ {"QImage", "QList<QImage>"} \cap Plain = {}
                          /\ ClientTypes \subseteq Types /\ ServerTypes \subseteq Types
                          /\ "" \notin Types
ASSUME BoundsAssumption == MaxArguments \in Nat /\ MaxImages \in Nat
ASSUME MethodsAssumption ==
    \A m \in Methods : m.parameters \in Seq(Types) /\ m.returns \in Types \cup {""}

Data(type) == CASE type = "QImage" -> Images
                [] type = "QList<QImage>" -> BoundedSeq(Images, MaxImages)
                [] OTHER -> Values

Argument == UNION {[name : {t}, data : Data(t)] : t \in Types}

VARIABLES
    at,      \* how far the call is
    call,    \* what the application calls
    stream,  \* the message under way
    invoked, \* the method the server has invoked, and its arguments, if any
    result,  \* what that method has returned for the caller, if anything
    answer,  \* what the call returns
    stored   \* what it stores for the application, if anything

callVars == <<at, call, stream, invoked, result, answer, stored>>

-----------------------------------------------------------------------------
(* CuteIPCMarshaller                                                       *)

\* Mutant: images have no code of their own.
MarshallableByQt(arg, types) == arg.name \in types \cap Streamable

Marshallable(arg, types) ==
    arg.name \in types /\ arg.name \in Streamable \cup {"QImage", "QList<QImage>"}

MarshallQImage(image) == <<"QImage", image>>

\* Mutant: the images of a container are written without their type.
MarshallNamelessImages(images) ==
    <<"QList<QImage>", Len(images)>> \o [i \in DOMAIN images |-> <<images[i]>>]

MarshallContainerOfQImages(images) ==
    <<"QList<QImage>", Len(images)>> \o [i \in DOMAIN images |-> MarshallQImage(images[i])]

MarshallArgument(arg) ==
    CASE arg.name = "QImage" -> MarshallQImage(arg.data)
      [] arg.name = "QList<QImage>" -> MarshallContainerOfQImages(arg.data)
      [] OTHER -> <<arg.name, arg.data>>

\* What is written of the last arguments, of as many as each number says.
Written(args) ==
    LET last[n \in 0..Len(args)] ==
            IF n = 0 THEN <<>> ELSE MarshallArgument(args[Len(args) - n + 1]) \o last[n - 1]
    IN last

\* An argument that cannot be marshalled leaves nothing of the message.
MarshallMessage(m, types) ==
    IF \A i \in DOMAIN m.arguments : Marshallable(m.arguments[i], types)
    THEN <<m.type, m.method, m.returnType, Len(m.arguments)>>
         \o Written(m.arguments)[Len(m.arguments)]
    ELSE <<>>

Failed == [ok |-> FALSE, data |-> <<>>, rest |-> <<>>]
Loaded(data, rest) == [ok |-> TRUE, data |-> data, rest |-> rest]

\* Every image is an array of bytes, in which its type comes first.
LoadContainerOfQImages(s) ==
    LET images == SubSeq(s, 2, 1 + Head(s)) IN
    IF \A i \in DOMAIN images : images[i][1] = "QImage" /\ Len(images[i]) = 2
    THEN Loaded([i \in DOMAIN images |-> images[i][2]], SubSeq(s, 2 + Head(s), Len(s)))
    ELSE Failed

Load(type, s) ==
    CASE type = "QList<QImage>" -> LoadContainerOfQImages(s)
      [] type \in Streamable \cup {"QImage"} -> Loaded(Head(s), Tail(s))
      [] OTHER -> Failed

\* Of a type that is not known here, not even the length is known.
DemarshallArgument(s, types) ==
    IF Head(s) \in types THEN Load(Head(s), Tail(s)) ELSE Failed

\* Mutant: an argument that fails is left out, and the next one is tried.
SkipArgument(read, types) ==
    LET arg == DemarshallArgument(read.rest, types) IN
    IF arg.ok
    THEN [read EXCEPT !.arguments = Append(@, [name |-> Head(read.rest), data |-> arg.data]),
                      !.rest = arg.rest]
    ELSE [read EXCEPT !.rest = SubSeq(@, 3, Len(@))]

\* The first argument that fails ends the message.
NextArgument(read, types) ==
    LET arg == DemarshallArgument(read.rest, types) IN
    IF read.ok /\ arg.ok
    THEN [ok |-> TRUE, rest |-> arg.rest,
          arguments |-> Append(read.arguments, [name |-> Head(read.rest), data |-> arg.data])]
    ELSE [read EXCEPT !.ok = FALSE]

\* What has been read after each of the arguments.
Read(s, argc, types) ==
    LET after[i \in 0..argc] ==
            IF i = 0 THEN [ok |-> TRUE, rest |-> s, arguments |-> <<>>]
            ELSE NextArgument(after[i - 1], types)
    IN after

DemarshallMessage(s, types) ==
    [type |-> s[1], method |-> s[2], returnType |-> s[3],
     arguments |-> Read(SubSeq(s, 5, Len(s)), s[4], types)[s[4]].arguments]

\* What may be loaded for the caller.  Its type is compared with the one that
\* is wanted, and loaded all the same.  QMetaType::type gives 0 for every type
\* that is not known here, so that one of those is taken for a container when
\* containers are not known either: nobody knows what is then read.
DemarshallResponse(s, wanted, types) ==
    CASE s[4] = 0 \/ wanted = "" -> {Failed}
      [] s[4] # 0 /\ wanted # "" /\ {s[5], "QList<QImage>"} \cap types = {} ->
             {Failed, Loaded(<<>>, <<>>)}
      [] OTHER -> {DemarshallArgument(SubSeq(s, 5, Len(s)), types)}

-----------------------------------------------------------------------------

Calls == [type : {"call"}, method : {m.name : m \in Methods},
          returnType : Types \cup {""}, arguments : BoundedSeq(Argument, MaxArguments)]

CallTypeOK ==
    /\ at \in {"call", "request", "response", "returned", "lost"}
    /\ call \in Calls
    /\ \A i \in invoked : i.method \in Methods /\ [j \in DOMAIN i.arguments |->
                                                 i.arguments[j].name] = i.method.parameters
    /\ {result, stored} \subseteq BoundedSeq(Argument, 1)
    /\ answer \in {"none", "true", "false"}

CallInit ==
    /\ at = "call" /\ call \in Calls
    /\ stream = <<>> /\ invoked = {} /\ result = <<>> /\ stored = <<>>
    /\ answer = "none"

\* Nobody answers an empty message.
SendMessage(message, types, next) ==
    /\ stream' = MarshallMessage(message, types)
    /\ at' = IF stream' = <<>> THEN "lost" ELSE next

Request ==
    /\ at = "call"
    /\ SendMessage(call, ClientTypes, "request")
    /\ UNCHANGED <<call, invoked, result, answer, stored>>

\* Mutant: overloads are not told apart.
MatchesName(m, message) ==
    /\ m.name = message.method
    /\ message.returnType = "" \/ message.returnType \in ServerTypes \cap {m.returns}

\* QMetaObject::invokeMethod finds a method by its name and parameters.
Matches(m, message) ==
    /\ m.name = message.method
    /\ m.parameters = [i \in DOMAIN message.arguments |-> message.arguments[i].name]
    /\ message.returnType = "" \/ message.returnType \in ServerTypes \cap {m.returns}

Response(method, arguments) ==
    [type |-> "response", method |-> method, returnType |-> "", arguments |-> arguments]
Error == [type |-> "error", method |-> "error", returnType |-> "", arguments |-> <<>>]

ProcessMessage ==
    LET message == DemarshallMessage(stream, ServerTypes)
    IN  /\ at = "request"
        /\ \/ \E m \in Methods :
                 /\ Matches(m, message)
                 /\ invoked' = {[method |-> m, arguments |-> message.arguments]}
                 /\ IF message.returnType = "" THEN result' = <<>>
                    ELSE \E data \in Data(m.returns) :
                             result' = <<[name |-> m.returns, data |-> data]>>
                 /\ SendMessage(Response(m.name, result'), ServerTypes, "response")
           \/ /\ ~\E m \in Methods : Matches(m, message)
              /\ SendMessage(Error, ServerTypes, "response")
              /\ UNCHANGED <<invoked, result>>
        /\ UNCHANGED <<call, answer, stored>>

\* A value that cannot be loaded is only warned of.
ReadResponse ==
    /\ at = "response"
    /\ at' = "returned"
    /\ answer' = IF stream[1] = "error" THEN "false" ELSE "true"
    /\ \E value \in DemarshallResponse(stream, call.returnType, ClientTypes) :
           stored' = IF stream[1] = "response" /\ value.ok
                     THEN <<[name |-> stream[5], data |-> value.data]>> ELSE <<>>
    /\ UNCHANGED <<call, stream, invoked, result>>

CallNext == Request \/ ProcessMessage \/ ReadResponse

CallSpec == CallInit /\ [][CallNext]_callVars

-----------------------------------------------------------------------------
(* Properties                                                              *)

\* The arguments up to the first whose type the server does not know.
Understood(args) ==
    LET n == CHOOSE n \in 0..Len(args) :
                 /\ \A i \in 1..n : args[i].name \in ServerTypes
                 /\ n < Len(args) => args[n + 1].name \notin ServerTypes
    IN SubSeq(args, 1, n)

\* A method is invoked with the arguments of the call, each of its type and
\* value, in their order.  When the server lacks the type of one, that one and
\* the ones behind it are lost, and an overload without them may be invoked.
ArgumentsArrive ==
    \A i \in invoked : /\ i.method.name = call.method
                       /\ i.arguments = Understood(call.arguments)

\* call returns true only for a method that was invoked, and the application
\* gets that method's result, as the type it has asked for, which is also the
\* type that the server answers with.  Only when the client lacks the type is
\* there no value.
ReturnArrives ==
    answer = "true" =>
        /\ invoked # {}
        /\ IF call.returnType \in ClientTypes
           THEN stored = result /\ [i \in DOMAIN stored |-> stored[i].name] = <<call.returnType>>
           ELSE stored = <<>>

\* "You can use it the same way as you did it locally, with invokeMethod":
\* while both sides know the types of a call and can carry them, the call
\* returns, with true exactly if invokeMethod would find the method.
LikeInvokeMethod ==
    LET parameters == [i \in DOMAIN call.arguments |-> call.arguments[i].name]
        Carried == (ClientTypes \cap ServerTypes) \ (Plain \ Streamable)
    IN  at \in {"returned", "lost"} /\ ToSet(parameters) \cup {call.returnType} \subseteq Carried \cup {""}
        => /\ at = "returned"
           /\ answer = "true" <=> \E m \in Methods :
                  m.name = call.method /\ m.parameters = parameters /\ call.returnType \in {"", m.returns}
=============================================================================
