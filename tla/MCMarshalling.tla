--------------------------- MODULE MCMarshalling ---------------------------
(* A small instance of Marshalling: overloads, and types that one side or   *)
(* stream operators are missing for.                                        *)
EXTENDS Marshalling

CONSTANTS v1, v2, i1, i2

MCMethods ==
    {[name |-> "f", parameters |-> <<>>, returns |-> ""],
     [name |-> "f", parameters |-> <<"int">>, returns |-> "int"],
     [name |-> "f", parameters |-> <<"int", "QList<QImage>">>, returns |-> "QList<QImage>"],
     [name |-> "g", parameters |-> <<"QList<QImage>", "int">>, returns |-> "QImage"],
     [name |-> "h", parameters |-> <<"QImage">>, returns |-> "Opaque"],
     [name |-> "h", parameters |-> <<"int">>, returns |-> "Remote"]}
=============================================================================
