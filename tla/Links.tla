------------------------------- MODULE Links -------------------------------
(***************************************************************************)
(* What CuteIPCInterface promises about local signals: a set of links from *)
(* a signal of a local object to a remote method.  A link is made only     *)
(* after it has been asked for, and goes only when it is taken back or its *)
(* object is no more.                                                      *)
(***************************************************************************)
CONSTANTS Objects, Signals, Methods

VARIABLES
    asked, \* the links applications wait for
    links  \* the links there are

Link == [object : Objects, signal : Signals, method : Methods]

Init == asked = {} /\ links = {}

Ask(l) ==
    /\ asked' = asked \cup {l}
    /\ UNCHANGED links

\* The same link may be waited for more than once.
Settle(l) ==
    /\ l \in asked
    /\ asked' \in {asked, asked \ {l}}
    /\ links' \in {links, links \cup {l}}

Break(l) ==
    /\ links' = links \ {l}
    /\ UNCHANGED asked

Drop(o) ==
    /\ links' = {l \in links : l.object # o}
    /\ UNCHANGED asked

Next == \/ \E l \in Link : Ask(l) \/ Settle(l) \/ Break(l)
        \/ \E o \in Objects : Drop(o)

Spec == Init /\ [][Next]_<<asked, links>>
=============================================================================
