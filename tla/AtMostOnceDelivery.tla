------------------------- MODULE AtMostOnceDelivery --------------------------
(***************************************************************************)
(* What at-most-once delivery promises a consumer group about one          *)
(* partition: a record is given to the Processor only once the group's     *)
(* offset is past it, at most one time, and the offset never moves back.   *)
(***************************************************************************)
EXTENDS Integers

CONSTANT LogEnd

VARIABLES
    starts,       \* how often each record was given to the Processor
    committed     \* the offset a restarted consumer resumes at

vars == <<starts, committed>>

Init == starts = [offset \in 0 .. LogEnd - 1 |-> 0] /\ committed = 0

Advance(offset) ==
    /\ committed < offset
    /\ committed' = offset
    /\ UNCHANGED starts

Start(offset) ==
    /\ offset < committed
    /\ starts[offset] = 0
    /\ starts' = [starts EXCEPT ![offset] = 1]
    /\ UNCHANGED committed

Next ==
    \/ \E offset \in 1 .. LogEnd : Advance(offset)
    \/ \E offset \in 0 .. LogEnd - 1 : Start(offset)

Spec == Init /\ [][Next]_vars

=============================================================================
