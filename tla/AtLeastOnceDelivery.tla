------------------------- MODULE AtLeastOnceDelivery -------------------------
(***************************************************************************)
(* What at-least-once delivery promises a consumer group about one         *)
(* partition, whatever pipeline provides it: the group's offset only moves *)
(* over records that were handled, and never moves back.  A record may be  *)
(* handled any number of times.                                            *)
(***************************************************************************)
EXTENDS Integers

CONSTANT LogEnd

VARIABLES
    handled,      \* the records handled at least once
    committed     \* the offset a restarted consumer resumes at

vars == <<handled, committed>>

Init == handled = {} /\ committed = 0

Handle(offset) ==
    /\ handled' = handled \union {offset}
    /\ UNCHANGED committed

Advance(offset) ==
    /\ committed < offset
    /\ 0 .. offset - 1 \subseteq handled
    /\ committed' = offset
    /\ UNCHANGED handled

Next ==
    \/ \E offset \in 0 .. LogEnd - 1 : Handle(offset)
    \/ \E offset \in 1 .. LogEnd : Advance(offset)

Spec == Init /\ [][Next]_vars

=============================================================================
