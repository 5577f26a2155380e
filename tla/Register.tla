------------------------------ MODULE Register ------------------------------
(***************************************************************************)
(* What an atomic write of a file promises: a reader finds the old or the  *)
(* new contents, never something else, and so does whoever reads after a   *)
(* power loss; but a write may only survive that once it was flushed.      *)
(***************************************************************************)
CONSTANTS Paths, Values

VARIABLES
    value,    \* what a reader of each path finds
    survives  \* what a power loss may leave there

vars == <<value, survives>>

Init ==
    /\ value \in [Paths -> Values]
    /\ survives = [path \in Paths |-> {value[path]}]

Write(path) ==
    /\ value' \in {[value EXCEPT ![path] = v] : v \in Values}
    /\ survives' = [survives EXCEPT ![path] = @ \cup {value'[path]}]

Flush(path) ==
    /\ survives' = [survives EXCEPT ![path] = {value[path]}]
    /\ UNCHANGED value

PowerLoss ==
    /\ value' \in [Paths -> Values]
    /\ \A path \in Paths : value'[path] \in survives[path]
    /\ survives' = [path \in Paths |-> {value'[path]}]

Next ==
    \/ \E path \in Paths : Write(path) \/ Flush(path)
    \/ PowerLoss

Spec == Init /\ [][Next]_vars

=============================================================================
