----------------------------- MODULE EventFeed -----------------------------
(***************************************************************************)
(* What a consuming service may believe about events: every event of a     *)
(* committed change takes effect, and exactly once.                        *)
(***************************************************************************)
EXTENDS Integers

CONSTANT Events

VARIABLES
    committed, \* events whose change has committed
    effects    \* effects[e]: how often e has taken effect

vars == <<committed, effects>>

Init ==
    /\ committed = {}
    /\ effects = [e \in Events |-> 0]

Commit(e) ==
    /\ e \notin committed
    /\ committed' = committed \cup {e}
    /\ UNCHANGED effects

TakeEffect(e) ==
    /\ e \in committed
    /\ effects[e] = 0
    /\ effects' = [effects EXCEPT ![e] = 1]
    /\ UNCHANGED committed

Next == \E e \in Events : Commit(e) \/ TakeEffect(e)

Safety == Init /\ [][Next]_vars

Spec == Safety /\ \A e \in Events : WF_vars(TakeEffect(e))
=============================================================================
