------------------------------ MODULE WorkPool ------------------------------
(* What a pool of workers promises: every item is begun once and ended once, *)
(* and the pool returns only when all of them have ended.  The abstract      *)
(* specification of DownloadPool.                                            *)
CONSTANT Items

VARIABLES todo, doing, returned

Init == todo = Items /\ doing = {} /\ returned = FALSE

Begin(i) ==
    /\ i \in todo
    /\ todo' = todo \ {i} /\ doing' = doing \cup {i}
    /\ UNCHANGED returned

End(i) ==
    /\ i \in doing
    /\ doing' = doing \ {i}
    /\ UNCHANGED <<todo, returned>>

Return ==
    /\ todo = {} /\ doing = {} /\ ~returned
    /\ returned' = TRUE
    /\ UNCHANGED <<todo, doing>>

Next == Return \/ \E i \in Items : Begin(i) \/ End(i)

Spec == Init /\ [][Next]_<<todo, doing, returned>>
=============================================================================
