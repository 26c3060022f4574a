------------------------------ MODULE KeyMutex ------------------------------
(***************************************************************************)
(* What the mezzanine gate promises: one mutex per cache key.  A job       *)
(* enters only while no other job of its key is inside, and leaves.        *)
(* Nothing else about the gate (who waits, which object implements the     *)
(* mutex, when that object is created or freed) can be observed.           *)
(***************************************************************************)
CONSTANTS Job, KeyOf

VARIABLE inside

Init == inside = {}

Enter(j) == /\ \A i \in inside : KeyOf[i] # KeyOf[j]
            /\ inside' = inside \cup {j}

Leave(j) == /\ j \in inside
            /\ inside' = inside \ {j}

Next == \E j \in Job : Enter(j) \/ Leave(j)

Spec == Init /\ [][Next]_inside
=============================================================================
